----------------------------- MODULE HttpChallenge -----------------------------
(***************************************************************************)
(* The http challenge mode (src/lib/state.go, NewState case "http") over  *)
(* a client's successive requests.                                        *)
(*                                                                         *)
(* Before the mode runs, the request's go-away token is checked: the      *)
(* signature and expiry (outside src/), then the mode's Verify, which     *)
(* recomputes sha256(cookie value, key, public key) from the upstream     *)
(* cookie the request carries and compares it with the token's binding.   *)
(* Without a valid token, ServeChallenge forwards the request's headers   *)
(* to the upstream URL with state.Client.Do and, on the expected status,  *)
(* issues a token bound to the cookie value and the request's window.    *)
(* The outbound request is built with http.NewRequest (no context) and    *)
(* the client has no Timeout.                                             *)
(*                                                                         *)
(* The client's upstream session cookie may change between requests (log  *)
(* in, rotation, expiry), windows roll over, and the client may           *)
(* disconnect while its request is being handled.                         *)
(***************************************************************************)
EXTENDS Naturals, FiniteSets

CONSTANTS
  Values,          \* upstream session cookie values (model values)
  NoValue,         \* the request carries no such cookie
  ExpectedCookie,  \* the "http-cookie" parameter is set
  MaxBucket,       \* last expiry window modelled
  MaxRequests,     \* requests the client sends
  MaxRotations     \* changes of the client's upstream cookie

Buckets == 0..MaxBucket
Cookies == Values \cup {NoValue}
(* A go-away token of this challenge: window, cookie value it binds, and  *)
(* whether the process key signed it.                                     *)
Token == [bucket : Buckets, binding : Cookies, signed : BOOLEAN]
NoToken == [bucket |-> 0, binding |-> NoValue, signed |-> FALSE]

VARIABLES
  now,        \* current expiry window
  cookie,     \* the client's upstream session cookie
  rotations,  \* changes of it so far
  jar,        \* the client's go-away token cookie, or NoToken
  hpc,        \* handler: "idle", "serving", "calling"
  reqBucket,  \* window (expiry) of the request being handled
  gone,       \* the client has disconnected from that request
  sent,       \* requests sent so far
  result,     \* result of the last finished request: "none", "pass", "continue"
  approved,   \* history: <<cookie, window>> pairs the upstream accepted
  passes      \* history: <<cookie, window>> of every request that passed

vars == <<now, cookie, rotations, jar, hpc, reqBucket, gone, sent, result, approved, passes>>

Init ==
  /\ now = 0
  /\ cookie \in Cookies
  /\ rotations = 0
  /\ jar = NoToken
  /\ hpc = "idle"
  /\ reqBucket = 0
  /\ gone = FALSE
  /\ sent = 0
  /\ result = "none"
  /\ approved = {}
  /\ passes = {}

-----------------------------------------------------------------------------
(* Mutant: the binding hashes the key alone, not the cookie value.       *)
TokenValidUnbound(tok, c, b) ==
  /\ tok.signed /\ tok.bucket = b
  /\ ~(ExpectedCookie /\ c = NoValue)

(* Token check: signature and expiry (spec 4.4), then Verify: no cookie   *)
(* when one is expected fails; otherwise the hash of the cookie value and *)
(* the key must equal the token's binding.                                *)
TokenValid(tok, c, b) ==
  /\ tok.signed /\ tok.bucket = b
  /\ ~(ExpectedCookie /\ c = NoValue)
  /\ tok.binding = (IF ExpectedCookie THEN c ELSE NoValue)

(* The request is finished with the given result.                         *)
Finish(res) ==
  /\ hpc' = "idle"
  /\ result' = res
  /\ passes' = IF res = "pass" THEN passes \cup {<<cookie, reqBucket>>} ELSE passes

(* Mutant: the request goes upstream without the expected cookie.         *)
ServeStartNoCookieCheck ==
  /\ hpc = "serving"
  /\ IF TokenValid(jar, cookie, reqBucket)
     THEN Finish("pass") /\ UNCHANGED jar
     ELSE hpc' = "calling" /\ UNCHANGED <<jar, result, passes>>
  /\ UNCHANGED <<now, cookie, rotations, reqBucket, gone, sent, approved>>

(* ServeChallenge up to the outbound call: a valid token passes; a        *)
(* missing expected cookie continues to the next challenge.               *)
ServeStart ==
  /\ hpc = "serving"
  /\ CASE TokenValid(jar, cookie, reqBucket) -> Finish("pass") /\ UNCHANGED jar
       [] ExpectedCookie /\ cookie = NoValue -> Finish("continue") /\ UNCHANGED jar
       [] OTHER -> hpc' = "calling" /\ UNCHANGED <<jar, result, passes>>
  /\ UNCHANGED <<now, cookie, rotations, reqBucket, gone, sent, approved>>

(* NewRequest or Client.Do fails: continue to the next challenge.         *)
UpstreamError ==
  /\ hpc = "calling"
  /\ Finish("continue")
  /\ UNCHANGED <<now, cookie, rotations, jar, reqBucket, gone, sent, approved>>

(* A Set-Cookie or Clear reaches the jar only of a client still there.    *)
Deliver(tok) == jar' = IF gone THEN jar ELSE tok

(* The upstream answers.  Another status clears the token cookie and      *)
(* continues; the expected one issues a token bound to the cookie value   *)
(* and the request's expiry, sets it, and passes; when signing the token  *)
(* fails, the token cookie is cleared and the request passes all the same. *)
UpstreamAnswer ==
  /\ hpc = "calling"
  /\ \E accepted, signedOk \in BOOLEAN :
       IF accepted
       THEN /\ approved' = approved \cup {<<cookie, reqBucket>>}
            /\ Deliver(IF signedOk
                       THEN [bucket |-> reqBucket, signed |-> TRUE,
                             binding |-> IF ExpectedCookie THEN cookie ELSE NoValue]
                       ELSE NoToken)
            /\ Finish("pass")
       ELSE /\ Deliver(NoToken)
            /\ Finish("continue")
            /\ UNCHANGED approved
  /\ UNCHANGED <<now, cookie, rotations, reqBucket, gone, sent>>

-----------------------------------------------------------------------------
(* The client sends its next request; key and expiry are those of now.    *)
Arrive ==
  /\ hpc = "idle" /\ sent < MaxRequests
  /\ hpc' = "serving"
  /\ reqBucket' = now
  /\ gone' = FALSE
  /\ sent' = sent + 1
  /\ UNCHANGED <<now, cookie, rotations, jar, result, approved, passes>>

(* The client closes the connection of the request being handled.         *)
Disconnect ==
  /\ hpc \in {"serving", "calling"} /\ ~gone
  /\ gone' = TRUE
  /\ UNCHANGED <<now, cookie, rotations, jar, hpc, reqBucket, sent, result, approved, passes>>

(* The client's upstream session cookie changes between requests.         *)
Rotate ==
  /\ hpc = "idle" /\ rotations < MaxRotations
  /\ rotations' = rotations + 1
  /\ \E c \in Cookies \ {cookie} : cookie' = c
  /\ UNCHANGED <<now, jar, hpc, reqBucket, gone, sent, result, approved, passes>>

(* The expiry window advances, also while a request is being handled.     *)
Tick ==
  /\ now < MaxBucket
  /\ now' = now + 1
  /\ UNCHANGED <<cookie, rotations, jar, hpc, reqBucket, gone, sent, result, approved, passes>>

Handler == ServeStart \/ UpstreamError \/ UpstreamAnswer

Next == Handler \/ Arrive \/ Disconnect \/ Rotate \/ Tick

(* The handler runs; the upstream eventually answers or the call fails.   *)
Spec == Init /\ [][Next]_vars /\ WF_vars(Handler)

(* The handler runs; the upstream may stall.                              *)
SpecStall == Init /\ [][Next]_vars /\ WF_vars(ServeStart)

-----------------------------------------------------------------------------
(* Tokens bind a present cookie when one is expected.                     *)
TypeOK ==
  /\ now \in Buckets
  /\ cookie \in Cookies
  /\ rotations \in 0..MaxRotations
  /\ jar \in Token
  /\ jar.signed /\ ExpectedCookie => jar.binding \in Values
  /\ hpc \in {"idle", "serving", "calling"}
  /\ reqBucket \in Buckets
  /\ gone \in BOOLEAN
  /\ sent \in 0..MaxRequests
  /\ result \in {"none", "pass", "continue"}
  /\ approved \subseteq Cookies \X Buckets
  /\ passes \subseteq Cookies \X Buckets

(* Every request that passes carries a cookie value the upstream accepted *)
(* in the same window: a token issued for one session cookie never passes *)
(* a request carrying another, nor one in a later window (the binding     *)
(* hash of Verify and the token's expiry, spec 4.3).                      *)
PassesOnlyApproved == passes \subseteq approved

(* A client that disconnects has its in-flight outbound call aborted and  *)
(* its handler released (spec 5: cancellation must reach the outbound     *)
(* verification call).                                                    *)
DisconnectReleasesHandler == gone ~> hpc = "idle"
=============================================================================
