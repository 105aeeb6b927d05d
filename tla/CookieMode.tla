------------------------------ MODULE CookieMode ------------------------------
(***************************************************************************)
(* The cookie challenge mode (src/lib/state.go, NewState case "cookie")   *)
(* in its round trip with one browser.                                    *)
(*                                                                         *)
(* A request under a CHALLENGE rule first has its token cookie checked;   *)
(* a valid token passes it to the backend.  Otherwise the cookie mode's   *)
(* ServeChallenge runs: on a URL already carrying the marker argument     *)
(* __goaway_challenge=<name> it clears the cookie and denies (403);       *)
(* otherwise it issues a token bound to the request's key and window,     *)
(* sets it as a cookie and redirects (307) to the same URL with the       *)
(* marker.  A token is valid only in the window it was issued for.        *)
(*                                                                         *)
(* The browser follows redirects by itself, keeps cookies or not, and     *)
(* after a denial goes back to the plain link.                            *)
(***************************************************************************)
EXTENDS Naturals

CONSTANTS
  MaxBucket,     \* last expiry window modelled
  MaxSwitches    \* address family switches modelled

Buckets == 0..MaxBucket
Kinds == {"keeps", "drops", "tampers"}   \* what the client does with Set-Cookie
Families == {"ipv4", "ipv6"}
(* A token binds the challenge key, derived from the client's address     *)
(* family and the window, and is signed by the process key.               *)
Token == [bucket : Buckets, family : Families, signed : BOOLEAN]
(* The value of the URL's __goaway_challenge argument: absent, the name   *)
(* of another challenge, or this one's.                                   *)
ChallengeName == "cookie"
Markers == {"none", "other", ChallengeName}
NoToken == [bucket |-> 0, family |-> "ipv4", signed |-> FALSE]   \* never validates

VARIABLES
  now,       \* current expiry window
  family,    \* address family the browser connects over
  switches,  \* family switches so far
  kind,      \* the client's cookie behaviour
  link,      \* the marker of the link the user opens
  url,       \* the marker of the URL the browser is on
  location,  \* the marker of the Location of the last 307
  jar,       \* the token cookie the browser holds, or NoToken
  cpc,       \* "idle", "redirected", "denied", "passed"
  redirects  \* 307 responses since the last other response

vars == <<now, family, switches, kind, link, url, location, jar, cpc, redirects>>

Init ==
  /\ now = 0
  /\ family \in Families
  /\ switches = 0
  /\ kind \in Kinds
  /\ link \in {"none", "other"}
  /\ url = link
  /\ location = link
  /\ jar = NoToken
  /\ cpc = "idle"
  /\ redirects = 0

-----------------------------------------------------------------------------
(* challenge token check before the mode runs: the signature verifies and *)
(* the key and expiry it binds are those of the current window.          *)
TokenValid(tok) == tok.signed /\ tok.bucket = now /\ tok.family = family

(* Cookie headers of a response: none, utils.ClearCookie, utils.SetCookie. *)
NoHeader     == [op |-> "none", tok |-> NoToken]
ClearHeader  == [op |-> "clear", tok |-> NoToken]
SetHeader(t) == [op |-> "set", tok |-> t]

(* Mutant: the marker is set on a copy of the query that is never        *)
(* encoded back into the URL.                                              *)
SelfRedirectUnmarked(u) == u

(* The self-redirect target: the request URL with __goaway_challenge set  *)
(* to the challenge name, replacing any value it had.                     *)
SelfRedirect(u) == ChallengeName

Issued == SetHeader([bucket |-> now, family |-> family, signed |-> TRUE])

(* Mutant: the Set-Cookie of the new token is followed by a Clear.       *)
ServeCookieClearAfterSet(u) ==
  IF u = ChallengeName THEN [status |-> "403", cookie |-> ClearHeader, location |-> u]
  ELSE [status |-> "307", cookie |-> ClearHeader, location |-> SelfRedirect(u)]

(* Mutant: having set the cookie, the mode lets the request through.     *)
ServeCookiePassOnIssue(u) ==
  IF u = ChallengeName THEN [status |-> "403", cookie |-> ClearHeader, location |-> u]
  ELSE [status |-> "200", cookie |-> Issued, location |-> u]

(* Mutant: the token is issued for the window after the current one.     *)
ServeCookieNextWindow(u) ==
  IF u = ChallengeName THEN [status |-> "403", cookie |-> ClearHeader, location |-> u]
  ELSE [status |-> "307", location |-> SelfRedirect(u),
        cookie |-> SetHeader([bucket |-> now + 1, family |-> family, signed |-> TRUE])]

(* The cookie mode's ServeChallenge: on a URL whose marker is this        *)
(* challenge's, ClearCookie and 403; otherwise SetCookie of a new token   *)
(* and a 307 to the self-redirect target.                                 *)
ServeCookie(u) ==
  IF u = ChallengeName THEN [status |-> "403", cookie |-> ClearHeader, location |-> u]
  ELSE [status |-> "307", cookie |-> Issued, location |-> SelfRedirect(u)]

(* A token check that fails hands the request to the mode.                *)
Respond(u, tok) ==
  IF TokenValid(tok) THEN [status |-> "200", cookie |-> NoHeader, location |-> u]
  ELSE ServeCookie(u)

(* How the browser's jar takes a cookie header.                           *)
Store(k, old, hdr) ==
  CASE hdr.op = "none" -> old
    [] hdr.op = "clear" -> IF k = "drops" THEN old ELSE NoToken
    [] hdr.op = "set" -> (CASE k = "keeps" -> hdr.tok
                            [] k = "drops" -> old
                            [] k = "tampers" -> [hdr.tok EXCEPT !.signed = FALSE])

(* The URL of the next request: the Location of a 307, or the link the    *)
(* user started from.                                                     *)
NextUrl == IF cpc = "redirected" THEN location ELSE link

(* One request and its response (the handler keeps no state between      *)
(* requests, so the pair is one step).                                    *)
Send ==
  /\ cpc \in {"idle", "redirected", "denied"}
  /\ LET u == NextUrl
         r == Respond(u, jar)
     IN /\ url' = u
        /\ jar' = Store(kind, jar, r.cookie)
        /\ location' = r.location
        /\ cpc' = CASE r.status = "200" -> "passed"
                    [] r.status = "307" -> "redirected"
                    [] r.status = "403" -> "denied"
        /\ redirects' = IF r.status = "307" THEN redirects + 1 ELSE 0
  /\ UNCHANGED <<now, family, switches, kind, link>>

(* The expiry window advances.                                            *)
Tick ==
  /\ now < MaxBucket
  /\ now' = now + 1
  /\ UNCHANGED <<family, switches, kind, link, url, location, jar, cpc, redirects>>

(* A dual-stack browser switches address family between two requests.    *)
SwitchFamily ==
  /\ switches < MaxSwitches
  /\ switches' = switches + 1
  /\ \E f \in Families \ {family} : family' = f
  /\ UNCHANGED <<now, kind, link, url, location, jar, cpc, redirects>>

Next == Send \/ Tick \/ SwitchFamily

(* The browser follows a redirect and retries after a denial.             *)
Spec == Init /\ [][Next]_vars /\ WF_vars(Send)

-----------------------------------------------------------------------------
TypeOK ==
  /\ now \in Buckets
  /\ family \in Families
  /\ switches \in 0..MaxSwitches
  /\ kind \in Kinds
  /\ link \in Markers /\ url \in Markers /\ location \in Markers
  /\ jar \in Token
  /\ cpc \in {"idle", "redirected", "denied", "passed"}
  /\ redirects \in Nat

(* The marker argument ends the redirect chain: whatever the client does  *)
(* with cookies and whatever marker its link carried, the 307's Location  *)
(* carries the marker the mode's guard denies, so no two 307 responses    *)
(* follow each other (spec 4.4: the round trip proves redirect-following, *)
(* and a client that fails it gets 403, not another redirect).            *)
NoRedirectLoop == redirects <= 1

(* A client that does not keep the token cookie, or alters it, never      *)
(* reaches the backend, however many times it follows or retries (spec   *)
(* 4.4 and the cookie-mode scenario of spec 8).                           *)
CookielessNeverPasses == kind \in {"drops", "tampers"} => cpc # "passed"

(* A browser that keeps cookies, follows the redirect and retries after a *)
(* denial eventually reaches the backend, even when a window boundary     *)
(* falls between the 307 and the marked retry.                            *)
CookieClientEventuallyPasses == kind = "keeps" => <>(cpc = "passed")
=============================================================================
