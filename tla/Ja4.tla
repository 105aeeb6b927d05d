--------------------------------- MODULE Ja4 ---------------------------------
(***************************************************************************)
(* TLS fingerprinting of a go-away server (src/utils/fingerprint.go,      *)
(* fingerprint_modern.go) and its one reader, the request logger          *)
(* (src/lib/http.go GetLoggerForRequest).                                 *)
(*                                                                         *)
(* ConnContext gives every accepted connection an empty TLSFingerprint.   *)
(* The GetCertificate wrapper computes JA3N and JA4 from the ClientHello, *)
(* stores both in it and hands over to the configured GetCertificate, if  *)
(* any.  Every request on the connection logs the stored fingerprints.    *)
(*                                                                         *)
(* Numbers keep their value and their uint16 width where the code does    *)
(* arithmetic on them.  The JA4 a-field is built character by character,  *)
(* since its layout is what is checked; the md5 and sha256 digests are    *)
(* abstracted to the (collision-free) input they hash.                    *)
(***************************************************************************)
EXTENDS Naturals, Sequences, FiniteSets, Bitwise, TLC

CONSTANTS
  Conns,        \* accepted TLS connections (model values)
  Hellos,       \* ClientHelloInfo values a client may send
  MaxRequests,  \* requests served per connection
  Nil           \* an atomic.Pointer that was never stored

(* A ClientHello as crypto/tls hands it to GetCertificate.                *)
(* alpn is the first protocol of SupportedProtos as its characters, <<>> *)
(* when none is offered (crypto/tls refuses empty protocol names).        *)
HelloFields == {"versions", "ciphers", "extensions", "serverName", "alpn",
                "schemes", "curves", "points"}

(* Constants of fingerprint.go and crypto/tls.                            *)
greaseMask == 3855           \* 0x0F0F
greaseValue == 2570          \* 0x0a0a
extensionServerName == 0
extensionALPN == 16
extensionSupportedVersions == 43
VersionSSL30 == 768
VersionTLS10 == 769
VersionTLS11 == 770
VersionTLS12 == 771
VersionTLS13 == 772

IsGrease(v) == (v & greaseMask) = greaseValue
NonGrease(s) == SelectSeq(s, LAMBDA v : ~IsGrease(v))

(* strconv.AppendUint(buf, n, 10): the decimal digits of n.                *)
RECURSIVE Decimal(_)
Decimal(n) ==
  LET d == <<"0", "1", "2", "3", "4", "5", "6", "7", "8", "9">>[(n % 10) + 1]
  IN IF n < 10 THEN <<d>> ELSE Decimal(n \div 10) \o <<d>>

(* The highest non-GREASE version offered, 0 if there is none.             *)
MaxVersion(vs) ==
  LET s == {vs[i] : i \in {j \in DOMAIN vs : ~IsGrease(vs[j])}}
  IN IF s = {} THEN 0 ELSE CHOOSE v \in s : \A u \in s : u <= v

Sorted(s) == SortSeq(s, <)
Contains(s, x) == \E i \in DOMAIN s : s[i] = x

(* crypto/tls sets ServerName only from a server_name extension.          *)
ASSUME \A h \in Hellos :
  /\ DOMAIN h = HelloFields
  /\ h.serverName => Contains(h.extensions, extensionServerName)

-----------------------------------------------------------------------------
(* tlsFingerprintJA3 with sortExtensions: the version (capped to TLS 1.2  *)
(* when supported_versions is sent next to a GREASE version), ciphers in  *)
(* order, sorted extensions, curves, points; GREASE values dropped.  The  *)
(* comma/dash string and its md5 are abstracted to the tuple of fields.   *)
tlsFingerprintJA3(h) ==
  LET v == MaxVersion(h.versions)
      hasGrease == \E i \in DOMAIN h.versions : IsGrease(h.versions[i])
      sslVersion == IF Contains(h.extensions, extensionSupportedVersions)
                       /\ hasGrease /\ v > VersionTLS12
                    THEN VersionTLS12 ELSE v
  IN <<sslVersion, NonGrease(h.ciphers), NonGrease(Sorted(h.extensions)),
       NonGrease(h.curves), h.points>>

(* The version characters of the JA4 a-field.  The default branch        *)
(* subtracts 0x0201 in uint16 and appends the two bytes in decimal.       *)
Ja4VersionBytes(v) ==
  CASE v = VersionSSL30 -> <<"s", "3">>
    [] v = VersionTLS10 -> <<"1", "0">>
    [] v = VersionTLS11 -> <<"1", "1">>
    [] v = VersionTLS12 -> <<"1", "2">>
    [] v = VersionTLS13 -> <<"1", "3">>
    [] OTHER -> LET w == (v + 65536 - 513) % 65536
                IN Decimal(w \div 256) \o Decimal(w % 256)

(* A count as two digits: zero-padded below 10, "99" above 99.             *)
Ja4Count(n) ==
  IF n < 10 THEN <<"0">> \o Decimal(n)
  ELSE IF n > 99 THEN <<"9", "9">> ELSE Decimal(n)

(* tlsFingerprintJA4: the a-field buffer, then copy into A [10]byte; b and *)
(* c are the sha256 of the sorted ciphers and of the sorted extensions    *)
(* (less SNI and ALPN) with the signature schemes, zero for empty input.  *)
tlsFingerprintJA4(h) ==
  LET exts == NonGrease(h.extensions)
      buf == <<"t">> \o Ja4VersionBytes(MaxVersion(h.versions))
             \o <<IF Contains(h.extensions, extensionServerName) /\ h.serverName
                  THEN "d" ELSE "i">>
             \o Ja4Count(Len(NonGrease(h.ciphers)))
             \o Ja4Count(Len(exts))
             \o (IF Len(h.alpn) > 1
                 THEN <<Head(h.alpn), h.alpn[Len(h.alpn)]>>
                 ELSE <<"0", "0">>)
      ext == Sorted(SelectSeq(exts, LAMBDA e : e \notin {extensionALPN, extensionServerName}))
      sch == NonGrease(h.schemes)
  IN [a |-> [i \in 1..10 |-> buf[i]],
      b |-> Sorted(NonGrease(h.ciphers)),
      c |-> IF sch = <<>> THEN <<ext>> ELSE <<ext, sch>>]

(* buildTLSFingerprint                                                     *)
buildTLSFingerprint(h) == [ja3n |-> tlsFingerprintJA3(h), ja4 |-> tlsFingerprintJA4(h)]

-----------------------------------------------------------------------------
VARIABLES
  cpc,     \* per connection: "none", "accepted", "open", "closed"
  hello,   \* per connection: the ClientHello it sent, or Nil
  fp,      \* per connection: its TLSFingerprint, [ja3n, ja4] pointers
  served,  \* per connection: requests served
  logged   \* history: <<connection, ja3n, ja4>> of every request logged

vars == <<cpc, hello, fp, served, logged>>

Init ==
  /\ cpc = [c \in Conns |-> "none"]
  /\ hello = [c \in Conns |-> Nil]
  /\ fp = [c \in Conns |-> [ja3n |-> Nil, ja4 |-> Nil]]
  /\ served = [c \in Conns |-> 0]
  /\ logged = {}

(* ConnContext: the accepted connection's context carries a new, empty   *)
(* TLSFingerprint.                                                         *)
ConnContext(c) ==
  /\ cpc[c] = "none"
  /\ cpc' = [cpc EXCEPT ![c] = "accepted"]
  /\ fp' = [fp EXCEPT ![c] = [ja3n |-> Nil, ja4 |-> Nil]]
  /\ UNCHANGED <<hello, served, logged>>

(* The GetCertificate wrapper of applyTLSFingerprinter, on a full         *)
(* handshake: both fingerprints are stored in the connection's            *)
(* TLSFingerprint, then the configured GetCertificate runs; without one,  *)
(* crypto/tls falls back to the config's certificates.  Either may fail   *)
(* the handshake.                                                          *)
GetCertificate(c) ==
  /\ cpc[c] = "accepted"
  /\ \E h \in Hellos, ok \in BOOLEAN :
       /\ hello' = [hello EXCEPT ![c] = h]
       /\ fp' = [fp EXCEPT ![c] = buildTLSFingerprint(h)]
       /\ cpc' = [cpc EXCEPT ![c] = IF ok THEN "open" ELSE "closed"]
  /\ UNCHANGED <<served, logged>>

(* A TLS 1.3 handshake that resumes a session with a PSK: crypto/tls     *)
(* picks no certificate, so GetCertificate, and the fingerprinter, never *)
(* run.                                                                    *)
Resume(c) ==
  /\ cpc[c] = "accepted"
  /\ cpc' = [cpc EXCEPT ![c] = "open"]
  /\ UNCHANGED <<hello, fp, served, logged>>

(* GetTLSFingerprint: the TLSFingerprint ConnContext put in the request's *)
(* context; every connection here is a TLS one, so it is found.          *)
GetTLSFingerprint(c) == fp[c]

(* GetLoggerForRequest: each of JA3N() and JA4() is logged when it was    *)
(* stored.                                                                 *)
LogRequest(c) ==
  /\ cpc[c] = "open" /\ served[c] < MaxRequests
  /\ served' = [served EXCEPT ![c] = @ + 1]
  /\ logged' = logged \cup {<<c, GetTLSFingerprint(c).ja3n, GetTLSFingerprint(c).ja4>>}
  /\ UNCHANGED <<cpc, hello, fp>>

(* The client or the server closes an open connection.                    *)
Close(c) ==
  /\ cpc[c] = "open"
  /\ cpc' = [cpc EXCEPT ![c] = "closed"]
  /\ UNCHANGED <<hello, fp, served, logged>>

Next == \E c \in Conns :
          ConnContext(c) \/ GetCertificate(c) \/ Resume(c) \/ LogRequest(c) \/ Close(c)

Spec == Init /\ [][Next]_vars

-----------------------------------------------------------------------------
TypeOK ==
  /\ cpc \in [Conns -> {"none", "accepted", "open", "closed"}]
  /\ hello \in [Conns -> Hellos \cup {Nil}]
  /\ served \in [Conns -> 0..MaxRequests]
  /\ \A c \in Conns : fp[c].ja4 # Nil => fp[c].ja4.a \in [1..10 -> STRING]

(* The a-field layout a reader of a JA4 log line relies on, and the      *)
(* fixed ten bytes of TLSFingerprintJA4.A are sized for: "t", two version *)
(* characters, then at position 4 "d" or "i" for SNI and at 5-6 and 7-8  *)
(* the cipher and extension counts, as two digits capped at 99.  Every   *)
(* JA4 a request logs must carry these for its connection's ClientHello, *)
(* whatever versions the client offered.                                  *)
Ja4ALayout ==
  LET two(n) == IF n > 99 THEN <<"9", "9">>
                ELSE <<ToString(n \div 10), ToString(n % 10)>>
  IN \A e \in logged :
       e[3] # Nil =>
         LET h == hello[e[1]]
         IN SubSeq(e[3].a, 4, 8) =
              <<IF h.serverName THEN "d" ELSE "i">>
              \o two(Len(NonGrease(h.ciphers))) \o two(Len(NonGrease(h.extensions)))
=============================================================================
