-------------------------------- MODULE MCJa4 --------------------------------
(***************************************************************************)
(* ClientHellos for Ja4: version lists as crypto/tls reports them for     *)
(* clients it can negotiate with (with a GREASE value, legacy lists       *)
(* without supported_versions, and a TLS 1.3 draft next to TLS 1.2),      *)
(* cipher and extension lists below 10, from 10 to 99 and above 99, with  *)
(* and without SNI, ALPN and GREASE.                                      *)
(***************************************************************************)
EXTENDS Ja4

\* TLS 1.3 draft 23 (0x7f17), offered by pre-RFC clients
Draft23 == 32535

MCVersions == {<<2570, VersionTLS13, VersionTLS12>>,
               <<VersionTLS12, VersionTLS11, VersionTLS10>>,
               <<Draft23, VersionTLS12>>}

\* distinct TLS 1.3 and ECDHE suites; 0x1301 + i stays clear of GREASE
Suites(n) == [i \in 1..n |-> 4865 + i]
MCCiphers == {<<2570, 4865, 4866>>, Suites(12), Suites(120)}

\* extensions in ClientHello order; crypto/tls refuses duplicates
MCExtensions == {<<2570, 0, 16, 43, 13>>, <<13, 43>>,
                 <<0, 5, 10, 11, 13, 16, 23, 35, 43, 45, 51>>}

\* a server name needs the SNI extension, an ALPN protocol the ALPN one
MCHellos ==
  { h \in { [versions |-> v, ciphers |-> cs, extensions |-> ex, serverName |-> sn,
              alpn |-> al, schemes |-> <<1027, 2052>>, curves |-> <<2570, 29, 23>>,
              points |-> <<0>>] :
               v \in MCVersions, cs \in MCCiphers, ex \in MCExtensions,
               sn \in BOOLEAN, al \in {<<>>, <<"h", "2">>} } :
      /\ h.serverName => Contains(h.extensions, extensionServerName)
      /\ (h.alpn # <<>>) = Contains(h.extensions, extensionALPN) }
=============================================================================
