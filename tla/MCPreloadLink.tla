--------------------------- MODULE MCPreloadLink ----------------------------
(* Model-checking instance of PreloadLink: one client reaching the gateway *)
(* over both address families, two concurrent preload-link requests, two   *)
(* verify requests and two expiry buckets.                                 *)
EXTENDS PreloadLink, TLC

CONSTANTS c1, w1, w2, v1, v2

MCClients   == {c1}
MCWaiters   == {w1, w2}
MCVerifiers == {v1, v2}

=============================================================================
