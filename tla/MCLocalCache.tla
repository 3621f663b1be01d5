---------------------------- MODULE MCLocalCache ----------------------------
(***************************************************************************)
(* LocalCache with more keys than entries, so that a batch can be larger   *)
(* than the cache and evict several entries at once.                       *)
(***************************************************************************)
EXTENDS LocalCache, TLC

CONSTANTS k1, k2, k3, k4

\* Two keys have a prefix in common.
TwoPrefixes == {{k1, k2}, {k3}}

=============================================================================
