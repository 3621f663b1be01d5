--------------------------- MODULE MCSingleFlight ---------------------------
(***************************************************************************)
(* SingleFlight on a few calls of do(), which may join one another, or      *)
(* follow one another on the same key, in every combination.               *)
(***************************************************************************)
EXTENDS SingleFlight, TLC

=============================================================================
