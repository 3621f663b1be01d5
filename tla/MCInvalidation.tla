--------------------------- MODULE MCInvalidation ---------------------------
(***************************************************************************)
(* Invalidation on two instances with three calls: any sets, and at most   *)
(* one call of each other kind.  Either something fails, or the time of an *)
(* envelope ends.  The other kinds add little: set_many and delete go      *)
(* through the steps of set and delete_many, clear through those of        *)
(* delete_prefix.  Calls and instances are interchangeable.                *)
(***************************************************************************)
EXTENDS Invalidation, TLC

Symmetry == Permutations(Instances) \cup Permutations(Ops)

=============================================================================
