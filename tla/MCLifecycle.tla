---------------------------- MODULE MCLifecycle ----------------------------
(***************************************************************************)
(* Lifecycle with two starts, so that a manager is closed and used again,  *)
(* and enough refreshes for one that ends, one that is cancelled and one   *)
(* that is scheduled while close() is under way.                           *)
(***************************************************************************)
EXTENDS Lifecycle

=============================================================================
