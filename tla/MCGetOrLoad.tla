---------------------------- MODULE MCGetOrLoad ----------------------------
(***************************************************************************)
(* GetOrLoad on one or two instances.                                      *)
(***************************************************************************)
EXTENDS GetOrLoad, TLC

CONSTANTS i1, i2, r1, r2, r3

\* One request on each instance.
OnePerInstance == r1 :> i1 @@ r2 :> i2

\* Two requests on the first instance, one on the second.
TwoAndOne == r1 :> i1 @@ r2 :> i1 @@ r3 :> i2

\* Three requests on one instance.
AllOnOne == r1 :> i1 @@ r2 :> i1 @@ r3 :> i1

\* The tasks that may be cancelled.
NoTask == {}
FirstRequest == {Request(r1)}
FirstTwoRequests == {Request(r1), Request(r2)}

=============================================================================
