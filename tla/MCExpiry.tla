------------------------------ MODULE MCExpiry ------------------------------
(***************************************************************************)
(* Expiry with a second of two ticks, two instances whose clocks may       *)
(* differ by half a second, and ttls of one and two seconds.               *)
(***************************************************************************)
EXTENDS Expiry, TLC

CONSTANTS c1, c2, c3

MCCalls == {c1, c2, c3}
MCOwner == [c \in MCCalls |-> IF c = c1 THEN 1 ELSE 2]
Symmetry == Permutations({c2, c3})
MCOffset == [i \in {1, 2} |-> i - 1]

\* The ttl may come from the call, from the policy or from the configuration.
MCPolicies == {[ttl |-> None, nullTtl |-> None, jitter |-> None],
               [ttl |-> 1, nullTtl |-> None, jitter |-> 1]}
MCConfig == [ttl |-> None, nullTtl |-> 1, jitter |-> 0]

=============================================================================
