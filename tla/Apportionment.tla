---------------------------- MODULE Apportionment ----------------------------
(* A pool divided in whole minor units, in proportion to weights                *)
(* (settlement/settlement.go): for the judged pool, the maintainers' and the    *)
(* founding members'.                                                           *)
EXTENDS Naturals, FiniteSets, Functions

\* Mutant: the units that rounding leaves over stay in the pool.
FloorsOnly(w, pool) ==
  [p \in DOMAIN w |-> (pool * w[p]) \div SumFunction(w)]

\* The weights are by user id. The floor of everyone's exact share; the units left over go
\* one each to the largest remainders, ties to the lowest user id.
Apportion(w, pool) ==
  LET total == SumFunction(w)
      floor == [p \in DOMAIN w |-> (pool * w[p]) \div total]
      rest  == [p \in DOMAIN w |-> (pool * w[p]) % total]
      leftover == pool - SumFunction(floor)
      Before(p, q) == rest[p] > rest[q] \/ (rest[p] = rest[q] /\ p < q)
  IN  [p \in DOMAIN w |->
         IF w[p] > 0 /\ Cardinality({q \in DOMAIN w : w[q] > 0 /\ Before(q, p)}) < leftover
         THEN floor[p] + 1 ELSE floor[p]]
==============================================================================
