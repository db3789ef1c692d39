--------------------------- MODULE MCSettlementTree ---------------------------
(* A small instance of SettlementTree for TLC.                              *)
EXTENDS SettlementTree, TLC

CONSTANTS l1, l2, x1, x2, x3

MCPerson == 1..3

\* Two equal amounts that may change places without the total noticing, and a tie over a unit
\* that is left.
MCWeights == { <<2, 2, 1>> }

MaxWeight == 3
MaxPool == 5

Ready(x) == [login |-> l1, address |-> x, verified |-> TRUE]

\* One has no address, one can be paid, and one is not verified.
MCKnown == { <<Ready(None), Ready(x1), [Ready(x2) EXCEPT !.verified = FALSE]>> }

\* Whatever the weights and the pool, the division is the closest to the exact shares, of the
\* whole pool, with ties going to the lowest id. (Inputs do not depend on the state, so the
\* initial ones are enough to look at.)
ClosestDivision ==
  recording = "no" /\ moves = 0 =>
    \A w \in [Person -> 0..MaxWeight], p \in 1..MaxPool :
      Settles(w, p) => IsClosest(Apportion(w, p), w, p)

Symmetry == Permutations(Builder)
=============================================================================
