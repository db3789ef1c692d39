--------------------------- MODULE MCKeeperHubRail ---------------------------
(* Small instances of KeeperHubRail, and of its inductive invariant, for TLC. *)
EXTENDS KeeperHubRailProofs, TLC

Result(ran, ok, n, c) == [ran |-> ran, ok |-> ok, hashes |-> n, chain |-> c]

\* One result of each kind classify tells apart.
EveryKind == { NotRun,
               Result(TRUE, TRUE, 1, "run"), Result(TRUE, TRUE, 1, "other"),
               Result(TRUE, FALSE, 0, "run"), Result(TRUE, FALSE, 1, "run"),
               Result(TRUE, TRUE, 0, "run"), Result(TRUE, TRUE, 2, "run") }

Symmetry == Permutations(Releaser) \cup Permutations(Writer)
              \cup Permutations(Attempt) \cup Permutations(Person)
=============================================================================
