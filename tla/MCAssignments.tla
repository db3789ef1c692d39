---------------------------- MODULE MCAssignments ----------------------------
(* A small instance of Assignments for TLC. *)
EXTENDS Assignments, TLC
Symmetry == Permutations(Issue) \cup Permutations(User) \cup Permutations(Runner)

\* No step reads what a verdict says, only whether there is one and whether a
\* reviewer settled it: the other differences are left out of the states compared.
Told == [i \in Issue |-> [u \in User |-> [known |-> verdict[i][u].status # "none", human |-> verdict[i][u].human]]]
View == <<event, people, merged, Told, procs>>
=============================================================================
