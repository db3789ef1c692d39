--------------------------- MODULE MCEventLifecycle ---------------------------
(* Small instances of EventLifecycle for TLC.                               *)
EXTENDS EventLifecycleProofs, TLC

CONSTANTS c1, c2

\* c2 pays an accepted verdict three units and closes appeals two days later.
MCUnits == [c \in Config |-> [b \in Bucket |-> IF b = "rejected" THEN 0 ELSE IF c = c1 THEN 1 ELSE 3]]
MCWindowDays == [c \in Config |-> IF c = c1 THEN 1 ELSE 2]

Symmetry == Permutations(Admin)
=============================================================================
