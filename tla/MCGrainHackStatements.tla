----------------------- MODULE MCGrainHackStatements -----------------------
(* A small instance of GrainHackStatements for TLC.                        *)
EXTENDS GrainHackStatements

CONSTANTS p1, p2

\* The same pool divided in two ways.
MCDivisions == { (p1 :> 2 @@ p2 :> 1), (p1 :> 1 @@ p2 :> 2) }
=============================================================================
