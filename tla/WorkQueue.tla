------------------------------ MODULE WorkQueue ------------------------------
(* What the sync job queue promises to those who ask for a sync.  A request    *)
(* for a key is kept until a run that starts after it; requests that wait      *)
(* together are served by one run; a key is run once at a time; and a run that *)
(* does not finish either asks again or is given up.                           *)
CONSTANT Key
VARIABLES wanted, busy
queue == <<wanted, busy>>

Init == wanted = {} /\ busy = {}

Request(k) == wanted' = wanted \cup {k} /\ UNCHANGED busy

Begin(k) == /\ k \in wanted \ busy
            /\ wanted' = wanted \ {k}
            /\ busy' = busy \cup {k}

End(S) == /\ S # {} /\ S \subseteq busy
          /\ busy' = busy \ S
          /\ \E again \in SUBSET S : wanted' = wanted \cup again

Next == \/ \E k \in Key : Request(k) \/ Begin(k)
        \/ \E S \in SUBSET Key : End(S)

Spec == Init /\ [][Next]_queue
=============================================================================
