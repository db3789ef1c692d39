------------------------------- MODULE PayOnce -------------------------------
(***************************************************************************)
(* What a payout rail promises to the people owed a share of an event's    *)
(* pool: a person is paid by at most one receipt, ever, and a person is    *)
(* recorded as confirmed only after a receipt exists.  Nothing is said of  *)
(* how: no attempts, no resumes, no crashes.                               *)
(*                                                                         *)
(* KeeperHubRail is shown to implement this module.                        *)
(***************************************************************************)
CONSTANTS Person,   \* the people a run owes money to
          Receipt   \* whatever proves one payment: here, a dispatch attempt

VARIABLES payments,   \* [Person -> SUBSET Receipt]: money that really moved
          confirmed   \* the people the database records as paid

vars == <<payments, confirmed>>

Init == /\ payments = [p \in Person |-> {}]
        /\ confirmed = {}

\* Money moves to p, who has not been paid before.
Pay(p, x) == /\ payments[p] = {}
             /\ payments' = [payments EXCEPT ![p] = {x}]
             /\ UNCHANGED confirmed

\* Some people, all of them paid, are recorded as confirmed.
Confirm(S) == /\ S # {}
              /\ \A p \in S : payments[p] # {}
              /\ confirmed' = confirmed \cup S
              /\ UNCHANGED payments

Next == \/ \E p \in Person, x \in Receipt : Pay(p, x)
        \/ \E S \in SUBSET Person : Confirm(S)

Spec == Init /\ [][Next]_vars
=============================================================================
