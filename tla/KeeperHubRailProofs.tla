------------------------- MODULE KeeperHubRailProofs -------------------------
(***************************************************************************)
(* For any number of people, attempts, concurrent releases and concurrent  *)
(* read-backs, and any set of results KeeperHub may give: the rail's types *)
(* are as declared, nobody is paid twice, a leg that would be sent is      *)
(* unpaid, a confirmed leg was paid, the rail implements PayOnce, what is  *)
(* claimed was simulated, and no leg waits on an attempt that is closed.   *)
(*                                                                         *)
(* The inductive invariant says where money can still come from: an        *)
(* attempt that is no longer the last one of a leg has not paid that leg   *)
(* and cannot pay it any more (Superseded).  The claim preserves it        *)
(* because it waits until nothing blocks, and everything that makes a leg  *)
(* sendable again has to prove that its last attempt is spent.             *)
(***************************************************************************)
EXTENDS KeeperHubRail, TLAPS

\* Attempt a has not paid p and will not.
Spent(p, a) == p \notin transfers[a] /\ ~CanPay(a)

AbsentIsClean == \A a \in Attempt : attempt[a] = "absent" =>
                   /\ attLegs[a] = {}
                   /\ exec[a] = "none"
                   /\ \A p \in Person : last[p] # a
                   /\ \A r \in Releaser : ratt[r] # a

UnplannedIsClean == run = "none" =>
                      /\ \A a \in Attempt : attempt[a] = "absent"
                      /\ \A p \in Person : status[p] = "none"

OneCaller == \A r \in Releaser : rpc[r] = "calling" =>
               /\ ratt[r] \in Attempt
               /\ attempt[ratt[r]] = "sending"
               /\ \A s \in Releaser : rpc[s] = "calling" /\ ratt[s] = ratt[r] => s = r

PaidByExecution == \A a \in Attempt :
                     /\ transfers[a] \subseteq attLegs[a]
                     /\ exec[a] \in {"none", "inflight", "refused", "lost"} => transfers[a] = {}

LastIsALeg == \A p \in Person, a \in Attempt : last[p] = a => p \in attLegs[a]

Superseded == \A p \in Person, a \in Attempt : p \in attLegs[a] /\ last[p] # a => Spent(p, a)

ReadsSent == \A w \in Writer : watt[w] # None =>
               attempt[watt[w]] \in {"sent", "reconciled", "mismatch"}

LockedIsBlocking ==
  \A w \in Writer, p \in Person : pend[w][p] # Keep =>
    /\ \/ watt[w] = None /\ status[p] = "unknown"
       \/ watt[w] # None /\ status[p] = "dispatched" /\ last[p] = watt[w]
    /\ wpc[w] \in {"updated", "snapped"}
    /\ \A v \in Writer : pend[v][p] # Keep => v = w

PendingIsTrue ==
  \A w \in Writer, p \in Person :
    /\ pend[w][p] = "failed" => \A a \in Attempt : p \in attLegs[a] => Spent(p, a)
    /\ pend[w][p] = "confirmed" => \E a \in Attempt : p \in transfers[a]

ReportsAreTrue ==
  \A a \in Attempt : exec[a] = "terminal" =>
    \A p \in attLegs[a] : Truthful(report[a][p], p \in transfers[a])

\* The inductive invariant.
IInv == /\ TypeOK
        /\ AbsentIsClean
        /\ UnplannedIsClean
        /\ OneCaller
        /\ PaidByExecution
        /\ LastIsALeg
        /\ Superseded
        /\ ReadsSent
        /\ LockedIsBlocking
        /\ PendingIsTrue
        /\ ReportsAreTrue
        /\ SendableIsUnpaid
        /\ ConfirmedIsPaid

-----------------------------------------------------------------------------
(* The types.                                                              *)

LEMMA InitType == Init => TypeOK
<1> SUFFICES ASSUME Init PROVE TypeOK
  OBVIOUS
<1>1. NotRun \in LegReport
  BY DEF NotRun, LegReport
<1>2. NoPend \in [Person -> {Keep, "confirmed", "failed", "unknown"}]
  BY DEF NoPend
<1> QED
  BY <1>1, <1>2 DEF Init, TypeOK, LegStatus

LEMMA ReleaseType ==
  ASSUME NEW r \in Releaser, TypeOK, ReleaseStep(r)
  PROVE  TypeOK'
<1> USE DEF TypeOK, LegStatus, db, releases, writers, remote, Return
<1>1. CASE Plan(r)
  <2> DEFINE planned == {p \in Person : status'[p] = "pending"}
  <2>1. status' \in [Person -> LegStatus]
    BY <1>1 DEF Plan
  <2>2. /\ rpc' \in [Releaser -> {"idle", "previewed", "simulated", "calling"}]
        /\ rlegs' \in [Releaser -> SUBSET Person]
        /\ ratt' = ratt
    <3>1. CASE planned = {}
      BY <1>1, <3>1 DEF Plan
    <3>2. CASE planned # {}
      <4>1. /\ rpc' = [rpc EXCEPT ![r] = "previewed"]
            /\ rlegs' = [rlegs EXCEPT ![r] = planned]
            /\ ratt' = ratt
        BY <1>1, <3>2 DEF Plan
      <4>2. planned \in SUBSET Person
        OBVIOUS
      <4> HIDE DEF planned
      <4> QED
        BY <4>1, <4>2
    <3> QED
      BY <3>1, <3>2
  <2> QED
    BY <1>1, <2>1, <2>2 DEF Plan
<1>2. CASE Preview(r)
  BY <1>2 DEF Preview, SendableLegs
<1>3. CASE Simulate(r)
  BY <1>3 DEF Simulate
<1>4. CASE \E a \in Attempt : Claim(r, a)
  BY <1>4 DEF Claim, SendableLegs
<1>5. CASE Send(r)
  BY <1>5 DEF Send
<1>6. CASE MarkSent(r)
  BY <1>6 DEF MarkSent
<1>7. CASE MarkRejected(r)
  BY <1>7 DEF MarkRejected
<1>8. CASE MarkUnacknowledged(r)
  BY <1>8 DEF MarkUnacknowledged
<1>9. CASE GiveUp(r)
  BY <1>9 DEF GiveUp
<1> QED
  BY <1>1, <1>2, <1>3, <1>4, <1>5, <1>6, <1>7, <1>8, <1>9 DEF ReleaseStep

LEMMA RemoteType ==
  ASSUME NEW a \in Attempt, TypeOK, RemoteStep(a)
  PROVE  TypeOK'
<1> USE DEF TypeOK, db, releases, writers, remote
<1>1. CASE Accept(a)
  BY <1>1 DEF Accept
<1>2. CASE Refuse(a)
  BY <1>2 DEF Refuse
<1>3. CASE Finish(a)
  <2>1. exec' \in [Attempt -> {"none", "inflight", "refused", "lost", "running", "terminal", "foreign"}]
    <3>1. \/ exec' = [exec EXCEPT ![a] = "terminal"]
          \/ exec' = [exec EXCEPT ![a] = "foreign"]
      BY <1>3 DEF Finish
    <3> QED
      BY <3>1
  <2>2. report' \in [Attempt -> [Person -> LegReport]]
    <3>1. CASE UNCHANGED report
      BY <3>1
    <3>2. ASSUME NEW f \in [attLegs[a] -> Reports],
                 report' = [report EXCEPT ![a] =
                              [p \in Person |-> IF p \in attLegs[a] THEN f[p] ELSE NotRun]]
          PROVE  report' \in [Attempt -> [Person -> LegReport]]
      <4>1. NotRun \in LegReport
        BY DEF NotRun, LegReport
      <4>2. \A p \in attLegs[a] : f[p] \in LegReport
        BY ReportsAssumption
      <4>3. [p \in Person |-> IF p \in attLegs[a] THEN f[p] ELSE NotRun] \in [Person -> LegReport]
        BY <4>1, <4>2
      <4> QED
        BY <3>2, <4>3
    <3> QED
      BY <1>3, <3>1, <3>2 DEF Finish
  <2> QED
    BY <1>3, <2>1, <2>2 DEF Finish
<1>4. CASE \E p \in Person : Transfer(a, p)
  BY <1>4 DEF Transfer
<1> QED
  BY <1>1, <1>2, <1>3, <1>4 DEF RemoteStep

LEMMA ClassifyType == \A rep \in LegReport : Classify(rep) \in {"confirmed", "failed", "unknown"}
  BY DEF Classify, LegReport

LEMMA WriterType ==
  ASSUME NEW w \in Writer, TypeOK, WriterStep(w)
  PROVE  TypeOK'
<1> USE DEF TypeOK, LegStatus, db, releases, writers, remote
<1>0. NoPend \in [Person -> {Keep, "confirmed", "failed", "unknown"}]
  BY DEF NoPend
<1>1. CASE \E a \in Attempt : IntakeLoad(w, a)
  BY <1>1, NoneAssumption DEF IntakeLoad
<1>2. CASE IntakeUpdate(w)
  <2>1. pend'[w] \in [Person -> {Keep, "confirmed", "failed", "unknown"}]
    <3> DEFINE verdict(p) == IF p \in attLegs[watt[w]] \cap OwnLegs(watt[w])
                             THEN IF exec[watt[w]] = "foreign" THEN "unknown"
                                  ELSE Classify(report[watt[w]][p])
                             ELSE Keep
    <3>1. watt[w] \in Attempt
      BY <1>2 DEF IntakeUpdate, IntakeCanWrite
    <3>2. \A p \in Person : verdict(p) \in {Keep, "confirmed", "failed", "unknown"}
      BY <3>1, ClassifyType
    <3>3. pend'[w] = [p \in Person |-> verdict(p)]
      BY <1>2 DEF IntakeUpdate
    <3> QED
      BY <3>2, <3>3
  <2> QED
    BY <1>2, <2>1 DEF IntakeUpdate
<1>3. CASE FailRun(w)
  BY <1>3 DEF FailRun
<1>4. CASE \E p \in Person, verdict \in {"confirmed", "failed"} : ResolveUpdate(w, p, verdict)
  BY <1>0, <1>4 DEF ResolveUpdate
<1>5. CASE TakeSnapshot(w)
  BY <1>5 DEF TakeSnapshot, RunStateSeen
<1>6. CASE Commit(w)
  BY <1>0, <1>6 DEF Commit, Seen, AttemptVerdict
<1>7. CASE Rollback(w)
  BY <1>0, <1>7 DEF Rollback
<1> QED
  BY <1>1, <1>2, <1>3, <1>4, <1>5, <1>6, <1>7 DEF WriterStep

LEMMA NextType == TypeOK /\ [Next]_vars => TypeOK'
<1>1. TypeOK /\ UNCHANGED vars => TypeOK'
  BY DEF TypeOK, vars
<1> QED
  BY <1>1, ReleaseType, RemoteType, WriterType DEF Next

\* Every variable keeps its declared type.
THEOREM TypeCorrect == Spec => []TypeOK
  BY InitType, NextType, PTL DEF Spec

-----------------------------------------------------------------------------
(* What steps leave alone.                                                 *)

\* A call is classified as rejected only if nothing can have run: the
\* direction every doubt of dispatch_error.go resolves in.
LEMMA RejectedRanNothing ==
  ASSUME NEW r \in Releaser, NEW class, Answered(r, class)
  PROVE  /\ rpc[r] = "calling"
         /\ class = "rejected" => exec[ratt[r]] \in {"none", "refused"}
  BY DEF Answered, MayAnswer, DispatchClass, Outcome

LEMMA ClaimsAlone ==
  ASSUME Next
  PROVE  \/ UNCHANGED <<attLegs, last>>
         \/ \E r \in Releaser, a \in Attempt : Claim(r, a)
<1> USE DEF db, releases, writers, remote
<1>1. ASSUME NEW r \in Releaser, ReleaseStep(r)
      PROVE  UNCHANGED <<attLegs, last>> \/ \E a \in Attempt : Claim(r, a)
  BY <1>1 DEF ReleaseStep, Plan, Preview, Simulate, Send, MarkSent, MarkRejected,
              MarkUnacknowledged, GiveUp
<1>2. ASSUME NEW a \in Attempt, RemoteStep(a)
      PROVE  UNCHANGED <<attLegs, last>>
  BY <1>2 DEF RemoteStep, Accept, Refuse, Transfer, Finish
<1>3. ASSUME NEW w \in Writer, WriterStep(w)
      PROVE  UNCHANGED <<attLegs, last>>
  BY <1>3 DEF WriterStep, IntakeLoad, IntakeUpdate, FailRun, ResolveUpdate, TakeSnapshot,
              Commit, Rollback
<1> QED
  BY <1>1, <1>2, <1>3 DEF Next

\* Money only ever moves in Transfer.
LEMMA TransfersAlone ==
  ASSUME Next
  PROVE  \/ UNCHANGED transfers
         \/ \E a \in Attempt, p \in Person : Transfer(a, p)
<1> USE DEF db, releases, writers, remote
<1>1. ASSUME NEW r \in Releaser, ReleaseStep(r) PROVE UNCHANGED transfers
  BY <1>1 DEF ReleaseStep, Plan, Preview, Simulate, Claim, Send, MarkSent, MarkRejected,
              MarkUnacknowledged, GiveUp
<1>2. ASSUME NEW a \in Attempt, RemoteStep(a)
      PROVE  UNCHANGED transfers \/ \E p \in Person : Transfer(a, p)
  BY <1>2 DEF RemoteStep, Accept, Refuse, Finish
<1>3. ASSUME NEW w \in Writer, WriterStep(w) PROVE UNCHANGED transfers
  BY <1>3 DEF WriterStep, IntakeLoad, IntakeUpdate, FailRun, ResolveUpdate, TakeSnapshot,
              Commit, Rollback
<1> QED
  BY <1>1, <1>2, <1>3 DEF Next

LEMMA TransfersGrow ==
  ASSUME TypeOK, Next, NEW a \in Attempt
  PROVE  transfers[a] \subseteq transfers'[a]
<1>1. CASE UNCHANGED transfers
  BY <1>1
<1>2. ASSUME NEW b \in Attempt, NEW p \in Person, Transfer(b, p)
      PROVE  transfers[a] \subseteq transfers'[a]
  BY <1>2 DEF Transfer, TypeOK
<1> QED
  BY <1>1, <1>2, TransfersAlone

\* An attempt that was made cannot come back to life: only a claim of a fresh
\* attempt gives KeeperHub something new to execute.
LEMMA CannotPayStays ==
  ASSUME TypeOK, Next, NEW a \in Attempt, attempt[a] # "absent", ~CanPay(a)
  PROVE  ~CanPay(a)'
<1> USE DEF CanPay, TypeOK, db, releases, writers, remote, Return
<1>1. ASSUME NEW r \in Releaser, ReleaseStep(r) PROVE ~CanPay(a)'
  <2>1. CASE \E b \in Attempt : Claim(r, b)
    BY <2>1 DEF Claim
  <2>2. CASE Send(r)
    <3>1. exec' = [exec EXCEPT ![ratt[r]] = "inflight"] /\ UNCHANGED <<rpc, ratt>>
      BY <2>2 DEF Send
    <3>2. ratt[r] # a
      BY <2>2 DEF Send
    <3> QED
      BY <3>1, <3>2
  <2>3. CASE ~Send(r) /\ ~\E b \in Attempt : Claim(r, b)
    <3>1. exec' = exec
      BY <1>1, <2>3 DEF ReleaseStep, Plan, Preview, Simulate, MarkSent, MarkRejected,
                        MarkUnacknowledged, GiveUp
    <3>2. \A s \in Releaser : rpc'[s] = "calling" => rpc[s] = "calling" /\ ratt'[s] = ratt[s]
      <4>1. CASE Plan(r) \/ Preview(r) \/ Simulate(r)
        BY <4>1 DEF Plan, Preview, Simulate
      <4>2. CASE MarkSent(r) \/ MarkRejected(r) \/ MarkUnacknowledged(r) \/ GiveUp(r)
        <5>1. Return(r)
          BY <4>2 DEF MarkSent, MarkRejected, MarkUnacknowledged, GiveUp
        <5> QED
          BY <5>1
      <4> QED
        BY <1>1, <2>3, <4>1, <4>2 DEF ReleaseStep
    <3> QED
      BY <3>1, <3>2
  <2> QED
    BY <2>1, <2>2, <2>3
<1>2. ASSUME NEW b \in Attempt, RemoteStep(b) PROVE ~CanPay(a)'
  BY <1>2 DEF RemoteStep, Accept, Refuse, Transfer, Finish
<1>3. ASSUME NEW w \in Writer, WriterStep(w) PROVE ~CanPay(a)'
  BY <1>3 DEF WriterStep, IntakeLoad, IntakeUpdate, FailRun, ResolveUpdate, TakeSnapshot,
              Commit, Rollback
<1> QED
  BY <1>1, <1>2, <1>3 DEF Next

LEMMA SpentStays ==
  ASSUME TypeOK, Next, NEW a \in Attempt, NEW p \in Person, attempt[a] # "absent", Spent(p, a)
  PROVE  Spent(p, a)'
<1>1. ~CanPay(a)'
  BY CannotPayStays DEF Spent
<1>2. p \notin transfers'[a]
  BY TransfersAlone DEF Spent, Transfer, CanPay, TypeOK
<1> QED
  BY <1>1, <1>2 DEF Spent

-----------------------------------------------------------------------------
(* Each part of the invariant is preserved.                                *)

LEMMA InitInv == Init => IInv
<1> SUFFICES ASSUME Init PROVE IInv
  OBVIOUS
<1>1. TypeOK
  BY InitType
<1>2. AbsentIsClean /\ UnplannedIsClean /\ OneCaller
  BY NoneAssumption DEF Init, AbsentIsClean, UnplannedIsClean, OneCaller
<1>3. PaidByExecution /\ LastIsALeg /\ Superseded
  BY NoneAssumption DEF Init, PaidByExecution, LastIsALeg, Superseded
<1>4. ReadsSent /\ LockedIsBlocking /\ PendingIsTrue
  BY DEF Init, ReadsSent, LockedIsBlocking, PendingIsTrue, NoPend, Keep
<1>5. ReportsAreTrue /\ SendableIsUnpaid /\ ConfirmedIsPaid
  BY DEF Init, ReportsAreTrue, SendableIsUnpaid, ConfirmedIsPaid, Sendable
<1> QED
  BY <1>1, <1>2, <1>3, <1>4, <1>5 DEF IInv

LEMMA AttemptsAreMadeOnce ==
  ASSUME IInv, Next, NEW a \in Attempt
  PROVE  /\ attempt[a] # "absent" => attempt'[a] # "absent"
         /\ attempt[a] = "absent" /\ attempt'[a] # "absent" =>
              \E r \in Releaser : Claim(r, a)
<1> USE DEF IInv, TypeOK, db, releases, writers, remote
<1>1. ASSUME NEW r \in Releaser, ReleaseStep(r)
      PROVE  \/ attempt'[a] = attempt[a]
             \/ attempt[a] # "absent" /\ attempt'[a] # "absent"
             \/ Claim(r, a)
  <2>1. ASSUME NEW b \in Attempt, Claim(r, b)
        PROVE  attempt'[a] = attempt[a] \/ Claim(r, a)
    <3>1. attempt' = [attempt EXCEPT ![b] = "sending"]
      BY <2>1 DEF Claim
    <3> QED
      BY <2>1, <3>1
  <2>2. CASE MarkSent(r) \/ MarkRejected(r) \/ MarkUnacknowledged(r)
    BY <2>2, RejectedRanNothing DEF MarkSent, MarkRejected, MarkUnacknowledged, OneCaller
  <2>3. CASE Plan(r) \/ Preview(r) \/ Simulate(r) \/ Send(r) \/ GiveUp(r)
    BY <2>3 DEF Plan, Preview, Simulate, Send, GiveUp
  <2> QED
    BY <1>1, <2>1, <2>2, <2>3 DEF ReleaseStep
<1>2. ASSUME NEW b \in Attempt, RemoteStep(b) PROVE attempt'[a] = attempt[a]
  BY <1>2 DEF RemoteStep, Accept, Refuse, Transfer, Finish
<1>3. ASSUME NEW w \in Writer, WriterStep(w)
      PROVE  attempt'[a] = attempt[a] \/ (attempt[a] # "absent" /\ attempt'[a] # "absent")
  <2>1. CASE FailRun(w)
    BY <2>1 DEF FailRun, IntakeCanWrite, ReadsSent
  <2>2. CASE Commit(w)
    BY <2>2 DEF Commit, AttemptVerdict, ReadsSent
  <2>3. CASE ~FailRun(w) /\ ~Commit(w)
    BY <1>3, <2>3 DEF WriterStep, IntakeLoad, IntakeUpdate, ResolveUpdate, TakeSnapshot, Rollback
  <2> QED
    BY <2>1, <2>2, <2>3
<1>4. ASSUME NEW r \in Releaser, Claim(r, a) PROVE attempt[a] = "absent" /\ attempt'[a] # "absent"
  BY <1>4 DEF Claim
<1> QED
  BY <1>1, <1>2, <1>3, <1>4 DEF Next

LEMMA AbsentIsCleanStays == ASSUME IInv, Next PROVE AbsentIsClean'
<1> SUFFICES ASSUME NEW a \in Attempt, attempt'[a] = "absent"
             PROVE  /\ attLegs'[a] = {}
                    /\ exec'[a] = "none"
                    /\ \A p \in Person : last'[p] # a
                    /\ \A r \in Releaser : ratt'[r] # a
  BY DEF AbsentIsClean
<1> USE DEF IInv, TypeOK, db, releases, writers, remote, Return
<1>1. attempt[a] = "absent"
  BY AttemptsAreMadeOnce
<1>2. attLegs[a] = {} /\ exec[a] = "none" /\ (\A p \in Person : last[p] # a)
        /\ \A r \in Releaser : ratt[r] # a
  BY <1>1 DEF AbsentIsClean
<1>3. attLegs'[a] = {} /\ \A p \in Person : last'[p] # a
  <2>1. CASE UNCHANGED <<attLegs, last>>
    BY <1>2, <2>1
  <2>2. ASSUME NEW r \in Releaser, NEW b \in Attempt, Claim(r, b)
        PROVE  attLegs'[a] = {} /\ \A p \in Person : last'[p] # a
    BY <1>2, <2>2 DEF Claim
  <2> QED
    BY <2>1, <2>2, ClaimsAlone
<1>4. exec'[a] = "none" /\ \A r \in Releaser : ratt'[r] # a
  <2>1. ASSUME NEW r \in Releaser, ReleaseStep(r)
        PROVE  exec'[a] = "none" /\ \A s \in Releaser : ratt'[s] # a
    <3>1. CASE Plan(r) \/ Preview(r) \/ Simulate(r)
      BY <1>2, <3>1 DEF Plan, Preview, Simulate
    <3>2. CASE \E b \in Attempt : Claim(r, b)
      BY <1>2, <3>2 DEF Claim
    <3>3. CASE Send(r)
      BY <1>2, <3>3 DEF Send
    <3>4. CASE MarkSent(r) \/ MarkRejected(r) \/ MarkUnacknowledged(r) \/ GiveUp(r)
      <4>1. Return(r) /\ exec' = exec
        BY <3>4 DEF MarkSent, MarkRejected, MarkUnacknowledged, GiveUp
      <4> QED
        BY <1>2, <4>1, NoneAssumption
    <3> QED
      BY <2>1, <3>1, <3>2, <3>3, <3>4 DEF ReleaseStep
  <2>2. ASSUME NEW b \in Attempt, RemoteStep(b)
        PROVE  exec'[a] = "none" /\ \A s \in Releaser : ratt'[s] # a
    BY <1>2, <2>2 DEF RemoteStep, Accept, Refuse, Transfer, Finish
  <2>3. ASSUME NEW w \in Writer, WriterStep(w) PROVE UNCHANGED <<exec, ratt>>
    BY <2>3 DEF WriterStep, IntakeLoad, IntakeUpdate, FailRun, ResolveUpdate, TakeSnapshot,
                Commit, Rollback
  <2> QED
    BY <1>2, <2>1, <2>2, <2>3 DEF Next
<1> QED
  BY <1>3, <1>4

LEMMA OneCallerStays == ASSUME IInv, Next PROVE OneCaller'
<1> USE DEF IInv, TypeOK, db, releases, writers, remote, OneCaller
<1>1. ASSUME NEW r \in Releaser, ReleaseStep(r) PROVE OneCaller'
  <2>1. CASE Plan(r) \/ Preview(r) \/ Simulate(r)
    BY <2>1 DEF Plan, Preview, Simulate
  <2>2. CASE \E b \in Attempt : Claim(r, b)
    BY <2>2 DEF Claim, AbsentIsClean
  <2>3. CASE Send(r)
    BY <2>3 DEF Send
  <2>4. CASE MarkSent(r) \/ MarkRejected(r) \/ MarkUnacknowledged(r) \/ GiveUp(r)
    <3>1. Return(r)
      BY <2>4 DEF MarkSent, MarkRejected, MarkUnacknowledged, GiveUp
    <3>2. \/ attempt' = attempt
          \/ rpc[r] = "calling" /\ \E v : attempt' = [attempt EXCEPT ![ratt[r]] = v]
      BY <2>4, RejectedRanNothing DEF MarkSent, MarkRejected, MarkUnacknowledged, GiveUp
    <3> QED
      BY <3>1, <3>2 DEF Return
  <2> QED
    BY <1>1, <2>1, <2>2, <2>3, <2>4 DEF ReleaseStep
<1>2. ASSUME NEW a \in Attempt, RemoteStep(a) PROVE OneCaller'
  BY <1>2 DEF RemoteStep, Accept, Refuse, Transfer, Finish
<1>3. ASSUME NEW w \in Writer, WriterStep(w) PROVE OneCaller'
  <2>1. UNCHANGED <<rpc, ratt>>
    BY <1>3 DEF WriterStep, IntakeLoad, IntakeUpdate, FailRun, ResolveUpdate, TakeSnapshot,
                Commit, Rollback
  <2>2. \A a \in Attempt : attempt[a] = "sending" => attempt'[a] = "sending"
    <3>1. CASE FailRun(w)
      BY <3>1 DEF FailRun, IntakeCanWrite, ReadsSent
    <3>2. CASE Commit(w)
      BY <3>2 DEF Commit, ReadsSent
    <3>3. CASE ~FailRun(w) /\ ~Commit(w)
      BY <1>3, <3>3 DEF WriterStep, IntakeLoad, IntakeUpdate, ResolveUpdate, TakeSnapshot, Rollback
    <3> QED
      BY <3>1, <3>2, <3>3
  <2> QED
    BY <2>1, <2>2
<1> QED
  BY <1>1, <1>2, <1>3 DEF Next

LEMMA SupersededStays == ASSUME IInv, Next PROVE Superseded' /\ LastIsALeg'
<1> USE DEF IInv, TypeOK
<1>1. CASE UNCHANGED <<attLegs, last>>
  <2>1. ASSUME NEW p \in Person, NEW a \in Attempt, p \in attLegs[a], last[p] # a
        PROVE  Spent(p, a)'
    BY <2>1, SpentStays DEF Superseded, AbsentIsClean
  <2> QED
    BY <1>1, <2>1 DEF Superseded, LastIsALeg
<1>2. ASSUME NEW r \in Releaser, NEW c \in Attempt, Claim(r, c)
      PROVE  Superseded' /\ LastIsALeg'
  <2>1. attempt[c] = "absent" /\ attLegs[c] = {}
    BY <1>2 DEF Claim, AbsentIsClean
  <2>2. attLegs' = [attLegs EXCEPT ![c] = SendableLegs]
        /\ last' = [p \in Person |-> IF p \in SendableLegs THEN c ELSE last[p]]
    BY <1>2 DEF Claim
  <2>3. ASSUME NEW p \in Person, NEW a \in Attempt, p \in attLegs'[a], last'[p] # a
        PROVE  Spent(p, a)'
    <3>1. a # c
      BY <2>2, <2>3 DEF SendableLegs
    <3>2. p \in attLegs[a] /\ attempt[a] # "absent"
      BY <2>2, <2>3, <3>1 DEF AbsentIsClean
    <3>3. CASE p \in SendableLegs
      BY <3>2, <3>3, SpentStays DEF SendableIsUnpaid, SendableLegs, Spent
    <3>4. CASE p \notin SendableLegs
      BY <2>2, <2>3, <3>2, <3>4, SpentStays DEF Superseded
    <3> QED
      BY <3>3, <3>4
  <2>4. LastIsALeg'
    BY <2>1, <2>2 DEF LastIsALeg, SendableLegs
  <2> QED
    BY <2>3, <2>4 DEF Superseded
<1> QED
  BY <1>1, <1>2, ClaimsAlone

LEMMA PaidByExecutionStays == ASSUME IInv, Next PROVE PaidByExecution'
<1> USE DEF IInv, TypeOK, db, releases, writers, remote, PaidByExecution
<1>1. ASSUME NEW r \in Releaser, ReleaseStep(r) PROVE PaidByExecution'
  <2>1. CASE \E b \in Attempt : Claim(r, b)
    BY <2>1 DEF Claim, AbsentIsClean
  <2>2. CASE Send(r)
    BY <2>2 DEF Send
  <2>3. CASE ~Send(r) /\ ~\E b \in Attempt : Claim(r, b)
    BY <1>1, <2>3 DEF ReleaseStep, Plan, Preview, Simulate, MarkSent, MarkRejected,
                      MarkUnacknowledged, GiveUp
  <2> QED
    BY <2>1, <2>2, <2>3
<1>2. ASSUME NEW a \in Attempt, RemoteStep(a) PROVE PaidByExecution'
  <2>1. CASE Accept(a) \/ Refuse(a)
    BY <2>1 DEF Accept, Refuse
  <2>2. CASE Finish(a)
    <3>1. UNCHANGED <<transfers, attLegs>>
      BY <2>2 DEF Finish
    <3>2. \A b \in Attempt : b # a => exec'[b] = exec[b]
      BY <2>2 DEF Finish
    <3>3. exec'[a] \in {"terminal", "foreign"}
      BY <2>2 DEF Finish
    <3> QED
      BY <3>1, <3>2, <3>3
  <2>3. ASSUME NEW p \in Person, Transfer(a, p) PROVE PaidByExecution'
    BY <2>3 DEF Transfer
  <2> QED
    BY <1>2, <2>1, <2>2, <2>3 DEF RemoteStep
<1>3. ASSUME NEW w \in Writer, WriterStep(w) PROVE UNCHANGED <<transfers, exec, attLegs>>
  BY <1>3 DEF WriterStep, IntakeLoad, IntakeUpdate, FailRun, ResolveUpdate, TakeSnapshot,
              Commit, Rollback
<1> QED
  BY <1>1, <1>2, <1>3 DEF Next

LEMMA UnplannedIsCleanStays == ASSUME IInv, Next PROVE UnplannedIsClean'
<1> SUFFICES ASSUME run' = "none"
             PROVE  /\ \A a \in Attempt : attempt'[a] = "absent"
                    /\ \A p \in Person : status'[p] = "none"
  BY DEF UnplannedIsClean
<1> USE DEF IInv, TypeOK, db, releases, writers, remote
<1>1. ASSUME NEW r \in Releaser, ReleaseStep(r)
      PROVE  /\ run = "none"
             /\ UNCHANGED <<attempt, status>>
  <2>1. run = "none" /\ ~Plan(r) /\ ~\E a \in Attempt : Claim(r, a)
    BY <1>1 DEF ReleaseStep, Plan, Preview, Simulate, Claim, Send, MarkSent, MarkRejected,
                MarkUnacknowledged, GiveUp
  <2>2. rpc[r] # "calling"
    BY <2>1 DEF UnplannedIsClean, OneCaller
  <2> QED
    BY <1>1, <2>1, <2>2, RejectedRanNothing
       DEF ReleaseStep, Preview, Simulate, Send, MarkSent, MarkRejected, MarkUnacknowledged, GiveUp
<1>2. ASSUME NEW a \in Attempt, RemoteStep(a) PROVE UNCHANGED <<run, attempt, status>>
  BY <1>2 DEF RemoteStep, Accept, Refuse, Transfer, Finish
<1>3. ASSUME NEW w \in Writer, WriterStep(w) PROVE UNCHANGED <<run, attempt, status>>
  BY <1>3 DEF WriterStep, IntakeLoad, IntakeUpdate, FailRun, ResolveUpdate, TakeSnapshot,
              Commit, Rollback
<1> QED
  BY <1>1, <1>2, <1>3 DEF Next, UnplannedIsClean

LEMMA ReadsSentStays == ASSUME IInv, Next PROVE ReadsSent'
<1> USE DEF IInv, TypeOK, db, releases, writers, remote, ReadsSent
<1>1. ASSUME NEW r \in Releaser, ReleaseStep(r) PROVE ReadsSent'
  <2>1. watt' = watt
    BY <1>1 DEF ReleaseStep, Plan, Preview, Simulate, Claim, Send, MarkSent, MarkRejected,
                MarkUnacknowledged, GiveUp
  <2>2. \A a \in Attempt : attempt[a] \in {"sent", "reconciled", "mismatch"} =>
                             attempt'[a] = attempt[a]
    BY <1>1, RejectedRanNothing
       DEF ReleaseStep, Plan, Preview, Simulate, Claim, Send, MarkSent, MarkRejected,
           MarkUnacknowledged, GiveUp, OneCaller
  <2> QED
    BY <2>1, <2>2
<1>2. ASSUME NEW a \in Attempt, RemoteStep(a) PROVE UNCHANGED <<attempt, watt>>
  BY <1>2 DEF RemoteStep, Accept, Refuse, Transfer, Finish
<1>3. ASSUME NEW w \in Writer, WriterStep(w) PROVE ReadsSent'
  <2>1. CASE \E a \in Attempt : IntakeLoad(w, a)
    BY <2>1 DEF IntakeLoad
  <2>2. CASE IntakeUpdate(w) \/ TakeSnapshot(w)
    BY <2>2 DEF IntakeUpdate, TakeSnapshot
  <2>3. CASE FailRun(w)
    BY <2>3 DEF FailRun
  <2>4. CASE \E p \in Person, v \in {"confirmed", "failed"} : ResolveUpdate(w, p, v)
    BY <2>4 DEF ResolveUpdate
  <2>5. CASE Commit(w)
    BY <2>5 DEF Commit, AttemptVerdict
  <2>6. CASE Rollback(w)
    BY <2>6 DEF Rollback
  <2> QED
    BY <1>3, <2>1, <2>2, <2>3, <2>4, <2>5, <2>6 DEF WriterStep
<1> QED
  BY <1>1, <1>2, <1>3 DEF Next

LEMMA LockedIsBlockingStays == ASSUME IInv, Next PROVE LockedIsBlocking'
<1> USE DEF IInv, TypeOK, db, releases, writers, remote, LockedIsBlocking
<1>1. ASSUME NEW r \in Releaser, ReleaseStep(r) PROVE LockedIsBlocking'
  <2>1. UNCHANGED <<wpc, watt, pend>>
    BY <1>1 DEF ReleaseStep, Plan, Preview, Simulate, Claim, Send, MarkSent, MarkRejected,
                MarkUnacknowledged, GiveUp
  <2>2. ASSUME NEW w \in Writer, NEW p \in Person, pend[w][p] # Keep
        PROVE  status'[p] = status[p] /\ last'[p] = last[p]
    <3>1. status[p] \in Blocking
      BY <2>2 DEF Blocking
    <3>2. CASE Plan(r) \/ Preview(r) \/ Simulate(r) \/ Send(r) \/ MarkSent(r) \/ GiveUp(r)
      BY <3>1, <3>2 DEF Plan, Preview, Simulate, Send, MarkSent, GiveUp, UnplannedIsClean, Blocking
    <3>3. CASE \E a \in Attempt : Claim(r, a)
      BY <3>1, <3>3 DEF Claim, Refused
    <3>4. CASE MarkRejected(r) \/ MarkUnacknowledged(r)
      <4>1. p \notin OwnLegs(ratt[r])
        <5>1. attempt[ratt[r]] = "sending"
          BY <3>4, RejectedRanNothing DEF MarkRejected, MarkUnacknowledged, OneCaller
        <5>2. SUFFICES ASSUME p \in OwnLegs(ratt[r]) PROVE FALSE
          OBVIOUS
        <5>3. watt[w] # None /\ ratt[r] = watt[w]
          BY <2>2, <5>2 DEF OwnLegs
        <5> QED
          BY <5>1, <5>3 DEF ReadsSent
      <4> QED
        BY <3>4, <4>1 DEF MarkRejected, MarkUnacknowledged
    <3> QED
      BY <1>1, <3>2, <3>3, <3>4 DEF ReleaseStep
  <2> QED
    BY <2>1, <2>2
<1>2. ASSUME NEW a \in Attempt, RemoteStep(a) PROVE LockedIsBlocking'
  BY <1>2 DEF RemoteStep, Accept, Refuse, Transfer, Finish
<1>3. ASSUME NEW w \in Writer, WriterStep(w) PROVE LockedIsBlocking'
  <2>1. CASE \E a \in Attempt : IntakeLoad(w, a)
    BY <2>1 DEF IntakeLoad
  <2>2. CASE IntakeUpdate(w)
    <3>1. \A p \in Person : pend'[w][p] # Keep => p \in OwnLegs(watt[w])
      BY <2>2 DEF IntakeUpdate
    <3>2. \A v \in Writer : v # w => pend'[v] = pend[v]
      BY <2>2 DEF IntakeUpdate
    <3>3. \A p \in OwnLegs(watt[w]), v \in Writer : pend[v][p] = Keep
      BY <2>2 DEF IntakeUpdate, IntakeCanWrite, Locked, OwnLegs
    <3>4. watt[w] # None /\ wpc' = [wpc EXCEPT ![w] = "updated"] /\ UNCHANGED <<watt, status, last>>
      BY <2>2 DEF IntakeUpdate, IntakeCanWrite
    <3>5. ASSUME NEW v \in Writer, NEW p \in Person, pend'[v][p] # Keep
          PROVE  /\ \/ watt'[v] = None /\ status'[p] = "unknown"
                    \/ watt'[v] # None /\ status'[p] = "dispatched" /\ last'[p] = watt'[v]
                 /\ wpc'[v] \in {"updated", "snapped"}
                 /\ \A u \in Writer : pend'[u][p] # Keep => u = v
      <4>1. CASE v = w
        BY <3>1, <3>2, <3>3, <3>4, <3>5, <4>1 DEF OwnLegs
      <4>2. CASE v # w
        <5>1. pend[v][p] # Keep /\ p \notin OwnLegs(watt[w])
          BY <3>2, <3>3, <3>5, <4>2
        <5>2. pend'[w][p] = Keep
          BY <3>1, <5>1
        <5>3. wpc'[v] = wpc[v]
          BY <3>4, <4>2
        <5>4. \A u \in Writer : pend'[u][p] # Keep => u = v
          BY <3>2, <5>1, <5>2
        <5> QED
          BY <3>4, <5>1, <5>3, <5>4
      <4> QED
        BY <4>1, <4>2
    <3> QED
      BY <3>5
  <2>3. CASE FailRun(w)
    <3>1. \A p \in OwnLegs(watt[w]), v \in Writer : pend[v][p] = Keep
      BY <2>3 DEF FailRun, IntakeCanWrite, Locked, OwnLegs
    <3>2. \A p \in Person : pend[w][p] = Keep
      BY <2>3 DEF FailRun, IntakeCanWrite
    <3> QED
      BY <2>3, <3>1, <3>2 DEF FailRun
  <2>4. ASSUME NEW p \in Person, NEW v \in {"confirmed", "failed"}, ResolveUpdate(w, p, v)
        PROVE  LockedIsBlocking'
    <3>1. \A q \in Person : pend'[w][q] # Keep => q = p
      BY <2>4 DEF ResolveUpdate, NoPend
    <3>2. \A u \in Writer : u # w => pend'[u] = pend[u] /\ watt'[u] = watt[u] /\ wpc'[u] = wpc[u]
      BY <2>4 DEF ResolveUpdate
    <3>3. status[p] = "unknown" /\ \A u \in Writer : pend[u][p] = Keep
      BY <2>4 DEF ResolveUpdate, Locked
    <3>4. watt'[w] = None /\ wpc'[w] = "updated" /\ UNCHANGED <<status, last>>
      BY <2>4 DEF ResolveUpdate
    <3>5. ASSUME NEW u \in Writer, NEW q \in Person, pend'[u][q] # Keep
          PROVE  /\ \/ watt'[u] = None /\ status'[q] = "unknown"
                    \/ watt'[u] # None /\ status'[q] = "dispatched" /\ last'[q] = watt'[u]
                 /\ wpc'[u] \in {"updated", "snapped"}
                 /\ \A x \in Writer : pend'[x][q] # Keep => x = u
      <4>1. CASE u = w
        BY <3>1, <3>2, <3>3, <3>4, <3>5, <4>1
      <4>2. CASE u # w
        <5>1. pend[u][q] # Keep /\ q # p
          BY <3>2, <3>3, <3>5, <4>2
        <5> QED
          BY <3>1, <3>2, <3>4, <4>2, <5>1
      <4> QED
        BY <4>1, <4>2
    <3> QED
      BY <3>5
  <2>5. CASE TakeSnapshot(w)
    BY <2>5 DEF TakeSnapshot
  <2>6. CASE Commit(w)
    <3>1. \A p \in Person : pend'[w][p] = Keep
      BY <2>6 DEF Commit, NoPend
    <3>2. \A v \in Writer : v # w => pend'[v] = pend[v] /\ watt'[v] = watt[v] /\ wpc'[v] = wpc[v]
      BY <2>6 DEF Commit
    <3>3. \A p \in Person : pend[w][p] = Keep => status'[p] = status[p]
      BY <2>6 DEF Commit, Seen
    <3>4. last' = last
      BY <2>6 DEF Commit
    <3>5. ASSUME NEW u \in Writer, NEW q \in Person, pend'[u][q] # Keep
          PROVE  /\ \/ watt'[u] = None /\ status'[q] = "unknown"
                    \/ watt'[u] # None /\ status'[q] = "dispatched" /\ last'[q] = watt'[u]
                 /\ wpc'[u] \in {"updated", "snapped"}
                 /\ \A x \in Writer : pend'[x][q] # Keep => x = u
      <4>1. u # w /\ pend[u][q] # Keep
        BY <3>1, <3>2, <3>5
      <4>2. status'[q] = status[q]
        BY <3>3, <4>1
      <4> QED
        BY <3>1, <3>2, <3>4, <4>1, <4>2
    <3> QED
      BY <3>5
  <2>7. CASE Rollback(w)
    <3>1. \A p \in Person : pend'[w][p] = Keep
      BY <2>7 DEF Rollback, NoPend
    <3> QED
      BY <2>7, <3>1 DEF Rollback
  <2> QED
    BY <1>3, <2>1, <2>2, <2>3, <2>4, <2>5, <2>6, <2>7 DEF WriterStep
<1> QED
  BY <1>1, <1>2, <1>3 DEF Next

LEMMA ReportsAreTrueStays == ASSUME IInv, Next PROVE ReportsAreTrue'
<1> USE DEF IInv, TypeOK, db, releases, writers, remote, ReportsAreTrue
<1>1. ASSUME NEW r \in Releaser, ReleaseStep(r) PROVE ReportsAreTrue'
  <2>1. CASE \E b \in Attempt : Claim(r, b)
    BY <2>1 DEF Claim, AbsentIsClean
  <2>2. CASE Send(r)
    BY <2>2 DEF Send
  <2>3. CASE ~Send(r) /\ ~\E b \in Attempt : Claim(r, b)
    BY <1>1, <2>3 DEF ReleaseStep, Plan, Preview, Simulate, MarkSent, MarkRejected,
                      MarkUnacknowledged, GiveUp
  <2> QED
    BY <2>1, <2>2, <2>3
<1>2. ASSUME NEW a \in Attempt, RemoteStep(a) PROVE ReportsAreTrue'
  <2>1. CASE Accept(a) \/ Refuse(a)
    BY <2>1 DEF Accept, Refuse
  <2>2. CASE Finish(a)
    <3>1. UNCHANGED <<transfers, attLegs>>
      BY <2>2 DEF Finish
    <3>2. \A b \in Attempt : b # a => exec'[b] = exec[b] /\ report'[b] = report[b]
      BY <2>2 DEF Finish
    <3>3. ASSUME exec'[a] = "terminal", NEW p \in attLegs[a]
          PROVE  Truthful(report'[a][p], p \in transfers[a])
      <4>1. PICK g \in [attLegs[a] -> Reports] :
              /\ Truthful(g[p], p \in transfers[a])
              /\ report' = [report EXCEPT ![a] =
                             [q \in Person |-> IF q \in attLegs[a] THEN g[q] ELSE NotRun]]
        BY <2>2, <3>3 DEF Finish
      <4>2. report'[a][p] = g[p]
        BY <4>1
      <4> QED
        BY <4>1, <4>2
    <3> QED
      BY <3>1, <3>2, <3>3
  <2>3. ASSUME NEW p \in Person, Transfer(a, p) PROVE ReportsAreTrue'
    BY <2>3 DEF Transfer
  <2> QED
    BY <1>2, <2>1, <2>2, <2>3 DEF RemoteStep
<1>3. ASSUME NEW w \in Writer, WriterStep(w) PROVE UNCHANGED <<transfers, exec, attLegs, report>>
  BY <1>3 DEF WriterStep, IntakeLoad, IntakeUpdate, FailRun, ResolveUpdate, TakeSnapshot,
              Commit, Rollback
<1> QED
  BY <1>1, <1>2, <1>3 DEF Next

\* An attempt some leg is a leg of was made.
LEMMA LegsWereClaimed ==
  ASSUME IInv, NEW p \in Person, NEW a \in Attempt, p \in attLegs[a]
  PROVE  attempt[a] # "absent"
  BY DEF IInv, AbsentIsClean

\* A leg that is locked, or is already out of the sendable set, gets no new
\* attempt: what was true of all its attempts stays true.
LEMMA AllSpentStays ==
  ASSUME IInv, Next, NEW p \in Person,
         p \notin SendableLegs \/ ~\E r \in Releaser, a \in Attempt : Claim(r, a),
         \A a \in Attempt : p \in attLegs[a] => Spent(p, a)
  PROVE  \A a \in Attempt : p \in attLegs'[a] => Spent(p, a)'
<1> USE DEF IInv
<1>1. ASSUME NEW a \in Attempt, p \in attLegs[a] PROVE Spent(p, a)'
  BY <1>1, LegsWereClaimed, SpentStays
<1>2. ASSUME NEW a \in Attempt, p \in attLegs'[a] PROVE p \in attLegs[a]
  <2>1. CASE UNCHANGED <<attLegs, last>>
    BY <1>2, <2>1
  <2>2. CASE \E r \in Releaser, b \in Attempt : Claim(r, b)
    <3>1. PICK b \in Attempt : attLegs' = [attLegs EXCEPT ![b] = SendableLegs]
      BY <2>2 DEF Claim
    <3> QED
      BY <1>2, <2>2, <3>1 DEF TypeOK
  <2> QED
    BY <2>1, <2>2, ClaimsAlone
<1> QED
  BY <1>1, <1>2

LEMMA PendingIsTrueStays == ASSUME IInv, Next PROVE PendingIsTrue'
<1>1. ASSUME NEW w \in Writer, NEW p \in Person, pend'[w][p] # Keep, pend'[w][p] = pend[w][p]
      PROVE  /\ pend'[w][p] = "failed" => \A a \in Attempt : p \in attLegs'[a] => Spent(p, a)'
             /\ pend'[w][p] = "confirmed" => \E a \in Attempt : p \in transfers'[a]
  <2>1. p \notin SendableLegs
    BY <1>1 DEF IInv, LockedIsBlocking, SendableLegs, Sendable
  <2>2. ASSUME pend[w][p] = "failed"
        PROVE  \A a \in Attempt : p \in attLegs'[a] => Spent(p, a)'
    BY <2>1, <2>2, AllSpentStays DEF IInv, PendingIsTrue
  <2>3. ASSUME pend[w][p] = "confirmed"
        PROVE  \E a \in Attempt : p \in transfers'[a]
    BY <2>3, TransfersGrow DEF IInv, PendingIsTrue
  <2> QED
    BY <1>1, <2>2, <2>3
<1>2. ASSUME NEW w \in Writer, NEW p \in Person, pend'[w][p] # Keep, pend'[w][p] # pend[w][p]
      PROVE  /\ pend'[w][p] = "failed" => \A a \in Attempt : p \in attLegs'[a] => Spent(p, a)'
             /\ pend'[w][p] = "confirmed" => \E a \in Attempt : p \in transfers'[a]
  <2> USE DEF IInv, TypeOK, db, releases, writers, remote
  <2>1. IntakeUpdate(w) \/ \E q \in Person, v \in {"confirmed", "failed"} : ResolveUpdate(w, q, v)
    <3>1. ASSUME NEW r \in Releaser, ReleaseStep(r) PROVE pend' = pend
      BY <3>1 DEF ReleaseStep, Plan, Preview, Simulate, Claim, Send, MarkSent, MarkRejected,
                  MarkUnacknowledged, GiveUp
    <3>2. ASSUME NEW a \in Attempt, RemoteStep(a) PROVE pend' = pend
      BY <3>2 DEF RemoteStep, Accept, Refuse, Transfer, Finish
    <3>3. ASSUME NEW u \in Writer, Commit(u) \/ Rollback(u) PROVE pend' = [pend EXCEPT ![u] = NoPend]
      BY <3>3 DEF Commit, Rollback
    <3>4. ASSUME NEW u \in Writer, \/ \E a \in Attempt : IntakeLoad(u, a)
                                   \/ FailRun(u)
                                   \/ TakeSnapshot(u)
          PROVE  pend' = pend
      BY <3>4 DEF IntakeLoad, FailRun, TakeSnapshot
    <3>5. ASSUME NEW u \in Writer, u # w,
                 IntakeUpdate(u) \/ \E q \in Person, v \in {"confirmed", "failed"} : ResolveUpdate(u, q, v)
          PROVE  pend'[w] = pend[w]
      BY <3>5 DEF IntakeUpdate, ResolveUpdate
    <3>6. \A u \in Writer : pend' = [pend EXCEPT ![u] = NoPend] =>
                              pend'[w][p] = Keep \/ pend'[w] = pend[w]
      BY DEF NoPend
    <3> QED
      BY <1>2, <3>1, <3>2, <3>3, <3>4, <3>5, <3>6 DEF Next, WriterStep
  <2>2. CASE IntakeUpdate(w)
    <3> DEFINE a == watt[w]
    <3>1. /\ a \in Attempt
          /\ p \in attLegs[a]
          /\ last[p] = a
          /\ UNCHANGED <<attLegs, transfers, exec, rpc, ratt>>
      BY <1>2, <2>2 DEF IntakeUpdate, IntakeCanWrite, OwnLegs
    <3>2. pend'[w][p] = IF exec[a] = "foreign" THEN "unknown" ELSE Classify(report[a][p])
      BY <1>2, <2>2 DEF IntakeUpdate
    <3>3. CASE exec[a] = "foreign"
      BY <3>2, <3>3
    <3>4. CASE exec[a] # "foreign"
      <4>1. exec[a] = "terminal" /\ ~OnWrongChain(report[a][p])
        BY <2>2, <3>1, <3>4 DEF IntakeUpdate
      <4>2. Truthful(report[a][p], p \in transfers[a]) /\ report[a][p] \in LegReport
        BY <3>1, <4>1 DEF ReportsAreTrue
      \* classify says failed only if nothing moved, confirmed only if it did.
      <4>3. /\ pend'[w][p] = "failed" => p \notin transfers[a]
            /\ pend'[w][p] = "confirmed" => p \in transfers[a]
        BY <3>2, <3>4, <4>1, <4>2 DEF Classify, Truthful, OnWrongChain, LegReport
      <4>4. ~CanPay(a)
        BY <4>1 DEF CanPay
      <4>5. \A b \in Attempt : p \in attLegs[b] /\ b # a => Spent(p, b)
        BY <3>1 DEF Superseded
      <4>6. \A b \in Attempt : Spent(p, b) => Spent(p, b)'
        BY <3>1 DEF Spent, CanPay
      <4> QED
        BY <3>1, <4>3, <4>4, <4>5, <4>6 DEF Spent
    <3> QED
      BY <3>3, <3>4
  <2>3. ASSUME NEW q \in Person, NEW v \in {"confirmed", "failed"}, ResolveUpdate(w, q, v)
        PROVE  /\ pend'[w][p] = "failed" => \A a \in Attempt : p \in attLegs'[a] => Spent(p, a)'
               /\ pend'[w][p] = "confirmed" => \E a \in Attempt : p \in transfers'[a]
    <3>1. p = q /\ pend'[w][p] = v
      BY <1>2, <2>3 DEF ResolveUpdate, NoPend
    <3>2. UNCHANGED <<attLegs, transfers, exec, rpc, ratt>>
      BY <2>3 DEF ResolveUpdate
    <3>3. \A b \in Attempt : p \notin transfers[b] /\ ~CanPay(b) => Spent(p, b)'
      BY <3>2 DEF Spent, CanPay
    <3> QED
      BY <2>3, <3>1, <3>2, <3>3 DEF ResolveUpdate
  <2> QED
    BY <2>1, <2>2, <2>3
<1> QED
  BY <1>1, <1>2 DEF PendingIsTrue, Keep

LEMMA SendableIsUnpaidStays == ASSUME IInv, Next PROVE SendableIsUnpaid'
<1> SUFFICES ASSUME NEW p \in Person, status'[p] \in Sendable
             PROVE  \A a \in Attempt : p \in attLegs'[a] => Spent(p, a)'
  BY DEF SendableIsUnpaid, Spent
<1> USE DEF IInv, TypeOK, db, releases, writers, remote
<1>1. CASE status[p] \in Sendable /\ ~\E r \in Releaser, a \in Attempt : Claim(r, a)
  <2>1. \A a \in Attempt : p \in attLegs[a] => Spent(p, a)
    BY <1>1 DEF SendableIsUnpaid, Spent
  <2> QED
    BY <1>1, <2>1, AllSpentStays
<1>2. CASE \E r \in Releaser, a \in Attempt : Claim(r, a)
  BY <1>2 DEF Claim, SendableLegs, Sendable
<1>3. CASE status[p] \notin Sendable /\ ~\E r \in Releaser, a \in Attempt : Claim(r, a)
  <2>1. ASSUME NEW r \in Releaser, ReleaseStep(r)
        PROVE  \A a \in Attempt : p \in attLegs'[a] => Spent(p, a)'
    <3>1. CASE Plan(r)
      BY <3>1 DEF Plan, UnplannedIsClean, AbsentIsClean
    <3>2. CASE MarkRejected(r)
      <4>1. PICK c \in Attempt : c = ratt[r] /\ p \in OwnLegs(c)
        BY <1>3, <3>2, RejectedRanNothing DEF MarkRejected, OneCaller
      <4>2. transfers[c] = {} /\ exec[c] \in {"none", "refused"}
        BY <3>2, <4>1, RejectedRanNothing DEF MarkRejected, PaidByExecution
      <4>3. ~CanPay(c)'
        <5>1. \A s \in Releaser : rpc'[s] = "calling" => ratt'[s] # c
          BY <3>2, <4>1, RejectedRanNothing DEF MarkRejected, Return, OneCaller
        <5>2. exec' = exec
          BY <3>2 DEF MarkRejected
        <5> QED
          BY <4>2, <5>1, <5>2 DEF CanPay
      <4>4. \A b \in Attempt : p \in attLegs[b] /\ b # c => Spent(p, b)'
        BY <4>1, LegsWereClaimed, SpentStays DEF Superseded, OwnLegs
      <4>5. UNCHANGED <<attLegs, transfers>>
        BY <3>2 DEF MarkRejected
      <4> QED
        BY <4>2, <4>3, <4>4, <4>5 DEF Spent
    <3>3. CASE ~Plan(r) /\ ~MarkRejected(r)
      <4>1. FALSE
        BY <1>3, <2>1, <3>3 DEF ReleaseStep, Preview, Simulate, Send, MarkSent,
                                MarkUnacknowledged, GiveUp, Sendable
      <4> QED
        BY <4>1
    <3> QED
      BY <3>1, <3>2, <3>3
  <2>2. ASSUME NEW a \in Attempt, RemoteStep(a) PROVE status' = status
    BY <2>2 DEF RemoteStep, Accept, Refuse, Transfer, Finish
  <2>3. ASSUME NEW w \in Writer, WriterStep(w)
        PROVE  \A a \in Attempt : p \in attLegs'[a] => Spent(p, a)'
    <3>1. CASE Commit(w)
      <4>1. pend[w][p] = "failed"
        BY <1>3, <3>1 DEF Commit, Seen, Sendable
      <4>2. p \notin SendableLegs
        BY <1>3 DEF SendableLegs
      <4> QED
        BY <4>1, <4>2, AllSpentStays DEF PendingIsTrue
    <3>2. CASE ~Commit(w)
      <4>1. FALSE
        BY <1>3, <2>3, <3>2 DEF WriterStep, IntakeLoad, IntakeUpdate, FailRun, ResolveUpdate,
                                TakeSnapshot, Rollback, Sendable
      <4> QED
        BY <4>1
    <3> QED
      BY <3>1, <3>2
  <2> QED
    BY <1>3, <2>1, <2>2, <2>3 DEF Next
<1> QED
  BY <1>1, <1>2, <1>3

LEMMA ConfirmedIsPaidStays == ASSUME IInv, Next PROVE ConfirmedIsPaid'
<1> SUFFICES ASSUME NEW p \in Person, status'[p] = "confirmed"
             PROVE  \E a \in Attempt : p \in transfers'[a]
  BY DEF ConfirmedIsPaid
<1> USE DEF IInv, TypeOK, db, releases, writers, remote
<1>1. CASE status[p] = "confirmed"
  BY <1>1, TransfersGrow DEF ConfirmedIsPaid
<1>2. CASE status[p] # "confirmed"
  <2>1. ASSUME NEW r \in Releaser, ReleaseStep(r) PROVE FALSE
    <3>1. CASE MarkRejected(r) \/ MarkUnacknowledged(r)
      BY <1>2, <3>1 DEF MarkRejected, MarkUnacknowledged
    <3>2. CASE Plan(r)
      BY <3>2 DEF Plan
    <3>3. CASE \E a \in Attempt : Claim(r, a)
      BY <1>2, <3>3 DEF Claim
    <3>4. CASE Preview(r) \/ Simulate(r) \/ Send(r) \/ MarkSent(r) \/ GiveUp(r)
      BY <1>2, <3>4 DEF Preview, Simulate, Send, MarkSent, GiveUp
    <3> QED
      BY <2>1, <3>1, <3>2, <3>3, <3>4 DEF ReleaseStep
  <2>2. ASSUME NEW a \in Attempt, RemoteStep(a) PROVE FALSE
    BY <1>2, <2>2 DEF RemoteStep, Accept, Refuse, Transfer, Finish
  <2>3. ASSUME NEW w \in Writer, WriterStep(w) PROVE pend[w][p] = "confirmed"
    BY <1>2, <2>3 DEF WriterStep, IntakeLoad, IntakeUpdate, FailRun, ResolveUpdate, TakeSnapshot,
                Commit, Seen, Rollback
  <2> QED
    BY <2>1, <2>2, <2>3, TransfersGrow DEF Next, PendingIsTrue
<1> QED
  BY <1>1, <1>2

-----------------------------------------------------------------------------
(* The theorems.                                                           *)

LEMMA NextInv == IInv /\ [Next]_vars => IInv'
<1>1. ASSUME IInv, Next PROVE IInv'
  <2>1. TypeOK'
    BY <1>1, NextType DEF IInv
  <2> QED
    BY <1>1, <2>1, AbsentIsCleanStays, UnplannedIsCleanStays, OneCallerStays, PaidByExecutionStays,
       SupersededStays, ReadsSentStays, LockedIsBlockingStays, PendingIsTrueStays,
       ReportsAreTrueStays, SendableIsUnpaidStays, ConfirmedIsPaidStays DEF IInv
<1>2. ASSUME IInv, UNCHANGED vars PROVE IInv'
  BY <1>2 DEF IInv, TypeOK, vars, AbsentIsClean, UnplannedIsClean, OneCaller, PaidByExecution,
              LastIsALeg, Superseded, Spent, CanPay, ReadsSent, LockedIsBlocking, PendingIsTrue,
              ReportsAreTrue, SendableIsUnpaid, ConfirmedIsPaid
<1> QED
  BY <1>1, <1>2

LEMMA InvImplies == IInv => PaidOnce /\ SendableIsUnpaid /\ ConfirmedIsPaid
<1> SUFFICES ASSUME IInv, NEW p \in Person, NEW a \in Attempt, NEW b \in Attempt,
                    p \in transfers[a], p \in transfers[b]
             PROVE  a = b
  BY DEF IInv, PaidOnce
<1>1. last[p] = a /\ last[p] = b
  BY DEF IInv, PaidByExecution, Superseded, Spent
<1> QED
  BY <1>1

\* Nobody is paid by two dispatch attempts, and what a release would send is
\* unpaid: release.go's claim and resume.go's gate, over every interleaving.
THEOREM NobodyPaidTwice == Spec => [](PaidOnce /\ SendableIsUnpaid)
  BY InitInv, NextInv, InvImplies, PTL DEF Spec

\* A leg the database calls confirmed was really paid.
THEOREM ConfirmedMeansPaid == Spec => []ConfirmedIsPaid
  BY InitInv, NextInv, InvImplies, PTL DEF Spec

\* No step takes a confirmation back.
LEMMA ConfirmedStays ==
  ASSUME IInv, Next, NEW p \in Person, status[p] = "confirmed"
  PROVE  status'[p] = "confirmed"
<1> USE DEF IInv, TypeOK, db, releases, writers, remote
<1>1. ASSUME NEW r \in Releaser, ReleaseStep(r) PROVE status'[p] = "confirmed"
  <2>1. CASE Plan(r)
    BY <2>1 DEF Plan, UnplannedIsClean
  <2>2. CASE MarkRejected(r) \/ MarkUnacknowledged(r)
    BY <2>2 DEF MarkRejected, MarkUnacknowledged, OwnLegs
  <2>3. CASE \E a \in Attempt : Claim(r, a)
    BY <2>3 DEF Claim, SendableLegs, Sendable
  <2>4. CASE Preview(r) \/ Simulate(r) \/ Send(r) \/ MarkSent(r) \/ GiveUp(r)
    BY <2>4 DEF Preview, Simulate, Send, MarkSent, GiveUp
  <2> QED
    BY <1>1, <2>1, <2>2, <2>3, <2>4 DEF ReleaseStep
<1>2. ASSUME NEW a \in Attempt, RemoteStep(a) PROVE status' = status
  BY <1>2 DEF RemoteStep, Accept, Refuse, Transfer, Finish
<1>3. ASSUME NEW w \in Writer, WriterStep(w) PROVE status'[p] = "confirmed"
  <2>1. CASE Commit(w)
    BY <2>1 DEF Commit, Seen, LockedIsBlocking
  <2>2. CASE ~Commit(w)
    BY <1>3, <2>2 DEF WriterStep, IntakeLoad, IntakeUpdate, FailRun, ResolveUpdate, TakeSnapshot,
                Rollback, OwnLegs
  <2> QED
    BY <2>1, <2>2
<1> QED
  BY <1>1, <1>2, <1>3 DEF Next

\* A confirmed leg is final, whatever late answer or late read-back arrives.
THEOREM ConfirmationsAreFinal == Spec => ConfirmedIsFinal
<1>1. IInv /\ [Next]_vars => [\A p \in Person : status[p] = "confirmed" => status'[p] = "confirmed"]_vars
  BY ConfirmedStays
<1> QED
  BY <1>1, InitInv, NextInv, PTL DEF Spec, ConfirmedIsFinal

LEMMA StepImplements == IInv /\ [Next]_vars => [Promise!Next]_(Promise!vars)
<1> DEFINE payments  == [p \in Person |-> {a \in Attempt : p \in transfers[a]}]
           confirmed == {p \in Person : status[p] = "confirmed"}
<1>1. ASSUME UNCHANGED vars PROVE UNCHANGED Promise!vars
  BY <1>1 DEF vars, Promise!vars
<1>2. ASSUME IInv, Next, UNCHANGED transfers PROVE [Promise!Next]_(Promise!vars)
  <2>1. payments' = payments
    BY <1>2
  <2>2. confirmed' = confirmed \cup (confirmed' \ confirmed)
    BY <1>2, ConfirmedStays
  <2>3. \A p \in confirmed' \ confirmed : payments[p] # {}
    <3>1. ConfirmedIsPaid'
      BY <1>2, ConfirmedIsPaidStays
    <3> QED
      BY <1>2, <3>1 DEF ConfirmedIsPaid
  <2>4. CASE confirmed' \ confirmed = {}
    BY <2>1, <2>2, <2>4 DEF Promise!vars
  <2>5. CASE confirmed' \ confirmed # {}
    <3>1. PICK S : S = confirmed' \ confirmed
      OBVIOUS
    <3>2. S \in SUBSET Person
      BY <3>1
    <3>3. Promise!Confirm(S)
      BY <2>1, <2>2, <2>3, <2>5, <3>1 DEF Promise!Confirm
    <3> QED
      BY <3>2, <3>3 DEF Promise!Next
  <2> QED
    BY <2>4, <2>5
<1>3. ASSUME IInv, NEW a \in Attempt, NEW p \in Person, Transfer(a, p)
      PROVE  Promise!Pay(p, a)
  <2> USE DEF IInv, TypeOK, db, releases, writers, remote
  <2>1. last[p] = a
    BY <1>3 DEF Transfer, Superseded, Spent, CanPay
  <2>2. payments[p] = {}
    BY <1>3, <2>1 DEF Transfer, PaidByExecution, Superseded, Spent
  <2>3. transfers' = [transfers EXCEPT ![a] = @ \cup {p}] /\ status' = status
    BY <1>3 DEF Transfer
  <2>4. \A b \in Attempt : transfers'[b] = IF b = a THEN transfers[b] \cup {p} ELSE transfers[b]
    BY <1>3, <2>3
  <2>5. payments' = [payments EXCEPT ![p] = {a}]
    <3>1. ASSUME NEW q \in Person
          PROVE  {b \in Attempt : q \in transfers'[b]} =
                   IF q = p THEN payments[p] \cup {a} ELSE payments[q]
      BY <2>4
    <3> QED
      BY <2>2, <3>1
  <2> QED
    BY <2>2, <2>3, <2>5 DEF Promise!Pay
<1> QED
  BY <1>1, <1>2, <1>3, TransfersAlone DEF Promise!Next

\* The rail implements PayOnce: every payment it ever makes of a leg is the
\* first one, and it confirms only what was paid.
THEOREM ImplementsPayOnce == Spec => PaysOnce
<1>1. Init => Promise!Init
  BY DEF Init, Promise!Init
<1> QED
  BY <1>1, StepImplements, InitInv, NextInv, PTL DEF Spec, PaysOnce, Promise!Spec

-----------------------------------------------------------------------------
(* No leg is left behind.                                                  *)

\* A read-back that has written covers every leg still waiting on its attempt:
\* writeIntake closes the attempt only together with all of them.
ReadBackCovers ==
  \A w \in Writer, p \in Person :
    /\ wpc[w] \in {"updated", "snapped"}
    /\ watt[w] # None
    /\ p \in OwnLegs(watt[w])
    => pend[w][p] # Keep

\* Only a claim makes a leg wait.
LEMMA WaitingWasWaiting ==
  ASSUME IInv, Next, NEW p \in Person, status'[p] = "dispatched",
         ~\E r \in Releaser, a \in Attempt : Claim(r, a)
  PROVE  status[p] = "dispatched" /\ last'[p] = last[p]
<1> USE DEF IInv, TypeOK, db, releases, writers, remote
<1>1. last' = last
  BY ClaimsAlone
<1>2. ASSUME NEW r \in Releaser, ReleaseStep(r) PROVE status[p] = "dispatched"
  <2>1. CASE MarkRejected(r) \/ MarkUnacknowledged(r)
    BY <2>1 DEF MarkRejected, MarkUnacknowledged
  <2>2. CASE Plan(r)
    BY <2>2 DEF Plan
  <2>3. CASE Preview(r) \/ Simulate(r) \/ Send(r) \/ MarkSent(r) \/ GiveUp(r)
    BY <2>3 DEF Preview, Simulate, Send, MarkSent, GiveUp
  <2> QED
    BY <1>2, <2>1, <2>2, <2>3 DEF ReleaseStep
<1>3. ASSUME NEW a \in Attempt, RemoteStep(a) PROVE status' = status
  BY <1>3 DEF RemoteStep, Accept, Refuse, Transfer, Finish
<1>4. ASSUME NEW w \in Writer, WriterStep(w) PROVE status[p] = "dispatched"
  <2>1. CASE Commit(w)
    BY <2>1 DEF Commit, Seen
  <2>2. CASE FailRun(w)
    BY <2>2 DEF FailRun
  <2>3. CASE ~Commit(w) /\ ~FailRun(w)
    BY <1>4, <2>3 DEF WriterStep, IntakeLoad, IntakeUpdate, ResolveUpdate, TakeSnapshot, Rollback
  <2> QED
    BY <2>1, <2>2, <2>3
<1> QED
  BY <1>1, <1>2, <1>3, <1>4 DEF Next

\* What closes an attempt takes every leg waiting on it along.
LEMMA ClosingTakesAlong ==
  ASSUME IInv, ReadBackCovers, Next, NEW p \in Person, NEW a \in Attempt,
         p \in OwnLegs(a), attempt[a] \in {"sending", "sent"},
         attempt'[a] \notin {"sending", "sent"}
  PROVE  status'[p] # "dispatched"
<1> USE DEF IInv, TypeOK, db, releases, writers, remote
<1>1. ASSUME NEW r \in Releaser, ReleaseStep(r) PROVE status'[p] # "dispatched"
  <2>1. ASSUME NEW b \in Attempt, Claim(r, b) PROVE FALSE
    BY <2>1 DEF Claim
  <2>2. CASE MarkSent(r)
    BY <2>2 DEF MarkSent
  <2>3. CASE MarkRejected(r)
    <3>1. ratt[r] = a
      BY <2>3 DEF MarkRejected
    <3> QED
      BY <2>3, <3>1 DEF MarkRejected
  <2>4. CASE MarkUnacknowledged(r)
    <3>1. ratt[r] = a
      BY <2>4 DEF MarkUnacknowledged
    <3> QED
      BY <2>4, <3>1 DEF MarkUnacknowledged
  <2>5. CASE Plan(r) \/ Preview(r) \/ Simulate(r) \/ Send(r) \/ GiveUp(r)
    BY <2>5 DEF Plan, Preview, Simulate, Send, GiveUp
  <2> QED
    BY <1>1, <2>1, <2>2, <2>3, <2>4, <2>5 DEF ReleaseStep
<1>2. ASSUME NEW b \in Attempt, RemoteStep(b) PROVE FALSE
  BY <1>2 DEF RemoteStep, Accept, Refuse, Transfer, Finish
<1>3. ASSUME NEW w \in Writer, WriterStep(w) PROVE status'[p] # "dispatched"
  <2>1. CASE FailRun(w)
    <3>1. watt[w] = a
      BY <2>1 DEF FailRun
    <3> QED
      BY <2>1, <3>1 DEF FailRun
  <2>2. CASE Commit(w)
    <3>1. watt[w] = a /\ a # None
      BY <2>2, NoneAssumption DEF Commit
    <3>2. pend[w][p] # Keep
      BY <2>2, <3>1 DEF Commit, ReadBackCovers
    <3>3. status'[p] = pend[w][p]
      BY <2>2, <3>2 DEF Commit, Seen
    <3>4. pend[w][p] \in {"confirmed", "failed", "unknown"}
      BY <3>2 DEF Keep
    <3> QED
      BY <3>3, <3>4
  <2>3. CASE ~FailRun(w) /\ ~Commit(w)
    BY <1>3, <2>3 DEF WriterStep, IntakeLoad, IntakeUpdate, ResolveUpdate, TakeSnapshot, Rollback
  <2> QED
    BY <2>1, <2>2, <2>3
<1> QED
  BY <1>1, <1>2, <1>3 DEF Next

LEMMA NoLegStrandedStays ==
  ASSUME IInv, ReadBackCovers, NoLegStranded, Next
  PROVE  NoLegStranded'
<1> SUFFICES ASSUME NEW p \in Person, status'[p] = "dispatched"
             PROVE  last'[p] # None /\ attempt'[last'[p]] \in {"sending", "sent"}
  BY DEF NoLegStranded
<1>1. ASSUME NEW r \in Releaser, NEW a \in Attempt, Claim(r, a)
      PROVE  last'[p] = a /\ attempt'[a] = "sending"
  BY <1>1 DEF Claim, Refused, Blocking, IInv, TypeOK
<1>2. CASE ~\E r \in Releaser, a \in Attempt : Claim(r, a)
  <2>1. status[p] = "dispatched" /\ last'[p] = last[p]
    BY <1>2, WaitingWasWaiting
  <2>2. last[p] \in Attempt /\ attempt[last[p]] \in {"sending", "sent"} /\ p \in OwnLegs(last[p])
    BY <2>1 DEF NoLegStranded, IInv, TypeOK, OwnLegs
  <2> QED
    BY <2>1, <2>2, ClosingTakesAlong, NoneAssumption
<1> QED
  BY <1>1, <1>2, NoneAssumption

LEMMA ReadBackCoversStays ==
  ASSUME IInv, ReadBackCovers, Next
  PROVE  ReadBackCovers'
<1> USE DEF IInv, TypeOK, db, releases, writers, remote
<1> SUFFICES ASSUME NEW w \in Writer, NEW p \in Person,
                    wpc'[w] \in {"updated", "snapped"}, watt'[w] # None,
                    last'[p] = watt'[w], status'[p] = "dispatched"
             PROVE  pend'[w][p] # Keep
  BY DEF ReadBackCovers, OwnLegs
<1>1. CASE IntakeUpdate(w)
  <2>1. watt[w] \in Attempt /\ p \in attLegs[watt[w]] \cap OwnLegs(watt[w])
    BY <1>1 DEF IntakeUpdate, IntakeCanWrite, OwnLegs, LastIsALeg
  <2>2. pend'[w][p] = IF exec[watt[w]] = "foreign" THEN "unknown"
                      ELSE Classify(report[watt[w]][p])
    BY <1>1, <2>1 DEF IntakeUpdate
  <2> QED
    BY <2>1, <2>2, ClassifyType DEF Keep
<1>2. CASE ~IntakeUpdate(w)
  <2>1. /\ wpc[w] \in {"updated", "snapped"}
        /\ watt'[w] = watt[w]
        /\ pend'[w] = pend[w]
    <3>1. ASSUME NEW r \in Releaser, ReleaseStep(r) PROVE UNCHANGED writers
      BY <3>1 DEF ReleaseStep, Plan, Preview, Simulate, Claim, Send, MarkSent, MarkRejected,
                  MarkUnacknowledged, GiveUp
    <3>2. ASSUME NEW a \in Attempt, RemoteStep(a) PROVE UNCHANGED writers
      BY <3>2 DEF RemoteStep, Accept, Refuse, Transfer, Finish
    <3>3. ASSUME NEW v \in Writer, v # w, WriterStep(v)
          PROVE  wpc'[w] = wpc[w] /\ watt'[w] = watt[w] /\ pend'[w] = pend[w]
      BY <3>3 DEF WriterStep, IntakeLoad, IntakeUpdate, FailRun, ResolveUpdate, TakeSnapshot,
                  Commit, Rollback
    <3>4. ASSUME WriterStep(w) PROVE TakeSnapshot(w)
      BY <1>2, <3>4 DEF WriterStep, IntakeLoad, FailRun, ResolveUpdate, Commit, Rollback
    <3>5. ASSUME TakeSnapshot(w)
          PROVE  /\ wpc[w] \in {"updated", "snapped"}
                 /\ watt'[w] = watt[w]
                 /\ pend'[w] = pend[w]
      BY <3>5 DEF TakeSnapshot
    <3> QED
      BY <3>1, <3>2, <3>3, <3>4, <3>5 DEF Next
  <2>2. ASSUME NEW r \in Releaser, NEW a \in Attempt, Claim(r, a) PROVE FALSE
    <3>1. last'[p] = a
      BY <2>2 DEF Claim, Refused, Blocking
    <3> QED
      BY <2>1, <2>2, <3>1 DEF Claim, ReadsSent
  <2>3. p \in OwnLegs(watt[w])
    BY <2>1, <2>2, WaitingWasWaiting DEF OwnLegs
  <2> QED
    BY <2>1, <2>3 DEF ReadBackCovers
<1> QED
  BY <1>1, <1>2

\* A leg that waits for a result waits on an attempt that can still give one:
\* markRejected, markUnacknowledged, writeIntake and failRunOnChainMismatch
\* never close an attempt and leave one of its legs behind.
THEOREM NothingStranded == Spec => []NoLegStranded
<1> DEFINE JInv == IInv /\ ReadBackCovers /\ NoLegStranded
<1>1. Init => JInv
  <2>1. Init => ReadBackCovers /\ NoLegStranded
    BY DEF Init, ReadBackCovers, NoLegStranded
  <2> QED
    BY <2>1, InitInv
<1>2. JInv /\ [Next]_vars => JInv'
  <2>1. ASSUME JInv, UNCHANGED vars PROVE (ReadBackCovers /\ NoLegStranded)'
    BY <2>1 DEF vars, ReadBackCovers, NoLegStranded, OwnLegs
  <2> QED
    BY <2>1, NextInv, NoLegStrandedStays, ReadBackCoversStays
<1> QED
  BY <1>1, <1>2, PTL DEF Spec

=============================================================================
