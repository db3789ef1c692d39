---------------------------- MODULE KeeperHubRail ----------------------------
(***************************************************************************)
(* The KeeperHub payout rail (internal/keeperhubrail on internal/          *)
(* keeperhub): one run of one event pool.  A run freezes one leg per       *)
(* payable person; a release previews the sendable legs, simulates them,   *)
(* claims them in a transaction and only then calls KeeperHub; an intake   *)
(* reads a finished execution back; a person resolves what stayed unknown. *)
(*                                                                         *)
(* Releases run concurrently, as do intakes and resolutions.  The database *)
(* is Postgres at READ COMMITTED: a row another transaction changed and    *)
(* has not committed is locked, and an UPDATE's subqueries read the        *)
(* snapshot its statement started with (TakeSnapshot).  KeeperHub and the  *)
(* chain are external: they may refuse, lose, delay, half-finish or        *)
(* misreport an execution, within what Truthful allows.                    *)
(***************************************************************************)
EXTENDS Integers

CONSTANTS Person,     \* everybody with a line in the settlement
          Attempt,    \* ids of keeperhub_dispatch_attempts rows
          Releaser,   \* concurrent calls of Release
          Writer,     \* concurrent calls of Intake and ResolveLeg
          Reports,    \* the per-leg results KeeperHub may give, see LegReport
          None        \* NULL

\* One iteration of the payout loop as get_execution shows it: whether it ran,
\* whether every step succeeded, how many distinct transactions it names (2
\* stands for "more than one") and whether they are on the run's chain.
LegReport == [ran : BOOLEAN, ok : BOOLEAN, hashes : 0..2, chain : {"run", "other"}]

ASSUME ReportsAssumption == Reports \subseteq LegReport
ASSUME NoneAssumption == None \notin Attempt

VARIABLES
  run,        \* keeperhub_payout_runs.state, "none" before the row exists
  status,     \* [Person -> keeperhub_payout_legs.status]
  last,       \* [Person -> last_attempt_id]
  attempt,    \* [Attempt -> keeperhub_dispatch_attempts.state]
  attLegs,    \* [Attempt -> its keeperhub_dispatch_attempt_legs]
  rpc,        \* [Releaser -> where its Release stands]
  rlegs,      \* [Releaser -> the legs it previewed, then simulated]
  ratt,       \* [Releaser -> the attempt it is calling KeeperHub for]
  wpc,        \* [Writer -> where its Intake or ResolveLeg stands]
  watt,       \* [Writer -> the attempt it reads back, None in ResolveLeg]
  pend,       \* [Writer -> its uncommitted leg updates]
  wsees,      \* [Writer -> the run state its setRunState computed]
  exec,       \* [Attempt -> the execution KeeperHub made of it]
  transfers,  \* [Attempt -> the legs whose money really moved]
  report      \* [Attempt -> the results of its finished execution]

db       == <<run, status, last, attempt, attLegs>>
releases == <<rpc, rlegs, ratt>>
writers  == <<wpc, watt, pend, wsees>>
remote   == <<exec, transfers, report>>
vars     == <<run, status, last, attempt, attLegs, rpc, rlegs, ratt,
              wpc, watt, pend, wsees, exec, transfers, report>>

LegStatus == {"none", "excluded", "pending", "dispatched", "confirmed", "failed", "unknown"}
Keep == "none"       \* in pend: this transaction does not touch the leg

Blocking == {"dispatched", "unknown"}
Sendable == {"pending", "failed"}

Legs == {p \in Person : status[p] \notin {"none", "excluded"}}
SendableLegs == {p \in Person : status[p] \in Sendable}

\* A request for attempt a may still become, or is, an execution.
CanPay(a) == \/ exec[a] \in {"inflight", "running"}
             \/ exec[a] = "none" /\ \E r \in Releaser : rpc[r] = "calling" /\ ratt[r] = a

TypeOK ==
  /\ run \in {"none", "planned", "dispatching", "complete", "failed"}
  /\ status \in [Person -> LegStatus]
  /\ last \in [Person -> Attempt \cup {None}]
  /\ attempt \in [Attempt -> {"absent", "sending", "sent", "unacknowledged",
                              "rejected", "reconciled", "mismatch"}]
  /\ attLegs \in [Attempt -> SUBSET Person]
  /\ rpc \in [Releaser -> {"idle", "previewed", "simulated", "calling"}]
  /\ rlegs \in [Releaser -> SUBSET Person]
  /\ ratt \in [Releaser -> Attempt \cup {None}]
  /\ wpc \in [Writer -> {"idle", "loaded", "updated", "snapped"}]
  /\ watt \in [Writer -> Attempt \cup {None}]
  /\ \A w \in Writer : wpc[w] = "loaded" => watt[w] # None
  /\ pend \in [Writer -> [Person -> {Keep, "confirmed", "failed", "unknown"}]]
  /\ wsees \in [Writer -> {"dispatching", "complete"}]
  /\ exec \in [Attempt -> {"none", "inflight", "refused", "lost", "running",
                           "terminal", "foreign"}]
  /\ transfers \in [Attempt -> SUBSET Person]
  /\ report \in [Attempt -> [Person -> LegReport]]

NotRun == [ran |-> FALSE, ok |-> FALSE, hashes |-> 0, chain |-> "run"]
NoPend == [p \in Person |-> Keep]

Init ==
  /\ run = "none"
  /\ status = [p \in Person |-> "none"]
  /\ last = [p \in Person |-> None]
  /\ attempt = [a \in Attempt |-> "absent"]
  /\ attLegs = [a \in Attempt |-> {}]
  /\ rpc = [r \in Releaser |-> "idle"]
  /\ rlegs = [r \in Releaser |-> {}]
  /\ ratt = [r \in Releaser |-> None]
  /\ wpc = [w \in Writer |-> "idle"]
  /\ watt = [w \in Writer |-> None]
  /\ pend = [w \in Writer |-> NoPend]
  /\ wsees = [w \in Writer |-> "dispatching"]
  /\ exec = [a \in Attempt |-> "none"]
  /\ transfers = [a \in Attempt |-> {}]
  /\ report = [a \in Attempt |-> [p \in Person |-> NotRun]]

-----------------------------------------------------------------------------
(* Release.                                                                *)

\* resumeState.refusal: a failed run, a blocking leg, or nothing to send.
Refused == \/ run = "failed"
           \/ \E p \in Person : status[p] \in Blocking
           \/ SendableLegs = {}

\* previewRun when the run does not exist: the plan is committed even when
\* everybody was excluded and the release is refused.
Plan(r) ==
  /\ rpc[r] = "idle"
  /\ run = "none"
  /\ run' = "planned"
  /\ status' \in [Person -> {"none", "excluded", "pending"}]
  /\ LET sendable == {p \in Person : status'[p] = "pending"}
     IN IF sendable = {}
        THEN UNCHANGED releases
        ELSE /\ rpc' = [rpc EXCEPT ![r] = "previewed"]
             /\ rlegs' = [rlegs EXCEPT ![r] = sendable]
             /\ UNCHANGED ratt
  /\ UNCHANGED <<last, attempt, attLegs, writers, remote>>

\* previewRun of an existing run: reads what a dispatch would send, claims
\* nothing.
Preview(r) ==
  /\ rpc[r] = "idle"
  /\ run # "none"
  /\ ~Refused
  /\ rpc' = [rpc EXCEPT ![r] = "previewed"]
  /\ rlegs' = [rlegs EXCEPT ![r] = SendableLegs]
  /\ UNCHANGED <<db, ratt, writers, remote>>

\* simulateLegs found every previewed leg safe (otherwise: GiveUp).
Simulate(r) ==
  /\ rpc[r] = "previewed"
  /\ rpc' = [rpc EXCEPT ![r] = "simulated"]
  /\ UNCHANGED <<db, rlegs, ratt, writers, remote>>

\* What was simulated is what would be sent now.
SameLegSet(r) == rlegs[r] = SendableLegs

\* claimPreviewedLegs, one transaction under the run's row lock.
Claim(r, a) ==
  /\ rpc[r] = "simulated"
  /\ attempt[a] = "absent"
  /\ ~Refused
  /\ SameLegSet(r)
  /\ attempt' = [attempt EXCEPT ![a] = "sending"]
  /\ attLegs' = [attLegs EXCEPT ![a] = SendableLegs]
  /\ status' = [p \in Person |-> IF p \in SendableLegs THEN "dispatched" ELSE status[p]]
  /\ last' = [p \in Person |-> IF p \in SendableLegs THEN a ELSE last[p]]
  /\ run' = "dispatching"
  /\ rpc' = [rpc EXCEPT ![r] = "calling"]
  /\ ratt' = [ratt EXCEPT ![r] = a]
  /\ UNCHANGED <<rlegs, writers, remote>>

\* The request of Rail.Dispatch leaves the process.
Send(r) ==
  /\ rpc[r] = "calling"
  /\ exec[ratt[r]] = "none"
  /\ exec' = [exec EXCEPT ![ratt[r]] = "inflight"]
  /\ UNCHANGED <<db, releases, writers, transfers, report>>

\* The legs a mark* update touches: still dispatched under this attempt.
OwnLegs(a) == {p \in Person : last[p] = a /\ status[p] = "dispatched"}

\* The goroutine is done with its call of KeeperHub.
Return(r) == /\ rpc' = [rpc EXCEPT ![r] = "idle"]
             /\ rlegs' = [rlegs EXCEPT ![r] = {}]
             /\ ratt' = [ratt EXCEPT ![r] = None]

\* What the caller of the webhook may see: a 2xx with an execution id, one
\* without, one it cannot read; a 4xx that refuses; 408, 409, 5xx; no route to
\* the host; no answer at all.
Outcome == {"ack", "no_id", "unreadable", "refusal", "status_408", "status_409",
            "status_5xx", "no_route", "no_answer"}

\* Which of them fit what became of the request (external).
MayAnswer(o, e) ==
  CASE o \in {"ack", "no_id", "unreadable"} -> e \in {"running", "terminal", "foreign"}
    [] o = "refusal"                        -> e = "refused"
    [] o = "no_route"                       -> e = "none"
    [] o \in {"status_408", "status_409", "status_5xx"} -> e # "none"
    [] o = "no_answer"                      -> TRUE

\* Mutant: a 409 counts as a refusal.
DispatchClassConflict(o) == CASE o = "ack" -> "sent"
                              [] o \in {"refusal", "no_route", "status_409"} -> "rejected"
                              [] OTHER -> "indeterminate"

\* classifyStatus, classifyTransport and Dispatch's own checks: a rejection only
\* if nothing can have run, every doubt is indeterminate.
DispatchClass(o) == CASE o = "ack" -> "sent"
                      [] o \in {"refusal", "no_route"} -> "rejected"
                      [] OTHER -> "indeterminate"

\* Rail.Dispatch of r's attempt returns, and its result is of this class.
Answered(r, class) ==
  /\ rpc[r] = "calling"
  /\ \E o \in Outcome : MayAnswer(o, exec[ratt[r]]) /\ DispatchClass(o) = class

\* markSent.  The legs stay dispatched: an acknowledgement is not a payment.
MarkSent(r) ==
  /\ Answered(r, "sent")
  /\ attempt' = [attempt EXCEPT ![ratt[r]] = "sent"]
  /\ Return(r)
  /\ UNCHANGED <<run, status, last, attLegs, writers, remote>>

\* markRejected: nothing was sent, the legs can be sent again.
MarkRejected(r) ==
  /\ Answered(r, "rejected")
  /\ attempt' = [attempt EXCEPT ![ratt[r]] = "rejected"]
  /\ status' = [p \in Person |-> IF p \in OwnLegs(ratt[r]) THEN "failed" ELSE status[p]]
  /\ Return(r)
  /\ UNCHANGED <<run, last, attLegs, writers, remote>>

\* markUnacknowledged: the legs may have been paid.
MarkUnacknowledged(r) ==
  /\ Answered(r, "indeterminate")
  /\ attempt' = [attempt EXCEPT ![ratt[r]] = "unacknowledged"]
  /\ status' = [p \in Person |-> IF p \in OwnLegs(ratt[r]) THEN "unknown" ELSE status[p]]
  /\ Return(r)
  /\ UNCHANGED <<run, last, attLegs, writers, remote>>

\* Release stops here: an unsafe or unavailable simulation, a refused claim
\* (ErrConcurrentRelease), the process dying, or a mark* write that failed and
\* left the attempt "sending" and its legs dispatched.
GiveUp(r) ==
  /\ rpc[r] # "idle"
  /\ Return(r)
  /\ UNCHANGED <<db, writers, remote>>

-----------------------------------------------------------------------------
(* KeeperHub and the chain (external).                                     *)

Accept(a) == /\ exec[a] = "inflight"
             /\ exec' = [exec EXCEPT ![a] = "running"]
             /\ UNCHANGED <<db, releases, writers, transfers, report>>

Refuse(a) == /\ exec[a] = "inflight"
             /\ exec' \in {[exec EXCEPT ![a] = e] : e \in {"refused", "lost"}}
             /\ UNCHANGED <<db, releases, writers, transfers, report>>

\* The workflow sends one leg its money.
Transfer(a, p) ==
  /\ exec[a] = "running"
  /\ p \in attLegs[a] \ transfers[a]
  /\ transfers' = [transfers EXCEPT ![a] = @ \cup {p}]
  /\ UNCHANGED <<db, releases, writers, exec, report>>

\* What a result proves about the money: a clean iteration with its one
\* transaction on the run's chain paid, a failed one without any did not.
Truthful(rep, paid) ==
  /\ (rep.ran /\ rep.ok /\ rep.hashes = 1 /\ rep.chain = "run") => paid
  /\ (rep.ran /\ ~rep.ok /\ rep.hashes = 0) => ~paid

\* The execution ends.  "foreign": its recorded input is not what was
\* dispatched, so its results are not this attempt's.
Finish(a) ==
  /\ exec[a] = "running"
  /\ \/ /\ exec' = [exec EXCEPT ![a] = "terminal"]
        /\ \E f \in [attLegs[a] -> Reports] :
             /\ \A p \in attLegs[a] : Truthful(f[p], p \in transfers[a])
             /\ report' = [report EXCEPT ![a] =
                             [p \in Person |-> IF p \in attLegs[a] THEN f[p] ELSE NotRun]]
     \/ /\ exec' = [exec EXCEPT ![a] = "foreign"]
        /\ UNCHANGED report
  /\ UNCHANGED <<db, releases, writers, transfers>>

-----------------------------------------------------------------------------
(* Intake and ResolveLeg.                                                  *)

\* Mutant: a step failure is looked at before the transactions.
ClassifyFailureFirst(rep) ==
  CASE ~rep.ran -> "unknown"
    [] rep.ran /\ ~rep.ok -> "failed"
    [] rep.ran /\ rep.ok  -> IF rep.hashes = 1 THEN "confirmed" ELSE "unknown"

\* classify, and Reconcile's "missing" for an iteration that did not run.
Classify(rep) ==
  CASE ~rep.ran                     -> "unknown"
    [] rep.ran /\ rep.hashes > 1    -> "unknown"
    [] rep.ran /\ rep.hashes = 1    -> IF rep.ok THEN "confirmed" ELSE "unknown"
    [] rep.ran /\ rep.hashes = 0    -> IF rep.ok THEN "unknown" ELSE "failed"

\* classify hands a transaction hash on only when it is the only one, so only
\* then is its chain compared with the run's.
OnWrongChain(rep) == rep.ran /\ rep.hashes = 1 /\ rep.chain # "run"

\* A row some transaction has changed and not committed.
Locked(p) == \E w \in Writer : pend[w][p] # Keep

\* Intake reads the attempt's row, outside any transaction.
IntakeLoad(w, a) ==
  /\ wpc[w] = "idle"
  /\ attempt[a] = "sent"
  /\ wpc' = [wpc EXCEPT ![w] = "loaded"]
  /\ watt' = [watt EXCEPT ![w] = a]
  /\ UNCHANGED <<db, releases, pend, wsees, remote>>

\* The legs of Intake's attempt whose update would match, and the lock it
\* waits for: those rows, and the attempt's own.
IntakeCanWrite(w) ==
  /\ wpc[w] = "loaded"
  /\ \A p \in OwnLegs(watt[w]) : ~Locked(p)
  /\ \A v \in Writer : wpc[v] \in {"updated", "snapped"} => watt[v] # watt[w]

\* Mutant: legs without a result are not marked unknown.
IntakeUpdateNoMissing(w) ==
  /\ IntakeCanWrite(w)
  /\ \/ exec[watt[w]] = "foreign"
     \/ /\ exec[watt[w]] = "terminal"
        /\ \A p \in attLegs[watt[w]] : ~OnWrongChain(report[watt[w]][p])
  /\ pend' = [pend EXCEPT ![w] =
                [p \in Person |-> IF /\ p \in attLegs[watt[w]] \cap OwnLegs(watt[w])
                                     /\ report[watt[w]][p].ran
                                  THEN Classify(report[watt[w]][p])
                                  ELSE Keep]]
  /\ wpc' = [wpc EXCEPT ![w] = "updated"]
  /\ UNCHANGED <<db, releases, watt, wsees, remote>>

\* writeIntake up to its setRunState.  Every leg of the attempt gets a verdict:
\* its classification, or unknown if the execution is not ours.
IntakeUpdate(w) ==
  /\ IntakeCanWrite(w)
  /\ \/ exec[watt[w]] = "foreign"
     \/ /\ exec[watt[w]] = "terminal"
        /\ \A p \in attLegs[watt[w]] : ~OnWrongChain(report[watt[w]][p])
  /\ pend' = [pend EXCEPT ![w] =
                [p \in Person |-> IF p \in attLegs[watt[w]] \cap OwnLegs(watt[w])
                                  THEN IF exec[watt[w]] = "foreign" THEN "unknown"
                                       ELSE Classify(report[watt[w]][p])
                                  ELSE Keep]]
  /\ wpc' = [wpc EXCEPT ![w] = "updated"]
  /\ UNCHANGED <<db, releases, watt, wsees, remote>>

\* failRunOnChainMismatch: no leg is confirmed and the run is closed.
FailRun(w) ==
  /\ IntakeCanWrite(w)
  /\ exec[watt[w]] = "terminal"
  /\ \E p \in attLegs[watt[w]] : OnWrongChain(report[watt[w]][p])
  /\ status' = [p \in Person |-> IF p \in OwnLegs(watt[w]) THEN "unknown" ELSE status[p]]
  /\ attempt' = [attempt EXCEPT ![watt[w]] = "mismatch"]
  /\ run' = "failed"
  /\ wpc' = [wpc EXCEPT ![w] = "idle"]
  /\ watt' = [watt EXCEPT ![w] = None]
  /\ UNCHANGED <<last, attLegs, releases, pend, wsees, remote>>

\* ResolveLeg up to its setRunState: only an unknown leg.  The person is
\* honest and patient: "confirmed" names a transfer that happened, "failed"
\* that none did and that nothing carrying the leg can still pay it.
ResolveUpdate(w, p, verdict) ==
  /\ wpc[w] = "idle"
  /\ status[p] = "unknown"
  /\ ~Locked(p)
  /\ \/ verdict = "confirmed" /\ \E a \in Attempt : p \in transfers[a]
     \/ verdict = "failed" /\ \A a \in Attempt :
                                p \in attLegs[a] => p \notin transfers[a] /\ ~CanPay(a)
  /\ pend' = [pend EXCEPT ![w] = [NoPend EXCEPT ![p] = verdict]]
  /\ wpc' = [wpc EXCEPT ![w] = "updated"]
  /\ watt' = [watt EXCEPT ![w] = None]
  /\ UNCHANGED <<db, releases, wsees, remote>>

\* What writer w's statements read: its own updates over what is committed.
Seen(w, p) == IF pend[w][p] # Keep THEN pend[w][p] ELSE status[p]

\* The CASE of setRunState: complete only when there is a leg and every leg
\* is confirmed.
RunStateSeen(w) ==
  IF Legs # {} /\ \A p \in Legs : Seen(w, p) = "confirmed" THEN "complete" ELSE "dispatching"

\* setRunState's UPDATE starts: its subqueries are evaluated here, even if it
\* then waits for the run's row.
TakeSnapshot(w) ==
  /\ wpc[w] = "updated"
  /\ wsees' = [wsees EXCEPT ![w] = RunStateSeen(w)]
  /\ wpc' = [wpc EXCEPT ![w] = "snapped"]
  /\ UNCHANGED <<db, releases, watt, pend, remote>>

AttemptVerdict(a) == IF exec[a] = "foreign" THEN "mismatch" ELSE "reconciled"

\* The run's row is updated, unless it is failed by now, and the transaction
\* commits.
Commit(w) ==
  /\ wpc[w] = "snapped"
  /\ status' = [p \in Person |-> Seen(w, p)]
  /\ attempt' = IF watt[w] = None THEN attempt
                ELSE [attempt EXCEPT ![watt[w]] = AttemptVerdict(watt[w])]
  /\ run' = IF run = "failed" THEN run ELSE wsees[w]
  /\ wpc' = [wpc EXCEPT ![w] = "idle"]
  /\ watt' = [watt EXCEPT ![w] = None]
  /\ pend' = [pend EXCEPT ![w] = NoPend]
  /\ wsees' = [wsees EXCEPT ![w] = "dispatching"]
  /\ UNCHANGED <<last, attLegs, releases, remote>>

\* The execution has not finished, the read failed, or the process died: the
\* transaction rolls back.
Rollback(w) ==
  /\ wpc[w] # "idle"
  /\ wpc' = [wpc EXCEPT ![w] = "idle"]
  /\ watt' = [watt EXCEPT ![w] = None]
  /\ pend' = [pend EXCEPT ![w] = NoPend]
  /\ wsees' = [wsees EXCEPT ![w] = "dispatching"]
  /\ UNCHANGED <<db, releases, remote>>

-----------------------------------------------------------------------------
ReleaseStep(r) == \/ Plan(r) \/ Preview(r) \/ Simulate(r)
                  \/ \E a \in Attempt : Claim(r, a)
                  \/ Send(r) \/ MarkSent(r) \/ MarkRejected(r) \/ MarkUnacknowledged(r)
                  \/ GiveUp(r)

RemoteStep(a) == \/ Accept(a) \/ Refuse(a) \/ Finish(a)
                 \/ \E p \in Person : Transfer(a, p)

WriterStep(w) == \/ \E a \in Attempt : IntakeLoad(w, a)
                 \/ IntakeUpdate(w) \/ FailRun(w)
                 \/ \E p \in Person, verdict \in {"confirmed", "failed"} :
                      ResolveUpdate(w, p, verdict)
                 \/ TakeSnapshot(w) \/ Commit(w) \/ Rollback(w)

Next == \/ \E r \in Releaser : ReleaseStep(r)
        \/ \E a \in Attempt : RemoteStep(a)
        \/ \E w \in Writer : WriterStep(w)

Spec == Init /\ [][Next]_vars

-----------------------------------------------------------------------------
(* What the rail guarantees.                                               *)

\* Nobody is paid by two dispatch attempts, whatever interleaving of
\* releases, timeouts, crashes, read-backs and resolutions led there: the
\* double payment the two-phase claim and the resume gate exist to prevent.
PaidOnce == \A p \in Person, a, b \in Attempt :
              p \in transfers[a] /\ p \in transfers[b] => a = b

\* A leg a release would send is one that no attempt has paid and that no
\* request still under way can pay.
SendableIsUnpaid ==
  \A p \in Person, a \in Attempt :
    status[p] \in Sendable /\ p \in attLegs[a] => p \notin transfers[a] /\ ~CanPay(a)

\* A leg recorded confirmed was really paid, on the run's chain.
ConfirmedIsPaid == \A p \in Person : status[p] = "confirmed" =>
                                       \E a \in Attempt : p \in transfers[a]

\* A leg that waits for a result waits on an attempt that can still give one:
\* no read-back or rejection closes an attempt and leaves a leg of it behind,
\* blocking every later release with nothing to wait for.
NoLegStranded == \A p \in Person : status[p] = "dispatched" =>
                                     last[p] # None /\ attempt[last[p]] \in {"sending", "sent"}

\* A confirmed leg is final: a late read-back of an old attempt, a late answer
\* to an old dispatch, or a person cannot change it.
ConfirmedIsFinal ==
  [][\A p \in Person : status[p] = "confirmed" => status'[p] = "confirmed"]_vars

\* The rail implements PayOnce: receipts are the attempts whose transfer
\* landed, confirmed people are the confirmed legs.
Promise == INSTANCE PayOnce WITH
             Receipt   <- Attempt,
             payments  <- [p \in Person |-> {a \in Attempt : p \in transfers[a]}],
             confirmed <- {p \in Person : status[p] = "confirmed"}

PaysOnce == Promise!Spec

-----------------------------------------------------------------------------
(* What comments and tests say and the code does not do.                   *)

\* intake.go:73-74 of an attempt without an execution id: "Its legs are unknown
\* and must be resolved against the chain by a person."
UnreadableLegsAreUnknown ==
  \A a \in Attempt :
    /\ attempt[a] \in {"sending", "unacknowledged"}
    /\ \A r \in Releaser : ~(rpc[r] = "calling" /\ ratt[r] = a)
    => \A p \in Person : last[p] = a => status[p] # "dispatched"

\* keeperhubrail_test.go:404-405 fails with "every leg is confirmed and the run
\* is not complete".
ConfirmedRunIsComplete ==
  /\ Legs # {}
  /\ \A p \in Legs : status[p] = "confirmed"
  /\ \A w \in Writer : wpc[w] \in {"idle", "loaded"}
  => run \in {"complete", "failed"}

=============================================================================
