---------------------------- MODULE EventLifecycle ----------------------------
(****************************************************************************)
(* One GrainHack from draft to settled: the phases an admin moves it        *)
(* through (internal/hackathon/phase.go), the verdicts on its pull          *)
(* requests, the appeals against them, the recompute that divides the pool  *)
(* when appeals close (appeals.go) and the release of what it computed      *)
(* (judging_policy.go, settlement_producer.go). Several admins act at once; *)
(* a call reads the event, checks, and writes in separate statements, and   *)
(* may stop between any two of them. Each verdict belongs to a contributor  *)
(* of its own, so the curve over a person's pull requests is 1 throughout.  *)
(****************************************************************************)
EXTENDS Naturals, Sequences

CONSTANTS Admin,        \* the people who may call Transition
          Verdict,      \* the pull requests judged in this event
          Bucket,       \* the buckets a person may choose, "rejected" among them
          Config,       \* the configurations an admin may switch between
          Default,      \* the configuration that the migrations seed
          Units,        \* Units[c][b]: units_<b> under configuration c
          WindowDays,   \* WindowDays[c]: appeal_window_days under configuration c
          None,         \* SQL NULL
          MaxDays,      \* days the clock is followed for after publication
          MaxUpsets     \* calls that stop before they end, and changes of the configuration

ASSUME BucketAssumption == "rejected" \in Bucket /\ None \notin Bucket
ASSUME ConfigAssumption == /\ None \notin Config /\ Default \in Config
                           /\ Units \in [Config -> [Bucket -> Nat]]
                           /\ WindowDays \in [Config -> Nat]
ASSUME BoundAssumption == MaxDays \in Nat /\ MaxUpsets \in Nat

PhaseOrder == <<"draft", "application_period", "issue_prep", "live", "closed",
                "results_published", "settled">>
Phase == {PhaseOrder[i] : i \in 1..7}

\* toPhase is the phase that follows fromPhase.
Follows(fromPhase, toPhase) ==
  \E i \in 1..6 : fromPhase = PhaseOrder[i] /\ toPhase = PhaseOrder[i + 1]

VARIABLES
  phase, published, days, closedOut, snapshot,   \* the hackathons row
  config,                                        \* hackathon_config_settings
  row, bucket, units,                            \* hackathon_verdicts
  appeal,                                        \* hackathon_appeals
  runs, dividedBy,                               \* hackathon_payout_runs
  granted, maintainers, paid,                    \* what the phases set off
  work, due,                                     \* hackathon_assignments; runDueDraws
  filing,                                        \* SubmitAppeal calls under way
  call,                                          \* Transition calls under way
  upsets

eventVars   == <<phase, published, closedOut, snapshot>>
verdictVars == <<row, bucket>>
payVars     == <<units, runs, dividedBy, granted, maintainers>>
workVars    == <<work, due>>
vars == <<eventVars, days, config, verdictVars, appeal, payVars, workVars, paid, filing, call, upsets>>

Stage == {"idle", "loaded", "checked", "closing", "reload", "count", "read", "divide",
          "grant", "maintainers"}
Judged == [Verdict -> Bucket \cup {None}]
Call == [stage : Stage, toPhase : Phase \cup {None}, closedOut : BOOLEAN,
         judged : Judged, config : Config \cup {None}]

Nothing == [v \in Verdict |-> None]
NoCall == [stage |-> "idle", toPhase |-> None, closedOut |-> FALSE,
           judged |-> Nothing, config |-> None]

Init == /\ phase = "draft" /\ published = FALSE /\ days = 0 /\ closedOut = FALSE
        /\ snapshot = None /\ config = Default
        /\ row = [v \in Verdict |-> "absent"] /\ bucket = Nothing
        /\ units = [v \in Verdict |-> 0] /\ appeal = [v \in Verdict |-> "none"]
        /\ runs = 0 /\ dividedBy = None /\ granted = FALSE /\ maintainers = FALSE
        /\ work = "none" /\ due = FALSE /\ paid = None
        /\ filing = [v \in Verdict |-> FALSE] /\ call = [a \in Admin |-> NoCall]
        /\ upsets = 0

At(a, stage) == call[a].stage = stage
Goto(a, stage) == call' = [call EXCEPT ![a].stage = stage]
Return(a) == call' = [call EXCEPT ![a] = NoCall]
------------------------------------------------------------------------------
(* Transition.                                                              *)

\* The event is loaded, and toPhase must be the one that follows. The dates that
\* requiredForTransition wants are set by admins and left out: a refusal changes nothing.
LoadEvent(a) == /\ At(a, "idle")
                /\ \E to \in Phase :
                     /\ Follows(phase, to)
                     /\ to = "settled" => published
                     /\ call' = [call EXCEPT ![a] =
                          [NoCall EXCEPT !.stage = "loaded", !.toPhase = to, !.closedOut = closedOut]]
                /\ UNCHANGED <<eventVars, days, config, verdictVars, appeal, payVars, workVars, paid, filing, upsets>>

\* GetAppealWindow, of an event that was read when its appeals were closed or not.
WindowOpen(closed) == ~closed /\ days < WindowDays[config]
Unjudged(v) == row[v] = "open" /\ bucket[v] = None
Pending(v) == appeal[v] = "pending"

\* dynamicBlockers; shadow mode and the count of published issues, which stand before
\* live, are left out.
NoBlockers(toPhase, closed) ==
  /\ toPhase = "results_published" => \A v \in Verdict : ~Unjudged(v)
  /\ toPhase = "settled" => ~WindowOpen(closed) /\ \A v \in Verdict : ~Pending(v)

CheckBlockers(a) == /\ At(a, "loaded")
                    /\ IF NoBlockers(call[a].toPhase, call[a].closedOut) THEN Goto(a, "checked") ELSE Return(a)
                    /\ UNCHANGED <<eventVars, days, config, verdictVars, appeal, payVars, workVars, paid, filing, upsets>>

\* Mutant: the stamp lost its "AND results_published_at IS NULL".
StampPublishedAgain == published' = TRUE /\ days' = 0

\* results_published_at is stamped once and the clock of the window starts.
StampPublished == /\ published' = TRUE
                  /\ days' = IF published THEN days ELSE 0

\* The transaction: the phase is written over whatever the row holds by now.
WritePhase(a) ==
  /\ At(a, "checked")
  /\ phase' = call[a].toPhase
  /\ IF phase' = "results_published" THEN StampPublished ELSE UNCHANGED <<published, days>>
  /\ snapshot' = IF phase' = "live" THEN config ELSE snapshot
  /\ CASE phase' = "closed"  -> Goto(a, "closing")
       [] phase' = "settled" -> Goto(a, "reload")
       [] OTHER              -> Return(a)
  /\ UNCHANGED <<closedOut, config, verdictVars, appeal, payVars, workVars, paid, filing, upsets>>

\* CloseEventAssignments; Transition throws the released assignments away.
CloseEvent(a) == /\ At(a, "closing")
                 /\ work' = IF work = "open" THEN "released" ELSE work
                 /\ Return(a)
                 /\ UNCHANGED <<eventVars, days, config, verdictVars, appeal, payVars, due, paid, filing, upsets>>

CallFails(a) == /\ ~At(a, "idle")
                /\ upsets < MaxUpsets
                /\ upsets' = upsets + 1
                /\ Return(a)
                /\ UNCHANGED <<eventVars, days, config, verdictVars, appeal, payVars, workVars, paid, filing>>
------------------------------------------------------------------------------
(* CloseAppealsAndRecompute, then SettleMaintainerPool.                     *)

Reload(a) == /\ At(a, "reload")
             /\ Goto(a, IF closedOut THEN "maintainers" ELSE "count")
             /\ UNCHANGED <<eventVars, days, config, verdictVars, appeal, payVars, workVars, paid, filing, upsets>>

CountPending(a) == /\ At(a, "count")
                   /\ IF \E v \in Verdict : Pending(v) THEN Return(a) ELSE Goto(a, "read")
                   /\ UNCHANGED <<eventVars, days, config, verdictVars, appeal, payVars, workVars, paid, filing, upsets>>

\* The configuration and the judged verdicts are read before the transaction begins.
ReadVerdicts(a) == /\ At(a, "read")
                   /\ call' = [call EXCEPT ![a].stage = "divide", ![a].judged = bucket,
                                           ![a].config = config]
                   /\ UNCHANGED <<eventVars, days, config, verdictVars, appeal, payVars, workVars, paid, filing, upsets>>

UnitsFor(v, judged, c) == IF judged[v] = None THEN units[v] ELSE Units[c][judged[v]]

Divide(a) == /\ units' = [v \in Verdict |-> UnitsFor(v, call[a].judged, call[a].config)]
             /\ dividedBy' = call[a].config
             /\ runs' = runs + 1
             /\ closedOut' = TRUE
             /\ Goto(a, "grant")
             /\ UNCHANGED <<granted, maintainers>>

\* Mutant: the transaction does not look at appeals_closed_at again.
RecomputeBlind(a) == /\ At(a, "divide")
                     /\ Divide(a)
                     /\ UNCHANGED <<phase, published, snapshot, days, config, verdictVars, appeal, workVars, paid, filing, upsets>>

\* The transaction looks at appeals_closed_at again, under the row lock.
Recompute(a) == /\ At(a, "divide")
                /\ IF closedOut THEN Goto(a, "maintainers") /\ UNCHANGED <<closedOut, payVars>>
                                ELSE Divide(a)
                /\ UNCHANGED <<phase, published, snapshot, days, config, verdictVars, appeal, workVars, paid, filing, upsets>>

\* GrantMergedPRShares; a failure is logged and the call goes on.
GrantShares(a) == /\ At(a, "grant")
                  /\ \/ granted' = TRUE /\ UNCHANGED upsets
                     \/ upsets < MaxUpsets /\ upsets' = upsets + 1 /\ UNCHANGED granted
                  /\ Goto(a, "maintainers")
                  /\ UNCHANGED <<eventVars, days, config, verdictVars, appeal, units, runs, dividedBy, maintainers,
                                 workVars, paid, filing>>

SettleMaintainers(a) == /\ At(a, "maintainers")
                        /\ maintainers' = TRUE
                        /\ Return(a)
                        /\ UNCHANGED <<eventVars, days, config, verdictVars, appeal, units, runs, dividedBy, granted,
                                       workVars, paid, filing, upsets>>
------------------------------------------------------------------------------
(* Verdicts and appeals.                                                    *)

\* The project's sync creates a verdict or filters it again, unless a person has
\* already decided it.
SyncVerdict(v) == /\ bucket[v] = None
                  /\ \E r \in {"open", "rejected"} : row' = [row EXCEPT ![v] = r]
                  /\ UNCHANGED <<eventVars, days, config, bucket, appeal, payVars, workVars, paid, filing, call, upsets>>

Override(v) == /\ row[v] # "absent"
               /\ \E b \in Bucket : bucket' = [bucket EXCEPT ![v] = b]
               /\ UNCHANGED <<eventVars, days, config, row, appeal, payVars, workVars, paid, filing, call, upsets>>

\* SubmitAppeal looks at the phase and the window,
CheckAppeal(v) == /\ row[v] # "absent" /\ ~filing[v]
                  /\ phase = "results_published" /\ published /\ WindowOpen(closedOut)
                  /\ filing' = [filing EXCEPT ![v] = TRUE]
                  /\ UNCHANGED <<eventVars, days, config, verdictVars, appeal, payVars, workVars, paid, call, upsets>>

\* and inserts the appeal in a statement of its own; a verdict is appealed once.
InsertAppeal(v) == /\ filing[v]
                   /\ filing' = [filing EXCEPT ![v] = FALSE]
                   /\ appeal' = [appeal EXCEPT ![v] = IF @ = "none" THEN "pending" ELSE @]
                   /\ UNCHANGED <<eventVars, days, config, verdictVars, payVars, workVars, paid, call, upsets>>

DecideAppeal(v) ==
  /\ Pending(v)
  /\ \/ /\ appeal' = [appeal EXCEPT ![v] = "rejected"]
        /\ UNCHANGED bucket
     \/ /\ appeal' = [appeal EXCEPT ![v] = "upheld"]
        /\ \E b \in Bucket \cup {bucket[v]} : bucket' = [bucket EXCEPT ![v] = b]
  /\ UNCHANGED <<eventVars, days, config, row, payVars, workVars, paid, filing, call, upsets>>
------------------------------------------------------------------------------
(* Money, the clock and the rest of the event.                              *)

\* loadVerdictLines: what a verdict weighs in the settlement.
Weight(v) == IF bucket[v] \in {None, "rejected"} THEN 0 ELSE units[v]

\* GuardPayoutRelease
Releasable == phase = "settled" /\ closedOut

\* A release passes the guard and reads the weights SettlementFor divides by. A write
\* between the two reads amounts to the same write before the guard.
Release == /\ Releasable
           /\ paid = None
           /\ paid' = [v \in Verdict |-> Weight(v)]
           /\ UNCHANGED <<eventVars, days, config, verdictVars, appeal, payVars, workVars, filing, call, upsets>>

DayPasses == /\ published
             /\ days < MaxDays
             /\ days' = days + 1
             /\ UNCHANGED <<eventVars, config, verdictVars, appeal, payVars, workVars, paid, filing, call, upsets>>

\* An admin sets a value of the live configuration, in any phase.
SetConfig == /\ upsets < MaxUpsets
             /\ upsets' = upsets + 1
             /\ config' \in Config \ {config}
             /\ UNCHANGED <<eventVars, days, verdictVars, appeal, payVars, workVars, paid, filing, call>>

\* runDueDraws selects the issues of live events that nobody holds,
SelectDue == /\ phase = "live" /\ work = "none" /\ ~due
             /\ due' = TRUE
             /\ UNCHANGED <<eventVars, days, config, verdictVars, appeal, payVars, work, paid, filing, call, upsets>>

\* and draws one after the other; RunDraw does not look at the phase, and may end
\* without a winner.
Draw == /\ due
        /\ due' = FALSE
        /\ work' \in {"none", "open"}
        /\ UNCHANGED <<eventVars, days, config, verdictVars, appeal, payVars, paid, filing, call, upsets>>

\* sweepClosedEvents: releases what a closed event still holds, takes its GitHub
\* assignees off and tells the contributors.
Sweep == /\ phase = "closed"
         /\ work = "open"
         /\ work' = "told"
         /\ UNCHANGED <<eventVars, days, config, verdictVars, appeal, payVars, due, paid, filing, call, upsets>>
------------------------------------------------------------------------------
CallStep(a) == CheckBlockers(a) \/ WritePhase(a) \/ CloseEvent(a) \/ Reload(a) \/ CountPending(a)
               \/ ReadVerdicts(a) \/ Recompute(a) \/ GrantShares(a) \/ SettleMaintainers(a)

Next == \/ \E a \in Admin : LoadEvent(a) \/ CallStep(a) \/ CallFails(a)
        \/ \E v \in Verdict : SyncVerdict(v) \/ Override(v) \/ CheckAppeal(v) \/ InsertAppeal(v) \/ DecideAppeal(v)
        \/ Release \/ DayPasses \/ SetConfig \/ SelectDue \/ Draw \/ Sweep

\* A call that started goes on, admins come back, reviewers decide what is pending, the
\* runner ticks.
Fairness == /\ \A a \in Admin : WF_vars(CallStep(a)) /\ WF_vars(LoadEvent(a))
            /\ \A v \in Verdict : WF_vars(DecideAppeal(v))
            /\ WF_vars(Sweep)

Spec == Init /\ [][Next]_vars /\ Fairness
------------------------------------------------------------------------------
TypeOK == /\ phase \in Phase /\ published \in BOOLEAN /\ days \in Nat /\ closedOut \in BOOLEAN
          /\ snapshot \in Config \cup {None} /\ config \in Config
          /\ row \in [Verdict -> {"absent", "open", "rejected"}] /\ bucket \in Judged
          /\ units \in [Verdict -> Nat]
          /\ appeal \in [Verdict -> {"none", "pending", "rejected", "upheld"}]
          /\ runs \in Nat /\ dividedBy \in Config \cup {None}
          /\ granted \in BOOLEAN /\ maintainers \in BOOLEAN
          /\ work \in {"none", "open", "released", "told"} /\ due \in BOOLEAN
          /\ paid \in [Verdict -> Nat] \cup {None}
          /\ filing \in [Verdict -> BOOLEAN] /\ call \in [Admin -> Call] /\ upsets \in Nat

\* The pool is divided once: two admins who settle at the same time, or a stale call that
\* settles the event a second time, leave one recompute run (appeals.go, "divide the pool
\* again is not a safe thing to do twice").
DividedOnce == runs = IF closedOut THEN 1 ELSE 0

\* Nobody's time to appeal is cut short: when the pool is divided the days since the
\* results were first published have reached the window of some configuration, whatever
\* stale call published them a second time.
WindowHonoured == closedOut => published /\ \E c \in Config : days >= WindowDays[c]

\* Nobody is paid, and neither a maintainer pool nor founding shares are allocated, before
\* the recompute: an event can be settled while its recompute failed (judging_policy.go).
PaidAfterRecompute == paid # None \/ maintainers \/ granted => closedOut

\* A person is paid for the units the one recompute gave them or not at all: no settlement
\* reads units while they change.
PaidFromTheRun == paid # None => \A v \in Verdict : paid[v] \in {0, units[v]}
------------------------------------------------------------------------------
(* What comments of the code say, and the code does not do.                 *)

\* "every appeal gets a human answer before the pool is divided" (appeals.go).
AppealsAnsweredFirst == closedOut => \A v \in Verdict : ~Pending(v)

\* "a failure here is retryable" (phase.go): an event that is settled gets its recompute.
SettledIsDivided == phase = "settled" ~> closedOut

\* "the running hackathon reads its snapshot, not live global config" (phase.go).
SnapshotGoverns == closedOut => dividedBy = snapshot

\* "Returns the released assignments so the caller can clear their GitHub assignees and
\* notify the contributors" (assignment.go).
ReleasedAreTold == work = "released" ~> work = "told"
=============================================================================
