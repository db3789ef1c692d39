----------------------------- MODULE Assignments -----------------------------
(* Who works on which issue of one GrainHack event: applications and their     *)
(* gates, the runner's draws, releases and sweeps, the label's intake, the     *)
(* sync of merged pull requests into verdicts and the close of the event       *)
(* (internal/hackathon, handlers/hackathon_issue_applications.go). All issues  *)
(* belong to one project, hence one organisation and one GitHub account.       *)
EXTENDS Naturals, FiniteSets, Sequences

CONSTANTS
  Issue, User, Runner, Admin,   \* Admin: the one who closes the event
  Slots, EarnedAfter, SlotsMax, \* slots_per_contributor, earned_slots_threshold, earned_slots_max
  OrgCap, AbandonLimit, EmptyRetries,
  MaxRows, MaxMerges, MaxMishaps, \* bounds: assignments of an issue; pull requests; crashes, failures, lost labels
  Nobody

ASSUME LimitsAssumption ==
  /\ {Slots, EarnedAfter, SlotsMax, OrgCap, AbandonLimit, EmptyRetries, MaxRows, MaxMerges, MaxMishaps} \subseteq Nat
  /\ Slots <= SlotsMax /\ IsFiniteSet(Issue)
  /\ Nobody \notin Issue \cup User

VARIABLES
  phase,                        \* of the event, live or closed; what follows is EventLifecycle's
  entry, window,                \* hackathon_issues: status, the application window
  rounds,                       \* hackathon_draws of an issue, counted up to EmptyRetries
  app,                          \* hackathon_issue_applications.status
  rows,                         \* hackathon_assignments of an issue, oldest first
  merged,                       \* pull requests on GitHub that close an issue: in time, late
  verdict,                      \* hackathon_verdicts of a pull request
  run, mishaps,                 \* the runners' ticks
  userReq,                      \* a contributor's request in flight
  sync,                         \* the sync of the project's pull requests
  gone,                         \* the issue the label sync is about to remove
  closing                       \* who is inside CloseEventAssignments, and where

event == <<phase, entry, window, rounds>>
people == <<app, rows>>
work == <<merged, verdict>>
procs == <<run, mishaps, userReq, sync, gone, closing>>
assignmentVars == <<event, people, work, procs>>

Released == {"released_stale", "released_voluntary", "released_event_end"}
Row == [who : User, status : {"active", "completed"} \cup Released, holds : BOOLEAN, abandon : BOOLEAN]
Application == {"none", "applied", "rejected_gate", "won", "lost"}
Verdict == [status : {"none", "pending", "passed", "rejected"}, human : BOOLEAN]
DueDraw == [issue : Issue, empty : BOOLEAN]
Run == [pc : {"idle", "drawing", "reopen", "draw", "lock", "insert", "stale", "again", "open", "sweep"},
        due : SUBSET DueDraw, issue : Issue \cup {Nobody}, winner : User \cup {Nobody}, todo : SUBSET Issue]
NoRun == [pc |-> "idle", due |-> {}, issue |-> Nobody, winner |-> Nobody, todo |-> {}]
UserRequest == [pc : {"none", "apply", "release", "reopen", "open"}, issue : Issue \cup {Nobody},
            row : 0..MaxRows, passed : BOOLEAN]
NoUserRequest == [pc |-> "none", issue |-> Nobody, row |-> 0, passed |-> FALSE]
Candidate == [issue : Issue, author : User, ok : BOOLEAN]
Sync == [cands : SUBSET Candidate, now : Candidate \cup {Nobody}]

AssignmentsInit ==
  /\ phase = "live"
  /\ entry = [i \in Issue |-> "published"]
  /\ window = [i \in Issue |-> "open"]
  /\ rounds = [i \in Issue |-> 0]
  /\ app = [i \in Issue |-> [u \in User |-> "none"]]
  /\ rows = [i \in Issue |-> << >>]
  /\ merged = [i \in Issue |-> [u \in User |-> FALSE]]
  /\ verdict = [i \in Issue |-> [u \in User |-> [status |-> "none", human |-> FALSE]]]
  /\ run = [r \in Runner |-> NoRun]
  /\ mishaps = 0
  /\ userReq = [u \in User |-> NoUserRequest]
  /\ sync = [cands |-> {}, now |-> Nobody]
  /\ gone = Nobody
  /\ closing = [c \in Runner \cup {Admin} |-> "no"]

\* The rows of all issues that satisfy a condition.
Count(Test(_)) == Cardinality({x \in Issue \X (1..MaxRows) : x[2] <= Len(rows[x[1]]) /\ Test(rows[x[1]][x[2]])})
Held(u) == Count(LAMBDA a : a.who = u /\ a.holds)
Won(u) == Count(LAMBDA a : a.who = u)
Abandons(u) == Count(LAMBDA a : a.who = u /\ a.abandon)
Completed(u) == Count(LAMBDA a : a.who = u /\ a.status = "completed")

SlotsAfter(completed) ==
  LET earned == IF EarnedAfter > 0 /\ completed >= EarnedAfter THEN Slots + 1 ELSE Slots
  IN IF earned > SlotsMax THEN SlotsMax ELSE earned

EffectiveSlots(u) == SlotsAfter(Completed(u))

\* The organisation's cap is not yet reached; 0 is no cap.
OrgCapOpen(u) == OrgCap = 0 \/ Won(u) < OrgCap

Occupied(i) == \E k \in DOMAIN rows[i] : rows[i][k].status \notin Released
IssueIsFinished(i) == \E k \in DOMAIN rows[i] : rows[i][k].status = "completed"
InFlight(i) == \E k \in DOMAIN rows[i] : rows[i][k].status = "active"
Applicants(i) == {u \in User : app[i][u] = "applied"}

\* Rewrites the rows of an issue that satisfy a condition.
Amend(i, Test(_), New(_)) == [k \in DOMAIN rows[i] |-> IF Test(rows[i][k]) THEN New(rows[i][k]) ELSE rows[i][k]]
Free(a, how, abandon) == [a EXCEPT !.status = how, !.holds = FALSE, !.abandon = abandon]

-----------------------------------------------------------------------------
(* Contributors. *)

\* The gates the database answers; GitHub's may refuse as well.
CheckGates(u, i) ==
  /\ phase = "live" /\ entry[i] = "published" /\ window[i] = "open"
  /\ Abandons(u) < AbandonLimit
  /\ Held(u) < EffectiveSlots(u)
  /\ OrgCapOpen(u)

Apply(u, i) ==
  /\ userReq[u].pc = "none" /\ app[i][u] # "applied"
  /\ \E passed \in {FALSE, CheckGates(u, i)} :
       userReq' = [userReq EXCEPT ![u] = [pc |-> "apply", issue |-> i, row |-> 0, passed |-> passed]]
  /\ UNCHANGED <<event, people, work, run, mishaps, sync, gone, closing>>

\* The upsert: a won or lost application of the same person is overwritten.
ApplyWrite(u) ==
  /\ userReq[u].pc = "apply"
  /\ app' = [app EXCEPT ![userReq[u].issue][u] = IF userReq[u].passed THEN "applied" ELSE "rejected_gate"]
  /\ userReq' = [userReq EXCEPT ![u] = NoUserRequest]
  /\ UNCHANGED <<event, rows, work, run, mishaps, sync, gone, closing>>

\* ReleaseVoluntary reads the assignment ...
Release(u, i) ==
  /\ userReq[u].pc = "none"
  /\ \E k \in DOMAIN rows[i] :
       /\ rows[i][k].who = u /\ rows[i][k].status = "active" /\ k < MaxRows
       /\ userReq' = [userReq EXCEPT ![u] = [pc |-> "release", issue |-> i, row |-> k, passed |-> FALSE]]
  /\ UNCHANGED <<event, people, work, run, mishaps, sync, gone, closing>>

\* ... and writes it by its id alone, whatever it has become.
ReleaseVoluntary(u) ==
  /\ userReq[u].pc = "release"
  /\ \E abandoned \in BOOLEAN :
       rows' = [rows EXCEPT ![userReq[u].issue][userReq[u].row] = Free(@, "released_voluntary", abandoned)]
  /\ userReq' = [userReq EXCEPT ![u].pc = "reopen"]
  /\ UNCHANGED <<event, app, work, run, mishaps, sync, gone, closing>>

\* ReopenWindow's look and its write.
RequestReopen(u) ==
  /\ userReq[u].pc = "reopen"
  /\ userReq' = [userReq EXCEPT ![u] = IF IssueIsFinished(userReq[u].issue) THEN NoUserRequest ELSE [@ EXCEPT !.pc = "open", !.row = 0]]
  /\ UNCHANGED <<event, people, work, run, mishaps, sync, gone, closing>>

RequestOpen(u) ==
  /\ userReq[u].pc = "open"
  /\ window' = [window EXCEPT ![userReq[u].issue] = "open"]
  /\ userReq' = [userReq EXCEPT ![u] = NoUserRequest]
  /\ UNCHANGED <<phase, entry, rounds, people, work, run, mishaps, sync, gone, closing>>

-----------------------------------------------------------------------------
(* The runner's tick: due draws, stale releases, the sweep of closed events.   *)

\* runDueDraws lists free issues whose window has passed, with their counts.
Tick(r) ==
  /\ run[r].pc = "idle"
  /\ LET free == {i \in Issue : phase = "live" /\ entry[i] = "published" /\ window[i] = "shut"
                               /\ ~Occupied(i) /\ Len(rows[i]) < MaxRows}
     IN run' = [run EXCEPT ![r].pc = "drawing",
                           ![r].due = {[issue |-> i, empty |-> Applicants(i) = {} /\ rounds[i] < EmptyRetries] : i \in free}]
  /\ UNCHANGED <<event, people, work, mishaps, userReq, sync, gone, closing>>

\* An issue nobody had applied to is reopened, unless it is finished, and drawn
\* all the same, to record the empty round.
TakeEmpty(r) ==
  /\ run[r].pc = "drawing"
  /\ \E d \in run[r].due :
       /\ d.empty
       /\ run' = [run EXCEPT ![r].due = @ \ {d}, ![r].issue = d.issue,
                             ![r].pc = IF IssueIsFinished(d.issue) THEN "draw" ELSE "reopen"]
  /\ UNCHANGED <<event, people, work, mishaps, userReq, sync, gone, closing>>

ReopenEmpty(r) ==
  /\ run[r].pc = "reopen"
  /\ window' = [window EXCEPT ![run[r].issue] = "open"]
  /\ run' = [run EXCEPT ![r].pc = "draw"]
  /\ UNCHANGED <<phase, entry, rounds, people, work, mishaps, userReq, sync, gone, closing>>

\* RunDraw: some applicant wins, or nobody when there is none or the pool's and
\* the reservation's rules leave none; the round is recorded before the commit.
RunDraw(r) ==
  /\ \E i \in Issue, due \in SUBSET run[r].due :
       /\ \/ run[r].pc = "draw" /\ i = run[r].issue /\ due = run[r].due
          \/ run[r].pc = "drawing" /\ run[r].due \ due = {[issue |-> i, empty |-> FALSE]}
       /\ rounds' = [rounds EXCEPT ![i] = IF @ < EmptyRetries THEN @ + 1 ELSE @]
       /\ \E u \in Applicants(i) \cup {Nobody} :
            run' = [run EXCEPT ![r] = [@ EXCEPT !.pc = IF u = Nobody THEN "drawing" ELSE "lock", !.due = due,
                                                !.issue = IF u = Nobody THEN Nobody ELSE i, !.winner = u]]
  /\ UNCHANGED <<phase, entry, window, people, work, mishaps, userReq, sync, gone, closing>>

NextIssue(r) == run' = [run EXCEPT ![r].pc = "drawing", ![r].issue = Nobody, ![r].winner = Nobody]

\* Within the caps, the issue's organisation's included.
HasRoom(u) == Held(u) < EffectiveSlots(u) /\ OrgCapOpen(u)

CommitUnlocked(r) == \* mutant
  /\ run[r].pc = "lock"
  /\ IF HasRoom(run[r].winner) THEN run' = [run EXCEPT ![r].pc = "insert"] ELSE NextIssue(r)
  /\ UNCHANGED <<event, people, work, mishaps, userReq, sync, gone, closing>>

\* commitAssignment takes the winner's lock, which another draw for the same
\* person may hold, and counts again.
CommitLock(r) ==
  /\ run[r].pc = "lock"
  /\ \A q \in Runner : ~(run[q].pc = "insert" /\ run[q].winner = run[r].winner)
  /\ IF HasRoom(run[r].winner) THEN run' = [run EXCEPT ![r].pc = "insert"] ELSE NextIssue(r)
  /\ UNCHANGED <<event, people, work, mishaps, userReq, sync, gone, closing>>

\* The insert skips an issue somebody holds; with it the applications are decided.
CommitInsert(r) ==
  /\ run[r].pc = "insert"
  /\ LET i == run[r].issue
         u == run[r].winner
     IN IF Occupied(i) \/ Len(rows[i]) = MaxRows
        THEN UNCHANGED people
        ELSE /\ rows' = [rows EXCEPT ![i] = Append(@, [who |-> u, status |-> "active", holds |-> TRUE, abandon |-> FALSE])]
             /\ app' = [app EXCEPT ![i] = [v \in User |-> IF @[v] # "applied" THEN @[v] ELSE IF v = u THEN "won" ELSE "lost"]]
  /\ NextIssue(r)
  /\ UNCHANGED <<event, work, mishaps, userReq, sync, gone, closing>>

\* ReleaseStale, one statement: whichever active rows have passed their deadline.
ReleaseStale(r) ==
  /\ run[r].pc = "drawing" /\ run[r].due = {}
  /\ \E late \in SUBSET {i \in Issue : phase = "live" /\ InFlight(i) /\ Len(rows[i]) < MaxRows} :
       /\ rows' = [i \in Issue |-> IF i \in late
                       THEN Amend(i, LAMBDA a : a.status = "active", LAMBDA a : Free(a, "released_stale", TRUE))
                       ELSE rows[i]]
       /\ run' = [run EXCEPT ![r].pc = "again", ![r].todo = late]
  /\ UNCHANGED <<event, app, work, mishaps, userReq, sync, gone, closing>>

\* Each released issue is reopened unless it is finished.
ReopenStale(r) ==
  /\ run[r].pc = "again"
  /\ \E i \in run[r].todo :
       run' = IF IssueIsFinished(i) THEN [run EXCEPT ![r].todo = @ \ {i}]
              ELSE [run EXCEPT ![r].todo = @ \ {i}, ![r].pc = "open", ![r].issue = i]
  /\ UNCHANGED <<event, people, work, mishaps, userReq, sync, gone, closing>>

OpenStale(r) ==
  /\ run[r].pc = "open"
  /\ window' = [window EXCEPT ![run[r].issue] = "open"]
  /\ run' = [run EXCEPT ![r].pc = "again", ![r].issue = Nobody]
  /\ UNCHANGED <<phase, entry, rounds, people, work, mishaps, userReq, sync, gone, closing>>

\* sweepClosedEvents: a closed event that still has work in flight or an
\* unfinished issue on show is closed once more.
UnsweptIssues == \E i \in Issue : entry[i] = "published" /\ ~IssueIsFinished(i) \* mutant

Unswept == \E i \in Issue : InFlight(i) \/ (entry[i] = "published" /\ ~IssueIsFinished(i))

SweepClosedEvents(r) ==
  /\ run[r].pc = "again" /\ run[r].todo = {}
  /\ IF phase = "closed" /\ Unswept
     THEN /\ closing' = [closing EXCEPT ![r] = "rows"]
          /\ run' = [run EXCEPT ![r].pc = "sweep"]
     ELSE /\ run' = [run EXCEPT ![r] = NoRun]
          /\ UNCHANGED closing
  /\ UNCHANGED <<event, people, work, mishaps, userReq, sync, gone>>

\* The process of a runner restarts, or a statement of its fails: what it was doing is lost.
Crash(r) ==
  /\ run[r].pc # "idle" /\ mishaps < MaxMishaps
  /\ run' = [run EXCEPT ![r] = NoRun]
  /\ closing' = [closing EXCEPT ![r] = "no"]
  /\ mishaps' = mishaps + 1
  /\ UNCHANGED <<event, people, work, userReq, sync, gone>>

\* The server dies under a contributor's request.
RequestLost(u) ==
  /\ userReq[u].pc \in {"release", "reopen", "open"} /\ mishaps < MaxMishaps
  /\ userReq' = [userReq EXCEPT ![u] = NoUserRequest]
  /\ mishaps' = mishaps + 1
  /\ UNCHANGED <<event, people, work, run, sync, gone, closing>>

-----------------------------------------------------------------------------
(* The close: Transition commits the phase, then CloseEventAssignments runs    *)
(* its three statements, in Transition or in a runner's sweep.                 *)

Close ==
  /\ phase = "live"
  /\ phase' = "closed"
  /\ closing' = [closing EXCEPT ![Admin] = "rows"]
  /\ UNCHANGED <<entry, window, rounds, people, work, run, mishaps, userReq, sync, gone>>

CloseRows(c) ==
  /\ closing[c] = "rows"
  /\ rows' = [i \in Issue |-> Amend(i, LAMBDA a : a.status = "active", LAMBDA a : Free(a, "released_event_end", a.abandon))]
  /\ closing' = [closing EXCEPT ![c] = "applications"]
  /\ UNCHANGED <<event, app, work, run, mishaps, userReq, sync, gone>>

CloseApplications(c) ==
  /\ closing[c] = "applications"
  /\ app' = [i \in Issue |-> [u \in User |-> IF app[i][u] = "applied" THEN "lost" ELSE app[i][u]]]
  /\ closing' = [closing EXCEPT ![c] = "issues"]
  /\ UNCHANGED <<event, rows, work, run, mishaps, userReq, sync, gone>>

CloseIssues(c) ==
  /\ closing[c] = "issues"
  /\ LET unfinished == {i \in Issue : entry[i] = "published" /\ ~IssueIsFinished(i)}
     IN /\ entry' = [i \in Issue |-> IF i \in unfinished THEN "removed" ELSE entry[i]]
        /\ window' = [i \in Issue |-> IF i \in unfinished THEN "none" ELSE window[i]]
  /\ closing' = [closing EXCEPT ![c] = "no"]
  /\ run' = IF c \in Runner THEN [run EXCEPT ![c] = NoRun] ELSE run
  /\ UNCHANGED <<phase, rounds, people, work, mishaps, userReq, sync, gone>>

\* A statement of Transition's close fails: the rest is not done.
CloseFails ==
  /\ closing[Admin] # "no" /\ mishaps < MaxMishaps
  /\ closing' = [closing EXCEPT ![Admin] = "no"]
  /\ mishaps' = mishaps + 1
  /\ UNCHANGED <<event, people, work, run, userReq, sync, gone>>

-----------------------------------------------------------------------------
(* Time, the label, and what happens on GitHub. *)

WindowCloses(i) ==
  /\ window[i] = "open"
  /\ window' = [window EXCEPT ![i] = "shut"]
  /\ UNCHANGED <<phase, entry, rounds, people, work, procs>>

\* SyncIssueLabel finds the label gone from an issue nobody holds ...
LabelGone(i) ==
  /\ gone = Nobody /\ phase = "live" /\ entry[i] # "removed" /\ ~Occupied(i)
  /\ mishaps < MaxMishaps /\ mishaps' = mishaps + 1
  /\ gone' = i
  /\ UNCHANGED <<event, people, work, run, userReq, sync, closing>>

\* ... and removes it, whoever holds it by then.
LabelRemoves ==
  /\ gone # Nobody
  /\ entry' = [entry EXCEPT ![gone] = "removed"]
  /\ gone' = Nobody
  /\ UNCHANGED <<phase, window, rounds, people, work, run, mishaps, userReq, sync, closing>>

\* The label is back on a removed issue: it is pending again, and published at
\* once with a new window when its fields suffice.
LabelBack(i) ==
  /\ phase = "live" /\ entry[i] = "removed" /\ gone = Nobody
  /\ \E publish \in BOOLEAN :
       /\ entry' = [entry EXCEPT ![i] = IF publish THEN "published" ELSE "pending"]
       /\ window' = IF publish THEN [window EXCEPT ![i] = "open"] ELSE window
  /\ UNCHANGED <<phase, rounds, people, work, procs>>

\* MaybePublish, when the maintainer completes a pending issue's fields.
MaybePublish(i) ==
  /\ entry[i] = "pending"
  /\ entry' = [entry EXCEPT ![i] = "published"]
  /\ window' = [window EXCEPT ![i] = "open"]
  /\ UNCHANGED <<phase, rounds, people, work, procs>>

\* A pull request that closes the issue is merged, in time or past the grace.
Merge(i, u) ==
  /\ ~merged[i][u] /\ Cardinality({x \in Issue \X User : merged[x[1]][x[2]]}) < MaxMerges
  /\ merged' = [merged EXCEPT ![i][u] = TRUE]
  /\ UNCHANGED <<event, people, verdict, procs>>

-----------------------------------------------------------------------------
(* SyncVerdicts: the merged pull requests of the project become verdicts. *)

\* qualificationFailure: merged in time by the person who holds the issue.
Qualifies(i, u) ==
  /\ merged[i][u]
  /\ \E k \in DOMAIN rows[i] : rows[i][k].status \notin Released /\ rows[i][k].who = u

LoadCandidates ==
  /\ sync.cands = {} /\ sync.now = Nobody
  /\ LET mergedPRs == {x \in Issue \X User : merged[x[1]][x[2]]}
     IN /\ mergedPRs # {}
        /\ sync' = [sync EXCEPT !.cands = {[issue |-> x[1], author |-> x[2], ok |-> Qualifies(x[1], x[2])] : x \in mergedPRs}]
  /\ UNCHANGED <<event, people, work, run, mishaps, userReq, gone, closing>>

\* RecordMerge for a pull request that qualified when it was read, then the look
\* whether a human has settled the verdict.
RecordMerge(c) ==
  /\ c \in sync.cands /\ sync.now = Nobody
  /\ rows' = IF c.ok
             THEN [rows EXCEPT ![c.issue] = Amend(c.issue, LAMBDA a : a.who = c.author /\ a.status = "active",
                                                  LAMBDA a : Free(a, "completed", a.abandon))]
             ELSE rows
  /\ sync' = [cands |-> sync.cands \ {c}, now |-> IF verdict[c.issue][c.author].human THEN Nobody ELSE c]
  /\ UNCHANGED <<event, app, work, run, mishaps, userReq, gone, closing>>

\* The upsert behind GitHub's answers, which leaves a settled verdict alone.
Upsert(v, status) == IF v.human THEN v ELSE [v EXCEPT !.status = status]

WriteVerdict ==
  /\ sync.now # Nobody
  /\ \E status \in IF sync.now.ok THEN {"pending", "passed", "rejected"} ELSE {"rejected"} :
       verdict' = [verdict EXCEPT ![sync.now.issue][sync.now.author] = Upsert(@, status)]
  /\ sync' = [sync EXCEPT !.now = Nobody]
  /\ UNCHANGED <<event, people, merged, run, mishaps, userReq, gone, closing>>

\* A reviewer's override, or an appeal upheld, settles a verdict.
Override(i, u) ==
  /\ verdict[i][u].status # "none" /\ ~verdict[i][u].human
  /\ verdict' = [verdict EXCEPT ![i][u].human = TRUE]
  /\ UNCHANGED <<event, people, merged, procs>>

-----------------------------------------------------------------------------
RunnerStep(r) ==
  \/ Tick(r) \/ TakeEmpty(r) \/ ReopenEmpty(r) \/ RunDraw(r) \/ CommitLock(r) \/ CommitInsert(r)
  \/ ReleaseStale(r) \/ ReopenStale(r) \/ OpenStale(r) \/ SweepClosedEvents(r)
CloserStep(c) == CloseRows(c) \/ CloseApplications(c) \/ CloseIssues(c)

AssignmentsNext ==
  \/ \E r \in Runner : RunnerStep(r) \/ Crash(r)
  \/ \E u \in User : ApplyWrite(u) \/ ReleaseVoluntary(u) \/ RequestReopen(u) \/ RequestOpen(u) \/ RequestLost(u)
  \/ \E u \in User, i \in Issue : Apply(u, i) \/ Release(u, i) \/ Merge(i, u) \/ Override(i, u)
  \/ Close \/ CloseFails
  \/ \E c \in Runner \cup {Admin} : CloserStep(c)
  \/ \E i \in Issue : WindowCloses(i) \/ LabelGone(i) \/ LabelBack(i) \/ MaybePublish(i)
  \/ LabelRemoves \/ LoadCandidates \/ WriteVerdict
  \/ \E c \in sync.cands : RecordMerge(c)

\* The runner's ticker and PostgreSQL let every started step go on.
AssignmentsFairness == /\ \A r \in Runner : WF_assignmentVars(RunnerStep(r))
            /\ \A c \in Runner \cup {Admin} : WF_assignmentVars(CloserStep(c))
AssignmentsSpec == AssignmentsInit /\ [][AssignmentsNext]_assignmentVars /\ AssignmentsFairness
-----------------------------------------------------------------------------
(* Properties. *)

\* The columns have their types, one unreleased assignment holds an issue (the
\* index), and an assignment holds a slot exactly while it is active.
AssignmentTypes ==
  /\ phase \in {"live", "closed"}
  /\ entry \in [Issue -> {"pending", "published", "removed"}]
  /\ window \in [Issue -> {"open", "shut", "none"}]
  /\ rounds \in [Issue -> 0..EmptyRetries]
  /\ app \in [Issue -> [User -> Application]]
  /\ \A i \in Issue :
       /\ rows[i] \in Seq(Row) /\ Len(rows[i]) <= MaxRows
       /\ Cardinality({k \in DOMAIN rows[i] : rows[i][k].status \notin Released}) <= 1
       /\ \A k \in DOMAIN rows[i] : rows[i][k].holds <=> rows[i][k].status = "active"
  /\ merged \in [Issue -> [User -> BOOLEAN]]
  /\ verdict \in [Issue -> [User -> Verdict]]
  /\ run \in [Runner -> Run] /\ mishaps \in 0..MaxMishaps
  /\ userReq \in [User -> UserRequest] /\ sync \in Sync /\ gone \in Issue \cup {Nobody}
  /\ closing \in [Runner \cup {Admin} -> {"no", "rows", "applications", "issues"}]

\* Draws of several issues at once never give a contributor more issues than the
\* slots earned by merged work and the organisation's cap allow (commitAssignment's
\* recount under the winner's lock).
WinsWithinCaps ==
  [][\A u \in User : Won(u)' > Won(u) =>
       /\ Held(u)' <= SlotsAfter(Cardinality({i \in Issue : merged'[i][u]}))
       /\ OrgCap = 0 \/ Won(u)' <= OrgCap]_assignmentVars

\* While an event stays closed, whatever a failed close or a late draw left
\* behind is released and reverted in the end.
StragglersReleased ==
  <>[](phase = "closed") =>
    <>[](\A i \in Issue : ~InFlight(i) /\ (entry[i] = "published" => IssueIsFinished(i)))

\* Finished work stays finished (issue_occupancy.go, publication.go).
FinishedIsFinal ==
  [][\A i \in Issue : \A k \in DOMAIN rows[i] :
       rows[i][k].status = "completed" => rows'[i][k].status = "completed"]_assignmentVars
=============================================================================
