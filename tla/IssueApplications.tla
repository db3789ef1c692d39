-------------------------- MODULE IssueApplications --------------------------
(* Who works on one issue of a hackathon: the assignees on GitHub, the          *)
(* applications here, and the sync that makes them agree, while contributors    *)
(* and maintainers use the platform, GitHub, or both                            *)
(* (handlers/issue_applications.go, syncjobs/worker.go, hackathon/oob.go).      *)
EXTENDS Naturals, FiniteSets

CONSTANTS User,       \* contributors, each with a GitHub login
          Handler,    \* requests in flight at one time
          MaxMoves,   \* bound: requests, GitHub's own changes, settings
          MaxFailures,  \* bound: requests and syncs that die, calls that fail
          Stray,      \* syncs that run on without their lease at one time
          Leased,     \* the sync that has the lease
          NoUser

ASSUME StrayAssumption == Leased \notin Stray
ASSUME BoundsAssumption == MaxMoves \in Nat /\ MaxFailures \in Nat

VARIABLES
  gh,          \* GitHub's issue: open, assignees, whose application comments stand
  issue,       \* the row of github_issues: open, assignees
  apps,        \* issue_applications: the status per contributor
  oob,         \* hackathon_oob_assignments: occurrences, and whether reverted
  autoRevert,  \* the setting auto_revert_oob_assignment
  req,         \* requests between their call to GitHub and their rows
  sync,        \* the syncs of the project's issues that run
  adds,        \* history: how often GitHub made each contributor an assignee
  strayWrites, \* history: how many syncs wrote what they saw after losing their lease
  moves, failures

applicationVars == <<gh, issue, apps, oob, autoRevert, req, sync, adds, strayWrites, moves, failures>>

Runner == {Leased} \cup Stray
ApplicationStatus == {"none", "applied", "assigned", "rejected", "withdrawn"}
Eligible == {"applied", "assigned"}
With(statuses) == {u \in User : apps[u] \in statuses}
Quiet == [pc |-> "idle", user |-> NoUser]
NotSyncing == [pc |-> "idle", open |-> FALSE, assignees |-> {}, ineligible |-> {}, removed |-> {}]

ApplicationsInit ==
  /\ gh = [open |-> TRUE, assignees |-> {}, comments |-> {}]
  /\ issue = [open |-> TRUE, assignees |-> {}]
  /\ apps = [u \in User |-> "none"]
  /\ oob = [u \in User |-> [occurrences |-> 0, reverted |-> FALSE]]
  /\ autoRevert = TRUE
  /\ req = [h \in Handler |-> Quiet] /\ sync = [r \in Runner |-> NotSyncing]
  /\ adds = [u \in User |-> 0] /\ strayWrites = 0 /\ moves = 0 /\ failures = 0

Move == moves < MaxMoves /\ moves' = moves + 1
Goes(h, pc, u) == req' = [req EXCEPT ![h] = [pc |-> pc, user |-> u]]
Ends(h) == req' = [req EXCEPT ![h] = Quiet]

-----------------------------------------------------------------------------
(* GitHub, used directly by the maintainers, and the administrator's setting.  *)

Assignees(set) ==
  /\ gh' = [gh EXCEPT !.assignees = set]
  /\ adds' = [u \in User |-> adds[u] + IF u \in set \ gh.assignees THEN 1 ELSE 0]

GitHubAssigns(u) ==
  /\ Move /\ u \notin gh.assignees /\ Assignees(gh.assignees \cup {u})
  /\ UNCHANGED <<issue, apps, oob, autoRevert, req, sync, strayWrites, failures>>

GitHubUnassigns(u) ==
  /\ Move /\ u \in gh.assignees /\ Assignees(gh.assignees \ {u})
  /\ UNCHANGED <<issue, apps, oob, autoRevert, req, sync, strayWrites, failures>>

GitHubToggles ==
  /\ Move /\ gh' = [gh EXCEPT !.open = ~@]
  /\ UNCHANGED <<issue, apps, oob, autoRevert, req, sync, adds, strayWrites, failures>>

SetAutoRevert ==
  /\ Move /\ autoRevert' = ~autoRevert
  /\ UNCHANGED <<gh, issue, apps, oob, req, sync, adds, strayWrites, failures>>

-----------------------------------------------------------------------------
(* The handlers: checks and the call to GitHub first, the rows later.          *)

\* The row must be open and without assignees; then the applicant's comment stands.
Apply(h, u) ==
  /\ Move /\ req[h] = Quiet
  /\ issue.open /\ issue.assignees = {}
  /\ gh' = [gh EXCEPT !.comments = @ \cup {u}]
  /\ Goes(h, "apply", u)
  /\ UNCHANGED <<issue, apps, oob, autoRevert, sync, adds, strayWrites, failures>>

\* An upsert: a withdrawn or rejected application is revived, an assigned one reset.
recordApplication(h) ==
  /\ req[h].pc = "apply"
  /\ apps' = [apps EXCEPT ![req[h].user] = "applied"]
  /\ Ends(h)
  /\ UNCHANGED <<gh, issue, oob, autoRevert, sync, adds, strayWrites, moves, failures>>

\* The applicant's comment is deleted; without one GitHub answers 404.
Withdraw(h, u) ==
  /\ Move /\ req[h] = Quiet
  /\ u \in gh.comments
  /\ gh' = [gh EXCEPT !.comments = @ \ {u}]
  /\ Goes(h, "withdraw", u)
  /\ UNCHANGED <<issue, apps, oob, autoRevert, sync, adds, strayWrites, failures>>

recordWithdrawal(h) ==
  /\ req[h].pc = "withdraw"
  /\ apps' = [apps EXCEPT ![req[h].user] = IF @ = "none" THEN @ ELSE "withdrawn"]
  /\ Ends(h)
  /\ UNCHANGED <<gh, issue, oob, autoRevert, sync, adds, strayWrites, moves, failures>>

\* Nobody may be assigned already, and the assignee must have applied.
MayAssign(u) == With({"assigned"}) = {} /\ apps[u] = "applied"

Assign(h, u) ==
  /\ Move /\ req[h] = Quiet
  /\ MayAssign(u)
  /\ Goes(h, "assign", u)
  /\ UNCHANGED <<gh, issue, apps, oob, autoRevert, sync, adds, strayWrites, failures>>

AddIssueAssignees(h) ==
  /\ req[h].pc = "assign"
  /\ Assignees(gh.assignees \cup {req[h].user})
  /\ Goes(h, "mirror", req[h].user)
  /\ UNCHANGED <<issue, apps, oob, autoRevert, sync, strayWrites, moves, failures>>

\* The row says one assignee, whoever GitHub has besides; then the bot comments.
AssignMirrors(h) ==
  /\ req[h].pc = "mirror"
  /\ issue' = [issue EXCEPT !.assignees = {req[h].user}]
  /\ Goes(h, "record", req[h].user)
  /\ UNCHANGED <<gh, apps, oob, autoRevert, sync, adds, strayWrites, moves, failures>>

\* An upsert whatever the status has become since the check.
recordAssignment(h) ==
  /\ req[h].pc = "record"
  /\ apps' = [apps EXCEPT ![req[h].user] = "assigned"]
  /\ Ends(h)
  /\ UNCHANGED <<gh, issue, oob, autoRevert, sync, adds, strayWrites, moves, failures>>

\* Whoever the row names is removed on GitHub.
Unassign(h) ==
  /\ Move /\ req[h] = Quiet
  /\ issue.assignees # {}
  /\ Assignees(gh.assignees \ issue.assignees)
  /\ Goes(h, "unassign", NoUser)
  /\ UNCHANGED <<issue, apps, oob, autoRevert, sync, strayWrites, failures>>

\* Every assigned application goes back, whoever it was that GitHub removed.
recordUnassignment(h) ==
  /\ req[h].pc = "unassign"
  /\ issue' = [issue EXCEPT !.assignees = {}]
  /\ apps' = [u \in User |-> IF apps[u] = "assigned" THEN "applied" ELSE apps[u]]
  /\ Ends(h)
  /\ UNCHANGED <<gh, oob, autoRevert, sync, adds, strayWrites, moves, failures>>

\* The bot's comment, then the row, whatever its status: an assignee too.
Reject(u) ==
  /\ Move /\ apps[u] # "none"
  /\ apps' = [apps EXCEPT ![u] = "rejected"]
  /\ UNCHANGED <<gh, issue, oob, autoRevert, req, sync, adds, strayWrites, failures>>

\* The call to GitHub fails, or the process or the connection dies.
RequestDies(h) ==
  /\ req[h] # Quiet
  /\ failures < MaxFailures /\ failures' = failures + 1
  /\ Ends(h)
  /\ UNCHANGED <<gh, issue, apps, oob, autoRevert, sync, adds, strayWrites, moves>>

-----------------------------------------------------------------------------
(* syncIssues, for this issue. One job of a project has the lease; a worker      *)
(* whose heartbeats do not get through loses it and runs on beside the next.     *)

Steps(r, next) == sync' = [sync EXCEPT ![r] = next]
Fails == failures < MaxFailures /\ failures' = failures + 1

ListIssues ==
  /\ sync[Leased] = NotSyncing
  /\ Steps(Leased, [NotSyncing EXCEPT !.pc = IF gh.open THEN "read" ELSE "write",
                                      !.open = gh.open, !.assignees = gh.assignees])
  /\ UNCHANGED <<gh, issue, apps, oob, autoRevert, req, adds, strayWrites, moves, failures>>

\* The lease lapses under a sync that runs: the reaper gives the job to another.
TakenForDead(r) ==
  /\ sync[Leased] # NotSyncing /\ r \in Stray /\ sync[r] = NotSyncing
  /\ Fails
  /\ sync' = [sync EXCEPT ![Leased] = NotSyncing, ![r] = sync[Leased]]
  /\ UNCHANGED <<gh, issue, apps, oob, autoRevert, req, adds, strayWrites, moves>>

\* reconcileApplicationStatuses reads who is eligible ...
ReadEligible(r) ==
  /\ sync[r].pc = "read"
  /\ Steps(r, [sync[r] EXCEPT !.pc = "update", !.ineligible = sync[r].assignees \ With(Eligible)])
  /\ UNCHANGED <<gh, issue, apps, oob, autoRevert, req, adds, strayWrites, moves, failures>>

Promoted(r, u) == apps[u] = "applied" /\ u \in sync[r].assignees \ sync[r].ineligible
NoneDemoted(r, u) == FALSE \* mutant
Demoted(r, u) == apps[u] = "assigned" /\ u \notin sync[r].assignees

\* ... and then promotes the eligible assignees and demotes who is none any more.
UpdateStatuses(r) ==
  /\ sync[r].pc = "update"
  /\ apps' = [u \in User |-> CASE Promoted(r, u) -> "assigned"
                               [] Demoted(r, u) -> "applied"
                               [] OTHER -> apps[u]]
  /\ Steps(r, [sync[r] EXCEPT !.pc = IF sync[r].ineligible = {} THEN "write" ELSE "revert"])
  /\ UNCHANGED <<gh, issue, oob, autoRevert, req, adds, strayWrites, moves, failures>>

\* Either statement fails: nobody is taken for ineligible in this sync.
ReconcileFails(r) ==
  /\ sync[r].pc \in {"read", "update"}
  /\ Fails
  /\ \/ UNCHANGED apps
     \/ /\ sync[r].pc = "update"
        /\ apps' = [u \in User |-> IF Promoted(r, u) THEN "assigned" ELSE apps[u]]
  /\ Steps(r, [sync[r] EXCEPT !.pc = "write", !.ineligible = {}])
  /\ UNCHANGED <<gh, issue, oob, autoRevert, req, adds, strayWrites, moves>>

\* The ineligible are removed on GitHub, when the setting says so.
RemoveIneligible(r) ==
  /\ sync[r].pc = "revert"
  /\ IF autoRevert
     THEN /\ Assignees(gh.assignees \ sync[r].ineligible)
          /\ Steps(r, [sync[r] EXCEPT !.pc = "write", !.removed = sync[r].ineligible])
     ELSE /\ Steps(r, [sync[r] EXCEPT !.pc = "write"]) /\ UNCHANGED <<gh, adds>>
  /\ UNCHANGED <<issue, apps, oob, autoRevert, req, strayWrites, moves, failures>>

\* The removal fails, or is done and its answer is lost: recorded as not reverted.
RemovalFails(r) ==
  /\ sync[r].pc = "revert" /\ autoRevert
  /\ Fails
  /\ \/ Assignees(gh.assignees \ sync[r].ineligible)
     \/ UNCHANGED <<gh, adds>>
  /\ Steps(r, [sync[r] EXCEPT !.pc = "write"])
  /\ UNCHANGED <<issue, apps, oob, autoRevert, req, strayWrites, moves>>

CountEverySighting(r, u) == \* mutant
  [occurrences |-> oob[u].occurrences + 1, reverted |-> u \in sync[r].removed]

\* A sighting counts when it is the first, or the one before it was reverted.
RecordOOBAssignment(r, u) ==
  [occurrences |-> oob[u].occurrences
                     + IF oob[u].occurrences = 0 \/ oob[u].reverted THEN 1 ELSE 0,
   reverted |-> u \in sync[r].removed]

\* The out-of-band assignments are recorded and the issue's row is upserted from
\* the listing, less whom this sync removed.
UpsertIssue(r) ==
  /\ sync[r].pc = "write"
  /\ oob' = [u \in User |-> IF u \in sync[r].ineligible THEN RecordOOBAssignment(r, u) ELSE oob[u]]
  /\ issue' = [open |-> sync[r].open, assignees |-> sync[r].assignees \ sync[r].removed]
  /\ Steps(r, NotSyncing)
  /\ strayWrites' = strayWrites + IF r = Leased THEN 0 ELSE 1
  /\ UNCHANGED <<gh, apps, autoRevert, req, adds, moves, failures>>

\* A sync dies and the queue runs it again; one that lost its lease is cancelled by
\* the first heartbeat that gets through.
SyncDies(r) ==
  /\ sync[r] # NotSyncing
  /\ IF r = Leased THEN Fails ELSE UNCHANGED failures
  /\ Steps(r, NotSyncing)
  /\ UNCHANGED <<gh, issue, apps, oob, autoRevert, req, adds, strayWrites, moves>>

SyncSteps(r) == ReadEligible(r) \/ UpdateStatuses(r) \/ RemoveIneligible(r) \/ UpsertIssue(r)
SyncRuns == ListIssues \/ SyncSteps(Leased)

ApplicationsNext ==
  \/ \E u \in User : GitHubAssigns(u) \/ GitHubUnassigns(u) \/ Reject(u)
  \/ \E h \in Handler, u \in User : Apply(h, u) \/ Withdraw(h, u) \/ Assign(h, u)
  \/ \E h \in Handler :
       \/ recordApplication(h) \/ recordWithdrawal(h) \/ AddIssueAssignees(h) \/ AssignMirrors(h)
       \/ recordAssignment(h) \/ Unassign(h) \/ recordUnassignment(h) \/ RequestDies(h)
  \/ GitHubToggles \/ SetAutoRevert
  \/ ListIssues
  \/ \E r \in Runner : SyncSteps(r) \/ ReconcileFails(r) \/ RemovalFails(r) \/ SyncDies(r) \/ TakenForDead(r)

\* hackathon.Reconciler queues a sync of the project every five minutes.
ApplicationsSpec == ApplicationsInit /\ [][ApplicationsNext]_applicationVars /\ WF_applicationVars(SyncRuns)

-----------------------------------------------------------------------------
Request == [pc : {"idle", "unassign"}, user : {NoUser}]
             \cup [pc : {"apply", "withdraw", "assign", "mirror", "record"}, user : User]

SyncState == [pc : {"idle", "read", "update", "revert", "write"}, open : BOOLEAN,
              assignees : SUBSET User, ineligible : SUBSET User, removed : SUBSET User]

ApplicationTypes ==
  /\ gh \in [open : BOOLEAN, assignees : SUBSET User, comments : SUBSET User]
  /\ issue \in [open : BOOLEAN, assignees : SUBSET User]
  /\ apps \in [User -> ApplicationStatus]
  /\ oob \in [User -> [occurrences : Nat, reverted : BOOLEAN]]
  /\ autoRevert \in BOOLEAN
  /\ req \in [Handler -> Request]
  /\ sync \in [Runner -> SyncState]
  /\ adds \in [User -> Nat] /\ strayWrites \in Nat
  /\ moves \in 0..MaxMoves /\ failures \in 0..MaxFailures

\* The count that is held against a maintainer never exceeds how often GitHub
\* made that contributor an assignee: an assignment that merely stays, because
\* the setting is off or a removal failed, is not counted again by every sync. The
\* one exception is a sync that writes after it lost its lease, once each.
OccurrencesAreReal == \A u \in User : oob[u].occurrences <= adds[u] + strayWrites

\* One assignment is one occurrence, however often it is seen (oob.go).
OneOccurrenceEach == \A u \in User : oob[u].occurrences <= adds[u]

\* Once people stop, the open issue has the assignees its assigned applications
\* name, the row agrees, and while reverting is on nobody else is assigned,
\* whatever was done here or on GitHub, and whichever calls failed between.
StatusesSettle ==
  <>[](gh.open => /\ issue = [open |-> TRUE, assignees |-> gh.assignees]
                  /\ With({"assigned"}) = gh.assignees \cap With(Eligible)
                  /\ autoRevert => gh.assignees \subseteq With({"assigned"}))
=============================================================================
