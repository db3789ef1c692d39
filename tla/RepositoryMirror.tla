--------------------------- MODULE RepositoryMirror ---------------------------
(* What we hold of a repository. The mirror of one pull request, written by     *)
(* webhook deliveries - snapshots that arrive in any order, or never - and by   *)
(* sync jobs that read GitHub; and the project itself: who registered it, who   *)
(* has been shown to maintain it, and the installations that come and go        *)
(* (ingest/github_webhook.go, syncjobs/worker.go, handlers/projects.go,         *)
(* handlers/github_app.go, github_app_cleanup.go).                              *)
EXTENDS Naturals, FiniteSets

CONSTANTS
  Ingestor,        \* processes that take deliveries
  MaxChanges,      \* bound on what happens to the pull request, and on workers taken for dead
  Account,         \* accounts that register or install
  Installation,    \* installations of the App that cover the repository
  Installer,       \* installation syncs under way at the same moment
  MaxGrants,       \* bound on what happens on GitHub
  Nobody

ASSUME MirrorAssumption == Nobody \notin Account \cup Installation /\ {MaxChanges, MaxGrants} \subseteq Nat

VARIABLES
  gitHubPR,        \* the pull request on GitHub
  changes,
  mirror,          \* its row in github_pull_requests
  deliveries,      \* webhook deliveries on their way
  ingest,          \* the delivery each process works on
  syncPending,     \* a sync_prs job of the project is pending
  syncRun,         \* the job that runs, and the listing it has read
  strayRun,        \* a job whose worker was taken for dead, and runs on
  mergeNotices,    \* the times its author was told it was merged
  missed,          \* history: a delivery, an enqueue or a job was lost for good
  lastWrite,       \* history: who wrote the row last, or failed to
  project,         \* the row in projects
  maintains,       \* accounts GitHub lets push to the repository
  covered,         \* installations that exist and cover the repository
  installEvents,   \* installation events on their way
  grants,
  verifying,       \* verifyAndWebhook goroutines
  installing,      \* syncInstallationRepositories goroutines
  proved           \* history: accounts GitHub has shown to maintain it

mirrorVars == <<gitHubPR, changes, mirror, deliveries, ingest, syncPending, syncRun, strayRun, mergeNotices,
                missed, lastWrite>>
projectVars == <<project, maintains, covered, installEvents, grants, verifying, installing, proved>>
repositoryVars == <<mirrorVars, projectVars>>

Opened == [state |-> "open", merged |-> FALSE]
Absent == [state |-> "absent", merged |-> FALSE]
NoDelivery == [pc |-> "idle", event |-> "none", pr |-> Absent, wasMerged |-> FALSE]
NoSync == [pc |-> "idle", pr |-> Absent]
NoProject == [owner |-> Nobody, status |-> "none", installation |-> Nobody, deleted |-> FALSE]
NoInstall == [pc |-> "idle", user |-> Nobody, installation |-> Nobody]

RepositoryInit ==
  /\ gitHubPR = Opened /\ changes = 0 /\ mirror = Absent /\ deliveries = {} /\ ingest = [k \in Ingestor |-> NoDelivery]
  /\ syncPending = TRUE /\ syncRun = NoSync /\ strayRun = NoSync /\ mergeNotices = 0 /\ missed = FALSE /\ lastWrite = "none"
  /\ project = NoProject /\ maintains \in SUBSET Account /\ covered = Installation /\ installEvents = {} /\ grants = 0
  /\ verifying = {} /\ installing = [k \in Installer |-> NoInstall] /\ proved = {}

-----------------------------------------------------------------------------
(* The mirror.                                                                 *)

ProjectStands == UNCHANGED projectVars
SyncStands == UNCHANGED <<syncPending, syncRun, strayRun>>
GitHubStands == UNCHANGED <<gitHubPR, changes>>

\* Closed, reopened or merged for good; the delivery carries what it was then.
ChangePR(next) ==
  /\ changes < MaxChanges /\ changes' = changes + 1 /\ ~gitHubPR.merged
  /\ next \in {Opened, [Opened EXCEPT !.state = "closed"], [state |-> "closed", merged |-> TRUE]} \ {gitHubPR}
  /\ gitHubPR' = next /\ deliveries' = deliveries \cup {<<"pull_request", next>>}
  /\ UNCHANGED <<mirror, ingest, mergeNotices, missed, lastWrite>> /\ SyncStands /\ ProjectStands

\* Somebody reviews it, or pushes; a push carries no pull request.
OtherEvent(event) ==
  /\ changes < MaxChanges /\ changes' = changes + 1 /\ event \in {"pull_request_review", "push"}
  /\ deliveries' = deliveries \cup {<<event, gitHubPR>>}
  /\ UNCHANGED <<gitHubPR, mirror, ingest, mergeNotices, missed, lastWrite>> /\ SyncStands /\ ProjectStands

\* Answered 200 whatever becomes of it, so GitHub never sends it again.
DeliveryIsLost(d) ==
  /\ d \in deliveries /\ deliveries' = deliveries \ {d} /\ missed' = TRUE
  /\ UNCHANGED <<mirror, ingest, mergeNotices, lastWrite>> /\ GitHubStands /\ SyncStands /\ ProjectStands

Ingest(k, d) ==
  /\ ingest[k].pc = "idle" /\ d \in deliveries /\ deliveries' = deliveries \ {d}
  /\ ingest' = [ingest EXCEPT ![k] = IF d[1] = "push" THEN [NoDelivery EXCEPT !.pc = "enqueue", !.event = "push"]
                                     ELSE [pc |-> "upsert", event |-> d[1], pr |-> d[2], wasMerged |-> mirror.merged]]
  /\ UNCHANGED <<mirror, mergeNotices, missed, lastWrite>> /\ GitHubStands /\ SyncStands /\ ProjectStands

\* The snapshot replaces the row, merged included, and a row seen to become merged
\* tells its author; a review asks for no sync.
UpsertPR(k) ==
  /\ ingest[k].pc = "upsert" /\ mirror' = ingest[k].pr
  /\ mergeNotices' = mergeNotices + (IF ingest[k].pr.merged /\ ~ingest[k].wasMerged THEN 1 ELSE 0)
  /\ lastWrite' = IF ingest[k].event = "pull_request_review" THEN "review" ELSE "delivery"
  /\ ingest' = [ingest EXCEPT ![k] = IF ingest[k].event = "pull_request"
                                     THEN [NoDelivery EXCEPT !.pc = "enqueue", !.event = "pull_request"] ELSE NoDelivery]
  /\ UNCHANGED <<deliveries, missed>> /\ GitHubStands /\ SyncStands /\ ProjectStands

EnqueueUnlessSyncing(k) == \* mutant
  /\ ingest[k].pc = "enqueue" /\ ingest' = [ingest EXCEPT ![k] = NoDelivery]
  /\ syncPending' = (syncPending \/ syncRun.pc = "idle")
  /\ UNCHANGED <<mirror, deliveries, syncRun, strayRun, mergeNotices, missed, lastWrite>> /\ GitHubStands /\ ProjectStands

\* Coalesced into a job that is pending, never into one that runs.
EnqueueSyncs(k) ==
  /\ ingest[k].pc = "enqueue" /\ ingest' = [ingest EXCEPT ![k] = NoDelivery] /\ syncPending' = TRUE
  /\ UNCHANGED <<mirror, deliveries, syncRun, strayRun, mergeNotices, missed, lastWrite>> /\ GitHubStands /\ ProjectStands

\* The process dies with a delivery half done, or the insert fails.
IngestDies(k) ==
  /\ ingest[k].pc # "idle" /\ ingest' = [ingest EXCEPT ![k] = NoDelivery] /\ missed' = TRUE
  /\ UNCHANGED <<mirror, deliveries, mergeNotices, lastWrite>> /\ GitHubStands /\ SyncStands /\ ProjectStands

ClaimSync ==
  /\ syncPending /\ syncRun = NoSync /\ syncPending' = FALSE /\ syncRun' = [pc |-> "list", pr |-> Absent]
  /\ UNCHANGED <<mirror, strayRun, deliveries, ingest, mergeNotices, missed, lastWrite>> /\ GitHubStands /\ ProjectStands

ListPRs ==
  /\ syncRun.pc = "list" /\ syncRun' = [pc |-> "write", pr |-> gitHubPR]
  /\ UNCHANGED <<mirror, strayRun, deliveries, ingest, syncPending, mergeNotices, missed, lastWrite>>
  /\ GitHubStands /\ ProjectStands

\* What a merge has set stays set.
Listed(pr) == mirror' = [pr EXCEPT !.merged = mirror.merged \/ pr.merged]

\* An upsert that fails is only logged: the job has succeeded all the same.
syncPRs(wrote) ==
  /\ syncRun.pc = "write" /\ syncRun' = NoSync
  /\ IF wrote THEN Listed(syncRun.pr) /\ lastWrite' = "sync" ELSE mirror' = mirror /\ lastWrite' = "failed"
  /\ UNCHANGED <<strayRun, deliveries, ingest, syncPending, mergeNotices, missed>> /\ GitHubStands /\ ProjectStands

\* A run that fails is put back, until its attempts are used up.
SyncFails(again) ==
  /\ syncRun # NoSync /\ syncRun' = NoSync
  /\ syncPending' = (syncPending \/ again) /\ missed' = (missed \/ ~again)
  /\ UNCHANGED <<mirror, strayRun, deliveries, ingest, mergeNotices, lastWrite>> /\ GitHubStands /\ ProjectStands

\* A worker whose heartbeats do not get through loses its job to the reaper, which puts
\* it back or, its attempts used up, fails it; the worker runs on until it hears.
WorkerTakenForDead(again) ==
  /\ syncRun # NoSync /\ strayRun = NoSync /\ strayRun' = syncRun /\ syncRun' = NoSync
  /\ syncPending' = (syncPending \/ again) /\ missed' = (missed \/ ~again)
  /\ changes < MaxChanges /\ changes' = changes + 1
  /\ UNCHANGED <<gitHubPR, mirror, deliveries, ingest, mergeNotices, lastWrite>> /\ ProjectStands

StrayRuns ==
  /\ \/ strayRun.pc = "list" /\ strayRun' = [pc |-> "write", pr |-> gitHubPR] /\ UNCHANGED <<mirror, lastWrite>>
     \/ strayRun.pc = "write" /\ strayRun' = NoSync /\ Listed(strayRun.pr) /\ lastWrite' = "stray"
     \/ strayRun # NoSync /\ strayRun' = NoSync /\ UNCHANGED <<mirror, lastWrite>>
  /\ UNCHANGED <<syncRun, deliveries, ingest, syncPending, mergeNotices, missed>> /\ GitHubStands /\ ProjectStands

MirrorNext ==
  \/ \E state \in {"open", "closed"}, merged \in BOOLEAN : ChangePR([state |-> state, merged |-> merged])
  \/ \E event \in {"pull_request_review", "push"} : OtherEvent(event)
  \/ \E d \in deliveries : DeliveryIsLost(d) \/ \E k \in Ingestor : Ingest(k, d)
  \/ \E k \in Ingestor : UpsertPR(k) \/ EnqueueSyncs(k) \/ IngestDies(k)
  \/ ClaimSync \/ ListPRs \/ StrayRuns \/ \E wrote \in BOOLEAN : syncPRs(wrote)
  \/ \E again \in BOOLEAN : SyncFails(again) \/ WorkerTakenForDead(again)

-----------------------------------------------------------------------------
(* The project.                                                                *)

MirrorStands == UNCHANGED mirrorVars
GrantsStand == UNCHANGED <<maintains, covered, installEvents, grants>>

\* The first to name the repository owns the row, unproved; the second is refused.
CreateProject(u) ==
  /\ project = NoProject /\ project' = [NoProject EXCEPT !.owner = u, !.status = "pending_verification"]
  /\ UNCHANGED <<verifying, installing, proved>> /\ GrantsStand /\ MirrorStands

\* By its owner or an admin; the goroutine keeps the owner that was read.
VerifyProject ==
  /\ project # NoProject /\ \A j \in verifying : j.owner # project.owner
  /\ project' = [project EXCEPT !.status = "pending_verification"]
  /\ verifying' = verifying \cup {[pc |-> "check", owner |-> project.owner]}
  /\ UNCHANGED <<installing, proved>> /\ GrantsStand /\ MirrorStands

\* The owner's own token must be allowed to push.
CheckOwner(j) ==
  /\ j \in verifying /\ j.pc = "check"
  /\ verifying' = (verifying \ {j}) \cup {[j EXCEPT !.pc = IF j.owner \in maintains THEN "verified" ELSE "refused"]}
  /\ proved' = IF j.owner \in maintains THEN proved \cup {j.owner} ELSE proved
  /\ UNCHANGED <<project, installing>> /\ GrantsStand /\ MirrorStands

verifyAndWebhook(j) ==
  /\ j \in verifying /\ j.pc = "verified" /\ verifying' = verifying \ {j}
  /\ project' = [project EXCEPT !.status = "verified"]
  /\ UNCHANGED <<installing, proved>> /\ GrantsStand /\ MirrorStands

\* Refused, or a call to GitHub failed.
recordProjectError(j) ==
  /\ j \in verifying /\ verifying' = verifying \ {j}
  /\ project' = [project EXCEPT !.status = "pending_verification"]
  /\ UNCHANGED <<installing, proved>> /\ GrantsStand /\ MirrorStands

\* On GitHub: the repository taken out of an installation and put back, the App
\* uninstalled, and people who come to maintain the repository and cease to.
GitHubGrants(i, u) ==
  /\ grants < MaxGrants /\ grants' = grants + 1
  /\ \/ i \notin covered /\ covered' = covered \cup {i} /\ UNCHANGED maintains
        /\ installEvents' = installEvents \cup {<<"added", i>>}
     \/ i \in covered /\ covered' = covered \ {i} /\ UNCHANGED maintains
        /\ \E event \in {"removed", "deleted"} : installEvents' = installEvents \cup {<<event, i>>}
     \/ maintains' = (IF u \in maintains THEN maintains \ {u} ELSE maintains \cup {u}) /\ UNCHANGED <<covered, installEvents>>
  /\ UNCHANGED <<project, verifying, installing, proved>> /\ MirrorStands

Deleted(i) ==
  IF project.installation = i /\ ~project.deleted THEN [project EXCEPT !.deleted = TRUE, !.status = "rejected"] ELSE project

\* A repository taken out of an installation is deleted even when its row knows none;
\* one that comes back is verified again if it is the same installation's.
handleInstallationEvent(e) ==
  /\ e \in installEvents /\ installEvents' = installEvents \ {e}
  /\ LET i == e[2] IN
     project' = CASE e[1] = "deleted" -> Deleted(i)
                  [] e[1] = "removed" ->
                       IF project # NoProject /\ project.installation \in {i, Nobody} /\ ~project.deleted
                       THEN [project EXCEPT !.deleted = TRUE, !.status = "rejected"] ELSE project
                  [] e[1] = "added" ->
                       IF project.installation = i /\ project.deleted
                       THEN [project EXCEPT !.deleted = FALSE, !.status = "verified"] ELSE project
  /\ UNCHANGED <<maintains, covered, grants, verifying, installing, proved>> /\ MirrorStands

\* Every five minutes: an installation GitHub does not know any more.
checkSingleInstallation(i) ==
  /\ i \notin covered /\ project.installation = i /\ ~project.deleted /\ project' = Deleted(i)
  /\ UNCHANGED <<verifying, installing, proved>> /\ GrantsStand /\ MirrorStands

\* Whoever comes back from GitHub names the installation.
HandleInstallationCallback(k, u, i) ==
  /\ installing[k] = NoInstall /\ i \in covered
  /\ installing' = [installing EXCEPT ![k] = [pc |-> "permission", user |-> u, installation |-> i]]
  /\ UNCHANGED <<project, verifying, proved>> /\ GrantsStand /\ MirrorStands

InstallGoes(k, pc) == installing' = [installing EXCEPT ![k].pc = pc]

\* A private repository is only taken out of sight; otherwise GitHub must say the
\* installer can maintain it, and one it does not answer for is left alone.
RepoPermission(k, private, answered) ==
  /\ installing[k].pc = "permission"
  /\ IF private \/ ~answered \/ installing[k].user \notin maintains
     THEN installing' = [installing EXCEPT ![k] = NoInstall] /\ UNCHANGED proved
     ELSE InstallGoes(k, "lookup") /\ proved' = proved \cup {installing[k].user}
  /\ project' = IF private /\ project # NoProject THEN [project EXCEPT !.deleted = TRUE] ELSE project
  /\ UNCHANGED verifying /\ GrantsStand /\ MirrorStands

LookUpProject(k) ==
  /\ installing[k].pc = "lookup" /\ InstallGoes(k, IF project = NoProject THEN "insert" ELSE "verify")
  /\ UNCHANGED <<project, verifying, proved>> /\ GrantsStand /\ MirrorStands

\* A verified project keeps its owner, any other is the installer's.
OwnerAfter(k) == IF project.status = "verified" THEN project.owner ELSE installing[k].user

VerifyWhoeverOwns(k) == \* mutant
  /\ installing[k].pc = "verify" /\ installing' = [installing EXCEPT ![k] = NoInstall]
  /\ project' = [project EXCEPT !.status = "verified", !.installation = installing[k].installation, !.deleted = FALSE]
  /\ UNCHANGED <<verifying, proved>> /\ GrantsStand /\ MirrorStands

VerifyExisting(k) ==
  /\ installing[k].pc = "verify" /\ installing' = [installing EXCEPT ![k] = NoInstall]
  /\ project' = [owner |-> OwnerAfter(k), status |-> "verified", installation |-> installing[k].installation,
                 deleted |-> FALSE]
  /\ UNCHANGED <<verifying, proved>> /\ GrantsStand /\ MirrorStands

\* The row may have appeared since it was looked up.
InsertProject(k) ==
  /\ installing[k].pc = "insert" /\ InstallGoes(k, "finish")
  /\ project' = [owner |-> IF project = NoProject THEN installing[k].user ELSE OwnerAfter(k),
                 status |-> IF project = NoProject THEN "pending_verification" ELSE project.status,
                 installation |-> installing[k].installation, deleted |-> FALSE]
  /\ UNCHANGED <<verifying, proved>> /\ GrantsStand /\ MirrorStands

FinishInsert(k) ==
  /\ installing[k].pc = "finish" /\ installing' = [installing EXCEPT ![k] = NoInstall]
  /\ project' = [project EXCEPT !.status = "verified", !.installation = installing[k].installation, !.deleted = FALSE]
  /\ UNCHANGED <<verifying, proved>> /\ GrantsStand /\ MirrorStands

\* A goroutine that dies stops where it is.
GoroutineDies ==
  /\ \/ \E j \in verifying : verifying' = verifying \ {j} /\ UNCHANGED installing
     \/ \E k \in Installer : /\ installing[k] # NoInstall /\ installing' = [installing EXCEPT ![k] = NoInstall]
                             /\ UNCHANGED verifying
  /\ UNCHANGED <<project, proved>> /\ GrantsStand /\ MirrorStands

ProjectNext ==
  \/ VerifyProject \/ GoroutineDies
  \/ \E u \in Account : CreateProject(u)
  \/ \E j \in verifying : CheckOwner(j) \/ verifyAndWebhook(j) \/ recordProjectError(j)
  \/ \E e \in installEvents : handleInstallationEvent(e)
  \/ \E i \in Installation : \/ checkSingleInstallation(i)
                             \/ \E u \in Account : \/ GitHubGrants(i, u)
                                                   \/ \E k \in Installer : HandleInstallationCallback(k, u, i)
  \/ \E k \in Installer : \/ LookUpProject(k) \/ VerifyExisting(k) \/ InsertProject(k) \/ FinishInsert(k)
                          \/ \E private, answered \in BOOLEAN : RepoPermission(k, private, answered)

RepositorySpec == RepositoryInit /\ [][MirrorNext \/ ProjectNext]_repositoryVars

-----------------------------------------------------------------------------
\* Once nothing is on its way or pending, the mirror shows the pull request as GitHub
\* has it, whatever order the deliveries came in and whatever a sync had read when
\* they did - unless something was lost, or the last to write was a review or a sync
\* taken for dead, or the last sync failed to write, which nobody is told.
MirrorSettles ==
  deliveries = {} /\ (\A k \in Ingestor : ingest[k] = NoDelivery) /\ ~syncPending /\ syncRun = NoSync
  /\ ~missed /\ lastWrite \notin {"review", "stray", "failed"} => mirror = gitHubPR

\* A project becomes verified only with an owner GitHub has shown to maintain the
\* repository, and a verified project keeps its owner.
VerifiedOwnerProved ==
  [][/\ project'.status = "verified" /\ project # project' => project'.owner \in proved'
     /\ project.status = "verified" => project'.owner = project.owner]_repositoryVars
=============================================================================
