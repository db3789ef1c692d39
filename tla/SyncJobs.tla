------------------------------- MODULE SyncJobs -------------------------------
(* The sync job queue of internal/syncjobs and internal/syncqueue: jobs of a   *)
(* (project, type), worker processes that hold them under a lease, the reaper  *)
(* each of them runs, and the statements of two of them that overlap.          *)
EXTENDS Naturals, FiniteSets

CONSTANTS Job, Key, KeyOf, Worker, MaxAttempts, MaxUpsets, None

ASSUME KeyOfAssumption == KeyOf \in [Job -> Key]
ASSUME AttemptsAssumption == MaxAttempts \in Nat \ {0}
ASSUME UpsetsAssumption == MaxUpsets \in Nat
ASSUME NoneAssumption == None \notin Job \cup Worker

VARIABLES
  status, attempts, owner,  \* columns status, attempts and locked_by of a row
  due,                      \* its run_at has passed
  stale,                    \* its lease was last renewed more than leaseTimeout ago
  pc, mine, tries,          \* a worker's step, its job, the attempts its claim returned
  cand,                     \* the rows the claim found in its snapshot
  expired,                  \* what the reaper found: <<job, attempts>>
  hold,                     \* the rows a requeue has locked, and what it will write
  lost, stopping,           \* the worker's contexts: lease lost, shutdown
  upsets                    \* crashes, shutdowns, lost replies and cleanups so far

rows == <<status, attempts, owner, due, stale>>
workers == <<pc, mine, tries, cand, expired, hold, lost, stopping>>
vars == <<rows, workers, upsets>>

Status == {"unborn", "pending", "running", "completed", "failed", "cancelled"}
Ended == {"completed", "failed", "cancelled"}
Step == {"sleeping", "awake", "executing", "requeueing"}
Result == {"ok", "error", "limited"}
NoHold == [job |-> None, sibling |-> None, charge |-> 0, now |-> FALSE]
Hold == [job : Job, sibling : Job \cup {None}, charge : {0, 1}, now : BOOLEAN]

Init ==
  /\ status = [j \in Job |-> "unborn"]
  /\ attempts = [j \in Job |-> 0]
  /\ owner = [j \in Job |-> None]
  /\ due = [j \in Job |-> FALSE]
  /\ stale = [j \in Job |-> FALSE]
  /\ pc = [w \in Worker |-> "sleeping"]
  /\ mine = [w \in Worker |-> None]
  /\ tries = [w \in Worker |-> 0]
  /\ cand = [w \in Worker |-> {}]
  /\ expired = [w \in Worker |-> {}]
  /\ hold = [w \in Worker |-> NoHold]
  /\ lost = [w \in Worker |-> FALSE]
  /\ stopping = [w \in Worker |-> FALSE]
  /\ upsets = 0

OfKey(k, s) == {j \in Job : KeyOf[j] = k /\ status[j] = s}

\* Nobody's uncommitted requeue has the row locked.
Free(j) == \A w \in Worker : j \notin {hold[w].job, hold[w].sibling}

Sleep(w) == /\ pc' = [pc EXCEPT ![w] = "sleeping"]
            /\ mine' = [mine EXCEPT ![w] = None]
            /\ cand' = [cand EXCEPT ![w] = {}]
            /\ expired' = [expired EXCEPT ![w] = {}]
            /\ hold' = [hold EXCEPT ![w] = NoHold]
            /\ lost' = [lost EXCEPT ![w] = FALSE]
            /\ stopping' = [stopping EXCEPT ![w] = FALSE]
            /\ tries' = [tries EXCEPT ![w] = 0]

-----------------------------------------------------------------------------
(* Those who ask. *)

\* A webhook, a handler or the reconciler asks for a sync, after a delay or not.
\* A pending job of the key covers it.
Enqueue(k) ==
  /\ OfKey(k, "pending") = {}
  /\ \E j \in OfKey(k, "unborn"), soon \in BOOLEAN :
       /\ status' = [status EXCEPT ![j] = "pending"]
       /\ due' = [due EXCEPT ![j] = soon]
  /\ UNCHANGED <<attempts, owner, stale, workers, upsets>>

FallDue(j) == /\ status[j] = "pending" /\ ~due[j]
              /\ due' = [due EXCEPT ![j] = TRUE]
              /\ UNCHANGED <<status, attempts, owner, stale, workers, upsets>>

-----------------------------------------------------------------------------
(* The worker's loop: sleep, reap now and then, claim, run, write the outcome. *)

\* The timer or a wake-up ends the wait; a minute after the last time the worker
\* lists the jobs whose lease nobody renewed, and takes them back before it claims.
ExpiredRetryable == {<<j, attempts[j]>> : j \in
  {i \in Job : status[i] = "running" /\ stale[i] /\ attempts[i] + 1 < MaxAttempts}} \* mutant

Expired == {<<j, attempts[j]>> : j \in {i \in Job : status[i] = "running" /\ stale[i]}}

Wake(w) ==
  /\ pc[w] = "sleeping"
  /\ pc' = [pc EXCEPT ![w] = "awake"]
  /\ expired' \in {expired, [expired EXCEPT ![w] = Expired]}
  /\ UNCHANGED <<rows, mine, tries, cand, hold, lost, stopping, upsets>>

\* requeue, up to its last statement: the job is locked, and a pending sibling
\* that its snapshot shows is locked and postponed with it.
Requeue(w, j, charge, now) ==
  \E s \in IF OfKey(KeyOf[j], "pending") = {} THEN {None} ELSE OfKey(KeyOf[j], "pending") :
    /\ s = None \/ Free(s)
    /\ hold' = [hold EXCEPT ![w] = [job |-> j, sibling |-> s, charge |-> charge, now |-> now]]
    /\ pc' = [pc EXCEPT ![w] = "requeueing"]

GoesOn(w) == IF mine[w] = None THEN "awake" ELSE "sleeping"

\* The rest of requeue: pending again, or cancelled for the sibling.  The sibling
\* its snapshot missed makes the update break the one-pending index.
RequeueWrite(w) ==
  LET h == hold[w] IN
  /\ pc[w] = "requeueing"
  /\ IF h.sibling = None /\ OfKey(KeyOf[h.job], "pending") # {}
     THEN expired' = [expired EXCEPT ![w] = {}] /\ UNCHANGED rows
     ELSE /\ status' = [status EXCEPT ![h.job] =
                          IF h.sibling = None THEN "pending" ELSE "cancelled"]
          /\ due' = [j \in Job |-> IF j = h.job THEN h.now
                                   ELSE due[j] /\ (j = h.sibling => h.now)]
          /\ attempts' = [attempts EXCEPT ![h.job] = @ + h.charge]
          /\ owner' = [owner EXCEPT ![h.job] = None]
          /\ stale' = [stale EXCEPT ![h.job] = FALSE]
          /\ UNCHANGED <<expired>>
  /\ pc' = [pc EXCEPT ![w] = GoesOn(w)]
  /\ hold' = [hold EXCEPT ![w] = NoHold]
  /\ mine' = [mine EXCEPT ![w] = None]
  /\ lost' = [lost EXCEPT ![w] = FALSE]
  /\ stopping' = [stopping EXCEPT ![w] = FALSE]
  /\ tries' = [tries EXCEPT ![w] = 0]
  /\ UNCHANGED <<cand, upsets>>

\* reapExpired, one job of its list: nothing when somebody was faster, failed
\* when its attempts are used up, and otherwise back into the queue.
Reap(w) ==
  /\ pc[w] = "awake"
  /\ \E e \in expired[w] :
       LET j == e[1] IN
       /\ Free(j)
       /\ expired' = [expired EXCEPT ![w] = @ \ {e}]
       /\ IF ~(status[j] = "running" /\ stale[j])
          THEN UNCHANGED <<rows, pc, hold>>
          ELSE IF e[2] + 1 >= MaxAttempts
          THEN /\ status' = [status EXCEPT ![j] = "failed"]
               /\ attempts' = [attempts EXCEPT ![j] = @ + 1]
               /\ owner' = [owner EXCEPT ![j] = None]
               /\ stale' = [stale EXCEPT ![j] = FALSE]
               /\ UNCHANGED <<due, pc, hold>>
          ELSE Requeue(w, j, 1, TRUE) /\ UNCHANGED rows
  /\ UNCHANGED <<mine, tries, cand, lost, stopping, upsets>>

\* The subquery of claim, in its snapshot: due, pending, and nothing of the key running.
ClaimableBusy == {j \in Job : status[j] = "pending" /\ due[j]} \* mutant

Claimable == {j \in Job : status[j] = "pending" /\ due[j] /\ OfKey(KeyOf[j], "running") = {}}

ClaimLook(w) ==
  /\ pc[w] = "awake" /\ expired[w] = {} /\ cand[w] = {}
  /\ IF Claimable = {} THEN pc' = [pc EXCEPT ![w] = "sleeping"] /\ UNCHANGED cand
                       ELSE cand' = [cand EXCEPT ![w] = Claimable] /\ UNCHANGED pc
  /\ UNCHANGED <<rows, mine, tries, expired, hold, lost, stopping, upsets>>

\* FOR UPDATE SKIP LOCKED on a row of the snapshot: a locked row is skipped, and a
\* row that changed meanwhile is taken only if it is still pending and due.
Lockable(j) == status[j] = "pending" /\ due[j] /\ Free(j)

ClaimLock(w) ==
  /\ pc[w] = "awake"
  /\ \E j \in cand[w] :
       /\ Lockable(j)
       /\ status' = [status EXCEPT ![j] = "running"]
       /\ owner' = [owner EXCEPT ![j] = w]
       /\ stale' = [stale EXCEPT ![j] = FALSE]
       /\ UNCHANGED <<attempts, due>>
       /\ cand' = [cand EXCEPT ![w] = {}]
       /\ \/ /\ pc' = [pc EXCEPT ![w] = "executing"]
             /\ mine' = [mine EXCEPT ![w] = j]
             /\ tries' = [tries EXCEPT ![w] = attempts[j]]
             /\ UNCHANGED upsets
          \/ \* committed, but the connection or the context ended before the reply
             /\ upsets < MaxUpsets
             /\ upsets' = upsets + 1
             /\ pc' = [pc EXCEPT ![w] = "sleeping"]
             /\ UNCHANGED <<mine, tries>>
  /\ UNCHANGED <<expired, hold, lost, stopping>>

ClaimNothing(w) ==
  /\ pc[w] = "awake" /\ cand[w] # {}
  /\ \A j \in cand[w] : ~Lockable(j)
  /\ cand' = [cand EXCEPT ![w] = {}]
  /\ pc' = [pc EXCEPT ![w] = "sleeping"]
  /\ UNCHANGED <<rows, mine, tries, expired, hold, lost, stopping, upsets>>

\* heartbeat: the lease is renewed, or the job's context is cancelled because the
\* job is not this worker's any more.  It ends with the job's context.
Heartbeat(w) ==
  /\ pc[w] = "executing" /\ ~stopping[w] /\ ~lost[w]
  /\ Free(mine[w])
  /\ IF status[mine[w]] = "running" /\ owner[mine[w]] = w
     THEN stale' = [stale EXCEPT ![mine[w]] = FALSE] /\ UNCHANGED lost
     ELSE lost' = [lost EXCEPT ![w] = TRUE] /\ UNCHANGED stale
  /\ UNCHANGED <<status, attempts, owner, due, pc, mine, tries, cand, expired,
                 hold, stopping, upsets>>

\* Five minutes without a renewal: the worker is gone, or cannot reach the database.
LeaseLapses(j) ==
  /\ status[j] = "running" /\ ~stale[j]
  /\ stale' = [stale EXCEPT ![j] = TRUE]
  /\ UNCHANGED <<status, attempts, owner, due, workers, upsets>>

\* finish, where it ends the job: completed, or failed.
EndJob(w, s) == /\ status' = [status EXCEPT ![mine[w]] = s]
                /\ attempts' = [attempts EXCEPT ![mine[w]] = @ + 1]
                /\ UNCHANGED <<owner, due, stale>>

\* It puts the job back instead: the worker shuts down, which costs no attempt, or
\* GitHub limits the rate and the attempts allow another.
PutsBack(w, r) == /\ r # "ok"
                  /\ stopping[w] \/ (r = "limited" /\ tries[w] + 1 < MaxAttempts)

WritesIfUncancelled(w) == lost[w] \* mutant

WritesNothing(w) == lost[w] \/ status[mine[w]] # "running" \/ owner[mine[w]] # w

\* The run returns r (its deadline and a cancelled context are errors) and finish
\* writes the outcome, if the job is still this worker's.
finish(w, r) ==
  /\ pc[w] = "executing"
  /\ lost[w] \/ Free(mine[w])
  /\ UNCHANGED upsets
  /\ \/ /\ WritesNothing(w)
        /\ Sleep(w) /\ UNCHANGED rows
     \/ /\ ~WritesNothing(w) /\ ~PutsBack(w, r)
        /\ EndJob(w, IF r = "ok" THEN "completed" ELSE "failed")
        /\ Sleep(w)
     \/ /\ ~WritesNothing(w) /\ PutsBack(w, r)
        /\ Requeue(w, mine[w], IF stopping[w] THEN 0 ELSE 1, stopping[w])
        /\ UNCHANGED <<rows, mine, tries, cand, expired, lost, stopping>>

-----------------------------------------------------------------------------
(* What upsets the loop. *)

\* SIGTERM while a job runs: its context is cancelled, its outcome still written.
Stop(w) == /\ pc[w] = "executing" /\ ~stopping[w] /\ upsets < MaxUpsets
           /\ stopping' = [stopping EXCEPT ![w] = TRUE]
           /\ upsets' = upsets + 1
           /\ UNCHANGED <<rows, pc, mine, tries, cand, expired, hold, lost>>

\* The process dies, or gives a statement up, and starts over.  An open statement
\* is rolled back.  A worker's id is its host name and process id: it may return.
Crash(w) == /\ pc[w] # "sleeping" /\ upsets < MaxUpsets
            /\ Sleep(w)
            /\ upsets' = upsets + 1
            /\ UNCHANGED rows

\* An operator runs Cleanup, which waits for every open statement.  Under the
\* one-pending index only stuck jobs are left to it; the newest of a key goes back.
Stuck(k) == {j \in OfKey(k, "running") : stale[j]}

Cleanup ==
  /\ upsets < MaxUpsets
  /\ upsets' = upsets + 1
  /\ \A w \in Worker : hold[w] = NoHold
  /\ \E newest \in {f \in [Key -> Job \cup {None}] : \A k \in Key :
                      IF Stuck(k) = {} THEN f[k] = None ELSE f[k] \in Stuck(k)} :
       LET gone == UNION {Stuck(k) : k \in Key}
           back == {j \in gone : j = newest[KeyOf[j]] /\ OfKey(KeyOf[j], "pending") = {}} IN
       /\ status' = [j \in Job |-> IF j \in back THEN "pending"
                                   ELSE IF j \in gone THEN "cancelled" ELSE status[j]]
       /\ due' = [j \in Job |-> due[j] \/ j \in back]
       /\ attempts' = [j \in Job |-> IF j \in gone THEN attempts[j] + 1 ELSE attempts[j]]
       /\ owner' = [j \in Job |-> IF j \in gone THEN None ELSE owner[j]]
       /\ stale' = [j \in Job |-> stale[j] /\ j \notin gone]
  /\ UNCHANGED <<workers>>

Loop(w) == \/ Wake(w) \/ Reap(w) \/ RequeueWrite(w) \/ ClaimLook(w) \/ ClaimLock(w)
           \/ ClaimNothing(w) \/ \E r \in Result : finish(w, r)

Next ==
  \/ \E k \in Key : Enqueue(k)
  \/ \E j \in Job : FallDue(j) \/ LeaseLapses(j)
  \/ \E w \in Worker : Loop(w) \/ Heartbeat(w) \/ Stop(w) \/ Crash(w)
  \/ Cleanup

\* The deadline of a job bounds its run; run_at passes; a lease that nobody renews
\* lapses; the loop goes on, and a minute later the reaper has its turn again.
Abandoned(j) == \A w \in Worker : mine[w] # j

Fairness ==
  /\ \A j \in Job : WF_vars(FallDue(j)) /\ WF_vars(Abandoned(j) /\ LeaseLapses(j))
  /\ \A w \in Worker :
       /\ WF_vars(Loop(w))
       /\ SF_vars(Wake(w) /\ expired'[w] = Expired)

Spec == Init /\ [][Next]_vars /\ Fairness

-----------------------------------------------------------------------------
(* Properties. *)

\* What the schema enforces: uq_sync_jobs_one_pending.
OnePending == \A i, j \in Job :
  KeyOf[i] = KeyOf[j] /\ status[i] = "pending" /\ status[j] = "pending" => i = j

TypeOK ==
  /\ status \in [Job -> Status] /\ attempts \in [Job -> Nat]
  /\ owner \in [Job -> Worker \cup {None}]
  /\ due \in [Job -> BOOLEAN] /\ stale \in [Job -> BOOLEAN]
  /\ pc \in [Worker -> Step] /\ mine \in [Worker -> Job \cup {None}]
  /\ tries \in [Worker -> Nat] /\ cand \in [Worker -> SUBSET Job]
  /\ expired \in [Worker -> SUBSET (Job \X Nat)]
  /\ hold \in [Worker -> Hold \cup {NoHold}]
  /\ lost \in [Worker -> BOOLEAN] /\ stopping \in [Worker -> BOOLEAN]
  /\ upsets \in Nat
  /\ OnePending

\* The queue implements WorkQueue: a request is kept until a run starts after it, a
\* key is run once at a time (queue.go:161, syncqueue.go:51), and a job put back
\* leaves its key wanted, whoever else writes the same rows meanwhile.
Abstract == INSTANCE WorkQueue WITH
  wanted <- {k \in Key : OfKey(k, "pending") # {}},
  busy <- {k \in Key : OfKey(k, "running") # {}}

KeepsRequests == Abstract!Spec

\* Every job that is asked for ends, through crashes, lost leases, rate limits and
\* shutdowns: no job is left running by a worker that is gone (queue.go:23).
EveryJobEnds ==
  \A j \in Job : status[j] \in {"pending", "running"} ~> status[j] \in Ended
=============================================================================
