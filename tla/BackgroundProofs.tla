--------------------------- MODULE BackgroundProofs ---------------------------
(* What runs behind the API, for any constants: the sync jobs, the applications   *)
(* of an issue that a sync reconciles, the verdicts of the judge, the start of an *)
(* instance, and the mirror of a repository and of who maintains it. They share   *)
(* no state; each is proved of its own specification.                             *)
EXTENDS SyncJobs, IssueApplications, VerdictPipeline, SchemaStart, RepositoryMirror, TLAPS

-----------------------------------------------------------------------------
(* For any jobs, keys, workers and bounds: the sync job queue implements         *)
(* WorkQueue. A key is run once at a time although two workers look for work in  *)
(* snapshots that age, because a job that may be claimed out of one is its key's *)
(* only pending job (CandidatesStand): whatever ran since has been that job.     *)

\* A key is run by one job at a time.
OneRunning == \A i, j \in Job :
  KeyOf[i] = KeyOf[j] /\ status[i] = "running" /\ status[j] = "running" => i = j

\* A row in a snapshot, as long as it can be claimed, has no run beside it.
CandidatesStand ==
  \A w \in Worker : \A j \in cand[w] :
    /\ status[j] # "unborn"
    /\ status[j] = "pending" => \A i \in Job : KeyOf[i] = KeyOf[j] => status[i] # "running"

\* A requeue has its rows to itself and they are as it read them.
HoldsStand ==
  \A w \in Worker :
    /\ IF pc[w] = "requeueing" THEN hold[w].job # None ELSE hold[w] = NoHold
    /\ hold[w].job # None => status[hold[w].job] = "running"
    /\ hold[w].sibling # None => /\ status[hold[w].sibling] = "pending"
                                 /\ KeyOf[hold[w].sibling] = KeyOf[hold[w].job]
    /\ \A v \in Worker \ {w} : hold[v].job # None => hold[v].job # hold[w].job

\* A worker that executes has a job.
ExecutesAJob == \A w \in Worker : pc[w] = "executing" => mine[w] # None

QInv == TypeOK /\ OneRunning /\ CandidatesStand /\ HoldsStand /\ ExecutesAJob

-----------------------------------------------------------------------------
(* What a step does to the rows.                                               *)

USE KeyOfAssumption, NoneAssumption

LEMMA HoldTypes ==
  ASSUME NEW h \in Hold \cup {NoHold}
  PROVE  /\ h.job \in Job \cup {None} /\ h.sibling \in Job \cup {None}
         /\ h.charge \in {0, 1} /\ h.now \in BOOLEAN
         /\ h.job = None => h.sibling = None
<1>1. CASE h = NoHold
  BY <1>1 DEF NoHold
<1>2. CASE h \in Hold
  BY <1>2 DEF Hold
<1> QED
  BY <1>1, <1>2

LEMMA RequeueLocks ==
  ASSUME QInv, NEW w \in Worker, NEW j \in Job, NEW charge \in {0, 1}, NEW now \in BOOLEAN,
         Requeue(w, j, charge, now)
  PROVE  /\ hold' \in [Worker -> Hold \cup {NoHold}]
         /\ pc' = [pc EXCEPT ![w] = "requeueing"]
         /\ hold'[w].job = j
         /\ hold'[w].sibling # None => /\ status[hold'[w].sibling] = "pending"
                                       /\ KeyOf[hold'[w].sibling] = KeyOf[j]
         /\ \A v \in Worker \ {w} : hold'[v] = hold[v]
<1> PICK s \in IF OfKey(KeyOf[j], "pending") = {} THEN {None} ELSE OfKey(KeyOf[j], "pending") :
      /\ hold' = [hold EXCEPT ![w] = [job |-> j, sibling |-> s, charge |-> charge, now |-> now]]
      /\ pc' = [pc EXCEPT ![w] = "requeueing"]
  BY DEF Requeue
<1>1. s = None \/ (s \in Job /\ KeyOf[s] = KeyOf[j] /\ status[s] = "pending")
  BY DEF OfKey
<1>2. [job |-> j, sibling |-> s, charge |-> charge, now |-> now] \in Hold
  BY <1>1 DEF Hold
<1> QED
  BY <1>1, <1>2 DEF QInv, TypeOK

\* The lives of a row: it is born pending, claimed, and ends or goes back.
Born(j) == status[j] = "unborn" /\ OfKey(KeyOf[j], "pending") = {} /\ status' = [status EXCEPT ![j] = "pending"]
Claimed(j) == status[j] = "pending" /\ OfKey(KeyOf[j], "running") = {} /\ Free(j)
                /\ status' = [status EXCEPT ![j] = "running"]
EndsAs(j, s) == status[j] = "running" /\ status' = [status EXCEPT ![j] = s]
GoesBack(j) == OfKey(KeyOf[j], "pending") = {} /\ EndsAs(j, "pending")

\* One job's row is written by w alone, whose open requeue, if it has one, is of this job.
Alone(w, j) == \A v \in Worker \ {w} : hold[v].job # j /\ hold[v].sibling # j

LEMMA RowsMove ==
  ASSUME QInv, Next
  PROVE  \/ status' = status
         \/ \E j \in Job : Born(j) \/ Claimed(j)
         \/ \E w \in Worker, j \in Job :
              /\ Alone(w, j) /\ hold'[w] = NoHold
              /\ GoesBack(j) \/ \E s \in Ended : EndsAs(j, s)
         \/ Cleanup
<1> USE DEF QInv, TypeOK, rows, workers
<1>1. ASSUME NEW k \in Key, Enqueue(k) PROVE \E j \in Job : Born(j)
  <2>1. PICK j \in OfKey(k, "unborn") : status' = [status EXCEPT ![j] = "pending"]
    BY <1>1 DEF Enqueue
  <2>2. j \in Job /\ KeyOf[j] = k /\ status[j] = "unborn"
    BY <2>1 DEF OfKey
  <2>3. OfKey(KeyOf[j], "pending") = {}
    BY <1>1, <2>2 DEF Enqueue
  <2> QED
    BY <2>1, <2>2, <2>3 DEF Born
<1>2. ASSUME NEW w \in Worker, RequeueWrite(w)
      PROVE  \/ status' = status
             \/ \E j \in Job : /\ Alone(w, j) /\ hold'[w] = NoHold
                               /\ GoesBack(j) \/ \E s \in Ended : EndsAs(j, s)
  <2> DEFINE j == hold[w].job
  <2>1. j \in Job /\ status[j] = "running"
    BY <1>2, HoldTypes DEF RequeueWrite, HoldsStand
  <2>2. Alone(w, j)
    BY <2>1, HoldTypes DEF Alone, HoldsStand
  <2>3. hold'[w] = NoHold
    BY <1>2 DEF RequeueWrite
  <2>4. CASE hold[w].sibling = None /\ OfKey(KeyOf[j], "pending") # {}
    BY <1>2, <2>4 DEF RequeueWrite
  <2>5. CASE hold[w].sibling = None /\ OfKey(KeyOf[j], "pending") = {}
    <3>1. GoesBack(j)
      BY <1>2, <2>1, <2>5 DEF RequeueWrite, GoesBack, EndsAs
    <3> QED
      BY <2>1, <2>2, <2>3, <3>1
  <2>6. CASE hold[w].sibling # None
    <3>1. EndsAs(j, "cancelled") /\ "cancelled" \in Ended
      BY <1>2, <2>1, <2>6 DEF RequeueWrite, EndsAs, Ended
    <3> QED
      BY <2>1, <2>2, <2>3, <3>1
  <2> QED
    BY <2>4, <2>5, <2>6
<1>3. ASSUME NEW w \in Worker, Reap(w)
      PROVE  \/ status' = status
             \/ \E j \in Job : /\ Alone(w, j) /\ hold'[w] = NoHold
                               /\ EndsAs(j, "failed")
  <2>1. PICK e \in expired[w] :
          /\ Free(e[1])
          /\ \/ status' = status
             \/ /\ status[e[1]] = "running"
                /\ status' = [status EXCEPT ![e[1]] = "failed"]
                /\ hold' = hold
    BY <1>3 DEF Reap
  <2>2. e[1] \in Job
    OBVIOUS
  <2>3. pc[w] = "awake"
    BY <1>3 DEF Reap
  <2>4. hold[w] = NoHold
    BY <2>3 DEF HoldsStand
  <2>5. CASE status' = status
    BY <2>5
  <2>6. CASE /\ status[e[1]] = "running"
             /\ status' = [status EXCEPT ![e[1]] = "failed"]
             /\ hold' = hold
    <3>1. EndsAs(e[1], "failed")
      BY <2>6 DEF EndsAs
    <3>2. Alone(w, e[1])
      BY <2>1 DEF Alone, Free
    <3> QED
      BY <2>2, <2>4, <2>6, <3>1, <3>2
  <2> QED
    BY <2>1, <2>5, <2>6
<1>4. ASSUME NEW w \in Worker, ClaimLock(w) PROVE \E j \in Job : Claimed(j)
  <2>1. PICK j \in cand[w] : Lockable(j) /\ status' = [status EXCEPT ![j] = "running"]
    BY <1>4 DEF ClaimLock
  <2>2. j \in Job
    OBVIOUS
  <2>3. status[j] = "pending" /\ Free(j)
    BY <2>1 DEF Lockable
  <2>4. OfKey(KeyOf[j], "running") = {}
    BY <2>2, <2>3 DEF CandidatesStand, OfKey
  <2> QED
    BY <2>1, <2>2, <2>3, <2>4 DEF Claimed
<1>5. ASSUME NEW w \in Worker, NEW r \in Result, finish(w, r)
      PROVE  \/ status' = status
             \/ \E j \in Job : /\ Alone(w, j) /\ hold'[w] = NoHold
                               /\ \E s \in Ended : EndsAs(j, s)
  <2>1. CASE WritesNothing(w) \/ PutsBack(w, r)
    BY <1>5, <2>1 DEF finish
  <2>2. CASE ~WritesNothing(w) /\ ~PutsBack(w, r)
    <3>1. mine[w] \in Job
      BY <1>5 DEF finish, ExecutesAJob
    <3>2. Free(mine[w]) /\ status[mine[w]] = "running"
      BY <1>5, <2>2 DEF finish, WritesNothing
    <3>3. \E s \in Ended : EndsAs(mine[w], s)
      BY <1>5, <2>2, <3>2 DEF finish, EndJob, EndsAs, Ended
    <3>4. hold'[w] = NoHold
      BY <1>5, <2>2 DEF finish, Sleep
    <3> QED
      BY <3>1, <3>2, <3>3, <3>4 DEF Alone, Free
  <2> QED
    BY <2>1, <2>2
<1>6. ASSUME NEW w \in Worker,
             Wake(w) \/ ClaimLook(w) \/ ClaimNothing(w) \/ Heartbeat(w) \/ Stop(w) \/ Crash(w)
      PROVE  status' = status
  BY <1>6 DEF Wake, ClaimLook, ClaimNothing, Heartbeat, Stop, Crash
<1>7. ASSUME NEW j \in Job, FallDue(j) \/ LeaseLapses(j) PROVE status' = status
  BY <1>7 DEF FallDue, LeaseLapses
<1>8. "failed" \in Ended
  BY DEF Ended
<1>9. CASE \E w \in Worker : Loop(w)
  BY <1>2, <1>3, <1>4, <1>5, <1>6, <1>8, <1>9 DEF Loop
<1> QED
  BY <1>1, <1>6, <1>7, <1>9 DEF Next

LEMMA CleanupMoves ==
  ASSUME QInv, Cleanup
  PROVE  /\ \A w \in Worker : hold[w] = NoHold
         /\ UNCHANGED workers
         /\ \E newest \in [Key -> Job \cup {None}] : \A j \in Job :
              \/ status'[j] = status[j]
              \/ status[j] = "running" /\ status'[j] = "cancelled"
              \/ /\ status[j] = "running" /\ status'[j] = "pending"
                 /\ j = newest[KeyOf[j]] /\ OfKey(KeyOf[j], "pending") = {}
<1> USE DEF QInv, TypeOK
<1> DEFINE gone == UNION {Stuck(k) : k \in Key}
           back(newest) == {j \in gone : j = newest[KeyOf[j]] /\ OfKey(KeyOf[j], "pending") = {}}
<1>1. PICK newest \in [Key -> Job \cup {None}] :
        status' = [j \in Job |-> IF j \in back(newest) THEN "pending"
                                 ELSE IF j \in gone THEN "cancelled" ELSE status[j]]
  BY DEF Cleanup
<1>2. \A j \in gone : status[j] = "running"
  BY DEF Stuck, OfKey
<1> HIDE DEF gone
<1> QED
  BY <1>1, <1>2 DEF Cleanup

LEMMA HoldsMove ==
  ASSUME QInv, Next, NEW w \in Worker
  PROVE  \/ hold'[w] = hold[w] /\ (pc'[w] = "requeueing" <=> pc[w] = "requeueing")
         \/ hold'[w] = NoHold /\ pc'[w] # "requeueing"
         \/ \E j \in Job :
              /\ Free(j) /\ status[j] = "running" /\ status' = status
              /\ pc'[w] = "requeueing" /\ hold'[w].job = j
              /\ hold'[w].sibling # None => /\ status[hold'[w].sibling] = "pending"
                                            /\ KeyOf[hold'[w].sibling] = KeyOf[j]
              /\ \A v \in Worker \ {w} : hold'[v] = hold[v]
<1> USE DEF QInv, TypeOK, rows, workers
<1>1. ASSUME NEW v \in Worker, v # w,
             Loop(v) \/ Heartbeat(v) \/ Stop(v) \/ Crash(v)
      PROVE  hold'[w] = hold[w] /\ pc'[w] = pc[w]
  <2>1. ASSUME NEW j \in Job, NEW c \in {0, 1}, NEW now \in BOOLEAN, Requeue(v, j, c, now)
        PROVE  hold'[w] = hold[w] /\ pc'[w] = pc[w]
    BY <1>1, <2>1 DEF Requeue
  <2>2. CASE Reap(v)
    <3>1. \A e \in expired[v] : e[1] \in Job
      OBVIOUS
    <3> QED
      BY <1>1, <2>1, <2>2, <3>1 DEF Reap
  <2>3. ASSUME NEW r \in Result, finish(v, r) PROVE hold'[w] = hold[w] /\ pc'[w] = pc[w]
    <3>1. mine[v] \in Job
      BY <2>3 DEF finish, ExecutesAJob
    <3>2. CASE Sleep(v)
      BY <1>1, <3>2 DEF Sleep
    <3> QED
      BY <2>1, <2>3, <3>1, <3>2 DEF finish
  <2>4. CASE \/ Wake(v) \/ RequeueWrite(v) \/ ClaimLook(v) \/ ClaimLock(v) \/ ClaimNothing(v)
             \/ Heartbeat(v) \/ Stop(v)
    BY <1>1, <2>4 DEF Wake, RequeueWrite, ClaimLook, ClaimLock, ClaimNothing, Heartbeat, Stop
  <2>5. CASE Crash(v)
    BY <1>1, <2>5 DEF Crash, Sleep
  <2> QED
    BY <1>1, <2>2, <2>3, <2>4, <2>5 DEF Loop
<1>2. ASSUME NEW j \in Job, NEW c \in {0, 1}, NEW now \in BOOLEAN, Requeue(w, j, c, now),
             Free(j), status[j] = "running", status' = status
      PROVE  \E i \in Job :
               /\ Free(i) /\ status[i] = "running" /\ status' = status
               /\ pc'[w] = "requeueing" /\ hold'[w].job = i
               /\ hold'[w].sibling # None => /\ status[hold'[w].sibling] = "pending"
                                             /\ KeyOf[hold'[w].sibling] = KeyOf[i]
               /\ \A v \in Worker \ {w} : hold'[v] = hold[v]
  BY <1>2, RequeueLocks
<1>3. CASE Reap(w)
  <2>1. PICK e \in expired[w] :
          /\ Free(e[1])
          /\ \/ UNCHANGED <<pc, hold>>
             \/ status[e[1]] = "running" /\ Requeue(w, e[1], 1, TRUE) /\ status' = status
    BY <1>3 DEF Reap
  <2>2. e[1] \in Job
    OBVIOUS
  <2> QED
    BY <1>2, <2>1, <2>2
<1>4. ASSUME NEW r \in Result, finish(w, r)
      PROVE  \/ hold'[w] = NoHold /\ pc'[w] = "sleeping"
             \/ \E j \in Job, c \in {0, 1}, now \in BOOLEAN :
                  Free(j) /\ status[j] = "running" /\ status' = status /\ Requeue(w, j, c, now)
  <2>1. mine[w] \in Job
    BY <1>4 DEF finish, ExecutesAJob
  <2>2. CASE Sleep(w)
    BY <2>2 DEF Sleep
  <2>3. CASE /\ ~WritesNothing(w)
             /\ Requeue(w, mine[w], IF stopping[w] THEN 0 ELSE 1, stopping[w])
             /\ status' = status
    <3>1. Free(mine[w]) /\ status[mine[w]] = "running"
      BY <1>4, <2>3 DEF finish, WritesNothing
    <3>2. stopping[w] \in BOOLEAN /\ (IF stopping[w] THEN 0 ELSE 1) \in {0, 1}
      OBVIOUS
    <3> QED
      BY <2>1, <2>3, <3>1, <3>2
  <2> QED
    BY <1>4, <2>2, <2>3 DEF finish
<1>5. CASE Wake(w) \/ ClaimLook(w) \/ ClaimLock(w) \/ ClaimNothing(w) \/ Heartbeat(w) \/ Stop(w)
  BY <1>5 DEF Wake, ClaimLook, ClaimLock, ClaimNothing, Heartbeat, Stop
<1>6. CASE RequeueWrite(w)
  BY <1>6 DEF RequeueWrite, GoesOn
<1>7. CASE Crash(w)
  BY <1>7 DEF Crash, Sleep
<1>8. CASE Cleanup \/ (\E k \in Key : Enqueue(k)) \/ \E j \in Job : FallDue(j) \/ LeaseLapses(j)
  BY <1>8 DEF Cleanup, Enqueue, FallDue, LeaseLapses
<1>9. CASE Loop(w)
  BY <1>2, <1>3, <1>4, <1>5, <1>6, <1>9 DEF Loop
<1> QED
  BY <1>1, <1>5, <1>7, <1>8, <1>9 DEF Next

-----------------------------------------------------------------------------
(* The invariant.                                                              *)

LEMMA InitInv == Init => QInv
<1> SUFFICES ASSUME Init PROVE QInv
  OBVIOUS
<1>1. TypeOK
  BY DEF Init, TypeOK, OnePending, Status, Step
<1>2. \A j \in Job : status[j] = "unborn"
  BY DEF Init
<1>3. \A w \in Worker : pc[w] = "sleeping" /\ cand[w] = {} /\ hold[w] = NoHold
  BY DEF Init
<1>4. OneRunning
  BY <1>2 DEF OneRunning
<1>5. CandidatesStand /\ ExecutesAJob
  BY <1>3 DEF CandidatesStand, ExecutesAJob
<1>6. NoHold.job = None /\ NoHold.sibling = None
  BY DEF NoHold
<1>7. HoldsStand
  BY <1>3, <1>6 DEF HoldsStand
<1> QED
  BY <1>1, <1>4, <1>5, <1>7 DEF QInv

LEMMA SleepTypes ==
  ASSUME QInv, NEW w \in Worker, Sleep(w)
  PROVE  /\ pc' \in [Worker -> Step] /\ mine' \in [Worker -> Job \cup {None}]
         /\ tries' \in [Worker -> Nat] /\ cand' \in [Worker -> SUBSET Job]
         /\ expired' \in [Worker -> SUBSET (Job \X Nat)]
         /\ hold' \in [Worker -> Hold \cup {NoHold}]
         /\ lost' \in [Worker -> BOOLEAN] /\ stopping' \in [Worker -> BOOLEAN]
  BY DEF Sleep, QInv, TypeOK, Step

LEMMA TypesStay == ASSUME QInv, Next, OnePending' PROVE TypeOK'
<1> USE DEF QInv, TypeOK, rows, workers, Status, Step
<1>1. ASSUME NEW k \in Key, Enqueue(k) PROVE TypeOK'
  <2>1. PICK j \in OfKey(k, "unborn"), soon \in BOOLEAN :
          status' = [status EXCEPT ![j] = "pending"] /\ due' = [due EXCEPT ![j] = soon]
    BY <1>1 DEF Enqueue
  <2>2. status' \in [Job -> Status] /\ due' \in [Job -> BOOLEAN]
    BY <2>1
  <2> QED
    BY <1>1, <2>2 DEF Enqueue
<1>2. ASSUME NEW j \in Job, FallDue(j) \/ LeaseLapses(j) PROVE TypeOK'
  BY <1>2 DEF FallDue, LeaseLapses
<1>3. ASSUME NEW w \in Worker, Wake(w) PROVE TypeOK'
  <2>1. Expired \in SUBSET (Job \X Nat)
    BY DEF Expired
  <2> QED
    BY <1>3, <2>1 DEF Wake
<1>4. ASSUME NEW w \in Worker, Reap(w) PROVE TypeOK'
  <2>1. PICK e \in expired[w] :
          /\ expired' = [expired EXCEPT ![w] = @ \ {e}]
          /\ \/ UNCHANGED <<rows, pc, hold>>
             \/ /\ status' = [status EXCEPT ![e[1]] = "failed"]
                /\ attempts' = [attempts EXCEPT ![e[1]] = @ + 1]
                /\ owner' = [owner EXCEPT ![e[1]] = None]
                /\ stale' = [stale EXCEPT ![e[1]] = FALSE]
                /\ UNCHANGED <<due, pc, hold>>
             \/ Requeue(w, e[1], 1, TRUE) /\ UNCHANGED rows
    BY <1>4 DEF Reap
  <2>2. e[1] \in Job
    OBVIOUS
  <2>3. UNCHANGED <<mine, tries, cand, lost, stopping, upsets>>
    BY <1>4 DEF Reap
  <2>4. CASE Requeue(w, e[1], 1, TRUE) /\ UNCHANGED rows
    BY <2>1, <2>2, <2>3, <2>4, RequeueLocks
  <2>5. expired' \in [Worker -> SUBSET (Job \X Nat)]
    BY <2>1
  <2>6. CASE UNCHANGED <<rows, pc, hold>>
    BY <2>3, <2>5, <2>6
  <2>7. CASE /\ status' = [status EXCEPT ![e[1]] = "failed"]
             /\ attempts' = [attempts EXCEPT ![e[1]] = @ + 1]
             /\ owner' = [owner EXCEPT ![e[1]] = None]
             /\ stale' = [stale EXCEPT ![e[1]] = FALSE]
             /\ UNCHANGED <<due, pc, hold>>
    <3>1. status' \in [Job -> Status] /\ stale' \in [Job -> BOOLEAN]
      BY <2>2, <2>7
    <3>2. attempts' \in [Job -> Nat]
      BY <2>2, <2>7
    <3>3. owner' \in [Job -> Worker \cup {None}]
      BY <2>2, <2>7
    <3> QED
      BY <2>3, <2>5, <2>7, <3>1, <3>2, <3>3
  <2> QED
    BY <2>1, <2>4, <2>6, <2>7
<1>5. ASSUME NEW w \in Worker, RequeueWrite(w) PROVE TypeOK'
  <2> DEFINE h == hold[w]
  <2>1. h.job \in Job /\ h.charge \in {0, 1} /\ h.now \in BOOLEAN
    BY <1>5, HoldTypes DEF RequeueWrite, HoldsStand
  <2>2. CASE h.sibling = None /\ OfKey(KeyOf[h.job], "pending") # {}
    BY <1>5, <2>2 DEF RequeueWrite, GoesOn
  <2>3. CASE ~(h.sibling = None /\ OfKey(KeyOf[h.job], "pending") # {})
    <3>1. due' \in [Job -> BOOLEAN]
      BY <1>5, <2>1, <2>3 DEF RequeueWrite
    <3>2. attempts' \in [Job -> Nat] /\ status' \in [Job -> Status]
      BY <1>5, <2>1, <2>3 DEF RequeueWrite
    <3> QED
      BY <1>5, <2>1, <2>3, <3>1, <3>2 DEF RequeueWrite, GoesOn
  <2> QED
    BY <2>2, <2>3
<1>6. ASSUME NEW w \in Worker, ClaimLook(w) \/ ClaimNothing(w) PROVE TypeOK'
  BY <1>6 DEF ClaimLook, ClaimNothing, Claimable
<1>7. ASSUME NEW w \in Worker, ClaimLock(w) PROVE TypeOK'
  BY <1>7 DEF ClaimLock
<1>8. ASSUME NEW w \in Worker, Heartbeat(w) \/ Stop(w) PROVE TypeOK'
  <2>1. mine[w] \in Job
    BY <1>8 DEF Heartbeat, Stop, ExecutesAJob
  <2>2. CASE Heartbeat(w)
    <3>1. stale' \in [Job -> BOOLEAN] /\ lost' \in [Worker -> BOOLEAN]
      BY <2>1, <2>2 DEF Heartbeat
    <3> QED
      BY <2>2, <3>1 DEF Heartbeat
  <2>3. CASE Stop(w)
    BY <2>3 DEF Stop
  <2> QED
    BY <1>8, <2>2, <2>3
<1>9. ASSUME NEW w \in Worker, NEW r \in Result, finish(w, r) PROVE TypeOK'
  <2>1. mine[w] \in Job /\ upsets' = upsets
    BY <1>9 DEF finish, ExecutesAJob
  <2>2. CASE Sleep(w) /\ UNCHANGED rows
    BY <2>1, <2>2, SleepTypes
  <2>3. ASSUME NEW s \in Ended, EndJob(w, s), Sleep(w) PROVE TypeOK'
    BY <2>1, <2>3, SleepTypes DEF EndJob, Ended
  <2>4. CASE /\ Requeue(w, mine[w], IF stopping[w] THEN 0 ELSE 1, stopping[w])
             /\ UNCHANGED <<rows, mine, tries, cand, expired, lost, stopping>>
    <3>1. stopping[w] \in BOOLEAN /\ (IF stopping[w] THEN 0 ELSE 1) \in {0, 1}
      OBVIOUS
    <3> QED
      BY <2>1, <2>4, <3>1, RequeueLocks
  <2>5. (IF r = "ok" THEN "completed" ELSE "failed") \in Ended
    BY DEF Ended
  <2> QED
    BY <1>9, <2>2, <2>3, <2>4, <2>5 DEF finish
<1>10. ASSUME NEW w \in Worker, Crash(w) PROVE TypeOK'
  BY <1>10, SleepTypes DEF Crash
<1>11. CASE Cleanup
  <2>1. /\ status' \in [Job -> Status] /\ due' \in [Job -> BOOLEAN]
        /\ attempts' \in [Job -> Nat] /\ owner' \in [Job -> Worker \cup {None}]
        /\ stale' \in [Job -> BOOLEAN]
    <3> DEFINE gone == UNION {Stuck(k) : k \in Key}
               back(newest) == {j \in gone : j = newest[KeyOf[j]] /\ OfKey(KeyOf[j], "pending") = {}}
    <3>1. PICK newest \in [Key -> Job \cup {None}] :
            /\ status' = [j \in Job |-> IF j \in back(newest) THEN "pending"
                                        ELSE IF j \in gone THEN "cancelled" ELSE status[j]]
            /\ due' = [j \in Job |-> due[j] \/ j \in back(newest)]
            /\ attempts' = [j \in Job |-> IF j \in gone THEN attempts[j] + 1 ELSE attempts[j]]
            /\ owner' = [j \in Job |-> IF j \in gone THEN None ELSE owner[j]]
            /\ stale' = [j \in Job |-> stale[j] /\ j \notin gone]
      BY <1>11 DEF Cleanup
    <3> HIDE DEF gone, back
    <3> QED
      BY <3>1
  <2> QED
    BY <1>11, <2>1 DEF Cleanup
<1> QED
  BY <1>1, <1>2, <1>3, <1>4, <1>5, <1>6, <1>7, <1>8, <1>9, <1>10, <1>11 DEF Next, Loop

LEMMA OneRunningStays == ASSUME QInv, Next PROVE OneRunning'
<1> USE DEF QInv, TypeOK, OneRunning
<1>1. ASSUME NEW j \in Job, Claimed(j) PROVE OneRunning'
  BY <1>1 DEF Claimed, OfKey
<1>2. ASSUME NEW j \in Job, NEW s \in Ended \cup {"pending"}, EndsAs(j, s) PROVE OneRunning'
  BY <1>2 DEF EndsAs, Ended
<1>3. ASSUME NEW j \in Job, Born(j) PROVE OneRunning'
  BY <1>3 DEF Born
<1>4. CASE Cleanup
  BY <1>4, CleanupMoves
<1>5. CASE status' = status
  BY <1>5
<1> QED
  BY <1>1, <1>2, <1>3, <1>4, <1>5, RowsMove DEF GoesBack

LEMMA OnePendingStays == ASSUME QInv, Next PROVE OnePending'
<1> USE DEF QInv, TypeOK, OnePending
<1>1. ASSUME NEW j \in Job, Claimed(j) PROVE OnePending'
  BY <1>1 DEF Claimed
<1>2. ASSUME NEW j \in Job, NEW s \in Ended, EndsAs(j, s) PROVE OnePending'
  BY <1>2 DEF EndsAs, Ended
<1>3. ASSUME NEW j \in Job, Born(j) \/ GoesBack(j) PROVE OnePending'
  <2>1. \A i \in Job : KeyOf[i] = KeyOf[j] => status[i] # "pending"
    BY <1>3 DEF Born, GoesBack, OfKey
  <2>2. status' = [status EXCEPT ![j] = "pending"]
    BY <1>3 DEF Born, GoesBack, EndsAs
  <2> QED
    BY <2>1, <2>2
<1>4. CASE Cleanup
  <2>1. PICK newest \in [Key -> Job \cup {None}] : \A j \in Job :
              \/ status'[j] = status[j]
              \/ status[j] = "running" /\ status'[j] = "cancelled"
              \/ /\ status[j] = "running" /\ status'[j] = "pending"
                 /\ j = newest[KeyOf[j]] /\ OfKey(KeyOf[j], "pending") = {}
    BY <1>4, CleanupMoves
  <2> QED
    BY <2>1 DEF OfKey
<1>5. CASE status' = status
  BY <1>5
<1> QED
  BY <1>1, <1>2, <1>3, <1>4, <1>5, RowsMove

LEMMA CandidatesMove ==
  ASSUME QInv, Next, NEW w \in Worker
  PROVE  cand'[w] \in {cand[w], {}} \/ (cand'[w] = Claimable /\ status' = status)
<1> USE DEF QInv, TypeOK, rows, workers
<1>1. ASSUME NEW v \in Worker, Sleep(v) PROVE cand'[w] \in {cand[w], {}}
  BY <1>1 DEF Sleep
<1>2. ASSUME NEW v \in Worker, NEW r \in Result, finish(v, r) PROVE cand'[w] \in {cand[w], {}}
  BY <1>1, <1>2 DEF finish
<1>3. ASSUME NEW v \in Worker, Wake(v) \/ Reap(v) \/ RequeueWrite(v) \/ Heartbeat(v) \/ Stop(v)
      PROVE  cand' = cand
  BY <1>3 DEF Wake, Reap, RequeueWrite, Heartbeat, Stop
<1>4. ASSUME NEW v \in Worker, ClaimLook(v)
      PROVE  cand'[w] \in {cand[w], {}} \/ (cand'[w] = Claimable /\ status' = status)
  BY <1>4 DEF ClaimLook
<1>5. ASSUME NEW v \in Worker, ClaimLock(v) \/ ClaimNothing(v) PROVE cand'[w] \in {cand[w], {}}
  BY <1>5 DEF ClaimLock, ClaimNothing
<1>6. ASSUME NEW v \in Worker, Crash(v) PROVE cand'[w] \in {cand[w], {}}
  BY <1>1, <1>6 DEF Crash
<1>7. CASE Cleanup \/ (\E k \in Key : Enqueue(k)) \/ \E j \in Job : FallDue(j) \/ LeaseLapses(j)
  BY <1>7 DEF Cleanup, Enqueue, FallDue, LeaseLapses
<1> QED
  BY <1>2, <1>3, <1>4, <1>5, <1>6, <1>7 DEF Next, Loop

LEMMA CandidatesStandStays == ASSUME QInv, Next PROVE CandidatesStand'
<1> USE DEF QInv, TypeOK
<1> SUFFICES ASSUME NEW w \in Worker, NEW j \in cand'[w]
             PROVE  /\ status'[j] # "unborn"
                    /\ status'[j] = "pending" =>
                         \A i \in Job : KeyOf[i] = KeyOf[j] => status'[i] # "running"
  BY DEF CandidatesStand
<1>1. CASE cand'[w] = Claimable /\ status' = status
  BY <1>1 DEF Claimable, OfKey
<1>2. CASE j \in cand[w]
  <2>0. /\ j \in Job
        /\ status[j] # "unborn"
        /\ status[j] = "pending" => \A i \in Job : KeyOf[i] = KeyOf[j] => status[i] # "running"
    BY <1>2 DEF CandidatesStand
  <2>1. ASSUME NEW c \in Job, Claimed(c)
        PROVE  /\ status'[j] # "unborn"
               /\ status'[j] = "pending" =>
                    \A i \in Job : KeyOf[i] = KeyOf[j] => status'[i] # "running"
    \* No other job of the key was pending.
    BY <2>0, <2>1 DEF Claimed, OnePending
  <2>2. ASSUME NEW c \in Job, NEW s \in Ended \cup {"pending"}, EndsAs(c, s)
        PROVE  /\ status'[j] # "unborn"
               /\ status'[j] = "pending" =>
                    \A i \in Job : KeyOf[i] = KeyOf[j] => status'[i] # "running"
    BY <2>0, <2>2 DEF EndsAs, Ended, OneRunning
  <2>3. ASSUME NEW c \in Job, Born(c)
        PROVE  /\ status'[j] # "unborn"
               /\ status'[j] = "pending" =>
                    \A i \in Job : KeyOf[i] = KeyOf[j] => status'[i] # "running"
    BY <2>0, <2>3 DEF Born
  <2>4. CASE Cleanup
    BY <2>0, <2>4, CleanupMoves DEF OneRunning
  <2>5. CASE status' = status
    BY <2>0, <2>5
  <2> QED
    BY <2>1, <2>2, <2>3, <2>4, <2>5, RowsMove DEF GoesBack
<1> QED
  BY <1>1, <1>2, CandidatesMove

\* The rows that an open requeue has locked are left alone by everybody else.
LEMMA LockedRowsStay ==
  ASSUME QInv, Next, NEW w \in Worker, hold[w].job # None, hold'[w] = hold[w]
  PROVE  /\ status'[hold[w].job] = "running"
         /\ hold[w].sibling # None => status'[hold[w].sibling] = "pending"
<1> USE DEF QInv, TypeOK
<1> DEFINE h == hold[w]
<1>1. /\ h.job \in Job /\ status[h.job] = "running"
      /\ h.sibling # None => h.sibling \in Job /\ status[h.sibling] = "pending"
  BY HoldTypes DEF HoldsStand
<1>2. hold'[w] # NoHold /\ hold[w] # NoHold
  BY DEF NoHold
<1>3. ASSUME NEW j \in Job, Born(j) \/ Claimed(j)
      PROVE  status'[h.job] = "running" /\ (h.sibling # None => status'[h.sibling] = "pending")
  BY <1>1, <1>3 DEF Born, Claimed, Free
<1>4. ASSUME NEW v \in Worker, NEW j \in Job, NEW s \in Ended \cup {"pending"},
             Alone(v, j), hold'[v] = NoHold, EndsAs(j, s)
      PROVE  status'[h.job] = "running" /\ (h.sibling # None => status'[h.sibling] = "pending")
  <2>1. v # w
    BY <1>2, <1>4
  <2>2. j # h.job /\ (h.sibling # None => j # h.sibling)
    BY <1>4, <2>1 DEF Alone
  <2> QED
    BY <1>1, <1>4, <2>2 DEF EndsAs
<1>5. CASE Cleanup
  BY <1>2, <1>5, CleanupMoves
<1>6. CASE status' = status
  BY <1>1, <1>6
<1> QED
  BY <1>3, <1>4, <1>5, <1>6, RowsMove DEF GoesBack

LEMMA HoldsStandStays == ASSUME QInv, Next PROVE HoldsStand'
<1> USE DEF QInv, TypeOK
<1> DEFINE Kept(w) == hold'[w] = hold[w] /\ (pc'[w] = "requeueing" <=> pc[w] = "requeueing")
           Dropped(w) == hold'[w] = NoHold /\ pc'[w] # "requeueing"
           Taken(w) == \E j \in Job :
              /\ Free(j) /\ status[j] = "running" /\ status' = status
              /\ pc'[w] = "requeueing" /\ hold'[w].job = j
              /\ hold'[w].sibling # None => /\ status[hold'[w].sibling] = "pending"
                                            /\ KeyOf[hold'[w].sibling] = KeyOf[j]
              /\ \A v \in Worker \ {w} : hold'[v] = hold[v]
<1>1. \A w \in Worker : Kept(w) \/ Dropped(w) \/ Taken(w)
  BY HoldsMove
<1>2. NoHold.job = None /\ NoHold.sibling = None
  BY DEF NoHold
<1>3. ASSUME NEW w \in Worker
      PROVE  /\ IF pc'[w] = "requeueing" THEN hold'[w].job # None ELSE hold'[w] = NoHold
             /\ hold'[w].job # None => status'[hold'[w].job] = "running"
             /\ hold'[w].sibling # None => /\ status'[hold'[w].sibling] = "pending"
                                           /\ KeyOf[hold'[w].sibling] = KeyOf[hold'[w].job]
  <2>1. CASE Kept(w)
    <3>1. hold[w].job = None => hold[w].sibling = None
      BY HoldTypes
    <3> QED
      BY <2>1, <3>1, LockedRowsStay DEF HoldsStand
  <2>2. CASE Dropped(w)
    BY <1>2, <2>2
  <2>3. CASE Taken(w)
    BY <2>3
  <2> QED
    BY <1>1, <2>1, <2>2, <2>3
<1>4. ASSUME NEW w \in Worker, NEW v \in Worker \ {w}, hold'[v].job # None
      PROVE  hold'[v].job # hold'[w].job
  <2>1. CASE Taken(w)
    BY <1>4, <2>1 DEF Free
  <2>2. CASE Taken(v)
    BY <1>4, <2>2 DEF Free
  <2>3. CASE (Kept(v) \/ Dropped(v)) /\ (Kept(w) \/ Dropped(w))
    BY <1>2, <1>4, <2>3 DEF HoldsStand
  <2> QED
    BY <1>1, <2>1, <2>2, <2>3
<1> QED
  BY <1>3, <1>4 DEF HoldsStand

LEMMA ExecutesAJobStays == ASSUME QInv, Next PROVE ExecutesAJob'
<1> USE DEF QInv, TypeOK, ExecutesAJob, rows, workers
<1>1. ASSUME NEW w \in Worker, Sleep(w) PROVE ExecutesAJob'
  BY <1>1 DEF Sleep
<1>2. ASSUME NEW w \in Worker, NEW r \in Result, finish(w, r) PROVE ExecutesAJob'
  BY <1>1, <1>2 DEF finish, Requeue
<1>3. ASSUME NEW w \in Worker, Wake(w) \/ Reap(w) \/ RequeueWrite(w) PROVE ExecutesAJob'
  BY <1>3 DEF Wake, Reap, RequeueWrite, Requeue, GoesOn
<1>4. ASSUME NEW w \in Worker, ClaimLook(w) \/ ClaimNothing(w) \/ Heartbeat(w) \/ Stop(w)
      PROVE  ExecutesAJob'
  BY <1>4 DEF ClaimLook, ClaimNothing, Heartbeat, Stop
<1>5. ASSUME NEW w \in Worker, ClaimLock(w) PROVE ExecutesAJob'
  BY <1>5 DEF ClaimLock
<1>6. ASSUME NEW w \in Worker, Crash(w) PROVE ExecutesAJob'
  BY <1>1, <1>6 DEF Crash
<1>7. CASE Cleanup \/ (\E k \in Key : Enqueue(k)) \/ \E j \in Job : FallDue(j) \/ LeaseLapses(j)
  BY <1>7 DEF Cleanup, Enqueue, FallDue, LeaseLapses
<1> QED
  BY <1>2, <1>3, <1>4, <1>5, <1>6, <1>7 DEF Next, Loop

LEMMA NextInv == QInv /\ [Next]_vars => QInv'
<1>1. ASSUME QInv, Next PROVE QInv'
  BY <1>1, TypesStay, OnePendingStays, OneRunningStays, CandidatesStandStays, HoldsStandStays,
     ExecutesAJobStays DEF QInv
<1>2. ASSUME QInv, UNCHANGED vars PROVE QInv'
  BY <1>2 DEF QInv, TypeOK, OnePending, OneRunning, CandidatesStand, HoldsStand, ExecutesAJob,
              vars, rows, workers
<1> QED
  BY <1>1, <1>2

\* Every column and every worker's variable keeps its type, and a key has one
\* pending job (uq_sync_jobs_one_pending).
THEOREM TypeCorrect == Spec => []TypeOK
<1>1. QInv => TypeOK
  BY DEF QInv
<1> QED
  BY <1>1, InitInv, NextInv, PTL DEF Spec

\* A key is run by one job at a time (queue.go:161), however old the snapshots are
\* from which two workers claim.
THEOREM OneRunOfAKey == Spec => []OneRunning
<1>1. QInv => OneRunning
  BY DEF QInv
<1> QED
  BY <1>1, InitInv, NextInv, PTL DEF Spec

-----------------------------------------------------------------------------
(* The queue implements WorkQueue.                                             *)

Pending(k) == OfKey(k, "pending") # {}
Running(k) == OfKey(k, "running") # {}

LEMMA EndImplements ==
  ASSUME QInv, NEW j \in Job, NEW s \in Ended, EndsAs(j, s)
  PROVE  Abstract!End({KeyOf[j]})
<1> USE DEF QInv, TypeOK
<1>1. KeyOf[j] \in Key /\ Running(KeyOf[j])
  BY DEF EndsAs, OfKey, Running
<1>2. \A k \in Key : Running(k)' <=> Running(k) /\ k # KeyOf[j]
  BY DEF EndsAs, OfKey, Running, OneRunning, Ended
<1>3. \A k \in Key : Pending(k)' <=> Pending(k)
  BY DEF EndsAs, OfKey, Pending, Ended
<1>4. {k \in Key : OfKey(k, "pending") # {}}' = {k \in Key : OfKey(k, "pending") # {}} \cup {}
  BY <1>3 DEF Pending
<1>5. {k \in Key : OfKey(k, "running") # {}}' = {k \in Key : OfKey(k, "running") # {}} \ {KeyOf[j]}
  BY <1>2 DEF Running
<1>6. {KeyOf[j]} \subseteq {k \in Key : OfKey(k, "running") # {}}
  BY <1>1 DEF Running
<1>7. {} \in SUBSET {KeyOf[j]}
  OBVIOUS
<1> QED
  BY <1>4, <1>5, <1>6, <1>7 DEF Abstract!End

LEMMA GoesBackImplements ==
  ASSUME QInv, NEW j \in Job, GoesBack(j)
  PROVE  Abstract!End({KeyOf[j]})
<1> USE DEF QInv, TypeOK, GoesBack
<1>1. KeyOf[j] \in Key /\ Running(KeyOf[j])
  BY DEF EndsAs, OfKey, Running
<1>2. \A k \in Key : Running(k)' <=> Running(k) /\ k # KeyOf[j]
  BY DEF EndsAs, OfKey, Running, OneRunning
<1>3. \A k \in Key : Pending(k)' <=> Pending(k) \/ k = KeyOf[j]
  BY DEF EndsAs, OfKey, Pending
<1>4. {k \in Key : OfKey(k, "pending") # {}}' = {k \in Key : OfKey(k, "pending") # {}} \cup {KeyOf[j]}
  BY <1>1, <1>3 DEF Pending
<1>5. {k \in Key : OfKey(k, "running") # {}}' = {k \in Key : OfKey(k, "running") # {}} \ {KeyOf[j]}
  BY <1>2 DEF Running
<1>6. {KeyOf[j]} \subseteq {k \in Key : OfKey(k, "running") # {}}
  BY <1>1 DEF Running
<1>7. {KeyOf[j]} \in SUBSET {KeyOf[j]}
  OBVIOUS
<1> QED
  BY <1>4, <1>5, <1>6, <1>7 DEF Abstract!End

LEMMA ClaimImplements ==
  ASSUME QInv, NEW j \in Job, Claimed(j)
  PROVE  Abstract!Begin(KeyOf[j])
<1> USE DEF QInv, TypeOK, Claimed
<1>1. KeyOf[j] \in Key /\ Pending(KeyOf[j]) /\ ~Running(KeyOf[j])
  BY DEF OfKey, Pending, Running
<1>2. \A k \in Key : Running(k)' <=> Running(k) \/ k = KeyOf[j]
  BY DEF OfKey, Running
<1>3. \A k \in Key : Pending(k)' <=> Pending(k) /\ k # KeyOf[j]
  BY DEF OfKey, Pending, OnePending
<1> QED
  BY <1>1, <1>2, <1>3 DEF Abstract!Begin, Pending, Running

LEMMA BirthImplements ==
  ASSUME QInv, NEW j \in Job, Born(j)
  PROVE  Abstract!Request(KeyOf[j])
<1> USE DEF QInv, TypeOK, Born
<1>1. \A k \in Key : Running(k)' <=> Running(k)
  BY DEF OfKey, Running
<1>2. \A k \in Key : Pending(k)' <=> Pending(k) \/ k = KeyOf[j]
  BY DEF OfKey, Pending
<1> QED
  BY <1>1, <1>2 DEF Abstract!Request, Pending, Running

\* Cleanup ends the runs of the keys it finds stuck; a key of which nothing else
\* waits is wanted again.
LEMMA CleanupImplements ==
  ASSUME QInv, Cleanup
  PROVE  (\E S \in SUBSET Key : Abstract!End(S)) \/ UNCHANGED Abstract!queue
<1> USE DEF QInv, TypeOK
<1>1. PICK newest \in [Key -> Job \cup {None}] : \A j \in Job :
              \/ status'[j] = status[j]
              \/ status[j] = "running" /\ status'[j] = "cancelled"
              \/ /\ status[j] = "running" /\ status'[j] = "pending"
                 /\ j = newest[KeyOf[j]] /\ OfKey(KeyOf[j], "pending") = {}
  BY CleanupMoves
<1> DEFINE S == {k \in Key : Running(k) /\ ~Running(k)'}
           again == {k \in S : ~Pending(k) /\ Pending(k)'}
<1>2. \A k \in Key : Running(k)' => Running(k)
  BY <1>1 DEF OfKey, Running
<1>3. \A k \in Key : Pending(k) => Pending(k)'
  BY <1>1 DEF OfKey, Pending
<1>4. ASSUME NEW k \in Key, ~Pending(k), Pending(k)' PROVE k \in S
  <2>1. PICK j \in Job : KeyOf[j] = k /\ status[j] = "running" /\ status'[j] = "pending"
    BY <1>1, <1>4 DEF OfKey, Pending
  <2>2. \A i \in Job : KeyOf[i] = k => status'[i] # "running"
    BY <1>1, <2>1 DEF OneRunning
  <2> QED
    BY <2>1, <2>2 DEF OfKey, Running
<1>5. CASE S = {}
  BY <1>2, <1>3, <1>4, <1>5 DEF Abstract!queue, Pending, Running
<1>6. CASE S # {}
  <2>1. again \in SUBSET S /\ S \in SUBSET Key
    OBVIOUS
  <2>2. {k \in Key : OfKey(k, "pending") # {}}' = {k \in Key : OfKey(k, "pending") # {}} \cup again
    BY <1>3, <1>4 DEF Pending
  <2>3. {k \in Key : OfKey(k, "running") # {}}' = {k \in Key : OfKey(k, "running") # {}} \ S
    BY <1>2 DEF Running
  <2>4. S \subseteq {k \in Key : OfKey(k, "running") # {}}
    BY DEF Running
  <2>5. Abstract!End(S)
    BY <1>6, <2>1, <2>2, <2>3, <2>4 DEF Abstract!End
  <2> QED
    BY <2>1, <2>5
<1> QED
  BY <1>5, <1>6

LEMMA StepImplements == QInv /\ [Next]_vars => [Abstract!Next]_(Abstract!queue)
<1>1. ASSUME status' = status PROVE UNCHANGED Abstract!queue
  BY <1>1 DEF Abstract!queue, OfKey
<1>2. ASSUME QInv, Next PROVE [Abstract!Next]_(Abstract!queue)
  <2>1. \A j \in Job : KeyOf[j] \in Key /\ {KeyOf[j]} \in SUBSET Key
    OBVIOUS
  <2> QED
    BY <1>1, <1>2, <2>1, RowsMove, EndImplements, GoesBackImplements, ClaimImplements,
       BirthImplements, CleanupImplements DEF Abstract!Next
<1> QED
  BY <1>1, <1>2 DEF vars, rows

\* The queue keeps every request until a run that starts after it, runs a key once
\* at a time, and a job that is put back leaves its key wanted: through crashes,
\* lost leases, snapshots that age, shutdowns, rate limits and an operator's cleanup.
THEOREM QueueKeepsRequests == Spec => KeepsRequests
<1>1. Init => Abstract!Init
  BY DEF Init, Abstract!Init, OfKey
<1> QED
  BY <1>1, StepImplements, InitInv, NextInv, PTL DEF Spec, KeepsRequests, Abstract!Spec

-----------------------------------------------------------------------------
(* For any contributors, requests in flight, strays and bounds: no sync that has *)
(* its lease counts an out-of-band assignment that GitHub did not make, and one   *)
(* that lost it counts one too many at most. The reason is what the row of a     *)
(* contributor says between two syncs: while the next sighting would count,      *)
(* GitHub has made one assignment more than the row counts, both for whom GitHub *)
(* has now (Present) and for whom the sync has read (Read); and if the sync       *)
(* removed somebody whom GitHub got back before the sync wrote, that is one more *)
(* again (Returned). A stray's write may spoil each of them by one.              *)

\* The next sighting of u would be counted.
Counts(u) == oob[u].occurrences = 0 \/ oob[u].reverted

\* The row of u once the sync that is under way has counted it.
Counted(u) == oob[u].occurrences + IF Counts(u) THEN 1 ELSE 0

\* What may have been counted.
Most(u) == adds[u] + strayWrites

Present == \A u \in gh.assignees : Counts(u) => oob[u].occurrences < Most(u)
Read == \A u \in sync[Leased].assignees : Counts(u) => oob[u].occurrences < Most(u)
Returned == \A u \in sync[Leased].removed \cap gh.assignees : Counted(u) < Most(u)

\* What a sync removes it found ineligible, and only when it has asked GitHub.
RemovalStands ==
  /\ sync[Leased].removed \subseteq sync[Leased].ineligible
  /\ sync[Leased].ineligible \subseteq sync[Leased].assignees
  /\ sync[Leased].pc # "write" => sync[Leased].removed = {}

ApplicationsInv == ApplicationTypes /\ OccurrencesAreReal /\ Present /\ Read /\ Returned /\ RemovalStands

-----------------------------------------------------------------------------
(* Types.                                                                      *)

LEMMA AssigneesTypes ==
  ASSUME ApplicationTypes, NEW set \in SUBSET User, Assignees(set)
  PROVE  /\ gh' \in [open : BOOLEAN, assignees : SUBSET User, comments : SUBSET User]
         /\ gh'.assignees = set
         /\ adds' \in [User -> Nat]
         /\ \A u \in User : adds'[u] = IF u \in set \ gh.assignees THEN adds[u] + 1 ELSE adds[u]
<1>1. \A u \in User : adds[u] + (IF u \in set \ gh.assignees THEN 1 ELSE 0) \in Nat
  BY DEF ApplicationTypes
<1> QED
  BY <1>1 DEF ApplicationTypes, Assignees

LEMMA RequestTypes ==
  ASSUME ApplicationTypes, NEW h \in Handler
  PROVE  /\ Ends(h) => req' \in [Handler -> Request]
         /\ \A where \in {"apply", "withdraw", "assign", "mirror", "record"}, u \in User :
              Goes(h, where, u) => req' \in [Handler -> Request]
         /\ Goes(h, "unassign", NoUser) => req' \in [Handler -> Request]
         /\ req[h].pc \notin {"idle", "unassign"} => req[h].user \in User
<1>1. Quiet \in Request
  BY DEF Quiet, Request
<1>2. \A where \in {"apply", "withdraw", "assign", "mirror", "record"}, u \in User :
        [pc |-> where, user |-> u] \in Request
  BY DEF Request
<1>3. [pc |-> "unassign", user |-> NoUser] \in Request
  BY DEF Request
<1>4. \A r \in Request : r.pc \notin {"idle", "unassign"} => r.user \in User
  BY DEF Request
<1>5. req \in [Handler -> Request]
  BY DEF ApplicationTypes
<1> QED
  BY <1>1, <1>2, <1>3, <1>4, <1>5 DEF Ends, Goes

LEMMA SyncMoves ==
  ASSUME ApplicationTypes, NEW r \in Runner, NEW next \in SyncState, Steps(r, next)
  PROVE  /\ sync' \in [Runner -> SyncState] /\ sync'[r] = next
         /\ \A q \in Runner \ {r} : sync'[q] = sync[q]
         /\ sync'[Leased] = IF r = Leased THEN next ELSE sync[Leased]
BY DEF Steps, ApplicationTypes, Runner

LEMMA NotSyncingType == NotSyncing \in SyncState
BY DEF NotSyncing, SyncState

LEMMA ApplicationsBegin == ApplicationsInit => ApplicationsInv
<1> SUFFICES ASSUME ApplicationsInit PROVE ApplicationsInv
  OBVIOUS
<1>1. ApplicationTypes
  <2>1. /\ gh \in [open : BOOLEAN, assignees : SUBSET User, comments : SUBSET User]
        /\ issue \in [open : BOOLEAN, assignees : SUBSET User]
    BY DEF ApplicationsInit
  <2>2. /\ apps \in [User -> ApplicationStatus] /\ autoRevert \in BOOLEAN /\ adds \in [User -> Nat]
        /\ oob \in [User -> [occurrences : Nat, reverted : BOOLEAN]]
    BY DEF ApplicationsInit, ApplicationStatus
  <2>3. Quiet \in Request
    BY DEF Quiet, Request
  <2>4. req \in [Handler -> Request]
    BY <2>3 DEF ApplicationsInit
  <2>5. sync \in [Runner -> SyncState] /\ strayWrites \in Nat
    BY NotSyncingType DEF ApplicationsInit
  <2>6. moves \in 0..MaxMoves /\ failures \in 0..MaxFailures
    BY BoundsAssumption DEF ApplicationsInit
  <2> QED
    BY <2>1, <2>2, <2>4, <2>5, <2>6 DEF ApplicationTypes
<1>2. gh.assignees = {} /\ sync[Leased].assignees = {} /\ sync[Leased].removed = {} /\ sync[Leased].ineligible = {}
  BY DEF ApplicationsInit, NotSyncing, Runner
<1>3. OccurrencesAreReal
  BY <1>1 DEF ApplicationTypes, ApplicationsInit, OccurrencesAreReal
<1> QED
  BY <1>1, <1>2, <1>3 DEF ApplicationsInv, Present, Read, Returned, RemovalStands

-----------------------------------------------------------------------------
(* The counting.                                                               *)

Counting == OccurrencesAreReal /\ Present /\ Read /\ Returned /\ RemovalStands

\* Steps that touch neither GitHub's assignees nor the sync that has the lease.
LEMMA NothingCounted ==
  ASSUME ApplicationsInv, gh'.assignees = gh.assignees, UNCHANGED <<oob, adds, strayWrites>>,
         sync'[Leased] = sync[Leased]
  PROVE  Counting'
BY DEF ApplicationsInv, Counting, OccurrencesAreReal, Present, Read, Returned, RemovalStands, Counts, Counted, Most

\* GitHub's assignees change under a sync that waits.
LEMMA AssigneesCounted ==
  ASSUME ApplicationsInv, NEW set \in SUBSET User, Assignees(set), UNCHANGED <<oob, strayWrites>>,
         sync'[Leased] = sync[Leased]
  PROVE  Counting'
<1> USE DEF ApplicationsInv, ApplicationTypes, Counts, Counted, Most
<1>1. /\ gh'.assignees = set
      /\ \A u \in User : adds'[u] = IF u \in set \ gh.assignees THEN adds[u] + 1 ELSE adds[u]
  BY AssigneesTypes
<1>2. \A u \in User : oob[u].occurrences \in Nat /\ adds[u] \in Nat /\ strayWrites \in Nat
  OBVIOUS
<1>3. OccurrencesAreReal'
  BY <1>1, <1>2 DEF OccurrencesAreReal
<1>4. Present'
  BY <1>1, <1>2 DEF Present, OccurrencesAreReal
<1>5. Read'
  <2>1. sync[Leased].assignees \subseteq User
    BY DEF Runner, SyncState
  <2> QED
    BY <1>1, <1>2, <2>1 DEF Read
<1>6. ASSUME NEW u \in sync[Leased].removed, u \in set PROVE Counted(u) < adds'[u] + strayWrites
  <2>1. u \in User /\ u \in sync[Leased].assignees
    BY DEF RemovalStands, Runner, SyncState
  <2>2. CASE u \in gh.assignees
    BY <1>1, <1>6, <2>1, <2>2 DEF Returned
  <2>3. CASE u \notin gh.assignees
    <3>1. adds'[u] = adds[u] + 1
      BY <1>1, <1>6, <2>1, <2>3
    <3>2. Counts(u) => oob[u].occurrences < adds[u] + strayWrites
      BY <2>1 DEF Read
    <3>3. oob[u].occurrences <= adds[u] + strayWrites
      BY <2>1 DEF OccurrencesAreReal
    <3> QED
      BY <1>2, <2>1, <3>1, <3>2, <3>3
  <2> QED
    BY <2>2, <2>3
<1>7. Returned'
  BY <1>1, <1>6 DEF Returned
<1>8. RemovalStands'
  BY DEF RemovalStands
<1> QED
  BY <1>3, <1>4, <1>5, <1>7, <1>8 DEF Counting

\* The sync asks GitHub to remove whom it found ineligible.
LEMMA RemovalCounted ==
  ASSUME ApplicationsInv, sync[Leased].pc = "revert", Assignees(gh.assignees \ sync[Leased].ineligible),
         UNCHANGED <<oob, strayWrites>>,
         sync'[Leased] = [sync[Leased] EXCEPT !.pc = "write"]
           \/ sync'[Leased] = [sync[Leased] EXCEPT !.pc = "write", !.removed = sync[Leased].ineligible]
  PROVE  Counting'
<1> USE DEF ApplicationsInv, ApplicationTypes, Counts, Counted, Most
<1>0. sync[Leased] \in SyncState
  BY DEF Runner
<1>1. gh.assignees \ sync[Leased].ineligible \in SUBSET User
  OBVIOUS
<1>2. /\ gh'.assignees = gh.assignees \ sync[Leased].ineligible
      /\ \A u \in User : adds'[u] = adds[u]
  BY <1>1, AssigneesTypes
<1>3. /\ sync'[Leased].assignees = sync[Leased].assignees /\ sync'[Leased].ineligible = sync[Leased].ineligible
      /\ sync'[Leased].pc = "write"
  BY <1>0 DEF SyncState
<1>4. sync'[Leased].removed = {} \/ sync'[Leased].removed = sync[Leased].ineligible
  BY <1>0 DEF RemovalStands, SyncState
<1>5. OccurrencesAreReal'
  BY <1>2 DEF OccurrencesAreReal
<1>6. Present'
  BY <1>2 DEF Present
<1>7. Read'
  BY <1>0, <1>2, <1>3 DEF Read, SyncState
<1>8. Returned'
  BY <1>2, <1>4 DEF Returned
<1>9. RemovalStands'
  BY <1>3, <1>4 DEF RemovalStands
<1> QED
  BY <1>5, <1>6, <1>7, <1>8, <1>9 DEF Counting

\* The sync reads and decides; nothing has been removed yet.
LEMMA DecisionCounted ==
  ASSUME ApplicationsInv, UNCHANGED <<gh, oob, adds, strayWrites>>, sync'[Leased].removed = {},
         sync'[Leased].ineligible \subseteq sync'[Leased].assignees,
         sync'[Leased].assignees \in {{}, gh.assignees, sync[Leased].assignees}
  PROVE  Counting'
<1>1. \/ sync'[Leased].assignees = {} \/ sync'[Leased].assignees = gh.assignees
      \/ sync'[Leased].assignees = sync[Leased].assignees
  OBVIOUS
<1> QED
  BY <1>1 DEF ApplicationsInv, Counting, OccurrencesAreReal, Present, Read, Returned, RemovalStands, Counts, Counted, Most

\* What a sync's write does to the rows.
LEMMA UpsertRows ==
  ASSUME ApplicationTypes, NEW r \in Runner, UpsertIssue(r)
  PROVE  /\ \A u \in User :
              IF u \in sync[r].ineligible
              THEN oob'[u].occurrences = Counted(u) /\ oob'[u].reverted = (u \in sync[r].removed)
              ELSE oob'[u] = oob[u]
         /\ \A u \in User : oob[u].occurrences \in Nat
         /\ adds' = adds /\ gh' = gh /\ sync'[r] = NotSyncing
         /\ \A q \in Runner \ {r} : sync'[q] = sync[q]
<1>1. \A q \in Runner : q # r => sync'[q] = sync[q]
  BY NotSyncingType, SyncMoves DEF UpsertIssue
<1> QED
  BY <1>1, NotSyncingType, SyncMoves DEF ApplicationTypes, UpsertIssue, RecordOOBAssignment, Counted, Counts

\* The sync that has the lease writes what it saw.
LEMMA UpsertCounted == ASSUME ApplicationsInv, UpsertIssue(Leased) PROVE Counting'
<1> USE DEF ApplicationsInv, ApplicationTypes
<1>0. Leased \in Runner /\ sync[Leased] \in SyncState
  BY DEF Runner
<1>1. /\ \A u \in User : oob[u].occurrences \in Nat /\ adds[u] \in Nat
      /\ adds' = adds /\ strayWrites' = strayWrites /\ strayWrites \in Nat
  BY <1>0 DEF UpsertIssue
<1>2. /\ \A u \in User :
           IF u \in sync[Leased].ineligible
           THEN oob'[u].occurrences = Counted(u) /\ oob'[u].reverted = (u \in sync[Leased].removed)
           ELSE oob'[u] = oob[u]
      /\ gh' = gh /\ sync'[Leased] = NotSyncing
  BY <1>0, UpsertRows
<1>4. \A u \in sync[Leased].ineligible : Counted(u) <= Most(u) /\ Counted(u) # 0 /\ u \in User
  BY <1>0, <1>1 DEF Read, RemovalStands, OccurrencesAreReal, Counted, Counts, Most, SyncState
<1>5. OccurrencesAreReal'
  BY <1>1, <1>2, <1>4 DEF OccurrencesAreReal, Most
<1>6. ASSUME NEW u \in gh.assignees, Counts(u)' PROVE oob'[u].occurrences < Most(u)'
  <2>1. CASE u \in sync[Leased].ineligible
    <3>1. u \in sync[Leased].removed
      BY <1>2, <1>4, <1>6, <2>1 DEF Counts
    <3> QED
      BY <1>1, <1>2, <2>1, <3>1 DEF Returned, Most
  <2>2. CASE u \notin sync[Leased].ineligible
    BY <1>1, <1>2, <1>6, <2>2 DEF Present, Counts, Most
  <2> QED
    BY <2>1, <2>2
<1>7. Present'
  BY <1>2, <1>6 DEF Present
<1>8. Read' /\ Returned' /\ RemovalStands'
  BY <1>2 DEF Read, Returned, RemovalStands, NotSyncing
<1> QED
  BY <1>5, <1>7, <1>8 DEF Counting

\* A stray writes: one too many at most, of each contributor.
LEMMA StrayCounted == ASSUME ApplicationsInv, NEW r \in Stray, UpsertIssue(r) PROVE Counting'
<1> USE DEF ApplicationsInv, ApplicationTypes
<1>0. r \in Runner /\ Leased \in Runner /\ r # Leased /\ sync[Leased] \in SyncState
  BY StrayAssumption DEF Runner
<1>1. /\ \A u \in User : oob[u].occurrences \in Nat /\ adds[u] \in Nat
      /\ adds' = adds /\ strayWrites' = strayWrites + 1 /\ strayWrites \in Nat
      /\ gh' = gh /\ sync'[Leased] = sync[Leased]
  BY <1>0, UpsertRows DEF UpsertIssue
<1>2. \A u \in User : oob'[u].occurrences = Counted(u) \/ oob'[u] = oob[u]
  BY <1>0, UpsertRows
<1>3. \A u \in User : Most(u)' = Most(u) + 1 /\ Most(u) \in Nat
  BY <1>1 DEF Most
<1>4. OccurrencesAreReal'
  BY <1>1, <1>2, <1>3 DEF OccurrencesAreReal, Counted, Counts, Most
<1>5. \A u \in User : (Counts(u) => oob[u].occurrences < Most(u)) => oob'[u].occurrences < Most(u)'
  BY <1>1, <1>2, <1>3 DEF OccurrencesAreReal, Counted, Counts, Most
<1>6. Present' /\ Read'
  BY <1>0, <1>1, <1>5 DEF Present, Read, SyncState
<1>7. \A u \in User : Counted(u) < Most(u) => Counted(u)' < Most(u)'
  <2>1. \A u \in User : oob'[u].occurrences <= Counted(u) /\ Counted(u) \in Nat
    BY <1>1, <1>2 DEF Counted
  <2>2. \A u \in User : Counted(u)' <= oob'[u].occurrences + 1 /\ Counted(u)' \in Nat /\ oob'[u].occurrences \in Nat
    BY <1>1, <1>2, <2>1 DEF Counted
  <2> QED
    BY <1>3, <2>1, <2>2
<1>8. Returned'
  BY <1>0, <1>1, <1>7 DEF Returned, SyncState
<1>9. RemovalStands'
  BY <1>1 DEF RemovalStands
<1> QED
  BY <1>4, <1>6, <1>8, <1>9 DEF Counting

-----------------------------------------------------------------------------
(* The steps.                                                                  *)

LEMMA ApplicationsMove == ASSUME ApplicationsInv, ApplicationsNext PROVE ApplicationsInv'
<1> USE DEF ApplicationsInv
<1>1. ASSUME NEW u \in User, GitHubAssigns(u) \/ GitHubUnassigns(u) PROVE ApplicationsInv'
  <2>1. PICK set \in SUBSET User : Assignees(set)
    BY <1>1 DEF GitHubAssigns, GitHubUnassigns, ApplicationTypes
  <2>2. moves' \in 0..MaxMoves
    BY <1>1, BoundsAssumption DEF GitHubAssigns, GitHubUnassigns, Move, ApplicationTypes
  <2>3. ApplicationTypes'
    BY <1>1, <2>1, <2>2, AssigneesTypes DEF GitHubAssigns, GitHubUnassigns, ApplicationTypes
  <2> QED
    BY <1>1, <2>1, <2>3, AssigneesCounted DEF GitHubAssigns, GitHubUnassigns, Counting
<1>2. CASE GitHubToggles \/ SetAutoRevert \/ \E u \in User : Reject(u)
  <2>1. moves' \in 0..MaxMoves
    BY <1>2, BoundsAssumption DEF GitHubToggles, SetAutoRevert, Reject, Move, ApplicationTypes
  <2>2. ApplicationTypes'
    BY <1>2, <2>1 DEF GitHubToggles, SetAutoRevert, Reject, ApplicationTypes, ApplicationStatus
  <2>3. gh'.assignees = gh.assignees /\ UNCHANGED <<oob, sync, adds, strayWrites>>
    BY <1>2 DEF GitHubToggles, SetAutoRevert, Reject, ApplicationTypes
  <2> QED
    BY <2>2, <2>3, NothingCounted DEF Counting
<1>3. ASSUME NEW h \in Handler, NEW u \in User, Apply(h, u) \/ Withdraw(h, u) \/ Assign(h, u)
      PROVE  ApplicationsInv'
  <2>1. moves' \in 0..MaxMoves
    BY <1>3, BoundsAssumption DEF Apply, Withdraw, Assign, Move, ApplicationTypes
  <2>2. req' \in [Handler -> Request]
    BY <1>3, RequestTypes DEF Apply, Withdraw, Assign
  <2>3. gh' \in [open : BOOLEAN, assignees : SUBSET User, comments : SUBSET User]
    BY <1>3 DEF Apply, Withdraw, Assign, ApplicationTypes
  <2>4. ApplicationTypes'
    BY <1>3, <2>1, <2>2, <2>3 DEF Apply, Withdraw, Assign, ApplicationTypes
  <2>5. gh'.assignees = gh.assignees /\ UNCHANGED <<oob, sync, adds, strayWrites>>
    BY <1>3 DEF Apply, Withdraw, Assign, ApplicationTypes
  <2> QED
    BY <2>4, <2>5, NothingCounted DEF Counting
<1>4. ASSUME NEW h \in Handler,
             \/ recordApplication(h) \/ recordWithdrawal(h) \/ AssignMirrors(h)
             \/ recordAssignment(h) \/ recordUnassignment(h) \/ RequestDies(h)
      PROVE  ApplicationsInv'
  <2> USE DEF recordApplication, recordWithdrawal, AssignMirrors, recordAssignment,
              recordUnassignment, RequestDies
  <2>1. req' \in [Handler -> Request]
    BY <1>4, RequestTypes
  <2>2. apps' \in [User -> ApplicationStatus]
    BY <1>4 DEF ApplicationTypes, ApplicationStatus
  <2>3. failures' \in 0..MaxFailures
    BY <1>4, BoundsAssumption DEF ApplicationTypes
  <2>4. issue' \in [open : BOOLEAN, assignees : SUBSET User]
    <3>1. CASE AssignMirrors(h)
      <4>1. PICK set \in SUBSET User : issue' = [issue EXCEPT !.assignees = set]
        BY <3>1, RequestTypes
      <4> QED
        BY <4>1 DEF ApplicationTypes
    <3> QED
      BY <1>4, <3>1 DEF ApplicationTypes
  <2>5. ApplicationTypes'
    BY <1>4, <2>1, <2>2, <2>3, <2>4 DEF ApplicationTypes
  <2> QED
    BY <1>4, <2>5, NothingCounted DEF Counting
<1>5. ASSUME NEW h \in Handler, AddIssueAssignees(h) \/ Unassign(h) PROVE ApplicationsInv'
  <2>1. PICK set \in SUBSET User : Assignees(set)
    <3>1. CASE AddIssueAssignees(h)
      <4>1. gh.assignees \cup {req[h].user} \in SUBSET User
        BY <3>1, RequestTypes DEF AddIssueAssignees, ApplicationTypes
      <4> QED
        BY <3>1, <4>1 DEF AddIssueAssignees
    <3>2. CASE Unassign(h)
      <4>1. gh.assignees \ issue.assignees \in SUBSET User
        BY DEF ApplicationTypes
      <4> QED
        BY <3>2, <4>1 DEF Unassign
    <3> QED
      BY <1>5, <3>1, <3>2
  <2>2. req' \in [Handler -> Request]
    BY <1>5, RequestTypes DEF AddIssueAssignees, Unassign
  <2>3. moves' \in 0..MaxMoves
    BY <1>5, BoundsAssumption DEF AddIssueAssignees, Unassign, Move, ApplicationTypes
  <2>4. ApplicationTypes'
    BY <1>5, <2>1, <2>2, <2>3, AssigneesTypes DEF AddIssueAssignees, Unassign, ApplicationTypes
  <2> QED
    BY <1>5, <2>1, <2>4, AssigneesCounted DEF AddIssueAssignees, Unassign, Counting
<1>6. CASE ListIssues
  <2> DEFINE next == [NotSyncing EXCEPT !.pc = IF gh.open THEN "read" ELSE "write",
                                        !.open = gh.open, !.assignees = gh.assignees]
  <2>1. next \in SyncState /\ next.removed = {} /\ next.ineligible = {} /\ next.assignees = gh.assignees
    BY DEF ApplicationTypes, NotSyncing, SyncState
  <2>2. Steps(Leased, next) /\ Leased \in Runner /\ UNCHANGED <<gh, issue, apps, oob, autoRevert, req, adds, strayWrites, moves, failures>>
    BY <1>6 DEF ListIssues, Runner
  <2> HIDE DEF next
  <2>3. sync' \in [Runner -> SyncState] /\ sync'[Leased] = next
    BY <2>1, <2>2, SyncMoves
  <2>4. ApplicationTypes'
    BY <2>2, <2>3 DEF ApplicationTypes
  <2> QED
    BY <2>1, <2>2, <2>3, <2>4, DecisionCounted DEF Counting
<1>7. ASSUME NEW r \in Runner, ReadEligible(r) \/ UpdateStatuses(r) \/ ReconcileFails(r) \/ SyncDies(r)
      PROVE  ApplicationsInv'
  <2> USE DEF ReadEligible, UpdateStatuses, ReconcileFails, SyncDies
  <2>1. failures' \in 0..MaxFailures
    BY <1>7, BoundsAssumption DEF ApplicationTypes, Fails
  <2>2. apps' \in [User -> ApplicationStatus]
    BY <1>7 DEF ApplicationTypes, ApplicationStatus
  <2>3. PICK next \in SyncState :
          /\ Steps(r, next)
          /\ RemovalStands /\ r = Leased => /\ next.removed = {} /\ next.ineligible \subseteq next.assignees
                                            /\ next.assignees \in {{}, sync[Leased].assignees}
    <3>0. sync[r] \in SyncState
      BY DEF ApplicationTypes
    <3>1. CASE ReadEligible(r)
      <4> DEFINE n == [sync[r] EXCEPT !.pc = "update", !.ineligible = sync[r].assignees \ With(Eligible)]
      <4>1. /\ n \in SyncState /\ n.removed = sync[r].removed /\ n.ineligible \subseteq n.assignees
            /\ n.assignees = sync[r].assignees
        BY <3>0 DEF SyncState
      <4>2. Steps(r, n) /\ sync[r].pc # "write"
        BY <3>1
      <4> QED
        BY <4>1, <4>2 DEF RemovalStands
    <3>2. CASE UpdateStatuses(r)
      <4> DEFINE n == [sync[r] EXCEPT !.pc = IF sync[r].ineligible = {} THEN "write" ELSE "revert"]
      <4>1. /\ n \in SyncState /\ n.removed = sync[r].removed /\ n.ineligible = sync[r].ineligible
            /\ n.assignees = sync[r].assignees
        BY <3>0 DEF SyncState
      <4>2. Steps(r, n) /\ sync[r].pc # "write"
        BY <3>2
      <4> QED
        BY <4>1, <4>2 DEF RemovalStands
    <3>3. CASE ReconcileFails(r)
      <4> DEFINE n == [sync[r] EXCEPT !.pc = "write", !.ineligible = {}]
      <4>1. /\ n \in SyncState /\ n.removed = sync[r].removed /\ n.ineligible = {}
            /\ n.assignees = sync[r].assignees
        BY <3>0 DEF SyncState
      <4>2. Steps(r, n) /\ sync[r].pc # "write"
        BY <3>3
      <4> QED
        BY <4>1, <4>2 DEF RemovalStands
    <3>4. CASE SyncDies(r)
      <4>1. Steps(r, NotSyncing) /\ NotSyncing.removed = {} /\ NotSyncing.ineligible = {} /\ NotSyncing.assignees = {}
        BY <3>4 DEF NotSyncing
      <4> QED
        BY <4>1, NotSyncingType
    <3> QED
      BY <1>7, <3>1, <3>2, <3>3, <3>4
  <2>4. sync' \in [Runner -> SyncState] /\ sync'[Leased] = IF r = Leased THEN next ELSE sync[Leased]
    BY <2>3, SyncMoves
  <2>5. UNCHANGED <<gh, issue, oob, autoRevert, req, adds, strayWrites, moves>>
    BY <1>7
  <2>6. ApplicationTypes'
    BY <2>1, <2>2, <2>4, <2>5 DEF ApplicationTypes
  <2>7. CASE r = Leased
    BY <2>3, <2>4, <2>5, <2>6, <2>7, DecisionCounted DEF Counting
  <2>8. CASE r # Leased
    BY <2>4, <2>5, <2>6, <2>8, NothingCounted DEF Counting
  <2> QED
    BY <2>7, <2>8
<1>8. ASSUME NEW r \in Runner, RemoveIneligible(r) \/ RemovalFails(r) PROVE ApplicationsInv'
  <2> USE DEF RemoveIneligible, RemovalFails
  <2> DEFINE kept == [sync[r] EXCEPT !.pc = "write"]
             done == [sync[r] EXCEPT !.pc = "write", !.removed = sync[r].ineligible]
             others == gh.assignees \ sync[r].ineligible
  <2>1. failures' \in 0..MaxFailures
    BY <1>8, BoundsAssumption DEF ApplicationTypes, Fails
  <2>2. /\ sync[r].pc = "revert" /\ UNCHANGED <<oob, issue, apps, autoRevert, req, strayWrites, moves>>
        /\ \/ Steps(r, kept) /\ (Assignees(others) \/ UNCHANGED <<gh, adds>>)
           \/ Steps(r, done) /\ Assignees(others)
    BY <1>8
  <2>3. /\ sync[r] \in SyncState /\ kept \in SyncState /\ done \in SyncState
        /\ kept.removed = sync[r].removed /\ kept.ineligible = sync[r].ineligible /\ kept.assignees = sync[r].assignees
    <3>1. sync[r] \in SyncState
      BY DEF ApplicationTypes
    <3>2. "write" \in {"idle", "read", "update", "revert", "write"} /\ sync[r].ineligible \in SUBSET User
      BY <3>1 DEF SyncState
    <3> QED
      BY <3>1, <3>2 DEF SyncState
  <2>4. others \in SUBSET User
    BY DEF ApplicationTypes
  <2> HIDE DEF kept, done, others
  <2>5. /\ sync' \in [Runner -> SyncState]
        /\ r # Leased => sync'[Leased] = sync[Leased]
        /\ r = Leased => sync'[Leased] \in {kept, done}
        /\ r = Leased /\ UNCHANGED <<gh, adds>> /\ ~Assignees(others) => sync'[Leased] = kept
    BY <2>2, <2>3, SyncMoves
  <2>6. CASE Assignees(others)
    <3>1. ApplicationTypes'
      BY <2>1, <2>2, <2>4, <2>5, <2>6, AssigneesTypes DEF ApplicationTypes
    <3>2. CASE r = Leased
      BY <2>2, <2>5, <2>6, <3>1, <3>2, RemovalCounted DEF Counting, kept, done, others
    <3>3. CASE r # Leased
      BY <2>2, <2>4, <2>5, <2>6, <3>1, <3>3, AssigneesCounted DEF Counting
    <3> QED
      BY <3>2, <3>3
  <2>7. CASE ~Assignees(others)
    <3>1. UNCHANGED <<gh, adds>>
      BY <2>2, <2>7
    <3>2. ApplicationTypes'
      BY <2>1, <2>2, <2>5, <3>1 DEF ApplicationTypes
    <3>3. CASE r = Leased
      <4>1. sync'[Leased] = kept
        BY <2>5, <2>7, <3>1, <3>3
      <4>2. kept.removed = {} /\ kept.ineligible \subseteq kept.assignees /\ kept.assignees = sync[Leased].assignees
        BY <2>2, <2>3, <3>3 DEF RemovalStands
      <4> QED
        BY <2>2, <3>1, <3>2, <4>1, <4>2, DecisionCounted DEF Counting
    <3>4. CASE r # Leased
      BY <2>2, <2>5, <3>1, <3>2, <3>4, NothingCounted DEF Counting
    <3> QED
      BY <3>3, <3>4
  <2> QED
    BY <2>6, <2>7
<1>9. ASSUME NEW r \in Runner, UpsertIssue(r) PROVE ApplicationsInv'
  <2>1. oob' \in [User -> [occurrences : Nat, reverted : BOOLEAN]] /\ strayWrites' \in Nat
    BY <1>9 DEF UpsertIssue, RecordOOBAssignment, ApplicationTypes
  <2>2. sync' \in [Runner -> SyncState]
    BY <1>9, NotSyncingType, SyncMoves DEF UpsertIssue
  <2>3. issue' \in [open : BOOLEAN, assignees : SUBSET User]
    BY <1>9 DEF UpsertIssue, ApplicationTypes, SyncState
  <2>4. ApplicationTypes'
    BY <1>9, <2>1, <2>2, <2>3 DEF UpsertIssue, ApplicationTypes
  <2> QED
    BY <1>9, <2>4, UpsertCounted, StrayCounted DEF Counting, Runner
<1>10. ASSUME NEW r \in Runner, TakenForDead(r) PROVE ApplicationsInv'
  <2>1. failures' \in 0..MaxFailures
    BY <1>10, BoundsAssumption DEF TakenForDead, ApplicationTypes, Fails
  <2>2. /\ sync' \in [Runner -> SyncState] /\ sync'[Leased] = NotSyncing
        /\ UNCHANGED <<gh, issue, apps, oob, autoRevert, req, adds, strayWrites, moves>>
    BY <1>10, NotSyncingType, StrayAssumption DEF TakenForDead, ApplicationTypes, Runner
  <2>3. ApplicationTypes'
    BY <2>1, <2>2 DEF ApplicationTypes
  <2>4. NotSyncing.removed = {} /\ NotSyncing.ineligible = {} /\ NotSyncing.assignees = {}
    BY DEF NotSyncing
  <2> QED
    BY <2>2, <2>3, <2>4, DecisionCounted DEF Counting
<1> QED
  BY <1>1, <1>2, <1>3, <1>4, <1>5, <1>6, <1>7, <1>8, <1>9, <1>10 DEF ApplicationsNext, SyncSteps

LEMMA ApplicationsStep == ApplicationsInv /\ [ApplicationsNext]_applicationVars => ApplicationsInv'
<1>1. ASSUME ApplicationsInv, UNCHANGED applicationVars PROVE ApplicationsInv'
  BY <1>1 DEF applicationVars, ApplicationsInv, ApplicationTypes, OccurrencesAreReal, Present, Read, Returned, RemovalStands, Counts,
              Counted, Most
<1> QED
  BY <1>1, ApplicationsMove

\* The issue, the applications, the requests and the sync keep their types.
THEOREM ApplicationsTypeCorrect == ApplicationsSpec => []ApplicationTypes
<1>1. ApplicationsInv => ApplicationTypes
  BY DEF ApplicationsInv
<1> QED
  BY <1>1, ApplicationsBegin, ApplicationsStep, PTL DEF ApplicationsSpec

\* The count held against a maintainer never exceeds how often GitHub made the
\* contributor an assignee (oob.go) by more than the syncs that wrote after they had
\* lost their lease, whatever happens on GitHub during a sync, whichever call fails
\* and however often a sync dies and runs again.
THEOREM NoSightingCountedTwice == ApplicationsSpec => []OccurrencesAreReal
<1>1. ApplicationsInv => OccurrencesAreReal
  BY DEF ApplicationsInv
<1> QED
  BY <1>1, ApplicationsBegin, ApplicationsStep, PTL DEF ApplicationsSpec

-----------------------------------------------------------------------------
(* Verdicts. No review enters a run with more confidence than the diff allows    *)
(* (Lowered), and the evidence stored is the answers of the run that stored it    *)
(* for as long as that run has not acted (Stored). Between its two writes an      *)
(* admin may decide, another run may store its own answers or act, and the        *)
(* process may die; what that leaves without its run is orphaned.                 *)

Lowered(r) == /\ truncated => r.confidence = "low"
              /\ injected /\ r.bucket = "substantial" => r.confidence = "low"

PipelineRun == [pc : {"idle", "asked", "stored"}, judge : Review \cup {FailedReview, NoReview},
                cross : Review \cup {NoReview}]

VerdictTypes ==
  /\ truncated \in BOOLEAN /\ injected \in BOOLEAN /\ orphaned \in BOOLEAN /\ needsReview \in BOOLEAN
  /\ pipeline \in [Judging -> PipelineRun]

Stored == \A k \in Judging : pipeline[k].pc = "stored" /\ evidenceOf = k
                              => judge = pipeline[k].judge /\ crossCheck = pipeline[k].cross

UnderWay == \A k \in Judging : pipeline[k].pc # "idle"
                                => /\ Lowered(pipeline[k].judge)
                                   /\ pipeline[k].judge \in Review \cup {FailedReview}

VerdictInv == VerdictTypes /\ Stored /\ UnderWay /\ ConfirmedByTwo

LEMMA OverridesLower ==
  ASSUME VerdictTypes, NEW r \in Review \cup {FailedReview}
  PROVE  /\ applyStructuralOverrides(r) \in Review \cup {FailedReview}
         /\ r \in Review => applyStructuralOverrides(r) \in Review
         /\ Lowered(applyStructuralOverrides(r))
<1>1. CASE truncated \/ (injected /\ r.bucket = "substantial")
  <2> DEFINE lowered == [r EXCEPT !.confidence = "low"]
  <2>1. applyStructuralOverrides(r) = lowered
    BY <1>1 DEF applyStructuralOverrides
  <2>2. ASSUME r \in Review  PROVE lowered \in Review /\ lowered.confidence = "low"
    BY <2>2 DEF Review
  <2>3. ASSUME r = FailedReview, r \notin Review
        PROVE  lowered = FailedReview /\ lowered.confidence = "low"
    <3>1. r \in [bucket : {""}, confidence : {"low"}]
      BY <2>3 DEF FailedReview
    <3>2. lowered = r /\ lowered.confidence = "low"
      BY <3>1
    <3> QED
      BY <2>3, <3>2
  <2>4. lowered.confidence = "low" /\ lowered \in Review \cup {FailedReview} /\ (r \in Review => lowered \in Review)
    BY <2>2, <2>3
  <2> QED
    BY <2>1, <2>4 DEF Lowered
<1>2. CASE ~(truncated \/ (injected /\ r.bucket = "substantial"))
  BY <1>2 DEF applyStructuralOverrides, Lowered
<1> QED
  BY <1>1, <1>2

\* Two confident reviews of the same bucket are the same review.
LEMMA AgreementIsEquality ==
  ASSUME NEW j \in Review \cup {FailedReview}, NEW c \in Review \cup {NoReview}, ~NeedsEscalation(j, c)
  PROVE  j = [bucket |-> j.bucket, confidence |-> "high"] /\ c = j
<1>1. /\ j.confidence # "low" /\ j.bucket # "" /\ c # NoReview /\ c.confidence # "low" /\ j.bucket = c.bucket
  BY DEF NeedsEscalation
<1>2. j \in Review /\ c \in Review
  <2>1. FailedReview.bucket = ""
    BY DEF FailedReview
  <2> QED
    BY <1>1, <2>1
<1>3. j = [bucket |-> j.bucket, confidence |-> "high"]
  BY <1>1, <1>2 DEF Review
<1>4. c = [bucket |-> j.bucket, confidence |-> "high"]
  BY <1>1, <1>2 DEF Review
<1> QED
  BY <1>3, <1>4

LEMMA RestingShape == Resting \in PipelineRun /\ Resting.pc = "idle"
BY DEF Resting, PipelineRun

LEMMA VerdictInit1 == VerdictInit => VerdictInv
<1> SUFFICES ASSUME VerdictInit PROVE VerdictInv
  OBVIOUS
<1>1. \A k \in Judging : pipeline[k] = Resting /\ pipeline[k].pc = "idle"
  BY RestingShape DEF VerdictInit
<1>2. VerdictTypes
  BY RestingShape DEF VerdictInit, VerdictTypes
<1>3. ConfirmedByTwo
  BY DEF VerdictInit, ConfirmedByTwo
<1> QED
  BY <1>1, <1>2, <1>3 DEF VerdictInv, Stored, UnderWay

\* A step that changes one run and no evidence keeps what is known of the runs.
LEMMA RunMoves ==
  ASSUME VerdictInv, NEW k \in Judging, NEW n \in PipelineRun, pipeline' = [pipeline EXCEPT ![k] = n],
         UNCHANGED <<judge, crossCheck, evidenceOf, truncated, injected>>,
         orphaned' \in BOOLEAN, needsReview' \in BOOLEAN, n.pc # "stored",
         n.pc # "idle" => Lowered(n.judge) /\ n.judge \in Review \cup {FailedReview}
  PROVE  VerdictTypes' /\ Stored' /\ UnderWay'
<1>1. \A i \in Judging : pipeline'[i] = IF i = k THEN n ELSE pipeline[i]
  BY DEF VerdictInv, VerdictTypes
<1>2. VerdictTypes'
  BY <1>1 DEF VerdictInv, VerdictTypes
<1> QED
  BY <1>1, <1>2 DEF VerdictInv, Stored, UnderWay, Lowered

LEMMA VerdictStep == ASSUME VerdictInv, VerdictNext PROVE VerdictInv'
<1> USE DEF VerdictInv, VerdictTypes, verdictInputs
<1>1. CASE SyncVerdictRow \/ \E result \in {"passing", "failing"} : ChecksReport(result)
  BY <1>1 DEF SyncVerdictRow, ChecksReport, Stored, UnderWay, ConfirmedByTwo, Lowered
<1>2. ASSUME NEW k \in Judging, NEW j \in Review \cup {FailedReview}, NEW c \in Review \cup {NoReview},
             AskReviewers(k, j, c)
      PROVE  VerdictInv'
  <2> DEFINE theirs == IF c = NoReview THEN NoReview ELSE applyStructuralOverrides(c)
             ours == applyStructuralOverrides(j)
             asked == [pc |-> "asked", judge |-> ours, cross |-> theirs]
  <2>1. ours \in Review \cup {FailedReview} /\ Lowered(ours)
    BY OverridesLower
  <2>2. theirs \in Review \cup {NoReview}
    BY OverridesLower
  <2>3. /\ pipeline' = [pipeline EXCEPT ![k] = asked] /\ pipeline[k].pc = "idle"
        /\ UNCHANGED <<truncated, injected, orphaned, needsReview, final, finalSource,
                       judge, crossCheck, evidenceOf>>
    BY <1>2 DEF AskReviewers
  <2> HIDE DEF theirs, ours
  <2>4. asked \in PipelineRun /\ asked.pc = "asked" /\ asked.judge = ours
    BY <2>1, <2>2 DEF PipelineRun
  <2> HIDE DEF asked
  <2>5. VerdictTypes' /\ Stored' /\ UnderWay'
    BY <2>1, <2>3, <2>4, RunMoves
  <2>6. \A i \in Judging : pipeline'[i].pc = "stored" <=> pipeline[i].pc = "stored"
    BY <2>3, <2>4
  <2>7. ConfirmedByTwo'
    BY <2>3, <2>6 DEF ConfirmedByTwo
  <2> QED
    BY <2>5, <2>7
<1>3. ASSUME NEW k \in Judging, persistStageVerdicts(k)  PROVE VerdictInv'
  <2> DEFINE n == [pipeline[k] EXCEPT !.pc = "stored"]
  <2>1. /\ pipeline' = [pipeline EXCEPT ![k] = n] /\ pipeline[k].pc = "asked"
        /\ judge' = pipeline[k].judge /\ crossCheck' = pipeline[k].cross /\ evidenceOf' = k
        /\ UNCHANGED <<truncated, injected, orphaned, needsReview, final, finalSource>>
    BY <1>3 DEF persistStageVerdicts
  <2>2. /\ n \in PipelineRun /\ n.pc = "stored" /\ n.judge = pipeline[k].judge
        /\ n.cross = pipeline[k].cross
    <3>1. pipeline[k] \in PipelineRun
      OBVIOUS
    <3> QED
      BY <3>1 DEF PipelineRun
  <2> HIDE DEF n
  <2>3. \A i \in Judging : pipeline'[i] = IF i = k THEN n ELSE pipeline[i]
    BY <2>1
  <2>4. VerdictTypes'
    BY <2>1, <2>2, <2>3
  <2>5. Stored'
    BY <2>1, <2>2, <2>3 DEF Stored
  <2>6. UnderWay'
    BY <2>1, <2>2, <2>3 DEF UnderWay, Lowered
  <2>7. ConfirmedByTwo'
    BY <2>1, <2>2, <2>3 DEF ConfirmedByTwo
  <2> QED
    BY <2>4, <2>5, <2>6, <2>7
<1>4. ASSUME NEW k \in Judging, SettleOrEscalate(k)  PROVE VerdictInv'
  <2>1. /\ pipeline' = [pipeline EXCEPT ![k] = Resting] /\ pipeline[k].pc = "stored"
        /\ orphaned' = (evidenceOf # k)
        /\ UNCHANGED <<truncated, injected, judge, crossCheck, evidenceOf>>
    BY <1>4 DEF SettleOrEscalate, Rests
  <2>2. needsReview' \in BOOLEAN
    BY <1>4 DEF SettleOrEscalate
  <2>3. VerdictTypes' /\ Stored' /\ UnderWay'
    BY <2>1, <2>2, RestingShape, RunMoves
  <2>4. ConfirmedByTwo'
    <3>1. CASE finalSource = "human_override"
      BY <1>4, <3>1 DEF SettleOrEscalate, ConfirmedByTwo
    <3>2. CASE finalSource # "human_override" /\ NeedsEscalation(pipeline[k].judge, pipeline[k].cross)
      BY <1>4, <2>1, <3>2 DEF SettleOrEscalate, ConfirmedByTwo
    <3>3. CASE finalSource # "human_override" /\ ~NeedsEscalation(pipeline[k].judge, pipeline[k].cross)
      <4> DEFINE ours == pipeline[k].judge
                 theirs == pipeline[k].cross
      <4>1. ours \in Review \cup {FailedReview} /\ theirs \in Review \cup {NoReview} /\ Lowered(ours)
        BY <2>1 DEF UnderWay, PipelineRun
      <4>2. evidenceOf = k => judge = ours /\ crossCheck = theirs
        BY <2>1 DEF Stored
      <4>3. final' = ours.bucket
        BY <1>4, <3>3 DEF SettleOrEscalate
      <4>4. ~NeedsEscalation(ours, theirs)
        BY <3>3
      <4> HIDE DEF ours, theirs
      <4>5. ours = [bucket |-> ours.bucket, confidence |-> "high"] /\ theirs = ours
        BY <4>1, <4>4, AgreementIsEquality
      <4>6. ~truncated /\ (injected => ours.bucket # "substantial")
        BY <4>1, <4>5 DEF Lowered
      <4> QED
        BY <2>1, <4>2, <4>3, <4>5, <4>6 DEF ConfirmedByTwo
    <3> QED
      BY <3>1, <3>2, <3>3
  <2> QED
    BY <2>3, <2>4
<1>5. ASSUME NEW k \in Judging, PipelineDies(k)  PROVE VerdictInv'
  <2>1. /\ pipeline' = [pipeline EXCEPT ![k] = Resting]
        /\ orphaned' = (orphaned \/ (pipeline[k].pc = "stored" /\ evidenceOf = k))
        /\ UNCHANGED <<truncated, injected, judge, crossCheck, evidenceOf, needsReview, final, finalSource>>
    BY <1>5 DEF PipelineDies, Rests
  <2>2. VerdictTypes' /\ Stored' /\ UnderWay'
    BY <2>1, RestingShape, RunMoves
  <2>3. \A i \in Judging \ {k} : pipeline'[i] = pipeline[i]
    BY <2>1
  <2>4. ConfirmedByTwo'
    BY <2>1, <2>3 DEF ConfirmedByTwo
  <2> QED
    BY <2>2, <2>4
<1>6. CASE \E b \in Bucket : OverrideVerdict(b)
  <2>1. /\ finalSource' = "human_override" /\ needsReview' = FALSE
        /\ UNCHANGED <<truncated, injected, orphaned, pipeline, judge, crossCheck, evidenceOf>>
    BY <1>6 DEF OverrideVerdict
  <2> QED
    BY <2>1 DEF Stored, UnderWay, ConfirmedByTwo, Lowered
<1> QED
  BY <1>1, <1>2, <1>3, <1>4, <1>5, <1>6 DEF VerdictNext

\* A bucket that stands by itself is never of a cut diff nor one an injection raised,
\* and is the one two stored, confident reviews give unless its evidence has lost
\* its run, however many runs write at once (judging_pipeline.go, judging_stages.go).
THEOREM AutoConfirmedIsEarned == VerdictSpec => []ConfirmedByTwo
<1>1. VerdictInv /\ UNCHANGED verdictVars => VerdictInv'
  BY DEF verdictVars, VerdictInv, VerdictTypes, Stored, UnderWay, ConfirmedByTwo, Lowered
<1>2. VerdictInv => ConfirmedByTwo
  BY DEF VerdictInv
<1> QED
  BY <1>1, <1>2, VerdictInit1, VerdictStep, PTL DEF VerdictSpec

\* A person's decision stands until a person decides again (judging_pipeline.go).
THEOREM DecisionStands == VerdictSpec => HumanBucketStands
<1>1. ASSUME [VerdictNext]_verdictVars, finalSource = "human_override"
      PROVE  final' = final \/ \E b \in Bucket : OverrideVerdict(b)
  BY <1>1 DEF VerdictNext, SyncVerdictRow, ChecksReport, AskReviewers, persistStageVerdicts,
              SettleOrEscalate, PipelineDies, verdictVars
<1> QED
  BY <1>1, PTL DEF VerdictSpec, HumanBucketStands

-----------------------------------------------------------------------------
(* Starts. One instance at a time is between taking the migration lock and       *)
(* giving it back; the version and its mark say which statement ran last, also   *)
(* after the holder of the lock died, so the next holder begins at the right one.*)

Place == Alive \cup {"off", "exited", "panicked", "unmigrated"}
Migrating == {"pending", "begun", "done"}

StartTypes ==
  /\ schema \in [version : Nat, dirty : BOOLEAN] /\ ran \in Seq(Nat) /\ lockedBy \in SUBSET Instance
  /\ instance \in [Instance -> [at : Place, next : Nat, nats : BOOLEAN]] /\ starts \in [Instance -> Nat]

OneMigrates ==
  /\ \A i \in Instance : instance[i].at \in Migrating <=> i \in lockedBy
  /\ \A i, j \in lockedBy : i = j

VersionTold ==
  /\ ~schema.dirty => schema.version = Len(ran)
  /\ schema.dirty => schema.version \in {Len(ran), Len(ran) + 1} /\ schema.version # 0

NextStatement ==
  \A i \in Instance :
    /\ instance[i].at = "pending" => /\ ~schema.dirty /\ instance[i].next = schema.version + 1
                                     /\ instance[i].next <= BuildOf[i]
    /\ instance[i].at = "begun" => /\ schema.dirty /\ instance[i].next = schema.version
                                   /\ schema.version = Len(ran) + 1 /\ instance[i].next <= BuildOf[i]
    /\ instance[i].at = "done" => /\ schema.dirty /\ instance[i].next = schema.version
                                  /\ schema.version = Len(ran) /\ instance[i].next <= BuildOf[i]

NoNatsInProduction ==
  \A i \in ProductionIs : instance[i].at \in Alive \cup {"unmigrated"} => ~instance[i].nats

StartInv ==
  StartTypes /\ OneMigrates /\ VersionTold /\ NextStatement /\ NoNatsInProduction /\ MigratedOnce /\ ServesItsSchema

\* The lock goes to the direct endpoint, where it holds everybody else off.
LEMMA LockHolds == LockFree <=> lockedBy = {}
BY StartAssumption DEF LockFree, ConnectionFor

LEMMA StartsFromNothing == StartInit => StartInv
BY StartAssumption DEF StartInit, StartInv, StartTypes, Place, Alive, Migrating, OneMigrates, VersionTold, NextStatement,
   NoNatsInProduction, MigratedOnce, ServesItsSchema

\* The steps that change neither the schema nor the lock, of an instance that does not
\* migrate before or after: only what it serves, and whether it may, is to be seen.
LEMMA WaitingStep ==
  ASSUME StartInv, NEW i \in Instance, NEW r \in [at : Place, next : Nat, nats : BOOLEAN],
         UNCHANGED <<schema, ran, lockedBy>>, instance' = [instance EXCEPT ![i] = r], starts' \in [Instance -> Nat],
         instance[i].at \notin Migrating, r.at \notin Migrating,
         r.at = "serving" => schema.version >= BuildOf[i] /\ ~schema.dirty,
         i \in ProductionIs => r.at \notin Alive \cup {"unmigrated"} \/ ~r.nats
  PROVE  StartInv'
<1> USE DEF StartInv
<1>1. /\ instance'[i] = r /\ \A j \in Instance \ {i} : instance'[j] = instance[j]
      /\ instance' \in [Instance -> [at : Place, next : Nat, nats : BOOLEAN]]
  BY DEF StartTypes
<1>2. StartTypes' /\ VersionTold' /\ MigratedOnce'
  BY <1>1 DEF StartTypes, VersionTold, MigratedOnce
<1>3. OneMigrates'
  BY <1>1 DEF OneMigrates
<1>4. NextStatement'
  BY <1>1 DEF NextStatement, Migrating
<1>5. NoNatsInProduction'
  BY <1>1, StartAssumption DEF NoNatsInProduction
<1>6. ServesItsSchema'
  BY <1>1 DEF ServesItsSchema
<1> QED
  BY <1>2, <1>3, <1>4, <1>5, <1>6

\* What the steps of the instance that takes, holds or gives back the lock do.
HolderMoves(i, r) ==
  /\ i \in lockedBy \/ lockedBy = {}
  /\ instance[i].at \in Alive \cup {"unmigrated"} /\ r.nats = instance[i].nats
  /\ instance' = [instance EXCEPT ![i] = r] /\ starts' = starts
  /\ schema' \in [version : Nat, dirty : BOOLEAN] /\ ran' \in Seq(Nat)
  /\ lockedBy' = IF r.at \in Migrating THEN lockedBy \cup {i} ELSE lockedBy \ {i}
  /\ schema'.version >= schema.version
  /\ schema'.version = schema.version => (schema'.dirty => schema.dirty)
  /\ r.at = "serving" => (schema'.version >= BuildOf[i] /\ ~schema'.dirty)
  /\ VersionTold' /\ MigratedOnce'
  /\ r.at \in Migrating => r.next <= BuildOf[i]
  /\ r.at = "pending" => (~schema'.dirty /\ r.next = schema'.version + 1)
  /\ r.at = "begun" => (schema'.dirty /\ r.next = schema'.version /\ schema'.version = Len(ran') + 1)
  /\ r.at = "done" => (schema'.dirty /\ r.next = schema'.version /\ schema'.version = Len(ran'))

LEMMA HolderStep ==
  ASSUME StartInv, NEW i \in Instance, NEW r \in [at : Place, next : Nat, nats : BOOLEAN], HolderMoves(i, r)
  PROVE  StartInv'
<1> USE DEF StartInv, HolderMoves
<1>1. /\ instance'[i] = r /\ \A j \in Instance \ {i} : instance'[j] = instance[j]
      /\ instance' \in [Instance -> [at : Place, next : Nat, nats : BOOLEAN]]
  BY DEF StartTypes
<1>2. \A j \in Instance \ {i} : instance[j].at \notin Migrating
  BY DEF OneMigrates
<1>3. StartTypes'
  BY <1>1 DEF StartTypes
<1>4. OneMigrates'
  BY <1>1, <1>2 DEF OneMigrates
<1>5. NextStatement'
  BY <1>1, <1>2 DEF NextStatement, Migrating
<1>6. NoNatsInProduction'
  BY <1>1, StartAssumption DEF NoNatsInProduction
<1>7. ServesItsSchema'
  <2> SUFFICES ASSUME NEW j \in Instance, instance'[j].at = "serving"
               PROVE  schema'.version >= BuildOf[j] /\ (schema'.version = BuildOf[j] => ~schema'.dirty)
    BY DEF ServesItsSchema
  <2>1. CASE j = i
    BY <1>1, <2>1
  <2>2. CASE j # i
    <3>1. schema.version >= BuildOf[j] /\ (schema.version = BuildOf[j] => ~schema.dirty)
      BY <1>1, <2>2 DEF ServesItsSchema
    <3>2. schema.version \in Nat /\ schema'.version \in Nat /\ BuildOf[j] \in Nat
      BY StartAssumption DEF StartTypes
    <3> QED
      BY <3>1, <3>2
  <2> QED
    BY <2>1, <2>2
<1> QED
  BY <1>3, <1>4, <1>5, <1>6, <1>7

LEMMA StartStep == ASSUME StartInv, StartNext PROVE StartInv'
<1> USE DEF StartInv, Reaches
<1>0. /\ StartTypes /\ \A j \in Instance : BuildOf[j] \in Nat \ {0}
      /\ \A j \in Instance : instance[j] \in [at : Place, next : Nat, nats : BOOLEAN]
  BY StartAssumption DEF StartTypes
<1>1. ASSUME NEW i \in Instance, Boot(i)  PROVE StartInv'
  <2>1. PICK complete, nats, database, autoMigrate \in BOOLEAN :
          instance' = [instance EXCEPT ![i] = [instance[i] EXCEPT !.nats = nats, !.at =
                         IF ~Gate(i, complete, nats, database) THEN "exited"
                         ELSE IF ~database THEN "panicked"
                         ELSE IF autoMigrate THEN "started" ELSE "unmigrated"]]
    BY <1>1 DEF Boot
  <2> DEFINE at == IF ~Gate(i, complete, nats, database) THEN "exited"
                   ELSE IF ~database THEN "panicked"
                   ELSE IF autoMigrate THEN "started" ELSE "unmigrated"
             r == [instance[i] EXCEPT !.nats = nats, !.at = at]
  <2>2. at \in {"exited", "panicked", "started", "unmigrated"}
    OBVIOUS
  <2>3. i \in ProductionIs => at = "exited" \/ ~nats
    BY DEF Gate
  <2> HIDE DEF at
  <2>4. r \in [at : Place, next : Nat, nats : BOOLEAN] /\ r.at = at /\ r.nats = nats
    BY <1>0, <2>2 DEF Place, Alive
  <2>5. instance' = [instance EXCEPT ![i] = r]
    BY <2>1 DEF at
  <2>6. starts' \in [Instance -> Nat] /\ UNCHANGED <<schema, ran, lockedBy>> /\ instance[i].at \in {"off", "exited"}
    BY <1>0, <1>1 DEF Boot, StartTypes
  <2> HIDE DEF r
  <2> QED
    BY <2>2, <2>3, <2>4, <2>5, <2>6, WaitingStep DEF Migrating, Alive
<1>2. ASSUME NEW i \in Instance, CheckSchema(i) \/ CreateDriver(i) \/ GiveUpWaiting(i)  PROVE StartInv'
  <2>1. PICK at \in {"driver", "migrator", "exited", "serving"} :
          /\ instance' = [instance EXCEPT ![i].at = at]
          /\ at = "serving" => schema.version >= BuildOf[i] /\ ~schema.dirty
    <3>1. CASE CheckSchema(i)
      <4>1. PICK readable \in BOOLEAN :
              instance' = [instance EXCEPT ![i].at = IF NeedsMigration(i, readable) THEN "driver" ELSE "serving"]
        BY <3>1 DEF CheckSchema
      <4>2. CASE NeedsMigration(i, readable)
        BY <4>1, <4>2
      <4>3. CASE ~NeedsMigration(i, readable)
        <5>1. ~schema.dirty /\ schema.version >= BuildOf[i]
          BY <1>0, <4>3 DEF NeedsMigration, StartTypes
        <5> QED
          BY <4>1, <4>3, <5>1
      <4> QED
        BY <4>2, <4>3
    <3>2. CASE CreateDriver(i)
      BY <3>2 DEF CreateDriver
    <3>3. CASE GiveUpWaiting(i)
      BY <3>3 DEF GiveUpWaiting
    <3> QED
      BY <1>2, <3>1, <3>2, <3>3
  <2>2. /\ UNCHANGED <<schema, ran, lockedBy, starts>>
        /\ instance[i].at \in {"started", "driver", "migrator"}
    BY <1>2 DEF CheckSchema, CreateDriver, GiveUpWaiting
  <2> DEFINE r == [instance[i] EXCEPT !.at = at]
  <2>3. /\ r \in [at : Place, next : Nat, nats : BOOLEAN] /\ r.at = at /\ r.nats = instance[i].nats
        /\ instance' = [instance EXCEPT ![i] = r]
    BY <1>0, <2>1 DEF Place, Alive
  <2>4. i \in ProductionIs => ~r.nats
    BY <2>2, <2>3 DEF NoNatsInProduction, Alive
  <2>5. starts' \in [Instance -> Nat]
    BY <2>2 DEF StartTypes
  <2> HIDE DEF r
  <2> QED
    BY <2>1, <2>2, <2>3, <2>4, <2>5, WaitingStep DEF Migrating
<1>3. ASSUME NEW i \in Instance, RunUp(i)  PROVE StartInv'
  <2>1. lockedBy = {} /\ instance[i].at = "migrator" /\ UNCHANGED <<schema, ran, starts>>
    BY <1>3, LockHolds DEF RunUp
  <2>2. CASE schema.dirty \/ schema.version > BuildOf[i] \/ schema.version = BuildOf[i]
    <3>1. PICK at \in {"exited", "serving"} :
            /\ instance' = [instance EXCEPT ![i].at = at] /\ UNCHANGED lockedBy
            /\ at = "serving" => schema.version >= BuildOf[i] /\ ~schema.dirty
      BY <1>0, <1>3, <2>2 DEF RunUp
    <3> DEFINE r == [instance[i] EXCEPT !.at = at]
    <3>2. /\ r \in [at : Place, next : Nat, nats : BOOLEAN] /\ r.at = at /\ r.nats = instance[i].nats
          /\ instance' = [instance EXCEPT ![i] = r]
      BY <1>0, <3>1 DEF Place, Alive
    <3>3. i \in ProductionIs => ~r.nats
      BY <2>1, <3>2 DEF NoNatsInProduction, Alive
    <3>4. starts' \in [Instance -> Nat]
      BY <2>1 DEF StartTypes
    <3> HIDE DEF r
    <3> QED
      BY <2>1, <3>1, <3>2, <3>3, <3>4, WaitingStep DEF Migrating
  <2>3. CASE ~(schema.dirty \/ schema.version > BuildOf[i] \/ schema.version = BuildOf[i])
    <3>1. /\ instance' = [instance EXCEPT ![i].at = "pending", ![i].next = schema.version + 1]
          /\ lockedBy' = lockedBy \cup {i}
      BY <1>3, <2>3 DEF RunUp
    <3> DEFINE r == [instance[i] EXCEPT !.at = "pending", !.next = schema.version + 1]
    <3>0. schema.version \in Nat /\ schema.version + 1 \in Nat
      BY <1>0 DEF StartTypes
    <3>2. /\ r \in [at : Place, next : Nat, nats : BOOLEAN] /\ r.at = "pending" /\ r.nats = instance[i].nats
          /\ r.next = schema.version + 1
      BY <1>0, <3>0 DEF Place, Alive
    <3>6. instance' = [instance EXCEPT ![i] = r]
      BY <1>0, <3>1 DEF StartTypes
    <3>3. r.next <= BuildOf[i] /\ ~schema.dirty
      BY <1>0, <2>3, <3>2 DEF StartTypes
    <3>7. lockedBy' = IF r.at \in Migrating THEN lockedBy \cup {i} ELSE lockedBy \ {i}
      BY <3>1, <3>2 DEF Migrating
    <3>4. schema' \in [version : Nat, dirty : BOOLEAN] /\ ran' \in Seq(Nat) /\ VersionTold' /\ MigratedOnce'
      BY <2>1 DEF StartTypes, VersionTold, MigratedOnce
    <3>5. schema' = schema /\ schema.version \in Nat
      BY <2>1 DEF StartTypes
    <3> HIDE DEF r
    <3> QED
      <4>1. HolderMoves(i, r)
        BY <2>1, <3>2, <3>3, <3>4, <3>5, <3>6, <3>7 DEF HolderMoves, Alive
      <4> QED
        BY <3>2, <4>1, HolderStep
  <2> QED
    BY <2>2, <2>3
<1>4. ASSUME NEW i \in Instance, BeginMigration(i)  PROVE StartInv'
  <2> DEFINE r == [instance[i] EXCEPT !.at = "begun"]
  <2>1. /\ instance[i].at = "pending" /\ i \in lockedBy /\ UNCHANGED <<ran, lockedBy, starts>>
        /\ ~schema.dirty /\ instance[i].next = schema.version + 1 /\ instance[i].next <= BuildOf[i]
        /\ schema.version = Len(ran) /\ schema.version \in Nat /\ Len(ran) \in Nat
    BY <1>4 DEF BeginMigration, OneMigrates, Migrating, NextStatement, VersionTold, StartTypes
  <2>2. schema' = [version |-> instance[i].next, dirty |-> TRUE]
    BY <1>4 DEF BeginMigration
  <2>3. /\ r \in [at : Place, next : Nat, nats : BOOLEAN] /\ r.at = "begun" /\ r.nats = instance[i].nats
        /\ r.next = instance[i].next /\ instance' = [instance EXCEPT ![i] = r]
    BY <1>0, <1>4 DEF BeginMigration, Place, Alive
  <2>4. schema' \in [version : Nat, dirty : BOOLEAN] /\ schema'.version = schema.version + 1 /\ schema'.dirty
    BY <2>1, <2>2
  <2>5. ran' \in Seq(Nat) /\ VersionTold' /\ MigratedOnce'
    BY <2>1, <2>4 DEF StartTypes, VersionTold, MigratedOnce
  <2>9. /\ lockedBy' = IF r.at \in Migrating THEN lockedBy \cup {i} ELSE lockedBy \ {i}
        /\ instance[i].at \in Alive \cup {"unmigrated"}
    BY <2>1, <2>3 DEF Migrating, Alive
  <2> HIDE DEF r
  <2> QED
    <3>2. /\ r.at \notin {"serving", "pending", "done"} /\ r.next <= BuildOf[i] /\ r.next = schema'.version
          /\ schema'.dirty /\ schema'.version >= schema.version
      BY <2>1, <2>3, <2>4
    <3>3. schema'.version = Len(ran') + 1
      BY <2>1, <2>4
    <3>4. schema'.version = schema.version => (schema'.dirty => schema.dirty)
      BY <2>1, <2>4
    <3>1. HolderMoves(i, r)
      BY <2>1, <2>3, <2>4, <2>5, <2>9, <3>2, <3>3, <3>4 DEF HolderMoves
    <3> QED
      BY <2>3, <3>1, HolderStep
<1>5. ASSUME NEW i \in Instance, RunStatements(i)  PROVE StartInv'
  <2> DEFINE r == [instance[i] EXCEPT !.at = "done"]
  <2>1. /\ instance[i].at = "begun" /\ i \in lockedBy /\ UNCHANGED <<schema, lockedBy, starts>>
        /\ schema.dirty /\ instance[i].next = schema.version /\ instance[i].next <= BuildOf[i]
        /\ schema.version = Len(ran) + 1 /\ schema.version \in Nat /\ Len(ran) \in Nat
    BY <1>5 DEF RunStatements, OneMigrates, Migrating, NextStatement, StartTypes
  <2>2. ran' = Append(ran, Len(ran) + 1)
    BY <1>5, <2>1 DEF RunStatements
  <2>3. /\ r \in [at : Place, next : Nat, nats : BOOLEAN] /\ r.at = "done" /\ r.nats = instance[i].nats
        /\ r.next = instance[i].next /\ instance' = [instance EXCEPT ![i] = r]
    BY <1>0, <1>5 DEF RunStatements, Place, Alive
  <2>4. ran' \in Seq(Nat) /\ Len(ran') = Len(ran) + 1 /\ MigratedOnce'
    BY <2>1, <2>2 DEF StartTypes, MigratedOnce
  <2>5. schema' \in [version : Nat, dirty : BOOLEAN] /\ schema' = schema
    BY <2>1 DEF StartTypes
  <2>6. VersionTold'
    BY <2>1, <2>4, <2>5 DEF VersionTold
  <2>9. /\ lockedBy' = IF r.at \in Migrating THEN lockedBy \cup {i} ELSE lockedBy \ {i}
        /\ instance[i].at \in Alive \cup {"unmigrated"}
    BY <2>1, <2>3 DEF Migrating, Alive
  <2> HIDE DEF r
  <2> QED
    <3>2. /\ r.at \notin {"serving", "pending", "begun"} /\ r.next <= BuildOf[i] /\ r.next = schema'.version
          /\ schema'.dirty /\ schema'.version >= schema.version
      BY <2>1, <2>3, <2>4, <2>5
    <3>3. schema'.version = Len(ran')
      BY <2>1, <2>4, <2>5
    <3>4. schema'.version = schema.version => (schema'.dirty => schema.dirty)
      BY <2>1, <2>4, <2>5
    <3>1. HolderMoves(i, r)
      BY <2>1, <2>3, <2>4, <2>5, <2>9, <3>2, <3>3, <3>4, <2>6 DEF HolderMoves
    <3> QED
      BY <2>3, <3>1, HolderStep
<1>6. ASSUME NEW i \in Instance, FailUp(i) \/ (ShutDown(i) /\ i \in lockedBy)  PROVE StartInv'
  <2> DEFINE r == [instance[i] EXCEPT !.at = "exited"]
  <2>1. /\ instance[i].at \in Alive \cup {"unmigrated"} /\ i \in lockedBy /\ UNCHANGED <<schema, ran, starts>>
        /\ lockedBy' = lockedBy \ {i}
    BY <1>6 DEF FailUp, ShutDown, OneMigrates, Migrating, Alive
  <2>2. /\ r \in [at : Place, next : Nat, nats : BOOLEAN] /\ r.at = "exited" /\ r.nats = instance[i].nats
        /\ instance' = [instance EXCEPT ![i] = r]
    BY <1>0, <1>6 DEF FailUp, ShutDown, Place
  <2>3. /\ schema' \in [version : Nat, dirty : BOOLEAN] /\ ran' \in Seq(Nat) /\ VersionTold' /\ MigratedOnce'
        /\ schema' = schema /\ schema.version \in Nat
    BY <2>1 DEF StartTypes, VersionTold, MigratedOnce
  <2>9. /\ lockedBy' = IF r.at \in Migrating THEN lockedBy \cup {i} ELSE lockedBy \ {i}
        /\ instance[i].at \in Alive \cup {"unmigrated"}
    BY <2>1, <2>2 DEF Migrating, Alive
  <2> HIDE DEF r
  <2> QED
    <3>1. HolderMoves(i, r)
      BY <2>1, <2>2, <2>3, <2>9 DEF HolderMoves
    <3> QED
      BY <2>2, <3>1, HolderStep
<1>7. ASSUME NEW i \in Instance, FinishMigration(i)  PROVE StartInv'
  <2>1. /\ instance[i].at = "done" /\ i \in lockedBy /\ UNCHANGED <<ran, starts>>
        /\ schema.dirty /\ instance[i].next = schema.version /\ instance[i].next <= BuildOf[i]
        /\ schema.version = Len(ran) /\ schema.version \in Nat /\ Len(ran) \in Nat
    BY <1>7 DEF FinishMigration, OneMigrates, Migrating, NextStatement, StartTypes
  <2>2. /\ schema' \in [version : Nat, dirty : BOOLEAN] /\ schema'.version = schema.version /\ ~schema'.dirty
        /\ ran' \in Seq(Nat)
    BY <1>7, <2>1 DEF FinishMigration, StartTypes
  <2>3. VersionTold' /\ MigratedOnce'
    BY <2>1, <2>2 DEF VersionTold, MigratedOnce
  <2>4. CASE instance[i].next = BuildOf[i]
    <3> DEFINE r == [instance[i] EXCEPT !.at = "serving"]
    <3>1. /\ r \in [at : Place, next : Nat, nats : BOOLEAN] /\ r.at = "serving" /\ r.nats = instance[i].nats
          /\ instance' = [instance EXCEPT ![i] = r] /\ lockedBy' = lockedBy \ {i}
      BY <1>0, <1>7, <2>4 DEF FinishMigration, Place, Alive
    <3> HIDE DEF r
    <3> QED
      <4>1. HolderMoves(i, r)
        BY <2>1, <2>2, <2>3, <2>4, <3>1 DEF HolderMoves, Migrating, Alive
      <4> QED
        BY <3>1, <4>1, HolderStep
  <2>5. CASE instance[i].next # BuildOf[i]
    <3> DEFINE r == [instance[i] EXCEPT !.at = "pending", !.next = instance[i].next + 1]
    <3>1. /\ instance' = [instance EXCEPT ![i].at = "pending", ![i].next = instance[i].next + 1]
          /\ UNCHANGED lockedBy
      BY <1>7, <2>5 DEF FinishMigration
    <3>0. instance[i].next \in Nat /\ instance[i].next + 1 \in Nat
      BY <1>0
    <3>2. /\ r \in [at : Place, next : Nat, nats : BOOLEAN] /\ r.at = "pending" /\ r.nats = instance[i].nats
          /\ r.next = instance[i].next + 1
      BY <1>0, <3>0 DEF Place, Alive
    <3>3. instance' = [instance EXCEPT ![i] = r] /\ lockedBy' = lockedBy \cup {i}
      BY <1>0, <2>1, <3>1 DEF StartTypes
    <3>4. r.next <= BuildOf[i] /\ r.next = schema'.version + 1
      BY <1>0, <2>1, <2>2, <2>5, <3>2
    <3> HIDE DEF r
    <3> QED
      <4>1. lockedBy' = IF r.at \in Migrating THEN lockedBy \cup {i} ELSE lockedBy \ {i}
        BY <3>2, <3>3 DEF Migrating
      <4> QED
        <5>1. HolderMoves(i, r)
          BY <2>1, <2>2, <2>3, <3>2, <3>3, <3>4, <4>1 DEF HolderMoves, Alive
        <5> QED
          BY <3>2, <5>1, HolderStep
  <2> QED
    BY <2>4, <2>5
<1>8. ASSUME NEW i \in Instance, ShutDown(i), i \notin lockedBy  PROVE StartInv'
  <2> DEFINE r == [instance[i] EXCEPT !.at = "exited"]
  <2>1. /\ UNCHANGED <<schema, ran, lockedBy, starts>> /\ instance[i].at \notin Migrating
    BY <1>8 DEF ShutDown, OneMigrates
  <2>2. /\ r \in [at : Place, next : Nat, nats : BOOLEAN] /\ r.at = "exited"
        /\ instance' = [instance EXCEPT ![i] = r]
    BY <1>0, <1>8 DEF ShutDown, Place
  <2>3. starts' \in [Instance -> Nat]
    BY <2>1 DEF StartTypes
  <2> HIDE DEF r
  <2> QED
    BY <2>1, <2>2, <2>3, WaitingStep DEF Migrating, Alive
<1>9. CASE ForceVersion
  <2>1. /\ schema.dirty /\ lockedBy = {} /\ UNCHANGED <<ran, lockedBy, instance, starts>>
        /\ schema.version \in Nat /\ Len(ran) \in Nat
    BY <1>9 DEF ForceVersion, StartTypes
  <2>2. (\E k \in DOMAIN ran : ran[k] = schema.version) <=> schema.version = Len(ran)
    <3>1. ran \in Seq(Nat) /\ DOMAIN ran = 1..Len(ran) /\ \A k \in DOMAIN ran : ran[k] = k
      BY DEF StartTypes, MigratedOnce
    <3>2. schema.version \in {Len(ran), Len(ran) + 1} /\ schema.version # 0
      BY <2>1 DEF VersionTold
    <3>3. CASE schema.version = Len(ran)
      <4>1. schema.version \in DOMAIN ran /\ ran[schema.version] = schema.version
        BY <2>1, <3>1, <3>2, <3>3
      <4> QED
        BY <3>3, <4>1
    <3>4. CASE schema.version = Len(ran) + 1
      <4>1. \A k \in DOMAIN ran : ran[k] # schema.version
        BY <2>1, <3>1, <3>4
      <4> QED
        BY <2>1, <3>4, <4>1
    <3> QED
      BY <3>2, <3>3, <3>4
  <2>3. /\ schema' \in [version : Nat, dirty : BOOLEAN] /\ ~schema'.dirty /\ schema'.version = Len(ran)
        /\ schema'.version >= schema.version - 1
    BY <1>9, <2>1, <2>2 DEF ForceVersion, VersionTold
  <2>4. \A j \in Instance : instance[j].at \notin Migrating
    BY <2>1 DEF OneMigrates
  <2>5. ServesItsSchema'
    <3> SUFFICES ASSUME NEW j \in Instance, instance[j].at = "serving"  PROVE schema'.version >= BuildOf[j]
      BY <2>1, <2>3 DEF ServesItsSchema
    <3>1. schema.version >= BuildOf[j] /\ schema.version # BuildOf[j] /\ BuildOf[j] \in Nat
      BY <1>0, <2>1 DEF ServesItsSchema
    <3> QED
      BY <2>1, <2>3, <3>1
  <2>6. StartTypes' /\ OneMigrates' /\ VersionTold' /\ NoNatsInProduction' /\ MigratedOnce'
    BY <2>1, <2>3 DEF StartTypes, OneMigrates, VersionTold, NoNatsInProduction, MigratedOnce
  <2>7. NextStatement'
    BY <2>1, <2>4 DEF NextStatement, Migrating
  <2> QED
    BY <2>5, <2>6, <2>7
<1> QED
  BY <1>1, <1>2, <1>3, <1>4, <1>5, <1>6, <1>7, <1>8, <1>9 DEF StartNext, InstanceSteps

\* Every migration runs once and in order, what serves has the schema of its build, and
\* in production the loops run with it, whatever starts or dies together (migrate.go, main.go).
THEOREM StartsAreSound == StartSpec => []StartsSound
<1>1. StartInv /\ UNCHANGED startVars => StartInv'
  BY DEF startVars, StartInv, StartTypes, OneMigrates, VersionTold, NextStatement, NoNatsInProduction,
         MigratedOnce, ServesItsSchema
<1>2. StartInv => StartsSound
  BY DEF StartInv, StartsSound, NoNatsInProduction, BackgroundRuns, RunsLoops, Alive
<1> QED
  BY <1>1, <1>2, StartsFromNothing, StartStep, PTL DEF StartSpec

-----------------------------------------------------------------------------
(* The mirror of a pull request settles.                                          *)

Snapshot == [state : {"absent", "open", "closed"}, merged : BOOLEAN]
Event == {"pull_request", "pull_request_review", "push"}
Taken == [pc : {"idle", "upsert", "enqueue"}, event : Event \cup {"none"}, pr : Snapshot, wasMerged : BOOLEAN]

Listing == [pc : {"idle", "list", "write"}, pr : Snapshot]

\* What a process has in hand.
InHand(taken) ==
  /\ taken.pc = "idle" => taken = NoDelivery
  /\ taken.pc = "upsert" => taken.event \in {"pull_request", "pull_request_review"}

SnapshotTypes ==
  /\ gitHubPR \in Snapshot /\ mirror \in Snapshot /\ {syncRun, strayRun} \subseteq Listing
  /\ ingest \in [Ingestor -> Taken] /\ deliveries \subseteq Event \X Snapshot
  /\ \A k \in Ingestor : InHand(ingest[k])

\* A merge is final: nothing that was read says merged before GitHub does.
MergesAreFinal ==
  /\ mirror.merged => gitHubPR.merged
  /\ syncRun.pr.merged => gitHubPR.merged
  /\ strayRun.pr.merged => gitHubPR.merged
  /\ \A k \in Ingestor : ingest[k].pr.merged => gitHubPR.merged
  /\ \A d \in deliveries : d[2].merged => gitHubPR.merged

\* Somebody will read the repository again, after what happened last.
WillBeRead ==
  \/ syncPending
  \/ \E d \in deliveries : d[1] = "pull_request"
  \/ \E k \in Ingestor : ingest[k].event = "pull_request"

MirrorInv ==
  /\ SnapshotTypes /\ MergesAreFinal
  /\ missed \/ WillBeRead \/ syncRun.pc \in {"list", "write"} \/ lastWrite \in {"review", "stray", "failed"} \/ mirror = gitHubPR
  /\ missed \/ WillBeRead \/ (syncRun.pc = "write" => syncRun.pr = gitHubPR)

LEMMA MirrorBegins == RepositoryInit => MirrorInv
BY DEF RepositoryInit, MirrorInv, SnapshotTypes, MergesAreFinal, WillBeRead, Snapshot, InHand, Taken, Opened, Absent,
   NoDelivery, NoSync, Listing

\* A process takes a delivery, writes its snapshot, enqueues, or forgets it.
LEMMA IngestMoves ==
  ASSUME NEW k \in Ingestor, NEW r \in Taken, SnapshotTypes, MergesAreFinal, r.pr.merged => gitHubPR.merged,
         InHand(r), ingest' = [ingest EXCEPT ![k] = r], deliveries' \subseteq deliveries,
         mirror' \in {mirror, ingest[k].pr}, UNCHANGED <<gitHubPR, syncRun, strayRun>>
  PROVE  /\ SnapshotTypes' /\ MergesAreFinal'
         /\ ingest'[k] = r /\ \A j \in Ingestor \ {k} : ingest'[j] = ingest[j]
<1>1. ingest'[k] = r /\ \A j \in Ingestor \ {k} : ingest'[j] = ingest[j]
  BY DEF SnapshotTypes
<1>2. ingest' \in [Ingestor -> Taken] /\ mirror' \in Snapshot
  BY DEF SnapshotTypes, Taken
<1>3. \A j \in Ingestor : InHand(ingest'[j])
  BY <1>1 DEF SnapshotTypes
<1>4. SnapshotTypes'
  BY <1>2, <1>3 DEF SnapshotTypes
<1>5. \A j \in Ingestor : ingest'[j].pr.merged => gitHubPR'.merged
  BY <1>1 DEF MergesAreFinal
<1>6. MergesAreFinal'
  BY <1>5 DEF MergesAreFinal
<1> QED
  BY <1>1, <1>4, <1>6

LEMMA NothingTaken == NoDelivery \in Taken /\ InHand(NoDelivery) /\ ~NoDelivery.pr.merged /\ NoDelivery.pc = "idle" /\ NoDelivery.event = "none"
BY DEF NoDelivery, InHand, Taken, Absent, Snapshot, Event

LEMMA NothingListed == NoSync \in Listing /\ ~NoSync.pr.merged /\ NoSync.pc = "idle"
BY DEF NoSync, Absent, Snapshot, Listing

\* What a listing writes: the snapshot, but a merge stays.
LEMMA ListingWritten ==
  ASSUME SnapshotTypes, MergesAreFinal, NEW pr \in Snapshot, Listed(pr)
  PROVE  /\ mirror' \in Snapshot /\ mirror'.merged = (mirror.merged \/ pr.merged)
         /\ pr = gitHubPR => mirror' = gitHubPR
<1>1. gitHubPR \in Snapshot /\ mirror.merged \in BOOLEAN /\ mirror \in Snapshot
  BY DEF SnapshotTypes, Snapshot
<1>2. mirror' = [pr EXCEPT !.merged = mirror.merged \/ pr.merged]
  BY DEF Listed
<1>3. mirror' \in Snapshot /\ mirror'.merged = (mirror.merged \/ pr.merged)
  BY <1>1, <1>2 DEF Snapshot
<1>4. ASSUME pr = gitHubPR  PROVE mirror' = gitHubPR
  <2>1. mirror.merged => gitHubPR.merged
    BY DEF MergesAreFinal
  <2>2. (mirror.merged \/ pr.merged) = gitHubPR.merged
    BY <1>1, <1>4, <2>1 DEF Snapshot
  <2>3. mirror' = [gitHubPR EXCEPT !.merged = gitHubPR.merged]
    BY <1>2, <1>4, <2>2
  <2> QED
    BY <1>1, <2>3 DEF Snapshot
<1> QED
  BY <1>3, <1>4

LEMMA MirrorStep == ASSUME MirrorInv, [MirrorNext \/ ProjectNext]_repositoryVars PROVE MirrorInv'
<1>0. SnapshotTypes /\ MergesAreFinal
  BY DEF MirrorInv
<1>1. ASSUME NEW next \in [state : {"open", "closed"}, merged : BOOLEAN], ChangePR(next)  PROVE MirrorInv'
  <2>1. /\ gitHubPR' = next /\ ~gitHubPR.merged /\ deliveries' = deliveries \cup {<<"pull_request", next>>}
        /\ UNCHANGED <<mirror, ingest, missed, lastWrite, syncPending, syncRun, strayRun>> /\ next \in Snapshot
    BY <1>1 DEF ChangePR, SyncStands, Snapshot
  <2>2. WillBeRead'
    <3>1. <<"pull_request", next>> \in deliveries' /\ <<"pull_request", next>>[1] = "pull_request"
      BY <2>1
    <3> QED
      BY <3>1 DEF WillBeRead
  <2>3. SnapshotTypes'
    BY <1>0, <2>1 DEF SnapshotTypes, Event
  <2>4. MergesAreFinal'
    BY <1>0, <2>1 DEF SnapshotTypes, MergesAreFinal
  <2> QED
    BY <2>2, <2>3, <2>4 DEF MirrorInv
<1>2. ASSUME NEW event \in {"pull_request_review", "push"}, OtherEvent(event)  PROVE MirrorInv'
  <2>1. /\ deliveries' = deliveries \cup {<<event, gitHubPR>>}
        /\ UNCHANGED <<gitHubPR, mirror, ingest, missed, lastWrite, syncPending, syncRun, strayRun>>
    BY <1>2 DEF OtherEvent, SyncStands
  <2>2. SnapshotTypes' /\ MergesAreFinal'
    BY <1>0, <2>1 DEF SnapshotTypes, MergesAreFinal, Event
  <2>3. WillBeRead => WillBeRead'
    BY <2>1 DEF WillBeRead
  <2> QED
    BY <2>1, <2>2, <2>3 DEF MirrorInv
<1>3. ASSUME NEW d \in deliveries, DeliveryIsLost(d)  PROVE MirrorInv'
  BY <1>0, <1>3 DEF DeliveryIsLost, GitHubStands, SyncStands, SnapshotTypes, MergesAreFinal, MirrorInv
<1>4. ASSUME NEW d \in deliveries, NEW k \in Ingestor, Ingest(k, d)  PROVE MirrorInv'
  <2> DEFINE r == IF d[1] = "push" THEN [NoDelivery EXCEPT !.pc = "enqueue", !.event = "push"]
                  ELSE [pc |-> "upsert", event |-> d[1], pr |-> d[2], wasMerged |-> mirror.merged]
  <2>1. /\ ingest' = [ingest EXCEPT ![k] = r] /\ deliveries' = deliveries \ {d} /\ ingest[k].pc = "idle"
        /\ UNCHANGED <<gitHubPR, mirror, missed, lastWrite, syncPending, syncRun, strayRun>>
    BY <1>4 DEF Ingest, GitHubStands, SyncStands
  <2>3. d[1] \in Event /\ d[2] \in Snapshot
    BY <1>0 DEF SnapshotTypes
  <2>4. /\ r \in Taken /\ r.pc # "idle"
        /\ d[1] = "pull_request" => r.event = "pull_request"
        /\ InHand(r)
    BY <1>0, <2>3, NothingTaken DEF SnapshotTypes, InHand, Taken, Snapshot, Event, NoDelivery
  <2>5. r.pr.merged => gitHubPR.merged
    BY <1>0, <2>3, NothingTaken DEF MergesAreFinal, NoDelivery
  <2> HIDE DEF r
  <2>6. /\ SnapshotTypes' /\ MergesAreFinal'
        /\ ingest'[k] = r /\ \A j \in Ingestor \ {k} : ingest'[j] = ingest[j]
    BY <1>0, <2>1, <2>4, <2>5, IngestMoves
  <2>7. ingest[k].event # "pull_request"
    <3>1. ingest[k] = NoDelivery
      BY <1>0, <2>1 DEF SnapshotTypes, InHand
    <3> QED
      BY <3>1, NothingTaken
  <2>8. WillBeRead => WillBeRead'
    BY <2>1, <2>4, <2>6, <2>7 DEF WillBeRead
  <2> QED
    BY <2>1, <2>6, <2>8 DEF MirrorInv
<1>5. ASSUME NEW k \in Ingestor, UpsertPR(k)  PROVE MirrorInv'
  <2> DEFINE r == IF ingest[k].event = "pull_request"
                  THEN [NoDelivery EXCEPT !.pc = "enqueue", !.event = "pull_request"] ELSE NoDelivery
  <2>1. /\ ingest' = [ingest EXCEPT ![k] = r] /\ mirror' = ingest[k].pr /\ deliveries' = deliveries
        /\ ingest[k].event = "pull_request_review" => lastWrite' = "review"
        /\ ingest[k].pc = "upsert"
        /\ UNCHANGED <<gitHubPR, missed, syncPending, syncRun, strayRun>>
    BY <1>5 DEF UpsertPR, GitHubStands, SyncStands
  <2>2. /\ r \in Taken /\ InHand(r) /\ ~r.pr.merged
        /\ ingest[k].event = "pull_request" => r.event = "pull_request"
    BY NothingTaken DEF InHand, Taken, NoDelivery, Event
  <2> HIDE DEF r
  <2>3. /\ SnapshotTypes' /\ MergesAreFinal'
        /\ ingest'[k] = r /\ \A j \in Ingestor \ {k} : ingest'[j] = ingest[j]
    BY <1>0, <2>1, <2>2, IngestMoves
  <2>4. WillBeRead => WillBeRead'
    BY <2>1, <2>2, <2>3 DEF WillBeRead
  <2>5. ingest[k].event = "pull_request" => WillBeRead'
    BY <2>2, <2>3 DEF WillBeRead
  <2>6. ingest[k].event \in {"pull_request", "pull_request_review"}
    BY <1>0, <2>1 DEF SnapshotTypes, InHand
  <2> QED
    BY <2>1, <2>3, <2>4, <2>5, <2>6 DEF MirrorInv
<1>6. ASSUME NEW k \in Ingestor, EnqueueSyncs(k)  PROVE MirrorInv'
  <2>1. /\ ingest' = [ingest EXCEPT ![k] = NoDelivery] /\ mirror' = mirror /\ deliveries' = deliveries
        /\ syncPending' = TRUE /\ UNCHANGED <<gitHubPR, missed, lastWrite, syncRun, strayRun>>
    BY <1>6 DEF EnqueueSyncs, GitHubStands
  <2>2. SnapshotTypes' /\ MergesAreFinal'
    BY <1>0, <2>1, NothingTaken, IngestMoves
  <2> QED
    BY <2>1, <2>2 DEF MirrorInv, WillBeRead
<1>7. ASSUME NEW k \in Ingestor, IngestDies(k)  PROVE MirrorInv'
  <2>1. /\ ingest' = [ingest EXCEPT ![k] = NoDelivery] /\ mirror' = mirror /\ deliveries' = deliveries
        /\ missed' = TRUE /\ UNCHANGED <<gitHubPR, lastWrite, syncPending, syncRun, strayRun>>
    BY <1>7 DEF IngestDies, GitHubStands, SyncStands
  <2>2. SnapshotTypes' /\ MergesAreFinal'
    BY <1>0, <2>1, NothingTaken, IngestMoves
  <2> QED
    BY <2>1, <2>2 DEF MirrorInv
<1>8. ASSUME ClaimSync  PROVE MirrorInv'
  <2>1. /\ syncRun' = [pc |-> "list", pr |-> Absent] /\ syncRun'.pc = "list" /\ ~syncRun'.pr.merged
        /\ UNCHANGED <<gitHubPR, mirror, strayRun, deliveries, ingest, missed, lastWrite>>
    BY <1>8 DEF ClaimSync, GitHubStands, Absent
  <2>2. SnapshotTypes' /\ MergesAreFinal'
    BY <1>0, <2>1 DEF SnapshotTypes, MergesAreFinal, Absent, Snapshot, Listing
  <2> QED
    BY <2>1, <2>2 DEF MirrorInv
<1>9. ASSUME ListPRs  PROVE MirrorInv'
  <2>1. /\ syncRun' = [pc |-> "write", pr |-> gitHubPR] /\ syncRun'.pc = "write" /\ syncRun'.pr = gitHubPR
        /\ UNCHANGED <<gitHubPR, mirror, strayRun, deliveries, ingest, missed, lastWrite, syncPending>>
    BY <1>9 DEF ListPRs, GitHubStands
  <2>2. SnapshotTypes' /\ MergesAreFinal'
    BY <1>0, <2>1 DEF SnapshotTypes, MergesAreFinal, Listing
  <2> QED
    BY <2>1, <2>2 DEF MirrorInv
<1>10. ASSUME NEW wrote \in BOOLEAN, syncPRs(wrote)  PROVE MirrorInv'
  <2>1. /\ syncRun.pc = "write" /\ syncRun' = NoSync
        /\ UNCHANGED <<gitHubPR, strayRun, deliveries, ingest, missed, syncPending>>
    BY <1>10 DEF syncPRs, GitHubStands
  <2>2. CASE wrote
    <3>1. Listed(syncRun.pr)
      BY <1>10, <2>2 DEF syncPRs
    <3>2. /\ mirror' \in Snapshot /\ mirror'.merged = (mirror.merged \/ syncRun.pr.merged)
          /\ syncRun.pr = gitHubPR => mirror' = gitHubPR
      BY <1>0, <3>1, ListingWritten DEF SnapshotTypes, MergesAreFinal, Listing
    <3>3. SnapshotTypes' /\ MergesAreFinal'
      BY <1>0, <2>1, <3>2, NothingListed DEF SnapshotTypes, MergesAreFinal
    <3>4. WillBeRead => WillBeRead'
      BY <2>1 DEF WillBeRead
    <3> QED
      BY <2>1, <3>2, <3>3, <3>4, NothingListed DEF MirrorInv
  <2>3. CASE ~wrote
    <3>1. mirror' = mirror /\ lastWrite' = "failed"
      BY <1>10, <2>3 DEF syncPRs
    <3>2. SnapshotTypes' /\ MergesAreFinal'
      BY <1>0, <2>1, <3>1, NothingListed DEF SnapshotTypes, MergesAreFinal
    <3> QED
      BY <2>1, <3>1, <3>2, NothingListed DEF MirrorInv
  <2> QED
    BY <2>2, <2>3
<1>11. ASSUME NEW again \in BOOLEAN, SyncFails(again) \/ WorkerTakenForDead(again)  PROVE MirrorInv'
  <2>1. /\ syncRun' = NoSync /\ syncPending' = (syncPending \/ again) /\ missed' = (missed \/ ~again)
        /\ strayRun' = strayRun \/ strayRun' = syncRun
        /\ UNCHANGED <<gitHubPR, mirror, deliveries, ingest, lastWrite>>
    BY <1>11 DEF SyncFails, WorkerTakenForDead, GitHubStands
  <2>3. SnapshotTypes' /\ MergesAreFinal'
    BY <1>0, <2>1, NothingListed DEF SnapshotTypes, MergesAreFinal
  <2>4. again => WillBeRead'
    BY <2>1 DEF WillBeRead
  <2>5. ~again => missed'
    BY <2>1
  <2>6. syncRun'.pc = "idle"
    BY <2>1, NothingListed
  <2> QED
    BY <2>3, <2>4, <2>5, <2>6 DEF MirrorInv
<1>15. ASSUME StrayRuns  PROVE MirrorInv'
  <2>1. UNCHANGED <<gitHubPR, syncRun, deliveries, ingest, missed, syncPending>>
    BY <1>15 DEF StrayRuns, GitHubStands
  <2>2. CASE strayRun.pc = "write" /\ strayRun' = NoSync /\ Listed(strayRun.pr) /\ lastWrite' = "stray"
    <3>1. mirror' \in Snapshot /\ mirror'.merged = (mirror.merged \/ strayRun.pr.merged)
      BY <1>0, <2>2, ListingWritten DEF SnapshotTypes, MergesAreFinal, Listing
    <3>2. SnapshotTypes' /\ MergesAreFinal'
      BY <1>0, <2>1, <2>2, <3>1, NothingListed DEF SnapshotTypes, MergesAreFinal
    <3>3. WillBeRead => WillBeRead'
      BY <2>1 DEF WillBeRead
    <3> QED
      BY <2>1, <2>2, <3>2, <3>3 DEF MirrorInv
  <2>3. CASE UNCHANGED <<mirror, lastWrite>> /\ strayRun' \in {NoSync, [pc |-> "write", pr |-> gitHubPR]}
    <3>1. [pc |-> "write", pr |-> gitHubPR] \in Listing
      BY <1>0 DEF SnapshotTypes, Listing
    <3>2. SnapshotTypes' /\ MergesAreFinal'
      BY <1>0, <2>1, <2>3, <3>1, NothingListed DEF SnapshotTypes, MergesAreFinal
    <3>3. WillBeRead => WillBeRead'
      BY <2>1 DEF WillBeRead
    <3> QED
      BY <2>1, <2>3, <3>2, <3>3 DEF MirrorInv
  <2> QED
    BY <1>15, <2>2, <2>3 DEF StrayRuns
<1>12. CASE UNCHANGED mirrorVars
  BY <1>12 DEF mirrorVars, MirrorInv, SnapshotTypes, MergesAreFinal, WillBeRead
<1>13. ASSUME ProjectNext  PROVE UNCHANGED mirrorVars
  BY <1>13 DEF ProjectNext, MirrorStands, VerifyProject, GoroutineDies, CreateProject, CheckOwner, verifyAndWebhook,
     recordProjectError, handleInstallationEvent, checkSingleInstallation, GitHubGrants, HandleInstallationCallback,
     LookUpProject, VerifyExisting, InsertProject, FinishInsert, RepoPermission
<1>14. ASSUME MirrorNext  PROVE MirrorInv'
  <2>1. CASE \E state \in {"open", "closed"}, merged \in BOOLEAN : ChangePR([state |-> state, merged |-> merged])
    BY <1>1, <2>1
  <2>2. CASE \E event \in {"pull_request_review", "push"} : OtherEvent(event)
    BY <1>2, <2>2
  <2>3. CASE \E d \in deliveries : DeliveryIsLost(d) \/ \E k \in Ingestor : Ingest(k, d)
    BY <1>3, <1>4, <2>3
  <2>4. CASE \E k \in Ingestor : UpsertPR(k) \/ EnqueueSyncs(k) \/ IngestDies(k)
    BY <1>5, <1>6, <1>7, <2>4
  <2> QED
    BY <1>8, <1>9, <1>10, <1>11, <1>14, <1>15, <2>1, <2>2, <2>3, <2>4 DEF MirrorNext
<1> QED
  BY <1>12, <1>13, <1>14 DEF repositoryVars

\* Once nothing is on its way and nothing was lost, the mirror shows what GitHub has if
\* its last writer was a sync that held its job: a change of the pull request always
\* leaves such a sync to come that reads it afterwards, and one that had read before it
\* cannot be the last (github_webhook.go, worker.go).
THEOREM MirrorDoesSettle == RepositorySpec => []MirrorSettles
<1>1. MirrorInv => MirrorSettles
  <2> SUFFICES ASSUME MirrorInv, deliveries = {}, \A k \in Ingestor : ingest[k] = NoDelivery, ~syncPending,
                      syncRun = NoSync, ~missed,
                      lastWrite \notin {"review", "stray", "failed"}
               PROVE  mirror = gitHubPR
    BY DEF MirrorSettles
  <2>1. ~WillBeRead
    BY NothingTaken DEF WillBeRead
  <2>2. syncRun.pc = "idle"
    BY DEF NoSync
  <2> QED
    BY <2>1, <2>2 DEF MirrorInv
<1> QED
  BY <1>1, MirrorBegins, MirrorStep, PTL DEF RepositorySpec

-----------------------------------------------------------------------------
(* A verified project's owner was shown to maintain the repository.               *)

ProjectFields == {"owner", "status", "installation", "deleted"}

\* Who is known to maintain it stays known, and an owner who is not known has neither a
\* verified project nor one an installation names.
OwnerKnown(p, known) == p.status = "verified" \/ p.installation # Nobody => p.owner \in known
ProjectSound(p, known) ==
  /\ DOMAIN p = ProjectFields /\ OwnerKnown(p, known)
  /\ p = NoProject \/ p.owner \in Account
VerifierSound(j, p, known) ==
  /\ DOMAIN j = {"pc", "owner"} /\ p # NoProject /\ j.owner \in Account
  /\ j.owner = p.owner \/ p.owner \in known
  /\ j.pc = "verified" => j.owner \in known
InstallerSound(r, p, known) ==
  /\ DOMAIN r = {"pc", "user", "installation"}
  /\ r # NoInstall => r.user \in Account /\ r.installation \in Installation
  /\ r.pc \in {"lookup", "insert", "verify", "finish"} => r.user \in known /\ r # NoInstall
  /\ r.pc = "finish" => p.owner \in known

GrantEvent == {"added", "removed", "deleted"} \X Installation

ProjectInv ==
  /\ proved \subseteq Account /\ DOMAIN installing = Installer /\ installEvents \subseteq GrantEvent
  /\ ProjectSound(project, proved)
  /\ \A j \in verifying : VerifierSound(j, project, proved)
  /\ \A k \in Installer : InstallerSound(installing[k], project, proved)

LEMMA ProjectBegins == RepositoryInit => ProjectInv
BY DEF RepositoryInit, ProjectInv, ProjectSound, OwnerKnown, InstallerSound, NoProject, NoInstall, ProjectFields

\* The owner is the same, or one who is known.
OwnerStands(p, next, known) == next.owner = p.owner \/ next.owner \in known

\* One who works on the project is not disturbed by what another does to it.
LEMMA OthersUndisturbed ==
  ASSUME ProjectInv, NEW next, NEW known, proved \subseteq known, known \subseteq Account,
         OwnerStands(project, next, known)
  PROVE  /\ \A j \in verifying : next # NoProject => VerifierSound(j, next, known)
         /\ \A k \in Installer : InstallerSound(installing[k], next, known)
BY DEF ProjectInv, VerifierSound, InstallerSound, OwnerStands

\* One step of a goroutine, with what it makes of the project.
LEMMA InstallerGoes ==
  ASSUME ProjectInv, NEW next, NEW known, NEW k \in Installer, NEW r,
         proved \subseteq known, known \subseteq Account, OwnerStands(project, next, known),
         ProjectSound(next, known), InstallerSound(r, next, known), project # NoProject => next # NoProject,
         project' = next, proved' = known, installing' = [installing EXCEPT ![k] = r],
         UNCHANGED <<verifying, installEvents>>
  PROVE  ProjectInv'
<1>1. /\ \A j \in verifying : next # NoProject => VerifierSound(j, next, known)
      /\ \A q \in Installer : InstallerSound(installing[q], next, known)
  BY OthersUndisturbed
<1>2. \A j \in verifying : VerifierSound(j, next, known)
  BY <1>1 DEF ProjectInv, VerifierSound
<1>3. DOMAIN installing' = Installer /\ \A q \in Installer : installing'[q] = IF q = k THEN r ELSE installing[q]
  BY DEF ProjectInv
<1> QED
  BY <1>1, <1>2, <1>3 DEF ProjectInv

LEMMA VerifierGoes ==
  ASSUME ProjectInv, NEW next, NEW known, proved \subseteq known, known \subseteq Account,
         OwnerStands(project, next, known), ProjectSound(next, known), project # NoProject => next # NoProject,
         \A j \in verifying' \ verifying : VerifierSound(j, next, known),
         project' = next, proved' = known, installEvents' \subseteq GrantEvent, UNCHANGED installing
  PROVE  ProjectInv'
<1>1. /\ \A j \in verifying : next # NoProject => VerifierSound(j, next, known)
      /\ \A q \in Installer : InstallerSound(installing[q], next, known)
  BY OthersUndisturbed
<1>2. \A j \in verifying' : VerifierSound(j, next, known)
  BY <1>1 DEF ProjectInv, VerifierSound
<1> QED
  BY <1>1, <1>2 DEF ProjectInv

\* What a step may do to the project.
ProjectMoves ==
  /\ project'.status = "verified" /\ project # project' => project'.owner \in proved'
  /\ project.status = "verified" => project'.owner = project.owner

LEMMA ProjectStep ==
  ASSUME ProjectInv, [MirrorNext \/ ProjectNext]_repositoryVars
  PROVE  ProjectInv' /\ ProjectMoves
<1>0. /\ proved \subseteq Account /\ DOMAIN installing = Installer /\ installEvents \subseteq GrantEvent
      /\ ProjectSound(project, proved)
      /\ \A j \in verifying : VerifierSound(j, project, proved)
      /\ \A k \in Installer : InstallerSound(installing[k], project, proved)
      /\ DOMAIN project = ProjectFields /\ Nobody \notin Account /\ Nobody \notin Installation
      /\ NoProject.owner = Nobody /\ NoProject.status = "none" /\ NoProject.installation = Nobody
  BY MirrorAssumption DEF ProjectInv, ProjectSound, NoProject
<1>00. /\ project.owner \in Account => project # NoProject
       /\ project # NoProject => project.owner \in Account
       /\ project.status = "verified" => project.owner \in proved
       /\ project.installation # Nobody => project.owner \in proved
       /\ DOMAIN NoInstall = {"pc", "user", "installation"} /\ NoInstall.pc = "idle"
       /\ \A p, known : InstallerSound(NoInstall, p, known)
  BY <1>0 DEF ProjectSound, OwnerKnown, NoInstall, InstallerSound
<1>1. ASSUME NEW u \in Account, CreateProject(u)  PROVE ProjectInv' /\ ProjectMoves
  <2> DEFINE p == [NoProject EXCEPT !.owner = u, !.status = "pending_verification"]
  <2>1. /\ project = NoProject /\ project' = p /\ UNCHANGED <<verifying, installing, proved, installEvents>>
    BY <1>1 DEF CreateProject, GrantsStand
  <2>2. /\ DOMAIN p = ProjectFields /\ p.owner = u /\ p.status = "pending_verification" /\ p.installation = Nobody
    BY DEF NoProject, ProjectFields
  <2> HIDE DEF p
  <2>3. verifying = {}
    BY <1>0, <2>1 DEF VerifierSound
  <2>4. ProjectSound(p, proved)
    BY <2>2 DEF ProjectSound, OwnerKnown
  <2>5. \A k \in Installer : InstallerSound(installing[k], p, proved)
    BY <1>0, <2>1 DEF InstallerSound
  <2>6. ProjectMoves
    BY <1>0, <2>1, <2>2 DEF ProjectMoves
  <2> QED
    BY <1>0, <2>1, <2>3, <2>4, <2>5, <2>6 DEF ProjectInv
\* The project as it is, with another status, installation or deletion mark.
<1>2. ASSUME NEW p, DOMAIN p = ProjectFields, p.owner = project.owner, project # NoProject, OwnerKnown(p, proved)
      PROVE  ProjectSound(p, proved) /\ OwnerStands(project, p, proved) /\ p # NoProject
  BY <1>0, <1>00, <1>2 DEF ProjectSound, OwnerStands
<1>3. OwnerStands(project, project, proved)
  BY DEF OwnerStands
<1>4. ASSUME VerifyProject  PROVE ProjectInv' /\ ProjectMoves
  <2> DEFINE p == [project EXCEPT !.status = "pending_verification"]
             v == [pc |-> "check", owner |-> project.owner]
  <2>1. project # NoProject /\ project' = p /\ verifying' = verifying \cup {v}
        /\ UNCHANGED <<installing, proved, installEvents>>
    BY <1>4 DEF VerifyProject, GrantsStand
  <2>2. /\ DOMAIN p = ProjectFields /\ p.owner = project.owner /\ p.status = "pending_verification"
        /\ p.installation = project.installation
        /\ DOMAIN v = {"pc", "owner"} /\ v.pc = "check" /\ v.owner = project.owner
    BY <1>0 DEF ProjectFields
  <2> HIDE DEF p, v
  <2>3. ProjectSound(p, proved) /\ OwnerStands(project, p, proved) /\ p # NoProject
    BY <1>00, <1>2, <2>1, <2>2 DEF OwnerKnown
  <2>4. VerifierSound(v, p, proved)
    BY <1>00, <2>1, <2>2, <2>3 DEF VerifierSound
  <2>5. ProjectInv'
    BY <1>0, <2>1, <2>3, <2>4, VerifierGoes
  <2> QED
    BY <2>1, <2>2, <2>5 DEF ProjectMoves
<1>5. ASSUME NEW j \in verifying, CheckOwner(j)  PROVE ProjectInv' /\ ProjectMoves
  <2> DEFINE v == [j EXCEPT !.pc = IF j.owner \in maintains THEN "verified" ELSE "refused"]
             known == IF j.owner \in maintains THEN proved \cup {j.owner} ELSE proved
  <2>1. /\ verifying' = (verifying \ {j}) \cup {v} /\ proved' = known
        /\ UNCHANGED <<project, installing, installEvents>>
    BY <1>5 DEF CheckOwner, GrantsStand
  <2>2. DOMAIN j = {"pc", "owner"} /\ project # NoProject /\ (j.owner = project.owner \/ project.owner \in proved)
    BY <1>0 DEF VerifierSound
  <2>3. /\ DOMAIN v = {"pc", "owner"} /\ v.owner = j.owner
        /\ v.pc = "verified" => j.owner \in known
    BY <2>2
  <2> HIDE DEF v
  <2>4. VerifierSound(v, project, known) /\ proved \subseteq known
    BY <1>0, <2>2, <2>3 DEF VerifierSound
  <2>6. known \subseteq Account
    BY <1>0 DEF VerifierSound
  <2>7. ProjectSound(project, known) /\ OwnerStands(project, project, known)
    BY <1>0, <2>4 DEF ProjectSound, OwnerKnown, OwnerStands
  <2> HIDE DEF known
  <2>8. ProjectInv'
    BY <1>0, <2>1, <2>4, <2>6, <2>7, VerifierGoes
  <2> QED
    BY <2>1, <2>8 DEF ProjectMoves
\* The project changed by something that is not an installer, its owner left alone.
<1>6. ASSUME NEW p, DOMAIN p = ProjectFields, p.owner = project.owner, project # NoProject, OwnerKnown(p, proved),
             p.status = "verified" => p.owner \in proved, project' = p, verifying' \subseteq verifying,
             UNCHANGED <<installing, proved>>, installEvents' \subseteq GrantEvent
      PROVE  ProjectInv' /\ ProjectMoves
  <2>1. ProjectSound(p, proved) /\ OwnerStands(project, p, proved) /\ p # NoProject
    BY <1>2, <1>6
  <2>2. ProjectInv'
    BY <1>0, <1>6, <2>1, VerifierGoes
  <2> QED
    BY <1>6, <2>2 DEF ProjectMoves
<1>7. ASSUME NEW j \in verifying, verifyAndWebhook(j)  PROVE ProjectInv' /\ ProjectMoves
  <2> DEFINE p == [project EXCEPT !.status = "verified"]
  <2>1. j.pc = "verified" /\ project' = p /\ verifying' = verifying \ {j}
        /\ UNCHANGED <<installing, proved, installEvents>>
    BY <1>7 DEF verifyAndWebhook, GrantsStand
  <2>2. DOMAIN p = ProjectFields /\ p.owner = project.owner
    BY <1>0 DEF ProjectFields
  <2> HIDE DEF p
  <2>3. project.owner \in proved /\ project # NoProject
    BY <1>0, <2>1 DEF VerifierSound
  <2> QED
    BY <1>0, <1>6, <2>1, <2>2, <2>3 DEF OwnerKnown
<1>8. ASSUME NEW j \in verifying, recordProjectError(j)  PROVE ProjectInv' /\ ProjectMoves
  <2> DEFINE p == [project EXCEPT !.status = "pending_verification"]
  <2>1. project' = p /\ verifying' = verifying \ {j} /\ UNCHANGED <<installing, proved, installEvents>>
    BY <1>8 DEF recordProjectError, GrantsStand
  <2>2. /\ DOMAIN p = ProjectFields /\ p.owner = project.owner /\ p.status = "pending_verification"
        /\ p.installation = project.installation
    BY <1>0 DEF ProjectFields
  <2> HIDE DEF p
  <2>3. project # NoProject
    BY <1>0 DEF VerifierSound
  <2> QED
    BY <1>0, <1>00, <1>6, <2>1, <2>2, <2>3 DEF OwnerKnown
\* Taken out of sight, or back.
<1>9. ASSUME NEW gone \in BOOLEAN, NEW mark, project # NoProject, mark = "verified" => project.owner \in proved,
             project' = [project EXCEPT !.deleted = gone, !.status = mark], UNCHANGED <<verifying, installing, proved>>,
             installEvents' \subseteq GrantEvent
      PROVE  ProjectInv' /\ ProjectMoves
  <2> DEFINE p == [project EXCEPT !.deleted = gone, !.status = mark]
  <2>1. /\ DOMAIN p = ProjectFields /\ p.owner = project.owner /\ p.status = mark
        /\ p.installation = project.installation
    BY <1>0 DEF ProjectFields
  <2>2. project' = p
    BY <1>9
  <2> HIDE DEF p
  <2> QED
    BY <1>00, <1>6, <1>9, <2>1, <2>2 DEF OwnerKnown
<1>10. ASSUME UNCHANGED <<project, verifying, installing, proved>>, installEvents' \subseteq GrantEvent
       PROVE  ProjectInv' /\ ProjectMoves
  BY <1>0, <1>10 DEF ProjectInv, ProjectMoves
<1>11. ASSUME NEW e \in installEvents, handleInstallationEvent(e)  PROVE ProjectInv' /\ ProjectMoves
  <2>1. /\ UNCHANGED <<verifying, installing, proved>> /\ installEvents' \subseteq GrantEvent
        /\ e[1] \in {"added", "removed", "deleted"} /\ e[2] \in Installation
    BY <1>0, <1>11 DEF handleInstallationEvent, GrantEvent
  <2>2. \/ UNCHANGED project
        \/ project # NoProject /\ project' = [project EXCEPT !.deleted = TRUE, !.status = "rejected"]
        \/ /\ project.installation = e[2]
           /\ project' = [project EXCEPT !.deleted = FALSE, !.status = "verified"]
    <3>1. project.installation = e[2] => project # NoProject
      BY <1>0, <2>1
    <3> QED
      BY <1>11, <2>1, <3>1 DEF handleInstallationEvent, Deleted
  <2>3. CASE project.installation = e[2] /\ project' = [project EXCEPT !.deleted = FALSE, !.status = "verified"]
    <3>1. project # NoProject /\ project.owner \in proved
      BY <1>0, <1>00, <2>1, <2>3
    <3> QED
      BY <1>9, <2>1, <2>3, <3>1
  <2>4. CASE project # NoProject /\ project' = [project EXCEPT !.deleted = TRUE, !.status = "rejected"]
    BY <1>9, <2>1, <2>4
  <2> QED
    BY <1>10, <2>1, <2>2, <2>3, <2>4
<1>12. ASSUME NEW i \in Installation, checkSingleInstallation(i)  PROVE ProjectInv' /\ ProjectMoves
  <2>1. /\ UNCHANGED <<verifying, installing, proved, installEvents>> /\ project # NoProject
        /\ project' = [project EXCEPT !.deleted = TRUE, !.status = "rejected"]
    BY <1>0, <1>12 DEF checkSingleInstallation, Deleted, GrantsStand
  <2> QED
    BY <1>0, <1>9, <2>1
<1>13. ASSUME NEW i \in Installation, NEW u \in Account, GitHubGrants(i, u)  PROVE ProjectInv' /\ ProjectMoves
  <2>1. UNCHANGED <<project, verifying, installing, proved>>
    BY <1>13 DEF GitHubGrants
  <2>2. installEvents' \subseteq installEvents \cup {<<event, i>> : event \in {"added", "removed", "deleted"}}
    BY <1>13 DEF GitHubGrants
  <2>3. installEvents' \subseteq GrantEvent
    BY <1>0, <2>2 DEF GrantEvent
  <2> QED
    BY <1>10, <2>1, <2>3
\* An installer moves, and the project is what it makes of it.
<1>14. ASSUME NEW k \in Installer, NEW r, NEW p, NEW known, proved \subseteq known, known \subseteq Account,
              ProjectSound(p, known), InstallerSound(r, p, known), project # NoProject => p # NoProject,
              p.owner = project.owner \/ (project.status # "verified" /\ p.owner \in known),
              project' = p, proved' = known, installing' = [installing EXCEPT ![k] = r],
              UNCHANGED <<verifying, installEvents>>
       PROVE  ProjectInv' /\ ProjectMoves
  <2>1. OwnerStands(project, p, known)
    BY <1>14 DEF OwnerStands
  <2>2. ProjectInv'
    BY <1>14, <2>1, InstallerGoes
  <2>3. p.status = "verified" => p.owner \in known
    BY <1>14 DEF ProjectSound, OwnerKnown
  <2> QED
    BY <1>14, <2>2, <2>3 DEF ProjectMoves
<1>15. ASSUME NEW k \in Installer, NEW u \in Account, NEW i \in Installation, HandleInstallationCallback(k, u, i)
       PROVE  ProjectInv' /\ ProjectMoves
  <2> DEFINE r == [pc |-> "permission", user |-> u, installation |-> i]
  <2>1. installing' = [installing EXCEPT ![k] = r] /\ UNCHANGED <<project, verifying, proved, installEvents>>
    BY <1>15 DEF HandleInstallationCallback, GrantsStand
  <2>2. InstallerSound(r, project, proved)
    BY DEF InstallerSound
  <2> HIDE DEF r
  <2> QED
    BY <1>0, <1>14, <2>1, <2>2
\* The next step of an installer, with what was known.
<1>16. ASSUME NEW k \in Installer, NEW at, installing[k] # NoInstall
       PROVE  LET r == [installing[k] EXCEPT !.pc = at] IN
              DOMAIN r = {"pc", "user", "installation"} /\ r.pc = at /\ r.user = installing[k].user
              /\ r.installation = installing[k].installation
  BY <1>0 DEF InstallerSound
<1>17. ASSUME NEW k \in Installer, NEW private \in BOOLEAN, NEW answered \in BOOLEAN, RepoPermission(k, private, answered)
       PROVE  ProjectInv' /\ ProjectMoves
  <2> DEFINE p == IF private /\ project # NoProject THEN [project EXCEPT !.deleted = TRUE] ELSE project
  <2>1. /\ project' = p /\ UNCHANGED <<verifying, installEvents>> /\ installing[k].pc = "permission"
    BY <1>17 DEF RepoPermission, GrantsStand
  <2>2. /\ DOMAIN p = ProjectFields /\ p.owner = project.owner /\ p.status = project.status
        /\ p.installation = project.installation
    BY <1>0 DEF ProjectFields
  <2>3. project = NoProject => p = NoProject
    OBVIOUS
  <2> HIDE DEF p
  <2>4. ASSUME NEW known, proved \subseteq known  PROVE ProjectSound(p, known) /\ (project # NoProject => p # NoProject)
    BY <1>0, <1>00, <2>2, <2>3, <2>4 DEF ProjectSound, OwnerKnown
  <2>5. CASE installing' = [installing EXCEPT ![k] = NoInstall] /\ UNCHANGED proved
    BY <1>0, <1>00, <1>14, <2>1, <2>2, <2>4, <2>5
  <2>6. CASE InstallGoes(k, "lookup") /\ proved' = proved \cup {installing[k].user}
    <3> DEFINE known == proved \cup {installing[k].user}
               r == [installing[k] EXCEPT !.pc = "lookup"]
    <3>1. installing[k] # NoInstall
      BY <1>00, <2>1
    <3>2. installing[k].user \in Account /\ installing[k].installation \in Installation
      BY <1>0, <3>1 DEF InstallerSound
    <3>3. /\ DOMAIN r = {"pc", "user", "installation"} /\ r.pc = "lookup" /\ r.user = installing[k].user
          /\ r.installation = installing[k].installation
      BY <1>16, <3>1
    <3>4. installing' = [installing EXCEPT ![k] = r]
      BY <1>0, <2>6 DEF InstallGoes
    <3> HIDE DEF r
    <3>5. InstallerSound(r, p, known)
      BY <1>00, <3>2, <3>3 DEF InstallerSound
    <3>6. proved \subseteq known /\ known \subseteq Account /\ proved' = known
      BY <1>0, <2>6, <3>2
    <3> HIDE DEF known
    <3> QED
      BY <1>14, <2>1, <2>2, <2>4, <3>4, <3>5, <3>6
  <2> QED
    BY <1>17, <2>5, <2>6 DEF RepoPermission
<1>18. ASSUME NEW k \in Installer, LookUpProject(k)  PROVE ProjectInv' /\ ProjectMoves
  <2> DEFINE at == IF project = NoProject THEN "insert" ELSE "verify"
             r == [installing[k] EXCEPT !.pc = at]
  <2>1. /\ installing' = [installing EXCEPT ![k] = r] /\ UNCHANGED <<project, verifying, proved, installEvents>>
        /\ installing[k].pc = "lookup" /\ at \in {"insert", "verify"}
    BY <1>0, <1>18 DEF LookUpProject, InstallGoes, GrantsStand
  <2> HIDE DEF at
  <2>2. /\ DOMAIN r = {"pc", "user", "installation"} /\ r.pc = at /\ r.user = installing[k].user
        /\ r.installation = installing[k].installation
    BY <1>00, <1>16, <2>1
  <2> HIDE DEF r
  <2>3. InstallerSound(r, project, proved)
    BY <1>0, <1>00, <2>1, <2>2 DEF InstallerSound
  <2> QED
    BY <1>0, <1>14, <2>1, <2>3
<1>19. ASSUME NEW k \in Installer, VerifyExisting(k)  PROVE ProjectInv' /\ ProjectMoves
  <2> DEFINE p == [owner |-> OwnerAfter(k), status |-> "verified", installation |-> installing[k].installation,
                   deleted |-> FALSE]
  <2>1. /\ installing' = [installing EXCEPT ![k] = NoInstall] /\ project' = p
        /\ UNCHANGED <<verifying, proved, installEvents>> /\ installing[k].pc = "verify"
    BY <1>19 DEF VerifyExisting, GrantsStand
  <2>2. DOMAIN p = ProjectFields /\ p.owner = OwnerAfter(k)
    BY DEF ProjectFields
  <2> HIDE DEF p
  <2>3. installing[k].user \in proved
    BY <1>0, <2>1 DEF InstallerSound
  <2>4. /\ OwnerAfter(k) \in proved
        /\ OwnerAfter(k) = project.owner \/ project.status # "verified"
    BY <1>00, <2>3 DEF OwnerAfter
  <2>5. ProjectSound(p, proved) /\ p # NoProject
    BY <1>0, <2>2, <2>4 DEF ProjectSound, OwnerKnown
  <2> QED
    BY <1>0, <1>00, <1>14, <2>1, <2>2, <2>4, <2>5
<1>20. ASSUME NEW k \in Installer, InsertProject(k)  PROVE ProjectInv' /\ ProjectMoves
  <2> DEFINE p == [owner |-> IF project = NoProject THEN installing[k].user ELSE OwnerAfter(k),
                   status |-> IF project = NoProject THEN "pending_verification" ELSE project.status,
                   installation |-> installing[k].installation, deleted |-> FALSE]
             r == [installing[k] EXCEPT !.pc = "finish"]
  <2>1. /\ installing' = [installing EXCEPT ![k] = r] /\ project' = p
        /\ UNCHANGED <<verifying, proved, installEvents>> /\ installing[k].pc = "insert"
    BY <1>0, <1>20 DEF InsertProject, InstallGoes, GrantsStand
  <2>2. DOMAIN p = ProjectFields /\ p.owner = IF project = NoProject THEN installing[k].user ELSE OwnerAfter(k)
    BY DEF ProjectFields
  <2>3. /\ DOMAIN r = {"pc", "user", "installation"} /\ r.pc = "finish" /\ r.user = installing[k].user
        /\ r.installation = installing[k].installation
    BY <1>00, <1>16, <2>1
  <2> HIDE DEF p, r
  <2>4. /\ installing[k].user \in proved /\ installing[k] # NoInstall
    BY <1>0, <2>1 DEF InstallerSound
  <2>5. /\ p.owner \in proved
        /\ p.owner = project.owner \/ project.status # "verified"
    BY <1>0, <1>00, <2>2, <2>4 DEF OwnerAfter
  <2>6. ProjectSound(p, proved) /\ p # NoProject
    BY <1>0, <2>2, <2>5 DEF ProjectSound, OwnerKnown
  <2>7. InstallerSound(r, p, proved)
    BY <1>0, <1>00, <2>3, <2>4, <2>5 DEF InstallerSound
  <2> QED
    BY <1>0, <1>14, <2>1, <2>5, <2>6, <2>7
<1>21. ASSUME NEW k \in Installer, FinishInsert(k)  PROVE ProjectInv' /\ ProjectMoves
  <2> DEFINE p == [project EXCEPT !.status = "verified", !.installation = installing[k].installation, !.deleted = FALSE]
  <2>1. /\ installing' = [installing EXCEPT ![k] = NoInstall] /\ project' = p
        /\ UNCHANGED <<verifying, proved, installEvents>> /\ installing[k].pc = "finish"
    BY <1>21 DEF FinishInsert, GrantsStand
  <2>2. DOMAIN p = ProjectFields /\ p.owner = project.owner
    BY <1>0 DEF ProjectFields
  <2> HIDE DEF p
  <2>3. project.owner \in proved
    BY <1>0, <2>1 DEF InstallerSound
  <2>4. ProjectSound(p, proved) /\ p # NoProject
    BY <1>0, <2>2, <2>3 DEF ProjectSound, OwnerKnown
  <2> QED
    BY <1>0, <1>00, <1>14, <2>1, <2>2, <2>4
<1>22. ASSUME GoroutineDies  PROVE ProjectInv' /\ ProjectMoves
  <2>1. UNCHANGED <<project, proved, installEvents>>
    BY <1>22 DEF GoroutineDies, GrantsStand
  <2>2. CASE \E j \in verifying : verifying' = verifying \ {j} /\ UNCHANGED installing
    BY <1>0, <1>3, <2>1, <2>2 DEF ProjectInv, ProjectMoves
  <2>3. CASE \E k \in Installer : installing' = [installing EXCEPT ![k] = NoInstall] /\ UNCHANGED verifying
    BY <1>0, <1>00, <1>14, <2>1, <2>3
  <2> QED
    BY <1>22, <2>2, <2>3 DEF GoroutineDies
<1>23. ASSUME UNCHANGED projectVars  PROVE ProjectInv' /\ ProjectMoves
  BY <1>0, <1>10, <1>23 DEF projectVars
<1>24. ASSUME MirrorNext  PROVE UNCHANGED projectVars
  BY <1>24 DEF MirrorNext, ProjectStands, ChangePR, OtherEvent, DeliveryIsLost, Ingest, UpsertPR, EnqueueSyncs, IngestDies,
     ClaimSync, ListPRs, syncPRs, SyncFails, StrayRuns, WorkerTakenForDead
<1>25. ASSUME ProjectNext  PROVE ProjectInv' /\ ProjectMoves
  BY <1>1, <1>4, <1>5, <1>7, <1>8, <1>11, <1>12, <1>13, <1>15, <1>17, <1>18, <1>19, <1>20, <1>21, <1>22, <1>25 DEF ProjectNext
<1> QED
  BY <1>23, <1>24, <1>25 DEF repositoryVars

\* A project becomes verified with an owner GitHub has shown to maintain the repository, and
\* keeps that owner: an installer comes to the write with proof, and finds the owner of a
\* verified project in its place (OwnerAfter, verifyAndWebhook, handleInstallationEvent).
THEOREM OwnersAreProved == RepositorySpec => VerifiedOwnerProved
<1>1. ProjectInv /\ [MirrorNext \/ ProjectNext]_repositoryVars => ProjectInv' /\ [ProjectMoves]_repositoryVars
  BY ProjectStep
<1> QED
  BY <1>1, ProjectBegins, PTL DEF RepositorySpec, VerifiedOwnerProved, ProjectMoves
===============================================================================
