----------------------------- MODULE PayoutRails -----------------------------
(****************************************************************************)
(* An event's pool is paid on one of three rails: KeeperHub on Base         *)
(* (keeperhub_payout_runs), Aptos (settlements) or GrainHack on Solana      *)
(* (grainhack_results_statements). The rails exclude each other only        *)
(* through triggers that look into each other's tables before an insert:    *)
(* this module is those triggers, the transactions they run in and the      *)
(* advisory lock of one event pool. Rows are never deleted from the three   *)
(* tables, so each is the set of writers whose insert committed.            *)
(****************************************************************************)
EXTENDS Naturals, FiniteSets

CONSTANTS Writer,   \* the transactions that try to book the event pool
          None      \* nobody holds the lock

ASSUME NoneAssumption == None \notin Writer

Rail == {"keeperhub", "aptos", "grainhack"}

VARIABLES pc,     \* pc[w]: where transaction w stands
          rail,   \* rail[w]: the table w inserts into
          lock,   \* grainhack_rail_lock of the event pool: its holder, or None
          rows    \* rows[r]: whose rows of rail r are committed

vars == <<pc, rail, lock, rows>>

Stage == {"idle", "firstCheck", "wait", "secondCheck", "thirdCheck", "written", "done"}

Booked(r) == rows[r] # {}

Init == /\ pc = [w \in Writer |-> "idle"]
        /\ rail \in [Writer -> Rail]
        /\ lock = None
        /\ rows = [r \in Rail |-> {}]

Goto(w, stage) == pc' = [pc EXCEPT ![w] = stage]

\* Go looks for the other rails before it opens the transaction, so that a person reads
\* a sentence and not a database error; `payout persist` does not look.
PreCheckPasses(r) == CASE r = "keeperhub" -> ~Booked("aptos") /\ ~Booked("grainhack")
                       [] r = "aptos"     -> TRUE
                       [] r = "grainhack" -> ~Booked("keeperhub") /\ ~Booked("aptos")

\* Issue takes the event pool's lock before it reads what it signs; the other two reach
\* it in the second of their tables' BEFORE INSERT triggers.
Begin(w) == /\ pc[w] = "idle"
            /\ PreCheckPasses(rail[w])
            /\ Goto(w, IF rail[w] = "grainhack" THEN "wait" ELSE "firstCheck")
            /\ UNCHANGED <<rail, lock, rows>>

\* The rail that the first trigger of a table looks for, without the lock.
FirstLooksFor(r) == IF r = "keeperhub" THEN "aptos" ELSE "keeperhub"

FirstCheck(w) == /\ pc[w] = "firstCheck"
                 /\ Goto(w, IF Booked(FirstLooksFor(rail[w])) THEN "idle" ELSE "wait")
                 /\ UNCHANGED <<rail, lock, rows>>

TakeLock(w) == /\ pc[w] = "wait"
               /\ lock = None
               /\ lock' = w
               /\ Goto(w, "secondCheck")
               /\ UNCHANGED <<rail, rows>>

\* Mutant: pg_advisory_lock instead of pg_advisory_xact_lock, kept by the session.
ReleasedNever(w) == lock

\* Dropping a transaction drops its advisory lock.
Released(w) == IF lock = w THEN None ELSE lock

Refuse(w) == /\ Goto(w, "idle")
             /\ lock' = Released(w)
             /\ UNCHANGED <<rail, rows>>

Proceed(w, stage) == /\ Goto(w, stage)
                     /\ UNCHANGED <<rail, lock, rows>>

\* The unique indexes: one run and one settlement of an event pool. A statement may
\* follow another, which it then supersedes.
Duplicate(r) == r # "grainhack" /\ Booked(r)

\* Mutant: the settlement's trigger looks for the run a second time.
SecondLooksForRun(r) == IF r = "keeperhub" THEN "grainhack" ELSE "keeperhub"

\* The rail the trigger that holds the lock looks for.
SecondLooksFor(r) == IF r = "grainhack" THEN "keeperhub" ELSE "grainhack"

SecondCheck(w) ==
  /\ pc[w] = "secondCheck"
  /\ IF Booked(SecondLooksFor(rail[w])) \/ Duplicate(rail[w])
     THEN Refuse(w)
     ELSE Proceed(w, IF rail[w] = "grainhack" THEN "thirdCheck" ELSE "written")

\* The statement's trigger looks for a settlement after it looked for a run.
ThirdCheck(w) == /\ pc[w] = "thirdCheck"
                 /\ IF Booked("aptos") THEN Refuse(w) ELSE Proceed(w, "written")

\* A settlement's insert is a transaction of its own; the other two commit with the
\* legs or the lines that belong to the row.
Commit(w) == /\ pc[w] = "written"
             /\ rows' = [rows EXCEPT ![rail[w]] = @ \cup {w}]
             /\ lock' = Released(w)
             /\ Goto(w, "done")
             /\ UNCHANGED rail

\* A later statement of the transaction fails, the caller goes away or the process dies.
Abort(w) == /\ pc[w] \notin {"idle", "done"}
            /\ Refuse(w)

Step(w) == FirstCheck(w) \/ SecondCheck(w) \/ ThirdCheck(w) \/ Commit(w)

Next == \E w \in Writer : Begin(w) \/ TakeLock(w) \/ Step(w) \/ Abort(w)

\* Statements run to their end, and Postgres queues the waiters of a lock, so nobody
\* waits forever for a lock that keeps being released.
Fairness == \A w \in Writer : WF_vars(Step(w)) /\ SF_vars(TakeLock(w))

Spec == Init /\ [][Next]_vars /\ Fairness
------------------------------------------------------------------------------
TypeOK == /\ pc \in [Writer -> Stage]
          /\ rail \in [Writer -> Rail]
          /\ lock \in Writer \cup {None}
          /\ rows \in [Rail -> SUBSET Writer]

\* An event pool with a results statement is on neither of the other rails, whatever
\* order three kinds of transaction read and commit in (migration 20261003120100).
StatementExcludesOthers == Booked("grainhack") => ~Booked("keeperhub") /\ ~Booked("aptos")

Inside(w) == pc[w] \in {"secondCheck", "thirdCheck", "written"}

\* Two transactions never both stand between the check made under the lock and their
\* commit: what one of them saw is still true when it commits.
OneWriterInside == \A v, w \in Writer : Inside(v) /\ Inside(w) => v = w

\* An event pool's waiter gets its turn: no order of the three rails' transactions
\* leaves the lock with somebody who has gone.
WaitersServed == \A w \in Writer : pc[w] = "wait" ~> pc[w] # "wait"
------------------------------------------------------------------------------
(* What the migrations say, and the code does not do.                       *)

\* An event and pool is paid on Base or on Aptos, never both, in both directions
\* (migrations/20260916090700). The two triggers that keep those rails apart look
\* before either transaction holds the lock.
BaseOrAptos == ~(Booked("keeperhub") /\ Booked("aptos"))
=============================================================================
