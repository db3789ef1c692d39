---------------------- MODULE GrainHackStatementsProofs ----------------------
(* For every set of transactions, any winners, accounts, amounts and number of   *)
(* statements: an event pool with a results statement is on no other rail, the   *)
(* statements keep to the rails, an account is paid what the first of them       *)
(* signed, and nobody is told the same thing again while the database answers.    *)
(*                                                                               *)
(* The rails rest on the advisory lock: from the check it makes under the lock   *)
(* until it commits or is dropped, a transaction holds the lock, so no row       *)
(* appears in between.                                                           *)
EXTENDS GrainHackStatements, TLAPS

-----------------------------------------------------------------------------
(* The rails alone (Spec of PayoutRails).                                      *)

\* Whoever is past TakeLock and not yet committed holds the lock.
LockHeld == \A w \in Writer : Inside(w) => lock = w

\* What a transaction that may commit has seen under the lock.
MayBook(r) == IF r = "grainhack" THEN ~Booked("keeperhub") /\ ~Booked("aptos")
                                 ELSE ~Booked("grainhack")

\* The checks made under the lock are still true when the transaction writes.
ChecksHold == \A w \in Writer :
  /\ pc[w] = "written" => MayBook(rail[w])
  /\ pc[w] = "thirdCheck" => rail[w] = "grainhack" /\ ~Booked("keeperhub")

\* The inductive invariant.
IInv == TypeOK /\ LockHeld /\ ChecksHold /\ StatementExcludesOthers

\* The initial states satisfy the invariant.
LEMMA InitIInv == Init => IInv
  BY DEF Init, IInv, TypeOK, LockHeld, ChecksHold, StatementExcludesOthers, Inside,
         Booked, Stage, Rail

\* No step of a transaction writes a row, except its commit.
LEMMA RowsChangeAtCommit ==
  ASSUME NEW w \in Writer, Begin(w) \/ FirstCheck(w) \/ TakeLock(w) \/ SecondCheck(w)
                             \/ ThirdCheck(w) \/ Abort(w)
  PROVE  rows' = rows /\ rail' = rail
  BY DEF Begin, FirstCheck, TakeLock, SecondCheck, ThirdCheck, Abort, Refuse, Proceed

\* Every step keeps the variables' types.
LEMMA TypeKept == ASSUME TypeOK, [Next]_vars
                  PROVE  TypeOK'
<1>1. CASE UNCHANGED vars
  BY <1>1 DEF vars, TypeOK
<1>2. ASSUME NEW w \in Writer, Begin(w) \/ FirstCheck(w)
      PROVE  TypeOK'
  BY <1>2 DEF Begin, FirstCheck, Goto, TypeOK, Stage
<1>3. ASSUME NEW w \in Writer, TakeLock(w)
      PROVE  TypeOK'
  BY <1>3 DEF TakeLock, Goto, TypeOK, Stage
<1>4. ASSUME NEW w \in Writer, SecondCheck(w) \/ ThirdCheck(w) \/ Abort(w)
      PROVE  TypeOK'
  BY <1>4 DEF SecondCheck, ThirdCheck, Abort, Refuse, Proceed, Released, Goto, TypeOK, Stage
<1>5. ASSUME NEW w \in Writer, Commit(w)
      PROVE  TypeOK'
  <2>1. rows' \in [Rail -> SUBSET Writer]
    BY <1>5 DEF Commit, TypeOK
  <2>2. QED
    BY <1>5, <2>1 DEF Commit, Released, Goto, TypeOK, Stage
<1>6. QED
  BY <1>1, <1>2, <1>3, <1>4, <1>5 DEF Next, Step

\* Every step leaves the lock with whoever is inside.
LEMMA LockKept == ASSUME TypeOK, LockHeld, [Next]_vars
                  PROVE  LockHeld'
<1>1. CASE UNCHANGED vars
  BY <1>1 DEF vars, LockHeld, Inside
<1>2. ASSUME NEW w \in Writer, Begin(w) \/ FirstCheck(w)
      PROVE  LockHeld'
  BY <1>2 DEF Begin, FirstCheck, Goto, LockHeld, Inside, TypeOK
<1>3. ASSUME NEW w \in Writer, TakeLock(w)
      PROVE  LockHeld'
  BY <1>3, NoneAssumption DEF TakeLock, Goto, LockHeld, Inside, TypeOK
<1>4. ASSUME NEW w \in Writer, SecondCheck(w) \/ ThirdCheck(w) \/ Abort(w)
      PROVE  LockHeld'
  BY <1>4, NoneAssumption
     DEF SecondCheck, ThirdCheck, Abort, Refuse, Proceed, Released, Goto, LockHeld, Inside, TypeOK
<1>5. ASSUME NEW w \in Writer, Commit(w)
      PROVE  LockHeld'
  BY <1>5, NoneAssumption DEF Commit, Released, Goto, LockHeld, Inside, TypeOK
<1>6. QED
  BY <1>1, <1>2, <1>3, <1>4, <1>5 DEF Next, Step

\* What a transaction saw under the lock stays true, whoever else moves.
LEMMA ChecksKept == ASSUME TypeOK, LockHeld, ChecksHold, [Next]_vars
                    PROVE  ChecksHold'
<1>1. CASE UNCHANGED vars
  BY <1>1 DEF vars, ChecksHold, MayBook, Booked
<1>2. ASSUME NEW w \in Writer, Begin(w) \/ FirstCheck(w) \/ TakeLock(w) \/ Abort(w)
      PROVE  ChecksHold'
  <2>1. rows' = rows /\ rail' = rail
    BY <1>2, RowsChangeAtCommit
  <2>2. \A v \in Writer : pc'[v] \in {"written", "thirdCheck"} => pc'[v] = pc[v]
    BY <1>2 DEF Begin, FirstCheck, TakeLock, Abort, Refuse, Goto, TypeOK
  <2>3. QED
    BY <2>1, <2>2 DEF ChecksHold, MayBook, Booked
<1>3. ASSUME NEW w \in Writer, SecondCheck(w)
      PROVE  ChecksHold'
  <2>1. rows' = rows /\ rail' = rail
    BY <1>3, RowsChangeAtCommit
  <2>2. \A v \in Writer : v # w => pc'[v] = pc[v]
    BY <1>3 DEF SecondCheck, Refuse, Proceed, Goto, TypeOK
  <2>3. /\ pc'[w] = "written" => rail[w] # "grainhack" /\ ~Booked("grainhack")
        /\ pc'[w] = "thirdCheck" => rail[w] = "grainhack" /\ ~Booked("keeperhub")
    BY <1>3 DEF SecondCheck, Refuse, Proceed, Goto, SecondLooksFor, TypeOK
  <2>4. QED
    BY <2>1, <2>2, <2>3 DEF ChecksHold, MayBook, Booked
<1>4. ASSUME NEW w \in Writer, ThirdCheck(w)
      PROVE  ChecksHold'
  <2>1. rows' = rows /\ rail' = rail
    BY <1>4, RowsChangeAtCommit
  <2>2. \A v \in Writer : v # w => pc'[v] = pc[v]
    BY <1>4 DEF ThirdCheck, Refuse, Proceed, Goto, TypeOK
  <2>3. /\ rail[w] = "grainhack" /\ ~Booked("keeperhub")
        /\ pc'[w] = "written" => ~Booked("aptos")
        /\ pc'[w] # "thirdCheck"
    BY <1>4 DEF ThirdCheck, ChecksHold, Refuse, Proceed, Goto, TypeOK
  <2>4. QED
    BY <2>1, <2>2, <2>3 DEF ChecksHold, MayBook, Booked
<1>5. ASSUME NEW w \in Writer, Commit(w)
      PROVE  ChecksHold'
  <2>1. \A v \in Writer \ {w} : ~Inside(v) /\ pc'[v] = pc[v]
    BY <1>5, NoneAssumption DEF Commit, Goto, LockHeld, Inside, TypeOK
  <2>2. pc'[w] = "done"
    BY <1>5 DEF Commit, Goto, TypeOK
  <2>3. QED
    BY <2>1, <2>2 DEF ChecksHold, Inside
<1>6. QED
  BY <1>1, <1>2, <1>3, <1>4, <1>5 DEF Next, Step

\* A commit adds a row only of a rail whose check still holds.
LEMMA ExclusionKept == ASSUME TypeOK, ChecksHold, StatementExcludesOthers, [Next]_vars
                       PROVE  StatementExcludesOthers'
<1>1. CASE UNCHANGED vars
  BY <1>1 DEF vars, StatementExcludesOthers, Booked
<1>2. ASSUME NEW w \in Writer, Begin(w) \/ FirstCheck(w) \/ TakeLock(w) \/ SecondCheck(w)
                                 \/ ThirdCheck(w) \/ Abort(w)
      PROVE  StatementExcludesOthers'
  BY <1>2, RowsChangeAtCommit DEF StatementExcludesOthers, Booked
<1>3. ASSUME NEW w \in Writer, Commit(w)
      PROVE  StatementExcludesOthers'
  <2>1. MayBook(rail[w]) /\ rail[w] \in Rail
    BY <1>3 DEF Commit, ChecksHold, TypeOK
  <2>2. \A r \in Rail : r # rail[w] => rows'[r] = rows[r]
    BY <1>3 DEF Commit, TypeOK
  <2>3. CASE rail[w] = "grainhack"
    BY <2>1, <2>2, <2>3 DEF MayBook, StatementExcludesOthers, Booked, Rail
  <2>4. CASE rail[w] # "grainhack"
    BY <2>1, <2>2, <2>4 DEF MayBook, StatementExcludesOthers, Booked, Rail
  <2>5. QED
    BY <2>3, <2>4
<1>4. QED
  BY <1>1, <1>2, <1>3 DEF Next, Step

\* The invariant holds in every reachable state.
THEOREM Inductive == Spec => []IInv
<1>1. IInv /\ [Next]_vars => IInv'
  BY TypeKept, LockKept, ChecksKept, ExclusionKept DEF IInv
<1>2. QED
  BY InitIInv, <1>1, PTL DEF Spec

\* Every variable keeps its type.
THEOREM TypeCorrect == Spec => []TypeOK
<1>1. IInv => TypeOK
  BY DEF IInv
<1>2. QED
  BY Inductive, <1>1, PTL

\* An event pool with a results statement has neither a KeeperHub run nor a settlement,
\* whatever the number and the order of the transactions (migration 20261003120100).
THEOREM OneRailWithStatement == Spec => []StatementExcludesOthers
<1>1. IInv => StatementExcludesOthers
  BY DEF IInv
<1>2. QED
  BY Inductive, <1>1, PTL

\* Between its check and its commit a transaction is alone with the event pool.
THEOREM AloneInside == Spec => []OneWriterInside
<1>1. IInv => OneWriterInside
  BY DEF IInv, LockHeld, OneWriterInside
<1>2. QED
  BY Inductive, <1>1, PTL

-----------------------------------------------------------------------------
(* The rails.                                                                  *)

\* Whatever the statements do to the rails' state, a step of the rails does.
LEMMA StepKeepsRails == ASSUME [StatementsNext]_allVars PROVE [Next]_vars
<1>1. CASE UNCHANGED allVars
  BY <1>1 DEF allVars
<1>2. ASSUME NEW p \in Person, ChangeVerified(p) \/ Erase(p) \/ \E a \in Account : Relink(p, a)
      PROVE  UNCHANGED vars
  BY <1>2 DEF ChangeVerified, Erase, Relink
<1>3. ASSUME NEW d \in Divisions, Redivide(d)
      PROVE  UNCHANGED vars
  BY <1>3 DEF Redivide
<1>4. ASSUME NEW w \in Writer, Issue(w) \/ SignUnderLock(w) \/ IssueChecks(w) \/ IssueCommits(w) \/ OtherRail(w)
      PROVE  Next
  BY <1>4 DEF Issue, SignUnderLock, IssueChecks, IssueCommits, OtherRail, Next, Step
<1>5. ASSUME NEW w \in Writer, MissingGitHub(w) \/ RefuseUnderLock(w)
      PROVE  Next
  <2>1. Abort(w)
    BY <1>5 DEF MissingGitHub, RefuseUnderLock, Abort
  <2>2. QED
    BY <2>1 DEF Next
<1>6. ASSUME NEW w \in Writer, LoadWinners(w)
      PROVE  UNCHANGED vars
  BY <1>6 DEF LoadWinners
<1>7. ASSUME NEW a \in Account, AgentPays(a) \/ ReportPayment(a)
      PROVE  UNCHANGED vars
  BY <1>7 DEF AgentPays, ReportPayment
<1>8. ASSUME NEW l \in UNION Range(chain), RemindLinkWallet(l)
      PROVE  UNCHANGED vars
  BY <1>8 DEF RemindLinkWallet
<1>9. ASSUME NEW t \in tasks, claimNotice(t) \/ send(t) \/ releaseNotice(t) \/ NoticeDies(t)
      PROVE  UNCHANGED vars
  BY <1>9 DEF claimNotice, send, releaseNotice, NoticeDies
<1>10. QED
  BY <1>1, <1>2, <1>3, <1>4, <1>5, <1>6, <1>7, <1>8, <1>9 DEF StatementsNext

\* So what is proved of the rails carries over.
LEMMA StatementsKeepRails == StatementsSpec => KeepsRails
<1>1. StatementsInit => Init
  BY DEF StatementsInit
<1>2. [StatementsNext]_allVars => [Next]_vars
  BY StepKeepsRails
<1>3. QED
  BY <1>1, <1>2, PTL DEF StatementsSpec, KeepsRails

\* The invariant of the rails holds of the statements.
LEMMA RailsInvariant == StatementsSpec => []IInv
<1>1. IInv /\ [Next]_vars => IInv'
  BY TypeKept, LockKept, ChecksKept, ExclusionKept DEF IInv
<1>2. KeepsRails => []IInv
  BY InitIInv, <1>1, PTL DEF KeepsRails
<1>3. QED
  BY StatementsKeepRails, <1>2, PTL

\* An event pool with a results statement is on no other rail, with the statements
\* superseding each other and their payments and notices under way (migration 20261003120100).
THEOREM StatementsAlone == StatementsSpec => []StatementExcludesOthers
<1>1. IInv => StatementExcludesOthers
  BY DEF IInv
<1>2. QED
  BY RailsInvariant, <1>1, PTL
-----------------------------------------------------------------------------
(* Types.                                                                      *)

\* Nobody is left without an account except by erasure: github_accounts goes with it.
AccountsKnown == \A p \in Person : ~erased[p] => account[p] \in Account

\* Issue takes the lock with its lines loaded, and what it compared under the lock with
\* the latest statement is still true when it commits.
Signing == \A w \in Writer : rail[w] = "grainhack" /\ Inside(w) => read[w] # None /\ MaySign(w)

\* Lines name winners and their accounts, tasks name lines.
Typed == StatementsTypeOK /\ AccountsKnown

\* Every winner starts with an account of their own.
LEMMA InitTyped == StatementsInit => Typed
<1>. SUFFICES ASSUME StatementsInit PROVE Typed
  OBVIOUS
<1>1. account \in [Person -> Account]
  BY AccountsAssumption DEF StatementsInit
<1>2. TypeOK
  BY InitIInv DEF StatementsInit, IInv
<1>3. chain \in Seq(SUBSET Line)
  BY DEF StatementsInit
<1>4. told \in [Kind \X Account -> Nat] /\ unanswered = told
  BY DEF StatementsInit
<1>5. AccountsKnown /\ erased \in [Person -> BOOLEAN] /\ verified \in [Person -> BOOLEAN] /\ division \in Divisions
  BY <1>1 DEF StatementsInit, AccountsKnown
<1>6. /\ read \in [Writer -> {None} \cup SUBSET Line]
      /\ paid \in [Account -> Nat] /\ reports = {} /\ claimed = {} /\ tasks = {}
      /\ moves \in 0..MaxMoves /\ upsets \in 0..MaxUpsets
  BY BoundsAssumption DEF StatementsInit
<1>7. QED
  BY <1>1, <1>2, <1>3, <1>4, <1>5, <1>6 DEF Typed, StatementsTypeOK

\* The lines Issue loads are lines of winners.
LEMMA LoadedLines == ASSUME Typed, NEW p \in Person PROVE LinesOf(p) \subseteq Line
<1>1. division[p] \in Nat
  BY BoundsAssumption DEF Typed, StatementsTypeOK
<1>2. erasedWinnerLine(p) \subseteq Line
  BY DEF erasedWinnerLine, Last, Typed, StatementsTypeOK
<1>3. CASE erased[p]
  BY <1>1, <1>2, <1>3 DEF LinesOf, Line
<1>4. CASE ~erased[p]
  BY <1>1, <1>4 DEF LinesOf, Current, Line, status, Typed, AccountsKnown
<1>5. QED
  BY <1>3, <1>4

\* What the agent may pay is a line of some statement.
LEMMA PayableLines == ASSUME Typed, NEW l \in UNION Range(chain)
                      PROVE  l \in Line /\ \E i \in DOMAIN chain : l \in chain[i]
  BY DEF Typed, StatementsTypeOK, Range

\* A set of lines in a chain that only grows at its end.
LEMMA AppendedLines == ASSUME Typed, NEW lines, lines \subseteq Line, chain' = Append(chain, lines)
                       PROVE  chain' \in Seq(SUBSET Line)
  BY DEF Typed, StatementsTypeOK

\* A notice about a line is a task.
LEMMA TasksOfLines == ASSUME NEW l \in Line, NEW k \in Kind
                      PROVE  [kind |-> k, account |-> l.account, person |-> l.person, claimed |-> FALSE] \in Task
  BY DEF Line, Task

\* Claiming a task changes only that it is claimed.
LEMMA ClaimedTask == ASSUME NEW t \in Task
                     PROVE  /\ [t EXCEPT !.claimed = TRUE] \in Task
                            /\ [t EXCEPT !.claimed = TRUE].claimed
                            /\ Claims([t EXCEPT !.claimed = TRUE]) = Claims(t)
  BY DEF Task, Claims

\* The steps of one transaction.
WriterStep(w) ==
  \/ Issue(w) \/ LoadWinners(w) \/ MissingGitHub(w)
  \/ SignUnderLock(w) \/ RefuseUnderLock(w) \/ IssueChecks(w) \/ IssueCommits(w)
  \/ OtherRail(w)

\* A transaction moves itself only, and a transaction that was not inside and is now has
\* taken the lock.
LEMMA OthersStand == ASSUME Typed, NEW w \in Writer, WriterStep(w)
                     PROVE  /\ rail' = rail
                            /\ \A v \in Writer \ {w} : pc'[v] = pc[v] /\ read'[v] = read[v]
                            /\ Inside(w)' => Inside(w) \/ TakeLock(w)
<1>. USE DEF Typed, StatementsTypeOK, TypeOK, Goto
<1>1. CASE Issue(w)
  BY <1>1 DEF Issue, Begin, statementVars, Inside
<1>2. CASE LoadWinners(w)
  BY <1>2 DEF LoadWinners, vars, Inside
<1>3. CASE MissingGitHub(w)
  BY <1>3 DEF MissingGitHub, Refuse, statementVars, Inside
<1>4. CASE SignUnderLock(w)
  BY <1>4 DEF SignUnderLock, TakeLock, statementVars
<1>5. CASE RefuseUnderLock(w)
  BY <1>5 DEF RefuseUnderLock, Refuse, Inside
<1>6. CASE IssueChecks(w)
  BY <1>6 DEF IssueChecks, SecondCheck, ThirdCheck, Abort, Refuse, Proceed, Inside
<1>7. CASE IssueCommits(w)
  BY <1>7 DEF IssueCommits, Commit, Inside
<1>8. CASE OtherRail(w)
  <2>1. CASE Begin(w) \/ TakeLock(w) \/ Abort(w)
    BY <1>8, <2>1 DEF OtherRail, Begin, TakeLock, Abort, Refuse, statementVars, Inside
  <2>2. CASE Step(w)
    BY <1>8, <2>2 DEF OtherRail, Step, FirstCheck, SecondCheck, ThirdCheck, Commit, Refuse, Proceed,
                      statementVars, Inside
  <2>3. QED
    BY <1>8, <2>1, <2>2 DEF OtherRail
<1>9. QED
  BY <1>1, <1>2, <1>3, <1>4, <1>5, <1>6, <1>7, <1>8 DEF WriterStep

\* Everything else leaves the transactions and the statements alone.
LEMMA RestStands == ASSUME [StatementsNext]_allVars, \A w \in Writer : ~WriterStep(w)
                    PROVE  UNCHANGED <<vars, read, chain>>
  BY DEF StatementsNext, WriterStep, allVars, statementVars, ChangeVerified, Erase, Relink, Redivide, AgentPays,
         ReportPayment, RemindLinkWallet, claimNotice, send, releaseNotice, NoticeDies

\* Only the transaction that holds the lock adds a statement.
LEMMA SigningKept == ASSUME IInv, Typed, Signing, [StatementsNext]_allVars PROVE Signing'
<1>1. CASE \A w \in Writer : ~WriterStep(w)
  BY <1>1, RestStands DEF vars, Signing, Inside, MaySign
<1>2. ASSUME NEW w \in Writer, WriterStep(w)
      PROVE  Signing'
  <2>. SUFFICES ASSUME NEW v \in Writer, rail'[v] = "grainhack", Inside(v)'
                PROVE  (read[v] # None /\ MaySign(v))'
    BY DEF Signing
  <2>1. /\ rail' = rail
        /\ v # w => pc'[v] = pc[v] /\ read'[v] = read[v]
        /\ Inside(w)' => Inside(w) \/ TakeLock(w)
    BY <1>2, OthersStand
  <2>2. CASE v = w
    <3>1. CASE SignUnderLock(w)
      BY <2>2, <3>1 DEF SignUnderLock, statementVars, MaySign
    <3>2. CASE IssueChecks(w)
      <4>1. pc'[w] # "idle" /\ Inside(w)
        BY <2>1, <2>2, <3>2 DEF Inside, IssueChecks, SecondCheck, ThirdCheck, Abort, Refuse, Goto, Typed, StatementsTypeOK, TypeOK
      <4>2. read' = read /\ chain' = chain
        BY <3>2, <4>1 DEF IssueChecks
      <4>3. QED
        BY <2>1, <2>2, <4>1, <4>2 DEF Signing, MaySign
    <3>3. CASE Issue(w) \/ LoadWinners(w) \/ MissingGitHub(w) \/ RefuseUnderLock(w) \/ IssueCommits(w)
      BY <2>2, <3>3 DEF Issue, LoadWinners, MissingGitHub, RefuseUnderLock, IssueCommits, Begin, Commit, Refuse, Goto,
                        vars, Inside, Typed, StatementsTypeOK, TypeOK
    <3>4. CASE OtherRail(w)
      BY <2>1, <2>2, <3>4 DEF OtherRail
    <3>5. QED
      BY <1>2, <3>1, <3>2, <3>3, <3>4 DEF WriterStep
  <2>3. CASE v # w
    <3>1. Inside(v) /\ lock = v
      BY <2>1, <2>3 DEF Inside, IInv, LockHeld
    <3>2. ~IssueCommits(w)
      BY <2>3, <3>1 DEF IssueCommits, Commit, IInv, LockHeld, Inside
    <3>3. chain' = chain
      BY <1>2, <3>2 DEF WriterStep, Issue, LoadWinners, MissingGitHub, SignUnderLock, RefuseUnderLock, IssueChecks,
                        OtherRail, statementVars
    <3>4. QED
      BY <2>1, <2>3, <3>1, <3>3 DEF Signing, MaySign
  <2>4. QED
    BY <2>2, <2>3
<1>3. QED
  BY <1>1, <1>2

\* Every step keeps the types.
LEMMA TypedKept == ASSUME Typed, Signing, [StatementsNext]_allVars PROVE Typed'
<1>0. TypeOK'
  BY StepKeepsRails, TypeKept DEF Typed, StatementsTypeOK
<1>. USE DEF Typed, StatementsTypeOK, people, notices, statementVars
<1>1. CASE UNCHANGED allVars
  BY <1>0, <1>1 DEF allVars, AccountsKnown
<1>2. ASSUME NEW p \in Person, ChangeVerified(p) \/ Erase(p) \/ \E a \in Account : Relink(p, a)
      PROVE  Typed'
  <2>1. moves' \in 0..MaxMoves
    BY <1>2, BoundsAssumption DEF ChangeVerified, Erase, Relink, Move
  <2>2. /\ account' \in [Person -> Account \cup {None}]
        /\ verified' \in [Person -> BOOLEAN] /\ erased' \in [Person -> BOOLEAN]
    BY <1>2 DEF ChangeVerified, Erase, Relink
  <2>3. AccountsKnown'
    BY <1>2 DEF ChangeVerified, Erase, Relink, AccountsKnown
  <2>4. QED
    BY <1>0, <1>2, <2>1, <2>2, <2>3 DEF ChangeVerified, Erase, Relink
<1>3. ASSUME NEW d \in Divisions, Redivide(d)
      PROVE  Typed'
  BY <1>0, <1>3, BoundsAssumption DEF Redivide, Move, AccountsKnown
<1>4. ASSUME NEW w \in Writer, Issue(w) \/ SignUnderLock(w) \/ OtherRail(w) \/ MissingGitHub(w)
      PROVE  Typed'
  BY <1>0, <1>4 DEF Issue, SignUnderLock, OtherRail, MissingGitHub, AccountsKnown
<1>5. ASSUME NEW w \in Writer, RefuseUnderLock(w) \/ IssueChecks(w)
      PROVE  Typed'
  <2>1. /\ read' = read \/ read' = [read EXCEPT ![w] = None]
        /\ UNCHANGED <<people, chain, paid, reports, notices>>
    BY <1>5 DEF RefuseUnderLock, IssueChecks
  <2>2. read' \in [Writer -> {None} \cup SUBSET Line]
    BY <2>1
  <2>3. QED
    BY <1>0, <2>1, <2>2 DEF AccountsKnown
<1>6. ASSUME NEW w \in Writer, LoadWinners(w)
      PROVE  Typed'
  <2>1. UNION {LinesOf(p) : p \in Person} \subseteq Line
    BY LoadedLines
  <2>2. QED
    BY <1>0, <1>6, <2>1 DEF LoadWinners, AccountsKnown
<1>7. ASSUME NEW w \in Writer, IssueCommits(w)
      PROVE  Typed'
  <2>1. read[w] \subseteq Line
    BY <1>7 DEF IssueCommits, Commit, Signing, Inside
  <2>2. chain' \in Seq(SUBSET Line)
    BY <1>7, <2>1, AppendedLines DEF IssueCommits
  <2>3. tasks' \subseteq Task
    BY <1>7, <2>1, TasksOfLines DEF IssueCommits, Kind
  <2>4. read' \in [Writer -> {None} \cup SUBSET Line]
    BY <1>7 DEF IssueCommits
  <2>5. QED
    BY <1>0, <1>7, <2>2, <2>3, <2>4 DEF IssueCommits, AccountsKnown
<1>8. ASSUME NEW a \in Account, AgentPays(a) \/ ReportPayment(a)
      PROVE  Typed'
  <2>1. \A l \in Payable(a) : l \in Line
    BY PayableLines DEF Payable
  <2>2. paid' \in [Account -> Nat]
    BY <1>8, <2>1 DEF AgentPays, ReportPayment, Line
  <2>3. tasks' \subseteq Task
    <3>1. CASE AgentPays(a)
      BY <3>1 DEF AgentPays
    <3>2. CASE ReportPayment(a)
      <4>1. PICK l \in Payable(a) : NewTask("paid", l)
        BY <3>2 DEF ReportPayment
      <4>2. [kind |-> "paid", account |-> l.account, person |-> l.person, claimed |-> FALSE] \in Task
        BY <2>1, TasksOfLines DEF Kind
      <4>3. QED
        BY <4>1, <4>2 DEF NewTask
    <3>3. QED
      BY <1>8, <3>1, <3>2
  <2>4. reports' \subseteq Account
    BY <1>8 DEF AgentPays, ReportPayment
  <2>5. UNCHANGED <<people, read, chain, claimed, told, unanswered, upsets>>
    BY <1>8 DEF AgentPays, ReportPayment
  <2>6. QED
    BY <1>0, <2>2, <2>3, <2>4, <2>5 DEF AccountsKnown
<1>9. ASSUME NEW l \in UNION Range(chain), RemindLinkWallet(l)
      PROVE  Typed'
  <2>1. l \in Line
    BY PayableLines
  <2>2. tasks' \subseteq Task
    BY <1>9, <2>1, TasksOfLines DEF RemindLinkWallet, NewTask, Kind
  <2>3. moves' \in 0..MaxMoves
    BY <1>9, BoundsAssumption DEF RemindLinkWallet, Move
  <2>4. QED
    BY <1>0, <1>9, <2>2, <2>3 DEF RemindLinkWallet, AccountsKnown
<1>10. ASSUME NEW t \in tasks, claimNotice(t) \/ send(t) \/ releaseNotice(t) \/ NoticeDies(t)
       PROVE  Typed'
  <2>1. t \in Task /\ Claims(t) \in Kind \X Account
    BY DEF Task, Claims
  <2>2. tasks' \subseteq Task
    BY <1>10, <2>1, ClaimedTask DEF claimNotice, send, releaseNotice, NoticeDies
  <2>3. claimed' \subseteq Kind \X Account
    BY <1>10, <2>1 DEF claimNotice, send, releaseNotice, NoticeDies
  <2>4. told' \in [Kind \X Account -> Nat] /\ unanswered' \in [Kind \X Account -> Nat]
    <3>1. told \in [Kind \X Account -> Nat] /\ unanswered \in [Kind \X Account -> Nat]
      BY DEF Typed, StatementsTypeOK
    <3>2. CASE releaseNotice(t)
      <4>1. PICK stored \in {0, 1} : /\ told' = [told EXCEPT ![Claims(t)] = @ + stored]
                                     /\ unanswered' = [unanswered EXCEPT ![Claims(t)] = @ + stored]
        BY <3>2 DEF releaseNotice
      <4>2. stored \in Nat
        OBVIOUS
      <4>3. QED
        BY <2>1, <3>1, <4>1, <4>2
    <3>3. CASE send(t)
      <4>1. PICK shown \in {0, 1} : told' = [told EXCEPT ![Claims(t)] = @ + shown]
        BY <3>3 DEF send
      <4>2. shown \in Nat /\ unanswered' = unanswered
        BY <3>3 DEF send
      <4>3. QED
        BY <2>1, <3>1, <4>1, <4>2
    <3>4. CASE claimNotice(t) \/ NoticeDies(t)
      BY <3>1, <3>4 DEF claimNotice, NoticeDies
    <3>5. QED
      BY <1>10, <3>2, <3>3, <3>4
  <2>5. upsets' \in 0..MaxUpsets
    BY <1>10, BoundsAssumption DEF claimNotice, send, releaseNotice, NoticeDies
  <2>6. UNCHANGED <<people, read, chain, paid, reports>>
    BY <1>10 DEF claimNotice, send, releaseNotice, NoticeDies
  <2>7. QED
    BY <1>0, <2>2, <2>3, <2>4, <2>5, <2>6 DEF AccountsKnown
<1>11. QED
  BY <1>1, <1>2, <1>3, <1>4, <1>5, <1>6, <1>7, <1>8, <1>9, <1>10 DEF StatementsNext

-----------------------------------------------------------------------------
(* What is paid.                                                               *)

\* Every statement of the chain owes the same accounts the same amounts.
ChainAgrees == \A i \in DOMAIN chain : Owed(chain[i]) = Owed(chain[1])

\* Nothing is paid before there is a statement.
PaidLater == chain = <<>> => \A a \in Account : paid[a] = 0

PayInv == ChainAgrees /\ PaidLater /\ PaidAsSigned

\* Whatever is not a commit leaves the chain, and whatever is not the agent what it paid.
LEMMA ChainOrPaid == ASSUME [StatementsNext]_allVars
                     PROVE  \/ UNCHANGED <<chain, paid>>
                            \/ \E w \in Writer : IssueCommits(w)
                            \/ \E a \in Account : AgentPays(a)
  BY DEF StatementsNext, allVars, statementVars, ChangeVerified, Erase, Relink, Redivide, Issue, LoadWinners,
         MissingGitHub, SignUnderLock, RefuseUnderLock, IssueChecks, OtherRail, ReportPayment,
         RemindLinkWallet, claimNotice, send, releaseNotice, NoticeDies

\* A line somebody may be paid from is owed by the first statement.
LEMMA PayableIsOwed == ASSUME ChainAgrees, NEW a \in Account, NEW l \in Payable(a)
                       PROVE  <<a, l.amount>> \in Owed(chain[1])
<1>1. PICK i \in DOMAIN chain : l \in chain[i]
  BY DEF Payable, Range
<1>2. l.account = a
  BY DEF Payable
<1>3. <<a, l.amount>> \in Owed(chain[i])
  BY <1>1, <1>2 DEF Owed
<1>4. QED
  BY <1>3 DEF ChainAgrees

\* A statement that supersedes another owes what that one did; the agent pays what is owed.
LEMMA PayKept == ASSUME Typed, Signing, PayInv, [StatementsNext]_allVars PROVE PayInv'
<1>1. CASE UNCHANGED <<chain, paid>>
  BY <1>1 DEF PayInv, ChainAgrees, PaidLater, PaidAsSigned
<1>2. ASSUME NEW w \in Writer, IssueCommits(w)
      PROVE  PayInv'
  <2>1. paid' = paid /\ chain' = Append(chain, read[w]) /\ MaySign(w)
    BY <1>2 DEF IssueCommits, Commit, Signing, Inside
  <2>2. chain \in Seq(SUBSET Line)
    BY DEF Typed, StatementsTypeOK
  <2>3. CASE chain = <<>>
    BY <2>1, <2>3 DEF PayInv, ChainAgrees, PaidLater, PaidAsSigned
  <2>4. CASE chain # <<>>
    <3>1. Owed(read[w]) = Owed(chain[Len(chain)])
      BY <2>1, <2>4 DEF MaySign, compareWithPrevious, Last
    <3>2. Owed(read[w]) = Owed(chain[1])
      BY <2>2, <2>4, <3>1 DEF PayInv, ChainAgrees
    <3>3. /\ DOMAIN chain' = DOMAIN chain \cup {Len(chain) + 1}
          /\ \A i \in DOMAIN chain : chain'[i] = chain[i]
          /\ chain'[Len(chain) + 1] = read[w]
          /\ 1 \in DOMAIN chain /\ chain' # <<>>
      BY <2>1, <2>2, <2>4
    <3>4. ChainAgrees'
      BY <3>2, <3>3 DEF PayInv, ChainAgrees
    <3>5. QED
      BY <2>1, <3>3, <3>4 DEF PayInv, PaidLater, PaidAsSigned
  <2>5. QED
    BY <2>3, <2>4
<1>3. ASSUME NEW a \in Account, AgentPays(a)
      PROVE  PayInv'
  <2>1. PICK l \in Payable(a) : paid' = [paid EXCEPT ![a] = l.amount]
    BY <1>3 DEF AgentPays
  <2>2. chain' = chain /\ chain # <<>>
    BY <1>3, <2>1 DEF AgentPays, Payable, Range
  <2>3. <<a, l.amount>> \in Owed(chain[1])
    BY PayableIsOwed DEF PayInv
  <2>4. paid \in [Account -> Nat]
    BY DEF Typed, StatementsTypeOK
  <2>5. PaidAsSigned'
    BY <2>1, <2>2, <2>3, <2>4 DEF PayInv, PaidAsSigned
  <2>6. QED
    BY <2>2, <2>5 DEF PayInv, ChainAgrees, PaidLater
<1>4. QED
  BY <1>1, <1>2, <1>3, ChainOrPaid

-----------------------------------------------------------------------------
(* Who is told.                                                                *)

\* A claim that is held has told nobody with an answer, and is held once; who was told with
\* an answer stays claimed.
NoticeInv ==
  /\ \A t \in tasks : t.claimed => Claims(t) \in claimed /\ told[Claims(t)] = unanswered[Claims(t)]
  /\ \A t, u \in tasks : t.claimed /\ u.claimed /\ Claims(t) = Claims(u) => t = u
  /\ \A c \in Kind \X Account : told[c] # unanswered[c] => told[c] = 1 + unanswered[c] /\ c \in claimed

\* Whatever does not handle a notice claims and tells nothing, and adds only unclaimed tasks.
LEMMA NewTasksUnclaimed == ASSUME [StatementsNext]_allVars,
                                  ~\E t \in tasks : claimNotice(t) \/ send(t) \/ releaseNotice(t) \/ NoticeDies(t)
                           PROVE  UNCHANGED <<claimed, told, unanswered>> /\ \A t \in tasks' : t \in tasks \/ ~t.claimed
  BY DEF StatementsNext, allVars, statementVars, notices, ChangeVerified, Erase, Relink, Redivide, Issue, LoadWinners,
         MissingGitHub, SignUnderLock, RefuseUnderLock, IssueChecks, IssueCommits, OtherRail, AgentPays, ReportPayment,
         NewTask, RemindLinkWallet

\* A notice is told under a claim nobody else holds, and given back only unanswered.
LEMMA NoticeKept == ASSUME Typed, NoticeInv, [StatementsNext]_allVars PROVE NoticeInv'
<1>. USE DEF NoticeInv
<1>1. CASE ~\E t \in tasks : claimNotice(t) \/ send(t) \/ releaseNotice(t) \/ NoticeDies(t)
  BY <1>1, NewTasksUnclaimed
<1>2. ASSUME NEW t \in tasks, claimNotice(t)
      PROVE  NoticeInv'
  <2>1. t \in Task
    BY DEF Typed, StatementsTypeOK
  <2>2. told' = told /\ unanswered' = unanswered
    BY <1>2 DEF claimNotice
  <2>3. CASE tasks' = tasks \ {t} /\ UNCHANGED claimed
    BY <2>2, <2>3
  <2>4. CASE /\ Claims(t) \notin claimed /\ claimed' = claimed \cup {Claims(t)}
             /\ tasks' = (tasks \ {t}) \cup {[t EXCEPT !.claimed = TRUE]}
    <3>1. PICK u : /\ u = [t EXCEPT !.claimed = TRUE]
                   /\ u.claimed /\ Claims(u) = Claims(t)
      BY <2>1, ClaimedTask
    <3>2. Claims(t) \in Kind \X Account
      BY <2>1 DEF Typed, StatementsTypeOK, Task, Claims
    <3>3. told[Claims(t)] = unanswered[Claims(t)]
      BY <2>4, <3>2
    <3>4. QED
      BY <2>2, <2>4, <3>1, <3>3
  <2>5. QED
    BY <1>2, <2>3, <2>4 DEF claimNotice
<1>3. ASSUME NEW t \in tasks, send(t)
      PROVE  NoticeInv'
  <2>1. Claims(t) \in Kind \X Account /\ told \in [Kind \X Account -> Nat] /\ unanswered \in [Kind \X Account -> Nat]
    BY DEF Typed, StatementsTypeOK, Task, Claims
  <2>2. /\ t.claimed /\ tasks' = tasks \ {t} /\ claimed' = claimed /\ unanswered' = unanswered
    BY <1>3 DEF send
  <2>3. PICK shown \in {0, 1} : told' = [told EXCEPT ![Claims(t)] = @ + shown]
    BY <1>3 DEF send
  <2>4. /\ told'[Claims(t)] = shown + unanswered[Claims(t)]
        /\ \A c \in Kind \X Account : c # Claims(t) => told'[c] = told[c]
    BY <2>1, <2>2, <2>3
  <2>5. \A u \in tasks : u.claimed => Claims(u) \in Kind \X Account
    BY DEF Typed, StatementsTypeOK, Task, Claims
  <2>6. QED
    BY <2>1, <2>2, <2>3, <2>4, <2>5
<1>4. ASSUME NEW t \in tasks, releaseNotice(t)
      PROVE  NoticeInv'
  <2>1. Claims(t) \in Kind \X Account /\ told \in [Kind \X Account -> Nat] /\ unanswered \in [Kind \X Account -> Nat]
    BY DEF Typed, StatementsTypeOK, Task, Claims
  <2>2. PICK stored \in {0, 1} : /\ told' = [told EXCEPT ![Claims(t)] = @ + stored]
                                 /\ unanswered' = [unanswered EXCEPT ![Claims(t)] = @ + stored]
    BY <1>4 DEF releaseNotice
  <2>3. t.claimed /\ tasks' = tasks \ {t} /\ claimed' = claimed \ {Claims(t)}
    BY <1>4 DEF releaseNotice
  <2>4. told[Claims(t)] = unanswered[Claims(t)] /\ told'[Claims(t)] = unanswered'[Claims(t)]
    BY <2>1, <2>2, <2>3
  <2>5. \A c \in Kind \X Account : c # Claims(t) => told'[c] = told[c] /\ unanswered'[c] = unanswered[c]
    BY <2>1, <2>2
  <2>6. \A u \in tasks : u.claimed => Claims(u) \in Kind \X Account
    BY DEF Typed, StatementsTypeOK, Task, Claims
  <2>7. QED
    BY <2>1, <2>3, <2>4, <2>5, <2>6
<1>5. ASSUME NEW t \in tasks, NoticeDies(t)
      PROVE  NoticeInv'
  BY <1>5 DEF NoticeDies
<1>6. QED
  BY <1>1, <1>2, <1>3, <1>4, <1>5

-----------------------------------------------------------------------------
\* The inductive invariant of the statements, beside that of the rails.
StatementsInv == IInv /\ Typed /\ Signing /\ PayInv /\ NoticeInv

\* It holds of every reachable state.
LEMMA StatementsInductive == StatementsSpec => []StatementsInv
<1>1. StatementsInit => StatementsInv
  <2>. SUFFICES ASSUME StatementsInit PROVE StatementsInv
    OBVIOUS
  <2>1. IInv
    BY InitIInv DEF StatementsInit
  <2>2. Typed
    BY InitTyped
  <2>3. Signing
    BY DEF StatementsInit, Init, Signing, Inside
  <2>4. PayInv
    BY DEF StatementsInit, PayInv, ChainAgrees, PaidLater, PaidAsSigned
  <2>5. NoticeInv
    BY DEF StatementsInit, NoticeInv
  <2>6. QED
    BY <2>1, <2>2, <2>3, <2>4, <2>5 DEF StatementsInv
<1>2. StatementsInv /\ [StatementsNext]_allVars => StatementsInv'
  <2>1. IInv /\ [Next]_vars => IInv'
    BY TypeKept, LockKept, ChecksKept, ExclusionKept DEF IInv
  <2>2. QED
    BY <2>1, StepKeepsRails, TypedKept, SigningKept, PayKept, NoticeKept DEF StatementsInv
<1>3. QED
  BY <1>1, <1>2, PTL DEF StatementsSpec

\* Every variable of the statements keeps its type.
THEOREM StatementsTypeCorrect == StatementsSpec => []StatementsTypeOK
<1>1. StatementsInv => StatementsTypeOK
  BY DEF StatementsInv, Typed
<1>2. QED
  BY StatementsInductive, <1>1, PTL

\* Whichever of any number of statements the agent pays from, an account gets what the
\* first of them signed for it (grainhack/issue.go: compareWithPrevious under the lock).
THEOREM PaysWhatWasSigned == StatementsSpec => []PaidAsSigned
<1>1. StatementsInv => PaidAsSigned
  BY DEF StatementsInv, PayInv
<1>2. QED
  BY StatementsInductive, <1>1, PTL

\* However often notices are claimed, given back, retried and lost, nobody is told the same
\* thing of one event pool twice, but for one more for each notice that was stored without
\* an answer (grainhack/issue.go: claimNotice, releaseNotice; notifications/service.go).
THEOREM NobodyToldTwice == StatementsSpec => []ToldOnce
<1>1. StatementsInv => ToldOnce
  <2>1. ASSUME StatementsInv, NEW c \in Kind \X Account
        PROVE  told[c] <= 1 + unanswered[c]
    <3>1. told[c] \in Nat /\ unanswered[c] \in Nat
      BY <2>1 DEF StatementsInv, Typed, StatementsTypeOK
    <3>2. told[c] = unanswered[c] \/ told[c] = 1 + unanswered[c]
      BY <2>1, <3>1 DEF StatementsInv, NoticeInv
    <3>3. QED
      BY <3>1, <3>2
  <2>2. QED
    BY <2>1 DEF ToldOnce
<1>2. QED
  BY StatementsInductive, <1>1, PTL
=============================================================================
