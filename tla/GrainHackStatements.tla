------------------------- MODULE GrainHackStatements -------------------------
(* The results statements of one event pool: who is owed what, signed for the  *)
(* agent that pays on Solana, each statement superseding the one before; the   *)
(* payments the agent makes and reports; and the notices the winners get. The  *)
(* transactions that issue statements run among those of the other rails       *)
(* (internal/grainhack over the triggers of PayoutRails).                      *)
EXTENDS PayoutRails, SequencesExt

CONSTANTS Person,      \* the winners
          Account,     \* GitHub accounts
          Divisions,   \* the amounts the settlement may come to, per winner
          MaxMoves,    \* bound: changes of accounts, verification, amounts, requests
          MaxUpsets    \* bound: notices that fail or die

ASSUME BoundsAssumption ==
  /\ MaxMoves \in Nat /\ MaxUpsets \in Nat
  /\ Divisions \subseteq [Person -> Nat \ {0}]

\* A GitHub account belongs to one person: there is one for each winner to begin with.
ASSUME AccountsAssumption == \E f \in [Person -> Account] : IsInjective(f)

VARIABLES
  account, verified, erased,  \* per winner: github_accounts, kyc_status, erased_at
  division,    \* what SettlementFor comes to
  read,        \* read[w]: the lines Issue has loaded, or None
  chain,       \* the statements, oldest first: their lines
  paid,        \* paid[a]: what the agent has paid to account a
  reports,     \* grainhack_payment_reports: the accounts with one
  claimed,     \* grainhack_notices: <<kind, account>>
  tasks,       \* notices under way
  told,        \* history: how often an account was told of a kind
  unanswered,  \* history: how many of these notices the database stored without a reply
  moves, upsets

people == <<account, verified, erased, division, moves>>
notices == <<claimed, tasks, told, unanswered, upsets>>
statementVars == <<people, read, chain, paid, reports, notices>>

Kind == {"held_kyc", "paid", "link_wallet"}
Line == [person : Person, account : Account, amount : Nat, status : {"payable", "held_kyc"}]
Task == [kind : Kind, account : Account, person : Person, claimed : BOOLEAN]

StatementsInit ==
  /\ Init
  /\ account = CHOOSE f \in [Person -> Account] : IsInjective(f)
  /\ verified \in [Person -> BOOLEAN]
  /\ erased = [p \in Person |-> FALSE]
  /\ division \in Divisions
  /\ read = [w \in Writer |-> None] /\ chain = <<>>
  /\ paid = [a \in Account |-> 0] /\ reports = {}
  /\ claimed = {} /\ tasks = {} /\ told = [c \in Kind \X Account |-> 0]
  /\ unanswered = told
  /\ moves = 0 /\ upsets = 0

Move == moves < MaxMoves /\ moves' = moves + 1

-----------------------------------------------------------------------------
(* What is known of the winners changes.                                       *)

\* A GitHub account belongs to one person at a time.
Relink(p, a) ==
  /\ Move /\ ~erased[p] /\ \A q \in Person : account[q] # a
  /\ account' = [account EXCEPT ![p] = a]
  /\ UNCHANGED <<vars, verified, erased, division, read, chain, paid, reports, notices>>

ChangeVerified(p) ==
  /\ Move /\ ~erased[p]
  /\ verified' = [verified EXCEPT ![p] = ~@]
  /\ UNCHANGED <<vars, account, erased, division, read, chain, paid, reports, notices>>

\* An erased account keeps neither its GitHub connection nor its verification.
Erase(p) ==
  /\ Move /\ ~erased[p]
  /\ erased' = [erased EXCEPT ![p] = TRUE]
  /\ account' = [account EXCEPT ![p] = None]
  /\ verified' = [verified EXCEPT ![p] = FALSE]
  /\ UNCHANGED <<vars, division, read, chain, paid, reports, notices>>

\* A verdict is overridden after the division: SettlementFor reads live verdicts.
Redivide(d) ==
  /\ Move /\ d # division /\ division' = d
  /\ UNCHANGED <<vars, account, verified, erased, read, chain, paid, reports, notices>>

-----------------------------------------------------------------------------
(* Issue.                                                                      *)

status(p) == IF verified[p] THEN "payable" ELSE "held_kyc"

\* The latest statement's line of a person, as a set of one or none.
erasedWinnerLine(p) == IF chain = <<>> THEN {} ELSE {l \in Last(chain) : l.person = p}

Current(p) == [person |-> p, account |-> account[p], amount |-> division[p], status |-> status(p)]

\* An erased winner keeps the account and status of the line there is.
LinesOf(p) ==
  IF erased[p] THEN {[l EXCEPT !.amount = division[p]] : l \in erasedWinnerLine(p)}
               ELSE {Current(p)}

\* The amounts are taken from the settlement, the people are looked up, both
\* before the transaction that takes the event pool's lock.
LoadWinners(w) ==
  /\ pc[w] = "wait" /\ rail[w] = "grainhack" /\ read[w] = None
  /\ \A p \in Person : LinesOf(p) # {}
  /\ read' = [read EXCEPT ![w] = UNION {LinesOf(p) : p \in Person}]
  /\ UNCHANGED <<vars, people, chain, paid, reports, notices>>

\* A winner has no GitHub account and no earlier line.
MissingGitHub(w) ==
  /\ pc[w] = "wait" /\ rail[w] = "grainhack" /\ read[w] = None
  /\ \E p \in Person : LinesOf(p) = {}
  /\ Refuse(w)
  /\ UNCHANGED statementVars

Owed(lines) == {<<l.account, l.amount>> : l \in lines}
Standing(lines) == {<<l.account, l.status>> : l \in lines}

AnyChange(prev, lines) == Standing(prev) # Standing(lines) \* mutant

\* A statement may supersede another only to change a status, never an amount
\* or an account.
compareWithPrevious(prev, lines) ==
  /\ Cardinality(prev) = Cardinality(lines) /\ Owed(prev) = Owed(lines)
  /\ Standing(prev) # Standing(lines)

MaySign(w) == chain # <<>> => compareWithPrevious(Last(chain), read[w])

\* The lock, then the latest statement read under it.
SignUnderLock(w) ==
  /\ rail[w] = "grainhack" /\ read[w] # None /\ MaySign(w)
  /\ TakeLock(w)
  /\ UNCHANGED statementVars

RefuseUnderLock(w) ==
  /\ pc[w] = "wait" /\ lock = None
  /\ rail[w] = "grainhack" /\ read[w] # None /\ ~MaySign(w)
  /\ Refuse(w) /\ read' = [read EXCEPT ![w] = None]
  /\ UNCHANGED <<people, chain, paid, reports, notices>>

\* Statement and lines are inserted and committed; then the held are told.
IssueCommits(w) ==
  /\ rail[w] = "grainhack" /\ Commit(w)
  /\ chain' = Append(chain, read[w])
  /\ tasks' = tasks \cup {[kind |-> "held_kyc", account |-> l.account, person |-> l.person,
                           claimed |-> FALSE] : l \in {l \in read[w] : l.status = "held_kyc"}}
  /\ read' = [read EXCEPT ![w] = None]
  /\ UNCHANGED <<people, paid, reports, claimed, told, unanswered, upsets>>

\* The triggers' checks, and every way to drop the transaction.
IssueChecks(w) ==
  /\ rail[w] = "grainhack" /\ (SecondCheck(w) \/ ThirdCheck(w) \/ Abort(w))
  /\ read' = IF pc'[w] = "idle" THEN [read EXCEPT ![w] = None] ELSE read
  /\ UNCHANGED <<people, chain, paid, reports, notices>>

Issue(w) ==
  /\ rail[w] = "grainhack" /\ Begin(w)
  /\ UNCHANGED statementVars

OtherRail(w) ==
  /\ rail[w] # "grainhack" /\ (Begin(w) \/ TakeLock(w) \/ Step(w) \/ Abort(w))
  /\ UNCHANGED statementVars

-----------------------------------------------------------------------------
(* The agent pays from whichever statement it holds, each account once.        *)

Payable(a) == {l \in UNION Range(chain) : l.account = a /\ l.status = "payable"}

AgentPays(a) ==
  /\ paid[a] = 0
  /\ \E l \in Payable(a) : paid' = [paid EXCEPT ![a] = l.amount]
  /\ UNCHANGED <<vars, people, read, chain, reports, notices>>

NewTask(kind, l) ==
  tasks' = tasks \cup {[kind |-> kind, account |-> l.account, person |-> l.person, claimed |-> FALSE]}

\* A report is recorded once; the same report again is a duplicate and tells nobody.
ReportPayment(a) ==
  /\ paid[a] > 0 /\ a \notin reports
  /\ reports' = reports \cup {a}
  /\ \E l \in Payable(a) : l.amount = paid[a] /\ NewTask("paid", l)
  /\ UNCHANGED <<vars, people, read, chain, paid, claimed, told, unanswered, upsets>>

\* A payable winner without a wallet is asked for one, unless paid or erased by now.
RemindLinkWallet(l) ==
  /\ Move
  /\ l \in Payable(l.account) /\ ~erased[l.person] /\ l.account \notin reports
  /\ NewTask("link_wallet", l)
  /\ UNCHANGED <<vars, account, verified, erased, division, read, chain, paid, reports,
                 claimed, told, unanswered, upsets>>

Claims(t) == <<t.kind, t.account>>

ClaimBlindly(t) == \* mutant
  /\ t \in tasks /\ ~t.claimed
  /\ tasks' = (tasks \ {t}) \cup {[t EXCEPT !.claimed = TRUE]}
  /\ claimed' = claimed \cup {Claims(t)}
  /\ UNCHANGED <<vars, people, read, chain, paid, reports, told, unanswered, upsets>>

\* The notice is claimed, or was before, or (send) has nobody to reach any more.
claimNotice(t) ==
  /\ t \in tasks /\ ~t.claimed
  /\ IF Claims(t) \in claimed \/ (t.kind # "link_wallet" /\ erased[t.person])
     THEN tasks' = tasks \ {t} /\ UNCHANGED claimed
     ELSE /\ tasks' = (tasks \ {t}) \cup {[t EXCEPT !.claimed = TRUE]}
          /\ claimed' = claimed \cup {Claims(t)}
  /\ UNCHANGED <<vars, people, read, chain, paid, reports, told, unanswered, upsets>>

\* The notification is inserted, unless its receiver has switched these off: that is no error.
send(t) ==
  /\ t \in tasks /\ t.claimed
  /\ tasks' = tasks \ {t}
  /\ \E shown \in {0, 1} : told' = [told EXCEPT ![Claims(t)] = @ + shown]
  /\ UNCHANGED <<vars, people, read, chain, paid, reports, claimed, unanswered, upsets>>

\* The insert returns an error and the claim is given back, also where the insert had
\* committed before the connection broke.
releaseNotice(t) ==
  /\ t \in tasks /\ t.claimed
  /\ upsets < MaxUpsets /\ upsets' = upsets + 1
  /\ tasks' = tasks \ {t} /\ claimed' = claimed \ {Claims(t)}
  /\ \E stored \in {0, 1} : /\ told' = [told EXCEPT ![Claims(t)] = @ + stored]
                            /\ unanswered' = [unanswered EXCEPT ![Claims(t)] = @ + stored]
  /\ UNCHANGED <<vars, people, read, chain, paid, reports>>

\* The process dies before it has told whom it meant to tell.
NoticeDies(t) ==
  /\ t \in tasks
  /\ upsets < MaxUpsets /\ upsets' = upsets + 1
  /\ tasks' = tasks \ {t}
  /\ UNCHANGED <<vars, people, read, chain, paid, reports, claimed, told, unanswered>>

-----------------------------------------------------------------------------
StatementsNext ==
  \/ \E p \in Person : ChangeVerified(p) \/ Erase(p) \/ \E a \in Account : Relink(p, a)
  \/ \E d \in Divisions : Redivide(d)
  \/ \E w \in Writer :
       \/ Issue(w) \/ LoadWinners(w) \/ MissingGitHub(w)
       \/ SignUnderLock(w) \/ RefuseUnderLock(w) \/ IssueChecks(w) \/ IssueCommits(w)
       \/ OtherRail(w)
  \/ \E a \in Account : AgentPays(a) \/ ReportPayment(a)
  \/ \E l \in UNION Range(chain) : RemindLinkWallet(l)
  \/ \E t \in tasks : claimNotice(t) \/ send(t) \/ releaseNotice(t) \/ NoticeDies(t)

allVars == <<vars, statementVars>>

StatementsSpec == StatementsInit /\ [][StatementsNext]_allVars

-----------------------------------------------------------------------------
StatementsTypeOK ==
  /\ TypeOK
  /\ account \in [Person -> Account \cup {None}]
  /\ verified \in [Person -> BOOLEAN] /\ erased \in [Person -> BOOLEAN]
  /\ division \in Divisions
  /\ read \in [Writer -> {None} \cup SUBSET Line]
  /\ chain \in Seq(SUBSET Line)
  /\ paid \in [Account -> Nat] /\ reports \subseteq Account
  /\ claimed \subseteq Kind \X Account /\ tasks \subseteq Task
  /\ told \in [Kind \X Account -> Nat] /\ unanswered \in [Kind \X Account -> Nat]
  /\ moves \in 0..MaxMoves /\ upsets \in 0..MaxUpsets

\* The statements are composed from the steps of the rails, so what is proved of
\* PayoutRails carries over to them.
KeepsRails == Init /\ [][Next]_vars

\* However the winners' accounts, amounts and statuses change while statements
\* are issued one over the other, and whichever statement of the chain the agent
\* pays from, an account gets what the first statement signed for it, or nothing.
PaidAsSigned ==
  \A a \in Account : paid[a] > 0 => <<a, paid[a]>> \in Owed(chain[1])

\* Nobody is told the same thing of one event pool twice, however many statements name
\* them and reports and reminders are sent, retried, fail or race, but for notices that
\* were stored without the database's answer arriving: each of these costs one more.
ToldOnce == \A c \in Kind \X Account : told[c] <= 1 + unanswered[c]

\* As issue.go says of claimNotice and notifyHeld: once for each event pool, winner and kind.
ToldOnceAtAll == \A c \in Kind \X Account : told[c] <= 1
=============================================================================
