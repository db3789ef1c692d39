-------------------------------- MODULE Retention --------------------------------
(* What is kept for a fixed time and then erased: the records of identity resets,  *)
(* which name sessions Didit still has, and the payout records of erased accounts   *)
(* of one event (internal/erasure/retention.go). Several processes pass.            *)
EXTENDS Naturals, Sequences, FiniteSets, SequencesExt

CONSTANTS
  Person, DiditSession, ResetRecord,   \* ResetRecord = 1..n, in the order they are written
  RetentionPass,                       \* processes inside a pass
  RecordTable,                         \* the tables of PayoutSteps that have rows
  NoSession

\* A line belongs to a statement (a foreign key).
ASSUME RetentionAssumption ==
  /\ ResetRecord \subseteq Nat /\ NoSession \notin DiditSession
  /\ "grainhack_results_statement_lines" \in RecordTable => "grainhack_results_statements" \in RecordTable

VARIABLES
  atDidit,      \* the sessions Didit still has
  sessionOf,    \* users.kyc_session_id
  opened,    \* the sessions created so far
  starting,     \* starts under way: the session created, or none when the one there was found gone
  replaced,     \* history: sessions a start wrote over, or never stored
  resetRecord,  \* kyc_reset_audit: the session it names and its age
  resetPass,    \* purgeResetRecords under way: what it selected and what it will erase
  tombs,        \* accounts with erased_at
  payoutRow,    \* the payout records, by table and account
  document,     \* the accounts named in the event's signed results statement
  payoutPass    \* purgePayoutRecords under way: its plan; refused, if it would not commit one

resetVars == <<atDidit, sessionOf, opened, starting, replaced, resetRecord, resetPass>>
payoutVars == <<tombs, payoutRow, document, payoutPass>>
retentionVars == <<resetVars, payoutVars>>

NoReset == [session |-> NoSession, age |-> "none"]
NoResetPass == [on |-> FALSE, left |-> {}, erase |-> {}]
NoPlan == [rows |-> {}, tombs |-> {}, refused |-> FALSE]

\* An old record may name the session its person has again, or one a newer record names.
ResetsInit ==
  /\ sessionOf \in [Person -> {NoSession} \cup DiditSession]
  /\ \A p, q \in Person : p # q => sessionOf[p] = NoSession
  /\ resetRecord \in [ResetRecord -> {NoReset} \cup [session : DiditSession, age : {"fresh", "old"}]]
  /\ \A k, l \in ResetRecord : k < l =>
       /\ resetRecord[k] = NoReset => resetRecord[l] = NoReset
       /\ resetRecord[k].age = "fresh" => resetRecord[l].age # "old"
  /\ atDidit = ({sessionOf[p] : p \in Person} \cup {resetRecord[k].session : k \in ResetRecord}) \ {NoSession}
  /\ opened = atDidit /\ starting = {} /\ replaced = {}
  /\ resetPass = [x \in RetentionPass |-> NoResetPass]

-----------------------------------------------------------------------------
(* Reset records.                                                              *)

PayoutsStand == UNCHANGED payoutVars
NobodyStarts == UNCHANGED <<opened, starting, replaced>>
RecordsStand == PayoutsStand /\ UNCHANGED <<resetRecord, resetPass>>

\* A start reads the row, with no lock, and goes on when there is no session there or its
\* status, which is left out, protects none. A session is created at Didit before it is stored.
CreateSession(p, s) ==
  /\ s \notin opened /\ opened' = opened \cup {s} /\ atDidit' = atDidit \cup {s}
  /\ starting' = starting \cup {<<p, s>>} /\ UNCHANGED <<sessionOf, replaced>> /\ RecordsStand

\* A protected session that Didit says is gone, to the start or to the poll, is expired.
FindsGone(p) ==
  /\ sessionOf[p] \notin atDidit \cup {NoSession} /\ starting' = starting \cup {<<p, NoSession>>}
  /\ UNCHANGED <<atDidit, sessionOf, opened, replaced>> /\ RecordsStand

\* Either writes the row by the person's id, over whatever session is there by then, and
\* leaves no record of it.
StoreSession(p, s) ==
  /\ <<p, s>> \in starting /\ starting' = starting \ {<<p, s>>}
  /\ sessionOf' = [sessionOf EXCEPT ![p] = s] /\ replaced' = replaced \cup {sessionOf[p]}
  /\ UNCHANGED <<atDidit, opened>> /\ RecordsStand

StartDies(p, s) ==
  /\ <<p, s>> \in starting /\ starting' = starting \ {<<p, s>>} /\ replaced' = replaced \cup {s}
  /\ UNCHANGED <<atDidit, sessionOf, opened>> /\ RecordsStand

\* An administrator deletes a session in Didit's console.
DeletedAtDidit(s) ==
  /\ s \in atDidit /\ atDidit' = atDidit \ {s} /\ UNCHANGED sessionOf /\ NobodyStarts /\ RecordsStand

\* The session is detached from the account and named by the record, in one transaction.
ResetVerification(p, k) ==
  /\ resetRecord[k] = NoReset /\ \A l \in ResetRecord : l < k => resetRecord[l] # NoReset
  /\ resetRecord' = [resetRecord EXCEPT ![k] = [session |-> sessionOf[p], age |-> "fresh"]]
  /\ sessionOf' = [sessionOf EXCEPT ![p] = NoSession]
  /\ PayoutsStand /\ NobodyStarts /\ UNCHANGED <<atDidit, resetPass>>

\* ResetRecordRetention passes, for the older record first.
ResetRecordAges(k) ==
  /\ resetRecord[k].age = "fresh" /\ \A l \in ResetRecord : l < k => resetRecord[l].age # "fresh"
  /\ resetRecord' = [resetRecord EXCEPT ![k].age = "old"]
  /\ PayoutsStand /\ NobodyStarts /\ UNCHANGED <<atDidit, sessionOf, resetPass>>

UsedAnywhere(k) == \* mutant
  LET s == resetRecord[k].session IN
  \/ \E p \in Person : sessionOf[p] = s
  \/ \E l \in ResetRecord \ {k} : resetRecord[l].session = s /\ resetRecord[l].age \in {"fresh", "old"}

\* Somebody's current session, or one a record that stays names.
stillUsed(k) ==
  LET s == resetRecord[k].session IN
  \/ \E p \in Person : sessionOf[p] = s
  \/ \E l \in ResetRecord \ {k} : resetRecord[l].session = s /\ resetRecord[l].age = "fresh"

needsDidit(k) == resetRecord[k].session # NoSession /\ ~stillUsed(k)

ResetPassGoes(x, pass) == resetPass' = [resetPass EXCEPT ![x] = pass]

selectResetRecords(x) ==
  LET due == {k \in ResetRecord : resetRecord[k].age = "old"} IN
  /\ ~resetPass[x].on /\ due # {}
  /\ ResetPassGoes(x, [on |-> TRUE, left |-> {k \in due : needsDidit(k)}, erase |-> {k \in due : ~needsDidit(k)}])
  /\ PayoutsStand /\ NobodyStarts /\ UNCHANGED <<atDidit, sessionOf, resetRecord>>

EraseAnyway(x, k, answer) == \* mutant
  /\ k \in resetPass[x].left
  /\ ResetPassGoes(x, [resetPass[x] EXCEPT !.left = @ \ {k}, !.erase = @ \cup {k}])
  /\ atDidit' = IF answer = "failed" THEN atDidit ELSE atDidit \ {resetRecord[k].session}
  /\ PayoutsStand /\ NobodyStarts /\ UNCHANGED <<sessionOf, resetRecord>>

\* A session already gone counts as deleted; unreachable, not configured or an answer
\* lost on its way, and the record waits for the next pass.
DeleteDiditSession(x, k, answer) ==
  /\ k \in resetPass[x].left
  /\ ResetPassGoes(x, [resetPass[x] EXCEPT !.left = @ \ {k}, !.erase = IF answer = "done" THEN @ \cup {k} ELSE @])
  /\ atDidit' = IF answer = "failed" THEN atDidit ELSE atDidit \ {resetRecord[k].session}
  /\ PayoutsStand /\ NobodyStarts /\ UNCHANGED <<sessionOf, resetRecord>>

purgeResetRecords(x) ==
  /\ resetPass[x].on /\ resetPass[x].left = {} /\ ResetPassGoes(x, NoResetPass)
  /\ resetRecord' = [k \in ResetRecord |-> IF k \in resetPass[x].erase THEN [resetRecord[k] EXCEPT !.age = "gone"]
                                           ELSE resetRecord[k]]
  /\ PayoutsStand /\ NobodyStarts /\ UNCHANGED <<atDidit, sessionOf>>

ResetPassDies(x) ==
  /\ resetPass[x].on /\ ResetPassGoes(x, NoResetPass)
  /\ PayoutsStand /\ NobodyStarts /\ UNCHANGED <<atDidit, sessionOf, resetRecord>>

ResetRecordsNext ==
  \/ \E s \in DiditSession : DeletedAtDidit(s)
  \/ \E p \in Person :
       \/ FindsGone(p) \/ \E k \in ResetRecord : ResetVerification(p, k)
       \/ \E s \in DiditSession : CreateSession(p, s)
       \/ \E s \in DiditSession \cup {NoSession} : StoreSession(p, s) \/ StartDies(p, s)
  \/ \E k \in ResetRecord : ResetRecordAges(k)
  \/ \E x \in RetentionPass :
       \/ selectResetRecords(x) \/ purgeResetRecords(x) \/ ResetPassDies(x)
       \/ \E k \in ResetRecord, answer \in {"done", "lost", "failed"} : DeleteDiditSession(x, k, answer)

-----------------------------------------------------------------------------
(* Payout records of one event. A row is "open", "recent" (finished less than  *)
(* PayoutRecordYears ago), "old" or "gone"; a leg may have "failed" too, and a *)
(* statement line is "held" or "payable".                                      *)

VerdictsFirst == \* mutant
  << "sponsored_claims", "keeperhub_payout_legs", "keeperhub_payout_exclusions", "settlement_holds", "settlement_lines",
     "redemptions", "hackathon_maintainer_payouts", "hackathon_model_calls", "hackathon_verdicts", "hackathon_appeals",
     "hackathon_assignments", "hackathon_draws", "grainhack_payment_reports", "grainhack_results_statement_lines",
     "grainhack_results_statements" >>
RedactFirst == \* mutant
  << "sponsored_claims", "keeperhub_payout_legs", "keeperhub_payout_exclusions", "settlement_holds", "settlement_lines",
     "redemptions", "hackathon_maintainer_payouts", "hackathon_model_calls", "hackathon_appeals", "hackathon_verdicts",
     "hackathon_assignments", "hackathon_draws", "grainhack_payment_reports", "grainhack_results_statements",
     "grainhack_results_statement_lines" >>

payoutRetentionSteps ==
  << "sponsored_claims", "keeperhub_payout_legs", "keeperhub_payout_exclusions", "settlement_holds", "settlement_lines",
     "redemptions", "hackathon_maintainer_payouts", "hackathon_model_calls", "hackathon_appeals", "hackathon_verdicts",
     "hackathon_assignments", "hackathon_draws", "grainhack_payment_reports", "grainhack_results_statement_lines",
     "grainhack_results_statements" >>

Legs == "keeperhub_payout_legs"
Reports == "grainhack_payment_reports"
Lines == "grainhack_results_statement_lines"
Statements == "grainhack_results_statements"
OfTheEvent == {"hackathon_model_calls", "hackathon_appeals", "hackathon_verdicts", "hackathon_assignments",
               "hackathon_draws", Reports, Lines, Statements}

FirstStatus(t) == IF t = Lines THEN "held" ELSE IF t = Reports THEN "none" ELSE IF t \in OfTheEvent THEN "recent" ELSE "open"

PayoutsInit ==
  /\ tombs = {} /\ document = Person /\ payoutPass = NoPlan
  /\ payoutRow = [t \in RecordTable |-> [p \in Person |-> FirstStatus(t)]]

RetentionInit == ResetsInit /\ PayoutsInit

ResetsStand == UNCHANGED resetVars
RowGoes(t, p, to) == payoutRow' = [payoutRow EXCEPT ![t][p] = to]

EraseAccount(p) ==
  /\ p \notin tombs /\ tombs' = tombs \cup {p} /\ ResetsStand /\ UNCHANGED <<payoutRow, document, payoutPass>>

\* A payment is made, or its leg fails and a person resolves it; who was held verifies;
\* the agent reports what it paid.
PayoutProceeds(p) ==
  /\ \/ \E t \in RecordTable : payoutRow[t][p] \in {"open", "failed"} /\ RowGoes(t, p, "recent")
     \/ Legs \in RecordTable /\ payoutRow[Legs][p] = "open" /\ RowGoes(Legs, p, "failed")
     \/ Lines \in RecordTable /\ p \notin tombs /\ payoutRow[Lines][p] = "held" /\ RowGoes(Lines, p, "payable")
     \/ {Lines, Reports} \subseteq RecordTable /\ payoutRow[Lines][p] = "payable" /\ payoutRow[Reports][p] = "none"
        /\ RowGoes(Reports, p, "recent")
  /\ ResetsStand /\ UNCHANGED <<tombs, document, payoutPass>>

\* PayoutRecordYears pass.
YearsPass ==
  /\ \E t \in RecordTable, p \in Person : payoutRow[t][p] = "recent"
  /\ payoutRow' = [t \in RecordTable |-> [p \in Person |-> IF payoutRow[t][p] = "recent" THEN "old" ELSE payoutRow[t][p]]]
  /\ ResetsStand /\ UNCHANGED <<tombs, document, payoutPass>>

Status(t, p) == IF t \in RecordTable THEN payoutRow[t][p] ELSE "none"

\* Everything the event paid was paid long ago and nothing is still to be paid: somebody
\* held does not keep it open, and neither does a leg that failed.
paidEvents ==
  \A p \in Person :
    /\ \A t \in {Legs, "settlement_lines"} : Status(t, p) \notin {"open", "recent"}
    /\ Status(Reports, p) # "recent"
    /\ Status(Lines, p) = "payable" => Status(Reports, p) # "none"

Due(t, p) ==
  p \in tombs /\ IF t \in OfTheEvent THEN paidEvents /\ payoutRow[t][p] \notin {"none", "gone"} ELSE payoutRow[t][p] = "old"

\* Every step's rows and the erased accounts, from one snapshot, before any is acted on. Statements have one row, redacted
\* as often as a line of an erased account is in it.
planPayoutRecords ==
  /\ payoutPass = NoPlan /\ \E t \in RecordTable, p \in Person : Due(t, p)
  /\ payoutPass' = [NoPlan EXCEPT !.tombs = tombs, !.rows =
       {r \in RecordTable \X Person :
          IF r[1] = Statements THEN paidEvents /\ \E q \in tombs : Status(Lines, q) \in {"held", "payable"}
          ELSE Due(r[1], r[2])}]
  /\ ResetsStand /\ UNCHANGED <<tombs, payoutRow, document>>

Selected(t) == {p \in Person : <<t, p>> \in payoutPass.rows}

\* ON DELETE CASCADE.
Cascade(t) == IF t = "hackathon_verdicts" THEN {"hackathon_appeals"} ELSE {}

\* One step: its rows go, and a verdict takes its appeal with it. It is refused when it
\* finds fewer rows than were selected, or redacts a statement that has a line to go.
Act(done, t) ==
  IF ~done.ok \/ Selected(t) = {} THEN done
  ELSE IF t = Statements
  THEN LET left == {p \in Person : done.row[Lines][p] \in {"held", "payable"}} IN
       [done EXCEPT !.ok = left \cap payoutPass.tombs = {}, !.document = @ \cap left]
  ELSE [done EXCEPT !.ok = \A p \in Selected(t) : done.row[t][p] # "gone",
                    !.row = [u \in RecordTable |-> [p \in Person |->
                       IF p \in Selected(t) /\ u \in {t} \cup Cascade(t)
                       THEN "gone" ELSE done.row[u][p]]]]

\* One transaction, in the order of the steps; a row somebody has changed since the plan
\* fails it, to be planned again the next day.
purgePayoutRecords(disturbed) ==
  /\ payoutPass.rows # {}
  /\ LET run == FoldLeft(Act, [ok |-> TRUE, row |-> payoutRow, document |-> document], payoutRetentionSteps) IN
     IF disturbed THEN payoutPass' = NoPlan /\ UNCHANGED <<payoutRow, document>>
     ELSE IF ~run.ok THEN payoutPass' = [NoPlan EXCEPT !.refused = TRUE] /\ UNCHANGED <<payoutRow, document>>
     ELSE payoutPass' = NoPlan /\ payoutRow' = run.row /\ document' = run.document
  /\ ResetsStand /\ UNCHANGED tombs

PayoutRecordsNext ==
  \/ \E p \in Person : EraseAccount(p) \/ PayoutProceeds(p)
  \/ YearsPass \/ planPayoutRecords \/ \E disturbed \in BOOLEAN : purgePayoutRecords(disturbed)

RetentionSpec == RetentionInit /\ [][ResetRecordsNext \/ PayoutRecordsNext]_retentionVars

-----------------------------------------------------------------------------
\* Neither a reset nor a pass loses a session: whatever Didit answered, whoever died and
\* however many passes ran at once, one that Didit still has is somebody's, or a record
\* names it, unless a start is about to store it, wrote over it or never stored it.
SessionsNamed ==
  \A s \in atDidit : \/ s \in replaced \/ \E p \in Person : sessionOf[p] = s \/ <<p, s>> \in starting
                     \/ \E k \in ResetRecord : resetRecord[k].session = s /\ resetRecord[k].age \in {"fresh", "old"}

\* A pass never refuses its own plan, a payment is not forgotten while its line can still
\* be paid, and no statement names somebody whose line is gone.
RecordsGoTogether ==
  /\ ~payoutPass.refused
  /\ \A p \in Person : Status(Reports, p) = "gone" => Status(Lines, p) = "gone"
  /\ Lines \in RecordTable => \A p \in document : Status(Lines, p) # "gone"
=============================================================================
