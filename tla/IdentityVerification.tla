------------------------ MODULE IdentityVerification ------------------------
(* The identity verification of one account: its sessions at Didit, the three  *)
(* columns of its users row, and the writers of that row, each of which reads   *)
(* it, asks Didit and writes later: the start of a session, the status poll,    *)
(* the webhook and the reconciler, besides the administrator's reset            *)
(* (internal/handlers/kyc*.go, didit_webhook.go). The data of a decision is     *)
(* written and cleared with its status and is not kept apart from it.           *)
EXTENDS Naturals, FiniteSets

CONSTANTS
  Session,              \* the sessions Didit can create for the account
  Writer,               \* the writers of the row that run
  MaxMoves, MaxUpsets,  \* bounds: what happens at Didit; requests and passes that die
  None

ASSUME WriterAssumption == Writer \subseteq {"start", "poll", "webhook", "reconcile"}
ASSUME BoundsAssumption == {MaxMoves, MaxUpsets} \subseteq Nat

VARIABLES
  didit,   \* the status of each session at Didit
  user,    \* users: kyc_status, kyc_session_id, erased_at
  audit,   \* kyc_reset_audit.previous_session_id
  alerts,  \* kyc_review_alerts.session_id
  req,     \* each writer's request, or pass, that has an answer and has not written it
  moves, upsets

verification == <<didit, user, audit, alerts, req, moves>>

DiditStatus == {"unused", "not_started", "in_review", "approved", "declined", "gone"}
KYCStatus == {"none", "not_started", "in_review", "verified", "rejected", "expired"}
Request == [pc : {"idle", "expire", "create"}, session : Session \cup {None}, status : KYCStatus]
             \cup [pc : {"apply", "store", "alert"}, session : Session, status : KYCStatus]
NoRequest == [pc |-> "idle", session |-> None, status |-> "none"]

Live == {s \in Session : didit[s] \notin {"unused", "gone"}}

\* What each answer of Didit means here.
mapDiditStatus(d) == CASE d = "approved" -> "verified" [] d = "declined" -> "rejected" [] OTHER -> d
Readable == {"not_started", "in_review", "approved", "declined"}

canStartNewKYCSession(status) == status \in {"none", "expired", "not_started", "rejected"}

VerificationInit ==
  /\ didit = [s \in Session |-> "unused"]
  /\ user = [status |-> "none", session |-> None, erased |-> FALSE]
  /\ audit = {} /\ alerts = {}
  /\ req = [w \in Writer |-> NoRequest]
  /\ moves = 0 /\ upsets = 0

Ends(w) == req' = [req EXCEPT ![w] = NoRequest]
Goes(w, pc) == req' = [req EXCEPT ![w].pc = pc]

-----------------------------------------------------------------------------
(* Didit. *)

\* The person goes through a session, a reviewer decides or reverses, or a
\* session is deleted in Didit's console.
DiditMoves(s, d) ==
  /\ moves < MaxMoves /\ s \in Live
  /\ d \in CASE didit[s] = "not_started" -> {"in_review", "approved", "declined", "gone"}
             [] didit[s] = "in_review" -> {"approved", "declined", "gone"}
             [] didit[s] = "approved" -> {"declined", "gone"}
             [] OTHER -> {"approved", "gone"}
  /\ didit' = [didit EXCEPT ![s] = d]
  /\ moves' = moves + 1
  /\ UNCHANGED <<user, audit, alerts, req, upsets>>

-----------------------------------------------------------------------------
(* The writers: the row is read and Didit asked; the answer is written later.  *)
(* What changes the row between the read and the answer could as well have come *)
(* after the answer. A request that ends without writing takes no step.         *)

\* A decision this code can read is on its way to the row.
Brings(w) ==
  /\ w \in Writer /\ req[w].pc = "idle"
  /\ user.session # None /\ didit[user.session] \in Readable
  /\ req' = [req EXCEPT ![w] = [pc |-> "apply", session |-> user.session,
                                status |-> mapDiditStatus(didit[user.session])]]

Finds(w, pc) == w \in Writer /\ req[w].pc = "idle" /\ Goes(w, pc)

\* The session can never answer: deleted, or not ours.
diditSessionUnreachable == user.session # None /\ didit[user.session] = "gone"

\* Didit's delivery, or the person's browser coming back: the row is found by its
\* session, the decision is read from Didit whatever the request says.
Receive ==
  /\ Brings("webhook")
  /\ UNCHANGED <<didit, user, audit, alerts, moves, upsets>>

News == mapDiditStatus(didit[user.session]) # user.status

ReconcileUndecided == \* mutant
  /\ Brings("reconcile") /\ News /\ user.status # "verified"
  /\ UNCHANGED <<didit, user, audit, alerts, moves, upsets>>

\* A pass of the reconciler: nothing to do when Didit says what the row says.
reconcileOne ==
  /\ Brings("reconcile") /\ News
  /\ UNCHANGED <<didit, user, audit, alerts, moves, upsets>>

\* The poll of the billing page; an erased account is refused at the door.
Status ==
  /\ ~user.erased
  /\ \/ Brings("poll") /\ News
     \/ diditSessionUnreachable /\ Finds("poll", "expire")
  /\ UNCHANGED <<didit, user, audit, alerts, moves, upsets>>

\* The start of a session: refused while the one there is worth protecting.
Start ==
  /\ ~user.erased
  /\ IF user.session = None \/ canStartNewKYCSession(user.status)
     THEN Finds("start", "create")
     ELSE diditSessionUnreachable /\ Finds("start", "expire")
  /\ UNCHANGED <<didit, user, audit, alerts, moves, upsets>>

\* The status is written by the user id, whatever session the row has by now. The
\* webhook then raises the alert of a session in review; the reconciler's is refused
\* by the table's check of the source, which knows webhook and sweep only.
applyKYCStatus(w) ==
  /\ w # "poll" /\ req[w].pc = "apply"
  /\ user' = [user EXCEPT !.status = req[w].status]
  /\ IF w = "webhook" /\ req[w].status = "in_review" THEN Goes(w, "alert") ELSE Ends(w)
  /\ UNCHANGED <<didit, audit, alerts, moves, upsets>>

\* The poll writes it without the row's lock, and alerts nobody.
StatusWrites ==
  /\ "poll" \in Writer /\ req["poll"].pc = "apply"
  /\ user' = [user EXCEPT !.status = req["poll"].status]
  /\ Ends("poll")
  /\ UNCHANGED <<didit, audit, alerts, moves, upsets>>

\* The row is expired; a start goes on to create another session.
Expire(w) ==
  /\ req[w].pc = "expire"
  /\ user' = [user EXCEPT !.status = "expired", !.session = None]
  /\ IF w = "start" THEN Goes(w, "create") ELSE Ends(w)
  /\ UNCHANGED <<didit, audit, alerts, moves, upsets>>

alertAdminOfKYCReview(w) ==
  /\ req[w].pc = "alert"
  /\ alerts' = alerts \cup {req[w].session}
  /\ Ends(w)
  /\ UNCHANGED <<didit, user, audit, moves, upsets>>

Unused == {s \in Session : didit[s] = "unused"}
Fresh == CHOOSE s \in Unused : TRUE

\* The start creates a session at Didit and then stores it over any other.
Create ==
  /\ "start" \in Writer /\ req["start"].pc = "create" /\ Unused # {}
  /\ didit' = [didit EXCEPT ![Fresh] = "not_started"]
  /\ req' = [req EXCEPT !["start"].pc = "store", !["start"].session = Fresh]
  /\ UNCHANGED <<user, audit, alerts, moves, upsets>>

Store ==
  /\ "start" \in Writer /\ req["start"].pc = "store"
  /\ user' = [user EXCEPT !.status = "not_started", !.session = req["start"].session]
  /\ Ends("start")
  /\ UNCHANGED <<didit, audit, alerts, moves, upsets>>

-----------------------------------------------------------------------------
(* The other actors. *)

\* An administrator lets the contributor verify again, unless verified.
Reset ==
  /\ user.status # "verified"
  /\ user' = [user EXCEPT !.status = "expired", !.session = None]
  /\ audit' = audit \cup ({user.session} \ {None})
  /\ UNCHANGED <<didit, alerts, req, moves, upsets>>

\* The sweeper alerts for a session in review no webhook told of.
Sweep ==
  /\ user.status = "in_review" /\ user.session \notin alerts \cup {None}
  /\ alerts' = alerts \cup {user.session}
  /\ UNCHANGED <<didit, user, audit, req, moves, upsets>>

\* A request dies: its process, its connection or its database call.
Lost(w) ==
  /\ req[w].pc # "idle"
  /\ upsets < MaxUpsets /\ upsets' = upsets + 1
  /\ Ends(w)
  /\ UNCHANGED <<didit, user, audit, alerts, moves>>

VerificationNext ==
  \/ \E s \in Session, d \in DiditStatus : DiditMoves(s, d)
  \/ Receive \/ reconcileOne \/ Status \/ StatusWrites \/ Start
  \/ \E w \in Writer : applyKYCStatus(w) \/ Expire(w) \/ alertAdminOfKYCReview(w) \/ Lost(w)
  \/ Create \/ Store \/ Reset \/ Sweep

\* The reconciler runs at startup and on a ticker for the life of the process.
ReconcilerRuns ==
  reconcileOne \/ \E w \in Writer \cap {"reconcile"} : applyKYCStatus(w)

VerificationSpec ==
  /\ VerificationInit /\ [][VerificationNext]_<<verification, upsets>>
  /\ WF_<<verification, upsets>>(ReconcilerRuns)

-----------------------------------------------------------------------------
VerificationTypeOK ==
  /\ didit \in [Session -> DiditStatus]
  /\ user \in [status : KYCStatus, session : Session \cup {None}, erased : BOOLEAN]
  /\ {audit, alerts} \subseteq SUBSET Session
  /\ req \in [Writer -> Request]
  /\ moves \in 0..MaxMoves /\ upsets \in 0..MaxUpsets

\* Once Didit stops moving, the row of an account with a session Didit can still
\* read comes to say what Didit says and keeps saying it, whichever stale
\* answers were written in between and by whom: the reconciler's promise.
StatusSettles ==
  <>[](user.session \in Live => user.status = mapDiditStatus(didit[user.session]))

\* A reset stays until the contributor starts another verification
\* (kyc_status_reconciler.go: "It cannot undo an admin reset").
ResetHolds ==
  [][user.status = "expired" /\ user.session = None /\ audit # {}
       => user'.session # None \/ user'.status \in {"expired", "none"}]_user
=============================================================================
