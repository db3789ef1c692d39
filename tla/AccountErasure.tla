--------------------------- MODULE AccountErasure ---------------------------
(* The deletion of an account: the person's request, the executor that holds,  *)
(* retries and carries it out while its row lock is held, and the services it   *)
(* calls, next to the identity verification of the same account                 *)
(* (internal/erasure, handlers/account_deletion.go).                            *)
EXTENDS IdentityVerification

CONSTANT MaxAttempts   \* MaxExternalAttempts

ASSUME AttemptsAssumption == MaxAttempts \in Nat \ {0}

VARIABLES
  request,    \* account_deletion_requests: the latest of the person
  done,       \* what was erased outside: "agent", "github" (Didit's is in didit)
  exec        \* the executor inside executeOne

erasure == <<request, done, exec>>
vars == <<verification, upsets, erasure>>

Open == {"scheduled", "held"}
Service == {"agent", "didit", "github"}
Exec == [pc : {"idle", "agent", "didit", "github", "finish"}, late : BOOLEAN,
         sessions : SUBSET Session, failed : SUBSET Service, pending : SUBSET Session,
         unconfigured : BOOLEAN]
NoExec == [pc |-> "idle", late |-> FALSE, sessions |-> {}, failed |-> {}, pending |-> {},
           unconfigured |-> FALSE]
NewRequest == [status |-> "scheduled", clock |-> "grace", waits |-> FALSE, attempts |-> 0, kept |-> {},
               unconfigured |-> FALSE]

Init ==
  /\ VerificationInit
  /\ request = [NewRequest EXCEPT !.status = "none"]
  /\ done = {} /\ exec = NoExec

-----------------------------------------------------------------------------
(* The person and the clock. *)

\* A request is made unless one is open. (erased_at is read by an earlier
\* statement: a request that slips in behind the erasure erases nothing more.)
Schedule ==
  /\ ~user.erased /\ request.status \notin Open
  /\ request' = NewRequest
  /\ UNCHANGED <<verification, upsets, done, exec>>

\* Cancel waits for the lock the executor holds, then finds the row or not.
Cancel ==
  /\ ~user.erased /\ request.status \in Open /\ exec.pc = "idle"
  /\ request' = [NewRequest EXCEPT !.status = "cancelled"]
  /\ UNCHANGED <<verification, upsets, done, exec>>

\* The grace period ends; MaxHold after it nothing holds any more.
ClockMoves ==
  /\ request.status \in Open /\ request.clock # "late"
  /\ request' = [request EXCEPT !.clock = IF @ = "grace" THEN "due" ELSE "late"]
  /\ UNCHANGED <<verification, upsets, done, exec>>

\* next_attempt_at passes.
WaitEnds ==
  /\ request.waits /\ request.status \in Open
  /\ request' = [request EXCEPT !.waits = FALSE]
  /\ UNCHANGED <<verification, upsets, done, exec>>

-----------------------------------------------------------------------------
(* executeOne: one transaction, the request's row locked throughout. *)

Due == request.status \in Open /\ request.clock # "grace" /\ ~request.waits

NoLimit == FALSE \* mutant
holdLimit == request.clock = "late"

\* Lock the row and look for money in flight, which may be there or not: held,
\* or on to the sessions.
Begin(owed) ==
  /\ exec.pc = "idle" /\ Due
  /\ IF owed /\ ~holdLimit
     THEN /\ request' = [request EXCEPT !.status = "held", !.waits = TRUE]
          /\ UNCHANGED exec
     ELSE /\ exec' = [NoExec EXCEPT !.pc = "agent", !.late = holdLimit,
                                    !.sessions = ({user.session} \ {None}) \cup audit \cup alerts]
          /\ UNCHANGED request
  /\ UNCHANGED <<verification, upsets, done>>

\* A call fails, or a service did what it was asked.
Failed(service) == exec.failed \cup {service}

\* EraseAtAgent: done, refused, failed, or nothing to do: no GitHub account, or no
\* agent configured, which is no failure.
EraseAtAgent ==
  /\ exec.pc = "agent"
  /\ \/ /\ done' = done \cup {"agent"}
        /\ exec' = [exec EXCEPT !.pc = "didit"] /\ UNCHANGED request
     \/ /\ ~exec.late
        /\ request' = [request EXCEPT !.status = "held", !.waits = TRUE]
        /\ exec' = NoExec /\ UNCHANGED done
     \/ /\ exec' = [exec EXCEPT !.pc = "didit", !.failed = Failed("agent")] /\ UNCHANGED <<request, done>>
     \/ /\ exec' = [exec EXCEPT !.pc = "didit"] /\ UNCHANGED <<request, done>>
  /\ UNCHANGED <<verification, upsets>>

\* deleteDidit: the sessions whose call failed are pending; one that is gone is as
\* good as deleted. A process without a key for Didit asks about none: all are pending, and
\* that is no failure.
deleteDidit(pending) ==
  /\ exec.pc = "didit" /\ pending \subseteq exec.sessions
  /\ \/ /\ didit' = [s \in Session |-> IF s \in exec.sessions \ pending THEN "gone" ELSE didit[s]]
        /\ exec' = [exec EXCEPT !.pc = "github", !.pending = pending,
                                !.failed = IF pending = {} THEN @ ELSE Failed("didit")]
     \/ /\ pending = exec.sessions /\ pending # {}
        /\ exec' = [exec EXCEPT !.pc = "github", !.pending = pending, !.unconfigured = TRUE]
        /\ UNCHANGED didit
  /\ UNCHANGED <<user, audit, alerts, req, moves, upsets, request, done>>

\* Revoked, failed, or nothing to do: no token, or no application configured.
RevokeGitHub ==
  /\ exec.pc = "github"
  /\ \/ done' = done \cup {"github"} /\ exec' = [exec EXCEPT !.pc = "finish"]
     \/ exec' = [exec EXCEPT !.pc = "finish", !.failed = Failed("github")] /\ UNCHANGED done
     \/ exec' = [exec EXCEPT !.pc = "finish"] /\ UNCHANGED done
  /\ UNCHANGED <<verification, upsets, request>>

GiveUpAt(n) == n >= MaxAttempts

\* A step failed and attempts are left: postpone.
postpone ==
  /\ exec.pc = "finish" /\ exec.failed # {} /\ ~GiveUpAt(request.attempts + 1)
  /\ request' = [request EXCEPT !.status = "scheduled", !.waits = TRUE, !.attempts = @ + 1]
  /\ exec' = NoExec
  /\ UNCHANGED <<verification, upsets, done>>

ForgetKept == {} \* mutant

\* What is pending is kept of a service that failed; of any other it is forgotten.
Kept == IF "didit" \in exec.failed THEN exec.pending ELSE {}

\* eraseRows and complete, committed together.
complete ==
  /\ exec.pc = "finish" /\ (exec.failed = {} \/ GiveUpAt(request.attempts + 1))
  /\ user' = [status |-> "none", session |-> None, erased |-> TRUE]
  /\ audit' = {} /\ alerts' = {}
  /\ request' = [status |-> "completed", clock |-> "grace", waits |-> FALSE,
                 attempts |-> request.attempts + 1, kept |-> Kept, unconfigured |-> exec.unconfigured]
  /\ exec' = NoExec
  /\ UNCHANGED <<didit, req, moves, upsets, done>>

\* The process dies, or the transaction fails: it rolls back, the calls do not.
Rollback ==
  /\ exec.pc # "idle"
  /\ upsets < MaxUpsets /\ upsets' = upsets + 1
  /\ exec' = NoExec
  /\ UNCHANGED <<verification, request, done>>

ExecutorRuns ==
  \/ \E owed \in BOOLEAN : Begin(owed)
  \/ EraseAtAgent \/ RevokeGitHub \/ postpone \/ complete
  \/ \E pending \in SUBSET Session : deleteDidit(pending)

Next ==
  \/ VerificationNext /\ UNCHANGED erasure
  \/ Schedule \/ Cancel \/ ClockMoves \/ WaitEnds
  \/ ExecutorRuns \/ Rollback

\* Time passes, the executor and the reconciler run on their tickers.
Fairness ==
  /\ WF_vars(ClockMoves) /\ WF_vars(WaitEnds)
  /\ WF_vars(ExecutorRuns) /\ WF_vars(ReconcilerRuns /\ UNCHANGED erasure)

Spec == Init /\ [][Next]_vars /\ Fairness

-----------------------------------------------------------------------------
TypeOK ==
  /\ VerificationTypeOK
  /\ request \in [status : Open \cup {"none", "cancelled", "completed"}, clock : {"grace", "due", "late"},
                  waits : BOOLEAN, attempts : 0..MaxAttempts, kept : SUBSET Session,
                  unconfigured : BOOLEAN]
  /\ done \subseteq Service
  /\ exec \in Exec

\* At completion every session the executor knew of is gone at Didit, or its id
\* is kept on the request for an administrator to finish, or the request says that
\* this process had no Didit to ask, and then nobody was asked about any of them.
SessionsAccounted ==
  [][exec.pc = "finish" /\ request'.status = "completed"
       => \/ \A s \in exec.sessions : didit[s] = "gone" \/ s \in request'.kept
          \/ request'.unconfigured /\ exec.pending = exec.sessions]_<<exec, request>>

\* Past the limit the identifiers needed to finish by hand are kept on the request
\* (executor.go:244-245; complete expects those of a service not configured, too).
UnfinishedAreKept ==
  [][exec.pc = "finish" /\ request'.status = "completed"
       => \A s \in exec.sessions : didit[s] = "gone" \/ s \in request'.kept]_<<exec, request>>

\* An open request ends, cancelled or carried out, whatever money stays in flight
\* and however often the services fail: MaxHold and MaxExternalAttempts bound both.
RequestsEnd == request.status \in Open ~> request.status \notin Open

\* A cancelled deletion deleted nothing (account_deletion.go: "Nothing was deleted").
CancelledIsUntouched == request.status = "cancelled" => done = {}
=============================================================================
