---------------------------- MODULE FoundingPool ----------------------------
(* The founding programme: proof of a follow is submitted and decided on, and  *)
(* whoever is both approved and verified gets a seat in the sequence of waves,  *)
(* whichever comes second; a verification also earns its referrer capped        *)
(* shares. Both events commit first and are handled afterwards, at most once    *)
(* (internal/founding, handlers/social_follow.go, handlers/referrals.go).       *)
EXTENDS Naturals, Sequences, FiniteSets, Functions

CONSTANTS
  Contributor,
  Referrer,        \* the one who referred all the others
  Early,           \* verified before there was a pool
  Submitted,       \* with proofs nobody has looked at
  Task,            \* requests of which the part after the commit is still to do
  Boundaries,      \* the wave sizes an administrator may configure
  ApprovalCap,     \* socialFollowApprovalCap
  ReferralShare, ReferralCap,
  MaxFoundingMoves, MaxLostTasks,  \* bounds
  Unset

ASSUME FoundingAssumption ==
  /\ IsFiniteSet(Contributor) /\ Referrer \in Contributor
  /\ Early \subseteq Contributor /\ Submitted \subseteq Contributor
  /\ Unset \notin Boundaries /\ Boundaries \subseteq [founding : Nat \ {0}, two : Nat \ {0}]
  /\ {ApprovalCap, ReferralShare, ReferralCap} \subseteq Nat \ {0}
  /\ {MaxFoundingMoves, MaxLostTasks} \subseteq Nat

VARIABLES
  passed,      \* who is verified (users.kyc_status)
  submission,  \* social_follow_submissions.status
  approving,   \* whose approval is counted and not yet committed
  config, frozen,   \* the configured boundaries; founding_wave_lock
  seats,       \* founding_members, by sequence_number: <<who, wave>>
  earned,      \* earned[p]: the Referrer's verify-only shares for p
  completed,   \* referrals.status = 'completed'
  task,        \* what each request still has to do
  stranded,    \* history: whose task died or failed
  foundingMoves, lostTasks

foundingVars == <<passed, submission, approving, config, frozen, seats, earned,
                  completed, task, stranded, foundingMoves, lostTasks>>

NoTask == [pc |-> "none", event |-> "none", who |-> Referrer, cfg |-> Unset, value |-> 0]
Todo == [pc : {"none", "load", "status", "assign", "lock", "seat", "cap", "grant", "refer"},
         event : {"none", "verified", "approved"}, who : Contributor,
         cfg : Boundaries \cup {Unset}, value : Nat]

FoundingInit ==
  /\ passed = Early /\ submission = [p \in Contributor |-> IF p \in Submitted THEN "pending" ELSE "none"] /\ approving = {}
  /\ config \in Boundaries /\ frozen = Unset /\ seats = <<>>
  /\ earned = [p \in Contributor |-> 0] /\ completed = {}
  /\ task = [t \in Task |-> NoTask] /\ stranded = {}
  /\ foundingMoves = 0 /\ lostTasks = 0

FoundingMove == foundingMoves < MaxFoundingMoves /\ foundingMoves' = foundingMoves + 1

Starts(t, event, p) ==
  /\ task[t].pc = "none"
  /\ task' = [task EXCEPT ![t] = [NoTask EXCEPT !.pc = "load", !.event = event, !.who = p]]

-----------------------------------------------------------------------------
(* The two events and what undoes them.                                        *)

\* The status turns to verified; what follows is best effort.
Verified(t, p) ==
  /\ FoundingMove /\ p \notin passed
  /\ passed' = passed \cup {p}
  /\ Starts(t, "verified", p)
  /\ UNCHANGED <<submission, approving, config, frozen, seats, earned, completed, stranded, lostTasks>>

Unverified(p) ==
  /\ FoundingMove /\ p \in passed /\ passed' = passed \ {p}
  /\ UNCHANGED <<submission, approving, config, frozen, seats, earned, completed, task, stranded, lostTasks>>

\* SubmitAll overwrites whatever was decided before; it waits for a decision's row lock.
SubmitAll(p) ==
  /\ FoundingMove /\ p \notin approving
  /\ submission[p] # "pending" /\ submission' = [submission EXCEPT ![p] = "pending"]
  /\ UNCHANGED <<passed, approving, config, frozen, seats, earned, completed, task, stranded, lostTasks>>

socialFollowCanTransition(from, to) ==
  from = IF to = "revoked" THEN "approved" ELSE "pending"

\* Reject and Revoke: one transaction under the row's lock.
decide(p, to) ==
  /\ to \in {"rejected", "revoked"} /\ p \notin approving
  /\ FoundingMove /\ socialFollowCanTransition(submission[p], to)
  /\ submission' = [submission EXCEPT ![p] = to]
  /\ UNCHANGED <<passed, approving, config, frozen, seats, earned, completed, task, stranded, lostTasks>>

Approved == {p \in Contributor : submission[p] = "approved"}

CountUnlocked(p) == \* mutant
  /\ p \notin approving
  /\ socialFollowCanTransition(submission[p], "approved") /\ Cardinality(Approved) < ApprovalCap
  /\ approving' = approving \cup {p}
  /\ UNCHANGED <<passed, submission, config, frozen, seats, earned, completed, task, stranded,
                 foundingMoves, lostTasks>>

\* Approve and each row of BulkApprove: the row's lock, the cap's lock, the count.
CountApproved(p) ==
  /\ approving = {}
  /\ socialFollowCanTransition(submission[p], "approved") /\ Cardinality(Approved) < ApprovalCap
  /\ approving' = {p}
  /\ UNCHANGED <<passed, submission, config, frozen, seats, earned, completed, task, stranded,
                 foundingMoves, lostTasks>>

CommitApproval(t, p) ==
  /\ FoundingMove /\ p \in approving /\ approving' = approving \ {p}
  /\ submission' = [submission EXCEPT ![p] = "approved"]
  /\ Starts(t, "approved", p)
  /\ UNCHANGED <<passed, config, frozen, seats, earned, completed, stranded, lostTasks>>

ApprovalRollsBack(p) ==
  /\ p \in approving /\ approving' = approving \ {p}
  /\ lostTasks < MaxLostTasks /\ lostTasks' = lostTasks + 1
  /\ UNCHANGED <<passed, submission, config, frozen, seats, earned, completed, task, stranded, foundingMoves>>

\* SetValue refuses an edit only once the boundaries are frozen.
SetBoundaries(b) ==
  /\ FoundingMove /\ b # config /\ frozen \in {Unset, b}
  /\ config' = b
  /\ UNCHANGED <<passed, submission, approving, frozen, seats, earned, completed, task, stranded, lostTasks>>

-----------------------------------------------------------------------------
(* What a request does after its commit.                                       *)

FactsStand == UNCHANGED <<passed, submission, approving, config, foundingMoves, lostTasks>>
GoesOn(t, pc) == task' = [task EXCEPT ![t].pc = pc]
Drop(t) == task' = [task EXCEPT ![t] = NoTask]

\* EffectiveValues is read once, at the start.
LoadConfig(t) ==
  /\ task[t].pc = "load"
  /\ task' = [task EXCEPT ![t].cfg = config,
                          ![t].pc = IF task[t].event = "approved" THEN "status" ELSE "assign"]
  /\ FactsStand /\ UNCHANGED <<frozen, seats, earned, completed, stranded>>

AssignOnVerified(t) == \* mutant
  /\ task[t].pc = "status" /\ Drop(t)
  /\ FactsStand /\ UNCHANGED <<frozen, seats, earned, completed, stranded>>

\* An approval before the verification leaves the seat to the verification.
OnSocialFollowApproved(t) ==
  /\ task[t].pc = "status"
  /\ IF task[t].who \in passed THEN GoesOn(t, "assign") ELSE Drop(t)
  /\ FactsStand /\ UNCHANGED <<frozen, seats, earned, completed, stranded>>

Seated(p) == \E i \in DOMAIN seats : seats[i][1] = p

\* After the seat, or without one, OnVerified goes on to the shares.
AfterSeat(t) == IF task[t].event = "verified" THEN GoesOn(t, "cap") ELSE Drop(t)

\* AssignWave: who has a seat keeps it, who is not approved gets none yet.
AssignWave(t) ==
  /\ task[t].pc = "assign"
  /\ IF Seated(task[t].who) \/ submission[task[t].who] # "approved"
     THEN AfterSeat(t) ELSE GoesOn(t, "lock")
  /\ FactsStand /\ UNCHANGED <<frozen, seats, earned, completed, stranded>>

WaveFor(b, n) == CASE n <= b.founding -> "founding" [] n <= b.founding + b.two -> "wave_two" [] OTHER -> "open"

BoundsConfigured(t) == task[t].cfg \* mutant

\* The boundaries are those of the first seat.
BoundsInForce(t) == IF frozen = Unset THEN task[t].cfg ELSE frozen

\* The allocation lock, the frozen boundaries and max + 1.
Allocate(t) ==
  /\ task[t].pc = "lock" /\ \A u \in Task : task[u].pc # "seat"
  /\ task' = [task EXCEPT ![t].pc = "seat", ![t].value = Len(seats) + 1, ![t].cfg = BoundsInForce(t)]
  /\ FactsStand /\ UNCHANGED <<frozen, seats, earned, completed, stranded>>

\* Insert and commit: a person's second seat is skipped, a number taken is an error
\* that ends the task.
CommitSeat(t) ==
  /\ task[t].pc = "seat"
  /\ LET p == task[t].who  n == task[t].value IN
     IF Seated(p) THEN AfterSeat(t) /\ UNCHANGED <<seats, stranded>>
     ELSE IF n <= Len(seats) THEN Drop(t) /\ stranded' = stranded \cup {p} /\ UNCHANGED seats
     ELSE /\ seats' = Append(seats, <<p, WaveFor(task[t].cfg, n)>>)
          /\ AfterSeat(t) /\ UNCHANGED stranded
  /\ frozen' = IF frozen = Unset THEN task[t].cfg ELSE frozen
  /\ FactsStand /\ UNCHANGED <<earned, completed>>

ReferralTotal == SumFunction(earned)

Smaller(a, b) == IF a < b THEN a ELSE b

SumUnlocked(t) == \* mutant
  /\ task[t].pc = "cap"
  /\ IF task[t].who = Referrer THEN GoesOn(t, "refer")
     ELSE IF ReferralTotal >= ReferralCap THEN GoesOn(t, "refer")
     ELSE task' = [task EXCEPT ![t].pc = "grant", ![t].value = Smaller(ReferralShare, ReferralCap - ReferralTotal)]
  /\ FactsStand /\ UNCHANGED <<frozen, seats, earned, completed, stranded>>

\* The cap's lock of the referrer and the sum under it; at the cap nothing is granted.
grantCapped(t) ==
  /\ task[t].pc = "cap"
  /\ IF task[t].who = Referrer THEN GoesOn(t, "refer")
     ELSE /\ \A u \in Task : task[u].pc # "grant"
          /\ IF ReferralTotal >= ReferralCap THEN GoesOn(t, "refer")
             ELSE task' = [task EXCEPT ![t].pc = "grant",
                                       ![t].value = Smaller(ReferralShare, ReferralCap - ReferralTotal)]
  /\ FactsStand /\ UNCHANGED <<frozen, seats, earned, completed, stranded>>

\* The same referral is recorded once, whoever retries.
CommitGrant(t) ==
  /\ task[t].pc = "grant"
  /\ earned' = [earned EXCEPT ![task[t].who] = IF @ = 0 THEN task[t].value ELSE @]
  /\ GoesOn(t, "refer")
  /\ FactsStand /\ UNCHANGED <<frozen, seats, completed, stranded>>

\* The referral leaves 'pending' once.
maybeCompleteReferral(t) ==
  /\ task[t].pc = "refer" /\ Drop(t)
  /\ completed' = completed \cup ({task[t].who} \ {Referrer})
  /\ FactsStand /\ UNCHANGED <<frozen, seats, earned, stranded>>

\* A request dies after its commit, or one of its queries fails: nothing runs it again.
TaskLost(t) ==
  /\ task[t].pc # "none" /\ lostTasks < MaxLostTasks /\ lostTasks' = lostTasks + 1
  /\ stranded' = stranded \cup {task[t].who} /\ Drop(t)
  /\ UNCHANGED <<passed, submission, approving, config, frozen, seats, earned, completed, foundingMoves>>

FoundingNext ==
  \/ \E p \in Contributor :
       \/ Unverified(p) \/ SubmitAll(p) \/ CountApproved(p) \/ ApprovalRollsBack(p)
       \/ \E to \in {"rejected", "revoked"} : decide(p, to)
       \/ \E t \in Task : Verified(t, p) \/ CommitApproval(t, p)
  \/ \E b \in Boundaries : SetBoundaries(b)
  \/ \E t \in Task : LoadConfig(t) \/ OnSocialFollowApproved(t) \/ AssignWave(t) \/ Allocate(t) \/ CommitSeat(t)
                      \/ grantCapped(t) \/ CommitGrant(t) \/ maybeCompleteReferral(t) \/ TaskLost(t)

FoundingSpec == FoundingInit /\ [][FoundingNext]_foundingVars

-----------------------------------------------------------------------------
FoundingTypeOK ==
  /\ passed \subseteq Contributor /\ approving \subseteq Contributor
  /\ submission \in [Contributor -> {"none", "pending", "approved", "rejected", "revoked"}]
  /\ config \in Boundaries /\ frozen \in Boundaries \cup {Unset}
  /\ seats \in Seq(Contributor \X {"founding", "wave_two", "open"})
  /\ earned \in [Contributor -> Nat] /\ completed \subseteq Contributor
  /\ task \in [Task -> Todo] /\ stranded \subseteq Contributor
  /\ foundingMoves \in 0..MaxFoundingMoves /\ lostTasks \in 0..MaxLostTasks

\* Whichever of verification and approval comes second, even at the same moment, gives
\* the seat: who is verified and approved has one, or a request under way that gives
\* it, unless one that should have died or failed.
NobodyStranded ==
  \A p \in passed \cap Approved :
    Seated(p) \/ p \in stranded \/ \E t \in Task : task[t].who = p /\ task[t].pc # "none"

\* The seats of each wave are those announced when the first was given, however the
\* configuration is edited around it.
WavesAsAnnounced == \A n \in DOMAIN seats : frozen # Unset /\ seats[n][2] = WaveFor(frozen, n)

\* Administrators who approve at the same moment never admit more than the cap.
ApprovalsCapped == Cardinality(Approved) <= ApprovalCap

\* Referrals that complete at the same moment never earn more than the cap.
ReferralsCapped == ReferralTotal <= ReferralCap
=============================================================================
