---------------------------- MODULE MaintainerPool ----------------------------
(* The maintainer pool of an event: ratings of how clear the issues were, the   *)
(* score of each repository from what could be measured, the division of the    *)
(* pool, and the part held back until its repository is seen to be still        *)
(* active (hackathon/clarity.go, maintainer_pool.go, runner.go). Amounts are    *)
(* cents, marks and scores per cent.                                            *)
EXTENDS Integers, FiniteSets, Functions

CONSTANTS
  Repository,          \* the accepted participants
  Rating,              \* assignments whose contributor may rate
  StarsGiven,          \* the answers they give, out of one to five stars
  RatedRepository,     \* RatedRepository[r]: the repository of assignment r
  NewcomerMark,        \* NewcomerMark[p]: its mark for first-time contributors
  MaintainerBudget,    \* hackathons.maintainer_prize_pool
  Weight,              \* maintainer_criteria_weights
  MinRatings, HoldbackPct, PartialPct,
  Transition,          \* calls that move the event to settled
  Release,             \* reconciler processes
  MaxChecks            \* bound on their checks, the work that goes on and the settles beside the first

ASSUME MaintainerAssumption ==
  /\ IsFiniteSet(Repository) /\ IsFiniteSet(Rating) /\ RatedRepository \in [Rating -> Repository] /\ StarsGiven \subseteq 1..5
  /\ NewcomerMark \in [Repository -> 0..100] /\ MaintainerBudget \in Nat
  /\ Weight \in [{"newcomers", "predates", "clarity"} -> Nat]
  /\ HoldbackPct \in 0..100 /\ PartialPct \in 0..100 /\ MaxChecks \in Nat
  /\ MinRatings \in Nat \ {0}   \* less than one is read as one (maintainer_pool.go:262)

VARIABLES
  published,      \* results_published_at is set
  announced,      \* announced_at is set
  predates,       \* the repositories older than the announcement
  stars,          \* hackathon_issue_clarity_ratings: stars[r] and whether it came late
  ratingCalls,    \* ratings whose check has passed
  share,          \* hackathon_maintainer_payouts
  settler,        \* where each call of Transition is
  settling,       \* the payouts each has still to write
  settledPool,    \* the event went to settled
  rewritten,      \* history: repositories whose row a second settle wrote over
  holdbackDue,    \* repositories whose holdback_due_at has passed
  activity,       \* what has happened in each repository since
  release,        \* the holdback each process is deciding on
  checks

maintainerVars == <<published, announced, predates, stars, ratingCalls, share, settling, settledPool, settler,
                    rewritten, holdbackDue, activity, release, checks>>

NoRating == [value |-> 0, late |-> FALSE]
NoShare == [gross |-> 0, holdback |-> 0, immediate |-> 0, status |-> "none", released |-> 0, withheld |-> 0]
NoCheck == [repo |-> "none", held |-> 0, stored |-> "none", commits |-> "none", measured |-> FALSE]
Level == {"none", "some", "sustained"}

MaintainerInit ==
  /\ published = FALSE /\ announced \in BOOLEAN /\ predates \in SUBSET Repository /\ (~announced => predates = {})
  /\ stars = [r \in Rating |-> NoRating] /\ ratingCalls = {}
  /\ share = [p \in Repository |-> NoShare] /\ settling = [t \in Transition |-> {}] /\ settledPool = FALSE
  /\ settler = [t \in Transition |-> "idle"] /\ rewritten = {}
  /\ holdbackDue = {} /\ activity = [p \in Repository |-> [stored |-> "none", commits |-> "none"]]
  /\ release = [k \in Release |-> NoCheck] /\ checks = 0

-----------------------------------------------------------------------------
(* Clarity ratings.                                                            *)

EventStands == UNCHANGED <<announced, predates>>
SettleStands == UNCHANGED <<settling, settledPool, settler, rewritten>>
PoolStands == SettleStands /\ UNCHANGED <<share, holdbackDue, activity, release, checks>>

\* Refused once the results are out; the row is written afterwards.
SubmitClarityRating(r, n) ==
  /\ ~published /\ ~\E call \in ratingCalls : call[1] = r
  /\ ratingCalls' = ratingCalls \cup {<<r, n>>}
  /\ UNCHANGED <<published, stars>> /\ EventStands /\ PoolStands

\* Rating again replaces the answer and its time.
StoreRating(call) ==
  /\ call \in ratingCalls /\ ratingCalls' = ratingCalls \ {call}
  /\ stars' = [stars EXCEPT ![call[1]] = [value |-> call[2], late |-> published]]
  /\ UNCHANGED published /\ EventStands /\ PoolStands

PublishResults ==
  /\ ~published /\ published' = TRUE
  /\ UNCHANGED <<stars, ratingCalls>> /\ EventStands /\ PoolStands

\* Only what was rated before the results came out.
clarityStats(p) == {r \in Rating : RatedRepository[r] = p /\ stars[r] # NoRating /\ ~stars[r].late}

-----------------------------------------------------------------------------
(* The score and the division.                                                 *)

\* The criteria that could be measured. The time to the first review is never
\* measured: the settle passes no function for it.
Included(p) ==
  {"newcomers"} \cup (IF announced THEN {"predates"} ELSE {})
                \cup (IF Cardinality(clarityStats(p)) >= MinRatings THEN {"clarity"} ELSE {})

Mean(rated) == (25 * SumFunction([r \in rated |-> stars[r].value])) \div Cardinality(rated)

Mark(p, criterion) ==
  CASE criterion = "newcomers" -> NewcomerMark[p]
    [] criterion = "predates" -> IF p \in predates THEN 100 ELSE 0
    [] criterion = "clarity" -> Mean(clarityStats(p)) - 25   \* one to five stars

\* A criterion that could not be measured gives its weight to the others.
scoreFrom(p) ==
  LET total == SumFunctionOnSet(Weight, Included(p)) IN
  IF total = 0 THEN 0 ELSE SumFunction([c \in Included(p) |-> Weight[c] * Mark(p, c)]) \div total

ToCents(n, d) == (2 * n + d) \div (2 * d)

AllocateMaintainerPool(p) ==
  LET total == SumFunction([q \in Repository |-> scoreFrom(q)])
      gross == IF total = 0 THEN 0 ELSE ToCents(MaintainerBudget * scoreFrom(p), total)
      held == ToCents(gross * HoldbackPct, 100)
  IN [NoShare EXCEPT !.gross = gross, !.holdback = held, !.immediate = gross - held, !.status = "pending"]

\* The phase is read without a lock: every call that reads it before the first commits
\* goes on to settle the pool.
ReadPhase(t) ==
  /\ published /\ ~settledPool /\ settler[t] = "idle" /\ settler' = [settler EXCEPT ![t] = "moving"]
  /\ checks' = checks + Cardinality({u \in Transition : settler[u] # "idle"}) /\ checks' <= MaxChecks
  /\ UNCHANGED <<published, stars, ratingCalls, share, settling, settledPool, rewritten, holdbackDue, activity, release>>
  /\ EventStands

\* Every payout is computed, then they are written one by one.
SettleMaintainerPool(t) ==
  /\ settler[t] = "moving" /\ settler' = [settler EXCEPT ![t] = "gone"] /\ settledPool' = TRUE
  /\ settling' = [settling EXCEPT ![t] = {<<p, AllocateMaintainerPool(p)>> : p \in Repository}]
  /\ UNCHANGED <<published, stars, ratingCalls, share, rewritten, holdbackDue, activity, release, checks>> /\ EventStands

\* The upsert replaces the amounts and the date of a row that is there, and neither
\* looks at what has been decided of its holdback nor touches it.
WritePayout(t, p, new) ==
  /\ <<p, new>> \in settling[t] /\ settling' = [settling EXCEPT ![t] = @ \ {<<p, new>>}]
  /\ share' = [share EXCEPT ![p] = IF share[p] = NoShare THEN new
       ELSE [new EXCEPT !.status = share[p].status, !.released = share[p].released, !.withheld = share[p].withheld]]
  /\ rewritten' = (IF share[p] = NoShare THEN rewritten ELSE rewritten \cup {p}) /\ holdbackDue' = holdbackDue \ {p}
  /\ UNCHANGED <<published, stars, ratingCalls, settledPool, settler, activity, release, checks>> /\ EventStands

\* The process dies; the phase is settled already, and nothing settles the pool again.
SettleDies(t) ==
  /\ settler[t] = "moving" \/ settling[t] # {}
  /\ settler' = [settler EXCEPT ![t] = "gone"] /\ settling' = [settling EXCEPT ![t] = {}]
  /\ UNCHANGED <<published, stars, ratingCalls, share, settledPool, rewritten, holdbackDue, activity, release, checks>>
  /\ EventStands

-----------------------------------------------------------------------------
(* The holdback.                                                               *)

RatingsStand == UNCHANGED <<published, stars, ratingCalls>>

\* maintainer_holdback_days may be none.
HoldbackFallsDue(p) ==
  /\ share[p].status = "pending" /\ p \notin holdbackDue /\ holdbackDue' = holdbackDue \cup {p}
  /\ RatingsStand /\ SettleStands /\ UNCHANGED <<share, activity, release, checks>> /\ EventStands

\* Merged pull requests and issues reach us by the sync, commits are GitHub's.
WorkGoesOn(p, kind, level) ==
  /\ p \in holdbackDue /\ checks < MaxChecks /\ checks' = checks + 1
  /\ activity[p][kind] = "none" /\ level # "none" /\ activity' = [activity EXCEPT ![p][kind] = level]
  /\ RatingsStand /\ SettleStands /\ UNCHANGED <<share, holdbackDue, release>> /\ EventStands

\* Due and pending when it was read, with its amount; a query that failed counts nothing, commits
\* that could not be counted are marked so.
repoActivity(k, p, read, measured) ==
  /\ checks < MaxChecks /\ checks' = checks + 1
  /\ p \in holdbackDue /\ release[k] = NoCheck /\ share[p].status = "pending"
  /\ release' = [release EXCEPT ![k] =
       [repo |-> p, held |-> share[p].holdback, stored |-> IF read THEN activity[p].stored ELSE "none",
        commits |-> IF measured THEN activity[p].commits ELSE "none", measured |-> measured]]
  /\ RatingsStand /\ SettleStands /\ UNCHANGED <<share, holdbackDue, activity>> /\ EventStands

DecideUnmeasured(held, seen) == \* mutant
  LET levels == {seen.stored, seen.commits}  partial == ToCents(held * PartialPct, 100) IN
  IF "sustained" \in levels THEN [status |-> "released", released |-> held, withheld |-> 0]
  ELSE IF "some" \in levels THEN [status |-> "partially_released", released |-> partial, withheld |-> held - partial]
  ELSE [status |-> "withheld", released |-> 0, withheld |-> held]

DecideHoldback(held, seen) ==
  LET levels == {seen.stored, seen.commits}  partial == ToCents(held * PartialPct, 100) IN
  IF "sustained" \in levels THEN [status |-> "released", released |-> held, withheld |-> 0]
  ELSE IF "some" \in levels THEN [status |-> "partially_released", released |-> partial, withheld |-> held - partial]
  ELSE IF ~seen.measured THEN [status |-> "pending", released |-> 0, withheld |-> 0]
  ELSE [status |-> "withheld", released |-> 0, withheld |-> held]

Resolved(p, decision) ==
  share' = [share EXCEPT ![p].status = decision.status, ![p].released = decision.released,
                         ![p].withheld = decision.withheld]

ReleaseWhatWasRead(k) == \* mutant
  /\ release[k] # NoCheck /\ release' = [release EXCEPT ![k] = NoCheck]
  /\ LET p == release[k].repo  decision == DecideHoldback(release[k].held, release[k]) IN
     IF decision.status = "pending" THEN UNCHANGED share ELSE Resolved(p, decision)
  /\ RatingsStand /\ SettleStands /\ UNCHANGED <<holdbackDue, activity, checks>> /\ EventStands

\* Nothing measured leaves it pending for the next tick; a decision is written only
\* over a holdback that still is pending.
ReleaseDueHoldbacks(k) ==
  /\ release[k] # NoCheck /\ release' = [release EXCEPT ![k] = NoCheck]
  /\ LET p == release[k].repo  decision == DecideHoldback(release[k].held, release[k]) IN
     IF decision.status = "pending" \/ share[p].status # "pending" THEN UNCHANGED share
     ELSE Resolved(p, decision)
  /\ RatingsStand /\ SettleStands /\ UNCHANGED <<holdbackDue, activity, checks>> /\ EventStands

MaintainerNext ==
  \/ \E r \in Rating, n \in StarsGiven : SubmitClarityRating(r, n) \/ StoreRating(<<r, n>>)
  \/ PublishResults
  \/ \E t \in Transition : \/ ReadPhase(t) \/ SettleMaintainerPool(t) \/ SettleDies(t)
                          \/ \E s \in settling[t] : WritePayout(t, s[1], s[2])
  \/ \E p \in Repository :
       \/ HoldbackFallsDue(p)
       \/ \E kind \in {"stored", "commits"}, level \in Level : WorkGoesOn(p, kind, level)
       \/ \E k \in Release, read, measured \in BOOLEAN : repoActivity(k, p, read, measured)
  \/ \E k \in Release : ReleaseDueHoldbacks(k)

MaintainerSpec == MaintainerInit /\ [][MaintainerNext]_maintainerVars

-----------------------------------------------------------------------------
Decided(p) == share[p].status \in {"released", "partially_released", "withheld"}
InFull(p) == share[p].released + share[p].withheld = share[p].holdback

\* A holdback is decided once, however many processes look at it at the same moment,
\* whatever each of them saw and whatever a settle writes meanwhile: all of the amount
\* that was read goes to the one side or the other, and is never withheld entirely
\* because commits could not be counted. It is the amount the row shows, unless a second
\* settle wrote over it.
HoldbackDecidedOnce ==
  [][\A p \in Repository :
       /\ Decided(p) => /\ share'[p].status = share[p].status /\ share'[p].released = share[p].released
                        /\ share'[p].withheld = share[p].withheld
       /\ Decided(p)' /\ ~Decided(p) =>
            \E k \in Release : /\ release[k].repo = p
                              /\ share'[p].released + share'[p].withheld = release[k].held
                              /\ share'[p].status = "withheld" => release[k].measured
       /\ Decided(p)' /\ p \notin rewritten' => InFull(p)']_maintainerVars

\* What the code says of settling twice, that it converges: what was decided is the
\* holdback the row shows. Two settles at once break it, and no run checks it.
DecidedInFull == \A p \in Repository : Decided(p) => InFull(p)
=============================================================================
