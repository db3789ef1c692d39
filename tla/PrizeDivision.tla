---------------------------- MODULE PrizeDivision ----------------------------
(* The contributor pool divided over the judged pull requests of a chain: the   *)
(* diminishing curve of each contributor, the value of a unit, and the floor    *)
(* below which the highest buckets are paid first (hackathon/judging_payout.go, *)
(* chain_payout.go). Amounts are cents; multipliers are tenths.                 *)
EXTENDS Naturals, Sequences, FiniteSets, SequencesExt

CONSTANTS
  Judged,         \* the judged pull requests, in the order of their rows
  AuthorLogin,    \* their authors
  PoolSizes, FloorSizes,  \* the amounts tried
  UnitSettings,   \* units_exceptional, units_substantial, units_accepted, units_rejected, as admins set them
  Curve           \* diminishing_returns_curve, in tenths

Bucketed == {"exceptional", "substantial", "accepted", "rejected"}

ASSUME DivisionAssumption ==
  /\ Judged \subseteq Nat /\ IsFiniteSet(Judged)
  /\ PoolSizes \subseteq Nat /\ FloorSizes \subseteq Nat /\ UnitSettings \subseteq [Bucketed -> Nat]
  /\ Curve \in Seq(Nat) /\ Curve # <<>>

VARIABLES
  author, bucket, merged,   \* of each pull request: login, final_bucket, merged_at
  prizePool, payoutFloor, curveOn, bucketUnits,
  plan                      \* per pull request: amount and whether it is funded

divisionVars == <<author, bucket, merged, prizePool, payoutFloor, curveOn, bucketUnits, plan>>

BucketOrder == <<"exceptional", "substantial", "accepted", "rejected">>
UnitsFor(b) == bucketUnits[b]

Unpaid == [amount |-> 0, funded |-> FALSE]

DivisionInit ==
  /\ author \in [Judged -> AuthorLogin] /\ bucket \in [Judged -> {"exceptional", "accepted", "rejected"}]
  /\ merged \in [Judged -> 0..1]   \* a pull request without a merge time counts as the earliest
  /\ prizePool \in PoolSizes /\ payoutFloor \in FloorSizes /\ curveOn \in BOOLEAN /\ bucketUnits \in UnitSettings
  /\ plan = [v \in Judged |-> Unpaid]

-----------------------------------------------------------------------------
FundedOf(vs) == {v \in vs : UnitsFor(bucket[v]) > 0}

\* merged_at first, then the verdict's id.
MergedBefore(u, v) == \/ merged[u] < merged[v]
                      \/ merged[u] = merged[v] /\ u < v

PositionAmongAll(vs, v) == \* mutant
  1 + Cardinality({u \in vs : author[u] = author[v] /\ MergedBefore(u, v)})

\* A contributor's own funded pull requests only, whatever the capitals of the login.
CurvePosition(vs, v) == 1 + Cardinality({u \in FundedOf(vs) : author[u] = author[v] /\ MergedBefore(u, v)})

\* The last value repeats.
Multiplier(position) == IF curveOn THEN Curve[IF position > Len(Curve) THEN Len(Curve) ELSE position] ELSE 10

EffectiveUnits(vs, v) == UnitsFor(bucket[v]) * Multiplier(CurvePosition(vs, v))
TotalUnits(vs) == SumFunctionOnSet([v \in vs |-> EffectiveUnits(vs, v)], FundedOf(vs))

\* round2: half a cent goes up.
Rounded(n, d) == (2 * n + d) \div (2 * d)

\* pool / total, compared with the floor after the curve has been applied.
AboveFloor(vs) == payoutFloor = 0 \/ 10 * prizePool >= payoutFloor * TotalUnits(vs)

BucketRank(b) == CHOOSE i \in DOMAIN BucketOrder : BucketOrder[i] = b

\* Who is paid before v at the floor: the higher buckets and, within its own, the earliest
\* positions.
PaidBefore(vs, v) ==
  LET rank(w) == BucketRank(bucket[w]) IN
  {u \in FundedOf(vs) :
     \/ rank(u) < rank(v)
     \/ rank(u) = rank(v) /\ CurvePosition(vs, u) < CurvePosition(vs, v)
     \/ rank(u) = rank(v) /\ CurvePosition(vs, u) = CurvePosition(vs, v) /\ u < v}

InOrder(before) ==
  [i \in 1..Cardinality(DOMAIN before) |-> CHOOSE v \in DOMAIN before : Cardinality(before[v]) = i - 1]

FloorOrder(vs) == InOrder([v \in FundedOf(vs) |-> PaidBefore(vs, v)])
FloorPrices(vs) == [v \in vs |-> Rounded(EffectiveUnits(vs, v) * payoutFloor, 10)]

FloorPaysAnyway(left, amount) == amount > 0 /\ left > 0 \* mutant

\* Who cannot be paid in full at the floor is not paid at all.
FloorPays(left, amount) == amount > 0 /\ amount <= left

PayNext(price, acc, v) ==
  IF FloorPays(acc.left, price[v])
  THEN [left |-> acc.left - price[v], paid |-> [acc.paid EXCEPT ![v] = [amount |-> price[v], funded |-> TRUE]]]
  ELSE acc

PaidInOrder(price, order, pool) ==
  FoldLeft(LAMBDA acc, v : PayNext(price, acc, v),
           [left |-> pool, paid |-> [v \in DOMAIN price |-> Unpaid]], order).paid

PayAtFloor(vs) == PaidInOrder(FloorPrices(vs), FloorOrder(vs), prizePool)

PlanFor(vs) ==
  IF TotalUnits(vs) = 0 THEN [v \in vs |-> Unpaid]
  ELSE IF AboveFloor(vs)
  THEN [v \in vs |-> IF v \in FundedOf(vs)
                     THEN [amount |-> Rounded(EffectiveUnits(vs, v) * prizePool, TotalUnits(vs)), funded |-> TRUE]
                     ELSE Unpaid]
  ELSE PayAtFloor(vs)

ComputePayout ==
  /\ plan' = PlanFor(Judged) /\ plan' # plan
  /\ UNCHANGED <<author, bucket, merged, prizePool, payoutFloor, curveOn, bucketUnits>>

DivisionNext == ComputePayout
DivisionSpec == DivisionInit /\ [][DivisionNext]_divisionVars

-----------------------------------------------------------------------------
\* The plan spends the pool: at the floor never a cent more than it, and above the
\* floor at most the half cent each rounding adds.
PlanFitsPool ==
  LET spent == SumFunction([v \in Judged |-> plan[v].amount]) IN
  IF AboveFloor(Judged) THEN 2 * spent <= 2 * prizePool + Cardinality(FundedOf(Judged)) ELSE spent <= prizePool

\* Work whose bucket is set to no units, as the rejected is unless an admin gives it
\* some, costs nobody anything: without it everybody else would be paid the same.
UnitlessChangeNothing ==
  LET kept == FundedOf(Judged)  without == PlanFor(kept) IN
  (\E v \in Judged : plan[v].funded) => \A v \in kept : plan[v] = without[v]

\* What the code says of the rejected: zero units by definition, and no share. It is
\* false when units_rejected is set, and no run checks it.
RejectedEarnNothing == \A v \in Judged : bucket[v] = "rejected" => ~plan[v].funded
=============================================================================
