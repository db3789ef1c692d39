------------------------ MODULE SettlementTreeProofs ------------------------
(***************************************************************************)
(* What a tree holds, and that the pool is divided as closely as whole     *)
(* units allow, proved for any people, pools, weights, number of builds    *)
(* and changes. What is said of sums is from MoneyProofs.                  *)
(***************************************************************************)
EXTENDS MCSettlementTree, FiniteSetTheorems, MoneyProofs, TLAPS

\* The shape of a build under way; nothing is said of its fields.
Shaped(r) == r = [stage |-> r.stage, ack |-> r.ack, amounts |-> r.amounts,
                  facts |-> r.facts, payable |-> r.payable]

BuildsShaped == /\ build = [b \in Builder |-> build[b]]
                /\ \A b \in Builder : Shaped(build[b])

ResolvedBy(b) == build[b].stage \in {"check", "salt", "commit"}

\* Once a build has compared, what it carries stays what the operator read, and the total
\* acknowledged stays the sum of what it will hold.
Carries(b) == /\ build[b].ack.facts = build[b].facts
              /\ build[b].ack.excluded = SumFunction(HeldOf(build[b].amounts, build[b].payable))

BuildsCarryReport == \A b \in Builder : ResolvedBy(b) => Carries(b)

IInv == BuildsShaped /\ BuildsCarryReport /\ BuiltFromReport /\ PaidOrHeldOnce
------------------------------------------------------------------------------

LEMMA InitInv == Init => IInv
<1> SUFFICES ASSUME Init PROVE IInv
    OBVIOUS
<1>1. BuildsShaped
    BY DEF Init, NoBuild, BuildsShaped, Shaped
<1>2. BuildsCarryReport
    BY DEF Init, NoBuild, BuildsCarryReport, ResolvedBy
<1>3. BuiltFromReport
    BY DEF Init, BuiltFromReport
<1>4. PaidOrHeldOnce
    BY DEF Init, PaidOrHeldOnce, Leaves, Nobody
<1> QED BY <1>1, <1>2, <1>3, <1>4 DEF IInv

\* A step that leaves the builds and the tree alone keeps the invariant.
LEMMA TreeUntouched ==
  ASSUME IInv, UNCHANGED <<build, treeVars>> PROVE IInv'
<1> QED BY DEF IInv, BuildsShaped, Shaped, BuildsCarryReport, ResolvedBy, Carries, HeldOf, HasLine,
               BuiltFromReport, PaidOrHeldOnce, Leaves, treeVars

\* A step that replaces one build by a shaped one, which carries the report if it has compared,
\* keeps the builds' half of the invariant.
LEMMA OneBuildMoves ==
  ASSUME IInv, NEW b \in Builder, NEW r, build' = [build EXCEPT ![b] = r], Shaped(r),
         r.stage \in {"check", "salt", "commit"} =>
           /\ r.ack.facts = r.facts
           /\ r.ack.excluded = SumFunction(HeldOf(r.amounts, r.payable))
  PROVE  BuildsShaped' /\ BuildsCarryReport'
<1>1. build'[b] = r /\ \A c \in Builder \ {b} : build'[c] = build[c]
    BY DEF IInv, BuildsShaped
<1>2. BuildsShaped'
    BY <1>1 DEF IInv, BuildsShaped, Shaped
<1>3. BuildsCarryReport'
    <2> SUFFICES ASSUME NEW c \in Builder, ResolvedBy(c)' PROVE Carries(c)'
        BY DEF BuildsCarryReport
    <2>1. CASE c = b
        BY <1>1, <2>1 DEF ResolvedBy, Carries, HeldOf, HasLine
    <2>2. CASE c # b
        <3>1. build'[c] = build[c]
            BY <1>1, <2>2
        <3>2. Carries(c)
            BY <3>1 DEF IInv, BuildsCarryReport, ResolvedBy
        <3> QED BY <3>1, <3>2 DEF Carries, HeldOf, HasLine
    <2> QED BY <2>1, <2>2
<1> QED BY <1>2, <1>3

\* A build that ends or moves on without a tree keeps it all.
LEMMA TreeKept ==
  ASSUME IInv, BuildsShaped', BuildsCarryReport', UNCHANGED treeVars PROVE IInv'
<1> QED BY DEF IInv, BuiltFromReport, PaidOrHeldOnce, Leaves, treeVars

LEMMA Refusal ==
  ASSUME IInv, NEW b \in Builder, Refuse(b) PROVE BuildsShaped' /\ BuildsCarryReport'
<1>1. Shaped(NoBuild) /\ NoBuild.stage = "idle"
    BY DEF Shaped, NoBuild
<1> QED BY <1>1, OneBuildMoves DEF Refuse

\* Moving on keeps what is carried.
LEMMA MovesOn ==
  ASSUME IInv, NEW b \in Builder, NEW stage, Goto(b, stage), ResolvedBy(b), UNCHANGED treeVars PROVE IInv'
<1>1. PICK r : r = [build[b] EXCEPT !.stage = stage]
    OBVIOUS
<1>2. /\ build' = [build EXCEPT ![b] = r]
    BY <1>1 DEF Goto
<1>3. /\ Shaped(r) /\ r.stage = stage /\ r.ack = build[b].ack /\ r.facts = build[b].facts
      /\ r.amounts = build[b].amounts /\ r.payable = build[b].payable
    BY <1>1 DEF IInv, BuildsShaped, Shaped
<1>4. Carries(b)
    BY DEF IInv, BuildsCarryReport
<1>5. /\ r.ack.facts = r.facts
      /\ r.ack.excluded = SumFunction(HeldOf(r.amounts, r.payable))
    BY <1>3, <1>4 DEF Carries
<1>6. BuildsShaped' /\ BuildsCarryReport'
    BY <1>2, <1>3, <1>5, OneBuildMoves
<1> QED BY <1>6, TreeKept
------------------------------------------------------------------------------
LEMMA LoadInv == ASSUME IInv, NEW b \in Builder, Load(b) PROVE IInv'
<1>1. PICK r : r = [NoBuild EXCEPT !.stage = "resolve", !.ack = report, !.amounts = line]
    OBVIOUS
<1>2. build' = [build EXCEPT ![b] = r]
    BY <1>1 DEF Load
<1>3. Shaped(r) /\ r.stage = "resolve"
    BY <1>1 DEF NoBuild, Shaped
<1>4. BuildsShaped' /\ BuildsCarryReport'
    BY <1>2, <1>3, OneBuildMoves
<1> QED BY <1>4, TreeKept DEF Load

LEMMA ResolveInv == ASSUME IInv, NEW b \in Builder, Resolve(b) PROVE IInv'
<1>1. UNCHANGED treeVars
    BY DEF Resolve
<1>2. CASE Refuse(b)
    BY <1>1, <1>2, Refusal, TreeKept
<1>3. CASE ~Refuse(b)
    <2>1. PICK amounts : amounts = build[b].amounts
        OBVIOUS
    <2>2. PICK r : r = [stage |-> "check", ack |-> build[b].ack, amounts |-> amounts,
                        facts |-> FactsOf(amounts), payable |-> PayableOf(amounts)]
        OBVIOUS
    <2>3. Acknowledged(b, amounts) /\ build' = [build EXCEPT ![b] = r]
        BY <1>3, <2>1, <2>2 DEF Resolve
    <2>4. Shaped(r)
        BY <2>2 DEF Shaped
    <2>5. /\ r.ack = build[b].ack /\ r.amounts = amounts
          /\ r.facts = FactsOf(amounts) /\ r.payable = PayableOf(amounts)
        BY <2>2
    <2>6. /\ r.ack.facts = r.facts
          /\ r.ack.excluded = SumFunction(HeldOf(r.amounts, r.payable))
        BY <2>3, <2>5 DEF Acknowledged, ExcludedOf
    <2>7. BuildsShaped' /\ BuildsCarryReport'
        BY <2>3, <2>4, <2>6, OneBuildMoves
    <2> QED BY <1>1, <2>7, TreeKept
<1> QED BY <1>2, <1>3

LEMMA CheckRootInv == ASSUME IInv, NEW b \in Builder, CheckRoot(b) PROVE IInv'
<1>1. UNCHANGED treeVars /\ ResolvedBy(b)
    BY DEF CheckRoot, At, ResolvedBy
<1>2. CASE Goto(b, "salt")
    BY <1>1, <1>2, MovesOn
<1>3. CASE Refuse(b)
    BY <1>1, <1>3, Refusal, TreeKept
<1> QED BY <1>2, <1>3 DEF CheckRoot

LEMMA CreateSaltInv == ASSUME IInv, NEW b \in Builder, CreateSalt(b) PROVE IInv'
<1>1. UNCHANGED treeVars /\ ResolvedBy(b) /\ Goto(b, "commit")
    BY DEF CreateSalt, At, ResolvedBy
<1> QED BY <1>1, MovesOn

\* The tree that is written holds what the build carries.
LEMMA CommitInv == ASSUME IInv, NEW b \in Builder, Commit(b) PROVE IInv'
<1>1. CASE Refuse(b) /\ UNCHANGED treeVars
    BY <1>1, Refusal, TreeKept
<1>2. CASE AddressesDiffer(b) /\ WriteTree(b)
    <2>1. BuildsShaped' /\ BuildsCarryReport'
        BY <1>2, Refusal DEF WriteTree
    <2>2. Carries(b)
        BY DEF Commit, At, IInv, BuildsCarryReport, ResolvedBy
    <2>3. \A p \in Leaves' : p \in Person /\ p \in build[b].payable /\ leaf'[p] = build[b].facts[p]
        BY <1>2 DEF WriteTree, Leaves
    <2>4. BuiltFromReport'
        BY <1>2, <2>2, <2>3 DEF WriteTree, Carries, BuiltFromReport
    <2>5. \A p \in Leaves' : hold'[p] = 0
        BY <1>2, <2>3 DEF WriteTree, HeldOf
    <2>6. \A p, q \in Leaves' : p # q => leaf'[p].address # leaf'[q].address
        BY <1>2, <2>3 DEF AddressesDiffer
    <2>7. PaidOrHeldOnce'
        BY <2>5, <2>6 DEF PaidOrHeldOnce
    <2> QED BY <2>1, <2>4, <2>7 DEF IInv
<1> QED BY <1>1, <1>2 DEF Commit

LEMMA DiesInv == ASSUME IInv, NEW b \in Builder, Dies(b) PROVE IInv'
<1> QED BY Refusal, TreeKept DEF Dies
------------------------------------------------------------------------------
LEMMA NextInv == IInv /\ [Next]_vars => IInv'
<1> SUFFICES ASSUME IInv, [Next]_vars PROVE IInv'
    OBVIOUS
<1>1. ASSUME NEW p \in Person, ChangeLogin(p) \/ RegisterAddress(p) \/ ChangeVerified(p) \/ Erase(p)
      PROVE  IInv'
    BY <1>1, TreeUntouched DEF ChangeLogin, RegisterAddress, ChangeVerified, Erase, Moves
<1>2. ASSUME NEW p \in Person, RecordLine(p) PROVE IInv'
    BY <1>2, TreeUntouched DEF RecordLine
<1>3. CASE StartRecording \/ StopRecording \/ LoadReport \/ ReadReport
    BY <1>3, TreeUntouched DEF StartRecording, StopRecording, LoadReport, ReadReport
<1>4. ASSUME NEW b \in Builder, Load(b) \/ Resolve(b) \/ CheckRoot(b) PROVE IInv'
    BY <1>4, LoadInv, ResolveInv, CheckRootInv
<1>5. ASSUME NEW b \in Builder, CreateSalt(b) \/ Commit(b) \/ Dies(b) PROVE IInv'
    BY <1>5, CreateSaltInv, CommitInv, DiesInv
<1>6. CASE UNCHANGED vars
    BY <1>6, TreeUntouched DEF vars
<1> QED BY <1>1, <1>2, <1>3, <1>4, <1>5, <1>6 DEF Next

\* Every tree pays what the approved report said, to the addresses it said, and holds the
\* total that was acknowledged (Build in internal/payout/build.go).
THEOREM TreeFromReport == Spec => []BuiltFromReport
<1>1. IInv => BuiltFromReport
    BY DEF IInv
<1> QED BY InitInv, NextInv, <1>1, PTL DEF Spec

\* Nobody is paid and held by the same tree, and no address is in it twice.
THEOREM PaidOrHeld == Spec => []PaidOrHeldOnce
<1>1. IInv => PaidOrHeldOnce
    BY DEF IInv
<1> QED BY InitInv, NextInv, <1>1, PTL DEF Spec

\* Whatever commands run at once or die, a tree that is there stays as it is (the primary key
\* of payout_event_roots, and one transaction).
THEOREM TreeStays == Spec => TreeIsFinal
<1>1. [Next]_vars => [root = None]_treeVars
    <2> SUFFICES ASSUME [Next]_vars, treeVars' # treeVars PROVE root = None
        OBVIOUS
    <2>1. PICK b \in Builder : Commit(b)
        BY DEF Next, vars, ChangeLogin, RegisterAddress, ChangeVerified, Erase, Moves, RecordLine,
               StartRecording, StopRecording, LoadReport, ReadReport, Load, Resolve, CheckRoot,
               CreateSalt, Dies
    <2> QED BY <2>1 DEF Commit
<1> QED BY <1>1, PTL DEF Spec, TreeIsFinal
-----------------------------------------------------------------------------
(* The division. Moving a unit to or from somebody changes the distance at least *)
(* at the rate the mark tells (the remainder of the last who was rounded up), so *)
(* no division of the same total is closer.                                      *)

\* The distance of x units, each of total parts, from exact parts.
Apart(x, total, exact) == IF x * total >= exact THEN x * total - exact ELSE exact - x * total

LEMMA Nearer ==
  ASSUME NEW total \in Nat, NEW floor \in Nat, NEW rest \in Nat, rest < total,
         NEW exact \in Nat, exact = total * floor + rest,
         NEW mark \in Nat, mark < total, NEW x \in Nat, NEW y \in Nat,
         (x = floor /\ rest <= mark) \/ (x = floor + 1 /\ rest >= mark)
  PROVE  Apart(x, total, exact) + (total - 2 * mark) * (y - x) <= Apart(y, total, exact)
<1>1. CASE y <= floor
  <2> DEFINE k == floor - y
  <2>1. k \in Nat /\ y = floor - k
    BY <1>1
  <2> HIDE DEF k
  <2>2. y * total = total * floor - total * k /\ total * k \in Nat /\ mark * k \in Nat /\ mark * k <= total * k
    <3>1. y * total = total * floor - total * k
      BY <2>1
    <3>2. total * k \in Nat /\ mark * k \in Nat
      BY <2>1
    <3>3. (total - mark) * k \in Nat /\ (total - mark) * k = total * k - mark * k
      BY <2>1
    <3> QED
      BY <3>1, <3>2, <3>3
  <2>3. Apart(y, total, exact) = total * k + rest
    <3>1. y * total <= exact /\ exact - y * total = total * k + rest
      BY <2>2
    <3>2. y * total \in Int
      OBVIOUS
    <3> QED
      BY <3>1, <3>2 DEF Apart
  <2>4. CASE x = floor /\ rest <= mark
    <3>1. Apart(x, total, exact) = rest
      BY <2>4 DEF Apart
    <3>2. (total - 2 * mark) * (y - x) = 2 * (mark * k) - total * k
      BY <2>1, <2>4
    <3> QED
      BY <2>2, <2>3, <3>1, <3>2
  <2>5. CASE x = floor + 1 /\ rest >= mark
    <3>1. x * total = total * floor + total
      BY <2>5
    <3>2. Apart(x, total, exact) = total - rest
      BY <3>1 DEF Apart
    <3>3. (total - 2 * mark) * (y - x) = 2 * (mark * k) - total * k - total + 2 * mark
      BY <2>1, <2>5
    <3> QED
      BY <2>2, <2>3, <2>5, <3>2, <3>3
  <2> QED
    BY <2>4, <2>5
<1>2. CASE y > floor
  <2> DEFINE k == y - floor - 1
  <2>1. k \in Nat /\ y = floor + k + 1
    BY <1>2
  <2> HIDE DEF k
  <2>2. /\ y * total = total * floor + total * k + total
        /\ total * k \in Nat /\ mark * k \in Nat /\ total * floor \in Nat
    <3>1. y * total = total * floor + total * k + total
      BY <2>1
    <3>2. total * k \in Nat /\ mark * k \in Nat /\ total * floor \in Nat
      BY <2>1
    <3> QED
      BY <3>1, <3>2
  <2>3. Apart(y, total, exact) = total * k + total - rest
    <3>1. y * total >= exact /\ y * total - exact = total * k + total - rest
      <4> DEFINE base == total * floor
                 over == total * k
                 all == y * total
      <4>1. all = base + over + total /\ exact = base + rest /\ base \in Nat /\ over \in Nat
        BY <2>2
      <4> HIDE DEF base, over, all
      <4>2. all >= exact /\ all - exact = over + total - rest
        BY <4>1
      <4> QED
        BY <4>2 DEF over, all
    <3>2. y * total \in Int
      OBVIOUS
    <3> QED
      BY <3>1, <3>2 DEF Apart
  <2>4. CASE x = floor /\ rest <= mark
    <3>1. Apart(x, total, exact) = rest
      BY <2>4 DEF Apart
    <3>2. (total - 2 * mark) * (y - x) = total * k + total - 2 * (mark * k) - 2 * mark
      BY <2>1, <2>4
    <3> QED
      BY <2>2, <2>3, <2>4, <3>1, <3>2
  <2>5. CASE x = floor + 1 /\ rest >= mark
    <3>1. x * total = total * floor + total
      BY <2>5
    <3>2. Apart(x, total, exact) = total - rest
      BY <3>1 DEF Apart
    <3>3. (total - 2 * mark) * (y - x) = total * k - 2 * (mark * k)
      BY <2>1, <2>5
    <3> QED
      BY <2>2, <2>3, <2>5, <3>2, <3>3
  <2> QED
    BY <2>4, <2>5
<1> QED
  BY <1>1, <1>2

\* What Apportion gives is the whole pool by largest remainders, for any weights.
LEMMA ApportionDivides ==
  ASSUME NEW w \in [Person -> Nat], NEW p \in Nat, SumFunction(w) # 0
  PROVE  \E floor, rest :
           /\ Shares(Person, w, p, floor, rest)
           /\ Apportion(w, p) = Divided(Person, w, floor, rest, p - SumFunction(floor))
<1> DEFINE floor == [q \in Person |-> (p * w[q]) \div SumFunction(w)]
           rest == [q \in Person |-> (p * w[q]) % SumFunction(w)]
<1>1. Shares(Person, w, p, floor, rest)
  BY DEF Shares
<1>2. Apportion(w, p) = Divided(Person, w, floor, rest, p - SumFunction(floor))
  BY DEF Apportion, Divided, AheadOf
<1> HIDE DEF floor, rest
<1> QED
  BY <1>1, <1>2

\* Whatever is weighed and whatever the pool, the division is the closest to the exact
\* shares of all divisions of the same pool (settlement.go: Allocate).
THEOREM DivisionIsClosest ==
  ASSUME NEW w \in [Person -> Nat], NEW p \in Nat, Settles(w, p)
  PROVE  IsClosest(Apportion(w, p), w, p)
<1> DEFINE total == SumFunction(w)
           chosen == Apportion(w, p)
<1>0. IsFiniteSet(Person) /\ (\A q \in Person : q \in Nat) /\ total # 0
  <2>1. total # 0
    <3>1. SumFunctionOnSet(w, Person) \in Nat
      BY PersonAssumption, SumIsWhole
    <3> QED
      BY <3>1 DEF Settles, SumFunction
  <2> QED
    BY <2>1, PersonAssumption
<1>1. PICK floor, rest : /\ Shares(Person, w, p, floor, rest)
                         /\ chosen = Divided(Person, w, floor, rest, p - SumFunction(floor))
  BY <1>0, ApportionDivides
<1> HIDE DEF chosen
<1>2. /\ chosen \in [Person -> Nat] /\ SumFunction(chosen) = p
      /\ \E mark \in Nat :
           /\ mark < total
           /\ \A q \in Person : \/ chosen[q] = floor[q] /\ rest[q] <= mark
                                \/ chosen[q] = floor[q] + 1 /\ rest[q] >= mark /\ rest[q] > 0
      /\ \A q, r \in Person : q < r /\ w[q] = w[r] => chosen[r] <= chosen[q]
  BY <1>0, <1>1, DividesTheWhole
<1>3. PICK mark \in Nat :
        /\ mark < total
        /\ \A q \in Person : \/ chosen[q] = floor[q] /\ rest[q] <= mark
                             \/ chosen[q] = floor[q] + 1 /\ rest[q] >= mark /\ rest[q] > 0
  BY <1>2
<1>4. /\ total \in Nat /\ floor \in [Person -> Nat] /\ rest \in [Person -> Nat]
      /\ \A q \in Person : /\ rest[q] < total
                           /\ p * w[q] = total * floor[q] + rest[q]
                           /\ w[q] = 0 => rest[q] = 0 /\ floor[q] = 0
  BY <1>0, <1>1, SharesSound
<1> HIDE DEF total
<1>5. \A q \in Person : chosen[q] \in 0..p
  <2> SUFFICES ASSUME NEW q \in Person  PROVE chosen[q] <= p
    BY <1>2
  <2> DEFINE others == Person \ {q}
  <2>1. SumFunctionOnSet(chosen, Person) = chosen[q] + SumFunctionOnSet(chosen, others)
    BY <1>0, <1>2, SumTakesOut
  <2>2. IsFiniteSet(others) /\ \A r \in others : chosen[r] \in Nat
    BY <1>0, <1>2, FS_RemoveElement
  <2>3. SumFunctionOnSet(chosen, others) \in Nat
    BY <2>2, SumIsWhole
  <2>4. SumFunctionOnSet(chosen, Person) = p
    BY <1>2 DEF SumFunction
  <2> QED
    BY <1>2, <2>1, <2>3, <2>4
<1>6. \A q \in Person : w[q] = 0 => chosen[q] = 0
  <2> SUFFICES ASSUME NEW q \in Person, w[q] = 0  PROVE chosen[q] = 0
    OBVIOUS
  <2>1. rest[q] = 0 /\ floor[q] = 0
    BY <1>4
  <2> QED
    BY <1>3, <2>1
<1>7. chosen \in [Person -> 0..p]
  BY <1>2, <1>5
<1>8. ASSUME NEW a \in [Person -> 0..p], SumFunction(a) = p
      PROVE  Distance(chosen, w, p) <= Distance(a, w, p)
  <2> DEFINE rate == total - 2 * mark
             near == [q \in Person |-> Apart(chosen[q], total, p * w[q])]
             far == [q \in Person |-> Apart(a[q], total, p * w[q])]
             moved == [q \in Person |-> a[q] - chosen[q]]
             price == [q \in Person |-> rate * moved[q]]
             least == [q \in Person |-> near[q] + price[q]]
  <2>1. Distance(chosen, w, p) = SumFunctionOnSet(near, Person) /\ Distance(a, w, p) = SumFunctionOnSet(far, Person)
    BY DEF Distance, Apart, SumFunction, total
  <2>2. ASSUME NEW q \in Person
        PROVE  /\ near[q] \in Int /\ far[q] \in Int /\ price[q] \in Int /\ moved[q] \in Int
               /\ near[q] + price[q] <= far[q]
    <3> DEFINE exact == p * w[q]
               x == chosen[q]
               y == a[q]
               f == floor[q]
               e == rest[q]
    <3>1. x \in Nat /\ y \in Nat /\ exact \in Nat /\ f \in Nat /\ e \in Nat /\ e < total
          /\ exact = total * f + e /\ ((x = f /\ e <= mark) \/ (x = f + 1 /\ e >= mark))
      BY <1>2, <1>3, <1>4
    <3>2. near[q] = Apart(x, total, exact) /\ far[q] = Apart(y, total, exact)
          /\ moved[q] = y - x /\ price[q] = rate * (y - x)
      OBVIOUS
    <3> HIDE DEF exact, x, y, f, e, near, far, moved, price
    <3>3. Apart(x, total, exact) + (total - 2 * mark) * (y - x) <= Apart(y, total, exact)
      BY <1>3, <1>4, <3>1, Nearer
    <3>4. Apart(x, total, exact) \in Int /\ Apart(y, total, exact) \in Int
      BY <1>4, <3>1 DEF Apart
    <3>5. rate \in Int /\ y - x \in Int /\ rate * (y - x) \in Int
      BY <1>3, <1>4, <3>1
    <3> QED
      BY <3>2, <3>3, <3>4, <3>5
  <2>3. \A q \in Person : a[q] \in Int /\ chosen[q] \in Int /\ moved[q] \in Int /\ a[q] = chosen[q] + moved[q]
    BY <1>2
  <2>4. \A q \in Person : moved[q] \in Int /\ price[q] = rate * moved[q]
    BY <2>3
  <2>5. \A q \in Person : near[q] \in Int /\ price[q] \in Int /\ least[q] = near[q] + price[q]
    BY <2>2
  <2>6. \A q \in Person : least[q] \in Int /\ far[q] \in Int /\ least[q] <= far[q]
    BY <2>2
  <2>7. rate \in Int
    BY <1>3, <1>4
  <2> HIDE DEF near, far, moved, price, least, rate
  <2>8. SumFunctionOnSet(a, Person) = SumFunctionOnSet(chosen, Person) + SumFunctionOnSet(moved, Person)
    BY <1>0, <2>3, SumAddsUp
  <2>9. SumFunctionOnSet(price, Person) = rate * SumFunctionOnSet(moved, Person)
    BY <1>0, <2>4, <2>7, SumScales
  <2>10. SumFunctionOnSet(least, Person) = SumFunctionOnSet(near, Person) + SumFunctionOnSet(price, Person)
    BY <1>0, <2>5, SumAddsUp
  <2>11. SumFunctionOnSet(least, Person) <= SumFunctionOnSet(far, Person)
    BY <1>0, <2>6, SumGrows
  <2>12. SumFunctionOnSet(moved, Person) \in Int /\ SumFunctionOnSet(near, Person) \in Int
    <3>1. SumFunctionOnSet(moved, Person) \in Int
      BY <1>0, <2>3, SumIsWhole
    <3>2. SumFunctionOnSet(near, Person) \in Int
      BY <1>0, <2>5, SumIsWhole
    <3> QED
      BY <3>1, <3>2
  <2>13. SumFunctionOnSet(a, Person) = p /\ SumFunctionOnSet(chosen, Person) = p
    BY <1>2, <1>8 DEF SumFunction
  <2>14. SumFunctionOnSet(moved, Person) = 0
    BY <2>8, <2>12, <2>13
  <2>15. SumFunctionOnSet(price, Person) = 0
    BY <2>7, <2>9, <2>14
  <2> QED
    BY <2>1, <2>10, <2>11, <2>12, <2>15
<1>9. \A q, r \in Person : q < r /\ w[q] = w[r] => chosen[q] >= chosen[r]
  BY <1>2
<1>10. IsClosest(chosen, w, p)
  BY <1>2, <1>6, <1>7, <1>8, <1>9 DEF IsClosest
<1> QED
  BY <1>10 DEF chosen

\* Whatever the run divides, it divides as closely as the pool allows.
THEOREM ClosestAlways == Spec => []ClosestDivision
<1>1. ClosestDivision
  <2> SUFFICES ASSUME NEW w \in [Person -> 0..MaxWeight], NEW p \in 1..MaxPool, Settles(w, p)
               PROVE  IsClosest(Apportion(w, p), w, p)
    BY DEF ClosestDivision
  <2>1. w \in [Person -> Nat] /\ p \in Nat
    BY DEF MaxWeight, MaxPool
  <2> QED
    BY <2>1, DivisionIsClosest
<1> QED
  BY <1>1, PTL
-----------------------------------------------------------------------------
(* Types, which the amounts need: what is divided are whole units, and sums of   *)
(* whole units are whole units.                                                  *)

LEMMA DivisionTyped ==
  ASSUME TypeOK, Settles(weight, pool) PROVE Apportion(weight, pool) \in [Person -> Nat]
<1>1. SumFunction(weight) # 0
  <2>1. SumFunctionOnSet(weight, Person) \in Nat
    BY PersonAssumption, SumIsWhole DEF TypeOK
  <2> QED
    BY <2>1 DEF Settles, SumFunction
<1>2. weight \in [Person -> Nat] /\ pool \in Nat /\ IsFiniteSet(Person) /\ \A q \in Person : q \in Nat
  BY PersonAssumption DEF TypeOK
<1>3. PICK floor, rest : /\ Shares(Person, weight, pool, floor, rest)
                         /\ Apportion(weight, pool) = Divided(Person, weight, floor, rest, pool - SumFunction(floor))
  BY <1>1, <1>2, ApportionDivides
<1> QED
  BY <1>1, <1>2, <1>3, DividesTheWhole

LEMMA HeldTyped ==
  ASSUME NEW amounts \in Amounts, NEW payable
  PROVE  /\ HeldOf(amounts, payable) \in [Person -> Nat]
         /\ SumFunction(HeldOf(amounts, payable)) \in Nat
<1> DEFINE held == HeldOf(amounts, payable)
<1>1. held \in [Person -> Nat]
  BY DEF HeldOf, HasLine, Amounts
<1> HIDE DEF held
<1>2. SumFunctionOnSet(held, Person) \in Nat
  BY <1>1, PersonAssumption, SumIsWhole
<1>3. SumFunction(held) = SumFunctionOnSet(held, Person)
  BY <1>1 DEF SumFunction
<1>4. held \in [Person -> Nat] /\ SumFunction(held) \in Nat
  BY <1>1, <1>2, <1>3
<1> QED
  BY <1>4 DEF held

LEMMA FactsTyped ==
  ASSUME TypeOK, NEW amounts \in Amounts
  PROVE  FactsOf(amounts) \in Facts /\ PayableOf(amounts) \subseteq Person /\ ExcludedOf(amounts) \in Nat
<1>1. \A p \in Person : known[p].login \in Login \cup {None} /\ known[p].address \in Address \cup {None}
  BY DEF TypeOK, Knowledge
<1>2. \A p \in Person : amounts[p] # None => amounts[p] \in Nat
  BY DEF Amounts
<1>3. FactsOf(amounts) \in Facts
  BY <1>1, <1>2 DEF FactsOf, Facts, Fact
<1> QED
  BY <1>3, HeldTyped DEF PayableOf, HasLine, ExcludedOf

LEMMA NothingTyped == Nobody \in Amounts /\ Nobody \in Facts /\ NoReport \in Report /\ NoBuild \in Build
<1>1. Nobody \in Amounts /\ Nobody \in Facts
  BY DEF Nobody, Amounts, Facts
<1>2. NoReport \in Report
  BY <1>1 DEF NoReport, Report
<1> QED
  BY <1>1, <1>2 DEF NoBuild, Build, Stage

\* One build that stays a build leaves the builds typed.
LEMMA BuildTyped ==
  ASSUME TypeOK, NEW b, NEW r \in Build, build' = [build EXCEPT ![b] = r]
  PROVE  build' \in [Builder -> Build]
BY DEF TypeOK

LEMMA RefusalTyped ==
  ASSUME TypeOK, NEW b, Refuse(b) PROVE build' \in [Builder -> Build]
BY NothingTyped, BuildTyped DEF Refuse

LEMMA GotoTyped ==
  ASSUME TypeOK, NEW b \in Builder, NEW stage \in Stage, Goto(b, stage) PROVE build' \in [Builder -> Build]
<1>1. PICK r : r = [build[b] EXCEPT !.stage = stage]
  OBVIOUS
<1>2. build[b] \in Build
  BY DEF TypeOK
<1>3. r \in Build
  BY <1>1, <1>2 DEF Build
<1>4. build' = [build EXCEPT ![b] = r]
  BY <1>1 DEF Goto
<1> QED
  BY <1>3, <1>4, BuildTyped

\* What the producer reads stays, and divides a pool among somebody.
Typed == TypeOK /\ Settles(weight, pool)

LEMMA InitTyped == Init => Typed
<1> SUFFICES ASSUME Init PROVE Typed
  OBVIOUS
<1>1. weight \in [Person -> Nat] /\ pool \in Nat /\ known \in [Person -> Knowledge]
  BY WeightAssumption, KnownAssumption DEF Init
<1>2. hold \in [Person -> Nat] /\ build \in [Builder -> Build]
  BY NothingTyped DEF Init
<1> QED
  BY <1>1, <1>2, NothingTyped DEF Init, Typed, TypeOK

LEMMA KnownMovesTyped ==
  ASSUME TypeOK, NEW p \in Person, ChangeLogin(p) \/ RegisterAddress(p) \/ ChangeVerified(p) \/ Erase(p)
  PROVE  known' \in [Person -> Knowledge] /\ moves' \in Nat
<1>1. moves' \in Nat
  BY DEF TypeOK, ChangeLogin, RegisterAddress, ChangeVerified, Erase, Moves
<1>2. PICK k : k = known[p]
  OBVIOUS
<1>3. k \in Knowledge
  BY <1>2 DEF TypeOK
<1>4. ASSUME NEW n \in Knowledge, known' = [known EXCEPT ![p] = n] PROVE known' \in [Person -> Knowledge]
  BY <1>4 DEF TypeOK
<1>5. CASE ChangeLogin(p)
  <2>1. PICK l \in Login : known' = [known EXCEPT ![p].login = l]
    BY <1>5 DEF ChangeLogin
  <2>2. PICK n : n = [k EXCEPT !.login = l]
    OBVIOUS
  <2>3. n \in Knowledge /\ known' = [known EXCEPT ![p] = n]
    BY <1>2, <1>3, <2>1, <2>2 DEF Knowledge
  <2> QED
    BY <1>1, <1>4, <2>3
<1>6. CASE RegisterAddress(p)
  <2>1. PICK x \in Address : known' = [known EXCEPT ![p].address = x]
    BY <1>6 DEF RegisterAddress
  <2>2. PICK n : n = [k EXCEPT !.address = x]
    OBVIOUS
  <2>3. n \in Knowledge /\ known' = [known EXCEPT ![p] = n]
    BY <1>2, <1>3, <2>1, <2>2 DEF Knowledge
  <2> QED
    BY <1>1, <1>4, <2>3
<1>7. CASE ChangeVerified(p)
  <2>1. PICK n : n = [k EXCEPT !.verified = ~@]
    OBVIOUS
  <2>2. n \in Knowledge /\ known' = [known EXCEPT ![p] = n]
    BY <1>2, <1>3, <1>7, <2>1 DEF Knowledge, ChangeVerified
  <2> QED
    BY <1>1, <1>4, <2>2
<1>8. CASE Erase(p)
  <2>1. PICK n : n = [login |-> None, address |-> None, verified |-> FALSE]
    OBVIOUS
  <2>2. n \in Knowledge /\ known' = [known EXCEPT ![p] = n]
    BY <1>8, <2>1 DEF Knowledge, Erase
  <2> QED
    BY <1>1, <1>4, <2>2
<1> QED
  BY <1>5, <1>6, <1>7, <1>8

LEMMA NextTyped == Typed /\ [Next]_vars => Typed'
<1> SUFFICES ASSUME Typed, [Next]_vars PROVE TypeOK' /\ UNCHANGED inputVars
  BY DEF Typed, Settles, inputVars
<1>0. TypeOK
  BY DEF Typed
<1>1. ASSUME NEW p \in Person, ChangeLogin(p) \/ RegisterAddress(p) \/ ChangeVerified(p) \/ Erase(p)
      PROVE  TypeOK' /\ UNCHANGED inputVars
  <2>1. known' \in [Person -> Knowledge] /\ moves' \in Nat
    BY <1>0, <1>1, KnownMovesTyped
  <2>2. UNCHANGED <<inputVars, recording, line, loaded, report, salt, treeVars, build>>
    BY <1>1 DEF ChangeLogin, RegisterAddress, ChangeVerified, Erase, Moves
  <2> QED
    BY <1>0, <2>1, <2>2 DEF TypeOK, inputVars, treeVars
<1>2. ASSUME NEW p \in Person, RecordLine(p) PROVE TypeOK' /\ UNCHANGED inputVars
  <2>1. Apportion(weight, pool)[p] \in Nat
    BY DivisionTyped DEF Typed
  <2>2. PICK amount \in Nat : line' = [line EXCEPT ![p] = amount]
    BY <1>2, <2>1 DEF RecordLine
  <2>3. line' \in Amounts
    BY <1>0, <2>2 DEF TypeOK, Amounts
  <2> QED
    BY <1>0, <1>2, <2>3 DEF RecordLine, TypeOK, inputVars, treeVars
<1>3. CASE StartRecording \/ StopRecording \/ LoadReport
  BY <1>0, <1>3 DEF StartRecording, StopRecording, LoadReport, TypeOK, inputVars, treeVars
<1>4. CASE ReadReport
  <2>1. loaded \in Amounts
    BY <1>0 DEF TypeOK
  <2>2. FactsOf(loaded) \in Facts /\ ExcludedOf(loaded) \in Nat
    BY <1>0, <2>1, FactsTyped
  <2>3. report' \in Report
    BY <1>4, <2>2 DEF ReadReport, Report
  <2>4. loaded' \in Amounts
    BY <1>4, NothingTyped DEF ReadReport
  <2> QED
    BY <1>0, <1>4, <2>3, <2>4 DEF ReadReport, TypeOK, inputVars, treeVars
<1>5. ASSUME NEW b \in Builder, Load(b) PROVE TypeOK' /\ UNCHANGED inputVars
  <2>1. PICK r : r = [NoBuild EXCEPT !.stage = "resolve", !.ack = report, !.amounts = line]
    OBVIOUS
  <2>2. report \in Report /\ line \in Amounts
    BY <1>0, <1>5 DEF Load, TypeOK
  <2>3. r \in Build
    BY <2>1, <2>2, NothingTyped DEF Build, Stage
  <2>4. build' \in [Builder -> Build]
    BY <1>0, <1>5, <2>1, <2>3, BuildTyped DEF Load
  <2> QED
    BY <1>0, <1>5, <2>4 DEF Load, TypeOK, inputVars, treeVars
<1>6. ASSUME NEW b \in Builder, Resolve(b) PROVE TypeOK' /\ UNCHANGED inputVars
  <2>1. CASE Refuse(b)
    BY <1>0, <1>6, <2>1, RefusalTyped DEF Resolve, TypeOK, inputVars, treeVars
  <2>2. CASE ~Refuse(b)
    <3>1. PICK amounts : amounts = build[b].amounts
      OBVIOUS
    <3>2. PICK r : r = [stage |-> "check", ack |-> build[b].ack, amounts |-> amounts,
                        facts |-> FactsOf(amounts), payable |-> PayableOf(amounts)]
      OBVIOUS
    <3>3. build' = [build EXCEPT ![b] = r]
      BY <1>6, <2>2, <3>1, <3>2 DEF Resolve
    <3>4. amounts \in Amounts /\ build[b].ack \in Report
      BY <1>0, <3>1 DEF TypeOK, Build
    <3>5. FactsOf(amounts) \in Facts /\ PayableOf(amounts) \subseteq Person
      BY <1>0, <3>4, FactsTyped
    <3>6. r \in Build
      BY <3>2, <3>4, <3>5 DEF Build, Stage
    <3>7. build' \in [Builder -> Build]
      BY <1>0, <3>3, <3>6, BuildTyped
    <3> QED
      BY <1>0, <1>6, <3>7 DEF Resolve, TypeOK, inputVars, treeVars
  <2> QED
    BY <2>1, <2>2
<1>7. ASSUME NEW b \in Builder, CheckRoot(b) \/ CreateSalt(b) \/ Dies(b) PROVE TypeOK' /\ UNCHANGED inputVars
  <2>1. build' \in [Builder -> Build]
    BY <1>0, <1>7, RefusalTyped, GotoTyped DEF CheckRoot, CreateSalt, Dies, Stage
  <2>2. salt' \in BOOLEAN
    BY <1>0, <1>7 DEF CheckRoot, CreateSalt, Dies, TypeOK
  <2>3. UNCHANGED <<inputVars, known, moves, recording, line, loaded, report, treeVars>>
    BY <1>7 DEF CheckRoot, CreateSalt, Dies
  <2> QED
    BY <1>0, <2>1, <2>2, <2>3 DEF TypeOK, inputVars, treeVars
<1>8. ASSUME NEW b \in Builder, Commit(b) PROVE TypeOK' /\ UNCHANGED inputVars
  <2>1. UNCHANGED <<inputVars, known, moves, recording, line, loaded, report, salt>>
    BY <1>8 DEF Commit
  <2>2. CASE Refuse(b) /\ UNCHANGED treeVars
    <3>1. build' \in [Builder -> Build]
      BY <1>0, <2>2, RefusalTyped
    <3> QED
      BY <1>0, <2>1, <2>2, <3>1 DEF TypeOK, inputVars, treeVars
  <2>3. CASE WriteTree(b)
    <3>1. build[b].ack \in Report /\ build[b].amounts \in Amounts /\ build[b].facts \in Facts
      BY <1>0 DEF TypeOK, Build
    <3>2. build' \in [Builder -> Build]
      BY <1>0, <2>3, RefusalTyped DEF WriteTree
    <3>3. root' \in Report
      BY <2>3, <3>1 DEF WriteTree
    <3>4. leaf' \in Facts
      BY <2>3, <3>1 DEF WriteTree, Facts
    <3>5. hold' \in [Person -> Nat]
      BY <2>3, <3>1, HeldTyped DEF WriteTree
    <3> QED
      BY <1>0, <2>1, <3>2, <3>3, <3>4, <3>5 DEF TypeOK, inputVars
  <2> QED
    BY <1>8, <2>2, <2>3 DEF Commit
<1>9. CASE UNCHANGED vars
  BY <1>0, <1>9 DEF vars, TypeOK, inputVars, treeVars
<1> QED
  BY <1>1, <1>2, <1>3, <1>4, <1>5, <1>6, <1>7, <1>8, <1>9 DEF Next

\* Every amount that is recorded, reported, paid or held is a whole number of minor units.
THEOREM TreeTypeCorrect == Spec => []TypeOK
<1>1. Typed => TypeOK
  BY DEF Typed
<1> QED
  BY InitTyped, NextTyped, <1>1, PTL DEF Spec
-----------------------------------------------------------------------------
(* Nothing is lost between the division and the tree: everybody with a line in   *)
(* the approved report is paid or owed his share of the pool, exactly, and where *)
(* everybody has one these add up to the pool.                                   *)

\* What somebody is paid by the tree.
Paid == [p \in Person |-> IF leaf[p] = None THEN 0 ELSE leaf[p].amount]

\* Those whose line the operator read.
Reported == {p \in Person : root.facts[p] # None}

NothingLost ==
  root # None => /\ \A p \in Reported : Paid[p] + hold[p] = Apportion(weight, pool)[p]
                 /\ \A p \in Person \ Reported : Paid[p] + hold[p] = 0
                 /\ Reported = Person => SumFunction(Paid) + SumFunction(hold) = pool

Divides == Apportion(weight, pool)

\* Whatever has been recorded, loaded or reported of somebody is his share.
OfDivision(amounts) == \A p \in Person : amounts[p] # None => amounts[p] = Divides[p]

\* What a build has resolved is what it loaded.
Reads(b) == /\ build[b].payable \subseteq HasLine(build[b].amounts)
            /\ \A p \in Person :
                 /\ build[b].facts[p] = None <=> build[b].amounts[p] = None
                 /\ build[b].amounts[p] # None => build[b].facts[p].amount = build[b].amounts[p]

EverythingDivided ==
  /\ OfDivision(line)
  /\ \A b \in Builder : OfDivision(build[b].amounts) /\ (ResolvedBy(b) => Reads(b))

TreeIsWhole ==
  root # None => /\ \A p \in Reported : Paid[p] + hold[p] = Divides[p]
                 /\ \A p \in Person \ Reported : Paid[p] = 0 /\ hold[p] = 0

WInv == Typed /\ IInv /\ EverythingDivided /\ TreeIsWhole

LEMMA InitWhole == Init => WInv
<1> SUFFICES ASSUME Init PROVE WInv
  OBVIOUS
<1>1. EverythingDivided
  <2>1. \A b \in Builder : build[b].amounts = Nobody /\ build[b].stage = "idle"
    BY DEF Init, NoBuild
  <2> QED
    BY <2>1 DEF Init, Nobody, OfDivision, EverythingDivided, ResolvedBy
<1>2. TreeIsWhole
  BY DEF Init, TreeIsWhole
<1> QED
  BY <1>1, <1>2, InitTyped, InitInv DEF WInv

\* What is divided does not change.
LEMMA DividesStays == ASSUME UNCHANGED inputVars PROVE Divides' = Divides
BY DEF inputVars, Divides

\* A build that is replaced by one whose lines are shares keeps what is divided.
LEMMA OneBuildReads ==
  ASSUME WInv, UNCHANGED <<inputVars, line>>, NEW b \in Builder, NEW r, build' = [build EXCEPT ![b] = r],
         \A p \in Person : r.amounts[p] # None => r.amounts[p] = Divides[p],
         r.stage \in {"check", "salt", "commit"} =>
           /\ r.payable \subseteq HasLine(r.amounts)
           /\ \A p \in Person : /\ r.facts[p] = None <=> r.amounts[p] = None
                                /\ r.amounts[p] # None => r.facts[p].amount = r.amounts[p]
  PROVE  EverythingDivided'
<1>1. build'[b] = r /\ \A c \in Builder \ {b} : build'[c] = build[c]
  BY DEF WInv, Typed, TypeOK
<1>2. Divides' = Divides /\ line' = line
  BY DividesStays
<1>3. OfDivision(line)'
  BY <1>2 DEF WInv, EverythingDivided, OfDivision
<1>4. ASSUME NEW c \in Builder PROVE (OfDivision(build[c].amounts) /\ (ResolvedBy(c) => Reads(c)))'
  <2>1. CASE c = b
    BY <1>1, <1>2, <2>1 DEF OfDivision, ResolvedBy, Reads, HasLine
  <2>2. CASE c # b
    <3>1. build'[c] = build[c]
      BY <1>1, <2>2
    <3>2. OfDivision(build[c].amounts) /\ (ResolvedBy(c) => Reads(c))
      BY DEF WInv, EverythingDivided
    <3> QED
      BY <1>2, <3>1, <3>2 DEF OfDivision, ResolvedBy, Reads, HasLine
  <2> QED
    BY <2>1, <2>2
<1> QED
  BY <1>3, <1>4 DEF EverythingDivided

LEMMA RefusalReads ==
  ASSUME WInv, UNCHANGED <<inputVars, line>>, NEW b \in Builder, Refuse(b) PROVE EverythingDivided'
<1>1. NoBuild.stage = "idle" /\ \A p \in Person : NoBuild.amounts[p] = None
  BY DEF NoBuild, Nobody
<1> QED
  BY <1>1, OneBuildReads DEF Refuse

LEMMA GotoReads ==
  ASSUME WInv, UNCHANGED <<inputVars, line>>, NEW b \in Builder, NEW stage, Goto(b, stage), ResolvedBy(b)
  PROVE  EverythingDivided'
<1>1. PICK r : r = [build[b] EXCEPT !.stage = stage]
  OBVIOUS
<1>2. build' = [build EXCEPT ![b] = r]
  BY <1>1 DEF Goto
<1>3. r.amounts = build[b].amounts /\ r.facts = build[b].facts /\ r.payable = build[b].payable
  <2>1. build[b] \in Build
    BY DEF WInv, Typed, TypeOK
  <2> QED
    BY <1>1, <2>1 DEF Build
<1>4. OfDivision(build[b].amounts) /\ Reads(b)
  BY DEF WInv, EverythingDivided
<1>5. \A p \in Person : r.amounts[p] # None => r.amounts[p] = Divides[p]
  BY <1>3, <1>4 DEF OfDivision
<1>6. /\ r.payable \subseteq HasLine(r.amounts)
      /\ \A p \in Person : /\ r.facts[p] = None <=> r.amounts[p] = None
                           /\ r.amounts[p] # None => r.facts[p].amount = r.amounts[p]
  BY <1>3, <1>4 DEF Reads
<1> QED
  BY <1>2, <1>5, <1>6, OneBuildReads

LEMMA ReadsKept ==
  ASSUME WInv, UNCHANGED <<inputVars, line, build>> PROVE EverythingDivided'
<1>1. Divides' = Divides
  BY DividesStays
<1> QED
  BY <1>1 DEF WInv, EverythingDivided, OfDivision, ResolvedBy, Reads, HasLine

LEMMA WholeKept ==
  ASSUME WInv, UNCHANGED <<inputVars, treeVars>> PROVE TreeIsWhole'
<1>1. Divides' = Divides
  BY DividesStays
<1> QED
  BY <1>1 DEF WInv, TreeIsWhole, Reported, Paid, treeVars

\* A line that is recorded is a share.
LEMMA RecordLineReads ==
  ASSUME WInv, NEW p \in Person, RecordLine(p), UNCHANGED inputVars PROVE EverythingDivided'
<1>1. Divides' = Divides /\ build' = build
  BY DividesStays DEF RecordLine
<1>2. line' = [line EXCEPT ![p] = Divides[p]]
  BY DEF RecordLine, Divides
<1>3. line \in Amounts
  BY DEF WInv, Typed, TypeOK
<1>4. \A q \in Person : line'[q] = line[q] \/ line'[q] = Divides[q]
  BY <1>2, <1>3 DEF Amounts
<1>5. OfDivision(line)'
  BY <1>1, <1>4 DEF WInv, EverythingDivided, OfDivision
<1> QED
  BY <1>1, <1>5 DEF WInv, EverythingDivided, OfDivision, ResolvedBy, Reads, HasLine

LEMMA ResolveReads ==
  ASSUME WInv, NEW b \in Builder, Resolve(b) PROVE EverythingDivided'
<1>1. UNCHANGED <<inputVars, line>>
  BY DEF Resolve
<1>2. CASE Refuse(b)
  BY <1>1, <1>2, RefusalReads
<1>3. CASE ~Refuse(b)
  <2>1. PICK amounts : amounts = build[b].amounts
    OBVIOUS
  <2>2. PICK r : r = [stage |-> "check", ack |-> build[b].ack, amounts |-> amounts,
                      facts |-> FactsOf(amounts), payable |-> PayableOf(amounts)]
    OBVIOUS
  <2>3. build' = [build EXCEPT ![b] = r]
    BY <1>3, <2>1, <2>2 DEF Resolve
  <2>4. OfDivision(amounts) /\ amounts \in Amounts
    BY <2>1 DEF WInv, EverythingDivided, Typed, TypeOK, Build
  <2>5. /\ \A p \in Person : r.amounts[p] # None => r.amounts[p] = Divides[p]
        /\ r.payable \subseteq HasLine(r.amounts)
    BY <2>2, <2>4 DEF OfDivision, PayableOf
  <2>6. ASSUME NEW p \in Person
        PROVE  /\ r.facts[p] = None <=> r.amounts[p] = None
               /\ r.amounts[p] # None => r.facts[p].amount = r.amounts[p]
    <3> DEFINE fact == [login |-> known[p].login, address |-> known[p].address, amount |-> amounts[p]]
    <3>1. r.facts[p] = IF amounts[p] = None THEN None ELSE fact
      BY <2>2 DEF FactsOf
    <3>2. amounts[p] # None => fact \in Fact
      BY <2>4 DEF WInv, Typed, TypeOK, Knowledge, Amounts, Fact
    <3>3. fact.amount = amounts[p]
      OBVIOUS
    <3> HIDE DEF fact
    <3> QED
      BY <2>2, <3>1, <3>2, <3>3, AbsentAssumption
  <2> QED
    BY <1>1, <2>3, <2>5, <2>6, OneBuildReads
<1> QED
  BY <1>2, <1>3

\* The tree that is written pays or holds what the build read.
LEMMA WriteIsWhole ==
  ASSUME WInv, NEW b \in Builder, At(b, "commit"), WriteTree(b), UNCHANGED inputVars PROVE TreeIsWhole'
<1>1. Divides' = Divides
  BY DividesStays
<1>2. PICK r : r = build[b]
  OBVIOUS
<1>3. /\ r.payable \subseteq HasLine(r.amounts) /\ r.ack.facts = r.facts
      /\ \A p \in Person : /\ r.facts[p] = None <=> r.amounts[p] = None
                           /\ r.amounts[p] # None => r.facts[p].amount = r.amounts[p] /\ r.amounts[p] = Divides[p]
                           /\ r.amounts[p] # None => r.amounts[p] \in Nat
  <2>1. Reads(b) /\ Carries(b) /\ OfDivision(r.amounts)
    BY <1>2 DEF WInv, IInv, BuildsCarryReport, EverythingDivided, ResolvedBy, At
  <2>2. r.amounts \in Amounts
    BY <1>2 DEF WInv, Typed, TypeOK, Build
  <2> QED
    BY <1>2, <2>1, <2>2 DEF Reads, Carries, OfDivision, Amounts
<1>4. /\ root' = r.ack
      /\ \A p \in Person : /\ leaf'[p] = IF p \in r.payable THEN r.facts[p] ELSE None
                           /\ hold'[p] = IF p \in HasLine(r.amounts) \ r.payable THEN r.amounts[p] ELSE 0
  BY <1>2 DEF WriteTree, HeldOf
<1>5. ASSUME NEW p \in Person, p \in Reported' PROVE Paid'[p] + hold'[p] = Divides[p]
  <2>1. r.amounts[p] # None
    BY <1>3, <1>4, <1>5 DEF Reported
  <2>2. CASE p \in r.payable
    <3>1. leaf'[p] # None /\ leaf'[p].amount = Divides[p] /\ hold'[p] = 0 /\ Divides[p] \in Nat
      BY <1>3, <1>4, <2>1, <2>2
    <3> QED
      BY <3>1 DEF Paid
  <2>3. CASE p \notin r.payable
    <3>1. leaf'[p] = None /\ hold'[p] = Divides[p] /\ Divides[p] \in Nat
      BY <1>3, <1>4, <2>1, <2>3 DEF HasLine
    <3> QED
      BY <3>1 DEF Paid
  <2> QED
    BY <2>2, <2>3
<1>6. ASSUME NEW p \in Person, p \notin Reported' PROVE Paid'[p] = 0 /\ hold'[p] = 0
  <2>1. r.amounts[p] = None
    BY <1>3, <1>4, <1>6 DEF Reported
  <2>2. p \notin HasLine(r.amounts)
    BY <2>1 DEF HasLine
  <2>3. leaf'[p] = None /\ hold'[p] = 0
    BY <1>3, <1>4, <2>2
  <2> QED
    BY <2>3 DEF Paid
<1>7. Reported' \subseteq Person
  BY DEF Reported
<1> HIDE DEF Divides
<1>8. /\ \A p \in Reported' : Paid'[p] + hold'[p] = Divides'[p]
      /\ \A p \in Person \ Reported' : Paid'[p] = 0 /\ hold'[p] = 0
  BY <1>1, <1>5, <1>6, <1>7
<1> QED
  BY <1>8 DEF TreeIsWhole

LEMMA NextWhole == WInv /\ [Next]_vars => WInv'
<1> SUFFICES ASSUME WInv, [Next]_vars PROVE WInv'
  OBVIOUS
<1>0. Typed' /\ IInv'
  BY NextTyped, NextInv DEF WInv
<1>1. UNCHANGED inputVars
  BY DEF Next, vars, ChangeLogin, RegisterAddress, ChangeVerified, Erase, Moves, RecordLine,
         StartRecording, StopRecording, LoadReport, ReadReport, Load, Resolve, CheckRoot,
         CreateSalt, Commit, Dies
<1>2. ASSUME NEW p \in Person, ChangeLogin(p) \/ RegisterAddress(p) \/ ChangeVerified(p) \/ Erase(p)
      PROVE  WInv'
  BY <1>0, <1>1, <1>2, ReadsKept, WholeKept DEF WInv, ChangeLogin, RegisterAddress, ChangeVerified, Erase, Moves
<1>3. ASSUME NEW p \in Person, RecordLine(p) PROVE WInv'
  BY <1>0, <1>1, <1>3, RecordLineReads, WholeKept DEF WInv, RecordLine
<1>4. CASE StartRecording \/ StopRecording \/ LoadReport \/ ReadReport
  BY <1>0, <1>1, <1>4, ReadsKept, WholeKept DEF WInv, StartRecording, StopRecording, LoadReport, ReadReport
<1>5. ASSUME NEW b \in Builder, Load(b) PROVE WInv'
  <2>1. PICK r : r = [NoBuild EXCEPT !.stage = "resolve", !.ack = report, !.amounts = line]
    OBVIOUS
  <2>2. r.stage = "resolve" /\ r.amounts = line /\ build' = [build EXCEPT ![b] = r]
    BY <1>5, <2>1 DEF Load, NoBuild
  <2>3. OfDivision(line) /\ UNCHANGED <<line, treeVars>>
    BY <1>5 DEF WInv, EverythingDivided, Load
  <2>4. EverythingDivided'
    BY <1>1, <2>2, <2>3, OneBuildReads DEF OfDivision
  <2> QED
    BY <1>0, <1>1, <2>3, <2>4, WholeKept DEF WInv
<1>6. ASSUME NEW b \in Builder, Resolve(b) PROVE WInv'
  BY <1>0, <1>1, <1>6, ResolveReads, WholeKept DEF WInv, Resolve
<1>7. ASSUME NEW b \in Builder, CheckRoot(b) \/ CreateSalt(b) \/ Dies(b) PROVE WInv'
  <2>1. UNCHANGED <<line, treeVars>>
    BY <1>7 DEF CheckRoot, CreateSalt, Dies
  <2>2. Refuse(b) \/ (ResolvedBy(b) /\ \E stage : Goto(b, stage))
    BY <1>7 DEF CheckRoot, CreateSalt, Dies, ResolvedBy, At
  <2>3. EverythingDivided'
    BY <1>1, <2>1, <2>2, RefusalReads, GotoReads
  <2> QED
    BY <1>0, <1>1, <2>1, <2>3, WholeKept DEF WInv
<1>8. ASSUME NEW b \in Builder, Commit(b) PROVE WInv'
  <2>1. Refuse(b) /\ line' = line /\ At(b, "commit") /\ (UNCHANGED treeVars \/ WriteTree(b))
    BY <1>8 DEF Commit, WriteTree
  <2>2. EverythingDivided'
    BY <1>1, <2>1, RefusalReads
  <2>3. TreeIsWhole'
    BY <1>1, <2>1, WholeKept, WriteIsWhole
  <2> QED
    BY <1>0, <2>2, <2>3 DEF WInv
<1>9. CASE UNCHANGED vars
  BY <1>0, <1>1, <1>9, ReadsKept, WholeKept DEF WInv, vars
<1> QED
  BY <1>2, <1>3, <1>4, <1>5, <1>6, <1>7, <1>8, <1>9 DEF Next

\* Whatever is recorded, renamed, erased or left half done between the division and the tree,
\* everybody the approved report has a line of is paid or owed his share, to the unit.
THEOREM NothingIsLost == Spec => []NothingLost
<1>1. ASSUME WInv, root # None
      PROVE  /\ \A p \in Reported : Paid[p] + hold[p] = Divides[p]
             /\ \A p \in Person \ Reported : Paid[p] + hold[p] = 0
             /\ Reported = Person => SumFunction(Paid) + SumFunction(hold) = pool
  <2>1. /\ \A p \in Reported : Paid[p] + hold[p] = Divides[p]
        /\ \A p \in Person \ Reported : Paid[p] = 0 /\ hold[p] = 0
    BY <1>1 DEF WInv, TreeIsWhole
  <2>2. ASSUME Reported = Person PROVE SumFunction(Paid) + SumFunction(hold) = pool
    <3>1. /\ IsFiniteSet(Person) /\ hold \in [Person -> Nat] /\ weight \in [Person -> Nat] /\ pool \in Nat
          /\ \A q \in Person : q \in Nat
      BY <1>1, PersonAssumption DEF WInv, Typed, TypeOK
    <3>2. Paid \in [Person -> Nat]
      BY <1>1, AbsentAssumption DEF WInv, Typed, TypeOK, Facts, Fact, Paid
    <3>3. Divides \in [Person -> Nat] /\ SumFunction(Divides) = pool
      <4>1. SumFunction(weight) # 0
        <5>1. SumFunctionOnSet(weight, Person) \in Nat
          BY <3>1, SumIsWhole
        <5> QED
          BY <1>1, <3>1, <5>1 DEF WInv, Typed, Settles, SumFunction
      <4>2. PICK floor, rest : /\ Shares(Person, weight, pool, floor, rest)
                               /\ Divides = Divided(Person, weight, floor, rest, pool - SumFunction(floor))
        BY <3>1, <4>1, ApportionDivides DEF Divides
      <4> QED
        BY <3>1, <4>1, <4>2, DividesTheWhole
    <3> HIDE DEF Paid, Divides
    <3>4. \A p \in Person : Paid[p] \in Int /\ hold[p] \in Int /\ Divides[p] = Paid[p] + hold[p]
      BY <2>1, <2>2, <3>1, <3>2
    <3>5. SumFunctionOnSet(Divides, Person) = SumFunctionOnSet(Paid, Person) + SumFunctionOnSet(hold, Person)
      BY <3>1, <3>4, SumAddsUp
    <3> QED
      BY <3>1, <3>2, <3>3, <3>5 DEF SumFunction
  <2> QED
    BY <2>1, <2>2
<1>2. WInv => NothingLost
  BY <1>1 DEF NothingLost, Divides
<1> QED
  BY InitWhole, NextWhole, <1>2, PTL DEF Spec
=============================================================================
