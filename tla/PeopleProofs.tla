----------------------------- MODULE PeopleProofs -----------------------------
(* What is proved of the people of an event, for any number of them and any      *)
(* bounds.                                                                       *)
(*                                                                               *)
(* Assignments: however many runners draw at once, while contributors release,   *)
(* merges are recorded and the event closes, a win never takes a contributor     *)
(* over the slots that merged work earns, nor over the organisation's cap.  A    *)
(* runner that is about to insert has counted under the winner's lock            *)
(* (Reserved), no two of them insert for one person (LocksApart), and every      *)
(* other statement only frees rows (Settling).                                   *)
(*                                                                               *)
(* Account erasure: a deletion that completes has deleted at Didit every session *)
(* it knew of, or names it on the request.  The executor remembers what it could *)
(* not delete (Remembers); in the meantime the person, the reviewers and the     *)
(* other writers of the row go on, but a session that is gone at Didit stays     *)
(* gone, and an executor under way keeps its request open (HasRequest), so that  *)
(* nothing else completes it.                                                    *)
EXTENDS AccountErasure, Assignments, FiniteSetTheorems, SequenceTheorems, TLAPS

-----------------------------------------------------------------------------
(* The assignments of an event: the rows that count.                           *)

\* Where an assignment may be, and the assignments of a contributor that hold a
\* slot, that were won, and whose work was merged.
Slot == Issue \X (1..MaxRows)
HeldRows(u) == {x \in Slot : x[2] <= Len(rows[x[1]]) /\ rows[x[1]][x[2]].who = u /\ rows[x[1]][x[2]].holds}
WonRows(u) == {x \in Slot : x[2] <= Len(rows[x[1]]) /\ rows[x[1]][x[2]].who = u}
DoneRows(u) == {x \in Slot : /\ x[2] <= Len(rows[x[1]]) /\ rows[x[1]][x[2]].who = u
                             /\ rows[x[1]][x[2]].status = "completed"}
\* The issues a contributor has a merged pull request for, and the slots they earn.
Merged(u) == {i \in Issue : merged[i][u]}
Earned(u) == SlotsAfter(Cardinality(Merged(u)))

\* The table of assignments: its shape; one unreleased row of an issue (the partial
\* unique index); a slot held exactly while active; finished work was merged.
RowsTyped == rows \in [Issue -> Seq(Row)] /\ \A i \in Issue : Len(rows[i]) <= MaxRows
TakenOnce ==
  \A i \in Issue : \A k, l \in DOMAIN rows[i] :
    rows[i][k].status \notin Released /\ rows[i][l].status \notin Released => k = l
HeldWhileActive ==
  \A i \in Issue : \A k \in DOMAIN rows[i] : rows[i][k].holds <=> rows[i][k].status = "active"
WorkIsMerged ==
  \A i \in Issue : \A k \in DOMAIN rows[i] :
    rows[i][k].status = "completed" => merged[i][rows[i][k].who]
MergedTyped == merged \in [Issue -> [User -> BOOLEAN]]
RowsInv == RowsTyped /\ TakenOnce /\ HeldWhileActive /\ WorkIsMerged /\ MergedTyped

\* What a statement other than the insert may make of a row: nothing, a release,
\* or the end of work under way.
Settled(a, b) ==
  /\ b \in Row /\ b.who = a.who
  /\ \/ b = a
     \/ ~b.holds /\ b.status \in Released
     \/ ~b.holds /\ b.status = "completed" /\ a.status = "active"
RowsSettle ==
  /\ rows' \in [Issue -> Seq(Row)]
  /\ \A i \in Issue : /\ Len(rows'[i]) = Len(rows[i])
                      /\ \A k \in DOMAIN rows[i] : Settled(rows[i][k], rows'[i][k])
MergedGrows == \A i \in Issue, u \in User : merged[i][u] => merged'[i][u]

-----------------------------------------------------------------------------
\* The counts of the model are cardinalities of those sets.
LEMMA CountsAreSets ==
  ASSUME NEW u
  PROVE  /\ Held(u) = Cardinality(HeldRows(u))
         /\ Won(u) = Cardinality(WonRows(u))
         /\ Completed(u) = Cardinality(DoneRows(u))
BY DEF Held, Won, Completed, Count, HeldRows, WonRows, DoneRows, Slot

LEMMA CountsAreSetsLater ==
  ASSUME NEW CONSTANT u
  PROVE  /\ Held(u)' = Cardinality(HeldRows(u)')
         /\ Won(u)' = Cardinality(WonRows(u)')
BY DEF Held, Won, Completed, Count, HeldRows, WonRows, DoneRows, Slot

LEMMA SlotsFinite == IsFiniteSet(Slot) /\ \A T \in SUBSET Slot : IsFiniteSet(T) /\ Cardinality(T) \in Nat
<1>1. IsFiniteSet(Issue) /\ IsFiniteSet(1..MaxRows)
  BY LimitsAssumption, FS_Interval
<1>2. IsFiniteSet(Slot)
  BY <1>1, FS_Product DEF Slot
<1> QED
  BY <1>2, FS_Subset, FS_CardinalityType

LEMMA RowSets ==
  ASSUME NEW u
  PROVE  /\ HeldRows(u) \in SUBSET Slot /\ WonRows(u) \in SUBSET Slot /\ DoneRows(u) \in SUBSET Slot
         /\ HeldRows(u)' \in SUBSET Slot /\ WonRows(u)' \in SUBSET Slot
BY DEF HeldRows, WonRows, DoneRows, Slot

LEMMA MergedFinite ==
  ASSUME NEW u PROVE IsFiniteSet(Merged(u)) /\ Cardinality(Merged(u)) \in Nat
<1>1. IsFiniteSet(Issue) /\ Merged(u) \in SUBSET Issue
  BY LimitsAssumption DEF Merged
<1> QED
  BY <1>1, FS_Subset, FS_CardinalityType

\* More merged work never earns fewer slots.
LEMMA SlotsAreEarned ==
  ASSUME NEW c \in Nat
  PROVE  /\ SlotsAfter(c) \in Nat
         /\ \A d \in Nat : c <= d => SlotsAfter(c) <= SlotsAfter(d)
BY LimitsAssumption DEF SlotsAfter

\* The finished work of a contributor is on different issues, and merged.
LEMMA FinishedIsMerged ==
  ASSUME RowsInv, NEW u
  PROVE  EffectiveSlots(u) \in Nat /\ EffectiveSlots(u) <= Earned(u)
<1> DEFINE f == [x \in DoneRows(u) |-> x[1]]
<1>1. \A x \in DoneRows(u) : x[1] \in Merged(u)
  <2> SUFFICES ASSUME NEW x \in DoneRows(u) PROVE x[1] \in Merged(u)
    OBVIOUS
  <2>1. x[1] \in Issue /\ x[2] \in DOMAIN rows[x[1]]
    BY DEF DoneRows, Slot, RowsInv, RowsTyped
  <2> QED
    BY <2>1 DEF DoneRows, Merged, RowsInv, WorkIsMerged
<1>2. \A x, y \in DoneRows(u) : x[1] = y[1] => x = y
  <2> SUFFICES ASSUME NEW x \in DoneRows(u), NEW y \in DoneRows(u), x[1] = y[1] PROVE x = y
    OBVIOUS
  <2>1. /\ x[1] \in Issue /\ x[2] \in DOMAIN rows[x[1]] /\ y[2] \in DOMAIN rows[x[1]]
        /\ x = <<x[1], x[2]>> /\ y = <<y[1], y[2]>>
    BY DEF DoneRows, Slot, RowsInv, RowsTyped
  <2>2. rows[x[1]][x[2]].status \notin Released /\ rows[x[1]][y[2]].status \notin Released
    BY DEF DoneRows, Released
  <2>3. x[2] = y[2]
    BY <2>1, <2>2 DEF RowsInv, TakenOnce
  <2> QED
    BY <2>1, <2>3
<1>3. f \in Injection(DoneRows(u), Merged(u))
  BY <1>1, <1>2 DEF Injection, IsInjective
<1>4. Cardinality(DoneRows(u)) <= Cardinality(Merged(u)) /\ IsFiniteSet(DoneRows(u))
  BY <1>3, MergedFinite, FS_Injection
<1>5. Cardinality(DoneRows(u)) \in Nat
  BY <1>4, FS_CardinalityType
<1> QED
  BY <1>4, <1>5, MergedFinite, SlotsAreEarned, CountsAreSets DEF EffectiveSlots, Earned
-----------------------------------------------------------------------------
\* Settling rows keeps the table sound; nobody holds or has won a row more.
LEMMA Settling ==
  ASSUME RowsInv, RowsSettle, MergedGrows, MergedTyped',
         \A i \in Issue : \A k \in DOMAIN rows[i] :
            rows'[i][k].status = "completed" => merged'[i][rows'[i][k].who]
  PROVE  /\ RowsInv'
         /\ \A u : HeldRows(u)' \subseteq HeldRows(u) /\ WonRows(u)' = WonRows(u)
<1> USE DEF RowsInv, RowsTyped, RowsSettle
<1>1. \A i \in Issue : /\ Len(rows[i]) \in Nat /\ Len(rows'[i]) = Len(rows[i])
                       /\ DOMAIN rows[i] = 1..Len(rows[i]) /\ DOMAIN rows'[i] = DOMAIN rows[i]
  OBVIOUS
<1>2. \A i \in Issue : \A k \in DOMAIN rows[i] :
        /\ rows[i][k] \in Row /\ rows'[i][k] \in Row /\ rows'[i][k].who = rows[i][k].who
        /\ rows'[i][k].status \notin Released => rows[i][k].status \notin Released
        /\ rows'[i][k].holds => rows[i][k].holds
        /\ (rows[i][k].holds <=> rows[i][k].status = "active")
              => (rows'[i][k].holds <=> rows'[i][k].status = "active")
  <2> SUFFICES ASSUME NEW i \in Issue, NEW k \in DOMAIN rows[i]
               PROVE  /\ rows[i][k] \in Row /\ rows'[i][k] \in Row /\ rows'[i][k].who = rows[i][k].who
                      /\ rows'[i][k].status \notin Released => rows[i][k].status \notin Released
                      /\ rows'[i][k].holds => rows[i][k].holds
                      /\ (rows[i][k].holds <=> rows[i][k].status = "active")
                            => (rows'[i][k].holds <=> rows'[i][k].status = "active")
    OBVIOUS
  <2>1. rows[i][k] \in Row
    BY <1>1
  <2>2. Settled(rows[i][k], rows'[i][k])
    OBVIOUS
  <2> HIDE DEF RowsInv, RowsTyped, RowsSettle
  <2> QED
    BY <2>1, <2>2 DEF Settled, Released, Row
<1>3. RowsTyped' /\ TakenOnce'
  BY <1>1, <1>2 DEF TakenOnce
<1>4. HeldWhileActive'
  BY <1>1, <1>2 DEF HeldWhileActive
<1>5. WorkIsMerged'
  BY <1>1 DEF WorkIsMerged
<1>6. ASSUME NEW u PROVE HeldRows(u)' \subseteq HeldRows(u) /\ WonRows(u)' = WonRows(u)
  <2>1. \A x \in Slot : x[1] \in Issue /\ (x[2] <= Len(rows[x[1]]) => x[2] \in DOMAIN rows[x[1]])
    BY <1>1, LimitsAssumption DEF Slot
  <2> HIDE DEF RowsInv, RowsTyped, RowsSettle
  <2> QED
    BY <1>1, <1>2, <2>1 DEF HeldRows, WonRows
<1> QED
  BY <1>3, <1>4, <1>5, <1>6

LEMMA MergingMore ==
  ASSUME MergedGrows, NEW CONSTANT u \in User
  PROVE  Earned(u) \in Nat /\ Earned(u)' \in Nat /\ Earned(u) <= Earned(u)'
<1>1. Merged(u) \subseteq Merged(u)'
  BY DEF Merged, MergedGrows
<1>2. IsFiniteSet(Merged(u)') /\ Merged(u)' \subseteq Issue /\ IsFiniteSet(Issue)
  <2>1. Merged(u)' \subseteq Issue /\ IsFiniteSet(Issue)
    BY LimitsAssumption DEF Merged
  <2> QED
    BY <2>1, FS_Subset
<1>3. Cardinality(Merged(u)') \in Nat /\ Cardinality(Merged(u)) \in Nat
  BY <1>2, FS_CardinalityType, MergedFinite
<1>4. Cardinality(Merged(u)) <= Cardinality(Merged(u)')
  BY <1>1, <1>2, FS_Subset
<1> QED
  BY <1>3, <1>4, SlotsAreEarned DEF Earned
-----------------------------------------------------------------------------
\* A rewriting of every element of a sequence is a sequence of that length.
LEMMA Rewritten ==
  ASSUME NEW s \in Seq(Row), NEW f \in [DOMAIN s -> Row]
  PROVE  f \in Seq(Row) /\ Len(f) = Len(s) /\ DOMAIN f = DOMAIN s
<1>1. Len(s) \in Nat /\ DOMAIN s = 1..Len(s)
  OBVIOUS
<1>2. f \in Seq(Row)
  BY <1>1, SeqDef
<1>3. DOMAIN f = 1..Len(f) /\ Len(f) \in Nat /\ DOMAIN f = DOMAIN s
  BY <1>2
<1>4. Len(f) = Len(s)
  BY <1>1, <1>3
<1> QED
  BY <1>2, <1>3, <1>4

\* Freeing a row settles it, if it was under way or is released.
LEMMA FreeSettles ==
  ASSUME NEW a \in Row, NEW how \in Released \cup {"completed"}, NEW abandon \in BOOLEAN,
         how \in Released \/ a.status = "active"
  PROVE  Settled(a, Free(a, how, abandon)) /\ Free(a, how, abandon).status = how
         /\ Free(a, how, abandon).who = a.who /\ Free(a, how, abandon) \in Row
<1> DEFINE b == Free(a, how, abandon)
<1>1. b.who = a.who /\ b.status = how /\ b.holds = FALSE /\ b \in Row
  BY DEF Free, Row, Released
<1> HIDE DEF b
<1> QED
  BY <1>1 DEF Settled, b

LEMMA SettlesItself == ASSUME NEW a \in Row PROVE Settled(a, a)
BY DEF Settled

LEMMA RowsAtRest == ASSUME RowsTyped, rows' = rows PROVE RowsSettle
<1>1. \A i \in Issue : \A k \in DOMAIN rows[i] : rows[i][k] \in Row
  BY DEF RowsTyped
<1> QED
  BY <1>1, SettlesItself DEF RowsSettle, RowsTyped

\* A statement that frees the rows of some issues that pass a test.
LEMMA FreeingSettles ==
  ASSUME RowsTyped, NEW g, rows' = [i \in Issue |-> g[i]],
         \A i \in Issue : \/ g[i] = rows[i]
                          \/ /\ g[i] = [k \in DOMAIN rows[i] |-> g[i][k]]
                             /\ \A k \in DOMAIN rows[i] : Settled(rows[i][k], g[i][k])
  PROVE  RowsSettle
<1>1. \A i \in Issue : /\ g[i] \in Seq(Row) /\ Len(g[i]) = Len(rows[i])
                       /\ \A k \in DOMAIN rows[i] : Settled(rows[i][k], g[i][k])
  <2> SUFFICES ASSUME NEW i \in Issue
               PROVE  /\ g[i] \in Seq(Row) /\ Len(g[i]) = Len(rows[i])
                      /\ \A k \in DOMAIN rows[i] : Settled(rows[i][k], g[i][k])
    OBVIOUS
  <2>1. rows[i] \in Seq(Row) /\ \A k \in DOMAIN rows[i] : rows[i][k] \in Row
    BY DEF RowsTyped
  <2>2. CASE g[i] = rows[i]
    BY <2>1, <2>2, SettlesItself
  <2>3. CASE /\ g[i] = [k \in DOMAIN rows[i] |-> g[i][k]]
             /\ \A k \in DOMAIN rows[i] : Settled(rows[i][k], g[i][k])
    <3>1. \A k \in DOMAIN rows[i] : g[i][k] \in Row
      BY <2>3 DEF Settled
    <3>2. g[i] \in [DOMAIN rows[i] -> Row]
      BY <2>3, <3>1
    <3> QED
      BY <2>1, <2>3, <3>2, Rewritten
  <2> QED
    BY <2>2, <2>3
<1> QED
  BY <1>1 DEF RowsSettle

\* The write by id alone settles the row, whatever it had become.
LEMMA VoluntarySettles ==
  ASSUME RowsTyped, NEW i \in Issue, NEW k \in DOMAIN rows[i], NEW abandon \in BOOLEAN,
         rows' = [rows EXCEPT ![i][k] = Free(@, "released_voluntary", abandon)]
  PROVE  /\ RowsSettle
         /\ \A j \in Issue : \A l \in DOMAIN rows[j] :
              rows'[j][l] = rows[j][l] \/ rows'[j][l].status \in Released
<1> DEFINE b == Free(rows[i][k], "released_voluntary", abandon)
<1>1. rows[i][k] \in Row /\ rows[i] \in Seq(Row) /\ rows \in [Issue -> Seq(Row)]
  BY DEF RowsTyped
<1>2. Settled(rows[i][k], b) /\ b \in Row /\ b.status \in Released
  BY <1>1, FreeSettles DEF Released
<1> HIDE DEF b
<1>3. rows' = [rows EXCEPT ![i] = [rows[i] EXCEPT ![k] = b]]
  BY <1>1 DEF b
<1>4. [rows[i] EXCEPT ![k] = b] \in [DOMAIN rows[i] -> Row]
  BY <1>1, <1>2
<1>5. [rows[i] EXCEPT ![k] = b] \in Seq(Row) /\ Len([rows[i] EXCEPT ![k] = b]) = Len(rows[i])
  BY <1>1, <1>4, Rewritten
<1>6. \A j \in Issue : \A l \in DOMAIN rows[j] : rows[j][l] \in Row
  BY DEF RowsTyped
<1>7. \A j \in Issue : \A l \in DOMAIN rows[j] : rows'[j][l] = IF j = i /\ l = k THEN b ELSE rows[j][l]
  BY <1>1, <1>3
<1>8. \A j \in Issue : \A l \in DOMAIN rows[j] : Settled(rows[j][l], rows'[j][l])
  BY <1>2, <1>6, <1>7, SettlesItself
<1> QED
  BY <1>1, <1>2, <1>3, <1>5, <1>7, <1>8 DEF RowsSettle
-----------------------------------------------------------------------------
\* What the processes in between carry: candidates of the sync that qualified were
\* merged, a release names a row, a win names its person and issue; and the caps:
\* whoever is about to insert has room, and is alone with that winner.
CandidatesMerged == \A c \in sync.cands : c.ok => merged[c.issue][c.author]
ReleaseKnown ==
  \A u \in User : userReq[u].pc = "release"
    => userReq[u].issue \in Issue /\ userReq[u].row \in DOMAIN rows[userReq[u].issue]
WinnersKnown ==
  \A r \in Runner : run[r].pc \in {"lock", "insert"} => run[r].winner \in User /\ run[r].issue \in Issue
Reserved ==
  \A r \in Runner, u \in User :
    run[r].pc = "insert" /\ run[r].winner = u => Held(u) < Earned(u) /\ OrgCapOpen(u)
LocksApart ==
  \A q, r \in Runner : q # r /\ run[q].pc = "insert" /\ run[r].pc = "insert" => run[q].winner # run[r].winner
CapsInv == WinnersKnown /\ Reserved /\ LocksApart

\* Nobody has newly passed the recount.
InsertsStay ==
  \A r \in Runner : run'[r].pc = "insert" => /\ run[r].pc = "insert" /\ run'[r].winner = run[r].winner
                                             /\ run'[r].issue = run[r].issue

\* The rows of nobody grow: who was about to insert still may.
LEMMA CapsStay ==
  ASSUME CapsInv, MergedGrows, InsertsStay, WinnersKnown',
         \A u : HeldRows(u)' \subseteq HeldRows(u) /\ WonRows(u)' = WonRows(u)
  PROVE  CapsInv' /\ \A u \in User : ~(Won(u)' > Won(u))
<1>1. ASSUME NEW u \in User
      PROVE  /\ Held(u) \in Nat /\ Held(u)' \in Nat /\ Held(u)' <= Held(u)
             /\ Won(u)' = Won(u) /\ Won(u) \in Nat
  <2>1. /\ Held(u)' = Cardinality(HeldRows(u)') /\ Won(u)' = Cardinality(WonRows(u)')
        /\ Held(u) = Cardinality(HeldRows(u)) /\ Won(u) = Cardinality(WonRows(u))
    BY CountsAreSets, CountsAreSetsLater
  <2>2. /\ IsFiniteSet(HeldRows(u)) /\ HeldRows(u)' \in SUBSET HeldRows(u)
        /\ Cardinality(HeldRows(u)) \in Nat /\ Cardinality(HeldRows(u)') \in Nat
        /\ Cardinality(WonRows(u)) \in Nat
    BY RowSets, SlotsFinite
  <2>3. Cardinality(HeldRows(u)') <= Cardinality(HeldRows(u))
    BY <2>2, FS_Subset
  <2> QED
    BY <2>1, <2>2, <2>3
<1>2. ASSUME NEW r \in Runner, NEW u \in User, run'[r].pc = "insert", run'[r].winner = u
      PROVE  Held(u)' < Earned(u)' /\ OrgCapOpen(u)'
  <2>1. Held(u) < Earned(u) /\ OrgCapOpen(u)
    BY <1>2 DEF InsertsStay, CapsInv, Reserved
  <2>2. Earned(u) \in Nat /\ Earned(u)' \in Nat /\ Earned(u) <= Earned(u)'
    BY MergingMore
  <2>3. Held(u)' < Earned(u)'
    BY <1>1, <2>1, <2>2
  <2>4. OrgCapOpen(u)'
    BY <1>1, <2>1 DEF OrgCapOpen
  <2> QED
    BY <2>3, <2>4
<1>3. Reserved'
  BY <1>2 DEF Reserved
<1>4. LocksApart'
  BY DEF CapsInv, LocksApart, InsertsStay
<1> QED
  BY <1>1, <1>3, <1>4 DEF CapsInv

\* CommitLock: the recount, under the lock of the winner.
LEMMA LockKeepsCaps ==
  ASSUME RowsInv, CapsInv, run \in [Runner -> Run], NEW r \in Runner, CommitLock(r), WinnersKnown'
  PROVE  CapsInv'
<1>1. /\ run[r].pc = "lock" /\ UNCHANGED <<rows, merged>>
      /\ \A q \in Runner : ~(run[q].pc = "insert" /\ run[q].winner = run[r].winner)
  BY DEF CommitLock, people, work
<1>2. ASSUME NEW q \in Runner, q # r PROVE run'[q] = run[q]
  BY <1>2 DEF CommitLock, NextIssue
<1>3. run'[r].pc = "insert" => HasRoom(run[r].winner) /\ run'[r].winner = run[r].winner
  BY DEF CommitLock, NextIssue, Run
<1>4. \A u : Held(u)' = Held(u) /\ Earned(u)' = Earned(u) /\ OrgCapOpen(u)' = OrgCapOpen(u)
  BY <1>1 DEF Held, Count, Earned, Merged, OrgCapOpen, Won
<1>5. ASSUME NEW q \in Runner, NEW u \in User, run'[q].pc = "insert", run'[q].winner = u
      PROVE  Held(u) < Earned(u) /\ OrgCapOpen(u)
  <2>1. CASE q = r
    <3>1. Held(u) < EffectiveSlots(u) /\ OrgCapOpen(u)
      BY <1>3, <1>5, <2>1 DEF HasRoom
    <3>2. EffectiveSlots(u) <= Earned(u) /\ EffectiveSlots(u) \in Nat /\ Earned(u) \in Nat
      BY FinishedIsMerged, MergedFinite, SlotsAreEarned DEF Earned
    <3>3. Held(u) \in Nat
      BY CountsAreSets, RowSets, SlotsFinite
    <3> QED
      BY <3>1, <3>2, <3>3
  <2>2. CASE q # r
    BY <1>2, <1>5, <2>2 DEF CapsInv, Reserved
  <2> QED
    BY <2>1, <2>2
<1>6. Reserved'
  BY <1>4, <1>5 DEF Reserved
<1>7. LocksApart'
  BY <1>1, <1>2, <1>3 DEF CapsInv, LocksApart
<1> QED
  BY <1>6, <1>7 DEF CapsInv
-----------------------------------------------------------------------------
\* The insert of commitAssignment.
NewRow(u) == [who |-> u, status |-> "active", holds |-> TRUE, abandon |-> FALSE]

\* On a free issue it adds one row to what its winner holds and has won.
LEMMA Inserted ==
  ASSUME RowsInv, NEW i \in Issue, NEW u \in User, ~Occupied(i), Len(rows[i]) # MaxRows,
         rows' = [rows EXCEPT ![i] = Append(@, NewRow(u))], UNCHANGED merged
  PROVE  /\ RowsInv'
         /\ \A v : v # u => HeldRows(v)' = HeldRows(v) /\ WonRows(v)' = WonRows(v)
         /\ \E x \in Slot : /\ x \notin HeldRows(u) /\ HeldRows(u)' = HeldRows(u) \cup {x}
                            /\ x \notin WonRows(u) /\ WonRows(u)' = WonRows(u) \cup {x}
<1> DEFINE n == Len(rows[i]) + 1
<1>1. /\ rows \in [Issue -> Seq(Row)] /\ \A j \in Issue : Len(rows[j]) \in Nat /\ DOMAIN rows[j] = 1..Len(rows[j])
      /\ NewRow(u) \in Row /\ n \in 1..MaxRows /\ n - 1 = Len(rows[i])
  <2>1. NewRow(u) \in Row
    BY DEF NewRow, Row
  <2>2. rows \in [Issue -> Seq(Row)] /\ Len(rows[i]) <= MaxRows
    BY DEF RowsInv, RowsTyped
  <2>3. \A j \in Issue : Len(rows[j]) \in Nat /\ DOMAIN rows[j] = 1..Len(rows[j])
    BY <2>2
  <2> QED
    BY <2>1, <2>2, <2>3, LimitsAssumption
<1>2. /\ rows' \in [Issue -> Seq(Row)] /\ Len(rows'[i]) = n /\ DOMAIN rows'[i] = 1..n
      /\ rows'[i][n] = NewRow(u) /\ \A k \in 1..(n - 1) : rows'[i][k] = rows[i][k]
      /\ \A j \in Issue : j # i => rows'[j] = rows[j]
  BY <1>1, AppendProperties
<1>3. NewRow(u).who = u /\ NewRow(u).status = "active" /\ NewRow(u).holds = TRUE
  BY DEF NewRow
<1> HIDE DEF n
<1>4. \A k \in DOMAIN rows'[i] : (k \in DOMAIN rows[i] /\ rows'[i][k] = rows[i][k]) \/ k = n
  BY <1>1, <1>2
<1>5. \A k \in DOMAIN rows[i] : rows[i][k].status \in Released
  BY DEF Occupied
<1>6. RowsTyped'
  BY <1>1, <1>2 DEF RowsInv, RowsTyped
<1>7. TakenOnce'
  <2> SUFFICES ASSUME NEW j \in Issue, NEW k \in DOMAIN rows'[j], NEW l \in DOMAIN rows'[j],
                      rows'[j][k].status \notin Released, rows'[j][l].status \notin Released
               PROVE  k = l
    BY DEF TakenOnce
  <2>1. CASE j = i
    BY <1>4, <1>5, <2>1
  <2>2. CASE j # i
    BY <1>2, <2>2 DEF RowsInv, TakenOnce
  <2> QED
    BY <2>1, <2>2
<1>8. HeldWhileActive'
  <2> SUFFICES ASSUME NEW j \in Issue, NEW k \in DOMAIN rows'[j]
               PROVE  rows'[j][k].holds <=> rows'[j][k].status = "active"
    BY DEF HeldWhileActive
  <2>1. CASE j = i /\ k = n
    BY <1>2, <1>3, <2>1
  <2>2. CASE ~(j = i /\ k = n)
    BY <1>2, <1>4, <2>2 DEF RowsInv, HeldWhileActive
  <2> QED
    BY <2>1, <2>2
<1>9. WorkIsMerged' /\ MergedTyped'
  <2>1. ASSUME NEW j \in Issue, NEW k \in DOMAIN rows'[j], rows'[j][k].status = "completed"
        PROVE  merged[j][rows'[j][k].who]
    BY <1>2, <1>3, <1>4, <2>1 DEF RowsInv, WorkIsMerged
  <2> QED
    BY <2>1 DEF WorkIsMerged, MergedTyped, RowsInv
<1>10. \A x \in Slot : /\ x[1] \in Issue /\ x[2] \in Nat /\ x[2] >= 1
                       /\ x = <<i, n>> <=> x[1] = i /\ x[2] = n
  BY LimitsAssumption DEF Slot
<1>11. <<i, n>> \in Slot /\ n \in Nat
  BY <1>1 DEF Slot
<1>12. \A x \in Slot : x # <<i, n>> => /\ x[2] <= Len(rows'[x[1]]) <=> x[2] <= Len(rows[x[1]])
                                       /\ x[2] <= Len(rows[x[1]]) => rows'[x[1]][x[2]] = rows[x[1]][x[2]]
  BY <1>1, <1>2, <1>10
<1>13. ~(n <= Len(rows[i])) /\ n <= Len(rows'[i])
  BY <1>1, <1>2
<1>14. ASSUME NEW v, v # u PROVE HeldRows(v)' = HeldRows(v) /\ WonRows(v)' = WonRows(v)
  BY <1>2, <1>3, <1>10, <1>12, <1>13, <1>14 DEF HeldRows, WonRows, Slot
<1>15. /\ <<i, n>> \notin HeldRows(u) /\ HeldRows(u)' = HeldRows(u) \cup {<<i, n>>}
       /\ <<i, n>> \notin WonRows(u) /\ WonRows(u)' = WonRows(u) \cup {<<i, n>>}
  BY <1>2, <1>3, <1>10, <1>11, <1>12, <1>13 DEF HeldRows, WonRows, Slot
<1> QED
  BY <1>6, <1>7, <1>8, <1>9, <1>11, <1>14, <1>15 DEF RowsInv

\* CommitInsert: the one step that wins, inside what was reserved.
LEMMA InsertKeepsCaps ==
  ASSUME RowsInv, CapsInv, run \in [Runner -> Run], NEW r \in Runner, CommitInsert(r), WinnersKnown'
  PROVE  /\ RowsInv' /\ CapsInv'
         /\ \A u \in User : Won(u)' > Won(u) => Held(u)' <= Earned(u)' /\ (OrgCap = 0 \/ Won(u)' <= OrgCap)
<1>1. /\ run[r].pc = "insert" /\ UNCHANGED merged
      /\ \A q \in Runner : q # r => run'[q] = run[q]
      /\ run'[r].pc = "drawing"
  BY DEF CommitInsert, NextIssue, work, Run
<1>2. CASE rows' = rows
  <2>1. RowsSettle /\ MergedGrows /\ MergedTyped'
    BY <1>1, <1>2, RowsAtRest DEF MergedGrows, RowsInv, MergedTyped
  <2>2. \A i \in Issue : \A k \in DOMAIN rows[i] :
          rows'[i][k].status = "completed" => merged'[i][rows'[i][k].who]
    BY <1>1, <1>2 DEF RowsInv, WorkIsMerged
  <2>3. RowsInv' /\ \A u : HeldRows(u)' \subseteq HeldRows(u) /\ WonRows(u)' = WonRows(u)
    BY <2>1, <2>2, Settling
  <2>4. InsertsStay
    BY <1>1 DEF InsertsStay
  <2> QED
    BY <2>1, <2>3, <2>4, CapsStay
<1>3. CASE rows' # rows
  <2>1. PICK u \in User : u = run[r].winner
    BY <1>1 DEF CapsInv, WinnersKnown
  <2>2. PICK i \in Issue : i = run[r].issue
    BY <1>1 DEF CapsInv, WinnersKnown
  <2>3. ~Occupied(i) /\ Len(rows[i]) # MaxRows /\ rows' = [rows EXCEPT ![i] = Append(@, NewRow(u))]
    BY <1>3, <2>1, <2>2 DEF CommitInsert, NewRow, people
  <2>4. /\ RowsInv'
        /\ \A v : v # u => HeldRows(v)' = HeldRows(v) /\ WonRows(v)' = WonRows(v)
        /\ \E x \in Slot : /\ x \notin HeldRows(u) /\ HeldRows(u)' = HeldRows(u) \cup {x}
                           /\ x \notin WonRows(u) /\ WonRows(u)' = WonRows(u) \cup {x}
    BY <1>1, <2>3, Inserted
  <2>5. \A v \in User : Held(v) \in Nat /\ Won(v) \in Nat
    BY CountsAreSets, RowSets, SlotsFinite
  <2>6. \A v \in User : v # u => Held(v)' = Held(v) /\ Won(v)' = Won(v)
    BY <2>4, CountsAreSets, CountsAreSetsLater
  <2>7. Held(u)' = Held(u) + 1 /\ Won(u)' = Won(u) + 1
    <3>1. PICK x \in Slot : /\ x \notin HeldRows(u) /\ HeldRows(u)' = HeldRows(u) \cup {x}
                            /\ x \notin WonRows(u) /\ WonRows(u)' = WonRows(u) \cup {x}
      BY <2>4
    <3>2. IsFiniteSet(HeldRows(u)) /\ IsFiniteSet(WonRows(u))
      BY RowSets, SlotsFinite
    <3>3. /\ Cardinality(HeldRows(u) \cup {x}) = Cardinality(HeldRows(u)) + 1
          /\ Cardinality(WonRows(u) \cup {x}) = Cardinality(WonRows(u)) + 1
      BY <3>1, <3>2, FS_AddElement
    <3> QED
      BY <3>1, <3>3, CountsAreSets, CountsAreSetsLater
  <2>8. Held(u) < Earned(u) /\ OrgCapOpen(u)
    BY <1>1, <2>1 DEF CapsInv, Reserved
  <2>9. \A v \in User : Earned(v)' = Earned(v) /\ Earned(v) \in Nat
    BY <1>1, MergedFinite, SlotsAreEarned DEF Earned, Merged
  <2>10. Held(u)' <= Earned(u)' /\ (OrgCap = 0 \/ Won(u)' <= OrgCap)
    BY <2>5, <2>7, <2>8, <2>9, LimitsAssumption DEF OrgCapOpen
  <2>11. ASSUME NEW q \in Runner, run'[q].pc = "insert"
         PROVE  q # r /\ run'[q] = run[q] /\ run[q].winner # u
    BY <1>1, <2>1, <2>11 DEF CapsInv, LocksApart
  <2>12. ASSUME NEW q \in Runner, NEW v \in User, run'[q].pc = "insert", run'[q].winner = v
         PROVE  Held(v)' < Earned(v)' /\ OrgCapOpen(v)'
    <3>1. Held(v) < Earned(v) /\ OrgCapOpen(v) /\ v # u
      BY <2>11, <2>12 DEF CapsInv, Reserved
    <3> QED
      BY <2>6, <2>9, <3>1 DEF OrgCapOpen
  <2>13. Reserved'
    BY <2>12 DEF Reserved
  <2>14. LocksApart'
    BY <2>11 DEF CapsInv, LocksApart
  <2>15. \A v \in User : Won(v)' > Won(v) => v = u
    BY <2>5, <2>6
  <2> QED
    BY <2>4, <2>10, <2>13, <2>14, <2>15 DEF CapsInv
<1> QED
  BY <1>2, <1>3
-----------------------------------------------------------------------------
\* The types of everything else.
EventTyped ==
  /\ phase \in {"live", "closed"}
  /\ entry \in [Issue -> {"pending", "published", "removed"}]
  /\ window \in [Issue -> {"open", "shut", "none"}]
  /\ rounds \in [Issue -> 0..EmptyRetries]
ProcsTyped ==
  /\ run \in [Runner -> Run] /\ mishaps \in 0..MaxMishaps
  /\ userReq \in [User -> UserRequest] /\ sync \in Sync /\ gone \in Issue \cup {Nobody}
  /\ closing \in [Runner \cup {Admin} -> {"no", "rows", "applications", "issues"}]
WorkTyped ==
  /\ app \in [Issue -> [User -> Application]]
  /\ verdict \in [Issue -> [User -> Verdict]]
Typed == EventTyped /\ ProcsTyped /\ WorkTyped

\* A runner that moves without committing touches its own state alone.
RunnerTyped(r) ==
  /\ run' \in [Runner -> Run] /\ \A q \in Runner : q # r => run'[q] = run[q]
  /\ run'[r].pc # "insert"
  /\ run'[r].pc = "lock" => run'[r].winner \in User /\ run'[r].issue \in Issue

LEMMA RunTypes ==
  ASSUME run \in [Runner -> Run], NEW r \in Runner
  PROVE  /\ run[r] \in Run /\ NoRun \in Run /\ NoRun.pc = "idle"
         /\ run' = [run EXCEPT ![r] = NoRun] => RunnerTyped(r)
         /\ \A x \in Run : run' = [run EXCEPT ![r] = x] /\ x.pc \notin {"lock", "insert"} => RunnerTyped(r)
<1>1. NoRun \in Run /\ NoRun.pc = "idle"
  BY DEF NoRun, Run
<1> QED
  BY <1>1 DEF RunnerTyped

LEMMA TickTypes == ASSUME run \in [Runner -> Run], NEW r \in Runner, Tick(r) PROVE RunnerTyped(r)
<1> DEFINE free == {i \in Issue : phase = "live" /\ entry[i] = "published" /\ window[i] = "shut"
                                   /\ ~Occupied(i) /\ Len(rows[i]) < MaxRows}
           due == {[issue |-> i, empty |-> Applicants(i) = {} /\ rounds[i] < EmptyRetries] : i \in free}
           x == [run[r] EXCEPT !.pc = "drawing", !.due = due]
<1>1. due \in SUBSET DueDraw
  <2>1. \A i \in Issue : \A e \in BOOLEAN : [issue |-> i, empty |-> e] \in DueDraw
    BY DEF DueDraw
  <2>2. \A i \in free : i \in Issue /\ (Applicants(i) = {} /\ rounds[i] < EmptyRetries) \in BOOLEAN
    OBVIOUS
  <2> HIDE DEF free
  <2> QED
    BY <2>1, <2>2, Zenon
<1> HIDE DEF due
<1>2. x \in Run /\ x.pc = "drawing"
  BY <1>1 DEF Run
<1>3. run' = [run EXCEPT ![r] = x]
  BY DEF Tick, due
<1> QED
  BY <1>2, <1>3, RunTypes

LEMMA TakeEmptyTypes == ASSUME run \in [Runner -> Run], NEW r \in Runner, TakeEmpty(r) PROVE RunnerTyped(r)
<1>1. PICK d \in run[r].due : run' = [run EXCEPT ![r].due = @ \ {d}, ![r].issue = d.issue,
                             ![r].pc = IF IssueIsFinished(d.issue) THEN "draw" ELSE "reopen"]
  BY DEF TakeEmpty
<1>2. PICK pc \in {"draw", "reopen"} : pc = IF IssueIsFinished(d.issue) THEN "draw" ELSE "reopen"
  OBVIOUS
<1> DEFINE x == [run[r] EXCEPT !.due = @ \ {d}, !.issue = d.issue, !.pc = pc]
<1>3. d.issue \in Issue /\ run[r].due \ {d} \in SUBSET DueDraw
  BY DEF Run, DueDraw
<1>4. x \in Run /\ x.pc = pc
  BY <1>3 DEF Run
<1>5. run' = [run EXCEPT ![r] = x]
  BY <1>1, <1>2
<1> QED
  BY <1>4, <1>5, RunTypes

LEMMA RunDrawTypes == ASSUME run \in [Runner -> Run], NEW r \in Runner, RunDraw(r) PROVE RunnerTyped(r)
<1>1. PICK i \in Issue, due \in SUBSET run[r].due : \E u \in Applicants(i) \cup {Nobody} :
            run' = [run EXCEPT ![r] = [@ EXCEPT !.pc = IF u = Nobody THEN "drawing" ELSE "lock", !.due = due,
                                                !.issue = IF u = Nobody THEN Nobody ELSE i, !.winner = u]]
  BY DEF RunDraw
<1>2. PICK u \in Applicants(i) \cup {Nobody} :
            run' = [run EXCEPT ![r] = [@ EXCEPT !.pc = IF u = Nobody THEN "drawing" ELSE "lock", !.due = due,
                                                !.issue = IF u = Nobody THEN Nobody ELSE i, !.winner = u]]
  BY <1>1
<1>3. u \in User \cup {Nobody} /\ due \in SUBSET DueDraw
  BY DEF Applicants, Run
<1>4. CASE u = Nobody
  <2> DEFINE x == [run[r] EXCEPT !.pc = "drawing", !.due = due, !.issue = Nobody, !.winner = u]
  <2>1. x \in Run /\ x.pc = "drawing" /\ run' = [run EXCEPT ![r] = x]
    BY <1>2, <1>3, <1>4 DEF Run
  <2> QED
    BY <2>1, RunTypes
<1>5. CASE u # Nobody
  <2> DEFINE x == [run[r] EXCEPT !.pc = "lock", !.due = due, !.issue = i, !.winner = u]
  <2>1. x \in Run /\ x.pc = "lock" /\ x.winner = u /\ x.issue = i /\ run' = [run EXCEPT ![r] = x]
    BY <1>2, <1>3, <1>5 DEF Run
  <2> QED
    BY <1>3, <1>5, <2>1 DEF RunnerTyped
<1> QED
  BY <1>4, <1>5

LEMMA RunnerTypes ==
  ASSUME run \in [Runner -> Run], NEW r \in Runner,
         \/ ReopenEmpty(r) \/ ReleaseStale(r) \/ ReopenStale(r) \/ OpenStale(r)
         \/ SweepClosedEvents(r) \/ Crash(r) \/ CommitInsert(r)
  PROVE  RunnerTyped(r)
<1> USE RunTypes
<1>1. CASE ReopenEmpty(r)
  <2>1. [run[r] EXCEPT !.pc = "draw"] \in Run /\ [run[r] EXCEPT !.pc = "draw"].pc = "draw"
    BY DEF Run
  <2> QED
    BY <1>1, <2>1 DEF ReopenEmpty
<1>2. CASE ReleaseStale(r)
  <2>1. PICK late \in SUBSET Issue : run' = [run EXCEPT ![r] = [@ EXCEPT !.pc = "again", !.todo = late]]
    BY <1>2 DEF ReleaseStale
  <2>2. /\ [run[r] EXCEPT !.pc = "again", !.todo = late] \in Run
        /\ [run[r] EXCEPT !.pc = "again", !.todo = late].pc = "again"
    BY DEF Run
  <2> QED
    BY <2>1, <2>2
<1>3. CASE ReopenStale(r)
  <2>1. PICK i \in run[r].todo :
          run' = IF IssueIsFinished(i) THEN [run EXCEPT ![r].todo = @ \ {i}]
                 ELSE [run EXCEPT ![r].todo = @ \ {i}, ![r].pc = "open", ![r].issue = i]
    BY <1>3 DEF ReopenStale
  <2>2. i \in Issue /\ run[r].pc = "again"
    BY <1>3 DEF Run, ReopenStale
  <2>3. /\ [run[r] EXCEPT !.todo = @ \ {i}] \in Run /\ [run[r] EXCEPT !.todo = @ \ {i}].pc = "again"
        /\ [run[r] EXCEPT !.todo = @ \ {i}, !.pc = "open", !.issue = i] \in Run
        /\ [run[r] EXCEPT !.todo = @ \ {i}, !.pc = "open", !.issue = i].pc = "open"
    BY <2>2 DEF Run
  <2>4. \/ run' = [run EXCEPT ![r] = [run[r] EXCEPT !.todo = @ \ {i}]]
        \/ run' = [run EXCEPT ![r] = [run[r] EXCEPT !.todo = @ \ {i}, !.pc = "open", !.issue = i]]
    BY <2>1
  <2> QED
    BY <2>3, <2>4
<1>4. CASE OpenStale(r)
  <2>1. /\ [run[r] EXCEPT !.pc = "again", !.issue = Nobody] \in Run
        /\ [run[r] EXCEPT !.pc = "again", !.issue = Nobody].pc = "again"
    BY DEF Run
  <2> QED
    BY <1>4, <2>1 DEF OpenStale
<1>5. CASE SweepClosedEvents(r)
  <2>1. [run[r] EXCEPT !.pc = "sweep"] \in Run /\ [run[r] EXCEPT !.pc = "sweep"].pc = "sweep"
    BY DEF Run
  <2> QED
    BY <1>5, <2>1 DEF SweepClosedEvents
<1>6. CASE Crash(r)
  BY <1>6 DEF Crash
<1>7. CASE CommitInsert(r)
  <2>1. /\ [run[r] EXCEPT !.pc = "drawing", !.issue = Nobody, !.winner = Nobody] \in Run
        /\ [run[r] EXCEPT !.pc = "drawing", !.issue = Nobody, !.winner = Nobody].pc = "drawing"
    BY DEF Run
  <2> QED
    BY <1>7, <2>1 DEF CommitInsert, NextIssue
<1> QED
  BY <1>1, <1>2, <1>3, <1>4, <1>5, <1>6, <1>7
-----------------------------------------------------------------------------
\* The inductive invariant, and what every step but a commit is.
AssignmentInv == RowsInv /\ CapsInv /\ Typed /\ CandidatesMerged /\ ReleaseKnown

Calm == /\ RowsSettle /\ MergedGrows /\ MergedTyped'
        /\ \A i \in Issue : \A k \in DOMAIN rows[i] :
             rows'[i][k].status = "completed" => merged'[i][rows'[i][k].who]
Steady == Calm /\ InsertsStay /\ WinnersKnown' /\ Typed' /\ CandidatesMerged' /\ ReleaseKnown'

\* Steps that leave the rows and the merges alone.
LEMMA CalmAtRest == ASSUME RowsInv, UNCHANGED <<rows, merged>> PROVE Calm
<1>1. RowsSettle
  BY RowsAtRest DEF RowsInv
<1>2. MergedGrows /\ MergedTyped'
  BY DEF MergedGrows, RowsInv, MergedTyped
<1>3. \A i \in Issue : \A k \in DOMAIN rows[i] :
        rows'[i][k].status = "completed" => merged'[i][rows'[i][k].who]
  BY DEF RowsInv, WorkIsMerged
<1> QED
  BY <1>1, <1>2, <1>3 DEF Calm

\* Statements that free rows and finish none.
LEMMA CalmReleases ==
  ASSUME RowsInv, RowsSettle, UNCHANGED merged,
         \A i \in Issue : \A k \in DOMAIN rows[i] : rows'[i][k] = rows[i][k] \/ rows'[i][k].status \in Released
  PROVE  Calm
<1>1. MergedGrows /\ MergedTyped'
  BY DEF MergedGrows, RowsInv, MergedTyped
<1>2. ASSUME NEW i \in Issue, NEW k \in DOMAIN rows[i], rows'[i][k].status = "completed"
      PROVE  merged'[i][rows'[i][k].who]
  BY <1>2 DEF RowsInv, WorkIsMerged, Released
<1> QED
  BY <1>1, <1>2 DEF Calm

\* The processes a step leaves alone, or moves one at a time.
LEMMA RunAtRest == ASSUME CapsInv, UNCHANGED run PROVE InsertsStay /\ WinnersKnown'
BY DEF CapsInv, InsertsStay, WinnersKnown

LEMMA RunMoves ==
  ASSUME CapsInv, NEW r \in Runner, RunnerTyped(r) PROVE InsertsStay /\ WinnersKnown'
<1>1. InsertsStay
  BY DEF InsertsStay, RunnerTyped
<1>2. \A q \in Runner : run'[q].pc \in {"lock", "insert"} => run'[q].winner \in User /\ run'[q].issue \in Issue
  BY DEF RunnerTyped, CapsInv, WinnersKnown
<1> QED
  BY <1>1, <1>2 DEF WinnersKnown

LEMMA SettledDomains ==
  ASSUME RowsTyped, RowsSettle PROVE \A i \in Issue : DOMAIN rows'[i] = DOMAIN rows[i]
BY DEF RowsTyped, RowsSettle

LEMMA RequestsAtRest ==
  ASSUME AssignmentInv, RowsSettle, UNCHANGED userReq PROVE ReleaseKnown'
BY SettledDomains DEF AssignmentInv, RowsInv, ReleaseKnown

LEMMA SyncAtRest ==
  ASSUME AssignmentInv, MergedGrows, sync'.cands \subseteq sync.cands PROVE CandidatesMerged'
<1>1. \A c \in sync.cands : c.issue \in Issue /\ c.author \in User
  BY DEF AssignmentInv, Typed, ProcsTyped, Sync, Candidate
<1> QED
  BY <1>1 DEF AssignmentInv, CandidatesMerged, MergedGrows

LEMMA SteadyKeeps ==
  ASSUME AssignmentInv, Steady PROVE AssignmentInv' /\ \A u \in User : ~(Won(u)' > Won(u))
<1>1. RowsInv' /\ \A u : HeldRows(u)' \subseteq HeldRows(u) /\ WonRows(u)' = WonRows(u)
  BY Settling DEF AssignmentInv, Steady, Calm
<1>2. CapsInv' /\ \A u \in User : ~(Won(u)' > Won(u))
  BY <1>1, CapsStay DEF AssignmentInv, Steady, Calm
<1> QED
  BY <1>1, <1>2 DEF AssignmentInv, Steady

\* The steps of contributors.
LEMMA UserRequestTypes ==
  ASSUME userReq \in [User -> UserRequest], NEW u \in User
  PROVE  /\ NoUserRequest \in UserRequest /\ NoUserRequest.pc = "none"
         /\ \A q \in UserRequest : userReq' = [userReq EXCEPT ![u] = q] =>
              /\ userReq' \in [User -> UserRequest] /\ userReq'[u] = q
              /\ \A v \in User : v # u => userReq'[v] = userReq[v]
<1>1. NoUserRequest \in UserRequest /\ NoUserRequest.pc = "none"
  BY LimitsAssumption DEF NoUserRequest, UserRequest
<1> QED
  BY <1>1

\* A request moves on; one that will release knows its row.
LEMMA RequestMoves ==
  ASSUME AssignmentInv, NEW u \in User, NEW q \in UserRequest, userReq' = [userReq EXCEPT ![u] = q],
         q.pc = "release" => q.issue \in Issue /\ q.row \in DOMAIN rows[q.issue], RowsSettle
  PROVE  userReq' \in [User -> UserRequest] /\ ReleaseKnown'
<1>1. userReq \in [User -> UserRequest]
  BY DEF AssignmentInv, Typed, ProcsTyped
<1>2. /\ userReq' \in [User -> UserRequest] /\ userReq'[u] = q
      /\ \A v \in User : v # u => userReq'[v] = userReq[v]
  BY <1>1, UserRequestTypes
<1>3. \A i \in Issue : DOMAIN rows'[i] = DOMAIN rows[i]
  BY SettledDomains DEF AssignmentInv, RowsInv
<1>4. \A v \in User : userReq'[v].pc = "release" =>
         userReq'[v].issue \in Issue /\ userReq'[v].row \in DOMAIN rows'[userReq'[v].issue]
  BY <1>2, <1>3 DEF AssignmentInv, ReleaseKnown
<1> QED
  BY <1>2, <1>4 DEF ReleaseKnown

LEMMA ApplySteady == ASSUME AssignmentInv, NEW u \in User, NEW i \in Issue, Apply(u, i) PROVE Steady
<1>1. /\ UNCHANGED <<event, people, work, run, mishaps, sync, gone, closing>>
      /\ \E passed \in {FALSE, CheckGates(u, i)} :
           userReq' = [userReq EXCEPT ![u] = [pc |-> "apply", issue |-> i, row |-> 0, passed |-> passed]]
  BY DEF Apply
<1>2. PICK passed \in BOOLEAN :
        userReq' = [userReq EXCEPT ![u] = [pc |-> "apply", issue |-> i, row |-> 0, passed |-> passed]]
  BY <1>1 DEF CheckGates
<1> DEFINE q == [pc |-> "apply", issue |-> i, row |-> 0, passed |-> passed]
<1>3. q \in UserRequest /\ q.pc = "apply"
  BY LimitsAssumption DEF UserRequest
<1> HIDE DEF q
<1>4. Calm /\ RowsSettle /\ MergedGrows
  BY <1>1, CalmAtRest DEF people, work, AssignmentInv, Calm
<1>5. userReq' \in [User -> UserRequest] /\ ReleaseKnown'
  BY <1>2, <1>3, <1>4, RequestMoves DEF q
<1>6. Typed'
  BY <1>1, <1>5 DEF event, people, work, Typed, EventTyped, WorkTyped, ProcsTyped, AssignmentInv
<1> QED
  BY <1>1, <1>4, <1>5, <1>6, RunAtRest, SyncAtRest DEF AssignmentInv, Steady
\* A request that only reads, or is lost.
LEMMA ReadSteady ==
  ASSUME AssignmentInv, NEW u \in User,
         UNCHANGED <<event, people, work, run, sync, gone, closing>>, mishaps' \in 0..MaxMishaps,
         NEW q \in UserRequest, userReq' = [userReq EXCEPT ![u] = q],
         q.pc = "release" => q.issue \in Issue /\ q.row \in DOMAIN rows[q.issue]
  PROVE  Steady
<1>1. Calm /\ RowsSettle /\ MergedGrows
  BY CalmAtRest DEF people, work, AssignmentInv, Calm
<1>2. userReq' \in [User -> UserRequest] /\ ReleaseKnown'
  BY <1>1, RequestMoves
<1>3. Typed'
  BY <1>2 DEF event, people, work, Typed, EventTyped, WorkTyped, ProcsTyped, AssignmentInv
<1> QED
  BY <1>1, <1>2, <1>3, RunAtRest, SyncAtRest DEF AssignmentInv, Steady

LEMMA ReleaseSteady == ASSUME AssignmentInv, NEW u \in User, NEW i \in Issue, Release(u, i) PROVE Steady
<1>1. PICK k \in DOMAIN rows[i] : /\ k < MaxRows
        /\ userReq' = [userReq EXCEPT ![u] = [pc |-> "release", issue |-> i, row |-> k, passed |-> FALSE]]
  BY DEF Release
<1> DEFINE q == [pc |-> "release", issue |-> i, row |-> k, passed |-> FALSE]
<1>2. k \in 0..MaxRows
  BY <1>1, LimitsAssumption DEF AssignmentInv, RowsInv, RowsTyped
<1>3. q \in UserRequest /\ q.issue = i /\ q.row = k
  BY <1>2 DEF UserRequest
<1> HIDE DEF q
<1>4. mishaps' \in 0..MaxMishaps /\ UNCHANGED <<event, people, work, run, sync, gone, closing>>
  BY DEF Release, AssignmentInv, Typed, ProcsTyped
<1> QED
  BY <1>1, <1>3, <1>4, ReadSteady DEF q

LEMMA RequestReopenSteady ==
  ASSUME AssignmentInv, NEW u \in User, RequestReopen(u) \/ RequestLost(u) PROVE Steady
<1>1. userReq[u] \in UserRequest /\ NoUserRequest \in UserRequest /\ NoUserRequest.pc = "none"
  BY UserRequestTypes DEF AssignmentInv, Typed, ProcsTyped
<1>2. /\ [userReq[u] EXCEPT !.pc = "open", !.row = 0] \in UserRequest
      /\ [userReq[u] EXCEPT !.pc = "open", !.row = 0].pc = "open"
  <2>1. 0 \in 0..MaxRows
    BY LimitsAssumption
  <2> QED
    BY <1>1, <2>1 DEF UserRequest
<1>3. mishaps' \in 0..MaxMishaps /\ UNCHANGED <<event, people, work, run, sync, gone, closing>>
  BY LimitsAssumption DEF RequestReopen, RequestLost, AssignmentInv, Typed, ProcsTyped
<1>4. \/ userReq' = [userReq EXCEPT ![u] = NoUserRequest]
      \/ userReq' = [userReq EXCEPT ![u] = [userReq[u] EXCEPT !.pc = "open", !.row = 0]]
  BY DEF RequestReopen, RequestLost
<1> QED
  BY <1>1, <1>2, <1>3, <1>4, ReadSteady

LEMMA ApplyWriteSteady == ASSUME AssignmentInv, NEW u \in User, ApplyWrite(u) PROVE Steady
<1>1. /\ UNCHANGED <<event, rows, work, run, mishaps, sync, gone, closing>>
      /\ userReq' = [userReq EXCEPT ![u] = NoUserRequest]
  BY DEF ApplyWrite
<1>2. app' \in [Issue -> [User -> Application]]
  <2>1. PICK s \in Application : app' = [app EXCEPT ![userReq[u].issue][u] = s]
    BY DEF ApplyWrite, Application
  <2> QED
    BY <2>1 DEF AssignmentInv, Typed, WorkTyped
<1>3. Calm /\ RowsSettle /\ MergedGrows
  BY <1>1, CalmAtRest DEF work, AssignmentInv, Calm
<1>4. userReq' \in [User -> UserRequest] /\ ReleaseKnown'
  BY <1>1, <1>3, RequestMoves, UserRequestTypes DEF AssignmentInv, Typed, ProcsTyped
<1>5. Typed'
  BY <1>1, <1>2, <1>4 DEF event, work, Typed, EventTyped, WorkTyped, ProcsTyped, AssignmentInv
<1> QED
  BY <1>1, <1>3, <1>4, <1>5, RunAtRest, SyncAtRest DEF AssignmentInv, Steady

LEMMA RequestOpenSteady == ASSUME AssignmentInv, NEW u \in User, RequestOpen(u) PROVE Steady
<1>1. /\ UNCHANGED <<phase, entry, rounds, people, work, run, mishaps, sync, gone, closing>>
      /\ userReq' = [userReq EXCEPT ![u] = NoUserRequest]
      /\ window' = [window EXCEPT ![userReq[u].issue] = "open"]
  BY DEF RequestOpen
<1>2. Calm /\ RowsSettle /\ MergedGrows
  BY <1>1, CalmAtRest DEF work, people, AssignmentInv, Calm
<1>3. userReq' \in [User -> UserRequest] /\ ReleaseKnown'
  BY <1>1, <1>2, RequestMoves, UserRequestTypes DEF AssignmentInv, Typed, ProcsTyped
<1>4. Typed'
  BY <1>1, <1>3 DEF people, work, Typed, EventTyped, WorkTyped, ProcsTyped, AssignmentInv
<1> QED
  BY <1>1, <1>2, <1>3, <1>4, RunAtRest, SyncAtRest DEF AssignmentInv, Steady

LEMMA ReleaseVoluntarySteady == ASSUME AssignmentInv, NEW u \in User, ReleaseVoluntary(u) PROVE Steady
<1>1. PICK abandoned \in BOOLEAN :
        rows' = [rows EXCEPT ![userReq[u].issue][userReq[u].row] = Free(@, "released_voluntary", abandoned)]
  BY DEF ReleaseVoluntary
<1>2. /\ UNCHANGED <<event, app, work, run, mishaps, sync, gone, closing>>
      /\ userReq' = [userReq EXCEPT ![u].pc = "reopen"] /\ userReq[u].pc = "release"
  BY DEF ReleaseVoluntary
<1>3. PICK i \in Issue, k \in DOMAIN rows[userReq[u].issue] : i = userReq[u].issue /\ k = userReq[u].row
  BY <1>2 DEF AssignmentInv, ReleaseKnown
<1>4. /\ RowsSettle
      /\ \A j \in Issue : \A l \in DOMAIN rows[j] : rows'[j][l] = rows[j][l] \/ rows'[j][l].status \in Released
  BY <1>1, <1>3, VoluntarySettles DEF AssignmentInv, RowsInv
<1>5. Calm /\ MergedGrows
  BY <1>2, <1>4, CalmReleases DEF AssignmentInv, work, Calm
<1>6. [userReq[u] EXCEPT !.pc = "reopen"] \in UserRequest /\ [userReq[u] EXCEPT !.pc = "reopen"].pc = "reopen"
  BY DEF UserRequest, AssignmentInv, Typed, ProcsTyped
<1>7. userReq' \in [User -> UserRequest] /\ ReleaseKnown'
  BY <1>2, <1>4, <1>6, RequestMoves
<1>8. Typed'
  BY <1>2, <1>7 DEF event, work, Typed, EventTyped, WorkTyped, ProcsTyped, AssignmentInv
<1> QED
  BY <1>2, <1>5, <1>7, <1>8, RunAtRest, SyncAtRest DEF AssignmentInv, Steady
\* The runner's steps but the insert and the recount before it.
LEMMA RunnerReads ==
  ASSUME AssignmentInv, NEW r \in Runner, RunnerTyped(r), EventTyped',
         UNCHANGED <<people, work, mishaps, userReq, sync, gone>>,
         closing' \in [Runner \cup {Admin} -> {"no", "rows", "applications", "issues"}]
  PROVE  Steady
<1>1. Calm /\ RowsSettle /\ MergedGrows
  BY CalmAtRest DEF people, work, AssignmentInv, Calm
<1>2. Typed'
  BY DEF people, work, Typed, WorkTyped, ProcsTyped, AssignmentInv, RunnerTyped
<1> QED
  BY <1>1, <1>2, RunMoves, RequestsAtRest, SyncAtRest DEF AssignmentInv, Steady

LEMMA RunnerSteady ==
  ASSUME AssignmentInv, NEW r \in Runner,
         \/ Tick(r) \/ TakeEmpty(r) \/ ReopenEmpty(r) \/ RunDraw(r)
         \/ ReopenStale(r) \/ OpenStale(r) \/ SweepClosedEvents(r)
  PROVE  Steady
<1>1. run \in [Runner -> Run]
  BY DEF AssignmentInv, Typed, ProcsTyped
<1>2. RunnerTyped(r)
  BY <1>1, TickTypes, TakeEmptyTypes, RunDrawTypes, RunnerTypes
<1>3. UNCHANGED <<people, work, mishaps, userReq, sync, gone>>
  BY DEF Tick, TakeEmpty, ReopenEmpty, RunDraw, ReopenStale, OpenStale, SweepClosedEvents
<1>4. closing' \in [Runner \cup {Admin} -> {"no", "rows", "applications", "issues"}]
  BY DEF Tick, TakeEmpty, ReopenEmpty, RunDraw, ReopenStale, OpenStale, SweepClosedEvents,
         AssignmentInv, Typed, ProcsTyped
<1>5. EventTyped'
  <2>1. CASE UNCHANGED event
    BY <2>1 DEF event, EventTyped, AssignmentInv, Typed
  <2>2. CASE ReopenEmpty(r) \/ OpenStale(r)
    BY <2>2 DEF ReopenEmpty, OpenStale, EventTyped, AssignmentInv, Typed
  <2>3. CASE RunDraw(r)
    <3>1. PICK i \in Issue : rounds' = [rounds EXCEPT ![i] = IF @ < EmptyRetries THEN @ + 1 ELSE @]
      BY <2>3 DEF RunDraw
    <3>2. rounds' \in [Issue -> 0..EmptyRetries]
      BY <3>1, LimitsAssumption DEF AssignmentInv, Typed, EventTyped
    <3> QED
      BY <2>3, <3>2 DEF RunDraw, EventTyped, AssignmentInv, Typed
  <2> QED
    BY <2>1, <2>2, <2>3 DEF Tick, TakeEmpty, ReopenStale, SweepClosedEvents
<1> QED
  BY <1>2, <1>3, <1>4, <1>5, RunnerReads

LEMMA CrashSteady == ASSUME AssignmentInv, NEW r \in Runner, Crash(r) PROVE Steady
<1>1. run \in [Runner -> Run]
  BY DEF AssignmentInv, Typed, ProcsTyped
<1>2. RunnerTyped(r)
  BY <1>1, RunnerTypes
<1>3. UNCHANGED <<event, people, work, userReq, sync, gone>> /\ mishaps' \in 0..MaxMishaps
  BY LimitsAssumption DEF Crash, AssignmentInv, Typed, ProcsTyped
<1>4. closing' \in [Runner \cup {Admin} -> {"no", "rows", "applications", "issues"}]
  BY DEF Crash, AssignmentInv, Typed, ProcsTyped
<1>5. Calm /\ RowsSettle /\ MergedGrows
  BY <1>3, CalmAtRest DEF people, work, AssignmentInv, Calm
<1>6. Typed'
  BY <1>2, <1>3, <1>4 DEF event, people, work, Typed, EventTyped, WorkTyped, ProcsTyped, AssignmentInv, RunnerTyped
<1> QED
  BY <1>2, <1>3, <1>5, <1>6, RunMoves, RequestsAtRest, SyncAtRest DEF AssignmentInv, Steady

LEMMA ReleaseStaleSteady == ASSUME AssignmentInv, NEW r \in Runner, ReleaseStale(r) PROVE Steady
<1>1. PICK late \in SUBSET Issue :
        rows' = [i \in Issue |-> IF i \in late
                     THEN Amend(i, LAMBDA a : a.status = "active", LAMBDA a : Free(a, "released_stale", TRUE))
                     ELSE rows[i]]
  BY DEF ReleaseStale
<1> DEFINE g == [i \in Issue |-> IF i \in late
                     THEN [k \in DOMAIN rows[i] |-> IF rows[i][k].status = "active"
                                                    THEN Free(rows[i][k], "released_stale", TRUE) ELSE rows[i][k]]
                     ELSE rows[i]]
<1>2. rows' = [i \in Issue |-> g[i]]
  BY <1>1 DEF Amend
<1>3. \A i \in Issue : \A k \in DOMAIN rows[i] :
        /\ rows[i][k] \in Row
        /\ Settled(rows[i][k], Free(rows[i][k], "released_stale", TRUE))
        /\ Free(rows[i][k], "released_stale", TRUE).status \in Released
  <2>1. \A i \in Issue : \A k \in DOMAIN rows[i] : rows[i][k] \in Row
    BY DEF AssignmentInv, RowsInv, RowsTyped
  <2> QED
    BY <2>1, FreeSettles DEF Released
<1>4. \A i \in Issue : \/ g[i] = rows[i]
                       \/ /\ g[i] = [k \in DOMAIN rows[i] |-> g[i][k]]
                          /\ \A k \in DOMAIN rows[i] : Settled(rows[i][k], g[i][k])
  BY <1>3, SettlesItself
<1>5. \A i \in Issue : \A k \in DOMAIN rows[i] : g[i][k] = rows[i][k] \/ g[i][k].status \in Released
  BY <1>3
<1> HIDE DEF g
<1>6. RowsSettle
  BY <1>2, <1>4, FreeingSettles DEF AssignmentInv, RowsInv
<1>7. UNCHANGED <<event, app, work, mishaps, userReq, sync, gone, closing>>
  BY DEF ReleaseStale
<1>8. Calm /\ MergedGrows
  BY <1>2, <1>5, <1>6, <1>7, CalmReleases DEF AssignmentInv, work, Calm
<1>9. RunnerTyped(r)
  BY RunnerTypes DEF AssignmentInv, Typed, ProcsTyped
<1>10. Typed'
  BY <1>7, <1>9 DEF event, work, Typed, EventTyped, WorkTyped, ProcsTyped, AssignmentInv, RunnerTyped
<1> QED
  BY <1>6, <1>7, <1>8, <1>9, <1>10, RunMoves, RequestsAtRest, SyncAtRest DEF AssignmentInv, Steady
\* Steps that touch neither the rows nor the runners.
LEMMA ElsewhereSteady ==
  ASSUME AssignmentInv, UNCHANGED <<rows, merged, run, userReq>>, Typed', sync'.cands \subseteq sync.cands
  PROVE  Steady
<1>1. Calm /\ RowsSettle /\ MergedGrows
  BY CalmAtRest DEF AssignmentInv, Calm
<1> QED
  BY <1>1, RunAtRest, RequestsAtRest, SyncAtRest DEF AssignmentInv, Steady

LEMMA CloseSteady ==
  ASSUME AssignmentInv, NEW c \in Runner \cup {Admin}, Close \/ CloseFails \/ CloseApplications(c)
  PROVE  Steady
<1>1. UNCHANGED <<rows, merged, run, userReq, sync, verdict, entry, window, rounds, gone>>
  BY DEF Close, CloseFails, CloseApplications, event, people, work
<1>2. closing' \in [Runner \cup {Admin} -> {"no", "rows", "applications", "issues"}]
  BY DEF Close, CloseFails, CloseApplications, AssignmentInv, Typed, ProcsTyped
<1>3. app' \in [Issue -> [User -> Application]]
  BY DEF Close, CloseFails, CloseApplications, people, Application, AssignmentInv, Typed, WorkTyped
<1>4. mishaps' \in 0..MaxMishaps /\ phase' \in {"live", "closed"}
  BY LimitsAssumption
  DEF Close, CloseFails, CloseApplications, event, AssignmentInv, Typed, ProcsTyped, EventTyped
<1>5. Typed'
  BY <1>1, <1>2, <1>3, <1>4 DEF AssignmentInv, Typed, EventTyped, WorkTyped, ProcsTyped
<1> QED
  BY <1>1, <1>5, ElsewhereSteady

LEMMA CloseRowsSteady ==
  ASSUME AssignmentInv, NEW c \in Runner \cup {Admin}, CloseRows(c) PROVE Steady
<1> DEFINE g == [i \in Issue |-> [k \in DOMAIN rows[i] |->
                   IF rows[i][k].status = "active"
                   THEN Free(rows[i][k], "released_event_end", rows[i][k].abandon) ELSE rows[i][k]]]
<1>1. rows' = [i \in Issue |-> g[i]]
  BY DEF CloseRows, Amend
<1>2. \A i \in Issue : \A k \in DOMAIN rows[i] :
        /\ rows[i][k] \in Row
        /\ Settled(rows[i][k], Free(rows[i][k], "released_event_end", rows[i][k].abandon))
        /\ Free(rows[i][k], "released_event_end", rows[i][k].abandon).status \in Released
  <2>1. \A i \in Issue : \A k \in DOMAIN rows[i] : rows[i][k] \in Row
    BY DEF AssignmentInv, RowsInv, RowsTyped
  <2>2. ASSUME NEW a \in Row
        PROVE  /\ Settled(a, Free(a, "released_event_end", a.abandon))
               /\ Free(a, "released_event_end", a.abandon).status \in Released
    <3>1. a.abandon \in BOOLEAN /\ "released_event_end" \in Released
      BY DEF Row, Released
    <3> QED
      BY <3>1, FreeSettles
  <2> QED
    BY <2>1, <2>2
<1>3. \A i \in Issue : /\ g[i] = [k \in DOMAIN rows[i] |-> g[i][k]]
                       /\ \A k \in DOMAIN rows[i] : Settled(rows[i][k], g[i][k])
  BY <1>2, SettlesItself
<1>4. \A i \in Issue : \A k \in DOMAIN rows[i] : g[i][k] = rows[i][k] \/ g[i][k].status \in Released
  BY <1>2
<1> HIDE DEF g
<1>5. RowsSettle
  BY <1>1, <1>3, FreeingSettles DEF AssignmentInv, RowsInv
<1>6. UNCHANGED <<event, app, work, run, mishaps, userReq, sync, gone>>
  BY DEF CloseRows
<1>7. closing' \in [Runner \cup {Admin} -> {"no", "rows", "applications", "issues"}]
  BY DEF CloseRows, AssignmentInv, Typed, ProcsTyped
<1>8. Calm /\ MergedGrows
  BY <1>1, <1>4, <1>5, <1>6, CalmReleases DEF AssignmentInv, work, Calm
<1>9. Typed'
  BY <1>6, <1>7 DEF event, work, Typed, EventTyped, WorkTyped, ProcsTyped, AssignmentInv
<1> QED
  BY <1>5, <1>6, <1>8, <1>9, RunAtRest, RequestsAtRest, SyncAtRest DEF AssignmentInv, Steady

LEMMA CloseIssuesSteady ==
  ASSUME AssignmentInv, NEW c \in Runner \cup {Admin}, CloseIssues(c) PROVE Steady
<1>1. UNCHANGED <<phase, rounds, people, work, mishaps, userReq, sync, gone>>
  BY DEF CloseIssues
<1>2. EventTyped'
  <2>1. /\ entry' \in [Issue -> {"pending", "published", "removed"}]
        /\ window' \in [Issue -> {"open", "shut", "none"}]
    BY DEF CloseIssues, AssignmentInv, Typed, EventTyped
  <2> QED
    BY <1>1, <2>1 DEF AssignmentInv, Typed, EventTyped
<1>3. closing' \in [Runner \cup {Admin} -> {"no", "rows", "applications", "issues"}]
  BY DEF CloseIssues, AssignmentInv, Typed, ProcsTyped
<1>4. run \in [Runner -> Run]
  BY DEF AssignmentInv, Typed, ProcsTyped
<1>5. CASE c \in Runner
  <2>1. RunnerTyped(c)
    BY <1>4, <1>5, RunTypes DEF CloseIssues
  <2> QED
    BY <1>1, <1>2, <1>3, <1>5, <2>1, RunnerReads
<1>6. CASE c \notin Runner
  <2>1. UNCHANGED run
    BY <1>6 DEF CloseIssues
  <2>2. Typed'
    BY <1>1, <1>2, <1>3, <2>1 DEF people, work, AssignmentInv, Typed, WorkTyped, ProcsTyped
  <2> QED
    BY <1>1, <2>1, <2>2, ElsewhereSteady DEF people, work
<1> QED
  BY <1>5, <1>6

LEMMA LabelSteady ==
  ASSUME AssignmentInv, NEW i \in Issue,
         WindowCloses(i) \/ LabelGone(i) \/ LabelBack(i) \/ MaybePublish(i) \/ LabelRemoves
  PROVE  Steady
<1> USE DEF WindowCloses, LabelGone, LabelBack, MaybePublish, LabelRemoves
<1>1. UNCHANGED <<phase, rounds, people, work, run, userReq, sync, closing>>
  BY DEF event, procs
<1>2. mishaps' \in 0..MaxMishaps /\ gone' \in Issue \cup {Nobody}
  BY LimitsAssumption DEF procs, AssignmentInv, Typed, ProcsTyped
<1>3. entry' \in [Issue -> {"pending", "published", "removed"}]
  BY DEF event, AssignmentInv, Typed, EventTyped
<1>4. window' \in [Issue -> {"open", "shut", "none"}]
  BY DEF event, AssignmentInv, Typed, EventTyped
<1>5. Typed'
  BY <1>1, <1>2, <1>3, <1>4 DEF people, work, AssignmentInv, Typed, EventTyped, WorkTyped, ProcsTyped
<1> QED
  BY <1>1, <1>5, ElsewhereSteady DEF people, work

LEMMA MergeSteady == ASSUME AssignmentInv, NEW i \in Issue, NEW u \in User, Merge(i, u) PROVE Steady
<1>1. merged \in [Issue -> [User -> BOOLEAN]]
  BY DEF AssignmentInv, RowsInv, MergedTyped
<1>2. merged' = [merged EXCEPT ![i][u] = TRUE] /\ UNCHANGED <<event, people, verdict, procs>>
  BY DEF Merge
<1>3. MergedGrows /\ MergedTyped'
  BY <1>1, <1>2 DEF MergedGrows, MergedTyped
<1>4. RowsSettle
  BY <1>2, RowsAtRest DEF people, AssignmentInv, RowsInv
<1>5. ASSUME NEW j \in Issue, NEW k \in DOMAIN rows[j], rows'[j][k].status = "completed"
      PROVE  merged'[j][rows'[j][k].who]
  <2>1. rows[j][k] \in Row
    BY DEF AssignmentInv, RowsInv, RowsTyped
  <2>2. rows[j][k].who \in User
    BY <2>1 DEF Row
  <2> QED
    BY <1>2, <1>3, <1>5, <2>2 DEF people, AssignmentInv, RowsInv, WorkIsMerged, MergedGrows
<1>6. Calm
  BY <1>3, <1>4, <1>5 DEF Calm
<1>7. Typed'
  BY <1>2 DEF event, people, procs, AssignmentInv, Typed, EventTyped, WorkTyped, ProcsTyped
<1> QED
  BY <1>2, <1>3, <1>4, <1>6, <1>7, RunAtRest, RequestsAtRest, SyncAtRest DEF procs, AssignmentInv, Steady
\* The sync of merged pull requests and the reviewers.
LEMMA SyncSteady == ASSUME AssignmentInv, LoadCandidates \/ WriteVerdict PROVE Steady
<1>1. /\ UNCHANGED <<event, people, run, mishaps, userReq, gone, closing, merged>>
      /\ sync \in Sync /\ verdict \in [Issue -> [User -> Verdict]] /\ merged \in [Issue -> [User -> BOOLEAN]]
  BY DEF LoadCandidates, WriteVerdict, work, AssignmentInv, Typed, WorkTyped, ProcsTyped, RowsInv, MergedTyped
<1>2. Calm /\ RowsSettle /\ MergedGrows
  BY <1>1, CalmAtRest DEF people, AssignmentInv, Calm
<1>3. CASE LoadCandidates
  <2> DEFINE prs == {x \in Issue \X User : merged[x[1]][x[2]]}
             cands == {[issue |-> x[1], author |-> x[2], ok |-> Qualifies(x[1], x[2])] : x \in prs}
  <2>1. sync' = [sync EXCEPT !.cands = cands] /\ sync.now = Nobody
    BY <1>3 DEF LoadCandidates
  <2>2. \A c \in cands : c \in Candidate /\ merged[c.issue][c.author]
    <3>1. \A i \in Issue, u \in User, ok \in BOOLEAN :
            /\ [issue |-> i, author |-> u, ok |-> ok] \in Candidate
            /\ [issue |-> i, author |-> u, ok |-> ok].issue = i
            /\ [issue |-> i, author |-> u, ok |-> ok].author = u
      BY DEF Candidate
    <3>2. \A x \in prs : x[1] \in Issue /\ x[2] \in User /\ merged[x[1]][x[2]]
      OBVIOUS
    <3>3. \A x \in prs : Qualifies(x[1], x[2]) \in BOOLEAN
      <4> SUFFICES ASSUME NEW x \in prs PROVE Qualifies(x[1], x[2]) \in BOOLEAN
        OBVIOUS
      <4>1. merged[x[1]][x[2]] \in BOOLEAN
        BY <1>1, <3>2
      <4> QED
        BY <4>1 DEF Qualifies
    <3> HIDE DEF prs
    <3> QED
      BY <3>1, <3>2, <3>3
  <2> HIDE DEF cands
  <2>3. sync' \in Sync /\ sync'.cands = cands
    BY <1>1, <2>1, <2>2 DEF Sync
  <2>4. CandidatesMerged'
    BY <1>1, <2>2, <2>3 DEF CandidatesMerged
  <2>5. Typed'
    BY <1>1, <1>3, <2>3
    DEF LoadCandidates, event, people, work, AssignmentInv, Typed, EventTyped, WorkTyped, ProcsTyped
  <2> QED
    BY <1>1, <1>2, <2>4, <2>5, RunAtRest, RequestsAtRest DEF AssignmentInv, Steady
<1>4. CASE WriteVerdict
  <2>1. PICK status \in {"pending", "passed", "rejected"} :
          verdict' = [verdict EXCEPT ![sync.now.issue][sync.now.author] = Upsert(@, status)]
    BY <1>4 DEF WriteVerdict
  <2>2. sync' = [sync EXCEPT !.now = Nobody] /\ sync.now \in Candidate
    BY <1>1, <1>4 DEF WriteVerdict, Sync
  <2>3. sync' \in Sync /\ sync'.cands = sync.cands
    BY <1>1, <2>2 DEF Sync
  <2>4. \A v \in Verdict : Upsert(v, status) \in Verdict
    BY DEF Upsert, Verdict
  <2>5. verdict' \in [Issue -> [User -> Verdict]]
    BY <1>1, <2>1, <2>2, <2>4 DEF Candidate
  <2>6. Typed'
    BY <1>1, <2>3, <2>5 DEF event, people, AssignmentInv, Typed, EventTyped, WorkTyped, ProcsTyped
  <2> QED
    BY <1>1, <2>3, <2>6, ElsewhereSteady DEF people
<1> QED
  BY <1>3, <1>4

LEMMA OverrideSteady ==
  ASSUME AssignmentInv, NEW i \in Issue, NEW u \in User, Override(i, u) PROVE Steady
<1>1. UNCHANGED <<event, people, merged, procs>> /\ verdict' = [verdict EXCEPT ![i][u].human = TRUE]
  BY DEF Override
<1>2. verdict' \in [Issue -> [User -> Verdict]]
  <2>1. verdict \in [Issue -> [User -> Verdict]]
    BY DEF AssignmentInv, Typed, WorkTyped
  <2>2. [verdict[i][u] EXCEPT !.human = TRUE] \in Verdict
    <3>1. PICK v \in Verdict : v = verdict[i][u]
      BY <2>1
    <3>2. [v EXCEPT !.human = TRUE] \in Verdict
      BY DEF Verdict
    <3> QED
      BY <3>1, <3>2
  <2>3. verdict' = [verdict EXCEPT ![i] = [verdict[i] EXCEPT ![u] = [verdict[i][u] EXCEPT !.human = TRUE]]]
    BY <1>1
  <2> QED
    BY <2>1, <2>2, <2>3
<1>3. Typed'
  BY <1>1, <1>2 DEF event, people, procs, AssignmentInv, Typed, EventTyped, WorkTyped, ProcsTyped
<1> QED
  BY <1>1, <1>3, ElsewhereSteady DEF people, procs

LEMMA RecordMergeSteady ==
  ASSUME AssignmentInv, NEW c \in sync.cands, RecordMerge(c) PROVE Steady
<1>1. /\ UNCHANGED <<event, app, work, run, mishaps, userReq, gone, closing>>
      /\ sync' = [cands |-> sync.cands \ {c}, now |-> IF verdict[c.issue][c.author].human THEN Nobody ELSE c]
  BY DEF RecordMerge
<1>2. c \in Candidate /\ sync.cands \in SUBSET Candidate /\ c.issue \in Issue /\ c.author \in User
  BY DEF AssignmentInv, Typed, ProcsTyped, Sync, Candidate
<1>3. sync' \in Sync /\ sync'.cands \subseteq sync.cands
  BY <1>1, <1>2 DEF Sync
<1>4. CASE ~c.ok
  <2>1. UNCHANGED rows
    BY <1>4 DEF RecordMerge
  <2>2. Typed'
    BY <1>1, <1>3 DEF event, work, AssignmentInv, Typed, EventTyped, WorkTyped, ProcsTyped
  <2> QED
    BY <1>1, <1>3, <2>1, <2>2, ElsewhereSteady DEF work
<1>5. CASE c.ok
  <2> DEFINE hit(a) == a.who = c.author /\ a.status = "active"
             g == [i \in Issue |-> IF i = c.issue
                     THEN [k \in DOMAIN rows[i] |-> IF hit(rows[i][k])
                             THEN Free(rows[i][k], "completed", rows[i][k].abandon) ELSE rows[i][k]]
                     ELSE rows[i]]
  <2>1. rows' = [i \in Issue |-> g[i]]
    BY <1>2, <1>5 DEF RecordMerge, Amend, AssignmentInv, RowsInv, RowsTyped
  <2>2. \A i \in Issue : \A k \in DOMAIN rows[i] : rows[i][k] \in Row
    BY DEF AssignmentInv, RowsInv, RowsTyped
  <2>3. ASSUME NEW a \in Row, hit(a)
        PROVE  Settled(a, Free(a, "completed", a.abandon)) /\ Free(a, "completed", a.abandon).who = c.author
    <3>1. a.abandon \in BOOLEAN
      BY DEF Row
    <3> QED
      BY <2>3, <3>1, FreeSettles
  <2> HIDE DEF hit
  <2>4. \A i \in Issue : \/ g[i] = rows[i]
                         \/ /\ g[i] = [k \in DOMAIN rows[i] |-> g[i][k]]
                            /\ \A k \in DOMAIN rows[i] : Settled(rows[i][k], g[i][k])
    BY <2>2, <2>3, SettlesItself
  <2>5. \A i \in Issue : \A k \in DOMAIN rows[i] :
          g[i][k] = rows[i][k] \/ (i = c.issue /\ g[i][k].who = c.author)
    BY <2>2, <2>3
  <2> HIDE DEF g
  <2>6. RowsSettle
    BY <2>1, <2>4, FreeingSettles DEF AssignmentInv, RowsInv
  <2>7. merged[c.issue][c.author] /\ UNCHANGED merged
    BY <1>1, <1>5 DEF work, AssignmentInv, CandidatesMerged
  <2>8. MergedGrows /\ MergedTyped'
    BY <2>7 DEF MergedGrows, MergedTyped, AssignmentInv, RowsInv
  <2>9. ASSUME NEW i \in Issue, NEW k \in DOMAIN rows[i], rows'[i][k].status = "completed"
        PROVE  merged'[i][rows'[i][k].who]
    BY <2>1, <2>5, <2>7, <2>9 DEF AssignmentInv, RowsInv, WorkIsMerged
  <2>10. Calm
    BY <2>6, <2>8, <2>9 DEF Calm
  <2>11. Typed'
    BY <1>1, <1>3 DEF event, work, AssignmentInv, Typed, EventTyped, WorkTyped, ProcsTyped
  <2> QED
    BY <1>1, <1>3, <2>6, <2>8, <2>10, <2>11, RunAtRest, RequestsAtRest, SyncAtRest DEF AssignmentInv, Steady
<1> QED
  BY <1>4, <1>5

\* The invariant holds at first and is kept by every step.
LEMMA AssignmentInitInv == AssignmentsInit => AssignmentInv
<1> SUFFICES ASSUME AssignmentsInit PROVE AssignmentInv
  OBVIOUS
<1> USE DEF AssignmentsInit
<1>1. RowsInv
  <2>1. RowsTyped
    BY LimitsAssumption, EmptySeq DEF RowsTyped
  <2>2. TakenOnce /\ HeldWhileActive /\ WorkIsMerged
    BY DEF TakenOnce, HeldWhileActive, WorkIsMerged
  <2> QED
    BY <2>1, <2>2 DEF RowsInv, MergedTyped
<1>2. NoRun \in Run /\ NoRun.pc = "idle" /\ NoUserRequest \in UserRequest /\ NoUserRequest.pc = "none"
  BY LimitsAssumption DEF NoRun, Run, NoUserRequest, UserRequest
<1>3. CapsInv /\ ReleaseKnown
  BY <1>2 DEF CapsInv, WinnersKnown, Reserved, LocksApart, ReleaseKnown
<1>4. EventTyped /\ WorkTyped
  BY LimitsAssumption DEF EventTyped, WorkTyped, Application, Verdict
<1>5. ProcsTyped /\ CandidatesMerged
  BY <1>2, LimitsAssumption DEF ProcsTyped, CandidatesMerged, Sync
<1> QED
  BY <1>1, <1>3, <1>4, <1>5 DEF AssignmentInv, Typed

\* The step of a win keeps to the caps of whoever wins.
WinsInside ==
  \A u \in User : Won(u)' > Won(u) => Held(u)' <= Earned(u)' /\ (OrgCap = 0 \/ Won(u)' <= OrgCap)

LEMMA CommitsKeep ==
  ASSUME AssignmentInv, NEW r \in Runner, CommitLock(r) \/ CommitInsert(r)
  PROVE  AssignmentInv' /\ WinsInside
<1>1. run \in [Runner -> Run] /\ run[r] \in Run
  BY DEF AssignmentInv, Typed, ProcsTyped
<1>2. CASE CommitLock(r)
  <2>1. UNCHANGED <<event, people, work, mishaps, userReq, sync, gone, closing>> /\ run[r].pc = "lock"
    BY <1>2 DEF CommitLock
  <2>2. /\ [run[r] EXCEPT !.pc = "insert"] \in Run
        /\ [run[r] EXCEPT !.pc = "insert"].winner = run[r].winner
        /\ [run[r] EXCEPT !.pc = "insert"].issue = run[r].issue
        /\ [run[r] EXCEPT !.pc = "drawing", !.issue = Nobody, !.winner = Nobody] \in Run
        /\ [run[r] EXCEPT !.pc = "drawing", !.issue = Nobody, !.winner = Nobody].pc = "drawing"
    BY <1>1 DEF Run
  <2>3. \/ run' = [run EXCEPT ![r] = [run[r] EXCEPT !.pc = "insert"]]
        \/ run' = [run EXCEPT ![r] = [run[r] EXCEPT !.pc = "drawing", !.issue = Nobody, !.winner = Nobody]]
    BY <1>2 DEF CommitLock, NextIssue
  <2>4. run' \in [Runner -> Run] /\ WinnersKnown'
    BY <1>1, <2>1, <2>2, <2>3 DEF AssignmentInv, CapsInv, WinnersKnown
  <2>5. CapsInv'
    BY <1>1, <1>2, <2>4, LockKeepsCaps DEF AssignmentInv
  <2>6. Calm /\ RowsSettle /\ MergedGrows
    BY <2>1, CalmAtRest DEF people, work, AssignmentInv, Calm
  <2>7. RowsInv' /\ \A u : HeldRows(u)' \subseteq HeldRows(u) /\ WonRows(u)' = WonRows(u)
    BY <2>6, Settling DEF AssignmentInv, Calm
  <2>8. Typed'
    BY <2>1, <2>4 DEF event, people, work, AssignmentInv, Typed, EventTyped, WorkTyped, ProcsTyped
  <2>9. CandidatesMerged' /\ ReleaseKnown'
    BY <2>1, <2>6, RequestsAtRest, SyncAtRest
  <2>10. \A u \in User : ~(Won(u)' > Won(u))
    BY <2>7, CountsAreSets, CountsAreSetsLater, RowSets, SlotsFinite
  <2> QED
    BY <2>5, <2>7, <2>8, <2>9, <2>10 DEF AssignmentInv, WinsInside
<1>3. CASE CommitInsert(r)
  <2>1. UNCHANGED <<event, work, mishaps, userReq, sync, gone, closing>> /\ run[r].pc = "insert"
    BY <1>3 DEF CommitInsert
  <2>2. RunnerTyped(r)
    BY <1>1, <1>3, RunnerTypes
  <2>3. WinnersKnown'
    BY <2>2, RunMoves DEF AssignmentInv
  <2>4. /\ RowsInv' /\ CapsInv'
        /\ \A u \in User : Won(u)' > Won(u) => Held(u)' <= Earned(u)' /\ (OrgCap = 0 \/ Won(u)' <= OrgCap)
    BY <1>1, <1>3, <2>3, InsertKeepsCaps DEF AssignmentInv
  <2>5. app' \in [Issue -> [User -> Application]]
    <3>1. CASE UNCHANGED people
      BY <3>1 DEF people, AssignmentInv, Typed, WorkTyped
    <3>2. CASE ~UNCHANGED people
      <4>1. PICK i \in Issue, u \in User : i = run[r].issue /\ u = run[r].winner
        BY <2>1 DEF AssignmentInv, CapsInv, WinnersKnown
      <4>2. app' = [app EXCEPT ![i] = [v \in User |-> IF @[v] # "applied" THEN @[v] ELSE IF v = u THEN "won" ELSE "lost"]]
        BY <1>3, <3>2, <4>1 DEF CommitInsert
      <4>3. [v \in User |-> IF app[i][v] # "applied" THEN app[i][v] ELSE IF v = u THEN "won" ELSE "lost"]
               \in [User -> Application]
        BY DEF Application, AssignmentInv, Typed, WorkTyped
      <4> QED
        BY <4>2, <4>3 DEF AssignmentInv, Typed, WorkTyped
    <3> QED
      BY <3>1, <3>2
  <2>6. Typed'
    BY <2>1, <2>2, <2>5
    DEF event, work, AssignmentInv, Typed, EventTyped, WorkTyped, ProcsTyped, RunnerTyped
  <2>7. CandidatesMerged'
    BY <2>1, SyncAtRest DEF work, MergedGrows, AssignmentInv, RowsInv
  <2>8. ReleaseKnown'
    <3>1. \A i \in Issue : DOMAIN rows[i] \subseteq DOMAIN rows'[i]
      <4>1. CASE UNCHANGED people
        BY <4>1 DEF people
      <4>2. CASE ~UNCHANGED people
        <5>1. PICK i \in Issue, u \in User : i = run[r].issue /\ u = run[r].winner
          BY <2>1 DEF AssignmentInv, CapsInv, WinnersKnown
        <5>2. rows' = [rows EXCEPT ![i] = Append(@, NewRow(u))] /\ NewRow(u) \in Row
          BY <1>3, <4>2, <5>1 DEF CommitInsert, NewRow, Row
        <5>3. /\ rows \in [Issue -> Seq(Row)]
              /\ \A j \in Issue : Len(rows[j]) \in Nat /\ DOMAIN rows[j] = 1..Len(rows[j])
          BY DEF AssignmentInv, RowsInv, RowsTyped
        <5>4. DOMAIN Append(rows[i], NewRow(u)) = 1..(Len(rows[i]) + 1)
          BY <5>2, <5>3, AppendProperties
        <5> QED
          BY <5>2, <5>3, <5>4
      <4> QED
        BY <4>1, <4>2
    <3> QED
      BY <2>1, <3>1 DEF AssignmentInv, ReleaseKnown
  <2> QED
    BY <2>4, <2>6, <2>7, <2>8 DEF AssignmentInv, WinsInside
<1> QED
  BY <1>2, <1>3

LEMMA AssignmentNextInv ==
  ASSUME AssignmentInv, AssignmentsNext PROVE AssignmentInv' /\ WinsInside
<1>1. ASSUME NEW r \in Runner, RunnerStep(r) \/ Crash(r) PROVE Steady \/ CommitLock(r) \/ CommitInsert(r)
  BY <1>1, RunnerSteady, ReleaseStaleSteady, CrashSteady DEF RunnerStep
<1>2. ASSUME NEW u \in User,
             ApplyWrite(u) \/ ReleaseVoluntary(u) \/ RequestReopen(u) \/ RequestOpen(u) \/ RequestLost(u)
      PROVE  Steady
  BY <1>2, ApplyWriteSteady, ReleaseVoluntarySteady, RequestReopenSteady, RequestOpenSteady
<1>3. ASSUME NEW u \in User, NEW i \in Issue, Apply(u, i) \/ Release(u, i) \/ Merge(i, u) \/ Override(i, u)
      PROVE  Steady
  BY <1>3, ApplySteady, ReleaseSteady, MergeSteady, OverrideSteady
<1>4. ASSUME Close \/ CloseFails PROVE Steady
  BY <1>4, CloseSteady
<1>5. ASSUME NEW c \in Runner \cup {Admin}, CloserStep(c) PROVE Steady
  BY <1>5, CloseRowsSteady, CloseSteady, CloseIssuesSteady DEF CloserStep
<1>6. ASSUME NEW i \in Issue, WindowCloses(i) \/ LabelGone(i) \/ LabelBack(i) \/ MaybePublish(i) PROVE Steady
  BY <1>6, LabelSteady
<1>7. ASSUME LabelRemoves PROVE Steady
  <2>1. gone \in Issue
    BY <1>7 DEF LabelRemoves, AssignmentInv, Typed, ProcsTyped
  <2> QED
    BY <1>7, <2>1, LabelSteady
<1>8. ASSUME LoadCandidates \/ WriteVerdict PROVE Steady
  BY <1>8, SyncSteady
<1>9. ASSUME NEW c \in sync.cands, RecordMerge(c) PROVE Steady
  BY <1>9, RecordMergeSteady
<1>10. Steady \/ \E r \in Runner : CommitLock(r) \/ CommitInsert(r)
  BY <1>1, <1>2, <1>3, <1>4, <1>5, <1>6, <1>7, <1>8, <1>9 DEF AssignmentsNext
<1> QED
  BY <1>10, CommitsKeep, SteadyKeeps DEF WinsInside
LEMMA AssignmentStep ==
  AssignmentInv /\ [AssignmentsNext]_assignmentVars => AssignmentInv' /\ [WinsInside]_assignmentVars
<1>1. ASSUME AssignmentInv, UNCHANGED assignmentVars PROVE AssignmentInv'
  <2>1. UNCHANGED <<event, people, work, run, mishaps, userReq, sync, gone, closing>>
    BY <1>1 DEF assignmentVars, procs
  <2>2. Calm /\ RowsSettle /\ MergedGrows
    BY <1>1, <2>1, CalmAtRest DEF people, work, AssignmentInv, Calm
  <2>3. Typed'
    BY <1>1, <2>1 DEF event, people, work, AssignmentInv, Typed, EventTyped, WorkTyped, ProcsTyped
  <2> QED
    BY <1>1, <2>1, <2>2, <2>3, ElsewhereSteady, SteadyKeeps DEF people, work
<1> QED
  BY <1>1, AssignmentNextInv

LEMMA AssignmentTypesHold == AssignmentInv => AssignmentTypes
<1> SUFFICES ASSUME AssignmentInv PROVE AssignmentTypes
  OBVIOUS
<1>1. ASSUME NEW i \in Issue
      PROVE  /\ rows[i] \in Seq(Row) /\ Len(rows[i]) <= MaxRows
             /\ Cardinality({k \in DOMAIN rows[i] : rows[i][k].status \notin Released}) <= 1
             /\ \A k \in DOMAIN rows[i] : rows[i][k].holds <=> rows[i][k].status = "active"
  <2> DEFINE S == {k \in DOMAIN rows[i] : rows[i][k].status \notin Released}
  <2>1. \A k, l \in S : k = l
    BY DEF AssignmentInv, RowsInv, TakenOnce
  <2> HIDE DEF S
  <2>2. S = {} \/ \E k \in S : S = {k}
    BY <2>1
  <2>3. Cardinality(S) <= 1
    <3>1. CASE S = {}
      <4>1. Cardinality(S) = 0
        BY <3>1, FS_EmptySet
      <4> QED
        BY <4>1
    <3>2. CASE S # {}
      <4>1. PICK k : S = {k}
        BY <2>2, <3>2
      <4>2. Cardinality(S) = 1
        BY <4>1, FS_Singleton
      <4> QED
        BY <4>2
    <3> QED
      BY <3>1, <3>2
  <2> QED
    BY <2>3 DEF S, AssignmentInv, RowsInv, RowsTyped, HeldWhileActive
<1> QED
  BY <1>1 DEF AssignmentInv, RowsInv, MergedTyped, Typed, EventTyped, WorkTyped, ProcsTyped, AssignmentTypes

\* The columns have their types, an issue has at most one unreleased assignment,
\* which holds a slot exactly while it is active (assignment.go, draw_commit.go).
THEOREM AssignmentTypesCorrect == AssignmentsSpec => []AssignmentTypes
<1> QED
  BY AssignmentInitInv, AssignmentStep, AssignmentTypesHold, PTL DEF AssignmentsSpec

\* However draws, releases, merges and closes interleave, a draw that wins leaves its
\* winner within the slots earned by merged work and within the organisation's cap
\* (commitAssignment's recount under the winner's lock, draw.go).
THEOREM DrawsKeepTheCaps == AssignmentsSpec => WinsWithinCaps
<1> DEFINE Inside == \A u \in User : Won(u)' > Won(u) =>
                       /\ Held(u)' <= SlotsAfter(Cardinality({i \in Issue : merged'[i][u]}))
                       /\ OrgCap = 0 \/ Won(u)' <= OrgCap
<1>1. [WinsInside]_assignmentVars => [Inside]_assignmentVars
  BY DEF WinsInside, Earned, Merged
<1> QED
  BY <1>1, AssignmentInitInv, AssignmentStep, PTL DEF AssignmentsSpec, WinsWithinCaps

-----------------------------------------------------------------------------
(* The erasure of an account.                                                 *)

Remembers ==
  /\ exec.pc \in {"agent", "didit"} => exec.unconfigured = FALSE
  /\ exec.pc \in {"github", "finish"} =>
               /\ exec.pending # {} => "didit" \in exec.failed \/ exec.unconfigured
               /\ exec.unconfigured => exec.pending = exec.sessions
               /\ \A s \in exec.sessions : didit[s] = "gone" \/ s \in exec.pending

HasRequest == exec.pc # "idle" => request.status \in Open

\* Attempts are left while the request is open.
AttemptsLeft == request.status \in Open => request.attempts < MaxAttempts

ErasureInv == TypeOK /\ Remembers /\ HasRequest /\ AttemptsLeft

-----------------------------------------------------------------------------
(* The verification of the account.                                            *)

USE AttemptsAssumption, BoundsAssumption

LEMMA RequestTypes ==
  ASSUME VerificationTypeOK, NEW w \in Writer
  PROVE  /\ Ends(w) => req' \in [Writer -> Request]
         /\ req[w].status \in KYCStatus
         /\ req[w].pc \in {"apply", "store", "alert"} => req[w].session \in Session
         /\ \A pc \in {"expire", "create"} : Goes(w, pc) => req' \in [Writer -> Request]
         /\ req[w].pc = "apply" /\ Goes(w, "alert") => req' \in [Writer -> Request]
         /\ \A r \in Request : req' = [req EXCEPT ![w] = r] => req' \in [Writer -> Request]
<1>1. req \in [Writer -> Request] /\ req[w] \in Request
  BY DEF VerificationTypeOK
<1>2. NoRequest \in Request
  BY DEF NoRequest, Request, KYCStatus
<1>3. \A pc \in {"expire", "create"} : [req[w] EXCEPT !.pc = pc] \in Request
  BY <1>1 DEF Request
<1>4. req[w].pc = "apply" => [req[w] EXCEPT !.pc = "alert"] \in Request
  BY <1>1 DEF Request
<1>5. /\ req[w].status \in KYCStatus
      /\ req[w].pc \in {"apply", "store", "alert"} => req[w].session \in Session
  BY <1>1 DEF Request
<1> QED
  BY <1>1, <1>2, <1>3, <1>4, <1>5 DEF Ends, Goes

LEMMA FreshIsUnused == Unused # {} => Fresh \in Unused
BY DEF Fresh

\* Whoever asks Didit about a session gets a status of this code.
LEMMA BringsTypes ==
  ASSUME VerificationTypeOK, NEW w, Brings(w)
  PROVE  req' \in [Writer -> Request]
<1>1. w \in Writer /\ user.session \in Session
  BY DEF Brings, VerificationTypeOK
<1>2. mapDiditStatus(didit[user.session]) \in KYCStatus
  BY DEF Brings, Readable, mapDiditStatus, KYCStatus
<1>3. [pc |-> "apply", session |-> user.session,
       status |-> mapDiditStatus(didit[user.session])] \in Request
  BY <1>1, <1>2 DEF Request
<1> QED
  BY <1>1, <1>3, RequestTypes DEF Brings

LEMMA FindsTypes ==
  ASSUME VerificationTypeOK, NEW w, NEW pc \in {"expire", "create"}, Finds(w, pc)
  PROVE  req' \in [Writer -> Request]
BY RequestTypes DEF Finds

LEMMA VerificationTypes ==
  ASSUME VerificationTypeOK, VerificationNext
  PROVE  VerificationTypeOK' /\ \A s \in Session : didit[s] = "gone" => didit'[s] = "gone"
<1> USE DEF VerificationTypeOK
<1> DEFINE Gone == \A s \in Session : didit[s] = "gone" => didit'[s] = "gone"
<1>1. ASSUME NEW s \in Session, NEW d \in DiditStatus, DiditMoves(s, d)
      PROVE  VerificationTypeOK' /\ Gone
  BY <1>1 DEF DiditMoves, Live
<1>2. CASE Receive \/ reconcileOne
  BY <1>2, BringsTypes DEF Receive, reconcileOne
<1>3. CASE Status
  BY <1>3, BringsTypes, FindsTypes DEF Status
<1>4. CASE Start
  BY <1>4, FindsTypes DEF Start
<1>5. CASE StatusWrites
  <2>1. req' \in [Writer -> Request] /\ req["poll"].status \in KYCStatus
    BY <1>5, RequestTypes DEF StatusWrites
  <2> QED
    BY <1>5, <2>1 DEF StatusWrites
<1>6. ASSUME NEW w \in Writer, applyKYCStatus(w) \/ Expire(w) \/ alertAdminOfKYCReview(w) \/ Lost(w)
      PROVE  VerificationTypeOK' /\ Gone
  <2>1. req' \in [Writer -> Request]
    BY <1>6, RequestTypes DEF applyKYCStatus, Expire, alertAdminOfKYCReview, Lost
  <2>2. CASE applyKYCStatus(w)
    BY <2>1, <2>2, RequestTypes DEF applyKYCStatus
  <2>3. CASE Expire(w)
    BY <2>1, <2>3 DEF Expire, KYCStatus
  <2>4. CASE alertAdminOfKYCReview(w)
    BY <2>1, <2>4, RequestTypes DEF alertAdminOfKYCReview
  <2>5. CASE Lost(w)
    BY <2>1, <2>5 DEF Lost
  <2> QED
    BY <1>6, <2>2, <2>3, <2>4, <2>5
<1>7. CASE Create
  <2>1. Fresh \in Session /\ didit[Fresh] = "unused"
    BY <1>7, FreshIsUnused DEF Create, Unused
  <2>2. [req["start"] EXCEPT !.pc = "store", !.session = Fresh] \in Request
    BY <1>7, <2>1 DEF Create, Request
  <2>3. req' \in [Writer -> Request]
    BY <1>7, <2>2, RequestTypes DEF Create
  <2> QED
    BY <1>7, <2>1, <2>3 DEF Create, DiditStatus
<1>8. CASE Store
  <2>1. req' \in [Writer -> Request] /\ req["start"].session \in Session
    BY <1>8, RequestTypes DEF Store
  <2> QED
    BY <1>8, <2>1 DEF Store, KYCStatus
<1>9. CASE Reset \/ Sweep
  BY <1>9 DEF Reset, Sweep, KYCStatus
<1> QED
  BY <1>1, <1>2, <1>3, <1>4, <1>5, <1>6, <1>7, <1>8, <1>9 DEF VerificationNext

-----------------------------------------------------------------------------
(* The deletion.                                                               *)

RequestType == [status : Open \cup {"none", "cancelled", "completed"}, clock : {"grace", "due", "late"},
                waits : BOOLEAN, attempts : 0..MaxAttempts, kept : SUBSET Session,
                unconfigured : BOOLEAN]

LEMMA FreshRequest ==
  \A s \in Open \cup {"none", "cancelled", "completed"} :
    [NewRequest EXCEPT !.status = s] \in RequestType /\ [NewRequest EXCEPT !.status = s].status = s
<1>1. 0 \in 0..MaxAttempts /\ {} \in SUBSET Session
  OBVIOUS
<1> QED
  BY <1>1 DEF NewRequest, RequestType

LEMMA FailedTypes ==
  ASSUME exec \in Exec, NEW s \in Service
  PROVE  /\ Failed(s) \subseteq Service
         /\ \A pc \in {"didit", "finish"} :
              /\ [exec EXCEPT !.pc = pc] \in Exec
              /\ [exec EXCEPT !.pc = pc, !.failed = Failed(s)] \in Exec
<1>1. exec.failed \subseteq Service
  BY DEF Exec
<1>2. Failed(s) \subseteq Service
  BY <1>1 DEF Failed
<1> HIDE DEF Service
<1> QED
  BY <1>2 DEF Exec

LEMMA ErasureInitInv == Init => ErasureInv
<1> SUFFICES ASSUME Init PROVE ErasureInv
  OBVIOUS
<1>1. NoRequest \in Request
  BY DEF NoRequest, Request, KYCStatus
<1>2. VerificationTypeOK
  BY <1>1 DEF Init, VerificationInit, VerificationTypeOK, DiditStatus, KYCStatus
<1>3. request.status = "none" /\ exec = NoExec /\ NoExec \in Exec
  BY DEF Init, NewRequest, NoExec, Exec
<1>4. TypeOK
  <2>1. request \in RequestType
    BY FreshRequest DEF Init
  <2>2. done \subseteq Service
    BY DEF Init
  <2> QED
    BY <1>2, <1>3, <2>1, <2>2 DEF TypeOK, RequestType
<1> QED
  BY <1>3, <1>4 DEF ErasureInv, Remembers, HasRequest, AttemptsLeft, Open, NoExec

\* The person and the clock.
LEMMA PersonInv ==
  ASSUME ErasureInv, Schedule \/ Cancel \/ ClockMoves \/ WaitEnds
  PROVE  ErasureInv'
<1> USE DEF ErasureInv, TypeOK, Schedule, Cancel, ClockMoves, WaitEnds, NewRequest, Open
<1>1. request' \in RequestType /\ UNCHANGED <<verification, upsets, done, exec>>
  <2>1. CASE Schedule
    BY <2>1 DEF RequestType
  <2>2. CASE Cancel
    BY <2>2, FreshRequest
  <2>3. CASE ClockMoves
    BY <2>3 DEF RequestType
  <2>4. CASE WaitEnds
    BY <2>4 DEF RequestType
  <2> QED
    BY <2>1, <2>2, <2>3, <2>4
<1>2. TypeOK'
  BY <1>1 DEF RequestType, VerificationTypeOK, verification
<1>3. HasRequest' /\ AttemptsLeft'
  BY <1>1 DEF HasRequest, AttemptsLeft
<1>4. Remembers'
  BY <1>1 DEF Remembers, verification
<1> QED
  BY <1>2, <1>3, <1>4

\* The executor, a step at a time.
LEMMA ExecutorInv ==
  ASSUME ErasureInv, ExecutorRuns \/ Rollback
  PROVE  ErasureInv'
<1> USE DEF ErasureInv, TypeOK, Open
<1>1. NoExec \in Exec /\ NoExec.pc = "idle"
  BY DEF NoExec, Exec
<1>2. ASSUME NEW owed \in BOOLEAN, Begin(owed) PROVE ErasureInv'
  <2>1. request' \in RequestType /\ UNCHANGED <<verification, upsets, done>>
    BY <1>2 DEF Begin, RequestType
  <2>2. exec' \in Exec
    <3>1. ({user.session} \ {None}) \cup audit \cup alerts \in SUBSET Session
      BY DEF VerificationTypeOK
    <3>2. holdLimit \in BOOLEAN
      BY DEF holdLimit
    <3> QED
      BY <1>2, <3>1, <3>2 DEF Begin, NoExec, Exec
  <2>3. exec'.pc = "idle" \/ (exec'.pc = "agent" /\ exec'.unconfigured = FALSE)
    BY <1>2 DEF Begin, NoExec, Exec
  <2>4. request'.status \in Open /\ request'.attempts = request.attempts /\ request.status \in Open
    BY <1>2 DEF Begin, Due
  <2> QED
    BY <2>1, <2>2, <2>3, <2>4
    DEF RequestType, VerificationTypeOK, verification, Remembers, HasRequest, AttemptsLeft
<1>3. CASE EraseAtAgent
  <2>1. request' \in RequestType /\ UNCHANGED <<verification, upsets>> /\ done' \subseteq Service
    BY <1>3 DEF EraseAtAgent, RequestType, Service
  <2>2. exec' \in Exec /\ exec'.pc \in {"idle", "didit"} /\ exec'.unconfigured = FALSE
    <3>1. "agent" \in Service
      BY DEF Service
    <3>2. \/ exec' = NoExec
          \/ exec' = [exec EXCEPT !.pc = "didit"]
          \/ exec' = [exec EXCEPT !.pc = "didit", !.failed = Failed("agent")]
      BY <1>3 DEF EraseAtAgent
    <3>3. exec' \in Exec
      BY <1>1, <3>1, <3>2, FailedTypes
    <3>4. exec'.pc \in {"idle", "didit"}
      BY <1>1, <3>2 DEF Exec
    <3>5. exec.unconfigured = FALSE
      BY <1>3 DEF EraseAtAgent, Remembers
    <3>6. exec' = NoExec \/ exec'.unconfigured = exec.unconfigured
      BY <3>2 DEF Exec
    <3>7. NoExec.unconfigured = FALSE
      BY DEF NoExec
    <3> QED
      BY <3>3, <3>4, <3>5, <3>6, <3>7
  <2>3. request'.status \in Open /\ request'.attempts = request.attempts /\ request.status \in Open
    BY <1>3 DEF EraseAtAgent, HasRequest
  <2> QED
    BY <2>1, <2>2, <2>3
    DEF RequestType, VerificationTypeOK, verification, Remembers, HasRequest, AttemptsLeft
<1>4. ASSUME NEW pending \in SUBSET Session, deleteDidit(pending) PROVE ErasureInv'
  <2>5. "didit" \in Service /\ Failed("didit") \subseteq Service
    BY DEF Failed, Exec, Service
  <2>6. \/ exec' = [exec EXCEPT !.pc = "github", !.pending = pending] /\ pending = {}
        \/ exec' = [exec EXCEPT !.pc = "github", !.pending = pending, !.failed = Failed("didit")]
        \/ /\ exec' = [exec EXCEPT !.pc = "github", !.pending = pending, !.unconfigured = TRUE]
           /\ pending = exec.sessions
    BY <1>4 DEF deleteDidit, Exec
  <2>1. /\ exec' \in Exec /\ exec'.sessions = exec.sessions /\ exec'.pending = pending
        /\ exec.pc = "didit" /\ exec'.pc = "github" /\ pending \subseteq exec.sessions
    BY <1>4, <2>5, <2>6 DEF deleteDidit, Exec
  <2>2. /\ didit' \in [Session -> DiditStatus]
        /\ \A s \in exec.sessions \ pending : didit'[s] = "gone"
    BY <1>4 DEF deleteDidit, VerificationTypeOK, DiditStatus, Exec
  <2>4. /\ pending # {} => "didit" \in exec'.failed \/ exec'.unconfigured
        /\ exec'.unconfigured => pending = exec.sessions
    <3>1. exec.unconfigured = FALSE
      BY <1>4 DEF deleteDidit, Remembers
    <3>2. "didit" \in Failed("didit")
      BY DEF Failed
    <3>3. CASE exec' = [exec EXCEPT !.pc = "github", !.pending = pending] /\ pending = {}
      <4>1. exec'.unconfigured = exec.unconfigured
        BY <3>3 DEF Exec
      <4> QED
        BY <3>1, <3>3, <4>1
    <3>4. CASE exec' = [exec EXCEPT !.pc = "github", !.pending = pending, !.failed = Failed("didit")]
      <4>1. exec'.unconfigured = exec.unconfigured /\ exec'.failed = Failed("didit")
        BY <3>4 DEF Exec
      <4> QED
        BY <3>1, <3>2, <4>1
    <3>5. CASE exec' = [exec EXCEPT !.pc = "github", !.pending = pending, !.unconfigured = TRUE]
                /\ pending = exec.sessions
      <4>1. exec'.unconfigured = TRUE
        BY <3>5 DEF Exec
      <4> QED
        BY <3>5, <4>1
    <3> QED
      BY <2>6, <3>3, <3>4, <3>5
  <2>3. UNCHANGED <<user, audit, alerts, req, moves, upsets, request, done>>
    BY <1>4 DEF deleteDidit
  <2> QED
    BY <2>1, <2>2, <2>3, <2>4 DEF VerificationTypeOK, Remembers, HasRequest, AttemptsLeft
<1>5. CASE RevokeGitHub
  <2>1. /\ exec' \in Exec /\ exec'.sessions = exec.sessions /\ exec'.pending = exec.pending
        /\ exec.failed \subseteq exec'.failed /\ exec'.unconfigured = exec.unconfigured
        /\ exec.pc = "github" /\ exec'.pc = "finish"
    <3>1. "github" \in Service
      BY DEF Service
    <3>2. \/ exec' = [exec EXCEPT !.pc = "finish"]
          \/ exec' = [exec EXCEPT !.pc = "finish", !.failed = Failed("github")]
      BY <1>5 DEF RevokeGitHub
    <3>3. exec' \in Exec
      BY <3>1, <3>2, FailedTypes
    <3>4. /\ exec'.sessions = exec.sessions /\ exec'.pending = exec.pending /\ exec'.pc = "finish"
          /\ exec.failed \subseteq exec'.failed /\ exec'.unconfigured = exec.unconfigured
      BY <3>2 DEF Exec, Failed
    <3> QED
      BY <1>5, <3>3, <3>4 DEF RevokeGitHub
  <2>2. UNCHANGED <<verification, upsets, request>> /\ done' \subseteq Service
    BY <1>5 DEF RevokeGitHub, Service
  <2> QED
    BY <2>1, <2>2 DEF VerificationTypeOK, verification, Remembers, HasRequest, AttemptsLeft
<1>6. CASE postpone
  <2>1. request.attempts + 1 < MaxAttempts /\ request.attempts \in Nat
    BY <1>6 DEF postpone, GiveUpAt
  <2>2. /\ request' \in RequestType /\ request'.status = "scheduled"
        /\ request'.attempts < MaxAttempts /\ exec' = NoExec
        /\ UNCHANGED <<verification, upsets, done>>
    <3>1. /\ request' = [request EXCEPT !.status = "scheduled", !.waits = TRUE, !.attempts = @ + 1]
          /\ request.attempts + 1 \in 0..MaxAttempts
      BY <1>6, <2>1 DEF postpone
    <3>2. request' \in RequestType
      BY <3>1 DEF RequestType
    <3>3. request'.status = "scheduled" /\ request'.attempts = request.attempts + 1
      BY <3>1
    <3> QED
      BY <1>6, <2>1, <3>2, <3>3 DEF postpone
  <2> QED
    BY <1>1, <2>2
    DEF RequestType, VerificationTypeOK, verification, Remembers, HasRequest, AttemptsLeft
<1>7. CASE complete
  <2>1. request.attempts + 1 \in 0..MaxAttempts
    BY <1>7 DEF complete, HasRequest, AttemptsLeft
  <2>2. Kept \in SUBSET Session
    BY DEF Kept, Exec
  <2>6. exec.unconfigured \in BOOLEAN
    BY DEF Exec
  <2>3. request' \in RequestType /\ request'.status = "completed" /\ exec' = NoExec
    BY <1>7, <2>1, <2>2, <2>6 DEF complete, RequestType
  <2>4. VerificationTypeOK'
    BY <1>7 DEF complete, VerificationTypeOK, KYCStatus
  <2>5. done' = done
    BY <1>7 DEF complete
  <2> QED
    BY <1>1, <2>3, <2>4, <2>5 DEF RequestType, Remembers, HasRequest, AttemptsLeft
<1>8. CASE Rollback
  <2>1. /\ upsets' \in 0..MaxUpsets /\ exec' = NoExec
        /\ UNCHANGED <<verification, request, done>>
    BY <1>8 DEF Rollback, VerificationTypeOK
  <2> QED
    BY <1>1, <2>1 DEF VerificationTypeOK, verification, Remembers, HasRequest, AttemptsLeft
<1> QED
  BY <1>2, <1>3, <1>4, <1>5, <1>6, <1>7, <1>8 DEF ExecutorRuns

LEMMA ErasureNextInv == ErasureInv /\ [Next]_vars => ErasureInv'
<1>1. ASSUME ErasureInv, VerificationNext, UNCHANGED erasure PROVE ErasureInv'
  <2>1. VerificationTypeOK' /\ \A s \in Session : didit[s] = "gone" => didit'[s] = "gone"
    BY <1>1, VerificationTypes DEF ErasureInv, TypeOK
  <2>2. exec.sessions \subseteq Session
    BY <1>1 DEF ErasureInv, TypeOK, Exec
  <2> QED
    BY <1>1, <2>1, <2>2 DEF ErasureInv, TypeOK, erasure, Remembers, HasRequest, AttemptsLeft
<1>2. ASSUME ErasureInv, UNCHANGED vars PROVE ErasureInv'
  BY <1>2 DEF vars, verification, erasure, ErasureInv, TypeOK, VerificationTypeOK, Remembers, HasRequest,
              AttemptsLeft
<1> QED
  BY <1>1, <1>2, PersonInv, ExecutorInv DEF Next

\* The verification, the request and the executor keep their types; attempts are
\* never counted beyond MaxExternalAttempts (executor.go).
THEOREM ErasureTypesCorrect == Spec => []TypeOK
<1>1. ErasureInv => TypeOK
  BY DEF ErasureInv
<1> QED
  BY <1>1, ErasureInitInv, ErasureNextInv, PTL DEF Spec

\* At completion every session the executor knew of is gone at Didit or kept on the
\* request, or the request says that there was no Didit to ask, whatever happened to the account and at Didit between its calls.
THEOREM NoSessionForgotten == Spec => SessionsAccounted
<1> DEFINE Accounts == exec.pc = "finish" /\ request'.status = "completed"
                         => \/ \A s \in exec.sessions : didit[s] = "gone" \/ s \in request'.kept
                            \/ request'.unconfigured /\ exec.pending = exec.sessions
<1>1. ASSUME ErasureInv, Next PROVE Accounts
  <2>1. CASE complete
    BY <1>1, <2>1 DEF complete, Kept, ErasureInv, Remembers
  <2>2. CASE ~complete
    <3>1. SUFFICES ASSUME exec.pc = "finish" PROVE request'.status # "completed"
      OBVIOUS
    <3>2. request.status \in {"scheduled", "held"}
      BY <1>1, <3>1 DEF ErasureInv, HasRequest, Open
    <3>3. request \in RequestType
      BY <1>1 DEF ErasureInv, TypeOK, RequestType
    <3> QED
      BY <1>1, <2>2, <3>1, <3>2, <3>3
      DEF Next, ExecutorRuns, Schedule, Cancel, ClockMoves, WaitEnds, Begin, EraseAtAgent,
          deleteDidit, RevokeGitHub, postpone, Rollback, erasure, Open, RequestType
  <2> QED
    BY <2>1, <2>2
<1>2. ErasureInv /\ [Next]_vars => [Accounts]_<<exec, request>>
  BY <1>1 DEF vars, erasure
<1> QED
  BY <1>2, ErasureInitInv, ErasureNextInv, PTL DEF Spec, SessionsAccounted

==============================================================================
