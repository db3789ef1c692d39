------------------------------ MODULE EventSalt ------------------------------
(* The secret each settlement's identities are hashed with: created once when    *)
(* its tree is first built, stored under a key that processes are configured     *)
(* with and bound to its settlement, re-wrapped under a new key row by row, and  *)
(* destroyed for good (salt/salt.go, payout/build.go).                           *)
EXTENDS Naturals, FiniteSets

CONSTANTS
  SaltedTree,      \* settlements
  WrapKey,         \* keys a process may be configured with
  Hashing,         \* builds that hash the identities of a settlement
  Rotation,        \* runs of a rotation
  MaxSalts,        \* bound on the salts generated
  NoSalt

ASSUME EventSaltAssumption == MaxSalts \in Nat /\ NoSalt \notin Nat

VARIABLES
  wrapped,      \* payout_event_salts: absent, a tombstone, or salt, key and the settlement it is bound to
  generated,    \* salts generated so far
  destroyed,    \* history: settlements whose salt was destroyed
  identities,   \* history: the salts the identities of each settlement were hashed with
  hashing,      \* the builds under way: between Create and WithSalt, and with the row loaded
  rotation      \* the rotations under way: the rows listed and not yet stored

saltVars == <<wrapped, generated, destroyed, identities, hashing, rotation>>

NoSaltRow == [row |-> "absent", salt |-> NoSalt, key |-> "none", bound |-> "none"]
Tombstone == [NoSaltRow EXCEPT !.row = "destroyed"]
NotHashing == [pc |-> "idle", of |-> "none", key |-> "none", loaded |-> NoSaltRow]
NotRotating == [pc |-> "idle", from |-> "none", to |-> "none", left |-> [t \in {} |-> NoSaltRow]]

SaltInit ==
  /\ wrapped = [t \in SaltedTree |-> NoSaltRow] /\ generated = 0 /\ destroyed = {}
  /\ identities = [t \in SaltedTree |-> {}]
  /\ hashing = [h \in Hashing |-> NotHashing] /\ rotation = [x \in Rotation |-> NotRotating]

OpensUnbound(row, key, t) == row.row = "live" /\ row.key = key \* mutant

\* aead.Open: the key the row was wrapped under, for the settlement it was wrapped for.
Opens(row, key, t) == row.row = "live" /\ row.key = key /\ row.bound = t

-----------------------------------------------------------------------------
(* Building a tree.                                                            *)

CreateSaltOver(h, t, k) == \* mutant
  /\ hashing[h].pc = "idle"
  /\ generated < MaxSalts /\ generated' = generated + 1
  /\ wrapped' = [wrapped EXCEPT ![t] = [row |-> "live", salt |-> generated, key |-> k, bound |-> t]]
  /\ hashing' = [hashing EXCEPT ![h] = [NotHashing EXCEPT !.pc = "created", !.of = t, !.key = k]]
  /\ UNCHANGED <<destroyed, identities, rotation>>

\* Neither a live salt nor a tombstone is replaced, and the build goes on with either.
CreateSalt(h, t, k) ==
  /\ hashing[h].pc = "idle"
  /\ generated < MaxSalts /\ generated' = generated + 1
  /\ wrapped' = IF wrapped[t].row # "absent" THEN wrapped
                ELSE [wrapped EXCEPT ![t] = [row |-> "live", salt |-> generated, key |-> k, bound |-> t]]
  /\ hashing' = [hashing EXCEPT ![h] = [NotHashing EXCEPT !.pc = "created", !.of = t, !.key = k]]
  /\ UNCHANGED <<destroyed, identities, rotation>>

\* WithSalt loads the row; a tombstone is an error of its own.
LoadSalt(h) ==
  /\ hashing[h].pc = "created"
  /\ LET q == hashing[h] IN
     hashing' = [hashing EXCEPT ![h] = IF wrapped[q.of].row = "live" THEN [q EXCEPT !.pc = "loaded", !.loaded = wrapped[q.of]]
                                       ELSE NotHashing]
  /\ UNCHANGED <<wrapped, generated, destroyed, identities, rotation>>

\* The identities are hashed inside WithSalt, all of them, or none if the row does not open.
IdentityHashes(h) ==
  /\ hashing[h].pc = "loaded" /\ hashing' = [hashing EXCEPT ![h] = NotHashing]
  /\ LET q == hashing[h] IN
     identities' = IF Opens(q.loaded, q.key, q.of) THEN [identities EXCEPT ![q.of] = @ \cup {q.loaded.salt}]
                   ELSE identities
  /\ UNCHANGED <<wrapped, generated, destroyed, rotation>>

-----------------------------------------------------------------------------
(* Destruction and rotation, by hand; nothing schedules either.                *)

Destroy(t) ==
  /\ wrapped[t].row = "live" /\ wrapped' = [wrapped EXCEPT ![t] = Tombstone]
  /\ destroyed' = destroyed \cup {t}
  /\ UNCHANGED <<generated, identities, hashing, rotation>>

\* Somebody copies one row's ciphertext into another's.
CopyRow(t, u) ==
  /\ t # u /\ wrapped[t].row = "live" /\ wrapped[u].row = "live" /\ wrapped' = [wrapped EXCEPT ![u] = wrapped[t]]
  /\ UNCHANGED <<generated, destroyed, identities, hashing, rotation>>

\* Rotate lists the live rows once.
ListSalts(x, from, to) ==
  /\ rotation[x].pc = "idle" /\ from # to
  /\ rotation' = [rotation EXCEPT ![x] =
       [pc |-> "listed", from |-> from, to |-> to,
        left |-> [t \in {s \in SaltedTree : wrapped[s].row = "live"} |-> wrapped[t]]]]
  /\ UNCHANGED <<wrapped, generated, destroyed, identities, hashing>>

RotationEnds(x) == rotation' = [rotation EXCEPT ![x] = NotRotating]

Rewrapped(x, t) == [row |-> "live", salt |-> rotation[x].left[t].salt, key |-> rotation[x].to, bound |-> t]

RotateAll(x, t) == \* mutant
  /\ rotation[x].pc = "listed" /\ t \in DOMAIN rotation[x].left
  /\ IF ~Opens(rotation[x].left[t], rotation[x].from, t) THEN RotationEnds(x) /\ UNCHANGED wrapped
     ELSE /\ wrapped' = [wrapped EXCEPT ![t] = Rewrapped(x, t)]
          /\ rotation' = [rotation EXCEPT ![x].left = [s \in DOMAIN @ \ {t} |-> @[s]]]
  /\ UNCHANGED <<generated, destroyed, identities, hashing>>

\* A row that does not open under the old key ends the run; one destroyed meanwhile stays so.
Rotate(x, t) ==
  /\ rotation[x].pc = "listed" /\ t \in DOMAIN rotation[x].left
  /\ IF ~Opens(rotation[x].left[t], rotation[x].from, t) THEN RotationEnds(x) /\ UNCHANGED wrapped
     ELSE /\ wrapped' = IF wrapped[t].row = "destroyed" THEN wrapped ELSE [wrapped EXCEPT ![t] = Rewrapped(x, t)]
          /\ rotation' = [rotation EXCEPT ![x].left = [s \in DOMAIN @ \ {t} |-> @[s]]]
  /\ UNCHANGED <<generated, destroyed, identities, hashing>>

\* The run is over, or dies with rows left under the old key.
RotationOver(x) ==
  /\ rotation[x].pc = "listed" /\ RotationEnds(x)
  /\ UNCHANGED <<wrapped, generated, destroyed, identities, hashing>>

SaltNext ==
  \/ \E h \in Hashing : LoadSalt(h) \/ IdentityHashes(h) \/ \E t \in SaltedTree, k \in WrapKey : CreateSalt(h, t, k)
  \/ \E t \in SaltedTree : Destroy(t) \/ \E u \in SaltedTree : CopyRow(t, u)
  \/ \E x \in Rotation : \/ RotationOver(x)
                         \/ \E from, to \in WrapKey : ListSalts(x, from, to)
                         \/ \E t \in SaltedTree : Rotate(x, t)

SaltSpec == SaltInit /\ [][SaltNext]_saltVars

-----------------------------------------------------------------------------
\* Whatever builds, rotations and destructions overlap, the identities of a settlement are
\* hashed with one salt, no two settlements share one, and a salt that was destroyed does
\* not come back.
SaltsStand ==
  /\ \A t \in SaltedTree : Cardinality(identities[t]) <= 1
  /\ \A t, u \in SaltedTree : t # u => identities[t] \cap identities[u] = {}
  /\ \A t \in destroyed : wrapped[t] = Tombstone
=============================================================================
