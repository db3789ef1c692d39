------------------------------- MODULE MerkleTree -------------------------------
(* The tree over a settlement's leaves and the proofs served from the rows that    *)
(* were stored when it was built (internal/chain/merkle.go, payout/serve.go). A    *)
(* digest is ideal: one leaf, or one unordered pair under the node prefix.         *)
EXTENDS Naturals, Sequences, FiniteSets, SequencesExt

CONSTANTS
  Entitlement,   \* leaves, as the numbers their digests sort by; one address each
  Listings,      \* the leaves of a settlement, in the order the rows come in
  NoClaim

\* There is no tree without leaves (ErrEmptyTree).
ASSUME ListingsAssumption == Entitlement \subseteq Nat /\ Listings \subseteq Seq(Entitlement) \ {<<>>}

VARIABLES
  listing,       \* what the tree was built from
  claimLeaves,   \* claim_leaves: the digest of each row, by leaf_index
  eventRoot,     \* payout_event_roots.root
  servedClaim    \* the last claim handed out

merkleVars == <<listing, claimLeaves, eventRoot, servedClaim>>

LeafDigest(n) == [leaf |-> n]
hashNode(a, b) == [node |-> {a, b}]

AsTheyCome(digests) == digests \* mutant
\* What stands at i: fewer than i digests sort before it, and at least i no later than it.
Sorted(digests) ==
  LET before(d) == {j \in DOMAIN digests : digests[j].leaf < d.leaf}
      upTo(d) == {j \in DOMAIN digests : digests[j].leaf <= d.leaf} IN
  [i \in DOMAIN digests |->
     CHOOSE d \in Range(digests) : Cardinality(before(d)) < i /\ i <= Cardinality(upTo(d))]

DuplicateOdd(level) == \* mutant
  [i \in 1..((Len(level) + 1) \div 2) |->
     hashNode(level[2 * i - 1], level[IF 2 * i \in DOMAIN level THEN 2 * i ELSE 2 * i - 1])]

\* Pairs are hashed; an odd node at the end is promoted as it is.
NextLevel(level) ==
  [i \in 1..((Len(level) + 1) \div 2) |->
     IF 2 * i \in DOMAIN level THEN hashNode(level[2 * i - 1], level[2 * i]) ELSE level[2 * i - 1]]

\* The levels, from the leaves up. There are fewer than leaves; the last is repeated.
Levels(leaves) ==
  LET level[k \in 0..Len(leaves)] ==
        IF k = 0 THEN leaves
        ELSE LET below == level[k - 1] IN IF Len(below) > 1 THEN NextLevel(below) ELSE below
  IN level

buildFromDigests(digests) == LET leaves == Sorted(digests) IN Levels(leaves)[Len(leaves)][1]
BuildMerkleTree(leaves) == buildFromDigests([i \in DOMAIN leaves |-> LeafDigest(leaves[i])])

\* The siblings on the way up; a promoted node has none at its level.
Sibling(level, i) ==
  LET sibling == IF i % 2 = 1 THEN i + 1 ELSE i - 1 IN
  IF sibling \in DOMAIN level THEN <<level[sibling]>> ELSE <<>>

Siblings(leaves, i) ==
  LET levels == Levels(leaves)
      up[k \in 0..Len(leaves)] ==
        IF k = 0 THEN [at |-> i, path |-> <<>>]
        ELSE LET below == up[k - 1] IN
             [at |-> (below.at + 1) \div 2, path |-> below.path \o Sibling(levels[k - 1], below.at)]
  IN up[Len(leaves)].path

proofForDigest(digests, target) ==
  LET leaves == Sorted(digests) IN Siblings(leaves, CHOOSE i \in DOMAIN leaves : leaves[i] = target)

VerifyProof(root, leaf, proof) == FoldLeft(hashNode, leaf, proof) = root

AsBuilt == [i \in DOMAIN listing |-> LeafDigest(listing[i])]

TreeInit ==
  /\ listing \in Listings /\ eventRoot = BuildMerkleTree(listing) /\ servedClaim = NoClaim /\ claimLeaves = AsBuilt

\* One row changes or goes after the root was computed.
RowDrifts(i, n) ==
  /\ claimLeaves = AsBuilt /\ i \in DOMAIN claimLeaves
  /\ claimLeaves' = IF n = 0 THEN RemoveAt(claimLeaves, i) ELSE [claimLeaves EXCEPT ![i] = LeafDigest(n)]
  /\ UNCHANGED <<listing, eventRoot, servedClaim>>

ServesItsOwnRoot(n) == \* mutant
  /\ \E i \in DOMAIN claimLeaves : claimLeaves[i] = LeafDigest(n)
  /\ servedClaim' = [leaf |-> LeafDigest(n), proof |-> proofForDigest(claimLeaves, LeafDigest(n))]
  /\ UNCHANGED <<listing, claimLeaves, eventRoot>>

\* The tree is rebuilt from the stored digests and must give the published root.
ClaimFor(n) ==
  /\ \E i \in DOMAIN claimLeaves : claimLeaves[i] = LeafDigest(n)
  /\ LET proof == proofForDigest(claimLeaves, LeafDigest(n)) IN
     /\ buildFromDigests(claimLeaves) = eventRoot /\ VerifyProof(eventRoot, LeafDigest(n), proof)
     /\ servedClaim' = [leaf |-> LeafDigest(n), proof |-> proof]
  /\ UNCHANGED <<listing, claimLeaves, eventRoot>>

TreeNext == \E n \in Entitlement : ClaimFor(n) \/ \E i \in DOMAIN claimLeaves : RowDrifts(i, n) \/ RowDrifts(i, 0)

TreeSpec == TreeInit /\ [][TreeNext]_merkleVars

-----------------------------------------------------------------------------
Copies(rows, n) == Cardinality({i \in DOMAIN rows : rows[i] = n})
SameLeaves(a, b) == \A n \in Entitlement : Copies(a, n) = Copies(b, n)
Nodes(rows) == {LeafDigest(n) : n \in Entitlement} \cup UNION {{s[i] : i \in DOMAIN s} :
                 s \in {proofForDigest(rows, rows[j]) : j \in DOMAIN rows}}

\* The root commits to the leaves whatever order their rows come in, and to no other
\* leaves; each of them has a proof, nothing else has one among the digests of the tree,
\* and a claim that is handed out is of one of them and one the escrow accepts, drifted
\* rows or not.
OnlyLeavesProve ==
  /\ \A l \in Listings : BuildMerkleTree(l) = eventRoot <=> SameLeaves(l, listing)
  /\ servedClaim # NoClaim => /\ \E i \in DOMAIN AsBuilt : AsBuilt[i] = servedClaim.leaf
                              /\ VerifyProof(eventRoot, servedClaim.leaf, servedClaim.proof)
  /\ \A i \in DOMAIN AsBuilt : VerifyProof(eventRoot, AsBuilt[i], proofForDigest(AsBuilt, AsBuilt[i]))
  /\ servedClaim = NoClaim /\ claimLeaves = AsBuilt =>
       \A n \in Entitlement : \A proof \in BoundedSeq(Nodes(AsBuilt), 3) :
         VerifyProof(eventRoot, LeafDigest(n), proof) => \E i \in DOMAIN listing : listing[i] = n
=============================================================================
