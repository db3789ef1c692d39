-------------------------- MODULE FoundingSettlement --------------------------
(* What founding members earn from merged pull requests, granted when an         *)
(* event's appeals close, and the programme's own settlement, worked out from    *)
(* everybody's shares by a command that writes nothing (founding/events.go,      *)
(* shares.go, settlement.go, gate.go).                                           *)
EXTENDS Naturals, FiniteSets, Functions, Apportionment

CONSTANTS
  Member,          \* founding members, by user id
  WaveMultiplier,      \* WaveMultiplier[m]: of the member's wave, in tenths
  BaseShares,      \* BaseShares[m]: what the member has from elsewhere
  Accepted,        \* verdicts whose final bucket is not rejected
  AuthorOf,        \* AuthorOf[v]
  ReferredBy,      \* ReferredBy[m], for the members somebody referred
  FoundingMinor,   \* founding_pool_usdc, in minor units
  MergedShare, ReferredShare,  \* founding_share_merged_pr, founding_share_referral_merged_pr
  GrantRun,        \* runs of the grant: the recompute may be retried
  DryRunOf,        \* runs of the command
  MaxGateMoves     \* bound on the decisions about follows

ASSUME FoundingSettlementAssumption ==
  /\ Member \subseteq Nat /\ IsFiniteSet(Member)
  /\ WaveMultiplier \in [Member -> Nat] /\ BaseShares \in [Member -> Nat]
  /\ AuthorOf \in [Accepted -> Member] /\ DOMAIN ReferredBy \subseteq Member
  /\ {FoundingMinor, MergedShare, ReferredShare} \subseteq Nat \ {0} /\ MaxGateMoves \in Nat

VARIABLES
  landedPRs,   \* verdicts whose pull request the mirror knows to be merged
  granted,     \* founding_shares from pull requests: <<who, reason, verdict>>
  granting,    \* the grants under way: the awards left, and whether all went well
  follows,     \* the status of each member's social follow submission
  gateMoves,
  dryRun       \* the command's runs: the lines read, who is checked, the result

foundingSettlementVars == <<landedPRs, granted, granting, follows, gateMoves, dryRun>>

NotGranting == [pc |-> "idle", loaded |-> {}, left |-> {}, now |-> "none", whole |-> TRUE]
NotRun == [pc |-> "idle", shares |-> [m \in Member |-> 0], unchecked |-> {}, eligible |-> {},
           approvedOnce |-> {}, approvedAlways |-> {}, amount |-> [m \in Member |-> 0]]

FoundingSettlementInit ==
  /\ landedPRs \in SUBSET Accepted /\ granted = {}
  /\ granting = [g \in GrantRun |-> NotGranting]
  /\ follows = [m \in Member |-> "approved"] /\ gateMoves = 0
  /\ dryRun = [d \in DryRunOf |-> NotRun]

-----------------------------------------------------------------------------
(* Shares for merged pull requests.                                            *)

\* A webhook or a list brings a merge the mirror had missed.
MergeMirrored(v) ==
  /\ v \notin landedPRs /\ landedPRs' = landedPRs \cup {v}
  /\ UNCHANGED <<granted, granting, follows, gateMoves, dryRun>>

\* GrantMergedPRShares reads the awards once: accepted, and merged.
GrantMergedPRShares(g) ==
  /\ granting[g].pc = "idle"
  /\ granting' = [granting EXCEPT ![g] = [NotGranting EXCEPT !.pc = "awards", !.loaded = landedPRs, !.left = landedPRs]]
  /\ UNCHANGED <<landedPRs, granted, follows, gateMoves, dryRun>>

AuthorShare(v) == <<AuthorOf[v], "merged_pr", v>>

\* The referrer's, if the author has one.
ReferrerShare(v) == {<<ReferredBy[m], "referral_merged_pr", v>> : m \in {AuthorOf[v]} \cap DOMAIN ReferredBy}

StopAtRepeat(g, v, fails) == \* mutant
  /\ granting[g].pc = "awards" /\ v \in granting[g].left
  /\ granted' = IF fails THEN granted ELSE granted \cup {AuthorShare(v)}
  /\ granting' = [granting EXCEPT ![g].pc = IF AuthorShare(v) \in granted THEN "awards" ELSE "referrer",
                                      ![g].now = v, ![g].left = @ \ {v}, ![g].whole = @ /\ ~fails]
  /\ UNCHANGED <<landedPRs, follows, gateMoves, dryRun>>

\* One INSERT each, a repeat changing nothing; one that fails is logged and the rest goes on.
OnMergedPR(g, v, fails) ==
  /\ granting[g].pc = "awards" /\ v \in granting[g].left
  /\ granted' = IF fails THEN granted ELSE granted \cup {AuthorShare(v)}
  /\ granting' = [granting EXCEPT ![g].pc = "referrer", ![g].now = v, ![g].left = @ \ {v}, ![g].whole = @ /\ ~fails]
  /\ UNCHANGED <<landedPRs, follows, gateMoves, dryRun>>

GrantReferrer(g, fails) ==
  LET v == granting[g].now IN
  /\ granting[g].pc = "referrer"
  /\ granted' = IF fails THEN granted ELSE granted \cup ReferrerShare(v)
  /\ granting' = [granting EXCEPT ![g].pc = "awards", ![g].whole = @ /\ ~fails]
  /\ UNCHANGED <<landedPRs, follows, gateMoves, dryRun>>

GrantsDone(g) ==
  /\ granting[g].pc = "awards" /\ granting[g].left = {}
  /\ granting' = [granting EXCEPT ![g].pc = "done"]
  /\ UNCHANGED <<landedPRs, granted, follows, gateMoves, dryRun>>

\* The process dies; the appeals are closed by then and nothing but a retry comes back.
GrantDies(g) ==
  /\ granting[g].pc \in {"awards", "referrer"} /\ granting' = [granting EXCEPT ![g] = NotGranting]
  /\ UNCHANGED <<landedPRs, granted, follows, gateMoves, dryRun>>

-----------------------------------------------------------------------------
(* The gate.                                                                   *)

\* An approval is revoked, a proof is sent in again, and decided on.
GateMoves(m, to) ==
  /\ gateMoves < MaxGateMoves /\ gateMoves' = gateMoves + 1
  /\ <<follows[m], to>> \in {<<"approved", "revoked">>, <<"approved", "pending">>, <<"revoked", "pending">>,
                             <<"pending", "approved">>, <<"pending", "rejected">>, <<"rejected", "pending">>}
  /\ follows' = [follows EXCEPT ![m] = to]
  /\ dryRun' = [d \in DryRunOf |->
       IF to = "approved" THEN [dryRun[d] EXCEPT !.approvedOnce = @ \cup {m}]
       ELSE [dryRun[d] EXCEPT !.approvedAlways = @ \ {m}]]
  /\ UNCHANGED <<landedPRs, granted, granting>>

-----------------------------------------------------------------------------
(* The settlement.                                                             *)

SharesOf(m) ==
  BaseShares[m] + MergedShare * Cardinality({s \in granted : s[1] = m /\ s[2] = "merged_pr"})
                + ReferredShare * Cardinality({s \in granted : s[1] = m /\ s[2] = "referral_merged_pr"})

\* loadLines reads every member's shares in one query.
LoadMembers(d) ==
  LET approved == {m \in Member : follows[m] = "approved"} IN
  /\ dryRun[d].pc = "idle"
  /\ dryRun' = [dryRun EXCEPT ![d] =
       [NotRun EXCEPT !.pc = "lines", !.shares = [m \in Member |-> SharesOf(m)], !.unchecked = Member,
                      !.approvedOnce = approved, !.approvedAlways = approved]]
  /\ UNCHANGED <<landedPRs, granted, granting, follows, gateMoves>>

SubmittedForFoundingPool(m) == follows[m] \in {"approved", "revoked"} \* mutant

\* The command's configuration names the pool alone, so the gate is on.
approvedForFoundingPool(m) == follows[m] = "approved"

\* Then the gate, a member at a time, in the order of their ids.
Eligible(d, m) ==
  /\ dryRun[d].pc = "lines" /\ m \in dryRun[d].unchecked /\ \A n \in dryRun[d].unchecked : m <= n
  /\ dryRun' = [dryRun EXCEPT ![d].unchecked = @ \ {m},
                              ![d].eligible = IF approvedForFoundingPool(m) THEN @ \cup {m} ELSE @]
  /\ UNCHANGED <<landedPRs, granted, granting, follows, gateMoves>>

\* Whoever is not eligible weighs nothing, in the divisor as well.
EffectiveWeight(r) == [m \in Member |-> IF m \in r.eligible THEN r.shares[m] * WaveMultiplier[m] ELSE 0]

\* Nothing to settle where nobody eligible earned anything.
DryRunDone(d) ==
  LET w == EffectiveWeight(dryRun[d]) IN
  /\ dryRun[d].pc = "lines" /\ dryRun[d].unchecked = {}
  /\ dryRun' = [dryRun EXCEPT ![d] = IF SumFunction(w) = 0 THEN NotRun
                                     ELSE [@ EXCEPT !.pc = "done", !.amount = Apportion(w, FoundingMinor)]]
  /\ UNCHANGED <<landedPRs, granted, granting, follows, gateMoves>>

FoundingSettlementNext ==
  \/ \E v \in Accepted : MergeMirrored(v)
  \/ \E g \in GrantRun : \/ GrantMergedPRShares(g) \/ GrantsDone(g) \/ GrantDies(g)
                         \/ \E fails \in BOOLEAN : GrantReferrer(g, fails) \/ \E v \in Accepted : OnMergedPR(g, v, fails)
  \/ \E m \in Member, to \in {"approved", "rejected", "revoked", "pending"} : GateMoves(m, to)
  \/ \E d \in DryRunOf : LoadMembers(d) \/ DryRunDone(d) \/ \E m \in Member : Eligible(d, m)

FoundingSettlementSpec == FoundingSettlementInit /\ [][FoundingSettlementNext]_foundingSettlementVars

-----------------------------------------------------------------------------
\* What a dry run allocates is the whole pool; nobody is paid who was not approved at some
\* moment of it, and whoever was approved throughout is within a unit of the exact share
\* (settlement.go: DryRun, loadLines).
FoundingAddsUp ==
  \A d \in DryRunOf : dryRun[d].pc = "done" =>
    LET r == dryRun[d]  w == EffectiveWeight(r)  total == SumFunction(w)
    IN  /\ SumFunction(r.amount) = FoundingMinor
        /\ \A m \in Member : r.amount[m] > 0 => m \in r.approvedOnce
        /\ \A m \in r.approvedAlways :
             /\ total * r.amount[m] < FoundingMinor * r.shares[m] * WaveMultiplier[m] + total
             /\ total * r.amount[m] + total > FoundingMinor * r.shares[m] * WaveMultiplier[m]

\* A run of the grant that met no failure leaves nobody without the shares of a pull request
\* that was merged when it began, the referrer included (events.go: GrantMergedPRShares).
GrantsReachAll ==
  \A g \in GrantRun : granting[g].pc = "done" /\ granting[g].whole =>
    \A v \in granting[g].loaded : {AuthorShare(v)} \cup ReferrerShare(v) \subseteq granted
==============================================================================
