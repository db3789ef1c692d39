-------------------------------- MODULE Claims --------------------------------
(* From a built tree to money in a wallet: the escrow a person publishes to and *)
(* we record, the claims an account is shown through every address it ever      *)
(* registered, the claims we pay the gas of, and the reminders before and after *)
(* the claim deadline (cmd/payout, handlers/payout_claims.go,                   *)
(* handlers/payout_sponsor.go, sponsor/guard.go, claim_deadline_notifier.go).   *)
EXTENDS Naturals, Sequences, FiniteSets, SequencesExt

CONSTANTS
  Claimant,          \* accounts with a leaf in the tree
  PayAddress,        \* payout addresses on the chain
  FirstAddress,      \* FirstAddress[u]: what u had registered when the tree was built
  EscrowAddress,     \* addresses an escrow may exist at
  SponsorRequest,    \* requests for sponsorship served at the same moment
  SponsorshipCap,    \* MaxSponsorshipsPerHour
  SponsorFunds, HardFloor,  \* balance and floor of the sponsor, in claims' gas
  Notifier,          \* processes that run the notifier
  Schedule,          \* Schedule[m]: days left at which milestone m falls due
  Deadlines,         \* the claim deadline at first and each time it is extended
  LastDay,           \* bound on the days
  MaxRegistrations, MaxLost,  \* bounds on each account's new addresses, and on records that are lost
  NoEscrow

ASSUME ClaimsAssumption ==
  /\ FirstAddress \in [Claimant -> PayAddress] /\ \A u, v \in Claimant : u # v => FirstAddress[u] # FirstAddress[v]
  /\ NoEscrow \notin EscrowAddress /\ {SponsorFunds, HardFloor, LastDay, MaxRegistrations, MaxLost} \subseteq Nat
  /\ SponsorshipCap \in Nat \ {0} /\ IsFiniteSet(SponsorRequest) /\ IsFiniteSet(Notifier)

VARIABLES
  addressRows,     \* contributor_addresses of each account; the last is live, the others superseded
  escrowRoot,      \* what the escrow at each address holds
  publishing,      \* escrows a publish command has verified and not recorded
  publishedEscrow, \* payout_event_roots.escrow_address once published_tx is set
  collected,       \* leaves claimed on chain
  underway,        \* sponsored transactions the chain has not executed
  sponsorFunds,    \* the sponsor's balance
  sponsorship,     \* the requests under way
  submitted,       \* sponsored submissions of each account
  sponsoredClaims, \* sponsored_claims of each account with outcome submitted
  lostRecords,     \* submissions that were never recorded
  today, deadlineNo, escrowHolds, claimedLate,
  told,            \* reminders delivered to one person, by milestone and deadline
  reminded,        \* claim_deadline_reminders
  lostReminders,   \* reminders delivered and not recorded
  notifier         \* the leaf each notifier is considering

payingVars == <<addressRows, escrowRoot, publishing, publishedEscrow, collected, underway, sponsorFunds,
                sponsorship, submitted, sponsoredClaims, lostRecords>>
reminderVars == <<today, deadlineNo, escrowHolds, claimedLate, told, reminded, lostReminders, notifier>>
claimsVars == <<payingVars, reminderVars>>

Milestone == DOMAIN Schedule \cup {"passed"}
Reminder == {<<m, d>> : m \in Milestone, d \in 1..Len(Deadlines)}
NoSponsorship == [pc |-> "idle", user |-> "none"]
NotConsidering == [pc |-> "idle", rows |-> 0, deadline |-> 0, milestone |-> "none"]

ClaimsInit ==
  /\ addressRows = [u \in Claimant |-> <<FirstAddress[u]>>] /\ escrowRoot = [e \in EscrowAddress |-> "none"]
  /\ publishing = {} /\ publishedEscrow = NoEscrow /\ collected = {} /\ underway = [u \in Claimant |-> 0]
  /\ sponsorFunds = SponsorFunds /\ sponsorship = [q \in SponsorRequest |-> NoSponsorship]
  /\ submitted = [u \in Claimant |-> 0] /\ sponsoredClaims = [u \in Claimant |-> 0] /\ lostRecords = 0
  /\ today = 0 /\ deadlineNo = 1 /\ escrowHolds \in {"all", "too little"} /\ claimedLate = FALSE
  /\ told = [c \in Reminder |-> 0] /\ reminded = {} /\ lostReminders = 0
  /\ notifier = [n \in Notifier |-> NotConsidering]

-----------------------------------------------------------------------------
(* Addresses, and the escrow that is published.                                *)

RemindersStand == UNCHANGED reminderVars
SponsorStands == UNCHANGED <<collected, underway, sponsorFunds, sponsorship, submitted, sponsoredClaims, lostRecords>>

\* A new live address supersedes the old one; nobody's live address is taken.
PostNewAddress(u, a) ==
  /\ \A v \in Claimant : Last(addressRows[v]) # a
  /\ \A v \in Claimant : Len(addressRows[v]) <= MaxRegistrations
  /\ addressRows' = [addressRows EXCEPT ![u] = Append(@, a)]
  /\ UNCHANGED <<escrowRoot, publishing, publishedEscrow>> /\ SponsorStands /\ RemindersStand

\* On chain, with the Aptos CLI; anybody may initialise an escrow.
PublishRoot(e, root) ==
  /\ escrowRoot[e] = "none" /\ root \in {"ours", "another"} /\ escrowRoot' = [escrowRoot EXCEPT ![e] = root]
  /\ UNCHANGED <<addressRows, publishing, publishedEscrow>> /\ SponsorStands /\ RemindersStand

\* The escrow somebody typed must hold the root of the tree.
cmdPublish(e) ==
  /\ escrowRoot[e] = "ours" /\ e \notin publishing /\ publishing' = publishing \cup {e}
  /\ UNCHANGED <<addressRows, escrowRoot, publishedEscrow>> /\ SponsorStands /\ RemindersStand

\* The first recorded publication stays.
RecordPublication(e) ==
  /\ e \in publishing /\ publishing' = publishing \ {e}
  /\ publishedEscrow' = IF publishedEscrow = NoEscrow THEN e ELSE publishedEscrow
  /\ UNCHANGED <<addressRows, escrowRoot>> /\ SponsorStands /\ RemindersStand

\* One entry per row of an address, live or superseded, and leaf that pays it.
claimsFor(u) ==
  {cl \in (DOMAIN addressRows[u]) \X Claimant :
     publishedEscrow # NoEscrow /\ addressRows[u][cl[1]] = FirstAddress[cl[2]]}

-----------------------------------------------------------------------------
(* Sponsored claims.                                                           *)

PublicationStands == UNCHANGED <<addressRows, escrowRoot, publishing, publishedEscrow>>
SponsorshipGoes(q, pc) == sponsorship' = [sponsorship EXCEPT ![q].pc = pc]
SponsorshipEnds(q) == sponsorship' = [sponsorship EXCEPT ![q] = NoSponsorship]

\* Exactly one claim is the account's, and neither the claim state nor the simulation,
\* each of them if it answers, shows it was taken.
PostSponsorClaim(q, u, read) ==
  /\ sponsorship[q].pc = "idle" /\ Cardinality(claimsFor(u)) = 1
  /\ read => \A cl \in claimsFor(u) : cl[2] \notin collected
  /\ sponsorship' = [sponsorship EXCEPT ![q] = [pc |-> "rate", user |-> u]]
  /\ UNCHANGED <<collected, underway, sponsorFunds, submitted, sponsoredClaims, lostRecords>>
  /\ PublicationStands /\ RemindersStand

CheckNoRate(q) == \* mutant
  /\ sponsorship[q].pc = "rate" /\ SponsorshipGoes(q, "balance")
  /\ UNCHANGED <<collected, underway, sponsorFunds, submitted, sponsoredClaims, lostRecords>>
  /\ PublicationStands /\ RemindersStand

\* The recorded submissions of the last hour.
CheckRate(q) ==
  /\ sponsorship[q].pc = "rate"
  /\ IF sponsoredClaims[sponsorship[q].user] >= SponsorshipCap THEN SponsorshipEnds(q)
     ELSE SponsorshipGoes(q, "balance")
  /\ UNCHANGED <<collected, underway, sponsorFunds, submitted, sponsoredClaims, lostRecords>>
  /\ PublicationStands /\ RemindersStand

\* A balance that cannot be read refuses, as one too near the floor does.
CheckBalance(q, read) ==
  /\ sponsorship[q].pc = "balance"
  /\ IF ~read \/ sponsorFunds < HardFloor + 1 THEN SponsorshipEnds(q) ELSE SponsorshipGoes(q, "submit")
  /\ UNCHANGED <<collected, underway, sponsorFunds, submitted, sponsoredClaims, lostRecords>>
  /\ PublicationStands /\ RemindersStand

SubmitSponsored(q) ==
  /\ sponsorship[q].pc = "submit" /\ SponsorshipGoes(q, "record")
  /\ LET u == sponsorship[q].user IN
     underway' = [underway EXCEPT ![u] = @ + 1] /\ submitted' = [submitted EXCEPT ![u] = @ + 1]
  /\ UNCHANGED <<collected, sponsorFunds, sponsoredClaims, lostRecords>> /\ PublicationStands /\ RemindersStand

\* The insert's error is ignored.
RecordSponsorship(q, stored) ==
  /\ sponsorship[q].pc = "record" /\ SponsorshipEnds(q)
  /\ IF stored THEN /\ sponsoredClaims' = [sponsoredClaims EXCEPT ![sponsorship[q].user] = @ + 1]
                    /\ UNCHANGED lostRecords
     ELSE lostRecords < MaxLost /\ lostRecords' = lostRecords + 1 /\ UNCHANGED sponsoredClaims
  /\ UNCHANGED <<collected, underway, sponsorFunds, submitted>> /\ PublicationStands /\ RemindersStand

\* The signature is refused, the node refuses, or the request dies.
SponsorshipFails(q) ==
  /\ sponsorship[q].pc \in {"rate", "balance", "submit"} /\ SponsorshipEnds(q)
  /\ UNCHANGED <<collected, underway, sponsorFunds, submitted, sponsoredClaims, lostRecords>>
  /\ PublicationStands /\ RemindersStand

\* The chain executes it; a claim that was taken aborts and costs its gas all the same.
ChainExecutes(u) ==
  /\ underway[u] > 0 /\ sponsorFunds > 0
  /\ underway' = [underway EXCEPT ![u] = @ - 1] /\ sponsorFunds' = sponsorFunds - 1
  /\ \E cl \in claimsFor(u) : collected' = collected \cup {cl[2]}
  /\ UNCHANGED <<sponsorship, submitted, sponsoredClaims, lostRecords>> /\ PublicationStands /\ RemindersStand

\* Whoever holds the key can pay for the gas without us.
ClaimAlone(u) ==
  /\ claimsFor(u) # {} /\ \E cl \in claimsFor(u) : cl[2] \notin collected /\ collected' = collected \cup {cl[2]}
  /\ UNCHANGED <<underway, sponsorFunds, sponsorship, submitted, sponsoredClaims, lostRecords>>
  /\ PublicationStands /\ RemindersStand

PayingNext ==
  \/ \E e \in EscrowAddress : \/ \E root \in {"ours", "another"} : PublishRoot(e, root)
                              \/ cmdPublish(e) \/ RecordPublication(e)
  \/ \E u \in Claimant : \/ \E a \in PayAddress : PostNewAddress(u, a)
                         \/ ChainExecutes(u) \/ ClaimAlone(u)
                         \/ \E q \in SponsorRequest, read \in BOOLEAN : PostSponsorClaim(q, u, read)
  \/ \E q \in SponsorRequest :
       \/ CheckRate(q) \/ SubmitSponsored(q) \/ SponsorshipFails(q)
       \/ \E ok \in BOOLEAN : CheckBalance(q, ok) \/ RecordSponsorship(q, ok)

-----------------------------------------------------------------------------
(* Reminders, for one leaf.                                                    *)

PayingStands == UNCHANGED payingVars
EscrowStands == UNCHANGED <<today, deadlineNo, escrowHolds, claimedLate>>

DayPasses ==
  /\ today < LastDay /\ today' = today + 1
  /\ UNCHANGED <<deadlineNo, escrowHolds, claimedLate, told, reminded, lostReminders, notifier>> /\ PayingStands

\* extend_deadline, on chain.
ExtendDeadline ==
  /\ deadlineNo < Len(Deadlines) /\ deadlineNo' = deadlineNo + 1
  /\ UNCHANGED <<today, escrowHolds, claimedLate, told, reminded, lostReminders, notifier>> /\ PayingStands

\* The person claims, or the admin sweeps what was left after the deadline.
LeafIsClaimed ==
  /\ ~claimedLate /\ escrowHolds # "nothing" /\ claimedLate' = TRUE
  /\ UNCHANGED <<today, deadlineNo, escrowHolds, told, reminded, lostReminders, notifier>> /\ PayingStands

Sweep ==
  /\ today >= Deadlines[deadlineNo] /\ escrowHolds # "nothing" /\ escrowHolds' = "nothing"
  /\ UNCHANGED <<today, deadlineNo, claimedLate, told, reminded, lostReminders, notifier>> /\ PayingStands

\* Hourly and at startup. An address registered twice lists its leaf twice.
sendOnce(n) ==
  /\ notifier[n].pc = "idle"
  /\ \E rows \in 1..2 : notifier' = [notifier EXCEPT ![n] = [NotConsidering EXCEPT !.pc = "leaf", !.rows = rows]]
  /\ UNCHANGED <<told, reminded, lostReminders>> /\ EscrowStands /\ PayingStands

\* The most urgent milestone in its window.
milestoneFor(deadline) ==
  IF today >= Deadlines[deadline] THEN "passed"
  ELSE LET due == {m \in DOMAIN Schedule : Schedule[m] >= Deadlines[deadline] - today} IN
       IF due = {} THEN "none" ELSE CHOOSE m \in due : \A k \in due : Schedule[m] <= Schedule[k]

NextRow(n) ==
  notifier' = [notifier EXCEPT ![n] =
    IF @.rows = 1 THEN NotConsidering ELSE [@ EXCEPT !.pc = "leaf", !.rows = 1, !.milestone = "none"]]

ConsiderAgain(n, read) == \* mutant
  /\ notifier[n].pc = "leaf"
  /\ LET d == IF notifier[n].deadline = 0 THEN deadlineNo ELSE notifier[n].deadline  m == milestoneFor(d) IN
     IF ~read \/ m = "none" THEN NextRow(n)
     ELSE notifier' = [notifier EXCEPT ![n].pc = "ask", ![n].deadline = d, ![n].milestone = m]
  /\ UNCHANGED <<told, reminded, lostReminders>> /\ EscrowStands /\ PayingStands

\* The deadline is the chain's, read once for all the leaves of an escrow; a read that
\* fails, no milestone, or one recorded for this deadline sends nothing.
considerOne(n, read) ==
  /\ notifier[n].pc = "leaf"
  /\ LET d == IF notifier[n].deadline = 0 THEN deadlineNo ELSE notifier[n].deadline  m == milestoneFor(d) IN
     IF ~read \/ m = "none" \/ <<m, d>> \in reminded THEN NextRow(n)
     ELSE notifier' = [notifier EXCEPT ![n].pc = "ask", ![n].deadline = d, ![n].milestone = m]
  /\ UNCHANGED <<told, reminded, lostReminders>> /\ EscrowStands /\ PayingStands

\* Nobody is reminded of money they took or, after the deadline, that is not there.
AskTheChain(n, read) ==
  /\ notifier[n].pc = "ask"
  /\ IF ~read \/ claimedLate \/ (notifier[n].milestone = "passed" /\ escrowHolds # "all") THEN NextRow(n)
     ELSE notifier' = [notifier EXCEPT ![n].pc = "tell"]
  /\ UNCHANGED <<told, reminded, lostReminders>> /\ EscrowStands /\ PayingStands

\* A delivery that fails is tried again at the next tick.
NotifyInApp(n, delivered) ==
  /\ notifier[n].pc = "tell"
  /\ IF ~delivered THEN NextRow(n) /\ UNCHANGED told
     ELSE /\ notifier' = [notifier EXCEPT ![n].pc = "record"]
          /\ told' = [told EXCEPT ![<<notifier[n].milestone, notifier[n].deadline>>] = @ + 1]
  /\ UNCHANGED <<reminded, lostReminders>> /\ EscrowStands /\ PayingStands

recordSent(n) ==
  /\ notifier[n].pc = "record" /\ NextRow(n)
  /\ reminded' = reminded \cup {<<notifier[n].milestone, notifier[n].deadline>>}
  /\ UNCHANGED <<told, lostReminders>> /\ EscrowStands /\ PayingStands

\* The insert fails or the process dies with a reminder delivered and not recorded.
RecordIsLost(n) ==
  /\ notifier[n].pc = "record" /\ lostReminders < MaxLost /\ lostReminders' = lostReminders + 1
  /\ NextRow(n) \/ notifier' = [notifier EXCEPT ![n] = NotConsidering]
  /\ UNCHANGED <<told, reminded>> /\ EscrowStands /\ PayingStands

RemindersNext ==
  \/ DayPasses \/ ExtendDeadline \/ LeafIsClaimed \/ Sweep
  \/ \E n \in Notifier : \/ sendOnce(n) \/ recordSent(n) \/ RecordIsLost(n)
                         \/ \E ok \in BOOLEAN : considerOne(n, ok) \/ AskTheChain(n, ok) \/ NotifyInApp(n, ok)

ClaimsSpec == ClaimsInit /\ [][PayingNext \/ RemindersNext]_claimsVars

-----------------------------------------------------------------------------
\* What an account can spend of ours in an hour: the cap, once more for each other
\* request that had been counted when the last record was written, and whatever was
\* submitted and never recorded.
SponsorBounded ==
  \A u \in Claimant : submitted[u] + 1 <= SponsorshipCap + Cardinality(SponsorRequest) + lostRecords

\* A person is told of a milestone once for each deadline, however often the notifier
\* runs and however often their address is listed: more only by a process that was
\* deciding at the same moment, or after a record that was lost.
RemindedOnce ==
  \A c \in Reminder : told[c] <= Cardinality(Notifier) + lostReminders
=============================================================================
