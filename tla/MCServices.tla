------------------------------ MODULE MCServices ------------------------------
(* The services beside the payout itself, for TLC. They share no state here: a   *)
(* behaviour moves one of them and leaves the others where they began.           *)
EXTENDS FoundingPool, VerdictPipeline, PrizeDivision, MaintainerPool, SignIn, Claims, RepositoryMirror,
        SupportRequests, Retention, MerkleTree, SchemaStart, Leaderboard, EventSettings, EventSalt,
        FoundingSettlement, BountyRelay

MCBoundaries == {[founding |-> 1, two |-> 1], [founding |-> 2, two |-> 1]}
MCFile ==
  {[kind |-> "lockfile", added |-> 2, blank |-> 0], [kind |-> "doc", added |-> 2, blank |-> 0],
   [kind |-> "code", added |-> 1, blank |-> 1], [kind |-> "code", added |-> 2, blank |-> 1]}
MCDiff == {files \in SUBSET MCFile : files # {} /\ \A f \in files : f.added = 2 /\ f.kind # "lockfile"}
MCCurve == <<10, 8, 6>>
MCUnits == {[exceptional |-> 5, substantial |-> 3, accepted |-> 1, rejected |-> r] : r \in {0, 1}}
MCRated == [r \in {"m1"} |-> "A"]
MCMark == [p \in {"A", "B"} |-> 50]
MCWeight == [newcomers |-> 40, predates |-> 20, clarity |-> 20]
MCFirst == [u \in {"u1", "u2"} |-> IF u = "u1" THEN "a1" ELSE "a2"]
MCSchedule == [t7 |-> 2, t3 |-> 1]
MCDeadlines == <<2, 4>>
MCListings ==
  {<<1>>, <<2, 1>>, <<1, 2>>, <<3, 1, 2>>, <<1, 2, 3>>, <<1, 2, 3, 3>>, <<2, 4, 1, 3>>, <<5, 2, 4, 1, 3>>, <<1, 2, 3, 4, 5>>}
MCSays ==
  [r \in {"r1", "r2"} |->
     {s \in [category : {"kyc", "bug"}, anonymous : BOOLEAN, shot : BOOLEAN] :
        r = "r2" => s.category = "bug" /\ s.anonymous /\ ~s.shot}]
MCAuthorKey == [r \in {"p1", "p2", "p3"} |-> IF r = "p1" THEN 1 ELSE IF r = "p2" THEN 2 ELSE 3]
MCHome == [r \in {"p1", "p2", "p3"} |-> IF r = "p2" THEN "h2" ELSE "h1"]
MCOrgKey == [h \in {"h1", "h2"} |-> IF h = "h1" THEN 1 ELSE 2]
MCScopes == {[kind |-> "people", window |-> "season"], [kind |-> "orgs", window |-> "all"]}
MCMultiplier == [m \in 1..3 |-> IF m = 1 THEN 15 ELSE IF m = 2 THEN 12 ELSE 10]
MCBase == [m \in 1..3 |-> IF m = 2 THEN 0 ELSE 1]
MCAuthorOf == [v \in {"v1"} |-> 2]
MCReferredBy == [m \in {2} |-> 3]
MCRecipient == [e \in {"e1", "e2"} |-> "g1"]
MCBuild == [i \in {"s1", "s2"} |-> IF i = "s1" THEN 1 ELSE 2]

VARIABLE part    \* the service that moves

Parts == {"founding", "verdict", "division", "maintainer", "nonces", "callbacks", "paying", "reminders", "mirror", "project", "support", "resets", "payouts", "tree", "starts", "boards", "settings", "salts", "members", "relay", "wallets", "reports"}
All == <<foundingVars, verdictVars, divisionVars, maintainerVars, signInVars, claimsVars, repositoryVars,
         supportVars, retentionVars, merkleVars, startVars, boardVars, settingsVars, saltVars, foundingSettlementVars, bountyVars, part>>

\* The services that do not move start in one of their initial states.
Moves(p, inputs) == part = p \/ inputs

ServicesInit ==
  /\ part \in Parts
  /\ FoundingInit /\ Moves("founding", config = CHOOSE b \in Boundaries : TRUE)
  /\ VerdictInit /\ Moves("verdict", diff = (CHOOSE d \in Diff : TRUE) /\ ~docsIssue /\ ~ciRequired /\ ~injected /\ ~truncated)
  /\ Moves("division", /\ author = [v \in Judged |-> CHOOSE l \in AuthorLogin : TRUE] /\ bucket = [v \in Judged |-> "rejected"]
                       /\ merged = [v \in Judged |-> 0] /\ prizePool = (CHOOSE n \in PoolSizes : TRUE)
                       /\ payoutFloor = (CHOOSE n \in FloorSizes : TRUE) /\ curveOn = FALSE
                       /\ bucketUnits = (CHOOSE u \in UnitSettings : TRUE))
  /\ DivisionInit
  /\ MaintainerInit /\ predates = (IF announced THEN {"A"} ELSE {}) /\ Moves("maintainer", announced)
  /\ SignInInit
  /\ ClaimsInit /\ Moves("reminders", escrowHolds = "all")
  /\ RepositoryInit /\ Moves("project", maintains = {})
  /\ SupportInit /\ Moves("support", \A k \in DOMAIN supportSetup : supportSetup[k])
  /\ RetentionInit /\ Moves("resets", atDidit = {} /\ \A k \in ResetRecord : resetRecord[k] = NoReset)
  /\ Moves("tree", listing = <<1>>) /\ TreeInit
  /\ StartInit /\ BoardInit /\ SettingsInit /\ SaltInit
  /\ FoundingSettlementInit /\ Moves("members", landedPRs = {})
  /\ BountyInit /\ (part \in {"relay", "wallets", "reports"} \/ (~verifiedRepo /\ \A u \in BountyUser : gitHubOf[u] = Unlinked))

\* Every service but one stays as it is.
OthersRest(moving) ==
  /\ IF moving = "founding" THEN TRUE ELSE UNCHANGED foundingVars
  /\ IF moving = "verdict" THEN TRUE ELSE UNCHANGED verdictVars
  /\ IF moving = "division" THEN TRUE ELSE UNCHANGED divisionVars
  /\ IF moving = "maintainer" THEN TRUE ELSE UNCHANGED maintainerVars
  /\ IF moving = "sign-in" THEN TRUE ELSE UNCHANGED signInVars
  /\ IF moving = "claims" THEN TRUE ELSE UNCHANGED claimsVars
  /\ IF moving = "repository" THEN TRUE ELSE UNCHANGED repositoryVars
  /\ IF moving = "support" THEN TRUE ELSE UNCHANGED supportVars
  /\ IF moving = "retention" THEN TRUE ELSE UNCHANGED retentionVars
  /\ IF moving = "tree" THEN TRUE ELSE UNCHANGED merkleVars
  /\ IF moving = "starts" THEN TRUE ELSE UNCHANGED startVars
  /\ IF moving = "boards" THEN TRUE ELSE UNCHANGED boardVars
  /\ IF moving = "settings" THEN TRUE ELSE UNCHANGED settingsVars
  /\ IF moving = "salts" THEN TRUE ELSE UNCHANGED saltVars
  /\ IF moving = "members" THEN TRUE ELSE UNCHANGED foundingSettlementVars
  /\ IF moving = "bounties" THEN TRUE ELSE UNCHANGED bountyVars

ServicesNext ==
  /\ UNCHANGED part
  /\ \/ part = "founding" /\ FoundingNext /\ OthersRest("founding")
     \/ part = "verdict" /\ VerdictNext /\ OthersRest("verdict")
     \/ part = "division" /\ DivisionNext /\ OthersRest("division")
     \/ part = "maintainer" /\ MaintainerNext /\ OthersRest("maintainer")
     \/ part = "nonces" /\ NonceNext /\ OthersRest("sign-in")
     \/ part = "callbacks" /\ GitHubNext /\ OthersRest("sign-in")
     \/ part = "paying" /\ PayingNext /\ OthersRest("claims")
     \/ part = "reminders" /\ RemindersNext /\ OthersRest("claims")
     \/ part = "mirror" /\ MirrorNext /\ OthersRest("repository")
     \/ part = "project" /\ ProjectNext /\ OthersRest("repository")
     \/ part = "support" /\ SupportNext /\ OthersRest("support")
     \/ part = "resets" /\ ResetRecordsNext /\ OthersRest("retention")
     \/ part = "payouts" /\ PayoutRecordsNext /\ OthersRest("retention")
     \/ part = "tree" /\ TreeNext /\ OthersRest("tree")
     \/ part = "starts" /\ StartNext /\ OthersRest("starts")
     \/ part = "boards" /\ BoardNext /\ OthersRest("boards")
     \/ part = "settings" /\ SettingsNext /\ OthersRest("settings")
     \/ part = "salts" /\ SaltNext /\ OthersRest("salts")
     \/ part = "members" /\ FoundingSettlementNext /\ OthersRest("members")
     \/ part = "relay" /\ RelayNext /\ OthersRest("bounties")
     \/ part = "wallets" /\ WalletsNext /\ OthersRest("bounties")
     \/ part = "reports" /\ ReportsNext /\ OthersRest("bounties")

ServicesSpec == ServicesInit /\ [][ServicesNext]_All

\* The rest of the state is the same in every state of a part.
Moving ==
  <<part, CASE part = "founding" -> foundingVars [] part = "verdict" -> verdictVars [] part = "division" -> divisionVars
            [] part = "maintainer" -> maintainerVars [] part \in {"nonces", "callbacks"} -> signInVars
            [] part \in {"paying", "reminders"} -> claimsVars [] part \in {"mirror", "project"} -> repositoryVars
            [] part = "support" -> supportVars [] part \in {"resets", "payouts"} -> retentionVars
            [] part = "tree" -> merkleVars [] part = "starts" -> startVars
            [] part = "boards" -> boardVars [] part = "settings" -> settingsVars [] part = "salts" -> saltVars
            [] part = "members" -> foundingSettlementVars [] part \in {"relay", "wallets", "reports"} -> bountyVars>>

\* No cap gives way to requests that run together: of the approvals, of what referrals
\* earn, and of the claims a person has sponsored (beyond the requests in flight).
CapsHold == ApprovalsCapped /\ ReferralsCapped /\ SponsorBounded

\* What is erased stays erased and what is kept stays usable: no session at Didit is left
\* without a record that names it, the payout records of an account go together or not yet,
\* and a settlement has its one salt or a tombstone (retention.go, salt/salt.go).
RetentionSound == SessionsNamed /\ RecordsGoTogether /\ SaltsStand

\* OnlyLeavesProve, where the tree is what moves: a claim verifies against the published
\* root exactly when it is one of the leaves (chain/merkle.go, payout/serve.go).
ClaimsProve == part = "tree" => OnlyLeavesProve
\* Who is approved and verified gets a seat, of the wave that was announced,
\* and the shares of what was merged (founding/events.go, waves.go).
SeatsSound == NobodyStranded /\ WavesAsAnnounced /\ GrantsReachAll

\* What pays people adds up to what there is to divide: a judged pool, what a sponsor
\* gave an event, and the founding members' pool (hackathon/judging_payout.go,
\* platform_fee.go, founding/settlement.go).
DivisionsAddUp == PlanFitsPool /\ UnitlessChangeNothing /\ SplitAddsUp /\ FoundingAddsUp

\* A signed nonce buys one thing and a deadline is announced once, whoever asks again
\* (auth/payout_nonce.go, handlers/claim_deadline_notifier.go).
DoneOnce == SpentOnce /\ RemindedOnce

\* What the records say happened, happened: a report was seen where its stamps say, and a
\* value in force was audited when it was set (handlers/support_requests.go, hackathon/config.go).
RecordsHonest == DeliveredAsStamped /\ SettingsAudited

\* The boards visitors are shown move forward, stay few, and agree with the badges where
\* both are read from the same data (ranking/ranking.go, handlers/leaderboard.go).
BoardsHonest == part = "boards" => BoardsAdvance /\ BoardsBounded /\ BadgeAgrees
\* The bounty agent acts for administrators where it thinks so, links the wallets their
\* holders asked to link, and reports nothing in vain (handlers/bounty_draw.go,
\* bounty_wallet.go, bounty_events.go).
RelayedFaithfully == part \in {"relay", "wallets", "reports"} => ActedForAdmins /\ LinkedAsAsked /\ ReportsAnswered
=============================================================================
