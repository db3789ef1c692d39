\* The services beside the payout, one of them moving at a time.
SPECIFICATION ServicesSpec
CONSTANTS
  Contributor = {c1, c2, c3}
  Referrer = c1
  Early = {c1, c2}
  Submitted = {c1, c2, c3}
  Task = {t1, t2}
  Boundaries <- MCBoundaries
  ApprovalCap = 2
  ReferralShare = 2
  ReferralCap = 3
  MaxFoundingMoves = 3
  MaxLostTasks = 1
  Unset = Unset
  File <- MCFile
  Diff <- MCDiff
  MinMeaningful = 2
  Judging = {"v1", "v2"}
  NoRun = NoRun
  MaxReviews = 2
  Judged = {1, 2, 3}
  AuthorLogin = {"a", "b"}
  PoolSizes = {10, 101}
  FloorSizes = {0, 7}
  Curve <- MCCurve
  UnitSettings <- MCUnits
  Repository = {"A", "B"}
  Rating = {"m1"}
  StarsGiven = {5}
  RatedRepository <- MCRated
  NewcomerMark <- MCMark
  MaintainerBudget = 101
  Weight <- MCWeight
  MinRatings = 1
  HoldbackPct = 30
  PartialPct = 50
  Transition = {"s1", "s2"}
  Release = {"k1", "k2"}
  MaxChecks = 3
  User = {u1, u2, u3}
  Settler = {u1, u2}
  Wallet = {w1, w2}
  Nonce = {1, 2}
  Identity = {g1, g2}
  OAuthState = {s1, s2}
  Referrable = {s1, s2}
  Caller = {k1, k2}
  Nil = Nil
  Claimant = {"u1", "u2"}
  PayAddress = {"a1", "a2", "a3"}
  FirstAddress <- MCFirst
  EscrowAddress = {"e1"}
  SponsorRequest = {"q1", "q2"}
  SponsorshipCap = 1
  SponsorFunds = 3
  HardFloor = 1
  Notifier = {"n1"}
  Schedule <- MCSchedule
  Deadlines <- MCDeadlines
  LastDay = 4
  MaxRegistrations = 1
  MaxLost = 1
  NoEscrow = NoEscrow
  Ingestor = {"i1", "i2"}
  MaxChanges = 3
  Account = {"u1", "u2"}
  Installation = {"in1"}
  Installer = {"k1"}
  MaxGrants = 2
  Nobody = Nobody
  Report = {"r1", "r2"}
  Says <- MCSays
  AnonymousCap = 1
  Person = {"p1", "p2"}
  DiditSession = {"d1", "d2"}
  ResetRecord = {1, 2}
  RetentionPass = {"x1", "x2"}
  RecordTable = {"keeperhub_payout_legs", "hackathon_appeals", "hackathon_verdicts", "grainhack_payment_reports", "grainhack_results_statement_lines", "grainhack_results_statements"}
  NoSession = NoSession
  Entitlement = {1, 2, 3, 4, 5, 6}
  Listings <- MCListings
  NoClaim = NoClaim
  Instance = {"s1", "s2"}
  BuildOf <- MCBuild
  ProductionIs = {"s1"}
  Endpoint = "pooled"
  MaxStarts = 3
  PullRequest = {"p1", "p2", "p3"}
  AuthorKey <- MCAuthorKey
  BotAuthored = {"p3"}
  HomeOf <- MCHome
  OrgKey <- MCOrgKey
  DotGithub = {}
  BoardScope <- MCScopes
  Visitor = {"v1", "v2"}
  SeasonTicks = 1
  Ttl = 1
  MaxStale = 2
  MaxScopes = 1
  LastTick = 2
  MaxQuery = 1
  MaxBoardChanges = 2
  RateValue = {5, 200}
  FactoryRate = 5
  MaintainerPct = 33
  SponsorTotals = {10005, 99}
  Editor = {"e1", "e2"}
  Recorder = {"m1"}
  MaxEdits = 2
  NoSetting = NoSetting
  SaltedTree = {"t1", "t2"}
  WrapKey = {"w1", "w2"}
  Hashing = {"h1"}
  Rotation = {"x1"}
  MaxSalts = 2
  NoSalt = NoSalt
  Member = {1, 2, 3}
  WaveMultiplier <- MCMultiplier
  BaseShares <- MCBase
  Accepted = {"v1"}
  AuthorOf <- MCAuthorOf
  ReferredBy <- MCReferredBy
  FoundingMinor = 100
  MergedShare = 5
  ReferredShare = 5
  GrantRun = {"g1"}
  DryRunOf = {"d1"}
  MaxGateMoves = 2
  BountyUser = {"u1", "u2"}
  BountyAdmin = {"u1"}
  GitHubId = {"g1", "g2"}
  SolanaWallet = {"w1"}
  RelayRequest = {"q1"}
  BountyEvent = {"e1", "e2"}
  UnknownKind = {"e2"}
  RecipientOf <- MCRecipient
  BountyTtl = 1
  MaxChallenges = 2
  MaxBountyMoves = 2
  LastBountyTick = 2
  Unlinked = Unlinked
INVARIANTS SeatsSound CapsHold ConfirmedByTwo DivisionsAddUp DoneOnce MirrorSettles RecordsHonest RetentionSound ClaimsProve StartsSound BoardsHonest RelayedFaithfully
PROPERTIES HumanBucketStands HoldbackDecidedOnce DestinationKept VerifiedOwnerProved NewcomersOnly
VIEW Moving
CHECK_DEADLOCK FALSE
