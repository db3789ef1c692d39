----------------------------- MODULE BountyRelay -----------------------------
(* What this service does for the bounty agent, another program: it says who is  *)
(* asking, in short messages it signs, of which each is for one channel and one  *)
(* use; and it tells people what the agent reports has happened to them, until   *)
(* it has an answer. The agent keeps the bounties, and is modelled from what the *)
(* handlers rely on (handlers/bounty_draw.go, bounty_funded.go, bounty_wallet.go,*)
(* bounty_events.go, auth/live_role.go, notifications/service.go).               *)
EXTENDS Naturals, FiniteSets

CONSTANTS
  BountyUser,      \* people signed in here
  BountyAdmin,     \* administrators at the start
  GitHubId,        \* GitHub accounts they may have linked
  SolanaWallet,
  RelayRequest,    \* requests in flight
  BountyEvent,     \* reports in the agent's queue
  UnknownKind,     \* reports of a kind this service does not know
  RecipientOf,     \* RecipientOf[e]: the GitHub account a report is about
  BountyTtl,       \* bountyLinkTTL, bountyActionTTL
  MaxChallenges, MaxBountyMoves, LastBountyTick,  \* bounds
  Unlinked

ASSUME BountyAssumption ==
  /\ BountyAdmin \subseteq BountyUser /\ UnknownKind \subseteq BountyEvent /\ RecipientOf \in [BountyEvent -> GitHubId]
  /\ {BountyTtl, MaxChallenges, MaxBountyMoves, LastBountyTick} \subseteq Nat /\ Unlinked \notin GitHubId

VARIABLES
  gitHubOf,     \* github_accounts: the account each person has linked
  bountyRole,   \* users.role: who is an administrator
  verifiedRepo, \* whether the repository is a verified project with the app installed
  bountyClock, bountyMoves,
  relayed,      \* the requests under way: route, person, and the message once signed
  challenges,   \* wallet challenges handed out: channel, account, wallet, when
  askedBy,      \* history: who asked for each, and what account they had linked then
  signedBy,     \* the challenges the holder of a wallet has signed
  agentAct,     \* the agent: what it did last, for whom it thinks, and history: for whom it was
  agentLinks,   \* the agent: the wallet of each account, and the challenges it has used
  agentRepo,    \* the agent: bounties on for the repository, and whether it is registered
  queue,        \* the agent's reports not yet answered
  receiving,    \* the report being received, one at a time, and its recipient
  heard,        \* history: what became of each report: told, unwanted, or nobody to tell
  failedOn      \* history: the reports over which a query failed

bountyVars == <<gitHubOf, bountyRole, verifiedRepo, bountyClock, bountyMoves, relayed, challenges, askedBy, signedBy,
                agentAct, agentLinks, agentRepo, queue, receiving, heard, failedOn>>
relayVars == <<relayed, agentAct, agentRepo>>
walletVars == <<challenges, askedBy, signedBy, agentLinks>>
eventVars == <<queue, receiving, heard, failedOn>>
worldVars == <<gitHubOf, bountyRole, verifiedRepo, bountyClock, bountyMoves>>

NotRelaying == [pc |-> "idle"]
NotReceiving == [pc |-> "idle"]

BountyInit ==
  /\ gitHubOf \in [BountyUser -> GitHubId \cup {Unlinked}]
  /\ \A u, v \in BountyUser : gitHubOf[u] = gitHubOf[v] /\ gitHubOf[u] # Unlinked => u = v
  /\ bountyRole = BountyAdmin /\ verifiedRepo \in BOOLEAN /\ bountyClock = 0 /\ bountyMoves = 0
  /\ relayed = [q \in RelayRequest |-> NotRelaying]
  /\ challenges = {} /\ askedBy = {} /\ signedBy = {}
  /\ agentAct = [channel |-> "none"] /\ agentLinks = [wallet |-> [g \in {} |-> 0], used |-> {}]
  /\ agentRepo = [on |-> FALSE, registered |-> FALSE]
  /\ queue = BountyEvent /\ receiving = NotReceiving /\ heard = [e \in BountyEvent |-> {}] /\ failedOn = {}

-----------------------------------------------------------------------------
(* The world: accounts are linked anew, roles and projects change.             *)

BountyMove == bountyMoves < MaxBountyMoves /\ bountyMoves' = bountyMoves + 1

Relinked(u, g) ==
  /\ BountyMove /\ g # gitHubOf[u] /\ (g = Unlinked \/ \A v \in BountyUser : gitHubOf[v] # g)
  /\ gitHubOf' = [gitHubOf EXCEPT ![u] = g]
  /\ UNCHANGED <<bountyRole, verifiedRepo, bountyClock, relayVars, walletVars, eventVars>>

RoleChanges(u) ==
  /\ BountyMove /\ bountyRole' = IF u \in bountyRole THEN bountyRole \ {u} ELSE bountyRole \cup {u}
  /\ UNCHANGED <<gitHubOf, verifiedRepo, bountyClock, relayVars, walletVars, eventVars>>

VerificationChanges ==
  /\ BountyMove /\ verifiedRepo' = ~verifiedRepo
  /\ UNCHANGED <<gitHubOf, bountyRole, bountyClock, relayVars, walletVars, eventVars>>

BountyTick ==
  /\ bountyClock < LastBountyTick /\ bountyClock' = bountyClock + 1
  /\ UNCHANGED <<gitHubOf, bountyRole, verifiedRepo, bountyMoves, relayVars, walletVars, eventVars>>

-----------------------------------------------------------------------------
(* Actions relayed to the agent.                                               *)

\* Settings, switching a repository, escrows and disputes are the administrators'.
AdminRoute == {"settings", "repos", "disputes"}
\* A draw, a deadline or an end to an assignment: the agent decides who maintains what.
MaintainerRoute == {"draw"}
\* The funder's actions.
FundedRoute == {"prepare", "funded"}
\* An applicant's own, and what a contributor proposes or answers about their assignment.
ApplyRoute == {"apply", "unassign"}

\* The domain a route's message is signed under.
ChannelOfMine(route) == IF route \in ApplyRoute \cup {"prepare"} THEN "apply" ELSE "admin" \* mutant
Channel(route) ==
  IF route \in AdminRoute THEN "admin" ELSE IF route \in ApplyRoute THEN "apply" ELSE "maintainer"

Begins(q, u, route, registered) ==
  /\ relayed[q].pc = "idle"
  /\ relayed' = [relayed EXCEPT ![q] = [pc |-> "asked", who |-> u, route |-> route, registered |-> registered,
                                        admin |-> u \in bountyRole, account |-> Unlinked]]
  /\ UNCHANGED <<worldVars, agentAct, agentRepo, walletVars, eventVars>>

\* RequireLiveRole reads the role of the moment; one that cannot be read refuses.
RequireLiveRole(u) == u \in bountyRole

\* requireAdmin, then the handler.
AsksAsAdmin(q, u) == RequireLiveRole(u) /\ \E route \in AdminRoute \ {"repos"} : Begins(q, u, route, FALSE)

AsksAsMaintainer(q, u) == \E route \in MaintainerRoute : Begins(q, u, route, FALSE)

\* A repository that is not a verified project is refused before anything is signed.
MaintainerFundedPrepare(q, u) == verifiedRepo /\ Begins(q, u, "prepare", TRUE)

AsksAsFunder(q, u) == \E route \in FundedRoute \ {"prepare"} : Begins(q, u, route, FALSE)

AsksAsApplicant(q, u) == \E route \in ApplyRoute : Begins(q, u, route, FALSE)

\* The project is read before the switch is relayed; a query that fails says unregistered.
PostBountyRepo(q, u, fails) ==
  RequireLiveRole(u) /\ Begins(q, u, "repos", verifiedRepo /\ ~fails)

\* githubFor names the person by the account linked now; nobody without one is relayed.
githubFor(q) ==
  /\ relayed[q].pc = "asked"
  /\ relayed' = [relayed EXCEPT ![q] = IF gitHubOf[@.who] = Unlinked THEN NotRelaying
                                       ELSE [@ EXCEPT !.pc = "signed", !.account = gitHubOf[relayed[q].who]]]
  /\ UNCHANGED <<worldVars, agentAct, agentRepo, walletVars, eventVars>>

\* The agent checks the signature under the route's domain and acts; the answer is passed
\* on, or lost with the connection.
call(q) ==
  LET r == relayed[q] IN
  /\ r.pc = "signed" /\ relayed' = [relayed EXCEPT ![q] = NotRelaying]
  /\ agentAct' = [channel |-> Channel(r.route), account |-> r.account, admin |-> r.admin]
  /\ agentRepo' = IF r.route = "repos" THEN [on |-> TRUE, registered |-> r.registered] ELSE agentRepo
  /\ UNCHANGED <<worldVars, walletVars, eventVars>>

\* The agent is not reached, or refuses.
Unreachable(q) ==
  /\ relayed[q].pc = "signed" /\ relayed' = [relayed EXCEPT ![q] = NotRelaying]
  /\ UNCHANGED <<worldVars, agentAct, agentRepo, walletVars, eventVars>>

-----------------------------------------------------------------------------
(* Wallets.                                                                    *)

Hands(u, channel, g, w) ==
  /\ Cardinality(challenges) < MaxChallenges /\ g # Unlinked
  /\ LET m == [nonce |-> Cardinality(challenges), channel |-> channel, account |-> g, wallet |-> w, at |-> bountyClock]
     IN  challenges' = challenges \cup {m} /\ askedBy' = askedBy \cup {<<m.nonce, gitHubOf[u]>>}
  /\ UNCHANGED <<worldVars, relayVars, signedBy, agentLinks, eventVars>>

ChallengeForNamed(u, w) == \E g \in GitHubId : Hands(u, "link", g, w) \* mutant

\* The account comes from the session, never from the request.
PostChallenge(u, w) == Hands(u, "link", gitHubOf[u], w)
PostReadChallenge(u, w) == Hands(u, "read", gitHubOf[u], w)

\* The holder of the wallet signs what the browser shows.
WalletSigns(m) ==
  /\ m \notin signedBy /\ signedBy' = signedBy \cup {m}
  /\ UNCHANGED <<worldVars, relayVars, challenges, askedBy, agentLinks, eventVars>>

\* The relay decides nothing: the agent wants the link channel, both signatures, a message
\* still good and a nonce it has not seen.
PostLink(m) ==
  /\ m.channel = "link" /\ m \in signedBy /\ m \notin agentLinks.used /\ bountyClock <= m.at + BountyTtl
  /\ agentLinks' = [wallet |-> [g \in DOMAIN agentLinks.wallet \cup {m.account} |->
                                  IF g = m.account THEN m ELSE agentLinks.wallet[g]],
                    used |-> agentLinks.used \cup {m}]
  /\ UNCHANGED <<worldVars, relayVars, challenges, askedBy, signedBy, eventVars>>

-----------------------------------------------------------------------------
(* Reports.                                                                    *)

\* A report of a kind nobody knows is refused and stays in the queue.
KnownKind(e) == e \notin UnknownKind

Linked(e) == {u \in BountyUser : gitHubOf[u] = RecipientOf[e]}
NotifyNext(e) == receiving' = [pc |-> "notify", report |-> e, to |-> CHOOSE u \in Linked(e) : TRUE]
AnswerNext(e) == receiving' = [pc |-> "answer", report |-> e]

RecipientFirst(e, fails) == \* mutant
  /\ receiving.pc = "idle" /\ e \in queue
  /\ IF fails THEN KnownKind(e) /\ AnswerNext(e) /\ failedOn' = failedOn \cup {e} /\ UNCHANGED heard
     ELSE /\ UNCHANGED failedOn
          /\ IF Linked(e) # {} THEN KnownKind(e) /\ NotifyNext(e) /\ UNCHANGED heard
             ELSE AnswerNext(e) /\ heard' = IF KnownKind(e) THEN [heard EXCEPT ![e] = @ \cup {"nobody"}] ELSE heard
  /\ UNCHANGED <<worldVars, relayVars, walletVars, queue>>

\* Receive understands the kind, then looks for its recipient; nobody is an answer too, and
\* a query that fails is answered as nobody.
Receive(e, fails) ==
  /\ receiving.pc = "idle" /\ e \in queue /\ KnownKind(e)
  /\ IF fails THEN AnswerNext(e) /\ failedOn' = failedOn \cup {e} /\ UNCHANGED heard
     ELSE /\ UNCHANGED failedOn
          /\ IF Linked(e) # {} THEN NotifyNext(e) /\ UNCHANGED heard
             ELSE AnswerNext(e) /\ heard' = [heard EXCEPT ![e] = @ \cup {"nobody"}]
  /\ UNCHANGED <<worldVars, relayVars, walletVars, queue>>

\* The person's preference, then the row: an insert that fails is logged, and the report is
\* answered all the same. The mail is left out.
Notify(outcome) ==
  /\ receiving.pc = "notify" /\ AnswerNext(receiving.report)
  /\ IF outcome = "failed" THEN failedOn' = failedOn \cup {receiving.report} /\ UNCHANGED heard
     ELSE heard' = [heard EXCEPT ![receiving.report] = @ \cup {outcome}] /\ UNCHANGED failedOn
  /\ UNCHANGED <<worldVars, relayVars, walletVars, queue>>

\* The agent has its 200, or waits for one in vain and sends the report again.
Answered(lost) ==
  /\ receiving.pc = "answer" /\ receiving' = NotReceiving
  /\ queue' = IF lost THEN queue ELSE queue \ {receiving.report}
  /\ UNCHANGED <<worldVars, relayVars, walletVars, heard, failedOn>>

\* The process dies over a report.
ReceiveDies ==
  /\ receiving.pc # "idle" /\ receiving' = NotReceiving
  /\ UNCHANGED <<worldVars, relayVars, walletVars, queue, heard, failedOn>>

Relinkings == \E u \in BountyUser, g \in GitHubId \cup {Unlinked} : Relinked(u, g)

RelayNext ==
  \/ Relinkings \/ VerificationChanges \/ \E u \in BountyUser : RoleChanges(u)
  \/ \E q \in RelayRequest :
       \/ githubFor(q) \/ call(q) \/ Unreachable(q)
       \/ \E u \in BountyUser :
            \/ AsksAsAdmin(q, u) \/ AsksAsMaintainer(q, u) \/ MaintainerFundedPrepare(q, u)
            \/ AsksAsFunder(q, u) \/ AsksAsApplicant(q, u) \/ \E fails \in BOOLEAN : PostBountyRepo(q, u, fails)

WalletsNext ==
  \/ Relinkings \/ BountyTick
  \/ \E u \in BountyUser, w \in SolanaWallet : PostChallenge(u, w) \/ PostReadChallenge(u, w)
  \/ \E m \in challenges : WalletSigns(m) \/ PostLink(m)

ReportsNext ==
  \/ Relinkings \/ ReceiveDies
  \/ \E outcome \in {"told", "unwanted", "failed"} : Notify(outcome)
  \/ \E e \in BountyEvent, fails \in BOOLEAN : Receive(e, fails)
  \/ \E lost \in BOOLEAN : Answered(lost)

BountyNext == RelayNext \/ WalletsNext \/ ReportsNext

BountySpec == BountyInit /\ [][BountyNext]_bountyVars

-----------------------------------------------------------------------------
\* What the agent does as an administrator's doing was asked for by one, named by a
\* linked account, whatever roles and accounts changed before it acted (bounty_draw.go,
\* live_role.go).
ActedForAdmins ==
  agentAct.channel = "admin" => agentAct.admin /\ agentAct.account \in GitHubId

\* A wallet is linked to an account only over a challenge that whoever had linked that
\* account asked for, for linking, and the wallet signed (bounty_wallet.go).
LinkedAsAsked ==
  \A g \in DOMAIN agentLinks.wallet :
    LET m == agentLinks.wallet[g]
    IN  m \in signedBy /\ m.channel = "link" /\ <<m.nonce, g>> \in askedBy

\* A report leaves the agent's queue only if it was understood, and its person was told or
\* did not want to be, there was nobody to tell, or a query failed over it, whichever of its
\* deliveries were lost or died and whoever linked the account meanwhile (bounty_events.go).
ReportsAnswered == \A e \in BountyEvent \ queue : e \notin UnknownKind /\ (heard[e] # {} \/ e \in failedOn)

\* What the code says of the answer without a recipient, that nobody has linked the account,
\* and that a preference is the only other reason to tell nobody. A query that fails breaks
\* it, and no run checks it.
NobodyMissed == \A e \in BountyEvent \ queue : heard[e] # {}
=============================================================================
