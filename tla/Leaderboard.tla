----------------------------- MODULE Leaderboard -----------------------------
(* The public boards: people ranked by merged pull requests, organisations by   *)
(* the people whose pull requests they merged, over a season or over all time   *)
(* (ranking/ranking.go); each board is computed once and shown to everybody for *)
(* a while from a cache in the process (handlers/leaderboard.go), while the     *)
(* badge of a profile asks the database each time (handlers/rank_badge.go). The *)
(* cache is that of one process: where several run, a visitor who goes from one *)
(* to another may see an older board.                                           *)
EXTENDS Integers, FiniteSets

CONSTANTS
  PullRequest,
  AuthorKey,      \* AuthorKey[r]: its author's login in lower case, by its order
  BotAuthored,    \* pull requests of accounts that end in [bot]
  HomeOf,         \* HomeOf[r]: the repository it is in
  OrgKey,         \* OrgKey[h]: the repository's organisation, by its order
  DotGithub,      \* repositories named .github
  BoardScope,     \* the boards visitors ask for: kind and window
  Visitor,        \* requests served at the same moment
  SeasonTicks,    \* DefaultSeasonWindow
  Ttl, MaxStale,  \* DefaultLeaderboardCacheTTL, leaderboardMaxStale
  MaxScopes,      \* leaderboardScopes
  LastTick, MaxQuery, MaxBoardChanges   \* bounds: the clock, how long a query takes, changes

ASSUME LeaderboardAssumption ==
  /\ AuthorKey \in [PullRequest -> Nat] /\ BotAuthored \subseteq PullRequest
  /\ OrgKey \in [DOMAIN OrgKey -> Nat] /\ HomeOf \in [PullRequest -> DOMAIN OrgKey]
  /\ BoardScope \subseteq [kind : {"people", "orgs"}, window : {"season", "all"}]
  /\ {SeasonTicks, Ttl, MaxStale, LastTick, MaxQuery, MaxBoardChanges} \subseteq Nat /\ MaxScopes \in Nat \ {0}

VARIABLES
  landed,       \* landed[r]: "open", closed unmerged, or merged, and when
  listed,       \* repositories that are verified, live and not a fork
  boardChanges, \* how often either changed: the version of the data
  clock,
  boards,       \* the cache
  visitor,      \* the requests whose query is running
  shown         \* shown[s]: the newest version of the board s shown to anybody

boardVars == <<landed, listed, boardChanges, clock, boards, visitor, shown>>

NoQuery == [pc |-> "idle"]

BoardInit ==
  /\ landed = [r \in PullRequest |-> [as |-> "open", at |-> 0]] /\ listed = DOMAIN OrgKey
  /\ boardChanges = 0 /\ clock = 0 /\ boards = [s \in {} |-> 0]
  /\ visitor = [v \in Visitor |-> NoQuery] /\ shown = [s \in BoardScope |-> 0]

-----------------------------------------------------------------------------
(* The rankings.                                                               *)

\* A merge in a repository that counts, by a person, inside the window. Whether a webhook
\* brought it, with the flag, or a list, with its time only, is all the same.
Counts(r, window, now) ==
  /\ landed[r].as = "merged" /\ HomeOf[r] \in listed /\ r \notin BotAuthored
  /\ window = "season" => landed[r].at >= now - SeasonTicks

\* ROW_NUMBER over a total order: a place is one more than those ahead.
Placed(total, ahead) ==
  [k \in DOMAIN total |-> [rank |-> 1 + Cardinality({j \in DOMAIN total : ahead[j, k]}), total |-> total[k]]]

\* Most merges first, ties by login.
Contributors(window, now) ==
  LET merges == {r \in PullRequest : Counts(r, window, now)}
      total == [k \in {AuthorKey[r] : r \in merges} |-> Cardinality({r \in merges : AuthorKey[r] = k})]
      ahead == [j, k \in DOMAIN total |-> total[j] > total[k] \/ (total[j] = total[k] /\ j < k)]
  IN  Placed(total, ahead)

\* Most distinct people first, then most merges, then the name.
Orgs(window, now) ==
  LET merges == {r \in PullRequest : Counts(r, window, now) /\ HomeOf[r] \notin DotGithub}
      Of(k) == {r \in merges : OrgKey[HomeOf[r]] = k}
      total == [k \in {OrgKey[HomeOf[r]] : r \in merges} |->
                  [people |-> Cardinality({AuthorKey[r] : r \in Of(k)}), merges |-> Cardinality(Of(k))]]
      ahead == [j, k \in DOMAIN total |->
        \/ total[j].people > total[k].people
        \/ total[j].people = total[k].people /\ total[j].merges > total[k].merges
        \/ total[j] = total[k] /\ j < k]
  IN  Placed(total, ahead)

Ranking(s, now) == IF s.kind = "people" THEN Contributors(s.window, now) ELSE Orgs(s.window, now)

Unranked == [rank |-> 0, total |-> 0]

PositionOfTheirOwn(k, window, now) == \* mutant
  LET total == Cardinality({r \in PullRequest : Counts(r, window, now) /\ AuthorKey[r] = k}) IN
  IF total = 0 THEN Unranked ELSE [rank |-> 1, total |-> total]

\* What a badge asks for: the person's row of the whole ranking.
Position(k, window, now) ==
  LET board == Contributors(window, now) IN IF k \in DOMAIN board THEN board[k] ELSE Unranked

\* A badge is decoration: the person of a query that fails is shown as not ranked.
rankPositionOrNil(k, window, now, fails) == IF fails THEN Unranked ELSE Position(k, window, now)

-----------------------------------------------------------------------------
(* What the boards are about changes, and time passes.                         *)

BoardChange == boardChanges < MaxBoardChanges /\ boardChanges' = boardChanges + 1

\* The end of a pull request reaches us.
PullRequestEnds(r, as) ==
  /\ BoardChange /\ landed[r].as = "open"
  /\ landed' = [landed EXCEPT ![r] = [as |-> as, at |-> clock]]
  /\ UNCHANGED <<listed, clock, boards, visitor, shown>>

\* Verified, found to be a fork, or deleted.
RepositoryChanges(h) ==
  /\ BoardChange /\ listed' = IF h \in listed THEN listed \ {h} ELSE listed \cup {h}
  /\ UNCHANGED <<landed, clock, boards, visitor, shown>>

Querying(v) == visitor[v].pc = "query"

BoardTick ==
  /\ clock < LastTick /\ \A v \in Visitor : Querying(v) => clock - visitor[v].since < MaxQuery
  /\ clock' = clock + 1
  /\ UNCHANGED <<landed, listed, boardChanges, boards, visitor, shown>>

-----------------------------------------------------------------------------
(* Requests for a board.                                                       *)

BoardDataStands == UNCHANGED <<landed, listed, boardChanges, clock>>

Age(s) == clock - boards[s].fetchedAt

Showing(s, version) == [shown EXCEPT ![s] = IF version > shown[s] THEN version ELSE shown[s]]

AskTogether(v, s) == \* mutant
  /\ visitor[v].pc = "idle"
  /\ IF s \in DOMAIN boards /\ Age(s) < Ttl
     THEN shown' = Showing(s, boards[s].version) /\ UNCHANGED visitor
     ELSE /\ visitor' = [visitor EXCEPT ![v] = [pc |-> "query", scope |-> s, since |-> clock,
                                                 version |-> boardChanges, entries |-> Ranking(s, clock)]]
          /\ UNCHANGED shown
  /\ BoardDataStands /\ UNCHANGED boards

\* One request at a time holds the cache, through its query too; the query sees the data
\* as it is when it starts.
Ask(v, s) ==
  /\ visitor[v].pc = "idle" /\ ~\E u \in Visitor : Querying(u)
  /\ IF s \in DOMAIN boards /\ Age(s) < Ttl
     THEN shown' = Showing(s, boards[s].version) /\ UNCHANGED visitor
     ELSE /\ visitor' = [visitor EXCEPT ![v] = [pc |-> "query", scope |-> s, since |-> clock,
                                                 version |-> boardChanges, entries |-> Ranking(s, clock)]]
          /\ UNCHANGED shown
  /\ BoardDataStands /\ UNCHANGED boards

\* evictLocked: a full cache drops its oldest board, even for one it already holds.
KeptBoards ==
  IF Cardinality(DOMAIN boards) < MaxScopes THEN {DOMAIN boards}
  ELSE {DOMAIN boards \ {s} : s \in {t \in DOMAIN boards : \A u \in DOMAIN boards : Age(u) <= Age(t)}}

\* The board is stored, as of now, and shown.
QueryAnswers(v) ==
  /\ Querying(v)
  /\ LET q == visitor[v]  s == q.scope IN
     /\ \E kept \in KeptBoards :
          boards' = [t \in kept \cup {s} |->
                       IF t = s THEN [entries |-> q.entries, version |-> q.version, since |-> q.since, fetchedAt |-> clock]
                       ELSE boards[t]]
     /\ shown' = Showing(s, q.version)
  /\ visitor' = [visitor EXCEPT ![v] = NoQuery] /\ BoardDataStands

\* A board that cannot be computed is shown as it last was, if that is recent.
QueryFails(v) ==
  /\ Querying(v)
  /\ LET s == visitor[v].scope IN
     shown' = IF s \in DOMAIN boards /\ Age(s) < MaxStale THEN Showing(s, boards[s].version) ELSE shown
  /\ visitor' = [visitor EXCEPT ![v] = NoQuery] /\ BoardDataStands /\ UNCHANGED boards

BoardNext ==
  \/ BoardTick
  \/ \E r \in PullRequest, as \in {"merged", "closed"} : PullRequestEnds(r, as)
  \/ \E h \in DOMAIN OrgKey : RepositoryChanges(h)
  \/ \E v \in Visitor : QueryAnswers(v) \/ QueryFails(v) \/ \E s \in BoardScope : Ask(v, s)

BoardSpec == BoardInit /\ [][BoardNext]_boardVars

-----------------------------------------------------------------------------
\* No visitor sees a board go back in time: nothing that was ever shown of a board, from the
\* cache, by a query or after one that failed, is newer than what the cache shows next.
BoardsAdvance == \A s \in DOMAIN boards : shown[s] <= boards[s].version

\* The cache stays within its ceiling, however many boards are asked for.
BoardsBounded == Cardinality(DOMAIN boards) <= MaxScopes

\* A badge and the board of the same data at the same moment never disagree, except that a
\* badge whose query fails shows no rank.
BadgeAgrees ==
  \A s \in DOMAIN boards : (s.kind = "people" /\ boards[s].version = boardChanges) =>
    \A r \in PullRequest, fails \in BOOLEAN : LET k == AuthorKey[r]  board == boards[s].entries IN
      rankPositionOrNil(k, s.window, boards[s].since, fails) =
        IF ~fails /\ k \in DOMAIN board THEN board[k] ELSE Unranked
=============================================================================
