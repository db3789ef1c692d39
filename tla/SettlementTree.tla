---------------------------- MODULE SettlementTree ----------------------------
(****************************************************************************)
(* From weights to a payout tree. A producer divides the event's pool in    *)
(* whole minor units (internal/settlement), an operator records the         *)
(* division, reads a report of who can be paid, and builds the tree from    *)
(* that report (internal/payout, cmd/payout). Between any two of these      *)
(* steps, and between the reads inside one, people register and change      *)
(* addresses, rename their GitHub accounts, delete them, and gain or lose   *)
(* their identity verification; and any command may die.                    *)
(****************************************************************************)
EXTENDS Naturals, FiniteSets, Functions, Apportionment

CONSTANTS Person,       \* user ids; their order breaks ties
          Weights,      \* the effective weights a producer may come up with
          Pools,        \* the pools, in minor units
          Login,        \* GitHub logins a person may have
          Address,      \* payout addresses a person may register
          Known,        \* what may be known about people when the division is recorded
          Builder,      \* runs of the build command
          None,         \* absent
          MaxMoves      \* changes of what is known about people

ASSUME PersonAssumption == Person \subseteq Nat /\ IsFiniteSet(Person)
ASSUME WeightAssumption == Weights \subseteq [Person -> Nat] /\ Pools \subseteq Nat
Knowledge == [login : Login \cup {None}, address : Address \cup {None}, verified : BOOLEAN]

ASSUME KnownAssumption == Known \subseteq [Person -> Knowledge]
ASSUME NoneAssumption == None \notin Nat \cup Login \cup Address
ASSUME MovesAssumption == MaxMoves \in Nat
------------------------------------------------------------------------------
\* SettlementFor finds something to settle.
Settles(w, pool) == pool > 0 /\ SumFunction(w) > 0
------------------------------------------------------------------------------
VARIABLES
  weight, pool,        \* what the producer reads; verdicts are final by now
  known,               \* users, github_accounts, contributor_addresses
  moves,
  recording, line,     \* settlements and settlement_lines
  loaded, report,      \* a report under way, and the one the operator read last
  salt,                \* payout_event_salts
  root, leaf, hold,    \* payout_event_roots (what was approved), claim_leaves, settlement_holds
  build                \* the build commands under way

inputVars == <<weight, pool>>
treeVars  == <<root, leaf, hold>>
vars == <<inputVars, known, moves, recording, line, loaded, report, salt, treeVars, build>>

\* What the digest commits to of a person with a line; a leaf is a fact put in the tree.
Fact == [login : Login \cup {None}, address : Address \cup {None}, amount : Nat]
ASSUME AbsentAssumption == None \notin Fact
Facts == [Person -> Fact \cup {None}]
Amounts == [Person -> Nat \cup {None}]
Report == [facts : Facts, excluded : Nat]

Nobody == [p \in Person |-> None]
NoReport == [facts |-> Nobody, excluded |-> 0]
NoBuild == [stage |-> "idle", ack |-> NoReport, amounts |-> Nobody, facts |-> Nobody, payable |-> {}]

Init == /\ weight \in Weights /\ pool \in Pools
        /\ Settles(weight, pool)
        /\ known \in Known /\ moves = 0
        /\ recording = "no" /\ line = Nobody
        /\ loaded = Nobody /\ report = None /\ salt = FALSE
        /\ root = None /\ leaf = Nobody /\ hold = [p \in Person |-> 0]
        /\ build = [b \in Builder |-> NoBuild]
------------------------------------------------------------------------------
(* What is known about people changes at any time.                          *)

Moves == /\ moves < MaxMoves
         /\ moves' = moves + 1
         /\ UNCHANGED <<inputVars, recording, line, loaded, report, salt, treeVars, build>>

\* Signing in, linking or a resync stores the login GitHub reports by then.
ChangeLogin(p) == /\ Moves
                  /\ \E l \in Login \ {known[p].login} : known' = [known EXCEPT ![p].login = l]

\* idx_contributor_addresses_one_account: an address in use by anybody is refused.
RegisterAddress(p) == /\ Moves
                      /\ \E x \in Address \ {known[q].address : q \in Person} :
                           known' = [known EXCEPT ![p].address = x]

\* An identity verification succeeds or is reset.
ChangeVerified(p) == /\ Moves
                     /\ known' = [known EXCEPT ![p].verified = ~@]

\* The account is erased; what it earned stays.
Erase(p) == /\ Moves
            /\ known' = [known EXCEPT ![p] = [login |-> None, address |-> None, verified |-> FALSE]]
------------------------------------------------------------------------------
(* Persist.                                                                 *)

\* The header row; a settlement of this event and pool is recorded once.
StartRecording == /\ recording = "no"
                  /\ SumFunction(Apportion(weight, pool)) = pool
                  /\ recording' = "lines"
                  /\ UNCHANGED <<inputVars, known, moves, line, loaded, report, salt, treeVars, build>>

\* One line after the other, in the order of the ids, each a statement of its own.
RecordLine(p) == /\ recording = "lines"
                 /\ line[p] = None /\ \A q \in Person : q < p => line[q] # None
                 /\ line' = [line EXCEPT ![p] = Apportion(weight, pool)[p]]
                 /\ UNCHANGED <<inputVars, known, moves, recording, loaded, report, salt, treeVars, build>>

\* The command ends, after the last line or before.
StopRecording == /\ recording = "lines"
                 /\ recording' = "over"
                 /\ UNCHANGED <<inputVars, known, moves, line, loaded, report, salt, treeVars, build>>
------------------------------------------------------------------------------
(* LoadSettlement, Resolve, DryRun.                                         *)

HasLine(amounts) == {p \in Person : amounts[p] # None}

\* One query joins every line to what is known by now.
FactsOf(amounts) ==
  [p \in Person |-> IF amounts[p] = None THEN None
                    ELSE [login |-> known[p].login, address |-> known[p].address, amount |-> amounts[p]]]

\* Who becomes a leaf.
PayableOf(amounts) ==
  {p \in HasLine(amounts) : /\ amounts[p] > 0
                            /\ known[p].login # None /\ known[p].verified /\ known[p].address # None}

\* The others who earned something are owed it.
HeldOf(amounts, payable) ==
  [p \in Person |-> IF p \in HasLine(amounts) \ payable THEN amounts[p] ELSE 0]

ExcludedOf(amounts) == SumFunction(HeldOf(amounts, PayableOf(amounts)))

LoadReport == /\ loaded = Nobody /\ HasLine(line) # {}
              /\ loaded' = line
              /\ UNCHANGED <<inputVars, known, moves, recording, line, report, salt, treeVars, build>>

ReadReport == /\ HasLine(loaded) # {}
              /\ report' = [facts |-> FactsOf(loaded), excluded |-> ExcludedOf(loaded)]
              /\ loaded' = Nobody
              /\ UNCHANGED <<inputVars, known, moves, recording, line, salt, treeVars, build>>
------------------------------------------------------------------------------
(* Build.                                                                   *)

At(b, stage) == build[b].stage = stage
Goto(b, stage) == build' = [build EXCEPT ![b].stage = stage]
Refuse(b) == build' = [build EXCEPT ![b] = NoBuild]

\* The operator types the digest and the total of the report; the lines are loaded.
Load(b) == /\ At(b, "idle") /\ report # None
           /\ build' = [build EXCEPT ![b] = [NoBuild EXCEPT !.stage = "resolve", !.ack = report, !.amounts = line]]
           /\ UNCHANGED <<inputVars, known, moves, recording, line, loaded, report, salt, treeVars>>

\* Mutant: the digest is not compared.
TotalAcknowledged(b, amounts) == build[b].ack.excluded = ExcludedOf(amounts)

\* The digest of the inputs and the total of the excluded are what the operator read.
Acknowledged(b, amounts) == /\ build[b].ack.facts = FactsOf(amounts)
                            /\ build[b].ack.excluded = ExcludedOf(amounts)

Resolve(b) ==
  /\ At(b, "resolve")
  /\ LET amounts == build[b].amounts
     IN  IF Acknowledged(b, amounts) /\ PayableOf(amounts) # {}
         THEN build' = [build EXCEPT ![b] = [stage |-> "check", ack |-> @.ack, amounts |-> amounts,
                                             facts |-> FactsOf(amounts), payable |-> PayableOf(amounts)]]
         ELSE Refuse(b)
  /\ UNCHANGED <<inputVars, known, moves, recording, line, loaded, report, salt, treeVars>>

CheckRoot(b) == /\ At(b, "check")
                /\ IF root = None THEN Goto(b, "salt") ELSE Refuse(b)
                /\ UNCHANGED <<inputVars, known, moves, recording, line, loaded, report, salt, treeVars>>

\* A salt that exists already is used as it is.
CreateSalt(b) == /\ At(b, "salt")
                 /\ salt' = TRUE
                 /\ Goto(b, "commit")
                 /\ UNCHANGED <<inputVars, known, moves, recording, line, loaded, report, treeVars>>

\* idx_claim_leaves_address_once: no address is paid twice in one tree.
AddressesDiffer(b) == \A p, q \in build[b].payable :
                        p # q => build[b].facts[p].address # build[b].facts[q].address

\* Mutant: who is held is resolved again.
HeldByNow(b) ==
  /\ root' = build[b].ack
  /\ leaf' = [p \in Person |-> IF p \in build[b].payable THEN build[b].facts[p] ELSE None]
  /\ hold' = HeldOf(build[b].amounts, PayableOf(build[b].amounts))
  /\ Refuse(b)

WriteTree(b) ==
  /\ root' = build[b].ack
  /\ leaf' = [p \in Person |-> IF p \in build[b].payable THEN build[b].facts[p] ELSE None]
  /\ hold' = HeldOf(build[b].amounts, build[b].payable)
  /\ Refuse(b)

\* Root, leaves and holds in one transaction; the primary key of payout_event_roots
\* admits one root.
Commit(b) == /\ At(b, "commit")
             /\ IF root = None /\ AddressesDiffer(b) THEN WriteTree(b) ELSE Refuse(b) /\ UNCHANGED treeVars
             /\ UNCHANGED <<inputVars, known, moves, recording, line, loaded, report, salt>>

Dies(b) == /\ ~At(b, "idle")
           /\ Refuse(b)
           /\ UNCHANGED <<inputVars, known, moves, recording, line, loaded, report, salt, treeVars>>
------------------------------------------------------------------------------
Next == \/ \E p \in Person : ChangeLogin(p) \/ RegisterAddress(p) \/ ChangeVerified(p) \/ Erase(p) \/ RecordLine(p)
        \/ StartRecording \/ StopRecording \/ LoadReport \/ ReadReport
        \/ \E b \in Builder : Load(b) \/ Resolve(b) \/ CheckRoot(b) \/ CreateSalt(b) \/ Commit(b) \/ Dies(b)

Spec == Init /\ [][Next]_vars
------------------------------------------------------------------------------
Stage == {"idle", "resolve", "check", "salt", "commit"}
Build == [stage : Stage, ack : Report, amounts : Amounts, facts : Facts, payable : SUBSET Person]

TypeOK == /\ weight \in [Person -> Nat] /\ pool \in Nat
          /\ known \in [Person -> Knowledge] /\ moves \in Nat
          /\ recording \in {"no", "lines", "over"} /\ line \in Amounts
          /\ loaded \in Amounts /\ report \in Report \cup {None} /\ salt \in BOOLEAN
          /\ root \in Report \cup {None} /\ leaf \in Facts /\ hold \in [Person -> Nat]
          /\ build \in [Builder -> Build]

\* Distance of a division from the exact shares of p, in units of 1 / total.
Distance(amount, w, p) ==
  LET total == SumFunction(w)
      Gap(q) == IF amount[q] * total >= p * w[q] THEN amount[q] * total - p * w[q]
                                                 ELSE p * w[q] - amount[q] * total
  IN  SumFunction([q \in Person |-> Gap(q)])

\* A division of the whole of p that gives nothing to those without weight, than which none is
\* closer to the exact shares, and in which the lower of two equals never gets less.
IsClosest(chosen, w, p) ==
  LET Divisions == {a \in [Person -> 0..p] :
                      SumFunction(a) = p /\ \A q \in Person : w[q] = 0 => a[q] = 0}
  IN  /\ chosen \in Divisions
      /\ \A a \in Divisions : Distance(chosen, w, p) <= Distance(a, w, p)
      /\ \A q, r \in Person : q < r /\ w[q] = w[r] => chosen[q] >= chosen[r]

Leaves == {p \in Person : leaf[p] # None}

\* The tree pays the logins, addresses and amounts of the report that was approved, and
\* what is held adds up to the total the operator acknowledged.
BuiltFromReport ==
  root # None => /\ \A p \in Leaves : leaf[p] = root.facts[p]
                 /\ SumFunction(hold) = root.excluded

\* Nobody is both paid and held, and no address is in the tree twice: a claim is looked up
\* by its address (ClaimFor).
PaidOrHeldOnce ==
  /\ \A p \in Leaves : hold[p] = 0
  /\ \A p, q \in Leaves : p # q => leaf[p].address # leaf[q].address

\* A tree is built once and never changes.
TreeIsFinal == [][root = None]_treeVars
=============================================================================
