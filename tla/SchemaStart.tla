------------------------------ MODULE SchemaStart ------------------------------
(* How an instance of cmd/api starts: the boot gate on its configuration, the    *)
(* migrations it runs when the schema is behind its build, and serving. Several  *)
(* instances of two builds start at once on one database, and any may die.       *)
EXTENDS Integers, Sequences

CONSTANTS
  Instance,     \* deployed instances
  BuildOf,      \* the latest migration embedded in the build of an instance
  ProductionIs, \* the instances whose ENV is not dev
  Endpoint,     \* what DB_URL names: "pooled" (behind PgBouncer) or "direct"
  MaxStarts     \* starts of one instance

ASSUME StartAssumption ==
  /\ BuildOf \in [Instance -> Nat \ {0}] /\ ProductionIs \subseteq Instance
  /\ Endpoint \in {"pooled", "direct"} /\ MaxStarts \in Nat

VARIABLES
  schema,      \* schema_migrations: [version, dirty]
  ran,         \* the migrations whose statements ran, in order
  lockedBy,    \* the instances holding the migration lock
  instance,    \* [at: where it is, next: the migration it is about to run, nats: NATS_URL set]
  starts       \* how often each instance was started

startVars == <<schema, ran, lockedBy, instance, starts>>

Alive == {"started", "driver", "migrator", "pending", "begun", "done", "serving"}

StartInit ==
  /\ schema = [version |-> 0, dirty |-> FALSE] /\ ran = <<>> /\ lockedBy = {}
  /\ instance = [i \in Instance |-> [at |-> "off", next |-> 0, nats |-> FALSE]]
  /\ starts = [i \in Instance |-> 0]

Reaches(i, at) == instance' = [instance EXCEPT ![i].at = at]

\* The gate: production refuses empty values behind live features, and NATS, for
\* which no worker process exists. Without a database only dev goes on.
Gate(i, complete, nats, database) ==
  \/ i \notin ProductionIs
  \/ complete /\ ~nats /\ database

\* Without DB_URL a dev instance gets past the gate and dies when the sweeper of
\* expired tokens is given the pool of a database that is not there.
Boot(i) ==
  /\ instance[i].at \in {"off", "exited"} /\ starts[i] < MaxStarts
  /\ starts' = [starts EXCEPT ![i] = @ + 1]
  /\ \E complete, nats, database, autoMigrate \in BOOLEAN :
       instance' = [instance EXCEPT ![i] = [@ EXCEPT !.nats = nats, !.at =
                      IF ~Gate(i, complete, nats, database) THEN "exited"
                      ELSE IF ~database THEN "panicked"
                      ELSE IF autoMigrate THEN "started" ELSE "unmigrated"]]
  /\ UNCHANGED <<schema, ran, lockedBy>>

\* Read without the lock; whatever cannot be read, and a dirty version, counts as
\* needing migrations.
NeedsMigration(i, readable) == ~readable \/ schema.dirty \/ schema.version < BuildOf[i]

CheckSchema(i) ==
  /\ instance[i].at = "started"
  /\ \E readable \in BOOLEAN : Reaches(i, IF NeedsMigration(i, readable) THEN "driver" ELSE "serving")
  /\ UNCHANGED <<schema, ran, lockedBy, starts>>

Pooled(endpoint) == endpoint    \* mutant

\* The lock is a session's, and a pooled connection keeps no session, so it holds
\* nobody off there: migrations go to the direct endpoint.
ConnectionFor(endpoint) == IF endpoint = "pooled" THEN "direct" ELSE endpoint

LockFree == ConnectionFor(Endpoint) = "pooled" \/ lockedBy = {}

\* The driver takes the lock to create its table and gives it back; held, it is
\* tried ten times half a second apart.
CreateDriver(i) ==
  /\ instance[i].at = "driver" /\ LockFree
  /\ Reaches(i, "migrator") /\ UNCHANGED <<schema, ran, lockedBy, starts>>

GiveUpWaiting(i) ==
  /\ instance[i].at \in {"driver", "migrator"} /\ ~LockFree
  /\ Reaches(i, "exited") /\ UNCHANGED <<schema, ran, lockedBy, starts>>

\* m.Up takes the lock and reads the version under it: a dirty one is refused, one
\* the build does not embed is refused, and none pending is no change.
RunUp(i) ==
  /\ instance[i].at = "migrator" /\ LockFree
  /\ IF schema.dirty \/ schema.version > BuildOf[i]
     THEN Reaches(i, "exited") /\ UNCHANGED lockedBy
     ELSE IF schema.version = BuildOf[i]
     THEN Reaches(i, "serving") /\ UNCHANGED lockedBy
     ELSE /\ instance' = [instance EXCEPT ![i].at = "pending", ![i].next = schema.version + 1]
          /\ lockedBy' = lockedBy \cup {i}
  /\ UNCHANGED <<schema, ran, starts>>

\* The version is written dirty, the statements run, the mark is taken off.
BeginMigration(i) ==
  /\ instance[i].at = "pending"
  /\ schema' = [version |-> instance[i].next, dirty |-> TRUE]
  /\ Reaches(i, "begun") /\ UNCHANGED <<ran, lockedBy, starts>>

RunStatements(i) ==
  /\ instance[i].at = "begun"
  /\ ran' = Append(ran, instance[i].next)
  /\ Reaches(i, "done") /\ UNCHANGED <<schema, lockedBy, starts>>

ServeAnyway(i) ==    \* mutant
  /\ instance[i].at = "begun"
  /\ Reaches(i, "serving") /\ lockedBy' = lockedBy \ {i}
  /\ UNCHANGED <<schema, ran, starts>>

\* Its statements are rolled back and the mark stays; the process exits, so that
\* the deployment before it goes on serving.
FailUp(i) ==
  /\ instance[i].at = "begun"
  /\ Reaches(i, "exited") /\ lockedBy' = lockedBy \ {i}
  /\ UNCHANGED <<schema, ran, starts>>

FinishMigration(i) ==
  /\ instance[i].at = "done"
  /\ schema' = [schema EXCEPT !.version = instance[i].next, !.dirty = FALSE]
  /\ IF instance[i].next = BuildOf[i]
     THEN Reaches(i, "serving") /\ lockedBy' = lockedBy \ {i}
     ELSE /\ instance' = [instance EXCEPT ![i].at = "pending", ![i].next = @ + 1]
          /\ UNCHANGED lockedBy
  /\ UNCHANGED <<ran, starts>>

\* Stopped or killed anywhere, an instance leaves the version as it is, and its
\* lock goes with its session.
ShutDown(i) ==
  /\ instance[i].at \in Alive \cup {"unmigrated"}
  /\ Reaches(i, "exited") /\ lockedBy' = lockedBy \ {i}
  /\ UNCHANGED <<schema, ran, starts>>

\* By hand, once nobody migrates: the mark comes off, and the version goes back
\* when its statements never ran.
ForceVersion ==
  /\ schema.dirty /\ lockedBy = {}
  /\ schema' = [dirty |-> FALSE,
                version |-> IF \E k \in DOMAIN ran : ran[k] = schema.version
                            THEN schema.version ELSE schema.version - 1]
  /\ UNCHANGED <<ran, lockedBy, instance, starts>>

InstanceSteps(i) ==
  \/ Boot(i) \/ CheckSchema(i) \/ CreateDriver(i) \/ GiveUpWaiting(i) \/ RunUp(i)
  \/ BeginMigration(i) \/ RunStatements(i) \/ FailUp(i) \/ FinishMigration(i) \/ ShutDown(i)

StartNext == ForceVersion \/ \E i \in Instance : InstanceSteps(i)

StartSpec == StartInit /\ [][StartNext]_startVars

\* Every migration runs once and in order, whatever starts together or dies half
\* way (migrate.go 127-158): the lock is the only thing between two instances that
\* both read an old version.
MigratedOnce == \A k \in DOMAIN ran : ran[k] = k

\* An instance that migrates and serves has at least the schema of its build, and *)
\* its own migration is not half applied (main.go 131-161).
ServesItsSchema ==
  \A i \in Instance : instance[i].at = "serving" =>
    /\ schema.version >= BuildOf[i]
    /\ schema.version = BuildOf[i] => ~schema.dirty

\* The loops behind the API start with it, unless NATS says a worker runs them.
RunsLoops(i) == instance[i].at \in {"serving", "unmigrated"} /\ ~instance[i].nats

\* In production whatever serves also runs the loops behind it (worker.go 45).
BackgroundRuns ==
  \A i \in ProductionIs : instance[i].at \in {"serving", "unmigrated"} => RunsLoops(i)

StartsSound == MigratedOnce /\ ServesItsSchema /\ BackgroundRuns

\* What main.go:106 says of dev without DB_URL, "running without database (only
\* /health will be useful)"; line 335 takes the pool of the database that is nil.
RunsWithoutDatabase == \A i \in Instance : instance[i].at # "panicked"
=============================================================================
