------------------------------ MODULE StartUp -------------------------------
(***************************************************************************)
(* The processes of the API coming up, and the schema they need.           *)
(*                                                                         *)
(* A pod is a gunicorn master with several workers, each of which runs the *)
(* lifespan of create_app: create_all when init_db is set, then a          *)
(* connection to RabbitMQ that is not retried.  A worker whose lifespan    *)
(* raises makes its master stop the whole pod, which the orchestrator      *)
(* starts again.  A worker that dies later is replaced by the master.      *)
(*                                                                         *)
(* The schema comes from create_all or from alembic upgrade head, each in  *)
(* one transaction.  Both look first and create afterwards.  PostgreSQL    *)
(* makes the creation of a table wait while another transaction has        *)
(* created one of that name, and fails it once that has committed.         *)
(* Without init_db the pods are only deployed once an upgrade completed.   *)
(*                                                                         *)
(* The robust connection of a worker that serves survives an outage of the *)
(* broker.  /ready is left out: no deployment probes it.                   *)
(***************************************************************************)
EXTENDS Naturals, Sequences

CONSTANTS
    Workers,        \* gunicorn workers
    PodOf,          \* PodOf[w]: the pod of worker w
    Upgrades,       \* runs of alembic upgrade head, by a job or by hand
    Failures,       \* bound: how often a process dies
    Outages,        \* bound: how often the broker goes away
    None

ASSUME StartUpAssumption ==
    /\ Workers \intersect Upgrades = {}
    /\ DOMAIN PodOf = Workers
    /\ Failures \in Nat /\ Outages \in Nat
    /\ None \notin {"create_all", "alembic"}

VARIABLES
    init_db,        \* Settings.init_db of this deployment
    schema,         \* schema[t]: what made the committed table t, None before
    broker,         \* whether RabbitMQ accepts connections
    pc,
    looked,         \* looked[p]: how many tables create_all has looked for
    missing,        \* missing[p]: tables p has still to create, in order
    mine,           \* mine[p]: tables the open transaction of p has created
    failures, outages

vars == <<init_db, schema, broker, pc, looked, missing, mine, failures, outages>>

Processes == Workers \union Upgrades

\* Base.metadata in the order of its foreign keys, and what 001_initial creates.
Metadata == <<"users", "tasks">>
Version == "alembic_version"
Revision == <<Version, "users", "tasks">>
Tables == {"users", "tasks", Version}

Maker(p) == IF p \in Workers THEN "create_all" ELSE "alembic"

Stored(t) == schema[t] # None

TypeOK ==
    /\ init_db \in BOOLEAN
    /\ schema \in [Tables -> {None, "create_all", "alembic"}]
    /\ broker \in BOOLEAN
    /\ pc \in [Processes -> {"off", "looking", "creating", "connecting", "serving",
                             "completed"}]
    /\ \A w \in Workers : pc[w] # "completed"
    /\ \A u \in Upgrades : pc[u] \notin {"connecting", "serving"}
    /\ looked \in [Processes -> 0..Len(Metadata)]
    /\ \A p \in Processes :
        /\ missing[p] \in Seq(Tables) /\ mine[p] \subseteq Tables
        /\ pc[p] # "creating" => missing[p] = <<>> \/ pc[p] = "looking"
        /\ pc[p] # "creating" => mine[p] = {}
    /\ failures \in 0..Failures
    /\ outages \in 0..Outages

-----------------------------------------------------------------------------

Init ==
    /\ init_db \in BOOLEAN
    /\ schema = [t \in Tables |-> None]
    /\ broker \in BOOLEAN
    /\ pc = [p \in Processes |-> "off"]
    /\ looked = [p \in Processes |-> 0]
    /\ missing = [p \in Processes |-> <<>>]
    /\ mine = [p \in Processes |-> {}]
    /\ failures = 0 /\ outages = 0

\* Processes S are gone, and their transactions with them.
Stop(S) ==
    /\ pc' = [p \in Processes |-> IF p \in S THEN "off" ELSE pc[p]]
    /\ looked' = [p \in Processes |-> IF p \in S THEN 0 ELSE looked[p]]
    /\ missing' = [p \in Processes |-> IF p \in S THEN <<>> ELSE missing[p]]
    /\ mine' = [p \in Processes |-> IF p \in S THEN {} ELSE mine[p]]

\* An exception ends p: a worker before it serves takes its pod along.
Fails(p) == Stop(IF p \in Workers THEN {w \in Workers : PodOf[w] = PodOf[p]} ELSE {p})

\* A worker enters its lifespan, or alembic runs env.py.
Start(p) ==
    /\ pc[p] = "off"
    /\ p \in Workers /\ ~init_db => Stored(Version)
    /\ pc' = [pc EXCEPT ![p] =
                IF p \in Upgrades \/ init_db THEN "looking" ELSE "connecting"]
    /\ UNCHANGED <<init_db, schema, broker, looked, missing, mine, failures, outages>>

\* A create_all that does not look (checkfirst=False).
LookAway(w) ==
    /\ w \in Workers /\ pc[w] = "looking"
    /\ missing' = [missing EXCEPT ![w] = Metadata]
    /\ pc' = [pc EXCEPT ![w] = "creating"]
    /\ UNCHANGED <<init_db, schema, broker, looked, mine, failures, outages>>

\* create_all looks for its tables one by one, and only then creates.
LookFor(w) ==
    /\ w \in Workers /\ pc[w] = "looking"
    /\ LET t == Metadata[looked[w] + 1] IN
        missing' = [missing EXCEPT ![w] = IF Stored(t) THEN @ ELSE Append(@, t)]
    /\ IF looked[w] + 1 < Len(Metadata)
       THEN looked' = [looked EXCEPT ![w] = @ + 1] /\ UNCHANGED pc
       ELSE /\ looked' = [looked EXCEPT ![w] = 0]
            /\ pc' = [pc EXCEPT ![w] = "creating"]
    /\ UNCHANGED <<init_db, schema, broker, mine, failures, outages>>

\* run_migrations reads the version: at the head there is nothing to do.
ReadVersion(u) ==
    /\ u \in Upgrades /\ pc[u] = "looking"
    /\ IF Stored(Version)
       THEN pc' = [pc EXCEPT ![u] = "completed"] /\ UNCHANGED missing
       ELSE /\ pc' = [pc EXCEPT ![u] = "creating"]
            /\ missing' = [missing EXCEPT ![u] = Revision]
    /\ UNCHANGED <<init_db, schema, broker, looked, mine, failures, outages>>

\* A revision written with IF NOT EXISTS.
CreateIfMissing(p) ==
    /\ pc[p] = "creating" /\ missing[p] # <<>>
    /\ LET t == Head(missing[p]) IN
        /\ \A q \in Processes \ {p} : t \notin mine[q]
        /\ mine' = [mine EXCEPT ![p] = IF Stored(t) THEN @ ELSE @ \union {t}]
        /\ missing' = [missing EXCEPT ![p] = Tail(@)]
        /\ UNCHANGED <<pc, looked>>
    /\ UNCHANGED <<init_db, schema, broker, failures, outages>>

\* CREATE TABLE and its indexes, of create_all or of the revision.
Create(p) ==
    /\ pc[p] = "creating" /\ missing[p] # <<>>
    /\ LET t == Head(missing[p]) IN
        /\ \A q \in Processes \ {p} : t \notin mine[q]
        /\ IF Stored(t)
           THEN Fails(p)
           ELSE /\ mine' = [mine EXCEPT ![p] = @ \union {t}]
                /\ missing' = [missing EXCEPT ![p] = Tail(@)]
                /\ UNCHANGED <<pc, looked>>
    /\ UNCHANGED <<init_db, schema, broker, failures, outages>>

\* A commit whose connection goes back to its pool in the same transaction.
CommitAndKeep(p) ==
    /\ pc[p] = "creating" /\ missing[p] = <<>>
    /\ schema' = [t \in Tables |-> IF t \in mine[p] THEN Maker(p) ELSE schema[t]]
    /\ pc' = [pc EXCEPT ![p] = IF p \in Workers THEN "connecting" ELSE "completed"]
    /\ UNCHANGED <<init_db, broker, looked, missing, mine, failures, outages>>

\* The transaction commits: engine.begin, or alembic's begin_transaction.
Commit(p) ==
    /\ pc[p] = "creating" /\ missing[p] = <<>>
    /\ schema' = [t \in Tables |-> IF t \in mine[p] THEN Maker(p) ELSE schema[t]]
    /\ mine' = [mine EXCEPT ![p] = {}]
    /\ pc' = [pc EXCEPT ![p] = IF p \in Workers THEN "connecting" ELSE "completed"]
    /\ UNCHANGED <<init_db, broker, looked, missing, failures, outages>>

\* message_adapter.connect: the first attempt decides.
Connect(w) ==
    /\ w \in Workers /\ pc[w] = "connecting"
    /\ IF broker
       THEN pc' = [pc EXCEPT ![w] = "serving"] /\ UNCHANGED <<looked, missing, mine>>
       ELSE Fails(w)
    /\ UNCHANGED <<init_db, schema, broker, failures, outages>>

\* A process is killed, or a worker exceeds gunicorn's timeout.
Die(p) ==
    /\ pc[p] \notin {"off", "completed"}
    /\ failures < Failures
    /\ failures' = failures + 1
    /\ Stop({p})
    /\ UNCHANGED <<init_db, schema, broker, outages>>

GoDown ==
    /\ broker /\ outages < Outages
    /\ broker' = FALSE
    /\ outages' = outages + 1
    /\ UNCHANGED <<init_db, schema, pc, looked, missing, mine, failures>>

ComeBack ==
    /\ ~broker
    /\ broker' = TRUE
    /\ UNCHANGED <<init_db, schema, pc, looked, missing, mine, failures, outages>>

Step(p) ==
    Start(p) \/ LookFor(p) \/ ReadVersion(p) \/ Create(p) \/ Commit(p) \/ Connect(p)

Next ==
    \/ \E p \in Processes : Step(p) \/ Die(p)
    \/ GoDown
    \/ ComeBack

Spec == Init /\ [][Next]_vars

\* Processes run, and are started again whenever they stop; outages end.
FairSpec == Spec /\ (\A p \in Processes : WF_vars(Step(p))) /\ WF_vars(ComeBack)

-----------------------------------------------------------------------------
(* Properties.                                                             *)

\* All tables come from one transaction of one maker, and the version is there
\* exactly when that was alembic: whoever races whom and dies when, create_all never
\* completes a half-made schema and alembic never stamps tables it did not create.
SchemaHasOneMaker ==
    \E maker \in {None, "create_all", "alembic"} : \A t \in Tables :
        schema[t] = IF t = Version /\ maker = "create_all" THEN None ELSE maker

\* Workers that lose the race to create the schema, or start in an outage, take their
\* pods down, siblings that serve included; once deaths and outages are over every
\* worker nevertheless serves, and on a schema.
EveryWorkerServes ==
    \A w \in Workers : <>[](pc[w] = "serving" /\ Stored("users") /\ Stored("tasks"))
=============================================================================
