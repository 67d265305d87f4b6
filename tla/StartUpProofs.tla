---------------------------- MODULE StartUpProofs ----------------------------
(***************************************************************************)
(* The schema has one maker, for any number of pods, workers and runs of   *)
(* alembic, of deaths and of outages.                                      *)
(*                                                                         *)
(* The argument is about transactions: what an open one has created is a   *)
(* prefix of what it set out to create, nobody else has created or stored  *)
(* any of it, and one that set out to create less than everything found    *)
(* the users stored, so that it creates nothing.                           *)
(***************************************************************************)
EXTENDS StartUp, SequenceTheorems, TLAPS

\* Nothing in hand.
AtRest(p) == looked[p] = 0 /\ missing[p] = <<>> /\ mine[p] = {}

\* create_all has looked for the users and not yet for the tasks, or for neither.
HalfLooked(w) ==
    /\ mine[w] = {}
    /\ \/ looked[w] = 0 /\ missing[w] = <<>>
       \/ /\ looked[w] = 1
          /\ missing[w] = <<"users">> \/ (missing[w] = <<>> /\ Stored("users"))

\* create_all creates both tables, or finds that others have made them.
WorkerCreates(w) ==
    /\ looked[w] = 0
    /\ \/ missing[w] = <<"users", "tasks">> /\ mine[w] = {}
       \/ missing[w] = <<"tasks">> /\ mine[w] = {"users"}
       \/ missing[w] = <<>> /\ mine[w] = {"users", "tasks"}
       \/ missing[w] \in {<<>>, <<"users">>} /\ mine[w] = {} /\ Stored("users")

\* alembic creates everything, in order.
UpgradeCreates(u) ==
    /\ looked[u] = 0
    /\ \/ missing[u] = Revision /\ mine[u] = {}
       \/ missing[u] = <<"users", "tasks">> /\ mine[u] = {Version}
       \/ missing[u] = <<"tasks">> /\ mine[u] = {Version, "users"}
       \/ missing[u] = <<>> /\ mine[u] = {Version, "users", "tasks"}

Variables ==
    /\ init_db \in BOOLEAN
    /\ schema \in [Tables -> {None, "create_all", "alembic"}]
    /\ broker \in BOOLEAN
    /\ pc \in [Processes -> {"off", "looking", "creating", "connecting", "serving",
                             "completed"}]
    /\ \A w \in Workers : pc[w] # "completed"
    /\ \A u \in Upgrades : pc[u] \notin {"connecting", "serving"}
    /\ DOMAIN looked = Processes /\ looked = [p \in Processes |-> looked[p]]
    /\ DOMAIN missing = Processes /\ missing = [p \in Processes |-> missing[p]]
    /\ DOMAIN mine = Processes /\ mine = [p \in Processes |-> mine[p]]
    /\ failures \in 0..Failures
    /\ outages \in 0..Outages

InProgress(p) ==
    /\ pc[p] \notin {"looking", "creating"} => AtRest(p)
    /\ pc[p] = "looking" => IF p \in Workers THEN HalfLooked(p) ELSE AtRest(p)
    /\ pc[p] = "creating" => IF p \in Workers THEN WorkerCreates(p) ELSE UpgradeCreates(p)

\* A table in creation is in one transaction, and not stored.
OneCreator ==
    \A p \in Processes : \A t \in mine[p] :
        /\ ~Stored(t)
        /\ \A q \in Processes \ {p} : t \notin mine[q]

SchemaInv ==
    /\ Variables
    /\ \A p \in Processes : InProgress(p)
    /\ OneCreator
    /\ SchemaHasOneMaker

-----------------------------------------------------------------------------

\* A list grows by one table.
LEMMA AppendTwo == ASSUME NEW a, NEW b PROVE Append(<<a>>, b) = <<a, b>>
<1> DEFINE S == {a, b}
<1>1. <<a>> \in Seq(S) /\ <<a, b>> \in Seq(S) /\ b \in S
  OBVIOUS
<1>2. Append(<<a>>, b) \in Seq(S) /\ Len(Append(<<a>>, b)) = 2
  BY <1>1
<1>3. \A i \in 1..2 : Append(<<a>>, b)[i] = <<a, b>>[i]
  BY <1>1
<1> QED  BY <1>1, <1>2, <1>3, SeqEqual, Len(<<a, b>>) = 2

\* The lists of tables, taken apart and put together one table at a time.
LEMMA Lists ==
    /\ Head(Revision) = Version /\ Tail(Revision) = <<"users", "tasks">>
    /\ Head(Metadata) = "users" /\ Tail(Metadata) = <<"tasks">>
    /\ Head(<<"tasks">>) = "tasks" /\ Tail(<<"tasks">>) = <<>>
    /\ Head(<<"users">>) = "users" /\ Tail(<<"users">>) = <<>>
    /\ Append(<<>>, "users") = <<"users">>
    /\ Append(<<"users">>, "tasks") = <<"users", "tasks">>
    /\ Len(Metadata) = 2 /\ Metadata[1] = "users" /\ Metadata[2] = "tasks"
BY AppendTwo DEF Revision, Metadata

\* One list is not another.
LEMMA ListsDiffer ==
    /\ <<>> # <<"users">> /\ <<>> # <<"tasks">>
    /\ <<>> # <<"users", "tasks">> /\ <<>> # Revision
BY DEF Revision

-----------------------------------------------------------------------------
(* Steps.                                                                  *)

SameFor(q) ==
    /\ pc'[q] = pc[q] /\ looked'[q] = looked[q]
    /\ missing'[q] = missing[q] /\ mine'[q] = mine[q]

\* A process that works on its own list, creating at most what is free, keeps the
\* invariant.
LEMMA OneProcess ==
    ASSUME SchemaInv, NEW p \in Processes, UNCHANGED schema, Variables', InProgress(p)',
           \A q \in Processes \ {p} : SameFor(q),
           \A t \in mine'[p] :
                \/ t \in mine[p]
                \/ ~Stored(t) /\ \A q \in Processes \ {p} : t \notin mine[q]
    PROVE  SchemaInv'
<1>1. SchemaHasOneMaker' /\ \A t : Stored(t)' <=> Stored(t)
  BY DEF SchemaInv, SchemaHasOneMaker, Stored
<1>2. \A q \in Processes \ {p} : InProgress(q)'
  BY <1>1
  DEF SchemaInv, InProgress, SameFor, AtRest, HalfLooked, WorkerCreates, UpgradeCreates
<1>3. OneCreator'
  BY <1>1 DEF SchemaInv, OneCreator, SameFor
<1> QED  BY <1>1, <1>2, <1>3 DEF SchemaInv

\* Processes that are gone have nothing in hand.
LEMMA StopKeepsInv ==
    ASSUME SchemaInv, NEW S, Stop(S), UNCHANGED schema,
           init_db' = init_db, broker' \in BOOLEAN,
           failures' \in 0..Failures, outages' \in 0..Outages
    PROVE  SchemaInv'
<1>1. SchemaHasOneMaker' /\ \A t : Stored(t)' <=> Stored(t)
  BY DEF SchemaInv, SchemaHasOneMaker, Stored
<1>2. \A q \in Processes : SameFor(q) \/ (AtRest(q)' /\ pc'[q] = "off")
  <2>1. ASSUME NEW q \in Processes, q \in S PROVE AtRest(q)' /\ pc'[q] = "off"
    BY <2>1 DEF Stop, AtRest
  <2>2. ASSUME NEW q \in Processes, q \notin S PROVE SameFor(q)
    BY <2>2 DEF Stop, SameFor
  <2> QED  BY <2>1, <2>2
<1>3. \A q \in Processes : InProgress(q)'
  BY <1>1, <1>2
  DEF SchemaInv, InProgress, SameFor, AtRest, HalfLooked, WorkerCreates, UpgradeCreates
<1>4. OneCreator'
  BY <1>1, <1>2 DEF SchemaInv, OneCreator, SameFor, AtRest
<1>5. Variables'
  BY DEF SchemaInv, Variables, Stop, Processes
<1> QED  BY <1>1, <1>3, <1>4, <1>5 DEF SchemaInv

\* An exception is the end of some processes.
LEMMA FailureKeepsInv ==
    ASSUME SchemaInv, NEW p \in Processes, Fails(p),
           UNCHANGED <<init_db, schema, broker, failures, outages>>
    PROVE  SchemaInv'
BY StopKeepsInv DEF Fails, SchemaInv, Variables

\* A process that starts has nothing in hand.
LEMMA StartKeepsInv ==
    ASSUME SchemaInv, NEW p \in Processes, Start(p)
    PROVE  SchemaInv'
<1>1. InProgress(p)
  BY DEF SchemaInv
<1>2. Variables' /\ \A q \in Processes \ {p} : SameFor(q)
  BY StartUpAssumption DEF SchemaInv, Variables, Start, SameFor, Processes
<1>3. pc'[p] \in {"looking", "connecting"} /\ (p \in Upgrades => pc'[p] = "looking")
  BY DEF Start, SchemaInv, Variables
<1>4. InProgress(p)'
  BY <1>1, <1>3 DEF Start, InProgress, AtRest, HalfLooked
<1> QED  BY <1>2, <1>4, OneProcess DEF Start

\* A process that looks decides, and makes nothing.
LEMMA LookKeepsInv ==
    ASSUME SchemaInv, NEW w \in Processes, LookFor(w)
    PROVE  SchemaInv'
<1>1. w \in Workers /\ HalfLooked(w)
  BY DEF SchemaInv, InProgress, LookFor
<1>2. Variables' /\ \A q \in Processes \ {w} : SameFor(q)
  BY <1>1, Lists DEF SchemaInv, Variables, LookFor, SameFor, Processes, HalfLooked
<1>3. InProgress(w)'
  <2>1. CASE looked[w] = 0
    <3>1. looked'[w] = 1 /\ pc'[w] = "looking" /\ mine'[w] = {}
      BY <1>1, <2>1, Lists DEF LookFor, SchemaInv, Variables, HalfLooked
    <3>2. missing'[w] = IF Stored("users") THEN <<>> ELSE <<"users">>
      BY <1>1, <2>1, Lists DEF LookFor, SchemaInv, Variables, HalfLooked
    <3>3. Stored("users")' <=> Stored("users")
      BY DEF LookFor, Stored
    <3>4. HalfLooked(w)'
      BY <3>1, <3>2, <3>3 DEF HalfLooked
    <3> QED  BY <1>1, <3>1, <3>4 DEF InProgress
  <2>2. CASE looked[w] = 1
    <3>1. looked'[w] = 0 /\ pc'[w] = "creating" /\ mine'[w] = {}
      BY <1>1, <2>2, Lists DEF LookFor, SchemaInv, Variables, HalfLooked
    <3>2. Stored("tasks") <=> Stored("users")
      BY DEF SchemaInv, SchemaHasOneMaker, Stored, Tables, Version
    <3>3. CASE Stored("tasks")
      <4>1. missing'[w] = missing[w]
        BY <1>1, <2>2, <3>3, Lists DEF LookFor, SchemaInv, Variables
      <4> QED  BY <1>1, <2>2, <3>1, <3>2, <3>3, <4>1
               DEF InProgress, HalfLooked, WorkerCreates, LookFor, Stored
    <3>4. CASE ~Stored("tasks")
      <4>1. missing[w] = <<"users">>
        BY <1>1, <2>2, <3>2, <3>4 DEF HalfLooked
      <4>2. missing'[w] = Append(missing[w], "tasks")
        <5>1. Metadata[looked[w] + 1] = "tasks"
          BY <2>2, Lists
        <5> QED  BY <3>4, <5>1 DEF LookFor, SchemaInv, Variables
      <4>3. missing'[w] = <<"users", "tasks">>
        BY <4>1, <4>2, Lists
      <4> QED  BY <1>1, <3>1, <4>3 DEF InProgress, WorkerCreates
    <3> QED  BY <3>3, <3>4
  <2> QED  BY <1>1, <2>1, <2>2 DEF HalfLooked
<1> QED  BY <1>2, <1>3, OneProcess DEF LookFor

\* Reading the version makes nothing.
LEMMA ReadVersionKeepsInv ==
    ASSUME SchemaInv, NEW u \in Processes, ReadVersion(u)
    PROVE  SchemaInv'
<1>1. u \in Upgrades /\ u \notin Workers /\ AtRest(u)
  BY StartUpAssumption DEF SchemaInv, InProgress, ReadVersion
<1>2. Variables' /\ \A q \in Processes \ {u} : SameFor(q)
  BY <1>1 DEF SchemaInv, Variables, ReadVersion, SameFor, Processes
<1>3. InProgress(u)'
  BY <1>1 DEF InProgress, AtRest, UpgradeCreates, ReadVersion, SchemaInv, Variables
<1> QED  BY <1>2, <1>3, OneProcess DEF ReadVersion

\* A table made is in one transaction, and was in no other.
LEMMA CreateKeepsInv ==
    ASSUME SchemaInv, NEW p \in Processes, Create(p)
    PROVE  SchemaInv'
<1> DEFINE t == Head(missing[p])
<1>1. CASE Stored(t)
  BY <1>1, FailureKeepsInv DEF Create
<1>2. CASE ~Stored(t)
  <2>1. /\ missing'[p] = Tail(missing[p]) /\ mine'[p] = mine[p] \union {t}
        /\ pc'[p] = "creating" /\ looked'[p] = looked[p]
    BY <1>2 DEF Create, SchemaInv, Variables
  <2>2. Variables' /\ \A q \in Processes \ {p} : SameFor(q)
    BY <1>2 DEF SchemaInv, Variables, Create, SameFor, Processes
  <2>3. InProgress(p)'
    <3>1. CASE p \in Workers
      <4>1. WorkerCreates(p) /\ missing[p] # <<>>
        BY <3>1 DEF SchemaInv, InProgress, Create
      <4>2. WorkerCreates(p)'
        BY <1>2, <2>1, <4>1, Lists DEF WorkerCreates, Metadata
      <4> QED  BY <2>1, <3>1, <4>2 DEF InProgress
    <3>2. CASE p \notin Workers
      <4>1. UpgradeCreates(p) /\ missing[p] # <<>>
        BY <3>2 DEF SchemaInv, InProgress, Create
      <4>2. UpgradeCreates(p)'
        <5>1. CASE missing[p] = Revision /\ mine[p] = {}
          BY <2>1, <4>1, <5>1, Lists DEF UpgradeCreates
        <5>2. CASE missing[p] = Metadata /\ mine[p] = {Version}
          BY <2>1, <4>1, <5>2, Lists DEF UpgradeCreates
        <5>3. CASE missing[p] = <<"tasks">> /\ mine[p] = {Version, "users"}
          BY <2>1, <4>1, <5>3, Lists DEF UpgradeCreates
        <5> QED  BY <4>1, <5>1, <5>2, <5>3 DEF UpgradeCreates, Metadata
      <4> QED  BY <2>1, <3>2, <4>2 DEF InProgress
    <3> QED  BY <3>1, <3>2
  <2> QED  BY <1>2, <2>1, <2>2, <2>3, OneProcess DEF Create
<1> QED  BY <1>1, <1>2

\* A transaction that has made something has made all its maker makes, and nothing
\* of it was there.
LEMMA CommitsAreWhole ==
    ASSUME SchemaInv, NEW p \in Processes, pc[p] = "creating", missing[p] = <<>>,
           mine[p] # {}
    PROVE  /\ mine[p] = IF p \in Workers THEN {"users", "tasks"} ELSE Tables
           /\ \A t \in Tables : ~Stored(t)
<1>1. mine[p] = IF p \in Workers THEN {"users", "tasks"} ELSE Tables
  BY ListsDiffer
  DEF SchemaInv, InProgress, WorkerCreates, UpgradeCreates, Tables, Metadata
<1>2. ~Stored("users")
  BY <1>1 DEF SchemaInv, OneCreator, Tables
<1> QED  BY <1>1, <1>2, StartUpAssumption
         DEF SchemaInv, SchemaHasOneMaker, Stored, Tables, Version

\* A commit stores all that one transaction made.
LEMMA CommitKeepsInv ==
    ASSUME SchemaInv, NEW p \in Processes, Commit(p)
    PROVE  SchemaInv'
<1>1. pc[p] = "creating" /\ missing[p] = <<>>
  BY DEF Commit
<1>2. looked[p] = 0
  BY <1>1 DEF SchemaInv, InProgress, WorkerCreates, UpgradeCreates
<1>3. /\ mine'[p] = {} /\ missing'[p] = <<>> /\ looked'[p] = 0
      /\ pc'[p] = IF p \in Workers THEN "connecting" ELSE "completed"
  BY <1>1, <1>2 DEF Commit, SchemaInv, Variables
<1>4. InProgress(p)'
  BY <1>3 DEF InProgress, AtRest
<1>5. \A q \in Processes \ {p} : SameFor(q)
  BY DEF Commit, SchemaInv, Variables, SameFor
<1>6. Variables'
  BY StartUpAssumption DEF Commit, SchemaInv, Variables, Processes, Maker
<1>7. \A t \in Tables : schema'[t] = IF t \in mine[p] THEN Maker(p) ELSE schema[t]
  BY DEF Commit
<1>8. mine[p] \subseteq Tables
  BY <1>1, CommitsAreWhole DEF Tables
<1>9. \A t \in Tables : Stored(t)' <=> (Stored(t) \/ t \in mine[p])
  BY <1>7, StartUpAssumption DEF Stored, Maker
<1>10. \A q \in Processes \ {p} : InProgress(q)'
  <2>1. Stored("users") => Stored("users")'
    BY <1>9 DEF Tables
  <2> QED  BY <1>5, <2>1 DEF SchemaInv, InProgress, SameFor, AtRest, HalfLooked,
                             WorkerCreates, UpgradeCreates
<1>11. OneCreator'
  <2>1. ASSUME NEW q \in Processes, NEW t \in mine'[q]
        PROVE  ~Stored(t)' /\ \A r \in Processes \ {q} : t \notin mine'[r]
    <3>1. q # p /\ t \in mine[q]
      BY <1>3, <1>5 DEF SameFor
    <3>2. ~Stored(t) /\ t \notin mine[p] /\ \A r \in Processes \ {q} : t \notin mine[r]
      BY <3>1 DEF SchemaInv, OneCreator
    <3>3. t \in Tables
      BY <3>1, ListsDiffer
      DEF SchemaInv, InProgress, AtRest, HalfLooked, WorkerCreates, UpgradeCreates, Tables
    <3> QED  BY <1>3, <1>5, <1>9, <3>2, <3>3 DEF SameFor
  <2> QED  BY <2>1 DEF OneCreator
<1>12. SchemaHasOneMaker'
  <2>1. CASE mine[p] = {}
    BY <1>7, <2>1 DEF SchemaInv, SchemaHasOneMaker
  <2>2. CASE mine[p] # {}
    <3>1. /\ mine[p] = IF p \in Workers THEN {"users", "tasks"} ELSE Tables
          /\ \A t \in Tables : ~Stored(t)
      BY <1>1, <2>2, CommitsAreWhole
    <3>2. \A t \in Tables :
            schema'[t] = IF t = Version /\ Maker(p) = "create_all" THEN None ELSE Maker(p)
      BY <1>7, <3>1 DEF Stored, Maker, Tables, Version
    <3> QED  BY <3>2 DEF SchemaHasOneMaker, Maker
  <2> QED  BY <2>1, <2>2
<1> QED  BY <1>4, <1>6, <1>10, <1>11, <1>12 DEF SchemaInv

\* Connecting to the broker has nothing to do with tables.
LEMMA ConnectKeepsInv ==
    ASSUME SchemaInv, NEW w \in Processes, Connect(w)
    PROVE  SchemaInv'
<1>1. CASE ~broker
  BY <1>1, FailureKeepsInv DEF Connect
<1>2. CASE broker
  <2>1. w \in Workers /\ AtRest(w)
    BY DEF Connect, SchemaInv, InProgress
  <2>2. Variables' /\ \A q \in Processes \ {w} : SameFor(q)
    BY <1>2, <2>1, StartUpAssumption DEF SchemaInv, Variables, Connect, SameFor, Processes
  <2>3. InProgress(w)'
    BY <1>2, <2>1 DEF InProgress, AtRest, Connect, SchemaInv, Variables
  <2>4. mine'[w] = mine[w]
    BY <1>2 DEF Connect
  <2> QED  BY <1>2, <2>2, <2>3, <2>4, OneProcess DEF Connect
<1> QED  BY <1>1, <1>2

\* What a process that dies had made is gone.
LEMMA DeathKeepsInv ==
    ASSUME SchemaInv, NEW p \in Processes, Die(p)
    PROVE  SchemaInv'
<1>1. failures' \in 0..Failures
  BY StartUpAssumption DEF Die, SchemaInv, Variables
<1> QED  BY <1>1, StopKeepsInv DEF Die, SchemaInv, Variables

\* A step that touches no process and no table.
LEMMA ElsewhereKeepsInv ==
    ASSUME SchemaInv, UNCHANGED <<init_db, schema, pc, looked, missing, mine>>,
           broker' \in BOOLEAN, failures' \in 0..Failures, outages' \in 0..Outages
    PROVE  SchemaInv'
<1>1. SchemaHasOneMaker' /\ \A t : Stored(t)' <=> Stored(t)
  BY DEF SchemaInv, SchemaHasOneMaker, Stored
<1>2. \A p \in Processes : SameFor(p)
  BY DEF SameFor
<1>3. \A p \in Processes : InProgress(p)'
  BY <1>1, <1>2
  DEF SchemaInv, InProgress, SameFor, AtRest, HalfLooked, WorkerCreates, UpgradeCreates
<1>4. OneCreator'
  BY <1>1, <1>2 DEF SchemaInv, OneCreator, SameFor
<1>5. Variables'
  BY DEF SchemaInv, Variables
<1> QED  BY <1>1, <1>3, <1>4, <1>5 DEF SchemaInv

\* The broker's comings and goings.
LEMMA BrokerKeepsInv ==
    ASSUME SchemaInv, GoDown \/ ComeBack
    PROVE  SchemaInv'
<1>1. Outages \in Nat /\ failures \in 0..Failures /\ outages \in 0..Outages
  BY StartUpAssumption DEF SchemaInv, Variables
<1>2. CASE GoDown
  <2>1. broker' \in BOOLEAN /\ outages < Outages /\ outages' = outages + 1
    BY <1>2 DEF GoDown
  <2>2. outages' \in 0..Outages
    BY <1>1, <2>1
  <2>3. failures' \in 0..Failures
    BY <1>1, <1>2 DEF GoDown
  <2> QED  BY <1>2, <2>1, <2>2, <2>3, ElsewhereKeepsInv DEF GoDown
<1>3. CASE ComeBack
  BY <1>1, <1>3, ElsewhereKeepsInv DEF ComeBack
<1> QED  BY <1>2, <1>3

-----------------------------------------------------------------------------
(* Theorems.                                                               *)

\* No table is there at first.
LEMMA SchemaInvStarts == Init => SchemaInv
<1> SUFFICES ASSUME Init PROVE SchemaInv
  OBVIOUS
<1>1. Variables
  BY StartUpAssumption DEF Init, Variables, Processes
<1>2. \A p \in Processes : InProgress(p)
  BY DEF Init, InProgress, AtRest
<1>3. OneCreator
  BY DEF Init, OneCreator
<1>4. SchemaHasOneMaker
  BY DEF Init, SchemaHasOneMaker
<1> QED  BY <1>1, <1>2, <1>3, <1>4 DEF SchemaInv

\* Every step keeps the invariant.
LEMMA SchemaInvStays == SchemaInv /\ [Next]_vars => SchemaInv'
<1> SUFFICES ASSUME SchemaInv, [Next]_vars PROVE SchemaInv'
  OBVIOUS
<1>1. CASE UNCHANGED vars
  BY <1>1, ElsewhereKeepsInv DEF vars, SchemaInv, Variables
<1>2. ASSUME NEW p \in Processes, Step(p) PROVE SchemaInv'
  BY <1>2, StartKeepsInv, LookKeepsInv, ReadVersionKeepsInv, CreateKeepsInv,
     CommitKeepsInv, ConnectKeepsInv DEF Step
<1>3. ASSUME NEW p \in Processes, Die(p) PROVE SchemaInv'
  BY <1>3, DeathKeepsInv
<1>4. CASE GoDown \/ ComeBack
  BY <1>4, BrokerKeepsInv
<1> QED  BY <1>1, <1>2, <1>3, <1>4 DEF Next

\* What an open transaction has in hand is always a part of what its maker makes,
\* that nobody else has and that is not stored.
THEOREM SchemaInvHolds == Spec => []SchemaInv
BY SchemaInvStarts, SchemaInvStays, PTL DEF Spec

\* The invariant implies the types.
LEMMA SchemaInvTypes == SchemaInv => TypeOK
<1> SUFFICES ASSUME SchemaInv PROVE TypeOK
  OBVIOUS
<1> DEFINE AllLists == {<<>>, <<"users">>, <<"tasks">>, <<"users", "tasks">>, Revision}
<1>1. ASSUME NEW p \in Processes
      PROVE  looked[p] \in {0, 1} /\ missing[p] \in AllLists /\ mine[p] \subseteq Tables
  <2>1. CASE WorkerCreates(p)
    BY <2>1 DEF WorkerCreates, Tables
  <2>2. CASE UpgradeCreates(p)
    BY <2>2 DEF UpgradeCreates, Tables
  <2>3. CASE AtRest(p)
    BY <2>3 DEF AtRest
  <2>4. CASE HalfLooked(p)
    BY <2>4 DEF HalfLooked
  <2> QED  BY <2>1, <2>2, <2>3, <2>4 DEF SchemaInv, InProgress
<1>2. ASSUME NEW p \in Processes
      PROVE  /\ pc[p] # "creating" => missing[p] = <<>> \/ pc[p] = "looking"
             /\ pc[p] # "creating" => mine[p] = {}
  BY DEF SchemaInv, InProgress, AtRest, HalfLooked
<1>3. AllLists \subseteq Seq(Tables)
  BY DEF Tables, Revision
<1>4. looked \in [Processes -> 0..Len(Metadata)]
  BY <1>1, Lists DEF SchemaInv, Variables
<1> QED  BY <1>1, <1>2, <1>3, <1>4 DEF SchemaInv, Variables, TypeOK

\* Every variable keeps its type, and only open transactions have tables in hand.
THEOREM StartUpTypes == Spec => []TypeOK
BY SchemaInvHolds, SchemaInvTypes, PTL

\* However many workers, pods and upgrades race to make the schema, and whoever dies
\* when, it comes whole from one transaction of one of them, or is not there.
THEOREM OneMaker == Spec => []SchemaHasOneMaker
<1>1. SchemaInv => SchemaHasOneMaker
  BY DEF SchemaInv
<1> QED  BY <1>1, SchemaInvHolds, PTL
=============================================================================
