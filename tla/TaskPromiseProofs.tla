------------------------- MODULE TaskPromiseProofs --------------------------
(***************************************************************************)
(* Proofs about TaskRequests, continued: a creation that was acknowledged, *)
(* and what requests that do not overlap keep of AtomicTasks.              *)
(***************************************************************************)
EXTENDS TaskRequestsProofs

-----------------------------------------------------------------------------
(* Identifiers.                                                            *)

\* A creation under way, or through; a change under way.
Creates(r) == op[r] = "create" /\ (Open(r) \/ Committed(r))
Transits(r) == op[r] \in Transitions /\ Open(r)

\* A request not started has read nothing.  Creations and changes are of tasks whose
\* identifier was drawn, each creation's for itself; while it is under way there is
\* no row, and nothing but its new aggregate in memory.
IdsAreFresh ==
    /\ Stored \subseteq issued
    /\ \A r \in Requests :
        /\ pc[r] = "idle" => loaded[r] = Absent /\ existing[r] = Absent
        /\ Creates(r) \/ Transits(r) => target[r] \in issued
        /\ Creates(r) /\ Open(r) =>
            /\ tasks[target[r]] = Absent
            /\ loaded[r] = Absent /\ existing[r] = Absent
            /\ entity[r].owner \in Users
            /\ entity[r] = Created(r, entity[r].owner)
    /\ \A q, r \in Requests :
        /\ Creates(q) /\ Creates(r) /\ target[q] = target[r] => q = r
        /\ Transits(q) /\ Creates(r) /\ Open(r) => target[q] # target[r]

FreshInv == AnsweredLast /\ IdsAreFresh

\* The owner a task was created for is still its owner, in the table and in the
\* memory of whoever is changing it.
OwnerKept ==
    \A r \in Requests : Creates(r) =>
        /\ tasks[target[r]] # Absent => tasks[target[r]].owner = entity[r].owner
        /\ \A q \in Requests :
            Transits(q) /\ target[q] = target[r] => entity[q].owner = entity[r].owner

\* A creation that committed is there, or was deleted, or lost its owner.
ThereOrGone ==
    \A r \in Requests :
        op[r] = "create" /\ Committed(r) /\ tasks[target[r]] = Absent =>
            \/ entity[r].owner \notin users
            \/ \E q \in Requests :
                op[q] = "delete" /\ target[q] = target[r] /\ Committed(q)

CreationInv == OwnerKept /\ ThereOrGone

-----------------------------------------------------------------------------
(* Requests one at a time.                                                 *)

\* A change under way finds the row it read, unless the owner was dropped with its
\* tasks; so past its statement it re-inserts nothing.  What a deletion has locked
\* is there.
AtWork(r) ==
    /\ Transits(r) =>
        /\ \/ tasks[target[r]] = loaded[r]
           \/ tasks[target[r]] = Absent /\ loaded[r].owner \notin users
        /\ pc[r] = "writing" =>
            \/ existing[r] = loaded[r]
            \/ existing[r] = Absent /\ loaded[r].owner \notin users
        /\ pc[r] = "flushed" => existing[r] = loaded[r]
    /\ op[r] = "delete" /\ pc[r] = "flushed" => tasks[target[r]] # Absent

AloneAtWork == \A r \in Requests : AtWork(r)

SerialInv == OneOpen /\ AloneAtWork

\* A task whose deletion committed is gone, and its identifier spent.
DeletedIsSpent ==
    \A r \in Requests :
        op[r] = "delete" /\ Committed(r) =>
            tasks[target[r]] = Absent /\ target[r] \in Spent

-----------------------------------------------------------------------------
(* Identifiers are fresh.                                                  *)

\* A request once started keeps its use case and its task, and one that committed
\* keeps its aggregate.
LEMMA StartedKeeps ==
    ASSUME TypeInv, AnsweredLast, [Next]_vars, NEW r \in Requests, pc[r] # "idle"
    PROVE  /\ pc'[r] # "idle"
           /\ op'[r] = op[r] /\ target'[r] = target[r]
           /\ loaded'[r] = loaded[r] /\ entity'[r] = entity[r]
<1> USE DEF TypeInv, TypeOK
<1>1. ASSUME NEW q \in Requests, NEW t \in Tasks,
            \/ \E o \in Transitions : LoadTask(q, o, t) \/ LoadTaskFails(q, o, t)
            \/ \E u \in Users : CheckOwner(q, u, t)
            \/ GetTask(q, t)
            \/ AskDelete(q, t)
      PROVE  /\ pc'[r] # "idle"
             /\ op'[r] = op[r] /\ target'[r] = target[r]
             /\ loaded'[r] = loaded[r] /\ entity'[r] = entity[r]
  BY <1>1 DEF LoadTask, LoadTaskFails, CheckOwner, GetTask, AskDelete, Arrives,
              Becomes, Ends, store
<1>2. ASSUME NEW q \in Requests,
             \/ AnsweredAtOnce(q) \/ Reload(q) \/ Flush(q) \/ Commit(q) \/ Respond(q)
             \/ Break(q)
      PROVE  /\ pc'[r] # "idle"
             /\ op'[r] = op[r] /\ target'[r] = target[r]
             /\ loaded'[r] = loaded[r] /\ entity'[r] = entity[r]
  BY <1>2
  DEF AnsweredAtOnce, RefuseId, ListTasks, ListTasksByOwner, memory, Reload, Flush,
      Commit, Respond, Break, Arrives, Becomes, Ends
<1>3. ASSUME NEW u \in Users, DropUser(u)
      PROVE  /\ pc'[r] # "idle"
             /\ op'[r] = op[r] /\ target'[r] = target[r]
             /\ loaded'[r] = loaded[r] /\ entity'[r] = entity[r]
  BY <1>3 DEF DropUser, memory
<1>4. CASE UNCHANGED vars
  BY <1>4 DEF vars
<1> QED
  BY <1>1, <1>2, <1>3, <1>4, Steps

\* A step after which no task, creation or change is new.
Passive ==
    /\ UNCHANGED <<users, tasks, issued>>
    /\ \A r \in Requests :
        /\ Creates(r)' => Creates(r)
        /\ Transits(r)' => Transits(r)
        /\ Creates(r)' /\ Open(r)' => Open(r)
        /\ op'[r] = "create" /\ Committed(r)' => Committed(r)
        /\ pc'[r] = "idle" => pc[r] = "idle"
        /\ pc'[r] = "idle" \/ Creates(r)' \/ Transits(r)' =>
            /\ target'[r] = target[r] /\ entity'[r] = entity[r]
            /\ loaded'[r] = loaded[r] /\ existing'[r] = existing[r]

\* The steps of a request are passive but for those that start a creation or a
\* change, reload or commit.
LEMMA PassiveSteps ==
    ASSUME TypeInv, AnsweredLast, NEW r \in Requests,
           \/ \E o \in Transitions, t \in Tasks : LoadTaskFails(r, o, t)
           \/ \E t \in Tasks : GetTask(r, t) \/ AskDelete(r, t)
           \/ AnsweredAtOnce(r) \/ Flush(r) \/ Respond(r) \/ Break(r)
    PROVE  Passive
<1> USE DEF TypeInv, TypeOK, AnsweredLast, Passive, Creates, Transits, Open, Committed
<1>1. ASSUME NEW o \in Transitions, NEW t \in Tasks, LoadTaskFails(r, o, t)
      PROVE  Passive
  BY <1>1 DEF LoadTaskFails, Arrives, Ends, store, Transitions
<1>2. ASSUME NEW t \in Tasks, GetTask(r, t) \/ AskDelete(r, t)
      PROVE  Passive
  BY <1>2 DEF GetTask, AskDelete, Arrives, Becomes, Ends, store, Transitions
<1>3. CASE AnsweredAtOnce(r)
  BY <1>3
  DEF AnsweredAtOnce, RefuseId, ListTasks, ListTasksByOwner, Arrives, Ends, store,
      memory, Transitions
<1>4. CASE Flush(r) \/ Respond(r) \/ Break(r)
  BY <1>4 DEF Flush, Respond, Break, Becomes, Ends, store, memory
<1> QED
  BY <1>1, <1>2, <1>3, <1>4

\* A commit writes to the task of its request, if anywhere, and ends its work.
LEMMA Commits ==
    ASSUME TypeInv, FreshInv, NEW r \in Requests, Commit(r)
    PROVE  /\ target[r] \in Tasks /\ Open(r) /\ ~Open(r)' /\ Committed(r)'
           /\ UNCHANGED <<users, issued, op, target, loaded, entity, existing>>
           /\ \A q \in Requests \ {r} : pc'[q] = pc[q] /\ answer'[q] = answer[q]
           /\ \A t \in Tasks : t # target[r] => tasks'[t] = tasks[t]
           /\ tasks'[target[r]] = IF Writes(r) THEN Written(r) ELSE tasks[target[r]]
           /\ Creates(r) => Writes(r) /\ Written(r) = entity[r]
           /\ op[r] = "delete" => Writes(r) /\ Written(r) = Absent
<1>1. target[r] \in Tasks /\ Open(r)
  BY DEF Commit, Open, TypeInv, InProgress
<1>2. ~Open(r)' /\ Committed(r)'
  BY DEF Commit, Becomes, Open, Committed, TypeInv, TypeOK
<1>3. Creates(r) => Writes(r) /\ Written(r) = entity[r]
  BY <1>1 DEF Creates, FreshInv, IdsAreFresh, Writes, Inserts, Written
<1>4. op[r] = "delete" => Writes(r) /\ Written(r) = Absent
  BY DEF Writes, Written, Inserts
<1>5. /\ UNCHANGED <<users, issued, op, target, loaded, entity, existing>>
      /\ \A q \in Requests \ {r} : pc'[q] = pc[q] /\ answer'[q] = answer[q]
  BY DEF Commit, Becomes, memory, TypeInv, TypeOK
<1>6. /\ \A t \in Tasks : t # target[r] => tasks'[t] = tasks[t]
      /\ tasks'[target[r]] = IF Writes(r) THEN Written(r) ELSE tasks[target[r]]
  BY <1>1 DEF Commit, TypeInv, TypeOK
<1> QED
  BY <1>1, <1>2, <1>3, <1>4, <1>5, <1>6

\* Every step keeps identifiers fresh.
LEMMA NextFresh == TypeInv /\ FreshInv /\ [Next]_vars => FreshInv'
<1> SUFFICES ASSUME TypeInv, FreshInv, [Next]_vars
             PROVE  IdsAreFresh'
  BY NextAnsweredLast DEF FreshInv
<1> USE DEF FreshInv
<1>1. CASE Passive
  <2>1. Stored' = Stored
    BY <1>1 DEF Passive, Stored
  <2> QED
    BY <1>1, <2>1 DEF Passive, IdsAreFresh
<1>2. ASSUME NEW r \in Requests, NEW t \in Tasks, NEW o \in Transitions,
             LoadTask(r, o, t)
      PROVE  IdsAreFresh'
  <2>1. t \in Stored /\ pc[r] = "idle" /\ answer[r] = "none" /\ o # "create"
    BY <1>2 DEF LoadTask, Arrives, Stored, AnsweredLast, Transitions, TypeInv, TypeOK
  <2>2. /\ Stored' = Stored /\ issued' = issued /\ tasks' = tasks
        /\ target'[r] = t /\ op'[r] = o /\ ~Creates(r)' /\ pc'[r] # "idle"
    BY <1>2, <2>1
    DEF LoadTask, Arrives, Becomes, Stored, store, Creates, TypeInv, TypeOK
  <2>3. \A q \in Requests \ {r} :
            /\ Creates(q)' <=> Creates(q)
            /\ Transits(q)' <=> Transits(q)
            /\ Open(q)' <=> Open(q)
            /\ pc'[q] = pc[q] /\ target'[q] = target[q] /\ entity'[q] = entity[q]
            /\ loaded'[q] = loaded[q] /\ existing'[q] = existing[q]
    BY <1>2
    DEF LoadTask, Arrives, Becomes, Creates, Transits, Open, Committed, TypeInv, TypeOK
  <2> QED
    BY <2>1, <2>2, <2>3 DEF IdsAreFresh, Stored
<1>3. ASSUME NEW r \in Requests, NEW t \in Tasks, NEW u \in Users,
             CheckOwner(r, u, t)
      PROVE  IdsAreFresh'
  <2>1. pc[r] = "idle" /\ answer[r] = "none" /\ t \notin issued
    BY <1>3 DEF CheckOwner, Arrives, AnsweredLast, TypeInv, TypeOK
  <2>2. \A q \in Requests \ {r} :
            /\ Creates(q)' <=> Creates(q)
            /\ Transits(q)' <=> Transits(q)
            /\ Open(q)' <=> Open(q)
            /\ pc'[q] = pc[q] /\ target'[q] = target[q] /\ entity'[q] = entity[q]
            /\ loaded'[q] = loaded[q] /\ existing'[q] = existing[q]
    BY <1>3
    DEF CheckOwner, Arrives, Becomes, Ends, Creates, Transits, Open, Committed, TypeInv,
        TypeOK
  <2>3. /\ Stored' = Stored /\ tasks' = tasks /\ issued \subseteq issued'
        /\ target'[r] = t /\ op'[r] = "create" /\ ~Transits(r)' /\ pc'[r] # "idle"
        /\ loaded'[r] = loaded[r] /\ existing'[r] = existing[r]
    BY <1>3
    DEF CheckOwner, Arrives, Becomes, Ends, Stored, Transits, Transitions, TypeInv,
        TypeOK
  <2>4. Creates(r)' => t \in issued' /\ entity'[r] = Created(r, u)
    BY <1>3, <2>1
    DEF CheckOwner, Becomes, Ends, Creates, Open, Committed, TypeInv, TypeOK
  <2>5. Created(r, u).owner = u
    BY CreatedRow
  <2>6. tasks[t] = Absent
    BY <2>1 DEF IdsAreFresh, Stored
  <2> QED
    BY <2>1, <2>2, <2>3, <2>4, <2>5, <2>6 DEF IdsAreFresh
<1>4. ASSUME NEW r \in Requests, Reload(r)
      PROVE  IdsAreFresh'
  <2>1. /\ Stored' = Stored /\ tasks' = tasks /\ issued' = issued
        /\ target' = target /\ entity' = entity /\ loaded' = loaded
        /\ existing'[r] \in {tasks[target[r]], loaded[r]}
        /\ pc'[r] # "idle" /\ Open(r)
    BY <1>4 DEF Reload, Becomes, Stored, Open, store, TypeInv, TypeOK
  <2>2. \A q \in Requests :
            /\ Creates(q)' <=> Creates(q)
            /\ Transits(q)' <=> Transits(q)
            /\ Open(q)' <=> Open(q)
            /\ q # r => pc'[q] = pc[q] /\ existing'[q] = existing[q]
    BY <1>4
    DEF Reload, Becomes, Creates, Transits, Open, Committed, store, TypeInv, TypeOK
  <2> QED
    BY <2>1, <2>2 DEF IdsAreFresh
<1>5. ASSUME NEW r \in Requests, Commit(r)
      PROVE  IdsAreFresh'
  <2>1. /\ target[r] \in Tasks /\ Open(r) /\ ~Open(r)' /\ Committed(r)'
        /\ UNCHANGED <<users, issued, op, target, loaded, entity, existing>>
        /\ \A q \in Requests \ {r} : pc'[q] = pc[q] /\ answer'[q] = answer[q]
        /\ \A t \in Tasks : t # target[r] => tasks'[t] = tasks[t]
        /\ tasks'[target[r]] = IF Writes(r) THEN Written(r) ELSE tasks[target[r]]
        /\ op[r] = "delete" => Writes(r) /\ Written(r) = Absent
    BY <1>5, Commits
  <2>2. pc'[r] # "idle"
    BY <1>5 DEF Commit, Becomes, TypeInv, TypeOK
  <2>3. /\ Creates(r)' <=> Creates(r)
        /\ ~Transits(r)'
        /\ \A q \in Requests \ {r} : /\ Creates(q)' <=> Creates(q)
                                     /\ Transits(q)' <=> Transits(q)
                                     /\ Open(q)' <=> Open(q)
    BY <2>1 DEF Creates, Transits, Open, Committed
  <2>4. op[r] # "delete" => Creates(r) \/ Transits(r)
    BY <2>1 DEF Creates, Transits, TypeInv, InProgress
  <2>5. Stored' \subseteq issued
    BY <2>1, <2>4 DEF IdsAreFresh, Stored
  <2>6. ASSUME NEW q \in Requests \ {r}, Creates(q), Open(q)
        PROVE  tasks'[target[q]] = Absent
    <3>1. target[q] \in Tasks /\ tasks[target[q]] = Absent
      BY <2>6 DEF IdsAreFresh, TypeInv, InProgress
    <3>2. target[q] = target[r] => op[r] = "delete"
      BY <2>4, <2>6 DEF IdsAreFresh
    <3> QED
      BY <2>1, <3>1, <3>2
  <2> QED
    BY <2>1, <2>2, <2>3, <2>5, <2>6 DEF IdsAreFresh
<1>6. ASSUME NEW u \in Users, DropUser(u)
      PROVE  IdsAreFresh'
  <2>1. /\ \A t \in Tasks : tasks'[t] \in {tasks[t], Absent}
        /\ UNCHANGED <<issued, pc, op, target, loaded, entity, existing, answer>>
    BY <1>6 DEF DropUser, memory
  <2>2. \A q \in Requests : /\ Creates(q)' <=> Creates(q)
                            /\ Transits(q)' <=> Transits(q)
                            /\ Open(q)' <=> Open(q)
    BY <2>1 DEF Creates, Transits, Open, Committed
  <2>3. \A q \in Requests : Creates(q) /\ Open(q) => target[q] \in Tasks
    BY DEF TypeInv, InProgress
  <2> QED
    BY <2>1, <2>2, <2>3 DEF IdsAreFresh, Stored
<1>7. CASE UNCHANGED vars
  BY <1>7 DEF IdsAreFresh, Stored, Creates, Transits, Open, Committed, vars
<1> QED
  BY <1>1, <1>2, <1>3, <1>4, <1>5, <1>6, <1>7, PassiveSteps, Steps

\* Identifiers are fresh in every reachable state.
LEMMA Fresh == Spec => [](TypeInv /\ FreshInv)
<1>1. Init => FreshInv
  BY DEF Init, FreshInv, IdsAreFresh, AnsweredLast, Creates, Transits, Open, Committed,
         Stored
<1>2. TypeInv /\ FreshInv /\ [Next]_vars => FreshInv'
  BY NextFresh
<1> QED
  BY Types, <1>1, <1>2, PTL DEF Spec

-----------------------------------------------------------------------------
(* Acknowledged creations.                                                 *)

\* A deletion that committed stays one.
LEMMA DeletionStays ==
    ASSUME TypeInv, FreshInv, [Next]_vars, NEW q \in Requests,
           op[q] = "delete", Committed(q)
    PROVE  op'[q] = "delete" /\ target'[q] = target[q] /\ Committed(q)'
<1>1. pc[q] # "idle"
  BY DEF Committed, FreshInv, AnsweredLast, TypeInv, TypeOK
<1>2. op'[q] = op[q] /\ target'[q] = target[q]
  BY <1>1, StartedKeeps DEF FreshInv
<1>3. Committed(q)'
  BY SettledGrows DEF Settled, FreshInv
<1> QED
  BY <1>2, <1>3

\* Every step keeps the owner a task was created for.
LEMMA NextOwnerKept ==
    TypeInv /\ FreshInv /\ OwnerKept /\ [Next]_vars => OwnerKept'
<1> SUFFICES ASSUME TypeInv, FreshInv, OwnerKept, [Next]_vars
             PROVE  OwnerKept'
  OBVIOUS
<1>1. CASE Passive
  BY <1>1 DEF Passive, OwnerKept
<1>2. ASSUME NEW r \in Requests, NEW t \in Tasks, NEW o \in Transitions,
             LoadTask(r, o, t)
      PROVE  OwnerKept'
  <2>1. entity'[r].owner = tasks[t].owner
    <3>1. tasks[t] \in Row /\ entity'[r] = Transformed(tasks[t], o, r)
      BY <1>2 DEF LoadTask, TypeInv, TypeOK
    <3> QED
      BY <3>1, TransformedRow
  <2>2. /\ tasks' = tasks /\ tasks[t] # Absent
        /\ target'[r] = t /\ ~Creates(r)'
    BY <1>2 DEF LoadTask, Arrives, store, Creates, Transitions, TypeInv, TypeOK
  <2>3. \A q \in Requests \ {r} :
            /\ Creates(q)' <=> Creates(q)
            /\ Transits(q)' <=> Transits(q)
            /\ target'[q] = target[q] /\ entity'[q] = entity[q]
    BY <1>2
    DEF LoadTask, Arrives, Becomes, Creates, Transits, Open, Committed, TypeInv, TypeOK
  <2> QED
    BY <2>1, <2>2, <2>3 DEF OwnerKept
<1>3. ASSUME NEW r \in Requests, NEW t \in Tasks, NEW u \in Users,
             CheckOwner(r, u, t)
      PROVE  OwnerKept'
  <2>1. /\ tasks' = tasks /\ tasks[t] = Absent /\ t \notin issued
        /\ target'[r] = t /\ ~Transits(r)'
    BY <1>3
    DEF CheckOwner, Arrives, Transits, Transitions, FreshInv, IdsAreFresh, Stored,
        TypeInv, TypeOK
  <2>2. \A q \in Requests \ {r} :
            /\ Creates(q)' <=> Creates(q)
            /\ Transits(q)' <=> Transits(q)
            /\ target'[q] = target[q] /\ entity'[q] = entity[q]
    BY <1>3
    DEF CheckOwner, Arrives, Becomes, Ends, Creates, Transits, Open, Committed, TypeInv,
        TypeOK
  <2>3. \A q \in Requests : Transits(q) => target[q] # t
    BY <2>1 DEF FreshInv, IdsAreFresh
  <2> QED
    BY <2>1, <2>2, <2>3 DEF OwnerKept
<1>4. ASSUME NEW r \in Requests, Reload(r)
      PROVE  OwnerKept'
  <2>1. tasks' = tasks /\ target' = target /\ entity' = entity
    BY <1>4 DEF Reload, store
  <2>2. \A q \in Requests : /\ Creates(q)' <=> Creates(q)
                            /\ Transits(q)' <=> Transits(q)
    BY <1>4
    DEF Reload, Becomes, Creates, Transits, Open, Committed, store, TypeInv, TypeOK
  <2> QED
    BY <2>1, <2>2 DEF OwnerKept
<1>5. ASSUME NEW r \in Requests, Commit(r)
      PROVE  OwnerKept'
  <2>1. /\ target[r] \in Tasks /\ Open(r) /\ ~Open(r)' /\ Committed(r)'
        /\ UNCHANGED <<users, issued, op, target, loaded, entity, existing>>
        /\ \A q \in Requests \ {r} : pc'[q] = pc[q] /\ answer'[q] = answer[q]
        /\ \A t \in Tasks : t # target[r] => tasks'[t] = tasks[t]
        /\ tasks'[target[r]] = IF Writes(r) THEN Written(r) ELSE tasks[target[r]]
        /\ Creates(r) => Writes(r) /\ Written(r) = entity[r]
        /\ op[r] = "delete" => Writes(r) /\ Written(r) = Absent
    BY <1>5, Commits
  <2>2. \A q \in Requests : /\ Creates(q)' <=> Creates(q)
                            /\ Transits(q)' => Transits(q)
    BY <2>1 DEF Creates, Transits, Open, Committed
  <2>3. ASSUME NEW q \in Requests, Creates(q), tasks'[target[q]] # Absent
        PROVE  tasks'[target[q]].owner = entity[q].owner
    <3>1. CASE target[q] # target[r]
      <4>1. tasks'[target[q]] = tasks[target[q]]
        <5>1. CASE target[q] \in Tasks
          BY <2>1, <3>1, <5>1
        <5>2. CASE target[q] \notin Tasks
          <6>1. issued \subseteq Tasks
            BY DEF TypeInv, TypeOK
          <6> QED
            BY <2>3, <5>2, <6>1 DEF FreshInv, IdsAreFresh
        <5> QED
          BY <5>1, <5>2
      <4> QED
        BY <2>3, <4>1 DEF OwnerKept
    <3>2. CASE target[q] = target[r] /\ Creates(r)
      BY <2>1, <2>3, <3>2 DEF FreshInv, IdsAreFresh
    <3>3. CASE target[q] = target[r] /\ op[r] = "delete"
      BY <2>1, <2>3, <3>3
    <3>4. CASE target[q] = target[r] /\ Transits(r) /\ ~Writes(r)
      BY <2>1, <2>3, <3>4 DEF OwnerKept
    <3>5. CASE target[q] = target[r] /\ Transits(r) /\ Inserts(r)
      BY <2>1, <2>3, <3>5 DEF OwnerKept, Writes, Written, Inserts
    <3>6. CASE target[q] = target[r] /\ Transits(r) /\ Updates(r)
      <4>1. tasks[target[r]] \in Row /\ existing[r] \in Row /\ entity[r] \in Row
        BY <1>5, <2>1, <3>6
        DEF Commit, HeldRowStays, Updates, TypeInv, TypeOK, InProgress
      <4>2. tasks'[target[r]] = Updated(tasks[target[r]], existing[r], entity[r])
        BY <2>1, <3>6 DEF Writes, Written, Updates, Inserts
      <4>3. tasks[target[r]] # Absent
        BY <4>1, EntityAssumption
      <4> QED
        BY <2>3, <3>6, <4>1, <4>2, <4>3, UpdatedRow DEF OwnerKept
    <3> QED
      BY <2>1, <3>1, <3>2, <3>3, <3>4, <3>5, <3>6
      DEF Writes, Creates, Transits, TypeInv, InProgress
  <2> QED
    BY <2>1, <2>2, <2>3 DEF OwnerKept
<1>6. ASSUME NEW u \in Users, DropUser(u)
      PROVE  OwnerKept'
  <2>1. /\ \A t \in Tasks : tasks'[t] \in {tasks[t], Absent}
        /\ UNCHANGED <<issued, pc, op, target, loaded, entity, existing, answer>>
    BY <1>6 DEF DropUser, memory
  <2>2. \A q \in Requests : /\ Creates(q)' <=> Creates(q)
                            /\ Transits(q)' <=> Transits(q)
    BY <2>1 DEF Creates, Transits, Open, Committed
  <2>3. \A q \in Requests : Creates(q) => target[q] \in Tasks
    BY DEF FreshInv, IdsAreFresh, TypeInv, TypeOK
  <2> QED
    BY <2>1, <2>2, <2>3 DEF OwnerKept
<1>7. CASE UNCHANGED vars
  BY <1>7 DEF OwnerKept, Creates, Transits, Open, Committed, vars
<1> QED
  BY <1>1, <1>2, <1>3, <1>4, <1>5, <1>6, <1>7, PassiveSteps, Steps DEF FreshInv

\* A created task only goes by a deletion that commits, or with its owner.
LEMMA NextThereOrGone ==
    TypeInv /\ FreshInv /\ CreationInv /\ [Next]_vars => ThereOrGone'
<1> SUFFICES ASSUME TypeInv, FreshInv, CreationInv, [Next]_vars,
                    NEW r \in Requests,
                    op'[r] = "create", Committed(r)', tasks'[target'[r]] = Absent
             PROVE  \/ entity'[r].owner \notin users'
                    \/ \E q \in Requests :
                        op'[q] = "delete" /\ target'[q] = target'[r] /\ Committed(q)'
  BY DEF ThereOrGone
<1> USE DEF CreationInv
<1>1. ASSUME Committed(r), op[r] = "create", tasks[target[r]] = Absent, users' \subseteq users
      PROVE  \/ entity'[r].owner \notin users'
             \/ \E q \in Requests :
                 op'[q] = "delete" /\ target'[q] = target'[r] /\ Committed(q)'
  <2>1. target'[r] = target[r] /\ entity'[r] = entity[r]
    <3>1. pc[r] # "idle"
      BY <1>1 DEF Committed, FreshInv, AnsweredLast, TypeInv, TypeOK
    <3> QED
      BY <3>1, StartedKeeps DEF FreshInv
  <2>2. CASE entity[r].owner \notin users
    BY <1>1, <2>1, <2>2
  <2>3. CASE \E q \in Requests :
                op[q] = "delete" /\ target[q] = target[r] /\ Committed(q)
    BY <2>1, <2>3, DeletionStays
  <2> QED
    BY <1>1, <2>2, <2>3 DEF ThereOrGone
<1>2. CASE Passive
  <2>1. Creates(r)'
    BY DEF Creates
  <2>2. Creates(r) /\ Committed(r) /\ target'[r] = target[r] /\ UNCHANGED <<users, tasks>>
    BY <1>2, <2>1 DEF Passive
  <2> QED
    BY <1>1, <2>2 DEF Creates
<1>3. ASSUME NEW q \in Requests, Commit(q)
      PROVE  \/ entity'[r].owner \notin users'
             \/ \E d \in Requests :
                 op'[d] = "delete" /\ target'[d] = target'[r] /\ Committed(d)'
  <2>1. /\ target[q] \in Tasks /\ Open(q) /\ Committed(q)'
        /\ UNCHANGED <<users, issued, op, target, loaded, entity, existing>>
        /\ \A d \in Requests \ {q} : pc'[d] = pc[d] /\ answer'[d] = answer[d]
        /\ \A t \in Tasks : t # target[q] => tasks'[t] = tasks[t]
        /\ tasks'[target[q]] = IF Writes(q) THEN Written(q) ELSE tasks[target[q]]
        /\ Creates(q) => Writes(q) /\ Written(q) = entity[q]
    BY <1>3, Commits
  <2>2. r # q
    <3>1. SUFFICES ASSUME r = q PROVE FALSE
      OBVIOUS
    <3>2. Creates(q) /\ tasks'[target[q]] = entity[q]
      BY <2>1, <3>1 DEF Creates
    <3>3. entity[q] \in Row
      BY <2>1, <3>1 DEF TypeInv, InProgress
    <3> QED
      BY <2>1, <3>1, <3>2, <3>3, EntityAssumption
  <2>3. Committed(r) /\ op[r] = "create" /\ target'[r] = target[r]
    BY <2>1, <2>2 DEF Committed
  <2>4. CASE tasks[target[r]] = Absent
    BY <1>1, <2>1, <2>3, <2>4
  <2>5. CASE tasks[target[r]] # Absent
    <3>1. target[r] \in Tasks
      BY <2>3 DEF Creates, FreshInv, IdsAreFresh, TypeInv, TypeOK
    <3>2. target[q] = target[r] /\ Writes(q) /\ Written(q) = Absent
      BY <2>1, <2>3, <2>5, <3>1
    <3>3. op[q] = "delete"
      <4>1. op[q] # "delete" => entity[q] \in Row
        BY <2>1 DEF TypeInv, InProgress
      <4>2. CASE Inserts(q)
        BY <3>2, <4>1, <4>2, EntityAssumption DEF Written, Inserts
      <4>3. CASE Updates(q)
        <5>1. tasks[target[q]] \in Row /\ existing[q] \in Row /\ entity[q] \in Row
          BY <1>3, <2>1, <4>3
          DEF Commit, HeldRowStays, Updates, TypeInv, TypeOK, InProgress
        <5>2. Written(q) = Updated(tasks[target[q]], existing[q], entity[q])
          BY <4>3 DEF Written, Updates, Inserts
        <5> QED
          BY <3>2, <5>1, <5>2, UpdatedRow, EntityAssumption
      <4> QED
        BY <3>2, <4>2, <4>3 DEF Writes
    <3> QED
      BY <2>1, <3>2, <3>3
  <2> QED
    BY <2>4, <2>5
<1>4. ASSUME NEW u \in Users, DropUser(u)
      PROVE  \/ entity'[r].owner \notin users'
             \/ \E q \in Requests :
                 op'[q] = "delete" /\ target'[q] = target'[r] /\ Committed(q)'
  <2>1. /\ users' = users \ {u}
        /\ UNCHANGED <<issued, pc, op, target, loaded, entity, existing, answer>>
    BY <1>4 DEF DropUser, memory
  <2>2. Committed(r) /\ op[r] = "create"
    BY <2>1 DEF Committed
  <2>3. CASE tasks[target[r]] = Absent
    BY <1>1, <2>1, <2>2, <2>3
  <2>4. CASE tasks[target[r]] # Absent
    <3>1. target[r] \in Tasks
      BY <2>2 DEF Creates, FreshInv, IdsAreFresh, TypeInv, TypeOK
    <3>2. tasks[target[r]].owner = u
      BY <1>4, <2>1, <2>4, <3>1 DEF DropUser
    <3> QED
      BY <2>1, <2>2, <2>4, <3>2 DEF Creates, OwnerKept
  <2> QED
    BY <2>3, <2>4
<1>5. ASSUME NEW q \in Requests,
             \/ \E o \in Transitions, t \in Tasks : LoadTask(q, o, t)
             \/ \E u \in Users, t \in Tasks : CheckOwner(q, u, t)
             \/ Reload(q)
      PROVE  \/ entity'[r].owner \notin users'
             \/ \E d \in Requests :
                 op'[d] = "delete" /\ target'[d] = target'[r] /\ Committed(d)'
  <2>1. UNCHANGED <<users, tasks>>
    BY <1>5 DEF LoadTask, CheckOwner, Reload, store
  <2>2. Committed(r) /\ op[r] = "create" /\ target'[r] = target[r]
    BY <1>5
    DEF LoadTask, CheckOwner, Reload, Arrives, Becomes, Ends, Committed, FreshInv,
        AnsweredLast, TypeInv, TypeOK, Transitions
  <2> QED
    BY <1>1, <2>1, <2>2
<1>6. CASE UNCHANGED vars
  <2>1. Committed(r) /\ op[r] = "create" /\ UNCHANGED <<users, tasks, target>>
    BY <1>6 DEF vars, Committed
  <2> QED
    BY <1>1, <2>1
<1> QED
  BY <1>2, <1>3, <1>4, <1>5, <1>6, PassiveSteps, Steps DEF FreshInv

\* A creation that was acknowledged is not undone, whatever the interleaving.
THEOREM CreationsStay == Spec => []AcknowledgedCreationStays
<1>1. Init => CreationInv
  BY DEF Init, CreationInv, OwnerKept, ThereOrGone, Creates, Open, Committed
<1>2. TypeInv /\ FreshInv /\ CreationInv /\ [Next]_vars => CreationInv'
  BY NextOwnerKept, NextThereOrGone DEF CreationInv
<1>3. CreationInv => AcknowledgedCreationStays
  BY DEF CreationInv, ThereOrGone, AcknowledgedCreationStays, Committed
<1> QED
  BY Fresh, <1>1, <1>2, <1>3, PTL DEF Spec

-----------------------------------------------------------------------------
(* Requests one at a time: what the one under way relies on.               *)

\* A step of a request other than r, or one that leaves r where it is.
Unmoved(r) ==
    /\ pc'[r] = pc[r] /\ op'[r] = op[r] /\ target'[r] = target[r]
    /\ loaded'[r] = loaded[r] /\ existing'[r] = existing[r] /\ entity'[r] = entity[r]

\* What r relies on stays true if r does not move and its task does not change.
LEMMA UnmovedAtWork ==
    ASSUME NEW r \in Requests, AtWork(r), Unmoved(r), users' = users, tasks' = tasks
    PROVE  AtWork(r)'
BY DEF AtWork, Unmoved, Transits, Open

\* Every step keeps what the request under way relies on.
LEMMA NextAlone == TypeInv /\ FreshInv /\ SerialInv /\ [Next]_vars => AloneAtWork'
<1> SUFFICES ASSUME TypeInv, FreshInv, SerialInv, [Next]_vars,
                    NEW q \in Requests
             PROVE  AtWork(q)'
  BY DEF AloneAtWork
<1> USE DEF SerialInv
<1>0. AtWork(q)
  BY DEF AloneAtWork
<1>1. ASSUME NEW r \in Requests, NEW t \in Tasks, NEW o \in Transitions,
             LoadTask(r, o, t)
      PROVE  AtWork(q)'
  <2>1. CASE q = r
    BY <1>1, <2>1
    DEF LoadTask, Arrives, Becomes, store, AtWork, Transits, Transitions, TypeInv, TypeOK
  <2>2. CASE q # r
    BY <1>0, <1>1, <2>2, UnmovedAtWork
    DEF LoadTask, Arrives, Becomes, store, Unmoved, TypeInv, TypeOK
  <2> QED
    BY <2>1, <2>2
<1>2. ASSUME NEW r \in Requests,
             \/ \E t \in Tasks, o \in Transitions : LoadTaskFails(r, o, t)
             \/ \E t \in Tasks : GetTask(r, t) \/ AskDelete(r, t)
             \/ \E t \in Tasks, u \in Users : CheckOwner(r, u, t)
             \/ AnsweredAtOnce(r) \/ Respond(r) \/ Break(r)
      PROVE  AtWork(q)'
  <2>1. /\ users' = users /\ tasks' = tasks
        /\ q # r => Unmoved(q)
        /\ op'[r] = "create" \/ ~(pc'[r] = "flushed" \/ Transits(r)')
    <3>1. CASE \E t \in Tasks, o \in Transitions : LoadTaskFails(r, o, t)
      BY <3>1
      DEF LoadTaskFails, Arrives, Ends, store, Unmoved, Transits, Open, TypeInv, TypeOK
    <3>2. CASE \E t \in Tasks : GetTask(r, t) \/ AskDelete(r, t)
      BY <3>2
      DEF GetTask, AskDelete, Arrives, Ends, Becomes, store, Unmoved, Transits,
          Transitions, Open, TypeInv, TypeOK
    <3>3. CASE \E t \in Tasks, u \in Users : CheckOwner(r, u, t)
      BY <3>3 DEF CheckOwner, Arrives, Ends, Becomes, Unmoved, TypeInv, TypeOK
    <3>4. CASE AnsweredAtOnce(r) \/ Respond(r) \/ Break(r)
      BY <3>4
      DEF AnsweredAtOnce, RefuseId, ListTasks, ListTasksByOwner, Respond, Break, Arrives,
          Ends, store, memory, Unmoved, Transits, Open, TypeInv, TypeOK
    <3> QED
      BY <1>2, <3>1, <3>2, <3>3, <3>4
  <2>2. CASE q = r
    BY <2>1, <2>2 DEF AtWork, Transits, Transitions
  <2>3. CASE q # r
    BY <1>0, <2>1, <2>3, UnmovedAtWork
  <2> QED
    BY <2>2, <2>3
<1>3. ASSUME NEW r \in Requests, Reload(r)
      PROVE  AtWork(q)'
  <2>1. CASE q = r
    BY <1>0, <1>3, <2>1
    DEF Reload, Becomes, store, AtWork, Transits, Open, TypeInv, TypeOK
  <2>2. CASE q # r
    BY <1>0, <1>3, <2>2, UnmovedAtWork
    DEF Reload, Becomes, store, Unmoved, TypeInv, TypeOK
  <2> QED
    BY <2>1, <2>2
<1>4. ASSUME NEW r \in Requests, Flush(r)
      PROVE  AtWork(q)'
  <2>1. CASE q = r /\ op[r] = "delete"
    BY <1>4, <2>1
    DEF Flush, Becomes, Ends, store, memory, AtWork, Transits, Transitions, Writes,
        Inserts, TypeInv, TypeOK
  <2>2. CASE q = r /\ Transits(r)
    <3>1. loaded[r] \in Row /\ entity[r].owner = loaded[r].owner
      BY <2>2, TransformedRow DEF Transits, TypeInv, InProgress
    <3>2. pc'[r] = "flushed" => existing[r] = loaded[r]
      <4>1. SUFFICES ASSUME pc'[r] = "flushed", existing[r] # loaded[r]
                     PROVE  FALSE
        OBVIOUS
      <4>2. existing[r] = Absent /\ loaded[r].owner \notin users
        BY <1>0, <1>4, <2>2, <4>1 DEF AtWork, Flush
      <4>3. Inserts(r) /\ ~ForeignKeyHolds(r)
        BY <2>2, <3>1, <4>2 DEF Inserts, ForeignKeyHolds, Transits, Transitions
      <4> QED
        BY <1>4, <4>1, <4>3 DEF Flush, Becomes, Ends, Writes, TypeInv, TypeOK
    <3> QED
      BY <1>0, <1>4, <2>2, <3>2
      DEF Flush, Becomes, Ends, store, memory, AtWork, Transits, Transitions, TypeInv,
          TypeOK
  <2>3. CASE q = r /\ op[r] = "create"
    BY <1>4, <2>3 DEF Flush, memory, AtWork, Transits, Transitions
  <2>4. CASE q # r
    BY <1>0, <1>4, <2>4, UnmovedAtWork
    DEF Flush, Becomes, Ends, store, memory, Unmoved, TypeInv, TypeOK
  <2> QED
    BY <1>4, <2>1, <2>2, <2>3, <2>4 DEF Flush, Transits, Open, TypeInv, InProgress
<1>5. ASSUME NEW r \in Requests, Commit(r)
      PROVE  AtWork(q)'
  \* Only one request was under way, and no longer is.
  <2>1. ~Open(q)'
    <3>1. Open(r) /\ ~Open(r)' /\ (q # r => pc'[q] = pc[q])
      BY <1>5, Commits
    <3> QED
      BY <3>1 DEF OneOpen, Open
  <2> QED
    BY <2>1 DEF AtWork, Transits, Open
<1>6. ASSUME NEW u \in Users, DropUser(u)
      PROVE  AtWork(q)'
  <2>1. UNCHANGED <<pc, op, target, loaded, existing, entity>> /\ users' = users \ {u}
    BY <1>6 DEF DropUser, memory
  <2>2. Open(q) => target[q] \in Tasks
    BY DEF TypeInv, InProgress
  <2>3. ASSUME Open(q)
        PROVE  tasks'[target[q]] = IF /\ tasks[target[q]] # Absent
                                      /\ tasks[target[q]].owner = u
                                   THEN Absent ELSE tasks[target[q]]
    BY <1>6, <2>2, <2>3 DEF DropUser
  <2>4. CASE Transits(q)
    BY <1>0, <2>1, <2>3, <2>4 DEF AtWork, Transits, Transitions
  <2>5. CASE op[q] = "delete" /\ pc[q] = "flushed"
    <3>1. tasks[target[q]] # Absent /\ target[q] \in Stored /\ Locked(target[q])
      BY <1>0, <2>2, <2>5 DEF AtWork, Open, Stored, Locked, Holds, Writes
    <3>2. tasks[target[q]].owner # u
      BY <1>6, <3>1 DEF DropUser
    <3> QED
      BY <2>1, <2>3, <2>5, <3>1, <3>2 DEF AtWork, Open, Transits, Transitions
  <2> QED
    BY <2>1, <2>4, <2>5 DEF AtWork, Transits, Open
<1>7. CASE UNCHANGED vars
  BY <1>0, <1>7, UnmovedAtWork DEF Unmoved, vars
<1> QED
  BY <1>1, <1>2, <1>3, <1>4, <1>5, <1>6, <1>7, Steps

\* What holds of every reachable state when requests do not overlap.
SerialInvs == TypeInv /\ OwnerInv /\ FreshInv /\ SerialInv

\* Requests one at a time keep all of it.
LEMMA Serial == SerialSpec => []SerialInvs
<1>1. Init => SerialInvs
  <2>1. ASSUME Init
        PROVE  OwnerInv /\ FreshInv /\ SerialInv
    BY <2>1
    DEF Init, OwnerInv, OwnerIntegrity, HeldOwner, Stored, Row, FreshInv, IdsAreFresh,
        AnsweredLast, Creates, Transits, Open, Committed, SerialInv, OneOpen,
        AloneAtWork, AtWork
  <2> QED
    BY <2>1, InitTypeInv DEF SerialInvs
<1>2. SerialInvs /\ [Next /\ OneOpen']_vars => SerialInvs'
  <2> SUFFICES ASSUME SerialInvs, [Next /\ OneOpen']_vars
               PROVE  SerialInvs'
    OBVIOUS
  <2>1. [Next]_vars
    OBVIOUS
  <2>2. TypeInv' /\ OwnerInv' /\ FreshInv' /\ AloneAtWork'
    BY <2>1, NextTypes, NextLocks, NextOwner, NextFresh, NextAlone
    DEF SerialInvs, TypeInv
  <2>3. OneOpen'
    BY DEF SerialInvs, SerialInv, OneOpen, Open, vars
  <2> QED
    BY <2>2, <2>3 DEF SerialInvs, SerialInv
<1> QED
  BY <1>1, <1>2, PTL DEF SerialSpec

-----------------------------------------------------------------------------
(* Requests one at a time implement AtomicTasks.                           *)

\* A step that neither draws an identifier nor starts or ends a creation spends none.
LEMMA NothingSpent ==
    ASSUME UNCHANGED issued,
           \A q \in Requests :
            /\ op'[q] = "create" /\ Open(q)' <=> op[q] = "create" /\ Open(q)
            /\ op[q] = "create" /\ Open(q) => target'[q] = target[q]
    PROVE  Spent' = Spent
BY DEF Spent

\* A creation that ends, however it does, spends the identifier it drew.
LEMMA CreationSpends ==
    ASSUME TypeInv, FreshInv, UNCHANGED issued,
           NEW r \in Requests, op[r] = "create", Open(r), ~Open(r)',
           \A q \in Requests \ {r} :
            /\ op'[q] = "create" /\ Open(q)' <=> op[q] = "create" /\ Open(q)
            /\ op[q] = "create" /\ Open(q) => target'[q] = target[q]
    PROVE  /\ target[r] \in Tasks /\ target[r] \notin Spent
           /\ Spent' = Spent \union {target[r]}
<1>1. target[r] \in issued /\ target[r] \in Tasks
  BY DEF FreshInv, IdsAreFresh, Creates, TypeInv, TypeOK
<1>2. \A q \in Requests \ {r} : op[q] = "create" /\ Open(q) => target[q] # target[r]
  BY DEF FreshInv, IdsAreFresh, Creates
<1> QED
  BY <1>1, <1>2 DEF Spent

\* The identifier of a stored task is spent.
LEMMA StoredIsSpent ==
    ASSUME FreshInv
    PROVE  Stored \subseteq Spent
BY DEF FreshInv, IdsAreFresh, Spent, Creates, Stored

\* A creation that ends without committing wastes its identifier, and every step of
\* a request but its commit leaves the promise alone otherwise.
LEMMA UncommittedStep ==
    ASSUME TypeInv, FreshInv, NEW r \in Requests,
           \/ \E t \in Tasks, o \in Transitions :
                LoadTask(r, o, t) \/ LoadTaskFails(r, o, t)
           \/ \E t \in Tasks : GetTask(r, t) \/ AskDelete(r, t)
           \/ \E t \in Tasks, u \in Users : CheckOwner(r, u, t)
           \/ AnsweredAtOnce(r) \/ Reload(r) \/ Flush(r) \/ Respond(r) \/ Break(r)
    PROVE  UNCHANGED <<users, tasks, Spent>> \/ \E t \in Tasks : Promise!Waste(t)
<1> USE DEF TypeInv, TypeOK
<1>1. UNCHANGED <<users, tasks>>
  BY DEF LoadTask, LoadTaskFails, GetTask, AskDelete, CheckOwner, AnsweredAtOnce,
         RefuseId, ListTasks, ListTasksByOwner, Reload, Flush, Respond, Break, store
<1>2. ASSUME NEW t \in Tasks, NEW u \in Users, CheckOwner(r, u, t)
      PROVE  Spent' = Spent
  <2>1. \A q \in Requests \ {r} :
            /\ op'[q] = "create" /\ Open(q)' <=> op[q] = "create" /\ Open(q)
            /\ target'[q] = target[q]
    BY <1>2 DEF CheckOwner, Arrives, Ends, Becomes, Open
  <2>2. t \notin issued /\ target'[r] = t /\ op'[r] = "create" /\ ~Open(r)
    BY <1>2 DEF CheckOwner, Arrives, Open
  <2>3. \/ issued' = issued /\ ~Open(r)'
        \/ issued' = issued \union {t} /\ Open(r)'
    BY <1>2 DEF CheckOwner, Ends, Becomes, Open
  <2> QED
    BY <2>1, <2>2, <2>3 DEF Spent
<1>3. CASE \/ \E t \in Tasks, o \in Transitions :
                LoadTask(r, o, t) \/ LoadTaskFails(r, o, t)
           \/ \E t \in Tasks : GetTask(r, t) \/ AskDelete(r, t)
           \/ AnsweredAtOnce(r) \/ Reload(r)
  <2>1. /\ issued' = issued
        /\ \A q \in Requests :
            /\ op'[q] = "create" /\ Open(q)' <=> op[q] = "create" /\ Open(q)
            /\ op[q] = "create" /\ Open(q) => target'[q] = target[q]
    <3>1. CASE \E t \in Tasks, o \in Transitions :
                 LoadTask(r, o, t) \/ LoadTaskFails(r, o, t)
      BY <3>1
      DEF LoadTask, LoadTaskFails, Arrives, Ends, Becomes, store, Open, Transitions
    <3>2. CASE \E t \in Tasks : GetTask(r, t) \/ AskDelete(r, t)
      BY <3>2 DEF GetTask, AskDelete, Arrives, Ends, Becomes, store, Open
    <3>3. CASE AnsweredAtOnce(r) \/ Reload(r)
      BY <3>3
      DEF AnsweredAtOnce, RefuseId, ListTasks, ListTasksByOwner, Reload, Arrives, Ends,
          Becomes, store, memory, Open
    <3> QED
      BY <1>3, <3>1, <3>2, <3>3
  <2> QED
    BY <1>1, <2>1, NothingSpent
<1>4. CASE Flush(r) \/ Respond(r) \/ Break(r)
  <2>1. /\ UNCHANGED <<issued, op, target>>
        /\ \A q \in Requests \ {r} : Open(q)' <=> Open(q)
        /\ Open(r)' => Open(r)
    BY <1>4 DEF Flush, Respond, Break, Ends, Becomes, store, memory, Open
  <2>2. CASE op[r] = "create" /\ Open(r) /\ ~Open(r)'
    <3>1. /\ target[r] \in Tasks /\ target[r] \notin Spent
          /\ Spent' = Spent \union {target[r]}
      BY <2>1, <2>2, CreationSpends
    <3> QED
      BY <1>1, <3>1 DEF Promise!Waste
  <2>3. CASE ~(op[r] = "create" /\ Open(r) /\ ~Open(r)')
    <3>1. \A q \in Requests :
            op'[q] = "create" /\ Open(q)' <=> op[q] = "create" /\ Open(q)
      BY <2>1, <2>3
    <3> QED
      BY <1>1, <2>1, <3>1, NothingSpent
  <2> QED
    BY <2>2, <2>3
<1> QED
  BY <1>1, <1>2, <1>3, <1>4

\* A commit is the step AtomicTasks allows for its use case, all at once.
LEMMA CommitStep ==
    ASSUME SerialInvs, NEW r \in Requests, Commit(r)
    PROVE  \/ UNCHANGED <<users, tasks, Spent>>
           \/ \E u \in Users : Promise!Create(r, target[r], u) /\ target[r] \in Tasks
           \/ \E o \in Transitions : Promise!Change(r, target[r], o) /\ target[r] \in Tasks
           \/ Promise!Delete(target[r]) /\ target[r] \in Tasks
<1> USE DEF SerialInvs
<1>1. /\ target[r] \in Tasks /\ Open(r) /\ ~Open(r)'
      /\ UNCHANGED <<users, issued, op, target, loaded, entity, existing>>
      /\ \A q \in Requests \ {r} : pc'[q] = pc[q]
      /\ tasks' = IF Writes(r) THEN [tasks EXCEPT ![target[r]] = Written(r)] ELSE tasks
      /\ Creates(r) => Writes(r) /\ Written(r) = entity[r]
      /\ op[r] = "delete" => Writes(r) /\ Written(r) = Absent
  BY Commits DEF Commit
<1>2. pc[r] = "flushed" /\ AtWork(r)
  BY DEF Commit, SerialInv, AloneAtWork
<1>3. \A q \in Requests \ {r} : Open(q)' <=> Open(q)
  BY <1>1 DEF Open
<1>4. CASE op[r] = "create"
  <2>1. /\ target[r] \notin Spent
        /\ Spent' = Spent \union {target[r]}
    BY <1>1, <1>3, <1>4, CreationSpends
  <2>2. PICK u \in Users : u = entity[r].owner /\ entity[r] = Created(r, u)
    BY <1>1, <1>4 DEF FreshInv, IdsAreFresh, Creates
  <2>3. existing[r] = Absent
    BY <1>1, <1>4 DEF FreshInv, IdsAreFresh, Creates
  <2>4. u \in users
    BY <1>2, <1>4, <2>2, <2>3 DEF OwnerInv, HeldOwner, Inserts
  <2>5. tasks' = [tasks EXCEPT ![target[r]] = Created(r, u)]
    BY <1>1, <1>4, <2>2 DEF Creates
  <2>6. Promise!Create(r, target[r], u)
    BY <1>1, <2>1, <2>4, <2>5 DEF Promise!Create, Promise!Created, Created
  <2> QED
    BY <1>1, <2>6
<1>5. Spent' = Spent \/ op[r] = "create"
  BY <1>1, <1>3, NothingSpent
<1>6. CASE Transits(r)
  <2>1. loaded[r] \in Row /\ existing[r] = loaded[r] /\ existing[r] # Absent
    BY <1>2, <1>6, EntityAssumption DEF AtWork, Transits, TypeInv, InProgress
  <2>2. CASE tasks[target[r]] = loaded[r]
    <3>1. Promise!Change(r, target[r], op[r]) /\ op[r] \in Transitions
      BY <1>6, <2>1, <2>2, UndisturbedChange DEF Transits
    <3> QED
      BY <1>1, <3>1
  <2>3. CASE tasks[target[r]] = Absent
    <3>1. ~Updates(r)
      BY <1>2, <2>3 DEF TypeInv, HeldRowStays
    <3>2. ~Writes(r) /\ op[r] # "create"
      BY <1>6, <2>1, <3>1 DEF Writes, Inserts, Transits, Transitions
    <3> QED
      BY <1>1, <1>5, <3>2
  <2> QED
    BY <1>2, <1>6, <2>2, <2>3 DEF AtWork
<1>7. CASE op[r] = "delete"
  <2>1. tasks[target[r]] # Absent
    BY <1>2, <1>7 DEF AtWork
  <2> QED
    BY <1>1, <1>5, <1>7, <2>1 DEF Promise!Delete
<1> QED
  BY <1>1, <1>4, <1>6, <1>7 DEF Transits, TypeInv, InProgress

\* Every step of requests that do not overlap is one AtomicTasks allows, or none.
LEMMA PromiseStep ==
    ASSUME SerialInvs, [Next]_vars
    PROVE  [Promise!Next]_<<users, tasks, Spent>>
<1> USE DEF SerialInvs
<1>1. ASSUME NEW r \in Requests,
             \/ \E t \in Tasks, o \in Transitions :
                  LoadTask(r, o, t) \/ LoadTaskFails(r, o, t)
             \/ \E t \in Tasks : GetTask(r, t) \/ AskDelete(r, t)
             \/ \E t \in Tasks, u \in Users : CheckOwner(r, u, t)
             \/ AnsweredAtOnce(r) \/ Reload(r) \/ Flush(r) \/ Respond(r) \/ Break(r)
      PROVE  [Promise!Next]_<<users, tasks, Spent>>
  <2>1. UNCHANGED <<users, tasks, Spent>> \/ \E t \in Tasks : Promise!Waste(t)
    BY <1>1, UncommittedStep
  <2> QED
    BY <2>1 DEF Promise!Next
<1>2. ASSUME NEW r \in Requests, Commit(r)
      PROVE  [Promise!Next]_<<users, tasks, Spent>>
  <2>1. \/ UNCHANGED <<users, tasks, Spent>>
        \/ \E u \in Users : Promise!Create(r, target[r], u) /\ target[r] \in Tasks
        \/ \E o \in Transitions : Promise!Change(r, target[r], o) /\ target[r] \in Tasks
        \/ Promise!Delete(target[r]) /\ target[r] \in Tasks
    BY <1>2, CommitStep
  <2>2. Promise!Transitions = Transitions
    BY DEF Promise!Transitions, Transitions
  <2> QED
    BY <2>1, <2>2 DEF Promise!Next
<1>3. ASSUME NEW u \in Users, DropUser(u)
      PROVE  [Promise!Next]_<<users, tasks, Spent>>
  <2>1. Spent' = Spent
    BY <1>3 DEF DropUser, memory, Spent, Open
  <2>2. Promise!DropUser(u)
    BY <1>3, <2>1 DEF DropUser, Promise!DropUser
  <2> QED
    BY <2>2 DEF Promise!Next
<1>4. CASE UNCHANGED vars
  BY <1>4 DEF vars, Spent, Open
<1> QED
  BY <1>1, <1>2, <1>3, <1>4, Steps

\* Requests run one at a time implement the specification of atomic use cases.
THEOREM SerialRequestsKeepPromise == SerialSpec => KeepsPromise
<1>1. Init => Promise!Init
  <2>1. ASSUME Init PROVE Spent = Stored
    BY <2>1 DEF Init, Spent, Open
  <2> QED
    BY <2>1
    DEF Init, Promise!Init, Stored, Promise!Row, Row, Promise!Authors, Authors,
        Promise!Status, Status, Promise!Reconstitutes, Reconstitutes
<1>2. SerialInvs /\ [Next /\ OneOpen']_vars => [Promise!Next]_(Promise!vars)
  BY PromiseStep DEF Promise!vars
<1> QED
  BY Serial, <1>1, <1>2, PTL DEF SerialSpec, KeepsPromise, Promise!Spec

-----------------------------------------------------------------------------
(* What the promise gives.                                                 *)

\* A step the promise allows keeps the date of a task it leaves completed, brings
\* back no task whose identifier was spent, and takes back no identifier.
LEMMA PromisedStep ==
    ASSUME TypeOK, Stored \subseteq Spent, [Promise!Next]_<<users, tasks, Spent>>,
           NEW t \in Tasks
    PROVE  /\ tasks[t] # Absent /\ tasks'[t] # Absent /\ tasks[t].completedAt # Null
              => tasks'[t].completedAt = tasks[t].completedAt
           /\ tasks[t] = Absent /\ t \in Spent => tasks'[t] = Absent
           /\ Spent \subseteq Spent'
<1> USE DEF TypeOK
<1>1. CASE UNCHANGED <<users, tasks, Spent>>
  BY <1>1
<1>2. ASSUME NEW r \in Requests, NEW s \in Tasks, NEW u \in Users,
             Promise!Create(r, s, u)
      PROVE  /\ tasks[t] # Absent => tasks'[t] = tasks[t]
             /\ tasks[t] = Absent /\ t \in Spent => tasks'[t] = Absent
             /\ Spent \subseteq Spent'
  BY <1>2 DEF Promise!Create, Stored
<1>3. ASSUME NEW r \in Requests, NEW s \in Tasks, NEW o \in Transitions,
             Promise!Change(r, s, o)
      PROVE  /\ tasks[t] # Absent /\ tasks'[t] # Absent /\ tasks[t].completedAt # Null
                => tasks'[t].completedAt = tasks[t].completedAt
             /\ tasks[t] = Absent /\ t \in Spent => tasks'[t] = Absent
             /\ Spent \subseteq Spent'
  <2>1. /\ tasks[s] # Absent /\ Reconstitutes(tasks[s]) /\ ~Refuses(tasks[s], o)
        /\ tasks' = [tasks EXCEPT ![s] = Transformed(tasks[s], o, r)]
        /\ Spent' = Spent
    BY <1>3
    DEF Promise!Change, Promise!Reconstitutes, Reconstitutes, Promise!Refuses, Refuses,
        Promise!Transformed, Transformed
  <2>2. tasks[s] \in Row
    BY <2>1
  <2>3. tasks[s].completedAt # Null => o = "rename"
    BY <2>1 DEF Reconstitutes, Refuses, Transitions
  <2>4. o = "rename" => Transformed(tasks[s], o, r).completedAt = tasks[s].completedAt
    BY <2>2 DEF Transformed, Row
  <2> QED
    BY <2>1, <2>3, <2>4
<1>4. ASSUME NEW s \in Tasks, Promise!Waste(s) \/ Promise!Delete(s)
      PROVE  tasks'[t] \in {tasks[t], Absent} /\ Spent \subseteq Spent'
  BY <1>4 DEF Promise!Waste, Promise!Delete
<1>5. ASSUME NEW u \in Users, Promise!DropUser(u)
      PROVE  tasks'[t] \in {tasks[t], Absent} /\ Spent \subseteq Spent'
  BY <1>5 DEF Promise!DropUser
<1>6. Promise!Transitions = Transitions
  BY DEF Promise!Transitions, Transitions
<1> QED
  BY <1>1, <1>2, <1>3, <1>4, <1>5, <1>6 DEF Promise!Next

\* A completed task keeps its date when requests do not overlap.
THEOREM FirstCompletion == SerialSpec => FirstCompletionKept
<1> DEFINE Kept ==
        \A t \in Tasks :
            /\ tasks[t] # Absent /\ tasks'[t] # Absent
            /\ tasks[t].completedAt # Null
            => tasks'[t].completedAt = tasks[t].completedAt
<1>1. SerialInvs /\ [Next /\ OneOpen']_vars => [Kept]_vars
  <2> SUFFICES ASSUME SerialInvs, Next
               PROVE  Kept
    OBVIOUS
  <2>1. TypeOK /\ Stored \subseteq Spent /\ [Promise!Next]_<<users, tasks, Spent>>
    BY PromiseStep, StoredIsSpent DEF SerialInvs, TypeInv
  <2> QED
    BY <2>1, PromisedStep
<1> QED
  BY Serial, <1>1, PTL DEF SerialSpec, FirstCompletionKept

\* A deletion that commits finds the task it deletes, and nothing brings it back.
LEMMA NextDeleted ==
    SerialInvs /\ DeletedIsSpent /\ [Next]_vars => DeletedIsSpent'
<1> SUFFICES ASSUME SerialInvs, DeletedIsSpent, [Next]_vars,
                    NEW r \in Requests, op'[r] = "delete", Committed(r)'
             PROVE  tasks'[target'[r]] = Absent /\ target'[r] \in Spent'
  BY DEF DeletedIsSpent
<1> USE DEF SerialInvs
<1>1. TypeOK /\ Stored \subseteq Spent /\ [Promise!Next]_<<users, tasks, Spent>>
  BY PromiseStep, StoredIsSpent DEF TypeInv
<1>2. CASE Committed(r)
  <2>1. op'[r] = op[r] /\ target'[r] = target[r]
    <3>1. pc[r] # "idle"
      BY <1>2 DEF Committed, FreshInv, AnsweredLast, TypeInv, TypeOK
    <3> QED
      BY <3>1, StartedKeeps DEF FreshInv
  <2>2. tasks[target[r]] = Absent /\ target[r] \in Spent
    BY <1>2, <2>1 DEF DeletedIsSpent
  <2>3. target[r] \in Tasks
    BY <2>2 DEF Spent, TypeInv, TypeOK
  <2> QED
    BY <1>1, <2>1, <2>2, <2>3, PromisedStep
<1>3. CASE ~Committed(r)
  <2>1. Commit(r)
    BY <1>3, Steps
    DEF LoadTask, LoadTaskFails, CheckOwner, GetTask, AskDelete, AnsweredAtOnce,
        RefuseId, ListTasks, ListTasksByOwner, memory, Reload, Flush, Commit,
        Respond, Break, DropUser, Arrives, Becomes, Ends, Committed, Open, Transitions,
        vars, FreshInv, AnsweredLast, TypeInv, TypeOK
  <2>2. /\ target[r] \in Tasks /\ op[r] = "delete" /\ target'[r] = target[r]
        /\ tasks'[target[r]] = Absent
    BY <2>1, Commits
  <2>3. target[r] \in Stored
    BY <2>1, <2>2 DEF Commit, SerialInv, AloneAtWork, AtWork, Stored
  <2> QED
    BY <1>1, <2>2, <2>3, PromisedStep
<1> QED
  BY <1>2, <1>3

\* A task whose deletion was acknowledged is gone for good when requests do not
\* overlap.
THEOREM DeletionsStay == SerialSpec => []DeletedStaysDeleted
<1>1. Init => DeletedIsSpent
  BY DEF Init, DeletedIsSpent, Committed
<1>2. SerialInvs /\ DeletedIsSpent /\ [Next /\ OneOpen']_vars => DeletedIsSpent'
  BY NextDeleted
<1>3. DeletedIsSpent => DeletedStaysDeleted
  BY DEF DeletedIsSpent, DeletedStaysDeleted, Committed
<1> QED
  BY Serial, <1>1, <1>2, <1>3, PTL DEF SerialSpec

\* A row the domain accepts, created in the past, is left so by every transition.
LEMMA TransformedReads ==
    ASSUME NEW row \in Row, NEW o \in Transitions, NEW r \in Requests,
           Reconstitutes(row), ~Refuses(row, o), row.created = "past"
    PROVE  /\ Reconstitutes(Transformed(row, o, r))
           /\ Transformed(row, o, r).created = "past"
<1>1. r # Null
  BY EntityAssumption DEF Authors
<1>2. CASE o = "start"
  BY <1>2 DEF Transformed, Reconstitutes, Refuses, Row, Status
<1>3. CASE o = "complete"
  BY <1>1, <1>3 DEF Transformed, Reconstitutes, Refuses, Row, Status
<1>4. CASE o = "rename"
  BY <1>4 DEF Transformed, Reconstitutes, Row
<1> QED
  BY <1>2, <1>3, <1>4 DEF Transitions

\* Every stored row is one the domain accepts, created in the past.
ReadableInv ==
    \A t \in Stored : Reconstitutes(tasks[t]) /\ tasks[t].created = "past"

\* Every step the promise allows keeps stored rows readable.
LEMMA NextReadable ==
    SerialInvs /\ ReadableInv /\ [Next]_vars => ReadableInv'
<1> SUFFICES ASSUME SerialInvs, ReadableInv, [Next]_vars
             PROVE  ReadableInv'
  OBVIOUS
<1>1. TypeOK /\ [Promise!Next]_<<users, tasks, Spent>>
  BY PromiseStep DEF SerialInvs, TypeInv
<1> USE DEF TypeOK, ReadableInv, Stored
<1>2. CASE UNCHANGED <<users, tasks, Spent>>
  BY <1>2
<1>3. ASSUME NEW r \in Requests, NEW t \in Tasks, NEW u \in Users,
             Promise!Create(r, t, u)
      PROVE  ReadableInv'
  <2>1. Reconstitutes(Created(r, u)) /\ Created(r, u).created = "past"
    BY DEF Reconstitutes, Created
  <2> QED
    BY <1>1, <1>3, <2>1 DEF Promise!Create, Promise!Created, Created
<1>4. ASSUME NEW r \in Requests, NEW t \in Tasks, NEW o \in Transitions,
             Promise!Change(r, t, o)
      PROVE  ReadableInv'
  <2>1. /\ tasks[t] # Absent /\ ~Refuses(tasks[t], o)
        /\ tasks' = [tasks EXCEPT ![t] = Transformed(tasks[t], o, r)]
    BY <1>4
    DEF Promise!Change, Promise!Refuses, Refuses, Promise!Transformed, Transformed
  <2>2. /\ Reconstitutes(Transformed(tasks[t], o, r))
        /\ Transformed(tasks[t], o, r).created = "past"
    BY <1>1, <2>1, TransformedReads
  <2> QED
    BY <1>1, <2>1, <2>2
<1>5. ASSUME NEW t \in Tasks, Promise!Waste(t) \/ Promise!Delete(t)
      PROVE  ReadableInv'
  BY <1>1, <1>5 DEF Promise!Waste, Promise!Delete
<1>6. ASSUME NEW u \in Users, Promise!DropUser(u)
      PROVE  ReadableInv'
  BY <1>1, <1>6 DEF Promise!DropUser
<1>7. Promise!Transitions = Transitions
  BY DEF Promise!Transitions, Transitions
<1> QED
  BY <1>1, <1>2, <1>3, <1>4, <1>5, <1>6, <1>7 DEF Promise!Next

\* When no task came with a creation date in the future, requests that do not
\* overlap leave every stored task readable.
THEOREM TasksReadable == "ahead" \notin Ages /\ SerialSpec => []StoredTasksReadable
<1>1. "ahead" \notin Ages /\ Init => ReadableInv
  <2>1. "ahead" \notin Ages => \A a \in Ages : a = "past"
    BY EntityAssumption
  <2> QED
    BY <2>1, EntityAssumption DEF Init, ReadableInv, Stored
<1>2. SerialInvs /\ ReadableInv /\ [Next /\ OneOpen']_vars => ReadableInv'
  BY NextReadable
<1>3. ReadableInv => StoredTasksReadable
  BY DEF ReadableInv, StoredTasksReadable
<1> QED
  BY Serial, <1>1, <1>2, <1>3, PTL DEF SerialSpec
=============================================================================
