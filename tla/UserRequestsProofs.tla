------------------------- MODULE UserRequestsProofs -------------------------
(***************************************************************************)
(* Proofs about UserRequests, for any sets of users, addresses, spellings  *)
(* and requests, with a Redis that may fail and any droppable users.       *)
(***************************************************************************)
EXTENDS UserRequests, TLAPS

-----------------------------------------------------------------------------
(* The invariant.                                                          *)

\* A request not started has read nothing.  One between its first statement and
\* its commit has in memory a user bearing the name it brought, and a creation
\* knows of no earlier row.  A GetUser past the cache works on one user.
InProgress ==
    \A r \in Requests :
        /\ pc[r] = "idle" => loaded[r] = Absent /\ existing[r] = Absent
        /\ Open(r) =>
            /\ op[r] \in {"create", "rename"}
            /\ target[r] \in Ids
            /\ entity[r] \in User
            /\ entity[r].name = r
        /\ Open(r) /\ op[r] = "create" => loaded[r] = Absent /\ existing[r] = Absent
        /\ pc[r] \in {"missed", "read"} => target[r] \in Ids
        /\ pc[r] = "read" => body[r] \in Names

\* Requests work on identifiers that were drawn; that of an open creation is its
\* own, and no row bears it.
IdsAreFresh ==
    /\ Stored \subseteq minted
    /\ \A r \in Requests : Open(r) => target[r] \in minted
    /\ \A r \in Requests : Open(r) /\ op[r] = "create" => users[target[r]] = Absent
    /\ \A q, r \in Requests :
        /\ Open(q) /\ Open(r) /\ target[q] = target[r]
        /\ op[r] = "create"
        => q = r

\* Two uncommitted statements are never about the same row.
OneWriter ==
    \A q, r \in Requests :
        Uncommitted(q) /\ Uncommitted(r) /\ target[q] = target[r] => q = r

\* Until it commits an INSERT finds no row and an UPDATE its row.
HeldRowStays ==
    \A r \in Requests :
        Uncommitted(r) => (Inserts(r) <=> users[target[r]] = Absent)

TypeInv == TypeOK /\ InProgress /\ IdsAreFresh /\ OneWriter /\ HeldRowStays

\* Two uncommitted INSERTs never bring the same address.
OneInserter ==
    \A q, r \in Requests :
        /\ Uncommitted(q) /\ Uncommitted(r)
        /\ Inserts(q) /\ Inserts(r)
        /\ entity[q].email = entity[r].email
        => q = r

\* The address of an uncommitted INSERT is no one's.
HeldEmailIsFree == \A r \in Requests : Uncommitted(r) /\ Inserts(r) => EmailFree(r)

EmailInv ==
    /\ \A u, v \in Stored : users[u].email = users[v].email => u = v
    /\ OneInserter
    /\ HeldEmailIsFree

\* An answered request takes no further step.
AnsweredLast == \A r \in Requests : answer[r] # "none" => pc[r] = "done"

ErrorInv == AnsweredLast /\ NoServerError

\* The names that may be served: those of the requests that have committed.
Settled == {Origin} \union {r \in Requests : Committed(r)}

CleanInv ==
    /\ AnsweredLast
    /\ \A u \in Stored : users[u].name \in Settled
    /\ \A u \in Ids : cache[u] \in Settled \union {Null}
    /\ \A r \in Requests : body[r] \in Settled \union {Null}

-----------------------------------------------------------------------------
(* Sentinels.                                                              *)

\* Absent is no user, and Null no name.
LEMMA Sentinels == Absent \notin User /\ Null \notin Names /\ Null \notin Requests
BY UserAssumption DEF Names

-----------------------------------------------------------------------------
(* Types, requests in progress, identifiers and row locks.                 *)

\* Before any request the types are right, and no identifier or row is taken.
LEMMA InitTypeInv == Init => TypeInv
<1> SUFFICES ASSUME Init PROVE TypeInv
  OBVIOUS
<1>1. users \in [Ids -> User \union {Absent}]
  BY DEF Init, User, Names
<1> QED
  BY <1>1
  DEF Init, TypeInv, TypeOK, InProgress, IdsAreFresh, OneWriter, HeldRowStays, Open,
      Stored, Uncommitted, Phases, Answers

\* A creation that finds its address free draws a new identifier.
LEMMA FindByEmailKeeps ==
    ASSUME TypeInv, NEW r \in Requests, NEW u \in Ids, NEW s \in Spellings,
           FindByEmail(r, u, s)
    PROVE  TypeOK' /\ InProgress' /\ IdsAreFresh'
<1> USE DEF TypeInv
<1>1. ASSUME Email(s) # Null
      PROVE  Created(r, Email(s)) \in User /\ Created(r, Email(s)).name = r
  <2>1. Email(s) \in Emails
    BY <1>1, UserAssumption DEF Email
  <2> QED
    BY <2>1 DEF Created, User, Names
<1>2. NamesOf(u) \subseteq Names
  BY DEF NamesOf, TypeOK, User
<1>3. TypeOK'
  BY <1>1, <1>2
  DEF TypeOK, FindByEmail, Arrives, Ends, Becomes, Operations, Phases, Answers
<1>4. InProgress'
  BY <1>1 DEF TypeOK, InProgress, Open, FindByEmail, Arrives, Ends, Becomes
<1>5. IdsAreFresh'
  <2>1. users[u] = Absent
    BY DEF FindByEmail, IdsAreFresh, Stored
  <2> QED
    BY <2>1 DEF TypeOK, IdsAreFresh, Stored, Open, FindByEmail, Arrives, Ends, Becomes
<1> QED
  BY <1>3, <1>4, <1>5

\* A rename loads a stored user, which no open creation can have drawn.
LEMMA LoadUserKeeps ==
    ASSUME TypeInv, NEW r \in Requests, NEW u \in Ids, LoadUser(r, u)
    PROVE  TypeOK' /\ InProgress' /\ IdsAreFresh'
<1> USE DEF TypeInv
<1>1. ASSUME users[u] # Absent
      PROVE  users[u] \in User /\ Renamed(users[u], r) \in User
             /\ Renamed(users[u], r).name = r
  BY <1>1 DEF TypeOK, Renamed, User, Names
<1>2. NamesOf(u) \subseteq Names
  BY DEF NamesOf, TypeOK, User
<1>3. TypeOK'
  BY <1>1, <1>2
  DEF TypeOK, LoadUser, UserName, Arrives, Ends, Becomes, Operations, Phases, Answers,
      store
<1>4. InProgress'
  BY <1>1 DEF TypeOK, InProgress, Open, LoadUser, UserName, Arrives, Ends, Becomes
<1>5. IdsAreFresh'
  BY DEF TypeOK, IdsAreFresh, Stored, Open, LoadUser, Arrives, Ends, Becomes, store
<1> QED
  BY <1>3, <1>4, <1>5

\* An instance reloaded by a creation is none: no row bears its identifier.
LEMMA ReloadKeeps ==
    ASSUME TypeInv, NEW r \in Requests, Reload(r)
    PROVE  TypeOK' /\ InProgress' /\ IdsAreFresh'
<1> USE DEF TypeInv
<1>1. target[r] \in Ids
  BY DEF Reload, InProgress, Open
<1>2. TypeOK'
  BY <1>1 DEF TypeOK, Reload, Becomes, store, Phases
<1>3. op[r] = "create" => users[target[r]] = Absent /\ loaded[r] = Absent
  BY DEF Reload, InProgress, IdsAreFresh, Open
<1>4. InProgress'
  BY <1>3 DEF TypeOK, InProgress, Open, Reload, Becomes
<1>5. IdsAreFresh'
  BY DEF TypeOK, IdsAreFresh, Stored, Open, Reload, Becomes, store
<1> QED
  BY <1>2, <1>4, <1>5

\* A statement changes nothing but where its request is.
LEMMA FlushKeeps ==
    ASSUME TypeInv, NEW r \in Requests, Flush(r)
    PROVE  TypeOK' /\ InProgress' /\ IdsAreFresh'
<1> USE DEF TypeInv
<1>1. TypeOK'
  BY DEF TypeOK, Flush, Becomes, Ends, store, memory, Phases, Answers
<1>2. InProgress'
  BY DEF TypeOK, InProgress, Open, Flush, Becomes, Ends, memory
<1>3. IdsAreFresh'
  BY DEF TypeOK, IdsAreFresh, Stored, Open, Flush, Becomes, Ends, store, memory
<1> QED
  BY <1>1, <1>2, <1>3

\* The row a commit leaves, when it writes one.
Committing(r) ==
    IF Inserts(r) THEN entity[r]
    ELSE [users[target[r]] EXCEPT !.name =
            IF existing[r].name # entity[r].name THEN entity[r].name
            ELSE users[target[r]].name]

\* A commit with something to write stores a user, under an identifier drawn for
\* it; an UPDATE leaves the address alone and writes no name but its own.
LEMMA CommitWrites ==
    ASSUME TypeInv, NEW r \in Requests, Commit(r), Writes(r)
    PROVE  /\ Uncommitted(r) /\ Open(r) /\ target[r] \in Ids
           /\ users' = [users EXCEPT ![target[r]] = Committing(r)]
           /\ Committing(r) \in User
           /\ ~Inserts(r) => /\ users[target[r]] \in User
                             /\ Committing(r).email = users[target[r]].email
           /\ \/ Committing(r).name = r
              \/ ~Inserts(r) /\ Committing(r).name = users[target[r]].name
<1> USE DEF TypeInv
<1>1. Open(r) /\ Uncommitted(r)
  BY DEF Commit, Open, Uncommitted
<1>2. target[r] \in Ids /\ entity[r] \in User /\ entity[r].name = r
  BY <1>1 DEF InProgress
<1>3. users' = [users EXCEPT ![target[r]] = Committing(r)]
  BY DEF Commit, Committing
<1>4. CASE Inserts(r)
  BY <1>1, <1>2, <1>3, <1>4 DEF Committing
<1>5. CASE ~Inserts(r)
  <2>1. users[target[r]] \in User
    BY <1>1, <1>2, <1>5 DEF HeldRowStays, TypeOK
  <2>2. PICK name \in Names :
            /\ Committing(r) = [users[target[r]] EXCEPT !.name = name]
            /\ name = r \/ name = users[target[r]].name
    BY <1>2, <1>5, <2>1 DEF Committing, User
  <2> QED
    BY <1>1, <1>2, <1>3, <1>5, <2>1, <2>2 DEF User
<1> QED
  BY <1>4, <1>5

\* A commit stores a user under an identifier that was drawn.
LEMMA CommitKeeps ==
    ASSUME TypeInv, NEW r \in Requests, Commit(r)
    PROVE  TypeOK' /\ InProgress' /\ IdsAreFresh'
<1> USE DEF TypeInv
<1>1. Open(r)
  BY DEF Commit, Open
<1>2. InProgress'
  BY DEF TypeOK, InProgress, Open, Commit, Becomes, memory
<1>3. CASE ~Writes(r)
  <2>1. TypeOK'
    BY <1>3 DEF TypeOK, Commit, Becomes, memory, Phases
  <2>2. IdsAreFresh'
    BY <1>3 DEF TypeOK, IdsAreFresh, Stored, Open, Commit, Becomes, memory
  <2> QED
    BY <1>2, <2>1, <2>2
<1>4. CASE Writes(r)
  <2>1. /\ target[r] \in Ids /\ target[r] \in minted
        /\ users' = [users EXCEPT ![target[r]] = Committing(r)]
        /\ Committing(r) \in User
    BY <1>1, <1>4, CommitWrites DEF IdsAreFresh
  <2>2. seen' \in [Requests -> SUBSET Names]
    <3>1. entity[r].name \in Names
      BY <1>1 DEF InProgress, Names
    <3>2. ~Inserts(r) => users[target[r]].name \in Names
      BY <1>4, CommitWrites DEF User
    <3> DEFINE name == IF Inserts(r) \/ existing[r].name # entity[r].name
                       THEN entity[r].name ELSE users[target[r]].name
    <3>3. name \in Names
      BY <3>1, <3>2
    <3>4. seen' = [q \in Requests |-> IF target[q] = target[r] /\ pc[q] # "done"
                                      THEN seen[q] \union {name} ELSE seen[q]]
      BY <1>4 DEF Commit
    <3> QED
      BY <3>3, <3>4 DEF TypeOK
  <2>3. TypeOK'
    BY <2>1, <2>2 DEF TypeOK, Commit, Becomes, memory, Phases
  <2>4. IdsAreFresh'
    BY <1>1, <2>1 DEF TypeOK, IdsAreFresh, Stored, Open, Commit, Becomes, memory
  <2> QED
    BY <1>2, <2>3, <2>4
<1> QED
  BY <1>3, <1>4

\* A lookup in the cache serves a name or goes on to the database.
LEMMA LookUpKeeps ==
    ASSUME TypeInv, NEW r \in Requests, NEW u \in Ids, LookUp(r, u)
    PROVE  TypeOK' /\ InProgress' /\ IdsAreFresh'
<1> USE DEF TypeInv
<1>1. NamesOf(u) \subseteq Names
  BY DEF NamesOf, TypeOK, User
<1>2. TypeOK'
  BY <1>1
  DEF TypeOK, LookUp, Arrives, Ends, Becomes, Operations, Phases, Answers, store
<1>3. InProgress'
  BY DEF TypeOK, InProgress, Open, LookUp, Arrives, Ends, Becomes
<1>4. IdsAreFresh'
  BY DEF TypeOK, IdsAreFresh, Stored, Open, LookUp, Arrives, Ends, Becomes, store
<1> QED
  BY <1>2, <1>3, <1>4

\* The steps of a read past the cache, and those that only end a request.
LEMMA OtherStepsKeep ==
    ASSUME TypeInv, NEW r \in Requests,
           \/ RefuseId(r) \/ ListUsers(r) \/ Invalidate(r) \/ Respond(r)
           \/ ReadUser(r) \/ Fill(r) \/ Break(r)
    PROVE  TypeOK' /\ InProgress' /\ IdsAreFresh'
<1> USE DEF TypeInv
<1>1. CASE RefuseId(r) \/ ListUsers(r) \/ Respond(r) \/ Break(r)
  <2>1. TypeOK'
    BY <1>1
    DEF TypeOK, RefuseId, ListUsers, Respond, Break, Ends, store, memory, Operations,
        Phases, Answers
  <2>2. InProgress'
    BY <1>1 DEF TypeOK, InProgress, Open, RefuseId, ListUsers, Respond, Break, Ends, memory
  <2>3. IdsAreFresh'
    BY <1>1
    DEF TypeOK, IdsAreFresh, Stored, Open, RefuseId, ListUsers, Respond, Break, Ends,
        store, memory
  <2> QED
    BY <2>1, <2>2, <2>3
<1>2. CASE Invalidate(r)
  <2>1. TypeOK'
    BY <1>2 DEF TypeOK, Invalidate, Becomes, store, memory, Phases
  <2>2. InProgress'
    BY <1>2 DEF TypeOK, InProgress, Open, Invalidate, Becomes, memory
  <2>3. IdsAreFresh'
    BY <1>2 DEF TypeOK, IdsAreFresh, Stored, Open, Invalidate, Becomes, store, memory
  <2> QED
    BY <2>1, <2>2, <2>3
<1>3. CASE ReadUser(r)
  <2>1. target[r] \in Ids
    BY <1>3 DEF ReadUser, InProgress
  <2>2. users[target[r]] # Absent => users[target[r]].name \in Names
    BY <2>1 DEF TypeOK, User
  <2>3. TypeOK'
    BY <1>3, <2>2 DEF TypeOK, ReadUser, Becomes, Ends, store, memory, Phases, Answers
  <2>4. InProgress'
    BY <1>3, <2>2 DEF TypeOK, InProgress, Open, ReadUser, Becomes, Ends, memory
  <2>5. IdsAreFresh'
    BY <1>3 DEF TypeOK, IdsAreFresh, Stored, Open, ReadUser, Becomes, Ends, store, memory
  <2> QED
    BY <2>3, <2>4, <2>5
<1>4. CASE Fill(r)
  <2>1. target[r] \in Ids /\ body[r] \in Names
    BY <1>4 DEF Fill, InProgress
  <2>2. TypeOK'
    BY <1>4, <2>1 DEF TypeOK, Fill, Ends, store, memory, Phases, Answers
  <2>3. InProgress'
    BY <1>4 DEF TypeOK, InProgress, Open, Fill, Ends, memory
  <2>4. IdsAreFresh'
    BY <1>4 DEF TypeOK, IdsAreFresh, Stored, Open, Fill, Ends, store, memory
  <2> QED
    BY <2>2, <2>3, <2>4
<1> QED
  BY <1>1, <1>2, <1>3, <1>4

\* Expiry, and users dropped from outside.
LEMMA OutsideKeeps ==
    ASSUME TypeInv, NEW u \in Ids, Expire(u) \/ DropUser(u)
    PROVE  TypeOK' /\ InProgress' /\ IdsAreFresh'
BY DEF TypeInv, TypeOK, InProgress, IdsAreFresh, Stored, Open, Expire, DropUser, store,
       memory

\* Every step keeps the types, what requests hold and the freshness of identifiers.
LEMMA NextTypes == TypeInv /\ [Next]_vars => TypeOK' /\ InProgress' /\ IdsAreFresh'
<1>1. ASSUME TypeInv, UNCHANGED vars
      PROVE  TypeOK' /\ InProgress' /\ IdsAreFresh'
  BY <1>1 DEF TypeInv, TypeOK, InProgress, IdsAreFresh, Stored, Open, vars
<1>2. Droppable \subseteq Ids
  BY UserAssumption
<1> QED
  BY <1>1, <1>2, FindByEmailKeeps, LoadUserKeeps, LookUpKeeps, ReloadKeeps, FlushKeeps,
     CommitKeeps, OtherStepsKeep, OutsideKeeps
  DEF Next, Step

\* A step other transactions cannot tell: no row changes and no lock is taken.
Quiet ==
    /\ users' = users
    /\ \A r \in Requests : Uncommitted(r)' =>
        /\ Uncommitted(r)
        /\ target'[r] = target[r] /\ entity'[r] = entity[r] /\ existing'[r] = existing[r]

\* Only Flush, Commit and DropUser are not quiet.
LEMMA StepKinds ==
    ASSUME TypeOK, Next
    PROVE  \/ Quiet
           \/ \E r \in Requests : Flush(r) \/ Commit(r)
           \/ \E u \in Droppable : DropUser(u)
<1>1. ASSUME NEW r \in Requests, NEW u \in Ids,
             \/ \E s \in Spellings : FindByEmail(r, u, s)
             \/ LoadUser(r, u) \/ LookUp(r, u)
      PROVE  Quiet
  BY <1>1
  DEF Quiet, Uncommitted, Writes, Inserts, Updates, TypeOK, FindByEmail, LoadUser,
      LookUp, Arrives, Ends, Becomes, store
<1>2. ASSUME NEW r \in Requests,
             RefuseId(r) \/ ListUsers(r) \/ Reload(r) \/ Invalidate(r) \/ Respond(r)
      PROVE  Quiet
  BY <1>2
  DEF Quiet, Uncommitted, Writes, Inserts, Updates, TypeOK, RefuseId, ListUsers, Reload,
      Invalidate, Respond, Ends, Becomes, store, memory
<1>3. ASSUME NEW r \in Requests, ReadUser(r) \/ Fill(r) \/ Break(r)
      PROVE  Quiet
  BY <1>3
  DEF Quiet, Uncommitted, Writes, Inserts, Updates, TypeOK, ReadUser, Fill, Break, Ends,
      Becomes, store, memory
<1>4. ASSUME NEW u \in Ids, Expire(u)
      PROVE  Quiet
  BY <1>4 DEF Quiet, Uncommitted, Writes, Inserts, Updates, Expire, store, memory
<1> QED
  BY <1>1, <1>2, <1>3, <1>4 DEF Next, Step

\* What a statement that goes through found: no lock, and the rows it needs.
LEMMA Flushed ==
    ASSUME TypeInv, NEW r \in Requests, Flush(r)
    PROVE  /\ users' = users /\ target' = target /\ entity' = entity
           /\ existing' = existing
           /\ \A q \in Requests : Inserts(q)' <=> Inserts(q)
           /\ \A q \in Requests \ {r} : Uncommitted(q)' <=> Uncommitted(q)
           /\ Uncommitted(r)' =>
                /\ ~Waits(r)
                /\ Inserts(r) <=> users[target[r]] = Absent
                /\ Inserts(r) => EmailFree(r)
<1>1. /\ users' = users /\ target' = target /\ entity' = entity /\ existing' = existing
      /\ \A q \in Requests \ {r} : pc'[q] = pc[q]
  BY DEF TypeInv, TypeOK, Flush, Becomes, Ends, store, memory
<1>2. \A q \in Requests : /\ Inserts(q)' <=> Inserts(q)
                          /\ Writes(q)' <=> Writes(q)
  BY <1>1 DEF Inserts, Updates, Writes
<1>3. ASSUME Uncommitted(r)'
      PROVE  /\ ~Waits(r)
             /\ Inserts(r) <=> users[target[r]] = Absent
             /\ Inserts(r) => EmailFree(r)
  <2>1. Writes(r) /\ pc'[r] \in {"flushed", "invalidated"}
    BY <1>2, <1>3 DEF Uncommitted
  <2>2. ~Waits(r)
    BY <2>1 DEF Flush
  <2>3. \/ Inserts(r) /\ users[target[r]] = Absent /\ EmailFree(r)
        \/ Updates(r) /\ users[target[r]] # Absent
    BY <2>1 DEF Flush, Ends, TypeInv, TypeOK
  <2> QED
    BY <2>2, <2>3 DEF Inserts, Updates
<1>4. \A q \in Requests \ {r} : Uncommitted(q)' <=> Uncommitted(q)
  BY <1>1, <1>2 DEF Uncommitted
<1> QED
  BY <1>1, <1>2, <1>3, <1>4

\* A commit lets go of its own locks and of no others.
LEMMA CommitReleases ==
    ASSUME TypeInv, NEW r \in Requests, Commit(r)
    PROVE  /\ target' = target /\ entity' = entity /\ existing' = existing
           /\ \A q \in Requests : Inserts(q)' <=> Inserts(q)
           /\ \A q \in Requests : Uncommitted(q)' => q # r /\ Uncommitted(q)
BY DEF TypeInv, TypeOK, Commit, Becomes, memory, Uncommitted, Writes, Inserts, Updates

\* Every step keeps one writer per row, and the row as that writer found it.
LEMMA NextLocks == TypeInv /\ [Next]_vars => OneWriter' /\ HeldRowStays'
<1> SUFFICES ASSUME TypeInv, [Next]_vars
             PROVE  OneWriter' /\ HeldRowStays'
  OBVIOUS
<1>1. OneWriter /\ HeldRowStays
  BY DEF TypeInv
<1>2. CASE Quiet
  BY <1>1, <1>2 DEF Quiet, OneWriter, HeldRowStays, Inserts
<1>3. ASSUME NEW r \in Requests, Flush(r)
      PROVE  OneWriter' /\ HeldRowStays'
  <2>1. OneWriter'
    <3>1. SUFFICES ASSUME NEW q \in Requests, q # r, Uncommitted(q)', Uncommitted(r)',
                          target[q] = target[r]
                   PROVE  FALSE
      BY <1>1, <1>3, Flushed DEF OneWriter
    <3> QED
      BY <1>3, <3>1, Flushed DEF Waits
  <2>2. HeldRowStays'
    BY <1>1, <1>3, Flushed DEF HeldRowStays
  <2> QED
    BY <2>1, <2>2
<1>4. ASSUME NEW r \in Requests, Commit(r)
      PROVE  OneWriter' /\ HeldRowStays'
  <2>1. OneWriter'
    BY <1>1, <1>4, CommitReleases DEF OneWriter
  <2>2. HeldRowStays'
    <3>1. SUFFICES ASSUME NEW q \in Requests, q # r, Uncommitted(q)
                   PROVE  users'[target[q]] = users[target[q]]
      BY <1>1, <1>4, CommitReleases DEF HeldRowStays
    <3>2. CASE Writes(r)
      <4>1. Uncommitted(r) /\ users' = [users EXCEPT ![target[r]] = Committing(r)]
        BY <1>4, <3>2, CommitWrites
      <4>2. target[q] # target[r] /\ target[q] \in Ids
        BY <1>1, <3>1, <4>1 DEF OneWriter, TypeInv, InProgress, Open, Uncommitted
      <4> QED
        BY <4>1, <4>2 DEF TypeInv, TypeOK
    <3>3. CASE ~Writes(r)
      BY <1>4, <3>3 DEF Commit
    <3> QED
      BY <3>2, <3>3
  <2> QED
    BY <2>1, <2>2
<1>5. ASSUME NEW u \in Ids, DropUser(u)
      PROVE  OneWriter' /\ HeldRowStays'
  <2>1. \A q \in Requests : /\ Uncommitted(q)' <=> Uncommitted(q)
                            /\ Inserts(q)' <=> Inserts(q)
                            /\ target'[q] = target[q]
    BY <1>5 DEF DropUser, memory, Uncommitted, Writes, Inserts, Updates
  <2>2. \A q \in Requests : Uncommitted(q) => /\ users'[target[q]] = users[target[q]]
    BY <1>5 DEF DropUser, TypeInv, TypeOK, InProgress, Open, Uncommitted
  <2> QED
    BY <1>1, <2>1, <2>2 DEF OneWriter, HeldRowStays
<1>6. CASE UNCHANGED vars
  BY <1>1, <1>6
  DEF OneWriter, HeldRowStays, Uncommitted, Writes, Inserts, Updates, vars
<1>7. Droppable \subseteq Ids
  BY UserAssumption
<1> QED
  BY <1>2, <1>3, <1>4, <1>5, <1>6, <1>7, StepKinds DEF TypeInv

\* The types are right in every reachable state, identifiers fresh, locks exclusive.
THEOREM Types == Spec => []TypeInv
<1>1. TypeInv /\ [Next]_vars => TypeInv'
  BY NextTypes, NextLocks DEF TypeInv
<1> QED
  BY InitTypeInv, <1>1, PTL DEF Spec

\* The types are right in every reachable state.
THEOREM TypeCorrect == Spec => []TypeOK
BY Types, PTL DEF TypeInv

-----------------------------------------------------------------------------
(* The unique index.                                                       *)

\* Every step keeps addresses apart: those of the rows, and of the rows to come.
LEMMA NextEmails == TypeInv /\ EmailInv /\ [Next]_vars => EmailInv'
<1> SUFFICES ASSUME TypeInv, EmailInv, [Next]_vars
             PROVE  EmailInv'
  OBVIOUS
<1> USE DEF EmailInv
<1>1. CASE Quiet
  <2>1. Stored' = Stored
    BY <1>1 DEF Quiet, Stored
  <2> QED
    BY <1>1, <2>1 DEF Quiet, OneInserter, HeldEmailIsFree, Inserts, EmailFree
<1>2. ASSUME NEW r \in Requests, Flush(r)
      PROVE  EmailInv'
  <2>1. Stored' = Stored
    BY <1>2, Flushed DEF Stored
  <2>2. OneInserter'
    <3>1. SUFFICES ASSUME NEW q \in Requests, q # r, Uncommitted(q)', Uncommitted(r)',
                          Inserts(q), Inserts(r), entity[q].email = entity[r].email
                   PROVE  FALSE
      BY <1>2, Flushed DEF OneInserter
    <3> QED
      BY <1>2, <3>1, Flushed DEF Waits
  <2>3. HeldEmailIsFree'
    BY <1>2, <2>1, Flushed DEF HeldEmailIsFree, EmailFree
  <2> QED
    BY <1>2, <2>1, <2>2, <2>3, Flushed
<1>3. ASSUME NEW r \in Requests, Commit(r)
      PROVE  EmailInv'
  <2>1. OneInserter'
    BY <1>3, CommitReleases DEF OneInserter
  <2>2. CASE ~Writes(r)
    <3>1. users' = users /\ Stored' = Stored
      BY <1>3, <2>2 DEF Commit, Stored
    <3> QED
      BY <1>3, <2>1, <3>1, CommitReleases DEF HeldEmailIsFree, EmailFree
  <2>3. CASE Writes(r)
    <3>1. /\ Uncommitted(r) /\ target[r] \in Ids
          /\ users' = [users EXCEPT ![target[r]] = Committing(r)]
          /\ Committing(r) \in User
      BY <1>3, <2>3, CommitWrites
    <3>2. Stored' = Stored \union {target[r]}
      BY <3>1, Sentinels DEF Stored, TypeInv, TypeOK
    <3>3. \A v \in Stored \ {target[r]} : users'[v] = users[v]
      BY <3>1 DEF Stored, TypeInv, TypeOK
    <3>4. users'[target[r]] = Committing(r)
      BY <3>1 DEF TypeInv, TypeOK
    <3>5. CASE Inserts(r)
      <4>1. Committing(r) = entity[r] /\ EmailFree(r)
        BY <3>1, <3>5 DEF Committing, HeldEmailIsFree
      <4>2. \A u, v \in Stored' : users'[u].email = users'[v].email => u = v
        BY <3>2, <3>3, <3>4, <4>1 DEF EmailFree
      <4>3. HeldEmailIsFree'
        <5>1. SUFFICES ASSUME NEW q \in Requests, q # r, Uncommitted(q), Inserts(q),
                              NEW v \in Stored'
                       PROVE  users'[v].email # entity[q].email
          BY <1>3, CommitReleases DEF HeldEmailIsFree, EmailFree
        <5>2. EmailFree(q) /\ entity[q].email # entity[r].email
          BY <3>1, <3>5, <5>1 DEF HeldEmailIsFree, OneInserter
        <5> QED
          BY <3>2, <3>3, <3>4, <4>1, <5>2 DEF EmailFree
      <4> QED
        BY <2>1, <4>2, <4>3
    <3>6. CASE ~Inserts(r)
      <4>1. target[r] \in Stored /\ Committing(r).email = users[target[r]].email
        BY <1>3, <2>3, <3>6, CommitWrites, Sentinels DEF Stored
      <4>2. Stored' = Stored /\ \A v \in Stored : users'[v].email = users[v].email
        BY <3>2, <3>3, <3>4, <4>1
      <4> QED
        BY <1>3, <2>1, <4>2, CommitReleases DEF HeldEmailIsFree, EmailFree
    <3> QED
      BY <3>5, <3>6
  <2> QED
    BY <2>2, <2>3
<1>4. ASSUME NEW u \in Ids, DropUser(u)
      PROVE  EmailInv'
  <2>1. \A q \in Requests : /\ Uncommitted(q)' <=> Uncommitted(q)
                            /\ Inserts(q)' <=> Inserts(q)
    BY <1>4 DEF DropUser, memory, Uncommitted, Writes, Inserts, Updates
  <2>2. Stored' \subseteq Stored /\ \A v \in Stored' : users'[v] = users[v]
    BY <1>4 DEF DropUser, Stored, TypeInv, TypeOK
  <2>3. entity' = entity
    BY <1>4 DEF DropUser, memory
  <2> QED
    BY <2>1, <2>2, <2>3 DEF OneInserter, HeldEmailIsFree, EmailFree
<1>5. CASE UNCHANGED vars
  <2>1. Stored' = Stored
    BY <1>5 DEF vars, Stored
  <2> QED
    BY <1>5, <2>1
    DEF OneInserter, HeldEmailIsFree, EmailFree, Uncommitted, Writes, Inserts, Updates,
        vars
<1>6. Droppable \subseteq Ids
  BY UserAssumption
<1> QED
  BY <1>1, <1>2, <1>3, <1>4, <1>5, <1>6, StepKinds DEF TypeInv

\* No two users share an address, however typed, whatever the interleaving.
THEOREM AddressesUnique == Spec => []EmailsUnique
<1>1. Init => EmailInv
  BY DEF Init, EmailInv, OneInserter, HeldEmailIsFree, Uncommitted, Stored
<1>2. TypeInv /\ EmailInv /\ [Next]_vars => EmailInv'
  BY NextEmails
<1>3. TypeInv /\ EmailInv => EmailsUnique
  <2> SUFFICES ASSUME TypeInv, EmailInv
               PROVE  EmailsUnique
    OBVIOUS
  <2>1. \A u \in Stored : Normalised[users[u].email] = users[u].email
    BY UserAssumption DEF TypeInv, TypeOK, Stored, User
  <2> QED
    BY <2>1 DEF EmailInv, EmailsUnique
<1> QED
  BY Types, <1>1, <1>2, <1>3, PTL DEF Spec

-----------------------------------------------------------------------------
(* Answers.                                                                *)

\* Every step answers a request only when it is done with it.
LEMMA NextAnsweredLast == TypeInv /\ AnsweredLast /\ [Next]_vars => AnsweredLast'
<1> SUFFICES ASSUME TypeInv, AnsweredLast, [Next]_vars
             PROVE  AnsweredLast'
  OBVIOUS
<1> USE DEF TypeInv, TypeOK, AnsweredLast
<1>1. ASSUME NEW r \in Requests, NEW u \in Ids,
             \/ \E s \in Spellings : FindByEmail(r, u, s)
             \/ LoadUser(r, u) \/ LookUp(r, u)
      PROVE  AnsweredLast'
  BY <1>1 DEF FindByEmail, LoadUser, LookUp, Arrives, Ends, Becomes
<1>2. ASSUME NEW r \in Requests,
             RefuseId(r) \/ ListUsers(r) \/ Reload(r) \/ Flush(r) \/ Invalidate(r)
      PROVE  AnsweredLast'
  BY <1>2 DEF RefuseId, ListUsers, Reload, Flush, Invalidate, Ends, Becomes
<1>3. ASSUME NEW r \in Requests,
             Commit(r) \/ Respond(r) \/ ReadUser(r) \/ Fill(r) \/ Break(r)
      PROVE  AnsweredLast'
  BY <1>3 DEF Commit, Respond, ReadUser, Fill, Break, Open, Ends, Becomes
<1>4. ASSUME NEW u \in Ids, Expire(u) \/ DropUser(u)
      PROVE  AnsweredLast'
  BY <1>4 DEF Expire, DropUser
<1>5. CASE UNCHANGED vars
  BY <1>5 DEF vars
<1>6. Droppable \subseteq Ids
  BY UserAssumption
<1> QED
  BY <1>1, <1>2, <1>3, <1>4, <1>5, <1>6 DEF Next, Step

\* The statement of a creation fails on no key: its identifier is its own.
LEMMA FlushOfCreation ==
    ASSUME TypeInv, NEW r \in Requests, Flush(r), answer'[r] = "error"
    PROVE  op[r] = "rename" \/ answer[r] = "error"
<1> SUFFICES ASSUME op[r] = "create", answer[r] # "error"
             PROVE  FALSE
  BY DEF TypeInv, InProgress, Open, Flush
<1>1. existing[r] = Absent /\ users[target[r]] = Absent
  BY DEF TypeInv, InProgress, IdsAreFresh, Open, Flush
<1>2. Inserts(r) /\ ~Updates(r)
  BY <1>1 DEF Inserts, Updates
<1> QED
  BY <1>1, <1>2 DEF Flush, Ends, Becomes, TypeInv, TypeOK

\* No step answers anything but a rename with a server error.
LEMMA NextErrors == TypeInv /\ ErrorInv /\ [Next]_vars => NoServerError'
<1> SUFFICES ASSUME TypeInv, ErrorInv, [Next]_vars
             PROVE  NoServerError'
  OBVIOUS
<1> USE DEF ErrorInv, NoServerError
<1>1. ASSUME NEW r \in Requests, NEW u \in Ids,
             \/ \E s \in Spellings : FindByEmail(r, u, s)
             \/ LoadUser(r, u) \/ LookUp(r, u)
      PROVE  NoServerError'
  BY <1>1
  DEF AnsweredLast, TypeInv, TypeOK, FindByEmail, LoadUser, LookUp, Arrives, Ends,
      Becomes
<1>2. ASSUME NEW r \in Requests, RefuseId(r) \/ ListUsers(r)
      PROVE  NoServerError'
  BY <1>2 DEF TypeInv, TypeOK, RefuseId, ListUsers, Ends, memory
<1>3. ASSUME NEW r \in Requests,
             Reload(r) \/ Invalidate(r) \/ Commit(r) \/ Respond(r)
      PROVE  NoServerError'
  BY <1>3 DEF TypeInv, TypeOK, Reload, Invalidate, Commit, Respond, Ends, Becomes, memory
<1>4. ASSUME NEW r \in Requests, ReadUser(r) \/ Fill(r) \/ Break(r)
      PROVE  NoServerError'
  BY <1>4 DEF TypeInv, TypeOK, ReadUser, Fill, Break, Ends, Becomes, memory
<1>5. ASSUME NEW r \in Requests, Flush(r)
      PROVE  NoServerError'
  <2>1. op' = op /\ \A q \in Requests \ {r} : answer'[q] = answer[q]
    BY <1>5 DEF TypeInv, TypeOK, Flush, Ends, Becomes, memory
  <2> QED
    BY <1>5, <2>1, FlushOfCreation
<1>6. ASSUME NEW u \in Ids, Expire(u) \/ DropUser(u)
      PROVE  NoServerError'
  BY <1>6 DEF Expire, DropUser, memory
<1>7. CASE UNCHANGED vars
  BY <1>7 DEF vars
<1>8. Droppable \subseteq Ids
  BY UserAssumption
<1> QED
  BY <1>1, <1>2, <1>3, <1>4, <1>5, <1>6, <1>7, <1>8 DEF Next, Step

\* A creation or a read is never answered with a server error.
THEOREM OnlyRenamesFail == Spec => []NoServerError
<1>1. Init => ErrorInv
  BY DEF Init, ErrorInv, AnsweredLast, NoServerError
<1>2. TypeInv /\ ErrorInv /\ [Next]_vars => ErrorInv'
  BY NextAnsweredLast, NextErrors DEF ErrorInv
<1>3. ErrorInv => NoServerError
  BY DEF ErrorInv
<1> QED
  BY Types, <1>1, <1>2, <1>3, PTL DEF Spec

-----------------------------------------------------------------------------
(* The names served.                                                       *)

\* A request that has committed has committed for good.
LEMMA SettledGrows ==
    ASSUME TypeInv, AnsweredLast, [Next]_vars
    PROVE  Settled \subseteq Settled'
<1> SUFFICES ASSUME NEW r \in Requests, Committed(r)
             PROVE  Committed(r)'
  BY DEF Settled
<1> USE DEF TypeInv, TypeOK, AnsweredLast, Committed
<1>1. ASSUME NEW q \in Requests, NEW u \in Ids,
             \/ \E s \in Spellings : FindByEmail(q, u, s)
             \/ LoadUser(q, u) \/ LookUp(q, u)
      PROVE  Committed(r)'
  BY <1>1 DEF FindByEmail, LoadUser, LookUp, Arrives, Ends, Becomes
<1>2. ASSUME NEW q \in Requests,
             RefuseId(q) \/ ListUsers(q) \/ Reload(q) \/ Flush(q) \/ Invalidate(q)
      PROVE  Committed(r)'
  BY <1>2 DEF RefuseId, ListUsers, Reload, Flush, Invalidate, Ends, Becomes
<1>3. ASSUME NEW q \in Requests,
             Commit(q) \/ Respond(q) \/ ReadUser(q) \/ Fill(q) \/ Break(q)
      PROVE  Committed(r)'
  BY <1>3 DEF Commit, Respond, ReadUser, Fill, Break, Open, Ends, Becomes
<1>4. ASSUME NEW u \in Ids, Expire(u) \/ DropUser(u)
      PROVE  Committed(r)'
  BY <1>4 DEF Expire, DropUser
<1>5. CASE UNCHANGED vars
  BY <1>5 DEF vars
<1>6. Droppable \subseteq Ids
  BY UserAssumption
<1> QED
  BY <1>1, <1>2, <1>3, <1>4, <1>5, <1>6 DEF Next, Step

\* Names kept and names served are copied from settled ones; a commit settles the
\* name it stores.
LEMMA NextClean == TypeInv /\ CleanInv /\ [Next]_vars => CleanInv'
<1> SUFFICES ASSUME TypeInv, CleanInv, [Next]_vars
             PROVE  CleanInv'
  OBVIOUS
<1>1. Settled \subseteq Settled' /\ AnsweredLast'
  BY SettledGrows, NextAnsweredLast DEF CleanInv
<1> DEFINE StoreClean == \A u \in Stored' : users'[u].name \in Settled'
           CacheClean == \A u \in Ids : cache'[u] \in Settled' \union {Null}
           BodyClean == \A r \in Requests : body'[r] \in Settled' \union {Null}
<1>2. SUFFICES StoreClean /\ CacheClean /\ BodyClean
  BY <1>1 DEF CleanInv
<1>3. ASSUME UNCHANGED users PROVE StoreClean
  BY <1>1, <1>3 DEF CleanInv, Stored
<1>4. ASSUME UNCHANGED cache PROVE CacheClean
  BY <1>1, <1>4 DEF CleanInv
<1>5. ASSUME UNCHANGED body PROVE BodyClean
  BY <1>1, <1>5 DEF CleanInv
<1>6. ASSUME NEW r \in Requests, NEW u \in Ids, LookUp(r, u)
      PROVE  StoreClean /\ CacheClean /\ BodyClean
  <2>1. BodyClean
    BY <1>1, <1>6 DEF LookUp, CleanInv, TypeInv, TypeOK
  <2> QED
    BY <1>3, <1>4, <1>6, <2>1 DEF LookUp, store
<1>7. ASSUME NEW r \in Requests, ReadUser(r)
      PROVE  StoreClean /\ CacheClean /\ BodyClean
  <2>1. target[r] \in Ids
    BY <1>7 DEF ReadUser, TypeInv, InProgress
  <2>2. BodyClean
    BY <1>1, <1>7, <2>1 DEF ReadUser, CleanInv, Stored, TypeInv, TypeOK
  <2> QED
    BY <1>3, <1>4, <1>7, <2>2 DEF ReadUser, store
<1>8. ASSUME NEW r \in Requests, Fill(r)
      PROVE  StoreClean /\ CacheClean /\ BodyClean
  <2>1. CacheClean
    BY <1>1, <1>8 DEF Fill, CleanInv, TypeInv, TypeOK
  <2> QED
    BY <1>3, <1>5, <1>8, <2>1 DEF Fill, store
<1>9. ASSUME NEW r \in Requests, Invalidate(r)
      PROVE  StoreClean /\ CacheClean /\ BodyClean
  <2>1. CacheClean
    BY <1>1, <1>9 DEF Invalidate, CleanInv, TypeInv, TypeOK
  <2> QED
    BY <1>3, <1>5, <1>9, <2>1 DEF Invalidate, store
<1>10. ASSUME NEW r \in Requests, Commit(r)
       PROVE  StoreClean /\ CacheClean /\ BodyClean
  <2>1. CASE ~Writes(r)
    BY <1>3, <1>4, <1>5, <1>10, <2>1 DEF Commit
  <2>2. CASE Writes(r)
    <3>1. r \in Settled'
      BY <1>10 DEF Commit, Becomes, Settled, Committed, TypeInv, TypeOK
    <3>2. /\ target[r] \in Ids
          /\ users' = [users EXCEPT ![target[r]] = Committing(r)]
          /\ \/ Committing(r).name = r
             \/ target[r] \in Stored /\ Committing(r).name = users[target[r]].name
      BY <1>10, <2>2, CommitWrites, Sentinels DEF Stored
    <3>3. Committing(r).name \in Settled'
      BY <1>1, <3>1, <3>2 DEF CleanInv
    <3>4. StoreClean
      BY <1>1, <3>2, <3>3 DEF CleanInv, Stored, TypeInv, TypeOK
    <3> QED
      BY <1>4, <1>5, <1>10, <3>4 DEF Commit
  <2> QED
    BY <2>1, <2>2
<1>11. ASSUME NEW u \in Ids, Expire(u) \/ DropUser(u)
       PROVE  StoreClean /\ CacheClean /\ BodyClean
  <2>1. CASE Expire(u)
    <3>1. CacheClean
      BY <1>1, <2>1 DEF Expire, CleanInv, TypeInv, TypeOK
    <3> QED
      BY <1>3, <1>5, <2>1, <3>1 DEF Expire, store
  <2>2. CASE DropUser(u)
    <3>1. StoreClean
      BY <1>1, <2>2 DEF DropUser, CleanInv, Stored, TypeInv, TypeOK
    <3> QED
      BY <1>4, <1>5, <2>2, <3>1 DEF DropUser
  <2> QED
    BY <1>11, <2>1, <2>2
<1>12. CASE UNCHANGED <<users, cache, body>>
  BY <1>3, <1>4, <1>5, <1>12
<1>13. ASSUME NEW r \in Requests,
              \/ \E u \in Ids, s \in Spellings : FindByEmail(r, u, s)
              \/ \E u \in Ids : LoadUser(r, u)
              \/ RefuseId(r) \/ ListUsers(r) \/ Reload(r) \/ Flush(r) \/ Respond(r)
              \/ Break(r)
       PROVE  UNCHANGED <<users, cache, body>>
  BY <1>13
  DEF FindByEmail, LoadUser, RefuseId, ListUsers, Reload, Flush, Respond, Break, store
<1>14. Droppable \subseteq Ids
  BY UserAssumption
<1> QED
  <2>1. CASE UNCHANGED vars
    BY <1>12, <2>1 DEF vars
  <2>2. CASE Next
    BY <1>6, <1>7, <1>8, <1>9, <1>10, <1>11, <1>12, <1>13, <1>14, <2>2 DEF Next, Step
  <2> QED
    BY <2>1, <2>2

\* No name is served, or cached, that was not committed.
THEOREM OnlyCommittedNamesServed == Spec => []ServedNamesWereCommitted
<1>1. Init => CleanInv
  BY DEF Init, CleanInv, AnsweredLast, Settled, Stored
<1>2. TypeInv /\ CleanInv /\ [Next]_vars => CleanInv'
  BY NextClean
<1>3. CleanInv => ServedNamesWereCommitted
  BY UserAssumption DEF CleanInv, ServedNamesWereCommitted, Settled, Names
<1> QED
  BY Types, <1>1, <1>2, <1>3, PTL DEF Spec
=============================================================================
