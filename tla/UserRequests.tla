---------------------------- MODULE UserRequests ----------------------------
(***************************************************************************)
(* Concurrent CreateUser, RenameUser, GetUser and ListUsers requests on    *)
(* the users table, its unique e-mail index and the Redis cache of         *)
(* user:{id}.  A creation comes over HTTP or from the create-user command, *)
(* which runs the same use case in the same kind of transaction.           *)
(*                                                                         *)
(* Transactions behave as in TaskRequests.  The cache does not take part   *)
(* in them: GetUser fills it with what it read, RenameUser deletes the     *)
(* entry before its transaction commits, entries expire, and every Redis   *)
(* error is swallowed by the adapter.                                      *)
(*                                                                         *)
(* A name is the name of the request that chose it, Origin for the name a  *)
(* user came with.  Of the cached DTO only the name can change.  Addresses *)
(* arrive as they were typed: Normalised[s] is what Email makes of s, Null *)
(* when it refuses it.                                                     *)
(***************************************************************************)
CONSTANTS
    Ids,            \* user identifiers
    Emails,         \* e-mail addresses, in lower case and trimmed
    Spellings,      \* what may be given for an address, addresses included
    Normalised,     \* Normalised[s]: the address s stands for, or Null
    Requests,       \* HTTP requests
    Origin,
    Null,
    Absent,
    RedisFails,     \* whether Redis commands may fail
    Droppable       \* the users something outside the API may delete

Names == Requests \union {Origin}

User == [name: Names, email: Emails]

ASSUME UserAssumption ==
    /\ Origin \notin Requests
    /\ Null \notin Names \union Ids
    /\ Absent \notin User
    /\ Null \notin Emails
    /\ Normalised \in [Spellings -> Emails \union {Null}]
    /\ \A e \in Emails : e \in Spellings /\ Normalised[e] = e
    /\ RedisFails \in BOOLEAN
    /\ Droppable \subseteq Ids

VARIABLES
    users,      \* committed content of the users table
    minted,     \* user identifiers ever drawn
    cache,      \* cache[u]: the name cached under user:{u}, or Null
    pc, op, target,
    loaded,     \* the row repository.get read
    entity,     \* the aggregate in memory
    existing,   \* the instance session.get returned in repository.save
    body,       \* the name GetUser answers with
    answer,
    seen        \* history: the names target had since the request started

store == <<users, minted>>
memory == <<op, target, loaded, entity, existing>>
vars == <<users, minted, cache, pc, op, target, loaded, entity, existing, body,
          answer, seen>>

Operations == {"create", "rename", "get", "list"}

Phases == {"idle", "loaded", "writing", "flushed", "invalidated",   \* writers
           "missed", "read",                                        \* GetUser
           "committed", "done"}

Answers == {"none", "ok", "not_found", "conflict", "unprocessable", "error",
            "broken", "lost"}

TypeOK ==
    /\ users \in [Ids -> User \union {Absent}]
    /\ minted \subseteq Ids
    /\ cache \in [Ids -> Names \union {Null}]
    /\ pc \in [Requests -> Phases]
    /\ op \in [Requests -> Operations \union {Null}]
    /\ target \in [Requests -> Ids \union {Null}]
    /\ loaded \in [Requests -> User \union {Absent}]
    /\ entity \in [Requests -> User \union {Absent}]
    /\ existing \in [Requests -> User \union {Absent}]
    /\ body \in [Requests -> Names \union {Null}]
    /\ answer \in [Requests -> Answers]
    /\ seen \in [Requests -> SUBSET Names]

-----------------------------------------------------------------------------

Stored == {u \in Ids : users[u] # Absent}

Open(r) == pc[r] \in {"loaded", "writing", "flushed", "invalidated"}

Committed(r) == pc[r] = "committed" \/ answer[r] \in {"ok", "lost"}

Inserts(r) == existing[r] = Absent

\* apply_to_model assigns name and email; only what differs is written.
Updates(r) == existing[r] # Absent /\ existing[r] # entity[r]

Writes(r) == Inserts(r) \/ Updates(r)

Uncommitted(r) == pc[r] \in {"flushed", "invalidated"} /\ Writes(r)

\* The statement of r would wait: another transaction holds its row, or has
\* inserted its key or its e-mail without having committed yet.
Waits(r) ==
    \E q \in Requests \ {r} :
        /\ Uncommitted(q)
        /\ \/ target[q] = target[r]
           \/ Inserts(q) /\ Inserts(r) /\ entity[q].email = entity[r].email

\* The unique index ix_users_email.
NoUniqueIndex(r) == TRUE
EmailFree(r) == \A u \in Stored : users[u].email # entity[r].email

NamesOf(u) == IF users[u] = Absent THEN {} ELSE {users[u].name}

\* An Email that keeps the address as it was typed.
EmailAsTyped(s) == IF Normalised[s] = Null THEN Null ELSE s

\* Email: trimmed and in lower case, or refused.
Email(s) == Normalised[s]

\* UserName: the name of r is kept, or refused when it is blank or too long.
UserName(r) == {r, Null}

Created(name, e) == [name |-> name, email |-> e]

Renamed(user, name) == [user EXCEPT !.name = name]

\* repository.find_by_email.
Found(e) == \E v \in Stored : users[v].email = e

-----------------------------------------------------------------------------

Init ==
    /\ users \in [Ids -> [name: {Origin}, email: Emails] \union {Absent}]
    /\ \A u, v \in Stored : users[u].email = users[v].email => u = v
    /\ minted = Stored
    /\ cache = [u \in Ids |-> Null]
    /\ pc = [r \in Requests |-> "idle"]
    /\ op = [r \in Requests |-> Null]
    /\ target = [r \in Requests |-> Null]
    /\ loaded = [r \in Requests |-> Absent]
    /\ entity = [r \in Requests |-> Absent]
    /\ existing = [r \in Requests |-> Absent]
    /\ body = [r \in Requests |-> Null]
    /\ answer = [r \in Requests |-> "none"]
    /\ seen = [r \in Requests |-> {}]

Ends(r, a) ==
    /\ pc' = [pc EXCEPT ![r] = "done"]
    /\ answer' = [answer EXCEPT ![r] = a]

Becomes(r, phase) ==
    /\ pc' = [pc EXCEPT ![r] = phase]
    /\ UNCHANGED answer

Arrives(r, o, u) ==
    /\ pc[r] = "idle"
    /\ op' = [op EXCEPT ![r] = o]
    /\ target' = [target EXCEPT ![r] = u]
    /\ seen' = [seen EXCEPT ![r] = NamesOf(u)]
    /\ UNCHANGED existing

\* Any request on an identifier that is no UUID: UserId.from_string refuses it.
RefuseId(r) ==
    /\ pc[r] = "idle"
    /\ Ends(r, "unprocessable")
    /\ UNCHANGED <<store, cache, memory, body, seen>>

\* CreateUser: find_by_email, then User.create under a new identifier.
FindByEmail(r, u, s) ==
    /\ Arrives(r, "create", u)
    /\ u \notin minted
    /\ LET e == Email(s) IN
        \/ /\ e # Null /\ ~Found(e)
           /\ minted' = minted \union {u}
           /\ entity' = [entity EXCEPT ![r] = Created(r, e)]
           /\ Becomes(r, "loaded")
        \/ /\ \/ e = Null /\ Ends(r, "unprocessable")
              \/ e # Null /\ Found(e) /\ Ends(r, "conflict")
              \/ e # Null /\ ~Found(e) /\ Null \in UserName(r) /\ Ends(r, "unprocessable")
           /\ UNCHANGED <<minted, entity>>
    /\ UNCHANGED <<users, cache, loaded, body>>

\* RenameUser: repository.get, then User.rename.
LoadUser(r, u) ==
    /\ Arrives(r, "rename", u)
    /\ IF users[u] = Absent
       THEN Ends(r, "not_found") /\ UNCHANGED <<loaded, entity>>
       ELSE \E name \in UserName(r) :
            IF name = Null
            THEN Ends(r, "unprocessable") /\ UNCHANGED <<loaded, entity>>
            ELSE /\ loaded' = [loaded EXCEPT ![r] = users[u]]
                 /\ entity' = [entity EXCEPT ![r] = Renamed(users[u], name)]
                 /\ Becomes(r, "loaded")
    /\ UNCHANGED <<store, cache, body>>

\* ListUsers: one SELECT, answered past the cache.
ListUsers(r) ==
    /\ pc[r] = "idle"
    /\ op' = [op EXCEPT ![r] = "list"]
    /\ Ends(r, "ok")
    /\ UNCHANGED <<store, cache, target, loaded, entity, existing, body, seen>>

\* repository.save: session.get, from the database or the identity map.
Reload(r) ==
    /\ pc[r] = "loaded"
    /\ \E row \in {users[target[r]], loaded[r]} :
        existing' = [existing EXCEPT ![r] = row]
    /\ Becomes(r, "writing")
    /\ UNCHANGED <<store, cache, op, target, loaded, entity, body, seen>>

\* A _flush that lets IntegrityError through.
FlushUntranslated(r) ==
    /\ pc[r] = "writing"
    /\ Writes(r) => ~Waits(r)
    /\ LET row == users[target[r]] IN
        IF \/ ~Writes(r)
           \/ Inserts(r) /\ row = Absent /\ EmailFree(r)
           \/ Updates(r) /\ row # Absent
        THEN Becomes(r, "flushed") ELSE Ends(r, "error")
    /\ UNCHANGED <<store, cache, memory, body, seen>>

\* repository._flush: the unique index decides, and only its refusal is
\* translated (EmailAlreadyUsed).
Flush(r) ==
    /\ pc[r] = "writing"
    /\ Writes(r) => ~Waits(r)
    /\ LET row == users[target[r]] IN
        \/ /\ \/ ~Writes(r)
              \/ Inserts(r) /\ row = Absent /\ EmailFree(r)
              \/ Updates(r) /\ row # Absent
           /\ Becomes(r, "flushed")
        \/ /\ Inserts(r) /\ row = Absent /\ ~EmailFree(r)
           /\ Ends(r, "conflict")
        \/ /\ \/ Inserts(r) /\ row # Absent     \* primary key
              \/ Updates(r) /\ row = Absent     \* StaleDataError
           /\ Ends(r, "error")
    /\ UNCHANGED <<store, cache, memory, body, seen>>

\* A RenameUser that writes the new name through instead.
InvalidateByWriting(r) ==
    /\ pc[r] = "flushed" /\ op[r] = "rename"
    /\ cache' = [cache EXCEPT ![target[r]] = r]
    /\ Becomes(r, "invalidated")
    /\ UNCHANGED <<store, memory, body, seen>>

\* RenameUser: cache.delete, after the flush and before the commit.
Invalidate(r) ==
    /\ pc[r] = "flushed" /\ op[r] = "rename"
    /\ \/ cache' = [cache EXCEPT ![target[r]] = Null]
       \/ RedisFails /\ UNCHANGED cache
    /\ Becomes(r, "invalidated")
    /\ UNCHANGED <<store, memory, body, seen>>

\* session.commit; every request about that user has now seen the new name.
Commit(r) ==
    /\ pc[r] = IF op[r] = "rename" THEN "invalidated" ELSE "flushed"
    /\ LET u == target[r]
           name == IF Inserts(r) \/ existing[r].name # entity[r].name
                   THEN entity[r].name ELSE users[u].name IN
        IF Writes(r)
        THEN /\ users' = [users EXCEPT ![u] =
                            IF Inserts(r) THEN entity[r]
                            ELSE [users[u] EXCEPT !.name = name]]
             /\ seen' = [q \in Requests |->
                            IF target[q] = u /\ pc[q] # "done"
                            THEN seen[q] \union {name} ELSE seen[q]]
        ELSE UNCHANGED <<users, seen>>
    /\ Becomes(r, "committed")
    /\ UNCHANGED <<minted, cache, memory, body>>

Respond(r) ==
    /\ pc[r] = "committed"
    /\ Ends(r, "ok")
    /\ UNCHANGED <<store, cache, memory, body, seen>>

\* GetUser: cache.get.  A Redis error reads as a miss.
LookUp(r, u) ==
    /\ Arrives(r, "get", u)
    /\ \/ /\ cache[u] # Null
          /\ body' = [body EXCEPT ![r] = cache[u]]
          /\ Ends(r, "ok")
       \/ /\ cache[u] = Null \/ RedisFails
          /\ Becomes(r, "missed")
          /\ UNCHANGED body
    /\ UNCHANGED <<store, cache, loaded, entity>>

\* A GetUser that also caches the absence of a user, as the row it got.
CacheAbsence(r) ==
    /\ pc[r] = "missed"
    /\ LET row == users[target[r]] IN
        IF row = Absent
        THEN /\ cache' = [cache EXCEPT ![target[r]] = Absent]
             /\ Ends(r, "not_found")
             /\ UNCHANGED body
        ELSE /\ body' = [body EXCEPT ![r] = row.name]
             /\ Becomes(r, "read")
             /\ UNCHANGED cache
    /\ UNCHANGED <<store, memory, seen>>

\* GetUser: repository.get on a miss.
ReadUser(r) ==
    /\ pc[r] = "missed"
    /\ LET row == users[target[r]] IN
        IF row = Absent
        THEN Ends(r, "not_found") /\ UNCHANGED body
        ELSE /\ body' = [body EXCEPT ![r] = row.name]
             /\ Becomes(r, "read")
    /\ UNCHANGED <<store, cache, memory, seen>>

\* GetUser: cache.set with the TTL, then the answer.
Fill(r) ==
    /\ pc[r] = "read"
    /\ \/ cache' = [cache EXCEPT ![target[r]] = body[r]]
       \/ RedisFails /\ UNCHANGED cache
    /\ Ends(r, "ok")
    /\ UNCHANGED <<store, memory, body, seen>>

\* A connection breaks: rollback, or a committed request left unanswered.
Break(r) ==
    /\ \/ Open(r) \/ pc[r] \in {"missed", "read"}
       \/ pc[r] = "committed"
    /\ Ends(r, IF pc[r] = "committed" THEN "lost" ELSE "broken")
    /\ UNCHANGED <<store, cache, memory, body, seen>>

\* An entry set without a TTL.
NeverExpires(u) == cache[u] # Null /\ UNCHANGED vars

\* The TTL of an entry runs out.
Expire(u) ==
    /\ cache[u] # Null
    /\ cache' = [cache EXCEPT ![u] = Null]
    /\ UNCHANGED <<store, pc, memory, body, answer, seen>>

\* A user deleted outside the API, behind the back of the cache.
DropUser(u) ==
    /\ users[u] # Absent
    /\ \A r \in Requests : target[r] = u => ~Uncommitted(r)
    /\ users' = [users EXCEPT ![u] = Absent]
    /\ UNCHANGED <<minted, cache, pc, memory, body, answer, seen>>

Step(r) ==
    Reload(r) \/ Flush(r) \/ Invalidate(r) \/ Commit(r) \/ Respond(r)
        \/ ReadUser(r) \/ Fill(r)

Next ==
    \/ \E r \in Requests, u \in Ids :
        \/ \E s \in Spellings : FindByEmail(r, u, s)
        \/ LoadUser(r, u)
        \/ LookUp(r, u)
    \/ \E r \in Requests : RefuseId(r) \/ ListUsers(r) \/ Step(r) \/ Break(r)
    \/ \E u \in Ids : Expire(u)
    \/ \E u \in Droppable : DropUser(u)

Spec == Init /\ [][Next]_vars

\* Started requests keep running, and Redis drops entries at their TTL.
FairSpec ==
    /\ Spec
    /\ \A r \in Requests : WF_vars(Step(r))
    /\ \A u \in Ids : WF_vars(Expire(u))

-----------------------------------------------------------------------------
(* Properties.                                                             *)

\* Two users never share an address, however it was typed, though CreateUser's own
\* check and its INSERT are two statements and a rename may re-insert a deleted user.
EmailsUnique ==
    \A u, v \in Stored :
        Normalised[users[u].email] = Normalised[users[v].email] => u = v

\* A creation or a read never ends in a server error: a lost race for an
\* address is a conflict, a Redis failure a miss.  Only a rename may, when its
\* user is dropped, or put back by another rename, under it.
NoServerError == \A r \in Requests : answer[r] = "error" => op[r] = "rename"

\* No name is served, or kept to be served, that was not committed.
ServedNamesWereCommitted ==
    ({body[r] : r \in {q \in Requests : answer[q] = "ok"}}
        \union {cache[u] : u \in Ids}) \intersect Requests
            \subseteq {r \in Requests : Committed(r)}

\* GetUser answers with a name the user had while the request ran.
GetIsFresh ==
    \A r \in Requests :
        op[r] = "get" /\ answer[r] = "ok" => body[r] \in seen[r]

\* Once requests are over, a stale entry does not outlive its TTL.
StaleEntriesExpire ==
    \A u \in Ids : <>[](cache[u] \in {Null} \union NamesOf(u))
=============================================================================
