-------------------------- MODULE ImportTasksProofs --------------------------
(***************************************************************************)
(* What an import promises, for any document, batch size and number of     *)
(* runs, whatever kills it and whatever the API does meanwhile: it never   *)
(* overwrites, its report adds up and can be trusted, an import that stops *)
(* keeps whole batches, only a deleted user can make a foreign key fail,   *)
(* and an export that was imported once is imported again without effect.  *)
(*                                                                         *)
(* Each part adds an invariant to those before it.                         *)
(***************************************************************************)
EXTENDS ImportTasks, FiniteSetTheorems, WellFoundedInduction, TLAPS

-----------------------------------------------------------------------------
(* Least and greatest elements.                                            *)

\* A set of numbers that is not empty has a least element.
LEMMA Least ==
    ASSUME NEW S \in SUBSET Nat, S # {}
    PROVE  \E n \in S : \A k \in S : n <= k
<1> DEFINE R == OpToRel(<, Nat)
<1>1. IsWellFoundedOn(R, Nat)
  BY NatLessThanWellFounded
<1>2. \E x \in S : \A y \in S : <<y, x>> \notin R
  <2> HIDE DEF R
  <2> QED  BY <1>1, WFMin
<1>3. \A x, y \in Nat : <<y, x>> \notin R => x <= y
  BY DEF OpToRel
<1> QED  BY <1>2, <1>3

\* And, if it is bounded, a greatest one.
LEMMA Greatest ==
    ASSUME NEW n \in Nat, NEW S \in SUBSET (1..n), S # {}
    PROVE  \E m \in S : \A k \in S : k <= m
<1> DEFINE T == {j \in 0..n : n - j \in S}
<1>1. T \in SUBSET Nat
  OBVIOUS
<1>2. T # {}
  <2>1. PICK k \in S : TRUE
    OBVIOUS
  <2>2. k \in 1..n /\ n - k \in 0..n /\ n - (n - k) = k
    OBVIOUS
  <2> QED  BY <2>1, <2>2
<1>3. PICK j \in T : \A i \in T : j <= i
  <2> HIDE DEF T
  <2> QED  BY <1>1, <1>2, Least
<1>4. n - j \in S
  OBVIOUS
<1>5. ASSUME NEW k \in S PROVE k <= n - j
  <2>1. k \in 1..n /\ n - k \in 0..n /\ n - (n - k) = k
    OBVIOUS
  <2>2. n - k \in T
    BY <2>1
  <2> QED  BY <1>3, <2>1, <2>2
<1> QED  BY <1>4, <1>5

-----------------------------------------------------------------------------
(* Lines and batches.                                                      *)

\* A file is a sequence of lines.
LEMMA FileType ==
    ASSUME document \in Documents
    PROVE  /\ Len(file) \in Nat
           /\ \A i \in 1..Len(file) : file[i] \in Line
<1>1. document.lines \in Seq(Line)
  BY ImportAssumption
<1> QED  BY <1>1 DEF file

\* A batch is what is legible from the offset to its last row; an empty one is at
\* the end of the file.
LEMMA BatchShape ==
    ASSUME document \in Documents, offset \in 0..Len(file)
    PROVE  /\ Batch \subseteq {i \in 1..Len(file) : offset < i /\ Legible(i)}
           /\ Batch = {} => \A i \in 1..Len(file) : offset < i => ~Legible(i)
           /\ Batch # {} =>
                \E m \in Batch :
                    /\ m = CHOOSE i \in Batch : \A j \in Batch : j <= i
                    /\ \A j \in Batch : j <= m
                    /\ Batch = {i \in 1..m : offset < i /\ Legible(i)}
<1> DEFINE n == Len(file)
           rows == {i \in Ahead : Legible(i)}
           upTo(i) == {j \in rows : j <= i}
<1>1. n \in Nat
  BY FileType
<1>2. rows = {i \in 1..n : offset < i /\ Legible(i)}
  BY DEF Ahead
<1>3. Batch = {i \in rows : Cardinality(upTo(i)) <= BatchSize}
  BY DEF Batch
<1>4. \A i \in rows : IsFiniteSet(upTo(i)) /\ Cardinality(upTo(i)) \in Nat
  <2> SUFFICES ASSUME NEW i \in rows PROVE IsFiniteSet(upTo(i)) /\ Cardinality(upTo(i)) \in Nat
    OBVIOUS
  <2>1. upTo(i) \subseteq 1..n
    BY <1>2
  <2>2. IsFiniteSet(1..n)
    BY <1>1, FS_Interval
  <2>3. IsFiniteSet(upTo(i))
    <3> HIDE DEF upTo, n
    <3> QED  BY <2>1, <2>2, FS_Subset
  <2> QED  BY <2>3, FS_CardinalityType
<1>5. ASSUME NEW i \in Batch, NEW k \in rows, k <= i PROVE k \in Batch
  <2>1. i \in rows /\ Cardinality(upTo(i)) <= BatchSize
    BY <1>3
  <2>2. upTo(k) \subseteq upTo(i)
    BY <1>1, <1>2, <1>5, <2>1
  <2>3. Cardinality(upTo(k)) <= Cardinality(upTo(i))
    <3>1. IsFiniteSet(upTo(i))
      BY <1>4, <2>1
    <3> HIDE DEF upTo
    <3> QED  BY <2>2, <3>1, FS_Subset
  <2>4. Cardinality(upTo(k)) <= BatchSize
    <3>1. Cardinality(upTo(k)) \in Nat /\ Cardinality(upTo(i)) \in Nat
      BY <1>4, <2>1
    <3> HIDE DEF upTo
    <3> QED  BY <2>1, <2>3, <3>1, ImportAssumption
  <2> QED  BY <1>3, <2>4
<1>6. ASSUME Batch = {} PROVE rows = {}
  <2> SUFFICES ASSUME rows # {} PROVE FALSE
    OBVIOUS
  <2>1. PICK i \in rows : \A j \in rows : i <= j
    <3>1. rows \in SUBSET Nat
      BY <1>2
    <3> HIDE DEF rows
    <3> QED  BY <3>1, Least
  <2>2. upTo(i) = {i}
    BY <1>1, <1>2, <2>1
  <2>3. Cardinality(upTo(i)) = 1
    <3> HIDE DEF upTo
    <3> QED  BY <2>2, FS_Singleton
  <2> QED  BY <1>3, <1>6, <2>3, ImportAssumption
<1>7. ASSUME Batch # {}
      PROVE  \E m \in Batch :
                    /\ m = CHOOSE i \in Batch : \A j \in Batch : j <= i
                    /\ \A j \in Batch : j <= m
                    /\ Batch = {i \in 1..m : offset < i /\ Legible(i)}
  <2> DEFINE m == CHOOSE i \in Batch : \A j \in Batch : j <= i
  <2>1. Batch \in SUBSET (1..n)
    BY <1>2, <1>3
  <2>2. m \in Batch /\ \A j \in Batch : j <= m
    <3>1. \E i \in Batch : \A j \in Batch : j <= i
      <4> HIDE DEF n
      <4> QED  BY <1>1, <1>7, <2>1, Greatest
    <3> QED  BY <3>1
  <2> HIDE DEF m
  <2>3. Batch \subseteq {i \in 1..m : offset < i /\ Legible(i)}
    BY <1>1, <1>2, <1>3, <2>1, <2>2
  <2>4. {i \in 1..m : offset < i /\ Legible(i)} \subseteq Batch
    <3> SUFFICES ASSUME NEW i \in 1..m, offset < i, Legible(i) PROVE i \in Batch
      OBVIOUS
    <3>1. i \in 1..n /\ i <= m
      BY <1>1, <2>1, <2>2
    <3> QED  BY <1>2, <1>5, <2>2, <3>1
  <2> QED  BY <2>2, <2>3, <2>4 DEF m
<1> QED  BY <1>2, <1>3, <1>6, <1>7

\* What depends on the document and the offset alone.
LEMMA SameBatch ==
    ASSUME UNCHANGED <<document, offset>>
    PROVE  /\ Batch' = Batch /\ Reconstituted' = Reconstituted
           /\ \A i : Legible(i)' <=> Legible(i)
BY DEF Batch, Ahead, Reconstituted, Legible, Accepted, Seen, file

\* The reader's steps stay in the file.
LEMMA AdvanceStays ==
    ASSUME document \in Documents, offset \in 0..Len(file), Batch # {}, Advance
    PROVE  /\ offset' \in Batch /\ offset' \in 1..Len(file) /\ offset < offset'
           /\ \A j \in Batch : j <= offset'
           /\ Batch = {i \in 1..offset' : offset < i /\ Legible(i)}
BY BatchShape DEF Advance

-----------------------------------------------------------------------------
(* The first invariant.                                                    *)

InBatch == {"users", "owners", "tasks", "commit"}

Typed ==
    /\ document \in Documents
    /\ users \in [Owners -> Emails \union {Absent}]
    /\ tasks \in [Tasks -> Owners \union {Absent}]
    /\ newUsers \in [Owners -> Emails \union {Absent}]
    /\ newTasks \in [Tasks -> Owners \union {Absent}]
    /\ pc \in Ended \union {"reading"} \union InBatch
    /\ offset \in 0..Len(file)
    /\ retained \subseteq 1..Len(file)
    /\ skippedOwner \in BOOLEAN
    /\ already \subseteq Tasks \union Owners
    /\ dropped \subseteq Owners
    /\ deleted \subseteq Tasks

\* What the transaction inserts was not in the tables, and there is nothing to
\* insert outside its statements.
Fresh ==
    /\ \A o \in Owners : newUsers[o] # Absent => users[o] = Absent
    /\ \A t \in Tasks : newTasks[t] # Absent => tasks[t] = Absent
    /\ pc \notin {"owners", "tasks", "commit"} => newUsers = Nothing(Owners)
    /\ pc # "commit" => newTasks = Nothing(Tasks)

\* Between statements there is a batch, and what is kept of it is of it.
HasBatch ==
    /\ pc \in InBatch => Batch # {}
    /\ pc \in {"users", "owners", "tasks"} => retained \subseteq Reconstituted

TypeInv == Typed /\ Fresh /\ HasBatch

\* What a table shows its transaction.
LEMMA Visibly ==
    ASSUME Typed
    PROVE  /\ \A o \in Owners :
                VisibleUsers[o] = IF newUsers[o] # Absent THEN newUsers[o] ELSE users[o]
           /\ \A t \in Tasks :
                VisibleTasks[t] = IF newTasks[t] # Absent THEN newTasks[t] ELSE tasks[t]
           /\ VisibleUsers \in [Owners -> Emails \union {Absent}]
           /\ VisibleTasks \in [Tasks -> Owners \union {Absent}]
BY DEF Typed, VisibleUsers, VisibleTasks, With

\* The address of an owner is one some line gives it.
LEMMA EmailMentioned ==
    ASSUME Typed, NEW i \in retained
    PROVE  \E j \in retained : file[j].owner = file[i].owner /\ EmailOf(i) = file[j].email
<1> DEFINE S == MentionsOf(i)
<1>1. Len(file) \in Nat /\ S \subseteq 1..Len(file) /\ i \in S
  BY FileType DEF Typed, MentionsOf
<1>2. \E j \in S : \A k \in S : k <= j
  <2> HIDE DEF S
  <2> QED  BY <1>1, Greatest
<1> QED  BY <1>2 DEF EmailOf, LastMention, MentionsOf

\* Each owner has one first mention.
LEMMA FirstMentioned ==
    ASSUME Typed, NEW i \in retained
    PROVE  \E f \in FirstMentions :
                file[f].owner = file[i].owner /\ EmailOf(f) = EmailOf(i)
<1> DEFINE S == MentionsOf(i)
<1>1. Len(file) \in Nat /\ S \subseteq 1..Len(file) /\ i \in S
  BY FileType DEF Typed, MentionsOf
<1>2. PICK f \in S : \A k \in S : f <= k
  <2>1. S \in SUBSET Nat
    BY <1>1
  <2> HIDE DEF S
  <2> QED  BY <1>1, <2>1, Least
<1>3. f \in retained /\ MentionsOf(f) = S
  BY DEF MentionsOf
<1> QED  BY <1>2, <1>3 DEF FirstMentions, EmailOf, LastMention, MentionsOf

\* Two first mentions of one owner are the same line.
LEMMA OneFirstMention ==
    ASSUME Typed, NEW f \in FirstMentions, NEW g \in FirstMentions,
           file[f].owner = file[g].owner
    PROVE  f = g
<1>1. Len(file) \in Nat /\ f \in 1..Len(file) /\ g \in 1..Len(file)
  BY FileType DEF Typed, FirstMentions
<1>2. f <= g /\ g <= f
  BY DEF FirstMentions, MentionsOf
<1> QED  BY <1>1, <1>2

\* The INSERT of the owners: it takes owners the tables do not have.
LEMMA OwnersInserted ==
    ASSUME TypeInv, SaveUsers
    PROVE  /\ newUsers' \in [Owners -> Emails \union {Absent}]
           /\ \A i \in NewOwners : newUsers'[file[i].owner] = EmailOf(i)
           /\ \A o \in Owners : newUsers'[o] # Absent =>
                /\ users[o] = Absent
                /\ \E i \in NewOwners : file[i].owner = o /\ newUsers'[o] = EmailOf(i)
<1> USE DEF TypeInv
<1>1. \A i \in NewOwners : i \in FirstMentions /\ i \in retained /\ i \in 1..Len(file)
  BY DEF NewOwners, Unknown, FirstMentions, Typed
<1>2. \A i \in 1..Len(file) : file[i].owner \in Owners /\ file[i].email \in Emails
  BY FileType DEF Typed, Line
<1>3. ASSUME NEW i \in NewOwners PROVE EmailOf(i) \in Emails
  <2>1. PICK j \in retained : EmailOf(i) = file[j].email
    BY <1>1, EmailMentioned
  <2> QED  BY <1>2, <2>1 DEF Typed
<1>4. newUsers' = [o \in Owners |->
            IF \E i \in NewOwners : file[i].owner = o
            THEN EmailOf(CHOOSE i \in NewOwners : file[i].owner = o)
            ELSE newUsers[o]]
  BY DEF SaveUsers
<1>5. \A o \in Owners : newUsers[o] = Absent /\ VisibleUsers[o] = users[o]
  BY Visibly DEF SaveUsers, Fresh, Nothing
<1>6. ASSUME NEW i \in NewOwners PROVE newUsers'[file[i].owner] = EmailOf(i)
  <2> DEFINE g == CHOOSE j \in NewOwners : file[j].owner = file[i].owner
  <2>1. g \in NewOwners /\ file[g].owner = file[i].owner
    OBVIOUS
  <2>2. g = i
    <3> HIDE DEF g
    <3> QED  BY <1>1, <2>1, OneFirstMention
  <2>3. newUsers'[file[i].owner] = EmailOf(g)
    BY <1>1, <1>2, <1>4
  <2> QED  BY <2>2, <2>3
<1>7. ASSUME NEW o \in Owners, newUsers'[o] # Absent
      PROVE  \E i \in NewOwners : file[i].owner = o /\ newUsers'[o] = EmailOf(i)
  BY <1>4, <1>5, <1>6, <1>7
<1>8. ASSUME NEW o \in Owners, NEW i \in NewOwners, file[i].owner = o PROVE users[o] = Absent
  BY <1>5, <1>8 DEF NewOwners, Unknown
<1>9. \A o \in Owners : newUsers'[o] \in Emails \union {Absent}
  BY <1>3, <1>7
<1> QED  BY <1>4, <1>6, <1>7, <1>8, <1>9

\* The INSERT of the tasks: it takes tasks the tables do not have.
LEMMA TasksInserted ==
    ASSUME TypeInv, SaveTasks, pc' = "commit"
    PROVE  /\ newTasks' \in [Tasks -> Owners \union {Absent}]
           /\ newUsers' = newUsers
           /\ inserted' = inserted + Cardinality(NewLines)
           /\ skipped' = skipped + Cardinality(retained \ NewLines)
           /\ \A i \in NewLines : newTasks'[file[i].task] # Absent
           /\ \A t \in Tasks : newTasks'[t] # Absent =>
                /\ tasks[t] = Absent
                /\ \E i \in NewLines : file[i].task = t
<1> USE DEF TypeInv
<1>1. \A i \in NewLines : i \in retained /\ i \in 1..Len(file)
  BY DEF NewLines, Typed
<1>2. \A i \in 1..Len(file) : file[i].owner \in Owners /\ file[i].task \in Tasks
  BY FileType DEF Typed, Line
<1>3. /\ newTasks' = [t \in Tasks |->
                    IF \E i \in NewLines : file[i].task = t
                    THEN file[CHOOSE i \in NewLines : file[i].task = t].owner
                    ELSE newTasks[t]]
      /\ newUsers' = newUsers
      /\ inserted' = inserted + Cardinality(NewLines)
      /\ skipped' = skipped + Cardinality(retained \ NewLines)
  BY DEF SaveTasks, Closes
<1>4. \A t \in Tasks : newTasks[t] = Absent /\ VisibleTasks[t] = tasks[t]
  BY Visibly DEF SaveTasks, Fresh, Nothing
<1>5. ASSUME NEW t \in Tasks
      PROVE  IF \E i \in NewLines : file[i].task = t
             THEN newTasks'[t] \in Owners ELSE newTasks'[t] = Absent
  <2>1. CASE \E i \in NewLines : file[i].task = t
    <3> DEFINE g == CHOOSE i \in NewLines : file[i].task = t
    <3>1. g \in NewLines
      BY <2>1
    <3>2. newTasks'[t] = file[g].owner
      BY <1>3, <2>1
    <3> HIDE DEF g
    <3> QED  BY <1>1, <1>2, <2>1, <3>1, <3>2
  <2>2. CASE ~ \E i \in NewLines : file[i].task = t
    BY <1>3, <1>4, <2>2
  <2> QED  BY <2>1, <2>2
<1>6. Absent \notin Owners
  BY ImportAssumption
<1>7. \A i \in NewLines : newTasks'[file[i].task] # Absent
  BY <1>1, <1>2, <1>5, <1>6
<1>8. ASSUME NEW t \in Tasks, newTasks'[t] # Absent
      PROVE  tasks[t] = Absent /\ \E i \in NewLines : file[i].task = t
  BY <1>4, <1>5, <1>8 DEF NewLines
<1>9. newTasks' \in [Tasks -> Owners \union {Absent}]
  BY <1>3, <1>5
<1> QED  BY <1>3, <1>7, <1>8, <1>9

\* Nothing of the import itself moves but its tables.
LEMMA TablesChange ==
    ASSUME TypeInv, UNCHANGED <<document, open, pc, batch, report, count>>,
           users' \in [Owners -> Emails \union {Absent}],
           tasks' \in [Tasks -> Owners \union {Absent}],
           dropped' \subseteq Owners, deleted' \subseteq Tasks,
           \A o \in Owners : newUsers[o] # Absent => users'[o] = Absent,
           \A t \in Tasks : newTasks[t] # Absent => tasks'[t] = Absent
    PROVE  TypeInv'
<1> USE DEF TypeInv, open, batch, report, count
<1>1. Typed'
  BY DEF Typed, file
<1>2. Fresh'
  BY DEF Fresh
<1>3. HasBatch'
  BY SameBatch DEF HasBatch
<1> QED  BY <1>1, <1>2, <1>3

\* The API: a new user has an identifier the import has not inserted, ...
LEMMA CreateUserTypes ==
    ASSUME TypeInv, NEW o \in Owners, NEW e \in Emails, CreateUser(o, e)
    PROVE  TypeInv'
<1>1. newUsers[o] = Absent
  BY Visibly DEF TypeInv, CreateUser
<1>2. users' \in [Owners -> Emails \union {Absent}]
  BY DEF TypeInv, Typed, CreateUser
<1>3. \A p \in Owners : newUsers[p] # Absent => users'[p] = Absent
  BY <1>1 DEF TypeInv, Typed, Fresh, CreateUser
<1> QED  BY <1>2, <1>3, TablesChange DEF TypeInv, Typed, Fresh, CreateUser, Disturb

\* ... and removals take nothing the import has inserted.
LEMMA DropUserTypes ==
    ASSUME TypeInv, NEW o \in Owners, DropUser(o)
    PROVE  TypeInv'
<1>1. /\ users' \in [Owners -> Emails \union {Absent}]
      /\ tasks' \in [Tasks -> Owners \union {Absent}]
  BY DEF TypeInv, Typed, DropUser
<1>2. dropped' \subseteq Owners /\ deleted' \subseteq Tasks
  BY DEF TypeInv, Typed, DropUser
<1>3. /\ \A p \in Owners : newUsers[p] # Absent => users'[p] = Absent
      /\ \A t \in Tasks : newTasks[t] # Absent => tasks'[t] = Absent
  BY DEF TypeInv, Typed, Fresh, DropUser
<1> QED  BY <1>1, <1>2, <1>3, TablesChange DEF DropUser, Disturb

\* A task the API deletes was committed, so no transaction has just inserted it.
LEMMA DeleteTaskTypes ==
    ASSUME TypeInv, NEW t \in Tasks, DeleteTask(t)
    PROVE  TypeInv'
<1>1. tasks' \in [Tasks -> Owners \union {Absent}]
  BY DEF TypeInv, Typed, DeleteTask
<1>2. dropped' \subseteq Owners /\ deleted' \subseteq Tasks
  BY DEF TypeInv, Typed, DeleteTask
<1>3. \A k \in Tasks : newTasks[k] # Absent => tasks'[k] = Absent
  BY DEF TypeInv, Typed, Fresh, DeleteTask
<1> QED  BY <1>1, <1>2, <1>3, TablesChange DEF TypeInv, Typed, Fresh, DeleteTask, Disturb

\* A transaction that closes leaves nothing to insert.
LEMMA ClosedTypes ==
    ASSUME TypeInv, NEW outcome \in Ended \union {"reading"}, Closes(outcome),
           UNCHANGED <<document, retained, skippedOwner, already, world>>,
           users' \in [Owners -> Emails \union {Absent}],
           tasks' \in [Tasks -> Owners \union {Absent}],
           offset' \in 0..Len(file)
    PROVE  TypeInv'
<1> USE DEF TypeInv, world
<1>1. /\ newUsers' = Nothing(Owners) /\ newTasks' = Nothing(Tasks) /\ pc' = outcome
      /\ pc' \notin InBatch
  BY DEF Closes, Ended, Stopped, InBatch
<1>2. Typed'
  BY <1>1 DEF Typed, Nothing, file
<1>3. Fresh'
  BY <1>1 DEF Fresh, Nothing
<1>4. HasBatch'
  BY <1>1 DEF HasBatch, InBatch
<1> QED  BY <1>2, <1>3, <1>4

\* Running the command clears the batch, and there was no open transaction.
LEMMA StartTypes == ASSUME TypeInv, Start PROVE TypeInv'
<1>1. /\ pc' \in {"reading", "undecodable"}
      /\ newUsers = Nothing(Owners)
      /\ newTasks = Nothing(Tasks)
  BY DEF Start, TypeInv, Fresh, Ended, Stopped
<1>2. Len(file) \in Nat /\ 0 \in 0..Len(file)
  BY FileType DEF TypeInv, Typed
<1>3. Typed'
  BY <1>1, <1>2 DEF TypeInv, Typed, Start, tables, open, world, file, Ended, Stopped
<1>4. Fresh'
  BY <1>1 DEF TypeInv, Fresh, Start, tables, open
<1>5. HasBatch'
  BY <1>1 DEF HasBatch, InBatch
<1> QED  BY <1>3, <1>4, <1>5 DEF TypeInv

\* What ReadBatch does, in each of its cases.
LEMMA ReadBatchTypes == ASSUME TypeInv, ReadBatch PROVE TypeInv'
<1> USE DEF TypeInv
<1>1. UNCHANGED <<document, tables, offset, skippedOwner, already, world>>
  BY DEF ReadBatch
<1>2. newUsers = Nothing(Owners) /\ newTasks = Nothing(Tasks)
  BY DEF ReadBatch, Fresh
<1>3. newUsers' = Nothing(Owners) /\ newTasks' = Nothing(Tasks)
  BY <1>2 DEF ReadBatch, Closes, open
<1>4. /\ pc' \in {"reported", "type_error", "users"}
      /\ pc' = "users" => Batch # {} /\ retained' = Reconstituted
      /\ pc' # "users" => retained' = retained
  BY DEF ReadBatch, Closes
<1>5. Reconstituted \subseteq 1..Len(file)
  BY BatchShape DEF Typed, Reconstituted
<1>6. Typed'
  BY <1>1, <1>3, <1>4, <1>5 DEF Typed, Nothing, tables, world, file, Ended, Stopped, InBatch
<1>7. Fresh'
  BY <1>3, <1>4 DEF Fresh, Nothing
<1>8. HasBatch'
  BY <1>1, <1>4, SameBatch DEF HasBatch, InBatch
<1> QED  BY <1>6, <1>7, <1>8

\* The INSERT of the owners takes only keys the tables do not have.
LEMMA SaveUsersTypes == ASSUME TypeInv, SaveUsers PROVE TypeInv'
<1> USE DEF TypeInv
<1>1. /\ pc = "users" /\ pc' = "owners"
      /\ UNCHANGED <<document, tables, newTasks, offset, retained, already, world>>
      /\ skippedOwner' \in BOOLEAN
  BY DEF SaveUsers, count
<1>2. /\ newUsers' \in [Owners -> Emails \union {Absent}]
      /\ \A o \in Owners : newUsers'[o] # Absent => users[o] = Absent
  BY OwnersInserted
<1>3. Typed'
  BY <1>1, <1>2 DEF Typed, tables, world, file, InBatch
<1>4. Fresh'
  BY <1>1, <1>2 DEF Fresh, tables
<1>5. HasBatch'
  BY <1>1, SameBatch DEF HasBatch, InBatch
<1> QED  BY <1>3, <1>4, <1>5

\* _sans_orphelines keeps lines of the batch.
LEMMA KeepOwnedTypes == ASSUME TypeInv, KeepOwned PROVE TypeInv'
<1> USE DEF TypeInv
<1>1. /\ pc = "owners" /\ pc' = "tasks" /\ retained' \subseteq retained
      /\ UNCHANGED <<document, tables, open, offset, skippedOwner, already, world>>
  BY DEF KeepOwned, count
<1>2. Typed'
  BY <1>1 DEF Typed, tables, open, world, file, InBatch
<1>3. Fresh'
  BY <1>1 DEF Fresh, tables, open
<1>4. HasBatch'
  BY <1>1, SameBatch DEF HasBatch, InBatch
<1> QED  BY <1>2, <1>3, <1>4

\* The INSERT of the tasks takes only keys the tables do not have, or closes.
LEMMA SaveTasksTypes == ASSUME TypeInv, SaveTasks PROVE TypeInv'
<1> USE DEF TypeInv
<1>1. UNCHANGED <<document, tables, offset, retained, skippedOwner, already, world>>
  BY DEF SaveTasks, batch, count
<1>2. pc = "tasks"
  BY DEF SaveTasks
<1>3. CASE pc' # "commit"
  <2>1. Closes("data_error") \/ Closes("integrity_error")
    BY <1>3 DEF SaveTasks
  <2> QED  BY <1>1, <2>1, ClosedTypes DEF Typed, tables, Ended, Stopped
<1>4. CASE pc' = "commit"
  <2>1. /\ newTasks' \in [Tasks -> Owners \union {Absent}]
        /\ newUsers' = newUsers
        /\ \A t \in Tasks : newTasks'[t] # Absent => tasks[t] = Absent
    BY <1>4, TasksInserted
  <2>2. Typed'
    BY <1>1, <1>4, <2>1 DEF Typed, tables, world, file, InBatch
  <2>3. Fresh'
    BY <1>1, <1>4, <2>1 DEF Fresh, tables
  <2>4. HasBatch'
    BY <1>1, <1>2, <1>4, SameBatch DEF HasBatch, InBatch
  <2> QED  BY <2>2, <2>3, <2>4
<1> QED  BY <1>3, <1>4

\* A commit moves to the last row of the batch, which is in the file.
LEMMA CommitTypes == ASSUME TypeInv, Commit PROVE TypeInv'
<1>1. Batch # {} /\ document \in Documents /\ offset \in 0..Len(file)
  BY DEF TypeInv, HasBatch, Typed, Commit, InBatch
<1>2. offset' \in 0..Len(file)
  BY <1>1, FileType, AdvanceStays DEF Commit
<1>3. /\ users' \in [Owners -> Emails \union {Absent}]
      /\ tasks' \in [Tasks -> Owners \union {Absent}]
  BY Visibly DEF TypeInv, Commit
<1> QED  BY <1>2, <1>3, ClosedTypes DEF Commit, count

\* A process that dies, or a name the database refuses, leaves nothing open.
LEMMA KillTypes == ASSUME TypeInv, Kill \/ SaveUsersFails PROVE TypeInv'
BY ClosedTypes
DEF TypeInv, Typed, Kill, SaveUsersFails, tables, batch, count, Ended, Stopped

\* Nothing is open before the first run.
LEMMA InitTypes == Init => TypeInv
<1> SUFFICES ASSUME Init PROVE TypeInv
  OBVIOUS
<1>1. document \in Documents
  BY DEF Init
<1>2. Len(file) \in Nat /\ 0 \in 0..Len(file)
  BY <1>1, FileType
<1>3. Typed
  BY <1>1, <1>2 DEF Init, Typed, Nothing, Ended
<1>4. Fresh
  BY DEF Init, Fresh, Nothing
<1>5. HasBatch
  BY DEF Init, HasBatch, InBatch
<1> QED  BY <1>3, <1>4, <1>5 DEF TypeInv

\* Every step keeps the types and what an open transaction may hold.
LEMMA NextTypes == TypeInv /\ [Next]_vars => TypeInv'
<1> SUFFICES ASSUME TypeInv, [Next]_vars PROVE TypeInv'
  OBVIOUS
<1>1. CASE UNCHANGED vars
  BY <1>1, TablesChange DEF vars, open, batch, report, count, TypeInv, Typed, Fresh
<1> QED
  BY <1>1, StartTypes, ReadBatchTypes, SaveUsersTypes, KeepOwnedTypes, SaveTasksTypes,
     CommitTypes, KillTypes, CreateUserTypes, DropUserTypes, DeleteTaskTypes DEF Next

\* Types, and that a transaction holds only what the tables do not have.
THEOREM ImportTypes == Spec => []TypeInv
<1> QED  BY InitTypes, NextTypes, PTL DEF Spec

\* An import never overwrites: what is stored stays as it is or is removed.
THEOREM NothingOverwritten == Spec => ImportOverwritesNothing
<1> DEFINE Keeps ==
        /\ \A t \in Tasks : tasks[t] # Absent => tasks'[t] \in {tasks[t], Absent}
        /\ \A o \in Owners : users[o] # Absent => users'[o] \in {users[o], Absent}
<1>1. ASSUME TypeInv, [Next]_vars PROVE Keeps
  <2>1. CASE Commit
    BY <1>1, <2>1, Visibly DEF TypeInv, Fresh, Commit
  <2>2. CASE \E o \in Owners : DropUser(o) \/ \E e \in Emails : CreateUser(o, e)
    <3>1. ASSUME NEW o \in Owners, DropUser(o) PROVE Keeps
      BY <1>1, <3>1 DEF DropUser, TypeInv, Typed
    <3>2. ASSUME NEW o \in Owners, NEW e \in Emails, CreateUser(o, e) PROVE Keeps
      BY <1>1, <3>2, Visibly DEF CreateUser, TypeInv, Typed
    <3> QED  BY <2>2, <3>1, <3>2
  <2>3. CASE \E t \in Tasks : DeleteTask(t)
    BY <1>1, <2>3 DEF DeleteTask, TypeInv, Typed
  <2>4. CASE UNCHANGED tables
    BY <1>1, <2>4 DEF tables
  <2> QED
    BY <1>1, <2>1, <2>2, <2>3, <2>4
    DEF Next, vars, Start, ReadBatch, SaveUsers, SaveUsersFails, KeepOwned, SaveTasks, Kill,
        tables
<1>2. TypeInv /\ [Next]_vars => [Keeps]_vars
  BY <1>1
<1> HIDE DEF Keeps
<1>3. Spec => [][Keeps]_vars
  BY <1>2, ImportTypes, PTL DEF Spec
<1> QED  BY <1>3 DEF Keeps, ImportOverwritesNothing

-----------------------------------------------------------------------------
(* Foreign keys.                                                           *)

HaveOwners == \A i \in retained : VisibleUsers[file[i].owner] # Absent

\* As long as nobody drops a user, whoever owns a retained line is there: nobody was
\* skipped, or the import has asked.
OwnersThere ==
    dropped = {} =>
        /\ pc = "owners" /\ ~skippedOwner => HaveOwners
        /\ pc = "tasks" => HaveOwners
        /\ pc # "integrity_error"

\* An INSERT that skips nobody leaves every owner of a retained line in the tables.
LEMMA NobodySkipped ==
    ASSUME TypeInv, SaveUsers, TypeInv', ~skippedOwner'
    PROVE  HaveOwners'
<1>1. NewOwners = FirstMentions /\ UNCHANGED <<document, retained>>
  BY DEF SaveUsers
<1> SUFFICES ASSUME NEW i \in retained PROVE VisibleUsers'[file[i].owner] # Absent
  BY <1>1 DEF HaveOwners, file
<1>2. PICK f \in FirstMentions : file[f].owner = file[i].owner
  BY FirstMentioned DEF TypeInv
<1>3. PICK j \in retained : EmailOf(f) = file[j].email
  BY EmailMentioned DEF TypeInv, FirstMentions
<1>4. file[j].email # Absent /\ file[i].owner \in Owners
  BY FileType, ImportAssumption DEF TypeInv, Typed, Line
<1>5. newUsers'[file[i].owner] = EmailOf(f)
  BY <1>1, <1>2, OwnersInserted
<1>6. \A o \in Owners :
        VisibleUsers'[o] = IF newUsers'[o] # Absent THEN newUsers'[o] ELSE users'[o]
  <2>1. TypeInv' => \A o \in Owners :
        VisibleUsers'[o] = IF newUsers'[o] # Absent THEN newUsers'[o] ELSE users'[o]
    BY DEF TypeInv, Typed, VisibleUsers, With
  <2> QED  BY <2>1
<1> QED  BY <1>3, <1>4, <1>5, <1>6

\* Every step keeps it.
LEMMA NextOwners == TypeInv /\ TypeInv' /\ OwnersThere /\ [Next]_vars => OwnersThere'
<1> SUFFICES ASSUME TypeInv, TypeInv', OwnersThere, [Next]_vars, dropped' = {}
             PROVE  /\ pc' = "owners" /\ ~skippedOwner' => HaveOwners'
                    /\ pc' = "tasks" => HaveOwners'
                    /\ pc' # "integrity_error"
  BY DEF OwnersThere
<1> USE DEF OwnersThere
<1>1. CASE UNCHANGED <<document, users, newUsers, pc, retained, skippedOwner, dropped>>
  BY <1>1 DEF HaveOwners, VisibleUsers, With, file
<1>2. CASE pc' \notin {"owners", "tasks", "integrity_error"}
  BY <1>2
<1>3. CASE SaveUsers
  BY <1>3, NobodySkipped DEF SaveUsers
<1>4. CASE KeepOwned
  <2>1. /\ retained' = {i \in retained : skippedOwner => VisibleUsers[file[i].owner] # Absent}
        /\ UNCHANGED <<document, users, newUsers, skippedOwner, dropped>>
        /\ pc = "owners" /\ pc' = "tasks"
    BY <1>4 DEF KeepOwned, tables, open, world
  <2>2. VisibleUsers' = VisibleUsers /\ file' = file
    BY <2>1 DEF VisibleUsers, With, file
  <2> QED  BY <2>1, <2>2 DEF HaveOwners
<1>5. CASE SaveTasks
  <2>1. dropped = {} /\ HaveOwners
    BY <1>5 DEF SaveTasks, world
  <2> QED  BY <1>5, <2>1 DEF SaveTasks, Closes, NewLines, HaveOwners
<1>6. ASSUME NEW o \in Owners, NEW e \in Emails, CreateUser(o, e)
      PROVE  /\ pc' = "owners" /\ ~skippedOwner' => HaveOwners'
             /\ pc' = "tasks" => HaveOwners'
             /\ pc' # "integrity_error"
  <2>1. UNCHANGED <<document, newUsers, pc, retained, skippedOwner, dropped>>
    BY <1>6 DEF CreateUser, Disturb, open, batch
  <2>2. HaveOwners => HaveOwners'
    <3>1. Absent \notin Emails
      BY ImportAssumption
    <3>2. users' = [users EXCEPT ![o] = e]
      BY <1>6 DEF CreateUser
    <3>3. /\ users \in [Owners -> Emails \union {Absent}]
          /\ newUsers \in [Owners -> Emails \union {Absent}]
      BY DEF TypeInv, Typed
    <3>4. \A p \in Owners : VisibleUsers[p] # Absent => VisibleUsers'[p] # Absent
      BY <2>1, <3>1, <3>2, <3>3 DEF VisibleUsers, With
    <3>5. \A i \in retained : file[i].owner \in Owners
      BY FileType DEF TypeInv, Typed, Line
    <3> QED  BY <2>1, <3>4, <3>5 DEF HaveOwners, file
  <2> QED  BY <2>1, <2>2
<1>7. ASSUME NEW o \in Owners, DropUser(o) PROVE FALSE
  BY <1>7 DEF DropUser
<1> QED
  BY <1>1, <1>2, <1>3, <1>4, <1>5, <1>6, <1>7
  DEF Next, vars, Start, ReadBatch, SaveUsersFails, Commit, Kill, Closes, DeleteTask,
      Disturb, open, batch, tables

\* A batch only ever fails on a foreign key because a user was deleted meanwhile.
THEOREM OnlyDropsFailABatch == Spec => []OnlyADropFailsABatch
<1>1. Init => OwnersThere
  BY DEF Init, OwnersThere
<1>2. OwnersThere => OnlyADropFailsABatch
  BY DEF OwnersThere, OnlyADropFailsABatch
<1> QED  BY <1>1, <1>2, NextOwners, ImportTypes, PTL DEF Spec

-----------------------------------------------------------------------------
(* The report.                                                             *)

LegibleTo(n) == {i \in 1..n : Legible(i)}

Accounted == inserted + skipped + Cardinality(rejected)

\* Every legible row before is read, and inserted, skipped, rejected or retained.
Tally ==
    /\ rejected \subseteq 1..Len(file)
    /\ read \in Nat /\ inserted \in Nat /\ skipped \in Nat /\ insertedUsers \in Nat
    /\ insertedUsers <= read
    /\ pc \in {"reading", "reported"} =>
        /\ rejected \subseteq 1..offset
        /\ read = Accounted
        /\ read = Cardinality(LegibleTo(offset))
    /\ pc \in InBatch =>
        /\ rejected \subseteq 1..offset \union Batch
        /\ read = Cardinality(LegibleTo(offset)) + Cardinality(Batch)
    /\ pc \in {"users", "owners", "tasks"} =>
        /\ rejected \intersect retained = {}
        /\ read = Accounted + Cardinality(retained)
    /\ pc = "users" => insertedUsers + Cardinality(retained) <= read
    /\ pc = "commit" => read = Accounted
    /\ Accounted <= read /\ read <= Len(file)

\* A set of lines is finite, and there are not more of them than the file has.
LEMMA LinesAreFinite ==
    ASSUME document \in Documents, NEW S \in SUBSET (1..Len(file))
    PROVE  IsFiniteSet(S) /\ Cardinality(S) \in Nat /\ Cardinality(S) <= Len(file)
<1> DEFINE n == Len(file)
<1>1. n \in Nat
  BY FileType
<1>2. IsFiniteSet(1..n) /\ Cardinality(1..n) = n
  <2> HIDE DEF n
  <2> QED  BY <1>1, FS_Interval
<1>3. S \in SUBSET (1..n)
  OBVIOUS
<1> HIDE DEF n
<1>4. IsFiniteSet(S) /\ Cardinality(S) <= n
  BY <1>2, <1>3, FS_Subset
<1>5. Cardinality(S) \in Nat
  BY <1>4, FS_CardinalityType
<1> QED  BY <1>4, <1>5 DEF n

\* Lines of two sets without a common one are added up.
LEMMA DisjointSum ==
    ASSUME document \in Documents, NEW S \in SUBSET (1..Len(file)),
           NEW T \in SUBSET (1..Len(file)), S \intersect T = {}
    PROVE  Cardinality(S \union T) = Cardinality(S) + Cardinality(T)
<1>1. IsFiniteSet(S) /\ IsFiniteSet(T) /\ Cardinality(S) \in Nat /\ Cardinality(T) \in Nat
  BY LinesAreFinite
<1>2. Cardinality(S \union T) = Cardinality(S) + Cardinality(T) - Cardinality(S \intersect T)
  BY <1>1, FS_Union
<1>3. Cardinality(S \intersect T) = 0
  BY FS_EmptySet
<1> QED  BY <1>1, <1>2, <1>3

\* Part of a set, and the rest of it.
LEMMA PartAndRest ==
    ASSUME document \in Documents, NEW S \in SUBSET (1..Len(file)), NEW T \in SUBSET S
    PROVE  /\ Cardinality(S) = Cardinality(T) + Cardinality(S \ T)
           /\ Cardinality(T) <= Cardinality(S)
<1>1. T \in SUBSET (1..Len(file)) /\ S \ T \in SUBSET (1..Len(file))
  OBVIOUS
<1>2. Cardinality(T) \in Nat /\ Cardinality(S \ T) \in Nat
  BY <1>1, LinesAreFinite
<1>3. T \intersect (S \ T) = {} /\ T \union (S \ T) = S
  OBVIOUS
<1>4. Cardinality(T \union (S \ T)) = Cardinality(T) + Cardinality(S \ T)
  BY <1>1, <1>3, DisjointSum
<1>5. Cardinality(S) = Cardinality(T) + Cardinality(S \ T)
  BY <1>3, <1>4
<1> QED  BY <1>2, <1>5

\* What is rejected is among the lines.
LEMMA TallyTypes ==
    ASSUME TypeInv, Tally
    PROVE  /\ document \in Documents
           /\ Len(file) \in Nat /\ offset \in 0..Len(file)
           /\ Cardinality(rejected) \in Nat /\ Accounted \in Nat
           /\ retained \in SUBSET (1..Len(file)) /\ Cardinality(retained) \in Nat
           /\ Batch \in SUBSET (1..Len(file)) /\ Cardinality(Batch) \in Nat
           /\ LegibleTo(offset) \in SUBSET (1..Len(file))
           /\ Cardinality(LegibleTo(offset)) \in Nat
<1>1. document \in Documents /\ Len(file) \in Nat /\ offset \in 0..Len(file)
  BY FileType DEF TypeInv, Typed
<1>2. /\ rejected \in SUBSET (1..Len(file)) /\ retained \in SUBSET (1..Len(file))
      /\ Batch \in SUBSET (1..Len(file)) /\ LegibleTo(offset) \in SUBSET (1..Len(file))
  BY <1>1, BatchShape DEF Tally, TypeInv, Typed, LegibleTo
<1>3. /\ Cardinality(rejected) \in Nat /\ Cardinality(retained) \in Nat
      /\ Cardinality(Batch) \in Nat /\ Cardinality(LegibleTo(offset)) \in Nat
  BY <1>1, <1>2, LinesAreFinite
<1>4. Accounted \in Nat
  BY <1>3 DEF Tally, Accounted
<1> QED  BY <1>1, <1>2, <1>3, <1>4

\* The tally does not look at the tables.
LEMMA TallySame ==
    ASSUME Tally, UNCHANGED <<document, pc, offset, retained, rejected, read, inserted,
                              skipped, insertedUsers>>
    PROVE  Tally'
BY SameBatch DEF Tally, Accounted, LegibleTo, Legible, file

\* An import that stops keeps its report as it was.
LEMMA StopTally ==
    ASSUME Tally, UNCHANGED <<document, rejected, read, inserted, skipped, insertedUsers>>,
           pc' \in Stopped
    PROVE  Tally'
BY DEF Tally, Accounted, file, Stopped, InBatch

\* A new run counts from nothing.
LEMMA StartTally == ASSUME TypeInv, Start PROVE Tally'
<1>1. /\ offset' = 0 /\ read' = 0 /\ rejected' = {} /\ inserted' = 0 /\ skipped' = 0
      /\ insertedUsers' = 0 /\ pc' \in {"reading", "undecodable"} /\ document' = document
  BY DEF Start
<1>2. LegibleTo(offset)' = {}
  BY <1>1 DEF LegibleTo
<1>3. Cardinality(rejected') = 0 /\ Cardinality(LegibleTo(offset)') = 0
  BY <1>1, <1>2, FS_EmptySet
<1>4. Len(file) \in Nat
  BY FileType DEF TypeInv, Typed
<1> QED  BY <1>1, <1>3, <1>4 DEF Tally, Accounted, InBatch, file

\* A batch is counted as read; what is not turned into aggregates is rejected.
LEMMA ReadBatchTally == ASSUME TypeInv, Tally, ReadBatch PROVE Tally'
<1>1. /\ pc = "reading" /\ UNCHANGED <<document, offset, inserted, skipped, insertedUsers>>
  BY DEF ReadBatch
<1>2. CASE Batch = {}
  <2>1. pc' = "reported" /\ UNCHANGED <<read, rejected, retained>>
    BY <1>2 DEF ReadBatch
  <2>2. /\ LegibleTo(offset)' = LegibleTo(offset)
        /\ Accounted' = Accounted
        /\ Len(file)' = Len(file)
    BY <1>1, <2>1 DEF LegibleTo, Accounted, Legible, file
  <2> QED  BY <1>1, <2>1, <2>2 DEF Tally, InBatch
<1>3. CASE Batch # {} /\ Incomparable # {}
  BY <1>1, <1>3, StopTally DEF ReadBatch, Closes, Stopped
<1>4. CASE Batch # {} /\ Incomparable = {}
  <2> DEFINE bad == Batch \ Reconstituted
             L == LegibleTo(offset)
  <2>1. /\ pc' = "users" /\ read' = read + Cardinality(Batch)
        /\ rejected' = rejected \union bad /\ retained' = Reconstituted
    BY <1>4 DEF ReadBatch
  <2>2. /\ document \in Documents /\ Len(file) \in Nat /\ offset \in 0..Len(file)
        /\ Batch \in SUBSET (1..Len(file)) /\ Cardinality(Batch) \in Nat
        /\ L \in SUBSET (1..Len(file)) /\ Cardinality(L) \in Nat
        /\ Cardinality(rejected) \in Nat /\ Accounted \in Nat
    BY TallyTypes
  <2>3. /\ Batch' = Batch /\ LegibleTo(offset)' = L /\ Len(file)' = Len(file)
    BY <1>1, SameBatch DEF LegibleTo, Legible, file
  <2>4. /\ rejected \subseteq 1..offset /\ read = Accounted /\ read = Cardinality(L)
        /\ read \in Nat /\ inserted \in Nat /\ skipped \in Nat /\ insertedUsers \in Nat
        /\ insertedUsers <= read
    BY <1>1 DEF Tally
  <2>5. \A i \in Batch : offset < i
    BY <2>2, BatchShape
  <2>6. Reconstituted \in SUBSET Batch
    BY DEF Reconstituted
  <2>7. /\ Cardinality(Batch) = Cardinality(Reconstituted) + Cardinality(bad)
        /\ Cardinality(Reconstituted) <= Cardinality(Batch)
    <3> HIDE DEF L
    <3> QED  BY <2>2, <2>6, PartAndRest
  <2>8. Cardinality(Reconstituted) \in Nat /\ Cardinality(bad) \in Nat
    BY <2>2, <2>6, LinesAreFinite
  <2>9. rejected \in SUBSET (1..Len(file)) /\ rejected \intersect Batch = {}
    <3>1. rejected \in SUBSET (1..Len(file))
      BY DEF Tally
    <3>2. \A i \in rejected : i \in 1..offset
      BY <2>4
    <3>3. \A i \in 1..offset : ~(offset < i)
      BY <2>2
    <3> QED  BY <2>5, <3>1, <3>2, <3>3
  <2>10. Cardinality(rejected') = Cardinality(rejected) + Cardinality(bad)
    <3>1. bad \in SUBSET (1..Len(file)) /\ rejected \intersect bad = {}
      BY <2>2, <2>9
    <3> HIDE DEF bad, L
    <3> QED  BY <2>1, <2>2, <2>9, <3>1, DisjointSum
  <2>11. L \intersect Batch = {}
    BY <2>2, <2>5 DEF LegibleTo
  <2>12. Cardinality(L) + Cardinality(Batch) <= Len(file)
    <3> HIDE DEF L
    <3>1. Cardinality(L \union Batch) <= Len(file)
      BY <2>2, LinesAreFinite
    <3> QED  BY <2>2, <2>11, <3>1, DisjointSum
  <2>13. Accounted' = Accounted + Cardinality(bad)
    <3> HIDE DEF bad, L
    <3> QED  BY <1>1, <2>4, <2>2, <2>8, <2>10 DEF Accounted
  <2>14. rejected' \subseteq 1..Len(file) /\ rejected' \subseteq 1..offset \union Batch
    <3> HIDE DEF L
    <3>1. Batch \in SUBSET (1..Len(file)) /\ rejected \subseteq 1..offset
      BY <2>2, <2>4
    <3> QED  BY <2>1, <2>9, <3>1
  <2>15. rejected' \intersect retained' = {}
    BY <2>1, <2>6, <2>9
  <2> HIDE DEF bad, L
  <2>16. /\ read' = Accounted' + Cardinality(retained')
         /\ read' = Cardinality(L) + Cardinality(Batch)
         /\ insertedUsers' + Cardinality(retained') <= read'
         /\ read' \in Nat /\ insertedUsers' <= read' /\ Accounted' <= read'
         /\ read' <= Len(file)
    <3> DEFINE b == Cardinality(Batch)
               r == Cardinality(Reconstituted)
               c == Cardinality(bad)
               k == Cardinality(L)
               n == Len(file)
    <3>1. /\ b \in Nat /\ r \in Nat /\ c \in Nat /\ k \in Nat /\ n \in Nat
          /\ b = r + c /\ k + b <= n
      BY <2>2, <2>7, <2>8, <2>12
    <3>2. /\ read' = read + b /\ Accounted' = Accounted + c /\ Cardinality(retained') = r
          /\ insertedUsers' = insertedUsers
      BY <1>1, <2>1, <2>13
    <3>3. read = Accounted /\ read = k /\ Accounted \in Nat
      BY <2>2, <2>4
    <3>4. insertedUsers \in Nat /\ insertedUsers <= read
      BY <2>4
    <3> SUFFICES /\ read + b = (Accounted + c) + r
                 /\ read + b = k + b
                 /\ insertedUsers + r <= read + b
                 /\ read + b \in Nat /\ insertedUsers <= read + b
                 /\ Accounted + c <= read + b
                 /\ read + b <= n
      BY <3>2
    <3> HIDE DEF b, r, c, k, n
    <3> QED  BY <3>1, <3>3, <3>4
  <2> QED
    BY <1>1, <2>1, <2>3, <2>4, <2>14, <2>15, <2>16 DEF Tally, InBatch
<1> QED  BY <1>2, <1>3, <1>4

\* Users of a batch are at most as many as its retained lines.
LEMMA SaveUsersTally == ASSUME TypeInv, Tally, SaveUsers PROVE Tally'
<1> DEFINE k == Cardinality(NewOwners)
           r == Cardinality(retained)
<1>1. /\ pc = "users" /\ pc' = "owners" /\ insertedUsers' = insertedUsers + k
      /\ UNCHANGED <<document, offset, retained, rejected, read, inserted, skipped>>
  BY DEF SaveUsers
<1>2. NewOwners \in SUBSET retained
  BY DEF NewOwners, Unknown, FirstMentions
<1>3. document \in Documents /\ retained \in SUBSET (1..Len(file)) /\ r \in Nat
  BY TallyTypes
<1>4. k \in Nat /\ k <= r
  BY <1>2, <1>3, LinesAreFinite, PartAndRest
<1>5. insertedUsers \in Nat /\ read \in Nat /\ insertedUsers + r <= read
  BY <1>1 DEF Tally
<1>6. insertedUsers' \in Nat /\ insertedUsers' <= read
  <2> HIDE DEF k, r
  <2> QED  BY <1>1, <1>3, <1>4, <1>5
<1>7. /\ Batch' = Batch /\ LegibleTo(offset)' = LegibleTo(offset) /\ Len(file)' = Len(file)
      /\ Accounted' = Accounted
  BY <1>1, SameBatch DEF LegibleTo, Legible, file, Accounted
<1> QED  BY <1>1, <1>6, <1>7 DEF Tally, InBatch

\* Lines that lose their owner are rejected instead of retained.
LEMMA KeepOwnedTally == ASSUME TypeInv, Tally, KeepOwned PROVE Tally'
<1> DEFINE out == retained \ retained'
<1>1. /\ pc = "owners" /\ pc' = "tasks" /\ retained' \in SUBSET retained
      /\ rejected' = rejected \union out
      /\ UNCHANGED <<document, offset, read, inserted, skipped, insertedUsers>>
  BY DEF KeepOwned
<1>2. /\ document \in Documents /\ retained \in SUBSET (1..Len(file))
      /\ Cardinality(retained) \in Nat /\ Cardinality(rejected) \in Nat /\ Accounted \in Nat
  BY TallyTypes
<1>3. /\ rejected \in SUBSET (1..Len(file)) /\ rejected \intersect retained = {}
      /\ rejected \subseteq 1..offset \union Batch
  BY <1>1 DEF Tally, InBatch
<1>4. retained \subseteq Batch
  BY <1>1 DEF TypeInv, HasBatch, Reconstituted
<1>5. Cardinality(retained) = Cardinality(retained') + Cardinality(out)
  BY <1>1, <1>2, PartAndRest
<1>6. out \in SUBSET (1..Len(file)) /\ rejected \intersect out = {}
  BY <1>2, <1>3
<1>7. Cardinality(out) \in Nat /\ Cardinality(retained') \in Nat
  BY <1>1, <1>2, <1>6, LinesAreFinite
<1>8. Cardinality(rejected') = Cardinality(rejected) + Cardinality(out)
  <2> HIDE DEF out
  <2> QED  BY <1>1, <1>2, <1>3, <1>6, DisjointSum
<1>9. Accounted' = Accounted + Cardinality(out)
  <2>1. inserted \in Nat /\ skipped \in Nat
    BY DEF Tally
  <2> HIDE DEF out
  <2> QED  BY <1>1, <1>2, <1>7, <1>8, <2>1 DEF Accounted
<1>10. read = Accounted + Cardinality(retained) /\ read \in Nat
  BY <1>1 DEF Tally
<1>11. read = Accounted' + Cardinality(retained') /\ Accounted' <= read
  <2> DEFINE a == Cardinality(retained')
             b == Cardinality(out)
             c == Cardinality(retained)
  <2> HIDE DEF a, b, c
  <2>1. a \in Nat /\ b \in Nat /\ c = a + b /\ Accounted' = Accounted + b
    BY <1>5, <1>7, <1>9 DEF a, b, c
  <2> QED  BY <1>2, <1>10, <2>1 DEF a, c
<1>12. /\ Batch' = Batch /\ LegibleTo(offset)' = LegibleTo(offset) /\ Len(file)' = Len(file)
  BY <1>1, SameBatch DEF LegibleTo, Legible, file
<1>13. /\ rejected' \subseteq 1..Len(file) /\ rejected' \subseteq 1..offset \union Batch
       /\ rejected' \intersect retained' = {}
  <2> HIDE DEF Batch
  <2> QED  BY <1>1, <1>3, <1>4, <1>6
<1> HIDE DEF out
<1> QED  BY <1>1, <1>11, <1>12, <1>13 DEF Tally, InBatch

\* Every retained line is inserted or skipped.
LEMMA SaveTasksTally == ASSUME TypeInv, Tally, SaveTasks PROVE Tally'
<1>1. /\ pc = "tasks"
      /\ UNCHANGED <<document, offset, retained, rejected, read, insertedUsers>>
  BY DEF SaveTasks, batch
<1>2. CASE pc' # "commit"
  <2>1. pc' \in Stopped /\ UNCHANGED <<inserted, skipped>>
    BY <1>2 DEF SaveTasks, Closes, Stopped
  <2> QED  BY <1>1, <2>1, StopTally
<1>3. CASE pc' = "commit"
  <2> DEFINE a == Cardinality(NewLines)
             b == Cardinality(retained \ NewLines)
             c == Cardinality(retained)
             d == Cardinality(rejected)
  <2>1. inserted' = inserted + a /\ skipped' = skipped + b
    BY <1>3, TasksInserted
  <2>2. NewLines \in SUBSET retained
    BY DEF NewLines
  <2>3. document \in Documents /\ retained \in SUBSET (1..Len(file)) /\ d \in Nat
    BY TallyTypes
  <2>4. c = a + b
    BY <2>2, <2>3, PartAndRest
  <2>5. NewLines \in SUBSET (1..Len(file)) /\ retained \ NewLines \in SUBSET (1..Len(file))
    BY <2>2, <2>3
  <2>6. a \in Nat /\ b \in Nat
    BY <2>3, <2>5, LinesAreFinite
  <2>7. read = Accounted + c /\ inserted \in Nat /\ skipped \in Nat /\ read \in Nat
    BY <1>1 DEF Tally
  <2>8. inserted' \in Nat /\ skipped' \in Nat /\ read = Accounted'
    <3>1. Accounted = inserted + skipped + d /\ Accounted' = inserted' + skipped' + d
      BY <1>1 DEF Accounted
    <3> HIDE DEF a, b, c, d
    <3> QED  BY <2>1, <2>3, <2>4, <2>6, <2>7, <3>1
  <2>9. Batch' = Batch /\ LegibleTo(offset)' = LegibleTo(offset) /\ Len(file)' = Len(file)
    BY <1>1, SameBatch DEF LegibleTo, Legible, file
  <2> HIDE DEF a, b, c, d
  <2> QED  BY <1>1, <1>3, <2>7, <2>8, <2>9 DEF Tally, InBatch
<1> QED  BY <1>2, <1>3

\* The batch is behind.
LEMMA CommitTally == ASSUME TypeInv, Tally, Commit PROVE Tally'
<1>1. /\ pc = "commit" /\ pc' = "reading" /\ Advance
      /\ UNCHANGED <<document, rejected, read, inserted, skipped, insertedUsers>>
  BY DEF Commit, Closes, report
<1>2. Batch # {} /\ document \in Documents /\ offset \in 0..Len(file) /\ Len(file) \in Nat
  BY <1>1, FileType DEF TypeInv, HasBatch, Typed, InBatch
<1>3. /\ offset' \in 1..Len(file) /\ offset < offset'
      /\ \A j \in Batch : j <= offset'
      /\ Batch = {i \in 1..offset' : offset < i /\ Legible(i)}
  BY <1>1, <1>2, AdvanceStays
<1>4. LegibleTo(offset)' = LegibleTo(offset) \union Batch
  <2>1. LegibleTo(offset)' = {i \in 1..offset' : Legible(i)}
    BY <1>1 DEF LegibleTo, Legible, file
  <2>2. LegibleTo(offset) = {i \in 1..offset' : ~(offset < i) /\ Legible(i)}
    BY <1>2, <1>3 DEF LegibleTo
  <2> QED  BY <1>3, <2>1, <2>2
<1>5. LegibleTo(offset) \intersect Batch = {}
  BY <1>2, <1>3 DEF LegibleTo
<1>6. Cardinality(LegibleTo(offset)') = Cardinality(LegibleTo(offset)) + Cardinality(Batch)
  <2>1. LegibleTo(offset) \in SUBSET (1..Len(file)) /\ Batch \in SUBSET (1..Len(file))
    BY TallyTypes
  <2> QED  BY <1>2, <1>4, <1>5, <2>1, DisjointSum
<1>7. rejected \subseteq 1..offset'
  <2>1. 1..offset \subseteq 1..offset' /\ Batch \subseteq 1..offset'
    BY <1>2, <1>3
  <2>2. rejected \subseteq 1..offset \union Batch
    BY <1>1 DEF Tally, InBatch
  <2> QED  BY <2>1, <2>2
<1>8. Accounted' = Accounted /\ Len(file)' = Len(file)
  BY <1>1 DEF Accounted, file
<1> QED  BY <1>1, <1>6, <1>7, <1>8 DEF Tally, InBatch

\* Every step keeps the tally.
LEMMA NextTally == TypeInv /\ Tally /\ [Next]_vars => Tally'
<1> SUFFICES ASSUME TypeInv, Tally, [Next]_vars PROVE Tally'
  OBVIOUS
<1>1. CASE Kill \/ SaveUsersFails
  BY <1>1, StopTally DEF Kill, SaveUsersFails, Closes, report, Stopped
<1>2. CASE UNCHANGED <<document, pc, batch, report>>
  BY <1>2, TallySame DEF batch, report
<1> QED
  BY <1>1, <1>2, StartTally, ReadBatchTally, SaveUsersTally, KeepOwnedTally, SaveTasksTally,
     CommitTally
  DEF Next, vars, CreateUser, DropUser, DeleteTask, Disturb, batch, report

\* The reader has put aside the illegible lines it met, and no others.
PutAside ==
    /\ illisibles \subseteq {i \in 1..Len(file) : ~Legible(i)}
    /\ pc = "reading" => \A i \in 1..offset : Legible(i) \/ i \in illisibles
    /\ pc \in InBatch =>
        \A i \in 1..Len(file) : (\E j \in Batch : i < j) => Legible(i) \/ i \in illisibles
    /\ pc = "reported" =>
        /\ \A i \in 1..Len(file) : Legible(i) \/ i \in illisibles
        /\ \A i \in 1..Len(file) : offset < i => ~Legible(i)

\* Reading a batch passes over the illegible lines before its last row.
LEMMA ReadBatchPutsAside == ASSUME TypeInv, PutAside, ReadBatch PROVE PutAside'
<1>1. /\ pc = "reading" /\ UNCHANGED <<document, offset>>
      /\ illisibles' = illisibles \union PassedOver
  BY DEF ReadBatch
<1>2. document \in Documents /\ offset \in 0..Len(file) /\ Len(file) \in Nat
  BY FileType DEF TypeInv, Typed
<1>3. Batch' = Batch /\ (\A i : Legible(i)' <=> Legible(i)) /\ Len(file)' = Len(file)
  BY <1>1, SameBatch DEF file
<1>4. illisibles' \subseteq {i \in 1..Len(file) : ~Legible(i)}
  BY <1>1 DEF PutAside, PassedOver, Ahead
<1>5. \A i \in 1..offset : Legible(i) \/ i \in illisibles'
  BY <1>1 DEF PutAside
<1>6. CASE Batch # {}
  <2>1. ASSUME NEW i \in 1..Len(file), NEW j \in Batch, i < j, ~Legible(i)
        PROVE  i \in illisibles'
    <3>1. CASE i <= offset
      BY <1>2, <1>5, <2>1, <3>1
    <3>2. CASE offset < i
      BY <1>1, <2>1, <3>2 DEF PassedOver, Ahead
    <3> QED  BY <1>2, <3>1, <3>2
  <2>2. pc' \notin {"reading", "reported"}
    BY <1>6 DEF ReadBatch, Closes
  <2> QED  BY <1>3, <1>4, <2>1, <2>2 DEF PutAside
<1>7. CASE Batch = {}
  <2>1. pc' = "reported"
    BY <1>7 DEF ReadBatch
  <2>2. \A i \in 1..Len(file) : offset < i => ~Legible(i)
    BY <1>2, <1>7, BatchShape
  <2>3. Cardinality(Batch) # BatchSize
    BY <1>7, FS_EmptySet, ImportAssumption
  <2>4. \A i \in 1..Len(file) : offset < i => i \in illisibles'
    BY <1>1, <2>2, <2>3 DEF PassedOver, Ahead
  <2>5. \A i \in 1..Len(file) : i \in 1..offset \/ offset < i
    BY <1>2
  <2>6. \A i \in 1..Len(file) : Legible(i) \/ i \in illisibles'
    BY <1>5, <2>4, <2>5
  <2> QED  BY <1>1, <1>3, <1>4, <2>1, <2>2, <2>6 DEF PutAside, InBatch
<1> QED  BY <1>6, <1>7

\* Every step keeps what is put aside.
LEMMA NextPutAside == TypeInv /\ PutAside /\ [Next]_vars => PutAside'
<1> SUFFICES ASSUME TypeInv, PutAside, [Next]_vars PROVE PutAside'
  OBVIOUS
<1>1. CASE Start
  <2>1. /\ pc' \in {"reading", "undecodable"} /\ illisibles' = {} /\ offset' = 0
        /\ document' = document
    BY <1>1 DEF Start
  <2> QED  BY <2>1 DEF PutAside, InBatch
<1>2. CASE Commit
  <2>1. /\ pc = "commit" /\ pc' = "reading" /\ Advance /\ UNCHANGED <<document, illisibles>>
    BY <1>2 DEF Commit, Closes, report
  <2>2. Batch # {} /\ document \in Documents /\ offset \in 0..Len(file) /\ Len(file) \in Nat
    BY <2>1, FileType DEF TypeInv, HasBatch, Typed, InBatch
  <2>3. offset' \in Batch /\ offset' \in 1..Len(file) /\ Legible(offset')
    BY <2>1, <2>2, AdvanceStays, BatchShape
  <2>4. \A i \in 1..offset' : Legible(i) \/ i \in illisibles
    <3> SUFFICES ASSUME NEW i \in 1..offset', i # offset' PROVE Legible(i) \/ i \in illisibles
      BY <2>3
    <3>1. i \in 1..Len(file) /\ i < offset'
      BY <2>2, <2>3
    <3> QED  BY <2>1, <2>3, <3>1 DEF PutAside, InBatch
  <2>5. (\A i : Legible(i)' <=> Legible(i)) /\ Len(file)' = Len(file)
    BY <2>1 DEF Legible, file
  <2> QED  BY <2>1, <2>4, <2>5 DEF PutAside, InBatch
<1>3. CASE pc' \in Stopped /\ UNCHANGED <<document, illisibles>>
  BY <1>3 DEF PutAside, Legible, file, Stopped, InBatch
<1>4. CASE /\ UNCHANGED <<document, offset, illisibles>>
           /\ pc' = pc \/ {pc, pc'} \subseteq InBatch
  <2>1. Batch' = Batch /\ (\A i : Legible(i)' <=> Legible(i)) /\ Len(file)' = Len(file)
    BY <1>4, SameBatch DEF file
  <2> QED  BY <1>4, <2>1 DEF PutAside, InBatch
<1>5. CASE SaveTasks
  BY <1>3, <1>4, <1>5 DEF SaveTasks, Closes, batch, Stopped, InBatch
<1> QED
  BY <1>1, <1>2, <1>3, <1>4, <1>5, ReadBatchPutsAside
  DEF Next, vars, SaveUsers, SaveUsersFails, KeepOwned, Kill, Closes, CreateUser, DropUser,
      DeleteTask, Disturb, batch, report, Stopped, InBatch

\* Runs that have reported are runs that were begun.
Begun ==
    /\ runs \in 0..Runs
    /\ completed \in 0..runs
    /\ pc \notin Ended => completed < runs
    /\ disturbances \in 0..Disturbances

\* Every step keeps that.
LEMMA NextBegun == TypeInv /\ Begun /\ [Next]_vars => Begun'
<1> SUFFICES ASSUME TypeInv, Begun, [Next]_vars PROVE Begun'
  OBVIOUS
<1> USE ImportAssumption DEF Begun, Ended, Stopped
<1>1. CASE Start
  BY <1>1 DEF Start, world
<1>2. CASE ReadBatch
  BY <1>2 DEF ReadBatch, Closes, world
<1>3. CASE /\ UNCHANGED <<runs, completed, disturbances>>
           /\ (pc' \in Ended \/ pc \notin Ended \/ pc' = pc)
  BY <1>3
<1>4. CASE Disturb
  BY <1>4 DEF Disturb, count
<1> QED
  BY <1>1, <1>2, <1>3, <1>4
  DEF Next, vars, SaveUsers, SaveUsersFails, KeepOwned, SaveTasks, Commit, Kill, Closes,
      CreateUser, DropUser, DeleteTask, count, world

CountInv == TypeInv /\ Tally /\ PutAside /\ Begun

\* The counts of the report, what was put aside and the runs.
LEMMA CountInvariant == Spec => []CountInv
<1>1. ASSUME Init PROVE Tally /\ PutAside /\ Begun
  <2>1. Len(file) \in Nat
    BY <1>1, FileType DEF Init
  <2>2. Cardinality(rejected) = 0
    BY <1>1, FS_EmptySet DEF Init
  <2>3. /\ rejected = {} /\ illisibles = {} /\ pc = "idle"
        /\ read = 0 /\ inserted = 0 /\ skipped = 0 /\ insertedUsers = 0
        /\ runs = 0 /\ completed = 0 /\ disturbances = 0
    BY <1>1 DEF Init
  <2>4. Tally
    BY <2>1, <2>2, <2>3 DEF Tally, Accounted, InBatch
  <2>5. PutAside
    BY <2>3 DEF PutAside, InBatch
  <2>6. Begun
    BY <2>3, ImportAssumption DEF Begun, Ended
  <2> QED  BY <2>4, <2>5, <2>6
<1>2. Init => Tally /\ PutAside /\ Begun
  BY <1>1
<1> QED  BY <1>2, NextTally, NextPutAside, NextBegun, ImportTypes, PTL DEF Spec, CountInv

\* Between batches every row read is counted once; in the end every line is.
THEOREM ReportAddsUp == Spec => []ReportBalances
<1>1. ASSUME CountInv, pc = "reported" PROVE read + Cardinality(illisibles) = Len(file)
  <2> DEFINE L == LegibleTo(offset)
             n == Len(file)
  <2>1. document \in Documents /\ n \in Nat /\ offset \in 0..n /\ L \in SUBSET (1..n)
    BY <1>1, TallyTypes DEF CountInv
  <2>2. illisibles = {i \in 1..n : ~Legible(i)}
    BY <1>1 DEF CountInv, PutAside
  <2>3. L = {i \in 1..n : Legible(i)}
    <3>1. \A i \in 1..n : i \in 1..offset \/ offset < i
      BY <2>1
    <3>2. \A i \in 1..n : offset < i => ~Legible(i)
      BY <1>1 DEF CountInv, PutAside
    <3> QED  BY <2>1, <3>1, <3>2 DEF LegibleTo
  <2>4. /\ illisibles \in SUBSET (1..n)
        /\ L \intersect illisibles = {}
        /\ L \union illisibles = 1..n
    BY <2>2, <2>3
  <2>5. Cardinality(L \union illisibles) = Cardinality(L) + Cardinality(illisibles)
    <3> HIDE DEF L
    <3> QED  BY <2>1, <2>4, DisjointSum
  <2>6. Cardinality(1..n) = n
    <3> HIDE DEF n
    <3> QED  BY <2>1, FS_Interval
  <2>7. read = Cardinality(L)
    BY <1>1 DEF CountInv, Tally
  <2> HIDE DEF L, n
  <2> QED  BY <2>4, <2>5, <2>6, <2>7 DEF n
<1>2. CountInv => ReportBalances
  BY <1>1 DEF ReportBalances, CountInv, Tally, Accounted
<1> QED  BY <1>2, CountInvariant, PTL

\* Every variable keeps its type; no count exceeds the lines of the file.
THEOREM ImportTypeCorrect == Spec => []TypeOK
<1>1. ASSUME CountInv PROVE TypeOK
  <2>1. TypeInv /\ Tally /\ PutAside /\ Begun
    BY <1>1 DEF CountInv
  <2>2. Len(file) \in Nat /\ Cardinality(rejected) \in Nat
    BY <2>1, TallyTypes
  <2>3. /\ read \in 0..Len(file) /\ inserted \in 0..Len(file)
        /\ skipped \in 0..Len(file) /\ insertedUsers \in 0..Len(file)
    <3> DEFINE n == Len(file)
               d == Cardinality(rejected)
    <3>1. /\ inserted + skipped + d <= read /\ read <= n /\ insertedUsers <= read
          /\ read \in Nat /\ inserted \in Nat /\ skipped \in Nat /\ insertedUsers \in Nat
      BY <2>1 DEF Tally, Accounted
    <3> HIDE DEF n, d
    <3> QED  BY <2>2, <3>1 DEF n, d
  <2>4. completed \in 0..Runs
    BY <2>1, ImportAssumption DEF Begun
  <2> QED
    BY <2>1, <2>3, <2>4 DEF TypeOK, TypeInv, Typed, Tally, PutAside, Begun, InBatch
<1> QED  BY <1>1, CountInvariant, PTL

-----------------------------------------------------------------------------
(* What is stored.                                                         *)

Kept(i) == i \in rejected \union illisibles \/ StoredOrRemoved(i)

\* Rows behind the offset are stored or accounted for, and so, once its tasks are
\* inserted, are those of the batch.
BatchesAreWhole ==
    /\ \A i \in 1..offset : Kept(i)
    /\ pc \in {"users", "owners", "tasks"} => Batch \subseteq rejected \union retained
    /\ pc = "commit" => \A i \in Batch : Kept(i) \/ newTasks[file[i].task] # Absent

InFile(o) == \E i \in 1..Len(file) : file[i].owner = o

\* What was not stored before the run comes from rows behind the offset.
NothingElse ==
    /\ pc # "idle" =>
        \A t \in Tasks \ already : tasks[t] # Absent => \E i \in 1..offset : file[i].task = t
    /\ pc = "commit" =>
        \A t \in Tasks : newTasks[t] # Absent => \E i \in Batch : file[i].task = t
    /\ pc # "idle" =>
        \A o \in Owners \ already :
            users[o] # Absent /\ InFile(o) => \E i \in 1..offset : file[i].owner = o
    /\ \A o \in Owners : newUsers[o] # Absent => \E i \in Batch : file[i].owner = o

\* Whatever happens, a stored task stays or is known to be deleted.
LEMMA TasksStay ==
    ASSUME TypeInv, [Next]_vars, NEW t \in Tasks, tasks[t] # Absent \/ t \in deleted
    PROVE  tasks'[t] # Absent \/ t \in deleted'
<1>1. CASE Commit
  BY <1>1, Visibly DEF TypeInv, Commit, world
<1>2. CASE \E o \in Owners : DropUser(o)
  BY <1>2 DEF TypeInv, Typed, DropUser
<1>3. CASE \E o \in Owners, e \in Emails : CreateUser(o, e)
  BY <1>3 DEF CreateUser
<1>4. CASE \E k \in Tasks : DeleteTask(k)
  BY <1>4 DEF TypeInv, Typed, DeleteTask
<1>5. CASE UNCHANGED <<tasks, deleted>>
  BY <1>5
<1> QED
  BY <1>1, <1>2, <1>3, <1>4, <1>5
  DEF Next, vars, Start, ReadBatch, SaveUsers, SaveUsersFails, KeepOwned, SaveTasks, Kill,
      tables, world

\* Within a run what is kept stays kept.
LEMMA KeptStays ==
    ASSUME TypeInv, [Next]_vars, ~Start, NEW i \in 1..Len(file), Kept(i)
    PROVE  Kept(i)'
<1>1. file[i].task \in Tasks
  BY FileType DEF TypeInv, Typed, Line
<1>2. rejected \subseteq rejected' /\ illisibles \subseteq illisibles' /\ document' = document
  BY DEF Next, vars, ReadBatch, SaveUsers, SaveUsersFails, KeepOwned, SaveTasks, Commit,
         Kill, Closes, CreateUser, DropUser, DeleteTask, Disturb, report
<1>3. CASE i \in rejected \union illisibles
  BY <1>2, <1>3 DEF Kept
<1>4. CASE StoredOrRemoved(i)
  BY <1>1, <1>2, <1>4, TasksStay DEF Kept, StoredOrRemoved, file
<1> QED  BY <1>3, <1>4 DEF Kept

\* A step that leaves the statement, the batch and what it inserts alone.
LEMMA StillWhole ==
    ASSUME TypeInv, BatchesAreWhole, [Next]_vars, ~Start,
           UNCHANGED <<document, offset, newTasks, retained>>,
           rejected \subseteq rejected',
           \/ pc' \notin InBatch
           \/ {pc, pc'} \subseteq {"users", "owners", "tasks"}
           \/ pc' = pc
    PROVE  BatchesAreWhole'
<1>1. Len(file) \in Nat /\ offset \in 0..Len(file) /\ 1..offset \subseteq 1..Len(file)
  BY FileType DEF TypeInv, Typed
<1>2. \A i \in 1..offset : Kept(i)'
  BY <1>1, KeptStays DEF BatchesAreWhole
<1>3. Batch' = Batch /\ file' = file
  BY SameBatch DEF file
<1>4. Batch \subseteq 1..Len(file)
  BY BatchShape DEF TypeInv, Typed
<1>5. pc' = "commit" /\ pc = "commit" =>
        \A i \in Batch : Kept(i)' \/ newTasks'[file[i].task] # Absent
  BY <1>4, KeptStays DEF BatchesAreWhole
<1> QED  BY <1>2, <1>3, <1>5 DEF BatchesAreWhole, InBatch

\* Every step keeps it.
LEMMA NextWhole ==
    CountInv /\ TypeInv' /\ BatchesAreWhole /\ [Next]_vars => BatchesAreWhole'
<1> SUFFICES ASSUME CountInv, TypeInv', BatchesAreWhole, [Next]_vars PROVE BatchesAreWhole'
  OBVIOUS
<1>1. /\ TypeInv /\ document \in Documents /\ Len(file) \in Nat /\ offset \in 0..Len(file)
      /\ 1..offset \subseteq 1..Len(file) /\ Batch \subseteq 1..Len(file)
  BY FileType, BatchShape DEF CountInv, TypeInv, Typed
<1>2. CASE Start
  BY <1>2 DEF Start, BatchesAreWhole
<1>3. CASE ~Start /\ ReadBatch
  <2>1. UNCHANGED <<document, offset>>
    BY <1>3 DEF ReadBatch
  <2>2. \A i \in 1..offset : Kept(i)'
    BY <1>1, <1>3, KeptStays DEF BatchesAreWhole
  <2>3. Batch' = Batch
    BY <2>1, SameBatch
  <2>4. /\ pc' # "commit"
        /\ (pc' \in {"users", "owners", "tasks"} => Batch \subseteq rejected' \union retained')
    BY <1>3 DEF ReadBatch, Closes
  <2> QED  BY <2>1, <2>2, <2>3, <2>4 DEF BatchesAreWhole
<1>4. CASE ~Start /\ SaveUsers
  BY <1>1, <1>4, StillWhole DEF SaveUsers
<1>5. CASE ~Start /\ KeepOwned
  <2>1. /\ UNCHANGED <<document, offset, newTasks>> /\ pc = "owners" /\ pc' = "tasks"
        /\ rejected' = rejected \union (retained \ retained')
    BY <1>5 DEF KeepOwned, open
  <2>2. \A i \in 1..offset : Kept(i)'
    BY <1>1, <1>5, KeptStays DEF BatchesAreWhole
  <2>3. Batch' = Batch /\ Batch \subseteq rejected' \union retained'
    BY <2>1, SameBatch DEF BatchesAreWhole
  <2> QED  BY <2>1, <2>2, <2>3 DEF BatchesAreWhole
<1>6. CASE ~Start /\ SaveTasks
  <2>1. /\ UNCHANGED <<document, offset, retained, rejected, illisibles, tasks, deleted>>
        /\ pc = "tasks"
    BY <1>6 DEF SaveTasks, batch, tables, world
  <2>2. \A i \in 1..offset : Kept(i)'
    BY <1>1, <1>6, KeptStays DEF BatchesAreWhole
  <2>3. Batch' = Batch /\ file' = file
    BY <2>1, SameBatch DEF file
  <2>4. CASE pc' # "commit"
    <3>1. pc' \notin InBatch
      BY <1>6, <2>4 DEF SaveTasks, Closes, InBatch
    <3> QED  BY <2>1, <2>2, <3>1 DEF BatchesAreWhole, InBatch
  <2>5. CASE pc' = "commit"
    <3>1. \A i \in NewLines : newTasks'[file[i].task] # Absent
      BY <1>1, <1>6, <2>5, TasksInserted
    <3>2. ASSUME NEW i \in retained \ NewLines PROVE Kept(i)'
      <4>1. VisibleTasks[file[i].task] # Absent
        BY <3>2 DEF NewLines
      <4>2. file[i].task \in Tasks
        BY <1>1, FileType DEF TypeInv, Typed, Line
      <4>3. newTasks[file[i].task] = Absent
        BY <1>1, <2>1, <4>2 DEF TypeInv, Fresh, Nothing
      <4>4. tasks[file[i].task] # Absent
        BY <1>1, <4>1, <4>2, <4>3, Visibly DEF TypeInv
      <4> QED  BY <2>1, <2>3, <4>4 DEF Kept, StoredOrRemoved
    <3>3. ASSUME NEW i \in rejected PROVE Kept(i)'
      BY <2>1, <3>3 DEF Kept
    <3>4. Batch \subseteq rejected \union retained
      BY <2>1 DEF BatchesAreWhole
    <3> QED  BY <2>1, <2>2, <2>3, <2>5, <3>1, <3>2, <3>3, <3>4 DEF BatchesAreWhole
  <2> QED  BY <2>4, <2>5
<1>7. CASE ~Start /\ Commit
  <2>1. /\ pc = "commit" /\ pc' = "reading" /\ Advance
        /\ UNCHANGED <<document, rejected, illisibles>> /\ tasks' = VisibleTasks
    BY <1>7 DEF Commit, Closes, report
  <2>2. Batch # {}
    BY <1>1, <2>1 DEF TypeInv, HasBatch, InBatch
  <2>3. /\ offset' \in 1..Len(file) /\ offset < offset' /\ offset' \in Batch
        /\ Batch = {i \in 1..offset' : offset < i /\ Legible(i)}
    BY <1>1, <2>1, <2>2, AdvanceStays
  <2>4. ASSUME NEW i \in 1..offset' PROVE Kept(i)'
    <3>1. i \in 1..Len(file) /\ (i \in 1..offset \/ offset < i) /\ (i = offset' \/ i < offset')
      BY <1>1, <2>3
    <3>2. CASE i \in 1..offset
      BY <1>1, <1>7, <3>1, <3>2, KeptStays DEF BatchesAreWhole
    <3>3. CASE ~Legible(i)
      <4>1. i # offset'
        BY <2>3, <3>3
      <4>2. i \in illisibles
        BY <2>1, <2>3, <3>1, <3>3, <4>1 DEF CountInv, PutAside, InBatch
      <4> QED  BY <2>1, <4>2 DEF Kept
    <3>4. CASE i \in Batch
      <4>1. Kept(i) \/ newTasks[file[i].task] # Absent
        BY <2>1, <3>4 DEF BatchesAreWhole
      <4>2. CASE Kept(i)
        BY <1>1, <1>7, <3>1, <4>2, KeptStays
      <4>3. CASE newTasks[file[i].task] # Absent
        <5>1. file[i].task \in Tasks
          BY <1>1, <3>1, FileType DEF Line
        <5>2. tasks'[file[i].task] # Absent
          BY <1>1, <2>1, <4>3, <5>1, Visibly DEF TypeInv
        <5> QED  BY <2>1, <5>2 DEF Kept, StoredOrRemoved, file
      <4> QED  BY <4>1, <4>2, <4>3
    <3>5. i \in Batch \/ ~Legible(i) \/ i \in 1..offset
      BY <2>3, <3>1
    <3> QED  BY <3>2, <3>3, <3>4, <3>5
  <2> QED  BY <2>1, <2>4 DEF BatchesAreWhole
<1>8. CASE ~Start /\ (Kill \/ SaveUsersFails)
  <2>1. UNCHANGED <<document, offset>> /\ pc' \in {"killed", "data_error"}
    BY <1>8 DEF Kill, SaveUsersFails, Closes, batch
  <2>2. \A i \in 1..offset : Kept(i)'
    BY <1>1, <1>8, KeptStays DEF BatchesAreWhole
  <2> QED  BY <2>1, <2>2 DEF BatchesAreWhole
<1>9. CASE ~Start /\ UNCHANGED <<document, open, pc, batch, report>>
  BY <1>1, <1>9, StillWhole DEF open, batch, report
<1> QED
  BY <1>2, <1>3, <1>4, <1>5, <1>6, <1>7, <1>8, <1>9
  DEF Next, vars, CreateUser, DropUser, DeleteTask, Disturb, open, batch, report

\* The INSERT of the owners takes owners of lines of the batch.
LEMMA OwnersOfBatch ==
    ASSUME TypeInv, SaveUsers, NEW o \in Owners, newUsers'[o] # Absent
    PROVE  \E i \in Batch : file[i].owner = o
<1>1. PICK i \in NewOwners : file[i].owner = o
  BY OwnersInserted
<1>2. i \in retained
  BY <1>1 DEF NewOwners, Unknown, FirstMentions
<1> QED  BY <1>1, <1>2 DEF SaveUsers, TypeInv, HasBatch, Reconstituted

\* A step that adds nothing to the tables, and to its transaction nothing but owners
\* of the batch.
LEMMA AddsNothing ==
    ASSUME TypeInv, NothingElse, UNCHANGED <<document, offset, already>>,
           \A t \in Tasks : tasks'[t] # Absent => tasks[t] # Absent,
           \A o \in Owners : users'[o] # Absent => users[o] # Absent \/ ~InFile(o),
           \A o \in Owners :
                newUsers'[o] # Absent => \E i \in Batch : file[i].owner = o,
           pc # "idle" \/ pc' = pc,
           pc' = "commit" => \A t \in Tasks :
                newTasks'[t] # Absent => \E i \in Batch : file[i].task = t
    PROVE  NothingElse'
<1>1. Batch' = Batch /\ file' = file
  BY SameBatch DEF file
<1>2. \A o : InFile(o)' <=> InFile(o)
  BY <1>1 DEF InFile
<1>3. pc' # "idle" =>
        /\ \A t \in Tasks \ already' :
            tasks'[t] # Absent => \E i \in 1..offset' : file'[i].task = t
        /\ \A o \in Owners \ already' :
            users'[o] # Absent /\ InFile(o)' => \E i \in 1..offset' : file'[i].owner = o
  BY <1>1, <1>2 DEF NothingElse
<1> QED  BY <1>1, <1>3 DEF NothingElse

\* Every step keeps that nothing else is stored.
LEMMA NextElse == TypeInv /\ NothingElse /\ [Next]_vars => NothingElse'
<1> SUFFICES ASSUME TypeInv, NothingElse, [Next]_vars PROVE NothingElse'
  OBVIOUS
<1>1. document \in Documents /\ Len(file) \in Nat /\ offset \in 0..Len(file)
  BY FileType DEF TypeInv, Typed
<1>2. CASE Start
  <2>1. /\ UNCHANGED <<users, tasks, newUsers>> /\ newUsers = Nothing(Owners)
        /\ pc' # "commit"
        /\ already' = {t \in Tasks : tasks[t] # Absent}
                        \union {o \in Owners : users[o] # Absent}
    BY <1>2 DEF Start, tables, open, TypeInv, Fresh, Ended, Stopped
  <2>2. \A o \in Owners : newUsers'[o] = Absent
    BY <2>1 DEF Nothing
  <2> QED  BY <2>1, <2>2 DEF NothingElse
<1>3. CASE Commit
  <2>1. /\ pc = "commit" /\ pc' = "reading" /\ Advance /\ UNCHANGED <<document, already>>
        /\ users' = VisibleUsers /\ tasks' = VisibleTasks /\ newUsers' = Nothing(Owners)
    BY <1>3 DEF Commit, Closes, count
  <2>2. /\ offset' \in 1..Len(file) /\ offset < offset'
        /\ Batch = {i \in 1..offset' : offset < i /\ Legible(i)}
    BY <1>1, <2>1, AdvanceStays DEF TypeInv, HasBatch, InBatch
  <2>3. 1..offset \subseteq 1..offset' /\ Batch \subseteq 1..offset'
    BY <1>1, <2>2
  <2>4. /\ \A t \in Tasks : tasks'[t] # Absent => tasks[t] # Absent \/ newTasks[t] # Absent
        /\ \A o \in Owners : users'[o] # Absent => users[o] # Absent \/ newUsers[o] # Absent
    BY <2>1, Visibly DEF TypeInv
  <2>5. ASSUME NEW t \in Tasks \ already, tasks'[t] # Absent
        PROVE  \E i \in 1..offset' : file[i].task = t
    <3>1. CASE tasks[t] # Absent
      BY <2>1, <2>3, <3>1 DEF NothingElse
    <3>2. CASE newTasks[t] # Absent
      BY <2>1, <2>3, <3>2 DEF NothingElse
    <3> QED  BY <2>4, <2>5, <3>1, <3>2
  <2>6. ASSUME NEW o \in Owners \ already, users'[o] # Absent, InFile(o)
        PROVE  \E i \in 1..offset' : file[i].owner = o
    <3>1. CASE users[o] # Absent
      BY <2>1, <2>3, <2>6, <3>1 DEF NothingElse
    <3>2. CASE newUsers[o] # Absent
      BY <2>1, <2>3, <3>2 DEF NothingElse
    <3> QED  BY <2>4, <2>6, <3>1, <3>2
  <2>7. \A o \in Owners : newUsers'[o] = Absent
    BY <2>1 DEF Nothing
  <2>8. file' = file /\ \A o : InFile(o)' <=> InFile(o)
    BY <2>1 DEF file, InFile
  <2> QED  BY <2>1, <2>5, <2>6, <2>7, <2>8 DEF NothingElse
<1>4. CASE SaveTasks /\ pc' = "commit"
  <2>1. UNCHANGED <<document, offset, users, tasks, newUsers, already>> /\ pc = "tasks"
    BY <1>4 DEF SaveTasks, Closes, tables, batch, count
  <2>2. NewLines \subseteq Batch
    BY <2>1 DEF NewLines, TypeInv, HasBatch, Reconstituted
  <2>3. \A t \in Tasks : newTasks'[t] # Absent => \E i \in NewLines : file[i].task = t
    BY <1>4, TasksInserted
  <2>4. \A o \in Owners : newUsers'[o] # Absent => \E i \in Batch : file[i].owner = o
    BY <2>1 DEF NothingElse
  <2> QED  BY <2>1, <2>2, <2>3, <2>4, AddsNothing
<1>5. CASE SaveUsers
  <2>1. UNCHANGED <<document, offset, users, tasks, already>> /\ pc = "users"
        /\ pc' = "owners"
    BY <1>5 DEF SaveUsers, tables, count
  <2> QED  BY <1>5, <2>1, OwnersOfBatch, AddsNothing
<1>6. CASE /\ UNCHANGED <<document, offset, already, users, tasks>>
           /\ pc # "idle" /\ pc' # "commit"
           /\ newUsers' = newUsers \/ newUsers' = Nothing(Owners)
  <2>1. \A o \in Owners : newUsers'[o] # Absent => \E i \in Batch : file[i].owner = o
    BY <1>6 DEF NothingElse, Nothing
  <2> QED  BY <1>6, <2>1, AddsNothing
<1>7. CASE /\ UNCHANGED <<document, offset, already, newUsers, newTasks, pc>>
           /\ \A t \in Tasks : tasks'[t] # Absent => tasks[t] # Absent
           /\ \A o \in Owners : users'[o] # Absent => users[o] # Absent \/ ~InFile(o)
  <2>1. /\ \A o \in Owners : newUsers'[o] # Absent => \E i \in Batch : file[i].owner = o
        /\ pc' = "commit" => \A t \in Tasks :
            newTasks'[t] # Absent => \E i \in Batch : file[i].task = t
    BY <1>7 DEF NothingElse
  <2> QED  BY <1>7, <2>1, AddsNothing
<1>8. ASSUME NEW o \in Owners, DropUser(o) PROVE NothingElse'
  BY <1>7, <1>8 DEF DropUser, Disturb, open, batch, count, TypeInv, Typed
<1>9. ASSUME NEW t \in Tasks, DeleteTask(t) PROVE NothingElse'
  BY <1>7, <1>9 DEF DeleteTask, Disturb, open, batch, count, TypeInv, Typed
<1>10. ASSUME NEW o \in Owners, NEW e \in Emails, CreateUser(o, e) PROVE NothingElse'
  BY <1>7, <1>10 DEF CreateUser, Disturb, open, batch, count, InFile, TypeInv, Typed
<1>11. CASE ReadBatch \/ SaveUsersFails \/ Kill
  BY <1>6, <1>11
  DEF ReadBatch, SaveUsersFails, Kill, Closes, open, tables, batch, count, Ended
<1>12. CASE KeepOwned \/ (SaveTasks /\ pc' # "commit")
  BY <1>6, <1>12 DEF KeepOwned, SaveTasks, Closes, open, tables, batch, count
<1>13. CASE UNCHANGED vars
  BY <1>7, <1>13 DEF vars
<1> QED
  BY <1>2, <1>3, <1>4, <1>5, <1>8, <1>9, <1>10, <1>11, <1>12, <1>13 DEF Next

\* What is stored, of the batches and of nothing else.
LEMMA StoreInvariant == Spec => [](CountInv /\ BatchesAreWhole /\ NothingElse)
<1>1. Init => BatchesAreWhole /\ NothingElse
  BY DEF Init, BatchesAreWhole, NothingElse, Nothing
<1>2. CountInv => TypeInv
  BY DEF CountInv
<1> QED
  BY <1>1, <1>2, NextWhole, NextElse, CountInvariant, ImportTypes, PTL DEF Spec

\* When the import reports, the task of every line that the report does not reject is
\* stored, unless the API has removed it since.
THEOREM ReportedIsStored == Spec => []ReportedRowsAreStored
<1>1. ASSUME CountInv, BatchesAreWhole PROVE ReportedRowsAreStored
  <2> SUFFICES ASSUME pc = "reported", NEW i \in 1..Len(file) PROVE Kept(i)
    BY DEF ReportedRowsAreStored, Kept
  <2>1. Len(file) \in Nat /\ offset \in 0..Len(file)
    BY <1>1, FileType DEF CountInv, TypeInv, Typed
  <2>2. CASE i <= offset
    BY <1>1, <2>1, <2>2 DEF BatchesAreWhole
  <2>3. CASE offset < i
    BY <1>1, <2>3 DEF CountInv, PutAside, Kept
  <2> QED  BY <2>1, <2>2, <2>3
<1> QED  BY <1>1, StoreInvariant, PTL

\* Whatever stops an import, the batches before are stored whole, and of the batch it
\* happens in nothing is, neither a task nor an owner.
THEOREM WholeBatchesStay == Spec => []StoppedImportKeepsWholeBatches
<1>1. BatchesAreWhole /\ NothingElse => StoppedImportKeepsWholeBatches
  BY DEF BatchesAreWhole, NothingElse, StoppedImportKeepsWholeBatches, Kept, InFile, Stopped
<1> QED  BY <1>1, StoreInvariant, PTL

-----------------------------------------------------------------------------
(* Importing again.                                                        *)

\* Lines that every run turns into aggregates.
Eligible(i) == Accepted(i) /\ file[i].task \notin Seen(i)

\* A line that importing again leaves without effect: its task and its owner are
\* stored, or its owner is not and somebody has the address.
Settled(i) ==
    \/ users[file[i].owner] # Absent /\ tasks[file[i].task] # Absent
    \/ users[file[i].owner] = Absent /\ \E o \in Owners : users[o] = file[i].email

AllSettled(n) == \A i \in 1..n : Eligible(i) => Settled(i)

\* Users about to be committed have the address of their lines, and nobody had it.
AddressesAreNew ==
    \A o \in Owners : newUsers[o] # Absent =>
        /\ \A p \in Owners : users[p] # newUsers[o]
        /\ \A i \in 1..Len(file) : file[i].owner = o => file[i].email = newUsers[o]

\* What each statement leaves of the batch, without a disturbance.
Statements ==
    /\ pc \in {"users", "owners"} => retained = Reconstituted
    /\ pc = "owners" /\ ~skippedOwner => HaveOwners
    /\ pc = "tasks" => retained = {i \in Reconstituted : VisibleUsers[file[i].owner] # Absent}
    /\ pc \in {"owners", "tasks", "commit"} =>
        \A i \in Reconstituted : \/ VisibleUsers[file[i].owner] # Absent
                                 \/ \E o \in Owners : VisibleUsers[o] = file[i].email
    /\ pc = "commit" =>
        \A i \in Reconstituted : \/ VisibleUsers[file[i].owner] = Absent
                                 \/ VisibleTasks[file[i].task] # Absent

\* Once a run has reported, the later ones insert nothing.
OnlyOnce ==
    /\ completed > 0 => AllSettled(Len(file))
    /\ completed > 0 /\ ~(completed = 1 /\ pc = "reported") =>
        /\ inserted = 0 /\ insertedUsers = 0
        /\ newUsers = Nothing(Owners) /\ newTasks = Nothing(Tasks)

Replays == AllSettled(offset) /\ AddressesAreNew /\ Statements /\ OnlyOnce

ReplayInv == disturbances = 0 /\ OneAddressEach => Replays

\* What depends on the document and the tables alone.
LEMMA SameSettled ==
    ASSUME UNCHANGED <<document, users, tasks>>
    PROVE  \A i : (Eligible(i)' <=> Eligible(i)) /\ (Settled(i)' <=> Settled(i))
BY DEF Eligible, Accepted, Legible, Seen, Settled, file

\* A line of the batch that is turned into an aggregate is eligible.
LEMMA ReconstitutedAre ==
    ASSUME TypeInv
    PROVE  /\ Reconstituted = {i \in Batch : Eligible(i)}
           /\ Batch \subseteq 1..Len(file)
           /\ \A i \in 1..Len(file) :
                file[i].owner \in Owners /\ file[i].task \in Tasks /\ file[i].email \in Emails
           /\ Absent \notin Emails /\ Absent \notin Owners
BY BatchShape, FileType, ImportAssumption DEF Reconstituted, Eligible, TypeInv, Typed, Line

\* The address of an owner is the one all its lines give it.
LEMMA OwnAddress ==
    ASSUME TypeInv, OneAddressEach, NEW f \in retained, NEW i \in 1..Len(file),
           file[i].owner = file[f].owner
    PROVE  EmailOf(f) = file[i].email
<1>1. PICK j \in retained : file[j].owner = file[f].owner /\ EmailOf(f) = file[j].email
  BY EmailMentioned DEF TypeInv
<1> QED  BY <1>1 DEF OneAddressEach, TypeInv, Typed

\* Among unknown owners with one address somebody is inserted.
LEMMA SomebodyTakesIt ==
    ASSUME TypeInv, NEW f \in Unknown
    PROVE  \E g \in NewOwners : EmailOf(g) = EmailOf(f)
<1> DEFINE S == {j \in Unknown : EmailOf(j) = EmailOf(f)}
<1>1. S \in SUBSET Nat /\ S # {}
  <2>1. Unknown \subseteq retained
    BY DEF Unknown, FirstMentions
  <2>2. retained \subseteq Nat
    BY FileType DEF TypeInv, Typed
  <2>3. f \in S
    OBVIOUS
  <2> QED  BY <2>1, <2>2, <2>3
<1>2. PICK g \in S : \A k \in S : g <= k
  <2> HIDE DEF S
  <2> QED  BY <1>1, Least
<1> QED  BY <1>2 DEF NewOwners

\* Starting over: the tables stay.
LEMMA StartReplays == ASSUME TypeInv, Begun, Replays, Start PROVE Replays'
<1>1. /\ UNCHANGED <<document, users, tasks, newUsers, completed>>
      /\ pc \in Ended /\ pc' \in {"reading", "undecodable"} /\ offset' = 0
      /\ inserted' = 0 /\ insertedUsers' = 0
  BY DEF Start, tables, open
<1>2. newUsers = Nothing(Owners) /\ newTasks = Nothing(Tasks) /\ newTasks' = newTasks
  BY <1>1 DEF TypeInv, Fresh, Ended, Stopped, Start, open
<1>3. AllSettled(offset)'
  BY <1>1 DEF AllSettled
<1>4. AddressesAreNew' /\ Statements'
  BY <1>1 DEF Replays, AddressesAreNew, Statements, file
<1>5. AllSettled(Len(file)) => AllSettled(Len(file))'
  BY <1>1, SameSettled DEF AllSettled, file
<1>6. OnlyOnce'
  BY <1>1, <1>2, <1>5 DEF Replays, OnlyOnce
<1> QED  BY <1>3, <1>4, <1>6 DEF Replays

\* Reading: at the end of the file every eligible line has been settled.
LEMMA ReadBatchReplays == ASSUME TypeInv, Begun, Replays, ReadBatch PROVE Replays'
<1>1. /\ UNCHANGED <<document, users, tasks, offset, inserted, insertedUsers>>
      /\ pc = "reading"
      /\ \/ /\ Batch = {} /\ pc' = "reported" /\ completed' = completed + 1
            /\ UNCHANGED open
         \/ /\ pc' = "type_error" /\ completed' = completed
            /\ newUsers' = Nothing(Owners) /\ newTasks' = Nothing(Tasks)
         \/ /\ pc' = "users" /\ retained' = Reconstituted /\ completed' = completed
            /\ UNCHANGED open
  BY DEF ReadBatch, Closes, tables
<1>2. /\ newUsers = Nothing(Owners)
      /\ newTasks = Nothing(Tasks)
      /\ UNCHANGED <<newUsers, newTasks>>
  BY <1>1 DEF TypeInv, Fresh, open
<1>3. AllSettled(offset)'
  BY <1>1, SameSettled DEF Replays, AllSettled
<1>4. AddressesAreNew'
  BY <1>1, <1>2 DEF AddressesAreNew, Nothing
<1>5. Statements'
  BY <1>1, SameBatch DEF Statements
<1>6. AllSettled(Len(file)) => AllSettled(Len(file))'
  BY <1>1, SameSettled DEF AllSettled, file
<1>7. ASSUME Batch = {} PROVE AllSettled(Len(file))
  <2>1. document \in Documents /\ Len(file) \in Nat /\ offset \in 0..Len(file)
    BY FileType DEF TypeInv, Typed
  <2>2. \A i \in 1..Len(file) : i \in 1..offset \/ offset < i
    BY <2>1
  <2>3. \A i \in 1..Len(file) : offset < i => ~Eligible(i)
    BY <1>7, <2>1, BatchShape DEF Eligible, Accepted
  <2> QED  BY <2>2, <2>3 DEF Replays, AllSettled
<1>8. completed \in Nat
  BY ImportAssumption DEF Begun
<1>9. OnlyOnce'
  BY <1>1, <1>2, <1>6, <1>7, <1>8 DEF Replays, OnlyOnce
<1> QED  BY <1>3, <1>4, <1>5, <1>9 DEF Replays

\* The INSERT of the owners: whoever is not there afterwards has lost the address.
LEMMA SaveUsersReplays ==
    ASSUME TypeInv, Begun, OneAddressEach, Replays, TypeInv', SaveUsers
    PROVE  Replays'
<1>1. /\ UNCHANGED <<document, users, tasks, newTasks, offset, retained, inserted, completed>>
      /\ pc = "users" /\ pc' = "owners"
      /\ insertedUsers' = insertedUsers + Cardinality(NewOwners)
  BY DEF SaveUsers, tables, count
<1>2. /\ retained = Reconstituted /\ newUsers = Nothing(Owners)
      /\ \A o \in Owners : VisibleUsers[o] = users[o]
  BY <1>1, Visibly DEF Replays, Statements, TypeInv, Fresh, Nothing
<1>3. /\ newUsers' \in [Owners -> Emails \union {Absent}]
      /\ \A i \in NewOwners : newUsers'[file[i].owner] = EmailOf(i)
      /\ \A o \in Owners : newUsers'[o] # Absent =>
            \E i \in NewOwners : file[i].owner = o /\ newUsers'[o] = EmailOf(i)
  BY OwnersInserted
<1>4. \A o \in Owners :
        VisibleUsers'[o] = IF newUsers'[o] # Absent THEN newUsers'[o] ELSE users[o]
  <2>1. TypeInv' => \A o \in Owners :
        VisibleUsers'[o] = IF newUsers'[o] # Absent THEN newUsers'[o] ELSE users'[o]
    BY DEF TypeInv, Typed, VisibleUsers, With
  <2> QED  BY <1>1, <2>1
<1>5. AllSettled(offset)'
  BY <1>1, SameSettled DEF Replays, AllSettled
<1>6. \A i \in NewOwners : i \in Unknown /\ i \in FirstMentions /\ i \in retained
  BY DEF NewOwners, Unknown, FirstMentions
<1>7. AddressesAreNew'
  <2> SUFFICES ASSUME NEW o \in Owners, newUsers'[o] # Absent
               PROVE  /\ \A p \in Owners : users[p] # newUsers'[o]
                      /\ \A i \in 1..Len(file) :
                            file[i].owner = o => file[i].email = newUsers'[o]
    BY <1>1 DEF AddressesAreNew, file
  <2>1. PICK i \in NewOwners : file[i].owner = o /\ newUsers'[o] = EmailOf(i)
    BY <1>3
  <2>2. \A p \in Owners : users[p] # EmailOf(i)
    BY <1>2, <1>6 DEF Unknown
  <2> QED  BY <1>6, <2>1, <2>2, OwnAddress
<1>8. ASSUME NEW i \in Reconstituted
      PROVE  \/ VisibleUsers'[file[i].owner] # Absent
             \/ \E o \in Owners : VisibleUsers'[o] = file[i].email
  <2>1. PICK f \in FirstMentions : file[f].owner = file[i].owner
    BY <1>2, FirstMentioned DEF TypeInv
  <2>2. i \in 1..Len(file) /\ f \in retained /\ file[i].owner \in Owners
    BY <2>1, ReconstitutedAre DEF FirstMentions
  <2>3. EmailOf(f) = file[i].email /\ EmailOf(f) # Absent
    BY <2>1, <2>2, OwnAddress, ReconstitutedAre
  <2>4. CASE users[file[i].owner] # Absent
    BY <1>4, <2>2, <2>4
  <2>5. CASE users[file[i].owner] = Absent /\ \E o \in Owners : users[o] = EmailOf(f)
    <3>1. PICK o \in Owners : users[o] = EmailOf(f)
      BY <2>5
    <3>2. newUsers'[o] = Absent
      BY <2>3, <3>1, OwnersInserted
    <3> QED  BY <1>4, <2>3, <3>1, <3>2
  <2>6. CASE users[file[i].owner] = Absent /\ \A o \in Owners : users[o] # EmailOf(f)
    <3>1. f \in Unknown
      BY <1>2, <2>1, <2>2, <2>6 DEF Unknown
    <3>2. PICK g \in NewOwners : EmailOf(g) = EmailOf(f)
      BY <3>1, SomebodyTakesIt
    <3>3. file[g].owner \in Owners
      BY <1>6, ReconstitutedAre DEF TypeInv, Typed
    <3> QED  BY <1>3, <1>4, <2>3, <3>2, <3>3
  <2> QED  BY <2>4, <2>5, <2>6
<1>9. Reconstituted' = Reconstituted /\ file' = file
  BY <1>1, SameBatch DEF file
<1>10. ~skippedOwner' => HaveOwners'
  BY NobodySkipped
<1>11. Statements'
  BY <1>1, <1>2, <1>8, <1>9, <1>10 DEF Statements
<1>12. ASSUME completed > 0 PROVE NewOwners = {}
  <2> SUFFICES ASSUME NEW i \in NewOwners PROVE FALSE
    OBVIOUS
  <2>1. i \in Reconstituted /\ i \in 1..Len(file) /\ Eligible(i)
    BY <1>2, <1>6, ReconstitutedAre
  <2>2. Settled(i)
    BY <1>12, <2>1 DEF Replays, OnlyOnce, AllSettled
  <2>3. file[i].email = EmailOf(i)
    BY <1>6, <2>1, OwnAddress
  <2> QED  BY <1>2, <1>6, <2>1, <2>2, <2>3, ReconstitutedAre DEF Settled, Unknown
<1>13. OnlyOnce'
  <2>1. AllSettled(Len(file)) => AllSettled(Len(file))'
    BY <1>1, SameSettled DEF AllSettled, file
  <2>2. ASSUME completed > 0
        PROVE  insertedUsers' = 0 /\ newUsers' = Nothing(Owners)
               /\ inserted' = 0 /\ newTasks' = Nothing(Tasks)
    <3>1. Cardinality(NewOwners) = 0
      BY <1>12, <2>2, FS_EmptySet
    <3>2. inserted = 0 /\ insertedUsers = 0 /\ newTasks = Nothing(Tasks)
      BY <1>1, <2>2 DEF Replays, OnlyOnce
    <3>3. newUsers' = Nothing(Owners)
      BY <1>3, <1>12, <2>2 DEF Nothing
    <3> QED  BY <1>1, <3>1, <3>2, <3>3
  <2> QED  BY <1>1, <2>1, <2>2 DEF Replays, OnlyOnce
<1> QED  BY <1>5, <1>7, <1>11, <1>13 DEF Replays

\* The question who is there, and the INSERT of the tasks.
LEMMA KeepOwnedReplays == ASSUME TypeInv, Replays, KeepOwned PROVE Replays'
<1>1. /\ UNCHANGED <<document, users, tasks, newUsers, newTasks, offset, inserted,
                     insertedUsers, completed, skippedOwner>>
      /\ pc = "owners" /\ pc' = "tasks"
      /\ retained' = {i \in retained : skippedOwner => VisibleUsers[file[i].owner] # Absent}
  BY DEF KeepOwned, tables, open, count
<1>2. /\ Reconstituted' = Reconstituted /\ file' = file
      /\ VisibleUsers' = VisibleUsers /\ VisibleTasks' = VisibleTasks
  BY <1>1, SameBatch DEF file, VisibleUsers, VisibleTasks, With
<1>3. retained = Reconstituted /\ (~skippedOwner => HaveOwners)
  BY <1>1 DEF Replays, Statements
<1>4. retained' = {i \in Reconstituted : VisibleUsers[file[i].owner] # Absent}
  BY <1>1, <1>3 DEF HaveOwners
<1>5. Statements'
  BY <1>1, <1>2, <1>4 DEF Replays, Statements
<1>6. AllSettled(offset)' /\ (AllSettled(Len(file)) => AllSettled(Len(file))')
  BY <1>1, <1>2, SameSettled DEF Replays, AllSettled
<1> QED  BY <1>1, <1>2, <1>5, <1>6 DEF Replays, AddressesAreNew, OnlyOnce

\* The INSERT of the tasks: a line whose owner is there has its task there.
LEMMA SaveTasksReplays == ASSUME TypeInv, Replays, SaveTasks PROVE Replays'
<1>1. /\ UNCHANGED <<document, users, tasks, offset, retained, insertedUsers, completed>>
      /\ pc = "tasks"
  BY DEF SaveTasks, tables, batch, count
<1>2. AllSettled(offset)' /\ (AllSettled(Len(file)) => AllSettled(Len(file))')
  BY <1>1, SameSettled DEF Replays, AllSettled, file
<1>3. CASE pc' # "commit"
  <2>1. /\ newUsers' = Nothing(Owners) /\ newTasks' = Nothing(Tasks)
        /\ pc' \in {"data_error", "integrity_error"} /\ inserted' = inserted
    BY <1>3 DEF SaveTasks, Closes
  <2>2. AddressesAreNew' /\ Statements'
    BY <2>1 DEF AddressesAreNew, Statements, Nothing
  <2> QED  BY <1>1, <1>2, <2>1, <2>2 DEF Replays, OnlyOnce
<1>4. CASE pc' = "commit"
  <2>1. /\ newUsers' = newUsers
        /\ inserted' = inserted + Cardinality(NewLines)
        /\ \A i \in NewLines : newTasks'[file[i].task] # Absent
        /\ \A t \in Tasks : newTasks'[t] # Absent => \E i \in NewLines : file[i].task = t
        /\ newTasks' \in [Tasks -> Owners \union {Absent}]
    BY <1>4, TasksInserted
  <2>2. /\ retained = {i \in Reconstituted : VisibleUsers[file[i].owner] # Absent}
        /\ newTasks = Nothing(Tasks)
    BY <1>1 DEF Replays, Statements, TypeInv, Fresh
  <2>3. Reconstituted' = Reconstituted /\ file' = file /\ VisibleUsers' = VisibleUsers
    BY <1>1, <2>1, SameBatch DEF file, VisibleUsers, With
  <2>4. \A t \in Tasks :
            VisibleTasks'[t] = IF newTasks'[t] # Absent THEN newTasks'[t] ELSE tasks[t]
    BY <1>1 DEF TypeInv, Typed, VisibleTasks, With
  <2>5. \A t \in Tasks : VisibleTasks[t] = tasks[t]
    BY <2>2, Visibly DEF TypeInv, Nothing
  <2>6. \A i \in Reconstituted :
            i \in 1..Len(file) /\ file[i].task \in Tasks /\ file[i].owner \in Owners
    BY ReconstitutedAre
  <2>7. ASSUME NEW i \in Reconstituted, VisibleUsers[file[i].owner] # Absent
        PROVE  VisibleTasks'[file[i].task] # Absent
    BY <2>1, <2>2, <2>4, <2>5, <2>6, <2>7 DEF NewLines
  <2>8. Statements'
    BY <1>1, <1>4, <2>3, <2>7 DEF Replays, Statements
  <2>9. ASSUME completed > 0
        PROVE  inserted' = 0 /\ newTasks' = Nothing(Tasks)
    <3>1. inserted = 0 /\ newUsers = Nothing(Owners)
      BY <1>1, <2>9 DEF Replays, OnlyOnce
    <3>2. ASSUME NEW i \in NewLines PROVE FALSE
      <4>1. /\ i \in Reconstituted
            /\ VisibleUsers[file[i].owner] # Absent
            /\ tasks[file[i].task] = Absent
        BY <2>2, <2>5, <2>6, <3>2 DEF NewLines
      <4>2. Eligible(i) /\ file[i].owner \in Owners
        BY <2>6, <4>1, ReconstitutedAre
      <4>3. users[file[i].owner] # Absent
        BY <3>1, <4>1, <4>2, Visibly DEF TypeInv, Nothing
      <4>4. Settled(i)
        BY <2>6, <2>9, <4>1, <4>2 DEF Replays, OnlyOnce, AllSettled
      <4> QED  BY <4>1, <4>3, <4>4 DEF Settled
    <3>3. NewLines = {} /\ Cardinality(NewLines) = 0
      BY <3>2, FS_EmptySet
    <3>4. newTasks' = Nothing(Tasks)
      BY <2>1, <3>3 DEF Nothing
    <3> QED  BY <2>1, <3>1, <3>3, <3>4
  <2>10. OnlyOnce'
    BY <1>1, <1>2, <2>1, <2>9 DEF Replays, OnlyOnce
  <2>11. AddressesAreNew'
    BY <1>1, <2>1, <2>3 DEF Replays, AddressesAreNew
  <2> QED  BY <1>2, <2>8, <2>10, <2>11 DEF Replays
<1> QED  BY <1>3, <1>4

\* The commit settles the batch, and unsettles nothing.
LEMMA CommitReplays == ASSUME TypeInv, Replays, Commit PROVE Replays'
<1>1. /\ UNCHANGED <<document, inserted, insertedUsers, completed>>
      /\ pc = "commit" /\ pc' = "reading" /\ Advance
      /\ users' = VisibleUsers /\ tasks' = VisibleTasks
      /\ newUsers' = Nothing(Owners) /\ newTasks' = Nothing(Tasks)
  BY DEF Commit, Closes, report, count
<1>2. /\ document \in Documents /\ Len(file) \in Nat /\ offset \in 0..Len(file)
      /\ 1..offset \subseteq 1..Len(file) /\ file' = file
  BY <1>1, FileType DEF TypeInv, Typed, file
<1>3. Batch # {}
  BY <1>1 DEF TypeInv, HasBatch, InBatch
<1>4. /\ offset' \in 1..Len(file) /\ offset < offset'
      /\ Batch = {i \in 1..offset' : offset < i /\ Legible(i)}
  BY <1>1, <1>2, <1>3, AdvanceStays
<1>5. \A i : Eligible(i)' <=> Eligible(i)
  BY <1>1 DEF Eligible, Accepted, Legible, Seen, file
<1>6. /\ \A o \in Owners :
            /\ users[o] # Absent => users'[o] = users[o]
            /\ users[o] = Absent => users'[o] = newUsers[o]
            /\ newUsers[o] # Absent => users[o] = Absent
      /\ \A t \in Tasks : tasks[t] # Absent => tasks'[t] # Absent
  BY <1>1, Visibly DEF TypeInv, Fresh
<1>7. ASSUME NEW i \in 1..Len(file), Settled(i) PROVE Settled(i)'
  <2>1. file[i].owner \in Owners /\ file[i].task \in Tasks /\ file[i].email # Absent
    BY ReconstitutedAre
  <2>2. CASE users[file[i].owner] # Absent /\ tasks[file[i].task] # Absent
    BY <1>2, <1>6, <2>1, <2>2 DEF Settled
  <2>3. CASE users[file[i].owner] = Absent /\ \E o \in Owners : users[o] = file[i].email
    <3>1. PICK o \in Owners : users[o] = file[i].email
      BY <2>3
    <3>2. users'[o] = file[i].email
      BY <1>6, <2>1, <3>1
    <3>3. newUsers[file[i].owner] = Absent
      BY <2>1, <3>1 DEF Replays, AddressesAreNew
    <3> QED  BY <1>2, <1>6, <2>1, <2>3, <3>2, <3>3 DEF Settled
  <2> QED  BY <1>7, <2>2, <2>3 DEF Settled
<1>8. ASSUME NEW i \in 1..offset', Eligible(i) PROVE Settled(i)'
  <2>1. i \in 1..Len(file) /\ (i \in 1..offset \/ i \in Batch)
    BY <1>2, <1>4, <1>8 DEF Eligible, Accepted
  <2>2. CASE i \in 1..offset
    BY <1>7, <1>8, <2>1, <2>2 DEF Replays, AllSettled
  <2>3. CASE i \in Batch
    <3>1. i \in Reconstituted
      BY <1>8, <2>3, ReconstitutedAre
    <3>2. \/ users'[file[i].owner] # Absent /\ tasks'[file[i].task] # Absent
          \/ users'[file[i].owner] = Absent /\ \E o \in Owners : users'[o] = file[i].email
      BY <1>1, <3>1 DEF Replays, Statements
    <3> QED  BY <1>2, <3>2 DEF Settled
  <2> QED  BY <2>1, <2>2, <2>3
<1>9. AllSettled(offset)'
  BY <1>5, <1>8 DEF AllSettled
<1>10. AddressesAreNew' /\ Statements'
  BY <1>1 DEF AddressesAreNew, Statements, Nothing
<1>11. AllSettled(Len(file)) => AllSettled(Len(file))'
  BY <1>2, <1>5, <1>7 DEF AllSettled
<1>12. OnlyOnce'
  BY <1>1, <1>11 DEF Replays, OnlyOnce
<1> QED  BY <1>9, <1>10, <1>12 DEF Replays

\* The death of the process, or a name the database refuses, unsettles nothing.
LEMMA KillReplays == ASSUME Replays, Kill \/ SaveUsersFails PROVE Replays'
<1>1. /\ UNCHANGED <<document, users, tasks, offset, inserted, insertedUsers, completed>>
      /\ pc \notin Ended /\ pc' \in {"killed", "data_error"}
      /\ newUsers' = Nothing(Owners) /\ newTasks' = Nothing(Tasks)
  BY DEF Kill, SaveUsersFails, Closes, tables, batch, report, count, Ended, Stopped
<1>2. AllSettled(offset)' /\ (AllSettled(Len(file)) => AllSettled(Len(file))')
  BY <1>1, SameSettled DEF Replays, AllSettled, file
<1>3. AddressesAreNew' /\ Statements'
  BY <1>1 DEF AddressesAreNew, Statements, Nothing
<1> QED  BY <1>1, <1>2, <1>3 DEF Replays, OnlyOnce, Ended

\* Every step keeps it.
LEMMA NextReplays ==
    TypeInv /\ Begun /\ TypeInv' /\ ReplayInv /\ [Next]_vars => ReplayInv'
<1> SUFFICES ASSUME TypeInv, Begun, TypeInv', ReplayInv, [Next]_vars,
                    disturbances' = 0, OneAddressEach'
             PROVE  Replays'
  BY DEF ReplayInv
<1>1. ~Disturb /\ disturbances' = disturbances /\ document' = document
  BY DEF Next, vars, Disturb, Begun, Start, ReadBatch, SaveUsers, SaveUsersFails, KeepOwned,
         SaveTasks, Commit, Kill, world, CreateUser, DropUser, DeleteTask
<1>2. OneAddressEach /\ Replays
  BY <1>1 DEF ReplayInv, OneAddressEach, file
<1>3. CASE UNCHANGED vars
  <2>1. AllSettled(offset)' /\ (AllSettled(Len(file)) => AllSettled(Len(file))')
    BY <1>2, <1>3, SameSettled DEF Replays, AllSettled, file, vars
  <2>2. Reconstituted' = Reconstituted /\ file' = file
    BY <1>3, SameBatch DEF vars, file
  <2>3. VisibleUsers' = VisibleUsers /\ VisibleTasks' = VisibleTasks
    BY <1>3 DEF vars, VisibleUsers, VisibleTasks, With
  <2>4. Statements'
    BY <1>2, <1>3, <2>2, <2>3 DEF vars, Replays, Statements, HaveOwners
  <2>5. AddressesAreNew' /\ OnlyOnce'
    BY <1>2, <1>3, <2>1, <2>2 DEF vars, Replays, AddressesAreNew, OnlyOnce
  <2> QED  BY <2>1, <2>4, <2>5 DEF Replays
<1>4. CASE Next
  BY <1>1, <1>2, <1>4, StartReplays, ReadBatchReplays, SaveUsersReplays, KeepOwnedReplays,
     SaveTasksReplays, CommitReplays, KillReplays
  DEF Next, CreateUser, DropUser, DeleteTask
<1> QED  BY <1>3, <1>4

\* Importing an export again inserts nothing, however the runs were cut.
THEOREM ReplaysInsertNothing == Spec => []ReplayOfExportInsertsNothing
<1>1. Init => ReplayInv
  <2> SUFFICES ASSUME Init PROVE Replays
    BY DEF ReplayInv
  <2>1. /\ offset = 0 /\ completed = 0 /\ pc = "idle"
        /\ newUsers = Nothing(Owners)
    BY DEF Init
  <2> QED
    BY <2>1 DEF Replays, AllSettled, AddressesAreNew, Statements, OnlyOnce, Nothing
<1>2. Begun /\ ReplayInv => ReplayOfExportInsertsNothing
  <2> SUFFICES ASSUME Begun, ReplayInv, Replayed, OneAddressEach
               PROVE  inserted = 0 /\ insertedUsers = 0
    BY DEF ReplayOfExportInsertsNothing
  <2>1. disturbances = 0 /\ completed > 1 /\ completed \in Nat
    BY ImportAssumption DEF Replayed, Begun
  <2>2. completed > 0 /\ completed # 1
    BY <2>1
  <2> QED  BY <2>1, <2>2 DEF ReplayInv, Replays, OnlyOnce
<1>3. CountInv => TypeInv /\ Begun
  BY DEF CountInv
<1> QED  BY <1>1, <1>2, <1>3, NextReplays, CountInvariant, ImportTypes, PTL DEF Spec
=============================================================================
