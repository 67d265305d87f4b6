--------------------------- MODULE ExportsProofs ---------------------------
(***************************************************************************)
(* Proofs about Exports, for any finite sets of exports and of tasks, any  *)
(* size of the pool and any size of the cursor's batches.                  *)
(***************************************************************************)
EXTENDS Exports, FiniteSetTheorems, TLAPS

-----------------------------------------------------------------------------
(* Types.                                                                  *)

\* Every variable keeps its type.
THEOREM TypeCorrect == Spec => []TypeOK
<1>1. Init => TypeOK
  BY DEF Init, TypeOK, Stages
<1>2. TypeOK /\ [Next]_vars => TypeOK'
  <2> SUFFICES ASSUME TypeOK, [Next]_vars PROVE TypeOK'
    OBVIOUS
  <2> USE DEF TypeOK, Stages, Go, table
  <2>1. ASSUME NEW e \in Exports,
               Click(e) \/ Count(e) \/ CountAnswered(e) \/ Ask(e) \/ Open(e)
        PROVE  TypeOK'
    BY <2>1 DEF Click, Count, CountAnswered, Ask, Open
  <2>2. ASSUME NEW e \in Exports, Send(e)
        PROVE  TypeOK'
    BY <2>2 DEF Send
  <2>3. ASSUME NEW e \in Exports, Finish(e) \/ Break(e) \/ TimeOut(e) \/ Collect(e)
        PROVE  TypeOK'
    BY <2>3 DEF Finish, Break, TimeOut, Collect
  <2>4. ASSUME NEW e \in Exports, Compare(e)
        PROVE  TypeOK'
    BY <2>4 DEF Compare
  <2>5. ASSUME NEW t \in Tasks, CreateTask(t) \/ DeleteTask(t)
        PROVE  TypeOK'
    BY <2>5 DEF CreateTask, DeleteTask
  <2>6. CASE UNCHANGED vars
    BY <2>6 DEF vars
  <2> QED
    BY <2>1, <2>2, <2>3, <2>4, <2>5, <2>6 DEF Next, Progress
<1> QED
  BY <1>1, <1>2, PTL DEF Spec

-----------------------------------------------------------------------------
(* What a body shows.                                                      *)

\* The page has received rows of its snapshot, and none before the SELECT.
RowsOfSnapshot ==
    \A e \in Exports :
        /\ received[e] \subseteq snapshot[e]
        /\ page[e] \in {"idle", "clicked", "counting", "counted", "asked"}
             => received[e] = {}

\* A task is gone once and for all, and only what was deleted came before.
Lifetimes ==
    /\ stored \cap gone = {}
    /\ apart \subseteq gone \X (stored \cup gone)

\* A snapshot is made of tasks that were stored together.
SnapshotsMet ==
    \A e \in Exports :
        /\ snapshot[e] \subseteq stored \cup gone
        /\ \A a, b \in snapshot[e] : <<a, b>> \notin apart

BodyInv == TypeOK /\ RowsOfSnapshot /\ Lifetimes /\ SnapshotsMet

\* What is said of bodies and snapshots always holds.
LEMMA BodyInvariant == Spec => []BodyInv
<1>1. Init => BodyInv
  BY DEF Init, BodyInv, TypeOK, Stages, RowsOfSnapshot, Lifetimes, SnapshotsMet
<1>2. BodyInv /\ TypeOK' /\ [Next]_vars => BodyInv'
  <2> SUFFICES ASSUME BodyInv, TypeOK', [Next]_vars PROVE BodyInv'
    OBVIOUS
  <2> USE DEF BodyInv
  \* The SELECT: what is stored at one moment has met.
  <2>1. ASSUME NEW e \in Exports, Open(e)
        PROVE  BodyInv'
    <3>1. \A f \in Exports \ {e} : snapshot'[f] = snapshot[f] /\ page'[f] = page[f]
      BY <2>1 DEF Open, Go, TypeOK
    <3>2. snapshot'[e] = stored /\ received[e] = {} /\ page'[e] = "streaming"
      BY <2>1 DEF Open, Go, TypeOK, RowsOfSnapshot
    <3>3. UNCHANGED <<stored, gone, apart, received>>
      BY <2>1 DEF Open, table
    <3>4. RowsOfSnapshot'
      BY <3>1, <3>2, <3>3 DEF RowsOfSnapshot
    <3>5. SnapshotsMet'
      BY <3>1, <3>2, <3>3 DEF SnapshotsMet, Lifetimes
    <3> QED
      BY <3>3, <3>4, <3>5 DEF Lifetimes
  \* A batch of rows: they are rows of the snapshot.
  <2>2. ASSUME NEW e \in Exports, Send(e)
        PROVE  BodyInv'
    <3>1. PICK rows \in SUBSET (snapshot[e] \ received[e]) :
            received' = [received EXCEPT ![e] = @ \cup rows]
      BY <2>2 DEF Send
    <3>2. UNCHANGED <<stored, gone, apart, page, snapshot>> /\ page[e] = "streaming"
      BY <2>2 DEF Send, table
    <3>3. RowsOfSnapshot'
      BY <3>1, <3>2 DEF RowsOfSnapshot, TypeOK
    <3> QED
      BY <3>2, <3>3 DEF Lifetimes, SnapshotsMet
  \* The other steps of an export change neither rows nor table, and do not
  \* go back before the SELECT.
  <2>3. ASSUME NEW e \in Exports,
               \/ Click(e) \/ Count(e) \/ CountAnswered(e) \/ Ask(e)
               \/ Finish(e) \/ Break(e) \/ TimeOut(e) \/ Compare(e) \/ Collect(e)
        PROVE  BodyInv'
    <3> DEFINE early == {"idle", "clicked", "counting", "counted", "asked"}
    <3>1. UNCHANGED <<stored, gone, apart, snapshot, received>>
      BY <2>3 DEF Click, Count, CountAnswered, Ask, Finish, Break, TimeOut,
                  Compare, Collect, table
    <3>2. \A f \in Exports : page'[f] \in early => page[f] \in early
      <4>1. CASE Click(e) \/ Count(e) \/ CountAnswered(e) \/ Ask(e)
        BY <4>1 DEF Click, Count, CountAnswered, Ask, Go, TypeOK
      <4>2. CASE Finish(e) \/ Break(e) \/ TimeOut(e) \/ Collect(e)
        BY <4>2 DEF Finish, Break, TimeOut, Collect, Go, TypeOK
      <4>3. CASE Compare(e)
        BY <4>3 DEF Compare, Go, TypeOK
      <4> QED
        BY <2>3, <4>1, <4>2, <4>3
    <3>3. RowsOfSnapshot'
      BY <3>1, <3>2 DEF RowsOfSnapshot
    <3> QED
      BY <3>1, <3>3 DEF Lifetimes, SnapshotsMet
  \* A creation sets apart from its task those that are gone; the task itself is
  \* in no snapshot yet.
  <2>4. ASSUME NEW t \in Tasks, CreateTask(t)
        PROVE  BodyInv'
    BY <2>4 DEF CreateTask, RowsOfSnapshot, Lifetimes, SnapshotsMet
  <2>5. ASSUME NEW t \in Tasks, DeleteTask(t)
        PROVE  BodyInv'
    BY <2>5 DEF DeleteTask, RowsOfSnapshot, Lifetimes, SnapshotsMet
  <2>6. CASE UNCHANGED vars
    BY <2>6 DEF vars, RowsOfSnapshot, Lifetimes, SnapshotsMet
  <2> QED
    BY <2>1, <2>2, <2>3, <2>4, <2>5, <2>6 DEF Next, Progress
<1> QED
  BY <1>1, <1>2, TypeCorrect, PTL DEF Spec

\* The rows of an export were all in the table at one moment.
THEOREM ExportsShowOneMoment == Spec => []RowsMetInTheTable
<1>1. BodyInv => RowsMetInTheTable
  BY DEF BodyInv, RowsOfSnapshot, SnapshotsMet, RowsMetInTheTable
<1> QED
  BY <1>1, BodyInvariant, PTL

-----------------------------------------------------------------------------
(* What the comparison with the count is worth.                            *)

\* A part of a set that has as many elements as another set lacks at most the
\* elements the other lacks.
LEMMA MissesAtMost ==
    ASSUME NEW S, NEW R \in SUBSET S, NEW C, IsFiniteSet(S), IsFiniteSet(C),
           Cardinality(R) = Cardinality(C)
    PROVE  Cardinality(S \ R) <= Cardinality(S \ C)
<1>1. /\ IsFiniteSet(R)
      /\ Cardinality(S) \in Nat /\ Cardinality(C) \in Nat
  BY FS_Subset, FS_CardinalityType
<1>2. Cardinality(S \ R) = Cardinality(S) - Cardinality(R)
  <2>1. S \cap R = R
    OBVIOUS
  <2> QED
    BY <2>1, FS_Difference
<1>3. Cardinality(S \ C) = Cardinality(S) - Cardinality(S \cap C)
  BY FS_Difference
<1>4. Cardinality(S \cap C) \in Nat /\ Cardinality(S \cap C) <= Cardinality(C)
  <2>1. S \cap C \subseteq C
    OBVIOUS
  <2>2. IsFiniteSet(S \cap C) /\ Cardinality(S \cap C) <= Cardinality(C)
    BY <2>1, FS_Subset
  <2> QED
    BY <2>2, FS_CardinalityType
<1> QED
  BY <1>1, <1>2, <1>3, <1>4

\* A file is saved for a number of rows equal to the count.
SavedCounts ==
    \A e \in Exports :
        page[e] = "saved" => Cardinality(received[e]) = Cardinality(counted[e])

\* So does what is said of saved files.
LEMMA SavedInvariant == Spec => [](BodyInv /\ SavedCounts)
<1>1. Init => SavedCounts
  BY DEF Init, SavedCounts
<1>2. TypeOK /\ SavedCounts /\ [Next]_vars => SavedCounts'
  <2> SUFFICES ASSUME TypeOK, SavedCounts, [Next]_vars PROVE SavedCounts'
    OBVIOUS
  <2>1. ASSUME NEW e \in Exports, Count(e)
        PROVE  SavedCounts'
    BY <2>1 DEF Count, Go, TypeOK, SavedCounts
  <2>2. ASSUME NEW e \in Exports, Send(e)
        PROVE  SavedCounts'
    BY <2>2 DEF Send, TypeOK, SavedCounts
  <2>3. ASSUME NEW e \in Exports, Compare(e)
        PROVE  SavedCounts'
    BY <2>3 DEF Compare, Go, TypeOK, SavedCounts
  <2>4. ASSUME NEW e \in Exports,
               \/ Click(e) \/ CountAnswered(e) \/ Ask(e) \/ Open(e)
               \/ Finish(e) \/ Break(e) \/ TimeOut(e) \/ Collect(e)
        PROVE  SavedCounts'
    BY <2>4 DEF Click, CountAnswered, Ask, Open, Finish, Break, TimeOut, Collect,
                Go, TypeOK, SavedCounts
  <2>5. ASSUME NEW t \in Tasks, CreateTask(t) \/ DeleteTask(t)
        PROVE  SavedCounts'
    BY <2>5 DEF CreateTask, DeleteTask, SavedCounts
  <2>6. CASE UNCHANGED vars
    BY <2>6 DEF vars, SavedCounts
  <2> QED
    BY <2>1, <2>2, <2>3, <2>4, <2>5, <2>6 DEF Next, Progress
<1> QED
  BY <1>1, <1>2, TypeCorrect, BodyInvariant, PTL DEF Spec

\* A saved file lacks at most as many rows as there were newcomers.
THEOREM SavedFilesMissOnlyNewcomers == Spec => []SavedMissesOnlyNewcomers
<1>1. BodyInv /\ SavedCounts => SavedMissesOnlyNewcomers
  <2> SUFFICES ASSUME BodyInv, SavedCounts, NEW e \in Exports, page[e] = "saved"
               PROVE  /\ received[e] \subseteq snapshot[e]
                      /\ Cardinality(snapshot[e] \ received[e])
                           <= Cardinality(snapshot[e] \ counted[e])
    BY DEF SavedMissesOnlyNewcomers
  <2>1. received[e] \subseteq snapshot[e]
    BY DEF BodyInv, RowsOfSnapshot
  <2>2. snapshot[e] \subseteq Tasks /\ counted[e] \subseteq Tasks
    BY DEF BodyInv, TypeOK
  <2>3. IsFiniteSet(snapshot[e]) /\ IsFiniteSet(counted[e])
    BY <2>2, ExportAssumption, FS_Subset
  <2>4. Cardinality(received[e]) = Cardinality(counted[e])
    BY DEF SavedCounts
  <2> QED
    BY <2>1, <2>3, <2>4, MissesAtMost
<1> QED
  BY <1>1, SavedInvariant, PTL
=============================================================================
