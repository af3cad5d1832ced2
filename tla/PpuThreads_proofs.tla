-------------------------- MODULE PpuThreads_proofs --------------------------
(***************************************************************************)
(* Machine-checked proofs about the PPU thread runtime, for every table    *)
(* size, stack layout and number of threads the assumption admits.         *)
(***************************************************************************)
EXTENDS PpuThreads, FiniteSetTheorems, TLAPS

Drawn(t) == t < g_thread_id_next

\* A creator between DrawId and thread_table_add works on an id already drawn; until
\* CreateThread nobody else works on it and no thread runs under it.
CreatorsKnowChild ==
  /\ \A p \in Threads : pc[p] \in {"creating", "adding"} =>
       child[p] \in Ids /\ Drawn(child[p])
  /\ \A p \in Threads : pc[p] = "creating" => pc[child[p]] = "none"
  /\ \A p, q \in Threads : p # q /\ pc[p] = "creating" /\ pc[q] = "creating" =>
       child[p] # child[q]
  /\ \A t \in Ids : Created(t) => Drawn(t)
  /\ pc[Main] # "none"

\* Every stack carved, by a thread or by a creator that has no id yet, lies above the
\* cursor and apart from every other.
AboveCursor(a) == g_thread_stack_cursor + THREAD_STACK_SIZE <= a
StacksCarved ==
  /\ \A t \in Ids : Drawn(t) => AboveCursor(top[t])
  /\ \A p \in Threads : pc[p] = "carved" => AboveCursor(carved[p])
  /\ \A s, t \in Ids : s # t /\ Drawn(s) /\ Drawn(t) => Apart(top[s], top[t])
  /\ \A p, q \in Threads : p # q /\ pc[p] = "carved" /\ pc[q] = "carved" =>
       Apart(carved[p], carved[q])
  /\ \A t \in Ids, p \in Threads : Drawn(t) /\ pc[p] = "carved" =>
       Apart(top[t], carved[p])

\* The table holds the handle of a thread at most once: only its creator files it, and
\* only once.
FiledOnce ==
  /\ IsFiniteSet(HandlesInTable) /\ Cardinality(HandlesInTable) = Len(table)
  /\ \A t \in HandlesInTable : t \in Ids /\ Filed(t)
  /\ \A p \in Threads : pc[p] = "adding" => Created(child[p])
  /\ \A p, q \in Threads : p # q /\ pc[p] = "adding" /\ pc[q] = "adding" =>
       child[p] # child[q]

\* What main() waits for, and what it has waited for.
SettledWaitedFor ==
  pc[Main] \in {"join_all", "down"} /\ Cardinality(settled) <= MAX_THREADS =>
    settled \subseteq waiting[Main]
WaitedForExited == pc[Main] = "down" => \A h \in waiting[Main] : pc[h] = "exited"
Joined == settled \in SUBSET Ids /\ SettledWaitedFor /\ WaitedForExited

\* The inductive invariant.
IInv == TypeOK /\ CreatorsKnowChild /\ StacksCarved /\ HandleKept /\ FiledOnce /\ Joined

LEMMA Constants ==
  /\ MAX_THREADS \in Nat /\ MaxCreates \in Nat
  /\ THREAD_STACK_SIZE \in Nat /\ THREAD_STACK_SIZE > 0
  /\ AddressUnits \in Nat /\ StackCursor0 \in Nat /\ StackCursor0 < AddressUnits
  /\ StackFloor \in Nat /\ THREAD_STACK_SIZE <= StackFloor
  BY ThreadAssumption

LEMMA InitIInv == Init => IInv
<1> SUFFICES ASSUME Init PROVE IInv
  OBVIOUS
<1> USE Constants DEF Init, Threads, Ids, Main
<1>1. TypeOK
  <2>1. table \in Seq(Entries) /\ Len(table) <= MAX_THREADS
    OBVIOUS
  <2>2. pc \in [Threads -> Places]
    BY DEF Places
  <2>3. carved \in [Threads -> Addresses] /\ top \in [Ids -> Addresses]
    BY DEF Addresses
  <2>4. waiting \in [Threads -> SUBSET Ids]
    OBVIOUS
  <2>5. /\ g_thread_stack_cursor \in Addresses
        /\ g_thread_id_next \in 1 .. MaxCreates + 1
        /\ param \in [Ids -> {"none", "live", "freed"}]
        /\ child \in [Threads -> Threads]
    BY DEF Addresses
  <2> HIDE DEF Threads, Ids, Main
  <2> QED BY <2>1, <2>2, <2>3, <2>4, <2>5 DEF TypeOK
<1>2. CreatorsKnowChild /\ StacksCarved
  BY DEF CreatorsKnowChild, StacksCarved, Created, Drawn
<1>3. HandleKept /\ Joined
  BY DEF HandleKept, Joined, SettledWaitedFor, WaitedForExited, Created
<1>4. FiledOnce
  <2>1. HandlesInTable = {}
    BY DEF HandlesInTable
  <2> QED BY <2>1, FS_EmptySet DEF FiledOnce
<1> QED BY <1>1, <1>2, <1>3, <1>4 DEF IInv

\* Above the floor the cursor never wraps.
LEMMA NextTopValue ==
  ASSUME NEW a \in Addresses, a >= StackFloor
  PROVE  NextTop(a) = a - THREAD_STACK_SIZE /\ NextTop(a) \in Addresses
BY Constants DEF NextTop, Addresses
-----------------------------------------------------------------------------
LEMMA EntryHandle ==
  ASSUME TypeOK, NEW k \in 1 .. Len(table)
  PROVE  table[k].handle \in Ids
<1>1. table[k] \in Entries
  BY DEF TypeOK
<1> QED BY <1>1 DEF Entries

LEMMA TypeStep == IInv /\ [Next]_vars => TypeOK'
<1> SUFFICES ASSUME IInv, [Next]_vars PROVE TypeOK'
  OBVIOUS
<1> USE Constants DEF IInv, TypeOK, memory, shutdown, Goto, Places
<1>1. ASSUME NEW t \in Threads, alloc_thread_stack(t) PROVE TypeOK'
  <2>1. g_thread_stack_cursor' \in Addresses
    BY <1>1, NextTopValue DEF alloc_thread_stack
  <2> QED BY <1>1, <2>1 DEF alloc_thread_stack
<1>2. ASSUME NEW t \in Threads, DrawId(t) PROVE TypeOK'
  <2>1. g_thread_id_next' \in 1 .. MaxCreates + 1 /\ g_thread_id_next \in Ids
    BY <1>2 DEF DrawId, Ids
  <2>2. child' \in [Threads -> Threads]
    BY <1>2, <2>1 DEF DrawId, Threads
  <2> QED BY <1>2, <2>1, <2>2 DEF DrawId
<1>3. ASSUME NEW t \in Threads, CreateThread(t) PROVE TypeOK'
  BY <1>3 DEF CreateThread
<1>4. ASSUME NEW t \in Threads, CreateThreadFails(t) PROVE TypeOK'
  BY <1>4 DEF CreateThreadFails
<1>5. ASSUME NEW t \in Threads, thread_table_add(t) PROVE TypeOK'
  <2>1. PICK id \in ThreadIdRead(child[t]) :
          table' = IF TableHasRoom THEN Append(table, [id |-> id, handle |-> child[t]])
                   ELSE table
    BY <1>5 DEF thread_table_add
  <2>2. child[t] \in Ids /\ id \in Threads
    BY <1>5 DEF thread_table_add, CreatorsKnowChild, ThreadIdRead, Threads, Ids, Main
  <2>3. [id |-> id, handle |-> child[t]] \in Entries
    BY <2>2 DEF Entries
  <2>4. table' \in Seq(Entries) /\ Len(table') <= MAX_THREADS
    BY <2>1, <2>3 DEF TableHasRoom
  <2> QED BY <1>5, <2>4 DEF thread_table_add
<1>6. ASSUME NEW t \in Threads, ExitThread(t) PROVE TypeOK'
  BY <1>6 DEF ExitThread
<1>7. ASSUME NEW t \in Threads, BeginJoin(t) PROVE TypeOK'
  BY <1>7, EntryHandle DEF BeginJoin
<1>8. ASSUME NEW t \in Threads, EndJoin(t) PROVE TypeOK'
  BY <1>8 DEF EndJoin
<1>9. ASSUME NEW t \in Ids, StartThread(t) PROVE TypeOK'
  BY <1>9 DEF StartThread, Threads
<1>10. CASE thread_runtime_join_all
  <2>1. Snapshot \subseteq Ids
    BY EntryHandle DEF Snapshot, HandlesInTable
  <2> QED BY <1>10, <2>1 DEF thread_runtime_join_all, SignalExit
<1>11. CASE vm_shutdown
  BY <1>11 DEF vm_shutdown
<1>12. CASE UNCHANGED vars
  BY <1>12 DEF vars
<1> QED BY <1>1, <1>2, <1>3, <1>4, <1>5, <1>6, <1>7, <1>8, <1>9, <1>10, <1>11, <1>12
        DEF Next
-----------------------------------------------------------------------------
LEMMA CreatorsStep == IInv /\ [Next]_vars => CreatorsKnowChild'
<1> SUFFICES ASSUME IInv, [Next]_vars PROVE CreatorsKnowChild'
  OBVIOUS
<1> USE Constants DEF IInv, TypeOK, CreatorsKnowChild, memory, shutdown, Goto, Created, Drawn
<1>1. ASSUME NEW t \in Threads, alloc_thread_stack(t) PROVE CreatorsKnowChild'
  BY <1>1 DEF alloc_thread_stack, Threads, Main
<1>2. ASSUME NEW t \in Threads, DrawId(t) PROVE CreatorsKnowChild'
  BY <1>2 DEF DrawId, Threads, Ids, Main
<1>3. ASSUME NEW t \in Threads, CreateThread(t) PROVE CreatorsKnowChild'
  BY <1>3 DEF CreateThread, Threads, Ids, Main
<1>4. ASSUME NEW t \in Threads, CreateThreadFails(t) PROVE CreatorsKnowChild'
  BY <1>4 DEF CreateThreadFails, Threads, Ids, Main
<1>5. ASSUME NEW t \in Threads, thread_table_add(t) PROVE CreatorsKnowChild'
  BY <1>5 DEF thread_table_add, Threads, Ids, Main
<1>6. ASSUME NEW t \in Threads, ExitThread(t) PROVE CreatorsKnowChild'
  BY <1>6 DEF ExitThread, Threads, Ids, Main
<1>7. ASSUME NEW t \in Threads, BeginJoin(t) PROVE CreatorsKnowChild'
  BY <1>7 DEF BeginJoin, Threads, Ids, Main
<1>8. ASSUME NEW t \in Threads, EndJoin(t) PROVE CreatorsKnowChild'
  BY <1>8 DEF EndJoin, Threads, Ids, Main
<1>9. ASSUME NEW t \in Ids, StartThread(t) PROVE CreatorsKnowChild'
  BY <1>9 DEF StartThread, Threads, Ids, Main
<1>10. CASE thread_runtime_join_all
  BY <1>10 DEF thread_runtime_join_all, Threads, Ids, Main
<1>11. CASE vm_shutdown
  BY <1>11 DEF vm_shutdown, Threads, Ids, Main
<1>12. CASE UNCHANGED vars
  BY <1>12 DEF vars
<1> QED BY <1>1, <1>2, <1>3, <1>4, <1>5, <1>6, <1>7, <1>8, <1>9, <1>10, <1>11, <1>12
        DEF Next
-----------------------------------------------------------------------------
LEMMA StacksStep == IInv /\ [Next]_vars => StacksCarved'
<1> SUFFICES ASSUME IInv, [Next]_vars PROVE StacksCarved'
  OBVIOUS
<1> USE Constants DEF IInv, TypeOK, StacksCarved, AboveCursor, Apart, Drawn, Addresses,
                       memory
<1>1. ASSUME NEW t \in Threads, alloc_thread_stack(t) PROVE StacksCarved'
  <2>1. g_thread_stack_cursor' = g_thread_stack_cursor - THREAD_STACK_SIZE
    BY <1>1, NextTopValue DEF alloc_thread_stack
  <2>2. CASE carved' = [carved EXCEPT ![t] = g_thread_stack_cursor] /\ Goto(t, "carved")
    BY <1>1, <2>1, <2>2 DEF alloc_thread_stack, Goto
  <2>3. CASE UNCHANGED <<carved, pc>>
    BY <1>1, <2>1, <2>3 DEF alloc_thread_stack
  <2> QED BY <1>1, <2>2, <2>3 DEF alloc_thread_stack
<1>2. ASSUME NEW t \in Threads, DrawId(t) PROVE StacksCarved'
  BY SMTT(30), <1>2 DEF DrawId, Goto, Ids
\* No other step carves a stack or draws an id, and none makes a creator "carved".
<1>3. ASSUME UNCHANGED <<memory, g_thread_id_next>>,
             \A p \in Threads : pc'[p] = "carved" => pc[p] = "carved"
      PROVE  StacksCarved'
  BY <1>3
<1>4. ASSUME NEW t \in Threads,
             CreateThread(t) \/ CreateThreadFails(t) \/ thread_table_add(t)
               \/ ExitThread(t) \/ BeginJoin(t) \/ EndJoin(t)
      PROVE  StacksCarved'
  BY <1>3, <1>4 DEF CreateThread, CreateThreadFails, thread_table_add, ExitThread,
                    BeginJoin, EndJoin, Goto
<1>5. ASSUME NEW t \in Ids, StartThread(t) PROVE StacksCarved'
  BY <1>3, <1>5 DEF StartThread, Goto
<1>6. CASE thread_runtime_join_all \/ vm_shutdown \/ UNCHANGED vars
  BY <1>3, <1>6 DEF thread_runtime_join_all, vm_shutdown, Goto, vars
<1> QED BY <1>1, <1>2, <1>4, <1>5, <1>6 DEF Next
-----------------------------------------------------------------------------
\* Appending keeps the handles and adds the new one.
LEMMA AppendedHandles ==
  ASSUME TypeOK, NEW e \in Entries, table' = Append(table, e)
  PROVE  HandlesInTable' = HandlesInTable \cup {e.handle}
<1>1. /\ Len(table') = Len(table) + 1 /\ Len(table) \in Nat
      /\ \A k \in 1 .. Len(table) : table'[k] = table[k]
      /\ table'[Len(table) + 1] = e
  BY DEF TypeOK
<1> QED BY <1>1 DEF HandlesInTable

LEMMA HandlesStep == IInv /\ [Next]_vars => HandleKept'
<1> SUFFICES ASSUME IInv, [Next]_vars PROVE HandleKept'
  OBVIOUS
<1> USE Constants DEF IInv, TypeOK, HandleKept, memory, shutdown, Goto, Created
<1>1. UNCHANGED table => HandlesInTable' = HandlesInTable
  BY DEF HandlesInTable
<1>2. ASSUME NEW t \in Threads, alloc_thread_stack(t) PROVE HandleKept'
  BY <1>1, <1>2 DEF alloc_thread_stack, Threads
<1>3. ASSUME NEW t \in Threads, DrawId(t) PROVE HandleKept'
  BY <1>1, <1>3 DEF DrawId, Threads
<1>4. ASSUME NEW t \in Threads, CreateThread(t) PROVE HandleKept'
  <2>1. child[t] \in Ids /\ child[t] # t
    BY <1>4 DEF CreateThread, CreatorsKnowChild
  <2>2. pc'[t] = "adding"
    BY <1>4, <2>1 DEF CreateThread
  <2>3. \A p \in Threads : pc[p] = "adding" => pc'[p] = "adding"
    BY <1>4, <2>1 DEF CreateThread, CreatorsKnowChild
  <2> QED BY <1>1, <1>4, <2>1, <2>2, <2>3 DEF CreateThread, Threads
<1>5. ASSUME NEW t \in Threads, CreateThreadFails(t) PROVE HandleKept'
  BY <1>1, <1>5 DEF CreateThreadFails, Threads
<1>6. ASSUME NEW t \in Threads, thread_table_add(t) PROVE HandleKept'
  <2>1. PICK id \in ThreadIdRead(child[t]) :
          table' = IF TableHasRoom THEN Append(table, [id |-> id, handle |-> child[t]])
                   ELSE table
    BY <1>6 DEF thread_table_add
  <2>2. child[t] \in Ids /\ id \in Threads
    BY <1>6 DEF thread_table_add, CreatorsKnowChild, ThreadIdRead, Threads, Ids, Main
  <2>3. CASE TableHasRoom
    <3>1. HandlesInTable' = HandlesInTable \cup {child[t]}
      BY <2>1, <2>2, <2>3, AppendedHandles DEF Entries
    <3>2. ASSUME NEW s \in Ids, Created(s) PROVE s \in HandlesInTable'
                 \/ \E p \in Threads : pc'[p] = "adding" /\ child'[p] = s
      BY <1>6, <2>3, <3>1, <3>2 DEF thread_table_add, TableHasRoom
    <3> QED BY <1>6, <3>2 DEF thread_table_add, Threads
  <2>4. CASE ~TableHasRoom
    <3>1. table' = table /\ Len(table) >= MAX_THREADS
      BY <2>1, <2>4 DEF TableHasRoom
    <3> QED BY <3>1
  <2> QED BY <2>3, <2>4
<1>7. ASSUME NEW t \in Threads, ExitThread(t) \/ BeginJoin(t) \/ EndJoin(t)
      PROVE  HandleKept'
  BY <1>1, <1>7 DEF ExitThread, BeginJoin, EndJoin, Threads
<1>8. ASSUME NEW t \in Ids, StartThread(t) PROVE HandleKept'
  BY <1>1, <1>8 DEF StartThread, Threads
<1>9. CASE thread_runtime_join_all \/ vm_shutdown
  BY <1>1, <1>9 DEF thread_runtime_join_all, vm_shutdown, Threads, Ids, Main
<1>10. CASE UNCHANGED vars
  BY <1>1, <1>10 DEF vars
<1> QED BY <1>2, <1>3, <1>4, <1>5, <1>6, <1>7, <1>8, <1>9, <1>10 DEF Next
-----------------------------------------------------------------------------
LEMMA FiledOnceStep == IInv /\ [Next]_vars => FiledOnce'
<1> SUFFICES ASSUME IInv, [Next]_vars PROVE FiledOnce'
  OBVIOUS
<1> USE DEF IInv, TypeOK, FiledOnce, memory, shutdown, Goto, Created, Filed
<1>1. UNCHANGED table => HandlesInTable' = HandlesInTable /\ Len(table') = Len(table)
  BY DEF HandlesInTable
<1>2. ASSUME NEW t \in Threads, CreateThread(t) PROVE FiledOnce'
  <2>1. child[t] \in Ids /\ pc[child[t]] = "none"
    BY <1>2 DEF CreateThread, CreatorsKnowChild
  <2> QED BY <1>1, <1>2, <2>1 DEF CreateThread, Threads
<1>3. ASSUME NEW t \in Threads, thread_table_add(t) PROVE FiledOnce'
  <2>1. PICK id \in ThreadIdRead(child[t]) :
          table' = IF TableHasRoom THEN Append(table, [id |-> id, handle |-> child[t]])
                   ELSE table
    BY <1>3 DEF thread_table_add
  <2>2. child[t] \in Ids /\ id \in Threads
    BY <1>3 DEF thread_table_add, CreatorsKnowChild, ThreadIdRead, Threads, Ids, Main
  <2>3. pc[child[t]] # "none" /\ child[t] \notin HandlesInTable
    BY <1>3, <2>2 DEF thread_table_add, CreatorsKnowChild
  <2>4. CASE TableHasRoom
    <3>1. HandlesInTable' = HandlesInTable \cup {child[t]} /\ Len(table') = Len(table) + 1
      BY SMTT(30), <2>1, <2>2, <2>4, AppendedHandles DEF Entries
    <3>2. IsFiniteSet(HandlesInTable') /\ Cardinality(HandlesInTable') = Len(table')
      <4>1. /\ IsFiniteSet(HandlesInTable \cup {child[t]})
            /\ Cardinality(HandlesInTable \cup {child[t]}) = Cardinality(HandlesInTable) + 1
        BY <2>3, FS_AddElement
      <4> QED BY <3>1, <4>1
    <3> QED BY <1>3, <2>2, <2>3, <3>1, <3>2 DEF thread_table_add
  <2>5. CASE ~TableHasRoom
    BY <1>1, <1>3, <2>1, <2>5 DEF thread_table_add
  <2> QED BY <2>4, <2>5
<1>4. ASSUME NEW t \in Threads, DrawId(t) PROVE FiledOnce'
  BY <1>1, <1>4 DEF DrawId, Threads
<1>5. ASSUME NEW t \in Threads,
             alloc_thread_stack(t) \/ CreateThreadFails(t) \/ ExitThread(t)
               \/ BeginJoin(t) \/ EndJoin(t)
      PROVE  FiledOnce'
  <2>1. UNCHANGED <<table, child>>
    BY <1>5 DEF alloc_thread_stack, CreateThreadFails, ExitThread, BeginJoin, EndJoin
  <2>2. \A p \in Threads : /\ pc'[p] = "adding" <=> pc[p] = "adding"
                           /\ pc'[p] = "none" <=> pc[p] = "none"
    BY <1>5 DEF alloc_thread_stack, CreateThreadFails, ExitThread, BeginJoin, EndJoin
  <2> QED BY <1>1, <2>1, <2>2 DEF Threads
<1>6. ASSUME NEW t \in Ids, StartThread(t) PROVE FiledOnce'
  BY <1>1, <1>6 DEF StartThread, Threads
<1>7. CASE thread_runtime_join_all \/ vm_shutdown
  <2>1. UNCHANGED <<table, child>>
    BY <1>7 DEF thread_runtime_join_all, vm_shutdown
  <2>2. \A p \in Threads : /\ pc'[p] = "adding" <=> pc[p] = "adding"
                           /\ pc'[p] = "none" <=> pc[p] = "none"
    BY <1>7 DEF thread_runtime_join_all, vm_shutdown, Threads, Ids, Main
  <2> QED BY <1>1, <2>1, <2>2 DEF Threads
<1>8. CASE UNCHANGED vars
  BY <1>1, <1>8 DEF vars
<1> QED BY <1>2, <1>3, <1>4, <1>5, <1>6, <1>7, <1>8 DEF Next
-----------------------------------------------------------------------------
\* A thread that is filed but not in the table found it full, so the filed threads
\* outnumber its entries.
LEMMA SnapshotMissesNone ==
  ASSUME IInv, Cardinality({t \in Ids : Filed(t)}) <= MAX_THREADS
  PROVE  {t \in Ids : Filed(t)} \subseteq HandlesInTable
<1> DEFINE F == {t \in Ids : Filed(t)}
<1> SUFFICES ASSUME NEW t \in F, t \notin HandlesInTable PROVE FALSE
  OBVIOUS
<1>1. Len(table) = MAX_THREADS
  BY DEF IInv, HandleKept, Filed
<1>2. IsFiniteSet(HandlesInTable) /\ Cardinality(HandlesInTable) = MAX_THREADS
  BY <1>1 DEF IInv, FiledOnce
<1>3. Cardinality(HandlesInTable \cup {t}) = MAX_THREADS + 1
  BY <1>2, FS_AddElement
<1>4. HandlesInTable \cup {t} \subseteq F
  BY DEF IInv, FiledOnce
<1>5. IsFiniteSet(F)
  <2>1. F \in SUBSET (1 .. MaxCreates)
    BY DEF Ids
  <2>2. IsFiniteSet(1 .. MaxCreates)
    BY Constants, FS_Interval
  <2> QED BY <2>1, <2>2, FS_Subset
<1>6. Cardinality(HandlesInTable \cup {t}) <= Cardinality(F)
  BY <1>4, <1>5, FS_Subset
<1>7. Cardinality(F) \in Nat
  BY <1>5, FS_CardinalityType
<1> HIDE DEF F
<1>8. Cardinality(F) <= MAX_THREADS
  BY DEF F
<1> QED BY <1>3, <1>6, <1>7, <1>8, Constants

LEMMA JoinedStep == IInv /\ [Next]_vars => Joined'
<1> SUFFICES ASSUME IInv, [Next]_vars PROVE Joined'
  OBVIOUS
<1> USE DEF IInv, TypeOK, Joined, SettledWaitedFor, WaitedForExited, memory, shutdown, Goto,
            Threads, Ids, Main
\* A thread that has exited stays so.
<1>1. \A h \in Ids : pc[h] = "exited" => pc'[h] = "exited"
  BY SMTT(30) DEF Next, vars, alloc_thread_stack, DrawId, CreateThread, CreateThreadFails,
         thread_table_add, ExitThread, BeginJoin, EndJoin, StartThread,
         thread_runtime_join_all, vm_shutdown, CreatorsKnowChild
<1>2. CASE vm_shutdown
  BY <1>2 DEF vm_shutdown, AllExited
<1>3. CASE thread_runtime_join_all
  BY <1>3, SnapshotMissesNone DEF thread_runtime_join_all, Snapshot
<1>4. CASE ~vm_shutdown /\ ~thread_runtime_join_all
  <2>1. /\ pc'[Main] \in {"join_all", "down"} =>
             pc'[Main] = pc[Main] /\ waiting'[Main] = waiting[Main]
        /\ settled' = settled
    BY <1>4 DEF Next, vars, alloc_thread_stack, DrawId, CreateThread, CreateThreadFails,
         thread_table_add, ExitThread, BeginJoin, EndJoin, StartThread, CreatorsKnowChild
  <2> QED BY <1>1, <2>1
<1> QED BY <1>2, <1>3, <1>4

LEMMA Invariance == Spec => []IInv
<1>1. IInv /\ [Next]_vars => IInv'
  BY TypeStep, CreatorsStep, StacksStep, HandlesStep, FiledOnceStep,
     JoinedStep DEF IInv
<1> QED BY InitIInv, <1>1, PTL DEF Spec
-----------------------------------------------------------------------------
\* The thread runtime keeps its types: the stack cursor never wraps above the floor,
\* and what the table holds are handles of created threads.
THEOREM TypeCorrect == Spec => []TypeOK
<1>1. IInv => TypeOK
  BY DEF IInv
<1> QED BY Invariance, <1>1, PTL

\* No two threads ever share a stack, in whatever order creators carve stacks, draw
\* ids and fail (runtime_glue.cpp:105-119, 1204-1223).
THEOREM StacksNeverOverlap == Spec => []StacksDisjoint
<1>1. IInv => StacksDisjoint
  BY Constants DEF IInv, TypeOK, CreatorsKnowChild, StacksCarved, StacksDisjoint, AboveCursor,
                   Drawn, Addresses
<1> QED BY Invariance, <1>1, PTL

\* No handle is lost while the table has room (runtime_glue.cpp:121-129, 1222-1230).
THEOREM HandlesAreKept == Spec => []HandleKept
<1>1. IInv => HandleKept
  BY DEF IInv
<1> QED BY Invariance, <1>1, PTL

\* Every thread whose create had returned when main() began to wait has exited when
\* guest memory is released, unless more were created than the table has entries
\* (runtime_glue.cpp:121-129, 302-315; main.cpp:574-577).
THEOREM ReleaseAfterSettled == Spec => []SettledThreadsExited
<1>1. IInv => SettledThreadsExited
  BY DEF IInv, Joined, SettledWaitedFor, WaitedForExited, SettledThreadsExited
<1> QED BY Invariance, <1>1, PTL
=============================================================================
