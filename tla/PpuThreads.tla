----------------------------- MODULE PpuThreads -----------------------------
(***************************************************************************)
(* The PPU thread runtime of runtime_glue.cpp: sys_ppu_thread_create,      *)
(* _join, _exit, the table of thread handles, the carving of guest stacks, *)
(* and the shutdown of main.cpp that waits for the table and then releases *)
(* guest memory.                                                           *)
(*                                                                         *)
(* A thread is named by the synthetic id its creator drew for it; 0 is the *)
(* main thread.  Addresses count 64 KB units: 0xCFFF0000 is 53247, and     *)
(* arithmetic wraps at AddressUnits as uint32_t does at 2^32 bytes.        *)
(***************************************************************************)
EXTENDS Integers, Sequences, FiniteSets

CONSTANTS MAX_THREADS,       \* entries of the handle table (64 in the code)
          AddressUnits,      \* size of the guest address space (2^16 units)
          StackCursor0,      \* first stack top (0xCFFF0000)
          THREAD_STACK_SIZE, \* 1 MB
          StackFloor,        \* bound: no stack is carved with the cursor below this
          MaxCreates,        \* bound on the thread ids drawn
          Stubs              \* threads whose entry is an idle loop of extra_funcs.cpp

ASSUME ThreadAssumption ==
  /\ MAX_THREADS \in Nat /\ MaxCreates \in Nat /\ AddressUnits \in Nat
  /\ THREAD_STACK_SIZE \in Nat \ {0}
  /\ StackCursor0 \in Nat /\ StackCursor0 < AddressUnits
  /\ StackFloor \in Nat /\ THREAD_STACK_SIZE <= StackFloor
  /\ Stubs \subseteq 1 .. MaxCreates

Addresses == 0 .. AddressUnits - 1
Ids     == 1 .. MaxCreates
Main    == 0
Threads == Ids \cup {Main}

VARIABLES g_thread_stack_cursor, g_thread_id_next,
          carved,    \* stack top a creator holds before it has drawn an id
          top,       \* stack top handed to each thread
          param,     \* its PpuThreadParam block: "none", "live" or "freed"
          table,     \* g_thread_ids / g_thread_handles, as records [id, handle]
          pc,        \* where each thread is
          child,     \* id of the thread a creator is creating
          waiting,   \* handles a joining thread waits for
          g_threads_should_exit,
          settled    \* history: threads whose create had returned at main's snapshot

memory == <<g_thread_stack_cursor, carved, top>>
shutdown == <<g_threads_should_exit, settled>>
vars == <<memory, g_thread_id_next, param, table, pc, child, waiting, shutdown>>

Init == /\ g_thread_stack_cursor = StackCursor0
        /\ g_thread_id_next = 1
        /\ carved = [t \in Threads |-> 0]
        /\ top = [t \in Ids |-> 0]
        /\ param = [t \in Ids |-> "none"]
        /\ table = <<>>
        /\ pc = [t \in Threads |-> IF t = Main THEN "run" ELSE "none"]
        /\ child = [t \in Threads |-> 0]
        /\ waiting = [t \in Threads |-> {}]
        /\ g_threads_should_exit = FALSE
        /\ settled = {}
-----------------------------------------------------------------------------
Goto(t, where) == pc' = [pc EXCEPT ![t] = where]

(***************************************************************************)
(* sys_ppu_thread_create.                                                  *)
(***************************************************************************)
NextTopOverlapping(a) == (a - THREAD_STACK_SIZE \div 2) % AddressUnits   \* mutant: half a stack
NextTop(a) == (a - THREAD_STACK_SIZE) % AddressUnits

\* Bound: every creator that holds a stack will find an id to draw.
IdsLeft == g_thread_id_next + Cardinality({q \in Threads : pc[q] = "carved"}) \in Ids

\* alloc_thread_stack: the cursor moves under g_thread_cs, then the pages below the
\* old cursor are committed.  When the commit fails the call returns -1 and the
\* carved range is lost.
alloc_thread_stack(p) ==
  /\ pc[p] = "run"
  /\ g_thread_stack_cursor >= StackFloor /\ IdsLeft
  /\ g_thread_stack_cursor' = NextTop(g_thread_stack_cursor)
  /\ \/ /\ carved' = [carved EXCEPT ![p] = g_thread_stack_cursor]
        /\ Goto(p, "carved")
     \/ UNCHANGED <<carved, pc>>
  /\ UNCHANGED <<top, g_thread_id_next, param, table, child, waiting, shutdown>>

\* malloc of the parameters; InterlockedIncrement draws the id, which is written
\* to the guest before the thread exists.
DrawId(p) ==
  /\ pc[p] = "carved"
  /\ g_thread_id_next \in Ids
  /\ top' = [top EXCEPT ![g_thread_id_next] = carved[p]]
  /\ param' = [param EXCEPT ![g_thread_id_next] = "live"]
  /\ child' = [child EXCEPT ![p] = g_thread_id_next]
  /\ g_thread_id_next' = g_thread_id_next + 1
  /\ Goto(p, "creating")
  /\ UNCHANGED <<g_thread_stack_cursor, carved, table, waiting, shutdown>>

\* CreateThread: the new thread may run from here on.
CreateThread(p) ==
  /\ pc[p] = "creating"
  /\ pc' = [pc EXCEPT ![p] = "adding", ![child[p]] = "ready"]
  /\ UNCHANGED <<memory, g_thread_id_next, param, table, child, waiting, shutdown>>

\* CreateThread fails: -1; the id stays drawn and written, the stack carved.
CreateThreadFails(p) ==
  /\ pc[p] = "creating"
  /\ param' = [param EXCEPT ![child[p]] = "freed"]
  /\ Goto(p, "run")
  /\ UNCHANGED <<memory, g_thread_id_next, table, child, waiting, shutdown>>

\* What tp->thread_id reads after CreateThread: the id, or anything once the new
\* thread has freed the block.
ThreadIdRead(t) == IF param[t] = "live" THEN {t} ELSE 0 .. MaxCreates

\* thread_table_add: a full table drops the handle without a word.
RoomNever == FALSE                        \* mutant: no handle is ever kept
TableHasRoom == Len(table) < MAX_THREADS

thread_table_add(p) ==
  /\ pc[p] = "adding"
  /\ \E id \in ThreadIdRead(child[p]) :
       table' = IF TableHasRoom THEN Append(table, [id |-> id, handle |-> child[p]])
                ELSE table
  /\ Goto(p, "run")
  /\ UNCHANGED <<memory, g_thread_id_next, param, child, waiting, shutdown>>

(***************************************************************************)
(* The life of a game thread.                                              *)
(***************************************************************************)
\* ppu_thread_proc copies its parameters, frees them, and runs the entry.  An
\* entry that does not resolve is a thread that runs nothing and exits.
StartThread(t) ==
  /\ pc[t] = "ready"
  /\ param' = [param EXCEPT ![t] = "freed"]
  /\ Goto(t, "run")
  /\ UNCHANGED <<memory, g_thread_id_next, table, child, waiting, shutdown>>

\* sys_ppu_thread_exit, or the entry returns; the idle loops of UpdateThread and
\* MixerChStrip leave only when they see g_threads_should_exit.
ExitThread(t) ==
  /\ t # Main
  /\ t \in Stubs => g_threads_should_exit
  /\ pc[t] = "run"
  /\ Goto(t, "exited")
  /\ UNCHANGED <<memory, g_thread_id_next, param, table, child, waiting, shutdown>>

\* thread_table_find: the handle of the first entry with this id.
FoundAt(k, id) == /\ table[k].id = id
                  /\ \A j \in 1 .. k - 1 : table[j].id # id

\* sys_ppu_thread_join of an id drawn by some create: waits for the handle found;
\* an unknown id returns CELL_OK at once.
BeginJoin(t) ==
  /\ pc[t] = "run"
  /\ \E id \in 1 .. g_thread_id_next - 1, k \in 1 .. Len(table) :
       /\ FoundAt(k, id)
       /\ waiting' = [waiting EXCEPT ![t] = {table[k].handle}]
  /\ Goto(t, "joining")
  /\ UNCHANGED <<memory, g_thread_id_next, param, table, child, shutdown>>

AllExited(t) == \A h \in waiting[t] : pc[h] = "exited"

EndJoin(t) ==
  /\ pc[t] = "joining"
  /\ AllExited(t)
  /\ waiting' = [waiting EXCEPT ![t] = {}]
  /\ Goto(t, "run")
  /\ UNCHANGED <<memory, g_thread_id_next, param, table, child, shutdown>>

(***************************************************************************)
(* The end of main(): by return of the entry point or by the longjmp of    *)
(* sys_process_exit, the same three steps.                                 *)
(***************************************************************************)
HandlesInTable == {table[k].handle : k \in 1 .. Len(table)}

SnapshotOneMore == HandlesInTable \cup {0}  \* mutant: i <= n copies the NULL slot too
SnapshotOneShort ==                         \* mutant: i < n - 1 forgets the newest
  {table[k].handle : k \in 1 .. Len(table) - 1}
Snapshot == HandlesInTable

NoSignal == UNCHANGED g_threads_should_exit      \* mutant: the stubs are not told
SignalExit == g_threads_should_exit' = TRUE

Created(t) == pc[t] # "none"
\* A thread whose handle is not being filed any more: sys_ppu_thread_create is done.
Filed(t) == Created(t) /\ \A p \in Threads : ~(pc[p] = "adding" /\ child[p] = t)

\* g_threads_should_exit = true, and the snapshot of thread_runtime_join_all.
thread_runtime_join_all ==
  /\ pc[Main] = "run"
  /\ SignalExit
  /\ waiting' = [waiting EXCEPT ![Main] = Snapshot]
  /\ settled' = {t \in Ids : Filed(t)}
  /\ Goto(Main, "join_all")
  /\ UNCHANGED <<memory, g_thread_id_next, param, table, child>>

\* WaitForMultipleObjects returns and vm_shutdown releases guest memory.
vm_shutdown ==
  /\ pc[Main] = "join_all"
  /\ AllExited(Main)
  /\ Goto(Main, "down")
  /\ UNCHANGED <<memory, g_thread_id_next, param, table, child, waiting, shutdown>>

Next == \/ \E t \in Threads :
             \/ alloc_thread_stack(t) \/ DrawId(t)
             \/ CreateThread(t) \/ CreateThreadFails(t) \/ thread_table_add(t)
             \/ ExitThread(t) \/ BeginJoin(t) \/ EndJoin(t)
        \/ \E t \in Ids : StartThread(t)
        \/ thread_runtime_join_all
        \/ vm_shutdown

Spec == Init /\ [][Next]_vars

\* The operating system schedules every thread; a thread that may return, does, even
\* if it joins others first; the waits for handles return once they are signalled.
FairSpec ==
  /\ Spec
  /\ \A t \in Threads : /\ WF_vars(DrawId(t)) /\ WF_vars(CreateThread(t))
                        /\ WF_vars(thread_table_add(t)) /\ WF_vars(EndJoin(t))
                        /\ SF_vars(ExitThread(t))
  /\ \A t \in Ids : WF_vars(StartThread(t))
  /\ WF_vars(vm_shutdown)
-----------------------------------------------------------------------------
Places == {"none", "ready", "run", "carved", "creating", "adding", "joining", "exited",
           "join_all", "down"}
Entries == [id : Threads, handle : Ids]

\* Types of the runtime's state.
TypeOK == /\ g_thread_stack_cursor \in Addresses
          /\ g_thread_id_next \in 1 .. MaxCreates + 1
          /\ carved \in [Threads -> Addresses]
          /\ top \in [Ids -> Addresses]
          /\ param \in [Ids -> {"none", "live", "freed"}]
          /\ table \in Seq(Entries) /\ Len(table) <= MAX_THREADS
          /\ pc \in [Threads -> Places]
          /\ child \in [Threads -> Threads]
          /\ waiting \in [Threads -> SUBSET Ids]
          /\ g_threads_should_exit \in BOOLEAN
          /\ settled \in SUBSET Ids

Apart(a, b) == a + THREAD_STACK_SIZE <= b \/ b + THREAD_STACK_SIZE <= a

\* The stacks of any two threads are disjoint, and none reaches below address 0,
\* however creates interleave and fail (runtime_glue.cpp:105-119).
StacksDisjoint ==
  /\ \A t \in Ids : Created(t) => top[t] >= THREAD_STACK_SIZE
  /\ \A s, t \in Ids : s # t /\ Created(s) /\ Created(t) => Apart(top[s], top[t])

\* No handle is lost while the table has room: every thread that was started is in
\* the table or about to be put there by its one creator, whatever id was read for
\* it (runtime_glue.cpp:121-129, 1222-1230).
HandleKept ==
  \A t \in Ids : Created(t) =>
    \/ t \in HandlesInTable
    \/ \E p \in Threads : pc[p] = "adding" /\ child[p] = t
    \/ Len(table) = MAX_THREADS

\* If no more threads had been created than the table has entries, each of them has
\* exited when guest memory is released: what the fixed table costs is exactly the
\* threads beyond it, however their creates interleaved and whatever ids were read
\* for their handles (runtime_glue.cpp:121-129, 302-315; main.cpp:574-577).
SettledThreadsExited ==
  pc[Main] = "down" /\ Cardinality(settled) <= MAX_THREADS =>
    \A t \in settled : pc[t] = "exited"

\* What the comment above thread_runtime_join_all and the line it prints say: all
\* created game threads have finished when it returns (runtime_glue.cpp:301, 313).
AllThreadsFinished ==
  pc[Main] = "down" => \A t \in Ids : Created(t) => pc[t] = "exited"

\* Once main() waits for the threads of its table, the idle loops have been told to
\* leave and the process ends (extra_funcs.cpp:1004-1005, 1010, 1030;
\* main.cpp:574-577), provided the game joins no cycle of threads: each waits only
\* for older ones.
JoinsOlder == \A t \in Ids : \A h \in waiting[t] : h < t
ShutdownCompletes ==
  []JoinsOlder => (pc[Main] = "join_all" ~> pc[Main] = "down")
=============================================================================
