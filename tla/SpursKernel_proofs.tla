------------------------- MODULE SpursKernel_proofs -------------------------
(***************************************************************************)
(* Proofs about SpursKernel.  Both action properties speak of the moment   *)
(* the kernel is made to run again; what they need of the state before is  *)
(* where the loop stands (Serving): while a workload is served the kernel  *)
(* is still as it was when it gave the signal, and the call is for its     *)
(* slot; when the loop is about to call spu_run, the kernel runs already.  *)
(* The hand-over from the burst to the thread keeps all of it, since both  *)
(* loops share the context.                                                *)
(***************************************************************************)
EXTENDS SpursKernel, TLAPS

AtWork == {"serve", "served", "skip"}

\* How far the call of spurs_run_workload has come.
Counts == /\ step = "serve" => /\ turn < TURNS => edges = 0
                               /\ edges \in 0 .. 1
          /\ step = "served" /\ serving = 0 => edges > 0
          /\ step # "serve" => turn = 0
          /\ step \notin {"serve", "served"} => edges = 0

Serving == /\ step \in AtWork => Signals(kernel) /\ serving = kernel.pc - FIRST_SLOT
           /\ step = "run" => kernel.running
           /\ step # "check" => phase \in {"burst", "thread"}
           /\ step # "check" /\ phase = "burst" => restart < BURST
           /\ phase = "none" => kernel = Blank

IInv == TypeOK /\ Counts /\ Serving

-----------------------------------------------------------------------------
\* A context with its program counter, or its running flag, set is a context.
LEMMA ContextFields ==
  ASSUME NEW c \in Contexts
  PROVE  c.running \in BOOLEAN /\ c.stop_code \in StopCodes /\ c.pc \in Pcs
  BY Zenon DEF Contexts

LEMMA ContextEdits ==
  ASSUME NEW c \in Contexts, NEW p \in Pcs, NEW q \in BOOLEAN
  PROVE  /\ [c EXCEPT !.pc = p] \in Contexts
         /\ [c EXCEPT !.running = q, !.pc = p] \in Contexts
         /\ [c EXCEPT !.running = q] \in Contexts
         /\ [c EXCEPT !.running = q, !.pc = p].running = q
         /\ [c EXCEPT !.running = q].running = q
<1>1. [c EXCEPT !.pc = p] \in Contexts
  BY Zenon DEF Contexts
<1>2. [c EXCEPT !.running = q, !.pc = p] \in Contexts
  BY Zenon DEF Contexts
<1>3. [c EXCEPT !.running = q] \in Contexts
  BY Zenon DEF Contexts
<1>4. [c EXCEPT !.running = q, !.pc = p].running = q
  BY Zenon DEF Contexts
<1>5. [c EXCEPT !.running = q].running = q
  BY Zenon DEF Contexts
<1> QED BY <1>1, <1>2, <1>3, <1>4, <1>5

\* What spu_run can leave is a context again.
LEMMA RunsAreContexts ==
  ASSUME NEW c \in Contexts
  PROVE  /\ RunsOut(c) \subseteq Contexts /\ Stops(c) \subseteq Contexts
         /\ Blocks(c) \subseteq Contexts
<1>1. RunsOut(c) \subseteq Contexts
  <2> SUFFICES ASSUME NEW p \in Pcs PROVE [c EXCEPT !.pc = p] \in Contexts
    BY Zenon DEF RunsOut
  <2> QED BY ContextEdits, Zenon
<1>2. Stops(c) \subseteq Contexts
  <2> SUFFICES ASSUME NEW x \in Stops(c) PROVE x \in Contexts
    OBVIOUS
  <2>1. PICK t \in StopCodes, p \in Pcs : x = [running |-> FALSE, stop_code |-> t, pc |-> p]
    BY DEF Stops
  <2>2. FALSE \in BOOLEAN
    BY Zenon
  <2> QED BY <2>1, <2>2, Zenon DEF Contexts
<1>3. Blocks(c) \subseteq Contexts
  <2> SUFFICES ASSUME NEW x \in Blocks(c) PROVE x \in Contexts
    OBVIOUS
  <2>1. PICK p \in Pcs : x = [c EXCEPT !.running = FALSE, !.pc = p]
    BY Zenon DEF Blocks
  <2>2. FALSE \in BOOLEAN
    BY Zenon
  <2> QED BY <2>1, <2>2, ContextEdits, Zenon
<1> QED BY <1>1, <1>2, <1>3

LEMMA EditsAreContexts ==
  ASSUME NEW c \in Contexts
  PROVE  /\ Loaded(c) \in Contexts /\ Loaded(c).running
         /\ Resumed(c) \in Contexts /\ Resumed(c).running
         /\ EntryOf(c) \in Contexts /\ EntryOf(c).running
         /\ NextTurn(c) \in Contexts /\ Blank \in Contexts
<1>1. ENTRY \in Pcs /\ GEOMETRY \in Pcs /\ 0 \in Pcs
  BY SpursAssumption DEF Pcs
<1>2. Loaded(c) \in Contexts /\ Loaded(c).running
  BY <1>1, ContextEdits, Zenon DEF Loaded
<1>3. Resumed(c) \in Contexts /\ Resumed(c).running
  BY <1>1, ContextEdits, Zenon DEF Resumed
<1>4. EntryOf(c) \in Contexts /\ EntryOf(c).running
  BY <1>1, ContextEdits, Zenon DEF EntryOf
<1>5. NextTurn(c) \in Contexts
  <2> DEFINE p == IF ~c.running /\ c.stop_code = "edge" THEN GEOMETRY ELSE c.pc
  <2>1. p \in Pcs
    BY <1>1, ContextFields, Zenon
  <2>2. NextTurn(c) = [c EXCEPT !.running = TRUE, !.pc = p]
    BY Zenon DEF NextTurn
  <2> HIDE DEF p
  <2>3. [c EXCEPT !.running = TRUE, !.pc = p] \in Contexts
    BY <2>1, ContextEdits, Zenon
  <2> QED BY <2>2, <2>3
<1>6. Blank \in Contexts
  <2>1. FALSE \in BOOLEAN /\ "yield" \in StopCodes
    BY Zenon DEF StopCodes
  <2> QED BY <1>1, <2>1, Zenon DEF Blank, Contexts
<1> QED BY <1>2, <1>3, <1>4, <1>5, <1>6

USE SpursAssumption DEF Pcs, Slots, NoSlot, StopCodes, Contexts, AtWork

LEMMA InitIInv == Init => IInv
<1> SUFFICES ASSUME Init PROVE IInv
  OBVIOUS
<1>1. Blank \in Contexts /\ kernel = Blank /\ work = Blank
  <2>1. 0 \in Pcs
    OBVIOUS
  <2>2. Blank \in Contexts
    BY <2>1, Zenon DEF Blank
  <2> QED BY <2>2 DEF Init
<1>2. g_threads_should_exit \in BOOLEAN
  BY Zenon DEF Init
<1>3. /\ restart = 0 /\ turn = 0 /\ edges = 0 /\ serving = NoSlot
      /\ phase = "none" /\ step = "check" /\ halt = "none"
  BY DEF Init
<1>4. restart \in 0 .. BURST /\ turn \in 0 .. TURNS /\ edges \in 0 .. 2
  BY <1>3
<1>5. serving \in Slots \cup {NoSlot} /\ (serving # NoSlot <=> step \in {"serve", "served", "skip"})
  BY <1>3
<1>6. TypeOK
  BY <1>1, <1>2, <1>3, <1>4, <1>5 DEF TypeOK
<1> QED BY <1>1, <1>3, <1>6 DEF IInv, Counts, Serving, Signals

LEMMA NextIInv == IInv /\ [Next]_vars => IInv'
<1> SUFFICES ASSUME IInv, [Next]_vars PROVE IInv'
  OBVIOUS
<1>0. TypeOK /\ Counts /\ Serving /\ kernel \in Contexts /\ work \in Contexts
  BY DEF IInv, TypeOK
<1>1. CASE StartKernel
  <2>1. kernel' \in Contexts /\ step' = "check"
    BY <1>0, <1>1, EditsAreContexts DEF StartKernel, TypeOK, Serving
  <2> QED BY <1>0, <1>1, <2>1 DEF StartKernel, workVars, IInv, TypeOK, Counts, Serving
<1>2. CASE Dispatch
  <2>1. /\ step = "check" /\ Signals(kernel) /\ kernel' = kernel
        /\ step' \in {"serve", "skip"} /\ work' \in Contexts
        /\ serving' = kernel.pc - FIRST_SLOT
    BY <1>0, <1>2, EditsAreContexts DEF Dispatch, Check
  <2>2. serving' \in Slots
    BY <1>0, <2>1 DEF Signals, SlotPcs
  <2>3. phase \in {"burst", "thread"} /\ (phase = "burst" => restart < BURST)
    BY <1>2 DEF Dispatch, Check, Iterating
  <2>4. turn = 0 /\ edges = 0
    BY <1>0, <2>1 DEF Counts
  <2>5. UNCHANGED <<turn, edges, phase, halt, restart, g_threads_should_exit>>
    BY <1>2 DEF Dispatch
  <2>6. TypeOK'
    BY <1>0, <2>1, <2>2, <2>5 DEF TypeOK
  <2>7. Counts' /\ Serving'
    BY <1>0, <2>1, <2>3, <2>4, <2>5 DEF Counts, Serving, Signals
  <2> QED BY <2>6, <2>7 DEF IInv
<1>3. CASE HandleKernel
  <2>1. /\ step = "check" /\ Iterating
        /\ UNCHANGED <<halt, restart, work, serving, turn, edges, g_threads_should_exit>>
    BY <1>3 DEF HandleKernel, Check, Continues, Leaves, workVars
  <2>2. /\ phase \in {"burst", "thread"} /\ (phase = "burst" => restart < BURST)
    BY <2>1 DEF Iterating
  <2>3. /\ kernel' \in Contexts
        /\ \/ step' = "run" /\ kernel'.running /\ phase' = phase
           \/ step' = "check" /\ phase' \in {"launch", "gone"}
    BY <1>0, <1>3, <2>1, EditsAreContexts DEF HandleKernel, Continues, Leaves
  <2>4. TypeOK'
    BY <1>0, <2>1, <2>3 DEF TypeOK
  <2>5. Counts' /\ Serving'
    BY <1>0, <2>1, <2>2, <2>3 DEF TypeOK, Counts, Serving
  <2> QED BY <2>4, <2>5 DEF IInv
<1>4. CASE RunKernel
  <2>1. /\ step = "run" /\ step' = "check" /\ kernel' \in Contexts
        /\ halt' \in {"none", "stop", "rdch"} /\ phase' = phase
        /\ UNCHANGED <<work, serving, turn, edges, g_threads_should_exit>>
    BY <1>0, <1>4, RunsAreContexts DEF RunKernel, workVars
  <2>2. phase \in {"burst", "thread"} /\ restart' \in 0 .. BURST
    BY <1>0, <1>4, <2>1 DEF RunKernel, NextRestart, TypeOK, Serving
  <2>3. TypeOK'
    BY <1>0, <2>1, <2>2 DEF TypeOK
  <2>4. Counts' /\ Serving'
    BY <1>0, <2>1, <2>2 DEF Counts, Serving
  <2> QED BY <2>3, <2>4 DEF IInv
<1>5. CASE WorkloadTurn
  <2>1. /\ step = "serve" /\ turn < TURNS
        /\ UNCHANGED <<phase, step, kernel, halt, restart, serving, g_threads_should_exit>>
    BY <1>5 DEF WorkloadTurn
  <2>2. PICK c \in AfterRun(work) :
          /\ work' = IF Ends(c) THEN c ELSE NextTurn(c)
          /\ turn' = IF Ends(c) THEN TURNS ELSE TurnsDone
          /\ edges' = edges + Renders(c)
    BY <1>5 DEF WorkloadTurn
  <2>3. c \in Contexts
    BY <1>0, RunsAreContexts DEF AfterRun
  <2>4. work' \in Contexts
    BY <2>2, <2>3, EditsAreContexts
  <2>5. edges = 0 /\ turn \in 0 .. TURNS
    BY <1>0, <2>1 DEF Counts, TypeOK
  <2>6. Renders(c) \in 0 .. 1 /\ (~Ends(c) => Renders(c) = 0)
    BY DEF Renders, Ends
  <2>7. turn' \in 0 .. TURNS /\ edges' \in 0 .. 1 /\ (turn' < TURNS => edges' = 0)
    BY <2>1, <2>2, <2>5, <2>6 DEF TurnsDone
  <2>8. TypeOK'
    BY <1>0, <2>1, <2>4, <2>7 DEF TypeOK
  <2>9. Counts' /\ Serving'
    BY <1>0, <2>1, <2>7 DEF Counts, Serving, Signals
  <2> QED BY <2>8, <2>9 DEF IInv
<1>6. CASE FinishWorkload
  <2>1. /\ step = "serve" /\ step' = "served" /\ turn' = 0
        /\ edges' = edges + LastRender(serving) /\ edges \in 0 .. 1
        /\ UNCHANGED <<phase, kernel, halt, restart, work, serving, g_threads_should_exit>>
    BY <1>0, <1>6 DEF FinishWorkload, Counts
  <2>2. edges' \in 0 .. 2 /\ (serving = 0 => edges' > 0)
    BY <2>1 DEF LastRender
  <2>3. TypeOK'
    BY <1>0, <2>1, <2>2 DEF TypeOK
  <2>4. Counts' /\ Serving'
    BY <1>0, <2>1, <2>2 DEF Counts, Serving, Signals
  <2> QED BY <2>3, <2>4 DEF IInv
<1>7. CASE EndDispatch
  <2>1. /\ step \in {"served", "skip"} /\ step' = "run" /\ kernel' = Resumed(kernel)
        /\ serving' = NoSlot /\ edges' = 0
        /\ UNCHANGED <<phase, halt, restart, work, turn, g_threads_should_exit>>
    BY <1>7 DEF EndDispatch, Continues
  <2>2. kernel' \in Contexts /\ kernel'.running
    BY <1>0, <2>1, EditsAreContexts
  <2>3. TypeOK'
    BY <1>0, <2>1, <2>2 DEF TypeOK
  <2>4. Counts' /\ Serving'
    BY <1>0, <2>1, <2>2 DEF Counts, Serving
  <2> QED BY <2>3, <2>4 DEF IInv
<1>8. CASE Launch
  <2>1. /\ step = "check" /\ phase' \in {"thread", "gone"}
        /\ UNCHANGED <<step, kernel, halt, restart, work, serving, turn, edges,
                       g_threads_should_exit>>
    BY <1>0, <1>8 DEF Launch, workVars, Serving
  <2> QED BY <1>0, <2>1 DEF IInv, TypeOK, Counts, Serving
<1>9. CASE Exit
  BY <1>0, <1>9 DEF Exit, workVars, IInv, TypeOK, Counts, Serving
<1>10. CASE SignalExit
  BY <1>0, <1>10 DEF SignalExit, workVars, IInv, TypeOK, Counts, Serving, Signals
<1>11. CASE UNCHANGED vars
  BY <1>0, <1>11 DEF vars, workVars, IInv, TypeOK, Counts, Serving, Signals
<1> QED
  BY <1>1, <1>2, <1>3, <1>4, <1>5, <1>6, <1>7, <1>8, <1>9, <1>10, <1>11 DEF Next, Owner

LEMMA Invariance == Spec => []IInv
BY InitIInv, NextIInv, PTL DEF Spec

-----------------------------------------------------------------------------
\* Contexts, counters and slots stay in range in the burst, in the thread and in
\* the workload (spu_spurs.cpp:186-359, 427-488, 493-735).
THEOREM TypeCorrect == Spec => []TypeOK
<1>1. IInv => TypeOK
  BY DEF IInv
<1> QED BY <1>1, Invariance, PTL

\* A kernel that signalled a dispatch is resumed only behind the call for its slot,
\* for every number of slots, every bound of the burst and of a workload
\* (spu_spurs.cpp:441-452, 654-663).
THEOREM SignalsAreServed == Spec => DispatchServed
<1> DEFINE A == (Resumes /\ kernel.stop_code = "yield" /\ kernel.pc - FIRST_SLOT \in Slots)
                  => /\ serving = kernel.pc - FIRST_SLOT
                     /\ step = "served" /\ serving = 0 => edges > 0
<1>1. IInv /\ [Next]_vars => [A]_vars
  <2> SUFFICES ASSUME IInv, [Next]_vars, Resumes, kernel.stop_code = "yield",
                      kernel.pc - FIRST_SLOT \in Slots
               PROVE  /\ serving = kernel.pc - FIRST_SLOT
                      /\ step = "served" /\ serving = 0 => edges > 0
    OBVIOUS
  <2>1. TypeOK /\ Counts /\ Serving /\ kernel \in Contexts
    BY DEF IInv, TypeOK
  <2>2. Signals(kernel)
    BY <2>1 DEF Resumes, Signals, SlotPcs
  <2>3. kernel' # kernel /\ ~kernel.running /\ kernel.stop_code = "yield"
    BY DEF Resumes
  <2>4. CASE StartKernel
    BY <2>1, <2>2, <2>4 DEF StartKernel, Serving, Blank, Signals, SlotPcs
  <2>5. CASE EndDispatch
    BY <2>1, <2>5 DEF EndDispatch, Serving, Counts
  <2>6. CASE HandleKernel
    BY <2>2, <2>6 DEF HandleKernel
  <2>7. CASE RunKernel
    BY <2>1, <2>3, <2>7 DEF RunKernel, Serving
  <2> QED
    BY <2>3, <2>4, <2>5, <2>6, <2>7
       DEF Next, Owner, Dispatch, WorkloadTurn, FinishWorkload, Launch, Exit, SignalExit, vars
<1> QED BY <1>1, Invariance, PTL DEF Spec, DispatchServed

\* A kernel that stopped for good is never run again, neither by the burst nor by
\* the thread launched after it (spu_spurs.cpp:465-472, 703-732).
THEOREM HaltsAreFinal == Spec => HaltIsFinal
<1> DEFINE A == ~kernel.running /\ kernel.stop_code \in {"edge", "halt"} => UNCHANGED kernel
<1>1. IInv /\ [Next]_vars => [A]_vars
  <2> SUFFICES ASSUME IInv, [Next]_vars, ~kernel.running, kernel.stop_code \in {"edge", "halt"}
               PROVE  kernel' = kernel
    OBVIOUS
  <2>1. TypeOK /\ Serving /\ ~Signals(kernel)
    BY DEF IInv, Signals
  <2>2. CASE StartKernel
    BY <2>1, <2>2 DEF StartKernel, Serving, Blank
  <2>3. CASE EndDispatch
    BY <2>1, <2>3 DEF EndDispatch, Serving
  <2>4. CASE HandleKernel
    BY <2>4 DEF HandleKernel, Leaves
  <2>5. CASE RunKernel
    BY <2>1, <2>5 DEF RunKernel, Serving
  <2> QED
    BY <2>2, <2>3, <2>4, <2>5
       DEF Next, Owner, Dispatch, WorkloadTurn, FinishWorkload, Launch, Exit, SignalExit, vars
<1> QED BY <1>1, Invariance, PTL DEF Spec, HaltIsFinal
=============================================================================
