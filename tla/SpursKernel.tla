---------------------------- MODULE SpursKernel ----------------------------
(***************************************************************************)
(* The SPURS kernel of spu_spurs.cpp: one interpreted SPU program, run in  *)
(* a bounded burst by spurs_start on the main thread, then for ever by     *)
(* spurs_kernel_thread, and the workload program that it dispatches by     *)
(* stopping at one of the first words of its local store.                  *)
(*                                                                         *)
(* What the two SPU programs compute is data: spu_run leaves a context     *)
(* anywhere its program can take it.  Program counters are small numbers   *)
(* in the order of the landmarks the C code compares them with.            *)
(***************************************************************************)
EXTENDS Integers

CONSTANTS FIRST_SLOT, LAST_SLOT, \* pc after the stop of the first, the last slot
          ENTRY,                 \* where either ELF starts
          GEOMETRY,              \* 0x3100: workload code past the scheduler
          BSS,                   \* 0x20000
          IDLE,                  \* 0x20600
          LAST_PC,               \* bound: highest pc
          BURST,                 \* restarts of the diagnostic burst (200)
          TURNS                  \* restarts of a workload (20)

ASSUME SpursAssumption ==
  /\ FIRST_SLOT \in Nat /\ LAST_SLOT \in Nat /\ ENTRY \in Nat /\ GEOMETRY \in Nat
  /\ BSS \in Nat /\ IDLE \in Nat /\ LAST_PC \in Nat
  /\ 0 < FIRST_SLOT /\ FIRST_SLOT <= LAST_SLOT /\ LAST_SLOT < ENTRY
  /\ ENTRY < GEOMETRY /\ GEOMETRY < BSS /\ BSS < IDLE /\ IDLE <= LAST_PC
  /\ BURST \in Nat \ {0} /\ TURNS \in Nat \ {0}

Pcs       == 0 .. LAST_PC
Slots     == 0 .. (LAST_SLOT - FIRST_SLOT)
NoSlot    == -1
StopCodes == {"yield", "return", "edge", "halt"}  \* 0, 0x100, 0x3FFF, any other

\* What the loops below read of a spu_ctx_t.
Contexts == [running : BOOLEAN, stop_code : StopCodes, pc : Pcs]

VARIABLES phase,          \* where the kernel's owner is
          step,           \* and where in an iteration of its loop
          kernel,         \* g_spurs_ctx
          halt,           \* history: the instruction that stopped it
          restart,        \* iterations of the burst
          work,           \* g_wl_ctx
          serving,        \* the slot_idx of the call of spurs_run_workload
          turn,           \* its wl_restart
          edges,          \* history: its calls of rsx_process_edge
          g_threads_should_exit

workVars == <<work, serving, turn, edges>>
vars     == <<phase, step, kernel, halt, restart, workVars, g_threads_should_exit>>

Blank == [running |-> FALSE, stop_code |-> "yield", pc |-> 0]

Init == /\ phase = "none"
        /\ step = "check"
        /\ kernel = Blank
        /\ halt = "none"
        /\ restart = 0
        /\ work = Blank
        /\ serving = NoSlot
        /\ turn = 0
        /\ edges = 0
        /\ g_threads_should_exit = FALSE
-----------------------------------------------------------------------------
(***************************************************************************)
(* The interpreter, as far as its callers see it.                          *)
(***************************************************************************)

\* spu_load_elf resets neither stop_code nor the registers.
Loaded(c) == [c EXCEPT !.running = TRUE, !.pc = ENTRY]

Resumed(c) == [c EXCEPT !.running = TRUE]

\* spu_run: the instructions run out, or one of them clears running.  stop
\* leaves its code; rdch on an empty mailbox or signal, like iret, leaves the
\* code of an earlier stop, and nothing in the program fills a mailbox.
RunsOut(c) == {[c EXCEPT !.pc = p] : p \in Pcs}
Stops(c)   == {[running |-> FALSE, stop_code |-> s, pc |-> p] : s \in StopCodes, p \in Pcs}
Blocks(c)  == {[c EXCEPT !.running = FALSE, !.pc = p] : p \in Pcs}

AfterRun(c) == RunsOut(c) \cup Stops(c) \cup Blocks(c)
-----------------------------------------------------------------------------
SlotsOneShort == FIRST_SLOT .. LAST_SLOT - 1

\* The pc after a stop at LS[0x00], LS[0x04], ...: one for each slot.
SlotPcs    == FIRST_SLOT .. LAST_SLOT
Signals(c) == ~c.running /\ c.stop_code = "yield" /\ c.pc \in SlotPcs

EntryOf(c) == [c EXCEPT !.running = TRUE, !.pc = ENTRY]

\* Head of either loop, and the end of an iteration.
Iterating == \/ phase = "burst" /\ restart < BURST
             \/ phase = "thread" /\ ~g_threads_should_exit

Check     == step = "check" /\ Iterating
Continues(c) == kernel' = c /\ step' = "run" /\ UNCHANGED <<phase, halt, restart>>

RestartForever == restart
NextRestart    == restart + 1

\* break: the burst goes on to launch the thread, the thread returns.
LeavesResumed(c) == /\ kernel' = Resumed(c)
                    /\ phase' = IF phase = "burst" THEN "launch" ELSE "gone"
                    /\ UNCHANGED <<step, halt, restart>>
Leaves(c) == /\ kernel' = c
             /\ phase' = IF phase = "burst" THEN "launch" ELSE "gone"
             /\ UNCHANGED <<step, halt, restart>>
-----------------------------------------------------------------------------
\* spurs_start, when guest memory holds the kernel's ELF and when it does not.
StartKernel ==
  /\ phase = "none"
  /\ \/ phase' = "burst" /\ kernel' = Loaded(Blank)
     \/ phase' = "gone" /\ kernel' = Blank
  /\ UNCHANGED <<step, halt, restart, workVars, g_threads_should_exit>>

\* Code 0 at a slot: call spurs_run_workload, which gives up if there is no ELF.
Dispatch ==
  /\ Check /\ Signals(kernel)
  /\ serving' = kernel.pc - FIRST_SLOT
  /\ \/ step' = "serve" /\ work' = Loaded(work)
     \/ step' = "skip" /\ UNCHANGED work
  /\ UNCHANGED <<turn, edges, phase, kernel, halt, restart, g_threads_should_exit>>

\* Any other state of the kernel at the head of an iteration.
HandleKernel ==
  /\ Check /\ ~Signals(kernel)
  /\ LET stopped(code) == ~kernel.running /\ kernel.stop_code = code
         idle(where)   == stopped("yield") /\ kernel.pc >= where
         restarts      == stopped("return") \/ (phase = "thread" /\ idle(BSS))
         done          == phase = "burst" /\ idle(IDLE)
         halted        == stopped("edge") \/ stopped("halt")
     IN  \/ kernel.running /\ Continues(kernel)
         \/ restarts /\ Continues(EntryOf(kernel))
         \/ done /\ Leaves(Resumed(kernel))
         \/ halted /\ Leaves(kernel)
         \/ stopped("yield") /\ ~restarts /\ ~done /\ Continues(Resumed(kernel))
  /\ UNCHANGED <<workVars, g_threads_should_exit>>

\* spu_run of the kernel, and the next iteration.
RunKernel ==
  /\ step = "run"
  /\ \/ kernel' \in RunsOut(kernel) /\ halt' = "none"
     \/ kernel' \in Stops(kernel) /\ halt' = "stop"
     \/ kernel' \in Blocks(kernel) /\ halt' = "rdch"
  /\ step' = "check"
  /\ restart' = IF phase = "burst" THEN NextRestart ELSE restart
  /\ UNCHANGED <<phase, workVars, g_threads_should_exit>>
-----------------------------------------------------------------------------
(***************************************************************************)
(* spurs_run_workload.                                                     *)
(***************************************************************************)
\* rsx_process_edge after the loop, for slot 0 only.
LastRender(slot) == IF slot = 0 THEN 1 ELSE 0

\* How a turn leaves the context it ran to, and how often it renders.
Ends(c)    == ~c.running /\ \/ c.stop_code \in {"return", "halt"}
                            \/ c.stop_code = "yield" /\ c.pc >= BSS
                            \/ c.stop_code = "edge" /\ c.pc >= GEOMETRY
Renders(c) == IF ~c.running /\ c.stop_code = "edge" /\ c.pc >= GEOMETRY THEN 1 ELSE 0

\* A yield goes on; stop 0x3FFF of the scheduler is sent to the geometry processor.
NextTurn(c) == [c EXCEPT !.running = TRUE,
                         !.pc = IF ~c.running /\ c.stop_code = "edge" THEN GEOMETRY ELSE @]

TurnsForever == turn
TurnsDone    == turn + 1

WorkloadTurn ==
  /\ step = "serve"
  /\ turn < TURNS
  /\ \E c \in AfterRun(work) :
       /\ work' = IF Ends(c) THEN c ELSE NextTurn(c)
       /\ turn' = IF Ends(c) THEN TURNS ELSE TurnsDone
       /\ edges' = edges + Renders(c)
  /\ UNCHANGED <<phase, step, kernel, halt, restart, serving, g_threads_should_exit>>

FinishWorkload ==
  /\ step = "serve" /\ turn = TURNS
  /\ edges' = edges + LastRender(serving)
  /\ step' = "served" /\ turn' = 0
  /\ UNCHANGED <<phase, kernel, halt, restart, work, serving, g_threads_should_exit>>

\* The call returns, and the kernel goes on behind its stop.
EndDispatch ==
  /\ step \in {"served", "skip"}
  /\ Continues(Resumed(kernel))
  /\ serving' = NoSlot /\ edges' = 0
  /\ UNCHANGED <<work, turn, g_threads_should_exit>>
-----------------------------------------------------------------------------
\* The end of spurs_start: CreateThread, which may fail.
Launch ==
  /\ \/ phase = "launch"
     \/ phase = "burst" /\ step = "check" /\ restart = BURST
  /\ phase' \in {"thread", "gone"}
  /\ UNCHANGED <<step, kernel, halt, restart, workVars, g_threads_should_exit>>

\* The head of the thread's loop, once main has asked it to stop.
Exit ==
  /\ phase = "thread" /\ step = "check"
  /\ g_threads_should_exit
  /\ phase' = "gone"
  /\ UNCHANGED <<step, kernel, halt, restart, workVars, g_threads_should_exit>>

\* main runs the game once spurs_start is back, and sets the flag behind it.
SignalExit ==
  /\ phase \in {"thread", "gone"}
  /\ ~g_threads_should_exit
  /\ g_threads_should_exit' = TRUE
  /\ UNCHANGED <<phase, step, kernel, halt, restart, workVars>>

Owner == StartKernel \/ Dispatch \/ HandleKernel \/ RunKernel \/ WorkloadTurn
           \/ FinishWorkload \/ EndDispatch \/ Launch \/ Exit

Next == Owner \/ SignalExit

Spec == Init /\ [][Next]_vars

\* The thread that owns the kernel keeps running.
FairSpec == Spec /\ WF_vars(Owner)
-----------------------------------------------------------------------------
(***************************************************************************)
(* Properties.                                                             *)
(***************************************************************************)

\* The contexts stay inside the local store, and a slot is served only from
\* the call of the loop that saw its signal.
TypeOK ==
  /\ phase \in {"none", "burst", "launch", "thread", "gone"}
  /\ step \in {"check", "serve", "served", "skip", "run"}
  /\ halt \in {"none", "stop", "rdch"}
  /\ kernel \in Contexts /\ work \in Contexts
  /\ restart \in 0 .. BURST /\ turn \in 0 .. TURNS /\ edges \in 0 .. 2
  /\ serving \in Slots \cup {NoSlot}
  /\ serving # NoSlot <=> step \in {"serve", "served", "skip"}
  /\ g_threads_should_exit \in BOOLEAN

Resumes == ~kernel.running /\ kernel'.running

\* A kernel that stopped at the word of a slot to have its workload run goes
\* on only when spurs_run_workload was called for that very slot and, where
\* the workload could be loaded and the slot is 0, has drawn the sphere: in
\* the burst, in the thread and across the hand-over between them.
DispatchServed ==
  [][(Resumes /\ kernel.stop_code = "yield" /\ kernel.pc - FIRST_SLOT \in Slots)
       => /\ serving = kernel.pc - FIRST_SLOT
          /\ step = "served" /\ serving = 0 => edges > 0]_vars

\* A kernel that stopped with a code that is neither a yield nor a return is
\* never run again, by the burst or by the thread launched after it
\* ("Other stops = real halt, exit").
HaltIsFinal ==
  [][~kernel.running /\ kernel.stop_code \in {"edge", "halt"} => UNCHANGED kernel]_vars

\* spurs_start comes back to main, whatever the kernel and its workloads do:
\* the game does not start before it does.
StartReturns == (phase = "burst") ~> (phase \in {"thread", "gone"})

\* Once main sets g_threads_should_exit the kernel thread returns, even from
\* the middle of a workload.
ShutdownEnds == g_threads_should_exit ~> (phase = "gone")

\* What the comment of spurs_kernel_thread says of a restart that the stop code
\* 0x100 brings about: "stop-0x100 = kernel returned".
RestartFollowsReturn ==
  [][Resumes /\ phase = "thread" /\ kernel.stop_code = "return" => halt = "stop"]_vars
=============================================================================
