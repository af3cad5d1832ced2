# Verification of dbz-budokai-hd

The repository runs a PlayStation 3 game that was recompiled to C++ on Windows.
The recompiled functions are generated; what is written by hand, and what is
verified here, is the runtime around them: the emulation of the LV2 kernel
(threads, semaphores, mutexes, event queues), of the RSX graphics FIFO, and of
the SPURS kernel that runs on an interpreted SPU. Game code and generated code
appear only as callers that may do whatever the interface lets them do.

Every module is translated from the C++ source; line numbers in comments refer
to the files under `src/`. `PROJECT.json` maps each definition to its lines.

## 1. Inventory

| Component | State | Operations | Interacts with |
|---|---|---|---|
| **LV2 object pool** (`runtime_glue.cpp:200-285`) | `g_pool[512]`, `g_pool_cursor`, lock `g_pool_cs` | `pool_alloc`, `pool_get`, `pool_free` | every object with an id: semaphores, mutexes, condition variables, event queues, ports |
| **Event queues** (`:1550-1627`, `:1651-1674`) | ring `Lv2Evq` of 128 events under a critical section; a Windows semaphore | create, destroy, receive, tryreceive, send | game threads; ports route a send to a queue |
| **Event ports** (`:1629-1674`) | a port's queue id, in the pool | create, connect, destroy, send | pool, event queues |
| **PPU threads** (`:37-195`, `:301-316`, `:1169-1267`) | stack cursor, id counter, handle table, one parameter block per thread, `g_threads_should_exit` | create, start, exit, join; main's final join | `main.cpp` releases guest memory after the join; idle loops of `extra_funcs.cpp` poll the flag |
| **Lwmutex / lwcond** (`:287-299`, `:1416-1548`) | two maps from guest addresses to Windows objects, lock `g_lw_map_cs` | create, destroy, lock, trylock, unlock; wait, signal, signal_all, signal_to | game threads |
| **Semaphores, mutexes, condition variables by id** (`:1270-1413`) | the union in a pool slot | create, destroy, wait, post, lock, unlock, signal | pool |
| **RSX FIFO** (`:415-453`, `:585-640`, `:1094-1110`) | `g_rsx_get_ea`; the command buffer and GET/PUT in guest memory | the PUT write runs `rsx_process_fifo` | the game appends commands; `rsx_handle` is called per register write |
| **RSX draw state** (`:442-581`) | clear colour, vertex attributes, draw accumulators | `rsx_handle` | FIFO, rasterizer |
| **Software rasterizer** (`:640-1060`) | framebuffer, z-buffer, frame state | `frame_begin`, `edge_rasterize_triangles`, `rsx_process_edge` | called from a game thread (FIFO), the SPURS thread (workloads) and the render thread |
| **GCM control register** (`:1125-1150`) | put, get, ref in guest memory | `gcm_get_control_register`, `gcm_ctrl_advance_ref` | render thread advances, game polls for equality |
| **SPURS kernel** (`spu_spurs.cpp`) | `g_spurs_ctx`, `g_wl_ctx`, `g_spurs_started` | `spurs_start` (burst, launch), `spurs_kernel_thread`, `spurs_run_workload` | SPU interpreter, rasterizer, main |
| **SPU interpreter** (`spu_interp.cpp`) | registers, local store, channels, `running`, `stop_code`, `pc` | `spu_load_elf`, `spu_run`, `spu_step` (about 200 instructions), channel reads and writes, DMA | SPURS kernel |
| **Start-up, window, render threads** (`main.cpp`) | guest memory, window, framebuffer | load, patch, start threads, run, shut down | all |
| **Backgrounds, overlays, syscalls without state, trampolines, templates, lifter scripts** | — | — | — |

What is hard about them:

* *Concurrency.* Game threads are Windows threads. `pool_get` reads without the
  lock, lwmutex and event-queue calls look an object up, let go of the lock, and
  use what they found; the event queue takes its semaphore and its ring in two
  steps. `sys_ppu_thread_create` goes on using a block the new thread frees.
  A create publishes an object before it is filled in, a destroy closes it before its
  slot is free. Three threads draw into one framebuffer and share one z-buffer
  without a lock, while a fourth paints it.
* *Order.* The FIFO parser has to find command headers in a stream of headers,
  arguments, NOPs and jumps whose positions are sometimes offsets and sometimes
  addresses. A SPURS kernel signals a dispatch only by where it stopped.
* *Limits.* 511 ids handed out round robin, 128 events, 64 thread handles, a
  stack cursor that only goes down, bounded restarts of a burst and a workload.
* *Arithmetic.* The SPU interpreter computes with elements of three widths in
  registers kept in big-endian bytes; real code combines instructions so that one
  wrong mask or neighbour shows only for some operands.
* *Ending.* main waits without a timeout for threads that leave only when a flag
  is up, and then releases the memory they run on; the helpers that draw it does not
  wait for.
* *Failure.* Commits, `CreateThread` and full tables fail halfway through a call.

What makes each component correct, and which property says so:

| Component | Correct means | Property |
|---|---|---|
| Pool | only free ids are handed out, 0 only when none is left; no id comes twice while another one stays free, since the guest may still hold a freed one | `Refinement`, `RoundRobin`, `WaitingFirst` |
| Event queue | accepted events are delivered once and in order; whoever passed the semaphore finds an event; nobody sleeps on a queued event | `Refinement`, `ClaimsBacked`, `NoLostWakeup` |
| PPU threads | stacks are disjoint; handles are not lost while there is room; memory goes only after the threads whose creates had returned, up to as many as the table holds; shutdown ends | `StacksDisjoint`, `HandleKept`, `SettledThreadsExited`, `ShutdownCompletes` |
| Lwmutex, lwcond | one holder; no lost wakeup | `MutualExclusion`, `WaitersProceed` |
| RSX FIFO | exactly what is flushed is handled, in order, before GET says so; no argument is read as a header; the write returns | `ExactlyTheFlushed`, `HeadersOnly`, `FlushReturns` |
| SPURS | a dispatch signal is served before the kernel goes on; a halted kernel stays halted; start and shutdown end | `DispatchServed`, `HaltIsFinal`, `StartReturns`, `ShutdownEnds` |
| Objects by id, ports | nothing undefined happens unless the guest uses an object while it creates or destroys it; until then a wait that succeeds took a count, a mutex has one holder, a queue's counts match its events, also after ids and slots were reused by other kinds | `BrokenOnlyByMisuse`, `SemaphoreGrants`, `MutexExcludes`, `QueuesBacked` |
| Draw state | the triangles drawn are those of the ranges asked for | `DrawsTheBatch` |
| Rasterizer, window, render thread | no frame touches memory that is missing, deleted or released, outside four named races; an undisturbed frame shows its nearest fragment; no presented frame is lost | `DrawingSafe`, `NearestShown`, `NothingUnshown` |
| SPU channels, DMA | a program that reads memory, changes and writes it back changes just that; whoever asks for a message stops behind the question | `ChannelsServe` |
| SPU interpreter | the sequences that compilers build from several instructions compute two-word sums, products, shifts, rotations, lane masks, selections, scalar accesses and calls | `WideSums`, `WordProducts`, `QuadShifts`, `SignedMaximum`, `LaneMasks`, `ScalarAccess`, `SubroutineReturns`, `RotationsAgree` |
| Timeouts | a wait ends not before its time and soon after | theorems `TimeoutsAreKept`, `LongTimeoutsWrap` |

`PROJECT.json` lists the hazards line by line, also those no property covers yet.

## 2. Modules

| Module | Models | Kind |
|---|---|---|
| `IdAllocator` | what the pool promises: a set of live ids | abstract specification |
| `Lv2Pool` | the object pool | component |
| `EventFifo` | what an event queue promises: a bounded FIFO with claims | abstract specification |
| `EventQueue` | one event queue between creation and destruction | component |
| `PpuThreads` | create, start, exit, join, handle table, stacks, main's shutdown | component |
| `Lv2Objects` | creation and destruction of objects of all five kinds in the pool's slots | composition: extends `Lv2Pool` |
| `Lv2Calls` | the calls on them: semaphores, mutexes, condition variables, queues, ports | component, on `Lv2Objects` |
| `LwSync` | lwmutexes and lwconds | component |
| `LwMonitor` | waiters and notifiers that use one lwmutex and one lwcond | composition: a client of `LwSync` |
| `RsxFifo` | game, PUT write and FIFO parser | component |
| `RsxDraw` | the draw state behind the FIFO: arrays, batches of ranges | component |
| `RsxFrames` | game, SPURS and render thread that draw, the window thread that paints, main | composition: extends `RsxDraw` |
| `SpursKernel` | burst, kernel thread and workload over an SPU | component |
| `SpuStep` | the SPU's integer, shuffle, shift, memory and branch instructions | component |
| `SpuChannels` | channel instructions and DMA | component, on `SpuStep` |
| `SpuIdioms` | the instruction sequences SPU code is made of | composition: programs for `SpuStep` and `SpuChannels` |
| `Timeouts` | the timeouts of waits, in milliseconds cut to a DWORD | pure functions |
| `*_proofs` | proofs about the module they are named after | TLAPS |
| `MC*` | the instances TLC checks | TLC |

How state and actions correspond to the code:

**Lv2Pool.** `kind[id]` is `g_pool[id].kind`; slot 0 is never used, so it is left
out. `pool_alloc` and `pool_free` run under `g_pool_cs` and are one step each;
`pool_get` takes no lock but reads one word. What they return is kept in `ret` and `found`. `Probe(i)` is the index of the
search's i-th iteration, `FirstFree` its exit condition. `passed` is history: the
ids handed out while an id stayed free. The guest passes any id, also invalid ones.

**EventQueue.** `buf, head, tail, cnt` are the ring, `avail` is the semaphore's
count. A receive call is three steps: the call, the end of the wait (which takes a
count), and the dequeue under the critical section; between them any other thread
runs. A timeout is a step of its own that is possible only while the count is 0.
The 32-byte event is the number of its send.

**PpuThreads.** One thread of the model is one drawn thread id. A create is four
steps — carve the stack, draw the id, `CreateThread`, file the handle — because
other threads, the new one among them, run in between; the commit and
`CreateThread` may fail. `ThreadIdRead` is the read of `tp->thread_id` after
`CreateThread`: the id, or anything once the new thread has freed the block.
Addresses count 64 KB units and wrap like `uint32_t`. Both ends of `main`, return
and `longjmp`, do the same three steps and are one action pair. A thread whose id
is in `Stubs` runs an idle loop of `extra_funcs.cpp`. `settled` is history: the
threads whose creates had returned, handle filed or dropped, when main began to wait.

**Lv2Objects, Lv2Calls.** The pool's variables are extended by the fields of a
slot's union, and by where each thread is in its call. Only `pool_alloc` and
`pool_free` hold `g_pool_cs`, so a create is two steps (publish the kind, fill the
slot in), a destroy is three (look up, close, free; two if `sys_event_queue_destroy`
finds no queue, which it frees all the same), and every other call looks its
slot up and uses what it found in later steps. A slot's memory keeps what its last
owner left there until the next create fills it: a handle that was closed, whose
number Windows may have given away. What Windows leaves undefined ends in `broken`.
The guest passes any id to any call; `misused` is history and remembers which objects
it created, used and destroyed in overlapping calls. A semaphore's initial count
stays within its maximum, as in every create that Windows accepts; the code reports
CELL_OK for the others too and leaves a null handle. Closing is one step, although
`CloseHandle`, `DeleteCriticalSection`, `free` and `evq = nullptr` are several: whoever
is on the object between them has misused it, and is promised nothing either way. What
the properties promise ends at misuse: that a destroy under a call, a use before the
create returned, or a free of another kind of object is harmless, they do not say.

**LwSync.** A call is a look-up under `g_lw_map_cs` and a Windows call on the
pointers found. `Sections` are blocks of memory: a freed one may be handed out
again for another address. What Windows leaves undefined (deleting an object in
use, leaving a section one does not own) ends in `broken`, after which nothing is
promised. The guest unlocks only mutexes it believes it holds, and creates and
destroys whatever it likes.

**LwMonitor.** The textbook client: a waiter tests a condition under the lwmutex
and waits on the lwcond in a loop; a notifier makes it hold and signals all. Every
call is an action of `LwSync`. `monitor` chooses at the start between this client and a
game whose threads make any calls; one run checks both.

**RsxFifo.** Addresses count words; a word is a record that says what its bits mean
to the parser. The game appends whole commands (with increment or without), NOPs
and forward jumps and writes PUT between any two of them, as an offset or as an
address. One parser step is one turn of the loop in `rsx_process_fifo`. GET is
mirrored when the parse returns. The game is the only writer of the buffer here; an SPU
program can reach the same megabyte by DMA (`spu_interp.cpp:184-188`).

**RsxDraw.** One action per register of `rsx_handle` that does more than log. The
code adds the counts of all DRAW_ARRAYS up and keeps the first one's start; `asked` is
history: the vertices that were asked for, in order. The position of an array is an
IO offset or an address (`SetVertexOffset`).

**RsxFrames.** The framebuffer and the z-buffer are one pixel each; a colour is the
depth of the fragment it came from. A frame is a chain of steps that each drawer goes
through: `frame_begin` (room or not, `delete[]`, `new`, size, background, depth),
any number of fragments, present. The helpers' turns, the window thread's start, its
WM_PAINT in three steps and main's sleep and shutdown run in between. A fragment behind
the far plane is dropped like one behind another. A clear is a fill and a present in two
steps (`HandleClear`, `PresentClear`). The exit flag goes up whatever the game thread is
doing, and the game thread may be one that main does not wait for: it then draws on
after `vm_shutdown`. `mixed` is history: whose frames overlapped another write; `late`
(no framebuffer yet), `contested` (two first frames), `inflight` (a helper's turn when
the flag goes up) and `missed` (a game thread not waited for) name the four races in
which something undefined is possible. Of what a SPURS turn reads and writes in guest
memory one access stands for all (`HelperTouches`).

**SpursKernel.** `kernel` and `work` are the fields of the two `spu_ctx_t` that the
C code reads. What the SPU programs compute is data: `spu_run` may leave a context
running anywhere, stopped with any code, or blocked in `rdch` (which leaves an
earlier stop code in place). Program counters are the landmarks the code compares
them with, in order. `phase` is `spurs_start`'s burst, its launch of the thread, or
the thread; `step` is where an iteration is. `g_spurs_started` is left out:
`spurs_start` is called once.

**SpuStep.** A register is a function from byte positions to bytes, in the order
the code stores them. Bytes have eight bits; a word has `WORD` bytes and a register
`WORDS` words, and every mask of the code is written in terms of them (`& 31` is a
remainder by twice the bytes of a register or by the bits of a word). Instructions
that differ only in element width or in an immediate operand are one `op`; an
instruction is a record of its fields, so decoding is left out, and so is floating
point. Element loops write the register lane by lane (`ElementLoop`), and so does fsm
(`Spread`); gb and orx clear it before they write word 0 (`ToPreferred`); what the code
builds in a temporary is a function of the old registers. The patch
of one game's stream descriptor at 0x35FC (`:360-380`) is left out. Code is kept
apart from the local store's data, since no program here changes its own code.

**SpuChannels.** A write of MFC_Cmd carries the transfer out before it returns, from
the address, size and local address that stay in the staging registers for the next
command. Three windows of guest addresses are distinguished: main memory, RSX IO
(written only) and the local store mapped into the address space. Main memory is there
as a whole, although `main.cpp:186` commits only its first part; an access beyond that
ends the process. A range that ends exactly at 0x40000000 is dropped, as by the code's
`<` (`:165`, `:181`), and `ChannelsServe` makes an exception of it. Nothing in the
repository fills a mailbox or empties one, so a read of a mailbox or signal stops the
program, and the outgoing mailbox has no room after the first write.

**SpuIdioms.** Each program runs on all operands of a sample, and its result is
compared with a definition that does not use the interpreter's: sums by byte
carries, products byte by byte, shifts on the bits of the whole register.

## 3. Runs

All runs finish in less than two and a half minutes with two workers.

| Run | Checks | Instance and why it is enough |
|---|---|---|
| `pool` | `TypeOK`, `WaitingFirst`, `RoundRobin`, `Refinement` | 4 usable ids, 2 kinds: every pattern of free and used slots, each cursor position, a full pool, freed ids waiting behind each other |
| `queue` | `TypeOK`, `ClaimsBacked`, `Refinement`, `NoLostWakeup` | 3 threads, ring of 2, 5 sends: the ring wraps twice, fills up and drops; two receivers stand between wait and dequeue while a third sends |
| `threads` | `TypeOK`, `StacksDisjoint`, `HandleKept`, `SettledThreadsExited`, `ShutdownCompletes` | 3 ids, table of 2: nested and concurrent creates, a full table, creates that fail at either point, joins before, during and after the table entry, a create after main's snapshot; one idle-loop thread |
| `join_all` | `AllThreadsFinished` (violated) | the same instance |
| `lwmutex` | `TypeOK`, `MutualExclusion`, `WaitersProceed` | 1 address, 2 blocks, depth 2. Three threads that make any calls: a block is freed and taken again while others wait for it, recursion, condition waits and timeouts. Or the monitor, 3 waiters and 2 notifiers: fewer signals than sleepers, a signal before, between and after the sleeps |
| `fifo` | `ExactlyTheFlushed`, `HeadersOnly`, `FlushReturns` | a buffer of 6 words, commands of 0 to 2 arguments, NOPs, jumps over any distance, a flush anywhere, PUT in both forms |
| `spurs` | `DispatchServed`, `HaltIsFinal`, `StartReturns`, `ShutdownEnds` | 2 slots, 6 landmarks, a burst of 3, workloads of 2 turns: every exit of both loops, a signal in the last iteration of the burst, a workload that ends, yields, is sent to the geometry code or runs out of turns |
| `spurs_restart` | `RestartFollowsReturn` (violated) | the same instance |
| `spu` | `WideSums`, `WordProducts`, `QuadShifts`, `SignedMaximum`, `LaneMasks`, `ScalarAccess`, `SubroutineReturns`, `ChannelsServe`, `RotationsAgree` | two words of two bytes: words of both signs, with carries out of each byte and halves of different sign; all shift counts up to twice the width; all addresses, wrapped; loops of one to three turns; DMA of sizes below, at and above the cap, at addresses in, between and across the three windows |
| `objects` | `BrokenOnlyByMisuse`, `SemaphoreGrants`, `MutexExcludes`, `QueuesBacked` | 2 threads, 2 ids, all 5 kinds, semaphores and rings of 1, one object misused per behaviour: a slot is reused by every other kind, a wait outlives its object, a port's queue is gone or is another, a ring and a semaphore are full; mutexes are locked once (`MaxDepth` 1), their recursion is left to the theorem |
| `frames` | `DrawingSafe`, `NearestShown`, `DrawsTheBatch`, `NothingUnshown` | 3 drawers, any number of fragments, at the far plane or nearer, one array at an offset or an address, batches of up to 2 ranges that follow each other or do not: every overlap of frames, clears and paints, a window that fails, is late or is closed, shutdown at any point, a game thread that main waits for or not |
| `spu_halfword` | `HalfwordStore` (violated) | the same instance |

Bounds: `MaxSends`, `MaxCreates`, `StackFloor`, `MaxDepth` (of locking in `LwSync` and
`Lv2Objects`, of fragments in `RsxFrames`), `MaxArgs`, `MaxQueued`, `LAST_PC`,
`MaxInsns`, `SemMax`, `MaxMisused` and `MaxBatch` cap what the code leaves open, and
`Ranges`, `Transfers` and `WordSample` are samples of what a program may pass; `MAX_LV2_OBJ`, `EVQ_CAP`, `MAX_THREADS`,
`CMD_BUF_END`, `BURST`, `TURNS`, `MAX_DMA` and the windows `RAM`, `IO`, `LS_MAP` are the code's constants made small. No action
behaves differently just below the bound than further away from it, except where
the code's own limit (table, ring, pool, burst) is what is tested. In `spu`, words
of two bytes keep TLC's integers below 2^31; a halfword is then one byte, so byte
order inside halfwords is not tested, byte order inside words is.

Deadlock is checked in `pool` and `fifo`. The other systems may
stop: all sends are used up, the process has ended, the guest has destroyed an
object in use, a drawer touched memory that is gone, threads wait for each other on purpose, the SPU program has stopped.

### Fairness

* `EventQueue`: weak fairness of the end of a wait whose semaphore is positive and
  of the dequeue behind it. Windows wakes a waiter of a signalled semaphore and
  schedules it. Nothing makes a thread send, receive or time out.
* `PpuThreads`: weak fairness of each step inside a create, of a started thread and
  of waits that are satisfied. Strong fairness of a game thread's exit: shutdown
  can only be promised if every thread eventually returns, however often it creates
  or joins on the way; this is an assumption about the game, and the idle loops are
  excepted — they return only when the flag is up. `ShutdownCompletes` also assumes
  that each thread joins older ones only; a cycle of joins hangs in the code too.
* `LwMonitor`: weak fairness of each thread's next statement. Critical sections do
  not promise more, and the property needs no more: every thread enters a bounded
  number of times.
* `RsxFifo`: weak fairness of the parser. It runs in the call that writes PUT.
* `SpursKernel`: weak fairness of the one thread that owns the kernel at a time.

### Findings

Three runs show a disagreement between the code and what its comments say.

1. `spurs_restart` (`spu_spurs.cpp:466`): `rdch` on an empty mailbox stops the SPU
   without touching `stop_code`. After one genuine return the code is still 0x100,
   and a kernel that merely waits is restarted from its entry.
2. `spu_halfword` (`spu_interp.cpp:312`): `gen_controls` selects bytes 0 to size-1
   of the source for every size. That is right for words and doublewords; for
   halfwords and bytes the preferred slot ends at byte 3 (`:464` tests "the preferred
   halfword (low 16 of word 0)"), so `chd` and `shufb` store the wrong half.
3. `join_all` (`runtime_glue.cpp:305`): `thread_runtime_join_all` promises to "wait for
   all created game threads to finish" (`:301`) and prints that they all did (`:313`).
   It waits for the handles the table holds at one moment: a thread another game thread
   is just creating, or one the full table dropped (`:123`), still runs when `vm_shutdown`
   releases guest memory. `SettledThreadsExited` is what it does guarantee.

### Known limits

What else the models show the code does:

* A game thread that main did not wait for draws on after `vm_shutdown`, on memory that
  is gone. The SPURS and render threads are not waited for at all; `DrawingSafe` says
  they touch released memory only if they were in the middle of a turn when the exit
  flag went up.
* `tp->thread_id` (`:1230`) is read after `CreateThread`, when the new thread may have
  freed `tp`; the handle can be filed under any id.
* `frame_begin` writes the framebuffer without asking whether there is one; it is
  missing if the window thread needs longer than main's sleep of 200 ms, or failed.
  Two first frames at once race for the z-buffer.
* `DRAW_ARRAYS` ranges of one batch that do not follow each other are drawn as if
  they did (`DrawsTheBatch` is about those that do).
* A timeout of 2^32 - 1 milliseconds never ends and one of 2^32 does not wait
  (`LongTimeoutsWrap`).
* The barrier and fence forms of DMA are decoded as 0x22, 0x24, 0x42 and 0x44
  (`spu_interp.cpp:132-137`); other command codes, lists among them, do nothing.
* The stack cursor is never given back (`runtime_glue.cpp:108`): a long game that
  keeps creating threads moves down until it meets other mappings.

One suspicion is not a finding: `put_ea <= get_ea` (`runtime_glue.cpp:598`) takes a
PUT below the last one for no news, so a game that wraps its 1 MB buffer would lose
commands. Nothing in the repository says whether it does; it is listed as a hazard.

## 4. Proofs

`tlapm` proves, for every value of the constants that the `ASSUME`s allow:

| Theorem | Statement |
|---|---|
| `Lv2Calls_proofs!PoolTypeCorrect`, `WaitingComesFirst`, `ReuseIsRoundRobin` | the pool's `Spec => []TypeOK`, `[]WaitingFirst`, `RoundRobin` |
| `Lv2Calls_proofs!PoolImplementsAllocator` | `Spec => Alloc!Spec` |
| `EventQueue_proofs!TypeCorrect`, `EveryClaimBacked` | `Spec => []TypeOK`, `[]ClaimsBacked` |
| `EventQueue_proofs!QueueImplementsFifo` | `Spec => Fifo!Spec` |
| `PpuThreads_proofs!TypeCorrect`, `StacksNeverOverlap`, `HandlesAreKept`, `ReleaseAfterSettled` | `Spec => []` of the four invariants |
| `LwSync_proofs!TypeCorrect`, `LwmutexExcludes` | `Spec => []TypeOK`, `[]MutualExclusion` |
| `RsxFifo_proofs!TypeCorrect`, `HeadersAreHeaders`, `FlushedAreHandled` | `Spec => []TypeOK`, `[]HeadersOnly`, `[]ExactlyTheFlushed` |
| `RsxFrames_proofs!TypeCorrect`, `FramesAreSafe`, `FramesShowTheNearest`, `PaintsLoseNothing`, `BatchesAreDrawn` | `Spec => []TypeOK`, `[]DrawingSafe`, `[]NearestShown`, `[]NothingUnshown`, `[]DrawsTheBatch` |
| `SpursKernel_proofs!TypeCorrect`, `SignalsAreServed`, `HaltsAreFinal` | `Spec => []TypeOK`, `DispatchServed`, `HaltIsFinal` |
| `Lv2Calls_proofs!ObjectTypesCorrect`, `UndefinedNeedsMisuse`, `SemaphoresGrant`, `MutexesExclude`, `EventsBackReceivers` | `ObjSpec => []` of `ObjTypeOK`, `BrokenOnlyByMisuse`, `SemaphoreGrants`, `MutexExcludes`, `QueuesBacked` |
| `Lv2Calls_proofs!TimeoutsAreKept`, `LongTimeoutsWrap` | what `Millis` returns below, at and above the largest finite wait |
| `SpuIdioms_proofs!ScalarsAreAccessed`, `SubroutinesReturn`, `ChannelsAreServed` | `Spec => []` of `ScalarAccess`, `SubroutineReturns`, `ChannelsServe` |
| `SpuIdioms_proofs!WideSumsAreExact`, `ProductsAreFormed`, `QuadsAreShifted`, `MaximaAreChosen`, `LanesAreMasked` | `Spec => []` of `WideSums`, `WordProducts`, `QuadShifts`, `SignedMaximum`, `LaneMasks` |

`Lv2Calls_proofs` holds the proofs about the pool and the timeouts too, on which or
beside which those of the calls stand.

**Pool.** That an id is not handed out twice past a waiting one is a statement
about a step; it needs the state to remember who overtook whom (`passed`). The
inductive invariant is that seen from the cursor each waiting id comes before those
that overtook it (`WaitingFirst`), and that an id in use waits for nobody. An
allocation moves the cursor just behind the id it takes, which becomes the
farthest. The refinement needs that the search is a bijection between iterations
and ids (`ProbeOnto`, `ProbeDistance`): "no iteration met a free slot" is then "no
slot is free". `WrapOnce` replaces each modulo by a case distinction.

**Objects.** Nothing locks a slot between the look-up and the use, so what protects an
object is only that the guest does not destroy it under a call. The invariant
(`ObjInv`) says what that buys, for every id that was never misused: a pointer a call
holds leads to an object of the kind it looked for, and whoever creates or destroys an
object is alone with it (`PointersSane`); the object is open from the end of its create
to the close of its destroy (`ContentsSane`); a section is owned by the thread that
believes so, as deeply as it believes, and not while it is created or destroyed
(`SectionsSane`); a semaphore's books agree with its count, a ring holds an event for
each count and each receiver past the wait, and a slot in creation still has the zeros
of `pool_alloc` (`AllBooksSane`); and a call has lost what its pointers lead to only if
one of them is misused (`CallsSane`). The first part is what makes `broken` false at
each step, and each of the three properties is one of the others read for one kind. An
id that is misused drops out of the invariant for good, also when its slot is given
away later. Most steps move one thread: the frame lemmas (`PointersKept`,
`SectionsKept`, `ContentsKept`, `BooksKept`) say what such a step cannot disturb, and
each action's lemma proves the rest. TLC checks `ObjInv` on the instance of `objects`
as well.

**Event queue.** `ClaimsBacked` is inductive only together with the fact that
`tail` is where `head + cnt` leads (`TailFollows`), and with the types. It also
carries the argument that the semaphore never saturates. For the refinement, the
contents of the ring are a sequence (`RingIsSeq`), storing at `tail` appends
(`StoreAppends`) and advancing `head` drops the first element (`AdvanceDropsHead`).

**Threads.** The inductive invariant adds that a creator knows the id it drew and
nobody else creates it (`CreatorsKnowChild`) and that every carved stack, given to
a thread or held by a creator, lies at or above the cursor, away from all others
(`StacksCarved`). For the release it adds that the table holds
each handle once (`FiledOnce`): a full table then has as many different threads as
entries, so that up to `MAX_THREADS` settled ones are all in main's snapshot
(`SnapshotMissesNone`, `SettledWaitedFor`).

**Lwmutex.** Mutual exclusion is about what threads believe, a critical section is
about what Windows knows. The invariant ties them: no two addresses share a block,
blocks taken fresh are not in use, and while nothing is broken a thread that
believes it holds a guarded mutex is the owner of its section, as deeply as it
believes (`Sound`, with `SectionsSane` and `CallsSane` for the pointers that calls
in progress carry). Destroying an object in use breaks it, which is why the
property stops at `broken`.

**FIFO.** Nothing in the buffer says which words are headers; the parser knows only
from where it stands. The invariant says that there is a set of positions, the
boundaries, and a numbering of them by the commands before them (`Chain`): behind
each boundary lies a whole command, a NOP or a jump that leads to the next boundary,
and the words of a command are those of the queued command its number names. GET,
the parser's pointer and PUT stand on boundaries, and the number at the pointer is
how many commands were handled (`Progress`). When the game appends, the set grows by
one boundary; when the parser takes a command, the pointer moves to the next one.

**Frames.** The invariant has one part for each promise: since when a framebuffer is
missing (`Missing`); that before two drawers contend one of them owns the allocation of
the z-buffer, and what it points to at each of its steps (`Sharing`); who can still be
at work at the end (`Leaving`); that a frame which is not mixed is the only one
(`Mixing`), so colour and depth are its own (`Showing`); and that what the screen
lacks is announced by the invalid region or belongs to a frame in progress
(`Painting`). Of a batch the accumulator keeps a start and a length; the invariant says
that the length is the number of vertices asked for and, when each follows the one
before, that the i-th one is the start plus i - 1 (`Batching`), which each range extends.

**SPURS.** While the workload is being served the kernel stands as it stopped and the
call is for its slot (`Serving`); the count of rendered edges follows the workload's
turns (`Counts`). The burst hands all of it over to the thread.

**Timeouts.** `Millis` is a pure function; the theorems hold for any width of a DWORD
and of the 64-bit sum.

**SPU.** The theorems hold for words of two and of four bytes and registers of two and
of four words, so for the code's own sizes, where TLC runs on two of two; for every
local store, set of registers and sample of operands that the assumptions admit. What is
recursive — the value of an element, the loop over the lanes, the logic of single bits —
is unrolled for these sizes (`ElemUnfold`, `SizedLoop`, `LogicUnfold`), and the powers of
256 and of two are tables (`Weight`, `Power`) since the provers know nothing of `^`.
`InPlaceLoop` says what the loop leaves when it writes
one of its sources, `WordInstruction` reads it word by word for the programs, and
`SpreadLanes` lane by lane for fsm, whose source is overwritten by its own loop. Each program has an invariant
that follows it by the count of executed instructions (`LoadInv`, `StoreInv`,
`ProductInv`, `AddInv`, `SubInv`, `MaximumInv`, `MaskInv`, `PairInv`, `RightInv`,
`AskInv`) or by program counter and turn (`LoopInv`): the program is where
it should be (`At`), the operands are still what they were, and the other registers hold
the parts of the result so far. For the DMA program it is `UpdateInv`, in the order of
the program: where it goes on (`Going`), the local copy (`Prepared`), the staging
registers that describe the transfer (`Described`), and what was moved (`Moved`), which
distinguishes the windows an address can be in (`Windows`). The product needs that the
parts of two mpyh and one mpyu add up modulo the word although mpyh reads halves as
signed (`SignedHalves`, `PartsAddUp`), and that `Product`, which is made byte by byte, is
the product (`ProductIs`). For the sums the bytes of `Sum`, carried from the right, are
put together to two words with one carry between them (`SumIs`), which is the one that cg
and bg leave. selb takes, bit by bit, bytes of ones or of zeros as they are
(`Selection`), and the signed order is that of numbers moved by half the range
(`BiasedOrder`). What gb appends bit by bit is read back by division (`GatherBits`).
A bit shift or rotation joins each byte with a neighbour, and a bit of two joined bytes is a
bit of one of them (`JoinedBit`); taking the register as bytes without end, with zeros
around it or repeated, makes left, right and rotated one case (`MovedBits`), and the
counts of the two instructions are quotient and remainder of one number (`CountParts`),
also when it was negated modulo the word (`NegatedCounts`).

Assumptions are only those of the modules: positive sizes, names that differ, a
stack size below the bound on the cursor, finitely many threads where receivers are
counted. TLC evaluates them in every run.

**Checked by TLC only:** everything about liveness (`NoLostWakeup`,
`ShutdownCompletes`, `WaitersProceed`, `FlushReturns`, `StartReturns`,
`ShutdownEnds`), which needs fairness and `ENABLED`, and `RotationsAgree`. Every other
property of the passing runs is stated by a theorem. The three violated properties are
false, and TLC shows how.

## 5. What is not modelled

* Semaphores created with an initial count above their maximum.
* Calls to destroy an event queue are in `Lv2Calls`, where an event is only a count;
  `EventQueue` has the contents, between creation and destruction.
* SPU floating point and the decoding of instruction words. DMA that passes the end of
  the local store, or copies between overlapping ranges of it.
* The geometry and shading of a triangle: floating point, without control of its own.
  Pixel copies, image files, text output, ELF loading, and the patches `main` writes
  into guest memory: data.
* The GCM control register: `gcm_ctrl_advance_ref` does nothing until the game asks
  for the register, and only the game reads what it counts.
* Several game threads writing PUT at once: the parser has no lock, GCM expects one
  writer, and so do the models. Nor an SPU program that writes over the command buffer
  by DMA: `RsxFifo`'s properties assume that none does.
* What goes wrong after a misuse (`misused` in `Lv2Calls`, `broken` and `unguarded` in
  `LwSync`) or in a named race (`late`, `contested`, `mixed`, `inflight`, `missed` in
  `RsxFrames`): the models reach these states, the properties exempt them, and the
  hazards that live there say so.
* Indirect-call tables, trampolines, the project template and the lifter scripts.
* `src/recompiled/ppu_recomp.h` and `src/stubs.cpp` are generated: twelve thousand
  lines of declarations, one per function of the game, without behaviour. They are two
  thirds of the source lines here, so a figure for coverage that counts them stays low
  however much of the hand-written code is modelled.

## 6. What could come next

1. `RsxFifo` and `RsxDraw` as one system: the register writes of a batch appended as
   commands, the draw happening inside the write of PUT. The two modules meet in
   `rsx_handle` only, which is why each is checked by itself now.
2. Instruction decoding, as a function from words to the records `SpuStep` runs on.
