----------------------------- MODULE RsxFrames ------------------------------
(***************************************************************************)
(* The threads that draw into the one framebuffer of main.cpp: the game    *)
(* (rsx_handle, called from the parse of the command buffer), the SPURS    *)
(* kernel (rsx_process_edge) and the render thread (a tick of              *)
(* spurs_render_sphere_tick and rsx_on_edge_write).  They share the        *)
(* z-buffer, which the first of them allocates, and no lock; the window    *)
(* thread creates the framebuffer and paints it, and main releases guest   *)
(* memory without waiting for any but the game threads whose handles it    *)
(* copied (PpuThreads).                                                    *)
(*                                                                         *)
(* The framebuffer and the z-buffer are one pixel, and a colour is the     *)
(* depth of the fragment it comes from, Far for the background.  What a    *)
(* frame draws, apart from the game's vertex range, is any choice of       *)
(* fragments.                                                              *)
(***************************************************************************)
EXTENDS RsxDraw, FiniteSets

CONSTANTS Game, Spurs, Render,  \* who draws
          MaxDepth              \* depths of fragments are 1 .. MaxDepth; larger is nearer

Helpers == {Spurs, Render}
Drawers == {Game} \cup Helpers

ASSUME FramesAssumption == /\ Game # Spurs /\ Game # Render /\ Spurs # Render
                           /\ MaxDepth \in Nat \ {0}

Far   == 0     \* -2.0f in the z-buffer, the background in the framebuffer
Plain == -1    \* what CreateDIBSection, the start or a clear left there
Null  == -2    \* no framebuffer
Depths == Far .. MaxDepth

VARIABLES main,      \* where main is
          win,       \* where the window thread is
          fb,        \* the pixel g_framebuf points to
          behind,    \* it was written since it was last copied to the screen
          dirty,     \* the window has an invalid region
          running,   \* the helpers that were started
          pc,        \* where each drawer is
          g_z_buf,   \* what it points to: "null", "buffer" or "deleted"
          sized,     \* g_z_buf_sz is the frame's size
          z,         \* the pixel of the z-buffer pointed to
          nearest,   \* history: largest depth of the fragments of a frame not mixed
          mixed,     \* history: drawers whose frame overlapped another write
          late,      \* history: there was no framebuffer when main's sleep was over
          contested, \* history: two drawers found no z-buffer at once
          missed,    \* the game thread that draws is one that main does not wait for
          inflight,  \* history: helpers still in the turn in which the exit flag went up
          broken     \* what undefined access happened, "" for none

window  == <<win, dirty, behind>>
zbuffer == <<g_z_buf, sized>>
pixels  == <<fb, z, nearest>>
history == <<late, contested, missed, inflight>>
vars    == <<drawVars, main, window, running, pc, zbuffer, pixels, mixed, history, broken>>

Init == /\ DrawInit
        /\ main = "sleep" /\ win = "start" /\ dirty = FALSE /\ behind = FALSE
        /\ running = {}
        /\ pc = [d \in Drawers |-> "idle"]
        /\ g_z_buf = "null" /\ sized = FALSE
        /\ fb = Null /\ z = Far /\ nearest = [d \in Drawers |-> Far]
        /\ mixed = {} /\ late = FALSE /\ contested = FALSE
        /\ missed = FALSE /\ inflight = {} /\ broken = ""
-----------------------------------------------------------------------------
Goto(d, where) == pc' = [pc EXCEPT ![d] = where]
Reallocating == {"delete", "new", "size"}
Places == Reallocating \cup {"idle", "turn", "clear", "paint", "clear z", "raster", "present"}
InFrame(d) == pc[d] \notin {"idle", "turn", "clear"}
Disturbed == {d \in Drawers : InFrame(d)}
Undefined(access, happens) == broken' = IF happens THEN access ELSE ""

\* rsx_present_frame
g_hwnd == win \notin {"start", "failed"}
rsx_present_frame == dirty' = (dirty \/ g_hwnd)

(***************************************************************************)
(* The window thread.                                                      *)
(***************************************************************************)
CreateWindowEx ==
  /\ win = "start"
  /\ win' \in {"window", "failed"}
  /\ UNCHANGED <<drawVars, main, dirty, behind, running, pc, zbuffer, pixels, mixed, history,
                 broken>>

\* CreateDIBSection may fail as well.
CreateDIB ==
  /\ win = "window"
  /\ fb' \in {Plain, Null} /\ win' = "fill"
  /\ UNCHANGED <<drawVars, main, dirty, behind, running, pc, zbuffer, z, nearest, mixed,
                 history, broken>>

\* The blue of the start, over whatever a hasty drawer has drawn.
FillAndShow ==
  /\ win = "fill"
  /\ fb' = IF fb = Null THEN Null ELSE Plain
  /\ win' = "loop" /\ dirty' = TRUE /\ behind' = (fb # Null)
  /\ mixed' = Disturbed
  /\ UNCHANGED <<drawVars, main, running, pc, zbuffer, z, nearest, history, broken>>

ValidatesLate(call) == call = "EndPaint"          \* mutant: what came meanwhile is lost
Validates(call) == call = "BeginPaint"

\* WM_PAINT: BeginPaint validates the window, then BitBlt copies the framebuffer.
BeginPaint ==
  /\ win = "loop" /\ dirty
  /\ dirty' = ~Validates("BeginPaint") /\ win' = "blit"
  /\ UNCHANGED <<drawVars, main, behind, running, pc, zbuffer, pixels, mixed, history, broken>>

BitBlt ==
  /\ win = "blit"
  /\ behind' = FALSE /\ win' = "painted"
  /\ UNCHANGED <<drawVars, main, dirty, running, pc, zbuffer, pixels, mixed, history, broken>>

EndPaint ==
  /\ win = "painted" /\ win' = "loop"
  /\ dirty' = (dirty /\ ~Validates("EndPaint"))
  /\ UNCHANGED <<drawVars, main, behind, running, pc, zbuffer, pixels, mixed, history, broken>>

\* WM_DESTROY: the thread ends, the framebuffer stays.
Destroyed ==
  /\ win = "loop" /\ win' = "closed"
  /\ UNCHANGED <<drawVars, main, dirty, behind, running, pc, zbuffer, pixels, mixed, history,
                 broken>>

(***************************************************************************)
(* frame_begin, the rasterizer and rsx_present_frame.                      *)
(***************************************************************************)
HasRoom == sized

\* Whoever is in a frame now is disturbed by this one, and this one by them.
FrameBegin(d) ==
  /\ IF HasRoom THEN Goto(d, "paint") /\ UNCHANGED contested
     ELSE /\ Goto(d, "delete")
          /\ contested' = (contested \/ \E e \in Drawers : pc[e] \in Reallocating)
  /\ mixed' = IF Disturbed = {} THEN mixed ELSE Disturbed \cup {d}

DeleteZ(d) ==
  /\ pc[d] = "delete"
  /\ Undefined("z-buffer", g_z_buf = "deleted")
  /\ g_z_buf' = IF g_z_buf = "null" THEN "null" ELSE "deleted"
  /\ Goto(d, "new")
  /\ UNCHANGED <<drawVars, main, window, running, sized, pixels, mixed, history>>

NewZ(d) ==
  /\ pc[d] = "new"
  /\ g_z_buf' = "buffer"
  /\ z' \in Depths
  /\ Goto(d, "size")
  /\ UNCHANGED <<drawVars, main, window, running, sized, fb, nearest, mixed, history,
                 broken>>

SizeZ(d) ==
  /\ pc[d] = "size"
  /\ sized' = TRUE
  /\ Goto(d, "paint")
  /\ UNCHANGED <<drawVars, main, window, running, g_z_buf, pixels, mixed, history,
                 broken>>

\* The background, written without a look at the pointer.
PaintBackground(d) ==
  /\ pc[d] = "paint"
  /\ Undefined("framebuffer", fb = Null)
  /\ fb' = IF fb = Null THEN Null ELSE Far
  /\ behind' = TRUE
  /\ Goto(d, "clear z")
  /\ UNCHANGED <<drawVars, main, win, dirty, running, zbuffer, z, nearest, mixed, history>>

InitialDepth == Far

ClearZ(d) ==
  /\ pc[d] = "clear z"
  /\ Undefined("z-buffer", g_z_buf # "buffer")
  /\ z' = InitialDepth
  /\ Goto(d, "raster")
  /\ UNCHANGED <<drawVars, main, window, running, zbuffer, fb, nearest, mixed, history>>

FartherDepth(a) == a < z                          \* mutant: the farthest fragment wins
NearerDepth(a) == a > z

\* A fragment of a triangle whose vertices are in guest memory; Far stands for any
\* that is not nearer than what the z-buffer was cleared to.
Fragment(d) ==
  /\ pc[d] = "raster"
  /\ broken' = IF main = "down" THEN "guest memory"
               ELSE IF g_z_buf = "deleted" THEN "z-buffer" ELSE ""
  /\ \E a \in Depths :
       /\ nearest' = [nearest EXCEPT ![d] = IF d \notin mixed /\ a > @ THEN a ELSE @]
       /\ IF NearerDepth(a) THEN z' = a /\ fb' = a /\ behind' = TRUE
                            ELSE UNCHANGED <<z, fb, behind>>
  /\ UNCHANGED <<drawVars, main, win, dirty, running, pc, zbuffer, mixed, history>>

EndRaster(d) ==
  /\ pc[d] = "raster"
  /\ Goto(d, "present")
  /\ UNCHANGED <<drawVars, main, window, running, zbuffer, pixels, mixed, history, broken>>

\* END of the game's batch then resets its accumulator; a helper's turn goes on.
Present(d) ==
  /\ pc[d] = "present"
  /\ rsx_present_frame
  /\ Goto(d, IF d = Game THEN "idle" ELSE "turn")
  /\ nearest' = [nearest EXCEPT ![d] = Far] /\ mixed' = mixed \ {d}
  /\ IF d = Game THEN ResetAccumulator /\ UNCHANGED arrayVars ELSE UNCHANGED drawVars
  /\ UNCHANGED <<main, win, behind, fb, z, running, zbuffer, history, broken>>

(***************************************************************************)
(* The drawers.                                                            *)
(***************************************************************************)
\* A game thread that writes PUT runs on while main waits for the game's threads.
GameRuns == main \in {"run", "exit"} /\ pc[Game] = "idle"

\* rsx_handle, but for END with something to draw and CLEAR_SURFACE.
HandleState ==
  /\ GameRuns
  /\ \/ \E a \in Arrays : SetVertexOffset(a)
     \/ BeginBatch
     \/ Len(asked) < MaxBatch /\ \E r \in Ranges : DrawArrays(r)
     \/ ~Drawable /\ BeginBatch
  /\ UNCHANGED <<main, window, running, pc, zbuffer, pixels, mixed, history, broken>>

HandleEnd ==
  /\ GameRuns /\ Drawable
  /\ FrameBegin(Game)
  /\ UNCHANGED <<drawVars, main, window, running, zbuffer, pixels, late, missed, inflight,
                 broken>>

\* CLEAR_SURFACE of the colour looks at the pointer first, writes, and presents.
HandleClear ==
  /\ GameRuns
  /\ fb # Null
  /\ fb' = Plain /\ behind' = TRUE
  /\ mixed' = Disturbed
  /\ Goto(Game, "clear")
  /\ UNCHANGED <<drawVars, main, win, dirty, running, zbuffer, z, nearest, history, broken>>

PresentClear ==
  /\ pc[Game] = "clear"
  /\ rsx_present_frame
  /\ Goto(Game, "idle")
  /\ UNCHANGED <<drawVars, main, win, behind, running, zbuffer, pixels, mixed, history, broken>>

\* The commands themselves are in guest memory.
ParseReleased ==
  /\ main = "down" /\ missed /\ pc[Game] = "idle"
  /\ broken' = "guest memory"
  /\ UNCHANGED <<drawVars, main, window, running, pc, zbuffer, pixels, mixed, history>>

NeverRaised == FALSE                              \* mutant: the helpers are not told
g_threads_should_exit == main \in {"exit", "down"}

\* The head of a helper's loop.
HelperTurn(d) ==
  /\ d \in running /\ pc[d] = "idle"
  /\ ~g_threads_should_exit
  /\ Goto(d, "turn")
  /\ UNCHANGED <<drawVars, main, window, running, zbuffer, pixels, mixed, history, broken>>

\* Each looks whether there is guest memory before it draws.  A workload of the SPURS
\* thread may draw more than once in a turn.
HelperDraws(d) ==
  /\ pc[d] = "turn"
  /\ main # "down"
  /\ FrameBegin(d)
  /\ UNCHANGED <<drawVars, main, window, running, zbuffer, pixels, late, missed, inflight,
                 broken>>

\* The rest of a turn uses guest memory through pointers taken earlier: the vertices
\* the render thread writes, the DMA of a workload.
HelperTouches(d) ==
  /\ pc[d] = "turn"
  /\ main = "down"
  /\ broken' = "guest memory"
  /\ UNCHANGED <<drawVars, main, window, running, pc, zbuffer, pixels, mixed, history>>

TurnEnds(d) ==
  /\ pc[d] = "turn"
  /\ Goto(d, "idle")
  /\ inflight' = inflight \ {d}
  /\ UNCHANGED <<drawVars, main, window, running, zbuffer, pixels, mixed, late, contested,
                 missed, broken>>

(***************************************************************************)
(* main                                                                    *)
(***************************************************************************)
\* Sleep(200) is over, whether the window is there or not.
StartRender ==
  /\ main = "sleep" /\ main' = "run"
  /\ running' = running \cup {Render}
  /\ late' = (fb = Null)
  /\ UNCHANGED <<drawVars, window, pc, zbuffer, pixels, mixed, contested, missed, inflight,
                 broken>>

\* main runs the kernel's first burst itself, and draws in it as the thread does later.
spurs_start ==
  /\ main = "run" /\ Spurs \notin running
  /\ running' = running \cup {Spurs}
  /\ UNCHANGED <<drawVars, main, window, pc, zbuffer, pixels, mixed, history, broken>>

\* The flag goes up whatever the game threads do.
SignalExit ==
  /\ main = "run"
  /\ main' = "exit"
  /\ inflight' = {d \in Helpers : pc[d] # "idle"}
  /\ UNCHANGED <<drawVars, window, running, pc, zbuffer, pixels, mixed, late, contested,
                 missed, broken>>

\* The game threads of the snapshot are joined, the others and the helpers are not.  The
\* one that draws may be main itself or one of the snapshot, which is idle then, or one
\* that the full table dropped or that was filed too late.
vm_shutdown ==
  /\ main = "exit"
  /\ main' = "down"
  /\ missed' \in BOOLEAN
  /\ missed' \/ pc[Game] = "idle"
  /\ UNCHANGED <<drawVars, window, running, pc, zbuffer, pixels, mixed, late, contested,
                 inflight, broken>>

Next == /\ broken = ""
        /\ \/ CreateWindowEx \/ CreateDIB \/ FillAndShow \/ BeginPaint \/ BitBlt \/ EndPaint
           \/ Destroyed
           \/ \E d \in Drawers :
                \/ DeleteZ(d) \/ NewZ(d) \/ SizeZ(d) \/ PaintBackground(d) \/ ClearZ(d)
                \/ Fragment(d) \/ EndRaster(d) \/ Present(d)
                \/ HelperTurn(d) \/ HelperDraws(d) \/ HelperTouches(d) \/ TurnEnds(d)
           \/ HandleState \/ HandleEnd \/ HandleClear \/ PresentClear \/ ParseReleased
           \/ StartRender \/ spurs_start \/ SignalExit \/ vm_shutdown

Spec == Init /\ [][Next]_vars
-----------------------------------------------------------------------------
\* Types of the draw state, the window, the z-buffer and the drawers.
TypeOK ==
  /\ DrawTypeOK
  /\ main \in {"sleep", "run", "exit", "down"}
  /\ win \in {"start", "failed", "window", "fill", "loop", "blit", "painted", "closed"}
  /\ dirty \in BOOLEAN /\ behind \in BOOLEAN /\ sized \in BOOLEAN
  /\ fb \in Depths \cup {Plain, Null} /\ z \in Depths /\ nearest \in [Drawers -> Depths]
  /\ running \subseteq Helpers /\ pc \in [Drawers -> Places]
  /\ g_z_buf \in {"null", "buffer", "deleted"}
  /\ mixed \subseteq Disturbed
  /\ late \in BOOLEAN /\ contested \in BOOLEAN
  /\ missed \in BOOLEAN /\ inflight \subseteq Helpers
  /\ broken \in {"", "framebuffer", "z-buffer", "guest memory"}

\* No frame touches a framebuffer that is not there, unless there was none yet when
\* main's sleep was over; a z-buffer that is not there or was deleted, unless two
\* threads began their first frames at once; and nobody touches guest memory that was
\* released, unless a helper is still in the turn in which the exit flag went up, or
\* the game thread that draws is one main did not wait for
\* (main.cpp:151-160, 497-504, 572-577; runtime_glue.cpp:301-316, 828-868, 870-947).
DrawingSafe == /\ broken = "framebuffer" => late
               /\ broken = "z-buffer" => contested
               /\ broken = "guest memory" => missed \/ inflight # {}

\* A frame that no other frame, clear or fill overlapped shows, when it is presented,
\* its nearest fragment, or the background if it has none
\* (runtime_glue.cpp:867, 941-944).
NearestShown ==
  \A d \in Drawers : pc[d] = "present" /\ d \notin mixed => fb = nearest[d]

\* The triangles handed to the rasterizer are those of the batch, when its ranges
\* follow each other, whatever batches, ranges and arrays came before
\* (runtime_glue.cpp:501-538).
DrawsTheBatch ==
  InFrame(Game) /\ Consecutive => DrawnTriangles = AskedTriangles

\* While nobody draws, an open window that waits for its next message shows what the
\* framebuffer holds: no frame, and no clear, is presented behind a paint and lost
\* (main.cpp:27-39, 95-97).
NothingUnshown ==
  win = "loop" /\ ~dirty /\ Disturbed = {} /\ pc[Game] # "clear" => ~behind
=============================================================================
