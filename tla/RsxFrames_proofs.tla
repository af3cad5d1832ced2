-------------------------- MODULE RsxFrames_proofs --------------------------
(***************************************************************************)
(* Proofs about RsxFrames: what the code's order of events guarantees to   *)
(* the pixel, with the exceptions that DrawingSafe names, for every depth  *)
(* and every batch the game may draw.                                      *)
(*                                                                         *)
(* The invariant says, beside the types, what the draw state knows of a    *)
(* batch (Batching), when there is no framebuffer (Missing), who           *)
(* owns the z-buffer while it is being allocated (Sharing), who can still  *)
(* be at work at the end (Leaving), that a frame not mixed is alone        *)
(* (Mixing), so the pixel and its depth are its own (Showing), and that    *)
(* what the screen lacks is either announced or unfinished (Painting).     *)
(***************************************************************************)
EXTENDS RsxFrames, TLAPS

Missing ==
  /\ main = "sleep" => running = {} /\ \A d \in Drawers : pc[d] = "idle"
  /\ win \in {"start", "window"} => fb = Null
  /\ main # "sleep" /\ fb = Null => late
  /\ broken = "" => \A d \in Drawers : pc[d] \in {"clear z", "raster", "present"} => fb # Null
  /\ broken = "framebuffer" => late

OneOwner ==
  /\ \A d, e \in Drawers : pc[d] \in Reallocating /\ pc[e] \in Reallocating => d = e
  /\ \A d \in Drawers : /\ pc[d] \in Reallocating => ~sized
                        /\ pc[d] \in {"delete", "new"} => g_z_buf = "null"
                        /\ pc[d] = "size" => g_z_buf = "buffer"
                        /\ pc[d] \in {"paint", "clear z", "raster", "present"} => sized
  /\ sized => g_z_buf = "buffer"
  /\ ~sized /\ (\A d \in Drawers : pc[d] \notin Reallocating) => g_z_buf = "null"
  /\ broken # "z-buffer"

Sharing == contested \/ OneOwner

Leaving ==
  /\ main \in {"exit", "down"} => \A d \in Helpers : pc[d] # "idle" => d \in inflight
  /\ main = "down" => missed \/ pc[Game] = "idle"
  /\ broken = "guest memory" => missed \/ inflight # {}

Mixing == /\ mixed \subseteq Drawers
          /\ \A d \in mixed : InFrame(d)
          /\ \A d, e \in Drawers : InFrame(d) /\ d \notin mixed /\ InFrame(e) => d = e

ShowsOwn(d) ==
  /\ pc[d] \notin {"raster", "present"} => nearest[d] = Far
  /\ d \notin mixed => /\ pc[d] = "clear z" /\ broken = "" => fb = Far
                       /\ pc[d] = "raster" => fb = nearest[d] /\ z = nearest[d]
                       /\ pc[d] = "present" => fb = nearest[d]

Showing == \A d \in Drawers : ShowsOwn(d)

Painting ==
  win \in {"loop", "painted"} /\ behind =>
    dirty \/ pc[Game] = "clear" \/ \E d \in Drawers : InFrame(d)

\* The accumulator knows how many vertices the batch asked for, and where it began; when
\* the ranges follow each other, all of them are known from that.
Batching ==
  /\ array = ArrayAt(io_offset)
  /\ total = Len(asked)
  /\ IF Len(asked) = 0 THEN start = NoStart ELSE start \in Nat
  /\ Consecutive => \A i \in 1 .. Len(asked) : asked[i] = start + i - 1

IInv == TypeOK /\ Batching /\ Missing /\ Sharing /\ Leaving /\ Mixing /\ Showing /\ Painting

USE DEF Depths, Far, Plain, Null, Places, Reallocating

\* The steps of a helper between frames.
HelperSteps(d) == HelperTurn(d) \/ HelperDraws(d) \/ HelperTouches(d) \/ TurnEnds(d)

-----------------------------------------------------------------------------
(***************************************************************************)
(* The draw state changes in four ways only.                               *)
(***************************************************************************)
LEMMA DrawSteps ==
  ASSUME [Next]_vars
  PROVE  \/ \E a \in Arrays : SetVertexOffset(a)
         \/ ResetAccumulator /\ UNCHANGED arrayVars
         \/ \E r \in Ranges : DrawArrays(r)
         \/ UNCHANGED drawVars
BY Zenon
   DEF Next, vars, CreateWindowEx, CreateDIB, FillAndShow, BeginPaint, BitBlt, EndPaint,
       Destroyed, DeleteZ, NewZ, SizeZ, PaintBackground, ClearZ, Fragment, EndRaster,
       Present, HelperSteps, HelperTurn, HelperDraws, HelperTouches, TurnEnds, HandleState,
       HandleEnd, HandleClear, PresentClear, ParseReleased, StartRender, spurs_start,
       SignalExit, vm_shutdown, BeginBatch

\* What a DRAW_ARRAYS appends.
LEMMA RangeAppended ==
  ASSUME DrawTypeOK, NEW r \in Ranges, DrawArrays(r)
  PROVE  /\ r.first \in Nat /\ r.cnt \in Nat \ {0}
         /\ asked' \in Seq(Nat) /\ Len(asked') = Len(asked) + r.cnt
         /\ \A i \in 1 .. Len(asked) : asked'[i] = asked[i]
         /\ \A i \in Len(asked) + 1 .. Len(asked) + r.cnt :
              asked'[i] = r.first + (i - Len(asked)) - 1
<1>1. r.first \in Nat /\ r.cnt \in Nat \ {0}
  BY DrawAssumption
<1>2. Vertices(r) \in Seq(Nat) /\ Len(Vertices(r)) = r.cnt
  BY <1>1 DEF Vertices
<1>3. \A i \in 1 .. r.cnt : Vertices(r)[i] = r.first + i - 1
  BY <1>1 DEF Vertices
<1>4. asked' = asked \o Vertices(r) /\ asked \in Seq(Nat)
  BY DEF DrawArrays, DrawTypeOK
<1> QED BY SMTT(30), <1>1, <1>2, <1>3, <1>4

\* Either name of an array is found again.
LEMMA NamesFound ==
  ASSUME NEW a \in Arrays, NEW o \in Names(a)
  PROVE  a \in Nat /\ o \in Nat /\ ArrayAt(o) = a
<1>1. a \in Nat /\ IoBase \in Nat /\ IoSize \in Nat
  BY DrawAssumption
<1>2. CASE o \in {i \in 0 .. IoSize - 1 : a = IoBase + i}
  BY <1>1, <1>2 DEF ArrayAt
<1>3. CASE o \in {i \in {a} : i >= IoSize}
  BY <1>1, <1>3 DEF ArrayAt
<1> QED BY <1>2, <1>3 DEF Names

LEMMA DrawTypes == DrawTypeOK /\ [Next]_vars => DrawTypeOK'
<1> SUFFICES ASSUME DrawTypeOK, [Next]_vars PROVE DrawTypeOK'
  OBVIOUS
<1>1. CASE \E a \in Arrays : SetVertexOffset(a)
  <2>1. PICK a \in Arrays : SetVertexOffset(a)
    BY <1>1
  <2>2. io_offset' \in Nat /\ array' \in Nat
    BY <2>1, NamesFound DEF SetVertexOffset
  <2> QED BY <2>1, <2>2 DEF DrawTypeOK, SetVertexOffset
<1>2. CASE ResetAccumulator /\ UNCHANGED arrayVars
  <2>1. asked' \in Seq(Nat)
    BY <1>2 DEF ResetAccumulator
  <2> QED BY <1>2, <2>1 DEF DrawTypeOK, ResetAccumulator, arrayVars
<1>3. ASSUME NEW r \in Ranges, DrawArrays(r) PROVE DrawTypeOK'
  <2>1. asked' \in Seq(Nat) /\ r.cnt \in Nat
    BY <1>3, RangeAppended
  <2>2. total' \in Nat
    BY <1>3, <2>1 DEF DrawArrays, DrawTypeOK
  <2>3. start' \in {s.first : s \in Ranges} \cup {NoStart}
    BY <1>3 DEF DrawArrays, FirstStart, DrawTypeOK
  <2> QED BY <1>3, <2>1, <2>2, <2>3 DEF DrawArrays, DrawTypeOK, arrayVars
<1>4. CASE UNCHANGED drawVars
  BY <1>4 DEF drawVars, arrayVars, DrawTypeOK
<1> QED BY <1>1, <1>2, <1>3, <1>4, DrawSteps

LEMMA NextBatching == DrawTypeOK /\ Batching /\ [Next]_vars => Batching'
<1> SUFFICES ASSUME DrawTypeOK, Batching, [Next]_vars PROVE Batching'
  OBVIOUS
<1>0. array' = ArrayAt(io_offset)'
  <2>1. CASE UNCHANGED arrayVars
    BY <2>1 DEF Batching, arrayVars, ArrayAt
  <2>2. ASSUME NEW a \in Arrays, SetVertexOffset(a) PROVE array' = ArrayAt(io_offset)'
    BY <2>2, NamesFound DEF SetVertexOffset, ArrayAt
  <2>3. \/ UNCHANGED arrayVars
        \/ \E a \in Arrays : SetVertexOffset(a)
    BY DrawSteps DEF DrawArrays, drawVars, arrayVars
  <2> QED BY <2>1, <2>2, <2>3
<1>1. CASE UNCHANGED <<start, total, asked>>
  BY <1>0, <1>1 DEF Batching, Consecutive
<1>2. CASE ResetAccumulator
  BY <1>0, <1>2 DEF ResetAccumulator, Batching
<1>3. ASSUME NEW r \in Ranges, DrawArrays(r) PROVE Batching'
  <2>0. /\ r.first \in Nat /\ r.cnt \in Nat \ {0}
        /\ asked' \in Seq(Nat) /\ Len(asked') = Len(asked) + r.cnt
        /\ \A i \in 1 .. Len(asked) : asked'[i] = asked[i]
        /\ \A i \in Len(asked) + 1 .. Len(asked) + r.cnt :
             asked'[i] = r.first + (i - Len(asked)) - 1
        /\ Len(asked) \in Nat
    BY <1>3, RangeAppended DEF DrawTypeOK
  <2>1. total' = Len(asked')
    BY <1>3, <2>0 DEF DrawArrays, Batching
  <2>2. CASE Len(asked) = 0
    <3>1. start' = r.first
      BY <1>3, <2>2 DEF DrawArrays, FirstStart, Batching
    <3>2. \A i \in 1 .. Len(asked') : asked'[i] = start' + i - 1
      BY <2>0, <2>2, <3>1
    <3> QED BY <1>0, <2>0, <2>1, <2>2, <3>1, <3>2 DEF Batching
  <2>3. CASE Len(asked) > 0
    <3>1. start' = start /\ start \in Nat
      BY <1>3, <2>3 DEF DrawArrays, FirstStart, Batching, NoStart
    <3>2. ASSUME \A i \in 1 .. Len(asked') - 1 : asked'[i + 1] = asked'[i] + 1,
                 NEW i \in 1 .. Len(asked')
          PROVE  asked'[i] = start' + i - 1
      <4>1. \A j \in 1 .. Len(asked) : asked[j] = start + j - 1
        <5>1. ASSUME NEW j \in 1 .. Len(asked) - 1 PROVE asked[j + 1] = asked[j] + 1
          <6>1. j \in 1 .. Len(asked') - 1 /\ j \in 1 .. Len(asked) /\ j + 1 \in 1 .. Len(asked)
            BY <2>0
          <6> QED BY <2>0, <3>2, <6>1
        <5> QED BY <5>1 DEF Batching, Consecutive
      <4>2. r.first = start + Len(asked)
        <5> DEFINE n == Len(asked)
        <5>1. n \in 1 .. Len(asked') - 1 /\ n \in 1 .. n /\ n + 1 \in n + 1 .. n + r.cnt
          BY SMTT(30), <2>0, <2>3
        <5>2. asked'[n + 1] = asked'[n] + 1 /\ asked'[n] = start + n - 1
          BY <2>0, <3>2, <4>1, <5>1
        <5>3. asked'[n + 1] = r.first + (n + 1 - n) - 1
          <6>1. ASSUME NEW j \in n + 1 .. n + r.cnt
                PROVE  asked'[j] = r.first + (j - n) - 1
            BY ONLY <2>0, <6>1
          <6> QED BY ONLY <5>1, <6>1
        <5> QED BY <2>0, <3>1, <5>2, <5>3
      <4>3. CASE i \in 1 .. Len(asked)
        BY <2>0, <3>1, <4>1, <4>3
      <4>4. CASE i \in Len(asked) + 1 .. Len(asked) + r.cnt
        <5>1. asked'[i] = r.first + (i - Len(asked)) - 1
          BY <2>0, <4>4
        <5> QED BY <2>0, <3>1, <4>2, <4>4, <5>1
      <4> QED BY <2>0, <4>3, <4>4
    <3> QED BY <1>0, <2>0, <2>1, <2>3, <3>1, <3>2 DEF Batching, Consecutive
  <2> QED BY <2>0, <2>2, <2>3
<1> QED BY <1>1, <1>2, <1>3, DrawSteps DEF SetVertexOffset, drawVars

-----------------------------------------------------------------------------
LEMMA Moves ==
  ASSUME TypeOK, NEW d \in Drawers, NEW where \in Places, Goto(d, where)
  PROVE  /\ pc' \in [Drawers -> Places] /\ pc'[d] = where
         /\ \A e \in Drawers \ {d} : pc'[e] = pc[e]
  BY DEF TypeOK, Goto

LEMMA FramesBegin ==
  ASSUME TypeOK, NEW d \in Drawers, FrameBegin(d)
  PROVE  /\ pc'[d] = IF sized THEN "paint" ELSE "delete"
         /\ \A e \in Drawers \ {d} : pc'[e] = pc[e]
<1>1. CASE sized
  BY <1>1, Moves DEF FrameBegin, HasRoom
<1>2. CASE ~sized
  BY <1>2, Moves DEF FrameBegin, HasRoom
<1> QED BY <1>1, <1>2

\* A helper between frames begins one, or only moves between its turns.
LEMMA HelperMoves ==
  ASSUME TypeOK, NEW d \in Drawers, HelperSteps(d)
  PROVE  /\ pc[d] \in {"idle", "turn"}
         /\ UNCHANGED <<main, win, dirty, behind, running, late, missed, fb, z, nearest,
                        g_z_buf, sized>>
         /\ \/ /\ FrameBegin(d) /\ pc[d] = "turn" /\ main # "down"
               /\ UNCHANGED <<broken, inflight>>
            \/ /\ pc'[d] \in {"idle", "turn"}
               /\ \A e \in Drawers \ {d} : pc'[e] = pc[e]
               /\ UNCHANGED <<mixed, contested>>
               /\ \/ broken' = "guest memory" /\ main = "down" /\ pc' = pc
                     /\ inflight' = inflight /\ pc[d] = "turn"
                  \/ broken' = broken /\ pc[d] = "idle" /\ main \notin {"exit", "down"}
                     /\ inflight' = inflight
                  \/ broken' = broken /\ pc'[d] = "idle" /\ inflight' = inflight \ {d}
<1>1. CASE HelperTurn(d)
  <2>1. /\ pc'[d] = "turn"
        /\ \A e \in Drawers \ {d} : pc'[e] = pc[e]
    BY <1>1, Moves DEF HelperTurn
  <2> QED BY <1>1, <2>1
          DEF HelperTurn, g_threads_should_exit, window, pixels, zbuffer, history
<1>2. CASE HelperDraws(d)
  BY <1>2 DEF HelperDraws, window, pixels, zbuffer
<1>3. CASE HelperTouches(d)
  BY <1>3 DEF HelperTouches, window, pixels, zbuffer, history
<1>4. CASE TurnEnds(d)
  <2>1. /\ pc'[d] = "idle"
        /\ \A e \in Drawers \ {d} : pc'[e] = pc[e]
    BY <1>4, Moves DEF TurnEnds
  <2> QED BY <1>4, <2>1 DEF TurnEnds, window, pixels, zbuffer
<1> QED BY <1>1, <1>2, <1>3, <1>4 DEF HelperSteps

\* The game's steps beside frames.
LEMMA ClearMoves ==
  ASSUME TypeOK, HandleClear \/ PresentClear
  PROVE  /\ {pc[Game], pc'[Game]} = {"idle", "clear"}
         /\ \A e \in Drawers \ {Game} : pc'[e] = pc[e]
         /\ UNCHANGED <<main, win, running, late, contested, missed, inflight, broken, z,
                        nearest, g_z_buf, sized>>
         /\ fb = Null <=> fb' = Null
<1>1. Game \in Drawers
  BY DEF Drawers
<1>2. CASE HandleClear
  <2>1. /\ pc'[Game] = "clear"
        /\ \A e \in Drawers \ {Game} : pc'[e] = pc[e]
    BY <1>1, <1>2, Moves DEF HandleClear
  <2>2. fb # Null /\ fb' = Plain /\ pc[Game] = "idle"
    BY <1>2, Zenon DEF HandleClear, GameRuns
  <2>3. UNCHANGED <<main, win, running, late, contested, missed, inflight, broken, z,
                    nearest, g_z_buf, sized>>
    BY <1>2 DEF HandleClear, zbuffer, history
  <2> QED BY <2>1, <2>2, <2>3
<1>3. CASE PresentClear
  <2>1. /\ pc'[Game] = "idle"
        /\ \A e \in Drawers \ {Game} : pc'[e] = pc[e]
    BY <1>1, <1>3, Moves DEF PresentClear
  <2>2. UNCHANGED <<main, win, running, late, contested, missed, inflight, broken, z,
                    nearest, g_z_buf, sized, fb>>
    BY <1>3 DEF PresentClear, zbuffer, history, pixels
  <2>3. pc[Game] = "clear"
    BY <1>3 DEF PresentClear
  <2> QED BY <2>1, <2>2, <2>3
<1> QED BY <1>2, <1>3

\* The steps of a drawer, with what each of them finds and leaves of the frame.
DrawerSteps(d) == \/ DeleteZ(d) \/ NewZ(d) \/ SizeZ(d) \/ PaintBackground(d) \/ ClearZ(d)
                  \/ Fragment(d) \/ EndRaster(d) \/ Present(d)

LEMMA Cases ==
  ASSUME [Next]_vars
  PROVE  \/ CreateWindowEx \/ CreateDIB \/ FillAndShow \/ BeginPaint \/ BitBlt \/ EndPaint
         \/ Destroyed \/ HandleState \/ HandleEnd \/ HandleClear \/ PresentClear
         \/ ParseReleased \/ StartRender
         \/ spurs_start \/ SignalExit \/ vm_shutdown \/ UNCHANGED vars
         \/ \E d \in Drawers : DrawerSteps(d) \/ HelperSteps(d)
  BY Zenon DEF Next, DrawerSteps, HelperSteps

\* Only Next as a whole asks whether something undefined has happened.
LEMMA Safe == ASSUME [Next]_vars PROVE broken = "" \/ UNCHANGED vars
  BY Zenon DEF Next

LEMMA MovesOfAll ==
  ASSUME TypeOK, [Next]_vars
  PROVE  \/ UNCHANGED pc
         \/ \E d \in Drawers, w \in Places : Goto(d, w)
<1>1. Game \in Drawers
  BY DEF Drawers
<1> QED
  BY <1>1, Cases
     DEF DrawerSteps, CreateWindowEx, CreateDIB, FillAndShow, BeginPaint, BitBlt, EndPaint,
         Destroyed, DeleteZ, NewZ, SizeZ, PaintBackground, ClearZ, Fragment, EndRaster,
         Present, HelperSteps, HelperTurn, HelperDraws, HelperTouches, TurnEnds,
         HandleState, HandleEnd, HandleClear, PresentClear, ParseReleased, StartRender,
         spurs_start, SignalExit, vm_shutdown, vars, FrameBegin

\* What a fragment does to the pixel and to the history of its frame.
LEMMA Fragments ==
  ASSUME TypeOK, NEW d \in Drawers, Fragment(d)
  PROVE  /\ fb' \in Depths \cup {Plain, Null} /\ z' \in Depths
         /\ nearest' \in [Drawers -> Depths]
         /\ \A e \in Drawers \ {d} : nearest'[e] = nearest[e]
         /\ fb # Null => fb' # Null
         /\ d \notin mixed /\ fb = nearest[d] /\ z = nearest[d]
              => fb' = nearest'[d] /\ z' = nearest'[d]
<1>1. PICK a \in Depths :
        /\ nearest' = [nearest EXCEPT ![d] = IF d \notin mixed /\ a > @ THEN a ELSE @]
        /\ IF NearerDepth(a) THEN z' = a /\ fb' = a /\ behind' = TRUE
                             ELSE UNCHANGED <<z, fb, behind>>
  BY Zenon DEF Fragment
<1>2. a \in Depths
  OBVIOUS
<1>3. \/ a > z /\ z' = a /\ fb' = a
      \/ ~(a > z) /\ z' = z /\ fb' = fb
  BY <1>1 DEF NearerDepth
<1>4. /\ nearest' \in [Drawers -> Depths]
      /\ nearest'[d] = IF d \notin mixed /\ a > nearest[d] THEN a ELSE nearest[d]
      /\ \A e \in Drawers \ {d} : nearest'[e] = nearest[e]
  BY <1>1, <1>2 DEF TypeOK
<1>5. /\ fb \in Depths \cup {Plain, Null} /\ z \in Depths
      /\ nearest[d] \in Depths
  BY DEF TypeOK
<1>6. /\ fb' \in Depths \cup {Plain, Null} /\ z' \in Depths
      /\ fb # Null => fb' # Null
  BY <1>2, <1>3, <1>5
<1>7. d \notin mixed /\ fb = nearest[d] /\ z = nearest[d]
        => fb' = nearest'[d] /\ z' = nearest'[d]
  BY <1>3, <1>4
<1> QED BY <1>4, <1>6, <1>7

\* A frame joins those that it overlaps in being mixed; a write from outside the
\* frames mixes whatever is being drawn.
LEMMA NextMixing ==
  ASSUME TypeOK, Mixing, [Next]_vars
  PROVE  Mixing'
<1>0. mixed \subseteq Drawers /\ Game \in Drawers
  BY DEF TypeOK, Disturbed, Drawers
<1>1. ASSUME NEW d \in Drawers, FrameBegin(d), pc[d] \in {"idle", "turn"}
      PROVE  Mixing'
  <2>1. PICK w \in {"paint", "delete"} : Goto(d, w)
    BY <1>1 DEF FrameBegin
  <2>2. /\ pc' \in [Drawers -> Places] /\ pc'[d] = w
        /\ \A e \in Drawers \ {d} : pc'[e] = pc[e]
    BY <2>1, Moves
  <2>3. mixed' = IF Disturbed = {} THEN mixed ELSE Disturbed \cup {d}
    BY <1>1 DEF FrameBegin
  <2> QED BY <1>0, <2>1, <2>2, <2>3 DEF Mixing, Disturbed, InFrame
<1>2. CASE mixed' = Disturbed /\ UNCHANGED pc
  BY <1>2 DEF Mixing, Disturbed, InFrame
<1>3. ASSUME NEW d \in Drawers, NEW w \in {"idle", "turn"}, Goto(d, w),
             mixed' = mixed \ {d}
      PROVE  Mixing'
  <2>1. /\ pc' \in [Drawers -> Places] /\ pc'[d] = w
        /\ \A e \in Drawers \ {d} : pc'[e] = pc[e]
    BY <1>3, Moves
  <2> QED BY <1>0, <1>3, <2>1 DEF Mixing, InFrame
<1>4. ASSUME NEW d \in Drawers, NEW w \in Places, Goto(d, w), mixed' = mixed,
             w \notin {"idle", "turn", "clear"}, InFrame(d)
      PROVE  Mixing'
  <2>1. /\ pc' \in [Drawers -> Places] /\ pc'[d] = w
        /\ \A e \in Drawers \ {d} : pc'[e] = pc[e]
    BY <1>4, Moves
  <2>2. pc[d] \in Places
    BY DEF TypeOK
  <2> QED BY <1>0, <1>4, <2>1, <2>2 DEF Mixing, InFrame
<1>5. CASE UNCHANGED <<pc, mixed>>
  BY <1>0, <1>5 DEF Mixing, InFrame
<1>6. ASSUME NEW d \in Drawers, DrawerSteps(d)
      PROVE  Mixing'
  <2>1. CASE DeleteZ(d)
    BY <1>4, <2>1 DEF DeleteZ, InFrame
  <2>2. CASE NewZ(d)
    BY <1>4, <2>2 DEF NewZ, InFrame
  <2>3. CASE SizeZ(d)
    BY <1>4, <2>3 DEF SizeZ, InFrame
  <2>4. CASE PaintBackground(d)
    BY <1>4, <2>4 DEF PaintBackground, InFrame
  <2>5. CASE ClearZ(d)
    BY <1>4, <2>5 DEF ClearZ, InFrame
  <2>6. CASE EndRaster(d)
    BY <1>4, <2>6 DEF EndRaster, InFrame
  <2>7. CASE Fragment(d)
    BY <1>5, <2>7 DEF Fragment
  <2>8. CASE Present(d)
    <3>1. \E w \in {"idle", "turn"} : Goto(d, w) /\ mixed' = mixed \ {d}
      BY <2>8 DEF Present
    <3> QED BY <1>3, <3>1
  <2> QED
    BY <1>6, <2>1, <2>2, <2>3, <2>4, <2>5, <2>6, <2>7, <2>8, Zenon DEF DrawerSteps
<1>7. ASSUME NEW d \in Drawers, HelperSteps(d)
      PROVE  Mixing'
  <2>1. CASE FrameBegin(d)
    BY <1>1, <1>7, <2>1, HelperMoves
  <2>2. CASE /\ pc[d] \in {"idle", "turn"} /\ pc'[d] \in {"idle", "turn"}
             /\ \A e \in Drawers \ {d} : pc'[e] = pc[e]
             /\ mixed' = mixed
    BY <1>0, <2>2 DEF Mixing, InFrame
  <2> QED BY <1>7, <2>1, <2>2, HelperMoves
<1>8. \/ FrameBegin(Game) /\ pc[Game] = "idle"
      \/ mixed' = Disturbed /\ UNCHANGED pc
      \/ HandleClear \/ PresentClear
      \/ UNCHANGED <<pc, mixed>>
      \/ \E d \in Drawers : DrawerSteps(d) \/ HelperSteps(d)
  BY Cases
     DEF CreateWindowEx, CreateDIB, FillAndShow, BeginPaint, BitBlt, EndPaint, Destroyed,
         HandleState, HandleEnd, HandleClear, PresentClear, ParseReleased, GameRuns,
         StartRender, spurs_start, SignalExit, vm_shutdown, vars
<1>9. CASE HandleClear \/ PresentClear
  <2>1. mixed' = Disturbed \/ mixed' = mixed
    BY <1>9 DEF HandleClear, PresentClear
  <2> QED BY <1>0, <1>9, <2>1, ClearMoves DEF Mixing, Disturbed, InFrame
<1> QED BY <1>0, <1>1, <1>2, <1>5, <1>6, <1>7, <1>8, <1>9

\* What each variable can become, for the variables that several threads write.
LEMMA Types == TypeOK /\ Mixing /\ [Next]_vars => TypeOK'
<1> SUFFICES ASSUME TypeOK, Mixing, [Next]_vars PROVE TypeOK'
  OBVIOUS
<1> USE Cases DEF DrawerSteps
<1>1. DrawTypeOK'
  BY DrawTypes DEF TypeOK
<1>2. pc' \in [Drawers -> Places]
  <2>1. CASE UNCHANGED pc
    BY <2>1 DEF TypeOK
  <2>2. ASSUME NEW d \in Drawers, NEW w \in Places, Goto(d, w)
        PROVE  pc' \in [Drawers -> Places]
    BY <2>2, Moves
  <2> QED BY <2>1, <2>2, MovesOfAll
<1>3. main' \in {"sleep", "run", "exit", "down"} /\ running' \subseteq Helpers
  BY ZenonT(40) DEF TypeOK, CreateWindowEx, CreateDIB, FillAndShow, BeginPaint, BitBlt, EndPaint,
         Destroyed, DeleteZ, NewZ, SizeZ, PaintBackground, ClearZ, Fragment, EndRaster,
         Present, HelperSteps, HelperTurn, HelperDraws, HelperTouches, TurnEnds,
         HandleState, HandleEnd, HandleClear, PresentClear, ParseReleased, StartRender,
         spurs_start, SignalExit, vm_shutdown, vars, window, zbuffer, pixels, history, Helpers
<1>4. win' \in {"start", "failed", "window", "fill", "loop", "blit", "painted", "closed"}
  BY ZenonT(40) DEF TypeOK, CreateWindowEx, CreateDIB, FillAndShow, BeginPaint, BitBlt, EndPaint,
         Destroyed, DeleteZ, NewZ, SizeZ, PaintBackground, ClearZ, Fragment, EndRaster,
         Present, HelperSteps, HelperTurn, HelperDraws, HelperTouches, TurnEnds,
         HandleState, HandleEnd, HandleClear, PresentClear, ParseReleased, StartRender,
         spurs_start, SignalExit, vm_shutdown, vars, window, zbuffer, pixels, history
<1>5. g_z_buf' \in {"null", "buffer", "deleted"}
  BY DEF TypeOK, CreateWindowEx, CreateDIB, FillAndShow, BeginPaint, BitBlt, EndPaint,
         Destroyed, DeleteZ, NewZ, SizeZ, PaintBackground, ClearZ, Fragment, EndRaster,
         Present, HelperSteps, HelperTurn, HelperDraws, HelperTouches, TurnEnds,
         HandleState, HandleEnd, HandleClear, PresentClear, ParseReleased, StartRender,
         spurs_start, SignalExit, vm_shutdown, vars, window, zbuffer, pixels, history
<1>6. \/ \E d \in Drawers : Fragment(d)
      \/ /\ fb' \in Depths \cup {Plain, Null} /\ z' \in Depths
         /\ nearest' \in [Drawers -> Depths]
  <2>1. fb \in Depths \cup {Plain, Null} /\ z \in Depths /\ nearest \in [Drawers -> Depths]
    BY DEF TypeOK
  <2>2. ASSUME NEW d \in Drawers, DrawerSteps(d)
        PROVE  \/ Fragment(d)
               \/ /\ fb' \in Depths \cup {Plain, Null} /\ z' \in Depths
                  /\ nearest' \in [Drawers -> Depths]
    <3>1. CASE DeleteZ(d) \/ SizeZ(d) \/ EndRaster(d)
      BY <2>1, <3>1 DEF DeleteZ, SizeZ, EndRaster, pixels
    <3>2. CASE NewZ(d)
      BY <2>1, <3>2 DEF NewZ
    <3>3. CASE PaintBackground(d)
      <4>1. fb' = (IF fb = Null THEN Null ELSE Far) /\ z' = z /\ nearest' = nearest
        BY <3>3, Zenon DEF PaintBackground
      <4> QED BY <2>1, <4>1, FramesAssumption
    <3>4. CASE ClearZ(d)
      <4>1. fb' = fb /\ z' = Far /\ nearest' = nearest
        BY <3>4, Zenon DEF ClearZ, InitialDepth
      <4> QED BY <2>1, <4>1, FramesAssumption
    <3>5. CASE Present(d)
      <4>1. fb' = fb /\ z' = z /\ nearest' = [nearest EXCEPT ![d] = Far]
        BY <3>5, Zenon DEF Present
      <4> QED BY <2>1, <4>1, FramesAssumption
    <3> QED BY <2>2, <3>1, <3>2, <3>3, <3>4, <3>5, Zenon
  <2>3. \/ \E d \in Drawers : DrawerSteps(d)
        \/ fb' \in {fb, Plain, Null} /\ z' = z /\ nearest' = nearest
    BY
       DEF CreateWindowEx, CreateDIB, FillAndShow, BeginPaint, BitBlt, EndPaint, Destroyed,
           HelperSteps, HelperTurn, HelperDraws, HelperTouches, TurnEnds, HandleState,
           HandleEnd, HandleClear, PresentClear, ParseReleased, StartRender, spurs_start,
           SignalExit, vm_shutdown, vars, pixels
  <2> QED BY <2>1, <2>2, <2>3
<1>7. /\ fb' \in Depths \cup {Plain, Null} /\ z' \in Depths
      /\ nearest' \in [Drawers -> Depths]
  BY <1>6, Fragments
<1>8. broken' \in {"", "framebuffer", "z-buffer", "guest memory"}
  BY
     DEF TypeOK, Undefined, CreateWindowEx, CreateDIB, FillAndShow, BeginPaint, BitBlt,
         EndPaint, Destroyed, DeleteZ, NewZ, SizeZ, PaintBackground, ClearZ, Fragment,
         EndRaster, Present, HelperSteps, HelperTurn, HelperDraws, HelperTouches, TurnEnds,
         HandleState, HandleEnd, HandleClear, PresentClear, ParseReleased, StartRender,
         spurs_start, SignalExit, vm_shutdown, vars, window, zbuffer, pixels, history
<1>9. sized' \in BOOLEAN
  BY Zenon
     DEF TypeOK, CreateWindowEx, CreateDIB, FillAndShow, BeginPaint, BitBlt, EndPaint,
         Destroyed, DeleteZ, NewZ, SizeZ, PaintBackground, ClearZ, Fragment, EndRaster,
         Present, HelperSteps, HelperTurn, HelperDraws, HelperTouches, TurnEnds,
         HandleState, HandleEnd, HandleClear, PresentClear, ParseReleased, StartRender,
         spurs_start, SignalExit, vm_shutdown, vars, window, zbuffer, pixels, history
<1>10. dirty' \in BOOLEAN /\ behind' \in BOOLEAN
  BY ZenonT(40)
     DEF TypeOK, rsx_present_frame, Validates, CreateWindowEx, CreateDIB, FillAndShow,
         BeginPaint, BitBlt, EndPaint, Destroyed, DeleteZ, NewZ, SizeZ, PaintBackground,
         ClearZ, Fragment, EndRaster, Present, HelperSteps, HelperTurn, HelperDraws,
         HelperTouches, TurnEnds, HandleState, HandleEnd, HandleClear, PresentClear,
         ParseReleased, StartRender, spurs_start, SignalExit, vm_shutdown, vars, window,
         zbuffer, pixels, history
<1>11. late' \in BOOLEAN /\ contested' \in BOOLEAN
  BY ZenonT(40)
     DEF TypeOK, FrameBegin, CreateWindowEx, CreateDIB, FillAndShow, BeginPaint, BitBlt,
         EndPaint, Destroyed, DeleteZ, NewZ, SizeZ, PaintBackground, ClearZ, Fragment,
         EndRaster, Present, HelperSteps, HelperTurn, HelperDraws, HelperTouches, TurnEnds,
         HandleState, HandleEnd, HandleClear, PresentClear, ParseReleased, StartRender,
         spurs_start, SignalExit, vm_shutdown, vars, window, zbuffer, pixels, history
<1>12. missed' \in BOOLEAN /\ inflight' \subseteq Helpers
  BY Zenon
     DEF TypeOK, CreateWindowEx, CreateDIB, FillAndShow, BeginPaint, BitBlt, EndPaint,
         Destroyed, DeleteZ, NewZ, SizeZ, PaintBackground, ClearZ, Fragment, EndRaster,
         Present, HelperSteps, HelperTurn, HelperDraws, HelperTouches, TurnEnds,
         HandleState, HandleEnd, HandleClear, PresentClear, ParseReleased, StartRender,
         spurs_start, SignalExit, vm_shutdown, vars, window, zbuffer, pixels, history
<1>13. mixed' \subseteq Disturbed'
  BY NextMixing DEF Mixing, Disturbed, InFrame
<1> QED
  BY <1>1, <1>2, <1>3, <1>6, <1>7, <1>8, <1>9, <1>10, <1>11, <1>12, <1>13,
     <1>4, <1>5
     DEF TypeOK

-----------------------------------------------------------------------------
\* Steps of a drawer leave the window, main and the history of the start alone.
LEMMA DrawersKeep ==
  ASSUME NEW d \in Drawers, DrawerSteps(d)
  PROVE  UNCHANGED <<main, win, running, late, contested, missed, inflight>>
  BY Zenon
     DEF DrawerSteps, DeleteZ, NewZ, SizeZ, PaintBackground, ClearZ, Fragment, EndRaster,
         Present, window, history

\* Where each step leads, and what it does to the colour of the pixel.
LEMMA ColourSteps ==
  ASSUME TypeOK, NEW d \in Drawers, DrawerSteps(d), broken = ""
  PROVE  \/ /\ pc[d] \in {"delete", "new", "size", "clear z"}
            /\ pc'[d] \in {"new", "size", "paint", "raster"}
            /\ pc[d] = "clear z" <=> pc'[d] = "raster"
            /\ fb' = fb /\ broken' # "framebuffer"
         \/ /\ pc[d] = "paint" /\ pc'[d] = "clear z"
            /\ \/ fb = Null /\ fb' = Null /\ broken' = "framebuffer"
               \/ fb # Null /\ fb' = Far /\ broken' = ""
         \/ /\ pc[d] = "raster" /\ pc'[d] \in {"raster", "present"}
            /\ (fb # Null => fb' # Null) /\ broken' # "framebuffer"
         \/ /\ pc[d] = "present" /\ pc'[d] \in {"idle", "turn"}
            /\ fb' = fb /\ broken' = ""
<1>1. CASE DeleteZ(d)
  <2>1. broken' # "framebuffer" /\ fb' = fb /\ pc[d] = "delete"
    BY <1>1 DEF DeleteZ, Undefined, pixels
  <2>2. pc'[d] = "new"
    BY <1>1, Moves DEF DeleteZ
  <2> QED BY <2>1, <2>2
<1>2. CASE NewZ(d)
  <2>1. pc'[d] = "size"
    BY <1>2, Moves DEF NewZ
  <2> QED BY <1>2, <2>1 DEF NewZ
<1>3. CASE SizeZ(d)
  <2>1. pc'[d] = "paint"
    BY <1>3, Moves DEF SizeZ
  <2> QED BY <1>3, <2>1 DEF SizeZ, pixels
<1>4. CASE PaintBackground(d)
  <2>1. /\ pc[d] = "paint" /\ fb' = (IF fb = Null THEN Null ELSE Far)
        /\ broken' = IF fb = Null THEN "framebuffer" ELSE ""
    BY <1>4, Zenon DEF PaintBackground, Undefined
  <2>2. pc'[d] = "clear z"
    BY <1>4, Moves DEF PaintBackground
  <2> QED BY <2>1, <2>2
<1>5. CASE ClearZ(d)
  <2>1. fb' = fb /\ broken' # "framebuffer" /\ pc[d] = "clear z"
    BY <1>5 DEF ClearZ, Undefined
  <2>2. pc'[d] = "raster"
    BY <1>5, Moves DEF ClearZ
  <2> QED BY <2>1, <2>2
<1>6. CASE Fragment(d)
  <2>1. pc' = pc /\ pc[d] = "raster" /\ broken' # "framebuffer"
    BY <1>6 DEF Fragment
  <2> QED BY <1>6, <2>1, Fragments
<1>7. CASE EndRaster(d)
  <2>1. pc'[d] = "present"
    BY <1>7, Moves DEF EndRaster
  <2> QED BY <1>7, <2>1 DEF EndRaster, pixels
<1>8. CASE Present(d)
  <2>1. pc'[d] \in {"idle", "turn"}
    BY <1>8, Moves DEF Present
  <2>2. pc[d] = "present" /\ fb' = fb /\ broken' = broken
    BY <1>8, Zenon DEF Present
  <2> QED BY <2>1, <2>2
<1> QED
  BY <1>1, <1>2, <1>3, <1>4, <1>5, <1>6, <1>7, <1>8, Zenon DEF DrawerSteps

\* Only d moves in a step of d.
LEMMA OnlyOneMoves ==
  ASSUME TypeOK, NEW d \in Drawers, DrawerSteps(d) \/ HelperSteps(d)
  PROVE  \A e \in Drawers \ {d} : pc'[e] = pc[e]
<1>1. pc' = pc \/ \E w \in Places : Goto(d, w)
  BY DEF DrawerSteps, DeleteZ, NewZ, SizeZ, PaintBackground, ClearZ, Fragment, EndRaster,
         Present, HelperSteps, HelperTurn, HelperDraws, HelperTouches, TurnEnds, FrameBegin
<1> QED BY <1>1, Moves

LEMMA HelpersMove ==
  ASSUME TypeOK, NEW d \in Drawers, HelperSteps(d)
  PROVE  /\ pc[d] \in {"idle", "turn"} /\ pc'[d] \in {"idle", "turn", "paint", "delete"}
         /\ UNCHANGED <<main, win, dirty, behind, running, late, missed, fb, z, nearest,
                        g_z_buf, sized>>
BY HelperMoves, FramesBegin

-----------------------------------------------------------------------------
\* A write from outside the frames: the framebuffer is as missing as it was.
LEMMA StillMissing ==
  ASSUME Missing, main' = main, running' = running, pc' = pc, broken' = broken, late' = late,
         fb' = Null => fb = Null, fb = Null => fb' = Null,
         win' \in {"start", "window"} => win \in {"start", "window"}
  PROVE  Missing'
<1>1. main' = "sleep" => running' = {} /\ \A d \in Drawers : pc'[d] = "idle"
  BY DEF Missing
<1>2. win' \in {"start", "window"} => fb' = Null
  BY DEF Missing
<1>3. main' # "sleep" /\ fb' = Null => late'
  BY DEF Missing
<1>4. broken' = "" =>
        \A d \in Drawers : pc'[d] \in {"clear z", "raster", "present"} => fb' # Null
  BY DEF Missing
<1>5. broken' = "framebuffer" => late'
  BY DEF Missing
<1> QED BY <1>1, <1>2, <1>3, <1>4, <1>5, Zenon DEF Missing

LEMMA NextMissing ==
  ASSUME TypeOK, Missing, [Next]_vars
  PROVE  Missing'
<1>1. CASE UNCHANGED vars
  BY <1>1 DEF vars, pixels, window, history, Missing
<1>2. CASE broken = "" /\ \E d \in Drawers : DrawerSteps(d)
  <2>1. PICK d \in Drawers : DrawerSteps(d)
    BY <1>2
  <2>2. pc[d] # "idle" /\ main # "sleep"
    BY <1>2, <2>1, ColourSteps DEF Missing
  <2>3. main' = main /\ win' = win /\ running' = running /\ late' = late
    BY <2>1, DrawersKeep
  <2>4. fb = Null <=> fb' = Null
    <3>1. pc[d] \in {"clear z", "raster", "present"} => fb # Null
      BY <1>2 DEF Missing
    <3>2. fb = Null => fb' = Null
      BY <1>2, <2>1, <3>1, ColourSteps
    <3>3. fb # Null => fb' # Null
      <4>1. fb' = fb \/ fb' = Far \/ (fb # Null => fb' # Null)
        BY <1>2, <2>1, ColourSteps, Zenon
      <4> QED BY <4>1
    <3> QED BY <3>2, <3>3
  <2>5. \A e \in Drawers \ {d} : pc'[e] = pc[e]
    BY <2>1, OnlyOneMoves
  <2>6. ASSUME broken' = "", NEW e \in Drawers, pc'[e] \in {"clear z", "raster", "present"}
        PROVE  fb' # Null
    BY <1>2, <2>1, <2>4, <2>5, <2>6, ColourSteps DEF Missing
  <2>7. broken' = "framebuffer" => late'
    BY <1>2, <2>1, <2>2, <2>3, ColourSteps DEF Missing
  <2> QED BY <2>2, <2>3, <2>4, <2>6, <2>7 DEF Missing
<1>3. CASE broken = "" /\ \E d \in Drawers : HelperSteps(d)
  <2>1. PICK d \in Drawers : HelperSteps(d)
    BY <1>3
  <2>2. /\ pc'[d] \in {"idle", "turn", "paint", "delete"}
        /\ main' = main /\ win' = win /\ running' = running /\ late' = late /\ fb' = fb
    BY <2>1, HelpersMove
  <2>3. main # "sleep" /\ broken' # "framebuffer"
    BY <1>3, <2>1 DEF HelperSteps, HelperTurn, HelperDraws, HelperTouches, TurnEnds, Missing
  <2>4. \A e \in Drawers \ {d} : pc'[e] = pc[e]
    BY <2>1, OnlyOneMoves
  <2> QED BY <1>3, <2>2, <2>3, <2>4 DEF Missing
<1>4. CASE broken = "" /\ HandleEnd
  <2>1. main # "sleep" /\ UNCHANGED <<main, win, running, late, fb, broken>>
    BY <1>4 DEF HandleEnd, GameRuns, window, pixels
  <2>2. /\ pc'[Game] \in {"paint", "delete"}
        /\ \A e \in Drawers \ {Game} : pc'[e] = pc[e]
    BY <1>4, FramesBegin DEF HandleEnd, Drawers
  <2> QED BY <1>4, <2>1, <2>2 DEF Missing
<1>5. CASE broken = "" /\ (CreateWindowEx \/ CreateDIB \/ FillAndShow)
  <2>1. CASE CreateWindowEx
    BY <1>5, <2>1 DEF CreateWindowEx, Missing, pixels, history
  <2>2. CASE CreateDIB
    <3>1. \A d \in Drawers : pc[d] \notin {"clear z", "raster", "present"} \/ fb # Null
      BY <1>5 DEF Missing
    <3>2. /\ win = "window" /\ win' = "fill" /\ fb = Null /\ main' = main /\ running' = running
          /\ pc' = pc /\ broken' = broken /\ late' = late
      BY <2>2 DEF CreateDIB, Missing, history
    <3> QED BY <1>5, <3>1, <3>2 DEF Missing
  <2>3. CASE FillAndShow
    <3>1. /\ win' = "loop" /\ main' = main /\ running' = running /\ pc' = pc
          /\ broken' = broken /\ late' = late /\ fb' = (IF fb = Null THEN Null ELSE Plain)
      BY <2>3, Zenon DEF FillAndShow, history
    <3>2. (fb = Null => fb' = Null) /\ (fb' = Null => fb = Null)
      BY <3>1
    <3> QED BY <3>1, <3>2, StillMissing
  <2> QED BY <1>5, <2>1, <2>2, <2>3, Zenon
<1>6. CASE broken = "" /\ (BeginPaint \/ BitBlt \/ EndPaint \/ Destroyed)
  BY <1>6 DEF BeginPaint, BitBlt, EndPaint, Destroyed, Missing, pixels, history
<1>7. CASE broken = "" /\ HandleState
  BY <1>7, StillMissing DEF HandleState, window, pixels, history
<1>8. CASE broken = "" /\ (HandleClear \/ PresentClear)
  <2>1. main # "sleep"
    BY <1>8 DEF HandleClear, PresentClear, GameRuns, Missing, Drawers
  <2> QED BY <1>8, <2>1, ClearMoves DEF Missing
<1>9. CASE broken = "" /\ ParseReleased
  BY <1>9 DEF ParseReleased, Missing, window, pixels, history
<1>10. CASE broken = "" /\ StartRender
  <2>1. main' = "run" /\ UNCHANGED <<win, fb, pc, broken>> /\ (fb = Null => late')
    BY <1>10, Zenon DEF StartRender, pixels, window
  <2>2. pc' = pc /\ win' = win /\ fb' = fb
    BY <2>1
  <2>3. main' # "sleep" /\ broken' # "framebuffer"
    BY <1>10, <2>1
  <2>4. win \in {"start", "window"} => fb = Null
    BY DEF Missing
  <2>5. broken = "" => \A d \in Drawers : pc[d] \in {"clear z", "raster", "present"} => fb # Null
    BY DEF Missing
  <2> QED BY <1>10, <2>1, <2>2, <2>3, <2>4, <2>5, Zenon DEF Missing
<1>11. CASE broken = "" /\ (spurs_start \/ SignalExit \/ vm_shutdown)
  <2>1. /\ main # "sleep" /\ main' # "sleep"
        /\ UNCHANGED <<win, fb, pc, broken, late>>
    BY <1>11 DEF spurs_start, SignalExit, vm_shutdown, GameRuns, pixels, window, history
  <2> QED BY <1>11, <2>1 DEF Missing
<1>12. CASE broken = ""
  <2>1. CASE \E d \in Drawers : DrawerSteps(d) \/ HelperSteps(d)
    BY <1>2, <1>3, <1>12, <2>1
  <2> QED
    BY <1>1, <1>4, <1>5, <1>6, <1>7, <1>8, <1>9, <1>10, <1>11, <1>12, <2>1, Cases, Zenon
<1> QED BY <1>1, <1>12, Safe, Zenon

-----------------------------------------------------------------------------
\* What the steps of a frame do to the z-buffer.
LEMMA DepthSteps ==
  ASSUME TypeOK, NEW d \in Drawers, DrawerSteps(d), broken = ""
  PROVE  \/ /\ pc[d] = "delete" /\ pc'[d] = "new" /\ sized' = sized
            /\ g_z_buf' = IF g_z_buf = "null" THEN "null" ELSE "deleted"
            /\ broken' = "z-buffer" => g_z_buf = "deleted"
         \/ /\ pc[d] = "new" /\ pc'[d] = "size" /\ sized' = sized
            /\ g_z_buf' = "buffer" /\ broken' = ""
         \/ /\ pc[d] = "size" /\ pc'[d] = "paint" /\ sized'
            /\ g_z_buf' = g_z_buf /\ broken' = ""
         \/ /\ \/ pc[d] = "paint" /\ pc'[d] = "clear z"
               \/ pc[d] = "clear z" /\ pc'[d] = "raster"
               \/ pc[d] = "raster" /\ pc'[d] \in {"raster", "present"}
               \/ pc[d] = "present" /\ pc'[d] \in {"idle", "turn"}
            /\ g_z_buf' = g_z_buf /\ sized' = sized
            /\ pc[d] \in {"paint", "present"} => broken' # "z-buffer"
            /\ broken' = "z-buffer" => g_z_buf # "buffer"
<1>1. CASE DeleteZ(d)
  <2>1. /\ pc[d] = "delete" /\ sized' = sized
        /\ g_z_buf' = IF g_z_buf = "null" THEN "null" ELSE "deleted"
    BY <1>1, Zenon DEF DeleteZ
  <2>2. broken' = "z-buffer" => g_z_buf = "deleted"
    BY <1>1 DEF DeleteZ, Undefined
  <2>3. pc'[d] = "new"
    BY <1>1, Moves DEF DeleteZ
  <2> QED BY <2>1, <2>2, <2>3
<1>2. CASE NewZ(d)
  <2>1. pc'[d] = "size"
    BY <1>2, Moves DEF NewZ
  <2> QED BY <1>2, <2>1 DEF NewZ
<1>3. CASE SizeZ(d)
  <2>1. pc[d] = "size" /\ sized' /\ g_z_buf' = g_z_buf /\ broken' = broken
    BY <1>3, Zenon DEF SizeZ
  <2>2. pc'[d] = "paint"
    BY <1>3, Moves DEF SizeZ
  <2> QED BY <2>1, <2>2
<1>4. CASE PaintBackground(d)
  <2>1. pc[d] = "paint" /\ g_z_buf' = g_z_buf /\ sized' = sized
    BY <1>4, Zenon DEF PaintBackground, zbuffer
  <2>2. broken' # "z-buffer"
    BY <1>4 DEF PaintBackground, Undefined
  <2>3. pc'[d] = "clear z"
    BY <1>4, Moves DEF PaintBackground
  <2> QED BY <2>1, <2>2, <2>3
<1>5. CASE ClearZ(d)
  <2>1. pc[d] = "clear z" /\ g_z_buf' = g_z_buf /\ sized' = sized
    BY <1>5, Zenon DEF ClearZ, zbuffer
  <2>2. broken' = "z-buffer" => g_z_buf # "buffer"
    BY <1>5 DEF ClearZ, Undefined
  <2>3. pc'[d] = "raster"
    BY <1>5, Moves DEF ClearZ
  <2> QED BY <2>1, <2>2, <2>3
<1>6. CASE Fragment(d)
  <2>1. pc[d] = "raster" /\ pc' = pc /\ g_z_buf' = g_z_buf /\ sized' = sized
    BY <1>6, Zenon DEF Fragment, zbuffer
  <2>2. broken' = "z-buffer" => g_z_buf # "buffer"
    BY <1>6 DEF Fragment
  <2> QED BY <2>1, <2>2
<1>7. CASE EndRaster(d)
  <2>1. pc[d] = "raster" /\ g_z_buf' = g_z_buf /\ sized' = sized /\ broken' = broken
    BY <1>7, Zenon DEF EndRaster, zbuffer
  <2>2. pc'[d] = "present"
    BY <1>7, Moves DEF EndRaster
  <2> QED BY <2>1, <2>2
<1>8. CASE Present(d)
  <2>1. pc[d] = "present" /\ g_z_buf' = g_z_buf /\ sized' = sized /\ broken' = broken
    BY <1>8, Zenon DEF Present, zbuffer
  <2>2. pc'[d] \in {"idle", "turn"}
    BY <1>8, Moves DEF Present
  <2> QED BY <2>1, <2>2
<1> QED
  BY <1>1, <1>2, <1>3, <1>4, <1>5, <1>6, <1>7, <1>8, Zenon DEF DrawerSteps

LEMMA BeginsAlone ==
  ASSUME TypeOK, OneOwner, NEW d \in Drawers, FrameBegin(d), pc[d] \in {"idle", "turn"},
         g_z_buf' = g_z_buf, sized' = sized, broken' = broken
  PROVE  Sharing'
<1>1. /\ pc'[d] = IF sized THEN "paint" ELSE "delete"
      /\ \A e \in Drawers \ {d} : pc'[e] = pc[e]
  BY FramesBegin
<1>2. CASE sized
  BY <1>1, <1>2 DEF OneOwner, Sharing
<1>3. CASE ~sized /\ \E e \in Drawers : pc[e] \in Reallocating
  <2>1. contested'
    BY <1>3, Zenon DEF FrameBegin, HasRoom
  <2> QED BY <2>1 DEF Sharing
<1>4. CASE ~sized /\ \A e \in Drawers : pc[e] \notin Reallocating
  BY <1>1, <1>4 DEF OneOwner, Sharing
<1> QED BY <1>2, <1>3, <1>4

LEMMA NextSharing ==
  ASSUME TypeOK, Sharing, [Next]_vars
  PROVE  Sharing'
<1> USE Cases
<1>1. CASE contested
  <2>1. contested'
    BY <1>1, Zenon
       DEF CreateWindowEx, CreateDIB, FillAndShow, BeginPaint, BitBlt, EndPaint, Destroyed,
           DrawerSteps, DeleteZ, NewZ, SizeZ, PaintBackground, ClearZ, Fragment, EndRaster,
           Present, HelperSteps, HelperTurn, HelperDraws, HelperTouches, TurnEnds,
           HandleState, HandleEnd, HandleClear, PresentClear, ParseReleased, StartRender,
           spurs_start, SignalExit, vm_shutdown, vars, history, FrameBegin
  <2> QED BY <2>1 DEF Sharing
<1>2. CASE OneOwner
  <2>1. CASE broken = "" /\ \E d \in Drawers : DrawerSteps(d)
    <3>1. PICK d \in Drawers : DrawerSteps(d)
      BY <2>1
    <3>2. \A e \in Drawers \ {d} : pc'[e] = pc[e]
      BY <3>1, OnlyOneMoves
    <3> QED BY ZenonT(40), <1>2, <2>1, <3>1, <3>2, DepthSteps DEF OneOwner, Sharing
  <2>2. CASE broken = "" /\ \E d \in Drawers : HelperSteps(d)
    <3>1. PICK d \in Drawers : HelperSteps(d)
      BY <2>2
    <3>2. pc[d] \in {"idle", "turn"} /\ g_z_buf' = g_z_buf /\ sized' = sized
      BY <3>1, HelpersMove
    <3>3. CASE FrameBegin(d) /\ broken' = broken
      BY <1>2, <3>2, <3>3, BeginsAlone
    <3>4. CASE /\ broken' # "z-buffer" /\ pc'[d] \in {"turn", "idle"}
               /\ \A e \in Drawers \ {d} : pc'[e] = pc[e]
      BY <1>2, <3>2, <3>4 DEF OneOwner, Sharing
    <3> QED BY <2>2, <3>1, <3>3, <3>4, HelperMoves
  <2>3. CASE HandleEnd
    BY <1>2, <2>3, BeginsAlone DEF HandleEnd, GameRuns, zbuffer, Drawers
  <2>4. CASE UNCHANGED <<pc, g_z_buf, sized, broken>> \/ ParseReleased
    BY <1>2, <2>4 DEF OneOwner, Sharing, ParseReleased, zbuffer
  <2>5. CASE HandleClear \/ PresentClear
    BY <1>2, <2>5, ClearMoves DEF OneOwner, Sharing, Drawers
  <2>6. \/ UNCHANGED <<pc, g_z_buf, sized, broken>>
        \/ HandleEnd \/ HandleClear \/ PresentClear \/ ParseReleased
        \/ broken = "" /\ \E d \in Drawers : DrawerSteps(d)
        \/ broken = "" /\ \E d \in Drawers : HelperSteps(d)
    BY Safe
       DEF CreateWindowEx, CreateDIB, FillAndShow, BeginPaint, BitBlt, EndPaint, Destroyed,
           HandleState, StartRender, spurs_start, SignalExit, vm_shutdown, vars, zbuffer
  <2> QED BY <2>1, <2>2, <2>3, <2>4, <2>5, <2>6
<1> QED BY <1>1, <1>2 DEF Sharing

-----------------------------------------------------------------------------
\* A helper at work after the flag was in its turn then; the game's thread at work after
\* the release is one that main missed.
LEMMA NextLeaving ==
  ASSUME TypeOK, Leaving, [Next]_vars
  PROVE  Leaving'
<1>0. /\ Game \in Drawers /\ Game \notin Helpers
      /\ \A d \in Drawers : d = Game \/ d \in Helpers
      /\ Helpers \subseteq Drawers
  BY FramesAssumption DEF Drawers, Helpers
<1>1. CASE broken = "" /\ \E d \in Drawers : DrawerSteps(d)
  <2>1. PICK d \in Drawers : DrawerSteps(d)
    BY <1>1
  <2>2. UNCHANGED <<main, missed, inflight>>
    BY <2>1, DrawersKeep
  <2>3. pc[d] # "idle" /\ \A e \in Drawers \ {d} : pc'[e] = pc[e]
    BY <1>1, <2>1, ColourSteps, OnlyOneMoves
  <2>4. broken' = "guest memory" => main = "down"
    BY <1>1, <2>1 DEF DrawerSteps, DeleteZ, NewZ, SizeZ, PaintBackground, ClearZ, Fragment,
                      EndRaster, Present, Undefined
  <2>5. main = "down" => missed \/ inflight # {}
    BY <1>0, <2>3 DEF Leaving
  <2> QED BY <1>0, <2>2, <2>3, <2>4, <2>5 DEF Leaving
<1>2. CASE broken = "" /\ \E d \in Drawers : HelperSteps(d)
  <2>1. PICK d \in Drawers : HelperSteps(d)
    BY <1>2
  <2>2. main' = main /\ missed' = missed /\ \A e \in Drawers \ {d} : pc'[e] = pc[e]
    BY <2>1, HelpersMove, OnlyOneMoves
  <2>3. CASE FrameBegin(d) /\ pc[d] = "turn" /\ main # "down" /\ UNCHANGED <<broken, inflight>>
    BY <1>0, <1>2, <2>2, <2>3 DEF Leaving
  <2>4. CASE broken' = "guest memory" /\ main = "down" /\ pc' = pc /\ inflight' = inflight
             /\ pc[d] = "turn"
    <3>1. missed \/ inflight # {}
      BY <1>0, <2>4 DEF Leaving
    <3> QED BY <2>2, <2>4, <3>1 DEF Leaving
  <2>5. CASE broken' = broken /\ main \notin {"exit", "down"}
    BY <1>2, <2>2, <2>5 DEF Leaving
  <2>6. CASE broken' = broken /\ pc'[d] = "idle" /\ inflight' = inflight \ {d}
    BY <1>0, <1>2, <2>2, <2>6 DEF Leaving
  <2> QED BY <2>1, <2>3, <2>4, <2>5, <2>6, HelperMoves
<1>3. CASE broken = "" /\ SignalExit
  <2>1. main' = "exit" /\ pc' = pc /\ broken' = broken
    BY <1>3 DEF SignalExit
  <2>2. inflight' = {d \in Helpers : pc[d] # "idle"}
    BY <1>3 DEF SignalExit
  <2> QED BY <1>3, <2>1, <2>2 DEF Leaving
<1>4. CASE broken = "" /\ vm_shutdown
  BY <1>4 DEF vm_shutdown, Leaving
<1>5. CASE broken = "" /\ HandleEnd
  <2>1. /\ main # "down" /\ UNCHANGED <<main, missed, inflight, broken>>
        /\ \A e \in Drawers \ {Game} : pc'[e] = pc[e]
    BY <1>0, <1>5, FramesBegin DEF HandleEnd, GameRuns
  <2> QED BY <1>0, <1>5, <2>1 DEF Leaving
<1>6. CASE broken = "" /\ (HandleClear \/ PresentClear)
  <2>1. main # "down" \/ pc'[Game] = "idle"
    BY <1>0, <1>6, Moves DEF HandleClear, PresentClear, GameRuns
  <2> QED BY <1>0, <1>6, <2>1, ClearMoves DEF Leaving
<1>7. CASE ParseReleased
  BY <1>7 DEF ParseReleased, Leaving, history
<1>8. CASE broken = "" /\ StartRender
  BY <1>8 DEF StartRender, Leaving
<1>9. CASE UNCHANGED <<main, pc, missed, inflight, broken>>
  BY <1>9 DEF Leaving
<1>10. \/ UNCHANGED <<main, pc, missed, inflight, broken>>
       \/ SignalExit \/ vm_shutdown \/ HandleEnd \/ HandleClear \/ PresentClear
       \/ ParseReleased \/ StartRender
       \/ \E d \in Drawers : DrawerSteps(d) \/ HelperSteps(d)
  BY Cases, Zenon
     DEF CreateWindowEx, CreateDIB, FillAndShow, BeginPaint, BitBlt, EndPaint, Destroyed,
         HandleState, spurs_start, vars, history
<1>11. CASE UNCHANGED vars
  BY <1>9, <1>11 DEF vars, history
<1> QED BY <1>1, <1>2, <1>3, <1>4, <1>5, <1>6, <1>7, <1>8, <1>9, <1>10, <1>11, Safe

-----------------------------------------------------------------------------
\* A frame that is not mixed draws what it shows itself.
LEMMA OwnFrame ==
  ASSUME TypeOK, Missing, NEW d \in Drawers, DrawerSteps(d), ShowsOwn(d), broken = ""
  PROVE  ShowsOwn(d)'
<1>1. CASE DeleteZ(d) \/ NewZ(d) \/ SizeZ(d)
  <2>1. pc'[d] \in {"new", "size", "paint"}
    BY <1>1, Moves DEF DeleteZ, NewZ, SizeZ
  <2>2. nearest' = nearest /\ pc[d] \in {"delete", "new", "size"}
    BY <1>1 DEF DeleteZ, NewZ, SizeZ, pixels
  <2> QED BY <2>1, <2>2 DEF ShowsOwn
<1>2. CASE PaintBackground(d)
  <2>1. /\ fb' = (IF fb = Null THEN Null ELSE Far) /\ nearest' = nearest /\ pc[d] = "paint"
        /\ broken' = (IF fb = Null THEN "framebuffer" ELSE "")
    BY <1>2, Zenon DEF PaintBackground, Undefined
  <2>2. pc'[d] = "clear z"
    BY <1>2, Moves DEF PaintBackground
  <2> QED BY <2>1, <2>2 DEF ShowsOwn
<1>3. CASE ClearZ(d)
  <2>1. /\ fb' = fb /\ z' = Far /\ nearest' = nearest /\ pc[d] = "clear z" /\ mixed' = mixed
    BY <1>3, Zenon DEF ClearZ, InitialDepth
  <2>2. pc'[d] = "raster"
    BY <1>3, Moves DEF ClearZ
  <2> QED BY <2>1, <2>2 DEF ShowsOwn
<1>4. CASE Fragment(d)
  <2>1. pc[d] = "raster" /\ pc' = pc /\ mixed' = mixed
    BY <1>4, Zenon DEF Fragment
  <2>2. d \notin mixed => fb' = nearest'[d] /\ z' = nearest'[d]
    BY <1>4, <2>1, Fragments DEF ShowsOwn
  <2> QED BY <2>1, <2>2 DEF ShowsOwn
<1>5. CASE EndRaster(d)
  <2>1. pc[d] = "raster" /\ fb' = fb /\ nearest' = nearest /\ mixed' = mixed
    BY <1>5, Zenon DEF EndRaster, pixels
  <2>2. pc'[d] = "present"
    BY <1>5, Moves DEF EndRaster
  <2> QED BY <2>1, <2>2 DEF ShowsOwn
<1>6. CASE Present(d)
  <2>1. nearest'[d] = Far
    BY <1>6 DEF Present, TypeOK
  <2>2. pc'[d] \in {"idle", "turn"}
    BY <1>6, Moves DEF Present
  <2> QED BY <2>1, <2>2 DEF ShowsOwn
<1> QED BY <1>1, <1>2, <1>3, <1>4, <1>5, <1>6, Zenon DEF DrawerSteps

\* Every other one that is in a frame is mixed.
LEMMA OtherFrames ==
  ASSUME TypeOK, Mixing, NEW d \in Drawers, DrawerSteps(d), NEW e \in Drawers \ {d},
         ShowsOwn(e), broken = ""
  PROVE  ShowsOwn(e)'
<1>1. pc'[e] = pc[e]
  BY OnlyOneMoves
<1>2. InFrame(d) /\ (InFrame(e) => e \in mixed)
  <2>1. InFrame(d)
    BY ColourSteps DEF InFrame
  <2> QED BY <2>1 DEF Mixing
<1>3. nearest'[e] = nearest[e]
  <2>1. CASE Fragment(d)
    BY <2>1, Fragments
  <2>2. CASE nearest' = nearest \/ nearest' = [nearest EXCEPT ![d] = Far]
    BY <2>2 DEF TypeOK
  <2> QED
    BY <2>1, <2>2, Zenon
       DEF DrawerSteps, DeleteZ, NewZ, SizeZ, PaintBackground, ClearZ, EndRaster, Present,
           pixels
<1>4. mixed' = mixed \/ mixed' = mixed \ {d}
  BY Zenon
     DEF DrawerSteps, DeleteZ, NewZ, SizeZ, PaintBackground, ClearZ, Fragment, EndRaster,
         Present
<1>5. InFrame(e) => e \in mixed'
  BY <1>2, <1>4
<1> QED BY <1>1, <1>3, <1>5 DEF ShowsOwn, InFrame

\* A frame that begins mixes whoever else is in one.
LEMMA BeginsDark ==
  ASSUME TypeOK, Showing, NEW d \in Drawers, FrameBegin(d), pc[d] \in {"idle", "turn"},
         fb' = fb, z' = z, nearest' = nearest
  PROVE  Showing'
<1>1. /\ pc'[d] \in {"paint", "delete"}
      /\ \A e \in Drawers \ {d} : pc'[e] = pc[e]
  BY FramesBegin
<1>2. ASSUME NEW e \in Drawers \ {d}, InFrame(e) PROVE e \in mixed'
  BY <1>2 DEF FrameBegin, Disturbed
<1>3. ShowsOwn(d)'
  BY <1>1 DEF Showing, ShowsOwn
<1>4. ASSUME NEW e \in Drawers \ {d} PROVE ShowsOwn(e)'
  BY <1>1, <1>2 DEF Showing, ShowsOwn, InFrame
<1> QED BY <1>3, <1>4 DEF Showing

LEMMA NextShowing ==
  ASSUME TypeOK, Missing, Mixing, Showing, [Next]_vars
  PROVE  Showing'
<1>1. CASE broken = "" /\ \E d \in Drawers : DrawerSteps(d)
  BY <1>1, OwnFrame, OtherFrames DEF Showing
<1>2. CASE \E d \in Drawers : HelperSteps(d)
  <2>1. PICK d \in Drawers : HelperSteps(d)
    BY <1>2
  <2>2. /\ pc[d] \in {"idle", "turn"} /\ fb' = fb /\ z' = z /\ nearest' = nearest
    BY <2>1, HelpersMove
  <2>3. CASE FrameBegin(d)
    BY <2>2, <2>3, BeginsDark
  <2>4. CASE /\ mixed' = mixed /\ pc'[d] \in {"turn", "idle"}
             /\ \A e \in Drawers \ {d} : pc'[e] = pc[e]
    <3>1. ShowsOwn(d)'
      BY <2>2, <2>4 DEF Showing, ShowsOwn
    <3>2. ASSUME NEW e \in Drawers \ {d}, broken = "" PROVE ShowsOwn(e)'
      BY <2>2, <2>4, <3>2 DEF Showing, ShowsOwn
    <3>3. CASE UNCHANGED vars
      BY <3>3 DEF vars, pixels, Showing, ShowsOwn
    <3> QED BY <3>1, <3>2, <3>3, Safe DEF Showing
  <2> QED BY <2>1, <2>3, <2>4, HelperMoves
<1>3. CASE HandleEnd
  BY <1>3, BeginsDark DEF HandleEnd, GameRuns, pixels, Drawers
<1>4. CASE broken = "" /\ CreateDIB
  <2>1. fb = Null /\ UNCHANGED <<nearest, pc, mixed, broken, z>>
    BY <1>4 DEF CreateDIB, Missing
  <2>2. \A d \in Drawers : pc[d] \notin {"clear z", "raster", "present"}
    BY <1>4, <2>1 DEF Missing
  <2> QED BY <2>1, <2>2 DEF Showing, ShowsOwn
<1>5. CASE FillAndShow
  <2>1. mixed' = Disturbed /\ pc' = pc /\ nearest' = nearest
    BY <1>5, Zenon DEF FillAndShow
  <2> QED BY <2>1 DEF Showing, ShowsOwn, Disturbed, InFrame
<1>6. CASE HandleClear
  <2>1. mixed' = Disturbed /\ nearest' = nearest
    BY <1>6, Zenon DEF HandleClear
  <2>2. /\ pc[Game] = "idle" /\ pc'[Game] = "clear"
        /\ \A e \in Drawers \ {Game} : pc'[e] = pc[e]
    BY <1>6, Moves DEF HandleClear, GameRuns, Drawers
  <2> QED BY <2>1, <2>2 DEF Showing, ShowsOwn, Disturbed, InFrame
<1>7. CASE PresentClear
  <2>1. UNCHANGED <<fb, z, nearest, mixed, broken>>
    BY <1>7 DEF PresentClear, pixels
  <2>2. /\ pc[Game] = "clear" /\ pc'[Game] = "idle"
        /\ \A e \in Drawers \ {Game} : pc'[e] = pc[e]
    BY <1>7, Moves DEF PresentClear, Drawers
  <2> QED BY <2>1, <2>2 DEF Showing, ShowsOwn
<1>8. CASE UNCHANGED <<fb, z, nearest, pc, mixed, broken>> \/ ParseReleased
  BY <1>8 DEF Showing, ShowsOwn, ParseReleased, pixels
<1>9. \/ UNCHANGED <<fb, z, nearest, pc, mixed, broken>> \/ ParseReleased
      \/ FillAndShow \/ HandleClear \/ PresentClear \/ HandleEnd \/ CreateDIB
      \/ \E d \in Drawers : DrawerSteps(d)
      \/ \E d \in Drawers : HelperSteps(d)
  BY Cases, Zenon
     DEF CreateWindowEx, BeginPaint, BitBlt, EndPaint, Destroyed, HandleState, StartRender,
         spurs_start, SignalExit, vm_shutdown, vars, pixels
<1>10. CASE UNCHANGED vars
  BY <1>8, <1>10 DEF vars, pixels
<1> QED BY <1>1, <1>2, <1>3, <1>4, <1>5, <1>6, <1>7, <1>8, <1>9, <1>10, Safe

-----------------------------------------------------------------------------
LEMMA NextPainting ==
  ASSUME TypeOK, Painting, [Next]_vars
  PROVE  Painting'
<1>1. CASE broken = "" /\ \E d \in Drawers : DrawerSteps(d)
  <2>1. PICK d \in Drawers : DrawerSteps(d)
    BY <1>1
  <2>2. CASE Present(d)
    <3>1. win' = win /\ (win \in {"loop", "painted"} => dirty')
      BY <2>2 DEF Present, rsx_present_frame, g_hwnd
    <3> QED BY <3>1 DEF Painting
  <2>3. CASE ~Present(d)
    <3>1. pc[d] # "present"
      BY <2>1, <2>3
         DEF DrawerSteps, DeleteZ, NewZ, SizeZ, PaintBackground, ClearZ, Fragment, EndRaster
    <3>2. pc'[d] \notin {"idle", "turn", "clear"}
      BY <1>1, <2>1, <3>1, ColourSteps
    <3> QED BY <3>2 DEF Painting, InFrame
  <2> QED BY <2>2, <2>3
<1>2. CASE \E d \in Drawers : HelperSteps(d)
  <2>1. PICK d \in Drawers : HelperSteps(d)
    BY <1>2
  <2>2. /\ pc[d] \in {"idle", "turn"}
        /\ win' = win /\ behind' = behind /\ dirty' = dirty
    BY <2>1, HelpersMove
  <2>3. \A e \in Drawers \ {d} : pc'[e] = pc[e]
    BY <2>1, OnlyOneMoves
  <2> QED BY <2>2, <2>3 DEF Painting, InFrame, Drawers
<1>3. CASE HandleEnd
  <2>1. /\ win' = win /\ behind' = behind /\ dirty' = dirty /\ pc[Game] = "idle"
        /\ pc'[Game] \in {"paint", "delete"}
        /\ \A e \in Drawers \ {Game} : pc'[e] = pc[e]
    BY <1>3, FramesBegin DEF HandleEnd, GameRuns, window, Drawers
  <2> QED BY <2>1 DEF Painting, InFrame
<1>4. CASE HandleClear \/ PresentClear
  <2>1. CASE HandleClear
    <3>1. pc'[Game] = "clear"
      BY <2>1, Moves DEF HandleClear, Drawers
    <3> QED BY <3>1 DEF Painting
  <2>2. CASE PresentClear
    <3>1. win' = win /\ (win \in {"loop", "painted"} => dirty')
      BY <2>2 DEF PresentClear, rsx_present_frame, g_hwnd
    <3> QED BY <3>1 DEF Painting
  <2> QED BY <1>4, <2>1, <2>2
<1>5. CASE FillAndShow
  BY <1>5, Zenon DEF FillAndShow, Painting
<1>6. CASE BitBlt
  BY <1>6, Zenon DEF BitBlt, Painting
<1>7. CASE CreateWindowEx \/ CreateDIB \/ BeginPaint \/ Destroyed
  <2>1. win' \notin {"loop", "painted"}
    BY <1>7 DEF CreateWindowEx, CreateDIB, BeginPaint, Destroyed
  <2> QED BY <2>1 DEF Painting
<1>8. CASE EndPaint
  <2>1. win = "painted" /\ behind' = behind /\ pc' = pc /\ (dirty => dirty')
    <3>1. ~Validates("EndPaint")
      BY DEF Validates
    <3> QED BY <1>8, <3>1, Zenon DEF EndPaint
  <2> QED BY <2>1 DEF Painting, InFrame
<1>9. CASE UNCHANGED <<win, behind, dirty, pc>>
  BY <1>9 DEF Painting, InFrame
<1>10. \/ UNCHANGED <<win, behind, dirty, pc>>
       \/ CreateWindowEx \/ CreateDIB \/ BeginPaint \/ Destroyed \/ EndPaint \/ BitBlt
       \/ FillAndShow \/ HandleClear \/ PresentClear \/ HandleEnd
       \/ \E d \in Drawers : DrawerSteps(d)
       \/ \E d \in Drawers : HelperSteps(d)
  BY Cases, Zenon
     DEF HandleState, ParseReleased, StartRender, spurs_start, SignalExit, vm_shutdown,
         vars, window
<1>11. CASE UNCHANGED vars
  BY <1>9, <1>11 DEF vars, window
<1> QED BY <1>1, <1>2, <1>3, <1>4, <1>5, <1>6, <1>7, <1>8, <1>9, <1>10, <1>11, Safe

-----------------------------------------------------------------------------
LEMMA InitIInv == Init => IInv
<1> SUFFICES ASSUME Init PROVE IInv
  OBVIOUS
<1>1. /\ pc = [d \in Drawers |-> "idle"] /\ nearest = [d \in Drawers |-> Far]
      /\ fb = Null /\ z = Far /\ mixed = {} /\ running = {}
      /\ main = "sleep" /\ win = "start" /\ g_z_buf = "null" /\ broken = ""
  BY Zenon DEF Init
<1>2. dirty = FALSE /\ behind = FALSE /\ sized = FALSE /\ late = FALSE /\ contested = FALSE
      /\ missed = FALSE /\ inflight = {}
  BY Zenon DEF Init
<1>3. DrawTypeOK
  <2>1. asked = <<>> /\ io_offset = 0 /\ array = IoBase /\ start = NoStart /\ total = 0
    BY Zenon DEF Init, DrawInit
  <2>2. asked \in Seq(Nat)
    BY <2>1
  <2> QED BY <2>1, <2>2, DrawAssumption DEF DrawTypeOK
<1>4. /\ dirty \in BOOLEAN /\ behind \in BOOLEAN /\ sized \in BOOLEAN
      /\ late \in BOOLEAN /\ contested \in BOOLEAN /\ missed \in BOOLEAN
  BY <1>2, Zenon
<1>5. fb \in Depths \cup {Plain, Null} /\ z \in Depths /\ nearest \in [Drawers -> Depths]
  <2>1. Far \in Depths
    BY FramesAssumption
  <2> QED BY <1>1, <2>1, Zenon
<1>6. TypeOK
  BY <1>1, <1>2, <1>3, <1>4, <1>5 DEF TypeOK
<1>7. Missing /\ Leaving
  BY <1>1 DEF Missing, Leaving
<1>8. Sharing
  BY <1>1, <1>2 DEF Sharing, OneOwner
<1>9. Mixing /\ Showing
  BY <1>1 DEF Mixing, Showing, ShowsOwn, InFrame
<1>10. Painting
  BY <1>1 DEF Painting
<1>11. Batching
  <2>1. asked = <<>> /\ io_offset = 0 /\ array = IoBase /\ start = NoStart /\ total = 0
    BY Zenon DEF Init, DrawInit
  <2> QED BY <2>1, DrawAssumption DEF Batching, ArrayAt
<1> QED BY <1>6, <1>7, <1>8, <1>9, <1>10, <1>11 DEF IInv

LEMMA NextIInv == IInv /\ [Next]_vars => IInv'
  BY Types, NextBatching, NextMissing, NextSharing, NextLeaving, NextMixing, NextShowing,
     NextPainting DEF IInv, TypeOK

LEMMA Invariance == Spec => []IInv
  BY InitIInv, NextIInv, PTL DEF Spec

-----------------------------------------------------------------------------
\* The draw state, the window, the z-buffer and the drawers keep their types
\* (main.cpp:27-160, runtime_glue.cpp:501-551, 818-947).
THEOREM TypeCorrect == Spec => []TypeOK
<1>1. IInv => TypeOK
  BY DEF IInv
<1> QED BY <1>1, Invariance, PTL

\* Nothing undefined is ever done to the framebuffer, the z-buffer or guest memory
\* except in the cases DrawingSafe names, in any order of the three drawers, the window
\* thread and main, whatever the game's thread does while and after the exit flag goes
\* up (runtime_glue.cpp:301-316, 828-868, 870-947; main.cpp:497-525, 572-577).
THEOREM FramesAreSafe == Spec => []DrawingSafe
<1>1. IInv => DrawingSafe
  <2> SUFFICES ASSUME IInv PROVE DrawingSafe
    OBVIOUS
  <2>1. broken = "framebuffer" => late
    BY DEF IInv, Missing
  <2>2. broken = "z-buffer" => contested
    BY DEF IInv, Sharing, OneOwner
  <2>3. broken = "guest memory" => missed \/ inflight # {}
    BY DEF IInv, Leaving
  <2> QED BY <2>1, <2>2, <2>3 DEF DrawingSafe
<1> QED BY <1>1, Invariance, PTL

\* A frame that nothing overlaps presents its nearest fragment, however many
\* fragments it has and at whatever depths (runtime_glue.cpp:941-944).
THEOREM FramesShowTheNearest == Spec => []NearestShown
<1>1. IInv => NearestShown
  BY DEF IInv, Showing, ShowsOwn, NearestShown
<1> QED BY <1>1, Invariance, PTL

\* No frame and no clear is lost behind a paint of the window (main.cpp:27-39).
THEOREM PaintsLoseNothing == Spec => []NothingUnshown
<1>1. IInv => NothingUnshown
  BY DEF IInv, Painting, NothingUnshown, Disturbed
<1> QED BY <1>1, Invariance, PTL

\* The triangles handed to the rasterizer are those of the batch, for every vertex
\* array, any number of ranges and any length of them, when the ranges follow each
\* other (runtime_glue.cpp:501-538).
THEOREM BatchesAreDrawn == Spec => []DrawsTheBatch
<1>1. IInv => DrawsTheBatch
  <2> SUFFICES ASSUME IInv, Consecutive PROVE DrawnTriangles = AskedTriangles
    BY DEF DrawsTheBatch
  <2>1. /\ total = Len(asked) /\ total \in Nat /\ array \in Nat /\ start \in Int
        /\ First = array + start
        /\ \A i \in 1 .. total : asked[i] = start + i - 1
    <3>1. DrawTypeOK /\ Batching
      BY DEF IInv, TypeOK
    <3> QED BY <3>1, DrawAssumption DEF DrawTypeOK, Batching, NoStart, First
  <2>2. ASSUME NEW k \in 0 .. (total \div 3) - 1
        PROVE  /\ Vertex(3 * k + 1) = First + 3 * k
               /\ Vertex(3 * k + 2) = First + 3 * k + 1
               /\ Vertex(3 * k + 3) = First + 3 * k + 2
    <3>1. k \in Nat /\ 3 * k + 3 <= total
      BY <2>1
    <3>2. 3 * k + 1 \in 1 .. total /\ 3 * k + 2 \in 1 .. total /\ 3 * k + 3 \in 1 .. total
      BY <2>1, <3>1
    <3> QED BY <2>1, <3>1, <3>2 DEF Vertex
  <2> QED BY SMTT(30), <2>1, <2>2 DEF DrawnTriangles, AskedTriangles
<1> QED BY <1>1, Invariance, PTL
=============================================================================
