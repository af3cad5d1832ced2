------------------------------ MODULE RsxDraw -------------------------------
(***************************************************************************)
(* rsx_handle of runtime_glue.cpp: what the register writes parsed from    *)
(* the command buffer (RsxFifo) do to the draw state.  Vertex ranges are   *)
(* added up between BEGIN and END, and END hands the range that results to *)
(* the rasterizer.  Each action is one call of rsx_handle; registers that  *)
(* are only logged are left out, and so is the kind of primitive, which    *)
(* the code ignores: every three vertices are a triangle.                  *)
(***************************************************************************)
EXTENDS Integers, Sequences

CONSTANTS Arrays,     \* addresses of vertex arrays, counted in vertices of 16 bytes
          IoBase,     \* where the IO region begins (0xD0100000)
          IoSize,     \* offsets are smaller than this (0x1000000), addresses are not
          Ranges,     \* what DRAW_ARRAYS may ask for: first vertex and count
          MaxBatch    \* bound: a batch with so many vertices gets no more ranges

ASSUME DrawAssumption == /\ Arrays \subseteq Nat /\ IoBase \in Nat /\ IoSize \in Nat \ {0}
                         /\ Ranges \subseteq [first : Nat, cnt : Nat \ {0}]
                         /\ MaxBatch \in Nat

VARIABLES io_offset,  \* g_vtx_io_offset[0], 0 as long as none was set
          array,      \* history: the array the game means by it
          start,      \* g_draw_vtx_start
          total,      \* g_draw_vtx_total
          asked       \* history: the vertices asked for since the accumulator was
                      \* reset, in order, counted from the array's first

arrayVars == <<io_offset, array>>
drawVars == <<arrayVars, start, total, asked>>

NoStart == -1         \* ~0u

DrawInit == /\ io_offset = 0 /\ array = IoBase
            /\ start = NoStart /\ total = 0 /\ asked = <<>>
-----------------------------------------------------------------------------
ResetAccumulator == start' = NoStart /\ total' = 0 /\ asked' = <<>>

\* How a game names an array: by its offset in the IO region or by its address.
Names(a) == {o \in 0 .. IoSize - 1 : a = IoBase + o} \cup {o \in {a} : o >= IoSize}

\* SET_VERTEX_DATA_ARRAY_OFFSET of attribute 0.
SetVertexOffset(a) == /\ io_offset' \in Names(a)
                      /\ array' = a
                      /\ UNCHANGED <<start, total, asked>>

\* SET_BEGIN_END with a primitive.
BeginBatch == ResetAccumulator /\ UNCHANGED arrayVars

LastStart(first) == first                         \* mutant: each range starts anew
FirstStart(first) == IF start = NoStart THEN first ELSE start

Vertices(r) == [j \in 1 .. r.cnt |-> r.first + j - 1]

\* DRAW_ARRAYS
DrawArrays(r) == /\ start' = FirstStart(r.first)
                 /\ total' = total + r.cnt
                 /\ asked' = asked \o Vertices(r)
                 /\ UNCHANGED arrayVars

\* SET_BEGIN_END with 0: what is drawn before the accumulator is reset.
Drawable == total >= 3 /\ io_offset # 0

\* Where END looks for the array.
ArrayAt(o) == IF o < IoSize THEN IoBase + o ELSE o

\* edge_rasterize_triangles takes whole triangles only.
First == ArrayAt(io_offset) + start
DrawnTriangles == {<<First + 3 * k, First + 3 * k + 1, First + 3 * k + 2>> :
                     k \in 0 .. (total \div 3) - 1}
-----------------------------------------------------------------------------
DrawTypeOK == /\ io_offset \in Nat /\ array \in Nat
              /\ start \in {r.first : r \in Ranges} \cup {NoStart}
              /\ total \in Nat
              /\ asked \in Seq(Nat)

\* The triangles a batch asks for: every three vertices, from the array meant at its end.
Vertex(i) == array + asked[i]
AskedTriangles == {<<Vertex(3 * k + 1), Vertex(3 * k + 2), Vertex(3 * k + 3)>> :
                     k \in 0 .. (Len(asked) \div 3) - 1}

\* A long draw is split into ranges that follow each other.
Consecutive == \A i \in 1 .. Len(asked) - 1 : asked[i + 1] = asked[i] + 1
=============================================================================
