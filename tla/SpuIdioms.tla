----------------------------- MODULE SpuIdioms -----------------------------
(***************************************************************************)
(* What SPU code relies on.  The SPU has no scalar memory access, no wide  *)
(* addition, no word multiplication and no quadword shift: compilers build *)
(* them from several instructions, and code compiled for the SPU contains  *)
(* these sequences everywhere.  Each is a program for SpuStep here, run on *)
(* all operands of a sample, and compared with what it is meant to compute.*)
(***************************************************************************)
EXTENDS SpuChannels

CONSTANTS Link, A, B, T, U, V,  \* six registers
          WordSample,           \* words from which operands are made
          Counts,               \* shift counts, addresses and loop counts
          Transfers             \* sizes of DMA transfers

Six == <<Link, A, B, T, U, V>>

\* A program has at most 16 instructions: the local store holds them all, and
\* spu_run goes on until one that does not loop has ended.  The store holds two
\* quadwords and a transfer, which is at least a quadword.
ASSUME IdiomAssumption ==
  /\ {Six[i] : i \in 1 .. 6} \subseteq Registers
  /\ \A i, j \in 1 .. 6 : Six[i] = Six[j] => i = j
  /\ 16 * WORD <= LS_SIZE /\ 16 <= MaxInsns
  /\ 2 * QUAD + MAX_DMA <= LS_SIZE
  /\ \A sz \in Transfers \cup {MAX_DMA} : sz >= QUAD
  /\ WordSample \cup Counts \cup Transfers \subseteq 0 .. Ones(WORD)
-----------------------------------------------------------------------------
(***************************************************************************)
(* Instructions as the assembler writes them.                              *)
(***************************************************************************)
Ins(op, size, form, rt, ra, rb, imm) ==
  [op |-> op, size |-> size, form |-> form, rt |-> rt, ra |-> ra, rb |-> rb,
   rc |-> rt, imm |-> imm]
RR(op, size, rt, ra, rb)   == Ins(op, size, "RR", rt, ra, rb, 0)
RI(op, size, rt, ra, imm)  == Ins(op, size, "RI", rt, ra, ra, imm)
RRR(op, rt, ra, rb, rc)    == [RR(op, WORD, rt, ra, rb) EXCEPT !.rc = rc]
lqd(rt, ra)                == Ins("lq", WORD, "d", rt, ra, ra, 0)
stqd(rt, ra)               == Ins("stq", WORD, "d", rt, ra, ra, 0)
Branch(when, link, form, rt, ra, imm) ==
  [op |-> "branch", when |-> when, link |-> link, form |-> form,
   rt |-> rt, ra |-> ra, imm |-> imm]

Channel(op, ch, rt) == [op |-> op, ch |-> ch, rt |-> rt]

Hint == [op |-> "nop"]

\* Scalar accesses at the address in A.
LoadWord    == << lqd(T, A), RR("rotqby", WORD, T, T, A), Stop >>
Store(size) == << lqd(T, A), RI("controls", size, U, A, 0),
                  RRR("shufb", T, B, T, U), stqd(T, A), Stop >>

\* The last two words as one number: A + B, and A - B with the borrow's complement.
WideAdd == << RR("cg", WORD, T, A, B), RI("shlqby", WORD, T, T, WORD),
              RR("addx", WORD, T, A, B), Stop >>
WideSub == << RR("bg", WORD, T, B, A), RI("shlqby", WORD, T, T, WORD),
              RI("il", WORD, U, A, 1), RI("rotqmby", WORD, U, U, WORD - QUAD),
              RR("or", 1, T, T, U), RR("sfx", WORD, T, B, A), Stop >>

\* Products of words.
WordMultiply == << RR("mpyh", WORD, T, A, B), RR("mpyh", WORD, U, B, A),
                   RR("mpyu", WORD, V, A, B), RR("a", WORD, T, T, U),
                   RR("a", WORD, T, T, V), Stop >>

\* A shifted or rotated as one number by the bit count in B.
QuadLeft   == << RR("shlqbybi", WORD, T, A, B), RR("shlqbi", WORD, T, T, B), Stop >>
QuadRight  == << RI("sf", WORD, U, B, 7), RR("rotqmbybi", WORD, T, A, U),
                 RI("sf", WORD, U, B, 0), RR("rotqmbi", WORD, T, T, U), Stop >>
QuadRotate == << RR("rotqbybi", WORD, T, A, B), RR("rotqbi", WORD, T, T, B), Stop >>

\* The larger of the signed words of A and B.
Maximum == << RR("cgt", WORD, T, A, B), RRR("selb", T, B, A, T), Stop >>

\* A mask of the odd lanes of A, in A.
OddLanes(size) == << RI("gather", size, A, A, 0), RI("spread", size, A, A, 0), Stop >>

\* The lanes of A rotated by the counts in the lanes of B, in V by one instruction and
\* in T by a left shift and a right shift of what is left of the width.
TwoRotations(size) ==
  << RI("and", size, U, B, Bits(size) - 1), RR("shl", size, T, A, U),
     RI("a", size, U, U, -Bits(size)), RR("rotm", size, U, A, U),
     RR("or", size, T, T, U), RR("rot", size, V, A, B), Stop >>

\* Word 0 of A added to T as many times as word 0 of B says, in a subroutine.
CallLoop == << Hint, Branch("always", TRUE, "r", Link, Link, 2), Stop,
               RR("a", WORD, T, T, A), RI("a", WORD, B, B, -1),
               Branch("nz", FALSE, "r", B, B, -2),
               Branch("always", FALSE, "i", Link, Link, 0) >>

\* The guest memory at A, of as many bytes as B says, is read into the local store,
\* its first quadword is doubled, and all of it is written back.
Update(lsa, get, put) ==
  << RI("il", WORD, U, A, lsa), Channel("wrch", "MFC_LSA", U),
     Channel("wrch", "MFC_EAL", A), Channel("wrch", "MFC_Size", B),
     RI("il", WORD, T, A, get), Channel("wrch", "MFC_Cmd", T),
     Channel("wrch", "MFC_WrTagMask", B), Channel("rchcnt", "MFC_RdTagStat", V),
     Branch("z", FALSE, "r", V, V, -1), Channel("rdch", "MFC_RdTagStat", V),
     lqd(T, U), RR("a", WORD, T, T, T), stqd(T, U),
     RI("il", WORD, V, A, put), Channel("wrch", "MFC_Cmd", V), Stop >>

\* A is reported through the mailbox and the answer is waited for.
Ask == << Channel("rchcnt", "SPU_WrOutMbox", T), Branch("z", FALSE, "r", T, T, -1),
          Channel("wrch", "SPU_WrOutMbox", A), Channel("rdch", "SPU_RdInMbox", T), Stop >>

Sizes == {1, HALF, WORD}
-----------------------------------------------------------------------------
(***************************************************************************)
(* Every program starts from operands of the sample; the local store holds *)
(* a pattern in which all bytes differ.                                    *)
(***************************************************************************)
QuadBits == Bits(QUAD)
Halted   == ~running \/ n = MaxInsns
W(q, i)  == Elem(q, WORD, i)
M        == Weight(WORD)

FromWords(w) == [k \in Bytes |-> (w[k \div WORD] \div Weight(WORD - 1 - (k % WORD))) % 256]
Sample       == {FromWords(w) : w \in [0 .. WORDS - 1 -> WordSample]}
CountSample  == {Preferred(c) : c \in Counts}
LoopSample   == {Preferred(c) : c \in {x \in Counts : x > 0 /\ 3 * x + 4 <= MaxInsns}}
Pattern      == [x \in 0 .. LS_SIZE - 1 |-> (16 + x) % 256]
GuestPattern == [x \in Memory |-> (60 + x) % 256]
Buffers      == {0, 2 * QUAD}

Start(code, a, b) ==
  Loaded(code, [r \in Registers |-> CASE r = A -> a [] r = B -> b [] OTHER -> Zero], Pattern)

\* A transfer inside the local store is between two ranges apart from each other.
Cut(sz) == IF sz > MAX_DMA THEN MAX_DMA ELSE sz
Apart(lsa, at, sz) == \/ at < LS_MAP
                      \/ at - LS_MAP >= lsa + Cut(sz)
                      \/ at - LS_MAP + Cut(sz) <= lsa

ProgramInit ==
  \/ \E code \in {WideAdd, WideSub, WordMultiply, Maximum}, a, b \in Sample :
       Start(code, a, b)
  \/ \E size \in Sizes, a \in Sample : Start(OddLanes(size), a, Zero)
  \/ \E code \in {QuadLeft, QuadRight, QuadRotate}, a \in Sample, b \in CountSample :
       Start(code, a, b)
  \/ \E size \in {HALF, WORD}, a \in Sample, b \in CountSample :
       Start(TwoRotations(size), a, b)
  \/ \E code \in {LoadWord, Store(WORD), Store(HALF)}, a \in CountSample, b \in Sample :
       Start(code, a, b)
  \/ \E a \in Sample, b \in LoopSample : Start(CallLoop, a, b)
  \/ \E lsa \in Buffers, get \in Gets \cup {65}, put \in Puts, at \in Counts, sz \in Transfers :
       /\ Apart(lsa, at, sz)
       /\ Start(Update(lsa, get, put), Preferred(at), Preferred(sz))
  \/ \E a \in CountSample : Start(Ask, a, Zero)

Init == /\ ProgramInit
        /\ staged = [ch \in Staging |-> 0] /\ posted = 0
        /\ memory = GuestPattern

Spec == Init /\ [][Step]_channelVars
-----------------------------------------------------------------------------
\* The last two words of a quadword, and the bytes of the sum of two such numbers,
\* computed from the right.
Pair      == QUAD - 2 * WORD .. QUAD - 1
Double(q) == [k \in Pair |-> q[k]]
Sum(a, b) ==
  LET carry[k \in QUAD - 2 * WORD .. QUAD] ==
        IF k = QUAD THEN 0 ELSE (a[k] + b[k] + carry[k + 1]) \div 256
  IN [k \in Pair |-> (a[k] + b[k] + carry[k + 1]) % 256]

\* The product of two words, byte by byte of the second.
Product(x, y) ==
  LET upTo[k \in 0 .. WORD] ==
        IF k = 0 THEN 0
        ELSE (256 * upTo[k - 1] + x * ((y \div Weight(WORD - k)) % 256)) % M
  IN upTo[WORD]

\* Bit j of a quadword, bit 0 the most significant; 0 outside.
Bit(q, j) == IF j \in 0 .. QuadBits - 1
             THEN (q[j \div 8] \div Power(7 - (j % 8))) % 2 ELSE 0

\* Bit j, counted around, of lane i, bit 0 the least significant.
LaneBit(q, size, i, j) == (Elem(q, size, i) \div Power(j % Bits(size))) % 2

\* The carry of cg or bg, moved one word up, makes addx and sfx add and
\* subtract two words as one number.
WideSums ==
  /\ program = WideAdd /\ Halted => Double(gpr[T]) = Sum(first.gpr[A], first.gpr[B])
  /\ program = WideSub /\ Halted => Sum(gpr[T], first.gpr[B]) = Double(first.gpr[A])

\* Two mpyh and one mpyu add up to the product of the words, whatever the
\* signs of their halves.
WordProducts ==
  program = WordMultiply /\ Halted =>
    \A i \in 0 .. WORDS - 1 :
      W(gpr[T], i) = Product(W(first.gpr[A], i), W(first.gpr[B], i))

\* The byte and the bit instruction of each pair together shift, or rotate,
\* the register as one number, for counts in and beyond its width; right
\* shifts negate the count.
QuadShifts ==
  LET a == first.gpr[A]
      c == W(first.gpr[B], 0) % (2 * QuadBits)
  IN /\ program = QuadLeft /\ Halted =>
          \A j \in 0 .. QuadBits - 1 : Bit(gpr[T], j) = Bit(a, j + c)
     /\ program = QuadRight /\ Halted =>
          \A j \in 0 .. QuadBits - 1 : Bit(gpr[T], j) = Bit(a, j - c)
     /\ program = QuadRotate /\ Halted =>
          \A j \in 0 .. QuadBits - 1 : Bit(gpr[T], j) = Bit(a, (j + c) % QuadBits)

\* A signed comparison is a mask that makes selb choose the larger word; adding
\* half the range turns the signed order into the order of numbers.
SignedMaximum ==
  LET biased(w) == (w + M \div 2) % M
  IN program = Maximum /\ Halted =>
       \A i \in 0 .. WORDS - 1 :
         LET x == W(first.gpr[A], i)  y == W(first.gpr[B], i)
         IN W(gpr[T], i) = IF biased(x) >= biased(y) THEN x ELSE y

\* What gb, gbh and gbb gather, fsm, fsmh and fsmb spread to the same lanes, in a
\* register that both overwrite while it is their source.
LaneMasks ==
  \A size \in Sizes :
    program = OddLanes(size) /\ Halted =>
      \A i \in 0 .. (QUAD \div size) - 1 :
        Elem(gpr[A], size, i) = Ones(size) * (Elem(first.gpr[A], size, i) % 2)

\* A left shift and a right shift by the rest of the width move every bit of a lane
\* where a rotation moves it, for counts within and beyond the width: the right shift
\* negates its count, and a count of the whole width leaves nothing.
RotationsAgree ==
  \A size \in {HALF, WORD} :
    program = TwoRotations(size) /\ Halted =>
      /\ gpr[T] = gpr[V]
      /\ \A i \in 0 .. (QUAD \div size) - 1, j \in 0 .. Bits(size) - 1 :
           LaneBit(gpr[T], size, i, j + Elem(first.gpr[B], size, i))
             = LaneBit(first.gpr[A], size, i, j)

\* A load and a rotate bring an aligned word to the preferred slot; a load, an
\* insertion and a store change that word of the local store and no other byte.
ScalarAccess ==
  LET at  == W(first.gpr[A], 0) % LS_SIZE
      pos == at - (at % WORD)
  IN /\ program = LoadWord /\ Halted /\ at = pos =>
          \A k \in 0 .. WORD - 1 : gpr[T][k] = first.ls[at + k]
     /\ program = Store(WORD) /\ Halted =>
          ls = [x \in DOMAIN ls |-> IF x \in pos .. pos + WORD - 1
                                    THEN first.gpr[B][x - pos] ELSE first.ls[x]]

\* The same store of a halfword inserts the preferred halfword, the low half of
\* word 0, which is the one the halfword branches test (line 464).
HalfwordStore ==
  LET at  == W(first.gpr[A], 0) % LS_SIZE
      pos == at - (at % HALF)
  IN program = Store(HALF) /\ Halted =>
       ls = [x \in DOMAIN ls |-> IF x \in pos .. pos + HALF - 1
                                 THEN first.gpr[B][HALF + x - pos] ELSE first.ls[x]]

\* A subroutine called by brsl loops by brnz as often as asked, returns by bi
\* behind the call and stops there.
SubroutineReturns ==
  program = CallLoop /\ Halted =>
    /\ ~running /\ pc = 3 * WORD
    /\ W(gpr[T], 0) = (W(first.gpr[A], 0) * W(first.gpr[B], 0)) % M

\* A quadword whose words are the doubles of those at address at.
Doubled(store, at) ==
  FromWords([i \in 0 .. WORDS - 1 |->
               (2 * Elem([k \in Bytes |-> store[at + k]], WORD, i)) % M])

\* A program that reads a range of guest memory by DMA, changes a quadword of it and
\* writes it back with the channels as the read left them changes that quadword and
\* nothing else; a range that is not wholly memory is left alone, but for a write to
\* RSX IO.  One that reports and asks for an answer stops behind the question.
ChannelsServe ==
  LET at  == W(first.gpr[A], 0)
      sz  == Cut(W(first.gpr[B], 0))
      ram == RAM .. RAM_END - 1
      Quadword == at .. at + QUAD - 1
      Range    == at .. at + sz - 1
  IN /\ \A lsa \in Buffers, get \in Gets, put \in Puts :
          program = Update(lsa, get, put) /\ Halted =>
            /\ Range \subseteq ram /\ at + sz # RAM_END =>
                 memory = [x \in Memory |-> IF x \in Quadword
                                            THEN Doubled(GuestPattern, at)[x - at]
                                            ELSE GuestPattern[x]]
            /\ ~(Range \subseteq ram) /\ ~(Range \subseteq IO .. IO_END - 1) =>
                 memory = GuestPattern
     /\ program = Ask /\ Halted => ~running /\ pc = 4 * WORD /\ posted = 1
=============================================================================
