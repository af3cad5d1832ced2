------------------------------ MODULE SpuStep ------------------------------
(***************************************************************************)
(* The SPU interpreter: spu_step and spu_run of spu_interp.cpp, for the    *)
(* integer, shuffle, shift, memory and branch instructions.                *)
(*                                                                         *)
(* A register is a quadword of bytes in SPU order, byte 0 the most         *)
(* significant one of word 0.  A byte has eight bits; a word has WORD      *)
(* bytes (4 in the code) and a quadword WORDS words (4 in the code), and   *)
(* every width, mask and count below follows from these.  An element loop  *)
(* is executed in place, lane after lane, as in the code: it may overwrite *)
(* what a later lane reads when a destination is also a source.            *)
(*                                                                         *)
(* An instruction is a record of its decoded fields.  Those that differ    *)
(* only in the width of their elements (a, ah), or in the second operand   *)
(* being a register or an immediate (a, ai), share an op: size is the      *)
(* width in bytes, form says which operand it is.                          *)
(***************************************************************************)
EXTENDS Integers, Sequences

CONSTANTS WORD,       \* bytes of a word
          WORDS,      \* words of a register
          LS_SIZE,    \* bytes of the local store (SPU_LS_SIZE)
          Registers,  \* the general purpose registers
          MaxInsns    \* max_insns of spu_run

ASSUME SpuAssumption ==
  /\ WORD \in {2, 4} /\ WORDS \in {2, 4}
  /\ LS_SIZE \in Nat /\ LS_SIZE % (WORD * WORDS) = 0
  /\ MaxInsns \in Nat

VARIABLES gpr,      \* the registers
          ls,       \* the local store's data
          pc,       \* program counter
          running,  \* cleared by stop
          n,        \* instructions executed by spu_run
          program,  \* the instructions, one for every word from address 0
          first     \* registers and local store at the start (history)

vars == <<gpr, ls, pc, running, n, program, first>>

HALF  == WORD \div 2
QUAD  == WORD * WORDS
Bytes == 0 .. QUAD - 1
Byte  == 0 .. 255
Quad  == [Bytes -> Byte]
Zero  == [k \in Bytes |-> 0]

Bits(size) == 8 * size

\* What byte j of a number counts for, byte 0 the least significant: 256^j.
Weight(j)  == CASE j = 0 -> 1 [] j = 1 -> 256 [] j = 2 -> 256 * 256
                [] j = 3 -> 256 * 256 * 256 [] j = 4 -> 256 * 256 * 256 * 256
Ones(size) == Weight(size) - 1

\* What bit j counts for, bit 0 the least significant: 2^j.
Power(j) == Weight(j \div 8) * <<1, 2, 4, 8, 16, 32, 64, 128>>[(j % 8) + 1]

\* Element i of width size: spu_reg_get_w, spu_reg_get_h, u8[i].
Elem(q, size, i) ==
  LET value[k \in 0 .. size] ==
        IF k = 0 THEN 0 ELSE 256 * value[k - 1] + q[size * i + k - 1]
  IN value[size]

\* The i-th lane of width size set to v: spu_reg_set_w, spu_reg_set_h.
SetElem(q, size, i, v) ==
  [k \in Bytes |-> IF k \div size = i
                   THEN (v \div Weight(size - 1 - (k % size))) % 256 ELSE q[k]]

\* memset of a register and SW of word 0.
Preferred(v) == SetElem(Zero, WORD, 0, v)

\* The value as intN_t, and its complement in N bits.
SignIgnored(v, size) == v
Signed(v, size) == IF 2 * v >= Weight(size) THEN v - Weight(size) ELSE v

Negated(x, size)    == Ones(size) + 1 - x
Complement(x, size) == Ones(size) - x
-----------------------------------------------------------------------------
(***************************************************************************)
(* One element of the result, from the elements x of RA, y of RB (or the   *)
(* immediate) and t of RT before the instruction.                          *)
(***************************************************************************)
Logic(op, x, y, size) ==
  LET bit(b, c) == CASE op = "and"  -> b * c
                     [] op = "or"   -> b + c - b * c
                     [] op = "xor"  -> (b + c) % 2
                     [] op = "nand" -> 1 - b * c
                     [] op = "nor"  -> (1 - b) * (1 - c)
                     [] op = "andc" -> b * (1 - c)
                     [] op = "orc"  -> 1 - (1 - b) * c
                     [] op = "eqv"  -> (b + c + 1) % 2
      value[k \in 0 .. Bits(size)] ==
        IF k = 0 THEN 0
        ELSE LET w == Power(Bits(size) - k)
             IN 2 * value[k - 1] + bit((x \div w) % 2, (y \div w) % 2)
  IN value[Bits(size)]

\* Sums and differences; SetElem keeps the low bits.
Arithmetic(op, x, y, t, size) ==
  LET carry == t % 2
      notX  == Complement(x, size)
      over  == Weight(size)
  IN CASE op = "a"    -> x + y
       [] op = "sf"   -> y - x
       [] op = "addx" -> x + y + carry
       [] op = "sfx"  -> y + notX + carry
       [] op = "cg"   -> (x + y) \div over
       [] op = "bg"   -> IF x <= y THEN 1 ELSE 0
       [] op = "cgx"  -> (x + y + carry) \div over
       [] op = "bgx"  -> (y + notX + carry) \div over
       [] op = "absdb" -> IF x >= y THEN x - y ELSE y - x
       [] op = "avgb"  -> (x + y + 1) \div 2

Compare(op, x, y, size) ==
  LET holds == CASE op = "ceq"  -> x = y
                 [] op = "cgt"  -> Signed(x, size) > Signed(y, size)
                 [] op = "clgt" -> x > y
  IN IF holds THEN Ones(size) ELSE 0

\* Products of halves of words; mpyh moves its product to the high half.
Low(v)  == v % Weight(HALF)
High(v) == v \div Weight(HALF)

MpyhUnshifted(x, y) == Signed(High(x), HALF) * Signed(Low(y), HALF)
Mpyh(x, y) == Signed(High(x), HALF) * Signed(Low(y), HALF) * Weight(HALF)

Multiply(op, x, y, t) ==
  LET low  == Signed(Low(x), HALF) * Signed(Low(y), HALF)
      high == Signed(High(x), HALF) * Signed(High(y), HALF)
  IN CASE op = "mpy"     -> low
       [] op = "mpyu"    -> Low(x) * Low(y)
       [] op = "mpyh"    -> Mpyh(x, y)
       [] op = "mpys"    -> low \div Weight(HALF)
       [] op = "mpyhh"   -> high
       [] op = "mpyhhu"  -> High(x) * High(y)
       [] op = "mpyhha"  -> t + high
       [] op = "mpyhhau" -> t + High(x) * High(y)

\* The count of a right shift is negated and masked to one bit more than the width.
CountNotNegated(y, w) == y % (2 * w)
RightCount(y, w) == (-y) % (2 * w)

\* Shifts of one element.
Shift(op, x, y, size) ==
  LET w     == Bits(size)
      left  == y % (2 * w)
      right == RightCount(y, w)
      rot   == y % w
  IN CASE op = "rot"   -> ((x * Power(rot)) % Power(w)) + (x \div Power(w - rot))
       [] op = "shl"   -> IF left < w THEN (x * Power(left)) % Power(w) ELSE 0
       [] op = "rotm"  -> IF right < w THEN x \div Power(right) ELSE 0
       [] op = "rotma" -> Signed(x, size) \div Power(IF right < w THEN right ELSE w - 1)

\* Instructions with one operand: count, extend the sign, or load a constant.
Unary(op, x, y, size) ==
  LET ones[k \in 0 .. Bits(size)] ==
        IF k = 0 THEN 0 ELSE ones[k - 1] + ((x \div Power(k - 1)) % 2)
      sign == Power(4 * size - 1)
      low  == x % (2 * sign)
  IN CASE op = "clz"  -> Bits(size) - (CHOOSE k \in 0 .. Bits(size) :
                                         x < Power(k) /\ (k = 0 \/ x >= Power(k - 1)))
       [] op = "cntb" -> ones[Bits(size)]
       [] op = "ext"  -> IF low >= sign THEN low - 2 * sign ELSE low
       [] op = "il"   -> y

LogicOps    == {"and", "or", "xor", "nand", "nor", "andc", "orc", "eqv"}
ArithmeticOps == {"a", "sf", "addx", "sfx", "cg", "bg", "cgx", "bgx", "absdb", "avgb"}
CompareOps    == {"ceq", "cgt", "clgt"}
MultiplyOps   == {"mpy", "mpyu", "mpyh", "mpys", "mpyhh", "mpyhhu", "mpyhha", "mpyhhau"}
ShiftOps      == {"rot", "shl", "rotm", "rotma"}
UnaryOps      == {"clz", "cntb", "ext", "il"}
ElementOps    == LogicOps \cup ArithmeticOps \cup CompareOps \cup MultiplyOps
                   \cup ShiftOps \cup UnaryOps

Element(op, x, y, t, size) ==
  CASE op \in LogicOps    -> Logic(op, x, y, size)
    [] op \in ArithmeticOps -> Arithmetic(op, x, y, t, size)
    [] op \in CompareOps    -> Compare(op, x, y, size)
    [] op \in MultiplyOps   -> Multiply(op, x, y, t)
    [] op \in ShiftOps      -> Shift(op, x, y, size)
    [] op \in UnaryOps      -> Unary(op, x, y, size)

\* The second operand's element.  An immediate is cut to the element's width; one bit
\* of a mask, lane 0 the highest, stands for ones in a lane (fsmbi).
Operand(file, ins, i) ==
  CASE ins.form = "RI"   -> ins.imm % Weight(ins.size)
    [] ins.form = "mask" -> Ones(ins.size)
                              * ((ins.imm \div Power((QUAD \div ins.size) - 1 - i)) % 2)
    [] OTHER             -> Elem(file[ins.rb], ins.size, i)

\* The loop over the lanes, which writes RT as it goes.
ElementLoop(file, ins) ==
  LET after[i \in 0 .. QUAD \div ins.size] ==
        IF i = 0 THEN file
        ELSE LET f == after[i - 1]
             IN [f EXCEPT ![ins.rt] =
                   SetElem(@, ins.size, i - 1,
                           Element(ins.op, Elem(f[ins.ra], ins.size, i - 1),
                                   Operand(f, ins, i - 1),
                                   Elem(f[ins.rt], ins.size, i - 1), ins.size))]
  IN after[QUAD \div ins.size]
-----------------------------------------------------------------------------
(***************************************************************************)
(* Instructions that mix lanes.  Each of these functions returns the new   *)
(* quadword, which the code builds in a temporary, or in the result of a   *)
(* function, and copies to RT when it is complete.                         *)
(***************************************************************************)
do_shufb(a, b, c) ==
  [i \in Bytes |->
     CASE c[i] \in 128 .. 191 -> 0
       [] c[i] \in 192 .. 223 -> 255
       [] c[i] \in 224 .. 255 -> 128
       [] OTHER -> LET k == c[i] % (2 * QUAD)
                   IN IF k < QUAD THEN a[k] ELSE b[k - QUAD]]

selb(a, b, c) == [i \in Bytes |-> Logic("or", Logic("and", c[i], b[i], 1),
                                                Logic("andc", a[i], c[i], 1), 1)]

ControlsUnaligned(at, size) ==  \* inserts at the address itself
  LET pos == at % QUAD
  IN [k \in Bytes |-> IF k \in pos .. pos + size - 1 THEN k - pos ELSE QUAD + k]

gen_controls(at, size) ==
  LET pos == (at % QUAD) - (at % size)
  IN [k \in Bytes |-> IF k \in pos .. pos + size - 1 THEN k - pos ELSE QUAD + k]

q_shl_bytes(a, s) == [k \in Bytes |-> IF k + s < QUAD THEN a[k + s] ELSE 0]
q_shr_bytes(a, s) == [k \in Bytes |-> IF k >= s THEN a[k - s] ELSE 0]
q_rot_bytes(a, s) == [k \in Bytes |-> a[(k + s) % QUAD]]

ShrBitsNoCarry(a, s) == [k \in Bytes |-> a[k] \div Power(s)]

\* s = 0..7; the bits that leave a byte enter its neighbour.
q_shl_bits(a, s) ==
  [k \in Bytes |-> ((a[k] * Power(s)) % 256)
                     + (IF k < QUAD - 1 THEN a[k + 1] \div Power(8 - s) ELSE 0)]
q_shr_bits(a, s) ==
  [k \in Bytes |-> (a[k] \div Power(s))
                     + (IF k > 0 THEN (a[k - 1] * Power(8 - s)) % 256 ELSE 0)]
q_rot_bits(a, s) ==
  [k \in Bytes |-> ((a[k] * Power(s)) % 256) + (a[(k + 1) % QUAD] \div Power(8 - s))]

\* The count v is RB's preferred word or the immediate; "bybi" forms count bits.
QuadShift(op, a, v) ==
  CASE op = "rotqbi"    -> q_rot_bits(a, v % 8)
    [] op = "rotqmbi"   -> q_shr_bits(a, (-v) % 8)
    [] op = "shlqbi"    -> q_shl_bits(a, v % 8)
    [] op = "rotqby"    -> q_rot_bytes(a, v % QUAD)
    [] op = "rotqmby"   -> q_shr_bytes(a, (-v) % (2 * QUAD))
    [] op = "shlqby"    -> q_shl_bytes(a, v % (2 * QUAD))
    [] op = "rotqbybi"  -> q_rot_bytes(a, (v \div 8) % QUAD)
    [] op = "rotqmbybi" -> q_shr_bytes(a, (-(v \div 8)) % (2 * QUAD))
    [] op = "shlqbybi"  -> q_shl_bytes(a, (v \div 8) % (2 * QUAD))

\* Sums of the bytes of each word of RB and RA, in a temporary (sumb).
SumBytes(a, b) ==
  LET sum(q, i) == LET upTo[k \in 0 .. WORD] ==
                         IF k = 0 THEN 0 ELSE upTo[k - 1] + q[WORD * i + k - 1]
                   IN upTo[WORD]
  IN [k \in Bytes |->
        LET v == IF k % WORD < HALF THEN sum(b, k \div WORD) ELSE sum(a, k \div WORD)
        IN (v \div Weight(HALF - 1 - (k % HALF))) % 256]

\* The odd word of each pair, extended to the pair (xswd).
ExtendWords(a) ==
  [k \in Bytes |-> IF (k \div WORD) % 2 = 1 THEN a[k]
                   ELSE IF a[k - (k % WORD) + WORD] >= 128 THEN 255 ELSE 0]
-----------------------------------------------------------------------------
(***************************************************************************)
(* Instructions that mix lanes and write RT without a temporary: what they *)
(* take from RA is read before RT, which may be RA, is cleared or written. *)
(***************************************************************************)
\* The least significant bits of all lanes, lane 0 the highest (gb, gbh, gbb).
Gather(a, size) ==
  LET value[i \in 0 .. QUAD \div size] ==
        IF i = 0 THEN 0 ELSE 2 * value[i - 1] + (Elem(a, size, i - 1) % 2)
  IN value[QUAD \div size]

\* The OR of all words (orx).
OrAcross(a) ==
  LET value[i \in 0 .. WORDS] ==
        IF i = 0 THEN 0 ELSE Logic("or", value[i - 1], Elem(a, WORD, i - 1), WORD)
  IN value[WORDS]

ClearedFirst(file, ins) ==  \* RT is cleared before RA is read
  LET cleared == [file EXCEPT ![ins.rt] = Zero]
      v == IF ins.op = "orx" THEN OrAcross(cleared[ins.ra])
                             ELSE Gather(cleared[ins.ra], ins.size)
  IN [cleared EXCEPT ![ins.rt] = SetElem(@, WORD, 0, v)]

\* A number made of all lanes of RA, memset of RT and SW of word 0.
ToPreferred(file, ins) ==
  LET v == IF ins.op = "orx" THEN OrAcross(file[ins.ra]) ELSE Gather(file[ins.ra], ins.size)
      cleared == [file EXCEPT ![ins.rt] = Zero]
  IN [cleared EXCEPT ![ins.rt] = SetElem(@, WORD, 0, v)]

\* One lane of ones for every bit of RA's preferred word, lane after lane, the word
\* read once before them (fsm, fsmh, fsmb).
Spread(file, ins) ==
  ElementLoop(file, [ins EXCEPT !.op = "il", !.form = "mask",
                                !.imm = Elem(file[ins.ra], WORD, 0)])
-----------------------------------------------------------------------------
(***************************************************************************)
(* One instruction.                                                        *)
(***************************************************************************)
Word0(r)   == Elem(gpr[r], WORD, 0)
Stop       == [op |-> "stop"]
Sequential == (pc + WORD) % LS_SIZE

\* Memory past the program is zero, and zero is the opcode of stop.
Insn == IF pc \div WORD < Len(program) THEN program[(pc \div WORD) + 1] ELSE Stop

Aligned(a) == LET at == a % LS_SIZE IN at - (at % QUAD)

\* Loads and stores: d-, x-, a- and r-forms.
EffectiveAddress(ins) ==
  Aligned(CASE ins.form = "d" -> Word0(ins.ra) + ins.imm * QUAD
            [] ins.form = "x" -> Word0(ins.ra) + Word0(ins.rb)
            [] ins.form = "a" -> ins.imm * WORD
            [] ins.form = "r" -> pc + ins.imm * WORD)

\* The second number of an instruction whose operand is RB's preferred word or imm.
Scalar(ins) == IF ins.form = "RI" THEN ins.imm ELSE Word0(ins.rb)

QuadShiftOps == {"rotqbi", "rotqmbi", "shlqbi", "rotqby", "rotqmby", "shlqby",
                 "rotqbybi", "rotqmbybi", "shlqbybi"}
QuadOps == QuadShiftOps \cup {"shufb", "selb", "mpya", "controls", "sumb", "xswd"}

QuadResult(ins) ==
  LET a == gpr[ins.ra]
      b == gpr[ins.rb]
      c == gpr[ins.rc]
  IN CASE ins.op = "shufb"    -> do_shufb(a, b, c)
       [] ins.op = "selb"     -> selb(a, b, c)
       [] ins.op = "mpya"     -> [k \in Bytes |->
              LET i == k \div WORD
              IN SetElem(Zero, WORD, i, Multiply("mpy", Elem(a, WORD, i), Elem(b, WORD, i), 0)
                                          + Elem(c, WORD, i))[k]]
       [] ins.op = "controls" -> gen_controls(Word0(ins.ra) + Scalar(ins), ins.size)
       [] ins.op = "sumb"     -> SumBytes(a, b)
       [] ins.op = "xswd"     -> ExtendWords(a)
       [] ins.op \in QuadShiftOps -> QuadShift(ins.op, a, Scalar(ins))

\* The tests of the branches; the halfword ones read the low half of word 0.
Taken(ins) ==
  CASE ins.when = "always" -> TRUE
    [] ins.when = "never"  -> FALSE
    [] ins.when = "z"      -> Word0(ins.rt) = 0
    [] ins.when = "nz"     -> Word0(ins.rt) # 0
    [] ins.when = "hz"     -> Low(Word0(ins.rt)) = 0
    [] ins.when = "hnz"    -> Low(Word0(ins.rt)) # 0

TargetFromNext(ins) ==  \* relative to the next instruction
  CASE ins.form = "r" -> (pc + WORD + ins.imm * WORD) % LS_SIZE
    [] ins.form = "a" -> (ins.imm * WORD) % LS_SIZE
    [] ins.form = "i" -> LET at == Word0(ins.ra) % LS_SIZE IN at - (at % WORD)

Target(ins) ==
  CASE ins.form = "r" -> (pc + ins.imm * WORD) % LS_SIZE
    [] ins.form = "a" -> (ins.imm * WORD) % LS_SIZE
    [] ins.form = "i" -> LET at == Word0(ins.ra) % LS_SIZE IN at - (at % WORD)

\* One turn of spu_run's loop, after which execution goes on at address to.
Continues(to) ==
  /\ running /\ n < MaxInsns
  /\ n' = n + 1 /\ pc' = to
  /\ UNCHANGED <<program, first>>

ExecElement(ins) == /\ ins.op \in ElementOps
                    /\ Continues(Sequential)
                    /\ gpr' = ElementLoop(gpr, ins)
                    /\ UNCHANGED <<ls, running>>

ExecQuad(ins) == /\ ins.op \in QuadOps
                 /\ Continues(Sequential)
                 /\ gpr' = [gpr EXCEPT ![ins.rt] = QuadResult(ins)]
                 /\ UNCHANGED <<ls, running>>

ExecPreferred(ins) == /\ ins.op \in {"gather", "orx"}
                      /\ Continues(Sequential)
                      /\ gpr' = ToPreferred(gpr, ins)
                      /\ UNCHANGED <<ls, running>>

ExecSpread(ins) == /\ ins.op = "spread"
                   /\ Continues(Sequential)
                   /\ gpr' = Spread(gpr, ins)
                   /\ UNCHANGED <<ls, running>>

ExecLoad(ins) == /\ ins.op = "lq"
                 /\ Continues(Sequential)
                 /\ gpr' = [gpr EXCEPT ![ins.rt] =
                              [k \in Bytes |-> ls[EffectiveAddress(ins) + k]]]
                 /\ UNCHANGED <<ls, running>>

ExecStore(ins) == /\ ins.op = "stq"
                  /\ Continues(Sequential)
                  /\ LET ea == EffectiveAddress(ins)
                     IN ls' = [x \in DOMAIN ls |-> IF x \in ea .. ea + QUAD - 1
                                                   THEN gpr[ins.rt][x - ea] ELSE ls[x]]
                  /\ UNCHANGED <<gpr, running>>

ExecBranch(ins) == /\ ins.op = "branch"
                   /\ Continues(IF Taken(ins) THEN Target(ins) ELSE Sequential)
                   /\ gpr' = IF ins.link
                             THEN [gpr EXCEPT ![ins.rt] = Preferred(Sequential)] ELSE gpr
                   /\ UNCHANGED <<ls, running>>

ExecStop(ins) == /\ ins.op = "stop"
                 /\ Continues(Sequential)
                 /\ running' = FALSE
                 /\ UNCHANGED <<gpr, ls>>

\* nop, hints, halts and what the interpreter does not know.
ExecNop(ins) == /\ ins.op = "nop"
                /\ Continues(Sequential)
                /\ UNCHANGED <<gpr, ls, running>>

spu_step == \/ ExecElement(Insn) \/ ExecQuad(Insn)
            \/ ExecPreferred(Insn) \/ ExecSpread(Insn)
            \/ ExecLoad(Insn) \/ ExecStore(Insn)
            \/ ExecBranch(Insn) \/ ExecStop(Insn) \/ ExecNop(Insn)

\* A context whose caller loaded data and registers and set the entry to 0.
Loaded(code, registers, data) ==
  /\ program = code
  /\ gpr = registers /\ ls = data
  /\ first = [gpr |-> registers, ls |-> data]
  /\ pc = 0 /\ running = TRUE /\ n = 0
=============================================================================
