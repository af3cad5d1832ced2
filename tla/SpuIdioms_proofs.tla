------------------------- MODULE SpuIdioms_proofs -------------------------
(***************************************************************************)
(* Machine-checked proofs about the SPU interpreter: what an instruction   *)
(* does in place, and what sequences of instructions compute, for words of *)
(* two and of four bytes, every local store and every sample of operands.  *)
(***************************************************************************)
EXTENDS SpuIdioms, TLAPS

(***************************************************************************)
(* Elements of a register.                                                 *)
(***************************************************************************)
\* The recursion that reads an element, unrolled.
LEMMA ElemUnfold ==
  ASSUME NEW q, NEW size \in {1, 2, 4}, NEW i
  PROVE  Elem(q, size, i) =
           CASE size = 1 -> 256 * 0 + q[size * i + 1 - 1]
             [] size = 2 -> 256 * (256 * 0 + q[size * i + 1 - 1]) + q[size * i + 2 - 1]
             [] size = 4 -> 256 * (256 * (256 * (256 * 0 + q[size * i + 1 - 1])
                                            + q[size * i + 2 - 1])
                                     + q[size * i + 3 - 1]) + q[size * i + 4 - 1]
<1> DEFINE b(k) == q[size * i + k - 1]
           v1 == 256 * 0 + b(1)
           v2 == 256 * v1 + b(2)
           v3 == 256 * v2 + b(3)
           v4 == 256 * v3 + b(4)
           w  == [k \in 0 .. size |->
                    CASE k = 0 -> 0 [] k = 1 -> v1 [] k = 2 -> v2 [] k = 3 -> v3 [] k = 4 -> v4]
           Is(v) == v = [k \in 0 .. size |-> IF k = 0 THEN 0
                                             ELSE 256 * v[k - 1] + q[size * i + k - 1]]
           value == CHOOSE v : Is(v)
<1>1. Is(w)
  <2> DEFINE F(k) == IF k = 0 THEN 0 ELSE 256 * w[k - 1] + q[size * i + k - 1]
  <2>1. ASSUME NEW k \in 0 .. size PROVE w[k] = F(k)
    <3>1. k \in 0 .. 4 /\ (k # 0 => k - 1 \in 0 .. size)
      OBVIOUS
    <3> QED BY <3>1
  <2>2. w = [k \in 0 .. size |-> F(k)]
    <3> HIDE DEF F
    <3> SUFFICES ASSUME NEW k \in 0 .. size PROVE w[k] = F(k)
      OBVIOUS
    <3> QED BY <2>1
  <2> QED BY <2>2
<1>2. Is(value)
  BY <1>1
<1>3. Elem(q, size, i) = value[size]
  BY DEF Elem
<1>4. value[0] = 0 /\ \A k \in 1 .. size : value[k] = 256 * value[k - 1] + b(k)
  <2> HIDE DEF value
  <2>1. value = [k \in 0 .. size |-> IF k = 0 THEN 0
                                     ELSE 256 * value[k - 1] + q[size * i + k - 1]]
    BY <1>2
  <2>2. \A k \in 0 .. size : value[k] = IF k = 0 THEN 0
                                        ELSE 256 * value[k - 1] + q[size * i + k - 1]
    BY <2>1
  <2> QED BY <2>2
<1> HIDE DEF value, Is, w
<1>5. CASE size = 1
  BY <1>3, <1>4, <1>5
<1>6. CASE size = 2
  BY <1>3, <1>4, <1>6
<1>7. CASE size = 4
  <2>1. value[1] = v1 /\ value[2] = v2
    BY <1>4, <1>7
  <2>2. value[3] = v3 /\ value[4] = v4
    BY <1>4, <1>7, <2>1
  <2> QED BY <1>3, <1>7, <2>2
<1> QED BY <1>5, <1>6, <1>7

\* The widths of this interpreter, and what its bytes count for.
LEMMA Widths ==
  /\ WORD \in {2, 4} /\ WORDS \in {2, 4} /\ QUAD = WORD * WORDS /\ HALF \in {1, 2}
  /\ QUAD \in {4, 8, 16} /\ QUAD >= 2 * WORD /\ WORD = 2 * HALF
  /\ Weight(0) = 1 /\ Weight(1) = 256 /\ Weight(2) = 256 * 256 /\ Weight(3) = 256 * 256 * 256
  /\ Weight(4) = 256 * 256 * 256 * 256 /\ M = Weight(WORD) /\ Ones(WORD) = M - 1
  /\ Bytes = 0 .. QUAD - 1
<1>1. WORD \in {2, 4} /\ WORDS \in {2, 4}
  BY SpuAssumption
<1>2. QUAD \in {4, 8, 16} /\ QUAD >= 2 * WORD
  BY <1>1 DEF QUAD
<1> QED BY <1>1, <1>2 DEF QUAD, HALF, Weight, M, Ones, Bytes

\* The two widths of a word and of a register.
LEMMA Shapes ==
  \/ WORD = 2 /\ WORDS = 2 /\ QUAD = 4
  \/ WORD = 2 /\ WORDS = 4 /\ QUAD = 8
  \/ WORD = 4 /\ WORDS = 2 /\ QUAD = 8
  \/ WORD = 4 /\ WORDS = 4 /\ QUAD = 16
BY SpuAssumption DEF QUAD

\* A byte of a register is a byte of one of its words.
LEMMA Places ==
  /\ \A k \in Bytes : /\ k \div WORD \in 0 .. WORDS - 1 /\ WORD - 1 - (k % WORD) \in 0 .. WORD - 1
                      /\ k % WORD \in 0 .. WORD - 1 /\ WORD * (k \div WORD) + (k % WORD) = k
  /\ \A i \in 0 .. WORDS - 1, k \in 0 .. WORD - 1 :
       WORD * i + k \in Bytes /\ (WORD * i + k) \div WORD = i /\ (WORD * i + k) % WORD = k
<1>1. Bytes = 0 .. QUAD - 1
  BY Widths
<1>2. CASE WORD = 2 /\ WORDS = 2 /\ QUAD = 4
  BY <1>1, <1>2
<1>3. CASE WORD = 2 /\ WORDS = 4 /\ QUAD = 8
  BY <1>1, <1>3
<1>4. CASE WORD = 4 /\ WORDS = 2 /\ QUAD = 8
  BY <1>1, <1>4
<1>5. CASE WORD = 4 /\ WORDS = 4 /\ QUAD = 16
  BY <1>1, <1>5
<1> QED BY <1>2, <1>3, <1>4, <1>5, Shapes

\* A word from its bytes.
LEMMA WordIs ==
  ASSUME NEW q, NEW i \in Int, \A k \in 0 .. WORD - 1 : q[WORD * i + k] \in Int
  PROVE  /\ WORD = 2 => Elem(q, WORD, i) = 256 * q[WORD * i] + q[WORD * i + 1]
         /\ WORD = 4 => Elem(q, WORD, i) =
                          256 * (256 * (256 * q[WORD * i] + q[WORD * i + 1])
                                   + q[WORD * i + 2]) + q[WORD * i + 3]
<1>1. CASE WORD = 2
  <2>1. Elem(q, WORD, i) = 256 * (256 * 0 + q[WORD * i + 1 - 1]) + q[WORD * i + 2 - 1]
    BY <1>1, ElemUnfold
  <2>2. /\ WORD * i + 1 - 1 = WORD * i /\ WORD * i + 2 - 1 = WORD * i + 1
        /\ WORD * i + 0 = WORD * i
    BY <1>1
  <2>3. q[WORD * i] \in Int /\ q[WORD * i + 1] \in Int
    BY <1>1, <2>2
  <2> QED BY <1>1, <2>1, <2>2, <2>3
<1>2. CASE WORD = 4
  <2>1. Elem(q, WORD, i) = 256 * (256 * (256 * (256 * 0 + q[WORD * i + 1 - 1])
                                            + q[WORD * i + 2 - 1])
                                     + q[WORD * i + 3 - 1]) + q[WORD * i + 4 - 1]
    BY <1>2, ElemUnfold
  <2>2. /\ WORD * i + 1 - 1 = WORD * i /\ WORD * i + 2 - 1 = WORD * i + 1
        /\ WORD * i + 3 - 1 = WORD * i + 2 /\ WORD * i + 4 - 1 = WORD * i + 3
        /\ WORD * i + 0 = WORD * i
    BY <1>2
  <2>3. /\ q[WORD * i] \in Int /\ q[WORD * i + 1] \in Int
        /\ q[WORD * i + 2] \in Int /\ q[WORD * i + 3] \in Int
    BY <1>2, <2>2
  <2> QED BY <1>2, <2>1, <2>2, <2>3
<1> QED BY <1>1, <1>2, Widths

LEMMA TwoBytesBound ==
  ASSUME NEW a \in Byte, NEW b \in Byte
  PROVE  /\ 256 * a + b \in Int /\ 0 <= 256 * a + b /\ 256 * a + b < 256 * 256
BY DEF Byte

LEMMA FourBytesBound ==
  ASSUME NEW a \in Byte, NEW b \in Byte, NEW c \in Byte, NEW d \in Byte
  PROVE  /\ 256 * (256 * (256 * a + b) + c) + d \in Int
         /\ 0 <= 256 * (256 * (256 * a + b) + c) + d
         /\ 256 * (256 * (256 * a + b) + c) + d < 256 * 256 * 256 * 256
<1> DEFINE p == 256 * a + b
           r == 256 * p + c
<1>1. p \in Int /\ 0 <= p /\ p < 256 * 256
  BY TwoBytesBound
<1>2. r \in Int /\ 0 <= r /\ r < 256 * 256 * 256
  <2> HIDE DEF p
  <2> QED BY <1>1 DEF Byte
<1>3. 256 * r + d \in Int /\ 0 <= 256 * r + d /\ 256 * r + d < 256 * 256 * 256 * 256
  <2> HIDE DEF r
  <2> QED BY <1>2 DEF Byte
<1> QED BY <1>3

\* Bytes of a number put together again are the number's low bits.
LEMMA TwoBytes ==
  ASSUME NEW v \in Int
  PROVE  256 * ((v \div 256) % 256) + ((v \div 1) % 256) = v % (256 * 256)
OBVIOUS

LEMMA FourBytes ==
  ASSUME NEW v \in Int
  PROVE  256 * (256 * (256 * ((v \div (256 * 256 * 256)) % 256) + ((v \div (256 * 256)) % 256))
                  + ((v \div 256) % 256)) + ((v \div 1) % 256) = v % (256 * 256 * 256 * 256)
BY SMTT(30)

\* Where the lanes of a size are.
LEMMA Lanes ==
  ASSUME NEW size \in Sizes
  PROVE  /\ size \in {1, 2, 4} /\ QUAD \div size \in {2, 4, 8, 16}
         /\ \A k \in Bytes : k \div size \in 0 .. (QUAD \div size) - 1
         /\ \A i \in 0 .. (QUAD \div size) - 1, k \in 0 .. size - 1 :
              size * i + k \in Bytes /\ (size * i + k) \div size = i
<1>1. Bytes = 0 .. QUAD - 1 /\ size \in {1, 2, 4} /\ (size = 4 => QUAD \in {8, 16})
      /\ QUAD \in {4, 8, 16}
  BY Widths, Shapes DEF Sizes
<1>2. CASE size = 1
  BY <1>1, <1>2
<1>3. CASE size = 2
  <2>1. CASE QUAD = 4
    BY <1>1, <1>3, <2>1
  <2>2. CASE QUAD = 8
    BY <1>1, <1>3, <2>2
  <2>3. CASE QUAD = 16
    BY <1>1, <1>3, <2>3
  <2> QED BY <1>1, <2>1, <2>2, <2>3
<1>4. CASE size = 4
  <2>1. CASE QUAD = 8
    BY <1>1, <1>4, <2>1
  <2>2. CASE QUAD = 16
    BY <1>1, <1>4, <2>2
  <2> QED BY <1>1, <1>4, <2>1, <2>2
<1> QED BY <1>1, <1>2, <1>3, <1>4

\* An element depends on its own bytes only.
LEMMA ElemLocal ==
  ASSUME NEW q, NEW r, NEW size \in Sizes, NEW i \in 0 .. (QUAD \div size) - 1,
         \A k \in Bytes : k \div size = i => q[k] = r[k]
  PROVE  Elem(q, size, i) = Elem(r, size, i)
<1>1. \A k \in 0 .. size - 1 : size * i + k \in Bytes /\ (size * i + k) \div size = i
  BY Lanes
<1>2. \A k \in 0 .. size - 1 : q[size * i + k] = r[size * i + k]
  BY <1>1
<1>3. i \in Int /\ size \in {1, 2, 4}
  BY Lanes
<1>4. \A k \in 1 .. size : q[size * i + k - 1] = r[size * i + k - 1]
  <2> SUFFICES ASSUME NEW k \in 1 .. size PROVE q[size * i + k - 1] = r[size * i + k - 1]
    OBVIOUS
  <2>1. k - 1 \in 0 .. size - 1 /\ size * i + k - 1 = size * i + (k - 1)
    BY <1>3
  <2> QED BY <1>2, <2>1
<1>5. CASE size = 1
  BY <1>4, <1>5, ElemUnfold
<1>6. CASE size = 2
  <2>1. q[size * i + 1 - 1] = r[size * i + 1 - 1] /\ q[size * i + 2 - 1] = r[size * i + 2 - 1]
    BY <1>4, <1>6
  <2> QED BY <1>6, <2>1, ElemUnfold
<1>7. CASE size = 4
  <2>1. /\ q[size * i + 1 - 1] = r[size * i + 1 - 1] /\ q[size * i + 2 - 1] = r[size * i + 2 - 1]
        /\ q[size * i + 3 - 1] = r[size * i + 3 - 1] /\ q[size * i + 4 - 1] = r[size * i + 4 - 1]
    BY <1>4, <1>7
  <2> QED BY <1>7, <2>1, ElemUnfold
<1> QED BY <1>3, <1>5, <1>6, <1>7

LEMMA ElemInRange ==
  ASSUME NEW q \in Quad, NEW i \in 0 .. WORDS - 1
  PROVE  Elem(q, WORD, i) \in 0 .. M - 1
<1> DEFINE e == Elem(q, WORD, i)
<1> SUFFICES e \in Int /\ 0 <= e /\ e < M
  BY Widths
<1>1. i \in Int /\ \A k \in 0 .. WORD - 1 : q[WORD * i + k] \in Byte
  <2>1. \A k \in 0 .. WORD - 1 : WORD * i + k \in Bytes
    BY Places
  <2>2. i \in Int
    BY Widths
  <2> QED BY <2>1, <2>2 DEF Quad
<1>0. \A k \in 0 .. WORD - 1 : q[WORD * i + k] \in Int
  BY <1>1 DEF Byte
<1>2. CASE WORD = 2
  <2>1. q[WORD * i] \in Byte /\ q[WORD * i + 1] \in Byte
    <3>1. WORD * i + 0 = WORD * i
      BY <1>1, <1>2
    <3> QED BY <1>1, <1>2, <3>1
  <2>2. Elem(q, WORD, i) = 256 * q[WORD * i] + q[WORD * i + 1]
    BY <1>0, <1>1, <1>2, WordIs
  <2>3. M = 256 * 256
    BY <1>2, Widths
  <2> QED BY <1>2, <2>1, <2>2, <2>3, TwoBytesBound
<1>3. CASE WORD = 4
  <2>1. /\ q[WORD * i] \in Byte /\ q[WORD * i + 1] \in Byte
        /\ q[WORD * i + 2] \in Byte /\ q[WORD * i + 3] \in Byte
    <3>1. WORD * i + 0 = WORD * i
      BY <1>1, <1>3
    <3> QED BY <1>1, <1>3, <3>1
  <2>2. Elem(q, WORD, i) = 256 * (256 * (256 * q[WORD * i] + q[WORD * i + 1])
                                    + q[WORD * i + 2]) + q[WORD * i + 3]
    BY <1>0, <1>1, <1>3, WordIs
  <2>3. M = 256 * 256 * 256 * 256
    BY <1>3, Widths
  <2> QED BY <1>3, <2>1, <2>2, <2>3, FourBytesBound
<1> QED BY <1>2, <1>3, Widths

\* One byte of a number.
LEMMA ByteOf ==
  ASSUME NEW v \in Int, NEW j \in 0 .. WORD - 1
  PROVE  (v \div Weight(j)) % 256 \in Byte
<1>1. j \in {0, 1, 2, 3}
  BY Widths
<1>2. Weight(j) \in {1, 256, 256 * 256, 256 * 256 * 256}
  BY <1>1, Widths
<1> QED BY <1>2 DEF Byte

\* A word whose bytes are those of a number is the number's low bits.
LEMMA WordOf ==
  ASSUME NEW r, NEW i \in Int, NEW v \in Int,
         \A k \in 0 .. WORD - 1 : r[WORD * i + k] = (v \div Weight(WORD - 1 - k)) % 256
  PROVE  Elem(r, WORD, i) = v % M
<1>1. \A k \in 0 .. WORD - 1 : r[WORD * i + k] \in Int
  <2> SUFFICES ASSUME NEW k \in 0 .. WORD - 1 PROVE r[WORD * i + k] \in Int
    OBVIOUS
  <2> DEFINE j == WORD - 1 - k
  <2>1. j \in 0 .. WORD - 1 /\ r[WORD * i + k] = (v \div Weight(j)) % 256
    BY Widths
  <2> HIDE DEF j
  <2>2. (v \div Weight(j)) % 256 \in Byte
    BY <2>1, ByteOf
  <2> QED BY <2>1, <2>2 DEF Byte
<1>2. CASE WORD = 2
  <2>0. WORD * i + 0 = WORD * i
    BY <1>2
  <2>1. r[WORD * i] = (v \div 256) % 256 /\ r[WORD * i + 1] = (v \div 1) % 256
    BY <1>2, <2>0, Widths
  <2>2. Elem(r, WORD, i) = 256 * r[WORD * i] + r[WORD * i + 1]
    BY <1>1, <1>2, WordIs
  <2>3. M = 256 * 256
    BY <1>2, Widths
  <2> QED BY <2>1, <2>2, <2>3, TwoBytes
<1>3. CASE WORD = 4
  <2>0. WORD * i + 0 = WORD * i
    BY <1>3
  <2>1. /\ r[WORD * i] = (v \div (256 * 256 * 256)) % 256
        /\ r[WORD * i + 1] = (v \div (256 * 256)) % 256
        /\ r[WORD * i + 2] = (v \div 256) % 256 /\ r[WORD * i + 3] = (v \div 1) % 256
    BY SMTT(30), <1>3, <2>0, Widths
  <2>2. Elem(r, WORD, i) = 256 * (256 * (256 * r[WORD * i] + r[WORD * i + 1])
                                    + r[WORD * i + 2]) + r[WORD * i + 3]
    BY <1>1, <1>3, WordIs
  <2>3. M = 256 * 256 * 256 * 256
    BY <1>3, Widths
  <2> QED BY <2>1, <2>2, <2>3, FourBytes
<1> QED BY <1>2, <1>3, Widths

\* A register made from words holds their low bits.
LEMMA FromWordsRead ==
  ASSUME NEW w \in [0 .. WORDS - 1 -> Int]
  PROVE  /\ FromWords(w) \in Quad
         /\ \A i \in 0 .. WORDS - 1 : Elem(FromWords(w), WORD, i) = w[i] % M
<1>1. ASSUME NEW k \in Bytes
      PROVE  (w[k \div WORD] \div Weight(WORD - 1 - (k % WORD))) % 256 \in Byte
  BY Places, ByteOf
<1>2. ASSUME NEW i \in 0 .. WORDS - 1 PROVE Elem(FromWords(w), WORD, i) = w[i] % M
  <2>1. ASSUME NEW k \in 0 .. WORD - 1
        PROVE  FromWords(w)[WORD * i + k] = (w[i] \div Weight(WORD - 1 - k)) % 256
    BY Places DEF FromWords
  <2> QED BY <2>1, WordOf, Widths
<1> QED BY <1>1, <1>2 DEF FromWords, Quad

LEMMA ZeroByte ==
  ASSUME NEW j \in 0 .. WORD - 1
  PROVE  (0 \div Weight(j)) % 256 = 0
<1>1. j \in {0, 1, 2, 3}
  BY Widths
<1>2. Weight(j) \in {1, 256, 256 * 256, 256 * 256 * 256}
  BY <1>1, Widths
<1> QED BY <1>2

LEMMA PreferredWord ==
  ASSUME NEW v \in Int
  PROVE  /\ Preferred(v) \in Quad
         /\ Elem(Preferred(v), WORD, 0) = v % M
         /\ \A i \in 1 .. WORDS - 1 : Elem(Preferred(v), WORD, i) = 0
<1> DEFINE w == [i \in 0 .. WORDS - 1 |-> IF i = 0 THEN v ELSE 0]
<1>1. w \in [0 .. WORDS - 1 -> Int] /\ 0 \in 0 .. WORDS - 1
  BY Widths
<1>2. \A j \in 0 .. WORD - 1 : (0 \div Weight(j)) % 256 = 0
  BY ZeroByte
<1>3. ASSUME NEW k \in Bytes PROVE Preferred(v)[k] = FromWords(w)[k]
  <2>1. k \div WORD \in 0 .. WORDS - 1 /\ WORD - 1 - (k % WORD) \in 0 .. WORD - 1
    BY Places
  <2>2. FromWords(w)[k] = (w[k \div WORD] \div Weight(WORD - 1 - (k % WORD))) % 256
    BY DEF FromWords
  <2>3. Preferred(v)[k] = IF k \div WORD = 0 THEN (v \div Weight(WORD - 1 - (k % WORD))) % 256
                          ELSE 0
    BY DEF Preferred, SetElem, Zero
  <2> QED BY <1>2, <2>1, <2>2, <2>3
<1> HIDE DEF w
<1>4. Preferred(v) = FromWords(w)
  BY <1>3 DEF Preferred, SetElem, FromWords
<1>5. 0 % M = 0 /\ w[0] = v /\ \A i \in 1 .. WORDS - 1 : w[i] = 0 /\ i \in 0 .. WORDS - 1
  BY Widths DEF w
<1> QED BY <1>1, <1>4, <1>5, FromWordsRead

(***************************************************************************)
(* The loop over the lanes of an element instruction.                      *)
(***************************************************************************)
\* What the loop computes for lane i from a register file.
Lane(file, ins, i) ==
  Element(ins.op, Elem(file[ins.ra], ins.size, i), Operand(file, ins, i),
          Elem(file[ins.rt], ins.size, i), ins.size)

\* One turn of the loop.
Turn(file, ins, i) ==
  [file EXCEPT ![ins.rt] = SetElem(@, ins.size, i, Lane(file, ins, i))]

\* The register file when i lanes are done, if no lane reads what an earlier one wrote.
Partial(file, ins, i) ==
  IF i = 0 THEN file
  ELSE [file EXCEPT ![ins.rt] =
          [k \in Bytes |-> IF k \div ins.size < i
                           THEN (Lane(file, ins, k \div ins.size)
                                   \div Weight(ins.size - 1 - (k % ins.size))) % 256
                           ELSE @[k]]]

\* A register file whose registers hold anything.
File(f) == DOMAIN f = Registers /\ f = [r \in Registers |-> f[r]]

\* A lane does not see the lanes before it.
LEMMA PartialTurn ==
  ASSUME NEW file, NEW ins, ins.size \in Sizes, File(file),
         ins.rt \in Registers, ins.ra \in Registers, ins.rb \in Registers,
         NEW i \in 0 .. (QUAD \div ins.size) - 1
  PROVE  Turn(Partial(file, ins, i), ins, i) = Partial(file, ins, i + 1)
<1> DEFINE p == Partial(file, ins, i)
           rt == ins.rt
           size == ins.size
           byte(k) == (Lane(file, ins, k \div size) \div Weight(size - 1 - (k % size))) % 256
<1>1. /\ File(p) /\ \A r \in Registers : r # rt => p[r] = file[r]
      /\ \A k \in Bytes : p[rt][k] = IF k \div size < i THEN byte(k) ELSE file[rt][k]
  <2>1. CASE i = 0
    <3>1. \A k \in Bytes : ~(k \div size < 0)
      <4> SUFFICES ASSUME NEW k \in Bytes PROVE ~(k \div size < 0)
        OBVIOUS
      <4>1. k \div size \in 0 .. (QUAD \div size) - 1
        BY Lanes
      <4> QED BY <4>1
    <3> QED BY <2>1, <3>1 DEF Partial, File
  <2>2. CASE i # 0
    <3> HIDE DEF byte
    <3>1. p = [file EXCEPT ![rt] = [k \in Bytes |-> IF k \div size < i THEN byte(k)
                                                     ELSE file[rt][k]]]
      BY <2>2 DEF Partial, byte, File
    <3> HIDE DEF p
    <3> QED BY <3>1 DEF File
  <2> QED BY <2>1, <2>2
<1> HIDE DEF p
<1>0. i \in Nat /\ \A k \in Bytes : k \div size \in Int
  BY Lanes
<1>2. ASSUME NEW r \in Registers PROVE Elem(p[r], size, i) = Elem(file[r], size, i)
  <2>1. CASE r = rt
    <3>1. \A k \in Bytes : k \div size = i => p[r][k] = file[r][k]
      <4>1. \A j : j = i => ~(j < i)
        BY <1>0
      <4> HIDE DEF byte
      <4> QED BY <1>1, <2>1, <4>1
    <3> QED BY <3>1, ElemLocal
  <2>2. CASE r # rt
    BY <1>1, <2>2
  <2> QED BY <2>1, <2>2
<1>3. Lane(p, ins, i) = Lane(file, ins, i)
  BY <1>2 DEF Lane, Operand
<1>4. Turn(p, ins, i) = [p EXCEPT ![rt] = SetElem(p[rt], size, i, Lane(file, ins, i))]
  BY <1>1, <1>3 DEF Turn, File
<1> DEFINE q == [k \in Bytes |-> IF k \div size < i + 1 THEN byte(k) ELSE file[rt][k]]
<1>5. SetElem(p[rt], size, i, Lane(file, ins, i)) = q
  <2>1. ASSUME NEW k \in Bytes
        PROVE  (IF k \div size = i
                THEN (Lane(file, ins, i) \div Weight(size - 1 - (k % size))) % 256 ELSE p[rt][k])
                 = (IF k \div size < i + 1 THEN byte(k) ELSE file[rt][k])
    <3>1. k \div size \in Int /\ i \in Int
      BY Lanes
    <3>2. CASE k \div size = i
      BY <3>1, <3>2
    <3>3. CASE k \div size < i
      <4>1. k \div size # i /\ k \div size < i + 1
        BY <3>1, <3>3
      <4> HIDE DEF byte
      <4> QED BY <1>1, <3>3, <4>1
    <3>4. CASE k \div size > i
      <4>1. k \div size # i /\ ~(k \div size < i + 1) /\ ~(k \div size < i)
        BY <3>1, <3>4
      <4> HIDE DEF byte
      <4> QED BY <1>1, <4>1
    <3> QED BY <3>1, <3>2, <3>3, <3>4
  <2> HIDE DEF byte
  <2> QED BY <2>1 DEF SetElem
<1> HIDE DEF q
<1>6. Turn(p, ins, i) = [file EXCEPT ![rt] = q]
  BY <1>1, <1>4, <1>5 DEF File
<1>7. Partial(file, ins, i + 1) = [file EXCEPT ![rt] = q]
  <2>1. i + 1 # 0
    BY <1>0
  <2> QED BY <2>1 DEF Partial, q, File
<1> QED BY <1>6, <1>7 DEF p

\* In place or not, the loop gives every lane what it would give it alone.
LEMMA SizedLoop ==
  ASSUME NEW file, NEW ins, ins.size \in Sizes, File(file),
         ins.rt \in Registers, ins.ra \in Registers, ins.rb \in Registers
  PROVE  ElementLoop(file, ins) =
           [file EXCEPT ![ins.rt] =
              [k \in Bytes |-> (Lane(file, ins, k \div ins.size)
                                  \div Weight(ins.size - 1 - (k % ins.size))) % 256]]
<1> DEFINE lanes == QUAD \div ins.size
           w == [i \in 0 .. QUAD \div ins.size |-> Partial(file, ins, i)]
           Is(v) == v = [i \in 0 .. QUAD \div ins.size |->
                           IF i = 0 THEN file
                           ELSE LET f == v[i - 1]
                                IN [f EXCEPT ![ins.rt] =
                                      SetElem(@, ins.size, i - 1,
                                              Element(ins.op, Elem(f[ins.ra], ins.size, i - 1),
                                                      Operand(f, ins, i - 1),
                                                      Elem(f[ins.rt], ins.size, i - 1), ins.size))]]
           after == CHOOSE v : Is(v)
<1>1. lanes \in {2, 4, 8, 16}
  BY Lanes
<1>2. Is(w)
  <2> DEFINE F(i) == IF i = 0 THEN file ELSE Turn(w[i - 1], ins, i - 1)
  <2>1. ASSUME NEW i \in 0 .. QUAD \div ins.size PROVE w[i] = F(i)
    <3>1. CASE i = 0
      BY <3>1 DEF Partial
    <3>2. CASE i # 0
      <4>1. i - 1 \in 0 .. lanes - 1 /\ i - 1 \in 0 .. lanes /\ i - 1 + 1 = i
        <5> HIDE DEF lanes
        <5>1. i \in 0 .. lanes
          BY DEF lanes
        <5> QED BY <1>1, <3>2, <5>1
      <4>2. Turn(Partial(file, ins, i - 1), ins, i - 1) = Partial(file, ins, i - 1 + 1)
        BY <4>1, PartialTurn
      <4> QED BY <3>2, <4>1, <4>2
    <3> QED BY <3>1, <3>2
  <2>2. w = [i \in 0 .. QUAD \div ins.size |-> F(i)]
    <3> HIDE DEF F
    <3> SUFFICES ASSUME NEW i \in 0 .. QUAD \div ins.size PROVE w[i] = F(i)
      OBVIOUS
    <3> QED BY <2>1
  <2> HIDE DEF w
  <2> QED BY <2>2 DEF Turn, Lane
<1>3. Is(after)
  BY <1>2
<1>4. ElementLoop(file, ins) = after[lanes]
  BY DEF ElementLoop
<1>5. after[0] = file /\ \A i \in 1 .. lanes : after[i] = Turn(after[i - 1], ins, i - 1)
  <2> HIDE DEF after
  <2>1. after = [i \in 0 .. lanes |->
                   IF i = 0 THEN file ELSE Turn(after[i - 1], ins, i - 1)]
    BY <1>3 DEF Turn, Lane
  <2> HIDE DEF lanes
  <2>2. \A i \in 0 .. lanes : after[i] = IF i = 0 THEN file ELSE Turn(after[i - 1], ins, i - 1)
    BY <2>1
  <2>3. 0 \in 0 .. lanes /\ \A i \in 1 .. lanes : i \in 0 .. lanes /\ i # 0
    BY <1>1
  <2> QED BY <2>2, <2>3
<1> HIDE DEF after, Is, w
<1> DEFINE Done(i) == after[i] = Partial(file, ins, i)
<1>6. Done(0)
  BY <1>5 DEF Partial
<1>7. ASSUME NEW i \in 0 .. lanes - 1, Done(i) PROVE Done(i + 1)
  <2>1. i + 1 \in 1 .. lanes /\ i + 1 - 1 = i
    <3> HIDE DEF lanes
    <3> QED BY <1>1
  <2>2. after[i + 1] = Turn(after[i], ins, i)
    BY <1>5, <2>1
  <2> QED BY <1>7, <2>2, PartialTurn
<1> HIDE DEF Done
<1>8. Done(lanes)
  <2> HIDE DEF lanes
  <2>1. Done(2)
    BY <1>1, <1>6, <1>7
  <2>2. lanes > 2 => Done(4)
    BY <1>1, <2>1, <1>7
  <2>3. lanes > 4 => Done(8)
    <3>1. lanes > 4 => Done(6)
      BY <1>1, <2>2, <1>7
    <3> QED BY <1>1, <3>1, <1>7
  <2>4. lanes > 8 => Done(16)
    <3>1. lanes > 8 => Done(10)
      BY <1>1, <2>3, <1>7
    <3>2. lanes > 8 => Done(12)
      BY <1>1, <3>1, <1>7
    <3>3. lanes > 8 => Done(14)
      BY <1>1, <3>2, <1>7
    <3> QED BY <1>1, <3>3, <1>7
  <2> QED BY <1>1, <2>1, <2>2, <2>3, <2>4
<1> DEFINE byte(k) == (Lane(file, ins, k \div ins.size)
                         \div Weight(ins.size - 1 - (k % ins.size))) % 256
<1>11. Partial(file, ins, lanes)
         = [file EXCEPT ![ins.rt] = [k \in Bytes |-> IF k \div ins.size < lanes THEN byte(k)
                                                     ELSE file[ins.rt][k]]]
  <2>1. lanes # 0
    BY <1>1
  <2> QED BY <2>1 DEF Partial, File
<1>12. [k \in Bytes |-> byte(k)] = [k \in Bytes |-> IF k \div ins.size < lanes THEN byte(k)
                                                    ELSE file[ins.rt][k]]
  <2>1. ASSUME NEW k \in Bytes PROVE k \div ins.size < lanes
    <3>1. k \div ins.size \in 0 .. lanes - 1
      BY Lanes
    <3> HIDE DEF lanes
    <3> QED BY <1>1, <3>1
  <2> HIDE DEF lanes, byte
  <2> QED BY <2>1
<1> QED BY <1>4, <1>8, <1>11, <1>12 DEF Done

\* The loop over words.
LEMMA InPlaceLoop ==
  ASSUME NEW file, NEW ins, ins.size = WORD, File(file),
         ins.rt \in Registers, ins.ra \in Registers, ins.rb \in Registers
  PROVE  ElementLoop(file, ins) =
           [file EXCEPT ![ins.rt] = FromWords([i \in 0 .. WORDS - 1 |-> Lane(file, ins, i)])]
<1> DEFINE lanes == [i \in 0 .. WORDS - 1 |-> Lane(file, ins, i)]
           byte(k) == (Lane(file, ins, k \div ins.size)
                         \div Weight(ins.size - 1 - (k % ins.size))) % 256
<1>1. ins.size \in Sizes
  BY DEF Sizes
<1>2. FromWords(lanes) = [k \in Bytes |-> byte(k)]
  <2>1. ASSUME NEW k \in Bytes
        PROVE  lanes[k \div WORD] = Lane(file, ins, k \div WORD)
    <3>1. k \div WORD \in 0 .. WORDS - 1
      BY Places
    <3> QED BY <3>1
  <2> HIDE DEF lanes
  <2> QED BY <2>1 DEF FromWords
<1> HIDE DEF lanes
<1>3. ElementLoop(file, ins) = [file EXCEPT ![ins.rt] = [k \in Bytes |-> byte(k)]]
  BY <1>1, SizedLoop
<1> QED BY <1>2, <1>3 DEF lanes
(***************************************************************************)
(* One instruction.                                                        *)
(***************************************************************************)
LEMMA StepCounts ==
  ASSUME Step
  PROVE  /\ running /\ n < MaxInsns /\ n' = n + 1
         /\ program' = program /\ first' = first
BY DEF Step, spu_step, ExecElement, ExecQuad, ExecPreferred, ExecSpread, ExecLoad, ExecStore,
       ExecBranch, ExecStop, ExecNop, wrch, rdch, rchcnt, Continues

\* The disjuncts of Step exclude each other.
LEMMA StepElement ==
  ASSUME Step, Insn.op \in ElementOps
  PROVE  /\ pc' = Sequential /\ gpr' = ElementLoop(gpr, Insn)
         /\ UNCHANGED <<ls, running, staged, posted, memory>>
BY DEF Step, spu_step, ExecElement, ExecQuad, ExecPreferred, ExecSpread, ExecLoad, ExecStore,
       ExecBranch, ExecStop, ExecNop, wrch, rdch, rchcnt, Continues, ElementOps, LogicOps, ArithmeticOps,
       CompareOps, MultiplyOps, ShiftOps, UnaryOps, QuadOps, QuadShiftOps

LEMMA StepQuad ==
  ASSUME Step, Insn.op \in QuadOps
  PROVE  /\ pc' = Sequential /\ gpr' = [gpr EXCEPT ![Insn.rt] = QuadResult(Insn)]
         /\ UNCHANGED <<ls, running, staged, posted, memory>>
BY DEF Step, spu_step, ExecElement, ExecQuad, ExecPreferred, ExecSpread, ExecLoad, ExecStore,
       ExecBranch, ExecStop, ExecNop, wrch, rdch, rchcnt, Continues, ElementOps, LogicOps, ArithmeticOps,
       CompareOps, MultiplyOps, ShiftOps, UnaryOps, QuadOps, QuadShiftOps

LEMMA StepPreferred ==
  ASSUME Step, Insn.op \in {"gather", "orx"}
  PROVE  /\ pc' = Sequential /\ gpr' = ToPreferred(gpr, Insn)
         /\ UNCHANGED <<ls, running, staged, posted, memory>>
BY DEF Step, spu_step, ExecElement, ExecQuad, ExecPreferred, ExecSpread, ExecLoad, ExecStore,
       ExecBranch, ExecStop, ExecNop, wrch, rdch, rchcnt, Continues, ElementOps, LogicOps,
       ArithmeticOps, CompareOps, MultiplyOps, ShiftOps, UnaryOps, QuadOps, QuadShiftOps

LEMMA StepSpread ==
  ASSUME Step, Insn.op = "spread"
  PROVE  /\ pc' = Sequential /\ gpr' = Spread(gpr, Insn)
         /\ UNCHANGED <<ls, running, staged, posted, memory>>
BY DEF Step, spu_step, ExecElement, ExecQuad, ExecPreferred, ExecSpread, ExecLoad, ExecStore,
       ExecBranch, ExecStop, ExecNop, wrch, rdch, rchcnt, Continues, ElementOps, LogicOps,
       ArithmeticOps, CompareOps, MultiplyOps, ShiftOps, UnaryOps, QuadOps, QuadShiftOps

LEMMA StepLoad ==
  ASSUME Step, Insn.op = "lq"
  PROVE  /\ pc' = Sequential
         /\ gpr' = [gpr EXCEPT ![Insn.rt] = [k \in Bytes |-> ls[EffectiveAddress(Insn) + k]]]
         /\ UNCHANGED <<ls, running, staged, posted, memory>>
BY DEF Step, spu_step, ExecElement, ExecQuad, ExecPreferred, ExecSpread, ExecLoad, ExecStore,
       ExecBranch, ExecStop, ExecNop, wrch, rdch, rchcnt, Continues, ElementOps, LogicOps, ArithmeticOps,
       CompareOps, MultiplyOps, ShiftOps, UnaryOps, QuadOps, QuadShiftOps

LEMMA StepStore ==
  ASSUME Step, Insn.op = "stq"
  PROVE  /\ pc' = Sequential
         /\ ls' = [x \in DOMAIN ls |->
                     IF x \in EffectiveAddress(Insn) .. EffectiveAddress(Insn) + QUAD - 1
                     THEN gpr[Insn.rt][x - EffectiveAddress(Insn)] ELSE ls[x]]
         /\ UNCHANGED <<gpr, running, staged, posted, memory>>
BY DEF Step, spu_step, ExecElement, ExecQuad, ExecPreferred, ExecSpread, ExecLoad, ExecStore,
       ExecBranch, ExecStop, ExecNop, wrch, rdch, rchcnt, Continues, ElementOps, LogicOps, ArithmeticOps,
       CompareOps, MultiplyOps, ShiftOps, UnaryOps, QuadOps, QuadShiftOps

LEMMA StepBranch ==
  ASSUME Step, Insn.op = "branch"
  PROVE  /\ pc' = IF Taken(Insn) THEN Target(Insn) ELSE Sequential
         /\ gpr' = IF Insn.link THEN [gpr EXCEPT ![Insn.rt] = Preferred(Sequential)] ELSE gpr
         /\ UNCHANGED <<ls, running, staged, posted, memory>>
BY DEF Step, spu_step, ExecElement, ExecQuad, ExecPreferred, ExecSpread, ExecLoad, ExecStore,
       ExecBranch, ExecStop, ExecNop, wrch, rdch, rchcnt, Continues, ElementOps, LogicOps, ArithmeticOps,
       CompareOps, MultiplyOps, ShiftOps, UnaryOps, QuadOps, QuadShiftOps

LEMMA StepStop ==
  ASSUME Step, Insn.op = "stop"
  PROVE  /\ pc' = Sequential /\ running' = FALSE
         /\ UNCHANGED <<gpr, ls, staged, posted, memory>>
BY DEF Step, spu_step, ExecElement, ExecQuad, ExecPreferred, ExecSpread, ExecLoad, ExecStore,
       ExecBranch, ExecStop, ExecNop, wrch, rdch, rchcnt, Continues, ElementOps, LogicOps, ArithmeticOps,
       CompareOps, MultiplyOps, ShiftOps, UnaryOps, QuadOps, QuadShiftOps

LEMMA StepNop ==
  ASSUME Step, Insn.op = "nop"
  PROVE  /\ pc' = Sequential
         /\ UNCHANGED <<gpr, ls, running, staged, posted, memory>>
BY DEF Step, spu_step, ExecElement, ExecQuad, ExecPreferred, ExecSpread, ExecLoad, ExecStore,
       ExecBranch, ExecStop, ExecNop, wrch, rdch, rchcnt, Continues, ElementOps, LogicOps, ArithmeticOps,
       CompareOps, MultiplyOps, ShiftOps, UnaryOps, QuadOps, QuadShiftOps

\* Which instruction is at pc, and where the next one is.
LEMMA InsnAt ==
  ASSUME NEW k \in 0 .. 14, pc = k * WORD, k < Len(program)
  PROVE  Insn = program[k + 1] /\ Sequential = (k + 1) * WORD
<1>1. pc \div WORD = k
  BY SpuAssumption
<1>0. WORD \in {2, 4} /\ LS_SIZE \in Nat /\ 16 * WORD <= LS_SIZE
  BY SpuAssumption, IdiomAssumption
<1>2. pc + WORD = (k + 1) * WORD /\ pc + WORD \in Nat /\ pc + WORD < LS_SIZE /\ LS_SIZE \in Nat
  <2>1. CASE WORD = 2
    BY <1>0, <2>1
  <2>2. CASE WORD = 4
    BY <1>0, <2>2
  <2> QED BY <1>0, <2>1, <2>2
<1>3. (pc + WORD) % LS_SIZE = pc + WORD
  BY <1>2
<1> QED BY <1>1, <1>2, <1>3 DEF Insn, Sequential

LEMMA SixRegisters ==
  /\ {Link, A, B, T, U, V} \subseteq Registers
  /\ Link # A /\ Link # B /\ Link # T /\ Link # U /\ Link # V
  /\ A # B /\ A # T /\ A # U /\ A # V /\ B # T /\ B # U /\ B # V
  /\ T # U /\ T # V /\ U # V
<1>1. /\ Six[1] = Link /\ Six[2] = A /\ Six[3] = B /\ Six[4] = T /\ Six[5] = U /\ Six[6] = V
  BY DEF Six
<1> HIDE DEF Six
<1> QED BY <1>1, IdiomAssumption

(***************************************************************************)
(* The operands a program starts from.                                     *)
(***************************************************************************)
LEMMA OperandsAreQuads ==
  /\ Zero \in Quad /\ Sample \subseteq Quad /\ CountSample \subseteq Quad
  /\ LoopSample \subseteq Quad
<1>1. Zero \in Quad
  BY DEF Zero, Quad, Byte
<1>2. WordSample \subseteq Int /\ Counts \subseteq Int /\ Transfers \subseteq Int
  BY IdiomAssumption
<1>3. ASSUME NEW w \in [0 .. WORDS - 1 -> WordSample] PROVE FromWords(w) \in Quad
  <2>1. ASSUME NEW k \in Bytes
        PROVE  (w[k \div WORD] \div Weight(WORD - 1 - (k % WORD))) % 256 \in Byte
    <3>1. WORD - 1 - (k % WORD) \in 0 .. WORD - 1 /\ k \div WORD \in 0 .. WORDS - 1
      BY Places
    <3>2. w[k \div WORD] \in Int
      BY <3>1, <1>2
    <3> QED BY <3>1, <3>2, ByteOf
  <2> QED BY <2>1 DEF FromWords, Quad
<1>4. \A c \in Int : Preferred(c) \in Quad
  BY PreferredWord
<1> QED BY <1>1, <1>2, <1>3, <1>4 DEF Sample, CountSample, LoopSample

\* The store and the registers at the start.
Fresh == /\ gpr \in [Registers -> Quad] /\ ls \in [0 .. LS_SIZE - 1 -> Byte]
         /\ first = [gpr |-> gpr, ls |-> ls]
         /\ pc = 0 /\ running = TRUE /\ n = 0
         /\ staged = [ch \in Staging |-> 0] /\ posted = 0 /\ memory = GuestPattern

LEMMA InitFresh == ASSUME Init PROVE Fresh
<1>0. \A at \in Counts, sz \in Transfers : Preferred(at) \in Quad /\ Preferred(sz) \in Quad
  BY PreferredWord, IdiomAssumption
<1>1. PICK code, a, b : Start(code, a, b) /\ a \in Quad /\ b \in Quad
  BY <1>0, OperandsAreQuads DEF Init, ProgramInit, CountSample
<1>2. Pattern \in [0 .. LS_SIZE - 1 -> Byte]
  BY SpuAssumption DEF Pattern, Byte
<1> QED BY <1>1, <1>2, OperandsAreQuads DEF Init, Start, Loaded, Fresh

(***************************************************************************)
(* Scalar accesses.                                                        *)
(***************************************************************************)
\* How far a straight program of len instructions has got.
At(len) == /\ n \in 0 .. len /\ pc = n * WORD /\ (running <=> n < len)
           /\ first \in [gpr : [Registers -> Quad], ls : [0 .. LS_SIZE - 1 -> Byte]]

LEMMA StartAt ==
  ASSUME Fresh, NEW len \in 1 .. 14
  PROVE  At(len) /\ gpr = first.gpr /\ ls = first.ls
<1>1. n \in 0 .. len /\ pc = n * WORD /\ (running <=> n < len)
  BY SpuAssumption DEF Fresh
<1>2. /\ first \in [gpr : [Registers -> Quad], ls : [0 .. LS_SIZE - 1 -> Byte]]
      /\ gpr = first.gpr /\ ls = first.ls
  BY DEF Fresh
<1> QED BY <1>1, <1>2 DEF At

\* The next instruction is the one that n counts.
LEMMA StepAt ==
  ASSUME NEW len \in 1 .. 14, At(len), Len(program) = len, Step,
         pc' = Sequential, running' <=> n + 1 < len
  PROVE  At(len)' /\ n' = n + 1
<1>1. n < len /\ n \in 0 .. 14 /\ n' = n + 1 /\ first' = first
  BY StepCounts DEF At
<1>2. Sequential = (n + 1) * WORD
  BY <1>1, InsnAt DEF At
<1> QED BY <1>1, <1>2 DEF At

LEMMA InsnOf ==
  ASSUME NEW len \in 1 .. 14, At(len), Len(program) = len, Step
  PROVE  Insn = program[n + 1] /\ n \in 0 .. len - 1
<1>1. n < len /\ n \in 0 .. 14
  BY StepCounts DEF At
<1> QED BY <1>1, InsnAt DEF At

\* A quadword in the local store is aligned at every address.
LEMMA Alignment ==
  ASSUME NEW x \in Nat
  PROVE  /\ x % LS_SIZE \in 0 .. LS_SIZE - 1
         /\ (x % LS_SIZE) % QUAD = x % QUAD /\ (x % LS_SIZE) % WORD = x % WORD
         /\ Aligned(x) = (x % LS_SIZE) - (x % QUAD)
         /\ Aligned(x) \in 0 .. LS_SIZE - QUAD
<1>1. LS_SIZE \in Nat /\ LS_SIZE > 0 /\ LS_SIZE % QUAD = 0
      /\ QUAD = WORD * WORDS /\ WORD \in {2, 4} /\ WORDS \in {2, 4} /\ QUAD \in {4, 8, 16}
  BY SpuAssumption, IdiomAssumption, Widths DEF QUAD
<1> DEFINE m == LS_SIZE \div QUAD
           q == x \div LS_SIZE
           r == x % LS_SIZE
<1>2. m \in Nat /\ LS_SIZE = QUAD * m
  BY <1>1
<1>3. q \in Nat /\ r \in 0 .. LS_SIZE - 1 /\ x = LS_SIZE * q + r
  BY <1>1
<1>4. x = QUAD * (m * q) + r /\ m * q \in Nat
  <2> HIDE DEF m, q, r
  <2>1. \A u, v, w \in Nat : (u * v) * w = u * (v * w) /\ v * w \in Nat
    OBVIOUS
  <2>2. LS_SIZE * q = QUAD * (m * q) /\ m * q \in Nat
    BY <1>1, <1>2, <1>3, <2>1
  <2> QED BY <1>3, <2>2
<1> HIDE DEF m, q
<1>5. r % QUAD = x % QUAD /\ r % WORD = x % WORD
  <2>1. CASE WORD = 2
    BY <1>1, <1>3, <1>4, <2>1
  <2>2. CASE WORD = 4
    BY <1>1, <1>3, <1>4, <2>2
  <2> QED BY <1>1, <2>1, <2>2
<1>6. Aligned(x) = r - (r % QUAD)
  BY DEF Aligned
<1>7. r - (r % QUAD) \in 0 .. LS_SIZE - QUAD
  <2> HIDE DEF r
  <2>1. CASE WORD = 2
    BY <1>1, <1>2, <1>3, <2>1
  <2>2. CASE WORD = 4
    BY <1>1, <1>2, <1>3, <2>2
  <2> QED BY <1>1, <2>1, <2>2
<1> QED BY <1>3, <1>5, <1>6, <1>7

\* The word that an address lies in is a word of its quadword.
LEMMA Offset ==
  ASSUME NEW x \in Nat
  PROVE  /\ x % QUAD \in 0 .. QUAD - 1 /\ x % WORD \in 0 .. WORD - 1
         /\ (x % QUAD) - (x % WORD) \in 0 .. QUAD - WORD
         /\ x % WORD = 0 => x % QUAD \in 0 .. QUAD - WORD
<1>1. CASE WORD = 2 /\ WORDS = 2 /\ QUAD = 4
  BY <1>1
<1>2. CASE WORD = 2 /\ WORDS = 4 /\ QUAD = 8
  BY <1>2
<1>3. CASE WORD = 4 /\ WORDS = 2 /\ QUAD = 8
  BY <1>3
<1>4. CASE WORD = 4 /\ WORDS = 4 /\ QUAD = 16
  BY <1>4
<1> QED BY <1>1, <1>2, <1>3, <1>4, Shapes

\* The quadword around the address in register A at the start.
Where   == Elem(first.gpr[A], WORD, 0)
Around  == [k \in Bytes |-> first.ls[Aligned(Where) + k]]

LEMMA WhereIsNat == ASSUME first.gpr \in [Registers -> Quad] PROVE Where \in Nat
<1>1. first.gpr[A] \in Quad
  BY SixRegisters
<1>2. Where \in 0 .. M - 1 /\ M \in Nat
  BY <1>1, ElemInRange, Widths, SMTT(30) DEF Where
<1> QED BY <1>2

LoadInv ==
  program = LoadWord =>
    /\ At(3) /\ ls = first.ls
    /\ n = 0 => gpr = first.gpr
    /\ n = 1 => gpr = [first.gpr EXCEPT ![T] = Around]
    /\ n >= 2 => gpr[T] = q_rot_bytes(Around, Where % QUAD)

LEMMA LoadsRun == Spec => []LoadInv
<1>1. Init => LoadInv
  BY InitFresh, StartAt DEF LoadInv, Fresh
<1>2. LoadInv /\ [Step]_channelVars => LoadInv'
  <2>1. CASE UNCHANGED channelVars
    BY <2>1 DEF LoadInv, channelVars, vars, At, Where, Around
  <2>2. ASSUME LoadInv, Step, program = LoadWord
        PROVE  LoadInv'
    <3>1. Len(program) = 3 /\ program[1] = lqd(T, A) /\ program[3] = Stop
          /\ program[2] = RR("rotqby", WORD, T, T, A)
      BY <2>2 DEF LoadWord
    <3>2. Insn = program[n + 1] /\ n \in 0 .. 2 /\ At(3) /\ ls = first.ls
      BY <2>2, <3>1, InsnOf DEF LoadInv
    <3>3. /\ Where' = Where /\ Around' = Around /\ first' = first /\ n' = n + 1
          /\ program' = program /\ first.gpr \in [Registers -> Quad]
      BY <2>2, <3>2, StepCounts DEF At, Where, Around
    <3>0. Where \in Nat /\ QUAD \in Nat
      BY <3>3, WhereIsNat, Widths
    <3>4. CASE n = 0
      <4>1. Insn = lqd(T, A) /\ gpr = first.gpr
        BY <2>2, <3>1, <3>2, <3>4 DEF LoadInv
      <4>2. EffectiveAddress(Insn) = Aligned(Where)
        <5>1. Insn.form = "d" /\ Insn.ra = A /\ Insn.imm = 0
          BY <4>1 DEF lqd, Ins
        <5>2. Word0(A) = Where
          BY <4>1 DEF Word0, Where
        <5>3. Where + 0 * QUAD = Where
          BY <3>0
        <5> QED BY <5>1, <5>2, <5>3 DEF EffectiveAddress
      <4>3. /\ pc' = Sequential /\ gpr' = [first.gpr EXCEPT ![T] = Around]
            /\ UNCHANGED <<ls, running>>
        BY <2>2, <3>2, <4>1, <4>2, StepLoad DEF lqd, Ins, Around
      <4>4. At(3)'
        BY <2>2, <3>1, <3>2, <3>4, <4>3, StepAt DEF At
      <4> QED BY <3>2, <3>3, <3>4, <4>3, <4>4 DEF LoadInv
    <3>5. CASE n = 1
      <4>1. Insn = RR("rotqby", WORD, T, T, A) /\ gpr = [first.gpr EXCEPT ![T] = Around]
        BY <2>2, <3>1, <3>2, <3>5 DEF LoadInv
      <4>2. Insn.op = "rotqby" /\ Insn.rt = T /\ Insn.ra = T /\ Insn.rb = A /\ Insn.form = "RR"
        BY <4>1 DEF RR, Ins
      <4>3. gpr[T] = Around /\ gpr[A] = first.gpr[A]
        BY <3>3, <4>1, SixRegisters
      <4>4. QuadResult(Insn) = q_rot_bytes(Around, Where % QUAD)
        BY <4>2, <4>3 DEF QuadResult, QuadShift, QuadShiftOps, Scalar, Word0, Where
      <4>5. /\ pc' = Sequential /\ gpr' = [gpr EXCEPT ![T] = QuadResult(Insn)]
            /\ UNCHANGED <<ls, running>>
        BY <2>2, <4>2, StepQuad DEF QuadOps, QuadShiftOps
      <4>6. gpr'[T] = q_rot_bytes(Around, Where % QUAD)
        BY <3>3, <4>1, <4>4, <4>5, SixRegisters
      <4>7. At(3)'
        BY <2>2, <3>1, <3>2, <3>5, <4>5, StepAt DEF At
      <4> QED BY <3>2, <3>3, <3>5, <4>5, <4>6, <4>7 DEF LoadInv
    <3>6. CASE n = 2
      <4>1. Insn.op = "stop"
        BY <3>1, <3>2, <3>6 DEF Stop
      <4>2. pc' = Sequential /\ running' = FALSE /\ UNCHANGED <<gpr, ls>>
        BY <2>2, <4>1, StepStop
      <4>3. At(3)'
        BY <2>2, <3>1, <3>2, <3>6, <4>2, StepAt
      <4> QED BY <2>2, <3>2, <3>3, <3>6, <4>2, <4>3 DEF LoadInv
    <3> QED BY <3>2, <3>4, <3>5, <3>6
  <2> QED BY <2>1, <2>2, StepCounts DEF LoadInv
<1> QED BY <1>1, <1>2, PTL DEF Spec

\* When the rotate is done the word is where scalars are kept.
LEMMA LoadedWord ==
  ASSUME LoadInv, program = LoadWord, Halted, NEW at, at = Where % LS_SIZE, at % WORD = 0,
         NEW k \in 0 .. WORD - 1
  PROVE  gpr[T][k] = first.ls[at + k]
<1>1. At(3) /\ n \in 0 .. 3 /\ first.gpr \in [Registers -> Quad]
  BY DEF LoadInv, At
<1>2. n = 3
  BY <1>1, SpuAssumption, IdiomAssumption DEF Halted, At
<1>3. Where \in Nat
  BY <1>1, WhereIsNat
<1> DEFINE s == Where % QUAD
<1>4. at \in 0 .. LS_SIZE - 1 /\ Aligned(Where) = at - s /\ LS_SIZE \in Nat /\ Where % WORD = 0
  BY <1>3, Alignment, SpuAssumption
<1>5. s \in 0 .. QUAD - WORD /\ QUAD \in Nat /\ WORD \in Nat /\ Bytes = 0 .. QUAD - 1
      /\ QUAD >= WORD
  <2>1. s \in 0 .. QUAD - WORD
    BY <1>3, <1>4, Offset
  <2> QED BY <2>1, Widths
<1> HIDE DEF s
<1>6. (k + s) % QUAD = k + s /\ k + s \in Bytes /\ k \in Bytes
  BY <1>5
<1>7. gpr[T][k] = Around[k + s]
  BY <1>2, <1>6 DEF LoadInv, q_rot_bytes, s
<1>8. at - s + (k + s) = at + k
  BY <1>4, <1>5
<1> QED BY <1>4, <1>6, <1>7, <1>8 DEF Around

\* The first word of b in place of the word of q that the address x lies in.
Insertion(x, b, q) ==
  LET pos == (x % QUAD) - (x % WORD)
  IN [k \in Bytes |-> IF k \in pos .. pos + WORD - 1 THEN b[k - pos] ELSE q[k]]

Inserted == Insertion(Where, first.gpr[B], Around)

StoreInv ==
  program = Store(WORD) =>
    /\ At(5)
    /\ n < 4 => ls = first.ls
    /\ n = 0 => gpr = first.gpr
    /\ n = 1 => gpr = [first.gpr EXCEPT ![T] = Around]
    /\ n = 2 => gpr = [first.gpr EXCEPT ![T] = Around, ![U] = gen_controls(Where, WORD)]
    /\ n = 3 => /\ gpr \in [Registers -> Quad] /\ gpr[A] = first.gpr[A]
                /\ gpr[T] = Inserted
    /\ n >= 4 => ls = [x \in 0 .. LS_SIZE - 1 |->
                         IF x \in Aligned(Where) .. Aligned(Where) + QUAD - 1
                         THEN Inserted[x - Aligned(Where)] ELSE first.ls[x]]

LEMMA AroundQuad ==
  ASSUME first \in [gpr : [Registers -> Quad], ls : [0 .. LS_SIZE - 1 -> Byte]]
  PROVE  Around \in Quad
<1>1. Where \in Nat
  BY WhereIsNat
<1>2. Aligned(Where) \in 0 .. LS_SIZE - QUAD /\ QUAD \in Nat /\ LS_SIZE \in Nat
  <2>1. Aligned(Where) \in 0 .. LS_SIZE - QUAD
    BY <1>1, Alignment
  <2> QED BY <2>1, Widths, SpuAssumption
<1>3. \A k \in Bytes : Aligned(Where) + k \in 0 .. LS_SIZE - 1
  BY <1>2 DEF Bytes
<1> QED BY <1>3 DEF Around, Quad

\* The controls pick the inserted word's bytes from the first operand and every
\* other byte from the same place of the second.
LEMMA ShuffleInserts ==
  ASSUME NEW x \in Nat, NEW b \in Quad, NEW q \in Quad
  PROVE  /\ gen_controls(x, WORD) \in Quad
         /\ do_shufb(b, q, gen_controls(x, WORD)) = Insertion(x, b, q)
<1> DEFINE c   == gen_controls(x, WORD)
           pos == (x % QUAD) - (x % WORD)
<1>1. QUAD \in 4 .. 16 /\ WORD \in {2, 4} /\ QUAD >= WORD /\ Bytes = 0 .. QUAD - 1
  BY Widths
<1>2. pos \in 0 .. QUAD - WORD
  BY Offset
<1>3. c = [k \in Bytes |-> IF k \in pos .. pos + WORD - 1 THEN k - pos ELSE QUAD + k]
  BY DEF gen_controls
<1> HIDE DEF pos
<1>4. ASSUME NEW k \in Bytes
      PROVE  /\ c[k] \in 0 .. 2 * QUAD - 1 /\ c[k] \in Byte
             /\ k \in pos .. pos + WORD - 1 => c[k] = k - pos /\ c[k] < QUAD
             /\ k \notin pos .. pos + WORD - 1 => c[k] = QUAD + k
  <2>1. c[k] = IF k \in pos .. pos + WORD - 1 THEN k - pos ELSE QUAD + k
    BY <1>3
  <2> HIDE DEF c
  <2> QED BY <1>1, <1>2, <2>1 DEF Byte
<1> HIDE DEF c
<1>5. c \in Quad
  BY <1>3, <1>4 DEF Quad
<1>6. ASSUME NEW k \in Bytes
      PROVE  do_shufb(b, q, c)[k] = IF k \in pos .. pos + WORD - 1 THEN b[k - pos] ELSE q[k]
  <2>1. /\ c[k] \notin 128 .. 191 /\ c[k] \notin 192 .. 223 /\ c[k] \notin 224 .. 255
        /\ c[k] % (2 * QUAD) = c[k]
    <3>1. c[k] \in 0 .. 2 * QUAD - 1
      BY <1>4
    <3>2. QUAD \in {4, 8, 16}
      BY Widths
    <3>3. CASE QUAD = 4
      BY <3>1, <3>3
    <3>4. CASE QUAD = 8
      BY <3>1, <3>4
    <3>5. CASE QUAD = 16
      BY <3>1, <3>5
    <3> QED BY <3>2, <3>3, <3>4, <3>5
  <2>2. do_shufb(b, q, c)[k] = IF c[k] < QUAD THEN b[c[k]] ELSE q[c[k] - QUAD]
    BY <2>1 DEF do_shufb
  <2>3. CASE k \in pos .. pos + WORD - 1
    BY <1>4, <2>2, <2>3
  <2>4. CASE k \notin pos .. pos + WORD - 1
    <3>1. c[k] = QUAD + k /\ ~(c[k] < QUAD) /\ c[k] - QUAD = k
      BY <1>1, <1>4, <2>4
    <3> QED BY <2>2, <2>4, <3>1
  <2> QED BY <2>3, <2>4
<1> QED BY <1>5, <1>6 DEF do_shufb, Insertion, c, pos

LEMMA InsertedQuad ==
  ASSUME first.gpr \in [Registers -> Quad], Around \in Quad
  PROVE  Inserted \in Quad
<1> DEFINE pos == (Where % QUAD) - (Where % WORD)
<1>1. Where \in Nat
  BY WhereIsNat
<1>2. pos \in 0 .. QUAD - WORD /\ QUAD \in Nat /\ WORD \in Nat /\ QUAD >= WORD
  <2>1. pos \in 0 .. QUAD - WORD
    BY <1>1, Offset
  <2> QED BY <2>1, Widths
<1>3. \A k \in pos .. pos + WORD - 1 : k - pos \in Bytes
  <2> HIDE DEF pos
  <2> QED BY <1>2 DEF Bytes
<1>4. first.gpr[B] \in Quad
  BY SixRegisters
<1> HIDE DEF pos
<1> QED BY <1>3, <1>4 DEF Inserted, Insertion, Quad, pos

LEMMA StoresRun == Spec => []StoreInv
<1>1. Init => StoreInv
  BY InitFresh, StartAt DEF StoreInv, Fresh
<1>2. StoreInv /\ [Step]_channelVars => StoreInv'
  <2>1. CASE UNCHANGED channelVars
    BY <2>1 DEF StoreInv, channelVars, vars, At, Where, Around, Inserted
  <2>2. ASSUME StoreInv, Step, program = Store(WORD)
        PROVE  StoreInv'
    <3>1. /\ Len(program) = 5 /\ program[1] = lqd(T, A)
          /\ program[2] = RI("controls", WORD, U, A, 0) /\ program[3] = RRR("shufb", T, B, T, U)
          /\ program[4] = stqd(T, A) /\ program[5] = Stop
      BY <2>2 DEF Store
    <3>2. Insn = program[n + 1] /\ n \in 0 .. 4 /\ At(5)
      BY <2>2, <3>1, InsnOf DEF StoreInv
    <3>3. /\ Where' = Where /\ Around' = Around /\ Inserted' = Inserted
          /\ first' = first /\ n' = n + 1
          /\ program' = program /\ first.gpr \in [Registers -> Quad]
          /\ first.ls \in [0 .. LS_SIZE - 1 -> Byte]
      BY <2>2, <3>2, StepCounts DEF At, Where, Around, Inserted
    <3>4. Where \in Nat /\ QUAD \in Nat /\ Around \in Quad /\ Where + 0 * QUAD = Where
      BY <3>2, <3>3, WhereIsNat, Widths, AroundQuad DEF At
    <3>5. CASE n = 0
      <4>1. Insn = lqd(T, A) /\ gpr = first.gpr /\ ls = first.ls
        BY <2>2, <3>1, <3>2, <3>5 DEF StoreInv
      <4>2. EffectiveAddress(Insn) = Aligned(Where)
        <5>1. Insn.form = "d" /\ Insn.ra = A /\ Insn.imm = 0
          BY <4>1 DEF lqd, Ins
        <5>2. Word0(A) = Where
          BY <4>1 DEF Word0, Where
        <5> QED BY <3>4, <5>1, <5>2 DEF EffectiveAddress
      <4>3. /\ pc' = Sequential /\ gpr' = [first.gpr EXCEPT ![T] = Around]
            /\ UNCHANGED <<ls, running>>
        BY <2>2, <4>1, <4>2, StepLoad DEF lqd, Ins, Around
      <4>4. At(5)'
        BY <2>2, <3>1, <3>2, <3>5, <4>3, StepAt DEF At
      <4> QED BY <3>2, <3>3, <3>5, <4>1, <4>3, <4>4 DEF StoreInv
    <3>6. CASE n = 1
      <4>1. /\ Insn = RI("controls", WORD, U, A, 0) /\ gpr = [first.gpr EXCEPT ![T] = Around]
            /\ ls = first.ls
        BY <2>2, <3>1, <3>2, <3>6 DEF StoreInv
      <4>2. /\ Insn.op = "controls" /\ Insn.rt = U /\ Insn.ra = A /\ Insn.form = "RI"
            /\ Insn.size = WORD /\ Insn.imm = 0
        BY <4>1 DEF RI, Ins
      <4>3. Word0(A) = Where /\ Where + 0 = Where
        BY <3>3, <3>4, <4>1, SixRegisters DEF Word0, Where
      <4>4. QuadResult(Insn) = gen_controls(Where, WORD)
        BY <4>2, <4>3 DEF QuadResult, Scalar, QuadShiftOps
      <4>5. /\ pc' = Sequential /\ gpr' = [gpr EXCEPT ![U] = QuadResult(Insn)]
            /\ UNCHANGED <<ls, running>>
        BY <2>2, <4>2, StepQuad DEF QuadOps, QuadShiftOps
      <4>6. gpr' = [first.gpr EXCEPT ![T] = Around, ![U] = gen_controls(Where, WORD)]
        BY <4>1, <4>4, <4>5
      <4>7. At(5)'
        BY <2>2, <3>1, <3>2, <3>6, <4>5, StepAt DEF At
      <4> QED BY <3>2, <3>3, <3>6, <4>1, <4>5, <4>6, <4>7 DEF StoreInv
    <3>7. CASE n = 2
      <4>1. /\ Insn = RRR("shufb", T, B, T, U) /\ ls = first.ls
            /\ gpr = [first.gpr EXCEPT ![T] = Around, ![U] = gen_controls(Where, WORD)]
        BY <2>2, <3>1, <3>2, <3>7 DEF StoreInv
      <4>2. /\ Insn.op = "shufb" /\ Insn.rt = T /\ Insn.ra = B /\ Insn.rb = T /\ Insn.rc = U
        BY <4>1 DEF RRR, RR, Ins
      <4>3. /\ gpr[B] = first.gpr[B] /\ gpr[T] = Around /\ gpr[A] = first.gpr[A]
            /\ gpr[U] = gen_controls(Where, WORD)
        BY <3>3, <4>1, SixRegisters
      <4>4. /\ do_shufb(first.gpr[B], Around, gen_controls(Where, WORD)) = Inserted
            /\ gen_controls(Where, WORD) \in Quad
        <5>1. first.gpr[B] \in Quad
          BY <3>3, SixRegisters
        <5> QED BY <3>4, <5>1, ShuffleInserts DEF Inserted
      <4>5. QuadResult(Insn) = Inserted
        BY <4>2, <4>3, <4>4 DEF QuadResult, QuadShiftOps
      <4>6. /\ pc' = Sequential /\ gpr' = [gpr EXCEPT ![T] = QuadResult(Insn)]
            /\ UNCHANGED <<ls, running>>
        BY <2>2, <4>2, StepQuad DEF QuadOps
      <4>7. Inserted \in Quad
        BY <3>3, <3>4, InsertedQuad
      <4>8. gpr \in [Registers -> Quad]
        BY <3>3, <3>4, <4>1, <4>4, SixRegisters
      <4>9. gpr' \in [Registers -> Quad] /\ gpr'[A] = first.gpr[A] /\ gpr'[T] = Inserted
        BY <4>3, <4>5, <4>6, <4>7, <4>8, SixRegisters
      <4>10. At(5)'
        BY <2>2, <3>1, <3>2, <3>7, <4>6, StepAt DEF At
      <4> QED BY <3>2, <3>3, <3>7, <4>1, <4>6, <4>9, <4>10 DEF StoreInv
    <3>8. CASE n = 3
      <4>1. /\ Insn = stqd(T, A) /\ ls = first.ls /\ gpr[A] = first.gpr[A] /\ gpr[T] = Inserted
        BY <2>2, <3>1, <3>2, <3>8 DEF StoreInv
      <4>2. EffectiveAddress(Insn) = Aligned(Where)
        <5>1. Insn.form = "d" /\ Insn.ra = A /\ Insn.imm = 0
          BY <4>1 DEF stqd, Ins
        <5>2. Word0(A) = Where
          BY <4>1 DEF Word0, Where
        <5> QED BY <3>4, <5>1, <5>2 DEF EffectiveAddress
      <4>3. Insn.op = "stq" /\ Insn.rt = T
        BY <4>1 DEF stqd, Ins
      <4>4. /\ pc' = Sequential /\ UNCHANGED running
            /\ ls' = [x \in 0 .. LS_SIZE - 1 |->
                        IF x \in Aligned(Where) .. Aligned(Where) + QUAD - 1
                        THEN Inserted[x - Aligned(Where)] ELSE first.ls[x]]
        BY <2>2, <3>3, <4>1, <4>2, <4>3, StepStore
      <4>5. At(5)'
        BY <2>2, <3>1, <3>2, <3>8, <4>4, StepAt DEF At
      <4> QED BY <3>2, <3>3, <3>8, <4>4, <4>5 DEF StoreInv
    <3>9. CASE n = 4
      <4>1. Insn.op = "stop"
        BY <3>1, <3>2, <3>9 DEF Stop
      <4>2. pc' = Sequential /\ running' = FALSE /\ UNCHANGED <<gpr, ls>>
        BY <2>2, <4>1, StepStop
      <4>3. At(5)'
        BY <2>2, <3>1, <3>2, <3>9, <4>2, StepAt
      <4> QED BY <2>2, <3>2, <3>3, <3>9, <4>2, <4>3 DEF StoreInv
    <3> QED BY <3>2, <3>5, <3>6, <3>7, <3>8, <3>9
  <2> QED BY <2>1, <2>2, StepCounts DEF StoreInv
<1> QED BY <1>1, <1>2, PTL DEF Spec

\* The store changes the word at the address, aligned, and nothing else.
LEMMA StoredWord ==
  ASSUME StoreInv, program = Store(WORD), Halted,
         NEW pos, pos = (Where % LS_SIZE) - ((Where % LS_SIZE) % WORD)
  PROVE  ls = [x \in DOMAIN ls |-> IF x \in pos .. pos + WORD - 1
                                   THEN first.gpr[B][x - pos] ELSE first.ls[x]]
<1>1. /\ At(5) /\ n \in 0 .. 5 /\ first.gpr \in [Registers -> Quad]
      /\ first.ls \in [0 .. LS_SIZE - 1 -> Byte]
  BY DEF StoreInv, At
<1>2. n = 5
  BY <1>1, SpuAssumption, IdiomAssumption DEF Halted, At
<1> DEFINE ea == Aligned(Where)
           at == Where % LS_SIZE
           s  == Where % QUAD
           d  == Where % WORD
<1>3. ls = [x \in 0 .. LS_SIZE - 1 |-> IF x \in ea .. ea + QUAD - 1
                                       THEN Inserted[x - ea] ELSE first.ls[x]]
  BY <1>2 DEF StoreInv
<1>4. Where \in Nat
  BY <1>1, WhereIsNat
<1>5. at \in 0 .. LS_SIZE - 1 /\ ea = at - s /\ pos = at - d /\ ea \in 0 .. LS_SIZE - QUAD
  BY <1>4, Alignment
<1>6. /\ QUAD \in Nat /\ WORD \in Nat /\ QUAD >= WORD /\ LS_SIZE \in Nat
      /\ Bytes = 0 .. QUAD - 1
  BY Widths, SpuAssumption
<1>7. s - d \in 0 .. QUAD - WORD /\ s \in 0 .. QUAD - 1 /\ d \in 0 .. WORD - 1
  BY <1>4, Offset
<1>8. s \in Int /\ d \in Int
  BY <1>6, <1>7
<1> HIDE DEF ea, at, s, d
<1> DEFINE g == s - d
<1>9. pos = ea + g /\ ea \in Int /\ pos \in Int /\ g \in 0 .. QUAD - WORD
  BY <1>5, <1>6, <1>7, <1>8
<1>10. Inserted = [k \in Bytes |-> IF k \in g .. g + WORD - 1
                                   THEN first.gpr[B][k - g] ELSE Around[k]]
  BY DEF Inserted, Insertion, s, d
<1>11. Around = [k \in Bytes |-> first.ls[ea + k]]
  BY DEF Around, ea
<1> HIDE DEF g
<1>12. ASSUME NEW x \in 0 .. LS_SIZE - 1
       PROVE  (IF x \in ea .. ea + QUAD - 1 THEN Inserted[x - ea] ELSE first.ls[x])
                = (IF x \in pos .. pos + WORD - 1 THEN first.gpr[B][x - pos] ELSE first.ls[x])
  <2>1. CASE x \in pos .. pos + WORD - 1
    <3>1. /\ x \in ea .. ea + QUAD - 1 /\ x - ea \in Bytes /\ x - ea \in g .. g + WORD - 1
          /\ x - ea - g = x - pos
      BY <1>6, <1>9, <2>1
    <3> QED BY <1>10, <2>1, <3>1
  <2>2. CASE x \in ea .. ea + QUAD - 1 /\ x \notin pos .. pos + WORD - 1
    <3>1. x - ea \in Bytes /\ x - ea \notin g .. g + WORD - 1 /\ ea + (x - ea) = x
      BY <1>6, <1>9, <2>2
    <3> QED BY <1>10, <1>11, <2>2, <3>1
  <2>3. CASE x \notin ea .. ea + QUAD - 1 /\ x \notin pos .. pos + WORD - 1
    BY <2>3
  <2> QED BY <2>1, <2>2, <2>3
<1>13. DOMAIN ls = 0 .. LS_SIZE - 1
  BY <1>3
<1> QED BY <1>3, <1>12, <1>13

\* A load with a rotate brings a scalar word to the preferred slot, and a load, an
\* insertion and a store change that word of the local store and no other byte
\* (ls_read128, gen_controls, do_shufb; spu_interp.cpp:49-60, 286-330).
THEOREM ScalarsAreAccessed == Spec => []ScalarAccess
<1>1. ASSUME LoadInv, StoreInv PROVE ScalarAccess
  <2> DEFINE at  == Where % LS_SIZE
             pos == at - (at % WORD)
  <2>1. ASSUME program = LoadWord, Halted, at = pos
        PROVE  \A k \in 0 .. WORD - 1 : gpr[T][k] = first.ls[at + k]
    <3>1. Where \in Nat
      BY <1>1, <2>1, WhereIsNat DEF LoadInv, At
    <3>2. at \in Nat /\ at % WORD = 0
      <4>1. at \in 0 .. LS_SIZE - 1 /\ LS_SIZE \in Nat /\ WORD \in {2, 4}
        BY <3>1, Alignment, SpuAssumption
      <4> HIDE DEF at
      <4> QED BY <2>1, <4>1
    <3> HIDE DEF at
    <3> QED BY <1>1, <2>1, <3>2, LoadedWord DEF at
  <2>2. ASSUME program = Store(WORD), Halted
        PROVE  ls = [x \in DOMAIN ls |-> IF x \in pos .. pos + WORD - 1
                                         THEN first.gpr[B][x - pos] ELSE first.ls[x]]
    <3>1. pos = (Where % LS_SIZE) - ((Where % LS_SIZE) % WORD)
      OBVIOUS
    <3> HIDE DEF pos
    <3> QED BY <1>1, <2>2, <3>1, StoredWord
  <2> QED BY <2>1, <2>2 DEF ScalarAccess, W, Where
<1> QED BY <1>1, LoadsRun, StoresRun, PTL
(***************************************************************************)
(* What element instructions leave in a register, word by word.            *)
(***************************************************************************)
LEMMA WordInstruction ==
  ASSUME File(gpr), Step, Insn.op \in ElementOps, Insn.size = WORD,
         Insn.rt \in Registers, Insn.ra \in Registers, Insn.rb \in Registers,
         NEW w \in [0 .. WORDS - 1 -> Int],
         \A i \in 0 .. WORDS - 1 : Lane(gpr, Insn, i) = w[i]
  PROVE  /\ pc' = Sequential /\ UNCHANGED <<ls, running, staged, posted, memory>>
         /\ gpr' = [gpr EXCEPT ![Insn.rt] = FromWords(w)]
         /\ File(gpr') /\ gpr'[Insn.rt] = FromWords(w) /\ gpr'[Insn.rt] \in Quad
         /\ \A r \in Registers : r # Insn.rt => gpr'[r] = gpr[r]
         /\ \A i \in 0 .. WORDS - 1 : Elem(gpr'[Insn.rt], WORD, i) = w[i] % M
<1> DEFINE rt == Insn.rt
<1>1. /\ pc' = Sequential /\ UNCHANGED <<ls, running, staged, posted, memory>>
      /\ gpr' = ElementLoop(gpr, Insn)
  BY StepElement
<1>2. [i \in 0 .. WORDS - 1 |-> Lane(gpr, Insn, i)] = w
  OBVIOUS
<1>3. gpr' = [gpr EXCEPT ![rt] = FromWords(w)]
  BY <1>1, <1>2, InPlaceLoop
<1>4. /\ FromWords(w) \in Quad
      /\ \A i \in 0 .. WORDS - 1 : Elem(FromWords(w), WORD, i) = w[i] % M
  BY FromWordsRead
<1>5. /\ File(gpr') /\ gpr'[rt] = FromWords(w)
      /\ \A r \in Registers : r # rt => gpr'[r] = gpr[r]
  BY <1>3 DEF File
<1> QED BY <1>1, <1>3, <1>4, <1>5

\* A file of quadwords stays one.
LEMMA FileOfQuads ==
  ASSUME gpr \in [Registers -> Quad]
  PROVE  /\ File(gpr)
         /\ File(gpr') /\ (\E rt \in Registers : /\ gpr'[rt] \in Quad
                                                 /\ \A r \in Registers : r # rt => gpr'[r] = gpr[r])
              => gpr' \in [Registers -> Quad]
BY DEF File

\* An addition of two registers, or of a register and an immediate.
LEMMA Addition ==
  ASSUME gpr \in [Registers -> Quad], Step, Insn.op = "a", Insn.size = WORD,
         Insn.rt \in Registers, Insn.ra \in Registers, Insn.rb \in Registers,
         Insn.imm \in Int, Insn.form \in {"RR", "RI"}
  PROVE  /\ gpr' \in [Registers -> Quad]
         /\ \A r \in Registers : r # Insn.rt => gpr'[r] = gpr[r]
         /\ pc' = Sequential /\ UNCHANGED <<ls, running, staged, posted, memory>>
         /\ \A i \in 0 .. WORDS - 1 :
              Elem(gpr'[Insn.rt], WORD, i) =
                (Elem(gpr[Insn.ra], WORD, i)
                   + (IF Insn.form = "RI" THEN Insn.imm % M ELSE Elem(gpr[Insn.rb], WORD, i))) % M
<1> DEFINE lane(i) == Elem(gpr[Insn.ra], WORD, i)
                        + (IF Insn.form = "RI" THEN Insn.imm % M
                           ELSE Elem(gpr[Insn.rb], WORD, i))
           w == [i \in 0 .. WORDS - 1 |-> lane(i)]
<1>1. Insn.op \in ElementOps
  BY DEF ElementOps, ArithmeticOps
<1>2. M = Weight(WORD) /\ M \in Nat /\ M > 0
  BY Widths
<1>3. ASSUME NEW i \in 0 .. WORDS - 1 PROVE Lane(gpr, Insn, i) = lane(i) /\ lane(i) \in Int
  <2>1. Operand(gpr, Insn, i) = IF Insn.form = "RI" THEN Insn.imm % M
                                ELSE Elem(gpr[Insn.rb], WORD, i)
    BY <1>2 DEF Operand
  <2>2. /\ Elem(gpr[Insn.ra], WORD, i) \in Int /\ Elem(gpr[Insn.rb], WORD, i) \in Int
        /\ Insn.imm % M \in Int
    BY <1>2, ElemInRange
  <2>3. \A x, y, t : Element("a", x, y, t, WORD) = x + y
    BY DEF Element, LogicOps, ArithmeticOps, CompareOps, MultiplyOps, ShiftOps, UnaryOps,
           Arithmetic
  <2> QED BY <2>1, <2>2, <2>3 DEF Lane
<1> HIDE DEF lane
<1>4. w \in [0 .. WORDS - 1 -> Int] /\ \A i \in 0 .. WORDS - 1 : Lane(gpr, Insn, i) = w[i]
  BY <1>3
<1>5. \A i \in 0 .. WORDS - 1 : w[i] = lane(i)
  OBVIOUS
<1> HIDE DEF w
<1>6. /\ pc' = Sequential /\ UNCHANGED <<ls, running, staged, posted, memory>>
      /\ File(gpr') /\ gpr'[Insn.rt] \in Quad
      /\ \A r \in Registers : r # Insn.rt => gpr'[r] = gpr[r]
      /\ \A i \in 0 .. WORDS - 1 : Elem(gpr'[Insn.rt], WORD, i) = w[i] % M
  BY <1>1, <1>4, FileOfQuads, WordInstruction
<1>7. gpr' \in [Registers -> Quad]
  BY <1>6, FileOfQuads
<1> QED BY <1>5, <1>6, <1>7 DEF lane

(***************************************************************************)
(* A subroutine with a loop.                                               *)
(***************************************************************************)
\* One more addend, modulo the words.
LEMMA OneMore ==
  ASSUME NEW a \in Nat, NEW j \in Nat
  PROVE  (((a * j) % M) + a) % M = (a * (j + 1)) % M
<1>1. M \in Nat /\ M > 0
  BY Widths
<1> DEFINE p == a * j
<1>2. p \in Nat /\ a * (j + 1) = p + a
  OBVIOUS
<1> HIDE DEF p
<1>3. ((p % M) + a) % M = (p + a) % M
  <2>1. CASE WORD = 2
    <3>1. M = 256 * 256
      BY <2>1, Widths
    <3> QED BY <1>2, <3>1
  <2>2. CASE WORD = 4
    <3>1. M = 256 * 256 * 256 * 256
      BY <2>2, Widths
    <3> QED BY <1>2, <3>1
  <2> QED BY <2>1, <2>2, Widths
<1> QED BY <1>2, <1>3 DEF p

\* Where the loop is, how often it has been round, and what it has added up.
LoopInv ==
  program = CallLoop =>
    LET a == W(first.gpr[A], 0)
        c == W(first.gpr[B], 0)
        b == W(gpr[B], 0)
        t == W(gpr[T], 0)
    IN /\ first.gpr \in [Registers -> Quad] /\ gpr \in [Registers -> Quad]
       /\ gpr[A] = first.gpr[A] /\ c > 0 /\ 3 * c + 4 <= MaxInsns
       /\ \/ pc = 0 /\ running /\ n = 0 /\ b = c /\ t = 0
          \/ pc = WORD /\ running /\ n = 1 /\ b = c /\ t = 0
          \/ /\ W(gpr[Link], 0) = 2 * WORD /\ running
             /\ \/ pc = 3 * WORD /\ n = 2 + 3 * (c - b) /\ b \in 1 .. c /\ t = (a * (c - b)) % M
                \/ pc = 4 * WORD /\ n = 3 + 3 * (c - b) /\ b \in 1 .. c
                     /\ t = (a * (c - b + 1)) % M
                \/ pc = 5 * WORD /\ n = 1 + 3 * (c - b) /\ b \in 0 .. c - 1
                     /\ t = (a * (c - b)) % M
                \/ pc = 6 * WORD /\ n = 2 + 3 * c /\ t = (a * c) % M
                \/ pc = 2 * WORD /\ n = 3 + 3 * c /\ t = (a * c) % M
          \/ pc = 3 * WORD /\ ~running /\ t = (a * c) % M

\* Only one program starts with a hint.
LEMMA OnlyTheLoopHints ==
  ASSUME Init, program = CallLoop
  PROVE  \E a \in Sample, b \in LoopSample : Start(CallLoop, a, b)
<1>1. program[1].op = "nop"
  BY DEF CallLoop, Hint
<1>3. /\ WideAdd[1].op # "nop" /\ WideSub[1].op # "nop" /\ WordMultiply[1].op # "nop"
      /\ Maximum[1].op # "nop" /\ QuadLeft[1].op # "nop" /\ QuadRight[1].op # "nop"
      /\ QuadRotate[1].op # "nop" /\ LoadWord[1].op # "nop" /\ Ask[1].op # "nop"
  BY DEF WideAdd, WideSub, WordMultiply, Maximum, QuadLeft, QuadRight, QuadRotate, LoadWord,
         Ask, RR, RI, lqd, Ins, Channel
<1>4. \A size : /\ OddLanes(size)[1].op # "nop" /\ Store(size)[1].op # "nop"
               /\ TwoRotations(size)[1].op # "nop"
  BY DEF OddLanes, Store, TwoRotations, RI, lqd, Ins
<1>5. \A lsa, get, put : Update(lsa, get, put)[1].op # "nop"
  BY DEF Update, RI, Ins
<1>6. \A code, a, b : Start(code, a, b) => program = code
  BY DEF Start, Loaded
<1> HIDE DEF Init
<1> QED BY <1>1, <1>3, <1>4, <1>5, <1>6 DEF Init, ProgramInit

LEMMA LoopStarts == Init => LoopInv
<1> SUFFICES ASSUME Init, program = CallLoop PROVE LoopInv
  BY DEF LoopInv
<1>1. PICK a \in Sample, b \in LoopSample : Start(CallLoop, a, b)
  BY OnlyTheLoopHints
<1>2. PICK x \in Counts : b = Preferred(x) /\ x > 0 /\ 3 * x + 4 <= MaxInsns
  BY DEF LoopSample
<1>3. x \in 0 .. M - 1 /\ M \in Nat /\ M > 0 /\ MaxInsns \in Nat
  BY IdiomAssumption, SpuAssumption, Widths, SMTT(30)
<1>4. x % M = x /\ 0 % M = 0
  BY <1>3
<1>5. /\ gpr = [r \in Registers |-> CASE r = A -> a [] r = B -> b [] OTHER -> Zero]
      /\ first.gpr = gpr /\ pc = 0 /\ running /\ n = 0
  BY <1>1 DEF Start, Loaded
<1>6. gpr \in [Registers -> Quad] /\ gpr[B] = b /\ gpr[T] = Zero
  BY <1>5, OperandsAreQuads, SixRegisters
<1>7. W(gpr[B], 0) = x
  BY <1>2, <1>3, <1>4, <1>6, PreferredWord DEF W
<1>8. W(gpr[T], 0) = 0
  <2> DEFINE w == [i \in 0 .. WORDS - 1 |-> 0]
  <2>1. w \in [0 .. WORDS - 1 -> Int] /\ 0 \in 0 .. WORDS - 1 /\ w[0] = 0
    BY Widths
  <2>2. Zero = FromWords(w)
    <3>1. ASSUME NEW k \in Bytes
          PROVE  (w[k \div WORD] \div Weight(WORD - 1 - (k % WORD))) % 256 = 0
      BY Places, ZeroByte
    <3> QED BY <3>1 DEF Zero, FromWords
  <2> HIDE DEF w
  <2>3. Elem(Zero, WORD, 0) = 0 % M
    BY <2>1, <2>2, FromWordsRead
  <2> QED BY <1>4, <1>6, <2>3 DEF W
<1> QED BY <1>2, <1>3, <1>5, <1>6, <1>7, <1>8 DEF LoopInv

\* What a decrement adds.
LEMMA MinusOne ==
  ASSUME NEW x \in 1 .. M - 1, NEW i \in Int, i + 1 = 0
  PROVE  (x + (i % M)) % M = x - 1
<1>1. M \in Nat /\ M > 1
  BY Widths
<1>2. i % M = M - 1
  <2>1. CASE WORD = 2
    <3>1. M = 256 * 256 /\ i = (256 * 256) * i + (256 * 256 - 1)
      BY <2>1, Widths
    <3>2. \A u, v \in Int : u = (256 * 256) * v + (256 * 256 - 1)
                              => u % (256 * 256) = 256 * 256 - 1
      OBVIOUS
    <3> QED BY ZenonT(40), <3>1, <3>2
  <2>2. CASE WORD = 4
    <3>1. M = 256 * 256 * 256 * 256
      BY <2>2, Widths
    <3>2. \A u, v \in Int :
            u = (256 * 256 * 256 * 256) * v + (256 * 256 * 256 * 256 - 1)
              => u % (256 * 256 * 256 * 256) = 256 * 256 * 256 * 256 - 1
      OBVIOUS
    <3>3. i = (256 * 256 * 256 * 256) * i + (256 * 256 * 256 * 256 - 1)
      OBVIOUS
    <3>4. i % (256 * 256 * 256 * 256) = 256 * 256 * 256 * 256 - 1
      BY <3>2, <3>3
    <3> QED BY <3>1, <3>4
  <2> QED BY <2>1, <2>2, Widths
<1>3. (x - 1 + M) % M = x - 1
  <2>1. x - 1 \in 0 .. M - 1 /\ x - 1 + M = M * 1 + (x - 1)
    BY <1>1
  <2> QED BY <1>1, <2>1
<1> QED BY <1>1, <1>2, <1>3

LEMMA LoopSteps ==
  ASSUME LoopInv, Step, program = CallLoop
  PROVE  LoopInv'
<1> DEFINE a == W(first.gpr[A], 0)
           c == W(first.gpr[B], 0)
           b == W(gpr[B], 0)
           t == W(gpr[T], 0)
           l == W(gpr[Link], 0)
<1>1. /\ program' = program /\ first' = first /\ n' = n + 1 /\ running /\ n < MaxInsns
      /\ a' = a /\ c' = c
  BY StepCounts DEF W
<1>2. /\ first.gpr \in [Registers -> Quad] /\ gpr \in [Registers -> Quad]
      /\ gpr[A] = first.gpr[A] /\ c > 0 /\ 3 * c + 4 <= MaxInsns
  BY DEF LoopInv
<1>3. /\ a \in 0 .. M - 1 /\ b \in 0 .. M - 1 /\ c \in 0 .. M - 1 /\ t \in 0 .. M - 1
      /\ M \in Nat /\ M > 8 /\ MaxInsns \in Nat
      /\ WORD \in {2, 4} /\ LS_SIZE \in Nat /\ 16 * WORD <= LS_SIZE
  <2>1. first.gpr[A] \in Quad /\ first.gpr[B] \in Quad /\ gpr[B] \in Quad /\ gpr[T] \in Quad
    BY <1>2, SixRegisters
  <2>2. M \in Nat /\ M > 8
    BY Widths
  <2> QED BY <2>1, <2>2, ElemInRange, SpuAssumption, IdiomAssumption DEF W
<1>4. /\ Len(program) = 7 /\ program[1] = Hint
      /\ program[2] = Branch("always", TRUE, "r", Link, Link, 2) /\ program[3] = Stop
      /\ program[4] = RR("a", WORD, T, T, A) /\ program[5] = RI("a", WORD, B, B, -1)
      /\ program[6] = Branch("nz", FALSE, "r", B, B, -2)
      /\ program[7] = Branch("always", FALSE, "i", Link, Link, 0)
  BY DEF CallLoop
<1>5. \A k \in 0 .. 6 : pc = k * WORD => Insn = program[k + 1] /\ Sequential = (k + 1) * WORD
  <2>1. Len(program) = 7
    BY <1>4
  <2> QED BY <2>1, InsnAt
<1>6. /\ pc = WORD => pc = 1 * WORD
       /\ 2 * WORD = (1 + 1) * WORD /\ 6 * WORD = (5 + 1) * WORD /\ 7 * WORD = (6 + 1) * WORD
  BY <1>3
<1>7. CASE pc = 0 /\ n = 0 /\ b = c /\ t = 0
  <2>1. Insn = Hint /\ Sequential = WORD
    BY <1>3, <1>4, <1>7, InsnAt
  <2>2. pc' = WORD /\ gpr' = gpr /\ running' = running
    BY <2>1, StepNop DEF Hint
  <2> QED BY <1>1, <1>2, <1>7, <2>2 DEF LoopInv, W
<1>8. CASE pc = WORD /\ n = 1 /\ b = c /\ t = 0
  <2>0. Insn = program[2] /\ Sequential = 2 * WORD
    BY <1>8, <1>5, <1>6
  <2>1. /\ Insn.op = "branch" /\ Insn.when = "always" /\ Insn.link = TRUE /\ Insn.form = "r"
        /\ Insn.rt = Link /\ Insn.imm = 2
    BY <1>4, <2>0 DEF Branch
  <2>2. Taken(Insn) /\ Target(Insn) = 3 * WORD
    <3>1. pc + 2 * WORD = 3 * WORD /\ (3 * WORD) % LS_SIZE = 3 * WORD
      BY <1>3, <1>8
    <3> QED BY <2>1, <3>1 DEF Taken, Target
  <2>3. pc' = 3 * WORD /\ running' = running /\ gpr' = [gpr EXCEPT ![Link] = Preferred(2 * WORD)]
    BY <2>0, <2>1, <2>2, StepBranch
  <2>4. Preferred(2 * WORD) \in Quad /\ Elem(Preferred(2 * WORD), WORD, 0) = 2 * WORD
    <3>1. 2 * WORD \in Int /\ (2 * WORD) % M = 2 * WORD
      BY <1>3
    <3>2. Elem(Preferred(2 * WORD), WORD, 0) = (2 * WORD) % M
      BY <3>1, PreferredWord
    <3>3. Preferred(2 * WORD) \in Quad
      BY <3>1, PreferredWord
    <3> QED BY <3>1, <3>2, <3>3
  <2>5. /\ gpr' \in [Registers -> Quad] /\ gpr'[A] = gpr[A] /\ gpr'[B] = gpr[B] /\ gpr'[T] = gpr[T]
        /\ W(gpr'[Link], 0) = 2 * WORD
    BY <1>2, <2>3, <2>4, SixRegisters DEF W
  <2>6. (a * (c - b)) % M = 0
    BY <1>3, <1>8
  <2> QED BY <1>1, <1>2, <1>3, <1>8, <2>3, <2>5, <2>6 DEF LoopInv, W
<1>9. CASE /\ l = 2 * WORD /\ pc = 3 * WORD /\ n = 2 + 3 * (c - b) /\ b \in 1 .. c
           /\ t = (a * (c - b)) % M
  <2>1. Insn = RR("a", WORD, T, T, A) /\ Sequential = 4 * WORD
    BY <1>3, <1>4, <1>9, InsnAt
  <2>2. /\ Insn.op = "a" /\ Insn.size = WORD /\ Insn.rt = T /\ Insn.ra = T /\ Insn.rb = A
        /\ Insn.imm = 0 /\ Insn.form = "RR"
    BY <2>1 DEF RR, Ins
  <2>3. /\ gpr' \in [Registers -> Quad] /\ \A r \in Registers : r # T => gpr'[r] = gpr[r]
        /\ pc' = 4 * WORD /\ running' = running
        /\ W(gpr'[T], 0) = (t + W(gpr[A], 0)) % M
    <3>1. 0 \in 0 .. WORDS - 1
      BY Widths
    <3> QED BY <1>2, <2>1, <2>2, <3>1, Addition, SixRegisters DEF W
  <2>4. gpr'[A] = gpr[A] /\ gpr'[B] = gpr[B] /\ gpr'[Link] = gpr[Link]
    BY <1>2, <2>3, SixRegisters
  <2>5. (t + W(gpr[A], 0)) % M = (a * (c - b + 1)) % M
    <3>1. c - b \in Nat /\ a \in Nat /\ W(gpr[A], 0) = a
      BY <1>2, <1>3, <1>9
    <3> QED BY <1>9, <3>1, OneMore
  <2> QED BY <1>1, <1>2, <1>3, <1>9, <2>3, <2>4, <2>5 DEF LoopInv, W
<1>10. CASE /\ l = 2 * WORD /\ pc = 4 * WORD /\ n = 3 + 3 * (c - b) /\ b \in 1 .. c
           /\ t = (a * (c - b + 1)) % M
  <2>1. Insn = RI("a", WORD, B, B, -1) /\ Sequential = 5 * WORD
    BY <1>3, <1>4, <1>10, InsnAt
  <2>2. /\ Insn.op = "a" /\ Insn.size = WORD /\ Insn.rt = B /\ Insn.ra = B /\ Insn.rb = B
        /\ Insn.imm = -1 /\ Insn.form = "RI"
    BY <2>1 DEF RI, Ins
  <2>3. /\ gpr' \in [Registers -> Quad] /\ \A r \in Registers : r # B => gpr'[r] = gpr[r]
        /\ pc' = 5 * WORD /\ running' = running
        /\ W(gpr'[B], 0) = (b + ((-1) % M)) % M
    <3>1. 0 \in 0 .. WORDS - 1
      BY Widths
    <3> QED BY <1>2, <2>1, <2>2, <3>1, Addition, SixRegisters DEF W
  <2>4. gpr'[A] = gpr[A] /\ gpr'[T] = gpr[T] /\ gpr'[Link] = gpr[Link]
    BY <1>2, <2>3, SixRegisters
  <2>5. (b + ((-1) % M)) % M = b - 1
    BY <1>3, <1>10, MinusOne
  <2>6. c - b + 1 = c - (b - 1) /\ b - 1 \in 0 .. c - 1 /\ n + 1 = 1 + 3 * (c - (b - 1))
    BY <1>3, <1>10
  <2> QED BY <1>1, <1>2, <1>10, <2>3, <2>4, <2>5, <2>6 DEF LoopInv, W
<1>11. CASE /\ l = 2 * WORD /\ pc = 5 * WORD /\ n = 1 + 3 * (c - b) /\ b \in 0 .. c - 1
           /\ t = (a * (c - b)) % M
  <2>0. Insn = program[6] /\ Sequential = 6 * WORD
    BY <1>11, <1>5, <1>6
  <2>1. /\ Insn.op = "branch" /\ Insn.when = "nz" /\ Insn.link = FALSE /\ Insn.form = "r"
        /\ Insn.rt = B /\ Insn.imm = -2
    BY <1>4, <2>0 DEF Branch
  <2>2. (Taken(Insn) <=> b # 0) /\ Target(Insn) = 3 * WORD
    <3>1. pc + (-2) * WORD = 3 * WORD /\ (3 * WORD) % LS_SIZE = 3 * WORD
      BY <1>3, <1>11
    <3> QED BY <2>1, <3>1 DEF Taken, Target, Word0, W
  <2>3. /\ pc' = IF b # 0 THEN 3 * WORD ELSE 6 * WORD
        /\ running' = running /\ gpr' = gpr
    BY <2>0, <2>1, <2>2, StepBranch
  <2>4. CASE b # 0
    <3>1. b \in 1 .. c /\ n + 1 = 2 + 3 * (c - b)
      BY <1>3, <1>11, <2>4
    <3> QED BY <1>1, <1>2, <1>11, <2>3, <2>4, <3>1 DEF LoopInv, W
  <2>5. CASE b = 0
    <3>1. n + 1 = 2 + 3 * c /\ c - b = c
      BY <1>3, <1>11, <2>5
    <3> QED BY <1>1, <1>2, <1>11, <2>3, <2>5, <3>1 DEF LoopInv, W
  <2> QED BY <2>4, <2>5
<1>12. CASE l = 2 * WORD /\ pc = 6 * WORD /\ n = 2 + 3 * c /\ t = (a * c) % M
  <2>0. Insn = program[7] /\ Sequential = 7 * WORD
    BY <1>12, <1>5, <1>6
  <2>1. /\ Insn.op = "branch" /\ Insn.when = "always" /\ Insn.link = FALSE /\ Insn.form = "i"
        /\ Insn.ra = Link
    BY <1>4, <2>0 DEF Branch
  <2>2. Taken(Insn) /\ Target(Insn) = 2 * WORD
    <3>1. (2 * WORD) % LS_SIZE = 2 * WORD /\ (2 * WORD) - ((2 * WORD) % WORD) = 2 * WORD
      BY <1>3
    <3> QED BY <1>12, <2>1, <3>1 DEF Taken, Target, Word0, W
  <2>3. pc' = 2 * WORD /\ running' = running /\ gpr' = gpr
    BY <2>0, <2>1, <2>2, StepBranch
  <2>4. n + 1 = 3 + 3 * c
    BY <1>3, <1>12
  <2> QED BY <1>1, <1>2, <1>12, <2>3, <2>4 DEF LoopInv, W
<1>13. CASE l = 2 * WORD /\ pc = 2 * WORD /\ n = 3 + 3 * c /\ t = (a * c) % M
  <2>1. Insn = Stop /\ Sequential = 3 * WORD
    BY <1>3, <1>4, <1>13, InsnAt
  <2>2. pc' = 3 * WORD /\ running' = FALSE /\ gpr' = gpr
    BY <2>1, StepStop DEF Stop
  <2> QED BY <1>1, <1>2, <1>13, <2>2 DEF LoopInv, W
<1> QED BY <1>1, <1>7, <1>8, <1>9, <1>10, <1>11, <1>12, <1>13 DEF LoopInv

\* A subroutine that was called by brsl comes back by bi behind the call, after as
\* many turns of its loop as it was asked for (spu_interp.cpp:456-493, 892-910).
THEOREM SubroutinesReturn == Spec => []SubroutineReturns
<1>1. LoopInv /\ [Step]_channelVars => LoopInv'
  <2>1. CASE UNCHANGED channelVars
    BY <2>1 DEF LoopInv, channelVars, vars, W
  <2>2. CASE program # CallLoop /\ Step
    BY <2>2, StepCounts DEF LoopInv
  <2> QED BY <2>1, <2>2, LoopSteps
<1>2. LoopInv => SubroutineReturns
  <2> SUFFICES ASSUME LoopInv, program = CallLoop, Halted
               PROVE  ~running /\ pc = 3 * WORD
                      /\ W(gpr[T], 0) = (W(first.gpr[A], 0) * W(first.gpr[B], 0)) % M
    BY DEF SubroutineReturns
  <2> DEFINE c == W(first.gpr[B], 0)
             b == W(gpr[B], 0)
  <2>1. b \in Nat /\ c \in Nat /\ MaxInsns \in Nat
    <3>1. first.gpr[B] \in Quad /\ gpr[B] \in Quad
      BY SixRegisters DEF LoopInv
    <3> QED BY SMTT(30), <3>1, ElemInRange, Widths, SpuAssumption DEF W
  <2>2. running => n < 3 * c + 4 /\ n \in Nat
    BY <2>1 DEF LoopInv
  <2>3. ~running
    BY <2>1, <2>2 DEF Halted, LoopInv
  <2> QED BY <2>3 DEF LoopInv
<1> QED BY <1>1, <1>2, LoopStarts, PTL DEF Spec

(***************************************************************************)
(* Channels.                                                               *)
(***************************************************************************)
LEMMA StepWrch ==
  ASSUME Step, Insn.op = "wrch"
  PROVE  wrch(Insn)
BY DEF Step, spu_step, ExecElement, ExecQuad, ExecPreferred, ExecSpread, ExecLoad, ExecStore,
       ExecBranch, ExecStop, ExecNop, wrch, rdch, rchcnt, ElementOps, LogicOps, ArithmeticOps,
       CompareOps, MultiplyOps, ShiftOps, UnaryOps, QuadOps, QuadShiftOps

LEMMA StepRdch ==
  ASSUME Step, Insn.op = "rdch"
  PROVE  rdch(Insn)
BY DEF Step, spu_step, ExecElement, ExecQuad, ExecPreferred, ExecSpread, ExecLoad, ExecStore,
       ExecBranch, ExecStop, ExecNop, wrch, rdch, rchcnt, ElementOps, LogicOps, ArithmeticOps,
       CompareOps, MultiplyOps, ShiftOps, UnaryOps, QuadOps, QuadShiftOps

LEMMA StepRchcnt ==
  ASSUME Step, Insn.op = "rchcnt"
  PROVE  rchcnt(Insn)
BY DEF Step, spu_step, ExecElement, ExecQuad, ExecPreferred, ExecSpread, ExecLoad, ExecStore,
       ExecBranch, ExecStop, ExecNop, wrch, rdch, rchcnt, ElementOps, LogicOps, ArithmeticOps,
       CompareOps, MultiplyOps, ShiftOps, UnaryOps, QuadOps, QuadShiftOps

\* A value is staged, or a message is sent.
LEMMA Staged ==
  ASSUME Step, Insn.op = "wrch", Insn.ch \in Staging \cup {"SPU_WrOutMbox"}
  PROVE  /\ pc' = Sequential /\ UNCHANGED <<gpr, ls, running, memory>>
         /\ staged' = IF Insn.ch \in Staging
                      THEN [staged EXCEPT ![Insn.ch] = Word0(Insn.rt)] ELSE staged
         /\ posted' = IF Insn.ch = "SPU_WrOutMbox" THEN 1 ELSE posted
<1>1. wrch(Insn)
  BY StepWrch
<1>2. Insn.ch # "SPU_WrSRR0" /\ Insn.ch # "MFC_Cmd" /\ Insn.ch # "SPU_WrOutIntrMbox"
  BY DEF Staging
<1>3. Insn.ch = "SPU_WrOutMbox" => Insn.ch \notin Staging
  BY DEF Staging
<1> QED BY <1>1, <1>2, <1>3 DEF wrch, Continues

\* A command is carried out.
LEMMA Commanded ==
  ASSUME Step, Insn.op = "wrch", Insn.ch = "MFC_Cmd"
  PROVE  /\ pc' = Sequential /\ UNCHANGED <<gpr, running, staged, posted>>
         /\ mfc_execute(Word0(Insn.rt) % 256)
<1>1. wrch(Insn)
  BY StepWrch
<1>2. "MFC_Cmd" \notin Staging
  BY DEF Staging
<1> QED BY <1>1, <1>2 DEF wrch, Continues, KeptStaged

\* A constant is loaded.
LEMMA Immediate ==
  ASSUME File(gpr), Step, Insn.op = "il", Insn.size = WORD, Insn.form = "RI",
         Insn.rt \in Registers, Insn.ra \in Registers, Insn.rb \in Registers,
         Insn.imm \in 0 .. M - 1, gpr[Insn.rt] \in Quad
  PROVE  /\ pc' = Sequential /\ UNCHANGED <<ls, running, staged, posted, memory>>
         /\ gpr' = [gpr EXCEPT ![Insn.rt] = gpr'[Insn.rt]]
         /\ File(gpr') /\ gpr'[Insn.rt] \in Quad
         /\ Elem(gpr'[Insn.rt], WORD, 0) = Insn.imm
<1> DEFINE w == [i \in 0 .. WORDS - 1 |-> Insn.imm]
<1>1. Insn.op \in ElementOps
  BY DEF ElementOps, UnaryOps
<1>2. M = Weight(WORD) /\ M \in Nat /\ M > 0 /\ 0 \in 0 .. WORDS - 1
  BY Widths
<1>3. Insn.imm % M = Insn.imm /\ Insn.imm \in Int
  BY <1>2
<1>4. ASSUME NEW i \in 0 .. WORDS - 1 PROVE Lane(gpr, Insn, i) = Insn.imm
  <2>1. Operand(gpr, Insn, i) = Insn.imm
    BY <1>2, <1>3 DEF Operand
  <2>2. \A x, y, t : Element("il", x, y, t, WORD) = y
    BY DEF Element, LogicOps, ArithmeticOps, CompareOps, MultiplyOps, ShiftOps, UnaryOps,
           Unary
  <2> QED BY <2>1, <2>2 DEF Lane
<1>5. /\ w \in [0 .. WORDS - 1 -> Int] /\ \A i \in 0 .. WORDS - 1 : Lane(gpr, Insn, i) = w[i]
      /\ w[0] = Insn.imm
  BY <1>2, <1>3, <1>4
<1> HIDE DEF w
<1> QED BY <1>1, <1>2, <1>3, <1>5, WordInstruction

\* A register is added to itself.
LEMMA Twice ==
  ASSUME File(gpr), Step, Insn.op = "a", Insn.size = WORD, Insn.form = "RR",
         Insn.rt \in Registers, Insn.ra = Insn.rt, Insn.rb = Insn.rt
  PROVE  /\ pc' = Sequential /\ UNCHANGED <<ls, running, staged, posted, memory>>
         /\ gpr' = [gpr EXCEPT ![Insn.rt] = gpr'[Insn.rt]] /\ File(gpr')
         /\ gpr'[Insn.rt] = FromWords([i \in 0 .. WORDS - 1 |-> Elem(gpr[Insn.rt], WORD, i)
                                                                + Elem(gpr[Insn.rt], WORD, i)])
<1> DEFINE e(i) == Elem(gpr[Insn.rt], WORD, i)
           w == [i \in 0 .. WORDS - 1 |-> e(i) + e(i)]
<1>1. /\ pc' = Sequential /\ UNCHANGED <<ls, running, staged, posted, memory>>
      /\ gpr' = ElementLoop(gpr, Insn)
  BY StepElement DEF ElementOps, ArithmeticOps
<1>2. ASSUME NEW i \in 0 .. WORDS - 1 PROVE Lane(gpr, Insn, i) = e(i) + e(i)
  <2>1. Operand(gpr, Insn, i) = e(i)
    BY DEF Operand
  <2>2. \A x, y, t : Element("a", x, y, t, WORD) = x + y
    BY DEF Element, LogicOps, ArithmeticOps, CompareOps, MultiplyOps, ShiftOps, UnaryOps,
           Arithmetic
  <2> QED BY <2>1, <2>2 DEF Lane
<1> HIDE DEF e
<1>3. [i \in 0 .. WORDS - 1 |-> Lane(gpr, Insn, i)] = w
  BY <1>2
<1> HIDE DEF w
<1>4. gpr' = [gpr EXCEPT ![Insn.rt] = FromWords(w)]
  BY <1>1, <1>3, InPlaceLoop
<1>5. File(gpr') /\ gpr'[Insn.rt] = FromWords(w)
  BY <1>4 DEF File
<1> QED BY <1>1, <1>4, <1>5 DEF w, e

\* Bytes of a number are those of its low bits.
LEMMA CutByte ==
  ASSUME NEW u \in Int, NEW j \in 0 .. WORD - 1
  PROVE  ((u % M) \div Weight(j)) % 256 = (u \div Weight(j)) % 256
<1>1. \A p, r \in Int : (256 * p + r) % 256 = r % 256
  OBVIOUS
<1>2. CASE WORD = 2
  <2> DEFINE q == u \div (256 * 256)
             r == u % (256 * 256)
  <2>1. /\ M = 256 * 256 /\ j \in {0, 1} /\ Weight(0) = 1 /\ Weight(1) = 256
    BY <1>2, Widths
  <2>2. u = 256 * 256 * q + r /\ q \in Int /\ r \in Int
    OBVIOUS
  <2> HIDE DEF q, r
  <2>3. (u \div 1) % 256 = (r \div 1) % 256
    <3>1. u = 256 * (256 * q) + r /\ u \div 1 = u /\ r \div 1 = r /\ 256 * q \in Int
      BY <2>2
    <3> QED BY <1>1, <2>2, <3>1
  <2>4. (u \div 256) % 256 = (r \div 256) % 256
    <3>1. u \div 256 = 256 * q + (r \div 256) /\ r \div 256 \in Int
      BY <2>2
    <3> QED BY <1>1, <2>2, <3>1
  <2> QED BY <2>1, <2>3, <2>4 DEF r
<1>3. CASE WORD = 4
  <2> DEFINE q == u \div (256 * 256 * 256 * 256)
             r == u % (256 * 256 * 256 * 256)
  <2>1. /\ M = 256 * 256 * 256 * 256 /\ j \in {0, 1, 2, 3} /\ Weight(0) = 1 /\ Weight(1) = 256
        /\ Weight(2) = 256 * 256 /\ Weight(3) = 256 * 256 * 256
    BY <1>3, Widths
  <2>2. u = 256 * 256 * 256 * 256 * q + r /\ q \in Int /\ r \in Int
    OBVIOUS
  <2> HIDE DEF q, r
  <2>3. (u \div 1) % 256 = (r \div 1) % 256
    <3>1. /\ u = 256 * (256 * 256 * 256 * q) + r /\ u \div 1 = u /\ r \div 1 = r
          /\ 256 * 256 * 256 * q \in Int
      BY <2>2
    <3> QED BY <1>1, <2>2, <3>1
  <2>4. (u \div 256) % 256 = (r \div 256) % 256
    <3>1. /\ u \div 256 = 256 * (256 * 256 * q) + (r \div 256)
          /\ r \div 256 \in Int /\ 256 * 256 * q \in Int
      BY <2>2
    <3> QED BY <1>1, <3>1
  <2>5. (u \div (256 * 256)) % 256 = (r \div (256 * 256)) % 256
    <3>1. /\ u \div (256 * 256) = 256 * (256 * q) + (r \div (256 * 256))
          /\ r \div (256 * 256) \in Int /\ 256 * q \in Int
      BY <2>2
    <3> QED BY <1>1, <3>1
  <2>6. (u \div (256 * 256 * 256)) % 256 = (r \div (256 * 256 * 256)) % 256
    <3>1. /\ u \div (256 * 256 * 256) = 256 * q + (r \div (256 * 256 * 256))
          /\ r \div (256 * 256 * 256) \in Int
      BY <2>2
    <3> QED BY <1>1, <2>2, <3>1
  <2> QED BY <2>1, <2>3, <2>4, <2>5, <2>6 DEF r
<1> QED BY <1>2, <1>3, Widths

\* The doubles of words, cut or not, have the same bytes.
LEMMA DoubledBytes ==
  ASSUME NEW q \in Quad, NEW store, NEW at, q = [k \in Bytes |-> store[at + k]]
  PROVE  FromWords([i \in 0 .. WORDS - 1 |-> Elem(q, WORD, i) + Elem(q, WORD, i)])
           = Doubled(store, at)
<1> DEFINE e(i) == Elem(q, WORD, i)
           v == [i \in 0 .. WORDS - 1 |-> e(i) + e(i)]
           w == [i \in 0 .. WORDS - 1 |-> (2 * e(i)) % M]
<1>1. \A i \in 0 .. WORDS - 1 : e(i) \in Int
  BY ElemInRange, Widths
<1>2. Doubled(store, at) = FromWords(w)
  BY DEF Doubled
<1> HIDE DEF e
<1>3. ASSUME NEW k \in Bytes
      PROVE  (v[k \div WORD] \div Weight(WORD - 1 - (k % WORD))) % 256
               = (w[k \div WORD] \div Weight(WORD - 1 - (k % WORD))) % 256
  <2> DEFINE i == k \div WORD
             j == WORD - 1 - (k % WORD)
  <2>1. i \in 0 .. WORDS - 1 /\ j \in 0 .. WORD - 1
    BY Places
  <2> HIDE DEF i, j
  <2>2. v[i] = e(i) + e(i) /\ w[i] = (2 * e(i)) % M /\ e(i) \in Int
    BY <1>1, <2>1
  <2>3. 2 * e(i) = e(i) + e(i) /\ e(i) + e(i) \in Int
    BY <2>2
  <2>4. ((v[i] % M) \div Weight(j)) % 256 = (v[i] \div Weight(j)) % 256
    BY <2>1, <2>2, <2>3, CutByte
  <2>5. (v[i] \div Weight(j)) % 256 = (w[i] \div Weight(j)) % 256
    BY <2>2, <2>3, <2>4
  <2> QED BY <2>5 DEF i, j
<1> HIDE DEF v, w
<1>4. FromWords(v) = FromWords(w)
  BY <1>3 DEF FromWords
<1> QED BY <1>2, <1>4 DEF v, e

\* What an Update is told: how many bytes, and whether all of them are main memory.
Much   == Elem(first.gpr[B], WORD, 0)
Amount == Cut(Much)
InRam  == Where .. Where + Amount - 1 \subseteq RAM .. RAM_END - 1 /\ Where + Amount # RAM_END
InIo   == Where .. Where + Amount - 1 \subseteq IO .. IO_END - 1
NotRam == ~(Where .. Where + Amount - 1 \subseteq RAM .. RAM_END - 1)

\* The quadword that is read and what is written back.
ReadQuad    == [k \in Bytes |-> GuestPattern[Where + k]]
ChangedQuad == Doubled(GuestPattern, Where)
Answered ==
  /\ InRam => memory = [x \in Memory |-> IF x \in Where .. Where + QUAD - 1
                                         THEN ChangedQuad[x - Where] ELSE GuestPattern[x]]
  /\ NotRam /\ ~InIo => memory = GuestPattern

\* How far a run of Update has got, and what it never touches.
Going ==
  /\ n \in 0 .. 16 /\ (n < 16 => pc = n * WORD) /\ (running <=> n < 16)
  /\ Where \in 0 .. M - 1 /\ Much \in 0 .. M - 1 /\ Amount >= QUAD
  /\ File(gpr) /\ gpr[A] = first.gpr[A] /\ gpr[B] = first.gpr[B]
  /\ DOMAIN ls = 0 .. LS_SIZE - 1 /\ DOMAIN staged = Staging

\* The registers it uses, ...
Prepared(lsa, get, put) ==
  /\ n = 0 => gpr[U] \in Quad
  /\ n >= 1 => Word0(U) = lsa
  /\ n <= 4 => gpr[T] \in Quad
  /\ n = 5 => Word0(T) = get
  /\ n <= 13 => gpr[V] \in Quad
  /\ n = 8 => Word0(V) = 1
  /\ n = 14 => Word0(V) = put

\* ... the description of the transfers, which is made once, ...
Described(lsa) ==
  /\ n >= 2 => staged["MFC_LSA"] = lsa
  /\ n >= 3 => staged["MFC_EAL"] = Where
  /\ n >= 4 => staged["MFC_Size"] = Much
  /\ n >= 7 => staged["MFC_WrTagMask"] = Much

\* ... and the data on its way.
Moved(lsa) ==
  /\ n <= 14 => memory = GuestPattern
  /\ InRam /\ n \in 6 .. 12 => \A k \in 0 .. Amount - 1 : ls[lsa + k] = GuestPattern[Where + k]
  /\ InRam /\ n = 11 => gpr[T] = ReadQuad
  /\ InRam /\ n = 12 => gpr[T] = ChangedQuad
  /\ InRam /\ n \in 13 .. 14 =>
       \A k \in 0 .. Amount - 1 :
         ls[lsa + k] = IF k < QUAD THEN ChangedQuad[k] ELSE GuestPattern[Where + k]
  /\ n >= 15 => Answered

UpdateInv(lsa, get, put) ==
  program = Update(lsa, get, put) =>
    Going /\ Prepared(lsa, get, put) /\ Described(lsa) /\ Moved(lsa)

LEMMA UpdateAt ==
  ASSUME NEW lsa, NEW get, NEW put, program = Update(lsa, get, put), Going, Step
  PROVE  /\ n \in 0 .. 15 /\ n' = n + 1 /\ running /\ Insn = program[n + 1]
         /\ n < 15 => Sequential = (n + 1) * WORD
         /\ program' = program /\ first' = first
         /\ Where' = Where /\ Much' = Much /\ Amount' = Amount
         /\ (InRam' <=> InRam) /\ (InIo' <=> InIo) /\ (NotRam' <=> NotRam)
         /\ ReadQuad' = ReadQuad /\ ChangedQuad' = ChangedQuad
<1>1. running /\ n' = n + 1 /\ program' = program /\ first' = first
  BY StepCounts
<1>2. n \in 0 .. 15 /\ pc = n * WORD
  BY <1>1 DEF Going
<1>3. Len(program) = 16
  BY DEF Update
<1>4. Insn = program[n + 1]
  <2>1. pc \div WORD = n
    BY <1>2, SpuAssumption
  <2> QED BY <1>2, <1>3, <2>1 DEF Insn
<1>5. n < 15 => Sequential = (n + 1) * WORD
  <2>1. n < 15 => n \in 0 .. 14 /\ n < Len(program)
    BY <1>2, <1>3
  <2> QED BY <1>2, <2>1, InsnAt
<1>6. Where' = Where /\ Much' = Much
  BY <1>1 DEF Where, Much
<1>7. Amount' = Amount
  BY <1>6 DEF Amount, Cut
<1> QED BY <1>1, <1>2, <1>4, <1>5, <1>6, <1>7 DEF InRam, InIo, NotRam, ReadQuad, ChangedQuad, Doubled

LEMMA GoesOn ==
  ASSUME NEW lsa, NEW get, NEW put, program = Update(lsa, get, put), Going, Step,
         n < 15 => pc' = Sequential /\ running' = running, n = 15 => running' = FALSE,
         File(gpr'), gpr'[A] = gpr[A], gpr'[B] = gpr[B],
         DOMAIN ls' = DOMAIN ls, DOMAIN staged' = DOMAIN staged
  PROVE  Going'
<1>1. n \in 0 .. 15 /\ n' = n + 1 /\ running /\ (n < 15 => Sequential = (n + 1) * WORD)
  BY UpdateAt
<1>2. first' = first /\ Where' = Where /\ Much' = Much /\ Amount' = Amount
  BY UpdateAt
<1>3. File(gpr)' 
  BY DEF File
<1>4. n' \in 0 .. 16 /\ (n' < 16 => pc' = n' * WORD) /\ (running' <=> n' < 16)
  <2>1. CASE n < 15
    BY <1>1, <2>1
  <2>2. CASE n = 15
    BY <1>1, <2>2
  <2> QED BY <1>1, <2>1, <2>2
<1> QED BY <1>2, <1>3, <1>4 DEF Going

\* Buffers are aligned and leave room for a transfer; commands are bytes.
LEMMA UpdateNumbers ==
  ASSUME NEW lsa \in Buffers, NEW cmd \in Gets \cup Puts
  PROVE  /\ lsa \in 0 .. M - 1 /\ lsa \in Nat /\ lsa % LS_SIZE = lsa /\ Aligned(lsa) = lsa
         /\ lsa + MAX_DMA <= LS_SIZE /\ QUAD <= MAX_DMA
         /\ cmd \in 0 .. M - 1 /\ cmd % 256 = cmd
         /\ QUAD \in Nat /\ QUAD > 0 /\ MAX_DMA \in Nat /\ LS_SIZE \in Nat /\ M \in Nat
         /\ Bytes = 0 .. QUAD - 1
<1>1. QUAD \in {4, 8, 16} /\ M \in Nat /\ M > 256 /\ Bytes = 0 .. QUAD - 1
  BY Widths
<1>2. MAX_DMA \in Nat /\ LS_SIZE \in Nat /\ QUAD <= MAX_DMA /\ 2 * QUAD + MAX_DMA <= LS_SIZE
  BY <1>1, SpuAssumption, ChannelsAssumption, IdiomAssumption
<1>3. lsa \in {0, 2 * QUAD}
  BY DEF Buffers
<1>4. lsa \in Nat /\ lsa < LS_SIZE /\ lsa + MAX_DMA <= LS_SIZE /\ lsa < M /\ lsa % QUAD = 0
  <2>1. CASE QUAD = 4
    BY <1>1, <1>2, <1>3, <2>1
  <2>2. CASE QUAD = 8
    BY <1>1, <1>2, <1>3, <2>2
  <2>3. CASE QUAD = 16
    BY <1>1, <1>2, <1>3, <2>3
  <2> QED BY <1>1, <2>1, <2>2, <2>3
<1>5. lsa % LS_SIZE = lsa
  BY <1>2, <1>4
<1>6. Aligned(lsa) = lsa
  <2>1. Aligned(lsa) = (lsa % LS_SIZE) - (lsa % QUAD)
    BY <1>4, Alignment
  <2> QED BY <1>4, <1>5, <2>1
<1>7. cmd \in 0 .. 255 /\ cmd % 256 = cmd
  BY DEF Gets, Puts
<1>8. cmd \in 0 .. M - 1
  BY <1>1, <1>7
<1> QED BY <1>1, <1>2, <1>4, <1>5, <1>6, <1>7, <1>8

\* Where the transfer lies, from what was staged.
LEMMA Windows ==
  ASSUME NEW lsa \in Buffers, Going, Described(lsa), n >= 4
  PROVE  /\ LsAddress = lsa /\ Address = Where /\ Size = Amount
         /\ Where \in Nat /\ Amount \in Nat /\ QUAD <= Amount /\ Amount <= MAX_DMA
         /\ InRam => ToMain /\ ~ToLs /\ \A k \in 0 .. Amount - 1 : Where + k \in RAM .. RAM_END - 1
         /\ NotRam /\ ~InIo /\ (ToMain \/ ToIo) =>
              \A x \in Memory : x \notin Where .. Where + Amount - 1
<1>1. n >= 2 /\ n >= 3 /\ n \in Nat
  BY DEF Going
<1>2. staged["MFC_LSA"] = lsa /\ staged["MFC_EAL"] = Where /\ staged["MFC_Size"] = Much
  BY <1>1 DEF Described
<1>3. 64 \in Gets \cup Puts
  BY DEF Gets
<1>4. lsa % LS_SIZE = lsa /\ QUAD \in Nat /\ QUAD > 0 /\ MAX_DMA \in Nat /\ M \in Nat
  BY <1>3, UpdateNumbers
<1>5. LsAddress = lsa /\ Address = Where /\ Size = Amount
  BY <1>2, <1>4 DEF LsAddress, Address, Size, Amount, Cut
<1>6. Where \in Nat /\ Where < M /\ Much \in Nat /\ Amount \in Nat /\ Amount <= MAX_DMA /\ QUAD <= Amount
  BY <1>4 DEF Going, Amount, Cut
<1>7. Past = (Where + Amount) % M
  BY <1>5 DEF Past, M
<1>8. /\ RAM \in Nat /\ RAM_END \in Nat /\ IO \in Nat /\ IO_END \in Nat /\ LS_MAP \in Nat
      /\ LS_MAP_END \in Nat /\ RAM < RAM_END /\ RAM_END < IO /\ IO < IO_END /\ IO_END < LS_MAP
      /\ LS_MAP < LS_MAP_END /\ LS_MAP_END + MAX_DMA <= M - 1
  <2>1. Ones(WORD) = M - 1 /\ LS_SIZE \in Nat
    BY Widths, SpuAssumption
  <2>2. LS_SIZE > 0
    BY <2>1, <1>3, <1>4, UpdateNumbers, IdiomAssumption, Widths
  <2> QED BY <2>1, <2>2, ChannelsAssumption
<1>9. Where + Amount < M => Past = Where + Amount
  BY <1>4, <1>6, <1>7
<1>10. ASSUME InRam
       PROVE  ToMain /\ ~ToLs /\ \A k \in 0 .. Amount - 1 : Where + k \in RAM .. RAM_END - 1
  <2>1. Where \in Where .. Where + Amount - 1 /\ Where + Amount - 1 \in Where .. Where + Amount - 1
    BY <1>4, <1>6
  <2>2. Where \in RAM .. RAM_END - 1 /\ Where + Amount - 1 \in RAM .. RAM_END - 1
    BY <1>10, <2>1 DEF InRam
  <2>3. Where >= RAM /\ Where + Amount < RAM_END /\ Where < LS_MAP /\ Where + Amount < M
    BY <1>4, <1>6, <1>8, <1>10, <2>2 DEF InRam
  <2>4. ToMain /\ ~ToLs
    BY <1>5, <1>6, <1>8, <1>9, <2>3 DEF ToMain, ToLs, InLsMap
  <2>5. \A k \in 0 .. Amount - 1 : Where + k \in RAM .. RAM_END - 1
    BY <1>6, <1>8, <2>3
  <2> QED BY <2>4, <2>5
<1>11. ASSUME NotRam, ~InIo, ToMain \/ ToIo, NEW x \in Memory
       PROVE  x \notin Where .. Where + Amount - 1
  <2>1. Where + Amount >= M
    <3> SUFFICES ASSUME Where + Amount < M PROVE FALSE
      BY <1>4, <1>6
    <3>1. Past = Where + Amount
      BY <1>9
    <3>2. CASE ToMain
      <4>1. Where >= RAM /\ Where + Amount < RAM_END
        BY <1>5, <3>1, <3>2 DEF ToMain
      <4>2. Where .. Where + Amount - 1 \subseteq RAM .. RAM_END - 1
        BY <1>6, <1>8, <4>1
      <4> QED BY <1>11, <4>2 DEF NotRam
    <3>3. CASE ToIo
      <4>1. Where >= IO /\ Where + Amount <= IO_END
        BY <1>5, <3>1, <3>3 DEF ToIo
      <4>2. Where .. Where + Amount - 1 \subseteq IO .. IO_END - 1
        BY <1>6, <1>8, <4>1
      <4> QED BY <1>11, <4>2 DEF InIo
    <3> QED BY <1>11, <3>2, <3>3
  <2>2. x \in Nat /\ x < IO_END
    BY <1>8 DEF Memory
  <2> QED BY <1>4, <1>6, <1>8, <2>1, <2>2
<1> QED BY <1>5, <1>6, <1>10, <1>11

\* Reading brings the range to the buffer, writing carries the buffer back.
LEMMA GetReads ==
  ASSUME NEW lsa \in Buffers, NEW get \in Gets, Going, Described(lsa), n >= 4,
         memory = GuestPattern, mfc_execute(get)
  PROVE  /\ memory' = memory /\ DOMAIN ls' = 0 .. LS_SIZE - 1
         /\ InRam => \A k \in 0 .. Amount - 1 : ls'[lsa + k] = GuestPattern[Where + k]
<1>1. get \notin Puts
  BY DEF Gets, Puts
<1>2. mfc_get
  BY <1>1 DEF mfc_execute
<1>3. DOMAIN ls = 0 .. LS_SIZE - 1
  BY DEF Going
<1>4. memory' = memory /\ DOMAIN ls' = 0 .. LS_SIZE - 1
  BY <1>2, <1>3 DEF mfc_get, Overwrite
<1>5. ASSUME InRam, NEW k \in 0 .. Amount - 1 PROVE ls'[lsa + k] = GuestPattern[Where + k]
  <2>1. ls' = Overwrite(ls, lsa, GuestPattern, Where) /\ Size = Amount
    BY <1>2, <1>5, Windows DEF mfc_get
  <2>2. lsa \in Nat /\ lsa + MAX_DMA <= LS_SIZE /\ MAX_DMA \in Nat /\ LS_SIZE \in Nat
    BY UpdateNumbers
  <2>3. Amount \in Nat /\ Amount <= MAX_DMA /\ Where \in Nat
    BY Windows
  <2>4. lsa + k \in 0 .. LS_SIZE - 1 /\ lsa + k \in lsa .. lsa + Amount - 1
    BY <2>2, <2>3
  <2>5. Where + (lsa + k) - lsa = Where + k
    BY <2>2, <2>3
  <2> QED BY <1>3, <2>1, <2>4, <2>5 DEF Overwrite
<1> QED BY <1>4, <1>5

LEMMA PutWrites ==
  ASSUME NEW lsa \in Buffers, NEW put \in Puts, Going, Described(lsa), n >= 4,
         memory = GuestPattern, mfc_execute(put),
         InRam => \A k \in 0 .. Amount - 1 :
                    ls[lsa + k] = IF k < QUAD THEN ChangedQuad[k] ELSE GuestPattern[Where + k]
  PROVE  /\ DOMAIN ls' = 0 .. LS_SIZE - 1
         /\ InRam => memory' = [x \in Memory |->
                                  IF x \in Where .. Where + QUAD - 1
                                  THEN ChangedQuad[x - Where] ELSE GuestPattern[x]]
         /\ NotRam /\ ~InIo => memory' = GuestPattern
<1>1. put \notin Gets
  BY DEF Gets, Puts
<1>2. mfc_put
  BY <1>1 DEF mfc_execute
<1>3. DOMAIN ls' = 0 .. LS_SIZE - 1
  BY <1>2 DEF mfc_put, Overwrite, Going
<1>4. DOMAIN GuestPattern = Memory /\ GuestPattern = [x \in Memory |-> GuestPattern[x]]
  BY DEF GuestPattern
<1>5. /\ LsAddress = lsa /\ Address = Where /\ Size = Amount
      /\ Where \in Nat /\ Amount \in Nat /\ QUAD <= Amount
  BY Windows
<1>6. ToMain \/ ToIo => memory' = [x \in Memory |-> IF x \in Where .. Where + Amount - 1
                                                    THEN ls[lsa + x - Where] ELSE GuestPattern[x]]
  BY <1>2, <1>4, <1>5 DEF mfc_put, Overwrite
<1>7. ~(ToMain \/ ToIo) => memory' = GuestPattern
  BY <1>2 DEF mfc_put
<1>8. ASSUME InRam
      PROVE  memory' = [x \in Memory |-> IF x \in Where .. Where + QUAD - 1
                                         THEN ChangedQuad[x - Where] ELSE GuestPattern[x]]
  <2>1. ToMain
    BY <1>8, Windows
  <2>2. lsa \in Nat /\ QUAD \in Nat
    BY UpdateNumbers
  <2>3. ASSUME NEW x \in Memory
        PROVE  (IF x \in Where .. Where + Amount - 1 THEN ls[lsa + x - Where] ELSE GuestPattern[x])
                 = (IF x \in Where .. Where + QUAD - 1
                    THEN ChangedQuad[x - Where] ELSE GuestPattern[x])
    <3>1. CASE x \in Where .. Where + Amount - 1
      <4>1. /\ x - Where \in 0 .. Amount - 1 /\ lsa + x - Where = lsa + (x - Where)
            /\ Where + (x - Where) = x
            /\ (x - Where < QUAD <=> x \in Where .. Where + QUAD - 1)
        BY <1>5, <2>2, <3>1
      <4>2. ls[lsa + (x - Where)] = IF x - Where < QUAD THEN ChangedQuad[x - Where]
                                    ELSE GuestPattern[Where + (x - Where)]
        BY <1>8, <4>1
      <4> QED BY <3>1, <4>1, <4>2
    <3>2. CASE x \notin Where .. Where + Amount - 1
      <4>1. x \notin Where .. Where + QUAD - 1
        BY <1>5, <2>2, <3>2
      <4> QED BY <3>2, <4>1
    <3> QED BY <3>1, <3>2
  <2> QED BY <1>6, <2>1, <2>3
<1>9. ASSUME NotRam, ~InIo PROVE memory' = GuestPattern
  <2>1. CASE ToMain \/ ToIo
    <3>1. \A x \in Memory : x \notin Where .. Where + Amount - 1
      BY <1>9, <2>1, Windows
    <3> QED BY <1>4, <1>6, <2>1, <3>1
  <2>2. CASE ~(ToMain \/ ToIo)
    BY <1>7, <2>2
  <2> QED BY <2>1, <2>2
<1> QED BY <1>3, <1>8, <1>9

\* The program, instruction by instruction.
LEMMA UpdateCode ==
  ASSUME NEW lsa, NEW get, NEW put, program = Update(lsa, get, put)
  PROVE  /\ program[1] = RI("il", WORD, U, A, lsa) /\ program[2] = Channel("wrch", "MFC_LSA", U)
         /\ program[3] = Channel("wrch", "MFC_EAL", A) /\ program[4] = Channel("wrch", "MFC_Size", B)
         /\ program[5] = RI("il", WORD, T, A, get) /\ program[6] = Channel("wrch", "MFC_Cmd", T)
         /\ program[7] = Channel("wrch", "MFC_WrTagMask", B)
         /\ program[8] = Channel("rchcnt", "MFC_RdTagStat", V)
         /\ program[9].op = "branch" /\ program[9].when = "z" /\ ~program[9].link
         /\ program[9].rt = V
         /\ program[10] = Channel("rdch", "MFC_RdTagStat", V)
         /\ program[11] = lqd(T, U) /\ program[12] = RR("a", WORD, T, T, T)
         /\ program[13] = stqd(T, U) /\ program[14] = RI("il", WORD, V, A, put)
         /\ program[15] = Channel("wrch", "MFC_Cmd", V) /\ program[16] = Stop
BY DEF Update, Branch

\* A constant is loaded into one of the registers U, T and V.
LEMMA UpdateLoadsConstant ==
  ASSUME NEW lsa \in Buffers, NEW get \in Gets, NEW put \in Puts, program = Update(lsa, get, put),
         Going, Prepared(lsa, get, put), Described(lsa), Moved(lsa), Step, n \in {0, 4, 13}
  PROVE  Going' /\ Prepared(lsa, get, put)' /\ Described(lsa)' /\ Moved(lsa)'
<1> DEFINE rt == CASE n = 0 -> U [] n = 4 -> T [] n = 13 -> V
           v  == CASE n = 0 -> lsa [] n = 4 -> get [] n = 13 -> put
<1>1. /\ n' = n + 1 /\ Insn = program[n + 1] /\ program' = program /\ first' = first
      /\ Where' = Where /\ Much' = Much /\ Amount' = Amount /\ (InRam' <=> InRam)
      /\ ReadQuad' = ReadQuad /\ ChangedQuad' = ChangedQuad
  BY UpdateAt
<1>2. Insn = RI("il", WORD, rt, A, v)
  BY <1>1, UpdateCode
<1>3. rt \in Registers /\ rt # A /\ rt # B /\ A \in Registers
  BY SixRegisters
<1>4. v \in 0 .. M - 1
  BY SMTT(30), UpdateNumbers
<1>5. gpr[rt] \in Quad /\ File(gpr)
  BY DEF Prepared, Going
<1> HIDE DEF rt, v
<1>6. /\ Insn.op = "il" /\ Insn.size = WORD /\ Insn.form = "RI" /\ Insn.rt = rt
      /\ Insn.ra = A /\ Insn.rb = A /\ Insn.imm = v
  BY <1>2 DEF RI, Ins
<1>7. /\ pc' = Sequential /\ UNCHANGED <<ls, running, staged, posted, memory>>
      /\ gpr' = [gpr EXCEPT ![rt] = gpr'[rt]] /\ File(gpr') /\ gpr'[rt] \in Quad
      /\ Elem(gpr'[rt], WORD, 0) = v
  BY <1>3, <1>4, <1>5, <1>6, Immediate
<1>8. \A r \in Registers : r # rt => gpr'[r] = gpr[r]
  BY <1>5, <1>7 DEF File
<1>9. Going'
  <2>1. gpr'[A] = gpr[A] /\ gpr'[B] = gpr[B]
    BY <1>3, <1>8, SixRegisters
  <2>2. n < 15 /\ n # 15 /\ DOMAIN ls' = DOMAIN ls /\ DOMAIN staged' = DOMAIN staged
    BY <1>7
  <2> QED BY <1>7, <2>1, <2>2, GoesOn
<1>10. Prepared(lsa, get, put)'
  BY <1>1, <1>3, <1>7, <1>8, SixRegisters DEF Prepared, Word0, rt, v
<1>11. Described(lsa)'
  BY <1>1, <1>7 DEF Described
<1>12. Moved(lsa)'
  BY <1>1, <1>7 DEF Moved
<1> QED BY <1>9, <1>10, <1>11, <1>12

\* The transfer is described, and the tag to wait for is chosen.
LEMMA UpdateDescribes ==
  ASSUME NEW lsa \in Buffers, NEW get \in Gets, NEW put \in Puts, program = Update(lsa, get, put),
         Going, Prepared(lsa, get, put), Described(lsa), Moved(lsa), Step, n \in {1, 2, 3, 6}
  PROVE  Going' /\ Prepared(lsa, get, put)' /\ Described(lsa)' /\ Moved(lsa)'
<1> DEFINE ch == CASE n = 1 -> "MFC_LSA" [] n = 2 -> "MFC_EAL" [] n = 3 -> "MFC_Size"
                   [] n = 6 -> "MFC_WrTagMask"
           rt == CASE n = 1 -> U [] n = 2 -> A [] n = 3 -> B [] n = 6 -> B
           v  == CASE n = 1 -> lsa [] n = 2 -> Where [] n = 3 -> Much [] n = 6 -> Much
<1>1. /\ n' = n + 1 /\ Insn = program[n + 1] /\ program' = program /\ first' = first
      /\ Where' = Where /\ Much' = Much /\ Amount' = Amount /\ (InRam' <=> InRam)
      /\ ReadQuad' = ReadQuad /\ ChangedQuad' = ChangedQuad
  BY UpdateAt
<1>2. Insn = Channel("wrch", ch, rt)
  BY <1>1, UpdateCode
<1>3. ch \in Staging
  BY DEF Staging
<1>4. Word0(rt) = v
  BY DEF Prepared, Going, Word0, Where, Much
<1>5. Insn.op = "wrch" /\ Insn.ch = ch /\ Insn.rt = rt
  <2> HIDE DEF ch, rt
  <2> QED BY <1>2 DEF Channel
<1>6. /\ pc' = Sequential /\ UNCHANGED <<gpr, ls, running, memory>>
      /\ staged' = [staged EXCEPT ![ch] = v]
  <2> HIDE DEF ch, rt, v
  <2> QED BY <1>3, <1>4, <1>5, Staged
<1>7. /\ DOMAIN staged = Staging /\ DOMAIN staged' = Staging /\ staged'[ch] = v
      /\ \A c \in Staging : c # ch => staged'[c] = staged[c]
  <2> HIDE DEF ch, rt, v
  <2> QED BY <1>3, <1>6 DEF Going
<1>8. Going'
  <2> HIDE DEF ch, rt, v
  <2>1. n < 15 /\ n # 15 /\ DOMAIN ls' = DOMAIN ls /\ DOMAIN staged' = DOMAIN staged
    BY <1>6, <1>7
  <2>2. File(gpr)' /\ gpr'[A] = gpr[A] /\ gpr'[B] = gpr[B]
    BY <1>6 DEF Going, File
  <2> QED BY <1>6, <2>1, <2>2, GoesOn DEF File
<1>9. Prepared(lsa, get, put)'
  BY <1>1, <1>6 DEF Prepared, Word0
<1>10. Described(lsa)'
  BY <1>1, <1>7 DEF Described, Staging
<1>11. Moved(lsa)'
  BY <1>1, <1>6 DEF Moved
<1> QED BY <1>8, <1>9, <1>10, <1>11

\* The two commands.
LEMMA UpdateGets ==
  ASSUME NEW lsa \in Buffers, NEW get \in Gets, NEW put \in Puts, program = Update(lsa, get, put),
         Going, Prepared(lsa, get, put), Described(lsa), Moved(lsa), Step, n = 5
  PROVE  Going' /\ Prepared(lsa, get, put)' /\ Described(lsa)' /\ Moved(lsa)'
<1>1. /\ n' = n + 1 /\ Insn = program[n + 1] /\ program' = program /\ first' = first
      /\ Where' = Where /\ Much' = Much /\ Amount' = Amount /\ (InRam' <=> InRam)
      /\ ReadQuad' = ReadQuad /\ ChangedQuad' = ChangedQuad
  BY UpdateAt
<1>2. Insn = Channel("wrch", "MFC_Cmd", T)
  BY <1>1, UpdateCode
<1>3. Insn.op = "wrch" /\ Insn.ch = "MFC_Cmd" /\ Insn.rt = T
  BY <1>2 DEF Channel
<1>4. Word0(T) % 256 = get
  BY UpdateNumbers DEF Prepared
<1>5. /\ pc' = Sequential /\ UNCHANGED <<gpr, running, staged, posted>> /\ mfc_execute(get)
  BY <1>3, <1>4, Commanded
<1>6. /\ memory' = memory /\ DOMAIN ls' = 0 .. LS_SIZE - 1
      /\ InRam => \A k \in 0 .. Amount - 1 : ls'[lsa + k] = GuestPattern[Where + k]
  BY <1>5, GetReads DEF Moved
<1>7. Going'
  BY <1>5, <1>6, GoesOn DEF Going
<1>8. Prepared(lsa, get, put)'
  BY <1>1, <1>5 DEF Prepared, Word0
<1>9. Described(lsa)'
  BY <1>1, <1>5 DEF Described
<1>10. Moved(lsa)'
  BY <1>1, <1>5, <1>6 DEF Moved
<1> QED BY <1>7, <1>8, <1>9, <1>10

LEMMA UpdatePuts ==
  ASSUME NEW lsa \in Buffers, NEW get \in Gets, NEW put \in Puts, program = Update(lsa, get, put),
         Going, Prepared(lsa, get, put), Described(lsa), Moved(lsa), Step, n = 14
  PROVE  Going' /\ Prepared(lsa, get, put)' /\ Described(lsa)' /\ Moved(lsa)'
<1>1. /\ n' = n + 1 /\ Insn = program[n + 1] /\ program' = program /\ first' = first
      /\ Where' = Where /\ Much' = Much /\ Amount' = Amount
      /\ (InRam' <=> InRam) /\ (InIo' <=> InIo) /\ (NotRam' <=> NotRam)
      /\ ReadQuad' = ReadQuad /\ ChangedQuad' = ChangedQuad
  BY UpdateAt
<1>2. Insn = Channel("wrch", "MFC_Cmd", V)
  BY <1>1, UpdateCode
<1>3. Insn.op = "wrch" /\ Insn.ch = "MFC_Cmd" /\ Insn.rt = V
  BY <1>2 DEF Channel
<1>4. Word0(V) % 256 = put
  BY UpdateNumbers DEF Prepared
<1>5. /\ pc' = Sequential /\ UNCHANGED <<gpr, running, staged, posted>> /\ mfc_execute(put)
  BY <1>3, <1>4, Commanded
<1>6. /\ memory = GuestPattern
      /\ InRam => \A k \in 0 .. Amount - 1 :
                    ls[lsa + k] = IF k < QUAD THEN ChangedQuad[k] ELSE GuestPattern[Where + k]
  BY DEF Moved
<1>7. /\ DOMAIN ls' = 0 .. LS_SIZE - 1
      /\ InRam => memory' = [x \in Memory |->
                               IF x \in Where .. Where + QUAD - 1
                               THEN ChangedQuad[x - Where] ELSE GuestPattern[x]]
      /\ NotRam /\ ~InIo => memory' = GuestPattern
  BY <1>5, <1>6, PutWrites
<1>8. Going'
  BY <1>5, <1>7, GoesOn DEF Going
<1>9. Prepared(lsa, get, put)'
  BY <1>1, <1>5 DEF Prepared, Word0
<1>10. Described(lsa)'
  BY <1>1, <1>5 DEF Described
<1>11. Answered'
  BY <1>1, <1>7 DEF Answered
<1>12. Moved(lsa)'
  BY <1>1, <1>11 DEF Moved
<1> QED BY <1>8, <1>9, <1>10, <1>12

\* All transfers are done: the count is one, and the tags of the last write are read.
LEMMA UpdateWaits ==
  ASSUME NEW lsa \in Buffers, NEW get \in Gets, NEW put \in Puts, program = Update(lsa, get, put),
         Going, Prepared(lsa, get, put), Described(lsa), Moved(lsa), Step, n \in {7, 9}
  PROVE  Going' /\ Prepared(lsa, get, put)' /\ Described(lsa)' /\ Moved(lsa)'
<1> DEFINE v == IF n = 7 THEN 1 ELSE Much
<1>1. /\ n' = n + 1 /\ Insn = program[n + 1] /\ program' = program /\ first' = first
      /\ Where' = Where /\ Much' = Much /\ Amount' = Amount /\ (InRam' <=> InRam)
      /\ ReadQuad' = ReadQuad /\ ChangedQuad' = ChangedQuad
  BY UpdateAt
<1>2. v \in Int /\ (n = 7 => v % M = 1)
  <2>1. M \in Nat /\ M > 1 /\ Much \in Int
    BY SMTT(30), Widths DEF Going
  <2> QED BY <2>1
<1>3. /\ pc' = Sequential /\ UNCHANGED <<ls, running, staged, posted, memory>>
      /\ gpr' = [gpr EXCEPT ![V] = Preferred(v)]
  <2>1. CASE n = 7
    <3>1. Insn = Channel("rchcnt", "MFC_RdTagStat", V)
      BY <1>1, <2>1, UpdateCode
    <3>2. Insn.op = "rchcnt" /\ Insn.ch = "MFC_RdTagStat" /\ Insn.rt = V
      BY <3>1 DEF Channel
    <3>3. rchcnt(Insn)
      BY <3>2, StepRchcnt
    <3>4. Room("MFC_RdTagStat") = 1
      BY DEF Room
    <3> QED BY <2>1, <3>2, <3>3, <3>4 DEF rchcnt, Continues
  <2>2. CASE n = 9
    <3>1. Insn = Channel("rdch", "MFC_RdTagStat", V)
      BY <1>1, <2>2, UpdateCode
    <3>2. Insn.op = "rdch" /\ Insn.ch = "MFC_RdTagStat" /\ Insn.rt = V
      BY <3>1 DEF Channel
    <3>3. rdch(Insn)
      BY <3>2, StepRdch
    <3>4. ReadValue("MFC_RdTagStat") = Much /\ "MFC_RdTagStat" \notin Inbound
      BY <2>2 DEF ReadValue, Described, Inbound
    <3>5. running
      BY StepCounts
    <3>6. running' = TRUE
      BY <3>2, <3>3, <3>4 DEF rdch
    <3>7. running' = running
      BY <1>1, <3>5, <3>6, <2>2 DEF Going
    <3>8. pc' = Sequential /\ gpr' = [gpr EXCEPT ![V] = Preferred(Much)]
      BY <3>2, <3>3, <3>4 DEF rdch, Continues
    <3>9. UNCHANGED <<ls, staged, posted, memory>>
      BY <3>3 DEF rdch
    <3> QED BY <2>2, <3>7, <3>8, <3>9
  <2> QED BY <2>1, <2>2
<1>4. Preferred(v) \in Quad /\ Elem(Preferred(v), WORD, 0) = v % M
  BY <1>2, PreferredWord
<1> DEFINE q == Preferred(v)
<1> HIDE DEF q
<1>5. gpr' = [gpr EXCEPT ![V] = q] /\ q \in Quad /\ Elem(q, WORD, 0) = v % M
  BY <1>3, <1>4 DEF q
<1>6. /\ DOMAIN gpr = Registers /\ gpr = [r \in Registers |-> gpr[r]]
      /\ V \in Registers
  BY SixRegisters DEF Going, File
<1>7. /\ File(gpr') /\ gpr'[V] = q /\ \A r \in Registers : r # V => gpr'[r] = gpr[r]
  BY <1>5, <1>6 DEF File
<1> HIDE DEF v
<1>8. gpr'[A] = gpr[A] /\ gpr'[B] = gpr[B] /\ gpr'[T] = gpr[T] /\ gpr'[U] = gpr[U]
  BY <1>7, SixRegisters
<1>9. Going'
  <2>1. n < 15 /\ n # 15 /\ DOMAIN ls' = DOMAIN ls /\ DOMAIN staged' = DOMAIN staged
    BY <1>3
  <2> QED BY <1>3, <1>7, <1>8, <2>1, GoesOn
<1>10. Prepared(lsa, get, put)'
  BY <1>1, <1>2, <1>5, <1>7, <1>8 DEF Prepared, Word0
<1>11. Described(lsa)'
  BY <1>1, <1>3 DEF Described
<1>12. Moved(lsa)'
  BY <1>1, <1>3, <1>8 DEF Moved
<1> QED BY <1>9, <1>10, <1>11, <1>12

LEMMA UpdateBranches ==
  ASSUME NEW lsa \in Buffers, NEW get \in Gets, NEW put \in Puts, program = Update(lsa, get, put),
         Going, Prepared(lsa, get, put), Described(lsa), Moved(lsa), Step, n \in {8, 15}
  PROVE  Going' /\ Prepared(lsa, get, put)' /\ Described(lsa)' /\ Moved(lsa)'
<1>1. /\ n' = n + 1 /\ Insn = program[n + 1] /\ program' = program /\ first' = first
      /\ Where' = Where /\ Much' = Much /\ Amount' = Amount
      /\ (InRam' <=> InRam) /\ (InIo' <=> InIo) /\ (NotRam' <=> NotRam)
      /\ ReadQuad' = ReadQuad /\ ChangedQuad' = ChangedQuad
  BY UpdateAt
<1>2. /\ UNCHANGED <<gpr, ls, staged, posted, memory>>
      /\ (n = 8 => pc' = Sequential /\ running' = running) /\ (n = 15 => running' = FALSE)
  <2>1. CASE n = 8
    <3>1. Insn.op = "branch" /\ Insn.when = "z" /\ ~Insn.link /\ Insn.rt = V
      BY <1>1, <2>1, UpdateCode
    <3>2. Word0(V) # 0
      BY <2>1 DEF Prepared
    <3>3. ~Taken(Insn)
      BY <3>1, <3>2 DEF Taken
    <3> QED BY <2>1, <3>1, <3>3, StepBranch
  <2>2. CASE n = 15
    <3>1. Insn.op = "stop"
      BY <1>1, <2>2, UpdateCode DEF Stop
    <3> QED BY <2>2, <3>1, StepStop
  <2> QED BY <2>1, <2>2
<1>3. Going'
  <2>1. File(gpr') /\ gpr'[A] = gpr[A] /\ gpr'[B] = gpr[B]
    BY <1>2 DEF Going
  <2>2. /\ (n < 15 => n = 8) /\ DOMAIN ls' = DOMAIN ls /\ DOMAIN staged' = DOMAIN staged
    BY <1>2
  <2> QED BY <1>2, <2>1, <2>2, GoesOn
<1>4. Prepared(lsa, get, put)'
  BY <1>1, <1>2 DEF Prepared, Word0
<1>5. Described(lsa)'
  BY <1>1, <1>2 DEF Described
<1>6. n = 15 => Answered'
  BY <1>1, <1>2 DEF Moved, Answered
<1>7. Moved(lsa)'
  BY <1>1, <1>2, <1>6 DEF Moved
<1> QED BY <1>3, <1>4, <1>5, <1>7

\* The quadword is read, doubled and stored.
LEMMA UpdateReads ==
  ASSUME NEW lsa \in Buffers, NEW get \in Gets, NEW put \in Puts, program = Update(lsa, get, put),
         Going, Prepared(lsa, get, put), Described(lsa), Moved(lsa), Step, n = 10
  PROVE  Going' /\ Prepared(lsa, get, put)' /\ Described(lsa)' /\ Moved(lsa)'
<1>1. /\ n' = n + 1 /\ Insn = program[n + 1] /\ program' = program /\ first' = first
      /\ Where' = Where /\ Much' = Much /\ Amount' = Amount /\ (InRam' <=> InRam)
      /\ ReadQuad' = ReadQuad /\ ChangedQuad' = ChangedQuad
  BY UpdateAt
<1>2. Insn = lqd(T, U)
  BY <1>1, UpdateCode
<1>3. Insn.op = "lq" /\ Insn.form = "d" /\ Insn.rt = T /\ Insn.ra = U /\ Insn.imm = 0
  BY <1>2 DEF lqd, Ins
<1>4. lsa \in Nat /\ Aligned(lsa) = lsa /\ QUAD \in Nat /\ Bytes = 0 .. QUAD - 1
  BY UpdateNumbers
<1>5. EffectiveAddress(Insn) = lsa
  <2>1. Word0(U) + 0 * QUAD = lsa
    BY <1>4 DEF Prepared
  <2> QED BY <1>3, <1>4, <2>1 DEF EffectiveAddress
<1> DEFINE q == [k \in Bytes |-> ls[lsa + k]]
<1>6. /\ pc' = Sequential /\ gpr' = [gpr EXCEPT ![T] = q]
      /\ UNCHANGED <<ls, running, staged, posted, memory>>
  BY <1>3, <1>5, StepLoad
<1>7. InRam => q = ReadQuad
  <2>1. \A k \in Bytes : k \in 0 .. Amount - 1
    <3>1. Amount \in Nat /\ QUAD <= Amount
      BY Windows
    <3> QED BY <1>4, <3>1
  <2> QED BY <2>1 DEF Moved, ReadQuad
<1> HIDE DEF q
<1>8. /\ DOMAIN gpr = Registers /\ gpr = [r \in Registers |-> gpr[r]] /\ T \in Registers
  BY SixRegisters DEF Going, File
<1>9. /\ File(gpr') /\ gpr'[T] = q /\ \A r \in Registers : r # T => gpr'[r] = gpr[r]
  BY <1>6, <1>8 DEF File
<1>10. gpr'[A] = gpr[A] /\ gpr'[B] = gpr[B] /\ gpr'[V] = gpr[V] /\ gpr'[U] = gpr[U]
  BY <1>9, SixRegisters
<1>11. Going'
  <2>1. n < 15 /\ n # 15 /\ DOMAIN ls' = DOMAIN ls /\ DOMAIN staged' = DOMAIN staged
    BY <1>6
  <2> QED BY <1>6, <1>9, <1>10, <2>1, GoesOn
<1>12. Prepared(lsa, get, put)'
  BY <1>1, <1>10 DEF Prepared, Word0
<1>13. Described(lsa)'
  BY <1>1, <1>6 DEF Described
<1>14. Moved(lsa)'
  BY <1>1, <1>6, <1>7, <1>9 DEF Moved
<1> QED BY <1>11, <1>12, <1>13, <1>14

LEMMA UpdateDoubles ==
  ASSUME NEW lsa \in Buffers, NEW get \in Gets, NEW put \in Puts, program = Update(lsa, get, put),
         Going, Prepared(lsa, get, put), Described(lsa), Moved(lsa), Step, n = 11
  PROVE  Going' /\ Prepared(lsa, get, put)' /\ Described(lsa)' /\ Moved(lsa)'
<1>1. /\ n' = n + 1 /\ Insn = program[n + 1] /\ program' = program /\ first' = first
      /\ Where' = Where /\ Much' = Much /\ Amount' = Amount /\ (InRam' <=> InRam)
      /\ ReadQuad' = ReadQuad /\ ChangedQuad' = ChangedQuad
  BY UpdateAt
<1>2. Insn = RR("a", WORD, T, T, T)
  BY <1>1, UpdateCode
<1>3. /\ Insn.op = "a" /\ Insn.size = WORD /\ Insn.form = "RR" /\ Insn.rt = T
      /\ Insn.ra = T /\ Insn.rb = T
  BY <1>2 DEF RR, Ins
<1>4. T \in Registers /\ File(gpr)
  BY SixRegisters DEF Going
<1>5. /\ pc' = Sequential /\ UNCHANGED <<ls, running, staged, posted, memory>>
      /\ gpr' = [gpr EXCEPT ![T] = gpr'[T]] /\ File(gpr')
      /\ gpr'[T] = FromWords([i \in 0 .. WORDS - 1 |-> Elem(gpr[T], WORD, i)
                                                      + Elem(gpr[T], WORD, i)])
  BY <1>3, <1>4, Twice
<1>6. \A r \in Registers : r # T => gpr'[r] = gpr[r]
  BY <1>4, <1>5 DEF File
<1>7. gpr'[A] = gpr[A] /\ gpr'[B] = gpr[B] /\ gpr'[V] = gpr[V] /\ gpr'[U] = gpr[U]
  BY <1>6, SixRegisters
<1>8. ASSUME InRam PROVE gpr'[T] = ChangedQuad
  <2>1. gpr[T] = ReadQuad
    BY <1>8 DEF Moved
  <2>2. ReadQuad \in Quad
    <3>1. /\ Bytes = 0 .. QUAD - 1 /\ QUAD \in Nat /\ Amount \in Nat /\ QUAD <= Amount
          /\ \A k \in 0 .. Amount - 1 : Where + k \in RAM .. RAM_END - 1
      BY <1>8, UpdateNumbers, Windows
    <3>2. \A k \in Bytes : Where + k \in RAM .. RAM_END - 1
      BY <3>1
    <3>3. \A x \in RAM .. RAM_END - 1 : GuestPattern[x] \in Byte
      BY ChannelsAssumption DEF GuestPattern, Memory, Byte
    <3> QED BY <3>2, <3>3 DEF ReadQuad, Quad
  <2> QED BY <1>5, <2>1, <2>2, DoubledBytes DEF ReadQuad, ChangedQuad
<1>9. Going'
  <2>1. n < 15 /\ n # 15 /\ DOMAIN ls' = DOMAIN ls /\ DOMAIN staged' = DOMAIN staged
    BY <1>5
  <2> QED BY <1>5, <1>7, <2>1, GoesOn
<1>10. Prepared(lsa, get, put)'
  BY <1>1, <1>7 DEF Prepared, Word0
<1>11. Described(lsa)'
  BY <1>1, <1>5 DEF Described
<1>12. Moved(lsa)'
  BY <1>1, <1>5, <1>8 DEF Moved
<1> QED BY <1>9, <1>10, <1>11, <1>12

LEMMA UpdateStores ==
  ASSUME NEW lsa \in Buffers, NEW get \in Gets, NEW put \in Puts, program = Update(lsa, get, put),
         Going, Prepared(lsa, get, put), Described(lsa), Moved(lsa), Step, n = 12
  PROVE  Going' /\ Prepared(lsa, get, put)' /\ Described(lsa)' /\ Moved(lsa)'
<1>1. /\ n' = n + 1 /\ Insn = program[n + 1] /\ program' = program /\ first' = first
      /\ Where' = Where /\ Much' = Much /\ Amount' = Amount /\ (InRam' <=> InRam)
      /\ ReadQuad' = ReadQuad /\ ChangedQuad' = ChangedQuad
  BY UpdateAt
<1>2. Insn = stqd(T, U)
  BY <1>1, UpdateCode
<1>3. Insn.op = "stq" /\ Insn.form = "d" /\ Insn.rt = T /\ Insn.ra = U /\ Insn.imm = 0
  BY <1>2 DEF stqd, Ins
<1>4. /\ lsa \in Nat /\ Aligned(lsa) = lsa /\ QUAD \in Nat /\ LS_SIZE \in Nat
      /\ MAX_DMA \in Nat /\ lsa + MAX_DMA <= LS_SIZE
  BY UpdateNumbers
<1>5. EffectiveAddress(Insn) = lsa
  <2>1. Word0(U) + 0 * QUAD = lsa
    BY <1>4 DEF Prepared
  <2> QED BY <1>3, <1>4, <2>1 DEF EffectiveAddress
<1>6. /\ pc' = Sequential /\ UNCHANGED <<gpr, running, staged, posted, memory>>
      /\ ls' = [x \in DOMAIN ls |-> IF x \in lsa .. lsa + QUAD - 1
                                    THEN gpr[T][x - lsa] ELSE ls[x]]
  BY <1>3, <1>5, StepStore
<1>7. ASSUME InRam, NEW k \in 0 .. Amount - 1
      PROVE  ls'[lsa + k] = IF k < QUAD THEN ChangedQuad[k] ELSE GuestPattern[Where + k]
  <2>1. gpr[T] = ChangedQuad /\ ls[lsa + k] = GuestPattern[Where + k]
    BY <1>7 DEF Moved
  <2>2. Amount \in Nat /\ Amount <= MAX_DMA
    BY Windows
  <2>3. lsa + k \in 0 .. LS_SIZE - 1
    BY <1>4, <2>2
  <2>4. (lsa + k \in lsa .. lsa + QUAD - 1 <=> k < QUAD) /\ lsa + k - lsa = k
    BY <1>4, <2>2
  <2>5. DOMAIN ls = 0 .. LS_SIZE - 1
    BY DEF Going
  <2> DEFINE x == lsa + k
  <2>6. /\ x \in 0 .. LS_SIZE - 1 /\ (x \in lsa .. lsa + QUAD - 1 <=> k < QUAD) /\ x - lsa = k
        /\ ls[x] = GuestPattern[Where + k]
    BY <1>4, <2>1, <2>3, <2>4
  <2> HIDE DEF x
  <2>7. ls'[x] = IF k < QUAD THEN ChangedQuad[k] ELSE GuestPattern[Where + k]
    BY <1>6, <2>1, <2>5, <2>6
  <2> QED BY <2>7 DEF x
<1>8. Going'
  <2>1. n < 15 /\ n # 15 /\ DOMAIN ls' = DOMAIN ls /\ DOMAIN staged' = DOMAIN staged
    BY <1>6
  <2>2. File(gpr') /\ gpr'[A] = gpr[A] /\ gpr'[B] = gpr[B]
    BY <1>6 DEF Going
  <2> QED BY <1>6, <2>1, <2>2, GoesOn
<1>9. Prepared(lsa, get, put)'
  BY <1>1, <1>6 DEF Prepared, Word0
<1>10. Described(lsa)'
  BY <1>1, <1>6 DEF Described
<1>11. Moved(lsa)'
  BY <1>1, <1>6, <1>7 DEF Moved
<1> QED BY <1>8, <1>9, <1>10, <1>11

LEMMA UpdateSteps ==
  ASSUME NEW lsa \in Buffers, NEW get \in Gets, NEW put \in Puts, UpdateInv(lsa, get, put), Step
  PROVE  UpdateInv(lsa, get, put)'
<1> SUFFICES ASSUME program = Update(lsa, get, put)
             PROVE  Going' /\ Prepared(lsa, get, put)' /\ Described(lsa)' /\ Moved(lsa)'
  BY StepCounts DEF UpdateInv
<1>1. Going /\ Prepared(lsa, get, put) /\ Described(lsa) /\ Moved(lsa)
  BY DEF UpdateInv
<1>2. n \in 0 .. 15
  BY <1>1, UpdateAt
<1>3. CASE n \in {0, 4, 13}
  BY <1>1, <1>3, UpdateLoadsConstant
<1>4. CASE n \in {1, 2, 3, 6}
  BY <1>1, <1>4, UpdateDescribes
<1>5. CASE n = 5
  BY <1>1, <1>5, UpdateGets
<1>6. CASE n \in {7, 9}
  BY <1>1, <1>6, UpdateWaits
<1>7. CASE n \in {8, 15}
  BY <1>1, <1>7, UpdateBranches
<1>8. CASE n = 10
  BY <1>1, <1>8, UpdateReads
<1>9. CASE n = 11
  BY <1>1, <1>9, UpdateDoubles
<1>10. CASE n = 12
  BY <1>1, <1>10, UpdateStores
<1>11. CASE n = 14
  BY <1>1, <1>11, UpdatePuts
<1> QED BY <1>2, <1>3, <1>4, <1>5, <1>6, <1>7, <1>8, <1>9, <1>10, <1>11

\* Only Update begins with a write to a channel, and only Ask asks first.
LEMMA OnlyUpdateStages ==
  ASSUME Init, NEW lsa, NEW get, NEW put, program = Update(lsa, get, put)
  PROVE  \E buffer \in Buffers, at \in Counts, sz \in Transfers,
         g \in Gets \cup {65}, p \in Puts :
           Start(Update(buffer, g, p), Preferred(at), Preferred(sz))
<1>1. program[2].op = "wrch"
  BY DEF Update, Channel
<1>3. /\ WideAdd[2].op # "wrch" /\ WideSub[2].op # "wrch" /\ WordMultiply[2].op # "wrch"
      /\ Maximum[2].op # "wrch" /\ QuadLeft[2].op # "wrch" /\ QuadRight[2].op # "wrch"
      /\ QuadRotate[2].op # "wrch" /\ LoadWord[2].op # "wrch"
  BY DEF WideAdd, WideSub, WordMultiply, Maximum, QuadLeft, QuadRight, QuadRotate, LoadWord,
         RR, RI, RRR, lqd, Ins
<1>4. CallLoop[2].op # "wrch" /\ Ask[2].op # "wrch"
  BY DEF CallLoop, Ask, Branch
<1>5. \A size : /\ OddLanes(size)[2].op # "wrch" /\ Store(size)[2].op # "wrch"
               /\ TwoRotations(size)[2].op # "wrch"
  BY DEF OddLanes, Store, TwoRotations, RI, RR, Ins
<1>6. \A code, a, b : Start(code, a, b) => program = code
  BY DEF Start, Loaded
<1> HIDE DEF Init
<1> QED BY <1>1, <1>3, <1>4, <1>5, <1>6 DEF Init, ProgramInit

LEMMA UpdateStarts ==
  ASSUME Init, NEW lsa \in Buffers, NEW get \in Gets, NEW put \in Puts
  PROVE  UpdateInv(lsa, get, put)
<1> SUFFICES ASSUME program = Update(lsa, get, put)
             PROVE  Going /\ Prepared(lsa, get, put) /\ Described(lsa) /\ Moved(lsa)
  BY DEF UpdateInv
<1>1. PICK buffer \in Buffers, at \in Counts, sz \in Transfers,
         g \in Gets \cup {65}, p \in Puts :
         Start(Update(buffer, g, p), Preferred(at), Preferred(sz))
  BY OnlyUpdateStages
<1>2. Fresh
  BY InitFresh
<1>3. at \in 0 .. M - 1 /\ sz \in 0 .. M - 1 /\ M \in Nat /\ M > 0
  BY IdiomAssumption, Widths, SMTT(30)
<1>4. at % M = at /\ sz % M = sz
  BY <1>3
<1>5. gpr[A] = Preferred(at) /\ gpr[B] = Preferred(sz) /\ first.gpr = gpr
  BY <1>1, SixRegisters DEF Start, Loaded
<1>6. Where = at /\ Much = sz
  <2>1. Elem(Preferred(at), WORD, 0) = at /\ Elem(Preferred(sz), WORD, 0) = sz
    BY <1>3, <1>4, PreferredWord
  <2> QED BY <1>5, <2>1 DEF Where, Much
<1>7. Amount >= QUAD
  <2>1. sz >= QUAD /\ MAX_DMA >= QUAD
    BY IdiomAssumption
  <2> QED BY <1>6, <2>1 DEF Amount, Cut
<1>8. n = 0 /\ pc = 0 * WORD /\ running
  BY <1>2, SpuAssumption DEF Fresh
<1>9. Going
  BY <1>2, <1>3, <1>5, <1>6, <1>7, <1>8 DEF Going, Fresh, File
<1>10. Prepared(lsa, get, put)
  BY <1>2, <1>8, SixRegisters DEF Prepared, Fresh
<1>11. Described(lsa) /\ Moved(lsa)
  BY <1>2, <1>8 DEF Described, Moved, Fresh
<1> QED BY <1>9, <1>10, <1>11

\* A question and the wait for its answer.
AskInv ==
  program = Ask =>
    /\ n \in 0 .. 4 /\ pc = n * WORD /\ (running <=> n < 4) /\ File(gpr)
    /\ posted = IF n < 3 THEN 0 ELSE 1
    /\ n = 1 => Word0(T) = 1

LEMMA AskSteps ==
  ASSUME AskInv, Step, program = Ask
  PROVE  AskInv'
<1>1. n' = n + 1 /\ program' = program /\ running
  BY StepCounts
<1>2. n \in 0 .. 3 /\ pc = n * WORD /\ File(gpr)
  BY <1>1 DEF AskInv
<1>3. /\ Len(program) = 5 /\ program[1] = Channel("rchcnt", "SPU_WrOutMbox", T)
      /\ program[2].op = "branch" /\ program[2].when = "z" /\ ~program[2].link
      /\ program[2].rt = T
      /\ program[3] = Channel("wrch", "SPU_WrOutMbox", A)
      /\ program[4] = Channel("rdch", "SPU_RdInMbox", T)
  BY DEF Ask, Branch
<1>4. Insn = program[n + 1] /\ Sequential = (n + 1) * WORD
  BY <1>2, <1>3, InsnAt
<1>5. CASE n = 0
  <2>1. Insn.op = "rchcnt" /\ Insn.ch = "SPU_WrOutMbox" /\ Insn.rt = T
    BY <1>3, <1>4, <1>5 DEF Channel
  <2>2. rchcnt(Insn)
    BY <2>1, StepRchcnt
  <2>3. Room("SPU_WrOutMbox") = 1
    BY <1>5 DEF Room, AskInv
  <2>4. /\ pc' = Sequential /\ gpr' = [gpr EXCEPT ![T] = Preferred(1)]
        /\ UNCHANGED <<running, posted>>
    BY <2>1, <2>2, <2>3 DEF rchcnt, Continues
  <2>5. Elem(Preferred(1), WORD, 0) = 1
    <3>1. M \in Nat /\ M > 1 /\ 1 % M = 1
      BY Widths
    <3> QED BY <3>1, PreferredWord
  <2>6. File(gpr') /\ gpr'[T] = Preferred(1)
    BY <1>2, <2>4, SixRegisters DEF File
  <2> QED BY <1>1, <1>2, <1>4, <1>5, <2>4, <2>5, <2>6 DEF AskInv, Word0
<1>6. CASE n = 1
  <2>1. Insn.op = "branch" /\ Insn.when = "z" /\ ~Insn.link /\ Insn.rt = T
    BY <1>3, <1>4, <1>6
  <2>2. ~Taken(Insn)
    BY <1>6, <2>1 DEF Taken, AskInv
  <2>3. pc' = Sequential /\ UNCHANGED <<gpr, running, posted>>
    BY <2>1, <2>2, StepBranch
  <2> QED BY <1>1, <1>2, <1>4, <1>6, <2>3 DEF AskInv
<1>7. CASE n = 2
  <2>1. Insn.op = "wrch" /\ Insn.ch = "SPU_WrOutMbox"
    BY <1>3, <1>4, <1>7 DEF Channel
  <2>2. pc' = Sequential /\ UNCHANGED <<gpr, running>> /\ posted' = 1
    BY <2>1, Staged
  <2> QED BY <1>1, <1>2, <1>4, <1>7, <2>2 DEF AskInv
<1>8. CASE n = 3
  <2>1. Insn.op = "rdch" /\ Insn.ch = "SPU_RdInMbox" /\ Insn.rt = T
    BY <1>3, <1>4, <1>8 DEF Channel
  <2>2. rdch(Insn)
    BY <2>1, StepRdch
  <2>3. /\ pc' = Sequential /\ running' = FALSE /\ posted' = posted
        /\ gpr' = [gpr EXCEPT ![T] = Preferred(ReadValue("SPU_RdInMbox"))]
    BY <2>1, <2>2 DEF rdch, Continues, Inbound
  <2>4. File(gpr')
    BY <1>2, <2>3, SixRegisters DEF File
  <2> QED BY <1>1, <1>2, <1>4, <1>8, <2>3, <2>4 DEF AskInv
<1> QED BY <1>2, <1>5, <1>6, <1>7, <1>8

\* A program that reads a range of guest memory, changes a quadword of it and writes
\* it back with the registers of the channels as the read left them changes that
\* quadword and no other byte; what is not memory is left alone; a question is sent
\* once, and the wait for its answer stops the program (spu_interp.cpp:138-283).
THEOREM ChannelsAreServed == Spec => []ChannelsServe
<1> DEFINE AllUpdates == \A lsa \in Buffers, get \in Gets, put \in Puts : UpdateInv(lsa, get, put)
<1>1. Init => AllUpdates /\ AskInv
  <2>1. ASSUME Init PROVE AskInv
    <3>1. Fresh
      BY <2>1, InitFresh
    <3>2. pc = 0 * WORD
      BY <3>1, SpuAssumption DEF Fresh
    <3> QED BY <3>1, <3>2 DEF Fresh, AskInv, File
  <2> QED BY <2>1, UpdateStarts
<1>2. AllUpdates /\ AskInv /\ [Step]_channelVars => (AllUpdates /\ AskInv)'
  <2>1. ASSUME AllUpdates, AskInv, UNCHANGED channelVars PROVE (AllUpdates /\ AskInv)'
    <3>1. ASSUME NEW lsa \in Buffers, NEW get \in Gets, NEW put \in Puts
          PROVE  UpdateInv(lsa, get, put)'
      <4>1. UpdateInv(lsa, get, put)
        BY <2>1
      <4>2. /\ UNCHANGED <<gpr, ls, pc, running, n, program, first, staged, posted, memory>>
            /\ Where' = Where /\ Much' = Much
        BY <2>1 DEF channelVars, vars, Where, Much
      <4>3. Amount' = Amount
        BY <4>2 DEF Amount, Cut
      <4>4. /\ (InRam' <=> InRam) /\ (InIo' <=> InIo) /\ (NotRam' <=> NotRam)
            /\ ReadQuad' = ReadQuad /\ ChangedQuad' = ChangedQuad
        BY <4>2, <4>3 DEF InRam, InIo, NotRam, ReadQuad, ChangedQuad, Doubled
      <4>5. (Going' <=> Going) /\ (Described(lsa)' <=> Described(lsa))
        BY <4>2, <4>3 DEF Going, Described, File
      <4>6. Prepared(lsa, get, put)' <=> Prepared(lsa, get, put)
        BY <4>2 DEF Prepared, Word0
      <4>7. Moved(lsa)' <=> Moved(lsa)
        <5>1. Answered' <=> Answered
          BY <4>2, <4>4 DEF Answered
        <5> QED BY <4>2, <4>3, <4>4, <5>1 DEF Moved
      <4>8. program' = program
        BY <4>2
      <4> QED BY <4>1, <4>5, <4>6, <4>7, <4>8 DEF UpdateInv
    <3>2. AskInv'
      BY <2>1 DEF AskInv, File, Word0, channelVars, vars
    <3> QED BY <3>1, <3>2
  <2>2. ASSUME AllUpdates, AskInv, Step PROVE (AllUpdates /\ AskInv)'
    <3>1. AskInv'
      BY <2>2, AskSteps, StepCounts DEF AskInv
    <3> QED BY <2>2, <3>1, UpdateSteps
  <2> QED BY <2>1, <2>2
<1>3. AllUpdates /\ AskInv => ChannelsServe
  <2> SUFFICES ASSUME AllUpdates, AskInv PROVE ChannelsServe
    OBVIOUS
  <2>1. ASSUME NEW lsa \in Buffers, NEW get \in Gets, NEW put \in Puts,
               program = Update(lsa, get, put), Halted
        PROVE  Answered /\ Where \in Nat /\ Amount \in Nat
    <3>1. Going /\ Moved(lsa) /\ Described(lsa)
      BY <2>1 DEF UpdateInv
    <3>2. n = 16
      <4>1. n \in 0 .. 16 /\ (running <=> n < 16)
        BY <3>1 DEF Going
      <4>2. MaxInsns \in Nat /\ 16 <= MaxInsns
        BY SpuAssumption, IdiomAssumption
      <4> QED BY <2>1, <4>1, <4>2 DEF Halted
    <3>3. n >= 15 /\ n >= 4
      BY <3>2
    <3> QED BY <3>1, <3>3, Windows DEF Moved
  <2>2. ASSUME program = Ask, Halted PROVE ~running /\ pc = 4 * WORD /\ posted = 1
    <3>1. n = 4
      BY <2>2, SpuAssumption, IdiomAssumption DEF Halted, AskInv
    <3> QED BY <2>2, <3>1 DEF AskInv
  <2> QED BY <2>1, <2>2 DEF ChannelsServe, Answered, InRam, NotRam, InIo, Amount, Much, Where,
            ChangedQuad, W
<1> HIDE DEF AllUpdates
<1> QED BY <1>1, <1>2, <1>3, PTL DEF Spec

(***************************************************************************)
(* Products of words.                                                      *)
(***************************************************************************)
\* Numbers modulo the words.
LEMMA Modulo ==
  ASSUME NEW p \in Int, NEW q \in Int
  PROVE  /\ ((p % M) + (q % M)) % M = (p + q) % M
         /\ ((p % M) + q) % M = (p + q) % M
         /\ (256 * (p % M) + q) % M = (256 * p + q) % M
         /\ (p + M * q) % M = p % M
         /\ 0 <= p /\ p < M => p % M = p
         /\ p % M \in Int
<1>1. CASE WORD = 2
  <2>1. M = 256 * 256
    BY <1>1, Widths
  <2>2. ((p % (256 * 256)) + q) % (256 * 256) = (p + q) % (256 * 256)
    OBVIOUS
  <2>3. ((p % (256 * 256)) + (q % (256 * 256))) % (256 * 256) = (p + q) % (256 * 256)
    OBVIOUS
  <2>4. (256 * (p % (256 * 256)) + q) % (256 * 256) = (256 * p + q) % (256 * 256)
    OBVIOUS
  <2>5. (p + (256 * 256) * q) % (256 * 256) = p % (256 * 256)
    OBVIOUS
  <2>6. p >= 0 /\ p < 256 * 256 => p % (256 * 256) = p
    OBVIOUS
  <2>7. p % (256 * 256) \in Int
    OBVIOUS
  <2> QED BY <2>1, <2>2, <2>3, <2>4, <2>5, <2>6, <2>7
<1>2. CASE WORD = 4
  <2>1. M = 256 * 256 * 256 * 256
    BY <1>2, Widths
  <2>2. ((p % (256 * 256 * 256 * 256)) + q) % (256 * 256 * 256 * 256) = (p + q) % (256 * 256 * 256 * 256)
    OBVIOUS
  <2>3. ((p % (256 * 256 * 256 * 256)) + (q % (256 * 256 * 256 * 256))) % (256 * 256 * 256 * 256) = (p + q) % (256 * 256 * 256 * 256)
    OBVIOUS
  <2>4. (256 * (p % (256 * 256 * 256 * 256)) + q) % (256 * 256 * 256 * 256) = (256 * p + q) % (256 * 256 * 256 * 256)
    OBVIOUS
  <2>5. (p + (256 * 256 * 256 * 256) * q) % (256 * 256 * 256 * 256) = p % (256 * 256 * 256 * 256)
    OBVIOUS
  <2>6. p >= 0 /\ p < 256 * 256 * 256 * 256 => p % (256 * 256 * 256 * 256) = p
    OBVIOUS
  <2>7. p % (256 * 256 * 256 * 256) \in Int
    OBVIOUS
  <2> QED BY <2>1, <2>2, <2>3, <2>4, <2>5, <2>6, <2>7
<1> QED BY <1>1, <1>2, Widths

\* A product, and a product made with one byte less of the second factor and that byte.
Times(x, u)       == (x * u) % M
Appended(x, s, v) == (256 * s + x * v) % M

LEMMA OneMoreByte ==
  ASSUME NEW x \in Int, NEW u \in Int, NEW v \in Int
  PROVE  Appended(x, Times(x, u), v) = Times(x, 256 * u + v)
<1> DEFINE p == x * u
           q == x * v
<1>1. p \in Int /\ q \in Int /\ x * (256 * u + v) = 256 * p + q
  OBVIOUS
<1> HIDE DEF p, q
<1>2. (256 * (p % M) + q) % M = (256 * p + q) % M
  BY <1>1, Modulo
<1> QED BY <1>1, <1>2 DEF p, q, Times, Appended

LEMMA FirstByte == ASSUME NEW x \in Int, NEW v \in Int PROVE Appended(x, 0, v) = Times(x, v)
BY DEF Appended, Times

\* The product made byte by byte is the product.
LEMMA ProductIs ==
  ASSUME NEW x \in Int, NEW y \in 0 .. M - 1
  PROVE  Product(x, y) = (x * y) % M
<1> DEFINE byte(k) == (y \div Weight(WORD - k)) % 256
           v1 == (256 * 0 + x * byte(1)) % M
           v2 == (256 * v1 + x * byte(2)) % M
           v3 == (256 * v2 + x * byte(3)) % M
           v4 == (256 * v3 + x * byte(4)) % M
           w  == [k \in 0 .. WORD |->
                    CASE k = 0 -> 0 [] k = 1 -> v1 [] k = 2 -> v2 [] k = 3 -> v3 [] k = 4 -> v4]
           Is(v) == v = [k \in 0 .. WORD |-> IF k = 0 THEN 0
                           ELSE (256 * v[k - 1] + x * ((y \div Weight(WORD - k)) % 256)) % M]
           value == CHOOSE v : Is(v)
<1>1. Is(w)
  <2> DEFINE F(k) == IF k = 0 THEN 0
                     ELSE (256 * w[k - 1] + x * ((y \div Weight(WORD - k)) % 256)) % M
  <2>1. ASSUME NEW k \in 0 .. WORD PROVE w[k] = F(k)
    <3>1. k \in {0, 1, 2, 3, 4} /\ (k # 0 => k - 1 \in 0 .. WORD)
      BY Widths
    <3> QED BY <3>1
  <2>2. w = [k \in 0 .. WORD |-> F(k)]
    <3> HIDE DEF F, v1, v2, v3, v4
    <3> SUFFICES ASSUME NEW k \in 0 .. WORD PROVE w[k] = F(k)
      BY ZenonT(40)
    <3> QED BY <2>1
  <2> HIDE DEF w
  <2> QED BY <2>2
<1>2. Is(value)
  BY <1>1
<1>3. Product(x, y) = value[WORD]
  BY DEF Product
<1>4. value[0] = 0 /\ \A k \in 1 .. WORD : value[k] = (256 * value[k - 1] + x * byte(k)) % M
  <2> HIDE DEF value
  <2>1. value = [k \in 0 .. WORD |-> IF k = 0 THEN 0
           ELSE (256 * value[k - 1] + x * ((y \div Weight(WORD - k)) % 256)) % M]
    BY <1>2
  <2> HIDE DEF byte
  <2>2. value = [k \in 0 .. WORD |-> IF k = 0 THEN 0
                                     ELSE (256 * value[k - 1] + x * byte(k)) % M]
    BY <2>1 DEF byte
  <2>3. \A k \in 0 .. WORD : value[k] = IF k = 0 THEN 0
                                        ELSE (256 * value[k - 1] + x * byte(k)) % M
    BY <2>2
  <2> QED BY <2>3, Widths
<1> HIDE DEF value, Is, w
<1>5. y \in Int /\ y % M = y
  <2>1. y \in Int /\ 0 <= y /\ y < M
    BY Widths
  <2> QED BY <2>1, Modulo
<1>6. ASSUME NEW k \in 1 .. WORD PROVE byte(k) \in Int
  <2> DEFINE j == WORD - k
  <2>1. j \in 0 .. WORD - 1
    BY Widths
  <2> HIDE DEF j
  <2>2. (y \div Weight(j)) % 256 \in Byte
    BY <1>5, <2>1, ByteOf
  <2> QED BY <2>2 DEF j, Byte
<1>7. CASE WORD = 2
  <2> DEFINE b1 == byte(1)
             b2 == byte(2)
  <2>0. b1 \in Int /\ b2 \in Int
    BY <1>6, <1>7
  <2>1. b1 = (y \div 256) % 256 /\ b2 = (y \div 1) % 256
    BY <1>7, Widths
  <2>2. value[1] = Appended(x, 0, b1) /\ value[2] = Appended(x, value[1], b2)
    BY <1>4, <1>7 DEF Appended
  <2> HIDE DEF b1, b2
  <2>3. y = 256 * b1 + b2
    <3>1. M = 256 * 256
      BY <1>7, Widths
    <3> QED BY ZenonT(40), <1>5, <2>1, <3>1, TwoBytes
  <2>4. value[2] = Times(x, 256 * b1 + b2)
    BY <2>0, <2>2, OneMoreByte, FirstByte
  <2>5. value[2] = Times(x, y)
    BY <2>3, <2>4
  <2> QED BY <1>3, <1>7, <2>5 DEF Times
<1>8. CASE WORD = 4
  <2> DEFINE b1 == byte(1)
             b2 == byte(2)
             b3 == byte(3)
             b4 == byte(4)
  <2>0. b1 \in Int /\ b2 \in Int /\ b3 \in Int /\ b4 \in Int
    BY <1>6, <1>8
  <2>1. /\ b1 = (y \div (256 * 256 * 256)) % 256 /\ b2 = (y \div (256 * 256)) % 256
        /\ b3 = (y \div 256) % 256 /\ b4 = (y \div 1) % 256
    <3>1. WORD - 1 = 3 /\ WORD - 2 = 2 /\ WORD - 3 = 1 /\ WORD - 4 = 0
      BY <1>8
    <3> QED BY <3>1, Widths, SMTT(30)
  <2>2. /\ value[1] = Appended(x, 0, b1) /\ value[2] = Appended(x, value[1], b2)
        /\ value[3] = Appended(x, value[2], b3) /\ value[4] = Appended(x, value[3], b4)
    BY <1>4, <1>8 DEF Appended
  <2> HIDE DEF b1, b2, b3, b4
  <2> DEFINE u2 == 256 * b1 + b2
             u3 == 256 * u2 + b3
  <2>3. y = 256 * u3 + b4
    <3>1. M = 256 * 256 * 256 * 256
      BY <1>8, Widths
    <3>2. 256 * (256 * (256 * ((y \div (256 * 256 * 256)) % 256) + ((y \div (256 * 256)) % 256))
                   + ((y \div 256) % 256)) + ((y \div 1) % 256) = y % (256 * 256 * 256 * 256)
      BY <1>5, FourBytes
    <3>3. 256 * (256 * (256 * b1 + b2) + b3) + b4 = y
      <4>1. 256 * (256 * (256 * b1 + b2) + b3) + b4 = y % (256 * 256 * 256 * 256)
        BY <2>1, <3>2
      <4> QED BY <1>5, <3>1, <4>1
    <3> QED BY <3>3
  <2>4. value[2] = Times(x, u2) /\ u2 \in Int
    BY <2>0, <2>2, OneMoreByte, FirstByte
  <2> HIDE DEF u2
  <2>5. value[3] = Times(x, u3) /\ u3 \in Int
    <3>1. Appended(x, Times(x, u2), b3) = Times(x, 256 * u2 + b3)
      BY <2>0, <2>4, OneMoreByte
    <3>2. u3 \in Int
      BY <2>0, <2>4
    <3> QED BY <2>2, <2>4, <3>1, <3>2
  <2> HIDE DEF u3
  <2>6. value[4] = Times(x, 256 * u3 + b4)
    <3>1. Appended(x, Times(x, u3), b4) = Times(x, 256 * u3 + b4)
      BY <2>0, <2>5, OneMoreByte
    <3> QED BY <2>2, <2>5, <3>1
  <2>7. value[4] = Times(x, y)
    BY <2>3, <2>6
  <2> QED BY <1>3, <1>8, <2>7 DEF Times
<1> QED BY <1>7, <1>8, Widths

\* A product of signed halves differs from that of the halves by what the high
\* half of a word cannot hold.
LEMMA SignedHalves ==
  ASSUME NEW u \in Int, NEW v \in Int
  PROVE  /\ Signed(u, HALF) * Signed(v, HALF) * Weight(HALF) \in Int
         /\ (Signed(u, HALF) * Signed(v, HALF) * Weight(HALF)) % M = ((u * v) * Weight(HALF)) % M
<1> DEFINE H == Weight(HALF)
<1>1. H \in Int /\ M = H * H
  BY Widths
<1>2. PICK s \in {0, 1} : Signed(u, HALF) = u - H * s
  BY <1>1 DEF Signed
<1>3. PICK t \in {0, 1} : Signed(v, HALF) = v - H * t
  BY <1>1 DEF Signed
<1> HIDE DEF H
<1> DEFINE k == (H * s) * t - (u * t + v * s)
           p == (u * v) * H
<1>4. (u - H * s) * (v - H * t) * H = p + M * k /\ k \in Int /\ p \in Int
  <2>1. CASE s = 0 /\ t = 0
    BY <1>1, <2>1
  <2>2. CASE s = 0 /\ t = 1
    BY <1>1, <2>2
  <2>3. CASE s = 1 /\ t = 0
    BY <1>1, <2>3
  <2>4. CASE s = 1 /\ t = 1
    BY <1>1, <2>4
  <2> QED BY <2>1, <2>2, <2>3, <2>4
<1>5. Signed(u, HALF) * Signed(v, HALF) * H = p + M * k
  BY <1>2, <1>3, <1>4
<1> HIDE DEF k, p
<1>6. (p + M * k) % M = p % M
  BY <1>4, Modulo
<1>7. p + M * k \in Int
  BY <1>1, <1>4
<1> QED BY <1>5, <1>6, <1>7 DEF p, H

\* A word is made of two halves.
LEMMA Halves ==
  ASSUME NEW x \in Int
  PROVE  High(x) \in Int /\ Low(x) \in Int /\ x = Weight(HALF) * High(x) + Low(x)
<1>1. CASE WORD = 2
  <2>1. Weight(HALF) = 256
    BY <1>1, Widths
  <2> QED BY <2>1 DEF High, Low
<1>2. CASE WORD = 4
  <2>1. Weight(HALF) = 256 * 256
    BY <1>2, Widths
  <2> QED BY <2>1 DEF High, Low
<1> QED BY <1>1, <1>2, Widths

\* What two mpyh, one mpyu and two additions make of a pair of words.
LEMMA PartsAddUp ==
  ASSUME NEW x \in Int, NEW y \in Int
  PROVE  ((((Mpyh(x, y) % M) + (Mpyh(y, x) % M)) % M) + ((Low(x) * Low(y)) % M)) % M = (x * y) % M
<1> DEFINE H  == Weight(HALF)
           xh == High(x)
           xl == Low(x)
           yh == High(y)
           yl == Low(y)
           p  == (xh * yl) * H
           q  == (yh * xl) * H
           r  == xl * yl
           z  == xh * yh
<1>1. H \in Int /\ M = H * H
  BY Widths
<1>2. /\ xh \in Int /\ xl \in Int /\ yh \in Int /\ yl \in Int
      /\ x = H * xh + xl /\ y = H * yh + yl
  BY Halves
<1>3. Mpyh(x, y) % M = p % M /\ Mpyh(y, x) % M = q % M
  BY <1>2, SignedHalves DEF Mpyh
<1> HIDE DEF H, xh, xl, yh, yl
<1>4. p \in Int /\ q \in Int /\ r \in Int /\ z \in Int
  BY <1>1, <1>2
<1>5. x * y = ((p + q) + r) + M * z
  <2>1. (H * xh + xl) * (H * yh + yl) = ((p + q) + r) + (H * H) * z
    BY <1>1, <1>2
  <2> QED BY <1>1, <1>2, <2>1
<1> HIDE DEF p, q, r, z
<1>6. ((p % M) + (q % M)) % M = (p + q) % M /\ p + q \in Int
  BY <1>4, Modulo
<1> DEFINE s == p + q
<1>7. s \in Int
  BY <1>6
<1> HIDE DEF s
<1>8. ((s % M) + (r % M)) % M = (s + r) % M /\ s + r \in Int
  BY <1>4, <1>7, Modulo
<1> DEFINE t == s + r
<1>9. t \in Int
  BY <1>8
<1> HIDE DEF t
<1>10. (t + M * z) % M = t % M
  BY <1>4, <1>9, Modulo
<1> QED BY <1>3, <1>5, <1>6, <1>8, <1>10 DEF s, t, r, xl, yl

\* A multiplication of halves, word by word.
LEMMA Multiplication ==
  ASSUME gpr \in [Registers -> Quad], Step, Insn.op \in {"mpyh", "mpyu"}, Insn.size = WORD,
         Insn.rt \in Registers, Insn.ra \in Registers, Insn.rb \in Registers, Insn.form = "RR"
  PROVE  /\ gpr' \in [Registers -> Quad]
         /\ \A r \in Registers : r # Insn.rt => gpr'[r] = gpr[r]
         /\ pc' = Sequential /\ UNCHANGED <<ls, running, staged, posted, memory>>
         /\ \A i \in 0 .. WORDS - 1 :
              LET x == Elem(gpr[Insn.ra], WORD, i)
                  y == Elem(gpr[Insn.rb], WORD, i)
              IN Elem(gpr'[Insn.rt], WORD, i) =
                   (IF Insn.op = "mpyh" THEN Mpyh(x, y) ELSE Low(x) * Low(y)) % M
<1> DEFINE x(i) == Elem(gpr[Insn.ra], WORD, i)
           y(i) == Elem(gpr[Insn.rb], WORD, i)
           lane(i) == IF Insn.op = "mpyh" THEN Mpyh(x(i), y(i)) ELSE Low(x(i)) * Low(y(i))
           w == [i \in 0 .. WORDS - 1 |-> lane(i)]
<1>1. Insn.op \in ElementOps
  BY DEF ElementOps, MultiplyOps
<1>2. ASSUME NEW i \in 0 .. WORDS - 1 PROVE Lane(gpr, Insn, i) = lane(i) /\ lane(i) \in Int
  <2>1. Operand(gpr, Insn, i) = y(i)
    BY DEF Operand
  <2>2. x(i) \in Int /\ y(i) \in Int
    <3>1. M \in Nat
      BY Widths
    <3>2. x(i) \in 0 .. M - 1 /\ y(i) \in 0 .. M - 1
      BY ElemInRange
    <3> HIDE DEF x, y
    <3> QED BY <3>1, <3>2
  <2> HIDE DEF x, y
  <2>3. \A u, v, t, size : /\ Element("mpyh", u, v, t, size) = Mpyh(u, v)
                           /\ Element("mpyu", u, v, t, size) = Low(u) * Low(v)
    BY DEF Element, LogicOps, ArithmeticOps, CompareOps, MultiplyOps, ShiftOps, UnaryOps,
           Multiply
  <2>4. /\ High(x(i)) \in Int /\ Low(x(i)) \in Int /\ High(y(i)) \in Int /\ Low(y(i)) \in Int
    BY <2>2, Halves
  <2>5. Mpyh(x(i), y(i)) \in Int
    BY <2>4, SignedHalves DEF Mpyh
  <2>6. Low(x(i)) * Low(y(i)) \in Int
    BY <2>4
  <2>7. Lane(gpr, Insn, i) = Element(Insn.op, x(i), y(i), Elem(gpr[Insn.rt], WORD, i), WORD)
    BY <2>1 DEF Lane, x
  <2> QED BY <2>3, <2>5, <2>6, <2>7
<1> HIDE DEF lane
<1>3. w \in [0 .. WORDS - 1 -> Int] /\ \A i \in 0 .. WORDS - 1 : Lane(gpr, Insn, i) = w[i]
  BY <1>2
<1>4. \A i \in 0 .. WORDS - 1 : w[i] = lane(i)
  OBVIOUS
<1> HIDE DEF w
<1>5. /\ pc' = Sequential /\ UNCHANGED <<ls, running, staged, posted, memory>>
      /\ File(gpr') /\ gpr'[Insn.rt] \in Quad
      /\ \A r \in Registers : r # Insn.rt => gpr'[r] = gpr[r]
      /\ \A i \in 0 .. WORDS - 1 : Elem(gpr'[Insn.rt], WORD, i) = w[i] % M
  BY <1>1, <1>3, FileOfQuads, WordInstruction
<1>6. gpr' \in [Registers -> Quad]
  BY <1>5, FileOfQuads
<1> QED BY <1>4, <1>5, <1>6 DEF lane

\* How far a multiplication has got: the parts, and their sum.
ProductInv ==
  program = WordMultiply =>
    /\ At(6) /\ gpr \in [Registers -> Quad]
    /\ gpr[A] = first.gpr[A] /\ gpr[B] = first.gpr[B]
    /\ \A i \in 0 .. WORDS - 1 :
         LET x == W(first.gpr[A], i)
             y == W(first.gpr[B], i)
             s == ((Mpyh(x, y) % M) + (Mpyh(y, x) % M)) % M
             u == (Low(x) * Low(y)) % M
         IN /\ n \in 1 .. 3 => W(gpr[T], i) = Mpyh(x, y) % M
            /\ n \in 2 .. 3 => W(gpr[U], i) = Mpyh(y, x) % M
            /\ n \in 3 .. 4 => W(gpr[V], i) = u
            /\ n = 4 => W(gpr[T], i) = s
            /\ n \in 5 .. 6 => W(gpr[T], i) = (s + u) % M

LEMMA ProductsRun == Spec => []ProductInv
<1>1. Init => ProductInv
  <2> SUFFICES ASSUME Init PROVE At(6) /\ gpr \in [Registers -> Quad] /\ gpr = first.gpr /\ n = 0
    BY DEF ProductInv
  <2> QED BY InitFresh, StartAt DEF Fresh
<1>2. ProductInv /\ [Step]_channelVars => ProductInv'
  <2>1. CASE UNCHANGED channelVars
    BY <2>1 DEF ProductInv, channelVars, vars, At, W
  <2>2. ASSUME ProductInv, Step, program = WordMultiply
        PROVE  ProductInv'
    <3>1. /\ Len(program) = 6 /\ program[1] = RR("mpyh", WORD, T, A, B)
          /\ program[2] = RR("mpyh", WORD, U, B, A) /\ program[3] = RR("mpyu", WORD, V, A, B)
          /\ program[4] = RR("a", WORD, T, T, U) /\ program[5] = RR("a", WORD, T, T, V)
          /\ program[6] = Stop
      BY <2>2 DEF WordMultiply
    <3>2. Insn = program[n + 1] /\ n \in 0 .. 5 /\ At(6)
      BY <2>2, <3>1, InsnOf DEF ProductInv
    <3>3. first' = first /\ n' = n + 1 /\ program' = program
      BY <2>2, StepCounts
    <3>4. /\ gpr \in [Registers -> Quad] /\ gpr[A] = first.gpr[A] /\ gpr[B] = first.gpr[B]
      BY <2>2 DEF ProductInv
    <3>5. CASE n \in 0 .. 2
      <4> DEFINE op == IF n = 2 THEN "mpyu" ELSE "mpyh"
                 rt == CASE n = 0 -> T [] n = 1 -> U [] n = 2 -> V
                 ra == IF n = 1 THEN B ELSE A
                 rb == IF n = 1 THEN A ELSE B
      <4>1. Insn = RR(op, WORD, rt, ra, rb)
        BY <3>1, <3>2, <3>5
      <4>2. op \in {"mpyh", "mpyu"} /\ rt \in Registers /\ ra \in Registers /\ rb \in Registers
            /\ rt # A /\ rt # B
        BY <3>5, SixRegisters
      <4> HIDE DEF op, rt, ra, rb
      <4>3. /\ Insn.op = op /\ Insn.size = WORD /\ Insn.rt = rt /\ Insn.ra = ra /\ Insn.rb = rb
            /\ Insn.form = "RR"
        BY <4>1 DEF RR, Ins
      <4>4. /\ gpr' \in [Registers -> Quad] /\ \A r \in Registers : r # rt => gpr'[r] = gpr[r]
            /\ pc' = Sequential /\ running' = running
            /\ \A i \in 0 .. WORDS - 1 :
                 W(gpr'[rt], i) = (IF op = "mpyh" THEN Mpyh(W(gpr[ra], i), W(gpr[rb], i))
                                   ELSE Low(W(gpr[ra], i)) * Low(W(gpr[rb], i))) % M
        BY <2>2, <3>4, <4>2, <4>3, Multiplication DEF W
      <4>5. At(6)'
        BY <2>2, <3>1, <3>2, <3>5, <4>4, StepAt DEF At
      <4>6. gpr'[A] = first.gpr[A] /\ gpr'[B] = first.gpr[B]
        BY <3>4, <4>2, <4>4, SixRegisters
      <4> QED BY <2>2, <3>3, <3>4, <3>5, <4>4, <4>5, <4>6, SixRegisters
              DEF ProductInv, op, rt, ra, rb
    <3>6. CASE n \in 3 .. 4
      <4> DEFINE rb == IF n = 3 THEN U ELSE V
      <4>1. Insn = RR("a", WORD, T, T, rb)
        BY <3>1, <3>2, <3>6
      <4>2. rb \in Registers /\ T \in Registers
        BY SixRegisters
      <4> HIDE DEF rb
      <4>3. /\ Insn.op = "a" /\ Insn.size = WORD /\ Insn.rt = T /\ Insn.ra = T /\ Insn.rb = rb
            /\ Insn.form = "RR" /\ Insn.imm = 0
        BY <4>1 DEF RR, Ins
      <4>4. /\ gpr' \in [Registers -> Quad] /\ \A r \in Registers : r # T => gpr'[r] = gpr[r]
            /\ pc' = Sequential /\ running' = running
            /\ \A i \in 0 .. WORDS - 1 : W(gpr'[T], i) = (W(gpr[T], i) + W(gpr[rb], i)) % M
        BY <2>2, <3>4, <4>2, <4>3, Addition DEF W
      <4>5. At(6)'
        BY <2>2, <3>1, <3>2, <3>6, <4>4, StepAt DEF At
      <4>6. gpr'[A] = first.gpr[A] /\ gpr'[B] = first.gpr[B] /\ gpr'[V] = gpr[V]
        BY <3>4, <4>4, SixRegisters
      <4> QED BY <2>2, <3>3, <3>4, <3>6, <4>4, <4>5, <4>6, SixRegisters DEF ProductInv, rb
    <3>7. CASE n = 5
      <4>1. Insn.op = "stop"
        BY <3>1, <3>2, <3>7 DEF Stop
      <4>2. pc' = Sequential /\ running' = FALSE /\ gpr' = gpr
        BY <2>2, <4>1, StepStop
      <4>3. At(6)'
        BY <2>2, <3>1, <3>2, <3>7, <4>2, StepAt
      <4> QED BY <2>2, <3>3, <3>4, <3>7, <4>2, <4>3 DEF ProductInv
    <3> QED BY <3>2, <3>5, <3>6, <3>7
  <2> QED BY <2>1, <2>2, StepCounts DEF ProductInv
<1> QED BY <1>1, <1>2, PTL DEF Spec

\* Two mpyh and one mpyu add up to the product of the words, whatever the signs of
\* their halves (spu_interp.cpp:858-890).
THEOREM ProductsAreFormed == Spec => []WordProducts
<1>1. ASSUME ProductInv PROVE WordProducts
  <2> SUFFICES ASSUME program = WordMultiply, Halted, NEW i \in 0 .. WORDS - 1
               PROVE  W(gpr[T], i) = Product(W(first.gpr[A], i), W(first.gpr[B], i))
    BY DEF WordProducts
  <2> DEFINE x == W(first.gpr[A], i)
             y == W(first.gpr[B], i)
  <2>1. At(6) /\ gpr \in [Registers -> Quad] /\ gpr[A] = first.gpr[A] /\ gpr[B] = first.gpr[B]
    BY <1>1 DEF ProductInv
  <2>2. n = 6
    BY <2>1, SpuAssumption, IdiomAssumption DEF Halted, At
  <2>3. x \in 0 .. M - 1 /\ y \in 0 .. M - 1 /\ M \in Nat
    <3>1. first.gpr[A] \in Quad /\ first.gpr[B] \in Quad
      BY <2>1, SixRegisters
    <3>2. M \in Nat
      BY Widths
    <3>3. x \in 0 .. M - 1 /\ y \in 0 .. M - 1
      BY <3>1, ElemInRange DEF W
    <3> QED BY <3>2, <3>3
  <2>4. W(gpr[T], i) =
          ((((Mpyh(x, y) % M) + (Mpyh(y, x) % M)) % M) + ((Low(x) * Low(y)) % M)) % M
    BY <1>1, <2>2 DEF ProductInv
  <2> HIDE DEF x, y
  <2>5. x \in Int /\ y \in Int
    BY <2>3
  <2>6. W(gpr[T], i) = (x * y) % M
    BY <2>4, <2>5, PartsAddUp
  <2>7. Product(x, y) = (x * y) % M
    BY <2>3, <2>5, ProductIs
  <2> QED BY <2>6, <2>7 DEF x, y
<1> QED BY <1>1, ProductsRun, PTL


(***************************************************************************)
(* Bits.                                                                   *)
(***************************************************************************)
\* Powers of two.
LEMMA Powers ==
  /\ Power(0) = 1 /\ Power(1) = 2 /\ Power(2) = 4 /\ Power(3) = 8 /\ Power(4) = 16
  /\ Power(5) = 32 /\ Power(6) = 64 /\ Power(7) = 128 /\ Power(8) = 256
<1>1. Weight(0) = 1 /\ Weight(1) = 256
  BY Widths
<1>2. /\ 0 \div 8 = 0 /\ 1 \div 8 = 0 /\ 2 \div 8 = 0 /\ 3 \div 8 = 0 /\ 4 \div 8 = 0
      /\ 5 \div 8 = 0 /\ 6 \div 8 = 0 /\ 7 \div 8 = 0 /\ 8 \div 8 = 1
  OBVIOUS
<1>3. /\ 0 % 8 = 0 /\ 1 % 8 = 1 /\ 2 % 8 = 2 /\ 3 % 8 = 3 /\ 4 % 8 = 4
      /\ 5 % 8 = 5 /\ 6 % 8 = 6 /\ 7 % 8 = 7 /\ 8 % 8 = 0
  OBVIOUS
<1> QED BY <1>1, <1>2, <1>3 DEF Power

\* A byte is the sum of its bits.
LEMMA EightBits ==
  ASSUME NEW x \in Byte
  PROVE  2 * (2 * (2 * (2 * (2 * (2 * (2 * (2 * 0 + ((x \div 128) % 2)) + ((x \div 64) % 2))
           + ((x \div 32) % 2)) + ((x \div 16) % 2)) + ((x \div 8) % 2)) + ((x \div 4) % 2))
           + ((x \div 2) % 2)) + ((x \div 1) % 2) = x
BY DEF Byte

\* What a logical operation makes of two bits, and of the bits of two numbers that
\* count for w.
OneBit(op, b, c) == CASE op = "and"  -> b * c
                      [] op = "or"   -> b + c - b * c
                      [] op = "xor"  -> (b + c) % 2
                      [] op = "nand" -> 1 - b * c
                      [] op = "nor"  -> (1 - b) * (1 - c)
                      [] op = "andc" -> b * (1 - c)
                      [] op = "orc"  -> 1 - (1 - b) * c
                      [] op = "eqv"  -> (b + c + 1) % 2
BitAt(op, x, y, w) == OneBit(op, (x \div w) % 2, (y \div w) % 2)

\* The recursion over the bits of a byte, unrolled.
LEMMA LogicUnfold ==
  ASSUME NEW op, NEW x, NEW y
  PROVE  Logic(op, x, y, 1) =
           2 * (2 * (2 * (2 * (2 * (2 * (2 * (2 * 0 + BitAt(op, x, y, 128)) + BitAt(op, x, y, 64))
             + BitAt(op, x, y, 32)) + BitAt(op, x, y, 16)) + BitAt(op, x, y, 8))
             + BitAt(op, x, y, 4)) + BitAt(op, x, y, 2)) + BitAt(op, x, y, 1)
<1> DEFINE f(w) == BitAt(op, x, y, w)
           v1 == 2 * 0 + f(128)
           v2 == 2 * v1 + f(64)
           v3 == 2 * v2 + f(32)
           v4 == 2 * v3 + f(16)
           v5 == 2 * v4 + f(8)
           v6 == 2 * v5 + f(4)
           v7 == 2 * v6 + f(2)
           v8 == 2 * v7 + f(1)
           g(k) == f(Power(8 - k))
           w == [k \in 0 .. 8 |->
                   CASE k = 0 -> 0 [] k = 1 -> v1 [] k = 2 -> v2 [] k = 3 -> v3 [] k = 4 -> v4
                     [] k = 5 -> v5 [] k = 6 -> v6 [] k = 7 -> v7 [] k = 8 -> v8]
           Is(v) == v = [k \in 0 .. 8 |-> IF k = 0 THEN 0 ELSE 2 * v[k - 1] + g(k)]
           value == CHOOSE v : Is(v)
<1>0. /\ g(1) = f(128) /\ g(2) = f(64) /\ g(3) = f(32) /\ g(4) = f(16)
      /\ g(5) = f(8) /\ g(6) = f(4) /\ g(7) = f(2) /\ g(8) = f(1)
  <2> HIDE DEF f
  <2>1. 8 - 1 = 7 /\ 8 - 2 = 6 /\ 8 - 3 = 5 /\ 8 - 4 = 4 /\ 8 - 5 = 3 /\ 8 - 6 = 2
        /\ 8 - 7 = 1 /\ 8 - 8 = 0
    OBVIOUS
  <2> QED BY <2>1, Powers
<1>1. Is(w)
  <2> HIDE DEF g, f
  <2> DEFINE F(k) == IF k = 0 THEN 0 ELSE 2 * w[k - 1] + g(k)
  <2>1. ASSUME NEW k \in 0 .. 8 PROVE w[k] = F(k)
    <3>1. k \in {0, 1, 2, 3, 4, 5, 6, 7, 8}
      OBVIOUS
    <3>2. /\ w[0] = 0 /\ w[1] = v1 /\ w[2] = v2 /\ w[3] = v3 /\ w[4] = v4 /\ w[5] = v5
          /\ w[6] = v6 /\ w[7] = v7 /\ w[8] = v8
      <4> HIDE DEF v1, v2, v3, v4, v5, v6, v7, v8
      <4> QED OBVIOUS
    <3> HIDE DEF w
    <3> QED BY <1>0, <3>1, <3>2
  <2>2. w = [k \in 0 .. 8 |-> F(k)]
    <3> HIDE DEF F, v1, v2, v3, v4, v5, v6, v7, v8
    <3> SUFFICES ASSUME NEW k \in 0 .. 8 PROVE w[k] = F(k)
      OBVIOUS
    <3> QED BY <2>1
  <2> HIDE DEF w
  <2> QED BY <2>2
<1>2. Is(value)
  BY <1>1
<1>3. Logic(op, x, y, 1) = value[8]
  <2>1. Bits(1) = 8
    BY DEF Bits
  <2>2. Logic(op, x, y, 1) =
          (CHOOSE v : v = [k \in 0 .. Bits(1) |-> IF k = 0 THEN 0
                             ELSE 2 * v[k - 1] + BitAt(op, x, y, Power(Bits(1) - k))])[Bits(1)]
    BY Zenon DEF Logic, BitAt, OneBit
  <2> QED BY <2>1, <2>2
<1>4. value[0] = 0 /\ \A k \in 1 .. 8 : value[k] = 2 * value[k - 1] + g(k)
  <2> HIDE DEF value, g
  <2>1. \A k \in 0 .. 8 : value[k] = IF k = 0 THEN 0 ELSE 2 * value[k - 1] + g(k)
    BY <1>2
  <2> QED BY <2>1
<1> HIDE DEF value, Is, w, g, f
<1>5. value[1] = v1 /\ value[2] = v2
  BY <1>0, <1>4
<1>6. value[3] = v3 /\ value[4] = v4
  BY <1>0, <1>4, <1>5
<1>7. value[5] = v5 /\ value[6] = v6
  BY <1>0, <1>4, <1>6
<1>8. value[7] = v7 /\ value[8] = v8
  BY <1>0, <1>4, <1>7
<1> QED BY <1>3, <1>8 DEF f

\* Or with nothing, and what masks of ones and zeros select.
LEMMA OrNothing ==
  ASSUME NEW x \in Byte
  PROVE  Logic("or", x, 0, 1) = x /\ Logic("or", 0, x, 1) = x
<1>1. ASSUME NEW w \in {1, 2, 4, 8, 16, 32, 64, 128}
      PROVE  BitAt("or", x, 0, w) = (x \div w) % 2 /\ BitAt("or", 0, x, w) = (x \div w) % 2
  <2>1. (0 \div w) % 2 = 0 /\ (x \div w) % 2 \in Int
    BY DEF Byte
  <2>2. \A b \in Int : OneBit("or", b, 0) = b /\ OneBit("or", 0, b) = b
    BY DEF OneBit
  <2> QED BY <2>1, <2>2 DEF BitAt
<1>2. Logic("or", x, 0, 1) = x
  BY <1>1, LogicUnfold, EightBits
<1>3. Logic("or", 0, x, 1) = x
  BY <1>1, LogicUnfold, EightBits
<1> QED BY <1>2, <1>3

LEMMA Masked ==
  ASSUME NEW x \in Byte
  PROVE  /\ Logic("and", 255, x, 1) = x /\ Logic("and", 0, x, 1) = 0
         /\ Logic("andc", x, 255, 1) = 0 /\ Logic("andc", x, 0, 1) = x
<1>1. ASSUME NEW w \in {1, 2, 4, 8, 16, 32, 64, 128}
      PROVE  /\ BitAt("and", 255, x, w) = (x \div w) % 2 /\ BitAt("and", 0, x, w) = 0
             /\ BitAt("andc", x, 255, w) = 0 /\ BitAt("andc", x, 0, w) = (x \div w) % 2
  <2>1. (0 \div w) % 2 = 0 /\ (255 \div w) % 2 = 1 /\ (x \div w) % 2 \in Int
    BY DEF Byte
  <2>2. \A b \in Int : /\ OneBit("and", 1, b) = b /\ OneBit("and", 0, b) = 0
                       /\ OneBit("andc", b, 1) = 0 /\ OneBit("andc", b, 0) = b
    BY DEF OneBit
  <2> QED BY <2>1, <2>2 DEF BitAt
<1>2. Logic("and", 255, x, 1) = x
  BY <1>1, LogicUnfold, EightBits
<1>3. Logic("and", 0, x, 1) = 0
  BY <1>1, LogicUnfold
<1>4. Logic("andc", x, 255, 1) = 0
  BY <1>1, LogicUnfold
<1>5. Logic("andc", x, 0, 1) = x
  BY <1>1, LogicUnfold, EightBits
<1> QED BY <1>2, <1>3, <1>4, <1>5

\* Where the mask has ones selb takes the second register, elsewhere the first.
LEMMA Selection ==
  ASSUME NEW a \in Quad, NEW b \in Quad, NEW c, \A k \in Bytes : c[k] \in {0, 255}
  PROVE  selb(a, b, c) = [k \in Bytes |-> IF c[k] = 255 THEN b[k] ELSE a[k]]
<1> SUFFICES ASSUME NEW k \in Bytes
             PROVE  Logic("or", Logic("and", c[k], b[k], 1), Logic("andc", a[k], c[k], 1), 1)
                      = IF c[k] = 255 THEN b[k] ELSE a[k]
  BY DEF selb
<1>1. a[k] \in Byte /\ b[k] \in Byte
  BY DEF Quad
<1>2. CASE c[k] = 255
  <2>1. Logic("and", 255, b[k], 1) = b[k] /\ Logic("andc", a[k], 255, 1) = 0
    BY <1>1, Masked
  <2>2. Logic("or", b[k], 0, 1) = b[k]
    BY <1>1, OrNothing
  <2> QED BY <1>2, <2>1, <2>2
<1>3. CASE c[k] = 0
  <2>1. Logic("and", 0, b[k], 1) = 0 /\ Logic("andc", a[k], 0, 1) = a[k]
    BY <1>1, Masked
  <2>2. Logic("or", 0, a[k], 1) = a[k]
    BY <1>1, OrNothing
  <2> QED BY <1>3, <2>1, <2>2
<1> QED BY <1>2, <1>3

(***************************************************************************)
(* The larger of two signed words.                                         *)
(***************************************************************************)
Larger(x, y) == Signed(x, WORD) > Signed(y, WORD)

\* The bytes of a word of ones or of zeros.
LEMMA MaskBytes ==
  ASSUME NEW j \in 0 .. WORD - 1
  PROVE  (Ones(WORD) \div Weight(j)) % 256 = 255 /\ (0 \div Weight(j)) % 256 = 0
<1>1. CASE WORD = 2
  <2>1. Ones(WORD) = 65535 /\ j \in {0, 1} /\ Weight(0) = 1 /\ Weight(1) = 256
    BY <1>1, Widths
  <2> QED BY <2>1
<1>2. CASE WORD = 4
  <2>1. Ones(WORD) = 256 * 256 * 256 * 256 - 1 /\ j \in {0, 1, 2, 3}
        /\ Weight(0) = 1 /\ Weight(1) = 256 /\ Weight(2) = 256 * 256
        /\ Weight(3) = 256 * 256 * 256
    BY <1>2, Widths
  <2> QED BY <2>1
<1> QED BY <1>1, <1>2, Widths

\* A signed comparison leaves a mask of whole words.
LEMMA Comparison ==
  ASSUME File(gpr), Step, Insn.op = "cgt", Insn.size = WORD, Insn.form = "RR",
         Insn.rt \in Registers, Insn.ra \in Registers, Insn.rb \in Registers
  PROVE  /\ pc' = Sequential /\ UNCHANGED <<ls, running, staged, posted, memory>>
         /\ gpr' = [gpr EXCEPT ![Insn.rt] =
              [k \in Bytes |-> IF Larger(Elem(gpr[Insn.ra], WORD, k \div WORD),
                                         Elem(gpr[Insn.rb], WORD, k \div WORD))
                               THEN 255 ELSE 0]]
<1> DEFINE larger(i) == Larger(Elem(gpr[Insn.ra], WORD, i), Elem(gpr[Insn.rb], WORD, i))
           w == [i \in 0 .. WORDS - 1 |-> IF larger(i) THEN Ones(WORD) ELSE 0]
<1>1. /\ pc' = Sequential /\ UNCHANGED <<ls, running, staged, posted, memory>>
      /\ gpr' = ElementLoop(gpr, Insn)
  BY StepElement DEF ElementOps, CompareOps
<1>2. ASSUME NEW i \in 0 .. WORDS - 1
      PROVE  Lane(gpr, Insn, i) = IF larger(i) THEN Ones(WORD) ELSE 0
  <2>1. Operand(gpr, Insn, i) = Elem(gpr[Insn.rb], WORD, i)
    BY DEF Operand
  <2>2. \A x, y, t : Element("cgt", x, y, t, WORD) = IF Larger(x, y) THEN Ones(WORD) ELSE 0
    BY DEF Element, LogicOps, ArithmeticOps, CompareOps, MultiplyOps, ShiftOps, UnaryOps,
           Compare, Larger
  <2> QED BY <2>1, <2>2 DEF Lane
<1> HIDE DEF larger
<1>3. [i \in 0 .. WORDS - 1 |-> Lane(gpr, Insn, i)] = w
  BY <1>2
<1>4. gpr' = [gpr EXCEPT ![Insn.rt] = FromWords(w)]
  BY <1>1, <1>3, InPlaceLoop
<1>5. ASSUME NEW k \in Bytes
      PROVE  (w[k \div WORD] \div Weight(WORD - 1 - (k % WORD))) % 256
               = IF larger(k \div WORD) THEN 255 ELSE 0
  <2>1. k \div WORD \in 0 .. WORDS - 1 /\ WORD - 1 - (k % WORD) \in 0 .. WORD - 1
    BY Places
  <2>2. w[k \div WORD] = IF larger(k \div WORD) THEN Ones(WORD) ELSE 0
    BY <2>1
  <2> QED BY <2>1, <2>2, MaskBytes
<1> HIDE DEF w
<1>6. FromWords(w) = [k \in Bytes |-> IF larger(k \div WORD) THEN 255 ELSE 0]
  BY <1>5 DEF FromWords
<1> QED BY <1>1, <1>4, <1>6 DEF larger

\* The signed order is that of numbers moved by half the range.
LEMMA BiasedOrder ==
  ASSUME NEW x \in 0 .. M - 1, NEW y \in 0 .. M - 1
  PROVE  (IF Larger(x, y) THEN x ELSE y)
           = IF (x + M \div 2) % M >= (y + M \div 2) % M THEN x ELSE y
<1> DEFINE H == M \div 2
<1>1. M = 2 * H /\ H \in Nat /\ H > 0 /\ M = Weight(WORD)
  <2>1. CASE WORD = 2
    BY <2>1, Widths
  <2>2. CASE WORD = 4
    BY <2>2, Widths
  <2> QED BY <2>1, <2>2, Widths
<1> HIDE DEF H
<1>2. ASSUME NEW v \in 0 .. M - 1
      PROVE  /\ (v + H) % M = IF v >= H THEN v - H ELSE v + H
             /\ Signed(v, WORD) + H = (v + H) % M /\ Signed(v, WORD) \in Int
  <2>1. CASE v >= H
    <3>1. v + H = (v - H) + M * 1 /\ v - H \in Int /\ 0 <= v - H /\ v - H < M
      BY <1>1, <2>1
    <3>2. ((v - H) + M * 1) % M = (v - H) % M
      BY <3>1, Modulo
    <3>3. (v - H) % M = v - H
      BY <3>1, Modulo
    <3>4. Signed(v, WORD) = v - M
      BY <1>1, <2>1 DEF Signed
    <3> HIDE DEF H
    <3>5. v - M + H = v - H
      BY <1>1
    <3>6. (v + H) % M = v - H /\ v - M \in Int
      BY <1>1, <3>1, <3>2, <3>3
    <3> QED BY <2>1, <3>4, <3>5, <3>6
  <2>2. CASE v < H
    <3>1. v + H \in Int /\ 0 <= v + H /\ v + H < M /\ ~(v >= H)
      BY <1>1, <2>2
    <3>2. (v + H) % M = v + H
      BY <3>1, Modulo
    <3>3. Signed(v, WORD) = v
      BY <1>1, <2>2 DEF Signed
    <3> QED BY <3>1, <3>2, <3>3
  <2> QED BY <1>1, <2>1, <2>2
<1>3. Larger(x, y) <=> (x + H) % M > (y + H) % M
  <2>1. /\ Signed(x, WORD) + H = (x + H) % M /\ Signed(y, WORD) + H = (y + H) % M
        /\ Signed(x, WORD) \in Int /\ Signed(y, WORD) \in Int
    BY <1>2
  <2> QED BY <1>1, <2>1 DEF Larger
<1>4. (x + H) % M = (y + H) % M => x = y
  <2>1. \A v \in 0 .. M - 1 : (v + H) % M = IF v >= H THEN v - H ELSE v + H
    BY <1>2
  <2> QED BY <1>1, <2>1
<1>5. (x + H) % M \in Int /\ (y + H) % M \in Int
  BY <1>1, <1>2
<1> QED BY <1>3, <1>4, <1>5 DEF H

\* The mask, and what it selects.
Chosen(a, b) == [k \in Bytes |-> IF Larger(W(a, k \div WORD), W(b, k \div WORD))
                                 THEN 255 ELSE 0]

MaximumInv ==
  program = Maximum =>
    /\ At(3)
    /\ n = 0 => gpr = first.gpr
    /\ n = 1 => gpr = [first.gpr EXCEPT ![T] = Chosen(first.gpr[A], first.gpr[B])]
    /\ n >= 2 => gpr[T] = selb(first.gpr[B], first.gpr[A],
                               Chosen(first.gpr[A], first.gpr[B]))

LEMMA MaximumRuns == Spec => []MaximumInv
<1>1. Init => MaximumInv
  BY InitFresh, StartAt DEF MaximumInv, Fresh
<1>2. MaximumInv /\ [Step]_channelVars => MaximumInv'
  <2>1. CASE UNCHANGED channelVars
    BY <2>1 DEF MaximumInv, channelVars, vars, At
  <2>2. ASSUME MaximumInv, Step, program = Maximum
        PROVE  MaximumInv'
    <3> DEFINE a == first.gpr[A]
               b == first.gpr[B]
               mask == Chosen(a, b)
    <3>1. Len(program) = 3 /\ program[1] = RR("cgt", WORD, T, A, B) /\ program[3] = Stop
          /\ program[2] = RRR("selb", T, B, A, T)
      BY <2>2 DEF Maximum
    <3>2. Insn = program[n + 1] /\ n \in 0 .. 2 /\ At(3)
      BY <2>2, <3>1, InsnOf DEF MaximumInv
    <3>3. /\ first' = first /\ n' = n + 1 /\ program' = program
          /\ first.gpr \in [Registers -> Quad]
      BY <2>2, <3>2, StepCounts DEF At
    <3>4. CASE n = 0
      <4>1. Insn = RR("cgt", WORD, T, A, B) /\ gpr = first.gpr
        BY <2>2, <3>1, <3>2, <3>4 DEF MaximumInv
      <4>2. /\ Insn.op = "cgt" /\ Insn.size = WORD /\ Insn.rt = T /\ Insn.ra = A /\ Insn.rb = B
            /\ Insn.form = "RR"
        BY <4>1 DEF RR, Ins
      <4>3. File(gpr) /\ T \in Registers /\ A \in Registers /\ B \in Registers
        BY <3>3, <4>1, SixRegisters DEF File
      <4>4. pc' = Sequential /\ running' = running /\ gpr' = [gpr EXCEPT ![T] = mask]
        BY <2>2, <4>1, <4>2, <4>3, Comparison DEF Chosen, W
      <4> HIDE DEF mask
      <4>5. At(3)'
        BY <2>2, <3>1, <3>2, <3>4, <4>4, StepAt DEF At
      <4> QED BY <3>3, <3>4, <4>1, <4>4, <4>5 DEF MaximumInv, mask
    <3>5. CASE n = 1
      <4>1. Insn = RRR("selb", T, B, A, T) /\ gpr = [first.gpr EXCEPT ![T] = mask]
        BY <2>2, <3>1, <3>2, <3>5 DEF MaximumInv
      <4> HIDE DEF mask
      <4>2. /\ Insn.op = "selb" /\ Insn.rt = T /\ Insn.ra = B /\ Insn.rb = A /\ Insn.rc = T
        BY <4>1 DEF RRR, RR, Ins
      <4>3. gpr[B] = b /\ gpr[A] = a /\ gpr[T] = mask /\ T \in Registers
        BY <3>3, <4>1, SixRegisters
      <4>4. pc' = Sequential /\ running' = running
            /\ gpr' = [gpr EXCEPT ![T] = QuadResult(Insn)]
        BY <2>2, <4>2, StepQuad DEF QuadOps
      <4>5. QuadResult(Insn) = selb(b, a, mask)
        <5>1. QuadResult(Insn) = selb(gpr[Insn.ra], gpr[Insn.rb], gpr[Insn.rc])
          BY <4>2 DEF QuadResult, QuadShiftOps
        <5> QED BY <4>2, <4>3, <5>1
      <4>6. At(3)'
        BY <2>2, <3>1, <3>2, <3>5, <4>4, StepAt DEF At
      <4>7. gpr'[T] = selb(b, a, mask)
        BY <3>3, <4>1, <4>3, <4>4, <4>5
      <4> QED BY <3>3, <3>5, <4>6, <4>7 DEF MaximumInv, mask
    <3>6. CASE n = 2
      <4>1. Insn.op = "stop"
        BY <3>1, <3>2, <3>6 DEF Stop
      <4>2. pc' = Sequential /\ running' = FALSE /\ gpr' = gpr
        BY <2>2, <4>1, StepStop
      <4>3. At(3)'
        BY <2>2, <3>1, <3>2, <3>6, <4>2, StepAt
      <4> QED BY <2>2, <3>3, <3>6, <4>2, <4>3 DEF MaximumInv
    <3> QED BY <3>2, <3>4, <3>5, <3>6
  <2> QED BY <2>1, <2>2, StepCounts DEF MaximumInv
<1> QED BY <1>1, <1>2, PTL DEF Spec

\* A signed comparison makes a mask with which selb chooses the larger word, for
\* words of either sign (spu_interp.cpp:412-418, 842-843).
THEOREM MaximaAreChosen == Spec => []SignedMaximum
<1>1. ASSUME MaximumInv PROVE SignedMaximum
  <2> SUFFICES ASSUME program = Maximum, Halted, NEW i \in 0 .. WORDS - 1
               PROVE  LET x == W(first.gpr[A], i)
                          y == W(first.gpr[B], i)
                      IN W(gpr[T], i) = IF (x + M \div 2) % M >= (y + M \div 2) % M
                                        THEN x ELSE y
    BY DEF SignedMaximum
  <2> DEFINE a == first.gpr[A]
             b == first.gpr[B]
             mask == Chosen(a, b)
  <2>1. At(3)
    BY <1>1 DEF MaximumInv
  <2>2. n = 3
    BY <2>1, SpuAssumption, IdiomAssumption DEF Halted, At
  <2>3. gpr[T] = selb(b, a, mask)
    BY <1>1, <2>2 DEF MaximumInv
  <2>4. a \in Quad /\ b \in Quad
    BY <2>1, SixRegisters DEF At
  <2> HIDE DEF a, b
  <2>5. \A k \in Bytes : mask[k] \in {0, 255}
    BY DEF Chosen
  <2>6. \A k \in Bytes : gpr[T][k] = IF Larger(W(a, k \div WORD), W(b, k \div WORD))
                                     THEN a[k] ELSE b[k]
    <3>1. \A k \in Bytes : mask[k] = IF Larger(W(a, k \div WORD), W(b, k \div WORD))
                                     THEN 255 ELSE 0
      BY DEF Chosen
    <3> HIDE DEF mask
    <3>2. gpr[T] = [k \in Bytes |-> IF mask[k] = 255 THEN a[k] ELSE b[k]]
      BY <2>3, <2>4, <2>5, Selection
    <3> QED BY <3>1, <3>2
  <2>7. WORD \in Sizes /\ i \in 0 .. (QUAD \div WORD) - 1
    BY Shapes DEF Sizes
  <2>8. Elem(gpr[T], WORD, i) = IF Larger(W(a, i), W(b, i))
                                THEN Elem(a, WORD, i) ELSE Elem(b, WORD, i)
    <3>1. CASE Larger(W(a, i), W(b, i))
      <4>1. \A k \in Bytes : k \div WORD = i => gpr[T][k] = a[k]
        BY <2>6, <3>1
      <4> QED BY <2>7, <3>1, <4>1, ElemLocal
    <3>2. CASE ~Larger(W(a, i), W(b, i))
      <4>1. \A k \in Bytes : k \div WORD = i => gpr[T][k] = b[k]
        BY <2>6, <3>2
      <4> QED BY <2>7, <3>2, <4>1, ElemLocal
    <3> QED BY <3>1, <3>2
  <2>9. W(a, i) \in 0 .. M - 1 /\ W(b, i) \in 0 .. M - 1
    BY <2>4, ElemInRange DEF W
  <2> QED BY <2>8, <2>9, BiasedOrder DEF W, a, b
<1> QED BY <1>1, MaximumRuns, PTL

(***************************************************************************)
(* Sums of two words as one number.                                        *)
(***************************************************************************)
\* One digit of a sum, and its carry.
CarryOf(a, b, e) == (a + b + e) \div 256
DigitOf(a, b, e) == (a + b + e) % 256

LEMMA Digit ==
  ASSUME NEW a \in Byte, NEW b \in Byte, NEW e \in {0, 1}
  PROVE  /\ CarryOf(a, b, e) \in {0, 1} /\ DigitOf(a, b, e) \in Byte
         /\ a + b + e = 256 * CarryOf(a, b, e) + DigitOf(a, b, e)
BY DEF Byte, CarryOf, DigitOf

\* Two numbers of two or of four digits, and a carry e, sum up to the digits r and
\* the carry c.
Fits2(a1, a2, b1, b2, e, r1, r2, c) ==
  /\ {a1, a2, b1, b2, r1, r2} \subseteq Byte /\ {c, e} \subseteq {0, 1}
  /\ 256 * a1 + a2 + (256 * b1 + b2) + e = 256 * r1 + r2 + 256 * 256 * c
Fits4(a1, a2, a3, a4, b1, b2, b3, b4, e, r1, r2, r3, r4, c) ==
  /\ {a1, a2, a3, a4, b1, b2, b3, b4, r1, r2, r3, r4} \subseteq Byte /\ {c, e} \subseteq {0, 1}
  /\ 256 * (256 * (256 * a1 + a2) + a3) + a4 + (256 * (256 * (256 * b1 + b2) + b3) + b4) + e
       = 256 * (256 * (256 * r1 + r2) + r3) + r4 + 256 * 256 * 256 * 256 * c

\* Then digit by digit they do.
LEMMA TwoDigits ==
  ASSUME NEW a1, NEW a2, NEW b1, NEW b2, NEW e, NEW r1, NEW r2, NEW c,
         Fits2(a1, a2, b1, b2, e, r1, r2, c)
  PROVE  /\ CarryOf(a1, b1, CarryOf(a2, b2, e)) = c
         /\ DigitOf(a1, b1, CarryOf(a2, b2, e)) = r1 /\ DigitOf(a2, b2, e) = r2
<1>0. /\ a1 \in Byte /\ a2 \in Byte /\ b1 \in Byte /\ b2 \in Byte /\ r1 \in Byte /\ r2 \in Byte
      /\ c \in {0, 1} /\ e \in {0, 1}
  BY DEF Fits2
<1> DEFINE v2 == CarryOf(a2, b2, e)
           v1 == CarryOf(a1, b1, v2)
           s1 == DigitOf(a1, b1, v2)
           s2 == DigitOf(a2, b2, e)
<1>1. v2 \in {0, 1} /\ s2 \in Byte /\ a2 + b2 + e = 256 * v2 + s2
  BY <1>0, <1>0, Digit
<1> HIDE DEF v2, s2
<1>2. v1 \in {0, 1} /\ s1 \in Byte /\ a1 + b1 + v2 = 256 * v1 + s1
  BY <1>0, <1>1, Digit
<1> HIDE DEF v1, s1
<1>3. 256 * a1 + a2 + (256 * b1 + b2) + e = 256 * r1 + r2 + 256 * 256 * c
  BY DEF Fits2
<1>4. 256 * (256 * v1 + s1) + s2 = 256 * (256 * c + r1) + r2
  BY <1>0, <1>1, <1>2, <1>3 DEF Byte
<1>5. v1 = c /\ s1 = r1 /\ s2 = r2
  BY <1>0, <1>1, <1>2, <1>4 DEF Byte
<1> QED BY <1>5 DEF v1, v2, s1, s2

LEMMA FourDigits ==
  ASSUME NEW a1, NEW a2, NEW a3, NEW a4, NEW b1, NEW b2, NEW b3, NEW b4, NEW e,
         NEW r1, NEW r2, NEW r3, NEW r4, NEW c,
         Fits4(a1, a2, a3, a4, b1, b2, b3, b4, e, r1, r2, r3, r4, c)
  PROVE  LET v4 == CarryOf(a4, b4, e)
             v3 == CarryOf(a3, b3, v4)
             v2 == CarryOf(a2, b2, v3)
         IN /\ CarryOf(a1, b1, v2) = c /\ DigitOf(a1, b1, v2) = r1
            /\ DigitOf(a2, b2, v3) = r2 /\ DigitOf(a3, b3, v4) = r3 /\ DigitOf(a4, b4, e) = r4
<1>0. /\ a1 \in Byte /\ a2 \in Byte /\ a3 \in Byte /\ a4 \in Byte
      /\ b1 \in Byte /\ b2 \in Byte /\ b3 \in Byte /\ b4 \in Byte
      /\ r1 \in Byte /\ r2 \in Byte /\ r3 \in Byte /\ r4 \in Byte
      /\ c \in {0, 1} /\ e \in {0, 1}
  BY DEF Fits4
<1> DEFINE v4 == CarryOf(a4, b4, e)
           v3 == CarryOf(a3, b3, v4)
           v2 == CarryOf(a2, b2, v3)
           v1 == CarryOf(a1, b1, v2)
           s1 == DigitOf(a1, b1, v2)
           s2 == DigitOf(a2, b2, v3)
           s3 == DigitOf(a3, b3, v4)
           s4 == DigitOf(a4, b4, e)
<1>1. v4 \in {0, 1} /\ s4 \in Byte /\ a4 + b4 + e = 256 * v4 + s4
  BY <1>0, <1>0, Digit
<1> HIDE DEF v4, s4
<1>2. v3 \in {0, 1} /\ s3 \in Byte /\ a3 + b3 + v4 = 256 * v3 + s3
  BY <1>0, <1>1, Digit
<1> HIDE DEF v3, s3
<1>3. v2 \in {0, 1} /\ s2 \in Byte /\ a2 + b2 + v3 = 256 * v2 + s2
  BY <1>0, <1>2, Digit
<1> HIDE DEF v2, s2
<1>4. v1 \in {0, 1} /\ s1 \in Byte /\ a1 + b1 + v2 = 256 * v1 + s1
  BY <1>0, <1>3, Digit
<1> HIDE DEF v1, s1
<1>5. 256 * (256 * (256 * a1 + a2) + a3) + a4 + (256 * (256 * (256 * b1 + b2) + b3) + b4) + e
        = 256 * (256 * (256 * r1 + r2) + r3) + r4 + 256 * 256 * 256 * 256 * c
  BY DEF Fits4
<1>6. 256 * (256 * (256 * (256 * v1 + s1) + s2) + s3) + s4
        = 256 * (256 * (256 * (256 * c + r1) + r2) + r3) + r4
  BY <1>0, <1>1, <1>2, <1>3, <1>4, <1>5 DEF Byte
<1> DEFINE x == 256 * (256 * v1 + s1) + s2
           y == 256 * (256 * c + r1) + r2
<1>7. x \in Int /\ y \in Int /\ 256 * (256 * x + s3) + s4 = 256 * (256 * y + r3) + r4
  BY <1>0, <1>3, <1>4, <1>6 DEF Byte
<1> HIDE DEF x, y
<1>8. x = y /\ s3 = r3 /\ s4 = r4
  BY <1>0, <1>1, <1>2, <1>7, SMTT(30) DEF Byte
<1>9. 256 * (256 * v1 + s1) + s2 = 256 * (256 * c + r1) + r2
  BY <1>8 DEF x, y
<1>10. v1 = c /\ s1 = r1 /\ s2 = r2
  BY <1>0, <1>3, <1>4, <1>9, SMTT(30) DEF Byte
<1> QED BY <1>8, <1>10 DEF v1, v2, v3, v4, s1, s2, s3, s4

\* Digits and carry of a word, when its sum is known.
LEMMA WordDigits ==
  ASSUME NEW i \in 0 .. WORDS - 1, NEW a \in Quad, NEW b \in Quad, NEW r \in Quad,
         NEW v, v[WORD * i + WORD] \in {0, 1},
         \A k \in WORD * i .. WORD * i + WORD - 1 : v[k] = CarryOf(a[k], b[k], v[k + 1]),
         NEW c \in {0, 1},
         Elem(a, WORD, i) + Elem(b, WORD, i) + v[WORD * i + WORD] = Elem(r, WORD, i) + M * c
  PROVE  /\ v[WORD * i] = c
         /\ \A k \in WORD * i .. WORD * i + WORD - 1 : DigitOf(a[k], b[k], v[k + 1]) = r[k]
<1> DEFINE p == WORD * i
<1>1. p \in Int /\ i \in Int
  BY Widths
<1>2. ASSUME NEW q \in Quad
      PROVE  /\ \A k \in p .. p + WORD - 1 : q[k] \in Byte
             /\ \A j \in 0 .. WORD - 1 : q[WORD * i + j] \in Int
  <2>1. \A k \in Bytes : q[k] \in Byte
    BY DEF Quad
  <2>2. \A j \in 0 .. WORD - 1 : WORD * i + j \in Bytes
    BY Places
  <2>3. \A j \in 0 .. WORD - 1 : q[WORD * i + j] \in Int
    BY <2>1, <2>2 DEF Byte
  <2>4. ASSUME NEW k \in p .. p + WORD - 1 PROVE k \in Bytes
    <3> HIDE DEF p
    <3>1. k - p \in 0 .. WORD - 1 /\ p + (k - p) = k
      BY <1>1, Widths
    <3> QED BY <2>2, <3>1 DEF p
  <2> QED BY <2>1, <2>3, <2>4
<1>3. /\ \A k \in p .. p + WORD - 1 : a[k] \in Byte /\ b[k] \in Byte /\ r[k] \in Byte
  BY <1>2
<1>4. /\ v[p + WORD] \in {0, 1} /\ \A k \in p .. p + WORD - 1 : v[k] = CarryOf(a[k], b[k], v[k + 1])
      /\ Elem(a, WORD, i) + Elem(b, WORD, i) + v[p + WORD] = Elem(r, WORD, i) + M * c
  OBVIOUS
<1>5. CASE WORD = 2
  <2>1. ASSUME NEW q \in Quad PROVE Elem(q, WORD, i) = 256 * q[p] + q[p + 1]
    BY <1>1, <1>2, <1>5, WordIs
  <2>2. M = 256 * 256
    BY <1>5, Widths
  <2> HIDE DEF p
  <2>3. p + 1 + 1 = p + 2 /\ {p, p + 1} = p .. p + WORD - 1 /\ p + WORD = p + 2
    BY <1>1, <1>5
  <2>4. /\ v[p + 1] = CarryOf(a[p + 1], b[p + 1], v[p + 2])
        /\ v[p] = CarryOf(a[p], b[p], v[p + 1]) /\ v[p + 2] \in {0, 1}
    BY <1>4, <2>3
  <2>6. /\ a[p] \in Byte /\ a[p + 1] \in Byte /\ b[p] \in Byte /\ b[p + 1] \in Byte
        /\ r[p] \in Byte /\ r[p + 1] \in Byte
    BY <1>3, <2>3
  <2>5. Fits2(a[p], a[p + 1], b[p], b[p + 1], v[p + 2], r[p], r[p + 1], c)
    <3>1. 256 * a[p] + a[p + 1] + (256 * b[p] + b[p + 1]) + v[p + 2]
            = 256 * r[p] + r[p + 1] + 256 * 256 * c
      BY <1>4, <2>1, <2>2, <2>3
    <3> QED BY <2>4, <2>6, <3>1 DEF Fits2
  <2>7. /\ v[p] = c /\ DigitOf(a[p], b[p], v[p + 1]) = r[p]
        /\ DigitOf(a[p + 1], b[p + 1], v[p + 2]) = r[p + 1]
    <3>1. /\ CarryOf(a[p], b[p], CarryOf(a[p + 1], b[p + 1], v[p + 2])) = c
          /\ DigitOf(a[p], b[p], CarryOf(a[p + 1], b[p + 1], v[p + 2])) = r[p]
          /\ DigitOf(a[p + 1], b[p + 1], v[p + 2]) = r[p + 1]
      BY <2>5, TwoDigits, Z3
    <3> QED BY <2>4, <3>1
  <2>8. \A k \in p .. p + WORD - 1 : DigitOf(a[k], b[k], v[k + 1]) = r[k]
    BY <2>3, <2>7
  <2> QED BY <2>7, <2>8 DEF p
<1>6. CASE WORD = 4
  <2>1. ASSUME NEW q \in Quad
        PROVE  Elem(q, WORD, i) = 256 * (256 * (256 * q[p] + q[p + 1]) + q[p + 2]) + q[p + 3]
    BY <1>1, <1>2, <1>6, WordIs
  <2>2. M = 256 * 256 * 256 * 256
    BY <1>6, Widths
  <2> HIDE DEF p
  <2>3. /\ p + 1 + 1 = p + 2 /\ p + 2 + 1 = p + 3 /\ p + 3 + 1 = p + 4
        /\ {p, p + 1, p + 2, p + 3} = p .. p + WORD - 1 /\ p + WORD = p + 4
    BY <1>1, <1>6
  <2>4. /\ v[p + 3] = CarryOf(a[p + 3], b[p + 3], v[p + 4])
        /\ v[p + 2] = CarryOf(a[p + 2], b[p + 2], v[p + 3])
        /\ v[p + 1] = CarryOf(a[p + 1], b[p + 1], v[p + 2])
        /\ v[p] = CarryOf(a[p], b[p], v[p + 1]) /\ v[p + 4] \in {0, 1}
    BY <1>4, <2>3
  <2>6. /\ a[p] \in Byte /\ a[p + 1] \in Byte /\ a[p + 2] \in Byte /\ a[p + 3] \in Byte
        /\ b[p] \in Byte /\ b[p + 1] \in Byte /\ b[p + 2] \in Byte /\ b[p + 3] \in Byte
        /\ r[p] \in Byte /\ r[p + 1] \in Byte /\ r[p + 2] \in Byte /\ r[p + 3] \in Byte
    BY <1>3, <2>3
  <2>5. Fits4(a[p], a[p + 1], a[p + 2], a[p + 3], b[p], b[p + 1], b[p + 2], b[p + 3],
              v[p + 4], r[p], r[p + 1], r[p + 2], r[p + 3], c)
    <3>1. 256 * (256 * (256 * a[p] + a[p + 1]) + a[p + 2]) + a[p + 3]
            + (256 * (256 * (256 * b[p] + b[p + 1]) + b[p + 2]) + b[p + 3]) + v[p + 4]
            = 256 * (256 * (256 * r[p] + r[p + 1]) + r[p + 2]) + r[p + 3]
                + 256 * 256 * 256 * 256 * c
      BY <1>4, <2>1, <2>2, <2>3
    <3> QED BY <2>4, <2>6, <3>1 DEF Fits4
  <2>7. /\ v[p] = c /\ DigitOf(a[p], b[p], v[p + 1]) = r[p]
        /\ DigitOf(a[p + 1], b[p + 1], v[p + 2]) = r[p + 1]
        /\ DigitOf(a[p + 2], b[p + 2], v[p + 3]) = r[p + 2]
        /\ DigitOf(a[p + 3], b[p + 3], v[p + 4]) = r[p + 3]
    <3> DEFINE v4 == CarryOf(a[p + 3], b[p + 3], v[p + 4])
               v3 == CarryOf(a[p + 2], b[p + 2], v4)
               v2 == CarryOf(a[p + 1], b[p + 1], v3)
    <3>1. /\ CarryOf(a[p], b[p], v2) = c /\ DigitOf(a[p], b[p], v2) = r[p]
          /\ DigitOf(a[p + 1], b[p + 1], v3) = r[p + 1]
          /\ DigitOf(a[p + 2], b[p + 2], v4) = r[p + 2]
          /\ DigitOf(a[p + 3], b[p + 3], v[p + 4]) = r[p + 3]
      BY <2>5, FourDigits, Z3
    <3> QED BY <2>4, <3>1
  <2>8. \A k \in p .. p + WORD - 1 : DigitOf(a[k], b[k], v[k + 1]) = r[k]
    BY <2>3, <2>7
  <2> QED BY <2>7, <2>8 DEF p
<1> QED BY <1>5, <1>6, Widths

\* The sum of two pairs of words from the sums of their words.
LEMMA SumIs ==
  ASSUME NEW a \in Quad, NEW b \in Quad, NEW r \in Quad, NEW c \in {0, 1}, NEW d \in {0, 1},
         W(a, WORDS - 1) + W(b, WORDS - 1) = W(r, WORDS - 1) + M * c,
         W(a, WORDS - 2) + W(b, WORDS - 2) + c = W(r, WORDS - 2) + M * d
  PROVE  Sum(a, b) = Double(r)
<1> DEFINE P == QUAD - 2 * WORD .. QUAD
           S(k, e) == CarryOf(a[k], b[k], e)
           c1 == S(QUAD - 1, 0)
           c2 == S(QUAD - 2, c1)
           c3 == S(QUAD - 3, c2)
           c4 == S(QUAD - 4, c3)
           c5 == S(QUAD - 5, c4)
           c6 == S(QUAD - 6, c5)
           c7 == S(QUAD - 7, c6)
           c8 == S(QUAD - 8, c7)
           w == [k \in P |-> CASE QUAD - k = 0 -> 0 [] QUAD - k = 1 -> c1 [] QUAD - k = 2 -> c2
                               [] QUAD - k = 3 -> c3 [] QUAD - k = 4 -> c4 [] QUAD - k = 5 -> c5
                               [] QUAD - k = 6 -> c6 [] QUAD - k = 7 -> c7 [] QUAD - k = 8 -> c8]
           Is(v) == v = [k \in P |-> IF k = QUAD THEN 0 ELSE S(k, v[k + 1])]
           carry == CHOOSE v : Is(v)
<1>1. WORD \in {2, 4} /\ QUAD \in {4, 8, 16} /\ QUAD >= 2 * WORD /\ Bytes = 0 .. QUAD - 1
  BY Widths
<1>2. Is(w)
  <2> DEFINE F(k) == IF k = QUAD THEN 0 ELSE S(k, w[k + 1])
  <2> HIDE DEF S
  <2>1. ASSUME NEW k \in P PROVE w[k] = F(k)
    <3>1. CASE k = QUAD
      BY <1>1, <3>1
    <3>2. CASE k # QUAD
      <4> DEFINE j == QUAD - k
      <4>1. j \in 1 .. 8 /\ k = QUAD - j /\ k + 1 \in P /\ QUAD - (k + 1) = j - 1
        BY <1>1, <3>2
      <4>2. w[k] = CASE j = 0 -> 0 [] j = 1 -> c1 [] j = 2 -> c2 [] j = 3 -> c3 [] j = 4 -> c4
                     [] j = 5 -> c5 [] j = 6 -> c6 [] j = 7 -> c7 [] j = 8 -> c8
        OBVIOUS
      <4>3. w[k + 1] = CASE j - 1 = 0 -> 0 [] j - 1 = 1 -> c1 [] j - 1 = 2 -> c2
                         [] j - 1 = 3 -> c3 [] j - 1 = 4 -> c4 [] j - 1 = 5 -> c5
                         [] j - 1 = 6 -> c6 [] j - 1 = 7 -> c7 [] j - 1 = 8 -> c8
        <5> HIDE DEF c1, c2, c3, c4, c5, c6, c7, c8, P, j
        <5> QED BY <4>1
      <4> HIDE DEF w, j
      <4>4. w[k] = S(QUAD - j, w[k + 1])
        BY <4>1, <4>2, <4>3
      <4> QED BY <3>2, <4>1, <4>4
    <3> QED BY <3>1, <3>2
  <2> HIDE DEF F, w
  <2>2. w = [k \in P |-> F(k)]
    <3> HIDE DEF P, F, c1, c2, c3, c4, c5, c6, c7, c8
    <3> SUFFICES ASSUME NEW k \in P PROVE w[k] = F(k)
      BY DEF w
    <3> QED BY <2>1
  <2> QED BY <2>2 DEF F
<1>3. Is(carry)
  BY <1>2
<1>4. Sum(a, b) = [k \in Pair |-> DigitOf(a[k], b[k], carry[k + 1])]
  BY DEF Sum, CarryOf, DigitOf
<1>5. carry[QUAD] = 0 /\ \A k \in QUAD - 2 * WORD .. QUAD - 1 : carry[k] = S(k, carry[k + 1])
  <2> HIDE DEF carry, S
  <2>1. \A k \in P : carry[k] = IF k = QUAD THEN 0 ELSE S(k, carry[k + 1])
    BY <1>3
  <2>2. QUAD \in P /\ \A k \in QUAD - 2 * WORD .. QUAD - 1 : k \in P /\ k # QUAD
    BY <1>1
  <2> HIDE DEF P
  <2> QED BY <2>1, <2>2
<1> HIDE DEF carry, Is, w
<1>6. /\ WORDS - 1 \in 0 .. WORDS - 1 /\ WORDS - 2 \in 0 .. WORDS - 1
      /\ WORD * (WORDS - 1) + WORD = QUAD /\ WORD * (WORDS - 2) + WORD = WORD * (WORDS - 1)
      /\ WORD * (WORDS - 1) = QUAD - WORD /\ WORD * (WORDS - 2) = QUAD - 2 * WORD
  BY Shapes
<1> DEFINE ok(k) == DigitOf(a[k], b[k], carry[k + 1]) = r[k]
<1>7. carry[QUAD - WORD] = c /\ \A k \in QUAD - WORD .. QUAD - 1 : ok(k)
  <2> DEFINE i == WORDS - 1
  <2>1. i \in 0 .. WORDS - 1 /\ WORD * i + WORD = QUAD /\ WORD * i = QUAD - WORD
        /\ Elem(a, WORD, i) + Elem(b, WORD, i) + 0 = Elem(r, WORD, i) + M * c
        /\ carry[WORD * i + WORD] = 0 /\ carry[WORD * i + WORD] \in {0, 1}
    <3>1. Elem(a, WORD, i) \in Int /\ Elem(b, WORD, i) \in Int
      <4>1. Elem(a, WORD, i) \in 0 .. M - 1 /\ Elem(b, WORD, i) \in 0 .. M - 1
        BY <1>6, ElemInRange
      <4> QED BY <4>1, Widths
    <3>2. Elem(a, WORD, i) + Elem(b, WORD, i) = Elem(r, WORD, i) + M * c
      BY DEF W
    <3> QED BY <1>5, <1>6, <3>1, <3>2
  <2>2. \A k \in WORD * i .. WORD * i + WORD - 1 : carry[k] = CarryOf(a[k], b[k], carry[k + 1])
    <3>0. WORD * i + WORD - 1 = QUAD - 1
      BY <1>1, <2>1
    <3> HIDE DEF i
    <3>1. WORD * i .. WORD * i + WORD - 1 = QUAD - WORD .. QUAD - 1
      BY <2>1, <3>0
    <3>2. \A k \in QUAD - WORD .. QUAD - 1 : k \in QUAD - 2 * WORD .. QUAD - 1
      BY <1>1
    <3> QED BY <1>5, <3>1, <3>2
  <2>3. /\ carry[WORD * i] = c
        /\ \A k \in WORD * i .. WORD * i + WORD - 1 : DigitOf(a[k], b[k], carry[k + 1]) = r[k]
    <3> HIDE DEF i
    <3> QED BY <2>1, <2>2, WordDigits
  <2>4. WORD * i .. WORD * i + WORD - 1 = QUAD - WORD .. QUAD - 1
    <3>0. WORD * i + WORD - 1 = QUAD - 1
      BY <1>1, <2>1
    <3> HIDE DEF i
    <3> QED BY <2>1, <3>0
  <2> QED BY <2>1, <2>3, <2>4
<1>8. \A k \in QUAD - 2 * WORD .. QUAD - WORD - 1 : ok(k)
  <2> DEFINE i == WORDS - 2
  <2>1. i \in 0 .. WORDS - 1 /\ WORD * i + WORD = QUAD - WORD /\ WORD * i = QUAD - 2 * WORD
        /\ Elem(a, WORD, i) + Elem(b, WORD, i) + c = Elem(r, WORD, i) + M * d
        /\ carry[WORD * i + WORD] = c /\ carry[WORD * i + WORD] \in {0, 1}
    BY <1>6, <1>7 DEF W
  <2>2. \A k \in WORD * i .. WORD * i + WORD - 1 : carry[k] = CarryOf(a[k], b[k], carry[k + 1])
    <3>0. WORD * i + WORD - 1 = QUAD - WORD - 1
      BY <1>1, <2>1
    <3> HIDE DEF i
    <3>1. WORD * i .. WORD * i + WORD - 1 = QUAD - 2 * WORD .. QUAD - WORD - 1
      BY <2>1, <3>0
    <3>2. \A k \in QUAD - 2 * WORD .. QUAD - WORD - 1 : k \in QUAD - 2 * WORD .. QUAD - 1
      BY <1>1
    <3> QED BY <1>5, <3>1, <3>2
  <2>3. \A k \in WORD * i .. WORD * i + WORD - 1 : DigitOf(a[k], b[k], carry[k + 1]) = r[k]
    <3> HIDE DEF i
    <3> QED BY <2>1, <2>2, WordDigits
  <2>4. WORD * i .. WORD * i + WORD - 1 = QUAD - 2 * WORD .. QUAD - WORD - 1
    <3>0. WORD * i + WORD - 1 = QUAD - WORD - 1
      BY <1>1, <2>1
    <3> HIDE DEF i
    <3> QED BY <2>1, <3>0
  <2> QED BY <2>1, <2>3, <2>4
<1>9. \A k \in Pair : ok(k)
  <2> SUFFICES ASSUME NEW k \in Pair PROVE ok(k)
    OBVIOUS
  <2>1. k \in QUAD - WORD .. QUAD - 1 \/ k \in QUAD - 2 * WORD .. QUAD - WORD - 1
    BY <1>1 DEF Pair
  <2> HIDE DEF ok
  <2> QED BY <1>7, <1>8, <2>1
<1> QED BY <1>4, <1>9 DEF Double

\* Words copied from one place of a register to another, and words of zeros.
LEMMA WordCopied ==
  ASSUME NEW q \in Quad, NEW r, NEW i \in 0 .. WORDS - 1, NEW j \in 0 .. WORDS - 1,
         \A k \in 0 .. WORD - 1 : r[WORD * i + k] = q[WORD * j + k]
  PROVE  Elem(r, WORD, i) = Elem(q, WORD, j)
<1>1. i \in Int /\ j \in Int
  BY Widths
<1>2. \A k \in 0 .. WORD - 1 : q[WORD * j + k] \in Int
  <2>1. \A k \in 0 .. WORD - 1 : WORD * j + k \in Bytes
    BY Places
  <2> QED BY <2>1 DEF Quad, Byte
<1>3. \A k \in 0 .. WORD - 1 : r[WORD * i + k] \in Int
  BY <1>2
<1>4. /\ WORD = 2 => {0, 1} = 0 .. WORD - 1
      /\ WORD = 4 => {0, 1, 2, 3} = 0 .. WORD - 1
      /\ WORD * i + 0 = WORD * i /\ WORD * j + 0 = WORD * j
  BY <1>1, Widths
<1>5. CASE WORD = 2
  <2>1. r[WORD * i] = q[WORD * j] /\ r[WORD * i + 1] = q[WORD * j + 1]
    BY <1>4, <1>5
  <2> QED BY <1>1, <1>2, <1>3, <1>5, <2>1, WordIs
<1>6. CASE WORD = 4
  <2>1. /\ r[WORD * i] = q[WORD * j] /\ r[WORD * i + 1] = q[WORD * j + 1]
        /\ r[WORD * i + 2] = q[WORD * j + 2] /\ r[WORD * i + 3] = q[WORD * j + 3]
    BY <1>4, <1>6
  <2> QED BY <1>1, <1>2, <1>3, <1>6, <2>1, WordIs
<1> QED BY <1>5, <1>6, Widths

LEMMA ZeroWord ==
  ASSUME NEW r, NEW i \in 0 .. WORDS - 1, \A k \in Bytes : k \div WORD = i => r[k] = 0
  PROVE  Elem(r, WORD, i) = 0
<1>1. i \in Int
  BY Widths
<1>2. \A k \in 0 .. WORD - 1 : r[WORD * i + k] = 0
  BY Places
<1>3. /\ WORD = 2 => {0, 1} = 0 .. WORD - 1
      /\ WORD = 4 => {0, 1, 2, 3} = 0 .. WORD - 1
  OBVIOUS
<1>7. WORD * i + 0 = WORD * i
  BY <1>1, Widths
<1>0. \A k \in 0 .. WORD - 1 : r[WORD * i + k] \in Int
  BY <1>2
<1>4. CASE WORD = 2
  <2>1. r[WORD * i] = 0 /\ r[WORD * i + 1] = 0
    BY <1>2, <1>3, <1>4, <1>7
  <2>2. Elem(r, WORD, i) = 256 * r[WORD * i] + r[WORD * i + 1]
    BY <1>0, <1>1, <1>4, WordIs
  <2> QED BY <2>1, <2>2
<1>5. CASE WORD = 4
  <2>1. r[WORD * i] = 0 /\ r[WORD * i + 1] = 0 /\ r[WORD * i + 2] = 0 /\ r[WORD * i + 3] = 0
    BY <1>2, <1>3, <1>5, <1>7
  <2>2. Elem(r, WORD, i) = 256 * (256 * (256 * r[WORD * i] + r[WORD * i + 1])
                                    + r[WORD * i + 2]) + r[WORD * i + 3]
    BY <1>0, <1>1, <1>5, WordIs
  <2> QED BY <2>1, <2>2
<1> QED BY <1>4, <1>5, Widths

\* A register moved left by a word.
LEMMA MovedLeft ==
  ASSUME NEW q \in Quad, NEW r, r = QuadShift("shlqby", q, WORD)
  PROVE  /\ r \in Quad /\ \A k \in Bytes : k \div WORD = WORDS - 1 => r[k] = 0
         /\ W(r, WORDS - 1) = 0 /\ W(r, WORDS - 2) = W(q, WORDS - 1)
<1>1. WORD % (2 * QUAD) = WORD
  BY Shapes
<1>2. r = [k \in Bytes |-> IF k + WORD < QUAD THEN q[k + WORD] ELSE 0]
  BY <1>1 DEF QuadShift, q_shl_bytes
<1>3. r \in Quad
  <2>1. \A k \in Bytes : k + WORD < QUAD => k + WORD \in Bytes
    BY Widths
  <2> QED BY <1>2, <2>1 DEF Quad, Byte
<1>4. /\ WORDS - 1 \in 0 .. WORDS - 1 /\ WORDS - 2 \in 0 .. WORDS - 1
      /\ WORD * (WORDS - 1) = QUAD - WORD /\ WORD * (WORDS - 2) = QUAD - 2 * WORD
      /\ \A k \in Bytes : k \div WORD = WORDS - 1 => ~(k + WORD < QUAD)
  <2>1. Bytes = 0 .. QUAD - 1
    BY Widths
  <2> QED BY <2>1, Shapes
<1>5. \A k \in Bytes : k \div WORD = WORDS - 1 => r[k] = 0
  BY <1>2, <1>4
<1>6. \A k \in 0 .. WORD - 1 : r[WORD * (WORDS - 2) + k] = q[WORD * (WORDS - 1) + k]
  <2> SUFFICES ASSUME NEW k \in 0 .. WORD - 1
               PROVE  r[QUAD - 2 * WORD + k] = q[QUAD - WORD + k]
    BY <1>4
  <2>1. /\ QUAD - 2 * WORD + k \in Bytes /\ QUAD - 2 * WORD + k + WORD < QUAD
        /\ QUAD - 2 * WORD + k + WORD = QUAD - WORD + k
    BY Widths
  <2> QED BY <1>2, <2>1
<1>7. Elem(r, WORD, WORDS - 2) = Elem(q, WORD, WORDS - 1)
  BY <1>4, <1>6, WordCopied
<1>8. Elem(r, WORD, WORDS - 1) = 0
  BY <1>4, <1>5, ZeroWord
<1> QED BY <1>3, <1>5, <1>7, <1>8 DEF W

\* The first word of a register moved to the last one.
LEMMA MovedRight ==
  ASSUME NEW q \in Quad, NEW r, r = QuadShift("rotqmby", q, WORD - QUAD)
  PROVE  /\ r \in Quad /\ \A k \in Bytes : k \div WORD # WORDS - 1 => r[k] = 0
         /\ W(r, WORDS - 1) = W(q, 0)
<1>1. (-(WORD - QUAD)) % (2 * QUAD) = QUAD - WORD
  BY Shapes
<1>2. r = [k \in Bytes |-> IF k >= QUAD - WORD THEN q[k - (QUAD - WORD)] ELSE 0]
  BY <1>1 DEF QuadShift, q_shr_bytes
<1>3. r \in Quad
  <2>1. \A k \in Bytes : k >= QUAD - WORD => k - (QUAD - WORD) \in Bytes
    BY Widths
  <2> QED BY <1>2, <2>1 DEF Quad, Byte
<1>4. /\ WORDS - 1 \in 0 .. WORDS - 1 /\ 0 \in 0 .. WORDS - 1
      /\ WORD * (WORDS - 1) = QUAD - WORD /\ WORD * 0 = 0
      /\ \A k \in Bytes : k \div WORD # WORDS - 1 => ~(k >= QUAD - WORD)
  <2>1. Bytes = 0 .. QUAD - 1
    BY Widths
  <2> QED BY <2>1, Shapes
<1>5. \A k \in Bytes : k \div WORD # WORDS - 1 => r[k] = 0
  BY <1>2, <1>4
<1>6. \A k \in 0 .. WORD - 1 : r[WORD * (WORDS - 1) + k] = q[WORD * 0 + k]
  <2> SUFFICES ASSUME NEW k \in 0 .. WORD - 1
               PROVE  r[QUAD - WORD + k] = q[k]
    <3>1. \A k \in 0 .. WORD - 1 : 0 + k = k
      BY Widths
    <3> QED BY <1>4, <3>1
  <2> DEFINE x == QUAD - WORD + k
  <2>1. x \in Bytes /\ x >= QUAD - WORD /\ x - (QUAD - WORD) = k
    BY Widths
  <2> HIDE DEF x
  <2>2. r[x] = q[x - (QUAD - WORD)]
    BY <1>2, <2>1
  <2> QED BY <2>1, <2>2 DEF x
<1>7. Elem(r, WORD, WORDS - 1) = Elem(q, WORD, 0)
  BY <1>4, <1>6, WordCopied
<1> QED BY <1>3, <1>5, <1>7 DEF W

\* A sum, a difference or a carry, word by word.
LEMMA WideInstruction ==
  ASSUME gpr \in [Registers -> Quad], Step, Insn.op \in {"cg", "bg", "addx", "sfx"},
         Insn.size = WORD, Insn.form = "RR",
         Insn.rt \in Registers, Insn.ra \in Registers, Insn.rb \in Registers
  PROVE  /\ gpr' \in [Registers -> Quad]
         /\ \A r \in Registers : r # Insn.rt => gpr'[r] = gpr[r]
         /\ pc' = Sequential /\ UNCHANGED <<ls, running, staged, posted, memory>>
         /\ \A i \in 0 .. WORDS - 1 :
              W(gpr'[Insn.rt], i) = Arithmetic(Insn.op, W(gpr[Insn.ra], i), W(gpr[Insn.rb], i),
                                               W(gpr[Insn.rt], i), WORD) % M
<1> DEFINE lane(i) == Arithmetic(Insn.op, W(gpr[Insn.ra], i), W(gpr[Insn.rb], i),
                                 W(gpr[Insn.rt], i), WORD)
           w == [i \in 0 .. WORDS - 1 |-> lane(i)]
<1>1. Insn.op \in ElementOps
  BY DEF ElementOps, ArithmeticOps
<1>2. ASSUME NEW i \in 0 .. WORDS - 1 PROVE Lane(gpr, Insn, i) = lane(i) /\ lane(i) \in Int
  <2>1. Operand(gpr, Insn, i) = W(gpr[Insn.rb], i)
    BY DEF Operand, W
  <2>2. \A x, y, t : Element(Insn.op, x, y, t, WORD) = Arithmetic(Insn.op, x, y, t, WORD)
    BY DEF Element, LogicOps, ArithmeticOps, CompareOps, MultiplyOps, ShiftOps, UnaryOps
  <2>3. /\ W(gpr[Insn.ra], i) \in Int /\ W(gpr[Insn.rb], i) \in Int /\ W(gpr[Insn.rt], i) \in Int
    <3>1. \A q \in Quad : W(q, i) \in 0 .. M - 1
      BY ElemInRange DEF W
    <3>2. M \in Nat
      BY Widths
    <3>3. \A q \in Quad : W(q, i) \in Int
      BY <3>1, <3>2
    <3> QED BY <3>3
  <2>4. ASSUME NEW x \in Int, NEW y \in Int, NEW t \in Int
        PROVE  Arithmetic(Insn.op, x, y, t, WORD) \in Int
    <3>1. M \in Nat /\ M > 0 /\ Weight(WORD) = M /\ Ones(WORD) = M - 1
      BY Widths
    <3>2. (x + y) \div M \in Int /\ t % 2 \in Int /\ M - 1 - x \in Int
      BY <3>1
    <3> QED BY <3>1, <3>2 DEF Arithmetic, Complement
  <2> QED BY <2>1, <2>2, <2>3, <2>4, SMTT(30) DEF Lane, W
<1> HIDE DEF lane
<1>3. w \in [0 .. WORDS - 1 -> Int] /\ \A i \in 0 .. WORDS - 1 : Lane(gpr, Insn, i) = w[i]
  BY <1>2
<1>4. \A i \in 0 .. WORDS - 1 : w[i] = lane(i)
  OBVIOUS
<1> HIDE DEF w
<1>5. /\ pc' = Sequential /\ UNCHANGED <<ls, running, staged, posted, memory>>
      /\ File(gpr') /\ gpr'[Insn.rt] \in Quad
      /\ \A r \in Registers : r # Insn.rt => gpr'[r] = gpr[r]
      /\ \A i \in 0 .. WORDS - 1 : Elem(gpr'[Insn.rt], WORD, i) = w[i] % M
  BY <1>1, <1>3, FileOfQuads, WordInstruction
<1>6. gpr' \in [Registers -> Quad]
  BY <1>5, FileOfQuads
<1> QED BY <1>4, <1>5, <1>6 DEF lane, W

\* A byte of a register ored with nothing is that byte.
LEMMA OrBytes ==
  ASSUME gpr \in [Registers -> Quad], Step, Insn.op = "or", Insn.size = 1, Insn.form = "RR",
         Insn.rt \in Registers, Insn.ra \in Registers, Insn.rb \in Registers,
         \A k \in Bytes : gpr[Insn.ra][k] = 0 \/ gpr[Insn.rb][k] = 0
  PROVE  /\ gpr' \in [Registers -> Quad]
         /\ \A r \in Registers : r # Insn.rt => gpr'[r] = gpr[r]
         /\ pc' = Sequential /\ UNCHANGED <<ls, running, staged, posted, memory>>
         /\ \A k \in Bytes : gpr'[Insn.rt][k] = IF gpr[Insn.ra][k] = 0 THEN gpr[Insn.rb][k]
                                                ELSE gpr[Insn.ra][k]
<1> DEFINE a == gpr[Insn.ra]
           b == gpr[Insn.rb]
           byte(k) == IF a[k] = 0 THEN b[k] ELSE a[k]
<1>1. /\ pc' = Sequential /\ UNCHANGED <<ls, running, staged, posted, memory>>
      /\ gpr' = ElementLoop(gpr, Insn)
  BY StepElement DEF ElementOps, LogicOps
<1>2. ASSUME NEW k \in Bytes
      PROVE  (Lane(gpr, Insn, k \div Insn.size)
                \div Weight(Insn.size - 1 - (k % Insn.size))) % 256 = byte(k) /\ byte(k) \in Byte
  <2>1. a[k] \in Byte /\ b[k] \in Byte /\ (a[k] = 0 \/ b[k] = 0)
    BY DEF Quad
  <2>2. k \in Int /\ k \div 1 = k /\ k % 1 = 0 /\ 1 - 1 - 0 = 0 /\ Weight(0) = 1
    BY Widths
  <2>3. \A q \in Quad : Elem(q, 1, k) = q[k]
    <3> SUFFICES ASSUME NEW q \in Quad PROVE Elem(q, 1, k) = q[k]
      OBVIOUS
    <3>1. Elem(q, 1, k) = 256 * 0 + q[1 * k + 1 - 1]
      BY ElemUnfold
    <3>2. 1 * k + 1 - 1 = k
      BY <2>2
    <3>3. q[k] \in Int
      BY SMTT(30) DEF Quad, Byte
    <3>4. 256 * 0 + q[k] = q[k]
      BY <3>3
    <3> QED BY <3>1, <3>2, <3>4
  <2>4. Elem(a, 1, k) = a[k] /\ Elem(b, 1, k) = b[k]
    BY <2>3
  <2>5. \A x, y, t : Element("or", x, y, t, 1) = Logic("or", x, y, 1)
    BY DEF Element, LogicOps, ArithmeticOps, CompareOps, MultiplyOps, ShiftOps, UnaryOps
  <2>6. Lane(gpr, Insn, k) = Logic("or", a[k], b[k], 1)
    BY <2>4, <2>5 DEF Lane, Operand
  <2>7. Logic("or", a[k], b[k], 1) = byte(k) /\ byte(k) \in Byte
    <3>1. \A x \in Byte : Logic("or", x, 0, 1) = x /\ Logic("or", 0, x, 1) = x
      BY OrNothing
    <3> QED BY <2>1, <3>1
  <2> HIDE DEF byte
  <2>8. \A v \in Byte : (v \div 1) % 256 = v
    BY DEF Byte
  <2> QED BY <2>2, <2>6, <2>7, <2>8
<1> HIDE DEF byte
<1>3. gpr' = [gpr EXCEPT ![Insn.rt] = [k \in Bytes |-> byte(k)]]
  <2>1. File(gpr) /\ Insn.size \in Sizes
    BY DEF File, Sizes
  <2>2. gpr' = [gpr EXCEPT ![Insn.rt] =
                  [k \in Bytes |-> (Lane(gpr, Insn, k \div Insn.size)
                                      \div Weight(Insn.size - 1 - (k % Insn.size))) % 256]]
    BY <1>1, <2>1, SizedLoop
  <2> QED BY <1>2, <2>2
<1>4. [k \in Bytes |-> byte(k)] \in Quad
  BY <1>2 DEF Quad
<1>5. /\ gpr' \in [Registers -> Quad]
      /\ \A r \in Registers : r # Insn.rt => gpr'[r] = gpr[r]
      /\ \A k \in Bytes : gpr'[Insn.rt][k] = byte(k)
  BY <1>3, <1>4
<1> QED BY <1>1, <1>5 DEF byte

\* What a sum of two words and a carry leaves in a word, and what it carries.
LEMMA WordCarry ==
  ASSUME NEW s \in 0 .. 2 * M - 1
  PROVE  /\ s \div M \in {0, 1} /\ (s \div M) % M = s \div M /\ s = (s % M) + M * (s \div M)
         /\ \A e \in {0, 1} : e % 2 = e /\ e % M = e
<1>0. s \in Int /\ 0 <= s /\ s < M + M
  <2>1. M \in Nat
    BY Widths
  <2> QED BY <2>1
<1>3. \A e \in {0, 1} : e % 2 = e
  OBVIOUS
<1>1. CASE WORD = 2
  <2> DEFINE K == 256 * 256
  <2>1. M = K
    BY <1>1, Widths
  <2>2. \A v \in Int : v = (v % K) + K * (v \div K)
    OBVIOUS
  <2>3. \A v \in Int : 0 <= v /\ v < K + K => v \div K \in {0, 1}
    OBVIOUS
  <2>4. \A e \in {0, 1} : e % K = e
    OBVIOUS
  <2> HIDE DEF K
  <2>5. s = (s % M) + M * (s \div M) /\ s \div M \in {0, 1}
    BY <1>0, <2>1, <2>2, <2>3
  <2>6. \A e \in {0, 1} : e % M = e
    BY <2>1, <2>4
  <2> QED BY <1>3, <2>5, <2>6
<1>2. CASE WORD = 4
  <2> DEFINE K == 256 * 256 * 256 * 256
  <2>1. M = K
    BY <1>2, Widths
  <2>2. \A v \in Int : v = (v % K) + K * (v \div K)
    OBVIOUS
  <2>3. \A v \in Int : 0 <= v /\ v < K + K => v \div K \in {0, 1}
    OBVIOUS
  <2>4. \A e \in {0, 1} : e % K = e
    OBVIOUS
  <2> HIDE DEF K
  <2>5. s = (s % M) + M * (s \div M) /\ s \div M \in {0, 1}
    BY <1>0, <2>1, <2>2, <2>3
  <2>6. \A e \in {0, 1} : e % M = e
    BY <2>1, <2>4
  <2> QED BY <1>3, <2>5, <2>6
<1> QED BY <1>1, <1>2, Widths

\* The four instructions on the words x of RA and y of RB with the carry e.
LEMMA WideArithmetic ==
  ASSUME NEW x \in 0 .. M - 1, NEW y \in 0 .. M - 1, NEW e \in {0, 1}
  PROVE  /\ \A t : /\ Arithmetic("cg", x, y, t, WORD) % M = (x + y) \div M
                   /\ Arithmetic("bg", x, y, t, WORD) % M = IF x <= y THEN 1 ELSE 0
         /\ Arithmetic("addx", x, y, e, WORD) % M = (x + y + e) % M
         /\ Arithmetic("sfx", x, y, e, WORD) % M = (y - x + e + M - 1) % M
<1>1. M \in Nat /\ M > 1 /\ Weight(WORD) = M /\ Ones(WORD) = M - 1
  BY Widths
<1>2. x + y \in 0 .. 2 * M - 1 /\ 0 \in 0 .. 2 * M - 1
  BY <1>1
<1>3. /\ ((x + y) \div M) % M = (x + y) \div M /\ e % 2 = e
      /\ 0 % M = 0 /\ 1 % M = 1
  BY <1>2, WordCarry
<1>4. y + (M - 1 - x) + e = y - x + e + M - 1
  BY <1>1
<1> QED BY <1>1, <1>3, <1>4 DEF Arithmetic, Complement

Carry(a, b) == (W(a, WORDS - 1) + W(b, WORDS - 1)) \div M
NoBorrow(a, b) == IF W(b, WORDS - 1) <= W(a, WORDS - 1) THEN 1 ELSE 0

LEMMA LastWords ==
  ASSUME NEW a \in Quad, NEW b \in Quad
  PROVE  /\ WORDS - 1 \in 0 .. WORDS - 1 /\ WORDS - 2 \in 0 .. WORDS - 1
         /\ WORDS - 1 # WORDS - 2 /\ 0 \in 0 .. WORDS - 1 /\ M \in Nat /\ M > 1
         /\ W(a, WORDS - 1) \in 0 .. M - 1 /\ W(a, WORDS - 2) \in 0 .. M - 1
         /\ W(b, WORDS - 1) \in 0 .. M - 1 /\ W(b, WORDS - 2) \in 0 .. M - 1
         /\ Carry(a, b) \in {0, 1} /\ NoBorrow(a, b) \in {0, 1}
<1>1. /\ WORDS - 1 \in 0 .. WORDS - 1 /\ WORDS - 2 \in 0 .. WORDS - 1
      /\ WORDS - 1 # WORDS - 2 /\ 0 \in 0 .. WORDS - 1 /\ M \in Nat /\ M > 1
  BY Widths
<1>2. /\ W(a, WORDS - 1) \in 0 .. M - 1 /\ W(a, WORDS - 2) \in 0 .. M - 1
      /\ W(b, WORDS - 1) \in 0 .. M - 1 /\ W(b, WORDS - 2) \in 0 .. M - 1
  BY <1>1, ElemInRange DEF W
<1>3. W(a, WORDS - 1) + W(b, WORDS - 1) \in 0 .. 2 * M - 1
  BY <1>1, <1>2
<1>4. Carry(a, b) \in {0, 1}
  BY <1>3, WordCarry DEF Carry
<1> QED BY <1>1, <1>2, <1>4 DEF NoBorrow

\* The words that cg, a word's shift and addx leave are those of the sum.
LEMMA AddsUp ==
  ASSUME NEW a \in Quad, NEW b \in Quad, NEW r \in Quad,
         W(r, WORDS - 1) = (W(a, WORDS - 1) + W(b, WORDS - 1) + 0) % M,
         W(r, WORDS - 2) = (W(a, WORDS - 2) + W(b, WORDS - 2) + Carry(a, b)) % M
  PROVE  Sum(a, b) = Double(r)
<1> DEFINE c == Carry(a, b)
           s == W(a, WORDS - 1) + W(b, WORDS - 1)
           t == W(a, WORDS - 2) + W(b, WORDS - 2) + c
           d == t \div M
<1>1. s \in 0 .. 2 * M - 1 /\ t \in 0 .. 2 * M - 1 /\ s + 0 = s /\ c \in {0, 1}
  <2> HIDE DEF c
  <2> QED BY LastWords DEF c
<1>2. s = W(r, WORDS - 1) + M * c
  BY <1>1, WordCarry DEF Carry
<1>3. t = W(r, WORDS - 2) + M * d /\ d \in {0, 1}
  <2> HIDE DEF t
  <2>1. t \div M \in {0, 1} /\ t = (t % M) + M * (t \div M)
    BY <1>1, WordCarry
  <2> QED BY <2>1 DEF t
<1> HIDE DEF c, d
<1> QED BY <1>1, <1>2, <1>3, SumIs

\* The words that bg, a word's shift and sfx leave add up with B to A.
LEMMA SubtractsDown ==
  ASSUME NEW a \in Quad, NEW b \in Quad, NEW r \in Quad,
         W(r, WORDS - 1) = (W(a, WORDS - 1) - W(b, WORDS - 1) + 1 + M - 1) % M,
         W(r, WORDS - 2) = (W(a, WORDS - 2) - W(b, WORDS - 2) + NoBorrow(a, b) + M - 1) % M
  PROVE  Sum(r, b) = Double(a)
<1> DEFINE e  == NoBorrow(a, b)
           a0 == W(a, WORDS - 2)
           a1 == W(a, WORDS - 1)
           b0 == W(b, WORDS - 2)
           b1 == W(b, WORDS - 1)
           s == a1 - b1 + 1 + M - 1
           t == a0 - b0 + e + M - 1
<1>1. /\ M \in Nat /\ M > 1 /\ a0 \in 0 .. M - 1 /\ a1 \in 0 .. M - 1
      /\ b0 \in 0 .. M - 1 /\ b1 \in 0 .. M - 1 /\ e \in {0, 1}
  BY LastWords
<1>2. e = IF b1 <= a1 THEN 1 ELSE 0
  BY DEF NoBorrow
<1>3. W(r, WORDS - 1) = s % M /\ W(r, WORDS - 2) = t % M
  OBVIOUS
<1> HIDE DEF e, a0, a1, b0, b1
<1>4. s \in 0 .. 2 * M - 1 /\ t \in 0 .. 2 * M - 1
  BY <1>1
<1> DEFINE p == s \div M
           q == t \div M
<1>5. p \in {0, 1} /\ q \in {0, 1} /\ s = (s % M) + M * p /\ t = (t % M) + M * q
  BY <1>4, WordCarry
<1>6. s % M \in Int /\ t % M \in Int /\ 0 <= s % M /\ s % M < M
  BY <1>1, <1>4
<1> DEFINE u == s % M
           v == t % M
<1>7. /\ u \in Int /\ v \in Int /\ 0 <= u /\ u < M /\ a1 - b1 + 1 + M - 1 = u + M * p
      /\ a0 - b0 + e + M - 1 = v + M * q /\ p \in {0, 1} /\ q \in {0, 1}
      /\ W(r, WORDS - 1) = u /\ W(r, WORDS - 2) = v
  BY <1>3, <1>5, <1>6
<1> HIDE DEF p, q, u, v, s, t
<1>8. p = e
  <2>1. M * 0 = 0 /\ M * 1 = M
    BY <1>1
  <2> QED BY <1>1, <1>2, <1>7, <2>1
<1>9. u + b1 = a1 + M * (1 - e) /\ 1 - e \in {0, 1}
  <2>1. CASE e = 0
    BY <1>1, <1>7, <1>8, <2>1
  <2>2. CASE e = 1
    BY <1>1, <1>7, <1>8, <2>2
  <2> QED BY <1>1, <2>1, <2>2
<1>10. v + b0 + (1 - e) = a0 + M * (1 - q) /\ 1 - q \in {0, 1}
  <2>1. CASE q = 0
    BY <1>1, <1>7, <2>1
  <2>2. CASE q = 1
    BY <1>1, <1>7, <2>2
  <2> QED BY <1>7, <2>1, <2>2
<1>11. /\ W(r, WORDS - 1) + W(b, WORDS - 1) = W(a, WORDS - 1) + M * (1 - e)
       /\ W(r, WORDS - 2) + W(b, WORDS - 2) + (1 - e) = W(a, WORDS - 2) + M * (1 - q)
  BY <1>7, <1>9, <1>10 DEF a0, a1, b0, b1
<1> QED BY <1>9, <1>10, <1>11, SumIs

\* How far an addition of two pairs of words has got.
AddInv ==
  program = WideAdd =>
    LET a == first.gpr[A]
        b == first.gpr[B]
    IN /\ At(4) /\ gpr \in [Registers -> Quad] /\ gpr[A] = a /\ gpr[B] = b
       /\ n = 1 => W(gpr[T], WORDS - 1) = Carry(a, b)
       /\ n = 2 => W(gpr[T], WORDS - 1) = 0 /\ W(gpr[T], WORDS - 2) = Carry(a, b)
       /\ n >= 3 => /\ W(gpr[T], WORDS - 1) = (W(a, WORDS - 1) + W(b, WORDS - 1) + 0) % M
                    /\ W(gpr[T], WORDS - 2) =
                         (W(a, WORDS - 2) + W(b, WORDS - 2) + Carry(a, b)) % M

LEMMA AddsRun == Spec => []AddInv
<1>1. Init => AddInv
  <2> SUFFICES ASSUME Init PROVE At(4) /\ gpr \in [Registers -> Quad] /\ gpr = first.gpr /\ n = 0
    BY DEF AddInv
  <2> QED BY InitFresh, StartAt DEF Fresh
<1>2. AddInv /\ [Step]_channelVars => AddInv'
  <2>1. CASE UNCHANGED channelVars
    BY <2>1 DEF AddInv, channelVars, vars, At, W, Carry
  <2>2. ASSUME AddInv, Step, program = WideAdd
        PROVE  AddInv'
    <3> DEFINE a == first.gpr[A]
               b == first.gpr[B]
    <3>1. /\ Len(program) = 4 /\ program[1] = RR("cg", WORD, T, A, B)
          /\ program[2] = RI("shlqby", WORD, T, T, WORD)
          /\ program[3] = RR("addx", WORD, T, A, B) /\ program[4] = Stop
      BY <2>2 DEF WideAdd
    <3>2. Insn = program[n + 1] /\ n \in 0 .. 3 /\ At(4)
      BY <2>2, <3>1, InsnOf DEF AddInv
    <3>3. /\ first' = first /\ n' = n + 1 /\ program' = program
          /\ a' = a /\ b' = b /\ Carry(a, b)' = Carry(a, b)
      BY <2>2, StepCounts DEF Carry, W
    <3>4. /\ gpr \in [Registers -> Quad] /\ gpr[A] = a /\ gpr[B] = b /\ a \in Quad /\ b \in Quad
          /\ gpr[T] \in Quad /\ T \in Registers /\ A \in Registers /\ B \in Registers
          /\ T # A /\ T # B
      BY <2>2, <3>2, SixRegisters DEF AddInv, At
    <3>5. ASSUME pc' = Sequential, running' <=> n + 1 < 4, gpr' \in [Registers -> Quad],
                 gpr'[A] = gpr[A], gpr'[B] = gpr[B],
                 n = 0 => W(gpr'[T], WORDS - 1) = Carry(a, b),
                 n = 1 => W(gpr'[T], WORDS - 1) = 0 /\ W(gpr'[T], WORDS - 2) = Carry(a, b),
                 n >= 2 =>
                   /\ W(gpr'[T], WORDS - 1) = (W(a, WORDS - 1) + W(b, WORDS - 1) + 0) % M
                   /\ W(gpr'[T], WORDS - 2) =
                        (W(a, WORDS - 2) + W(b, WORDS - 2) + Carry(a, b)) % M
          PROVE  AddInv'
      <4>1. At(4)'
        BY <2>2, <3>1, <3>2, <3>5, StepAt
      <4>2. n' = n + 1 /\ n \in 0 .. 3
        BY <3>2, <3>3
      <4> QED BY <3>3, <3>4, <3>5, <4>1, <4>2 DEF AddInv, W
    <3>6. CASE n = 0
      <4>1. Insn = RR("cg", WORD, T, A, B)
        BY <3>1, <3>2, <3>6
      <4>2. /\ Insn.op = "cg" /\ Insn.size = WORD /\ Insn.rt = T /\ Insn.ra = A /\ Insn.rb = B
            /\ Insn.form = "RR"
        BY <4>1 DEF RR, Ins
      <4>3. /\ gpr' \in [Registers -> Quad] /\ \A r \in Registers : r # T => gpr'[r] = gpr[r]
            /\ pc' = Sequential /\ running' = running
            /\ \A i \in 0 .. WORDS - 1 :
                 W(gpr'[T], i) = Arithmetic("cg", W(a, i), W(b, i), W(gpr[T], i), WORD) % M
        BY <2>2, <3>4, <4>2, WideInstruction
      <4>4. W(gpr'[T], WORDS - 1) = Carry(a, b)
        <5>1. /\ WORDS - 1 \in 0 .. WORDS - 1
              /\ W(a, WORDS - 1) \in 0 .. M - 1 /\ W(b, WORDS - 1) \in 0 .. M - 1 /\ 0 \in {0, 1}
          BY <3>4, LastWords
        <5>2. \A t : Arithmetic("cg", W(a, WORDS - 1), W(b, WORDS - 1), t, WORD) % M
                       = (W(a, WORDS - 1) + W(b, WORDS - 1)) \div M
          BY <5>1, WideArithmetic
        <5> QED BY <4>3, <5>1, <5>2 DEF Carry
      <4> QED BY <3>2, <3>4, <3>5, <3>6, <4>3, <4>4 DEF At
    <3>7. CASE n = 1
      <4>1. Insn = RI("shlqby", WORD, T, T, WORD)
        BY <3>1, <3>2, <3>7
      <4>2. /\ Insn.op = "shlqby" /\ Insn.rt = T /\ Insn.ra = T /\ Insn.imm = WORD
            /\ Insn.form = "RI"
        BY <4>1 DEF RI, Ins
      <4>3. pc' = Sequential /\ running' = running
            /\ gpr' = [gpr EXCEPT ![T] = QuadResult(Insn)]
        BY <2>2, <4>2, StepQuad DEF QuadOps, QuadShiftOps
      <4>4. QuadResult(Insn) = QuadShift("shlqby", gpr[T], WORD)
        BY <4>2 DEF QuadResult, QuadShiftOps, Scalar
      <4> DEFINE q == QuadResult(Insn)
      <4>5. q \in Quad /\ W(q, WORDS - 1) = 0 /\ W(q, WORDS - 2) = W(gpr[T], WORDS - 1)
        BY <3>4, <4>4, MovedLeft
      <4> HIDE DEF q
      <4>6. /\ gpr' \in [Registers -> Quad] /\ gpr'[T] = q /\ gpr'[A] = gpr[A]
            /\ gpr'[B] = gpr[B]
        BY <3>4, <4>3, <4>5 DEF q
      <4>7. W(gpr[T], WORDS - 1) = Carry(a, b)
        BY <2>2, <3>7 DEF AddInv
      <4> QED BY <3>2, <3>5, <3>7, <4>3, <4>5, <4>6, <4>7 DEF At
    <3>8. CASE n = 2
      <4>1. Insn = RR("addx", WORD, T, A, B)
        BY <3>1, <3>2, <3>8
      <4>2. /\ Insn.op = "addx" /\ Insn.size = WORD /\ Insn.rt = T /\ Insn.ra = A /\ Insn.rb = B
            /\ Insn.form = "RR"
        BY <4>1 DEF RR, Ins
      <4>3. /\ gpr' \in [Registers -> Quad] /\ \A r \in Registers : r # T => gpr'[r] = gpr[r]
            /\ pc' = Sequential /\ running' = running
            /\ \A i \in 0 .. WORDS - 1 :
                 W(gpr'[T], i) = Arithmetic("addx", W(a, i), W(b, i), W(gpr[T], i), WORD) % M
        BY <2>2, <3>4, <4>2, WideInstruction
      <4>4. W(gpr[T], WORDS - 1) = 0 /\ W(gpr[T], WORDS - 2) = Carry(a, b)
        BY <2>2, <3>8 DEF AddInv
      <4>5. /\ WORDS - 1 \in 0 .. WORDS - 1 /\ WORDS - 2 \in 0 .. WORDS - 1
            /\ W(a, WORDS - 1) \in 0 .. M - 1 /\ W(a, WORDS - 2) \in 0 .. M - 1
            /\ W(b, WORDS - 1) \in 0 .. M - 1 /\ W(b, WORDS - 2) \in 0 .. M - 1
            /\ Carry(a, b) \in {0, 1} /\ 0 \in {0, 1}
        BY <3>4, LastWords
      <4>6. W(gpr'[T], WORDS - 1) = (W(a, WORDS - 1) + W(b, WORDS - 1) + 0) % M
        BY <4>3, <4>4, <4>5, WideArithmetic
      <4>7. W(gpr'[T], WORDS - 2) = (W(a, WORDS - 2) + W(b, WORDS - 2) + Carry(a, b)) % M
        BY <4>3, <4>4, <4>5, WideArithmetic
      <4> QED BY <3>2, <3>4, <3>5, <3>8, <4>3, <4>6, <4>7 DEF At
    <3>9. CASE n = 3
      <4>1. Insn.op = "stop"
        BY <3>1, <3>2, <3>9 DEF Stop
      <4>2. pc' = Sequential /\ running' = FALSE /\ gpr' = gpr
        BY <2>2, <4>1, StepStop
      <4> QED BY <2>2, <3>4, <3>5, <3>9, <4>2 DEF AddInv
    <3> QED BY <3>2, <3>6, <3>7, <3>8, <3>9
  <2> QED BY <2>1, <2>2, StepCounts DEF AddInv
<1> QED BY <1>1, <1>2, PTL DEF Spec

\* How far a subtraction of two pairs of words has got.
SubInv ==
  program = WideSub =>
    LET a == first.gpr[A]
        b == first.gpr[B]
    IN /\ At(7) /\ gpr \in [Registers -> Quad] /\ gpr[A] = a /\ gpr[B] = b
       /\ n = 1 => W(gpr[T], WORDS - 1) = NoBorrow(a, b)
       /\ n \in 2 .. 4 => /\ W(gpr[T], WORDS - 2) = NoBorrow(a, b)
                          /\ \A k \in Bytes : k \div WORD = WORDS - 1 => gpr[T][k] = 0
       /\ n = 3 => W(gpr[U], 0) = 1
       /\ n = 4 => /\ W(gpr[U], WORDS - 1) = 1
                   /\ \A k \in Bytes : k \div WORD # WORDS - 1 => gpr[U][k] = 0
       /\ n = 5 => W(gpr[T], WORDS - 1) = 1 /\ W(gpr[T], WORDS - 2) = NoBorrow(a, b)
       /\ n >= 6 => /\ W(gpr[T], WORDS - 1) = (W(a, WORDS - 1) - W(b, WORDS - 1) + 1 + M - 1) % M
                    /\ W(gpr[T], WORDS - 2) =
                         (W(a, WORDS - 2) - W(b, WORDS - 2) + NoBorrow(a, b) + M - 1) % M

\* A register that ends in zeros, ored with one that is zero but for its end.
LEMMA EndFilled ==
  ASSUME NEW t \in Quad, NEW u \in Quad, NEW r,
         \A k \in Bytes : k \div WORD = WORDS - 1 => t[k] = 0,
         \A k \in Bytes : k \div WORD # WORDS - 1 => u[k] = 0,
         \A k \in Bytes : r[k] = IF t[k] = 0 THEN u[k] ELSE t[k]
  PROVE  W(r, WORDS - 1) = W(u, WORDS - 1) /\ W(r, WORDS - 2) = W(t, WORDS - 2)
<1>1. /\ WORD \in Sizes /\ WORDS - 1 \in 0 .. (QUAD \div WORD) - 1
      /\ WORDS - 2 \in 0 .. (QUAD \div WORD) - 1 /\ WORDS - 1 # WORDS - 2
  BY Shapes DEF Sizes
<1>2. \A k \in Bytes : k \div WORD = WORDS - 1 => r[k] = u[k]
  OBVIOUS
<1>3. \A k \in Bytes : k \div WORD = WORDS - 2 => r[k] = t[k]
  <2> SUFFICES ASSUME NEW k \in Bytes, k \div WORD = WORDS - 2 PROVE r[k] = t[k]
    OBVIOUS
  <2>1. u[k] = 0
    BY <1>1
  <2> QED BY <2>1
<1>4. Elem(r, WORD, WORDS - 1) = Elem(u, WORD, WORDS - 1)
  BY <1>1, <1>2, ElemLocal
<1>5. Elem(r, WORD, WORDS - 2) = Elem(t, WORD, WORDS - 2)
  BY <1>1, <1>3, ElemLocal
<1> QED BY <1>4, <1>5 DEF W

LEMMA SubtractionSteps ==
  ASSUME SubInv, Step, program = WideSub
  PROVE  SubInv'
<1> DEFINE a == first.gpr[A]
           b == first.gpr[B]
           low == WORDS - 1
           high == WORDS - 2
<1>1. /\ Len(program) = 7 /\ program[1] = RR("bg", WORD, T, B, A)
      /\ program[2] = RI("shlqby", WORD, T, T, WORD) /\ program[3] = RI("il", WORD, U, A, 1)
      /\ program[4] = RI("rotqmby", WORD, U, U, WORD - QUAD)
      /\ program[5] = RR("or", 1, T, T, U) /\ program[6] = RR("sfx", WORD, T, B, A)
      /\ program[7] = Stop
  BY DEF WideSub
<1>2. Insn = program[n + 1] /\ n \in 0 .. 6 /\ At(7)
  BY <1>1, InsnOf DEF SubInv
<1>3. /\ first' = first /\ n' = n + 1 /\ program' = program
      /\ a' = a /\ b' = b /\ NoBorrow(a, b)' = NoBorrow(a, b)
  BY StepCounts DEF NoBorrow, W
<1>4. /\ gpr \in [Registers -> Quad] /\ gpr[A] = a /\ gpr[B] = b /\ a \in Quad /\ b \in Quad
      /\ gpr[T] \in Quad /\ gpr[U] \in Quad
      /\ T \in Registers /\ A \in Registers /\ B \in Registers /\ U \in Registers
      /\ T # A /\ T # B /\ U # A /\ U # B /\ T # U
  BY <1>2, SixRegisters DEF SubInv, At
<1>5. ASSUME pc' = Sequential, running' <=> n + 1 < 7, gpr' \in [Registers -> Quad],
             gpr'[A] = gpr[A], gpr'[B] = gpr[B],
             n = 0 => W(gpr'[T], low) = NoBorrow(a, b),
             n \in 1 .. 3 => /\ W(gpr'[T], high) = NoBorrow(a, b)
                             /\ \A k \in Bytes : k \div WORD = low => gpr'[T][k] = 0,
             n = 2 => W(gpr'[U], 0) = 1,
             n = 3 => /\ W(gpr'[U], low) = 1
                      /\ \A k \in Bytes : k \div WORD # low => gpr'[U][k] = 0,
             n = 4 => W(gpr'[T], low) = 1 /\ W(gpr'[T], high) = NoBorrow(a, b),
             n >= 5 => /\ W(gpr'[T], low) = (W(a, low) - W(b, low) + 1 + M - 1) % M
                       /\ W(gpr'[T], high) = (W(a, high) - W(b, high) + NoBorrow(a, b) + M - 1) % M
      PROVE  SubInv'
  <2>1. At(7)'
    BY <1>1, <1>2, <1>5, StepAt
  <2>2. n' = n + 1 /\ n \in 0 .. 6
    BY <1>2, <1>3
  <2> QED BY <1>3, <1>4, <1>5, <2>1, <2>2 DEF SubInv, W
<1>6. CASE n = 0
  <2>1. Insn = RR("bg", WORD, T, B, A)
    BY <1>1, <1>2, <1>6
  <2>2. /\ Insn.op = "bg" /\ Insn.size = WORD /\ Insn.rt = T /\ Insn.ra = B /\ Insn.rb = A
        /\ Insn.form = "RR"
    BY <2>1 DEF RR, Ins
  <2>3. /\ gpr' \in [Registers -> Quad] /\ \A r \in Registers : r # T => gpr'[r] = gpr[r]
        /\ pc' = Sequential /\ running' = running
        /\ \A i \in 0 .. WORDS - 1 :
             W(gpr'[T], i) = Arithmetic("bg", W(b, i), W(a, i), W(gpr[T], i), WORD) % M
    BY <1>4, <2>2, WideInstruction
  <2>4. W(gpr'[T], low) = NoBorrow(a, b)
    <3>1. /\ low \in 0 .. WORDS - 1 /\ W(a, low) \in 0 .. M - 1 /\ W(b, low) \in 0 .. M - 1
          /\ 0 \in {0, 1}
      BY <1>4, LastWords
    <3>2. \A t : Arithmetic("bg", W(b, low), W(a, low), t, WORD) % M
                   = IF W(b, low) <= W(a, low) THEN 1 ELSE 0
      BY <3>1, WideArithmetic
    <3> QED BY <2>3, <3>1, <3>2 DEF NoBorrow
  <2> QED BY <1>2, <1>4, <1>5, <1>6, <2>3, <2>4 DEF At
<1>7. CASE n = 1
  <2>1. Insn = RI("shlqby", WORD, T, T, WORD)
    BY <1>1, <1>2, <1>7
  <2>2. Insn.op = "shlqby" /\ Insn.rt = T /\ Insn.ra = T /\ Insn.imm = WORD /\ Insn.form = "RI"
    BY <2>1 DEF RI, Ins
  <2>3. pc' = Sequential /\ running' = running /\ gpr' = [gpr EXCEPT ![T] = QuadResult(Insn)]
    BY <2>2, StepQuad DEF QuadOps, QuadShiftOps
  <2>4. QuadResult(Insn) = QuadShift("shlqby", gpr[T], WORD)
    BY <2>2 DEF QuadResult, QuadShiftOps, Scalar
  <2> DEFINE q == QuadResult(Insn)
  <2>5. /\ q \in Quad /\ \A k \in Bytes : k \div WORD = low => q[k] = 0
        /\ W(q, high) = W(gpr[T], low)
    BY <1>4, <2>4, MovedLeft
  <2> HIDE DEF q
  <2>6. gpr' \in [Registers -> Quad] /\ gpr'[T] = q /\ gpr'[A] = gpr[A] /\ gpr'[B] = gpr[B]
    BY <1>4, <2>3, <2>5 DEF q
  <2>7. W(gpr[T], low) = NoBorrow(a, b)
    BY <1>7 DEF SubInv
  <2> QED BY <1>2, <1>5, <1>7, <2>3, <2>5, <2>6, <2>7 DEF At
<1>8. CASE n = 2
  <2>1. Insn = RI("il", WORD, U, A, 1)
    BY <1>1, <1>2, <1>8
  <2>2. /\ Insn.op = "il" /\ Insn.size = WORD /\ Insn.rt = U /\ Insn.ra = A /\ Insn.rb = A
        /\ Insn.imm = 1 /\ Insn.form = "RI"
    BY <2>1 DEF RI, Ins
  <2>3. File(gpr) /\ 1 \in 0 .. M - 1
    BY <1>4, Widths DEF File
  <2>4. /\ pc' = Sequential /\ running' = running /\ gpr' = [gpr EXCEPT ![U] = gpr'[U]]
        /\ gpr'[U] \in Quad /\ Elem(gpr'[U], WORD, 0) = 1
    BY <1>4, <2>2, <2>3, Immediate
  <2>5. /\ gpr' \in [Registers -> Quad] /\ gpr'[T] = gpr[T] /\ gpr'[A] = gpr[A]
        /\ gpr'[B] = gpr[B]
    BY <1>4, <2>4
  <2>6. /\ W(gpr[T], high) = NoBorrow(a, b)
        /\ \A k \in Bytes : k \div WORD = low => gpr[T][k] = 0
    BY <1>8 DEF SubInv
  <2> QED BY <1>2, <1>5, <1>8, <2>4, <2>5, <2>6 DEF At, W
<1>9. CASE n = 3
  <2>1. Insn = RI("rotqmby", WORD, U, U, WORD - QUAD)
    BY <1>1, <1>2, <1>9
  <2>2. /\ Insn.op = "rotqmby" /\ Insn.rt = U /\ Insn.ra = U /\ Insn.imm = WORD - QUAD
        /\ Insn.form = "RI"
    BY <2>1 DEF RI, Ins
  <2>3. pc' = Sequential /\ running' = running /\ gpr' = [gpr EXCEPT ![U] = QuadResult(Insn)]
    BY <2>2, StepQuad DEF QuadOps, QuadShiftOps
  <2>4. QuadResult(Insn) = QuadShift("rotqmby", gpr[U], WORD - QUAD)
    BY <2>2 DEF QuadResult, QuadShiftOps, Scalar
  <2> DEFINE q == QuadResult(Insn)
  <2>5. /\ q \in Quad /\ \A k \in Bytes : k \div WORD # low => q[k] = 0
        /\ W(q, low) = W(gpr[U], 0)
    BY <1>4, <2>4, MovedRight
  <2> HIDE DEF q
  <2>6. /\ gpr' \in [Registers -> Quad] /\ gpr'[U] = q /\ gpr'[A] = gpr[A] /\ gpr'[B] = gpr[B]
        /\ gpr'[T] = gpr[T]
    BY <1>4, <2>3, <2>5 DEF q
  <2>7. /\ W(gpr[T], high) = NoBorrow(a, b) /\ W(gpr[U], 0) = 1
        /\ \A k \in Bytes : k \div WORD = low => gpr[T][k] = 0
    BY <1>9 DEF SubInv
  <2> QED BY <1>2, <1>5, <1>9, <2>3, <2>5, <2>6, <2>7 DEF At
<1>10. CASE n = 4
  <2>1. Insn = RR("or", 1, T, T, U)
    BY <1>1, <1>2, <1>10
  <2>2. /\ Insn.op = "or" /\ Insn.size = 1 /\ Insn.rt = T /\ Insn.ra = T /\ Insn.rb = U
        /\ Insn.form = "RR"
    BY <2>1 DEF RR, Ins
  <2>3. /\ W(gpr[T], high) = NoBorrow(a, b) /\ W(gpr[U], low) = 1
        /\ \A k \in Bytes : k \div WORD = low => gpr[T][k] = 0
        /\ \A k \in Bytes : k \div WORD # low => gpr[U][k] = 0
    BY <1>10 DEF SubInv
  <2>4. \A k \in Bytes : gpr[T][k] = 0 \/ gpr[U][k] = 0
    BY <2>3
  <2>5. /\ gpr' \in [Registers -> Quad] /\ \A r \in Registers : r # T => gpr'[r] = gpr[r]
        /\ pc' = Sequential /\ running' = running
        /\ \A k \in Bytes : gpr'[T][k] = IF gpr[T][k] = 0 THEN gpr[U][k] ELSE gpr[T][k]
    BY <1>4, <2>2, <2>4, OrBytes
  <2>6. W(gpr'[T], low) = W(gpr[U], low) /\ W(gpr'[T], high) = W(gpr[T], high)
    BY <1>4, <2>3, <2>5, EndFilled
  <2> QED BY <1>2, <1>4, <1>5, <1>10, <2>3, <2>5, <2>6 DEF At
<1>11. CASE n = 5
  <2>1. Insn = RR("sfx", WORD, T, B, A)
    BY <1>1, <1>2, <1>11
  <2>2. /\ Insn.op = "sfx" /\ Insn.size = WORD /\ Insn.rt = T /\ Insn.ra = B /\ Insn.rb = A
        /\ Insn.form = "RR"
    BY <2>1 DEF RR, Ins
  <2>3. /\ gpr' \in [Registers -> Quad] /\ \A r \in Registers : r # T => gpr'[r] = gpr[r]
        /\ pc' = Sequential /\ running' = running
        /\ \A i \in 0 .. WORDS - 1 :
             W(gpr'[T], i) = Arithmetic("sfx", W(b, i), W(a, i), W(gpr[T], i), WORD) % M
    BY <1>4, <2>2, WideInstruction
  <2>4. W(gpr[T], low) = 1 /\ W(gpr[T], high) = NoBorrow(a, b)
    BY <1>11 DEF SubInv
  <2>5. /\ low \in 0 .. WORDS - 1 /\ high \in 0 .. WORDS - 1
        /\ W(a, low) \in 0 .. M - 1 /\ W(a, high) \in 0 .. M - 1
        /\ W(b, low) \in 0 .. M - 1 /\ W(b, high) \in 0 .. M - 1
        /\ NoBorrow(a, b) \in {0, 1} /\ 1 \in {0, 1}
    BY <1>4, LastWords
  <2>6. W(gpr'[T], low) = (W(a, low) - W(b, low) + 1 + M - 1) % M
    BY <2>3, <2>4, <2>5, WideArithmetic
  <2>7. W(gpr'[T], high) = (W(a, high) - W(b, high) + NoBorrow(a, b) + M - 1) % M
    BY <2>3, <2>4, <2>5, WideArithmetic
  <2> QED BY <1>2, <1>4, <1>5, <1>11, <2>3, <2>6, <2>7 DEF At
<1>12. CASE n = 6
  <2>1. Insn.op = "stop"
    BY <1>1, <1>2, <1>12 DEF Stop
  <2>2. pc' = Sequential /\ running' = FALSE /\ gpr' = gpr
    BY <2>1, StepStop
  <2> QED BY <1>4, <1>5, <1>12, <2>2 DEF SubInv
<1> QED BY <1>2, <1>6, <1>7, <1>8, <1>9, <1>10, <1>11, <1>12

LEMMA SubtractsRun == Spec => []SubInv
<1>1. Init => SubInv
  <2> SUFFICES ASSUME Init PROVE At(7) /\ gpr \in [Registers -> Quad] /\ gpr = first.gpr /\ n = 0
    BY DEF SubInv
  <2> QED BY InitFresh, StartAt DEF Fresh
<1>2. SubInv /\ [Step]_channelVars => SubInv'
  <2>1. CASE UNCHANGED channelVars
    BY <2>1 DEF SubInv, channelVars, vars, At, W, NoBorrow
  <2>2. CASE program # WideSub /\ Step
    BY <2>2, StepCounts DEF SubInv
  <2> QED BY <2>1, <2>2, SubtractionSteps
<1> QED BY <1>1, <1>2, PTL DEF Spec

\* The carry of cg or bg, moved one word up by shlqbyi, makes addx and sfx add and
\* subtract two words as one number (spu_interp.cpp:665-672, 832-833).
THEOREM WideSumsAreExact == Spec => []WideSums
<1>1. ASSUME AddInv, SubInv PROVE WideSums
  <2> DEFINE a == first.gpr[A]
             b == first.gpr[B]
  <2>1. ASSUME program = WideAdd, Halted PROVE Double(gpr[T]) = Sum(a, b)
    <3>1. At(4) /\ gpr \in [Registers -> Quad] /\ gpr[A] = a /\ gpr[B] = b
      BY <1>1, <2>1 DEF AddInv
    <3>2. n = 4
      BY <2>1, <3>1, SpuAssumption, IdiomAssumption DEF Halted, At
    <3>3. a \in Quad /\ b \in Quad /\ gpr[T] \in Quad
      BY <3>1, SixRegisters
    <3>4. /\ W(gpr[T], WORDS - 1) = (W(a, WORDS - 1) + W(b, WORDS - 1) + 0) % M
          /\ W(gpr[T], WORDS - 2) = (W(a, WORDS - 2) + W(b, WORDS - 2) + Carry(a, b)) % M
      BY <1>1, <2>1, <3>2 DEF AddInv
    <3> QED BY <3>3, <3>4, AddsUp
  <2>2. ASSUME program = WideSub, Halted PROVE Sum(gpr[T], b) = Double(a)
    <3>1. At(7) /\ gpr \in [Registers -> Quad] /\ gpr[A] = a /\ gpr[B] = b
      BY <1>1, <2>2 DEF SubInv
    <3>2. n = 7
      BY <2>2, <3>1, SpuAssumption, IdiomAssumption DEF Halted, At
    <3>3. a \in Quad /\ b \in Quad /\ gpr[T] \in Quad
      BY <3>1, SixRegisters
    <3>4. /\ W(gpr[T], WORDS - 1) = (W(a, WORDS - 1) - W(b, WORDS - 1) + 1 + M - 1) % M
          /\ W(gpr[T], WORDS - 2) =
               (W(a, WORDS - 2) - W(b, WORDS - 2) + NoBorrow(a, b) + M - 1) % M
      BY <1>1, <2>2, <3>2 DEF SubInv
    <3> QED BY <3>3, <3>4, SubtractsDown
  <2> QED BY <2>1, <2>2 DEF WideSums
<1> QED BY <1>1, AddsRun, SubtractsRun, PTL

(***************************************************************************)
(* Bits of larger numbers.                                                 *)
(***************************************************************************)
\* A quotient and its remainder.
LEMMA DivMod ==
  ASSUME NEW d \in Int, d > 0, NEW x \in Int
  PROVE  /\ x \div d \in Int /\ x % d \in Int /\ 0 <= x % d /\ x % d < d
         /\ x = d * (x \div d) + (x % d)
OBVIOUS

LEMMA DivIs ==
  ASSUME NEW d \in Int, d > 0, NEW q \in Int, NEW r \in Int, 0 <= r, r < d,
         NEW x \in Int, x = d * q + r
  PROVE  x \div d = q
<1> DEFINE m == x \div d
           e == x % d
<1>1. m \in Int /\ e \in Int /\ 0 <= e /\ e < d /\ x = d * m + e
  BY DivMod
<1> HIDE DEF m, e
<1>2. d * (m - q) = r - e
  BY <1>1
<1> DEFINE k == m - q
<1>3. k \in Int /\ d * k < d /\ d * k > -d
  BY <1>1, <1>2
<1> HIDE DEF k
<1>4. k = 0
  <2>1. k >= 1 => d * k >= d
    BY <1>3
  <2>2. k <= -1 => d * k <= -d
    BY <1>3
  <2> QED BY <1>3, <2>1, <2>2
<1> QED BY <1>1, <1>4 DEF k, m

\* Dividing twice.
LEMMA DivDiv ==
  ASSUME NEW a \in Int, a > 0, NEW b \in Int, b > 0, NEW x \in Int
  PROVE  (x \div a) \div b = x \div (a * b)
<1> DEFINE u == x \div a
           r == x % a
           v == u \div b
           s == u % b
           d == a * b
           t == a * s + r
<1>1. u \in Int /\ r \in Int /\ 0 <= r /\ r < a /\ x = a * u + r
  BY DivMod
<1> HIDE DEF u, r
<1>2. v \in Int /\ s \in Int /\ 0 <= s /\ s < b /\ u = b * v + s
  BY <1>1, DivMod
<1> HIDE DEF v, s
<1>3. x = d * v + t
  <2>1. a * (b * v + s) + r = (a * b) * v + (a * s + r)
    BY <1>1, <1>2
  <2> QED BY <1>1, <1>2, <2>1
<1>4. 0 <= t /\ t < d /\ t \in Int /\ d \in Int /\ d > 0
  <2>1. a * s <= a * (b - 1) /\ a * s >= 0 /\ a * (b - 1) = a * b - a /\ a * b > 0
    BY <1>1, <1>2
  <2> QED BY <1>1, <1>2, <2>1
<1> HIDE DEF d, t
<1>5. x \div d = v
  BY <1>2, <1>3, <1>4, DivIs
<1> QED BY <1>5 DEF d, v, u

LEMMA PowerDoubles ==
  ASSUME NEW j \in 0 .. 15
  PROVE  Power(j) \in Nat /\ Power(j) > 0 /\ Power(j + 1) = 2 * Power(j)
<1>1. Weight(0) = 1 /\ Weight(1) = 256 /\ Weight(2) = 256 * 256
  BY Widths
<1>2. /\ 9 \div 8 = 1 /\ 10 \div 8 = 1 /\ 11 \div 8 = 1 /\ 12 \div 8 = 1 /\ 13 \div 8 = 1
      /\ 14 \div 8 = 1 /\ 15 \div 8 = 1 /\ 16 \div 8 = 2
      /\ 9 % 8 = 1 /\ 10 % 8 = 2 /\ 11 % 8 = 3 /\ 12 % 8 = 4 /\ 13 % 8 = 5
      /\ 14 % 8 = 6 /\ 15 % 8 = 7 /\ 16 % 8 = 0
  OBVIOUS
<1>3. /\ Power(9) = 256 * 2 /\ Power(10) = 256 * 4 /\ Power(11) = 256 * 8
      /\ Power(12) = 256 * 16 /\ Power(13) = 256 * 32 /\ Power(14) = 256 * 64
      /\ Power(15) = 256 * 128 /\ Power(16) = 256 * 256
  BY <1>1, <1>2 DEF Power
<1>4. j \in {0, 1, 2, 3, 4, 5, 6, 7} \/ j \in {8, 9, 10, 11, 12, 13, 14, 15}
  OBVIOUS
<1>5. CASE j \in {0, 1, 2, 3, 4, 5, 6, 7}
  BY <1>5, Powers
<1>6. CASE j \in {8, 9, 10, 11, 12, 13, 14, 15}
  BY <1>3, <1>6, Powers
<1> QED BY <1>4, <1>5, <1>6

\* A recursion that appends up to 16 bits has a solution.
LEMMA Appends ==
  ASSUME NEW b
  PROVE  \A j \in {2, 4, 8, 16} :
           \E v : v = [i \in 0 .. j |-> IF i = 0 THEN 0 ELSE 2 * v[i - 1] + b[i - 1]]
<1> DEFINE Solved(j) ==
             \E v : v = [i \in 0 .. j |-> IF i = 0 THEN 0 ELSE 2 * v[i - 1] + b[i - 1]]
<1>1. Solved(0)
  <2> DEFINE v == [i \in 0 .. 0 |-> 0]
  <2>1. v = [i \in 0 .. 0 |-> IF i = 0 THEN 0 ELSE 2 * v[i - 1] + b[i - 1]]
    OBVIOUS
  <2> QED BY <2>1
<1>2. ASSUME NEW j \in 0 .. 15, Solved(j) PROVE Solved(j + 1)
  <2>1. PICK v : v = [i \in 0 .. j |-> IF i = 0 THEN 0 ELSE 2 * v[i - 1] + b[i - 1]]
    BY <1>2
  <2> DEFINE w == [i \in 0 .. j + 1 |-> IF i = j + 1 THEN 2 * v[j] + b[j] ELSE v[i]]
             F(i) == IF i = 0 THEN 0 ELSE 2 * w[i - 1] + b[i - 1]
  <2>2. ASSUME NEW i \in 0 .. j + 1 PROVE w[i] = F(i)
    <3>1. CASE i = j + 1
      <4>1. i - 1 = j /\ i # 0 /\ j \in 0 .. j + 1 /\ j # j + 1
        BY <3>1
      <4>2. w[j] = v[j] /\ w[i] = 2 * v[j] + b[j]
        BY <3>1, <4>1
      <4> HIDE DEF w
      <4> QED BY <4>1, <4>2
    <3>2. CASE i # j + 1 /\ i # 0
      <4>1. i \in 0 .. j /\ i - 1 \in 0 .. j + 1 /\ i - 1 # j + 1
        BY <3>2
      <4>2. w[i] = v[i] /\ w[i - 1] = v[i - 1]
        BY <3>2, <4>1
      <4>3. v[i] = 2 * v[i - 1] + b[i - 1]
        BY <2>1, <3>2, <4>1
      <4> HIDE DEF w
      <4> QED BY <3>2, <4>2, <4>3
    <3>3. CASE i = 0
      <4>1. 0 # j + 1 /\ 0 \in 0 .. j
        OBVIOUS
      <4> QED BY <2>1, <3>3, <4>1
    <3> QED BY <3>1, <3>2, <3>3
  <2>3. w = [i \in 0 .. j + 1 |-> F(i)]
    <3> HIDE DEF F
    <3> SUFFICES ASSUME NEW i \in 0 .. j + 1 PROVE w[i] = F(i)
      OBVIOUS
    <3> QED BY <2>2
  <2> HIDE DEF w
  <2> QED BY <2>3
<1> HIDE DEF Solved
<1>3. Solved(2)
  BY <1>1, <1>2
<1>4. Solved(4)
  BY <1>3, <1>2
<1>5. Solved(6)
  BY <1>4, <1>2
<1>6. Solved(8)
  BY <1>5, <1>2
<1>7. Solved(10)
  BY <1>6, <1>2
<1>8. Solved(12)
  BY <1>7, <1>2
<1>9. Solved(14)
  BY <1>8, <1>2
<1>10. Solved(16)
  BY <1>9, <1>2
<1>11. \A j \in {2, 4, 8, 16} : Solved(j)
  BY <1>3, <1>4, <1>6, <1>10
<1> QED BY <1>11 DEF Solved

\* A number that has appended bits of a register reads them back.
LEMMA GatherBits ==
  ASSUME NEW a, NEW size \in Sizes,
         \A i \in 0 .. (QUAD \div size) - 1 : Elem(a, size, i) \in Int
  PROVE  /\ Gather(a, size) \in Nat /\ Gather(a, size) < Power(QUAD \div size)
         /\ \A i \in 0 .. (QUAD \div size) - 1 :
              (Gather(a, size) \div Power((QUAD \div size) - 1 - i)) % 2 = Elem(a, size, i) % 2
<1> DEFINE lanes == QUAD \div size
           bit(i) == Elem(a, size, i) % 2
           Is(v) == v = [i \in 0 .. QUAD \div size |->
                           IF i = 0 THEN 0 ELSE 2 * v[i - 1] + (Elem(a, size, i - 1) % 2)]
           value == CHOOSE v : Is(v)
<1>1. lanes \in {2, 4, 8, 16}
  BY Lanes
<1>2. Is(value)
  <2> DEFINE b == [i \in Int |-> bit(i)]
  <2>1. PICK v : v = [i \in 0 .. lanes |-> IF i = 0 THEN 0 ELSE 2 * v[i - 1] + b[i - 1]]
    <3> HIDE DEF b, lanes
    <3> QED BY ZenonT(40), <1>1, Appends
  <2>2. \A i \in 0 .. lanes : b[i - 1] = bit(i - 1)
    <3> HIDE DEF bit
    <3>1. \A i \in 0 .. lanes : i - 1 \in Int
      BY <1>1
    <3> QED BY <3>1
  <2>3. Is(v)
    <3> HIDE DEF b, bit, lanes
    <3>1. v = [i \in 0 .. lanes |-> IF i = 0 THEN 0 ELSE 2 * v[i - 1] + bit(i - 1)]
      BY <2>1, <2>2
    <3> QED BY <3>1 DEF bit, lanes
  <2> QED BY <2>3
<1>3. Gather(a, size) = value[lanes]
  BY DEF Gather
<1>4. value[0] = 0 /\ \A i \in 0 .. lanes - 1 : value[i + 1] = 2 * value[i] + bit(i)
  <2> HIDE DEF value, bit
  <2>1. \A i \in 0 .. lanes : value[i] = IF i = 0 THEN 0 ELSE 2 * value[i - 1] + bit(i - 1)
    BY <1>2 DEF bit
  <2>2. 0 \in 0 .. lanes
    BY <1>1
  <2>3. ASSUME NEW i \in 0 .. lanes - 1 PROVE value[i + 1] = 2 * value[i] + bit(i)
    <3> HIDE DEF lanes
    <3>1. i + 1 \in 0 .. lanes /\ i + 1 # 0 /\ i + 1 - 1 = i
      BY <1>1
    <3> QED BY <2>1, <3>1
  <2> QED BY <2>1, <2>2, <2>3
<1> HIDE DEF value, Is
<1>5. \A i \in 0 .. lanes - 1 : bit(i) \in {0, 1}
  <2> SUFFICES ASSUME NEW i \in 0 .. lanes - 1 PROVE bit(i) \in {0, 1}
    OBVIOUS
  <2>1. Elem(a, size, i) \in Int
    OBVIOUS
  <2> QED BY <2>1
<1> HIDE DEF bit
<1> DEFINE Holds(j) == /\ value[j] \in Nat /\ value[j] < Power(j)
                       /\ \A i \in 0 .. j - 1 : (value[j] \div Power(j - 1 - i)) % 2 = bit(i)
<1>6. Holds(0)
  BY <1>4, Powers
<1>7. ASSUME NEW j \in 0 .. lanes - 1, Holds(j) PROVE Holds(j + 1)
  <2> HIDE DEF lanes
  <2>1. j \in 0 .. 15 /\ j + 1 \in Nat /\ j \in Int
    BY <1>1
  <2> DEFINE x == value[j]
             y == value[j + 1]
  <2>2. x \in Nat /\ x < Power(j) /\ bit(j) \in {0, 1} /\ y = 2 * x + bit(j)
    BY <1>4, <1>5, <1>7
  <2>3. \A i \in 0 .. j - 1 : (x \div Power(j - 1 - i)) % 2 = bit(i)
    BY <1>7
  <2> HIDE DEF x, y
  <2>4. y \in Nat /\ y < Power(j + 1)
    <3>1. Power(j) \in Nat /\ Power(j + 1) = 2 * Power(j)
      BY <2>1, PowerDoubles
    <3> QED BY <2>2, <3>1
  <2>5. ASSUME NEW i \in 0 .. j PROVE (y \div Power(j - i)) % 2 = bit(i)
    <3>1. CASE i = j
      <4>1. j - i = 0 /\ Power(0) = 1
        BY <2>1, <3>1, Powers
      <4>2. (y \div 1) % 2 = bit(j)
        BY <2>2
      <4> QED BY <3>1, <4>1, <4>2
    <3>2. CASE i < j
      <4> DEFINE k == j - 1 - i
      <4>1. k \in 0 .. 15 /\ j - i = k + 1 /\ i \in 0 .. j - 1
        BY <2>1, <3>2
      <4>2. (x \div Power(k)) % 2 = bit(i)
        BY <2>3, <4>1
      <4> HIDE DEF k
      <4>3. Power(k) \in Int /\ Power(k) > 0 /\ Power(k + 1) = 2 * Power(k)
        BY <4>1, PowerDoubles
      <4>4. y \in Int /\ y \div 2 = x
        BY <2>2, <2>4
      <4>5. (y \div 2) \div Power(k) = y \div (2 * Power(k))
        BY <4>3, <4>4, DivDiv
      <4> QED BY <4>1, <4>2, <4>3, <4>4, <4>5
    <3> QED BY <2>1, <3>1, <3>2
  <2>6. \A i \in 0 .. j + 1 - 1 : i \in 0 .. j /\ j + 1 - 1 - i = j - i
    BY <2>1
  <2> QED BY <2>4, <2>5, <2>6 DEF y
<1> HIDE DEF Holds
<1>8. Holds(lanes)
  <2> HIDE DEF lanes
  <2>1. Holds(2)
    BY <1>1, <1>6, <1>7
  <2>2. lanes > 2 => Holds(4)
    BY <1>1, <2>1, <1>7
  <2>3. lanes > 4 => Holds(6)
    BY <1>1, <2>2, <1>7
  <2>4. lanes > 4 => Holds(8)
    BY <1>1, <2>3, <1>7
  <2>5. lanes > 8 => Holds(10)
    BY <1>1, <2>4, <1>7
  <2>6. lanes > 8 => Holds(12)
    BY <1>1, <2>5, <1>7
  <2>7. lanes > 8 => Holds(14)
    BY <1>1, <2>6, <1>7
  <2>8. lanes > 8 => Holds(16)
    BY <1>1, <2>7, <1>7
  <2> QED BY <1>1, <2>1, <2>2, <2>4, <2>8
<1> QED BY <1>3, <1>8 DEF Holds, bit

(***************************************************************************)
(* Masks of lanes.                                                         *)
(***************************************************************************)
\* The numbers that are gathered fit into a word.
LEMMA LanesFit ==
  ASSUME NEW size \in Sizes
  PROVE  Power(QUAD \div size) <= M /\ Power(QUAD \div size) \in Nat
<1>1. /\ Power(2) = 4 /\ Power(4) = 16 /\ Power(8) = 256 /\ Power(16) = 2 * (2 * (2 * (2 * (2 * (2 * (2 * (2 * 256)))))))
  <2>1. \A j \in {8, 9, 10, 11, 12, 13, 14, 15} : Power(j + 1) = 2 * Power(j)
    BY PowerDoubles
  <2>2. /\ Power(9) = 2 * Power(8) /\ Power(10) = 2 * Power(9) /\ Power(11) = 2 * Power(10)
        /\ Power(12) = 2 * Power(11) /\ Power(13) = 2 * Power(12)
        /\ Power(14) = 2 * Power(13) /\ Power(15) = 2 * Power(14)
        /\ Power(16) = 2 * Power(15)
    BY <2>1
  <2> QED BY <2>2, Powers
<1>2. QUAD \div size \in {2, 4, 8, 16}
  BY Lanes
<1>3. CASE WORD = 2
  <2>1. M = 256 * 256 /\ QUAD \in {4, 8} /\ size \in {1, 2}
    BY <1>3, Widths, Shapes DEF Sizes
  <2>2. QUAD \div size \in {2, 4, 8}
    BY <2>1
  <2> QED BY <1>1, <2>1, <2>2
<1>4. CASE WORD = 4
  <2>1. M = 256 * 256 * 256 * 256
    BY <1>4, Widths
  <2> QED BY <1>1, <1>2, <2>1
<1> QED BY <1>3, <1>4, Widths

\* Elements of a register are numbers.
LEMMA ElemIsInt ==
  ASSUME NEW a \in Quad, NEW size \in Sizes, NEW i \in 0 .. (QUAD \div size) - 1
  PROVE  Elem(a, size, i) \in Int
<1>1. /\ \A k \in 0 .. size - 1 : size * i + k \in Bytes
      /\ size \in {1, 2, 4} /\ i \in Int
  BY Lanes
<1>2. \A k \in 0 .. size - 1 : a[size * i + k] \in Int
  BY <1>1 DEF Quad, Byte
<1>3. \A k \in 1 .. size : a[size * i + k - 1] \in Int
  <2>1. \A k \in 1 .. size : k - 1 \in 0 .. size - 1 /\ size * i + (k - 1) = size * i + k - 1
    BY <1>1
  <2> QED BY <1>2, <2>1
<1>4. CASE size = 1
  BY <1>1, <1>3, <1>4, ElemUnfold
<1>5. CASE size = 2
  BY <1>1, <1>3, <1>5, ElemUnfold
<1>6. CASE size = 4
  BY <1>1, <1>3, <1>6, ElemUnfold
<1> QED BY <1>1, <1>4, <1>5, <1>6

\* A lane of ones or of zeros.
LEMMA LaneOf ==
  ASSUME NEW q, NEW size \in Sizes, NEW i \in 0 .. (QUAD \div size) - 1, NEW d \in {0, 1},
         \A k \in Bytes : k \div size = i => q[k] = 255 * d
  PROVE  Elem(q, size, i) = Ones(size) * d
<1>1. /\ \A k \in 0 .. size - 1 : size * i + k \in Bytes /\ (size * i + k) \div size = i
      /\ size \in {1, 2, 4} /\ i \in Int
  BY Lanes
<1>2. \A k \in 0 .. size - 1 : q[size * i + k] = 255 * d
  BY <1>1
<1>3. \A k \in 1 .. size : q[size * i + k - 1] = 255 * d
  <2>1. \A k \in 1 .. size : k - 1 \in 0 .. size - 1 /\ size * i + (k - 1) = size * i + k - 1
    BY <1>1
  <2> QED BY <1>2, <2>1
<1>4. Ones(1) = 255 /\ Ones(2) = 256 * 256 - 1 /\ Ones(4) = 256 * 256 * 256 * 256 - 1
  BY Widths DEF Ones
<1>5. CASE size = 1
  BY <1>1, <1>3, <1>4, <1>5, ElemUnfold
<1>6. CASE size = 2
  BY <1>1, <1>3, <1>4, <1>6, ElemUnfold
<1>7. CASE size = 4
  BY <1>1, <1>3, <1>4, <1>7, ElemUnfold
<1> QED BY <1>1, <1>5, <1>6, <1>7

\* The mask of the odd lanes of a.
Mask(a, size) == [k \in Bytes |-> 255 * (Elem(a, size, k \div size) % 2)]

\* The lanes of ones that the bits of s stand for.
LanesOfOnes(s, size) ==
  [k \in Bytes |-> 255 * ((s \div Power((QUAD \div size) - 1 - (k \div size))) % 2)]

\* A byte of a lane of ones or of zeros.
LEMMA ByteOfOnes ==
  ASSUME NEW size \in Sizes, NEW r \in 0 .. size - 1, NEW d \in {0, 1}
  PROVE  ((Ones(size) * d) \div Weight(size - 1 - r)) % 256 = 255 * d
<1>1. size \in {1, 2, 4}
  BY Lanes
<1>2. /\ Ones(1) = 255 /\ Ones(2) = 65535 /\ Ones(4) = 4294967295
      /\ Weight(0) = 1 /\ Weight(1) = 256 /\ Weight(2) = 65536 /\ Weight(3) = 16777216
  BY DEF Ones, Weight
<1>3. CASE size = 1
  BY <1>2, <1>3
<1>4. CASE size = 2
  BY <1>2, <1>4
<1>5. CASE size = 4
  BY <1>2, <1>5
<1> QED BY <1>1, <1>3, <1>4, <1>5

\* The loop that spreads gives every lane its bit of the word that was read first.
LEMMA SpreadLanes ==
  ASSUME NEW file, NEW ins, File(file), ins.size \in Sizes,
         ins.rt \in Registers, ins.ra \in Registers, ins.rb \in Registers,
         DOMAIN ins = {"op", "size", "form", "rt", "ra", "rb", "rc", "imm"},
         NEW s \in Int, s = Elem(file[ins.ra], WORD, 0)
  PROVE  Spread(file, ins) = [file EXCEPT ![ins.rt] = LanesOfOnes(s, ins.size)]
<1> DEFINE mask == [ins EXCEPT !.op = "il", !.form = "mask", !.imm = s]
           bit(i) == (s \div Power((QUAD \div ins.size) - 1 - i)) % 2
<1>1. /\ mask.op = "il" /\ mask.form = "mask" /\ mask.imm = s /\ mask.size = ins.size
      /\ mask.rt = ins.rt /\ mask.ra = ins.ra /\ mask.rb = ins.rb
  OBVIOUS
<1>2. Spread(file, ins) = ElementLoop(file, mask)
  BY DEF Spread
<1> HIDE DEF mask
<1>3. ASSUME NEW i PROVE Lane(file, mask, i) = Ones(ins.size) * bit(i)
  <2>1. Operand(file, mask, i) = Ones(ins.size) * bit(i)
    BY <1>1 DEF Operand
  <2> HIDE DEF bit
  <2> QED BY <1>1, <2>1 DEF Lane, Element, Unary, LogicOps, ArithmeticOps, CompareOps,
             MultiplyOps, ShiftOps, UnaryOps
<1>4. ASSUME NEW k \in Bytes
      PROVE  (Lane(file, mask, k \div ins.size) \div Weight(ins.size - 1 - (k % ins.size))) % 256
               = 255 * bit(k \div ins.size)
  <2> DEFINE d == bit(k \div ins.size)
             r == k % ins.size
  <2>1. r \in 0 .. ins.size - 1 /\ k \div ins.size \in 0 .. (QUAD \div ins.size) - 1
    <3>1. ins.size \in {1, 2, 4} /\ k \in Int
      BY Lanes DEF Bytes
    <3>2. r \in 0 .. ins.size - 1
      BY <3>1
    <3> QED BY <3>2, Lanes
  <2>2. d \in {0, 1}
    <3>1. \A x \in Int : x % 2 \in {0, 1}
      OBVIOUS
    <3>2. s \div Power((QUAD \div ins.size) - 1 - (k \div ins.size)) \in Int
      <4>1. QUAD \div ins.size \in {2, 4, 8, 16}
        BY Lanes
      <4>2. (QUAD \div ins.size) - 1 - (k \div ins.size) \in 0 .. 15
        BY <2>1, <4>1
      <4>3. Power((QUAD \div ins.size) - 1 - (k \div ins.size)) \in Int
            /\ Power((QUAD \div ins.size) - 1 - (k \div ins.size)) > 0
        BY <4>2, PowerDoubles
      <4> QED BY <4>3
    <3> QED BY <3>1, <3>2
  <2> HIDE DEF d, r
  <2>3. ((Ones(ins.size) * d) \div Weight(ins.size - 1 - r)) % 256 = 255 * d
    BY <2>1, <2>2, ByteOfOnes
  <2> QED BY <1>3, <2>3 DEF d, r
<1>5. ElementLoop(file, mask)
        = [file EXCEPT ![ins.rt] =
             [k \in Bytes |-> (Lane(file, mask, k \div ins.size)
                                 \div Weight(ins.size - 1 - (k % ins.size))) % 256]]
  <2>1. ElementLoop(file, mask)
          = [file EXCEPT ![mask.rt] =
               [k \in Bytes |-> (Lane(file, mask, k \div mask.size)
                                   \div Weight(mask.size - 1 - (k % mask.size))) % 256]]
    <3>1. /\ mask.size \in Sizes /\ mask.rt \in Registers /\ mask.ra \in Registers
          /\ mask.rb \in Registers
      BY <1>1
    <3> QED BY <3>1, SizedLoop
  <2> QED BY <1>1, <2>1
<1>6. [k \in Bytes |-> (Lane(file, mask, k \div ins.size)
                          \div Weight(ins.size - 1 - (k % ins.size))) % 256]
        = [k \in Bytes |-> 255 * bit(k \div ins.size)]
  BY <1>4
<1> QED BY <1>2, <1>5, <1>6 DEF LanesOfOnes, bit

\* What is gathered into the preferred word is spread from there.
LEMMA GatheredIsSpread ==
  ASSUME NEW a \in Quad, NEW size \in Sizes
  PROVE  /\ Elem(Preferred(Gather(a, size)), WORD, 0) \in Int
         /\ LanesOfOnes(Elem(Preferred(Gather(a, size)), WORD, 0), size) = Mask(a, size)
<1> DEFINE lanes == QUAD \div size
           s == Gather(a, size)
<1>1. /\ s \in Nat /\ s < Power(lanes)
      /\ \A i \in 0 .. lanes - 1 : (s \div Power(lanes - 1 - i)) % 2 = Elem(a, size, i) % 2
  BY GatherBits, ElemIsInt
<1> HIDE DEF s
<1>2. s % M = s
  <2>1. Power(lanes) <= M /\ Power(lanes) \in Nat /\ M \in Int /\ M > 0
    <3>1. M \in Int /\ M > 0
      BY Widths
    <3> QED BY <3>1, LanesFit
  <2> HIDE DEF lanes
  <2>2. s \in Int /\ 0 <= s /\ s < M
    BY <1>1, <2>1
  <2> QED BY <2>1, <2>2, Modulo
<1>3. Elem(Preferred(s), WORD, 0) = s
  BY <1>1, <1>2, PreferredWord
<1>4. \A k \in Bytes : k \div size \in 0 .. lanes - 1
  BY Lanes
<1>5. \A k \in Bytes : 255 * ((s \div Power(lanes - 1 - (k \div size))) % 2)
                         = 255 * (Elem(a, size, k \div size) % 2)
  BY <1>1, <1>4
<1>6. LanesOfOnes(s, size) = Mask(a, size)
  BY <1>5 DEF LanesOfOnes, Mask
<1> QED BY <1>1, <1>3, <1>6 DEF s

MaskInv ==
  \A size \in Sizes : program = OddLanes(size) =>
    /\ At(3)
    /\ n = 0 => gpr = first.gpr
    /\ n = 1 => gpr = [first.gpr EXCEPT ![A] = Preferred(Gather(first.gpr[A], size))]
    /\ n >= 2 => gpr[A] = Mask(first.gpr[A], size)

LEMMA MasksRun == Spec => []MaskInv
<1>1. Init => MaskInv
  BY InitFresh, StartAt DEF MaskInv, Fresh
<1>2. MaskInv /\ [Step]_channelVars => MaskInv'
  <2>1. CASE UNCHANGED channelVars
    BY <2>1 DEF MaskInv, channelVars, vars, At
  <2>2. ASSUME MaskInv, Step, NEW size \in Sizes, program = OddLanes(size)
        PROVE  /\ At(3)'
               /\ n' = 0 => gpr' = first'.gpr
               /\ n' = 1 => gpr' = [first'.gpr EXCEPT ![A] = Preferred(Gather(first'.gpr[A], size))]
               /\ n' >= 2 => gpr'[A] = Mask(first'.gpr[A], size)
    <3> DEFINE gathered == Preferred(Gather(first.gpr[A], size))
    <3>1. Len(program) = 3 /\ program[1] = RI("gather", size, A, A, 0) /\ program[3] = Stop
          /\ program[2] = RI("spread", size, A, A, 0)
      BY <2>2 DEF OddLanes
    <3>2. At(3) /\ (n = 0 => gpr = first.gpr)
          /\ (n = 1 => gpr = [first.gpr EXCEPT ![A] = gathered])
          /\ (n >= 2 => gpr[A] = Mask(first.gpr[A], size))
      BY <2>2 DEF MaskInv
    <3> HIDE DEF gathered
    <3>3. Insn = program[n + 1] /\ n \in 0 .. 2
      BY <2>2, <3>1, <3>2, InsnOf
    <3>4. first' = first /\ n' = n + 1 /\ first.gpr \in [Registers -> Quad]
      BY <2>2, <3>2, StepCounts DEF At
    <3>5. A \in Registers /\ first.gpr[A] \in Quad
      BY <3>4, SixRegisters
    <3>6. CASE n = 0
      <4>1. Insn = RI("gather", size, A, A, 0) /\ gpr = first.gpr
        BY <3>1, <3>2, <3>3, <3>6
      <4>2. Insn.op = "gather" /\ Insn.size = size /\ Insn.rt = A /\ Insn.ra = A
        BY <4>1 DEF RI, Ins
      <4>3. ToPreferred(gpr, Insn) = [gpr EXCEPT ![A] = gathered]
        BY <3>4, <3>5, <4>1, <4>2 DEF ToPreferred, Preferred, gathered
      <4>4. pc' = Sequential /\ running' = running /\ gpr' = [gpr EXCEPT ![A] = gathered]
        BY <2>2, <4>2, <4>3, StepPreferred
      <4>5. At(3)'
        BY <2>2, <3>1, <3>2, <3>6, <4>4, StepAt DEF At
      <4> QED BY <3>4, <3>6, <4>1, <4>4, <4>5 DEF gathered
    <3>7. CASE n = 1
      <4>1. Insn = RI("spread", size, A, A, 0) /\ gpr = [first.gpr EXCEPT ![A] = gathered]
        BY <3>1, <3>2, <3>3, <3>7
      <4>2. /\ Insn.op = "spread" /\ Insn.size = size /\ Insn.rt = A /\ Insn.ra = A
            /\ Insn.rb = A
            /\ DOMAIN Insn = {"op", "size", "form", "rt", "ra", "rb", "rc", "imm"}
        BY <4>1 DEF RI, Ins
      <4>3. gpr[A] = gathered /\ File(gpr)
        BY <3>4, <3>5, <4>1 DEF File
      <4> DEFINE s == Elem(gathered, WORD, 0)
      <4>4. s \in Int /\ LanesOfOnes(s, size) = Mask(first.gpr[A], size)
        BY <3>5, GatheredIsSpread DEF gathered
      <4> HIDE DEF s
      <4>5. Spread(gpr, Insn) = [gpr EXCEPT ![A] = LanesOfOnes(s, size)]
        BY <2>2, <3>5, <4>2, <4>3, <4>4, SpreadLanes DEF s
      <4>6. pc' = Sequential /\ running' = running
            /\ gpr' = [gpr EXCEPT ![A] = Mask(first.gpr[A], size)]
        BY <2>2, <4>2, <4>4, <4>5, StepSpread
      <4>7. At(3)'
        BY <2>2, <3>1, <3>2, <3>7, <4>6, StepAt DEF At
      <4>8. gpr'[A] = Mask(first.gpr[A], size)
        BY <3>4, <3>5, <4>1, <4>6
      <4> QED BY <3>4, <3>7, <4>7, <4>8
    <3>8. CASE n = 2
      <4>1. Insn.op = "stop"
        BY <3>1, <3>3, <3>8 DEF Stop
      <4>2. pc' = Sequential /\ running' = FALSE /\ gpr' = gpr
        BY <2>2, <4>1, StepStop
      <4>3. At(3)'
        BY <2>2, <3>1, <3>2, <3>8, <4>2, StepAt
      <4> QED BY <3>2, <3>4, <3>8, <4>2, <4>3
    <3> QED BY <3>3, <3>6, <3>7, <3>8
  <2>3. ASSUME MaskInv, Step PROVE MaskInv'
    BY <2>2, <2>3, StepCounts DEF MaskInv
  <2> QED BY <2>1, <2>3
<1> QED BY <1>1, <1>2, PTL DEF Spec

\* What is gathered from the lowest bits of the lanes and spread to the lanes again
\* is a mask of the odd lanes, for bytes, halfwords and words, in a register that both
\* instructions overwrite while it is their source (spu_interp.cpp:723-742).
THEOREM LanesAreMasked == Spec => []LaneMasks
<1>1. ASSUME MaskInv PROVE LaneMasks
  <2> SUFFICES ASSUME NEW size \in Sizes, program = OddLanes(size), Halted,
                      NEW i \in 0 .. (QUAD \div size) - 1
               PROVE  Elem(gpr[A], size, i) = Ones(size) * (Elem(first.gpr[A], size, i) % 2)
    BY DEF LaneMasks
  <2> DEFINE a == first.gpr[A]
  <2>1. At(3)
    BY <1>1 DEF MaskInv
  <2>2. n = 3
    BY <2>1, SpuAssumption, IdiomAssumption DEF Halted, At
  <2>3. gpr[A] = Mask(a, size)
    BY <1>1, <2>2 DEF MaskInv
  <2>4. a \in Quad
    BY <2>1, SixRegisters DEF At
  <2> HIDE DEF a
  <2>5. \A k \in Bytes : k \div size = i => gpr[A][k] = 255 * (Elem(a, size, i) % 2)
    BY <2>3 DEF Mask
  <2> DEFINE d == Elem(a, size, i) % 2
  <2>6. d \in {0, 1}
    <3>1. Elem(a, size, i) \in Int
      BY <2>4, ElemIsInt
    <3> QED BY <3>1
  <2> HIDE DEF d
  <2>7. \A k \in Bytes : k \div size = i => gpr[A][k] = 255 * d
    BY <2>5 DEF d
  <2>8. Elem(gpr[A], size, i) = Ones(size) * d
    BY <2>6, <2>7, LaneOf
  <2> QED BY <2>8 DEF a, d
<1>2. MaskInv => LaneMasks
  BY <1>1
<1> QED BY <1>2, MasksRun, PTL

(***************************************************************************)
(* Shifts of a whole register.                                             *)
(***************************************************************************)
\* The byte whose bits are those of x and y from bit r of x on.
Joined(x, y, r) == ((x * Power(r)) % 256) + (y \div Power(8 - r))

\* Bit i of a byte, bit 0 the most significant.
BitOf(x, i) == (x \div Power(7 - i)) % 2

\* An even multiple does not change the lowest bit of a quotient.
LEMMA EvenPart ==
  ASSUME NEW a \in Int, a > 0, NEW q \in Int, NEW x \in Int
  PROVE  ((2 * a * q + x) \div a) % 2 = (x \div a) % 2
<1> DEFINE u == x \div a
           r == x % a
           k == 2 * q + u
           y == 2 * a * q + x
<1>1. u \in Int /\ r \in Int /\ 0 <= r /\ r < a /\ x = a * u + r
  BY DivMod
<1> HIDE DEF u, r
<1>2. k \in Int /\ y \in Int /\ y = a * k + r
  BY <1>1
<1> HIDE DEF k, y
<1>3. y \div a = k
  BY <1>1, <1>2, DivIs
<1>4. (2 * q + u) % 2 = u % 2
  BY <1>1
<1> QED BY <1>3, <1>4 DEF k, y, u

\* Powers of two up to 256 are positive.
LEMMA PowersCount == ASSUME NEW j \in 0 .. 8 PROVE Power(j) \in Int /\ Power(j) > 0
<1>1. j \in {0, 1, 2, 3, 4, 5, 6, 7, 8}
  OBVIOUS
<1> QED BY <1>1, Powers

\* Products of powers of two up to 256.
LEMMA PowersMultiply ==
  ASSUME NEW i \in 0 .. 8, NEW j \in 0 .. 8, i + j <= 8
  PROVE  Power(i) * Power(j) = Power(i + j)
<1>1. j \in {0, 1, 2, 3, 4, 5, 6, 7, 8}
  OBVIOUS
<1>2. CASE i \in {0, 1, 2}
  BY <1>1, <1>2, Powers
<1>3. CASE i \in {3, 4, 5}
  BY <1>1, <1>3, Powers
<1>4. CASE i \in {6, 7, 8}
  BY <1>1, <1>4, Powers
<1> QED BY <1>2, <1>3, <1>4

\* The high part of a joined byte is the low part of x.
LEMMA JoinedParts ==
  ASSUME NEW x \in Byte, NEW y \in Byte, NEW r \in 0 .. 8
  PROVE  \E h, l, g \in Int :
           /\ x = Power(8 - r) * h + l
           /\ g = y \div Power(8 - r) /\ 0 <= g /\ g < Power(r)
           /\ Joined(x, y, r) = Power(r) * l + g
<1> DEFINE h == x \div Power(8 - r)
           l == x % Power(8 - r)
           g == y \div Power(8 - r)
           p == Power(r)
           q == Power(8 - r)
<1>1. p \in Int /\ p > 0 /\ q \in Int /\ q > 0 /\ p * q = 256
  <2>1. r \in 0 .. 8 /\ 8 - r \in 0 .. 8 /\ r + (8 - r) = 8
    OBVIOUS
  <2>2. Power(r) * Power(8 - r) = 256
    BY <2>1, PowersMultiply, Powers
  <2> QED BY <2>1, <2>2, PowersCount
<1> HIDE DEF p, q
<1>2. x \in Int /\ y \in Int /\ 0 <= y /\ y < 256
  BY DEF Byte
<1>3. h \in Int /\ l \in Int /\ 0 <= l /\ l < q /\ x = q * h + l
  BY <1>1, <1>2, DivMod DEF q
<1>4. g \in Int /\ 0 <= g /\ g < p
  <2> DEFINE s == y % q
  <2>1. g \in Int /\ s \in Int /\ 0 <= s /\ s < q /\ y = q * g + s
    BY <1>1, <1>2, DivMod DEF q
  <2> HIDE DEF g, s
  <2>2. g >= 0
    <3>1. g <= -1 => q * g <= -q
      BY <1>1, <2>1
    <3> QED BY <1>1, <1>2, <2>1, <3>1
  <2>3. ~(g >= p)
    <3> SUFFICES ASSUME g >= p PROVE FALSE
      OBVIOUS
    <3> DEFINE k == g - p
    <3>1. k \in Nat /\ q * k = q * g - 256
      <4>1. q * (g - p) = q * g - p * q
        BY <1>1, <2>1
      <4> QED BY <1>1, <2>1, <4>1
    <3> HIDE DEF k
    <3>2. q * k >= 0
      BY <1>1, <3>1
    <3> QED BY <1>1, <1>2, <2>1, <3>1, <3>2
  <2> QED BY <1>1, <2>1, <2>2, <2>3
<1>5. (x * p) % 256 = p * l
  <2> HIDE DEF h, l
  <2>1. x * p = 256 * h + p * l
    <3>1. (q * h + l) * p = (p * q) * h + p * l
      BY <1>1, <1>3
    <3> QED BY <1>1, <1>3, <3>1
  <2>2. p * l >= 0 /\ p * l < 256 /\ p * l \in Int
    <3>1. p * l <= p * (q - 1) /\ p * (q - 1) = p * q - p
      BY <1>1, <1>3
    <3>2. p * l >= 0 /\ p * l \in Int
      BY <1>1, <1>3
    <3> QED BY <1>1, <3>1, <3>2
  <2> DEFINE m == p * l
             z == x * p
  <2>3. m \in Int /\ 0 <= m /\ m < 256 /\ z = 256 * h + m /\ h \in Int
    BY <1>3, <2>1, <2>2
  <2> HIDE DEF m, z
  <2>4. z % 256 = m
    BY <2>3
  <2> QED BY <2>4 DEF m, z
<1> QED BY ZenonT(40), <1>3, <1>4, <1>5 DEF Joined, p, q

LEMMA JoinedBit ==
  ASSUME NEW x \in Byte, NEW y \in Byte, NEW r \in 0 .. 8, NEW i \in 0 .. 7
  PROVE  BitOf(Joined(x, y, r), i) = IF i + r < 8 THEN BitOf(x, i + r) ELSE BitOf(y, i + r - 8)
<1> DEFINE w == Joined(x, y, r)
<1>1. PICK h \in Int, l \in Int, g \in Int :
           /\ x = Power(8 - r) * h + l
           /\ g = y \div Power(8 - r) /\ 0 <= g /\ g < Power(r)
           /\ w = Power(r) * l + g
  BY JoinedParts
<1> HIDE DEF w
<1>2. x \in Int /\ y \in Int /\ r \in Int /\ i \in Int
  BY DEF Byte
<1>3. CASE i + r < 8
  <2> DEFINE a == Power(7 - (i + r))
             p == Power(r)
             q == Power(8 - r)
             e == Power(i)
  <2>1. /\ a \in Int /\ a > 0 /\ p \in Int /\ p > 0 /\ e \in Int /\ q \in Int
        /\ p * a = Power(7 - i) /\ q = 2 * a * e
    <3>1. a \in Int /\ a > 0 /\ p \in Int /\ p > 0 /\ e \in Int /\ q \in Int
      <4>1. 7 - (i + r) \in 0 .. 8 /\ r \in 0 .. 8 /\ i \in 0 .. 8 /\ 8 - r \in 0 .. 8
        BY <1>3
      <4>2. \A j \in 0 .. 8 : Power(j) \in Int /\ Power(j) > 0
        BY PowersCount
      <4> QED BY <4>1, <4>2
    <3>2. Power(r) * Power(7 - (i + r)) = Power(7 - i)
      <4>1. 7 - (i + r) \in 0 .. 8 /\ r + (7 - (i + r)) = 7 - i /\ 7 - i <= 8
        BY <1>3
      <4> QED BY <4>1, PowersMultiply
    <3>3. Power(1) * Power(7 - (i + r)) = Power(8 - (i + r))
      <4>1. 1 \in 0 .. 8 /\ 7 - (i + r) \in 0 .. 8 /\ 1 + (7 - (i + r)) = 8 - (i + r) /\ 8 - (i + r) <= 8
        BY <1>3
      <4> QED BY <4>1, PowersMultiply
    <3>4. Power(8 - (i + r)) * Power(i) = Power(8 - r)
      <4>1. 8 - (i + r) \in 0 .. 8 /\ (8 - (i + r)) + i = 8 - r /\ 8 - r <= 8 /\ i \in 0 .. 8
        BY <1>3
      <4> QED BY <4>1, PowersMultiply
    <3>5. Power(1) = 2
      BY Powers
    <3> HIDE DEF a, p, q, e
    <3>6. q = (2 * a) * e
      BY <3>3, <3>4, <3>5 DEF a, q, e
    <3> QED BY <3>1, <3>2, <3>6 DEF p, a
  <2> HIDE DEF a, p, q, e
  <2>2. x = q * h + l /\ w = p * l + g /\ 0 <= g /\ g < p
    BY <1>1 DEF p, q
  <2>3. x = 2 * a * (e * h) + l
    <3>1. 2 * a * e * h = 2 * a * (e * h)
      BY <2>1
    <3> QED BY <2>1, <2>2, <3>1
  <2>4. (x \div a) % 2 = (l \div a) % 2
    <3> DEFINE eh == e * h
    <3>1. eh \in Int /\ x = 2 * a * eh + l
      BY <2>1, <2>3
    <3> HIDE DEF eh
    <3> QED BY ZenonT(40), <2>1, <3>1, EvenPart
  <2>5. w \div p = l
    <3>1. w \in Int
      BY <2>1, <2>2
    <3> QED BY <2>1, <2>2, <3>1, DivIs
  <2>6. w \div (p * a) = l \div a
    <3>1. w \in Int
      BY <2>1, <2>2
    <3>2. (w \div p) \div a = w \div (p * a)
      BY <2>1, <3>1, DivDiv
    <3> QED BY <2>5, <3>2
  <2>7. BitOf(w, i) = (x \div a) % 2
    BY <2>1, <2>4, <2>6 DEF BitOf
  <2> QED BY <1>3, <2>7 DEF BitOf, a, w
<1>4. CASE i + r >= 8
  <2> DEFINE a == Power(7 - i)
             p == Power(r)
             q == Power(8 - r)
             e == Power(r + i - 8)
  <2>1. /\ a \in Int /\ a > 0 /\ q \in Int /\ q > 0 /\ e \in Int /\ p \in Int
        /\ q * a = Power(7 - (i + r - 8)) /\ p = 2 * a * e
    <3>1. a \in Int /\ a > 0 /\ q \in Int /\ q > 0 /\ e \in Int /\ p \in Int
      <4>1. 7 - i \in 0 .. 8 /\ r \in 0 .. 8 /\ r + i - 8 \in 0 .. 8 /\ 8 - r \in 0 .. 8
        BY <1>4
      <4>2. \A j \in 0 .. 8 : Power(j) \in Int /\ Power(j) > 0
        BY PowersCount
      <4> QED BY <4>1, <4>2
    <3>2. Power(8 - r) * Power(7 - i) = Power(7 - (i + r - 8))
      <4>1. /\ 7 - i \in 0 .. 8 /\ 8 - r \in 0 .. 8 /\ (8 - r) + (7 - i) = 7 - (i + r - 8)
            /\ 7 - (i + r - 8) <= 8
        BY <1>4
      <4> QED BY <4>1, PowersMultiply
    <3>3. Power(1) * Power(7 - i) = Power(8 - i)
      <4>1. 1 \in 0 .. 8 /\ 7 - i \in 0 .. 8 /\ 1 + (7 - i) = 8 - i /\ 8 - i <= 8
        BY <1>4
      <4> QED BY <4>1, PowersMultiply
    <3>4. Power(8 - i) * Power(r + i - 8) = Power(r)
      <4>1. 8 - i \in 0 .. 8 /\ (8 - i) + (r + i - 8) = r /\ r <= 8 /\ r + i - 8 \in 0 .. 8
        BY <1>4
      <4> QED BY <4>1, PowersMultiply
    <3>5. Power(1) = 2
      BY Powers
    <3> HIDE DEF a, p, q, e
    <3>6. p = (2 * a) * e
      BY <3>3, <3>4, <3>5 DEF a, p, e
    <3> QED BY <3>1, <3>2, <3>6 DEF q, a
  <2> HIDE DEF a, p, q, e
  <2>2. w = 2 * a * (e * l) + g
    <3>1. w = p * l + g
      BY <1>1 DEF p
    <3>2. 2 * a * e * l = 2 * a * (e * l)
      BY <2>1
    <3> QED BY <2>1, <3>1, <3>2
  <2>3. (w \div a) % 2 = (g \div a) % 2
    <3> DEFINE el == e * l
    <3>1. el \in Int /\ w = 2 * a * el + g
      BY <2>1, <2>2
    <3> HIDE DEF el
    <3> QED BY <2>1, <3>1, EvenPart
  <2>4. g \div a = y \div (q * a)
    <3>1. (y \div q) \div a = y \div (q * a)
      BY <1>2, <2>1, DivDiv
    <3> QED BY <1>1, <3>1 DEF q
  <2>5. BitOf(w, i) = BitOf(y, i + r - 8)
    BY <2>1, <2>3, <2>4 DEF BitOf, a
  <2> QED BY <1>4, <2>5 DEF w
<1> QED BY <1>2, <1>3, <1>4

\* A register as bytes without end: with zeros around it, or repeated.
Extended(a) == [k \in Int |-> IF k \in Bytes THEN a[k] ELSE 0]
Repeated(a) == [k \in Int |-> a[k % QUAD]]
BitIn(z, j) == BitOf(z[j \div 8], j % 8)

\* The bit that lies t bytes and r bits behind bit j.
Behind(j, t, r) == j + (8 * t + r)

\* Bytes and bits of a register.
LEMMA BitPlaces ==
  /\ QUAD \in {4, 8, 16} /\ QuadBits = 8 * QUAD /\ Bytes = 0 .. QUAD - 1
  /\ \A j \in Int : /\ j \div 8 \in Int /\ j % 8 \in 0 .. 7 /\ j = 8 * (j \div 8) + (j % 8)
                    /\ j \in 0 .. QuadBits - 1 <=> j \div 8 \in Bytes
<1>1. QUAD \in {4, 8, 16} /\ QuadBits = 8 * QUAD /\ Bytes = 0 .. QUAD - 1
  BY Widths DEF QuadBits, Bits
<1>2. ASSUME NEW j \in Int
      PROVE  /\ j \div 8 \in Int /\ j % 8 \in 0 .. 7 /\ j = 8 * (j \div 8) + (j % 8)
             /\ j \in 0 .. QuadBits - 1 <=> j \div 8 \in Bytes
  <2>1. j \div 8 \in Int /\ j % 8 \in 0 .. 7 /\ j = 8 * (j \div 8) + (j % 8)
    OBVIOUS
  <2>2. j \in 0 .. 8 * QUAD - 1 <=> j \div 8 \in 0 .. QUAD - 1
    BY <1>1
  <2> QED BY <1>1, <2>1, <2>2
<1> QED BY <1>1, <1>2

LEMMA ExtendedBits ==
  ASSUME NEW a \in Quad
  PROVE  Extended(a) \in [Int -> Byte] /\ \A j \in Int : BitIn(Extended(a), j) = Bit(a, j)
<1>1. Extended(a) \in [Int -> Byte]
  BY DEF Extended, Quad, Byte
<1>2. ASSUME NEW j \in Int PROVE BitIn(Extended(a), j) = Bit(a, j)
  <2> DEFINE k == j \div 8
             i == j % 8
  <2>1. k \in Int /\ i \in 0 .. 7 /\ (j \in 0 .. QuadBits - 1 <=> k \in Bytes)
    BY BitPlaces
  <2>2. BitIn(Extended(a), j) = BitOf(Extended(a)[k], i)
    BY DEF BitIn
  <2>3. Bit(a, j) = IF j \in 0 .. QuadBits - 1 THEN BitOf(a[k], i) ELSE 0
    BY DEF Bit, BitOf
  <2> HIDE DEF k, i
  <2>4. CASE k \in Bytes
    BY <2>1, <2>2, <2>3, <2>4 DEF Extended
  <2>5. CASE k \notin Bytes
    <3>1. Extended(a)[k] = 0
      BY <2>1, <2>5 DEF Extended
    <3>2. 7 - i \in 0 .. 8
      BY <2>1
    <3>3. Power(7 - i) \in Int /\ Power(7 - i) > 0
      BY <3>2, PowersCount
    <3>4. \A d \in Int : d > 0 => (0 \div d) % 2 = 0
      <4>1. \A d \in Int : d > 0 => 0 = d * 0 + 0
        OBVIOUS
      <4>2. \A d \in Int : d > 0 => 0 \div d = 0
        BY <4>1, DivIs
      <4> QED BY <4>2
    <3> QED BY <2>1, <2>2, <2>3, <2>5, <3>1, <3>3, <3>4 DEF BitOf
  <2> QED BY <2>4, <2>5
<1> QED BY <1>1, <1>2

LEMMA RepeatedBits ==
  ASSUME NEW a \in Quad
  PROVE  /\ Repeated(a) \in [Int -> Byte]
         /\ \A j \in Int : BitIn(Repeated(a), j) = Bit(a, j % QuadBits)
<1>1. \A k \in Int : k % QUAD \in Bytes
  BY BitPlaces
<1>2. Repeated(a) \in [Int -> Byte]
  BY <1>1 DEF Repeated, Quad
<1>3. ASSUME NEW j \in Int PROVE BitIn(Repeated(a), j) = Bit(a, j % QuadBits)
  <2>1. /\ j % QuadBits \in 0 .. QuadBits - 1
        /\ (j % QuadBits) \div 8 = (j \div 8) % QUAD /\ (j % QuadBits) % 8 = j % 8
    <3>1. CASE QUAD = 4
      BY <3>1, BitPlaces
    <3>2. CASE QUAD = 8
      BY <3>2, BitPlaces
    <3>3. CASE QUAD = 16
      BY <3>3, BitPlaces
    <3> QED BY <3>1, <3>2, <3>3, BitPlaces
  <2>2. j \div 8 \in Int
    OBVIOUS
  <2> QED BY <2>1, <2>2 DEF BitIn, BitOf, Bit, Repeated
<1> QED BY <1>2, <1>3

\* Bytes joined from their neighbours at a distance are the register moved by bits.
LEMMA MovedBits ==
  ASSUME NEW z \in [Int -> Byte], NEW t \in Int, NEW r \in 0 .. 8, NEW q,
         \A k \in Bytes : q[k] = Joined(z[k + t], z[k + t + 1], r),
         NEW j \in 0 .. QuadBits - 1
  PROVE  Bit(q, j) = BitIn(z, Behind(j, t, r))
<1> DEFINE k == j \div 8
           i == j % 8
           m == Behind(j, t, r)
<1>1. j \in Int
  BY BitPlaces
<1>2. k \in Bytes /\ k \in Int /\ i \in 0 .. 7 /\ j = 8 * k + i
  BY <1>1, BitPlaces
<1>3. Bit(q, j) = BitOf(q[k], i)
  BY DEF Bit, BitOf
<1> HIDE DEF k, i
<1>4. k + t \in Int /\ k + t + 1 \in Int
  BY <1>2
<1>5. BitOf(q[k], i) = IF i + r < 8 THEN BitOf(z[k + t], i + r)
                       ELSE BitOf(z[k + t + 1], i + r - 8)
  <2>1. z[k + t] \in Byte /\ z[k + t + 1] \in Byte
    BY <1>4
  <2>2. q[k] = Joined(z[k + t], z[k + t + 1], r)
    BY <1>2
  <2> QED BY <1>2, <2>1, <2>2, JoinedBit
<1>6. CASE i + r < 8
  <2>1. m \div 8 = k + t /\ m % 8 = i + r
    BY <1>2, <1>6 DEF Behind
  <2> QED BY <1>3, <1>5, <1>6, <2>1 DEF BitIn
<1>7. CASE i + r >= 8
  <2>1. m \div 8 = k + t + 1 /\ m % 8 = i + r - 8 /\ ~(i + r < 8)
    BY <1>2, <1>7 DEF Behind
  <2> QED BY <1>3, <1>5, <2>1 DEF BitIn
<1> QED BY <1>2, <1>6, <1>7

\* Nothing shifted is nothing.
LEMMA NothingShifted ==
  ASSUME NEW r \in 0 .. 8
  PROVE  0 \div Power(r) = 0 /\ (0 * Power(r)) % 256 = 0
<1>1. Power(r) \in Int /\ Power(r) > 0
  BY PowersCount
<1>2. 0 = Power(r) * 0 + 0 /\ 0 * Power(r) = 0
  BY <1>1
<1> QED BY <1>1, <1>2, DivIs

\* A shift by bytes and one by bits.
LEMMA ShiftedLeft ==
  ASSUME NEW a \in Quad, NEW t \in Nat, NEW s \in 0 .. 7, NEW j \in 0 .. QuadBits - 1
  PROVE  Bit(q_shl_bits(q_shl_bytes(a, t), s), j) = Bit(a, Behind(j, t, s))
<1> DEFINE b == q_shl_bytes(a, t)
           z == Extended(a)
<1>1. \A k \in Bytes : b[k] = z[k + t]
  <2>1. \A k \in Bytes : k + t \in Int /\ (k + t < QUAD <=> k + t \in Bytes)
    BY BitPlaces
  <2> QED BY <2>1 DEF q_shl_bytes, Extended
<1>2. ASSUME NEW k \in Bytes
      PROVE  q_shl_bits(b, s)[k] = Joined(z[k + t], z[k + t + 1], s)
  <2>1. q_shl_bits(b, s)[k] = ((b[k] * Power(s)) % 256)
                                + (IF k < QUAD - 1 THEN b[k + 1] \div Power(8 - s) ELSE 0)
    BY DEF q_shl_bits
  <2>2. k \in Int /\ (k < QUAD - 1 => k + 1 \in Bytes) /\ k + t + 1 \in Int
        /\ k + 1 + t = k + t + 1 /\ (~(k < QUAD - 1) => k + t + 1 \notin Bytes)
    BY BitPlaces
  <2>3. 8 - s \in 0 .. 8
    OBVIOUS
  <2>4. CASE k < QUAD - 1
    <3>1. b[k + 1] = z[k + t + 1]
      BY <1>1, <2>2, <2>4
    <3> HIDE DEF b, z
    <3> QED BY <1>1, <2>1, <2>4, <3>1 DEF Joined
  <2>5. CASE ~(k < QUAD - 1)
    <3>1. z[k + t + 1] = 0
      BY <2>2, <2>5 DEF Extended
    <3> HIDE DEF b, z
    <3>2. z[k + t + 1] \div Power(8 - s) = 0
      BY <2>3, <3>1, NothingShifted
    <3> QED BY <1>1, <2>1, <2>5, <3>2 DEF Joined
  <2> QED BY <2>4, <2>5
<1>3. Behind(j, t, s) \in Int /\ s \in 0 .. 8 /\ t \in Int
  BY BitPlaces DEF Behind
<1> DEFINE q == q_shl_bits(b, s)
<1>4. Bit(q, j) = BitIn(z, Behind(j, t, s))
  <2>1. z \in [Int -> Byte] /\ \A k \in Bytes : q[k] = Joined(z[k + t], z[k + t + 1], s)
    BY <1>2, ExtendedBits
  <2> HIDE DEF z, q
  <2> QED BY <1>3, <2>1, MovedBits
<1> QED BY <1>3, <1>4, ExtendedBits

LEMMA ShiftedRight ==
  ASSUME NEW a \in Quad, NEW t \in Nat, NEW s \in 0 .. 7, NEW j \in 0 .. QuadBits - 1
  PROVE  Bit(q_shr_bits(q_shr_bytes(a, t), s), j) = Bit(a, j - (8 * t + s))
<1> DEFINE b == q_shr_bytes(a, t)
           z == Extended(a)
           u == -1 - t
           r == 8 - s
           q == q_shr_bits(b, s)
<1>1. \A k \in Bytes : b[k] = z[k - t]
  <2>1. \A k \in Bytes : k - t \in Int /\ (k >= t <=> k - t \in Bytes)
    BY BitPlaces
  <2> QED BY <2>1 DEF q_shr_bytes, Extended
<1>2. ASSUME NEW k \in Bytes
      PROVE  q[k] = Joined(z[k + u], z[k + u + 1], r)
  <2>1. q[k] = (b[k] \div Power(s))
                 + (IF k > 0 THEN (b[k - 1] * Power(8 - s)) % 256 ELSE 0)
    BY DEF q_shr_bits
  <2>2. k \in Int /\ (k > 0 => k - 1 \in Bytes) /\ k + u \in Int
        /\ k - 1 - t = k + u /\ k - t = k + u + 1 /\ (~(k > 0) => k + u \notin Bytes)
    BY BitPlaces
  <2>3. 8 - s \in 0 .. 8 /\ 8 - r = s
    OBVIOUS
  <2>4. b[k] = z[k + u + 1]
    BY <1>1, <2>2
  <2>5. z[k + u] \in Int /\ z[k + u + 1] \in Int
    <3>1. z \in [Int -> Byte] /\ k + u + 1 \in Int
      BY <2>2, ExtendedBits
    <3> HIDE DEF z, u
    <3> QED BY <2>2, <3>1 DEF Byte
  <2>6. (z[k + u] * Power(r)) % 256 = IF k > 0 THEN (b[k - 1] * Power(8 - s)) % 256 ELSE 0
    <3>1. CASE k > 0
      <4>1. b[k - 1] = z[k + u]
        BY <1>1, <2>2, <3>1
      <4> QED BY <3>1, <4>1
    <3>2. CASE ~(k > 0)
      <4>1. z[k + u] = 0
        BY <2>2, <3>2 DEF Extended
      <4> HIDE DEF z
      <4> QED BY <2>3, <3>2, <4>1, NothingShifted
    <3> QED BY <3>1, <3>2
  <2>7. z[k + u + 1] \div Power(8 - r) = b[k] \div Power(s)
    BY <2>3, <2>4
  <2> DEFINE x == (z[k + u] * Power(r)) % 256
             y == z[k + u + 1] \div Power(8 - r)
  <2>8. x \in Int /\ y \in Int
    <3>1. Power(r) \in Int /\ Power(s) \in Int /\ Power(s) > 0
      BY <2>3, PowersCount
    <3> HIDE DEF z, u
    <3> QED BY <2>3, <2>5, <3>1
  <2>9. q[k] = y + x
    BY <2>1, <2>6, <2>7
  <2>10. Joined(z[k + u], z[k + u + 1], r) = x + y
    BY DEF Joined
  <2> HIDE DEF x, y, q
  <2> QED BY <2>8, <2>9, <2>10
<1>3. j - (8 * t + s) \in Int /\ r \in 0 .. 8 /\ u \in Int
      /\ Behind(j, u, r) = j - (8 * t + s)
  BY BitPlaces DEF Behind
<1>4. Bit(q, j) = BitIn(z, Behind(j, u, r))
  <2>1. z \in [Int -> Byte]
    BY ExtendedBits
  <2> HIDE DEF z, q, u, r
  <2> QED BY <1>2, <1>3, <2>1, MovedBits
<1>5. BitIn(z, j - (8 * t + s)) = Bit(a, j - (8 * t + s))
  BY <1>3, ExtendedBits
<1> QED BY <1>3, <1>4, <1>5

LEMMA Rotated ==
  ASSUME NEW a \in Quad, NEW t \in Nat, NEW s \in 0 .. 7, NEW j \in 0 .. QuadBits - 1
  PROVE  Bit(q_rot_bits(q_rot_bytes(a, t), s), j) = Bit(a, Behind(j, t, s) % QuadBits)
<1> DEFINE b == q_rot_bytes(a, t)
           z == Repeated(a)
           q == q_rot_bits(b, s)
<1>1. \A k \in Bytes : b[k] = z[k + t]
  <2>1. \A k \in Bytes : k + t \in Int
    BY BitPlaces
  <2> QED BY <2>1 DEF q_rot_bytes, Repeated
<1>2. ASSUME NEW k \in Bytes
      PROVE  q[k] = Joined(z[k + t], z[k + t + 1], s)
  <2>1. q[k] = ((b[k] * Power(s)) % 256) + (b[(k + 1) % QUAD] \div Power(8 - s))
    BY DEF q_rot_bits
  <2>2. (k + 1) % QUAD \in Bytes /\ ((k + 1) % QUAD) + t \in Int /\ k + t + 1 \in Int
        /\ (((k + 1) % QUAD) + t) % QUAD = (k + t + 1) % QUAD
    BY BitPlaces
  <2>3. b[(k + 1) % QUAD] = z[k + t + 1]
    <3>1. b[(k + 1) % QUAD] = z[((k + 1) % QUAD) + t]
      BY <1>1, <2>2
    <3>2. z[((k + 1) % QUAD) + t] = z[k + t + 1]
      BY <2>2 DEF Repeated
    <3> QED BY <3>1, <3>2
  <2> HIDE DEF b, z, q
  <2> QED BY <1>1, <2>1, <2>3 DEF Joined
<1>3. Behind(j, t, s) \in Int /\ s \in 0 .. 8 /\ t \in Int
  BY BitPlaces DEF Behind
<1>4. Bit(q, j) = BitIn(z, Behind(j, t, s))
  <2>1. z \in [Int -> Byte]
    BY RepeatedBits
  <2> HIDE DEF z, q
  <2> QED BY <1>2, <1>3, <2>1, MovedBits
<1> QED BY <1>3, <1>4, RepeatedBits

\* The counts of the byte and of the bit instruction are those of one number.
LEMMA CountParts ==
  ASSUME NEW v \in Nat
  PROVE  /\ 8 * ((v \div 8) % (2 * QUAD)) + (v % 8) = v % (2 * QuadBits)
         /\ (v \div 8) % (2 * QUAD) \in Nat /\ (v \div 8) % QUAD \in Nat /\ v % 8 \in 0 .. 7
         /\ \A j \in Int : Behind(j, (v \div 8) % QUAD, v % 8) % QuadBits
                             = (j + (v % (2 * QuadBits))) % QuadBits
<1>1. CASE QUAD = 4
  BY <1>1, BitPlaces DEF Behind
<1>2. CASE QUAD = 8
  BY <1>2, BitPlaces DEF Behind
<1>3. CASE QUAD = 16
  BY <1>3, BitPlaces DEF Behind
<1> QED BY <1>1, <1>2, <1>3, BitPlaces DEF Behind

\* A register is subtracted from an immediate.
LEMMA SubtractFrom ==
  ASSUME File(gpr), Step, Insn.op = "sf", Insn.size = WORD, Insn.form = "RI",
         Insn.rt \in Registers, Insn.ra \in Registers, Insn.rb \in Registers,
         Insn.imm \in 0 .. M - 1, gpr[Insn.ra] \in Quad
  PROVE  /\ File(gpr') /\ \A r \in Registers : r # Insn.rt => gpr'[r] = gpr[r]
         /\ pc' = Sequential /\ UNCHANGED <<ls, running, staged, posted, memory>>
         /\ W(gpr'[Insn.rt], 0) = (Insn.imm - W(gpr[Insn.ra], 0)) % M
<1> DEFINE lane(i) == Insn.imm - Elem(gpr[Insn.ra], WORD, i)
           w == [i \in 0 .. WORDS - 1 |-> lane(i)]
<1>1. Insn.op \in ElementOps
  BY DEF ElementOps, ArithmeticOps
<1>2. M = Weight(WORD) /\ M \in Nat /\ M > 0 /\ 0 \in 0 .. WORDS - 1
  BY Widths
<1>3. Insn.imm \in Int /\ Insn.imm % M = Insn.imm
  <2> DEFINE m == Insn.imm
  <2>1. m \in Int /\ 0 <= m /\ m < M
    BY <1>2
  <2> HIDE DEF m
  <2>2. m % M = m
    BY <2>1, Modulo
  <2> QED BY <2>1, <2>2 DEF m
<1>4. ASSUME NEW i \in 0 .. WORDS - 1 PROVE Lane(gpr, Insn, i) = lane(i) /\ lane(i) \in Int
  <2>1. Operand(gpr, Insn, i) = Insn.imm
    BY <1>2, <1>3 DEF Operand
  <2>2. Elem(gpr[Insn.ra], WORD, i) \in Int
    BY <1>2, ElemInRange
  <2>3. \A x, y, t : Element("sf", x, y, t, WORD) = y - x
    BY DEF Element, LogicOps, ArithmeticOps, CompareOps, MultiplyOps, ShiftOps, UnaryOps,
           Arithmetic
  <2> QED BY <1>3, <2>1, <2>2, <2>3 DEF Lane
<1> HIDE DEF lane
<1>5. w \in [0 .. WORDS - 1 -> Int] /\ \A i \in 0 .. WORDS - 1 : Lane(gpr, Insn, i) = w[i]
  BY <1>4
<1>6. w[0] = lane(0)
  BY <1>2
<1> HIDE DEF w
<1>7. /\ pc' = Sequential /\ UNCHANGED <<ls, running, staged, posted, memory>>
      /\ File(gpr') /\ \A r \in Registers : r # Insn.rt => gpr'[r] = gpr[r]
      /\ \A i \in 0 .. WORDS - 1 : Elem(gpr'[Insn.rt], WORD, i) = w[i] % M
  BY <1>1, <1>5, WordInstruction
<1> QED BY <1>2, <1>6, <1>7 DEF lane, W

\* The negated counts that rotqmbybi and rotqmbi negate again.
LEMMA NegatedCounts ==
  ASSUME NEW v \in 0 .. M - 1
  PROVE  /\ (-(((7 - v) % M) \div 8)) % (2 * QUAD) = (v \div 8) % (2 * QUAD)
         /\ (-((0 - v) % M)) % 8 = v % 8
<1>1. M \in Int /\ M > 7 /\ v \in Int
  <2>1. CASE WORD = 2
    BY <2>1, Widths
  <2>2. CASE WORD = 4
    BY <2>2, Widths
  <2> QED BY <2>1, <2>2, Widths
<1> DEFINE K == M \div 256
<1>2. M = 256 * K /\ K \in Int
  <2>1. CASE WORD = 2
    BY <2>1, Widths
  <2>2. CASE WORD = 4
    BY <2>2, Widths
  <2> QED BY <2>1, <2>2, Widths
<1> HIDE DEF K
<1>3. PICK e \in {0, 1} : (7 - v) % M = (7 - v) + 256 * (K * e)
  <2>1. CASE v <= 7
    <3>1. 7 - v \in Int /\ 0 <= 7 - v /\ 7 - v < M
      BY <1>1, <2>1
    <3>2. (7 - v) % M = 7 - v /\ 7 - v = (7 - v) + 256 * (K * 0)
      BY <1>2, <3>1, Modulo
    <3> QED BY <3>2
  <2>2. CASE v > 7
    <3> DEFINE x == 7 - v + M
    <3>1. x \in Int /\ 0 <= x /\ x < M /\ 7 - v = x + M * (-1) /\ -1 \in Int
      BY <1>1, <2>2
    <3> HIDE DEF x
    <3>2. (7 - v) % M = x
      BY <3>1, Modulo
    <3>3. x = (7 - v) + 256 * (K * 1)
      BY <1>2 DEF x
    <3> QED BY <3>2, <3>3
  <2> QED BY <1>1, <2>1, <2>2
<1>4. PICK f \in {0, 1} : (0 - v) % M = (0 - v) + 256 * (K * f)
  <2>1. CASE v = 0
    <3>1. 0 - v = 0 /\ 0 \in Int /\ 0 <= 0 /\ 0 < M
      BY <1>1, <2>1
    <3>2. (0 - v) % M = 0
      BY <3>1, Modulo
    <3> QED BY <1>2, <3>1, <3>2
  <2>2. CASE v > 0
    <3> DEFINE x == 0 - v + M
    <3>1. x \in Int /\ 0 <= x /\ x < M /\ 0 - v = x + M * (-1) /\ -1 \in Int
      BY <1>1, <2>2
    <3> HIDE DEF x
    <3>2. (0 - v) % M = x
      BY <3>1, Modulo
    <3>3. x = (0 - v) + 256 * (K * 1)
      BY <1>2 DEF x
    <3> QED BY <3>2, <3>3
  <2> QED BY <1>1, <2>1, <2>2
<1> DEFINE c == K * e
           d == K * f
<1>5. c \in Int /\ d \in Int
  BY <1>2
<1> HIDE DEF c, d
<1>6. (7 - v) % M = (7 - v) + 256 * c /\ (0 - v) % M = (0 - v) + 256 * d
  BY <1>3, <1>4 DEF c, d
<1> DEFINE u == (7 - v) % M
           w == (0 - v) % M
<1>7. u = (7 - v) + 256 * c /\ w = (0 - v) + 256 * d
  BY <1>6
<1> HIDE DEF u, w
<1>8. u \div 8 = 32 * c - (v \div 8)
  BY <1>1, <1>5, <1>7
<1>9. (-w) % 8 = v % 8
  BY <1>1, <1>5, <1>7
<1> DEFINE g == v \div 8
           h == u \div 8
<1>10. h = 32 * c - g /\ g \in Int
  BY <1>1, <1>8
<1> HIDE DEF g, h
<1>11. (-h) % (2 * QUAD) = g % (2 * QUAD)
  <2>1. (-h) % 8 = g % 8 /\ (-h) % 16 = g % 16 /\ (-h) % 32 = g % 32
    BY <1>5, <1>10
  <2> QED BY <2>1, Widths
<1> QED BY <1>9, <1>11 DEF g, h, u, w

\* A shift by the bytes and then by the bits that a register counts.
TwoShifts(bytes, bits) == << RR(bytes, WORD, T, A, B), RR(bits, WORD, T, T, B), Stop >>

PairInv ==
  \A bytes, bits \in QuadShiftOps : program = TwoShifts(bytes, bits) =>
    LET a == first.gpr[A]
        v == W(first.gpr[B], 0)
    IN /\ At(3)
       /\ n = 0 => gpr = first.gpr
       /\ n = 1 => gpr = [first.gpr EXCEPT ![T] = QuadShift(bytes, a, v)]
       /\ n >= 2 => gpr[T] = QuadShift(bits, QuadShift(bytes, a, v), v)

LEMMA PairsRun == Spec => []PairInv
<1>1. Init => PairInv
  BY InitFresh, StartAt DEF PairInv, Fresh
<1>2. PairInv /\ [Step]_channelVars => PairInv'
  <2>1. CASE UNCHANGED channelVars
    BY <2>1 DEF PairInv, channelVars, vars, At, W
  <2>2. ASSUME PairInv, Step, NEW bytes \in QuadShiftOps, NEW bits \in QuadShiftOps,
               program = TwoShifts(bytes, bits)
        PROVE  LET a == first'.gpr[A]
                   v == W(first'.gpr[B], 0)
               IN /\ At(3)'
                  /\ n' = 0 => gpr' = first'.gpr
                  /\ n' = 1 => gpr' = [first'.gpr EXCEPT ![T] = QuadShift(bytes, a, v)]
                  /\ n' >= 2 => gpr'[T] = QuadShift(bits, QuadShift(bytes, a, v), v)
    <3> DEFINE a == first.gpr[A]
               v == W(first.gpr[B], 0)
               moved == QuadShift(bytes, a, v)
               shifted == QuadShift(bits, moved, v)
    <3>1. Len(program) = 3 /\ program[1] = RR(bytes, WORD, T, A, B) /\ program[3] = Stop
          /\ program[2] = RR(bits, WORD, T, T, B)
      BY <2>2 DEF TwoShifts
    <3>2. At(3) /\ (n = 0 => gpr = first.gpr)
          /\ (n = 1 => gpr = [first.gpr EXCEPT ![T] = moved])
          /\ (n >= 2 => gpr[T] = shifted)
      BY <2>2 DEF PairInv
    <3>3. Insn = program[n + 1] /\ n \in 0 .. 2
      BY <2>2, <3>1, <3>2, InsnOf
    <3>4. first' = first /\ n' = n + 1 /\ first.gpr \in [Registers -> Quad]
      BY <2>2, <3>2, StepCounts DEF At
    <3>5. T \in Registers /\ A \in Registers /\ B \in Registers /\ T # B
      BY SixRegisters
    <3>6. ASSUME At(3)', n = 0 => gpr' = [first.gpr EXCEPT ![T] = moved],
                 n >= 1 => gpr'[T] = shifted
          PROVE  LET x == first'.gpr[A]
                     y == W(first'.gpr[B], 0)
                 IN /\ At(3)'
                    /\ n' = 0 => gpr' = first'.gpr
                    /\ n' = 1 => gpr' = [first'.gpr EXCEPT ![T] = QuadShift(bytes, x, y)]
                    /\ n' >= 2 => gpr'[T] = QuadShift(bits, QuadShift(bytes, x, y), y)
      BY <3>3, <3>4, <3>6
    <3>7. CASE n = 0
      <4>1. Insn = RR(bytes, WORD, T, A, B) /\ gpr = first.gpr
        BY <3>1, <3>2, <3>3, <3>7
      <4>2. /\ Insn.op = bytes /\ Insn.rt = T /\ Insn.ra = A /\ Insn.rb = B
            /\ Insn.form = "RR"
        BY <4>1 DEF RR, Ins
      <4>3. QuadResult(Insn) = QuadShift(bytes, gpr[A], Word0(B))
        BY <4>2 DEF QuadResult, QuadShiftOps, Scalar
      <4>4. QuadResult(Insn) = moved
        BY <4>1, <4>3 DEF Word0, W
      <4> HIDE DEF moved, shifted
      <4>5. pc' = Sequential /\ running' = running /\ gpr' = [gpr EXCEPT ![T] = moved]
        BY <2>2, <4>2, <4>4, StepQuad DEF QuadOps
      <4>6. At(3)'
        BY <2>2, <3>1, <3>2, <3>7, <4>5, StepAt DEF At
      <4> QED BY <3>6, <3>7, <4>1, <4>5, <4>6
    <3>8. CASE n = 1
      <4> HIDE DEF moved
      <4>1. Insn = RR(bits, WORD, T, T, B) /\ gpr = [first.gpr EXCEPT ![T] = moved]
        BY <3>1, <3>2, <3>3, <3>8
      <4>2. /\ Insn.op = bits /\ Insn.rt = T /\ Insn.ra = T /\ Insn.rb = B
            /\ Insn.form = "RR"
        BY <4>1 DEF RR, Ins
      <4>3. gpr[T] = moved /\ gpr[B] = first.gpr[B]
        BY <3>4, <3>5, <4>1
      <4>4. QuadResult(Insn) = QuadShift(bits, gpr[T], Word0(B))
        BY <4>2 DEF QuadResult, QuadShiftOps, Scalar
      <4>5. QuadResult(Insn) = shifted
        BY <4>3, <4>4 DEF Word0, W
      <4> HIDE DEF shifted
      <4>6. pc' = Sequential /\ running' = running /\ gpr' = [gpr EXCEPT ![T] = shifted]
        BY <2>2, <4>2, <4>5, StepQuad DEF QuadOps
      <4>7. At(3)'
        BY <2>2, <3>1, <3>2, <3>8, <4>6, StepAt DEF At
      <4>8. gpr'[T] = shifted
        BY <3>4, <3>5, <4>1, <4>6
      <4> QED BY <3>6, <3>8, <4>7, <4>8
    <3>9. CASE n = 2
      <4>1. Insn.op = "stop"
        BY <3>1, <3>3, <3>9 DEF Stop
      <4>2. pc' = Sequential /\ running' = FALSE /\ gpr' = gpr
        BY <2>2, <4>1, StepStop
      <4>3. At(3)'
        BY <2>2, <3>1, <3>2, <3>9, <4>2, StepAt
      <4> QED BY <3>2, <3>6, <3>9, <4>2, <4>3
    <3> QED BY <3>3, <3>7, <3>8, <3>9
  <2>3. ASSUME PairInv, Step PROVE PairInv'
    BY <2>2, <2>3, StepCounts DEF PairInv
  <2> QED BY <2>1, <2>3
<1> QED BY <1>1, <1>2, PTL DEF Spec

\* The right shift, whose counts are negated before.
RightInv ==
  program = QuadRight =>
    LET a == first.gpr[A]
        v == W(first.gpr[B], 0)
    IN /\ At(5) /\ File(gpr) /\ gpr[A] = a /\ gpr[B] = first.gpr[B]
       /\ n = 1 => W(gpr[U], 0) = (7 - v) % M
       /\ n \in 2 .. 3 => gpr[T] = q_shr_bytes(a, (v \div 8) % (2 * QUAD))
       /\ n = 3 => W(gpr[U], 0) = (0 - v) % M
       /\ n >= 4 => gpr[T] = q_shr_bits(q_shr_bytes(a, (v \div 8) % (2 * QUAD)), v % 8)

LEMMA RightSteps ==
  ASSUME RightInv, Step, program = QuadRight
  PROVE  RightInv'
<1> DEFINE a == first.gpr[A]
           b == first.gpr[B]
           v == W(b, 0)
           moved == q_shr_bytes(a, (v \div 8) % (2 * QUAD))
           shifted == q_shr_bits(moved, v % 8)
<1>1. /\ Len(program) = 5 /\ program[1] = RI("sf", WORD, U, B, 7)
      /\ program[2] = RR("rotqmbybi", WORD, T, A, U) /\ program[3] = RI("sf", WORD, U, B, 0)
      /\ program[4] = RR("rotqmbi", WORD, T, T, U) /\ program[5] = Stop
  BY DEF QuadRight
<1>2. /\ At(5) /\ File(gpr) /\ gpr[A] = a /\ gpr[B] = b
      /\ n = 1 => W(gpr[U], 0) = (7 - v) % M
      /\ n \in 2 .. 3 => gpr[T] = moved
      /\ n = 3 => W(gpr[U], 0) = (0 - v) % M
      /\ n >= 4 => gpr[T] = shifted
  BY DEF RightInv
<1>3. Insn = program[n + 1] /\ n \in 0 .. 4
  BY <1>1, <1>2, InsnOf
<1>4. /\ first' = first /\ n' = n + 1 /\ program' = program
      /\ a' = a /\ b' = b /\ v' = v /\ moved' = moved /\ shifted' = shifted
  BY StepCounts DEF W
<1>5. /\ T \in Registers /\ A \in Registers /\ B \in Registers /\ U \in Registers
      /\ T # A /\ T # B /\ U # A /\ U # B /\ T # U
  BY SixRegisters
<1>6. a \in Quad /\ b \in Quad
  BY <1>2, <1>5 DEF At
<1>7. v \in 0 .. M - 1
  <2>1. 0 \in 0 .. WORDS - 1
    BY Widths
  <2> QED BY <1>6, <2>1, ElemInRange DEF W
<1>8. 7 \in 0 .. M - 1 /\ 0 \in 0 .. M - 1
  <2>1. CASE WORD = 2
    BY <2>1, Widths
  <2>2. CASE WORD = 4
    BY <2>2, Widths
  <2> QED BY <2>1, <2>2, Widths
<1>9. ASSUME pc' = Sequential, running' <=> n + 1 < 5, File(gpr'),
             gpr'[A] = gpr[A], gpr'[B] = gpr[B],
             n = 0 => W(gpr'[U], 0) = (7 - v) % M,
             n \in 1 .. 2 => gpr'[T] = moved,
             n = 2 => W(gpr'[U], 0) = (0 - v) % M,
             n >= 3 => gpr'[T] = shifted
      PROVE  RightInv'
  <2>1. At(5)'
    BY <1>1, <1>2, <1>9, StepAt
  <2>2. n' = n + 1 /\ n \in 0 .. 4
    BY <1>3, <1>4
  <2>3. /\ At(5)' /\ File(gpr') /\ gpr'[A] = a' /\ gpr'[B] = b'
        /\ n' = 1 => W(gpr'[U], 0) = (7 - v') % M
        /\ n' \in 2 .. 3 => gpr'[T] = moved'
        /\ n' = 3 => W(gpr'[U], 0) = (0 - v') % M
        /\ n' >= 4 => gpr'[T] = shifted'
    <3> HIDE DEF a, b, v, moved, shifted
    <3> QED BY <1>2, <1>4, <1>9, <2>1, <2>2
  <2> QED BY <2>3 DEF RightInv, File, W
<1>10. ASSUME NEW m \in 0 .. M - 1, Insn = RI("sf", WORD, U, B, m)
       PROVE  /\ pc' = Sequential /\ running' = running /\ File(gpr')
              /\ \A r \in Registers : r # U => gpr'[r] = gpr[r]
              /\ W(gpr'[U], 0) = (m - v) % M
  <2>1. /\ Insn.op = "sf" /\ Insn.size = WORD /\ Insn.form = "RI" /\ Insn.rt = U
        /\ Insn.ra = B /\ Insn.rb = B /\ Insn.imm = m
    BY <1>10 DEF RI, Ins
  <2>2. gpr[B] = b
    BY <1>2
  <2> HIDE DEF a, b
  <2> QED BY <1>2, <1>5, <1>6, <2>1, <2>2, SubtractFrom
<1>11. ASSUME NEW op \in {"rotqmbybi", "rotqmbi"}, NEW ra \in Registers,
              Insn = RR(op, WORD, T, ra, U)
       PROVE  /\ pc' = Sequential /\ running' = running
              /\ gpr' = [gpr EXCEPT ![T] = QuadShift(op, gpr[ra], W(gpr[U], 0))]
  <2>1. /\ Insn.op = op /\ Insn.rt = T /\ Insn.ra = ra /\ Insn.rb = U /\ Insn.form = "RR"
    BY <1>11 DEF RR, Ins
  <2>2. QuadResult(Insn) = QuadShift(op, gpr[ra], Word0(U))
    BY <2>1 DEF QuadResult, QuadShiftOps, Scalar
  <2> QED BY <2>1, <2>2, StepQuad DEF QuadOps, QuadShiftOps, Word0, W
<1> HIDE DEF a, b, v, moved, shifted
<1>12. ASSUME NEW q, gpr' = [gpr EXCEPT ![T] = q]
       PROVE  File(gpr') /\ gpr'[A] = gpr[A] /\ gpr'[B] = gpr[B] /\ gpr'[T] = q
              /\ gpr'[U] = gpr[U]
  BY <1>2, <1>5, <1>12 DEF File
<1>13. CASE n = 0
  <2>1. Insn = RI("sf", WORD, U, B, 7)
    BY <1>1, <1>3, <1>13
  <2>2. /\ pc' = Sequential /\ running' = running /\ File(gpr')
        /\ \A r \in Registers : r # U => gpr'[r] = gpr[r]
        /\ W(gpr'[U], 0) = (7 - v) % M
    BY <1>8, <1>10, <2>1
  <2>3. gpr'[A] = gpr[A] /\ gpr'[B] = gpr[B] /\ gpr'[T] = gpr[T]
    BY <1>5, <2>2
  <2> QED BY <1>2, <1>9, <1>13, <2>2, <2>3 DEF At
<1>14. CASE n = 1
  <2>1. Insn = RR("rotqmbybi", WORD, T, A, U)
    BY <1>1, <1>3, <1>14
  <2>2. /\ pc' = Sequential /\ running' = running
        /\ gpr' = [gpr EXCEPT ![T] = QuadShift("rotqmbybi", a, (7 - v) % M)]
    BY <1>2, <1>5, <1>11, <1>14, <2>1
  <2>3. QuadShift("rotqmbybi", a, (7 - v) % M) = moved
    <3>1. QuadShift("rotqmbybi", a, (7 - v) % M)
            = q_shr_bytes(a, (-(((7 - v) % M) \div 8)) % (2 * QUAD))
      BY DEF QuadShift
    <3>2. (-(((7 - v) % M) \div 8)) % (2 * QUAD) = (v \div 8) % (2 * QUAD)
      BY <1>7, NegatedCounts
    <3> QED BY <3>1, <3>2 DEF moved
  <2>4. gpr' = [gpr EXCEPT ![T] = moved]
    BY <2>2, <2>3
  <2>5. File(gpr') /\ gpr'[A] = gpr[A] /\ gpr'[B] = gpr[B] /\ gpr'[T] = moved
    BY <1>12, <2>4
  <2> QED BY <1>2, <1>9, <1>14, <2>2, <2>5 DEF At
<1>15. CASE n = 2
  <2>1. Insn = RI("sf", WORD, U, B, 0)
    BY <1>1, <1>3, <1>15
  <2>2. /\ pc' = Sequential /\ running' = running /\ File(gpr')
        /\ \A r \in Registers : r # U => gpr'[r] = gpr[r]
        /\ W(gpr'[U], 0) = (0 - v) % M
    BY <1>8, <1>10, <2>1
  <2>3. gpr'[A] = gpr[A] /\ gpr'[B] = gpr[B] /\ gpr'[T] = gpr[T]
    BY <1>5, <2>2
  <2> QED BY <1>2, <1>9, <1>15, <2>2, <2>3 DEF At
<1>16. CASE n = 3
  <2>1. Insn = RR("rotqmbi", WORD, T, T, U)
    BY <1>1, <1>3, <1>16
  <2>2. /\ pc' = Sequential /\ running' = running
        /\ gpr' = [gpr EXCEPT ![T] = QuadShift("rotqmbi", moved, (0 - v) % M)]
    BY <1>2, <1>5, <1>11, <1>16, <2>1
  <2>3. QuadShift("rotqmbi", moved, (0 - v) % M) = shifted
    <3>1. QuadShift("rotqmbi", moved, (0 - v) % M)
            = q_shr_bits(moved, (-((0 - v) % M)) % 8)
      BY DEF QuadShift
    <3>2. (-((0 - v) % M)) % 8 = v % 8
      BY <1>7, NegatedCounts
    <3> QED BY <3>1, <3>2 DEF shifted
  <2>4. gpr' = [gpr EXCEPT ![T] = shifted]
    BY <2>2, <2>3
  <2>5. File(gpr') /\ gpr'[A] = gpr[A] /\ gpr'[B] = gpr[B] /\ gpr'[T] = shifted
    BY <1>12, <2>4
  <2> QED BY <1>2, <1>9, <1>16, <2>2, <2>5 DEF At
<1>17. CASE n = 4
  <2>1. Insn.op = "stop"
    BY <1>1, <1>3, <1>17 DEF Stop
  <2>2. pc' = Sequential /\ running' = FALSE /\ gpr' = gpr
    BY <2>1, StepStop
  <2> QED BY <1>2, <1>9, <1>17, <2>2
<1> QED BY <1>3, <1>13, <1>14, <1>15, <1>16, <1>17

LEMMA RightRuns == Spec => []RightInv
<1>1. Init => RightInv
  <2> SUFFICES ASSUME Init PROVE At(5) /\ File(gpr) /\ gpr = first.gpr /\ n = 0
    BY DEF RightInv
  <2> QED BY InitFresh, StartAt DEF Fresh, File
<1>2. RightInv /\ [Step]_channelVars => RightInv'
  <2>1. CASE UNCHANGED channelVars
    BY <2>1 DEF RightInv, channelVars, vars, At, W, File
  <2>2. CASE program # QuadRight /\ Step
    BY <2>2, StepCounts DEF RightInv
  <2> QED BY <2>1, <2>2, RightSteps
<1> QED BY <1>1, <1>2, PTL DEF Spec

\* The byte and the bit instruction of each pair together shift, or rotate, the
\* register as one number, for counts in and beyond its width
\* (spu_interp.cpp:314-353, 818-833).
THEOREM QuadsAreShifted == Spec => []QuadShifts
<1>1. ASSUME PairInv, RightInv PROVE QuadShifts
  <2> DEFINE a == first.gpr[A]
             v == W(first.gpr[B], 0)
             c == v % (2 * QuadBits)
             t == (v \div 8) % (2 * QUAD)
             s == v % 8
  <2>1. QuadLeft = TwoShifts("shlqbybi", "shlqbi") /\ QuadRotate = TwoShifts("rotqbybi", "rotqbi")
        /\ {"shlqbybi", "shlqbi", "rotqbybi", "rotqbi"} \subseteq QuadShiftOps
    BY DEF QuadLeft, QuadRotate, TwoShifts, QuadShiftOps
  <2>2. ASSUME NEW len \in 1 .. 14, At(len), Halted
        PROVE  n = len /\ a \in Quad /\ v \in Nat
    <3>1. n = len
      BY <2>2, SpuAssumption, IdiomAssumption DEF Halted, At
    <3>2. a \in Quad /\ first.gpr[B] \in Quad
      BY <2>2, SixRegisters DEF At
    <3>3. 0 \in 0 .. WORDS - 1 /\ M \in Int
      BY Widths
    <3> HIDE DEF a
    <3>4. v \in 0 .. M - 1
      BY <3>2, <3>3, ElemInRange DEF W
    <3> QED BY <3>1, <3>2, <3>3, <3>4
  <2>3. ASSUME program = QuadLeft, Halted, NEW j \in 0 .. QuadBits - 1
        PROVE  Bit(gpr[T], j) = Bit(a, j + c)
    <3>1. /\ At(3)
          /\ n >= 2 => gpr[T] = QuadShift("shlqbi", QuadShift("shlqbybi", a, v), v)
      BY <1>1, <2>1, <2>3 DEF PairInv
    <3>2. n = 3 /\ a \in Quad /\ v \in Nat
      BY <2>2, <2>3, <3>1
    <3> HIDE DEF a, v
    <3>3. gpr[T] = q_shl_bits(q_shl_bytes(a, t), s)
      BY <3>1, <3>2 DEF QuadShift
    <3>4. t \in Nat /\ s \in 0 .. 7 /\ Behind(j, t, s) = j + c
      BY <3>2, CountParts DEF Behind
    <3> HIDE DEF t, s, c
    <3> QED BY <3>2, <3>3, <3>4, ShiftedLeft
  <2>4. ASSUME program = QuadRight, Halted, NEW j \in 0 .. QuadBits - 1
        PROVE  Bit(gpr[T], j) = Bit(a, j - c)
    <3>1. At(5) /\ (n >= 4 => gpr[T] = q_shr_bits(q_shr_bytes(a, t), s))
      BY <1>1, <2>4 DEF RightInv
    <3>2. n = 5 /\ a \in Quad /\ v \in Nat
      BY <2>2, <2>4, <3>1
    <3> HIDE DEF a, v
    <3>3. gpr[T] = q_shr_bits(q_shr_bytes(a, t), s)
      BY <3>1, <3>2
    <3>4. t \in Nat /\ s \in 0 .. 7 /\ 8 * t + s = c
      BY <3>2, CountParts
    <3> HIDE DEF t, s, c
    <3>5. Bit(gpr[T], j) = Bit(a, j - (8 * t + s))
      BY <3>2, <3>3, <3>4, ShiftedRight
    <3> QED BY <3>4, <3>5
  <2>5. ASSUME program = QuadRotate, Halted, NEW j \in 0 .. QuadBits - 1
        PROVE  Bit(gpr[T], j) = Bit(a, (j + c) % QuadBits)
    <3> DEFINE p == (v \div 8) % QUAD
    <3>1. /\ At(3)
          /\ n >= 2 => gpr[T] = QuadShift("rotqbi", QuadShift("rotqbybi", a, v), v)
      BY <1>1, <2>1, <2>5 DEF PairInv
    <3>2. n = 3 /\ a \in Quad /\ v \in Nat
      BY <2>2, <2>5, <3>1
    <3> HIDE DEF a, v
    <3>3. gpr[T] = q_rot_bits(q_rot_bytes(a, p), s)
      BY <3>1, <3>2 DEF QuadShift
    <3>4. j \in Int
      BY BitPlaces
    <3>5. p \in Nat /\ s \in 0 .. 7 /\ Behind(j, p, s) % QuadBits = (j + c) % QuadBits
      BY <3>2, <3>4, CountParts
    <3> HIDE DEF p, s, c
    <3>6. Bit(gpr[T], j) = Bit(a, Behind(j, p, s) % QuadBits)
      BY <3>2, <3>3, <3>5, Rotated
    <3> QED BY <3>5, <3>6
  <2> QED BY <2>3, <2>4, <2>5 DEF QuadShifts
<1>2. PairInv /\ RightInv => QuadShifts
  BY <1>1
<1> QED BY <1>2, PairsRun, RightRuns, PTL
=============================================================================
