--------------------------- MODULE RsxFifo_proofs ---------------------------
(***************************************************************************)
(* Proofs about RsxFifo.  The parser sees only words; what it relies on is *)
(* that the game wrote whole commands.  The set S of the boundaries that   *)
(* the game went through while it wrote, and the number idx[a] of register *)
(* writes it had queued at each, are not in the state, but they exist      *)
(* (Chain): the command at a boundary leads to the next boundary, whether  *)
(* it is a NOP, a jump or a method, and its arguments lie in between.  PUT *)
(* and the parser's position are boundaries (Progress), so the parser      *)
(* never reads an argument as a header, never jumps past PUT, and has      *)
(* handled exactly what was queued before the boundary at which it is.     *)
(***************************************************************************)
EXTENDS RsxFifo, SequenceTheorems, TLAPS

at(v) == rsx_io_to_ea(v)

\* Where the command at a ends, and how many register writes it makes.
After(a)   == IF mem[a].op = "jump" THEN CMD_BUF + mem[a].to
              ELSE IF mem[a].op = "method" THEN a + 1 + mem[a].count ELSE a + 1
Carried(a) == IF mem[a].op = "method" THEN mem[a].count ELSE 0

\* The arguments of the method at a are the next ones the game queued.
Arguments(a, idx) ==
  LET h == mem[a] IN
    \A i \in 1 .. h.count :
      /\ mem[a + i] = Arg(idx[a] + i)
      /\ queued[idx[a] + i] = [reg |-> Register(h.method, h.inc, i - 1), arg |-> idx[a] + i]

Command(a, S, idx) ==
  /\ mem[a].op \in {"nop", "jump", "method"}
  /\ After(a) \in S /\ a < After(a)
  /\ idx[After(a)] = idx[a] + Carried(a)
  /\ mem[a].op = "method" => Arguments(a, idx)

Chain(S, idx) ==
  /\ S \subseteq Buffer /\ idx \in [Buffer -> Nat]
  /\ CMD_BUF \in S /\ idx[CMD_BUF] = 0
  /\ current \in S /\ idx[current] = Len(queued)
  /\ \A a \in S : a <= current
  /\ \A a \in S : a < current => Command(a, S, idx)
  /\ \A a, b \in S : a < b => After(a) <= b
  /\ \A a, b \in S : a <= b => idx[a] <= idx[b]

Progress(S, idx) ==
  /\ get = g_rsx_get_ea /\ ParseStart \in S
  /\ at(put) \in S /\ idx[at(put)] = flushed
  /\ ~parsing => ParseStart = at(put) /\ Len(handled) = flushed
  /\ parsing => /\ ParseStart < at(put)
                /\ ptr \in S /\ ptr <= at(put) /\ idx[ptr] = Len(handled)

\* What was handled is the beginning of what was queued.
InOrder == /\ Len(handled) <= Len(queued)
           /\ \A i \in 1 .. Len(handled) : handled[i] = queued[i]

IInv == /\ TypeOK /\ Len(queued) <= MaxQueued
        /\ InOrder
        /\ \E S, idx : Chain(S, idx) /\ Progress(S, idx)

USE FifoAssumption DEF Buffer

-----------------------------------------------------------------------------
(***************************************************************************)
(* Sequences given by their elements, and the words a command writes.      *)
(***************************************************************************)
LEMMA FunctionIsSeq ==
  ASSUME NEW n \in Nat, NEW S, NEW f \in [1 .. n -> S]
  PROVE  f \in Seq(S) /\ Len(f) = n
<1>1. f \in Seq(S)
  BY SeqDef
<1>2. f \in [1 .. Len(f) -> S] /\ Len(f) \in Nat
  BY <1>1, LenProperties
<1>3. 1 .. n = 1 .. Len(f)
  BY <1>2
<1> QED BY <1>1, <1>2, <1>3

\* What the words of each kind carry.
LEMMA WordKinds ==
  ASSUME NEW w \in Words
  PROVE  /\ w.op \in {"nop", "jump", "method", "arg"}
         /\ w.op = "method" => w.method \in Nat /\ w.count \in Nat /\ w.inc \in BOOLEAN
         /\ w.op = "method" => w.count \in 0 .. MaxArgs
         /\ w.op = "jump" => w.to \in Nat
<1>1. CASE w = Nop
  BY <1>1 DEF Nop
<1>2. CASE w \in [op : {"jump"}, to : 0 .. CMD_BUF_END - CMD_BUF]
  BY <1>2
<1>3. CASE w \in [op : {"method"}, method : Methods, count : 0 .. MaxArgs, inc : BOOLEAN]
  <2>1. w.op = "method" /\ w.method \in Methods /\ w.count \in 0 .. MaxArgs
    BY <1>3, Zenon
  <2>2. w.inc \in BOOLEAN
    BY <1>3, Zenon
  <2>3. /\ \A x \in Methods : x \in Nat
        /\ \A x \in 0 .. MaxArgs : x \in Nat
    OBVIOUS
  <2> QED BY <2>1, <2>2, <2>3, Zenon
<1>4. CASE w \in [op : {"arg"}, value : 1 .. MaxQueued]
  BY <1>4
<1>5. \/ w = Nop
      \/ w \in [op : {"jump"}, to : 0 .. CMD_BUF_END - CMD_BUF]
      \/ w \in [op : {"method"}, method : Methods, count : 0 .. MaxArgs, inc : BOOLEAN]
      \/ w \in [op : {"arg"}, value : 1 .. MaxQueued]
  BY Zenon DEF Words
<1> QED BY <1>1, <1>2, <1>3, <1>4, <1>5, Zenon

\* The elements of a concatenation, counted from either beginning.
LEMMA ConcatElements ==
  ASSUME NEW S, NEW s \in Seq(S), NEW t \in Seq(S)
  PROVE  /\ s \o t \in Seq(S) /\ Len(s \o t) = Len(s) + Len(t)
         /\ \A i \in 1 .. Len(s) : (s \o t)[i] = s[i]
         /\ \A i \in 1 .. Len(t) : (s \o t)[Len(s) + i] = t[i]
<1>1. /\ s \o t \in Seq(S) /\ Len(s \o t) = Len(s) + Len(t)
      /\ \A i \in 1 .. Len(s) + Len(t) : (s \o t)[i] =
           IF i <= Len(s) THEN s[i] ELSE t[i - Len(s)]
  BY ConcatProperties
<1>2. Len(s) \in Nat /\ Len(t) \in Nat
  BY LenProperties
<1>3. \A i \in 1 .. Len(s) : (s \o t)[i] = s[i]
  BY <1>1, <1>2
<1>4. ASSUME NEW i \in 1 .. Len(t) PROVE (s \o t)[Len(s) + i] = t[i]
  <2>1. (s \o t)[Len(s) + i] = t[Len(s) + i - Len(s)]
    BY <1>1, <1>2
  <2>2. Len(s) + i - Len(s) = i
    BY <1>2
  <2> QED BY <2>1, <2>2
<1> QED BY <1>1, <1>3, <1>4

\* A word followed by the values of a function.
LEMMA WordThenFunction ==
  ASSUME NEW S, NEW w \in S, NEW n \in Nat, NEW f \in [1 .. n -> S]
  PROVE  /\ Len(<<w>> \o f) = n + 1 /\ (<<w>> \o f)[1] = w
         /\ \A i \in 1 .. n : (<<w>> \o f)[1 + i] = f[i]
<1>1. f \in Seq(S) /\ Len(f) = n
  BY FunctionIsSeq
<1>2. ASSUME NEW s \in Seq(S)
      PROVE  /\ Len(s \o f) = Len(s) + n
             /\ \A i \in 1 .. Len(s) : (s \o f)[i] = s[i]
             /\ \A i \in 1 .. n : (s \o f)[Len(s) + i] = f[i]
  <2>1. Len(s \o f) = Len(s) + n
    BY <1>1, ConcatElements
  <2>2. \A i \in 1 .. Len(s) : (s \o f)[i] = s[i]
    BY <1>1, ConcatElements
  <2>3. \A i \in 1 .. n : (s \o f)[Len(s) + i] = f[i]
    BY <1>1, ConcatElements
  <2> QED BY <2>1, <2>2, <2>3
<1>3. <<w>> \in Seq(S) /\ Len(<<w>>) = 1 /\ <<w>>[1] = w
  OBVIOUS
<1>4. ASSUME NEW s \in Seq(S), Len(s) = 1, s[1] = w
      PROVE  /\ Len(s \o f) = n + 1 /\ (s \o f)[1] = w
             /\ \A i \in 1 .. n : (s \o f)[1 + i] = f[i]
  <2>1. /\ Len(s \o f) = 1 + n
        /\ \A i \in 1 .. 1 : (s \o f)[i] = s[i]
        /\ \A i \in 1 .. n : (s \o f)[1 + i] = f[i]
    BY <1>2, <1>4, Zenon
  <2> QED BY <1>4, <2>1
<1> QED BY <1>3, <1>4

\* What appending a method writes.
LEMMA WriteMethod ==
  ASSUME TypeOK, NEW m \in Methods, NEW n \in 0 .. MaxArgs, NEW inc \in BOOLEAN,
         Len(queued) + n <= MaxQueued,
         Write(<<Header(m, n, inc)>> \o [i \in 1 .. n |-> Arg(Len(queued) + i)])
  PROVE  mem' = [a \in Buffer |-> IF a = current THEN Header(m, n, inc)
                                  ELSE IF a \in current + 1 .. current + n
                                       THEN Arg(Len(queued) + a - current) ELSE mem[a]]
<1> DEFINE h == <<Header(m, n, inc)>>
           f == [i \in 1 .. n |-> Arg(Len(queued) + i)]
<1>0. n \in Nat /\ current \in Nat /\ Len(queued) \in Nat
  BY LenProperties DEF TypeOK
<1>1. Header(m, n, inc) \in Words
  BY DEF Words, Header
<1>2. f \in [1 .. n -> Words]
  BY <1>0 DEF Words, Arg
<1>3. \A i \in 1 .. n : f[i] = Arg(Len(queued) + i)
  OBVIOUS
<1>4. Write(h \o f)
  OBVIOUS
<1> HIDE DEF h, f
<1>5. /\ Len(h \o f) = n + 1 /\ (h \o f)[1] = Header(m, n, inc)
      /\ \A i \in 1 .. n : (h \o f)[1 + i] = Arg(Len(queued) + i)
  <2>1. /\ Len(h \o f) = n + 1 /\ (h \o f)[1] = Header(m, n, inc)
        /\ \A i \in 1 .. n : (h \o f)[1 + i] = f[i]
    BY <1>0, <1>1, <1>2, WordThenFunction DEF h
  <2> QED BY <1>3, <2>1
<1> DEFINE w == h \o f
<1>6. /\ Len(w) = n + 1 /\ w[1] = Header(m, n, inc)
      /\ \A i \in 1 .. n : w[1 + i] = Arg(Len(queued) + i)
      /\ mem' = [a \in Buffer |-> IF a \in current .. current + Len(w) - 1
                                  THEN w[a - current + 1] ELSE mem[a]]
  BY <1>4, <1>5 DEF Write
<1> HIDE DEF w
<1>7. ASSUME NEW a \in Buffer
      PROVE  (IF a \in current .. current + Len(w) - 1 THEN w[a - current + 1] ELSE mem[a])
             = IF a = current THEN Header(m, n, inc)
               ELSE IF a \in current + 1 .. current + n
                    THEN Arg(Len(queued) + a - current) ELSE mem[a]
  <2>1. CASE a = current
    BY <1>0, <1>6, <2>1
  <2>2. CASE a \in current + 1 .. current + n
    <3>1. a - current \in 1 .. n /\ a - current + 1 = 1 + (a - current)
          /\ Len(queued) + (a - current) = Len(queued) + a - current
      BY <1>0, <2>2
    <3>2. w[a - current + 1] = Arg(Len(queued) + a - current)
      BY <1>6, <3>1
    <3>3. a \in current .. current + Len(w) - 1 /\ a # current
      BY SMTT(30), <1>0, <1>6, <2>2
    <3> QED BY <2>2, <3>2, <3>3
  <2>3. CASE a \notin current .. current + n
    BY <1>0, <1>6, <2>3
  <2>4. \/ a = current \/ a \in current + 1 .. current + n \/ a \notin current .. current + n
    BY <1>0
  <2> QED BY <2>1, <2>2, <2>3, <2>4
<1> QED BY <1>6, <1>7

\* What appending a single word writes.
LEMMA WriteOne ==
  ASSUME TypeOK, NEW w, Write(<<w>>)
  PROVE  mem' = [a \in Buffer |-> IF a = current THEN w ELSE mem[a]]
<1>1. current \in Nat /\ Len(<<w>>) = 1
  BY DEF TypeOK
<1> QED BY <1>1 DEF Write

\* What appending a method queues.
LEMMA QueueMethod ==
  ASSUME TypeOK, NEW m \in Methods, NEW n \in 0 .. MaxArgs, NEW inc \in BOOLEAN,
         Len(queued) + n <= MaxQueued,
         queued' = queued \o
           [i \in 1 .. n |-> [reg |-> Register(m, inc, i - 1), arg |-> Len(queued) + i]]
  PROVE  /\ queued' \in Seq(RegisterWrites) /\ Len(queued') = Len(queued) + n
         /\ \A i \in 1 .. Len(queued) : queued'[i] = queued[i]
         /\ \A i \in 1 .. n : queued'[Len(queued) + i] =
              [reg |-> Register(m, inc, i - 1), arg |-> Len(queued) + i]
<1> DEFINE f == [i \in 1 .. n |-> [reg |-> Register(m, inc, i - 1), arg |-> Len(queued) + i]]
<1>0. n \in Nat /\ queued \in Seq(RegisterWrites) /\ Len(queued) \in Nat /\ m \in Nat
  BY LenProperties DEF TypeOK
<1>1. f \in [1 .. n -> RegisterWrites]
  BY <1>0 DEF RegisterWrites, Register
<1>2. queued' = queued \o f
  OBVIOUS
<1>3. \A i \in 1 .. n : f[i] = [reg |-> Register(m, inc, i - 1), arg |-> Len(queued) + i]
  OBVIOUS
<1> HIDE DEF f
<1>4. /\ queued \o f \in Seq(RegisterWrites) /\ Len(queued \o f) = Len(queued) + n
      /\ \A i \in 1 .. Len(queued) : (queued \o f)[i] = queued[i]
      /\ \A i \in 1 .. n : (queued \o f)[Len(queued) + i] = f[i]
  <2>1. f \in Seq(RegisterWrites) /\ Len(f) = n
    BY <1>0, <1>1, FunctionIsSeq
  <2>2. queued \o f \in Seq(RegisterWrites) /\ Len(queued \o f) = Len(queued) + n
    BY <1>0, <2>1, ConcatElements
  <2>3. \A i \in 1 .. Len(queued) : (queued \o f)[i] = queued[i]
    BY <1>0, <2>1, ConcatElements
  <2>4. \A i \in 1 .. n : (queued \o f)[Len(queued) + i] = f[i]
    BY <1>0, <2>1, ConcatElements
  <2> QED BY <2>2, <2>3, <2>4
<1> QED BY <1>2, <1>3, <1>4
-----------------------------------------------------------------------------
(***************************************************************************)
(* The game: a command written at the last boundary makes a new one.       *)
(***************************************************************************)
LEMMA InitIInv == Init => IInv
<1> SUFFICES ASSUME Init PROVE IInv
  OBVIOUS
<1>1. TypeOK /\ Len(queued) <= MaxQueued
  <2>1. mem \in [Buffer -> Words]
    BY DEF Init, Words
  <2>2. queued \in Seq(RegisterWrites) /\ handled \in Seq(RegisterWrites) /\ Len(queued) = 0
    BY EmptySeq DEF Init
  <2>3. current \in Buffer /\ flushed \in 0 .. MaxQueued
    BY DEF Init
  <2>4. /\ g_rsx_get_ea \in PutValues /\ get \in PutValues /\ put \in PutValues
        /\ ptr \in CMD_BUF .. CMD_BUF_END
    BY DEF Init, PutValues
  <2>5. parsing \in BOOLEAN
    BY Zenon DEF Init
  <2> QED BY <2>1, <2>2, <2>3, <2>4, <2>5 DEF TypeOK
<1>2. InOrder
  BY DEF Init, InOrder
<1> DEFINE S == {CMD_BUF}
           idx == [a \in Buffer |-> 0]
<1>3. Chain(S, idx)
  BY DEF Init, Chain
<1>4. Progress(S, idx)
  BY DEF Init, Progress, ParseStart, at, rsx_io_to_ea
<1> HIDE DEF S, idx
<1> QED BY <1>1, <1>2, <1>3, <1>4 DEF IInv

\* Writing a whole command at c, the end of the chain, makes the chain end at d.
LEMMA ChainExtends ==
  ASSUME TypeOK, NEW S, NEW idx, Chain(S, idx),
         NEW c, c = current, NEW d \in Buffer, d = current', c < d,
         NEW k, k = Len(queued'),
         mem'[c].op \in {"nop", "jump", "method"},
         mem'[c].op = "method" => mem'[c].count \in Nat,
         After(c)' = d, k = Len(queued) + Carried(c)',
         mem'[c].op = "method" => Arguments(c, idx)',
         \A a \in Buffer : a < c => mem'[a] = mem[a],
         \A i \in 1 .. Len(queued) : queued'[i] = queued[i]
  PROVE  Chain(S \cup {d}, [idx EXCEPT ![d] = k])'
<1> DEFINE S2 == S \cup {d}
           idx2 == [idx EXCEPT ![d] = k]
<1>1. /\ c \in Nat /\ d \in Nat /\ Len(queued) \in Nat /\ c \in S
      /\ S \subseteq Buffer /\ \A a \in S : a \in Nat /\ a <= c /\ a # d
  BY LenProperties DEF TypeOK, Chain
<1>2. k \in Nat /\ Len(queued) <= k
  <2>1. Carried(c)' \in Nat
    BY DEF Carried
  <2> QED BY <1>1, <2>1
<1>3. /\ idx2 \in [Buffer -> Nat] /\ idx2[d] = k
      /\ \A a \in S : idx2[a] = idx[a]
  BY <1>1, <1>2 DEF Chain
<1>4. \A a \in S : idx[a] \in Nat /\ idx[a] <= Len(queued)
  BY <1>1 DEF Chain
<1>a. \A a \in S2 : a \in S \/ a = d
  OBVIOUS
<1>b. S \subseteq S2 /\ d \in S2
  OBVIOUS
<1> HIDE DEF S2, idx2
<1>5. S2 \subseteq Buffer /\ CMD_BUF \in S2 /\ idx2[CMD_BUF] = 0
  BY <1>1, <1>3, <1>a, <1>b DEF Chain
<1>6. ASSUME NEW a \in S2 PROVE a <= d
  <2>1. CASE a = d
    BY <1>1, <2>1
  <2>2. CASE a \in S
    <3>1. a \in Nat /\ a <= c
      BY <1>1, <2>2
    <3> QED BY <1>1, <3>1
  <2> QED BY <1>a, <2>1, <2>2
<1>7. ASSUME NEW a \in S, a < c
      PROVE  /\ Command(a, S2, idx2)'
             /\ After(a)' = After(a)
  <2>1. Command(a, S, idx) /\ mem'[a] = mem[a]
    BY <1>1, <1>7 DEF Chain
  <2>2. After(a)' = After(a) /\ Carried(a)' = Carried(a)
    BY <2>1 DEF After, Carried
  <2>3. mem[a].op = "method" => Arguments(a, idx2)'
    <3> SUFFICES ASSUME mem[a].op = "method", NEW i \in 1 .. mem[a].count
                 PROVE  /\ mem'[a + i] = Arg(idx2[a] + i)
                        /\ queued'[idx2[a] + i] =
                             [reg |-> Register(mem[a].method, mem[a].inc, i - 1),
                              arg |-> idx2[a] + i]
      BY <2>1 DEF Arguments
    <3>1. /\ mem[a + i] = Arg(idx[a] + i)
          /\ queued[idx[a] + i] = [reg |-> Register(mem[a].method, mem[a].inc, i - 1),
                                   arg |-> idx[a] + i]
      BY <2>1 DEF Command, Arguments
    <3>2. After(a) = a + 1 + mem[a].count /\ Carried(a) = mem[a].count
      BY DEF After, Carried
    <3>3. mem[a].count \in Nat
      BY <1>1, WordKinds DEF TypeOK
    <3>4. /\ After(a) \in S /\ After(a) <= c /\ a \in Buffer
          /\ idx[After(a)] = idx[a] + mem[a].count
      BY <1>1, <2>1, <3>2 DEF Command
    <3>5. a + i < c /\ a + i \in Buffer
      BY <1>1, <3>2, <3>3, <3>4
    <3>6. idx[a] \in Nat /\ idx[a] + mem[a].count <= Len(queued)
      BY <1>4, <3>4
    <3>7. idx[a] + i \in 1 .. Len(queued)
      <4>1. i \in Nat /\ 1 <= i /\ i <= mem[a].count
        BY <3>3
      <4> QED BY <1>1, <3>3, <3>6, <4>1
    <3> QED BY <1>3, <3>1, <3>5, <3>7
  <2>4. After(a) \in S /\ idx2[After(a)] = idx[After(a)] /\ idx2[a] = idx[a]
    BY <1>3, <2>1 DEF Command
  <2>5. Command(a, S2, idx2)'
    BY <1>b, <2>1, <2>2, <2>3, <2>4 DEF Command
  <2> QED BY <2>2, <2>5
<1>8. Command(c, S2, idx2)'
  <2>1. idx2[c] = idx[c] /\ idx[c] = Len(queued)
    BY <1>1, <1>3 DEF Chain
  <2>2. mem'[c].op = "method" => Arguments(c, idx2)'
    BY <2>1 DEF Arguments
  <2> QED BY <1>3, <1>b, <2>1, <2>2 DEF Command
<1>9. ASSUME NEW a \in S2, a < d PROVE Command(a, S2, idx2)'
  <2>1. a \in S /\ (a = c \/ a < c)
    BY <1>1, <1>9, <1>a
  <2> QED BY <1>7, <1>8, <2>1
<1>10. ASSUME NEW a \in S2, NEW b \in S2, a < b PROVE After(a)' <= b
  <2>1. a \in S /\ (a = c \/ a < c)
    BY <1>1, <1>10, <1>a
  <2>2. CASE a = c
    BY <1>1, <1>10, <1>a, <2>2
  <2>3. CASE a < c
    <3>1. After(a)' = After(a) /\ After(a) \in S
      BY <1>1, <1>7, <2>1, <2>3 DEF Chain, Command
    <3>2. CASE b = d
      BY <1>1, <3>1, <3>2
    <3>3. CASE b \in S
      BY <1>10, <2>1, <3>1, <3>3 DEF Chain
    <3> QED BY <1>a, <3>2, <3>3
  <2> QED BY <2>1, <2>2, <2>3
<1>11. ASSUME NEW a \in S2, NEW b \in S2, a <= b PROVE idx2[a] <= idx2[b]
  <2>1. CASE b = d
    BY SMTT(30), <1>2, <1>3, <1>4, <1>a, <2>1
  <2>2. CASE b \in S
    <3>1. a \in S
      BY <1>1, <1>11, <1>a, <2>2
    <3> QED BY <1>3, <1>11, <2>2, <3>1 DEF Chain
  <2> QED BY <1>a, <2>1, <2>2
<1>12. Chain(S2, idx2)'
  BY <1>3, <1>5, <1>6, <1>9, <1>10, <1>11, <1>b DEF Chain
<1> QED BY <1>12 DEF S2, idx2

\* The parser's places do not notice a longer chain.
LEMMA ProgressExtends ==
  ASSUME TypeOK, NEW S, NEW idx, Chain(S, idx), Progress(S, idx), ~parsing,
         NEW d \in Buffer, current < d, NEW k,
         UNCHANGED <<flushed, parser, get>>
  PROVE  Progress(S \cup {d}, [idx EXCEPT ![d] = k])'
<1>1. d \notin S
  BY DEF TypeOK, Chain
<1>2. \A a \in S : [idx EXCEPT ![d] = k][a] = idx[a]
  BY <1>1 DEF Chain
<1>3. /\ ~parsing' /\ put' = put /\ g_rsx_get_ea' = g_rsx_get_ea /\ get' = get
      /\ flushed' = flushed /\ handled' = handled
  BY DEF parser
<1> QED BY <1>2, <1>3 DEF Progress, ParseStart, at, rsx_io_to_ea

\* The invariant after a command was appended.
LEMMA AppendKeeps ==
  ASSUME IInv, ~parsing, NEW c, c = current, current' \in Buffer, c < current',
         mem' \in [Buffer -> Words], queued' \in Seq(RegisterWrites),
         Len(queued') <= MaxQueued,
         mem'[c].op \in {"nop", "jump", "method"},
         After(c)' = current', Len(queued') = Len(queued) + Carried(c)',
         \A idx : idx[c] = Len(queued) /\ mem'[c].op = "method" => Arguments(c, idx)',
         \A a \in Buffer : a < c => mem'[a] = mem[a],
         \A i \in 1 .. Len(queued) : queued'[i] = queued[i],
         UNCHANGED <<flushed, parser, get>>
  PROVE  IInv'
<1>1. TypeOK /\ InOrder
  BY DEF IInv
<1>2. PICK S, idx : Chain(S, idx) /\ Progress(S, idx)
  BY DEF IInv
<1>3. TypeOK'
  BY <1>1 DEF TypeOK, parser
<1>4. mem'[c].op = "method" => mem'[c].count \in Nat
  <2>1. mem'[c] \in Words
    BY <1>1 DEF TypeOK
  <2> QED BY <2>1, WordKinds
<1>5. InOrder'
  <2>1. Len(queued) \in Nat /\ Len(queued') \in Nat /\ Len(handled) \in Nat
    BY <1>1, LenProperties DEF TypeOK
  <2>2. Len(queued) <= Len(queued')
    <3>1. Carried(c)' \in Nat
      BY <1>4 DEF Carried
    <3> QED BY <2>1, <3>1
  <2>3. handled' = handled
    BY DEF parser
  <2>4. Len(handled) <= Len(queued) /\ \A i \in 1 .. Len(handled) : handled[i] = queued[i]
    BY <1>1 DEF InOrder
  <2>5. Len(handled) <= Len(queued')
    BY <2>1, <2>2, <2>4
  <2>6. ASSUME NEW i \in 1 .. Len(handled) PROVE handled[i] = queued'[i]
    <3>1. i \in 1 .. Len(queued)
      BY <2>1, <2>4
    <3>2. queued'[i] = queued[i]
      BY <3>1
    <3> QED BY <2>4, <3>2
  <2> QED BY <2>3, <2>5, <2>6 DEF InOrder
<1>6. idx[c] = Len(queued)
  BY <1>2 DEF Chain
<1>7. PICK d, k : d \in Buffer /\ d = current' /\ k = Len(queued')
  OBVIOUS
<1>8. Chain(S \cup {d}, [idx EXCEPT ![d] = k])'
  BY <1>1, <1>2, <1>4, <1>6, <1>7, ChainExtends
<1>9. Progress(S \cup {d}, [idx EXCEPT ![d] = k])'
  BY <1>1, <1>2, <1>7, ProgressExtends
<1> QED BY <1>3, <1>5, <1>8, <1>9 DEF IInv

LEMMA AppendNopKeeps == ASSUME IInv, AppendNop PROVE IInv'
<1>1. TypeOK /\ Len(queued) <= MaxQueued
  BY DEF IInv
<1>2. current \in Nat /\ mem' = [a \in Buffer |-> IF a = current THEN Nop ELSE mem[a]]
  BY <1>1, WriteOne DEF AppendNop, TypeOK
<1>3. PICK c : c = current
  OBVIOUS
<1>4. c \in Nat /\ c \in Buffer /\ mem'[c] = Nop /\ \A a \in Buffer : a < c => mem'[a] = mem[a]
  BY <1>1, <1>2, <1>3 DEF TypeOK
<1>5. mem'[c].op = "nop" /\ mem' \in [Buffer -> Words]
  BY <1>1, <1>2, <1>4 DEF TypeOK, Words, Nop
<1>6. current' \in Buffer /\ current' = c + 1
  BY <1>1, <1>2, <1>3 DEF AppendNop, TypeOK
<1>7. After(c)' = current' /\ Carried(c)' = 0
  BY <1>5, <1>6 DEF After, Carried
<1>8. queued' = queued /\ queued \in Seq(RegisterWrites) /\ Len(queued) \in Nat
  BY <1>1, LenProperties DEF AppendNop, TypeOK
<1> QED BY <1>1, <1>3, <1>4, <1>5, <1>6, <1>7, <1>8, AppendKeeps DEF AppendNop

LEMMA AppendJumpKeeps == ASSUME IInv, NEW to \in Buffer, AppendJump(to) PROVE IInv'
<1>1. TypeOK /\ Len(queued) <= MaxQueued
  BY DEF IInv
<1>2. current \in Nat /\ to \in Nat
      /\ mem' = [a \in Buffer |-> IF a = current THEN Jump(to - CMD_BUF) ELSE mem[a]]
  BY <1>1, WriteOne DEF AppendJump, TypeOK
<1>3. PICK c : c = current
  OBVIOUS
<1>4. /\ c \in Nat /\ c \in Buffer /\ mem'[c] = Jump(to - CMD_BUF)
      /\ \A a \in Buffer : a < c => mem'[a] = mem[a]
  BY <1>1, <1>2, <1>3 DEF TypeOK
<1>5. Jump(to - CMD_BUF) \in Words
  <2>1. to - CMD_BUF \in 0 .. CMD_BUF_END - CMD_BUF
    BY <1>2
  <2> QED BY <2>1 DEF Words, Jump
<1>6. mem'[c].op = "jump" /\ mem'[c].to = to - CMD_BUF /\ mem' \in [Buffer -> Words]
  BY <1>1, <1>2, <1>4, <1>5 DEF TypeOK, Jump
<1>7. current' \in Buffer /\ current' = to /\ c < to
  BY <1>1, <1>2, <1>3 DEF AppendJump, JumpTargets
<1>8. After(c)' = current' /\ Carried(c)' = 0
  BY <1>2, <1>6, <1>7 DEF After, Carried
<1>9. queued' = queued /\ queued \in Seq(RegisterWrites) /\ Len(queued) \in Nat
  BY <1>1, LenProperties DEF AppendJump, TypeOK
<1> QED BY <1>1, <1>3, <1>4, <1>6, <1>7, <1>8, <1>9, AppendKeeps DEF AppendJump

LEMMA AppendMethodKeeps ==
  ASSUME IInv, NEW m \in Methods, NEW n \in 0 .. MaxArgs, NEW inc \in BOOLEAN,
         AppendMethod(m, n, inc)
  PROVE  IInv'
<1>1. TypeOK /\ n \in Nat /\ current \in Nat /\ Len(queued) \in Nat
      /\ Len(queued) + n <= MaxQueued
  BY LenProperties DEF IInv, TypeOK, AppendMethod
<1>2. mem' = [a \in Buffer |-> IF a = current THEN Header(m, n, inc)
                               ELSE IF a \in current + 1 .. current + n
                                    THEN Arg(Len(queued) + a - current) ELSE mem[a]]
  BY <1>1, WriteMethod DEF AppendMethod
<1>3. /\ queued' \in Seq(RegisterWrites) /\ Len(queued') = Len(queued) + n
      /\ \A i \in 1 .. Len(queued) : queued'[i] = queued[i]
      /\ \A i \in 1 .. n : queued'[Len(queued) + i] =
           [reg |-> Register(m, inc, i - 1), arg |-> Len(queued) + i]
  BY <1>1, QueueMethod DEF AppendMethod
<1>4. PICK c : c = current
  OBVIOUS
<1>5. /\ c \in Nat /\ c \in Buffer /\ mem'[c] = Header(m, n, inc)
      /\ \A a \in Buffer : a < c => mem'[a] = mem[a]
  BY <1>1, <1>2, <1>4 DEF TypeOK
<1>6. /\ mem'[c].op = "method" /\ mem'[c].method = m /\ mem'[c].count = n
      /\ mem'[c].inc = inc
  BY <1>5 DEF Header
<1>7. mem' \in [Buffer -> Words]
  <2>1. Header(m, n, inc) \in Words
    BY DEF Words, Header
  <2>2. ASSUME NEW a \in Buffer, a \in current + 1 .. current + n
        PROVE  Arg(Len(queued) + a - current) \in Words
    <3>1. Len(queued) + a - current \in 1 .. MaxQueued
      BY <1>1, <2>2
    <3> QED BY <3>1 DEF Words, Arg
  <2> QED BY <1>1, <1>2, <2>1, <2>2 DEF TypeOK
<1>8. current' = c + 1 + n /\ current' \in Buffer /\ c < current'
  BY <1>1, <1>4 DEF AppendMethod, TypeOK
<1>9. After(c)' = current' /\ Carried(c)' = n
  BY <1>6, <1>8 DEF After, Carried
<1>10. ASSUME NEW idx, idx[c] = Len(queued) PROVE Arguments(c, idx)'
  <2> SUFFICES ASSUME NEW i \in 1 .. n
               PROVE  /\ mem'[c + i] = Arg(idx[c] + i)
                      /\ queued'[idx[c] + i] = [reg |-> Register(m, inc, i - 1),
                                                arg |-> idx[c] + i]
    BY <1>6 DEF Arguments
  <2>1. c + i \in Buffer /\ c + i # current /\ c + i \in current + 1 .. current + n
        /\ Len(queued) + (c + i) - current = Len(queued) + i
    <3>1. i \in Nat /\ 1 <= i /\ i <= n
      BY <1>1
    <3>2. c + 1 + n \in Buffer
      BY <1>8
    <3>3. c + i \in Buffer
      BY <1>5, <3>1, <3>2
    <3>4. c + i # current /\ c + i \in current + 1 .. current + n
      BY <1>1, <1>4, <1>5, <3>1
    <3>5. Len(queued) + (c + i) - current = Len(queued) + i
      BY <1>1, <1>4, <1>5, <3>1
    <3> QED BY <3>3, <3>4, <3>5
  <2> QED BY <1>2, <1>3, <1>10, <2>1
<1>11. ~parsing /\ UNCHANGED <<flushed, parser, get>>
  BY DEF AppendMethod
<1> QED BY <1>1, <1>3, <1>4, <1>5, <1>6, <1>7, <1>8, <1>9, <1>10, <1>11, AppendKeeps

-----------------------------------------------------------------------------
(***************************************************************************)
(* PUT and the parser: from boundary to boundary.                          *)
(***************************************************************************)
LEMMA WritePutKeeps == ASSUME IInv, WritePut PROVE IInv'
<1>1. TypeOK /\ InOrder /\ Len(queued) <= MaxQueued /\ Len(queued) \in Nat /\ ~parsing
  BY LenProperties DEF IInv, TypeOK, WritePut
<1>2. PICK S, idx : Chain(S, idx) /\ Progress(S, idx)
  BY DEF IInv
<1>3. PICK v \in {current, current - CMD_BUF} :
        /\ put' = v
        /\ IF at(v) <= ParseStart
             THEN g_rsx_get_ea' = v /\ get' = v /\ ptr' = ptr /\ parsing' = parsing
             ELSE /\ ptr' = ParseStart /\ parsing' = TRUE
                  /\ g_rsx_get_ea' = g_rsx_get_ea /\ get' = get
  BY DEF WritePut, at
<1>4. /\ flushed' = Len(queued) /\ mem' = mem /\ current' = current
      /\ queued' = queued /\ handled' = handled
  BY DEF WritePut
<1>5. current \in Buffer /\ current \in Nat /\ at(v) = current /\ v \in PutValues /\ v \in Nat
  BY <1>1, <1>3 DEF TypeOK, PutValues, at, rsx_io_to_ea
<1>6. ParseStart \in S /\ ParseStart \in Buffer /\ ParseStart <= current /\ ParseStart \in Nat
  <2>1. ParseStart \in S
    BY <1>2 DEF Progress
  <2>2. ParseStart \in Buffer /\ ParseStart <= current
    BY <1>2, <2>1 DEF Chain
  <2> QED BY <2>1, <2>2
<1>7. TypeOK'
  <2>1. parsing' \in BOOLEAN
    BY <1>1, <1>3, Zenon DEF TypeOK
  <2>2. g_rsx_get_ea' \in PutValues /\ get' \in PutValues /\ ptr' \in CMD_BUF .. CMD_BUF_END
    BY <1>1, <1>3, <1>5, <1>6 DEF TypeOK
  <2>3. put' \in PutValues /\ flushed' \in 0 .. MaxQueued
    BY <1>1, <1>3, <1>4, <1>5
  <2> QED BY <1>1, <1>4, <2>1, <2>2, <2>3 DEF TypeOK
<1>8. Chain(S, idx)'
  BY ZenonT(40), <1>2, <1>4 DEF Chain, Command, After, Carried, Arguments
<1>9. InOrder'
  BY <1>1, <1>4 DEF InOrder
<1>10. idx[ParseStart] = Len(handled) /\ idx[current] = Len(queued) /\ current \in S
  BY <1>1, <1>2 DEF Progress, Chain
<1>11. Progress(S, idx)'
  <2>1. at(put)' = current
    BY <1>3, <1>5
  <2>2. CASE at(v) <= ParseStart
    <3>1. ParseStart = current /\ ParseStart' = current
      BY <1>3, <1>5, <1>6, <2>2 DEF ParseStart, at
    <3>2. ~parsing' /\ get' = g_rsx_get_ea'
      BY <1>1, <1>3, <2>2
    <3> QED BY <1>4, <1>10, <2>1, <3>1, <3>2 DEF Progress
  <2>3. CASE ~(at(v) <= ParseStart)
    <3>1. ParseStart' = ParseStart /\ ptr' = ParseStart /\ parsing' /\ get' = g_rsx_get_ea'
      BY <1>2, <1>3, <2>3 DEF Progress, ParseStart
    <3> QED BY <1>4, <1>5, <1>6, <1>10, <2>1, <2>3, <3>1 DEF Progress
  <2> QED BY <2>2, <2>3
<1> QED BY <1>1, <1>4, <1>7, <1>8, <1>9, <1>11 DEF IInv

\* The parser stands at a whole command that ends no later than PUT.
LEMMA AtCommand ==
  ASSUME TypeOK, NEW S, NEW idx, Chain(S, idx), Progress(S, idx), parsing, More
  PROVE  /\ Command(ptr, S, idx) /\ After(ptr) <= at(put)
         /\ ptr \in Buffer /\ ptr \in Nat /\ mem[ptr] \in Words
<1>1. ptr \in S /\ at(put) \in S /\ ptr < at(put) /\ at(put) <= current
  BY DEF Progress, More, Chain, at
<1>2. ptr \in Buffer /\ ptr \in Nat /\ at(put) \in Nat /\ current \in Nat
  <2>1. S \subseteq Buffer /\ current \in S
    BY DEF Chain
  <2>2. \A a \in Buffer : a \in Nat
    OBVIOUS
  <2> QED BY <1>1, <2>1, <2>2
<1>3. ptr < current
  BY <1>1, <1>2
<1> QED BY <1>1, <1>2, <1>3 DEF Chain, TypeOK

\* The invariant after the parser went to the next boundary.
LEMMA AdvanceKeeps ==
  ASSUME IInv, parsing, More, UNCHANGED <<game, g_rsx_get_ea, get, put, parsing>>,
         ptr' = After(ptr), handled' \in Seq(RegisterWrites),
         Len(handled') = Len(handled) + Carried(ptr),
         \A i \in 1 .. Len(handled) : handled'[i] = handled[i],
         \A idx : idx[ptr] = Len(handled) /\ mem[ptr].op = "method" /\ Arguments(ptr, idx) =>
           \A i \in 1 .. mem[ptr].count : handled'[Len(handled) + i] = queued[Len(handled) + i]
  PROVE  IInv'
<1>1. TypeOK /\ InOrder /\ Len(queued) <= MaxQueued
  BY DEF IInv
<1>2. PICK S, idx : Chain(S, idx) /\ Progress(S, idx)
  BY DEF IInv
<1>3. /\ Command(ptr, S, idx) /\ After(ptr) <= at(put)
      /\ ptr \in Buffer /\ ptr \in Nat /\ mem[ptr] \in Words
  BY <1>1, <1>2, AtCommand
<1>4. /\ mem' = mem /\ current' = current /\ queued' = queued /\ flushed' = flushed
      /\ g_rsx_get_ea' = g_rsx_get_ea /\ get' = get /\ put' = put /\ parsing' = parsing
  BY DEF game
<1>5. After(ptr) \in S /\ After(ptr) \in Buffer /\ idx[After(ptr)] = idx[ptr] + Carried(ptr)
  BY <1>2, <1>3 DEF Command, Chain
<1>6. idx[ptr] = Len(handled)
  BY <1>2 DEF Progress
<1>7. TypeOK'
  <2>1. ptr' \in CMD_BUF .. CMD_BUF_END
    BY <1>5
  <2> QED BY <1>1, <1>4, <2>1 DEF TypeOK
<1>8. Chain(S, idx)'
  BY <1>2, <1>4 DEF Chain, Command, After, Carried, Arguments
<1>9. Progress(S, idx)'
  <2>1. ptr' \in S /\ ptr' <= at(put) /\ idx[ptr'] = Len(handled')
    BY <1>3, <1>5, <1>6
  <2> QED BY <1>2, <1>4, <2>1 DEF Progress, ParseStart, at, rsx_io_to_ea
<1>10. InOrder'
  <2>1. Len(handled) \in Nat /\ Len(queued) \in Nat /\ Carried(ptr) \in Nat
    BY <1>1, <1>3, LenProperties, WordKinds DEF TypeOK, Carried
  <2>2. Len(handled') <= Len(queued)
    <3>1. After(ptr) <= current /\ current \in S /\ idx[current] = Len(queued)
      BY <1>2, <1>5 DEF Chain
    <3>2. idx[After(ptr)] <= idx[current]
      BY <1>2, <1>5, <3>1 DEF Chain
    <3> QED BY <1>5, <1>6, <3>1, <3>2
  <2>3. ASSUME NEW i \in 1 .. Len(handled') PROVE handled'[i] = queued[i]
    <3>1. CASE i <= Len(handled)
      BY <1>1, <2>1, <3>1 DEF InOrder
    <3>2. CASE i > Len(handled)
      <4>1. mem[ptr].op = "method" /\ Carried(ptr) = mem[ptr].count
        BY <2>1, <3>2 DEF Carried
      <4>2. \A j \in 1 .. mem[ptr].count :
              handled'[Len(handled) + j] = queued[Len(handled) + j]
        BY <1>3, <1>6, <4>1 DEF Command
      <4>3. i - Len(handled) \in 1 .. mem[ptr].count
            /\ Len(handled) + (i - Len(handled)) = i
        BY <2>1, <3>2, <4>1
      <4> QED BY <4>2, <4>3
    <3> QED BY <2>1, <3>1, <3>2
  <2> QED BY <1>4, <2>2, <2>3 DEF InOrder
<1> QED BY <1>1, <1>4, <1>7, <1>8, <1>9, <1>10 DEF IInv

LEMMA ParseNopKeeps == ASSUME IInv, ParseNop PROVE IInv'
<1>1. TypeOK /\ parsing /\ More /\ mem[ptr].op \in {"nop", "arg"}
  BY DEF IInv, ParseNop
<1>2. PICK S, idx : Chain(S, idx) /\ Progress(S, idx)
  BY DEF IInv
<1>3. mem[ptr].op = "nop"
  BY <1>1, <1>2, AtCommand DEF Command
<1>4. After(ptr) = ptr + 1 /\ Carried(ptr) = 0 /\ ptr' = ptr + 1 /\ handled' = handled
  BY <1>3 DEF After, Carried, ParseNop, Advance, AfterNop
<1>5. Len(handled) \in Nat /\ handled \in Seq(RegisterWrites)
  BY <1>1, LenProperties DEF TypeOK
<1>6. UNCHANGED <<game, g_rsx_get_ea, get, put, parsing>>
  BY DEF ParseNop, Advance
<1> QED BY <1>1, <1>3, <1>4, <1>5, <1>6, AdvanceKeeps

\* A method whose arguments lie before PUT lies inside the buffer.
LEMMA ParseMethodKeeps == ASSUME IInv, ParseMethod PROVE IInv'
<1>1. TypeOK /\ parsing /\ More /\ mem[ptr].op = "method"
  BY DEF IInv, ParseMethod
<1>2. PICK S, idx : Chain(S, idx) /\ Progress(S, idx)
  BY DEF IInv
<1>3. /\ Command(ptr, S, idx) /\ After(ptr) <= at(put)
      /\ ptr \in Buffer /\ ptr \in Nat /\ mem[ptr] \in Words
  BY <1>1, <1>2, AtCommand
<1> DEFINE n == mem[ptr].count
           m == mem[ptr].method
           inc == mem[ptr].inc
<1>4. n \in Nat /\ m \in Nat /\ inc \in BOOLEAN
  BY <1>1, <1>3, WordKinds
<1>5. After(ptr) = ptr + 1 + n /\ Carried(ptr) = n
  BY <1>1 DEF After, Carried
<1>6. ptr + 1 + n < CMD_BUF_END
  <2>1. After(ptr) \in Buffer
    BY <1>2, <1>3 DEF Command, Chain
  <2> QED BY <1>4, <1>5, <2>1
<1>7. idx[ptr] = Len(handled) /\ Len(handled) \in Nat /\ handled \in Seq(RegisterWrites)
  BY <1>1, <1>2, LenProperties DEF Progress, TypeOK
<1>8. UNCHANGED <<game, g_rsx_get_ea, get, put, parsing>>
  BY DEF ParseMethod, Advance
<1>9. CASE n = 0
  <2>1. ptr' = ptr + 1 /\ handled' = handled
    BY <1>9 DEF ParseMethod, Advance
  <2>2. ptr' = After(ptr) /\ Len(handled') = Len(handled) + Carried(ptr)
    BY <1>3, <1>5, <1>7, <1>9, <2>1
  <2> QED BY <1>1, <1>4, <1>7, <1>8, <1>9, <2>1, <2>2, AdvanceKeeps
<1>10. CASE n # 0
  <2> DEFINE f == [i \in 1 .. n |-> [reg |-> Register(m, inc, i - 1), arg |-> mem[ptr + i].value]]
  <2>1. ~(ptr + 1 + n > CMD_BUF_END)
    BY <1>3, <1>4, <1>6
  <2>2. handled' = handled \o f /\ ptr' = After(ptr)
    BY <1>5, <1>10, <2>1 DEF ParseMethod, Advance, AfterCommand
  <2>3. ASSUME NEW j, j[ptr] = Len(handled), Arguments(ptr, j), NEW i \in 1 .. n
        PROVE  f[i] = queued[Len(handled) + i]
    <3>1. f[i] = [reg |-> Register(m, inc, i - 1), arg |-> mem[ptr + i].value]
      OBVIOUS
    <3>2. /\ mem[ptr + i] = Arg(j[ptr] + i)
          /\ queued[j[ptr] + i] = [reg |-> Register(m, inc, i - 1), arg |-> j[ptr] + i]
      BY <2>3 DEF Arguments
    <3>3. mem[ptr + i].value = Len(handled) + i
      BY <2>3, <3>2 DEF Arg
    <3> HIDE DEF f
    <3> QED BY <2>3, <3>1, <3>2, <3>3
  <2>4. f \in [1 .. n -> RegisterWrites]
    <3>1. ASSUME NEW i \in 1 .. n PROVE f[i] \in RegisterWrites
      <4>1. f[i] = queued[Len(handled) + i]
        BY <1>1, <1>3, <1>7, <2>3 DEF Command
      <4>2. Len(handled) + i \in 1 .. Len(queued)
        <5>1. After(ptr) \in S /\ After(ptr) <= current /\ current \in S
          BY <1>2, <1>3 DEF Command, Chain
        <5>2. idx[After(ptr)] <= Len(queued)
          BY <1>2, <5>1 DEF Chain
        <5>3. idx[After(ptr)] = Len(handled) + n
          BY <1>3, <1>5, <1>7 DEF Command
        <5>4. Len(queued) \in Nat
          BY <1>1, LenProperties DEF TypeOK
        <5> QED BY <1>4, <1>7, <5>2, <5>3, <5>4
      <4> QED BY <1>1, <4>1, <4>2, ElementOfSeq DEF TypeOK
    <3> HIDE DEF f
    <3>2. f \in [1 .. n -> RegisterWrites] <=> \A i \in 1 .. n : f[i] \in RegisterWrites
      BY DEF f
    <3> QED BY <3>1, <3>2
  <2> HIDE DEF f, n
  <2>5. /\ handled \o f \in Seq(RegisterWrites) /\ Len(handled \o f) = Len(handled) + n
        /\ \A i \in 1 .. Len(handled) : (handled \o f)[i] = handled[i]
        /\ \A i \in 1 .. n : (handled \o f)[Len(handled) + i] = f[i]
    <3>1. f \in Seq(RegisterWrites) /\ Len(f) = n
      BY <1>4, <2>4, FunctionIsSeq
    <3>2. handled \o f \in Seq(RegisterWrites) /\ Len(handled \o f) = Len(handled) + n
      BY <1>7, <3>1, ConcatElements
    <3>3. \A i \in 1 .. Len(handled) : (handled \o f)[i] = handled[i]
      BY <1>7, <3>1, ConcatElements
    <3>4. \A i \in 1 .. n : (handled \o f)[Len(handled) + i] = f[i]
      BY <1>7, <3>1, ConcatElements
    <3> QED BY <3>2, <3>3, <3>4
  <2>6. ASSUME NEW j, j[ptr] = Len(handled), mem[ptr].op = "method", Arguments(ptr, j),
               NEW i \in 1 .. mem[ptr].count
        PROVE  handled'[Len(handled) + i] = queued[Len(handled) + i]
    <3>1. f[i] = queued[Len(handled) + i] /\ i \in 1 .. n
      BY <2>3, <2>6 DEF n
    <3> QED BY <2>2, <2>5, <3>1
  <2> QED BY <1>1, <1>5, <1>8, <2>2, <2>5, <2>6, AdvanceKeeps
<1> QED BY <1>9, <1>10

\* A jump leads to the offset of a boundary.
LEMMA ParseJumpKeeps == ASSUME IInv, ParseJump PROVE IInv'
<1>1. TypeOK /\ parsing /\ More /\ mem[ptr].op = "jump"
  BY DEF IInv, ParseJump
<1>2. PICK S, idx : Chain(S, idx) /\ Progress(S, idx)
  BY DEF IInv
<1>3. Command(ptr, S, idx) /\ mem[ptr] \in Words
  BY <1>1, <1>2, AtCommand
<1>4. After(ptr) = CMD_BUF + mem[ptr].to /\ Carried(ptr) = 0 /\ mem[ptr].to \in Nat
  BY <1>1, <1>3, WordKinds DEF After, Carried
<1>5. After(ptr) \in Buffer
  BY <1>2, <1>3 DEF Command, Chain
<1>6. rsx_io_to_ea(mem[ptr].to) = After(ptr)
  <2>1. mem[ptr].to < IO_LIMIT
    BY <1>4, <1>5
  <2> QED BY <1>4, <2>1 DEF rsx_io_to_ea
<1>7. /\ ptr' = After(ptr) /\ handled' = handled
      /\ UNCHANGED <<game, g_rsx_get_ea, get, put, parsing>>
  BY <1>5, <1>6 DEF ParseJump, Advance
<1>8. Len(handled) \in Nat /\ handled \in Seq(RegisterWrites)
  BY <1>1, LenProperties DEF TypeOK
<1> QED BY <1>1, <1>4, <1>7, <1>8, AdvanceKeeps

\* A parse that ends stands at PUT.
LEMMA ParseEndsKeeps == ASSUME IInv, ParseEnds PROVE IInv'
<1>1. TypeOK /\ InOrder /\ Len(queued) <= MaxQueued /\ parsing /\ ~More
  BY DEF IInv, ParseEnds
<1>2. PICK S, idx : Chain(S, idx) /\ Progress(S, idx)
  BY DEF IInv
<1>3. /\ ~parsing' /\ parsing' = FALSE /\ g_rsx_get_ea' = put /\ get' = put
      /\ put' = put /\ ptr' = ptr /\ handled' = handled
      /\ mem' = mem /\ current' = current /\ queued' = queued /\ flushed' = flushed
  BY DEF ParseEnds, Finish, game
<1>4. ptr \in S /\ at(put) \in S /\ ptr <= at(put) /\ idx[ptr] = Len(handled)
      /\ idx[at(put)] = flushed
  BY <1>1, <1>2 DEF Progress
<1>5. ptr = at(put)
  <2>1. ptr \in Buffer /\ at(put) \in Buffer
    BY <1>2, <1>4 DEF Chain
  <2> QED BY <1>1, <1>4, <2>1 DEF More, at
<1>6. TypeOK'
  <2>1. parsing' \in BOOLEAN
    BY <1>3, Zenon
  <2> QED BY <1>1, <1>3, <2>1 DEF TypeOK
<1>7. Chain(S, idx)'
  BY <1>2, <1>3 DEF Chain, Command, After, Carried, Arguments
<1>8. Progress(S, idx)'
  <2>1. ParseStart' = at(put) /\ at(put)' = at(put)
    BY <1>3 DEF ParseStart, at, rsx_io_to_ea
  <2> QED BY <1>3, <1>4, <1>5, <2>1 DEF Progress
<1>9. InOrder'
  BY <1>1, <1>3 DEF InOrder
<1> QED BY <1>1, <1>3, <1>6, <1>7, <1>8, <1>9 DEF IInv

-----------------------------------------------------------------------------
LEMMA NextIInv == IInv /\ [Next]_vars => IInv'
<1> SUFFICES ASSUME IInv, [Next]_vars PROVE IInv'
  OBVIOUS
<1>1. CASE AppendNop
  BY <1>1, AppendNopKeeps
<1>2. ASSUME NEW m \in Methods, NEW n \in 0 .. MaxArgs, NEW inc \in BOOLEAN,
             AppendMethod(m, n, inc)
      PROVE  IInv'
  BY <1>2, AppendMethodKeeps
<1>3. ASSUME NEW to \in Buffer, AppendJump(to) PROVE IInv'
  BY <1>3, AppendJumpKeeps
<1>4. CASE WritePut
  BY <1>4, WritePutKeeps
<1>5. CASE ParseNop
  BY <1>5, ParseNopKeeps
<1>6. CASE ParseMethod
  BY <1>6, ParseMethodKeeps
<1>7. CASE ParseJump
  BY <1>7, ParseJumpKeeps
<1>8. CASE ParseEnds
  BY <1>8, ParseEndsKeeps
<1>9. CASE UNCHANGED vars
  <2>1. PICK S, idx : Chain(S, idx) /\ Progress(S, idx)
    BY DEF IInv
  <2>2. TypeOK' /\ InOrder' /\ (Len(queued) <= MaxQueued)'
    BY <1>9 DEF vars, game, parser, IInv, TypeOK, InOrder
  <2>3. Chain(S, idx)'
    BY SMTT(30), <1>9, <2>1 DEF vars, game, Chain, Command, After, Carried, Arguments
  <2>4. Progress(S, idx)'
    BY <1>9, <2>1 DEF vars, game, parser, Progress, ParseStart, at, rsx_io_to_ea
  <2> QED BY <2>2, <2>3, <2>4 DEF IInv
<1> QED BY <1>1, <1>2, <1>3, <1>4, <1>5, <1>6, <1>7, <1>8, <1>9 DEF Next, Parse

LEMMA Invariance == Spec => []IInv
BY InitIInv, NextIInv, PTL DEF Spec

\* Command buffer, register values and the parser's position stay in range
\* (runtime_glue.cpp:594-636).
THEOREM TypeCorrect == Spec => []TypeOK
<1>1. IInv => TypeOK
  BY DEF IInv
<1> QED BY <1>1, Invariance, PTL

\* The parser never takes an argument for a header, for every buffer and every
\* sequence of commands, NOPs, jumps and flushes (runtime_glue.cpp:607-634).
THEOREM HeadersAreHeaders == Spec => []HeadersOnly
<1>1. IInv => HeadersOnly
  <2> SUFFICES ASSUME IInv, parsing, More PROVE mem[ptr].op # "arg"
    BY DEF HeadersOnly
  <2>1. PICK S, idx : Chain(S, idx) /\ Progress(S, idx)
    BY DEF IInv
  <2> QED BY <2>1, AtCommand DEF IInv, Command
<1> QED BY <1>1, Invariance, PTL

\* What was flushed is handled once and in order, nothing else is, and GET reaches
\* PUT no earlier (runtime_glue.cpp:594-636, 1100-1108).
THEOREM FlushedAreHandled == Spec => []ExactlyTheFlushed
<1>1. IInv => ExactlyTheFlushed
  <2> SUFFICES ASSUME IInv PROVE ExactlyTheFlushed
    OBVIOUS
  <2>1. PICK S, idx : Chain(S, idx) /\ Progress(S, idx)
    BY DEF IInv
  <2>2. /\ handled \in Seq(RegisterWrites) /\ queued \in Seq(RegisterWrites)
        /\ Len(handled) \in Nat /\ Len(queued) \in Nat /\ flushed \in Nat
    BY LenProperties DEF IInv, TypeOK
  <2>3. Len(handled) <= flushed /\ flushed <= Len(queued)
    <3>1. at(put) \in S /\ idx[at(put)] = flushed /\ at(put) <= current /\ current \in S
      BY <2>1 DEF Progress, Chain
    <3>2. flushed <= Len(queued)
      BY <2>1, <3>1 DEF Chain
    <3>3. CASE parsing
      <4>1. ptr \in S /\ ptr <= at(put) /\ idx[ptr] = Len(handled)
        BY <2>1, <3>3 DEF Progress
      <4>2. idx[ptr] <= idx[at(put)]
        BY <2>1, <3>1, <4>1 DEF Chain
      <4> QED BY <3>1, <3>2, <4>1, <4>2
    <3>4. CASE ~parsing
      BY <2>1, <2>2, <3>2, <3>4 DEF Progress
    <3>5. parsing \/ ~parsing
      OBVIOUS
    <3> QED BY <3>3, <3>4, <3>5, Zenon
  <2> DEFINE due == SubSeq(queued, 1, flushed)
  <2>4. /\ due \in Seq(RegisterWrites) /\ Len(due) = flushed
        /\ \A i \in 1 .. flushed : due[i] = queued[i]
    <3>1. \A i \in 1 .. flushed : queued[i] \in RegisterWrites
      BY <2>2, <2>3, ElementOfSeq
    <3>2. /\ due \in Seq(RegisterWrites)
          /\ Len(due) = IF 1 <= flushed THEN flushed - 1 + 1 ELSE 0
          /\ \A i \in 1 .. flushed - 1 + 1 : due[i] = queued[1 + i - 1]
      BY <2>2, <3>1, SubSeqProperties
    <3>3. \A i \in 1 .. flushed : 1 + i - 1 = i /\ i \in 1 .. flushed - 1 + 1
      BY <2>2
    <3> HIDE DEF due
    <3> QED BY <2>2, <3>2, <3>3
  <2> HIDE DEF due
  <2>5. \A i \in 1 .. Len(handled) : handled[i] = due[i]
    BY <2>2, <2>3, <2>4 DEF IInv, InOrder
  <2>6. SubSeq(handled, 1, Len(handled)) = handled
    BY <2>2, SubSeqFull
  <2>7. SubSeq(due, 1, Len(handled)) = handled
    <3> DEFINE t == SubSeq(due, 1, Len(handled))
    <3>1. \A i \in 1 .. Len(handled) : due[i] \in RegisterWrites
      BY <2>2, <2>3, <2>4, ElementOfSeq
    <3>2. /\ t \in Seq(RegisterWrites)
          /\ Len(t) = IF 1 <= Len(handled) THEN Len(handled) - 1 + 1 ELSE 0
          /\ \A i \in 1 .. Len(handled) - 1 + 1 : t[i] = due[1 + i - 1]
      BY <2>2, <3>1, SubSeqProperties
    <3>3. \A i \in 1 .. Len(handled) : 1 + i - 1 = i /\ i \in 1 .. Len(handled) - 1 + 1
      BY <2>2
    <3> HIDE DEF t
    <3>4. Len(t) = Len(handled) /\ \A i \in 1 .. Len(t) : t[i] = handled[i]
      BY <2>2, <2>5, <3>2, <3>3
    <3>5. t = handled
      BY <2>2, <3>2, <3>4, SeqEqual
    <3> QED BY <3>5 DEF t
  <2>8. IsPrefix(handled, due)
    BY <2>2, <2>3, <2>4, <2>6, <2>7 DEF IsPrefix
  <2>9. ~parsing => handled = due /\ at(get) = at(put)
    <3> SUFFICES ASSUME ~parsing PROVE handled = due /\ at(get) = at(put)
      OBVIOUS
    <3>1. Len(handled) = flushed
      BY <2>1 DEF Progress
    <3>2. handled = due
      BY <2>2, <2>4, <2>5, <3>1, SeqEqual
    <3> QED BY <2>1, <3>2 DEF Progress, ParseStart, at
  <2>10. parsing => at(get) < at(put)
    BY <2>1 DEF Progress, ParseStart, at
  <2> QED BY <2>8, <2>9, <2>10 DEF ExactlyTheFlushed, due, at
<1> QED BY <1>1, Invariance, PTL
=============================================================================
