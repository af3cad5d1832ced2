------------------------------ MODULE RsxFifo ------------------------------
(***************************************************************************)
(* The RSX command FIFO of runtime_glue.cpp.  The game appends commands to *)
(* a buffer in guest memory; when it writes the PUT register (guest        *)
(* address 0x10), vm_write32 parses the buffer from where the last parse   *)
(* ended, hands every register write to rsx_handle, and only then mirrors  *)
(* PUT to GET.  One step of the parser is one turn of its loop.            *)
(*                                                                         *)
(* Addresses count 32-bit words.  A command word is a record that says     *)
(* what its bits mean to the parser; the argument of a command is its      *)
(* place in the order in which the game queued arguments.                  *)
(*                                                                         *)
(* The game is the only writer of the buffer.  It lies in the region that  *)
(* an SPU program may also reach with a DMA PUT (spu_interp.cpp:184-188);  *)
(* nothing orders such a write with a parse.                               *)
(***************************************************************************)
EXTENDS Integers, Sequences, SequencesExt

CONSTANTS CMD_BUF,       \* first word of the buffer (0xD0100000)
          CMD_BUF_END,   \* first word past it (0xD0200000)
          IO_LIMIT,      \* smaller values are RSX IO offsets (0x1000000)
          Methods,       \* register addresses the game writes
          MaxArgs,       \* bound on the arguments of one command
          MaxQueued      \* bound on the arguments queued in all

ASSUME FifoAssumption ==
  /\ CMD_BUF \in Nat /\ CMD_BUF_END \in Nat /\ IO_LIMIT \in Nat
  /\ IO_LIMIT <= CMD_BUF /\ CMD_BUF < CMD_BUF_END
  /\ CMD_BUF_END - CMD_BUF <= IO_LIMIT
  /\ Methods \subseteq Nat /\ MaxArgs \in Nat \ {0} /\ MaxQueued \in Nat

VARIABLES mem,          \* the words of the command buffer
          current,      \* where the game writes its next word
          queued,       \* register writes the game has queued so far
          flushed,      \* how many of them were queued at the last write of PUT
          g_rsx_get_ea, \* PUT of the last parse, as the game wrote it
          get,          \* the GET register the game reads
          put,          \* the PUT value being parsed
          ptr,          \* the parser's position
          parsing,      \* a parse is under way
          handled       \* calls of rsx_handle so far

game   == <<mem, current, queued, flushed>>
parser == <<g_rsx_get_ea, put, ptr, parsing, handled>>
vars   == <<game, parser, get>>

Buffer == CMD_BUF .. CMD_BUF_END - 1

Nop                    == [op |-> "nop"]
Jump(to)               == [op |-> "jump", to |-> to]
Header(method, n, inc) == [op |-> "method", method |-> method, count |-> n, inc |-> inc]
Arg(v)                 == [op |-> "arg", value |-> v]

Init == /\ mem = [a \in Buffer |-> Nop]
        /\ current = CMD_BUF
        /\ queued = <<>> /\ flushed = 0
        /\ g_rsx_get_ea = 0 /\ get = 0
        /\ put = 0 /\ ptr = CMD_BUF /\ parsing = FALSE
        /\ handled = <<>>
-----------------------------------------------------------------------------
(***************************************************************************)
(* The game.  It writes whole commands, keeps the last word of the buffer  *)
(* for a jump, and writes PUT between commands.                            *)
(***************************************************************************)
Register(method, inc, i) == IF inc THEN method + i ELSE method

Write(words) ==
  mem' = [a \in Buffer |-> IF a \in current .. current + Len(words) - 1
                           THEN words[a - current + 1] ELSE mem[a]]

AppendNop ==
  /\ ~parsing
  /\ current < CMD_BUF_END - 1
  /\ Write(<<Nop>>)
  /\ current' = current + 1
  /\ UNCHANGED <<queued, flushed, parser, get>>

AppendMethod(method, n, inc) ==
  /\ ~parsing
  /\ current + n < CMD_BUF_END - 1
  /\ Len(queued) + n <= MaxQueued
  /\ Write(<<Header(method, n, inc)>> \o [i \in 1 .. n |-> Arg(Len(queued) + i)])
  /\ queued' = queued \o
       [i \in 1 .. n |-> [reg |-> Register(method, inc, i - 1), arg |-> Len(queued) + i]]
  /\ current' = current + n + 1
  /\ UNCHANGED <<flushed, parser, get>>

\* Forward over part of the buffer.
JumpTargets == current + 1 .. CMD_BUF_END - 1

AppendJump(to) ==
  /\ ~parsing
  /\ to \in JumpTargets
  /\ Write(<<Jump(to - CMD_BUF)>>)
  /\ current' = to
  /\ UNCHANGED <<queued, flushed, parser, get>>

(***************************************************************************)
(* The parser.                                                             *)
(***************************************************************************)
rsx_io_to_ea(v) == IF v < IO_LIMIT THEN CMD_BUF + v ELSE v

FromTheStart == CMD_BUF                       \* mutant: commands are parsed again
ParseStart == rsx_io_to_ea(g_rsx_get_ea)

\* vm_write32(0x10, PUT): PUT is an IO offset or an address.
WritePut ==
  /\ ~parsing
  /\ \E v \in {current, current - CMD_BUF} :
       /\ put' = v
       /\ IF rsx_io_to_ea(v) <= ParseStart
            THEN /\ g_rsx_get_ea' = v /\ get' = v
                 /\ UNCHANGED <<ptr, parsing>>
            ELSE /\ ptr' = ParseStart
                 /\ parsing' = TRUE
                 /\ UNCHANGED <<g_rsx_get_ea, get>>
  /\ flushed' = Len(queued)
  /\ UNCHANGED <<mem, current, queued, handled>>

More == ptr < rsx_io_to_ea(put) /\ ptr < CMD_BUF_END

Advance(to) == ptr' = to /\ UNCHANGED <<game, g_rsx_get_ea, get, put, parsing>>

NopStays(a) == a                              \* mutant: a NOP is never passed
AfterNop(a) == a + 1
AfterArguments(a, n) == a + n                 \* mutant: the header is not counted
AfterCommand(a, n) == a + 1 + n

ParseNop ==
  /\ parsing /\ More
  /\ mem[ptr].op \in {"nop", "arg"}            \* see HeadersOnly
  /\ Advance(AfterNop(ptr))
  /\ UNCHANGED handled

ParseMethod ==
  /\ parsing /\ More
  /\ mem[ptr].op = "method"
  /\ LET h == mem[ptr] IN
       IF h.count = 0 \/ ptr + 1 + h.count > CMD_BUF_END
         THEN Advance(ptr + 1) /\ UNCHANGED handled
         ELSE /\ handled' = handled \o
                   [i \in 1 .. h.count |-> [reg |-> Register(h.method, h.inc, i - 1),
                                            arg |-> mem[ptr + i].value]]
              /\ Advance(AfterCommand(ptr, h.count))

\* The parse ends: PUT becomes the next starting point and is mirrored to GET.
Finish == /\ parsing' = FALSE
          /\ g_rsx_get_ea' = put /\ get' = put
          /\ UNCHANGED <<game, put, ptr, handled>>

ParseJump ==
  /\ parsing /\ More
  /\ mem[ptr].op = "jump"
  /\ LET to == rsx_io_to_ea(mem[ptr].to) IN
       IF to \in Buffer THEN Advance(to) /\ UNCHANGED handled ELSE Finish

ParseEnds == parsing /\ ~More /\ Finish

Parse == ParseNop \/ ParseMethod \/ ParseJump \/ ParseEnds

Next == \/ \E m \in Methods, n \in 0 .. MaxArgs, inc \in BOOLEAN : AppendMethod(m, n, inc)
        \/ \E to \in Buffer : AppendJump(to)
        \/ AppendNop
        \/ WritePut
        \/ Parse

Spec == Init /\ [][Next]_vars

\* The parse runs in the call that writes PUT: the thread that makes it goes on.
FairSpec == Spec /\ WF_vars(Parse)
-----------------------------------------------------------------------------
Words == {Nop}
         \cup [op : {"jump"}, to : 0 .. CMD_BUF_END - CMD_BUF]
         \cup [op : {"method"}, method : Methods, count : 0 .. MaxArgs, inc : BOOLEAN]
         \cup [op : {"arg"}, value : 1 .. MaxQueued]
RegisterWrites == [reg : Nat, arg : 1 .. MaxQueued]
PutValues == 0 .. CMD_BUF_END

\* Types of the FIFO; the parser's position never passes the end of the buffer.
TypeOK == /\ mem \in [Buffer -> Words]
          /\ current \in Buffer
          /\ queued \in Seq(RegisterWrites) /\ flushed \in 0 .. MaxQueued
          /\ handled \in Seq(RegisterWrites)
          /\ g_rsx_get_ea \in PutValues /\ get \in PutValues /\ put \in PutValues
          /\ ptr \in CMD_BUF .. CMD_BUF_END
          /\ parsing \in BOOLEAN

\* Every register write queued before the last write of PUT is handled once and in
\* order, none queued later is, and GET reaches PUT no earlier than the last of them
\* is handled (runtime_glue.cpp:419-421, 594-636, 1100-1108).
ExactlyTheFlushed ==
  LET due == SubSeq(queued, 1, flushed)
      at(v) == rsx_io_to_ea(v)
  IN  /\ IsPrefix(handled, due)
      /\ ~parsing => handled = due /\ at(get) = at(put)
      /\ parsing => at(get) < at(put)

\* The parser never takes an argument for a command header, however commands, NOPs
\* and jumps alternate and whatever flushes lie between them
\* (runtime_glue.cpp:607-634).
HeadersOnly == parsing /\ More => mem[ptr].op # "arg"

\* The write of PUT returns: the game never stalls (runtime_glue.cpp:1100-1101).
FlushReturns == parsing ~> ~parsing
=============================================================================
