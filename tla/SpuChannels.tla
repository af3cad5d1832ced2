---------------------------- MODULE SpuChannels -----------------------------
(***************************************************************************)
(* The channel instructions of spu_step: wrch, rdch and rchcnt of          *)
(* spu_interp.cpp, and the DMA that a write of MFC_Cmd carries out before  *)
(* it returns.  A transfer is between the local store and guest memory, or *)
(* between two places of the local store, which guest addresses from       *)
(* LS_MAP on stand for.                                                    *)
(*                                                                         *)
(* Nothing outside the interpreter fills a mailbox or a signal, or takes   *)
(* what the program sends: a read of one stops the program, and the room   *)
(* of the outgoing mailbox is used up by the first write.  A transfer does *)
(* not pass the end of the local store, and the two ranges of one inside   *)
(* it do not overlap.  All of main memory is there to be copied; main.cpp  *)
(* commits a part of it (0x10000 .. 0x1000FFFF), and an access beyond that *)
(* ends the process.                                                       *)
(***************************************************************************)
EXTENDS SpuStep

CONSTANTS RAM, RAM_END,        \* main memory that DMA reaches (0x10000, 0x40000000)
          IO, IO_END,          \* RSX IO, written only (0xD0100000, 0xD0200000)
          LS_MAP, LS_MAP_END,  \* addresses of the local store (0xFE000000, 0xFF000000)
          MAX_DMA              \* bytes of one transfer (16384)

ASSUME ChannelsAssumption ==
  /\ {RAM, RAM_END, IO, IO_END, LS_MAP, LS_MAP_END, MAX_DMA} \subseteq Nat
  /\ RAM < RAM_END /\ RAM_END < IO /\ IO < IO_END /\ IO_END < LS_MAP
  /\ LS_MAP + LS_SIZE <= LS_MAP_END /\ LS_MAP_END + MAX_DMA <= Ones(WORD)

VARIABLES staged,   \* the value last written to each channel, 0 before
          posted,   \* outbound_mbox_count
          memory    \* guest memory that DMA reaches

channelVars == <<vars, staged, posted, memory>>

Staging == {"MFC_LSA", "MFC_EAL", "MFC_Size", "MFC_WrTagMask", "SPU_WrDec"}
Memory  == (RAM .. RAM_END - 1) \cup (IO .. IO_END - 1)

Gets == {64, 66, 68}   \* MFC_GET, MFC_GETB, MFC_GETF
Puts == {32, 34, 36}   \* MFC_PUT, MFC_PUTB, MFC_PUTF
-----------------------------------------------------------------------------
\* The transfer that the staging registers describe.
LsAddress == staged["MFC_LSA"] % LS_SIZE
Size      == IF staged["MFC_Size"] > MAX_DMA THEN MAX_DMA ELSE staged["MFC_Size"]
Address   == staged["MFC_EAL"]
Past      == (Address + Size) % Weight(WORD)

\* Which of the three windows it lies in.  An address of the local store is tested
\* first, also one whose sum wraps, and one past the store is served by no window;
\* main memory excludes a last byte.
InLsMap == Address >= LS_MAP /\ Past <= LS_MAP_END
ToLs    == InLsMap /\ Address - LS_MAP + Size <= LS_SIZE
ToMain  == ~InLsMap /\ Address >= RAM /\ Past < RAM_END
ToIo    == ~InLsMap /\ Address >= IO /\ Past <= IO_END

Overwrite(store, to, from, at) ==
  [x \in DOMAIN store |-> IF x \in to .. to + Size - 1 THEN from[at + x - to] ELSE store[x]]

mfc_get == /\ ls' = IF ToLs THEN Overwrite(ls, LsAddress, ls, Address - LS_MAP)
                    ELSE IF ToMain THEN Overwrite(ls, LsAddress, memory, Address) ELSE ls
           /\ UNCHANGED memory
mfc_put == /\ ls' = IF ToLs THEN Overwrite(ls, Address - LS_MAP, ls, LsAddress) ELSE ls
           /\ memory' = IF ToMain \/ ToIo THEN Overwrite(memory, Address, ls, LsAddress)
                        ELSE memory

mfc_execute(cmd) == \/ cmd \in Gets /\ mfc_get
                    \/ cmd \in Puts /\ mfc_put
                    \/ cmd \notin Gets \cup Puts /\ UNCHANGED <<ls, memory>>

StagedOnce == [ch \in Staging |-> 0]     \* mutant: a command uses up its registers
KeptStaged == staged

\* Channels without a case here are those the code ignores.
wrch(ins) ==
  LET v == Word0(ins.rt)
  IN /\ ins.op = "wrch"
     /\ Continues(IF ins.ch = "SPU_WrSRR0" THEN v % LS_SIZE ELSE Sequential)
     /\ staged' = IF ins.ch \in Staging THEN [staged EXCEPT ![ins.ch] = v]
                  ELSE IF ins.ch = "MFC_Cmd" THEN KeptStaged ELSE staged
     /\ posted' = IF ins.ch \in {"SPU_WrOutMbox", "SPU_WrOutIntrMbox"} THEN 1 ELSE posted
     /\ IF ins.ch = "MFC_Cmd" THEN mfc_execute(v % 256) ELSE UNCHANGED <<ls, memory>>
     /\ UNCHANGED <<gpr, running>>

\* All transfers are done when they are asked about.
Inbound == {"SPU_RdInMbox", "SPU_RdSigNotify1", "SPU_RdSigNotify2"}
ReadValue(ch) == CASE ch = "MFC_RdTagStat" -> staged["MFC_WrTagMask"]
                   [] ch = "SPU_RdDec"     -> staged["SPU_WrDec"]
                   [] ch = "SPU_RdSRR0"    -> Sequential
                   [] OTHER -> 0

rdch(ins) == /\ ins.op = "rdch"
             /\ Continues(Sequential)
             /\ gpr' = [gpr EXCEPT ![ins.rt] = Preferred(ReadValue(ins.ch))]
             /\ running' = (ins.ch \notin Inbound)
             /\ UNCHANGED <<ls, staged, posted, memory>>

Room(ch) == CASE ch \in {"MFC_WrTagUpdate", "MFC_RdTagStat"} -> 1
              [] ch = "SPU_WrOutMbox" -> 1 - posted
              [] OTHER -> 0

rchcnt(ins) == /\ ins.op = "rchcnt"
               /\ Continues(Sequential)
               /\ gpr' = [gpr EXCEPT ![ins.rt] = Preferred(Room(ins.ch))]
               /\ UNCHANGED <<ls, running, staged, posted, memory>>

Step == \/ spu_step /\ UNCHANGED <<staged, posted, memory>>
        \/ wrch(Insn) \/ rdch(Insn) \/ rchcnt(Insn)
=============================================================================
