------------------------------ MODULE ArmDecode ------------------------------
(***************************************************************************)
(* The 4096-entry decode table of the ARM disassembler, indexed by opcode  *)
(* bits 27..20 and 7..4.  The table is flat in the code and is given here  *)
(* in its 32 groups of 128 entries, one per value of bits 27..23.  An      *)
(* entry of the code is a pair (Op, handler): a data transfer carries its  *)
(* addressing twice, as the flags of the Op (what the emitter reads) and   *)
(* in the name of the handler (what the disassembler and the interpreter   *)
(* are specialised by), and both columns are kept here.                    *)
(***************************************************************************)
EXTENDS Naturals, Sequences

Bit(i, n) == (i \div 2^n) % 2 = 1

\* Bits 22..21, bit 20 (S of a data operation, L of a transfer) and bits 7..4
Sel(i) == 1 + ((i \div 32) % 4)
SorL(i) == Bit(i, 4)
Nibble(i) == i % 16

Unk == [kind |-> "unk"]

\* The shift of a register operand: its type, and whether the amount is in rs
ShiftType(i) == <<"ll", "lr", "ar", "rr">>[1 + ((Nibble(i) \div 2) % 4)]
AluReg(op, i) == [kind |-> "alu", op |-> op, s |-> SorL(i), shift |-> ShiftType(i),
                  byReg |-> Nibble(i) % 2 = 1, imm |-> FALSE]
AluImm(op, s) == [kind |-> "alu", op |-> op, s |-> s, shift |-> "none", byReg |-> FALSE, imm |-> TRUE]

Named(kind, op, s) == [kind |-> kind, op |-> op, s |-> s]

\* One transfer: the flags of SingleTransfer::new, and the suffix of the handler
Single(load, pre, wb, add, signed, size, addr, off, up) ==
    [kind |-> "single", load |-> load,
     flags |-> [pre |-> pre, wb |-> wb, add |-> add, signed |-> signed, size |-> size],
     addr |-> addr, off |-> off, up |-> up]

\* Halfword, signed and double transfers share the rows of the data operations
\* (nibbles B, D and F); an undefined W bit of a post-indexed one is ignored.
Half(pre, up, i) ==
    LET n    == (Nibble(i) - 9) \div 2
        load == SorL(i) \/ n = 2
        size == IF SorL(i) THEN <<1, 0, 1>>[n] ELSE <<1, 3, 3>>[n]
        wb   == ~pre \/ Bit(i, 5)
        addr == IF ~pre THEN "pt" ELSE IF Bit(i, 5) THEN "pr" ELSE "of"
    IN  Single(load, pre, wb, up, SorL(i) /\ n > 1, size, addr, IF Bit(i, 6) THEN "imm" ELSE "reg", up)

IsShiftNibble(i) == Nibble(i) % 2 = 0 \/ Nibble(i) < 8
IsHalfNibble(i) == Nibble(i) \in {11, 13, 15}

-----------------------------------------------------------------------------
\* 000 00: and, eor, sub, rsb; mul and mla in their nibble 9
AndEorSubRsb(i) ==
    CASE IsShiftNibble(i) -> AluReg(<<"and", "eor", "sub", "rsb">>[Sel(i)], i)
      [] IsHalfNibble(i)  -> Half(FALSE, FALSE, i)
      [] OTHER -> IF Sel(i) < 3 THEN Named("mul", <<"mul", "mla">>[Sel(i)], SorL(i)) ELSE Unk

\* 000 01: add, adc, sbc, rsc; the long multiplications in their nibble 9
AddAdcSbcRsc(i) ==
    CASE IsShiftNibble(i) -> AluReg(<<"add", "adc", "sbc", "rsc">>[Sel(i)], i)
      [] IsHalfNibble(i)  -> Half(FALSE, TRUE, i)
      [] OTHER -> Named("mul", <<"umull", "umlal", "smull", "smlal">>[Sel(i)], SorL(i))

\* 000 10: tst, teq, cmp, cmn where S is set, and where it is not the status
\* register moves, bx, blx, clz, the saturating and halfword multiplications, swp
Dsp(i) == LET hw == <<"bb", "tb", "bt", "tt">>[(Nibble(i) - 6) \div 2] IN
          CASE Sel(i) = 1 -> Named("dsp", "smla", FALSE)
            [] Sel(i) = 2 -> Named("dsp", IF hw \in {"bb", "bt"} THEN "smlaw" ELSE "smulw", FALSE)
            [] Sel(i) = 3 -> Named("dsp", "smlal", FALSE)
            [] OTHER      -> Named("dsp", "smul", FALSE)
Misc(i) ==
    CASE Nibble(i) = 0 -> Named("psr", <<"mrs_rc", "msr_rc", "mrs_rs", "msr_rs">>[Sel(i)], FALSE)
      [] Nibble(i) = 5 -> Named("q", <<"qadd", "qsub", "qdadd", "qdsub">>[Sel(i)], FALSE)
      [] Nibble(i) = 1 /\ Sel(i) = 2 -> Named("branch", "bx", FALSE)
      [] Nibble(i) = 3 /\ Sel(i) = 2 -> Named("branch", "blx_reg", FALSE)
      [] Nibble(i) = 1 /\ Sel(i) = 4 -> Named("clz", "clz", FALSE)
      [] Nibble(i) = 9 /\ Sel(i) \in {1, 3} -> Named("swp", <<"swp", "", "swpb">>[Sel(i)], FALSE)
      [] Nibble(i) \in {8, 10, 12, 14} -> Dsp(i)
      [] OTHER -> Unk
TstTeqCmpCmn(i) ==
    CASE IsHalfNibble(i) -> Half(TRUE, FALSE, i)
      [] ~SorL(i)        -> Misc(i)
      [] IsShiftNibble(i) -> AluReg(<<"tst", "teq", "cmp", "cmn">>[Sel(i)], i)
      [] OTHER -> Unk

\* 000 11: orr, mov, bic, mvn; nibble 9 is undefined
OrrMovBicMvn(i) ==
    CASE IsShiftNibble(i) -> AluReg(<<"orr", "mov", "bic", "mvn">>[Sel(i)], i)
      [] IsHalfNibble(i)  -> Half(TRUE, TRUE, i)
      [] OTHER -> Unk

\* 001 00 .. 001 11: the same sixteen operations on a rotated immediate
AndEorSubRsbImm(i) == AluImm(<<"and", "eor", "sub", "rsb">>[Sel(i)], SorL(i))
AddAdcSbcRscImm(i) == AluImm(<<"add", "adc", "sbc", "rsc">>[Sel(i)], SorL(i))
TstTeqCmpCmnImm(i) ==
    CASE SorL(i) -> AluImm(<<"tst", "teq", "cmp", "cmn">>[Sel(i)], TRUE)
      [] Sel(i) \in {2, 4} -> Named("psr", <<"", "msr_ic", "", "msr_is">>[Sel(i)], FALSE)
      [] OTHER -> Unk
OrrMovBicMvnImm(i) == AluImm(<<"orr", "mov", "bic", "mvn">>[Sel(i)], SorL(i))

-----------------------------------------------------------------------------
\* Word and byte transfers: bit 22 selects the byte, bit 21 the write-back of a
\* pre-indexed one (and makes a post-indexed one undefined: ldrt and strt)
WordByte(i) == IF Bit(i, 6) THEN 0 ELSE 2
PostIndexed(up, off, i) ==
    IF Bit(i, 5) THEN Unk
    ELSE Single(SorL(i), FALSE, TRUE, up, FALSE, WordByte(i), "pt", off, up)
PreIndexed(up, off, i) ==
    Single(SorL(i), TRUE, Bit(i, 5), up, FALSE, WordByte(i), IF Bit(i, 5) THEN "pr" ELSE "of", off, up)

\* 010: the offset is an immediate
LdrStrPostDown(i) == PostIndexed(FALSE, "imm", i)
LdrStrPostUp(i)   == PostIndexed(TRUE, "imm", i)
LdrStrPreDown(i)  == PreIndexed(FALSE, "imm", i)
LdrStrPreUp(i)    == PreIndexed(TRUE, "imm", i)

\* 011: the offset is a shifted register; bit 4 set is undefined
LdrStrRegPostDown(i) == IF Nibble(i) % 2 = 1 THEN Unk ELSE PostIndexed(FALSE, ShiftType(i), i)
LdrStrRegPostUp(i)   == IF Nibble(i) % 2 = 1 THEN Unk ELSE PostIndexed(TRUE, ShiftType(i), i)
LdrStrRegPreDown(i)  == IF Nibble(i) % 2 = 1 THEN Unk ELSE PreIndexed(FALSE, ShiftType(i), i)
LdrStrRegPreUp(i)    == IF Nibble(i) % 2 = 1 THEN Unk ELSE PreIndexed(TRUE, ShiftType(i), i)

\* 100: block transfers, the flags of MultipleTransfer::new and the handler's suffixes
Multiple(pre, add, mode, i) ==
    [kind |-> "multiple", load |-> SorL(i),
     flags |-> [pre |-> pre, wb |-> Bit(i, 5), add |-> add, user |-> Bit(i, 6)],
     mode |-> mode, w |-> Bit(i, 5), u |-> Bit(i, 6)]
LdmStmDa(i) == Multiple(FALSE, FALSE, "da", i)
LdmStmIa(i) == Multiple(FALSE, TRUE, "ia", i)
LdmStmDb(i) == Multiple(TRUE, FALSE, "db", i)
LdmStmIb(i) == Multiple(TRUE, TRUE, "ib", i)

\* 101: branches, forwards and backwards
BForward(i)   == Named("branch", "b", FALSE)
BBackward(i)  == Named("branch", "b", FALSE)
BlForward(i)  == Named("branch", "bl", FALSE)
BlBackward(i) == Named("branch", "bl", FALSE)

\* 110: the coprocessor transfers are all undefined
LdcStcPostDown(i) == Unk
LdcStcPostUp(i)   == Unk
LdcStcPreDown(i)  == Unk
LdcStcPreUp(i)    == Unk

\* 111: coprocessor register moves on odd nibbles, and the software interrupt
CdpMcrMrc(i) == IF Nibble(i) % 2 = 1 THEN Named("cp", IF SorL(i) THEN "mrc" ELSE "mcr", FALSE) ELSE Unk
CdpMcrMrcHigh(i) == IF Nibble(i) % 2 = 1 THEN Named("cp", IF SorL(i) THEN "mrc" ELSE "mcr", FALSE) ELSE Unk
SwiLow(i)  == Named("swi", "swi", FALSE)
SwiHigh(i) == Named("swi", "swi", FALSE)

-----------------------------------------------------------------------------
DataProcessing(i) ==
    CASE i \div 128 = 0 -> AndEorSubRsb(i)     [] i \div 128 = 1 -> AddAdcSbcRsc(i)
      [] i \div 128 = 2 -> TstTeqCmpCmn(i)     [] i \div 128 = 3 -> OrrMovBicMvn(i)
      [] i \div 128 = 4 -> AndEorSubRsbImm(i)  [] i \div 128 = 5 -> AddAdcSbcRscImm(i)
      [] i \div 128 = 6 -> TstTeqCmpCmnImm(i)  [] i \div 128 = 7 -> OrrMovBicMvnImm(i)

Transfer(i) ==
    CASE i \div 128 = 8  -> LdrStrPostDown(i)    [] i \div 128 = 9  -> LdrStrPostUp(i)
      [] i \div 128 = 10 -> LdrStrPreDown(i)     [] i \div 128 = 11 -> LdrStrPreUp(i)
      [] i \div 128 = 12 -> LdrStrRegPostDown(i) [] i \div 128 = 13 -> LdrStrRegPostUp(i)
      [] i \div 128 = 14 -> LdrStrRegPreDown(i)  [] i \div 128 = 15 -> LdrStrRegPreUp(i)
      [] i \div 128 = 16 -> LdmStmDa(i)          [] i \div 128 = 17 -> LdmStmIa(i)
      [] i \div 128 = 18 -> LdmStmDb(i)          [] i \div 128 = 19 -> LdmStmIb(i)

BranchCoprocessor(i) ==
    CASE i \div 128 = 20 -> BForward(i)        [] i \div 128 = 21 -> BBackward(i)
      [] i \div 128 = 22 -> BlForward(i)       [] i \div 128 = 23 -> BlBackward(i)
      [] i \div 128 = 24 -> LdcStcPostDown(i)  [] i \div 128 = 25 -> LdcStcPostUp(i)
      [] i \div 128 = 26 -> LdcStcPreDown(i)   [] i \div 128 = 27 -> LdcStcPreUp(i)
      [] i \div 128 = 28 -> CdpMcrMrc(i)       [] i \div 128 = 29 -> CdpMcrMrcHigh(i)
      [] i \div 128 = 30 -> SwiLow(i)          [] i \div 128 = 31 -> SwiHigh(i)

DecodeArm(i) ==
    CASE i < 1024 -> DataProcessing(i)
      [] i \in 1024 .. 2559 -> Transfer(i)
      [] OTHER -> BranchCoprocessor(i)
=============================================================================
