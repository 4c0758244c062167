----------------------------- MODULE ThumbDecode -----------------------------
(***************************************************************************)
(* The 1024-entry decode table of the Thumb disassembler, indexed by the   *)
(* ten high bits of the opcode, in its 8 groups of 128 entries (one per    *)
(* value of bits 15..13).                                                  *)
(***************************************************************************)
EXTENDS Naturals, Sequences

UnkT == [kind |-> "unk"]
AluT(op, form) == [kind |-> "alu", op |-> op, form |-> form]
BranchT(op) == [kind |-> "branch", op |-> op]

\* A transfer: the flags of SingleTransfer::new in the Op, and the base and
\* offset that the handler of the entry names
SingleT(load, signed, size, base, off) ==
    [kind |-> "single", load |-> load,
     flags |-> [pre |-> TRUE, wb |-> FALSE, add |-> TRUE, signed |-> signed, size |-> size],
     base |-> base, off |-> off]

MultipleT(load, pre, add, name) ==
    [kind |-> "multiple", load |-> load,
     flags |-> [pre |-> pre, wb |-> TRUE, add |-> add, user |-> FALSE], name |-> name]

Within(i, lo, hi) == lo <= i /\ i < hi

\* 000: shifts by an immediate, then add and sub of a register or three bits
ShiftAddSub(i) ==
    CASE i < 96  -> AluT(<<"lsl", "lsr", "asr">>[i \div 32 + 1], "imm5")
      [] OTHER -> AluT(<<"add", "sub">>[1 + (((i - 96) \div 8) % 2)], IF i < 112 THEN "reg" ELSE "imm3")

\* 001: the four operations on an eight-bit immediate
Immediate8(i) == AluT(<<"mov", "cmp", "add", "sub">>[(i - 128) \div 32 + 1], "imm8")

\* 010: the sixteen register operations, the high-register ones, bx and blx,
\* the pc-relative load and the register-offset transfers
DpOps == <<"and", "eor", "lsl", "lsr", "asr", "adc", "sbc", "ror",
           "tst", "neg", "cmp", "cmn", "orr", "mul", "bic", "mvn">>
RegisterOffset(i) ==
    LET n == (i - 320) \div 8 IN
    SingleT(n >= 3, n \in {3, 7}, <<2, 1, 0, 0, 2, 1, 0, 1>>[n + 1], "rb", "reg")
DpHighLdrPc(i) ==
    CASE Within(i, 256, 272) -> AluT(DpOps[i - 255], "dp")
      [] Within(i, 272, 284) -> AluT(<<"add", "cmp", "mov">>[(i - 272) \div 4 + 1], "h")
      [] Within(i, 284, 286) -> BranchT("bx_reg")
      [] Within(i, 286, 288) -> BranchT("blx_reg")
      [] Within(i, 288, 320) -> SingleT(TRUE, FALSE, 2, "pc", "imm")
      [] OTHER -> RegisterOffset(i)

\* 011: word and byte transfers with a five-bit offset
WordByteImm5(i) ==
    LET n == (i - 384) \div 32 IN SingleT(n \in {1, 3}, FALSE, IF n < 2 THEN 2 ELSE 0, "rb", "imm")

\* 100: halfword transfers with a five-bit offset, sp-relative word transfers
HalfImm5Sp(i) ==
    LET n == (i - 512) \div 32 IN
    SingleT(n \in {1, 3}, FALSE, IF n < 2 THEN 1 ELSE 2, IF n < 2 THEN "rb" ELSE "sp", "imm")

\* 101: address generation, the sp adjustment, push and pop
AddressPushPop(i) ==
    CASE Within(i, 640, 672) -> AluT("add", "pc")
      [] Within(i, 672, 704) -> AluT("add", "sp")
      [] Within(i, 704, 708) -> AluT("add", "sp_imm")
      [] Within(i, 720, 724) -> MultipleT(FALSE, TRUE, FALSE, "push")
      [] Within(i, 724, 728) -> MultipleT(FALSE, TRUE, FALSE, "push_lr")
      [] Within(i, 752, 756) -> MultipleT(TRUE, FALSE, TRUE, "pop")
      [] Within(i, 756, 760) -> MultipleT(TRUE, FALSE, TRUE, "pop_pc")
      [] OTHER -> UnkT

\* 110: block transfers, the fourteen conditional branches, swi
BCond == <<"eq", "ne", "cs", "cc", "mi", "pl", "vs", "vc", "hi", "ls", "ge", "lt", "gt", "le">>
BlockBCondSwi(i) ==
    CASE Within(i, 768, 800) -> MultipleT(FALSE, FALSE, TRUE, "stmia")
      [] Within(i, 800, 832) -> MultipleT(TRUE, FALSE, TRUE, "ldmia")
      [] Within(i, 832, 888) -> [kind |-> "branch", op |-> "b_cond", cond |-> BCond[(i - 832) \div 4 + 1]]
      [] Within(i, 888, 892) -> UnkT
      [] OTHER -> [kind |-> "swi", op |-> "swi"]

\* 111: the unconditional branch and the halves of the long ones
BranchLong(i) == BranchT(<<"b", "blx_off", "bl_setup", "bl_off">>[(i - 896) \div 32 + 1])

DecodeThumb(i) ==
    CASE i \div 128 = 0 -> ShiftAddSub(i)   [] i \div 128 = 1 -> Immediate8(i)
      [] i \div 128 = 2 -> DpHighLdrPc(i)   [] i \div 128 = 3 -> WordByteImm5(i)
      [] i \div 128 = 4 -> HalfImm5Sp(i)    [] i \div 128 = 5 -> AddressPushPop(i)
      [] i \div 128 = 6 -> BlockBCondSwi(i) [] OTHER -> BranchLong(i)
=============================================================================
