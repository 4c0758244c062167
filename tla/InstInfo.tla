------------------------------ MODULE InstInfo -------------------------------
(***************************************************************************)
(* What the disassembler declares of one instruction: the registers it     *)
(* reads (src), the registers it writes (out) and the cycles it costs.     *)
(* The register allocator, the liveness analysis, the idle-loop detection  *)
(* and the cycle sums of a compiled block believe these declarations and   *)
(* never look at what the emitted code does.                               *)
(*                                                                         *)
(* d is a decoded entry (ArmDecode, ThumbDecode), o the operand fields of  *)
(* the opcode: rn, rd, rs, rm are bits 19..16, 15..12, 11..8 and 3..0 of   *)
(* an ARM opcode; amt is the immediate shift amount, list the register     *)
(* list and cond the condition ("al", "nv" or another).                    *)
(***************************************************************************)
EXTENDS ArmDecode, ThumbDecode, FiniteSets

SP == 13
LR == 14
PC == 15
CPSR == 16

Info(src, out, cycle) == [src |-> src, out |-> out, cycle |-> cycle]
CpsrIf(b) == IF b THEN {CPSR} ELSE {}
RegIf(r, b) == IF b THEN {r} ELSE {}

-----------------------------------------------------------------------------
\* Data operations.  CPSR_INPUT is the second argument of generate_alu3 and its kin.
CpsrInput(d) ==
    \/ d.op \in {"adc", "sbc", "rsc", "tst", "teq"}
    \/ d.s /\ d.op \in {"and", "eor", "orr", "bic", "mov", "mvn"}
operand2(d, o) == IF d.imm THEN {} ELSE IF d.byReg THEN {o.rm, o.rs} ELSE {o.rm}
ror_with_carry(d, o) == ~d.imm /\ ~d.byReg /\ d.shift = "rr" /\ o.amt = 0
CpsrSrc(d, o) == CpsrIf(CpsrInput(d) \/ ror_with_carry(d, o))

alu3(d, o)     == Info({o.rn} \cup operand2(d, o) \cup CpsrSrc(d, o), {o.rd} \cup CpsrIf(d.s), 1)
alu2_op1(d, o) == Info({o.rn} \cup operand2(d, o) \cup CpsrSrc(d, o), {CPSR}, 1)
alu2_op0(d, o) == Info(operand2(d, o) \cup CpsrSrc(d, o), {o.rd} \cup CpsrIf(d.s), 1)
AluInfo(d, o) ==
    CASE d.op \in {"tst", "teq", "cmp", "cmn"} -> alu2_op1(d, o)
      [] d.op \in {"mov", "mvn"} -> alu2_op0(d, o)
      [] OTHER -> alu3(d, o)

mul(o)    == Info({o.rm, o.rs}, {o.rn}, 5)
mla(o)    == Info({o.rm, o.rs, o.rd}, {o.rn}, 6)
umull(o)  == Info({o.rm, o.rs}, {o.rd, o.rn}, 6)
umlal(o)  == Info({o.rd, o.rn, o.rm, o.rs}, {o.rd, o.rn}, 7)
muls(o)   == Info({o.rm, o.rs, CPSR}, {o.rn, CPSR}, 5)
mlas(o)   == Info({o.rm, o.rs, o.rd, CPSR}, {o.rn, CPSR}, 6)
umulls(o) == Info({o.rm, o.rs, CPSR}, {o.rd, o.rn, CPSR}, 6)
umlals(o) == Info({o.rd, o.rn, o.rm, o.rs, CPSR}, {o.rd, o.rn, CPSR}, 7)
MulInfo(d, o) ==
    CASE d.op = "mul" -> IF d.s THEN muls(o) ELSE mul(o)
      [] d.op = "mla" -> IF d.s THEN mlas(o) ELSE mla(o)
      [] d.op \in {"umull", "smull"} -> IF d.s THEN umulls(o) ELSE umull(o)
      [] OTHER -> IF d.s THEN umlals(o) ELSE umlal(o)

smulbb(o)  == Info({o.rm, o.rs}, {o.rn}, 1)
smlabb(o)  == Info({o.rm, o.rs, o.rd, CPSR}, {o.rn, CPSR}, 1)
smlalbb(o) == Info({o.rd, o.rn, o.rm, o.rs}, {o.rd, o.rn}, 1)
DspInfo(d, o) ==
    CASE d.op \in {"smul", "smulw"} -> smulbb(o)
      [] d.op \in {"smla", "smlaw"} -> smlabb(o)
      [] OTHER -> smlalbb(o)
qadd(o) == Info({o.rm, o.rn, CPSR}, {o.rd, CPSR}, 1)
clz(o)  == Info({o.rm}, {o.rd}, 1)

-----------------------------------------------------------------------------
\* Single transfers.  A double transfer of an odd register, or past r12, is
\* declared undefined whatever its entry says.
IsDouble(d) == d.flags.size = 3
IsOddDouble(d, o) == IsDouble(d) /\ (o.rd % 2 = 1 \/ o.rd > 12)
WritesBackPreOnly(d) == d.addr = "pr"
WritesBack(d) == d.addr \in {"pr", "pt"}
mem_transfer(d, o) ==
    LET data == {o.rd} \cup RegIf(o.rd + 1, IsDouble(d)) IN
    IF IsOddDouble(d, o) THEN Info({}, {}, 0)
    ELSE Info({o.rn} \cup RegIf(o.rm, d.off # "imm") \cup (IF d.load THEN {} ELSE data),
              (IF d.load THEN data ELSE {}) \cup RegIf(o.rn, WritesBack(d)),
              IF d.load THEN 3 ELSE 2)
swp(o) == Info({o.rm, o.rn}, {o.rd}, 4)

\* Block transfers, by their suffix.  The lists of the S forms are declared
\* written only when they hold the pc, and a store is treated like a load.
ldm(o)     == Info({o.rn}, o.list \cup RegIf(o.rn, o.list = {}), Cardinality(o.list) + 2)
stm(o)     == Info(o.list \cup {o.rn}, RegIf(o.rn, o.list = {}), Cardinality(o.list) + 1)
ldm_w(o)   == Info({o.rn}, o.list \cup {o.rn}, Cardinality(o.list) + 2)
stm_wLikeLoad(o) == Info(o.list \cup {o.rn}, {o.rn}, Cardinality(o.list) + 2)
stm_w(o)   == Info(o.list \cup {o.rn}, {o.rn}, Cardinality(o.list) + 1)
IfPc(list) == IF PC \in list THEN list ELSE {}
ldm_u(o)   == Info({o.rn}, IfPc(o.list) \cup RegIf(o.rn, o.list = {}), Cardinality(o.list) + 2)
stm_u(o)   == Info(o.list \cup {o.rn}, IfPc(o.list) \cup RegIf(o.rn, o.list = {}), Cardinality(o.list) + 1)
ldm_u_w(o) == Info(o.list \cup {o.rn}, IfPc(o.list) \cup {o.rn}, Cardinality(o.list) + 2)
stm_u_w(o) == Info(o.list \cup {o.rn}, {o.rn}, Cardinality(o.list) + 1)
MultipleInfo(d, o) ==
    CASE ~d.u /\ ~d.w -> IF d.load THEN ldm(o) ELSE stm(o)
      [] ~d.u /\ d.w  -> IF d.load THEN ldm_w(o) ELSE stm_w(o)
      [] d.u /\ ~d.w  -> IF d.load THEN ldm_u(o) ELSE stm_u(o)
      [] OTHER        -> IF d.load THEN ldm_u_w(o) ELSE stm_u_w(o)

\* Status register and coprocessor moves: msr declares no output at all
PsrInfo(d, o) ==
    CASE d.op \in {"msr_rc", "msr_rs"} -> Info({o.rm}, {}, 1)
      [] d.op \in {"msr_ic", "msr_is"} -> Info({}, {}, 1)
      [] d.op = "mrs_rc" -> Info({CPSR}, {o.rd}, 1)
      [] OTHER -> Info({}, {o.rd}, 1)
CpInfo(d, o) == IF d.op = "mrc" THEN Info({}, {o.rd}, 1) ELSE Info({o.rd}, {}, 1)

bx(o)      == Info({o.rm}, {PC}, 1)
blx_reg(o) == Info({o.rm}, {LR, PC}, 1)
b(o)       == Info({}, {PC}, 1)
bl(o)      == Info({}, {LR, PC}, 1)
swi(o)     == Info({}, {}, 3)
BranchInfo(d, o) ==
    CASE d.op = "bx" -> bx(o) [] d.op = "blx_reg" -> blx_reg(o) [] d.op = "b" -> b(o) [] d.op = "bl" -> bl(o)
unk_arm(o) == Info({}, {}, 1)

\* The handler of an entry
ArmHandler(d, o) ==
    CASE d.kind = "alu" -> AluInfo(d, o)       [] d.kind = "mul" -> MulInfo(d, o)
      [] d.kind = "dsp" -> DspInfo(d, o)       [] d.kind = "q" -> qadd(o)
      [] d.kind = "clz" -> clz(o)              [] d.kind = "single" -> mem_transfer(d, o)
      [] d.kind = "swp" -> swp(o)              [] d.kind = "multiple" -> MultipleInfo(d, o)
      [] d.kind = "psr" -> PsrInfo(d, o)       [] d.kind = "cp" -> CpInfo(d, o)
      [] d.kind = "branch" -> BranchInfo(d, o) [] d.kind = "swi" -> swi(o)
      [] OTHER -> unk_arm(o)

\* InstInfo::new: a conditional instruction also reads the flags
ArmInfo(d, o) ==
    LET h == ArmHandler(d, o) IN
    IF o.cond = "al" THEN h ELSE [h EXCEPT !.src = @ \cup {CPSR}]
=============================================================================
