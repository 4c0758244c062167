-------------------------------- MODULE Interp --------------------------------
(***************************************************************************)
(* What the interpreter does with one instruction, as far as the compiled  *)
(* code must agree with it: which registers the result depends on, which   *)
(* it writes, the cycles charged, where control goes (the InstResult), how *)
(* the mode bit of a branch target is taken, whether SPSR is restored, and *)
(* for a transfer the address and the fate of the base register.           *)
(*                                                                         *)
(* The interpreter is specialised by the handler column of the tables: it  *)
(* reads the suffix of an entry (addr, off, up, mode, w, u), never the     *)
(* flags of its Op.                                                        *)
(***************************************************************************)
EXTENDS InstInfoThumb

\* InstResult: continue, store, branch, link, return.  mode is the use made of
\* bit 0 of a target: "raw" lets the value choose the mode, "arm" and "thumb"
\* force it, "cpsr" takes the T bit of the CPSR just restored.
Effect(reads, writes, cycles, route) ==
    [reads |-> reads, writes |-> writes, cycles |-> cycles, route |-> route,
     mode |-> "none", spsr |-> FALSE, base |-> "same", at |-> "none"]
Continue(reads, writes, cycles) == Effect(reads, writes, cycles, "continue")
ContinueStore(reads, writes, cycles) == Effect(reads, writes, cycles, "store")
Branch(reads, writes, cycles, mode) == [Effect(reads, writes, cycles, "branch") EXCEPT !.mode = mode]
BranchLink(reads, cycles, mode) == [Effect(reads, {LR}, cycles, "link") EXCEPT !.mode = mode]
BranchReturn(reads, writes, cycles, mode) == [Effect(reads, writes, cycles, "return") EXCEPT !.mode = mode]

-----------------------------------------------------------------------------
\* alu_shift: the registers and the carry its result depends on
alu_shift(d, o) ==
    IF d.imm THEN {}
    ELSE {o.rm} \cup RegIf(o.rs, d.byReg) \cup CpsrIf(d.shift = "rr" /\ ~d.byReg /\ o.amt = 0)

IsLogical(op) == op \in {"and", "eor", "orr", "bic", "mov", "mvn", "tst", "teq"}
IsTest(op) == op \in {"tst", "teq", "cmp", "cmn"}

\* A logical S operation sets N and Z (and C) and keeps V; an arithmetic one sets all four
set_nz(d) == CpsrIf(d.s /\ IsLogical(d.op))
do_adc(d) == CpsrIf(d.op \in {"adc", "sbc", "rsc"})
alu_rn(d, o) == RegIf(o.rn, d.op \notin {"mov", "mvn"})
AluReads(d, o) == alu_rn(d, o) \cup alu_shift(d, o) \cup set_nz(d) \cup do_adc(d)

\* The plain mov whose shifter operand holds lr is a function return
IsMovLr(d, o) == d.op = "mov" /\ ~d.s /\ ~d.imm /\ (o.rm = LR \/ (d.byReg /\ o.rs = LR))
alu_finish(d, o) ==
    LET reads == AluReads(d, o)
        flags == CpsrIf(d.s)
    IN  CASE o.rd # PC -> Continue(reads, {o.rd} \cup flags, 1)
          [] o.rd = PC /\ d.s -> [Branch(reads, flags, 1, "cpsr") EXCEPT !.spsr = TRUE]
          [] OTHER -> IF IsMovLr(d, o) THEN BranchReturn(reads, {}, 1, "arm") ELSE Branch(reads, {}, 1, "arm")
test_rd15_quirk(d, o) == [Continue(AluReads(d, o), {CPSR}, 1) EXCEPT !.spsr = o.rd = PC]

\* The multiplications; the DSP extensions of ARMv5 do nothing
mul32(d, o) == Continue({o.rm, o.rs} \cup RegIf(o.rd, d.op = "mla") \cup CpsrIf(d.s),
                        {o.rn} \cup CpsrIf(d.s), IF d.op = "mla" THEN 6 ELSE 5)
mul64(d, o) ==
    LET acc == d.op \in {"umlal", "smlal"} IN
    Continue({o.rm, o.rs} \cup (IF acc THEN {o.rd, o.rn} ELSE {}) \cup CpsrIf(d.s),
             {o.rd, o.rn} \cup CpsrIf(d.s), IF acc THEN 7 ELSE 6)
smul_xy(o) == Continue({}, {}, 1)
qalu(o) == Continue({}, {}, 1)
clz_run(o) == Continue({o.rm}, {o.rd}, 1)

\* Status register moves: msr goes through the thread registers, which may switch mode
mrs(d, o) == Continue(CpsrIf(d.op = "mrs_rc"), {o.rd}, 1)
msr_apply(d, o) == Continue(RegIf(o.rm, d.op \in {"msr_rc", "msr_rs"}), {}, 1)

-----------------------------------------------------------------------------
\* Single transfers: ADDR is 2 for post-indexed, 0 for an offset without write-back
Direction(up) == IF up THEN "up" ELSE "down"
transfer_reg_offset(d, o) == RegIf(o.rm, d.off # "imm") \cup CpsrIf(d.off = "rr" /\ o.amt = 0)
ldr_str(d, o) ==
    LET reads == {o.rn} \cup transfer_reg_offset(d, o)
        moved == RegIf(o.rn, d.addr # "of")
        isReturn == o.rn = SP \/ (d.off # "imm" /\ o.rm = SP)
        eff   == CASE ~d.load -> ContinueStore(reads \cup RegIf(o.rd, o.rd # PC), moved, 2)
                   [] d.load /\ o.rd # PC -> Continue(reads, moved \cup {o.rd}, 3)
                   [] OTHER -> IF isReturn THEN BranchReturn(reads, moved, 3, "raw")
                               ELSE Branch(reads, moved, 3, "raw")
    IN  [eff EXCEPT !.at = IF d.addr = "pt" THEN "base" ELSE Direction(d.up),
                    !.base = IF d.load /\ o.rd = o.rn THEN "loaded"
                             ELSE IF d.addr = "of" THEN "same" ELSE Direction(d.up)]
ldrd_strd(o) == Continue({}, {}, 1)
swp_common(o) == ContinueStore({o.rm, o.rn}, RegIf(o.rd, o.rd # PC), 4)

\* Block transfers.  sp and lr of an S form without the pc are the user bank's
\* outside user mode, and in fiq mode r8 to r12 are too.
ldm_stm_empty(d, o) ==
    [(IF d.load THEN Branch({o.rn}, RegIf(o.rn, d.w), 2, "raw")
      ELSE ContinueStore({o.rn}, RegIf(o.rn, d.w), 1))
     EXCEPT !.base = IF d.w THEN Direction(d.mode \in {"ia", "ib"}) ELSE "same", !.at = d.mode]
user_banked(d, o) == d.u /\ PC \notin o.list /\ o.mode # "usr"
thread_get_reg_usr(mode) == IF mode = "fiq" THEN 8 .. LR ELSE {SP, LR}
Banked(d, o) == IF user_banked(d, o) THEN o.list \cap thread_get_reg_usr(o.mode) ELSE {}
ldm_stm(d, o) ==
    LET count == Cardinality(o.list)
        here  == (o.list \ Banked(d, o)) \ {PC}
        inList == o.rn \in o.list
        moved == RegIf(o.rn, d.w /\ ~(d.load /\ inList))
        eff   == CASE ~d.load -> ContinueStore({o.rn} \cup here, moved, count + 1)
                   [] d.load /\ PC \notin o.list -> Continue({o.rn}, here \cup moved, count + 2)
                   [] OTHER -> IF o.rn = SP THEN BranchReturn({o.rn}, here \cup moved, count + 2, "raw")
                               ELSE Branch({o.rn}, here \cup moved, count + 2, "raw")
    IN  IF o.list = {} THEN ldm_stm_empty(d, o)
        ELSE [eff EXCEPT !.spsr = d.load /\ d.u /\ PC \in o.list, !.at = d.mode,
                         !.base = IF d.load /\ inList /\ o.rn \notin Banked(d, o) THEN "loaded"
                                  ELSE IF d.w /\ ~(d.load /\ inList) THEN Direction(d.mode \in {"ia", "ib"})
                                  ELSE "same"]

-----------------------------------------------------------------------------
\* Branches, the software interrupt and the absent coprocessor.  A swi runs the
\* bios routine inline, which may return, halt the cpu or set another pc.
b_run(o)       == Branch({}, {}, 1, "arm")
bl_run(o)      == BranchLink({}, 1, "arm")
bx_run(o)      == IF o.rm = LR THEN BranchReturn({o.rm}, {}, 1, "raw") ELSE Branch({o.rm}, {}, 1, "raw")
blx_reg_run(o) == BranchLink({o.rm}, 1, "raw")
BranchRun(d, o) ==
    CASE d.op = "b" -> b_run(o) [] d.op = "bl" -> bl_run(o)
      [] d.op = "bx" -> bx_run(o) [] OTHER -> blx_reg_run(o)
swi_common(o) ==
    CASE o.bios = "returns"  -> Continue({}, {}, 3)
      [] o.bios = "halts"    -> ContinueStore({}, {}, 3)
      [] o.bios = "redirects" -> Branch({}, {}, 3, "cpsr")
coprocessor(o) == Continue({}, {}, 1)

\* The entry of ARM_TABLE, generated from the disassembler's table; an undefined
\* entry stops the program
ArmTable(d, o) ==
    CASE d.kind = "alu" -> IF IsTest(d.op) THEN test_rd15_quirk(d, o) ELSE alu_finish(d, o)
      [] d.kind = "mul" -> IF d.op \in {"mul", "mla"} THEN mul32(d, o) ELSE mul64(d, o)
      [] d.kind = "dsp" -> smul_xy(o)
      [] d.kind = "q"   -> qalu(o)
      [] d.kind = "clz" -> clz_run(o)
      [] d.kind = "psr" -> IF d.op \in {"mrs_rc", "mrs_rs"} THEN mrs(d, o) ELSE msr_apply(d, o)
      [] d.kind = "single" -> IF IsDouble(d) THEN ldrd_strd(o) ELSE ldr_str(d, o)
      [] d.kind = "swp" -> swp_common(o)
      [] d.kind = "multiple" -> ldm_stm(d, o)
      [] d.kind = "branch" -> BranchRun(d, o)
      [] d.kind = "swi" -> swi_common(o)
      [] d.kind = "cp" -> coprocessor(o)

\* interpret_block_inner: a failed condition is skipped for one cycle
InterpretArm(d, o) ==
    CASE o.cond = "al" -> ArmTable(d, o)
      [] o.cond = "holds" -> [ArmTable(d, o) EXCEPT !.reads = @ \cup {CPSR}]
      [] OTHER -> Continue({CPSR}, {}, 1)

-----------------------------------------------------------------------------
\* Thumb data operations.  Shifts and logical operations keep V (and a shift by
\* zero keeps C); only the high-register forms can write the pc.
def_add_sub(d, o) == Continue({o.rn} \cup RegIf(o.rm, d.form = "reg"), {o.rd, CPSR}, 1)
shift_imm_t(o) == Continue({o.rn, CPSR}, {o.rd, CPSR}, 1)
imm8_t(d, o) ==
    CASE d.op = "mov" -> Continue({CPSR}, {o.rd, CPSR}, 1)
      [] d.op = "cmp" -> Continue({o.rd}, {CPSR}, 1)
      [] OTHER -> Continue({o.rd}, {o.rd, CPSR}, 1)
dp_t(d, o) ==
    CASE d.op = "tst" -> Continue({o.rd, o.rm, CPSR}, {CPSR}, 1)
      [] d.op \in {"cmp", "cmn"} -> Continue({o.rd, o.rm}, {CPSR}, 1)
      [] d.op = "neg" -> Continue({o.rm}, {o.rd, CPSR}, 1)
      [] d.op = "mvn" -> Continue({o.rm, CPSR}, {o.rd, CPSR}, 1)
      [] OTHER -> Continue({o.rd, o.rm, CPSR}, {o.rd, CPSR}, IF d.op = "mul" THEN 4 ELSE 1)
high_t(d, o) ==
    CASE d.op = "cmp" -> Continue({o.rd, o.rm}, {CPSR}, 1)
      [] d.op = "add" -> IF o.rd = PC THEN Branch({o.rd, o.rm}, {}, 1, "thumb") ELSE Continue({o.rd, o.rm}, {o.rd}, 1)
      [] OTHER -> CASE o.rd # PC -> Continue({o.rm}, {o.rd}, 1)
                    [] o.rd = PC /\ o.rm = LR -> BranchReturn({o.rm}, {}, 1, "thumb")
                    [] OTHER -> Branch({o.rm}, {}, 1, "thumb")
address_t(d, o) ==
    CASE d.form = "pc" -> Continue({PC}, {o.rd}, 1)
      [] d.form = "sp" -> Continue({SP}, {o.rd}, 1)
      [] OTHER -> Continue({SP}, {SP}, 1)
AluRunThumb(d, o) ==
    CASE d.form \in {"reg", "imm3"} -> def_add_sub(d, o) [] d.form = "imm5" -> shift_imm_t(o)
      [] d.form = "imm8" -> imm8_t(d, o) [] d.form = "dp" -> dp_t(d, o)
      [] d.form = "h" -> high_t(d, o) [] OTHER -> address_t(d, o)

\* Thumb transfers: the address is always base + offset, without write-back
reg_offset_addr(d, o) == {BaseT(d, o)} \cup RegIf(o.rm, d.off = "reg")
ldr_str_t(d, o) ==
    [(IF d.load THEN Continue(reg_offset_addr(d, o), {o.rd}, 3)
      ELSE ContinueStore(reg_offset_addr(d, o) \cup {o.rd}, {}, 2))
     EXCEPT !.at = "up", !.base = IF d.load /\ o.rd = BaseT(d, o) THEN "loaded" ELSE "same"]

\* Thumb block transfers; only ldmia and stmia know the empty list
ldmia_stmia_empty(d, o) ==
    [(IF d.load THEN Branch({o.rn}, {o.rn}, 2, "thumb") ELSE ContinueStore({o.rn}, {o.rn}, 1))
     EXCEPT !.base = "up", !.at = "ia"]
block_t(d, o) ==
    LET base  == MultipleBaseT(d, o)
        list  == ListT(d, o)
        count == Cardinality(list)
        eff   == CASE ~d.load -> ContinueStore(list \cup {base}, {base}, count + 1)
                   [] d.name = "pop_pc" -> BranchReturn({base}, (list \cup {base}) \ {PC}, count + 2, "thumb")
                   [] OTHER -> Continue({base}, list \cup {base}, count + 2)
    IN  [eff EXCEPT !.at = IF d.load \/ d.name = "stmia" THEN "ia" ELSE "db",
                    !.base = IF d.load /\ base \in list THEN "loaded"
                             ELSE IF d.load \/ d.name = "stmia" THEN "up" ELSE "down"]
MultipleRunThumb(d, o) ==
    IF d.name \in {"ldmia", "stmia"} /\ o.list = {} THEN ldmia_stmia_empty(d, o) ELSE block_t(d, o)

\* Thumb branches; the ARMv5 calls blx do nothing
bcond_t(o) == IF o.cond = "holds" THEN Branch({CPSR}, {}, 1, "thumb") ELSE Continue({CPSR}, {}, 1)
BranchRunThumb(d, o) ==
    CASE d.op = "b_cond" -> bcond_t(o)
      [] d.op = "b" -> Branch({}, {}, 1, "thumb")
      [] d.op = "bl_setup" -> Continue({}, {LR}, 1)
      [] d.op = "bl_off" -> BranchLink({LR}, 1, "thumb")
      [] d.op = "bx_reg" -> bx_run(o)
      [] OTHER -> Continue({}, {}, 1)

ThumbTable(d, o) ==
    CASE d.kind = "alu" -> AluRunThumb(d, o)
      [] d.kind = "single" -> ldr_str_t(d, o)
      [] d.kind = "multiple" -> MultipleRunThumb(d, o)
      [] d.kind = "branch" -> BranchRunThumb(d, o)
      [] d.kind = "swi" -> swi_common(o)
=============================================================================
