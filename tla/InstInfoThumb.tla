---------------------------- MODULE InstInfoThumb ----------------------------
(***************************************************************************)
(* What the disassembler declares of a Thumb instruction.  Of the operand  *)
(* fields rd is the destination (bits 2..0, or 10..8, or the high form),   *)
(* rn the first operand or the base, rm the second operand or the offset.  *)
(***************************************************************************)
EXTENDS InstInfo

add_reg_t(o)    == Info({o.rn, o.rm}, {o.rd, CPSR}, 1)
add_h_t(o)      == Info({o.rd, o.rm}, {o.rd}, 1)
cmp_h_t(o)      == Info({o.rd, o.rm}, {CPSR}, 1)
mov_h_t(o)      == Info({o.rm}, {o.rd}, 1)
add_pc_t(o)     == Info({PC}, {o.rd}, 1)
add_sp_t(o)     == Info({SP}, {o.rd}, 1)
add_sp_imm_t(o) == Info({SP}, {SP}, 1)
lsl_imm_t(o)    == Info({o.rn, CPSR}, {o.rd, CPSR}, 1)
add_imm3_t(o)   == Info({o.rn}, {o.rd, CPSR}, 1)
add_imm8_t(o)   == Info({o.rd}, {o.rd, CPSR}, 1)
cmp_imm8_t(o)   == Info({o.rd}, {CPSR}, 1)
mov_imm8_t(o)   == Info({CPSR}, {o.rd, CPSR}, 1)
lsl_dp_t(o)     == Info({o.rd, o.rm, CPSR}, {o.rd, CPSR}, 1)
tst_dp_t(o)     == Info({o.rd, o.rm, CPSR}, {CPSR}, 1)
cmp_dp_t(o)     == Info({o.rd, o.rm}, {CPSR}, 1)
mvn_dp_t(o)     == Info({o.rm, CPSR}, {o.rd, CPSR}, 1)
neg_dp_t(o)     == Info({o.rm}, {o.rd, CPSR}, 1)
mul_dp_t(o)     == Info({o.rd, o.rm, CPSR}, {o.rd, CPSR}, 4)

DpInfoThumb(d, o) ==
    CASE d.op = "tst" -> tst_dp_t(o)
      [] d.op \in {"cmp", "cmn"} -> cmp_dp_t(o)
      [] d.op = "mvn" -> mvn_dp_t(o)
      [] d.op = "neg" -> neg_dp_t(o)
      [] d.op = "mul" -> mul_dp_t(o)
      [] OTHER -> lsl_dp_t(o)

AluInfoThumb(d, o) ==
    CASE d.form = "imm5" -> lsl_imm_t(o)
      [] d.form = "reg"  -> add_reg_t(o)
      [] d.form = "imm3" -> add_imm3_t(o)
      [] d.form = "imm8" -> CASE d.op = "mov" -> mov_imm8_t(o) [] d.op = "cmp" -> cmp_imm8_t(o)
                              [] OTHER -> add_imm8_t(o)
      [] d.form = "dp"   -> DpInfoThumb(d, o)
      [] d.form = "h"    -> CASE d.op = "add" -> add_h_t(o) [] d.op = "cmp" -> cmp_h_t(o)
                              [] OTHER -> mov_h_t(o)
      [] d.form = "pc"   -> add_pc_t(o)
      [] d.form = "sp"   -> add_sp_t(o)
      [] OTHER           -> add_sp_imm_t(o)

\* Transfers: a register or immediate offset from a low register, sp or pc
BaseT(d, o) == CASE d.base = "pc" -> PC [] d.base = "sp" -> SP [] OTHER -> o.rn
SingleInfoThumb(d, o) ==
    Info({BaseT(d, o)} \cup RegIf(o.rm, d.off = "reg") \cup RegIf(o.rd, ~d.load),
         RegIf(o.rd, d.load), IF d.load THEN 3 ELSE 2)

\* Block transfers; push_lr and pop_pc add their register to the list
ListT(d, o) == o.list \cup RegIf(LR, d.name = "push_lr") \cup RegIf(PC, d.name = "pop_pc")
MultipleBaseT(d, o) == IF d.name \in {"ldmia", "stmia"} THEN o.rn ELSE SP
MultipleInfoThumb(d, o) ==
    LET list == ListT(d, o)
        base == MultipleBaseT(d, o)
    IN  IF d.load THEN Info({base}, list \cup {base}, Cardinality(list) + 2)
        ELSE Info(list \cup {base}, {base}, Cardinality(list) + 1)

BranchInfoThumb(d, o) ==
    CASE d.op = "bx_reg"  -> Info({o.rm}, {PC}, 1)
      [] d.op = "blx_reg" -> Info({o.rm}, {LR, PC}, 1)
      [] d.op = "b"       -> Info({}, {PC}, 1)
      [] d.op = "b_cond"  -> Info({CPSR}, {PC}, 1)
      [] d.op = "bl_setup" -> Info({}, {}, 1)
      [] OTHER            -> Info({}, {LR, PC}, 1)

ThumbInfo(d, o) ==
    CASE d.kind = "alu" -> AluInfoThumb(d, o)
      [] d.kind = "single" -> SingleInfoThumb(d, o)
      [] d.kind = "multiple" -> MultipleInfoThumb(d, o)
      [] d.kind = "branch" -> BranchInfoThumb(d, o)
      [] d.kind = "swi" -> Info({}, {}, 3)
      [] OTHER -> Info({}, {}, 1)
=============================================================================
