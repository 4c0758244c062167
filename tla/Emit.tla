--------------------------------- MODULE Emit ---------------------------------
(***************************************************************************)
(* What the code compiled for one instruction does, in the terms of        *)
(* Interp.  The emitter works from the Op and its flags and from the       *)
(* declared registers (InstInfo): the cycles are the declared ones,        *)
(* whatever the condition, and an instruction branches because the pc is   *)
(* among its declared outputs.                                             *)
(***************************************************************************)
EXTENDS Interp

is_alu(d) == d.kind = "alu"
is_mov(d) == is_alu(d) /\ d.op = "mov"
is_single_mem_transfer(d) == d.kind = "single"
is_multiple_mem_transfer(d) == d.kind = "multiple"
is_write_mem_transfer(d) == d.kind \in {"single", "multiple"} /\ ~d.load

\* An emitted effect has no reads of its own: it may use what is declared
Emitted(info, route, mode) == [Effect(info.src, info.out \ {PC}, info.cycle, route) EXCEPT !.mode = mode]

-----------------------------------------------------------------------------
\* handle_indirect_branch.  Through the return stack the target keeps its bit 0
\* (the host register is passed), while leaving the guest context uses the stored
\* pc, whose bit 0 the helpers have forced.  The user form of a block transfer
\* restores SPSR on the return path only.
restore_spsr(d, info) == CPSR \in info.out /\ is_alu(d)
UsesReturnStackMovs(d, o, info) ==
    \/ is_mov(d) /\ LR \in info.src
    \/ is_multiple_mem_transfer(d) /\ o.rn = SP
    \/ is_single_mem_transfer(d) /\ SP \in info.src
UsesReturnStack(d, o, info) ==
    \/ is_mov(d) /\ LR \in info.src /\ CPSR \notin info.out
    \/ is_multiple_mem_transfer(d) /\ o.rn = SP
    \/ is_single_mem_transfer(d) /\ SP \in info.src
handle_indirect_branch(d, o, info) ==
    IF UsesReturnStack(d, o, info)
    THEN [Emitted(info, "return", "raw") EXCEPT !.spsr = is_multiple_mem_transfer(d) /\ d.flags.user]
    ELSE [Emitted(info, "branch", IF restore_spsr(d, info) THEN "cpsr" ELSE "arm")
          EXCEPT !.spsr = restore_spsr(d, info)]

\* handle_indirect_branch_thumb: r9 may stand for sp
UsesReturnStackThumb(d, o, info) ==
    \/ is_alu(d) /\ d.op = "mov" /\ d.form = "h" /\ LR \in info.src
    \/ is_multiple_mem_transfer(d) /\ MultipleBaseT(d, o) \in {9, SP}
    \/ is_single_mem_transfer(d) /\ info.src \cap {9, SP} # {}
handle_indirect_branch_thumb(d, o, info) ==
    IF UsesReturnStackThumb(d, o, info) THEN Emitted(info, "return", "raw")
    ELSE Emitted(info, "branch", IF is_multiple_mem_transfer(d) THEN "raw" ELSE "thumb")

-----------------------------------------------------------------------------
\* emit_single_transfer: the address from the flags; a loaded base is not written back
single_at(d) == IF d.flags.pre THEN Direction(d.flags.add) ELSE "base"
single_base(d, rd, rn) ==
    CASE d.load /\ rd = rn -> "loaded"
      [] d.flags.wb -> Direction(d.flags.add)
      [] OTHER -> "same"
emit_single_transfer(d, o, eff) == [eff EXCEPT !.at = single_at(d), !.base = single_base(d, o.rd, o.rn)]

\* emit_multiple_transfer: the empty list only moves the base; the user form moves
\* the registers of the user bank
multiple_at(d) == CASE d.flags.pre /\ d.flags.add -> "ib" [] d.flags.pre /\ ~d.flags.add -> "db"
                    [] ~d.flags.pre /\ d.flags.add -> "ia" [] OTHER -> "da"
UserRegsAnyMode(d, list, mode) ==
    {r \in list : d.flags.user /\ PC \notin list /\ r \in 8 .. LR}
UserRegs(d, list, mode) ==
    {r \in list : /\ d.flags.user /\ PC \notin list
                  /\ \/ r \in 8 .. 12 /\ mode = "fiq"
                     \/ r \in {SP, LR} /\ mode # "usr"}
emit_multiple_transfer(d, base, list, mode, eff) ==
    IF list = {} THEN [eff EXCEPT !.base = Direction(d.load)]
    ELSE [eff EXCEPT !.at = multiple_at(d),
                     !.base = IF d.load /\ base \in list \ UserRegs(d, list, mode) THEN "loaded"
                              ELSE IF d.flags.wb /\ ~(d.load /\ base \in list) THEN Direction(d.flags.add)
                              ELSE "same"]

\* software_interrupt_handler: the bios call returns into the block, or leaves it halted
emit_swi(o, info) == Emitted(info, IF o.bios = "halts" THEN "store" ELSE "continue", "none")
emit_test_rd15(info) == [Emitted(info, "continue", "none") EXCEPT !.spsr = TRUE]
emit_bx(o, info) == Emitted(info, IF o.rm = LR THEN "return" ELSE "branch", "raw")
emit_branch(d, o, info) ==
    CASE d.op = "b" -> Emitted(info, "branch", "arm") [] d.op = "bl" -> Emitted(info, "link", "arm")
      [] d.op = "bx" -> emit_bx(o, info) [] OTHER -> Emitted(info, "link", "raw")

-----------------------------------------------------------------------------
\* emit_basic_block.  The condition guards everything that is not a plain data
\* operation; data operations are emitted conditionally themselves, except that
\* the restore of a test on the pc is not.
StoreOrNext(d) == IF is_write_mem_transfer(d) \/ d.kind = "swp" THEN "store" ELSE "continue"
EmitBody(d, o, info) ==
    LET branches == PC \in info.out /\ (is_alu(d) \/ is_single_mem_transfer(d) \/ is_multiple_mem_transfer(d))
        flow == IF branches THEN handle_indirect_branch(d, o, info) ELSE Emitted(info, StoreOrNext(d), "none")
    IN  CASE is_alu(d) -> IF IsTest(d.op) /\ o.rd = PC THEN emit_test_rd15(info) ELSE flow
          [] is_single_mem_transfer(d) -> emit_single_transfer(d, o, flow)
          [] is_multiple_mem_transfer(d) -> emit_multiple_transfer(d, o.rn, o.list, o.mode, flow)
          [] d.kind = "branch" -> emit_branch(d, o, info)
          [] d.kind = "swi" -> emit_swi(o, info)
          [] OTHER -> flow
needs_cond_jump(d, info) == PC \in info.out \/ d.kind \notin {"alu", "mul", "dsp", "clz", "q"}
emit_basic_block(d, o) ==
    LET info == ArmInfo(d, o)
        body == EmitBody(d, o, info)
        skipped == Emitted(info, "continue", "none")
    IN  IF o.cond # "fails" THEN body
        ELSE IF needs_cond_jump(d, info) THEN skipped
        ELSE [skipped EXCEPT !.spsr = body.spsr]

EmitBodyThumb(d, o, info) ==
    LET branches == PC \in info.out
        flow == IF branches THEN handle_indirect_branch_thumb(d, o, info) ELSE Emitted(info, StoreOrNext(d), "none")
    IN  CASE is_single_mem_transfer(d) ->
               [flow EXCEPT !.at = single_at(d), !.base = single_base(d, o.rd, BaseT(d, o))]
          [] is_multiple_mem_transfer(d) -> emit_multiple_transfer(d, MultipleBaseT(d, o), ListT(d, o), o.mode, flow)
          [] d.kind = "swi" -> emit_swi(o, info)
          [] OTHER -> flow
emit_branch_thumb(d, o, info) ==
    CASE d.op = "b" -> Emitted(info, "branch", "thumb")
      [] d.op = "b_cond" -> Emitted(info, IF o.cond = "holds" THEN "branch" ELSE "continue",
                                    IF o.cond = "holds" THEN "thumb" ELSE "none")
      [] d.op = "bl_setup" -> Emitted(info, "continue", "none")
      [] d.op = "bx_reg" -> emit_bx(o, info)
      [] d.op = "blx_reg" -> Emitted(info, "link", "raw")
      [] OTHER -> Emitted(info, "link", IF d.op = "blx_off" THEN "arm" ELSE "thumb")
emit_basic_block_thumb(d, o) ==
    LET info == ThumbInfo(d, o) IN
    IF d.kind = "branch" THEN emit_branch_thumb(d, o, info) ELSE EmitBodyThumb(d, o, info)

-----------------------------------------------------------------------------
\* fill_jit_insts_buf: what never enters a block
NotCompiled(d, o) == d.kind = "unk" \/ (is_single_mem_transfer(d) /\ IsDouble(d) /\ IsOddDouble(d, o))
=============================================================================
