------------------------------- MODULE GuestIsa -------------------------------
(***************************************************************************)
(* Every guest instruction is executed by two engines: cold code by the    *)
(* interpreter, hot code by the block the compiler made of it.  A game     *)
(* must not notice which.  This module fetches every entry of the two      *)
(* decode tables with the operands that matter to its kind, runs it        *)
(* through both engines and compares the effects, and compares what the    *)
(* interpreter really touches with what the disassembler declares.         *)
(***************************************************************************)
EXTENDS Emit

CONSTANTS ArmEntries,       \* the entries of the ARM table to fetch
          ThumbEntries,     \* the entries of the Thumb table to fetch
          Bases, Dests,     \* registers tried as rn and as rd
          Shifters, Offsets,\* registers tried as rs and as rm
          Lists             \* register lists tried

ASSUME TablesAssumption == ArmEntries \subseteq 0 .. 4095 /\ ThumbEntries \subseteq 0 .. 1023

VARIABLES inst,   \* the instruction fetched
          ran,    \* its effect in the interpreter
          code    \* its effect in the compiled block
vars == <<inst, ran, code>>

None == [kind |-> "none"]

-----------------------------------------------------------------------------
(* The operands tried for an entry.  Unpredictable ones (write-back to the  *)
(* pc, a multiplication or a status move into it) are left out.            *)

Plain == [rn |-> 1, rd |-> 2, rs |-> 3, rm |-> 4, amt |-> 0, list |-> {}, cond |-> "al",
          mode |-> "svc", bios |-> "returns"]
Conds == {"al", "holds", "fails"}

AluOperands(d) ==
    {[Plain EXCEPT !.rn = n, !.rd = t, !.rs = s, !.rm = m, !.amt = a] :
        n \in Bases, t \in Dests, s \in (IF d.byReg THEN Shifters ELSE {3}),
        m \in (IF d.imm THEN {4} ELSE Offsets), a \in (IF d.imm \/ d.byReg THEN {0} ELSE {0, 1})}
SingleOperands(d) ==
    {[Plain EXCEPT !.rn = n, !.rd = t, !.rm = m, !.amt = a] :
        n \in (IF d.addr = "of" THEN Bases ELSE Bases \ {PC}), t \in Dests,
        m \in (IF d.off = "imm" THEN {4} ELSE Offsets \ {PC}), a \in {0, 1}}
MultipleOperands(d) ==
    {[Plain EXCEPT !.rn = n, !.list = l, !.mode = m] :
        n \in Bases \ {PC}, l \in Lists, m \in {"usr", "svc", "fiq"}}
OtherOperands(d) ==
    CASE d.kind = "swi" -> {[Plain EXCEPT !.bios = x] : x \in {"returns", "halts", "redirects"}}
      [] d.kind = "branch" -> {[Plain EXCEPT !.rm = m] : m \in Offsets \ {PC}}
      [] d.kind = "swp" -> {[Plain EXCEPT !.rn = n, !.rd = t] : n \in Bases \ {PC}, t \in Dests}
      [] OTHER -> {[Plain EXCEPT !.rs = s, !.rm = m] : s \in Shifters, m \in Offsets \ {PC}}
Operands(d) ==
    CASE d.kind = "alu" -> AluOperands(d) [] d.kind = "single" -> SingleOperands(d)
      [] d.kind = "multiple" -> MultipleOperands(d) [] OTHER -> OtherOperands(d)
LowRegs == 0 .. 7
OperandsThumb(d) ==
    CASE d.kind = "alu" /\ d.form = "h" -> {[Plain EXCEPT !.rd = t, !.rm = m] : t \in Dests, m \in Offsets}
      [] d.kind \in {"alu", "single"} -> {[Plain EXCEPT !.rn = n, !.rd = t, !.rm = m] :
                                              n \in Bases \cap LowRegs, t \in Dests \cap LowRegs, m \in Offsets \cap LowRegs}
      [] d.kind = "multiple" -> {[Plain EXCEPT !.list = l] : l \in {x \in Lists : x \subseteq LowRegs}}
      [] d.kind = "branch" -> {[Plain EXCEPT !.rm = m, !.cond = c] : m \in Offsets \ {PC}, c \in {"holds", "fails"}}
      [] OTHER -> {[Plain EXCEPT !.bios = x] : x \in {"returns", "halts", "redirects"}}

-----------------------------------------------------------------------------
FetchArm == \E i \in ArmEntries :
    LET d == DecodeArm(i) IN
    /\ d.kind # "unk"
    /\ \E o \in Operands(d), c \in Conds :
          LET oc == [o EXCEPT !.cond = c] IN
          /\ ~NotCompiled(d, oc)
          /\ inst = [isa |-> "arm", d |-> d, o |-> oc]
FetchThumb == \E i \in ThumbEntries :
    LET d == DecodeThumb(i) IN
    /\ d.kind # "unk"
    /\ \E o \in OperandsThumb(d) : inst = [isa |-> "thumb", d |-> d, o |-> o]

Init == (FetchArm \/ FetchThumb) /\ ran = None /\ code = None

\* The cold run of the instruction, then the run of the block compiled for it
InterpretOnce ==
    /\ ran = None
    /\ ran' = IF inst.isa = "arm" THEN InterpretArm(inst.d, inst.o) ELSE ThumbTable(inst.d, inst.o)
    /\ UNCHANGED <<inst, code>>
RunCompiled ==
    /\ ran # None /\ code = None
    /\ code' = IF inst.isa = "arm" THEN emit_basic_block(inst.d, inst.o) ELSE emit_basic_block_thumb(inst.d, inst.o)
    /\ UNCHANGED <<inst, ran>>

Next == InterpretOnce \/ RunCompiled
Spec == Init /\ [][Next]_vars

-----------------------------------------------------------------------------
(* Where the engines are known to part (see the README).                    *)

Executed == code # None /\ inst.o.cond # "fails"
IsKind(k) == inst.d.kind = k
\* ARMv5 instructions do nothing in the interpreter; the emitter goes by what is declared
ArmV5Only == \/ inst.d.kind \in {"dsp", "q"}
             \/ (IsKind("single") /\ IsDouble(inst.d))
             \/ (IsKind("branch") /\ inst.isa = "thumb" /\ inst.d.op \in {"blx_off", "blx_reg"})
ListOf == IF inst.isa = "arm" THEN inst.o.list ELSE ListT(inst.d, inst.o)
EmptyList == IsKind("multiple") /\ ListOf = {}
\* The list of stm^ is declared written when it holds the pc
UserStorePc == IsKind("multiple") /\ inst.isa = "arm" /\ ~inst.d.load /\ inst.d.u /\ ~inst.d.w /\ PC \in inst.o.list
UserLoadPcOffSp == /\ IsKind("multiple") /\ inst.isa = "arm" /\ inst.d.load /\ inst.d.u
                   /\ PC \in inst.o.list /\ inst.o.rn # SP
RedirectingSwi == IsKind("swi") /\ inst.o.bios = "redirects"

\* Both engines charge an executed instruction the same cycles: timers, the
\* scheduler and sound see the same clock in cold and in hot code.
SameCharge == Executed /\ ~ArmV5Only => code.cycles = ran.cycles

\* Both engines leave an instruction the same way (a call pushes the return
\* stack in both or the matching return would miss, a return pops it in both)
\* and restore CPSR from SPSR for the same instructions.
SameRoute ==
    Executed /\ ~ArmV5Only /\ ~UserStorePc =>
        /\ ~EmptyList /\ ~RedirectingSwi => code.route = ran.route
        /\ ~UserLoadPcOffSp => code.spsr = ran.spsr

\* The Op flags that the emitter follows and the handler name that the
\* interpreter is specialised by describe the same access and base update.
SameTransfer ==
    Executed /\ ~ArmV5Only /\ ~EmptyList => code.at = ran.at /\ code.base = ran.base

\* A user-bank load stores what it loads itself; bl_setup's lr is fused away.
RrxOffset == IsKind("single") /\ inst.isa = "arm" /\ inst.d.off = "rr" /\ inst.o.amt = 0
FusedCall == IsKind("branch") /\ inst.isa = "thumb" /\ inst.d.op = "bl_off"
SelfStored == \/ (IsKind("multiple") /\ inst.isa = "arm" /\ inst.d.u /\ PC \notin inst.o.list)
              \/ (IsKind("branch") /\ inst.isa = "thumb" /\ inst.d.op = "bl_setup")

\* What an instruction depends on is declared (the register allocator loads
\* nothing else and liveness keeps nothing else alive), and so is what it
\* writes (only that is marked dirty and stored back).
DeclaredRegisters ==
    code # None =>
        /\ ~RrxOffset /\ ~FusedCall => ran.reads \subseteq code.reads
        /\ ~SelfStored => ran.writes \subseteq code.writes

=============================================================================
