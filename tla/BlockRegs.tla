------------------------------ MODULE BlockRegs ------------------------------
(***************************************************************************)
(* A compiled block as the guest runs it (emit.rs, emit_branch.rs,         *)
(* emit_transfer.rs, emit_swi.rs, emit_psr.rs, the slow memory handlers).  *)
(* The program is any program: each step takes an instruction that the     *)
(* liveness found at this place allows, emits it and executes the code it  *)
(* emitted.  live is live_regs of the basic block, so a block begins with  *)
(* live = its inputs and ends with live = {}; a branch between basic       *)
(* blocks goes to a block with any inputs and outputs.  At any instruction *)
(* the block may also be entered afresh from outside.                      *)
(***************************************************************************)
EXTENDS RegAlloc

CONSTANTS SwiRegs,      \* r0, r1 and r3: what a swi of the bios may change
          Banked,       \* r8 to lr: what a change of mode may change
          LR,           \* the link register
          MaxOperands,  \* registers an instruction names
          Blocks,       \* inputs and outputs of the basic blocks of a program
          Lists,        \* register lists of the transfers
          PcLive,       \* whether instructions that follow read the pc
          CondSwi,      \* swi under a condition is part of the program
          Refault       \* stores of a list with a written base fault at first

ASSUME BlockRegsAssumption ==
    /\ SwiRegs \subseteq Guest /\ Banked \subseteq Guest /\ LR \in Guest
    /\ MaxOperands \in 1 .. Cardinality(Hosts)
    /\ Blocks \subseteq [in : SUBSET (Guest \cup {CPSR}), out : SUBSET Guest]
    /\ Lists \subseteq (SUBSET Guest) \ {{}}
    /\ PcLive \subseteq BOOLEAN /\ PcLive # {}
    /\ {CondSwi, Refault} \subseteq BOOLEAN

VARIABLES
    c,       \* the register file at this place of the block
    live,    \* live_regs at this place, without the pc
    outs,    \* general registers of output_regs of the basic block, or more
    phase,   \* run, or where control is: out, called, swi
    stale    \* operands the last instruction read that were not present values
vars == <<c, live, outs, phase, stale>>

Few(S) == Cardinality(S \ {CPSR}) <= MaxOperands

Init == c = Saved /\ live = {} /\ outs = {} /\ phase = "out" /\ stale = {}

\* Block 0 is entered at its start.
Enter == \E b \in Blocks :
    /\ phase = "out"
    /\ LET start == [init_guest_regs_mapping(b.in, b.out) EXCEPT !.mem = @ \ {PC}]
           x == reload_active_guest_regs(start, Guest)
       IN c' = IF CPSR \in b.in THEN load_guest_cpsr_reg(x) ELSE x
    /\ live' = b.in /\ outs' = b.out /\ phase' = "run" /\ stale' = {}

-----------------------------------------------------------------------------
(* What all instructions share.                                            *)

resolve_live_regs(next, src, out, cond) == (next \ out) \cup src \cup (IF cond THEN out ELSE {})

Source(src, cond) == IF cond THEN src \cup {CPSR} ELSE src

\* The sets of registers that may be live after an instruction: all of its
\* registers are read later, its results only, or none.
NextLive(src, out, cond) ==
    LET read == Source(src, cond) \cup (IF cond THEN out ELSE {})
    IN {next \in {(live \ read) \cup k : k \in {{}, out, read \cup out}} :
            live = resolve_live_regs(next, Source(src, cond), out, cond)}

Sources == {src \in SUBSET live : Few(src)}
Results == {out \in SUBSET (outs \cup {CPSR}) : Cardinality(out \ {CPSR}) <= 1}

\* The pc is live after an instruction if the next user of it reads it, which
\* matters while it has a place.
WithPc(next) ==
    IF c.map[PC] = None THEN {next} ELSE {IF p THEN next \cup {PC} ELSE next : p \in PcLive}

\* The register file at an instruction whose operands have their places in x:
\* the block runs on to it, or is entered at it.
Arrivals(x) ==
    CASE phase = "run" -> {x}
      [] phase = "out" -> {jump_to_other_guest_pc(x)}
      [] OTHER -> {}

NotPresent(y, S) ==
    {g \in S \cap Guest : IF y.map[g] = None THEN g \notin y.mem ELSE y.host[y.map[g]] # g}
    \cup (IF CPSR \in S /\ ~y.flags THEN {CPSR} ELSE {})

\* A load of a list writes the registers that have no place to memory.
Write(y, S) ==
    LET x == FoldSet(LAMBDA g, z : IF z.map[g] # None THEN write_guest_reg(z, g)
                                   ELSE [write_guest_reg(z, g) EXCEPT !.mem = @ \cup {g}], y, S \cap Guest)
    IN IF CPSR \in S THEN [x EXCEPT !.flags = TRUE, !.mem = @ \ {CPSR}] ELSE x

add_dirty_guest_regs(y, S) == [y EXCEPT !.dirty = @ \cup S]

Executed(cond) == IF cond THEN BOOLEAN ELSE {TRUE}

\* Outside of the block nothing is left in the host's registers.
Leave(y) == [y EXCEPT !.host = [h \in DOMAIN y.host |-> None], !.flags = FALSE]
LeaveTo(y) == Leave([y EXCEPT !.mem = @ \cup {PC}])

\* The code goes on, or leaves to a place the phase names.
Goes(y, where) == c' = y /\ phase' = where

\* Control is elsewhere: whoever comes to this place comes from outside.
Elsewhere ==
    /\ phase = "run"
    /\ Goes(Leave([c EXCEPT !.mem = All]), "out")
    /\ stale' = {} /\ UNCHANGED <<live, outs>>

-----------------------------------------------------------------------------
(* Computations and branches to a computed pc.                             *)

\* A computation, a status read, or a load of a literal.
DataOp == \E cond \in BOOLEAN, src \in Sources, out \in Results :
    /\ Few(src \cup out)
    /\ \E next \in NextLive(src, out, cond) :
        \E live_after \in WithPc(next) :
        LET x == alloc_guest_inst(c, Source(src, cond), out, cond, live_after)
        IN \E y \in Arrivals(x), runs \in Executed(cond) :
            /\ stale' = NotPresent(y, Source(src, cond))
            /\ Goes(add_dirty_guest_regs(IF runs THEN Write(y, out) ELSE y, out), "run")
            /\ live' = next
    /\ UNCHANGED outs

\* An instruction that writes the pc, and its base if it is a load: everything
\* dirty goes to memory, the pc with it.
IndirectBranch == \E cond \in BOOLEAN, src \in Sources : \E out \in {{}, src \cap outs} :
    /\ Few(src \cup {PC})
    /\ \E next \in NextLive(src, out, cond) :
        \E live_after \in WithPc(next) :
        LET x == alloc_guest_inst(c, Source(src, cond), out \cup {PC}, cond, live_after)
        IN \E y \in Arrivals(x), runs \in Executed(cond) :
            LET w == add_dirty_guest_regs(IF runs THEN Write(y, out) ELSE y, out \cup {PC})
                pc == [w EXCEPT !.host[w.map[PC]] = PC]
            IN /\ stale' = NotPresent(y, Source(src, cond))
               /\ IF runs THEN Goes(Leave(save_dirty_guest_regs(pc, TRUE, ~cond, {})), "out")
                  ELSE Goes(w, "run")
               /\ live' = next
    /\ UNCHANGED outs

-----------------------------------------------------------------------------
(* Transfers.  The fast code faults on memory that is not mapped, and is   *)
(* patched into a call of a handler; a store may end the block at once.    *)

KeepsFlags(y, next) == CPSR \in y.dirty \cup next

\* What is left of the flags.
FlagsAfter(y, keep, slow) ==
    IF ~keep THEN [y EXCEPT !.flags = FALSE]
    ELSE IF slow THEN [y EXCEPT !.mem = IF y.flags THEN @ \cup {CPSR} ELSE @ \ {CPSR}] ELSE y

\* What breakout_after_write saves: the dirty registers as they were in front
\* of the store, and the base the store has written back.
MetadataDirty(y, base) == y.dirty \cup base

single_transfer(y, next, is_write, value, base, how) ==
    LET w == FlagsAfter(Write(y, base), KeepsFlags(y, next), how # "fast")
        z == IF is_write THEN w ELSE Write(w, value)
    IN IF how = "breakout" THEN LeaveTo(save_active_guest_regs(z, MetadataDirty(y, base))) ELSE z

SingleTransfer == \E cond, is_write, write_back \in BOOLEAN, rn, rd \in Guest :
    LET src == IF is_write THEN {rn, rd} ELSE {rn}
        base == IF write_back /\ (is_write \/ rn # rd) THEN {rn} ELSE {}
        out == (IF is_write THEN {} ELSE {rd}) \cup base
    IN /\ src \subseteq live /\ out \subseteq outs
       /\ \E next \in NextLive(src, out, cond) :
          \E live_after \in WithPc(next) :
          LET x == alloc_guest_inst(c, Source(src, cond), out, cond, live_after)
          IN \E y \in Arrivals(x), runs \in Executed(cond), how \in {"fast", "slow", "breakout"} :
              /\ how = "breakout" => is_write
              /\ ~runs => how = "fast"
              /\ stale' = NotPresent(y, Source(src, cond))
              /\ LET z == IF runs THEN single_transfer(y, next, is_write, {rd}, base, how) ELSE y
                 IN Goes(add_dirty_guest_regs(z, out), IF runs /\ how = "breakout" THEN "out" ELSE "run")
              /\ live' = next
       /\ UNCHANGED outs

\* The slow handler of a list works on memory: a store needs every dirty
\* register there, a load the base only; then the registers with a place are
\* loaded again.
HandlerSaves(y, is_write, rn) == save_active_guest_regs(y, IF is_write THEN y.dirty ELSE y.dirty \cap {rn})

\* A base that the fast code has already moved when it faulted is moved again.
MovedTwice(y, rn) == [y EXCEPT !.host[y.map[rn]] = None, !.mem = @ \ {rn}]

multiple_transfer(y, next, is_write, rn, list, base, how) ==
    LET w == FlagsAfter(y, KeepsFlags(y, next), how # "fast")
        written == (IF is_write THEN {} ELSE list) \cup base
        h == HandlerSaves(w, is_write, rn)
        m == [Write(h, written) EXCEPT !.mem = @ \cup (written \cap Guest)]
        slow == IF how = "refault" /\ rn \in y.dirty THEN MovedTwice(m, rn) ELSE m
    IN CASE how = "fast" -> Write(w, written)
         [] how = "breakout" -> LeaveTo(slow)
         [] OTHER -> slow

MultipleTransfer == \E cond, is_write, write_back \in BOOLEAN, rn \in Guest, list \in Lists :
    LET src == IF is_write THEN {rn} \cup list ELSE {rn}
        base == IF write_back /\ (is_write \/ rn \notin list) THEN {rn} ELSE {}
        out == (IF is_write THEN {} ELSE list) \cup base
    IN /\ src \subseteq live /\ out \subseteq outs
       /\ \E next \in NextLive(src, out, cond) :
          \E live_after \in WithPc(next) :
          LET x == alloc_guest_regs(c, {rn}, {}, cond, live_after)
          IN \E y \in Arrivals(x), runs \in Executed(cond), how \in {"fast", "slow", "refault", "breakout"} :
              /\ how = "breakout" => is_write
              /\ ~runs => how = "fast"
              /\ how = "refault" => Refault /\ is_write /\ write_back /\ rn \in list /\ rn # Min(list)
              /\ stale' = IF runs /\ how # "fast"
                          THEN {g \in src : g \notin HandlerSaves(y, is_write, rn).mem}
                               \cup NotPresent(y, Source({}, cond))
                          ELSE NotPresent(y, Source(src, cond))
              /\ LET z == IF runs THEN multiple_transfer(y, next, is_write, rn, list, base, how) ELSE y
                 IN Goes(add_dirty_guest_regs(z, out), IF runs /\ how = "breakout" THEN "out" ELSE "run")
              /\ live' = next
       /\ UNCHANGED outs

-----------------------------------------------------------------------------
(* Calls out of the block that come back.                                  *)

\* bl and blx: everything dirty, lr and the pc go to memory.
Call == \E cond \in BOOLEAN, src \in {{}} \cup {{r} : r \in Guest} :
    /\ src \subseteq live /\ LR \in outs /\ Few(src \cup {LR, PC})
    /\ \E next \in NextLive(src, {LR}, cond) :
        \E live_after \in WithPc(next) :
        LET x == alloc_guest_inst(c, Source(src, cond), {LR, PC}, cond, live_after)
        IN \E y \in Arrivals(x), runs \in Executed(cond) :
            LET w == Write(y, {LR})
                pc == [w EXCEPT !.host[w.map[PC]] = PC]
            IN /\ stale' = NotPresent(y, Source(src, cond))
               /\ IF runs THEN Goes(Leave(save_dirty_guest_regs(pc, TRUE, ~cond, {LR, PC})),
                                    IF cond THEN "calledIf" ELSE "called")
                  ELSE Goes(y, "run")
               /\ live' = next
    /\ UNCHANGED outs

\* The callee has changed what it liked and left it in memory.  Under a
\* condition the flags count as dirty still, so they are loaded in any case.
Return ==
    /\ phase \in {"called", "calledIf"}
    /\ LET x == [c EXCEPT !.mem = All \ {PC}]
           y == IF CPSR \in live \/ phase = "calledIf" THEN load_guest_cpsr_reg(x) ELSE x
       IN Goes(reload_active_guest_regs(y, Guest), "run")
    /\ stale' = {} /\ UNCHANGED <<live, outs>>

\* The host stack was dropped while the callee ran, or the call was the last
\* instruction of the block.
Unwind ==
    /\ phase \in {"called", "calledIf"}
    /\ phase' = "out" /\ stale' = {} /\ UNCHANGED <<c, live, outs>>

Swi == \E cond \in BOOLEAN :
    /\ cond => CondSwi
    /\ \E next \in NextLive({}, {}, cond), y \in Arrivals(c), runs \in Executed(cond) :
        /\ stale' = NotPresent(y, Source({}, cond))
        /\ IF runs THEN Goes([save_dirty_guest_regs(y, TRUE, ~cond, {}) EXCEPT !.flags = FALSE], "swi")
           ELSE Goes(y, "run")
        /\ live' = next
    /\ UNCHANGED outs

\* The bios has run inside the handler; the registers it may have changed are
\* loaded again, the others are where they were.
SwiReturn ==
    /\ phase = "swi"
    /\ LET w == FoldSet(LAMBDA g, z : [write_guest_reg(z, g) EXCEPT !.host = [h \in DOMAIN @ |->
                            IF @[h] = g THEN None ELSE @[h]], !.mem = @ \cup {g}], c, SwiRegs)
           y == IF CPSR \in live THEN load_guest_cpsr_reg(w) ELSE w
       IN Goes([reload_active_guest_regs(y, SwiRegs) EXCEPT !.mem = @ \ {PC}], "run")
    /\ stale' = {} /\ UNCHANGED <<live, outs>>

\* The swi halted the cpu.
SwiHalt ==
    /\ phase = "swi"
    /\ Goes(LeaveTo(c), "out")
    /\ stale' = {} /\ UNCHANGED <<live, outs>>

\* A write of the status register: if the mode may change, the banked registers
\* are exchanged in memory and loaded again; the handler returns the flags.
Msr == \E cond, save_regs \in BOOLEAN, src \in {{}} \cup {{r} : r \in Guest} :
    /\ src \subseteq live
    /\ \E next \in NextLive(src, {CPSR}, cond) :
        \E live_after \in WithPc(next) :
        LET x == alloc_guest_inst(c, Source(src, cond), {CPSR}, cond, live_after)
        IN \E y \in Arrivals(x), runs \in Executed(cond) :
            LET w == IF save_regs THEN save_dirty_guest_regs(y, TRUE, ~cond, {})
                     ELSE save_dirty_guest_cpsr(y, ~cond)
                z == [w EXCEPT !.mem = @ \cup {CPSR}, !.flags = TRUE]
                banked == [z EXCEPT !.host = [h \in DOMAIN @ |-> IF @[h] \in Banked THEN None ELSE @[h]],
                                    !.mem = @ \cup Banked]
                done == IF save_regs THEN reload_active_guest_regs(banked, Banked) ELSE z
            IN /\ stale' = NotPresent(y, Source(src, cond)) \cup
                           (IF runs THEN (IF save_regs THEN Banked \cup {CPSR} ELSE {CPSR}) \ w.mem ELSE {})
               /\ Goes(add_dirty_guest_regs(IF runs THEN done ELSE y, {CPSR}), "run")
               /\ live' = next
    /\ UNCHANGED outs

-----------------------------------------------------------------------------
(* From basic block to basic block, and out of the block.                  *)

\* Leaving through the pc in memory: the pc a branch not taken left in its place
\* must not go there.
SchedulerExitWithPc(y) == Leave(save_dirty_guest_regs([y EXCEPT !.mem = @ \cup {PC}], FALSE, FALSE, {}))
SchedulerExit(y) ==
    Leave(save_dirty_guest_regs([y EXCEPT !.mem = @ \cup {PC}, !.dirty = @ \ {PC}], FALSE, FALSE, {}))

ToBlock(y, b) ==
    LET w == [relocate_for_basic_block(y, b.in, b.out) EXCEPT !.flags = FALSE]
    IN IF CPSR \in b.in THEN load_guest_cpsr_reg(w) ELSE w

\* A branch inside the block, forward or backward: the quantum may be used up
\* or the target's code gone, and the branch leaves.
LocalBranch == \E cond, runs \in BOOLEAN, y \in Arrivals(c) :
    /\ runs \in Executed(cond)
    /\ {} \in NextLive({}, {}, cond)
    /\ stale' = NotPresent(y, Source({}, cond))
    /\ LET z == save_dirty_guest_cpsr(y, FALSE)
       IN \/ ~runs /\ Goes(y, "run") /\ live' = {} /\ UNCHANGED outs
          \/ runs /\ Goes([SchedulerExit(z) EXCEPT !.dirty = IF cond THEN @ ELSE {}], "out")
                  /\ live' = {} /\ UNCHANGED outs
          \/ \E b \in Blocks :
                runs /\ Goes(ToBlock(z, b), "run") /\ live' = b.in /\ outs' = b.out

\* A branch out of the block, or the branch of an idle loop.
ExternalBranch == \E cond, runs \in BOOLEAN, y \in Arrivals(c) :
    /\ runs \in Executed(cond)
    /\ {} \in NextLive({}, {}, cond)
    /\ stale' = NotPresent(y, Source({}, cond))
    /\ LET z == [y EXCEPT !.dirty = @ \ {PC}]
       IN IF runs THEN Goes(Leave(save_dirty_guest_regs([z EXCEPT !.mem = @ \cup {PC}], TRUE, ~cond, {})), "out")
          ELSE Goes(z, "run")
    /\ live' = {} /\ UNCHANGED outs

\* bx: the branch to a register, whose value is also written to the pc.
Bx == \E cond \in BOOLEAN, r \in Guest :
    /\ r \in live /\ Few({r, PC})
    /\ \E next \in NextLive({r}, {}, cond) :
        \E live_after \in WithPc(next) :
        LET x == alloc_guest_inst(c, Source({r}, cond), {PC}, cond, live_after)
        IN \E y \in Arrivals(x), runs \in Executed(cond) :
            /\ stale' = NotPresent(y, Source({r}, cond))
            /\ IF runs THEN Goes(Leave(save_dirty_guest_regs([y EXCEPT !.host[y.map[PC]] = PC],
                                                             TRUE, ~cond, {PC})), "out")
               ELSE Goes(y, "run")
            /\ live' = next
    /\ UNCHANGED outs

\* The end of a basic block whose successor follows it.  Flags the successor
\* reads are kept in the host's flags if this block wrote them.
FallThrough == \E b \in Blocks :
    /\ phase = "run" /\ live = {}
    /\ LET w == IF CPSR \in c.dirty
                THEN [c EXCEPT !.mem = IF c.flags THEN @ \cup {CPSR} ELSE @ \ {CPSR}] ELSE c
           z == relocate_for_basic_block(w, b.in, b.out)
       IN Goes(CASE CPSR \notin b.in -> [z EXCEPT !.flags = FALSE]
                 [] CPSR \in b.in /\ CPSR \in c.dirty -> z
                 [] OTHER -> load_guest_cpsr_reg(z), "run")
    /\ live' = b.in /\ outs' = b.out /\ stale' = {}

\* The end of the last basic block.
EndOfBlock ==
    /\ phase = "run" /\ live = {}
    /\ Goes(LeaveTo(save_dirty_guest_regs(c, TRUE, TRUE, {})), "out")
    /\ stale' = {} /\ UNCHANGED <<live, outs>>

Next ==
    \/ Enter \/ Elsewhere \/ DataOp \/ IndirectBranch \/ SingleTransfer \/ MultipleTransfer
    \/ Call \/ Return \/ Unwind \/ Swi \/ SwiReturn \/ SwiHalt \/ Msr
    \/ LocalBranch \/ ExternalBranch \/ Bx \/ FallThrough \/ EndOfBlock

Spec == Init /\ [][Next]_vars

-----------------------------------------------------------------------------
(* Properties.                                                             *)

\* Every operand an instruction reads is the present value of its register,
\* whichever way the block came to it (alloc_guest_inst, relocate_guest_regs).
OperandsPresent == stale = {}

\* When control leaves the block, every register of the guest is in memory, the
\* pc included; the bios and a callee find them there (save_dirty_guest_regs).
LeavesSaved ==
    /\ phase \in {"out", "called", "calledIf"} => c.mem = All
    /\ phase = "swi" => All \ {PC} \subseteq c.mem

\* A register whose memory is out of date is dirty and has a place, and every
\* dirty register that has a place is there: writing it back is never wrong
\* and never forgotten (dirty_guest_regs).
DirtyExact ==
    phase = "run" =>
        /\ \A g \in Guest \ c.mem : g \in c.dirty /\ c.map[g] # None
        /\ \A g \in Guest \cap c.dirty : c.map[g] # None => c.host[c.map[g]] = g
        /\ CPSR \notin c.mem => CPSR \in c.dirty
        /\ CPSR \in c.dirty => c.flags

==============================================================================
