------------------------------- MODULE RegAlloc -------------------------------
(***************************************************************************)
(* The register allocator of a compiled block (reg_alloc.rs, block_asm.rs).*)
(* The guest's registers live in memory; a block keeps some of them in the *)
(* host registers r4 to r11 and its flags in the host's flags, and writes  *)
(* them back late.  A register file is a record:                           *)
(*    map    the host register of each guest register (or None),           *)
(*    hmap   the guest register of each host register (or None),           *)
(*    free   the host registers never given away in this basic block,      *)
(*    dirty  the guest registers the compiler thinks it has to write back  *)
(* which is what the compiler knows at one place of the block, and         *)
(*    host   the guest register whose present value a host register holds, *)
(*    mem    the guest registers whose present value is in memory,         *)
(*    flags  whether the host's flags are the guest's                      *)
(* which is what the emitted code has done when it is executed there.      *)
(***************************************************************************)
EXTENDS Integers, FiniteSets, Sequences, SequencesExt, FiniteSetsExt

CONSTANTS Guest,   \* the general registers of the guest, by number
          Hosts,   \* GUEST_REG_ALLOCATIONS
          Thumb    \* the block is Thumb code

PC == 15
CPSR == 16
None == 17
R2 == 2           \* scratch host register of a rotation

ASSUME RegAllocAssumption ==
    /\ Guest \subseteq 0 .. 14 /\ Hosts \subseteq 4 .. 11
    /\ IsFiniteSet(Guest) /\ Hosts # {} /\ Thumb \in BOOLEAN

Mapped == Guest \cup {PC}
All == Mapped \cup {CPSR}

Ordered(S) == SelectSeq([i \in 1 .. 16 |-> i - 1], LAMBDA g : g \in S)
Low(r) == r < 8
Suits(g, r) == Thumb => Low(g) = Low(r)

\* Nothing mapped, nothing in a host register, everything in memory.
Saved ==
    [map |-> [g \in Mapped |-> None], hmap |-> [h \in Hosts |-> None], free |-> Hosts, dirty |-> {},
     host |-> [h \in Hosts \cup {R2} |-> None], mem |-> All, flags |-> FALSE]

-----------------------------------------------------------------------------
(* Moving one register.                                                    *)

set_guest_reg_mapping(c, g, h) ==
    IF h = None THEN [c EXCEPT !.map[g] = None, !.hmap[c.map[g]] = None]
    ELSE [c EXCEPT !.map[g] = h, !.hmap[h] = g]

restore_guest_reg(c, g, h) == [c EXCEPT !.host[h] = IF g \in c.mem THEN g ELSE None]

spill_guest_reg(c, g, h) == [c EXCEPT !.mem = IF c.host[h] = g THEN @ \cup {g} ELSE @ \ {g}]

\* What an instruction does that computes a new value of a mapped register.
write_guest_reg(c, g) ==
    [c EXCEPT !.host = [h \in DOMAIN c.host |->
                            IF h = c.map[g] THEN g ELSE IF c.host[h] = g THEN None ELSE c.host[h]],
              !.mem = @ \ {g}]

save_active_guest_regs(c, S) ==
    FoldSet(LAMBDA g, x : IF x.map[g] = None THEN x ELSE spill_guest_reg(x, g, x.map[g]), c, S \cap Mapped)

reload_active_guest_regs(c, S) ==
    FoldSet(LAMBDA g, x : IF x.map[g] = None THEN x ELSE restore_guest_reg(x, g, x.map[g]), c, S \cap Guest)

-----------------------------------------------------------------------------
(* Giving the registers of an instruction a place.                         *)

Available(c, g) == {h \in c.free : Suits(g, h)}

alloc_free_guest_reg(c, g, is_input) ==
    LET h == Min(Available(c, g))
        x == [set_guest_reg_mapping(c, g, h) EXCEPT !.free = @ \ {h}]
    IN IF is_input /\ g # PC THEN restore_guest_reg(x, g, h) ELSE x

Victims(c, g, used) == {v \in Mapped \ used : c.map[v] # None /\ Suits(g, v)}
Victim(c, g, used, next) ==
    LET V == Victims(c, g, used) IN IF V \ next # {} THEN Min(V \ next) ELSE Min(V)

alloc_guest_reg(c, g, is_input, used, next) ==
    IF Available(c, g) # {} THEN alloc_free_guest_reg(c, g, is_input)
    ELSE LET v == Victim(c, g, used, next)
             h == c.map[v]
             x == set_guest_reg_mapping(set_guest_reg_mapping(c, v, None), g, h)
             y == IF v \in c.dirty THEN spill_guest_reg(x, v, h) ELSE x
         IN IF is_input /\ g # PC THEN restore_guest_reg(y, g, h) ELSE y

AllocEach(c, S, is_input, used, next) ==
    FoldLeft(LAMBDA x, g : IF x.map[g] # None THEN x ELSE alloc_guest_reg(x, g, is_input, used, next),
             c, Ordered(S))

\* The registers that lost their place are clean, if the code that spilt them
\* is known to be executed: under a condition the compiler does not rely on it.
alloc_guest_regs(c, in, out, cond, next) ==
    LET i == in \ {CPSR}  o == out \ {CPSR}
        x == AllocEach(AllocEach(c, i, TRUE, i \cup o, next), o, FALSE, i \cup o, next)
        spilled == {g \in Mapped : c.map[g] # None /\ x.map[g] = None}
    IN IF cond THEN x ELSE [x EXCEPT !.dirty = @ \ spilled]

\* The registers an instruction needs in a place: a conditional one may leave
\* its results as they were, so it needs their old values.
alloc_guest_instUncond(c, src, out, cond, next) == alloc_guest_regs(c, src, out, cond, next)
alloc_guest_inst(c, src, out, cond, next) ==
    alloc_guest_regs(c, IF cond THEN src \cup (out \ {PC}) ELSE src, out, cond, next)

-----------------------------------------------------------------------------
(* Flags and write-back.                                                   *)

\* Writing the flags back goes through a shift that may destroy them.
save_dirty_guest_cpsr(c, clear) ==
    LET x == IF CPSR \in c.dirty
             THEN [c EXCEPT !.mem = IF c.flags THEN @ \cup {CPSR} ELSE @ \ {CPSR}, !.flags = FALSE]
             ELSE c
    IN IF clear THEN [x EXCEPT !.dirty = @ \ {CPSR}] ELSE x

load_guest_cpsr_reg(c) == [c EXCEPT !.flags = CPSR \in c.mem]

save_dirty_guest_regs(c, cpsr, clear, additional) ==
    LET x == save_active_guest_regs(c, c.dirty \cup additional)
        y == IF cpsr THEN save_dirty_guest_cpsr(x, clear) ELSE x
    IN IF clear THEN [y EXCEPT !.dirty = {}] ELSE y

-----------------------------------------------------------------------------
(* From the registers at the end of a basic block to those its successor   *)
(* expects.                                                                *)

\* The mapping a basic block starts with: its inputs in order while there is
\* room.  Those it also writes count as dirty, for its predecessors do not
\* write them back.
init_guest_regs_mapping(in, out) ==
    LET x == FoldLeft(LAMBDA y, g : IF Available(y, g) = {} THEN y ELSE alloc_free_guest_reg(y, g, FALSE),
                      Saved, Ordered(in \ {PC, CPSR}))
    IN [x EXCEPT !.dirty = {g \in Mapped : x.map[g] # None} \cap out]

\* A rotation goes through r2 where it meets its first register again.
RECURSIVE swap_guest_regs(_, _, _, _, _)
swap_guest_regs(c, root, g, h, want) ==
    IF c.map[g] = h THEN c
    ELSE LET by == c.hmap[h]
             x == CASE by = None -> c
                    [] by = root -> [c EXCEPT !.host[R2] = c.host[h], !.map[by] = R2]
                    [] by # None /\ by # root /\ want[by] # None -> swap_guest_regs(c, root, by, want[by], want)
                    [] OTHER -> c
         IN [set_guest_reg_mapping(x, g, h) EXCEPT !.host[h] = x.host[x.map[g]]]

\* The registers the successor keeps and writes itself are not written back.
ToSaveKept(dirty, out, want) == {g \in dirty : want[g] = None}
ToSave(dirty, out, want) == {g \in dirty : ~(want[g] # None /\ g \in out)}

relocate_guest_regs(c, dirty, out, want) ==
    LET save == ToSave(dirty, out, want)
        saved == save_active_guest_regs(c, save)
        left == FoldSet(LAMBDA g, x : IF want[g] = None /\ x.map[g] # None
                                      THEN set_guest_reg_mapping(x, g, None) ELSE x, saved, save)
        placed == FoldLeft(LAMBDA x, g : IF x.map[g] # None /\ want[g] # None /\ x.map[g] # want[g]
                                         THEN swap_guest_regs(x, g, g, want[g], want) ELSE x,
                           left, Ordered(Mapped))
    IN FoldLeft(LAMBDA x, g : IF want[g] # None /\ x.map[g] # want[g]
                              THEN restore_guest_reg(x, g, want[g]) ELSE x,
                placed, Ordered(Mapped))

\* The registers when the basic block with inputs in and outputs out begins.
relocate_for_basic_block(c, in, out) ==
    LET start == init_guest_regs_mapping(in, out)
        x == relocate_guest_regs(c, c.dirty \ {PC, CPSR}, out, start.map)
    IN [start EXCEPT !.host = [x.host EXCEPT ![R2] = None], !.mem = x.mem, !.flags = x.flags]

\* The code at an instruction entered from outside: every mapped register and
\* the flags are loaded, all of them being in memory then.
jump_to_other_guest_pc(c) ==
    [c EXCEPT !.host = [h \in Hosts \cup {R2} |->
                            IF h # R2 /\ c.hmap[h] \in Guest THEN c.hmap[h] ELSE None],
              !.mem = All \ {PC}, !.flags = TRUE]
===============================================================================
