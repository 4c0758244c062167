------------------------------- MODULE JitSmc -------------------------------
(***************************************************************************)
(* Self-modifying code in IWRAM: how guest stores find the compiled blocks  *)
(* they make stale.  src/src/jit/jit_memory.rs, jit_asm.rs and              *)
(* src/src/core/memory/mem.rs.                                              *)
(*                                                                          *)
(* Three granularities: a word is what one store changes; a live-range page *)
(* (256 bytes) has a bit that says it holds compiled code; an mmu page      *)
(* (4 KB) is write-protected while it does, so that stores to it take the   *)
(* slow path.  A store is a word of a guest write of any shape (a slice     *)
(* takes the fast path only where every mmu page it touches is writable).   *)
(***************************************************************************)
EXTENDS JitMemory

CONSTANTS LiveSize,              \* words in a live-range page
          MmuSize,               \* words in an mmu page
          STICKY_SMC_THRESHOLD,  \* invalidation hits that make it sticky
          INTERP_THRESHOLD,      \* dispatches before a block is compiled
          MaxSpans               \* spans of invalidate_overlapping_blocks

ASSUME PageAssumption ==
    /\ LiveSize \in Nat \ {0} /\ MmuSize \in Nat \ {0} /\ MmuSize % LiveSize = 0
    /\ STICKY_SMC_THRESHOLD \in Nat \ {0} /\ INTERP_THRESHOLD \in Nat
    /\ MaxSpans \in Nat

LiveOf(w) == w \div LiveSize
MmuOf(w)  == w \div MmuSize
LivePages(S) == {LiveOf(w) : w \in S}
MmuPages(S)  == {MmuOf(w) : w \in S}
LivePage(w) == {v \in Words : LiveOf(v) = LiveOf(w)}
MmuPage(w)  == {v \in Words : MmuOf(v) = MmuOf(w)}

VARIABLES live,        \* the live-range pages whose bit is set
          prot,        \* the mmu pages that are write-protected
          sticky,      \* mmu page -> invalidation hits
          execCounts,  \* target -> dispatches that found no block
          changed      \* history: block -> words rewritten since it was compiled

smcVars == <<live, prot, sticky, execCounts, changed>>
allVars == <<vars, smcVars>>

----------------------------------------------------------------------------

(* is_sticky_smc, any_sticky_smc                                            *)
Sticky(w) == sticky[MmuOf(w)] >= STICKY_SMC_THRESHOLD

(* The blocks some entry leads to.                                          *)
Reachable(es) == {es[w] : w \in Words} \ {Default}

Zeroed(S) == [pc \in Targets |-> IF LiveOf(pc) \in LivePages(S) THEN 0 ELSE execCounts[pc]]

(* emit_code_block: a dispatch to a pc without a block.  Cold code and code *)
(* that touches a sticky page is interpreted; the rest is compiled, its     *)
(* entries written, its live-range bits set and its mmu pages protected.    *)
Interpret(pc) ==
    /\ entries[pc] = Default
    /\ \/ execCounts[pc] < INTERP_THRESHOLD
       \/ \E w \in pc .. (BlockEnd(pc) - 1) : Sticky(w)
    /\ execCounts' = [execCounts EXCEPT ![pc] = IF @ > INTERP_THRESHOLD THEN @ ELSE @ + 1]
    /\ UNCHANGED <<vars, live, prot, sticky, changed>>

Compile(pc, size) ==
    LET S == pc .. (BlockEnd(pc) - 1) IN
    /\ execCounts[pc] >= INTERP_THRESHOLD
    /\ \A w \in S : ~Sticky(w)
    /\ Insert(pc, size)
    /\ execCounts' = [execCounts EXCEPT ![pc] = INTERP_THRESHOLD + 1]
    /\ live' = live \cup LivePages(S)
    /\ prot' = prot \cup MmuPages(S)
    /\ changed' = [a \in DOMAIN changed |->
                      IF a \in Reachable(entries') /\ a # entries'[pc]
                      THEN changed[a] ELSE {}]
    /\ UNCHANGED sticky

(* The blocks invalidate_overlapping_blocks finds for w, up to MaxSpans, in *)
(* the order of the ring; blocks that no entry leads to any more included.  *)
Overlapping(w) ==
    LET over == {i \in DOMAIN funcs : w \in Span(funcs[i])} IN
    {i \in over : Cardinality({j \in over : j < i}) < MaxSpans}

(* What a store that changes w leaves behind, given the entries after it.   *)
Mark(w, es) ==
    [a \in DOMAIN changed |->
        IF a \notin Reachable(es) THEN {}
        ELSE IF \E i \in DOMAIN funcs : funcs[i].from = a /\ w \in Span(funcs[i])
             THEN changed[a] \cup {w} ELSE changed[a]]

(* Mutant: a slice checks its first mmu page only.                          *)
SliceFirstPage(w) ==
    /\ MmuOf(w) \notin prot \/ LiveOf(w) \notin live \/ MmuOf(w) - 1 \notin prot
    /\ changed' = Mark(w, entries)
    /\ UNCHANGED <<vars, live, prot, sticky, execCounts>>

(* A store to a page that is writable, or to a page whose live-range bit is *)
(* clear: memory changes and nothing else.                                  *)
PlainStore(w) ==
    /\ MmuOf(w) \notin prot \/ LiveOf(w) \notin live
    /\ changed' = Mark(w, entries)
    /\ UNCHANGED <<vars, live, prot, sticky, execCounts>>

(* invalidate_block: the live-range page loses its entries, and so does     *)
(* every block found to span the word.                                      *)
Killed(w) == LivePage(w) \cup UNION {Span(funcs[i]) : i \in Overlapping(w)}

(* Mutant: the page is given back although other blocks are left in it.     *)
EvictHit(w) == LivePage(w)

(* invalidate_mmu_page: all of the page that has become sticky.             *)
Evict(w) == MmuPage(w)

(* write_iwram on the slow path, with the live-range bit set: the hit page  *)
(* is invalidated, and an mmu page hit often enough is emptied and given    *)
(* back its fast path for good.                                             *)
HitStore(w) ==
    LET hits   == IF sticky[MmuOf(w)] < STICKY_SMC_THRESHOLD
                  THEN sticky[MmuOf(w)] + 1 ELSE STICKY_SMC_THRESHOLD
        full   == hits >= STICKY_SMC_THRESHOLD
        gone   == Killed(w) \cup IF full THEN Evict(w) ELSE {}
    IN  /\ MmuOf(w) \in prot /\ LiveOf(w) \in live
        /\ sticky' = [sticky EXCEPT ![MmuOf(w)] = hits]
        /\ entries' = WriteEntries(entries, gone, Default)
        /\ live' = live \ ({LiveOf(w)} \cup IF full THEN LivePages(MmuPage(w)) ELSE {})
        /\ prot' = IF full THEN prot \ {MmuOf(w)} ELSE prot
        /\ execCounts' = Zeroed(gone)
        /\ changed' = Mark(w, entries')
        /\ UNCHANGED <<start, end, funcs>>

(* Mutant: the free pages are taken back as well.                           *)
RewindAlloc ==
    /\ entries' = [w \in Words |-> Default]
    /\ live' = {}
    /\ sticky' = [p \in DOMAIN sticky |-> 0]
    /\ execCounts' = [pc \in Targets |-> 0]
    /\ changed' = [a \in DOMAIN changed |-> {}]
    /\ start' = 0
    /\ UNCHANGED <<end, funcs, prot>>

(* invalidate_ram_blocks, after a rewind step restored guest memory.  The   *)
(* protection of the pages stays as it is.                                  *)
Rewind ==
    /\ entries' = [w \in Words |-> Default]
    /\ live' = {}
    /\ sticky' = [p \in DOMAIN sticky |-> 0]
    /\ execCounts' = [pc \in Targets |-> 0]
    /\ changed' = [a \in DOMAIN changed |-> {}]
    /\ UNCHANGED <<start, end, funcs, prot>>

SmcInit ==
    /\ Init
    /\ live = {}
    /\ prot = {}
    /\ sticky = [p \in MmuPages(Words) |-> 0]
    /\ execCounts = [pc \in Targets |-> 0]
    /\ changed = [a \in 0 .. MaxEnd |-> {}]

(* savestate_post_load: mmu_update_all makes every page writable, and the   *)
(* jit is reset as a whole.                                                 *)
LoadState ==
    /\ Reinit
    /\ live' = {}
    /\ prot' = {}
    /\ sticky' = [p \in DOMAIN sticky |-> 0]
    /\ execCounts' = [pc \in Targets |-> 0]
    /\ changed' = [a \in DOMAIN changed |-> {}]

SmcNext ==
    \/ \E pc \in Targets : Interpret(pc)
    \/ \E pc \in Targets, size \in CodeSizes : Compile(pc, size)
    \/ \E w \in Words : PlainStore(w) \/ HitStore(w)
    \/ Rewind
    \/ LoadState

SmcSpec == SmcInit /\ [][SmcNext]_allVars

----------------------------------------------------------------------------

(* Whatever an entry leads to, the guest words of the entry's own live-     *)
(* range page are as they were when the block was compiled: stores to that  *)
(* page are seen as long as it has an entry.                                *)
PageFresh ==
    \A w \in Words : entries[w] # Default =>
        changed[entries[w]] \cap LivePage(w) = {}

(* A page with compiled code is watched (its bit is set and its mmu page    *)
(* protected), and a page given up as self-modifying has no compiled code.  *)
EntryWatched ==
    \A w \in Words : entries[w] # Default =>
        LiveOf(w) \in live /\ MmuOf(w) \in prot /\ ~Sticky(w)

(* The entry table and the ring go on as in JitMemory, whose invariants     *)
(* thus hold of the jit with its stores, rewinds and loads.                 *)
ImplementsJitMemory == Spec

=============================================================================
