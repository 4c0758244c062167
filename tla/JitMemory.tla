----------------------------- MODULE JitMemory -----------------------------
(***************************************************************************)
(* The jit's code memory: the ring of host pages that compiled blocks are   *)
(* allocated from, and the entry table that maps guest addresses to blocks. *)
(* src/src/jit/jit_memory.rs.                                               *)
(*                                                                          *)
(* Guest memory is a range of words; BlockEnds are the words holding an     *)
(* instruction that ends a block, so the block compiled at pc runs from pc  *)
(* to the first of them.  Host memory is a range of 4 * Quarter pages; a    *)
(* compiled block takes any number of pages in CodeSizes.  How guest writes *)
(* decide which entries to drop is JitSmc's subject: here they may drop any *)
(* entries.                                                                 *)
(***************************************************************************)
EXTENDS Integers, Sequences, FiniteSets

CONSTANTS Words,      \* guest addresses that can hold code
          BlockEnds,  \* those that end a block
          Targets,    \* those the guest branches to
          Quarter,    \* JIT_MEMORY_SIZE / 4 / PAGE_SIZE
          CodeSizes,  \* the sizes of compiled blocks, in host pages
          MaxLarge    \* bound: blocks of more than one page in the ring

MaxSize == CHOOSE m \in CodeSizes : \A s \in CodeSizes : s <= m

(* A quarter holds thirteen of the largest blocks, less twelve pages.  The  *)
(* code has 2048 pages in a quarter, and at most 500 guest instructions in  *)
(* a block.                                                                 *)
ASSUME SizeAssumption ==
    /\ CodeSizes \subseteq Nat \ {0}
    /\ \E m \in CodeSizes : \A s \in CodeSizes : s <= m
    /\ Quarter \in Nat /\ Quarter >= 13 * MaxSize - 12
ASSUME GuestAssumption ==
    /\ Words \subseteq Nat /\ Targets \subseteq Words /\ BlockEnds \subseteq Words
    /\ \A pc \in Targets : \E e \in BlockEnds : e >= pc
    /\ MaxLarge \in Nat

MaxEnd == 4 * Quarter
Default == -1      \* DEFAULT_JIT_ENTRY: the entry that calls emit_code_block

VARIABLES entries,  \* guest word -> first host page of its block, or Default
          start,    \* the free host pages are start .. end - 1
          end,
          funcs     \* jit_funcs: the blocks in the ring, oldest first

vars == <<entries, start, end, funcs>>

----------------------------------------------------------------------------

(* fill_jit_insts_buf: the words [pc, end) of the block that starts at pc.  *)
BlockEnd(pc) ==
    1 + CHOOSE e \in BlockEnds : e >= pc /\ \A f \in BlockEnds : f >= pc => e <= f

Span(b) == {w \in Words : b.pc <= w /\ w < b.end}

(* write_jit_entries                                                        *)
WriteEntries(es, S, value) == [w \in Words |-> IF w \in S THEN value ELSE es[w]]

(* reset_blocks pops blocks from the front until they make a quarter of the *)
(* memory, or until the next one lies before the first: the ring has        *)
(* wrapped.                                                                 *)
StopsAt(fs, n) ==
    \/ fs[n].to - fs[1].from >= Quarter
    \/ n < Len(fs) /\ fs[n + 1].to < fs[1].from

Pops(fs, n) == StopsAt(fs, n) /\ \A m \in 1 .. (n - 1) : ~StopsAt(fs, m)

(* allocate_block: the last block takes the rest of the memory when the     *)
(* request does not fit behind it.                                          *)
Closed(size) ==
    IF start + size > MaxEnd
    THEN [funcs EXCEPT ![Len(funcs)].to = MaxEnd]
    ELSE funcs

NewBlock(pc, from, size) ==
    [pc |-> pc, end |-> BlockEnd(pc), from |-> from, to |-> from + size]

(* jit_insert_block where the free pages suffice.                           *)
InsertFits(pc, size) ==
    LET b == NewBlock(pc, start, size) IN
    /\ start + size <= end
    /\ funcs' = Append(funcs, b)
    /\ entries' = WriteEntries(entries, Span(b), b.from)
    /\ start' = b.to
    /\ UNCHANGED end

(* Mutant: the entries of the freed blocks stay.                            *)
FlushKeeps(pc, size) ==
    LET fs == Closed(size)
        b  == NewBlock(pc, fs[1].from, size)
    IN  /\ start + size > end
        /\ \E n \in 1 .. Len(fs) :
              /\ Pops(fs, n)
              /\ entries' = WriteEntries(entries, Span(b), b.from)
              /\ funcs' = Append(SubSeq(fs, n + 1, Len(fs)), b)
              /\ start' = b.to
              /\ end' = fs[n].to

(* jit_insert_block where they do not: reset_blocks frees the n oldest      *)
(* blocks, drops what the entry table holds over their guest ranges, and    *)
(* the new block goes to the first page freed.                              *)
InsertFlush(pc, size) ==
    LET fs == Closed(size)
        b  == NewBlock(pc, fs[1].from, size)
    IN  /\ start + size > end
        /\ \E n \in 1 .. Len(fs) :
              /\ Pops(fs, n)
              /\ LET freed == UNION {Span(fs[i]) : i \in 1 .. n} IN
                 entries' = WriteEntries(WriteEntries(entries, freed, Default),
                                         Span(b), b.from)
              /\ funcs' = Append(SubSeq(fs, n + 1, Len(fs)), b)
              /\ start' = b.to
              /\ end' = fs[n].to

Large == {i \in DOMAIN funcs : funcs[i].to - funcs[i].from > 1}

(* A dispatch to a pc whose entry is the default one compiles a block.      *)
Insert(pc, size) ==
    /\ entries[pc] = Default
    /\ size > 1 => Cardinality(Large) < MaxLarge
    /\ InsertFits(pc, size) \/ InsertFlush(pc, size)

(* invalidate_block, invalidate_mmu_page: entries are dropped; the ring is  *)
(* left alone, so the blocks behind them stay in it as orphans.             *)
Invalidate ==
    /\ \E S \in SUBSET {w \in Words : entries[w] # Default} :
          S # {} /\ entries' = WriteEntries(entries, S, Default)
    /\ UNCHANGED <<start, end, funcs>>

(* init, at a reset and after a savestate was loaded.                       *)
Reinit ==
    /\ entries' = [w \in Words |-> Default]
    /\ start' = 0
    /\ end' = MaxEnd
    /\ funcs' = <<>>

Init ==
    /\ entries = [w \in Words |-> Default]
    /\ start = 0
    /\ end = MaxEnd
    /\ funcs = <<>>

Next ==
    \/ \E pc \in Targets, size \in CodeSizes : Insert(pc, size)
    \/ Invalidate
    \/ Reinit

Spec == Init /\ [][Next]_vars

----------------------------------------------------------------------------

(* The blocks in the ring occupy disjoint host pages, none of them free.    *)
RingSound ==
    \A i \in DOMAIN funcs :
        /\ funcs[i].from < funcs[i].to
        /\ funcs[i].to <= start \/ end <= funcs[i].from
        /\ \A j \in DOMAIN funcs : i < j =>
              funcs[i].to <= funcs[j].from \/ funcs[j].to <= funcs[i].from

(* An entry leads to a block that is still in the ring, whole, and that was *)
(* compiled from a range holding the entry's guest address: no dispatch     *)
(* ever jumps into pages that were freed or written over.                   *)
EntryIntact ==
    /\ RingSound
    /\ \A w \in Words : entries[w] # Default =>
          \E i \in DOMAIN funcs : funcs[i].from = entries[w] /\ w \in Span(funcs[i])

=============================================================================
