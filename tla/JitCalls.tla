------------------------------ MODULE JitCalls ------------------------------
(***************************************************************************)
(* Guest calls on the host stack (jit_asm.rs, inst_branch_handler.rs, the  *)
(* branch emitter and the interpreter's block loop).  A guest call is a    *)
(* host call, so a guest return can be a host return when the return stack *)
(* says that the guest goes back to the caller; everything else leaves the *)
(* guest context, which drops the whole host stack, and the loop enters    *)
(* again at the guest's pc.  The stack of addresses is a ring that a       *)
(* sentinel guards, code may be freed while its frames are on the stack.   *)
(***************************************************************************)
EXTENDS Naturals, Sequences, FiniteSets, SequencesExt

CONSTANTS Size,      \* RETURN_STACK_SIZE
          Quantum,   \* MAX_LOOP_CYCLE_COUNT
          Costs,     \* cycles a branch flushes: its block's and the fixed cost
          Pc,        \* guest addresses
          MaxGen     \* how often code memory is flushed

ASSUME JitCallsAssumption ==
    /\ Size \in Nat \ {0, 1}
    /\ Quantum \in Nat \ {0}
    /\ Costs \subseteq Nat \ {0}
    /\ Pc \subseteq Nat \ {0}
    /\ MaxGen \in Nat

NoPc == 0     \* u32::MAX, which is no guest address

VARIABLES
    pc,          \* regs.pc: where the guest context is entered again
    at,          \* guest address being executed, Out between two slices
    code,        \* what executes it: compiled code of a generation, or 0 (interpreted)
    gen,         \* generation of the code memory
    host,        \* frames of the host stack above call_jit_entry, top last
    stack, ptr,  \* return_stack and return_stack_ptr
    cycles       \* accumulated_cycles

vars == <<pc, at, code, gen, host, stack, ptr, cycles>>

Out == 0
Interpreted == 0

Frame ==
    [kind : {"call"}, lr : Pc, code : Nat] \cup
    [kind : {"emit"}, flushed : BOOLEAN]

CallFrame(lr) == [kind |-> "call", lr |-> lr, code |-> code]
EmitFrame(f) == [kind |-> "emit", flushed |-> f]

TypeOK ==
    /\ pc \in Pc /\ at \in Pc \cup {Out}
    /\ gen \in 1 .. MaxGen + 1 /\ code \in 0 .. gen
    /\ host \in Seq(Frame)
    /\ stack \in [0 .. Size - 1 -> Pc \cup {NoPc}] /\ ptr \in 0 .. Size - 1
    /\ cycles \in Nat

Init ==
    /\ pc \in Pc /\ at = Out
    /\ code = Interpreted /\ gen = 1
    /\ host = <<>>
    /\ stack = [i \in 0 .. Size - 1 |-> NoPc] /\ ptr = 0
    /\ cycles = 0

-----------------------------------------------------------------------------
(* The return stack.                                                       *)

Below(i) == (i + Size - 1) % Size
Above(i) == (i + 1) % Size

\* A push that does not mark the slot above its own.
PushPlain(lr) ==
    /\ stack' = [stack EXCEPT ![ptr] = lr]
    /\ ptr' = Above(ptr)

\* push_return_stack: the slot above the new entry is marked.
Push(lr) ==
    /\ stack' = [stack EXCEPT ![ptr] = lr, ![Above(ptr)] = NoPc]
    /\ ptr' = Above(ptr)

\* clear_return_stack_ptr: only the slot below the bottom is marked.
Clear ==
    /\ ptr' = 0
    /\ stack' = [stack EXCEPT ![Size - 1] = NoPc]

-----------------------------------------------------------------------------
(* Reaching the entry of a guest address, with the frames h on the stack.  *)

\* The entry holds a compiled block.
Hit(t, h) ==
    /\ at' = t /\ code' = gen
    /\ host' = h
    /\ UNCHANGED gen

\* emit_code_block: cold, sticky or self-modifying code is interpreted.
Interpret(t, h) ==
    /\ at' = t /\ code' = Interpreted
    /\ host' = Append(h, EmitFrame(FALSE))
    /\ UNCHANGED gen

\* emit_code_block: the block is compiled, its allocation may flush the memory;
\* the new block then runs above the frames of freed ones.
Compile(t, h) ==
    \E flushed \in BOOLEAN :
        /\ flushed => gen <= MaxGen
        /\ at' = t
        /\ gen' = IF flushed THEN gen + 1 ELSE gen
        /\ code' = gen'
        /\ host' = Append(h, EmitFrame(flushed))

Dispatch(t, h) == Hit(t, h) \/ Interpret(t, h) \/ Compile(t, h)

\* exit_guest_context: the saved host stack pointer drops every frame.
Exit(t) ==
    /\ pc' = t /\ at' = Out
    /\ code' = Interpreted /\ host' = <<>>
    /\ UNCHANGED gen

\* execute_internal.
Enter ==
    /\ at = Out
    /\ cycles' = 0
    /\ Clear
    /\ pc' = pc
    /\ Dispatch(pc, <<>>)

Running == at # Out

\* flush_cycles that computes the sum and does not store it.
FlushLost(c) == UNCHANGED cycles

\* flush_cycles and check_scheduler.
Flush(c) == cycles' = cycles + c
Exhausted(c) == cycles + c >= Quantum

\* bl, blx: pre_branch::<true> and the host call; the link register is any
\* address behind a call.
Call(c, t, lr) ==
    /\ Running
    /\ Flush(c)
    /\ \/ /\ Exhausted(c) /\ Exit(t)
          /\ UNCHANGED <<stack, ptr>>
       \/ /\ ~Exhausted(c) /\ Push(lr) /\ pc' = t
          /\ Dispatch(t, Append(host, CallFrame(lr)))

\* b, bx: a tail jump of compiled code; the interpreter either loops in its
\* frame or hands the target on from a frame of its own.
Jump(c, t) ==
    /\ Running
    /\ Flush(c)
    /\ UNCHANGED <<stack, ptr>>
    /\ \/ Exhausted(c) /\ Exit(t)
       \/ ~Exhausted(c) /\ pc' = t /\ Dispatch(t, host)
       \/ /\ ~Exhausted(c) /\ code = Interpreted
          /\ pc' = t /\ at' = t
          /\ UNCHANGED <<code, gen, host>>

\* emit_code_block without its look at flushed: it returns into its caller.
UnwoundFlushed(h) ==
    LET stops == {i \in 1 .. Len(h) : h[i].kind = "call"}
    IN IF stops = {} THEN <<>>
       ELSE SubSeq(h, 1, CHOOSE i \in stops : \A j \in stops : j <= i)

\* The frames a host return runs through: the ones of emit_code_block that did
\* not flush return at once.
Unwound(h) ==
    LET stops == {i \in 1 .. Len(h) : h[i].kind = "call" \/ h[i].flushed}
    IN IF stops = {} THEN <<>>
       ELSE SubSeq(h, 1, CHOOSE i \in stops : \A j \in stops : j <= i)

\* The host return of a matched guest return to t.
HostReturn(t, h) ==
    IF h = <<>> \/ Last(h).kind = "emit"
    THEN Exit(t)
    ELSE /\ pc' = t
         /\ at' = Last(h).lr
         /\ code' = Last(h).code
         /\ host' = Front(h)
         /\ UNCHANGED gen

\* bx lr: branch_lr.
Return(c, t) ==
    /\ Running
    /\ Flush(c)
    /\ \/ Exhausted(c) /\ Exit(t) /\ UNCHANGED <<stack, ptr>>
       \/ /\ ~Exhausted(c)
          /\ ptr' = Below(ptr) /\ UNCHANGED stack
          /\ IF stack[Below(ptr)] = t
             THEN HostReturn(t, Unwound(host))
             ELSE Exit(t)

\* The sentinel address of the BIOS: hle_bios_uninterrupt goes on at the
\* interrupted address, or leaves when the cpu is halted.  The branch that led
\* here looked at the quantum; the cycles of the call itself are not looked at.
Uninterrupt(c, t) ==
    /\ Running
    /\ cycles < Quantum
    /\ Flush(c)
    /\ \/ Exit(t) /\ UNCHANGED <<stack, ptr>>
       \/ Clear /\ pc' = t /\ Dispatch(t, Append(host, EmitFrame(FALSE)))

\* breakout_imm and the software interrupts that halt: out, behind the store.
Breakout(t) ==
    /\ Running
    /\ Exit(t)
    /\ UNCHANGED <<stack, ptr, cycles>>

Next ==
    \/ Enter
    \/ \E c \in Costs, t \in Pc :
          \/ Jump(c, t)
          \/ Return(c, t)
          \/ Uninterrupt(c, t)
          \/ \E lr \in Pc : Call(c, t, lr)
    \/ \E t \in Pc : Breakout(t)

Spec == Init /\ [][Next]_vars

-----------------------------------------------------------------------------
(* Properties.                                                             *)

\* The frames of guest calls, and how many of them lie above one.
Calls == {i \in 1 .. Len(host) : host[i].kind = "call"}
Inner(p) == Cardinality({i \in Calls : i > p})

\* The n-th entry from the top of the ring, and whether n pops meet no mark.
Entry(n) == stack[(ptr + Size - n) % Size]
Visible(n) == \A i \in 1 .. n : Entry(i) # NoPc

\* The return stack never promises a caller that the host stack does not have:
\* what it holds above its mark are the innermost call frames in order, through
\* wrap-around of the ring, stale entries of earlier slices and returns from
\* interrupts (jit_asm.rs push, pop and clear_return_stack_ptr).
StackMatches ==
    Running => \A n \in 1 .. Size : Visible(n) =>
        \E p \in Calls : Inner(p) = n - 1 /\ host[p].lr = Entry(n)

\* A host return always ends where the guest returned to, in code that was not
\* freed: a frame below a flush is never resumed (emit_code_block_internal).
ResumesLiveCode ==
    Running => /\ at = pc
               /\ code \in {Interpreted, gen}

\* The host stack is bounded by the quantum although branches out of the
\* interpreter and returns from interrupts leave frames behind: every one of
\* them costs cycles (flush_cycles, hle_bios_uninterrupt).
HostBounded == Len(host) <= 2 * cycles + 1 /\ Len(host) <= 2 * Quantum + 1

\* Why they hold.  The ring has a mark somewhere.
Marked == \E i \in 0 .. Size - 1 : stack[i] = NoPc

\* A call frame of freed code has a frame above it that saw the flush.
FramesLive ==
    \A p \in Calls :
        \/ host[p].code \in {Interpreted, gen}
        \/ \E q \in p + 1 .. Len(host) : host[q].kind = "emit" /\ host[q].flushed

CallsInv ==
    /\ TypeOK /\ Marked /\ FramesLive
    /\ StackMatches /\ ResumesLiveCode /\ HostBounded
    /\ at = Out => host = <<>>
=============================================================================
