----------------------------- MODULE Interrupts -----------------------------
(***************************************************************************)
(* Interrupt delivery, HALT, the BIOS IntrWait calls and the DMA channels  *)
(* (cpu_regs.rs, hle/bios.rs, memory/dma.rs, exception_handler.rs), driven *)
(* by the cpu thread's loop (lib.rs execute_jit).  A source raises a flag  *)
(* in irf from a timed event or from the end of a transfer; delivery is    *)
(* never immediate: it is an event of the immediate mask, drained between  *)
(* two slices of guest code.  The guest is any sequence of register writes *)
(* and BIOS calls.  Transfers go to plain memory.                          *)
(***************************************************************************)
EXTENDS Naturals, FiniteSets, FiniteSetsExt

CONSTANTS Lines,      \* interrupt numbers raised by timed events
          Channels,   \* DMA channels in use, a subset of 0 .. 3
          Waited,     \* the flags the guest waits for and records
          MaxDepth    \* nesting of interrupt handlers the guest allows

ASSUME InterruptsAssumption ==
    /\ Lines \subseteq 0 .. 7
    /\ Channels \subseteq 0 .. 3
    /\ Waited \subseteq 0 .. 13
    /\ MaxDepth \in Nat \ {0}

\* The immediate events, in the order of their table (cycle_manager.rs IMM_LUT).
CpuInterrupt == 0
DmaEvent(c) == 1 + c
Imm == {CpuInterrupt} \cup {DmaEvent(c) : c \in Channels}

DmaFlag(c) == 8 + c
Flag == Lines \cup {DmaFlag(c) : c \in Channels}

\* The transfers that the event raising a line also triggers, and the start
\* modes (DmaTransferMode) those lines make meaningful.
ModeOf(l) == CASE l = 0 -> "vblank" [] l = 1 -> "hblank" [] OTHER -> "special"
Mode == {"imm"} \cup {ModeOf(l) : l \in Lines}
Cnt == [enable : BOOLEAN, mode : Mode, repeat : BOOLEAN, irq : BOOLEAN]
CntOff == [enable |-> FALSE, mode |-> "imm", repeat |-> FALSE, irq |-> FALSE]

NoWaiter == MaxDepth + 1

VARIABLES
    ime, ie, irf,       \* interrupt master enable, enable and request registers
    irq_disable,        \* the I bit of cpsr
    depth,              \* interrupt frames the BIOS pushed and did not pop
    halt,
    bios_wait_flags,    \* flags an IntrWait call waits for
    wait_word,          \* the guest's flag word at 0x03007FF8
    cnt,                \* control register of each DMA channel
    imm,                \* active_imm_events
    pc, todo, due,      \* where the loop is; immediate events still to dispatch
    idle,               \* the block left is an idle loop
    waiter              \* observer: depth of the IntrWait call being waited in

vars == <<ime, ie, irf, irq_disable, depth, halt, bios_wait_flags, wait_word,
          cnt, imm, pc, todo, due, idle, waiter>>
cpu == <<ime, ie, irf, irq_disable, depth, halt>>
bios == <<bios_wait_flags, wait_word, waiter>>
loop == <<todo, due, idle>>

TypeOK ==
    /\ ime \in BOOLEAN /\ irq_disable \in BOOLEAN /\ halt \in BOOLEAN
    /\ ie \subseteq Flag /\ irf \subseteq Flag
    /\ bios_wait_flags \subseteq Waited /\ wait_word \subseteq Waited
    /\ depth \in 0 .. MaxDepth
    /\ cnt \in [Channels -> Cnt]
    /\ imm \subseteq Imm /\ todo \subseteq Imm
    /\ pc \in {"loop", "guest", "left", "drain", "events", "drain again"}
    /\ due \in BOOLEAN /\ idle \in BOOLEAN
    /\ waiter \in 0 .. NoWaiter

Init ==
    /\ ime = FALSE /\ ie = {} /\ irf = {} /\ irq_disable = FALSE
    /\ depth = 0 /\ halt = FALSE
    /\ bios_wait_flags = {} /\ wait_word = {} /\ waiter = NoWaiter
    /\ cnt = [c \in Channels |-> CntOff]
    /\ imm = {} /\ todo = {}
    /\ pc = "loop" /\ due = FALSE /\ idle = FALSE

-----------------------------------------------------------------------------
(* Raising and scheduling.                                                 *)

Deliverable == ime /\ ie \cap irf # {} /\ ~irq_disable

\* A register write that forgets to look.
CheckNever(m) == imm' = m

\* cpu_check_for_interrupt after a write: the event is scheduled, never taken back.
CheckForInterrupt(m) ==
    imm' = m \cup (IF Deliverable' THEN {CpuInterrupt} ELSE {})

\* A source that only looks at its own flag: an interrupt that was already
\* pending when the cpu halted does not wake it.
SendOwnFlagOnly(F, m) ==
    LET hit == (F \cap ie) \ irf # {}
        open == ime /\ ~irq_disable
        wake == hit /\ ~open
    IN /\ irf' = irf \cup F
       /\ imm' = m \cup (IF hit /\ open THEN {CpuInterrupt} ELSE {})
       /\ halt' = (halt /\ ~wake)
       /\ waiter' = IF halt /\ wake THEN NoWaiter ELSE waiter

\* cpu_send_interrupt of the flags F (none or one), with the immediate events m
\* scheduled by the same handler.
SendInterrupt(F, m) ==
    LET hit == F # {} /\ ie \cap (irf \cup F) # {}
        open == ime /\ ~irq_disable
        wake == hit /\ ~open
    IN /\ irf' = irf \cup F
       /\ imm' = m \cup (IF hit /\ open THEN {CpuInterrupt} ELSE {})
       /\ halt' = (halt /\ ~wake)
       /\ waiter' = IF halt /\ wake THEN NoWaiter ELSE waiter

\* dma_trigger: every enabled channel of the mode.
Triggered(mode) ==
    {DmaEvent(c) : c \in {d \in Channels : cnt[d].enable /\ cnt[d].mode = mode}}

-----------------------------------------------------------------------------
(* The guest, between two visits of the loop.                              *)

Guest == pc = "guest"

\* Leaving guest code: some number of cycles passed, an event may be due.
Leave == pc' = "left" /\ due' \in BOOLEAN /\ UNCHANGED <<todo, idle>>
Stay == UNCHANGED <<pc, loop>>

SetIme(v) ==
    /\ Guest
    /\ ime' = v
    /\ UNCHANGED <<ie, irf, irq_disable, depth, halt, cnt, bios>>
    /\ CheckForInterrupt(imm)
    /\ Stay

SetIe(v) ==
    /\ Guest
    /\ ie' = v
    /\ UNCHANGED <<ime, irf, irq_disable, depth, halt, cnt, bios>>
    /\ CheckForInterrupt(imm)
    /\ Stay

\* cpu_set_irf: writing a one acknowledges; what was scheduled stays scheduled.
SetIrf(v) ==
    /\ Guest
    /\ irf' = irf \ v
    /\ UNCHANGED <<ime, ie, irq_disable, depth, halt, cnt, imm, bios>>
    /\ Stay

\* An msr of the control field; a handler that nests re-enables interrupts here.
SetCpsr(i) ==
    /\ Guest
    /\ ~i => depth < MaxDepth
    /\ irq_disable' = i
    /\ UNCHANGED <<ime, ie, irf, depth, halt, cnt, bios>>
    /\ CheckForInterrupt(imm)
    /\ Stay

\* HALTCNT: the cpu is halted, but guest code runs on to the end of its slice.
SetHaltCnt ==
    /\ Guest
    /\ halt' = TRUE
    /\ UNCHANGED <<ime, ie, irf, irq_disable, depth, cnt, imm, bios>>
    /\ Stay

\* The guest's handler records the flags it served in the BIOS word.
WriteWaitWord(v) ==
    /\ Guest
    /\ wait_word' = v
    /\ UNCHANGED <<cpu, bios_wait_flags, waiter, cnt, imm>>
    /\ Stay

\* The store that starts a transfer does not leave guest code.
SetDmaCntNoBreakout(c, v) ==
    LET starts == ~cnt[c].enable /\ v.enable /\ v.mode = "imm"
    IN /\ Guest
       /\ cnt' = [cnt EXCEPT ![c] = v]
       /\ imm' = imm \cup (IF starts THEN {DmaEvent(c)} ELSE {})
       /\ UNCHANGED <<cpu, bios>>
       /\ Stay

\* dma_set_cnt: a channel that becomes enabled in immediate mode is scheduled
\* and the store breaks out of guest code.
SetDmaCnt(c, v) ==
    LET starts == ~cnt[c].enable /\ v.enable /\ v.mode = "imm"
    IN /\ Guest
       /\ cnt' = [cnt EXCEPT ![c] = v]
       /\ imm' = imm \cup (IF starts THEN {DmaEvent(c)} ELSE {})
       /\ UNCHANGED <<cpu, bios>>
       /\ IF starts THEN Leave ELSE Stay

\* check_wait_flags for the flags w: takes the flag, or halts.
CheckWaitFlags(w) ==
    IF wait_word \cap w # {}
    THEN wait_word' = wait_word \ w /\ bios_wait_flags' = {} /\ UNCHANGED halt
    ELSE bios_wait_flags' = w /\ halt' = TRUE /\ UNCHANGED wait_word

\* swi Halt.
SwiHalt ==
    /\ Guest
    /\ halt' = TRUE
    /\ UNCHANGED <<ime, ie, irf, irq_disable, depth, cnt, imm, bios>>
    /\ Leave

\* swi IntrWait and VBlankIntrWait: interrupt_wait with or without discarding
\* the flags that are already there.
InterruptWait(discard, w) ==
    /\ Guest
    /\ IF discard
       THEN /\ wait_word' = wait_word \ w
            /\ bios_wait_flags' = w
            /\ halt' = TRUE
       ELSE CheckWaitFlags(w)
    /\ waiter' = IF halt' /\ ime /\ ~irq_disable THEN depth ELSE NoWaiter
    /\ UNCHANGED <<ime, ie, irf, irq_disable, depth, cnt, imm>>
    /\ IF halt' THEN Leave ELSE Stay

\* The return of a handler that forgets the waiting IntrWait call.
UninterruptNoCheck ==
    /\ Guest
    /\ depth > 0
    /\ depth' = depth - 1
    /\ irq_disable' = FALSE
    /\ UNCHANGED <<ime, ie, irf, cnt, bios, halt>>
    /\ CheckForInterrupt(imm)
    /\ IF halt' THEN Leave ELSE Stay

\* The handler returns through the magic link register: hle_bios_uninterrupt.
\* The saved status had interrupts enabled, or the interrupt was not taken.
Uninterrupt ==
    /\ Guest
    /\ depth > 0
    /\ depth' = depth - 1
    /\ irq_disable' = FALSE
    /\ IF bios_wait_flags # {}
       THEN CheckWaitFlags(bios_wait_flags)
       ELSE UNCHANGED <<bios_wait_flags, wait_word, halt>>
    /\ UNCHANGED <<ime, ie, irf, cnt, waiter>>
    /\ CheckForInterrupt(imm)
    /\ IF halt' THEN Leave ELSE Stay

\* The quantum is used up, or the guest sits in an idle loop.
EndSlice(i) ==
    /\ Guest
    /\ idle' = i
    /\ pc' = "left" /\ due' \in BOOLEAN
    /\ UNCHANGED <<cpu, bios, cnt, imm, todo>>

GuestStep ==
    \/ \E v \in BOOLEAN : SetIme(v) \/ SetCpsr(v)
    \/ \E v \in SUBSET Flag : SetIe(v) \/ SetIrf(v)
    \/ \E v \in SUBSET Waited : WriteWaitWord(v)
    \/ SetHaltCnt
    \/ \E c \in Channels, v \in Cnt : SetDmaCnt(c, v)
    \/ SwiHalt
    \/ \E d \in BOOLEAN, w \in (SUBSET Waited) \ {{}} : InterruptWait(d, w)
    \/ Uninterrupt

-----------------------------------------------------------------------------
(* The loop of the cpu thread.                                             *)

\* Enter guest code unless the cpu is halted or idles.
Execute ==
    /\ pc = "loop" /\ ~halt /\ ~idle
    /\ pc' = "guest"
    /\ UNCHANGED <<cpu, bios, cnt, imm, loop>>

\* No cycles: the clock jumps to the next event, which is then due.
JumpToNextEvent ==
    /\ pc = "loop" /\ (halt \/ idle)
    /\ pc' = "left" /\ due' = TRUE
    /\ UNCHANGED <<cpu, bios, cnt, imm, todo, idle>>

\* cm_check_events: the mask is copied and cleared before the dispatch.
BeginDrain ==
    /\ pc = "left"
    /\ pc' = "drain"
    /\ todo' = imm /\ imm' = {}
    /\ UNCHANGED <<cpu, bios, cnt, due, idle>>

\* cpu_on_interrupt_event: the condition is looked at again.
OnInterruptEvent ==
    /\ todo # {} /\ Min(todo) = CpuInterrupt
    /\ todo' = todo \ {CpuInterrupt}
    /\ IF Deliverable
       THEN irq_disable' = TRUE /\ depth' = depth + 1 /\ halt' = FALSE
       ELSE UNCHANGED <<irq_disable, depth, halt>>
    /\ UNCHANGED <<ime, ie, irf, bios, cnt, imm, pc, due, idle>>

\* dma_on_event: the transfer itself, then repeat or disable, then the interrupt.
OnDmaEvent(c) ==
    /\ todo # {} /\ Min(todo) = DmaEvent(c)
    /\ todo' = todo \ {DmaEvent(c)}
    /\ cnt' = [cnt EXCEPT ![c].enable =
                  @ /\ cnt[c].repeat /\ cnt[c].mode # "imm"]
    /\ SendInterrupt(IF cnt[c].irq THEN {DmaFlag(c)} ELSE {}, imm)
    /\ UNCHANGED <<ime, ie, irq_disable, depth, bios_wait_flags, wait_word,
                   pc, due, idle>>

DispatchImm == OnInterruptEvent \/ \E c \in Channels : OnDmaEvent(c)

\* Nothing timed is due: back to the guest.  What the drain scheduled waits.
EndDrain ==
    /\ pc = "drain" /\ todo = {}
    /\ pc' = IF due THEN "events" ELSE "loop"
    /\ UNCHANGED <<cpu, bios, cnt, imm, loop>>

\* A timed event: its source may raise its line and triggers transfers.
TimedEvent(l, on) ==
    /\ pc = "events"
    /\ SendInterrupt(IF on THEN {l} ELSE {}, imm \cup Triggered(ModeOf(l)))
    /\ UNCHANGED <<ime, ie, irq_disable, depth, bios_wait_flags, wait_word,
                   cnt, pc, loop>>

\* Events ran: the idle loop is over and the mask is drained a second time.
EndEvents ==
    /\ pc = "events"
    /\ pc' = "drain again"
    /\ idle' = FALSE
    /\ todo' = imm /\ imm' = {}
    /\ UNCHANGED <<cpu, bios, cnt, due>>

EndSecondDrain ==
    /\ pc = "drain again" /\ todo = {}
    /\ pc' = "loop"
    /\ UNCHANGED <<cpu, bios, cnt, imm, loop>>

LoopStep ==
    \/ Execute
    \/ JumpToNextEvent
    \/ BeginDrain
    \/ DispatchImm
    \/ EndDrain
    \/ EndEvents
    \/ EndSecondDrain

Next ==
    \/ GuestStep
    \/ \E i \in BOOLEAN : EndSlice(i)
    \/ LoopStep
    \/ \E l \in Lines, on \in BOOLEAN : TimedEvent(l, on)

Spec == Init /\ [][Next]_vars

\* The quantum ends every slice, the loop goes on, and the display and the
\* timers keep raising the lines the guest enabled.
FairSpec ==
    /\ Spec
    /\ WF_vars(\E i \in BOOLEAN : EndSlice(i))
    /\ WF_vars(LoopStep)
    /\ \A l \in Lines : SF_vars(TimedEvent(l, TRUE))

-----------------------------------------------------------------------------
(* Properties.                                                             *)

\* An interrupt the cpu must take has its event in the mask or in the drain
\* that is running, whichever write (IME, IE, the I bit, a new request) made
\* it deliverable (cpu_regs.rs cpu_check_for_interrupt and its callers).
NoLostInterrupt == Deliverable => CpuInterrupt \in imm \cup todo

\* Guest code after an IntrWait call runs only once a flag it waited for was
\* there, through any nesting of handlers, unless the guest itself turned
\* interrupts off while it waited (bios.rs uninterrupt, check_wait_flags).
WaitEndsOnFlag == Guest /\ depth = waiter /\ ~halt => bios_wait_flags = {}

\* A transfer that was triggered runs before the guest can reprogram its
\* channel: a scheduled channel is an enabled one (dma.rs dma_on_event does
\* not look at the enable bit again).
ScheduledIsArmed ==
    \A c \in Channels : DmaEvent(c) \in imm \cup todo => cnt[c].enable

\* Why they hold: outside of a drain nothing is taken out of the mask but not
\* dispatched, and transfers are scheduled only where no guest code follows
\* before the drain.
DrainPlaces ==
    /\ pc \notin {"drain", "drain again"} => todo = {}
    /\ pc \notin {"left", "events"} => imm \subseteq {CpuInterrupt}

\* With interrupts enabled there is room for one more handler.
Nesting == irq_disable \/ depth < MaxDepth

\* An IntrWait call whose flag has not come is waited in: either a handler runs
\* above it, or the cpu is halted and not in guest code.
WaitPlace ==
    waiter # NoWaiter /\ bios_wait_flags # {} =>
        /\ waiter <= depth
        /\ depth = waiter => halt /\ ~Guest

IrqInv ==
    /\ TypeOK /\ DrainPlaces /\ Nesting
    /\ NoLostInterrupt /\ ScheduledIsArmed /\ WaitPlace

\* A halted cpu with a source enabled wakes up, also when it was halted with a
\* request already pending or with interrupts masked (cpu_send_interrupt).
Wakes == (pc = "loop" /\ halt /\ ie \cap Lines # {}) ~> ~halt

=============================================================================
