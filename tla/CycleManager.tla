---------------------------- MODULE CycleManager ----------------------------
(***************************************************************************)
(* The event scheduler (src/core/cycle_manager.rs) with the devices that   *)
(* live on it: the display's line events (gpu.rs), the sample event        *)
(* (apu.rs) and the timers (timers.rs), and the loop of the cpu thread     *)
(* that drives it (execute_jit in lib.rs).                                 *)
(*                                                                         *)
(* The clock is a word of width MAX+1 (u32 in the code) that is rebased to *)
(* zero once it has passed HALF (2^31 - 1).  Guest code is abstracted to   *)
(* the cycles a slice takes and the device registers it touches.           *)
(***************************************************************************)
EXTENDS Integers, FiniteSets, FiniteSetsExt

CONSTANTS
    MAX,            \* u32::MAX
    HALF,           \* 0x7FFFFFFF: a clock past it is rebased
    HDRAW, HBLANK,  \* HDRAW_CYCLES, HBLANK_CYCLES
    SAMPLE,         \* CYCLES_PER_SAMPLE
    Timers,         \* the timer channels in use, a prefix of 0..3
    TIME_OVERFLOW,  \* 0x10000: what a timer counts to
    Reloads,        \* reload values the guest writes
    Shifts,         \* prescaler shifts the guest selects
    MaxSlice,       \* bound: cycles of one slice of guest code
    MaxClock,       \* bound: no slice takes the clock past it
    ImmEvent,       \* immediate events that occur (0: interrupt, 1: dma)
    Saves,          \* does the player take and load savestates
    BootLoads       \* may a session start from a savestate

ASSUME ClockAssumption ==
    /\ MAX \in Nat /\ HALF \in Nat /\ HALF < MAX
    /\ MaxSlice \in Nat \ {0} /\ MaxClock \in Nat
ASSUME PeriodAssumption ==
    /\ HDRAW \in Nat \ {0} /\ HBLANK \in Nat \ {0} /\ SAMPLE \in Nat \ {0}
    /\ TIME_OVERFLOW \in Nat \ {0}
    /\ Timers \subseteq 0 .. 3
    /\ Reloads \subseteq 0 .. TIME_OVERFLOW - 1 /\ Shifts \subseteq Nat
    /\ ImmEvent \subseteq {0, 1} /\ Saves \in BOOLEAN /\ BootLoads \in BOOLEAN
\* Nothing that is scheduled while the clock is within its bound saturates.
ASSUME MarginAssumption ==
    /\ MaxClock + HDRAW <= MAX /\ MaxClock + HBLANK <= MAX /\ MaxClock + SAMPLE <= MAX
    /\ \A s \in Shifts \cup {0} :
          2 ^ s \in Nat \ {0} /\ MaxClock + TIME_OVERFLOW * 2 ^ s <= MAX

\* EventType: a lower number wins a tie.
GpuScanline240 == 0
GpuScanline308 == 1
Timer(t) == 2 + t
ApuSample == 6
Event == {GpuScanline240, GpuScanline308, ApuSample} \cup {Timer(t) : t \in Timers}

\* ImmEventType, with one dma channel.
CpuInterrupt == 0
Dma == 1

VARIABLES
    cycle_count, events, next_event_cycle, active_events, active_imm_events,
    current_event_due, \* valid only inside a handler, zero outside
    timers,    \* channel -> TimerChannel record
    pc,        \* where the cpu thread is
    pass,      \* which of execute_jit's two calls of cm_check_events runs
    immLeft,   \* the copied mask of immediate events being drained
    chan,      \* in a handler: the channel timers_overflow is in
    saved,     \* the savestate on disk, or {}
    booted,    \* history: has a session been started from it
    epoch,     \* history: cycles rebased away, modulo the display and sample grids
    last,      \* history: due cycle and number of the batch's last event, or <<>>
    toggled    \* history: channels whose count_up bit changed while they ran

cmVars == <<cycle_count, events, next_event_cycle, active_events, active_imm_events>>
vars == <<cycle_count, events, next_event_cycle, active_events, active_imm_events,
          current_event_due, timers, pc, pass, immLeft, chan, saved, booted, epoch, last, toggled>>

GRID == (HDRAW + HBLANK) * SAMPLE

Lesser(a, b) == IF a < b THEN a ELSE b
SatAdd(a, b) == Lesser(a + b, MAX)

TimerOff == [start |-> FALSE, count_up |-> FALSE, cnt_l |-> 0, value |-> 0,
             shift |-> 0, scheduled |-> 0]

IsCountUp(t, c) == t # 0 /\ c.count_up
Running(t) == timers[t].start /\ ~IsCountUp(t, timers[t])

\* Cycles from the current value to the overflow.
Remaining(c) == (TIME_OVERFLOW - c.value) * 2 ^ c.shift

\* run_cpu: the first display and sample events.
Init ==
    /\ cycle_count = 0
    /\ events = [e \in Event |-> CASE e = GpuScanline240 -> HDRAW
                                   [] e = ApuSample -> SAMPLE
                                   [] OTHER -> 0]
    /\ active_events = {GpuScanline240, ApuSample}
    /\ next_event_cycle = Lesser(HDRAW, SAMPLE)
    /\ active_imm_events = {} /\ current_event_due = 0
    /\ timers = [t \in Timers |-> TimerOff]
    /\ pc = "guest" /\ pass = 1 /\ immLeft = {} /\ chan = 0
    /\ saved = {} /\ booted = FALSE /\ epoch = 0 /\ last = <<>> /\ toggled = {}

-----------------------------------------------------------------------------
(* Scheduling.                                                             *)

\* Mutant: the next event is left as it was.
PutOnly(e, at) ==
    /\ events' = [events EXCEPT ![e] = at]
    /\ active_events' = active_events \cup {e}
    /\ UNCHANGED next_event_cycle

Put(e, at) ==
    /\ events' = [events EXCEPT ![e] = at]
    /\ active_events' = active_events \cup {e}
    /\ next_event_cycle' = Lesser(next_event_cycle, at)

Schedule(in, e) == Put(e, SatAdd(cycle_count, IF in < 1 THEN 1 ELSE in))

\* From the due cycle of the event in dispatch, not from the overshot clock.
FromDue(in) == SatAdd(current_event_due, in)
ScheduleFromDue(in, e) == Put(e, FromDue(in))

-----------------------------------------------------------------------------
(* Timer registers, written by guest code or by a dma transfer.            *)

Accessing == pc \in {"guest", "dma"}

SetCntL(t, v) ==
    /\ Accessing
    /\ timers' = [timers EXCEPT ![t].cnt_l = v]
    /\ UNCHANGED <<cmVars, current_event_due, pc, pass, immLeft, chan, saved, booted, epoch, last, toggled>>

\* Reading the counter refreshes current_value.
GetCntL(t) ==
    /\ Accessing /\ Running(t)
    /\ LET diff == (timers[t].scheduled - cycle_count) % (MAX + 1)
       IN timers' = [timers EXCEPT ![t].value =
                        (TIME_OVERFLOW - diff \div 2 ^ timers[t].shift) % TIME_OVERFLOW]
    /\ UNCHANGED <<cmVars, current_event_due, pc, pass, immLeft, chan, saved, booted, epoch, last, toggled>>

\* What a write of CNT_H leaves in the channel before any rescheduling, and
\* whether it reschedules: a start edge reloads, a new prescaler re-anchors.
WithCntH(t, start, up, shift) ==
    LET c == timers[t]
        sh == IF t # 0 /\ up THEN 0 ELSE shift
    IN [c EXCEPT !.start = start, !.count_up = up, !.shift = sh,
                 !.value = IF ~c.start /\ start THEN c.cnt_l ELSE @]

Updates(t, c) == (~timers[t].start /\ c.start) \/ timers[t].shift # c.shift

SetCntH(t, start, up, shift) ==
    LET c == WithCntH(t, start, up, shift)
        update == Updates(t, c) /\ start /\ ~IsCountUp(t, c)
    IN /\ Accessing
       /\ timers' = [timers EXCEPT ![t] =
                        IF update THEN [c EXCEPT !.scheduled = cycle_count + Remaining(c)]
                        ELSE c]
       /\ IF update THEN Schedule(Remaining(c), Timer(t))
          ELSE UNCHANGED <<events, active_events, next_event_cycle>>
       /\ toggled' = IF ~start \/ ~timers[t].start THEN toggled \ {t}
                     ELSE IF t # 0 /\ up # timers[t].count_up THEN toggled \cup {t} ELSE toggled
       /\ UNCHANGED <<cycle_count, active_imm_events, current_event_due, pc, pass, immLeft,
                      chan, saved, booted, epoch, last>>

-----------------------------------------------------------------------------
(* execute_jit: a slice of guest code, then the events.                    *)

\* The guest enables a pending interrupt or starts an immediate transfer.
ScheduleImm(i) ==
    /\ pc = "guest"
    /\ active_imm_events' = active_imm_events \cup {i}
    /\ UNCHANGED <<cycle_count, events, next_event_cycle, active_events, current_event_due,
                   timers, pc, pass, immLeft, chan, saved, booted, epoch, last, toggled>>

\* cm_check_events starts: take the immediate mask.
EnterCheck(n) ==
    /\ pc' = "imm" /\ pass' = n
    /\ immLeft' = active_imm_events
    /\ active_imm_events' = {}

\* add_cycles: the slice overshoots whatever fell due in it.
Execute(c) ==
    /\ pc = "guest" /\ cycle_count + c <= MaxClock
    /\ cycle_count' = cycle_count + c
    /\ EnterCheck(1)
    /\ UNCHANGED <<events, next_event_cycle, active_events, current_event_due, timers,
                   chan, saved, booted, epoch, last, toggled>>

\* Halted, or in an idle loop: no slice, the clock jumps to the next event.
JumpToNextEvent ==
    /\ pc = "guest" /\ next_event_cycle <= MaxClock
    /\ cycle_count' = IF next_event_cycle > cycle_count THEN next_event_cycle ELSE cycle_count
    /\ EnterCheck(1)
    /\ UNCHANGED <<events, next_event_cycle, active_events, current_event_due, timers,
                   chan, saved, booted, epoch, last, toggled>>

\* Immediate events run in index order; an interrupt leaves the scheduler
\* alone, a transfer may touch any register.
DrainImm(i) ==
    /\ pc = "imm" /\ i \in immLeft /\ \A j \in immLeft : i <= j
    /\ immLeft' = immLeft \ {i}
    /\ pc' = IF i = Dma THEN "dma" ELSE "imm"
    /\ UNCHANGED <<cmVars, current_event_due, timers, pass, chan, saved, booted, epoch, last, toggled>>

\* The transfer ends, perhaps with an interrupt request.
DmaEnd ==
    /\ pc = "dma"
    /\ \E raised \in SUBSET (ImmEvent \ {Dma}) :
          active_imm_events' = active_imm_events \cup raised
    /\ pc' = "imm"
    /\ UNCHANGED <<cycle_count, events, next_event_cycle, active_events, current_event_due,
                   timers, pass, immLeft, chan, saved, booted, epoch, last, toggled>>

\* The fast return: nothing is due before next_event_cycle.
ReturnFalse ==
    /\ pc = "imm" /\ immLeft = {}
    /\ cycle_count < next_event_cycle
    /\ pc' = IF pass = 1 THEN "guest" ELSE "resume"
    /\ UNCHANGED <<cmVars, current_event_due, timers, pass, immLeft, chan, saved, booted, epoch, last, toggled>>

StartBatch ==
    /\ pc = "imm" /\ immLeft = {}
    /\ cycle_count >= next_event_cycle
    /\ next_event_cycle' = MAX
    /\ last' = <<>>
    /\ pc' = "dispatch"
    /\ UNCHANGED <<cycle_count, events, active_events, active_imm_events, current_event_due,
                   timers, pass, immLeft, chan, saved, booted, epoch, toggled>>

\* Mutant: an event due this very cycle waits.
IsDueStrict(e) == e \in active_events /\ events[e] < cycle_count

IsDue(e) == e \in active_events /\ events[e] <= cycle_count /\ events[e] < MAX

\* Mutant: table order.
ComesFirstByIndex(e) == \A f \in Event : IsDue(f) => e <= f

\* Due-cycle order, ties by table index.
ComesFirst(e) ==
    \A f \in Event : IsDue(f) =>
        events[e] < events[f] \/ (events[e] = events[f] /\ e <= f)

\* Take the earliest due event; its handler is the next step.  The due slot
\* of an inactive event is never read again: it is kept at zero.
Dispatch(e) ==
    /\ pc = "dispatch" /\ IsDue(e) /\ ComesFirst(e)
    /\ active_events' = active_events \ {e}
    /\ current_event_due' = events[e]
    /\ last' = <<events[e], e>>
    /\ \/ e = GpuScanline240 /\ pc' = "line240" /\ UNCHANGED chan
       \/ e = GpuScanline308 /\ pc' = "line308" /\ UNCHANGED chan
       \/ e = ApuSample /\ pc' = "sample" /\ UNCHANGED chan
       \/ \E t \in Timers : e = Timer(t) /\ pc' = "overflow" /\ chan' = t
    /\ events' = [events EXCEPT ![e] = 0]
    /\ UNCHANGED <<cycle_count, next_event_cycle, active_imm_events, timers, pass,
                   immLeft, saved, booted, epoch, toggled>>

\* gpu_on_scanline240_event: hblank transfers and interrupts, then the line end.
Scanline240 ==
    /\ pc = "line240"
    /\ \E raised \in SUBSET ImmEvent : active_imm_events' = active_imm_events \cup raised
    /\ ScheduleFromDue(HBLANK, GpuScanline308)
    /\ pc' = "dispatch"
    /\ UNCHANGED <<cycle_count, current_event_due, timers, pass, immLeft, chan, saved, booted, epoch,
                   last, toggled>>

\* gpu_on_scanline308_event: the next line, and at vblank the savestate hook.
Scanline308 ==
    /\ pc = "line308"
    /\ \E raised \in SUBSET ImmEvent : active_imm_events' = active_imm_events \cup raised
    /\ ScheduleFromDue(HDRAW, GpuScanline240)
    /\ \/ pc' = "dispatch"
       \/ Saves /\ pc' = "hook"
    /\ UNCHANGED <<cycle_count, current_event_due, timers, pass, immLeft, chan, saved, booted, epoch,
                   last, toggled>>

SampleEvent ==
    /\ pc = "sample"
    /\ ScheduleFromDue(SAMPLE, ApuSample)
    /\ pc' = "dispatch"
    /\ UNCHANGED <<cycle_count, active_imm_events, current_event_due, timers, pass, immLeft,
                   chan, saved, booted, epoch, last, toggled>>

\* timers_overflow of channel chan: reload, reschedule, interrupt, sound fifo,
\* and the carry into the next channel that the code takes on count_up.
TimersOverflow ==
    /\ pc = "overflow"
    /\ LET c == [timers[chan] EXCEPT !.value = timers[chan].cnt_l]
           carried == (c.value + 1) % TIME_OVERFLOW
           carries == chan < 3 /\ c.count_up
       IN \/ /\ ~timers[chan].start
             /\ pc' = "dispatch"
             /\ UNCHANGED <<events, next_event_cycle, active_events, active_imm_events, timers, chan>>
          \/ /\ timers[chan].start
             /\ \E raised \in SUBSET (IF chan < 2 THEN ImmEvent ELSE ImmEvent \ {Dma}) :
                   active_imm_events' = active_imm_events \cup raised
             /\ IF IsCountUp(chan, c)
                THEN UNCHANGED <<events, next_event_cycle, active_events>>
                ELSE ScheduleFromDue(Remaining(c), Timer(chan))
             /\ timers' = [timers EXCEPT ![chan] =
                              [c EXCEPT !.value = IF carries THEN carried ELSE @,
                                        !.scheduled = IF IsCountUp(chan, c) THEN @
                                                      ELSE FromDue(Remaining(c))]]
             /\ IF carries /\ carried = 0 /\ chan + 1 \in Timers
                THEN chan' = chan + 1 /\ UNCHANGED pc
                ELSE pc' = "dispatch" /\ UNCHANGED chan
    /\ UNCHANGED <<cycle_count, current_event_due, pass, immLeft, saved, booted, epoch, last, toggled>>

\* What a savestate holds of the scheduler; current_event_due is skipped.
Snapshot ==
    [cycle_count |-> cycle_count, events |-> events, next |-> next_event_cycle,
     active |-> active_events, imm |-> active_imm_events, timers |-> timers,
     epoch |-> epoch, toggled |-> toggled]

\* Mutant: a field is left out of the walk.
RestoreKeepsEvents(s) ==
    /\ cycle_count' = s.cycle_count /\ UNCHANGED events /\ next_event_cycle' = s.next
    /\ active_events' = s.active /\ active_imm_events' = s.imm /\ timers' = s.timers
    /\ epoch' = s.epoch /\ toggled' = s.toggled /\ last' = <<>>

Restore(s) ==
    /\ cycle_count' = s.cycle_count /\ events' = s.events /\ next_event_cycle' = s.next
    /\ active_events' = s.active /\ active_imm_events' = s.imm /\ timers' = s.timers
    /\ epoch' = s.epoch /\ toggled' = s.toggled /\ last' = <<>>

SaveState ==
    /\ pc = "hook"
    /\ saved' = {Snapshot} /\ UNCHANGED booted
    /\ pc' = "dispatch"
    /\ UNCHANGED <<cmVars, current_event_due, timers, pass, immLeft, chan, epoch, last, toggled>>

LoadState ==
    /\ pc = "hook"
    /\ \E s \in saved : Restore(s)
    /\ pc' = "dispatch"
    /\ UNCHANGED <<current_event_due, pass, immLeft, chan, saved, booted>>

EarliestFrom(n, A) == Min({n} \cup {events[e] : e \in A})

\* Mutant: the timers keep their absolute cycle.
RebasedTimersKept(t) == timers[t]
RebasedTimers(t) ==
    [timers[t] EXCEPT !.scheduled = IF @ < cycle_count THEN 0 ELSE @ - cycle_count]

\* cm_on_overflow_event, in the release build's wrapping arithmetic.
Rebase(next) ==
    /\ events' = [e \in Event |-> IF e \in active_events
                                  THEN (events[e] - cycle_count) % (MAX + 1) ELSE events[e]]
    /\ next_event_cycle' = (next - cycle_count) % (MAX + 1)
    /\ timers' = [t \in Timers |-> RebasedTimers(t)]
    /\ epoch' = (epoch + cycle_count) % GRID
    /\ cycle_count' = 0

PastHalf == cycle_count > HALF

\* Nothing is due any more: recompute the next event, rebase, and either run
\* the second check or give the guest its slice.
EndBatch ==
    /\ pc = "dispatch" /\ \A e \in Event : ~IsDue(e)
    /\ IF PastHalf
       THEN Rebase(EarliestFrom(next_event_cycle, active_events))
       ELSE /\ next_event_cycle' = EarliestFrom(next_event_cycle, active_events)
            /\ UNCHANGED <<cycle_count, events, timers, epoch>>
    /\ last' = <<>>
    /\ IF pass = 1
       THEN EnterCheck(2)
       ELSE pc' = "resume" /\ UNCHANGED <<pass, immLeft, active_imm_events>>
    /\ current_event_due' = 0 /\ chan' = 0
    /\ UNCHANGED <<active_events, saved, booted, toggled>>

\* Back round execute_jit's loop.
Resume ==
    /\ pc = "resume"
    /\ pc' = "guest" /\ pass' = 1
    /\ UNCHANGED <<cmVars, current_event_due, timers, immLeft, chan, saved, booted, epoch, last, toggled>>

\* The session ends and the next one starts from the savestate (run_cpu).
BootLoad ==
    /\ BootLoads /\ pc = "guest"
    /\ \E s \in saved : Restore(s)
    /\ current_event_due' = 0 /\ booted' = TRUE
    /\ UNCHANGED <<pc, pass, immLeft, chan, saved>>

-----------------------------------------------------------------------------
GuestAccess ==
    \E t \in Timers :
        \/ \E v \in Reloads : SetCntL(t, v)
        \/ GetCntL(t)
        \/ \E start, up \in BOOLEAN, shift \in Shifts : SetCntH(t, start, up, shift)

Slice == (\E c \in 1 .. MaxSlice : Execute(c)) \/ JumpToNextEvent

CheckEvents ==
    \/ \E i \in ImmEvent : DrainImm(i)
    \/ DmaEnd \/ ReturnFalse \/ StartBatch
    \/ \E e \in Event : Dispatch(e)
    \/ Scanline240 \/ Scanline308 \/ SampleEvent \/ TimersOverflow
    \/ SaveState \/ LoadState \/ EndBatch \/ Resume

Next ==
    \/ GuestAccess
    \/ \E i \in ImmEvent : ScheduleImm(i)
    \/ Slice
    \/ CheckEvents
    \/ BootLoad

Spec == Init /\ [][Next]_vars

\* One thread, which never blocks here: it goes on taking slices and events.
FairSpec == Spec /\ WF_vars(Slice) /\ WF_vars(CheckEvents)

-----------------------------------------------------------------------------
(* Properties.                                                             *)

\* Whenever guest code runs, next_event_cycle lies ahead and no active event
\* falls due before it: the fast return of cm_check_events never skips one and
\* jump_to_next_event never overshoots one.  Sessions started from a savestate
\* are left out: run_cpu restores a next_event_cycle saved in mid-batch.
NextEventSound ==
    pc \in {"guest", "resume"} /\ ~booted =>
        /\ cycle_count < next_event_cycle
        /\ \A e \in active_events : next_event_cycle <= events[e]

\* The display lines and the samples stay on their grids: however far slices
\* overshoot, and across rebases and loads, every due cycle is a whole number
\* of periods from the start, and the chain of line events is never cut.
GridExact ==
    /\ GpuScanline240 \in active_events =>
           (epoch + events[GpuScanline240] - HDRAW) % (HDRAW + HBLANK) = 0
    /\ GpuScanline308 \in active_events =>
           (epoch + events[GpuScanline308]) % (HDRAW + HBLANK) = 0
    /\ ApuSample \in active_events => (epoch + events[ApuSample]) % SAMPLE = 0
    /\ pc = "guest" =>
           /\ ApuSample \in active_events
           /\ GpuScanline240 \in active_events <=> GpuScanline308 \notin active_events

\* A running timer's event is scheduled for exactly the cycle its counter is
\* read against, across stops, restarts, new prescalers, rebases and loads
\* (unless its cascade bit was changed while it ran).
TimerOnTime ==
    pc = "guest" =>
        \A t \in Timers \ toggled : Running(t) =>
            Timer(t) \in active_events /\ events[Timer(t)] = timers[t].scheduled

\* Within a batch, events are dispatched in due-cycle order and ties in table
\* order, including those that reschedule themselves into the batch.
DueOrder ==
    [][last # <<>> /\ last' # <<>> /\ last' # last =>
          \/ last[1] < last'[1]
          \/ last[1] = last'[1] /\ last[2] < last'[2]]_vars

\* The display never stops: a halted or busy guest reaches line end after
\* line end.
LinesAdvance == []<>(pc = "line308")

=============================================================================
