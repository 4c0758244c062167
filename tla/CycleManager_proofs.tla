------------------------ MODULE CycleManager_proofs ------------------------
(***************************************************************************)
(* The scheduler for every clock width, period, prescaler and length of a  *)
(* slice: the display and the samples stay on their grids, timers overflow *)
(* when they are read to, batches run in due order, and the cached next    *)
(* event is never late.                                                    *)
(***************************************************************************)
EXTENDS CycleManager, WellFoundedInduction, TLAPS

-----------------------------------------------------------------------------
(* The arithmetic of %.                                                     *)

\* Division with remainder.
LEMMA ModDef ==
    ASSUME NEW N \in Nat \ {0}, NEW k \in Int
    PROVE  /\ k = N * (k \div N) + (k % N)
           /\ k \div N \in Int
           /\ k % N \in 0 .. N - 1
  OBVIOUS

\* A positive multiple of N is at least N.
LEMMA MultipleBound ==
    ASSUME NEW N \in Nat \ {0}, NEW d \in Int, d >= 1
    PROVE  N * d >= N
  OBVIOUS

\* Quotients of remainders in range agree, and so do the remainders.
LEMMA RemainderUnique ==
    ASSUME NEW N \in Nat \ {0}, NEW p \in Int, NEW q \in Int,
           NEW r \in 0 .. N - 1, NEW s \in 0 .. N - 1,
           N * p + r = N * q + s
    PROVE  r = s
<1>1. r - s = N * q - N * p /\ N * q - N * p = N * (q - p)
  OBVIOUS
<1>2. CASE q - p >= 1
  BY <1>1, <1>2, MultipleBound
<1>3. CASE p - q >= 1
  <2>1. N * (p - q) >= N
    BY <1>3, MultipleBound
  <2>2. N * (p - q) = s - r
    BY <1>1
  <2> QED BY <2>1, <2>2
<1>4. CASE p = q
  BY <1>1, <1>4
<1> QED BY <1>2, <1>3, <1>4

\* Any decomposition of m gives its remainder.
LEMMA ModOf ==
    ASSUME NEW N \in Nat \ {0}, NEW m \in Int, NEW q \in Int, NEW r \in 0 .. N - 1,
           m = N * q + r
    PROVE  m % N = r
<1> DEFINE b == m \div N
           t == m % N
<1>1. m = N * b + t /\ b \in Int /\ t \in 0 .. N - 1
  BY ModDef
<1>2. N * b + t = N * q + r
  BY <1>1
<1> HIDE DEF b, t
<1>3. t = r
  BY <1>1, <1>2, RemainderUnique
<1> QED BY <1>3 DEF t

-----------------------------------------------------------------------------
(* Types.                                                                  *)

Channel ==
    [start : BOOLEAN, count_up : BOOLEAN, cnt_l : Reloads \cup {0},
     value : 0 .. TIME_OVERFLOW - 1, shift : Shifts \cup {0}, scheduled : Nat]

\* The scheduler part of the state, now or in a savestate.
Shape(cc, ev, act, nx, tm, ep, tg) ==
    /\ cc \in 0 .. MaxClock
    /\ ev \in [Event -> 0 .. MAX] /\ act \in SUBSET Event /\ nx \in 0 .. MAX
    /\ tm \in [Timers -> Channel]
    /\ ep \in Nat /\ tg \in SUBSET Timers

Handling == pc \in {"line240", "line308", "sample", "overflow"}
InBatch == pc \in {"dispatch", "line240", "line308", "sample", "overflow", "hook"}

TypeInv ==
    /\ Shape(cycle_count, events, active_events, next_event_cycle, timers, epoch, toggled)
    /\ pc \in {"guest", "imm", "dma", "dispatch", "line240", "line308", "sample",
               "overflow", "hook", "resume"}
    /\ pass \in {1, 2} /\ booted \in BOOLEAN
    /\ Handling => current_event_due \in 0 .. cycle_count
    /\ pc = "overflow" => chan \in Timers
    /\ \A s \in saved :
          Shape(s.cycle_count, s.events, s.active, s.next, s.timers, s.epoch, s.toggled)

\* The constants, without the powers.
LEMMA Constants ==
    /\ MAX \in Nat /\ HALF \in Nat /\ MaxClock \in Nat /\ MaxClock < MAX
    /\ MaxSlice \in Nat /\ MaxSlice >= 1
    /\ HDRAW \in Nat /\ HDRAW >= 1 /\ MaxClock + HDRAW <= MAX
    /\ HBLANK \in Nat /\ HBLANK >= 1 /\ MaxClock + HBLANK <= MAX
    /\ SAMPLE \in Nat /\ SAMPLE >= 1 /\ MaxClock + SAMPLE <= MAX
    /\ TIME_OVERFLOW \in Nat /\ TIME_OVERFLOW >= 1
  BY ClockAssumption, PeriodAssumption, MarginAssumption

\* The events are distinct numbers.
LEMMA Numbers ==
    /\ GpuScanline240 \in Event /\ GpuScanline308 \in Event /\ ApuSample \in Event
    /\ \A e \in Event : e \in 0 .. 6
    /\ \A t \in Timers :
          /\ t \in 0 .. 3 /\ Timer(t) \in Event
          /\ Timer(t) # GpuScanline240 /\ Timer(t) # GpuScanline308 /\ Timer(t) # ApuSample
    /\ \A t, u \in Timers : Timer(t) = Timer(u) => t = u
    /\ GpuScanline240 # GpuScanline308 /\ GpuScanline240 # ApuSample
    /\ GpuScanline308 # ApuSample
<1> USE DEF Timer, GpuScanline240, GpuScanline308, ApuSample
<1>1. \A t \in Timers : t \in 0 .. 3
  BY PeriodAssumption
<1>2. \A t \in Timers : Timer(t) \in Event /\ Timer(t) \in 2 .. 5
  BY <1>1 DEF Event
<1>3. \A e \in Event : e \in 0 .. 6
  BY <1>2 DEF Event
<1>4. \A t, u \in Timers : Timer(t) = Timer(u) => t = u
  BY <1>1
<1>5. GpuScanline240 \in Event /\ GpuScanline308 \in Event /\ ApuSample \in Event
  BY DEF Event
<1> QED BY <1>1, <1>2, <1>3, <1>4, <1>5

\* A timer's period is at least a cycle and fits above the clock.
LEMMA Period ==
    ASSUME NEW c, c.value \in 0 .. TIME_OVERFLOW - 1, c.shift \in Shifts \cup {0}
    PROVE  Remaining(c) \in Nat /\ Remaining(c) >= 1 /\ MaxClock + Remaining(c) <= MAX
<1>1. TIME_OVERFLOW \in Nat /\ MaxClock \in Nat /\ MAX \in Nat
  BY Constants
<1>2. PICK w \in Nat \ {0} : w = 2 ^ c.shift /\ MaxClock + TIME_OVERFLOW * w <= MAX
  BY MarginAssumption
<1>3. PICK a \in Nat : a = TIME_OVERFLOW - c.value /\ a >= 1 /\ a <= TIME_OVERFLOW
  BY <1>1
<1>4. Remaining(c) = a * w
  BY <1>2, <1>3 DEF Remaining
<1>5. a * w \in Nat /\ a * w >= 1 /\ a * w <= TIME_OVERFLOW * w
  BY <1>1, <1>2, <1>3, SMTT(30)
<1> QED
  BY <1>1, <1>2, <1>4, <1>5

\* A reload value is a counter value.
LEMMA ReloadRange == \A v \in Reloads \cup {0} : v \in 0 .. TIME_OVERFLOW - 1
  BY PeriodAssumption, Constants

\* What Put does.
LEMMA PutFacts ==
    ASSUME TypeInv, NEW e \in Event, NEW at \in 0 .. MAX, Put(e, at)
    PROVE  /\ events' \in [Event -> 0 .. MAX] /\ active_events' \in SUBSET Event
           /\ next_event_cycle' \in 0 .. MAX
           /\ active_events' = active_events \cup {e}
           /\ events'[e] = at /\ \A f \in Event \ {e} : events'[f] = events[f]
           /\ next_event_cycle' <= at /\ next_event_cycle' <= next_event_cycle
           /\ next_event_cycle' \in {at, next_event_cycle}
<1>1. /\ events \in [Event -> 0 .. MAX] /\ active_events \in SUBSET Event
      /\ next_event_cycle \in 0 .. MAX /\ MAX \in Nat
  BY Constants DEF TypeInv, Shape
<1> QED BY <1>1 DEF Put, Lesser

\* From a due cycle, nothing saturates.
LEMMA DueFacts ==
    ASSUME TypeInv, Handling, NEW d \in Nat, d >= 1, MaxClock + d <= MAX
    PROVE  /\ current_event_due \in Nat /\ current_event_due <= cycle_count
           /\ FromDue(d) = current_event_due + d /\ FromDue(d) \in 0 .. MAX
<1>1. /\ cycle_count \in 0 .. MaxClock /\ current_event_due \in 0 .. cycle_count
      /\ MaxClock \in Nat /\ MAX \in Nat
  BY Constants DEF TypeInv, Shape
<1> QED BY <1>1 DEF FromDue, SatAdd, Lesser

\* A write of CNT_H, with and without the rescheduling.
LEMMA CntHCases ==
    ASSUME TypeInv, NEW t \in Timers, NEW start \in BOOLEAN, NEW up \in BOOLEAN,
           NEW shift \in Shifts, SetCntH(t, start, up, shift)
    PROVE  \E c \in Channel :
              /\ timers' = [timers EXCEPT ![t] = c]
              /\ c.start = start /\ c.count_up = up
              /\ c.cnt_l = timers[t].cnt_l
              /\ \/ /\ start /\ ~IsCountUp(t, c)
                    /\ \E d \in Nat : /\ d >= 1 /\ cycle_count + d <= MAX
                                      /\ Put(Timer(t), cycle_count + d)
                                      /\ c.scheduled = cycle_count + d
                 \/ /\ UNCHANGED <<events, active_events, next_event_cycle>>
                    /\ c.scheduled = timers[t].scheduled
                    /\ start /\ ~IsCountUp(t, c) => timers[t].start
<1> DEFINE b == WithCntH(t, start, up, shift)
           update == Updates(t, b) /\ start /\ ~IsCountUp(t, b)
<1>1. /\ timers \in [Timers -> Channel] /\ timers[t] \in Channel
      /\ cycle_count \in 0 .. MaxClock /\ MaxClock \in Nat /\ MAX \in Nat
  BY Constants DEF TypeInv, Shape
<1>2. /\ b \in Channel /\ b.start = start /\ b.count_up = up
      /\ b.cnt_l = timers[t].cnt_l /\ b.scheduled = timers[t].scheduled
  BY <1>1, ReloadRange DEF WithCntH, Channel
<1>3. /\ timers' = [timers EXCEPT ![t] =
                        IF update THEN [b EXCEPT !.scheduled = cycle_count + Remaining(b)]
                        ELSE b]
      /\ IF update THEN Schedule(Remaining(b), Timer(t))
         ELSE UNCHANGED <<events, active_events, next_event_cycle>>
  BY DEF SetCntH
<1>4. Updates(t, b) <=> (~timers[t].start /\ start) \/ timers[t].shift # b.shift
  BY <1>2 DEF Updates
<1>5. IsCountUp(t, b) <=> t # 0 /\ up
  BY <1>2 DEF IsCountUp
<1> HIDE DEF b
<1>6. CASE update
  <2>1. Remaining(b) \in Nat /\ Remaining(b) >= 1 /\ MaxClock + Remaining(b) <= MAX
    BY <1>2, Period DEF Channel
  <2> DEFINE d == Remaining(b)
             c == [b EXCEPT !.scheduled = cycle_count + d]
  <2> HIDE DEF d
  <2>2. d \in Nat /\ d >= 1 /\ cycle_count + d <= MAX
    BY <1>1, <2>1 DEF d
  <2>3. /\ c \in Channel /\ c.start = start /\ c.count_up = up
        /\ c.cnt_l = timers[t].cnt_l /\ c.scheduled = cycle_count + d
    BY <1>1, <1>2, <2>2 DEF Channel
  <2>4. Put(Timer(t), cycle_count + d)
    <3>1. Schedule(d, Timer(t))
      BY <1>3, <1>6 DEF d
    <3>2. SatAdd(cycle_count, IF d < 1 THEN 1 ELSE d) = cycle_count + d
      BY <1>1, <2>2 DEF SatAdd, Lesser
    <3> QED BY <3>1, <3>2 DEF Schedule
  <2>5. timers' = [timers EXCEPT ![t] = c]
    BY <1>3, <1>6 DEF d
  <2>6. start /\ ~IsCountUp(t, c)
    BY <1>5, <1>6, <2>3 DEF IsCountUp
  <2> HIDE DEF c
  <2> QED BY <2>2, <2>3, <2>4, <2>5, <2>6
<1>7. CASE ~update
  <2>1. timers' = [timers EXCEPT ![t] = b]
    BY <1>3, <1>7
  <2>2. start /\ ~IsCountUp(t, b) => timers[t].start
    BY <1>1, <1>4, <1>7 DEF Channel
  <2>3. UNCHANGED <<events, active_events, next_event_cycle>>
    BY <1>3, <1>7
  <2> QED BY <1>2, <2>1, <2>2, <2>3
<1> QED BY <1>6, <1>7

\* An overflow, of a stopped channel and of a running one.
LEMMA OverflowCases ==
    ASSUME TypeInv, TimersOverflow
    PROVE  /\ chan \in Timers /\ pc = "overflow"
           /\ \/ /\ ~timers[chan].start /\ pc' = "dispatch"
                 /\ UNCHANGED <<events, next_event_cycle, active_events, timers, chan>>
              \/ /\ timers[chan].start
                 /\ \E c \in Channel :
                       /\ timers' = [timers EXCEPT ![chan] = c]
                       /\ c.start /\ c.count_up = timers[chan].count_up
                       /\ c.cnt_l = timers[chan].cnt_l
                       /\ \/ /\ IsCountUp(chan, timers[chan])
                             /\ UNCHANGED <<events, next_event_cycle, active_events>>
                          \/ \E d \in Nat :
                                /\ d = Remaining([timers[chan] EXCEPT !.value = timers[chan].cnt_l])
                                /\ d >= 1 /\ MaxClock + d <= MAX
                                /\ Put(Timer(chan), FromDue(d))
                                /\ c.scheduled = FromDue(d)
                 /\ \/ pc' = "overflow" /\ chan' \in Timers /\ chan' # chan
                    \/ pc' = "dispatch" /\ UNCHANGED chan
<1> DEFINE b == [timers[chan] EXCEPT !.value = timers[chan].cnt_l]
           carried == (b.value + 1) % TIME_OVERFLOW
           carries == chan < 3 /\ b.count_up
           c == [b EXCEPT !.value = IF carries THEN carried ELSE @,
                          !.scheduled = IF IsCountUp(chan, b) THEN @ ELSE FromDue(Remaining(b))]
<1>1. pc = "overflow" /\ chan \in Timers /\ Handling
  BY DEF TimersOverflow, TypeInv, Handling
<1>2. CASE ~timers[chan].start
  BY <1>1, <1>2 DEF TimersOverflow
<1>3. CASE timers[chan].start
  <2>1. /\ timers \in [Timers -> Channel] /\ timers[chan] \in Channel
        /\ MaxClock \in Nat /\ MAX \in Nat /\ TIME_OVERFLOW \in Nat \ {0}
    BY <1>1, Constants DEF TypeInv, Shape
  <2>2. /\ b \in Channel /\ b.start /\ b.count_up = timers[chan].count_up
        /\ b.cnt_l = timers[chan].cnt_l
    BY <1>3, <2>1, ReloadRange DEF Channel
  <2>3. carried \in 0 .. TIME_OVERFLOW - 1
    <3>1. b.value + 1 \in Int
      BY <2>2 DEF Channel
    <3> QED BY <2>1, <3>1, ModDef
  <2>4. /\ IF IsCountUp(chan, b)
           THEN UNCHANGED <<events, next_event_cycle, active_events>>
           ELSE ScheduleFromDue(Remaining(b), Timer(chan))
        /\ timers' = [timers EXCEPT ![chan] = c]
        /\ IF carries /\ carried = 0 /\ chan + 1 \in Timers
           THEN chan' = chan + 1 /\ UNCHANGED pc
           ELSE pc' = "dispatch" /\ UNCHANGED chan
    BY <1>3 DEF TimersOverflow
  <2>5. IsCountUp(chan, b) <=> IsCountUp(chan, timers[chan])
    BY <2>2 DEF IsCountUp
  <2>6. Remaining(b) \in Nat /\ Remaining(b) >= 1 /\ MaxClock + Remaining(b) <= MAX
    BY <2>2, Period DEF Channel
  <2> DEFINE d == Remaining(b)
             f == FromDue(d)
             k == carried
  <2>7. f \in Nat
    BY <1>1, <2>6, DueFacts
  <2> HIDE DEF d, k
  <2>8. /\ c \in Channel /\ c.start /\ c.count_up = timers[chan].count_up
        /\ c.cnt_l = timers[chan].cnt_l
        /\ ~IsCountUp(chan, b) => c.scheduled = f
    <3>1. k \in 0 .. TIME_OVERFLOW - 1
      BY <2>3 DEF k
    <3>2. c = [b EXCEPT !.value = IF carries THEN k ELSE @,
                        !.scheduled = IF IsCountUp(chan, b) THEN @ ELSE f]
      BY DEF k, d
    <3> HIDE DEF b, c, f, carries
    <3> QED BY <2>2, <2>7, <3>1, <3>2 DEF Channel
  <2>9. \/ pc' = "overflow" /\ chan' \in Timers /\ chan' # chan
        \/ pc' = "dispatch" /\ UNCHANGED chan
    <3>1. chan \in Nat
      BY <1>1, Numbers
    <3> QED BY <1>1, <2>4, <3>1
  <2>10. \/ /\ IsCountUp(chan, timers[chan])
            /\ UNCHANGED <<events, next_event_cycle, active_events>>
         \/ /\ d = Remaining(b) /\ d \in Nat
            /\ d >= 1 /\ MaxClock + d <= MAX
            /\ Put(Timer(chan), FromDue(d)) /\ c.scheduled = FromDue(d)
    BY <2>4, <2>5, <2>6, <2>8 DEF ScheduleFromDue, d
  <2>11. timers' = [timers EXCEPT ![chan] = c]
    BY <2>4
  <2> HIDE DEF c, d
  <2> QED BY <1>1, <1>3, <2>8, <2>9, <2>10, <2>11
<1> QED BY <1>2, <1>3

\* A write of CNT_L or a read of the counter keeps the channels channels.
LEMMA ChannelWrites ==
    ASSUME TypeInv, NEW t \in Timers,
           (\E v \in Reloads : SetCntL(t, v)) \/ GetCntL(t)
    PROVE  /\ \E c \in Channel : /\ timers' = [timers EXCEPT ![t] = c]
                                 /\ c.start = timers[t].start
                                 /\ c.count_up = timers[t].count_up
                                 /\ c.scheduled = timers[t].scheduled
                                 /\ c.cnt_l \in Reloads \cup {timers[t].cnt_l}
           /\ UNCHANGED <<cmVars, current_event_due, pc, pass, immLeft, chan, saved, booted,
                          epoch, last, toggled>>
           /\ Accessing
<1>1. timers \in [Timers -> Channel] /\ timers[t] \in Channel
  BY DEF TypeInv, Shape
<1>2. ASSUME NEW v \in Reloads, SetCntL(t, v)
      PROVE  \E c \in Channel : /\ timers' = [timers EXCEPT ![t] = c]
                                /\ c.start = timers[t].start
                                /\ c.count_up = timers[t].count_up
                                /\ c.scheduled = timers[t].scheduled
                                /\ c.cnt_l \in Reloads \cup {timers[t].cnt_l}
  <2> DEFINE c == [timers[t] EXCEPT !.cnt_l = v]
  <2>2. /\ c \in Channel /\ c.start = timers[t].start /\ c.count_up = timers[t].count_up
        /\ c.scheduled = timers[t].scheduled /\ c.cnt_l = v
    BY <1>1 DEF Channel
  <2>3. timers' = [timers EXCEPT ![t] = c]
    BY <1>2 DEF SetCntL
  <2> HIDE DEF c
  <2> QED BY <2>2, <2>3
<1>3. ASSUME GetCntL(t)
      PROVE  \E c \in Channel : /\ timers' = [timers EXCEPT ![t] = c]
                                /\ c.start = timers[t].start
                                /\ c.count_up = timers[t].count_up
                                /\ c.scheduled = timers[t].scheduled
                                /\ c.cnt_l \in Reloads \cup {timers[t].cnt_l}
  <2> DEFINE diff == (timers[t].scheduled - cycle_count) % (MAX + 1)
             q == diff \div 2 ^ timers[t].shift
             v == (TIME_OVERFLOW - q) % TIME_OVERFLOW
             c == [timers[t] EXCEPT !.value = v]
  <2>1. timers' = [timers EXCEPT ![t] = c]
    BY <1>3 DEF GetCntL
  <2>2. diff \in Int
    <3>1. /\ timers[t].scheduled - cycle_count \in Int
          /\ MAX + 1 \in Nat \ {0}
      BY <1>1, Constants DEF TypeInv, Shape, Channel
    <3> QED BY <3>1, ModDef
  <2>3. 2 ^ timers[t].shift \in Nat \ {0}
    BY <1>1, MarginAssumption DEF Channel
  <2> HIDE DEF diff
  <2>4. q \in Int
    BY <2>2, <2>3, ModDef
  <2> HIDE DEF q
  <2>5. v \in 0 .. TIME_OVERFLOW - 1
    <3>1. TIME_OVERFLOW - q \in Int /\ TIME_OVERFLOW \in Nat \ {0}
      BY <2>4, Constants
    <3> QED BY <3>1, ModDef
  <2> HIDE DEF v
  <2>6. /\ c \in Channel /\ c.start = timers[t].start /\ c.count_up = timers[t].count_up
        /\ c.scheduled = timers[t].scheduled /\ c.cnt_l = timers[t].cnt_l
    BY <1>1, <2>5 DEF Channel
  <2> HIDE DEF c
  <2> QED BY <2>1, <2>6
<1>4. /\ UNCHANGED <<cmVars, current_event_due, pc, pass, immLeft, chan, saved, booted,
                     epoch, last, toggled>>
      /\ Accessing
  BY DEF SetCntL, GetCntL
<1> QED BY <1>2, <1>3, <1>4

\* The fields of a snapshot.
LEMMA SnapshotFields ==
    /\ Snapshot.cycle_count = cycle_count /\ Snapshot.events = events
    /\ Snapshot.next = next_event_cycle /\ Snapshot.active = active_events
    /\ Snapshot.imm = active_imm_events /\ Snapshot.timers = timers
    /\ Snapshot.epoch = epoch /\ Snapshot.toggled = toggled
  BY DEF Snapshot

\* Whole grids, q of them.
Laps(q) == GRID * q

\* A rebase subtracts the clock from all that lies ahead of it.
LEMMA RebaseFacts ==
    ASSUME TypeInv, NEW next \in 0 .. MAX, Rebase(next),
           \A e \in active_events : events[e] > cycle_count
    PROVE  /\ cycle_count' = 0
           /\ events' \in [Event -> 0 .. MAX] /\ next_event_cycle' \in 0 .. MAX
           /\ timers' \in [Timers -> Channel] /\ epoch' \in Nat
           /\ \A e \in active_events : events'[e] = events[e] - cycle_count
           /\ next >= cycle_count => next_event_cycle' = next - cycle_count
           /\ \A t \in Timers :
                 /\ timers'[t].start = timers[t].start
                 /\ timers'[t].count_up = timers[t].count_up
                 /\ timers'[t].cnt_l = timers[t].cnt_l
                 /\ timers[t].scheduled >= cycle_count =>
                       timers'[t].scheduled = timers[t].scheduled - cycle_count
           /\ \E q \in Int : epoch' = (epoch + cycle_count) - Laps(q)
<1> DEFINE W == MAX + 1
<1>1. /\ cycle_count \in 0 .. MaxClock /\ events \in [Event -> 0 .. MAX]
      /\ active_events \in SUBSET Event /\ timers \in [Timers -> Channel]
      /\ epoch \in Nat /\ MAX \in Nat /\ MaxClock \in Nat /\ MaxClock < MAX
      /\ W \in Nat \ {0}
  BY Constants DEF TypeInv, Shape
<1>2. /\ cycle_count' = 0
      /\ events' = [e \in Event |-> IF e \in active_events
                                    THEN (events[e] - cycle_count) % W ELSE events[e]]
      /\ next_event_cycle' = (next - cycle_count) % W
      /\ timers' = [t \in Timers |-> RebasedTimers(t)]
      /\ epoch' = (epoch + cycle_count) % GRID
  BY DEF Rebase
<1> HIDE DEF W
<1>3. ASSUME NEW n \in 0 .. MAX, n >= cycle_count
      PROVE  (n - cycle_count) % W = n - cycle_count /\ n - cycle_count \in 0 .. MAX
  <2>1. /\ n - cycle_count \in 0 .. W - 1 /\ n - cycle_count \in 0 .. MAX
        /\ n - cycle_count = W * 0 + (n - cycle_count)
    BY <1>1, <1>3 DEF W
  <2> QED BY <1>1, <2>1, ModOf
<1>4. \A e \in active_events : (events[e] - cycle_count) % W = events[e] - cycle_count
                               /\ events[e] - cycle_count \in 0 .. MAX
  <2> SUFFICES ASSUME NEW e \in active_events
               PROVE  (events[e] - cycle_count) % W = events[e] - cycle_count
                      /\ events[e] - cycle_count \in 0 .. MAX
    OBVIOUS
  <2>1. events[e] \in 0 .. MAX /\ events[e] >= cycle_count
    BY <1>1
  <2> QED BY <1>3, <2>1
<1>5. events' \in [Event -> 0 .. MAX] /\ \A e \in active_events : events'[e] = events[e] - cycle_count
  BY <1>1, <1>2, <1>4
<1>6. next_event_cycle' \in 0 .. MAX /\ (next >= cycle_count => next_event_cycle' = next - cycle_count)
  <2>1. next - cycle_count \in Int
    BY <1>1
  <2>2. (next - cycle_count) % W \in 0 .. W - 1
    BY <1>1, <2>1, ModDef
  <2>3. next_event_cycle' \in 0 .. MAX
    BY <1>1, <1>2, <2>2 DEF W
  <2> QED BY <1>2, <1>3, <2>3
<1>7. ASSUME NEW t \in Timers
      PROVE  /\ RebasedTimers(t) \in Channel
             /\ RebasedTimers(t).start = timers[t].start
             /\ RebasedTimers(t).count_up = timers[t].count_up
             /\ RebasedTimers(t).cnt_l = timers[t].cnt_l
             /\ timers[t].scheduled >= cycle_count =>
                   RebasedTimers(t).scheduled = timers[t].scheduled - cycle_count
  <2>1. timers[t] \in Channel /\ timers[t].scheduled \in Nat
    BY <1>1 DEF Channel
  <2> DEFINE v == IF timers[t].scheduled < cycle_count THEN 0
                  ELSE timers[t].scheduled - cycle_count
  <2>2. /\ v \in Nat
        /\ timers[t].scheduled >= cycle_count => v = timers[t].scheduled - cycle_count
    BY <1>1, <2>1
  <2>3. RebasedTimers(t) = [timers[t] EXCEPT !.scheduled = v]
    BY DEF RebasedTimers
  <2> HIDE DEF v
  <2> QED BY <2>1, <2>2, <2>3 DEF Channel
<1>8. timers' \in [Timers -> Channel] /\ \A t \in Timers : timers'[t] = RebasedTimers(t)
  BY <1>2, <1>7
<1>9. epoch' \in Nat /\ \E q \in Int : epoch' = (epoch + cycle_count) - Laps(q)
  <2> DEFINE m == epoch + cycle_count
  <2>1. GRID \in Nat \ {0} /\ m \in Int
    <3>1. HDRAW + HBLANK \in Nat \ {0} /\ SAMPLE \in Nat \ {0}
      BY Constants
    <3>2. GRID \in Nat \ {0}
      BY <3>1 DEF GRID
    <3> QED BY <1>1, <3>2
  <2> HIDE DEF m
  <2>2. m = GRID * (m \div GRID) + (m % GRID) /\ m \div GRID \in Int /\ m % GRID \in 0 .. GRID - 1
    BY <2>1, ModDef
  <2>3. epoch' = m % GRID
    BY <1>2 DEF m
  <2> DEFINE q == m \div GRID
             w == epoch'
  <2>4. q \in Int /\ m = Laps(q) + w /\ w \in Nat /\ Laps(q) \in Int
    BY <2>1, <2>2, <2>3 DEF Laps
  <2> HIDE DEF q, w
  <2>5. w = m - Laps(q)
    BY <2>1, <2>4
  <2>6. epoch' = (epoch + cycle_count) - Laps(q)
    BY <2>5 DEF m, w
  <2> HIDE DEF q
  <2> QED BY <2>4, <2>6 DEF w
<1> QED BY <1>2, <1>5, <1>6, <1>7, <1>8, <1>9

\* The recomputed next event is the earliest.
LEMMA EarliestFacts ==
    ASSUME TypeInv
    PROVE  LET m == EarliestFrom(next_event_cycle, active_events)
           IN /\ m \in 0 .. MAX /\ m <= next_event_cycle
              /\ \A e \in active_events : m <= events[e]
              /\ m = next_event_cycle \/ \E e \in active_events : m = events[e]
<1> DEFINE T == {next_event_cycle} \cup {events[e] : e \in active_events}
           m == EarliestFrom(next_event_cycle, active_events)
<1>1. /\ next_event_cycle \in 0 .. MAX /\ events \in [Event -> 0 .. MAX]
      /\ active_events \in SUBSET Event /\ MAX \in Nat
  BY Constants DEF TypeInv, Shape
<1>2. T \subseteq 0 .. MAX /\ T \subseteq Nat /\ T # {}
  BY <1>1
<1> DEFINE Less == OpToRel(<, Nat)
<1>3. /\ IsWellFoundedOn(Less, Nat)
      /\ \A x, y \in Nat : x < y => <<x, y>> \in Less
  BY NatLessThanWellFounded DEF OpToRel
<1> HIDE DEF Less
<1>4. PICK x \in T : \A y \in T : ~(<<y, x>> \in Less)
  <2>1. T \subseteq Nat /\ T # {} /\ IsWellFoundedOn(Less, Nat)
    BY <1>2, <1>3
  <2> HIDE DEF T
  <2> QED BY ONLY <2>1, WFMin
<1>5. \A y \in T : x <= y
  <2> SUFFICES ASSUME NEW y \in T PROVE x <= y
    OBVIOUS
  <2>1. x \in Nat /\ y \in Nat
    BY <1>2
  <2>2. ~(y < x)
    BY <2>1, <1>3, <1>4, Zenon
  <2> QED BY <2>1, <2>2
<1>6. m = CHOOSE z \in T : \A y \in T : z <= y
  BY DEF EarliestFrom, Min
<1>7. m \in T /\ \A y \in T : m <= y
  <2> HIDE DEF T, m
  <2> QED BY <1>5, <1>6
<1> HIDE DEF m
<1>8. /\ m \in 0 .. MAX /\ m <= next_event_cycle
      /\ \A e \in active_events : m <= events[e]
      /\ m = next_event_cycle \/ \E e \in active_events : m = events[e]
  BY <1>2, <1>7
<1> QED BY <1>8 DEF m

\* At the end of a batch everything active lies ahead.
LEMMA NothingDue ==
    ASSUME TypeInv, \A e \in Event : ~IsDue(e)
    PROVE  \A e \in active_events : events[e] > cycle_count
<1> SUFFICES ASSUME NEW e \in active_events PROVE events[e] > cycle_count
  OBVIOUS
<1>1. /\ e \in Event /\ events[e] \in 0 .. MAX /\ cycle_count \in 0 .. MaxClock
      /\ MAX \in Nat /\ MaxClock \in Nat /\ MaxClock < MAX
  BY Constants DEF TypeInv, Shape
<1>2. ~(events[e] <= cycle_count /\ events[e] < MAX)
  BY <1>1 DEF IsDue
<1> QED BY <1>1, <1>2

\* What the end of a batch leaves.
LEMMA EndFacts ==
    ASSUME TypeInv, EndBatch
    PROVE  /\ \A e \in active_events : events[e] > cycle_count
           /\ active_events' = active_events /\ saved' = saved /\ toggled' = toggled
           /\ booted' = booted /\ last' = <<>> /\ pc = "dispatch"
           /\ \/ pass = 1 /\ pass' = 2 /\ pc' = "imm"
              \/ pass = 2 /\ pass' = 2 /\ pc' = "resume"
           /\ \/ /\ ~PastHalf
                 /\ next_event_cycle' = EarliestFrom(next_event_cycle, active_events)
                 /\ UNCHANGED <<cycle_count, events, timers, epoch>>
              \/ /\ PastHalf
                 /\ Rebase(EarliestFrom(next_event_cycle, active_events))
<1>1. pass \in {1, 2}
  BY DEF TypeInv
<1>2. \A e \in Event : ~IsDue(e)
  BY DEF EndBatch
<1>3. \A e \in active_events : events[e] > cycle_count
  BY <1>2, NothingDue
<1> QED BY <1>1, <1>3 DEF EndBatch, EnterCheck

LEMMA TypeInit == Init => TypeInv
<1> SUFFICES ASSUME Init PROVE TypeInv
  OBVIOUS
<1>1. TimerOff \in Channel
  BY Constants DEF TimerOff, Channel
<1>2. events \in [Event -> 0 .. MAX]
  <2>1. HDRAW \in 0 .. MAX /\ SAMPLE \in 0 .. MAX /\ 0 \in 0 .. MAX
    BY Constants
  <2> QED BY <2>1 DEF Init
<1>3. next_event_cycle \in 0 .. MAX
  BY Constants DEF Init, Lesser
<1>4. cycle_count \in 0 .. MaxClock /\ epoch \in Nat /\ toggled \in SUBSET Timers
  BY Constants DEF Init
<1>5. active_events \in SUBSET Event
  BY Numbers DEF Init
<1>6. timers \in [Timers -> Channel]
  BY <1>1 DEF Init
<1> QED BY <1>2, <1>3, <1>4, <1>5, <1>6 DEF Init, TypeInv, Shape, Handling

LEMMA TypeStep == TypeInv /\ [Next]_vars => TypeInv'
<1> SUFFICES ASSUME TypeInv, [Next]_vars PROVE TypeInv'
  OBVIOUS
<1>1. /\ cycle_count \in 0 .. MaxClock /\ events \in [Event -> 0 .. MAX]
      /\ active_events \in SUBSET Event /\ next_event_cycle \in 0 .. MAX
      /\ timers \in [Timers -> Channel] /\ epoch \in Nat /\ toggled \in SUBSET Timers
      /\ pass \in {1, 2} /\ booted \in BOOLEAN
  BY DEF TypeInv, Shape
<1>2. \A s \in saved :
          Shape(s.cycle_count, s.events, s.active, s.next, s.timers, s.epoch, s.toggled)
  BY DEF TypeInv
<1>3. ASSUME NEW t \in Timers, (\E v \in Reloads : SetCntL(t, v)) \/ GetCntL(t)
      PROVE  TypeInv'
  <2>1. PICK c \in Channel : timers' = [timers EXCEPT ![t] = c]
    BY <1>3, ChannelWrites
  <2>2. timers' \in [Timers -> Channel]
    BY <1>1, <2>1
  <2>3. /\ UNCHANGED <<cmVars, current_event_due, pc, pass, chan, saved, booted, epoch, toggled>>
        /\ pc \in {"guest", "dma"}
    BY <1>3, ChannelWrites DEF Accessing
  <2> QED BY <1>1, <1>2, <2>2, <2>3 DEF TypeInv, Shape, Handling, cmVars
<1>4. ASSUME NEW t \in Timers, NEW start \in BOOLEAN, NEW up \in BOOLEAN,
             NEW shift \in Shifts, SetCntH(t, start, up, shift)
      PROVE  TypeInv'
  <2>1. PICK c \in Channel :
            /\ timers' = [timers EXCEPT ![t] = c]
            /\ \/ \E d \in Nat : cycle_count + d <= MAX /\ Put(Timer(t), cycle_count + d)
               \/ UNCHANGED <<events, active_events, next_event_cycle>>
    BY <1>4, CntHCases
  <2>2. timers' \in [Timers -> Channel]
    BY <1>1, <2>1
  <2>3. /\ events' \in [Event -> 0 .. MAX] /\ active_events' \in SUBSET Event
        /\ next_event_cycle' \in 0 .. MAX
    <3>1. CASE UNCHANGED <<events, active_events, next_event_cycle>>
      BY <1>1, <3>1
    <3>2. ASSUME NEW d \in Nat, cycle_count + d <= MAX, Put(Timer(t), cycle_count + d)
          PROVE  /\ events' \in [Event -> 0 .. MAX] /\ active_events' \in SUBSET Event
                 /\ next_event_cycle' \in 0 .. MAX
      <4>1. cycle_count + d \in 0 .. MAX /\ Timer(t) \in Event
        BY <1>1, <3>2, Constants, Numbers
      <4> QED BY <3>2, <4>1, PutFacts
    <3> QED BY <2>1, <3>1, <3>2
  <2>4. /\ UNCHANGED <<cycle_count, current_event_due, pc, pass, chan, saved, booted, epoch>>
        /\ toggled' \in SUBSET Timers /\ pc \in {"guest", "dma"}
    BY <1>1, <1>4 DEF SetCntH, Accessing
  <2> QED BY <1>1, <1>2, <2>2, <2>3, <2>4 DEF TypeInv, Shape, Handling
<1>5. ASSUME NEW i \in ImmEvent, ScheduleImm(i) PROVE TypeInv'
  BY <1>1, <1>2, <1>5 DEF ScheduleImm, TypeInv, Shape, Handling
<1>6. ASSUME NEW c \in 1 .. MaxSlice, Execute(c) PROVE TypeInv'
  <2>1. cycle_count' \in 0 .. MaxClock
    BY <1>1, <1>6, Constants DEF Execute
  <2> QED BY <1>1, <1>2, <1>6, <2>1 DEF Execute, EnterCheck, TypeInv, Shape, Handling
<1>7. CASE JumpToNextEvent
  <2>1. cycle_count' \in 0 .. MaxClock
    BY <1>1, <1>7, Constants DEF JumpToNextEvent
  <2> QED BY <1>1, <1>2, <1>7, <2>1 DEF JumpToNextEvent, EnterCheck, TypeInv, Shape, Handling
<1>8. ASSUME NEW i \in ImmEvent, DrainImm(i) PROVE TypeInv'
  BY <1>1, <1>2, <1>8 DEF DrainImm, TypeInv, Shape, Handling, cmVars
<1>9. CASE DmaEnd
  BY <1>1, <1>2, <1>9 DEF DmaEnd, TypeInv, Shape, Handling
<1>10. CASE ReturnFalse
  BY <1>1, <1>2, <1>10 DEF ReturnFalse, TypeInv, Shape, Handling, cmVars
<1>11. CASE StartBatch
  <2>1. next_event_cycle' \in 0 .. MAX
    BY <1>11, Constants DEF StartBatch
  <2> QED BY <1>1, <1>2, <1>11, <2>1 DEF StartBatch, TypeInv, Shape, Handling
<1>12. ASSUME NEW e \in Event, Dispatch(e) PROVE TypeInv'
  <2>1. /\ active_events' \in SUBSET Event /\ events' \in [Event -> 0 .. MAX]
        /\ current_event_due' \in 0 .. cycle_count
    <3>1. events[e] \in 0 .. MAX /\ events[e] <= cycle_count
      BY <1>1, <1>12 DEF Dispatch, IsDue
    <3> QED BY <1>1, <1>12, <3>1, Constants DEF Dispatch
  <2>2. /\ pc' \in {"line240", "line308", "sample", "overflow"}
        /\ pc' = "overflow" => chan' \in Timers
    BY <1>12 DEF Dispatch
  <2>3. UNCHANGED <<cycle_count, next_event_cycle, timers, pass, saved, booted, epoch, toggled>>
    BY <1>12 DEF Dispatch
  <2> QED BY <1>1, <1>2, <2>1, <2>2, <2>3 DEF TypeInv, Shape, Handling
<1>13. ASSUME Handling, NEW d \in Nat, d >= 1, MaxClock + d <= MAX, NEW e \in Event,
              ScheduleFromDue(d, e)
       PROVE  /\ events' \in [Event -> 0 .. MAX] /\ active_events' \in SUBSET Event
              /\ next_event_cycle' \in 0 .. MAX
  <2>1. FromDue(d) \in 0 .. MAX
    BY <1>13, DueFacts
  <2> QED BY <1>13, <2>1, PutFacts DEF ScheduleFromDue
<1>14. CASE Scanline240
  <2>1. /\ events' \in [Event -> 0 .. MAX] /\ active_events' \in SUBSET Event
        /\ next_event_cycle' \in 0 .. MAX
    BY <1>13, <1>14, Constants, Numbers DEF Scanline240, Handling
  <2> QED BY <1>1, <1>2, <1>14, <2>1 DEF Scanline240, TypeInv, Shape, Handling
<1>15. CASE Scanline308
  <2>1. /\ events' \in [Event -> 0 .. MAX] /\ active_events' \in SUBSET Event
        /\ next_event_cycle' \in 0 .. MAX
    BY <1>13, <1>15, Constants, Numbers DEF Scanline308, Handling
  <2> QED BY <1>1, <1>2, <1>15, <2>1 DEF Scanline308, TypeInv, Shape, Handling
<1>16. CASE SampleEvent
  <2>1. /\ events' \in [Event -> 0 .. MAX] /\ active_events' \in SUBSET Event
        /\ next_event_cycle' \in 0 .. MAX
    BY <1>13, <1>16, Constants, Numbers DEF SampleEvent, Handling
  <2> QED BY <1>1, <1>2, <1>16, <2>1 DEF SampleEvent, TypeInv, Shape, Handling
<1>17. CASE TimersOverflow
  <2>1. /\ chan \in Timers /\ Handling
        /\ pc' \in {"dispatch", "overflow"} /\ (pc' = "overflow" => chan' \in Timers)
        /\ timers' = timers \/ \E c \in Channel : timers' = [timers EXCEPT ![chan] = c]
        /\ \/ UNCHANGED <<events, next_event_cycle, active_events>>
           \/ \E d \in Nat : /\ d >= 1 /\ MaxClock + d <= MAX
                             /\ Put(Timer(chan), FromDue(d))
    BY <1>17, OverflowCases DEF Handling
  <2>2. timers' \in [Timers -> Channel]
    BY <1>1, <2>1
  <2>3. /\ events' \in [Event -> 0 .. MAX] /\ active_events' \in SUBSET Event
        /\ next_event_cycle' \in 0 .. MAX
    BY <1>1, <1>13, <2>1, Numbers DEF ScheduleFromDue
  <2>4. UNCHANGED <<cycle_count, current_event_due, pass, saved, booted, epoch, toggled>>
    BY <1>17 DEF TimersOverflow
  <2>5. current_event_due \in 0 .. cycle_count
    BY <2>1 DEF TypeInv
  <2> QED BY <1>1, <1>2, <2>1, <2>2, <2>3, <2>4, <2>5 DEF TypeInv, Shape, Handling
<1>18. CASE SaveState
  <2>1. /\ UNCHANGED <<cmVars, timers, pass, booted, epoch, toggled>>
        /\ pc' = "dispatch" /\ saved' = {Snapshot}
    BY <1>18 DEF SaveState
  <2>2. \A s \in saved' :
            Shape(s.cycle_count, s.events, s.active, s.next, s.timers, s.epoch, s.toggled)
    BY <1>1, <2>1, SnapshotFields DEF Shape
  <2> QED BY <1>1, <2>1, <2>2 DEF TypeInv, Shape, Handling, cmVars
<1>19. CASE LoadState
  <2>1. PICK s \in saved : Restore(s)
    BY <1>19 DEF LoadState
  <2> QED BY <1>1, <1>2, <1>19, <2>1 DEF LoadState, Restore, TypeInv, Shape, Handling
<1>20. CASE EndBatch
  <2>1. /\ active_events' = active_events /\ saved' = saved /\ toggled' = toggled
        /\ booted' = booted /\ pass' = 2 /\ pc' \in {"imm", "resume"}
    BY <1>20, EndFacts
  <2>2. /\ cycle_count' \in 0 .. MaxClock /\ events' \in [Event -> 0 .. MAX]
        /\ next_event_cycle' \in 0 .. MAX /\ timers' \in [Timers -> Channel]
        /\ epoch' \in Nat
    <3>1. EarliestFrom(next_event_cycle, active_events) \in 0 .. MAX
      BY EarliestFacts
    <3>2. CASE /\ next_event_cycle' = EarliestFrom(next_event_cycle, active_events)
               /\ UNCHANGED <<cycle_count, events, timers, epoch>>
      BY <1>1, <3>1, <3>2
    <3>3. CASE Rebase(EarliestFrom(next_event_cycle, active_events))
      <4>1. \A e \in active_events : events[e] > cycle_count
        BY <1>20, EndFacts
      <4>2. /\ cycle_count' = 0 /\ events' \in [Event -> 0 .. MAX]
            /\ next_event_cycle' \in 0 .. MAX /\ timers' \in [Timers -> Channel]
            /\ epoch' \in Nat
        BY <3>1, <3>3, <4>1, RebaseFacts
      <4> QED BY <1>1, <4>2, Constants
    <3> QED BY <1>20, <3>2, <3>3, EndFacts
  <2> QED BY <1>1, <1>2, <2>1, <2>2 DEF TypeInv, Shape, Handling
<1>21. CASE Resume
  BY <1>1, <1>2, <1>21 DEF Resume, TypeInv, Shape, Handling, cmVars
<1>22. CASE BootLoad
  <2>1. PICK s \in saved : Restore(s)
    BY <1>22 DEF BootLoad
  <2> QED BY <1>1, <1>2, <1>22, <2>1 DEF BootLoad, Restore, TypeInv, Shape, Handling
<1>23. CASE UNCHANGED vars
  BY <1>1, <1>2, <1>23 DEF vars, TypeInv, Shape, Handling
<1> QED
  BY <1>3, <1>4, <1>5, <1>6, <1>7, <1>8, <1>9, <1>10, <1>11, <1>12, <1>14, <1>15, <1>16,
     <1>17, <1>18, <1>19, <1>20, <1>21, <1>22, <1>23
  DEF Next, GuestAccess, Slice, CheckEvents

\* The words of the scheduler stay words, the clock within its bound.
THEOREM TypeCorrect == Spec => []TypeInv
  BY TypeInit, TypeStep, PTL DEF Spec

-----------------------------------------------------------------------------
(* The grids of the display and of the samples.                            *)

Line == HDRAW + HBLANK
On(x, p) == x % p = 0

GridAt(ev, act, ep) ==
    /\ GpuScanline240 \in act => On(ep + ev[GpuScanline240] - HDRAW, Line)
    /\ GpuScanline308 \in act => On(ep + ev[GpuScanline308], Line)
    /\ ApuSample \in act => On(ep + ev[ApuSample], SAMPLE)

\* One line event and the sample event wait at any time.
ChainAt(act) ==
    ApuSample \in act /\ (GpuScanline240 \in act <=> GpuScanline308 \notin act)

\* In a handler the chain hangs on the due cycle.
GridInv ==
    /\ GridAt(events, active_events, epoch)
    /\ CASE pc = "line240" -> /\ On(epoch + current_event_due - HDRAW, Line)
                              /\ ApuSample \in active_events
                              /\ GpuScanline240 \notin active_events
                              /\ GpuScanline308 \notin active_events
         [] pc = "line308" -> /\ On(epoch + current_event_due, Line)
                              /\ ApuSample \in active_events
                              /\ GpuScanline240 \notin active_events
                              /\ GpuScanline308 \notin active_events
         [] pc = "sample" -> /\ On(epoch + current_event_due, SAMPLE)
                             /\ ApuSample \notin active_events
                             /\ GpuScanline240 \in active_events <=>
                                   GpuScanline308 \notin active_events
         [] OTHER -> ChainAt(active_events)
    /\ \A s \in saved : GridAt(s.events, s.active, s.epoch) /\ ChainAt(s.active)

\* Whole periods do not leave a grid.
LEMMA OnMoves ==
    ASSUME NEW p \in Nat \ {0}, NEW x \in Int, NEW y \in Int, NEW k \in Int,
           y = x + p * k, On(x, p)
    PROVE  On(y, p)
<1>1. PICK q \in Int : x = p * q
  <2> DEFINE b == x \div p
             t == x % p
  <2>1. x = p * b + t /\ b \in Int
    BY ModDef
  <2>2. t = 0
    BY DEF On
  <2> HIDE DEF b, t
  <2>3. x = p * b
    BY <2>1, <2>2
  <2> QED BY <2>1, <2>3
<1>2. y = p * q + p * k /\ p * q + p * k = p * (q + k)
  BY <1>1
<1> DEFINE r == q + k
<1>3. y = p * r + 0 /\ r \in Int /\ 0 \in 0 .. p - 1
  BY <1>2
<1> HIDE DEF r
<1>4. y % p = 0
  BY <1>3, ModOf
<1> QED BY <1>4 DEF On

\* The next period.
LEMMA OnNext ==
    ASSUME NEW p \in Nat \ {0}, NEW x \in Int, NEW y \in Int, y = x + p, On(x, p)
    PROVE  On(y, p)
<1> DEFINE k == 1
<1>1. k \in Int /\ y = x + p * k
  OBVIOUS
<1> HIDE DEF k
<1> QED BY <1>1, OnMoves

\* What leaves the three events alone leaves the grids alone.
LEMMA GridKeep ==
    ASSUME GridInv, UNCHANGED <<epoch, saved>>,
           \A e \in {GpuScanline240, GpuScanline308, ApuSample} :
              events'[e] = events[e] /\ (e \in active_events' <=> e \in active_events),
           pc \notin {"line240", "line308", "sample"},
           pc' \notin {"line240", "line308", "sample"}
    PROVE  GridInv'
<1>1. GridAt(events', active_events', epoch')
  BY DEF GridInv, GridAt
<1>2. ChainAt(active_events')
  BY DEF GridInv, ChainAt
<1> QED BY <1>1, <1>2 DEF GridInv

LEMMA GridInit == Init => GridInv
<1> SUFFICES ASSUME Init PROVE GridInv
  OBVIOUS
<1>1. /\ events[GpuScanline240] = HDRAW /\ events[ApuSample] = SAMPLE
      /\ active_events = {GpuScanline240, ApuSample} /\ epoch = 0
      /\ pc = "guest" /\ saved = {}
  BY Numbers DEF Init
<1>2. ASSUME NEW p \in Nat \ {0} PROVE On(0, p) /\ On(p, p)
  <2>1. 0 = p * 0 + 0 /\ p = p * 1 + 0 /\ 0 \in 0 .. p - 1
    OBVIOUS
  <2>2. 0 % p = 0 /\ p % p = 0
    BY <2>1, ModOf
  <2> QED BY <2>2 DEF On
<1>3. /\ epoch + events[GpuScanline240] - HDRAW = 0 /\ Line \in Nat \ {0}
      /\ epoch + events[ApuSample] = SAMPLE /\ SAMPLE \in Nat \ {0}
  BY <1>1, Constants DEF Line
<1>4. GridAt(events, active_events, epoch)
  BY <1>1, <1>2, <1>3, Numbers DEF GridAt
<1> QED BY <1>1, <1>4, Numbers DEF GridInv, ChainAt

LEMMA GridStep == TypeInv /\ GridInv /\ [Next]_vars => GridInv'
<1> SUFFICES ASSUME TypeInv, GridInv, [Next]_vars PROVE GridInv'
  OBVIOUS
<1>1. /\ cycle_count \in Nat /\ events \in [Event -> 0 .. MAX]
      /\ active_events \in SUBSET Event /\ epoch \in Nat
      /\ Line \in Nat \ {0} /\ SAMPLE \in Nat \ {0} /\ MAX \in Nat
      /\ HDRAW \in Nat /\ HBLANK \in Nat
  BY Constants DEF TypeInv, Shape, Line
<1>2. /\ GpuScanline240 \in Event /\ GpuScanline308 \in Event /\ ApuSample \in Event
      /\ events[GpuScanline240] \in Nat /\ events[GpuScanline308] \in Nat
      /\ events[ApuSample] \in Nat
  BY <1>1, Numbers
<1>3. ASSUME NEW t \in Timers, (\E v \in Reloads : SetCntL(t, v)) \/ GetCntL(t)
      PROVE  GridInv'
  BY <1>3, ChannelWrites, GridKeep DEF Accessing, cmVars
<1>4. ASSUME NEW t \in Timers, NEW at \in 0 .. MAX, Put(Timer(t), at)
      PROVE  \A e \in {GpuScanline240, GpuScanline308, ApuSample} :
                events'[e] = events[e] /\ (e \in active_events' <=> e \in active_events)
  <2>1. Timer(t) \in Event
    BY Numbers
  <2>2. /\ active_events' = active_events \cup {Timer(t)}
        /\ \A f \in Event \ {Timer(t)} : events'[f] = events[f]
    BY <1>4, <2>1, PutFacts
  <2> QED BY <2>2, Numbers
<1>5. ASSUME NEW t \in Timers, NEW start \in BOOLEAN, NEW up \in BOOLEAN,
             NEW shift \in Shifts, SetCntH(t, start, up, shift)
      PROVE  GridInv'
  <2>1. \/ \E d \in Nat : cycle_count + d <= MAX /\ Put(Timer(t), cycle_count + d)
        \/ UNCHANGED <<events, active_events, next_event_cycle>>
    BY <1>5, CntHCases
  <2>2. \A e \in {GpuScanline240, GpuScanline308, ApuSample} :
            events'[e] = events[e] /\ (e \in active_events' <=> e \in active_events)
    BY <1>1, <1>4, <2>1
  <2>3. UNCHANGED <<epoch, saved, pc>> /\ pc \in {"guest", "dma"}
    BY <1>5 DEF SetCntH, Accessing
  <2> QED BY <2>2, <2>3, GridKeep
<1>6. ASSUME NEW i \in ImmEvent, ScheduleImm(i) PROVE GridInv'
  BY <1>6, GridKeep DEF ScheduleImm
<1>7. ASSUME NEW c \in 1 .. MaxSlice, Execute(c) PROVE GridInv'
  BY <1>7, GridKeep DEF Execute, EnterCheck
<1>8. CASE JumpToNextEvent
  BY <1>8, GridKeep DEF JumpToNextEvent, EnterCheck
<1>9. ASSUME NEW i \in ImmEvent, DrainImm(i) PROVE GridInv'
  BY <1>9, GridKeep DEF DrainImm, cmVars
<1>10. CASE DmaEnd \/ ReturnFalse \/ StartBatch \/ Resume
  BY <1>10, GridKeep DEF DmaEnd, ReturnFalse, StartBatch, Resume, cmVars
<1>11. ASSUME NEW e \in Event, Dispatch(e) PROVE GridInv'
  <2>1. /\ pc = "dispatch" /\ e \in active_events /\ active_events' = active_events \ {e}
        /\ current_event_due' = events[e] /\ UNCHANGED <<epoch, saved>>
        /\ events' = [events EXCEPT ![e] = 0]
        /\ \/ e = GpuScanline240 /\ pc' = "line240"
           \/ e = GpuScanline308 /\ pc' = "line308"
           \/ e = ApuSample /\ pc' = "sample"
           \/ \E t \in Timers : e = Timer(t) /\ pc' = "overflow"
    BY <1>11 DEF Dispatch, IsDue
  <2>2. GridAt(events, active_events, epoch) /\ ChainAt(active_events)
    BY <2>1 DEF GridInv
  <2>3. \A f \in Event \ {e} : events'[f] = events[f]
    BY <1>1, <2>1
  <2>4. GridAt(events', active_events', epoch')
    BY <1>2, <2>1, <2>2, <2>3 DEF GridAt
  <2>5. CASE e = GpuScanline240 /\ pc' = "line240"
    BY <2>1, <2>2, <2>4, <2>5, Numbers DEF GridInv, GridAt, ChainAt
  <2>6. CASE e = GpuScanline308 /\ pc' = "line308"
    BY <2>1, <2>2, <2>4, <2>6, Numbers DEF GridInv, GridAt, ChainAt
  <2>7. CASE e = ApuSample /\ pc' = "sample"
    BY <2>1, <2>2, <2>4, <2>7, Numbers DEF GridInv, GridAt, ChainAt
  <2>8. CASE \E t \in Timers : e = Timer(t) /\ pc' = "overflow"
    BY <2>1, <2>2, <2>4, <2>8, Numbers DEF GridInv, ChainAt
  <2> QED BY <2>1, <2>5, <2>6, <2>7, <2>8
<1>12. ASSUME Handling, NEW d \in Nat, d >= 1, MaxClock + d <= MAX, NEW e \in Event,
              ScheduleFromDue(d, e)
       PROVE  /\ active_events' = active_events \cup {e}
              /\ events'[e] = current_event_due + d /\ current_event_due \in Nat
              /\ \A f \in Event \ {e} : events'[f] = events[f]
  BY <1>12, DueFacts, PutFacts DEF ScheduleFromDue
<1>13. CASE Scanline240
  <2>1. /\ pc = "line240" /\ Handling /\ ScheduleFromDue(HBLANK, GpuScanline308)
        /\ pc' = "dispatch" /\ UNCHANGED <<epoch, saved>>
    BY <1>13 DEF Scanline240, Handling
  <2>2. /\ active_events' = active_events \cup {GpuScanline308}
        /\ events'[GpuScanline308] = current_event_due + HBLANK /\ current_event_due \in Nat
        /\ \A f \in Event \ {GpuScanline308} : events'[f] = events[f]
    BY <1>2, <1>12, <2>1, Constants
  <2>3. /\ On(epoch + current_event_due - HDRAW, Line) /\ ApuSample \in active_events
        /\ GpuScanline240 \notin active_events /\ GpuScanline308 \notin active_events
        /\ GridAt(events, active_events, epoch)
    BY <2>1 DEF GridInv
  <2>4. On(epoch + events'[GpuScanline308], Line)
    <3> DEFINE x == epoch + current_event_due - HDRAW
               y == epoch + events'[GpuScanline308]
    <3>1. x \in Int /\ y \in Int /\ y = x + Line
      BY <1>1, <2>2 DEF Line
    <3> HIDE DEF x, y
    <3>2. On(x, Line)
      BY <2>3 DEF x
    <3>3. On(y, Line)
      BY <1>1, <3>1, <3>2, OnNext
    <3> QED BY <3>3 DEF y
  <2>5. GridAt(events', active_events', epoch')
    BY <1>2, <2>1, <2>2, <2>3, <2>4, Numbers DEF GridAt
  <2>6. ChainAt(active_events')
    BY <2>2, <2>3, Numbers DEF ChainAt
  <2> QED BY <2>1, <2>5, <2>6 DEF GridInv
<1>14. CASE Scanline308
  <2>1. /\ pc = "line308" /\ Handling /\ ScheduleFromDue(HDRAW, GpuScanline240)
        /\ pc' \in {"dispatch", "hook"} /\ UNCHANGED <<epoch, saved>>
    BY <1>14 DEF Scanline308, Handling
  <2>2. /\ active_events' = active_events \cup {GpuScanline240}
        /\ events'[GpuScanline240] = current_event_due + HDRAW /\ current_event_due \in Nat
        /\ \A f \in Event \ {GpuScanline240} : events'[f] = events[f]
    BY <1>2, <1>12, <2>1, Constants
  <2>3. /\ On(epoch + current_event_due, Line) /\ ApuSample \in active_events
        /\ GpuScanline240 \notin active_events /\ GpuScanline308 \notin active_events
        /\ GridAt(events, active_events, epoch)
    BY <2>1 DEF GridInv
  <2>4. On(epoch + events'[GpuScanline240] - HDRAW, Line)
    <3>1. epoch + events'[GpuScanline240] - HDRAW = epoch + current_event_due
      BY <1>1, <2>2
    <3> QED BY <2>3, <3>1
  <2>5. GridAt(events', active_events', epoch')
    BY <1>2, <2>1, <2>2, <2>3, <2>4, Numbers DEF GridAt
  <2>6. ChainAt(active_events')
    BY <2>2, <2>3, Numbers DEF ChainAt
  <2> QED BY <2>1, <2>5, <2>6 DEF GridInv
<1>15. CASE SampleEvent
  <2>1. /\ pc = "sample" /\ Handling /\ ScheduleFromDue(SAMPLE, ApuSample)
        /\ pc' = "dispatch" /\ UNCHANGED <<epoch, saved>>
    BY <1>15 DEF SampleEvent, Handling
  <2>2. /\ active_events' = active_events \cup {ApuSample}
        /\ events'[ApuSample] = current_event_due + SAMPLE /\ current_event_due \in Nat
        /\ \A f \in Event \ {ApuSample} : events'[f] = events[f]
    BY <1>2, <1>12, <2>1, Constants
  <2>3. /\ On(epoch + current_event_due, SAMPLE) /\ ApuSample \notin active_events
        /\ GpuScanline240 \in active_events <=> GpuScanline308 \notin active_events
        /\ GridAt(events, active_events, epoch)
    BY <2>1 DEF GridInv
  <2>4. On(epoch + events'[ApuSample], SAMPLE)
    <3> DEFINE x == epoch + current_event_due
               y == epoch + events'[ApuSample]
    <3>1. x \in Int /\ y \in Int /\ y = x + SAMPLE
      BY <1>1, <2>2
    <3> HIDE DEF x, y
    <3>2. On(x, SAMPLE)
      BY <2>3 DEF x
    <3>3. On(y, SAMPLE)
      BY <1>1, <3>1, <3>2, OnNext
    <3> QED BY <3>3 DEF y
  <2>5. GridAt(events', active_events', epoch')
    BY <1>2, <2>1, <2>2, <2>3, <2>4, Numbers DEF GridAt
  <2>6. ChainAt(active_events')
    BY <2>2, <2>3, Numbers DEF ChainAt
  <2> QED BY <2>1, <2>5, <2>6 DEF GridInv
<1>16. CASE TimersOverflow
  <2>1. /\ chan \in Timers /\ Handling /\ pc = "overflow"
        /\ pc' \in {"dispatch", "overflow"}
        /\ \/ UNCHANGED <<events, next_event_cycle, active_events>>
           \/ \E d \in Nat : /\ d >= 1 /\ MaxClock + d <= MAX
                             /\ Put(Timer(chan), FromDue(d))
    BY <1>16, OverflowCases DEF Handling
  <2>2. \A e \in {GpuScanline240, GpuScanline308, ApuSample} :
            events'[e] = events[e] /\ (e \in active_events' <=> e \in active_events)
    BY <1>4, <2>1, DueFacts
  <2>3. UNCHANGED <<epoch, saved>>
    BY <1>16 DEF TimersOverflow
  <2> QED BY <2>1, <2>2, <2>3, GridKeep
<1>17. CASE SaveState
  <2>1. /\ UNCHANGED <<cmVars, epoch>> /\ pc = "hook"
        /\ pc' = "dispatch" /\ saved' = {Snapshot}
    BY <1>17 DEF SaveState
  <2>2. GridAt(events, active_events, epoch) /\ ChainAt(active_events)
    BY <2>1 DEF GridInv
  <2>3. \A s \in saved' : GridAt(s.events, s.active, s.epoch) /\ ChainAt(s.active)
    BY <2>1, <2>2, SnapshotFields
  <2> QED BY <2>1, <2>2, <2>3 DEF GridInv, cmVars
<1>18. CASE LoadState \/ BootLoad
  <2>1. PICK s \in saved : Restore(s)
    BY <1>18 DEF LoadState, BootLoad
  <2>2. GridAt(s.events, s.active, s.epoch) /\ ChainAt(s.active)
    BY DEF GridInv
  <2>3. /\ events' = s.events /\ active_events' = s.active /\ epoch' = s.epoch
        /\ saved' = saved /\ pc' \in {"dispatch", "guest"}
    BY <1>18, <2>1 DEF LoadState, BootLoad, Restore
  <2> QED BY <2>2, <2>3 DEF GridInv
<1>19. CASE EndBatch
  <2>1. /\ \A e \in active_events : events[e] > cycle_count
        /\ active_events' = active_events /\ saved' = saved
        /\ pc = "dispatch" /\ pc' \in {"imm", "resume"}
    BY <1>19, EndFacts
  <2>2. CASE UNCHANGED <<cycle_count, events, timers, epoch>>
    BY <2>1, <2>2, GridKeep
  <2>3. CASE Rebase(EarliestFrom(next_event_cycle, active_events))
    <3>1. EarliestFrom(next_event_cycle, active_events) \in 0 .. MAX
      BY EarliestFacts
    <3>2. \A e \in active_events : events'[e] = events[e] - cycle_count
      BY <2>1, <2>3, <3>1, RebaseFacts
    <3>3. PICK q \in Int : epoch' = (epoch + cycle_count) - Laps(q)
      BY <2>1, <2>3, <3>1, RebaseFacts
    <3>4. /\ Laps(q) = Line * (SAMPLE * q) /\ Laps(q) = SAMPLE * (Line * q)
          /\ SAMPLE * q \in Int /\ Line * q \in Int /\ Laps(q) \in Int
      BY <1>1, Constants DEF Laps, GRID, Line
    <3>5. ASSUME NEW p \in Nat \ {0}, NEW k \in Int, Laps(q) = p * k,
                 NEW x \in Int, NEW y \in Int, y = x - Laps(q), On(x, p)
          PROVE  On(y, p)
      <4>1. p * (0 - k) = 0 - Laps(q) /\ 0 - k \in Int
        BY <3>5
      <4>2. y = x + p * (0 - k)
        BY <3>4, <3>5, <4>1
      <4> QED BY <3>5, <4>1, <4>2, OnMoves
    <3>6. GridAt(events, active_events, epoch) /\ ChainAt(active_events)
      BY <2>1 DEF GridInv
    <3>7. ASSUME GpuScanline240 \in active_events
          PROVE  On(epoch' + events'[GpuScanline240] - HDRAW, Line)
      <4> DEFINE x == epoch + events[GpuScanline240] - HDRAW
                 y == epoch' + events'[GpuScanline240] - HDRAW
      <4>1. x \in Int /\ y \in Int /\ y = x - Laps(q)
        BY <1>1, <1>2, <3>2, <3>3, <3>4, <3>7
      <4>2. On(x, Line)
        BY <3>6, <3>7 DEF GridAt
      <4> HIDE DEF x, y
      <4>3. On(y, Line)
        BY <1>1, <3>4, <3>5, <4>1, <4>2
      <4> QED BY <4>3 DEF y
    <3>8. ASSUME GpuScanline308 \in active_events
          PROVE  On(epoch' + events'[GpuScanline308], Line)
      <4> DEFINE x == epoch + events[GpuScanline308]
                 y == epoch' + events'[GpuScanline308]
      <4>1. x \in Int /\ y \in Int /\ y = x - Laps(q)
        BY <1>1, <1>2, <3>2, <3>3, <3>4, <3>8
      <4>2. On(x, Line)
        BY <3>6, <3>8 DEF GridAt
      <4> HIDE DEF x, y
      <4>3. On(y, Line)
        BY <1>1, <3>4, <3>5, <4>1, <4>2
      <4> QED BY <4>3 DEF y
    <3>9. ASSUME ApuSample \in active_events
          PROVE  On(epoch' + events'[ApuSample], SAMPLE)
      <4> DEFINE x == epoch + events[ApuSample]
                 y == epoch' + events'[ApuSample]
      <4>1. x \in Int /\ y \in Int /\ y = x - Laps(q)
        BY <1>1, <1>2, <3>2, <3>3, <3>4, <3>9
      <4>2. On(x, SAMPLE)
        BY <3>6, <3>9 DEF GridAt
      <4> HIDE DEF x, y
      <4>3. On(y, SAMPLE)
        BY <1>1, <3>4, <3>5, <4>1, <4>2
      <4> QED BY <4>3 DEF y
    <3>10. GridAt(events', active_events', epoch')
      BY <2>1, <3>7, <3>8, <3>9 DEF GridAt
    <3> QED BY <2>1, <3>6, <3>10 DEF GridInv
  <2> QED BY <1>19, <2>2, <2>3, EndFacts
<1>20. CASE UNCHANGED vars
  BY <1>20 DEF vars, GridInv
<1> QED
  BY <1>3, <1>5, <1>6, <1>7, <1>8, <1>9, <1>10, <1>11, <1>13, <1>14, <1>15, <1>16,
     <1>17, <1>18, <1>19, <1>20
  DEF Next, GuestAccess, Slice, CheckEvents

\* The display and the samples never leave their grids and no line event is
\* lost, whatever the slices overshoot, across rebases and loads
\* (schedule_from_due, cm_on_overflow_event).
THEOREM GridsExact == Spec => []GridExact
<1>1. GridInv => GridExact
  BY DEF GridInv, GridAt, ChainAt, GridExact, On, Line
<1>2. Spec => []GridInv
  BY TypeCorrect, GridInit, GridStep, PTL DEF Spec
<1> QED BY <1>1, <1>2, PTL

-----------------------------------------------------------------------------
(* The timers.                                                             *)

\* Running channels other than the ones of tg and X have their event.
TimersAt(ev, act, tm, tg, X) ==
    \A t \in Timers \ tg :
        t \notin X /\ tm[t].start /\ ~IsCountUp(t, tm[t]) =>
            Timer(t) \in act /\ ev[Timer(t)] = tm[t].scheduled

\* The channel whose overflow is being handled.
Overflowing == IF pc = "overflow" THEN {chan} ELSE {}

TimerInv ==
    /\ TimersAt(events, active_events, timers, toggled, Overflowing)
    /\ \A s \in saved : TimersAt(s.events, s.active, s.timers, s.toggled, {})

\* What leaves the timers' events alone leaves the timers alone.
LEMMA TimerKeep ==
    ASSUME TimerInv, UNCHANGED <<timers, toggled, saved>>,
           \A t \in Timers : /\ events'[Timer(t)] = events[Timer(t)]
                             /\ Timer(t) \in active_events => Timer(t) \in active_events',
           pc # "overflow", pc' # "overflow"
    PROVE  TimerInv'
<1>1. TimersAt(events', active_events', timers', toggled', {})
  BY DEF TimerInv, TimersAt, Overflowing
<1> QED BY <1>1 DEF TimerInv, Overflowing

LEMMA TimerInit == Init => TimerInv
<1> SUFFICES ASSUME Init PROVE TimerInv
  OBVIOUS
<1>1. \A t \in Timers : ~timers[t].start
  BY DEF Init, TimerOff
<1> QED BY <1>1 DEF Init, TimerInv, TimersAt

LEMMA TimerStep == TypeInv /\ TimerInv /\ [Next]_vars => TimerInv'
<1> SUFFICES ASSUME TypeInv, TimerInv, [Next]_vars PROVE TimerInv'
  OBVIOUS
<1>1. /\ cycle_count \in Nat /\ events \in [Event -> 0 .. MAX]
      /\ active_events \in SUBSET Event /\ timers \in [Timers -> Channel]
      /\ MAX \in Nat
  BY Constants DEF TypeInv, Shape
<1>2. ASSUME NEW t \in Timers, (\E v \in Reloads : SetCntL(t, v)) \/ GetCntL(t)
      PROVE  TimerInv'
  <2>1. PICK c \in Channel : /\ timers' = [timers EXCEPT ![t] = c]
                             /\ c.start = timers[t].start /\ c.count_up = timers[t].count_up
                             /\ c.scheduled = timers[t].scheduled
    BY <1>2, ChannelWrites
  <2>2. UNCHANGED <<cmVars, pc, chan, saved, toggled>>
    BY <1>2, ChannelWrites
  <2>3. \A u \in Timers : /\ timers'[u].start = timers[u].start
                          /\ timers'[u].count_up = timers[u].count_up
                          /\ timers'[u].scheduled = timers[u].scheduled
    BY <1>1, <2>1
  <2>4. TimersAt(events', active_events', timers', toggled', Overflowing')
    BY <2>2, <2>3 DEF TimerInv, TimersAt, IsCountUp, Overflowing, cmVars
  <2> QED BY <2>2, <2>4 DEF TimerInv
<1>3. ASSUME NEW t \in Timers, NEW at \in 0 .. MAX, Put(Timer(t), at)
      PROVE  /\ Timer(t) \in active_events' /\ events'[Timer(t)] = at
             /\ \A u \in Timers \ {t} : /\ events'[Timer(u)] = events[Timer(u)]
                                        /\ Timer(u) \in active_events => Timer(u) \in active_events'
  <2>1. Timer(t) \in Event
    BY Numbers
  <2>2. /\ active_events' = active_events \cup {Timer(t)} /\ events'[Timer(t)] = at
        /\ \A f \in Event \ {Timer(t)} : events'[f] = events[f]
    BY <1>3, <2>1, PutFacts
  <2> QED BY <2>2, Numbers
<1>4. ASSUME NEW t \in Timers, NEW start \in BOOLEAN, NEW up \in BOOLEAN,
             NEW shift \in Shifts, SetCntH(t, start, up, shift)
      PROVE  TimerInv'
  <2>1. PICK c \in Channel :
            /\ timers' = [timers EXCEPT ![t] = c]
            /\ c.start = start /\ c.count_up = up
            /\ \/ \E d \in Nat : /\ cycle_count + d <= MAX
                                 /\ Put(Timer(t), cycle_count + d)
                                 /\ c.scheduled = cycle_count + d
               \/ /\ UNCHANGED <<events, active_events, next_event_cycle>>
                  /\ c.scheduled = timers[t].scheduled
                  /\ start /\ ~IsCountUp(t, c) => timers[t].start
    BY <1>4, CntHCases
  <2>2. /\ UNCHANGED <<pc, saved>> /\ pc \in {"guest", "dma"}
        /\ toggled' = IF ~start \/ ~timers[t].start THEN toggled \ {t}
                      ELSE IF t # 0 /\ up # timers[t].count_up THEN toggled \cup {t}
                           ELSE toggled
    BY <1>4 DEF SetCntH, Accessing
  <2>3. timers'[t] = c /\ \A u \in Timers \ {t} : timers'[u] = timers[u]
    BY <1>1, <2>1
  <2>4. TimersAt(events, active_events, timers, toggled, {})
    BY <2>2 DEF TimerInv, Overflowing
  <2>5. ASSUME NEW u \in Timers \ toggled', timers'[u].start, ~IsCountUp(u, timers'[u])
        PROVE  Timer(u) \in active_events' /\ events'[Timer(u)] = timers'[u].scheduled
    <3>1. CASE \E d \in Nat : /\ cycle_count + d <= MAX
                              /\ Put(Timer(t), cycle_count + d)
                              /\ c.scheduled = cycle_count + d
      <4>1. PICK d \in Nat : /\ cycle_count + d <= MAX
                             /\ Put(Timer(t), cycle_count + d)
                             /\ c.scheduled = cycle_count + d
        BY <3>1
      <4> DEFINE a == cycle_count + d
      <4>2. a \in 0 .. MAX /\ Put(Timer(t), a) /\ c.scheduled = a
        BY <1>1, <4>1
      <4> HIDE DEF a
      <4>a. /\ Timer(t) \in active_events' /\ events'[Timer(t)] = a
            /\ \A v \in Timers \ {t} : /\ events'[Timer(v)] = events[Timer(v)]
                                       /\ Timer(v) \in active_events => Timer(v) \in active_events'
        BY <1>3, <4>2
      <4>3. CASE u = t
        BY <2>3, <4>2, <4>a, <4>3
      <4>4. CASE u # t
        <5>1. u \notin toggled
          BY <2>2, <4>4
        <5>2. Timer(u) \in active_events /\ events[Timer(u)] = timers[u].scheduled
          BY <2>3, <2>4, <2>5, <4>4, <5>1 DEF TimersAt
        <5>3. u \in Timers \ {t}
          BY <4>4
        <5>4. /\ Timer(u) \in active_events' /\ events'[Timer(u)] = events[Timer(u)]
              /\ timers'[u] = timers[u]
          BY <2>3, <4>a, <5>2, <5>3, Zenon
        <5> QED BY <5>2, <5>4
      <4> QED BY <4>3, <4>4
    <3>2. CASE /\ UNCHANGED <<events, active_events, next_event_cycle>>
               /\ c.scheduled = timers[t].scheduled
               /\ start /\ ~IsCountUp(t, c) => timers[t].start
      <4>1. CASE u = t
        <5>1. start /\ timers[t].start /\ ~IsCountUp(t, c)
          BY <2>1, <2>3, <2>5, <3>2, <4>1
        <5>2. t \notin toggled /\ ~(t # 0 /\ up # timers[t].count_up)
          BY <2>2, <2>5, <4>1, <5>1
        <5>3. ~IsCountUp(t, timers[t])
          BY <2>1, <5>1, <5>2 DEF IsCountUp
        <5> QED BY <2>3, <2>4, <3>2, <4>1, <5>1, <5>2, <5>3 DEF TimersAt
      <4>2. CASE u # t
        <5>1. u \notin toggled
          BY <2>2, <4>2
        <5> QED BY <2>3, <2>4, <2>5, <3>2, <4>2, <5>1 DEF TimersAt
      <4> QED BY <4>1, <4>2
    <3> QED BY <2>1, <3>1, <3>2
  <2>6. TimersAt(events', active_events', timers', toggled', {})
    BY <2>5 DEF TimersAt
  <2> QED BY <2>2, <2>6 DEF TimerInv, Overflowing
<1>5. ASSUME NEW i \in ImmEvent, ScheduleImm(i) PROVE TimerInv'
  BY <1>5, TimerKeep DEF ScheduleImm
<1>6. ASSUME NEW c \in 1 .. MaxSlice, Execute(c) PROVE TimerInv'
  BY <1>6, TimerKeep DEF Execute, EnterCheck
<1>7. CASE JumpToNextEvent
  BY <1>7, TimerKeep DEF JumpToNextEvent, EnterCheck
<1>8. ASSUME NEW i \in ImmEvent, DrainImm(i) PROVE TimerInv'
  BY <1>8, TimerKeep DEF DrainImm, cmVars
<1>9. CASE DmaEnd \/ ReturnFalse \/ StartBatch \/ Resume
  BY <1>9, TimerKeep DEF DmaEnd, ReturnFalse, StartBatch, Resume, cmVars
<1>10. ASSUME NEW e \in Event, Dispatch(e) PROVE TimerInv'
  <2>1. /\ pc = "dispatch" /\ active_events' = active_events \ {e}
        /\ UNCHANGED <<timers, toggled, saved>>
        /\ events' = [events EXCEPT ![e] = 0]
        /\ \/ e \in {GpuScanline240, GpuScanline308, ApuSample} /\ pc' # "overflow"
           \/ \E t \in Timers : e = Timer(t) /\ pc' = "overflow" /\ chan' = t
    BY <1>10 DEF Dispatch
  <2>2. \A f \in Event \ {e} : events'[f] = events[f]
    BY <1>1, <2>1
  <2>3. CASE e \in {GpuScanline240, GpuScanline308, ApuSample} /\ pc' # "overflow"
    BY <2>1, <2>2, <2>3, Numbers, TimerKeep
  <2>4. CASE \E t \in Timers : e = Timer(t) /\ pc' = "overflow" /\ chan' = t
    <3>1. PICK t \in Timers : e = Timer(t) /\ pc' = "overflow" /\ chan' = t
      BY <2>4
    <3>2. TimersAt(events, active_events, timers, toggled, {})
      BY <2>1 DEF TimerInv, Overflowing
    <3>3. \A u \in Timers \ {t} : Timer(u) # e /\ Timer(u) \in Event
      BY <3>1, Numbers
    <3>4. TimersAt(events', active_events', timers', toggled', {t})
      BY <2>1, <2>2, <3>2, <3>3 DEF TimersAt
    <3> QED BY <2>1, <3>1, <3>4 DEF TimerInv, Overflowing
  <2> QED BY <2>1, <2>3, <2>4
<1>11. ASSUME Handling, NEW d \in Nat, d >= 1, MaxClock + d <= MAX,
              NEW e \in {GpuScanline240, GpuScanline308, ApuSample}, ScheduleFromDue(d, e)
       PROVE  \A t \in Timers : /\ events'[Timer(t)] = events[Timer(t)]
                                /\ Timer(t) \in active_events => Timer(t) \in active_events'
  <2>1. e \in Event /\ FromDue(d) \in 0 .. MAX
    BY <1>11, DueFacts, Numbers
  <2>2. /\ active_events' = active_events \cup {e}
        /\ \A f \in Event \ {e} : events'[f] = events[f]
    BY <1>11, <2>1, PutFacts DEF ScheduleFromDue
  <2> QED BY <2>2, Numbers
<1>12. CASE Scanline240
  <2>1. \A t \in Timers : /\ events'[Timer(t)] = events[Timer(t)]
                          /\ Timer(t) \in active_events => Timer(t) \in active_events'
    BY <1>11, <1>12, Constants DEF Scanline240, Handling
  <2> QED BY <1>12, <2>1, TimerKeep DEF Scanline240
<1>13. CASE Scanline308
  <2>1. \A t \in Timers : /\ events'[Timer(t)] = events[Timer(t)]
                          /\ Timer(t) \in active_events => Timer(t) \in active_events'
    BY <1>11, <1>13, Constants DEF Scanline308, Handling
  <2> QED BY <1>13, <2>1, TimerKeep DEF Scanline308
<1>14. CASE SampleEvent
  <2>1. \A t \in Timers : /\ events'[Timer(t)] = events[Timer(t)]
                          /\ Timer(t) \in active_events => Timer(t) \in active_events'
    BY <1>11, <1>14, Constants DEF SampleEvent, Handling
  <2> QED BY <1>14, <2>1, TimerKeep DEF SampleEvent
<1>15. CASE TimersOverflow
  <2>1. chan \in Timers /\ pc = "overflow" /\ Handling /\ UNCHANGED <<saved, toggled>>
    BY <1>15, OverflowCases DEF Handling, TimersOverflow
  <2>2. TimersAt(events, active_events, timers, toggled, {chan})
    BY <2>1 DEF TimerInv, Overflowing
  <2>3. CASE /\ ~timers[chan].start /\ pc' = "dispatch"
             /\ UNCHANGED <<events, next_event_cycle, active_events, timers, chan>>
    <3>1. TimersAt(events', active_events', timers', toggled', {})
      BY <2>1, <2>2, <2>3 DEF TimersAt
    <3> QED BY <2>1, <2>3, <3>1 DEF TimerInv, Overflowing
  <2>4. CASE timers[chan].start
    <3>1. PICK c \in Channel :
              /\ timers' = [timers EXCEPT ![chan] = c]
              /\ c.count_up = timers[chan].count_up
              /\ \/ /\ IsCountUp(chan, timers[chan])
                    /\ UNCHANGED <<events, next_event_cycle, active_events>>
                 \/ \E d \in Nat : /\ d >= 1 /\ MaxClock + d <= MAX
                                   /\ Put(Timer(chan), FromDue(d))
                                   /\ c.scheduled = FromDue(d)
      BY <1>15, <2>4, OverflowCases
    <3>2. \/ pc' = "overflow" /\ chan' \in Timers /\ chan' # chan
          \/ pc' = "dispatch" /\ UNCHANGED chan
      BY <1>15, <2>4, OverflowCases
    <3>3. timers'[chan] = c /\ \A u \in Timers \ {chan} : timers'[u] = timers[u]
      BY <1>1, <2>1, <3>1
    <3>4. TimersAt(events', active_events', timers', toggled', {})
      <4>1. CASE /\ IsCountUp(chan, timers[chan])
                 /\ UNCHANGED <<events, next_event_cycle, active_events>>
        <5>1. IsCountUp(chan, timers'[chan])
          BY <3>1, <3>3, <4>1 DEF IsCountUp
        <5> QED BY <2>1, <2>2, <3>3, <4>1, <5>1 DEF TimersAt
      <4>2. ASSUME NEW d \in Nat, d >= 1, MaxClock + d <= MAX,
                   Put(Timer(chan), FromDue(d)), c.scheduled = FromDue(d)
            PROVE  TimersAt(events', active_events', timers', toggled', {})
        <5> DEFINE a == FromDue(d)
        <5>1. a \in 0 .. MAX /\ Put(Timer(chan), a) /\ c.scheduled = a
          BY <2>1, <4>2, DueFacts
        <5> HIDE DEF a
        <5>t. PICK t \in Timers : t = chan
          BY <2>1
        <5>2. /\ Timer(chan) \in active_events' /\ events'[Timer(chan)] = a
              /\ \A u \in Timers \ {chan} :
                    /\ events'[Timer(u)] = events[Timer(u)]
                    /\ Timer(u) \in active_events => Timer(u) \in active_events'
          BY <1>3, <5>1, <5>t
        <5> QED BY <2>1, <2>2, <3>3, <5>1, <5>2 DEF TimersAt
      <4> QED BY <3>1, <4>1, <4>2
    <3>5. TimersAt(events', active_events', timers', toggled', Overflowing')
      BY <3>4 DEF TimersAt
    <3> QED BY <2>1, <3>5 DEF TimerInv
  <2> QED BY <1>15, <2>3, <2>4, OverflowCases
<1>16. CASE SaveState
  <2>1. /\ UNCHANGED <<cmVars, timers, toggled>> /\ pc = "hook"
        /\ pc' = "dispatch" /\ saved' = {Snapshot}
    BY <1>16 DEF SaveState
  <2>2. TimersAt(events, active_events, timers, toggled, {})
    BY <2>1 DEF TimerInv, Overflowing
  <2>3. \A s \in saved' : TimersAt(s.events, s.active, s.timers, s.toggled, {})
    BY <2>1, <2>2, SnapshotFields
  <2> QED BY <2>1, <2>2, <2>3 DEF TimerInv, Overflowing, cmVars
<1>17. CASE LoadState \/ BootLoad
  <2>1. PICK s \in saved : Restore(s)
    BY <1>17 DEF LoadState, BootLoad
  <2>2. TimersAt(s.events, s.active, s.timers, s.toggled, {})
    BY DEF TimerInv
  <2>3. /\ events' = s.events /\ active_events' = s.active /\ timers' = s.timers
        /\ toggled' = s.toggled /\ saved' = saved /\ pc' \in {"dispatch", "guest"}
    BY <1>17, <2>1 DEF LoadState, BootLoad, Restore
  <2> QED BY <2>2, <2>3 DEF TimerInv, Overflowing
<1>18. CASE EndBatch
  <2>1. /\ \A e \in active_events : events[e] > cycle_count
        /\ active_events' = active_events /\ saved' = saved /\ toggled' = toggled
        /\ pc = "dispatch" /\ pc' \in {"imm", "resume"}
    BY <1>18, EndFacts
  <2>2. CASE UNCHANGED <<cycle_count, events, timers, epoch>>
    BY <2>1, <2>2, TimerKeep
  <2>3. CASE Rebase(EarliestFrom(next_event_cycle, active_events))
    <3>1. EarliestFrom(next_event_cycle, active_events) \in 0 .. MAX
      BY EarliestFacts
    <3>2. /\ \A e \in active_events : events'[e] = events[e] - cycle_count
          /\ \A t \in Timers :
                /\ timers'[t].start = timers[t].start
                /\ timers'[t].count_up = timers[t].count_up
                /\ timers[t].scheduled >= cycle_count =>
                      timers'[t].scheduled = timers[t].scheduled - cycle_count
      BY <2>1, <2>3, <3>1, RebaseFacts
    <3>3. TimersAt(events, active_events, timers, toggled, {})
      BY <2>1 DEF TimerInv, Overflowing
    <3>4. ASSUME NEW t \in Timers \ toggled, timers'[t].start, ~IsCountUp(t, timers'[t])
          PROVE  Timer(t) \in active_events' /\ events'[Timer(t)] = timers'[t].scheduled
      <4>1. Timer(t) \in active_events /\ events[Timer(t)] = timers[t].scheduled
        BY <3>2, <3>3, <3>4 DEF TimersAt, IsCountUp
      <4>2. events[Timer(t)] \in 0 .. MAX /\ events[Timer(t)] > cycle_count
        BY <1>1, <2>1, <4>1
      <4>3. timers[t].scheduled >= cycle_count
        BY <1>1, <4>1, <4>2
      <4> QED BY <2>1, <3>2, <4>1, <4>3
    <3>5. TimersAt(events', active_events', timers', toggled', {})
      BY <2>1, <3>4 DEF TimersAt
    <3> QED BY <2>1, <3>5 DEF TimerInv, Overflowing
  <2> QED BY <1>18, <2>2, <2>3, EndFacts
<1>19. CASE UNCHANGED vars
  BY <1>19 DEF vars, TimerInv, Overflowing
<1> QED
  BY <1>2, <1>4, <1>5, <1>6, <1>7, <1>8, <1>9, <1>10, <1>12, <1>13, <1>14, <1>15, <1>16,
     <1>17, <1>18, <1>19
  DEF Next, GuestAccess, Slice, CheckEvents

\* A running timer's event is due exactly when its counter reads zero
\* (timers_set_cnt_h, timers_overflow, cm_on_overflow_event).
THEOREM TimersOnTime == Spec => []TimerOnTime
<1>1. TimerInv => TimerOnTime
  BY DEF TimerInv, TimersAt, TimerOnTime, Running, Overflowing
<1>2. Spec => []TimerInv
  BY TypeCorrect, TimerInit, TimerStep, PTL DEF Spec
<1> QED BY <1>1, <1>2, PTL

-----------------------------------------------------------------------------
(* The order of a batch.                                                   *)

\* Everything active comes after event n, due at d.
After(d, n, ev, act) ==
    /\ d \in Nat /\ n \in 0 .. 6
    /\ \A f \in act : ev[f] > d \/ (ev[f] = d /\ f > n)

OrderInv ==
    /\ ~InBatch => last = <<>>
    /\ last = <<>> \/ After(last[1], last[2], events, active_events)
    /\ Handling => last # <<>> /\ last[1] = current_event_due

\* Outside a batch nothing has been dispatched yet.
LEMMA OrderNone ==
    ASSUME last' = <<>>, pc' \notin {"line240", "line308", "sample", "overflow"}
    PROVE  OrderInv'
  BY DEF OrderInv, Handling

\* A handler puts its event behind the one it serves.
LEMMA OrderPut ==
    ASSUME TypeInv, OrderInv, Handling, NEW d \in Nat, d >= 1, MaxClock + d <= MAX,
           NEW e \in Event, ScheduleFromDue(d, e), UNCHANGED last
    PROVE  After(last'[1], last'[2], events', active_events')
<1>1. /\ last # <<>> /\ last[1] = current_event_due
      /\ After(last[1], last[2], events, active_events)
  BY DEF OrderInv
<1>2. /\ FromDue(d) = current_event_due + d /\ FromDue(d) \in 0 .. MAX
      /\ current_event_due \in Nat
  BY DueFacts
<1>3. /\ active_events' = active_events \cup {e}
      /\ events'[e] = current_event_due + d
      /\ \A f \in Event \ {e} : events'[f] = events[f]
  BY <1>2, PutFacts DEF ScheduleFromDue
<1>4. active_events \in SUBSET Event
  BY DEF TypeInv, Shape
<1>5. ASSUME NEW f \in active_events'
      PROVE  events'[f] > last[1] \/ (events'[f] = last[1] /\ f > last[2])
  <2>1. CASE f = e
    BY <1>1, <1>2, <1>3, <2>1
  <2>2. CASE f # e
    BY <1>1, <1>3, <1>4, <2>2 DEF After
  <2> QED BY <2>1, <2>2
<1> QED BY <1>1, <1>5 DEF After

\* The earliest due event comes before all others.
LEMMA FirstIsFirst ==
    ASSUME TypeInv, NEW e \in Event, IsDue(e), ComesFirst(e)
    PROVE  After(events[e], e, events, active_events \ {e})
<1>1. /\ events \in [Event -> 0 .. MAX] /\ active_events \in SUBSET Event
      /\ cycle_count \in Nat /\ MAX \in Nat
  BY Constants DEF TypeInv, Shape
<1>2. events[e] \in Nat /\ e \in 0 .. 6 /\ events[e] <= cycle_count /\ events[e] < MAX
  BY <1>1, Numbers DEF IsDue
<1>3. ASSUME NEW f \in active_events \ {e}
      PROVE  events[f] > events[e] \/ (events[f] = events[e] /\ f > e)
  <2>1. f \in Event /\ events[f] \in 0 .. MAX /\ f \in 0 .. 6 /\ f # e
    BY <1>1, Numbers
  <2>2. CASE IsDue(f)
    BY <1>2, <2>1, <2>2 DEF ComesFirst
  <2>3. CASE ~IsDue(f)
    <3>1. ~(events[f] <= cycle_count /\ events[f] < MAX)
      BY <2>3 DEF IsDue
    <3> QED BY <1>1, <1>2, <2>1, <3>1
  <2> QED BY <2>2, <2>3
<1> QED BY <1>2, <1>3 DEF After

LEMMA OrderInit == Init => OrderInv
  BY DEF Init, OrderInv, Handling

LEMMA OrderStep ==
    TypeInv /\ OrderInv /\ [Next]_vars =>
        /\ OrderInv'
        /\ last # <<>> /\ last' # <<>> /\ last' # last =>
              last[1] < last'[1] \/ (last[1] = last'[1] /\ last[2] < last'[2])
<1> SUFFICES ASSUME TypeInv, OrderInv, [Next]_vars
             PROVE  /\ OrderInv'
                    /\ last # <<>> /\ last' # <<>> /\ last' # last =>
                          last[1] < last'[1] \/ (last[1] = last'[1] /\ last[2] < last'[2])
  OBVIOUS
<1> DEFINE Goal == /\ OrderInv'
                   /\ last # <<>> /\ last' # <<>> /\ last' # last =>
                         last[1] < last'[1] \/ (last[1] = last'[1] /\ last[2] < last'[2])
<1>1. ASSUME UNCHANGED last, OrderInv' PROVE Goal
  BY <1>1
<1>2. ASSUME last' = <<>>, OrderInv' PROVE Goal
  BY <1>2
<1>3. ASSUME ~InBatch, UNCHANGED last,
             pc' \notin {"line240", "line308", "sample", "overflow"}
      PROVE  Goal
  BY <1>1, <1>3, OrderNone DEF OrderInv
<1>4. ASSUME NEW t \in Timers, (\E v \in Reloads : SetCntL(t, v)) \/ GetCntL(t) PROVE Goal
  BY <1>3, <1>4, ChannelWrites DEF Accessing, InBatch
<1>5. ASSUME NEW t \in Timers, NEW start \in BOOLEAN, NEW up \in BOOLEAN,
             NEW shift \in Shifts, SetCntH(t, start, up, shift)
      PROVE  Goal
  BY <1>3, <1>5 DEF SetCntH, Accessing, InBatch
<1>6. ASSUME NEW i \in ImmEvent, ScheduleImm(i) PROVE Goal
  BY <1>3, <1>6 DEF ScheduleImm, InBatch
<1>7. ASSUME NEW c \in 1 .. MaxSlice, Execute(c) PROVE Goal
  BY <1>3, <1>7 DEF Execute, EnterCheck, InBatch
<1>8. CASE JumpToNextEvent
  BY <1>3, <1>8 DEF JumpToNextEvent, EnterCheck, InBatch
<1>9. ASSUME NEW i \in ImmEvent, DrainImm(i) PROVE Goal
  BY <1>3, <1>9 DEF DrainImm, InBatch
<1>10. CASE DmaEnd \/ ReturnFalse \/ Resume
  BY <1>3, <1>10 DEF DmaEnd, ReturnFalse, Resume, InBatch
<1>11. CASE StartBatch
  BY <1>2, <1>11, OrderNone DEF StartBatch
<1>12. ASSUME NEW e \in Event, Dispatch(e) PROVE Goal
  <2>1. /\ IsDue(e) /\ ComesFirst(e) /\ e \in active_events
        /\ active_events' = active_events \ {e} /\ current_event_due' = events[e]
        /\ last' = <<events[e], e>> /\ events' = [events EXCEPT ![e] = 0]
        /\ pc' \in {"line240", "line308", "sample", "overflow"}
    BY <1>12 DEF Dispatch, IsDue
  <2>2. After(events[e], e, events, active_events \ {e})
    BY <2>1, FirstIsFirst
  <2>3. events \in [Event -> 0 .. MAX] /\ active_events \in SUBSET Event
    BY DEF TypeInv, Shape
  <2>4. \A f \in active_events \ {e} : events'[f] = events[f]
    BY <2>1, <2>3
  <2>5. last' # <<>> /\ last'[1] = events[e] /\ last'[2] = e
    BY <2>1
  <2>6. After(last'[1], last'[2], events', active_events')
    BY <2>1, <2>2, <2>4, <2>5 DEF After
  <2>7. OrderInv'
    BY <2>1, <2>5, <2>6 DEF OrderInv, Handling, InBatch
  <2>8. ASSUME last # <<>>
        PROVE  last[1] < last'[1] \/ (last[1] = last'[1] /\ last[2] < last'[2])
    <3>1. After(last[1], last[2], events, active_events)
      BY <2>8 DEF OrderInv
    <3>2. /\ last[1] \in Nat /\ last[2] \in Nat /\ events[e] \in 0 .. MAX /\ e \in 0 .. 6
          /\ events[e] > last[1] \/ (events[e] = last[1] /\ e > last[2])
      BY <2>1, <2>3, <3>1, Numbers DEF After
    <3> DEFINE d == last[1]
               n == last[2]
               x == events[e]
    <3>3. d < x \/ (d = x /\ n < e)
      <4>1. d \in Nat /\ n \in Nat /\ x \in Nat /\ e \in Nat /\ (x > d \/ (x = d /\ e > n))
        BY <3>2
      <4> HIDE DEF d, n, x
      <4> QED BY <4>1
    <3> QED BY <2>5, <3>3
  <2> QED BY <2>7, <2>8
<1>13. ASSUME Handling, NEW d \in Nat, d >= 1, MaxClock + d <= MAX, NEW e \in Event,
              ScheduleFromDue(d, e), UNCHANGED last,
              pc' \in {"dispatch", "hook"}
       PROVE  Goal
  <2>1. After(last'[1], last'[2], events', active_events')
    BY <1>13, OrderPut
  <2> QED BY <1>1, <1>13, <2>1 DEF OrderInv, Handling, InBatch
<1>14. CASE Scanline240
  BY <1>13, <1>14, Constants, Numbers DEF Scanline240, Handling
<1>15. CASE Scanline308
  BY <1>13, <1>15, Constants, Numbers DEF Scanline308, Handling
<1>16. CASE SampleEvent
  BY <1>13, <1>16, Constants, Numbers DEF SampleEvent, Handling
<1>17. CASE TimersOverflow
  <2>1. /\ chan \in Timers /\ pc = "overflow" /\ Handling /\ pc' \in {"dispatch", "overflow"}
        /\ \/ UNCHANGED <<events, next_event_cycle, active_events>>
           \/ \E d \in Nat : /\ d >= 1 /\ MaxClock + d <= MAX
                             /\ Put(Timer(chan), FromDue(d))
    BY <1>17, OverflowCases DEF Handling
  <2>2. UNCHANGED <<last, current_event_due>>
    BY <1>17 DEF TimersOverflow
  <2>3. /\ last # <<>> /\ last[1] = current_event_due
        /\ After(last[1], last[2], events, active_events)
    BY <2>1 DEF OrderInv
  <2>4. After(last'[1], last'[2], events', active_events')
    <3>1. CASE UNCHANGED <<events, next_event_cycle, active_events>>
      BY <2>2, <2>3, <3>1
    <3>2. ASSUME NEW d \in Nat, d >= 1, MaxClock + d <= MAX,
                 Put(Timer(chan), FromDue(d))
          PROVE  After(last'[1], last'[2], events', active_events')
      <4>1. Timer(chan) \in Event /\ ScheduleFromDue(d, Timer(chan))
        BY <2>1, <3>2, Numbers DEF ScheduleFromDue
      <4> QED BY <2>1, <2>2, <3>2, <4>1, OrderPut
    <3> QED BY <2>1, <3>1, <3>2
  <2>5. OrderInv'
    BY <2>1, <2>2, <2>3, <2>4 DEF OrderInv, Handling, InBatch
  <2> QED BY <1>1, <2>2, <2>5
<1>18. CASE SaveState
  <2>1. OrderInv'
    BY <1>18 DEF SaveState, OrderInv, Handling, InBatch, cmVars
  <2> QED BY <1>1, <1>18, <2>1 DEF SaveState
<1>19. CASE LoadState \/ BootLoad
  <2>1. last' = <<>> /\ pc' \in {"dispatch", "guest"}
    BY <1>19 DEF LoadState, BootLoad, Restore
  <2> QED BY <1>2, <2>1, OrderNone
<1>20. CASE EndBatch
  BY <1>2, <1>20, EndFacts, OrderNone
<1>21. CASE UNCHANGED vars
  <2>1. OrderInv'
    BY <1>21 DEF vars, OrderInv, Handling, InBatch
  <2> QED BY <1>1, <1>21, <2>1 DEF vars
<1> QED
  BY <1>4, <1>5, <1>6, <1>7, <1>8, <1>9, <1>10, <1>11, <1>12, <1>14, <1>15, <1>16, <1>17,
     <1>18, <1>19, <1>20, <1>21
  DEF Next, GuestAccess, Slice, CheckEvents

\* Within a batch the events are dispatched in due order and ties in table
\* order, the ones that reschedule themselves into it included
\* (the scan of cm_check_events).
THEOREM BatchInDueOrder == Spec => DueOrder
<1>1. Spec => []OrderInv
  BY TypeCorrect, OrderInit, OrderStep, PTL DEF Spec
<1>2. TypeInv /\ OrderInv /\ [Next]_vars =>
          [last # <<>> /\ last' # <<>> /\ last' # last =>
              \/ last[1] < last'[1]
              \/ last[1] = last'[1] /\ last[2] < last'[2]]_vars
  BY OrderStep
<1> QED BY <1>1, <1>2, TypeCorrect, PTL DEF Spec, DueOrder

-----------------------------------------------------------------------------
(* The cached next event.                                                  *)

\* No event recurs faster than a slice overshoots.
NoCatchUp ==
    /\ HDRAW >= MaxSlice /\ HBLANK >= MaxSlice /\ SAMPLE >= MaxSlice
    /\ \A v \in Reloads \cup {0}, s \in Shifts \cup {0} :
          (TIME_OVERFLOW - v) * 2 ^ s >= MaxSlice

\* No batch that catches up ends in a rebase: the one case in which the
\* subtraction from next_event_cycle wraps.
Unhurried == NoCatchUp \/ MaxClock <= HALF

\* Nothing active is late by a slice or more.
Recent(cc, ev, act) == \A e \in act : ev[e] + MaxSlice > cc

NextBody ==
    /\ ~InBatch => \A e \in active_events : next_event_cycle <= events[e]
    /\ pc \in {"guest", "resume"} => cycle_count < next_event_cycle
    /\ pc \in {"guest", "hook"} \/ Handling => pass = 1
    /\ pass = 2 => /\ \A e \in active_events : events[e] > cycle_count
                   /\ pc = "dispatch" => next_event_cycle > cycle_count
    /\ NoCatchUp =>
          /\ Recent(cycle_count, events, active_events)
          /\ InBatch => next_event_cycle > cycle_count
          /\ Handling => current_event_due + MaxSlice > cycle_count
          /\ \A s \in saved : /\ Recent(s.cycle_count, s.events, s.active)
                              /\ s.next > s.cycle_count

NextInv == Unhurried /\ ~booted => NextBody

\* A period of a timer is no shorter than a slice.
LEMMA LongPeriod ==
    ASSUME NoCatchUp, NEW c \in Channel
    PROVE  Remaining([c EXCEPT !.value = c.cnt_l]) >= MaxSlice
<1> DEFINE b == [c EXCEPT !.value = c.cnt_l]
<1>1. b.value = c.cnt_l /\ b.shift = c.shift /\ c.cnt_l \in Reloads \cup {0}
      /\ c.shift \in Shifts \cup {0}
  BY DEF Channel
<1>2. Remaining(b) = (TIME_OVERFLOW - c.cnt_l) * 2 ^ c.shift
  BY <1>1 DEF Remaining
<1> HIDE DEF b
<1>3. (TIME_OVERFLOW - c.cnt_l) * 2 ^ c.shift >= MaxSlice
  BY <1>1, Zenon DEF NoCatchUp
<1> QED BY <1>2, <1>3 DEF b

LEMMA NextInit == Init => NextInv
<1> SUFFICES ASSUME Init PROVE NextBody
  BY DEF NextInv
<1>1. /\ events[GpuScanline240] = HDRAW /\ events[ApuSample] = SAMPLE
      /\ active_events = {GpuScanline240, ApuSample} /\ cycle_count = 0
      /\ next_event_cycle = Lesser(HDRAW, SAMPLE)
      /\ pc = "guest" /\ pass = 1 /\ saved = {}
  BY Numbers DEF Init
<1>2. next_event_cycle <= HDRAW /\ next_event_cycle <= SAMPLE /\ 0 < next_event_cycle
  BY <1>1, Constants DEF Lesser
<1>3. \A e \in active_events : next_event_cycle <= events[e]
  BY <1>1, <1>2
<1>4. Recent(cycle_count, events, active_events)
  BY <1>1, Constants DEF Recent
<1> QED BY <1>1, <1>2, <1>3, <1>4 DEF NextBody, Handling, InBatch

\* What a handler schedules is ahead of the clock.
LEMMA NextPut ==
    ASSUME TypeInv, NextBody, Handling, NEW d \in Nat, d >= 1, MaxClock + d <= MAX,
           NoCatchUp => d >= MaxSlice,
           NEW e \in Event, ScheduleFromDue(d, e),
           UNCHANGED <<cycle_count, current_event_due, pass, saved>>,
           pc' \in {"dispatch", "hook", "overflow"}
    PROVE  NextBody'
<1>1. /\ FromDue(d) = current_event_due + d /\ FromDue(d) \in 0 .. MAX
      /\ current_event_due \in Nat
  BY DueFacts
<1>2. /\ active_events' = active_events \cup {e}
      /\ events'[e] = current_event_due + d
      /\ \A f \in Event \ {e} : events'[f] = events[f]
      /\ next_event_cycle' \in {current_event_due + d, next_event_cycle}
  BY <1>1, PutFacts DEF ScheduleFromDue
<1>3. /\ active_events \in SUBSET Event /\ cycle_count \in Nat /\ MaxSlice \in Nat
      /\ next_event_cycle \in Nat /\ MaxSlice >= 1
  BY Constants DEF TypeInv, Shape
<1>4. pass = 1 /\ InBatch
  BY DEF NextBody, Handling, InBatch
<1>5. ASSUME NoCatchUp
      PROVE  /\ Recent(cycle_count', events', active_events')
             /\ next_event_cycle' > cycle_count
             /\ current_event_due + MaxSlice > cycle_count
             /\ \A s \in saved : /\ Recent(s.cycle_count, s.events, s.active)
                                 /\ s.next > s.cycle_count
  <2>1. /\ Recent(cycle_count, events, active_events) /\ next_event_cycle > cycle_count
        /\ current_event_due + MaxSlice > cycle_count
        /\ \A s \in saved : /\ Recent(s.cycle_count, s.events, s.active)
                            /\ s.next > s.cycle_count
    BY <1>4, <1>5 DEF NextBody
  <2>2. current_event_due + d > cycle_count /\ (current_event_due + d) + MaxSlice > cycle_count
    BY <1>1, <1>3, <1>5, <2>1
  <2>3. next_event_cycle' > cycle_count
    BY <1>2, <2>1, <2>2
  <2>4. ASSUME NEW f \in active_events' PROVE events'[f] + MaxSlice > cycle_count
    <3>1. CASE f = e
      BY <1>2, <2>2, <3>1
    <3>2. CASE f # e
      BY <1>2, <1>3, <2>1, <3>2 DEF Recent
    <3> QED BY <3>1, <3>2
  <2>5. Recent(cycle_count', events', active_events')
    BY <2>4 DEF Recent
  <2> QED BY <2>1, <2>3, <2>5
<1> QED BY <1>4, <1>5 DEF NextBody, Handling, InBatch

\* What leaves the scheduler alone, from outside a batch to outside a batch.
LEMMA NextKeep ==
    ASSUME NextBody, UNCHANGED <<cycle_count, events, next_event_cycle, active_events, saved>>,
           pc \in {"guest", "imm", "dma", "resume"}, pc' \in {"guest", "imm", "dma", "resume"},
           pc' \in {"guest", "resume"} => cycle_count < next_event_cycle,
           pc' = "guest" => pass' = 1,
           pass' = 2 => pass = 2
    PROVE  NextBody'
<1>1. ~InBatch /\ ~InBatch' /\ ~Handling' /\ pc' # "hook" /\ pc' # "dispatch"
  BY DEF InBatch, Handling
<1>2. /\ \A e \in active_events' : next_event_cycle' <= events'[e]
      /\ pass' = 2 => \A e \in active_events' : events'[e] > cycle_count'
  BY <1>1 DEF NextBody
<1>3. NoCatchUp => /\ Recent(cycle_count', events', active_events')
                   /\ \A s \in saved' : /\ Recent(s.cycle_count, s.events, s.active)
                                        /\ s.next > s.cycle_count
  BY DEF NextBody
<1> QED BY <1>1, <1>2, <1>3 DEF NextBody

\* A slice starts with everything ahead and passes nothing by more than its length.
LEMMA NextSlice ==
    ASSUME TypeInv, NextBody, pc = "guest", EnterCheck(1),
           UNCHANGED <<events, next_event_cycle, active_events, saved>>,
           cycle_count' \in Nat,
           cycle_count' <= cycle_count + MaxSlice \/ cycle_count' <= next_event_cycle
    PROVE  NextBody'
<1>1. /\ \A e \in active_events : next_event_cycle <= events[e]
      /\ cycle_count < next_event_cycle
      /\ NoCatchUp => \A s \in saved : /\ Recent(s.cycle_count, s.events, s.active)
                                       /\ s.next > s.cycle_count
  BY DEF NextBody, InBatch
<1>2. /\ events \in [Event -> 0 .. MAX] /\ active_events \in SUBSET Event
      /\ cycle_count \in Nat /\ next_event_cycle \in Nat /\ MaxSlice \in Nat
      /\ MaxSlice >= 1 /\ MAX \in Nat
  BY Constants DEF TypeInv, Shape
<1>3. ASSUME NEW e \in active_events PROVE events[e] + MaxSlice > cycle_count'
  <2>1. events[e] \in Nat /\ events[e] >= next_event_cycle
    BY <1>1, <1>2
  <2> QED BY <1>1, <1>2, <2>1
<1>4. Recent(cycle_count', events', active_events')
  BY <1>3 DEF Recent
<1>5. pc' = "imm" /\ pass' = 1
  BY DEF EnterCheck
<1> QED BY <1>1, <1>4, <1>5 DEF NextBody, InBatch, Handling

LEMMA NextEnd ==
    ASSUME TypeInv, NextBody, Unhurried, EndBatch
    PROVE  NextBody'
<1> DEFINE m == EarliestFrom(next_event_cycle, active_events)
<1>1. /\ \A e \in active_events : events[e] > cycle_count
      /\ active_events' = active_events /\ saved' = saved
      /\ pc = "dispatch" /\ pass' = 2 /\ pc' \in {"imm", "resume"}
      /\ pc' = "resume" => pass = 2
  BY EndFacts
<1>2. /\ m \in 0 .. MAX /\ \A e \in active_events : m <= events[e]
      /\ m = next_event_cycle \/ \E e \in active_events : m = events[e]
  BY EarliestFacts
<1>3. /\ events \in [Event -> 0 .. MAX] /\ active_events \in SUBSET Event
      /\ cycle_count \in 0 .. MaxClock /\ MaxClock \in Nat /\ HALF \in Nat
      /\ next_event_cycle \in Nat /\ MaxSlice \in Nat /\ MaxSlice >= 1 /\ MAX \in Nat
  BY Constants DEF TypeInv, Shape
<1>4. \/ ~PastHalf /\ next_event_cycle' = m /\ UNCHANGED <<cycle_count, events>>
      \/ PastHalf /\ Rebase(m)
  BY EndFacts
<1>5. pass = 2 \/ NoCatchUp => m > cycle_count
  <2>1. pass = 2 \/ NoCatchUp => next_event_cycle > cycle_count
    BY <1>1 DEF NextBody, InBatch
  <2> QED BY <1>1, <1>2, <2>1
<1>6. NoCatchUp => \A s \in saved : /\ Recent(s.cycle_count, s.events, s.active)
                                    /\ s.next > s.cycle_count
  BY DEF NextBody
<1> HIDE DEF m
<1>7. /\ \A e \in active_events : /\ next_event_cycle' <= events'[e]
                                  /\ events'[e] > cycle_count'
                                  /\ events'[e] + MaxSlice > cycle_count'
      /\ pass = 2 => next_event_cycle' > cycle_count'
  <2>1. CASE ~PastHalf /\ next_event_cycle' = m /\ UNCHANGED <<cycle_count, events>>
    <3>1. ASSUME NEW e \in active_events
          PROVE  m <= events[e] /\ events[e] > cycle_count /\ events[e] + MaxSlice > cycle_count
      <4>1. events[e] \in Nat
        BY <1>3
      <4> QED BY <1>1, <1>2, <1>3, <4>1
    <3> QED BY <1>5, <2>1, <3>1
  <2>2. CASE PastHalf /\ Rebase(m)
    <3>1. NoCatchUp
      BY <1>3, <2>2 DEF PastHalf, Unhurried
    <3>2. m > cycle_count /\ m >= cycle_count
      BY <1>2, <1>3, <1>5, <3>1
    <3>3. /\ cycle_count' = 0 /\ next_event_cycle' = m - cycle_count
          /\ \A e \in active_events : events'[e] = events[e] - cycle_count
      BY <1>1, <1>2, <2>2, <3>2, RebaseFacts
    <3>4. ASSUME NEW e \in active_events
          PROVE  /\ next_event_cycle' <= events'[e] /\ events'[e] > cycle_count'
                 /\ events'[e] + MaxSlice > cycle_count'
      <4>1. /\ events[e] \in Nat /\ events[e] > cycle_count /\ m <= events[e]
            /\ events'[e] = events[e] - cycle_count
        BY <1>1, <1>2, <1>3, <3>3
      <4> QED BY <1>2, <1>3, <3>2, <3>3, <4>1
    <3>5. next_event_cycle' > cycle_count'
      BY <1>2, <1>3, <3>2, <3>3
    <3> QED BY <3>4, <3>5
  <2> QED BY <1>4, <2>1, <2>2
<1>8. Recent(cycle_count', events', active_events')
  BY <1>1, <1>7 DEF Recent
<1> QED BY <1>1, <1>6, <1>7, <1>8 DEF NextBody, InBatch, Handling

LEMMA NextStep == TypeInv /\ NextInv /\ [Next]_vars => NextInv'
<1> SUFFICES ASSUME TypeInv, NextInv, [Next]_vars, Unhurried, ~booted' PROVE NextBody'
  BY DEF NextInv
<1>0. ~booted
  BY DEF Next, GuestAccess, Slice, CheckEvents, vars, cmVars, SetCntL, GetCntL, SetCntH,
         ScheduleImm, Execute, JumpToNextEvent, DrainImm, DmaEnd, ReturnFalse, StartBatch,
         Dispatch, Scanline240, Scanline308, SampleEvent, TimersOverflow, SaveState,
         LoadState, EndBatch, Resume, BootLoad
<1>1. NextBody
  BY <1>0 DEF NextInv
<1>2. /\ events \in [Event -> 0 .. MAX] /\ active_events \in SUBSET Event
      /\ cycle_count \in 0 .. MaxClock /\ MaxClock \in Nat /\ MaxClock < MAX
      /\ next_event_cycle \in 0 .. MAX /\ MaxSlice \in Nat /\ MaxSlice >= 1 /\ MAX \in Nat
      /\ timers \in [Timers -> Channel]
  BY Constants DEF TypeInv, Shape
<1>3. ASSUME NEW t \in Timers, (\E v \in Reloads : SetCntL(t, v)) \/ GetCntL(t)
      PROVE  NextBody'
  <2>1. UNCHANGED <<cmVars, pc, pass, saved>> /\ pc \in {"guest", "dma"}
    BY <1>3, ChannelWrites DEF Accessing
  <2>2. /\ pc = "guest" => cycle_count < next_event_cycle
        /\ pc = "guest" => pass = 1
    BY <1>1 DEF NextBody
  <2> QED BY <1>1, <2>1, <2>2, NextKeep DEF cmVars
<1>4. ASSUME NEW t \in Timers, NEW start \in BOOLEAN, NEW up \in BOOLEAN,
             NEW shift \in Shifts, SetCntH(t, start, up, shift)
      PROVE  NextBody'
  <2>1. UNCHANGED <<cycle_count, pc, pass, saved>> /\ pc \in {"guest", "dma"}
    BY <1>4 DEF SetCntH, Accessing
  <2>2. /\ \A e \in active_events : next_event_cycle <= events[e]
        /\ pc = "guest" => cycle_count < next_event_cycle /\ pass = 1
        /\ pass = 2 => \A e \in active_events : events[e] > cycle_count
        /\ NoCatchUp => /\ Recent(cycle_count, events, active_events)
                        /\ \A s \in saved : /\ Recent(s.cycle_count, s.events, s.active)
                                            /\ s.next > s.cycle_count
    BY <1>1, <2>1 DEF NextBody, InBatch
  <2>3. CASE UNCHANGED <<events, active_events, next_event_cycle>>
    BY <1>1, <2>1, <2>2, <2>3, NextKeep
  <2>4. ASSUME NEW d \in Nat, d >= 1, cycle_count + d <= MAX,
               Put(Timer(t), cycle_count + d)
        PROVE  NextBody'
    <3> DEFINE a == cycle_count + d
    <3>1. a \in 0 .. MAX /\ a > cycle_count /\ a + MaxSlice > cycle_count /\ Put(Timer(t), a)
      BY <1>2, <2>4
    <3> HIDE DEF a
    <3>2. Timer(t) \in Event
      BY Numbers
    <3>3. /\ active_events' = active_events \cup {Timer(t)} /\ events'[Timer(t)] = a
          /\ \A f \in Event \ {Timer(t)} : events'[f] = events[f]
          /\ next_event_cycle' <= a /\ next_event_cycle' <= next_event_cycle
          /\ next_event_cycle' \in {a, next_event_cycle} /\ next_event_cycle' \in 0 .. MAX
      BY <3>1, <3>2, PutFacts
    <3>4. ASSUME NEW e \in active_events'
          PROVE  /\ next_event_cycle' <= events'[e]
                 /\ pass = 2 => events'[e] > cycle_count
                 /\ NoCatchUp => events'[e] + MaxSlice > cycle_count
      <4>1. CASE e = Timer(t)
        BY <3>1, <3>3, <4>1
      <4>2. CASE e # Timer(t)
        <5>1. e \in active_events /\ events'[e] = events[e] /\ events[e] \in Nat
          BY <1>2, <3>3, <4>2
        <5>2. next_event_cycle <= events[e]
          BY <2>2, <5>1
        <5>3. next_event_cycle' <= events[e]
          BY <1>2, <3>3, <5>1, <5>2
        <5> QED BY <2>2, <5>1, <5>3 DEF Recent
      <4> QED BY <4>1, <4>2
    <3>5. pc = "guest" => cycle_count < next_event_cycle'
      BY <2>2, <3>1, <3>3
    <3>6. NoCatchUp => Recent(cycle_count', events', active_events')
      BY <2>1, <3>4 DEF Recent
    <3> QED BY <2>1, <2>2, <3>4, <3>5, <3>6 DEF NextBody, InBatch, Handling
  <2> QED BY <1>4, <2>3, <2>4, CntHCases
<1>5. ASSUME NEW i \in ImmEvent, ScheduleImm(i) PROVE NextBody'
  <2>1. pc = "guest" => cycle_count < next_event_cycle /\ pass = 1
    BY <1>1 DEF NextBody
  <2> QED BY <1>1, <1>5, <2>1, NextKeep DEF ScheduleImm
<1>6. ASSUME NEW c \in 1 .. MaxSlice, Execute(c) PROVE NextBody'
  <2>1. cycle_count' \in Nat /\ cycle_count' <= cycle_count + MaxSlice
    BY <1>2, <1>6 DEF Execute
  <2> QED BY <1>1, <1>6, <2>1, NextSlice DEF Execute
<1>7. CASE JumpToNextEvent
  <2>1. cycle_count' \in Nat /\ (cycle_count' <= cycle_count + MaxSlice \/ cycle_count' <= next_event_cycle)
    BY <1>2, <1>7 DEF JumpToNextEvent
  <2> QED BY <1>1, <1>7, <2>1, NextSlice DEF JumpToNextEvent
<1>8. ASSUME NEW i \in ImmEvent, DrainImm(i) PROVE NextBody'
  BY <1>1, <1>8, NextKeep DEF DrainImm, cmVars
<1>9. CASE DmaEnd
  BY <1>1, <1>9, NextKeep DEF DmaEnd
<1>10. CASE ReturnFalse
  BY <1>1, <1>10, NextKeep DEF ReturnFalse, cmVars
<1>11. CASE Resume
  <2>1. pc = "resume" /\ cycle_count < next_event_cycle
    BY <1>1, <1>11 DEF Resume, NextBody
  <2> QED BY <1>1, <1>11, <2>1, NextKeep DEF Resume, cmVars
<1>12. CASE StartBatch
  <2>1. /\ pc = "imm" /\ pc' = "dispatch" /\ next_event_cycle' = MAX
        /\ UNCHANGED <<cycle_count, events, active_events, saved, pass>>
    BY <1>12 DEF StartBatch
  <2>2. next_event_cycle' > cycle_count'
    BY <1>2, <2>1
  <2> QED BY <1>1, <2>1, <2>2 DEF NextBody, InBatch, Handling
<1>13. ASSUME NEW e \in Event, Dispatch(e) PROVE NextBody'
  <2>1. /\ pc = "dispatch" /\ e \in active_events /\ events[e] <= cycle_count
        /\ active_events' = active_events \ {e} /\ current_event_due' = events[e]
        /\ events' = [events EXCEPT ![e] = 0]
        /\ pc' \in {"line240", "line308", "sample", "overflow"}
        /\ UNCHANGED <<cycle_count, next_event_cycle, pass, saved>>
    BY <1>13 DEF Dispatch, IsDue
  <2>2. events[e] \in Nat /\ cycle_count \in Nat
    BY <1>2
  <2>3. pass = 1
    <3>1. ~(events[e] > cycle_count)
      BY <2>1, <2>2
    <3>2. pass # 2
      BY <1>1, <2>1, <3>1 DEF NextBody
    <3> QED BY <3>2 DEF TypeInv
  <2>4. ASSUME NoCatchUp
        PROVE  /\ Recent(cycle_count', events', active_events')
               /\ next_event_cycle' > cycle_count'
               /\ current_event_due' + MaxSlice > cycle_count'
               /\ \A s \in saved' : /\ Recent(s.cycle_count, s.events, s.active)
                                    /\ s.next > s.cycle_count
    <3>1. /\ Recent(cycle_count, events, active_events) /\ next_event_cycle > cycle_count
          /\ \A s \in saved : /\ Recent(s.cycle_count, s.events, s.active)
                              /\ s.next > s.cycle_count
      BY <1>1, <2>1, <2>4 DEF NextBody, InBatch
    <3>2. \A f \in active_events' : f \in active_events /\ events'[f] = events[f]
      BY <1>2, <2>1
    <3>3. Recent(cycle_count', events', active_events')
      BY <2>1, <3>1, <3>2 DEF Recent
    <3>4. current_event_due' + MaxSlice > cycle_count'
      BY <2>1, <3>1 DEF Recent
    <3> QED BY <2>1, <3>1, <3>3, <3>4
  <2> QED BY <2>1, <2>3, <2>4 DEF NextBody, InBatch, Handling
<1>14. CASE Scanline240
  <2>1. NoCatchUp => HBLANK >= MaxSlice
    BY DEF NoCatchUp
  <2> QED BY <1>1, <1>14, <2>1, Constants, Numbers, NextPut DEF Scanline240, Handling
<1>15. CASE Scanline308
  <2>1. NoCatchUp => HDRAW >= MaxSlice
    BY DEF NoCatchUp
  <2> QED BY <1>1, <1>15, <2>1, Constants, Numbers, NextPut DEF Scanline308, Handling
<1>16. CASE SampleEvent
  <2>1. NoCatchUp => SAMPLE >= MaxSlice
    BY DEF NoCatchUp
  <2> QED BY <1>1, <1>16, <2>1, Constants, Numbers, NextPut DEF SampleEvent, Handling
<1>17. CASE TimersOverflow
  <2>1. /\ chan \in Timers /\ pc = "overflow" /\ Handling /\ pc' \in {"dispatch", "overflow"}
        /\ \/ UNCHANGED <<events, next_event_cycle, active_events>>
           \/ \E d \in Nat :
                 /\ d = Remaining([timers[chan] EXCEPT !.value = timers[chan].cnt_l])
                 /\ d >= 1 /\ MaxClock + d <= MAX
                 /\ Put(Timer(chan), FromDue(d))
    BY <1>17, OverflowCases DEF Handling
  <2>2. UNCHANGED <<cycle_count, current_event_due, pass, saved>>
    BY <1>17 DEF TimersOverflow
  <2>3. CASE UNCHANGED <<events, next_event_cycle, active_events>>
    BY <1>1, <2>1, <2>2, <2>3 DEF NextBody, InBatch, Handling
  <2>4. ASSUME NEW d \in Nat,
               d = Remaining([timers[chan] EXCEPT !.value = timers[chan].cnt_l]),
               d >= 1, MaxClock + d <= MAX, Put(Timer(chan), FromDue(d))
        PROVE  NextBody'
    <3>1. Timer(chan) \in Event /\ ScheduleFromDue(d, Timer(chan))
      BY <2>1, <2>4, Numbers DEF ScheduleFromDue
    <3>2. NoCatchUp => d >= MaxSlice
      <4>1. timers[chan] \in Channel
        BY <1>2, <2>1
      <4> QED BY <2>4, <4>1, LongPeriod
    <3> QED BY <1>1, <2>1, <2>2, <2>4, <3>1, <3>2, NextPut
  <2> QED BY <2>1, <2>3, <2>4
<1>18. CASE SaveState
  <2>1. /\ UNCHANGED <<cmVars, pass>> /\ pc = "hook"
        /\ pc' = "dispatch" /\ saved' = {Snapshot}
    BY <1>18 DEF SaveState
  <2>2. pass = 1 /\ InBatch
    BY <1>1, <2>1 DEF NextBody, InBatch
  <2>3. NoCatchUp => /\ Recent(cycle_count, events, active_events)
                     /\ next_event_cycle > cycle_count
    BY <1>1, <2>2 DEF NextBody
  <2>4. NoCatchUp => \A s \in saved' : /\ Recent(s.cycle_count, s.events, s.active)
                                       /\ s.next > s.cycle_count
    BY <2>1, <2>3, SnapshotFields
  <2> QED BY <2>1, <2>2, <2>3, <2>4 DEF NextBody, InBatch, Handling, cmVars
<1>19. CASE LoadState
  <2>1. PICK s \in saved : Restore(s)
    BY <1>19 DEF LoadState
  <2>2. /\ cycle_count' = s.cycle_count /\ events' = s.events /\ active_events' = s.active
        /\ next_event_cycle' = s.next /\ saved' = saved /\ pass' = pass
        /\ pc = "hook" /\ pc' = "dispatch"
    BY <1>19, <2>1 DEF LoadState, Restore
  <2>3. pass = 1
    BY <1>1, <2>2 DEF NextBody
  <2>4. NoCatchUp => \A r \in saved : /\ Recent(r.cycle_count, r.events, r.active)
                                      /\ r.next > r.cycle_count
    BY <1>1 DEF NextBody
  <2> QED BY <2>2, <2>3, <2>4 DEF NextBody, InBatch, Handling
<1>20. CASE EndBatch
  BY <1>1, <1>20, NextEnd
<1>21. CASE BootLoad
  BY <1>21 DEF BootLoad
<1>22. CASE UNCHANGED vars
  BY <1>1, <1>22 DEF vars, NextBody, InBatch, Handling
<1> QED
  BY <1>3, <1>4, <1>5, <1>6, <1>7, <1>8, <1>9, <1>10, <1>11, <1>12, <1>13, <1>14, <1>15,
     <1>16, <1>17, <1>18, <1>19, <1>20, <1>21, <1>22
  DEF Next, GuestAccess, Slice, CheckEvents

\* The fast return of cm_check_events skips no event and jump_to_next_event
\* passes none, in every session that is not started from a savestate, as long
\* as no timer faster than a slice catches up in the batch that rebases.
THEOREM NextEventNeverLate == Unhurried => (Spec => []NextEventSound)
<1> SUFFICES ASSUME Unhurried PROVE Spec => []NextEventSound
  OBVIOUS
<1>1. NextInv => NextEventSound
  BY DEF NextInv, NextBody, NextEventSound, InBatch
<1>2. Spec => []NextInv
  BY TypeCorrect, NextInit, NextStep, PTL DEF Spec
<1> QED BY <1>1, <1>2, PTL
=============================================================================
