-------------------------- MODULE Interrupts_proofs --------------------------
(***************************************************************************)
(* Proofs about Interrupts for every set of lines, channels and waited     *)
(* flags and every nesting depth.  IrqInv is inductive; each of its parts  *)
(* is preserved by a lemma of its own, with a step for each action.        *)
(***************************************************************************)
EXTENDS Interrupts, TLAPS

\* Every step is one of these (cpu_regs.rs, bios.rs, dma.rs, execute_jit).
LEMMA StepCases ==
    ASSUME [Next]_vars
    PROVE  \/ \E v \in BOOLEAN : SetIme(v)
           \/ \E v \in BOOLEAN : SetCpsr(v)
           \/ \E v \in SUBSET Flag : SetIe(v)
           \/ \E v \in SUBSET Flag : SetIrf(v)
           \/ \E v \in SUBSET Waited : WriteWaitWord(v)
           \/ SetHaltCnt
           \/ \E c \in Channels, v \in Cnt : SetDmaCnt(c, v)
           \/ SwiHalt
           \/ \E d \in BOOLEAN, w \in (SUBSET Waited) \ {{}} : InterruptWait(d, w)
           \/ Uninterrupt
           \/ \E i \in BOOLEAN : EndSlice(i)
           \/ Execute \/ JumpToNextEvent \/ BeginDrain
           \/ OnInterruptEvent
           \/ \E c \in Channels : OnDmaEvent(c)
           \/ EndDrain \/ EndEvents \/ EndSecondDrain
           \/ \E l \in Lines, on \in BOOLEAN : TimedEvent(l, on)
           \/ UNCHANGED vars
BY DEF Next, GuestStep, LoopStep, DispatchImm

\* The events and flags are numbers, those of two channels are different, and
\* none is the interrupt's.
LEMMA EventNumbers ==
    /\ Lines \subseteq Nat /\ Channels \subseteq Nat /\ MaxDepth \in Nat
    /\ \A c \in Channels : DmaEvent(c) \in Imm /\ DmaEvent(c) # CpuInterrupt /\ DmaFlag(c) \in Flag
    /\ \A c, d \in Channels : DmaEvent(c) = DmaEvent(d) => c = d
    /\ Lines \subseteq Flag /\ CpuInterrupt \in Imm
BY InterruptsAssumption DEF DmaEvent, CpuInterrupt, Imm, Flag, DmaFlag

\* Triggered transfers are events of enabled channels.
LEMMA TriggeredChannels ==
    ASSUME NEW mode
    PROVE  /\ Triggered(mode) \subseteq Imm
           /\ CpuInterrupt \notin Triggered(mode)
           /\ \A c \in Channels : DmaEvent(c) \in Triggered(mode) => cnt[c].enable
BY EventNumbers DEF Triggered, Imm

\* The depths, their neighbours, and the mark of no waiting call.
LEMMA Depths ==
    /\ \A n \in 0 .. MaxDepth : n \in 0 .. NoWaiter /\ n # NoWaiter
    /\ NoWaiter \in 0 .. NoWaiter /\ 0 \in 0 .. MaxDepth
    /\ \A n \in 0 .. MaxDepth : n > 0 => n - 1 \in 0 .. MaxDepth
    /\ \A n \in 0 .. MaxDepth : n < MaxDepth => n + 1 \in 0 .. MaxDepth
BY EventNumbers DEF NoWaiter

LEMMA DepthNumbers == TypeOK => depth \in Nat /\ waiter \in Nat
<1> SUFFICES ASSUME TypeOK PROVE depth \in Nat /\ waiter \in Nat
  OBVIOUS
<1>1. depth \in 0 .. MaxDepth /\ waiter \in 0 .. (MaxDepth + 1)
  BY Zenon DEF TypeOK, NoWaiter
<1> QED
  BY <1>1, InterruptsAssumption

-----------------------------------------------------------------------------
(* Types.                                                                  *)

LEMMA InitType == Init => TypeOK
<1> SUFFICES ASSUME Init PROVE TypeOK
  OBVIOUS
<1>1. CntOff \in Cnt
  BY DEF CntOff, Cnt, Mode
<1>2. cnt \in [Channels -> Cnt]
  BY <1>1 DEF Init
<1>3. depth \in 0 .. MaxDepth /\ waiter \in 0 .. NoWaiter
  BY EventNumbers DEF Init, NoWaiter
<1> QED
  BY <1>2, <1>3 DEF Init, TypeOK

LEMMA SendType ==
    ASSUME TypeOK, NEW F \in SUBSET Flag, NEW m \in SUBSET Imm, SendInterrupt(F, m)
    PROVE  /\ irf' \in SUBSET Flag /\ imm' \in SUBSET Imm /\ halt' \in BOOLEAN
           /\ waiter' \in 0 .. NoWaiter
<1>1. irf' \in SUBSET Flag /\ imm' \in SUBSET Imm
  BY EventNumbers DEF TypeOK, SendInterrupt
<1>2. halt' \in BOOLEAN
  BY Zenon DEF TypeOK, SendInterrupt
<1>3. waiter' \in 0 .. NoWaiter
  BY Depths, Zenon DEF TypeOK, SendInterrupt
<1> QED
  BY <1>1, <1>2, <1>3

LEMMA TypeStep == TypeOK /\ Nesting /\ [Next]_vars => TypeOK'
<1> SUFFICES ASSUME TypeOK, Nesting, [Next]_vars
             PROVE  TypeOK'
  OBVIOUS
<1> USE EventNumbers DEF TypeOK
<1>1. ASSUME NEW v \in BOOLEAN, SetIme(v) PROVE TypeOK'
  BY <1>1 DEF SetIme, CheckForInterrupt, Stay, loop, bios, Guest
<1>2. ASSUME NEW v \in BOOLEAN, SetCpsr(v) PROVE TypeOK'
  BY <1>2 DEF SetCpsr, CheckForInterrupt, Stay, loop, bios, Guest
<1>3. ASSUME NEW v \in SUBSET Flag, SetIe(v) PROVE TypeOK'
  BY <1>3 DEF SetIe, CheckForInterrupt, Stay, loop, bios, Guest
<1>4. ASSUME NEW v \in SUBSET Flag, SetIrf(v) PROVE TypeOK'
  BY <1>4 DEF SetIrf, Stay, loop, bios, Guest
<1>5. ASSUME NEW v \in SUBSET Waited, WriteWaitWord(v) PROVE TypeOK'
  BY <1>5 DEF WriteWaitWord, Stay, loop, cpu, Guest
<1>6. CASE SetHaltCnt
  BY <1>6 DEF SetHaltCnt, Stay, loop, bios, Guest
<1>7. ASSUME NEW c \in Channels, NEW v \in Cnt, SetDmaCnt(c, v) PROVE TypeOK'
  BY <1>7 DEF SetDmaCnt, Stay, Leave, loop, bios, cpu, Guest
<1>8. CASE SwiHalt
  BY <1>8 DEF SwiHalt, Leave, bios, Guest
<1>9. ASSUME NEW d \in BOOLEAN, NEW w \in (SUBSET Waited) \ {{}}, InterruptWait(d, w) PROVE TypeOK'
  <2>1. halt' \in BOOLEAN /\ bios_wait_flags' \in SUBSET Waited /\ wait_word' \in SUBSET Waited
    BY <1>9 DEF InterruptWait, CheckWaitFlags
  <2>2. waiter' \in 0 .. NoWaiter
    BY <1>9, Depths, Zenon DEF InterruptWait
  <2>3. /\ pc' \in {"loop", "guest", "left", "drain", "events", "drain again"}
        /\ due' \in BOOLEAN /\ idle' \in BOOLEAN /\ todo' \in SUBSET Imm
    BY <1>9 DEF InterruptWait, Stay, Leave, loop
  <2> QED
    BY <1>9, <2>1, <2>2, <2>3 DEF InterruptWait
<1>10. CASE Uninterrupt
  <2>1. halt' \in BOOLEAN /\ bios_wait_flags' \in SUBSET Waited /\ wait_word' \in SUBSET Waited
    BY <1>10 DEF Uninterrupt, CheckWaitFlags
  <2>2. depth' \in 0 .. MaxDepth /\ irq_disable' \in BOOLEAN
    BY <1>10, Depths, Zenon DEF Uninterrupt
  <2>3. /\ pc' \in {"loop", "guest", "left", "drain", "events", "drain again"}
        /\ due' \in BOOLEAN /\ idle' \in BOOLEAN /\ todo' \in SUBSET Imm
    BY <1>10 DEF Uninterrupt, Stay, Leave, loop
  <2>4. imm' \in SUBSET Imm
    BY <1>10 DEF Uninterrupt, CheckForInterrupt
  <2> QED
    BY <1>10, <2>1, <2>2, <2>3, <2>4 DEF Uninterrupt
<1>11. ASSUME NEW i \in BOOLEAN, EndSlice(i) PROVE TypeOK'
  BY <1>11 DEF EndSlice, cpu, bios, Guest
<1>12. CASE Execute
  BY <1>12 DEF Execute, cpu, bios, loop
<1>13. CASE JumpToNextEvent
  BY <1>13 DEF JumpToNextEvent, cpu, bios
<1>14. CASE BeginDrain
  BY <1>14 DEF BeginDrain, cpu, bios
<1>15. CASE OnInterruptEvent
  <2>1. depth' \in 0 .. MaxDepth
    BY <1>15, Depths, Zenon DEF OnInterruptEvent, Deliverable, Nesting
  <2>2. irq_disable' \in BOOLEAN /\ halt' \in BOOLEAN
    BY <1>15 DEF OnInterruptEvent
  <2> QED
    BY <1>15, <2>1, <2>2 DEF OnInterruptEvent, bios
<1>16. ASSUME NEW c \in Channels, OnDmaEvent(c) PROVE TypeOK'
  <2>1. (IF cnt[c].irq THEN {DmaFlag(c)} ELSE {}) \in SUBSET Flag
    OBVIOUS
  <2>2. SendInterrupt(IF cnt[c].irq THEN {DmaFlag(c)} ELSE {}, imm)
    BY <1>16 DEF OnDmaEvent
  <2>3. cnt' \in [Channels -> Cnt]
    <3>1. [cnt[c] EXCEPT !.enable = @ /\ cnt[c].repeat /\ cnt[c].mode # "imm"] \in Cnt
      BY DEF Cnt
    <3> QED
      BY <1>16, <3>1 DEF OnDmaEvent
  <2>4. /\ irf' \in SUBSET Flag /\ imm' \in SUBSET Imm /\ halt' \in BOOLEAN
        /\ waiter' \in 0 .. NoWaiter
    BY <2>1, <2>2, SendType
  <2> QED
    BY <1>16, <2>3, <2>4 DEF OnDmaEvent
<1>17. CASE EndDrain
  BY <1>17 DEF EndDrain, cpu, bios, loop
<1>18. CASE EndEvents
  BY <1>18 DEF EndEvents, cpu, bios
<1>19. CASE EndSecondDrain
  BY <1>19 DEF EndSecondDrain, cpu, bios, loop
<1>20. ASSUME NEW l \in Lines, NEW on \in BOOLEAN, TimedEvent(l, on) PROVE TypeOK'
  <2>1. (IF on THEN {l} ELSE {}) \in SUBSET Flag /\ imm \cup Triggered(ModeOf(l)) \in SUBSET Imm
    BY TriggeredChannels
  <2>2. SendInterrupt(IF on THEN {l} ELSE {}, imm \cup Triggered(ModeOf(l)))
    BY <1>20 DEF TimedEvent
  <2>3. /\ irf' \in SUBSET Flag /\ imm' \in SUBSET Imm /\ halt' \in BOOLEAN
        /\ waiter' \in 0 .. NoWaiter
    BY <2>1, <2>2, SendType
  <2> QED
    BY <1>20, <2>3 DEF TimedEvent, loop
<1>21. CASE UNCHANGED vars
  BY <1>21 DEF vars
<1> QED
  BY StepCases, <1>1, <1>2, <1>3, <1>4, <1>5, <1>6, <1>7, <1>8, <1>9, <1>10, <1>11, <1>12,
     <1>13, <1>14, <1>15, <1>16, <1>17, <1>18, <1>19, <1>20, <1>21

-----------------------------------------------------------------------------
(* Where the mask and the drained events can be filled.                    *)

LEMMA DrainStep == TypeOK /\ DrainPlaces /\ [Next]_vars => DrainPlaces'
<1> SUFFICES ASSUME TypeOK, DrainPlaces, [Next]_vars
             PROVE  DrainPlaces'
  OBVIOUS
<1> USE EventNumbers DEF DrainPlaces, TypeOK
<1>1. ASSUME NEW v \in BOOLEAN, SetIme(v) PROVE DrainPlaces'
  BY <1>1 DEF SetIme, CheckForInterrupt, Stay, loop, bios, Guest
<1>2. ASSUME NEW v \in BOOLEAN, SetCpsr(v) PROVE DrainPlaces'
  BY <1>2 DEF SetCpsr, CheckForInterrupt, Stay, loop, bios, Guest
<1>3. ASSUME NEW v \in SUBSET Flag, SetIe(v) PROVE DrainPlaces'
  BY <1>3 DEF SetIe, CheckForInterrupt, Stay, loop, bios, Guest
<1>4. ASSUME NEW v \in SUBSET Flag, SetIrf(v) PROVE DrainPlaces'
  BY <1>4 DEF SetIrf, Stay, loop, bios, Guest
<1>5. ASSUME NEW v \in SUBSET Waited, WriteWaitWord(v) PROVE DrainPlaces'
  BY <1>5 DEF WriteWaitWord, Stay, loop, cpu, Guest
<1>6. CASE SetHaltCnt
  BY <1>6 DEF SetHaltCnt, Stay, loop, bios, Guest
<1>7. ASSUME NEW c \in Channels, NEW v \in Cnt, SetDmaCnt(c, v) PROVE DrainPlaces'
  BY <1>7 DEF SetDmaCnt, Stay, Leave, loop, bios, cpu, Guest
<1>8. CASE SwiHalt
  BY <1>8 DEF SwiHalt, Leave, bios, Guest
<1>9. ASSUME NEW d \in BOOLEAN, NEW w \in (SUBSET Waited) \ {{}}, InterruptWait(d, w) PROVE DrainPlaces'
  BY <1>9 DEF InterruptWait, CheckWaitFlags, Stay, Leave, loop, Guest
<1>10. CASE Uninterrupt
  BY <1>10 DEF Uninterrupt, CheckWaitFlags, CheckForInterrupt, Stay, Leave, loop, Guest
<1>11. ASSUME NEW i \in BOOLEAN, EndSlice(i) PROVE DrainPlaces'
  BY <1>11 DEF EndSlice, cpu, bios, Guest
<1>12. CASE Execute
  BY <1>12 DEF Execute, cpu, bios, loop
<1>13. CASE JumpToNextEvent
  BY <1>13 DEF JumpToNextEvent, cpu, bios
<1>14. CASE BeginDrain
  BY <1>14 DEF BeginDrain, cpu, bios
<1>15. CASE OnInterruptEvent
  BY <1>15 DEF OnInterruptEvent, bios
<1>16. ASSUME NEW c \in Channels, OnDmaEvent(c) PROVE DrainPlaces'
  BY <1>16 DEF OnDmaEvent, SendInterrupt
<1>17. CASE EndDrain
  BY <1>17 DEF EndDrain, cpu, bios, loop
<1>18. CASE EndEvents
  BY <1>18 DEF EndEvents, cpu, bios
<1>19. CASE EndSecondDrain
  BY <1>19 DEF EndSecondDrain, cpu, bios, loop
<1>20. ASSUME NEW l \in Lines, NEW on \in BOOLEAN, TimedEvent(l, on) PROVE DrainPlaces'
  BY <1>20 DEF TimedEvent, SendInterrupt, loop
<1>21. CASE UNCHANGED vars
  BY <1>21 DEF vars
<1> QED
  BY StepCases, <1>1, <1>2, <1>3, <1>4, <1>5, <1>6, <1>7, <1>8, <1>9, <1>10, <1>11, <1>12,
     <1>13, <1>14, <1>15, <1>16, <1>17, <1>18, <1>19, <1>20, <1>21

-----------------------------------------------------------------------------
(* Room for a handler.                                                     *)

LEMMA NestingStep == TypeOK /\ Nesting /\ [Next]_vars => Nesting'
<1> SUFFICES ASSUME TypeOK, Nesting, [Next]_vars
             PROVE  Nesting'
  OBVIOUS
<1> USE EventNumbers DEF Nesting, TypeOK
<1>1. ASSUME NEW v \in BOOLEAN, SetIme(v) PROVE Nesting'
  BY <1>1 DEF SetIme, CheckForInterrupt, Stay, loop, bios, Guest
<1>2. ASSUME NEW v \in BOOLEAN, SetCpsr(v) PROVE Nesting'
  BY <1>2 DEF SetCpsr, CheckForInterrupt, Stay, loop, bios, Guest
<1>3. ASSUME NEW v \in SUBSET Flag, SetIe(v) PROVE Nesting'
  BY <1>3 DEF SetIe, CheckForInterrupt, Stay, loop, bios, Guest
<1>4. ASSUME NEW v \in SUBSET Flag, SetIrf(v) PROVE Nesting'
  BY <1>4 DEF SetIrf, Stay, loop, bios, Guest
<1>5. ASSUME NEW v \in SUBSET Waited, WriteWaitWord(v) PROVE Nesting'
  BY <1>5 DEF WriteWaitWord, Stay, loop, cpu, Guest
<1>6. CASE SetHaltCnt
  BY <1>6 DEF SetHaltCnt, Stay, loop, bios, Guest
<1>7. ASSUME NEW c \in Channels, NEW v \in Cnt, SetDmaCnt(c, v) PROVE Nesting'
  BY <1>7 DEF SetDmaCnt, Stay, Leave, loop, bios, cpu, Guest
<1>8. CASE SwiHalt
  BY <1>8 DEF SwiHalt, Leave, bios, Guest
<1>9. ASSUME NEW d \in BOOLEAN, NEW w \in (SUBSET Waited) \ {{}}, InterruptWait(d, w) PROVE Nesting'
  BY <1>9 DEF InterruptWait, CheckWaitFlags, Stay, Leave, loop, Guest
<1>10. CASE Uninterrupt
  BY <1>10 DEF Uninterrupt, CheckWaitFlags, CheckForInterrupt, Stay, Leave, loop, Guest
<1>11. ASSUME NEW i \in BOOLEAN, EndSlice(i) PROVE Nesting'
  BY <1>11 DEF EndSlice, cpu, bios, Guest
<1>12. CASE Execute
  BY <1>12 DEF Execute, cpu, bios, loop
<1>13. CASE JumpToNextEvent
  BY <1>13 DEF JumpToNextEvent, cpu, bios
<1>14. CASE BeginDrain
  BY <1>14 DEF BeginDrain, cpu, bios
<1>15. CASE OnInterruptEvent
  BY <1>15 DEF OnInterruptEvent, bios
<1>16. ASSUME NEW c \in Channels, OnDmaEvent(c) PROVE Nesting'
  BY <1>16 DEF OnDmaEvent, SendInterrupt
<1>17. CASE EndDrain
  BY <1>17 DEF EndDrain, cpu, bios, loop
<1>18. CASE EndEvents
  BY <1>18 DEF EndEvents, cpu, bios
<1>19. CASE EndSecondDrain
  BY <1>19 DEF EndSecondDrain, cpu, bios, loop
<1>20. ASSUME NEW l \in Lines, NEW on \in BOOLEAN, TimedEvent(l, on) PROVE Nesting'
  BY <1>20 DEF TimedEvent, SendInterrupt, loop
<1>21. CASE UNCHANGED vars
  BY <1>21 DEF vars
<1> QED
  BY StepCases, <1>1, <1>2, <1>3, <1>4, <1>5, <1>6, <1>7, <1>8, <1>9, <1>10, <1>11, <1>12,
     <1>13, <1>14, <1>15, <1>16, <1>17, <1>18, <1>19, <1>20, <1>21

-----------------------------------------------------------------------------
(* No interrupt is lost.                                                   *)

LEMMA DeliveryStep == TypeOK /\ DrainPlaces /\ NoLostInterrupt /\ [Next]_vars => NoLostInterrupt'
<1> SUFFICES ASSUME TypeOK, DrainPlaces, NoLostInterrupt, [Next]_vars
             PROVE  NoLostInterrupt'
  OBVIOUS
<1> USE EventNumbers DEF NoLostInterrupt, Deliverable
<1>1. ASSUME NEW v \in BOOLEAN, SetIme(v) PROVE NoLostInterrupt'
  BY <1>1 DEF SetIme, CheckForInterrupt, Stay, loop, bios, Guest
<1>2. ASSUME NEW v \in BOOLEAN, SetCpsr(v) PROVE NoLostInterrupt'
  BY <1>2 DEF SetCpsr, CheckForInterrupt, Stay, loop, bios, Guest
<1>3. ASSUME NEW v \in SUBSET Flag, SetIe(v) PROVE NoLostInterrupt'
  BY <1>3 DEF SetIe, CheckForInterrupt, Stay, loop, bios, Guest
<1>4. ASSUME NEW v \in SUBSET Flag, SetIrf(v) PROVE NoLostInterrupt'
  BY <1>4 DEF SetIrf, Stay, loop, bios, Guest
<1>5. ASSUME NEW v \in SUBSET Waited, WriteWaitWord(v) PROVE NoLostInterrupt'
  BY <1>5 DEF WriteWaitWord, Stay, loop, cpu, Guest
<1>6. CASE SetHaltCnt
  BY <1>6 DEF SetHaltCnt, Stay, loop, bios, Guest
<1>7. ASSUME NEW c \in Channels, NEW v \in Cnt, SetDmaCnt(c, v) PROVE NoLostInterrupt'
  BY <1>7 DEF SetDmaCnt, Stay, Leave, loop, bios, cpu, Guest
<1>8. CASE SwiHalt
  BY <1>8 DEF SwiHalt, Leave, bios, Guest
<1>9. ASSUME NEW d \in BOOLEAN, NEW w \in (SUBSET Waited) \ {{}}, InterruptWait(d, w) PROVE NoLostInterrupt'
  BY <1>9 DEF InterruptWait, CheckWaitFlags, Stay, Leave, loop, Guest
<1>10. CASE Uninterrupt
  BY <1>10 DEF Uninterrupt, CheckWaitFlags, CheckForInterrupt, Stay, Leave, loop, Guest
<1>11. ASSUME NEW i \in BOOLEAN, EndSlice(i) PROVE NoLostInterrupt'
  BY <1>11 DEF EndSlice, cpu, bios, Guest
<1>12. CASE Execute
  BY <1>12 DEF Execute, cpu, bios, loop
<1>13. CASE JumpToNextEvent
  BY <1>13 DEF JumpToNextEvent, cpu, bios
<1>14. CASE BeginDrain
  BY <1>14 DEF BeginDrain, cpu, bios, DrainPlaces
<1>15. CASE OnInterruptEvent
  BY <1>15 DEF OnInterruptEvent, bios
<1>16. ASSUME NEW c \in Channels, OnDmaEvent(c) PROVE NoLostInterrupt'
  BY <1>16 DEF OnDmaEvent, SendInterrupt
<1>17. CASE EndDrain
  BY <1>17 DEF EndDrain, cpu, bios, loop
<1>18. CASE EndEvents
  BY <1>18 DEF EndEvents, cpu, bios, DrainPlaces
<1>19. CASE EndSecondDrain
  BY <1>19 DEF EndSecondDrain, cpu, bios, loop
<1>20. ASSUME NEW l \in Lines, NEW on \in BOOLEAN, TimedEvent(l, on) PROVE NoLostInterrupt'
  BY <1>20 DEF TimedEvent, SendInterrupt, loop
<1>21. CASE UNCHANGED vars
  BY <1>21 DEF vars
<1> QED
  BY StepCases, <1>1, <1>2, <1>3, <1>4, <1>5, <1>6, <1>7, <1>8, <1>9, <1>10, <1>11, <1>12,
     <1>13, <1>14, <1>15, <1>16, <1>17, <1>18, <1>19, <1>20, <1>21

-----------------------------------------------------------------------------
(* Transfers.                                                              *)

LEMMA ArmedStep == TypeOK /\ DrainPlaces /\ ScheduledIsArmed /\ [Next]_vars => ScheduledIsArmed'
<1> SUFFICES ASSUME TypeOK, DrainPlaces, ScheduledIsArmed, [Next]_vars
             PROVE  ScheduledIsArmed'
  OBVIOUS
<1> USE EventNumbers DEF ScheduledIsArmed
<1>1. ASSUME NEW v \in BOOLEAN, SetIme(v) PROVE ScheduledIsArmed'
  BY <1>1 DEF SetIme, CheckForInterrupt, Stay, loop, bios, Guest
<1>2. ASSUME NEW v \in BOOLEAN, SetCpsr(v) PROVE ScheduledIsArmed'
  BY <1>2 DEF SetCpsr, CheckForInterrupt, Stay, loop, bios, Guest
<1>3. ASSUME NEW v \in SUBSET Flag, SetIe(v) PROVE ScheduledIsArmed'
  BY <1>3 DEF SetIe, CheckForInterrupt, Stay, loop, bios, Guest
<1>4. ASSUME NEW v \in SUBSET Flag, SetIrf(v) PROVE ScheduledIsArmed'
  BY <1>4 DEF SetIrf, Stay, loop, bios, Guest
<1>5. ASSUME NEW v \in SUBSET Waited, WriteWaitWord(v) PROVE ScheduledIsArmed'
  BY <1>5 DEF WriteWaitWord, Stay, loop, cpu, Guest
<1>6. CASE SetHaltCnt
  BY <1>6 DEF SetHaltCnt, Stay, loop, bios, Guest
<1>7. ASSUME NEW c \in Channels, NEW v \in Cnt, SetDmaCnt(c, v) PROVE ScheduledIsArmed'
  <2>1. todo = {} /\ imm \subseteq {CpuInterrupt}
    BY <1>7 DEF SetDmaCnt, Guest, DrainPlaces
  <2>2. todo' = {}
    BY <1>7, <2>1, Zenon DEF SetDmaCnt, Stay, Leave, loop
  <2>3. ASSUME NEW e \in Channels, DmaEvent(e) \in imm' PROVE cnt'[e].enable
    <3>1. ~cnt[c].enable /\ v.enable /\ v.mode = "imm" /\ DmaEvent(e) = DmaEvent(c)
      BY <1>7, <2>1, <2>3 DEF SetDmaCnt
    <3>2. e = c /\ cnt' = [cnt EXCEPT ![c] = v]
      BY <1>7, <3>1 DEF SetDmaCnt
    <3> QED
      BY <3>1, <3>2 DEF TypeOK
  <2> QED
    BY <2>2, <2>3
<1>8. CASE SwiHalt
  BY <1>8 DEF SwiHalt, Leave, bios, Guest
<1>9. ASSUME NEW d \in BOOLEAN, NEW w \in (SUBSET Waited) \ {{}}, InterruptWait(d, w) PROVE ScheduledIsArmed'
  BY <1>9 DEF InterruptWait, CheckWaitFlags, Stay, Leave, loop, Guest
<1>10. CASE Uninterrupt
  BY <1>10 DEF Uninterrupt, CheckWaitFlags, CheckForInterrupt, Stay, Leave, loop, Guest
<1>11. ASSUME NEW i \in BOOLEAN, EndSlice(i) PROVE ScheduledIsArmed'
  BY <1>11 DEF EndSlice, cpu, bios, Guest
<1>12. CASE Execute
  BY <1>12 DEF Execute, cpu, bios, loop
<1>13. CASE JumpToNextEvent
  BY <1>13 DEF JumpToNextEvent, cpu, bios
<1>14. CASE BeginDrain
  BY <1>14 DEF BeginDrain, cpu, bios
<1>15. CASE OnInterruptEvent
  BY <1>15 DEF OnInterruptEvent, bios
<1>16. ASSUME NEW c \in Channels, OnDmaEvent(c) PROVE ScheduledIsArmed'
  <2>1. imm \subseteq {CpuInterrupt}
    BY <1>16 DEF OnDmaEvent, DrainPlaces
  <2>2. imm' \subseteq {CpuInterrupt} /\ todo' = todo \ {DmaEvent(c)}
    BY <1>16, <2>1 DEF OnDmaEvent, SendInterrupt
  <2>3. ASSUME NEW e \in Channels, e # c PROVE cnt'[e] = cnt[e]
    BY <1>16, <2>3 DEF OnDmaEvent, TypeOK
  <2>4. ASSUME NEW e \in Channels, DmaEvent(e) \in imm' \cup todo' PROVE e # c /\ DmaEvent(e) \in todo
    BY <2>2, <2>4
  <2> QED
    BY <2>3, <2>4
<1>17. CASE EndDrain
  BY <1>17 DEF EndDrain, cpu, bios, loop
<1>18. CASE EndEvents
  BY <1>18 DEF EndEvents, cpu, bios
<1>19. CASE EndSecondDrain
  BY <1>19 DEF EndSecondDrain, cpu, bios, loop
<1>20. ASSUME NEW l \in Lines, NEW on \in BOOLEAN, TimedEvent(l, on) PROVE ScheduledIsArmed'
  <2>1. imm' \subseteq imm \cup Triggered(ModeOf(l)) \cup {CpuInterrupt} /\ UNCHANGED <<todo, cnt>>
    BY <1>20 DEF TimedEvent, SendInterrupt, loop
  <2> QED
    BY <2>1, TriggeredChannels
<1>21. CASE UNCHANGED vars
  BY <1>21 DEF vars
<1> QED
  BY StepCases, <1>1, <1>2, <1>3, <1>4, <1>5, <1>6, <1>7, <1>8, <1>9, <1>10, <1>11, <1>12,
     <1>13, <1>14, <1>15, <1>16, <1>17, <1>18, <1>19, <1>20, <1>21

-----------------------------------------------------------------------------
(* IntrWait.                                                               *)

LEMMA WaitStep == TypeOK /\ WaitPlace /\ [Next]_vars => WaitPlace'
<1> SUFFICES ASSUME TypeOK, WaitPlace, [Next]_vars
             PROVE  WaitPlace'
  OBVIOUS
<1> USE EventNumbers, Depths DEF WaitPlace, TypeOK, Guest
<1>1. ASSUME NEW v \in BOOLEAN, SetIme(v) PROVE WaitPlace'
  BY <1>1 DEF SetIme, CheckForInterrupt, Stay, loop, bios, Guest
<1>2. ASSUME NEW v \in BOOLEAN, SetCpsr(v) PROVE WaitPlace'
  BY <1>2 DEF SetCpsr, CheckForInterrupt, Stay, loop, bios, Guest
<1>3. ASSUME NEW v \in SUBSET Flag, SetIe(v) PROVE WaitPlace'
  BY <1>3 DEF SetIe, CheckForInterrupt, Stay, loop, bios, Guest
<1>4. ASSUME NEW v \in SUBSET Flag, SetIrf(v) PROVE WaitPlace'
  BY <1>4 DEF SetIrf, Stay, loop, bios, Guest
<1>5. ASSUME NEW v \in SUBSET Waited, WriteWaitWord(v) PROVE WaitPlace'
  BY <1>5 DEF WriteWaitWord, Stay, loop, cpu, Guest
<1>6. CASE SetHaltCnt
  BY <1>6 DEF SetHaltCnt, Stay, loop, bios, Guest
<1>7. ASSUME NEW c \in Channels, NEW v \in Cnt, SetDmaCnt(c, v) PROVE WaitPlace'
  BY <1>7 DEF SetDmaCnt, Stay, Leave, loop, bios, cpu, Guest
<1>8. CASE SwiHalt
  BY <1>8 DEF SwiHalt, Leave, bios, Guest
<1>9. ASSUME NEW d \in BOOLEAN, NEW w \in (SUBSET Waited) \ {{}}, InterruptWait(d, w) PROVE WaitPlace'
  BY <1>9 DEF InterruptWait, CheckWaitFlags, Stay, Leave, loop, Guest
<1>10. CASE Uninterrupt
  BY <1>10 DEF Uninterrupt, CheckWaitFlags, CheckForInterrupt, Stay, Leave, loop, Guest
<1>11. ASSUME NEW i \in BOOLEAN, EndSlice(i) PROVE WaitPlace'
  BY <1>11 DEF EndSlice, cpu, bios, Guest
<1>12. CASE Execute
  BY <1>12 DEF Execute, cpu, bios, loop
<1>13. CASE JumpToNextEvent
  BY <1>13 DEF JumpToNextEvent, cpu, bios
<1>14. CASE BeginDrain
  BY <1>14 DEF BeginDrain, cpu, bios
<1>15. CASE OnInterruptEvent
  <2>1. CASE Deliverable
    <3>1. depth' = depth + 1 /\ UNCHANGED bios
      BY <1>15, <2>1 DEF OnInterruptEvent
    <3>2. waiter' = waiter /\ NoWaiter' = NoWaiter /\ bios_wait_flags' = bios_wait_flags
      BY <3>1 DEF bios, NoWaiter
    <3>3. depth \in Nat /\ waiter \in Nat /\ depth' = depth + 1
      BY <3>1, DepthNumbers, Zenon
    <3>4. waiter <= depth => waiter <= depth' /\ depth' # waiter
      BY ONLY <3>3
    <3> QED
      BY <3>2, <3>4, Zenon
  <2>2. CASE ~Deliverable
    BY <1>15, <2>2 DEF OnInterruptEvent, bios
  <2> QED
    BY <2>1, <2>2
<1>16. ASSUME NEW c \in Channels, OnDmaEvent(c) PROVE WaitPlace'
  BY <1>16 DEF OnDmaEvent, SendInterrupt
<1>17. CASE EndDrain
  BY <1>17 DEF EndDrain, cpu, bios, loop
<1>18. CASE EndEvents
  BY <1>18 DEF EndEvents, cpu, bios
<1>19. CASE EndSecondDrain
  BY <1>19 DEF EndSecondDrain, cpu, bios, loop
<1>20. ASSUME NEW l \in Lines, NEW on \in BOOLEAN, TimedEvent(l, on) PROVE WaitPlace'
  BY <1>20 DEF TimedEvent, SendInterrupt, loop
<1>21. CASE UNCHANGED vars
  BY <1>21 DEF vars
<1> QED
  BY StepCases, <1>1, <1>2, <1>3, <1>4, <1>5, <1>6, <1>7, <1>8, <1>9, <1>10, <1>11, <1>12,
     <1>13, <1>14, <1>15, <1>16, <1>17, <1>18, <1>19, <1>20, <1>21

-----------------------------------------------------------------------------
(* The invariant and what follows from it.                                 *)

\* IrqInv is inductive.  Deliverable interrupts stay scheduled because every
\* write that opens the gate looks again, and a drain starts with nothing left
\* over from the last one; a scheduled channel stays enabled because the mask
\* holds no transfer while the guest runs.
THEOREM IrqInvariant == Spec => []IrqInv
<1>1. Init => IrqInv
  <2> SUFFICES ASSUME Init PROVE IrqInv
    OBVIOUS
  <2>1. DrainPlaces /\ NoLostInterrupt /\ ScheduledIsArmed
    BY DEF Init, DrainPlaces, NoLostInterrupt, Deliverable, ScheduledIsArmed
  <2>2. Nesting
    BY InterruptsAssumption DEF Init, Nesting
  <2>3. WaitPlace
    BY DEF Init, WaitPlace
  <2> QED
    BY InitType, <2>1, <2>2, <2>3 DEF IrqInv
<1>2. IrqInv /\ [Next]_vars => IrqInv'
  BY TypeStep, DrainStep, NestingStep, DeliveryStep, ArmedStep, WaitStep DEF IrqInv
<1> QED
  BY <1>1, <1>2, PTL DEF Spec

\* The variables keep their types; in particular the handler frames never
\* exceed the nesting the guest allows.
THEOREM TypeCorrect == Spec => []TypeOK
<1>1. IrqInv => TypeOK
  BY DEF IrqInv
<1> QED
  BY IrqInvariant, <1>1, PTL

\* An interrupt the cpu must take is always scheduled, whichever write made it
\* deliverable (cpu_regs.rs cpu_check_for_interrupt, cpu_send_interrupt).
THEOREM InterruptsDelivered == Spec => []NoLostInterrupt
<1>1. IrqInv => NoLostInterrupt
  BY DEF IrqInv
<1> QED
  BY IrqInvariant, <1>1, PTL

\* A scheduled transfer is one of an enabled channel until it runs
\* (dma.rs dma_set_cnt, dma_on_event).
THEOREM TransfersArmed == Spec => []ScheduledIsArmed
<1>1. IrqInv => ScheduledIsArmed
  BY DEF IrqInv
<1> QED
  BY IrqInvariant, <1>1, PTL

\* Guest code does not go on after an IntrWait call before its flag came,
\* however handlers nest above it (bios.rs interrupt_wait, uninterrupt).
THEOREM WaitsForFlag == Spec => []WaitEndsOnFlag
<1>1. IrqInv => WaitEndsOnFlag
  <2> SUFFICES ASSUME IrqInv, Guest, depth = waiter, ~halt PROVE bios_wait_flags = {}
    BY DEF WaitEndsOnFlag
  <2>1. waiter # NoWaiter
    BY Depths DEF IrqInv, TypeOK
  <2> QED
    BY <2>1 DEF IrqInv, WaitPlace
<1> QED
  BY IrqInvariant, <1>1, PTL

=============================================================================
