-------------------------- MODULE RenderSync_proofs --------------------------
(***************************************************************************)
(* The ownership of swapchain slots and pixel buffers, for any swapchain   *)
(* depth, buffer ring, region set and number of frames and games.          *)
(***************************************************************************)
EXTENDS RenderSync, SequenceTheorems, TLAPS

-----------------------------------------------------------------------------
(* The arithmetic of %.                                                     *)

\* Division with remainder.
LEMMA ModDef ==
    ASSUME NEW N \in Nat \ {0}, NEW k \in Int
    PROVE  /\ k = N * (k \div N) + (k % N)
           /\ k \div N \in Int
           /\ k % N \in 0 .. N - 1
  OBVIOUS

\* A positive multiple of N is at least N.
LEMMA MultipleBound ==
    ASSUME NEW N \in Nat \ {0}, NEW d \in Int, d >= 1
    PROVE  N * d >= N
  OBVIOUS

\* Quotients of remainders in range agree, and so do the remainders.
LEMMA RemainderUnique ==
    ASSUME NEW N \in Nat \ {0}, NEW p \in Int, NEW q \in Int,
           NEW r \in 0 .. N - 1, NEW s \in 0 .. N - 1,
           N * p + r = N * q + s
    PROVE  r = s
<1>1. r - s = N * q - N * p /\ N * q - N * p = N * (q - p)
  OBVIOUS
<1>2. CASE q - p >= 1
  BY <1>1, <1>2, MultipleBound
<1>3. CASE p - q >= 1
  <2>1. N * (p - q) >= N
    BY <1>3, MultipleBound
  <2>2. N * (p - q) = s - r
    BY <1>1
  <2> QED BY <2>1, <2>2
<1>4. CASE p = q
  BY <1>1, <1>4
<1> QED BY <1>2, <1>3, <1>4

\* Any decomposition of m gives its remainder.
LEMMA ModOf ==
    ASSUME NEW N \in Nat \ {0}, NEW m \in Int, NEW q \in Int, NEW r \in 0 .. N - 1,
           m = N * q + r
    PROVE  m % N = r
<1> DEFINE b == m \div N
           t == m % N
<1>1. m = N * b + t /\ b \in Int /\ t \in 0 .. N - 1
  BY ModDef
<1>2. N * b + t = N * q + r
  BY <1>1
<1> HIDE DEF b, t
<1>3. t = r
  BY <1>1, <1>2, RemainderUnique
<1> QED BY <1>3 DEF t

\* Advancing a cursor by one.
LEMMA ModStep ==
    ASSUME NEW N \in Nat \ {0}, NEW k \in Int
    PROVE  ((k % N) + 1) % N = (k + 1) % N
<1> DEFINE a == k \div N
           b == (k + 1) \div N
           r == (k + 1) % N
           m == (k % N) + 1
<1>1. k = N * a + (k % N) /\ a \in Int /\ k % N \in 0 .. N - 1
  BY ModDef
<1>0. k + 1 \in Int
  OBVIOUS
<1>2. k + 1 = N * b + r /\ b \in Int /\ r \in 0 .. N - 1
  BY <1>0, ModDef
<1>3. m = N * (b - a) + r /\ m \in Int /\ b - a \in Int
  BY <1>1, <1>2
<1> DEFINE q == b - a
<1> HIDE DEF a, b, r, m, q
<1>4. m = N * q + r /\ q \in Int /\ m \in Int /\ r \in 0 .. N - 1
  BY <1>2, <1>3 DEF q
<1>5. m % N = r
  BY <1>4, ModOf
<1> QED BY <1>5 DEF m, r

\* Stepping a cursor back by one, the way the code does it.
LEMMA ModPrev ==
    ASSUME NEW N \in Nat \ {0}, NEW k \in Int
    PROVE  ((k % N) + N - 1) % N = (k - 1) % N
<1> DEFINE a == k \div N
           b == (k - 1) \div N
           r == (k - 1) % N
           m == (k % N) + N - 1
<1>1. k = N * a + (k % N) /\ a \in Int /\ k % N \in 0 .. N - 1
  BY ModDef
<1>0. k - 1 \in Int
  OBVIOUS
<1>2. k - 1 = N * b + r /\ b \in Int /\ r \in 0 .. N - 1
  BY <1>0, ModDef
<1> DEFINE q == b - a + 1
<1>3. m = N * q + r /\ m \in Int /\ q \in Int
  BY <1>1, <1>2
<1> HIDE DEF a, b, r, m, q
<1>4. m % N = r
  BY <1>2, <1>3, ModOf
<1> QED BY <1>4 DEF m, r

\* Counters less than N apart, and not equal, are at different positions.
LEMMA ModApart ==
    ASSUME NEW N \in Nat \ {0}, NEW j \in Int, NEW k \in Int, j < k, k - j < N
    PROVE  j % N # k % N
<1> SUFFICES ASSUME j % N = k % N PROVE FALSE
  OBVIOUS
<1> DEFINE a == j \div N
           b == k \div N
<1>1. j = N * a + (j % N) /\ a \in Int /\ k = N * b + (k % N) /\ b \in Int
  BY ModDef
<1>2. k - j = N * (b - a)
  BY <1>1
<1>3. CASE b - a >= 1
  BY <1>1, <1>2, <1>3, MultipleBound
<1>4. CASE b - a <= 0
  <2>1. N * (b - a) <= 0
    BY <1>1, <1>4
  <2> QED BY <1>2, <2>1
<1> QED BY <1>1, <1>3, <1>4

\* N apart is the same position.
LEMMA ModSame ==
    ASSUME NEW N \in Nat \ {0}, NEW k \in Int
    PROVE  (k + N) % N = k % N
<1> DEFINE a == k \div N
           r == k % N
<1>1. k = N * a + r /\ a \in Int /\ r \in 0 .. N - 1
  BY ModDef
<1>2. k + N = N * (a + 1) + r
  BY <1>1
<1> HIDE DEF a, r
<1>3. (k + N) % N = r
  BY <1>1, <1>2, ModOf
<1> QED BY <1>3 DEF r

-----------------------------------------------------------------------------
(* Positions in the two rings, and the handshake.                          *)

\* The ring positions of the frames, without the arithmetic behind them.
LEMMA SlotOfType == ASSUME NEW k \in Int PROVE SlotOf(k) \in Slot
  BY SwapchainAssumption, ModDef DEF SlotOf, Slot

LEMMA BufsPositive == FRAME_BUFS \in Nat \ {0}
  BY SwapchainAssumption, FrameBufsAssumption DEF SLACK

LEMMA BufOfType == ASSUME NEW k \in Int PROVE BufOf(k) \in Buf
  BY BufsPositive, ModDef DEF BufOf, Buf

LEMMA NextSlotOf == ASSUME NEW k \in Int PROVE NextSlot(SlotOf(k)) = SlotOf(k + 1)
  BY SwapchainAssumption, ModStep DEF SlotOf, NextSlot

LEMMA NextBufOf == ASSUME NEW k \in Int PROVE NextBuf(BufOf(k)) = BufOf(k + 1)
  BY BufsPositive, ModStep DEF BufOf, NextBuf

LEMMA PrevBufOf == ASSUME NEW k \in Int PROVE PrevBuf(BufOf(k)) = BufOf(k - 1)
  BY BufsPositive, ModPrev DEF BufOf, PrevBuf

LEMMA SlotApart ==
    ASSUME NEW j \in Int, NEW k \in Int, j < k, k < j + SWAPCHAIN
    PROVE  SlotOf(j) # SlotOf(k)
<1>1. k - j < SWAPCHAIN
  BY SwapchainAssumption
<1>2. j % SWAPCHAIN # k % SWAPCHAIN
  BY <1>1, SwapchainAssumption, ModApart
<1> QED BY <1>2 DEF SlotOf

LEMMA SlotSame == ASSUME NEW k \in Int PROVE SlotOf(k + SWAPCHAIN) = SlotOf(k)
  BY SwapchainAssumption, ModSame DEF SlotOf

LEMMA BufApart ==
    ASSUME NEW j \in Int, NEW k \in Int, j < k, k < j + FRAME_BUFS
    PROVE  BufOf(j) # BufOf(k)
<1>1. k - j < FRAME_BUFS
  BY BufsPositive
<1>2. j % FRAME_BUFS # k % FRAME_BUFS
  BY <1>1, BufsPositive, ModApart
<1> QED BY <1>2 DEF BufOf

\* A cursor stepped from a position in its ring stays in its ring.
LEMMA CursorTypes ==
    /\ \A s \in Slot : NextSlot(s) \in Slot
    /\ \A b \in Buf : NextBuf(b) \in Buf
<1>1. \A s \in Slot : NextSlot(s) \in Slot
  BY SwapchainAssumption, ModDef DEF NextSlot, Slot
<1>2. \A b \in Buf : NextBuf(b) \in Buf
  BY BufsPositive, ModDef DEF NextBuf, Buf
<1> QED BY <1>1, <1>2

\* Every step of every thread keeps the types.
LEMMA TypeStep == TypeOK /\ [Next]_vars => TypeOK'
<1> USE DEF flagVars, wakeVars, cpuVars, rasterVars, presentVars
<1>1. TypeOK /\ (\E W \in SUBSET Regions : RunFrame(W)) => TypeOK'
  BY BoundsAssumption DEF TypeOK, RunFrame, CpuPc
<1>2. TypeOK /\ OnFrameFinish => TypeOK'
  BY DEF TypeOK, OnFrameFinish, MarkDirty, CpuPc
<1>3. TypeOK /\ QueueFrameSnapshot => TypeOK'
  BY DEF TypeOK, QueueFrameSnapshot, SwapCapture, CpuPc
<1>4. TypeOK /\ QueueFrameStore => TypeOK'
  BY DEF TypeOK, QueueFrameStore, CpuPc, S_RASTERED
<1>5. TypeOK /\ CpuWake => TypeOK'
  BY CursorTypes DEF TypeOK, CpuWake, NotifyAll, CpuPc
<1>6. TypeOK /\ CpuGate => TypeOK'
  BY DEF TypeOK, CpuGate, CpuPc
<1>7. TypeOK /\ CpuExit => TypeOK'
  BY DEF TypeOK, CpuExit, CpuPc
<1>8. TypeOK /\ (\E c \in Consumers : WaitTest(c)) => TypeOK'
  BY SMTT(30) DEF TypeOK, WaitTest, Goto, ConsumerPc
<1>9. TypeOK /\ (\E c \in Consumers : WaitSleep(c)) => TypeOK'
  BY SMTT(30) DEF TypeOK, WaitSleep, Goto, ConsumerPc
<1>10. TypeOK /\ (\E c \in Consumers : WaitTimeout(c)) => TypeOK'
  BY DEF TypeOK, WaitTimeout
<1>11. TypeOK /\ (\E h \in HALVES : RasterizeHalf(h)) => TypeOK'
  BY DEF TypeOK, RasterizeHalf, OrHalf, Goto, ConsumerPc, Consumers, S_RASTERED
<1>12. TypeOK /\ (\E h \in HALVES : RasterWake(h)) => TypeOK'
  BY CursorTypes DEF TypeOK, RasterWake, NotifyAll, Goto, ConsumerPc, Consumers
<1>13. TypeOK /\ PollRender => TypeOK'
  BY DEF TypeOK, PollRender, Main, Goto, ConsumerPc
<1>14. TypeOK /\ PollCapture => TypeOK'
  BY DEF TypeOK, PollCapture, Main, Goto, ConsumerPc
<1>15. TypeOK /\ CaptureDone => TypeOK'
  BY DEF TypeOK, CaptureDone, Main, Goto, ConsumerPc
<1>16. TypeOK /\ ReleaseSlot => TypeOK'
  <2> SUFFICES ASSUME TypeOK, ReleaseSlot PROVE TypeOK'
    OBVIOUS
  <2>1. slots' \in [Slot -> SUBSET S_RASTERED]
    BY DEF TypeOK, ReleaseSlot
  <2>2. pc' \in [Consumers -> ConsumerPc]
    BY DEF TypeOK, ReleaseSlot, Main, Goto, ConsumerPc
  <2> QED BY <2>1, <2>2 DEF TypeOK, ReleaseSlot
<1>17. TypeOK /\ PresentWake => TypeOK'
  BY CursorTypes DEF TypeOK, PresentWake, NotifyAll, Main, Goto, ConsumerPc
<1>18. TypeOK /\ SwapReturn => TypeOK'
  <2> SUFFICES ASSUME TypeOK, SwapReturn PROVE TypeOK'
    OBVIOUS
  <2>1. pc' \in [Consumers -> ConsumerPc]
    BY DEF TypeOK, SwapReturn, Main, Goto, ConsumerPc
  <2>2. screen' \in [HALVES -> 0 .. MaxFrames] /\ swappedAt' \in [Buf -> Nat]
    BY DEF TypeOK, SwapReturn
  <2> QED BY <2>1, <2>2, CursorTypes DEF TypeOK, SwapReturn
<1>19. TypeOK /\ Pause => TypeOK'
  BY DEF TypeOK, Pause, Main, Goto, ConsumerPc
<1>20. TypeOK /\ MenuCapture => TypeOK'
  BY DEF TypeOK, MenuCapture, Main, Goto, ConsumerPc
<1>21. TypeOK /\ StepPausedFrame => TypeOK'
  BY DEF TypeOK, StepPausedFrame, Goto, ConsumerPc
<1>22. TypeOK /\ Resume => TypeOK'
  BY DEF TypeOK, Resume, Goto, ConsumerPc
<1>23. TypeOK /\ SetQuit => TypeOK'
  BY DEF TypeOK, SetQuit, Goto, ConsumerPc
<1>24. TypeOK /\ QuitWake => TypeOK'
  BY DEF TypeOK, QuitWake, NotifyAll, Main, Goto, ConsumerPc
<1>25. TypeOK /\ Join => TypeOK'
  BY DEF TypeOK, Join, Main, Goto, ConsumerPc
<1>26. TypeOK /\ ResetForNewGame => TypeOK'
  <2> SUFFICES ASSUME TypeOK, ResetForNewGame PROVE TypeOK'
    OBVIOUS
  <2>1. 0 \in Slot /\ 0 \in Buf /\ 0 \in 0 .. MaxFrames
    BY SwapchainAssumption, BufsPositive, BoundsAssumption DEF Slot, Buf
  <2>2. pc' \in [Consumers -> ConsumerPc] /\ cpuPc' \in CpuPc
    BY DEF ResetForNewGame, ResetShared, ConsumerPc, CpuPc
  <2>3. game' \in 1 .. MaxGames
    BY BoundsAssumption DEF TypeOK, ResetForNewGame, ResetShared
  <2> QED BY <2>1, <2>2, <2>3 DEF TypeOK, ResetForNewGame, ResetShared
<1>27. TypeOK /\ UNCHANGED vars => TypeOK'
  BY DEF TypeOK, vars
<1> QED BY <1>1, <1>2, <1>3, <1>4, <1>5, <1>6, <1>7, <1>8, <1>9, <1>10, <1>11, <1>12, <1>13, <1>14, <1>15, <1>16, <1>17, <1>18, <1>19, <1>20, <1>21, <1>22, <1>23, <1>24, <1>25, <1>26, <1>27
    DEF Next, CpuStep, RasterStep, WaitStep, PresentStep, Terminated

\* A step that moves no frame between stages keeps the handshake, if what
\* it lets a thread believe about its slot is true.
LEMMA QuietStep ==
    ASSUME HandshakeInv, TypeOK',
           UNCHANGED <<slots, queued, drawn, freed, swaps, swappedAt>>,
           UNCHANGED <<write_slot, wSlot, wPix, read_slot, present_pixels>>,
           cpuPc' = "wake" <=> cpuPc = "wake",
           cpuPc' \in {"snapshot", "store"} => queued < freed + SWAPCHAIN,
           \A h \in HALVES : pc'[h] = "wake" <=> pc[h] = "wake",
           \A h \in HALVES : pc'[h] = "draw" => drawn[h] < queued,
           \A h \in HALVES : pc'[h] \in {"test", "quitTest", "draw", "wake", "done"},
           pc'[PRESENT] = "wake" <=> pc[PRESENT] = "wake",
           pc'[PRESENT] = "present" <=> pc[PRESENT] = "present",
           pc'[PRESENT] = "release" => \A h \in HALVES : freed < drawn[h]
    PROVE  HandshakeInv'
<1>1. Counters'
  BY DEF HandshakeInv, Counters
<1>2. Cursors'
  BY DEF HandshakeInv, Cursors
<1>3. SlotStates'
  BY DEF HandshakeInv, SlotStates
<1>4. Stages'
  BY DEF HandshakeInv, Stages
<1>5. SwapMarks'
  BY DEF HandshakeInv, SwapMarks
<1> QED BY <1>1, <1>2, <1>3, <1>4, <1>5 DEF HandshakeInv

\* The cpu thread's slot test: an empty slot means room in the swapchain.
LEMMA EmptySlotMeansRoom ==
    ASSUME HandshakeInv, cpuPc # "wake", slots[write_slot] = {}
    PROVE  queued < freed + SWAPCHAIN
<1> USE SwapchainAssumption DEF HandshakeInv
<1> SUFFICES ASSUME queued = freed + SWAPCHAIN PROVE FALSE
  BY DEF TypeOK, Counters
<1>1. write_slot = SlotOf(freed)
  BY SlotSame DEF TypeOK, Cursors
<1>2. freed \in freed .. queued - 1
  BY DEF TypeOK
<1>3. S_QUEUED \in slots[SlotOf(freed)]
  BY <1>2 DEF SlotStates
<1> QED BY <1>1, <1>3

\* A worker's slot test: queued without its own bit means its next frame.
LEMMA ReadyMeansQueued ==
    ASSUME HandshakeInv, NEW h \in HALVES, pc[h] = "test", Ready(h)
    PROVE  drawn[h] < queued
<1> USE SwapchainAssumption DEF HandshakeInv
<1>1. h # PRESENT /\ drawn[h] \in Nat /\ queued \in Nat /\ freed \in Nat
  BY DEF TypeOK, HALVES, PRESENT
<1>2. wSlot[h] = SlotOf(drawn[h])
  BY DEF Cursors
<1>3. S_QUEUED \in slots[SlotOf(drawn[h])] /\ S_HALF(h) \notin slots[SlotOf(drawn[h])]
  BY <1>1, <1>2 DEF Ready, S_HALF, S_QUEUED, HALVES
<1> SUFFICES ASSUME drawn[h] = queued PROVE FALSE
  BY <1>1 DEF Counters
<1>4. CASE queued < freed + SWAPCHAIN
  <2>1. queued \in queued .. freed + SWAPCHAIN - 1
    BY <1>1, <1>4
  <2> QED BY <1>3, <2>1 DEF SlotStates
<1>5. CASE queued = freed + SWAPCHAIN
  <2>1. SlotOf(drawn[h]) = SlotOf(freed)
    BY <1>1, <1>5, SlotSame
  <2>2. freed \in freed .. queued - 1 /\ drawn[h] > freed
    BY <1>1, <1>5
  <2>3. S_HALF(h) \in slots[SlotOf(freed)]
    BY <2>2 DEF SlotStates
  <2> QED BY <1>3, <2>1, <2>3
<1> QED BY <1>1, <1>4, <1>5 DEF Counters

\* The present thread's slot test: all bits mean both halves are composed.
LEMMA RasteredMeansDrawn ==
    ASSUME HandshakeInv, pc[PRESENT] = "test", Ready(PRESENT)
    PROVE  \A h \in HALVES : freed < drawn[h]
<1> USE SwapchainAssumption DEF HandshakeInv
<1>1. slots[SlotOf(freed)] = S_RASTERED
  BY DEF Ready, Cursors
<1>2. freed \in Nat /\ queued \in Nat /\ freed <= queued
  BY DEF TypeOK, Counters, HALVES
<1>3. freed < queued
  <2> SUFFICES ASSUME freed = queued PROVE FALSE
    BY <1>2
  <2>1. freed \in queued .. freed + SWAPCHAIN - 1
    BY <1>2
  <2>2. slots[SlotOf(freed)] = {}
    BY <2>1 DEF SlotStates
  <2> QED BY <1>1, <2>2 DEF S_RASTERED
<1>4. TAKE h \in HALVES
<1>5. freed \in freed .. queued - 1
  BY <1>2, <1>3
<1>6. slots[SlotOf(freed)] = {S_QUEUED} \cup {S_HALF(i) : i \in {g \in HALVES : drawn[g] > freed}}
  BY <1>5 DEF SlotStates
<1>7. S_HALF(h) \in slots[SlotOf(freed)]
  BY <1>1 DEF S_RASTERED
<1>8. h \in {g \in HALVES : drawn[g] > freed}
  BY <1>6, <1>7 DEF S_HALF, S_QUEUED, HALVES
<1> QED BY <1>8, <1>2 DEF TypeOK

\* Publishing a slot: the frame joins the in-flight range.
LEMMA StoreStep == HandshakeInv /\ QueueFrameStore /\ TypeOK' => HandshakeInv'
<1> SUFFICES ASSUME HandshakeInv, QueueFrameStore, TypeOK' PROVE HandshakeInv'
  OBVIOUS
<1> USE SwapchainAssumption DEF QueueFrameStore, rasterVars, presentVars
<1>1. /\ queued \in Nat /\ freed \in Nat /\ drawn \in [HALVES -> Nat]
      /\ queued' = queued + 1 /\ UNCHANGED <<freed, drawn, swaps, pc>>
      /\ queued < freed + SWAPCHAIN /\ freed <= queued /\ write_slot = SlotOf(queued)
      /\ slots \in [Slot -> SUBSET S_RASTERED]
  BY DEF HandshakeInv, TypeOK, Stages, Cursors, Counters, HALVES
<1>2. Counters'
  BY <1>1 DEF HandshakeInv, Counters
<1>3. Cursors'
  BY <1>1 DEF HandshakeInv, Cursors
<1>4. SlotStates'
  <2>1. ASSUME NEW k \in freed .. queued
        PROVE  slots'[SlotOf(k)] =
                 {S_QUEUED} \cup {S_HALF(h) : h \in {g \in HALVES : drawn[g] > k}}
    <3>1. SlotOf(k) \in Slot
      BY <1>1, SlotOfType
    <3>2. CASE k = queued
      <4>1. {g \in HALVES : drawn[g] > k} = {}
        BY <1>1, <3>2 DEF HandshakeInv, Counters
      <4> QED BY <1>1, <3>1, <3>2, <4>1
    <3>3. CASE k # queued
      <4>1. SlotOf(k) # SlotOf(queued)
        BY <1>1, <3>3, SlotApart
      <4>2. k \in freed .. queued - 1
        BY <1>1, <3>3
      <4> QED BY <1>1, <3>1, <4>1, <4>2 DEF HandshakeInv, SlotStates
    <3> QED BY <3>2, <3>3
  <2>2. ASSUME NEW k \in queued + 1 .. freed + SWAPCHAIN - 1
        PROVE  slots'[SlotOf(k)] = {}
    <3>1. SlotOf(k) # SlotOf(queued)
      BY <1>1, SlotApart
    <3>2. k \in queued .. freed + SWAPCHAIN - 1 /\ SlotOf(k) \in Slot
      BY <1>1, SlotOfType
    <3> QED BY <1>1, <3>1, <3>2 DEF HandshakeInv, SlotStates
  <2> QED BY <1>1, <2>1, <2>2 DEF SlotStates
<1>5. Stages'
  BY <1>1 DEF HandshakeInv, Stages
<1>6. SwapMarks'
  BY DEF HandshakeInv, SwapMarks
<1> QED BY <1>2, <1>3, <1>4, <1>5, <1>6 DEF HandshakeInv

\* Reporting a half: only that worker's bit of that frame's slot changes.
LEMMA RasterizeStep ==
    ASSUME HandshakeInv, NEW h \in HALVES, RasterizeHalf(h), TypeOK'
    PROVE  HandshakeInv'
<1> USE SwapchainAssumption DEF RasterizeHalf, OrHalf, flagVars, wakeVars, cpuVars, presentVars
<1>1. /\ queued \in Nat /\ freed \in Nat /\ drawn \in [HALVES -> Nat]
      /\ UNCHANGED <<freed, queued, swaps, cpuPc>>
      /\ drawn' = [drawn EXCEPT ![h] = @ + 1]
      /\ freed <= drawn[h] /\ drawn[h] < queued /\ queued <= freed + SWAPCHAIN
      /\ wSlot[h] = SlotOf(drawn[h]) /\ wPix[h] = BufOf(drawn[h])
      /\ slots \in [Slot -> SUBSET S_RASTERED] /\ pc \in [Consumers -> ConsumerPc]
      /\ h \in Consumers /\ h # PRESENT
  BY DEF HandshakeInv, TypeOK, Stages, Cursors, Counters, Consumers, HALVES, PRESENT
<1>p. pc' = [pc EXCEPT ![h] = "wake"]
  BY DEF Goto
<1>2. Counters'
  BY <1>1, <1>p DEF HandshakeInv, Counters
<1>3. Cursors'
  BY <1>1, <1>p DEF HandshakeInv, Cursors, Consumers
<1>4. SlotStates'
  <2>1. ASSUME NEW k \in freed .. queued - 1
        PROVE  slots'[SlotOf(k)] =
                 {S_QUEUED} \cup {S_HALF(i) : i \in {g \in HALVES : drawn'[g] > k}}
    <3>1. SlotOf(k) \in Slot
      BY <1>1, SlotOfType
    <3>2. slots[SlotOf(k)] = {S_QUEUED} \cup {S_HALF(i) : i \in {g \in HALVES : drawn[g] > k}}
      BY DEF HandshakeInv, SlotStates
    <3>3. CASE k = drawn[h]
      <4>1. {g \in HALVES : drawn'[g] > k} = {g \in HALVES : drawn[g] > k} \cup {h}
        BY <1>1, <3>3
      <4>2. slots'[SlotOf(k)] = slots[SlotOf(k)] \cup {S_HALF(h)}
        BY <1>1, <3>1, <3>3
      <4> QED BY <3>2, <4>1, <4>2
    <3>4. CASE k # drawn[h]
      <4>1. SlotOf(k) # SlotOf(drawn[h])
        BY <1>1, <3>4, SlotApart
      <4>2. {g \in HALVES : drawn'[g] > k} = {g \in HALVES : drawn[g] > k}
        BY <1>1, <3>4
      <4> QED BY <1>1, <3>1, <3>2, <4>1, <4>2
    <3> QED BY <3>3, <3>4
  <2>2. ASSUME NEW k \in queued .. freed + SWAPCHAIN - 1
        PROVE  slots'[SlotOf(k)] = {}
    <3>1. SlotOf(k) # SlotOf(drawn[h])
      BY <1>1, SlotApart
    <3>2. SlotOf(k) \in Slot
      BY <1>1, SlotOfType
    <3> QED BY <1>1, <3>1, <3>2 DEF HandshakeInv, SlotStates
  <2> QED BY <1>1, <2>1, <2>2 DEF SlotStates
<1>5. Stages'
  BY <1>1, <1>p DEF HandshakeInv, Stages, Consumers
<1>6. SwapMarks'
  BY DEF HandshakeInv, SwapMarks
<1> QED BY <1>2, <1>3, <1>4, <1>5, <1>6 DEF HandshakeInv

\* Freeing a slot: its position is next used SWAPCHAIN frames later.
LEMMA ReleaseStep == HandshakeInv /\ ReleaseSlot /\ TypeOK' => HandshakeInv'
<1> SUFFICES ASSUME HandshakeInv, ReleaseSlot, TypeOK' PROVE HandshakeInv'
  OBVIOUS
<1> USE SwapchainAssumption DEF ReleaseSlot, flagVars, wakeVars, cpuVars, rasterVars
<1>1. /\ queued \in Nat /\ freed \in Nat /\ drawn \in [HALVES -> Nat] /\ swaps \in Nat
      /\ UNCHANGED <<drawn, queued, swaps, cpuPc>> /\ freed' = freed + 1
      /\ freed < queued /\ queued <= freed + SWAPCHAIN /\ freed = swaps
      /\ \A h \in HALVES : freed < drawn[h] /\ drawn[h] <= queued
      /\ read_slot = SlotOf(freed) /\ slots \in [Slot -> SUBSET S_RASTERED]
      /\ pc \in [Consumers -> ConsumerPc] /\ PRESENT \in Consumers /\ PRESENT \notin HALVES
  BY DEF HandshakeInv, TypeOK, Stages, Cursors, Counters, Main, HALVES, Consumers, PRESENT
<1>p. pc' = [pc EXCEPT ![PRESENT] = "wake"]
  BY DEF Main, Goto
<1>2. Counters'
  BY <1>1, <1>p DEF Counters
<1>3. Cursors'
  BY <1>1, <1>p DEF HandshakeInv, Cursors, Consumers, Main
<1>4. SlotStates'
  <2>1. ASSUME NEW k \in freed + 1 .. queued - 1
        PROVE  slots'[SlotOf(k)] =
                 {S_QUEUED} \cup {S_HALF(i) : i \in {g \in HALVES : drawn[g] > k}}
    <3>1. SlotOf(k) # SlotOf(freed) /\ SlotOf(k) \in Slot
      BY <1>1, SlotApart, SlotOfType
    <3>2. k \in freed .. queued - 1
      BY <1>1
    <3> QED BY <1>1, <3>1, <3>2 DEF HandshakeInv, SlotStates
  <2>2. ASSUME NEW k \in queued .. freed + SWAPCHAIN
        PROVE  slots'[SlotOf(k)] = {}
    <3>1. CASE k = freed + SWAPCHAIN
      <4>1. SlotOf(k) = SlotOf(freed) /\ SlotOf(freed) \in Slot
        BY <1>1, <3>1, SlotSame, SlotOfType
      <4> QED BY <1>1, <4>1
    <3>2. CASE k # freed + SWAPCHAIN
      <4>1. SlotOf(k) # SlotOf(freed) /\ SlotOf(k) \in Slot
        BY <1>1, <3>2, SlotApart, SlotOfType
      <4>2. k \in queued .. freed + SWAPCHAIN - 1
        BY <1>1, <3>2
      <4> QED BY <1>1, <4>1, <4>2 DEF HandshakeInv, SlotStates
    <3> QED BY <3>1, <3>2
  <2> QED BY <1>1, <2>1, <2>2 DEF SlotStates
<1>5. Stages'
  BY <1>1, <1>p DEF HandshakeInv, Stages, Consumers
<1>6. SwapMarks'
  BY DEF HandshakeInv, SwapMarks
<1> QED BY <1>2, <1>3, <1>4, <1>5, <1>6 DEF HandshakeInv

\* The cursors catch up with their counters.
LEMMA CpuWakeStep == HandshakeInv /\ CpuWake /\ TypeOK' => HandshakeInv'
<1> SUFFICES ASSUME HandshakeInv, CpuWake, TypeOK' PROVE HandshakeInv'
  OBVIOUS
<1> USE DEF CpuWake, flagVars, rasterVars, presentVars
<1>1. Counters' /\ SlotStates' /\ Stages' /\ SwapMarks'
  BY DEF HandshakeInv, Counters, SlotStates, Stages, SwapMarks
<1>2. Cursors'
  <2>1. NextSlot(SlotOf(queued - 1)) = SlotOf(queued)
    BY NextSlotOf DEF HandshakeInv, TypeOK
  <2> QED BY <2>1 DEF HandshakeInv, Cursors
<1> QED BY <1>1, <1>2 DEF HandshakeInv

LEMMA RasterWakeStep ==
    ASSUME HandshakeInv, NEW h \in HALVES, RasterWake(h), TypeOK'
    PROVE  HandshakeInv'
<1> USE DEF RasterWake, flagVars, cpuVars, presentVars
<1>1. /\ pc' = [pc EXCEPT ![h] = "test"] /\ pc \in [Consumers -> ConsumerPc]
      /\ h \in Consumers /\ h # PRESENT /\ pc[h] = "wake"
      /\ drawn[h] \in Int /\ wSlot \in [HALVES -> Slot] /\ wPix \in [HALVES -> Buf]
  BY DEF HandshakeInv, TypeOK, Goto, Consumers, HALVES, PRESENT
<1>2. Counters' /\ SlotStates' /\ Stages' /\ SwapMarks'
  BY <1>1 DEF HandshakeInv, Counters, SlotStates, Stages, SwapMarks, Consumers
<1>3. Cursors'
  <2>1. NextSlot(SlotOf(drawn[h] - 1)) = SlotOf(drawn[h])
    BY <1>1, NextSlotOf
  <2>2. NextBuf(BufOf(drawn[h] - 1)) = BufOf(drawn[h])
    BY <1>1, NextBufOf
  <2>3. wSlot'[h] = SlotOf(drawn[h]) /\ wPix'[h] = BufOf(drawn[h])
    BY <1>1, <2>1, <2>2 DEF HandshakeInv, Cursors
  <2> QED BY <1>1, <2>3 DEF HandshakeInv, Cursors, Consumers
<1> QED BY <1>2, <1>3 DEF HandshakeInv

LEMMA PresentWakeStep == HandshakeInv /\ PresentWake /\ TypeOK' => HandshakeInv'
<1> SUFFICES ASSUME HandshakeInv, PresentWake, TypeOK' PROVE HandshakeInv'
  OBVIOUS
<1> USE DEF PresentWake, flagVars, cpuVars, rasterVars
<1>1. /\ pc' = [pc EXCEPT ![PRESENT] = "present"] /\ pc \in [Consumers -> ConsumerPc]
      /\ PRESENT \in Consumers /\ PRESENT \notin HALVES /\ pc[PRESENT] = "wake"
  BY DEF HandshakeInv, TypeOK, Main, Goto, Consumers, HALVES, PRESENT
<1>2. Counters' /\ SlotStates' /\ Stages' /\ SwapMarks'
  BY <1>1 DEF HandshakeInv, Counters, SlotStates, Stages, SwapMarks, Consumers
<1>3. Cursors'
  <2>1. NextSlot(SlotOf(freed - 1)) = SlotOf(freed)
    BY NextSlotOf DEF HandshakeInv, TypeOK
  <2> QED BY <1>1, <2>1 DEF HandshakeInv, Cursors, Consumers
<1> QED BY <1>2, <1>3 DEF HandshakeInv

\* A swap returns: the presented buffer gets its mark, the cursor moves on.
LEMMA SwapReturnStep == HandshakeInv /\ SwapReturn /\ TypeOK' => HandshakeInv'
<1> SUFFICES ASSUME HandshakeInv, SwapReturn, TypeOK' PROVE HandshakeInv'
  OBVIOUS
<1> USE DEF SwapReturn, flagVars, wakeVars, cpuVars, rasterVars
<1>1. /\ pc' = [pc EXCEPT ![PRESENT] = "poll"] /\ pc \in [Consumers -> ConsumerPc]
      /\ PRESENT \in Consumers /\ PRESENT \notin HALVES /\ pc[PRESENT] = "present"
      /\ swaps \in Nat /\ swaps' = swaps + 1 /\ present_pixels = BufOf(swaps)
      /\ swappedAt \in [Buf -> Nat] /\ UNCHANGED <<freed, queued, drawn, cpuPc>>
  BY DEF HandshakeInv, TypeOK, Cursors, Main, Goto, Consumers, HALVES, PRESENT
<1>2. Counters' /\ SlotStates' /\ Stages'
  BY <1>1 DEF HandshakeInv, Counters, SlotStates, Stages, Consumers
<1>3. Cursors'
  <2>1. NextBuf(BufOf(swaps)) = BufOf(swaps + 1)
    BY <1>1, NextBufOf
  <2> QED BY <1>1, <2>1 DEF HandshakeInv, Cursors, Consumers
<1>4. SwapMarks'
  <2> SUFFICES ASSUME NEW b \in Buf
               PROVE  /\ swappedAt'[b] <= swaps + 1
                      /\ swappedAt'[b] > 0 => BufOf(swappedAt'[b] - 1) = b
    BY <1>1 DEF SwapMarks
  <2>1. CASE b = present_pixels
    <3>1. swappedAt'[b] = swaps + 1 /\ swaps + 1 - 1 = swaps
      BY <1>1, <2>1
    <3> QED BY <1>1, <2>1, <3>1
  <2>2. CASE b # present_pixels
    BY <1>1, <2>2 DEF HandshakeInv, SwapMarks
  <2> QED BY <2>1, <2>2
<1> QED BY <1>2, <1>3, <1>4 DEF HandshakeInv

\* The rings start at position zero.
LEMMA RingStart == SlotOf(0) = 0 /\ BufOf(0) = 0 /\ 0 \in Slot /\ 0 \in Buf
<1>1. SlotOf(0) = 0
  BY SwapchainAssumption, ModOf, SWAPCHAIN * 0 + 0 = 0 DEF SlotOf
<1>2. BufOf(0) = 0
  BY BufsPositive, ModOf, FRAME_BUFS * 0 + 0 = 0 DEF BufOf
<1> QED BY <1>1, <1>2, SwapchainAssumption, BufsPositive DEF Slot, Buf

\* The first game starts with an empty handshake.
LEMMA InitInv == Init => HandshakeInv
<1> SUFFICES ASSUME Init PROVE HandshakeInv
  OBVIOUS
<1> USE SwapchainAssumption, BoundsAssumption, RingStart DEF Init
<1>1. TypeOK
  <2>1. pc \in [Consumers -> ConsumerPc] /\ cpuPc \in CpuPc
    BY DEF ConsumerPc, CpuPc
  <2>2. game \in 1 .. MaxGames /\ 0 \in 0 .. MaxFrames
    OBVIOUS
  <2>3. pixels \in [Buf -> [HALVES -> 0 .. MaxFrames]]
    BY <2>2
  <2> QED BY <2>1, <2>2, <2>3 DEF TypeOK
<1>2. Counters
  BY DEF Counters, HALVES, Consumers, PRESENT
<1>3. Cursors
  BY DEF Cursors, HALVES, Consumers, PRESENT
<1>4. SlotStates
  BY SlotOfType DEF SlotStates
<1>5. Stages
  BY DEF Stages, HALVES, Consumers, PRESENT
<1>6. SwapMarks
  BY DEF SwapMarks
<1> QED BY <1>1, <1>2, <1>3, <1>4, <1>5, <1>6 DEF HandshakeInv

\* So does every later one.
LEMMA ResetStep == HandshakeInv /\ ResetForNewGame /\ TypeOK' => HandshakeInv'
<1> SUFFICES ASSUME HandshakeInv, ResetForNewGame, TypeOK' PROVE HandshakeInv'
  OBVIOUS
<1> USE SwapchainAssumption, BoundsAssumption, RingStart DEF ResetForNewGame, ResetShared
<1>2. Counters'
  BY DEF Counters, HALVES, Consumers, PRESENT
<1>3. Cursors'
  BY DEF Cursors, HALVES, Consumers, PRESENT
<1>4. SlotStates'
  BY SlotOfType DEF SlotStates
<1>5. Stages'
  BY DEF Stages, HALVES, Consumers, PRESENT
<1>6. SwapMarks'
  BY DEF SwapMarks
<1> QED BY <1>2, <1>3, <1>4, <1>5, <1>6 DEF HandshakeInv

\* The three tests that let a thread act on a slot, and the steps that only
\* move a program counter.
LEMMA QuietSteps ==
    ASSUME HandshakeInv, TypeOK',
           \/ \E W \in SUBSET Regions : RunFrame(W)
           \/ OnFrameFinish \/ QueueFrameSnapshot \/ CpuGate \/ CpuExit
           \/ \E c \in Consumers : WaitStep(c)
           \/ PollRender \/ PollCapture \/ CaptureDone
           \/ Pause \/ MenuCapture \/ StepPausedFrame \/ Resume
           \/ SetQuit \/ QuitWake \/ Join \/ UNCHANGED vars
    PROVE  HandshakeInv'
<1> USE DEF flagVars, wakeVars, cpuVars, rasterVars, presentVars
<1>1. /\ pc \in [Consumers -> ConsumerPc] /\ PRESENT \in Consumers /\ PRESENT \notin HALVES
      /\ HALVES \subseteq Consumers /\ Stages
      /\ \A c \in Consumers : c \in HALVES \/ c = PRESENT
  BY DEF HandshakeInv, TypeOK, Consumers, HALVES, PRESENT
<1>2. CASE OnFrameFinish
  <2>1. slots[write_slot] = {} => queued < freed + SWAPCHAIN
    BY <1>2, EmptySlotMeansRoom DEF OnFrameFinish, SlotFree
  <2> QED BY <1>1, <1>2, <2>1, QuietStep DEF OnFrameFinish, SlotFree, Stages
<1>3. ASSUME NEW c \in Consumers, WaitTest(c)
      PROVE  HandshakeInv'
  <2>1. CASE c = PRESENT
    <3>1. Ready(c) => \A h \in HALVES : freed < drawn[h]
      BY <1>3, <2>1, RasteredMeansDrawn DEF WaitTest
    <3>2. /\ \A h \in HALVES : pc'[h] = pc[h]
          /\ pc'[PRESENT] \in {"release", "quitTest"} /\ (pc'[PRESENT] = "release" => Ready(c))
      BY <1>1, <1>3, <2>1 DEF WaitTest, Goto
    <3> QED BY <1>1, <1>3, <2>1, <3>1, <3>2, QuietStep DEF WaitTest, Stages
  <2>2. CASE c \in HALVES
    <3>1. Ready(c) => drawn[c] < queued
      BY <1>3, <2>2, ReadyMeansQueued DEF WaitTest
    <3>2. /\ \A d \in Consumers \ {c} : pc'[d] = pc[d]
          /\ pc'[c] \in {"draw", "quitTest"} /\ (pc'[c] = "draw" => Ready(c))
      BY <1>1, <1>3, <2>2 DEF WaitTest, Goto
    <3> QED BY <1>1, <1>3, <2>2, <3>1, <3>2, QuietStep DEF WaitTest, Stages
  <2> QED BY <1>1, <2>1, <2>2
<1>4. ASSUME NEW c \in Consumers, WaitSleep(c)
      PROVE  HandshakeInv'
  <2>1. /\ \A d \in Consumers \ {c} : pc'[d] = pc[d]
        /\ pc'[c] \in {"test", IF c = PRESENT THEN "poll" ELSE "done"}
    BY <1>1, <1>4 DEF WaitSleep, Goto
  <2> QED BY <1>1, <1>4, <2>1, QuietStep DEF WaitSleep, Stages
<1>5. ASSUME NEW c \in Consumers, WaitTimeout(c)
      PROVE  HandshakeInv'
  BY <1>1, <1>5, QuietStep DEF WaitTimeout, Stages
<1>6. CASE (\E W \in SUBSET Regions : RunFrame(W)) \/ QueueFrameSnapshot \/ CpuGate \/ CpuExit
  BY <1>1, <1>6, QuietStep DEF RunFrame, QueueFrameSnapshot, CpuGate, CpuExit, Stages
<1>7. CASE \/ PollRender \/ PollCapture \/ CaptureDone
           \/ Pause \/ MenuCapture \/ StepPausedFrame \/ Resume
           \/ SetQuit \/ QuitWake \/ Join
  <2>1. /\ \A h \in HALVES : pc'[h] = pc[h]
        /\ pc[PRESENT] \notin {"wake", "present"}
        /\ pc'[PRESENT] \notin {"wake", "present", "release"}
    BY <1>1, <1>7 DEF PollRender, PollCapture, CaptureDone, Pause, MenuCapture,
       StepPausedFrame, Resume, SetQuit, QuitWake, Join, Main, Goto
  <2>2. /\ UNCHANGED <<slots, queued, drawn, freed, swaps, swappedAt>>
        /\ UNCHANGED <<write_slot, wSlot, wPix, read_slot, present_pixels, cpuPc>>
    BY <1>7 DEF PollRender, PollCapture, CaptureDone, Pause, MenuCapture,
       StepPausedFrame, Resume, SetQuit, QuitWake, Join
  <2> QED BY <1>1, <2>1, <2>2, QuietStep DEF Stages
<1>8. CASE UNCHANGED vars
  BY <1>1, <1>8, QuietStep DEF vars, Stages
<1> QED BY <1>2, <1>3, <1>4, <1>5, <1>6, <1>7, <1>8 DEF WaitStep

\* HandshakeInv is inductive.
LEMMA HandshakeStep == HandshakeInv /\ [Next]_vars => HandshakeInv'
<1> SUFFICES ASSUME HandshakeInv, [Next]_vars PROVE HandshakeInv'
  OBVIOUS
<1>1. TypeOK'
  BY TypeStep DEF HandshakeInv
<1> QED
  BY <1>1, StoreStep, RasterizeStep, ReleaseStep, CpuWakeStep, RasterWakeStep, PresentWakeStep,
     SwapReturnStep, ResetStep, QuietSteps
  DEF Next, CpuStep, RasterStep, PresentStep, Terminated

\* The frame handshake of gpu.rs, for every depth of the two rings: types,
\* stage order, lockstep cursors, slot bits and swap marks.
THEOREM HandshakeCorrect == Spec => []HandshakeInv
<1> QED BY InitInv, HandshakeStep, PTL DEF Spec

\* The types hold in every reachable state.
THEOREM TypeCorrect == Spec => []TypeOK
<1>1. HandshakeInv => TypeOK
  BY DEF HandshakeInv
<1> QED BY <1>1, HandshakeCorrect, PTL

\* The cpu thread never rewrites a slot that a worker draws from: "slot
\* inputs are written only while the slot's state is zero".
THEOREM SlotsNeverShared == Spec => []SlotExclusive
<1>1. HandshakeInv => SlotExclusive
  <2> SUFFICES ASSUME HandshakeInv, cpuPc \in {"snapshot", "store"}
               PROVE  /\ slots[write_slot] = {}
                      /\ \A h \in HALVES : pc[h] = "draw" => wSlot[h] # write_slot
    BY DEF SlotExclusive
  <2>1. /\ queued \in Nat /\ freed \in Nat /\ drawn \in [HALVES -> Nat]
        /\ queued < freed + SWAPCHAIN /\ write_slot = SlotOf(queued)
    BY DEF HandshakeInv, TypeOK, Stages, Cursors
  <2>2. slots[write_slot] = {}
    <3>1. queued \in queued .. freed + SWAPCHAIN - 1
      BY <2>1, SwapchainAssumption
    <3> QED BY <2>1, <3>1 DEF HandshakeInv, SlotStates
  <2>3. ASSUME NEW h \in HALVES, pc[h] = "draw"
        PROVE  wSlot[h] # write_slot
    <3>1. wSlot[h] = SlotOf(drawn[h]) /\ freed <= drawn[h] /\ drawn[h] < queued
      BY <2>3 DEF HandshakeInv, Cursors, Counters, Stages
    <3> QED BY <2>1, <3>1, SwapchainAssumption, SlotApart
  <2> QED BY <2>2, <2>3
<1> QED BY <1>1, HandshakeCorrect, PTL

\* What a drawing worker's position is, relative to the swaps that returned.
LEMMA DrawWindow ==
    ASSUME HandshakeInv, NEW h \in HALVES, pc[h] = "draw"
    PROVE  /\ swaps \in Nat /\ drawn[h] \in Nat /\ freed \in Nat
           /\ wPix[h] = BufOf(drawn[h]) /\ present_pixels = BufOf(swaps)
           /\ freed <= drawn[h] /\ swaps <= freed
           /\ drawn[h] <= swaps + SWAPCHAIN
           /\ pc[PRESENT] \in {"wake", "present"} => swaps < drawn[h]
  BY SwapchainAssumption DEF HandshakeInv, TypeOK, Cursors, Counters, Stages, PRESENT

\* Neither the buffer being presented nor the one a screenshot reads is ever
\* composed into, whether or not the game is paused.
THEOREM BuffersNeverShared == Spec => []BufferExclusive
<1>1. HandshakeInv => BufferExclusive
  <2> SUFFICES ASSUME HandshakeInv, NEW h \in HALVES, pc[h] = "draw"
               PROVE  /\ pc[PRESENT] \in {"wake", "present"} => wPix[h] # present_pixels
                      /\ pc[PRESENT] \in {"capture", "menuCapture"} =>
                             wPix[h] # PrevBuf(present_pixels)
    BY DEF BufferExclusive
  <2> DEFINE d == drawn[h]
  <2>1. /\ swaps \in Nat /\ d \in Nat /\ wPix[h] = BufOf(d) /\ present_pixels = BufOf(swaps)
        /\ swaps <= d /\ d <= swaps + SWAPCHAIN
        /\ pc[PRESENT] \in {"wake", "present"} => swaps < d
    BY DrawWindow
  <2> HIDE DEF d
  <2>2. SWAPCHAIN \in Nat /\ FRAME_BUFS \in Nat /\ FRAME_BUFS >= SWAPCHAIN + 3
    BY SwapchainAssumption, FrameBufsAssumption DEF SLACK
  <2>3. swaps < d => BufOf(swaps) # BufOf(d)
    BY <2>1, <2>2, BufApart
  <2>4. BufOf(swaps - 1) # BufOf(d)
    <3>1. swaps - 1 \in Int /\ swaps - 1 < d /\ d < (swaps - 1) + FRAME_BUFS
      BY <2>1, <2>2
    <3> QED BY <2>1, <3>1, BufApart
  <2>5. PrevBuf(present_pixels) = BufOf(swaps - 1)
    BY <2>1, PrevBufOf
  <2> QED BY <2>1, <2>3, <2>4, <2>5
<1> QED BY <1>1, HandshakeCorrect, PTL

\* Two swap-returns separate a buffer's own swap from its rewrite, whenever
\* the buffer ring is three deeper than the swapchain (5 and 2 in gpu.rs).
THEOREM SwapSlackHolds == Spec => []SwapSlack
<1>1. HandshakeInv => SwapSlack
  <2> SUFFICES ASSUME HandshakeInv, NEW h \in HALVES, pc[h] = "draw", swappedAt[wPix[h]] > 0
               PROVE  swaps - swappedAt[wPix[h]] >= SLACK
    BY DEF SwapSlack
  <2> DEFINE d == drawn[h]
             m == swappedAt[wPix[h]]
  <2>1. /\ swaps \in Nat /\ d \in Nat /\ wPix[h] = BufOf(d)
        /\ swaps <= d /\ d <= swaps + SWAPCHAIN
    BY DrawWindow
  <2>2. wPix[h] \in Buf /\ m \in Nat
    BY DEF HandshakeInv, TypeOK
  <2>3. m <= swaps /\ BufOf(m - 1) = BufOf(d) /\ m > 0
    BY <2>1, <2>2 DEF HandshakeInv, SwapMarks
  <2> HIDE DEF d, m
  <2>4. m - 1 \in Int /\ m - 1 < d
    BY <2>1, <2>2, <2>3
  <2>5. ~(d < (m - 1) + FRAME_BUFS)
    BY <2>1, <2>3, <2>4, BufApart
  <2>6. SWAPCHAIN \in Nat /\ FRAME_BUFS \in Nat /\ FRAME_BUFS >= SWAPCHAIN + 3
    BY SwapchainAssumption, FrameBufsAssumption DEF SLACK
  <2>7. swaps - m >= 2
    BY <2>1, <2>2, <2>5, <2>6
  <2> QED BY <2>7 DEF m, SLACK
<1> QED BY <1>1, HandshakeCorrect, PTL

\* Per-slot dirty tracking loses no write, however many frames are dropped.
THEOREM SnapshotsFresh == Spec => []SnapshotFresh
<1>1. Init => SnapshotInv
  <2> SUFFICES ASSUME Init PROVE SnapshotInv
    OBVIOUS
  <2>1. TypeOK
    BY InitInv DEF HandshakeInv
  <2> QED BY <2>1 DEF Init, SnapshotInv, SnapshotFresh
<1>2. SnapshotInv /\ [Next]_vars => SnapshotInv'
  <2> SUFFICES ASSUME SnapshotInv, [Next]_vars PROVE SnapshotInv'
    OBVIOUS
  <2>1. TypeOK /\ TypeOK'
    BY TypeStep DEF SnapshotInv
  <2> USE DEF SnapshotInv, SnapshotFresh
  <2>2. ASSUME NEW W \in SUBSET Regions, RunFrame(W)
        PROVE  SnapshotInv'
    BY <2>1, <2>2 DEF TypeOK, RunFrame
  <2>3. CASE OnFrameFinish
    BY <2>1, <2>3 DEF TypeOK, OnFrameFinish, MarkDirty
  <2>4. CASE QueueFrameSnapshot
    BY <2>1, <2>4 DEF TypeOK, QueueFrameSnapshot
  <2>5. CASE QueueFrameStore \/ CpuWake \/ CpuGate \/ CpuExit
    BY <2>1, <2>5 DEF TypeOK, QueueFrameStore, CpuWake, CpuGate, CpuExit
  <2>6. CASE ResetForNewGame
    BY <2>1, <2>6 DEF TypeOK, ResetForNewGame, ResetShared
  <2>7. CASE UNCHANGED cpuVars
    BY <2>1, <2>7 DEF cpuVars
  <2>8. CASE \/ \E h \in HALVES : RasterStep(h)
             \/ \E c \in Consumers : WaitStep(c)
             \/ PollRender \/ PollCapture \/ CaptureDone
             \/ ReleaseSlot \/ PresentWake \/ SwapReturn
             \/ Pause \/ MenuCapture \/ StepPausedFrame \/ Resume
             \/ SetQuit \/ QuitWake \/ Join \/ UNCHANGED vars
    <3>1. UNCHANGED cpuVars
      BY <2>8 DEF RasterStep, RasterizeHalf, RasterWake, WaitStep, WaitTest, WaitSleep,
         WaitTimeout, PollRender, PollCapture, CaptureDone, ReleaseSlot, PresentWake,
         SwapReturn, Pause, MenuCapture, StepPausedFrame, Resume, SetQuit, QuitWake, Join,
         cpuVars, vars
    <3> QED BY <3>1, <2>7
  <2> QED BY <2>2, <2>3, <2>4, <2>5, <2>6, <2>8
      DEF Next, CpuStep, PresentStep, Terminated
<1>3. SnapshotInv => SnapshotFresh
  BY DEF SnapshotInv
<1> QED BY <1>1, <1>2, <1>3, PTL DEF Spec

\* A step that leaves slots, cursors and the sleepers alone, and starts from
\* no wake of its own, keeps WakeInv when the program counters allow it.
LEMMA WakeQuiet ==
    ASSUME WakeInv, TypeOK', UNCHANGED <<slots, wSlot, read_slot, wakeMutex, waitSet>>,
           quit' => quit \/ Waking', Waking => Waking',
           \A c \in Consumers : pc'[c] = "quitTest" <=> pc[c] = "quitTest",
           \A c \in waitSet : pc'[c] = "test",
           pc'[PRESENT] = "off" => \A h \in HALVES : pc'[h] = "done"
    PROVE  WakeInv'
<1>1. \A c \in Consumers : Ready(c)' <=> Ready(c)
  BY DEF Ready
<1>2. ASSUME NEW c \in Consumers, c \in waitSet' \/ pc'[c] = "quitTest", Ready(c)'
      PROVE  Waking'
  BY <1>1, <1>2 DEF WakeInv
<1> QED BY <1>2 DEF WakeInv, TypeOK

\* Every wake() finds the lock free, so nobody is between test and sleep.
LEMMA WakeAll ==
    ASSUME WakeInv, TypeOK', wakeMutex = FREE, wakeMutex' = FREE, waitSet' = {},
           \A c \in Consumers : pc'[c] = "quitTest" => pc[c] = "quitTest",
           pc'[PRESENT] # "off"
    PROVE  WakeInv'
<1>1. \A c \in Consumers : c # FREE
  BY DEF Consumers, HALVES, PRESENT, FREE
<1>2. \A c \in Consumers : pc'[c] # "quitTest"
  BY <1>1 DEF WakeInv
<1> QED BY <1>1, <1>2 DEF WakeInv

\* A store that is followed by a wake() may make any predicate true.
LEMMA WakeStore ==
    ASSUME WakeInv, TypeOK', Waking', UNCHANGED <<wakeMutex, waitSet>>,
           \A c \in Consumers : pc'[c] = "quitTest" <=> pc[c] = "quitTest",
           \A c \in waitSet : pc'[c] = "test",
           pc'[PRESENT] # "off"
    PROVE  WakeInv'
  BY DEF WakeInv

\* No wakeup is lost between a consumer's test and its sleep: wake() takes
\* the mutex the tester holds.  The 20 ms timeout is not needed for this.
THEOREM WakeupsNotLost == Spec => []NoLostWakeup
<1> USE DEF flagVars, wakeVars, cpuVars, rasterVars, presentVars
<1>1. Init => WakeInv
  <2> SUFFICES ASSUME Init PROVE WakeInv
    OBVIOUS
  <2>1. TypeOK
    BY InitInv DEF HandshakeInv
  <2>2. \A c \in Consumers : c # FREE
    BY DEF Consumers, HALVES, PRESENT, FREE
  <2> QED BY <2>1, <2>2 DEF Init, WakeInv, Consumers, PRESENT
<1>2. WakeInv /\ [Next]_vars => WakeInv'
  <2> SUFFICES ASSUME WakeInv, [Next]_vars PROVE WakeInv'
    OBVIOUS
  <2>1. /\ TypeOK /\ TypeOK' /\ pc \in [Consumers -> ConsumerPc]
        /\ PRESENT \in Consumers /\ PRESENT \notin HALVES /\ HALVES \subseteq Consumers
        /\ \A c \in Consumers : c # FREE
    BY TypeStep DEF WakeInv, TypeOK, Consumers, HALVES, PRESENT, FREE
  <2>2. ASSUME NEW c \in Consumers, WaitTest(c)
        PROVE  WakeInv'
    <3>1. /\ pc[c] = "test" /\ c \notin waitSet /\ wakeMutex = FREE
          /\ UNCHANGED <<slots, waitSet, quit, wSlot, read_slot, cpuPc>>
          /\ \A d \in Consumers \ {c} : pc'[d] = pc[d]
          /\ \/ pc'[c] \in {"draw", "release"} /\ wakeMutex' = FREE
             \/ pc'[c] = "quitTest" /\ wakeMutex' = c /\ ~Ready(c)
      BY <2>1, <2>2 DEF WaitTest, Goto
    <3>2. \A d \in Consumers : Ready(d)' <=> Ready(d)
      BY <3>1 DEF Ready
    <3>3. Waking => Waking'
      BY <3>1 DEF Waking
    <3>4. \A d \in Consumers : pc[d] # "quitTest"
      BY <2>1, <3>1 DEF WakeInv
    <3>5. \A d \in Consumers : pc'[d] = "quitTest" <=> wakeMutex' = d
      BY <2>1, <3>1, <3>4
    <3>6. \A d \in waitSet' : pc'[d] = "test"
      BY <2>1, <3>1 DEF WakeInv, TypeOK
    <3>7. ASSUME NEW d \in Consumers, d \in waitSet' \/ pc'[d] = "quitTest", Ready(d)'
          PROVE  Waking'
      BY <3>1, <3>2, <3>3, <3>4, <3>7 DEF WakeInv
    <3>8. pc'[PRESENT] = "off" => \A h \in HALVES : pc'[h] = "done"
      BY <2>1, <3>1 DEF WakeInv
    <3> QED BY <2>1, <3>1, <3>3, <3>5, <3>6, <3>7, <3>8 DEF WakeInv
  <2>3. ASSUME NEW c \in Consumers, WaitSleep(c)
        PROVE  WakeInv'
    <3>1. /\ pc[c] = "quitTest" /\ wakeMutex = c /\ wakeMutex' = FREE
          /\ UNCHANGED <<slots, quit, wSlot, read_slot, cpuPc>>
          /\ \A d \in Consumers \ {c} : pc'[d] = pc[d]
          /\ \/ pc'[c] \in {"poll", "done"} /\ waitSet' = waitSet
             \/ pc'[c] = "test" /\ waitSet' = waitSet \cup {c} /\ ~quit
      BY <2>1, <2>3 DEF WaitSleep, IsQuit, Goto, WakeInv
    <3>2. \A d \in Consumers : Ready(d)' <=> Ready(d)
      BY <3>1 DEF Ready
    <3>3. Waking => Waking'
      BY <3>1 DEF Waking
    <3>4. \A d \in Consumers \ {c} : pc[d] # "quitTest"
      BY <2>1, <3>1 DEF WakeInv
    <3>5. \A d \in Consumers : pc'[d] = "quitTest" <=> wakeMutex' = d
      BY <2>1, <3>1, <3>4
    <3>6. \A d \in waitSet' : pc'[d] = "test"
      BY <2>1, <3>1 DEF WakeInv, TypeOK
    <3>7. ASSUME NEW d \in Consumers, d \in waitSet' \/ pc'[d] = "quitTest", Ready(d)'
          PROVE  Waking'
      BY <3>1, <3>2, <3>3, <3>4, <3>7 DEF WakeInv
    <3>8. pc'[PRESENT] = "off" => \A h \in HALVES : pc'[h] = "done"
      BY <2>1, <3>1 DEF WakeInv
    <3>9. waitSet' # {} /\ quit' => Waking'
      BY <3>1, <3>3 DEF WakeInv
    <3> QED BY <2>1, <3>5, <3>6, <3>7, <3>8, <3>9 DEF WakeInv
  <2>4. ASSUME NEW c \in Consumers, WaitTimeout(c)
        PROVE  WakeInv'
    <3>1. \A d \in Consumers : Ready(d)' <=> Ready(d)
      BY <2>4 DEF WaitTimeout, Ready
    <3>2. Waking' <=> Waking
      BY <2>4 DEF WaitTimeout, Waking
    <3> QED BY <2>1, <2>4, <3>1, <3>2 DEF WaitTimeout, WakeInv
  <2>5. CASE QueueFrameStore
    <3>1. Waking'
      BY <2>5 DEF QueueFrameStore, Waking
    <3>2. cpuPc # "done" /\ UNCHANGED <<pc, wakeMutex, waitSet>>
      BY <2>5 DEF QueueFrameStore
    <3> QED BY <2>1, <2>5, <3>1, <3>2 DEF WakeInv
  <2>6. ASSUME NEW h \in HALVES, RasterizeHalf(h)
        PROVE  WakeInv'
    <3>1. /\ pc[h] = "draw" /\ pc'[h] = "wake" /\ UNCHANGED <<wakeMutex, waitSet>>
          /\ \A d \in Consumers \ {h} : pc'[d] = pc[d]
      BY <2>1, <2>6 DEF RasterizeHalf, Goto
    <3>2. Waking'
      BY <2>1, <3>1 DEF Waking
    <3>3. pc'[PRESENT] # "off"
      BY <2>1, <3>1 DEF WakeInv
    <3>4. \A c \in waitSet : pc'[c] = "test"
      BY <2>1, <3>1 DEF WakeInv, TypeOK
    <3> QED BY <2>1, <3>1, <3>2, <3>3, <3>4, WakeStore
  <2>7. CASE ReleaseSlot \/ SetQuit
    <3>1. /\ pc[PRESENT] \in {"release", "poll", "teardown"}
          /\ pc'[PRESENT] \in {"wake", "wakeQuit"} /\ UNCHANGED <<wakeMutex, waitSet>>
          /\ \A d \in Consumers \ {PRESENT} : pc'[d] = pc[d]
      BY <2>1, <2>7 DEF ReleaseSlot, SetQuit, Main, Goto
    <3>2. Waking'
      BY <2>1, <3>1 DEF Waking
    <3>3. \A c \in waitSet : pc'[c] = "test"
      BY <2>1, <3>1 DEF WakeInv, TypeOK
    <3> QED BY <2>1, <3>1, <3>2, <3>3, WakeStore
  <2>8. CASE CpuWake \/ (\E h \in HALVES : RasterWake(h)) \/ PresentWake \/ QuitWake
    <3>1. /\ wakeMutex = FREE /\ wakeMutex' = FREE /\ waitSet' = {}
          /\ \A c \in Consumers : pc'[c] = "quitTest" => pc[c] = "quitTest"
      BY <2>1, <2>8 DEF CpuWake, RasterWake, PresentWake, QuitWake, NotifyAll, Main, Goto
    <3>2. CASE pc'[PRESENT] # "off"
      BY <2>1, <3>1, <3>2, WakeAll
    <3>3. CASE pc'[PRESENT] = "off"
      <4>1. CpuWake /\ pc' = pc
        BY <2>1, <2>8, <3>3 DEF CpuWake, RasterWake, PresentWake, QuitWake, Main, Goto, WakeInv
      <4> QED BY <2>1, <3>1, <4>1 DEF WakeInv
    <3> QED BY <3>2, <3>3
  <2>9. CASE \/ \E W \in SUBSET Regions : RunFrame(W)
             \/ OnFrameFinish \/ QueueFrameSnapshot \/ CpuGate \/ CpuExit \/ UNCHANGED vars
    <3>1. /\ UNCHANGED <<pc, slots, wSlot, read_slot, wakeMutex, waitSet, quit>>
          /\ cpuPc = "wake" => cpuPc' = "wake"
      BY <2>9 DEF RunFrame, OnFrameFinish, QueueFrameSnapshot, CpuGate, CpuExit, vars
    <3>2. Waking => Waking'
      BY <3>1 DEF Waking
    <3> QED BY <2>1, <3>1, <3>2, WakeQuiet DEF WakeInv
  <2>10. CASE \/ PollRender \/ PollCapture \/ CaptureDone \/ SwapReturn
              \/ Pause \/ MenuCapture \/ StepPausedFrame \/ Resume \/ Join
    <3>1. /\ UNCHANGED <<slots, wSlot, read_slot, wakeMutex, waitSet, quit, cpuPc>>
          /\ pc[PRESENT] \notin {"test", "quitTest", "wake", "wakeQuit"}
          /\ pc'[PRESENT] \notin {"quitTest"}
          /\ \A d \in Consumers \ {PRESENT} : pc'[d] = pc[d]
          /\ pc'[PRESENT] = "off" => Joined
      BY <2>1, <2>10 DEF PollRender, PollCapture, CaptureDone, SwapReturn, Pause, MenuCapture,
         StepPausedFrame, Resume, Join, Main, Goto
    <3>2. Waking => Waking'
      BY <2>1, <3>1 DEF Waking
    <3>3. \A c \in waitSet : pc'[c] = "test"
      BY <2>1, <3>1 DEF WakeInv, TypeOK
    <3> QED BY <2>1, <3>1, <3>2, <3>3, WakeQuiet DEF Joined
  <2>11. CASE ResetForNewGame
    <3>1. waitSet = {} /\ wakeMutex = FREE
      BY <2>1, <2>11 DEF ResetForNewGame, ResetShared, WakeInv, TypeOK, Consumers
    <3>2. /\ UNCHANGED <<wakeMutex, waitSet>>
          /\ \A c \in Consumers : pc'[c] \in {"poll", "test"}
      BY <2>11 DEF ResetForNewGame, ResetShared
    <3> QED BY <2>1, <3>1, <3>2 DEF WakeInv
  <2> QED BY <2>2, <2>3, <2>4, <2>5, <2>6, <2>7, <2>8, <2>9, <2>10, <2>11
      DEF Next, CpuStep, RasterStep, WaitStep, PresentStep, Terminated
<1>3. WakeInv => NoLostWakeup
  BY DEF WakeInv, NoLostWakeup, TypeOK
<1> QED BY <1>1, <1>2, <1>3, PTL DEF Spec
-----------------------------------------------------------------------------
(* The refinement of FrameQueue.                                           *)

\* The frame brought to the display is the front of the queue it left: its
\* halves lie in a buffer of their own.
LEMMA PictureWindow ==
    ASSUME PictureInv
    PROVE  /\ queued \in Nat /\ freed \in Nat /\ swaps \in Nat /\ drawn \in [HALVES -> Nat]
           /\ SWAPCHAIN \in Nat \ {0} /\ FRAME_BUFS \in Nat /\ FRAME_BUFS > SWAPCHAIN + 1
           /\ freed <= queued /\ queued <= freed + SWAPCHAIN
           /\ \A h \in HALVES : freed <= drawn[h] /\ drawn[h] <= queued
           /\ freed \in {swaps, swaps + 1} /\ present_pixels = BufOf(swaps)
           /\ pc[PRESENT] \in {"wake", "present"} <=> freed = swaps + 1
  BY SwapchainAssumption, FrameBufsAssumption
  DEF PictureInv, HandshakeInv, TypeOK, Counters, Cursors, SLACK, HALVES

\* A step that touches neither frames nor stages.
LEMMA PictureQuiet ==
    ASSUME PictureInv, HandshakeInv',
           UNCHANGED <<queued, drawn, freed, slotFrame, pixels, present_pixels, frame>>,
           UNCHANGED write_slot \/ cpuPc' # "store",
           cpuPc' \in {"vblank", "snapshot", "store"} => cpuPc \in {"vblank", "snapshot", "store"},
           cpuPc' = "store" => cpuPc = "store",
           pc'[PRESENT] \in {"wake", "present"} => pc[PRESENT] \in {"wake", "present"}
    PROVE  PictureInv'
  BY DEF PictureInv

\* A function on an interval from 1 is a sequence of that length.
LEMMA IntervalSeq ==
    ASSUME NEW n \in Nat, NEW s \in [1 .. n -> Nat]
    PROVE  s \in Seq(Nat) /\ Len(s) = n
<1>1. s \in Seq(Nat)
  BY SeqDef
<1>2. DOMAIN s = 1 .. n /\ DOMAIN s = 1 .. Len(s) /\ Len(s) \in Nat
  BY <1>1, LenProperties
<1> QED BY <1>1, <1>2

\* One more position at the end is an Append, one less at the front a Tail.
LEMMA IntervalAppend ==
    ASSUME NEW n \in Nat, NEW s \in Seq(Nat), Len(s) = n, NEW x \in Nat,
           NEW t \in [1 .. n + 1 -> Nat], \A i \in 1 .. n : t[i] = s[i], t[n + 1] = x
    PROVE  t = Append(s, x)
<1>1. t \in Seq(Nat) /\ Len(t) = n + 1
  BY IntervalSeq
<1>2. /\ Append(s, x) \in Seq(Nat) /\ Len(Append(s, x)) = n + 1
      /\ \A i \in 1 .. n : Append(s, x)[i] = s[i]
      /\ Append(s, x)[n + 1] = x
  BY AppendProperties
<1>3. \A i \in 1 .. n + 1 : t[i] = Append(s, x)[i]
  BY <1>2
<1> QED BY <1>1, <1>2, <1>3, SeqEqual

LEMMA IntervalTail ==
    ASSUME NEW n \in Nat \ {0}, NEW s \in Seq(Nat), Len(s) = n,
           NEW t \in [1 .. n - 1 -> Nat], \A i \in 1 .. n - 1 : t[i] = s[i + 1]
    PROVE  t = Tail(s)
<1>1. t \in Seq(Nat) /\ Len(t) = n - 1
  <2>1. n - 1 \in Nat
    OBVIOUS
  <2> QED BY <2>1, IntervalSeq
<1>2. s # <<>>
  BY EmptySeq
<1>3. /\ Tail(s) \in Seq(Nat) /\ Len(Tail(s)) = n - 1
      /\ \A i \in 1 .. n - 1 : Tail(s)[i] = s[i + 1]
  BY <1>2, HeadTailProperties
<1> QED BY <1>1, <1>3, SeqEqual

\* What the refinement mapping gives for the queue and the frame in hand.
InFlight == [i \in 1 .. queued - freed |-> slotFrame[SlotOf(freed + i - 1)]]
Presenting == IF pc[PRESENT] \in {"wake", "present"} THEN pixels[present_pixels][0] ELSE 0

\* The frames between the published and the freed slots, oldest first.
LEMMA InFlightSeq ==
    ASSUME PictureInv
    PROVE  /\ InFlight \in Seq(Nat) /\ Len(InFlight) = queued - freed
           /\ \A i \in 1 .. queued - freed : InFlight[i] = slotFrame[SlotOf(freed + i - 1)]
<1>1. queued - freed \in Nat /\ freed \in Nat
  BY PictureWindow
<1>2. \A i \in 1 .. queued - freed : slotFrame[SlotOf(freed + i - 1)] \in Nat
  <2> TAKE i \in 1 .. queued - freed
  <2>1. SlotOf(freed + i - 1) \in Slot
    BY <1>1, SlotOfType
  <2> QED BY <2>1, BoundsAssumption DEF PictureInv, HandshakeInv, TypeOK
<1>3. InFlight \in [1 .. queued - freed -> Nat]
  BY <1>2 DEF InFlight
<1> QED BY <1>1, <1>3, IntervalSeq DEF InFlight

\* The mapping reads only the frames and the stages they are in.
LEMMA QueueSame ==
    ASSUME UNCHANGED <<queued, freed, slotFrame, pixels, present_pixels, frame, screen>>,
           cpuPc' \in {"vblank", "snapshot", "store"} <=> cpuPc \in {"vblank", "snapshot", "store"},
           pc'[PRESENT] \in {"wake", "present"} <=> pc[PRESENT] \in {"wake", "present"}
    PROVE  UNCHANGED Queue!vars
  BY DEF Queue!vars

\* The first game starts with an empty queue and an empty display.
LEMMA QueueInit == Init => Queue!Init
<1> SUFFICES ASSUME Init PROVE Queue!Init
  OBVIOUS
<1>1. pc[PRESENT] = "poll" /\ screen[1] = 0 /\ frame = 0 /\ cpuPc = "run"
  BY DEF Init, Consumers, PRESENT, HALVES
<1>2. [i \in 1 .. queued - freed |-> slotFrame[SlotOf(freed + i - 1)]] = <<>>
  BY DEF Init
<1> QED BY <1>1, <1>2 DEF Queue!Init

\* A completed frame is due.
LEMMA CompleteStep ==
    ASSUME PictureInv, HandshakeInv', NEW W \in SUBSET Regions, RunFrame(W)
    PROVE  PictureInv' /\ Queue!Complete
<1> USE DEF RunFrame, flagVars, wakeVars, rasterVars, presentVars
<1>1. frame \in Nat /\ frame' = frame + 1
  BY BoundsAssumption DEF PictureInv, HandshakeInv, TypeOK
<1>2. PictureInv'
  BY <1>1 DEF PictureInv
<1>3. Queue!Complete
  BY DEF Queue!Complete
<1> QED BY <1>2, <1>3

\* A frame is dropped only when every slot of the swapchain is in flight.
LEMMA DropStep ==
    ASSUME PictureInv, HandshakeInv', OnFrameFinish
    PROVE  PictureInv' /\ (Queue!Drop \/ UNCHANGED Queue!vars)
<1> USE DEF OnFrameFinish, flagVars, wakeVars, rasterVars, presentVars
<1>1. PictureInv'
  BY DEF PictureInv
<1>2. CASE SlotFree
  <2>1. cpuPc' = "snapshot"
    BY <1>2
  <2> QED BY <1>1, <2>1, QueueSame
<1>3. CASE ~SlotFree
  <2>1. queued = freed + SWAPCHAIN
    <3> SUFFICES ASSUME queued < freed + SWAPCHAIN PROVE FALSE
      BY PictureWindow
    <3>1. queued \in queued .. freed + SWAPCHAIN - 1 /\ write_slot = SlotOf(queued)
      BY PictureWindow DEF PictureInv, HandshakeInv, Cursors
    <3>2. slots[write_slot] = {}
      BY <3>1 DEF PictureInv, HandshakeInv, SlotStates
    <3> QED BY <1>3, <3>2 DEF SlotFree
  <2>2. Len(InFlight) = SWAPCHAIN
    BY <2>1, InFlightSeq, PictureWindow
  <2>3. cpuPc' = "gate"
    BY <1>3
  <2>4. Queue!Drop
    <3>1. /\ cpuPc = "vblank" /\ cpuPc' = "gate"
          /\ UNCHANGED <<frame, queued, freed, slotFrame, pc, pixels, present_pixels, screen>>
      BY <2>3
    <3> HIDE DEF OnFrameFinish
    <3>2. (cpuPc \in {"vblank", "snapshot", "store"})' = FALSE
      BY <3>1
    <3>3. cpuPc \in {"vblank", "snapshot", "store"}
      BY <3>1
    <3>4. UNCHANGED <<frame, InFlight, Presenting, screen[1]>>
      BY <3>1 DEF InFlight, Presenting
    <3> QED BY <2>2, <3>2, <3>3, <3>4, Zenon DEF Queue!Drop, InFlight, Presenting
  <2> QED BY <1>1, <2>4
<1> QED BY <1>1, <1>2, <1>3

\* The capture goes into a slot that no frame in flight occupies.
LEMMA CaptureStep ==
    ASSUME PictureInv, HandshakeInv', QueueFrameSnapshot
    PROVE  PictureInv' /\ UNCHANGED Queue!vars
<1> USE DEF QueueFrameSnapshot, SwapCapture, flagVars, wakeVars, rasterVars, presentVars
<1>1. /\ slotFrame \in [Slot -> 0 .. MaxFrames] /\ write_slot \in Slot
      /\ write_slot = SlotOf(queued) /\ queued < freed + SWAPCHAIN
  BY DEF PictureInv, HandshakeInv, TypeOK, Cursors, Stages
<1>2. ASSUME NEW k \in Int, freed <= k, k < queued
      PROVE  slotFrame'[SlotOf(k)] = slotFrame[SlotOf(k)]
  <2>1. SlotOf(k) # SlotOf(queued) /\ SlotOf(k) \in Slot
    BY <1>1, <1>2, PictureWindow, SlotApart, SlotOfType
  <2> QED BY <1>1, <2>1
<1>3. PictureInv'
  <2>1. slotFrame'[write_slot] = frame
    BY <1>1
  <2>2. \A k \in freed .. queued - 1 : slotFrame'[SlotOf(k)] = slotFrame[SlotOf(k)]
    BY <1>2, PictureWindow
  <2>3. \A h \in HALVES : \A k \in freed .. drawn[h] - 1 : k \in freed .. queued - 1
    BY PictureWindow
  <2> QED BY <2>1, <2>2, <2>3 DEF PictureInv
<1>4. \A i \in 1 .. queued - freed :
         slotFrame'[SlotOf(freed + i - 1)] = slotFrame[SlotOf(freed + i - 1)]
  BY <1>2, PictureWindow
<1>5. InFlight' = InFlight
  BY <1>4 DEF InFlight
<1> QED BY <1>3, <1>5 DEF Queue!vars, InFlight

\* Publishing the slot appends the frame it captured to the queue.
LEMMA HandOverStep ==
    ASSUME PictureInv, HandshakeInv', QueueFrameStore
    PROVE  PictureInv' /\ Queue!HandOver
<1> USE DEF QueueFrameStore, flagVars, wakeVars, rasterVars, presentVars
<1>1. /\ write_slot = SlotOf(queued) /\ queued < freed + SWAPCHAIN
      /\ slotFrame[write_slot] = frame /\ frame > 0
  BY DEF PictureInv, HandshakeInv, Cursors, Stages
<1>2. PictureInv'
  <2>1. \A k \in freed .. queued : slotFrame[SlotOf(k)] > 0
    BY <1>1, PictureWindow DEF PictureInv
  <2> QED BY <2>1, PictureWindow DEF PictureInv
<1>3. PictureInv => InFlight \in Seq(Nat) /\ Len(InFlight) = queued - freed
  BY InFlightSeq
<1>4. InFlight' = Append(InFlight, frame)
  <2>1. \A i \in 1 .. queued - freed : InFlight[i] = slotFrame[SlotOf(freed + i - 1)]
    BY InFlightSeq
  <2> DEFINE n == queued - freed
             t == InFlight'
  <2>2. n \in Nat /\ frame \in Nat /\ freed + (n + 1) - 1 = queued
    BY PictureWindow, BoundsAssumption DEF PictureInv, HandshakeInv, TypeOK
  <2>3. t = [i \in 1 .. n + 1 |-> slotFrame[SlotOf(freed + i - 1)]]
    BY PictureWindow DEF InFlight
  <2>4. \A i \in 1 .. n : t[i] = InFlight[i]
    BY <2>1, <2>2, <2>3
  <2>5. t[n + 1] = frame
    BY <1>1, <2>2, <2>3
  <2>6. t \in [1 .. n + 1 -> Nat]
    <3>1. \A i \in 1 .. n : slotFrame[SlotOf(freed + i - 1)] \in Nat
      BY <1>3, <2>1, ElementOfSeq
    <3>2. \A i \in 1 .. n + 1 : slotFrame[SlotOf(freed + i - 1)] \in Nat
      BY <1>1, <2>2, <3>1
    <3> QED BY <2>3, <3>2
  <2> HIDE DEF n, t
  <2>7. t = Append(InFlight, frame)
    BY <1>3, <2>2, <2>4, <2>5, <2>6, IntervalAppend DEF n
  <2> QED BY <2>7 DEF t
<1>5. Len(InFlight) < SWAPCHAIN
  BY <1>1, InFlightSeq, PictureWindow
<1>6. Queue!HandOver
  <2>1. /\ cpuPc = "store" /\ cpuPc' = "wake"
        /\ UNCHANGED <<frame, pc, pixels, present_pixels, screen>>
    OBVIOUS
  <2> HIDE DEF QueueFrameStore
  <2>2. (cpuPc \in {"vblank", "snapshot", "store"})' = FALSE
    BY <2>1
  <2>3. cpuPc \in {"vblank", "snapshot", "store"}
    BY <2>1
  <2>4. UNCHANGED <<frame, Presenting, screen[1]>>
    BY <2>1 DEF Presenting
  <2> QED BY <1>4, <1>5, <2>2, <2>3, <2>4, Zenon DEF Queue!HandOver, InFlight, Presenting
<1> QED BY <1>2, <1>6

\* Composing a half touches neither the queue nor the buffer in hand.
LEMMA ComposeStep ==
    ASSUME PictureInv, HandshakeInv', NEW h \in HALVES, RasterizeHalf(h)
    PROVE  PictureInv' /\ UNCHANGED Queue!vars
<1> USE DEF RasterizeHalf, flagVars, wakeVars, cpuVars, presentVars
<1>1. /\ drawn[h] < queued /\ wSlot[h] = SlotOf(drawn[h]) /\ wPix[h] = BufOf(drawn[h])
      /\ pixels \in [Buf -> [HALVES -> 0 .. MaxFrames]] /\ wPix[h] \in Buf
      /\ pc \in [Consumers -> ConsumerPc] /\ h \in Consumers /\ h # PRESENT
  BY DEF PictureInv, HandshakeInv, TypeOK, Cursors, Stages, Consumers, HALVES, PRESENT
<1>2. /\ pc'[PRESENT] = pc[PRESENT] /\ drawn' = [drawn EXCEPT ![h] = @ + 1]
      /\ pixels' = [pixels EXCEPT ![BufOf(drawn[h])][h] = slotFrame[SlotOf(drawn[h])]]
  BY <1>1 DEF Goto
<1>3. ASSUME NEW k \in Int, swaps <= k, k < drawn[h]
      PROVE  pixels'[BufOf(k)] = pixels[BufOf(k)]
  <2>1. k < drawn[h] /\ drawn[h] < k + FRAME_BUFS /\ drawn[h] \in Int
    BY <1>1, <1>3, PictureWindow
  <2>2. BufOf(k) # BufOf(drawn[h]) /\ BufOf(k) \in Buf
    BY <2>1, BufApart, BufOfType
  <2> QED BY <1>1, <1>2, <2>2
<1>4. ASSUME NEW g \in HALVES, NEW k \in freed .. drawn'[g] - 1
      PROVE  pixels'[BufOf(k)][g] = slotFrame[SlotOf(k)]
  <2>1. CASE g = h
    <3>1. CASE k = drawn[h]
      BY <1>1, <1>2, <2>1, <3>1
    <3>2. CASE k # drawn[h]
      <4>1. k \in freed .. drawn[g] - 1 /\ swaps <= k /\ k < drawn[h]
        BY <1>2, <2>1, <3>2, PictureWindow
      <4> QED BY <4>1, <1>3 DEF PictureInv
    <3> QED BY <3>1, <3>2
  <2>2. CASE g # h
    <3>1. k \in freed .. drawn[g] - 1 /\ BufOf(k) \in Buf
      BY <1>2, <2>2, PictureWindow, BufOfType
    <3>2. pixels'[BufOf(k)][g] = pixels[BufOf(k)][g]
      BY <1>1, <1>2, <2>2, <3>1
    <3> QED BY <3>1, <3>2 DEF PictureInv
  <2> QED BY <2>1, <2>2
<1>5. pc[PRESENT] \in {"wake", "present"} => pixels'[present_pixels] = pixels[present_pixels]
  <2>1. pc[PRESENT] \in {"wake", "present"} => swaps < drawn[h] /\ present_pixels = BufOf(swaps)
    BY PictureWindow
  <2> QED BY <2>1, <1>3, PictureWindow
<1>6. PictureInv'
  BY <1>2, <1>4, <1>5 DEF PictureInv
<1> QED BY <1>2, <1>5, <1>6 DEF Queue!vars

\* Freeing the slot takes the oldest frame of the queue, whole.
LEMMA TakeStep ==
    ASSUME PictureInv, HandshakeInv', ReleaseSlot
    PROVE  PictureInv' /\ Queue!Take
<1> USE DEF ReleaseSlot, flagVars, wakeVars, cpuVars, rasterVars
<1>1. /\ pc[PRESENT] = "release" /\ pc'[PRESENT] = "wake"
      /\ \A h \in HALVES : freed < drawn[h]
  BY DEF PictureInv, HandshakeInv, TypeOK, Stages, Main, Goto, Consumers, PRESENT
<1>2. freed < queued /\ freed = swaps /\ present_pixels = BufOf(freed)
  BY <1>1, PictureWindow DEF HALVES
<1>3. \A h \in HALVES : /\ pixels[present_pixels][h] = slotFrame[SlotOf(freed)]
                        /\ slotFrame[SlotOf(freed)] > 0
  BY <1>1, <1>2, PictureWindow DEF PictureInv
<1>4. PictureInv'
  BY <1>1, <1>3, PictureWindow DEF PictureInv, HALVES
<1>5. /\ InFlight \in Seq(Nat) /\ Len(InFlight) = queued - freed
      /\ \A i \in 1 .. queued - freed : InFlight[i] = slotFrame[SlotOf(freed + i - 1)]
  BY InFlightSeq
<1>6. InFlight # <<>> /\ Head(InFlight) = pixels[present_pixels][0]
  <2>1. InFlight[1] = slotFrame[SlotOf(freed)] /\ Len(InFlight) # 0
    BY <1>2, <1>5, PictureWindow
  <2> QED BY <1>3, <1>5, <2>1 DEF HALVES
<1>7. InFlight' = Tail(InFlight)
  <2> DEFINE n == queued - freed
             t == InFlight'
  <2>1. n \in Nat \ {0} /\ Len(InFlight) = n
    BY <1>2, <1>5, PictureWindow
  <2>2. t = [i \in 1 .. n - 1 |-> slotFrame[SlotOf(freed + 1 + i - 1)]]
    <3>1. queued - (freed + 1) = n - 1
      BY PictureWindow
    <3> QED BY <3>1 DEF InFlight
  <2>3. \A i \in 1 .. n - 1 : t[i] = InFlight[i + 1]
    <3> TAKE i \in 1 .. n - 1
    <3>1. i + 1 \in 1 .. n /\ freed + (i + 1) - 1 = freed + 1 + i - 1
      <4>1. n \in Nat /\ freed \in Nat /\ i \in 1 .. n - 1
        BY <2>1, PictureWindow
      <4> QED BY ONLY <4>1
    <3> QED BY <1>5, <2>2, <3>1
  <2>4. \A i \in 1 .. n - 1 : t[i] \in Nat
    <3> TAKE i \in 1 .. n - 1
    <3>1. i + 1 \in 1 .. Len(InFlight)
      <4> HIDE DEF n
      <4> QED BY <2>1
    <3> QED BY <1>5, <2>3, <3>1, ElementOfSeq
  <2>5. t \in [1 .. n - 1 -> Nat]
    BY <2>2, <2>4
  <2> HIDE DEF n, t
  <2>6. t = Tail(InFlight)
    BY <1>5, <2>1, <2>3, <2>5, IntervalTail
  <2> QED BY <2>6 DEF t
<1> QED BY <1>1, <1>4, <1>6, <1>7 DEF Queue!Take, InFlight

\* The swap shows both halves of the frame in hand.
LEMMA ShowStep ==
    ASSUME PictureInv, HandshakeInv', SwapReturn
    PROVE  PictureInv' /\ Queue!Show
<1> USE DEF SwapReturn, flagVars, wakeVars, cpuVars, rasterVars
<1>1. pc[PRESENT] = "present" /\ pc'[PRESENT] = "poll"
  BY DEF PictureInv, HandshakeInv, TypeOK, Main, Goto, Consumers, PRESENT
<1>2. PictureInv'
  BY <1>1 DEF PictureInv
<1>3. screen'[1] = pixels[present_pixels][0] /\ pixels[present_pixels][0] # 0
  BY <1>1 DEF PictureInv, HALVES
<1> QED BY <1>1, <1>2, <1>3 DEF Queue!Show

\* The next game starts from an empty queue, whatever the buffers still hold.
LEMMA NewGameStep ==
    ASSUME PictureInv, HandshakeInv', ResetForNewGame
    PROVE  PictureInv' /\ Queue!NewGame
<1> USE DEF ResetForNewGame, ResetShared
<1>1. pc'[PRESENT] = "poll" /\ screen'[1] = 0
  BY DEF Consumers, PRESENT, HALVES
<1>2. PictureInv'
  BY <1>1 DEF PictureInv
<1>3. InFlight' = <<>>
  BY DEF InFlight
<1> QED BY <1>1, <1>2, <1>3 DEF Queue!NewGame, InFlight

\* The other steps move program counters and cursors.
LEMMA OtherPictureSteps ==
    ASSUME PictureInv, HandshakeInv',
           \/ CpuWake \/ CpuGate \/ CpuExit \/ \E h \in HALVES : RasterWake(h)
           \/ \E c \in Consumers : WaitStep(c)
           \/ PollRender \/ PollCapture \/ CaptureDone \/ PresentWake
           \/ Pause \/ MenuCapture \/ StepPausedFrame \/ Resume
           \/ SetQuit \/ QuitWake \/ Join \/ UNCHANGED vars
    PROVE  PictureInv' /\ UNCHANGED Queue!vars
<1> USE DEF flagVars, wakeVars, cpuVars, rasterVars, presentVars
<1>1. /\ pc \in [Consumers -> ConsumerPc] /\ PRESENT \in Consumers /\ PRESENT \notin HALVES
      /\ HALVES \subseteq Consumers
  BY DEF PictureInv, HandshakeInv, TypeOK, Consumers, HALVES, PRESENT
<1>2. CASE UNCHANGED <<pc, slotFrame, queued, freed, drawn, pixels, present_pixels, frame, screen>>
             /\ (CpuWake \/ CpuGate \/ CpuExit)
  <2>1. cpuPc \notin {"vblank", "snapshot", "store"} /\ cpuPc' \notin {"vblank", "snapshot", "store"}
    BY <1>2 DEF CpuWake, CpuGate, CpuExit
  <2> QED BY <1>2, <2>1, PictureQuiet, QueueSame
<1>3. CpuWake \/ CpuGate \/ CpuExit =>
         UNCHANGED <<pc, slotFrame, queued, freed, drawn, pixels, present_pixels, frame, screen>>
  BY DEF CpuWake, CpuGate, CpuExit
<1>4. ASSUME UNCHANGED <<queued, drawn, freed, slotFrame, pixels, present_pixels, frame, screen>>,
             UNCHANGED <<cpuPc, write_slot>>,
             pc'[PRESENT] \in {"wake", "present"} <=> pc[PRESENT] \in {"wake", "present"}
      PROVE  PictureInv' /\ UNCHANGED Queue!vars
  BY <1>4, PictureQuiet, QueueSame
<1>5. ASSUME NEW h \in HALVES, RasterWake(h)
      PROVE  PictureInv' /\ UNCHANGED Queue!vars
  BY <1>1, <1>4, <1>5 DEF RasterWake, Goto
<1>6. ASSUME NEW c \in Consumers, WaitStep(c)
      PROVE  PictureInv' /\ UNCHANGED Queue!vars
  <2>1. pc'[PRESENT] \in {"wake", "present"} <=> pc[PRESENT] \in {"wake", "present"}
    BY <1>1, <1>6 DEF WaitStep, WaitTest, WaitSleep, WaitTimeout, Goto
  <2> QED BY <1>4, <1>6, <2>1 DEF WaitStep, WaitTest, WaitSleep, WaitTimeout
<1>7. CASE \/ PollRender \/ PollCapture \/ CaptureDone \/ PresentWake
           \/ Pause \/ MenuCapture \/ StepPausedFrame \/ Resume
           \/ SetQuit \/ QuitWake \/ Join \/ UNCHANGED vars
  <2>1. pc'[PRESENT] \in {"wake", "present"} <=> pc[PRESENT] \in {"wake", "present"}
    BY <1>1, <1>7 DEF PollRender, PollCapture, CaptureDone, PresentWake, Pause, MenuCapture,
       StepPausedFrame, Resume, SetQuit, QuitWake, Join, Main, Goto, vars
  <2> QED BY <1>4, <1>7, <2>1 DEF PollRender, PollCapture, CaptureDone, PresentWake, Pause,
          MenuCapture, StepPausedFrame, Resume, SetQuit, QuitWake, Join, vars
<1> QED BY <1>2, <1>3, <1>5, <1>6, <1>7

\* No frame is in flight at the start.
LEMMA PictureInit == Init => PictureInv
<1> SUFFICES ASSUME Init PROVE PictureInv
  OBVIOUS
<1>1. HandshakeInv /\ pc[PRESENT] = "poll"
  BY InitInv DEF Init, Consumers, PRESENT
<1> QED BY <1>1 DEF Init, PictureInv

\* Every step keeps the pictures whole, and is a step of the queue or none.
LEMMA PictureStep ==
    PictureInv /\ [Next]_vars => PictureInv' /\ [Queue!Next]_(Queue!vars)
<1> SUFFICES ASSUME PictureInv, [Next]_vars
             PROVE  PictureInv' /\ (Queue!Next \/ UNCHANGED Queue!vars)
  OBVIOUS
<1>1. HandshakeInv'
  BY HandshakeStep DEF PictureInv
<1> QED
  BY <1>1, CompleteStep, DropStep, CaptureStep, HandOverStep, ComposeStep, TakeStep, ShowStep,
     NewGameStep, OtherPictureSteps
  DEF Next, CpuStep, RasterStep, PresentStep, Terminated, Queue!Next

\* The handshake implements the bounded queue of frames: what gpu.rs shows is
\* whole frames, in the order of their vblanks, none twice, and a frame is
\* dropped only when the swapchain is full - for every depth of the two rings.
THEOREM HandshakeRefinesQueue == Spec => ImplementsFrameQueue
<1>1. Init => PictureInv
  BY PictureInit
<1>2. Init => Queue!Init
  BY QueueInit
<1>3. PictureInv /\ [Next]_vars => PictureInv' /\ [Queue!Next]_(Queue!vars)
  BY PictureStep
<1> QED BY <1>1, <1>2, <1>3, PTL DEF Spec, ImplementsFrameQueue, Queue!Spec

\* The buffer of the last swap is not composed into.
LEMMA LastSwapKept ==
    ASSUME HandshakeInv, NEW h \in HALVES, RasterizeHalf(h), swaps > 0
    PROVE  pixels'[PrevBuf(present_pixels)] = pixels[PrevBuf(present_pixels)]
<1>1. /\ swaps \in Nat /\ drawn[h] \in Nat /\ wPix[h] = BufOf(drawn[h])
      /\ present_pixels = BufOf(swaps) /\ swaps <= drawn[h] /\ drawn[h] <= swaps + SWAPCHAIN
  BY DrawWindow DEF RasterizeHalf
<1>2. SWAPCHAIN \in Nat /\ FRAME_BUFS \in Nat /\ FRAME_BUFS >= SWAPCHAIN + 3
  BY SwapchainAssumption, FrameBufsAssumption DEF SLACK
<1>3. PrevBuf(present_pixels) = BufOf(swaps - 1) /\ BufOf(swaps - 1) # BufOf(drawn[h])
  <2>1. swaps - 1 \in Int /\ swaps - 1 < drawn[h] /\ drawn[h] < (swaps - 1) + FRAME_BUFS
    BY <1>1, <1>2
  <2> QED BY <1>1, <2>1, BufApart, PrevBufOf
<1>4. PrevBuf(present_pixels) \in Buf /\ pixels \in [Buf -> [HALVES -> 0 .. MaxFrames]]
  BY <1>1, <1>3, BufOfType DEF HandshakeInv, TypeOK
<1> QED BY <1>1, <1>3, <1>4 DEF RasterizeHalf

\* The steps that touch neither the display nor a buffer.
LEMMA CaptureQuiet ==
    ASSUME CaptureShown, UNCHANGED <<screen, swaps, present_pixels>>,
           swaps > 0 => pixels'[PrevBuf(present_pixels)] = pixels[PrevBuf(present_pixels)]
    PROVE  CaptureShown'
  BY DEF CaptureShown, PrevBuf

\* What is on the display is one frame, and what capture_frame_jpeg reads is
\* what is on the display, at whatever moment of whatever thread it is called.
THEOREM CapturesWhatIsShown == Spec => []CaptureShown
<1>1. Init => CaptureShown
  BY DEF Init, CaptureShown, HALVES
<1>2. PictureInv /\ CaptureShown /\ [Next]_vars => CaptureShown'
  <2> SUFFICES ASSUME PictureInv, CaptureShown, [Next]_vars PROVE CaptureShown'
    OBVIOUS
  <2>1. CASE SwapReturn
    <3>1. swaps \in Nat /\ swaps' = swaps + 1 /\ present_pixels = BufOf(swaps)
          /\ present_pixels' = BufOf(swaps + 1) /\ pixels' = pixels
          /\ screen' = pixels[present_pixels]
      <4>1. swaps \in Nat /\ present_pixels = BufOf(swaps)
        BY PictureWindow
      <4> QED BY <2>1, <4>1, NextBufOf DEF SwapReturn, rasterVars
    <3>2. PrevBuf(present_pixels') = present_pixels
      <4>1. swaps + 1 \in Int /\ (swaps + 1) - 1 = swaps
        BY <3>1
      <4> QED BY <3>1, <4>1, PrevBufOf
    <3>3. screen'[0] = screen'[1]
      BY <2>1, <3>1 DEF PictureInv, HALVES, SwapReturn, Main
    <3> QED BY <3>1, <3>2, <3>3 DEF CaptureShown, PrevBuf
  <2>2. CASE ResetForNewGame
    BY <2>2 DEF ResetForNewGame, ResetShared, CaptureShown, HALVES
  <2>3. ASSUME NEW h \in HALVES, RasterizeHalf(h) PROVE CaptureShown'
    <3>1. HandshakeInv /\ UNCHANGED <<screen, swaps, present_pixels>>
      BY <2>3 DEF PictureInv, RasterizeHalf, presentVars
    <3> QED BY <2>3, <3>1, LastSwapKept, CaptureQuiet
  <2>4. CASE UNCHANGED <<screen, swaps, present_pixels, pixels>>
    BY <2>4, CaptureQuiet
  <2>5. CASE CpuStep \/ UNCHANGED vars
    BY <2>4, <2>5 DEF CpuStep, RunFrame, OnFrameFinish, QueueFrameSnapshot, QueueFrameStore,
       CpuWake, CpuGate, CpuExit, presentVars, rasterVars, vars
  <2>6. ASSUME NEW h \in HALVES, RasterWake(h) PROVE CaptureShown'
    BY <2>4, <2>6 DEF RasterWake, presentVars
  <2>7. ASSUME NEW c \in Consumers, WaitStep(c) PROVE CaptureShown'
    BY <2>4, <2>7 DEF WaitStep, WaitTest, WaitSleep, WaitTimeout, presentVars, rasterVars
  <2>8. CASE \/ PollRender \/ PollCapture \/ CaptureDone \/ ReleaseSlot \/ PresentWake
             \/ Pause \/ MenuCapture \/ StepPausedFrame \/ Resume
             \/ SetQuit \/ QuitWake \/ Join
    BY <2>4, <2>8 DEF PollRender, PollCapture, CaptureDone, ReleaseSlot, PresentWake, Pause,
       MenuCapture, StepPausedFrame, Resume, SetQuit, QuitWake, Join, presentVars, rasterVars
  <2> QED BY <2>1, <2>2, <2>3, <2>5, <2>6, <2>7, <2>8
          DEF Next, RasterStep, PresentStep, Terminated
<1>3. Init => PictureInv
  BY PictureInit
<1>4. PictureInv /\ [Next]_vars => PictureInv'
  BY PictureStep
<1> QED BY <1>1, <1>2, <1>3, <1>4, PTL DEF Spec

=============================================================================
