----------------------------- MODULE RenderSync -----------------------------
(***************************************************************************)
(* The renderer's frame handshake (src/core/gpu.rs, `GbaRenderer`).        *)
(*                                                                         *)
(* The cpu thread snapshots one frame per vblank into a slot of a small    *)
(* swapchain and never waits; two raster workers each draw half of the     *)
(* slot's scanlines into a ring of pixel buffers; the present (main)       *)
(* thread frees the slot, uploads the buffer and swaps.  One atomic per    *)
(* slot is the whole protocol; a mutex and a condition variable wake the   *)
(* three consumers.  The main thread also opens the pause menu, takes      *)
(* screenshots and tears a game down, and the same renderer is reset for   *)
(* the next game.                                                          *)
(*                                                                         *)
(* Video memory is abstracted to "which regions of a slot's snapshot       *)
(* differ from guest memory" (stale); a frame's contents to its number.    *)
(***************************************************************************)
EXTENDS Integers, FiniteSets, Sequences

CONSTANTS
    SWAPCHAIN,   \* depth of the swapchain (2 in the code)
    FRAME_BUFS,  \* pixel buffers (5 in the code)
    Regions,     \* the dirty-tracked video memory regions (bg, obj, pal, oam)
    MaxFrames,   \* bound: frames the guest runs in one game
    MaxLater,    \* bound: frames the guest runs in a later game
    MaxGames     \* bound: games played one after the other

\* Two later swap-returns are to lie between a buffer's own swap and its
\* rewrite: the buffer ring is three deeper than the swapchain.
SLACK == 2

ASSUME SwapchainAssumption == SWAPCHAIN \in Nat \ {0}
ASSUME FrameBufsAssumption == FRAME_BUFS \in Nat /\ FRAME_BUFS >= SWAPCHAIN + 1 + SLACK
ASSUME BoundsAssumption == MaxFrames \in Nat /\ MaxLater \in Nat /\ MaxGames \in Nat \ {0}

Slot == 0 .. SWAPCHAIN - 1
Buf  == 0 .. FRAME_BUFS - 1
HALVES == {0, 1}

\* Threads that sleep on the condition variable: the workers are named by
\* their half, the present thread is PRESENT.
PRESENT == 2
Consumers == HALVES \cup {PRESENT}
FREE == 3

\* A slot state is the set of its bits.
S_QUEUED == 0
S_HALF(h) == h + 1
S_RASTERED == {S_QUEUED} \cup {S_HALF(h) : h \in HALVES}

VARIABLES
    game,            \* games started so far
    quit, pause, pause_step,
    slots,           \* RenderSync.slots: slot -> set of bits
    wakeMutex,       \* the consumer holding wake_mutex across a step, or FREE
    waitSet,         \* consumers asleep on wake_condvar
    pc,              \* consumer -> where it is
    cpuPc, write_slot, slot_dirty, gpu_mem_dirty, stale, frame,
    slotFrame,       \* slot -> the frame whose inputs it holds
    wSlot, wPix,     \* each worker's own cursors
    read_slot, present_pixels, last_blit,
    pixels,          \* buffer -> half -> the frame composed into it
    screen,          \* half -> the frame on the display
    queued, drawn, freed, swaps, \* history: frames past each stage
    swappedAt        \* history: buffer -> the number of its last swap (0: never)

cpuVars == <<cpuPc, write_slot, slot_dirty, gpu_mem_dirty, stale, frame, slotFrame, queued>>
rasterVars == <<wSlot, wPix, pixels, drawn>>
presentVars == <<read_slot, present_pixels, last_blit, screen, freed, swaps, swappedAt>>
flagVars == <<game, quit, pause, pause_step>>
wakeVars == <<wakeMutex, waitSet>>
vars == <<game, quit, pause, pause_step, slots, wakeMutex, waitSet, pc,
          cpuPc, write_slot, slot_dirty, gpu_mem_dirty, stale, frame, slotFrame, queued,
          wSlot, wPix, pixels, drawn,
          read_slot, present_pixels, last_blit, screen, freed, swaps, swappedAt>>

\* Each thread walks its own cursors round the two rings.
NextSlot(s) == (s + 1) % SWAPCHAIN
\* Mutants: a buffer ring as shallow as the swapchain, and one buffer short.
NextBufSwapchain(b) == (b + 1) % SWAPCHAIN
NextBufFour(b) == (b + 1) % (FRAME_BUFS - 1)

NextBuf(b) == (b + 1) % FRAME_BUFS
\* present_pixels has already advanced past the buffer that was presented.
PrevBuf(b) == (b + FRAME_BUFS - 1) % FRAME_BUFS

Goto(c, label) == pc' = [pc EXCEPT ![c] = label]

Init ==
    /\ game = 1
    /\ quit = FALSE /\ pause = FALSE /\ pause_step = FALSE
    /\ slots = [s \in Slot |-> {}]
    /\ wakeMutex = FREE /\ waitSet = {}
    /\ pc = [c \in Consumers |-> IF c = PRESENT THEN "poll" ELSE "test"]
    /\ cpuPc = "run" /\ write_slot = 0
    /\ slot_dirty = [s \in Slot |-> Regions]
    /\ gpu_mem_dirty = Regions
    /\ stale = [s \in Slot |-> Regions]
    /\ frame = 0
    /\ slotFrame = [s \in Slot |-> 0]
    /\ wSlot = [h \in HALVES |-> 0] /\ wPix = [h \in HALVES |-> 0]
    /\ read_slot = 0 /\ present_pixels = 0 /\ last_blit = FALSE
    /\ pixels = [b \in Buf |-> [h \in HALVES |-> 0]]
    /\ screen = [h \in HALVES |-> 0]
    /\ queued = 0 /\ drawn = [h \in HALVES |-> 0] /\ freed = 0 /\ swaps = 0
    /\ swappedAt = [b \in Buf |-> 0]

-----------------------------------------------------------------------------
(* The cpu thread.                                                         *)

\* Mutant: notify without taking the mutex.
NotifyUnlocked == waitSet' = {} /\ UNCHANGED wakeMutex

\* wake(): take the mutex, notify every sleeper.
NotifyAll == wakeMutex = FREE /\ waitSet' = {} /\ UNCHANGED wakeMutex

\* The guest runs to its next vblank, writing the video regions W on the way
\* (a savestate load or a rewind marks them all).  The main loop of the cpu
\* thread tests `quit` once per slice.
RunFrame(W) ==
    /\ cpuPc = "run" /\ ~quit /\ frame < MaxFrames /\ (game > 1 => frame < MaxLater)
    /\ frame' = frame + 1
    /\ gpu_mem_dirty' = gpu_mem_dirty \cup W
    /\ stale' = [s \in Slot |-> stale[s] \cup W]
    /\ cpuPc' = "vblank"
    /\ UNCHANGED <<write_slot, slot_dirty, slotFrame, queued, slots, pc>>
    /\ UNCHANGED <<flagVars, wakeVars, rasterVars, presentVars>>

\* Every slot learns of the frame's writes, not just the one being filled.
\* Mutant: only the slot being filled does.
MarkDirtyOneSlot == [slot_dirty EXCEPT ![write_slot] = @ \cup gpu_mem_dirty]
MarkDirty == [s \in Slot |-> slot_dirty[s] \cup gpu_mem_dirty]

\* Mutant: the slot test is dropped.
SlotFreeAlways == TRUE
SlotFree == slots[write_slot] = {}

\* on_frame_finish up to its slot test: a frame with no free slot is dropped.
OnFrameFinish ==
    /\ cpuPc = "vblank"
    /\ slot_dirty' = MarkDirty
    /\ gpu_mem_dirty' = {}
    /\ cpuPc' = IF SlotFree THEN "snapshot" ELSE "gate"
    /\ UNCHANGED <<write_slot, stale, frame, slotFrame, queued, slots, pc>>
    /\ UNCHANGED <<flagVars, wakeVars, rasterVars, presentVars>>

\* Mutant: the register capture is not swapped into the slot.
SwapNoCapture == slotFrame
SwapCapture == [slotFrame EXCEPT ![write_slot] = frame]

\* queue_frame: swap the register capture in, copy the dirty regions.
QueueFrameSnapshot ==
    /\ cpuPc = "snapshot"
    /\ stale' = [stale EXCEPT ![write_slot] = @ \ slot_dirty[write_slot]]
    /\ slot_dirty' = [slot_dirty EXCEPT ![write_slot] = {}]
    /\ slotFrame' = SwapCapture
    /\ cpuPc' = "store"
    /\ UNCHANGED <<write_slot, gpu_mem_dirty, frame, queued, slots, pc>>
    /\ UNCHANGED <<flagVars, wakeVars, rasterVars, presentVars>>

\* queue_frame: publish the slot.
QueueFrameStore ==
    /\ cpuPc = "store"
    /\ slots' = [slots EXCEPT ![write_slot] = {S_QUEUED}]
    /\ queued' = queued + 1
    /\ cpuPc' = "wake"
    /\ UNCHANGED <<write_slot, slot_dirty, gpu_mem_dirty, stale, frame, slotFrame, pc>>
    /\ UNCHANGED <<flagVars, wakeVars, rasterVars, presentVars>>

\* queue_frame's wake, then back in on_frame_finish the cursor moves on.
CpuWake ==
    /\ cpuPc = "wake" /\ NotifyAll
    /\ write_slot' = NextSlot(write_slot)
    /\ cpuPc' = "gate"
    /\ UNCHANGED <<slot_dirty, gpu_mem_dirty, stale, frame, slotFrame, queued, slots, pc>>
    /\ UNCHANGED <<flagVars, rasterVars, presentVars>>

\* The pause loop at the end of on_frame_finish: a paused cpu thread leaves
\* it only with a one-frame ticket, which it consumes.
CpuGate ==
    /\ cpuPc = "gate"
    /\ \/ /\ ~pause \/ quit
          /\ UNCHANGED pause_step
       \/ /\ pause /\ ~quit /\ pause_step
          /\ pause_step' = FALSE
    /\ cpuPc' = "run"
    /\ UNCHANGED <<write_slot, slot_dirty, gpu_mem_dirty, stale, frame, slotFrame, queued>>
    /\ UNCHANGED <<game, quit, pause, slots, pc, wakeVars, rasterVars, presentVars>>

\* execute_jit's exit test.
CpuExit ==
    /\ cpuPc = "run" /\ quit
    /\ cpuPc' = "done"
    /\ UNCHANGED <<write_slot, slot_dirty, gpu_mem_dirty, stale, frame, slotFrame, queued>>
    /\ UNCHANGED <<slots, pc, flagVars, wakeVars, rasterVars, presentVars>>

-----------------------------------------------------------------------------
(* wait_until, shared by the three consumers.                              *)

Ready(c) ==
    IF c = PRESENT
    THEN slots[read_slot] = S_RASTERED
    ELSE slots[wSlot[c]] \cap {S_QUEUED, S_HALF(c)} = {S_QUEUED}

\* Lock, test the predicate: true leaves with the lock dropped, false keeps
\* it for the quit test.
WaitTest(c) ==
    /\ pc[c] = "test" /\ c \notin waitSet /\ wakeMutex = FREE
    /\ \/ /\ Ready(c)
          /\ Goto(c, IF c = PRESENT THEN "release" ELSE "draw")
          /\ UNCHANGED wakeMutex
       \/ /\ ~Ready(c)
          /\ Goto(c, "quitTest")
          /\ wakeMutex' = c
    /\ UNCHANGED <<slots, waitSet, flagVars, cpuVars, rasterVars, presentVars>>

\* Mutant: wait_until does not look at quit.
QuitIgnored == FALSE
IsQuit == quit

\* Give up on quit, or (present thread only) on the deadline; otherwise sleep,
\* which drops the lock in the same step.
WaitSleep(c) ==
    /\ pc[c] = "quitTest"
    /\ wakeMutex' = FREE
    /\ \/ /\ IsQuit \/ c = PRESENT
          /\ Goto(c, IF c = PRESENT THEN "poll" ELSE "done")
          /\ UNCHANGED waitSet
       \/ /\ ~IsQuit
          /\ Goto(c, "test")
          /\ waitSet' = waitSet \cup {c}
    /\ UNCHANGED <<slots, flagVars, cpuVars, rasterVars, presentVars>>

\* wait_timeout elapses, or wakes spuriously.
WaitTimeout(c) ==
    /\ c \in waitSet
    /\ waitSet' = waitSet \ {c}
    /\ UNCHANGED <<slots, wakeMutex, pc, flagVars, cpuVars, rasterVars, presentVars>>

-----------------------------------------------------------------------------
(* raster_worker_loop.                                                     *)

OrHalf(h) == slots[wSlot[h]] \cup {S_HALF(h)}

\* rasterize_half has composed its rows of the slot's frame; report the half.
RasterizeHalf(h) ==
    /\ pc[h] = "draw"
    /\ pixels' = [pixels EXCEPT ![wPix[h]][h] = slotFrame[wSlot[h]]]
    /\ slots' = [slots EXCEPT ![wSlot[h]] = OrHalf(h)]
    /\ drawn' = [drawn EXCEPT ![h] = @ + 1]
    /\ Goto(h, "wake")
    /\ UNCHANGED <<wSlot, wPix, flagVars, wakeVars, cpuVars, presentVars>>

RasterWake(h) ==
    /\ pc[h] = "wake" /\ NotifyAll
    /\ wSlot' = [wSlot EXCEPT ![h] = NextSlot(@)]
    /\ wPix' = [wPix EXCEPT ![h] = NextBuf(@)]
    /\ Goto(h, "test")
    /\ UNCHANGED <<slots, pixels, drawn, flagVars, cpuVars, presentVars>>

-----------------------------------------------------------------------------
(* The main thread: the event loop, render_loop, the pause menu.           *)

Main(from, to) == pc[PRESENT] = from /\ Goto(PRESENT, to)

\* Any event that only falls through to render_loop.
PollRender ==
    /\ Main("poll", "test")
    /\ UNCHANGED <<slots, flagVars, wakeVars, cpuVars, rasterVars, presentVars>>

\* QuickSave and Screenshot capture the last presented buffer, then render.
\* capture_frame_jpeg returns early when nothing was ever blitted.
PollCapture ==
    /\ last_blit
    /\ Main("poll", "capture")
    /\ UNCHANGED <<slots, flagVars, wakeVars, cpuVars, rasterVars, presentVars>>

CaptureDone ==
    /\ Main("capture", "test")
    /\ UNCHANGED <<slots, flagVars, wakeVars, cpuVars, rasterVars, presentVars>>

\* render_loop frees the slot before presenting ...
ReleaseSlot ==
    /\ Main("release", "wake")
    /\ slots' = [slots EXCEPT ![read_slot] = {}]
    /\ freed' = freed + 1
    /\ UNCHANGED <<read_slot, present_pixels, last_blit, screen, swaps, swappedAt>>
    /\ UNCHANGED <<flagVars, wakeVars, cpuVars, rasterVars>>

PresentWake ==
    /\ Main("wake", "present") /\ NotifyAll
    /\ read_slot' = NextSlot(read_slot)
    /\ UNCHANGED <<slots, present_pixels, last_blit, screen, freed, swaps, swappedAt>>
    /\ UNCHANGED <<flagVars, cpuVars, rasterVars>>

\* ... and its buffer cursor moves only after gl_swap_window returned.
SwapReturn ==
    /\ Main("present", "poll")
    /\ screen' = pixels[present_pixels]
    /\ last_blit' = TRUE
    /\ swaps' = swaps + 1
    /\ swappedAt' = [swappedAt EXCEPT ![present_pixels] = swaps + 1]
    /\ present_pixels' = NextBuf(present_pixels)
    /\ UNCHANGED <<slots, read_slot, freed, flagVars, wakeVars, cpuVars, rasterVars>>

Pause ==
    /\ Main("poll", "menu")
    /\ pause' = TRUE
    /\ UNCHANGED <<game, quit, pause_step, slots, wakeVars, cpuVars, rasterVars, presentVars>>

\* A save from the menu: capture the thumbnail, hand the cpu thread a ticket.
MenuCapture ==
    /\ last_blit
    /\ Main("menu", "menuCapture")
    /\ UNCHANGED <<slots, flagVars, wakeVars, cpuVars, rasterVars, presentVars>>

StepPausedFrame ==
    /\ pc[PRESENT] \in {"menu", "menuCapture"}
    /\ Goto(PRESENT, "menuOp")
    /\ pause_step' = TRUE
    /\ UNCHANGED <<game, quit, pause, slots, wakeVars, cpuVars, rasterVars, presentVars>>

\* The menu closes: resume, or quit to the menu.
Resume ==
    /\ pc[PRESENT] \in {"menu", "menuOp"}
    /\ \E next \in {"poll", "teardown"} : Goto(PRESENT, next)
    /\ pause' = FALSE
    /\ UNCHANGED <<game, quit, pause_step, slots, wakeVars, cpuVars, rasterVars, presentVars>>

\* set_quit: store, then wake the sleepers.
SetQuit ==
    /\ pc[PRESENT] \in {"poll", "teardown"}
    /\ Goto(PRESENT, "wakeQuit")
    /\ quit' = TRUE
    /\ UNCHANGED <<game, pause, pause_step, slots, wakeVars, cpuVars, rasterVars, presentVars>>

QuitWake ==
    /\ Main("wakeQuit", "join") /\ NotifyAll
    /\ UNCHANGED <<slots, flagVars, cpuVars, rasterVars, presentVars>>

Joined == cpuPc = "done" /\ \A h \in HALVES : pc[h] = "done"

Join ==
    /\ Joined
    /\ Main("join", "off")
    /\ UNCHANGED <<slots, flagVars, wakeVars, cpuVars, rasterVars, presentVars>>

\* What every reset does besides the present thread's cursors.
ResetShared ==
    /\ pc[PRESENT] = "off" /\ game < MaxGames
    /\ game' = game + 1
    /\ quit' = FALSE /\ pause' = FALSE /\ pause_step' = FALSE
    /\ slots' = [s \in Slot |-> {}]
    /\ write_slot' = 0
    /\ slot_dirty' = [s \in Slot |-> Regions]
    /\ gpu_mem_dirty' = Regions
    /\ stale' = [s \in Slot |-> Regions]
    /\ cpuPc' = "run" /\ frame' = 0
    /\ pc' = [c \in Consumers |-> IF c = PRESENT THEN "poll" ELSE "test"]
    /\ wSlot' = [h \in HALVES |-> 0] /\ wPix' = [h \in HALVES |-> 0]
    /\ queued' = 0 /\ drawn' = [h \in HALVES |-> 0] /\ freed' = 0 /\ swaps' = 0
    /\ swappedAt' = [b \in Buf |-> 0]
    /\ screen' = [h \in HALVES |-> 0]
    /\ UNCHANGED <<wakeVars, slotFrame, pixels, last_blit>>

\* reset_for_new_game: handshake and cursors start over; the pixel buffers
\* and last_blit are not touched.
ResetForNewGame == ResetShared /\ read_slot' = 0 /\ present_pixels' = 0

Terminated ==
    /\ pc[PRESENT] = "off" /\ game = MaxGames
    /\ UNCHANGED vars

-----------------------------------------------------------------------------
CpuStep ==
    \/ \E W \in SUBSET Regions : RunFrame(W)
    \/ OnFrameFinish \/ QueueFrameSnapshot \/ QueueFrameStore
    \/ CpuWake \/ CpuGate \/ CpuExit

RasterStep(h) == RasterizeHalf(h) \/ RasterWake(h)

WaitStep(c) == WaitTest(c) \/ WaitSleep(c) \/ WaitTimeout(c)

PresentStep ==
    \/ PollRender \/ PollCapture \/ CaptureDone
    \/ ReleaseSlot \/ PresentWake \/ SwapReturn
    \/ Pause \/ MenuCapture \/ StepPausedFrame \/ Resume
    \/ SetQuit \/ QuitWake \/ Join \/ ResetForNewGame

Next ==
    \/ CpuStep
    \/ \E h \in HALVES : RasterStep(h)
    \/ \E c \in Consumers : WaitStep(c)
    \/ PresentStep
    \/ Terminated

Spec == Init /\ [][Next]_vars

-----------------------------------------------------------------------------
(* Fairness: every thread keeps taking the steps it can take on its own.   *)
(* The steps that need wake_mutex get strong fairness: the lock is held    *)
(* only for a predicate test, and a locker is not passed over forever.     *)
(* Timeouts, deadlines, menu and event choices are left to the             *)
(* environment: nothing below relies on a timeout ever firing.             *)

CpuProgress ==
    (\E W \in SUBSET Regions : RunFrame(W)) \/ OnFrameFinish \/ QueueFrameSnapshot
        \/ QueueFrameStore \/ CpuGate \/ CpuExit

PresentProgress ==
    PollRender \/ PollCapture \/ CaptureDone \/ ReleaseSlot \/ SwapReturn
        \/ (pc[PRESENT] = "teardown" /\ SetQuit) \/ Join

Fairness ==
    /\ WF_vars(CpuProgress)
    /\ SF_vars(CpuWake)
    /\ \A h \in HALVES : WF_vars(RasterizeHalf(h)) /\ SF_vars(RasterWake(h))
    /\ \A c \in Consumers : SF_vars(WaitTest(c)) /\ WF_vars(WaitSleep(c))
    /\ WF_vars(PresentProgress)
    /\ SF_vars(PresentWake) /\ SF_vars(QuitWake)

FairSpec == Spec /\ Fairness

-----------------------------------------------------------------------------
(* Properties.                                                             *)

ConsumerPc ==
    {"test", "quitTest", "draw", "wake", "done", "poll", "capture", "release", "present",
     "menu", "menuCapture", "menuOp", "teardown", "wakeQuit", "join", "off"}
CpuPc == {"run", "vblank", "snapshot", "store", "wake", "gate", "done"}

\* Every variable has its type (one atomic byte per slot, cursors in range).
TypeOK ==
    /\ game \in 1 .. MaxGames
    /\ quit \in BOOLEAN /\ pause \in BOOLEAN /\ pause_step \in BOOLEAN
    /\ slots \in [Slot -> SUBSET S_RASTERED]
    /\ wakeMutex \in Consumers \cup {FREE} /\ waitSet \in SUBSET Consumers
    /\ pc \in [Consumers -> ConsumerPc]
    /\ cpuPc \in CpuPc /\ write_slot \in Slot
    /\ slot_dirty \in [Slot -> SUBSET Regions] /\ gpu_mem_dirty \in SUBSET Regions
    /\ stale \in [Slot -> SUBSET Regions]
    /\ frame \in 0 .. MaxFrames /\ slotFrame \in [Slot -> 0 .. MaxFrames]
    /\ wSlot \in [HALVES -> Slot] /\ wPix \in [HALVES -> Buf]
    /\ read_slot \in Slot /\ present_pixels \in Buf /\ last_blit \in BOOLEAN
    /\ pixels \in [Buf -> [HALVES -> 0 .. MaxFrames]]
    /\ screen \in [HALVES -> 0 .. MaxFrames]
    /\ queued \in Nat /\ drawn \in [HALVES -> Nat] /\ freed \in Nat /\ swaps \in Nat
    /\ swappedAt \in [Buf -> Nat]

\* Where the k-th frame handed over (from 0) lives.
SlotOf(k) == k % SWAPCHAIN
BufOf(k) == k % FRAME_BUFS

\* The stages stay in order and at most SWAPCHAIN frames are in flight.
Counters ==
    /\ \A h \in HALVES : freed <= drawn[h] /\ drawn[h] <= queued
    /\ queued <= freed + SWAPCHAIN
    /\ freed = IF pc[PRESENT] \in {"wake", "present"} THEN swaps + 1 ELSE swaps

\* Lockstep: every cursor is its stage's count, whoever advances it.
Cursors ==
    /\ write_slot = SlotOf(IF cpuPc = "wake" THEN queued - 1 ELSE queued)
    /\ \A h \in HALVES :
          /\ wSlot[h] = SlotOf(IF pc[h] = "wake" THEN drawn[h] - 1 ELSE drawn[h])
          /\ wPix[h] = BufOf(IF pc[h] = "wake" THEN drawn[h] - 1 ELSE drawn[h])
    /\ read_slot = SlotOf(IF pc[PRESENT] = "wake" THEN freed - 1 ELSE freed)
    /\ present_pixels = BufOf(swaps)

\* The bits of the frames in flight, and of the free slots behind them.
SlotStates ==
    /\ \A k \in freed .. queued - 1 :
          slots[SlotOf(k)] = {S_QUEUED} \cup {S_HALF(h) : h \in {g \in HALVES : drawn[g] > k}}
    /\ \A k \in queued .. freed + SWAPCHAIN - 1 : slots[SlotOf(k)] = {}

\* What a thread learned from a slot's bits still holds while it acts on it.
Stages ==
    /\ \A h \in HALVES : pc[h] = "draw" => drawn[h] < queued
    /\ \A h \in HALVES : pc[h] = "wake" => drawn[h] > 0
    /\ \A h \in HALVES : pc[h] \in {"test", "quitTest", "draw", "wake", "done"}
    /\ pc[PRESENT] = "release" => \A h \in HALVES : freed < drawn[h]
    /\ cpuPc \in {"snapshot", "store"} => queued < freed + SWAPCHAIN
    /\ cpuPc = "wake" => queued > 0

\* A buffer's mark is the number of a past swap of that very buffer.
SwapMarks ==
    \A b \in Buf :
        /\ swappedAt[b] <= swaps
        /\ swappedAt[b] > 0 => BufOf(swappedAt[b] - 1) = b

\* Inductive: the ownership of slots and buffers follows from it.
HandshakeInv == TypeOK /\ Counters /\ Cursors /\ SlotStates /\ Stages /\ SwapMarks

\* A slot's inputs are rewritten by the cpu thread only while no worker draws
\* from that slot and its state is zero.
SlotExclusive ==
    cpuPc \in {"snapshot", "store"} =>
        /\ slots[write_slot] = {}
        /\ \A h \in HALVES : pc[h] = "draw" => wSlot[h] # write_slot

\* A slot's snapshot may lag guest memory only in regions still marked dirty
\* for that slot, and is exact when the slot is published: the per-slot dirty
\* sets survive any number of dropped frames.
SnapshotFresh ==
    /\ \A s \in Slot : stale[s] \subseteq slot_dirty[s] \cup gpu_mem_dirty
    /\ cpuPc = "store" => stale[write_slot] = {}

\* Inductive for SnapshotFresh: nothing is pending once a frame is handed over.
SnapshotInv ==
    /\ TypeOK /\ SnapshotFresh
    /\ cpuPc \in {"snapshot", "store"} => gpu_mem_dirty = {}

\* The buffer the present thread uploads, or the buffer a screenshot reads
\* (paused or not), is never one a worker is composing into.
BufferExclusive ==
    \A h \in HALVES : pc[h] = "draw" =>
        /\ pc[PRESENT] \in {"wake", "present"} => wPix[h] # present_pixels
        /\ pc[PRESENT] \in {"capture", "menuCapture"} =>
               wPix[h] # PrevBuf(present_pixels)

\* "Five deep keeps two later swap-returns between a buffer's own swap and
\* its rewrite" (FRAME_BUFS).
SwapSlack ==
    \A h \in HALVES :
        (pc[h] = "draw" /\ swappedAt[wPix[h]] > 0) => swaps - swappedAt[wPix[h]] >= SLACK

\* A consumer asleep on the condition variable although its predicate holds,
\* or quit is set, has a wake() on its way: no wakeup is lost between its
\* test and its sleep.
Waking == cpuPc = "wake" \/ \E c \in Consumers : pc[c] \in {"wake", "wakeQuit"}
NoLostWakeup == \A c \in waitSet : Ready(c) \/ quit => Waking

\* Inductive for NoLostWakeup: the lock is held exactly between a failed test
\* and the sleep, so a store in between still has its wake() ahead of it.
WakeInv ==
    /\ TypeOK
    /\ \A c \in Consumers : pc[c] = "quitTest" <=> wakeMutex = c
    /\ \A c \in waitSet : pc[c] = "test"
    /\ \A c \in Consumers : (c \in waitSet \/ pc[c] = "quitTest") /\ Ready(c) => Waking
    /\ waitSet # {} /\ quit => Waking
    /\ pc[PRESENT] = "off" => \A h \in HALVES : pc[h] = "done"

\* Every frame handed over reaches the display unless the player pauses or
\* quits, even if no wait ever times out.
FramesPresented ==
    \A n \in 1 .. MaxFrames :
        (queued >= n) ~> (swaps >= n \/ pause \/ quit)

\* Once quit is set every thread of the game ends: nobody sleeps through it,
\* parked in the pause loop or on the condition variable.
QuitTerminates == quit ~> (pc[PRESENT] = "off")

\* The handshake implements a bounded queue of frames, shown in order.
Queue ==
    INSTANCE FrameQueue WITH
        Depth <- SWAPCHAIN,
        due <- cpuPc \in {"vblank", "snapshot", "store"},
        queue <- [i \in 1 .. queued - freed |-> slotFrame[SlotOf(freed + i - 1)]],
        presenting <- IF pc[PRESENT] \in {"wake", "present"}
                      THEN pixels[present_pixels][0] ELSE 0,
        shown <- screen[1]

\* Inductive for the refinement: a half that is drawn shows its slot's frame,
\* the frame in hand is whole, and the cpu thread publishes what it captured.
PictureInv ==
    /\ HandshakeInv
    /\ cpuPc \in {"vblank", "snapshot", "store"} => frame > 0
    /\ cpuPc = "store" => slotFrame[write_slot] = frame
    /\ \A k \in freed .. queued - 1 : slotFrame[SlotOf(k)] > 0
    /\ \A h \in HALVES : \A k \in freed .. drawn[h] - 1 :
          pixels[BufOf(k)][h] = slotFrame[SlotOf(k)]
    /\ pc[PRESENT] \in {"wake", "present"} =>
          \A h \in HALVES : pixels[present_pixels][h] = pixels[present_pixels][0]
                             /\ pixels[present_pixels][h] > 0

\* The display shows one frame, not halves of two, and a screenshot or the
\* thumbnail of a save reads that frame: its buffer is not composed into
\* before the next swap.  Before a game's first swap the buffer is the last
\* game's, which capture_frame_jpeg cannot tell.
CaptureShown ==
    /\ screen[0] = screen[1]
    /\ swaps > 0 => pixels[PrevBuf(present_pixels)] = screen

\* Refinement: frames are shown whole, in the order of their vblanks, none
\* twice, and one is dropped only when the swapchain is full.
ImplementsFrameQueue == Queue!Spec

=============================================================================
