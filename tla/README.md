# AdvancedSlop: TLA+ models, checks and proofs

AdvancedSlop is a Game Boy Advance emulator (PS Vita, Linux): a JIT and a cold-block
interpreter for the guest CPU, a scheduler of device events, and around them the threads of
a real-time program: the `cpu` thread, two raster workers, the present (main) thread, the
audio thread and the save thread. This directory models the parts of it whose correctness
depends on order: of threads, of events, of player requests, of games on one renderer.

Paths below are relative to the repository root (`src/core/gpu.rs` is its renderer).

## 1. Inventory

| Component (source) | State | Operations | Talks to | What is hard |
|---|---|---|---|---|
| Renderer handshake (`core/gpu.rs`, `graphics/gpu_mem_buf.rs`) | slot bits, write/read/worker cursors, pixel ring, per-slot dirty masks, pause/quit/step flags, wake mutex + condvar | `on_frame_finish`, `raster_worker_loop`, `render_loop`, `step_paused_frame`, `set_quit`, `reset_for_new_game`, `capture_frame_jpeg` | cpu thread, workers, main thread | four threads, one atomic per slot, buffers reused round-robin, lost wakeups, state left over from the previous game |
| Cycle manager (`core/cycle_manager.rs`) | 32-bit clock, due cycle per event, active mask, immediate mask, `next_event_cycle`, due of the event in dispatch | `schedule`, `schedule_from_due`, `schedule_imm`, `check_events`, `jump_to_next_event`, `add_cycles`, overflow rebase | every device, `execute_jit` | due cycles in the past, handlers rescheduling during dispatch, a clock replaced by a savestate load, wrap at 2^31 |
| GPU events (`core/gpu.rs`) | `v_count`, DISPSTAT, reference points | scanline 240 and 308 events | cycle manager, DMA, irq, savestate, rewind | order of effects at vblank |
| Interrupts and halt (`core/cpu_regs.rs`) | IME, IE, IF, HALTCNT, halt flag | register writes, `send_interrupt`, `cpu_on_interrupt_event` | cycle manager, CPU, devices | a request between test and dispatch; waking a halted CPU |
| DMA (`core/memory/dma.rs`), timers (`core/timers.rs`) | channel registers and latches | register writes, triggers, overflow events | cycle manager, memory, APU, irq | stale events of stopped channels, reload latches |
| APU and sound sampler (`core/apu.rs`) | FIFOs, channels; two sample queues with ready/busy indices, spin lock, parked flag | `push`, `consume`, FIFO refill | cpu thread parks, audio thread unparks | park/unpark token shared with pause and teardown, timeouts |
| Session (`src/lib.rs`) | threads, `cpu_active`, settings, pause events | `execute_jit`, `run_savestate_op`, game loop, save thread | everything | shutdown order, settings handed over across a pause |
| Savestate (`savestate.rs`, `core/emu.rs`) | request mailbox, op status, thumbnail, codec | `request_*`, `take_request`, `op_*`, `save_state`, `load_state` | UI, cpu thread, hotkeys | two requesters for one mailbox and one status |
| Rewind (`rewind.rs`) | ring of snapshots, spare buffers, frame counter | `rewind_on_frame`, `snapshot`, `step_back`, `clear` | cpu thread, renderer, JIT | ring at its limits, buffers recycled |
| Cartridge (`cartridge.rs`, `cartridge_io.rs`) | flash/EEPROM/SRAM machines, save buffer, dirty flag | byte and DMA accesses, `flush_save_buf` | save thread, file | command sequences, flush against write, quit |
| JIT memory (`jit/jit_memory.rs`, `jit_memory_map.rs`) | ring of code, entries per guest halfword, live bits, page protection | `jit_insert_block`, `invalidate_*`, `reset_blocks` | memory writes, fault handler | self-modifying code, ring wrap |
| JIT runtime (`jit_asm.rs`, `inst_branch_handler.rs`) | return stack, cycle counters | branches, returns, scheduler checks | generated code | return-stack wrap and mismatch |
| CPU mode registers (`core/thread_regs.rs`) | banked registers, CPSR, SPSR | `set_cpsr`, banking, exceptions | CPU, HLE BIOS | fast paths that skip part of a bank switch |
| HLE BIOS (`core/hle/bios.rs`) | wait-interrupt state | SWIs, interrupt entry and exit | CPU, irq | nested interrupts |
| Memory, MMU, IO (`core/memory/`) | regions, page tables, register dispatch | reads and writes of every width | devices, JIT | page protection, multi-page writes |
| PPU rasterizer (`core/ppu.rs`) | none across frames | compose scanlines | raster workers | pure computation |
| RTC, input (`core/rtc.rs`, `core/input.rs`) | bit-serial state, key latch | GPIO writes, key events | cartridge, irq | edge-triggered irq |
| Disassembler, interpreter, emitter (`jit/disassembler`, `jit/interpreter`, `jit/emitter`) | none across instructions | decode, declare registers and cycles, interpret, emit | analyzer, allocator, JIT memory | two engines for every instruction, and declarations nobody compares with either |
| Register allocator and block code (`jit/assembler/arm32`, `jit/emitter/arm32`) | mapping of guest to host registers, dirty and live sets at each place of a block | allocate, relocate, save, reload, restore | emitter, slow memory handlers | conditional results, blocks entered in the middle, late write-back on every way out |
| Presenter, UI, settings, key bindings, screen layout | widgets, files | menus, settings files | main thread | I/O |
| RetroAchievements, logging, mmap, savestate macros, vixl/vitaGL/rcheevos wrappers, tools | - | - | - | I/O, generated or third-party code |

## 2. Modules

Every module starts with a comment naming the code it models; `PROJECT.json` "map" gives the
source lines of each definition. Identifiers are the code's (`write_slot`, `next_event_cycle`,
`busy_queue`, `OP_STATE`). Definitions such as `SlotFreeAlways` or `NextBufFour`, placed
just before the one they resemble, are the plausible bugs ("mutants") that each property is
shown to catch.

### RenderSync, FrameQueue (renderer handshake)

`RenderSync` has four threads. The cpu thread (`cpuPc`) runs a frame (`RunFrame`: guest writes
make regions dirty), drops it or snapshots it into the slot at `write_slot`
(`OnFrameFinish`, `QueueFrameSnapshot`), publishes it with one atomic store
(`QueueFrameStore`), wakes the consumers and passes the pause gate. Two workers and the present
thread are *consumers*: `Ready(c)` is the condition of their `wait_until` loop, which is split
into its test under the mutex (`WaitTest`), the sleep that releases it (`WaitSleep`) and the
timeout (`WaitTimeout`), so that a store or a notify may fall between any two of them. The
present thread frees the slot *before* it uploads (`ReleaseSlot`), and the buffer stays in use
until two later swaps have returned. Pause, screenshot, quit and
`reset_for_new_game` are actions of the main thread. Video memory is a set of regions whose
snapshot is out of date (`stale`); a frame is its number. `FrameQueue` is the abstract
specification: a queue to which frames are added whole and in order, from which they are
taken whole and in order, emptied between games.

### CycleManager (scheduler, timers, line and sample events)

One variable per field of `CycleManager`, and `pc` for where `execute_jit` and
`cm_check_events` are: the guest slice (`Execute`, register accesses, `JumpToNextEvent` when it
halts or idles), `DrainImm`, `StartBatch`, then one `Dispatch(e)` per due event in due order and
the handler of that event (`Scanline240`, `Scanline308`, `SampleEvent`, `TimersOverflow`), and
`EndBatch` with the recomputation of `next_event_cycle` and the rebase. The savestate hook sits
between the two halves of the vblank handler as in `gpu.rs` (`SaveState`, `LoadState`), and
`BootLoad` is the load of `run_cpu`. Cycles are words of `0..MAX`; `schedule` saturates. A
transfer (`Dma`) is a stretch in which device registers are accessed from inside event
dispatch. History variables keep the grid on which each periodic event should lie.

### SoundSampler (sample queues)

`push` and `consume` cut at every point where another thread can act: taking the spin lock, the
append, the signal, the decision to park, `park` with its token; the wait with its timeout, the
swap of the two queues. Settings (frame limit, stretching) are replaced by the main thread at
any moment, as the menu does, and read when a push begins. The token can also be given by the
main thread's unpark after a pause.

### SavestateOps (requests, pause menu, teardown)

The mailbox `REQUEST`, the flag `LOAD_REQUEST` and the status `OP_STATE` are the statics of
`savestate.rs`. The cpu thread takes a request at its vblank hook, performs it and reports;
reporting reads the status and writes it in two steps. The main thread plays, opens the
menu, arms a status, gives a one-frame ticket (`pause_step`), polls, unpauses, tears
down and starts the next game. Histories say for which request a dialog was armed and whose
report ended it.

### JitMemory, JitSmc (compiled code)

`JitMemory` is the ring of host pages: `start`, `end`, the queue of blocks with their extents,
and the table from guest words to blocks. `Insert` allocates (flushing a quarter of the ring
first when the block does not fit), writes the code and the entries of the whole guest range;
`Invalidate` drops entries; `Reinit` is `jit.init` after a savestate load. A block whose entries
are gone stays in the ring until the flush reaches it. `JitSmc` extends it with what finds stale
blocks in IWRAM: a bit per live-range page, protection and sticky counter per mmu page, the
dispatch counters of cold blocks. `PlainStore` is a store that meets no watched page, `HitStore`
one that does; `changed` is the history of words rewritten since a block was compiled. A guest
word stands for any store width, addresses are mirror-collapsed, the block compiled at a target
ends at the next of `BlockEnds` (where the code's branch would be), and EWRAM, which the program
compiles without detection by design, is left out. Host frames of freed blocks are `JitCalls`'s subject.

### ThreadRegs, BankedFile (mode registers)

One record with the fields of `ThreadRegs`: the registers in sight, the stores of the modes, the
status word as its mode. `Switch` is `thread_set_cpsr` with its four paths (same mode, the two
fast paths between the user modes and the interrupt mode, and the slow one, `Store` then `Load`).
The actions are what calls it (`MsrCpsr`, `RestoreSpsr`, `Interrupt` and `Uninterrupt` of the HLE
BIOS, `SoftReset`) and what reads or writes registers in between, the user-bank transfers
included. What an interrupt pushes and pops is any value. `BankedFile` is the abstract
specification: one slot per register and bank, and a mode. The saved status of the interrupt mode
is not one of its slots, since the code does lose it on one sequence; the histories `refSpsr`,
`away` and `known` say when it must not. That a switch asks for a pending interrupt
(`cpu_check_for_interrupt`) is part of `Interrupts`.

### Interrupts (delivery, halt, BIOS waits, DMA start and end)

The registers `ime`, `ie`, `irf`, the I bit, `halt`, the waited flags of the BIOS and the control
register of each DMA channel, with the loop of `execute_jit` around them (`pc`): guest slice, first
drain of the immediate mask, timed events, second drain. `CheckForInterrupt` is what every register
write ends with, `SendInterrupt` what a source does, `OnInterruptEvent` and `OnDmaEvent` the handlers
of the immediate events in the order of their table. The guest is any sequence of register writes,
`msr`, HALTCNT, `Halt`, `IntrWait` and `VBlankIntrWait` calls and returns from handlers; a handler may
enable interrupts again, so handlers nest. A timed event raises a line and triggers the channels of its
start mode. Transfers go to plain memory: one that writes the interrupt or DMA registers is left out,
and so are addresses and counts.

### JitCalls (guest calls on the host stack)

`host` is the host stack above `call_jit_entry`: a frame per guest call and a frame per call of the
compiler or of the HLE return. `stack` and `ptr` are `return_stack` and `return_stack_ptr`,
`cycles` the cycles flushed since the slice began. `Call`, `Jump`, `Return`, `Uninterrupt` and `Breakout`
are the ways a block ends; `Dispatch` chooses between interpreting, compiling and running compiled
code, and a compilation may flush the code memory (`gen`) under frames that are still on the stack.
A guest address equal to the empty mark 0xFFFFFFFF is left out.

### ArmDecode, ThumbDecode, InstInfo, InstInfoThumb, Interp, Emit, GuestIsa (instructions)

The two decode tables are given by their groups of 128 entries; an entry keeps both columns of the code,
the `Op` with its flags (which the emitter follows) and the handler's name (which the disassembler and
the interpreter are specialised by). `InstInfo` and `InstInfoThumb` are what the disassembler declares:
registers read and written, and cycles. `Interp` is the interpreter's effect of an instruction: what its
result depends on, what it writes, its cycles, its `InstResult`, whether the SPSR is restored, the
address and the base update of a transfer. `Emit` is the same for the compiled code. Values are
left out: an effect says which registers and flags take part and how control and addresses are
formed. `GuestIsa` fetches every entry with every combination of the operands that its kind tells apart
(the pc, lr and sp in every place where they are legal, shifts of zero and not, conditions that hold or
fail, empty and full lists, user, supervisor and fast-interrupt mode, BIOS calls that return, halt or
redirect) and compares. The exceptions its properties name are real differences, listed in section 9:
`ArmV5Only`, `EmptyList`, `UserStorePc`, `UserLoadPcOffSp`, `RedirectingSwi`, `RrxOffset`; `FusedCall`
and `SelfStored` are instructions that bypass the declarations on purpose. A failed condition is charged
differently too (`Executed` leaves it out), and the mode bit of a branch target is recorded and not
compared, for the same reason.

### RegAlloc, BlockRegs (register allocation)

`RegAlloc` has the allocator's operations as functions from a register file to a register file. A file
holds what the compiler knows (`map`, `hmap`, `free`, `dirty`) next to what the emitted code has done
when it runs (`host`, `mem`, `flags`), so that the two can be compared. `BlockRegs` runs any program:
each step takes an instruction that liveness allows at this place, allocates its operands and executes
it. Data operations with or without a condition, single and multiple transfers that may fault into
the slow handlers or end the block, calls, returns, software interrupts, `msr`, branches inside and out
of the block and falling through are actions; the block may also be entered afresh at any instruction
(`Elsewhere`). Left out: user-bank (`^`) lists, `swp`, and a faulting load list whose base an earlier batch
of the same list has overwritten.

### The proof modules

`RenderSync_proofs`, `CycleManager_proofs`, `SoundSampler_proofs`, `SavestateOps_proofs`, `JitSmc_proofs` (with
the proofs about `JitMemory`), `JitCalls_proofs`, `ThreadRegs_proofs` and `Interrupts_proofs` are the proofs of
section 6, one module per component. Those about rings and words begin with the few lemmas on
remainders and quotients that they use ("The arithmetic of %"). An invariant that needs nothing but the
model's own definitions stands in the model's module, so that TLC can check it as well.

## 3. Runs

| Run | Instance | Shows |
|---|---|---|
| `render_handshake` | 2 slots, 5 buffers, 1 region, 6 frames, 2 games | ownership of slots and buffers (`SlotExclusive`, `BufferExclusive`, `SwapSlack`), fresh snapshots after dropped frames (`SnapshotFresh`), no wakeup lost (`NoLostWakeup`), whole frames in order (`ImplementsFrameQueue`) |
| `render_liveness` | 1 slot, 4 buffers, 2 frames | without a timeout, every published frame is presented unless the player pauses or quits (`FramesPresented`), and a quit ends every thread (`QuitTerminates`) |
| `scheduler` | word of 32, rebase after 7, slices up to 2 | the cached next event is never late (`NextEventSound`), timers overflow and count on time across rebases and any programming (`TimerOnTime`), lines end for ever (`LinesAdvance`) |
| `scheduler_catch_up` | slices up to 5, longer than every period | dispatch in due order with handlers that reschedule into the running batch (`DueOrder`), lines and samples on their grids when states are saved and loaded in mid-batch (`GridExact`) |
| `sound` | buffers of 2, 8 samples, limits 0, 1, 2, one menu visit, two games | samples in order (`InOrder`), none lost at normal speed (`NoSampleLost`), a parked cpu thread gets on (`Unparks`) |
| `savestate_requests` | 2 requests, 2 menu visits, 2 games | a dialog over a held cpu thread ends with its own report (`OwnAnswer`), the game stays frozen behind the menu (`FrozenBehindMenu`), every dialog and teardown ends (`DialogAnswered`, `TeardownEnds`) |
| `jit_self_modifying` | 8 words, 3 entry points, 4 live-range pages, 2 mmu pages, ring of 4 | blocks and free pages are disjoint and an entry never leads into freed code (`EntryIntact`), the page of an entry is as compiled (`PageFresh`), pages with code stay watched (`EntryWatched`), the detection is a `JitMemory` (`ImplementsJitMemory`) |
| `mode_registers` | one register of each kind, two values, three exception modes, at most two slots away from zero | whichever path a mode switch takes, the registers are one file with a slot per register and bank (`ImplementsBankedFile`); the interrupt mode's saved status survives a visit to the user modes or to the other exception modes (`SpsrKept`) |
| `interrupts` | one line, one DMA channel, one waited flag, handlers nested twice | a deliverable interrupt always has its event scheduled (`NoLostInterrupt`), code after an `IntrWait` runs only once its flag was there (`WaitEndsOnFlag`), a scheduled channel is an enabled one (`ScheduledIsArmed`), a halted cpu wakes (`Wakes`) |
| `jit_calls` | return stack of 4, quantum of 6, 2 addresses, one flush | the return stack promises only callers the host stack has (`StackMatches`), a host return lands where the guest returns to and in live code (`ResumesLiveCode`), the host stack is bounded by the quantum (`HostBounded`) |
| `guest_isa` | all 4096 ARM and 1024 Thumb entries | the engines charge alike (`SameCharge`), leave alike and restore modes alike (`SameRoute`), address memory alike (`SameTransfer`), and touch only declared registers (`DeclaredRegisters`) |
| `reg_alloc` | 3 guest and 2 host registers, 3 kinds of basic block, lists of 2 and 3 | every operand is the present value of its register (`OperandsPresent`), whenever the block is left memory is complete (`LeavesSaved`), what is dirty is exactly what must be written back (`DirtyExact`) |

Each property has a mutant in PROJECT.json: a plausible bug in one definition with which TLC finds the
property violated under the same configuration. The largest run takes under two minutes.

## 4. Bounds

- *Renderer.* Six frames rewrite every one of five buffers at least once and let the swapchain fill, drop
  frames and drain; a second game starts from every state a quit can leave. One region suffices
  because regions never interact.
- *Scheduler.* Periods are chosen so that events coincide, are overtaken within a slice, and cross the
  rebase several times. `MaxClock` caps the clock so that no due cycle saturates (`MarginAssumption`, true
  of the code: a clock below 2^31 and a slice, periods of at most 2^26 cycles). In `scheduler` the cap
  is never met, since the clock is rebased for ever; in `scheduler_catch_up` it stays below the
  rebase, because a rebase with the clock far past its events fails (section 9).
- *Sampler.* Two samples per buffer distinguish a full queue from one that holds samples; eight
  fill both queues twice. The sample limit of the faster settings is scaled with the buffer.
- *JIT memory.* Three overlapping entry points across a page boundary of each kind are the cases
  `invalidate_overlapping_blocks` tells apart; `MaxSpans` is 2 instead of 8 so that the limit is reached.
  Blocks take one page of the ring: larger ones would need the ring that `SizeAssumption` asks for
  (a quarter of at least 13 * MaxSize - 12 pages), too large beside the guest memory of this run.
- *Mode registers.* A value that is lost, moved to another bank or read from a stale store shows with one
  or two slots that differ from the rest (`FewMarked`); the proofs cover the other instances.
- *Interrupts.* Flags do not interact except through "some enabled flag is requested"; one timed line and
  the line of one channel are two flags, and two handlers are enough for one to nest in another.
- *Calls.* A return stack of 4 with a quantum of 6 wraps before the quantum ends. In the program the
  stack has 64 entries and the quantum is 128 cycles, so the ring comes close to wrapping at most; the model
  asks what happens if it does. Two addresses make a stale entry equal to the guest's return
  address, the case the sentinel is for.
- *Instructions.* No bound on the tables; operands as listed in section 2.
- *Register allocation.* Fewer host than guest registers, so that blocks relocate, spill and run out.
  `MaxOperands` is the number of host registers (an instruction of the program never names more than
  its eight). `Blocks` reads nothing, the flags and as many registers as have a place, or more;
  `PcLive`, `CondSwi` and `Refault` switch on cases in which instructions after this one read the pc, a
  software interrupt is conditional, or the first fault of a list store repeats it. The last two
  break `DirtyExact` (section 9) and are off.

## 5. Fairness

`render_liveness`: each thread goes on by itself (WF), the system's mutex is not barred from a thread for
ever (SF on steps that need it); *no* fairness on timeouts, so that progress is shown to come from
wakeups and not from the deadlines of the wait loop, and none on what the player does. `scheduler`: the
cpu thread runs (WF on slices and event checks). `sound`: both threads run, the spin lock is eventually
taken by a thread that keeps trying (SF; an assumption about the host, the lock has no queue), the
audio thread's timed wait may end, and a main thread that has left the menu unparks.
`savestate_requests`: WF of the cpu and main threads and of polling a finished status; the 30 s deadline is
never fair, hotkeys never required; the audio thread's unparks are allowed and not relied on.
`interrupts`: the quantum ends every slice and the loop goes on (WF), and each line is raised again and
again while timed events run (SF), as the display and the running timers do; nothing is assumed
of the guest.

## 6. Proofs

`RenderSync_proofs` proves for every swapchain depth, every buffer ring at least three
deeper (`FrameBufsAssumption`, true of the code's 2 and 5), every set of regions and every
number of frames and games:

- `TypeCorrect`, `HandshakeCorrect`: `Spec => []HandshakeInv`. `SlotExclusive` and
  `BufferExclusive` are not inductive: they speak of slots and buffers, while the threads keep
  cursors of their own. `HandshakeInv` ties them to counters: every cursor is the number of
  frames its thread has handled modulo its ring (`Cursors`), the counters are ordered and at
  most the ring depth apart (`Counters`), a slot's bits are determined by the counters
  (`SlotStates`), program points fit them (`Stages`) and swap marks lag by the right number
  (`SwapMarks`). What makes rings of cursors work is that `k % n` is injective on an interval shorter
  than `n` (`ModApart`).
- `SlotsNeverShared`, `BuffersNeverShared`, `SwapSlackHolds` follow from it without induction.
- `SnapshotsFresh`: a stale region of a slot is in the slot's dirty mask or in
  `gpu_mem_dirty`, which is what makes dropping frames safe; `SnapshotInv` adds that
  `gpu_mem_dirty` is empty once a frame has been handed over.
- `WakeupsNotLost`: `WakeInv` adds where a thread can be between its test and its sleep.
- `HandshakeRefinesQueue`: `Spec => ImplementsFrameQueue`. The abstract queue is the interval of
  slots from the last one freed to the last one published. `PictureInv` adds to `HandshakeInv` what is in them: a
  slot in flight holds a frame, a half that a worker has composed is in the buffer of its frame, and the
  present thread's buffer holds both halves of one frame. Publishing, freeing and swapping are then
  `HandOver`, `Take` and `Show` (`HandOverStep`, `TakeStep`, `ShowStep`), a full swapchain is the only
  `Drop` (`DropStep`), and every other step of the four threads stutters.
- `CapturesWhatIsShown`: what is on the display is one frame, not halves of two, and a screenshot or a
  thumbnail reads exactly it once the game has swapped (`CaptureShown`, on top of `PictureInv`).

`ThreadRegs_proofs` proves for every set of registers, of values and of exception modes that
contains the fast-interrupt, interrupt and supervisor modes:

- `RegsImplementFile`: `Spec => ImplementsBankedFile`. `StoreFlushes` says that after the first
  half of the slow path every slot is in its store, `LoadReads` that the second half takes the
  slots of the new mode from there; with the two fast paths, `SwitchKeepsFile` follows: a
  switch changes the mode and no slot. Each other action is one lemma.
- `RegsInvariant`, `SavedStatusKept`: `SpsrKept` speaks of the interrupt mode only;
  `SpsrPlace` says where its saved status waits meanwhile (in sight while only user modes are
  visited, in its store while only exception modes are), which makes it inductive.

`CycleManager_proofs` proves for every word size, set of periods, of timers, of reload values and
prescalers, and every length of slice that satisfy the three assumptions of the module:

- `TypeCorrect`: due cycles stay words. It carries the arithmetic that every other proof needs:
  within the clock's cap `SatAdd` does not saturate (`MarginAssumption`), and `RebaseFacts` and
  `EndFacts` say what a rebase subtracts from each of the words.
- `GridsExact`: `GridExact` needs to know, in the middle of a handler, on which grid the due cycle of the
  event being served lies, and that exactly one of the two line events is waiting; `GridInv` says this for
  each handler, and of every saved state, since a load brings it back.
- `TimersOnTime`: `TimerInv` leaves out the timer whose overflow is being handled and repeats the
  property for saved states.
- `BatchInDueOrder` is an action property. `OrderInv` says that whatever is active in a batch comes after
  the event dispatched last, which holds because a handler schedules from the due cycle and at
  least one cycle on.
- `NextEventNeverLate` has a hypothesis, `Unhurried`: no period is shorter than a slice, or the clock never
  reaches the rebase. Without it the property is false (section 9), so this is what can be said: a
  slice of the code ends with the block in which its 128th cycle falls, so what falls outside is a guest
  timer that overflows within a slice, or a block longer than a line's blanking. `NextInv` adds that no active event is late by a slice or more.

`Interrupts_proofs` proves `InterruptsDelivered`, `TransfersArmed` and `WaitsForFlag` for every set of lines,
channels and waited flags and every depth of nested handlers. `NoLostInterrupt` alone is not
inductive: a drain could drop a bit that was taken out of the mask. `IrqInv` adds where the drain's copy can be
non-empty and that no transfer is scheduled while guest code runs (`DrainPlaces`), that there is room for a handler
whenever interrupts are enabled (`Nesting`), and where an unfinished `IntrWait` can be (`WaitPlace`).

`JitSmc_proofs` proves, for every layout of guest words and every ring whose quarter holds thirteen of the
largest blocks less twelve pages (`SizeAssumption`; the code has 2048 pages in a quarter):

- `MemInvariant`, `CodeIntact` (about `JitMemory`): a flush frees from the front of a queue and does not look at
  positions, so that the ring stays a ring is a global fact. `RingInv` splits the queue into the rest of
  the last lap and this lap, says that each is ascending, and bounds the gaps that flushes leave: at most
  one near each quarter, a quarter apart, and no longer than `4 * j` times a block. That bound is what makes the
  last flush of a lap large enough. `EntryBlocks` ties the entry table to the queue.
- `RefinesJitMemory`, `JitCodeIntact`: each action of `JitSmc` is a step of `JitMemory` or leaves it alone.
- `SmcInvariant`, `PagesWatched`, `PagesFresh`: a page is fresh because it is watched, and both because
  entries are blocks of the ring. `CoarserPage` says that words of one live-range page share
  an mmu page.

`JitCalls_proofs` proves `ReturnStackMatches`, `ReturnsIntoLiveCode` and `HostStackBounded` for every size
of the return stack from two, every quantum and all costs of at least one cycle. `CallsInv` adds to the
three properties that the ring has a mark somewhere (`Marked`), without which a wrapped ring would
promise callers for ever, and that a frame of freed code has a frame above it that saw the flush
(`FramesLive`). The work is in what a host return does to counts of frames (`Unwound`, `Inner`).

`SoundSampler_proofs` proves for every buffer size, set of limiter and stretching settings and every number
of samples, menu visits and games:

- `TypeCorrect`: with the types, the spin lock is held by the side that is between its lock and its unlock.
- `SamplesInOrder`: `Spec => []InOrder`. `OrderInv` says that the ready queue is newer than what was heard and
  the queue being filled newer than the ready one. While one queue is both, the other may still hold
  old samples; what saves the order is that these are emptied by the swap before anything is stored
  there, and that only queue 1 can have any, because a new game starts on queue 0 (`OrderNewGame`).
- `EverySampleHeard`: `Spec => []NoSampleLost`. `NothingDropped` places the two queues exactly: together they
  are the samples after the last one heard; a ready queue that is not being filled is full, so that the
  producer parks before it would drop it; a producer that waits has no token yet, and one that has a token
  wakes to an empty queue (`SteadyAppend`, `SteadySwap`, `SteadyTake`).
- `ParkedIsRescued`: the safety half of `Unparks`. A parked producer has a token, an unpark on its way, or an
  audio thread that needs nothing more from it (`Rescued`). The case that takes an invariant is a push
  begun with stretching on, which does not signal, parked under a menu that has switched it off:
  `RescueInv` says that the menu that is to blame has its unpark still to come, or it has left the token.

`SavestateOps_proofs` proves for every number of requests, pauses and games, with and without hotkeys and
expired deadlines:

- `DialogGetsItsAnswer`: `Dialog` follows the request from the armed status to the report: while the cpu
  thread is held the request is in the mailbox, then it is taken before a quick-load, then in hand.
- `GameStaysFrozen`: `Budget` counts the frames that can still begin (the one in flight, a ticket that is
  out, the ticket of the dialog that may come); they and the frames begun never exceed three.
- `DialogsServed`, `ParkedOnlyBehindMenu`: the safety halves of `DialogAnswered` and `TeardownEnds`, for dialogs
  over a held cpu thread or not. `LiveInv` says that the request of an armed status waits with a ticket or at the
  hook, or that a report is coming which will find the status armed (`Served`), and that a cpu thread on its
  way to `park` after the menu was left finds the token (`Released`).

`HandshakeInv`, `SnapshotInv`, `WakeInv`, `PictureInv`, `SpsrPlace`, `GridInv`, `TimerInv`, `OrderInv` (of the scheduler
and of the sampler), `NextInv`, `IrqInv`, `RingInv`, `SmcInv`, `CallsInv`, `SteadyInv`, `RescueInv`, `OpsInv` and `LiveInv` are the
inductive invariants; they are proved, and being stronger than the properties of the runs they are
not checked again there. So are `CaptureShown`, `Rescued`, `DialogServed` and `ParkedBehindMenu`, which no run lists.

Only model-checked:

- *Liveness* and everything with fairness (`FramesPresented`, `QuitTerminates`, `LinesAdvance`, `Unparks`,
  `DialogAnswered`, `TeardownEnds`, `Wakes`), which the prover cannot handle. What of it is safety is proved:
  no wakeup, unpark, request or interrupt is lost (`NoLostWakeup`, `Rescued`, `DialogServed`, `ParkedBehindMenu`,
  `NoLostInterrupt`).
- `OperandsPresent`, `LeavesSaved` and `DirtyExact` of `BlockRegs`. The allocator works through lists of operands
  with recursive operators and folds (`RegAlloc`), and what they compute for lists of every length needs an
  induction over data, which is out of the provers' reach.
- The four properties of `GuestIsa`: the tables are finite and have no parameter, so TLC's enumeration covers
  them whole.

## 7. Plan

Every safety property of the runs is proved but those of `BlockRegs` and `GuestIsa` (section 6). What
the project could grow by next:

1. `CartridgeSave`: flash and eeprom machines, dirty flag, save thread, quit.
2. The ring of snapshots of `rewind.rs`, the RTC's serial machine, the APU's fifos and channels.
3. The analyzer's cut of a block into basic blocks and its idle loops, to derive `Blocks` of `BlockRegs` from
   programs instead of enumerating them.

## 8. Not modelled

- *Cartridge saves*: the command machines need per-byte histories, and the two hazards of the save
  thread (no last flush at quit, a failed write not retried) are plain from the source.
- *Rewind's ring, RTC, APU channels, savestate codec*: sequential code on one thread; where it meets other
  parts (a load replaces the clock and the code memory, the sampler parks the cpu thread) those are
  modelled.
- *PPU rasterizer*: a pure function from a snapshot to pixels, vectorised by hand. Which snapshot it draws
  and when is `RenderSync`.
- *Values computed by instructions* and *host instructions*: the meaning of the emitted code is the host's
  instruction set (vixl, third party). What is compared is control, addressing and register use.
- *Presenter and menus* beyond what they ask of the session, *settings files*, *RetroAchievements* (library
  and HTTP), *memory mapping* (system calls), *logging*, *GL and time stretching* (wrappers).

PROJECT.json lists every component with its reason.

## 9. Met while modelling

Places where the models show that the code does not do what one expects, or what a document or a
comment says. Each is left out of a property, or switched off by a constant, as said here.

Scheduler and devices
- A timer that overflows every cycle catches up within the batch that crosses 2^31; `next_event_cycle`, which
  recomputation only lowers, is left behind the clock and `cm_on_overflow_event` subtracts it without
  saturation, although DEVELOPMENT.md:37 says the rebase saturates. Hence `MaxClock` in
  `scheduler_catch_up`.
- A session started from a savestate (`run_cpu`, the action `BootLoad`) restores a `next_event_cycle` saved in
  mid-batch, and events due before it wait, although DEVELOPMENT.md:56 says states are only restored in
  the vblank hook; `NextEventSound` leaves such sessions out.
- A timer taken out of cascade while it runs with prescaler 0 is not rescheduled (`timers.rs:99`).
- An interrupt raised by the end of a transfer while the immediate events drain for the second time is
  delivered after another slice (`lib.rs:178`); `NoLostInterrupt` says it is not lost. HALTCNT does not end
  the slice.

Session
- A dialog ends at the first terminal status, which may be the report of an earlier hotkey request
  (`savestate.rs:138`): an autosave at quit can be torn down while still queued. `OwnAnswer` is about
  dialogs over a held cpu thread.
- A request still in `REQUEST` at teardown is performed in the next game (`savestate.rs:35`); settings are
  replaced before the cpu thread is known to be parked (`lib.rs:585`); `last_blit` survives
  `reset_for_new_game` (`gpu.rs:599`).
- Rewinding past the oldest snapshot resumes play (`rewind.rs:127` says it stays there). The eeprom size is
  guessed from the bits sent before the first read (`cartridge.rs:218`).

Mode registers and BIOS
- `SPSR_irq` is lost when a handler visits a user mode and another exception mode before it comes back
  (`SpsrKept` excludes exactly that).
- `soft_reset` writes the stores of the banks before it switches, so the stack pointer of the mode it is
  called from is not reset (`Reset` of `BankedFile` says which banks survive). The r12 that `run_cpu` sets
  is overwritten by the switch that follows.

Compiled code
- A store beside a block clears the bit of a live-range page that the block reaches into from the page
  before; the next store, into the block, is not seen, and the entry in the page before runs old code.
  `PageFresh` is what holds: within the live-range page of the entry nothing is stale.
- `mem_write_multiple_memset` looks at the protection of the first mmu page only (`mem.rs:524`). The
  comment of `reset_blocks` that it frees at least a quarter is not true at the end of the ring, yet the
  allocation fits under `SizeAssumption` (7 * MaxSize - 6, enough for one lap, was refuted by TLC: pages
  lost between blocks add up from lap to lap).
- In the patched load of IE and IF by one list the second register is moved from R0 instead of R1
  (`jit_memory.rs:1089`).

Interpreter and compiled code
- *Mode bit of a target*: a Thumb `pop {pc}` and an ARM `mov pc, lr` hand the value with its bit 0 to the
  return stack in compiled code, while the interpreter stays in its mode; `ldr pc` and `ldm` without sp clear
  the bit in compiled code, while the interpreter lets it choose.
- *SPSR*: compiled `ldm rn, {.., pc}^` restores it only when rn is sp (`UserLoadPcOffSp`); compiled `tst`-like
  instructions with rd = pc restore it whatever their condition (`emit_test_rd15`).
- *Charge*: a failed condition costs 1 in the interpreter and the full cycles in compiled code.
- *Lists*: empty lists take different ways and addresses (`EmptyList`); `stm^` with the pc is declared to
  write the pc, so compiled code branches (`UserStorePc`); a stored pc is +8 in compiled code and +12 in the
  interpreter; a written-back base is aligned in compiled code; a slow list of 16 registers overflows
  its 4-bit count.
- *RRX* as a transfer's offset reads a carry that is not declared (`RrxOffset`).
- *ARMv5*: DSP multiplications, double transfers and `blx` do nothing in the interpreter and are emitted; the
  saturating operations do nothing in either and are still declared to write (`ArmV5Only`); `clz` runs in the
  interpreter and emits nothing. A game meets none of them on this cpu.
- *Software interrupts that change the pc* (soft reset) are followed by the interpreter only
  (`RedirectingSwi`).
- The idle-loop test counts a conditional write as a write and ignores the flags
  (`asm_analyzer.rs:17`).

Register allocation
- A conditional `swi` writes the flags back only on its own path and forgets that they are dirty on the
  other (`emit_swi.rs:14`; `CondSwi = TRUE` violates `DirtyExact`).
- On the first fault of a list store with write-back the base is moved by the handler and again by the
  code after it (`Refault = TRUE` violates `DirtyExact`).
- A slow `ldm^` of a banked register that is dirty reloads it from memory afterwards.
