---------------------------- MODULE SoundSampler ----------------------------
(***************************************************************************)
(* The sample queues between the cpu thread and the audio thread           *)
(* (`SoundSampler` in src/core/apu.rs).  The cpu thread pushes one sample  *)
(* per sample event and, with the frame limiter on, parks when both queues *)
(* are full: this is what paces the emulation.  The audio thread takes a   *)
(* queue per device buffer and unparks it.  The park token is shared with  *)
(* the main thread, which unparks after a pause, and which changes the     *)
(* settings both sides read.                                               *)
(*                                                                         *)
(* A sample is its number.  Time stretching, the mixing and the resampling *)
(* of a buffer are left out.                                               *)
(***************************************************************************)
EXTENDS Integers, Sequences

CONSTANTS
    BUF,          \* SAMPLE_BUFFER_SIZE
    FrameLimits,  \* frame limiter settings in use (0: off)
    Stretching,   \* audio_stretching settings in use
    MaxSamples,   \* bound: samples pushed
    MaxMenus,     \* bound: visits to the pause menu
    MaxGames      \* bound: games

ASSUME BufAssumption == BUF \in Nat \ {0}
ASSUME SettingsAssumption ==
    /\ FrameLimits \subseteq Nat /\ FrameLimits # {}
    /\ Stretching \subseteq BOOLEAN /\ Stretching # {}
ASSUME BoundsAssumption == MaxSamples \in Nat /\ MaxMenus \in Nat /\ MaxGames \in Nat \ {0}

\* SAMPLE_LIMITS: off and 1x fill one buffer, faster settings more than one.
SampleLimit(f) == IF f <= 1 THEN BUF ELSE BUF + f - 1

Queue == {0, 1}
Other(q) == 1 - q

VARIABLES
    data,          \* queue -> the samples stored in it
    size,          \* queue -> samples counted, stored or not
    busy_queue, ready_queue, waiting,
    lock,          \* `busy`: who holds the spin lock
    can_sample,    \* under cond_mutex
    token,         \* the cpu thread's park token
    framelimit, audio_stretching,
    cpuPc, pushed, \* pushed: the number of the sample in hand
    fl, st,        \* the settings the push in progress was called with
    audioPc, heard, \* heard: the last sample taken by the audio thread
    mainPc, menus, game

queueVars == <<data, size, busy_queue, ready_queue>>
settingVars == <<framelimit, audio_stretching>>
mainVars == <<mainPc, menus, game>>
cpuVars == <<cpuPc, pushed, fl, st>>
vars == <<data, size, busy_queue, ready_queue, waiting, lock, can_sample, token, framelimit,
          audio_stretching, cpuPc, pushed, fl, st, audioPc, heard, mainPc, menus, game>>

Init ==
    /\ data = [q \in Queue |-> <<>>] /\ size = [q \in Queue |-> 0]
    /\ busy_queue = 0 /\ ready_queue = 0 /\ waiting = FALSE
    /\ lock = "free" /\ can_sample = FALSE /\ token = FALSE
    /\ framelimit \in FrameLimits /\ audio_stretching \in Stretching
    /\ cpuPc = "run" /\ pushed = 0 /\ fl = framelimit /\ st = audio_stretching
    /\ audioPc = "start" /\ heard = 0
    /\ mainPc = "play" /\ menus = 0 /\ game = 1

-----------------------------------------------------------------------------
(* push, on the cpu thread.                                                *)

\* apu_on_sample_event reads the settings and calls push.
SampleEvent ==
    /\ cpuPc = "run" /\ pushed < MaxSamples
    /\ pushed' = pushed + 1
    /\ fl' = framelimit /\ st' = audio_stretching
    /\ cpuPc' = "lock"
    /\ UNCHANGED <<queueVars, waiting, lock, can_sample, token, settingVars, audioPc, heard, mainVars>>

PushLock ==
    /\ cpuPc = "lock" /\ lock = "free"
    /\ lock' = "cpu"
    /\ cpuPc' = "append"
    /\ UNCHANGED <<queueVars, waiting, can_sample, token, settingVars, pushed, fl, st, audioPc,
                   heard, mainVars>>

\* A sample past the end of the buffer is counted but not stored.
Store(q) == IF size[q] < BUF THEN Append(data[q], pushed) ELSE data[q]

PushAppend ==
    /\ cpuPc = "append"
    /\ data' = [data EXCEPT ![busy_queue] = Store(busy_queue)]
    /\ size' = [size EXCEPT ![busy_queue] = @ + 1]
    /\ \/ /\ size[busy_queue] + 1 < SampleLimit(fl)
          /\ lock' = "free" /\ cpuPc' = "run"
       \/ /\ size[busy_queue] + 1 >= SampleLimit(fl)
          /\ cpuPc' = IF st THEN "full" ELSE "signal"
          /\ UNCHANGED lock
    /\ UNCHANGED <<busy_queue, ready_queue, waiting, can_sample, token, settingVars, pushed,
                   fl, st, audioPc, heard, mainVars>>

Signalled == TRUE

\* Without stretching, let the audio thread know that a buffer is in.
PushSignal ==
    /\ cpuPc = "signal"
    /\ can_sample' = Signalled
    /\ cpuPc' = "full"
    /\ UNCHANGED <<queueVars, waiting, lock, token, settingVars, pushed, fl, st, audioPc, heard,
                   mainVars>>

MustWait == fl # 0 /\ size[Other(busy_queue)] >= SampleLimit(fl)

\* Both queues full: unlock and park.  Otherwise swap, dropping what is left
\* in the other queue.
PushFull ==
    /\ cpuPc = "full"
    /\ lock' = "free"
    /\ \/ /\ MustWait
          /\ waiting' = TRUE
          /\ cpuPc' = "park"
          /\ UNCHANGED queueVars
       \/ /\ ~MustWait
          /\ data' = [data EXCEPT ![Other(busy_queue)] = <<>>]
          /\ size' = [size EXCEPT ![Other(busy_queue)] = 0]
          /\ ready_queue' = busy_queue
          /\ busy_queue' = Other(busy_queue)
          /\ cpuPc' = "run"
          /\ UNCHANGED waiting
    /\ UNCHANGED <<can_sample, token, settingVars, pushed, fl, st, audioPc, heard, mainVars>>

\* thread::park returns once the token is there; nothing is tested again.
Park ==
    /\ cpuPc = "park" /\ token
    /\ token' = FALSE
    /\ cpuPc' = "run"
    /\ UNCHANGED <<queueVars, waiting, lock, can_sample, settingVars, pushed, fl, st, audioPc,
                   heard, mainVars>>

-----------------------------------------------------------------------------
(* consume, on the audio thread.                                           *)

ConsumeStart ==
    /\ audioPc = "start"
    /\ audioPc' = IF audio_stretching THEN "lock" ELSE "wait"
    /\ UNCHANGED <<queueVars, waiting, lock, can_sample, token, settingVars, cpuVars, heard, mainVars>>

\* wait_timeout_while ends with the flag set ...
ConsumeWait ==
    /\ audioPc = "wait" /\ can_sample
    /\ can_sample' = FALSE
    /\ audioPc' = "lock"
    /\ UNCHANGED <<queueVars, waiting, lock, token, settingVars, cpuVars, heard, mainVars>>

\* ... or after 500 ms: play silence and come back.
ConsumeTimeout ==
    /\ audioPc = "wait" /\ ~can_sample
    /\ audioPc' = "start"
    /\ UNCHANGED <<queueVars, waiting, lock, can_sample, token, settingVars, cpuVars, heard, mainVars>>

ConsumeLock ==
    /\ audioPc = "lock" /\ lock = "free"
    /\ lock' = "audio"
    /\ audioPc' = "take"
    /\ UNCHANGED <<queueVars, waiting, can_sample, token, settingVars, cpuVars, heard, mainVars>>

\* Mutant: the parked producer is left with its full queue.
BusyAfterTakeKept == busy_queue
BusyAfterTake == IF waiting THEN ready_queue ELSE busy_queue

\* Mutant: the ready queue is not handed back.
ReadyAfterTakeKept == ready_queue
ReadyAfterTake == busy_queue

\* Take the ready queue, hand it back empty, wake the producer if it waits.
ConsumeTake ==
    /\ audioPc = "take"
    /\ heard' = IF data[ready_queue] = <<>> THEN heard ELSE data[ready_queue][Len(data[ready_queue])]
    /\ data' = [data EXCEPT ![ready_queue] = <<>>]
    /\ size' = [size EXCEPT ![ready_queue] = 0]
    /\ ready_queue' = ReadyAfterTake
    /\ busy_queue' = BusyAfterTake
    /\ waiting' = FALSE
    /\ token' = (token \/ waiting)
    /\ lock' = "free"
    /\ audioPc' = "start"
    /\ UNCHANGED <<can_sample, settingVars, cpuVars, mainVars>>

-----------------------------------------------------------------------------
(* The main thread.                                                        *)

\* A frame limiter hotkey.
SetFramelimit(f) ==
    /\ mainPc = "play" /\ f # framelimit /\ menus < MaxMenus
    /\ framelimit' = f
    /\ menus' = menus + 1
    /\ UNCHANGED <<queueVars, waiting, lock, can_sample, token, audio_stretching, cpuVars,
                   audioPc, heard, mainPc, game>>

\* The pause menu closes: new settings, then unpark (the pause itself only
\* delays the cpu thread between two frames).
MenuSettings(f, s) ==
    /\ mainPc = "play" /\ menus < MaxMenus
    /\ framelimit' = f /\ audio_stretching' = s
    /\ menus' = menus + 1
    /\ mainPc' = "unpark"
    /\ UNCHANGED <<queueVars, waiting, lock, can_sample, token, cpuVars, audioPc, heard, game>>

\* Mutant: the menu forgets to unpark.
UnparkForgotten == token
Unparked == TRUE

MenuUnpark ==
    /\ mainPc = "unpark"
    /\ token' = Unparked
    /\ mainPc' = "play"
    /\ UNCHANGED <<queueVars, waiting, lock, can_sample, settingVars, cpuVars, audioPc, heard,
                   menus, game>>

\* The game is over, its threads are joined, and the next one starts: init
\* resets everything but the queues' sizes.  A new thread has no token.
NewGame ==
    /\ mainPc = "play" /\ cpuPc = "run" /\ audioPc = "start" /\ game < MaxGames
    /\ game' = game + 1
    /\ busy_queue' = 0 /\ ready_queue' = 0 /\ waiting' = FALSE /\ lock' = "free"
    /\ can_sample' = FALSE /\ token' = FALSE
    /\ UNCHANGED <<data, size, settingVars, cpuVars, audioPc, heard, mainPc, menus>>

Cpu == SampleEvent \/ PushLock \/ PushAppend \/ PushSignal \/ PushFull \/ Park
Audio == ConsumeStart \/ ConsumeWait \/ ConsumeTimeout \/ ConsumeLock \/ ConsumeTake
Main ==
    \/ \E f \in FrameLimits : SetFramelimit(f)
    \/ \E f \in FrameLimits, s \in Stretching : MenuSettings(f, s)
    \/ MenuUnpark \/ NewGame

Next == Cpu \/ Audio \/ Main

Spec == Init /\ [][Next]_vars

\* The threads run; a spinning thread gets the spin lock, which is held for a
\* few instructions; a menu that was opened is closed.
FairSpec ==
    /\ Spec
    /\ WF_vars(Cpu) /\ SF_vars(PushLock)
    /\ WF_vars(Audio) /\ SF_vars(ConsumeLock)
    /\ WF_vars(MenuUnpark)

-----------------------------------------------------------------------------
(* Properties.                                                             *)

\* Every variable has its type; the samples stored are samples pushed, and the
\* spin lock is held exactly by the side that is between its lock and unlock.
TypeOK ==
    /\ data \in [Queue -> Seq(0 .. MaxSamples)] /\ size \in [Queue -> Nat]
    /\ busy_queue \in Queue /\ ready_queue \in Queue
    /\ waiting \in BOOLEAN /\ can_sample \in BOOLEAN /\ token \in BOOLEAN
    /\ lock \in {"free", "cpu", "audio"}
    /\ framelimit \in FrameLimits /\ audio_stretching \in Stretching
    /\ fl \in FrameLimits /\ st \in Stretching
    /\ cpuPc \in {"run", "lock", "append", "signal", "full", "park"}
    /\ pushed \in 0 .. MaxSamples /\ heard \in 0 .. MaxSamples
    /\ audioPc \in {"start", "wait", "lock", "take"} /\ mainPc \in {"play", "unpark"}
    /\ menus \in Nat /\ game \in Nat \ {0}
    /\ lock = "cpu" <=> cpuPc \in {"append", "signal", "full"}
    /\ lock = "audio" <=> audioPc = "take"

Samples(q) == {data[q][i] : i \in 1 .. Len(data[q])}

\* The samples that reached a queue or were dropped on the way to it.
Counted == IF cpuPc \in {"lock", "append"} THEN pushed - 1 ELSE pushed

\* Whatever the settings do, and however often the producer wakes without
\* having been waited for, the audio thread never goes back in time: what it
\* takes is newer than everything it has taken, and ascending.
InOrder ==
    \A q \in Queue :
        /\ \A i, j \in 1 .. Len(data[q]) : i < j => data[q][i] < data[q][j]
        /\ audioPc = "take" /\ ready_queue = q /\ data[q] # <<>> => data[q][1] > heard

\* Inductive for InOrder: the ready queue is newer than what was heard, and the
\* queue being filled is newer than the ready one.  While one queue is both,
\* the other's leftovers are emptied before anything is stored there; only
\* queue 1 can have any, since a new game starts on queue 0.
OrderInv ==
    /\ TypeOK
    /\ \A q \in Queue : \A i, j \in 1 .. Len(data[q]) : i < j => data[q][i] < data[q][j]
    /\ heard <= Counted /\ \A q \in Queue : \A x \in Samples(q) : x <= Counted
    /\ \A x \in Samples(ready_queue) : x > heard
    /\ busy_queue # ready_queue =>
          \A x \in Samples(busy_queue) : x > heard /\ \A y \in Samples(ready_queue) : y < x
    /\ busy_queue = 1 /\ ready_queue = 1 => data[0] = <<>>

\* The limiter at normal speed, from the start of the session.
Steady == framelimit = 1 /\ menus = 0 /\ game = 1

\* With the limiter at normal speed and no interference, every sample is heard.
NoSampleLost ==
    (Steady /\ audioPc = "take" /\ data[ready_queue] # <<>>) =>
        data[ready_queue][1] = heard + 1

\* The two queues hold exactly the samples after the last one heard.  A ready
\* queue that is not being filled is full, so the producer that fills the other
\* one parks instead of dropping it, and wakes to an empty queue.
NothingDropped ==
    /\ fl = 1
    /\ \A q \in Queue : Len(data[q]) = size[q] /\ size[q] <= BUF
    /\ busy_queue = ready_queue => size[Other(busy_queue)] = 0
    /\ busy_queue # ready_queue => size[ready_queue] = BUF
    /\ cpuPc \in {"run", "lock", "append"} \/ token => size[busy_queue] < BUF
    /\ cpuPc \in {"signal", "full"} \/ waiting => size[busy_queue] = BUF
    /\ cpuPc = "park" <=> waiting \/ token
    /\ waiting => ~token /\ busy_queue # ready_queue
    /\ \A i \in 1 .. Len(data[ready_queue]) : data[ready_queue][i] = heard + i
    /\ busy_queue # ready_queue =>
          \A i \in 1 .. Len(data[busy_queue]) : data[busy_queue][i] = heard + BUF + i
    /\ heard + size[0] + size[1] = Counted

\* Inductive for NoSampleLost.
SteadyInv == TypeOK /\ (menus = 0 => mainPc = "play") /\ (Steady => NothingDropped)

\* A parked cpu thread has a rescuer: its token, the menu's unpark, or an audio
\* thread that will take a queue.  Without stretching that thread only wakes to
\* can_sample, and a push decides whether to set it by settings that the menu
\* may have replaced since.
Rescued ==
    cpuPc = "park" =>
        \/ token \/ mainPc = "unpark"
        \/ waiting /\ (audio_stretching \/ can_sample \/ audioPc \in {"lock", "take"})

\* Inductive for Rescued: where a push leaves the signal out, the audio thread
\* needs none or the menu that is to blame unparks.
RescueInv ==
    /\ TypeOK /\ Rescued
    /\ cpuPc = "signal" => ~st
    /\ cpuPc = "full" /\ ~st => can_sample \/ audioPc = "lock"
    /\ cpuPc \in {"lock", "append", "full"} /\ st /\ ~audio_stretching => token \/ mainPc = "unpark"

\* The cpu thread never stays parked on full queues.
Unparks == (cpuPc = "park") ~> (cpuPc = "run")

=============================================================================
