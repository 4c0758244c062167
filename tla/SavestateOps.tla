---------------------------- MODULE SavestateOps ----------------------------
(***************************************************************************)
(* Savestate requests and the pause menu (src/savestate.rs, lib.rs,        *)
(* presenter/ui.rs, the pause loop of gpu.rs).                             *)
(*                                                                         *)
(* The main thread queues requests, from hotkeys while the game runs and   *)
(* from the pause menu while it is frozen; the cpu thread performs them at *)
(* its vblank hook.  A menu request arms a status, gives the paused cpu    *)
(* thread a one-frame ticket and polls the status until it is terminal.    *)
(* The mailbox, the status and the park token outlive single requests.     *)
(*                                                                         *)
(* What is saved or loaded is abstracted to the request itself.            *)
(***************************************************************************)
EXTENDS Integers

CONSTANTS
    Hotkeys,      \* may the player use quick-save and quick-load
    Deadlines,    \* may the dialog's 30 s pass before the cpu thread answers
    MaxRequests,  \* bound: requests queued
    MaxPauses,    \* bound: visits to the pause menu
    MaxGames      \* bound: games

ASSUME OptionsAssumption == Hotkeys \in BOOLEAN /\ Deadlines \in BOOLEAN
ASSUME BoundsAssumption ==
    MaxRequests \in Nat /\ MaxPauses \in Nat /\ MaxGames \in Nat \ {0}

\* A request: what it does, who queued it, in which game, and its number.
None == [kind |-> "none", by |-> "nobody", game |-> 0, id |-> 0]
OP_IDLE == "idle"
OP_WORKING == "working"
OP_FAILED == "failed"
OpDone(r) == IF r.kind = "save" THEN "doneSave" ELSE "doneLoad"

VARIABLES
    pause, pause_step, quit,
    token,          \* the cpu thread's park token
    REQUEST, LOAD_REQUEST, OP_STATE,
    cpuPc, job,     \* job: the request being performed
    seen,           \* the cpu thread's last reading of OP_STATE
    mainPc, ret,    \* ret: what the menu returned
    issued, pauses, game,  \* counters
    armed,          \* history: the request the status was armed for
    frozenThen,     \* history: did the pause loop hold the cpu thread when it was armed
    answer,         \* history: the request whose report ended the dialog
    framesPaused    \* history: frames begun since the menu opened

flagVars == <<pause, pause_step, quit>>
mailVars == <<REQUEST, LOAD_REQUEST>>
cpuVars == <<cpuPc, job, seen>>
histVars == <<armed, frozenThen, answer, framesPaused>>
countVars == <<issued, pauses, game>>
vars == <<pause, pause_step, quit, token, REQUEST, LOAD_REQUEST, OP_STATE, cpuPc, job, seen,
          mainPc, ret, issued, pauses, game, armed, frozenThen, answer, framesPaused>>

Init ==
    /\ pause = FALSE /\ pause_step = FALSE /\ quit = FALSE /\ token = FALSE
    /\ REQUEST = None /\ LOAD_REQUEST = FALSE /\ OP_STATE = OP_IDLE
    /\ cpuPc = "run" /\ job = None /\ seen = OP_IDLE
    /\ mainPc = "play" /\ ret = "resume"
    /\ issued = 0 /\ pauses = 0 /\ game = 1
    /\ armed = None /\ frozenThen = FALSE /\ answer = None /\ framesPaused = 0

-----------------------------------------------------------------------------
(* The cpu thread: frames, the pause loop, the vblank hook.                *)

\* execute_jit's loop tests quit between slices.  Mutant: it does not.
QuitIgnored == FALSE
QuitSeen == quit

\* The next frame begins.
RunFrame ==
    /\ cpuPc = "run" /\ ~QuitSeen
    /\ framesPaused' = IF pause THEN framesPaused + 1 ELSE framesPaused
    /\ cpuPc' = "gate"
    /\ UNCHANGED <<flagVars, token, mailVars, OP_STATE, job, seen, mainPc, ret, countVars,
                   armed, frozenThen, answer>>

CpuExit ==
    /\ cpuPc = "run" /\ QuitSeen
    /\ cpuPc' = "done"
    /\ UNCHANGED <<flagVars, token, mailVars, OP_STATE, job, seen, mainPc, ret, countVars, histVars>>

\* The head of the pause loop.  Mutant: tested once, so that any unpark of the
\* cpu thread ends the pause.
GatedOnce == pause /\ ~quit /\ framesPaused = 0
Gated == pause /\ ~quit

GateTest ==
    /\ cpuPc = "gate"
    /\ cpuPc' = IF Gated THEN "ticket" ELSE "hook"
    /\ UNCHANGED <<flagVars, token, mailVars, OP_STATE, job, seen, mainPc, ret, countVars, histVars>>

\* Testing the ticket before parking.  Mutant: parking first.
TicketNotTested == FALSE
TicketTested == pause_step

GateTicket ==
    /\ cpuPc = "ticket"
    /\ pause_step' = FALSE
    /\ cpuPc' = IF TicketTested THEN "hook" ELSE "park"
    /\ UNCHANGED <<pause, quit, token, mailVars, OP_STATE, job, seen, mainPc, ret, countVars, histVars>>

GatePark ==
    /\ cpuPc = "park" /\ token
    /\ token' = FALSE
    /\ cpuPc' = "gate"
    /\ UNCHANGED <<flagVars, mailVars, OP_STATE, job, seen, mainPc, ret, countVars, histVars>>

\* The audio thread unparks too (a full sample queue it has just emptied).
AudioUnpark ==
    /\ cpuPc \in {"gate", "ticket", "park"} /\ ~token
    /\ token' = TRUE
    /\ UNCHANGED <<flagVars, mailVars, OP_STATE, cpuVars, mainPc, ret, countVars, histVars>>

QuickLoad == [kind |-> "load", by |-> "hotkey", game |-> game, id |-> 0]

\* Mutant: a pending quick-load comes before a queued request.
LoadFirst(r) ==
    IF LOAD_REQUEST THEN r = QuickLoad /\ LOAD_REQUEST' = FALSE /\ UNCHANGED REQUEST
    ELSE r = REQUEST /\ REQUEST' = None /\ UNCHANGED LOAD_REQUEST

\* Payload requests first, so that the one-frame ticket is not spent on a
\* quick-load.
Take(r) ==
    IF REQUEST # None THEN r = REQUEST /\ REQUEST' = None /\ UNCHANGED LOAD_REQUEST
    ELSE r = QuickLoad /\ LOAD_REQUEST' = FALSE /\ UNCHANGED REQUEST

TakeRequest ==
    /\ cpuPc = "hook"
    /\ \/ /\ REQUEST # None \/ LOAD_REQUEST
          /\ \E r \in {REQUEST, QuickLoad} : Take(r) /\ job' = r
          /\ cpuPc' = "work"
       \/ /\ REQUEST = None /\ ~LOAD_REQUEST
          /\ cpuPc' = "run"
          /\ UNCHANGED <<mailVars, job>>
    /\ UNCHANGED <<flagVars, token, OP_STATE, seen, mainPc, ret, countVars, histVars>>

\* The save or load is done; op_finish_* and op_fail test the status ...
Perform ==
    /\ cpuPc = "work"
    /\ seen' = OP_STATE
    /\ cpuPc' = "report"
    /\ UNCHANGED <<flagVars, token, mailVars, OP_STATE, job, mainPc, ret, countVars, histVars>>

\* ... and store the result if it was armed.
Report ==
    /\ cpuPc = "report"
    /\ \/ /\ seen = OP_WORKING
          /\ OP_STATE' \in {OpDone(job), OP_FAILED}
          /\ answer' = job
       \/ /\ seen # OP_WORKING
          /\ UNCHANGED <<OP_STATE, answer>>
    /\ job' = None /\ seen' = OP_IDLE
    /\ cpuPc' = "run"
    /\ UNCHANGED <<flagVars, token, mailVars, mainPc, ret, countVars, armed, frozenThen, framesPaused>>

-----------------------------------------------------------------------------
(* The main thread.                                                        *)

Main(from, to) == mainPc = from /\ mainPc' = to

\* request_save_with_screenshot, request_load: a new request replaces one
\* still waiting.
Queue(kind, by) ==
    /\ issued < MaxRequests
    /\ issued' = issued + 1
    /\ REQUEST' = [kind |-> kind, by |-> by, game |-> game, id |-> issued + 1]

HotkeySave ==
    /\ Hotkeys /\ mainPc = "play" /\ Queue("save", "hotkey")
    /\ UNCHANGED <<flagVars, token, LOAD_REQUEST, OP_STATE, cpuVars, mainPc, ret, pauses, game, histVars>>

HotkeyLoad ==
    /\ Hotkeys /\ mainPc = "play"
    /\ LOAD_REQUEST' = TRUE
    /\ UNCHANGED <<flagVars, token, REQUEST, OP_STATE, cpuVars, mainPc, ret, countVars, histVars>>

Pause ==
    /\ Main("play", "menu") /\ pauses < MaxPauses
    /\ pauses' = pauses + 1
    /\ pause' = TRUE
    /\ framesPaused' = 0
    /\ UNCHANGED <<pause_step, quit, token, mailVars, OP_STATE, cpuVars, ret, issued, game,
                   armed, frozenThen, answer>>

\* Leave the menu without a request: resume, or quit to the game list or
\* altogether without autosave.
MenuLeave(r) ==
    /\ Main("menu", "settings")
    /\ ret' = r
    /\ UNCHANGED <<flagVars, token, mailVars, OP_STATE, cpuVars, countVars, histVars>>

\* Create, overwrite, load, or quit with autosave: arm the status ...
OpBegin(r) ==
    /\ Main("menu", "queue") /\ issued < MaxRequests
    /\ OP_STATE' = OP_WORKING
    /\ ret' = r
    /\ frozenThen' = (cpuPc \in {"gate", "ticket", "park"} /\ ~pause_step)
    /\ answer' = None
    /\ UNCHANGED <<flagVars, token, mailVars, cpuVars, countVars, armed, framesPaused>>

\* ... then queue the request.
MenuQueue(kind) ==
    /\ Main("queue", "settings")
    /\ ret # "resume" => kind = "save"
    /\ Queue(kind, "menu")
    /\ armed' = REQUEST'
    /\ UNCHANGED <<flagVars, token, LOAD_REQUEST, OP_STATE, cpuVars, ret, pauses, game,
                   frozenThen, answer, framesPaused>>

\* The cpu thread's settings are replaced; an armed op is then run.
Settings ==
    /\ Main("settings", IF OP_STATE # OP_IDLE THEN "ticket" ELSE "unpause")
    /\ UNCHANGED <<flagVars, token, mailVars, OP_STATE, cpuVars, ret, countVars, histVars>>

\* step_paused_frame: the ticket, then the unpark.
StepTicket ==
    /\ Main("ticket", "ticketUnpark")
    /\ pause_step' = TRUE
    /\ UNCHANGED <<pause, quit, token, mailVars, OP_STATE, cpuVars, ret, countVars, histVars>>

StepUnpark ==
    /\ Main("ticketUnpark", "poll")
    /\ token' = TRUE
    /\ UNCHANGED <<flagVars, mailVars, OP_STATE, cpuVars, ret, countVars, histVars>>

\* op_poll finds a terminal status, or the deadline has passed.
Poll ==
    /\ Main("poll", "clear")
    /\ OP_STATE # OP_WORKING \/ Deadlines
    /\ UNCHANGED <<flagVars, token, mailVars, OP_STATE, cpuVars, ret, countVars, histVars>>

OpClear ==
    /\ Main("clear", "unpause")
    /\ OP_STATE' = OP_IDLE
    /\ UNCHANGED <<flagVars, token, mailVars, cpuVars, ret, countVars, histVars>>

Unpause ==
    /\ Main("unpause", "unpark")
    /\ pause' = FALSE
    /\ UNCHANGED <<pause_step, quit, token, mailVars, OP_STATE, cpuVars, ret, countVars, histVars>>

Unparked == TRUE

Unpark ==
    /\ Main("unpark", IF ret = "resume" THEN "play" ELSE "teardown")
    /\ token' = Unparked
    /\ UNCHANGED <<flagVars, mailVars, OP_STATE, cpuVars, ret, countVars, histVars>>

\* The window is closed while the game runs: the last game.
WindowQuit ==
    /\ Main("play", "teardown")
    /\ ret' = "exit"
    /\ UNCHANGED <<flagVars, token, mailVars, OP_STATE, cpuVars, countVars, histVars>>

Teardown ==
    /\ Main("teardown", "teardownPause")
    /\ quit' = TRUE
    /\ UNCHANGED <<pause, pause_step, token, mailVars, OP_STATE, cpuVars, ret, countVars, histVars>>

TeardownUnpause ==
    /\ Main("teardownPause", "teardownUnpark")
    /\ pause' = FALSE
    /\ UNCHANGED <<pause_step, quit, token, mailVars, OP_STATE, cpuVars, ret, countVars, histVars>>

TeardownUnpark ==
    /\ Main("teardownUnpark", "join")
    /\ token' = TRUE
    /\ UNCHANGED <<flagVars, mailVars, OP_STATE, cpuVars, ret, countVars, histVars>>

Join ==
    /\ Main("join", "off") /\ cpuPc = "done"
    /\ UNCHANGED <<flagVars, token, mailVars, OP_STATE, cpuVars, ret, countVars, histVars>>

\* The next game: a new cpu thread and fresh flags; the mailbox and the
\* status are statics and stay as they are.
NewGame ==
    /\ Main("off", "play") /\ ret = "quit" /\ game < MaxGames
    /\ game' = game + 1
    /\ pause' = FALSE /\ pause_step' = FALSE /\ quit' = FALSE /\ token' = FALSE
    /\ cpuPc' = "run" /\ ret' = "resume"
    /\ UNCHANGED <<mailVars, OP_STATE, job, seen, issued, pauses, histVars>>

Terminated == mainPc = "off" /\ (ret = "exit" \/ game = MaxGames) /\ UNCHANGED vars

-----------------------------------------------------------------------------
Cpu ==
    RunFrame \/ CpuExit \/ GateTest \/ GateTicket \/ GatePark
        \/ TakeRequest \/ Perform \/ Report

\* What the main thread does without the player.
MainStep ==
    \/ \E kind \in {"save", "load"} : MenuQueue(kind)
    \/ Settings \/ StepTicket \/ StepUnpark \/ OpClear \/ Unpause \/ Unpark
    \/ Teardown \/ TeardownUnpause \/ TeardownUnpark \/ Join

Player ==
    \/ HotkeySave \/ HotkeyLoad \/ Pause \/ WindowQuit \/ NewGame
    \/ \E r \in {"resume", "quit", "exit"} : MenuLeave(r) \/ OpBegin(r)

Next == Cpu \/ AudioUnpark \/ MainStep \/ Poll \/ Player \/ Terminated

Spec == Init /\ [][Next]_vars

\* Both threads run; the deadline is not relied on.
FairSpec ==
    /\ Spec
    /\ WF_vars(Cpu) /\ WF_vars(MainStep)
    /\ WF_vars(Poll /\ OP_STATE # OP_WORKING)

-----------------------------------------------------------------------------
(* Properties.                                                             *)

\* A dialog opened over a cpu thread that the pause loop holds (no ticket left
\* from an earlier dialog) is ended by the report of its own request, not by
\* that of a hotkey's that was waiting.
OwnAnswer ==
    (mainPc = "clear" /\ frozenThen /\ answer # None) => answer.id = armed.id

\* The game never resumes behind the menu: besides the frame in flight when
\* it opened, it runs one frame per ticket, this dialog's and at most one left
\* over from an earlier dialog.
FrozenBehindMenu == mainPc # "play" /\ pause => framesPaused <= 3

\* While a dialog polls an armed status, what will end it is on its way: its
\* request waits with a ticket or at the hook, or a report that will find the
\* status armed is being made.
DialogServed ==
    mainPc = "poll" /\ OP_STATE = OP_WORKING =>
        \/ REQUEST # None /\ (pause_step \/ cpuPc = "hook")
        \/ cpuPc = "work" \/ (cpuPc = "report" /\ seen = OP_WORKING)

\* The cpu thread is parked without a token only behind the menu, and there
\* never while a dialog waits for it.
ParkedBehindMenu ==
    cpuPc = "park" /\ ~token =>
        /\ pause \/ mainPc = "unpark"
        /\ ~(mainPc = "poll" /\ OP_STATE = OP_WORKING)

\* Every dialog is answered without its deadline, and every teardown ends.
DialogAnswered == (mainPc = "poll") ~> (mainPc = "clear")
TeardownEnds == (mainPc = "teardown") ~> (mainPc = "off")

=============================================================================
