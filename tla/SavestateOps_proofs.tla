------------------------ MODULE SavestateOps_proofs ------------------------
(***************************************************************************)
(* Proofs about savestate requests and the pause menu: a dialog over a     *)
(* held cpu thread ends with its own report, and the game stays frozen     *)
(* behind the menu, for every number of requests, pauses and games, with   *)
(* and without hotkeys and expired deadlines.                              *)
(***************************************************************************)
EXTENDS SavestateOps, TLAPS

\* The main thread, from the menu that opens to the flag that is cleared.
Paused == {"menu", "queue", "settings", "ticket", "ticketUnpark", "poll", "clear", "unpause"}
Leaving == {"unpark", "teardown", "teardownPause", "teardownUnpark", "join", "off"}
Ending == {"teardownPause", "teardownUnpark", "join", "off"}

\* The pause loop, and the rest of the cpu thread's frame.
Loop == {"gate", "ticket", "park"}
Moving == {"run", "hook", "work", "report"}

TypeOK ==
    /\ pause \in BOOLEAN /\ pause_step \in BOOLEAN /\ quit \in BOOLEAN /\ token \in BOOLEAN
    /\ cpuPc \in Loop \cup Moving \cup {"done"}
    /\ mainPc \in {"play"} \cup Paused \cup Leaving
    /\ frozenThen \in BOOLEAN /\ framesPaused \in Nat

\* pause and quit are where the main thread has put them.
Flags ==
    /\ pause <=> mainPc \in Paused
    /\ quit => mainPc \in Ending

\* op_begin arms the status and op_clear disarms it.
Armed == OP_STATE = OP_WORKING =>
    mainPc \in {"queue", "settings", "ticket", "ticketUnpark", "poll", "clear"}

-----------------------------------------------------------------------------
(* The frames that can still begin behind the menu.                        *)

FrameLeft == IF cpuPc \in Moving THEN 1 ELSE 0
TicketLeft == IF pause_step THEN 1 ELSE 0
DialogLeft == IF mainPc \in {"menu", "queue", "settings", "ticket"} THEN 1 ELSE 0

\* One for the frame in flight, one for a ticket that is out and one for the
\* ticket of the dialog that may come.
Budget == pause => framesPaused + FrameLeft + TicketLeft + DialogLeft <= 3

-----------------------------------------------------------------------------
(* The request of a dialog over a held cpu thread.                         *)

Held == cpuPc \in Loop /\ ~pause_step

\* Where the dialog's request is while its status is armed: in the mailbox
\* until the cpu thread comes to its hook, then in its hands.
Waiting == REQUEST = armed /\ armed # None
InHand == cpuPc \in {"work", "report"} /\ job = armed /\ (cpuPc = "report" => seen = OP_WORKING)

Dialog ==
    frozenThen =>
        /\ mainPc = "queue" => Held /\ answer = None
        /\ mainPc # "queue" /\ answer # None => answer = armed
        /\ mainPc \in {"settings", "ticket"} /\ OP_STATE = OP_WORKING => Held /\ Waiting
        /\ mainPc \in {"ticketUnpark", "poll", "clear"} /\ OP_STATE = OP_WORKING =>
              (cpuPc \in Loop \cup {"hook"} /\ Waiting) \/ InHand
        /\ cpuPc = "report" /\ seen = OP_WORKING => job = armed

OpsInv == TypeOK /\ Flags /\ Armed /\ Budget /\ Dialog
-----------------------------------------------------------------------------
(* What a step keeps.                                                      *)

LEMMA TypeStep ==
    ASSUME TypeOK, [Next]_vars
    PROVE  TypeOK'
<1> USE DEF flagVars, mailVars, cpuVars, histVars, countVars
<1> USE DEF TypeOK, Paused, Leaving, Loop, Moving
<1>1. CASE RunFrame
  BY <1>1 DEF RunFrame, QuitSeen
<1>2. CASE CpuExit
  BY <1>2 DEF CpuExit, QuitSeen
<1>3. CASE GateTest
  BY <1>3 DEF GateTest, Gated
<1>4. CASE GateTicket
  BY <1>4 DEF GateTicket, TicketTested
<1>5. CASE GatePark
  BY <1>5 DEF GatePark
<1>6. CASE TakeRequest
  BY <1>6 DEF TakeRequest, Take, QuickLoad
<1>7. CASE Perform
  BY <1>7 DEF Perform
<1>8. CASE Report
  BY <1>8 DEF Report, OpDone
<1>9. CASE AudioUnpark
  BY <1>9 DEF AudioUnpark
<1>10. CASE \E kind \in {"save", "load"} : MenuQueue(kind)
  BY <1>10 DEF MenuQueue, Main, Queue
<1>11. CASE Settings
  BY <1>11 DEF Settings, Main
<1>12. CASE StepTicket
  BY <1>12 DEF StepTicket, Main
<1>13. CASE StepUnpark
  BY <1>13 DEF StepUnpark, Main
<1>14. CASE Poll
  BY <1>14 DEF Poll, Main
<1>15. CASE OpClear
  BY <1>15 DEF OpClear, Main
<1>16. CASE Unpause
  BY <1>16 DEF Unpause, Main
<1>17. CASE Unpark
  BY <1>17 DEF Unpark, Main, Unparked
<1>18. CASE Teardown
  BY <1>18 DEF Teardown, Main
<1>19. CASE TeardownUnpause
  BY <1>19 DEF TeardownUnpause, Main
<1>20. CASE TeardownUnpark
  BY <1>20 DEF TeardownUnpark, Main
<1>21. CASE Join
  BY <1>21 DEF Join, Main
<1>22. CASE HotkeySave
  BY <1>22 DEF HotkeySave, Queue
<1>23. CASE HotkeyLoad
  BY <1>23 DEF HotkeyLoad
<1>24. CASE Pause
  BY <1>24 DEF Pause, Main
<1>25. CASE WindowQuit
  BY <1>25 DEF WindowQuit, Main
<1>26. CASE NewGame
  BY <1>26 DEF NewGame, Main
<1>27. CASE \E r \in {"resume", "quit", "exit"} : MenuLeave(r)
  BY <1>27 DEF MenuLeave, Main
<1>28. CASE \E r \in {"resume", "quit", "exit"} : OpBegin(r)
  BY <1>28 DEF OpBegin, Main
<1>29. CASE UNCHANGED vars
  BY <1>29 DEF vars
<1> QED
  BY <1>1, <1>2, <1>3, <1>4, <1>5, <1>6, <1>7, <1>8, <1>9, <1>10, <1>11, <1>12, <1>13,
     <1>14, <1>15, <1>16, <1>17, <1>18, <1>19, <1>20, <1>21, <1>22, <1>23, <1>24,
     <1>25, <1>26, <1>27, <1>28, <1>29
  DEF Next, Cpu, MainStep, Player, Terminated

\* The menu sets pause, leaving it clears it, and only a teardown sets quit.
LEMMA FlagsStep ==
    ASSUME TypeOK, Flags, [Next]_vars
    PROVE  Flags'
<1> USE DEF flagVars, mailVars, cpuVars, histVars, countVars
<1> USE DEF TypeOK, Flags, Paused, Leaving, Ending
<1>1. CASE RunFrame
  BY <1>1 DEF RunFrame, QuitSeen
<1>2. CASE CpuExit
  BY <1>2 DEF CpuExit, QuitSeen
<1>3. CASE GateTest
  BY <1>3 DEF GateTest, Gated
<1>4. CASE GateTicket
  BY <1>4 DEF GateTicket, TicketTested
<1>5. CASE GatePark
  BY <1>5 DEF GatePark
<1>6. CASE TakeRequest
  BY <1>6 DEF TakeRequest, Take, QuickLoad
<1>7. CASE Perform
  BY <1>7 DEF Perform
<1>8. CASE Report
  BY <1>8 DEF Report, OpDone
<1>9. CASE AudioUnpark
  BY <1>9 DEF AudioUnpark
<1>10. CASE \E kind \in {"save", "load"} : MenuQueue(kind)
  BY <1>10 DEF MenuQueue, Main, Queue
<1>11. CASE Settings
  BY <1>11 DEF Settings, Main
<1>12. CASE StepTicket
  BY <1>12 DEF StepTicket, Main
<1>13. CASE StepUnpark
  BY <1>13 DEF StepUnpark, Main
<1>14. CASE Poll
  BY <1>14 DEF Poll, Main
<1>15. CASE OpClear
  BY <1>15 DEF OpClear, Main
<1>16. CASE Unpause
  BY <1>16 DEF Unpause, Main
<1>17. CASE Unpark
  BY <1>17 DEF Unpark, Main, Unparked
<1>18. CASE Teardown
  BY <1>18 DEF Teardown, Main
<1>19. CASE TeardownUnpause
  BY <1>19 DEF TeardownUnpause, Main
<1>20. CASE TeardownUnpark
  BY <1>20 DEF TeardownUnpark, Main
<1>21. CASE Join
  BY <1>21 DEF Join, Main
<1>22. CASE HotkeySave
  BY <1>22 DEF HotkeySave, Queue
<1>23. CASE HotkeyLoad
  BY <1>23 DEF HotkeyLoad
<1>24. CASE Pause
  BY <1>24 DEF Pause, Main
<1>25. CASE WindowQuit
  BY <1>25 DEF WindowQuit, Main
<1>26. CASE NewGame
  BY <1>26 DEF NewGame, Main
<1>27. CASE \E r \in {"resume", "quit", "exit"} : MenuLeave(r)
  BY <1>27 DEF MenuLeave, Main
<1>28. CASE \E r \in {"resume", "quit", "exit"} : OpBegin(r)
  BY <1>28 DEF OpBegin, Main
<1>29. CASE UNCHANGED vars
  BY <1>29 DEF vars
<1> QED
  BY <1>1, <1>2, <1>3, <1>4, <1>5, <1>6, <1>7, <1>8, <1>9, <1>10, <1>11, <1>12, <1>13,
     <1>14, <1>15, <1>16, <1>17, <1>18, <1>19, <1>20, <1>21, <1>22, <1>23, <1>24,
     <1>25, <1>26, <1>27, <1>28, <1>29
  DEF Next, Cpu, MainStep, Player, Terminated

\* Nothing but op_begin makes the status armed, and a dialog ends with op_clear.
LEMMA ArmedStep ==
    ASSUME Armed, [Next]_vars
    PROVE  Armed'
<1> USE DEF flagVars, mailVars, cpuVars, histVars, countVars
<1> USE DEF Armed, OP_WORKING, OP_FAILED, OP_IDLE
<1>1. CASE RunFrame
  BY <1>1 DEF RunFrame, QuitSeen
<1>2. CASE CpuExit
  BY <1>2 DEF CpuExit, QuitSeen
<1>3. CASE GateTest
  BY <1>3 DEF GateTest, Gated
<1>4. CASE GateTicket
  BY <1>4 DEF GateTicket, TicketTested
<1>5. CASE GatePark
  BY <1>5 DEF GatePark
<1>6. CASE TakeRequest
  BY <1>6 DEF TakeRequest, Take, QuickLoad
<1>7. CASE Perform
  BY <1>7 DEF Perform
<1>8. CASE Report
  BY <1>8 DEF Report, OpDone
<1>9. CASE AudioUnpark
  BY <1>9 DEF AudioUnpark
<1>10. CASE \E kind \in {"save", "load"} : MenuQueue(kind)
  BY <1>10 DEF MenuQueue, Main, Queue
<1>11. CASE Settings
  BY <1>11 DEF Settings, Main
<1>12. CASE StepTicket
  BY <1>12 DEF StepTicket, Main
<1>13. CASE StepUnpark
  BY <1>13 DEF StepUnpark, Main
<1>14. CASE Poll
  BY <1>14 DEF Poll, Main
<1>15. CASE OpClear
  BY <1>15 DEF OpClear, Main
<1>16. CASE Unpause
  BY <1>16 DEF Unpause, Main
<1>17. CASE Unpark
  BY <1>17 DEF Unpark, Main, Unparked
<1>18. CASE Teardown
  BY <1>18 DEF Teardown, Main
<1>19. CASE TeardownUnpause
  BY <1>19 DEF TeardownUnpause, Main
<1>20. CASE TeardownUnpark
  BY <1>20 DEF TeardownUnpark, Main
<1>21. CASE Join
  BY <1>21 DEF Join, Main
<1>22. CASE HotkeySave
  BY <1>22 DEF HotkeySave, Queue
<1>23. CASE HotkeyLoad
  BY <1>23 DEF HotkeyLoad
<1>24. CASE Pause
  BY <1>24 DEF Pause, Main
<1>25. CASE WindowQuit
  BY <1>25 DEF WindowQuit, Main
<1>26. CASE NewGame
  BY <1>26 DEF NewGame, Main
<1>27. CASE \E r \in {"resume", "quit", "exit"} : MenuLeave(r)
  BY <1>27 DEF MenuLeave, Main
<1>28. CASE \E r \in {"resume", "quit", "exit"} : OpBegin(r)
  BY <1>28 DEF OpBegin, Main
<1>29. CASE UNCHANGED vars
  BY <1>29 DEF vars
<1> QED
  BY <1>1, <1>2, <1>3, <1>4, <1>5, <1>6, <1>7, <1>8, <1>9, <1>10, <1>11, <1>12, <1>13,
     <1>14, <1>15, <1>16, <1>17, <1>18, <1>19, <1>20, <1>21, <1>22, <1>23, <1>24,
     <1>25, <1>26, <1>27, <1>28, <1>29
  DEF Next, Cpu, MainStep, Player, Terminated

\* Every frame behind the menu is paid for: the pause loop lets a frame pass only
\* for a ticket, and a ticket comes only from a dialog.
LEMMA BudgetStep ==
    ASSUME TypeOK, Flags, Budget, [Next]_vars
    PROVE  Budget'
<1> USE DEF flagVars, mailVars, cpuVars, histVars, countVars
<1> USE DEF TypeOK, Flags, Budget, FrameLeft, TicketLeft, DialogLeft, Paused, Loop, Moving
<1>1. CASE RunFrame
  BY <1>1 DEF RunFrame, QuitSeen
<1>2. CASE CpuExit
  BY <1>2 DEF CpuExit, QuitSeen
<1>3. CASE GateTest
  <2>1. pause => Gated
    BY DEF Gated, Flags, Paused, Ending
  <2> QED BY <1>3, <2>1 DEF GateTest
<1>4. CASE GateTicket
  BY <1>4 DEF GateTicket, TicketTested
<1>5. CASE GatePark
  BY <1>5 DEF GatePark
<1>6. CASE TakeRequest
  BY <1>6 DEF TakeRequest, Take, QuickLoad
<1>7. CASE Perform
  BY <1>7 DEF Perform
<1>8. CASE Report
  BY <1>8 DEF Report, OpDone
<1>9. CASE AudioUnpark
  BY <1>9 DEF AudioUnpark
<1>10. CASE \E kind \in {"save", "load"} : MenuQueue(kind)
  BY <1>10 DEF MenuQueue, Main, Queue
<1>11. CASE Settings
  BY <1>11 DEF Settings, Main
<1>12. CASE StepTicket
  BY <1>12 DEF StepTicket, Main
<1>13. CASE StepUnpark
  BY <1>13 DEF StepUnpark, Main
<1>14. CASE Poll
  BY <1>14 DEF Poll, Main
<1>15. CASE OpClear
  BY <1>15 DEF OpClear, Main
<1>16. CASE Unpause
  BY <1>16 DEF Unpause, Main
<1>17. CASE Unpark
  BY <1>17 DEF Unpark, Main, Unparked
<1>18. CASE Teardown
  BY <1>18 DEF Teardown, Main
<1>19. CASE TeardownUnpause
  BY <1>19 DEF TeardownUnpause, Main
<1>20. CASE TeardownUnpark
  BY <1>20 DEF TeardownUnpark, Main
<1>21. CASE Join
  BY <1>21 DEF Join, Main
<1>22. CASE HotkeySave
  BY <1>22 DEF HotkeySave, Queue
<1>23. CASE HotkeyLoad
  BY <1>23 DEF HotkeyLoad
<1>24. CASE Pause
  BY <1>24 DEF Pause, Main
<1>25. CASE WindowQuit
  BY <1>25 DEF WindowQuit, Main
<1>26. CASE NewGame
  BY <1>26 DEF NewGame, Main
<1>27. CASE \E r \in {"resume", "quit", "exit"} : MenuLeave(r)
  BY <1>27 DEF MenuLeave, Main
<1>28. CASE \E r \in {"resume", "quit", "exit"} : OpBegin(r)
  BY <1>28 DEF OpBegin, Main
<1>29. CASE UNCHANGED vars
  BY <1>29 DEF vars
<1> QED
  BY <1>1, <1>2, <1>3, <1>4, <1>5, <1>6, <1>7, <1>8, <1>9, <1>10, <1>11, <1>12, <1>13,
     <1>14, <1>15, <1>16, <1>17, <1>18, <1>19, <1>20, <1>21, <1>22, <1>23, <1>24,
     <1>25, <1>26, <1>27, <1>28, <1>29
  DEF Next, Cpu, MainStep, Player, Terminated

\* The cpu thread is held until the ticket, which is given after the request has
\* replaced whatever waited in the mailbox; the hook then takes that request
\* first, and nobody can queue another one before the dialog is over.
LEMMA DialogStep ==
    ASSUME OpsInv, [Next]_vars
    PROVE  Dialog'
<1> USE DEF flagVars, mailVars, cpuVars, histVars, countVars
<1> USE DEF OpsInv, TypeOK, Flags, Armed, Dialog, Held, Waiting, InHand, Paused, Loop, None,
            OP_WORKING, OP_FAILED, OP_IDLE
<1>1. CASE RunFrame
  BY <1>1 DEF RunFrame, QuitSeen
<1>2. CASE CpuExit
  BY <1>2 DEF CpuExit, QuitSeen
<1>3. CASE GateTest
  <2>1. pause => Gated
    BY DEF Gated, Flags, Paused, Ending
  <2> QED BY <1>3, <2>1 DEF GateTest
<1>4. CASE GateTicket
  BY <1>4 DEF GateTicket, TicketTested
<1>5. CASE GatePark
  BY <1>5 DEF GatePark
<1>6. CASE TakeRequest
  BY <1>6 DEF TakeRequest, Take, QuickLoad
<1>7. CASE Perform
  BY <1>7 DEF Perform
<1>8. CASE Report
  BY <1>8 DEF Report, OpDone
<1>9. CASE AudioUnpark
  BY <1>9 DEF AudioUnpark
<1>10. CASE \E kind \in {"save", "load"} : MenuQueue(kind)
  BY <1>10 DEF MenuQueue, Main, Queue
<1>11. CASE Settings
  BY <1>11 DEF Settings, Main
<1>12. CASE StepTicket
  BY <1>12 DEF StepTicket, Main
<1>13. CASE StepUnpark
  BY <1>13 DEF StepUnpark, Main
<1>14. CASE Poll
  BY <1>14 DEF Poll, Main
<1>15. CASE OpClear
  BY <1>15 DEF OpClear, Main
<1>16. CASE Unpause
  BY <1>16 DEF Unpause, Main
<1>17. CASE Unpark
  BY <1>17 DEF Unpark, Main, Unparked
<1>18. CASE Teardown
  BY <1>18 DEF Teardown, Main
<1>19. CASE TeardownUnpause
  BY <1>19 DEF TeardownUnpause, Main
<1>20. CASE TeardownUnpark
  BY <1>20 DEF TeardownUnpark, Main
<1>21. CASE Join
  BY <1>21 DEF Join, Main
<1>22. CASE HotkeySave
  BY <1>22 DEF HotkeySave, Queue
<1>23. CASE HotkeyLoad
  BY <1>23 DEF HotkeyLoad
<1>24. CASE Pause
  BY <1>24 DEF Pause, Main
<1>25. CASE WindowQuit
  BY <1>25 DEF WindowQuit, Main
<1>26. CASE NewGame
  BY <1>26 DEF NewGame, Main
<1>27. CASE \E r \in {"resume", "quit", "exit"} : MenuLeave(r)
  BY <1>27 DEF MenuLeave, Main
<1>28. CASE \E r \in {"resume", "quit", "exit"} : OpBegin(r)
  <2>1. PICK r \in {"resume", "quit", "exit"} : OpBegin(r)
    BY <1>28
  <2>2. frozenThen' => Held'
    BY <2>1 DEF OpBegin
  <2>3. mainPc' = "queue" /\ answer' = None /\ (Held' => cpuPc' # "report")
    BY <2>1 DEF OpBegin, Main
  <2> QED BY <2>2, <2>3
<1>29. CASE UNCHANGED vars
  BY <1>29 DEF vars
<1> QED
  BY <1>1, <1>2, <1>3, <1>4, <1>5, <1>6, <1>7, <1>8, <1>9, <1>10, <1>11, <1>12, <1>13,
     <1>14, <1>15, <1>16, <1>17, <1>18, <1>19, <1>20, <1>21, <1>22, <1>23, <1>24,
     <1>25, <1>26, <1>27, <1>28, <1>29
  DEF Next, Cpu, MainStep, Player, Terminated

-----------------------------------------------------------------------------
(* The theorems.                                                           *)

\* OpsInv is an invariant of the session.
THEOREM OpsInvariant == Spec => []OpsInv
<1>1. Init => OpsInv
  <2> SUFFICES ASSUME Init PROVE OpsInv
    OBVIOUS
  <2>1. /\ pause = FALSE /\ pause_step = FALSE /\ quit = FALSE /\ token = FALSE
        /\ OP_STATE = OP_IDLE /\ cpuPc = "run" /\ mainPc = "play"
        /\ frozenThen = FALSE /\ framesPaused = 0
    BY DEF Init
  <2>2. TypeOK
    BY <2>1 DEF TypeOK, Moving
  <2>3. Flags /\ Armed
    BY <2>1 DEF Flags, Armed, Paused, OP_IDLE, OP_WORKING
  <2>4. Budget /\ Dialog
    BY <2>1 DEF Budget, Dialog
  <2> QED BY <2>2, <2>3, <2>4 DEF OpsInv
<1>2. OpsInv /\ [Next]_vars => OpsInv'
  BY TypeStep, FlagsStep, ArmedStep, BudgetStep, DialogStep DEF OpsInv
<1> QED BY <1>1, <1>2, PTL DEF Spec

\* A dialog over a cpu thread that the pause loop holds is never ended by the
\* report of another request (savestate.rs op_begin, op_poll; lib.rs).
THEOREM DialogGetsItsAnswer == Spec => []OwnAnswer
<1>1. OpsInv => OwnAnswer
  BY DEF OpsInv, Dialog, OwnAnswer
<1> QED BY <1>1, OpsInvariant, PTL

\* The game does not resume behind the menu, however often the cpu thread is
\* unparked (the pause loop of gpu.rs, step_paused_frame).
THEOREM GameStaysFrozen == Spec => []FrozenBehindMenu
<1>1. OpsInv => FrozenBehindMenu
  BY DEF OpsInv, TypeOK, Budget, FrameLeft, TicketLeft, DialogLeft, FrozenBehindMenu
<1> QED BY <1>1, OpsInvariant, PTL

-----------------------------------------------------------------------------
(* Nobody is left parked.                                                  *)

\* A report that will find the status armed.
Answering == cpuPc = "work" \/ (cpuPc = "report" /\ seen = OP_WORKING)

\* From its arrival in the mailbox to its report, an armed request has what it
\* needs: the ticket is out before anyone waits for the answer, and a ticket
\* that is spent has brought the cpu thread to the hook.
Served ==
    OP_STATE = OP_WORKING =>
        /\ mainPc \in {"settings", "ticket"} => REQUEST # None \/ Answering
        /\ mainPc \in {"ticketUnpark", "poll", "clear"} =>
              (REQUEST # None /\ (pause_step \/ cpuPc = "hook")) \/ Answering
        /\ mainPc \in {"poll", "clear"} /\ cpuPc = "park" => token

\* Once the menu is left its unpark is not lost: a cpu thread on its way to
\* park finds the token.
Released ==
    mainPc \in {"play", "teardown", "teardownPause", "teardownUnpark", "join"} =>
        (cpuPc \in {"ticket", "park"} => token)

\* A thread that has ended has seen quit, and the next game is a new thread.
Ended ==
    /\ cpuPc = "done" => quit
    /\ mainPc = "off" => cpuPc = "done"

LiveInv == OpsInv /\ Served /\ Released /\ Ended

\* The ticket is given before the unpark, and both before the poll; an unpark
\* that finds the cpu thread on its way to park leaves the token.
LEMMA LiveStep ==
    ASSUME LiveInv, [Next]_vars
    PROVE  (Served /\ Released /\ Ended)'
<1> USE DEF flagVars, mailVars, cpuVars, histVars, countVars
<1> USE DEF LiveInv, OpsInv, TypeOK, Flags, Armed, Served, Released, Ended, Answering,
            Paused, Leaving, Loop, Moving, Ending, None, OP_WORKING, OP_FAILED, OP_IDLE
<1>1. CASE RunFrame
  BY <1>1 DEF RunFrame, QuitSeen
<1>2. CASE CpuExit
  BY <1>2 DEF CpuExit, QuitSeen
<1>3. CASE GateTest
  BY <1>3 DEF GateTest, Gated
<1>4. CASE GateTicket
  BY <1>4 DEF GateTicket, TicketTested
<1>5. CASE GatePark
  BY <1>5 DEF GatePark
<1>6. CASE TakeRequest
  BY <1>6 DEF TakeRequest, Take, QuickLoad
<1>7. CASE Perform
  BY <1>7 DEF Perform
<1>8. CASE Report
  BY <1>8 DEF Report, OpDone
<1>9. CASE AudioUnpark
  BY <1>9 DEF AudioUnpark
<1>10. CASE \E kind \in {"save", "load"} : MenuQueue(kind)
  BY <1>10 DEF MenuQueue, Main, Queue
<1>11. CASE Settings
  BY <1>11 DEF Settings, Main
<1>12. CASE StepTicket
  BY <1>12 DEF StepTicket, Main
<1>13. CASE StepUnpark
  BY <1>13 DEF StepUnpark, Main
<1>14. CASE Poll
  BY <1>14 DEF Poll, Main
<1>15. CASE OpClear
  BY <1>15 DEF OpClear, Main
<1>16. CASE Unpause
  BY <1>16 DEF Unpause, Main
<1>17. CASE Unpark
  BY <1>17 DEF Unpark, Main, Unparked
<1>18. CASE Teardown
  BY <1>18 DEF Teardown, Main
<1>19. CASE TeardownUnpause
  BY <1>19 DEF TeardownUnpause, Main
<1>20. CASE TeardownUnpark
  BY <1>20 DEF TeardownUnpark, Main
<1>21. CASE Join
  BY <1>21 DEF Join, Main
<1>22. CASE HotkeySave
  BY <1>22 DEF HotkeySave, Queue
<1>23. CASE HotkeyLoad
  BY <1>23 DEF HotkeyLoad
<1>24. CASE Pause
  BY <1>24 DEF Pause, Main
<1>25. CASE WindowQuit
  BY <1>25 DEF WindowQuit, Main
<1>26. CASE NewGame
  BY <1>26 DEF NewGame, Main
<1>27. CASE \E r \in {"resume", "quit", "exit"} : MenuLeave(r)
  BY <1>27 DEF MenuLeave, Main
<1>28. CASE \E r \in {"resume", "quit", "exit"} : OpBegin(r)
  BY <1>28 DEF OpBegin, Main
<1>29. CASE UNCHANGED vars
  BY <1>29 DEF vars
<1> QED
  BY <1>1, <1>2, <1>3, <1>4, <1>5, <1>6, <1>7, <1>8, <1>9, <1>10, <1>11, <1>12, <1>13,
     <1>14, <1>15, <1>16, <1>17, <1>18, <1>19, <1>20, <1>21, <1>22, <1>23, <1>24,
     <1>25, <1>26, <1>27, <1>28, <1>29
  DEF Next, Cpu, MainStep, Player, Terminated

\* LiveInv is an invariant of the session.
THEOREM LiveInvariant == Spec => []LiveInv
<1>1. Init => Served /\ Released /\ Ended
  BY DEF Init, Served, Released, Ended, OP_IDLE, OP_WORKING
<1>2. LiveInv /\ [Next]_vars => (Served /\ Released /\ Ended)'
  BY LiveStep
<1> QED BY <1>1, <1>2, OpsInvariant, PTL DEF Spec, LiveInv

\* A dialog that polls is never left without the request, the ticket or the
\* report that ends it (lib.rs, the loop over op_poll).
THEOREM DialogsServed == Spec => []DialogServed
<1>1. LiveInv => DialogServed
  BY DEF LiveInv, Served, Answering, DialogServed
<1> QED BY <1>1, LiveInvariant, PTL

\* The cpu thread is parked without a token only where the menu holds it: no
\* unpark is lost at a resume, a dialog's ticket or a teardown (gpu.rs pause
\* loop, lib.rs).
THEOREM ParkedOnlyBehindMenu == Spec => []ParkedBehindMenu
<1>1. LiveInv => ParkedBehindMenu
  BY DEF LiveInv, OpsInv, TypeOK, Flags, Served, Released, Ended, ParkedBehindMenu, Paused,
     Leaving
<1> QED BY <1>1, LiveInvariant, PTL

=============================================================================
