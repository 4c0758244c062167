----------------------------- MODULE BankedFile -----------------------------
(***************************************************************************)
(* What the mode registers of the guest CPU promise: one register file     *)
(* with a slot for each register of each bank.  A mode sees the slots of   *)
(* its own bank; only the fast-interrupt mode has high registers (r8-r12)  *)
(* of its own.  Changing the mode changes no slot.                         *)
(*                                                                         *)
(* The saved status of the interrupt mode is not part of this file: see    *)
(* SpsrKept in ThreadRegs.                                                 *)
(***************************************************************************)
CONSTANTS Hi, R12, St, Val, Psr, Mode, UserMode, Zero, ResetSt

VARIABLES
    mode,    \* the current mode
    hiFile,  \* bank of high registers -> register -> value
    stFile,  \* bank -> stack pointer and link register -> value
    psrFile, \* exception mode -> saved status
    read     \* the last value a user-bank transfer stored

fileVars == <<mode, hiFile, stFile, psrFile, read>>

HiBank == {"usr", "fiq"}
StBank == {"usr"} \cup (Mode \ UserMode)
PsrBank == Mode \ (UserMode \cup {"irq"})

HiOf(m) == IF m = "fiq" THEN "fiq" ELSE "usr"
StOf(m) == IF m \in UserMode THEN "usr" ELSE m

FileInit ==
    /\ mode \in UserMode
    /\ hiFile \in [HiBank -> [Hi -> Val]]
    /\ stFile \in [StBank -> [St -> Val]]
    /\ psrFile \in [PsrBank -> Psr]
    /\ read \in Val

PutHi(b, r, v) ==
    /\ hiFile' = [hiFile EXCEPT ![b] = [@ EXCEPT ![r] = v]]
    /\ UNCHANGED <<mode, stFile, psrFile, read>>

PutSt(b, r, v) ==
    /\ stFile' = [stFile EXCEPT ![b] = [@ EXCEPT ![r] = v]]
    /\ UNCHANGED <<mode, hiFile, psrFile, read>>

\* An instruction writes a register of the current mode, or of the user bank.
Write(v) ==
    \/ \E r \in Hi : PutHi(HiOf(mode), r, v) \/ PutHi("usr", r, v)
    \/ \E r \in St : PutSt(StOf(mode), r, v) \/ PutSt("usr", r, v)

\* An instruction stores a register of the user bank.
ReadUser ==
    /\ \/ \E r \in Hi : read' = hiFile["usr"][r]
       \/ \E r \in St : read' = stFile["usr"][r]
    /\ UNCHANGED <<mode, hiFile, stFile, psrFile>>

PutPsr(s) ==
    /\ mode \in PsrBank
    /\ psrFile' = [psrFile EXCEPT ![mode] = s]
    /\ UNCHANGED <<mode, hiFile, stFile, read>>

ChangeMode(m) == mode' = m /\ UNCHANGED <<hiFile, stFile, psrFile, read>>

\* An interrupt pushes on the interrupt mode's stack and sets its link register.
EnterIrq(s) ==
    /\ mode' = "irq" /\ stFile' = [stFile EXCEPT !["irq"] = s]
    /\ UNCHANGED <<hiFile, psrFile, read>>

\* The return pops r12 and the link register off that stack.
LeaveIrq(m, v, s) ==
    /\ mode = "irq" /\ mode' = m
    /\ hiFile' = [hiFile EXCEPT !["usr"] = [@ EXCEPT ![R12] = v]]
    /\ stFile' = [stFile EXCEPT !["irq"] = s]
    /\ UNCHANGED <<psrFile, read>>

\* The soft reset: the high registers in sight are cleared, and the user,
\* interrupt and supervisor banks get their start values, except for the bank
\* of the mode it was called in, whose own registers survive.
Reset ==
    /\ mode' = "sys"
    /\ hiFile' = [hiFile EXCEPT ![HiOf(mode)] = [r \in Hi |-> Zero]]
    /\ stFile' = [b \in StBank |->
           IF b \in DOMAIN ResetSt /\ b # StOf(mode) THEN ResetSt[b] ELSE stFile[b]]
    /\ psrFile' = IF mode = "svc" THEN psrFile ELSE [psrFile EXCEPT !["svc"] = "none"]
    /\ UNCHANGED read

FileNext ==
    \/ \E v \in Val : Write(v)
    \/ ReadUser
    \/ \E s \in Psr : PutPsr(s)
    \/ \E m \in Mode : ChangeMode(m)
    \/ \E s \in [St -> Val] : \/ EnterIrq(s)
                            \/ \E m \in Mode, v \in Val : LeaveIrq(m, v, s)
    \/ Reset

FileSpec == FileInit /\ [][FileNext]_fileVars
=============================================================================
