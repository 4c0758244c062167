----------------------------- MODULE ThreadRegs -----------------------------
(***************************************************************************)
(* The mode registers of the guest CPU (src/core/thread_regs.rs): the      *)
(* registers in sight, the stores of the other modes, and the mode switch  *)
(* that exchanges them.  The switch has two fast paths, between the user   *)
(* modes and the interrupt mode, which leave part of the exchange out.     *)
(*                                                                         *)
(* A status word is its mode; the flags ride along unexchanged.            *)
(***************************************************************************)
EXTENDS Integers

CONSTANTS
    Hi,       \* r8 to r12
    R12,
    St,       \* the stack pointer and the link register
    Val,      \* what a register holds
    Zero,
    ResetSt,  \* start values of the user, interrupt and supervisor banks
    Priv      \* the exception modes the guest uses

ASSUME RegAssumption ==
    /\ Zero \in Val /\ R12 \in Hi
    /\ ResetSt \in [{"usr", "irq", "svc"} -> [St -> Val]]
    /\ {"fiq", "irq", "svc"} \subseteq Priv
    /\ Priv \subseteq {"fiq", "irq", "svc", "abt", "und"}

UserMode == {"usr", "sys"}
Mode == UserMode \cup Priv
\* "none" is the status word 0 that no instruction has written.
Psr == Mode \cup {"none"}

VARIABLES
    regs,    \* ThreadRegs: the registers in sight and the stores of the modes
    read,    \* what the last store of a user-bank register wrote
    refSpsr, \* history: the saved status of the interrupt mode
    away,    \* history: where the CPU has been since it left that mode
    known    \* history: has it come back by a way that keeps refSpsr

vars == <<regs, read, refSpsr, away, known>>

Regs == [hi : [Hi -> Val], st : [St -> Val], spsr : Psr, cpsr : Mode,
         userHi : [Hi -> Val], userSt : [St -> Val], fiqHi : [Hi -> Val],
         bankSt : [Priv -> [St -> Val]], bankSpsr : [Priv -> Psr]]

\* run_cpu switches from the all-zero status to the system mode.
Init ==
    LET zeros == [r \in Hi |-> Zero] IN
    /\ regs = [hi |-> zeros, st |-> ResetSt["usr"], spsr |-> "none", cpsr |-> "sys",
               userHi |-> zeros, userSt |-> ResetSt["usr"], fiqHi |-> zeros,
               bankSt |-> [m \in Priv |-> IF m \in {"irq", "svc"} THEN ResetSt[m]
                                          ELSE [r \in St |-> Zero]],
               bankSpsr |-> [m \in Priv |-> "none"]]
    /\ read = Zero
    /\ refSpsr = "none" /\ away = {"user"} /\ known = TRUE

-----------------------------------------------------------------------------
\* The mode switch: from the registers R to the mode m.

\* Mutant: only the banked registers are stored.
StoreBanked(R) ==
    CASE R.cpsr \in UserMode -> [R EXCEPT !.userHi = R.hi, !.userSt = R.st]
      [] R.cpsr = "fiq" ->
           [R EXCEPT !.fiqHi = R.hi, !.bankSt["fiq"] = R.st, !.bankSpsr["fiq"] = R.spsr]
      [] OTHER -> [R EXCEPT !.bankSt[R.cpsr] = R.st, !.bankSpsr[R.cpsr] = R.spsr]

\* The first half of thread_set_cpsr_mode_slow: store by the old mode.
Store(R) ==
    CASE R.cpsr \in UserMode -> [R EXCEPT !.userHi = R.hi, !.userSt = R.st]
      [] R.cpsr = "fiq" ->
           [R EXCEPT !.fiqHi = R.hi, !.bankSt["fiq"] = R.st, !.bankSpsr["fiq"] = R.spsr]
      [] OTHER ->
           [R EXCEPT !.userHi = R.hi, !.bankSt[R.cpsr] = R.st, !.bankSpsr[R.cpsr] = R.spsr]

\* The second half: load by the new one.
Load(R, m) ==
    CASE m \in UserMode -> [R EXCEPT !.hi = R.userHi, !.st = R.userSt]
      [] m = "fiq" ->
           [R EXCEPT !.hi = R.fiqHi, !.st = R.bankSt["fiq"], !.spsr = R.bankSpsr["fiq"]]
      [] OTHER ->
           [R EXCEPT !.hi = R.userHi, !.st = R.bankSt[m], !.spsr = R.bankSpsr[m]]

\* Mutant: the way in loads what the way out did not store.
FastEnterSpsr(R) ==
    [R EXCEPT !.userSt = R.st, !.st = R.bankSt["irq"], !.spsr = R.bankSpsr["irq"]]

\* The fast paths.
FastEnter(R) == [R EXCEPT !.userSt = R.st, !.st = R.bankSt["irq"]]
FastLeave(R) == [R EXCEPT !.bankSt["irq"] = R.st, !.st = R.userSt]

\* thread_set_cpsr, up to the saved status.
Switch(R, m) ==
    LET S == CASE m = R.cpsr -> R
               [] m = "irq" /\ R.cpsr \in UserMode -> FastEnter(R)
               [] R.cpsr = "irq" /\ m \in UserMode -> FastLeave(R)
               [] OTHER -> Load(Store(R), m)
    IN  [S EXCEPT !.cpsr = m]

-----------------------------------------------------------------------------
\* The guest's instructions.

\* What the interrupt mode's saved status goes through on a switch to m.
Track(m) ==
    /\ away' = CASE m = "irq" -> {}
                 [] m \in UserMode -> away \cup {"user"}
                 [] OTHER -> away \cup {"priv"}
    /\ known' = (known /\ ~(m = "irq" /\ away = {"user", "priv"}))
    /\ UNCHANGED <<refSpsr, read>>

\* thread_set_cpsr_with_flags: msr.  The user mode cannot change its mode.
MsrCpsr(m) ==
    /\ regs.cpsr # "usr"
    /\ regs' = Switch(regs, m)
    /\ Track(m)

\* thread_restore_spsr.  A return through a saved status nothing was written
\* to is no guest's.
RestoreSpsr ==
    /\ regs.cpsr \notin UserMode /\ regs.spsr # "none"
    /\ regs' = Switch(regs, regs.spsr)
    /\ Track(regs.spsr)

\* bios::interrupt: thread_set_cpsr with `save`, then the push of r0-r3, r12
\* and the return address, and the link register that leads to uninterrupt.
Interrupt(s) ==
    /\ regs' = [Switch(regs, "irq") EXCEPT !.spsr = regs.cpsr, !.st = s]
    /\ refSpsr' = regs.cpsr /\ away' = {} /\ known' = TRUE
    /\ UNCHANGED read

\* bios::uninterrupt, reached through the interrupt mode's link register:
\* the pop of what interrupt pushed (v is r12), then the return.
Uninterrupt(v, s) ==
    /\ regs.cpsr = "irq" /\ regs.spsr # "none"
    /\ regs' = Switch([regs EXCEPT !.hi = [@ EXCEPT ![R12] = v], !.st = s], regs.spsr)
    /\ Track(regs.spsr)

\* thread_set_spsr_with_flags: asserted not to be in a user mode.
MsrSpsr(m) ==
    /\ regs.cpsr \notin UserMode
    /\ regs' = [regs EXCEPT !.spsr = m]
    /\ IF regs.cpsr = "irq" THEN refSpsr' = m /\ known' = TRUE
                            ELSE UNCHANGED <<refSpsr, known>>
    /\ UNCHANGED <<away, read>>

\* An instruction writes a register in sight (thread_get_reg_mut).
WriteHi(r, v) == regs' = [regs EXCEPT !.hi[r] = v] /\ UNCHANGED <<read, refSpsr, away, known>>
WriteSt(r, v) == regs' = [regs EXCEPT !.st[r] = v] /\ UNCHANGED <<read, refSpsr, away, known>>

\* ldm with the user bank (get_reg_usr_mut): r8-r12 are the user bank's own
\* store only in the fast-interrupt mode.
LoadUserHi(r, v) ==
    /\ IF regs.cpsr = "fiq" THEN regs' = [regs EXCEPT !.userHi[r] = v]
                            ELSE regs' = [regs EXCEPT !.hi[r] = v]
    /\ UNCHANGED <<read, refSpsr, away, known>>
LoadUserSt(r, v) ==
    /\ IF regs.cpsr \in UserMode THEN regs' = [regs EXCEPT !.st[r] = v]
                                 ELSE regs' = [regs EXCEPT !.userSt[r] = v]
    /\ UNCHANGED <<read, refSpsr, away, known>>

\* stm with the user bank.
UserHi(r) == IF regs.cpsr = "fiq" THEN regs.userHi[r] ELSE regs.hi[r]
UserSt(r) == IF regs.cpsr \in UserMode THEN regs.st[r] ELSE regs.userSt[r]
StoreUser ==
    /\ (\E r \in Hi : read' = UserHi(r)) \/ (\E r \in St : read' = UserSt(r))
    /\ UNCHANGED <<regs, refSpsr, away, known>>

\* bios::soft_reset: the stores are set, then the mode is switched.
SoftReset ==
    LET R == [regs EXCEPT !.userSt = ResetSt["usr"],
                          !.bankSt["irq"] = ResetSt["irq"], !.bankSt["svc"] = ResetSt["svc"],
                          !.bankSpsr["irq"] = "none", !.bankSpsr["svc"] = "none",
                          !.hi = [r \in Hi |-> Zero]]
    IN  /\ regs' = Switch(R, "sys")
        /\ away' = away \cup {"user", "priv"}
        /\ UNCHANGED <<read, refSpsr, known>>

Next ==
    \/ \E m \in Mode : MsrCpsr(m) \/ MsrSpsr(m)
    \/ RestoreSpsr \/ StoreUser \/ SoftReset
    \/ \E s \in [St -> Val] : Interrupt(s) \/ \E v \in Val : Uninterrupt(v, s)
    \/ \E r \in Hi, v \in Val : WriteHi(r, v) \/ LoadUserHi(r, v)
    \/ \E r \in St, v \in Val : WriteSt(r, v) \/ LoadUserSt(r, v)

Spec == Init /\ [][Next]_vars

-----------------------------------------------------------------------------
TypeOK ==
    /\ regs \in Regs /\ read \in Val
    /\ refSpsr \in Psr /\ away \subseteq {"user", "priv"} /\ known \in BOOLEAN

\* The saved status of the interrupt mode survives what the guest does in
\* between, as long as it does not visit both a user mode and another
\* exception mode before it comes back (thread_set_cpsr's fast paths leave
\* the saved status where it is, the slow path exchanges it).
SpsrKept == regs.cpsr = "irq" /\ known => regs.spsr = refSpsr

\* Where that status is while the CPU is elsewhere: still in sight after a
\* fast path out, in the store of its mode after a slow one.
SpsrPlace ==
    /\ regs.cpsr = "irq" => away = {}
    /\ regs.cpsr \in UserMode => "user" \in away
    /\ regs.cpsr \in Priv \ {"irq"} => "priv" \in away
    /\ known /\ away = {"user"} => regs.spsr = refSpsr
    /\ known /\ away = {"priv"} => regs.bankSpsr["irq"] = refSpsr

\* The slots of the register file, read off the registers R.
HiFile(R) ==
    [b \in {"usr", "fiq"} |->
       IF b = "fiq" THEN (IF R.cpsr = "fiq" THEN R.hi ELSE R.fiqHi)
                    ELSE (IF R.cpsr = "fiq" THEN R.userHi ELSE R.hi)]
StFile(R) ==
    [b \in {"usr"} \cup (Mode \ UserMode) |->
       IF b = "usr" THEN (IF R.cpsr \in UserMode THEN R.st ELSE R.userSt)
                    ELSE (IF R.cpsr = b THEN R.st ELSE R.bankSt[b])]
PsrFile(R) ==
    [b \in Mode \ (UserMode \cup {"irq"}) |->
       IF R.cpsr = b THEN R.spsr ELSE R.bankSpsr[b]]

\* The registers, whatever stores the fast paths leave behind, are a register
\* file with one slot per register and bank.
File == INSTANCE BankedFile WITH mode <- regs.cpsr, hiFile <- HiFile(regs),
                                 stFile <- StFile(regs), psrFile <- PsrFile(regs)
ImplementsBankedFile == File!FileSpec
=============================================================================
