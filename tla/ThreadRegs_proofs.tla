------------------------- MODULE ThreadRegs_proofs -------------------------
(***************************************************************************)
(* Proofs about the mode registers, for every set of registers, of values  *)
(* and of exception modes: the two halves of the slow switch and the two   *)
(* fast paths change the mode and no slot of the register file, so that    *)
(* the registers implement BankedFile.                                     *)
(***************************************************************************)
EXTENDS ThreadRegs, TLAPS

\* The paths of the switch, one equation each: thread_set_cpsr's choice.
LEMMA SwitchPaths ==
    ASSUME NEW R \in Regs, NEW m \in Mode
    PROVE  \/ m = R.cpsr /\ Switch(R, m) = R
           \/ /\ m = "irq" /\ R.cpsr \in UserMode
              /\ Switch(R, m) = [FastEnter(R) EXCEPT !.cpsr = m]
           \/ /\ R.cpsr = "irq" /\ m \in UserMode
              /\ Switch(R, m) = [FastLeave(R) EXCEPT !.cpsr = m]
           \/ /\ m # R.cpsr
              /\ Switch(R, m) = [Load(Store(R), m) EXCEPT !.cpsr = m]
<1>1. CASE m = R.cpsr
  BY <1>1, SMTT(30) DEF Switch, Regs
<1>2. CASE m # R.cpsr /\ m = "irq" /\ R.cpsr \in UserMode
  BY <1>2 DEF Switch, UserMode
<1>3. CASE m # R.cpsr /\ R.cpsr = "irq" /\ m \in UserMode
  BY <1>3 DEF Switch, UserMode
<1>4. CASE m # R.cpsr /\ ~(m = "irq" /\ R.cpsr \in UserMode) /\ ~(R.cpsr = "irq" /\ m \in UserMode)
  BY <1>4 DEF Switch, UserMode
<1>. QED  BY <1>1, <1>2, <1>3, <1>4

\* The first half of the slow path leaves every slot in its store.
LEMMA StoreFlushes ==
    ASSUME NEW R \in Regs
    PROVE  LET S == Store(R) IN
           /\ S \in Regs
           /\ S.userHi = HiFile(R)["usr"] /\ S.fiqHi = HiFile(R)["fiq"]
           /\ S.userSt = StFile(R)["usr"]
           /\ \A b \in Priv : S.bankSt[b] = StFile(R)[b]
           /\ \A b \in Priv \ {"irq"} : S.bankSpsr[b] = PsrFile(R)[b]
<1>. DEFINE S == Store(R)
<1>1. CASE R.cpsr \in UserMode
  <2>1. S = [R EXCEPT !.userHi = R.hi, !.userSt = R.st]
    BY <1>1 DEF Store, UserMode
  <2>2. S \in Regs
    BY <1>1, <2>1, RegAssumption DEF Regs
  <2>3. S.userHi = HiFile(R)["usr"] /\ S.fiqHi = HiFile(R)["fiq"]
    BY <1>1, <2>1, RegAssumption DEF HiFile, Regs, UserMode
  <2>4. S.userSt = StFile(R)["usr"] /\ \A b \in Priv : S.bankSt[b] = StFile(R)[b]
    BY <1>1, <2>1, RegAssumption DEF StFile, Regs, Mode, UserMode
  <2>5. \A b \in Priv \ {"irq"} : S.bankSpsr[b] = PsrFile(R)[b]
    BY <1>1, <2>1, RegAssumption DEF PsrFile, Regs, Mode, UserMode
  <2>. QED  BY <2>2, <2>3, <2>4, <2>5
<1>2. CASE R.cpsr = "fiq"
  <2>1. S = [R EXCEPT !.fiqHi = R.hi, !.bankSt["fiq"] = R.st, !.bankSpsr["fiq"] = R.spsr]
    BY <1>2 DEF Store, UserMode
  <2>2. S \in Regs
    <3>. DEFINE B == [R.bankSt EXCEPT !["fiq"] = R.st]
                P == [R.bankSpsr EXCEPT !["fiq"] = R.spsr]
    <3>1. S = [R EXCEPT !.fiqHi = R.hi, !.bankSt = B, !.bankSpsr = P]
      BY <2>1
    <3>2. B \in [Priv -> [St -> Val]] /\ P \in [Priv -> Psr]
      BY <1>2, RegAssumption DEF Regs
    <3>. HIDE DEF B, P, S
    <3>. QED  BY <3>1, <3>2 DEF Regs
  <2>3. S.userHi = HiFile(R)["usr"] /\ S.fiqHi = HiFile(R)["fiq"]
    BY <1>2, <2>1, RegAssumption DEF HiFile, Regs, UserMode
  <2>4. S.userSt = StFile(R)["usr"] /\ \A b \in Priv : S.bankSt[b] = StFile(R)[b]
    BY <1>2, <2>1, RegAssumption DEF StFile, Regs, Mode, UserMode
  <2>5. \A b \in Priv \ {"irq"} : S.bankSpsr[b] = PsrFile(R)[b]
    BY <1>2, <2>1, RegAssumption DEF PsrFile, Regs, Mode, UserMode
  <2>. QED  BY <2>2, <2>3, <2>4, <2>5
<1>3. CASE R.cpsr \in Priv \ {"fiq"}
  <2>1. S = [R EXCEPT !.userHi = R.hi, !.bankSt[R.cpsr] = R.st, !.bankSpsr[R.cpsr] = R.spsr]
    BY <1>3, RegAssumption DEF Store, UserMode
  <2>2. S \in Regs
    <3>. DEFINE B == [R.bankSt EXCEPT ![R.cpsr] = R.st]
                P == [R.bankSpsr EXCEPT ![R.cpsr] = R.spsr]
    <3>1. S = [R EXCEPT !.userHi = R.hi, !.bankSt = B, !.bankSpsr = P]
      BY <2>1
    <3>2. B \in [Priv -> [St -> Val]] /\ P \in [Priv -> Psr]
      BY <1>3, RegAssumption DEF Regs
    <3>. HIDE DEF B, P, S
    <3>. QED  BY <3>1, <3>2 DEF Regs
  <2>3. S.userHi = HiFile(R)["usr"] /\ S.fiqHi = HiFile(R)["fiq"]
    BY <1>3, <2>1, RegAssumption DEF HiFile, Regs, UserMode
  <2>4. S.userSt = StFile(R)["usr"] /\ \A b \in Priv : S.bankSt[b] = StFile(R)[b]
    <3>1. R.cpsr \notin UserMode /\ Mode \ UserMode = Priv /\ "usr" \notin Priv
      BY <1>3, RegAssumption DEF Mode, UserMode
    <3>2. S.userSt = R.userSt /\ S.bankSt = [R.bankSt EXCEPT ![R.cpsr] = R.st]
      BY <2>1 DEF Regs
    <3>. QED  BY <1>3, <3>1, <3>2 DEF StFile, Regs
  <2>5. \A b \in Priv \ {"irq"} : S.bankSpsr[b] = PsrFile(R)[b]
    BY <1>3, <2>1, RegAssumption DEF PsrFile, Regs, Mode, UserMode
  <2>. QED  BY <2>2, <2>3, <2>4, <2>5
<1>. QED  BY <1>1, <1>2, <1>3 DEF Regs, Mode

\* The second half takes the slots of the new mode from the stores.
LEMMA LoadReads ==
    ASSUME NEW S \in Regs, NEW m \in Mode
    PROVE  LET T == [Load(S, m) EXCEPT !.cpsr = m] IN
           /\ T \in Regs /\ T.cpsr = m
           /\ HiFile(T)["usr"] = S.userHi /\ HiFile(T)["fiq"] = S.fiqHi
           /\ StFile(T)["usr"] = S.userSt
           /\ \A b \in Priv : StFile(T)[b] = S.bankSt[b]
           /\ \A b \in Priv \ {"irq"} : PsrFile(T)[b] = S.bankSpsr[b]
<1>. DEFINE T == [Load(S, m) EXCEPT !.cpsr = m]
<1>1. CASE m \in UserMode
  <2>1. T = [S EXCEPT !.hi = S.userHi, !.st = S.userSt, !.cpsr = m]
    BY <1>1, RegAssumption DEF Load, UserMode, Regs
  <2>2. T \in Regs /\ T.cpsr = m
    BY <1>1, <2>1, RegAssumption DEF Regs, Mode
  <2>3. HiFile(T)["usr"] = S.userHi /\ HiFile(T)["fiq"] = S.fiqHi
    BY <1>1, <2>1, RegAssumption DEF HiFile, Regs, UserMode
  <2>4. StFile(T)["usr"] = S.userSt /\ \A b \in Priv : StFile(T)[b] = S.bankSt[b]
    BY <1>1, <2>1, RegAssumption DEF StFile, Regs, Mode, UserMode
  <2>5. \A b \in Priv \ {"irq"} : PsrFile(T)[b] = S.bankSpsr[b]
    BY <1>1, <2>1, RegAssumption DEF PsrFile, Regs, Mode, UserMode
  <2>. QED  BY <2>2, <2>3, <2>4, <2>5
<1>2. CASE m = "fiq"
  <2>1. T = [S EXCEPT !.hi = S.fiqHi, !.st = S.bankSt["fiq"], !.spsr = S.bankSpsr["fiq"], !.cpsr = m]
    BY <1>2, RegAssumption DEF Load, UserMode, Regs
  <2>2. T \in Regs /\ T.cpsr = m
    <3>1. /\ "fiq" \in Priv /\ m \in Mode
          /\ S.bankSt["fiq"] \in [St -> Val] /\ S.bankSpsr["fiq"] \in Psr
      BY <1>2, RegAssumption DEF Regs, Mode
    <3>. QED  BY <2>1, <3>1 DEF Regs
  <2>3. HiFile(T)["usr"] = S.userHi /\ HiFile(T)["fiq"] = S.fiqHi
    BY <1>2, <2>1, RegAssumption DEF HiFile, Regs, UserMode
  <2>4. StFile(T)["usr"] = S.userSt /\ \A b \in Priv : StFile(T)[b] = S.bankSt[b]
    BY <1>2, <2>1, RegAssumption DEF StFile, Regs, Mode, UserMode
  <2>5. \A b \in Priv \ {"irq"} : PsrFile(T)[b] = S.bankSpsr[b]
    BY <1>2, <2>1, RegAssumption DEF PsrFile, Regs, Mode, UserMode
  <2>. QED  BY <2>2, <2>3, <2>4, <2>5
<1>3. CASE m \in Priv \ {"fiq"}
  <2>1. T = [S EXCEPT !.hi = S.userHi, !.st = S.bankSt[m], !.spsr = S.bankSpsr[m], !.cpsr = m]
    BY <1>3, RegAssumption DEF Load, UserMode, Regs
  <2>2. T \in Regs /\ T.cpsr = m
    BY <1>3, <2>1, RegAssumption DEF Regs, Mode
  <2>3. HiFile(T)["usr"] = S.userHi /\ HiFile(T)["fiq"] = S.fiqHi
    BY <1>3, <2>1, RegAssumption DEF HiFile, Regs, UserMode
  <2>4. StFile(T)["usr"] = S.userSt /\ \A b \in Priv : StFile(T)[b] = S.bankSt[b]
    BY <1>3, <2>1, RegAssumption DEF StFile, Regs, Mode, UserMode
  <2>5. \A b \in Priv \ {"irq"} : PsrFile(T)[b] = S.bankSpsr[b]
    BY <1>3, <2>1, RegAssumption DEF PsrFile, Regs, Mode, UserMode
  <2>. QED  BY <2>2, <2>3, <2>4, <2>5
<1>. QED  BY <1>1, <1>2, <1>3 DEF Mode

\* A register file is determined by its slots.
LEMMA FileEqual ==
    ASSUME NEW R \in Regs, NEW T \in Regs,
           HiFile(T)["usr"] = HiFile(R)["usr"], HiFile(T)["fiq"] = HiFile(R)["fiq"],
           StFile(T)["usr"] = StFile(R)["usr"],
           \A b \in Priv : StFile(T)[b] = StFile(R)[b],
           \A b \in Priv \ {"irq"} : PsrFile(T)[b] = PsrFile(R)[b]
    PROVE  HiFile(T) = HiFile(R) /\ StFile(T) = StFile(R) /\ PsrFile(T) = PsrFile(R)
<1>1. HiFile(T) = HiFile(R)
  <2>1. \A b \in {"usr", "fiq"} : HiFile(T)[b] = HiFile(R)[b]
    OBVIOUS
  <2>. QED  BY <2>1 DEF HiFile
<1>2. StFile(T) = StFile(R)
  <2>1. \A b \in {"usr"} \cup (Mode \ UserMode) : StFile(T)[b] = StFile(R)[b]
    BY DEF Mode
  <2>. QED  BY <2>1 DEF StFile
<1>3. PsrFile(T) = PsrFile(R)
  <2>1. \A b \in Mode \ (UserMode \cup {"irq"}) : PsrFile(T)[b] = PsrFile(R)[b]
    BY DEF Mode
  <2>. QED  BY <2>1 DEF PsrFile
<1>. QED  BY <1>1, <1>2, <1>3

\* The mode switch changes the mode and nothing else of the register file,
\* whichever path thread_set_cpsr takes.
LEMMA SwitchKeepsFile ==
    ASSUME NEW R \in Regs, NEW m \in Mode
    PROVE  LET T == Switch(R, m) IN
           /\ T \in Regs /\ T.cpsr = m
           /\ HiFile(T) = HiFile(R) /\ StFile(T) = StFile(R) /\ PsrFile(T) = PsrFile(R)
<1>. DEFINE T == Switch(R, m)
<1>1. CASE T = R /\ m = R.cpsr
  BY <1>1
<1>2. CASE m = "irq" /\ R.cpsr \in UserMode /\ T = [FastEnter(R) EXCEPT !.cpsr = m]
  <2>1. T = [R EXCEPT !.userSt = R.st, !.st = R.bankSt["irq"], !.cpsr = m]
    BY <1>2, RegAssumption DEF FastEnter, FastLeave, UserMode, Regs
  <2>2. T \in Regs /\ T.cpsr = m
    <3>1. R.bankSt["irq"] \in [St -> Val]
      BY RegAssumption DEF Regs
    <3>. HIDE DEF T
    <3>. QED  BY <2>1, <3>1 DEF Regs
  <2>3. HiFile(T)["usr"] = HiFile(R)["usr"] /\ HiFile(T)["fiq"] = HiFile(R)["fiq"]
    BY <1>2, <2>1, RegAssumption DEF HiFile, Regs, UserMode
  <2>4. StFile(T)["usr"] = StFile(R)["usr"] /\ \A b \in Priv : StFile(T)[b] = StFile(R)[b]
    <3>1. "irq" \notin UserMode /\ Mode \ UserMode = Priv /\ "usr" \notin Priv
      BY RegAssumption DEF Mode, UserMode
    <3>2. T.userSt = R.st /\ T.bankSt = R.bankSt /\ T.st = R.bankSt["irq"]
      BY <2>1 DEF Regs
    <3>. HIDE DEF T
    <3>. QED  BY <1>2, <2>2, <3>1, <3>2 DEF StFile, Regs
  <2>5. \A b \in Priv \ {"irq"} : PsrFile(T)[b] = PsrFile(R)[b]
    BY <1>2, <2>1, RegAssumption DEF PsrFile, Regs, Mode, UserMode
  <2>6. HiFile(T) = HiFile(R) /\ StFile(T) = StFile(R) /\ PsrFile(T) = PsrFile(R)
    <3>. HIDE DEF T
    <3>. QED  BY <2>2, <2>3, <2>4, <2>5, FileEqual
  <2>. QED  BY <2>2, <2>6
<1>3. CASE R.cpsr = "irq" /\ m \in UserMode /\ T = [FastLeave(R) EXCEPT !.cpsr = m]
  <2>1. T = [R EXCEPT !.bankSt["irq"] = R.st, !.st = R.userSt, !.cpsr = m]
    BY <1>3, RegAssumption DEF FastEnter, FastLeave, UserMode, Regs
  <2>2. T \in Regs /\ T.cpsr = m
    <3>. DEFINE B == [R.bankSt EXCEPT !["irq"] = R.st]
    <3>1. T = [R EXCEPT !.bankSt = B, !.st = R.userSt, !.cpsr = m]
      BY <2>1
    <3>2. B \in [Priv -> [St -> Val]]
      BY RegAssumption DEF Regs
    <3>. HIDE DEF B, T
    <3>. QED  BY <3>1, <3>2 DEF Regs
  <2>3. HiFile(T)["usr"] = HiFile(R)["usr"] /\ HiFile(T)["fiq"] = HiFile(R)["fiq"]
    BY <1>3, <2>1, RegAssumption DEF HiFile, Regs, UserMode
  <2>4. StFile(T)["usr"] = StFile(R)["usr"] /\ \A b \in Priv : StFile(T)[b] = StFile(R)[b]
    <3>1. "irq" \notin UserMode /\ Mode \ UserMode = Priv /\ "usr" \notin Priv
      BY RegAssumption DEF Mode, UserMode
    <3>2. T.userSt = R.userSt /\ T.bankSt = [R.bankSt EXCEPT !["irq"] = R.st] /\ T.st = R.userSt
      BY <2>1 DEF Regs
    <3>. HIDE DEF T
    <3>. QED  BY <1>3, <2>2, <3>1, <3>2 DEF StFile, Regs
  <2>5. \A b \in Priv \ {"irq"} : PsrFile(T)[b] = PsrFile(R)[b]
    BY <1>3, <2>1, RegAssumption DEF PsrFile, Regs, Mode, UserMode
  <2>6. HiFile(T) = HiFile(R) /\ StFile(T) = StFile(R) /\ PsrFile(T) = PsrFile(R)
    <3>. HIDE DEF T
    <3>. QED  BY <2>2, <2>3, <2>4, <2>5, FileEqual
  <2>. QED  BY <2>2, <2>6
<1>4. CASE T = [Load(Store(R), m) EXCEPT !.cpsr = m]
  <2>. DEFINE S == Store(R)
  <2>1. /\ S \in Regs
        /\ S.userHi = HiFile(R)["usr"] /\ S.fiqHi = HiFile(R)["fiq"]
        /\ S.userSt = StFile(R)["usr"]
        /\ \A b \in Priv : S.bankSt[b] = StFile(R)[b]
        /\ \A b \in Priv \ {"irq"} : S.bankSpsr[b] = PsrFile(R)[b]
    BY StoreFlushes
  <2>2. T = [Load(S, m) EXCEPT !.cpsr = m]
    BY <1>4
  <2>. HIDE DEF S
  <2>3. /\ T \in Regs /\ T.cpsr = m
        /\ HiFile(T)["usr"] = S.userHi /\ HiFile(T)["fiq"] = S.fiqHi
        /\ StFile(T)["usr"] = S.userSt
        /\ \A b \in Priv : StFile(T)[b] = S.bankSt[b]
        /\ \A b \in Priv \ {"irq"} : PsrFile(T)[b] = S.bankSpsr[b]
    BY <2>1, <2>2, LoadReads
  <2>4. HiFile(T) = HiFile(R) /\ StFile(T) = StFile(R) /\ PsrFile(T) = PsrFile(R)
    <3>. HIDE DEF T
    <3>. QED  BY <2>1, <2>3, FileEqual
  <2>. QED  BY <2>3, <2>4
<1>. QED  BY <1>1, <1>2, <1>3, <1>4, SwitchPaths

\* An exception mode's saved status goes to its own store.
LEMMA StorePriv ==
    ASSUME NEW R \in Regs, R.cpsr \in Priv
    PROVE  Store(R).bankSpsr = [R.bankSpsr EXCEPT ![R.cpsr] = R.spsr]
<1>1. CASE R.cpsr = "fiq"
  <2>1. Store(R) = [R EXCEPT !.fiqHi = R.hi, !.bankSt["fiq"] = R.st, !.bankSpsr["fiq"] = R.spsr]
    BY <1>1 DEF Store, UserMode
  <2>. QED  BY <1>1, <2>1 DEF Regs
<1>2. CASE R.cpsr # "fiq"
  <2>1. Store(R) = [R EXCEPT !.userHi = R.hi, !.bankSt[R.cpsr] = R.st,
                             !.bankSpsr[R.cpsr] = R.spsr]
    BY <1>2, RegAssumption DEF Store, UserMode
  <2>. QED  BY <2>1 DEF Regs
<1>. QED  BY <1>1, <1>2

\* Where the switch leaves the saved status of the interrupt mode: in sight
\* between that mode and the user modes, in its store elsewhere.
LEMMA SwitchSpsr ==
    ASSUME NEW R \in Regs, NEW m \in Mode
    PROVE  LET T == Switch(R, m) IN
           /\ R.cpsr \in UserMode \cup {"irq"} /\ m \in UserMode \cup {"irq"} => T.spsr = R.spsr
           /\ R.cpsr \in Priv \ {"irq"} /\ m \in Priv \ {"irq"}
                => T.bankSpsr["irq"] = R.bankSpsr["irq"]
           /\ R.cpsr = "irq" /\ m \in Priv \ {"irq"} => T.bankSpsr["irq"] = R.spsr
           /\ R.cpsr \in Priv \ {"irq"} /\ m = "irq" => T.spsr = R.bankSpsr["irq"]
<1>. DEFINE T == Switch(R, m)
<1>0. "irq" \in Priv /\ Priv \cap UserMode = {}
  BY RegAssumption DEF UserMode
<1>1. ASSUME R.cpsr \in UserMode \cup {"irq"}, m \in UserMode \cup {"irq"}
      PROVE  T.spsr = R.spsr
  <2>1. CASE m = R.cpsr \/ R.cpsr = "irq" \/ m = "irq"
    BY <1>1, <2>1 DEF Switch, FastEnter, FastLeave, UserMode, Regs
  <2>2. CASE m # R.cpsr /\ R.cpsr \in UserMode /\ m \in UserMode
    <3>1. T = [[[R EXCEPT !.userHi = R.hi, !.userSt = R.st]
                  EXCEPT !.hi = Store(R).userHi, !.st = Store(R).userSt] EXCEPT !.cpsr = m]
      BY <2>2 DEF Switch, Store, Load, UserMode
    <3>. QED  BY <3>1 DEF Regs
  <2>. QED  BY <1>1, <2>1, <2>2
<1>2. ASSUME R.cpsr \in Priv \ {"irq"}, m \in Priv \ {"irq"}
      PROVE  T.bankSpsr["irq"] = R.bankSpsr["irq"]
  <2>1. CASE m = R.cpsr
    BY <1>2, <1>0, <2>1 DEF Switch, Regs
  <2>2. CASE m # R.cpsr
    <3>1. T = [Load(Store(R), m) EXCEPT !.cpsr = m]
      BY <1>2, <1>0, <2>2 DEF Switch, UserMode
    <3>2. Store(R) \in Regs /\ Store(R).bankSpsr = [R.bankSpsr EXCEPT ![R.cpsr] = R.spsr]
      BY <1>2, StoreFlushes, StorePriv
    <3>3. T.bankSpsr = Store(R).bankSpsr
      BY <1>2, <1>0, <3>1, <3>2 DEF Load, Regs
    <3>4. R.bankSpsr \in [Priv -> Psr]
      BY DEF Regs
    <3>. HIDE DEF T
    <3>. QED  BY <1>0, <1>2, <3>2, <3>3, <3>4
  <2>. QED  BY <2>1, <2>2
<1>3. ASSUME R.cpsr = "irq", m \in Priv \ {"irq"}
      PROVE  T.bankSpsr["irq"] = R.spsr
  <2>1. T = [Load(Store(R), m) EXCEPT !.cpsr = m]
    BY <1>3, <1>0 DEF Switch, UserMode
  <2>2. Store(R) \in Regs /\ Store(R).bankSpsr = [R.bankSpsr EXCEPT !["irq"] = R.spsr]
    BY <1>3, <1>0, StoreFlushes, StorePriv
  <2>3. T.bankSpsr = Store(R).bankSpsr
    BY <1>3, <1>0, <2>1, <2>2 DEF Load, Regs
  <2>. QED  BY <1>0, <2>2, <2>3 DEF Regs
<1>4. ASSUME R.cpsr \in Priv \ {"irq"}, m = "irq"
      PROVE  T.spsr = R.bankSpsr["irq"]
  <2>1. T = [Load(Store(R), m) EXCEPT !.cpsr = m]
    BY <1>4, <1>0 DEF Switch, UserMode
  <2>2. Store(R) \in Regs /\ Store(R).bankSpsr = [R.bankSpsr EXCEPT ![R.cpsr] = R.spsr]
    BY <1>4, StoreFlushes, StorePriv
  <2>3. T.spsr = Store(R).bankSpsr["irq"]
    BY <1>4, <1>0, <2>1, <2>2 DEF Load, Regs
  <2>. QED  BY <1>0, <1>4, <2>2, <2>3 DEF Regs
<1>. QED  BY <1>1, <1>2, <1>3, <1>4

-----------------------------------------------------------------------------
\* The inductive invariant: SpsrKept speaks of the interrupt mode only, and
\* needs to know where its saved status waits while the CPU is elsewhere.
IInv == TypeOK /\ SpsrKept /\ SpsrPlace

\* The registers run_cpu leaves satisfy the invariant.
LEMMA InitIInv ==
    ASSUME Init
    PROVE  IInv
<1>1. regs \in Regs
  <2>1. [r \in Hi |-> Zero] \in [Hi -> Val] /\ ResetSt["usr"] \in [St -> Val]
    BY RegAssumption
  <2>2. [m \in Priv |-> IF m \in {"irq", "svc"} THEN ResetSt[m] ELSE [r \in St |-> Zero]]
          \in [Priv -> [St -> Val]]
    BY RegAssumption
  <2>3. [m \in Priv |-> "none"] \in [Priv -> Psr] /\ "sys" \in Mode /\ "none" \in Psr
    BY DEF Psr, Mode, UserMode
  <2>. QED  BY <2>1, <2>2, <2>3 DEF Init, Regs
<1>2. regs.cpsr = "sys" /\ regs.spsr = "none" /\ refSpsr = "none" /\ away = {"user"}
      /\ known = TRUE /\ read = Zero
  BY DEF Init
<1>. QED  BY <1>1, <1>2, RegAssumption DEF IInv, TypeOK, SpsrKept, SpsrPlace, UserMode, Psr

\* A switch keeps the invariant, from registers that differ from the current
\* ones in nothing the invariant speaks of: msr, and the ways to return.
LEMMA SwitchIInv ==
    ASSUME IInv, NEW m \in Mode, Track(m),
           NEW R \in Regs, R.cpsr = regs.cpsr, R.spsr = regs.spsr, R.bankSpsr = regs.bankSpsr,
           regs' = Switch(R, m)
    PROVE  IInv'
<1>. DEFINE T == Switch(R, m)
<1>0. "irq" \in Priv /\ Priv \cap UserMode = {} /\ Mode = UserMode \cup Priv
  BY RegAssumption DEF UserMode, Mode
<1>1. regs \in Regs /\ regs.cpsr \in Mode
  BY DEF IInv, TypeOK, Regs
<1>2. T \in Regs /\ T.cpsr = m
  BY SwitchKeepsFile
<1>3. /\ regs.cpsr \in UserMode \cup {"irq"} /\ m \in UserMode \cup {"irq"} => T.spsr = regs.spsr
      /\ regs.cpsr \in Priv \ {"irq"} /\ m \in Priv \ {"irq"}
           => T.bankSpsr["irq"] = regs.bankSpsr["irq"]
      /\ regs.cpsr = "irq" /\ m \in Priv \ {"irq"} => T.bankSpsr["irq"] = regs.spsr
      /\ regs.cpsr \in Priv \ {"irq"} /\ m = "irq" => T.spsr = regs.bankSpsr["irq"]
  <2>1. /\ R.cpsr \in UserMode \cup {"irq"} /\ m \in UserMode \cup {"irq"} => T.spsr = R.spsr
        /\ R.cpsr \in Priv \ {"irq"} /\ m \in Priv \ {"irq"}
             => T.bankSpsr["irq"] = R.bankSpsr["irq"]
        /\ R.cpsr = "irq" /\ m \in Priv \ {"irq"} => T.bankSpsr["irq"] = R.spsr
        /\ R.cpsr \in Priv \ {"irq"} /\ m = "irq" => T.spsr = R.bankSpsr["irq"]
    BY SwitchSpsr
  <2>. HIDE DEF T
  <2>. QED  BY <2>1
<1>4. regs' = T
  OBVIOUS
<1>. HIDE DEF T
<1>5. TypeOK'
  BY <1>2, <1>4 DEF IInv, TypeOK, Track
<1>6. CASE m = "irq"
  <2>1. away' = {} /\ known' = (known /\ ~(away = {"user", "priv"})) /\ refSpsr' = refSpsr
    BY <1>6 DEF Track, UserMode
  <2>2. CASE regs.cpsr = "irq"
    BY <1>0, <1>2, <1>3, <1>4, <1>5, <1>6, <2>1, <2>2 DEF IInv, SpsrKept, SpsrPlace
  <2>3. CASE regs.cpsr \in UserMode
    <3>1. away = {"user"} \/ away = {"user", "priv"}
      BY <2>3 DEF IInv, TypeOK, SpsrPlace
    <3>. QED  BY <1>0, <1>2, <1>3, <1>4, <1>5, <1>6, <2>1, <2>3, <3>1 DEF IInv, SpsrKept, SpsrPlace
  <2>4. CASE regs.cpsr \in Priv \ {"irq"}
    <3>1. away = {"priv"} \/ away = {"user", "priv"}
      BY <2>4 DEF IInv, TypeOK, SpsrPlace
    <3>. QED  BY <1>0, <1>2, <1>3, <1>4, <1>5, <1>6, <2>1, <2>4, <3>1 DEF IInv, SpsrKept, SpsrPlace
  <2>. QED  BY <1>0, <1>1, <2>2, <2>3, <2>4
<1>7. CASE m \in UserMode
  <2>1. away' = away \cup {"user"} /\ known' = known /\ refSpsr' = refSpsr /\ m # "irq"
    BY <1>0, <1>7 DEF Track, IInv, TypeOK, UserMode
  <2>2. known /\ away \cup {"user"} = {"user"} => T.spsr = refSpsr
    <3>1. CASE regs.cpsr = "irq"
      BY <1>3, <1>7, <3>1 DEF IInv, SpsrKept
    <3>2. CASE regs.cpsr \in UserMode
      <4>1. away \cup {"user"} = away
        BY <3>2 DEF IInv, SpsrPlace
      <4>. QED  BY <1>3, <1>7, <3>2, <4>1 DEF IInv, SpsrPlace
    <3>3. CASE regs.cpsr \in Priv \ {"irq"}
      BY <3>3 DEF IInv, SpsrPlace
    <3>. QED  BY <1>0, <1>1, <3>1, <3>2, <3>3
  <2>. QED  BY <1>0, <1>2, <1>4, <1>5, <1>7, <2>1, <2>2 DEF IInv, SpsrKept, SpsrPlace
<1>8. CASE m \in Priv \ {"irq"}
  <2>1. away' = away \cup {"priv"} /\ known' = known /\ refSpsr' = refSpsr
    BY <1>0, <1>8 DEF Track, IInv, TypeOK
  <2>2. known /\ away \cup {"priv"} = {"priv"} => T.bankSpsr["irq"] = refSpsr
    <3>1. CASE regs.cpsr = "irq"
      BY <1>3, <1>8, <3>1 DEF IInv, SpsrKept
    <3>2. CASE regs.cpsr \in Priv \ {"irq"}
      <4>1. away \cup {"priv"} = away
        BY <3>2 DEF IInv, SpsrPlace
      <4>. QED  BY <1>3, <1>8, <3>2, <4>1 DEF IInv, SpsrPlace
    <3>3. CASE regs.cpsr \in UserMode
      BY <3>3 DEF IInv, SpsrPlace
    <3>. QED  BY <1>0, <1>1, <3>1, <3>2, <3>3
  <2>. QED  BY <1>0, <1>2, <1>4, <1>5, <1>8, <2>1, <2>2 DEF IInv, SpsrKept, SpsrPlace
<1>. QED  BY <1>0, <1>6, <1>7, <1>8

\* What uninterrupt pops leaves well-formed registers.
LEMMA PopType ==
    ASSUME NEW v \in Val, NEW s \in [St -> Val], regs \in Regs
    PROVE  LET R == [regs EXCEPT !.hi = [@ EXCEPT ![R12] = v], !.st = s] IN
           /\ R \in Regs /\ R.hi = [regs.hi EXCEPT ![R12] = v] /\ R.st = s
           /\ R.cpsr = regs.cpsr /\ R.spsr = regs.spsr /\ R.userHi = regs.userHi
           /\ R.userSt = regs.userSt /\ R.fiqHi = regs.fiqHi
           /\ R.bankSt = regs.bankSt /\ R.bankSpsr = regs.bankSpsr
<1>. DEFINE H == [regs.hi EXCEPT ![R12] = v]
            R == [regs EXCEPT !.hi = H, !.st = s]
<1>1. H \in [Hi -> Val]
  BY RegAssumption DEF Regs
<1>2. /\ R \in Regs /\ R.hi = H /\ R.st = s
      /\ R.cpsr = regs.cpsr /\ R.spsr = regs.spsr /\ R.userHi = regs.userHi
      /\ R.userSt = regs.userSt /\ R.fiqHi = regs.fiqHi
      /\ R.bankSt = regs.bankSt /\ R.bankSpsr = regs.bankSpsr
  <2>. HIDE DEF H
  <2>. QED  BY <1>1 DEF Regs
<1>. QED  BY <1>2

\* The return of uninterrupt is a switch from registers with r12, the stack
\* pointer and the link register popped.
LEMMA UninterruptIInv ==
    ASSUME IInv, NEW v \in Val, NEW s \in [St -> Val], Uninterrupt(v, s)
    PROVE  IInv'
<1>. DEFINE R == [regs EXCEPT !.hi = [@ EXCEPT ![R12] = v], !.st = s]
<1>1. regs \in Regs /\ regs.spsr \in Mode
  BY DEF Uninterrupt, IInv, TypeOK, Regs, Psr
<1>2. R \in Regs /\ R.cpsr = regs.cpsr /\ R.spsr = regs.spsr /\ R.bankSpsr = regs.bankSpsr
  BY <1>1, PopType
<1>3. regs' = Switch(R, regs.spsr) /\ Track(regs.spsr)
  BY DEF Uninterrupt
<1>. HIDE DEF R
<1>. QED  BY <1>1, <1>2, <1>3, SwitchIInv

\* The soft reset switches to the system mode from registers that differ.
LEMMA SoftResetIInv ==
    ASSUME IInv, SoftReset
    PROVE  IInv'
<1>. DEFINE B == [[regs.bankSt EXCEPT !["irq"] = ResetSt["irq"]] EXCEPT !["svc"] = ResetSt["svc"]]
            P == [[regs.bankSpsr EXCEPT !["irq"] = "none"] EXCEPT !["svc"] = "none"]
            R == [regs EXCEPT !.userSt = ResetSt["usr"], !.bankSt = B, !.bankSpsr = P,
                              !.hi = [r \in Hi |-> Zero]]
<1>1. regs' = Switch(R, "sys") /\ away' = away \cup {"user", "priv"}
      /\ UNCHANGED <<read, refSpsr, known>>
  BY DEF SoftReset
<1>2. regs \in Regs
  BY DEF IInv, TypeOK
<1>3. B \in [Priv -> [St -> Val]] /\ P \in [Priv -> Psr]
  BY <1>2, RegAssumption DEF Regs, Psr
<1>4. ResetSt["usr"] \in [St -> Val] /\ [r \in Hi |-> Zero] \in [Hi -> Val]
  BY RegAssumption
<1>5. R \in Regs
  <2>. HIDE DEF B, P
  <2>. QED  BY <1>2, <1>3, <1>4 DEF Regs
<1>. HIDE DEF R
<1>6. regs' \in Regs /\ regs'.cpsr = "sys"
  BY <1>1, <1>5, SwitchKeepsFile DEF Mode, UserMode
<1>7. away' = {"user", "priv"}
  BY <1>1 DEF IInv, TypeOK
<1>. QED  BY <1>1, <1>6, <1>7, RegAssumption DEF IInv, TypeOK, SpsrKept, SpsrPlace, UserMode

\* Every instruction, interrupt, return and reset keeps the invariant.
LEMMA NextIInv ==
    ASSUME IInv, [Next]_vars
    PROVE  IInv'
<1>0. regs \in Regs /\ "irq" \in Priv /\ Priv \cap UserMode = {} /\ Mode = UserMode \cup Priv
  BY RegAssumption DEF IInv, TypeOK, UserMode, Mode
<1>1. ASSUME NEW m \in Mode, MsrCpsr(m)
      PROVE  IInv'
  BY <1>0, <1>1, SwitchIInv DEF MsrCpsr
<1>2. CASE RestoreSpsr
  <2>1. regs.spsr \in Mode
    BY <1>0, <1>2 DEF RestoreSpsr, Regs, Psr
  <2>. QED  BY <1>0, <1>2, <2>1, SwitchIInv DEF RestoreSpsr
<1>3. ASSUME NEW s \in [St -> Val], Interrupt(s)
      PROVE  IInv'
  <2>. DEFINE T == Switch(regs, "irq")
  <2>1. T \in Regs /\ T.cpsr = "irq"
    BY <1>0, SwitchKeepsFile
  <2>2. regs' = [T EXCEPT !.spsr = regs.cpsr, !.st = s] /\ refSpsr' = regs.cpsr /\ away' = {}
        /\ known' = TRUE /\ read' = read
    BY <1>3 DEF Interrupt
  <2>. HIDE DEF T
  <2>3. regs' \in Regs /\ regs'.cpsr = "irq" /\ regs'.spsr = regs.cpsr /\ regs.cpsr \in Psr
    BY <1>0, <1>3, <2>1, <2>2 DEF Regs, Psr
  <2>. QED  BY <1>0, <2>2, <2>3 DEF IInv, TypeOK, SpsrKept, SpsrPlace
<1>10. ASSUME NEW v \in Val, NEW s \in [St -> Val], Uninterrupt(v, s)
       PROVE  IInv'
  BY <1>10, UninterruptIInv
<1>4. ASSUME NEW m \in Mode, MsrSpsr(m)
      PROVE  IInv'
  <2>1. regs' = [regs EXCEPT !.spsr = m] /\ away' = away /\ read' = read
        /\ regs.cpsr \notin UserMode
    BY <1>4 DEF MsrSpsr
  <2>2. regs' \in Regs /\ regs'.spsr = m /\ regs'.cpsr = regs.cpsr
        /\ regs'.bankSpsr = regs.bankSpsr /\ m \in Psr
    BY <1>0, <2>1 DEF Regs, Psr
  <2>3. CASE regs.cpsr = "irq"
    <3>1. refSpsr' = m /\ known' = TRUE
      BY <1>4, <2>3 DEF MsrSpsr
    <3>. QED  BY <1>0, <2>1, <2>2, <2>3, <3>1 DEF IInv, TypeOK, SpsrKept, SpsrPlace
  <2>4. CASE regs.cpsr # "irq"
    <3>1. refSpsr' = refSpsr /\ known' = known
      BY <1>4, <2>4 DEF MsrSpsr
    <3>2. "priv" \in away
      BY <1>0, <2>1, <2>4 DEF IInv, SpsrPlace, Regs
    <3>. QED  BY <1>0, <2>1, <2>2, <2>4, <3>1, <3>2 DEF IInv, TypeOK, SpsrKept, SpsrPlace
  <2>. QED  BY <2>3, <2>4
<1>5. CASE StoreUser
  <2>1. read' \in Val
    BY <1>0, <1>5 DEF StoreUser, UserHi, UserSt, Regs
  <2>. QED  BY <1>5, <2>1 DEF StoreUser, IInv, TypeOK, SpsrKept, SpsrPlace
<1>6. CASE SoftReset
  BY <1>6, SoftResetIInv
<1>7. ASSUME NEW r \in Hi, NEW v \in Val, WriteHi(r, v) \/ LoadUserHi(r, v)
      PROVE  IInv'
  <2>1. \/ regs' = [regs EXCEPT !.hi = [@ EXCEPT ![r] = v]]
        \/ regs' = [regs EXCEPT !.userHi = [@ EXCEPT ![r] = v]]
    BY <1>7 DEF WriteHi, LoadUserHi
  <2>2. [regs.hi EXCEPT ![r] = v] \in [Hi -> Val] /\ [regs.userHi EXCEPT ![r] = v] \in [Hi -> Val]
    BY <1>0, <1>7 DEF Regs
  <2>3. regs' \in Regs /\ regs'.cpsr = regs.cpsr /\ regs'.spsr = regs.spsr
        /\ regs'.bankSpsr = regs.bankSpsr
    BY <1>0, <2>1, <2>2 DEF Regs
  <2>4. UNCHANGED <<read, refSpsr, away, known>>
    BY <1>7 DEF WriteHi, LoadUserHi
  <2>. QED  BY <2>3, <2>4 DEF IInv, TypeOK, SpsrKept, SpsrPlace
<1>8. ASSUME NEW r \in St, NEW v \in Val, WriteSt(r, v) \/ LoadUserSt(r, v)
      PROVE  IInv'
  <2>1. \/ regs' = [regs EXCEPT !.st = [@ EXCEPT ![r] = v]]
        \/ regs' = [regs EXCEPT !.userSt = [@ EXCEPT ![r] = v]]
    BY <1>8 DEF WriteSt, LoadUserSt
  <2>2. [regs.st EXCEPT ![r] = v] \in [St -> Val] /\ [regs.userSt EXCEPT ![r] = v] \in [St -> Val]
    BY <1>0, <1>8 DEF Regs
  <2>3. regs' \in Regs /\ regs'.cpsr = regs.cpsr /\ regs'.spsr = regs.spsr
        /\ regs'.bankSpsr = regs.bankSpsr
    BY <1>0, <2>1, <2>2 DEF Regs
  <2>4. UNCHANGED <<read, refSpsr, away, known>>
    BY <1>8 DEF WriteSt, LoadUserSt
  <2>. QED  BY <2>3, <2>4 DEF IInv, TypeOK, SpsrKept, SpsrPlace
<1>9. CASE UNCHANGED vars
  BY <1>9 DEF vars, IInv, TypeOK, SpsrKept, SpsrPlace
<1>. QED  BY <1>1, <1>2, <1>3, <1>4, <1>5, <1>6, <1>7, <1>8, <1>9, <1>10 DEF Next

\* The registers keep their types, and the saved status of the interrupt mode
\* is where SpsrPlace says, whatever the guest does.
THEOREM RegsInvariant == Spec => []IInv
<1>1. Init => IInv
  BY InitIInv
<1>2. IInv /\ [Next]_vars => IInv'
  BY NextIInv
<1>. QED  BY <1>1, <1>2, PTL DEF Spec

\* thread_set_cpsr's fast paths and slow path together keep the saved status
\* of the interrupt mode across a visit to the user modes, and across a visit
\* to the other exception modes.
THEOREM SavedStatusKept == Spec => []SpsrKept
<1>1. IInv => SpsrKept
  BY DEF IInv
<1>. QED  BY <1>1, RegsInvariant, PTL

-----------------------------------------------------------------------------
\* The registers as a file: types of the slots.
LEMMA FileType ==
    ASSUME NEW R \in Regs
    PROVE  /\ HiFile(R) \in [{"usr", "fiq"} -> [Hi -> Val]]
           /\ StFile(R) \in [{"usr"} \cup (Mode \ UserMode) -> [St -> Val]]
           /\ PsrFile(R) \in [Mode \ (UserMode \cup {"irq"}) -> Psr]
<1>1. HiFile(R) \in [{"usr", "fiq"} -> [Hi -> Val]]
  BY DEF HiFile, Regs
<1>2. StFile(R) \in [{"usr"} \cup (Mode \ UserMode) -> [St -> Val]]
  BY DEF StFile, Regs, Mode
<1>3. PsrFile(R) \in [Mode \ (UserMode \cup {"irq"}) -> Psr]
  BY DEF PsrFile, Regs, Mode
<1>. QED  BY <1>1, <1>2, <1>3

\* The registers run_cpu leaves are a file in the system mode.
LEMMA InitFile ==
    ASSUME Init
    PROVE  File!FileInit
<1>1. IInv
  BY InitIInv
<1>2. regs \in Regs /\ read \in Val /\ regs.cpsr = "sys"
  BY <1>1 DEF IInv, TypeOK, Init
<1>. QED  BY <1>2, FileType DEF File!FileInit, File!HiBank, File!StBank, File!PsrBank, UserMode

\* A switch is a change of mode.
LEMMA SwitchFile ==
    ASSUME IInv, NEW m \in Mode, regs' = Switch(regs, m), read' = read
    PROVE  File!FileNext
<1>1. regs \in Regs
  BY DEF IInv, TypeOK
<1>2. /\ regs'.cpsr = m /\ HiFile(regs') = HiFile(regs)
      /\ StFile(regs') = StFile(regs) /\ PsrFile(regs') = PsrFile(regs)
  BY <1>1, SwitchKeepsFile
<1>3. File!ChangeMode(m)
  BY <1>2 DEF File!ChangeMode
<1>. QED  BY <1>3 DEF File!FileNext

\* The interrupt's saved status is no slot of the file; what it pushes goes
\* to the interrupt mode's bank.
LEMMA InterruptFile ==
    ASSUME IInv, NEW s \in [St -> Val], Interrupt(s)
    PROVE  File!FileNext
<1>. DEFINE T == Switch(regs, "irq")
<1>1. regs \in Regs /\ "irq" \in Mode \ UserMode
  BY RegAssumption DEF IInv, TypeOK, Mode, UserMode
<1>2. /\ T \in Regs /\ T.cpsr = "irq" /\ HiFile(T) = HiFile(regs)
      /\ StFile(T) = StFile(regs) /\ PsrFile(T) = PsrFile(regs)
  BY <1>1, SwitchKeepsFile
<1>3. regs' = [T EXCEPT !.spsr = regs.cpsr, !.st = s] /\ read' = read
  BY DEF Interrupt
<1>. HIDE DEF T
<1>4. /\ regs'.cpsr = "irq" /\ regs'.hi = T.hi /\ regs'.st = s /\ regs'.userHi = T.userHi
      /\ regs'.userSt = T.userSt /\ regs'.fiqHi = T.fiqHi /\ regs'.bankSt = T.bankSt
      /\ regs'.bankSpsr = T.bankSpsr
  BY <1>2, <1>3 DEF Regs
<1>5. HiFile(regs') = HiFile(T)
  BY <1>2, <1>4 DEF HiFile
<1>6. PsrFile(regs') = PsrFile(T)
  BY <1>2, <1>4 DEF PsrFile
<1>7. StFile(regs') = [StFile(T) EXCEPT !["irq"] = s]
  BY <1>1, <1>2, <1>4 DEF StFile
<1>8. File!EnterIrq(s)
  BY <1>2, <1>3, <1>4, <1>5, <1>6, <1>7 DEF File!EnterIrq
<1>. QED  BY <1>8 DEF File!FileNext

\* What uninterrupt pops goes to the shared r12 and to the interrupt bank.
LEMMA UninterruptFile ==
    ASSUME IInv, NEW v \in Val, NEW s \in [St -> Val], Uninterrupt(v, s)
    PROVE  File!FileNext
<1>. DEFINE R == [regs EXCEPT !.hi = [@ EXCEPT ![R12] = v], !.st = s]
            m == regs.spsr
            T == Switch(R, m)
<1>1. regs \in Regs /\ m \in Mode /\ regs.cpsr = "irq" /\ "irq" \in Mode \ UserMode
  BY RegAssumption DEF Uninterrupt, IInv, TypeOK, Regs, Psr, Mode, UserMode
<1>2. /\ R \in Regs /\ R.hi = [regs.hi EXCEPT ![R12] = v] /\ R.st = s
      /\ R.cpsr = regs.cpsr /\ R.spsr = regs.spsr /\ R.userHi = regs.userHi
      /\ R.userSt = regs.userSt /\ R.fiqHi = regs.fiqHi
      /\ R.bankSt = regs.bankSt /\ R.bankSpsr = regs.bankSpsr
  BY <1>1, PopType
<1>3. regs' = T /\ read' = read
  BY DEF Uninterrupt, Track
<1>. HIDE DEF R
<1>4. /\ T.cpsr = m /\ HiFile(T) = HiFile(R)
      /\ StFile(T) = StFile(R) /\ PsrFile(T) = PsrFile(R)
  BY <1>1, <1>2, SwitchKeepsFile
<1>. HIDE DEF T
<1>5. HiFile(R) = [HiFile(regs) EXCEPT !["usr"] = [@ EXCEPT ![R12] = v]]
  <2>1. HiFile(regs)["usr"] = regs.hi
    BY <1>1 DEF HiFile
  <2>2. HiFile(R) = [HiFile(regs) EXCEPT !["usr"] = R.hi]
    BY <1>1, <1>2 DEF HiFile
  <2>. QED  BY <1>2, <2>1, <2>2
<1>6. StFile(R) = [StFile(regs) EXCEPT !["irq"] = s]
  BY <1>1, <1>2 DEF StFile
<1>7. PsrFile(R) = PsrFile(regs)
  BY <1>1, <1>2 DEF PsrFile
<1>8. File!LeaveIrq(m, v, s)
  BY <1>1, <1>3, <1>4, <1>5, <1>6, <1>7 DEF File!LeaveIrq
<1>. QED  BY <1>1, <1>8 DEF File!FileNext

\* thread_set_spsr_with_flags writes the slot of the current exception mode,
\* or the interrupt mode's status, which is no slot.
LEMMA MsrSpsrFile ==
    ASSUME IInv, NEW m \in Mode, MsrSpsr(m)
    PROVE  File!FileNext \/ UNCHANGED File!fileVars
<1>1. regs \in Regs /\ regs.cpsr \in Mode \ UserMode /\ m \in Psr
  BY DEF IInv, TypeOK, MsrSpsr, Regs, Psr
<1>2. regs' = [regs EXCEPT !.spsr = m] /\ read' = read
  BY DEF MsrSpsr
<1>3. /\ regs'.cpsr = regs.cpsr /\ regs'.hi = regs.hi /\ regs'.st = regs.st
      /\ regs'.userHi = regs.userHi /\ regs'.userSt = regs.userSt /\ regs'.fiqHi = regs.fiqHi
      /\ regs'.bankSt = regs.bankSt /\ regs'.bankSpsr = regs.bankSpsr /\ regs'.spsr = m
  BY <1>1, <1>2 DEF Regs
<1>4. HiFile(regs') = HiFile(regs) /\ StFile(regs') = StFile(regs)
  BY <1>3 DEF HiFile, StFile
<1>5. CASE regs.cpsr = "irq"
  <2>1. PsrFile(regs') = PsrFile(regs)
    BY <1>3, <1>5 DEF PsrFile
  <2>. QED  BY <1>2, <1>3, <1>4, <2>1 DEF File!fileVars
<1>6. CASE regs.cpsr # "irq"
  <2>1. PsrFile(regs') = [PsrFile(regs) EXCEPT ![regs.cpsr] = m]
    BY <1>1, <1>3, <1>6 DEF PsrFile
  <2>2. File!PutPsr(m)
    BY <1>1, <1>2, <1>3, <1>4, <1>6, <2>1 DEF File!PutPsr, File!PsrBank
  <2>. QED  BY <1>1, <2>2 DEF File!FileNext
<1>. QED  BY <1>5, <1>6

\* stm with the user bank reads the user slot, in every mode.
LEMMA StoreUserFile ==
    ASSUME IInv, StoreUser
    PROVE  File!FileNext
<1>1. HiFile(regs)["usr"] = IF regs.cpsr = "fiq" THEN regs.userHi ELSE regs.hi
  BY DEF HiFile
<1>2. StFile(regs)["usr"] = IF regs.cpsr \in UserMode THEN regs.st ELSE regs.userSt
  BY DEF StFile
<1>3. /\ \A r \in Hi : UserHi(r) = HiFile(regs)["usr"][r]
      /\ \A r \in St : UserSt(r) = StFile(regs)["usr"][r]
  BY <1>1, <1>2 DEF UserHi, UserSt
<1>4. regs' = regs /\ ((\E r \in Hi : read' = UserHi(r)) \/ (\E r \in St : read' = UserSt(r)))
  BY DEF StoreUser
<1>5. HiFile(regs') = HiFile(regs) /\ StFile(regs') = StFile(regs)
      /\ PsrFile(regs') = PsrFile(regs) /\ regs'.cpsr = regs.cpsr
  BY <1>4
<1>6. File!ReadUser
  BY <1>3, <1>4, <1>5 DEF File!ReadUser
<1>. QED  BY <1>6 DEF File!FileNext

\* A write of r8-r12, in sight or through the user bank, is a write of one slot.
LEMMA HiWriteFile ==
    ASSUME IInv, NEW r \in Hi, NEW v \in Val, WriteHi(r, v) \/ LoadUserHi(r, v)
    PROVE  File!FileNext
<1>1. regs \in Regs /\ regs.cpsr \in Mode
  BY DEF IInv, TypeOK, Regs
<1>2. CASE /\ regs' = [regs EXCEPT !.hi = [@ EXCEPT ![r] = v]] /\ read' = read
           /\ WriteHi(r, v) \/ ~(regs.cpsr = "fiq")
  <2>. DEFINE b == File!HiOf(regs.cpsr)
  <2>1. /\ regs'.hi = [regs.hi EXCEPT ![r] = v]
        /\ regs'.cpsr = regs.cpsr /\ regs'.spsr = regs.spsr /\ regs'.st = regs.st
        /\ regs'.userHi = regs.userHi /\ regs'.userSt = regs.userSt /\ regs'.fiqHi = regs.fiqHi
        /\ regs'.bankSt = regs.bankSt /\ regs'.bankSpsr = regs.bankSpsr
    BY <1>1, <1>2 DEF Regs
  <2>2. HiFile(regs') = [HiFile(regs) EXCEPT ![b] = [@ EXCEPT ![r] = v]]
    BY <1>1, <2>1, RegAssumption DEF HiFile, File!HiOf, UserMode, Mode
  <2>3. StFile(regs') = StFile(regs) /\ PsrFile(regs') = PsrFile(regs)
    BY <2>1 DEF StFile, PsrFile
  <2>4. File!PutHi(b, r, v)
    BY <1>2, <2>1, <2>2, <2>3 DEF File!PutHi
  <2>. QED  BY <2>4 DEF File!FileNext, File!Write
<1>3. CASE regs' = [regs EXCEPT !.userHi = [@ EXCEPT ![r] = v]] /\ read' = read /\ regs.cpsr = "fiq"
  <2>1. /\ regs'.userHi = [regs.userHi EXCEPT ![r] = v]
        /\ regs'.cpsr = regs.cpsr /\ regs'.spsr = regs.spsr /\ regs'.hi = regs.hi
        /\ regs'.st = regs.st /\ regs'.userSt = regs.userSt /\ regs'.fiqHi = regs.fiqHi
        /\ regs'.bankSt = regs.bankSt /\ regs'.bankSpsr = regs.bankSpsr
    BY <1>1, <1>3 DEF Regs
  <2>2. HiFile(regs') = [HiFile(regs) EXCEPT !["usr"] = [@ EXCEPT ![r] = v]]
    <3>. DEFINE u == [regs.userHi EXCEPT ![r] = v]
                G == [HiFile(regs) EXCEPT !["usr"] = u]
    <3>1. HiFile(regs)["usr"] = regs.userHi
      BY <1>3 DEF HiFile
    <3>2. \A b \in {"usr", "fiq"} : HiFile(regs')[b] = IF b = "usr" THEN u ELSE HiFile(regs)[b]
      BY <1>3, <2>1 DEF HiFile, UserMode
    <3>. HIDE DEF u
    <3>3. \A b \in {"usr", "fiq"} : G[b] = IF b = "usr" THEN u ELSE HiFile(regs)[b]
      BY DEF HiFile
    <3>4. HiFile(regs') = [b \in {"usr", "fiq"} |-> HiFile(regs')[b]] /\ G = [b \in {"usr", "fiq"} |-> G[b]]
      BY DEF HiFile
    <3>5. HiFile(regs') = G
      BY <3>2, <3>3, <3>4
    <3>. QED  BY <3>1, <3>5 DEF u
  <2>3. StFile(regs') = StFile(regs) /\ PsrFile(regs') = PsrFile(regs)
    BY <2>1 DEF StFile, PsrFile
  <2>4. File!PutHi("usr", r, v)
    BY <1>3, <2>1, <2>2, <2>3 DEF File!PutHi
  <2>. QED  BY <2>4 DEF File!FileNext, File!Write
<1>. QED  BY <1>2, <1>3 DEF WriteHi, LoadUserHi

\* So is a write of the stack pointer or the link register.
LEMMA StWriteFile ==
    ASSUME IInv, NEW r \in St, NEW v \in Val, WriteSt(r, v) \/ LoadUserSt(r, v)
    PROVE  File!FileNext
<1>1. regs \in Regs /\ regs.cpsr \in Mode
  BY DEF IInv, TypeOK, Regs
<1>2. CASE /\ regs' = [regs EXCEPT !.st = [@ EXCEPT ![r] = v]] /\ read' = read
           /\ WriteSt(r, v) \/ ~(regs.cpsr \notin UserMode)
  <2>. DEFINE b == File!StOf(regs.cpsr)
  <2>1. /\ regs'.st = [regs.st EXCEPT ![r] = v]
        /\ regs'.cpsr = regs.cpsr /\ regs'.spsr = regs.spsr /\ regs'.hi = regs.hi
        /\ regs'.userHi = regs.userHi /\ regs'.userSt = regs.userSt /\ regs'.fiqHi = regs.fiqHi
        /\ regs'.bankSt = regs.bankSt /\ regs'.bankSpsr = regs.bankSpsr
    BY <1>1, <1>2 DEF Regs
  <2>2. StFile(regs') = [StFile(regs) EXCEPT ![b] = [@ EXCEPT ![r] = v]]
    BY <1>1, <2>1, RegAssumption DEF StFile, File!StOf, UserMode, Mode
  <2>3. HiFile(regs') = HiFile(regs) /\ PsrFile(regs') = PsrFile(regs)
    BY <2>1 DEF HiFile, PsrFile
  <2>4. File!PutSt(b, r, v)
    BY <1>2, <2>1, <2>2, <2>3 DEF File!PutSt
  <2>. QED  BY <2>4 DEF File!FileNext, File!Write
<1>3. CASE regs' = [regs EXCEPT !.userSt = [@ EXCEPT ![r] = v]] /\ read' = read /\ regs.cpsr \notin UserMode
  <2>1. /\ regs'.userSt = [regs.userSt EXCEPT ![r] = v]
        /\ regs'.cpsr = regs.cpsr /\ regs'.spsr = regs.spsr /\ regs'.hi = regs.hi
        /\ regs'.st = regs.st /\ regs'.userHi = regs.userHi /\ regs'.fiqHi = regs.fiqHi
        /\ regs'.bankSt = regs.bankSt /\ regs'.bankSpsr = regs.bankSpsr
    BY <1>1, <1>3 DEF Regs
  <2>2. StFile(regs') = [StFile(regs) EXCEPT !["usr"] = [@ EXCEPT ![r] = v]]
    <3>. DEFINE u == [regs.userSt EXCEPT ![r] = v]
                G == [StFile(regs) EXCEPT !["usr"] = u]
    <3>1. StFile(regs)["usr"] = regs.userSt
      BY <1>3 DEF StFile
    <3>2. \A b \in {"usr"} \cup (Mode \ UserMode) : StFile(regs')[b] = IF b = "usr" THEN u ELSE StFile(regs)[b]
      BY <1>3, <2>1 DEF StFile, UserMode
    <3>. HIDE DEF u
    <3>3. \A b \in {"usr"} \cup (Mode \ UserMode) : G[b] = IF b = "usr" THEN u ELSE StFile(regs)[b]
      BY DEF StFile
    <3>4. StFile(regs') = [b \in {"usr"} \cup (Mode \ UserMode) |-> StFile(regs')[b]] /\ G = [b \in {"usr"} \cup (Mode \ UserMode) |-> G[b]]
      BY DEF StFile
    <3>5. StFile(regs') = G
      BY <3>2, <3>3, <3>4
    <3>. QED  BY <3>1, <3>5 DEF u
  <2>3. HiFile(regs') = HiFile(regs) /\ PsrFile(regs') = PsrFile(regs)
    BY <2>1 DEF HiFile, PsrFile
  <2>4. File!PutSt("usr", r, v)
    BY <1>3, <2>1, <2>2, <2>3 DEF File!PutSt
  <2>. QED  BY <2>4 DEF File!FileNext, File!Write
<1>. QED  BY <1>2, <1>3 DEF WriteSt, LoadUserSt

\* The soft reset writes the stores first: the slots of the mode it is called
\* in are in sight, not in a store, and keep their values.
LEMMA SoftResetFile ==
    ASSUME IInv, SoftReset
    PROVE  File!FileNext
<1>. DEFINE Z == [r \in Hi |-> Zero]
            B == [[regs.bankSt EXCEPT !["irq"] = ResetSt["irq"]] EXCEPT !["svc"] = ResetSt["svc"]]
            P == [[regs.bankSpsr EXCEPT !["irq"] = "none"] EXCEPT !["svc"] = "none"]
            R == [regs EXCEPT !.userSt = ResetSt["usr"], !.bankSt = B, !.bankSpsr = P, !.hi = Z]
            T == Switch(R, "sys")
<1>1. regs' = T /\ read' = read
  BY DEF SoftReset
<1>2. regs \in Regs /\ regs.cpsr \in Mode /\ "sys" \in Mode
  BY DEF IInv, TypeOK, Regs, Mode, UserMode
<1>3. B \in [Priv -> [St -> Val]] /\ P \in [Priv -> Psr]
  BY <1>2, RegAssumption DEF Regs, Psr
<1>4. ResetSt["usr"] \in [St -> Val] /\ Z \in [Hi -> Val]
  BY RegAssumption
<1>5. /\ R \in Regs /\ R.cpsr = regs.cpsr /\ R.hi = Z /\ R.st = regs.st
      /\ R.spsr = regs.spsr /\ R.userHi = regs.userHi /\ R.userSt = ResetSt["usr"]
      /\ R.fiqHi = regs.fiqHi /\ R.bankSt = B /\ R.bankSpsr = P
  <2>. HIDE DEF B, P, Z
  <2>. QED  BY <1>2, <1>3, <1>4 DEF Regs
<1>6. /\ \A b \in Priv : B[b] = IF b \in {"irq", "svc"} THEN ResetSt[b] ELSE regs.bankSt[b]
      /\ \A b \in Priv \ {"irq"} : P[b] = IF b = "svc" THEN "none" ELSE regs.bankSpsr[b]
  BY <1>2, RegAssumption DEF Regs
<1>. HIDE DEF R, B, P, Z
<1>7. T.cpsr = "sys" /\ HiFile(T) = HiFile(R) /\ StFile(T) = StFile(R) /\ PsrFile(T) = PsrFile(R)
  BY <1>2, <1>5, SwitchKeepsFile
<1>. HIDE DEF T
<1>8. HiFile(R) = [HiFile(regs) EXCEPT ![File!HiOf(regs.cpsr)] = Z]
  BY <1>5 DEF HiFile, File!HiOf
<1>9. StFile(R) = [b \in {"usr"} \cup (Mode \ UserMode) |->
                     IF b \in DOMAIN ResetSt /\ b # File!StOf(regs.cpsr)
                     THEN ResetSt[b] ELSE StFile(regs)[b]]
  <2>1. DOMAIN ResetSt = {"usr", "irq", "svc"} /\ Mode \ UserMode = Priv
        /\ Mode = UserMode \cup Priv
    BY RegAssumption DEF Mode, UserMode
  <2>2. ASSUME NEW b \in {"usr"} \cup (Mode \ UserMode)
        PROVE  StFile(R)[b] = IF b \in DOMAIN ResetSt /\ b # File!StOf(regs.cpsr)
                              THEN ResetSt[b] ELSE StFile(regs)[b]
    <3>1. CASE b = "usr"
      BY <1>2, <1>5, <2>1, <3>1, RegAssumption DEF StFile, File!StOf, UserMode
    <3>2. CASE b \in Priv
      BY <1>2, <1>5, <1>6, <2>1, <3>2, RegAssumption DEF StFile, File!StOf, UserMode
    <3>. QED  BY <2>1, <2>2, <3>1, <3>2
  <2>3. StFile(R) = [b \in {"usr"} \cup (Mode \ UserMode) |-> StFile(R)[b]]
    BY DEF StFile
  <2>. QED  BY <2>2, <2>3
<1>10. PsrFile(R) = IF regs.cpsr = "svc" THEN PsrFile(regs) ELSE [PsrFile(regs) EXCEPT !["svc"] = "none"]
  <2>1. Mode \ (UserMode \cup {"irq"}) = Priv \ {"irq"}
    BY RegAssumption DEF Mode, UserMode
  <2>. QED  BY <1>2, <1>5, <1>6, <2>1, SMTT(30) DEF PsrFile
<1>11. File!Reset
  BY <1>1, <1>7, <1>8, <1>9, <1>10 DEF File!Reset, File!StBank, Z
<1>. QED  BY <1>11 DEF File!FileNext

\* Every step of the registers is a step of the file or leaves it alone.
LEMMA NextFile ==
    ASSUME IInv, [Next]_vars
    PROVE  [File!FileNext]_(File!fileVars)
<1>1. ASSUME NEW m \in Mode, MsrCpsr(m)
      PROVE  File!FileNext
  BY <1>1, SwitchFile DEF MsrCpsr, Track
<1>2. CASE RestoreSpsr
  <2>1. regs.spsr \in Mode
    BY <1>2 DEF RestoreSpsr, IInv, TypeOK, Regs, Psr
  <2>. QED  BY <1>2, <2>1, SwitchFile DEF RestoreSpsr, Track
<1>3. CASE UNCHANGED vars
  BY <1>3 DEF vars, File!fileVars
<1>. QED
  BY <1>1, <1>2, <1>3, InterruptFile, UninterruptFile, MsrSpsrFile, StoreUserFile, SoftResetFile,
     HiWriteFile, StWriteFile DEF Next

\* thread_regs.rs implements one register file with a slot per register and
\* bank, although both fast paths of thread_set_cpsr leave stores behind that
\* the registers in sight have overtaken.
THEOREM RegsImplementFile == Spec => ImplementsBankedFile
<1>1. Init => File!FileInit
  BY InitFile
<1>2. IInv /\ [Next]_vars => [File!FileNext]_(File!fileVars)
  BY NextFile
<1>. QED  BY <1>1, <1>2, RegsInvariant, PTL DEF Spec, ImplementsBankedFile, File!FileSpec
=============================================================================
