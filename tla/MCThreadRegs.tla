---------------------------- MODULE MCThreadRegs ----------------------------
(***************************************************************************)
(* The instance of ThreadRegs that is model-checked.  A register slot is   *)
(* marked when it differs from zero; a value that is lost, copied to a     *)
(* wrong bank or read from a stale one shows with a few marked slots, so   *)
(* states with more than MaxMarked of them are checked and not continued.  *)
(***************************************************************************)
EXTENDS ThreadRegs, FiniteSets

CONSTANT MaxMarked

MCResetSt == [b \in {"usr", "irq", "svc"} |-> [r \in St |-> IF b = "svc" THEN 1 ELSE 0]]

Marked(f) == {r \in DOMAIN f : f[r] # Zero}
NumMarked ==
    Cardinality(Marked(regs.hi)) + Cardinality(Marked(regs.st))
      + Cardinality(Marked(regs.userHi)) + Cardinality(Marked(regs.userSt))
      + Cardinality(Marked(regs.fiqHi))
      + Cardinality({m \in Priv : Marked(regs.bankSt[m]) # {}})
NumSaved == Cardinality({m \in Priv : regs.bankSpsr[m] # "none"})
FewMarked == NumMarked <= MaxMarked /\ NumSaved <= 1
=============================================================================
