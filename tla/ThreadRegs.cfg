SPECIFICATION Spec
CONSTANTS
  Hi = {12}
  R12 = 12
  St = {13}
  Val = {0, 1}
  Zero = 0
  Priv = {"fiq", "irq", "svc"}
  MaxMarked = 2
  ResetSt <- MCResetSt
CONSTRAINT FewMarked
INVARIANT SpsrKept
PROPERTY ImplementsBankedFile
