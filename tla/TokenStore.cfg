SPECIFICATION Spec
CONSTANTS
  Tokens = {t1, t2, t3}
  Unlimited = Unlimited
  Absent = Absent
  Uses <- MCUses
INVARIANTS
  TypeOK
  BudgetExact
PROPERTY
  KeepsBudget
