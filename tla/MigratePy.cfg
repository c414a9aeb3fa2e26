SPECIFICATION Spec
CONSTANTS
  PyRunners = {py1}
  TsRunners = {ts1}
  Last = 3
  Faulty = {2, 3}
INVARIANTS
  OneTransactionEach
