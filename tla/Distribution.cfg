\* Every way three agents of up to four users can gain or lose up to five.
CONSTANTS
  Agents = {a1, a2, a3}
  MaxLoad = 4
  MaxAmount = 5
SPECIFICATION MCSpec
INVARIANTS Even NeverBelowZero AllDone
CHECK_DEADLOCK FALSE
