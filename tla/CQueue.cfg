CONSTANTS
  S = 4
  Val = {v1, v2}
  CntMod = 32
SPECIFICATION Spec
INVARIANTS TypeOK NeverOverReports CountSettles
PROPERTIES ImplementsFifo
