SPECIFICATION Spec
CONSTANTS
  NUM_TX_DESC = 2
  WIDTH = 6
  MaxLead = 3
  RxRing = 1
  Budget = 2
  Loads <- MCTimeoutLoads
INVARIANT InSync
