\* Filters and matrix literals, alone and in one another.
CONSTANTS
  Value <- MCValue
  Zero = 0
  Tree <- MCTree
  Source <- MCSource
  Uses <- MCUses
SPECIFICATION Spec
INVARIANTS BuiltRight
           NothingStale
           BuilderInv
CHECK_DEADLOCK FALSE
