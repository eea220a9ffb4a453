\* Statements over every operator, one through every pass.
CONSTANT Sources <- MCSources
SPECIFICATION Spec
INVARIANTS Fresh
           Simplified
           AcceptedIsGenerated
           ValuePreserved
           CallsOnce
CHECK_DEADLOCK FALSE
