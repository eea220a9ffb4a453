\* Programs of a few declarations, from their text to what they print.
CONSTANTS
  Source <- MCSource
  Tree <- MCTree
  Height <- MCHeight
SPECIFICATION Spec
INVARIANTS TypeOK
           SymbolsApart
           ResolvesLexically
           VerdictIsRight
           SameOutput
CHECK_DEADLOCK FALSE
