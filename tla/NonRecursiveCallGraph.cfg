\* Every graph of four functions with two callees each at most, and every graph of three,
\* self calls included, of which isolated functions may have lost their node.
SPECIFICATION Spec
CONSTANTS
  Function <- MCFunction
  CallGraphs <- MCGraphs
INVARIANTS
  NoRingBelowTop
  ReachabilityPreserved
  PathsFound
  OnlyRingEdgesGo
PROPERTY Terminates
CHECK_DEADLOCK FALSE
