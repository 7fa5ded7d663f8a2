\* Three directories, two corpora, every mistake an operator can make.
CONSTANTS
  Programs <- IndexerAndDirect
  Parameters <- BackboneAndIndexer
  Corpora = {web, code}
  Unbound = unbound
  Dirs = {d1, d2, d3}
  Windows <- TwoTargets
  SaveEvery = 2
  MaxStarts = 4
  MaxBinds = 1
SPECIFICATION Spec
SYMMETRY Interchangeable
INVARIANTS MainCeExact MomentsKept FormalLineage
CHECK_DEADLOCK FALSE
