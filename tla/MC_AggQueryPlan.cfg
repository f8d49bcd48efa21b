\* The aggregate reducer over three workers, every lenient operator.
CONSTANTS
  Nodes = {n1, n2, n3}
  Ops <- MCOps
  Depth <- MCDepth
  Partials <- MCPartials
  TransportErr = TransportErr
  Cancelled = Cancelled
  NoErr = NoErr
  ShapeMismatch = ShapeMismatch
SPECIFICATION Spec
\* A query returns and stops.
CHECK_DEADLOCK FALSE
INVARIANTS
  MergeMatchesTests
  ResultIsAggregate
PROPERTIES
  QueryCompletes
