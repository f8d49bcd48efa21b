\* Violation run
CONSTANTS
  Nodes = {n1, n2, n3}
  Limits <- MCLimits
  MaxRows <- MCMaxRows
  RpcRetries <- MCRpcRetries
  Nil = Nil
  NoErr = NoErr
  WriteErr = WriteErr
  Open = Open
  Comma = Comma
  Close = Close
SPECIFICATION Spec
\* A query plan is executed once and stops: its final states are real ends.
CHECK_DEADLOCK FALSE
INVARIANTS
  BodyWellFormed
