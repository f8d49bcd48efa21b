\* Violation run: the retry loop's error against the final attempt's error.
CONSTANTS
  MaxRows <- MCMaxRows
  RpcRetries <- MCRpcRetries
  Nil = Nil
SPECIFICATION Spec
INVARIANTS
  FinalErrorSurfaces
