\* Violation run: the retry loop against a cancelled context.
CONSTANTS
  MaxRows <- MCMaxRows
  RpcRetries <- MCRpcRetries
  Nil = Nil
SPECIFICATION SSpec
\* Execute returns and stops.
CHECK_DEADLOCK FALSE
PROPERTIES
  CancelAbortsRetries
