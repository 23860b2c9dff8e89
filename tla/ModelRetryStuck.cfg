\* Two of the available models, the script present, up to two requests.
CONSTANTS
  Names <- MCNames
  ScriptFound = TRUE
  MaxRequests = 2
  None = None

SPECIFICATION Spec
\* Every behaviour ends once the requests are used and the threads ended.
CHECK_DEADLOCK FALSE

INVARIANT RetryOffered
