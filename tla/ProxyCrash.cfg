CONSTANTS
  Files <- MCFiles
  Environ <- MCEnviron
  Requests <- MCRequests
  Responses <- MCResponses
SPECIFICATION Spec
INVARIANT OnlyConfigErrors
CHECK_DEADLOCK FALSE
