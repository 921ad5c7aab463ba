CONSTANTS
  Files <- MCFiles
  Environ <- MCEnviron
  Requests <- MCRequests
  Responses <- MCResponses
SPECIFICATION Spec
INVARIANT ClientKeepsCredential
CHECK_DEADLOCK FALSE
