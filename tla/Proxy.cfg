CONSTANTS
  Files <- MCFiles
  Environ <- MCEnviron
  Requests <- MCRequests
  Responses <- MCResponses
SPECIFICATION Spec
INVARIANTS
  CommentsChangeNothing
  EntriesStandAlone
  SkippedEntriesDoNoHarm
  OneCredential
  FramingFits
  HopsStayApart
  SentIsWhatWasAsked
CHECK_DEADLOCK FALSE
