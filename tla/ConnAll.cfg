SPECIFICATION FairSpec
CONSTANTS
  Client = {c1, c2}
  SendBufferSize = 2
  FeedBufferSize = 1
INVARIANTS
  TypeOK
  HubNeverPanics
  RegisteredExactlyWhileOpen
  HandlerPanicsOnlyInShutdown
PROPERTIES
  DeadConnectionsLeave
  WritersEnd
\* After the process has ended nothing happens any more.
CHECK_DEADLOCK FALSE
