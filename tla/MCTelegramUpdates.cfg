SPECIFICATION FairUpdatesSpec
CONSTANTS
  p1 = p1  p2 = p2  chat = chat
  Intakes = {p1, p2}
  Updates <- MCUpdates
  Chats = {chat}
  ChatOf <- OneChat
  Sites <- MCSites
  MaxAttempts = 2
  MaxConcurrent = 1
INVARIANTS
  OneOfAChat SettledIsHandled ClosedIsIdle
PROPERTIES
  BacklogFirst UpdatesSettle
CHECK_DEADLOCK FALSE
