SPECIFICATION Spec
CONSTANTS
  c1 = c1
  Messages <- MCOne
  Chats <- MCChats
  Chat <- MCChat
  Capacity = 1
  MaxEdits = 2
  MaxFacts = 2
  MaxToggles = 2
  MaxEpochs = 2
  MaxAttempts = 2
INVARIANTS
  OneReply
  JournalTellsTheTruth
PROPERTIES
  ConsentedSend
CHECK_DEADLOCK FALSE
