SPECIFICATION FairSpec
CONSTANTS
  c1 = c1
  Messages <- MCTwo
  Chats <- MCChats
  Chat <- MCChat
  Capacity = 2
  MaxEdits = 1
  MaxFacts = 2
  MaxToggles = 1
  MaxEpochs = 1
  MaxAttempts = 1
PROPERTIES
  InChatOrder
  IntentEnds
CHECK_DEADLOCK FALSE
