\* Updates, faults and the wake of two chats.
CONSTANTS
  Chats = {ann, bob}
  NoChat = NoChat
  MaxUpdates = 3
  MaxFaults = 1
  RetryTime = 1
  WakeTime = 2
SPECIFICATION FairSpec
INVARIANTS HandledOnce TelegramInv PromiseTracked
PROPERTY WakeEnds
