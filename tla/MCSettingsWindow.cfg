\* Two acts of the user beside the poll, over a queue of one.
SPECIFICATION FairSpec
CONSTANTS
  a1 = a1  a2 = a2  p1 = p1
  Actions = {a1, a2}
  Phrases = {p1}
  NoPhrase = NoPhrase  Absent = Absent
  NoToken = NoToken  NoPromise = NoPromise
  NoCall = NoCall  NoArg = NoArg  NoReply = NoReply
  FirstTable <- MCFirst
  Task <- MCTask
  MaxClicks = 2
CHECK_DEADLOCK FALSE
INVARIANTS
  WindowInv DraftsAreTyped PublishedAsShown TokenCurrent
PROPERTIES
  ViewCatchesUp
