SPECIFICATION ConversationsSpec
CONSTANTS
  Openings <- SomeOpenings
  Replies <- SomeReplies
  MaxMessages = 3
  Ids <- AllIds
  Keys = {k1, k2}
  AffinityCap = 3
INVARIANTS TypeOK InStep
PROPERTIES ImplementsRecencyMap IdentityStable ConversationsApart
