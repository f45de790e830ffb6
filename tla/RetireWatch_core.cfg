SPECIFICATION FairSpec
CONSTANTS
  chat1 = chat1
  chat2 = chat2
  embed = embed
  new1 = new1
  new2 = new2
  first = first
  second = second
  third = third
  NoId = NoId
  Ids <- MCIds
  Slots <- MCSlots
  Chats <- MCChats
  Written <- MCWritten
  Catalogs <- MCCatalogs
  MaxTries = 2
  MaxDoomed = 3
INVARIANT
  NoTwice
PROPERTIES
  
  OnlyCondemnedReplaced
  CondemnedAreHandled
  RunsEnd
