SPECIFICATION FairSpec
CONSTANTS
  u1 = u1
  u2 = u2
  Nobody = Nobody
  User <- MCUser
  Tab <- MCTab
  Home = "dashboard"
  Fetching <- MCFetching
  Core <- MCCore
  Side <- MCSide
  Own <- MCOwn
  Relayed <- MCRelayed
  Watched = "servers"
  MaxTokens = 2
  MaxFetches = 2
INVARIANTS AsksAsItself
PROPERTIES EndsForAReason UserIsTheTokens OthersListsAreLate ListsFollow
