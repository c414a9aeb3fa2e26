SPECIFICATION FairSpec
CONSTANTS
  Requests = {p1, p2}
  Users = {ann, bob}
  Urls = {u1, u2}
  t1 = t1
  t2 = t2
  Tags = {t1, t2}
  TagLists <- MCTagLists
  MaxId = 2
INVARIANTS
  TypeOK
  BookmarksAreWhole
  DeletedIsGone
PROPERTIES
  OnlyOwnersDelete
  EveryRequestEnds
  ImplementsBookmarkSet
