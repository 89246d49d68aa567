SPECIFICATION StoreSpec
CONSTANTS
  p = p  q = q  new = new  mentions = mentions
  Posts <- TwoPosts
  Recent <- Young
  Feeds <- TwoFeeds
  Deep = deep
  Catalog <- Platforms
  Last <- Moves
  MaxSyncs = 3
  MaxFaults = 1
INVARIANT StoreTypeOK
INVARIANT ChangesAnnounced
INVARIANT NewsHasCause
INVARIANT ErasedStaysErased
PROPERTY KeepsKnown
SYMMETRY Alike
CHECK_DEADLOCK FALSE
