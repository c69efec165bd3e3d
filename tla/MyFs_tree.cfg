SPECIFICATION Spec
VIEW Served
CONSTANTS
  Names = {"a", "b"}
  Bytes = {1}
  Zero = 0
  MaxSize = 2
  MaxFiles = 2
  MaxDirs = 1
  TotalSpace = 3
  BlockSize = 1
  EntrySize <- Sizes
  PageSize = 3
  Gone = gone
INVARIANT TypeOK
INVARIANT TreeIsSound
INVARIANT ListingIsExact
PROPERTY NumbersAreNotReused
PROPERTY ImplementsTree
