CONSTANTS
  Kinds <- MCKinds
  Sizes <- MCSizes
  MaxRecords = 7
  MaxPage = 48
  MaxAllocation = 12
  MaxProperty = 11
  HeadBytes = 3
  MaxIndex = 7
  MaxPages = 6
  RootHeader = 6
  PageHeader = 2
  BitmapHeader = 6
  RootLevels = 2
  BitmapLevels = 3
  LeafRecord = 6
  BranchRecord = 5
  RowBytes = 3
SPECIFICATION Spec
INVARIANT HeapSound
