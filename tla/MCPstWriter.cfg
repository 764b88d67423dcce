CONSTANTS
  Slot = 4
  Page = 8
  SlotsPerAmap = 16
  FirstAmap = 16
  PmapEvery = 2
  FmapFirst = 2
  FmapEvery = 4
  FpmapFirst = 4
  FpmapEvery = 8
  MaxExtent = 12
  MaxPayload = 10
  TableHead = 2
  RowUnits = 2
  ValueUnits = 1
  LargeEvery = 2
  LargeUnits = 2
  Messages <- MessageSet
  Bodies <- BodySet
  FolderSpecs <- FolderSet
  MaximumBytes = 900
  PreserveEmpty = FALSE
  NameUnits = 1
  BucketUnits = 2
  BbtLeaf = 5
  NbtLeaf = 4
  BtreeBranch = 4
  EntryPoints = {"deferred", "limited", "project", "preflighted", "whole"}
  MaxAppends = 2
  MaxFailures = 1
  ValidateOutput = TRUE
SPECIFICATION Spec
INVARIANTS
  ExtentsSound
  ReferencesExact
  FinalizationAgrees
  RowsFollowFolders
  PublishedWhole
PROPERTY PublicationEnds
CHECK_DEADLOCK FALSE
