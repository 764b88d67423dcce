SPECIFICATION Spec
CONSTANTS
  None = None
  Sources <- AllSources
  MaxPropertyBytes = 1000000000
  MaxFolderDepth = 3
  MaxTableValues = 19
  NameRank <- RankOfNames
  NameBytes <- BytesOfNames
INVARIANTS EveryItemSettled OmissionsCounted AssembledAsRecorded FoldersAgree RefusalKnown
CHECK_DEADLOCK FALSE
