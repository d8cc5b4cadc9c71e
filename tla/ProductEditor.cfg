SPECIFICATION Spec
CONSTANTS
  Images = {i1, i2}
  Videos = {v1}
  NoMedia = none
  MaxImages = 1
  MaxVideos = 1
  MaxMediaCalls = 2
  Variants = {k1, k2}
  OldVariants = {k1, k2}
  MaxJobs <- Jobs
  MaxSaves = 2
  MaxEdits <- Edits
  NewMedia <- OneImage
  Toggles <- Conditions
  MaxTrouble = 1
  FileSize = 9
  ChunkSize = 4
  MinChunk = 1
  MaxRetries = 4
  MaxDrags = 3
  ImageW = 3
  ImageH = 2
  MinCrop = 1
  Pictures <- MCPictures
INVARIANTS  FileOnce ClearedIsUploaded RemovedIsGone  VideoWhole
CHECK_DEADLOCK FALSE
