SPECIFICATION FairSpec
CONSTANTS
  UploadRatios <- MCUpload
  DownloadRatios <- MCDownload
  Sizes = {0, 2}
  MaxWrites = 2
  MaxBroken = 1
INVARIANTS
  TypeOK
  StreamIntact
  EvictionSparesBond

  
CHECK_DEADLOCK FALSE
