SPECIFICATION UploadLiveSpec
CONSTANTS
  Writers = {w1, w2}
  BufSize = 2
  MaxUpload = 3
  MaxWrite = 3
  Versions = {"1.1", "2"}
  MaxBytes = 4
INVARIANTS
  BodiesCover
  WrittenInOrder
PROPERTIES
  UploadGoesOn
CHECK_DEADLOCK FALSE
