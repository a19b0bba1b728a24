\* One upload of up to two chunks, one file uploaded in one piece, one
\* maintenance thread.  The limit admits two chunks, but not two big ones.
SPECIFICATION Spec
CONSTANTS
  small = small
  big = big
  Artifacts = {a1, a2}
  Files <- MCFiles
  Uploads = {u1}
  Direct = direct
  Torn = torn
  Sweepers = {w1}
  MaxChunks = 2
  Payloads = {small, big}
  Size <- MCSize
  MaxChunkSize = 2
  MaxUploadBytes = 3
CHECK_DEADLOCK FALSE
INVARIANTS
  SessionsMatchDisk
  ArtifactIsWholeUpload
PROPERTIES
  YoungUploadsSurvive
  RowsGoAfterTheirFiles
  YoungArtifactsSurvive
