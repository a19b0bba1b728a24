\* Does the staging area empty, do expired artifacts go?  One upload of one
\* chunk, two artifacts, one maintenance thread.
SPECIFICATION Spec
CONSTANTS
  small = small
  big = big
  Artifacts = {a1, a2}
  Files <- MCFiles
  Uploads = {u1}
  Direct = direct
  Torn = torn
  Sweepers = {w1}
  MaxChunks = 1
  Payloads = {small}
  Size <- MCSize
  MaxChunkSize = 2
  MaxUploadBytes = 3
CHECK_DEADLOCK FALSE
PROPERTIES
  StagingIsReaped
  ExpiredArtifactsGo
