------------------------- MODULE ChunkedUploadSafety -------------------------
(***************************************************************************)
(* Proofs about the storage for every set of artifacts, uploads and        *)
(* threads.  First the artifacts: no row is deleted before its file, and   *)
(* no artifact loses its file before its time.  What makes both safe is    *)
(* that ids are never reused: a sweep or a delete works from what it read  *)
(* some steps ago, and an id that was spent then cannot get a new file     *)
(* meanwhile.  Then the uploads: an artifact is the whole of the upload it *)
(* was made of, and a prune leaves young uploads alone.  Last the sessions *)
(* against the disk, which needs the sum over the chunks by induction.     *)
(***************************************************************************)
EXTENDS ChunkedUpload, DataLemmas

(* The variables that are functions have their domain.                     *)
Structure ==
  /\ files \subseteq Artifacts /\ rows \subseteq Artifacts
  /\ content = [a \in Artifacts |-> content[a]]
  /\ maint = [w \in Sweepers |-> maint[w]]
  /\ total = [u \in Uploads |-> total[u]]

Spent(a) == a \in Artifacts /\ content[a] # <<>>

(* A file or a row spends its id.                                          *)
IdsAreSpent == \A a \in files \cup rows : Spent(a)

(* A session has at least one chunk, so that what it ends in is not empty. *)
SessionsHaveChunks == \A u \in known : u \in Uploads /\ total[u] \in Indices

(* What a request may still assume after its earlier steps.                *)
LoopKnows ==
  /\ loop.op \in {"insert", "unlink", "delete"} => Spent(loop.id)
  /\ loop.op = "delete" => loop.id \notin files
  /\ loop.op = "register" => loop.upload \in Uploads /\ loop.total \in Indices
  /\ loop.op = "assemble" => total[loop.upload] \in Indices
  /\ loop.op \in {"check", "copy"} => loop.content # <<>>

(* An artifact a sweep has read: if its file is there, it is expired.      *)
Target(a) == Spent(a) /\ (a \in files => a \in expired)

(* What a cleanup may still assume of the rows it has read.                *)
SweepKnows(w) ==
  /\ maint[w].op \in {"cleanup", "remove"} =>
       /\ \A a \in maint[w].todo : Target(a)
       /\ \A a \in maint[w].gone : Spent(a) /\ a \notin files
  /\ maint[w].op = "remove" => Target(maint[w].id)

Inductive ==
  /\ Structure
  /\ IdsAreSpent
  /\ SessionsHaveChunks
  /\ LoopKnows
  /\ \A w \in Sweepers : SweepKnows(w)

-----------------------------------------------------------------------------
(* A tuple of at least one element is not empty.                           *)
LEMMA ChunksAreSomething ==
  ASSUME NEW n \in Indices, NEW f
  PROVE  [i \in 1..n |-> f[i]] # <<>>
<1>1. 1 \in DOMAIN [i \in 1..n |-> f[i]]
  BY ChunkAssumption DEF Indices
<1>2. 1 \notin DOMAIN <<>>
  OBVIOUS
<1>3. QED
  BY <1>1, <1>2

LEMMA InitInductive == Init => Inductive
BY DEF Init, StoreInit, Idle, Inductive, Structure, IdsAreSpent, SessionsHaveChunks,
       LoopKnows, SweepKnows

(* A new artifact takes an id that no file, row, request or sweep has,     *)
(* whether all of its content gets written or not.                         *)
LEMMA StoreFileKeeps ==
  ASSUME Inductive, NEW a \in Artifacts, NEW c, NEW from, c # <<>>,
         StoreFile(a, c, from) \/ (StoreFails(a, from) /\ c = <<Torn>>),
         UNCHANGED <<sessionVars, diskVars>>
  PROVE  Inductive'
<1>1. /\ files' = files \cup {a} /\ rows' = rows /\ expired' = expired
      /\ content' = [content EXCEPT ![a] = c]
      /\ loop'.op \in {"insert", "idle", "discard"} /\ (loop'.op = "insert" => loop'.id = a)
      /\ maint' = maint /\ known' = known /\ total' = total
  BY DEF StoreFile, StoreFails, AfterStore, Idle, sessionVars
<1>2. \A x : Spent(x) => Spent(x)' /\ x # a
  BY <1>1 DEF Inductive, Structure, Spent, StoreFile, StoreFails
<1>3. Spent(a)'
  BY <1>1 DEF Inductive, Structure, Spent
<1>4. Structure'
  BY <1>1 DEF Inductive, Structure
<1>5. IdsAreSpent'
  BY <1>1, <1>2, <1>3 DEF Inductive, IdsAreSpent
<1>6. SessionsHaveChunks'
  BY <1>1 DEF Inductive, SessionsHaveChunks
<1>7. LoopKnows'
  BY <1>1, <1>3 DEF LoopKnows
<1>8. ASSUME NEW w \in Sweepers PROVE SweepKnows(w)'
  BY <1>1, <1>2 DEF Inductive, SweepKnows, Target
<1>9. QED
  BY <1>4, <1>5, <1>6, <1>7, <1>8 DEF Inductive

(* A step that leaves the artifacts alone.                                 *)
LEMMA SessionStepKeeps ==
  ASSUME Inductive, UNCHANGED storeVars,
         SessionsHaveChunks', LoopKnows',
         total' = [u \in Uploads |-> total'[u]],
         maint' = [w \in Sweepers |-> maint'[w]],
         \A w \in Sweepers : maint'[w] = maint[w] \/ maint'[w].op \notin {"cleanup", "remove"}
  PROVE  Inductive'
<1>1. Structure'
  BY DEF Inductive, Structure, storeVars
<1>2. IdsAreSpent'
  BY DEF Inductive, IdsAreSpent, Spent, storeVars
<1>3. ASSUME NEW w \in Sweepers PROVE SweepKnows(w)'
  BY DEF Inductive, SweepKnows, Target, Spent, storeVars
<1>4. QED
  BY <1>1, <1>2, <1>3 DEF Inductive

(* The requests that delete artifacts, and the end of a store.             *)
LEMMA StoreLoopKeeps ==
  ASSUME Inductive, UNCHANGED <<sessionVars, diskVars>>,
         StoreLoop \/ \E a \in Artifacts : DeleteRead(a) \/ Expires(a)
  PROVE  Inductive'
<1> USE DEF sessionVars, storeVars, Inductive
<1>1. CASE InsertRow
  BY <1>1 DEF InsertRow, AfterStore, Idle, Structure, IdsAreSpent, Spent, SessionsHaveChunks,
              LoopKnows, SweepKnows, Target
<1>2. CASE InsertRefused
  BY <1>2 DEF InsertRefused, AfterStore, Idle, Structure, IdsAreSpent, Spent, SessionsHaveChunks,
              LoopKnows, SweepKnows, Target
<1>3. CASE DeleteUnlink
  <2>1. /\ files' \subseteq files
        /\ \/ loop' = [op |-> "delete", id |-> loop.id] /\ loop.id \notin files'
           \/ loop' = Idle
        /\ loop.op = "unlink"
        /\ UNCHANGED <<rows, expired, content, maint, known, total>>
    BY <1>3 DEF DeleteUnlink
  <2>2. \A x : Spent(x) => Spent(x)'
    BY <2>1 DEF Spent
  <2>3. Structure' /\ IdsAreSpent' /\ SessionsHaveChunks'
    BY <2>1, <2>2 DEF Structure, IdsAreSpent, SessionsHaveChunks
  <2>4. LoopKnows'
    BY <2>1, <2>2 DEF LoopKnows, Idle
  <2>5. ASSUME NEW w \in Sweepers PROVE SweepKnows(w)'
    BY <2>1, <2>2 DEF SweepKnows, Target
  <2>6. QED
    BY <2>3, <2>4, <2>5
<1>4. CASE DeleteRow
  BY <1>4 DEF DeleteRow, Idle, Structure, IdsAreSpent, Spent, SessionsHaveChunks,
              LoopKnows, SweepKnows, Target
<1>5. ASSUME NEW a \in Artifacts, DeleteRead(a)
      PROVE  Inductive'
  BY <1>5 DEF DeleteRead, Structure, IdsAreSpent, Spent, SessionsHaveChunks,
              LoopKnows, SweepKnows, Target
<1>6. ASSUME NEW a \in Artifacts, Expires(a)
      PROVE  Inductive'
  BY <1>6 DEF Expires, Structure, IdsAreSpent, Spent, SessionsHaveChunks,
              LoopKnows, SweepKnows, Target
<1>7. QED
  BY <1>1, <1>2, <1>3, <1>4, <1>5, <1>6 DEF StoreLoop

(* The cleanup of expired artifacts.                                       *)
LEMMA CleanupKeeps ==
  ASSUME Inductive, UNCHANGED <<sessionVars, diskVars>>, NEW w \in Sweepers,
         CleanupRead(w) \/ CleanupStep(w) \/ CleanupAborts(w)
  PROVE  Inductive'
<1> USE DEF sessionVars, storeVars, Inductive
<1>1. CASE CleanupRead(w)
  BY <1>1 DEF CleanupRead, Expired, Idle, Structure, IdsAreSpent, Spent, SessionsHaveChunks,
              LoopKnows, SweepKnows, Target
<1>2. CASE CleanupNext(w)
  <2>1. PICK a \in maint[w].todo :
          maint' = [maint EXCEPT ![w] =
                      [ op |-> "remove", id |-> a, there |-> a \in files,
                        todo |-> maint[w].todo \ {a}, gone |-> maint[w].gone ]]
    BY <1>2 DEF CleanupNext
  <2>2. /\ maint'[w].op = "remove" /\ maint'[w].id = a
        /\ maint'[w].todo \subseteq maint[w].todo /\ maint'[w].gone = maint[w].gone
        /\ \A v \in Sweepers \ {w} : maint'[v] = maint[v]
    BY <2>1 DEF Structure
  <2>3. UNCHANGED <<files, rows, expired, content, loop, known, total>> /\ maint[w].op = "cleanup"
    BY <1>2 DEF CleanupNext
  <2>4. Structure' /\ IdsAreSpent' /\ SessionsHaveChunks' /\ LoopKnows'
    BY <2>1, <2>3 DEF Structure, IdsAreSpent, Spent, SessionsHaveChunks, LoopKnows
  <2>5. ASSUME NEW v \in Sweepers PROVE SweepKnows(v)'
    BY <2>2, <2>3 DEF SweepKnows, Target, Spent
  <2>6. QED
    BY <2>4, <2>5
<1>3. CASE CleanupRemove(w)
  <2>1. /\ maint[w].op = "remove"
        /\ files' = files \ {maint[w].id}
        /\ UNCHANGED <<rows, expired, content, loop, known, total>>
    BY <1>3 DEF CleanupRemove
  <2>2. /\ maint'[w].op = "cleanup"
        /\ maint'[w].todo = maint[w].todo /\ maint'[w].gone = maint[w].gone \cup {maint[w].id}
        /\ \A v \in Sweepers \ {w} : maint'[v] = maint[v]
    BY <1>3 DEF CleanupRemove, Structure
  <2>3. Structure' /\ IdsAreSpent' /\ SessionsHaveChunks' /\ LoopKnows'
    BY <1>3, <2>1 DEF CleanupRemove, Structure, IdsAreSpent, Spent, SessionsHaveChunks, LoopKnows
  <2>4. ASSUME NEW v \in Sweepers PROVE SweepKnows(v)'
    BY <2>1, <2>2 DEF SweepKnows, Target, Spent
  <2>5. QED
    BY <2>3, <2>4
<1>4. CASE CleanupRemoveFails(w)
  <2>1. UNCHANGED <<files, rows, expired, content, loop, known, total>> /\ maint[w].op = "remove"
    BY <1>4 DEF CleanupRemoveFails
  <2>2. /\ maint'[w].op = "cleanup"
        /\ maint'[w].todo = maint[w].todo /\ maint'[w].gone = maint[w].gone
        /\ \A v \in Sweepers \ {w} : maint'[v] = maint[v]
    BY <1>4 DEF CleanupRemoveFails, AfterFailedUnlink, Structure
  <2>3. Structure' /\ IdsAreSpent' /\ SessionsHaveChunks' /\ LoopKnows'
    BY <1>4, <2>1
       DEF CleanupRemoveFails, Structure, IdsAreSpent, Spent, SessionsHaveChunks, LoopKnows
  <2>4. ASSUME NEW v \in Sweepers PROVE SweepKnows(v)'
    BY <2>1, <2>2 DEF SweepKnows, Target, Spent
  <2>5. QED
    BY <2>3, <2>4
<1>5. CASE CleanupCommit(w)
  <2>1. /\ rows' = rows \ maint[w].gone /\ expired' = expired \ maint[w].gone
        /\ maint[w].op = "cleanup"
        /\ UNCHANGED <<files, content, loop, known, total>>
    BY <1>5 DEF CleanupCommit
  <2>2. maint'[w] = Idle /\ \A v \in Sweepers \ {w} : maint'[v] = maint[v]
    BY <1>5 DEF CleanupCommit, Structure
  <2>3. Structure' /\ IdsAreSpent' /\ SessionsHaveChunks' /\ LoopKnows'
    BY <1>5, <2>1 DEF CleanupCommit, Structure, IdsAreSpent, Spent, SessionsHaveChunks, LoopKnows
  <2>4. \A a \in maint[w].gone : a \notin files
    BY <2>1 DEF SweepKnows
  <2>5. ASSUME NEW v \in Sweepers PROVE SweepKnows(v)'
    BY <2>1, <2>2, <2>4 DEF SweepKnows, Target, Spent, Idle
  <2>6. QED
    BY <2>3, <2>5
<1>6. CASE CleanupAborts(w)
  <2>1. UNCHANGED <<files, rows, expired, content, loop, known, total>>
    BY <1>6 DEF CleanupAborts
  <2>2. maint'[w] = Idle /\ \A v \in Sweepers \ {w} : maint'[v] = maint[v]
    BY <1>6 DEF CleanupAborts, Structure
  <2>3. Structure' /\ IdsAreSpent' /\ SessionsHaveChunks' /\ LoopKnows'
    BY <1>6, <2>1 DEF CleanupAborts, Structure, IdsAreSpent, Spent, SessionsHaveChunks, LoopKnows
  <2>4. ASSUME NEW v \in Sweepers PROVE SweepKnows(v)'
    BY <2>1, <2>2 DEF SweepKnows, Target, Spent, Idle
  <2>5. QED
    BY <2>3, <2>4
<1>7. QED
  BY <1>1, <1>2, <1>3, <1>4, <1>5, <1>6 DEF CleanupStep

(* The requests of a chunked upload.                                       *)
LEMMA UploadKeeps ==
  ASSUME Inductive, UNCHANGED <<storeVars, maint>>,
         \/ \E u \in Uploads : \/ InitMkdir(u) \/ CompleteRead(u)
                               \/ \E i \in Indices, p \in Payloads : StoreRead(u, i, p)
         \/ InitRegister \/ StoreWrite
         \/ Assemble \/ CompleteCheck \/ CompleteCopyFails \/ CompleteDiscard
  PROVE  Inductive'
<1> USE DEF sessionVars, Inductive
<1> SUFFICES SessionsHaveChunks' /\ LoopKnows' /\ total' = [u \in Uploads |-> total'[u]]
  BY SessionStepKeeps DEF Structure
<1>1. ASSUME NEW u \in Uploads, InitMkdir(u)
      PROVE  SessionsHaveChunks' /\ LoopKnows' /\ total' = [x \in Uploads |-> total'[x]]
  BY <1>1 DEF InitMkdir, SessionsHaveChunks, LoopKnows, Structure, Indices
<1>2. ASSUME NEW u \in Uploads, CompleteRead(u)
      PROVE  SessionsHaveChunks' /\ LoopKnows' /\ total' = [x \in Uploads |-> total'[x]]
  BY <1>2 DEF CompleteRead, SessionsHaveChunks, LoopKnows, Structure
<1>3. ASSUME NEW u \in Uploads, NEW i \in Indices, NEW p \in Payloads, StoreRead(u, i, p)
      PROVE  SessionsHaveChunks' /\ LoopKnows' /\ total' = [x \in Uploads |-> total'[x]]
  BY <1>3 DEF StoreRead, SessionsHaveChunks, LoopKnows, Structure
<1>4. CASE InitRegister
  BY <1>4 DEF InitRegister, Idle, SessionsHaveChunks, LoopKnows, Structure
<1>5. CASE StoreWrite
  BY <1>5 DEF StoreWrite, Idle, SessionsHaveChunks, LoopKnows, Structure
<1>6. CASE Assemble
  <2>1. loop.op = "assemble" => total[loop.upload] \in Indices
    BY DEF LoopKnows
  <2> DEFINE whole == [i \in 1..total[loop.upload] |-> slot[loop.upload][i]]
  <2>2. whole # <<>>
    BY <1>6, <2>1, ChunksAreSomething DEF Assemble
  <2>3. loop' = Idle \/ loop' = [op |-> "check", upload |-> loop.upload, content |-> whole]
    BY <1>6, Zenon DEF Assemble
  <2> HIDE DEF whole
  <2>4. LoopKnows'
    BY <2>2, <2>3 DEF LoopKnows, Idle
  <2>5. QED
    BY <1>6, <2>4 DEF Assemble, SessionsHaveChunks, Structure
<1>7. CASE CompleteCheck
  BY <1>7 DEF CompleteCheck, Idle, SessionsHaveChunks, LoopKnows, Structure
<1>8. CASE CompleteCopyFails
  BY <1>8 DEF CompleteCopyFails, AfterStore, Idle, SessionsHaveChunks, LoopKnows, Structure
<1>9. CASE CompleteDiscard
  BY <1>9 DEF CompleteDiscard, Dropped, Idle, SessionsHaveChunks, LoopKnows, Structure
<1>10. QED
  BY <1>1, <1>2, <1>3, <1>4, <1>5, <1>6, <1>7, <1>8, <1>9

(* prune_stale, which never touches an artifact.                           *)
LEMMA PruneKeeps ==
  ASSUME Inductive, NEW w \in Sweepers, PruneRead(w) \/ PruneStep(w)
  PROVE  Inductive'
<1> DEFINE Changes ==
      /\ UNCHANGED <<storeVars, loop, total>>
      /\ known' \subseteq known
      /\ maint' = [maint EXCEPT ![w] = maint'[w]]
      /\ maint'[w].op \notin {"cleanup", "remove"}
<1> USE DEF Inductive, Structure
<1>1. SUFFICES Changes
  <2>1. SessionsHaveChunks' /\ LoopKnows' /\ total' = [u \in Uploads |-> total'[u]]
    BY <1>1 DEF Inductive, SessionsHaveChunks, LoopKnows, Spent, Structure, storeVars
  <2>2. /\ maint' = [v \in Sweepers |-> maint'[v]]
        /\ \A v \in Sweepers : maint'[v] = maint[v] \/ maint'[v].op \notin {"cleanup", "remove"}
    BY <1>1 DEF Inductive, Structure
  <2>3. QED
    BY <1>1, <2>1, <2>2, SessionStepKeeps
<1>2. CASE PruneRead(w)
  BY <1>2 DEF PruneRead, sessionVars
<1>3. CASE PrunePop(w)
  <2>1. PICK u \in maint[w].todo :
          /\ known' = known \ {u}
          /\ maint' = [maint EXCEPT ![w] =
                         IF u \in known
                         THEN [op |-> "list", upload |-> u, todo |-> maint[w].todo \ {u}]
                         ELSE [op |-> "prune", todo |-> maint[w].todo \ {u}]]
    BY <1>3 DEF PrunePop, Dropped
  <2>2. QED
    BY <1>3, <2>1 DEF PrunePop
<1>4. CASE PruneOrphan(w)
  BY <1>4 DEF PruneOrphan, sessionVars
<1>5. CASE PruneEnd(w)
  BY <1>5 DEF PruneEnd, Idle, sessionVars
<1>6. CASE RmtreeList(w)
  BY <1>6 DEF RmtreeList, sessionVars
<1>7. CASE RmtreeUnlink(w)
  BY <1>7 DEF RmtreeUnlink, sessionVars
<1>8. CASE RmtreeRmdir(w)
  BY <1>8 DEF RmtreeRmdir, sessionVars
<1>9. QED
  BY <1>2, <1>3, <1>4, <1>5, <1>6, <1>7, <1>8 DEF PruneStep

(* Every step.                                                             *)
LEMMA StepKeeps == Inductive /\ [Next]_vars => Inductive'
<1> SUFFICES ASSUME Inductive, [Next]_vars PROVE Inductive'
  OBVIOUS
<1>t. <<Torn>> # <<>>
  OBVIOUS
<1>1. ASSUME NEW a \in Artifacts, Alone(Upload(a)) PROVE Inductive'
  BY <1>1, StoreFileKeeps, <1>t, FileAssumption DEF Alone, Upload
<1>2. ASSUME NEW a \in Artifacts, CompleteCopy(a) PROVE Inductive'
  BY <1>2, StoreFileKeeps, <1>t DEF CompleteCopy, Inductive, LoopKnows
<1>3. CASE Alone(StoreLoop \/ \E a \in Artifacts : DeleteRead(a) \/ Expires(a))
  BY <1>3, StoreLoopKeeps DEF Alone
<1>4. ASSUME NEW w \in Sweepers, Alone(CleanupRead(w) \/ CleanupStep(w) \/ CleanupAborts(w))
      PROVE  Inductive'
  BY <1>4, CleanupKeeps DEF Alone
<1>5. CASE \/ \E u \in Uploads : \/ InitMkdir(u) \/ CompleteRead(u)
                                \/ \E i \in Indices, p \in Payloads : StoreRead(u, i, p)
           \/ InitRegister \/ StoreWrite
           \/ Assemble \/ CompleteCheck \/ CompleteCopyFails \/ CompleteDiscard
  <2>1. UNCHANGED <<storeVars, maint>>
    BY <1>5 DEF InitMkdir, CompleteRead, StoreRead, InitRegister, StoreWrite, Assemble,
                CompleteCheck, CompleteCopyFails, CompleteDiscard
  <2>2. QED
    BY <1>5, <2>1, UploadKeeps
<1>6. ASSUME NEW w \in Sweepers, PruneRead(w) \/ PruneStep(w) PROVE Inductive'
  BY <1>6, PruneKeeps
<1>7. ASSUME NEW u \in Uploads, Ages(u) PROVE Inductive'
  BY <1>7, SessionStepKeeps
     DEF Ages, sessionVars, storeVars, Inductive, Structure, SessionsHaveChunks, LoopKnows, Spent
<1>8. CASE Restart
  <2>1. SessionsHaveChunks' /\ LoopKnows'
    BY <1>8 DEF Restart, Idle, SessionsHaveChunks, LoopKnows
  <2>2. \A w \in Sweepers : maint'[w].op \notin {"cleanup", "remove"}
    BY <1>8 DEF Restart, Idle
  <2>3. QED
    BY <1>8, <2>1, <2>2, SessionStepKeeps DEF Restart, Inductive, Structure
<1>9. CASE UNCHANGED vars
  BY <1>9 DEF vars, storeVars, sessionVars, Inductive, Structure, IdsAreSpent, Spent,
              SessionsHaveChunks, LoopKnows, SweepKnows, Target
<1>10. QED
  BY <1>1, <1>2, <1>3, <1>4, <1>5, <1>6, <1>7, <1>8, <1>9
     DEF Next, UploadLoop, StoreNext, Alone

-----------------------------------------------------------------------------
(* The inductive invariant.                                                *)
THEOREM InductiveInvariant == Spec => []Inductive
BY InitInductive, StepKeeps, PTL DEF Spec

(* F-14: a committed row is only deleted when its file is gone.            *)
THEOREM RowsGoLast == Spec => RowsGoAfterTheirFiles
<1>1. Inductive /\ [Next]_vars => [\A a \in rows \ rows' : a \notin files']_vars
  <2> SUFFICES ASSUME Inductive, Next, NEW a \in rows, a \notin rows'
               PROVE  a \notin files'
    OBVIOUS
  <2>1. CASE Alone(DeleteRow)
    BY <2>1 DEF Alone, DeleteRow, Inductive, LoopKnows
  <2>2. ASSUME NEW w \in Sweepers, Alone(CleanupCommit(w)) PROVE a \notin files'
    BY <2>2 DEF Alone, CleanupCommit, Inductive, SweepKnows
  <2>3. \/ rows \subseteq rows'
        \/ Alone(DeleteRow)
        \/ \E w \in Sweepers : Alone(CleanupCommit(w))
    BY DEF Next, Alone, StoreNext, StoreLoop, CleanupStep, UploadLoop, PruneStep, Upload, StoreFile, StoreFails,
           InsertRow, InsertRefused, DeleteRead, DeleteUnlink, Expires, CleanupRead, CleanupNext,
           CleanupRemove, CleanupRemoveFails, CleanupAborts, InitMkdir, InitRegister, StoreRead,
           StoreWrite, CompleteRead, Assemble, CompleteCheck, CompleteCopy, CompleteCopyFails,
           CompleteDiscard, PruneRead, PrunePop, PruneOrphan, PruneEnd, RmtreeList, RmtreeUnlink,
           RmtreeRmdir, Ages, Restart, storeVars
  <2>4. QED
    BY <2>1, <2>2, <2>3
<1>2. QED
  BY <1>1, InductiveInvariant, PTL DEF Spec, RowsGoAfterTheirFiles

(* T-165: before its time an artifact loses its file to a request only.    *)
THEOREM YoungFilesStay == Spec => YoungArtifactsSurvive
<1>1. Inductive /\ [Next]_vars =>
        [\A a \in files \ files' : a \in expired \/ (loop.op = "unlink" /\ loop.id = a)]_vars
  <2> SUFFICES ASSUME Inductive, Next, NEW a \in files, a \notin files'
               PROVE  a \in expired \/ (loop.op = "unlink" /\ loop.id = a)
    OBVIOUS
  <2>1. CASE Alone(DeleteUnlink)
    BY <2>1 DEF Alone, DeleteUnlink
  <2>2. ASSUME NEW w \in Sweepers, Alone(CleanupRemove(w)) PROVE a \in expired
    BY <2>2 DEF Alone, CleanupRemove, Inductive, SweepKnows, Target
  <2>3. \/ files \subseteq files'
        \/ Alone(DeleteUnlink)
        \/ \E w \in Sweepers : Alone(CleanupRemove(w))
    BY DEF Next, Alone, StoreNext, StoreLoop, CleanupStep, UploadLoop, PruneStep, Upload, StoreFile, StoreFails,
           InsertRow, InsertRefused, DeleteRead, DeleteRow, Expires, CleanupRead, CleanupNext,
           CleanupCommit, CleanupRemoveFails, CleanupAborts, InitMkdir, InitRegister, StoreRead,
           StoreWrite, CompleteRead, Assemble, CompleteCheck, CompleteCopy, CompleteCopyFails,
           CompleteDiscard, PruneRead, PrunePop, PruneOrphan, PruneEnd, RmtreeList, RmtreeUnlink,
           RmtreeRmdir, Ages, Restart, storeVars
  <2>4. QED
    BY <2>1, <2>2, <2>3
<1>2. QED
  BY <1>1, InductiveInvariant, PTL DEF Spec, YoungArtifactsSurvive

-----------------------------------------------------------------------------
(* Uploads.  What a prune works on was stale when it was read, and time    *)
(* goes one way; what an artifact was made of cannot change any more.      *)
UploadTables ==
  /\ age = [u \in Uploads |-> age[u]]
  /\ entries = [u \in Uploads |-> entries[u]]
  /\ slot = [u \in Uploads |-> slot[u]]
  /\ total = [u \in Uploads |-> total[u]]
  /\ received = [u \in Uploads |-> received[u]]
  /\ content = [a \in Artifacts |-> content[a]]
  /\ origin = [a \in Artifacts |-> origin[a]]
  /\ maint = [w \in Sweepers |-> maint[w]]
  /\ known \subseteq Uploads /\ dirs \subseteq Uploads

Begun(u)  == u \in Uploads /\ age[u] # "none"
Lapsed(u) == Begun(u) /\ age[u] # "fresh"

(* A prune and its removals work on lapsed uploads.                        *)
PrunesLapsed(w) ==
  /\ maint[w].op \in {"prune", "list", "unlink", "rmdir"} => \A u \in maint[w].todo : Lapsed(u)
  /\ maint[w].op \in {"list", "unlink", "rmdir"} => Lapsed(maint[w].upload)

(* A request on an upload that has no artifact yet, and what it assembled. *)
Untaken(u) == Begun(u) /\ \A a \in Artifacts : origin[a] # u

(* A file that holds every slot of its upload, all of them received.       *)
Whole(a) ==
  /\ content[a] = [i \in 1..total[origin[a]] |-> slot[origin[a]][i]]
  /\ Complete(origin[a])

LoopIsFirst ==
  /\ loop.op \in {"register", "write", "assemble", "check", "copy"} => Untaken(loop.upload)
  /\ loop.op = "discard" => Begun(loop.upload)
  /\ loop.op \in {"assemble", "check", "copy"} => Complete(loop.upload)
  /\ loop.op \in {"check", "copy"} =>
       loop.content = [i \in 1..total[loop.upload] |-> slot[loop.upload][i]]
  /\ loop.op = "insert" =>
       loop.id \in Artifacts /\ (origin[loop.id] # Direct => Whole(loop.id))

OriginsAreBegun ==
  /\ \A u \in known : Begun(u)
  /\ \A a \in Artifacts : origin[a] # Direct => Begun(origin[a])

UploadInv ==
  /\ UploadTables /\ OriginsAreBegun /\ LoopIsFirst
  /\ \A w \in Sweepers : PrunesLapsed(w)
  /\ ArtifactIsWholeUpload

AgeMove ==
  /\ age' = [u \in Uploads |-> age'[u]]
  /\ \A u : (Begun(u) => Begun(u)') /\ (Lapsed(u) => Lapsed(u)')

LEMMA UploadInit == Init => UploadInv
<1> SUFFICES ASSUME Init PROVE UploadInv
  OBVIOUS
<1>1. UploadTables
  BY DEF Init, StoreInit, UploadTables
<1>2. OriginsAreBegun /\ ArtifactIsWholeUpload
  BY DEF Init, StoreInit, OriginsAreBegun, ArtifactIsWholeUpload
<1>3. LoopIsFirst /\ \A w \in Sweepers : PrunesLapsed(w)
  BY DEF Init, Idle, LoopIsFirst, PrunesLapsed
<1> QED BY <1>1, <1>2, <1>3 DEF UploadInv

(* A step that leaves the artifacts and what uploads consist of alone.     *)
LEMMA QuietStep ==
  ASSUME UploadInv, AgeMove, UNCHANGED <<content, origin, total, received, slot>>,
         rows' \subseteq rows, known' \subseteq known, loop' = loop \/ (loop' = Idle /\ known' = {})
  PROVE  OriginsAreBegun' /\ LoopIsFirst' /\ ArtifactIsWholeUpload'
<1>1. OriginsAreBegun'
  BY DEF UploadInv, OriginsAreBegun, AgeMove
<1>2. LoopIsFirst'
  <2>1. \A u : Untaken(u) => Untaken(u)'
    BY DEF Untaken, AgeMove
  <2>2. CASE loop' = loop
    BY <2>1, <2>2 DEF UploadInv, LoopIsFirst, AgeMove, Whole, Complete
  <2>3. CASE loop' = Idle
    BY <2>3 DEF LoopIsFirst, Idle
  <2> QED BY <2>2, <2>3
<1>3. ArtifactIsWholeUpload'
  BY DEF UploadInv, ArtifactIsWholeUpload, Complete
<1> QED BY <1>1, <1>2, <1>3

LEMMA TouchedMoves ==
  ASSUME UploadTables, NEW u, age' = age \/ age' = Touched(u)
  PROVE  AgeMove
BY DEF UploadTables, Touched, AgeMove, Begun, Lapsed

(* The prune thread.                                                       *)
LEMMA PruneStepUploads ==
  ASSUME UploadInv, NEW w \in Sweepers, PruneRead(w) \/ PruneStep(w)
  PROVE  UploadInv'
<1>1. AgeMove
  BY TouchedMoves DEF UploadInv, PruneRead, PruneStep, PrunePop, PruneOrphan, PruneEnd, RmtreeList,
     RmtreeUnlink, RmtreeRmdir, diskVars
<1>2. /\ UNCHANGED <<rows, content, origin, total, received, slot, loop>> /\ known' \subseteq known
      /\ entries' = [u \in Uploads |-> entries'[u]] /\ dirs' \subseteq Uploads
      /\ maint' = [v \in Sweepers |-> maint'[v]] /\ \A v \in Sweepers \ {w} : maint'[v] = maint[v]
  BY DEF PruneRead, PruneStep, PrunePop, PruneOrphan, PruneEnd, RmtreeList, RmtreeUnlink,
         RmtreeRmdir, Dropped, storeVars, sessionVars, diskVars, UploadTables, UploadInv
<1>3. UploadTables'
  BY <1>1, <1>2 DEF UploadInv, UploadTables, AgeMove
<1>4. OriginsAreBegun' /\ LoopIsFirst' /\ ArtifactIsWholeUpload'
  BY <1>1, <1>2, QuietStep
<1>5. PrunesLapsed(w)'
  <2>1. CASE PruneRead(w)
    BY <1>1, <2>1 DEF UploadInv, PruneRead, Stale, diskVars, PrunesLapsed, UploadTables, OriginsAreBegun,
                      Lapsed, AgeMove
  <2>2. CASE PrunePop(w)
    <3>1. PICK u \in maint[w].todo :
            maint'[w] = IF u \in known
                        THEN [op |-> "list", upload |-> u, todo |-> maint[w].todo \ {u}]
                        ELSE [op |-> "prune", todo |-> maint[w].todo \ {u}]
      BY <2>2 DEF UploadInv, PrunePop, UploadTables
    <3>2. \A v \in maint[w].todo : Lapsed(v)'
      BY <1>1, <2>2 DEF UploadInv, PrunePop, PrunesLapsed, AgeMove
    <3> QED BY <3>1, <3>2 DEF PrunesLapsed
  <2>3. CASE PruneOrphan(w)
    <3>1. PICK u \in Orphans : maint'[w] = [op |-> "list", upload |-> u, todo |-> {}]
      BY <2>3 DEF UploadInv, PruneOrphan, UploadTables
    <3>2. Lapsed(u)
      BY DEF UploadInv, Orphans, UploadTables, Lapsed, Begun
    <3> QED BY <1>1, <3>1, <3>2 DEF UploadInv, PrunesLapsed, AgeMove
  <2>4. CASE PruneEnd(w)
    BY <2>4 DEF UploadInv, PruneEnd, Idle, PrunesLapsed, UploadTables
  <2>5. CASE RmtreeList(w)
    BY <1>1, <2>5 DEF UploadInv, RmtreeList, PrunesLapsed, UploadTables, AgeMove
  <2>6. CASE RmtreeUnlink(w)
    BY <1>1, <2>6 DEF UploadInv, RmtreeUnlink, PrunesLapsed, UploadTables, AgeMove
  <2>7. CASE RmtreeRmdir(w)
    BY <1>1, <2>7 DEF UploadInv, RmtreeRmdir, PrunesLapsed, UploadTables, AgeMove
  <2> QED BY <2>1, <2>2, <2>3, <2>4, <2>5, <2>6, <2>7 DEF PruneStep
<1>6. \A v \in Sweepers \ {w} : PrunesLapsed(v)'
  BY <1>1, <1>2 DEF UploadInv, PrunesLapsed, AgeMove
<1> QED BY <1>3, <1>5, <1>6, <1>4 DEF UploadInv

(* The cleanup thread, which never touches an upload.                      *)
LEMMA CleanupUploads ==
  ASSUME UploadInv, NEW w \in Sweepers, UNCHANGED <<sessionVars, diskVars>>,
         CleanupRead(w) \/ CleanupStep(w) \/ CleanupAborts(w)
  PROVE  UploadInv'
<1>1. AgeMove
  BY TouchedMoves DEF UploadInv, diskVars
<1>2. /\ UNCHANGED <<content, origin, total, received, slot, loop, known, entries, dirs>>
      /\ rows' \subseteq rows
      /\ maint' = [v \in Sweepers |-> maint'[v]]
      /\ maint'[w].op \in {"idle", "cleanup", "remove"}
      /\ \A v \in Sweepers \ {w} : maint'[v] = maint[v]
  <2>1. /\ UNCHANGED <<content, origin, total, received, slot, loop, known, entries, dirs>>
        /\ rows' \subseteq rows
    BY DEF CleanupRead, CleanupStep, CleanupNext, CleanupRemove, CleanupRemoveFails, CleanupCommit,
           CleanupAborts, storeVars, sessionVars, diskVars
  <2>2. \E m : maint' = [maint EXCEPT ![w] = m] /\ m.op \in {"idle", "cleanup", "remove"}
    BY DEF CleanupRead, CleanupStep, CleanupNext, CleanupRemove, CleanupRemoveFails, CleanupCommit,
           CleanupAborts, Idle
  <2> QED BY <2>1, <2>2 DEF UploadTables, UploadInv
<1>3. UploadTables'
  BY <1>1, <1>2 DEF UploadInv, UploadTables, AgeMove
<1>4. OriginsAreBegun' /\ LoopIsFirst' /\ ArtifactIsWholeUpload'
  BY <1>1, <1>2, QuietStep
<1>5. \A v \in Sweepers : PrunesLapsed(v)'
  BY <1>1, <1>2 DEF UploadInv, PrunesLapsed, AgeMove
<1> QED BY <1>3, <1>5, <1>4 DEF UploadInv

(* The prunes of a step that leaves their threads alone.                   *)
LEMMA PrunesStay ==
  ASSUME UploadInv, AgeMove, maint' = maint
  PROVE  \A w \in Sweepers : PrunesLapsed(w)'
BY DEF UploadInv, PrunesLapsed, AgeMove

(* A new artifact: from elsewhere, or the first one of the upload the      *)
(* request has assembled, written to its end or not.                       *)
LEMMA StoreFileUploads ==
  ASSUME Inductive, UploadInv, NEW a \in Artifacts, NEW c, NEW from,
         StoreFile(a, c, from) \/ StoreFails(a, from), UNCHANGED <<sessionVars, diskVars>>,
         \/ from = Direct /\ loop = Idle
         \/ /\ loop.op = "copy" /\ from = loop.upload
            /\ c = [i \in 1..total[from] |-> slot[from][i]]
  PROVE  UploadInv'
<1>1. AgeMove
  BY TouchedMoves DEF UploadInv, diskVars
<1>2. /\ UNCHANGED <<rows, maint, known, dirs, entries, slot, total, received>>
      /\ \E x : content' = [content EXCEPT ![a] = x]
      /\ origin' = [origin EXCEPT ![a] = from]
      /\ \/ loop' = [op |-> "insert", id |-> a] /\ content'[a] = c
         \/ loop' = AfterStore(from)
  BY DEF StoreFile, StoreFails, sessionVars, diskVars, UploadInv, UploadTables
<1>n. a \notin rows
  BY DEF StoreFile, StoreFails, Inductive, IdsAreSpent, Spent
<1>3. UploadTables'
  BY <1>1, <1>2 DEF UploadInv, UploadTables, AgeMove
<1>4. from # Direct => Untaken(from) /\ loop.op = "copy"
  BY DEF UploadInv, LoopIsFirst, Idle
<1>5. OriginsAreBegun'
  BY <1>1, <1>2, <1>4 DEF UploadInv, UploadTables, OriginsAreBegun, Untaken, AgeMove
<1>6. LoopIsFirst'
  <2>1. CASE loop' = AfterStore(from)
    BY <1>1, <1>4, <2>1 DEF LoopIsFirst, AfterStore, Idle, Untaken, AgeMove
  <2>2. CASE loop' = [op |-> "insert", id |-> a] /\ content'[a] = c
    <3>1. origin'[a] = from
      BY <1>2 DEF UploadInv, UploadTables
    <3>2. from # Direct => c = [i \in 1..total[from] |-> slot[from][i]] /\ Complete(from)
      BY DEF UploadInv, LoopIsFirst
    <3>3. from # Direct => Whole(a)'
      BY <1>2, <2>2, <3>1, <3>2 DEF Whole, Complete
    <3> QED BY <2>2, <3>1, <3>3 DEF LoopIsFirst
  <2> QED BY <1>2, <2>1, <2>2
<1>7. ArtifactIsWholeUpload'
  <2> SUFFICES ASSUME NEW b \in Artifacts, origin'[b] # Direct
               PROVE  LET u == origin'[b] IN
                 /\ b \in rows => content'[b] = [i \in 1..total[u] |-> slot[u][i]] /\ Complete(u)
                 /\ \A d \in Artifacts \ {b} : origin'[d] # u
                 /\ u \in known => loop' \in {[op |-> "insert", id |-> b],
                                              [op |-> "discard", upload |-> u]}
    BY <1>2 DEF ArtifactIsWholeUpload, Complete
  <2>1. CASE b = a
    <3>1. origin'[b] = from /\ from # Direct
      BY <2>1, <1>2 DEF UploadInv, UploadTables
    <3>2. \A d \in Artifacts \ {b} : origin'[d] # from
      BY <2>1, <1>2, <1>4, <3>1 DEF UploadInv, UploadTables, Untaken
    <3>3. loop' \in {[op |-> "insert", id |-> b], [op |-> "discard", upload |-> from]}
      BY <1>2, <2>1, <3>1 DEF AfterStore
    <3> QED BY <1>n, <2>1, <3>1, <3>2, <3>3
  <2>2. CASE b # a
    <3>1. origin'[b] = origin[b] /\ content'[b] = content[b]
      BY <2>2, <1>2 DEF UploadInv, UploadTables
    <3>2. /\ b \in rows => /\ content[b] = [i \in 1..total[origin[b]] |-> slot[origin[b]][i]]
                           /\ Complete(origin[b])
          /\ \A d \in Artifacts \ {b} : origin[d] # origin[b]
          /\ origin[b] \in known => loop.op \in {"insert", "discard"}
      BY <3>1 DEF UploadInv, ArtifactIsWholeUpload
    <3>3. loop.op \notin {"insert", "discard"}
      BY DEF Idle
    <3>4. origin[b] # from
      BY <3>1, <1>4 DEF Untaken
    <3>5. \A d \in Artifacts \ {b} : origin'[d] # origin[b]
      BY <1>2, <3>2, <3>4 DEF UploadInv, UploadTables
    <3> QED BY <3>1, <3>2, <3>3, <3>5
  <2> QED BY <2>1, <2>2
<1> QED BY <1>1, <1>2, <1>3, <1>5, <1>6, <1>7, PrunesStay DEF UploadInv

(* The other requests of the store.                                        *)
LEMMA StoreLoopUploads ==
  ASSUME UploadInv, UNCHANGED <<sessionVars, diskVars>>,
         StoreLoop \/ \E a \in Artifacts : DeleteRead(a) \/ Expires(a)
  PROVE  UploadInv'
<1>1. AgeMove
  BY TouchedMoves DEF UploadInv, diskVars
<1>2. UNCHANGED <<maint, known, dirs, entries, slot, total, received, content, origin>>
  BY DEF StoreLoop, InsertRow, InsertRefused, DeleteUnlink, DeleteRow, DeleteRead, Expires,
         storeVars, sessionVars, diskVars
<1>3. UploadTables' /\ OriginsAreBegun'
  BY <1>1, <1>2 DEF UploadInv, UploadTables, OriginsAreBegun, AgeMove
<1>4. \A w \in Sweepers : PrunesLapsed(w)'
  BY <1>1, <1>2, PrunesStay
<1>5. CASE InsertRow \/ InsertRefused
  <2>1. loop.op = "insert" /\ loop' = AfterStore(origin[loop.id]) /\ loop.id \in Artifacts
    BY <1>5 DEF InsertRow, InsertRefused, UploadInv, LoopIsFirst
  <2>2. LoopIsFirst'
    BY <1>1, <1>2, <2>1
       DEF AfterStore, Idle, LoopIsFirst, UploadInv, OriginsAreBegun, AgeMove
  <2>3. ASSUME NEW b \in Artifacts, origin[b] # Direct, origin[b] \in known
        PROVE  loop' = [op |-> "discard", upload |-> origin[b]]
    <3>1. loop \in {[op |-> "insert", id |-> b], [op |-> "discard", upload |-> origin[b]]}
      BY <2>3 DEF UploadInv, ArtifactIsWholeUpload
    <3>2. loop.id = b
      BY <2>1, <3>1
    <3> QED BY <2>1, <2>3, <3>2 DEF AfterStore
  <2>4. ASSUME NEW b \in Artifacts, origin[b] # Direct, b \in rows' PROVE Whole(b)
    <3>1. b \in rows \/ b = loop.id
      BY <1>5, <2>4 DEF InsertRow, InsertRefused, storeVars
    <3> QED BY <2>1, <2>4, <3>1 DEF UploadInv, ArtifactIsWholeUpload, LoopIsFirst, Whole
  <2>5. ArtifactIsWholeUpload'
    BY <1>2, <2>3, <2>4 DEF UploadInv, ArtifactIsWholeUpload, Whole, Complete
  <2> QED BY <1>3, <1>4, <2>2, <2>5 DEF UploadInv
<1>6. CASE DeleteUnlink \/ DeleteRow \/ \E a \in Artifacts : DeleteRead(a)
  <2>1. loop.op \notin {"insert", "discard"} /\ loop'.op \in {"idle", "unlink", "delete"}
    BY <1>6 DEF DeleteUnlink, DeleteRow, DeleteRead, Idle
  <2>2. LoopIsFirst'
    BY <2>1 DEF LoopIsFirst
  <2>3. rows' \subseteq rows
    BY <1>6 DEF DeleteUnlink, DeleteRow, DeleteRead, storeVars
  <2>4. ArtifactIsWholeUpload'
    BY <1>2, <2>1, <2>3 DEF UploadInv, ArtifactIsWholeUpload, Complete
  <2> QED BY <1>3, <1>4, <2>2, <2>4 DEF UploadInv
<1>7. CASE \E a \in Artifacts : Expires(a)
  BY <1>1, <1>2, <1>3, <1>4, <1>7, QuietStep DEF Expires, UploadInv
<1> QED BY <1>5, <1>6, <1>7 DEF StoreLoop

(* Only the request that made an artifact of a known upload runs.          *)
LEMMA TakenIsEnding ==
  ASSUME UploadInv, NEW a \in Artifacts, origin[a] # Direct, origin[a] \in known
  PROVE  loop.op = "insert" \/ (loop.op = "discard" /\ loop.upload = origin[a])
<1>1. loop \in {[op |-> "insert", id |-> a], [op |-> "discard", upload |-> origin[a]]}
  BY DEF UploadInv, ArtifactIsWholeUpload
<1> QED BY <1>1

(* A request that only changes what one upload consists of, of which no    *)
(* artifact has been made.                                                 *)
LEMMA OwnStep ==
  ASSUME UploadInv, AgeMove, UploadTables', LoopIsFirst', UNCHANGED <<rows, content, origin, maint>>,
         NEW u, Untaken(u)', known' \subseteq known \cup {u}, loop.op \notin {"insert", "discard"},
         \A v \in Uploads \ {u} :
           total'[v] = total[v] /\ slot'[v] = slot[v] /\ received'[v] = received[v]
  PROVE  UploadInv'
<1>1. \A w \in Sweepers : PrunesLapsed(w)'
  BY PrunesStay
<1>2. OriginsAreBegun'
  BY DEF UploadInv, OriginsAreBegun, AgeMove, Untaken
<1>3. ASSUME NEW a \in Artifacts, origin[a] # Direct
      PROVE  /\ origin[a] # u /\ origin[a] \in Uploads \ {u}
             /\ origin[a] \notin known'
  BY <1>3, TakenIsEnding DEF UploadInv, OriginsAreBegun, ArtifactIsWholeUpload, Untaken, Begun
<1>4. ArtifactIsWholeUpload'
  BY <1>3 DEF UploadInv, ArtifactIsWholeUpload, Complete
<1> QED BY <1>1, <1>2, <1>4 DEF UploadInv

(* The requests of a chunked upload.                                       *)
LEMMA UploadRequests ==
  ASSUME UploadInv, UNCHANGED <<storeVars, maint>>,
         \/ \E u \in Uploads : \/ InitMkdir(u) \/ CompleteRead(u)
                               \/ \E i \in Indices, p \in Payloads : StoreRead(u, i, p)
         \/ InitRegister \/ StoreWrite
         \/ Assemble \/ CompleteCheck \/ CompleteCopyFails \/ CompleteDiscard
  PROVE  UploadInv'
<1>1. AgeMove
  BY DEF UploadInv, UploadTables, AgeMove, Begun, Lapsed, InitMkdir, CompleteRead, StoreRead, InitRegister,
         StoreWrite, Written, Assemble, CompleteCheck, CompleteCopyFails, CompleteDiscard, Touched, diskVars
<1>2. UNCHANGED <<rows, content, origin, maint>>
  BY DEF storeVars
<1>3. \A u : Untaken(u) => Untaken(u)'
  BY <1>1, <1>2 DEF Untaken, AgeMove
<1>4. ASSUME NEW u \in known, loop = Idle PROVE Untaken(u)
  BY <1>4, TakenIsEnding, DirectAssumption DEF UploadInv, OriginsAreBegun, Untaken, Begun, Idle
<1>5. ASSUME NEW u \in Uploads, InitMkdir(u) PROVE UploadInv'
  <2>1. /\ dirs' = dirs \cup {u} /\ age' = [age EXCEPT ![u] = "fresh"]
        /\ UNCHANGED <<known, total, received, entries, slot>> /\ loop.op = "idle" /\ age[u] = "none"
        /\ loop'.op = "register" /\ loop'.upload = u
    BY <1>5 DEF InitMkdir, sessionVars, Idle
  <2>2. Untaken(u)'
    BY <1>2, <2>1, DirectAssumption
       DEF UploadInv, UploadTables, OriginsAreBegun, Untaken, Begun
  <2>3. UploadTables' /\ LoopIsFirst'
    BY <1>2, <2>1, <2>2 DEF UploadInv, UploadTables, LoopIsFirst
  <2> QED BY <1>1, <1>2, <2>1, <2>2, <2>3, OwnStep
<1>6. ASSUME NEW u \in Uploads, CompleteRead(u) \/ \E i \in Indices, p \in Payloads : StoreRead(u, i, p)
      PROVE  UploadInv'
  <2>1. /\ UNCHANGED <<known, total, received, entries, slot, dirs, age>> /\ loop = Idle /\ u \in known
        /\ loop'.op \in {"assemble", "write"} /\ loop'.upload = u
        /\ loop'.op = "assemble" => Complete(u)
    BY <1>6 DEF CompleteRead, StoreRead, sessionVars, diskVars
  <2>2. Untaken(u)'
    BY <1>3, <1>4, <2>1
  <2>3. UploadTables' /\ LoopIsFirst'
    BY <1>2, <2>1, <2>2 DEF UploadInv, UploadTables, LoopIsFirst, Complete
  <2> QED BY <1>1, <1>2, <2>1, <2>2, <2>3, OwnStep DEF Idle
<1>7. CASE InitRegister
  <2> PICK u : u = loop.upload
    OBVIOUS
  <2>1. Untaken(u)' /\ loop.op = "register" /\ loop' = Idle
    BY <1>3, <1>7 DEF UploadInv, LoopIsFirst, InitRegister
  <2>2. /\ known' = known \cup {u} /\ total' = [total EXCEPT ![u] = loop.total]
        /\ received' = [received EXCEPT ![u] = {}] /\ UNCHANGED <<dirs, entries, slot, age>>
    BY <1>7 DEF InitRegister, diskVars
  <2>3. u \in Uploads
    BY <1>7 DEF UploadInv, LoopIsFirst, Untaken, Begun, InitRegister
  <2>4. UploadTables' /\ LoopIsFirst'
    BY <1>2, <2>1, <2>2, <2>3 DEF UploadInv, UploadTables, LoopIsFirst, Idle
  <2> QED BY <1>1, <1>2, <2>1, <2>2, <2>4, OwnStep DEF UploadInv, UploadTables
<1>8. CASE StoreWrite
  <2> PICK u : u = loop.upload
    OBVIOUS
  <2>1. Untaken(u)' /\ u \in Uploads /\ loop.op = "write" /\ loop' = Idle
    BY <1>3, <1>8 DEF UploadInv, LoopIsFirst, StoreWrite, Untaken, Begun
  <2>2. /\ UNCHANGED <<known, total, dirs>>
        /\ entries' = [v \in Uploads |-> entries'[v]]
        /\ slot' = [v \in Uploads |-> slot'[v]]
        /\ received' = [v \in Uploads |-> received'[v]]
        /\ \A v \in Uploads \ {u} : slot'[v] = slot[v] /\ received'[v] = received[v]
    BY <1>8 DEF StoreWrite, Written, UploadInv, UploadTables
  <2>3. UploadTables' /\ LoopIsFirst'
    BY <1>1, <1>2, <2>1, <2>2 DEF UploadInv, UploadTables, LoopIsFirst, Idle, AgeMove
  <2> QED BY <1>1, <1>2, <2>1, <2>2, <2>3, OwnStep
<1>9. CASE Assemble
  <2> PICK u : u = loop.upload
    OBVIOUS
  <2>1. Untaken(u)' /\ loop.op = "assemble" /\ Complete(u)
    BY <1>3, <1>9 DEF UploadInv, LoopIsFirst, Assemble
  <2>2. /\ UNCHANGED <<known, total, received, slot, dirs>>
        /\ entries' = [v \in Uploads |-> entries'[v]]
    BY <1>9 DEF Assemble, UploadInv, UploadTables, sessionVars
  <2>3. \/ loop' = Idle
        \/ loop' = [op |-> "check", upload |-> u, content |-> [i \in 1..total[u] |-> slot[u][i]]]
    BY <1>9, Zenon DEF Assemble
  <2>4. LoopIsFirst'
    <3>1. CASE loop' = Idle
      BY <3>1 DEF LoopIsFirst, Idle
    <3>2. CASE loop' = [op |-> "check", upload |-> u, content |-> [i \in 1..total[u] |-> slot[u][i]]]
      <4>1. [i \in 1..total'[u] |-> slot'[u][i]] = [i \in 1..total[u] |-> slot[u][i]]
        BY <2>2
      <4>2. /\ loop'.op = "check" /\ loop'.upload = u
            /\ loop'.content = [i \in 1..total[u] |-> slot[u][i]]
        BY <3>2
      <4>3. Complete(u)'
        BY <2>1, <2>2 DEF Complete
      <4> QED BY <2>1, <4>1, <4>2, <4>3 DEF LoopIsFirst
    <3> QED BY <2>3, <3>1, <3>2
  <2>5. UploadTables'
    BY <1>1, <1>2, <2>2 DEF UploadInv, UploadTables, AgeMove
  <2> QED BY <1>1, <1>2, <2>1, <2>2, <2>4, <2>5, OwnStep
<1>10. CASE CompleteCheck \/ CompleteCopyFails
  <2> PICK u : u = loop.upload
    OBVIOUS
  <2>1. Untaken(u)' /\ loop.op \in {"check", "copy"} /\ Complete(u)
    BY <1>3, <1>10 DEF UploadInv, LoopIsFirst, CompleteCheck, CompleteCopyFails
  <2>2. UNCHANGED <<known, total, received, slot, dirs, entries, age>>
    BY <1>10 DEF CompleteCheck, CompleteCopyFails, sessionVars, diskVars
  <2>3. \/ loop' = Idle \/ loop' = [op |-> "discard", upload |-> u]
        \/ loop' = [op |-> "copy", upload |-> u, content |-> loop.content] /\ loop.op = "check"
    BY <1>10 DEF CompleteCheck, CompleteCopyFails, AfterStore
  <2>4. LoopIsFirst'
    <3>1. CASE loop' = Idle \/ loop' = [op |-> "discard", upload |-> u]
      BY <2>1, <3>1 DEF LoopIsFirst, Untaken, Idle
    <3>2. CASE loop' = [op |-> "copy", upload |-> u, content |-> loop.content] /\ loop.op = "check"
      <4>1. /\ loop'.op = "copy" /\ loop'.upload = u
            /\ loop'.content = [i \in 1..total[u] |-> slot[u][i]]
        BY <3>2 DEF UploadInv, LoopIsFirst
      <4>2. [i \in 1..total'[u] |-> slot'[u][i]] = [i \in 1..total[u] |-> slot[u][i]]
        BY <2>2
      <4>3. Complete(u)'
        BY <2>1, <2>2 DEF Complete
      <4> QED BY <2>1, <4>1, <4>2, <4>3 DEF LoopIsFirst
    <3> QED BY <2>3, <3>1, <3>2
  <2>5. UploadTables'
    BY <1>2, <2>2 DEF UploadInv, UploadTables
  <2> QED BY <1>1, <1>2, <2>1, <2>2, <2>4, <2>5, OwnStep
<1>11. CASE CompleteDiscard
  <2> PICK u : u = loop.upload
    OBVIOUS
  <2>1. /\ known' = known \ {u} /\ dirs' \subseteq dirs /\ UNCHANGED <<total, received, slot, age>>
        /\ entries' = [v \in Uploads |-> entries'[v]] /\ loop' = Idle /\ loop.op = "discard"
    BY <1>11 DEF CompleteDiscard, Dropped, UploadInv, UploadTables
  <2>2. UploadTables' /\ OriginsAreBegun' /\ LoopIsFirst'
    BY <1>1, <1>2, <2>1 DEF UploadInv, UploadTables, OriginsAreBegun, LoopIsFirst, Idle, AgeMove
  <2>3. ASSUME NEW a \in Artifacts, origin[a] # Direct PROVE origin[a] \notin known'
    BY <2>1, <2>3, TakenIsEnding
  <2>4. ArtifactIsWholeUpload'
    BY <1>2, <2>1, <2>3 DEF UploadInv, ArtifactIsWholeUpload, Complete
  <2> QED BY <1>3, <2>2, <2>4, PrunesStay, <1>1, <1>2 DEF UploadInv
<1> QED BY <1>5, <1>6, <1>7, <1>8, <1>9, <1>10, <1>11

(* Every step.                                                             *)
LEMMA StepUploads == Inductive /\ UploadInv /\ [Next]_vars => UploadInv'
<1> SUFFICES ASSUME Inductive, UploadInv, [Next]_vars PROVE UploadInv'
  OBVIOUS
<1>1. ASSUME NEW a \in Artifacts, Alone(Upload(a)) PROVE UploadInv'
  BY <1>1, StoreFileUploads DEF Alone, Upload
<1>2. ASSUME NEW a \in Artifacts, CompleteCopy(a) PROVE UploadInv'
  BY <1>2, StoreFileUploads DEF CompleteCopy, UploadInv, LoopIsFirst
<1>3. CASE Alone(StoreLoop \/ \E a \in Artifacts : DeleteRead(a) \/ Expires(a))
  BY <1>3, StoreLoopUploads DEF Alone
<1>4. ASSUME NEW w \in Sweepers, Alone(CleanupRead(w) \/ CleanupStep(w) \/ CleanupAborts(w))
      PROVE  UploadInv'
  BY <1>4, CleanupUploads DEF Alone
<1>5. CASE \/ \E u \in Uploads : \/ InitMkdir(u) \/ CompleteRead(u)
                                \/ \E i \in Indices, p \in Payloads : StoreRead(u, i, p)
           \/ InitRegister \/ StoreWrite
           \/ Assemble \/ CompleteCheck \/ CompleteCopyFails \/ CompleteDiscard
  <2>1. UNCHANGED <<storeVars, maint>>
    BY <1>5 DEF InitMkdir, CompleteRead, StoreRead, InitRegister, StoreWrite, Assemble,
                CompleteCheck, CompleteCopyFails, CompleteDiscard
  <2> QED BY <1>5, <2>1, UploadRequests
<1>6. ASSUME NEW w \in Sweepers, PruneRead(w) \/ PruneStep(w) PROVE UploadInv'
  BY <1>6, PruneStepUploads
<1>7. ASSUME NEW u \in Uploads, Ages(u) PROVE UploadInv'
  <2>1. /\ UNCHANGED <<rows, content, origin, total, received, slot, known, dirs, entries, loop, maint>>
        /\ age' \in {[age EXCEPT ![u] = "stale"], [age EXCEPT ![u] = "old"]} /\ age[u] # "none"
    BY <1>7 DEF Ages, storeVars, sessionVars
  <2>2. AgeMove
    BY <2>1 DEF UploadInv, UploadTables, AgeMove, Begun, Lapsed
  <2>3. UploadTables'
    BY <2>1, <2>2 DEF UploadInv, UploadTables, AgeMove
  <2> QED BY <2>1, <2>2, <2>3, QuietStep, PrunesStay DEF UploadInv
<1>8. CASE Restart
  <2>1. /\ UNCHANGED <<rows, content, origin, total, received, slot, dirs, entries, age>>
        /\ known' = {} /\ loop' = Idle /\ maint' = [w \in Sweepers |-> Idle]
    BY <1>8 DEF Restart, storeVars, diskVars
  <2>2. AgeMove
    BY <2>1, TouchedMoves DEF UploadInv
  <2>3. UploadTables' /\ \A w \in Sweepers : PrunesLapsed(w)'
    BY <2>1 DEF UploadInv, UploadTables, PrunesLapsed, Idle
  <2> QED BY <2>1, <2>2, <2>3, QuietStep DEF UploadInv
<1>9. CASE UNCHANGED vars
  <2>1. UNCHANGED <<rows, content, origin, total, received, slot, known, dirs, entries, age, loop, maint>>
    BY <1>9 DEF vars, storeVars, sessionVars, diskVars
  <2>2. AgeMove /\ UploadTables'
    BY <2>1, TouchedMoves DEF UploadInv, UploadTables
  <2> QED BY <2>1, <2>2, QuietStep, PrunesStay DEF UploadInv
<1> QED
  BY <1>1, <1>2, <1>3, <1>4, <1>5, <1>6, <1>7, <1>8, <1>9
     DEF Next, UploadLoop, StoreNext, Alone

LEMMA UploadsHold == Spec => []UploadInv
BY UploadInit, StepUploads, InductiveInvariant, PTL DEF Spec

(* A chunked artifact is the whole upload, and the only one made of it.    *)
THEOREM WholeUploads == Spec => []ArtifactIsWholeUpload
<1>1. UploadInv => ArtifactIsWholeUpload
  BY DEF UploadInv
<1> QED BY <1>1, UploadsHold, PTL

(* F-15b: a prune, whatever it read and however late, does not touch an    *)
(* upload of less than an hour; nothing but its own end and a restart does.*)
THEOREM YoungUploadsStay == Spec => YoungUploadsSurvive
<1> DEFINE Young(u) ==
      age[u] = "fresh" /\ ~ (loop.op = "discard" /\ loop.upload = u) =>
        /\ u \in known => u \in known' \/ Restart
        /\ u \in dirs => u \in dirs'
        /\ entries[u] \subseteq entries'[u]
<1>1. UploadInv /\ [Next]_vars => [\A u \in Uploads : Young(u)]_vars
  <2> SUFFICES ASSUME UploadInv, Next, NEW u \in Uploads, age[u] = "fresh",
                      ~ (loop.op = "discard" /\ loop.upload = u)
               PROVE  /\ u \in known => u \in known' \/ Restart
                      /\ u \in dirs => u \in dirs'
                      /\ entries[u] \subseteq entries'[u]
    OBVIOUS
  <2>1. ASSUME NEW w \in Sweepers, PruneStep(w)
        PROVE  (u \in known => u \in known') /\ (u \in dirs => u \in dirs') /\ entries[u] \subseteq entries'[u]
    <3>1. \A v : Lapsed(v) => v # u
      BY DEF Lapsed
    <3> QED BY <2>1, <3>1 DEF UploadInv, UploadTables, PrunesLapsed, PruneStep, PrunePop, PruneOrphan,
               PruneEnd, RmtreeList, RmtreeUnlink, RmtreeRmdir, Dropped, sessionVars, diskVars
  <2>2. CASE CompleteDiscard
    BY <2>2 DEF CompleteDiscard, Dropped, UploadInv, UploadTables
  <2>3. CASE Restart
    BY <2>3 DEF Restart, diskVars
  <2>4. CASE InitRegister \/ StoreWrite \/ Assemble \/ CompleteCheck \/ CompleteCopyFails
    <3>1. known \subseteq known' /\ UNCHANGED dirs
      BY <2>4 DEF InitRegister, StoreWrite, Assemble, CompleteCheck, CompleteCopyFails, sessionVars, diskVars
    <3>2. entries' = entries \/ \E i : entries' = [entries EXCEPT ![loop.upload] = entries[loop.upload] \cup {i}]
      BY <2>4, Zenon DEF InitRegister, StoreWrite, Written, Assemble, CompleteCheck, CompleteCopyFails, diskVars
    <3>3. entries[u] \subseteq entries'[u]
      BY <3>2 DEF UploadInv, UploadTables
    <3> QED BY <3>1, <3>3
  <2>5. \/ \E w \in Sweepers : PruneStep(w)
        \/ CompleteDiscard \/ Restart
        \/ InitRegister \/ StoreWrite \/ Assemble \/ CompleteCheck \/ CompleteCopyFails
        \/ known \subseteq known' /\ dirs \subseteq dirs' /\ entries' = entries
    BY DEF Next, Alone, UploadLoop, InitMkdir, CompleteRead, StoreRead, CompleteCopy, PruneRead, Ages,
           sessionVars, diskVars
  <2> QED BY <2>1, <2>2, <2>3, <2>4, <2>5
<1> QED BY <1>1, UploadsHold, PTL DEF Spec, YoungUploadsSurvive

-----------------------------------------------------------------------------
(* The sum over the chunks.                                                *)
Sums(f, n, g) == g = [i \in 0..n |-> IF i = 0 THEN 0 ELSE g[i - 1] + f[i]]

LEMMA SumsExist ==
  ASSUME NEW f
  PROVE  \A n \in Nat : \E g : Sums(f, n, g)
<1> DEFINE S == {n \in Nat : \E g : Sums(f, n, g)}
<1>1. 0 \in S
  <2> DEFINE g == [i \in 0..0 |-> 0]
  <2>1. Sums(f, 0, g)
    BY DEF Sums
  <2> QED
    BY <2>1
<1>2. ASSUME NEW n \in Nat, n \in S
      PROVE  n + 1 \in S
  <2>1. PICK g : Sums(f, n, g)
    BY <1>2
  <2> DEFINE h == [i \in 0..(n + 1) |-> IF i <= n THEN g[i] ELSE g[i - 1] + f[i]]
  <2>2. \A i \in 0..n : g[i] = IF i = 0 THEN 0 ELSE g[i - 1] + f[i]
    BY <2>1 DEF Sums
  <2>3. ASSUME NEW i \in 0..(n + 1)
        PROVE  h[i] = IF i = 0 THEN 0 ELSE h[i - 1] + f[i]
    <3>1. CASE i = 0
      BY <2>2, <3>1
    <3>2. CASE i # 0
      <4>1. i - 1 \in 0..n /\ h[i - 1] = g[i - 1]
        BY <3>2
      <4>2. CASE i <= n
        BY <2>2, <3>2, <4>1, <4>2
      <4>3. CASE ~ (i <= n)
        BY <3>2, <4>1, <4>3
      <4> QED
        BY <4>2, <4>3
    <3> QED
      BY <3>1, <3>2
  <2>4. Sums(f, n + 1, h)
    BY <2>3 DEF Sums
  <2> QED
    BY <2>4
<1> HIDE DEF S
<1>3. Nat \subseteq S
  BY <1>1, <1>2, SetInduction
<1> QED
  BY <1>3 DEF S

LEMMA SumIs ==
  ASSUME NEW f
  PROVE  \E g : Sums(f, MaxChunks, g) /\ Sum(f) = g[MaxChunks]
<1>1. \E g : Sums(f, MaxChunks, g)
  BY SumsExist, ChunkAssumption
<1>2. PICK h : h = CHOOSE g : Sums(f, MaxChunks, g)
  OBVIOUS
<1>3. Sums(f, MaxChunks, h)
  BY <1>1, <1>2
<1>4. Sum(f) = h[MaxChunks]
  BY <1>2 DEF Sum, Sums
<1> QED
  BY <1>3, <1>4

LEMMA SumOfNothing ==
  ASSUME NEW f, \A i \in Indices : f[i] = 0
  PROVE  Sum(f) = 0
<1>1. PICK g : Sums(f, MaxChunks, g) /\ Sum(f) = g[MaxChunks]
  BY SumIs
<1> DEFINE S == {n \in Nat : n <= MaxChunks => g[n] = 0}
<1>2. 0 \in S
  BY <1>1, ChunkAssumption DEF Sums
<1>3. ASSUME NEW n \in Nat, n \in S
      PROVE  n + 1 \in S
  <2>1. SUFFICES ASSUME n + 1 <= MaxChunks PROVE g[n + 1] = 0
    OBVIOUS
  <2>2. g[n] = 0 /\ n + 1 \in 0..MaxChunks /\ n + 1 \in Indices /\ (n + 1) - 1 = n /\ n + 1 # 0
    BY <1>3, <2>1, ChunkAssumption DEF Indices
  <2>3. g[n + 1] = g[n] + f[n + 1] /\ f[n + 1] = 0
    BY <1>1, <2>2 DEF Sums
  <2> QED
    BY <2>2, <2>3
<1> HIDE DEF S
<1>4. Nat \subseteq S
  BY <1>2, <1>3, SetInduction
<1> QED
  BY <1>1, <1>4, ChunkAssumption DEF S

(* A chunk that is sent again changes the sum by the difference.           *)
LEMMA SumExcept ==
  ASSUME NEW f \in [Indices -> Nat], NEW j \in Indices, NEW x \in Nat
  PROVE  /\ Sum(f) \in Int
         /\ Sum([f EXCEPT ![j] = x]) = Sum(f) - f[j] + x
<1> DEFINE h == [f EXCEPT ![j] = x]
<1>0. j \in Nat /\ j >= 1 /\ j <= MaxChunks /\ MaxChunks \in Nat /\ f[j] \in Nat
  BY ChunkAssumption DEF Indices
<1>h. \A i \in Indices : f[i] \in Nat /\ h[i] = IF i = j THEN x ELSE f[i]
  OBVIOUS
<1> HIDE DEF h
<1>1. PICK g : Sums(f, MaxChunks, g) /\ Sum(f) = g[MaxChunks]
  BY SumIs
<1>2. PICK k : Sums(h, MaxChunks, k) /\ Sum(h) = k[MaxChunks]
  BY SumIs
<1>3. /\ \A i \in 0..MaxChunks : g[i] = IF i = 0 THEN 0 ELSE g[i - 1] + f[i]
      /\ \A i \in 0..MaxChunks : k[i] = IF i = 0 THEN 0 ELSE k[i - 1] + h[i]
  BY <1>1, <1>2 DEF Sums
<1> DEFINE S == {n \in Nat : n <= MaxChunks =>
                   g[n] \in Int /\ k[n] = IF n < j THEN g[n] ELSE g[n] - f[j] + x}
<1>4. 0 \in S
  BY <1>0, <1>3
<1>5. ASSUME NEW n \in Nat, n \in S
      PROVE  n + 1 \in S
  <2>1. SUFFICES ASSUME n + 1 <= MaxChunks
                 PROVE  /\ g[n + 1] \in Int
                        /\ k[n + 1] = IF n + 1 < j THEN g[n + 1] ELSE g[n + 1] - f[j] + x
    OBVIOUS
  <2>2. /\ g[n] \in Int /\ k[n] = IF n < j THEN g[n] ELSE g[n] - f[j] + x
        /\ n + 1 \in 0..MaxChunks /\ n + 1 \in Indices /\ (n + 1) - 1 = n /\ n + 1 # 0
    BY <1>0, <1>5, <2>1 DEF Indices
  <2>3. g[n + 1] = g[n] + f[n + 1] /\ k[n + 1] = k[n] + h[n + 1] /\ f[n + 1] \in Nat
        /\ h[n + 1] = IF n + 1 = j THEN x ELSE f[n + 1]
    BY <1>3, <1>h, <2>2
  <2> QED
    BY <1>0, <2>2, <2>3
<1> HIDE DEF S
<1>6. Nat \subseteq S
  BY <1>4, <1>5, SetInduction
<1>7. g[MaxChunks] \in Int /\ k[MaxChunks] = g[MaxChunks] - f[j] + x
  BY <1>0, <1>6 DEF S
<1> QED
  BY <1>1, <1>2, <1>7 DEF h

-----------------------------------------------------------------------------
(* Sessions against the disk.                                              *)
Works(w, u) == maint[w].op \in {"list", "unlink", "rmdir"} /\ maint[w].upload = u

Counted(u) ==
  /\ bytes[u] = Sum(sizes[u])
  /\ bytes[u] <= MaxUploadBytes
  /\ received[u] \subseteq 1..total[u]

Intact(u) ==
  /\ u \in dirs
  /\ \A i \in received[u] :
       i \in entries[u] /\ (slot[u][i] = Torn \/ sizes[u][i] = Size[slot[u][i]])
  /\ \A w \in Sweepers : ~ Works(w, u)

SessionTables ==
  /\ sizes \in [Uploads -> [Indices -> Nat]]
  /\ received = [u \in Uploads |-> received[u]]
  /\ bytes = [u \in Uploads |-> bytes[u]]
  /\ \A u \in Uploads : slot[u] = [i \in Indices |-> slot[u][i]]

(* What a request may still assume after its first step: an upload that is *)
(* about to be registered is young, so that no prune is at work on it; the *)
(* new total was computed from the session as it still is.                 *)
LoopCounts ==
  /\ loop.op = "register" =>
       loop.upload \in dirs /\ age[loop.upload] = "fresh" /\ loop.upload \notin known
  /\ loop.op = "write" =>
       /\ loop.index \in Indices /\ loop.payload \in Payloads
       /\ loop.upload \in known =>
            /\ loop.index <= total[loop.upload]
            /\ loop.bytes = NewTotal(loop.upload, loop.index, loop.payload)
            /\ loop.bytes <= MaxUploadBytes

SessionInv ==
  SessionTables /\ LoopCounts /\ \A u \in known : Counted(u) /\ Intact(u)

(* All that the steps on sessions need.                                    *)
StorageInv == Inductive /\ UploadInv /\ SessionInv

LEMMA SessionInit == Init => SessionInv
BY DEF Init, StoreInit, Idle, SessionInv, SessionTables, LoopCounts

(* A step that changes no session but may drop some, and removes nothing   *)
(* of those that stay.                                                     *)
LEMMA SessionQuiet ==
  ASSUME StorageInv, UNCHANGED <<total, sizes, received, bytes, slot>>, LoopCounts',
         known' \subseteq known,
         \A u \in known' : /\ u \in dirs => u \in dirs'
                           /\ entries[u] \subseteq entries'[u]
                           /\ \A w \in Sweepers : ~ Works(w, u)'
  PROVE  SessionInv'
<1>1. SessionTables'
  BY DEF StorageInv, SessionInv, SessionTables
<1>2. ASSUME NEW u \in known' PROVE Counted(u)' /\ Intact(u)'
  <2>1. Counted(u) /\ Intact(u)
    BY DEF StorageInv, SessionInv
  <2>2. Counted(u)'
    BY <2>1 DEF Counted
  <2>3. Intact(u)'
    BY <2>1 DEF Intact
  <2> QED
    BY <2>2, <2>3
<1> QED
  BY <1>1, <1>2 DEF SessionInv

(* A request's assumptions outlive the steps of the threads.               *)
LEMMA LoopCountsStay ==
  ASSUME StorageInv, UNCHANGED <<loop, total, sizes, bytes>>, known' \subseteq known,
         loop.op = "register" => loop.upload \in dirs' /\ age'[loop.upload] = "fresh"
  PROVE  LoopCounts'
BY DEF StorageInv, SessionInv, LoopCounts, NewTotal

LEMMA LoopCountsLater ==
  ASSUME loop'.op \notin {"register", "write"}
  PROVE  LoopCounts'
BY DEF LoopCounts

(* The artifact store, its cleanup, and the requests that only look.       *)
LEMMA StoreSessions ==
  ASSUME StorageInv, UNCHANGED <<sessionVars, diskVars>>,
         \/ StoreNext
         \/ \E a \in Artifacts : CompleteCopy(a)
         \/ CompleteCheck \/ CompleteCopyFails \/ \E u \in Uploads : CompleteRead(u)
  PROVE  SessionInv'
<1>1. UNCHANGED <<known, total, sizes, received, bytes, dirs, entries, slot, age>>
  BY DEF sessionVars, diskVars
<1>2. maint = [w \in Sweepers |-> maint[w]]
  BY DEF StorageInv, Inductive, Structure
<1>3. /\ loop' = loop \/ loop'.op \notin {"register", "write"}
      /\ \A w \in Sweepers : maint'[w] = maint[w] \/ maint'[w].op \in {"idle", "cleanup", "remove"}
  <2>1. CASE \E a \in Artifacts : Upload(a) \/ DeleteRead(a) \/ Expires(a)
    BY <2>1 DEF Upload, StoreFile, StoreFails, AfterStore, Idle, DeleteRead, Expires
  <2>2. CASE StoreLoop
    BY <2>2 DEF StoreLoop, InsertRow, InsertRefused, DeleteUnlink, DeleteRow, AfterStore, Idle
  <2>3. ASSUME NEW w \in Sweepers, CleanupRead(w) \/ CleanupStep(w) \/ CleanupAborts(w)
        PROVE  loop' = loop /\ \A v \in Sweepers : maint'[v] = maint[v] \/ maint'[v].op \in {"idle", "cleanup", "remove"}
    <3>1. loop' = loop
      BY <2>3 DEF CleanupRead, CleanupStep, CleanupNext, CleanupRemove, CleanupRemoveFails, CleanupCommit, CleanupAborts
    <3>2. \A v \in Sweepers \ {w} : maint'[v] = maint[v]
      BY <1>2, <2>3 DEF CleanupRead, CleanupStep, CleanupNext, CleanupRemove, CleanupRemoveFails,
                        CleanupCommit, CleanupAborts
    <3>3. maint'[w].op \in {"idle", "cleanup", "remove"}
      <4>1. CASE CleanupRead(w)
        BY <1>2, <4>1 DEF CleanupRead
      <4>2. CASE CleanupNext(w)
        BY <1>2, <4>2 DEF CleanupNext
      <4>3. CASE CleanupRemove(w) \/ CleanupRemoveFails(w)
        BY <1>2, <4>3 DEF CleanupRemove, CleanupRemoveFails
      <4>4. CASE CleanupCommit(w) \/ CleanupAborts(w)
        BY <1>2, <4>4 DEF CleanupCommit, CleanupAborts, Idle
      <4> QED
        BY <2>3, <4>1, <4>2, <4>3, <4>4 DEF CleanupStep
    <3> QED
      BY <3>1, <3>2, <3>3
  <2>4. CASE \E a \in Artifacts : CompleteCopy(a)
    BY <2>4 DEF CompleteCopy, StoreFile, StoreFails, AfterStore, Idle
  <2>5. CASE CompleteCheck \/ CompleteCopyFails \/ \E u \in Uploads : CompleteRead(u)
    BY <2>5 DEF CompleteCheck, CompleteCopyFails, CompleteRead, AfterStore, Idle
  <2> QED
    BY <2>1, <2>2, <2>3, <2>4, <2>5 DEF StoreNext
<1>4. LoopCounts'
  <2>1. loop.op = "register" => loop.upload \in dirs /\ age[loop.upload] = "fresh"
    BY DEF StorageInv, SessionInv, LoopCounts
  <2> QED
    BY <1>1, <1>3, <2>1, LoopCountsStay, LoopCountsLater
<1>5. \A u \in known' : \A w \in Sweepers : ~ Works(w, u)'
  BY <1>1, <1>3 DEF StorageInv, SessionInv, Intact, Works
<1> QED
  BY <1>1, <1>4, <1>5, SessionQuiet

(* The prune: it works on what is no session any more.                     *)
LEMMA PruneSessions ==
  ASSUME StorageInv, NEW w \in Sweepers, PruneRead(w) \/ PruneStep(w)
  PROVE  SessionInv'
<1>1. /\ maint = [v \in Sweepers |-> maint[v]] /\ age = [u \in Uploads |-> age[u]]
      /\ entries = [u \in Uploads |-> entries[u]] /\ known \subseteq Uploads
  BY DEF StorageInv, UploadInv, UploadTables
<1>2. UNCHANGED <<total, sizes, received, bytes, slot, loop>>
  BY DEF PruneRead, PruneStep, PrunePop, PruneOrphan, PruneEnd, RmtreeList, RmtreeUnlink, RmtreeRmdir,
         sessionVars, diskVars
<1>3. loop.op = "register" =>
        loop.upload \in Uploads /\ loop.upload \in dirs /\ age[loop.upload] = "fresh"
  BY DEF StorageInv, UploadInv, UploadTables, SessionInv, LoopCounts
<1>4. \A u \in known : \A v \in Sweepers : ~ Works(v, u)
  BY DEF StorageInv, SessionInv, Intact
<1>5. maint[w].op \in {"list", "unlink", "rmdir"} =>
        /\ maint[w].upload \in Uploads /\ age[maint[w].upload] # "fresh" /\ maint[w].upload \notin known
  BY <1>4 DEF StorageInv, UploadInv, PrunesLapsed, Lapsed, Begun, Works
<1>6. ASSUME known' \subseteq known,
             loop.op = "register" => loop.upload \in dirs' /\ age'[loop.upload] = "fresh",
             \A u \in known' : (u \in dirs => u \in dirs') /\ entries[u] \subseteq entries'[u],
             \A v \in Sweepers \ {w} : maint'[v] = maint[v],
             maint'[w].op \in {"list", "unlink", "rmdir"} => maint'[w].upload \notin known'
      PROVE  SessionInv'
  <2>1. LoopCounts'
    BY <1>2, <1>6, LoopCountsStay
  <2>2. \A u \in known' : \A v \in Sweepers : ~ Works(v, u)'
    BY <1>4, <1>6 DEF Works
  <2> QED
    BY <1>2, <1>6, <2>1, <2>2, SessionQuiet
<1>7. CASE PruneRead(w)
  BY <1>1, <1>3, <1>6, <1>7 DEF PruneRead, sessionVars, diskVars
<1>8. CASE PrunePop(w)
  <2>1. PICK u \in maint[w].todo :
          /\ known' = known \ {u}
          /\ maint' = [maint EXCEPT ![w] =
                        IF u \in known
                        THEN [op |-> "list", upload |-> u, todo |-> maint[w].todo \ {u}]
                        ELSE [op |-> "prune", todo |-> maint[w].todo \ {u}]]
    BY <1>8 DEF PrunePop, Dropped
  <2>2. UNCHANGED <<dirs, entries, age>>
    BY <1>8 DEF PrunePop, diskVars
  <2>3. /\ maint'[w].op \in {"list", "unlink", "rmdir"} => maint'[w].upload \notin known'
        /\ \A v \in Sweepers \ {w} : maint'[v] = maint[v]
    BY <1>1, <2>1
  <2> QED
    BY <1>3, <1>6, <2>1, <2>2, <2>3
<1>9. CASE PruneOrphan(w)
  <2>1. PICK u \in Orphans : maint' = [maint EXCEPT ![w] = [op |-> "list", upload |-> u, todo |-> {}]]
    BY <1>9 DEF PruneOrphan
  <2>2. UNCHANGED <<known, dirs, entries, age>>
    BY <1>9 DEF PruneOrphan, sessionVars, diskVars
  <2> QED
    BY <1>1, <1>3, <1>6, <2>1, <2>2 DEF Orphans
<1>10. CASE PruneEnd(w)
  BY <1>1, <1>3, <1>6, <1>10 DEF PruneEnd, Idle, sessionVars, diskVars
<1>11. CASE RmtreeList(w)
  BY <1>1, <1>3, <1>5, <1>6, <1>11 DEF RmtreeList, sessionVars, diskVars
<1>12. CASE RmtreeUnlink(w)
  <2> DEFINE u == maint[w].upload
  <2>0. age' = age \/ (age[u] = "old" /\ age' = [age EXCEPT ![u] = "stale"])
    BY <1>12, Zenon DEF RmtreeUnlink, Touched
  <2>1. /\ entries' = [entries EXCEPT ![u] = entries[u] \ maint[w].found]
        /\ maint' = [maint EXCEPT ![w] = [op |-> "rmdir", upload |-> u, todo |-> maint[w].todo]]
        /\ UNCHANGED <<known, dirs>> /\ maint[w].op = "unlink"
    BY <1>12 DEF RmtreeUnlink, sessionVars
  <2>2. u \in Uploads /\ age[u] # "fresh" /\ u \notin known
    BY <1>5, <2>1
  <2> HIDE DEF u
  <2>3. /\ maint'[w].upload = u /\ \A v \in Sweepers \ {w} : maint'[v] = maint[v]
    BY <1>1, <2>1
  <2>4. \A v \in known : entries'[v] = entries[v]
    BY <1>1, <2>1, <2>2
  <2>5. loop.op = "register" => age'[loop.upload] = "fresh"
    BY <1>1, <1>3, <2>0, <2>2
  <2> QED
    BY <1>3, <1>6, <2>1, <2>2, <2>3, <2>4, <2>5
<1>13. CASE RmtreeRmdir(w)
  <2>1. /\ dirs' = dirs \/ dirs' = dirs \ {maint[w].upload}
        /\ maint' = [maint EXCEPT ![w] = [op |-> "prune", todo |-> maint[w].todo]]
        /\ UNCHANGED <<known, entries, age>> /\ maint[w].op = "rmdir"
    BY <1>13 DEF RmtreeRmdir, sessionVars
  <2>2. maint'[w].op = "prune" /\ \A v \in Sweepers \ {w} : maint'[v] = maint[v]
    BY <1>1, <2>1
  <2>3. loop.op = "register" => loop.upload \in dirs'
    BY <1>3, <1>5, <2>1
  <2>4. \A u \in known' : u \in dirs => u \in dirs'
    BY <1>5, <2>1
  <2> QED
    BY <1>3, <1>6, <2>1, <2>2, <2>3, <2>4
<1> QED
  BY <1>7, <1>8, <1>9, <1>10, <1>11, <1>12, <1>13 DEF PruneStep

(* The requests.                                                           *)
LEMMA RequestSessions ==
  ASSUME StorageInv, NEW u, u = loop.upload, InitRegister \/ StoreWrite
  PROVE  SessionInv'
<1>1. /\ total = [v \in Uploads |-> total[v]] /\ entries = [v \in Uploads |-> entries[v]]
      /\ slot = [v \in Uploads |-> slot[v]] /\ SessionTables /\ LoopCounts
      /\ \A v \in known : v \in Uploads /\ total[v] \in Indices /\ Counted(v) /\ Intact(v)
      /\ u \in Uploads
  BY DEF StorageInv, Inductive, SessionsHaveChunks, UploadInv, UploadTables, SessionInv, LoopIsFirst,
         Untaken, Begun, InitRegister, StoreWrite
<1>2. CASE InitRegister
  <2>1. /\ loop.op = "register" /\ loop' = Idle
        /\ known' = known \cup {u} /\ total' = [total EXCEPT ![u] = loop.total]
        /\ sizes' = [sizes EXCEPT ![u] = [i \in Indices |-> 0]]
        /\ received' = [received EXCEPT ![u] = {}] /\ bytes' = [bytes EXCEPT ![u] = 0]
        /\ UNCHANGED <<maint, dirs, entries, slot, age>>
    BY <1>2 DEF InitRegister, diskVars
  <2>2. u \in dirs /\ age[u] = "fresh" /\ u \notin known
    BY <1>1, <2>1 DEF LoopCounts
  <2>3. SessionTables'
    BY <1>1, <2>1 DEF SessionTables
  <2>4. LoopCounts'
    BY <2>1 DEF LoopCounts, Idle
  <2>5. ASSUME NEW v \in known PROVE Counted(v)' /\ Intact(v)'
    <3>1. /\ v # u /\ v \in Uploads /\ Counted(v) /\ Intact(v)
      BY <1>1, <2>2
    <3>2. /\ sizes'[v] = sizes[v] /\ received'[v] = received[v] /\ bytes'[v] = bytes[v]
          /\ total'[v] = total[v]
      BY <1>1, <2>1, <3>1 DEF SessionTables
    <3> QED
      BY <2>1, <3>1, <3>2 DEF Counted, Intact, Works
  <2>6. Counted(u)'
    <3>1. sizes'[u] = [i \in Indices |-> 0] /\ received'[u] = {} /\ bytes'[u] = 0
      BY <1>1, <2>1 DEF SessionTables
    <3>2. Sum([i \in Indices |-> 0]) = 0
      BY SumOfNothing
    <3> QED
      BY <3>1, <3>2, LimitAssumption DEF Counted
  <2>7. Intact(u)'
    <3>1. received'[u] = {} /\ u \in dirs'
      BY <1>1, <2>1, <2>2 DEF SessionTables
    <3>2. \A w \in Sweepers : ~ Works(w, u)
      BY <2>2 DEF StorageInv, UploadInv, PrunesLapsed, Lapsed, Works
    <3> QED
      BY <2>1, <3>1, <3>2 DEF Intact, Works
  <2> QED
    BY <2>1, <2>3, <2>4, <2>5, <2>6, <2>7 DEF SessionInv
<1>3. CASE StoreWrite
  <2> PICK i, p : i = loop.index /\ p = loop.payload
    OBVIOUS
  <2>1. /\ loop.op = "write" /\ loop' = Idle /\ UNCHANGED <<known, total, dirs, maint>>
    BY <1>3 DEF StoreWrite
  <2>2. /\ i \in Indices /\ p \in Payloads /\ Size[p] \in Nat
        /\ u \in known => i <= total[u] /\ loop.bytes = NewTotal(u, i, p) /\ loop.bytes <= MaxUploadBytes
    BY <1>1, <2>1, ChunkAssumption DEF LoopCounts
  <2>3. LoopCounts'
    BY <2>1 DEF LoopCounts, Idle
  <2>4. ASSUME NEW what, what = Torn \/ u \notin known, UNCHANGED <<received, bytes, sizes>>,
               \/ UNCHANGED <<entries, slot>>
               \/ /\ entries' = [entries EXCEPT ![u] = entries[u] \cup {i}]
                  /\ slot' = [slot EXCEPT ![u] = [slot[u] EXCEPT ![i] = what]]
        PROVE  SessionInv'
    <3>1. \A v \in Uploads : slot[v] = [j \in Indices |-> slot[v][j]]
      BY <1>1 DEF SessionTables
    <3>2. ASSUME NEW v \in Uploads
          PROVE  /\ entries[v] \subseteq entries'[v]
                 /\ slot'[v] = [j \in Indices |-> slot'[v][j]]
                 /\ v # u => slot'[v] = slot[v]
                 /\ \A j : slot'[v][j] = slot[v][j] \/ slot'[v][j] = what
      <4>1. CASE UNCHANGED <<entries, slot>>
        BY <3>1, <4>1
      <4>2. CASE /\ entries' = [entries EXCEPT ![u] = entries[u] \cup {i}]
                 /\ slot' = [slot EXCEPT ![u] = [slot[u] EXCEPT ![i] = what]]
        <5>1. CASE v = u
          BY <1>1, <2>2, <3>1, <4>2, <5>1
        <5>2. CASE v # u
          BY <1>1, <3>1, <4>2, <5>2
        <5> QED
          BY <5>1, <5>2
      <4> QED
        BY <2>4, <4>1, <4>2
    <3>3. SessionTables'
      BY <1>1, <2>4, <3>2 DEF SessionTables
    <3>4. ASSUME NEW v \in known PROVE Counted(v)'
      BY <1>1, <2>1, <2>4 DEF Counted
    <3>5. ASSUME NEW v \in known PROVE Intact(v)'
      <4>1. /\ entries[v] \subseteq entries'[v] /\ v \in dirs' /\ received'[v] = received[v]
            /\ \A j : slot'[v][j] = slot[v][j] \/ slot'[v][j] = Torn
        BY <1>1, <2>1, <2>4, <3>2 DEF Intact
      <4>2. \A j \in received[v] :
              j \in entries[v] /\ (slot[v][j] = Torn \/ sizes[v][j] = Size[slot[v][j]])
        BY <1>1 DEF Intact
      <4>3. \A w \in Sweepers : ~ Works(w, v)'
        BY <1>1, <2>1 DEF Intact, Works
      <4>4. ASSUME NEW j \in received'[v]
            PROVE  /\ j \in entries'[v]
                   /\ (slot'[v][j] = Torn \/ sizes'[v][j] = Size[slot'[v][j]])
        BY <2>4, <4>1, <4>2
      <4> QED
        BY <4>1, <4>3, <4>4 DEF Intact
    <3> QED
      BY <2>1, <2>3, <3>3, <3>4, <3>5 DEF SessionInv
  <2>5. ASSUME u \in dirs, u \in known,
               /\ entries' = [entries EXCEPT ![u] = entries[u] \cup {i}]
               /\ slot' = [slot EXCEPT ![u] = [slot[u] EXCEPT ![i] = p]]
               /\ received' = [received EXCEPT ![u] = received[u] \cup {i}]
               /\ bytes' = [bytes EXCEPT ![u] = loop.bytes]
               /\ sizes' = [sizes EXCEPT ![u] = [sizes[u] EXCEPT ![i] = Size[p]]]
        PROVE  SessionInv'
    <3>1. /\ entries' = [entries EXCEPT ![u] = entries[u] \cup {i}]
          /\ slot' = [slot EXCEPT ![u] = [slot[u] EXCEPT ![i] = p]]
          /\ received' = [received EXCEPT ![u] = received[u] \cup {i}]
          /\ bytes' = [bytes EXCEPT ![u] = loop.bytes]
          /\ sizes' = [sizes EXCEPT ![u] = [sizes[u] EXCEPT ![i] = Size[p]]]
      BY <2>5
    <3>2. /\ sizes'[u] = [sizes[u] EXCEPT ![i] = Size[p]] /\ sizes[u] \in [Indices -> Nat]
          /\ slot'[u] = [slot[u] EXCEPT ![i] = p] /\ entries'[u] = entries[u] \cup {i}
          /\ received'[u] = received[u] \cup {i} /\ bytes'[u] = loop.bytes
      BY <1>1, <3>1 DEF SessionTables
    <3>3. \A v \in Uploads \ {u} : /\ sizes'[v] = sizes[v] /\ received'[v] = received[v] /\ bytes'[v] = bytes[v]
                                   /\ entries'[v] = entries[v] /\ slot'[v] = slot[v]
      BY <1>1, <3>1 DEF SessionTables
    <3>4. SessionTables'
      <4>1. sizes'[u] \in [Indices -> Nat]
        BY <2>2, <3>2
      <4>2. slot'[u] = [j \in Indices |-> slot'[u][j]]
        BY <1>1, <3>2 DEF SessionTables
      <4>3. sizes' = [v \in Uploads |-> sizes'[v]]
        BY <1>1, <3>1 DEF SessionTables
      <4>4. \A v \in Uploads : sizes'[v] \in [Indices -> Nat] /\ slot'[v] = [j \in Indices |-> slot'[v][j]]
        BY <1>1, <3>3, <4>1, <4>2 DEF SessionTables
      <4>5. received' = [v \in Uploads |-> received'[v]] /\ bytes' = [v \in Uploads |-> bytes'[v]]
        BY <1>1, <3>1 DEF SessionTables
      <4> QED
        BY <4>3, <4>4, <4>5 DEF SessionTables
    <3>5. ASSUME NEW v \in known, v # u PROVE Counted(v)' /\ Intact(v)'
      <4>1. v \in Uploads \ {u} /\ Counted(v) /\ Intact(v)
        BY <1>1, <3>5
      <4>2. Counted(v)'
        BY <2>1, <3>3, <4>1 DEF Counted
      <4>3. Intact(v)'
        BY <2>1, <3>3, <4>1 DEF Intact, Works
      <4> QED
        BY <4>2, <4>3
    <3>6. Counted(u)'
      <4>1. Sum(sizes'[u]) = Sum(sizes[u]) - sizes[u][i] + Size[p]
        BY <2>2, <3>2, SumExcept
      <4>2. bytes[u] = Sum(sizes[u]) /\ received[u] \subseteq 1..total[u] /\ total[u] \in Indices
        BY <1>1, <2>5 DEF Counted
      <4>3. i \in 1..total[u]
        BY <2>2, <2>5, <4>2, ChunkAssumption DEF Indices
      <4> QED
        BY <2>1, <2>2, <2>5, <3>2, <4>1, <4>2, <4>3 DEF Counted, NewTotal
    <3>7. Intact(u)'
      <4>1. Intact(u)
        BY <1>1, <2>5
      <4>2. ASSUME NEW j \in received'[u]
            PROVE  /\ j \in entries'[u]
                   /\ (slot'[u][j] = Torn \/ sizes'[u][j] = Size[slot'[u][j]])
        <5>1. slot[u] = [k \in Indices |-> slot[u][k]]
          BY <1>1 DEF SessionTables
        <5>2. CASE j = i
          BY <2>2, <3>2, <5>1, <5>2
        <5>3. CASE j # i
          <6>1. j \in entries[u] /\ (slot[u][j] = Torn \/ sizes[u][j] = Size[slot[u][j]])
            BY <3>2, <4>1, <5>3 DEF Intact
          <6>2. sizes'[u][j] = sizes[u][j] /\ slot'[u][j] = slot[u][j]
            BY <3>2, <5>1, <5>3
          <6> QED
            BY <3>2, <6>1, <6>2
        <5> QED
          BY <5>2, <5>3
      <4> QED
        BY <2>1, <4>1, <4>2 DEF Intact, Works
    <3> QED
      BY <2>1, <2>3, <3>4, <3>5, <3>6, <3>7 DEF SessionInv
  <2>6. \/ /\ u \in dirs /\ u \in known /\ Written(u, i, p)
           /\ received' = [received EXCEPT ![u] = received[u] \cup {i}]
           /\ bytes' = [bytes EXCEPT ![u] = loop.bytes]
           /\ sizes' = [sizes EXCEPT ![u] = [sizes[u] EXCEPT ![i] = Size[p]]]
        \/ /\ u \notin known /\ Written(u, i, p) /\ UNCHANGED <<received, bytes, sizes>>
        \/ /\ Written(u, i, Torn) /\ UNCHANGED <<received, bytes, sizes>>
        \/ UNCHANGED <<entries, slot, received, bytes, sizes>>
    BY <1>3, Zenon DEF StoreWrite
  <2>7. \A what : Written(u, i, what) =>
          /\ entries' = [entries EXCEPT ![u] = entries[u] \cup {i}]
          /\ slot' = [slot EXCEPT ![u] = [slot[u] EXCEPT ![i] = what]]
    BY DEF Written
  <2> QED
    BY <2>4, <2>5, <2>6, <2>7
<1> QED
  BY <1>2, <1>3

(* Every step.                                                             *)
LEMMA StepSessions == StorageInv /\ [Next]_vars => SessionInv'
<1> SUFFICES ASSUME StorageInv, [Next]_vars PROVE SessionInv'
  OBVIOUS
<1>0. /\ age = [u \in Uploads |-> age[u]] /\ entries = [u \in Uploads |-> entries[u]]
      /\ known \subseteq Uploads /\ LoopCounts
      /\ \A u \in known : age[u] # "none" /\ Counted(u) /\ Intact(u)
  BY DEF StorageInv, UploadInv, UploadTables, OriginsAreBegun, Begun, SessionInv
<1>f. loop.op = "register" =>
        loop.upload \in Uploads /\ loop.upload \in dirs /\ age[loop.upload] = "fresh"
  BY <1>0 DEF LoopCounts, StorageInv, UploadInv, UploadTables
<1>1. CASE Alone(StoreNext) \/ CompleteCheck \/ CompleteCopyFails
           \/ (\E a \in Artifacts : CompleteCopy(a)) \/ \E u \in Uploads : CompleteRead(u)
  <2>1. UNCHANGED <<sessionVars, diskVars>>
    BY <1>1 DEF Alone, CompleteCheck, CompleteCopyFails, CompleteCopy, CompleteRead
  <2> QED
    BY <1>1, <2>1, StoreSessions DEF Alone
<1>2. ASSUME NEW u \in Uploads, InitMkdir(u) PROVE SessionInv'
  <2>1. /\ dirs' = dirs \cup {u} /\ age' = [age EXCEPT ![u] = "fresh"] /\ age[u] = "none"
        /\ UNCHANGED <<known, total, sizes, received, bytes, maint, entries, slot>>
        /\ loop'.op = "register" /\ loop'.upload = u
    BY <1>2 DEF InitMkdir, sessionVars
  <2>2. LoopCounts'
    BY <1>0, <2>1 DEF LoopCounts
  <2>3. \A v \in known' : \A w \in Sweepers : ~ Works(w, v)'
    BY <1>0, <2>1 DEF Intact, Works
  <2> QED
    BY <2>1, <2>2, <2>3, SessionQuiet
<1>3. ASSUME NEW u \in Uploads, NEW i \in Indices, NEW p \in Payloads, StoreRead(u, i, p)
      PROVE  SessionInv'
  <2>1. /\ UNCHANGED <<known, total, sizes, received, bytes, maint, dirs, entries, slot, age>>
        /\ loop' = [op |-> "write", upload |-> u, index |-> i, payload |-> p, bytes |-> NewTotal(u, i, p)]
        /\ i <= total[u] /\ NewTotal(u, i, p) <= MaxUploadBytes
    BY <1>3 DEF StoreRead, sessionVars, diskVars
  <2>2. NewTotal(u, i, p)' = NewTotal(u, i, p)
    BY <2>1 DEF NewTotal
  <2>3. LoopCounts'
    BY <2>1, <2>2 DEF LoopCounts
  <2>4. \A v \in known' : \A w \in Sweepers : ~ Works(w, v)'
    BY <1>0, <2>1 DEF Intact, Works
  <2> QED
    BY <2>1, <2>3, <2>4, SessionQuiet
<1>4. CASE InitRegister \/ StoreWrite
  BY <1>4, RequestSessions
<1>5. CASE Assemble
  <2>1. /\ UNCHANGED <<known, total, sizes, received, bytes, maint, dirs, slot>>
        /\ loop'.op \notin {"register", "write"}
        /\ entries' = entries \/ entries' = [entries EXCEPT ![loop.upload] = entries[loop.upload] \cup {Assembled}]
    BY <1>5 DEF Assemble, sessionVars, Idle
  <2>2. LoopCounts'
    BY <2>1, LoopCountsLater
  <2>3. \A v \in known' : entries[v] \subseteq entries'[v] /\ \A w \in Sweepers : ~ Works(w, v)'
    BY <1>0, <2>1, SMTT(30) DEF Intact, Works
  <2> QED
    BY <2>1, <2>2, <2>3, SessionQuiet
<1>6. CASE CompleteDiscard
  <2> PICK u : u = loop.upload
    OBVIOUS
  <2>1. /\ UNCHANGED <<total, sizes, received, bytes, maint, slot>> /\ loop' = Idle
        /\ known' = known \ {u} /\ dirs \ {u} \subseteq dirs'
        /\ entries' = entries \/ entries' = [entries EXCEPT ![u] = {}]
    BY <1>6 DEF CompleteDiscard, Dropped
  <2>2. LoopCounts'
    BY <2>1, LoopCountsLater DEF Idle
  <2>3. \A v \in known' : entries[v] \subseteq entries'[v] /\ \A w \in Sweepers : ~ Works(w, v)'
    BY <1>0, <2>1 DEF Intact, Works
  <2> QED
    BY <2>1, <2>2, <2>3, SessionQuiet
<1>7. ASSUME NEW w \in Sweepers, PruneRead(w) \/ PruneStep(w) PROVE SessionInv'
  BY <1>7, PruneSessions
<1>8. ASSUME NEW u \in Uploads, Ages(u) PROVE SessionInv'
  <2>1. /\ UNCHANGED <<known, total, sizes, received, bytes, maint, loop, dirs, entries, slot>>
        /\ \/ age' = [age EXCEPT ![u] = "stale"] /\ ~ (loop.op = "register" /\ loop.upload = u)
           \/ age' = [age EXCEPT ![u] = "old"] /\ age[u] = "stale"
    BY <1>8 DEF Ages, sessionVars
  <2>2. loop.op = "register" => age'[loop.upload] = "fresh"
    BY <1>0, <1>f, <2>1
  <2>3. LoopCounts'
    BY <1>f, <2>1, <2>2, LoopCountsStay
  <2>4. \A v \in known' : \A x \in Sweepers : ~ Works(x, v)'
    BY <1>0, <2>1 DEF Intact, Works
  <2> QED
    BY <2>1, <2>3, <2>4, SessionQuiet
<1>9. CASE Restart
  <2>1. /\ UNCHANGED <<total, sizes, received, bytes, slot>> /\ known' = {} /\ loop' = Idle
    BY <1>9 DEF Restart, diskVars
  <2>2. LoopCounts'
    BY <2>1, LoopCountsLater DEF Idle
  <2> QED
    BY <2>1, <2>2, SessionQuiet
<1>10. CASE UNCHANGED vars
  <2>1. UNCHANGED <<known, total, sizes, received, bytes, maint, loop, dirs, entries, slot, age>>
    BY <1>10 DEF vars, sessionVars, diskVars
  <2>2. LoopCounts'
    BY <1>f, <2>1, LoopCountsStay
  <2>3. \A v \in known' : \A w \in Sweepers : ~ Works(w, v)'
    BY <1>0, <2>1 DEF Intact, Works
  <2> QED
    BY <2>1, <2>2, <2>3, SessionQuiet
<1> QED
  BY <1>1, <1>2, <1>3, <1>4, <1>5, <1>6, <1>7, <1>8, <1>9, <1>10 DEF Next, UploadLoop

(* What a session says of its upload, its size, its chunks and which have  *)
(* arrived, is what the disk holds, for every sequence of chunks sent      *)
(* again, failed writes, restarts and prunes meanwhile.                    *)
THEOREM SessionsMatch == Spec => []SessionsMatchDisk
<1>1. StorageInv => SessionsMatchDisk
  BY DEF StorageInv, SessionInv, Counted, Intact, Works, SessionsMatchDisk, TotalIsSumOfSlots,
         KnownUploadsAreIntact
<1>2. Init => StorageInv
  BY InitInductive, UploadInit, SessionInit DEF StorageInv
<1>3. StorageInv /\ [Next]_vars => StorageInv'
  BY StepKeeps, StepUploads, StepSessions DEF StorageInv
<1> QED
  BY <1>1, <1>2, <1>3, PTL DEF Spec
=============================================================================
