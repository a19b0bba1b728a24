----------------------------- MODULE ChunkedUpload -----------------------------
(***************************************************************************)
(* Chunked uploads (core/chunked_upload.py and the chunked endpoints of    *)
(* api/v2/storage.py) on top of the artifact store they end in.            *)
(*                                                                         *)
(* A session is an entry of the manager's dictionary and a directory with  *)
(* one file per chunk.  The event loop creates, fills and completes        *)
(* sessions; prune_stale, on a maintenance thread, drops old sessions and  *)
(* unknown old directories.  Neither takes a lock: every access to the     *)
(* dictionary or to the directory is a step of its own.  A restart empties *)
(* the dictionary and keeps the directories.                               *)
(***************************************************************************)
EXTENDS ArtifactStore

CONSTANTS
  MaxChunks,      \* the most chunks a client may announce
  Payloads,       \* what a chunk may hold
  Size,           \* its size
  MaxChunkSize,   \* settings.max_chunk_size
  MaxUploadBytes  \* settings.max_upload_bytes

Assembled == 0                  \* the directory entry "complete"
Indices   == 1..MaxChunks       \* the entries chunk_0000, chunk_0001, ...

ASSUME ChunkAssumption == MaxChunks \in Nat /\ Size \in [Payloads -> Nat]
ASSUME LimitAssumption == MaxChunkSize \in Nat /\ MaxUploadBytes \in Nat
ASSUME TornAssumption  == Torn \notin Payloads

VARIABLES
  known,     \* the uploads in _sessions
  total,     \* total_chunks of a session
  sizes,     \* chunk_sizes, 0 for a chunk that has not been received
  received,  \* received
  bytes,     \* total_bytes
  dirs,      \* the uploads whose directory exists
  entries,   \* what is in the directory
  slot,      \* what was last written into a chunk file
  age        \* none; fresh; stale: created_at before the cutoff; old: the directory's mtime too

sessionVars == <<known, total, sizes, received, bytes>>
diskVars    == <<dirs, entries, slot, age>>
vars        == <<storeVars, loop, maint, sessionVars, diskVars>>

-----------------------------------------------------------------------------
(* The sum of a value for each chunk.                                      *)
Sum(f) ==
  LET sum[i \in 0..MaxChunks] == IF i = 0 THEN 0 ELSE sum[i - 1] + f[i]
  IN  sum[MaxChunks]

(* A new directory entry renews the mtime.                                 *)
Touched(u) == IF age[u] = "old" THEN [age EXCEPT ![u] = "stale"] ELSE age

-----------------------------------------------------------------------------
(* Plausible slips in the operators below.                                 *)

NewTotal_Cumulative(u, i, p) == bytes[u] + Size[p]
Stale_All                    == known
Dropped_Nothing(u)           == known
Orphans_None                 == {}

-----------------------------------------------------------------------------
(* init_upload: the directory, then the dictionary entry.                  *)
InitMkdir(u) ==
  /\ loop = Idle
  /\ age[u] = "none"
  /\ dirs' = dirs \cup {u}
  /\ age'  = [age EXCEPT ![u] = "fresh"]
  /\ \E n \in 1..MaxChunks : loop' = [op |-> "register", upload |-> u, total |-> n]
  /\ UNCHANGED <<storeVars, maint, sessionVars, entries, slot>>

InitRegister ==
  LET u == loop.upload IN
  /\ loop.op = "register"
  /\ known'    = known \cup {u}
  /\ total'    = [total EXCEPT ![u] = loop.total]
  /\ sizes'    = [sizes EXCEPT ![u] = [i \in Indices |-> 0]]
  /\ received' = [received EXCEPT ![u] = {}]
  /\ bytes'    = [bytes EXCEPT ![u] = 0]
  /\ loop'     = Idle
  /\ UNCHANGED <<storeVars, maint, diskVars>>

(* store_chunk up to the write: the session and the limits.  A chunk that  *)
(* is sent again replaces its slot.                                        *)
NewTotal(u, i, p) == bytes[u] - sizes[u][i] + Size[p]

StoreRead(u, i, p) ==
  /\ loop = Idle
  /\ u \in known
  /\ i <= total[u]
  /\ Size[p] <= MaxChunkSize
  /\ NewTotal(u, i, p) <= MaxUploadBytes
  /\ loop' = [op |-> "write", upload |-> u, index |-> i, payload |-> p,
              bytes |-> NewTotal(u, i, p)]
  /\ UNCHANGED <<storeVars, maint, sessionVars, diskVars>>

(* What write_bytes leaves in a slot.                                      *)
Written(u, i, what) ==
  /\ entries' = [entries EXCEPT ![u] = @ \cup {i}]
  /\ slot'    = [slot EXCEPT ![u][i] = what]
  /\ age'     = IF i \in entries[u] THEN age ELSE Touched(u)

(* The write and the bookkeeping, which is lost if the session was dropped *)
(* meanwhile.  A write that fails half-way has truncated the slot, and the *)
(* bookkeeping still describes the chunk that was there.  The slot cannot  *)
(* even be opened without the directory, and need not be with it.          *)
StoreWrite ==
  LET u == loop.upload
      i == loop.index
  IN
  /\ loop.op = "write"
  /\ loop' = Idle
  /\ \/ /\ u \in dirs
        /\ Written(u, i, loop.payload)
        /\ IF u \in known
           THEN /\ received' = [received EXCEPT ![u] = @ \cup {i}]
                /\ bytes'    = [bytes EXCEPT ![u] = loop.bytes]
                /\ sizes'    = [sizes EXCEPT ![u][i] = Size[loop.payload]]
           ELSE UNCHANGED <<received, bytes, sizes>>
     \/ /\ u \in dirs
        /\ Written(u, i, Torn)
        /\ UNCHANGED <<received, bytes, sizes>>
     \/ UNCHANGED <<entries, slot, age, received, bytes, sizes>>
  /\ UNCHANGED <<storeVars, maint, known, total, dirs>>

(* complete_upload: the session has all of its chunks.                     *)
Complete(u) == received[u] = 1..total[u]

CompleteRead(u) ==
  /\ loop = Idle
  /\ u \in known
  /\ Complete(u)
  /\ loop' = [op |-> "assemble", upload |-> u]
  /\ UNCHANGED <<storeVars, maint, sessionVars, diskVars>>

(* The chunks are read into the file "complete", as they are: only their   *)
(* number was checked.  The request ends there if the directory or a chunk *)
(* is gone, a read or write fails, or the checksum is another one.         *)
Assemble ==
  LET u     == loop.upload
      whole == 1..total[u]
  IN
  /\ loop.op = "assemble"
  /\ \/ /\ u \in dirs
        /\ entries' = [entries EXCEPT ![u] = @ \cup {Assembled}]
        /\ age'     = IF Assembled \in entries[u] THEN age ELSE Touched(u)
        /\ \/ loop' = Idle
           \/ /\ whole \subseteq entries[u]
              /\ loop' = [ op |-> "check", upload |-> u,
                           content |-> [i \in whole |-> slot[u][i]] ]
     \/ /\ loop' = Idle
        /\ UNCHANGED <<entries, age>>
  /\ UNCHANGED <<storeVars, maint, sessionVars, dirs, slot>>

(* chunked_complete looks the session up once more.                        *)
CompleteCheck ==
  /\ loop.op = "check"
  /\ loop' = IF loop.upload \in known
             THEN [op |-> "copy", upload |-> loop.upload, content |-> loop.content]
             ELSE Idle
  /\ UNCHANGED <<storeVars, maint, sessionVars, diskVars>>

(* store_artifact_from_file, if the assembled file is still there; it may  *)
(* fail half-way, or before it has opened the new file.                    *)
CompleteCopy(a) ==
  /\ loop.op = "copy"
  /\ loop.upload \in dirs /\ Assembled \in entries[loop.upload]
  /\ StoreFile(a, loop.content, loop.upload) \/ StoreFails(a, loop.upload)
  /\ UNCHANGED <<sessionVars, diskVars>>

CompleteCopyFails ==
  /\ loop.op = "copy"
  /\ loop' = AfterStore(loop.upload)
  /\ UNCHANGED <<storeVars, maint, sessionVars, diskVars>>

(* discard_session, however the store ended; nothing if the prune thread   *)
(* has dropped the session.                                                *)
Dropped(u) == known \ {u}

CompleteDiscard ==
  LET u == loop.upload IN
  /\ loop.op = "discard"
  /\ loop' = Idle
  /\ known' = Dropped(u)
  /\ \/ /\ u \in known
        /\ dirs' = dirs \ {u}
        /\ entries' = [entries EXCEPT ![u] = {}]
     \/ /\ u \notin known
        /\ UNCHANGED <<dirs, entries>>
  /\ UNCHANGED <<storeVars, maint, total, sizes, received, bytes, slot, age>>

-----------------------------------------------------------------------------
(* prune_stale: the sessions created before the cutoff.                    *)
Stale   == {u \in known : age[u] # "fresh"}
Orphans == {u \in dirs \ known : age[u] = "old"}

PruneRead(w) ==
  /\ maint[w] = Idle
  /\ Stale \cup Orphans # {}
  /\ maint' = [maint EXCEPT ![w] = [op |-> "prune", todo |-> Stale]]
  /\ UNCHANGED <<storeVars, loop, sessionVars, diskVars>>

(* discard_session of the next one, unless the loop was faster: the entry  *)
(* is popped, then the directory is removed.                               *)
PrunePop(w) ==
  /\ maint[w].op = "prune"
  /\ \E u \in maint[w].todo :
       /\ known' = Dropped(u)
       /\ maint' = [maint EXCEPT ![w] =
                      IF u \in known
                      THEN [op |-> "list", upload |-> u, todo |-> @.todo \ {u}]
                      ELSE [op |-> "prune", todo |-> @.todo \ {u}]]
  /\ UNCHANGED <<storeVars, loop, total, sizes, received, bytes, diskVars>>

(* The orphan pass: a directory of no session whose mtime is old as well.  *)
PruneOrphan(w) ==
  /\ maint[w].op = "prune"
  /\ maint[w].todo = {}
  /\ \E u \in Orphans :
       maint' = [maint EXCEPT ![w] = [op |-> "list", upload |-> u, todo |-> {}]]
  /\ UNCHANGED <<storeVars, loop, sessionVars, diskVars>>

(* The pass ends, early if a directory it looks at vanishes under it.      *)
PruneEnd(w) ==
  /\ maint[w].op = "prune"
  /\ maint[w].todo = {}
  /\ Orphans = {} \/ loop.op = "discard"
  /\ maint' = [maint EXCEPT ![w] = Idle]
  /\ UNCHANGED <<storeVars, loop, sessionVars, diskVars>>

(* shutil.rmtree: list the entries, remove those, remove the directory if  *)
(* it is empty; errors are ignored.                                        *)
RmtreeList(w) ==
  /\ maint[w].op = "list"
  /\ maint' = [maint EXCEPT ![w] = [ op |-> "unlink", upload |-> @.upload, todo |-> @.todo,
                                     found |-> entries[@.upload] ]]
  /\ UNCHANGED <<storeVars, loop, sessionVars, diskVars>>

RmtreeUnlink(w) ==
  LET u == maint[w].upload IN
  /\ maint[w].op = "unlink"
  /\ entries' = [entries EXCEPT ![u] = @ \ maint[w].found]
  /\ age'     = IF maint[w].found = {} THEN age ELSE Touched(u)
  /\ maint'   = [maint EXCEPT ![w] = [op |-> "rmdir", upload |-> u, todo |-> @.todo]]
  /\ UNCHANGED <<storeVars, loop, sessionVars, dirs, slot>>

RmtreeRmdir(w) ==
  LET u == maint[w].upload IN
  /\ maint[w].op = "rmdir"
  /\ dirs'  = IF entries[u] = {} THEN dirs \ {u} ELSE dirs
  /\ maint' = [maint EXCEPT ![w] = [op |-> "prune", todo |-> @.todo]]
  /\ UNCHANGED <<storeVars, loop, sessionVars, entries, slot, age>>

-----------------------------------------------------------------------------
(* An hour passes.  A request and a sweep take less than that.             *)
Ages(u) ==
  /\ \/ /\ age[u] = "fresh"
        /\ ~ (loop.op = "register" /\ loop.upload = u)
        /\ age' = [age EXCEPT ![u] = "stale"]
     \/ /\ age[u] = "stale"
        /\ u \in dirs
        /\ \A w \in Sweepers : maint[w] = Idle
        /\ age' = [age EXCEPT ![u] = "old"]
  /\ UNCHANGED <<storeVars, loop, maint, sessionVars, dirs, entries, slot>>

(* The process ends and starts again.                                      *)
Restart ==
  /\ known # {} \/ loop # Idle \/ \E w \in Sweepers : maint[w] # Idle
  /\ known' = {}
  /\ loop'  = Idle
  /\ maint' = [w \in Sweepers |-> Idle]
  /\ UNCHANGED <<storeVars, total, sizes, received, bytes, diskVars>>

-----------------------------------------------------------------------------
Init ==
  /\ StoreInit
  /\ known = {}
  /\ total = [u \in Uploads |-> 0]
  /\ sizes = [u \in Uploads |-> [i \in Indices |-> 0]]
  /\ received = [u \in Uploads |-> {}]
  /\ bytes = [u \in Uploads |-> 0]
  /\ dirs = {}
  /\ entries = [u \in Uploads |-> {}]
  /\ slot \in [Uploads -> [Indices -> {CHOOSE p \in Payloads : TRUE}]]
  /\ age = [u \in Uploads |-> "none"]
  /\ loop = Idle
  /\ maint = [w \in Sweepers |-> Idle]

UploadLoop ==
  \/ InitRegister \/ StoreWrite
  \/ Assemble \/ CompleteCheck \/ CompleteCopyFails \/ CompleteDiscard
  \/ \E a \in Artifacts : CompleteCopy(a)

PruneStep(w) ==
  PrunePop(w) \/ PruneOrphan(w) \/ PruneEnd(w) \/ RmtreeList(w) \/ RmtreeUnlink(w) \/ RmtreeRmdir(w)

(* A step of the artifact store, seen from here.                           *)
Alone(step) == step /\ UNCHANGED <<sessionVars, diskVars>>

Next ==
  \/ Alone(StoreNext)
  \/ \E u \in Uploads :
       \/ InitMkdir(u) \/ CompleteRead(u) \/ Ages(u)
       \/ \E i \in Indices, p \in Payloads : StoreRead(u, i, p)
  \/ UploadLoop
  \/ \E w \in Sweepers : PruneRead(w) \/ PruneStep(w)
  \/ Restart

Spec == Init /\ [][Next]_vars

(* Fairness.  The server is not restarted for ever, requests under way     *)
(* end, and a sweep under way ends.                                        *)
Runs ==
  /\ <>[][~ Restart]_vars
  /\ WF_vars(UploadLoop \/ Alone(StoreLoop))
  /\ \A w \in Sweepers : WF_vars(PruneStep(w)) /\ WF_vars(Alone(CleanupStep(w)))

(* prune_stale has its turns and time passes.                              *)
PruneTurns ==
  /\ Runs
  /\ \A w \in Sweepers : SF_vars(PruneRead(w))
  /\ \A u \in Uploads : SF_vars(Ages(u))

(* The artifact cleanup has its turns, the database is not locked beyond   *)
(* the busy timeout for ever, and not every unlink fails.                  *)
CleanupTurns ==
  /\ Runs
  /\ <>[][\A w \in Sweepers : ~ CleanupAborts(w)]_vars
  /\ \A w \in Sweepers : SF_vars(Alone(CleanupRead(w))) /\ SF_vars(Alone(CleanupRemove(w)))

-----------------------------------------------------------------------------
Contents == Seq(Payloads \cup {Torn})
Entries  == Indices \cup {Assembled}

LoopState ==
  {Idle}
  \cup [op : {"insert", "delete"}, id : Artifacts]
  \cup [op : {"unlink"}, id : Artifacts, there : BOOLEAN]
  \cup [op : {"discard", "assemble"}, upload : Uploads]
  \cup [op : {"register"}, upload : Uploads, total : Indices]
  \cup [op : {"write"}, upload : Uploads, index : Indices, payload : Payloads, bytes : Nat]
  \cup [op : {"check", "copy"}, upload : Uploads, content : Contents]

SweepState ==
  {Idle}
  \cup [op : {"cleanup"}, todo : SUBSET Artifacts, gone : SUBSET Artifacts]
  \cup [op : {"remove"}, id : Artifacts, there : BOOLEAN, todo : SUBSET Artifacts, gone : SUBSET Artifacts]
  \cup [op : {"prune"}, todo : SUBSET Uploads]
  \cup [op : {"list", "rmdir"}, upload : Uploads, todo : SUBSET Uploads]
  \cup [op : {"unlink"}, upload : Uploads, todo : SUBSET Uploads, found : SUBSET Entries]

(* Types.  An id is spent with its file, and only rows expire.             *)
TypeOK ==
  /\ files \subseteq Artifacts /\ rows \subseteq Artifacts /\ expired \subseteq rows
  /\ content \in [Artifacts -> Contents]
  /\ \A a \in files \cup rows : content[a] # <<>>
  /\ origin \in [Artifacts -> Uploads \cup {Direct}]
  /\ known \subseteq Uploads /\ dirs \subseteq Uploads
  /\ total \in [Uploads -> 0..MaxChunks]
  /\ sizes \in [Uploads -> [Indices -> 0..MaxChunkSize]]
  /\ received \in [Uploads -> SUBSET Indices]
  /\ bytes \in [Uploads -> Nat]
  /\ entries \in [Uploads -> SUBSET Entries]
  /\ slot \in [Uploads -> [Indices -> Payloads \cup {Torn}]]
  /\ age \in [Uploads -> {"none", "fresh", "stale", "old"}]
  /\ loop \in LoopState
  /\ maint \in [Sweepers -> SweepState]

(* F-15a: the total is the sum of the sizes that were acknowledged last,   *)
(* however often chunks are sent again and whichever writes fail, and      *)
(* stays within the limit.                                                 *)
TotalIsSumOfSlots ==
  \A u \in known :
    /\ bytes[u] = Sum(sizes[u])
    /\ bytes[u] <= MaxUploadBytes
    /\ received[u] \subseteq 1..total[u]

(* A session clients can reach has its directory, with every chunk that    *)
(* was acknowledged, of the size it was acknowledged with unless a later   *)
(* write of that chunk failed half-way; no sweep is at work on it.         *)
KnownUploadsAreIntact ==
  \A u \in known :
    /\ u \in dirs
    /\ \A i \in received[u] :
         i \in entries[u] /\ (slot[u][i] = Torn \/ sizes[u][i] = Size[slot[u][i]])
    /\ \A w \in Sweepers :
         maint[w].op \in {"list", "unlink", "rmdir"} => maint[w].upload # u

(* What a session says of its upload, its size and its chunks, is what the *)
(* disk holds, whatever was sent again or pruned meanwhile, except for the *)
(* slots in which a write failed half-way since.                           *)
SessionsMatchDisk == TotalIsSumOfSlots /\ KnownUploadsAreIntact

(* An artifact made of chunks was made once every chunk had been received, *)
(* and holds what their slots held then and still hold, in order and as    *)
(* sent last, or as a later write that failed half-way left them, which    *)
(* only a checksum notices.  No other file was made of the upload, stored  *)
(* or half-way: it has ended, or ends before the next request.             *)
ArtifactIsWholeUpload ==
  \A a \in Artifacts :
    LET u == origin[a] IN
    u # Direct =>
      /\ a \in rows =>
           /\ content[a] = [i \in 1..total[u] |-> slot[u][i]]
           /\ Complete(u)
      /\ \A b \in Artifacts \ {a} : origin[b] # u
      /\ u \in known => loop \in {[op |-> "insert", id |-> a], [op |-> "discard", upload |-> u]}

(* F-15b: until it is an hour old, an upload loses its session only to its *)
(* own completion or to a restart, and nothing of its directory but to the *)
(* former, so that the chunks survive a restart.                           *)
YoungUploadsSurvive ==
  [][\A u \in Uploads :
       age[u] = "fresh" /\ ~ (loop.op = "discard" /\ loop.upload = u) =>
         /\ u \in known => u \in known' \/ Restart
         /\ u \in dirs => u \in dirs'
         /\ entries[u] \subseteq entries'[u]]_vars

(* F-14: a row is only deleted together with its file; no delete or sweep, *)
(* racing or failing half-way, leaves a file nobody knows of.              *)
RowsGoAfterTheirFiles ==
  [][\A a \in rows \ rows' : a \notin files']_vars

(* T-165: an artifact within its TTL loses its file to a delete request    *)
(* only.                                                                   *)
YoungArtifactsSurvive ==
  [][\A a \in files \ files' :
       a \in expired \/ (loop.op = "unlink" /\ loop.id = a)]_vars

(* Given the prune's turns, every upload directory is removed in the end:  *)
(* completed, abandoned, lost in a restart, or left behind by a removal    *)
(* that raced with a last chunk.                                           *)
StagingIsReaped ==
  PruneTurns => \A u \in Uploads : u \in dirs ~> u \notin dirs

(* Given the cleanup's turns, an expired artifact is gone in the end, also *)
(* when earlier attempts to delete it lost its file and kept its row.      *)
ExpiredArtifactsGo ==
  CleanupTurns => \A a \in Artifacts : a \in expired ~> a \notin rows

-----------------------------------------------------------------------------
(* What docstrings say and the code does not do.                           *)

\* store_chunk: the total is the sum of the current on-disk slot sizes.
TotalIsSumOnDisk ==
  \A u \in known : \A i \in received[u] :
    slot[u][i] # Torn /\ sizes[u][i] = Size[slot[u][i]]
=============================================================================
