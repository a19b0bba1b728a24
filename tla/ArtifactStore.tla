----------------------------- MODULE ArtifactStore -----------------------------
(***************************************************************************)
(* The artifact store (core/artifacts.py): files in artifacts_dir and rows *)
(* in the table artifacts, kept together without a common transaction.     *)
(*                                                                         *)
(* The event loop stores and deletes artifacts, a maintenance thread       *)
(* removes expired ones.  A handler touches the file and the row one after *)
(* the other; between two steps the other thread may run, the statement    *)
(* may be refused, or the process may end.                                 *)
(***************************************************************************)
EXTENDS Integers, Sequences

CONSTANTS
  Artifacts,   \* artifact ids, random and never reused
  Files,       \* contents of the files clients upload in one piece, the empty file included
  Uploads,     \* ids of chunked uploads, which end in an artifact too
  Direct,      \* the origin of an artifact uploaded in one piece
  Torn,        \* whatever a write that failed half-way leaves
  Sweepers     \* maintenance threads

ASSUME DirectAssumption == Direct \notin Uploads
ASSUME FileAssumption   == <<>> \notin Files

VARIABLES
  files,     \* artifacts with a file on disk
  rows,      \* artifacts with a committed row
  expired,   \* rows whose created_at is older than artifact_ttl_days
  content,   \* what was written into the file; <<>> if there never was one
  origin,    \* the chunked upload the artifact was assembled from, or Direct
  loop,      \* the handler the event loop is in
  maint      \* maint[w]: the sweep thread w is in

storeVars == <<files, rows, expired, content, origin>>

-----------------------------------------------------------------------------
Idle == [op |-> "idle"]

(* Where the handler goes on after the store.                              *)
AfterStore(from) == IF from = Direct THEN Idle ELSE [op |-> "discard", upload |-> from]

(* A cleanup that has executed its first DELETE holds the write lock until *)
(* it commits.                                                             *)
HoldsLock(w) == maint[w].op \in {"cleanup", "remove"} /\ maint[w].gone # {}
Locked       == \E w \in Sweepers : HoldsLock(w)

-----------------------------------------------------------------------------
(* Plausible slips in the operators below.                                 *)

Expired_AnyRow                == rows
Expired_WithFile              == rows \cap expired \cap files
AfterFailedUnlink_DropsRow(w) == maint[w].gone \cup {maint[w].id}

-----------------------------------------------------------------------------
(* store_artifact_from_file up to the INSERT: a new id and its file.       *)
StoreFile(a, c, from) ==
  /\ content[a] = <<>>
  /\ files'   = files \cup {a}
  /\ content' = [content EXCEPT ![a] = c]
  /\ origin'  = [origin EXCEPT ![a] = from]
  /\ loop'    = [op |-> "insert", id |-> a]
  /\ UNCHANGED <<rows, expired, maint>>

(* The copy fails half-way: the file stays and no row is inserted.         *)
StoreFails(a, from) ==
  /\ content[a] = <<>>
  /\ files'   = files \cup {a}
  /\ content' = [content EXCEPT ![a] = <<Torn>>]
  /\ origin'  = [origin EXCEPT ![a] = from]
  /\ loop'    = AfterStore(from)
  /\ UNCHANGED <<rows, expired, maint>>

(* storage_upload, after the request body has been read.                   *)
Upload(a) ==
  /\ loop = Idle
  /\ StoreFails(a, Direct) \/ \E c \in Files : StoreFile(a, c, Direct)

(* The INSERT and its commit.                                              *)
InsertRow ==
  /\ loop.op = "insert"
  /\ ~ Locked
  /\ rows' = rows \cup {loop.id}
  /\ loop' = AfterStore(origin[loop.id])
  /\ UNCHANGED <<files, expired, content, origin, maint>>

(* The INSERT is refused: the node in created_by was deleted meanwhile, or *)
(* the database stayed locked.  Nobody removes the file.                   *)
InsertRefused ==
  /\ loop.op = "insert"
  /\ loop' = AfterStore(origin[loop.id])
  /\ UNCHANGED <<storeVars, maint>>

(* delete_artifact: the row and its owner check, and path.exists.          *)
DeleteRead(a) ==
  /\ loop = Idle
  /\ a \in rows
  /\ loop' = [op |-> "unlink", id |-> a, there |-> a \in files]
  /\ UNCHANGED <<storeVars, maint>>

(* path.unlink; if it raises, the request fails and the row stays.         *)
DeleteUnlink ==
  /\ loop.op = "unlink"
  /\ \/ /\ loop.there => loop.id \in files
        /\ files' = files \ {loop.id}
        /\ loop' = [op |-> "delete", id |-> loop.id]
     \/ /\ loop.there
        /\ loop' = Idle
        /\ UNCHANGED files
  /\ UNCHANGED <<rows, expired, content, origin, maint>>

(* DELETE and commit, or the database stayed locked.                       *)
DeleteRow ==
  /\ loop.op = "delete"
  /\ loop' = Idle
  /\ \/ /\ ~ Locked
        /\ rows' = rows \ {loop.id}
        /\ expired' = expired \ {loop.id}
     \/ UNCHANGED <<rows, expired>>
  /\ UNCHANGED <<files, content, origin, maint>>

-----------------------------------------------------------------------------
(* cleanup_expired_artifacts: the rows older than the TTL.                 *)
Expired == rows \cap expired

CleanupRead(w) ==
  /\ maint[w] = Idle
  /\ Expired # {}
  /\ maint' = [maint EXCEPT ![w] = [op |-> "cleanup", todo |-> Expired, gone |-> {}]]
  /\ UNCHANGED <<storeVars, loop>>

(* _delete_artifact_rows: the next row, and p.exists.                      *)
CleanupNext(w) ==
  /\ maint[w].op = "cleanup"
  /\ \E a \in maint[w].todo :
       maint' = [maint EXCEPT ![w] =
                   [ op |-> "remove", id |-> a, there |-> a \in files,
                     todo |-> @.todo \ {a}, gone |-> @.gone ]]
  /\ UNCHANGED <<storeVars, loop>>

(* The rows to delete after an unlink that raised: F-14 keeps this one.    *)
AfterFailedUnlink(w) == maint[w].gone

(* p.unlink and the DELETE of the row, which waits for the write lock.     *)
CleanupRemove(w) ==
  LET sweep == maint[w] IN
  /\ sweep.op = "remove"
  /\ sweep.there => sweep.id \in files
  /\ \A v \in Sweepers \ {w} : ~ HoldsLock(v)
  /\ files' = files \ {sweep.id}
  /\ maint' = [maint EXCEPT ![w] = [ op |-> "cleanup", todo |-> sweep.todo,
                                    gone |-> sweep.gone \cup {sweep.id} ]]
  /\ UNCHANGED <<rows, expired, content, origin, loop>>

(* p.unlink raises: the file cannot be removed, or the loop was faster.    *)
CleanupRemoveFails(w) ==
  LET sweep == maint[w] IN
  /\ sweep.op = "remove"
  /\ sweep.there
  /\ maint' = [maint EXCEPT ![w] = [ op |-> "cleanup", todo |-> sweep.todo,
                                    gone |-> AfterFailedUnlink(w) ]]
  /\ UNCHANGED <<storeVars, loop>>

(* One commit for the whole sweep.                                         *)
CleanupCommit(w) ==
  /\ maint[w].op = "cleanup"
  /\ maint[w].todo = {}
  /\ rows'    = rows \ maint[w].gone
  /\ expired' = expired \ maint[w].gone
  /\ maint'   = [maint EXCEPT ![w] = Idle]
  /\ UNCHANGED <<files, content, origin, loop>>

(* The DELETE or the commit is refused: the sweep raises and rolls back.   *)
CleanupAborts(w) ==
  /\ maint[w].op = "cleanup"
  /\ maint[w].gone # {}
  /\ maint' = [maint EXCEPT ![w] = Idle]
  /\ UNCHANGED <<storeVars, loop>>

(* A row passes the TTL.                                                   *)
Expires(a) ==
  /\ a \in rows \ expired
  /\ expired' = expired \cup {a}
  /\ UNCHANGED <<files, rows, content, origin, loop, maint>>

-----------------------------------------------------------------------------
StoreInit ==
  /\ files = {} /\ rows = {} /\ expired = {}
  /\ content = [a \in Artifacts |-> <<>>]
  /\ origin = [a \in Artifacts |-> Direct]

StoreLoop == InsertRow \/ InsertRefused \/ DeleteUnlink \/ DeleteRow
CleanupStep(w) ==
  CleanupNext(w) \/ CleanupRemove(w) \/ CleanupRemoveFails(w) \/ CleanupCommit(w)

StoreNext ==
  \/ \E a \in Artifacts : Upload(a) \/ DeleteRead(a) \/ Expires(a)
  \/ StoreLoop
  \/ \E w \in Sweepers : CleanupRead(w) \/ CleanupStep(w) \/ CleanupAborts(w)
=============================================================================
