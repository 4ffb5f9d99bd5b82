---------------------------- MODULE FileLifecycle ----------------------------
(***************************************************************************)
(* The life of an uploaded file: app/api/v1/files.py and                   *)
(* app/services/file_service.py over two stores, the PostgreSQL tables     *)
(* files and file_chunks and the MinIO bucket, that share no transaction.  *)
(*                                                                         *)
(* One asyncio process runs every handler and background task, so the code *)
(* between two awaits is one step; a MinIO call, the parser and the        *)
(* splitter are synchronous and belong to the step that reaches them.  An  *)
(* awaited database call or commit takes effect at one moment between the  *)
(* step that issues it and the step that resumes from it, so it is a step  *)
(* of its own.  files.deleted_at is written nowhere, hence always NULL,    *)
(* and the filters on it are left out.                                     *)
(***************************************************************************)
EXTENDS Integers, FiniteSets

CONSTANTS
  Files,       \* one element per POST /files request, with the id it generates
  Users,
  Owner,       \* the authenticated user of each upload
  Deletes,     \* one element per DELETE /files/{id} request
  MaxChunks,   \* most chunks the splitter cuts a document into
  MaxCrashes,  \* most process crashes in a behaviour
  Faults       \* the kinds of failure that may happen

FaultKinds == {"store",   \* a MinIO call raises
               "db",      \* a statement or commit fails: outage, constraint
               "save",    \* only the batch insert of chunks is refused
               "parse",   \* the parser or splitter raises an unforeseen error
               "embed",   \* the embedding request fails
               "crash"}   \* the process dies

ASSUME ParametersOK ==
  /\ Owner \in [Files -> Users]
  /\ MaxChunks \in Nat
  /\ MaxCrashes \in Nat
  /\ Faults \subseteq FaultKinds

IndexStatus == {"pending", "indexing", "indexed", "failed", "unsupported"}
NoRow == "none"

VARIABLES
  row,       \* files.index_status, or NoRow
  chunks,    \* the chunk_index values in file_chunks of each file
  objects,   \* the files with an object under their minio_path
  upload,    \* where the upload handler stands, or how it answered
  task,      \* where the index_file background task stands
  plan,      \* length of its chunks_to_insert
  deletion,  \* where each delete request stands
  gone,      \* files whose deletion was answered 204
  crashes

vars == <<row, chunks, objects, upload, task, plan, deletion, gone, crashes>>

UploadState == {"new", "stored", "inserted",    \* before put, commit, refresh
                "accepted",                     \* 201
                "rejected",                     \* 413 or 415
                "error",                        \* no answer or 500, no row
                "unconfirmed"}                  \* no answer or 500, committed
TaskState == {"none", "scheduled", "selected", "marked", "embedding", "saving",
              "failing", "unsupported", "ended", "aborted"}
DeletionState == {"new", "found", "removed",    \* before select, object, row
                  "deleted", "missing",           \* 204, 404
                  "refused", "error"}             \* 500, before and after select

Init ==
  /\ row      = [f \in Files |-> NoRow]
  /\ chunks   = [f \in Files |-> {}]
  /\ objects  = {}
  /\ upload   = [f \in Files |-> "new"]
  /\ task     = [f \in Files |-> "none"]
  /\ plan     = [f \in Files |-> 0]
  /\ deletion \in [Deletes -> [pc : {"new"}, user : Users, file : Files]]
  /\ gone     = {}
  /\ crashes  = 0

-----------------------------------------------------------------------------
(* What a client reads. *)

ListFiles(u) == {f \in Files : row[f] # NoRow /\ Owner[f] = u}

(* Faulty variant: the filter on user_id is lost. *)
GetFileOfAnyone(u, f) == row[f] # NoRow

GetFile(u, f) == row[f] # NoRow /\ Owner[f] = u

(* GET /files/{id}/download presigns a URL without looking for the object. *)
DownloadUrl(u, f) == GetFile(u, f)

(* The chunks that can be hits, whatever the distance threshold and limit. *)
SearchableChunks(u, f) == IF GetFile(u, f) THEN chunks[f] ELSE {}

-----------------------------------------------------------------------------
(* POST /files *)

(* 415 for the extension, 413 for a size above max_upload_size_bytes. *)
UploadReject(f) ==
  /\ upload[f] = "new"
  /\ upload' = [upload EXCEPT ![f] = "rejected"]
  /\ UNCHANGED <<row, chunks, objects, task, plan, deletion, gone, crashes>>

(* Faulty variant: an error of put_object is swallowed. *)
UploadPutUnchecked(f) ==
  /\ upload[f] = "new"
  /\ \/ objects' = objects \cup {f}
     \/ "store" \in Faults /\ UNCHANGED objects
  /\ upload' = [upload EXCEPT ![f] = "stored"]
  /\ UNCHANGED <<row, chunks, task, plan, deletion, gone, crashes>>

(* put_object.  One that raises may still have stored the object. *)
UploadPut(f) ==
  /\ upload[f] = "new"
  /\ \/ /\ upload' = [upload EXCEPT ![f] = "stored"]
        /\ objects' = objects \cup {f}
     \/ /\ "store" \in Faults
        /\ upload' = [upload EXCEPT ![f] = "error"]
        /\ objects' \in {objects, objects \cup {f}}
  /\ UNCHANGED <<row, chunks, task, plan, deletion, gone, crashes>>

(* Faulty variant: the task is started as soon as there is a row. *)
UploadInsertScheduling(f) ==
  /\ upload[f] = "stored"
  /\ \/ /\ upload' = [upload EXCEPT ![f] = "inserted"]
        /\ row' = [row EXCEPT ![f] = "pending"]
        /\ task' = [task EXCEPT ![f] = "scheduled"]
     \/ /\ "db" \in Faults
        /\ upload' = [upload EXCEPT ![f] = "error"]
        /\ UNCHANGED <<row, task>>
  /\ UNCHANGED <<chunks, objects, plan, deletion, gone, crashes>>

UploadInsert(f) ==
  /\ upload[f] = "stored"
  /\ \/ /\ upload' = [upload EXCEPT ![f] = "inserted"]
        /\ row' = [row EXCEPT ![f] = "pending"]
     \/ /\ "db" \in Faults
        /\ upload' = [upload EXCEPT ![f] = "error"]
        /\ UNCHANGED row
  /\ UNCHANGED <<chunks, objects, task, plan, deletion, gone, crashes>>

(* refresh() raises when another request deleted the row meanwhile.        *)
(* Otherwise the task is registered and 201 is answered.                   *)
UploadRefresh(f) ==
  /\ upload[f] = "inserted"
  /\ \/ /\ row[f] # NoRow
        /\ upload' = [upload EXCEPT ![f] = "accepted"]
        /\ task' = [task EXCEPT ![f] = "scheduled"]
     \/ /\ row[f] = NoRow \/ "db" \in Faults
        /\ upload' = [upload EXCEPT ![f] = "unconfirmed"]
        /\ UNCHANGED task
  /\ UNCHANGED <<row, chunks, objects, plan, deletion, gone, crashes>>

-----------------------------------------------------------------------------
(* index_file.  It holds db_file across awaits; the row can vanish under   *)
(* it, and then the UPDATE matches no row and commit raises.               *)

IndexSelect(f) ==
  /\ task[f] = "scheduled"
  /\ \/ row[f] = NoRow /\ task' = [task EXCEPT ![f] = "ended"]
     \/ row[f] # NoRow /\ task' = [task EXCEPT ![f] = "selected"]
     \/ "db" \in Faults /\ task' = [task EXCEPT ![f] = "aborted"]
  /\ UNCHANGED <<row, chunks, objects, upload, plan, deletion, gone, crashes>>

(* Faulty variant: the write inserts the row again when it has vanished. *)
UpsertStatus(f, s, next) ==
  /\ row'  = [row EXCEPT ![f] = s]
  /\ task' = [task EXCEPT ![f] = next]
  /\ UNCHANGED <<chunks, objects, upload, plan, deletion, gone, crashes>>

(* db_file.index_status = s; await db.commit(), an error ending the task. *)
CommitStatus(f, s, next) ==
  /\ \/ /\ row[f] # NoRow
        /\ row'  = [row EXCEPT ![f] = s]
        /\ task' = [task EXCEPT ![f] = next]
     \/ /\ row[f] = NoRow \/ "db" \in Faults
        /\ task' = [task EXCEPT ![f] = "aborted"]
        /\ UNCHANGED row
  /\ UNCHANGED <<chunks, objects, upload, plan, deletion, gone, crashes>>

IndexMark(f) == task[f] = "selected" /\ CommitStatus(f, "indexing", "marked")

(* Faulty variant: an object that cannot be read only ends the task. *)
IndexReadSilently(f) ==
  /\ task[f] = "marked"
  /\ \/ /\ f \in objects
        /\ \E n \in 0..MaxChunks : plan' = [plan EXCEPT ![f] = n]
        /\ task' = [task EXCEPT ![f] = "embedding"]
     \/ /\ f \notin objects \/ Faults \cap {"store", "parse"} # {}
        /\ task' = [task EXCEPT ![f] = "ended"]
        /\ UNCHANGED plan
  /\ UNCHANGED <<row, chunks, objects, upload, deletion, gone, crashes>>

(* Faulty variant: the number of chunks is one short. *)
IndexReadOffByOne(f) ==
  /\ task[f] = "marked"
  /\ f \in objects
  /\ \E n \in 0..MaxChunks : plan' = [plan EXCEPT ![f] = n - 1]
  /\ task' = [task EXCEPT ![f] = "embedding"]
  /\ UNCHANGED <<row, chunks, objects, upload, deletion, gone, crashes>>

(* Read the object, parse it and cut it into chunks, without an await. *)
IndexRead(f) ==
  /\ task[f] = "marked"
  /\ \/ /\ f \in objects
        /\ \E n \in 0..MaxChunks : plan' = [plan EXCEPT ![f] = n]
        /\ task' = [task EXCEPT ![f] = "embedding"]
     \/ /\ f \in objects
        /\ task' = [task EXCEPT ![f] = "unsupported"]
        /\ UNCHANGED plan
     \/ /\ f \notin objects \/ Faults \cap {"store", "parse"} # {}
        /\ task' = [task EXCEPT ![f] = "failing"]
        /\ UNCHANGED plan
  /\ UNCHANGED <<row, chunks, objects, upload, deletion, gone, crashes>>

IndexEmbed(f) ==
  /\ task[f] = "embedding"
  /\ \/ task' = [task EXCEPT ![f] = "saving"]
     \/ "embed" \in Faults /\ task' = [task EXCEPT ![f] = "failing"]
  /\ UNCHANGED <<row, chunks, objects, upload, plan, deletion, gone, crashes>>

(* Faulty variant: no row is needed for its chunks, as without the foreign *)
(* key and the count of updated rows.                                      *)
IndexSaveUnguarded(f) ==
  /\ task[f] = "saving"
  /\ row' = IF row[f] = NoRow THEN row ELSE [row EXCEPT ![f] = "indexed"]
  /\ chunks' = [chunks EXCEPT ![f] = 0..(plan[f] - 1)]
  /\ task' = [task EXCEPT ![f] = "ended"]
  /\ UNCHANGED <<objects, upload, plan, deletion, gone, crashes>>

(* Faulty variant: the chunks are committed one at a time. *)
IndexSaveOneByOne(f) ==
  /\ task[f] = "saving"
  /\ row[f] # NoRow
  /\ IF Cardinality(chunks[f]) < plan[f]
     THEN /\ chunks' = [chunks EXCEPT ![f] = @ \cup {Cardinality(@)}]
          /\ UNCHANGED <<row, task>>
     ELSE /\ row' = [row EXCEPT ![f] = "indexed"]
          /\ task' = [task EXCEPT ![f] = "ended"]
          /\ UNCHANGED chunks
  /\ UNCHANGED <<objects, upload, plan, deletion, gone, crashes>>

(* Status and chunks are one transaction.  When its flush fails, the       *)
(* except branch sets "failed" and commits a session that was not rolled   *)
(* back: PendingRollbackError ends the task and nothing is written.        *)
IndexSave(f) ==
  /\ task[f] = "saving"
  /\ \/ /\ row[f] # NoRow
        /\ row' = [row EXCEPT ![f] = "indexed"]
        /\ chunks' = [chunks EXCEPT ![f] = 0..(plan[f] - 1)]
        /\ task' = [task EXCEPT ![f] = "ended"]
     \/ /\ row[f] = NoRow \/ Faults \cap {"db", "save"} # {}
        /\ task' = [task EXCEPT ![f] = "aborted"]
        /\ UNCHANGED <<row, chunks>>
  /\ UNCHANGED <<objects, upload, plan, deletion, gone, crashes>>

IndexFail(f) == task[f] = "failing" /\ CommitStatus(f, "failed", "ended")

IndexGiveUp(f) ==
  task[f] = "unsupported" /\ CommitStatus(f, "unsupported", "ended")

-----------------------------------------------------------------------------
(* DELETE /files/{id} *)

Advance(d, next) == deletion' = [deletion EXCEPT ![d].pc = next]

DeleteFind(d) ==
  /\ deletion[d].pc = "new"
  /\ \/ Advance(d, IF GetFile(deletion[d].user, deletion[d].file)
                   THEN "found" ELSE "missing")
     \/ "db" \in Faults /\ Advance(d, "refused")
  /\ UNCHANGED <<row, chunks, objects, upload, task, plan, gone, crashes>>

(* Faulty variant: the answer is sent although the object was kept. *)
DeleteRowOnly(d) ==
  LET f == deletion[d].file IN
  /\ deletion[d].pc = "found"
  /\ row' = [row EXCEPT ![f] = NoRow]
  /\ chunks' = [chunks EXCEPT ![f] = {}]
  /\ gone' = gone \cup {f}
  /\ Advance(d, "deleted")
  /\ UNCHANGED <<objects, upload, task, plan, crashes>>

(* remove_object, which accepts an object that does not exist.  One that   *)
(* raises may still have removed it.                                       *)
DeleteObject(d) ==
  LET f == deletion[d].file IN
  /\ deletion[d].pc = "found"
  /\ \/ /\ objects' = objects \ {f}
        /\ Advance(d, "removed")
     \/ /\ "store" \in Faults
        /\ objects' \in {objects, objects \ {f}}
        /\ Advance(d, "error")
  /\ UNCHANGED <<row, chunks, upload, task, plan, gone, crashes>>

(* Faulty variant: the object is removed for good before the row is known  *)
(* to be deletable, and the row is left behind.                            *)
DeleteRowForgotten(d) ==
  /\ deletion[d].pc = "removed"
  /\ Advance(d, "deleted")
  /\ UNCHANGED <<row, chunks, objects, upload, task, plan, gone, crashes>>

(* The row and, by ON DELETE CASCADE, its chunks.  A DELETE that matches   *)
(* no row, because another request came first, is not an error.            *)
DeleteRow(d) ==
  LET f == deletion[d].file IN
  /\ deletion[d].pc = "removed"
  /\ \/ /\ row' = [row EXCEPT ![f] = NoRow]
        /\ chunks' = [chunks EXCEPT ![f] = {}]
        /\ gone' = gone \cup {f}
        /\ Advance(d, "deleted")
     \/ /\ "db" \in Faults
        /\ Advance(d, "error")
        /\ UNCHANGED <<row, chunks, gone>>
  /\ UNCHANGED <<objects, upload, task, plan, crashes>>

-----------------------------------------------------------------------------
(* The process dies and is started again: both stores survive, every       *)
(* handler and task in memory is lost, and nothing resumes them.           *)
Crash ==
  /\ "crash" \in Faults
  /\ crashes < MaxCrashes
  /\ crashes' = crashes + 1
  /\ upload' = [f \in Files |-> CASE upload[f] = "stored"   -> "error"
                                  [] upload[f] = "inserted" -> "unconfirmed"
                                  [] OTHER                  -> upload[f]]
  /\ task' = [f \in Files |-> IF task[f] \in {"none", "ended"}
                              THEN task[f] ELSE "aborted"]
  /\ deletion' = [d \in Deletes |-> IF deletion[d].pc \in {"found", "removed"}
                                    THEN [deletion[d] EXCEPT !.pc = "error"]
                                    ELSE deletion[d]]
  /\ UNCHANGED <<row, chunks, objects, plan, gone>>

UploadStep(f) == UploadPut(f) \/ UploadInsert(f) \/ UploadRefresh(f)

IndexStep(f) ==
  \/ IndexSelect(f) \/ IndexMark(f) \/ IndexRead(f) \/ IndexEmbed(f)
  \/ IndexSave(f) \/ IndexFail(f) \/ IndexGiveUp(f)

DeleteStep(d) == DeleteFind(d) \/ DeleteObject(d) \/ DeleteRow(d)

Next ==
  \/ \E f \in Files : UploadReject(f) \/ UploadStep(f) \/ IndexStep(f)
  \/ \E d \in Deletes : DeleteStep(d)
  \/ Crash

Spec == Init /\ [][Next]_vars

(* The event loop runs every handler and task it holds again; no client    *)
(* has to send anything.                                                   *)
Fairness ==
  /\ \A f \in Files : WF_vars(UploadInsert(f) \/ UploadRefresh(f))
  /\ \A f \in Files : WF_vars(IndexStep(f))
  /\ \A d \in Deletes : WF_vars(DeleteObject(d) \/ DeleteRow(d))

FairSpec == Spec /\ Fairness

-----------------------------------------------------------------------------
TypeOK ==
  /\ row \in [Files -> IndexStatus \cup {NoRow}]
  /\ chunks \in [Files -> SUBSET (0..(MaxChunks - 1))]
  /\ objects \subseteq Files
  /\ upload \in [Files -> UploadState]
  /\ task \in [Files -> TaskState]
  /\ plan \in [Files -> 0..MaxChunks]
  /\ deletion \in [Deletes -> [pc : DeletionState, user : Users, file : Files]]
  /\ gone \subseteq Files
  /\ crashes \in 0..MaxCrashes

(* Once a DELETE was answered 204 the file has no row, no object and no    *)
(* chunk, for ever: not through the index task that was running on it, not *)
(* through a second DELETE that found it before, not after a crash         *)
(* (delete_file against index_file, file_service.py:70-191).               *)
DeletedIsGone ==
  \A f \in gone : row[f] = NoRow /\ f \notin objects /\ chunks[f] = {}

(* What a search can reach of a file is everything index_file cut it into, *)
(* and only while the row says indexed: no partial batch, no chunk of a    *)
(* failed or deleted file (file_service.py:139-144, the cascade of         *)
(* file_chunks.file_id).                                                   *)
SearchableIsComplete ==
  \A f \in Files :
    IF row[f] = "indexed" THEN chunks[f] = 0..(plan[f] - 1) ELSE chunks[f] = {}

(* An object without a row is one whose upload has not yet committed or    *)
(* ended without a row; a deletion never leaves one behind, whatever fails *)
(* in it ("Delete file from MinIO first", file_service.py:173).            *)
StrayObjectIsFromUpload ==
  \A f \in Files :
    f \in objects /\ row[f] = NoRow => upload[f] \in {"stored", "error"}

(* A deletion of the file by its owner has gone as far as one of pcs. *)
DeletedByOwner(f, pcs) ==
  \E d \in Deletes : /\ deletion[d].file = f
                    /\ deletion[d].user = Owner[f]
                    /\ deletion[d].pc \in pcs

(* A row whose object is missing, so that its download URL is dead, is one *)
(* that a deletion of the owner is removing or failed to remove: an upload *)
(* never commits such a row (file_service.py:46-65, 182-190).              *)
DeadRowIsFromDeletion ==
  \A f \in Files :
    row[f] # NoRow /\ f \notin objects =>
      DeletedByOwner(f, {"removed", "error"})

(* What the owner can do with a file that was accepted. *)
Usable(f) ==
  f \in ListFiles(Owner[f]) /\ DownloadUrl(Owner[f], f) /\ f \in objects

(* A file answered 201 stays listed and downloadable for its owner until a *)
(* deletion by that owner has found it, whatever other users request and   *)
(* whatever fails meanwhile (files.py:57-70, the user_id filters).         *)
AcceptedIsKept ==
  \A f \in Files :
    upload[f] = "accepted" =>
      Usable(f) \/ DeletedByOwner(f, {"found", "removed", "deleted", "error"})

(* An upload that was answered 500 is never indexed behind the back of its *)
(* client, although its row may be there: the task is registered only when *)
(* the row was read back, also while another request deletes that row      *)
(* (file_service.py:64-67, files.py:59-69).                                *)
RefusedIsNotIndexed ==
  \A f \in Files :
    upload[f] \in {"error", "unconfirmed"} =>
      row[f] \in {"pending", NoRow} /\ chunks[f] = {}

(* When the index task is over the row carries a final status or is gone:  *)
(* a client polling index_status is not left waiting.  Stated of           *)
(* executions without failed commits and crashes (file_service.py:70-149). *)
EndedTaskHasFinalStatus ==
  \A f \in Files :
    task[f] \in {"ended", "aborted"} => row[f] \notin {"pending", "indexing"}

(* "When indexing fails ... index_status is recorded as failed" (file      *)
(* management design.md:92), here for any processing error of the task.    *)
ProcessingErrorReported ==
  \A f \in Files : task[f] = "aborted" => row[f] \in {"failed", NoRow}

(* Every accepted upload reaches a final status or is deleted, as long as  *)
(* commits succeed and the process lives.                                  *)
UploadSettles ==
  \A f \in Files :
    upload[f] = "accepted"
      ~> row[f] \in {"indexed", "failed", "unsupported", NoRow}

(* Without failed commits and crashes, a row never silently stays without  *)
(* its object: the row follows, or the client that asked for the deletion  *)
(* was answered 500 and can repeat it (file_service.py:182-191).           *)
DeadRowIsRemoved ==
  \A f \in Files :
    row[f] # NoRow /\ f \notin objects
      ~> \/ row[f] = NoRow
         \/ \E d \in Deletes : deletion[d].file = f /\ deletion[d].pc = "error"

(* Refinement: every step of the handlers is one step of DocumentStore or  *)
(* invisible to clients.                                                   *)
Document(f) ==
  CASE row[f] # NoRow -> row[f]
    [] row[f] = NoRow /\ upload[f] \in {"inserted", "accepted", "unconfirmed"}
         -> "removed"
    [] OTHER -> "absent"

Store == INSTANCE DocumentStore WITH
  status  <- [f \in Files |-> Document(f)],
  content <- [f \in Files |-> SearchableChunks(Owner[f], f)]

ImplementsDocumentStore == Store!Spec
=============================================================================
