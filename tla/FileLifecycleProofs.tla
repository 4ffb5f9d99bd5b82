------------------------- MODULE FileLifecycleProofs -------------------------
(***************************************************************************)
(* Proofs, for any number of files, users and requests and any choice of   *)
(* failures, of the safety properties of FileLifecycle.                    *)
(***************************************************************************)
EXTENDS FileLifecycle, TLAPS

(* An upload past its commit: the id has existed in the table. *)
Created(f) == upload[f] \in {"inserted", "accepted", "unconfirmed"}

(* Before its commit an upload has no row and no task, and the commit      *)
(* comes only after the object is stored.                                  *)
UploadOrder ==
  \A f \in Files :
    /\ ~Created(f) => row[f] = NoRow
    /\ upload[f] # "accepted" => task[f] = "none"
    /\ upload[f] = "stored" => f \in objects

(* The status of a row that still exists is the one its task last wrote. *)
StatusFollowsTask ==
  \A f \in Files :
    /\ task[f] \in {"none", "scheduled", "selected"}
         => row[f] \in {"pending", NoRow}
    /\ task[f] \in {"marked", "embedding", "saving", "failing", "unsupported"}
         => row[f] \in {"indexing", NoRow}

(* A deletion that got past its lookup is the owner's and concerns a file  *)
(* that was created; from its second phase on the object is gone.          *)
DeletionOrder ==
  \A d \in Deletes :
    LET f == deletion[d].file IN
    /\ deletion[d].pc \in {"found", "removed", "deleted", "error"}
         => deletion[d].user = Owner[f] /\ Created(f)
    /\ deletion[d].pc \in {"removed", "deleted"} => f \notin objects

(* Only a file that was created is reported deleted. *)
GoneWasCreated == \A f \in gone : Created(f)

IndInv ==
  /\ TypeOK
  /\ UploadOrder
  /\ StatusFollowsTask
  /\ DeletionOrder
  /\ GoneWasCreated
  /\ DeletedIsGone
  /\ SearchableIsComplete
  /\ StrayObjectIsFromUpload
  /\ DeadRowIsFromDeletion
  /\ AcceptedIsKept

-----------------------------------------------------------------------------
(* Type correctness of each step (file_service.py, files.py).              *)
LEMMA TypeInductive == TypeOK /\ [Next]_vars => TypeOK'
<1> SUFFICES ASSUME TypeOK, [Next]_vars PROVE TypeOK'
  OBVIOUS
<1> USE ParametersOK DEF TypeOK, UploadState, TaskState, DeletionState,
  IndexStatus, NoRow, ParametersOK
<1>1. ASSUME NEW f \in Files, IndexSave(f)
      PROVE  TypeOK'
  <2>1. 0..(plan[f] - 1) \subseteq 0..(MaxChunks - 1)
    <3>1. plan[f] \in 0..MaxChunks /\ MaxChunks \in Nat
      OBVIOUS
    <3> HIDE DEF TypeOK
    <3> QED
      BY ONLY <3>1
  <2>2. chunks' \in [Files -> SUBSET (0..(MaxChunks - 1))]
    BY <1>1, <2>1 DEF IndexSave
  <2>3. row' \in [Files -> IndexStatus \cup {NoRow}]
    BY <1>1 DEF IndexSave
  <2>4. task' \in [Files -> TaskState]
    BY <1>1 DEF IndexSave
  <2>5. UNCHANGED <<objects, upload, plan, deletion, gone, crashes>>
    BY <1>1 DEF IndexSave
  <2> QED
    BY <2>2, <2>3, <2>4, <2>5
<1>2. ASSUME NEW d \in Deletes, DeleteRow(d)
      PROVE  TypeOK'
  <2>1. deletion[d].file \in Files
    OBVIOUS
  <2>2. deletion' \in [Deletes ->
                       [pc : DeletionState, user : Users, file : Files]]
    BY <1>2 DEF DeleteRow, Advance
  <2>3. chunks' \in [Files -> SUBSET (0..(MaxChunks - 1))]
    BY <1>2, <2>1 DEF DeleteRow
  <2> QED
    BY <1>2, <2>1, <2>2, <2>3 DEF DeleteRow
<1>3. CASE Crash
  <2>1. upload' \in [Files -> UploadState]
    BY <1>3 DEF Crash
  <2>2. task' \in [Files -> TaskState]
    BY <1>3 DEF Crash
  <2>3. deletion' \in [Deletes ->
                       [pc : DeletionState, user : Users, file : Files]]
    BY <1>3 DEF Crash
  <2> QED
    BY <1>3, <2>1, <2>2, <2>3 DEF Crash
<1>4. ASSUME NEW f \in Files,
             UploadReject(f) \/ UploadPut(f) \/ UploadInsert(f) \/
             UploadRefresh(f) \/ IndexSelect(f) \/ IndexMark(f) \/
             IndexRead(f) \/ IndexEmbed(f) \/ IndexFail(f) \/ IndexGiveUp(f)
      PROVE  TypeOK'
  BY <1>4 DEF UploadReject, UploadPut, UploadInsert, UploadRefresh,
    IndexSelect, IndexMark, CommitStatus, IndexRead, IndexEmbed, IndexFail,
    IndexGiveUp
<1>5. ASSUME NEW d \in Deletes,
             DeleteFind(d) \/ DeleteObject(d)
      PROVE  TypeOK'
  <2>1. \E s \in DeletionState : deletion' = [deletion EXCEPT ![d].pc = s]
    BY <1>5 DEF DeleteFind, Advance, DeleteObject
  <2>2. deletion' \in [Deletes ->
                       [pc : DeletionState, user : Users, file : Files]]
    BY <2>1
  <2>3. UNCHANGED <<row, chunks, upload, task, plan, gone, crashes>>
    BY <1>5 DEF DeleteFind, DeleteObject
  <2>4. objects' \subseteq Files
    BY <1>5 DEF DeleteFind, DeleteObject
  <2> QED
    BY <2>2, <2>3, <2>4
<1>6. CASE UNCHANGED vars
  BY <1>6 DEF vars
<1> QED
  BY <1>1, <1>2, <1>3, <1>4, <1>5, <1>6 DEF Next, UploadStep, IndexStep,
    DeleteStep

(* Only the upload handler moves a file towards its row, and no deletion   *)
(* can take the object from under it: a deletion past its lookup concerns  *)
(* a created file.                                                         *)
LEMMA UploadOrderInductive == IndInv /\ [Next]_vars => UploadOrder'
<1> SUFFICES ASSUME IndInv, [Next]_vars PROVE UploadOrder'
  OBVIOUS
<1> USE TypeInductive DEF TypeOK, IndInv, IndexStatus, NoRow, UploadOrder,
  Created
<1>1. ASSUME NEW d \in Deletes, DeleteObject(d)
      PROVE  UploadOrder'
  BY <1>1 DEF DeleteObject, Advance, DeletionOrder
<1>2. ASSUME NEW f \in Files,
             UploadReject(f) \/ UploadPut(f) \/ UploadInsert(f) \/
             UploadRefresh(f) \/ IndexSelect(f) \/ IndexMark(f) \/
             IndexRead(f) \/ IndexEmbed(f) \/ IndexSave(f) \/ IndexFail(f) \/
             IndexGiveUp(f)
      PROVE  UploadOrder'
  BY <1>2 DEF UploadReject, UploadPut, UploadInsert, UploadRefresh,
    IndexSelect, IndexMark, CommitStatus, IndexRead, IndexEmbed, IndexSave,
    IndexFail, IndexGiveUp
<1>3. ASSUME NEW d \in Deletes,
             DeleteFind(d) \/ DeleteRow(d)
      PROVE  UploadOrder'
  BY <1>3 DEF DeleteFind, Advance, DeleteRow
<1>4. CASE Crash
  BY <1>4 DEF Crash
<1>5. CASE UNCHANGED vars
  BY <1>5 DEF vars
<1> QED
  BY <1>1, <1>2, <1>3, <1>4, <1>5 DEF Next, UploadStep, IndexStep, DeleteStep

(* Only the task writes the status; a deletion can only replace it by      *)
(* NoRow.                                                                  *)
LEMMA StatusFollowsTaskInductive == IndInv /\ [Next]_vars => StatusFollowsTask'
<1> SUFFICES ASSUME IndInv, [Next]_vars PROVE StatusFollowsTask'
  OBVIOUS
<1> USE TypeInductive DEF TypeOK, IndInv, IndexStatus, NoRow,
  StatusFollowsTask
<1>1. ASSUME NEW f \in Files, UploadInsert(f)
      PROVE  StatusFollowsTask'
  BY <1>1 DEF UploadInsert, UploadOrder
<1>2. ASSUME NEW f \in Files, UploadRefresh(f)
      PROVE  StatusFollowsTask'
  BY <1>2 DEF UploadRefresh, UploadOrder
<1>3. ASSUME NEW f \in Files,
             UploadReject(f) \/ UploadPut(f) \/ IndexSelect(f) \/ IndexMark(f)
             \/ IndexRead(f) \/ IndexEmbed(f) \/ IndexSave(f) \/ IndexFail(f)
             \/ IndexGiveUp(f)
      PROVE  StatusFollowsTask'
  BY <1>3 DEF UploadReject, UploadPut, IndexSelect, IndexMark, CommitStatus,
    IndexRead, IndexEmbed, IndexSave, IndexFail, IndexGiveUp
<1>4. ASSUME NEW d \in Deletes,
             DeleteFind(d) \/ DeleteObject(d) \/ DeleteRow(d)
      PROVE  StatusFollowsTask'
  BY <1>4 DEF DeleteFind, Advance, DeleteObject, DeleteRow
<1>5. CASE Crash
  BY <1>5 DEF Crash
<1>6. CASE UNCHANGED vars
  BY <1>6 DEF vars
<1> QED
  BY <1>1, <1>2, <1>3, <1>4, <1>5, <1>6 DEF Next, UploadStep, IndexStep,
    DeleteStep

(* The lookup establishes the owner and a created file, and an object once *)
(* removed is not stored again, since only an upload that is not created   *)
(* stores one.                                                             *)
LEMMA DeletionOrderInductive == IndInv /\ [Next]_vars => DeletionOrder'
<1> SUFFICES ASSUME IndInv, [Next]_vars PROVE DeletionOrder'
  OBVIOUS
<1> USE TypeInductive DEF TypeOK, IndInv, IndexStatus, NoRow, DeletionOrder,
  Created
<1>1. ASSUME NEW f \in Files, UploadPut(f)
      PROVE  DeletionOrder'
  BY <1>1 DEF UploadPut
<1>2. ASSUME NEW d \in Deletes, DeleteFind(d)
      PROVE  DeletionOrder'
  <2>1. PICK s \in {"found", "missing", "refused"} :
          /\ deletion' = [deletion EXCEPT ![d].pc = s]
          /\ s = "found" => GetFile(deletion[d].user, deletion[d].file)
    BY <1>2 DEF DeleteFind, Advance
  <2>2. UNCHANGED <<objects, upload>>
    BY <1>2 DEF DeleteFind
  <2>3. s = "found" => /\ deletion[d].user = Owner[deletion[d].file]
                       /\ Created(deletion[d].file)
    BY <2>1 DEF GetFile, UploadOrder
  <2> QED
    BY <2>1, <2>2, <2>3
<1>3. ASSUME NEW f \in Files,
             UploadReject(f) \/ UploadInsert(f) \/ UploadRefresh(f) \/
             IndexSelect(f) \/ IndexMark(f) \/ IndexRead(f) \/ IndexEmbed(f)
             \/ IndexSave(f) \/ IndexFail(f) \/ IndexGiveUp(f)
      PROVE  DeletionOrder'
  BY <1>3 DEF UploadReject, UploadInsert, UploadRefresh, IndexSelect,
    IndexMark, CommitStatus, IndexRead, IndexEmbed, IndexSave, IndexFail,
    IndexGiveUp
<1>4. ASSUME NEW d \in Deletes,
             DeleteObject(d) \/ DeleteRow(d)
      PROVE  DeletionOrder'
  BY <1>4 DEF DeleteObject, Advance, DeleteRow
<1>5. CASE Crash
  BY <1>5 DEF Crash
<1>6. CASE UNCHANGED vars
  BY <1>6 DEF vars
<1> QED
  BY <1>1, <1>2, <1>3, <1>4, <1>5, <1>6 DEF Next, UploadStep, IndexStep,
    DeleteStep

(* Only a file that has a row is deleted, and one with a row was created. *)
LEMMA GoneWasCreatedInductive == IndInv /\ [Next]_vars => GoneWasCreated'
<1> SUFFICES ASSUME IndInv, [Next]_vars PROVE GoneWasCreated'
  OBVIOUS
<1> USE TypeInductive DEF TypeOK, IndInv, IndexStatus, NoRow, GoneWasCreated,
  Created
<1>1. ASSUME NEW d \in Deletes, DeleteRow(d)
      PROVE  GoneWasCreated'
  BY <1>1 DEF DeleteRow, Advance, DeletionOrder
<1>2. ASSUME NEW f \in Files,
             UploadReject(f) \/ UploadPut(f) \/ UploadInsert(f) \/
             UploadRefresh(f) \/ IndexSelect(f) \/ IndexMark(f) \/
             IndexRead(f) \/ IndexEmbed(f) \/ IndexSave(f) \/ IndexFail(f) \/
             IndexGiveUp(f)
      PROVE  GoneWasCreated'
  BY <1>2 DEF UploadReject, UploadPut, UploadInsert, UploadRefresh,
    IndexSelect, IndexMark, CommitStatus, IndexRead, IndexEmbed, IndexSave,
    IndexFail, IndexGiveUp
<1>3. ASSUME NEW d \in Deletes,
             DeleteFind(d) \/ DeleteObject(d)
      PROVE  GoneWasCreated'
  BY <1>3 DEF DeleteFind, Advance, DeleteObject
<1>4. CASE Crash
  BY <1>4 DEF Crash
<1>5. CASE UNCHANGED vars
  BY <1>5 DEF vars
<1> QED
  BY <1>1, <1>2, <1>3, <1>4, <1>5 DEF Next, UploadStep, IndexStep, DeleteStep

(* The upload of a deleted file is over, so nothing stores or inserts it   *)
(* again; the task writes only into a row that exists.                     *)
LEMMA DeletedIsGoneInductive == IndInv /\ [Next]_vars => DeletedIsGone'
<1> SUFFICES ASSUME IndInv, [Next]_vars PROVE DeletedIsGone'
  OBVIOUS
<1> USE TypeInductive DEF TypeOK, IndInv, IndexStatus, NoRow, DeletedIsGone,
  GoneWasCreated, Created
<1>1. ASSUME NEW d \in Deletes, DeleteRow(d)
      PROVE  DeletedIsGone'
  BY <1>1 DEF DeleteRow, Advance, DeletionOrder
<1>2. ASSUME NEW f \in Files,
             UploadReject(f) \/ UploadPut(f) \/ UploadInsert(f) \/
             UploadRefresh(f) \/ IndexSelect(f) \/ IndexMark(f) \/
             IndexRead(f) \/ IndexEmbed(f) \/ IndexSave(f) \/ IndexFail(f) \/
             IndexGiveUp(f)
      PROVE  DeletedIsGone'
  BY <1>2 DEF UploadReject, UploadPut, UploadInsert, UploadRefresh,
    IndexSelect, IndexMark, CommitStatus, IndexRead, IndexEmbed, IndexSave,
    IndexFail, IndexGiveUp
<1>3. ASSUME NEW d \in Deletes,
             DeleteFind(d) \/ DeleteObject(d)
      PROVE  DeletedIsGone'
  BY <1>3 DEF DeleteFind, Advance, DeleteObject
<1>4. CASE Crash
  BY <1>4 DEF Crash
<1>5. CASE UNCHANGED vars
  BY <1>5 DEF vars
<1> QED
  BY <1>1, <1>2, <1>3, <1>4, <1>5 DEF Next, UploadStep, IndexStep, DeleteStep

(* Chunks and status change together, and the plan of an indexed file is   *)
(* not changed, since its task is no longer reading.                       *)
LEMMA SearchableIsCompleteInductive ==
  IndInv /\ [Next]_vars => SearchableIsComplete'
<1> SUFFICES ASSUME IndInv, [Next]_vars PROVE SearchableIsComplete'
  OBVIOUS
<1> USE TypeInductive DEF TypeOK, IndInv, IndexStatus, NoRow,
  SearchableIsComplete
<1>1. ASSUME NEW f \in Files, UploadInsert(f)
      PROVE  SearchableIsComplete'
  BY <1>1 DEF UploadInsert, UploadOrder, Created
<1>2. ASSUME NEW f \in Files, IndexMark(f)
      PROVE  SearchableIsComplete'
  BY <1>2 DEF IndexMark, CommitStatus, StatusFollowsTask
<1>3. ASSUME NEW f \in Files, IndexRead(f)
      PROVE  SearchableIsComplete'
  BY <1>3 DEF IndexRead, StatusFollowsTask
<1>4. ASSUME NEW f \in Files, IndexSave(f)
      PROVE  SearchableIsComplete'
  BY <1>4 DEF IndexSave
<1>5. ASSUME NEW f \in Files, IndexFail(f)
      PROVE  SearchableIsComplete'
  BY <1>5 DEF IndexFail, CommitStatus, StatusFollowsTask
<1>6. ASSUME NEW f \in Files, IndexGiveUp(f)
      PROVE  SearchableIsComplete'
  BY <1>6 DEF IndexGiveUp, CommitStatus, StatusFollowsTask
<1>7. ASSUME NEW f \in Files,
             UploadReject(f) \/ UploadPut(f) \/ UploadRefresh(f) \/
             IndexSelect(f) \/ IndexEmbed(f)
      PROVE  SearchableIsComplete'
  BY <1>7 DEF UploadReject, UploadPut, UploadRefresh, IndexSelect, IndexEmbed
<1>8. ASSUME NEW d \in Deletes,
             DeleteFind(d) \/ DeleteObject(d) \/ DeleteRow(d)
      PROVE  SearchableIsComplete'
  BY <1>8 DEF DeleteFind, Advance, DeleteObject, DeleteRow
<1>9. CASE Crash
  BY <1>9 DEF Crash
<1>10. CASE UNCHANGED vars
  BY <1>10 DEF vars
<1> QED
  BY <1>1, <1>2, <1>3, <1>4, <1>5, <1>6, <1>7, <1>8, <1>9, <1>10 DEF Next,
    UploadStep, IndexStep, DeleteStep

(* A deletion removes the row only when the object is already gone.        *)
LEMMA StrayObjectIsFromUploadInductive ==
  IndInv /\ [Next]_vars => StrayObjectIsFromUpload'
<1> SUFFICES ASSUME IndInv, [Next]_vars PROVE StrayObjectIsFromUpload'
  OBVIOUS
<1> USE TypeInductive DEF TypeOK, IndInv, IndexStatus, NoRow,
  StrayObjectIsFromUpload
<1>1. ASSUME NEW d \in Deletes, DeleteRow(d)
      PROVE  StrayObjectIsFromUpload'
  BY <1>1 DEF DeleteRow, Advance, DeletionOrder
<1>2. ASSUME NEW f \in Files,
             UploadReject(f) \/ UploadPut(f) \/ UploadInsert(f) \/
             UploadRefresh(f) \/ IndexSelect(f) \/ IndexMark(f) \/
             IndexRead(f) \/ IndexEmbed(f) \/ IndexSave(f) \/ IndexFail(f) \/
             IndexGiveUp(f)
      PROVE  StrayObjectIsFromUpload'
  BY <1>2 DEF UploadReject, UploadPut, UploadInsert, UploadRefresh,
    IndexSelect, IndexMark, CommitStatus, IndexRead, IndexEmbed, IndexSave,
    IndexFail, IndexGiveUp
<1>3. ASSUME NEW d \in Deletes,
             DeleteFind(d) \/ DeleteObject(d)
      PROVE  StrayObjectIsFromUpload'
  BY <1>3 DEF DeleteFind, Advance, DeleteObject
<1>4. CASE Crash
  BY <1>4 DEF Crash
<1>5. CASE UNCHANGED vars
  BY <1>5 DEF vars
<1> QED
  BY <1>1, <1>2, <1>3, <1>4, <1>5 DEF Next, UploadStep, IndexStep, DeleteStep

(* The commit of an upload finds the object stored, and afterwards only a  *)
(* deletion by the owner removes it.                                       *)
LEMMA DeadRowIsFromDeletionInductive ==
  IndInv /\ [Next]_vars => DeadRowIsFromDeletion'
<1> SUFFICES ASSUME IndInv, [Next]_vars PROVE DeadRowIsFromDeletion'
  OBVIOUS
<1> USE TypeInductive DEF TypeOK, IndInv, IndexStatus, NoRow,
  DeadRowIsFromDeletion, DeletedByOwner
<1>1. ASSUME NEW f \in Files, UploadInsert(f)
      PROVE  DeadRowIsFromDeletion'
  BY <1>1 DEF UploadInsert, UploadOrder
<1>2. ASSUME NEW d \in Deletes, DeleteObject(d)
      PROVE  DeadRowIsFromDeletion'
  <2> SUFFICES ASSUME NEW f \in Files, row[f] # NoRow, f \notin objects'
               PROVE  DeletedByOwner(f, {"removed", "error"})'
    BY <1>2 DEF DeleteObject, DeadRowIsFromDeletion
  <2>1. CASE f = deletion[d].file
    BY <1>2, <2>1 DEF DeleteObject, Advance, DeletionOrder
  <2>2. CASE f # deletion[d].file
    <3>1. PICK e \in Deletes : /\ deletion[e].file = f
                               /\ deletion[e].user = Owner[f]
                               /\ deletion[e].pc \in {"removed", "error"}
      BY <1>2, <2>2 DEF DeleteObject, DeadRowIsFromDeletion
    <3>2. e # d
      BY <2>2, <3>1
    <3>3. deletion'[e] = deletion[e]
      BY <1>2, <3>2 DEF DeleteObject, Advance
    <3> QED
      BY <3>1, <3>3
  <2> QED
    BY <2>1, <2>2
<1>3. ASSUME NEW d \in Deletes, DeleteRow(d)
      PROVE  DeadRowIsFromDeletion'
  <2> SUFFICES ASSUME NEW f \in Files, row'[f] # NoRow, f \notin objects
               PROVE  DeletedByOwner(f, {"removed", "error"})'
    BY <1>3 DEF DeleteRow, DeadRowIsFromDeletion
  <2>1. row[f] # NoRow /\ DeletedByOwner(f, {"removed", "error"})
    BY <1>3 DEF DeleteRow, DeadRowIsFromDeletion
  <2>2. row'[f] = NoRow \/ f # deletion[d].file \/ deletion'[d].pc = "error"
    BY <1>3 DEF DeleteRow, Advance
  <2> QED
    BY <1>3, <2>1, <2>2 DEF DeleteRow, Advance
<1>4. ASSUME NEW f \in Files,
             UploadReject(f) \/ UploadPut(f) \/ UploadRefresh(f) \/
             IndexSelect(f) \/ IndexMark(f) \/ IndexRead(f) \/ IndexEmbed(f)
             \/ IndexSave(f) \/ IndexFail(f) \/ IndexGiveUp(f)
      PROVE  DeadRowIsFromDeletion'
  BY <1>4 DEF UploadReject, UploadPut, UploadRefresh, IndexSelect, IndexMark,
    CommitStatus, IndexRead, IndexEmbed, IndexSave, IndexFail, IndexGiveUp
<1>5. ASSUME NEW d \in Deletes,
             DeleteFind(d)
      PROVE  DeadRowIsFromDeletion'
  BY <1>5 DEF DeleteFind, Advance
<1>6. CASE Crash
  BY <1>6 DEF Crash
<1>7. CASE UNCHANGED vars
  BY <1>7 DEF vars
<1> QED
  BY <1>1, <1>2, <1>3, <1>4, <1>5, <1>6, <1>7 DEF Next, UploadStep, IndexStep,
    DeleteStep

(* When the upload is answered its row is there, and so is its object      *)
(* unless a deletion of the owner is at work; afterwards only such a       *)
(* deletion takes either away.                                             *)
LEMMA AcceptedIsKeptInductive == IndInv /\ [Next]_vars => AcceptedIsKept'
<1> SUFFICES ASSUME IndInv, [Next]_vars PROVE AcceptedIsKept'
  OBVIOUS
<1> USE TypeInductive DEF TypeOK, IndInv, IndexStatus, NoRow, AcceptedIsKept,
  Usable, ListFiles, DownloadUrl, GetFile, DeletedByOwner
<1>1. ASSUME NEW f \in Files, UploadRefresh(f)
      PROVE  AcceptedIsKept'
  BY <1>1 DEF UploadRefresh, DeadRowIsFromDeletion
<1>2. ASSUME NEW d \in Deletes, DeleteObject(d)
      PROVE  AcceptedIsKept'
  <2> DEFINE Claimed(f) ==
        DeletedByOwner(f, {"found", "removed", "deleted", "error"})
  <2>1. PICK g \in Files : g = deletion[d].file
    OBVIOUS
  <2>2. deletion[d].user = Owner[g]
    BY <1>2, <2>1 DEF DeleteObject, DeletionOrder
  <2>3. Claimed(g)'
    BY <1>2, <2>1, <2>2 DEF DeleteObject, Advance
  <2>4. ASSUME NEW f \in Files, Claimed(f) PROVE Claimed(f)'
    <3>1. PICK e \in Deletes :
            /\ deletion[e].file = f /\ deletion[e].user = Owner[f]
            /\ deletion[e].pc \in {"found", "removed", "deleted", "error"}
      BY <2>4
    <3>2. /\ deletion'[e].file = f /\ deletion'[e].user = Owner[f]
          /\ deletion'[e].pc \in {"found", "removed", "deleted", "error"}
      BY <1>2, <3>1 DEF DeleteObject, Advance
    <3> QED
      BY <3>2
  <2>5. \A f \in Files \ {g} : Usable(f) => Usable(f)'
    BY <1>2, <2>1 DEF DeleteObject
  <2>6. \A f \in Files : upload'[f] = "accepted" => Usable(f) \/ Claimed(f)
    BY <1>2 DEF DeleteObject
  <2> HIDE DEF Claimed, TypeOK, IndInv, AcceptedIsKept, Usable
  <2>7. \A f \in Files : upload'[f] = "accepted" => Usable(f)' \/ Claimed(f)'
    BY <2>1, <2>3, <2>4, <2>5, <2>6
  <2> QED
    BY <2>7 DEF AcceptedIsKept, Claimed
<1>3. ASSUME NEW d \in Deletes, DeleteRow(d)
      PROVE  AcceptedIsKept'
  <2> DEFINE Claimed(f) ==
        DeletedByOwner(f, {"found", "removed", "deleted", "error"})
  <2>1. PICK g \in Files : g = deletion[d].file
    OBVIOUS
  <2>2. deletion[d].user = Owner[g]
    BY <1>3, <2>1 DEF DeleteRow, DeletionOrder
  <2>3. Claimed(g)'
    BY <1>3, <2>1, <2>2 DEF DeleteRow, Advance
  <2>4. ASSUME NEW f \in Files, Claimed(f) PROVE Claimed(f)'
    <3>1. PICK e \in Deletes :
            /\ deletion[e].file = f /\ deletion[e].user = Owner[f]
            /\ deletion[e].pc \in {"found", "removed", "deleted", "error"}
      BY <2>4
    <3>2. /\ deletion'[e].file = f /\ deletion'[e].user = Owner[f]
          /\ deletion'[e].pc \in {"found", "removed", "deleted", "error"}
      BY <1>3, <3>1 DEF DeleteRow, Advance
    <3> QED
      BY <3>2
  <2>5. \A f \in Files \ {g} : Usable(f) => Usable(f)'
    BY <1>3, <2>1 DEF DeleteRow
  <2>6. \A f \in Files : upload'[f] = "accepted" => Usable(f) \/ Claimed(f)
    BY <1>3 DEF DeleteRow
  <2> HIDE DEF Claimed, TypeOK, IndInv, AcceptedIsKept, Usable
  <2>7. \A f \in Files : upload'[f] = "accepted" => Usable(f)' \/ Claimed(f)'
    BY <2>1, <2>3, <2>4, <2>5, <2>6
  <2> QED
    BY <2>7 DEF AcceptedIsKept, Claimed
<1>4. ASSUME NEW f \in Files, IndexSave(f)
      PROVE  AcceptedIsKept'
  BY <1>4 DEF IndexSave
<1>5. ASSUME NEW f \in Files,
             UploadReject(f) \/ UploadPut(f) \/ UploadInsert(f) \/
             IndexSelect(f) \/ IndexMark(f) \/ IndexRead(f) \/ IndexEmbed(f)
             \/ IndexFail(f) \/ IndexGiveUp(f)
      PROVE  AcceptedIsKept'
  BY <1>5 DEF UploadReject, UploadPut, UploadInsert, IndexSelect, IndexMark,
    CommitStatus, IndexRead, IndexEmbed, IndexFail, IndexGiveUp
<1>6. ASSUME NEW d \in Deletes,
             DeleteFind(d)
      PROVE  AcceptedIsKept'
  <2> DEFINE found == {"found", "removed", "deleted", "error"}
  <2>1. /\ deletion[d].pc = "new"
        /\ UNCHANGED <<row, objects, upload>>
        /\ \A e \in Deletes \ {d} : deletion'[e] = deletion[e]
    BY <1>6 DEF DeleteFind, Advance
  <2>2. ASSUME NEW f \in Files, DeletedByOwner(f, found)
        PROVE  DeletedByOwner(f, found)'
    <3>1. PICK e \in Deletes : /\ deletion[e].file = f
                               /\ deletion[e].user = Owner[f]
                               /\ deletion[e].pc \in found
      BY <2>2
    <3>2. e # d
      BY <2>1, <3>1
    <3> QED
      BY <2>1, <3>1, <3>2
  <2> QED
    BY <2>1, <2>2
<1>7. CASE Crash
  BY <1>7 DEF Crash
<1>8. CASE UNCHANGED vars
  BY <1>8 DEF vars
<1> QED
  BY <1>1, <1>2, <1>3, <1>4, <1>5, <1>6, <1>7, <1>8 DEF Next, UploadStep,
    IndexStep, DeleteStep

-----------------------------------------------------------------------------
(* Initially nothing is stored and nothing was requested. *)
LEMMA InitEstablishes == Init => IndInv
<1> SUFFICES ASSUME Init PROVE IndInv
  OBVIOUS
<1> USE ParametersOK DEF Init, ParametersOK, NoRow
<1>1. TypeOK
  BY DEF TypeOK, UploadState, TaskState, DeletionState
<1>2. UploadOrder /\ StatusFollowsTask /\ DeletionOrder /\ GoneWasCreated
  BY DEF UploadOrder, StatusFollowsTask, DeletionOrder, GoneWasCreated, Created
<1>3. /\ DeletedIsGone /\ SearchableIsComplete /\ StrayObjectIsFromUpload
      /\ DeadRowIsFromDeletion /\ AcceptedIsKept
  BY DEF DeletedIsGone, SearchableIsComplete, StrayObjectIsFromUpload,
    DeadRowIsFromDeletion, AcceptedIsKept
<1> QED
  BY <1>1, <1>2, <1>3 DEF IndInv

(* The conjuncts of IndInv together are inductive. *)
THEOREM Invariance == Spec => []IndInv
<1>1. IndInv /\ [Next]_vars => IndInv'
  BY TypeInductive, UploadOrderInductive, StatusFollowsTaskInductive,
    DeletionOrderInductive, GoneWasCreatedInductive, DeletedIsGoneInductive,
    SearchableIsCompleteInductive, StrayObjectIsFromUploadInductive,
    DeadRowIsFromDeletionInductive, AcceptedIsKeptInductive DEF IndInv
<1> QED
  BY InitEstablishes, <1>1, PTL DEF Spec

(* Every reachable state is well formed. *)
THEOREM TypeCorrect == Spec => []TypeOK
<1>1. IndInv => TypeOK
  BY DEF IndInv
<1> QED
  BY Invariance, <1>1, PTL

(* A deletion that was answered 204 is final, for any number of concurrent *)
(* uploads, index tasks and deletions, failures and crashes.               *)
THEOREM DeletionIsFinal == Spec => []DeletedIsGone
<1>1. IndInv => DeletedIsGone
  BY DEF IndInv
<1> QED
  BY Invariance, <1>1, PTL

(* A search sees all the chunks of an indexed file and none of another. *)
THEOREM SearchIsAllOrNothing == Spec => []SearchableIsComplete
<1>1. IndInv => SearchableIsComplete
  BY DEF IndInv
<1> QED
  BY Invariance, <1>1, PTL

(* An object without a row comes from an upload that failed or is running: *)
(* put_object and the insert are no transaction (file_service.py:46-65).   *)
THEOREM StraysAreFromUploads == Spec => []StrayObjectIsFromUpload
<1>1. IndInv => StrayObjectIsFromUpload
  BY DEF IndInv
<1> QED
  BY Invariance, <1>1, PTL

(* A row without an object comes from a deletion by its owner that is      *)
(* running or was answered 500 (file_service.py:182-191).                  *)
THEOREM DeadRowsAreFromDeletions == Spec => []DeadRowIsFromDeletion
<1>1. IndInv => DeadRowIsFromDeletion
  BY DEF IndInv
<1> QED
  BY Invariance, <1>1, PTL

(* An accepted file is there until its owner deletes it. *)
THEOREM AcceptedFilesLast == Spec => []AcceptedIsKept
<1>1. IndInv => AcceptedIsKept
  BY DEF IndInv
<1> QED
  BY Invariance, <1>1, PTL

(* Whatever another request did to the row before it was read back, an     *)
(* upload that was answered 500 has no task and leaves nothing to be found *)
(* (file_service.py:64-67, files.py:59-69).                                *)
THEOREM RefusedUploadsRest == Spec => []RefusedIsNotIndexed
<1>1. IndInv => RefusedIsNotIndexed
  <2> SUFFICES ASSUME IndInv, NEW f \in Files,
                      upload[f] \in {"error", "unconfirmed"}
               PROVE  row[f] \in {"pending", NoRow} /\ chunks[f] = {}
    BY DEF RefusedIsNotIndexed
  <2>1. task[f] = "none"
    BY DEF IndInv, UploadOrder
  <2>2. row[f] \in {"pending", NoRow}
    BY <2>1 DEF IndInv, StatusFollowsTask
  <2>3. chunks[f] = {}
    BY <2>2 DEF IndInv, SearchableIsComplete, NoRow
  <2> QED BY <2>2, <2>3
<1> QED
  BY Invariance, <1>1, PTL

(* Without failed commits and crashes an index task that is over leaves a  *)
(* final status, whatever MinIO, the parser and the embedding service do   *)
(* and whoever deletes the file meanwhile (file_service.py:70-149).        *)
THEOREM EndedTasksSettle ==
  ASSUME Faults \cap {"db", "save", "crash"} = {}
  PROVE  Spec => []EndedTaskHasFinalStatus
<1>1. Init => EndedTaskHasFinalStatus
  BY DEF Init, EndedTaskHasFinalStatus
<1>2. IndInv /\ EndedTaskHasFinalStatus /\ [Next]_vars => EndedTaskHasFinalStatus'
  <2> SUFFICES ASSUME IndInv, EndedTaskHasFinalStatus, [Next]_vars
               PROVE  EndedTaskHasFinalStatus'
    OBVIOUS
  <2> USE DEF IndInv, TypeOK, EndedTaskHasFinalStatus, NoRow
  <2>1. ASSUME NEW f \in Files, UploadReject(f) \/ UploadStep(f)
        PROVE  EndedTaskHasFinalStatus'
    BY <2>1 DEF UploadReject, UploadStep, UploadPut, UploadInsert,
      UploadRefresh, UploadOrder
  <2>2. ASSUME NEW f \in Files, IndexSelect(f) \/ IndexMark(f) \/ IndexRead(f)
                                 \/ IndexEmbed(f)
        PROVE  EndedTaskHasFinalStatus'
    BY <2>2 DEF IndexSelect, IndexMark, CommitStatus, IndexRead, IndexEmbed
  <2>3. ASSUME NEW f \in Files, IndexSave(f) \/ IndexFail(f) \/ IndexGiveUp(f)
        PROVE  EndedTaskHasFinalStatus'
    BY <2>3 DEF IndexSave, CommitStatus, IndexFail, IndexGiveUp
  <2>4. ASSUME NEW d \in Deletes, DeleteStep(d)
        PROVE  EndedTaskHasFinalStatus'
    BY <2>4 DEF DeleteStep, DeleteFind, DeleteObject, DeleteRow, Advance
  <2>5. ~Crash
    BY DEF Crash
  <2>6. CASE UNCHANGED vars
    BY <2>6 DEF vars
  <2> QED
    BY <2>1, <2>2, <2>3, <2>4, <2>5, <2>6 DEF Next, IndexStep
<1> QED
  BY Invariance, <1>1, <1>2, PTL DEF Spec

-----------------------------------------------------------------------------
(* The refinement.  Each step changes what clients see of at most one file. *)

Status  == [f \in Files |-> Document(f)]
Content == [f \in Files |-> SearchableChunks(Owner[f], f)]

(* A step that leaves the rows, the chunks and what is created alone is    *)
(* invisible.                                                              *)
LEMMA InvisibleStep ==
  ASSUME ParametersOK,
         UNCHANGED <<row, chunks>>, \A f \in Files : Created(f)' = Created(f)
  PROVE  UNCHANGED <<Status, Content>>
BY DEF Status, Content, Document, SearchableChunks, GetFile, Created, NoRow

(* Of the upload handler only the insert of the row is visible. *)
LEMMA UploadSteps ==
  ASSUME IndInv, NEW f \in Files, UploadReject(f) \/ UploadStep(f)
  PROVE  Store!Add(f) \/ UNCHANGED <<Status, Content>>
<1> USE ParametersOK DEF ParametersOK, IndInv, TypeOK, UploadOrder, Created,
    UploadState, NoRow
<1>1. CASE UploadReject(f)
  BY <1>1, InvisibleStep DEF UploadReject
<1>2. CASE UploadPut(f)
  BY <1>2, InvisibleStep DEF UploadPut
<1>3. CASE UploadInsert(f)
  <2>1. CASE UNCHANGED row
    BY <1>3, <2>1, InvisibleStep DEF UploadInsert
  <2>2. CASE row' = [row EXCEPT ![f] = "pending"]
    <3>1. Status[f] = "absent" /\ Status' = [Status EXCEPT ![f] = "pending"]
      BY <1>3, <2>2 DEF UploadInsert, Status, Document
    <3>2. UNCHANGED Content
      BY <1>3, <2>2
      DEF UploadInsert, Content, SearchableChunks, GetFile,
        SearchableIsComplete
    <3> QED
      BY <3>1, <3>2 DEF Store!Add, Status, Content
  <2> QED
    BY <1>3, <2>1, <2>2 DEF UploadInsert
<1>4. CASE UploadRefresh(f)
  BY <1>4, InvisibleStep DEF UploadRefresh
<1> QED
  BY <1>1, <1>2, <1>3, <1>4 DEF UploadStep

(* A status the task commits is one the abstract document may take next. *)
LEMMA StatusSteps ==
  ASSUME IndInv, NEW f \in Files, NEW s, NEW next, CommitStatus(f, s, next),
         row[f] # NoRow =>
           \/ row[f] = "pending" /\ s = "indexing"
           \/ row[f] = "indexing" /\ s \in {"failed", "unsupported"}
  PROVE  \/ Store!StartIndexing(f) \/ Store!GiveUp(f)
         \/ UNCHANGED <<Status, Content>>
<1> USE ParametersOK DEF ParametersOK, IndInv, TypeOK, NoRow
<1>1. CASE row[f] # NoRow /\ row' = [row EXCEPT ![f] = s]
  <2>1. Status[f] = row[f] /\ Status' = [Status EXCEPT ![f] = s]
    BY <1>1 DEF CommitStatus, Status, Document
  <2>2. UNCHANGED Content
    BY <1>1 DEF CommitStatus, Content, SearchableChunks, GetFile
  <2> QED
    BY <1>1, <2>1, <2>2
    DEF Store!StartIndexing, Store!GiveUp, Status, Content
<1>2. CASE UNCHANGED row
  BY <1>2, InvisibleStep DEF CommitStatus, Created
<1> QED
  BY <1>1, <1>2 DEF CommitStatus

(* The index task starts, publishes or gives up the abstract document.     *)
LEMMA IndexSteps ==
  ASSUME IndInv, NEW f \in Files, IndexStep(f)
  PROVE  \/ Store!StartIndexing(f) \/ Store!Publish(f) \/ Store!GiveUp(f)
         \/ UNCHANGED <<Status, Content>>
<1> USE ParametersOK DEF ParametersOK, IndInv, TypeOK, StatusFollowsTask, NoRow
<1>1. CASE IndexSelect(f) \/ IndexRead(f) \/ IndexEmbed(f)
  BY <1>1, InvisibleStep DEF IndexSelect, IndexRead, IndexEmbed, Created
<1>2. CASE IndexMark(f) \/ IndexFail(f) \/ IndexGiveUp(f)
  BY <1>2, StatusSteps DEF IndexMark, IndexFail, IndexGiveUp
<1>3. CASE IndexSave(f)
  <2>1. CASE UNCHANGED <<row, chunks>>
    BY <1>3, <2>1, InvisibleStep DEF IndexSave, Created
  <2>2. CASE /\ row[f] # NoRow
             /\ row' = [row EXCEPT ![f] = "indexed"]
             /\ chunks' = [chunks EXCEPT ![f] = 0..(plan[f] - 1)]
    <3>1. Status[f] = "indexing" /\ Status' = [Status EXCEPT ![f] = "indexed"]
      BY <1>3, <2>2 DEF IndexSave, Status, Document
    <3>2. Content' = [Content EXCEPT ![f] = 0..(plan[f] - 1)]
      BY <1>3, <2>2 DEF IndexSave, Content, SearchableChunks, GetFile
    <3>3. plan[f] \in 0..MaxChunks
      OBVIOUS
    <3> QED
      BY <3>1, <3>2, <3>3 DEF Store!Publish, Status, Content
  <2> QED
    BY <1>3, <2>1, <2>2 DEF IndexSave
<1> QED
  BY <1>1, <1>2, <1>3 DEF IndexStep

(* Of a deletion only the delete of a row that still exists is visible. *)
LEMMA DeleteSteps ==
  ASSUME IndInv, NEW d \in Deletes, DeleteStep(d)
  PROVE  (\E f \in Files : Store!Remove(f)) \/ UNCHANGED <<Status, Content>>
<1> USE ParametersOK DEF ParametersOK, IndInv, TypeOK, NoRow
<1>1. CASE DeleteFind(d) \/ DeleteObject(d)
  BY <1>1, InvisibleStep DEF DeleteFind, DeleteObject, Created
<1>2. CASE DeleteRow(d)
  <2>1. CASE UNCHANGED <<row, chunks>>
    BY <1>2, <2>1, InvisibleStep DEF DeleteRow, Created
  <2>2. PICK f \in Files : f = deletion[d].file
    OBVIOUS
  <2>3. Created(f)
    BY <1>2, <2>2 DEF DeleteRow, DeletionOrder
  <2>4. CASE /\ row' = [row EXCEPT ![f] = NoRow]
             /\ chunks' = [chunks EXCEPT ![f] = {}]
    <3>1. Status' = [Status EXCEPT ![f] = "removed"]
      BY <1>2, <2>3, <2>4 DEF DeleteRow, Status, Document, Created
    <3>2. Content' = [Content EXCEPT ![f] = {}]
      BY <1>2, <2>4 DEF DeleteRow, Content, SearchableChunks, GetFile
    <3>3. CASE row[f] # NoRow
      <4>1. Status[f] \in Store!Present
        BY <3>3 DEF Status, Document, Store!Present, IndexStatus
      <4> QED
        BY <3>1, <3>2, <4>1 DEF Store!Remove, Status, Content
    <3>4. CASE row[f] = NoRow
      <4>1. UNCHANGED <<row, chunks>>
        BY <2>4, <3>4 DEF SearchableIsComplete
      <4> QED
        BY <1>2, <4>1, InvisibleStep DEF DeleteRow, Created
    <3> QED
      BY <3>3, <3>4
  <2> QED
    BY <1>2, <2>1, <2>2, <2>4 DEF DeleteRow
<1> QED
  BY <1>1, <1>2 DEF DeleteStep

(* Every behaviour of the handlers and tasks, with all their races,        *)
(* failures and crashes, is one of the atomic document store.              *)
THEOREM Refinement == Spec => ImplementsDocumentStore
<1>1. Init => Store!Init
  BY DEF Init, Store!Init, Document, SearchableChunks, GetFile, NoRow
<1>2. IndInv /\ [Next]_vars => [Store!Next]_(Store!vars)
  <2> SUFFICES ASSUME IndInv, [Next]_vars
               PROVE  Store!Next \/ UNCHANGED <<Status, Content>>
    BY DEF Store!vars, Status, Content
  <2>1. ASSUME NEW f \in Files, UploadReject(f) \/ UploadStep(f)
        PROVE  Store!Next \/ UNCHANGED <<Status, Content>>
    BY <2>1, UploadSteps DEF Store!Next
  <2>2. ASSUME NEW f \in Files, IndexStep(f)
        PROVE  Store!Next \/ UNCHANGED <<Status, Content>>
    BY <2>2, IndexSteps DEF Store!Next
  <2>3. ASSUME NEW d \in Deletes, DeleteStep(d)
        PROVE  Store!Next \/ UNCHANGED <<Status, Content>>
    BY <2>3, DeleteSteps DEF Store!Next
  <2>4. CASE Crash
    BY <2>4, ParametersOK, InvisibleStep DEF Crash, Created, IndInv, TypeOK
  <2>5. CASE UNCHANGED vars
    BY <2>5, ParametersOK, InvisibleStep DEF vars, Created
  <2> QED
    BY <2>1, <2>2, <2>3, <2>4, <2>5 DEF Next
<1> QED
  BY <1>1, <1>2, Invariance, PTL DEF Spec, ImplementsDocumentStore, Store!Spec

=============================================================================
