------------------------ MODULE AttachmentFilesProofs ------------------------
(***************************************************************************)
(* Type correctness of AttachmentFiles, and its two safety properties, for *)
(* any number of keys, requests and faults.                                *)
(***************************************************************************)
EXTENDS AttachmentFiles, TLAPS

Storing(r) == request[r].step = "storing"

(* Whatever is on disk, has a row or is mentioned anywhere was issued. *)
KeysIssued ==
  /\ \A k \in Keys : OnDisk(k) \/ HasRow(k) => k \in issued
  /\ \A r \in Requests : HeldBy(r) \cup request[r].remove \subseteq issued
  /\ cleaner.oldFiles \subseteq issued
  /\ cleaner.step = "files" => cleaner.todo \subseteq issued

(* The files of a request that is storing: none has a row, those stored    *)
(* are on disk and no older than the request, the others are not on disk.  *)
UploadsFresh ==
  \A r \in Requests : Storing(r) =>
    /\ \A k \in request[r].todo : ~OnDisk(k) /\ ~HasRow(k)
    /\ \A k \in request[r].stored : disk[k] \in 0 .. request[r].ticks /\ ~HasRow(k)

(* Nobody else is about to touch them: no other request, nor the worker.   *)
UploadsPrivate ==
  \A r \in Requests : Storing(r) =>
    /\ \A s \in Requests \ {r} :
         /\ Storing(s) => HeldBy(r) \cap HeldBy(s) = {}
         /\ request[s].step = "deleting" => HeldBy(r) \cap request[s].todo = {}
    /\ \A s \in Requests : Storing(s) => HeldBy(r) \cap request[s].remove = {}
    /\ HeldBy(r) \cap cleaner.oldFiles = {}
    /\ cleaner.step = "files" => HeldBy(r) \cap cleaner.todo = {}

(* CompensationComplete, with what each phase of a request holds. *)
Claimed(k) ==
  \E r \in Requests :
    \/ Storing(r) /\ k \in request[r].stored
    \/ request[r].step = "deleting" /\ k \in request[r].todo

StrayFilesClaimed ==
  faults = 0 => \A k \in Keys : OnDisk(k) /\ ~HasRow(k) => Claimed(k)

FilesInv ==
  TypeOK /\ KeysIssued /\ UploadsFresh /\ UploadsPrivate /\ StrayFilesClaimed

-----------------------------------------------------------------------------
LEMMA InitFiles == Init => FilesInv
BY FilesAssumption
   DEF Init, FilesInv, TypeOK, KeysIssued, UploadsFresh, UploadsPrivate,
       StrayFilesClaimed, Ages, Old, RequestState, CleanerState, NewRequest,
       IdleCleaner, OnDisk, HasRow, HeldBy, Storing

(* Every step keeps the types. *)
LEMMA TypeStep == TypeOK /\ [Next]_vars => TypeOK'
<1> SUFFICES ASSUME TypeOK, [Next]_vars PROVE TypeOK'
  OBVIOUS
<1> USE FilesAssumption DEF TypeOK, Ages, Old, Fault
<1>1. ASSUME NEW r \in Requests, NEW new \in SUBSET Keys, NEW remove \in SUBSET Keys,
             BeginRequest(r, new, remove)
      PROVE  TypeOK'
  BY <1>1 DEF BeginRequest, RequestState
<1>2. ASSUME NEW r \in Requests, RequestStep(r)
      PROVE  TypeOK'
  <2>0. request[r] \in RequestState
    OBVIOUS
  <2>a. ASSUME NEW K \in SUBSET Keys, Deleting(r, K)
        PROVE  request' \in [Requests -> RequestState]
    BY <2>0, <2>a DEF Deleting, RequestState
  <2>b. RowsAfter(r) \in [Keys -> Ages \cup {Absent}]
    BY DEF RowsAfter
  <2>1. CASE StoreFile(r)
    <3>1. PICK k \in request[r].todo :
            /\ disk' = [disk EXCEPT ![k] = 0]
            /\ request' = [request EXCEPT ![r].todo = @ \ {k},
                                         ![r].stored = @ \cup {k}]
      BY <2>1 DEF StoreFile
    <3>2. request' \in [Requests -> RequestState]
      <4>1. [request[r] EXCEPT !.todo = @ \ {k}, !.stored = @ \cup {k}]
              \in RequestState
        BY <2>0 DEF RequestState
      <4> QED
        BY <3>1, <4>1
    <3>3. disk' \in [Keys -> Ages \cup {Absent}]
      <4>1. 0 \in Ages \cup {Absent}
        OBVIOUS
      <4> QED
        BY <3>1, <4>1
    <3> QED
      BY <2>1, <3>2, <3>3 DEF StoreFile
  <2>2. CASE StoreFails(r)
    <3>1. request' \in [Requests -> RequestState]
      BY <2>0, <2>2, <2>a DEF StoreFails, RequestState
    <3>2. 0 \in Ages \cup {Absent} /\ Absent \in Ages \cup {Absent}
      OBVIOUS
    <3>3. disk' \in [Keys -> Ages \cup {Absent}]
      BY <2>2, <3>2 DEF StoreFails
    <3> QED
      BY <2>2, <3>1, <3>3 DEF StoreFails
  <2>3. CASE Commit(r)
    <3>1. request' \in [Requests -> RequestState]
      BY <2>0, <2>3, <2>a DEF Commit, RequestState
    <3> QED
      BY <2>3, <2>b, <3>1 DEF Commit
  <2>4. CASE RollBack(r)
    BY <2>4 DEF RollBack, RequestState, Deleting, Compensation
  <2>5. CASE CommitUnknown(r)
    <3>1. request' \in [Requests -> RequestState]
      BY <2>0, <2>5, <2>a DEF CommitUnknown, RequestState, Compensation
    <3> QED
      BY <2>5, <2>b, <3>1 DEF CommitUnknown
  <2>6. CASE DeleteFile(r)
    BY <2>6 DEF DeleteFile, RequestState
  <2>7. CASE DeleteFails(r)
    BY <2>7 DEF DeleteFails, RequestState
  <2>8. CASE EndRequest(r)
    BY <2>8 DEF EndRequest, RequestState, Finished, NewRequest
  <2> QED
    BY <1>2, <2>1, <2>2, <2>3, <2>4, <2>5, <2>6, <2>7, <2>8 DEF RequestStep
<1>3. CASE CleanerStep
  <2> USE DEF CleanerState, IdleCleaner
  <2>1. CASE StartPass
    BY <2>1 DEF StartPass, OlderThanGrace
  <2>2. CASE FindDatabaseFiles
    BY <2>2 DEF FindDatabaseFiles
  <2>3. CASE ListFiles
    BY <2>3 DEF ListFiles
  <2>4. CASE HaveRead
    BY <2>4 DEF HaveRead
  <2>5. CASE RowsChecked
    BY <2>5 DEF RowsChecked, Deletable
  <2>6. CASE EndPass
    BY <2>6 DEF EndPass
  <2>7. ASSUME NEW k \in Keys, CheckRow(k)
        PROVE  TypeOK'
    BY <2>7 DEF CheckRow
  <2>8. ASSUME NEW k \in Keys, DeleteOrphan(k)
        PROVE  TypeOK'
    BY <2>8 DEF DeleteOrphan
  <2> QED
    BY <1>3, <2>1, <2>2, <2>3, <2>4, <2>5, <2>6, <2>7, <2>8 DEF CleanerStep
<1>4. CASE PassFails
  BY <1>4 DEF PassFails, CleanerState, IdleCleaner
<1>5. CASE Tick
  <2>1. \A age \in Ages \cup {Absent} : Older(age) \in Ages \cup {Absent}
    BY DEF Older
  <2>2. request' \in [Requests -> RequestState]
    <3>1. ASSUME NEW r \in Requests, Storing(r)
          PROVE  [request[r] EXCEPT !.ticks = @ + 1] \in RequestState
      <4>1. request[r] \in RequestState /\ request[r].ticks < MaxUpload
        BY <1>5, <3>1 DEF Tick, Storing
      <4> QED
        BY <4>1 DEF RequestState
    <3> QED
      BY <1>5, <3>1 DEF Tick, Storing
  <2> QED
    BY <1>5, <2>1, <2>2 DEF Tick
<1>6. CASE Crash
  BY <1>6 DEF Crash, RequestState, Finished, NewRequest, CleanerState, IdleCleaner
<1>7. CASE UNCHANGED vars
  BY <1>7 DEF vars
<1> QED
  BY <1>1, <1>2, <1>3, <1>4, <1>5, <1>6, <1>7 DEF Next

(* The steps of requests keep the rest of the invariant. *)
LEMMA BeginStep ==
  ASSUME FilesInv, TypeOK', NEW r \in Requests, NEW new \in SUBSET Keys,
         NEW remove \in SUBSET Keys, BeginRequest(r, new, remove)
  PROVE  FilesInv'
<1> USE FilesAssumption
    DEF FilesInv, TypeOK, RequestState, Ages, Old, Fault, OnDisk, HasRow, HeldBy,
        Storing, BeginRequest
<1>1. KeysIssued'
  BY DEF KeysIssued
<1>2. UploadsFresh'
  BY DEF UploadsFresh, KeysIssued
<1>3. UploadsPrivate'
  BY DEF UploadsPrivate, UploadsFresh, KeysIssued
<1>4. StrayFilesClaimed'
  BY DEF StrayFilesClaimed, Claimed
<1> QED
  BY <1>1, <1>2, <1>3, <1>4

LEMMA StoreFileStep ==
  ASSUME FilesInv, TypeOK', NEW r \in Requests, StoreFile(r)
  PROVE  FilesInv'
<1> USE FilesAssumption
    DEF FilesInv, TypeOK, RequestState, Ages, Old, Fault, OnDisk, HasRow, HeldBy,
        Storing, StoreFile
<1>1. KeysIssued'
  BY DEF KeysIssued
<1>2. UploadsFresh'
  BY DEF UploadsFresh, UploadsPrivate
<1>3. UploadsPrivate'
  BY DEF UploadsPrivate, UploadsFresh
<1>4. StrayFilesClaimed'
  BY DEF StrayFilesClaimed, Claimed
<1> QED
  BY <1>1, <1>2, <1>3, <1>4

LEMMA StoreFailsStep ==
  ASSUME FilesInv, TypeOK', NEW r \in Requests, StoreFails(r)
  PROVE  FilesInv'
<1> USE FilesAssumption
    DEF FilesInv, TypeOK, RequestState, Ages, Old, Fault, OnDisk, HasRow, HeldBy,
        Storing, StoreFails, Deleting
<1>1. KeysIssued'
  BY DEF KeysIssued
<1>2. UploadsFresh'
  BY DEF UploadsFresh, UploadsPrivate
<1>3. UploadsPrivate'
  BY DEF UploadsPrivate, UploadsFresh
<1>4. StrayFilesClaimed'
  BY DEF StrayFilesClaimed, Claimed
<1> QED
  BY <1>1, <1>2, <1>3, <1>4

LEMMA CommitStep ==
  ASSUME FilesInv, TypeOK', NEW r \in Requests, Commit(r)
  PROVE  FilesInv'
<1> USE FilesAssumption
    DEF FilesInv, TypeOK, RequestState, Ages, Old, Fault, OnDisk, HasRow, HeldBy,
        Storing, Commit, Deleting, Committing, RowsAfter
<1>1. KeysIssued'
  BY DEF KeysIssued
<1>2. UploadsFresh'
  BY DEF UploadsFresh, UploadsPrivate
<1>3. UploadsPrivate'
  BY DEF UploadsPrivate, UploadsFresh
<1>4. StrayFilesClaimed'
  BY DEF StrayFilesClaimed, Claimed
<1> QED
  BY <1>1, <1>2, <1>3, <1>4

LEMMA RollBackStep ==
  ASSUME FilesInv, TypeOK', NEW r \in Requests, RollBack(r)
  PROVE  FilesInv'
<1> USE FilesAssumption
    DEF FilesInv, TypeOK, RequestState, Ages, Old, Fault, OnDisk, HasRow, HeldBy,
        Storing, RollBack, Deleting, Committing, Compensation
<1>1. KeysIssued'
  BY DEF KeysIssued
<1>2. UploadsFresh'
  BY DEF UploadsFresh, UploadsPrivate
<1>3. UploadsPrivate'
  BY DEF UploadsPrivate, UploadsFresh
<1>4. StrayFilesClaimed'
  BY DEF StrayFilesClaimed, Claimed
<1> QED
  BY <1>1, <1>2, <1>3, <1>4

LEMMA CommitUnknownStep ==
  ASSUME FilesInv, TypeOK', NEW r \in Requests, CommitUnknown(r)
  PROVE  FilesInv'
<1> USE FilesAssumption
    DEF FilesInv, TypeOK, RequestState, Ages, Old, Fault, OnDisk, HasRow, HeldBy,
        Storing, CommitUnknown, Deleting, Committing, RowsAfter, Compensation
<1>1. KeysIssued'
  BY DEF KeysIssued
<1>2. UploadsFresh'
  BY DEF UploadsFresh, UploadsPrivate
<1>3. UploadsPrivate'
  BY DEF UploadsPrivate, UploadsFresh
<1>4. StrayFilesClaimed'
  BY DEF StrayFilesClaimed, Claimed
<1> QED
  BY <1>1, <1>2, <1>3, <1>4

LEMMA DeleteFileStep ==
  ASSUME FilesInv, TypeOK', NEW r \in Requests, DeleteFile(r)
  PROVE  FilesInv'
<1> USE FilesAssumption
    DEF FilesInv, TypeOK, RequestState, Ages, Old, Fault, OnDisk, HasRow, HeldBy,
        Storing, DeleteFile
<1>1. KeysIssued'
  BY DEF KeysIssued
<1>2. UploadsFresh'
  BY DEF UploadsFresh, UploadsPrivate
<1>3. UploadsPrivate'
  BY DEF UploadsPrivate, UploadsFresh
<1>4. StrayFilesClaimed'
  BY DEF StrayFilesClaimed, Claimed
<1> QED
  BY <1>1, <1>2, <1>3, <1>4

LEMMA DeleteFailsStep ==
  ASSUME FilesInv, TypeOK', NEW r \in Requests, DeleteFails(r)
  PROVE  FilesInv'
<1> USE FilesAssumption
    DEF FilesInv, TypeOK, RequestState, Ages, Old, Fault, OnDisk, HasRow, HeldBy,
        Storing, DeleteFails
<1>1. KeysIssued'
  BY DEF KeysIssued
<1>2. UploadsFresh'
  BY DEF UploadsFresh, UploadsPrivate
<1>3. UploadsPrivate'
  BY DEF UploadsPrivate, UploadsFresh
<1>4. StrayFilesClaimed'
  BY DEF StrayFilesClaimed, Claimed
<1> QED
  BY <1>1, <1>2, <1>3, <1>4

LEMMA EndRequestStep ==
  ASSUME FilesInv, TypeOK', NEW r \in Requests, EndRequest(r)
  PROVE  FilesInv'
<1> USE FilesAssumption
    DEF FilesInv, TypeOK, RequestState, Ages, Old, Fault, OnDisk, HasRow, HeldBy,
        Storing, EndRequest, Finished, NewRequest
<1>1. KeysIssued'
  BY DEF KeysIssued
<1>2. UploadsFresh'
  BY DEF UploadsFresh, UploadsPrivate
<1>3. UploadsPrivate'
  BY DEF UploadsPrivate, UploadsFresh
<1>4. StrayFilesClaimed'
  BY DEF StrayFilesClaimed, Claimed
<1> QED
  BY <1>1, <1>2, <1>3, <1>4

(* The steps of the worker, of the clock, and crashes. *)
LEMMA StartPassStep ==
  ASSUME FilesInv, TypeOK', StartPass
  PROVE  FilesInv'
<1> USE DEF FilesInv, TypeOK, StartPass, IdleCleaner, OnDisk, HasRow, HeldBy, Storing
<1>1. \A k \in OlderThanGrace(disk) : k \in Keys /\ disk[k] = Old
  BY DEF OlderThanGrace
<1>2. cleaner'.oldFiles = OlderThanGrace(disk) /\ cleaner'.step = "reading"
  BY DEF CleanerState
<1>3. Old # Absent /\ Old \in Nat
  BY FilesAssumption DEF Old
<1>4. KeysIssued'
  BY <1>1, <1>2, <1>3 DEF KeysIssued
<1>5. UploadsFresh'
  BY DEF UploadsFresh
<1>6. ASSUME NEW r \in Requests, Storing(r), NEW k \in HeldBy(r)
      PROVE  k \notin OlderThanGrace(disk)
  <2>1. request[r].ticks \in 0 .. MaxUpload /\ k \in Keys
    BY <1>6 DEF RequestState
  <2>2. disk[k] = Absent \/ disk[k] \in 0 .. request[r].ticks
    BY <1>6 DEF UploadsFresh
  <2> QED
    BY <1>1, <1>3, <2>1, <2>2, FilesAssumption DEF Old
<1>7. UploadsPrivate'
  BY <1>2, <1>6 DEF UploadsPrivate
<1>8. StrayFilesClaimed'
  BY DEF StrayFilesClaimed, Claimed
<1> QED
  BY <1>4, <1>5, <1>7, <1>8

LEMMA FindDatabaseFilesStep ==
  ASSUME FilesInv, TypeOK', FindDatabaseFiles
  PROVE  FilesInv'
<1> USE FilesAssumption
    DEF FilesInv, TypeOK, RequestState, CleanerState, Ages, Old, Fault, OnDisk,
        HasRow, HeldBy, Storing, FindDatabaseFiles
<1>1. KeysIssued'
  BY DEF KeysIssued
<1>2. UploadsFresh'
  BY DEF UploadsFresh
<1>3. UploadsPrivate'
  BY DEF UploadsPrivate, UploadsFresh
<1>4. StrayFilesClaimed'
  BY DEF StrayFilesClaimed, Claimed
<1> QED
  BY <1>1, <1>2, <1>3, <1>4

LEMMA ListFilesStep ==
  ASSUME FilesInv, TypeOK', ListFiles
  PROVE  FilesInv'
<1> USE FilesAssumption
    DEF FilesInv, TypeOK, RequestState, CleanerState, Ages, Old, Fault, OnDisk,
        HasRow, HeldBy, Storing, ListFiles
<1>1. KeysIssued'
  BY DEF KeysIssued
<1>2. UploadsFresh'
  BY DEF UploadsFresh
<1>3. UploadsPrivate'
  BY DEF UploadsPrivate, UploadsFresh
<1>4. StrayFilesClaimed'
  BY DEF StrayFilesClaimed, Claimed
<1> QED
  BY <1>1, <1>2, <1>3, <1>4

LEMMA HaveReadStep ==
  ASSUME FilesInv, TypeOK', HaveRead
  PROVE  FilesInv'
<1> USE FilesAssumption
    DEF FilesInv, TypeOK, RequestState, CleanerState, Ages, Old, Fault, OnDisk,
        HasRow, HeldBy, Storing, HaveRead
<1>1. KeysIssued'
  BY DEF KeysIssued
<1>2. UploadsFresh'
  BY DEF UploadsFresh
<1>3. UploadsPrivate'
  BY DEF UploadsPrivate, UploadsFresh
<1>4. StrayFilesClaimed'
  BY DEF StrayFilesClaimed, Claimed
<1> QED
  BY <1>1, <1>2, <1>3, <1>4

LEMMA CheckRowStep ==
  ASSUME FilesInv, TypeOK', NEW k \in Keys, CheckRow(k)
  PROVE  FilesInv'
<1> USE FilesAssumption
    DEF FilesInv, TypeOK, RequestState, CleanerState, Ages, Old, Fault, OnDisk,
        HasRow, HeldBy, Storing, CheckRow, KeepRow, IdleCleaner
<1>1. KeysIssued'
  BY DEF KeysIssued
<1>2. UploadsFresh'
  BY DEF UploadsFresh
<1>3. UploadsPrivate'
  BY DEF UploadsPrivate, UploadsFresh
<1>4. StrayFilesClaimed'
  BY DEF StrayFilesClaimed, Claimed
<1> QED
  BY <1>1, <1>2, <1>3, <1>4

LEMMA RowsCheckedStep ==
  ASSUME FilesInv, TypeOK', RowsChecked
  PROVE  FilesInv'
<1> USE FilesAssumption
    DEF FilesInv, TypeOK, RequestState, CleanerState, Ages, Old, Fault, OnDisk,
        HasRow, HeldBy, Storing, RowsChecked, Deletable
<1>1. KeysIssued'
  BY DEF KeysIssued
<1>2. UploadsFresh'
  BY DEF UploadsFresh
<1>3. UploadsPrivate'
  BY DEF UploadsPrivate, UploadsFresh
<1>4. StrayFilesClaimed'
  BY DEF StrayFilesClaimed, Claimed
<1> QED
  BY <1>1, <1>2, <1>3, <1>4

LEMMA DeleteOrphanStep ==
  ASSUME FilesInv, TypeOK', NEW k \in Keys, DeleteOrphan(k)
  PROVE  FilesInv'
<1> USE FilesAssumption
    DEF FilesInv, TypeOK, RequestState, CleanerState, Ages, Old, Fault, OnDisk,
        HasRow, HeldBy, Storing, DeleteOrphan
<1>1. KeysIssued'
  BY DEF KeysIssued
<1>2. UploadsFresh'
  BY DEF UploadsFresh, UploadsPrivate
<1>3. UploadsPrivate'
  BY DEF UploadsPrivate, UploadsFresh
<1>4. StrayFilesClaimed'
  BY DEF StrayFilesClaimed, Claimed
<1> QED
  BY <1>1, <1>2, <1>3, <1>4

LEMMA EndPassStep ==
  ASSUME FilesInv, TypeOK', EndPass
  PROVE  FilesInv'
<1> USE FilesAssumption
    DEF FilesInv, TypeOK, RequestState, CleanerState, Ages, Old, Fault, OnDisk,
        HasRow, HeldBy, Storing, EndPass, IdleCleaner
<1>1. KeysIssued'
  BY DEF KeysIssued
<1>2. UploadsFresh'
  BY DEF UploadsFresh
<1>3. UploadsPrivate'
  BY DEF UploadsPrivate, UploadsFresh
<1>4. StrayFilesClaimed'
  BY DEF StrayFilesClaimed, Claimed
<1> QED
  BY <1>1, <1>2, <1>3, <1>4

LEMMA PassFailsStep ==
  ASSUME FilesInv, TypeOK', PassFails
  PROVE  FilesInv'
<1> USE FilesAssumption
    DEF FilesInv, TypeOK, RequestState, CleanerState, Ages, Old, Fault, OnDisk,
        HasRow, HeldBy, Storing, PassFails, IdleCleaner
<1>1. KeysIssued'
  BY DEF KeysIssued
<1>2. UploadsFresh'
  BY DEF UploadsFresh
<1>3. UploadsPrivate'
  BY DEF UploadsPrivate, UploadsFresh
<1>4. StrayFilesClaimed'
  BY DEF StrayFilesClaimed, Claimed
<1> QED
  BY <1>1, <1>2, <1>3, <1>4

LEMMA TickStep ==
  ASSUME FilesInv, TypeOK', Tick
  PROVE  FilesInv'
<1> USE FilesAssumption
    DEF FilesInv, TypeOK, RequestState, CleanerState, Ages, Old, Fault, OnDisk,
        HasRow, HeldBy, Storing, Tick, Older
<1>1. KeysIssued'
  BY DEF KeysIssued
<1>2. UploadsFresh'
  <2>1. ASSUME NEW r \in Requests, Storing(r)'
        PROVE  /\ Storing(r) /\ request[r].ticks < MaxUpload
               /\ request'[r].todo = request[r].todo
               /\ request'[r].stored = request[r].stored
               /\ request'[r].ticks = request[r].ticks + 1
    BY <2>1
  <2>2. ASSUME NEW r \in Requests, Storing(r)', NEW k \in request[r].stored
        PROVE  disk'[k] \in 0 .. request[r].ticks + 1 /\ rows'[k] = Absent
    <3>1. k \in Keys /\ disk[k] \in 0 .. request[r].ticks /\ rows[k] = Absent
      BY <2>1, <2>2 DEF UploadsFresh
    <3> QED
      BY <2>1, <2>2, <3>1
  <2>3. ASSUME NEW r \in Requests, Storing(r)', NEW k \in request[r].todo
        PROVE  disk'[k] = Absent /\ rows'[k] = Absent
    <3>1. k \in Keys /\ disk[k] = Absent /\ rows[k] = Absent
      BY <2>1, <2>3 DEF UploadsFresh
    <3> QED
      BY <3>1
  <2> QED
    <3>1. ASSUME NEW r \in Requests, Storing(r)'
          PROVE  /\ \A k \in request'[r].todo : disk'[k] = Absent /\ rows'[k] = Absent
                 /\ \A k \in request'[r].stored :
                      disk'[k] \in 0 .. request'[r].ticks /\ rows'[k] = Absent
      BY ONLY <2>1, <2>2, <2>3, <3>1
    <3> QED
      BY ONLY <3>1 DEF UploadsFresh, OnDisk, HasRow
<1>3. UploadsPrivate'
  <2>1. \A r \in Requests :
          /\ request'[r].step = request[r].step
          /\ request'[r].todo = request[r].todo
          /\ request'[r].stored = request[r].stored
          /\ request'[r].remove = request[r].remove
    OBVIOUS
  <2> HIDE DEF Tick
  <2>2. cleaner' = cleaner
    BY DEF Tick
  <2> QED
    BY ONLY <2>1, <2>2, UploadsPrivate DEF UploadsPrivate, HeldBy, Storing
<1>4. StrayFilesClaimed'
  BY DEF StrayFilesClaimed, Claimed
<1> QED
  BY <1>1, <1>2, <1>3, <1>4

LEMMA CrashStep ==
  ASSUME FilesInv, TypeOK', Crash
  PROVE  FilesInv'
<1> USE FilesAssumption
    DEF FilesInv, TypeOK, RequestState, CleanerState, Ages, Old, Fault, OnDisk,
        HasRow, HeldBy, Storing, Crash, Finished, NewRequest, IdleCleaner, InProgress
<1>1. KeysIssued'
  BY DEF KeysIssued
<1>2. UploadsFresh'
  BY DEF UploadsFresh
<1>3. UploadsPrivate'
  BY DEF UploadsPrivate, UploadsFresh
<1>4. StrayFilesClaimed'
  BY DEF StrayFilesClaimed, Claimed
<1> QED
  BY <1>1, <1>2, <1>3, <1>4

LEMMA StutterStep ==
  ASSUME FilesInv, UNCHANGED vars
  PROVE  FilesInv'
BY DEF FilesInv, TypeOK, KeysIssued, UploadsFresh, UploadsPrivate,
       StrayFilesClaimed, Claimed, OnDisk, HasRow, HeldBy, Storing, vars

LEMMA FilesStep == FilesInv /\ [Next]_vars => FilesInv'
<1> SUFFICES ASSUME FilesInv, [Next]_vars PROVE FilesInv'
  OBVIOUS
<1>0. TypeOK'
  BY TypeStep DEF FilesInv
<1>1. ASSUME NEW r \in Requests, RequestStep(r)
      PROVE  FilesInv'
  BY <1>0, <1>1, StoreFileStep, StoreFailsStep, CommitStep, RollBackStep,
     CommitUnknownStep, DeleteFileStep, DeleteFailsStep, EndRequestStep
     DEF RequestStep
<1>2. CASE CleanerStep
  BY <1>0, <1>2, StartPassStep, FindDatabaseFilesStep, ListFilesStep,
     HaveReadStep, CheckRowStep, RowsCheckedStep, DeleteOrphanStep, EndPassStep
     DEF CleanerStep
<1> QED
  BY <1>0, <1>1, <1>2, BeginStep, PassFailsStep, TickStep, CrashStep, StutterStep
     DEF Next

-----------------------------------------------------------------------------
(* The state of the files is well typed, and each upload in progress has   *)
(* its files to itself.                                                    *)
THEOREM FilesInvariance == Spec => []FilesInv
BY InitFiles, FilesStep, PTL DEF Spec

(* The variables of the files keep their types. *)
THEOREM FilesTypeCorrect == Spec => []TypeOK
BY FilesInvariance, PTL DEF FilesInv

(* While nothing crashes or fails, each file without a row belongs to a    *)
(* request that will attach or delete it: compensation forgets none.       *)
THEOREM CompensationForgetsNothing == Spec => []CompensationComplete
<1>1. FilesInv => CompensationComplete
  BY DEF FilesInv, StrayFilesClaimed, CompensationComplete, Claimed, Held,
         HeldBy, InProgress, Storing
<1> QED
  BY <1>1, FilesInvariance, PTL

(* A request that commits has every file it stored, however the worker's   *)
(* pass and the other requests interleave with it: that MaxUpload is less  *)
(* than Grace is all the worker relies on.                                 *)
THEOREM CommittedFilesExist == Spec => SuccessHasFiles
<1>1. ASSUME FilesInv, [Next]_vars, NEW r \in Requests, Committing(r),
             rows' # rows, request'[r].step = "deleting", NEW k \in request[r].stored
      PROVE  disk'[k] # Absent /\ rows'[k] # Absent
  <2>1. k \in Keys /\ disk[k] # Absent
    <3>1. request[r].ticks \in 0 .. MaxUpload
      BY <1>1 DEF FilesInv, TypeOK, RequestState
    <3>2. k \in Keys /\ disk[k] \in 0 .. request[r].ticks
      BY <1>1 DEF FilesInv, TypeOK, RequestState, UploadsFresh, Storing, Committing
    <3> QED
      BY <3>1, <3>2, FilesAssumption
  <2>2. CASE Commit(r) \/ CommitUnknown(r)
    BY <1>1, <2>1, <2>2, FilesAssumption DEF Commit, CommitUnknown, RowsAfter
  <2>3. ASSUME NEW s \in Requests, RequestStep(s)
        PROVE  Commit(r) \/ CommitUnknown(r)
    <3>1. Commit(s) \/ CommitUnknown(s)
      BY <1>1, <2>3
         DEF RequestStep, StoreFile, StoreFails, RollBack, DeleteFile,
             DeleteFails, EndRequest
    <3>2. s = r
      BY <1>1, <3>1
         DEF Commit, CommitUnknown, Deleting, Committing, FilesInv, TypeOK
    <3> QED
      BY <3>1, <3>2
  <2>4. request'[r].step # request[r].step
    BY <1>1 DEF Committing
  <2>5. ~CleanerStep
    BY <2>4
       DEF CleanerStep, StartPass, FindDatabaseFiles, ListFiles, HaveRead,
           CheckRow, RowsChecked, DeleteOrphan, EndPass
  <2>6. ASSUME NEW s \in Requests, NEW new \in SUBSET Keys, NEW remove \in SUBSET Keys
        PROVE  ~BeginRequest(s, new, remove)
    BY <1>1 DEF BeginRequest
  <2>7. ~Tick
    <3>1. CASE Tick
      BY <1>1, <2>4, <3>1 DEF Tick, FilesInv, TypeOK, RequestState
    <3> QED
      BY <3>1
  <2>8. ~Crash /\ ~PassFails /\ ~UNCHANGED vars
    BY <1>1, <2>4 DEF Crash, PassFails, vars
  <2> QED
    BY <1>1, <2>2, <2>3, <2>5, <2>6, <2>7, <2>8 DEF Next
<1>2. FilesInv /\ [Next]_vars =>
        [\A r \in Requests :
           Committing(r) /\ rows' # rows /\ request'[r].step = "deleting"
             => \A k \in request[r].stored : disk'[k] # Absent /\ rows'[k] # Absent]_vars
  BY <1>1
<1> QED
  BY <1>2, FilesInvariance, PTL DEF Spec, SuccessHasFiles
==============================================================================
