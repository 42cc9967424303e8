--------------------------- MODULE AttachmentFiles ---------------------------
(***************************************************************************)
(* Attached files: FilesService and the file storage, the rows that        *)
(* FileAttachmentsRepository writes in the transaction of a ticket event   *)
(* or a chat message, and OrphanedFilesWorker, which removes what one side *)
(* has and the other has not.                                              *)
(*                                                                         *)
(* A request stores its files on disk, then runs its transaction, then     *)
(* deletes the files of attachments it removed; if it fails, it deletes    *)
(* the files it stored.  A file has a row and an attachment, written and   *)
(* deleted together: they are one here.                                    *)
(***************************************************************************)
EXTENDS Naturals

CONSTANTS
  Keys,        \* storage keys: random, so each is given out once
  Requests,    \* requests with files to attach or to remove
  Grace,       \* FILE_ORPHAN_GRACE_PERIOD_MS, in ticks of the clock
  MaxUpload,   \* BOUND: ticks that pass while a request stores and commits
  MaxFaults,   \* BOUND: crashes, errors of the disk and of the database
  Absent       \* no file, no row

ASSUME FilesAssumption ==
  /\ Grace \in Nat /\ MaxUpload \in Nat /\ MaxFaults \in Nat
  /\ Absent \notin Nat
  /\ MaxUpload < Grace     \* a transaction times out in 5 s, the grace is an hour

VARIABLES
  disk,      \* the age of each key's file, or Absent
  rows,      \* the age of each key's row, or Absent
  issued,    \* the keys given out
  request,   \* where each request is
  cleaner,   \* where the pass of the worker is
  faults     \* how many faults there were

vars == <<disk, rows, issued, request, cleaner, faults>>

Old == Grace + 1     \* older than the grace period, however much

Ages == 0 .. Old

OnDisk(k) == disk[k] # Absent

HasRow(k) == rows[k] # Absent

(* A request in progress: the keys still to store and those stored, the    *)
(* keys whose attachments it removes, and the ticks since it began.  After *)
(* the transaction, todo holds the files still to delete.                  *)
RequestState ==
  [step : {"new", "storing", "deleting", "done"}, todo : SUBSET Keys,
   stored : SUBSET Keys, remove : SUBSET Keys, ticks : 0 .. MaxUpload]

(* A pass: what was old when it computed its cutoff, what its two queries  *)
(* found of that (rows is the set of known storage keys), and what it has  *)
(* looked at.                                                              *)
CleanerState ==
  [step : {"idle", "reading", "rows", "files"}, read : SUBSET {"rows", "files"},
   oldRows : SUBSET Keys, oldFiles : SUBSET Keys, todo : SUBSET Keys,
   known : SUBSET Keys, listed : SUBSET Keys]

TypeOK ==
  /\ disk \in [Keys -> Ages \cup {Absent}]
  /\ rows \in [Keys -> Ages \cup {Absent}]
  /\ issued \subseteq Keys
  /\ request \in [Requests -> RequestState]
  /\ cleaner \in CleanerState
  /\ faults \in 0 .. MaxFaults

NewRequest == [step |-> "new", todo |-> {}, stored |-> {}, remove |-> {}, ticks |-> 0]

IdleCleaner ==
  [step |-> "idle", read |-> {}, oldRows |-> {}, oldFiles |-> {}, todo |-> {},
   known |-> {}, listed |-> {}]

Init ==
  /\ disk = [k \in Keys |-> Absent] /\ rows = [k \in Keys |-> Absent]
  /\ issued = {} /\ request = [r \in Requests |-> NewRequest]
  /\ cleaner = IdleCleaner /\ faults = 0

Fault == faults < MaxFaults /\ faults' = faults + 1

-----------------------------------------------------------------------------
(* Requests *)

HeldBy(r) == request[r].todo \cup request[r].stored

(* A request with new files and attachments to remove, all of which it has *)
(* found.                                                                  *)
BeginRequest(r, new, remove) ==
  /\ request[r].step = "new" /\ new \cup remove # {}
  /\ new \cap issued = {} /\ issued' = issued \cup new
  /\ \A k \in remove : HasRow(k)
  /\ request' = [request EXCEPT ![r] =
       [step |-> "storing", todo |-> new, stored |-> {}, remove |-> remove,
        ticks |-> 0]]
  /\ UNCHANGED <<disk, rows, cleaner, faults>>

StoreFile(r) ==
  /\ request[r].step = "storing"
  /\ \E k \in request[r].todo :
       /\ disk' = [disk EXCEPT ![k] = 0]
       /\ request' = [request EXCEPT ![r].todo = @ \ {k}, ![r].stored = @ \cup {k}]
  /\ UNCHANGED <<rows, issued, cleaner, faults>>

(* From here the files K are deleted, and the request ends. *)
Deleting(r, K) ==
  request' = [request EXCEPT ![r].step = "deleting", ![r].todo = K]

(* A file cannot be written: what is left of it on disk is not among the   *)
(* stored files that are cleaned up.                                       *)
StoreFails(r) ==
  /\ request[r].step = "storing"
  /\ \E k \in request[r].todo : \E age \in {0, Absent} :
       disk' = [disk EXCEPT ![k] = age]
  /\ Deleting(r, request[r].stored)
  /\ Fault
  /\ UNCHANGED <<rows, issued, cleaner>>

Committing(r) == request[r].step = "storing" /\ request[r].todo = {}

RowsAfter(r) ==
  [k \in Keys |-> IF k \in request[r].stored THEN 0
                  ELSE IF k \in request[r].remove THEN Absent ELSE rows[k]]

(* Mutation: nothing is deleted after a failure. *)
BugNoCompensation(r) == {}

(* What withStoredFiles and createMessage clean up after an error. *)
Compensation(r) == request[r].stored

Commit(r) ==
  /\ Committing(r)
  /\ rows' = RowsAfter(r)
  /\ Deleting(r, request[r].remove)
  /\ UNCHANGED <<disk, issued, cleaner, faults>>

(* The transaction is refused or rolled back; or a chat message turns out  *)
(* to have been sent before.                                               *)
RollBack(r) ==
  /\ Committing(r)
  /\ Deleting(r, Compensation(r))
  /\ UNCHANGED <<disk, rows, issued, cleaner, faults>>

(* The connection is lost after the commit: the request sees an error.     *)
CommitUnknown(r) ==
  /\ Committing(r)
  /\ rows' = RowsAfter(r)
  /\ Deleting(r, Compensation(r))
  /\ Fault
  /\ UNCHANGED <<disk, issued, cleaner>>

(* Files are deleted in any order; a missing one is no error.              *)
DeleteFile(r) ==
  /\ request[r].step = "deleting"
  /\ \E k \in request[r].todo :
       /\ disk' = [disk EXCEPT ![k] = Absent]
       /\ request' = [request EXCEPT ![r].todo = @ \ {k}]
  /\ UNCHANGED <<rows, issued, cleaner, faults>>

(* A file that cannot be deleted is logged and left. *)
DeleteFails(r) ==
  /\ request[r].step = "deleting"
  /\ \E k \in request[r].todo :
       request' = [request EXCEPT ![r].todo = @ \ {k}]
  /\ Fault
  /\ UNCHANGED <<disk, rows, issued, cleaner>>

Finished == [NewRequest EXCEPT !.step = "done"]

EndRequest(r) ==
  /\ request[r].step = "deleting" /\ request[r].todo = {}
  /\ request' = [request EXCEPT ![r] = Finished]
  /\ UNCHANGED <<disk, rows, issued, cleaner, faults>>

RequestStep(r) ==
  \/ StoreFile(r) \/ Commit(r) \/ RollBack(r) \/ DeleteFile(r) \/ EndRequest(r)
  \/ StoreFails(r) \/ CommitUnknown(r) \/ DeleteFails(r)

-----------------------------------------------------------------------------
(* The worker *)

OlderThanGrace(ages) == {k \in Keys : ages[k] = Old}

StartPass ==
  /\ cleaner.step = "idle"
  /\ cleaner' = [IdleCleaner EXCEPT !.step = "reading",
                   !.oldRows = OlderThanGrace(rows), !.oldFiles = OlderThanGrace(disk)]
  /\ UNCHANGED <<disk, rows, issued, request, faults>>

(* The two queries run side by side. *)
FindDatabaseFiles ==
  /\ cleaner.step = "reading" /\ "rows" \notin cleaner.read
  /\ cleaner' = [cleaner EXCEPT !.read = @ \cup {"rows"},
                   !.known = {k \in cleaner.oldRows : HasRow(k)}]
  /\ UNCHANGED <<disk, rows, issued, request, faults>>

ListFiles ==
  /\ cleaner.step = "reading" /\ "files" \notin cleaner.read
  /\ cleaner' = [cleaner EXCEPT !.read = @ \cup {"files"},
                   !.listed = {k \in Keys : OnDisk(k)}]
  /\ UNCHANGED <<disk, rows, issued, request, faults>>

HaveRead ==
  /\ cleaner.step = "reading" /\ cleaner.read = {"rows", "files"}
  /\ cleaner' = [cleaner EXCEPT !.step = "rows", !.todo = cleaner.known]
  /\ UNCHANGED <<disk, rows, issued, request, faults>>

(* Mutation: a row with an attachment is kept without a look at the disk. *)
BugKeepRow(k) == TRUE

KeepRow(k) == OnDisk(k)

(* A file that is missing never comes back, so the look at the disk and    *)
(* the deletion of the row are one step.  The deletion of a row that is    *)
(* gone is an error, which ends the pass.                                  *)
CheckRow(k) ==
  /\ cleaner.step = "rows" /\ k \in cleaner.todo
  /\ rows' = IF KeepRow(k) THEN rows ELSE [rows EXCEPT ![k] = Absent]
  /\ cleaner' = IF KeepRow(k) \/ HasRow(k)
                THEN [cleaner EXCEPT !.todo = @ \ {k}] ELSE IdleCleaner
  /\ UNCHANGED <<disk, issued, request, faults>>

(* Mutation: recent files are not spared. *)
BugDeletable == cleaner.listed \ cleaner.known

(* Unknown files, modified before the cutoff. *)
Deletable == (cleaner.listed \cap cleaner.oldFiles) \ cleaner.known

RowsChecked ==
  /\ cleaner.step = "rows" /\ cleaner.todo = {}
  /\ cleaner' = [cleaner EXCEPT !.step = "files", !.todo = Deletable]
  /\ UNCHANGED <<disk, rows, issued, request, faults>>

DeleteOrphan(k) ==
  /\ cleaner.step = "files" /\ k \in cleaner.todo
  /\ disk' = [disk EXCEPT ![k] = Absent]
  /\ cleaner' = [cleaner EXCEPT !.todo = @ \ {k}]
  /\ UNCHANGED <<rows, issued, request, faults>>

EndPass ==
  /\ cleaner.step = "files" /\ cleaner.todo = {}
  /\ cleaner' = IdleCleaner
  /\ UNCHANGED <<disk, rows, issued, request, faults>>

(* An error of the disk or the database, which the scheduler logs; also a  *)
(* file that vanishes while the directory is listed.                       *)
PassFails ==
  /\ cleaner.step # "idle"
  /\ cleaner' = IdleCleaner
  /\ Fault
  /\ UNCHANGED <<disk, rows, issued, request>>

CleanerStep ==
  \/ StartPass \/ FindDatabaseFiles \/ ListFiles \/ HaveRead \/ RowsChecked
  \/ EndPass
  \/ \E k \in Keys : CheckRow(k) \/ DeleteOrphan(k)

-----------------------------------------------------------------------------
Older(age) == IF age = Absent \/ age = Old THEN age ELSE age + 1

InProgress(r) == request[r].step \in {"storing", "deleting"}

(* The clock, as far as the bound MaxUpload lets it.  Only the time from   *)
(* the first file to the commit counts.                                    *)
Tick ==
  /\ \A r \in Requests : request[r].step = "storing" => request[r].ticks < MaxUpload
  /\ disk' = [k \in Keys |-> Older(disk[k])]
  /\ rows' = [k \in Keys |-> Older(rows[k])]
  /\ request' = [r \in Requests |->
       IF request[r].step = "storing" THEN [request[r] EXCEPT !.ticks = @ + 1]
                                      ELSE request[r]]
  /\ UNCHANGED <<issued, cleaner, faults>>

(* The process dies: open transactions are rolled back, files stay.        *)
Crash ==
  /\ \E r \in Requests : InProgress(r)
  /\ request' = [r \in Requests |-> IF InProgress(r) THEN Finished ELSE request[r]]
  /\ cleaner' = IdleCleaner
  /\ Fault
  /\ UNCHANGED <<disk, rows, issued>>

Next ==
  \/ \E r \in Requests :
       RequestStep(r) \/ \E new, remove \in SUBSET Keys : BeginRequest(r, new, remove)
  \/ CleanerStep \/ PassFails
  \/ Tick \/ Crash

(* The clock runs, requests go on, and the worker runs again and again.    *)
Spec ==
  /\ Init /\ [][Next]_vars
  /\ WF_vars(Tick) /\ WF_vars(CleanerStep)
  /\ \A r \in Requests : WF_vars(RequestStep(r))

-----------------------------------------------------------------------------
Held(k) == \E r \in Requests : InProgress(r) /\ k \in HeldBy(r)

(* A request that is reported successful has its files and their rows: the *)
(* worker, which runs beside it, takes no file that is still to be         *)
(* attached (file-attachments.md, "The required invariant").               *)
SuccessHasFiles ==
  [][\A r \in Requests :
       Committing(r) /\ rows' # rows /\ request'[r].step = "deleting"
         => \A k \in request[r].stored : disk'[k] # Absent /\ rows'[k] # Absent]_vars

(* Without faults, nothing is left to the worker: a file without a row     *)
(* belongs to a request that is going to attach or to delete it.           *)
CompensationComplete ==
  faults = 0 => \A k \in Keys : OnDisk(k) /\ ~HasRow(k) => Held(k)

(* A file and a row that are not both there, and that no request is about  *)
(* to complete or to remove, do not stay so: whatever a crash or a failed  *)
(* deletion leaves is cleaned up.                                          *)
Inconsistent(k) == OnDisk(k) # HasRow(k) /\ ~Held(k)

CleanedUp == \A k \in Keys : Inconsistent(k) ~> ~Inconsistent(k)

(* Without faults, an attached file stays on disk: the worker removes what *)
(* failed, not what is attached (architecture.md, "Orphaned Files").       *)
AttachedFilesStay ==
  faults = 0 => \A k \in Keys : HasRow(k) => OnDisk(k)
=============================================================================
