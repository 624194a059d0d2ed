------------------------------- MODULE Uploads -------------------------------
(***************************************************************************)
(* Uploads (uploads/service.py, uploads/router.py): a file is a blob in    *)
(* Azure storage and a row, written one after the other, without a         *)
(* transaction around both.  Storage may refuse, or do its part and fail   *)
(* to say so; so may the database; a process may end in between.  Rights   *)
(* are those of Accounts.                                                  *)
(***************************************************************************)
EXTENDS Accounts

CONSTANTS
  Files,      \* ids of rows; the name of a blob is as fresh as the id of its row
  Admins      \* short names of the roles that delete the files of others

ASSUME FilesAssumption == Null \notin Files /\ Admins \subseteq Shorts

VARIABLES
  files,      \* rows of file_uploads
  blobs,      \* files whose blob is stored
  jobs,       \* the upload or deletion in each slot
  dropped     \* files a request for which failed after it reached storage

uploadVars == <<files, blobs, jobs, dropped>>

Jobs == [op : {"idle", "upload", "delete"}, file : Files \cup {Null}, by : Users \cup {Null},
         stored : BOOLEAN]
NoJob == [op |-> "idle", file |-> Null, by |-> Null, stored |-> FALSE]

Named == {jobs[s].file : s \in Slots} \cup dropped

-----------------------------------------------------------------------------
Begin(s, job) ==
  /\ jobs[s] = NoJob /\ req[s] = Idle /\ begun < MaxRequests
  /\ jobs' = [jobs EXCEPT ![s] = job]
  /\ begun' = begun + 1
  /\ UNCHANGED <<users, roles, perms, grants, req, crossed, weakened, files, blobs, dropped>>

End(s) ==
  /\ jobs' = [jobs EXCEPT ![s] = NoJob]
  /\ UNCHANGED vars

Upload(s, a, f) ==
  /\ Begin(s, [op |-> "upload", file |-> f, by |-> a, stored |-> FALSE])
  /\ May(a, <<"uploads", "write">>) /\ files[f].state = "absent" /\ f \notin Named

Delete(s, a, f) ==
  /\ Begin(s, [op |-> "delete", file |-> f, by |-> a, stored |-> FALSE])
  /\ May(a, <<"uploads", "delete">>) /\ files[f].state = "live"
  /\ \/ files[f].owner = a
     \/ users[a].role # Null /\ roles[users[a].role].short \in Admins

\* upload_blob or delete_blob; a blob that is gone already is no error.
Storage(s) ==
  LET j == jobs[s] IN
  /\ j.op # "idle" /\ ~j.stored
  /\ blobs' = IF j.op = "upload" THEN blobs \cup {j.file} ELSE blobs \ {j.file}
  /\ jobs' = [jobs EXCEPT ![s].stored = TRUE]
  /\ UNCHANGED vars /\ UNCHANGED <<files, dropped>>

\* Mutant: the row is written before storage is asked.
WriteFileFirst(s) ==
  LET j == jobs[s] IN
  /\ j.op # "idle"
  /\ files' = [files EXCEPT ![j.file] =
                 IF j.op = "upload" THEN [state |-> "live", owner |-> j.by]
                 ELSE [@ EXCEPT !.state = "deleted"]]
  /\ UNCHANGED <<blobs, dropped>>
  /\ End(s)

WriteFile(s) ==
  LET j == jobs[s] IN
  /\ j.op # "idle" /\ j.stored
  /\ files' = [files EXCEPT ![j.file] =
                 IF j.op = "upload" THEN [state |-> "live", owner |-> j.by]
                 ELSE [@ EXCEPT !.state = "deleted"]]
  /\ UNCHANGED <<blobs, dropped>>
  /\ End(s)

\* AzureError, a failed flush or commit, or the end of the process; storage may
\* have done what it was asked for.
Drop(s) ==
  LET j == jobs[s] IN
  /\ j.op # "idle"
  /\ blobs' \in {blobs, IF j.op = "upload" THEN blobs \cup {j.file} ELSE blobs \ {j.file}}
  /\ dropped' = dropped \cup {j.file}
  /\ UNCHANGED files
  /\ End(s)

-----------------------------------------------------------------------------
UploadsInit ==
  /\ files \in [Files -> {[state |-> "absent", owner |-> Null]} \cup
                         [state : {"live"}, owner : Managers \cup Members]]
  /\ blobs = Live(files)
  /\ jobs = [s \in Slots |-> NoJob]
  /\ dropped = {}

UploadsNext ==
  \E s \in Slots :
    \/ \E a \in Users, f \in Files : Upload(s, a, f) \/ Delete(s, a, f)
    \/ Storage(s) \/ WriteFile(s) \/ Drop(s)

-----------------------------------------------------------------------------
UploadsTypeOK ==
  /\ files \in [Files -> [state : {"absent", "live", "deleted"}, owner : Users \cup {Null}]]
  /\ blobs \subseteq Files /\ jobs \in [Slots -> Jobs] /\ dropped \subseteq Files

\* A request for f has passed storage and still has the row to write.
Between(f) == \E s \in Slots : jobs[s].file = f /\ jobs[s].stored

(* RowHasBlob: a row that get_upload signs a URL for has its blob, except   *)
(* while a deletion is between storage and the row, or after one failed     *)
(* there: two requests may delete the same file.                            *)
RowHasBlob == \A f \in Live(files) : f \in blobs \/ Between(f) \/ f \in dropped

(* NoStrayBlob: a blob that is stored has its row, except while an upload   *)
(* is between the two, or after a request for it failed there.              *)
NoStrayBlob == \A f \in blobs : files[f].state = "live" \/ Between(f) \/ f \in dropped

(* BlobsMatchRows: rows and blobs go together, either way round.            *)
BlobsMatchRows == RowHasBlob /\ NoStrayBlob
=============================================================================
