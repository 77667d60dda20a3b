----------------------------- MODULE FileStore -----------------------------
(***************************************************************************)
(* infra/filestore.py: generated files, their bytes on disk and their rows *)
(* in the database.                                                        *)
(*                                                                         *)
(* put() has a worker thread write the bytes to a temporary name and       *)
(* rename them, and inserts the row when the thread is done.  The thread   *)
(* cannot be stopped; whoever waits for it can be cancelled.  A read looks *)
(* the row up, has a thread check that the bytes are there, and drops the  *)
(* row if they are not.                                                    *)
(*                                                                         *)
(* Every removal of a file suppresses the OSError of the unlink: the file  *)
(* may stay, and nobody tries again.                                       *)
(*                                                                         *)
(* A write to the database is one step here: Database.tla shows that it    *)
(* happens whole or not at all, that a failed one leaves nothing, and that *)
(* a cancelled one may have happened.                                      *)
(*                                                                         *)
(* Eviction.tla extends this module with the sweeper that deletes files.   *)
(***************************************************************************)
EXTENDS Naturals, Sequences, FiniteSets, SequencesExt

CONSTANTS
  Files,    \* the files put, each by one call of put()
  Readers,  \* concurrent reads
  NoFile

VARIABLES
  put,     \* where each put() stands
  disk,    \* each file's bytes: none, partial (the .tmp being written), left
           \* (the .tmp of a write that failed), full
  rows,    \* table generated_files, least recently accessed first
  reader,  \* where each read stands, and for which file
  wiped,   \* files whose bytes somebody else removed from FILES_DIR
  leaked,  \* files whose bytes a crash or a cancelled sweep left to nobody
  refused  \* files the system would not remove when it was asked to

storeVars == <<put, disk, rows, reader, wiped, leaked, refused>>

Rows == ToSet(rows)

(* What is left of s, in its order: the nth is the one up to which n are   *)
(* kept.                                                                   *)
Without(s, gone) ==
  LET kept == {i \in 1 .. Len(s) : s[i] \notin gone}
      Nth(n) == CHOOSE i \in kept : Cardinality({k \in kept : k <= i}) = n
  IN  [n \in 1 .. Cardinality(kept) |-> s[Nth(n)]]

StoreInit ==
  /\ put = [f \in Files |-> "none"]
  /\ disk = [f \in Files |-> "none"]
  /\ rows = <<>>
  /\ reader = [r \in Readers |-> [pc |-> "idle", file |-> NoFile]]
  /\ wiped = {}
  /\ leaked = {}
  /\ refused = {}

-----------------------------------------------------------------------------
(* Removing files.                                                         *)

DiskBecomes(f, what) == disk' = [disk EXCEPT ![f] = what]

(* Those that are there go, except any the system refuses to remove.       *)
UnlinkAll(files) ==
  \E stay \in SUBSET {f \in files : disk[f] = "full"} :
    /\ disk' = [f \in Files |-> IF f \in files \ stay /\ disk[f] = "full" THEN "none" ELSE disk[f]]
    /\ refused' = refused \cup stay

Discard(f) == UnlinkAll({f})

-----------------------------------------------------------------------------
(* put()                                                                   *)

PutGoes(f, where) == put' = [put EXCEPT ![f] = where]

Put(f) ==
  /\ put[f] = "none"
  /\ PutGoes(f, "writing")
  /\ DiskBecomes(f, "partial")
  /\ UNCHANGED <<rows, reader, wiped, leaked, refused>>

(* The thread renames the file, or fails and removes what it has written,  *)
(* if it can.                                                              *)
WriteEnds(f) ==
  /\ put[f] \in {"writing", "cancelling"}
  /\ disk[f] = "partial"
  /\ \/ DiskBecomes(f, "full") /\ UNCHANGED refused
     \/ DiskBecomes(f, "none") /\ UNCHANGED refused
     \/ DiskBecomes(f, "left") /\ refused' = refused \cup {f}
  /\ UNCHANGED <<put, rows, reader, wiped, leaked>>

(* put() goes on: the row is next, or the thread's exception is raised.    *)
Written(f) ==
  /\ put[f] = "writing"
  /\ disk[f] # "partial"
  /\ PutGoes(f, IF disk[f] = "full" THEN "inserting" ELSE "failed")
  /\ UNCHANGED <<disk, rows, reader, wiped, leaked, refused>>

(* Cancelled: the thread is left with a callback that discards the file.   *)
CancelWrite(f) ==
  /\ put[f] = "writing"
  /\ PutGoes(f, "cancelling")
  /\ UNCHANGED <<disk, rows, reader, wiped, leaked, refused>>

DiscardLate(f) ==
  /\ put[f] = "cancelling"
  /\ disk[f] # "partial"
  /\ Discard(f)
  /\ PutGoes(f, "cancelled")
  /\ UNCHANGED <<rows, reader, wiped, leaked>>

Insert(f) ==
  /\ put[f] = "inserting"
  /\ rows' = Append(rows, f)
  /\ PutGoes(f, "done")
  /\ UNCHANGED <<disk, reader, wiped, leaked, refused>>

InsertFails(f) ==
  /\ put[f] = "inserting"
  /\ Discard(f)
  /\ PutGoes(f, "failed")
  /\ UNCHANGED <<rows, reader, wiped, leaked>>

(* Mutant: `except Exception`.                                             *)
CancelInsert_KeepsBytes(f) ==
  /\ put[f] = "inserting"
  /\ rows' \in {rows, Append(rows, f)}
  /\ PutGoes(f, "cancelled")
  /\ UNCHANGED <<disk, reader, wiped, leaked, refused>>

(* Cancelled while the row is written: it may have been, and the bytes go. *)
CancelInsert(f) ==
  /\ put[f] = "inserting"
  /\ rows' \in {rows, Append(rows, f)}
  /\ Discard(f)
  /\ PutGoes(f, "cancelled")
  /\ UNCHANGED <<reader, wiped, leaked>>

-----------------------------------------------------------------------------
(* open_for_read()                                                         *)

ReaderGoes(r, where, f) == reader' = [reader EXCEPT ![r] = [pc |-> where, file |-> f]]

(* A client knows the id of a file whose put() returned.                   *)
Lookup(r) ==
  /\ reader[r].pc = "idle"
  /\ \E f \in Rows : put[f] = "done" /\ ReaderGoes(r, "stat", f)
  /\ UNCHANGED <<put, disk, rows, wiped, leaked, refused>>

Stat(r) ==
  /\ reader[r].pc = "stat"
  /\ LET f == reader[r].file
     IN  ReaderGoes(r, IF disk[f] = "full" THEN "touch" ELSE "reap", f)
  /\ UNCHANGED <<put, disk, rows, wiped, leaked, refused>>

Reap(r) ==
  /\ reader[r].pc = "reap"
  /\ rows' = Without(rows, {reader[r].file})
  /\ ReaderGoes(r, "idle", NoFile)
  /\ UNCHANGED <<put, disk, wiped, leaked, refused>>

(* _touch(): the row, if it is still there, becomes the last accessed,     *)
(* unless it was touched a short while ago.                                *)
Touch(r) ==
  /\ reader[r].pc = "touch"
  /\ LET f == reader[r].file
     IN  \/ UNCHANGED rows
         \/ f \in Rows /\ rows' = Append(Without(rows, {f}), f)
  /\ ReaderGoes(r, "idle", NoFile)
  /\ UNCHANGED <<put, disk, wiped, leaked, refused>>

ReadFails(r) ==
  /\ reader[r].pc \in {"reap", "touch"}
  /\ ReaderGoes(r, "idle", NoFile)
  /\ UNCHANGED <<put, disk, rows, wiped, leaked, refused>>

-----------------------------------------------------------------------------
(* delete_many(), one chunk: the rows; UnlinkAll follows.                  *)

DeleteRows(chunk) == rows' = Without(rows, chunk)

-----------------------------------------------------------------------------
(* Somebody removes a file from FILES_DIR.                                 *)
Wipe(f) ==
  /\ put[f] = "done" /\ disk[f] = "full"
  /\ DiskBecomes(f, "none")
  /\ wiped' = wiped \cup {f}
  /\ UNCHANGED <<put, rows, reader, leaked, refused>>

(* The process dies: bytes that have no row have nobody left.              *)
StoreCrash ==
  /\ put' = [f \in Files |-> IF put[f] \in {"writing", "inserting", "cancelling"}
                               THEN "crashed" ELSE put[f]]
  /\ reader' = [r \in Readers |-> [pc |-> "idle", file |-> NoFile]]
  /\ leaked' = leaked \cup {f \in Files \ Rows : disk[f] # "none"}
  /\ UNCHANGED <<disk, rows, wiped, refused>>

-----------------------------------------------------------------------------
PutStep(f) == WriteEnds(f) \/ Written(f) \/ DiscardLate(f) \/ Insert(f)

ReadStep(r) == Stat(r) \/ Reap(r) \/ Touch(r)

StoreNext ==
  \/ \E f \in Files :
       Put(f) \/ PutStep(f) \/ CancelWrite(f) \/ InsertFails(f) \/ CancelInsert(f) \/ Wipe(f)
  \/ \E r \in Readers : Lookup(r) \/ ReadStep(r) \/ ReadFails(r)

StoreTypeOK ==
  /\ put \in [Files -> {"none", "writing", "inserting", "cancelling",
                        "done", "failed", "cancelled", "crashed"}]
  /\ disk \in [Files -> {"none", "partial", "left", "full"}]
  /\ rows \in Seq(Files)
  /\ \A i, j \in 1 .. Len(rows) : rows[i] = rows[j] => i = j
  /\ reader \in [Readers -> [pc : {"idle", "stat", "reap", "touch"},
                             file : Files \cup {NoFile}]]
  /\ wiped \subseteq Files
  /\ leaked \subseteq Files /\ refused \subseteq Files
=============================================================================
