------------------------------ MODULE Eviction ------------------------------
(***************************************************************************)
(* infra/eviction.py on top of infra/filestore.py: the background sweep    *)
(* that deletes files past their retention, then the least recently        *)
(* accessed ones until the rest fits the cache, while requests and video   *)
(* jobs store and read files.                                              *)
(*                                                                         *)
(* A pass awaits the database at every step and holds on to what it read   *)
(* before: the list of expired files, the total size, the candidates.      *)
(***************************************************************************)
EXTENDS FileStore, FiniteSetsExt

CONSTANTS
  Size,         \* [Files -> Nat \ {0}]
  MaxBytes,     \* max_cache_bytes
  ScanChunk,    \* _LRU_SCAN_CHUNK
  DeleteChunk   \* _DELETE_CHUNK

ASSUME EvictionAssumption ==
  /\ IsFiniteSet(Files)
  /\ Size \in [Files -> Nat \ {0}]
  /\ MaxBytes \in Nat
  /\ ScanChunk \in Nat \ {0} /\ DeleteChunk \in Nat \ {0}

VARIABLES
  expired,   \* files created before the retention window
  sweep,     \* where the loop stands
  policy,    \* why files are being deleted: ttl, lru
  todo,      \* ids left for delete_many()
  chunk,     \* those it is deleting
  total,     \* the pass's idea of the bytes stored
  enough,    \* the victims were fewer than the candidates
  stopping,  \* stop() was called
  added,     \* files inserted since the total was read
  reaped     \* a reader has dropped a row since then

sweepVars == <<sweep, policy, todo, chunk, total, enough>>
historyVars == <<added, reaped>>
vars == <<storeVars, expired, sweepVars, stopping, historyVars>>

(* SUM(byte_size): every byte of every file is counted.                    *)
Bytes(files) == Cardinality(UNION {{f} \X (1 .. Size[f]) : f \in files})

Prefix(s, n) == SubSeq(s, 1, IF n < Len(s) THEN n ELSE Len(s))

Init ==
  /\ StoreInit
  /\ expired = {}
  /\ sweep = "wait"
  /\ policy = "ttl"
  /\ todo = <<>>
  /\ chunk = {}
  /\ total = 0
  /\ enough = FALSE
  /\ stopping = FALSE
  /\ added = {}
  /\ reaped = FALSE

-----------------------------------------------------------------------------
(* run_eviction_pass()                                                     *)

Begin ==
  /\ sweep = "wait" /\ ~stopping
  /\ todo' = Without(rows, Rows \ expired)
  /\ policy' = "ttl"
  /\ sweep' = "select"
  /\ UNCHANGED <<storeVars, expired, chunk, total, enough, stopping, historyVars>>

(* delete_many(): the next chunk's rows are looked up.                     *)
SelectChunk ==
  /\ sweep = "select" /\ todo # <<>>
  /\ LET ids == Prefix(todo, DeleteChunk)
     IN  /\ todo' = SubSeq(todo, Len(ids) + 1, Len(todo))
         /\ chunk' = ToSet(ids) \cap Rows
         /\ sweep' = IF chunk' = {} THEN "select" ELSE "delete"
  /\ UNCHANGED <<storeVars, expired, policy, total, enough, stopping, historyVars>>

(* Mutant: bytes first.                                                    *)
DeleteChunkRows_BytesFirst ==
  /\ sweep = "delete"
  /\ UnlinkAll(chunk)
  /\ sweep' = "unlink"
  /\ UNCHANGED <<put, rows, reader, wiped, leaked, expired, policy, todo, chunk,
                 total, enough, stopping, historyVars>>

DeleteChunkRows ==
  /\ sweep = "delete"
  /\ DeleteRows(chunk)
  /\ sweep' = "unlink"
  /\ UNCHANGED <<put, disk, reader, wiped, leaked, refused, expired, policy, todo, chunk,
                 total, enough, stopping, historyVars>>

UnlinkChunk ==
  /\ sweep = "unlink"
  /\ UnlinkAll(chunk)
  /\ chunk' = {}
  /\ sweep' = "select"
  /\ UNCHANGED <<put, rows, reader, wiped, leaked, expired, policy, todo,
                 total, enough, stopping, historyVars>>

(* total_byte_size(), after the expired files.                             *)
Measure ==
  /\ sweep = "select" /\ todo = <<>> /\ policy = "ttl"
  /\ total' = Bytes(Rows)
  /\ sweep' = IF total' > MaxBytes THEN "scan" ELSE "prune"
  /\ added' = {} /\ reaped' = FALSE
  /\ UNCHANGED <<storeVars, expired, policy, todo, chunk, enough, stopping>>

(* The least recently accessed candidates that bring the total down to     *)
(* the cap, or all of them.                                                *)
Victims(candidates) ==
  Prefix(candidates,
         Min({n \in 1 .. Len(candidates) :
                \/ n = Len(candidates)
                \/ total - Bytes(ToSet(Prefix(candidates, n))) <= MaxBytes}))

Scan ==
  /\ sweep = "scan"
  /\ LET candidates == Prefix(rows, ScanChunk)
         victims == Victims(candidates)
     IN  IF candidates = <<>>
           THEN sweep' = "prune" /\ UNCHANGED <<policy, todo, total, enough>>
           ELSE /\ todo' = victims
                /\ total' = total - Bytes(ToSet(victims))
                /\ enough' = (Len(victims) < Len(candidates))
                /\ policy' = "lru"
                /\ sweep' = "select"
  /\ UNCHANGED <<storeVars, expired, chunk, stopping, historyVars>>

(* Mutants: one chunk of candidates is all a pass looks at; a chunk that    *)
(* was used up is followed by another, cap or no cap.                      *)
Deleted_OneScan ==
  /\ sweep = "select" /\ todo = <<>> /\ policy = "lru"
  /\ sweep' = "prune"
  /\ UNCHANGED <<storeVars, expired, policy, todo, chunk, total, enough, stopping, historyVars>>

Deleted_NoCap ==
  /\ sweep = "select" /\ todo = <<>> /\ policy = "lru"
  /\ sweep' = IF ~enough THEN "scan" ELSE "prune"
  /\ UNCHANGED <<storeVars, expired, policy, todo, chunk, total, enough, stopping, historyVars>>

(* The victims are gone: look at more candidates, or go on.                *)
Deleted ==
  /\ sweep = "select" /\ todo = <<>> /\ policy = "lru"
  /\ sweep' = IF ~enough /\ total > MaxBytes THEN "scan" ELSE "prune"
  /\ UNCHANGED <<storeVars, expired, policy, todo, chunk, total, enough, stopping, historyVars>>

(* prune_terminal() of the job rows, and the wait for the next interval.   *)
Prune ==
  /\ sweep = "prune"
  /\ sweep' = "wait"
  /\ UNCHANGED <<storeVars, expired, policy, todo, chunk, total, enough, stopping, historyVars>>

(* Mutant: an error ends the loop.                                         *)
PassFails_EndsLoop ==
  /\ sweep \in {"select", "delete", "scan", "prune"}
  /\ sweep' = "dead"
  /\ chunk' = {}
  /\ UNCHANGED <<storeVars, expired, policy, todo, total, enough, stopping, historyVars>>

(* A database error: logged, and the loop waits for its next interval.     *)
PassFails ==
  /\ sweep \in {"select", "delete", "scan", "prune"}
  /\ sweep' = "wait"
  /\ chunk' = {}
  /\ UNCHANGED <<storeVars, expired, policy, todo, total, enough, stopping, historyVars>>

-----------------------------------------------------------------------------
(* EvictionLoop.stop(): the loop ends between passes, or is cancelled in   *)
(* one that takes too long.                                                *)

Stop ==
  /\ ~stopping
  /\ stopping' = TRUE
  /\ UNCHANGED <<storeVars, expired, sweepVars, historyVars>>

Stopped ==
  /\ stopping /\ sweep = "wait"
  /\ sweep' = "stopped"
  /\ UNCHANGED <<storeVars, expired, policy, todo, chunk, total, enough, stopping, historyVars>>

(* A cancelled DELETE may have happened, and a thread that has not begun   *)
(* does not: either way the bytes stay behind.                             *)
StopTimeout ==
  /\ stopping /\ sweep \notin {"wait", "stopped"}
  /\ sweep' = "stopped"
  /\ chunk' = {}
  /\ \/ sweep = "delete" /\ DeleteRows(chunk) /\ UNCHANGED <<disk, refused>>
     \/ sweep = "unlink" /\ UnlinkAll(chunk) /\ UNCHANGED rows
     \/ UNCHANGED <<rows, disk, refused>>
  /\ leaked' = leaked \cup {f \in chunk : f \notin ToSet(rows') /\ disk'[f] # "none"}
  /\ UNCHANGED <<put, reader, wiped, expired, policy, todo, total, enough, stopping, historyVars>>

(* The process is started again, after it has stopped or died.             *)
Restart ==
  /\ \/ /\ sweep = "stopped"
        /\ \A f \in Files : put[f] \notin {"writing", "inserting", "cancelling"}
        /\ \A r \in Readers : reader[r].pc = "idle"
        /\ UNCHANGED storeVars
     \/ StoreCrash
  /\ sweep' = "wait"
  /\ chunk' = {}
  /\ todo' = <<>>
  /\ stopping' = FALSE
  /\ UNCHANGED <<expired, policy, total, enough, historyVars>>

-----------------------------------------------------------------------------
(* Time passes for a stored file.                                          *)
Expire(f) ==
  /\ put[f] \in {"done", "cancelled"}
  /\ expired' = expired \cup {f}
  /\ UNCHANGED <<storeVars, sweepVars, stopping, historyVars>>

(* Storing and reading go on meanwhile.                                    *)
Serve ==
  /\ StoreNext
  /\ added' = added \cup (ToSet(rows') \ Rows)
  /\ reaped' = (reaped \/ ~(Rows \subseteq ToSet(rows')))
  /\ UNCHANGED <<expired, sweepVars, stopping>>

SweepStep ==
  Begin \/ UnlinkChunk \/ Measure \/ Scan \/ Deleted \/ Prune

Next ==
  \/ Serve
  \/ SweepStep \/ SelectChunk \/ DeleteChunkRows \/ PassFails
  \/ Stop \/ Stopped \/ StopTimeout \/ Restart
  \/ \E f \in Files : Expire(f)

(* The interval elapses, threads and the database answer, and a statement  *)
(* of the sweep does not fail every time it is tried.                      *)
Fairness ==
  /\ WF_vars(SweepStep)
  /\ SF_vars(SelectChunk)
  /\ SF_vars(DeleteChunkRows)
  /\ WF_vars(Stopped)

Spec == Init /\ [][Next]_vars /\ Fairness

-----------------------------------------------------------------------------
TypeOK ==
  /\ StoreTypeOK
  /\ expired \subseteq Files
  /\ sweep \in {"wait", "select", "delete", "unlink", "scan", "prune", "stopped"}
  /\ policy \in {"ttl", "lru"}
  /\ todo \in Seq(Files)
  /\ chunk \subseteq Files
  /\ total \in Int
  /\ enough \in BOOLEAN /\ stopping \in BOOLEAN /\ reaped \in BOOLEAN
  /\ added \subseteq Files

(* Bytes on disk have a row, by which the sweep will find them, or         *)
(* somebody who is about to insert or to remove them; else they would sit  *)
(* there "invisible to eviction, forever" (put()).  Three things leave     *)
(* bytes behind and no other does: a crash, a sweep cancelled at shutdown, *)
(* and a removal that was tried and that the system refused, in a put(),   *)
(* a failed write or a sweep, where the error is suppressed.               *)
NoOrphanBytes ==
  \A f \in Files : disk[f] # "none" =>
    \/ f \in Rows
    \/ put[f] \in {"writing", "inserting", "cancelling"}
    \/ sweep = "unlink" /\ f \in chunk
    \/ f \in leaked
    \/ f \in refused

(* A row has its bytes, whole: eviction deletes rows first, storing        *)
(* inserts them last.  The exceptions are files that somebody else removed *)
(* and the put() that was cancelled while its row was being written.       *)
RowsHaveBytes ==
  \A f \in Rows : disk[f] = "full" \/ f \in wiped \/ put[f] = "cancelled"

(* What put() says of the bytes it discards: "no row will ever reference   *)
(* them".  A row does, when the insert was cancelled during its commit.    *)
DiscardedHaveNoRow ==
  \A f \in Rows : put[f] # "cancelled"

(* The sweep deletes to make room only while there is too much stored,     *)
(* although it works from a total and candidates it read some time ago.  A *)
(* row that a reader dropped meanwhile is the one thing it does not know.  *)
EvictsOnlyWhenOver ==
  sweep = "delete" /\ policy = "lru" /\ ~reaped => Bytes(Rows) > MaxBytes

(* A pass that ran to its end has made room: what the rows count exceeds   *)
(* the cap by no more than what was stored since the pass read the total.  *)
PassReachesCap ==
  sweep = "prune" => Bytes(Rows) <= MaxBytes + Bytes(added)

(* The row of an expired file is deleted some time, whatever fails on the  *)
(* way, unless the bridge is stopped.                                      *)
ExpiredIsDeleted ==
  \A f \in Files : f \in expired /\ f \in Rows ~> f \notin Rows \/ stopping
=============================================================================
