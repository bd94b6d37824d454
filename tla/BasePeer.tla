------------------------------ MODULE BasePeer ------------------------------
(***************************************************************************)
(* The deduplication cache every peer embeds (internal/peer/base.go).      *)
(*                                                                         *)
(* Everything the bridge keeps about a file is keyed by the file's path,   *)
(* so one path stands for all of them here; a cache is the last hash       *)
(* marked for that path, NoHash when the LRU cache holds none.             *)
(*                                                                         *)
(* A file is its content, Empty (zero bytes) or Absent.  A FileData in     *)
(* flight is the same thing: Absent is FileData{Deleted: true}.            *)
(***************************************************************************)
CONSTANTS
    Content,    \* the non-empty contents a file may have
    Empty,      \* the content of a file of zero bytes, and its hash
    Absent,     \* no file; in flight, a deletion
    DelMark,    \* the hash of "\x01Deleted"
    NoHash      \* no cache entry for the path

(* SHA-256 is taken to be injective on what the bridge hashes. *)
ASSUME HashesDistinct ==
    /\ {Empty, Absent, DelMark, NoHash} \cap Content = {}
    /\ Empty # Absent /\ Empty # DelMark /\ Empty # NoHash
    /\ Absent # DelMark /\ Absent # NoHash /\ DelMark # NoHash

File == Content \cup {Empty, Absent}
Hash == Content \cup {Empty, DelMark, NoHash}

(* FileData.Data: the deletions peers dispatch carry no bytes. *)
Bytes(f) == IF f = Absent THEN Empty ELSE f

(* Mutant: DispatchFrom marks what it was given instead of its hash. *)
DispatchHash_Unhashed(f) == f

(* The hash DispatchFrom computes: its FileData is never nil.  *)
DispatchHash(f) == Bytes(f)

(* The hash Put(path, data) and Delete(path) compute: Delete passes nil. *)
DeliverHash(f) == IF f = Absent THEN DelMark ELSE Bytes(f)

(* Mutant: the cache lookup never matches. *)
IsRepeating_Never(cache, p, h) == FALSE

IsRepeating(cache, p, h) == cache[p] = h

MarkProcessed(cache, p, h) == [cache EXCEPT ![p] = h]
=============================================================================
