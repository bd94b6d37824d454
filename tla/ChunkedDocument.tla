-------------------------- MODULE ChunkedDocument --------------------------
(***************************************************************************)
(* One path's document in CouchDB when files may be large: a main document *)
(* that lists chunk documents.                                             *)
(*                                                                         *)
(* CouchDBPeer.Put cuts a large file into chunks, writes the chunk         *)
(* documents one by one and then the main document that lists them.  A     *)
(* chunk's name is made of the document's and a number, so all versions of *)
(* a file share their chunks' names.  Delete removes the listed chunks and *)
(* then the main document; the resolution of a conflict may do the same.   *)
(* watchChanges reads documents back.                                      *)
(*                                                                         *)
(* The hub calls Put and Delete from the goroutines of the storage peers,  *)
(* several at a time.  Each request to CouchDB is a step.                  *)
(***************************************************************************)
EXTENDS BasePeer, Naturals

CONSTANTS
    Parts,        \* Parts[c]: into how many chunks c is cut; 0 if it is small
    MaxParts,     \* the largest of them
    Writers,      \* goroutines in which the hub calls Put and Delete
    Feed,         \* the goroutine of watchChanges
    Ops,          \* which of "put", "delete" are called
    Strategy,     \* conflictResolution of the CouchDB peer
    Faults,       \* which of "crash", "fail" happen
    MaxAttempts,  \* QuickRetryConfig's attempts at a request
    MaxCalls,     \* bound on calls
    MaxFaults     \* bound on faults

VARIABLES
    doc,      \* the main document: its revision and whose content it describes;
              \*   Empty: neither data nor chunks; Absent: deleted or none
    chunk,    \* chunk[i]: the revision and body of chunk document i
    cache,    \* the hash the CouchDB peer last marked
    file,     \* the file in the storage peers' directories
    pos,      \* the revision that watchChanges has last seen
    call,     \* call[t]: where that goroutine is
    latest,   \* what the last call was asked to store (history)
    settled,  \* the same if it wrote the document and returned true, and no
              \*   other ran meanwhile, else NoHash (history)
    hole,     \* a chunk was taken away and not written again (history)
    calls, faults   \* how many there were (bounds)

vars == <<doc, chunk, cache, file, pos, call, latest, settled, hole, calls, faults>>

history == <<latest, settled, hole, calls, faults>>

Thread == Writers \cup {Feed}
Index  == 1..MaxParts

PC == {"idle",
       "mark", "getchunk", "putchunk", "reget", "redelete", "recreate",  \* Put
       "look", "getold", "deleteold", "markdelete",                      \* Delete
       "get", "put", "resolve", "latest", "final",          \* the main document
       "read", "deliver"}                                   \* reading it back

(* data: what the call stores, Absent for Delete; body, base: the document it
   looked at and its revision; i: the chunk it is at; rev: the revision it read
   last, 0 for none; alone: no other call has run meanwhile. *)
CallState == [pc : PC, data : File, body : File, base : Nat, i : 1..(MaxParts + 1),
              rev : Nat, tries : Nat, alone : BOOLEAN]

Idle == [pc |-> "idle", data |-> Absent, body |-> Absent, base |-> 0, i |-> 1,
         rev |-> 0, tries |-> 0, alone |-> FALSE]

ASSUME PartsAssumption ==
    /\ MaxParts \in Nat
    /\ Parts \in [Content -> 0..MaxParts]
ASSUME ThreadAssumption == Feed \notin Writers
ASSUME LimitAssumption ==
    /\ MaxAttempts \in Nat \ {0} /\ MaxCalls \in Nat /\ MaxFaults \in Nat
    /\ Strategy \in {"timestamp-wins", "local-wins", "remote-wins", "manual"}

Stored == [rev : Nat, body : File]

TypeOK ==
    /\ doc \in Stored /\ chunk \in [Index -> Stored]
    /\ cache \in Hash /\ file \in File /\ pos \in Nat
    /\ call \in [Thread -> CallState]
    /\ latest \in File /\ settled \in File \cup {NoHash} /\ hole \in BOOLEAN
    /\ calls \in 0..MaxCalls /\ faults \in 0..MaxFaults

Nothing == [rev |-> 0, body |-> Absent]

Init ==
    /\ doc = Nothing /\ chunk = [i \in Index |-> Nothing]
    /\ cache = NoHash /\ file = Absent /\ pos = 0
    /\ call = [t \in Thread |-> Idle]
    /\ latest = Absent /\ settled = NoHash /\ hole = FALSE
    /\ calls = 0 /\ faults = 0

-----------------------------------------------------------------------------
(* CouchDB. *)

(* An update must name the current revision; a new document, or one in place
   of a deleted one, needs none. *)
Accepts(d, rev) == rev = d.rev \/ (d.body = Absent /\ rev = 0)

Update(d, body) == [rev |-> d.rev + 1, body |-> body]

(* Get fails for a deleted document: the caller keeps the revision it has. *)
Read(d, rev) == IF d.body = Absent THEN rev ELSE d.rev

NumParts(body) == IF body \in Content THEN Parts[body] ELSE 0
Listed == 1..NumParts(doc.body)

-----------------------------------------------------------------------------
Move(t, r)  == call' = [call EXCEPT ![t] = r]
Goto(t, pc) == Move(t, [call[t] EXCEPT !.pc = pc])

(* The call returns an error, or that it has stored nothing of its own. *)
Leave(t) == Move(t, Idle) /\ UNCHANGED <<settled, hole>>

(* A conflict: the next attempt starts at first, or attempts are exhausted. *)
Retry(t, first, exhausted) ==
    LET again == call[t].tries + 1 < MaxAttempts IN
    Move(t, [call[t] EXCEPT !.pc = IF again THEN first ELSE exhausted,
                            !.tries = IF again THEN @ + 1 ELSE 0])

(* The storage side has changed, and the hub calls Put or Delete. *)
Offer(w, f) ==
    /\ w \in Writers /\ call[w].pc = "idle" /\ calls < MaxCalls
    /\ file' = f /\ latest' = f /\ calls' = calls + 1

Begin(w, f, pc) ==
    /\ Offer(w, f)
    /\ cache # DeliverHash(f)
    /\ LET others == {u \in Writers \ {w} : call[u].pc # "idle"} IN
       call' = [t \in Thread |->
           IF t = w THEN [Idle EXCEPT !.pc = pc, !.data = f, !.alone = (others = {})]
           ELSE [call[t] EXCEPT !.alone = FALSE]]
    /\ settled' = NoHash
    /\ UNCHANGED <<doc, chunk, cache, pos, hole, faults>>

(* A repetition of what was marked last is skipped, without an error: also when
   the call that marked it has failed. *)
Repeat(w, f) ==
    /\ Offer(w, f)
    /\ cache = DeliverHash(f)
    /\ UNCHANGED <<doc, chunk, cache, pos, call, settled, hole, faults>>

BeginPut(w)    == "put" \in Ops /\ \E f \in Content : Begin(w, f, "mark") \/ Repeat(w, f)
BeginDelete(w) == "delete" \in Ops /\ (Begin(w, Absent, "look") \/ Repeat(w, Absent))

-----------------------------------------------------------------------------
(* Put: the chunks. *)

MarkPut(t) ==
    /\ call[t].pc = "mark"
    /\ cache' = DeliverHash(call[t].data)
    /\ Goto(t, IF NumParts(call[t].data) = 0 THEN "get" ELSE "getchunk")
    /\ UNCHANGED <<doc, chunk, file, pos, history>>

(* Mutant: a last chunk that is not full is left out. *)
NextPart_Rounded(r) ==
    IF r.i + 1 < NumParts(r.data)
    THEN [r EXCEPT !.pc = "getchunk", !.i = @ + 1, !.rev = 0, !.tries = 0]
    ELSE [r EXCEPT !.pc = "get", !.i = 1, !.rev = 0, !.tries = 0]

(* On to the next chunk, or to the main document. *)
NextPart(r) ==
    IF r.i < NumParts(r.data)
    THEN [r EXCEPT !.pc = "getchunk", !.i = @ + 1, !.rev = 0, !.tries = 0]
    ELSE [r EXCEPT !.pc = "get", !.i = 1, !.rev = 0, !.tries = 0]

(* putChunkWithRetry: each attempt reads the chunk's revision first. *)
GetChunk(t) ==
    LET r == call[t] IN
    /\ r.pc = "getchunk"
    /\ Move(t, [r EXCEPT !.pc = "putchunk", !.rev = Read(chunk[r.i], @)])
    /\ UNCHANGED <<doc, chunk, cache, file, pos, history>>

(* Mutant: a chunk that exists is not written. *)
PutChunk_Kept(t) ==
    LET r == call[t] IN
    /\ r.pc = "putchunk" /\ Accepts(chunk[r.i], r.rev)
    /\ chunk' = [chunk EXCEPT ![r.i] = IF @.body = Absent THEN Update(@, r.data) ELSE @]
    /\ Move(t, NextPart(r))
    /\ UNCHANGED <<doc, cache, file, pos, history>>

PutChunk(t) ==
    LET r == call[t] IN
    /\ r.pc = "putchunk" /\ Accepts(chunk[r.i], r.rev)
    /\ chunk' = [chunk EXCEPT ![r.i] = Update(@, r.data)]
    /\ Move(t, NextPart(r))
    /\ UNCHANGED <<doc, cache, file, pos, history>>

ChunkConflict(t) ==
    LET r == call[t] IN
    /\ r.pc = "putchunk" /\ ~Accepts(chunk[r.i], r.rev)
    /\ Retry(t, "getchunk", "reget")
    /\ UNCHANGED <<doc, chunk, cache, file, pos, history>>

(* Attempts are exhausted: the chunk is read once more, deleted and created
   anew; any error ends the call. *)
RegetChunk(t) ==
    LET r == call[t] IN
    /\ r.pc = "reget"
    /\ IF chunk[r.i].body = Absent
       THEN Leave(t)
       ELSE Move(t, [r EXCEPT !.pc = "redelete", !.rev = chunk[r.i].rev])
            /\ UNCHANGED <<settled, hole>>
    /\ UNCHANGED <<doc, chunk, cache, file, pos, latest, calls, faults>>

RedeleteChunk(t) ==
    LET r == call[t] IN
    /\ r.pc = "redelete"
    /\ IF chunk[r.i].body # Absent /\ chunk[r.i].rev = r.rev
       THEN /\ chunk' = [chunk EXCEPT ![r.i] = Update(@, Absent)]
            /\ Goto(t, "recreate") /\ UNCHANGED <<settled, hole>>
       ELSE Leave(t) /\ UNCHANGED chunk
    /\ UNCHANGED <<doc, cache, file, pos, latest, calls, faults>>

RecreateChunk(t) ==
    LET r == call[t] IN
    /\ r.pc = "recreate"
    /\ IF Accepts(chunk[r.i], 0)
       THEN /\ chunk' = [chunk EXCEPT ![r.i] = Update(@, r.data)]
            /\ Move(t, NextPart(r)) /\ UNCHANGED <<settled, hole>>
       ELSE Leave(t) /\ UNCHANGED chunk
    /\ UNCHANGED <<doc, cache, file, pos, latest, calls, faults>>

-----------------------------------------------------------------------------
(* Removing the chunks of a document: Delete's before its own, and
   forceUpdateRemote's of the remote version. *)

(* Delete stores nothing where it finds no document. *)
Look(t) ==
    /\ call[t].pc = "look"
    /\ IF doc.body = Absent
       THEN Leave(t)
       ELSE /\ Move(t, [call[t] EXCEPT !.body = doc.body, !.base = doc.rev,
                  !.pc = IF NumParts(doc.body) = 0 THEN "markdelete" ELSE "getold"])
            /\ UNCHANGED <<settled, hole>>
    /\ UNCHANGED <<doc, chunk, cache, file, pos, latest, calls, faults>>

NextOld(r) ==
    IF r.i < NumParts(r.body)
    THEN [r EXCEPT !.pc = "getold", !.i = @ + 1, !.rev = 0, !.tries = 0]
    ELSE [r EXCEPT !.pc = IF r.data = Absent THEN "markdelete" ELSE "final",
                   !.i = 1, !.rev = 0, !.tries = 0]

GetOld(t) ==
    LET r == call[t] IN
    /\ r.pc = "getold"
    /\ Move(t, IF chunk[r.i].body = Absent THEN NextOld(r)
               ELSE [r EXCEPT !.pc = "deleteold", !.rev = chunk[r.i].rev])
    /\ UNCHANGED <<doc, chunk, cache, file, pos, history>>

DeleteOld(t) ==
    LET r == call[t] IN
    /\ r.pc = "deleteold" /\ chunk[r.i].body # Absent /\ chunk[r.i].rev = r.rev
    /\ chunk' = [chunk EXCEPT ![r.i] = Update(@, Absent)]
    /\ hole' = TRUE
    /\ Move(t, NextOld(r))
    /\ UNCHANGED <<doc, cache, file, pos, latest, settled, calls, faults>>

(* deleteChunkWithRetry retries a conflict, once more when attempts are
   exhausted; forceUpdateRemote does not.  A chunk that stays is left. *)
DeleteOldConflict(t) ==
    LET r == call[t] IN
    /\ r.pc = "deleteold" /\ ~(chunk[r.i].body # Absent /\ chunk[r.i].rev = r.rev)
    /\ Move(t, IF chunk[r.i].body # Absent /\ r.data = Absent /\ r.tries < MaxAttempts
               THEN [r EXCEPT !.pc = "getold", !.tries = @ + 1]
               ELSE NextOld(r))
    /\ UNCHANGED <<doc, chunk, cache, file, pos, history>>

MarkDelete(t) ==
    /\ call[t].pc = "markdelete"
    /\ cache' = DeliverHash(Absent)
    /\ Move(t, [call[t] EXCEPT !.pc = "get", !.rev = call[t].base])
    /\ UNCHANGED <<doc, chunk, file, pos, history>>

-----------------------------------------------------------------------------
(* The main document: putDocumentWithRetry, deleteDocumentWithRetry and the
   resolution of a conflict. *)

(* A deletion of what is gone is an error, but no conflict. *)
Gone(r) == r.data = Absent /\ doc.body = Absent

(* Each attempt reads the revision first; a deletion starts from the one that
   Look found. *)
GetRev(t) ==
    /\ call[t].pc = "get"
    /\ Move(t, [call[t] EXCEPT !.pc = "put", !.rev = Read(doc, @)])
    /\ UNCHANGED <<doc, chunk, cache, file, pos, history>>

PutDoc(t) ==
    LET r == call[t] IN
    /\ r.pc = "put" /\ ~Gone(r) /\ Accepts(doc, r.rev)
    /\ doc' = Update(doc, r.data)
    /\ Move(t, Idle)
    /\ settled' = (IF r.alone THEN r.data ELSE NoHash)
    /\ hole' = (hole /\ ~r.alone)
    /\ UNCHANGED <<chunk, cache, file, pos, latest, calls, faults>>

DocConflict(t) ==
    LET r == call[t] IN
    /\ r.pc = "put" /\ ~Gone(r) /\ ~Accepts(doc, r.rev)
    /\ Retry(t, "get", "resolve")
    /\ UNCHANGED <<doc, chunk, cache, file, pos, history>>

DeleteGone(t) ==
    /\ call[t].pc \in {"put", "final"} /\ Gone(call[t])
    /\ Leave(t)
    /\ UNCHANGED <<doc, chunk, cache, file, pos, latest, calls, faults>>

(* The strategy decides on the document as it is now.  Clocks are not
   modelled: timestamps decide either way. *)
LocalWins(t) ==
    LET r == call[t] IN
    /\ r.pc = "resolve" /\ doc.body # Absent
    /\ Strategy \in {"timestamp-wins", "local-wins"}
    /\ Move(t, [r EXCEPT !.body = doc.body, !.base = doc.rev, !.rev = 0,
           !.pc = IF r.data = Absent THEN "latest"
                  ELSE IF NumParts(doc.body) = 0 THEN "final" ELSE "getold"])
    /\ UNCHANGED <<doc, chunk, cache, file, pos, history>>

RemoteWins(t) ==
    /\ call[t].pc = "resolve" /\ doc.body # Absent
    /\ Strategy \in {"timestamp-wins", "remote-wins"}
    /\ Move(t, [call[t] EXCEPT !.pc = "read", !.body = doc.body, !.rev = 0])
    /\ UNCHANGED <<doc, chunk, cache, file, pos, history>>

Unresolved(t) ==
    /\ call[t].pc = "resolve" /\ (doc.body = Absent \/ Strategy = "manual")
    /\ Leave(t)
    /\ UNCHANGED <<doc, chunk, cache, file, pos, latest, calls, faults>>

(* A forced deletion reads the revision again. *)
GetLatest(t) ==
    /\ call[t].pc = "latest"
    /\ IF doc.body = Absent
       THEN Leave(t)
       ELSE Move(t, [call[t] EXCEPT !.pc = "final", !.base = doc.rev])
            /\ UNCHANGED <<settled, hole>>
    /\ UNCHANGED <<doc, chunk, cache, file, pos, latest, calls, faults>>

(* What forceUpdateRemote writes: the document it was given, whose data are in
   its chunks if it is large, without the list of chunks. *)
Forced(f) == IF NumParts(f) > 0 THEN Empty ELSE f

ForceDoc(t) ==
    LET r == call[t] IN
    /\ r.pc = "final" /\ ~Gone(r)
    /\ IF Accepts(doc, r.base)
       THEN doc' = Update(doc, Forced(r.data))
       ELSE UNCHANGED doc
    /\ Leave(t)
    /\ UNCHANGED <<chunk, cache, file, pos, latest, calls, faults>>

-----------------------------------------------------------------------------
(* Reading the document back. *)

TakeRow ==
    /\ call[Feed].pc = "idle" /\ pos # doc.rev
    /\ pos' = doc.rev
    /\ Move(Feed, [Idle EXCEPT !.pc = "read", !.body = doc.body])
    /\ UNCHANGED <<doc, chunk, cache, file, history>>

(* reassembleChunks gets one chunk after the other; one that is missing is an
   error: watchChanges leaves the row, a resolution ends the call. *)
ReadChunk(t) ==
    LET r == call[t] IN
    /\ r.pc = "read"
    /\ CASE r.i > NumParts(r.body) -> Goto(t, "deliver") /\ UNCHANGED <<settled, hole>>
         [] r.i <= NumParts(r.body) /\ chunk[r.i].body # Absent ->
                Move(t, [r EXCEPT !.i = @ + 1]) /\ UNCHANGED <<settled, hole>>
         [] r.i <= NumParts(r.body) /\ chunk[r.i].body = Absent -> Leave(t)
    /\ UNCHANGED <<doc, chunk, cache, file, pos, latest, calls, faults>>

(* What a document reads as.  client.Get decodes a chunk into a Document,
   which has no field for the chunk's data: every chunk reads as no bytes. *)
ReadBack(f) == IF NumParts(f) > 0 THEN Empty ELSE f

(* Dispatched to the storage peers unless its hash is the one last marked
   (CouchBridge takes the parts of this step apart). *)
Deliver(t) ==
    LET data == ReadBack(call[t].body) IN
    /\ call[t].pc = "deliver"
    /\ IF cache = DispatchHash(data)
       THEN UNCHANGED <<cache, file>>
       ELSE cache' = DispatchHash(data) /\ file' = data
    /\ Leave(t)
    /\ UNCHANGED <<doc, chunk, pos, latest, calls, faults>>

-----------------------------------------------------------------------------
(* Faults. *)

Fault(f) == f \in Faults /\ faults < MaxFaults /\ faults' = faults + 1

(* The process ends; CouchDB goes on. *)
Crash ==
    /\ Fault("crash")
    /\ \E t \in Thread : call[t].pc # "idle"
    /\ cache' = NoHash
    /\ call' = [t \in Thread |-> Idle]
    /\ hole' = (hole \/ \E w \in Writers : call[w].pc = "recreate")
    /\ UNCHANGED <<doc, chunk, file, pos, latest, settled, calls>>

(* A request fails, for another reason than a conflict.  Most end the call, with
   an error, but for the first read of Delete: it returns none, as if it had
   found no document.  An attempt that cannot read the revision goes on with
   the one it has, and a chunk that cannot be removed is left. *)
RequestFails(t) ==
    LET r == call[t] IN
    /\ Fault("fail")
    /\ \/ /\ \/ r.pc \in {"look", "putchunk", "reget", "redelete", "recreate",
                          "put", "resolve", "latest", "final"}
             \/ r.pc = "read" /\ r.i <= NumParts(r.body)
          /\ Move(t, Idle)
       \/ r.pc = "getchunk" /\ Goto(t, "putchunk")
       \/ r.pc = "get" /\ Goto(t, "put")
       \/ r.pc = "getold" /\ r.tries > 0 /\ Goto(t, "deleteold")
       \/ r.pc = "getold" /\ r.tries = 0 /\ Move(t, NextOld(r))
       \/ r.pc = "deleteold" /\ Move(t, NextOld(r))
    /\ hole' = (hole \/ r.pc = "recreate")
    /\ UNCHANGED <<doc, chunk, cache, file, pos, latest, settled, calls>>

-----------------------------------------------------------------------------
Step(t) ==
    \/ MarkPut(t) \/ GetChunk(t) \/ PutChunk(t) \/ ChunkConflict(t)
    \/ RegetChunk(t) \/ RedeleteChunk(t) \/ RecreateChunk(t)
    \/ Look(t) \/ GetOld(t) \/ DeleteOld(t) \/ DeleteOldConflict(t) \/ MarkDelete(t)
    \/ GetRev(t) \/ PutDoc(t) \/ DocConflict(t) \/ DeleteGone(t)
    \/ LocalWins(t) \/ RemoteWins(t) \/ Unresolved(t) \/ GetLatest(t) \/ ForceDoc(t)
    \/ ReadChunk(t) \/ Deliver(t)

Next ==
    \/ \E w \in Writers : BeginPut(w) \/ BeginDelete(w)
    \/ \E t \in Thread : Step(t) \/ RequestFails(t)
    \/ TakeRow
    \/ Crash

Spec == Init /\ [][Next]_vars

-----------------------------------------------------------------------------
(* PutRepairs: a Put or Delete that no other call overlapped, that writes the
   document (or deletes it) and returns true, leaves the document and all its
   chunks in its own version, whatever torn state earlier failures, crashes and
   concurrent calls had left (putChunked writes every chunk anew before the
   document).  It says nothing of the calls that return no error and repair
   nothing: a repetition of a call that failed, a Delete that cannot read the
   document, and a call that ends in the resolution of a conflict. *)
PutRepairs ==
    settled # NoHash =>
        /\ doc.body = settled
        /\ \A i \in Listed : chunk[i].body = settled

(* ListedExist: every chunk that the document lists exists, at every moment and
   through every crash and race of Puts, except the one that some call is about
   to create anew (putChunked writes the chunks first).  Only Delete and
   forceUpdateRemote, and a failure between the deletion of a chunk and its
   recreation, break this, until a call by itself repairs it. *)
ListedExist ==
    \A i \in Listed :
        \/ hole
        \/ chunk[i].body # Absent
        \/ \E w \in Writers : call[w].pc = "recreate" /\ call[w].i = i

(* LastSaved: with one caller and nobody else writing the document, the storage
   side keeps what it saved last: what the feed reads back of the bridge's own
   writes changes nothing. *)
LastSaved == file = latest
=============================================================================
