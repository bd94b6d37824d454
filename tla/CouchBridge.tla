---------------------------- MODULE CouchBridge -----------------------------
(***************************************************************************)
(* A storage peer and a CouchDB peer in one group: what happens to one     *)
(* file and its document.                                                  *)
(*                                                                         *)
(* The storage peer dispatches the user's edits, and the CouchDB peer      *)
(* writes them to the document with the revision it read just before,      *)
(* retries when the document moved on, and in the end resolves the         *)
(* conflict.  In the other direction watchChanges takes rows from the      *)
(* changes feed and dispatches them into the storage peer, whose watcher   *)
(* then sees the file change; and the feed brings back the bridge's own    *)
(* writes.  Other clients write the document too.                          *)
(*                                                                         *)
(* The file is small, so its document has no chunks.  Encryption and       *)
(* compression are taken to give back what they were given.                *)
(***************************************************************************)
EXTENDS BasePeer, Naturals, Sequences

CONSTANTS
    Unset, Now,   \* a "since" that is not stored, and the literal "now"
    Writable,     \* the contents that users and other clients write
    Editors,      \* who edits: "user" (the file), "remote" (the document)
    Deletes,      \* TRUE: they also delete
    Editing,      \* "serial": one edit at a time, when the last one has settled
                  \* "up": at any time while the bridge runs; "free": at any time
    Strategy,     \* conflictResolution of the CouchDB peer
    BaseDirSet,   \* TRUE: the CouchDB peer has a baseDir
    NowGap,       \* FALSE: while the stored sequence is "now", the document does
                  \* not change unless the feed is open, and the feed does not break
    Faults,       \* which of "crash", "restart" (a crash at rest), "disconnect",
                  \* "fail" (a write), "reread" (a read of the revision), "lookup"
                  \* (the first read of a deletion) happen
    FeedPrompt,   \* TRUE: a row of the feed is handled within the debounce delay
    MaxAttempts,  \* QuickRetryConfig's attempts at writing the document
    MaxEdits,     \* bound on edits
    MaxRev,       \* bound on the document's revisions, never reached in a run
                  \* that passes EventuallyQuiet
    MaxFaults     \* bound on faults

VARIABLES
    disk, stat,   \* the file, and the stored stat: "none", "old", "current"
    pending,      \* a file system event or an armed debounce timer
    doc,          \* the document: its revision and body (Absent: deleted or none)
    since, meta,  \* the stored "since" and the revision in the stored "doc-meta-"
    buf, pos,     \* rows sent by the feed and not taken yet; how far it has sent
    mode,         \* mode["fs"] and mode["db"]: how far Start has come
    cache,        \* cache["fs"] and cache["db"]: the hash each peer last marked
    thread,       \* where each goroutine is
    latest,       \* what the last edit left, on either side (history)
    edits, faults

vars == <<disk, stat, pending, doc, since, meta, buf, pos, mode, cache, thread,
          latest, edits, faults>>

stored   == <<stat, since, meta>>
feed     == <<buf, pos>>
history  == <<latest, edits, faults>>

Side   == {"fs", "db"}
Thread == {"scan", "timer", "feed"}

PC == {"idle", "read", "check", "mark", "stat",             \* the storage peer dispatches
       "dbcheck", "dbmark", "get", "put", "resolve", "force",  \* into the document
       "seen", "fscheck", "write", "pstat", "pmark", "done"}   \* a row, into the file

(* side: the peer that dispatches now; own: what the storage peer dispatched;
   data: what is being delivered; rev, tries: of the document write. *)
ThreadState == [pc : PC, side : Side, own : File, data : File, rev : Nat, tries : Nat]

Idle == [pc |-> "idle", side |-> "fs", own |-> Absent, data |-> Absent,
         rev |-> 0, tries |-> 0]

ASSUME ConstantsAssumption ==
    /\ Unset # Now /\ {Unset, Now} \cap Nat = {}
    /\ Writable \subseteq Content
    /\ Strategy \in {"timestamp-wins", "local-wins", "remote-wins", "manual"}
    /\ MaxAttempts \in Nat \ {0} /\ MaxEdits \in Nat /\ MaxFaults \in Nat
    /\ MaxRev \in Nat /\ BaseDirSet \in BOOLEAN /\ NowGap \in BOOLEAN /\ FeedPrompt \in BOOLEAN

TypeOK ==
    /\ disk \in File /\ latest \in File
    /\ stat \in {"none", "old", "current"}
    /\ pending \in BOOLEAN
    /\ doc \in [rev : Nat, body : File]
    /\ since \in Nat \cup {Unset, Now} /\ meta \in Nat
    /\ buf \in Seq([rev : Nat, body : File]) /\ pos \in Nat
    /\ mode \in [fs : {"down", "changes", "deletions", "up"},
                 db : {"down", "scan", "scanned", "off", "on"}]
    /\ cache \in [Side -> Hash]
    /\ thread \in [Thread -> ThreadState]
    /\ edits \in 0..MaxEdits /\ faults \in 0..MaxFaults

Init ==
    /\ disk = Absent /\ latest = Absent /\ stat = "none" /\ pending = FALSE
    /\ doc = [rev |-> 0, body |-> Absent]
    /\ since = Unset /\ meta = 0
    /\ buf = <<>> /\ pos = 0
    /\ mode = [fs |-> "down", db |-> "down"]
    /\ cache = [s \in Side |-> NoHash]
    /\ thread = [t \in Thread |-> Idle]
    /\ edits = 0 /\ faults = 0

-----------------------------------------------------------------------------
WriteFile(f) ==
    /\ disk' = f
    /\ stat' = (IF stat = "current" THEN "old" ELSE stat)
    /\ pending' = (pending \/ mode.fs = "up")

(* CouchDB gives the document its next revision. *)
WriteDoc(f) == doc.rev < MaxRev /\ doc' = [rev |-> doc.rev + 1, body |-> f]

Running == mode.fs = "up" /\ mode.db = "on"
Drained == buf = <<>> /\ pos = doc.rev /\ thread["feed"].pc = "idle"

Stopped == mode.fs = "down" /\ mode.db = "down"

AtRest ==
    /\ ~pending /\ \A t \in Thread : thread[t].pc = "idle"
    /\ Stopped \/ (Running /\ buf = <<>> /\ pos = doc.rev)

(* The next start would dispatch the file, or the feed the document. *)
FileDetectable == IF disk = Absent THEN stat # "none" ELSE stat # "current"
DocDetectable  ==
    CASE since = Unset -> doc.body # Absent /\ meta # doc.rev
      [] since = Now   -> FALSE
      [] since \notin {Unset, Now} -> since < doc.rev

(* The last edit is on both sides and both have recorded it. *)
Settled ==
    /\ disk = latest /\ doc.body = latest
    /\ ~FileDetectable /\ ~DocDetectable

MayEdit ==
    \/ Editing = "free"
    \/ Editing = "up" /\ Running
    \/ Editing = "serial" /\ AtRest /\ Settled

Edited(f) == /\ edits < MaxEdits /\ MayEdit
             /\ edits' = edits + 1 /\ latest' = f

Edits == Writable \cup (IF Deletes THEN {Absent} ELSE {})

UserEdit(f) ==
    /\ "user" \in Editors
    /\ f # disk
    /\ Edited(f)
    /\ WriteFile(f)
    /\ UNCHANGED <<doc, since, meta, feed, mode, cache, thread, faults>>

RemoteEdit(f) ==
    /\ "remote" \in Editors
    /\ f # doc.body
    /\ NowGap \/ since # Now \/ mode.db = "on"
    /\ Edited(f)
    /\ WriteDoc(f)
    /\ UNCHANGED <<disk, stored, pending, feed, mode, cache, thread, faults>>

-----------------------------------------------------------------------------
(* Starting. *)

Move(t, r)  == thread' = [thread EXCEPT ![t] = r]
Goto(t, pc) == Move(t, [thread[t] EXCEPT !.pc = pc])

NextMode == [changes |-> "deletions", deletions |-> "up"]

(* A dispatch of t's own has ended: Start goes on to its next scan, a timer
   callback ends, watchChanges takes the next row. *)
Leave(t) ==
    /\ Move(t, Idle)
    /\ mode' = CASE t = "scan"  -> [mode EXCEPT !.fs = NextMode[@]]
                 [] t = "timer" -> mode
                 [] t = "feed"  -> [mode EXCEPT !.db = IF @ = "scan" THEN "scanned" ELSE @]

(* Hub.Start.  CouchDBPeer.Start scans the documents if no sequence is stored. *)
Boot ==
    /\ Stopped
    /\ mode' = [fs |-> "changes", db |-> IF since = Unset THEN "scan" ELSE "off"]
    /\ UNCHANGED <<disk, stored, pending, doc, feed, cache, thread, history>>

ScanChanges ==
    /\ mode.fs = "changes" /\ thread["scan"].pc = "idle"
    /\ IF disk # Absent /\ stat # "current"
       THEN Goto("scan", "read") /\ UNCHANGED mode
       ELSE Leave("scan")
    /\ UNCHANGED <<disk, stored, pending, doc, feed, cache, history>>

(* Mutant: a file that was never here counts as deleted. *)
ScanDeletions_NeverSeen ==
    /\ mode.fs = "deletions" /\ thread["scan"].pc = "idle"
    /\ IF disk = Absent
       THEN Goto("scan", "check") /\ UNCHANGED mode
       ELSE Leave("scan")
    /\ UNCHANGED <<disk, stored, pending, doc, feed, cache, history>>

ScanDeletions ==
    /\ mode.fs = "deletions" /\ thread["scan"].pc = "idle"
    /\ IF disk = Absent /\ stat # "none"
       THEN Goto("scan", "check") /\ UNCHANGED mode
       ELSE Leave("scan")
    /\ UNCHANGED <<disk, stored, pending, doc, feed, cache, history>>

FireTimer ==
    /\ pending /\ thread["timer"].pc = "idle"
    /\ FeedPrompt => Drained
    /\ pending' = FALSE
    /\ Goto("timer", IF disk = Absent THEN "check" ELSE "read")
    /\ UNCHANGED <<disk, stored, doc, feed, mode, cache, history>>

(* A row, or a scanned document, is to be dispatched to the storage peer. *)
Row(d) == [Idle EXCEPT !.pc = "seen", !.side = "db", !.data = d.body, !.rev = d.rev]

(* scanInitialDocuments dispatches the document unless its stored metadata
   say it has not changed. *)
ScanDocument ==
    /\ mode.db = "scan" /\ thread["feed"].pc = "idle"
    /\ IF doc.body # Absent /\ meta # doc.rev
       THEN Move("feed", Row(doc)) /\ UNCHANGED mode
       ELSE Leave("feed")
    /\ UNCHANGED <<disk, stored, pending, doc, feed, cache, history>>

(* Start stores the sequence "now" when the scan is over. *)
FinishScan ==
    /\ mode.db = "scanned"
    /\ since' = Now
    /\ mode' = [mode EXCEPT !.db = "off"]
    /\ UNCHANGED <<disk, stat, meta, pending, doc, feed, cache, thread, history>>

(* Mutant: the feed is always opened at "now". *)
Connect_AtNow ==
    /\ mode.db = "off" /\ thread["feed"].pc = "idle"
    /\ mode' = [mode EXCEPT !.db = "on"]
    /\ buf' = <<>>
    /\ pos' = doc.rev
    /\ UNCHANGED <<disk, stored, pending, doc, cache, thread, history>>

(* watchChanges opens the feed at the stored sequence. *)
Connect ==
    /\ mode.db = "off" /\ thread["feed"].pc = "idle"
    /\ mode' = [mode EXCEPT !.db = "on"]
    /\ buf' = <<>>
    /\ pos' = (IF since = Now THEN doc.rev ELSE since)
    /\ UNCHANGED <<disk, stored, pending, doc, cache, thread, history>>

(* CouchDB sends the document's latest change, with the document. *)
SendRow ==
    /\ mode.db = "on" /\ pos < doc.rev
    /\ buf' = Append(buf, doc)
    /\ pos' = doc.rev
    /\ UNCHANGED <<disk, stored, pending, doc, mode, cache, thread, history>>

(* watchChanges stores the sequence before anything else.  A deletion has no
   path, so it does not pass the baseDir filter. *)
TakeRow ==
    /\ mode.db = "on" /\ thread["feed"].pc = "idle" /\ buf # <<>>
    /\ since' = Head(buf).rev
    /\ buf' = Tail(buf)
    /\ IF BaseDirSet /\ Head(buf).body = Absent
       THEN UNCHANGED thread
       ELSE Move("feed", Row(Head(buf)))
    /\ UNCHANGED <<disk, stat, meta, pending, doc, pos, mode, cache, history>>

-----------------------------------------------------------------------------
(* Dispatching. *)

ReadFile(t) ==
    /\ thread[t].pc = "read"
    /\ IF disk = Absent
       THEN Leave(t)
       ELSE /\ Move(t, [thread[t] EXCEPT !.pc = "check", !.own = disk, !.data = disk])
            /\ UNCHANGED mode
    /\ UNCHANGED <<disk, stored, pending, doc, feed, cache, history>>

(* What watchChanges, the scan and the conflict resolution do around a
   dispatch: IsRepeating before it ... *)
SeenBefore(t) ==
    /\ thread[t].pc = "seen"
    /\ IF ~IsRepeating(cache, "db", DispatchHash(thread[t].data))
       THEN Goto(t, "check") /\ UNCHANGED mode
       ELSE IF t = "feed" THEN Leave(t) ELSE Goto(t, "stat") /\ UNCHANGED mode
    /\ UNCHANGED <<disk, stored, pending, doc, feed, cache, history>>

(* ... MarkProcessed and the metadata after it. *)
DispatchDone(t) ==
    /\ thread[t].pc = "done"
    /\ cache' = MarkProcessed(cache, "db", DispatchHash(thread[t].data))
    /\ meta' = (IF thread[t].data = Absent THEN 0 ELSE thread[t].rev)
    /\ IF t = "feed" THEN Leave(t) ELSE Goto(t, "stat") /\ UNCHANGED mode
    /\ UNCHANGED <<disk, stat, since, pending, doc, feed, history>>

(* DispatchFrom: IsRepeating, then MarkProcessed. *)
CheckRepeating(t) ==
    LET r == thread[t] IN
    /\ r.pc = "check"
    /\ Goto(t, IF ~IsRepeating(cache, r.side, DispatchHash(r.data)) THEN "mark"
               ELSE IF r.side = "fs" THEN "stat" ELSE "done")
    /\ UNCHANGED <<disk, stored, pending, doc, feed, mode, cache, history>>

(* Mutant: the source's stat is stored before the dispatch. *)
Mark_StatFirst(t) ==
    LET r == thread[t] IN
    /\ r.pc = "mark"
    /\ cache' = MarkProcessed(cache, r.side, DispatchHash(r.data))
    /\ stat' = IF r.side = "db" THEN stat ELSE IF r.data = Absent THEN "none" ELSE "current"
    /\ Goto(t, IF r.side = "fs" THEN "dbcheck" ELSE "fscheck")
    /\ UNCHANGED <<disk, since, meta, pending, doc, feed, mode, history>>

Mark(t) ==
    LET r == thread[t] IN
    /\ r.pc = "mark"
    /\ cache' = MarkProcessed(cache, r.side, DispatchHash(r.data))
    /\ Goto(t, IF r.side = "fs" THEN "dbcheck" ELSE "fscheck")
    /\ UNCHANGED <<disk, stored, pending, doc, feed, mode, history>>

(* The storage peer records the file's stat, or forgets it. *)
OwnStat(t) ==
    /\ thread[t].pc = "stat"
    /\ stat' = CASE thread[t].own = Absent -> "none"
                 [] thread[t].own # Absent /\ disk # Absent -> "current"
                 [] thread[t].own # Absent /\ disk = Absent -> stat
    /\ Leave(t)
    /\ UNCHANGED <<disk, since, meta, pending, doc, feed, cache, history>>

-----------------------------------------------------------------------------
(* CouchDBPeer.Put and Delete. *)

OfferDoc(t) ==
    /\ thread[t].pc = "dbcheck"
    /\ Goto(t, IF IsRepeating(cache, "db", DeliverHash(thread[t].data)) THEN "stat"
               ELSE "dbmark")
    /\ UNCHANGED <<disk, stored, pending, doc, feed, mode, cache, history>>

(* Both mark before they write.  Delete first reads the document, and returns
   if there is none. *)
MarkDoc(t) ==
    LET r == thread[t] IN
    /\ r.pc = "dbmark"
    /\ IF r.data = Absent /\ doc.body = Absent
       THEN Goto(t, "stat") /\ UNCHANGED cache
       ELSE /\ cache' = MarkProcessed(cache, "db", DeliverHash(r.data))
            /\ Move(t, [r EXCEPT !.pc = "get", !.rev = IF r.data = Absent THEN doc.rev ELSE 0])
    /\ UNCHANGED <<disk, stored, pending, doc, feed, mode, history>>

(* Mutant: the revision is not read again. *)
GetRev_Once(t) ==
    /\ thread[t].pc = "get"
    /\ Goto(t, "put")
    /\ UNCHANGED <<disk, stored, pending, doc, feed, mode, cache, history>>

(* Each attempt reads the document's revision first; if it cannot, it goes
   on with the revision it has. *)
GetRev(t) ==
    /\ thread[t].pc = "get"
    /\ Move(t, [thread[t] EXCEPT !.pc = "put",
                                 !.rev = IF doc.body = Absent THEN @ ELSE doc.rev])
    /\ UNCHANGED <<disk, stored, pending, doc, feed, mode, cache, history>>

(* CouchDB takes an update of the current revision, and a new document where
   there is none. *)
Accepts(r) ==
    IF doc.body = Absent THEN r.data # Absent /\ r.rev \in {0, doc.rev} ELSE r.rev = doc.rev

(* A delete of a document that is gone is an error, but no conflict. *)
Gone(r) == r.data = Absent /\ doc.body = Absent

PutDoc(t) ==
    LET r == thread[t] IN
    /\ r.pc = "put"
    /\ Accepts(r)
    /\ WriteDoc(r.data)
    /\ Goto(t, "stat")
    /\ UNCHANGED <<disk, stored, pending, feed, mode, cache, history>>

DeleteGone(t) ==
    /\ thread[t].pc \in {"put", "force"}
    /\ Gone(thread[t])
    /\ Leave(t)
    /\ UNCHANGED <<disk, stored, pending, doc, feed, cache, history>>

(* Mutant: attempts are not counted. *)
Conflict_Uncounted(t) ==
    LET r == thread[t] IN
    /\ r.pc = "put"
    /\ ~Accepts(r) /\ ~Gone(r)
    /\ Move(t, [r EXCEPT !.pc = IF r.tries + 1 < MaxAttempts THEN "get" ELSE "resolve"])
    /\ UNCHANGED <<disk, stored, pending, doc, feed, mode, cache, history>>

Conflict(t) ==
    LET r == thread[t] IN
    /\ r.pc = "put"
    /\ ~Accepts(r) /\ ~Gone(r)
    /\ Move(t, [r EXCEPT !.tries = @ + 1,
                         !.pc = IF r.tries + 1 < MaxAttempts THEN "get" ELSE "resolve"])
    /\ UNCHANGED <<disk, stored, pending, doc, feed, mode, cache, history>>

(* resolveConflict, resolveDeleteConflict: the latest document is read and
   the strategy decides.  Clocks are not modelled: timestamps decide either way. *)
KeepLocal(t) ==
    /\ thread[t].pc = "resolve" /\ doc.body # Absent
    /\ Strategy \in {"timestamp-wins", "local-wins"}
    /\ Move(t, [thread[t] EXCEPT !.pc = "force", !.rev = doc.rev])
    /\ UNCHANGED <<disk, stored, pending, doc, feed, mode, cache, history>>

AcceptRemote(t) ==
    /\ thread[t].pc = "resolve" /\ doc.body # Absent
    /\ Strategy \in {"timestamp-wins", "remote-wins"}
    /\ Move(t, [Row(doc) EXCEPT !.own = thread[t].own])
    /\ UNCHANGED <<disk, stored, pending, doc, feed, mode, cache, history>>

Unresolved(t) ==
    /\ thread[t].pc = "resolve" /\ (doc.body = Absent \/ Strategy = "manual")
    /\ Leave(t)
    /\ UNCHANGED <<disk, stored, pending, doc, feed, cache, history>>

(* The forced write has one attempt. *)
ForceDoc(t) ==
    LET r == thread[t] IN
    /\ r.pc = "force"
    /\ ~Gone(r)
    /\ IF Accepts(r)
       THEN WriteDoc(r.data) /\ Goto(t, "stat") /\ UNCHANGED mode
       ELSE Leave(t) /\ UNCHANGED doc
    /\ UNCHANGED <<disk, stored, pending, feed, cache, history>>

-----------------------------------------------------------------------------
(* StoragePeer.Put and Delete. *)

OfferFile(t) ==
    /\ thread[t].pc = "fscheck"
    /\ Goto(t, IF IsRepeating(cache, "fs", DeliverHash(thread[t].data)) THEN "done" ELSE "write")
    /\ UNCHANGED <<disk, stored, pending, doc, feed, mode, cache, history>>

WriteDisk(t) ==
    /\ thread[t].pc = "write"
    /\ IF thread[t].data = Absent /\ disk = Absent
       THEN Goto(t, "done") /\ UNCHANGED <<disk, stat, pending>>
       ELSE WriteFile(thread[t].data) /\ Goto(t, "pstat")
    /\ UNCHANGED <<since, meta, doc, feed, mode, cache, history>>

PutStat(t) ==
    /\ thread[t].pc = "pstat"
    /\ stat' = CASE thread[t].data = Absent -> "none"
                 [] thread[t].data # Absent /\ disk # Absent -> "current"
                 [] thread[t].data # Absent /\ disk = Absent -> stat
    /\ Goto(t, "pmark")
    /\ UNCHANGED <<disk, since, meta, pending, doc, feed, mode, cache, history>>

PutMark(t) ==
    /\ thread[t].pc = "pmark"
    /\ cache' = MarkProcessed(cache, "fs", DeliverHash(thread[t].data))
    /\ Goto(t, "done")
    /\ UNCHANGED <<disk, stored, pending, doc, feed, mode, history>>

-----------------------------------------------------------------------------
(* Faults. *)

Fault(f) == f \in Faults /\ faults < MaxFaults /\ faults' = faults + 1

Crash ==
    /\ \/ Fault("crash")
       \/ Fault("restart") /\ AtRest
    /\ ~Stopped
    /\ pending' = FALSE /\ buf' = <<>> /\ pos' = 0
    /\ mode' = [fs |-> "down", db |-> "down"]
    /\ cache' = [s \in Side |-> NoHash]
    /\ thread' = [t \in Thread |-> Idle]
    /\ UNCHANGED <<disk, stored, doc, latest, edits>>

(* The feed breaks: rows not taken yet are dropped and it is opened again at
   the stored sequence. *)
Disconnect ==
    /\ Fault("disconnect")
    /\ NowGap \/ since # Now
    /\ mode.db = "on" /\ thread["feed"].pc = "idle"
    /\ mode' = [mode EXCEPT !.db = "off"]
    /\ UNCHANGED <<disk, stored, pending, doc, feed, cache, thread, latest, edits>>

(* Mutant: the stat is recorded although the request failed. *)
PutDocFails_Recorded(t) ==
    /\ Fault("fail")
    /\ thread[t].pc \in {"put", "force"}
    /\ Goto(t, "stat")
    /\ UNCHANGED <<disk, stored, pending, doc, feed, mode, cache, latest, edits>>

(* The request that writes the document fails; the source gets the error. *)
PutDocFails(t) ==
    /\ Fault("fail")
    /\ thread[t].pc \in {"put", "force"}
    /\ Leave(t)
    /\ UNCHANGED <<disk, stored, pending, doc, feed, cache, latest, edits>>

(* Delete cannot read the document.  It takes that for a document that does not
   exist, and returns no error. *)
LookupFails(t) ==
    /\ Fault("lookup")
    /\ thread[t].pc = "dbmark" /\ thread[t].data = Absent
    /\ Goto(t, "stat")
    /\ UNCHANGED <<disk, stored, pending, doc, feed, mode, cache, latest, edits>>

(* An attempt that cannot read the revision goes on with the one it has; a
   resolution that cannot read the document is an error. *)
RereadFails(t) ==
    /\ Fault("reread")
    /\ \/ thread[t].pc = "get" /\ Goto(t, "put") /\ UNCHANGED mode
       \/ thread[t].pc = "resolve" /\ Leave(t)
    /\ UNCHANGED <<disk, stored, pending, doc, feed, cache, latest, edits>>

(* Writing the file fails.  watchChanges ignores the error; the initial scan
   skips the document, and a resolution returns the error to its source. *)
WriteDiskFails(t) ==
    /\ Fault("fail")
    /\ thread[t].pc = "write"
    /\ IF t = "feed" /\ mode.db = "on"
       THEN Goto(t, "done") /\ UNCHANGED mode
       ELSE Leave(t)
    /\ UNCHANGED <<disk, stored, pending, doc, feed, cache, latest, edits>>

-----------------------------------------------------------------------------
ThreadStep(t) ==
    \/ ReadFile(t) \/ SeenBefore(t) \/ CheckRepeating(t) \/ Mark(t)
    \/ DispatchDone(t) \/ OwnStat(t)
    \/ OfferDoc(t) \/ MarkDoc(t) \/ GetRev(t) \/ PutDoc(t) \/ DeleteGone(t)
    \/ Conflict(t) \/ KeepLocal(t) \/ AcceptRemote(t) \/ Unresolved(t) \/ ForceDoc(t)
    \/ OfferFile(t) \/ WriteDisk(t) \/ PutStat(t) \/ PutMark(t)

ThreadFails(t) ==
    \/ PutDocFails(t) \/ LookupFails(t) \/ RereadFails(t) \/ WriteDiskFails(t)

Start == Boot \/ ScanChanges \/ ScanDeletions \/ ScanDocument \/ FinishScan

Feed == Connect \/ SendRow \/ TakeRow

Next ==
    \/ \E f \in Edits : UserEdit(f) \/ RemoteEdit(f)
    \/ Start \/ FireTimer \/ Feed
    \/ \E t \in Thread : ThreadStep(t) \/ ThreadFails(t)
    \/ Crash \/ Disconnect

Spec == Init /\ [][Next]_vars

(* Goroutines are scheduled, timers fire, the bridge is started again and
   CouchDB sends what it has. *)
Fairness ==
    /\ WF_vars(Start) /\ WF_vars(FireTimer)
    /\ WF_vars(Connect) /\ WF_vars(SendRow) /\ WF_vars(TakeRow)
    /\ \A t \in Thread : WF_vars(ThreadStep(t))

FairSpec == Spec /\ Fairness

-----------------------------------------------------------------------------
(* SyncAtRest: when the bridge is up and has nothing left to do, the file and
   the document both hold what the last edit on either side left. *)
SyncAtRest == AtRest /\ Running => disk = latest /\ doc.body = latest

(* UserEditSafe: an edit of the file, a deletion included, that is not in the
   document yet would be dispatched by the next start, so that no restart and no
   broken feed loses it (dispatchFile stores the stat after the dispatch,
   dispatchDeletion drops it then). *)
UserEditSafe == disk = latest /\ doc.body # latest => FileDetectable

(* UserSaveSafe: the same of the edits that are not deletions, which holds
   whatever request fails, reads and writes, and at whatever step the bridge
   stops.  A deletion whose Delete cannot read the document is lost: it counts
   as delivered (CouchDBPeer.Delete, peer.go:737). *)
UserSaveSafe ==
    disk = latest /\ disk # Absent /\ doc.body # latest => FileDetectable

(* EditorUndisturbed: when only one side edits, nothing the bridge sends back,
   from the feed or from the watcher, undoes an edit on that side (the check
   of IsRepeating on both ways; PLAN.md "No infinite loops or echo"). *)
EditorUndisturbed ==
    /\ Editors = {"user"}   => disk = latest
    /\ Editors = {"remote"} => doc.body = latest

(* EventuallyQuiet: once edits and faults stop, every goroutine comes to rest:
   retries and resolutions end, and the writes that the feed and the watcher
   report back are not sent around again. *)
EventuallyQuiet == <>[](~pending /\ \A t \in Thread : thread[t].pc = "idle")

(* With one edit at a time, the file and the document implement a replicated
   register: neither ever steps to anything but the last edit. *)
Replica == INSTANCE SyncGroup WITH
    NumPeers <- 2, Group <- <<"g", "g">>,
    copy <- <<disk, doc.body>>, last <- [g \in {"g"} |-> latest]
ImplementsSyncGroup == Replica!Spec

(* FollowsRegister: the same without the promise that the edit gets there,
   which holds whatever crashes, fails or breaks: a file or a document that a
   dispatch, a scan after a restart or a row of the feed changes becomes the
   last edit, and nothing else. *)
FollowsRegister == Replica!Init /\ [][Replica!Next]_<<disk, doc.body, latest>>

=============================================================================
