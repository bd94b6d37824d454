------------------------ MODULE CouchBridge_proofs -------------------------
(***************************************************************************)
(* A file and its document with one edit at a time: both only ever step to *)
(* the last edit, an edit of the file stays detectable until the document  *)
(* has it, and at rest both have it.  With one user who saves at any time: *)
(* no save is undone, and at rest both have the last one.  For any         *)
(* contents, strategy and number of attempts, edits and faults.            *)
(***************************************************************************)
EXTENDS CouchBridge, SequenceTheorems, TLAPS

USE HashesDistinct, ConstantsAssumption

(* What the types rest on: the scans run while Start does, and the feed is
   opened only after a sequence was stored. *)
Shape ==
    /\ thread["scan"].pc # "idle" => mode.fs \in {"changes", "deletions"}
    /\ mode.db \in {"off", "on"} => since # Unset

TypeInv == TypeOK /\ Shape

LEMMA FileHashes ==
    ASSUME NEW f \in File
    PROVE  DispatchHash(f) \in Hash /\ DeliverHash(f) \in Hash
BY DEF File, Hash, DispatchHash, DeliverHash, Bytes

LEMMA IdleType == Idle \in ThreadState
BY DEF Idle, ThreadState, PC, File, Side

(* A record of a goroutine with other fields is one. *)
LEMMA GotoType ==
    ASSUME NEW r \in ThreadState, NEW pc \in PC
    PROVE  [r EXCEPT !.pc = pc] \in ThreadState
BY DEF ThreadState

LEMMA RowType ==
    ASSUME NEW d \in [rev : Nat, body : File]
    PROVE  Row(d) \in ThreadState
<1>1. d.rev \in Nat /\ d.body \in File
  OBVIOUS
<1> QED BY <1>1 DEF Row, Idle, ThreadState, PC, File, Side

(* A goroutine on its way goes on, or leaves. *)
Moved(t) ==
    /\ thread[t].pc # "idle"
    /\ Leave(t) \/ (UNCHANGED mode /\ \E r \in ThreadState : Move(t, r))

ModeType == [fs : {"down", "changes", "deletions", "up"},
             db : {"down", "scan", "scanned", "off", "on"}]

LEMMA LeaveType ==
    ASSUME TypeInv, NEW t \in Thread, Leave(t),
           t = "scan" => mode.fs \in {"changes", "deletions"}
    PROVE  /\ thread' \in [Thread -> ThreadState] /\ mode' \in ModeType
           /\ thread'["scan"].pc # "idle" => mode'.fs \in {"changes", "deletions"}
           /\ mode'.db \in {"off", "on"} => mode.db \in {"off", "on"}
<1>1. /\ mode \in ModeType /\ thread \in [Thread -> ThreadState]
      /\ "scan" \in Thread
  BY DEF TypeInv, TypeOK, ModeType, Thread
<1>2. thread' = [thread EXCEPT ![t] = Idle] /\ Idle.pc = "idle"
  BY DEF Leave, Move, Idle
<1>3. thread' \in [Thread -> ThreadState]
  BY <1>1, <1>2, IdleType
<1>4. t # "scan" => mode'.fs = mode.fs /\ thread'["scan"] = thread["scan"]
  BY <1>1, <1>2 DEF Leave, Thread, ModeType
<1>5. t = "scan" => thread'["scan"].pc = "idle"
  BY <1>1, <1>2
<1>6. thread'["scan"].pc # "idle" => mode'.fs \in {"changes", "deletions"}
  BY <1>4, <1>5 DEF TypeInv, Shape
<1>7. mode' \in ModeType /\ (mode'.db \in {"off", "on"} => mode.db \in {"off", "on"})
  <2>1. CASE t = "scan"
    BY <1>1, <2>1 DEF Leave, ModeType, NextMode
  <2>2. CASE t = "timer"
    BY <1>1, <2>2 DEF Leave, ModeType
  <2>3. CASE t = "feed"
    BY <1>1, <2>3 DEF Leave, ModeType
  <2> QED BY <2>1, <2>2, <2>3 DEF Thread
<1> QED BY <1>3, <1>6, <1>7

LEMMA MovedType ==
    ASSUME TypeInv, NEW t \in Thread, Moved(t), UNCHANGED since
    PROVE  thread' \in [Thread -> ThreadState] /\ mode' \in ModeType /\ Shape'
<1>1. mode \in ModeType /\ thread \in [Thread -> ThreadState]
  BY DEF TypeInv, TypeOK, ModeType
<1>2. CASE Leave(t)
  <2>1. t = "scan" => mode.fs \in {"changes", "deletions"}
    BY DEF Moved, TypeInv, Shape
  <2> QED BY <1>2, <2>1, LeaveType DEF Shape, TypeInv
<1>3. CASE UNCHANGED mode /\ \E r \in ThreadState : Move(t, r)
  <2>1. PICK r \in ThreadState : Move(t, r)
    BY <1>3
  <2>2. thread' \in [Thread -> ThreadState]
    BY <1>1, <2>1 DEF Move
  <2>3. thread'["scan"].pc # "idle" => thread["scan"].pc # "idle"
    BY <1>1, <2>1 DEF Move, Moved, Thread
  <2> QED BY <1>1, <1>3, <2>2, <2>3 DEF TypeInv, Shape
<1> QED BY <1>2, <1>3 DEF Moved

(* A goroutine that only changes where it is. *)
LEMMA MovedGoto ==
    ASSUME TypeInv, NEW t \in Thread, NEW pc \in PC, Goto(t, pc),
           thread[t].pc # "idle", UNCHANGED mode
    PROVE  Moved(t)
<1>1. thread[t] \in ThreadState
  BY DEF TypeInv, TypeOK
<1> QED BY <1>1, GotoType DEF Moved, Goto

LEMMA TypeInit == Init => TypeInv
<1> SUFFICES ASSUME Init PROVE TypeInv
  OBVIOUS
<1>1. Idle.pc = "idle" /\ NoHash \in Hash /\ Absent \in File
  BY DEF Idle, Hash, File
<1>2. TypeOK
  <2>1. cache \in [Side -> Hash] /\ thread \in [Thread -> ThreadState]
    BY <1>1, IdleType DEF Init
  <2>2. doc \in [rev : Nat, body : File] /\ buf \in Seq([rev : Nat, body : File])
    BY <1>1, EmptySeq DEF Init
  <2>3. mode \in ModeType
    BY DEF Init, ModeType
  <2>4. /\ disk \in File /\ latest \in File /\ stat = "none" /\ pending \in BOOLEAN
        /\ since = Unset /\ meta = 0 /\ pos = 0 /\ edits = 0 /\ faults = 0
    BY <1>1 DEF Init
  <2>5. 0 \in 0..MaxEdits /\ 0 \in 0..MaxFaults
    OBVIOUS
  <2> QED BY <2>1, <2>2, <2>3, <2>4, <2>5 DEF TypeOK, ModeType
<1>3. Shape
  BY <1>1 DEF Init, Shape, Thread
<1> QED BY <1>2, <1>3 DEF TypeInv

LEMMA TypeEdit ==
    ASSUME TypeInv, NEW f \in Edits, UserEdit(f) \/ RemoteEdit(f)
    PROVE  TypeInv'
<1>1. f \in File
  BY DEF Edits, File
<1>2. Shape'
  BY DEF UserEdit, RemoteEdit, TypeInv, Shape, stored
<1>3. edits' \in 0..MaxEdits
  BY DEF UserEdit, RemoteEdit, Edited, TypeInv, TypeOK
<1>4. CASE UserEdit(f)
  <2>1. pending' \in BOOLEAN /\ stat' \in {"none", "old", "current"}
    BY <1>4 DEF UserEdit, WriteFile, TypeInv, TypeOK
  <2> QED BY <1>1, <1>2, <1>3, <1>4, <2>1 DEF UserEdit, WriteFile, Edited, TypeInv, TypeOK, feed
<1>5. CASE RemoteEdit(f)
  <2>1. doc' \in [rev : Nat, body : File]
    BY <1>1, <1>5 DEF RemoteEdit, WriteDoc, TypeInv, TypeOK
  <2> QED BY <1>1, <1>2, <1>3, <1>5, <2>1 DEF RemoteEdit, Edited, TypeInv, TypeOK, feed, stored
<1> QED BY <1>4, <1>5

LEMMA TypeStart ==
    ASSUME TypeInv, Start
    PROVE  TypeInv'
<1>1. /\ mode \in ModeType /\ thread \in [Thread -> ThreadState]
      /\ "scan" \in Thread /\ "feed" \in Thread /\ "feed" # "scan"
  BY DEF TypeInv, TypeOK, ModeType, Thread
<1>2. CASE Boot
  <2>1. mode' \in ModeType /\ mode'.fs = "changes" /\ (mode'.db \in {"off", "on"} => since # Unset)
    BY <1>2 DEF Boot, ModeType
  <2> QED BY <1>2, <2>1 DEF Boot, TypeInv, TypeOK, Shape, ModeType, stored, feed, history
<1>3. CASE ScanChanges \/ ScanDeletions
  <2>1. mode.fs \in {"changes", "deletions"}
    BY <1>3 DEF ScanChanges, ScanDeletions
  <2>2. thread' \in [Thread -> ThreadState] /\ mode' \in ModeType /\ Shape'
    <3>1. CASE Leave("scan")
      BY <1>1, <1>3, <2>1, <3>1, LeaveType DEF ScanChanges, ScanDeletions, TypeInv, Shape, stored
    <3>2. CASE UNCHANGED mode /\ (Goto("scan", "read") \/ Goto("scan", "check"))
      <4>1. thread["scan"] \in ThreadState /\ "read" \in PC /\ "check" \in PC
        BY <1>1 DEF PC
      <4>2. thread' \in [Thread -> ThreadState]
        BY <1>1, <3>2, <4>1, GotoType DEF Goto, Move
      <4> QED BY <1>1, <1>3, <2>1, <3>2, <4>2 DEF ScanChanges, ScanDeletions, TypeInv, Shape, stored
    <3> QED BY <1>3, <3>1, <3>2 DEF ScanChanges, ScanDeletions
  <2> QED BY <1>3, <2>2 DEF ScanChanges, ScanDeletions, TypeInv, TypeOK, ModeType, stored, feed, history
<1>4. CASE ScanDocument
  <2>1. thread' \in [Thread -> ThreadState] /\ mode' \in ModeType /\ Shape'
    <3>1. CASE Leave("feed")
      BY <1>1, <1>4, <3>1, LeaveType DEF ScanDocument, TypeInv, Shape, stored
    <3>2. CASE UNCHANGED mode /\ Move("feed", Row(doc))
      <4>1. Row(doc) \in ThreadState
        BY RowType DEF TypeInv, TypeOK
      <4>2. thread' \in [Thread -> ThreadState] /\ thread'["scan"] = thread["scan"]
        BY <1>1, <3>2, <4>1 DEF Move
      <4> QED BY <1>1, <1>4, <3>2, <4>2 DEF ScanDocument, TypeInv, Shape, stored
    <3> QED BY <1>4, <3>1, <3>2 DEF ScanDocument
  <2> QED BY <1>4, <2>1 DEF ScanDocument, TypeInv, TypeOK, ModeType, stored, feed, history
<1>5. CASE FinishScan
  <2>1. mode' \in ModeType /\ mode'.fs = mode.fs
    BY <1>1, <1>5 DEF FinishScan, ModeType
  <2> QED BY <1>5, <2>1 DEF FinishScan, TypeInv, TypeOK, Shape, ModeType, feed, history
<1> QED BY <1>2, <1>3, <1>4, <1>5 DEF Start

LEMMA TypeTimer ==
    ASSUME TypeInv, FireTimer
    PROVE  TypeInv'
<1>1. /\ thread \in [Thread -> ThreadState]
      /\ "scan" \in Thread /\ "timer" \in Thread /\ "timer" # "scan"
  BY DEF TypeInv, TypeOK, Thread
<1>2. thread["timer"] \in ThreadState /\ "read" \in PC /\ "check" \in PC
  BY <1>1 DEF PC
<1>3. thread' \in [Thread -> ThreadState] /\ thread'["scan"] = thread["scan"]
  BY <1>1, <1>2, GotoType DEF FireTimer, Goto, Move
<1> QED BY <1>3 DEF FireTimer, TypeInv, TypeOK, Shape, stored, feed, history

LEMMA TypeFeed ==
    ASSUME TypeInv, Feed
    PROVE  TypeInv'
<1>1. /\ mode \in ModeType /\ thread \in [Thread -> ThreadState]
      /\ "scan" \in Thread /\ "feed" \in Thread /\ "feed" # "scan"
      /\ doc \in [rev : Nat, body : File] /\ buf \in Seq([rev : Nat, body : File])
      /\ pos \in Nat /\ since \in Nat \cup {Unset, Now}
  BY DEF TypeInv, TypeOK, ModeType, Thread
<1>2. CASE Connect
  <2>1. since # Unset
    BY <1>2 DEF Connect, TypeInv, Shape
  <2>2. pos' \in Nat
    BY <1>1, <1>2, <2>1 DEF Connect
  <2>3. mode' \in ModeType /\ mode'.fs = mode.fs
    BY <1>1, <1>2 DEF Connect, ModeType
  <2> QED BY <1>2, <2>1, <2>2, <2>3, EmptySeq DEF Connect, TypeInv, TypeOK, Shape, ModeType, stored, history
<1>3. CASE SendRow
  <2>1. buf' \in Seq([rev : Nat, body : File]) /\ pos' \in Nat
    BY <1>1, <1>3, AppendProperties DEF SendRow
  <2> QED BY <1>3, <2>1 DEF SendRow, TypeInv, TypeOK, Shape, stored, history
<1>4. CASE TakeRow
  <2>1. Head(buf) \in [rev : Nat, body : File] /\ Tail(buf) \in Seq([rev : Nat, body : File])
    BY <1>1, <1>4, HeadTailProperties DEF TakeRow
  <2>2. since' \in Nat /\ buf' \in Seq([rev : Nat, body : File])
    BY <1>4, <2>1 DEF TakeRow
  <2>3. thread' \in [Thread -> ThreadState] /\ thread'["scan"] = thread["scan"]
    BY <1>1, <1>4, <2>1, RowType DEF TakeRow, Move
  <2>4. since' # Unset
    BY <2>2
  <2> QED BY <1>4, <2>2, <2>3, <2>4 DEF TakeRow, TypeInv, TypeOK, Shape, history
<1> QED BY <1>2, <1>3, <1>4 DEF Feed

(* The goroutines' steps; a dispatch first, ... *)
LEMMA TypeDispatch ==
    ASSUME TypeInv, NEW t \in Thread,
           \/ ReadFile(t) \/ SeenBefore(t) \/ CheckRepeating(t) \/ Mark(t)
           \/ DispatchDone(t) \/ OwnStat(t)
    PROVE  TypeInv'
<1> DEFINE r == thread[t]
<1>1. /\ r \in ThreadState /\ r.data \in File /\ r.rev \in Nat
      /\ disk \in File /\ cache \in [Side -> Hash]
  BY DEF TypeInv, TypeOK, ThreadState
<1>2. Moved(t)
  <2>1. ASSUME NEW pc \in {"check", "stat", "mark", "done", "dbcheck", "fscheck"},
               Goto(t, pc), r.pc # "idle", UNCHANGED mode
        PROVE  Moved(t)
    BY <2>1, MovedGoto DEF PC
  <2>2. CASE ReadFile(t)
    <3>1. [r EXCEPT !.pc = "check", !.own = disk, !.data = disk] \in ThreadState
      BY <1>1 DEF ThreadState, PC
    <3> QED BY <2>2, <3>1 DEF ReadFile, Moved
  <2>3. CASE SeenBefore(t) \/ DispatchDone(t) \/ OwnStat(t)
    BY <2>1, <2>3 DEF SeenBefore, DispatchDone, OwnStat, Moved
  <2>4. CASE CheckRepeating(t) \/ Mark(t)
    BY <2>1, <2>4 DEF CheckRepeating, Mark
  <2> QED BY <2>2, <2>3, <2>4
<1>3. cache' \in [Side -> Hash] /\ meta' \in Nat /\ stat' \in {"none", "old", "current"}
  <2>1. DispatchHash(r.data) \in Hash
    BY <1>1, FileHashes
  <2>2. cache' \in [Side -> Hash]
    BY <1>1, <2>1 DEF ReadFile, SeenBefore, CheckRepeating, Mark, DispatchDone, OwnStat, MarkProcessed
  <2>3. meta' \in Nat
    BY <1>1 DEF ReadFile, SeenBefore, CheckRepeating, Mark, DispatchDone, OwnStat, TypeInv, TypeOK, stored
  <2>4. stat' \in {"none", "old", "current"}
    BY DEF ReadFile, SeenBefore, CheckRepeating, Mark, DispatchDone, OwnStat, TypeInv, TypeOK, stored
  <2> QED BY <2>2, <2>3, <2>4
<1>4. UNCHANGED <<disk, since, pending, doc, buf, pos, latest, edits, faults>>
  BY DEF ReadFile, SeenBefore, CheckRepeating, Mark, DispatchDone, OwnStat, stored, feed, history
<1>5. thread' \in [Thread -> ThreadState] /\ mode' \in ModeType /\ Shape'
  BY <1>2, <1>4, MovedType
<1> QED BY <1>3, <1>4, <1>5 DEF TypeInv, TypeOK, ModeType

(* ... its way into the document, ... *)
LEMMA TypePutDoc ==
    ASSUME TypeInv, NEW t \in Thread,
           \/ OfferDoc(t) \/ MarkDoc(t) \/ GetRev(t) \/ PutDoc(t) \/ DeleteGone(t)
           \/ Conflict(t) \/ KeepLocal(t) \/ AcceptRemote(t) \/ Unresolved(t) \/ ForceDoc(t)
           \/ PutDocFails(t) \/ LookupFails(t) \/ RereadFails(t)
    PROVE  TypeInv'
<1> DEFINE r == thread[t]
<1>1. /\ r \in ThreadState /\ r.data \in File /\ r.rev \in Nat /\ r.own \in File /\ r.tries \in Nat
      /\ cache \in [Side -> Hash] /\ doc \in [rev : Nat, body : File] /\ doc.rev \in Nat
  BY DEF TypeInv, TypeOK, ThreadState
<1>2. Moved(t)
  <2>1. ASSUME NEW pc \in {"stat", "dbmark", "put"},
               Goto(t, pc), r.pc # "idle", UNCHANGED mode
        PROVE  Moved(t)
    BY <2>1, MovedGoto DEF PC
  <2>2. ASSUME NEW pc \in {"get", "put", "resolve", "force"}, NEW rev \in Nat
        PROVE  [r EXCEPT !.pc = pc, !.rev = rev] \in ThreadState
    BY <1>1 DEF ThreadState, PC
  <2>3. CASE OfferDoc(t) \/ PutDoc(t) \/ DeleteGone(t) \/ Unresolved(t) \/ ForceDoc(t)
    BY <2>1, <2>3 DEF OfferDoc, PutDoc, DeleteGone, Unresolved, ForceDoc, Moved
  <2>9. CASE PutDocFails(t) \/ LookupFails(t) \/ RereadFails(t)
    BY <2>1, <2>9 DEF PutDocFails, LookupFails, RereadFails, Moved
  <2>4. CASE MarkDoc(t)
    BY <1>1, <2>1, <2>2, <2>4 DEF MarkDoc, Moved
  <2>5. CASE GetRev(t)
    BY <1>1, <2>2, <2>5 DEF GetRev, Moved
  <2>6. CASE Conflict(t)
    <3>1. ASSUME NEW pc \in {"get", "resolve"}
          PROVE  [r EXCEPT !.tries = r.tries + 1, !.pc = pc] \in ThreadState
      <4>1. r.tries + 1 \in Nat /\ pc \in PC
        BY <1>1 DEF PC
      <4> QED BY <1>1, <4>1 DEF ThreadState
    <3> QED BY <2>6, <3>1 DEF Conflict, Moved
  <2>7. CASE KeepLocal(t)
    BY <1>1, <2>2, <2>7 DEF KeepLocal, Moved
  <2>8. CASE AcceptRemote(t)
    <3>1. [Row(doc) EXCEPT !.own = r.own] \in ThreadState
      BY <1>1, RowType DEF ThreadState
    <3> QED BY <2>8, <3>1 DEF AcceptRemote, Moved
  <2> QED BY <2>3, <2>4, <2>5, <2>6, <2>7, <2>8, <2>9
<1>3. cache' \in [Side -> Hash]
  <2>1. DeliverHash(r.data) \in Hash
    BY <1>1, FileHashes
  <2>2. CASE MarkDoc(t)
    BY <1>1, <2>1, <2>2 DEF MarkDoc, MarkProcessed
  <2> QED BY <1>1, <2>2 DEF OfferDoc, GetRev, PutDoc, DeleteGone, Conflict, KeepLocal, AcceptRemote, Unresolved,
       ForceDoc, PutDocFails, LookupFails, RereadFails
<1>4. doc' \in [rev : Nat, body : File]
  <2>1. CASE WriteDoc(r.data)
    BY <1>1, <2>1 DEF WriteDoc
  <2> QED BY <1>1, <2>1 DEF OfferDoc, MarkDoc, GetRev, PutDoc, DeleteGone, Conflict, KeepLocal, AcceptRemote, Unresolved,
       ForceDoc, PutDocFails, LookupFails, RereadFails
<1>5. UNCHANGED <<disk, stat, since, meta, pending, buf, pos, latest, edits>>
  BY DEF OfferDoc, MarkDoc, GetRev, PutDoc, DeleteGone, Conflict, KeepLocal, AcceptRemote, Unresolved,
       ForceDoc, PutDocFails, LookupFails, RereadFails, stored, feed, history
<1>6. faults' \in 0..MaxFaults
  BY DEF OfferDoc, MarkDoc, GetRev, PutDoc, DeleteGone, Conflict, KeepLocal, AcceptRemote, Unresolved,
       ForceDoc, PutDocFails, LookupFails, RereadFails, history, Fault, TypeInv, TypeOK
<1>7. thread' \in [Thread -> ThreadState] /\ mode' \in ModeType /\ Shape'
  BY <1>2, <1>5, MovedType
<1> QED BY <1>3, <1>4, <1>5, <1>6, <1>7 DEF TypeInv, TypeOK, ModeType

(* ... and into the file. *)
LEMMA TypePutFile ==
    ASSUME TypeInv, NEW t \in Thread,
           OfferFile(t) \/ WriteDisk(t) \/ PutStat(t) \/ PutMark(t) \/ WriteDiskFails(t)
    PROVE  TypeInv'
<1> DEFINE r == thread[t]
<1>1. /\ r \in ThreadState /\ r.data \in File /\ disk \in File
      /\ cache \in [Side -> Hash] /\ pending \in BOOLEAN /\ stat \in {"none", "old", "current"}
  BY DEF TypeInv, TypeOK, ThreadState
<1>2. Moved(t)
  <2>1. ASSUME NEW pc \in {"done", "write", "pstat", "pmark"},
               Goto(t, pc), r.pc # "idle", UNCHANGED mode
        PROVE  Moved(t)
    BY <2>1, MovedGoto DEF PC
  <2> QED BY <2>1 DEF OfferFile, WriteDisk, PutStat, PutMark, WriteDiskFails, Moved
<1>3. disk' \in File /\ stat' \in {"none", "old", "current"}
  BY <1>1 DEF OfferFile, WriteDisk, WriteFile, PutStat, PutMark, WriteDiskFails, stored
<1>4. pending' \in BOOLEAN
  BY <1>1 DEF OfferFile, WriteDisk, WriteFile, PutStat, PutMark, WriteDiskFails
<1>5. cache' \in [Side -> Hash]
  <2>1. DeliverHash(r.data) \in Hash
    BY <1>1, FileHashes
  <2> QED BY <1>1, <2>1 DEF OfferFile, WriteDisk, PutStat, PutMark, WriteDiskFails, MarkProcessed
<1>6. UNCHANGED <<doc, since, meta, buf, pos, latest, edits>>
  BY DEF OfferFile, WriteDisk, WriteFile, PutStat, PutMark, WriteDiskFails, stored, feed, history
<1>7. faults' \in 0..MaxFaults
  BY DEF OfferFile, WriteDisk, PutStat, PutMark, WriteDiskFails, history, Fault, TypeInv, TypeOK
<1>8. thread' \in [Thread -> ThreadState] /\ mode' \in ModeType /\ Shape'
  BY <1>2, <1>6, MovedType
<1> QED BY <1>3, <1>4, <1>5, <1>6, <1>7, <1>8 DEF TypeInv, TypeOK, ModeType

LEMMA TypeFault ==
    ASSUME TypeInv, Crash \/ Disconnect
    PROVE  TypeInv'
<1>1. faults' \in 0..MaxFaults
  BY DEF Crash, Disconnect, Fault, TypeInv, TypeOK
<1>2. CASE Crash
  <2>1. Idle.pc = "idle" /\ NoHash \in Hash /\ "scan" \in Thread
    BY DEF Idle, Hash, Thread
  <2>2. /\ thread' \in [Thread -> ThreadState] /\ cache' \in [Side -> Hash]
        /\ thread'["scan"].pc = "idle"
    BY <1>2, <2>1, IdleType DEF Crash
  <2>3. mode' \in ModeType /\ mode'.db = "down"
    BY <1>2 DEF Crash, ModeType
  <2>4. buf' \in Seq([rev : Nat, body : File]) /\ pos' \in Nat
    BY <1>2, EmptySeq DEF Crash
  <2> QED BY <1>1, <1>2, <2>2, <2>3, <2>4 DEF Crash, TypeInv, TypeOK, Shape, ModeType, stored
<1>3. CASE Disconnect
  <2>1. mode' \in ModeType /\ mode'.fs = mode.fs
    BY <1>3 DEF Disconnect, TypeInv, TypeOK, ModeType
  <2> QED BY <1>1, <1>3, <2>1 DEF Disconnect, TypeInv, TypeOK, Shape, ModeType, stored, feed
<1> QED BY <1>2, <1>3

LEMMA TypeStep == TypeInv /\ [Next]_vars => TypeInv'
<1> SUFFICES ASSUME TypeInv, [Next]_vars
             PROVE  TypeInv'
  OBVIOUS
<1>1. CASE \E t \in Thread : ThreadStep(t) \/ ThreadFails(t)
  <2>1. PICK t \in Thread : ThreadStep(t) \/ ThreadFails(t)
    BY <1>1
  <2> QED BY <2>1, TypeDispatch, TypePutDoc, TypePutFile DEF ThreadStep, ThreadFails
<1>2. CASE UNCHANGED vars
  BY <1>2 DEF vars, TypeInv, TypeOK, Shape
<1> QED BY <1>1, <1>2, TypeEdit, TypeStart, TypeTimer, TypeFeed, TypeFault DEF Next

LEMMA TypeThread ==
    ASSUME TypeInv, NEW t \in Thread, ThreadStep(t) \/ ThreadFails(t)
    PROVE  TypeInv'
BY TypeDispatch, TypePutDoc, TypePutFile DEF ThreadStep, ThreadFails

(* Type correctness. *)
THEOREM TypeCorrect == Spec => []TypeOK
<1>1. TypeInv => TypeOK
  BY DEF TypeInv
<1> QED BY <1>1, TypeInit, TypeStep, PTL DEF Spec

-----------------------------------------------------------------------------
(* One edit at a time. *)

FileThread == {"scan", "timer"}

FilePC == {"idle", "read", "check", "mark", "dbcheck", "dbmark", "get", "put", "stat"}
FeedPC == {"idle", "seen", "check", "mark", "fscheck", "write", "pstat", "pmark", "done"}

Unsent   == doc.body # latest
Unwanted == disk # latest

(* How far Start is, and what it runs. *)
Phases ==
    /\ mode.fs = "down" <=> mode.db = "down"
    /\ thread["timer"].pc # "idle" \/ pending => mode.fs = "up"
    /\ thread["feed"].pc # "idle" => mode.db \in {"scan", "on"}
    /\ mode.db \in {"scan", "scanned"} => since = Unset

(* The goroutines of the storage peer carry the last edit.  They meet a conflict
   only where the revision could not be read. *)
FileGo(t) ==
    LET r == thread[t] IN
    /\ r.pc \in FilePC
    /\ r.pc = "idle" => r = Idle
    /\ r.side = "fs"
    /\ r.pc # "idle" => disk = latest
    /\ r.pc = "read" => disk # Absent
    /\ r.pc \notin {"idle", "read"} => r.data = latest /\ r.own = latest
    /\ r.tries <= faults
    /\ r.pc = "get" /\ r.data # Absent => r.rev = 0
    /\ r.pc = "put" => \/ Accepts(r) \/ Gone(r)
                      \/ /\ "reread" \in Faults /\ r.tries < faults
                         /\ r.data # Absent => r.rev = 0

(* So does that of the CouchDB peer. *)
FeedGo ==
    LET r == thread["feed"] IN
    /\ r.pc \in FeedPC
    /\ r.pc # "idle" => r.side = "db" /\ r.data = latest /\ doc.body = latest
    /\ r.pc \in {"pstat", "pmark"} => disk = latest

(* The rows of the feed are those of the last edit. *)
Rows ==
    /\ since \in Nat => since <= doc.rev
    /\ mode.db = "on" =>
          /\ pos <= doc.rev
          /\ buf # <<>> => doc.body = latest
          /\ \A i \in 1..Len(buf) : buf[i].body = latest /\ buf[i].rev <= doc.rev

(* What one side does not have yet, the other does not send back. *)
OneWay ==
    /\ disk = latest \/ doc.body = latest
    /\ pending => disk = latest
    /\ Unwanted => ~FileDetectable
    /\ Unsent => ~DocDetectable /\ (mode.db = "on" => pos = doc.rev)

(* Fewer reads fail than a document write has attempts: with one attempt on a
   revision read, no write ends in the resolution of a conflict, which could
   bring back an older version. *)
ReadsRetried == "reread" \in Faults => MaxFaults < MaxAttempts

SerialInv ==
    /\ TypeInv /\ Phases /\ (\A t \in FileThread : FileGo(t)) /\ FeedGo /\ Rows /\ OneWay

(* What a step of the bridge does to the file and the document: an edit stays
   the last one, and what changes becomes it. *)
Follows ==
    /\ latest' = latest
    /\ disk' \in {disk, latest} /\ doc'.body \in {doc.body, latest}

LEMMA Threads ==
    /\ Thread = FileThread \cup {"feed"} /\ "feed" \notin FileThread
    /\ "scan" \in FileThread /\ "timer" \in FileThread
    /\ \A t, u \in FileThread : t # u => {t, u} = FileThread
BY DEF Thread, FileThread

LEMMA IdleFields ==
    /\ Idle.pc = "idle" /\ Idle.side = "fs" /\ Idle.own = Absent /\ Idle.data = Absent
    /\ Idle.rev = 0 /\ Idle.tries = 0
BY DEF Idle

LEMMA Moves ==
    ASSUME TypeInv, NEW t \in Thread, NEW r, Move(t, r)
    PROVE  thread'[t] = r /\ \A u \in Thread \ {t} : thread'[u] = thread[u]
BY DEF TypeInv, TypeOK, Move

LEMMA Goes ==
    ASSUME TypeInv, NEW t \in Thread, NEW pc, Goto(t, pc)
    PROVE  /\ thread'[t].pc = pc /\ thread'[t].side = thread[t].side
           /\ thread'[t].own = thread[t].own /\ thread'[t].data = thread[t].data
           /\ thread'[t].rev = thread[t].rev /\ thread'[t].tries = thread[t].tries
           /\ \A u \in Thread \ {t} : thread'[u] = thread[u]
<1>1. thread[t] \in ThreadState
  BY DEF TypeInv, TypeOK
<1>2. thread'[t] = [thread[t] EXCEPT !.pc = pc] /\ \A u \in Thread \ {t} : thread'[u] = thread[u]
  BY Moves DEF Goto
<1> QED BY <1>1, <1>2 DEF ThreadState

LEMMA Leaves ==
    ASSUME TypeInv, NEW t \in Thread, Leave(t)
    PROVE  /\ thread'[t] = Idle /\ \A u \in Thread \ {t} : thread'[u] = thread[u]
           /\ t = "scan" => /\ mode'.db = mode.db
                            /\ mode.fs = "changes" => mode'.fs = "deletions"
                            /\ mode.fs = "deletions" => mode'.fs = "up"
           /\ t = "timer" => mode' = mode
           /\ t = "feed" => /\ mode'.fs = mode.fs
                            /\ mode'.db = IF mode.db = "scan" THEN "scanned" ELSE mode.db
<1>1. mode \in ModeType
  BY DEF TypeInv, TypeOK, ModeType
<1>2. thread'[t] = Idle /\ \A u \in Thread \ {t} : thread'[u] = thread[u]
  BY Moves DEF Leave
<1>3. t = "scan" => /\ mode'.db = mode.db
                    /\ mode.fs = "changes" => mode'.fs = "deletions"
                    /\ mode.fs = "deletions" => mode'.fs = "up"
  BY <1>1 DEF Leave, ModeType, NextMode
<1>4. t = "timer" => mode' = mode
  BY DEF Leave
<1>5. t = "feed" => /\ mode'.fs = mode.fs
                    /\ mode'.db = IF mode.db = "scan" THEN "scanned" ELSE mode.db
  BY <1>1 DEF Leave, ModeType
<1> QED BY <1>2, <1>3, <1>4, <1>5

LEMMA FaultsGrow ==
    ASSUME TypeInv, [Next]_vars
    PROVE  faults \in Nat /\ faults' \in Nat /\ faults <= faults'
<1>1. faults \in Nat
  BY DEF TypeInv, TypeOK
<1>2. faults' = faults \/ faults' = faults + 1
  <2>1. CASE \E t \in Thread : ThreadStep(t)
    BY <2>1 DEF ThreadStep, ReadFile, SeenBefore, CheckRepeating, Mark, DispatchDone, OwnStat,
       OfferDoc, MarkDoc, GetRev, PutDoc, DeleteGone, Conflict, KeepLocal, AcceptRemote,
       Unresolved, ForceDoc, OfferFile, WriteDisk, PutStat, PutMark, history
  <2>2. CASE \E t \in Thread : ThreadFails(t)
    BY <2>2 DEF ThreadFails, PutDocFails, LookupFails, RereadFails, WriteDiskFails, Fault
  <2>3. CASE Start \/ FireTimer \/ Feed \/ Crash \/ Disconnect
    BY <2>3 DEF Start, Boot, ScanChanges, ScanDeletions, ScanDocument, FinishScan, FireTimer,
       Feed, Connect, SendRow, TakeRow, Crash, Disconnect, Fault, history
  <2>4. CASE (\E f \in Edits : UserEdit(f) \/ RemoteEdit(f)) \/ UNCHANGED vars
    BY <2>4 DEF UserEdit, RemoteEdit, vars
  <2> QED BY <2>1, <2>2, <2>3, <2>4 DEF Next
<1> QED BY <1>1, <1>2

(* At most one goroutine of the storage peer dispatches. *)
LEMMA OneFileThread ==
    ASSUME SerialInv, NEW t \in FileThread, NEW u \in FileThread, t # u,
           thread[t].pc # "idle"
    PROVE  thread[u] = Idle
<1>1. thread["scan"].pc # "idle" => mode.fs # "up"
  BY DEF SerialInv, TypeInv, Shape
<1>2. thread["timer"].pc # "idle" => mode.fs = "up"
  BY DEF SerialInv, Phases
<1> QED BY <1>1, <1>2 DEF SerialInv, FileGo, FileThread

(* Goroutines that do not move. *)
LEMMA FileGoStays ==
    ASSUME SerialInv, [Next]_vars, Follows, NEW t \in FileThread, thread'[t] = thread[t],
           doc' = doc \/ thread[t].pc # "put"
    PROVE  FileGo(t)'
<1>1. thread[t].tries \in Nat /\ FileGo(t)
  BY Threads DEF SerialInv, TypeInv, TypeOK, ThreadState
<1>2. faults \in Nat /\ faults' \in Nat /\ faults <= faults'
  BY FaultsGrow DEF SerialInv
<1> QED BY <1>1, <1>2 DEF FileGo, Follows, Accepts, Gone

LEMMA FileGoIdle ==
    ASSUME SerialInv, [Next]_vars, NEW t \in FileThread, thread'[t] = Idle
    PROVE  FileGo(t)'
<1>1. faults' \in Nat
  BY FaultsGrow DEF SerialInv
<1> QED BY <1>1, IdleFields DEF FileGo, FilePC

LEMMA FeedGoStays ==
    ASSUME SerialInv, Follows, thread'["feed"] = thread["feed"]
    PROVE  FeedGo'
BY DEF SerialInv, FeedGo, Follows

LEMMA FeedGoIdle ==
    ASSUME thread'["feed"] = Idle
    PROVE  FeedGo'
BY IdleFields DEF FeedGo, FeedPC

LEMMA OneWayStays ==
    ASSUME SerialInv, UNCHANGED <<disk, stat, pending, doc, since, meta, pos, latest>>,
           mode'.db = "on" => mode.db = "on"
    PROVE  OneWay'
BY DEF SerialInv, OneWay, Unwanted, Unsent, FileDetectable, DocDetectable

LEMMA RowsStay ==
    ASSUME SerialInv, Follows, UNCHANGED <<since, buf, pos>>, doc'.rev \in Nat, doc'.rev >= doc.rev,
           mode'.db = "on" => mode.db = "on"
    PROVE  Rows'
<1>1. /\ doc.rev \in Nat /\ pos \in Nat
      /\ buf \in Seq([rev : Nat, body : File])
  BY DEF SerialInv, TypeInv, TypeOK
<1>2. ASSUME NEW i \in 1..Len(buf)
      PROVE  buf[i].rev \in Nat
  <2>1. buf[i] \in [rev : Nat, body : File]
    BY <1>1, ElementOfSeq
  <2> QED BY <2>1
<1>3. since' \in Nat => since' <= doc'.rev
  BY <1>1 DEF SerialInv, Rows
<1>4. ASSUME mode'.db = "on"
      PROVE  /\ pos' <= doc'.rev
             /\ buf' # <<>> => doc'.body = latest'
             /\ \A i \in 1..Len(buf') : buf'[i].body = latest' /\ buf'[i].rev <= doc'.rev
  BY <1>1, <1>2, <1>4 DEF SerialInv, Rows, Follows
<1> QED BY <1>3, <1>4 DEF Rows

(* A goroutine on its way goes on, and carries the last edit still. *)
LEMMA SerialMove ==
    ASSUME SerialInv, [Next]_vars, TypeInv', Follows, NEW t \in Thread, thread[t].pc # "idle",
           \A u \in Thread \ {t} : thread'[u] = thread[u],
           mode' = mode \/ Leave(t),
           t \in FileThread => FileGo(t)',
           t = "feed" => FeedGo',
           UNCHANGED <<since, buf, pos>>,
           doc' = doc \/ t \in FileThread, doc'.rev >= doc.rev,
           pending' => pending \/ mode.fs = "up",
           OneWay'
    PROVE  SerialInv'
<1>1. \A u \in FileThread : FileGo(u)'
  <2> SUFFICES ASSUME NEW u \in FileThread PROVE FileGo(u)'
    OBVIOUS
  <2>1. CASE u # t /\ t \in FileThread
    BY <2>1, OneFileThread, IdleFields, Threads, FileGoIdle
  <2>2. CASE u # t /\ t \notin FileThread
    BY <2>2, Threads, FileGoStays
  <2> QED BY <2>1, <2>2
<1>2. FeedGo'
  BY FeedGoStays, Threads
<1>3. /\ mode'.db = "on" => mode.db = "on"
      /\ mode'.db = "down" <=> mode.db = "down"
      /\ mode'.db \in {"scan", "scanned"} => mode.db \in {"scan", "scanned"}
      /\ t # "feed" => mode'.db = mode.db
      /\ t = "feed" => mode' = mode \/ thread'["feed"].pc = "idle"
      /\ mode'.fs = "down" <=> mode.fs = "down"
      /\ t # "scan" => mode'.fs = mode.fs
  <2>1. CASE Leave(t)
    <3>1. t = "scan" => mode.fs \in {"changes", "deletions"}
      BY DEF SerialInv, TypeInv, Shape
    <3>2. TypeInv
      BY DEF SerialInv
    <3> HIDE DEF TypeInv
    <3> QED BY <2>1, <3>1, <3>2, Leaves, IdleFields DEF Thread
  <2> QED BY <2>1
<1>4. Rows'
  BY <1>3, RowsStay DEF TypeInv, TypeOK
<1>5. Phases'
  <2>1. thread'["timer"].pc # "idle" \/ pending' => mode'.fs = "up"
    <3>1. CASE t = "scan"
      BY <3>1, Threads DEF SerialInv, TypeInv, Shape, Phases
    <3>2. CASE t = "timer"
      BY <3>2, <1>3 DEF SerialInv, Phases
    <3>3. CASE t = "feed"
      BY <3>3, <1>3, Threads DEF SerialInv, Phases
    <3> QED BY <3>1, <3>2, <3>3 DEF Thread
  <2>2. thread'["feed"].pc # "idle" => mode'.db \in {"scan", "on"}
    BY <1>3, Threads DEF SerialInv, Phases
  <2> QED BY <1>3, <2>1, <2>2 DEF SerialInv, Phases
<1> QED BY <1>1, <1>2, <1>4, <1>5 DEF SerialInv

(* What the goroutines of the storage peer do, and that of the CouchDB peer:
   no conflict is resolved. *)
FileStep(t) ==
    \/ ReadFile(t) \/ CheckRepeating(t) \/ Mark(t) \/ OwnStat(t)
    \/ OfferDoc(t) \/ MarkDoc(t) \/ GetRev(t) \/ PutDoc(t) \/ DeleteGone(t) \/ Conflict(t)
    \/ PutDocFails(t) \/ LookupFails(t) \/ RereadFails(t)

RowStep ==
    \/ SeenBefore("feed") \/ CheckRepeating("feed") \/ Mark("feed") \/ DispatchDone("feed")
    \/ OfferFile("feed") \/ WriteDisk("feed") \/ PutStat("feed") \/ PutMark("feed")
    \/ WriteDiskFails("feed")

LEMMA NoResolution ==
    ASSUME SerialInv, NEW t \in Thread, ThreadStep(t) \/ ThreadFails(t)
    PROVE  (t \in FileThread /\ FileStep(t)) \/ (t = "feed" /\ RowStep)
<1>1. CASE t \in FileThread
  <2>1. thread[t].pc \in FilePC
    BY <1>1 DEF SerialInv, FileGo
  <2>2. ~SeenBefore(t) /\ ~DispatchDone(t) /\ ~KeepLocal(t) /\ ~AcceptRemote(t) /\ ~Unresolved(t)
    BY <2>1 DEF FilePC, SeenBefore, DispatchDone, KeepLocal, AcceptRemote, Unresolved
  <2>3. ~ForceDoc(t) /\ ~OfferFile(t) /\ ~WriteDisk(t) /\ ~PutStat(t) /\ ~PutMark(t)
        /\ ~WriteDiskFails(t)
    BY <2>1 DEF FilePC, ForceDoc, OfferFile, WriteDisk, PutStat, PutMark, WriteDiskFails
  <2> QED BY <1>1, <2>2, <2>3 DEF ThreadStep, ThreadFails, FileStep
<1>2. CASE t = "feed"
  <2>1. thread["feed"].pc \in FeedPC
    BY DEF SerialInv, FeedGo
  <2>2. ~ReadFile("feed") /\ ~OwnStat("feed") /\ ~OfferDoc("feed") /\ ~MarkDoc("feed") /\ ~GetRev("feed")
        /\ ~PutDoc("feed") /\ ~DeleteGone("feed")
    BY <2>1 DEF FeedPC, ReadFile, OwnStat, OfferDoc, MarkDoc, GetRev, PutDoc, DeleteGone
  <2>3. ~Conflict("feed") /\ ~KeepLocal("feed") /\ ~AcceptRemote("feed") /\ ~Unresolved("feed")
        /\ ~ForceDoc("feed") /\ ~PutDocFails("feed") /\ ~LookupFails("feed") /\ ~RereadFails("feed")
    BY <2>1 DEF FeedPC, Conflict, KeepLocal, AcceptRemote, Unresolved, ForceDoc, PutDocFails,
       LookupFails, RereadFails
  <2> QED BY <1>2, <2>2, <2>3 DEF ThreadStep, ThreadFails, RowStep
<1> QED BY <1>1, <1>2, Threads

(* The steps that only move a goroutine, and what it remembers. *)
Quiet == UNCHANGED <<disk, stat, pending, doc, since, meta, buf, pos, latest>>

LEMMA SerialFile ==
    ASSUME SerialInv, ReadsRetried, NEW t \in FileThread, FileStep(t)
    PROVE  SerialInv' /\ Follows
<1> DEFINE r == thread[t]
<1>1. /\ t \in Thread /\ r \in ThreadState /\ doc \in [rev : Nat, body : File]
      /\ t # "feed" /\ TypeInv
  BY Threads DEF SerialInv, TypeInv, TypeOK
<1>2. /\ r.pc \in FilePC /\ r.side = "fs"
      /\ r.pc # "idle" => disk = latest
      /\ r.pc = "read" => disk # Absent
      /\ r.pc \notin {"idle", "read"} => r.data = latest /\ r.own = latest
      /\ r.pc = "get" /\ r.data # Absent => r.rev = 0
      /\ r.pc = "put" /\ ~Accepts(r) /\ ~Gone(r) =>
            /\ "reread" \in Faults /\ r.tries < faults
            /\ r.data # Absent => r.rev = 0
  BY DEF SerialInv, FileGo
<1>3. TypeInv' /\ [Next]_vars
  BY <1>1, TypeThread DEF FileStep, ThreadStep, ThreadFails, Next
<1>4. /\ faults \in Nat /\ faults' \in Nat /\ faults <= faults' /\ faults <= MaxFaults
       /\ r.tries \in Nat /\ r.tries <= faults /\ r.tries <= faults'
  <2>1. /\ faults \in Nat /\ faults' \in Nat /\ faults <= faults' /\ r.tries \in Nat
        /\ faults \in 0..MaxFaults
    BY <1>1, <1>3, FaultsGrow DEF ThreadState, TypeInv, TypeOK
  <2>2. r.tries <= faults
    BY DEF SerialInv, FileGo
  <2> QED BY <2>1, <2>2
<1>5. ASSUME r.pc # "idle", Quiet, FileGo(t)', Leave(t) \/ mode' = mode,
             \A u \in Thread \ {t} : thread'[u] = thread[u]
      PROVE  SerialInv' /\ Follows
  <2>1. Follows
    BY <1>5 DEF Quiet, Follows
  <2>2. mode'.db = mode.db
    BY <1>1, <1>5, Leaves, Threads DEF FileThread
  <2>3. OneWay'
    BY <1>5, <2>2, OneWayStays DEF Quiet
  <2>4. doc'.rev >= doc.rev
    BY <1>1, <1>5 DEF Quiet
  <2> QED BY <1>1, <1>3, <1>5, <2>1, <2>3, <2>4, SerialMove DEF Quiet
<1>6. CASE ReadFile(t)
  <2> DEFINE s == [r EXCEPT !.pc = "check", !.own = disk, !.data = disk]
  <2>1. Move(t, s) /\ mode' = mode /\ Quiet /\ r.pc = "read" /\ disk = latest
    BY <1>2, <1>6 DEF ReadFile, Quiet, stored, feed, history
  <2>2. s.pc = "check" /\ s.own = disk /\ s.data = disk /\ s.side = "fs" /\ s.tries = r.tries
    BY <1>1, <1>2 DEF ThreadState
  <2> HIDE DEF s
  <2>3. FileGo(t)'
    BY <1>1, <1>4, <2>1, <2>2, Moves DEF FileGo, FilePC, Quiet
  <2> QED BY <1>1, <1>5, <2>1, <2>3, Moves
<1>7. CASE CheckRepeating(t) \/ Mark(t) \/ OfferDoc(t)
  <2>1. PICK pc \in {"mark", "stat", "dbcheck", "dbmark"} : Goto(t, pc)
    BY <1>2, <1>7 DEF CheckRepeating, Mark, OfferDoc
  <2>2. mode' = mode /\ Quiet /\ r.pc \in {"check", "mark", "dbcheck"}
    BY <1>7 DEF CheckRepeating, Mark, OfferDoc, Quiet, stored, feed, history
  <2>3. FileGo(t)'
    BY <1>1, <1>2, <1>4, <2>1, <2>2, Goes DEF FileGo, FilePC, Quiet
  <2> QED BY <1>1, <1>5, <2>1, <2>2, <2>3, Goes
<1>8. CASE MarkDoc(t) \/ LookupFails(t)
  <2>1. mode' = mode /\ Quiet /\ r.pc = "dbmark"
    BY <1>8 DEF MarkDoc, LookupFails, Quiet, stored, feed, history
  <2>2. CASE Goto(t, "stat")
    <3>1. FileGo(t)'
      BY <1>1, <1>2, <1>4, <2>1, <2>2, Goes DEF FileGo, FilePC, Quiet
    <3> QED BY <1>1, <1>5, <2>1, <2>2, <3>1, Goes
  <2>3. CASE ~Goto(t, "stat")
    <3> DEFINE s == [r EXCEPT !.pc = "get", !.rev = IF r.data = Absent THEN doc.rev ELSE 0]
    <3>1. Move(t, s)
      BY <1>8, <2>3 DEF MarkDoc, LookupFails
    <3>2. /\ s.pc = "get" /\ s.own = r.own /\ s.data = r.data /\ s.side = "fs"
          /\ s.tries = r.tries /\ (s.data # Absent => s.rev = 0)
      BY <1>1, <1>2 DEF ThreadState
    <3> HIDE DEF s
    <3>3. FileGo(t)'
      BY <1>1, <1>2, <1>4, <2>1, <3>1, <3>2, Moves DEF FileGo, FilePC, Quiet
    <3> QED BY <1>1, <1>5, <2>1, <3>1, <3>3, Moves
  <2> QED BY <2>2, <2>3
<1>9. CASE GetRev(t)
  <2> DEFINE s == [r EXCEPT !.pc = "put", !.rev = IF doc.body = Absent THEN r.rev ELSE doc.rev]
  <2>1. Move(t, s) /\ mode' = mode /\ Quiet /\ r.pc = "get"
    BY <1>9 DEF GetRev, Quiet, stored, feed, history
  <2>2. /\ s.pc = "put" /\ s.own = r.own /\ s.data = r.data /\ s.side = "fs"
        /\ s.tries = r.tries
        /\ doc.body = Absent => s.rev = r.rev
        /\ doc.body # Absent => s.rev = doc.rev
    BY <1>1, <1>2 DEF ThreadState
  <2> HIDE DEF s
  <2>3. Accepts(s) \/ Gone(s)
    BY <1>2, <2>1, <2>2 DEF Accepts, Gone
  <2>4. FileGo(t)'
    BY <1>1, <1>2, <1>4, <2>1, <2>2, <2>3, Moves DEF FileGo, FilePC, Quiet, Accepts, Gone
  <2> QED BY <1>1, <1>5, <2>1, <2>4, Moves
<1>10. CASE RereadFails(t)
  <2>1. Goto(t, "put") /\ mode' = mode /\ Quiet /\ r.pc = "get" /\ "reread" \in Faults
        /\ faults' = faults + 1
    BY <1>2, <1>10 DEF RereadFails, FilePC, Fault, Quiet, stored, feed
  <2>2. r.tries < faults'
    BY <1>4, <2>1
  <2>3. FileGo(t)'
    BY <1>1, <1>2, <1>4, <2>1, <2>2, Goes DEF FileGo, FilePC, Quiet
  <2> QED BY <1>1, <1>5, <2>1, <2>3, Goes
<1>11. CASE Conflict(t)
  <2> DEFINE s == [r EXCEPT !.tries = @ + 1, !.pc = "get"]
  <2>1. /\ mode' = mode /\ Quiet /\ r.pc = "put" /\ r.tries < faults /\ "reread" \in Faults
        /\ r.data # Absent => r.rev = 0
    BY <1>2, <1>11 DEF Conflict, Quiet, stored, feed, history
  <2>2. r.tries + 1 < MaxAttempts
    BY <1>4, <2>1 DEF ReadsRetried
  <2>3. Move(t, s)
    BY <1>11, <2>2 DEF Conflict
  <2>4. /\ s.pc = "get" /\ s.own = r.own /\ s.data = r.data /\ s.side = "fs" /\ s.rev = r.rev
        /\ s.tries = r.tries + 1
    BY <1>1, <1>2 DEF ThreadState
  <2> HIDE DEF s
  <2>5. s.tries <= faults'
    BY <1>4, <2>1, <2>4
  <2>6. FileGo(t)'
    BY <1>1, <1>2, <2>1, <2>3, <2>4, <2>5, Moves DEF FileGo, FilePC, Quiet
  <2> QED BY <1>1, <1>5, <2>1, <2>3, <2>6, Moves
<1>12. CASE DeleteGone(t) \/ PutDocFails(t)
  <2>1. Leave(t) /\ Quiet /\ r.pc # "idle"
    BY <1>12 DEF DeleteGone, PutDocFails, Quiet, stored, feed, history
  <2>2. FileGo(t)'
    BY <1>1, <1>3, <2>1, Leaves, FileGoIdle
  <2> QED BY <1>1, <1>5, <2>1, <2>2, Leaves
<1>13. CASE OwnStat(t)
  <2>1. Leave(t) /\ UNCHANGED <<disk, since, meta, pending, doc, buf, pos, latest>> /\ r.pc = "stat"
    BY <1>13 DEF OwnStat, feed, history
  <2>2. FileGo(t)' /\ mode'.db = mode.db /\ \A u \in Thread \ {t} : thread'[u] = thread[u]
    BY <1>1, <1>3, <2>1, Leaves, FileGoIdle, Threads DEF FileThread
  <2>3. Follows /\ doc'.rev >= doc.rev
    BY <1>1, <2>1 DEF Follows
  <2>4. OneWay'
    BY <1>2, <2>1, <2>2 DEF SerialInv, OneWay, Unwanted, Unsent, DocDetectable
  <2> QED BY <1>1, <1>3, <2>1, <2>2, <2>3, <2>4, SerialMove
<1>14. CASE PutDoc(t)
  <2>1. /\ Goto(t, "stat") /\ UNCHANGED <<disk, stat, since, meta, pending, buf, pos, latest, mode>>
        /\ r.pc = "put" /\ WriteDoc(latest)
    BY <1>2, <1>14 DEF PutDoc, stored, feed, history
  <2>2. FileGo(t)'
    BY <1>1, <1>2, <1>4, <2>1, Goes DEF FileGo, FilePC
  <2>3. doc'.body = latest /\ doc'.rev >= doc.rev
    BY <1>1, <2>1 DEF WriteDoc
  <2>4. Follows
    BY <2>1, <2>3 DEF Follows
  <2>5. OneWay'
    BY <1>2, <2>1, <2>3 DEF SerialInv, OneWay, Unwanted, Unsent
  <2> QED BY <1>1, <1>3, <2>1, <2>2, <2>3, <2>4, <2>5, SerialMove, Goes
<1> QED BY <1>6, <1>7, <1>8, <1>9, <1>12, <1>13, <1>14, <1>10, <1>11 DEF FileStep

LEMMA SerialRow ==
    ASSUME SerialInv, RowStep
    PROVE  SerialInv' /\ Follows
<1> DEFINE r == thread["feed"]
<1>1. /\ "feed" \in Thread /\ r \in ThreadState /\ doc \in [rev : Nat, body : File]
      /\ "feed" \notin FileThread /\ TypeInv
  BY Threads DEF SerialInv, TypeInv, TypeOK
<1>2. /\ r.pc \in FeedPC
      /\ r.pc # "idle" => r.side = "db" /\ r.data = latest /\ doc.body = latest
      /\ r.pc \in {"pstat", "pmark"} => disk = latest
  BY DEF SerialInv, FeedGo
<1>3. TypeInv' /\ [Next]_vars
  BY <1>1, TypeThread DEF RowStep, ThreadStep, ThreadFails, Next
<1>4. ASSUME r.pc # "idle", Follows, FeedGo', OneWay', Leave("feed") \/ mode' = mode,
             \A u \in Thread \ {"feed"} : thread'[u] = thread[u],
             UNCHANGED <<doc, since, buf, pos>>, pending' => pending \/ mode.fs = "up"
      PROVE  SerialInv' /\ Follows
  <2>1. doc'.rev >= doc.rev
    BY <1>1, <1>4
  <2> QED BY <1>1, <1>3, <1>4, <2>1, SerialMove
<1>5. CASE \/ SeenBefore("feed") \/ CheckRepeating("feed") \/ Mark("feed") \/ OfferFile("feed")
           \/ PutMark("feed") \/ WriteDiskFails("feed")
  <2>1. Quiet /\ r.pc # "idle"
    BY <1>5 DEF SeenBefore, CheckRepeating, Mark, OfferFile, PutMark, WriteDiskFails, Quiet,
         stored, feed, history
  <2>2. \/ Leave("feed")
        \/ mode' = mode /\ \E pc \in {"check", "mark", "done", "fscheck", "write"} : Goto("feed", pc)
    BY <1>2, <1>5 DEF SeenBefore, CheckRepeating, Mark, OfferFile, PutMark, WriteDiskFails
  <2>3. Follows
    BY <2>1 DEF Quiet, Follows
  <2>4. FeedGo' /\ \A u \in Thread \ {"feed"} : thread'[u] = thread[u]
    <3>1. CASE Leave("feed")
      BY <1>1, <3>1, Leaves, FeedGoIdle
    <3>2. ASSUME NEW pc \in {"check", "mark", "done", "fscheck", "write"}, Goto("feed", pc)
          PROVE  FeedGo' /\ \A u \in Thread \ {"feed"} : thread'[u] = thread[u]
      BY <1>1, <1>2, <2>1, <3>2, Goes DEF FeedGo, FeedPC, Quiet
    <3> QED BY <2>2, <3>1, <3>2
  <2>5. mode'.db = "on" => mode.db = "on"
    BY <1>1, <2>2, Leaves
  <2>6. OneWay'
    BY <2>1, <2>5, OneWayStays DEF Quiet
  <2> QED BY <1>4, <2>1, <2>2, <2>3, <2>4, <2>6 DEF Quiet
<1>6. CASE DispatchDone("feed")
  <2>1. Leave("feed") /\ UNCHANGED <<disk, stat, since, pending, doc, buf, pos, latest>> /\ r.pc = "done"
    BY <1>6 DEF DispatchDone, feed, history
  <2>2. FeedGo' /\ \A u \in Thread \ {"feed"} : thread'[u] = thread[u]
    BY <1>1, <2>1, Leaves, FeedGoIdle
  <2>3. Follows
    BY <2>1 DEF Follows
  <2>4. OneWay'
    BY <1>2, <2>1 DEF SerialInv, OneWay, Unwanted, Unsent, FileDetectable
  <2> QED BY <1>4, <2>1, <2>2, <2>3, <2>4
<1>7. CASE WriteDisk("feed")
  <2>1. PICK pc \in {"done", "pstat"} : Goto("feed", pc)
    BY <1>7 DEF WriteDisk
  <2>2. UNCHANGED <<since, meta, doc, buf, pos, mode, latest>> /\ r.pc = "write"
    BY <1>7 DEF WriteDisk, feed, history
  <2>3. disk' = latest /\ (pending' => pending \/ mode.fs = "up")
    BY <1>2, <1>7 DEF WriteDisk, WriteFile
  <2>4. FeedGo' /\ \A u \in Thread \ {"feed"} : thread'[u] = thread[u]
    BY <1>1, <1>2, <2>1, <2>2, <2>3, Goes DEF FeedGo, FeedPC
  <2>5. Follows
    BY <2>2, <2>3 DEF Follows
  <2>6. OneWay'
    BY <1>2, <2>2, <2>3 DEF OneWay, Unwanted, Unsent
  <2> QED BY <1>4, <2>2, <2>3, <2>4, <2>5, <2>6
<1>8. CASE PutStat("feed")
  <2>1. /\ Goto("feed", "pmark") /\ r.pc = "pstat"
        /\ UNCHANGED <<disk, since, meta, pending, doc, buf, pos, mode, latest>>
    BY <1>8 DEF PutStat, feed, history
  <2>2. FeedGo' /\ \A u \in Thread \ {"feed"} : thread'[u] = thread[u]
    BY <1>1, <1>2, <2>1, Goes DEF FeedGo, FeedPC
  <2>3. Follows
    BY <2>1 DEF Follows
  <2>4. OneWay'
    BY <1>2, <2>1 DEF SerialInv, OneWay, Unwanted, Unsent
  <2> QED BY <1>4, <2>1, <2>2, <2>3, <2>4
<1> QED BY <1>5, <1>6, <1>7, <1>8 DEF RowStep

(* Edits are made when everything is at rest and has the edit before. *)
LEMMA RestingThreads ==
    ASSUME SerialInv, AtRest
    PROVE  /\ \A t \in FileThread : thread[t] = Idle
           /\ thread["feed"].pc = "idle" /\ ~pending
           /\ mode.db = "on" => buf = <<>> /\ pos = doc.rev
BY Threads DEF AtRest, Stopped, SerialInv, FileGo

LEMMA SerialEdit ==
    ASSUME SerialInv, Editing = "serial", NEW f \in Edits, UserEdit(f) \/ RemoteEdit(f)
    PROVE  SerialInv'
<1>1. /\ AtRest /\ disk = latest /\ doc.body = latest /\ ~FileDetectable /\ ~DocDetectable
      /\ latest' = f
  BY DEF UserEdit, RemoteEdit, Edited, MayEdit, Settled
<1>2. /\ \A t \in FileThread : thread[t] = Idle
      /\ thread["feed"].pc = "idle" /\ ~pending
      /\ mode.db = "on" => buf = <<>> /\ pos = doc.rev
  BY <1>1, RestingThreads
<1>3. UNCHANGED <<since, meta, buf, pos, mode, thread>>
  BY DEF UserEdit, RemoteEdit, stored, feed
<1>4. TypeInv' /\ TypeInv
  BY TypeEdit DEF SerialInv
<1>5. \A t \in FileThread : FileGo(t)'
  BY <1>2, <1>3, FileGoIdle DEF Next
<1>6. FeedGo'
  BY <1>2, <1>3 DEF FeedGo, FeedPC
<1>7. /\ doc.rev \in Nat /\ doc'.rev \in Nat /\ doc'.rev >= doc.rev /\ pos \in Nat
      /\ UserEdit(f) => doc' = doc /\ disk' = f /\ (pending' <=> mode.fs = "up")
      /\ RemoteEdit(f) => doc'.body = f /\ disk' = disk /\ stat' = stat /\ pending' = pending
  BY <1>2, <1>4 DEF UserEdit, RemoteEdit, WriteDoc, WriteFile, stored, TypeInv, TypeOK
<1>8. Rows'
  BY <1>2, <1>3, <1>7 DEF Rows, SerialInv
<1>9. Phases'
  BY <1>2, <1>3, <1>7 DEF SerialInv, Phases
<1>10. OneWay'
  <2>1. CASE UserEdit(f)
    <3>1. ~DocDetectable'
      BY <1>1, <1>3, <1>7, <2>1 DEF DocDetectable
    <3> QED BY <1>1, <1>2, <1>3, <1>7, <2>1, <3>1 DEF OneWay, Unwanted, Unsent
  <2>2. CASE RemoteEdit(f)
    <3>1. ~FileDetectable'
      BY <1>1, <1>7, <2>2 DEF FileDetectable
    <3> QED BY <1>1, <1>2, <1>3, <1>7, <2>2, <3>1 DEF OneWay, Unwanted, Unsent
  <2> QED BY <2>1, <2>2
<1> QED BY <1>4, <1>5, <1>6, <1>8, <1>9, <1>10 DEF SerialInv

(* A goroutine that starts has a reason, and that is the last edit. *)
LEMMA SerialScans ==
    ASSUME SerialInv, ScanChanges \/ ScanDeletions
    PROVE  SerialInv'
<1> DEFINE r == thread["scan"]
<1>1. /\ "scan" \in Thread /\ "scan" \in FileThread /\ r \in ThreadState /\ TypeInv
      /\ doc \in [rev : Nat, body : File] /\ "feed" \in Thread \ {"scan"} /\ "timer" \in Thread \ {"scan"}
  BY Threads DEF SerialInv, TypeInv, TypeOK
<1>2. TypeInv'
  BY <1>1, TypeStart DEF Start
<1>3. Quiet /\ r = Idle /\ mode.fs \in {"changes", "deletions"}
  BY <1>1 DEF ScanChanges, ScanDeletions, Quiet, stored, feed, history, SerialInv, FileGo
<1>4. Follows
  BY <1>3 DEF Quiet, Follows
<1>5. /\ \A u \in Thread \ {"scan"} : thread'[u] = thread[u]
      /\ mode'.db = mode.db /\ mode'.fs \notin {"down"}
  <2>1. CASE Leave("scan")
    BY <1>1, <1>3, <2>1, Leaves
  <2>2. CASE UNCHANGED mode /\ (Goto("scan", "read") \/ Goto("scan", "check"))
    BY <1>1, <1>3, <2>2, Goes
  <2> QED BY <2>1, <2>2 DEF ScanChanges, ScanDeletions
<1>12. [Next]_vars /\ faults' \in Nat
  BY <1>1, FaultsGrow DEF Next, Start
<1>6. FileGo("scan")'
  <2>1. CASE Leave("scan")
    BY <1>1, <1>12, <2>1, Leaves, FileGoIdle
  <2>2. CASE ~Leave("scan")
    <3>1. /\ disk = latest
          /\ \/ Goto("scan", "read") /\ disk # Absent
             \/ Goto("scan", "check") /\ disk = Absent
      BY <2>2 DEF ScanChanges, ScanDeletions, SerialInv, OneWay, FileDetectable, Unwanted
    <3>2. disk' = disk /\ latest' = latest
      BY <1>3 DEF Quiet
    <3>3. CASE Goto("scan", "read") /\ disk # Absent
      BY <1>1, <1>3, <1>12, <3>1, <3>2, <3>3, Goes, IdleFields DEF FileGo, FilePC
    <3>4. CASE Goto("scan", "check") /\ disk = Absent
      BY <1>1, <1>3, <1>12, <3>1, <3>2, <3>4, Goes, IdleFields DEF FileGo, FilePC
    <3> QED BY <3>1, <3>3, <3>4
  <2> QED BY <2>1, <2>2
<1>7. FileGo("timer")'
  BY <1>3, <1>4, <1>5, <1>12, FileGoStays, Threads DEF Quiet
<1>8. FeedGo'
  BY <1>4, <1>5, FeedGoStays, Threads
<1>9. Rows'
  BY <1>1, <1>3, <1>4, <1>5, RowsStay DEF Quiet
<1>10. OneWay'
  BY <1>3, <1>5, OneWayStays DEF Quiet
<1>11. Phases'
  BY <1>1, <1>3, <1>5 DEF SerialInv, Phases, Quiet
<1> QED BY <1>2, <1>6, <1>7, <1>8, <1>9, <1>10, <1>11 DEF SerialInv, FileThread

LEMMA SerialStart ==
    ASSUME SerialInv, Boot \/ ScanDocument \/ FinishScan
    PROVE  SerialInv'
<1>1. /\ "feed" \in Thread /\ TypeInv /\ doc \in [rev : Nat, body : File]
      /\ since \in Nat \cup {Unset, Now} /\ mode \in ModeType /\ "feed" \notin FileThread
  BY Threads DEF SerialInv, TypeInv, TypeOK, ModeType
<1>2. TypeInv'
  BY <1>1, TypeStart DEF Start
<1>3. UNCHANGED <<disk, stat, meta, pending, doc, buf, pos, latest>>
  BY DEF Boot, ScanDocument, FinishScan, stored, feed, history
<1>4. Follows /\ doc'.rev >= doc.rev
  BY <1>1, <1>3 DEF Follows
<1>5. \A t \in Thread \ {"feed"} : thread'[t] = thread[t]
  <2>1. CASE ScanDocument
    BY <1>1, <2>1, Leaves, Moves DEF ScanDocument
  <2> QED BY <2>1 DEF Boot, FinishScan
<1>6. \A t \in FileThread : FileGo(t)'
  BY <1>3, <1>4, <1>5, FileGoStays, Threads DEF Next, Start
<1>7. CASE Boot
  <2>1. /\ UNCHANGED <<since, thread>> /\ mode'.fs = "changes" /\ mode.fs = "down" /\ mode.db = "down"
        /\ mode'.db = IF since = Unset THEN "scan" ELSE "off"
    BY <1>7 DEF Boot, Stopped, stored
  <2>2. Phases'
    BY <1>3, <2>1 DEF SerialInv, Phases
  <2>3. Rows'
    BY <1>1, <1>3, <1>4, <2>1, RowsStay
  <2>4. OneWay'
    BY <1>3, <2>1, OneWayStays
  <2>5. FeedGo'
    BY <1>4, <2>1, FeedGoStays
  <2> QED BY <1>2, <1>6, <2>2, <2>3, <2>4, <2>5 DEF SerialInv
<1>8. CASE ScanDocument
  <2>1. UNCHANGED since /\ mode.db = "scan" /\ since = Unset
    BY <1>8 DEF ScanDocument, stored, SerialInv, Phases
  <2>2. mode'.fs = mode.fs /\ (mode' = mode \/ (mode'.db = "scanned" /\ thread'["feed"] = Idle))
    BY <1>1, <1>8, Leaves DEF ScanDocument
  <2>3. FeedGo'
    <3>1. CASE thread'["feed"] = Idle
      BY <3>1, FeedGoIdle
    <3>2. CASE thread'["feed"] # Idle
      <4>1. Move("feed", Row(doc)) /\ doc.body # Absent /\ meta # doc.rev
        BY <1>1, <1>8, <3>2, Leaves DEF ScanDocument
      <4>2. doc.body = latest
        BY <2>1, <4>1 DEF SerialInv, OneWay, DocDetectable, Unsent
      <4>3. thread'["feed"] = Row(doc)
        BY <1>1, <4>1, Moves
      <4>4. Row(doc).pc = "seen" /\ Row(doc).side = "db" /\ Row(doc).data = doc.body
        BY DEF Row, Idle
      <4> QED BY <1>3, <4>2, <4>3, <4>4 DEF FeedGo, FeedPC
    <3> QED BY <3>1, <3>2
  <2>4. Phases'
    BY <1>3, <1>5, <2>1, <2>2, Threads, IdleFields DEF SerialInv, Phases
  <2>5. Rows'
    BY <1>1, <1>3, <1>4, <2>1, <2>2, RowsStay
  <2>6. OneWay'
    BY <1>3, <2>1, <2>2, OneWayStays
  <2> QED BY <1>2, <1>6, <2>3, <2>4, <2>5, <2>6 DEF SerialInv
<1>9. CASE FinishScan
  <2>1. /\ since' = Now /\ mode.db = "scanned" /\ mode'.db = "off" /\ mode'.fs = mode.fs
        /\ thread' = thread
    BY <1>1, <1>9 DEF FinishScan, ModeType
  <2>2. Phases'
    BY <1>3, <2>1 DEF SerialInv, Phases
  <2>3. Rows'
    BY <2>1 DEF Rows
  <2>4. OneWay'
    BY <1>3, <2>1 DEF SerialInv, OneWay, Unwanted, Unsent, FileDetectable, DocDetectable
  <2>5. FeedGo'
    BY <1>4, <2>1, FeedGoStays
  <2> QED BY <1>2, <1>6, <2>2, <2>3, <2>4, <2>5 DEF SerialInv
<1> QED BY <1>7, <1>8, <1>9

LEMMA SerialTimer ==
    ASSUME SerialInv, FireTimer
    PROVE  SerialInv'
<1> DEFINE r == thread["timer"]
<1>1. /\ "timer" \in Thread /\ "timer" \in FileThread /\ r \in ThreadState /\ TypeInv
      /\ doc \in [rev : Nat, body : File] /\ "feed" \in Thread \ {"timer"} /\ "scan" \in Thread \ {"timer"}
  BY Threads DEF SerialInv, TypeInv, TypeOK
<1>2. TypeInv'
  BY <1>1, TypeTimer
<1>3. /\ UNCHANGED <<disk, stat, doc, since, meta, buf, pos, mode, latest>>
      /\ r = Idle /\ pending /\ ~pending'
  BY <1>1 DEF FireTimer, stored, feed, history, SerialInv, FileGo
<1>4. Follows /\ doc'.rev >= doc.rev
  BY <1>1, <1>3 DEF Follows
<1>5. disk = latest /\ mode.fs = "up"
  BY <1>3 DEF SerialInv, OneWay, Phases
<1>13. [Next]_vars /\ faults' \in Nat
  BY <1>1, FaultsGrow DEF Next
<1>6. FileGo("timer")'
  <2>1. CASE disk = Absent
    BY <1>1, <1>3, <1>5, <1>13, <2>1, Goes, IdleFields DEF FireTimer, FileGo, FilePC
  <2>2. CASE disk # Absent
    BY <1>1, <1>3, <1>5, <1>13, <2>2, Goes, IdleFields DEF FireTimer, FileGo, FilePC
  <2> QED BY <2>1, <2>2
<1>7. \A u \in Thread \ {"timer"} : thread'[u] = thread[u]
  BY <1>1, Goes DEF FireTimer
<1>8. FileGo("scan")'
  BY <1>3, <1>4, <1>7, <1>13, FileGoStays, Threads
<1>9. FeedGo'
  BY <1>4, <1>7, FeedGoStays, Threads
<1>10. Rows'
  BY <1>1, <1>3, <1>4, RowsStay
<1>11. OneWay'
  BY <1>3 DEF SerialInv, OneWay, Unwanted, Unsent, FileDetectable, DocDetectable
<1>12. Phases'
  BY <1>3, <1>5, <1>7, Threads DEF SerialInv, Phases
<1> QED BY <1>2, <1>6, <1>8, <1>9, <1>10, <1>11, <1>12 DEF SerialInv, FileThread

(* The feed is opened where nothing is missing unless the document has the
   last edit, and sends only that. *)
LEMMA SerialFeed ==
    ASSUME SerialInv, Feed
    PROVE  SerialInv'
<1>1. /\ "feed" \in Thread /\ "feed" \notin FileThread /\ TypeInv
      /\ doc \in [rev : Nat, body : File] /\ buf \in Seq([rev : Nat, body : File])
      /\ pos \in Nat /\ since \in Nat \cup {Unset, Now} /\ mode \in ModeType
  BY Threads DEF SerialInv, TypeInv, TypeOK, ModeType
<1>2. TypeInv'
  BY <1>1, TypeFeed
<1>3. UNCHANGED <<disk, stat, meta, pending, doc, latest>>
  BY DEF Feed, Connect, SendRow, TakeRow, stored, history
<1>4. Follows
  BY <1>3 DEF Follows
<1>5. \A t \in Thread \ {"feed"} : thread'[t] = thread[t]
  BY <1>1, Moves DEF Feed, Connect, SendRow, TakeRow
<1>6. \A t \in FileThread : FileGo(t)'
  BY <1>3, <1>4, <1>5, FileGoStays, Threads DEF Next
<1>7. CASE Connect
  <2>1. /\ UNCHANGED <<since, thread>> /\ mode.db = "off" /\ mode'.db = "on" /\ mode'.fs = mode.fs
        /\ buf' = <<>> /\ pos' = IF since = Now THEN doc.rev ELSE since
    BY <1>1, <1>7 DEF Connect, stored, ModeType
  <2>2. since # Unset
    BY <2>1 DEF SerialInv, TypeInv, Shape
  <2>3. Phases'
    BY <1>3, <2>1 DEF SerialInv, Phases
  <2>4. Rows'
    BY <1>1, <1>3, <2>1, <2>2 DEF SerialInv, Rows
  <2>5. OneWay'
    <3>1. ASSUME Unsent PROVE pos' = doc.rev
      <4>1. ~DocDetectable /\ (since \in Nat => since <= doc.rev)
        BY <3>1 DEF SerialInv, OneWay, Rows
      <4>2. CASE since = Now
        BY <2>1, <4>2
      <4>3. CASE since # Now
        <5>1. since \in Nat
          BY <1>1, <2>2, <4>3
        <5>2. ~(since < doc.rev)
          BY <2>2, <4>1, <4>3 DEF DocDetectable
        <5> QED BY <1>1, <2>1, <4>1, <4>3, <5>1, <5>2
      <4> QED BY <4>2, <4>3
    <3> QED BY <1>3, <2>1, <3>1 DEF SerialInv, OneWay, Unwanted, Unsent, FileDetectable, DocDetectable
  <2>6. FeedGo'
    BY <1>4, <2>1, FeedGoStays
  <2> QED BY <1>2, <1>6, <2>3, <2>4, <2>5, <2>6 DEF SerialInv
<1>8. CASE SendRow
  <2>1. /\ UNCHANGED <<since, thread, mode>> /\ mode.db = "on" /\ pos # doc.rev
        /\ buf' = Append(buf, doc) /\ pos' = doc.rev
    BY <1>1, <1>8 DEF SendRow, stored
  <2>2. doc.body = latest
    BY <2>1 DEF SerialInv, OneWay, Unsent
  <2>3. Phases'
    BY <1>3, <2>1 DEF SerialInv, Phases
  <2>4. Rows'
    <3>1. \A i \in 1..Len(buf) : buf[i].body = latest /\ buf[i].rev <= doc.rev
      BY <2>1 DEF SerialInv, Rows
    <3>2. /\ Len(buf') = Len(buf) + 1 /\ Len(buf) \in Nat
          /\ \A i \in 1..Len(buf) : buf'[i] = buf[i]
          /\ buf'[Len(buf) + 1] = doc
      BY <1>1, <2>1, AppendProperties, LenProperties
    <3>3. ASSUME NEW i \in 1..Len(buf')
          PROVE  buf'[i].body = latest /\ buf'[i].rev <= doc.rev
      <4>1. CASE i \in 1..Len(buf)
        BY <3>1, <3>2, <4>1
      <4>2. CASE i \notin 1..Len(buf)
        <5>1. i = Len(buf) + 1
          BY <3>2, <4>2
        <5> QED BY <1>1, <2>2, <3>2, <5>1
      <4> QED BY <4>1, <4>2
    <3>4. since \in Nat => since <= doc.rev
      BY DEF SerialInv, Rows
    <3> QED BY <1>1, <1>3, <2>1, <2>2, <3>3, <3>4 DEF Rows
  <2>5. OneWay'
    BY <1>3, <2>1, <2>2 DEF SerialInv, OneWay, Unwanted, Unsent, FileDetectable, DocDetectable
  <2>6. FeedGo'
    BY <1>4, <2>1, FeedGoStays
  <2> QED BY <1>2, <1>6, <2>3, <2>4, <2>5, <2>6 DEF SerialInv
<1>9. CASE TakeRow
  <2> DEFINE d == Head(buf)
  <2>1. /\ UNCHANGED <<mode, pos>> /\ mode.db = "on" /\ buf # <<>>
        /\ since' = d.rev /\ buf' = Tail(buf)
        /\ thread["feed"].pc = "idle"
        /\ thread' = thread \/ Move("feed", Row(d))
    BY <1>9 DEF TakeRow
  <2>2. /\ doc.body = latest /\ pos <= doc.rev
        /\ \A i \in 1..Len(buf) : buf[i].body = latest /\ buf[i].rev <= doc.rev
    BY <2>1 DEF SerialInv, Rows
  <2>3. /\ d = buf[1] /\ 1 \in 1..Len(buf) /\ d \in [rev : Nat, body : File]
        /\ Len(Tail(buf)) = Len(buf) - 1 /\ \A i \in 1..Len(Tail(buf)) : Tail(buf)[i] = buf[i + 1]
    <3>1. d \in [rev : Nat, body : File] /\ Len(Tail(buf)) = Len(buf) - 1
      BY <1>1, <2>1, HeadTailProperties
    <3>2. Len(buf) \in Nat /\ Len(buf) # 0
      BY <1>1, <2>1, EmptySeq, LenProperties
    <3>3. 1 \in 1..Len(buf)
      BY <3>2
    <3>4. d = buf[1]
      BY <1>1, <2>1
    <3>5. \A i \in 1..Len(Tail(buf)) : Tail(buf)[i] = buf[i + 1]
      BY <1>1, <2>1, <3>1, <3>2, HeadTailProperties
    <3> QED BY <3>1, <3>3, <3>4, <3>5
  <2>4. d.body = latest /\ d.rev <= doc.rev /\ d.rev \in Nat
    BY <2>2, <2>3
  <2>5. Phases'
    BY <1>3, <1>5, <2>1, <2>4, Threads DEF SerialInv, Phases
  <2>6. Rows'
    <3>1. ASSUME NEW i \in 1..Len(Tail(buf))
          PROVE  Tail(buf)[i].body = latest /\ Tail(buf)[i].rev <= doc.rev
      <4>1. i + 1 \in 1..Len(buf)
        BY <1>1, <2>3, LenProperties
      <4> QED BY <2>2, <2>3, <4>1
    <3> HIDE DEF d
    <3> QED BY <1>3, <2>1, <2>2, <2>4, <3>1 DEF Rows
  <2>7. OneWay'
    BY <1>3, <2>1, <2>2 DEF SerialInv, OneWay, Unwanted, Unsent, FileDetectable
  <2>8. FeedGo'
    <3>1. CASE thread' = thread
      BY <1>4, <3>1, FeedGoStays
    <3>2. CASE Move("feed", Row(d))
      <4>1. thread'["feed"] = Row(d)
        BY <1>1, <3>2, Moves
      <4>2. Row(d).pc = "seen" /\ Row(d).side = "db" /\ Row(d).data = d.body
        BY DEF Row, Idle
      <4> QED BY <1>3, <2>2, <2>4, <4>1, <4>2 DEF FeedGo, FeedPC
    <3> QED BY <2>1, <3>1, <3>2
  <2> QED BY <1>2, <1>6, <2>5, <2>6, <2>7, <2>8 DEF SerialInv
<1> QED BY <1>7, <1>8, <1>9 DEF Feed

LEMMA SerialFault ==
    ASSUME SerialInv, Crash \/ Disconnect
    PROVE  SerialInv'
<1>1. TypeInv /\ doc \in [rev : Nat, body : File] /\ since \in Nat \cup {Unset, Now}
  BY DEF SerialInv, TypeInv, TypeOK
<1>2. TypeInv'
  BY <1>1, TypeFault
<1>3. UNCHANGED <<disk, stat, since, meta, doc, latest>>
  BY DEF Crash, Disconnect, stored
<1>4. Follows
  BY <1>3 DEF Follows
<1>5. CASE Crash
  <2>1. /\ \A t \in Thread : thread'[t] = Idle
        /\ mode'.fs = "down" /\ mode'.db = "down" /\ ~pending'
    BY <1>5 DEF Crash
  <2>2. \A t \in FileThread : FileGo(t)'
    BY <2>1, Threads, FileGoIdle DEF Next
  <2>3. FeedGo'
    BY <2>1, Threads, FeedGoIdle
  <2>4. Phases'
    BY <2>1, Threads, IdleFields DEF Phases
  <2>5. Rows'
    BY <1>3, <2>1 DEF SerialInv, Rows
  <2>6. OneWay'
    BY <1>3, <2>1 DEF SerialInv, OneWay, Unwanted, Unsent, FileDetectable, DocDetectable
  <2> QED BY <1>2, <2>2, <2>3, <2>4, <2>5, <2>6 DEF SerialInv
<1>6. CASE Disconnect
  <2>1. /\ UNCHANGED <<thread, pending, buf, pos>> /\ thread["feed"].pc = "idle"
        /\ mode.db = "on" /\ mode'.db = "off" /\ mode'.fs = mode.fs
    BY <1>6 DEF Disconnect, feed, SerialInv, TypeInv, TypeOK
  <2>2. \A t \in FileThread : FileGo(t)'
    BY <1>3, <1>4, <2>1, FileGoStays DEF Next
  <2>3. FeedGo'
    BY <1>4, <2>1, FeedGoStays
  <2>4. Phases'
    BY <2>1 DEF SerialInv, Phases
  <2>5. Rows'
    BY <1>3, <2>1 DEF SerialInv, Rows
  <2>6. OneWay'
    BY <1>3, <2>1, OneWayStays
  <2> QED BY <1>2, <2>2, <2>3, <2>4, <2>5, <2>6 DEF SerialInv
<1> QED BY <1>5, <1>6

LEMMA SerialInit == Init => SerialInv
<1> SUFFICES ASSUME Init PROVE SerialInv
  OBVIOUS
<1>1. \A t \in Thread : thread[t] = Idle
  BY DEF Init
<1>2. \A t \in FileThread : FileGo(t)
  BY <1>1, Threads, IdleFields DEF Init, FileGo, FilePC
<1>3. FeedGo
  BY <1>1, Threads, IdleFields DEF FeedGo, FeedPC
<1>4. Phases
  BY <1>1, Threads, IdleFields DEF Init, Phases
<1>5. Rows
  BY DEF Init, Rows
<1>6. OneWay
  BY DEF Init, OneWay, Unwanted, Unsent
<1> QED BY <1>2, <1>3, <1>4, <1>5, <1>6, TypeInit DEF SerialInv

LEMMA SerialThread ==
    ASSUME SerialInv, ReadsRetried, NEW t \in Thread, ThreadStep(t) \/ ThreadFails(t)
    PROVE  SerialInv' /\ Follows
BY NoResolution, SerialFile, SerialRow

LEMMA SerialStep ==
    ASSUME Editing = "serial", ReadsRetried
    PROVE  SerialInv /\ [Next]_vars => SerialInv'
<1> SUFFICES ASSUME SerialInv, [Next]_vars PROVE SerialInv'
  OBVIOUS
<1>1. CASE \E t \in Thread : ThreadStep(t) \/ ThreadFails(t)
  <2>1. PICK t \in Thread : ThreadStep(t) \/ ThreadFails(t)
    BY <1>1
  <2> QED BY <2>1, SerialThread
<1>2. CASE \E f \in Edits : UserEdit(f) \/ RemoteEdit(f)
  <2>1. PICK f \in Edits : UserEdit(f) \/ RemoteEdit(f)
    BY <1>2
  <2> QED BY <2>1, SerialEdit
<1>3. CASE UNCHANGED vars
  <2>1. Follows /\ Quiet /\ mode' = mode /\ thread' = thread /\ cache' = cache
    BY <1>3 DEF vars, Follows, Quiet
  <2>2. TypeInv'
    BY <1>3, TypeStep DEF SerialInv
  <2>3. \A t \in FileThread : FileGo(t)'
    BY <2>1, FileGoStays DEF Quiet
  <2>4. Phases' /\ Rows'
    BY <2>1 DEF SerialInv, Phases, Rows, Quiet
  <2> QED BY <2>1, <2>2, <2>3, <2>4, FeedGoStays, OneWayStays DEF SerialInv, Quiet
<1>4. CASE Start \/ FireTimer \/ Feed \/ Crash \/ Disconnect
  BY <1>4, SerialScans, SerialStart, SerialTimer, SerialFeed, SerialFault DEF Start
<1> QED BY <1>1, <1>2, <1>3, <1>4 DEF Next

LEMMA RegisterInit == Init => Replica!Init
BY DEF Init, Replica!Init, Replica!Peer, Replica!Groups

(* What one copy becomes. *)
LEMMA RegisterDeliver ==
    ASSUME Follows, disk' = disk \/ doc'.body = doc.body
    PROVE  Replica!Next \/ UNCHANGED <<disk, doc.body, latest>>
<1>1. 1 \in Replica!Peer /\ 2 \in Replica!Peer
  BY DEF Replica!Peer
<1>2. CASE disk' # disk
  <2>1. Replica!Deliver(1)
    BY <1>2 DEF Replica!Deliver, Follows
  <2> QED BY <1>1, <2>1 DEF Replica!Next
<1>3. CASE doc'.body # doc.body
  <2>1. Replica!Deliver(2)
    BY <1>3 DEF Replica!Deliver, Follows
  <2> QED BY <1>1, <2>1 DEF Replica!Next
<1> QED BY <1>2, <1>3 DEF Follows

LEMMA RegisterEdit ==
    ASSUME Editing = "serial", NEW f \in Edits, UserEdit(f) \/ RemoteEdit(f)
    PROVE  Replica!Next
<1>1. f \in Replica!File /\ 1 \in Replica!Peer /\ 2 \in Replica!Peer
  BY DEF Edits, Replica!File, Replica!Peer
<1>2. disk = latest /\ doc.body = latest /\ latest' = f
  BY DEF UserEdit, RemoteEdit, Edited, MayEdit, Settled
<1>3. \A q \in Replica!Peer : <<disk, doc.body>>[q] = latest
  BY <1>2 DEF Replica!Peer
<1>4. CASE UserEdit(f)
  <2>1. Replica!Edit(1, f)
    BY <1>2, <1>3, <1>4 DEF UserEdit, WriteFile, Replica!Edit
  <2> QED BY <1>1, <2>1 DEF Replica!Next
<1>5. CASE RemoteEdit(f)
  <2>1. Replica!Edit(2, f)
    BY <1>2, <1>3, <1>5 DEF RemoteEdit, WriteDoc, Replica!Edit
  <2> QED BY <1>1, <2>1 DEF Replica!Next
<1> QED BY <1>4, <1>5

LEMMA RegisterStep ==
    ASSUME Editing = "serial", ReadsRetried
    PROVE  SerialInv /\ [Next]_vars => [Replica!Next]_<<disk, doc.body, latest>>
<1> SUFFICES ASSUME SerialInv, [Next]_vars
             PROVE  Replica!Next \/ UNCHANGED <<disk, doc.body, latest>>
  OBVIOUS
<1>1. CASE \E f \in Edits : UserEdit(f) \/ RemoteEdit(f)
  BY <1>1, RegisterEdit
<1>2. ASSUME NEW t \in Thread, ThreadStep(t) \/ ThreadFails(t)
      PROVE  Replica!Next \/ UNCHANGED <<disk, doc.body, latest>>
  <2>1. Follows /\ (FileStep(t) \/ RowStep)
    BY <1>2, NoResolution, SerialThread
  <2>2. FileStep(t) => disk' = disk
    BY DEF FileStep, ReadFile, CheckRepeating, Mark, OwnStat, OfferDoc, MarkDoc, GetRev, PutDoc,
         DeleteGone, Conflict, PutDocFails, LookupFails, RereadFails
  <2>3. RowStep => doc' = doc
    BY DEF RowStep, SeenBefore, CheckRepeating, Mark, DispatchDone, OfferFile, WriteDisk,
         PutStat, PutMark, WriteDiskFails
  <2> QED BY <2>1, <2>2, <2>3, RegisterDeliver
<1>3. CASE Start \/ FireTimer \/ Feed \/ Crash \/ Disconnect \/ UNCHANGED vars
  BY <1>3 DEF Start, Boot, ScanChanges, ScanDeletions, ScanDocument, FinishScan, FireTimer, Feed,
       Connect, SendRow, TakeRow, Crash, Disconnect, vars, history
<1> QED BY <1>1, <1>2, <1>3 DEF Next

(* With one edit at a time, whatever crashes, fails or breaks in between, if
   fewer reads of the revision fail than a write has attempts: the file and the
   document are the copies of a replicated register which only ever step to its
   value.  No echo from the feed or the watcher, no scan after a restart and no
   repeated row puts back an older version, and no write of the document ends
   in the resolution of a conflict (watchChanges, putDocument, the scans). *)
THEOREM SerialRegister ==
    ASSUME Editing = "serial", ReadsRetried
    PROVE  Spec => FollowsRegister
<1> QED BY SerialInit, SerialStep, RegisterInit, RegisterStep, PTL DEF Spec, FollowsRegister

-----------------------------------------------------------------------------
(* An edit stays detectable until the document has it: nothing is taken for a
   repetition of what came before it. *)

Hashes(f) == {NoHash, DispatchHash(f), DeliverHash(f)}

(* The storage peer still has to look at the file. *)
ToLook ==
    \/ pending \/ mode.fs = "down"
    \/ mode.fs = "changes" /\ thread["scan"].pc = "idle"
    \/ mode.fs = "deletions" /\ thread["scan"].pc = "idle" /\ disk = Absent
    \/ \E t \in FileThread : thread[t].pc \in {"read", "check", "mark"}

(* Of a deletion whose Delete cannot read the document nothing is left. *)
Kept == latest # Absent \/ "lookup" \notin Faults

Detected == Unsent /\ Kept => FileDetectable

(* Until it has, the caches know of nothing but what the document has, ... *)
Looked == Unsent /\ ToLook => \A s \in Side : cache[s] \in Hashes(doc.body)

(* ... and what it dispatches then is not taken for that. *)
Sending(t) ==
    Unsent =>
    /\ thread[t].pc = "stat" => ~Kept
    /\ thread[t].pc # "idle" => ~pending
    /\ thread[t].pc = "dbcheck" => cache["db"] \in Hashes(doc.body)
    /\ thread[t].pc \in {"dbcheck", "dbmark", "get", "put"} => cache["fs"] \in Hashes(latest)
    /\ thread[t].pc \in {"get", "put"} => cache["db"] \in Hashes(latest)

(* Both caches know of nothing but the last edit once both sides have it. *)
Agreed ==
    ~Unsent /\ ~Unwanted =>
    /\ thread["feed"].pc \notin {"pstat", "pmark"} => cache["fs"] \in Hashes(latest)
    /\ cache["db"] \in Hashes(latest)

RowMarked ==
    thread["feed"].pc \in {"fscheck", "write", "pstat", "pmark", "done"} =>
        cache["db"] \in Hashes(latest)

ScanHasFile == mode.fs = "changes" /\ thread["scan"].pc # "idle" => disk # Absent

FreshCaches == mode.fs = "down" => \A s \in Side : cache[s] = NoHash

NotEmpty == latest # Empty /\ disk # Empty /\ doc.body # Empty

Known ==
    /\ Detected /\ Looked /\ (\A t \in FileThread : Sending(t))
    /\ Agreed /\ RowMarked /\ ScanHasFile /\ FreshCaches /\ NotEmpty

SafeInv == SerialInv /\ Known

LEMMA HashesOf ==
    ASSUME NEW f
    PROVE  NoHash \in Hashes(f) /\ DispatchHash(f) \in Hashes(f) /\ DeliverHash(f) \in Hashes(f)
BY DEF Hashes

LEMMA HashesApart ==
    ASSUME NEW f \in File \ {Empty}, NEW g \in File \ {Empty}, f # g
    PROVE  DispatchHash(f) \notin Hashes(g) /\ DeliverHash(f) \notin Hashes(g)
BY DEF File, Hashes, DispatchHash, DeliverHash, Bytes

LEMMA CacheMarked ==
    ASSUME TypeInv, NEW s \in Side, NEW h, cache' = MarkProcessed(cache, s, h)
    PROVE  cache'[s] = h /\ \A u \in Side \ {s} : cache'[u] = cache[u]
BY DEF TypeInv, TypeOK, MarkProcessed

LEMMA Sides == Side = {"fs", "db"}
BY DEF Side

(* While the goroutine t of the storage peer is on its way to the document. *)
LEMMA NoLook ==
    ASSUME SafeInv, NEW t \in FileThread, Unsent, thread[t].pc \notin {"idle", "read", "check", "mark"}
    PROVE  ~ToLook
<1>1. ~pending
  BY DEF SafeInv, Known, Sending
<1>2. \A u \in FileThread : thread[u].pc \notin {"read", "check", "mark"}
  BY OneFileThread, IdleFields DEF SafeInv
<1>3. mode.fs # "down" /\ (mode.fs \in {"changes", "deletions"} => thread["scan"].pc # "idle")
  BY DEF SafeInv, SerialInv, Phases, FileThread, TypeInv, Shape
<1> QED BY <1>1, <1>2, <1>3 DEF ToLook

(* A conflict is met only by a write whose read of the revision has failed. *)
LEMMA ConflictRetried ==
    ASSUME SerialInv, ReadsRetried, NEW t \in FileThread, Conflict(t)
    PROVE  thread[t].tries + 1 < MaxAttempts
<1>1. thread[t] \in ThreadState /\ faults \in 0..MaxFaults
  BY Threads DEF SerialInv, TypeInv, TypeOK
<1>2. "reread" \in Faults /\ thread[t].tries < faults
  BY DEF Conflict, SerialInv, FileGo
<1> QED BY <1>1, <1>2, ConstantsAssumption DEF ThreadState, ReadsRetried

LEMMA KnownFile ==
    ASSUME SafeInv, ReadsRetried, NEW t \in FileThread, FileStep(t)
    PROVE  Known'
<1> DEFINE r == thread[t]
<1>1. /\ t \in Thread /\ r \in ThreadState /\ t # "feed" /\ TypeInv /\ SerialInv
      /\ latest \in File \ {Empty} /\ doc.body \in File \ {Empty} /\ doc \in [rev : Nat, body : File]
      /\ "feed" \in Thread /\ disk \in File
  BY Threads DEF SafeInv, SerialInv, TypeInv, TypeOK, Known, NotEmpty
<1>2. /\ r.pc \in FilePC /\ r.side = "fs"
      /\ r.pc # "idle" => disk = latest
      /\ r.pc \notin {"idle", "read"} => r.data = latest /\ r.own = latest
  BY <1>1 DEF SerialInv, FileGo
<1>3. /\ r.pc # "idle" /\ disk' = disk /\ latest' = latest /\ pending' = pending
      /\ \A u \in Thread \ {t} : thread'[u] = thread[u]
  BY <1>1, Moves, Goes, Leaves DEF FileStep, ReadFile, CheckRepeating, Mark, OwnStat, OfferDoc,
     MarkDoc, GetRev, PutDoc, DeleteGone, Conflict, PutDocFails, LookupFails, RereadFails, history
<1>4. \A u \in FileThread \ {t} : thread[u].pc = "idle" /\ thread'[u].pc = "idle"
  <2> SUFFICES ASSUME NEW u \in FileThread \ {t}
               PROVE  thread[u].pc = "idle" /\ thread'[u].pc = "idle"
    OBVIOUS
  <2>1. thread[u] = Idle
    BY <1>1, <1>3, OneFileThread
  <2>2. thread'[u] = thread[u]
    BY <1>3, Threads
  <2> QED BY <2>1, <2>2, IdleFields
<1>5. /\ mode.fs # "down" /\ disk = latest /\ (mode.fs = "up" <=> t = "timer")
      /\ thread'["feed"] = thread["feed"]
  BY <1>1, <1>2, <1>3 DEF SerialInv, Phases, FileThread, TypeInv, Shape
<1>6. /\ mode' = mode \/ (thread'[t].pc = "idle" /\ Leave(t))
      /\ mode'.fs = mode.fs \/ (t = "scan" /\ mode'.fs \in {"deletions", "up"})
  BY <1>1, Leaves, IdleFields, Threads DEF FileStep, ReadFile, CheckRepeating, Mark, OwnStat, OfferDoc,
     MarkDoc, GetRev, PutDoc, DeleteGone, Conflict, PutDocFails, LookupFails, RereadFails, SerialInv,
     TypeInv, Shape, FileThread
<1>7. FreshCaches' /\ ScanHasFile'
  BY <1>3, <1>5, <1>6 DEF FreshCaches, ScanHasFile, SafeInv, Known, FileThread, Thread
<1>8. NotEmpty'
  BY <1>1, <1>2, <1>3 DEF FileStep, ReadFile, CheckRepeating, Mark, OwnStat, OfferDoc, WriteDoc,
     MarkDoc, GetRev, PutDoc, DeleteGone, Conflict, PutDocFails, LookupFails, RereadFails, NotEmpty, SafeInv, Known
<1>9. /\ cache'["fs"] = cache["fs"] \/ (cache'["fs"] = DispatchHash(latest) /\ r.pc = "mark")
      /\ cache'["db"] = cache["db"] \/ (cache'["db"] = DeliverHash(latest) /\ r.pc = "dbmark")
  BY <1>1, <1>2, CacheMarked, Sides DEF FileStep, ReadFile, CheckRepeating, Mark, OwnStat, OfferDoc,
     MarkDoc, GetRev, PutDoc, DeleteGone, Conflict, PutDocFails, LookupFails, RereadFails
<1>10. /\ cache["fs"] \in Hashes(latest) => cache'["fs"] \in Hashes(latest)
       /\ cache["db"] \in Hashes(latest) => cache'["db"] \in Hashes(latest)
  BY <1>9, HashesOf
<1>11. RowMarked'
  BY <1>3, <1>5, <1>10 DEF RowMarked, SafeInv, Known
<1>12. CASE ~Unsent
  <2>1. ~Unsent'
    BY <1>1, <1>3, <1>12, SerialFile DEF Unsent, Follows
  <2>2. ~Unwanted
    BY <1>5 DEF Unwanted
  <2>3. Agreed'
    BY <1>3, <1>5, <1>10, <1>12, <2>2 DEF Agreed, SafeInv, Known
  <2> QED BY <1>7, <1>8, <1>11, <2>1, <2>3 DEF Known, Detected, Looked, Sending
<1>13. CASE PutDoc(t)
  <2>1. ~Unsent' /\ cache' = cache /\ r.pc = "put"
    BY <1>2, <1>3, <1>13 DEF PutDoc, WriteDoc, Unsent
  <2>2. Unsent => cache["fs"] \in Hashes(latest) /\ cache["db"] \in Hashes(latest)
    BY <2>1 DEF SafeInv, Known, Sending
  <2>3. Agreed'
    BY <1>3, <1>12, <2>1, <2>2 DEF Agreed, Known
  <2> QED BY <1>7, <1>8, <1>11, <2>1, <2>3 DEF Known, Detected, Looked, Sending
<1>14. CASE Unsent /\ ~PutDoc(t)
  <2>1. /\ DispatchHash(latest) \notin Hashes(doc.body) /\ DeliverHash(latest) \notin Hashes(doc.body)
    BY <1>1, <1>14, HashesApart DEF Unsent
  <2>2. Looked /\ Sending(t) /\ Detected
    BY DEF SafeInv, Known
  <2>3. (r.pc = "stat" => ~Kept) /\ ~pending
    BY <1>3, <1>14, <2>2 DEF Sending
  <2>4. /\ doc' = doc /\ (r.pc # "stat" => stat' = stat)
        /\ r.pc \in {"read", "check", "mark", "dbcheck", "dbmark", "get", "put", "stat"}
    BY <1>2, <1>3, <1>14 DEF FileStep, ReadFile, CheckRepeating, Mark, OwnStat, OfferDoc,
     MarkDoc, GetRev, DeleteGone, Conflict, PutDocFails, LookupFails, RereadFails, FilePC, stored
  <2>5. Unsent' /\ Detected' /\ Agreed'
    <3>1. Unsent' /\ (Kept' <=> Kept)
      BY <1>3, <1>14, <2>4 DEF Unsent, Kept
    <3> QED BY <1>3, <1>14, <2>2, <2>3, <2>4, <3>1 DEF Detected, FileDetectable, Agreed
  <2>6. r.pc \in {"read", "check", "mark"} => \A s \in Side : cache[s] \in Hashes(doc.body)
    BY <1>14, <2>2 DEF Looked, ToLook
  <2>7. \/ r.pc = "read" /\ thread'[t].pc = "check" /\ cache' = cache
        \/ r.pc = "check" /\ thread'[t].pc = "mark" /\ cache' = cache
        \/ r.pc = "mark" /\ thread'[t].pc = "dbcheck" /\ cache'["db"] = cache["db"]
           /\ cache'["fs"] \in Hashes(latest)
        \/ r.pc = "dbcheck" /\ thread'[t].pc = "dbmark" /\ cache' = cache
        \/ r.pc = "dbmark" /\ thread'[t].pc = "get" /\ cache'["fs"] = cache["fs"]
           /\ cache'["db"] \in Hashes(latest)
        \/ r.pc = "get" /\ thread'[t].pc = "put" /\ cache' = cache
        \/ r.pc = "put" /\ thread'[t].pc = "get" /\ cache' = cache
        \/ r.pc = "dbmark" /\ thread'[t].pc = "stat" /\ cache' = cache /\ ~Kept
        \/ r.pc \in {"put", "stat"} /\ thread'[t].pc = "idle" /\ cache' = cache /\ Leave(t)
    <3>1. CASE ReadFile(t)
      <4>1. r.pc = "read" /\ disk # Absent /\ cache' = cache
        BY <1>1, <3>1 DEF ReadFile, SerialInv, FileGo
      <4> DEFINE w == [r EXCEPT !.pc = "check", !.own = disk, !.data = disk]
      <4>2. Move(t, w)
        BY <3>1, <4>1 DEF ReadFile
      <4>3. w.pc = "check"
        BY <1>1 DEF ThreadState
      <4> HIDE DEF w
      <4> QED BY <1>1, <4>1, <4>2, <4>3, Moves
    <3>2. CASE CheckRepeating(t)
      <4>1. Goto(t, "mark") /\ r.pc = "check" /\ cache' = cache
        BY <1>2, <2>1, <2>6, <3>2, Sides DEF CheckRepeating, IsRepeating
      <4> QED BY <1>1, <4>1, Goes
    <3>3. CASE Mark(t)
      <4>1. Goto(t, "dbcheck") /\ r.pc = "mark" /\ cache' = MarkProcessed(cache, "fs", DispatchHash(latest))
        BY <1>2, <3>3 DEF Mark
      <4> QED BY <1>1, <4>1, Goes, CacheMarked, HashesOf, Sides
    <3>4. CASE OfferDoc(t)
      <4>1. r.pc = "dbcheck" /\ cache["db"] \in Hashes(doc.body) /\ cache' = cache
        BY <1>14, <2>2, <3>4 DEF OfferDoc, Sending
      <4>2. Goto(t, "dbmark")
        BY <1>2, <2>1, <3>4, <4>1 DEF OfferDoc, IsRepeating
      <4> QED BY <1>1, <4>1, <4>2, Goes
    <3>5. CASE MarkDoc(t)
      <4>1. r.pc = "dbmark" /\ cache' = MarkProcessed(cache, "db", DeliverHash(latest))
        BY <1>2, <1>14, <3>5 DEF MarkDoc, Unsent
      <4> DEFINE w == [r EXCEPT !.pc = "get", !.rev = IF r.data = Absent THEN doc.rev ELSE 0]
      <4>2. Move(t, w)
        BY <1>2, <1>14, <3>5 DEF MarkDoc, Unsent
      <4>3. w.pc = "get"
        BY <1>1 DEF ThreadState
      <4> HIDE DEF w
      <4>4. thread'[t].pc = "get"
        BY <1>1, <4>2, <4>3, Moves
      <4> QED BY <1>1, <4>1, <4>4, CacheMarked, HashesOf, Sides
    <3>6. CASE GetRev(t)
      <4> DEFINE w == [r EXCEPT !.pc = "put", !.rev = IF doc.body = Absent THEN r.rev ELSE doc.rev]
      <4>1. Move(t, w) /\ r.pc = "get" /\ cache' = cache
        BY <3>6 DEF GetRev
      <4>2. w.pc = "put"
        BY <1>1 DEF ThreadState
      <4> HIDE DEF w
      <4> QED BY <1>1, <4>1, <4>2, Moves
    <3>7. CASE DeleteGone(t) \/ PutDocFails(t) \/ OwnStat(t)
      <4>1. Leave(t) /\ r.pc \in {"put", "stat"} /\ cache' = cache
        BY <2>4, <3>7 DEF DeleteGone, PutDocFails, OwnStat
      <4> QED BY <1>1, <4>1, Leaves, IdleFields
    <3>8. CASE LookupFails(t)
      <4>1. Goto(t, "stat") /\ r.pc = "dbmark" /\ cache' = cache
        BY <3>8 DEF LookupFails
      <4>2. ~Kept
        BY <1>2, <3>8, <4>1 DEF LookupFails, Fault, Kept
      <4> QED BY <1>1, <4>1, <4>2, Goes
    <3>9. CASE RereadFails(t)
      <4>1. Goto(t, "put") /\ r.pc = "get" /\ cache' = cache
        BY <2>4, <3>9 DEF RereadFails
      <4> QED BY <1>1, <4>1, Goes
    <3>10. CASE Conflict(t)
      <4> DEFINE w == [r EXCEPT !.tries = @ + 1, !.pc = "get"]
      <4>1. r.pc = "put" /\ cache' = cache /\ r.tries + 1 < MaxAttempts
        BY <3>10, ConflictRetried DEF Conflict, SafeInv
      <4>2. Move(t, w)
        BY <3>10, <4>1 DEF Conflict
      <4>3. w.pc = "get"
        BY <1>1 DEF ThreadState
      <4> HIDE DEF w
      <4> QED BY <1>1, <4>1, <4>2, <4>3, Moves
    <3> QED BY <1>14, <3>1, <3>2, <3>3, <3>4, <3>5, <3>6, <3>7, <3>8, <3>9, <3>10 DEF FileStep
  <2>8. Sending(t)'
    BY <1>3, <1>14, <2>2, <2>3, <2>4, <2>6, <2>7, Sides DEF Sending, Unsent, Kept
  <2>9. \A u \in FileThread : Sending(u)'
    BY <1>4, <2>8 DEF Sending
  <2>10. Looked'
    <3>1. CASE r.pc \in {"read", "check"}
      BY <2>4, <2>6, <2>7, <3>1 DEF Looked
    <3>2. CASE r.pc \notin {"read", "check"}
      <4>1. thread'[t].pc \notin {"read", "check", "mark"} /\ mode'.fs # "down"
        BY <1>5, <1>6, <2>4, <2>7, <3>2
      <4>2. \A u \in FileThread : thread'[u].pc \notin {"read", "check", "mark"}
        BY <1>4, <4>1
      <4>3. thread'["scan"].pc = "idle" =>
               mode'.fs # "changes" /\ ~(mode'.fs = "deletions" /\ disk' = Absent)
        <5>1. CASE t = "timer"
          BY <1>5, <1>6, <5>1
        <5>2. CASE t = "scan" /\ thread'["scan"].pc = "idle"
          <6>1. Leave(t) /\ mode.fs \in {"changes", "deletions"}
            BY <1>1, <1>3, <2>7, <5>2 DEF TypeInv, Shape
          <6>2. mode.fs = "changes" => disk # Absent
            BY <1>3, <5>2 DEF SafeInv, Known, ScanHasFile
          <6>3. /\ mode.fs = "changes" => mode'.fs = "deletions"
                /\ mode.fs = "deletions" => mode'.fs = "up"
            BY <1>1, <5>2, <6>1, Leaves
          <6> QED BY <1>3, <6>1, <6>2, <6>3
        <5> QED BY <5>1, <5>2 DEF FileThread
      <4>4. ~ToLook'
        BY <1>3, <2>3, <4>1, <4>2, <4>3 DEF ToLook
      <4> QED BY <4>4 DEF Looked
    <3> QED BY <3>1, <3>2
  <2> QED BY <1>7, <1>8, <1>11, <2>5, <2>9, <2>10 DEF Known
<1> QED BY <1>12, <1>13, <1>14

LEMMA KnownRow ==
    ASSUME SafeInv, RowStep
    PROVE  Known'
<1> DEFINE r == thread["feed"]
<1>1. /\ "feed" \in Thread /\ r \in ThreadState /\ "feed" \notin FileThread /\ TypeInv /\ SerialInv
      /\ latest # Empty /\ disk # Empty /\ doc.body # Empty
      /\ "scan" \in Thread /\ "scan" \in FileThread
  BY Threads DEF SafeInv, SerialInv, TypeInv, TypeOK, Known, NotEmpty
<1>2. /\ r.pc \in FeedPC
      /\ r.pc # "idle" => r.side = "db" /\ r.data = latest /\ doc.body = latest
  BY <1>1 DEF SerialInv, FeedGo
<1>3. r.pc # "idle" /\ doc' = doc /\ latest' = latest
  BY DEF RowStep, SeenBefore, CheckRepeating, Mark, DispatchDone, OfferFile, WriteDisk,
     PutStat, PutMark, WriteDiskFails, history
<1>4. ~Unsent /\ ~Unsent'
  BY <1>2, <1>3 DEF Unsent
<1>5. /\ \A u \in Thread \ {"feed"} : thread'[u] = thread[u]
      /\ mode'.fs = mode.fs
  BY <1>1, Goes, Leaves DEF RowStep, SeenBefore, CheckRepeating, Mark, DispatchDone, OfferFile, WriteDisk,
     PutStat, PutMark, WriteDiskFails
<1>6. disk' = disk \/ (r.pc = "write" /\ disk' = latest)
  BY <1>2 DEF RowStep, SeenBefore, CheckRepeating, Mark, DispatchDone, OfferFile, WriteDisk, WriteFile,
     PutStat, PutMark, WriteDiskFails
<1>7. NotEmpty'
  BY <1>1, <1>3, <1>6 DEF NotEmpty
<1>8. ScanHasFile'
  <2>1. thread["scan"].pc # "idle" => disk = latest
    BY <1>1 DEF SerialInv, FileGo
  <2>2. thread'["scan"] = thread["scan"]
    BY <1>1, <1>5
  <2> QED BY <1>5, <1>6, <2>1, <2>2 DEF ScanHasFile, SafeInv, Known
<1>9. FreshCaches'
  <2>1. mode.fs # "down"
    BY <1>1, <1>3 DEF SerialInv, Phases
  <2> QED BY <1>5, <2>1 DEF FreshCaches
<1>10. RowMarked' /\ Agreed'
  <2> DEFINE c == cache["db"] \in Hashes(latest)
             q == thread'["feed"].pc
             same == disk' = disk /\ cache' = cache
  <2>1. Agreed /\ RowMarked
    BY DEF SafeInv, Known
  <2>2. CASE SeenBefore("feed")
    <3>1. q \in {"check", "idle"} /\ same /\ r.pc = "seen"
      BY <1>1, <2>2, Goes, Leaves, IdleFields DEF SeenBefore
    <3> QED BY <1>3, <1>4, <2>1, <3>1 DEF Agreed, RowMarked, Unwanted
  <2>3. CASE CheckRepeating("feed")
    <3>1. same /\ r.pc = "check" /\ (q = "mark" \/ (q = "done" /\ cache["db"] = DispatchHash(latest)))
      BY <1>1, <1>2, <2>3, Goes DEF CheckRepeating, IsRepeating
    <3> QED BY <1>3, <1>4, <2>1, <3>1, HashesOf DEF Agreed, RowMarked, Unwanted
  <2>4. CASE Mark("feed")
    <3>1. /\ disk' = disk /\ r.pc = "mark" /\ q = "fscheck"
          /\ cache' = MarkProcessed(cache, "db", DispatchHash(latest))
      BY <1>1, <1>2, <2>4, Goes DEF Mark
    <3>2. cache'["db"] = DispatchHash(latest) /\ cache'["fs"] = cache["fs"]
      BY <1>1, <3>1, CacheMarked, Sides
    <3> QED BY <1>3, <1>4, <2>1, <3>1, <3>2, HashesOf DEF Agreed, RowMarked, Unwanted
  <2>5. CASE OfferFile("feed")
    <3>1. same /\ r.pc = "fscheck" /\ q \in {"done", "write"}
      BY <1>1, <2>5, Goes DEF OfferFile
    <3> QED BY <1>3, <1>4, <2>1, <3>1 DEF Agreed, RowMarked, Unwanted
  <2>6. CASE WriteDisk("feed")
    <3>1. cache' = cache /\ r.pc = "write" /\ (q = "pstat" \/ (q = "done" /\ disk' = disk))
      BY <1>1, <2>6, Goes DEF WriteDisk
    <3> QED BY <1>3, <1>4, <2>1, <3>1 DEF Agreed, RowMarked, Unwanted
  <2>7. CASE PutStat("feed")
    <3>1. same /\ r.pc = "pstat" /\ q = "pmark"
      BY <1>1, <2>7, Goes DEF PutStat
    <3> QED BY <1>3, <1>4, <2>1, <3>1 DEF Agreed, RowMarked, Unwanted
  <2>8. CASE PutMark("feed")
    <3>1. /\ disk' = disk /\ r.pc = "pmark" /\ q = "done"
          /\ cache' = MarkProcessed(cache, "fs", DeliverHash(latest))
      BY <1>1, <1>2, <2>8, Goes DEF PutMark
    <3>2. cache'["fs"] = DeliverHash(latest) /\ cache'["db"] = cache["db"]
      BY <1>1, <3>1, CacheMarked, Sides
    <3> QED BY <1>3, <1>4, <2>1, <3>1, <3>2, HashesOf DEF Agreed, RowMarked, Unwanted
  <2>9. CASE DispatchDone("feed")
    <3>1. /\ disk' = disk /\ r.pc = "done" /\ q = "idle"
          /\ cache' = MarkProcessed(cache, "db", DispatchHash(latest))
      BY <1>1, <1>2, <2>9, Leaves, IdleFields DEF DispatchDone
    <3>2. cache'["db"] = DispatchHash(latest) /\ cache'["fs"] = cache["fs"]
      BY <1>1, <3>1, CacheMarked, Sides
    <3> QED BY <1>3, <1>4, <2>1, <3>1, <3>2, HashesOf DEF Agreed, RowMarked, Unwanted
  <2>10. CASE WriteDiskFails("feed")
    <3>1. same /\ r.pc = "write" /\ q \in {"done", "idle"}
      BY <1>1, <2>10, Goes, Leaves, IdleFields DEF WriteDiskFails
    <3> QED BY <1>3, <1>4, <2>1, <3>1 DEF Agreed, RowMarked, Unwanted
  <2> QED BY <2>2, <2>3, <2>4, <2>5, <2>6, <2>7, <2>8, <2>9, <2>10 DEF RowStep
<1> QED BY <1>4, <1>7, <1>8, <1>9, <1>10 DEF Known, Detected, Looked, Sending

LEMMA KnownEdit ==
    ASSUME SafeInv, Editing = "serial", NEW f \in Edits, UserEdit(f) \/ RemoteEdit(f)
    PROVE  Known'
<1>1. /\ AtRest /\ disk = latest /\ doc.body = latest /\ ~FileDetectable
      /\ latest' = f /\ SerialInv /\ stat \in {"none", "old", "current"} /\ TypeInv
  BY DEF UserEdit, RemoteEdit, Edited, MayEdit, Settled, SafeInv, SerialInv, TypeInv, TypeOK
<1>2. /\ \A t \in FileThread : thread[t] = Idle
      /\ thread["feed"].pc = "idle" /\ ~pending
  BY <1>1, RestingThreads
<1>3. UNCHANGED <<mode, cache, thread>>
  BY DEF UserEdit, RemoteEdit
<1>4. f # Empty
  BY DEF Edits
<1>5. Agreed /\ NotEmpty /\ FreshCaches
  BY DEF SafeInv, Known
<1>6. \A s \in Side : cache[s] \in Hashes(latest)
  BY <1>1, <1>2, <1>5, Sides DEF Agreed, Unsent, Unwanted
<1>7. /\ \A t \in FileThread : Sending(t)'
      /\ RowMarked' /\ ScanHasFile' /\ FreshCaches'
  BY <1>2, <1>3, <1>5, IdleFields, Threads DEF Sending, RowMarked, ScanHasFile, FreshCaches
<1>8. CASE UserEdit(f)
  <2>1. /\ doc' = doc /\ disk' = f /\ f # disk
        /\ stat' = (IF stat = "current" THEN "old" ELSE stat)
    BY <1>8 DEF UserEdit, WriteFile
  <2>2. Unsent' /\ Detected'
    BY <1>1, <2>1 DEF Unsent, Detected, FileDetectable
  <2>3. Looked' /\ Agreed'
    BY <1>1, <1>3, <1>6, <2>1, <2>2 DEF Looked, Agreed
  <2> QED BY <1>1, <1>4, <1>5, <1>7, <2>1, <2>2, <2>3 DEF Known, NotEmpty
<1>9. CASE RemoteEdit(f)
  <2>1. doc'.body = f /\ disk' = disk /\ f # doc.body
    BY <1>9 DEF RemoteEdit, WriteDoc
  <2>2. ~Unsent' /\ Unwanted'
    BY <1>1, <2>1 DEF Unsent, Unwanted
  <2> QED BY <1>1, <1>4, <1>5, <1>7, <2>1, <2>2 DEF Known, NotEmpty, Detected, Looked, Agreed
<1> QED BY <1>8, <1>9

(* Steps that leave the file, the document and the caches alone, and give the
   storage peer nothing new to look at. *)
LEMMA KnownStays ==
    ASSUME SafeInv, UNCHANGED <<disk, stat, doc, cache, latest>>,
           \A t \in FileThread : Sending(t)',
           ToLook' => ToLook,
           \/ thread'["feed"] = thread["feed"]
           \/ thread'["feed"].pc \in {"idle", "seen"} /\ thread["feed"].pc \in {"idle", "seen"},
           mode'.fs = "down" => mode.fs = "down",
           ScanHasFile'
    PROVE  Known'
<1>1. Detected' /\ Looked' /\ NotEmpty' /\ FreshCaches'
  BY DEF SafeInv, Known, Detected, Looked, NotEmpty, FreshCaches, Unsent, FileDetectable, Kept
<1>2. Agreed' /\ RowMarked'
  BY DEF SafeInv, Known, Agreed, RowMarked, Unsent, Unwanted
<1> QED BY <1>1, <1>2 DEF Known

LEMMA KnownScans ==
    ASSUME SafeInv, ScanChanges \/ ScanDeletions
    PROVE  Known'
<1>1. /\ "scan" \in Thread /\ "scan" \in FileThread /\ TypeInv /\ SerialInv
      /\ "feed" \in Thread \ {"scan"} /\ "timer" \in Thread \ {"scan"}
  BY Threads DEF SafeInv, SerialInv
<1>2. /\ UNCHANGED <<disk, stat, doc, cache, latest, pending>>
      /\ thread["scan"].pc = "idle" /\ mode.fs \in {"changes", "deletions"}
  BY DEF ScanChanges, ScanDeletions, stored, history
<1>3. ~pending /\ thread["timer"].pc = "idle"
  BY <1>1, <1>2 DEF SerialInv, Phases
<1>4. /\ \A u \in Thread \ {"scan"} : thread'[u] = thread[u]
      /\ thread'["scan"].pc \in {"idle", "read", "check"}
      /\ mode'.fs = mode.fs \/ (mode.fs = "changes" /\ mode'.fs = "deletions") \/ mode'.fs = "up"
      /\ thread'["scan"].pc # "idle" => mode' = mode
      /\ thread'["scan"].pc = "idle" => mode'.fs # "changes"
  <2>1. CASE Leave("scan")
    BY <1>1, <1>2, <2>1, Leaves, IdleFields
  <2>2. CASE UNCHANGED mode /\ (Goto("scan", "read") \/ Goto("scan", "check"))
    BY <1>1, <2>2, Goes
  <2> QED BY <2>1, <2>2 DEF ScanChanges, ScanDeletions
<1>5. thread'["timer"].pc = "idle"
  BY <1>1, <1>3, <1>4
<1>6. \A t \in FileThread : Sending(t)'
  BY <1>2, <1>3, <1>4, <1>5 DEF Sending, FileThread
<1>7. thread'["scan"].pc # "idle" /\ mode.fs = "changes" => disk # Absent
  BY <1>1, <1>2, Leaves, IdleFields DEF ScanChanges, ScanDeletions
<1>8. thread'["scan"].pc # "idle" /\ mode.fs = "deletions" => disk = Absent
  BY <1>1, <1>2, Leaves, IdleFields DEF ScanChanges, ScanDeletions
<1>9. ToLook' => ToLook
  BY <1>2, <1>3, <1>4, <1>5, <1>7, <1>8 DEF ToLook, FileThread
<1>10. ScanHasFile'
  BY <1>2, <1>4, <1>7 DEF ScanHasFile
<1>11. mode'.fs # "down"
  BY <1>2, <1>4
<1>12. thread'["feed"] = thread["feed"]
  BY <1>1, <1>4
<1> QED BY <1>2, <1>6, <1>9, <1>10, <1>11, <1>12, KnownStays

LEMMA KnownTimer ==
    ASSUME SafeInv, FireTimer
    PROVE  Known'
<1>1. /\ "timer" \in Thread /\ "timer" \in FileThread /\ TypeInv /\ SerialInv
      /\ "feed" \in Thread \ {"timer"} /\ "scan" \in Thread \ {"timer"}
  BY Threads DEF SafeInv, SerialInv
<1>2. UNCHANGED <<disk, stat, doc, cache, latest, mode>> /\ pending /\ ~pending'
  BY DEF FireTimer, stored, history
<1>3. mode.fs = "up" /\ thread["scan"].pc = "idle"
  BY <1>1, <1>2 DEF SerialInv, Phases, TypeInv, Shape
<1>4. /\ \A u \in Thread \ {"timer"} : thread'[u] = thread[u]
      /\ thread'["timer"].pc \in {"read", "check"}
  BY <1>1, Goes DEF FireTimer
<1>5. thread'["scan"].pc = "idle" /\ thread'["feed"] = thread["feed"]
  BY <1>1, <1>3, <1>4
<1>6. \A t \in FileThread : Sending(t)'
  BY <1>2, <1>4, <1>5 DEF Sending, FileThread
<1>7. ToLook /\ ScanHasFile'
  BY <1>2, <1>3 DEF ToLook, ScanHasFile
<1> QED BY <1>2, <1>5, <1>6, <1>7, KnownStays

(* The steps of Start and of the feed for the document. *)
LEMMA KnownFeed ==
    ASSUME SafeInv, Boot \/ ScanDocument \/ FinishScan \/ Feed \/ Disconnect
    PROVE  Known'
<1>1. /\ "feed" \in Thread /\ "feed" \notin FileThread /\ TypeInv /\ SerialInv
      /\ FileThread \subseteq Thread \ {"feed"} /\ "scan" \in FileThread /\ mode \in ModeType
  BY Threads DEF SafeInv, SerialInv, TypeInv, TypeOK, ModeType
<1>2. UNCHANGED <<disk, stat, doc, cache, latest, pending>>
  BY DEF Boot, ScanDocument, FinishScan, Feed, Connect, SendRow, TakeRow, Disconnect, stored, history
<1>3. /\ \A u \in Thread \ {"feed"} : thread'[u] = thread[u]
      /\ \/ thread'["feed"] = thread["feed"]
         \/ thread'["feed"].pc \in {"idle", "seen"} /\ thread["feed"].pc \in {"idle", "seen"}
  <2>1. Row(doc).pc = "seen" /\ Row(Head(buf)).pc = "seen"
    BY DEF Row, Idle
  <2>2. CASE ScanDocument
    <3>1. CASE Leave("feed")
      BY <1>1, <2>2, <3>1, Leaves, IdleFields DEF ScanDocument
    <3>2. CASE Move("feed", Row(doc))
      BY <1>1, <2>1, <2>2, <3>2, Moves DEF ScanDocument
    <3> QED BY <2>2, <3>1, <3>2 DEF ScanDocument
  <2>3. CASE TakeRow
    <3>1. CASE UNCHANGED thread
      BY <3>1
    <3>2. CASE Move("feed", Row(Head(buf)))
      BY <1>1, <2>1, <2>3, <3>2, Moves DEF TakeRow
    <3> QED BY <2>3, <3>1, <3>2 DEF TakeRow
  <2>4. CASE Boot \/ FinishScan \/ Connect \/ SendRow \/ Disconnect
    BY <2>4 DEF Boot, FinishScan, Connect, SendRow, Disconnect
  <2> QED BY <2>2, <2>3, <2>4 DEF Feed
<1>4. /\ \A t \in FileThread : thread'[t] = thread[t]
      /\ thread'["scan"] = thread["scan"]
  BY <1>1, <1>3
<1>5. \A t \in FileThread : Sending(t)'
  BY <1>2, <1>4 DEF SafeInv, Known, Sending, Unsent, Kept
<1>6. mode'.fs = mode.fs \/ (mode.fs = "down" /\ mode'.fs = "changes")
  BY <1>1, Leaves DEF Boot, Stopped, ScanDocument, FinishScan, Feed, Connect, SendRow, TakeRow,
     Disconnect, ModeType
<1>7. ToLook' => ToLook
  BY <1>2, <1>4, <1>6 DEF ToLook
<1>8. ScanHasFile'
  <2>1. mode.fs = "down" => thread["scan"].pc = "idle"
    BY <1>1 DEF TypeInv, Shape
  <2> QED BY <1>2, <1>4, <1>6, <2>1 DEF ScanHasFile, SafeInv, Known
<1> QED BY <1>2, <1>3, <1>5, <1>6, <1>7, <1>8, KnownStays

LEMMA KnownCrash ==
    ASSUME SafeInv, Crash
    PROVE  Known'
<1>1. /\ \A t \in Thread : thread'[t] = Idle
      /\ UNCHANGED <<disk, stat, doc, latest>>
      /\ \A s \in Side : cache'[s] = NoHash
  BY DEF Crash, stored
<1>2. \A t \in FileThread : Sending(t)'
  BY <1>1, Threads, IdleFields DEF Sending
<1>3. Detected' /\ NotEmpty' /\ FreshCaches'
  BY <1>1 DEF SafeInv, Known, Detected, NotEmpty, FreshCaches, Unsent, FileDetectable, Kept
<1>4. Looked' /\ Agreed' /\ RowMarked' /\ ScanHasFile'
  BY <1>1, Threads, IdleFields, HashesOf, Sides DEF Looked, Agreed, RowMarked, ScanHasFile
<1> QED BY <1>2, <1>3, <1>4 DEF Known

LEMMA SafeInit == Init => SafeInv
<1> SUFFICES ASSUME Init PROVE SafeInv
  OBVIOUS
<1>1. \A t \in Thread : thread[t] = Idle
  BY DEF Init
<1>2. /\ \A s \in Side : cache[s] = NoHash
      /\ disk = Absent /\ latest = Absent /\ doc.body = Absent
  BY DEF Init
<1>3. NotEmpty /\ Detected /\ FreshCaches
  BY <1>2 DEF NotEmpty, Detected, FreshCaches, Unsent
<1>4. Looked /\ Agreed /\ RowMarked
  BY <1>2, Sides, HashesOf DEF Looked, Agreed, RowMarked
<1>5. ScanHasFile /\ \A t \in FileThread : Sending(t)
  BY <1>1, <1>2, Threads, IdleFields DEF ScanHasFile, Sending, Unsent
<1> QED BY <1>3, <1>4, <1>5, SerialInit DEF SafeInv, Known

LEMMA SafeStep ==
    ASSUME Editing = "serial", ReadsRetried
    PROVE  SafeInv /\ [Next]_vars => SafeInv'
<1> SUFFICES ASSUME SafeInv, [Next]_vars PROVE Known'
  BY SerialStep DEF SafeInv
<1>1. CASE \E t \in Thread : ThreadStep(t) \/ ThreadFails(t)
  <2>1. PICK t \in Thread : ThreadStep(t) \/ ThreadFails(t)
    BY <1>1
  <2>2. (t \in FileThread /\ FileStep(t)) \/ RowStep
    BY <2>1, NoResolution DEF SafeInv
  <2> QED BY <2>2, KnownFile, KnownRow
<1>2. CASE \E f \in Edits : UserEdit(f) \/ RemoteEdit(f)
  <2>1. PICK f \in Edits : UserEdit(f) \/ RemoteEdit(f)
    BY <1>2
  <2> QED BY <2>1, KnownEdit
<1>3. CASE UNCHANGED vars
  BY <1>3 DEF vars, SafeInv, Known, Detected, Looked, Sending, Agreed, RowMarked, ScanHasFile,
     FreshCaches, NotEmpty, Unsent, Unwanted, ToLook, FileDetectable, Kept
<1>4. CASE Start \/ FireTimer \/ Feed \/ Crash \/ Disconnect
  BY <1>4, KnownScans, KnownTimer, KnownFeed, KnownCrash DEF Start
<1> QED BY <1>1, <1>2, <1>3, <1>4 DEF Next

(* With one edit at a time, if the reads that Delete begins with do not fail, and
   fewer reads of the revision fail than a write has attempts: an edit of the
   file, a deletion included, that is not in the document yet is dispatched by
   the next start, whatever writes fail and at whatever step the bridge stops.
   The stat is stored after the dispatch, and the dispatch is not skipped as a
   repetition (dispatchFile, dispatchDeletion, IsRepeating). *)
THEOREM UserEditsKept ==
    ASSUME Editing = "serial", ReadsRetried, "lookup" \notin Faults
    PROVE  Spec => []UserEditSafe
<1>1. SafeInv => UserEditSafe
  BY DEF SafeInv, Known, Detected, Kept, Unsent, UserEditSafe
<1> QED BY <1>1, SafeInit, SafeStep, PTL DEF Spec

(* An edit of the file that is not a deletion is dispatched by the next start if
   it is not in the document yet, also where those reads fail: dispatchFile is
   told of every write that failed (putDocumentWithRetry, peer.go:436). *)
THEOREM UserSavesKept ==
    ASSUME Editing = "serial", ReadsRetried
    PROVE  Spec => []UserSaveSafe
<1>1. SafeInv => UserSaveSafe
  BY DEF SafeInv, Known, Detected, Kept, Unsent, UserSaveSafe
<1> QED BY <1>1, SafeInit, SafeStep, PTL DEF Spec

-----------------------------------------------------------------------------
(* At rest both sides have the last edit: what one is missing is on its way. *)

(* The gaps of the code that lose a change even so are excluded by name: the
   filter by baseDir drops deletions (peer.go:906), nothing is seen of the
   document while the sequence is "now" and the feed is closed (peer.go:400),
   a row's sequence is stored before the row is handled (peer.go:884), a
   failure to write the file is ignored (peer.go:960), a deletion that cannot
   read the document counts as delivered (peer.go:738), and after a failed write
   of the document the file waits for the next start. *)
NoGaps ==
    /\ Editing = "serial" /\ ReadsRetried
    /\ BaseDirSet = FALSE /\ NowGap = FALSE
    /\ "crash" \notin Faults /\ "fail" \notin Faults /\ "lookup" \notin Faults

FileComing == Unsent => ToLook \/ \E t \in FileThread : thread[t].pc # "idle"

Coming ==
    /\ since # Now => DocDetectable
    /\ since = Now => mode.db = "on"
    /\ mode.db = "on" => buf # <<>> \/ pos # doc.rev
    /\ mode.db # "scanned"

DocComing ==
    Unwanted =>
    /\ thread["feed"].pc \in {"idle", "seen", "check", "mark", "fscheck", "write"}
    /\ thread["feed"].pc = "idle" => Coming
    /\ cache["fs"] \in Hashes(disk)
    /\ thread["feed"].pc \in {"idle", "seen", "check", "mark"} => cache["db"] \in Hashes(disk)

FirstStart ==
    /\ since = Unset /\ mode.db = "down" => meta = 0
    /\ doc.rev = 0 => doc.body = Absent

RestInv == SafeInv /\ FileComing /\ DocComing /\ FirstStart

LEMMA DocDetectableValue ==
    /\ since = Unset => (DocDetectable <=> (doc.body # Absent /\ meta # doc.rev))
    /\ since = Now => ~DocDetectable
    /\ since \in Nat => (DocDetectable <=> since < doc.rev)
BY DEF DocDetectable

(* What a step of the storage peer's goroutines leaves to be dispatched. *)
LEMMA FileComingFile ==
    ASSUME RestInv, NoGaps, NEW t \in FileThread, FileStep(t)
    PROVE  FileComing'
<1> DEFINE r == thread[t]
<1>1. /\ t \in Thread /\ r \in ThreadState /\ TypeInv /\ SerialInv /\ SafeInv
      /\ latest \in File \ {Empty} /\ doc.body \in File \ {Empty} /\ doc \in [rev : Nat, body : File]
  BY Threads DEF RestInv, SafeInv, SerialInv, TypeInv, TypeOK, Known, NotEmpty
<1>2. /\ r.pc \in FilePC /\ r.side = "fs"
      /\ r.pc = "read" => disk # Absent
      /\ r.pc \notin {"idle", "read"} => r.data = latest
  BY <1>1 DEF SerialInv, FileGo
<1>3. CASE ~Unsent'
  BY <1>3 DEF FileComing
<1>4. CASE Unsent'
  <2>1. ~PutDoc(t)
    BY <1>1, <1>2, <1>4 DEF PutDoc, WriteDoc, Unsent, history
  <2>2. Unsent
    BY <1>1, <1>4, SerialFile DEF Unsent, Follows, NoGaps
  <2>3. ~DeleteGone(t) /\ ~PutDocFails(t) /\ ~LookupFails(t) /\ ~OwnStat(t)
    BY <1>2, <2>2 DEF DeleteGone, Gone, Unsent, PutDocFails, LookupFails, Fault, OwnStat, FilePC,
       SafeInv, Known, Sending, Kept, RestInv, NoGaps
  <2>4. \E pc \in {"check", "mark", "stat", "dbcheck", "dbmark", "get", "put"} : thread'[t].pc = pc
    <3>1. CASE ReadFile(t)
      <4> DEFINE w == [r EXCEPT !.pc = "check", !.own = disk, !.data = disk]
      <4>1. Move(t, w)
        BY <1>2, <3>1 DEF ReadFile
      <4>2. w.pc = "check"
        BY <1>1 DEF ThreadState
      <4> HIDE DEF w
      <4> QED BY <1>1, <4>1, <4>2, Moves
    <3>2. CASE CheckRepeating(t) \/ Mark(t) \/ OfferDoc(t)
      BY <1>1, <1>2, <3>2, Goes DEF CheckRepeating, Mark, OfferDoc
    <3>3. CASE MarkDoc(t)
      <4> DEFINE w == [r EXCEPT !.pc = "get", !.rev = IF r.data = Absent THEN doc.rev ELSE 0]
      <4>1. Goto(t, "stat") \/ Move(t, w)
        BY <3>3 DEF MarkDoc
      <4>2. w.pc = "get"
        BY <1>1 DEF ThreadState
      <4> HIDE DEF w
      <4> QED BY <1>1, <4>1, <4>2, Moves, Goes
    <3>4. CASE GetRev(t)
      <4> DEFINE w == [r EXCEPT !.pc = "put", !.rev = IF doc.body = Absent THEN r.rev ELSE doc.rev]
      <4>1. Move(t, w)
        BY <3>4 DEF GetRev
      <4>2. w.pc = "put"
        BY <1>1 DEF ThreadState
      <4> HIDE DEF w
      <4> QED BY <1>1, <4>1, <4>2, Moves
    <3>5. CASE RereadFails(t)
      <4>1. Goto(t, "put")
        BY <1>2, <3>5 DEF RereadFails, FilePC
      <4> QED BY <1>1, <4>1, Goes
    <3>6. CASE Conflict(t)
      <4> DEFINE w == [r EXCEPT !.tries = @ + 1, !.pc = "get"]
      <4>1. Move(t, w)
        BY <1>1, <3>6, ConflictRetried DEF Conflict, NoGaps
      <4>2. w.pc = "get"
        BY <1>1 DEF ThreadState
      <4> HIDE DEF w
      <4> QED BY <1>1, <4>1, <4>2, Moves
    <3> QED BY <2>1, <2>3, <3>1, <3>2, <3>3, <3>4, <3>5, <3>6 DEF FileStep
  <2> QED BY <2>4 DEF FileComing
<1> QED BY <1>3, <1>4

LEMMA FileComingScans ==
    ASSUME RestInv, NoGaps, ScanChanges \/ ScanDeletions
    PROVE  FileComing'
<1>1. /\ "scan" \in Thread /\ "scan" \in FileThread /\ TypeInv /\ SerialInv
      /\ FileThread = {"scan", "timer"}
  BY Threads DEF RestInv, SafeInv, SerialInv, FileThread
<1>2. /\ UNCHANGED <<disk, stat, doc, latest, pending>>
      /\ thread["scan"].pc = "idle" /\ mode.fs \in {"changes", "deletions"}
  BY DEF ScanChanges, ScanDeletions, stored, history
<1>3. ~pending /\ thread["timer"].pc = "idle"
  BY <1>1, <1>2 DEF SerialInv, Phases
<1>4. CASE Unsent
  <2>1. FileDetectable /\ ToLook
    BY <1>1, <1>2, <1>3, <1>4 DEF RestInv, SafeInv, Known, Detected, Kept, NoGaps, FileComing
  <2>2. CASE mode.fs = "changes" /\ disk = Absent
    <3>1. Leave("scan")
      BY <2>2 DEF ScanChanges, ScanDeletions
    <3>2. mode'.fs = "deletions" /\ thread'["scan"].pc = "idle"
      BY <1>1, <2>2, <3>1, Leaves, IdleFields
    <3> QED BY <1>2, <2>2, <3>2 DEF FileComing, ToLook
  <2>3. CASE mode.fs = "changes" /\ disk # Absent
    <3>1. Goto("scan", "read")
      BY <2>1, <2>3 DEF ScanChanges, ScanDeletions, FileDetectable
    <3>2. thread'["scan"].pc = "read"
      BY <1>1, <3>1, Goes
    <3> QED BY <1>1, <3>2 DEF FileComing
  <2>4. CASE mode.fs = "deletions"
    <3>1. disk = Absent
      BY <1>1, <1>2, <1>3, <2>1, <2>4 DEF ToLook
    <3>2. Goto("scan", "check")
      BY <2>1, <2>4, <3>1 DEF ScanChanges, ScanDeletions, FileDetectable
    <3>3. thread'["scan"].pc = "check"
      BY <1>1, <3>2, Goes
    <3> QED BY <1>1, <3>3 DEF FileComing
  <2> QED BY <1>2, <2>2, <2>3, <2>4
<1>5. CASE ~Unsent
  BY <1>2, <1>5 DEF Unsent, FileComing
<1> QED BY <1>4, <1>5

LEMMA FileComingOther ==
    ASSUME RestInv, Editing = "serial",
           \/ \E f \in Edits : UserEdit(f) \/ RemoteEdit(f)
           \/ RowStep \/ FireTimer \/ Boot \/ ScanDocument \/ FinishScan \/ Feed
           \/ Crash \/ Disconnect \/ UNCHANGED vars
    PROVE  FileComing'
<1>1. TypeInv /\ SerialInv /\ "feed" \in Thread /\ FileThread \subseteq Thread \ {"feed"}
      /\ "timer" \in FileThread /\ "timer" \in Thread /\ mode \in ModeType /\ "scan" \in FileThread
  BY Threads DEF RestInv, SafeInv, SerialInv, TypeInv, TypeOK, ModeType
<1>2. ASSUME NEW f \in Edits, UserEdit(f) \/ RemoteEdit(f)
      PROVE  FileComing'
  <2>1. CASE UserEdit(f)
    <3>1. AtRest /\ (pending' <=> (pending \/ mode.fs = "up")) /\ mode' = mode
      BY <2>1 DEF UserEdit, Edited, MayEdit, WriteFile
    <3>2. mode.fs = "up" \/ mode.fs = "down"
      BY <3>1 DEF AtRest, Running, Stopped
    <3> QED BY <3>1, <3>2 DEF FileComing, ToLook
  <2>2. CASE RemoteEdit(f)
    BY <2>2 DEF RemoteEdit, Edited, WriteDoc, FileComing, Unsent
  <2> QED BY <1>2, <2>1, <2>2
<1>3. CASE RowStep
  <2>1. doc.body = latest /\ doc' = doc /\ latest' = latest
    BY <1>1, <1>3 DEF RowStep, SeenBefore, CheckRepeating, Mark, DispatchDone, OfferFile, WriteDisk,
       PutStat, PutMark, WriteDiskFails, history, SerialInv, FeedGo
  <2> QED BY <2>1 DEF FileComing, Unsent
<1>4. CASE FireTimer
  <2>1. thread'["timer"].pc \in {"read", "check"}
    BY <1>1, <1>4, Goes DEF FireTimer
  <2> QED BY <1>1, <2>1 DEF FileComing
<1>5. CASE Boot
  <2>1. mode'.fs = "changes" /\ thread' = thread
    BY <1>5 DEF Boot
  <2> QED BY <1>1, <2>1 DEF FileComing, ToLook
<1>6. CASE ScanDocument \/ FinishScan \/ Feed \/ Disconnect
  <2>1. UNCHANGED <<disk, doc, latest, pending>>
    BY <1>6 DEF ScanDocument, FinishScan, Feed, Connect, SendRow, TakeRow, Disconnect, history
  <2>2. (\A u \in FileThread : thread'[u] = thread[u]) /\ mode'.fs = mode.fs
    BY <1>1, <1>6, Leaves, Moves DEF ScanDocument, FinishScan, Feed, Connect, SendRow, TakeRow, Disconnect,
       ModeType
  <2> QED BY <1>1, <2>1, <2>2 DEF RestInv, FileComing, ToLook, Unsent
<1>7. CASE Crash
  <2>1. mode'.fs = "down"
    BY <1>7 DEF Crash
  <2> QED BY <2>1 DEF FileComing, ToLook
<1>8. CASE UNCHANGED vars
  BY <1>8 DEF vars, RestInv, FileComing, ToLook, Unsent
<1> QED BY <1>2, <1>3, <1>4, <1>5, <1>6, <1>7, <1>8

(* The goroutine of the CouchDB peer takes the change to the file. *)
LEMMA DocComingRow ==
    ASSUME RestInv, "fail" \notin Faults, RowStep
    PROVE  DocComing'
<1> DEFINE r == thread["feed"]
           q == thread'["feed"].pc
<1>1. /\ "feed" \in Thread /\ r \in ThreadState /\ TypeInv /\ SerialInv
      /\ latest \in File \ {Empty} /\ disk \in File \ {Empty}
  BY Threads DEF RestInv, SafeInv, SerialInv, TypeInv, TypeOK, Known, NotEmpty
<1>2. r.pc # "idle" => r.side = "db" /\ r.data = latest
  BY <1>1 DEF SerialInv, FeedGo
<1>3. CASE ~Unwanted'
  BY <1>3 DEF DocComing
<1>4. CASE Unwanted'
  <2>1. latest' = latest
    BY DEF RowStep, SeenBefore, CheckRepeating, Mark, DispatchDone, OfferFile, WriteDisk,
       PutStat, PutMark, WriteDiskFails, history
  <2>2. r.pc # "idle"
    BY DEF RowStep, SeenBefore, CheckRepeating, Mark, DispatchDone, OfferFile, WriteDisk,
       PutStat, PutMark, WriteDiskFails
  <2>3. ~WriteDisk("feed")
    BY <1>2, <1>4, <2>1, <2>2 DEF WriteDisk, WriteFile, Unwanted
  <2>4. disk' = disk
    BY <2>3 DEF RowStep, SeenBefore, CheckRepeating, Mark, DispatchDone, OfferFile,
       PutStat, PutMark, WriteDiskFails
  <2>5. Unwanted
    BY <1>4, <2>1, <2>4 DEF Unwanted
  <2>6. /\ DispatchHash(latest) \notin Hashes(disk) /\ DeliverHash(latest) \notin Hashes(disk)
    BY <1>1, <2>5, HashesApart DEF Unwanted
  <2>7. /\ r.pc \in {"seen", "check", "mark", "fscheck", "write"}
        /\ cache["fs"] \in Hashes(disk)
        /\ r.pc \in {"seen", "check", "mark"} => cache["db"] \in Hashes(disk)
    BY <2>2, <2>5 DEF RestInv, DocComing
  <2>8. CASE SeenBefore("feed")
    <3>1. r.pc = "seen" /\ cache' = cache /\ Goto("feed", "check")
      BY <1>2, <2>2, <2>6, <2>7, <2>8 DEF SeenBefore, IsRepeating
    <3> QED BY <1>1, <2>4, <2>7, <3>1, Goes DEF DocComing
  <2>9. CASE CheckRepeating("feed")
    <3>1. r.pc = "check" /\ cache' = cache /\ Goto("feed", "mark")
      BY <1>2, <2>2, <2>6, <2>7, <2>9 DEF CheckRepeating, IsRepeating
    <3> QED BY <1>1, <2>4, <2>7, <3>1, Goes DEF DocComing
  <2>10. CASE Mark("feed")
    <3>1. /\ Goto("feed", "fscheck")
          /\ cache' = MarkProcessed(cache, "db", DispatchHash(latest))
      BY <1>2, <2>2, <2>10 DEF Mark
    <3>2. cache'["fs"] = cache["fs"]
      BY <1>1, <3>1, CacheMarked, Sides
    <3> QED BY <1>1, <2>4, <2>7, <3>1, <3>2, Goes DEF DocComing
  <2>11. CASE OfferFile("feed")
    <3>1. cache' = cache /\ Goto("feed", "write")
      BY <1>2, <2>2, <2>6, <2>7, <2>11 DEF OfferFile, IsRepeating
    <3> QED BY <1>1, <2>4, <2>7, <3>1, Goes DEF DocComing
  <2> QED BY <2>3, <2>7, <2>8, <2>9, <2>10, <2>11 DEF RowStep, PutStat, PutMark, DispatchDone,
       WriteDiskFails, Fault
<1> QED BY <1>3, <1>4

LEMMA DocComingFile ==
    ASSUME RestInv, ReadsRetried, NEW t \in FileThread, FileStep(t)
    PROVE  DocComing'
<1>1. SerialInv /\ thread[t].pc # "idle"
  BY DEF RestInv, SafeInv, FileStep, ReadFile, CheckRepeating, Mark, OwnStat, OfferDoc, MarkDoc,
     GetRev, PutDoc, DeleteGone, Conflict, PutDocFails, LookupFails, RereadFails
<1>2. disk = latest
  BY <1>1 DEF SerialInv, FileGo
<1>3. ~Unwanted'
  BY <1>1, <1>2, SerialFile DEF Follows, Unwanted
<1> QED BY <1>3 DEF DocComing

LEMMA DocComingEdit ==
    ASSUME RestInv, Editing = "serial", NowGap = FALSE,
           NEW f \in Edits, UserEdit(f) \/ RemoteEdit(f)
    PROVE  DocComing'
<1>1. /\ AtRest /\ disk = latest /\ doc.body = latest /\ ~DocDetectable
      /\ latest' = f /\ SerialInv
  BY DEF UserEdit, RemoteEdit, Edited, MayEdit, Settled, RestInv, SafeInv
<1>2. /\ thread["feed"].pc = "idle"
      /\ mode.db = "on" => pos = doc.rev
  BY <1>1, RestingThreads
<1>3. CASE UserEdit(f)
  BY <1>1, <1>3 DEF UserEdit, WriteFile, DocComing, Unwanted
<1>4. CASE RemoteEdit(f)
  <2>1. /\ UNCHANGED <<since, meta, buf, pos, mode, cache, thread, disk>>
        /\ doc'.rev = doc.rev + 1 /\ doc'.body = f /\ f # doc.body
        /\ since # Now \/ mode.db = "on"
        /\ doc.rev \in Nat /\ since \in Nat \cup {Unset, Now} /\ meta \in Nat /\ pos \in Nat
    BY <1>1, <1>4 DEF RemoteEdit, WriteDoc, stored, feed, SerialInv, TypeInv, TypeOK
  <2>2. \A s \in Side : cache[s] \in Hashes(disk)
    BY <1>1, <1>2, Sides DEF RestInv, SafeInv, Known, Agreed, Unsent, Unwanted
  <2>3. mode.db \in {"on", "down"}
    BY <1>1 DEF AtRest, Running, Stopped
  <2>4. ASSUME since # Now PROVE DocDetectable'
    <3>1. CASE since = Unset
      <4>1. mode.db = "down"
        BY <1>1, <2>3, <3>1 DEF SerialInv, TypeInv, Shape
      <4>2. meta = 0 /\ doc.rev = 0 => doc.body = Absent
        BY <3>1, <4>1 DEF RestInv, FirstStart
      <4>3. meta = 0
        BY <3>1, <4>1 DEF RestInv, FirstStart
      <4>4. doc.body = Absent
        BY <1>1, <3>1, <4>2, <4>3, DocDetectableValue
      <4>5. doc'.body # Absent /\ meta' # doc'.rev /\ since' = Unset
        BY <2>1, <3>1, <4>3, <4>4
      <4> QED BY <4>5 DEF DocDetectable
    <3>2. CASE since \in Nat
      <4>1. since <= doc.rev
        BY <1>1, <3>2 DEF SerialInv, Rows
      <4>2. since' < doc'.rev /\ since' \in Nat /\ since' \notin {Unset, Now}
        BY <2>1, <3>2, <4>1
      <4> QED BY <4>2 DEF DocDetectable
    <3> QED BY <2>1, <2>4, <3>1, <3>2
  <2>5. mode.db = "on" => pos' # doc'.rev
    BY <1>2, <2>1
  <2>6. Coming'
    BY <2>1, <2>3, <2>4, <2>5 DEF Coming
  <2> QED BY <1>2, <2>1, <2>2, <2>6, Sides DEF DocComing
<1> QED BY <1>3, <1>4

(* Start, the storage peer's scans and timers, and the feed. *)
LEMMA DocComingOther ==
    ASSUME RestInv, NoGaps, Start \/ FireTimer \/ Feed \/ Crash \/ Disconnect \/ UNCHANGED vars
    PROVE  DocComing'
<1>1. /\ TypeInv /\ SerialInv /\ "feed" \in Thread /\ "scan" \in Thread /\ "timer" \in Thread
      /\ "scan" # "feed" /\ "timer" # "feed" /\ mode \in ModeType
      /\ since \in Nat \cup {Unset, Now} /\ doc.rev \in Nat
  BY Threads DEF RestInv, SafeInv, SerialInv, TypeInv, TypeOK, ModeType
<1>2. UNCHANGED <<disk, doc, meta, latest>>
  BY DEF Start, Boot, ScanChanges, ScanDeletions, ScanDocument, FinishScan, FireTimer, Feed, Connect,
     SendRow, TakeRow, Crash, Disconnect, vars, stored, history
<1>3. CASE ~Unwanted
  BY <1>2, <1>3 DEF DocComing, Unwanted
<1>4. CASE Unwanted
  <2>1. ~FileDetectable /\ ~pending
    BY <1>1, <1>4 DEF SerialInv, OneWay, Unwanted
  <2>2. DocComing
    BY DEF RestInv
  <2>3. CASE ScanChanges \/ ScanDeletions
    <3>1. Leave("scan")
      BY <2>1, <2>3 DEF ScanChanges, ScanDeletions, FileDetectable
    <3>2. thread'["feed"] = thread["feed"] /\ mode'.db = mode.db
      BY <1>1, <3>1, Leaves
    <3>3. UNCHANGED <<since, buf, pos, cache>>
      BY <2>3 DEF ScanChanges, ScanDeletions, stored, feed
    <3> QED BY <1>2, <1>4, <2>2, <3>2, <3>3 DEF DocComing, Coming, DocDetectable, Unwanted
  <2>4. CASE Boot
    <3>1. /\ UNCHANGED <<since, thread, cache>> /\ mode.db = "down"
          /\ mode'.db = IF since = Unset THEN "scan" ELSE "off"
      BY <2>4 DEF Boot, Stopped, stored
    <3>2. thread["feed"].pc = "idle"
      BY <1>1, <3>1 DEF SerialInv, Phases
    <3>3. Coming /\ (DocDetectable' <=> DocDetectable)
      BY <1>2, <1>4, <2>2, <3>1, <3>2 DEF DocComing, DocDetectable
    <3>4. Coming'
      BY <3>1, <3>3 DEF Coming
    <3> QED BY <1>2, <1>4, <2>2, <3>1, <3>4 DEF DocComing
  <2>5. CASE ScanDocument
    <3>1. since = Unset /\ thread["feed"].pc = "idle" /\ cache' = cache
      BY <1>1, <2>5 DEF ScanDocument, SerialInv, Phases
    <3>2. DocDetectable
      BY <1>4, <2>2, <3>1 DEF DocComing, Coming
    <3>3. Move("feed", Row(doc))
      BY <2>5, <3>1, <3>2, DocDetectableValue DEF ScanDocument
    <3>4. thread'["feed"].pc = "seen"
      <4>1. Row(doc).pc = "seen"
        BY DEF Row, Idle
      <4> QED BY <1>1, <3>3, <4>1, Moves
    <3> QED BY <1>2, <1>4, <2>2, <3>1, <3>4 DEF DocComing
  <2>6. CASE FinishScan
    <3>1. mode.db = "scanned" /\ thread["feed"].pc = "idle"
      BY <1>1, <2>6 DEF FinishScan, SerialInv, Phases
    <3> QED BY <1>4, <2>2, <3>1 DEF DocComing, Coming
  <2>7. CASE FireTimer
    BY <2>1, <2>7 DEF FireTimer
  <2>8. CASE Connect
    <3>1. /\ UNCHANGED <<since, thread, cache>> /\ thread["feed"].pc = "idle" /\ mode.db = "off"
          /\ mode'.db = "on" /\ pos' = IF since = Now THEN doc.rev ELSE since
      BY <1>1, <2>8 DEF Connect, stored, ModeType
    <3>2. Coming /\ since # Now /\ since # Unset
      BY <1>1, <1>4, <2>2, <3>1 DEF DocComing, Coming, TypeInv, Shape
    <3>3. DocDetectable /\ since \in Nat
      BY <1>1, <3>2 DEF Coming
    <3>4. pos' # doc.rev /\ DocDetectable'
      <4>1. since < doc.rev
        BY <3>3, DocDetectableValue
      <4>2. DocDetectable'
        BY <1>2, <3>1, <3>3 DEF DocDetectable
      <4> QED BY <1>1, <3>1, <3>2, <3>3, <4>1, <4>2
    <3>5. Coming'
      BY <1>2, <3>1, <3>2, <3>4 DEF Coming
    <3> QED BY <1>2, <1>4, <2>2, <3>1, <3>5 DEF DocComing
  <2>9. CASE SendRow
    <3>1. /\ UNCHANGED <<since, thread, cache, mode>> /\ mode.db = "on"
          /\ buf' = Append(buf, doc) /\ buf \in Seq([rev : Nat, body : File])
          /\ doc \in [rev : Nat, body : File]
      BY <1>1, <2>9 DEF SendRow, stored, TypeInv, TypeOK
    <3>2. buf' # <<>>
      BY <3>1, AppendProperties
    <3>3. DocDetectable' <=> DocDetectable
      BY <1>2, <3>1 DEF DocDetectable
    <3> QED BY <1>2, <1>4, <2>2, <3>1, <3>2, <3>3 DEF DocComing, Coming
  <2>10. CASE TakeRow
    <3>1. cache' = cache /\ thread["feed"].pc = "idle" /\ Move("feed", Row(Head(buf)))
      BY <2>10 DEF TakeRow, NoGaps
    <3>2. thread'["feed"].pc = "seen"
      <4>1. Row(Head(buf)).pc = "seen"
        BY DEF Row, Idle
      <4> QED BY <1>1, <3>1, <4>1, Moves
    <3> QED BY <1>2, <1>4, <2>2, <3>1, <3>2 DEF DocComing
  <2>11. CASE Crash
    <3>1. AtRest /\ ~Stopped
      BY <2>11 DEF Crash, Fault, NoGaps
    <3>2. /\ thread["feed"].pc = "idle" /\ mode.db = "on" /\ buf = <<>> /\ pos = doc.rev
      BY <1>1, <3>1 DEF AtRest, Running
    <3> QED BY <1>4, <2>2, <3>2 DEF DocComing, Coming
  <2>12. CASE Disconnect
    <3>1. /\ UNCHANGED <<since, thread, cache>> /\ since # Now /\ thread["feed"].pc = "idle"
          /\ mode'.db = "off"
      BY <1>1, <2>12 DEF Disconnect, NoGaps, stored, ModeType
    <3>2. Coming /\ (DocDetectable' <=> DocDetectable)
      BY <1>2, <1>4, <2>2, <3>1 DEF DocComing, DocDetectable
    <3>3. Coming'
      BY <3>1, <3>2 DEF Coming
    <3> QED BY <1>2, <1>4, <2>2, <3>1, <3>3 DEF DocComing
  <2>13. CASE UNCHANGED vars
    BY <1>4, <2>2, <2>13 DEF vars, DocComing, Coming, DocDetectable, Unwanted
  <2> QED BY <2>3, <2>4, <2>5, <2>6, <2>7, <2>8, <2>9, <2>10, <2>11, <2>12, <2>13 DEF Start, Feed
<1> QED BY <1>3, <1>4

LEMMA FirstStartStep ==
    ASSUME RestInv, NoGaps, [Next]_vars
    PROVE  FirstStart'
<1>1. TypeInv /\ SerialInv /\ doc.rev \in Nat /\ mode \in ModeType /\ FirstStart /\ "feed" \in Thread
  BY Threads DEF RestInv, SafeInv, SerialInv, TypeInv, TypeOK, ModeType
<1>2. doc' = doc \/ doc'.rev = doc.rev + 1
  <2>1. ASSUME NEW t \in Thread, ThreadStep(t) \/ ThreadFails(t)
        PROVE  doc' = doc \/ doc'.rev = doc.rev + 1
    <3>1. FileStep(t) => doc' = doc \/ doc'.rev = doc.rev + 1
      BY DEF FileStep, ReadFile, CheckRepeating, Mark, OwnStat, OfferDoc, MarkDoc, GetRev, PutDoc,
         WriteDoc, DeleteGone, Conflict, PutDocFails, LookupFails, RereadFails
    <3>2. RowStep => doc' = doc
      BY DEF RowStep, SeenBefore, CheckRepeating, Mark, DispatchDone, OfferFile, WriteDisk,
         PutStat, PutMark, WriteDiskFails
    <3> QED BY <1>1, <2>1, <3>1, <3>2, NoResolution
  <2>2. (\E f \in Edits : UserEdit(f) \/ RemoteEdit(f)) => doc' = doc \/ doc'.rev = doc.rev + 1
    BY DEF UserEdit, RemoteEdit, WriteDoc
  <2>3. Start \/ FireTimer \/ Feed \/ Crash \/ Disconnect \/ UNCHANGED vars => doc' = doc
    BY DEF Start, Boot, ScanChanges, ScanDeletions, ScanDocument, FinishScan, FireTimer, Feed,
       Connect, SendRow, TakeRow, Crash, Disconnect, vars
  <2> QED BY <2>1, <2>2, <2>3 DEF Next
<1>3. doc'.rev = 0 => doc'.body = Absent
  BY <1>1, <1>2 DEF FirstStart
<1>4. ASSUME since' = Unset, mode'.db = "down"
      PROVE  meta' = 0
  <2>1. CASE \E t \in Thread : ThreadStep(t) \/ ThreadFails(t)
    <3>1. PICK t \in Thread : ThreadStep(t) \/ ThreadFails(t)
      BY <2>1
    <3>2. CASE t \in FileThread /\ FileStep(t)
      <4>1. UNCHANGED <<since, meta>> /\ (mode' = mode \/ Leave(t))
        BY <3>2 DEF FileStep, ReadFile, CheckRepeating, Mark, OwnStat, OfferDoc, MarkDoc, GetRev,
           PutDoc, DeleteGone, Conflict, PutDocFails, LookupFails, RereadFails, stored
      <4>2. mode'.db = mode.db
        BY <1>1, <3>1, <3>2, <4>1, Leaves, Threads DEF FileThread
      <4> QED BY <1>1, <1>4, <4>1, <4>2 DEF FirstStart
    <3>3. CASE RowStep
      <4>1. mode.db # "down" /\ (mode' = mode \/ Leave("feed"))
        BY <1>1, <3>3 DEF RowStep, SeenBefore, CheckRepeating, Mark, DispatchDone, OfferFile, WriteDisk,
           PutStat, PutMark, WriteDiskFails, SerialInv, Phases
      <4> QED BY <1>1, <1>4, <4>1, Leaves
    <3> QED BY <1>1, <3>1, <3>2, <3>3, NoResolution
  <2>2. CASE Crash
    <3>1. AtRest /\ ~Stopped /\ UNCHANGED <<since, meta>>
      BY <2>2 DEF Crash, Fault, NoGaps, stored
    <3>2. mode.db = "on"
      BY <3>1 DEF AtRest, Running
    <3> QED BY <1>1, <1>4, <3>1, <3>2 DEF TypeInv, Shape
  <2>3. CASE \E f \in Edits : UserEdit(f) \/ RemoteEdit(f)
    BY <1>1, <1>4, <2>3 DEF UserEdit, RemoteEdit, stored, FirstStart
  <2>4. CASE ScanChanges \/ ScanDeletions \/ ScanDocument
    <3>1. UNCHANGED <<since, meta>> /\ (mode' = mode \/ Leave("scan") \/ Leave("feed"))
      BY <2>4 DEF ScanChanges, ScanDeletions, ScanDocument, stored
    <3>2. mode.db = "down"
      BY <1>1, <1>4, <3>1, Leaves DEF Thread
    <3> QED BY <1>1, <1>4, <3>1, <3>2 DEF FirstStart
  <2>5. CASE Boot \/ FinishScan \/ FireTimer \/ Feed \/ Disconnect \/ UNCHANGED vars
    BY <1>1, <1>4, <2>5 DEF Boot, FinishScan, FireTimer, Feed, Connect, SendRow, TakeRow, Disconnect,
       vars, stored, ModeType, FirstStart
  <2> QED BY <2>1, <2>2, <2>3, <2>4, <2>5 DEF Next, Start
<1> QED BY <1>3, <1>4 DEF FirstStart

LEMMA RestInit == Init => RestInv
<1> SUFFICES ASSUME Init PROVE RestInv
  OBVIOUS
<1>1. ~Unsent /\ ~Unwanted /\ meta = 0 /\ doc.body = Absent
  BY DEF Init, Unsent, Unwanted
<1> QED BY <1>1, SafeInit DEF RestInv, FileComing, DocComing, FirstStart

LEMMA RestStep ==
    ASSUME NoGaps
    PROVE  RestInv /\ [Next]_vars => RestInv'
<1> SUFFICES ASSUME RestInv, [Next]_vars PROVE RestInv'
  OBVIOUS
<1>1. /\ Editing = "serial" /\ ReadsRetried /\ NowGap = FALSE /\ "fail" \notin Faults
      /\ SafeInv /\ SerialInv
  BY DEF NoGaps, RestInv, SafeInv
<1>2. SafeInv' /\ FirstStart'
  BY <1>1, SafeStep, FirstStartStep
<1>3. CASE \E t \in Thread : ThreadStep(t) \/ ThreadFails(t)
  <2>1. PICK t \in Thread : ThreadStep(t) \/ ThreadFails(t)
    BY <1>3
  <2>2. CASE t \in FileThread /\ FileStep(t)
    BY <1>1, <1>2, <2>2, FileComingFile, DocComingFile DEF RestInv
  <2>3. CASE RowStep
    BY <1>1, <1>2, <2>3, FileComingOther, DocComingRow DEF RestInv
  <2> QED BY <1>1, <2>1, <2>2, <2>3, NoResolution
<1>4. CASE \E f \in Edits : UserEdit(f) \/ RemoteEdit(f)
  <2>1. PICK f \in Edits : UserEdit(f) \/ RemoteEdit(f)
    BY <1>4
  <2> QED BY <1>1, <1>2, <2>1, FileComingOther, DocComingEdit DEF RestInv
<1>5. CASE ScanChanges \/ ScanDeletions
  <2>1. FileComing' /\ DocComing'
    BY <1>5, FileComingScans, DocComingOther DEF Start
  <2> QED BY <1>2, <2>1 DEF RestInv
<1>6. CASE Boot \/ ScanDocument \/ FinishScan \/ FireTimer \/ Feed \/ Crash \/ Disconnect \/ UNCHANGED vars
  <2>1. FileComing'
    BY <1>1, <1>6, FileComingOther
  <2>2. DocComing'
    BY <1>6, DocComingOther DEF Start
  <2> QED BY <1>2, <2>1, <2>2 DEF RestInv
<1> QED BY <1>3, <1>4, <1>5, <1>6 DEF Next, Start

(* With one edit at a time and none of the gaps, over any number of restarts
   at rest, breaks of the feed and failing reads of the revision, fewer than a
   write has attempts: whenever the bridge is up and has nothing
   left to do, the file and the document both hold the last edit (the offline
   scans, the stored sequence, scanInitialDocuments). *)
THEOREM RestsInSync ==
    ASSUME NoGaps
    PROVE  Spec => []SyncAtRest
<1>1. RestInv => SyncAtRest
  <2> SUFFICES ASSUME RestInv, AtRest, Running
               PROVE  disk = latest /\ doc.body = latest
    BY DEF SyncAtRest
  <2>1. /\ ~pending /\ mode.fs = "up" /\ mode.db = "on" /\ buf = <<>> /\ pos = doc.rev
        /\ \A t \in Thread : thread[t].pc = "idle"
    BY DEF AtRest, Running, Stopped
  <2>2. doc.body = latest
    <3>1. ~ToLook
      BY <2>1, Threads DEF ToLook
    <3> QED BY <2>1, <3>1, Threads DEF RestInv, FileComing, Unsent
  <2>3. disk = latest
    BY <2>1, Threads DEF RestInv, DocComing, Coming, Unwanted
  <2> QED BY <2>2, <2>3
<1> QED BY <1>1, RestInit, RestStep, PTL DEF Spec

-----------------------------------------------------------------------------
(* The user saves at any time. *)

OnlyUser ==
    /\ Editors = {"user"} /\ ~Deletes /\ Editing = "up" /\ FeedPrompt
    /\ Faults \subseteq {"restart", "fail", "disconnect"}

(* A version of the document that the feed has not been through. *)
Owed ==
    \/ mode.db = "on" /\ (pos # doc.rev \/ buf # <<>>)
    \/ mode.db # "on" /\ since \in Nat /\ since # doc.rev
    \/ thread["feed"].pc # "idle"

NoRow == ~Owed /\ buf = <<>>

(* The goroutines of the storage peer carry what a user wrote, and only while
   the feed has nothing to report. *)
UserGo(t) ==
    LET r == thread[t] IN
    /\ r.pc \in FilePC
    /\ r.pc = "idle" => r = Idle
    /\ r.side = "fs"
    /\ r.pc \notin {"idle", "read"} => r.data \in Content /\ r.own \in Content
    /\ r.pc = "get" => r.rev = 0
    /\ r.pc \in {"get", "put"} => cache["db"] = r.data
    /\ r.pc = "put" => Accepts(r)
    /\ r.pc \notin {"idle", "stat"} => NoRow

(* That of the CouchDB peer never gets past its first look at a row. *)
EchoGo ==
    /\ thread["feed"].pc \in {"idle", "seen"}
    /\ thread["feed"].pc = "seen" => thread["feed"].data = doc.body

OwnRows ==
    /\ since \in Nat => since <= doc.rev
    /\ pos <= doc.rev
    /\ \A i \in 1..Len(buf) : buf[i] = doc
    /\ buf # <<>> => pos = doc.rev
    /\ buf = <<>> /\ pos = doc.rev /\ since \in Nat => since = doc.rev

(* What the feed is to report is what the peer has marked. *)
Recognised == Owed => cache["db"] = doc.body /\ doc.body # Absent

Beginning ==
    /\ since = Unset => disk = Absent /\ doc.body = Absent
    /\ disk = Absent => /\ stat = "none" /\ ~pending
                        /\ \A t \in FileThread : thread[t].pc = "idle"
    /\ mode.fs \in {"down", "changes"} /\ thread["scan"].pc = "idle" => NoRow

Written ==
    /\ disk = latest
    /\ disk \in Content \cup {Absent} /\ doc.body \in Content \cup {Absent}

UserInv ==
    /\ TypeInv /\ Phases /\ Written
    /\ \A t \in FileThread : UserGo(t)
    /\ EchoGo /\ OwnRows /\ Recognised /\ Beginning

LEMMA ContentHash ==
    ASSUME NEW f \in Content
    PROVE  /\ f \in File /\ f # Absent /\ f # Empty /\ f # NoHash
           /\ DispatchHash(f) = f /\ DeliverHash(f) = f
BY DEF File, DispatchHash, DeliverHash, Bytes

(* At most one goroutine of the storage peer dispatches, and only once there
   is a file and a sequence is stored. *)
LEMMA UserOneThread ==
    ASSUME UserInv, NEW t \in FileThread, thread[t].pc # "idle"
    PROVE  /\ \A u \in FileThread \ {t} : thread[u] = Idle
           /\ disk # Absent /\ disk \in Content /\ since # Unset
           /\ t = "scan" => mode.fs \in {"changes", "deletions"}
           /\ t = "timer" => mode.fs = "up"
<1>1. /\ thread["scan"].pc # "idle" => mode.fs \in {"changes", "deletions"}
      /\ thread["timer"].pc # "idle" => mode.fs = "up"
  BY DEF UserInv, TypeInv, Shape, Phases
<1>2. \A u \in FileThread \ {t} : thread[u] = Idle
  BY <1>1 DEF UserInv, UserGo, FileThread
<1>3. disk # Absent /\ disk \in Content /\ since # Unset
  BY DEF UserInv, Beginning, Written
<1> QED BY <1>1, <1>2, <1>3

LEMMA UserGoIdle ==
    ASSUME NEW t \in FileThread, thread'[t] = Idle
    PROVE  UserGo(t)'
BY IdleFields DEF UserGo, FilePC

LEMMA UserGoStays ==
    ASSUME UserInv, NEW t \in FileThread, thread'[t] = thread[t], doc' = doc,
           cache'["db"] = cache["db"], NoRow => NoRow'
    PROVE  UserGo(t)'
BY DEF UserInv, UserGo, Accepts

(* A goroutine of the storage peer goes on without a write of the document. *)
LEMMA UserMove ==
    ASSUME UserInv, TypeInv', NEW t \in FileThread, thread[t].pc # "idle",
           \A u \in Thread \ {t} : thread'[u] = thread[u],
           (mode' = mode /\ thread'[t].pc # "idle") \/ Leave(t),
           UNCHANGED <<disk, pending, doc, since, buf, pos, latest>>,
           UserGo(t)',
           cache'["db"] = cache["db"] \/ ~Owed
    PROVE  UserInv'
<1>1. TypeInv /\ t \in Thread /\ "feed" \in Thread \ {t}
  BY Threads DEF UserInv
<1>2. /\ mode'.db = mode.db
      /\ t = "timer" => mode'.fs = mode.fs
      /\ t = "scan" => \/ thread'[t].pc # "idle" /\ mode'.fs = mode.fs
                       \/ mode'.fs \in {"deletions", "up"}
  <2>1. CASE Leave(t)
    BY <1>1, <2>1, Leaves, UserOneThread DEF FileThread
  <2> QED BY <2>1
<1>3. (Owed' <=> Owed) /\ (NoRow' <=> NoRow)
  BY <1>1, <1>2 DEF Owed, NoRow
<1>4. \A u \in FileThread : UserGo(u)'
  <2> SUFFICES ASSUME NEW u \in FileThread, u # t PROVE UserGo(u)'
    OBVIOUS
  <2>1. thread'[u] = Idle
    BY UserOneThread, Threads
  <2> QED BY <2>1, UserGoIdle
<1>5. Phases'
  <2>1. thread'["timer"].pc # "idle" \/ pending' => mode'.fs = "up"
    BY <1>2, UserOneThread, Threads DEF UserInv, Phases, FileThread
  <2>2. mode'.fs = "down" <=> mode'.db = "down"
    BY <1>2, UserOneThread DEF UserInv, Phases, FileThread
  <2> QED BY <1>1, <1>2, <2>1, <2>2 DEF UserInv, Phases
<1>6. Written' /\ OwnRows'
  BY DEF UserInv, Written, OwnRows
<1>7. EchoGo'
  BY <1>1 DEF UserInv, EchoGo
<1>8. Recognised'
  BY <1>3 DEF UserInv, Recognised
<1>9. Beginning'
  <2>1. disk' # Absent /\ since' # Unset
    BY UserOneThread
  <2>2. mode'.fs \in {"down", "changes"} /\ thread'["scan"].pc = "idle" => NoRow'
    BY <1>2, <1>3, UserOneThread, Threads DEF UserInv, Beginning, FileThread
  <2> QED BY <2>1, <2>2 DEF Beginning
<1> QED BY <1>4, <1>5, <1>6, <1>7, <1>8, <1>9 DEF UserInv

LEMMA UserFile ==
    ASSUME UserInv, OnlyUser, NEW t \in FileThread, ThreadStep(t) \/ ThreadFails(t)
    PROVE  UserInv'
<1> DEFINE r == thread[t]
<1>1. /\ t \in Thread /\ r \in ThreadState /\ doc \in [rev : Nat, body : File]
      /\ t # "feed" /\ TypeInv /\ cache \in [Side -> Hash] /\ pos \in Nat
  BY Threads DEF UserInv, TypeInv, TypeOK
<1>2. /\ r.pc \in FilePC /\ r.side = "fs"
      /\ r.pc \notin {"idle", "read"} => r.data \in Content /\ r.own \in Content
      /\ r.pc = "get" => r.rev = 0
      /\ r.pc \in {"get", "put"} => cache["db"] = r.data
      /\ r.pc = "put" => Accepts(r)
      /\ r.pc \notin {"idle", "stat"} => NoRow
  BY DEF UserInv, UserGo
<1>3. TypeInv'
  BY <1>1, TypeThread
<1>4. r.pc # "idle" => disk \in Content /\ disk # Absent
  BY UserOneThread
<1>5. ASSUME r.pc # "idle", UNCHANGED <<disk, pending, doc, since, buf, pos, latest>>, Leave(t),
             cache' = cache
      PROVE  UserInv'
  <2>1. thread'[t] = Idle /\ \A u \in Thread \ {t} : thread'[u] = thread[u]
    BY <1>1, <1>5, Leaves
  <2> QED BY <1>3, <1>5, <2>1, UserGoIdle, UserMove
<1>6. CASE ReadFile(t)
  <2> DEFINE s == [r EXCEPT !.pc = "check", !.own = disk, !.data = disk]
  <2>1. /\ Move(t, s) /\ mode' = mode /\ r.pc = "read" /\ cache' = cache
        /\ UNCHANGED <<disk, pending, doc, since, buf, pos, latest>>
    BY <1>4, <1>6 DEF ReadFile, stored, feed, history
  <2>2. s.pc = "check" /\ s.own = disk /\ s.data = disk /\ s.side = "fs"
    BY <1>1, <1>2 DEF ThreadState
  <2> HIDE DEF s
  <2>3. thread'[t] = s /\ \A u \in Thread \ {t} : thread'[u] = thread[u]
    BY <1>1, <2>1, Moves
  <2>4. NoRow'
    BY <1>1, <1>2, <2>1, <2>3, Threads DEF NoRow, Owed
  <2>5. UserGo(t)'
    BY <1>4, <2>1, <2>2, <2>3, <2>4 DEF UserGo, FilePC
  <2> QED BY <1>3, <2>1, <2>2, <2>3, <2>5, UserMove
<1>7. CASE CheckRepeating(t) \/ Mark(t) \/ OfferDoc(t)
  <2>1. PICK pc \in {"mark", "stat", "dbcheck", "dbmark"} : Goto(t, pc)
    BY <1>2, <1>7 DEF CheckRepeating, Mark, OfferDoc
  <2>2. /\ mode' = mode /\ r.pc \in {"check", "mark", "dbcheck"}
        /\ UNCHANGED <<disk, pending, doc, since, buf, pos, latest>>
    BY <1>7 DEF CheckRepeating, Mark, OfferDoc, stored, feed, history
  <2>3. cache'["db"] = cache["db"]
    BY <1>1, <1>2, <1>7, Sides DEF CheckRepeating, Mark, OfferDoc, MarkProcessed
  <2>4. NoRow'
    BY <1>1, <1>2, <2>1, <2>2, Goes, Threads DEF NoRow, Owed
  <2>5. UserGo(t)'
    BY <1>1, <1>2, <2>1, <2>2, <2>4, Goes DEF UserGo, FilePC
  <2> QED BY <1>1, <1>3, <2>1, <2>2, <2>3, <2>5, Goes, UserMove
<1>8. CASE MarkDoc(t)
  <2> DEFINE s == [r EXCEPT !.pc = "get", !.rev = 0]
  <2>1. r.pc = "dbmark" /\ r.data \in Content /\ r.data # Absent /\ DeliverHash(r.data) = r.data
    BY <1>2, <1>8, ContentHash DEF MarkDoc
  <2>2. /\ Move(t, s) /\ mode' = mode /\ cache' = MarkProcessed(cache, "db", r.data)
        /\ UNCHANGED <<disk, pending, doc, since, buf, pos, latest>>
    BY <1>8, <2>1 DEF MarkDoc, stored, feed, history
  <2>3. s.pc = "get" /\ s.rev = 0 /\ s.own = r.own /\ s.data = r.data /\ s.side = "fs"
    BY <1>1, <1>2 DEF ThreadState
  <2> HIDE DEF s
  <2>4. thread'[t] = s /\ \A u \in Thread \ {t} : thread'[u] = thread[u]
    BY <1>1, <2>2, Moves
  <2>5. NoRow'
    BY <1>1, <1>2, <2>1, <2>2, <2>4, Threads DEF NoRow, Owed
  <2>6. cache'["db"] = r.data
    BY <1>1, <2>2, Sides DEF MarkProcessed
  <2>7. UserGo(t)'
    BY <1>2, <2>1, <2>3, <2>4, <2>5, <2>6 DEF UserGo, FilePC
  <2>8. ~Owed
    BY <1>2, <2>1 DEF NoRow
  <2> QED BY <1>3, <2>1, <2>2, <2>3, <2>4, <2>7, <2>8, UserMove
<1>9. CASE GetRev(t)
  <2> DEFINE s == [r EXCEPT !.pc = "put", !.rev = IF doc.body = Absent THEN r.rev ELSE doc.rev]
  <2>1. /\ Move(t, s) /\ mode' = mode /\ r.pc = "get" /\ cache' = cache
        /\ UNCHANGED <<disk, pending, doc, since, buf, pos, latest>>
    BY <1>9 DEF GetRev, stored, feed, history
  <2>2. /\ s.pc = "put" /\ s.own = r.own /\ s.data = r.data /\ s.side = "fs"
        /\ doc.body = Absent => s.rev = r.rev
        /\ doc.body # Absent => s.rev = doc.rev
    BY <1>1, <1>2 DEF ThreadState
  <2> HIDE DEF s
  <2>3. thread'[t] = s /\ \A u \in Thread \ {t} : thread'[u] = thread[u]
    BY <1>1, <2>1, Moves
  <2>4. NoRow'
    BY <1>1, <1>2, <2>1, <2>3, Threads DEF NoRow, Owed
  <2>5. Accepts(s) /\ doc' = doc
    BY <1>2, <2>1, <2>2, ContentHash DEF Accepts
  <2>6. UserGo(t)'
    BY <1>2, <2>1, <2>2, <2>3, <2>4, <2>5 DEF UserGo, FilePC, Accepts
  <2> QED BY <1>3, <2>1, <2>2, <2>3, <2>6, UserMove
<1>10. CASE PutDoc(t)
  <2>1. /\ Goto(t, "stat") /\ mode' = mode /\ cache' = cache /\ r.pc = "put"
        /\ WriteDoc(r.data)
        /\ UNCHANGED <<disk, stat, pending, since, buf, pos, latest>>
    BY <1>10 DEF PutDoc, stored, feed, history
  <2>2. doc'.rev = doc.rev + 1 /\ doc'.body = r.data /\ doc.rev \in Nat
    BY <1>1, <2>1 DEF WriteDoc
  <2>3. NoRow /\ r.data \in Content /\ r.data # Absent /\ cache["db"] = r.data
    BY <1>2, <2>1, ContentHash
  <2>4. /\ thread'[t].pc = "stat" /\ thread'["feed"] = thread["feed"]
        /\ \A u \in FileThread \ {t} : thread'[u] = Idle
    BY <1>1, <2>1, Goes, Threads, UserOneThread
  <2>5. \A u \in FileThread : UserGo(u)'
    <3>1. UserGo(t)'
      BY <1>1, <1>2, <2>1, <2>3, Goes DEF UserGo, FilePC
    <3> QED BY <2>4, <3>1, UserGoIdle
  <2>6. Phases'
    <3>1. r.pc # "idle"
      BY <2>1
    <3>2. thread'["timer"].pc # "idle" => thread["timer"].pc # "idle"
      BY <2>4, <3>1, IdleFields DEF FileThread
    <3> QED BY <2>1, <2>4, <3>2 DEF UserInv, Phases
  <2>7. Written'
    BY <2>1, <2>2, <2>3 DEF UserInv, Written
  <2>8. EchoGo'
    BY <2>3, <2>4 DEF NoRow, Owed, EchoGo
  <2>9. OwnRows'
    <3>1. buf = <<>> /\ Len(buf) = 0
      BY <2>3 DEF NoRow
    <3>2. /\ since' \in Nat => since' <= doc'.rev
          /\ pos' <= doc'.rev /\ pos' # doc'.rev
      BY <1>1, <2>1, <2>2 DEF UserInv, OwnRows
    <3> QED BY <2>1, <3>1, <3>2 DEF OwnRows
  <2>10. Recognised'
    BY <2>1, <2>2, <2>3 DEF Recognised
  <2>11. Beginning'
    <3>1. disk' # Absent /\ since' # Unset
      BY <2>1, UserOneThread
    <3>2. mode'.fs \in {"down", "changes"} => thread'["scan"].pc # "idle"
      BY <2>1, <2>4, UserOneThread DEF FileThread
    <3> QED BY <3>1, <3>2 DEF Beginning
  <2> QED BY <1>3, <2>5, <2>6, <2>7, <2>8, <2>9, <2>10, <2>11 DEF UserInv
<1>11. CASE OwnStat(t)
  <2>1. /\ Leave(t) /\ UNCHANGED <<disk, pending, doc, since, buf, pos, latest>> /\ cache' = cache
        /\ r.pc = "stat"
    BY <1>11 DEF OwnStat, feed, history
  <2> QED BY <1>5, <2>1
<1>12. CASE PutDocFails(t)
  <2>1. /\ Leave(t) /\ UNCHANGED <<disk, pending, doc, since, buf, pos, latest>> /\ cache' = cache
        /\ r.pc # "idle"
    BY <1>12 DEF PutDocFails, stored, feed
  <2> QED BY <1>5, <2>1
<1>13. /\ ~SeenBefore(t) /\ ~DispatchDone(t) /\ ~KeepLocal(t) /\ ~AcceptRemote(t) /\ ~Unresolved(t)
       /\ ~ForceDoc(t) /\ ~OfferFile(t) /\ ~WriteDisk(t) /\ ~PutStat(t) /\ ~PutMark(t)
       /\ ~WriteDiskFails(t)
  BY <1>2 DEF FilePC, SeenBefore, DispatchDone, KeepLocal, AcceptRemote, Unresolved, ForceDoc, OfferFile,
       WriteDisk, PutStat, PutMark, WriteDiskFails
<1>14. ~Conflict(t)
  BY <1>2 DEF Conflict
<1>15. ~DeleteGone(t)
  BY <1>2, ContentHash DEF DeleteGone, Gone, FilePC
<1>16. ~LookupFails(t) /\ ~RereadFails(t)
  BY DEF LookupFails, RereadFails, Fault, OnlyUser
<1> QED BY <1>6, <1>7, <1>8, <1>9, <1>10, <1>11, <1>12, <1>13, <1>14, <1>15, <1>16
        DEF ThreadStep, ThreadFails

LEMMA UserEcho ==
    ASSUME UserInv, ThreadStep("feed") \/ ThreadFails("feed")
    PROVE  UserInv'
<1> DEFINE r == thread["feed"]
<1>1. /\ "feed" \in Thread /\ "feed" \notin FileThread /\ TypeInv
      /\ r.pc \in {"idle", "seen"} /\ (r.pc = "seen" => r.data = doc.body)
  BY Threads DEF UserInv, EchoGo
<1>2. SeenBefore("feed")
  BY <1>1 DEF ThreadStep, ReadFile, CheckRepeating, Mark, DispatchDone, OwnStat, OfferDoc, MarkDoc, GetRev,
       PutDoc, DeleteGone, Conflict, KeepLocal, AcceptRemote, Unresolved, ForceDoc, OfferFile, WriteDisk,
       PutStat, PutMark, ThreadFails, PutDocFails, LookupFails, RereadFails, WriteDiskFails
<1>3. /\ r.pc = "seen" /\ Owed /\ r.data \in Content /\ cache["db"] = r.data
  BY <1>1, <1>2 DEF SeenBefore, UserInv, Recognised, Owed, Written
<1>4. Leave("feed")
  BY <1>2, <1>3, ContentHash DEF SeenBefore, IsRepeating
<1>5. UNCHANGED <<disk, stat, since, pending, doc, buf, pos, cache, latest>>
  BY <1>2 DEF SeenBefore, stored, feed, history
<1>6. /\ thread'["feed"] = Idle /\ \A u \in Thread \ {"feed"} : thread'[u] = thread[u]
      /\ mode'.fs = mode.fs /\ mode'.db = IF mode.db = "scan" THEN "scanned" ELSE mode.db
  BY <1>1, <1>4, Leaves
<1>7. TypeInv'
  BY <1>1, TypeThread, <1>2 DEF ThreadStep
<1>8. ~NoRow
  BY <1>3 DEF NoRow
<1>9. \A t \in FileThread : UserGo(t)'
  BY <1>1, <1>5, <1>6, <1>8, UserGoStays, Threads
<1>10. Phases'
  BY <1>1, <1>5, <1>6, Threads, IdleFields DEF UserInv, Phases
<1>11. EchoGo' /\ Written' /\ OwnRows'
  BY <1>5, <1>6, IdleFields DEF EchoGo, UserInv, Written, OwnRows
<1>12. Recognised'
  BY <1>3, <1>5 DEF UserInv, Recognised
<1>13. Beginning'
  BY <1>1, <1>5, <1>6, <1>8, Threads DEF UserInv, Beginning
<1> QED BY <1>7, <1>9, <1>10, <1>11, <1>12, <1>13 DEF UserInv

LEMMA UserSaves ==
    ASSUME UserInv, OnlyUser, NEW f \in Edits, UserEdit(f) \/ RemoteEdit(f)
    PROVE  UserInv'
<1>1. UserEdit(f) /\ f \in Content /\ f # Absent
  BY ContentHash DEF OnlyUser, RemoteEdit, Edits
<1>2. /\ UNCHANGED <<doc, since, buf, pos, mode, cache, thread>>
      /\ disk' = f /\ latest' = f
      /\ mode.fs = "up" /\ mode.db = "on"
  BY <1>1 DEF UserEdit, Edited, MayEdit, Running, WriteFile, feed, OnlyUser
<1>3. TypeInv' /\ since # Unset
  BY <1>2, TypeEdit DEF UserInv, TypeInv, Shape
<1>4. (Owed' <=> Owed) /\ (NoRow' <=> NoRow)
  BY <1>2 DEF Owed, NoRow
<1>5. \A t \in FileThread : UserGo(t)'
  BY <1>2, <1>4, UserGoStays
<1>6. Phases'
  BY <1>2 DEF UserInv, Phases
<1>7. Written' /\ EchoGo' /\ OwnRows'
  BY <1>1, <1>2 DEF UserInv, Written, EchoGo, OwnRows
<1>8. Recognised' /\ Beginning'
  BY <1>1, <1>2, <1>3, <1>4 DEF UserInv, Recognised, Beginning
<1> QED BY <1>3, <1>5, <1>6, <1>7, <1>8 DEF UserInv

LEMMA UserScans ==
    ASSUME UserInv, ScanChanges \/ ScanDeletions
    PROVE  UserInv'
<1> DEFINE r == thread["scan"]
<1>1. /\ "scan" \in Thread /\ "scan" \in FileThread /\ TypeInv /\ r = Idle
      /\ "feed" \in Thread \ {"scan"} /\ "timer" \in Thread \ {"scan"}
      /\ mode.fs \in {"changes", "deletions"}
  BY Threads DEF UserInv, UserGo, ScanChanges, ScanDeletions
<1>2. TypeInv'
  BY <1>1, TypeStart DEF Start
<1>3. UNCHANGED <<disk, stat, pending, doc, since, buf, pos, cache, latest>>
  BY DEF ScanChanges, ScanDeletions, stored, feed, history
<1>4. \/ Leave("scan")
      \/ mode' = mode /\ mode.fs = "changes" /\ Goto("scan", "read") /\ disk # Absent
  BY <1>1 DEF ScanChanges, ScanDeletions, UserInv, Beginning
<1>5. /\ \A u \in Thread \ {"scan"} : thread'[u] = thread[u]
      /\ mode'.db = mode.db
      /\ \/ thread'["scan"] = Idle /\ mode'.fs \in {"deletions", "up"}
         \/ /\ thread'["scan"].pc = "read" /\ thread'["scan"].side = "fs"
            /\ mode'.fs = "changes" /\ mode.fs = "changes" /\ disk # Absent
  BY <1>1, <1>4, Leaves, Goes, IdleFields
<1>6. (Owed' <=> Owed) /\ (NoRow' <=> NoRow)
  BY <1>1, <1>3, <1>5 DEF Owed, NoRow
<1>7. mode.fs = "changes" => NoRow
  BY <1>1, IdleFields DEF UserInv, Beginning
<1>8. UserGo("scan")'
  <2>1. CASE thread'["scan"] = Idle
    BY <1>1, <2>1, UserGoIdle
  <2>2. CASE thread'["scan"] # Idle
    BY <1>5, <1>6, <1>7, <2>2 DEF UserGo, FilePC
  <2> QED BY <2>1, <2>2
<1>9. UserGo("timer")'
  BY <1>1, <1>3, <1>5, <1>6, UserGoStays, Threads
<1>10. Phases'
  BY <1>1, <1>3, <1>5 DEF UserInv, Phases
<1>11. Written' /\ EchoGo' /\ OwnRows' /\ Recognised'
  BY <1>1, <1>3, <1>5, <1>6 DEF UserInv, Written, EchoGo, OwnRows, Recognised
<1>12. Beginning'
  BY <1>1, <1>3, <1>5, <1>6, IdleFields DEF UserInv, Beginning, FileThread
<1> QED BY <1>2, <1>8, <1>9, <1>10, <1>11, <1>12 DEF UserInv, FileThread

LEMMA UserStart ==
    ASSUME UserInv, Boot \/ ScanDocument \/ FinishScan
    PROVE  UserInv'
<1>1. /\ "feed" \in Thread /\ "feed" \notin FileThread /\ TypeInv /\ mode \in ModeType
      /\ since \in Nat \cup {Unset, Now}
  BY Threads DEF UserInv, TypeInv, TypeOK, ModeType
<1>2. TypeInv'
  BY <1>1, TypeStart DEF Start
<1>3. UNCHANGED <<disk, stat, pending, doc, buf, pos, cache, latest>>
  BY DEF Boot, ScanDocument, FinishScan, stored, feed, history
<1>4. CASE ScanDocument
  <2>1. /\ mode.db = "scan" /\ since = Unset /\ since' = since /\ thread["feed"].pc = "idle"
    BY <1>4 DEF ScanDocument, UserInv, Phases, stored
  <2>2. Leave("feed")
    BY <1>4, <2>1 DEF ScanDocument, UserInv, Beginning
  <2>3. /\ thread'["feed"] = Idle /\ \A u \in Thread \ {"feed"} : thread'[u] = thread[u]
        /\ mode'.fs = mode.fs /\ mode'.db = "scanned"
    BY <1>1, <2>1, <2>2, Leaves
  <2>4. NoRow => NoRow'
    BY <1>3, <2>1, <2>3, IdleFields DEF NoRow, Owed
  <2>5. ~Owed'
    BY <2>1, <2>3, IdleFields DEF Owed
  <2>6. \A t \in FileThread : UserGo(t)'
    BY <1>1, <1>3, <2>3, <2>4, UserGoStays, Threads
  <2>7. Phases'
    BY <1>1, <1>3, <2>1, <2>3, Threads, IdleFields DEF UserInv, Phases
  <2>8. Written' /\ EchoGo' /\ OwnRows' /\ Recognised'
    BY <1>3, <2>1, <2>3, <2>5, IdleFields DEF UserInv, Written, EchoGo, OwnRows, Recognised
  <2>9. Beginning'
    BY <1>1, <1>3, <2>1, <2>3, <2>4, Threads DEF UserInv, Beginning
  <2> QED BY <1>2, <2>6, <2>7, <2>8, <2>9 DEF UserInv
<1>5. CASE Boot \/ FinishScan
  <2>1. /\ thread' = thread /\ mode.db \in {"down", "scanned"} /\ mode'.db \in {"scan", "off"}
        /\ since' = since \/ since' = Now
        /\ mode'.fs = mode.fs \/ (mode'.fs = "changes" /\ mode.fs = "down")
        /\ mode'.db = "scan" => since' = Unset /\ since = Unset
        /\ mode.fs = "down" <=> mode.db = "down"
        /\ mode.db = "down" => mode'.fs = "changes"
    BY <1>1, <1>5 DEF Boot, FinishScan, Stopped, stored, ModeType, UserInv, Phases
  <2>2. Owed' => Owed
    BY <1>3, <2>1 DEF Owed
  <2>3. NoRow => NoRow'
    BY <1>3, <2>2 DEF NoRow
  <2>4. \A t \in FileThread : UserGo(t)'
    BY <1>3, <2>1, <2>3, UserGoStays
  <2>5. Phases'
    <3>1. thread["feed"].pc = "idle"
      BY <2>1 DEF UserInv, Phases
    <3> QED BY <1>3, <2>1, <3>1 DEF UserInv, Phases
  <2>6. Written' /\ EchoGo' /\ Recognised'
    BY <1>3, <2>1, <2>2 DEF UserInv, Written, EchoGo, Recognised
  <2>7. OwnRows' /\ Beginning'
    BY <1>3, <2>1, <2>3 DEF UserInv, OwnRows, Beginning
  <2> QED BY <1>2, <2>4, <2>5, <2>6, <2>7 DEF UserInv
<1> QED BY <1>4, <1>5

LEMMA UserTimer ==
    ASSUME UserInv, OnlyUser, FireTimer
    PROVE  UserInv'
<1>1. /\ "timer" \in Thread /\ "timer" \in FileThread /\ TypeInv /\ thread["timer"] = Idle
      /\ "feed" \in Thread \ {"timer"} /\ "scan" \in Thread \ {"timer"}
      /\ pending /\ mode.fs = "up" /\ disk # Absent
  BY Threads DEF UserInv, UserGo, FireTimer, Phases, Beginning
<1>2. TypeInv'
  BY <1>1, TypeTimer
<1>3. UNCHANGED <<disk, stat, doc, since, buf, pos, mode, cache, latest>> /\ ~pending'
  BY DEF FireTimer, stored, feed, history
<1>4. /\ thread'["timer"].pc = "read" /\ thread'["timer"].side = "fs"
      /\ \A u \in Thread \ {"timer"} : thread'[u] = thread[u]
  BY <1>1, Goes, IdleFields DEF FireTimer
<1>5. NoRow
  BY DEF FireTimer, OnlyUser, Drained, NoRow, Owed, UserInv, OwnRows
<1>6. (Owed' <=> Owed) /\ NoRow'
  BY <1>1, <1>3, <1>4, <1>5 DEF Owed, NoRow
<1>7. UserGo("timer")' /\ UserGo("scan")'
  <2>1. UserGo("timer")'
    BY <1>4, <1>6 DEF UserGo, FilePC
  <2> QED BY <1>1, <1>3, <1>4, <1>6, <2>1, UserGoStays, Threads
<1>8. Phases'
  BY <1>1, <1>3, <1>4 DEF UserInv, Phases
<1>9. Written' /\ EchoGo' /\ OwnRows' /\ Recognised'
  BY <1>1, <1>3, <1>4, <1>6 DEF UserInv, Written, EchoGo, OwnRows, Recognised
<1>10. Beginning'
  BY <1>1, <1>3, <1>6 DEF UserInv, Beginning
<1> QED BY <1>2, <1>7, <1>8, <1>9, <1>10 DEF UserInv, FileThread

LEMMA UserFeed ==
    ASSUME UserInv, Feed
    PROVE  UserInv'
<1>1. /\ "feed" \in Thread /\ "feed" \notin FileThread /\ TypeInv
      /\ doc \in [rev : Nat, body : File] /\ buf \in Seq([rev : Nat, body : File])
      /\ pos \in Nat /\ since \in Nat \cup {Unset, Now} /\ mode \in ModeType
  BY Threads DEF UserInv, TypeInv, TypeOK, ModeType
<1>2. TypeInv'
  BY <1>1, TypeFeed
<1>3. UNCHANGED <<disk, stat, pending, doc, cache, latest>>
  BY DEF Feed, Connect, SendRow, TakeRow, stored, history
<1>4. \A t \in Thread \ {"feed"} : thread'[t] = thread[t]
  BY <1>1, Moves DEF Feed, Connect, SendRow, TakeRow
<1>5. Written'
  BY <1>3 DEF UserInv, Written
<1>6. CASE Connect
  <2>1. /\ UNCHANGED <<since, thread>> /\ mode.db = "off" /\ mode'.db = "on" /\ mode'.fs = mode.fs
        /\ buf' = <<>> /\ pos' = (IF since = Now THEN doc.rev ELSE since)
        /\ thread["feed"].pc = "idle" /\ since # Unset
    BY <1>1, <1>6 DEF Connect, stored, ModeType, UserInv, TypeInv, Shape
  <2>2. Owed' => Owed
    BY <1>1, <1>3, <2>1 DEF Owed
  <2>3. NoRow => NoRow'
    BY <2>1, <2>2 DEF NoRow
  <2>4. \A t \in FileThread : UserGo(t)'
    BY <1>3, <2>1, <2>3, UserGoStays
  <2>5. Phases' /\ EchoGo' /\ Recognised' /\ Beginning'
    BY <1>3, <2>1, <2>2, <2>3 DEF UserInv, Phases, EchoGo, Recognised, Beginning
  <2>6. OwnRows'
    <3>1. since \in Nat => pos' = since
      BY <2>1
    <3>2. pos' <= doc.rev
      BY <1>1, <2>1 DEF UserInv, OwnRows
    <3>3. Len(buf') = 0
      BY <2>1
    <3> QED BY <1>3, <2>1, <3>1, <3>2, <3>3 DEF UserInv, OwnRows
  <2> QED BY <1>2, <1>5, <2>4, <2>5, <2>6 DEF UserInv
<1>7. CASE SendRow
  <2>1. /\ UNCHANGED <<since, thread, mode>> /\ mode.db = "on" /\ pos < doc.rev /\ pos # doc.rev
        /\ buf' = Append(buf, doc) /\ pos' = doc.rev
    BY <1>1, <1>7 DEF SendRow, stored
  <2>2. Owed /\ ~NoRow /\ buf = <<>>
    BY <2>1 DEF Owed, NoRow, UserInv, OwnRows
  <2>3. Len(buf') = 1 /\ buf'[1] = doc /\ buf' # <<>>
    BY <1>1, <2>1, <2>2, AppendProperties
  <2>4. \A t \in FileThread : UserGo(t)'
    BY <1>3, <2>1, <2>2, UserGoStays
  <2>5. Phases' /\ EchoGo' /\ Recognised' /\ Beginning'
    BY <1>3, <2>1, <2>2 DEF UserInv, Phases, EchoGo, Recognised, Beginning
  <2>6. OwnRows'
    <3>1. \A i \in 1..Len(buf') : buf'[i] = doc
      BY <2>3
    <3> QED BY <1>1, <1>3, <2>1, <2>3, <3>1 DEF UserInv, OwnRows
  <2> QED BY <1>2, <1>5, <2>4, <2>5, <2>6 DEF UserInv
<1>8. CASE TakeRow
  <2> DEFINE d == Head(buf)
  <2>1. /\ UNCHANGED <<mode, pos>> /\ mode.db = "on" /\ buf # <<>> /\ pos = doc.rev
        /\ since' = d.rev /\ buf' = Tail(buf) /\ thread["feed"].pc = "idle"
    BY <1>8 DEF TakeRow, UserInv, OwnRows
  <2>2. /\ Len(buf) \in Nat /\ Len(buf) # 0 /\ Len(Tail(buf)) = Len(buf) - 1
        /\ \A i \in 1..Len(Tail(buf)) : Tail(buf)[i] = buf[i + 1]
    BY <1>1, <2>1, HeadTailProperties, EmptySeq, LenProperties
  <2>3. d = buf[1] /\ 1 \in 1..Len(buf)
    BY <1>1, <2>1, <2>2
  <2>4. d = doc
    BY <2>3 DEF UserInv, OwnRows
  <2>5. \A i \in 1..Len(buf') : buf'[i] = doc
    <3> SUFFICES ASSUME NEW i \in 1..Len(Tail(buf)) PROVE Tail(buf)[i] = doc
      BY <2>1
    <3>1. i + 1 \in 1..Len(buf)
      BY <2>2
    <3> QED BY <2>2, <3>1 DEF UserInv, OwnRows
  <2>6. Owed /\ ~NoRow /\ doc.body # Absent /\ cache["db"] = doc.body
    BY <2>1 DEF Owed, NoRow, UserInv, Recognised
  <2> HIDE DEF d
  <2>7. Move("feed", Row(doc))
    BY <1>8, <2>4, <2>6 DEF TakeRow, d
  <2>8. /\ thread'["feed"].pc = "seen" /\ thread'["feed"].data = doc.body
    <3>1. thread'["feed"] = Row(doc)
      BY <1>1, <2>7, Moves
    <3>2. Row(doc).pc = "seen" /\ Row(doc).data = doc.body
      BY DEF Row, Idle
    <3> QED BY <3>1, <3>2
  <2>9. \A t \in FileThread : UserGo(t)'
    BY <1>1, <1>3, <1>4, <2>6, UserGoStays, Threads
  <2>10. Phases' /\ EchoGo'
    BY <1>1, <1>3, <1>4, <2>1, <2>4, <2>8, Threads DEF UserInv, Phases, EchoGo
  <2>11. OwnRows'
    BY <1>1, <1>3, <2>1, <2>4, <2>5 DEF OwnRows
  <2>12. Recognised'
    BY <1>3, <2>6 DEF Recognised
  <2>13. Beginning'
    BY <1>1, <1>3, <1>4, <2>1, <2>4, <2>6, Threads DEF UserInv, Beginning
  <2> QED BY <1>2, <1>5, <2>9, <2>10, <2>11, <2>12, <2>13 DEF UserInv
<1> QED BY <1>6, <1>7, <1>8 DEF Feed

LEMMA UserFault ==
    ASSUME UserInv, OnlyUser, Crash \/ Disconnect
    PROVE  UserInv'
<1>1. TypeInv /\ TypeInv' /\ since \in Nat \cup {Unset, Now} /\ doc.rev \in Nat /\ pos \in Nat
  BY TypeFault DEF UserInv, TypeInv, TypeOK
<1>2. UNCHANGED <<disk, stat, since, doc, latest>>
  BY DEF Crash, Disconnect, stored
<1>3. CASE Crash
  <2>1. /\ \A t \in Thread : thread'[t] = Idle
        /\ mode'.fs = "down" /\ mode'.db = "down" /\ ~pending'
        /\ buf' = <<>> /\ pos' = 0 /\ AtRest /\ ~Stopped
    BY <1>3 DEF Crash, Fault, OnlyUser
  <2>2. since \in Nat => since = doc.rev
    BY <2>1 DEF AtRest, UserInv, OwnRows
  <2>3. NoRow' /\ ~Owed'
    BY <1>2, <2>1, <2>2, Threads, IdleFields DEF NoRow, Owed
  <2>4. \A t \in FileThread : UserGo(t)'
    BY <2>1, Threads, UserGoIdle
  <2>5. Phases' /\ EchoGo'
    BY <2>1, Threads, IdleFields DEF Phases, EchoGo
  <2>6. OwnRows'
    <3>1. Len(buf') = 0
      BY <2>1
    <3> QED BY <1>1, <1>2, <2>1, <2>2, <3>1 DEF OwnRows
  <2>7. Written' /\ Recognised' /\ Beginning'
    BY <1>2, <2>1, <2>3, Threads, IdleFields DEF UserInv, Written, Recognised, Beginning
  <2> QED BY <1>1, <2>4, <2>5, <2>6, <2>7 DEF UserInv
<1>4. CASE Disconnect
  <2>1. /\ UNCHANGED <<thread, pending, buf, pos, cache>> /\ thread["feed"].pc = "idle"
        /\ mode.db = "on" /\ mode'.db = "off" /\ mode'.fs = mode.fs
    BY <1>4 DEF Disconnect, feed, UserInv, TypeInv, TypeOK
  <2>2. Owed' => Owed
    BY <1>2, <2>1 DEF Owed, UserInv, OwnRows
  <2>3. NoRow => NoRow'
    BY <2>1, <2>2 DEF NoRow
  <2>4. \A t \in FileThread : UserGo(t)'
    BY <1>2, <2>1, <2>3, UserGoStays
  <2>5. Phases' /\ EchoGo' /\ OwnRows' /\ Written'
    BY <1>2, <2>1 DEF UserInv, Phases, EchoGo, OwnRows, Written
  <2>6. Recognised' /\ Beginning'
    BY <1>2, <2>1, <2>2, <2>3 DEF UserInv, Recognised, Beginning
  <2> QED BY <1>1, <2>4, <2>5, <2>6 DEF UserInv
<1> QED BY <1>3, <1>4

LEMMA UserInit == Init => UserInv
<1> SUFFICES ASSUME Init PROVE UserInv
  OBVIOUS
<1>1. \A t \in Thread : thread[t] = Idle
  BY DEF Init
<1>2. \A t \in FileThread : UserGo(t)
  BY <1>1, Threads, IdleFields DEF UserGo, FilePC
<1>3. EchoGo /\ Phases /\ NoRow /\ ~Owed
  BY <1>1, Threads, IdleFields DEF Init, EchoGo, Phases, NoRow, Owed
<1>4. Written /\ Recognised
  BY <1>3 DEF Init, Written, Recognised
<1>5. Beginning
  BY <1>1, <1>3, Threads, IdleFields DEF Init, Beginning
<1>6. OwnRows
  <2>1. Len(buf) = 0
    BY DEF Init
  <2> QED BY <2>1 DEF Init, OwnRows
<1> QED BY <1>2, <1>3, <1>4, <1>5, <1>6, TypeInit DEF UserInv

LEMMA UserStep ==
    ASSUME OnlyUser
    PROVE  UserInv /\ [Next]_vars => UserInv'
<1> SUFFICES ASSUME UserInv, [Next]_vars PROVE UserInv'
  OBVIOUS
<1>1. CASE \E t \in Thread : ThreadStep(t) \/ ThreadFails(t)
  <2>1. PICK t \in Thread : ThreadStep(t) \/ ThreadFails(t)
    BY <1>1
  <2> QED BY <2>1, UserFile, UserEcho, Threads
<1>2. CASE \E f \in Edits : UserEdit(f) \/ RemoteEdit(f)
  BY <1>2, UserSaves
<1>3. CASE UNCHANGED vars
  <2>1. UNCHANGED <<disk, stat, pending, doc, since, meta, buf, pos, mode, cache, thread, latest>>
    BY <1>3 DEF vars
  <2>2. (Owed' <=> Owed) /\ (NoRow' <=> NoRow)
    BY <2>1 DEF Owed, NoRow
  <2>3. \A t \in FileThread : UserGo(t)'
    BY <2>1, <2>2, UserGoStays
  <2>4. Phases' /\ EchoGo' /\ OwnRows' /\ Written' /\ Recognised' /\ Beginning'
    BY <2>1, <2>2 DEF UserInv, Phases, EchoGo, OwnRows, Written, Recognised, Beginning
  <2>5. TypeInv'
    BY <1>3, TypeStep DEF UserInv
  <2> QED BY <2>3, <2>4, <2>5 DEF UserInv
<1>4. CASE Start \/ FireTimer \/ Feed \/ Crash \/ Disconnect
  BY <1>4, UserScans, UserStart, UserTimer, UserFeed, UserFault DEF Start
<1> QED BY <1>1, <1>2, <1>3, <1>4 DEF Next

(* While only the user edits, who saves as often and as fast as they like:
   nothing the feed reports of the bridge's own writes, nothing the watcher
   sees and no scan after a restart ever changes the file back (watchChanges'
   IsRepeating), whatever breaks or fails in between. *)
THEOREM UserUndisturbed ==
    ASSUME OnlyUser
    PROVE  Spec => []EditorUndisturbed
<1>1. UserInv => EditorUndisturbed
  BY DEF UserInv, Written, EditorUndisturbed, OnlyUser
<1> QED BY <1>1, UserInit, UserStep, PTL DEF Spec

(* What the user saved and the document does not have is on its way. *)
Sends(t) ==
    LET r == thread[t] IN
    \/ r.pc = "read"
    \/ r.pc \notin {"idle", "read", "stat"} /\ r.data = disk

SaveComing ==
    \/ pending
    \/ /\ \A t \in FileThread : thread[t].pc \notin {"idle", "read", "stat"} => thread[t].data = disk
       /\ doc.body = disk \/ \E t \in FileThread : Sends(t)

(* Between two dispatches the caches know only what the document has. *)
CachesKnow ==
    /\ (\A t \in FileThread : thread[t].pc \notin {"dbcheck", "dbmark", "get", "put"}) =>
          cache["fs"] \in {NoHash, DispatchHash(doc.body)}
    /\ (\A t \in FileThread : thread[t].pc \notin {"get", "put"}) =>
          cache["db"] \in {NoHash, DispatchHash(doc.body)}
    /\ \A t \in FileThread :
          thread[t].pc \in {"dbcheck", "dbmark", "get", "put"} => cache["fs"] = thread[t].data

SavedInv == UserInv /\ SaveComing /\ CachesKnow

(* A goroutine that goes on carrying what it carries. *)
LEMMA SavesMove ==
    ASSUME SaveComing, UNCHANGED <<disk, doc, pending>>, NEW t \in FileThread,
           \A u \in FileThread \ {t} : thread'[u] = thread[u],
           \/ thread'[t].pc \in {"idle", "stat"}
           \/ thread'[t].pc # "read" /\ (thread'[t].data = disk \/ thread'[t].data = thread[t].data)
              /\ (thread[t].pc \in {"idle", "read", "stat"} => thread'[t].data = disk),
           Sends(t) => Sends(t)' \/ doc.body = disk
    PROVE  SaveComing'
BY DEF SaveComing, Sends

(* The dispatch of what the document does not have is not taken for a repetition. *)
LEMMA SavedFile ==
    ASSUME SavedInv, OnlyUser, NEW t \in FileThread, "fail" \notin Faults,
           ThreadStep(t) \/ ThreadFails(t)
    PROVE  SaveComing' /\ CachesKnow'
<1> DEFINE r == thread[t]
<1>1. /\ t \in Thread /\ r \in ThreadState /\ doc \in [rev : Nat, body : File]
      /\ TypeInv /\ UserInv /\ cache \in [Side -> Hash] /\ SaveComing
  BY Threads DEF SavedInv, UserInv, TypeInv, TypeOK
<1>2. /\ r.pc \in FilePC /\ r.side = "fs"
      /\ r.pc \notin {"idle", "read"} => r.data \in Content
      /\ r.pc \in {"get", "put"} => cache["db"] = r.data
      /\ r.pc = "put" => Accepts(r)
  BY <1>1 DEF UserInv, UserGo
<1>3. r.pc # "idle" => /\ disk \in Content /\ disk # Absent
                       /\ \A u \in FileThread \ {t} : thread[u] = Idle
  BY <1>1, UserOneThread
<1>4. doc.body \in Content => DispatchHash(doc.body) = doc.body
  BY ContentHash
<1>5. doc.body \notin Content => doc.body = Absent /\ DispatchHash(doc.body) \notin Content
  BY <1>1, HashesDistinct DEF UserInv, Written, DispatchHash, Bytes
<1>6. CASE ReadFile(t)
  <2> DEFINE s == [r EXCEPT !.pc = "check", !.own = disk, !.data = disk]
  <2>1. Move(t, s) /\ UNCHANGED <<disk, doc, pending, cache>> /\ r.pc = "read"
    BY <1>3, <1>6 DEF ReadFile, feed, stored
  <2>2. s.pc = "check" /\ s.data = disk
    BY <1>1 DEF ThreadState
  <2> HIDE DEF s
  <2>3. thread'[t] = s /\ \A u \in FileThread \ {t} : thread'[u] = thread[u]
    BY <1>1, <2>1, Moves, Threads
  <2>4. SaveComing'
    BY <1>1, <2>1, <2>2, <2>3, SavesMove DEF Sends
  <2>5. CachesKnow'
    BY <1>3, <2>1, <2>2, <2>3, IdleFields DEF SavedInv, CachesKnow
  <2> QED BY <2>4, <2>5
<1>7. CASE CheckRepeating(t)
  <2>1. /\ UNCHANGED <<disk, doc, pending, cache>> /\ r.pc = "check" /\ r.data \in Content
        /\ DispatchHash(r.data) = r.data
    BY <1>2, <1>7, ContentHash DEF CheckRepeating, feed, stored
  <2>2. \A u \in FileThread : thread[u].pc \notin {"dbcheck", "dbmark", "get", "put"}
    BY <1>3, <2>1, IdleFields
  <2>3. cache["fs"] \in {NoHash, DispatchHash(doc.body)} /\ cache["db"] \in {NoHash, DispatchHash(doc.body)}
    BY <2>2 DEF SavedInv, CachesKnow
  <2>4. /\ thread'[t].pc \in {"mark", "stat"} /\ thread'[t].data = r.data
        /\ thread'[t].pc = "stat" => cache["fs"] = r.data
        /\ \A u \in FileThread \ {t} : thread'[u] = thread[u]
    BY <1>1, <1>2, <1>7, <2>1, Goes, Threads DEF CheckRepeating, IsRepeating
  <2>5. thread'[t].pc = "stat" => doc.body = r.data
    BY <1>4, <1>5, <2>1, <2>3, <2>4, ContentHash
  <2>6. SaveComing'
    BY <1>1, <2>1, <2>4, <2>5, SavesMove DEF Sends
  <2>7. CachesKnow'
    BY <2>1, <2>2, <2>3, <2>4 DEF CachesKnow
  <2> QED BY <2>6, <2>7
<1>8. CASE Mark(t)
  <2>1. /\ UNCHANGED <<disk, doc, pending>> /\ r.pc = "mark" /\ Goto(t, "dbcheck")
        /\ cache' = MarkProcessed(cache, "fs", r.data)
    BY <1>2, <1>8, ContentHash DEF Mark, feed, stored
  <2>2. \A u \in FileThread : thread[u].pc \notin {"get", "put"}
    BY <1>3, <2>1, IdleFields
  <2>3. cache'["db"] \in {NoHash, DispatchHash(doc.body)}
    BY <1>1, <2>1, <2>2, Sides DEF SavedInv, CachesKnow, MarkProcessed
  <2>4. /\ thread'[t].pc = "dbcheck" /\ thread'[t].data = r.data
        /\ \A u \in FileThread \ {t} : thread'[u] = thread[u]
    BY <1>1, <2>1, Goes, Threads
  <2>5. SaveComing'
    BY <1>1, <2>1, <2>4, SavesMove DEF Sends
  <2>6. cache'["fs"] = r.data
    BY <1>1, <2>1, Sides DEF MarkProcessed
  <2>7. CachesKnow'
    BY <1>3, <2>1, <2>3, <2>4, <2>6, IdleFields DEF CachesKnow
  <2> QED BY <2>5, <2>7
<1>9. CASE OfferDoc(t)
  <2>1. /\ UNCHANGED <<disk, doc, pending, cache>> /\ r.pc = "dbcheck" /\ r.data \in Content
        /\ DeliverHash(r.data) = r.data
    BY <1>2, <1>9, ContentHash DEF OfferDoc, feed, stored
  <2>2. \A u \in FileThread : thread[u].pc \notin {"get", "put"}
    BY <1>3, <2>1, IdleFields
  <2>3. cache["db"] \in {NoHash, DispatchHash(doc.body)}
    BY <2>2 DEF SavedInv, CachesKnow
  <2>4. /\ thread'[t].pc \in {"dbmark", "stat"} /\ thread'[t].data = r.data
        /\ thread'[t].pc = "stat" => cache["db"] = r.data
        /\ \A u \in FileThread \ {t} : thread'[u] = thread[u]
    BY <1>1, <1>9, <2>1, Goes, Threads DEF OfferDoc, IsRepeating
  <2>5. thread'[t].pc = "stat" => doc.body = r.data
    BY <1>4, <1>5, <2>1, <2>3, <2>4, ContentHash
  <2>6. SaveComing'
    BY <1>1, <2>1, <2>4, <2>5, SavesMove DEF Sends
  <2>7. cache["fs"] = r.data
    BY <2>1 DEF SavedInv, CachesKnow
  <2>8. CachesKnow'
    BY <1>3, <1>4, <2>1, <2>3, <2>4, <2>5, <2>7, IdleFields DEF CachesKnow
  <2> QED BY <2>6, <2>8
<1>10. CASE MarkDoc(t)
  <2> DEFINE s == [r EXCEPT !.pc = "get", !.rev = 0]
  <2>1. r.pc = "dbmark" /\ r.data \in Content /\ r.data # Absent
    BY <1>2, <1>10, ContentHash DEF MarkDoc
  <2>2. /\ Move(t, s) /\ UNCHANGED <<disk, doc, pending>>
        /\ cache' = MarkProcessed(cache, "db", DeliverHash(r.data))
    BY <1>10, <2>1 DEF MarkDoc, feed, stored
  <2>3. s.pc = "get" /\ s.data = r.data
    BY <1>1 DEF ThreadState
  <2> HIDE DEF s
  <2>4. thread'[t] = s /\ \A u \in FileThread \ {t} : thread'[u] = thread[u]
    BY <1>1, <2>2, Moves, Threads
  <2>5. cache'["fs"] = r.data
    BY <1>1, <2>1, <2>2, Sides DEF SavedInv, CachesKnow, MarkProcessed
  <2>6. SaveComing'
    BY <1>1, <2>1, <2>2, <2>3, <2>4, SavesMove DEF Sends
  <2>7. CachesKnow'
    BY <1>3, <2>1, <2>3, <2>4, <2>5, IdleFields DEF CachesKnow
  <2> QED BY <2>6, <2>7
<1>11. CASE GetRev(t)
  <2> DEFINE s == [r EXCEPT !.pc = "put", !.rev = IF doc.body = Absent THEN r.rev ELSE doc.rev]
  <2>1. Move(t, s) /\ UNCHANGED <<disk, doc, pending, cache>> /\ r.pc = "get"
    BY <1>11 DEF GetRev, feed, stored
  <2>2. s.pc = "put" /\ s.data = r.data
    BY <1>1 DEF ThreadState
  <2> HIDE DEF s
  <2>3. thread'[t] = s /\ \A u \in FileThread \ {t} : thread'[u] = thread[u]
    BY <1>1, <2>1, Moves, Threads
  <2>4. SaveComing'
    BY <1>1, <2>1, <2>2, <2>3, SavesMove DEF Sends
  <2>5. CachesKnow'
    BY <1>3, <2>1, <2>2, <2>3, IdleFields DEF SavedInv, CachesKnow
  <2> QED BY <2>4, <2>5
<1>12. CASE PutDoc(t)
  <2>1. /\ Goto(t, "stat") /\ r.pc = "put" /\ WriteDoc(r.data) /\ UNCHANGED <<disk, pending, cache>>
    BY <1>12 DEF PutDoc, feed, stored
  <2>2. /\ doc'.body = r.data /\ r.data \in Content /\ DispatchHash(r.data) = r.data
        /\ cache["db"] = r.data /\ cache["fs"] = r.data
    BY <1>2, <2>1, ContentHash DEF WriteDoc, SavedInv, CachesKnow
  <2>3. /\ thread'[t].pc = "stat" /\ \A u \in FileThread \ {t} : thread'[u] = Idle
    BY <1>1, <1>3, <2>1, Goes, Threads
  <2>4. SaveComing'
    BY <1>3, <2>1, <2>2, <2>3, IdleFields DEF SavedInv, SaveComing, Sends
  <2>5. CachesKnow'
    BY <2>1, <2>2, <2>3, IdleFields DEF CachesKnow
  <2> QED BY <2>4, <2>5
<1>13. CASE OwnStat(t)
  <2>1. Leave(t) /\ UNCHANGED <<disk, doc, pending, cache>> /\ r.pc = "stat"
    BY <1>13 DEF OwnStat, feed
  <2>2. thread'[t] = Idle /\ \A u \in FileThread \ {t} : thread'[u] = thread[u]
    BY <1>1, <2>1, Leaves, Threads
  <2>3. SaveComing'
    BY <1>1, <2>1, <2>2, SavesMove, IdleFields DEF Sends
  <2>4. CachesKnow'
    BY <1>3, <2>1, <2>2, IdleFields DEF SavedInv, CachesKnow
  <2> QED BY <2>3, <2>4
<1>14. /\ ~SeenBefore(t) /\ ~DispatchDone(t) /\ ~KeepLocal(t) /\ ~AcceptRemote(t) /\ ~Unresolved(t)
       /\ ~ForceDoc(t) /\ ~OfferFile(t) /\ ~WriteDisk(t) /\ ~PutStat(t) /\ ~PutMark(t)
  BY <1>2 DEF FilePC, SeenBefore, DispatchDone, KeepLocal, AcceptRemote, Unresolved, ForceDoc, OfferFile,
       WriteDisk, PutStat, PutMark
<1>15. ~Conflict(t)
  BY <1>2 DEF Conflict
<1>16. ~DeleteGone(t)
  BY <1>2, ContentHash DEF DeleteGone, Gone, FilePC
<1>17. ~ThreadFails(t)
  BY DEF ThreadFails, WriteDiskFails, PutDocFails, LookupFails, RereadFails, Fault, OnlyUser
<1> QED BY <1>6, <1>7, <1>8, <1>9, <1>10, <1>11, <1>12, <1>13, <1>14, <1>15, <1>16, <1>17
        DEF ThreadStep

(* What does not touch the document and these goroutines leaves both. *)
LEMMA SavedStays ==
    ASSUME SavedInv, UNCHANGED <<disk, doc, cache>>, pending => pending',
           \A t \in FileThread : thread'[t] = thread[t]
    PROVE  SaveComing' /\ CachesKnow'
<1>1. SaveComing'
  BY DEF SavedInv, SaveComing, Sends
<1>2. CachesKnow'
  BY DEF SavedInv, CachesKnow
<1> QED BY <1>1, <1>2

LEMMA SavedOther ==
    ASSUME SavedInv, OnlyUser, "fail" \notin Faults,
           \/ \E f \in Edits : UserEdit(f) \/ RemoteEdit(f)
           \/ Start \/ FireTimer \/ Feed \/ Crash \/ Disconnect \/ UNCHANGED vars
           \/ ThreadStep("feed") \/ ThreadFails("feed")
    PROVE  SaveComing' /\ CachesKnow'
<1>1. /\ UserInv /\ TypeInv /\ "feed" \in Thread /\ "feed" \notin FileThread
      /\ "scan" \in Thread /\ "scan" \in FileThread /\ "timer" \in Thread /\ "timer" \in FileThread
      /\ FileThread = {"scan", "timer"}
  BY Threads DEF SavedInv, UserInv, FileThread
<1>2. CASE \E f \in Edits : UserEdit(f) \/ RemoteEdit(f)
  <2>1. pending' /\ UNCHANGED <<doc, cache, thread>>
    BY <1>2 DEF OnlyUser, UserEdit, RemoteEdit, Edited, MayEdit, Running, WriteFile
  <2> QED BY <2>1 DEF SavedInv, SaveComing, CachesKnow
<1>3. CASE ScanChanges \/ ScanDeletions
  <2>1. UNCHANGED <<disk, doc, pending, cache>> /\ thread["scan"] = Idle
    BY <1>1, <1>3 DEF ScanChanges, ScanDeletions, stored, feed, history, UserInv, UserGo
  <2>2. \/ Leave("scan")
        \/ Goto("scan", "read")
    BY <1>1, <1>3 DEF ScanChanges, ScanDeletions, UserInv, Beginning
  <2>3. /\ \A u \in Thread \ {"scan"} : thread'[u] = thread[u]
        /\ thread'["scan"].pc \in {"idle", "read"}
    BY <1>1, <2>2, Leaves, Goes, IdleFields
  <2>4. SaveComing'
    BY <1>1, <2>1, <2>3, IdleFields, Threads DEF SavedInv, SaveComing, Sends
  <2>5. CachesKnow'
    BY <1>1, <2>1, <2>3, IdleFields, Threads DEF SavedInv, CachesKnow
  <2> QED BY <2>4, <2>5
<1>4. CASE Boot \/ ScanDocument \/ FinishScan \/ Feed \/ Disconnect \/ UNCHANGED vars
  <2>1. UNCHANGED <<disk, doc, pending, cache>>
    BY <1>4 DEF Boot, ScanDocument, FinishScan, Feed, Connect, SendRow, TakeRow, Disconnect, vars,
         stored, feed, history
  <2>2. \A t \in FileThread : thread'[t] = thread[t]
    BY <1>1, <1>4, Moves, Leaves, Threads DEF Boot, ScanDocument, FinishScan, Feed, Connect, SendRow, TakeRow,
         Disconnect, vars
  <2> QED BY <2>1, <2>2, SavedStays
<1>5. CASE FireTimer
  <2>1. UNCHANGED <<disk, doc, cache>> /\ thread["timer"] = Idle /\ mode.fs = "up" /\ disk # Absent
    BY <1>1, <1>5 DEF FireTimer, stored, feed, history, UserInv, UserGo, Phases, Beginning
  <2>2. /\ thread'["timer"].pc = "read"
        /\ \A u \in Thread \ {"timer"} : thread'[u] = thread[u]
    BY <1>1, <1>5, <2>1, Goes DEF FireTimer
  <2>3. thread["scan"] = Idle /\ thread'["scan"] = Idle
    BY <1>1, <2>1, <2>2 DEF UserInv, TypeInv, Shape, UserGo
  <2>4. SaveComing'
    BY <1>1, <2>1, <2>2, <2>3, IdleFields DEF SaveComing, Sends
  <2>5. CachesKnow'
    BY <1>1, <2>1, <2>2, <2>3, IdleFields DEF SavedInv, CachesKnow
  <2> QED BY <2>4, <2>5
<1>6. CASE Crash
  <2>1. /\ AtRest /\ UNCHANGED <<disk, doc>> /\ \A t \in Thread : thread'[t] = Idle
        /\ \A s \in Side : cache'[s] = NoHash
    BY <1>6 DEF Crash, Fault, OnlyUser
  <2>2. doc.body = disk
    BY <1>1, <2>1, Threads DEF AtRest, SavedInv, SaveComing, Sends
  <2>3. SaveComing'
    BY <2>1, <2>2, Threads, IdleFields DEF SaveComing
  <2>4. CachesKnow'
    BY <2>1, Threads, IdleFields, Sides DEF CachesKnow
  <2> QED BY <2>3, <2>4
<1>7. CASE ThreadStep("feed") \/ ThreadFails("feed")
  <2>1. SeenBefore("feed")
    BY <1>1, <1>7 DEF UserInv, EchoGo, ThreadStep, ReadFile, CheckRepeating, Mark, DispatchDone, OwnStat,
         OfferDoc, MarkDoc, GetRev, PutDoc, DeleteGone, Conflict, KeepLocal, AcceptRemote, Unresolved, ForceDoc,
         OfferFile, WriteDisk, PutStat, PutMark, ThreadFails, PutDocFails, LookupFails, RereadFails,
         WriteDiskFails
  <2>2. UNCHANGED <<disk, doc, pending, cache>>
    BY <2>1 DEF SeenBefore, stored, feed, history
  <2>3. \A t \in FileThread : thread'[t] = thread[t]
    BY <1>1, <2>1, Leaves, Goes, Threads DEF SeenBefore
  <2> QED BY <2>2, <2>3, SavedStays
<1> QED BY <1>2, <1>3, <1>4, <1>5, <1>6, <1>7 DEF Start

LEMMA SavedInit == Init => SavedInv
<1> SUFFICES ASSUME Init PROVE SavedInv
  OBVIOUS
<1>1. \A t \in Thread : thread[t] = Idle
  BY DEF Init
<1>2. SaveComing
  BY <1>1, Threads, IdleFields DEF Init, SaveComing
<1>3. CachesKnow
  BY <1>1, Threads, IdleFields, Sides DEF Init, CachesKnow
<1> QED BY <1>2, <1>3, UserInit DEF SavedInv

LEMMA SavedStep ==
    ASSUME OnlyUser, "fail" \notin Faults
    PROVE  SavedInv /\ [Next]_vars => SavedInv'
<1> SUFFICES ASSUME SavedInv, [Next]_vars PROVE SavedInv'
  OBVIOUS
<1>1. UserInv'
  BY UserStep DEF SavedInv
<1>2. SaveComing' /\ CachesKnow'
  <2>1. CASE \E t \in Thread : ThreadStep(t) \/ ThreadFails(t)
    BY <2>1, SavedFile, SavedOther, Threads
  <2> QED BY <2>1, SavedOther DEF Next
<1> QED BY <1>1, <1>2 DEF SavedInv

(* While only the user edits and no request fails: whenever the bridge is up
   and has nothing left to do, the file and the document both hold what was
   saved last, however many saves overtook each other on the way (the debounce
   timers, DispatchFrom, putDocumentWithRetry). *)
THEOREM SavesArrive ==
    ASSUME OnlyUser, "fail" \notin Faults
    PROVE  Spec => []SyncAtRest
<1>1. SavedInv => SyncAtRest
  BY Threads DEF SavedInv, SaveComing, Sends, UserInv, Written, SyncAtRest, AtRest
<1> QED BY <1>1, SavedInit, SavedStep, PTL DEF Spec

=============================================================================
