------------------------- MODULE StorageTree_proofs -------------------------
(***************************************************************************)
(* A directory is never left unwatched, for any number of leaves, calls,   *)
(* edits and crashes, and whatever the users and the hub wait for.         *)
(***************************************************************************)
EXTENDS StorageTree, TLAPS

USE HashesDistinct, PathAssumption, ChoiceAssumption

Looker == Path \cup {Scanner}

LEMMA FoundWhat ==
    ASSUME NEW p \in Path
    PROVE  /\ Found(p) \in {"file", "directory", "not a directory", "missing"}
           /\ Found(p) = "directory" => p = Top /\ dir
           /\ p = Top /\ dir /\ file[Top] = Absent => Found(p) = "directory"
<1>1. CASE file[p] # Absent
  BY <1>1 DEF Found
<1>2. CASE file[p] = Absent /\ p = Top /\ dir
  BY <1>2 DEF Found
<1>3. CASE file[p] = Absent /\ p \in Leaf /\ file[Top] # Absent
  BY <1>3 DEF Found
<1>4. CASE file[p] = Absent /\ ~(p = Top /\ dir) /\ ~(p \in Leaf /\ file[Top] # Absent)
  BY <1>4 DEF Found
<1> QED BY <1>1, <1>2, <1>3, <1>4

(* The tree: what is true of it, and what the steps make of it. *)
TreeType ==
    /\ dir \in BOOLEAN /\ watched \in BOOLEAN /\ watched => dir
    /\ file \in [Path -> File]
    /\ \A p \in Path : file[p] # Absent => dir = (p \in Leaf)
    /\ events \subseteq Event

WatchInv == TypeOK /\ WatchKept

(* A step of the file system keeps the tree a tree, and a directory that it
   makes is announced if the peer is up. *)
TreeStep == TreeType' /\ (dir' /\ mode = "up" => watched' \/ <<"create", Top>> \in events')

(* What TypeOK says beyond the tree. *)
RestType ==
    /\ group \in [Path -> File]
    /\ entry \in [Path -> {"none", "armed", "fired"}] /\ stray \in [Path -> Nat]
    /\ look \in [Looker -> LookState]
    /\ todo \subseteq Path
    /\ stat \in [Path -> {"none", "old", "current"}] /\ cache \in [Path -> Hash]
    /\ call \in [Caller -> CallState]
    /\ edits \in 0..MaxEdits /\ calls \in 0..MaxCalls /\ crashes \in 0..MaxCrashes

LEMMA Parts ==
    WatchInv <=> /\ TreeType /\ RestType
                 /\ mode \in {"down", "changes", "deletions", "watch", "up"}
                 /\ WatchKept
BY DEF WatchInv, TypeOK, TreeType, RestType, Looker

LEMMA TopAbsent == TypeOK /\ dir => file[Top] = Absent
BY DEF TypeOK, Path

LEMMA EmitType ==
    ASSUME events \subseteq Event, NEW op \in {"create", "other"}, NEW S, S \subseteq Path, Emit(op, S)
    PROVE  /\ events' \subseteq Event /\ events \subseteq events'
           /\ mode = "up" /\ Top \in S => <<op, Top>> \in events'
BY DEF Emit, Event

LEMMA WriteTree ==
    ASSUME WatchInv, NEW p \in Path, NEW c \in File, WriteFile(p, c)
    PROVE  TreeStep /\ stat' \in [Path -> {"none", "old", "current"}]
<1>1. file' = [file EXCEPT ![p] = c] /\ UNCHANGED <<dir, watched>>
  BY DEF WriteFile
<1>2. events \subseteq events' /\ events' \subseteq Event
  BY EmitType DEF WatchInv, TypeOK, WriteFile
<1>3. \A q \in Path : file'[q] # Absent => dir = (q \in Leaf)
  <2>1. dir = (p \in Leaf)
    <3>1. dir = TRUE \/ dir = FALSE
      BY DEF WatchInv, TypeOK
    <3>0. p = Top <=> p \notin Leaf
      BY DEF Path
    <3>2. (p = Top => ~dir) /\ (p # Top => dir)
      BY Zenon DEF WriteFile, CanWrite
    <3>3. CASE p = Top
      <4>1. dir = FALSE
        BY <3>1, <3>2, <3>3
      <4>2. p \notin Leaf
        BY <3>0, <3>3
      <4>3. (p \in Leaf) = FALSE
        BY <4>2
      <4> QED BY <4>1, <4>3, Zenon
    <3>4. CASE p # Top
      BY <3>0, <3>1, <3>2, <3>4
    <3> QED BY <3>3, <3>4
  <2> QED BY <1>1, <2>1 DEF WatchInv, TypeOK
<1> QED BY <1>1, <1>2, <1>3 DEF WatchInv, TypeOK, TreeStep, TreeType, WatchKept, WriteFile

LEMMA RemoveTree ==
    ASSUME WatchInv, NEW p \in Path, RemoveFile(p)
    PROVE  TreeStep
<1>1. file' = [file EXCEPT ![p] = Absent] /\ UNCHANGED <<dir, watched>>
  BY DEF RemoveFile
<1>2. events \subseteq events' /\ events' \subseteq Event
  BY EmitType DEF WatchInv, TypeOK, RemoveFile
<1> QED BY <1>1, <1>2 DEF WatchInv, TypeOK, TreeStep, TreeType, WatchKept, File

LEMMA MakeDirTree ==
    ASSUME WatchInv, MakeDir, file[Top] = Absent
    PROVE  TreeStep
<1>1. dir' = TRUE /\ UNCHANGED <<file, watched>>
  BY DEF MakeDir
<1>2. events' \subseteq Event /\ (mode = "up" => watched \/ <<"create", Top>> \in events')
  <2>1. CASE dir
    BY <2>1 DEF MakeDir, WatchInv, TypeOK, WatchKept
  <2>2. CASE ~dir
    <3>1. Emit("create", {Top})
      BY <2>2 DEF MakeDir
    <3> QED BY <3>1, EmitType DEF WatchInv, TypeOK, Path
  <2> QED BY <2>1, <2>2
<1>3. \A p \in Path : file[p] # Absent => p \in Leaf
  BY DEF Path
<1> QED BY <1>1, <1>2, <1>3 DEF WatchInv, TypeOK, TreeStep, TreeType

LEMMA RemoveDirTree ==
    ASSUME WatchInv, RemoveDir, dir
    PROVE  TreeStep
<1>1. /\ dir' = FALSE /\ watched' = FALSE
      /\ file' = [p \in Path |-> IF p \in Leaf THEN Absent ELSE file[p]]
  BY DEF RemoveDir
<1>2. \A p \in Path : file'[p] = Absent
  BY <1>1, TopAbsent DEF WatchInv, Path
<1>3. events' \subseteq Event
  BY EmitType DEF RemoveDir, WatchInv, TypeOK, Path
<1> QED BY <1>1, <1>2, <1>3 DEF TreeStep, TreeType, File

LEMMA SameTree ==
    ASSUME WatchInv, UNCHANGED tree
    PROVE  TreeStep
BY DEF WatchInv, TypeOK, TreeStep, TreeType, WatchKept, tree

-----------------------------------------------------------------------------
(* What the steps make of the rest. *)

LEMMA StatType ==
    ASSUME TypeOK, NEW p \in Path, NEW S
    PROVE  /\ UpdateStat(p) => stat' \in [Path -> {"none", "old", "current"}]
           /\ DeleteStat(S) => stat' \in [Path -> {"none", "old", "current"}]
<1>1. DeleteStat(S) => stat' \in [Path -> {"none", "old", "current"}]
  BY DEF DeleteStat, TypeOK
<1>2. ASSUME UpdateStat(p)
      PROVE  stat' \in [Path -> {"none", "old", "current"}]
  <2>1. CASE Found(p) = "file"
    BY <1>2, <2>1 DEF UpdateStat, TypeOK
  <2>2. CASE Found(p) = "directory"
    BY <1>2, <2>2 DEF UpdateStat, TypeOK
  <2>3. CASE Found(p) \notin {"file", "directory"}
    BY <1>2, <2>3 DEF UpdateStat, TypeOK
  <2> QED BY <2>1, <2>2, <2>3
<1> QED BY <1>1, <1>2

LEMMA HashType ==
    ASSUME TypeOK, NEW p \in Path, NEW f \in File
    PROVE  /\ MarkProcessed(cache, p, DeliverHash(f)) \in [Path -> Hash]
           /\ MarkProcessed(cache, p, DispatchHash(f)) \in [Path -> Hash]
<1>1. DeliverHash(f) \in Hash /\ DispatchHash(f) \in Hash
  BY DEF DeliverHash, DispatchHash, Bytes, Hash, File
<1> QED BY <1>1 DEF MarkProcessed, TypeOK

LEMMA ToldType ==
    ASSUME TypeOK, NEW p \in Path, NEW f \in File, Told(p, f)
    PROVE  group' \in [Path -> File]
<1>1. \A q \in Path : (CASE q = p -> f
                         [] q \in Excluded(p) /\ f # Absent -> Absent
                         [] q # p /\ ~(q \in Excluded(p) /\ f # Absent) -> group[q]) \in File
  BY DEF TypeOK, File
<1> QED BY <1>1 DEF Told

LEMMA LookType ==
    ASSUME TypeOK, NEW g \in Looker, NEW p \in Path
    PROVE  /\ LookAt(g, p) => look' \in [Looker -> LookState]
           /\ \A pc \in {"idle", "read", "dispatch", "stat", "end"} :
                 Goto(g, pc) => look' \in [Looker -> LookState]
<1>1. \A pc \in {"idle", "read", "dispatch", "stat", "end"} :
          Goto(g, pc) => look' \in [Looker -> LookState]
  BY DEF Goto, TypeOK, LookState, Looker
<1>2. ASSUME LookAt(g, p)
      PROVE  look' \in [Looker -> LookState]
  <2>1. PICK pc \in {"read", "dispatch", "end"} :
            look' = [look EXCEPT ![g] = [pc |-> pc, path |-> p, data |-> Absent]]
    <3>1. CASE Found(p) = "file"
      BY <1>2, <3>1 DEF LookAt
    <3>2. CASE Found(p) = "missing"
      BY <1>2, <3>2 DEF LookAt
    <3>3. CASE Found(p) \notin {"file", "missing"}
      BY <1>2, <3>3 DEF LookAt
    <3> QED BY <3>1, <3>2, <3>3
  <2>2. [pc |-> pc, path |-> p, data |-> Absent] \in LookState
    BY <2>1 DEF LookState, File
  <2> QED BY <2>1, <2>2 DEF TypeOK, Looker
<1> QED BY <1>1, <1>2

CallPC == {"idle", "parent", "dropstat", "mkdir", "clear", "clearstats", "write",
           "stat", "remove", "mark", "cleanup", "redo"}

LEMMA FirstType ==
    ASSUME NEW p \in Path, NEW f
    PROVE  First(p, f) \in {"parent", "remove", "idle"}
<1>1. CASE f # Absent
  BY <1>1 DEF First
<1>2. CASE f = Absent /\ Found(p) # "missing"
  BY <1>2 DEF First
<1>3. CASE f = Absent /\ Found(p) = "missing"
  BY <1>3 DEF First
<1> QED BY <1>1, <1>2, <1>3

LEMMA StepCall ==
    ASSUME TypeOK, NEW h \in Caller, NEW from, NEW to \in CallPC, Step(h, from, to)
    PROVE  call' \in [Caller -> CallState]
BY DEF Step, TypeOK, CallState, CallPC

-----------------------------------------------------------------------------
LEMMA Together ==
    ASSUME WatchInv, TreeStep, RestType', mode' = mode
    PROVE  WatchInv'
BY DEF WatchInv, TypeOK, TreeType, RestType, TreeStep, WatchKept, Looker

LEMMA UserWatch == WatchInv /\ UserStep => WatchInv'
<1> SUFFICES ASSUME WatchInv, UserStep PROVE WatchInv'
  OBVIOUS
<1>1. edits' \in 0..MaxEdits
  <2>1. edits < MaxEdits /\ edits' = edits + 1
    BY DEF UserStep, UserWrite, UserRemove, UserMakeDir, UserRemoveDir, MayEdit
  <2> QED BY <2>1 DEF WatchInv, TypeOK
<1>2. UNCHANGED <<timers, look, starts, cache, call, group, calls, crashes>>
  BY DEF UserStep, UserWrite, UserRemove, UserMakeDir, UserRemoveDir, records
<1>3. TreeStep /\ stat' \in [Path -> {"none", "old", "current"}]
  <2>1. ASSUME NEW p \in Path, NEW c \in Content, UserWrite(p, c)
        PROVE  TreeStep /\ stat' \in [Path -> {"none", "old", "current"}]
    <3>1. WriteFile(p, c) /\ c \in File
      BY <2>1 DEF UserWrite, File
    <3> QED BY <3>1, WriteTree
  <2>2. ASSUME NEW p \in Path, UserRemove(p) PROVE TreeStep
    <3>1. RemoveFile(p)
      BY <2>2 DEF UserRemove
    <3> QED BY <3>1, RemoveTree
  <2>3. CASE UserMakeDir
    <3>1. MakeDir /\ file[Top] = Absent
      BY <2>3 DEF UserMakeDir
    <3> QED BY <2>3, <3>1, MakeDirTree DEF UserMakeDir, records, WatchInv, TypeOK
  <2>4. CASE UserRemoveDir
    <3>1. RemoveDir /\ dir
      BY <2>4 DEF UserRemoveDir, EmptyDir
    <3> QED BY <2>4, <3>1, RemoveDirTree DEF UserRemoveDir, records, WatchInv, TypeOK
  <2>5. ASSUME NEW p \in Path, UserRemove(p)
        PROVE  stat' \in [Path -> {"none", "old", "current"}]
    BY <2>5 DEF UserRemove, records, WatchInv, TypeOK
  <2> QED BY <2>1, <2>2, <2>3, <2>4, <2>5 DEF UserStep
<1>4. RestType' /\ mode' = mode
  BY <1>1, <1>2, <1>3, Parts DEF RestType, timers, starts
<1> QED BY <1>3, <1>4, Together

LEMMA EventWatch ==
    ASSUME WatchInv, NEW e \in events, HandleEvent(e)
    PROVE  WatchInv'
<1>0. e \in Event /\ e[2] \in Path /\ e = <<e[1], e[2]>>
  BY DEF WatchInv, TypeOK, Event
<1>1. /\ events' = events \ {e}
      /\ UNCHANGED <<dir, file, stray, look, starts, records, call, group, bounds>>
  BY DEF HandleEvent
<1>2. CASE e[1] = "create" /\ Found(e[2]) = "directory"
  <2>1. watched' = TRUE /\ entry' = entry /\ dir
    BY <1>0, <1>2, FoundWhat DEF HandleEvent
  <2>2. TreeStep
    BY <1>1, <2>1 DEF TreeStep, TreeType, WatchInv, TypeOK
  <2>3. RestType' /\ mode' = mode
    BY <1>1, <2>1, Parts DEF RestType, starts, records, bounds
  <2> QED BY <2>2, <2>3, Together
<1>3. CASE ~(e[1] = "create" /\ Found(e[2]) = "directory")
  <2>1. entry' \in [Path -> {"none", "armed", "fired"}] /\ watched' = watched
    BY <1>0, <1>3 DEF HandleEvent, Debounce, WatchInv, TypeOK
  <2>2. dir => e # <<"create", Top>>
    <3>1. ASSUME dir, e = <<"create", Top>> PROVE FALSE
      <4>1. Found(Top) = "directory"
        BY <3>1, TopAbsent, FoundWhat DEF WatchInv, Path
      <4> QED BY <1>3, <3>1, <4>1
    <3> QED BY <3>1
  <2>3. TreeStep
    BY <1>1, <2>1, <2>2 DEF TreeStep, TreeType, WatchInv, TypeOK, WatchKept
  <2>4. RestType' /\ mode' = mode
    BY <1>1, <2>1, Parts DEF RestType, starts, records, bounds
  <2> QED BY <2>3, <2>4, Together
<1> QED BY <1>2, <1>3

LEMMA TimerWatch ==
    ASSUME WatchInv, NEW p \in Path, FireTimer(p)
    PROVE  WatchInv'
<1>1. entry' \in [Path -> {"none", "armed", "fired"}] /\ stray' \in [Path -> Nat]
  BY DEF FireTimer, WatchInv, TypeOK
<1>2. look' \in [Looker -> LookState]
  BY LookType DEF FireTimer, WatchInv, Looker
<1>3. UNCHANGED <<tree, starts, records, call, group, bounds>>
  BY DEF FireTimer
<1>4. RestType' /\ mode' = mode
  BY <1>1, <1>2, <1>3, Parts DEF RestType, starts, records, bounds
<1> QED BY <1>3, <1>4, SameTree, Together

LEMMA LookWatch ==
    ASSUME WatchInv, NEW g \in Looker, LookStep(g)
    PROVE  WatchInv'
<1>0. /\ look[g].path \in Path /\ look[g].data \in File /\ look[g] \in LookState
      /\ look \in [Looker -> LookState] /\ TypeOK
  BY DEF WatchInv, TypeOK, Looker, LookState
<1>1. UNCHANGED <<tree, starts, call, bounds>>
  BY DEF LookStep, ReadFile, Dispatch, RecordStat, EndLook, records
<1>2. /\ look' \in [Looker -> LookState] /\ cache' \in [Path -> Hash]
      /\ group' \in [Path -> File] /\ stat' \in [Path -> {"none", "old", "current"}]
      /\ entry' \in [Path -> {"none", "armed", "fired"}] /\ stray' \in [Path -> Nat]
  <2>1. CASE ReadFile(g)
    <3>1. PICK pc \in {"end", "dispatch"}, d \in File :
              look' = [look EXCEPT ![g].data = d, ![g].pc = pc]
      <4>1. file[look[g].path] \in File
        BY <1>0 DEF TypeOK
      <4> QED BY <2>1, <4>1 DEF ReadFile
    <3>2. look' \in [Looker -> LookState]
      BY <1>0, <3>1 DEF LookState
    <3> QED BY <2>1, <3>2 DEF ReadFile, timers, records, WatchInv, TypeOK
  <2>2. CASE Dispatch(g)
    <3>1. look' \in [Looker -> LookState]
      BY <1>0, <2>2, LookType DEF Dispatch
    <3>2. cache' \in [Path -> Hash] /\ group' \in [Path -> File]
      <4>1. CASE UNCHANGED <<cache, group>>
        BY <1>0, <4>1 DEF TypeOK
      <4>2. CASE ~UNCHANGED <<cache, group>>
        <5>1. /\ cache' = MarkProcessed(cache, look[g].path, DispatchHash(look[g].data))
              /\ Told(look[g].path, look[g].data)
          BY <2>2, <4>2 DEF Dispatch
        <5> QED BY <1>0, <5>1, HashType, ToldType
      <4> QED BY <4>1, <4>2
    <3> QED BY <2>2, <3>1, <3>2 DEF Dispatch, timers, WatchInv, TypeOK
  <2>3. CASE RecordStat(g)
    <3>1. look' \in [Looker -> LookState]
      BY <1>0, <2>3, LookType DEF RecordStat
    <3>2. stat' \in [Path -> {"none", "old", "current"}]
      BY <1>0, <2>3, StatType DEF RecordStat
    <3> QED BY <2>3, <3>1, <3>2 DEF RecordStat, timers, WatchInv, TypeOK
  <2>4. CASE EndLook(g)
    <3>1. look' \in [Looker -> LookState]
      BY <1>0, <2>4, LookType DEF EndLook
    <3>2. entry' \in [Path -> {"none", "armed", "fired"}] /\ stray' \in [Path -> Nat]
      BY <1>0, <2>4 DEF EndLook, timers, TypeOK
    <3> QED BY <2>4, <3>1, <3>2 DEF EndLook, records, WatchInv, TypeOK
  <2> QED BY <2>1, <2>2, <2>3, <2>4 DEF LookStep
<1>3. RestType' /\ mode' = mode
  BY <1>1, <1>2, Parts DEF RestType, starts, bounds
<1> QED BY <1>1, <1>3, SameTree, Together

LEMMA StartWatch == WatchInv /\ (StartStep \/ Crash) => WatchInv'
<1> SUFFICES ASSUME WatchInv, StartStep \/ Crash PROVE WatchInv'
  OBVIOUS
<1>1. CASE Boot
  <2>1. WatchKept' /\ TreeType'
    BY <1>1 DEF Boot, WatchKept, TreeType, WatchInv, TypeOK, tree
  <2>2. RestType'
    BY <1>1, Parts DEF Boot, RestType, timers, records, bounds
  <2>3. mode' \in {"down", "changes", "deletions", "watch", "up"}
    BY <1>1 DEF Boot
  <2> QED BY <2>1, <2>2, <2>3 DEF WatchInv, TypeOK, TreeType, RestType, Looker
<1>2. CASE NextPhase
  <2>1. /\ mode' \in {"deletions", "watch", "up"} /\ todo' \subseteq Path
        /\ mode' = "up" => watched' = dir
        /\ watched' \in {watched, dir}
        /\ UNCHANGED <<dir, file, events, timers, look, records, call, group, bounds>>
    <3>1. CASE mode = "changes"
      BY <1>2, <3>1 DEF NextPhase
    <3>2. CASE mode = "deletions"
      BY <1>2, <3>2 DEF NextPhase, WatchInv, TypeOK
    <3>3. CASE mode = "watch"
      BY <1>2, <3>3 DEF NextPhase, WatchInv, TypeOK
    <3> QED BY <1>2, <3>1, <3>2, <3>3 DEF NextPhase
  <2>2. WatchKept' /\ TreeType'
    BY <2>1 DEF WatchKept, TreeType, WatchInv, TypeOK
  <2>3. RestType'
    BY <2>1, Parts DEF RestType, timers, records, bounds
  <2> QED BY <2>1, <2>2, <2>3 DEF WatchInv, TypeOK, TreeType, RestType, Looker
<1>3. ASSUME NEW p \in Path, Scan(p) PROVE WatchInv'
  <2>1. /\ UNCHANGED <<tree, timers, mode, records, call, group, bounds>>
        /\ todo' \subseteq Path
    BY <1>3 DEF Scan, WatchInv, TypeOK
  <2>2. look' \in [Looker -> LookState]
    BY <1>3, LookType DEF Scan, WatchInv, Looker, TypeOK
  <2>3. RestType'
    BY <2>1, <2>2, Parts DEF RestType, timers, records, bounds
  <2> QED BY <2>1, <2>3, SameTree, Together
<1>4. CASE Crash
  <2>1. look' \in [Looker -> LookState]
    <3>1. look \in [Looker -> LookState]
      BY DEF WatchInv, TypeOK, Looker
    <3>2. \A g \in Looker : [look[g] EXCEPT !.pc = "idle"] \in LookState
      BY <3>1 DEF LookState
    <3>3. look' = [g \in Looker |-> [look[g] EXCEPT !.pc = "idle"]]
      BY <1>4, <3>1 DEF Crash
    <3> QED BY <3>2, <3>3
  <2>2. call' \in [Caller -> CallState]
    <3>1. NoCall \in CallState
      BY DEF NoCall, CallState, Path, File
    <3>2. \A h \in Caller : [call[h] EXCEPT !.pc = "redo"] \in CallState
      BY DEF WatchInv, TypeOK, CallState
    <3> QED BY <1>4, <3>1, <3>2 DEF Crash
  <2>3. crashes' \in 0..MaxCrashes
    BY <1>4 DEF Crash, WatchInv, TypeOK
  <2>4. /\ entry' \in [Path -> {"none", "armed", "fired"}] /\ stray' \in [Path -> Nat]
        /\ cache' \in [Path -> Hash] /\ todo' \subseteq Path
    BY <1>4 DEF Crash, Hash
  <2>5. RestType'
    BY <1>4, <2>1, <2>2, <2>3, <2>4, Parts DEF Crash, RestType
  <2>6. TreeType' /\ WatchKept' /\ mode' = "down"
    BY <1>4 DEF Crash, TreeType, WatchKept, WatchInv, TypeOK
  <2> QED BY <2>5, <2>6 DEF WatchInv, TypeOK, TreeType, RestType, Looker
<1> QED BY <1>1, <1>2, <1>3, <1>4 DEF StartStep

LEMMA CallWatch ==
    ASSUME WatchInv, NEW h \in Caller, CallStep(h)
    PROVE  WatchInv'
<1>0. /\ call[h].path \in Path /\ call[h].data \in File /\ TypeOK /\ Top \in Path
      /\ cache \in [Path -> Hash] /\ stat \in [Path -> {"none", "old", "current"}]
  BY DEF WatchInv, TypeOK, CallState, Path
<1>1. UNCHANGED <<timers, look, starts, group, bounds>>
  <2>1. CASE Redo(h) \/ ClearParent(h) \/ DropStat(h) \/ MkdirAll(h) \/ ClearPath(h) \/ ClearStats(h)
    BY <2>1 DEF Redo, ClearParent, DropStat, MkdirAll, ClearPath, ClearStats
  <2>2. CASE PutWrites(h) \/ DeleteRemoves(h) \/ DeleteFails(h) \/ CallStat(h) \/ CallMark(h)
             \/ CleanupEmptyDirs(h)
    BY <2>2 DEF PutWrites, DeleteRemoves, DeleteFails, CallStat, CallMark, CleanupEmptyDirs
  <2> QED BY <2>1, <2>2 DEF CallStep
<1>2. call' \in [Caller -> CallState]
  <2>1. \A from : \A to \in CallPC : Step(h, from, to) => call' \in [Caller -> CallState]
    BY <1>0, StepCall
  <2>2. CASE Redo(h)
    <3>1. First(call[h].path, call[h].data) \in CallPC /\ "idle" \in CallPC
      BY <1>0, FirstType DEF CallPC
    <3> QED BY <2>1, <2>2, <3>1 DEF Redo
  <2>3. CASE ClearParent(h) \/ DropStat(h) \/ MkdirAll(h) \/ ClearPath(h) \/ ClearStats(h)
    BY <2>1, <2>3 DEF CallPC, ClearParent, DropStat, MkdirAll, ClearPath, ClearStats
  <2>4. CASE PutWrites(h) \/ DeleteRemoves(h) \/ DeleteFails(h) \/ CallStat(h) \/ CallMark(h)
             \/ CleanupEmptyDirs(h)
    BY <2>1, <2>4 DEF CallPC, PutWrites, DeleteRemoves, DeleteFails, CallStat, CallMark,
       CleanupEmptyDirs
  <2> QED BY <2>2, <2>3, <2>4 DEF CallStep
<1>3. cache' \in [Path -> Hash]
  <2>1. CASE CallMark(h)
    BY <1>0, <2>1, HashType DEF CallMark
  <2>2. CASE ~CallMark(h)
    <3>1. cache' = cache
      BY <2>2 DEF CallStep, Redo, ClearParent, DropStat, MkdirAll, ClearPath, ClearStats,
         PutWrites, DeleteRemoves, DeleteFails, CallStat, CleanupEmptyDirs, records
    <3> QED BY <1>0, <3>1
  <2> QED BY <2>1, <2>2
<1>4. stat' \in [Path -> {"none", "old", "current"}]
  <2>1. CASE DropStat(h) \/ ClearStats(h) \/ CallStat(h)
    BY <1>0, <2>1, StatType DEF DropStat, ClearStats, CallStat
  <2>2. CASE PutWrites(h)
    BY <1>0, <2>2, WriteTree DEF PutWrites
  <2>3. CASE Redo(h) \/ ClearParent(h) \/ MkdirAll(h) \/ ClearPath(h) \/ DeleteRemoves(h)
             \/ DeleteFails(h) \/ CallMark(h) \/ CleanupEmptyDirs(h)
    BY <1>0, <2>3 DEF Redo, ClearParent, MkdirAll, ClearPath, DeleteRemoves, DeleteFails, CallMark,
       CleanupEmptyDirs, records
  <2> QED BY <2>1, <2>2, <2>3 DEF CallStep
<1>5. TreeStep
  <2>1. CASE UNCHANGED tree
    BY <2>1, SameTree
  <2>2. \A p \in Path : RemoveFile(p) => TreeStep
    BY RemoveTree
  <2>3. \A p \in Path, c \in File : WriteFile(p, c) => TreeStep
    BY WriteTree
  <2>4. CASE ClearParent(h) \/ DeleteRemoves(h)
    BY <1>0, <2>1, <2>2, <2>4, RemoveDirTree DEF ClearParent, DeleteRemoves, EmptyDir
  <2>5. CASE MkdirAll(h)
    BY <1>0, <2>1, <2>5, MakeDirTree DEF MkdirAll
  <2>6. CASE ClearPath(h) \/ CleanupEmptyDirs(h)
    BY <1>0, <2>1, <2>6, RemoveDirTree DEF ClearPath, CleanupEmptyDirs, EmptyDir
  <2>7. CASE PutWrites(h)
    BY <1>0, <2>1, <2>3, <2>7 DEF PutWrites
  <2>8. CASE Redo(h) \/ DropStat(h) \/ ClearStats(h) \/ DeleteFails(h) \/ CallStat(h) \/ CallMark(h)
    BY <2>1, <2>8 DEF Redo, DropStat, ClearStats, DeleteFails, CallStat, CallMark
  <2> QED BY <2>4, <2>5, <2>6, <2>7, <2>8 DEF CallStep
<1>6. RestType' /\ mode' = mode
  BY <1>1, <1>2, <1>3, <1>4, Parts DEF RestType, timers, starts, bounds
<1> QED BY <1>5, <1>6, Together

LEMMA BeginWatch ==
    ASSUME WatchInv, NEW h \in Caller, NEW p \in Path, NEW f \in Content \cup {Absent}, Begin(h, p, f)
    PROVE  WatchInv'
<1>0. TypeOK /\ f \in File
  BY DEF WatchInv, File
<1>1. group' \in [Path -> File]
  BY <1>0, ToldType DEF Begin
<1>2. call' \in [Caller -> CallState]
  <2>1. NoCall \in CallState
    BY DEF NoCall, CallState, Path, File
  <2>2. First(p, f) \in CallPC
    BY FirstType DEF CallPC
  <2>3. [pc |-> First(p, f), path |-> p, data |-> f] \in CallState
    BY <1>0, <2>2 DEF CallState, CallPC
  <2> QED BY <1>0, <2>1, <2>3 DEF Begin, TypeOK
<1>3. calls' \in 0..MaxCalls /\ UNCHANGED <<tree, timers, look, starts, records, edits, crashes>>
  BY <1>0 DEF Begin, TypeOK
<1>4. RestType' /\ mode' = mode
  BY <1>1, <1>2, <1>3, Parts DEF RestType, timers, starts, records
<1> QED BY <1>3, <1>4, SameTree, Together

LEMMA WatchInit == Init => WatchInv
<1> SUFFICES ASSUME Init PROVE WatchInv
  OBVIOUS
<1>1. look \in [Path \cup {Scanner} -> LookState]
  <2>1. \A p \in Path : NoLook(p) \in LookState
    BY DEF NoLook, LookState, File
  <2>2. \A g \in Path \cup {Scanner} : (IF g = Scanner THEN Top ELSE g) \in Path
    BY DEF Path
  <2> QED BY <2>1, <2>2 DEF Init
<1>2. call \in [Caller -> CallState]
  BY DEF Init, NoCall, CallState, Path, File
<1>3. 0 \in 0..MaxEdits /\ 0 \in 0..MaxCalls /\ 0 \in 0..MaxCrashes
  OBVIOUS
<1>4. TypeOK
  BY <1>1, <1>2, <1>3 DEF Init, TypeOK, File, Hash
<1> QED BY <1>4 DEF WatchInv, WatchKept, Init

LEMMA WatchStep == WatchInv /\ [Next]_vars => WatchInv'
<1> SUFFICES ASSUME WatchInv, [Next]_vars PROVE WatchInv'
  OBVIOUS
<1>1. CASE UNCHANGED vars
  <2>1. UNCHANGED tree /\ RestType' /\ mode' = mode
    BY <1>1, Parts DEF vars, tree, timers, starts, records, bounds, RestType
  <2> QED BY <2>1, SameTree, Together
<1>2. DOMAIN look = Looker
  BY DEF WatchInv, TypeOK, Looker
<1> QED BY <1>1, <1>2, UserWatch, EventWatch, TimerWatch, LookWatch, StartWatch, CallWatch,
           BeginWatch DEF Next

(* Every variable keeps its type; in particular a file and a directory are
   never in each other's place, and only a directory that exists is watched. *)
THEOREM TypeCorrect == Spec => []TypeOK
<1>1. WatchInv => TypeOK
  BY DEF WatchInv
<1> QED BY <1>1, WatchInit, WatchStep, PTL DEF Spec

(* While the peer is up, a directory is watched or the event of its creation
   waits to be handled (handleEvent's branch for directories), whatever the
   users, Put and Delete remove and make again. *)
THEOREM DirectoriesWatched == Spec => []WatchKept
<1>1. WatchInv => WatchKept
  BY DEF WatchInv
<1> QED BY <1>1, WatchInit, WatchStep, PTL DEF Spec
=============================================================================
