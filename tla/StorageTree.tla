---------------------------- MODULE StorageTree -----------------------------
(***************************************************************************)
(* One storage peer's directory as a tree: the path Top is a file, or a    *)
(* directory that holds the files Leaf.                                    *)
(*                                                                         *)
(* A user edits the tree; the hub calls Put and Delete, which turn files   *)
(* into directories and directories into files where they are in the way.  *)
(* Watches belong to directories, and a new one is watched only after the  *)
(* event of its creation was handled.  An event arms the timer of its      *)
(* path, whose callback looks at the path and dispatches what it finds.    *)
(*                                                                         *)
(* The rest of the group is what it was told last: a dispatch is one step  *)
(* here, and reaches everybody; StorageBridge models what it does.         *)
(***************************************************************************)
EXTENDS BasePeer, Naturals

CONSTANTS
    Top, Leaf,    \* the path that is a file or a directory, and those below it
    Scanner,      \* the goroutine that runs Start
    Caller,       \* goroutines in which the hub calls Put and Delete
    Prompt,       \* TRUE: the hub calls when the peer is at rest, or is up again
                  \* after a crash, and nobody edits meanwhile; calls, and dispatches
                  \* of a path, end before another timer fires that may undo them
    UserWaits,    \* TRUE: users let Start's scans end, edit in a new directory only
                  \* once it is watched, and put a file in place of a directory, or a
                  \* directory in place of a file, only once deletions were dispatched
    FreshBytes,   \* TRUE: nobody gives a path that others do not have the bytes
                  \* that the peer has marked for it last
    LooksWhole,   \* TRUE: the process does not end between the event of an edit,
                  \* or a dispatch, and the store of the file's stat
    MaxEdits,     \* bounds on user edits,
    MaxCalls,     \* calls of the hub
    MaxCrashes    \* and crashes

VARIABLES
    dir,          \* Top is a directory
    file,         \* file[p]: the file at p
    watched,      \* the directory Top is watched
    events,       \* file system events that were not handled yet
    entry,        \* entry[p]: the timer in pendingEvents[p]
    stray,        \* stray[p]: how many armed timers of p are not in the map
    look,         \* look[g]: the processChange or scan that goroutine g runs
    mode, todo,   \* how far Start has come, and the paths its scan has left
    stat, cache,  \* the stored "file-stat-", and the hash last marked
    call,         \* call[h]: where the Put or Delete is that h runs
    group,        \* group[p]: the file that the other peers have
    edits, calls, crashes   \* how many there were (bounds)

tree    == <<dir, file, watched, events>>
timers  == <<entry, stray>>
records == <<stat, cache>>
starts  == <<mode, todo>>
bounds  == <<edits, calls, crashes>>

vars == <<tree, timers, look, starts, records, call, group, bounds>>

Path == Leaf \cup {Top}

(* The paths at which there cannot be a file while there is one at p. *)
Excluded(p) == IF p = Top THEN Leaf ELSE {Top}

Event == {"create", "other"} \X Path

LookState == [pc : {"idle", "read", "dispatch", "stat", "end"}, path : Path, data : File]
CallState == [pc : {"idle", "parent", "dropstat", "mkdir", "clear", "clearstats", "write",
                    "stat", "remove", "mark", "cleanup", "redo"},
              path : Path, data : File]

ASSUME PathAssumption == Top \notin Leaf /\ Scanner \notin Path
ASSUME ChoiceAssumption ==
    /\ Prompt \in BOOLEAN /\ UserWaits \in BOOLEAN /\ FreshBytes \in BOOLEAN
    /\ LooksWhole \in BOOLEAN
    /\ MaxEdits \in Nat /\ MaxCalls \in Nat /\ MaxCrashes \in Nat

TypeOK ==
    /\ dir \in BOOLEAN /\ watched \in BOOLEAN /\ watched => dir
    /\ file \in [Path -> File] /\ group \in [Path -> File]
    /\ \A p \in Path : file[p] # Absent => dir = (p \in Leaf)
    /\ events \subseteq Event
    /\ entry \in [Path -> {"none", "armed", "fired"}] /\ stray \in [Path -> Nat]
    /\ look \in [Path \cup {Scanner} -> LookState]
    /\ mode \in {"down", "changes", "deletions", "watch", "up"} /\ todo \subseteq Path
    /\ stat \in [Path -> {"none", "old", "current"}] /\ cache \in [Path -> Hash]
    /\ call \in [Caller -> CallState]
    /\ edits \in 0..MaxEdits /\ calls \in 0..MaxCalls /\ crashes \in 0..MaxCrashes

NoLook(p) == [pc |-> "idle", path |-> p, data |-> Absent]
NoCall    == [pc |-> "idle", path |-> Top, data |-> Absent]

Init ==
    /\ dir = FALSE /\ watched = FALSE /\ events = {}
    /\ file = [p \in Path |-> Absent] /\ group = [p \in Path |-> Absent]
    /\ entry = [p \in Path |-> "none"] /\ stray = [p \in Path |-> 0]
    /\ look = [g \in Path \cup {Scanner} |-> NoLook(IF g = Scanner THEN Top ELSE g)]
    /\ mode = "down" /\ todo = {}
    /\ stat = [p \in Path |-> "none"] /\ cache = [p \in Path |-> NoHash]
    /\ call = [h \in Caller |-> NoCall]
    /\ edits = 0 /\ calls = 0 /\ crashes = 0

-----------------------------------------------------------------------------
(* The file system. *)

(* Events of the paths S: those of Top are the root's, which is watched when the
   peer is up. *)
Emit(op, S) ==
    events' = events \cup {<<op, p>> : p \in {q \in S : mode = "up" /\ (q = Top \/ watched)}}

(* What os.Stat says of p. *)
Found(p) ==
    CASE file[p] # Absent                     -> "file"
      [] p = Top /\ dir                       -> "directory"
      [] p \in Leaf /\ file[Top] # Absent     -> "not a directory"
      [] file[p] = Absent /\ ~(p = Top /\ dir)
           /\ ~(p \in Leaf /\ file[Top] # Absent) -> "missing"

CanWrite(p) == IF p = Top THEN ~dir ELSE dir

(* A file that is written has another mtime than the stored one. *)
WriteFile(p, c) ==
    /\ CanWrite(p)
    /\ file' = [file EXCEPT ![p] = c]
    /\ stat' = [stat EXCEPT ![p] = IF @ = "current" THEN "old" ELSE @]
    /\ Emit(IF file[p] = Absent THEN "create" ELSE "other", {p})
    /\ UNCHANGED <<dir, watched>>

RemoveFile(p) ==
    /\ file' = [file EXCEPT ![p] = Absent]
    /\ Emit("other", {p})
    /\ UNCHANGED <<dir, watched>>

MakeDir ==
    /\ dir' = TRUE
    /\ IF dir THEN UNCHANGED events ELSE Emit("create", {Top})
    /\ UNCHANGED <<file, watched>>

(* The directory and what is in it; its watch goes with it. *)
RemoveDir ==
    /\ dir' = FALSE /\ watched' = FALSE
    /\ file' = [p \in Path |-> IF p \in Leaf THEN Absent ELSE file[p]]
    /\ Emit("other", {Top} \cup {p \in Leaf : file[p] # Absent})

EmptyDir == dir /\ \A p \in Leaf : file[p] = Absent

(* updateFileStat stats whatever is at p; a directory's is not a file's. *)
UpdateStat(p) ==
    stat' = [stat EXCEPT ![p] = CASE Found(p) = "file" -> "current"
                                  [] Found(p) = "directory" -> "old"
                                  [] Found(p) \notin {"file", "directory"} -> @]

DeleteStat(S) == stat' = [p \in Path |-> IF p \in S THEN "none" ELSE stat[p]]

-----------------------------------------------------------------------------
Calling == \E h \in Caller : call[h].pc # "idle"

Quiet ==
    /\ events = {} /\ \A p \in Path : entry[p] # "armed" /\ stray[p] = 0
    /\ \A g \in DOMAIN look : look[g].pc = "idle"

AtRest == Quiet /\ ~Calling /\ mode = "up"

(* Giving p the bytes c is not taken for a repetition. *)
Fresh(p, c) == FreshBytes => (cache[p] # DeliverHash(c) \/ group[p] = c)

(* The user. *)

MayEdit(p) ==
    /\ edits < MaxEdits /\ edits' = edits + 1
    /\ Prompt => ~Calling
    /\ UserWaits => mode = "down" \/ (mode = "up" /\ (p = Top \/ watched))

(* The group knows that there is no file at p, and is not being told otherwise. *)
KnownGone(p) == group[p] = Absent /\ look[p].pc = "idle"

UserWrite(p, c) ==
    /\ MayEdit(p) /\ Fresh(p, c)
    /\ UserWaits /\ p = Top => \A q \in Leaf : KnownGone(q)
    /\ WriteFile(p, c)
    /\ UNCHANGED <<timers, look, starts, cache, call, group, calls, crashes>>

UserRemove(p) ==
    /\ file[p] # Absent
    /\ MayEdit(p) /\ RemoveFile(p)
    /\ UNCHANGED <<timers, look, starts, records, call, group, calls, crashes>>

UserMakeDir ==
    /\ ~dir /\ file[Top] = Absent
    /\ UserWaits => KnownGone(Top)
    /\ MayEdit(Top) /\ MakeDir
    /\ UNCHANGED <<timers, look, starts, records, call, group, calls, crashes>>

UserRemoveDir ==
    /\ EmptyDir
    /\ MayEdit(Top) /\ RemoveDir
    /\ UNCHANGED <<timers, look, starts, records, call, group, calls, crashes>>

-----------------------------------------------------------------------------
(* Events and timers. *)

(* Mutant: a timer that exists is left alone. *)
Debounce_Kept(p) == entry' = [entry EXCEPT ![p] = IF @ = "none" THEN "armed" ELSE @]

(* A timer in the map is stopped, which is too late once it has fired, and a
   new one takes its place. *)
Debounce(p) == entry' = [entry EXCEPT ![p] = "armed"]

(* Mutant: a new directory is not watched. *)
HandleEvent_Unwatched(e) ==
    /\ e \in events
    /\ events' = events \ {e}
    /\ IF e[1] = "create" /\ Found(e[2]) = "directory"
       THEN UNCHANGED entry
       ELSE Debounce(e[2])
    /\ UNCHANGED <<dir, file, watched, stray, look, starts, records, call, group, bounds>>

HandleEvent(e) ==
    /\ e \in events
    /\ events' = events \ {e}
    /\ IF e[1] = "create" /\ Found(e[2]) = "directory"
       THEN watched' = TRUE /\ UNCHANGED entry
       ELSE Debounce(e[2]) /\ UNCHANGED watched
    /\ UNCHANGED <<dir, file, stray, look, starts, records, call, group, bounds>>

LookAt(g, p) ==
    look' = [look EXCEPT ![g] = [pc |-> CASE Found(p) = "file" -> "read"
                                          [] Found(p) = "missing" -> "dispatch"
                                          [] Found(p) \notin {"file", "missing"} -> "end",
                                 path |-> p, data |-> Absent]]

(* A timer fires: processChange stats the path. *)
FireTimer(p) ==
    /\ look[p].pc = "idle"
    /\ Prompt => ~Calling /\ \A q \in Excluded(p) : look[q].pc = "idle"
    /\ \/ entry[p] = "armed" /\ entry' = [entry EXCEPT ![p] = "fired"] /\ UNCHANGED stray
       \/ stray[p] > 0 /\ stray' = [stray EXCEPT ![p] = @ - 1] /\ UNCHANGED entry
    /\ LookAt(p, p)
    /\ UNCHANGED <<tree, starts, records, call, group, bounds>>

Goto(g, pc) == look' = [look EXCEPT ![g].pc = pc]

(* dispatchFile reads the file; if there is none the call returns. *)
ReadFile(g) ==
    LET p == look[g].path IN
    /\ look[g].pc = "read"
    /\ look' = [look EXCEPT ![g].data = file[p],
                            ![g].pc = IF file[p] = Absent THEN "end" ELSE "dispatch"]
    /\ UNCHANGED <<tree, timers, starts, records, call, group, bounds>>

(* The group has file f at p, and so none at the paths p excludes. *)
Told(p, f) ==
    group' = [q \in Path |-> CASE q = p -> f
                               [] q \in Excluded(p) /\ f # Absent -> Absent
                               [] q # p /\ ~(q \in Excluded(p) /\ f # Absent) -> group[q]]

(* DispatchFrom: what was marked last is not dispatched again. *)
Dispatch(g) ==
    LET p == look[g].path  f == look[g].data IN
    /\ look[g].pc = "dispatch"
    /\ IF IsRepeating(cache, p, DispatchHash(f))
       THEN UNCHANGED <<cache, group>>
       ELSE cache' = MarkProcessed(cache, p, DispatchHash(f)) /\ Told(p, f)
    /\ Goto(g, "stat")
    /\ UNCHANGED <<tree, timers, starts, stat, call, bounds>>

RecordStat(g) ==
    LET p == look[g].path IN
    /\ look[g].pc = "stat"
    /\ IF look[g].data = Absent THEN DeleteStat({p}) ELSE UpdateStat(p)
    /\ Goto(g, "end")
    /\ UNCHANGED <<tree, timers, starts, cache, call, group, bounds>>

(* The callback takes the path's timer out of the map, also one that was put
   there meanwhile, which stays armed.  A scan goes on. *)
EndLook(g) ==
    /\ look[g].pc = "end"
    /\ Goto(g, "idle")
    /\ IF g = Scanner
       THEN UNCHANGED timers
       ELSE /\ entry' = [entry EXCEPT ![g] = "none"]
            /\ stray' = [stray EXCEPT ![g] = IF entry[g] = "armed" THEN @ + 1 ELSE @]
    /\ UNCHANGED <<tree, starts, records, call, group, bounds>>

-----------------------------------------------------------------------------
(* Start. *)

Boot ==
    /\ mode = "down"
    /\ mode' = "changes" /\ todo' = Path
    /\ UNCHANGED <<tree, timers, look, records, call, group, bounds>>

(* scanOfflineChanges dispatches the files whose stat is not the stored one,
   scanOfflineDeletions the deletion of those that have a stat and are missing. *)
ToDispatch(p) ==
    \/ mode = "changes" /\ Found(p) = "file" /\ stat[p] # "current"
    \/ mode = "deletions" /\ stat[p] # "none" /\ Found(p) = "missing"

Scan(p) ==
    /\ p \in todo /\ look[Scanner].pc = "idle"
    /\ todo' = todo \ {p}
    /\ IF ToDispatch(p) THEN LookAt(Scanner, p) ELSE UNCHANGED look
    /\ UNCHANGED <<tree, timers, mode, records, call, group, bounds>>

(* The next scan; after the scans the directories there are are watched. *)
NextPhase ==
    /\ mode \in {"changes", "deletions", "watch"}
    /\ todo = {} /\ look[Scanner].pc = "idle"
    /\ CASE mode = "changes"   -> mode' = "deletions" /\ todo' = Path /\ UNCHANGED watched
         [] mode = "deletions" -> mode' = "watch" /\ UNCHANGED <<todo, watched>>
         [] mode = "watch"     -> mode' = "up" /\ watched' = dir /\ UNCHANGED todo
    /\ UNCHANGED <<dir, file, events, timers, look, records, call, group, bounds>>

(* The process ends.  A call that had not returned is not recorded by the peer it
   came from, which dispatches the file again on its next start. *)
Crash ==
    /\ mode # "down" /\ crashes < MaxCrashes
    /\ LooksWhole => (IF mode = "up" /\ ~Calling THEN Quiet ELSE look[Scanner].pc # "stat")
    /\ crashes' = crashes + 1
    /\ watched' = FALSE /\ events' = {}
    /\ entry' = [p \in Path |-> "none"] /\ stray' = [p \in Path |-> 0]
    /\ look' = [g \in DOMAIN look |-> [look[g] EXCEPT !.pc = "idle"]]
    /\ mode' = "down" /\ todo' = {}
    /\ cache' = [p \in Path |-> NoHash]
    /\ call' = [h \in Caller |-> IF call[h].pc = "idle" THEN NoCall ELSE [call[h] EXCEPT !.pc = "redo"]]
    /\ UNCHANGED <<dir, file, stat, group, edits, calls>>

-----------------------------------------------------------------------------
(* Put and Delete. *)

Step(h, from, to) == call[h].pc = from /\ call' = [call EXCEPT ![h].pc = to]

First(p, f) ==
    CASE f # Absent -> "parent"
      [] f = Absent /\ Found(p) # "missing" -> "remove"
      [] f = Absent /\ Found(p) = "missing" -> "idle"

(* The group has changed, and Hub.Dispatch calls: a repetition is skipped, and
   Delete looks whether there is anything at the path. *)
Begin(h, p, f) ==
    /\ call[h].pc = "idle" /\ calls < MaxCalls /\ calls' = calls + 1
    /\ mode # "down" /\ Fresh(p, f)
    /\ Prompt => AtRest
    /\ Told(p, f)
    /\ call' = [call EXCEPT ![h] =
           IF IsRepeating(cache, p, DeliverHash(f)) THEN NoCall
           ELSE [pc |-> First(p, f), path |-> p, data |-> f]]
    /\ UNCHANGED <<tree, timers, look, starts, records, edits, crashes>>

(* After a restart the source's scan dispatches again what it still has. *)
Redo(h) ==
    LET p == call[h].path  f == call[h].data IN
    /\ mode # "down" /\ (Prompt => mode = "up")
    /\ Step(h, "redo", IF group[p] = f THEN First(p, f) ELSE "idle")
    /\ UNCHANGED <<tree, timers, look, starts, records, group, bounds>>

(* removeFileConflictsInParentPath: a file in place of the directory goes. *)
ClearParent(h) ==
    LET next == IF call[h].data = Absent THEN "cleanup" ELSE "mkdir"
        blocked == call[h].path \in Leaf /\ file[Top] # Absent IN
    /\ Step(h, "parent", IF blocked THEN "dropstat" ELSE next)
    /\ IF blocked THEN RemoveFile(Top) ELSE UNCHANGED tree
    /\ UNCHANGED <<timers, look, starts, records, group, bounds>>

DropStat(h) ==
    /\ Step(h, "dropstat", IF call[h].data = Absent THEN "cleanup" ELSE "mkdir")
    /\ DeleteStat({Top})
    /\ UNCHANGED <<tree, timers, look, starts, cache, group, bounds>>

MkdirAll(h) ==
    LET p == call[h].path IN
    /\ IF p \in Leaf /\ file[Top] # Absent
       THEN Step(h, "mkdir", "idle") /\ UNCHANGED tree
       ELSE /\ Step(h, "mkdir", "clear")
            /\ IF p \in Leaf THEN MakeDir ELSE UNCHANGED tree
    /\ UNCHANGED <<timers, look, starts, records, group, bounds>>

(* removeDirectoryIfExists: a directory in place of the file goes. *)
ClearPath(h) ==
    LET blocked == call[h].path = Top /\ dir IN
    /\ Step(h, "clear", IF blocked THEN "clearstats" ELSE "write")
    /\ IF blocked THEN RemoveDir ELSE UNCHANGED tree
    /\ UNCHANGED <<timers, look, starts, records, group, bounds>>

(* Mutant: the keys are looked up under a prefix that none has. *)
ClearStats_None(h) ==
    /\ Step(h, "clearstats", "write")
    /\ UNCHANGED <<tree, timers, look, starts, records, group, bounds>>

(* cleanupDirectoryStats. *)
ClearStats(h) ==
    /\ Step(h, "clearstats", "write")
    /\ DeleteStat(Path)
    /\ UNCHANGED <<tree, timers, look, starts, cache, group, bounds>>

(* Every attempt fails when the directory is gone, or is there again. *)
PutWrites(h) ==
    LET p == call[h].path IN
    /\ Step(h, "write", IF CanWrite(p) THEN "stat" ELSE "idle")
    /\ IF CanWrite(p) THEN WriteFile(p, call[h].data) ELSE UNCHANGED <<tree, stat>>
    /\ UNCHANGED <<timers, look, starts, cache, group, bounds>>

(* os.Remove also removes an empty directory. *)
DeleteRemoves(h) ==
    LET p == call[h].path IN
    /\ Step(h, "remove", "stat")
    /\ \/ file[p] # Absent /\ RemoveFile(p)
       \/ p = Top /\ EmptyDir /\ RemoveDir
    /\ UNCHANGED <<timers, look, starts, records, group, bounds>>

DeleteFails(h) ==
    LET p == call[h].path IN
    /\ Step(h, "remove", "idle")
    /\ file[p] = Absent /\ ~(p = Top /\ EmptyDir)
    /\ UNCHANGED <<tree, timers, look, starts, records, group, bounds>>

(* Mutant: no stat is stored. *)
CallStat_NoStat(h) ==
    /\ Step(h, "stat", "mark")
    /\ IF call[h].data = Absent THEN DeleteStat({call[h].path}) ELSE UNCHANGED stat
    /\ UNCHANGED <<tree, timers, look, starts, cache, group, bounds>>

CallStat(h) ==
    /\ Step(h, "stat", "mark")
    /\ IF call[h].data = Absent THEN DeleteStat({call[h].path}) ELSE UpdateStat(call[h].path)
    /\ UNCHANGED <<tree, timers, look, starts, cache, group, bounds>>

(* MarkProcessed ends Put; Delete looks after the directories above. *)
CallMark(h) ==
    LET p == call[h].path  f == call[h].data IN
    /\ Step(h, "mark", IF f = Absent THEN "parent" ELSE "idle")
    /\ cache' = MarkProcessed(cache, p, DeliverHash(f))
    /\ UNCHANGED <<tree, timers, look, starts, stat, group, bounds>>

CleanupEmptyDirs(h) ==
    /\ Step(h, "cleanup", "idle")
    /\ IF call[h].path \in Leaf /\ EmptyDir THEN RemoveDir ELSE UNCHANGED tree
    /\ UNCHANGED <<timers, look, starts, records, group, bounds>>

-----------------------------------------------------------------------------
UserStep ==
    \/ \E p \in Path : (\E c \in Content : UserWrite(p, c)) \/ UserRemove(p)
    \/ UserMakeDir \/ UserRemoveDir

LookStep(g) == ReadFile(g) \/ Dispatch(g) \/ RecordStat(g) \/ EndLook(g)

CallStep(h) ==
    \/ Redo(h) \/ ClearParent(h) \/ DropStat(h) \/ MkdirAll(h) \/ ClearPath(h) \/ ClearStats(h)
    \/ PutWrites(h) \/ DeleteRemoves(h) \/ DeleteFails(h)
    \/ CallStat(h) \/ CallMark(h) \/ CleanupEmptyDirs(h)

StartStep == Boot \/ NextPhase \/ \E p \in Path : Scan(p)

Next ==
    \/ UserStep
    \/ \E e \in events : HandleEvent(e)
    \/ \E p \in Path : FireTimer(p)
    \/ \E g \in DOMAIN look : LookStep(g)
    \/ \E h \in Caller : CallStep(h) \/ \E p \in Path, f \in Content \cup {Absent} : Begin(h, p, f)
    \/ StartStep
    \/ Crash

Spec == Init /\ [][Next]_vars

-----------------------------------------------------------------------------
(* TreeInSync: at rest the tree holds the files that the rest of the group has,
   and no others: bursts of edits, files that turn into directories and back,
   restarts and calls that a crash interrupted included (debounceEvent arms a
   timer anew for every event, so the last state of a path is always looked at). *)
TreeInSync == AtRest => file = group

(* NothingToRescan: at rest the stored stat of every file is that of the file, so
   that a restart does not dispatch it again over newer files elsewhere
   (updateFileStat in Put and in dispatchFile). *)
NothingToRescan == AtRest => \A p \in Path : file[p] # Absent => stat[p] = "current"

(* WatchKept: while the peer is up a directory is watched, or the event of its
   creation waits to be handled, however often it is removed and made again by
   users, Put and Delete (handleEvent's branch for directories). *)
WatchKept == mode = "up" /\ dir => watched \/ <<"create", Top>> \in events

(* StatsHaveFiles: at rest a stored stat belongs to a file that exists
   (cleanupDirectoryStats). *)
StatsHaveFiles == AtRest => \A p \in Path : stat[p] # "none" => file[p] # Absent
=============================================================================
