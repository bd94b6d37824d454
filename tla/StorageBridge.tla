--------------------------- MODULE StorageBridge ----------------------------
(***************************************************************************)
(* Storage peers joined by the hub: what happens to one file.              *)
(*                                                                         *)
(* A user edits a peer's directory; the peer's watcher notices, and after  *)
(* the debounce delay a timer goroutine runs processChange, which reads    *)
(* the file and carries it through DispatchFrom and Hub.Dispatch into the  *)
(* Put or Delete of every other peer of the group.  Those write to disks   *)
(* that are watched too.  On start each peer scans for what changed while  *)
(* the bridge was down.                                                    *)
(*                                                                         *)
(* A thread <<p, s>> is a goroutine in which peer p dispatches: s = 0 is   *)
(* the one that runs Start and its scans, s >= 1 are timer callbacks.      *)
(* MaxOverlap bounds the callbacks of one peer that run at the same time.  *)
(***************************************************************************)
EXTENDS BasePeer, Hub, FiniteSets

CONSTANTS
    HomeGroup,    \* HomeGroup[c]: the group whose users write content c
    Writable,     \* what a write may leave in the file: contents or Empty
    UserOps,      \* which of "write", "delete", "touch" users do
    Editing,      \* "free": any user, at any time
                  \* "up": any user, once every peer is watching
                  \* "author": as "up", but one user only
                  \* "serial": one edit at a time, when the last one has settled
    Author,       \* the peer whose user edits when Editing = "author"
    Faults,       \* which of "crash", "fail", "evict" happen
    MaxEdits,     \* bound on user edits
    MaxFaults,    \* bound on faults
    WindowsApart, \* TRUE: at one peer, the time from processChange's stat of the
                  \* file to its MarkProcessed and the time from Put's write to its
                  \* MarkProcessed do not overlap
    MaxOverlap    \* bound on a peer's concurrent processChange calls

VARIABLES
    disk,      \* disk[p]: the file in p's directory
    stat,      \* stat[p]: the stored "file-stat-" entry: "none", "current" if it
               \*   equals the file's mtime and size, "old" if it does not
    cache,     \* cache[p]: the hash p last marked as processed
    pending,   \* pending[p]: a file system event or an armed debounce timer
    mode,      \* mode[p]: "down", in Start's scans ("changes", "deletions"), "up"
    thread,    \* thread[<<p, s>>]: where that goroutine is
    latest,    \* latest[g]: what the last edit in group g left (history)
    edits, faults   \* how many there were (bounds)

vars  == <<disk, stat, cache, pending, mode, thread, latest, edits, faults>>

Slot   == 0..MaxOverlap
Thread == Peer \X Slot

PC == {"idle", "read", "check", "mark", "offer", "write", "pstat", "pmark", "stat"}

ThreadState == [pc : PC, data : File, todo : SUBSET Peer, at : Peer \cup {0}, err : BOOLEAN]

Idle == [pc |-> "idle", data |-> Absent, todo |-> {}, at |-> 0, err |-> FALSE]

ASSUME ContentAssumption ==
    /\ HomeGroup \in [Content -> Groups]
    /\ Writable \subseteq Content \cup {Empty}
ASSUME BoundAssumption ==
    /\ MaxEdits \in Nat /\ MaxFaults \in Nat /\ MaxOverlap \in Nat \ {0}

TypeOK ==
    /\ disk \in [Peer -> File]
    /\ stat \in [Peer -> {"none", "old", "current"}]
    /\ cache \in [Peer -> Hash]
    /\ pending \in [Peer -> BOOLEAN]
    /\ mode \in [Peer -> {"down", "changes", "deletions", "up"}]
    /\ thread \in [Thread -> ThreadState]
    /\ latest \in [Groups -> File]
    /\ edits \in 0..MaxEdits
    /\ faults \in 0..MaxFaults

(* The bridge is not running yet; the directories and the store are empty. *)
Init ==
    /\ disk = [p \in Peer |-> Absent]
    /\ stat = [p \in Peer |-> "none"]
    /\ cache = [p \in Peer |-> NoHash]
    /\ pending = [p \in Peer |-> FALSE]
    /\ mode = [p \in Peer |-> "down"]
    /\ thread = [t \in Thread |-> Idle]
    /\ latest = [g \in Groups |-> Absent]
    /\ edits = 0
    /\ faults = 0

-----------------------------------------------------------------------------
(* What a change of a file does around it: its mtime moves away from the   *)
(* stored one, and a peer that watches gets an event.                      *)

WriteFile(p, f) ==
    /\ disk' = [disk EXCEPT ![p] = f]
    /\ stat' = [stat EXCEPT ![p] = IF @ = "current" THEN "old" ELSE @]
    /\ pending' = [pending EXCEPT ![p] = @ \/ mode[p] = "up"]

Up == \A p \in Peer : mode[p] = "up"

(* Nothing is under way: the bridge is all up or all down, and idle. *)
AtRest ==
    /\ \A p \in Peer : ~pending[p]
    /\ \A t \in Thread : thread[t].pc = "idle"
    /\ Up \/ \A p \in Peer : mode[p] = "down"

(* The next start would notice p's file: scanOfflineChanges or
   scanOfflineDeletions would dispatch it. *)
Detectable(p) == IF disk[p] = Absent THEN stat[p] # "none" ELSE stat[p] # "current"

(* Group g has taken in its last edit: every copy is there and recorded. *)
Settled(g) ==
    \A q \in Peer : Group[q] = g => disk[q] = latest[g] /\ ~Detectable(q)

MayEdit(p) ==
    \/ Editing = "free"
    \/ Editing = "up" /\ Up
    \/ Editing = "author" /\ Up /\ p = Author
    \/ Editing = "serial" /\ AtRest /\ Settled(Group[p])

Edit(p, f) ==
    /\ edits < MaxEdits
    /\ MayEdit(p)
    /\ WriteFile(p, f)
    /\ latest' = [latest EXCEPT ![Group[p]] = f]
    /\ edits' = edits + 1
    /\ UNCHANGED <<cache, mode, thread, faults>>

UserWrite(p, c) ==
    /\ "write" \in UserOps
    /\ c \in Content => HomeGroup[c] = Group[p]
    /\ c # disk[p]
    /\ Edit(p, c)

UserDelete(p) ==
    /\ "delete" \in UserOps
    /\ disk[p] # Absent
    /\ Edit(p, Absent)

(* The file is saved again unchanged: a new mtime, an event, the same bytes. *)
UserTouch(p) ==
    /\ "touch" \in UserOps
    /\ disk[p] # Absent /\ disk[p] = latest[Group[p]]
    /\ edits < MaxEdits
    /\ MayEdit(p) \/ AtRest
    /\ WriteFile(p, disk[p])
    /\ edits' = edits + 1
    /\ UNCHANGED <<cache, mode, thread, latest, faults>>

-----------------------------------------------------------------------------
(* Threads. *)

(* t has looked at the file, or is about to, and has not marked it yet. *)
Reading(t) == thread[t].pc \in {"read", "check", "mark"}

(* Thread t's record becomes r. *)
Move(t, r) == thread' = [thread EXCEPT ![t] = r]

Goto(t, pc) == Move(t, [thread[t] EXCEPT !.pc = pc])

NextMode(m) == IF m = "changes" THEN "deletions" ELSE "up"

(* A dispatch has returned.  Start goes on to its next scan, and after the
   last one to watching the tree; a timer callback ends. *)
Leave(t) ==
    /\ Move(t, Idle)
    /\ mode' = IF t[2] = 0 THEN [mode EXCEPT ![t[1]] = NextMode(@)] ELSE mode

(* Hub.Start: every peer's Start runs in a goroutine of its own. *)
Boot ==
    /\ \A p \in Peer : mode[p] = "down"
    /\ mode' = [p \in Peer |-> "changes"]
    /\ UNCHANGED <<disk, stat, cache, pending, thread, latest, edits, faults>>

(* scanOfflineChanges: a file whose stat is not the stored one is dispatched. *)
ScanChanges(p) ==
    /\ mode[p] = "changes"
    /\ thread[<<p, 0>>].pc = "idle"
    /\ IF disk[p] # Absent /\ stat[p] # "current"
       THEN Goto(<<p, 0>>, "read") /\ UNCHANGED mode
       ELSE Leave(<<p, 0>>)
    /\ UNCHANGED <<disk, stat, cache, pending, latest, edits, faults>>

(* Mutant: a file that was never here counts as deleted. *)
ScanDeletions_NeverSeen(p) ==
    /\ mode[p] = "deletions"
    /\ thread[<<p, 0>>].pc = "idle"
    /\ IF disk[p] = Absent
       THEN /\ Move(<<p, 0>>, [Idle EXCEPT !.pc = "check"])
            /\ UNCHANGED mode
       ELSE Leave(<<p, 0>>)
    /\ UNCHANGED <<disk, stat, cache, pending, latest, edits, faults>>

(* scanOfflineDeletions: a stored stat without a file is a deletion.  When
   the scan is over the peer watches its tree. *)
ScanDeletions(p) ==
    /\ mode[p] = "deletions"
    /\ thread[<<p, 0>>].pc = "idle"
    /\ IF disk[p] = Absent /\ stat[p] # "none"
       THEN /\ Move(<<p, 0>>, [Idle EXCEPT !.pc = "check"])
            /\ UNCHANGED mode
       ELSE Leave(<<p, 0>>)
    /\ UNCHANGED <<disk, stat, cache, pending, latest, edits, faults>>

(* A debounce timer fires and processChange stats the file. *)
FireTimer(p, s) ==
    /\ s # 0
    /\ pending[p]
    /\ WindowsApart => \A t \in Thread : thread[t].at # p
    /\ thread[<<p, s>>].pc = "idle"
    /\ pending' = [pending EXCEPT ![p] = FALSE]
    /\ Goto(<<p, s>>, IF disk[p] = Absent THEN "check" ELSE "read")
    /\ UNCHANGED <<disk, stat, cache, mode, latest, edits, faults>>

(* dispatchFile reads the file; if it is gone the call returns. *)
ReadFile(t) ==
    /\ thread[t].pc = "read"
    /\ IF disk[t[1]] = Absent
       THEN Leave(t)
       ELSE /\ Move(t, [thread[t] EXCEPT !.pc = "check", !.data = disk[t[1]]])
            /\ UNCHANGED mode
    /\ UNCHANGED <<disk, stat, cache, pending, latest, edits, faults>>

(* DispatchFrom: IsRepeating, under the cache's read lock. *)
CheckRepeating(t) ==
    /\ thread[t].pc = "check"
    /\ IF IsRepeating(cache, t[1], DispatchHash(thread[t].data))
       THEN Goto(t, "stat")
       ELSE Goto(t, "mark")
    /\ UNCHANGED <<disk, stat, cache, pending, mode, latest, edits, faults>>

(* Mutant: the source's stat is stored before the dispatch. *)
MarkAndDispatch_StatFirst(t) ==
    /\ thread[t].pc = "mark"
    /\ cache' = MarkProcessed(cache, t[1], DispatchHash(thread[t].data))
    /\ stat' = [stat EXCEPT ![t[1]] = IF thread[t].data = Absent THEN "none" ELSE "current"]
    /\ Move(t, [thread[t] EXCEPT !.pc = "offer", !.todo = Targets(t[1])])
    /\ UNCHANGED <<disk, pending, mode, latest, edits, faults>>

(* DispatchFrom: MarkProcessed, under the write lock, and into the hub. *)
MarkAndDispatch(t) ==
    /\ thread[t].pc = "mark"
    /\ cache' = MarkProcessed(cache, t[1], DispatchHash(thread[t].data))
    /\ Move(t, [thread[t] EXCEPT !.pc = "offer", !.todo = Targets(t[1])])
    /\ UNCHANGED <<disk, stat, pending, mode, latest, edits, faults>>

(* Hub.Dispatch reaches target q: its Put or Delete checks IsRepeating. *)
Offer(t, q) ==
    /\ thread[t].pc = "offer"
    /\ IsNext(q, thread[t].todo)
    /\ IF IsRepeating(cache, q, DeliverHash(thread[t].data))
       THEN Move(t, [thread[t] EXCEPT !.todo = @ \ {q}])
       ELSE Move(t, [thread[t] EXCEPT !.todo = @ \ {q}, !.pc = "write", !.at = q])
    /\ UNCHANGED <<disk, stat, cache, pending, mode, latest, edits, faults>>

(* Put writes the file, or Delete removes it.  Delete returns without
   marking when there is no file. *)
Write(t) ==
    /\ thread[t].pc = "write"
    /\ LET q == thread[t].at IN
       /\ WindowsApart => \A s \in Slot : ~Reading(<<q, s>>)
       /\ IF thread[t].data = Absent /\ disk[q] = Absent
          THEN /\ Move(t, [thread[t] EXCEPT !.pc = "offer", !.at = 0])
               /\ UNCHANGED <<disk, stat, pending>>
          ELSE /\ WriteFile(q, thread[t].data)
               /\ Goto(t, "pstat")
    /\ UNCHANGED <<cache, mode, latest, edits, faults>>

(* Mutant: Hub.Dispatch returns at the first error. *)
WriteFails_Aborts(t) ==
    /\ "fail" \in Faults /\ faults < MaxFaults
    /\ thread[t].pc = "write"
    /\ Move(t, [thread[t] EXCEPT !.pc = "offer", !.at = 0, !.err = TRUE, !.todo = {}])
    /\ faults' = faults + 1
    /\ UNCHANGED <<disk, stat, cache, pending, mode, latest, edits>>

(* Put or Delete gives up after its retries; the hub collects the error and
   goes on to the next target. *)
WriteFails(t) ==
    /\ "fail" \in Faults /\ faults < MaxFaults
    /\ thread[t].pc = "write"
    /\ Move(t, [thread[t] EXCEPT !.pc = "offer", !.at = 0, !.err = TRUE])
    /\ faults' = faults + 1
    /\ UNCHANGED <<disk, stat, cache, pending, mode, latest, edits>>

(* The stat Put and dispatchFile store is that of the file as it is now;
   Delete and dispatchDeletion drop the entry. *)
StoredStat(p, f) ==
    CASE f = Absent       -> "none"
      [] f # Absent /\ disk[p] # Absent -> "current"
      [] f # Absent /\ disk[p] = Absent -> stat[p]

PutStat(t) ==
    /\ thread[t].pc = "pstat"
    /\ stat' = [stat EXCEPT ![thread[t].at] = StoredStat(thread[t].at, thread[t].data)]
    /\ Goto(t, "pmark")
    /\ UNCHANGED <<disk, cache, pending, mode, latest, edits, faults>>

(* Mutant: Put does not mark what it wrote. *)
PutMark_Unmarked(t) ==
    /\ thread[t].pc = "pmark"
    /\ Move(t, [thread[t] EXCEPT !.pc = "offer", !.at = 0])
    /\ UNCHANGED <<disk, stat, cache, pending, mode, latest, edits, faults>>

(* Put and Delete mark only after they wrote. *)
PutMark(t) ==
    /\ thread[t].pc = "pmark"
    /\ cache' = MarkProcessed(cache, thread[t].at, DeliverHash(thread[t].data))
    /\ Move(t, [thread[t] EXCEPT !.pc = "offer", !.at = 0])
    /\ UNCHANGED <<disk, stat, pending, mode, latest, edits, faults>>

(* Mutant: dispatchFile records the stat although the dispatch failed. *)
DispatchReturns_NoError(t) ==
    /\ thread[t].pc = "offer"
    /\ thread[t].todo = {}
    /\ Goto(t, "stat")
    /\ UNCHANGED <<disk, stat, cache, pending, mode, latest, edits, faults>>

(* Hub.Dispatch returns; with an error the source records no stat. *)
DispatchReturns(t) ==
    /\ thread[t].pc = "offer"
    /\ thread[t].todo = {}
    /\ IF thread[t].err THEN Leave(t) ELSE Goto(t, "stat") /\ UNCHANGED mode
    /\ UNCHANGED <<disk, stat, cache, pending, latest, edits, faults>>

(* The source records the file's stat, or forgets it. *)
OwnStat(t) ==
    /\ thread[t].pc = "stat"
    /\ stat' = [stat EXCEPT ![t[1]] = StoredStat(t[1], thread[t].data)]
    /\ Leave(t)
    /\ UNCHANGED <<disk, cache, pending, latest, edits, faults>>

-----------------------------------------------------------------------------
(* The process dies or is stopped: caches, events, timers and goroutines
   are gone, directories and the store remain. *)
Crash ==
    /\ "crash" \in Faults /\ faults < MaxFaults
    /\ \E p \in Peer : mode[p] # "down"
    /\ cache' = [p \in Peer |-> NoHash]
    /\ pending' = [p \in Peer |-> FALSE]
    /\ mode' = [p \in Peer |-> "down"]
    /\ thread' = [t \in Thread |-> Idle]
    /\ faults' = faults + 1
    /\ UNCHANGED <<disk, stat, latest, edits>>

(* Traffic on other paths pushes the entry out of the LRU cache. *)
Evict(p) ==
    /\ "evict" \in Faults /\ faults < MaxFaults
    /\ cache[p] # NoHash
    /\ cache' = [cache EXCEPT ![p] = NoHash]
    /\ faults' = faults + 1
    /\ UNCHANGED <<disk, stat, pending, mode, thread, latest, edits>>

-----------------------------------------------------------------------------
ThreadStep(t) ==
    \/ ReadFile(t)
    \/ CheckRepeating(t)
    \/ MarkAndDispatch(t)
    \/ \E q \in Peer : Offer(t, q)
    \/ Write(t)
    \/ WriteFails(t)
    \/ PutStat(t)
    \/ PutMark(t)
    \/ DispatchReturns(t)
    \/ OwnStat(t)

Scan(p) == ScanChanges(p) \/ ScanDeletions(p)

UserStep(p) ==
    \/ \E c \in Writable : UserWrite(p, c)
    \/ UserDelete(p)
    \/ UserTouch(p)

Next ==
    \/ \E p \in Peer : UserStep(p) \/ Scan(p) \/ Evict(p)
    \/ \E p \in Peer, s \in Slot : FireTimer(p, s)
    \/ \E t \in Thread : ThreadStep(t)
    \/ Boot
    \/ Crash

Spec == Init /\ [][Next]_vars

(* Goroutines are scheduled, timers fire, and a stopped bridge is started
   again.  Users and faults owe nothing. *)
Fairness ==
    /\ WF_vars(Boot)
    /\ \A p \in Peer : WF_vars(Scan(p)) /\ WF_vars(\E s \in Slot : FireTimer(p, s))
    /\ \A t \in Thread : WF_vars(ThreadStep(t))

FairSpec == Spec /\ Fairness

-----------------------------------------------------------------------------
(* GroupIsolation: a file holds only content written in its own group
   (Hub.Dispatch's group test; ARCHITECTURE.md "Group-based Routing"), however
   the dispatches of different groups interleave. *)
GroupIsolation ==
    \A p \in Peer : disk[p] \in Content => HomeGroup[disk[p]] = Group[p]

InSync == \A p \in Peer : disk[p] = latest[Group[p]]

(* SyncAtRest: when the bridge is up and has nothing left to do, every
   directory of a group holds what the last edit left, deletions included:
   the echo that each written file causes never undoes the edit. *)
SyncAtRest == AtRest /\ Up => InSync

(* CrashSafe: as long as some directory lacks the last edit, a directory that
   has it would dispatch it after a restart, so stopping at any point loses
   no change (the order of dispatch and updateFileStat in dispatchFile). *)
CrashSafe ==
    \A g \in Groups :
        \/ \A q \in Peer : Group[q] = g => disk[q] = latest[g]
        \/ \E q \in Peer : Group[q] = g /\ disk[q] = latest[g] /\ Detectable(q)

(* EventuallyQuiet: once edits and faults stop, the bridge comes to rest: no
   dispatch goes around in circles (ARCHITECTURE.md "No infinite loop!"). *)
EventuallyQuiet == <>[]AtRest

(* FailureContained: a Put or Delete that fails costs its own target and no
   other (Hub.Dispatch collects errors and goes on): at rest, at most as many
   directories lack the last edit as there were failures. *)
FailureContained ==
    AtRest /\ Up => Cardinality({p \in Peer : disk[p] # latest[Group[p]]}) <= faults

(* AuthorUndisturbed: when only one user edits, no echo of the edits comes
   back to that user's own directory (IsRepeating, PLAN.md "Echo loops"). *)
AuthorUndisturbed == Editing = "author" => disk[Author] = latest[Group[Author]]

(* The bridge, with one edit at a time, implements a replicated register whose
   replicas only ever step to the last edit: no step of a dispatch, an echo
   or a restart puts back an older version. *)
Replica == INSTANCE SyncGroup WITH copy <- disk, last <- latest
ImplementsSyncGroup == Replica!Spec

(* FollowsRegister: the same without the promise that the edit gets there,
   which holds even if Puts and Deletes fail (Hub.Dispatch): a file that a
   dispatch, a retry after a restart or an echo changes becomes the last edit,
   and nothing else. *)
FollowsRegister == Replica!Init /\ [][Replica!Next]_<<disk, latest>>
=============================================================================
