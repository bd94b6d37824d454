--------------------------- MODULE TreeSync_proofs --------------------------
(***************************************************************************)
(* At rest, the directory holds the files that the rest of the group has,  *)
(* and stats belong to files, for any number of leaves, calls, edits and   *)
(* crashes.                                                                *)
(*                                                                         *)
(* This takes all that StorageTree may assume of users, of the hub and of  *)
(* crashes: without any one of them directory and group may drift apart.   *)
(***************************************************************************)
EXTENDS TreeStats_proofs

USE HashesDistinct, PathAssumption, ChoiceAssumption
USE DEF scan, Scanning

Settled == Timed /\ FreshBytes /\ LooksWhole

(* Nobody writes a file of no bytes here. *)
NotEmpty ==
    /\ \A p \in Path : file[p] # Empty /\ group[p] # Empty
    /\ \A g \in Looker : look[g].data # Empty
    /\ \A h \in Caller : call[h].data # Empty

(* The others' files are a tree; what is in the way of others has no stat, and,
   between calls, is what the others have. *)
OneTree ==
    /\ \A p \in Path : \A q \in Excluded(p) : group[p] # Absent => group[q] = Absent
    /\ dir => stat[Top] = "none"
    /\ file[Top] # Absent => \A p \in Leaf : stat[p] = "none"
    /\ ~Calling /\ dir => group[Top] = Absent
    /\ ~Calling /\ file[Top] # Absent => \A p \in Leaf : group[p] = Absent

(* A callback runs alone among the paths that exclude each other, and is followed
   by another when the file has changed since it has read it. *)
TimerLooks(p) ==
    /\ look[p].pc # "idle" => \A q \in Excluded(p) : look[q].pc = "idle"
    /\ look[p].pc \in {"read", "dispatch", "stat"} => IF p = Top THEN ~dir ELSE file[Top] = Absent
    /\ look[p].pc = "read" \/ (look[p].pc = "dispatch" /\ look[p].data # Absent) =>
           \A q \in Excluded(p) : stat[q] = "none"
    /\ look[p].pc = "dispatch" /\ look[p].data # file[p] => Noticed(p)

(* What is taken for a repetition is known to the group; so is what was
   dispatched, until the stat is stored. *)
LooksTell(g) ==
    LET r == look[g] IN
    /\ r.pc = "dispatch" /\ cache[r.path] = DispatchHash(r.data) => group[r.path] = r.data
    /\ r.pc = "stat" => group[r.path] = r.data

(* A scan looks at what its stat gave it reason to. *)
ScanFinds ==
    scan.pc \in {"read", "dispatch"} =>
        IF mode = "changes" THEN stat[scan.path] # "current" ELSE stat[scan.path] # "none"

(* What a path would be given is news, and a deletion was marked by those who told
   the group. *)
CacheTells(p) ==
    /\ cache[p] = Empty =>
           group[p] = Absent \/ \E h \in Caller : call[h].pc \notin {"idle", "redo"} /\ call[h].path = p
    /\ ~Calling /\ file[p] # group[p] => cache[p] # DispatchHash(file[p])

(* Stats belong to files that the group has; stats of files that are gone are
   about to go. *)
StatTells(p) ==
    /\ ~Calling /\ stat[p] # "none" =>
           group[p] # Absent \/ look[p].pc = "stat" \/ Scanning(p, {"stat"})
    /\ ~Calling /\ mode # "up" /\ group[p] # Absent => stat[p] # "none" \/ Scanning(p, {"stat"})
    /\ mode # "up" /\ stat[p] # "none" /\ file[p] = Absent =>
           \/ mode \in {"down", "changes"}
           \/ mode = "deletions" /\ (p \in todo \/ Scanning(p, {"dispatch", "stat"}))
    /\ mode = "up" /\ Calling /\ stat[p] # "none" /\ file[p] = Absent =>
           \E h \in Caller : \/ call[h].pc = "dropstat" /\ p = Top
                             \/ call[h].pc = "clearstats" /\ p \in Leaf
                             \/ call[h].pc = "stat" /\ p = call[h].path

(* A scan, or a callback, is about to tell the group of p. *)
ScanCover(p) ==
    IF file[p] # Absent
    THEN \/ stat[p] # "current" /\ (mode = "down" \/ (mode = "changes" /\ p \in todo))
         \/ mode = "changes" /\ Scanning(p, {"read", "dispatch"})
    ELSE \/ stat[p] # "none" /\ (mode \in {"down", "changes"} \/ (mode = "deletions" /\ p \in todo))
         \/ mode = "deletions" /\ Scanning(p, {"dispatch"})

TimerCover(p) ==
    \/ Noticed(p)
    \/ look[p].pc = "read" /\ file[p] # Absent
    \/ look[p].pc = "dispatch" /\ look[p].data = file[p]

(* What the group does not know it will be told, unless the group has changed
   itself, and calls; then no scan takes the old file for a new one. *)
Synced(p) ==
    file[p] # group[p] =>
        /\ ~Calling => ScanCover(p) \/ (mode = "up" /\ TimerCover(p))
        /\ Calling /\ file[p] # Absent => stat[p] = "current"
        /\ Calling /\ file[p] = Absent => stat[p] = "none"

(* A call brings what the group has, and touches nothing but what is in its way. *)
Touched(r) == {r.path} \cup (IF r.data = Absent THEN {} ELSE Excluded(r.path))

CallSync(h) ==
    LET r == call[h] IN
    r.pc # "idle" =>
        /\ group[r.path] = r.data
        /\ \A p \in Path : file[p] # group[p] => p \in Touched(r)
        /\ r.data # Absent =>
               \A q \in Excluded(r.path) :
                   group[q] = Absent /\ (r.pc \in {"write", "stat", "mark"} => file[q] = Absent)

SyncFacts ==
    /\ NotEmpty /\ OneTree /\ ScanFinds
    /\ \A p \in Path : TimerLooks(p) /\ CacheTells(p) /\ StatTells(p) /\ Synced(p)
    /\ \A g \in Looker : LooksTell(g)
    /\ \A h \in Caller : CallSync(h)

SyncInv == RescanInv /\ SyncFacts

-----------------------------------------------------------------------------
(* What the group is told. *)

LEMMA Others ==
    \A p \in Path : /\ Excluded(p) \subseteq Path /\ p \notin Excluded(p)
                    /\ \A q \in Excluded(p) : p \in Excluded(q)
                    /\ p = Top => Excluded(p) = Leaf
                    /\ p # Top => Excluded(p) = {Top} /\ p \in Leaf
BY DEF Path, Excluded

LEMMA ToldIs ==
    ASSUME NEW p \in Path, NEW f, Told(p, f)
    PROVE  /\ group'[p] = f
           /\ \A q \in Excluded(p) : group'[q] = IF f = Absent THEN group[q] ELSE Absent
           /\ \A q \in Path : q # p /\ q \notin Excluded(p) => group'[q] = group[q]
<1>1. \A q \in Path : group'[q] = CASE q = p -> f
                                    [] q \in Excluded(p) /\ f # Absent -> Absent
                                    [] q # p /\ ~(q \in Excluded(p) /\ f # Absent) -> group[q]
  BY DEF Told
<1>2. group'[p] = f
  BY <1>1, Others
<1>3. ASSUME NEW q \in Excluded(p) PROVE group'[q] = IF f = Absent THEN group[q] ELSE Absent
  <2>1. q \in Path /\ q # p
    BY Others
  <2>2. CASE f = Absent
    BY <1>1, <2>1, <2>2
  <2>3. CASE f # Absent
    BY <1>1, <2>1, <2>3
  <2> QED BY <2>2, <2>3
<1>4. ASSUME NEW q \in Path, q # p, q \notin Excluded(p) PROVE group'[q] = group[q]
  BY <1>1, <1>4
<1> QED BY <1>2, <1>3, <1>4

(* Telling the group what it knows changes nothing. *)
LEMMA ToldAgain ==
    ASSUME TypeOK, OneTree, NEW p \in Path, NEW f, Told(p, f), group[p] = f
    PROVE  group' = group
<1>1. \A q \in Path : group'[q] = group[q]
  BY ToldIs DEF OneTree
<1>2. group = [q \in Path |-> group[q]] /\ group' = [q \in Path |-> group'[q]]
  BY DEF TypeOK, Told
<1> QED BY <1>1, <1>2

(* ... and leaves it a tree. *)
LEMMA StillOneTree ==
    ASSUME OneTree, NEW p \in Path, NEW f,
           group'[p] = f,
           \A q \in Excluded(p) : group'[q] = IF f = Absent THEN group[q] ELSE Absent,
           \A q \in Path : q # p /\ q \notin Excluded(p) => group'[q] = group[q]
    PROVE  \A a \in Path : \A b \in Excluded(a) : group'[a] # Absent => group'[b] = Absent
<1> SUFFICES ASSUME NEW a \in Path, NEW b \in Excluded(a), group'[a] # Absent
             PROVE  group'[b] = Absent
  OBVIOUS
<1>1. b \in Path /\ b # a /\ (a = p => b \in Excluded(p)) /\ (b = p => a \in Excluded(p))
  BY Others
<1>2. CASE f = Absent
  <2>1. \A q \in Path : q # p => group'[q] = group[q]
    BY <1>2
  <2> QED BY <1>1, <1>2, <2>1 DEF OneTree
<1>3. CASE f # Absent
  <2>1. a \notin Excluded(p)
    BY <1>3
  <2>2. CASE a = p
    BY <1>1, <1>3, <2>2
  <2>3. CASE a # p
    <3>1. group'[a] = group[a] /\ b # p /\ group[b] = Absent
      BY <1>1, <2>1, <2>3 DEF OneTree
    <3> QED BY <1>1, <1>3, <3>1
  <2> QED BY <2>2, <2>3
<1> QED BY <1>2, <1>3

(* Files that are there agree with the directory that is there. *)
LEMMA FilesApart ==
    ASSUME TypeOK, NEW p \in Path, file[p] # Absent
    PROVE  /\ IF p = Top THEN ~dir ELSE dir /\ file[Top] = Absent
           /\ \A q \in Excluded(p) : file[q] = Absent
<1>1. IF p = Top THEN ~dir ELSE dir
  BY Paths DEF TypeOK
<1>2. ASSUME NEW q \in Excluded(p), file[q] # Absent PROVE FALSE
  <2>1. q \in Path /\ (q = Top <=> p # Top)
    BY Others, Paths
  <2>2. IF q = Top THEN ~dir ELSE dir
    BY <1>2, <2>1, Paths DEF TypeOK
  <2> QED BY <1>1, <2>1, <2>2
<1>3. p # Top => Top \in Excluded(p)
  BY Others
<1> QED BY <1>1, <1>2, <1>3

(* A dispatch is taken for a repetition of itself alone. *)
LEMMA HashesTell ==
    ASSUME NEW f \in File \ {Empty}, NEW k \in File \ {Empty}
    PROVE  /\ DispatchHash(f) = DispatchHash(k) => f = k
           /\ DispatchHash(f) = Empty <=> f = Absent
           /\ DispatchHash(f) # NoHash /\ DeliverHash(f) # Empty
           /\ DispatchHash(f) = DeliverHash(k) => f = k
           /\ f # Absent => DispatchHash(f) = DeliverHash(f)
BY DEF DispatchHash, DeliverHash, Bytes, File

(* At rest the files are those of the group, and so are the stats. *)
LEMMA Resting ==
    ASSUME SyncInv, AtRest
    PROVE  /\ \A p \in Path : /\ file[p] = group[p]
                              /\ stat[p] = IF file[p] = Absent THEN "none" ELSE "current"
                              /\ ~Noticed(p) /\ look[p].pc = "idle"
           /\ mode = "up" /\ ~Calling /\ scan.pc = "idle"
           /\ file = group
<1>0. TypeOK
  BY DEF SyncInv, RescanInv, WatchInv
<1>1. /\ mode = "up" /\ ~Calling /\ scan.pc = "idle"
      /\ \A p \in Path : ~Noticed(p) /\ look[p].pc = "idle"
  BY <1>0, Paths DEF AtRest, Quiet, Noticed, TypeOK, Looker
<1>2. ASSUME NEW p \in Path
      PROVE file[p] = group[p] /\ stat[p] = IF file[p] = Absent THEN "none" ELSE "current"
  <2>1. file[p] = group[p]
    BY <1>1 DEF SyncInv, SyncFacts, Synced, ScanCover, TimerCover
  <2>2. file[p] # Absent => stat[p] = "current"
    BY <1>1 DEF SyncInv, RescanInv, Rescanned, Calling, Tells
  <2>3. file[p] = Absent => stat[p] = "none"
    BY <1>1, <2>1 DEF SyncInv, SyncFacts, StatTells
  <2> QED BY <2>1, <2>2, <2>3
<1>3. file = group
  <2>1. file = [p \in Path |-> file[p]] /\ group = [p \in Path |-> group[p]]
    BY <1>0 DEF TypeOK
  <2> QED BY <1>2, <2>1
<1> QED BY <1>1, <1>2, <1>3

-----------------------------------------------------------------------------
(* The user. *)

LEMMA UserKnows ==
    ASSUME TypeOK, Settled, UserStep
    PROVE  /\ dir' => dir \/ KnownGone(Top)
           /\ file'[Top] # Absent => file[Top] # Absent \/ \A q \in Leaf : KnownGone(q)
           /\ \A q \in Path : \/ file'[q] = file[q] \/ file'[q] = Absent
                              \/ cache[q] # file'[q] \/ group[q] = file'[q]
<1>1. ASSUME NEW p \in Path, NEW c \in Content, UserWrite(p, c)
      PROVE  /\ dir' => dir \/ KnownGone(Top)
             /\ file'[Top] # Absent => file[Top] # Absent \/ \A q \in Leaf : KnownGone(q)
             /\ \A q \in Path : file'[q] = file[q] \/ cache[q] # file'[q] \/ group[q] = file'[q]
  <2>1. /\ dir' = dir /\ file'[p] = c /\ \A q \in Path \ {p} : file'[q] = file[q]
        /\ p = Top => \A q \in Leaf : KnownGone(q)
        /\ cache[p] # c \/ group[p] = c
    BY <1>1, Written DEF UserWrite, Fresh, Settled, Timed, DeliverHash, Bytes
  <2> QED BY <2>1, Paths
<1>2. ASSUME NEW p \in Path, UserRemove(p)
      PROVE  /\ dir' = dir /\ file'[p] = Absent /\ \A q \in Path \ {p} : file'[q] = file[q]
  BY <1>2, Removed DEF UserRemove
<1>3. CASE UserMakeDir
  BY <1>3, DirMade DEF UserMakeDir, Settled, Timed
<1>4. CASE UserRemoveDir
  BY <1>4, DirRemoved, Paths DEF UserRemoveDir, EmptyDir
<1> QED BY <1>1, <1>2, <1>3, <1>4, Paths DEF UserStep

LEMMA SyncUser ==
    ASSUME SyncInv, RescanInv', Settled, UserStep
    PROVE  SyncFacts'
<1>0. TypeOK /\ TypeOK' /\ Timed
  BY DEF SyncInv, RescanInv, WatchInv, Settled
<1>1. /\ ~Calling /\ ~Calling' /\ mode \in {"down", "up"}
      /\ UNCHANGED <<timers, look, mode, todo, cache, call, group>>
      /\ scan.pc = "idle" /\ \A h \in Caller : call[h].pc = "idle"
      /\ mode = "down" => \A p \in Path : look[p].pc = "idle"
  BY <1>0, UserChanges, CallsStay DEF SyncInv, RescanInv, Turns, starts, Calling
<1>2. /\ events \subseteq events'
      /\ \A p \in Path :
            \/ file'[p] = file[p] /\ stat'[p] = stat[p]
            \/ file'[p] = Absent /\ stat'[p] = stat[p] /\ (mode = "up" => Noticed(p)')
            \/ /\ file'[p] \in Content /\ stat'[p] # "current"
               /\ stat'[p] = "none" <=> stat[p] = "none"
               /\ mode = "up" => Noticed(p)'
  BY <1>0, UserChanges
<1>3. \A p \in Path : stat'[p] = "none" <=> stat[p] = "none"
  BY <1>2
<1>4. /\ dir' => dir \/ KnownGone(Top)
      /\ file'[Top] # Absent => file[Top] # Absent \/ \A q \in Leaf : KnownGone(q)
      /\ \A p \in Path : \/ file'[p] = file[p] \/ file'[p] = Absent
                         \/ cache[p] # file'[p] \/ group[p] = file'[p]
  BY <1>0, UserKnows
<1>5. \A p \in Path : KnownGone(p) => stat[p] = "none" /\ group[p] = Absent /\ look[p].pc = "idle"
  BY <1>1 DEF SyncInv, SyncFacts, StatTells, KnownGone
<1>6. NotEmpty'
  BY <1>1, <1>2 DEF SyncInv, SyncFacts, NotEmpty
<1>7. OneTree'
  BY <1>1, <1>3, <1>4, <1>5, Paths DEF SyncInv, SyncFacts, OneTree
<1>8. ScanFinds' /\ (\A g \in Looker : LooksTell(g)') /\ \A h \in Caller : CallSync(h)'
  BY <1>1 DEF SyncInv, SyncFacts, ScanFinds, LooksTell, CallSync
<1>9. ASSUME NEW p \in Path PROVE TimerLooks(p)'
  <2>1. TimerLooks(p)
    BY DEF SyncInv, SyncFacts
  <2>2. \A q \in Excluded(p) : q \in Path
    BY Others
  <2>3. look[p].pc \in {"read", "dispatch", "stat"} => IF p = Top THEN ~dir' ELSE file'[Top] = Absent
    BY <1>4, <1>5, <2>1, Paths DEF TimerLooks
  <2>4. look[p].pc = "dispatch" /\ look[p].data # file'[p] => Noticed(p)'
    <3>1. Noticed(p) => Noticed(p)'
      BY <1>1, <1>2, NoticedStays
    <3> QED BY <1>1, <1>2, <2>1, <3>1 DEF TimerLooks
  <2> QED BY <1>1, <1>3, <2>1, <2>2, <2>3, <2>4 DEF TimerLooks
<1>10. ASSUME NEW p \in Path PROVE CacheTells(p)'
  <2>1. CacheTells(p)
    BY DEF SyncInv, SyncFacts
  <2>2. cache[p] = Empty => group[p] = Absent
    BY <1>1, <2>1 DEF CacheTells
  <2>3. file'[p] # group[p] => cache[p] # DispatchHash(file'[p])
    <3>1. CASE file'[p] = file[p]
      BY <1>1, <2>1, <3>1 DEF CacheTells
    <3>2. CASE file'[p] = Absent
      BY <2>2, <3>2 DEF DispatchHash, Bytes
    <3>3. CASE file'[p] # Absent /\ (cache[p] # file'[p] \/ group[p] = file'[p])
      BY <3>3 DEF DispatchHash, Bytes
    <3> QED BY <1>4, <3>1, <3>2, <3>3
  <2> QED BY <1>1, <2>2, <2>3 DEF CacheTells
<1>11. ASSUME NEW p \in Path PROVE StatTells(p)'
  BY <1>1, <1>3 DEF SyncInv, SyncFacts, StatTells
<1>12. ASSUME NEW p \in Path PROVE Synced(p)'
  <2>1. Noticed(p) => Noticed(p)'
    BY <1>1, <1>2, NoticedStays
  <2>2. Synced(p) /\ StatTells(p)
    BY DEF SyncInv, SyncFacts
  <2> SUFFICES ASSUME file'[p] # group[p]
               PROVE  ScanCover(p)' \/ (mode = "up" /\ TimerCover(p)')
    BY <1>1 DEF Synced
  <2>3. CASE mode = "up"
    <3>1. CASE file'[p] = file[p]
      BY <1>1, <2>1, <2>2, <2>3, <3>1 DEF Synced, ScanCover, TimerCover
    <3>2. CASE file'[p] # file[p]
      BY <1>1, <1>2, <2>3, <3>2 DEF TimerCover
    <3> QED BY <3>1, <3>2
  <2>4. CASE mode = "down"
    <3>1. CASE file'[p] = file[p] /\ stat'[p] = stat[p]
      BY <1>1, <2>2, <2>4, <3>1 DEF Synced, ScanCover
    <3>2. CASE file'[p] = Absent /\ stat'[p] = stat[p] /\ file[p] # Absent
      BY <1>1, <2>2, <2>4, <3>2 DEF StatTells, ScanCover
    <3>3. CASE file'[p] \in Content /\ stat'[p] # "current"
      BY <1>1, <2>4, <3>3 DEF ScanCover
    <3> QED BY <1>2, <3>1, <3>2, <3>3
  <2> QED BY <1>1, <2>3, <2>4
<1> QED BY <1>6, <1>7, <1>8, <1>9, <1>10, <1>11, <1>12 DEF SyncFacts

-----------------------------------------------------------------------------
(* Events and timers. *)

LEMMA SyncEvent ==
    ASSUME SyncInv, RescanInv', NEW e \in events, HandleEvent(e)
    PROVE  SyncFacts'
<1>0. TypeOK /\ e[2] \in Path /\ e \in Event
  BY DEF SyncInv, RescanInv, WatchInv, TypeOK, Event
<1>1. /\ UNCHANGED <<dir, file, stray, look, mode, todo, stat, cache, call, group>>
      /\ events' = events \ {e} /\ (Calling' <=> Calling)
  BY CallsStay DEF HandleEvent, starts, records
<1>2. ASSUME NEW p \in Path, Noticed(p), file[p] # Absent \/ ~(p = Top /\ dir)
      PROVE  Noticed(p)'
  <2>1. CASE e[2] = p
    <3>1. Found(p) # "directory"
      BY <1>0, <1>2, FoundIs, TopAbsent
    <3>2. entry' = [entry EXCEPT ![p] = "armed"]
      BY <2>1, <3>1 DEF HandleEvent, Debounce
    <3> QED BY <1>0, <3>2 DEF Noticed, TypeOK
  <2>2. CASE e[2] # p
    <3>1. entry' = entry \/ entry' = [entry EXCEPT ![e[2]] = "armed"]
      BY DEF HandleEvent, Debounce
    <3>2. entry'[p] = entry[p]
      BY <1>0, <2>2, <3>1 DEF TypeOK
    <3>3. \A op \in {"create", "other"} : <<op, p>> \in events => <<op, p>> \in events'
      BY <1>1, <2>2
    <3> QED BY <1>1, <1>2, <3>2, <3>3 DEF Noticed
  <2> QED BY <2>1, <2>2
<1>3. NotEmpty' /\ ScanFinds' /\ (\A g \in Looker : LooksTell(g)') /\ \A h \in Caller : CallSync(h)'
  BY <1>1 DEF SyncInv, SyncFacts, NotEmpty, ScanFinds, LooksTell, CallSync
<1>4. OneTree' /\ \A p \in Path : TimerLooks(p)'
  <2>1. OneTree'
    BY <1>1 DEF SyncInv, SyncFacts, OneTree
  <2>2. ASSUME NEW p \in Path PROVE TimerLooks(p)'
    <3>1. TimerLooks(p)
      BY DEF SyncInv, SyncFacts
    <3>2. look[p].pc = "dispatch" /\ look[p].data # file[p] => Noticed(p)'
      BY <1>2, <3>1 DEF TimerLooks
    <3> QED BY <1>1, <3>1, <3>2 DEF TimerLooks
  <2> QED BY <2>1, <2>2
<1>5. \A p \in Path : CacheTells(p)' /\ StatTells(p)'
  BY <1>1 DEF SyncInv, SyncFacts, CacheTells, StatTells
<1>6. ASSUME NEW p \in Path PROVE Synced(p)'
  <2>1. Synced(p)
    BY DEF SyncInv, SyncFacts
  <2>2. ~Calling /\ p = Top /\ dir => group[p] = Absent
    BY DEF SyncInv, SyncFacts, OneTree
  <2>3. ScanCover(p)' <=> ScanCover(p)
    BY <1>1 DEF ScanCover
  <2>4. ~Calling /\ file[p] # group[p] /\ TimerCover(p) => TimerCover(p)'
    BY <1>1, <1>2, <2>2 DEF TimerCover
  <2> QED BY <1>1, <2>1, <2>3, <2>4 DEF Synced
<1> QED BY <1>3, <1>4, <1>5, <1>6 DEF SyncFacts

(* A path that the group takes for a file is one, or there is nothing there. *)
LEMMA FoundMissing ==
    ASSUME TypeOK, OneTree, ~Calling, NEW p \in Path, file[p] = Absent, group[p] # Absent
    PROVE  (p = Top => ~dir) /\ (p \in Leaf => file[Top] = Absent)
BY DEF OneTree

LEMMA SyncTimer ==
    ASSUME SyncInv, RescanInv', Settled, NEW p \in Path, FireTimer(p)
    PROVE  SyncFacts'
<1>0. TypeOK /\ SyncFacts /\ Timed /\ OneTree
  BY DEF SyncInv, RescanInv, WatchInv, Settled, SyncFacts
<1>1. /\ UNCHANGED <<dir, file, watched, events, mode, todo, stat, cache, call, group>>
      /\ ~Calling /\ ~Calling' /\ look[p].pc = "idle" /\ LookAt(p, p)
      /\ \A q \in Excluded(p) : look[q].pc = "idle"
  BY <1>0, CallsStay DEF FireTimer, Timed, starts, tree, records
<1>2. mode = "up" /\ scan.pc = "idle"
  <2>1. entry[p] = "armed" \/ stray[p] > 0
    BY DEF FireTimer
  <2> QED BY <1>0, <2>1 DEF SyncInv, RescanInv, Turns, TypeOK
<1>3. /\ \A k \in Looker \ {p} : look'[k] = look[k]
      /\ look'[p].path = p /\ look'[p].data = Absent
      /\ look'[p].pc \in {"read", "dispatch", "end"}
      /\ look'[p].pc = "read" <=> file[p] # Absent
      /\ look'[p].pc = "dispatch" <=>
             file[p] = Absent /\ (p = Top => ~dir) /\ (p \in Leaf => file[Top] = Absent)
  BY <1>0, <1>1, LookedAt, Paths
<1>4. \A q \in Path \ {p} : Noticed(q)' <=> Noticed(q)
  BY <1>0, <1>1 DEF FireTimer, Noticed, TypeOK
<1>5. look'[Scanner] = look[Scanner]
  BY <1>3, Paths
<1>6. NotEmpty' /\ ScanFinds' /\ OneTree' /\ \A h \in Caller : CallSync(h)'
  <2>1. NotEmpty'
    BY <1>0, <1>1, <1>3 DEF SyncFacts, NotEmpty
  <2>2. ScanFinds' /\ OneTree' /\ \A h \in Caller : CallSync(h)'
    BY <1>0, <1>1, <1>2, <1>5 DEF SyncFacts, ScanFinds, OneTree, CallSync, Calling
  <2> QED BY <2>1, <2>2
<1>7. ASSUME NEW g \in Looker PROVE LooksTell(g)'
  <2>1. CASE g = p
    <3>1. cache[p] = Empty => group[p] = Absent
      BY <1>0, <1>1 DEF SyncFacts, CacheTells, Calling
    <3> QED BY <1>1, <1>3, <2>1, <3>1 DEF LooksTell, DispatchHash, Bytes
  <2>2. CASE g # p
    BY <1>0, <1>1, <1>3, <2>2 DEF SyncFacts, LooksTell
  <2> QED BY <2>1, <2>2
<1>8. ASSUME NEW q \in Path PROVE TimerLooks(q)'
  <2>1. TimerLooks(q) /\ Excluded(q) \subseteq Path /\ q \notin Excluded(q)
    BY <1>0, Others DEF SyncFacts
  <2>2. CASE q = p
    <3>1. \A k \in Excluded(p) : look'[k].pc = "idle"
      BY <1>1, <1>3, <2>1, <2>2, Paths
    <3>2. look'[p].pc \in {"read", "dispatch"} => IF p = Top THEN ~dir ELSE file[Top] = Absent
      BY <1>0, <1>3, FilesApart, Paths
    <3>3. file[p] # Absent => \A k \in Excluded(p) : stat[k] = "none"
      BY <1>0, FilesApart, Others DEF OneTree
    <3> QED BY <1>1, <1>3, <2>2, <3>1, <3>2, <3>3 DEF TimerLooks
  <2>3. CASE q # p
    <3>1. p \in Excluded(q) => look[q].pc = "idle"
      BY <1>1, Others
    <3> QED BY <1>1, <1>3, <1>4, <2>1, <2>3, <3>1, Paths DEF TimerLooks
  <2> QED BY <2>2, <2>3
<1>9. \A q \in Path : CacheTells(q)'
  BY <1>0, <1>1 DEF SyncFacts, CacheTells
<1>10. ASSUME NEW q \in Path PROVE StatTells(q)'
  <2>1. look'[q].pc = look[q].pc \/ look[q].pc = "idle"
    BY <1>1, <1>3, Paths
  <2> QED BY <1>0, <1>1, <1>2, <1>5, <2>1 DEF SyncFacts, StatTells
<1>11. ASSUME NEW q \in Path PROVE Synced(q)'
  <2>1. file[q] # group[q] => TimerCover(q)
    BY <1>0, <1>1, <1>2 DEF SyncFacts, Synced, ScanCover
  <2>2. CASE q = p
    <3>1. file[p] = Absent /\ group[p] # Absent => look'[p].pc = "dispatch"
      BY <1>0, <1>1, <1>3, FoundMissing
    <3> QED BY <1>1, <1>2, <1>3, <2>2, <3>1 DEF Synced, TimerCover
  <2>3. CASE q # p
    <3>1. look'[q] = look[q]
      BY <1>3, <2>3, Paths
    <3> QED BY <1>1, <1>2, <1>4, <2>1, <2>3, <3>1 DEF Synced, TimerCover
  <2> QED BY <2>2, <2>3
<1> QED BY <1>6, <1>7, <1>8, <1>9, <1>10, <1>11 DEF SyncFacts

-----------------------------------------------------------------------------
(* Callbacks and scans. *)

LEMMA DispatchTells ==
    ASSUME TypeOK, OneTree, NEW g \in Looker, LooksTell(g), Dispatch(g)
    PROVE  LET p == look[g].path  f == look[g].data IN
           /\ p \in Path /\ group'[p] = f /\ cache'[p] = DispatchHash(f)
           /\ \A q \in Path \ {p} : cache'[q] = cache[q]
           /\ \A q \in Excluded(p) : group'[q] = IF f = Absent THEN group[q] ELSE Absent
           /\ \A q \in Path : q # p /\ q \notin Excluded(p) => group'[q] = group[q]
           /\ group[p] = f => group' = group
<1> DEFINE p == look[g].path
           f == look[g].data
<1>1. p \in Path
  BY DEF TypeOK, Looker, LookState
<1>2. CASE cache[p] = DispatchHash(f)
  <2>1. UNCHANGED <<cache, group>> /\ group[p] = f
    BY <1>2 DEF Dispatch, IsRepeating, LooksTell
  <2> QED BY <1>1, <1>2, <2>1 DEF OneTree
<1>3. CASE cache[p] # DispatchHash(f)
  <2>1. cache' = [cache EXCEPT ![p] = DispatchHash(f)] /\ Told(p, f)
    BY <1>3 DEF Dispatch, IsRepeating, MarkProcessed
  <2>2. cache'[p] = DispatchHash(f) /\ \A q \in Path \ {p} : cache'[q] = cache[q]
    BY <1>1, <2>1 DEF TypeOK
  <2> QED BY <1>1, <2>1, <2>2, ToldIs, ToldAgain
<1> QED BY <1>2, <1>3

(* Where a callback or a scan is, and what it has found. *)
LEMMA Looking ==
    ASSUME SyncInv, NEW g \in Looker, look[g].pc # "idle"
    PROVE  LET p == look[g].path  f == look[g].data IN
           /\ p \in Path /\ f \in File \ {Empty}
           /\ \/ g = p /\ mode = "up" /\ ~Calling /\ scan.pc = "idle"
              \/ /\ g = Scanner /\ mode \in {"changes", "deletions"}
                 /\ \A q \in Path : look[q].pc = "idle"
           /\ \A k \in Looker \ {g} : look[k].pc # "idle" => k \in Path /\ look[k].path = k /\ k # p
           /\ g = Scanner /\ look[g].pc # "read" /\ mode = "deletions" => f = Absent /\ file[p] = Absent
           /\ g = Scanner /\ mode = "changes" => file[p] # Absent
           /\ g = Scanner /\ look[g].pc \in {"dispatch", "stat"} => f = file[p]
           /\ g = Scanner /\ look[g].pc = "read" => mode = "changes"
<1>1. look[g].path \in Path /\ look[g].data \in File \ {Empty}
  BY DEF SyncInv, SyncFacts, NotEmpty, RescanInv, WatchInv, TypeOK, Looker, LookState
<1>2. CASE g = Scanner
  <2>1. mode \in {"changes", "deletions"} /\ \A q \in Path : look[q].pc = "idle"
    BY <1>2 DEF SyncInv, RescanInv, Turns
  <2>2. \A k \in Looker \ {g} : look[k].pc = "idle"
    BY <1>2, <2>1 DEF Looker
  <2>3. /\ mode = "deletions" => /\ look[g].data = Absent /\ file[look[g].path] = Absent
                                 /\ look[g].pc # "read"
        /\ mode = "changes" => /\ file[look[g].path] # Absent
                               /\ look[g].pc \in {"dispatch", "stat"} => look[g].data = file[look[g].path]
    BY <1>2, <2>1 DEF SyncInv, RescanInv, Looks
  <2> QED BY <1>1, <1>2, <2>1, <2>2, <2>3
<1>3. CASE g # Scanner
  <2>1. g \in Path /\ \A q \in Path : look[q].path = q
    BY <1>3 DEF SyncInv, RescanInv, Looks, Looker
  <2>2. mode = "up" /\ ~Calling /\ scan.pc = "idle"
    BY <2>1 DEF SyncInv, RescanInv, Turns
  <2> QED BY <1>1, <1>3, <2>1, <2>2 DEF Looker
<1> QED BY <1>2, <1>3

LEMMA SyncRead ==
    ASSUME SyncInv, NEW g \in Looker, ReadFile(g)
    PROVE  SyncFacts'
<1> DEFINE p == look[g].path
<1>0. TypeOK /\ SyncFacts
  BY DEF SyncInv, RescanInv, WatchInv
<1>1. /\ UNCHANGED <<dir, file, events, entry, stray, mode, todo, stat, cache, call, group>>
      /\ look[g].pc = "read" /\ (Calling' <=> Calling)
      /\ \A k \in Looker \ {g} : look'[k] = look[k]
      /\ look'[g].path = p /\ look'[g].data = file[p]
      /\ look'[g].pc = IF file[p] = Absent THEN "end" ELSE "dispatch"
  BY <1>0, LookMoves, CallsStay DEF LookStep, ReadFile, tree, timers, starts, records
<1>2. /\ p \in Path /\ (g = Scanner => mode = "changes")
      /\ \/ g = p /\ mode = "up" /\ ~Calling /\ scan.pc = "idle"
         \/ g = Scanner /\ \A q \in Path : look[q].pc = "idle"
      /\ g \in Path \/ g = Scanner
      /\ g = Scanner => file[p] # Absent
  BY <1>1, Looking DEF Looker
<1>3. NotEmpty' /\ OneTree' /\ \A h \in Caller : CallSync(h)'
  <2>1. NotEmpty'
    BY <1>0, <1>1, <1>2 DEF SyncFacts, NotEmpty
  <2> QED BY <1>0, <1>1, <2>1 DEF SyncFacts, OneTree, CallSync
<1>4. ScanFinds'
  BY <1>0, <1>1, <1>2, Paths DEF SyncFacts, ScanFinds
<1>5. ASSUME NEW q \in Path PROVE TimerLooks(q)'
  <2>1. TimerLooks(q) /\ Excluded(q) \subseteq Path /\ (Noticed(q)' <=> Noticed(q))
    BY <1>0, <1>1, Others DEF SyncFacts, Noticed
  <2>2. \A k \in Path : look[k].pc = "idle" => look'[k].pc = "idle"
    BY <1>1, Paths
  <2>3. CASE g = q
    BY <1>1, <1>2, <2>1, <2>2, <2>3, Paths DEF TimerLooks
  <2>4. CASE g # q
    BY <1>1, <2>1, <2>2, <2>4, Paths DEF TimerLooks
  <2> QED BY <2>3, <2>4
<1>6. ASSUME NEW k \in Looker PROVE LooksTell(k)'
  <2>1. CASE k = g
    <3>1. cache[p] = DispatchHash(file[p]) /\ file[p] # Absent => group[p] = file[p]
      <4>1. CASE Calling
        <5>1. stat[p] # "current"
          BY <1>0, <1>1, <1>2, <4>1 DEF SyncFacts, ScanFinds
        <5> QED BY <1>0, <1>2, <4>1, <5>1 DEF SyncFacts, Synced
      <4>2. CASE ~Calling
        BY <1>0, <1>2, <4>2 DEF SyncFacts, CacheTells
      <4> QED BY <4>1, <4>2
    <3> QED BY <1>1, <2>1, <3>1 DEF LooksTell
  <2>2. CASE k # g
    BY <1>0, <1>1, <2>2 DEF SyncFacts, LooksTell
  <2> QED BY <2>1, <2>2
<1>7. ASSUME NEW q \in Path PROVE CacheTells(q)' /\ StatTells(q)'
  <2>1. CacheTells(q) /\ StatTells(q)
    BY <1>0 DEF SyncFacts
  <2>2. look[q].pc = "stat" => look'[q].pc = "stat"
    BY <1>1, Paths
  <2>3. /\ Scanning(q, {"stat"}) => Scanning(q, {"stat"})'
        /\ Scanning(q, {"dispatch", "stat"}) => Scanning(q, {"dispatch", "stat"})'
    BY <1>1, <1>2, Paths
  <2> QED BY <1>1, <2>1, <2>2, <2>3 DEF CacheTells, StatTells
<1>8. ASSUME NEW q \in Path PROVE Synced(q)'
  <2>1. Synced(q)
    BY <1>0 DEF SyncFacts
  <2>2. ScanCover(q) => ScanCover(q)'
    BY <1>1, <1>2, Paths DEF ScanCover
  <2>3. TimerCover(q) => TimerCover(q)'
    BY <1>1, <1>2, Paths DEF TimerCover, Noticed
  <2> QED BY <1>1, <2>1, <2>2, <2>3 DEF Synced
<1> QED BY <1>3, <1>4, <1>5, <1>6, <1>7, <1>8 DEF SyncFacts

LEMMA SyncDispatch ==
    ASSUME SyncInv, NEW g \in Looker, Dispatch(g)
    PROVE  SyncFacts'
<1> DEFINE p == look[g].path
           f == look[g].data
<1>0. TypeOK /\ SyncFacts /\ OneTree /\ LooksTell(g)
  BY DEF SyncInv, RescanInv, WatchInv, SyncFacts
<1>1. /\ UNCHANGED <<dir, file, events, entry, stray, mode, todo, stat, call>>
      /\ look[g].pc = "dispatch" /\ (Calling' <=> Calling)
      /\ \A k \in Looker \ {g} : look'[k] = look[k]
      /\ look'[g].path = p /\ look'[g].data = f /\ look'[g].pc = "stat"
  BY <1>0, LookMoves, CallsStay DEF LookStep, Dispatch, tree, timers, starts
<1>2. /\ p \in Path /\ group'[p] = f /\ cache'[p] = DispatchHash(f)
      /\ \A q \in Path \ {p} : cache'[q] = cache[q]
      /\ \A q \in Excluded(p) : group'[q] = IF f = Absent THEN group[q] ELSE Absent
      /\ \A q \in Path : q # p /\ q \notin Excluded(p) => group'[q] = group[q]
      /\ group[p] = f => group' = group
  BY <1>0, DispatchTells
<1>3. /\ f \in File \ {Empty}
      /\ \/ g = p /\ mode = "up" /\ ~Calling /\ scan.pc = "idle"
         \/ g = Scanner /\ mode \in {"changes", "deletions"} /\ \A q \in Path : look[q].pc = "idle"
      /\ \A k \in Looker \ {g} : look[k].pc # "idle" => k \in Path /\ look[k].path = k /\ k # p
      /\ g = Scanner => f = file[p] /\ (mode = "deletions" => f = Absent) /\ (mode = "changes" => f # Absent)
  BY <1>1, Looking
<1>4. /\ Excluded(p) \subseteq Path /\ p \notin Excluded(p)
      /\ p = Top => Excluded(p) = Leaf
      /\ p # Top => Excluded(p) = {Top} /\ p \in Leaf
      /\ \A q \in Path : p \in Excluded(q) <=> q \in Excluded(p)
  BY <1>2, Others
<1>5. ASSUME f # Absent
      PROVE  /\ IF p = Top THEN ~dir ELSE file[Top] = Absent
             /\ \A q \in Excluded(p) : stat[q] = "none" /\ file[q] = Absent
  <2>1. CASE g = Scanner
    BY <1>0, <1>2, <1>3, <1>4, <1>5, <2>1, FilesApart DEF OneTree
  <2>2. CASE g = p
    <3>1. /\ IF p = Top THEN ~dir ELSE file[Top] = Absent
          /\ \A q \in Excluded(p) : stat[q] = "none"
      BY <1>0, <1>1, <1>2, <1>5, <2>2 DEF SyncFacts, TimerLooks
    <3>2. ~dir => \A q \in Leaf : file[q] = Absent
      BY <1>0, Paths DEF TypeOK
    <3> QED BY <1>4, <3>1, <3>2
  <2> QED BY <1>3, <2>1, <2>2
<1>6. Calling => group' = group
  <2>1. SUFFICES ASSUME Calling PROVE group[p] = f
    BY <1>2
  <2>2. g = Scanner /\ f = file[p]
    BY <1>3, <2>1
  <2>3. IF mode = "changes" THEN stat[p] # "current" ELSE stat[p] # "none"
    BY <1>0, <1>1, <2>2 DEF SyncFacts, ScanFinds
  <2> QED BY <1>0, <1>2, <1>3, <2>1, <2>2, <2>3 DEF SyncFacts, Synced
<1>7. \A q \in Path : group'[q] = f \/ group'[q] = Absent \/ group'[q] = group[q]
  BY <1>2
<1>8. NotEmpty'
  <2>1. \A q \in Path : group'[q] # Empty
    BY <1>0, <1>3, <1>7 DEF SyncFacts, NotEmpty
  <2> QED BY <1>0, <1>1, <1>3, <2>1 DEF SyncFacts, NotEmpty
<1>9. OneTree'
  <2>1. \A a \in Path : \A b \in Excluded(a) : group'[a] # Absent => group'[b] = Absent
    BY <1>0, <1>2, StillOneTree
  <2>2. ~Calling /\ dir => group'[Top] = Absent
    <3>1. Top = p \/ group'[Top] = Absent \/ group'[Top] = group[Top]
      BY <1>2, <1>7, Paths
    <3> QED BY <1>0, <1>2, <1>5, <3>1 DEF OneTree
  <2>3. ~Calling /\ file[Top] # Absent => \A q \in Leaf : group'[q] = Absent
    <3>1. \A q \in Leaf : q = p \/ group'[q] = Absent \/ group'[q] = group[q]
      BY <1>2, <1>7, Paths
    <3> QED BY <1>0, <1>2, <1>5, <3>1, Paths DEF OneTree
  <2> QED BY <1>0, <1>1, <2>1, <2>2, <2>3 DEF OneTree
<1>10. ScanFinds'
  <2>1. scan'.pc \in {"idle", "stat"}
    BY <1>1, <1>2, <1>3, Paths
  <2> QED BY <2>1 DEF ScanFinds
<1>11. ASSUME NEW q \in Path PROVE TimerLooks(q)'
  <2>1. TimerLooks(q) /\ Excluded(q) \subseteq Path /\ (Noticed(q)' <=> Noticed(q))
    BY <1>0, <1>1, Others DEF SyncFacts, Noticed
  <2>2. \A k \in Path : look[k].pc = "idle" => look'[k].pc = "idle"
    BY <1>1, Paths
  <2>3. CASE g = q
    BY <1>1, <2>1, <2>2, <2>3, Paths DEF TimerLooks
  <2>4. CASE g # q
    BY <1>1, <2>1, <2>2, <2>4, Paths DEF TimerLooks
  <2> QED BY <2>3, <2>4
<1>12. ASSUME NEW k \in Looker PROVE LooksTell(k)'
  <2>1. CASE k = g
    BY <1>1, <1>2, <2>1 DEF LooksTell
  <2>2. CASE k # g /\ look[k].pc = "idle"
    BY <1>1, <2>2 DEF LooksTell
  <2>3. CASE k # g /\ look[k].pc # "idle"
    <3>1. k \in Path /\ look[k].path = k /\ k # p
      BY <1>3, <2>3
    <3>2. k \notin Excluded(p)
      <4>1. g = p
        BY <1>3, <2>3, <3>1
      <4> QED BY <1>0, <1>1, <1>2, <2>3, <4>1 DEF SyncFacts, TimerLooks
    <3> QED BY <1>0, <1>1, <1>2, <2>3, <3>1, <3>2 DEF SyncFacts, LooksTell
  <2> QED BY <2>1, <2>2, <2>3
<1>13. ASSUME NEW q \in Path PROVE CacheTells(q)'
  <2>1. CacheTells(q)
    BY <1>0 DEF SyncFacts
  <2>2. CASE q = p
    <3>1. file[p] \in File \ {Empty}
      BY <1>0, <1>2 DEF SyncFacts, NotEmpty, TypeOK
    <3> QED BY <1>1, <1>2, <1>3, <2>2, <3>1, HashesTell DEF CacheTells
  <2>3. CASE q \in Excluded(p) /\ f # Absent
    BY <1>1, <1>2, <1>5, <2>3 DEF CacheTells
  <2>4. CASE q # p /\ ~(q \in Excluded(p) /\ f # Absent)
    <3>1. group'[q] = group[q] /\ cache'[q] = cache[q]
      BY <1>2, <2>4
    <3> QED BY <1>1, <2>1, <3>1 DEF CacheTells
  <2> QED BY <2>2, <2>3, <2>4
<1>14. ASSUME NEW q \in Path PROVE StatTells(q)'
  <2>1. StatTells(q)
    BY <1>0 DEF SyncFacts
  <2>2. CASE q = p
    <3>1. look'[p].pc = "stat" \/ Scanning(p, {"stat"})'
      BY <1>1, <1>3
    <3>2. mode # "up" => Scanning(p, {"stat"})'
      BY <1>1, <1>3
    <3> QED BY <1>1, <2>1, <2>2, <3>1, <3>2 DEF StatTells
  <2>3. CASE q # p
    <3>1. /\ look'[q] = look[q] \/ look'[q].pc = "stat"
          /\ Scanning(q, {"stat"}) => Scanning(q, {"stat"})'
          /\ Scanning(q, {"dispatch", "stat"}) => Scanning(q, {"dispatch", "stat"})'
      BY <1>1, <1>3, <2>3, Paths
    <3>2. group'[q] = group[q] \/ (group'[q] = Absent /\ stat[q] = "none")
      BY <1>2, <1>5, <2>3
    <3> QED BY <1>1, <2>1, <3>1, <3>2 DEF StatTells
  <2> QED BY <2>2, <2>3
<1>15. ASSUME NEW q \in Path PROVE Synced(q)'
  <2>1. Synced(q) /\ (Noticed(q)' <=> Noticed(q))
    BY <1>0, <1>1 DEF SyncFacts, Noticed
  <2>2. CASE Calling
    BY <1>1, <1>6, <2>1, <2>2 DEF Synced
  <2>3. CASE ~Calling /\ q = p
    <3>1. g = Scanner => file[p] = f
      BY <1>3
    <3>2. g = p /\ file[p] # f => Noticed(p)
      BY <1>0, <1>1, <1>2 DEF SyncFacts, TimerLooks
    <3> QED BY <1>1, <1>2, <1>3, <2>1, <2>3, <3>1, <3>2 DEF Synced, TimerCover
  <2>4. CASE ~Calling /\ q \in Excluded(p) /\ f # Absent
    BY <1>1, <1>2, <1>5, <2>4 DEF Synced
  <2>5. CASE ~Calling /\ q # p /\ ~(q \in Excluded(p) /\ f # Absent)
    <3>1. group'[q] = group[q]
      BY <1>2, <2>5
    <3>2. ScanCover(q) => ScanCover(q)'
      BY <1>1, <1>3, <2>5, Paths DEF ScanCover
    <3>3. mode = "up" /\ TimerCover(q) => TimerCover(q)'
      BY <1>1, <1>3, <2>1, <2>5, Paths DEF TimerCover
    <3> QED BY <1>1, <2>1, <2>5, <3>1, <3>2, <3>3 DEF Synced
  <2> QED BY <2>2, <2>3, <2>4, <2>5
<1>16. \A h \in Caller : CallSync(h)'
  <2>1. CASE Calling
    BY <1>0, <1>1, <1>6, <2>1 DEF SyncFacts, CallSync
  <2>2. CASE ~Calling
    BY <1>1, <2>2 DEF CallSync, Calling
  <2> QED BY <2>1, <2>2
<1> QED BY <1>8, <1>9, <1>10, <1>11, <1>12, <1>13, <1>14, <1>15, <1>16 DEF SyncFacts

LEMMA SyncRecord ==
    ASSUME SyncInv, NEW g \in Looker, RecordStat(g)
    PROVE  SyncFacts'
<1> DEFINE p == look[g].path
           f == look[g].data
<1>0. TypeOK /\ SyncFacts /\ OneTree
  BY DEF SyncInv, RescanInv, WatchInv, SyncFacts
<1>1. /\ UNCHANGED <<dir, file, events, entry, stray, mode, todo, cache, call, group>>
      /\ look[g].pc = "stat" /\ (Calling' <=> Calling)
      /\ \A k \in Looker \ {g} : look'[k] = look[k]
      /\ look'[g].path = p /\ look'[g].data = f /\ look'[g].pc = "end"
  BY <1>0, LookMoves, CallsStay DEF LookStep, RecordStat, tree, timers, starts
<1>2. /\ \A q \in Path \ {p} : stat'[q] = stat[q]
      /\ f = Absent => stat'[p] = "none"
      /\ f # Absent => UpdateStat(p)
  BY <1>0, <1>1, LookMoves DEF LookStep
<1>3. /\ p \in Path
      /\ \/ g = p /\ mode = "up" /\ ~Calling /\ scan.pc = "idle"
         \/ g = Scanner /\ mode \in {"changes", "deletions"} /\ \A q \in Path : look[q].pc = "idle"
      /\ g = Scanner => f = file[p] /\ (mode = "deletions" => f = Absent) /\ (mode = "changes" => f # Absent)
  BY <1>1, Looking
<1>4. group[p] = f
  BY <1>0, <1>1 DEF SyncFacts, LooksTell
<1>5. f # Absent => IF p = Top THEN ~dir ELSE file[Top] = Absent
  <2>1. CASE g = Scanner
    BY <1>0, <1>3, <2>1, FilesApart
  <2>2. CASE g = p
    BY <1>0, <1>1, <1>3, <2>2 DEF SyncFacts, TimerLooks
  <2> QED BY <1>3, <2>1, <2>2
<1>6. NotEmpty' /\ (\A h \in Caller : CallSync(h)') /\ (\A q \in Path : CacheTells(q)')
  <2>1. NotEmpty'
    BY <1>0, <1>1 DEF SyncFacts, NotEmpty
  <2> QED BY <1>0, <1>1, <2>1 DEF SyncFacts, CallSync, CacheTells
<1>7. OneTree'
  <2>1. dir => stat'[Top] = "none"
    BY <1>0, <1>2, <1>5, Paths DEF OneTree
  <2>2. file[Top] # Absent => \A q \in Leaf : stat'[q] = "none"
    BY <1>0, <1>2, <1>5, Paths DEF OneTree
  <2> QED BY <1>0, <1>1, <2>1, <2>2 DEF OneTree
<1>8. ScanFinds'
  <2>1. scan'.pc \in {"idle", "end"}
    BY <1>1, <1>3, Paths
  <2> QED BY <2>1 DEF ScanFinds
<1>9. ASSUME NEW q \in Path PROVE TimerLooks(q)'
  <2>1. TimerLooks(q) /\ Excluded(q) \subseteq Path /\ (Noticed(q)' <=> Noticed(q))
    BY <1>0, <1>1, Others DEF SyncFacts, Noticed
  <2>2. \A k \in Path : look[k].pc = "idle" => look'[k].pc = "idle"
    BY <1>1, Paths
  <2>3. CASE g = q
    BY <1>1, <2>1, <2>2, <2>3, Paths DEF TimerLooks
  <2>4. CASE g # q
    <3>1. look[q].pc # "idle" => p \notin Excluded(q)
      BY <1>1, <1>3, <2>1 DEF TimerLooks
    <3>2. look[q].pc # "idle" => \A k \in Excluded(q) : stat'[k] = stat[k]
      BY <1>2, <2>1, <3>1
    <3> QED BY <1>1, <2>1, <2>2, <2>4, <3>2, Paths DEF TimerLooks
  <2> QED BY <2>3, <2>4
<1>10. \A k \in Looker : LooksTell(k)'
  BY <1>0, <1>1 DEF SyncFacts, LooksTell
<1>11. ASSUME NEW q \in Path PROVE StatTells(q)'
  <2>1. StatTells(q)
    BY <1>0 DEF SyncFacts
  <2>2. CASE q = p
    <3>1. mode # "up" /\ group[p] # Absent => stat'[p] # "none"
      BY <1>0, <1>2, <1>3, <1>4, StatUpdated
    <3>2. mode # "up" /\ file[p] = Absent => stat'[p] = "none"
      BY <1>2, <1>3
    <3>3. stat'[p] # "none" => group[p] # Absent
      BY <1>2, <1>4
    <3>4. ~(mode = "up" /\ Calling)
      BY <1>3
    <3> QED BY <1>1, <2>2, <3>1, <3>2, <3>3, <3>4 DEF StatTells
  <2>3. CASE q # p
    <3>1. /\ look[q].pc = "stat" => look'[q].pc = "stat"
          /\ Scanning(q, {"stat"}) => Scanning(q, {"stat"})'
          /\ Scanning(q, {"dispatch", "stat"}) => Scanning(q, {"dispatch", "stat"})'
      BY <1>1, <1>3, <2>3, Paths
    <3> QED BY <1>1, <1>2, <2>1, <2>3, <3>1 DEF StatTells
  <2> QED BY <2>2, <2>3
<1>12. ASSUME NEW q \in Path PROVE Synced(q)'
  <2>1. Synced(q) /\ (Noticed(q)' <=> Noticed(q))
    BY <1>0, <1>1 DEF SyncFacts, Noticed
  <2>2. CASE q = p
    <3>1. g = Scanner => file[p] = group[p]
      BY <1>3, <1>4
    <3>2. g = p => ~ScanCover(p) /\ (TimerCover(p) => Noticed(p))
      BY <1>1, <1>3 DEF ScanCover, TimerCover
    <3> QED BY <1>1, <1>3, <2>1, <2>2, <3>1, <3>2 DEF Synced, TimerCover
  <2>3. CASE q # p
    <3>1. ScanCover(q) => ScanCover(q)'
      BY <1>1, <1>2, <1>3, <2>3, Paths DEF ScanCover
    <3>2. mode = "up" /\ TimerCover(q) => TimerCover(q)'
      BY <1>1, <1>3, <2>1, <2>3, Paths DEF TimerCover
    <3> QED BY <1>1, <1>2, <2>1, <2>3, <3>1, <3>2 DEF Synced
  <2> QED BY <2>2, <2>3
<1> QED BY <1>6, <1>7, <1>8, <1>9, <1>10, <1>11, <1>12 DEF SyncFacts

LEMMA SyncEnd ==
    ASSUME SyncInv, NEW g \in Looker, EndLook(g)
    PROVE  SyncFacts'
<1>0. TypeOK /\ SyncFacts
  BY DEF SyncInv, RescanInv, WatchInv
<1>1. /\ UNCHANGED <<dir, file, events, mode, todo, stat, cache, call, group>>
      /\ look[g].pc = "end" /\ (Calling' <=> Calling)
      /\ \A k \in Looker \ {g} : look'[k] = look[k]
      /\ look'[g].path = look[g].path /\ look'[g].data = look[g].data /\ look'[g].pc = "idle"
  BY <1>0, LookMoves, CallsStay DEF LookStep, EndLook, tree, starts, records
<1>2. \A q \in Path : Noticed(q) => Noticed(q)'
  <2>1. CASE g = Scanner
    BY <1>1, <2>1 DEF EndLook, Noticed, timers
  <2>2. CASE g # Scanner
    BY <1>0, <2>2, TimerEnds DEF LookStep, Looker
  <2> QED BY <2>1, <2>2
<1>3. NotEmpty' /\ OneTree' /\ ScanFinds' /\ \A h \in Caller : CallSync(h)'
  <2>1. NotEmpty'
    BY <1>0, <1>1 DEF SyncFacts, NotEmpty
  <2>2. ScanFinds'
    BY <1>0, <1>1, Paths DEF SyncFacts, ScanFinds
  <2> QED BY <1>0, <1>1, <2>1, <2>2 DEF SyncFacts, OneTree, CallSync
<1>4. (\A k \in Looker : LooksTell(k)') /\ \A q \in Path : CacheTells(q)'
  BY <1>0, <1>1 DEF SyncFacts, LooksTell, CacheTells
<1>5. ASSUME NEW q \in Path PROVE TimerLooks(q)' /\ StatTells(q)' /\ Synced(q)'
  <2>1. TimerLooks(q) /\ StatTells(q) /\ Synced(q) /\ Excluded(q) \subseteq Path
    BY <1>0, Others DEF SyncFacts
  <2>2. /\ \A k \in Path : look'[k] = look[k] \/ (look[k].pc = "end" /\ look'[k].pc = "idle")
        /\ scan' = scan \/ (scan.pc = "end" /\ scan'.pc = "idle")
    BY <1>1, Paths
  <2>3. TimerLooks(q)'
    BY <1>1, <1>2, <2>1, <2>2 DEF TimerLooks
  <2>4. StatTells(q)'
    BY <1>1, <2>1, <2>2 DEF StatTells
  <2>5. Synced(q)'
    BY <1>1, <1>2, <2>1, <2>2 DEF Synced, ScanCover, TimerCover
  <2> QED BY <2>3, <2>4, <2>5
<1> QED BY <1>3, <1>4, <1>5 DEF SyncFacts

-----------------------------------------------------------------------------
(* Start and the end of the process. *)

LEMMA SyncBoot ==
    ASSUME SyncInv, RescanInv', Boot
    PROVE  SyncFacts'
<1>0. SyncFacts /\ OneTree
  BY DEF SyncInv, SyncFacts
<1>1. /\ mode = "down" /\ mode' = "changes" /\ todo' = Path
      /\ UNCHANGED <<dir, file, look, stat, cache, call, group>>
      /\ (Calling' <=> Calling)
      /\ scan.pc = "idle" /\ \A p \in Path : look[p].pc = "idle"
  BY CallsStay DEF Boot, tree, records, SyncInv, RescanInv, Turns
<1>2. NotEmpty' /\ OneTree' /\ ScanFinds' /\ \A h \in Caller : CallSync(h)'
  BY <1>0, <1>1 DEF SyncFacts, NotEmpty, OneTree, ScanFinds, CallSync
<1>3. (\A g \in Looker : LooksTell(g)') /\ \A p \in Path : TimerLooks(p)'
  BY <1>0, <1>1 DEF SyncFacts, LooksTell, TimerLooks
<1>4. \A p \in Path : CacheTells(p)' /\ StatTells(p)'
  BY <1>0, <1>1 DEF SyncFacts, CacheTells, StatTells
<1>5. ASSUME NEW p \in Path PROVE Synced(p)'
  <2>1. Synced(p)
    BY <1>0 DEF SyncFacts
  <2>2. ScanCover(p) => ScanCover(p)'
    BY <1>1 DEF ScanCover
  <2> QED BY <1>1, <2>1, <2>2 DEF Synced
<1> QED BY <1>2, <1>3, <1>4, <1>5 DEF SyncFacts

LEMMA SyncScan ==
    ASSUME SyncInv, RescanInv', NEW p \in Path, Scan(p)
    PROVE  SyncFacts'
<1>0. TypeOK /\ SyncFacts /\ OneTree /\ Scanner \in Looker
  BY Paths DEF SyncInv, RescanInv, WatchInv, SyncFacts
<1>1. /\ UNCHANGED <<dir, file, events, entry, stray, mode, stat, cache, call, group>>
      /\ (Calling' <=> Calling) /\ scan.pc = "idle" /\ todo' = todo \ {p}
      /\ ToDispatch(p) => LookAt(Scanner, p)
      /\ ~ToDispatch(p) => look' = look
  BY CallsStay DEF Scan, tree, timers, records
<1>2. \A q \in Path : look'[q] = look[q]
  BY <1>0, <1>1, LookedAt, Paths
<1>3. ToDispatch(p) =>
          \/ /\ mode = "changes" /\ file[p] # Absent /\ stat[p] # "current"
             /\ scan'.path = p /\ scan'.data = Absent /\ scan'.pc = "read"
          \/ /\ mode = "deletions" /\ file[p] = Absent /\ stat[p] # "none"
             /\ scan'.path = p /\ scan'.data = Absent /\ scan'.pc = "dispatch"
  BY <1>0, <1>1, LookedAt, FoundIs DEF ToDispatch
<1>4. ~ToDispatch(p) => scan'.pc = "idle" /\ look' = look
  BY <1>1
<1>5. ToDispatch(p) => mode # "up" /\ \A q \in Path : look[q].pc = "idle"
  BY <1>3 DEF SyncInv, RescanInv, Turns
<1>6. ~ToDispatch(p) =>
          /\ mode = "changes" /\ file[p] # Absent => stat[p] = "current"
          /\ mode = "deletions" /\ file[p] = Absent => stat[p] = "none"
  <2>1. file[p] # Absent => Found(p) = "file"
    BY <1>0, FoundIs
  <2>2. file[p] = Absent /\ stat[p] # "none" => Found(p) = "missing"
    <3>1. file[p] = Absent /\ stat[p] # "none" =>
              (p = Top => ~dir) /\ (p \in Leaf => file[Top] = Absent)
      BY <1>0 DEF OneTree
    <3> QED BY <1>0, <3>1, FoundIs
  <2> QED BY <2>1, <2>2 DEF ToDispatch
<1>7. NotEmpty' /\ OneTree' /\ (\A h \in Caller : CallSync(h)') /\ \A q \in Path : CacheTells(q)'
  <2>1. \A g \in Looker : look'[g].data # Empty
    <3>1. scan'.data # Empty
      BY <1>0, <1>1, <1>3 DEF SyncFacts, NotEmpty
    <3> QED BY <1>0, <1>2, <3>1 DEF SyncFacts, NotEmpty, Looker
  <2>2. NotEmpty'
    BY <1>0, <1>1, <2>1 DEF SyncFacts, NotEmpty
  <2> QED BY <1>0, <1>1, <2>2 DEF SyncFacts, OneTree, CallSync, CacheTells
<1>8. ScanFinds' /\ \A q \in Path : TimerLooks(q)'
  <2>1. ScanFinds'
    BY <1>1, <1>3, <1>4 DEF ScanFinds
  <2>2. ASSUME NEW q \in Path PROVE TimerLooks(q)'
    <3>1. TimerLooks(q) /\ Excluded(q) \subseteq Path /\ (Noticed(q)' <=> Noticed(q))
      BY <1>0, <1>1, Others DEF SyncFacts, Noticed
    <3> QED BY <1>1, <1>2, <3>1 DEF TimerLooks
  <2> QED BY <2>1, <2>2
<1>9. ASSUME NEW g \in Looker PROVE LooksTell(g)'
  <2>1. CASE g = Scanner /\ ToDispatch(p)
    <3>1. mode # "up" /\ cache[p] = Empty => group[p] = Absent
      BY <1>0 DEF SyncInv, RescanInv, Turns, SyncFacts, CacheTells
    <3> QED BY <1>1, <1>3, <1>5, <2>1, <3>1 DEF LooksTell, DispatchHash, Bytes
  <2>2. CASE ~(g = Scanner /\ ToDispatch(p))
    <3>1. look'[g] = look[g]
      BY <1>1, <1>2, <2>2 DEF Looker
    <3> QED BY <1>0, <1>1, <3>1 DEF SyncFacts, LooksTell
  <2> QED BY <2>1, <2>2
<1>10. ASSUME NEW q \in Path PROVE StatTells(q)'
  <2>1. StatTells(q)
    BY <1>0 DEF SyncFacts
  <2>2. mode = "deletions" /\ stat[q] # "none" /\ file[q] = Absent =>
            q \in todo' \/ Scanning(q, {"dispatch", "stat"})'
    BY <1>1, <1>3, <1>6, <2>1 DEF StatTells
  <2> QED BY <1>1, <1>2, <2>1, <2>2 DEF StatTells
<1>11. ASSUME NEW q \in Path PROVE Synced(q)'
  <2>1. Synced(q) /\ (Noticed(q)' <=> Noticed(q))
    BY <1>0, <1>1 DEF SyncFacts, Noticed
  <2>2. ScanCover(q) => ScanCover(q)'
    <3>1. CASE q # p
      BY <1>1, <3>1 DEF ScanCover
    <3>2. CASE q = p /\ ToDispatch(p)
      BY <1>1, <1>3, <3>2 DEF ScanCover
    <3>3. CASE q = p /\ ~ToDispatch(p)
      BY <1>1, <1>4, <1>6, <3>3 DEF ScanCover
    <3> QED BY <3>1, <3>2, <3>3
  <2>3. TimerCover(q) => TimerCover(q)'
    BY <1>1, <1>2, <2>1 DEF TimerCover
  <2> QED BY <1>1, <2>1, <2>2, <2>3 DEF Synced
<1> QED BY <1>7, <1>8, <1>9, <1>10, <1>11 DEF SyncFacts

LEMMA SyncNextPhase ==
    ASSUME SyncInv, RescanInv', NextPhase
    PROVE  SyncFacts'
<1>0. SyncFacts /\ OneTree
  BY DEF SyncInv, SyncFacts
<1>1. /\ UNCHANGED <<dir, file, look, stat, cache, call, group>>
      /\ (Calling' <=> Calling) /\ scan.pc = "idle" /\ todo = {}
      /\ \A p \in Path : look[p].pc = "idle"
      /\ \/ mode = "changes" /\ mode' = "deletions" /\ todo' = Path
         \/ mode = "deletions" /\ mode' = "watch"
         \/ mode = "watch" /\ mode' = "up"
  BY CallsStay DEF NextPhase, records, SyncInv, RescanInv, Turns
<1>2. NotEmpty' /\ OneTree' /\ ScanFinds' /\ \A h \in Caller : CallSync(h)'
  BY <1>0, <1>1 DEF SyncFacts, NotEmpty, OneTree, ScanFinds, CallSync
<1>3. (\A g \in Looker : LooksTell(g)') /\ \A p \in Path : TimerLooks(p)'
  BY <1>0, <1>1 DEF SyncFacts, LooksTell, TimerLooks
<1>4. \A p \in Path : CacheTells(p)' /\ StatTells(p)'
  BY <1>0, <1>1 DEF SyncFacts, CacheTells, StatTells
<1>5. ASSUME NEW p \in Path PROVE Synced(p)'
  <2>1. Synced(p)
    BY <1>0 DEF SyncFacts
  <2>2. ScanCover(p) => ScanCover(p)'
    BY <1>1 DEF ScanCover
  <2> QED BY <1>1, <2>1, <2>2 DEF Synced
<1> QED BY <1>2, <1>3, <1>4, <1>5 DEF SyncFacts

LEMMA SyncCrash ==
    ASSUME SyncInv, RescanInv', Settled, Crash
    PROVE  SyncFacts'
<1>0. TypeOK /\ SyncFacts /\ OneTree
  BY DEF SyncInv, RescanInv, WatchInv, SyncFacts
<1>1. /\ mode' = "down" /\ UNCHANGED <<dir, file, stat, group>> /\ (Calling' <=> Calling)
      /\ \A p \in Path : cache'[p] = NoHash
      /\ \A g \in Looker : look'[g].pc = "idle" /\ look'[g].data = look[g].data
      /\ \A h \in Caller :
            IF call[h].pc = "idle" THEN call'[h].pc = "idle" /\ call'[h] = NoCall
            ELSE /\ call'[h].pc = "redo" /\ call'[h].path = call[h].path
                 /\ call'[h].data = call[h].data
  BY <1>0, Crashed
<1>2. scan'.pc = "idle" /\ \A p \in Path : look'[p].pc = "idle"
  BY <1>1, Paths
<1>3. ~Calling /\ mode = "up" => AtRest
  BY DEF Crash, Settled, AtRest
<1>4. mode # "up" \/ Calling => scan.pc # "stat"
  BY DEF Crash, Settled
<1>5. NotEmpty' /\ OneTree' /\ ScanFinds' /\ \A h \in Caller : CallSync(h)'
  <2>1. NotEmpty'
    BY <1>0, <1>1 DEF SyncFacts, NotEmpty, NoCall
  <2>2. \A h \in Caller : CallSync(h)'
    BY <1>0, <1>1 DEF SyncFacts, CallSync, Touched
  <2> QED BY <1>0, <1>1, <1>2, <2>1, <2>2 DEF OneTree, ScanFinds
<1>6. (\A g \in Looker : LooksTell(g)') /\ \A p \in Path : TimerLooks(p)'
  BY <1>1, <1>2 DEF LooksTell, TimerLooks
<1>7. ASSUME NEW p \in Path PROVE CacheTells(p)'
  <2>1. file[p] \in File \ {Empty}
    BY <1>0 DEF SyncFacts, NotEmpty, TypeOK
  <2> QED BY <1>1, <2>1, HashesTell DEF CacheTells
<1>8. ASSUME NEW p \in Path PROVE StatTells(p)' /\ Synced(p)'
  <2>1. CASE ~Calling /\ mode = "up"
    <3>1. file[p] = group[p] /\ stat[p] = IF file[p] = Absent THEN "none" ELSE "current"
      BY <1>3, <2>1, Resting
    <3> QED BY <1>1, <2>1, <3>1 DEF StatTells, Synced
  <2>2. CASE Calling
    BY <1>0, <1>1, <2>2 DEF SyncFacts, StatTells, Synced
  <2>3. CASE ~Calling /\ mode # "up"
    <3>1. look[p].pc = "idle" /\ scan.pc # "stat"
      BY <1>4, <2>3 DEF SyncInv, RescanInv, Turns
    <3>2. StatTells(p)'
      BY <1>0, <1>1, <2>3, <3>1 DEF SyncFacts, StatTells
    <3>3. ScanCover(p) => ScanCover(p)'
      BY <1>0, <1>1 DEF SyncFacts, ScanCover, ScanFinds
    <3> QED BY <1>0, <1>1, <2>3, <3>2, <3>3 DEF SyncFacts, Synced
  <2> QED BY <2>1, <2>2, <2>3
<1> QED BY <1>5, <1>6, <1>7, <1>8 DEF SyncFacts

-----------------------------------------------------------------------------
(* Put and Delete. *)

LEMMA SyncBegin ==
    ASSUME SyncInv, RescanInv', Settled, NEW h \in Caller, NEW p \in Path,
           NEW f \in Content \cup {Absent}, Begin(h, p, f)
    PROVE  SyncFacts'
<1>0. TypeOK /\ SyncFacts /\ OneTree /\ f \in File \ {Empty} /\ Timed
  BY DEF SyncInv, RescanInv, WatchInv, SyncFacts, File, Settled
<1>1. /\ AtRest /\ UNCHANGED <<dir, file, events, entry, stray, look, mode, todo, stat, cache>>
      /\ Told(p, f) /\ (cache[p] = DeliverHash(f) => group[p] = f)
      /\ \A k \in Caller : call[k].pc = "idle"
      /\ \A k \in Caller \ {h} : call'[k] = call[k]
  BY <1>0, Began DEF tree, timers, starts, records, Fresh, Settled
<1>2. \/ call'[h].pc = "idle" /\ cache[p] = DeliverHash(f)
      \/ call'[h].pc = First(p, f) /\ call'[h].path = p /\ call'[h].data = f
  BY <1>0, Began
<1>3. /\ \A q \in Path : /\ file[q] = group[q]
                         /\ stat[q] = IF file[q] = Absent THEN "none" ELSE "current"
                         /\ look[q].pc = "idle"
      /\ mode = "up" /\ ~Calling /\ scan.pc = "idle"
  BY <1>1, Resting
<1>4. /\ group'[p] = f
      /\ \A q \in Excluded(p) : group'[q] = IF f = Absent THEN group[q] ELSE Absent
      /\ \A q \in Path : q # p /\ q \notin Excluded(p) => group'[q] = group[q]
      /\ group[p] = f => group' = group
  BY <1>0, <1>1, ToldIs, ToldAgain
<1>5. call'[h].data # Empty
  <2>1. call'[h] = NoCall \/ call'[h].data = f
    BY <1>0 DEF Begin, TypeOK
  <2> QED BY <1>0, <2>1 DEF NoCall
<1>6. NotEmpty'
  <2>1. \A q \in Path : group'[q] = f \/ group'[q] = Absent \/ group'[q] = group[q]
    BY <1>4
  <2> QED BY <1>0, <1>1, <1>5, <2>1 DEF SyncFacts, NotEmpty
<1>7. ScanFinds' /\ (\A g \in Looker : LooksTell(g)') /\ \A q \in Path : TimerLooks(q)'
  <2>1. \A g \in Looker : look'[g].pc = "idle"
    BY <1>1, <1>3 DEF Looker
  <2> QED BY <2>1, Paths DEF ScanFinds, LooksTell, TimerLooks
<1>8. CASE call'[h].pc = "idle"
  <2>1. group' = group
    <3>1. CASE cache[p] = DeliverHash(f)
      BY <1>1, <1>4, <3>1
    <3>2. CASE call'[h].pc = First(p, f)
      BY <1>0, <1>3, <1>4, <1>8, <3>2, FirstIs
    <3> QED BY <1>2, <3>1, <3>2
  <2>2. ~Calling'
    BY <1>1, <1>8 DEF Calling
  <2>3. OneTree' /\ \A k \in Caller : CallSync(k)'
    BY <1>0, <1>1, <1>3, <1>8, <2>1, <2>2 DEF OneTree, CallSync
  <2>4. ASSUME NEW q \in Path PROVE CacheTells(q)' /\ StatTells(q)' /\ Synced(q)'
    <3>1. CacheTells(q) /\ StatTells(q)
      BY <1>0 DEF SyncFacts
    <3> QED BY <1>1, <1>3, <2>1, <2>2, <3>1 DEF CacheTells, StatTells, Synced
  <2> QED BY <1>6, <1>7, <2>3, <2>4 DEF SyncFacts
<1>9. CASE call'[h].pc # "idle"
  <2>1. call'[h].pc \in {"parent", "remove"} /\ call'[h].path = p /\ call'[h].data = f /\ Calling'
    BY <1>0, <1>2, <1>9, FirstIs DEF Calling
  <2>2. OneTree'
    <3>1. \A a \in Path : \A b \in Excluded(a) : group'[a] # Absent => group'[b] = Absent
      BY <1>0, <1>4, StillOneTree
    <3> QED BY <1>0, <1>1, <2>1, <3>1 DEF OneTree
  <2>3. ASSUME NEW q \in Path PROVE CacheTells(q)' /\ StatTells(q)' /\ Synced(q)'
    <3>1. CacheTells(q)'
      <4>1. cache[q] = Empty => group[q] = Absent
        BY <1>0, <1>1 DEF SyncFacts, CacheTells
      <4>2. q = p \/ group'[q] = group[q] \/ group'[q] = Absent
        BY <1>4
      <4> QED BY <1>1, <2>1, <4>1, <4>2 DEF CacheTells
    <3>2. StatTells(q)' /\ Synced(q)'
      BY <1>1, <1>3, <2>1 DEF StatTells, Synced
    <3> QED BY <3>1, <3>2
  <2>4. ASSUME NEW k \in Caller PROVE CallSync(k)'
    <3>1. CASE k # h
      BY <1>1, <3>1 DEF CallSync
    <3>2. CASE k = h
      <4>1. \A q \in Path : file[q] # group'[q] => q \in Touched(call'[h])
        BY <1>3, <1>4, <2>1 DEF Touched
      <4>2. f # Absent => \A q \in Excluded(p) : group'[q] = Absent
        BY <1>4
      <4> QED BY <1>1, <1>4, <2>1, <3>2, <4>1, <4>2 DEF CallSync
    <3> QED BY <3>1, <3>2
  <2> QED BY <1>6, <1>7, <2>2, <2>3, <2>4 DEF SyncFacts
<1> QED BY <1>8, <1>9

(* What a step of a call is to leave. *)
CallLeaves(h) ==
    LET r == call[h]  pc == call'[h].pc IN
    /\ \A q \in Path : file'[q] # Empty
    /\ dir' => stat'[Top] = "none"
    /\ file'[Top] # Absent => \A q \in Leaf : stat'[q] = "none"
    /\ \A q \in Path : cache'[q] = Empty =>
           group[q] = Absent \/ (pc \notin {"idle", "redo"} /\ q = r.path)
    /\ \A q \in Path : stat'[q] # "none" /\ file'[q] = Absent =>
           \/ pc = "dropstat" /\ q = Top
           \/ pc = "clearstats" /\ q \in Leaf
           \/ pc = "stat" /\ q = r.path
    /\ \A q \in Path : file'[q] # group[q] =>
           /\ pc # "idle" /\ q \in Touched(r)
           /\ stat'[q] = IF file'[q] = Absent THEN "none" ELSE "current"
    /\ r.data # Absent /\ pc \in {"write", "stat", "mark"} =>
           \A q \in Excluded(r.path) : file'[q] = Absent

LEMMA CallKnows ==
    ASSUME SyncInv, Timed, NEW h \in Caller, CallStep(h)
    PROVE  LET r == call[h]  p == r.path  f == r.data IN
           /\ TypeOK /\ p \in Path /\ f \in File \ {Empty} /\ group[p] = f
           /\ \A q \in Path : file[q] # Empty
           /\ dir => stat[Top] = "none"
           /\ file[Top] # Absent => \A q \in Leaf : stat[q] = "none"
           /\ \A q \in Path : cache[q] = Empty =>
                  group[q] = Absent \/ (r.pc \notin {"idle", "redo"} /\ q = p)
           /\ \A q \in Path : stat[q] # "none" /\ file[q] = Absent =>
                  \/ r.pc = "dropstat" /\ q = Top
                  \/ r.pc = "clearstats" /\ q \in Leaf
                  \/ r.pc = "stat" /\ q = p
           /\ \A q \in Path : file[q] # group[q] =>
                  q \in Touched(r) /\ stat[q] = IF file[q] = Absent THEN "none" ELSE "current"
           /\ f # Absent => \A q \in Excluded(p) : group[q] = Absent
           /\ f # Absent /\ r.pc \in {"write", "stat", "mark"} =>
                  \A q \in Excluded(p) : file[q] = Absent
<1>0. RescanInv /\ SyncFacts
  BY DEF SyncInv
<1>1. /\ TypeOK /\ mode = "up" /\ Calling /\ call[h].pc # "idle"
      /\ call[h].path \in Path /\ call[h].data \in File
      /\ \A k \in Caller \ {h} : call[k].pc = "idle"
  BY <1>0, CallTurn
<1>2. call[h].data # Empty /\ \A q \in Path : file[q] # Empty
  BY <1>0 DEF SyncFacts, NotEmpty
<1>3. CallSync(h)
  BY <1>0 DEF SyncFacts
<1>4. \A q \in Path : cache[q] = Empty =>
          group[q] = Absent \/ (call[h].pc \notin {"idle", "redo"} /\ q = call[h].path)
  BY <1>0, <1>1 DEF SyncFacts, CacheTells
<1>5. \A q \in Path : stat[q] # "none" /\ file[q] = Absent =>
          \/ call[h].pc = "dropstat" /\ q = Top
          \/ call[h].pc = "clearstats" /\ q \in Leaf
          \/ call[h].pc = "stat" /\ q = call[h].path
  BY <1>0, <1>1 DEF SyncFacts, StatTells
<1>6. \A q \in Path : file[q] # group[q] =>
          stat[q] = IF file[q] = Absent THEN "none" ELSE "current"
  BY <1>0, <1>1 DEF SyncFacts, Synced
<1>7. dir => stat[Top] = "none" /\ (file[Top] # Absent => \A q \in Leaf : stat[q] = "none")
  BY <1>0 DEF SyncFacts, OneTree
<1>8. file[Top] # Absent => \A q \in Leaf : stat[q] = "none"
  BY <1>0 DEF SyncFacts, OneTree
<1> QED BY <1>1, <1>2, <1>3, <1>4, <1>5, <1>6, <1>7, <1>8 DEF CallSync

LEMMA CallKeeps ==
    ASSUME SyncInv, RescanInv', Timed, NEW h \in Caller, CallStep(h), CallLeaves(h)
    PROVE  SyncFacts'
<1>0. SyncFacts /\ RescanInv /\ TypeOK'
  BY DEF SyncInv, RescanInv, WatchInv
<1>1. /\ TypeOK /\ mode = "up" /\ Calling /\ call[h].pc # "idle"
      /\ mode' = mode /\ UNCHANGED <<look, group>>
      /\ scan.pc = "idle" /\ \A q \in Path : look[q].pc = "idle"
      /\ \A k \in Caller \ {h} : call[k].pc = "idle" /\ call'[k] = call[k]
      /\ call'[h].path = call[h].path /\ call'[h].data = call[h].data
  BY <1>0, CallTurn
<1>2. /\ group[call[h].path] = call[h].data /\ call[h].data # Empty
      /\ call[h].data # Absent => \A q \in Excluded(call[h].path) : group[q] = Absent
  BY CallKnows
<1>3. Calling' <=> call'[h].pc # "idle"
  BY <1>1 DEF Calling
<1>4. NotEmpty'
  BY <1>0, <1>1 DEF SyncFacts, NotEmpty, CallLeaves
<1>5. ScanFinds' /\ (\A g \in Looker : LooksTell(g)') /\ \A q \in Path : TimerLooks(q)'
  <2>1. \A g \in Looker : look'[g].pc = "idle"
    BY <1>1 DEF Looker
  <2> QED BY <2>1, Paths DEF ScanFinds, LooksTell, TimerLooks
<1>6. OneTree'
  <2>1. /\ \A a \in Path : \A b \in Excluded(a) : group'[a] # Absent => group'[b] = Absent
        /\ dir' => stat'[Top] = "none"
        /\ file'[Top] # Absent => \A q \in Leaf : stat'[q] = "none"
    BY <1>0, <1>1 DEF SyncFacts, OneTree, CallLeaves
  <2>2. ~Calling' => \A q \in Path : file'[q] = group[q]
    BY <1>3 DEF CallLeaves
  <2>3. /\ dir' => file'[Top] = Absent
        /\ file'[Top] # Absent => \A q \in Leaf : file'[q] = Absent
    <3>1. \A q \in Path : file'[q] # Absent => dir' = (q \in Leaf)
      BY <1>0 DEF TypeOK
    <3>2. file'[Top] # Absent => ~dir'
      BY <3>1, Paths
    <3>3. \A q \in Leaf : file'[q] # Absent => dir'
      BY <3>1, Paths
    <3> QED BY <3>2, <3>3
  <2> QED BY <1>1, <2>1, <2>2, <2>3, Paths DEF OneTree
<1>7. ASSUME NEW q \in Path PROVE CacheTells(q)' /\ StatTells(q)' /\ Synced(q)'
  <2>1. CacheTells(q)'
    BY <1>1, <1>3 DEF CallLeaves, CacheTells
  <2>2. StatTells(q)'
    BY <1>1, <1>3 DEF CallLeaves, StatTells
  <2>3. Synced(q)'
    BY <1>1, <1>3 DEF CallLeaves, Synced
  <2> QED BY <2>1, <2>2, <2>3
<1>8. ASSUME NEW k \in Caller PROVE CallSync(k)'
  <2>1. CASE k # h
    BY <1>1, <2>1 DEF CallSync
  <2>2. CASE k = h
    BY <1>1, <1>2, <2>2 DEF CallSync, CallLeaves, Touched
  <2> QED BY <2>1, <2>2
<1> QED BY <1>4, <1>5, <1>6, <1>7, <1>8 DEF SyncFacts

LEMMA SyncRedo ==
    ASSUME SyncInv, Timed, NEW h \in Caller, Redo(h)
    PROVE  CallLeaves(h)
<1>1. CallStep(h) /\ RescanInv
  BY DEF CallStep, SyncInv
<1>2. call[h].pc = "redo" /\ UNCHANGED <<dir, file, stat, cache>>
  BY <1>1, Redone
<1>3. \/ call'[h].pc = "parent" \/ call'[h].pc = "remove"
      \/ call'[h].pc = "idle" /\ call[h].data = Absent /\ file[call[h].path] = Absent
  BY <1>1, Redone, CallKnows
<1> QED BY <1>1, <1>2, <1>3, CallKnows DEF CallLeaves, Touched

LEMMA SyncParent ==
    ASSUME SyncInv, Timed, NEW h \in Caller, ClearParent(h)
    PROVE  CallLeaves(h)
<1>1. CallStep(h) /\ RescanInv
  BY DEF CallStep, SyncInv
<1>2. CASE file' = file
  BY <1>1, <1>2, ParentCleared, CallKnows DEF CallLeaves
<1>3. CASE file' # file
  <2>1. /\ call[h].pc = "parent" /\ UNCHANGED <<dir, stat, cache>>
        /\ call'[h].pc = "dropstat" /\ call[h].path \in Leaf /\ call[h].data # Absent
        /\ ~dir /\ file'[Top] = Absent /\ \A q \in Leaf : file'[q] = file[q]
    BY <1>1, <1>3, ParentCleared
  <2>2. Top \in Excluded(call[h].path) /\ group[Top] = Absent
    BY <1>1, <2>1, CallKnows, Others, Paths
  <2> QED BY <1>1, <2>1, <2>2, CallKnows, Paths DEF CallLeaves
<1> QED BY <1>2, <1>3

LEMMA SyncDropStat ==
    ASSUME SyncInv, Timed, NEW h \in Caller, DropStat(h)
    PROVE  CallLeaves(h)
<1>1. CallStep(h) /\ RescanInv
  BY DEF CallStep, SyncInv
<1> QED BY <1>1, StatDropped, CallKnows, Paths DEF CallLeaves

LEMMA SyncMkdir ==
    ASSUME SyncInv, Timed, NEW h \in Caller, MkdirAll(h)
    PROVE  CallLeaves(h)
<1>1. CallStep(h) /\ RescanInv
  BY DEF CallStep, SyncInv
<1> QED BY <1>1, DirsMade, CallKnows, Paths DEF CallLeaves

LEMMA SyncPath ==
    ASSUME SyncInv, RescanInv', Timed, NEW h \in Caller, ClearPath(h)
    PROVE  CallLeaves(h)
<1>1. CallStep(h) /\ RescanInv /\ TypeOK'
  BY DEF CallStep, SyncInv, RescanInv, WatchInv
<1>2. call[h].pc = "clear" /\ call[h].data # Absent /\ UNCHANGED <<stat, cache>>
  BY <1>1, PathCleared
<1>3. CASE call'[h].pc = "clearstats"
  <2>1. /\ call[h].path = Top /\ ~dir' /\ file[Top] = Absent
        /\ \A q \in Path : file'[q] = Absent
    BY <1>1, <1>3, PathCleared
  <2>2. \A q \in Leaf : group[q] = Absent /\ q \in Excluded(call[h].path)
    BY <1>1, <1>2, <2>1, CallKnows, Others, Paths
  <2> QED BY <1>1, <1>2, <1>3, <2>1, <2>2, CallKnows, Paths DEF CallLeaves
<1>4. CASE call'[h].pc # "clearstats"
  <2>1. call'[h].pc = "write" /\ CanWrite(call[h].path) /\ UNCHANGED <<dir, file>>
    BY <1>1, <1>4, PathCleared
  <2>2. \A q \in Excluded(call[h].path) : file[q] = Absent
    <3>1. call[h].path \in Path /\ TypeOK
      BY <1>1, CallKnows
    <3>2. CASE call[h].path = Top
      <4>1. ~dir
        BY <2>1, <3>2 DEF CanWrite
      <4> QED BY <3>1, <3>2, <4>1, Others, Paths DEF TypeOK
    <3>3. CASE call[h].path # Top
      <4>1. dir
        BY <2>1, <3>3 DEF CanWrite
      <4> QED BY <3>1, <3>3, <4>1, TopAbsent, Others
    <3> QED BY <3>2, <3>3
  <2> QED BY <1>1, <1>2, <2>1, <2>2, CallKnows DEF CallLeaves
<1> QED BY <1>3, <1>4

LEMMA SyncClearStats ==
    ASSUME SyncInv, Timed, NEW h \in Caller, ClearStats(h)
    PROVE  CallLeaves(h)
<1>1. CallStep(h) /\ RescanInv
  BY DEF CallStep, SyncInv
<1>2. \A q \in Excluded(Top) : q \in Path
  BY Others, Paths
<1> QED BY <1>1, <1>2, StatsCleared, CallKnows, Paths DEF CallLeaves

LEMMA SyncWrite ==
    ASSUME SyncInv, Timed, NEW h \in Caller, PutWrites(h)
    PROVE  CallLeaves(h)
<1> DEFINE p == call[h].path
<1>1. CallStep(h) /\ RescanInv /\ TypeOK /\ p \in Path
  BY CallKnows DEF CallStep, SyncInv
<1>2. /\ call[h].pc = "write" /\ call'[h].pc = "stat" /\ UNCHANGED <<dir, cache>>
      /\ CanWrite(p) /\ call[h].data # Absent /\ file'[p] = call[h].data
      /\ \A q \in Path \ {p} : file'[q] = file[q] /\ stat'[q] = stat[q]
  BY <1>1, PutWritten
<1>3. group[p] = call[h].data /\ call[h].data # Empty
  BY <1>1, CallKnows
<1>4. dir' => stat'[Top] = "none"
  <2>1. dir => p # Top
    BY <1>2 DEF CanWrite
  <2> QED BY <1>1, <1>2, <2>1, CallKnows, Paths
<1>5. file'[Top] # Absent => \A q \in Leaf : stat'[q] = "none"
  <2>1. CASE p = Top
    <3>1. ~dir
      BY <1>2, <2>1 DEF CanWrite
    <3>2. \A q \in Leaf : file[q] = Absent
      BY <1>1, <3>1, Paths DEF TypeOK
    <3> QED BY <1>1, <1>2, <2>1, <3>2, CallKnows, Paths
  <2>2. CASE p # Top
    <3>1. dir
      BY <1>2, <2>2 DEF CanWrite
    <3> QED BY <1>1, <1>2, <2>2, <3>1, TopAbsent, Paths
  <2> QED BY <2>1, <2>2
<1>6. \A q \in Excluded(p) : file'[q] = Absent
  BY <1>1, <1>2, CallKnows, Others
<1> QED BY <1>1, <1>2, <1>3, <1>4, <1>5, <1>6, CallKnows DEF CallLeaves

LEMMA SyncDelete ==
    ASSUME SyncInv, Timed, NEW h \in Caller, DeleteRemoves(h) \/ DeleteFails(h) \/ CleanupEmptyDirs(h)
    PROVE  CallLeaves(h)
<1>1. CallStep(h) /\ RescanInv
  BY DEF CallStep, SyncInv
<1>2. CASE DeleteRemoves(h)
  BY <1>1, <1>2, Deleted, CallKnows, Paths DEF CallLeaves
<1>3. CASE DeleteFails(h)
  BY <1>1, <1>3, NotDeleted, CallKnows DEF CallLeaves, Touched
<1>4. CASE CleanupEmptyDirs(h)
  BY <1>1, <1>4, CleanedUp, CallKnows, Paths DEF CallLeaves, Touched
<1> QED BY <1>2, <1>3, <1>4

LEMMA SyncStored ==
    ASSUME SyncInv, RescanInv', Timed, NEW h \in Caller, CallStat(h)
    PROVE  CallLeaves(h)
<1> DEFINE p == call[h].path
<1>1. CallStep(h) /\ RescanInv /\ TypeOK /\ p \in Path
  BY CallKnows DEF CallStep, SyncInv
<1>2. /\ call[h].pc = "stat" /\ call'[h].pc = "mark" /\ UNCHANGED <<dir, file, cache>>
      /\ file[p] = call[h].data
      /\ stat'[p] = IF call[h].data = Absent THEN "none" ELSE "current"
      /\ \A q \in Path \ {p} : stat'[q] = stat[q]
  BY <1>1, StatStored
<1>3. file[p] # Absent => (IF p = Top THEN ~dir ELSE dir /\ file[Top] = Absent)
  BY <1>1, FilesApart
<1>4. dir => stat'[Top] = "none"
  BY <1>1, <1>2, <1>3, CallKnows, Paths
<1>5. file[Top] # Absent => \A q \in Leaf : stat'[q] = "none"
  BY <1>1, <1>2, <1>3, CallKnows, Paths
<1> QED BY <1>1, <1>2, <1>4, <1>5, CallKnows DEF CallLeaves

LEMMA SyncMarked ==
    ASSUME SyncInv, Timed, NEW h \in Caller, CallMark(h)
    PROVE  CallLeaves(h)
<1>1. CallStep(h) /\ RescanInv
  BY DEF CallStep, SyncInv
<1>2. DeliverHash(call[h].data) # Empty
  BY <1>1, CallKnows DEF DeliverHash, Bytes
<1>3. call[h].data = Absent => Touched(call[h]) = {call[h].path}
  BY DEF Touched
<1>4. call[h].data # Absent => Touched(call[h]) = {call[h].path} \cup Excluded(call[h].path)
  BY DEF Touched
<1>5. \A q \in Path : file[q] = group[q]
  BY <1>1, <1>3, <1>4, CallMarked, CallKnows
<1> QED BY <1>1, <1>2, <1>5, CallMarked, CallKnows DEF CallLeaves

LEMMA SyncCall ==
    ASSUME SyncInv, RescanInv', Settled, NEW h \in Caller, CallStep(h)
    PROVE  SyncFacts'
<1>0. Timed
  BY DEF Settled
<1>1. CallLeaves(h)
  BY <1>0, SyncRedo, SyncParent, SyncDropStat, SyncMkdir, SyncPath, SyncClearStats, SyncWrite,
     SyncDelete, SyncStored, SyncMarked DEF CallStep
<1> QED BY <1>0, <1>1, CallKeeps

-----------------------------------------------------------------------------
LEMMA SyncInit == Init => SyncInv
<1> SUFFICES ASSUME Init PROVE SyncInv
  OBVIOUS
<1>1. /\ RescanInv /\ mode = "down" /\ ~dir
      /\ \A p \in Path : /\ file[p] = Absent /\ group[p] = Absent
                         /\ stat[p] = "none" /\ cache[p] = NoHash
  BY RescanInit DEF Init
<1>2. \A g \in Looker : look[g].pc = "idle" /\ look[g].data = Absent
  BY DEF Init, NoLook, Looker
<1>3. \A h \in Caller : call[h].pc = "idle" /\ call[h].data = Absent
  BY DEF Init, NoCall
<1>4. NotEmpty /\ OneTree /\ ScanFinds
  BY <1>1, <1>2, <1>3, Others, Paths DEF NotEmpty, OneTree, ScanFinds
<1>5. \A p \in Path : TimerLooks(p) /\ CacheTells(p) /\ StatTells(p) /\ Synced(p)
  BY <1>1, <1>2, Paths DEF TimerLooks, CacheTells, StatTells, Synced
<1>6. (\A g \in Looker : LooksTell(g)) /\ \A h \in Caller : CallSync(h)
  BY <1>2, <1>3 DEF LooksTell, CallSync
<1> QED BY <1>1, <1>4, <1>5, <1>6 DEF SyncInv, SyncFacts

LEMMA SyncStep == Settled /\ SyncInv /\ [Next]_vars => SyncInv'
<1> SUFFICES ASSUME Settled, SyncInv, [Next]_vars PROVE SyncInv'
  OBVIOUS
<1>0. RescanInv' /\ DOMAIN look = Looker
  BY RescanStep DEF Settled, SyncInv, RescanInv, WatchInv, TypeOK, Looker
<1>1. CASE UNCHANGED vars
  <2>1. /\ UNCHANGED <<dir, file, events, entry, stray, look, mode, todo, stat, cache, call, group>>
        /\ (Calling' <=> Calling)
    BY <1>1, CallsStay DEF vars, tree, timers, starts, records
  <2>2. NotEmpty' /\ OneTree' /\ ScanFinds'
    BY <2>1 DEF SyncInv, SyncFacts, NotEmpty, OneTree, ScanFinds
  <2>3. ASSUME NEW p \in Path PROVE TimerLooks(p)' /\ CacheTells(p)' /\ StatTells(p)' /\ Synced(p)'
    <3>1. TimerLooks(p)' /\ CacheTells(p)'
      BY <2>1 DEF SyncInv, SyncFacts, TimerLooks, CacheTells, Noticed
    <3>2. StatTells(p)'
      BY <2>1 DEF SyncInv, SyncFacts, StatTells
    <3>3. Synced(p)'
      BY <2>1 DEF SyncInv, SyncFacts, Synced, ScanCover, TimerCover, Noticed
    <3> QED BY <3>1, <3>2, <3>3
  <2>4. (\A g \in Looker : LooksTell(g)') /\ \A h \in Caller : CallSync(h)'
    BY <2>1 DEF SyncInv, SyncFacts, LooksTell, CallSync
  <2> QED BY <1>0, <2>2, <2>3, <2>4 DEF SyncInv, SyncFacts
<1>2. CASE UserStep
  BY <1>0, <1>2, SyncUser DEF SyncInv
<1>3. CASE \E e \in events : HandleEvent(e)
  BY <1>0, <1>3, SyncEvent DEF SyncInv
<1>4. CASE \E p \in Path : FireTimer(p)
  BY <1>0, <1>4, SyncTimer DEF SyncInv
<1>5. CASE \E g \in DOMAIN look : LookStep(g)
  BY <1>0, <1>5, SyncRead, SyncDispatch, SyncRecord, SyncEnd DEF SyncInv, LookStep
<1>6. CASE \E h \in Caller : CallStep(h)
  BY <1>0, <1>6, SyncCall DEF SyncInv
<1>7. CASE \E h \in Caller : \E p \in Path, f \in Content \cup {Absent} : Begin(h, p, f)
  BY <1>0, <1>7, SyncBegin DEF SyncInv
<1>8. CASE Boot
  BY <1>0, <1>8, SyncBoot DEF SyncInv
<1>9. CASE \E p \in Path : Scan(p)
  BY <1>0, <1>9, SyncScan DEF SyncInv
<1>10. CASE NextPhase
  BY <1>0, <1>10, SyncNextPhase DEF SyncInv
<1>11. CASE Crash
  BY <1>0, <1>11, SyncCrash DEF SyncInv
<1> QED BY <1>1, <1>2, <1>3, <1>4, <1>5, <1>6, <1>7, <1>8, <1>9, <1>10, <1>11 DEF Next, StartStep

(* At rest the tree holds the files that the rest of the group has, and no others,
   however many files there are, however often they give way to a directory and
   back, and wherever the process ends (debounceEvent, scanOfflineChanges,
   scanOfflineDeletions, Put, Delete). *)
THEOREM TreesAgree == ASSUME Settled PROVE Spec => []TreeInSync
<1>1. SyncInv => TreeInSync
  BY Resting DEF TreeInSync
<1>2. SyncInv /\ [Next]_vars => SyncInv'
  BY SyncStep
<1> QED BY <1>1, <1>2, SyncInit, PTL DEF Spec

(* At rest there is no stat of a file that does not exist, also after a directory
   with files in it gave way to a file (cleanupDirectoryStats). *)
THEOREM StatsBelong == ASSUME Settled PROVE Spec => []StatsHaveFiles
<1>1. SyncInv => StatsHaveFiles
  BY Resting DEF StatsHaveFiles
<1>2. SyncInv /\ [Next]_vars => SyncInv'
  BY SyncStep
<1> QED BY <1>1, <1>2, SyncInit, PTL DEF Spec
=============================================================================
