--------------------------- MODULE TreeStats_proofs -------------------------
(***************************************************************************)
(* At rest, the stored stats of the files are those that the files have,   *)
(* for any number of leaves, calls, edits and crashes.                     *)
(*                                                                         *)
(* The invariant says of every file whose stat is not current which scan,  *)
(* callback or call is about to store it.                                  *)
(***************************************************************************)
EXTENDS StorageTree_proofs

USE HashesDistinct, PathAssumption, ChoiceAssumption

(* The hub calls when the peer is at rest, and users wait for scans, watches
   and deletions: what the debounce delay makes likely. *)
Timed == Prompt /\ UserWaits

(* Something is to be looked at at path p. *)
Noticed(p) ==
    (\E op \in {"create", "other"} : <<op, p>> \in events) \/ entry[p] = "armed" \/ stray[p] > 0

scan == look[Scanner]

Scanning(p, pcs) == scan.path = p /\ scan.pc \in pcs

USE DEF scan, Scanning

(* A goroutine that has found a file, and is about to store its stat. *)
Tells(r) == r.pc = "read" \/ (r.pc \in {"dispatch", "stat"} /\ r.data # Absent)

(* Who runs when: timers and watches once Start has ended, and one call at a
   time, with no timer's callback beside it. *)
Turns ==
    /\ mode # "up" =>
          /\ events = {} /\ ~watched
          /\ \A p \in Path : entry[p] # "armed" /\ stray[p] = 0 /\ look[p].pc = "idle"
    /\ scan.pc # "idle" => mode \in {"changes", "deletions"}
    /\ Calling => \A p \in Path : look[p].pc = "idle"
    /\ \A h \in Caller : call[h].pc \notin {"idle", "redo"} => mode = "up"
    /\ \A h, k \in Caller : call[h].pc # "idle" /\ call[k].pc # "idle" => h = k

(* A scan looks at the files as they are; a callback that has found no file
   where there is one now will be followed by another. *)
Looks ==
    /\ \A p \in Path : look[p].path = p
    /\ scan.pc # "idle" =>
          IF mode = "changes"
          THEN /\ file[scan.path] # Absent
               /\ scan.pc \in {"dispatch", "stat"} => scan.data = file[scan.path]
          ELSE file[scan.path] = Absent /\ scan.pc # "read" /\ scan.data = Absent
    /\ \A p \in Path :
          look[p].pc \in {"dispatch", "stat"} /\ look[p].data = Absent /\ file[p] # Absent =>
              Noticed(p)

(* What a call has made of the tree so far. *)
CallFacts(h) ==
    LET r == call[h]  p == r.path IN
    /\ r.pc \in {"dropstat", "mkdir", "clear", "clearstats", "write"} => r.data # Absent
    /\ r.pc \in {"remove", "cleanup"} => r.data = Absent
    /\ r.pc = "dropstat" => p \in Leaf /\ ~dir /\ file[Top] = Absent
    /\ r.pc = "mkdir" /\ p \in Leaf => file[Top] = Absent
    /\ r.pc = "clear" /\ p \in Leaf => dir
    /\ r.pc = "clearstats" => p = Top /\ ~dir /\ file[Top] = Absent
    /\ r.pc = "write" => CanWrite(p)
    /\ r.pc \in {"stat", "mark"} => file[p] = r.data
    /\ r.pc \in {"stat", "mark", "parent", "cleanup"} /\ r.data = Absent =>
          file[p] = Absent /\ (p \in Leaf => file[Top] = Absent)

(* A file without a current stat is about to get one. *)
Rescanned(p) ==
    file[p] # Absent /\ stat[p] # "current" =>
    \/ mode = "down"
    \/ mode = "changes" /\ (p \in todo \/ Scanning(p, {"read", "dispatch", "stat"}))
    \/ mode = "up" /\ ~Calling /\ (Noticed(p) \/ Tells(look[p]))
    \/ \E h \in Caller : call[h].pc = "stat" /\ call[h].path = p /\ call[h].data # Absent

RescanInv ==
    /\ WatchInv /\ Turns /\ Looks
    /\ \A h \in Caller : CallFacts(h)
    /\ \A p \in Path : Rescanned(p)

-----------------------------------------------------------------------------
(* What the steps are made of. *)

LEMMA Paths ==
    /\ Top \in Path /\ Leaf \subseteq Path
    /\ \A p \in Path : p # Scanner /\ (p \in Leaf <=> p # Top)
    /\ \A p \in Path : p \in Looker
    /\ Scanner \in Looker
BY DEF Path, Looker

LEMMA Excludes ==
    \A p \in Path : /\ p = Top => Excluded(p) = Leaf
                    /\ p # Top => Excluded(p) = {Top} /\ p \in Leaf
BY DEF Path, Excluded

LEMMA FoundIs ==
    ASSUME TypeOK, NEW p \in Path
    PROVE  /\ Found(p) = "file" <=> file[p] # Absent
           /\ Found(p) = "directory" <=> p = Top /\ dir
           /\ Found(p) = "missing" <=>
                  file[p] = Absent /\ (p = Top => ~dir) /\ (p \in Leaf => file[Top] = Absent)
<1>0. /\ (dir => file[Top] = Absent) /\ (p \in Leaf <=> p # Top)
      /\ file[p] # Absent /\ p = Top => ~dir
      /\ file[p] # Absent /\ p \in Leaf => file[Top] = Absent
  <2>1. file[p] # Absent => dir = (p \in Leaf)
    BY DEF TypeOK
  <2>2. (dir => file[Top] = Absent) /\ (p \in Leaf <=> p # Top)
    BY TopAbsent, Paths
  <2>3. file[p] # Absent /\ p \in Leaf => dir
    BY <2>1
  <2> QED BY <2>2, <2>3
<1>1. CASE file[p] # Absent
  <2>1. ~(p = Top /\ dir) /\ ~(p \in Leaf /\ file[Top] # Absent)
    BY <1>0, <1>1
  <2>2. Found(p) = "file"
    BY <1>1, <2>1 DEF Found
  <2> QED BY <1>1, <2>1, <2>2
<1>2. CASE file[p] = Absent /\ p = Top /\ dir
  <2>1. Found(p) = "directory"
    BY <1>0, <1>2 DEF Found
  <2> QED BY <1>2, <2>1
<1>3. CASE file[p] = Absent /\ p \in Leaf /\ file[Top] # Absent
  <2>1. Found(p) = "not a directory"
    BY <1>0, <1>3 DEF Found
  <2> QED BY <1>0, <1>3, <2>1
<1>4. CASE file[p] = Absent /\ ~(p = Top /\ dir) /\ ~(p \in Leaf /\ file[Top] # Absent)
  <2>1. Found(p) = "missing"
    BY <1>4 DEF Found
  <2> QED BY <1>4, <2>1
<1> QED BY <1>1, <1>2, <1>3, <1>4

(* What is noticed stays so while events and timers are added. *)
LEMMA NoticedStays ==
    ASSUME events \subseteq events', UNCHANGED timers, NEW p, Noticed(p)
    PROVE  Noticed(p)'
BY DEF Noticed, timers

LEMMA Emitted ==
    ASSUME NEW op \in {"create", "other"}, NEW S, Emit(op, S)
    PROVE  /\ events \subseteq events'
           /\ mode # "up" => events' = events
           /\ \A p \in S : mode = "up" /\ (p = Top \/ watched) => Noticed(p)'
<1>1. events' = events \cup {<<op, p>> : p \in {q \in S : mode = "up" /\ (q = Top \/ watched)}}
  BY DEF Emit
<1>2. ASSUME NEW p \in S, mode = "up", p = Top \/ watched PROVE Noticed(p)'
  <2>1. <<op, p>> \in events'
    BY <1>1, <1>2
  <2> QED BY <2>1 DEF Noticed
<1> QED BY <1>1, <1>2

LEMMA Written ==
    ASSUME TypeOK, NEW p \in Path, NEW c, WriteFile(p, c)
    PROVE  /\ file' = [file EXCEPT ![p] = c] /\ file'[p] = c
           /\ \A q \in Path \ {p} : file'[q] = file[q] /\ stat'[q] = stat[q]
           /\ stat'[p] # "current" /\ (stat[p] # "current" => stat'[p] = stat[p])
           /\ (stat'[p] = "none" <=> stat[p] = "none")
           /\ CanWrite(p) /\ dir' = dir /\ watched' = watched
           /\ events \subseteq events' /\ (mode # "up" => events' = events)
           /\ mode = "up" /\ (p = Top \/ watched) => Noticed(p)'
<1>1. /\ CanWrite(p) /\ dir' = dir /\ watched' = watched
      /\ file' = [file EXCEPT ![p] = c]
      /\ stat' = [stat EXCEPT ![p] = IF @ = "current" THEN "old" ELSE @]
      /\ Emit(IF file[p] = Absent THEN "create" ELSE "other", {p})
  BY DEF WriteFile
<1>2. (IF file[p] = Absent THEN "create" ELSE "other") \in {"create", "other"}
  OBVIOUS
<1>3. /\ events \subseteq events' /\ (mode # "up" => events' = events)
      /\ mode = "up" /\ (p = Top \/ watched) => Noticed(p)'
  BY <1>1, <1>2, Emitted
<1> QED BY <1>1, <1>3 DEF TypeOK

LEMMA Removed ==
    ASSUME TypeOK, NEW p \in Path, RemoveFile(p)
    PROVE  /\ file' = [file EXCEPT ![p] = Absent] /\ file'[p] = Absent
           /\ \A q \in Path \ {p} : file'[q] = file[q]
           /\ dir' = dir /\ watched' = watched
           /\ events \subseteq events' /\ (mode # "up" => events' = events)
           /\ mode = "up" /\ (p = Top \/ watched) => Noticed(p)'
<1>1. /\ file' = [file EXCEPT ![p] = Absent] /\ dir' = dir /\ watched' = watched
      /\ Emit("other", {p})
  BY DEF RemoveFile
<1>2. /\ events \subseteq events' /\ (mode # "up" => events' = events)
      /\ mode = "up" /\ (p = Top \/ watched) => Noticed(p)'
  BY <1>1, Emitted
<1> QED BY <1>1, <1>2 DEF TypeOK

LEMMA DirMade ==
    ASSUME MakeDir
    PROVE  /\ dir' /\ UNCHANGED <<file, watched>>
           /\ events \subseteq events' /\ (mode # "up" => events' = events)
BY Emitted DEF MakeDir

LEMMA DirRemoved ==
    ASSUME TypeOK, RemoveDir, dir
    PROVE  /\ ~dir' /\ ~watched' /\ \A p \in Path : file'[p] = Absent
           /\ events \subseteq events' /\ (mode # "up" => events' = events)
           /\ mode = "up" => Noticed(Top)'
           /\ \A p \in Leaf : mode = "up" /\ watched /\ file[p] # Absent => Noticed(p)'
<1>1. /\ dir' = FALSE /\ watched' = FALSE
      /\ file' = [p \in Path |-> IF p \in Leaf THEN Absent ELSE file[p]]
      /\ Emit("other", {Top} \cup {p \in Leaf : file[p] # Absent})
  BY DEF RemoveDir
<1>2. /\ events \subseteq events' /\ (mode # "up" => events' = events)
      /\ mode = "up" => Noticed(Top)'
      /\ \A p \in Leaf : mode = "up" /\ watched /\ file[p] # Absent => Noticed(p)'
  BY <1>1, Emitted
<1>3. \A p \in Path : file'[p] = Absent
  BY <1>1, TopAbsent, Paths
<1> QED BY <1>1, <1>2, <1>3

LEMMA LookedAt ==
    ASSUME TypeOK, NEW g \in Looker, NEW p \in Path, LookAt(g, p)
    PROVE  /\ \A k \in Looker \ {g} : look'[k] = look[k]
           /\ look'[g].path = p /\ look'[g].data = Absent
           /\ look'[g].pc \in {"read", "dispatch", "end"}
           /\ look'[g].pc = "read" <=> file[p] # Absent
           /\ look'[g].pc = "dispatch" <=>
                  file[p] = Absent /\ (p = Top => ~dir) /\ (p \in Leaf => file[Top] = Absent)
<1>1. CASE Found(p) = "file"
  <2>1. look' = [look EXCEPT ![g] = [pc |-> "read", path |-> p, data |-> Absent]]
    BY <1>1 DEF LookAt
  <2> QED BY <1>1, <2>1, FoundIs DEF TypeOK, Looker
<1>2. CASE Found(p) = "missing"
  <2>1. look' = [look EXCEPT ![g] = [pc |-> "dispatch", path |-> p, data |-> Absent]]
    BY <1>2 DEF LookAt
  <2> QED BY <1>2, <2>1, FoundIs DEF TypeOK, Looker
<1>3. CASE Found(p) \notin {"file", "missing"}
  <2>1. look' = [look EXCEPT ![g] = [pc |-> "end", path |-> p, data |-> Absent]]
    BY <1>3 DEF LookAt
  <2> QED BY <1>3, <2>1, FoundIs DEF TypeOK, Looker
<1> QED BY <1>1, <1>2, <1>3

LEMMA WentTo ==
    ASSUME TypeOK, NEW g \in Looker, NEW pc, Goto(g, pc)
    PROVE  /\ \A k \in Looker \ {g} : look'[k] = look[k]
           /\ look'[g] = [look[g] EXCEPT !.pc = pc]
           /\ look'[g].pc = pc /\ look'[g].path = look[g].path /\ look'[g].data = look[g].data
BY DEF Goto, TypeOK, Looker, LookState

LEMMA Stepped ==
    ASSUME TypeOK, NEW h \in Caller, NEW from, NEW to, Step(h, from, to)
    PROVE  /\ call[h].pc = from
           /\ \A k \in Caller \ {h} : call'[k] = call[k]
           /\ call'[h].pc = to /\ call'[h].path = call[h].path /\ call'[h].data = call[h].data
BY DEF Step, TypeOK, CallState

-----------------------------------------------------------------------------
(* A file without a current stat is about to get one. *)

(* Where a step leaves the calls alone, a file is as before, gone, or noticed. *)
LEMMA CallsStay ==
    ASSUME call' = call
    PROVE  Calling' <=> Calling
BY DEF Calling

LEMMA NoCalls ==
    ASSUME ~Calling, NEW h \in Caller
    PROVE  call[h].pc = "idle" /\ CallFacts(h)
BY DEF Calling, CallFacts

LEMMA UserChanges ==
    ASSUME TypeOK, Timed, UserStep
    PROVE  /\ ~Calling /\ mode \in {"down", "up"}
           /\ UNCHANGED <<timers, look, starts, cache, call, group, calls, crashes>>
           /\ events \subseteq events' /\ (mode # "up" => events' = events)
           /\ watched' => watched
           /\ \A q \in Path :
                 \/ file'[q] = file[q] /\ stat'[q] = stat[q]
                 \/ file'[q] = Absent /\ stat'[q] = stat[q] /\ (mode = "up" => Noticed(q)')
                 \/ /\ file'[q] \in Content /\ stat'[q] # "current"
                    /\ stat'[q] = "none" <=> stat[q] = "none"
                    /\ mode = "up" => Noticed(q)'
<1>1. ASSUME NEW p \in Path, MayEdit(p)
      PROVE  ~Calling /\ mode \in {"down", "up"} /\ (mode = "up" => p = Top \/ watched)
  BY <1>1 DEF MayEdit, Timed
<1>2. ASSUME NEW p \in Path, NEW c \in Content, UserWrite(p, c)
      PROVE  /\ events \subseteq events' /\ (mode # "up" => events' = events)
             /\ watched' => watched
             /\ \A q \in Path :
                   \/ file'[q] = file[q] /\ stat'[q] = stat[q]
                   \/ /\ file'[q] \in Content /\ stat'[q] # "current"
                      /\ stat'[q] = "none" <=> stat[q] = "none"
                      /\ mode = "up" => Noticed(q)'
  BY <1>1, <1>2, Written DEF UserWrite
<1>3. ASSUME NEW p \in Path, UserRemove(p)
      PROVE  /\ events \subseteq events' /\ (mode # "up" => events' = events)
             /\ watched' => watched
             /\ \A q \in Path :
                   \/ file'[q] = file[q] /\ stat'[q] = stat[q]
                   \/ file'[q] = Absent /\ stat'[q] = stat[q] /\ (mode = "up" => Noticed(q)')
  BY <1>1, <1>3, Removed DEF UserRemove, records
<1>4. CASE UserMakeDir
  BY <1>1, <1>4, DirMade, Paths DEF UserMakeDir, records
<1>5. CASE UserRemoveDir
  <2>1. \A p \in Path : file[p] = Absent
    BY <1>5, TopAbsent, Paths DEF UserRemoveDir, EmptyDir, Path
  <2>2. \A p \in Path : file'[p] = Absent
    BY <1>5, DirRemoved DEF UserRemoveDir, EmptyDir
  <2> QED BY <1>1, <1>5, <2>1, <2>2, DirRemoved, Paths DEF UserRemoveDir, EmptyDir, records
<1>6. /\ ~Calling /\ mode \in {"down", "up"}
      /\ UNCHANGED <<timers, look, starts, cache, call, group, calls, crashes>>
  BY <1>1, Paths DEF UserStep, UserWrite, UserRemove, UserMakeDir, UserRemoveDir, records
<1> QED BY <1>2, <1>3, <1>4, <1>5, <1>6 DEF UserStep

LEMMA RescanUser ==
    ASSUME RescanInv, Timed, UserStep
    PROVE  (Turns /\ Looks /\ (\A h \in Caller : CallFacts(h)) /\ \A p \in Path : Rescanned(p))'
<1>0. TypeOK
  BY DEF RescanInv, WatchInv
<1>1. /\ ~Calling /\ ~Calling' /\ mode \in {"down", "up"} /\ call' = call
      /\ UNCHANGED <<timers, look, starts>> /\ mode' = mode
      /\ events \subseteq events' /\ (mode # "up" => events' = events)
      /\ watched' => watched
  BY <1>0, UserChanges, CallsStay DEF starts
<1>2. Turns'
  BY <1>1 DEF RescanInv, Turns, timers
<1>3. \A q \in Path : Noticed(q) => Noticed(q)'
  BY <1>1, NoticedStays
<1>4. \A q \in Path : file'[q] # Absent =>
          \/ file[q] # Absent /\ stat'[q] = stat[q]
          \/ (mode = "up" => Noticed(q)')
  BY <1>0, UserChanges
<1>5. Looks'
  <2>1. scan.pc = "idle" /\ look' = look
    BY <1>1 DEF RescanInv, Turns
  <2>2. ASSUME NEW p \in Path, look[p].pc \in {"dispatch", "stat"}, look[p].data = Absent,
               file'[p] # Absent
        PROVE  Noticed(p)'
    <3>1. mode = "up"
      BY <1>1, <2>2 DEF RescanInv, Turns
    <3>2. file[p] # Absent => Noticed(p)
      BY <2>2 DEF RescanInv, Looks
    <3> QED BY <1>3, <1>4, <2>2, <3>1, <3>2
  <2> QED BY <2>1, <2>2 DEF RescanInv, Looks
<1>6. \A h \in Caller : CallFacts(h)'
  BY <1>1 DEF Calling, CallFacts
<1>7. ASSUME NEW p \in Path PROVE Rescanned(p)'
  <2>1. CASE mode = "down"
    BY <1>1, <2>1 DEF Rescanned
  <2>2. CASE mode = "up"
    <3>1. file'[p] # Absent /\ stat'[p] # "current" =>
              \/ Noticed(p)'
              \/ Rescanned(p) /\ file[p] # Absent /\ stat[p] # "current"
      BY <1>4, <2>2 DEF RescanInv
    <3>2. \A h \in Caller : call[h].pc = "idle"
      BY <1>1 DEF Calling
    <3> QED BY <1>1, <1>3, <2>2, <3>1, <3>2 DEF Rescanned, starts, Tells, Scanning
  <2> QED BY <1>1, <2>1, <2>2
<1> QED BY <1>2, <1>5, <1>6, <1>7

LEMMA RescanEvent ==
    ASSUME RescanInv, NEW e \in events, HandleEvent(e)
    PROVE  (Turns /\ Looks /\ (\A h \in Caller : CallFacts(h)) /\ \A p \in Path : Rescanned(p))'
<1>0. TypeOK /\ e[2] \in Path /\ e \in Event
  BY DEF RescanInv, WatchInv, TypeOK, Event
<1>1. /\ mode = "up" /\ UNCHANGED <<dir, file, stray, look, starts, records, call, group, bounds>>
      /\ events' = events \ {e} /\ mode' = mode
  BY DEF RescanInv, Turns, HandleEvent, starts
<1>2. ASSUME NEW p \in Path, Noticed(p), file[p] # Absent \/ ~(p = Top /\ dir)
      PROVE  Noticed(p)'
  <2>1. CASE e[2] = p
    <3>1. Found(p) # "directory"
      BY <1>0, <1>2, FoundIs, TopAbsent
    <3>2. entry' = [entry EXCEPT ![p] = "armed"]
      BY <2>1, <3>1 DEF HandleEvent, Debounce
    <3> QED BY <1>0, <3>2 DEF Noticed, TypeOK
  <2>2. CASE e[2] # p
    <3>1. entry' = entry \/ entry' = [entry EXCEPT ![e[2]] = "armed"]
      BY DEF HandleEvent, Debounce
    <3>2. entry'[p] = entry[p]
      BY <1>0, <2>2, <3>1 DEF TypeOK
    <3>3. \A op \in {"create", "other"} : <<op, p>> \in events => <<op, p>> \in events'
      BY <1>1, <2>2
    <3> QED BY <1>1, <1>2, <3>2, <3>3 DEF Noticed
  <2> QED BY <2>1, <2>2
<1>3. Turns'
  BY <1>1, CallsStay DEF RescanInv, Turns
<1>4. Looks'
  BY <1>1, <1>2 DEF RescanInv, Looks
<1>5. \A h \in Caller : CallFacts(h)'
  BY <1>1 DEF RescanInv, CallFacts, CanWrite
<1>6. \A p \in Path : Rescanned(p)'
  BY <1>1, <1>2, CallsStay DEF RescanInv, Rescanned, records, starts, Scanning
<1> QED BY <1>3, <1>4, <1>5, <1>6

LEMMA RescanTimer ==
    ASSUME RescanInv, Timed, NEW p \in Path, FireTimer(p)
    PROVE  (Turns /\ Looks /\ (\A h \in Caller : CallFacts(h)) /\ \A q \in Path : Rescanned(q))'
<1>0. TypeOK
  BY DEF RescanInv, WatchInv
<1>1. /\ UNCHANGED <<tree, starts, records, call, group, bounds>> /\ ~Calling /\ mode' = mode
      /\ look[p].pc = "idle" /\ LookAt(p, p)
      /\ entry[p] = "armed" \/ stray[p] > 0
  BY DEF FireTimer, Timed, starts
<1>2. mode = "up" /\ ~Calling'
  <2>1. mode = "up"
    BY <1>0, <1>1 DEF RescanInv, Turns, TypeOK
  <2> QED BY <1>1, <2>1, CallsStay
<1>3. /\ \A k \in Looker \ {p} : look'[k] = look[k]
      /\ look'[p].path = p /\ look'[p].data = Absent
      /\ look'[p].pc = "read" <=> file[p] # Absent
      /\ look'[p].pc \in {"read", "dispatch", "end"}
  BY <1>0, <1>1, LookedAt, Paths
<1>4. \A q \in Path \ {p} : Noticed(q)' <=> Noticed(q)
  BY <1>0, <1>1 DEF FireTimer, Noticed, tree, TypeOK
<1>5. look'[Scanner] = look[Scanner]
  BY <1>3, Paths
<1>6. Turns'
  BY <1>1, <1>2, <1>5 DEF RescanInv, Turns, tree
<1>7. Looks'
  <2>1. UNCHANGED <<file, mode>>
    BY <1>1 DEF tree, starts
  <2>2. \A q \in Path : look'[q].path = q
    BY <1>3, Paths DEF RescanInv, Looks
  <2>3. \A q \in Path :
          look'[q].pc \in {"dispatch", "stat"} /\ look'[q].data = Absent /\ file[q] # Absent =>
              Noticed(q)'
    BY <1>3, <1>4, Paths DEF RescanInv, Looks
  <2> QED BY <1>5, <2>1, <2>2, <2>3 DEF RescanInv, Looks
<1>8. \A h \in Caller : CallFacts(h)'
  BY <1>1 DEF RescanInv, CallFacts, CanWrite, tree
<1>9. ASSUME NEW q \in Path PROVE Rescanned(q)'
  <2>1. CASE q = p
    BY <1>1, <1>2, <1>3, <2>1 DEF Rescanned, Tells, tree
  <2>2. CASE q # p
    <3>1. look'[q] = look[q]
      BY <1>3, <2>2, Paths
    <3> QED BY <1>1, <1>2, <1>4, <2>2, <3>1 DEF RescanInv, Rescanned, tree, records
  <2> QED BY <2>1, <2>2
<1> QED BY <1>6, <1>7, <1>8, <1>9

LEMMA StatUpdated ==
    ASSUME TypeOK, NEW p \in Path, UpdateStat(p)
    PROVE  /\ \A q \in Path \ {p} : stat'[q] = stat[q]
           /\ file[p] # Absent => stat'[p] = "current"
           /\ file[p] = Absent => stat'[p] = stat[p] \/ (p = Top /\ dir)
<1>1. CASE Found(p) = "file"
  <2>1. stat' = [stat EXCEPT ![p] = "current"]
    BY <1>1 DEF UpdateStat
  <2> QED BY <1>1, <2>1, FoundIs DEF TypeOK
<1>2. CASE Found(p) = "directory"
  <2>1. stat' = [stat EXCEPT ![p] = "old"]
    BY <1>2 DEF UpdateStat
  <2> QED BY <1>2, <2>1, FoundIs, TopAbsent DEF TypeOK
<1>3. CASE Found(p) \notin {"file", "directory"}
  <2>1. stat' = [stat EXCEPT ![p] = stat[p]]
    BY <1>3 DEF UpdateStat
  <2> QED BY <1>3, <2>1, FoundIs DEF TypeOK
<1> QED BY <1>1, <1>2, <1>3

LEMMA StatDeleted ==
    ASSUME NEW S, DeleteStat(S)
    PROVE  \A q \in Path : stat'[q] = IF q \in S THEN "none" ELSE stat[q]
BY DEF DeleteStat

(* One step of a callback or of the scan. *)
LEMMA LookMoves ==
    ASSUME TypeOK, NEW g \in Looker, LookStep(g)
    PROVE  /\ UNCHANGED <<tree, starts, call, bounds>> /\ look[g].pc # "idle"
           /\ \A k \in Looker \ {g} : look'[k] = look[k]
           /\ look'[g].path = look[g].path
           /\ look[g].pc # "read" => look'[g].data = look[g].data
           /\ \/ /\ look[g].pc = "read" /\ UNCHANGED <<timers, records, group>>
                 /\ look'[g].data = file[look[g].path]
                 /\ look'[g].pc = IF file[look[g].path] = Absent THEN "end" ELSE "dispatch"
              \/ look[g].pc = "dispatch" /\ look'[g].pc = "stat" /\ UNCHANGED <<timers, stat>>
              \/ /\ look[g].pc = "stat" /\ look'[g].pc = "end" /\ UNCHANGED <<timers, cache, group>>
                 /\ \A q \in Path \ {look[g].path} : stat'[q] = stat[q]
                 /\ look[g].data = Absent => stat'[look[g].path] = "none"
                 /\ look[g].data # Absent => UpdateStat(look[g].path)
              \/ look[g].pc = "end" /\ look'[g].pc = "idle" /\ UNCHANGED <<records, group>>
<1>0. look[g].path \in Path /\ look \in [Looker -> LookState]
  BY DEF TypeOK, Looker, LookState
<1>1. CASE ReadFile(g)
  <2>1. /\ look[g].pc = "read" /\ UNCHANGED <<tree, timers, starts, records, call, group, bounds>>
        /\ look' = [look EXCEPT ![g].data = file[look[g].path],
                                ![g].pc = IF file[look[g].path] = Absent THEN "end" ELSE "dispatch"]
    BY <1>1 DEF ReadFile
  <2>2. /\ \A k \in Looker \ {g} : look'[k] = look[k]
        /\ look'[g].path = look[g].path /\ look'[g].data = file[look[g].path]
        /\ look'[g].pc = IF file[look[g].path] = Absent THEN "end" ELSE "dispatch"
    BY <1>0, <2>1 DEF LookState
  <2> QED BY <2>1, <2>2
<1>2. CASE Dispatch(g)
  BY <1>2, WentTo DEF Dispatch
<1>3. CASE RecordStat(g)
  <2>1. /\ look[g].pc = "stat" /\ Goto(g, "end")
        /\ UNCHANGED <<tree, timers, starts, cache, call, group, bounds>>
        /\ look[g].data = Absent => DeleteStat({look[g].path})
        /\ look[g].data # Absent => UpdateStat(look[g].path)
    BY <1>3 DEF RecordStat
  <2>2. \A q \in Path \ {look[g].path} : stat'[q] = stat[q]
    BY <1>0, <2>1, StatUpdated, StatDeleted
  <2>3. look[g].data = Absent => stat'[look[g].path] = "none"
    BY <1>0, <2>1, StatDeleted
  <2> QED BY <2>1, <2>2, <2>3, WentTo
<1>4. CASE EndLook(g)
  BY <1>4, WentTo DEF EndLook, records
<1> QED BY <1>1, <1>2, <1>3, <1>4 DEF LookStep

LEMMA TimerEnds ==
    ASSUME TypeOK, NEW p \in Path, LookStep(p)
    PROVE  \A q \in Path : Noticed(q) => Noticed(q)'
<1>1. ASSUME NEW q \in Path, Noticed(q) PROVE Noticed(q)'
  <2>1. CASE EndLook(p)
    <3>1. /\ entry' = [entry EXCEPT ![p] = "none"] /\ events' = events
          /\ stray' = [stray EXCEPT ![p] = IF entry[p] = "armed" THEN @ + 1 ELSE @]
      BY <2>1, Paths DEF EndLook, tree
    <3>2. CASE q = p
      BY <1>1, <3>1, <3>2 DEF Noticed, TypeOK
    <3>3. CASE q # p
      BY <1>1, <3>1, <3>3 DEF Noticed, TypeOK
    <3> QED BY <3>2, <3>3
  <2>2. CASE ReadFile(p) \/ Dispatch(p) \/ RecordStat(p)
    BY <1>1, <2>2 DEF ReadFile, Dispatch, RecordStat, Noticed, tree, timers
  <2> QED BY <2>1, <2>2 DEF LookStep
<1> QED BY <1>1

LEMMA RescanLook ==
    ASSUME RescanInv, NEW p \in Path, LookStep(p)
    PROVE  (Turns /\ Looks /\ (\A h \in Caller : CallFacts(h)) /\ \A q \in Path : Rescanned(q))'
<1>0. TypeOK /\ p \in Looker
  BY Paths DEF RescanInv, WatchInv
<1>1. /\ UNCHANGED <<tree, starts, call, bounds>> /\ look[p].pc # "idle"
      /\ \A k \in Looker \ {p} : look'[k] = look[k]
      /\ look'[p].path = p /\ look[p].path = p
      /\ look'[Scanner] = look[Scanner]
  BY <1>0, LookMoves, Paths DEF RescanInv, Looks
<1>2. mode = "up" /\ ~Calling /\ ~Calling' /\ mode' = mode
  BY <1>1, CallsStay DEF RescanInv, Turns, starts
<1>3. \A q \in Path : Noticed(q) => Noticed(q)'
  BY <1>0, TimerEnds
<1>4. Turns'
  BY <1>1, <1>2 DEF RescanInv, Turns, tree
<1>5. /\ look'[p].pc \in {"dispatch", "stat"} /\ look'[p].data = Absent /\ file[p] # Absent =>
            Noticed(p)'
      /\ file[p] # Absent /\ stat'[p] # "current" => Noticed(p)' \/ Tells(look'[p])
  <2>1. look[p].pc \in {"dispatch", "stat"} /\ look[p].data = Absent /\ file[p] # Absent =>
            Noticed(p)
    BY DEF RescanInv, Looks
  <2>2. file[p] # Absent /\ stat[p] # "current" => Noticed(p) \/ Tells(look[p])
    BY <1>2 DEF RescanInv, Rescanned, Calling
  <2>3. look[p].pc = "stat" /\ look[p].data # Absent /\ file[p] # Absent => stat'[p] = "current"
    BY <1>0, <1>1, LookMoves, StatUpdated
  <2> QED BY <1>0, <1>1, <1>3, <2>1, <2>2, <2>3, LookMoves DEF Tells, records
<1>6. \A q \in Path \ {p} : look'[q] = look[q] /\ stat'[q] = stat[q]
  <2>1. \A q \in Path \ {p} : look'[q] = look[q]
    BY <1>1, Paths
  <2>2. \A q \in Path \ {p} : stat'[q] = stat[q]
    BY <1>0, <1>1, LookMoves DEF records
  <2> QED BY <2>1, <2>2
<1>7. Looks'
  <2>1. file' = file /\ mode' = mode
    BY <1>1, <1>2 DEF tree
  <2>2. \A q \in Path : look'[q].path = q
    BY <1>1, <1>6 DEF RescanInv, Looks
  <2>3. \A q \in Path :
          look'[q].pc \in {"dispatch", "stat"} /\ look'[q].data = Absent /\ file[q] # Absent =>
              Noticed(q)'
    BY <1>3, <1>5, <1>6 DEF RescanInv, Looks
  <2> QED BY <1>1, <2>1, <2>2, <2>3 DEF RescanInv, Looks
<1>8. \A h \in Caller : CallFacts(h)'
  BY <1>1 DEF RescanInv, CallFacts, CanWrite, tree
<1>9. ASSUME NEW q \in Path PROVE Rescanned(q)'
  <2>1. CASE q = p
    BY <1>1, <1>2, <1>5, <2>1 DEF Rescanned, tree
  <2>2. CASE q # p
    BY <1>1, <1>2, <1>3, <1>6, <2>2 DEF RescanInv, Rescanned, tree
  <2> QED BY <2>1, <2>2
<1> QED BY <1>4, <1>7, <1>8, <1>9

LEMMA RescanScanLook ==
    ASSUME RescanInv, LookStep(Scanner)
    PROVE  (Turns /\ Looks /\ (\A h \in Caller : CallFacts(h)) /\ \A q \in Path : Rescanned(q))'
<1>0. TypeOK /\ Scanner \in Looker /\ scan.path \in Path
  BY Paths DEF RescanInv, WatchInv, TypeOK, LookState
<1>1. /\ UNCHANGED <<tree, starts, call, bounds>> /\ scan.pc # "idle"
      /\ scan'.path = scan.path
      /\ \A q \in Path : look'[q] = look[q]
  BY <1>0, LookMoves, Paths
<1>2. /\ mode \in {"changes", "deletions"} /\ mode' = mode
      /\ UNCHANGED <<dir, file, watched, events, todo>> /\ (Calling' <=> Calling)
  BY <1>1, CallsStay DEF RescanInv, Turns, starts, tree
<1>3. UNCHANGED timers
  BY DEF LookStep, ReadFile, Dispatch, RecordStat, EndLook
<1>4. Turns'
  BY <1>1, <1>2, <1>3 DEF RescanInv, Turns, timers
<1>5. /\ mode = "changes" =>
            /\ file[scan.path] # Absent
            /\ scan.pc \in {"dispatch", "stat"} => scan.data = file[scan.path]
      /\ mode # "changes" => file[scan.path] = Absent /\ scan.pc # "read" /\ scan.data = Absent
  BY <1>1 DEF RescanInv, Looks
<1>6. Looks'
  <2>1. /\ mode = "changes" /\ scan'.pc \in {"dispatch", "stat"} =>
              scan'.data = file[scan.path]
        /\ mode # "changes" => scan'.pc # "read" /\ scan'.data = Absent
    BY <1>0, <1>5, LookMoves
  <2>2. \A q \in Path : look[q].pc = "idle"
    BY <1>2 DEF RescanInv, Turns
  <2> QED BY <1>1, <1>2, <1>5, <2>1, <2>2 DEF RescanInv, Looks
<1>7. \A h \in Caller : CallFacts(h)'
  BY <1>1, <1>2 DEF RescanInv, CallFacts, CanWrite
<1>8. ASSUME NEW q \in Path PROVE Rescanned(q)'
  <2>1. ASSUME file[q] # Absent, stat'[q] # "current", stat[q] = "current" PROVE FALSE
    <3>1. q = scan.path /\ scan.pc = "stat"
      BY <1>0, <1>1, <2>1, LookMoves DEF records
    <3>2. UpdateStat(q)
      BY <1>0, <1>5, <2>1, <3>1, LookMoves
    <3> QED BY <1>0, <2>1, <3>2, StatUpdated
  <2>2. CASE mode = "changes"
    <3>1. Scanning(q, {"read", "dispatch", "stat"}) /\ file[q] # Absent /\ stat'[q] # "current"
             => scan'.path = q /\ scan'.pc \in {"dispatch", "stat"}
      <4>1. scan.pc = "stat" /\ scan.path = q /\ file[q] # Absent => stat'[q] = "current"
        BY <1>0, <1>5, <2>2, LookMoves, StatUpdated
      <4> QED BY <1>0, <1>1, <4>1, LookMoves
    <3> QED BY <1>1, <1>2, <2>1, <2>2, <3>1 DEF RescanInv, Rescanned
  <2>3. CASE mode # "changes"
    BY <1>1, <1>2, <2>1, <2>3 DEF RescanInv, Rescanned
  <2> QED BY <2>2, <2>3
<1> QED BY <1>4, <1>6, <1>7, <1>8

LEMMA RescanBoot ==
    ASSUME RescanInv, Boot
    PROVE  (Turns /\ Looks /\ (\A h \in Caller : CallFacts(h)) /\ \A q \in Path : Rescanned(q))'
<1>1. /\ mode = "down" /\ mode' = "changes" /\ todo' = Path
      /\ UNCHANGED <<dir, file, watched, events, timers, look, records, call>>
      /\ (Calling' <=> Calling)
  BY CallsStay DEF Boot, tree
<1>2. Turns'
  BY <1>1 DEF RescanInv, Turns, timers
<1>3. Looks'
  <2>1. scan.pc = "idle" /\ \A p \in Path : look[p].pc = "idle"
    BY <1>1 DEF RescanInv, Turns
  <2> QED BY <1>1, <2>1 DEF RescanInv, Looks
<1>4. (\A h \in Caller : CallFacts(h)') /\ \A q \in Path : Rescanned(q)'
  BY <1>1 DEF RescanInv, CallFacts, CanWrite, Rescanned
<1> QED BY <1>2, <1>3, <1>4

LEMMA RescanScan ==
    ASSUME RescanInv, NEW p \in Path, Scan(p)
    PROVE  (Turns /\ Looks /\ (\A h \in Caller : CallFacts(h)) /\ \A q \in Path : Rescanned(q))'
<1>0. TypeOK /\ Scanner \in Looker
  BY Paths DEF RescanInv, WatchInv
<1>1. /\ UNCHANGED <<dir, file, watched, events, timers, mode, records, call>>
      /\ (Calling' <=> Calling) /\ scan.pc = "idle" /\ todo' = todo \ {p}
      /\ ToDispatch(p) => LookAt(Scanner, p)
      /\ ~ToDispatch(p) => UNCHANGED look
  BY CallsStay DEF Scan, tree
<1>2. \A q \in Path : look'[q] = look[q]
  BY <1>0, <1>1, LookedAt, Paths
<1>3. ToDispatch(p) => /\ mode = "changes" \/ mode = "deletions"
                       /\ mode = "changes" => file[p] # Absent
                       /\ mode = "deletions" => file[p] = Absent
                       /\ scan'.path = p /\ scan'.data = Absent
                       /\ scan'.pc = IF mode = "changes" THEN "read" ELSE "dispatch"
  BY <1>0, <1>1, LookedAt, FoundIs DEF ToDispatch
<1>4. Turns'
  BY <1>1, <1>2, <1>3 DEF RescanInv, Turns, timers
<1>5. Looks'
  <2>1. \A q \in Path : Noticed(q)' <=> Noticed(q)
    BY <1>1 DEF Noticed, timers
  <2>2. scan'.pc # "idle" => ToDispatch(p)
    BY <1>1
  <2>3. scan'.pc # "idle" =>
            IF mode = "changes"
            THEN file[scan'.path] # Absent /\ scan'.pc = "read"
            ELSE file[scan'.path] = Absent /\ scan'.pc # "read" /\ scan'.data = Absent
    BY <1>3, <2>2
  <2> QED BY <1>1, <1>2, <2>1, <2>3 DEF RescanInv, Looks
<1>6. \A h \in Caller : CallFacts(h)'
  BY <1>1 DEF RescanInv, CallFacts, CanWrite
<1>7. ASSUME NEW q \in Path PROVE Rescanned(q)'
  <2>1. \A r \in Path : Noticed(r)' <=> Noticed(r)
    BY <1>1 DEF Noticed, timers
  <2>2. q = p /\ mode = "changes" /\ file[q] # Absent /\ stat[q] # "current" => ToDispatch(q)
    BY <1>0, FoundIs DEF ToDispatch
  <2> QED BY <1>1, <1>2, <1>3, <2>1, <2>2 DEF RescanInv, Rescanned, records
<1> QED BY <1>4, <1>5, <1>6, <1>7

LEMMA RescanNextPhase ==
    ASSUME RescanInv, NextPhase
    PROVE  (Turns /\ Looks /\ (\A h \in Caller : CallFacts(h)) /\ \A q \in Path : Rescanned(q))'
<1>1. /\ mode \in {"changes", "deletions", "watch"} /\ todo = {} /\ scan.pc = "idle"
      /\ UNCHANGED <<dir, file, events, timers, look, records, group, call>>
      /\ mode' # "up" => watched' = watched
      /\ mode' \in {"deletions", "watch", "up"}
      /\ (Calling' <=> Calling)
  <2>1. CASE mode = "changes"
    BY <2>1, CallsStay DEF NextPhase
  <2>2. CASE mode = "deletions"
    BY <2>2, CallsStay DEF NextPhase
  <2>3. CASE mode = "watch"
    BY <2>3, CallsStay DEF NextPhase
  <2> QED BY <2>1, <2>2, <2>3 DEF NextPhase
<1>2. /\ \A p \in Path : look[p].pc = "idle"
      /\ \A h \in Caller : call[h].pc \in {"idle", "redo"}
  BY <1>1 DEF RescanInv, Turns
<1>3. Turns'
  BY <1>1, <1>2 DEF RescanInv, Turns, timers
<1>4. Looks'
  BY <1>1, <1>2 DEF RescanInv, Looks
<1>5. \A h \in Caller : CallFacts(h)'
  BY <1>1 DEF RescanInv, CallFacts, CanWrite
<1>6. \A q \in Path : Rescanned(q)'
  BY <1>1, <1>2 DEF RescanInv, Rescanned, records
<1> QED BY <1>3, <1>4, <1>5, <1>6

LEMMA Crashed ==
    ASSUME TypeOK, Crash
    PROVE  /\ mode' = "down" /\ todo' = {} /\ ~watched' /\ events' = {}
           /\ UNCHANGED <<dir, file, stat, group>>
           /\ \A p \in Path : entry'[p] # "armed" /\ stray'[p] = 0 /\ cache'[p] = NoHash
           /\ \A g \in Looker : look'[g].pc = "idle" /\ look'[g].path = look[g].path
                                /\ look'[g].data = look[g].data
           /\ \A h \in Caller :
                 IF call[h].pc = "idle" THEN call'[h].pc = "idle" /\ call'[h] = NoCall
                 ELSE /\ call'[h].pc = "redo" /\ call'[h].path = call[h].path
                      /\ call'[h].data = call[h].data
           /\ (Calling' <=> Calling)
<1>1. /\ mode' = "down" /\ todo' = {} /\ ~watched' /\ events' = {}
      /\ UNCHANGED <<dir, file, stat, group>>
      /\ \A p \in Path : entry'[p] # "armed" /\ stray'[p] = 0 /\ cache'[p] = NoHash
  BY DEF Crash
<1>2. \A g \in Looker : look'[g].pc = "idle" /\ look'[g].path = look[g].path
                        /\ look'[g].data = look[g].data
  BY DEF Crash, TypeOK, Looker, LookState
<1>3. \A h \in Caller :
          IF call[h].pc = "idle" THEN call'[h].pc = "idle" /\ call'[h] = NoCall
          ELSE /\ call'[h].pc = "redo" /\ call'[h].path = call[h].path
               /\ call'[h].data = call[h].data
  BY DEF Crash, TypeOK, CallState, NoCall
<1>4. Calling' <=> Calling
  BY <1>3 DEF Calling
<1> QED BY <1>1, <1>2, <1>3, <1>4

LEMMA RescanCrash ==
    ASSUME RescanInv, Crash
    PROVE  (Turns /\ Looks /\ (\A h \in Caller : CallFacts(h)) /\ \A q \in Path : Rescanned(q))'
<1>0. TypeOK
  BY DEF RescanInv, WatchInv
<1>1. /\ \A g \in Looker : look'[g].pc = "idle" /\ look'[g].path = look[g].path
      /\ mode' = "down" /\ ~watched' /\ events' = {}
      /\ \A p \in Path : entry'[p] # "armed" /\ stray'[p] = 0
      /\ \A h \in Caller : /\ call'[h].pc \in {"idle", "redo"}
                           /\ call'[h].pc # "idle" => call[h].pc # "idle"
  BY <1>0, Crashed
<1>2. Turns'
  BY <1>1, Paths DEF RescanInv, Turns
<1>3. Looks'
  BY <1>1, Paths DEF RescanInv, Looks
<1>4. (\A h \in Caller : CallFacts(h)') /\ \A q \in Path : Rescanned(q)'
  BY <1>1 DEF CallFacts, Rescanned
<1> QED BY <1>2, <1>3, <1>4

(* What a call does, given what it has done before. *)

LEMMA CallTurn ==
    ASSUME RescanInv, Timed, NEW h \in Caller, CallStep(h)
    PROVE  /\ TypeOK /\ mode = "up" /\ mode' = mode /\ Calling /\ call[h].pc # "idle"
           /\ call[h].path \in Path /\ call[h].data \in File
           /\ UNCHANGED <<timers, look, starts, group, bounds>>
           /\ scan.pc = "idle" /\ \A p \in Path : look[p].pc = "idle"
           /\ \A k \in Caller \ {h} : call[k].pc = "idle" /\ call'[k] = call[k]
           /\ call'[h].path = call[h].path /\ call'[h].data = call[h].data
<1>0. TypeOK /\ call[h].path \in Path /\ call[h].data \in File
  BY DEF RescanInv, WatchInv, TypeOK, CallState
<1>1. PICK from, to : Step(h, from, to) /\ from # "idle"
  BY DEF CallStep, Redo, ClearParent, DropStat, MkdirAll, ClearPath, ClearStats, PutWrites,
     DeleteRemoves, DeleteFails, CallStat, CallMark, CleanupEmptyDirs
<1>2. /\ call[h].pc # "idle" /\ \A k \in Caller \ {h} : call'[k] = call[k]
      /\ call'[h].path = call[h].path /\ call'[h].data = call[h].data
  BY <1>0, <1>1, Stepped
<1>3. UNCHANGED <<timers, look, starts, group, bounds>>
  BY DEF CallStep, Redo, ClearParent, DropStat, MkdirAll, ClearPath, ClearStats, PutWrites,
     DeleteRemoves, DeleteFails, CallStat, CallMark, CleanupEmptyDirs
<1>4. mode = "up"
  <2>1. CASE Redo(h)
    BY <2>1 DEF Redo, Timed
  <2>2. CASE ~Redo(h)
    <3>1. call[h].pc # "redo"
      BY <1>0, <2>2, Stepped DEF CallStep, ClearParent, DropStat, MkdirAll, ClearPath, ClearStats,
         PutWrites, DeleteRemoves, DeleteFails, CallStat, CallMark, CleanupEmptyDirs
    <3> QED BY <1>2, <3>1 DEF RescanInv, Turns
  <2> QED BY <2>1, <2>2
<1> QED BY <1>0, <1>2, <1>3, <1>4 DEF RescanInv, Turns, Calling, starts

LEMMA FirstIs ==
    ASSUME TypeOK, NEW p \in Path, NEW f
    PROVE  /\ f # Absent => First(p, f) = "parent"
           /\ f = Absent => First(p, f) \in {"remove", "idle"}
           /\ First(p, f) = "idle" => f = Absent /\ file[p] = Absent
<1>1. CASE f # Absent
  BY <1>1 DEF First
<1>2. CASE f = Absent /\ Found(p) # "missing"
  <2>1. First(p, f) = "remove"
    BY <1>2 DEF First
  <2> QED BY <1>2, <2>1
<1>3. CASE f = Absent /\ Found(p) = "missing"
  <2>1. First(p, f) = "idle"
    BY <1>3 DEF First
  <2> QED BY <1>3, <2>1, FoundIs
<1> QED BY <1>1, <1>2, <1>3

LEMMA Redone ==
    ASSUME RescanInv, Timed, NEW h \in Caller, Redo(h)
    PROVE  /\ call[h].pc = "redo" /\ UNCHANGED <<dir, file, stat, cache>>
           /\ \/ group[call[h].path] # call[h].data /\ call'[h].pc = "idle"
              \/ call'[h].pc = "parent" /\ call[h].data # Absent
              \/ call'[h].pc = "remove" /\ call[h].data = Absent
              \/ call'[h].pc = "idle" /\ call[h].data = Absent /\ file[call[h].path] = Absent
<1>1. /\ TypeOK /\ call[h].path \in Path /\ UNCHANGED <<tree, records>>
      /\ Step(h, "redo", IF group[call[h].path] = call[h].data
                         THEN First(call[h].path, call[h].data) ELSE "idle")
  BY CallTurn DEF CallStep, Redo
<1> QED BY <1>1, FirstIs, Stepped DEF tree, records

LEMMA ParentCleared ==
    ASSUME RescanInv, Timed, NEW h \in Caller, ClearParent(h)
    PROVE  /\ call[h].pc = "parent" /\ UNCHANGED <<dir, stat, cache>>
           /\ \/ /\ call'[h].pc = IF call[h].data = Absent THEN "cleanup" ELSE "mkdir"
                 /\ file' = file /\ (call[h].path \in Leaf => file[Top] = Absent)
              \/ /\ call'[h].pc = "dropstat" /\ call[h].path \in Leaf /\ call[h].data # Absent
                 /\ ~dir /\ file[Top] # Absent /\ file'[Top] = Absent
                 /\ \A q \in Leaf : file'[q] = file[q]
<1>0. TypeOK /\ call[h].path \in Path /\ CallFacts(h) /\ UNCHANGED records
  BY CallTurn DEF CallStep, ClearParent, RescanInv
<1>1. CASE call[h].path \in Leaf /\ file[Top] # Absent
  <2>1. Step(h, "parent", "dropstat") /\ RemoveFile(Top)
    BY <1>1 DEF ClearParent
  <2>2. ~dir /\ call[h].data # Absent
    BY <1>0, <1>1, <2>1, TopAbsent, Stepped DEF CallFacts
  <2> QED BY <1>0, <1>1, <2>1, <2>2, Removed, Stepped, Paths DEF records
<1>2. CASE ~(call[h].path \in Leaf /\ file[Top] # Absent)
  <2>1. Step(h, "parent", IF call[h].data = Absent THEN "cleanup" ELSE "mkdir") /\ UNCHANGED tree
    BY <1>2 DEF ClearParent
  <2> QED BY <1>0, <1>2, <2>1, Stepped DEF records, tree
<1> QED BY <1>1, <1>2

LEMMA StatDropped ==
    ASSUME RescanInv, Timed, NEW h \in Caller, DropStat(h)
    PROVE  /\ call[h].pc = "dropstat" /\ call'[h].pc = "mkdir" /\ UNCHANGED <<dir, file, cache>>
           /\ call[h].path \in Leaf /\ ~dir /\ file[Top] = Absent /\ call[h].data # Absent
           /\ stat'[Top] = "none" /\ \A q \in Leaf : stat'[q] = stat[q]
<1>0. /\ TypeOK /\ CallFacts(h) /\ UNCHANGED <<tree, cache>> /\ DeleteStat({Top})
      /\ Step(h, "dropstat", IF call[h].data = Absent THEN "cleanup" ELSE "mkdir")
  BY CallTurn DEF CallStep, DropStat, RescanInv
<1> QED BY <1>0, Stepped, StatDeleted, Paths DEF CallFacts, tree

LEMMA DirsMade ==
    ASSUME RescanInv, Timed, NEW h \in Caller, MkdirAll(h)
    PROVE  /\ call[h].pc = "mkdir" /\ call'[h].pc = "clear" /\ UNCHANGED <<file, stat, cache>>
           /\ call[h].data # Absent /\ (call[h].path \in Leaf => file[Top] = Absent)
           /\ IF call[h].path \in Leaf THEN dir' ELSE dir' = dir
<1>0. TypeOK /\ CallFacts(h) /\ UNCHANGED records
  BY CallTurn DEF CallStep, MkdirAll, RescanInv
<1>1. call[h].pc = "mkdir" /\ call[h].data # Absent /\ (call[h].path \in Leaf => file[Top] = Absent)
  BY <1>0, Stepped DEF MkdirAll, CallFacts
<1>2. Step(h, "mkdir", "clear") /\ IF call[h].path \in Leaf THEN MakeDir ELSE UNCHANGED tree
  BY <1>1 DEF MkdirAll
<1> QED BY <1>0, <1>1, <1>2, Stepped, DirMade DEF records, tree

LEMMA PathCleared ==
    ASSUME RescanInv, Timed, NEW h \in Caller, ClearPath(h)
    PROVE  /\ call[h].pc = "clear" /\ call[h].data # Absent /\ UNCHANGED <<stat, cache>>
           /\ \/ /\ call'[h].pc = "clearstats" /\ call[h].path = Top /\ dir /\ ~dir'
                 /\ file[Top] = Absent /\ \A q \in Path : file'[q] = Absent
              \/ call'[h].pc = "write" /\ CanWrite(call[h].path) /\ UNCHANGED <<dir, file>>
<1>0. TypeOK /\ call[h].path \in Path /\ CallFacts(h) /\ UNCHANGED records
  BY CallTurn DEF CallStep, ClearPath, RescanInv
<1>1. CASE call[h].path = Top /\ dir
  <2>1. Step(h, "clear", "clearstats") /\ RemoveDir
    BY <1>1 DEF ClearPath
  <2>2. call[h].pc = "clear" /\ call'[h].pc = "clearstats"
    BY <1>0, <2>1, Stepped
  <2>3. call[h].data # Absent
    BY <1>0, <2>2 DEF CallFacts
  <2>4. ~dir' /\ \A q \in Path : file'[q] = Absent
    BY <1>0, <1>1, <2>1, DirRemoved
  <2> QED BY <1>0, <1>1, <2>2, <2>3, <2>4, TopAbsent DEF records
<1>2. CASE ~(call[h].path = Top /\ dir)
  <2>1. Step(h, "clear", "write") /\ UNCHANGED tree
    BY <1>2 DEF ClearPath
  <2>2. call[h].pc = "clear" /\ call'[h].pc = "write"
    BY <1>0, <2>1, Stepped
  <2> QED BY <1>0, <1>2, <2>1, <2>2, Paths DEF records, CallFacts, tree, CanWrite
<1> QED BY <1>1, <1>2

LEMMA StatsCleared ==
    ASSUME RescanInv, Timed, NEW h \in Caller, ClearStats(h)
    PROVE  /\ call[h].pc = "clearstats" /\ call'[h].pc = "write" /\ UNCHANGED <<dir, file, cache>>
           /\ call[h].path = Top /\ call[h].data # Absent
           /\ ~dir /\ \A q \in Path : file[q] = Absent /\ stat'[q] = "none"
<1>0. /\ TypeOK /\ CallFacts(h) /\ UNCHANGED <<tree, cache>> /\ DeleteStat(Path)
      /\ Step(h, "clearstats", "write")
  BY CallTurn DEF CallStep, ClearStats, RescanInv
<1>1. /\ call[h].pc = "clearstats" /\ call'[h].pc = "write"
      /\ call[h].path = Top /\ call[h].data # Absent /\ ~dir /\ file[Top] = Absent
  BY <1>0, Stepped DEF CallFacts
<1>2. \A q \in Path : file[q] = Absent
  BY <1>0, <1>1, Paths DEF TypeOK
<1> QED BY <1>0, <1>1, <1>2, StatDeleted DEF tree

LEMMA PutWritten ==
    ASSUME RescanInv, Timed, NEW h \in Caller, PutWrites(h)
    PROVE  /\ call[h].pc = "write" /\ call'[h].pc = "stat" /\ UNCHANGED <<dir, cache>>
           /\ CanWrite(call[h].path) /\ call[h].data # Absent
           /\ file'[call[h].path] = call[h].data /\ stat'[call[h].path] # "current"
           /\ \A q \in Path \ {call[h].path} : file'[q] = file[q] /\ stat'[q] = stat[q]
<1>0. TypeOK /\ call[h].path \in Path /\ CallFacts(h) /\ UNCHANGED cache
  BY CallTurn DEF CallStep, PutWrites, RescanInv
<1>1. CanWrite(call[h].path) /\ call[h].pc = "write" /\ call[h].data # Absent
  BY <1>0, Stepped DEF CallFacts, PutWrites
<1>2. Step(h, "write", "stat") /\ WriteFile(call[h].path, call[h].data)
  BY <1>1 DEF PutWrites
<1> QED BY <1>0, <1>1, <1>2, Stepped, Written

LEMMA Deleted ==
    ASSUME RescanInv, Timed, NEW h \in Caller, DeleteRemoves(h)
    PROVE  /\ call[h].pc = "remove" /\ call'[h].pc = "stat" /\ UNCHANGED <<stat, cache>>
           /\ call[h].data = Absent /\ file'[call[h].path] = Absent /\ (dir' => dir)
           /\ \A q \in Path \ {call[h].path} : file'[q] = file[q]
           /\ call[h].path \in Leaf => file[Top] = Absent
<1>0. /\ TypeOK /\ call[h].path \in Path /\ CallFacts(h) /\ UNCHANGED records
      /\ Step(h, "remove", "stat")
  BY CallTurn DEF CallStep, DeleteRemoves, RescanInv
<1>1. call[h].pc = "remove" /\ call'[h].pc = "stat" /\ call[h].data = Absent
  BY <1>0, Stepped DEF CallFacts
<1>2. CASE file[call[h].path] # Absent /\ RemoveFile(call[h].path)
  <2>1. call[h].path \in Leaf => file[Top] = Absent
    BY <1>0, <1>2, TopAbsent DEF TypeOK
  <2> QED BY <1>0, <1>1, <1>2, <2>1, Removed DEF records
<1>3. CASE call[h].path = Top /\ EmptyDir /\ RemoveDir
  <2>1. \A q \in Path : file[q] = Absent
    BY <1>0, <1>3, TopAbsent, Paths DEF EmptyDir
  <2> QED BY <1>0, <1>1, <1>3, <2>1, DirRemoved DEF records, EmptyDir
<1> QED BY <1>2, <1>3 DEF DeleteRemoves

LEMMA NotDeleted ==
    ASSUME RescanInv, Timed, NEW h \in Caller, DeleteFails(h)
    PROVE  /\ call[h].pc = "remove" /\ call'[h].pc = "idle" /\ UNCHANGED <<dir, file, stat, cache>>
           /\ call[h].data = Absent /\ file[call[h].path] = Absent
<1>0. /\ TypeOK /\ CallFacts(h) /\ UNCHANGED <<tree, records>> /\ Step(h, "remove", "idle")
      /\ file[call[h].path] = Absent
  BY CallTurn DEF CallStep, DeleteFails, RescanInv
<1> QED BY <1>0, Stepped DEF CallFacts, tree, records

LEMMA StatStored ==
    ASSUME RescanInv, Timed, NEW h \in Caller, CallStat(h)
    PROVE  /\ call[h].pc = "stat" /\ call'[h].pc = "mark" /\ UNCHANGED <<dir, file, cache>>
           /\ file[call[h].path] = call[h].data
           /\ stat'[call[h].path] = IF call[h].data = Absent THEN "none" ELSE "current"
           /\ \A q \in Path \ {call[h].path} : stat'[q] = stat[q]
<1>0. /\ TypeOK /\ call[h].path \in Path /\ CallFacts(h) /\ UNCHANGED <<tree, cache>>
      /\ Step(h, "stat", "mark")
  BY CallTurn DEF CallStep, CallStat, RescanInv
<1>1. call[h].pc = "stat" /\ call'[h].pc = "mark" /\ file[call[h].path] = call[h].data
  BY <1>0, Stepped DEF CallFacts
<1>2. CASE call[h].data = Absent
  <2>1. DeleteStat({call[h].path})
    BY <1>2 DEF CallStat
  <2> QED BY <1>0, <1>1, <1>2, <2>1, StatDeleted DEF tree
<1>3. CASE call[h].data # Absent
  <2>1. UpdateStat(call[h].path)
    BY <1>3 DEF CallStat
  <2> QED BY <1>0, <1>1, <1>3, <2>1, StatUpdated DEF tree
<1> QED BY <1>2, <1>3

LEMMA CallMarked ==
    ASSUME RescanInv, Timed, NEW h \in Caller, CallMark(h)
    PROVE  /\ call[h].pc = "mark" /\ UNCHANGED <<dir, file, stat>>
           /\ call'[h].pc = IF call[h].data = Absent THEN "parent" ELSE "idle"
           /\ file[call[h].path] = call[h].data
           /\ call[h].data = Absent /\ call[h].path \in Leaf => file[Top] = Absent
           /\ cache'[call[h].path] = DeliverHash(call[h].data)
           /\ \A q \in Path \ {call[h].path} : cache'[q] = cache[q]
<1>0. /\ TypeOK /\ call[h].path \in Path /\ CallFacts(h) /\ UNCHANGED <<tree, stat>>
      /\ Step(h, "mark", IF call[h].data = Absent THEN "parent" ELSE "idle")
      /\ cache' = MarkProcessed(cache, call[h].path, DeliverHash(call[h].data))
  BY CallTurn DEF CallStep, CallMark, RescanInv
<1> QED BY <1>0, Stepped DEF CallFacts, tree, MarkProcessed, TypeOK

LEMMA CleanedUp ==
    ASSUME RescanInv, Timed, NEW h \in Caller, CleanupEmptyDirs(h)
    PROVE  /\ call[h].pc = "cleanup" /\ call'[h].pc = "idle" /\ UNCHANGED <<stat, cache>>
           /\ call[h].data = Absent /\ file[call[h].path] = Absent /\ (dir' => dir)
           /\ \A q \in Path : file'[q] = file[q]
<1>0. /\ TypeOK /\ CallFacts(h) /\ UNCHANGED records /\ Step(h, "cleanup", "idle")
  BY CallTurn DEF CallStep, CleanupEmptyDirs, RescanInv
<1>1. call[h].pc = "cleanup" /\ call'[h].pc = "idle" /\ call[h].data = Absent
      /\ file[call[h].path] = Absent
  BY <1>0, Stepped DEF CallFacts
<1>2. CASE UNCHANGED tree
  BY <1>0, <1>1, <1>2 DEF records, tree
<1>3. CASE EmptyDir /\ RemoveDir
  <2>1. \A q \in Path : file[q] = Absent
    BY <1>0, <1>3, TopAbsent, Paths DEF EmptyDir
  <2> QED BY <1>0, <1>1, <1>3, <2>1, DirRemoved DEF records, EmptyDir
<1> QED BY <1>2, <1>3 DEF CleanupEmptyDirs

(* While a call runs, the only file without a current stat is the one that the
   call has just written. *)
LEMMA CallWrites ==
    ASSUME RescanInv, Timed, NEW h \in Caller, CallStep(h)
    PROVE  \A q \in Path : file[q] # Absent /\ stat[q] # "current" =>
               call[h].pc = "stat" /\ call[h].path = q /\ call[h].data # Absent
<1>1. mode = "up" /\ Calling /\ \A k \in Caller \ {h} : call[k].pc = "idle"
  BY CallTurn
<1> QED BY <1>1 DEF RescanInv, Rescanned

LEMMA RescanCall ==
    ASSUME RescanInv, Timed, NEW h \in Caller, CallStep(h)
    PROVE  (Turns /\ Looks /\ (\A k \in Caller : CallFacts(k)) /\ \A q \in Path : Rescanned(q))'
<1> DEFINE p == call[h].path
<1> DEFINE Writes == \A q \in Path : file'[q] # Absent /\ stat'[q] # "current" =>
                         call'[h].pc = "stat" /\ call'[h].path = q /\ call'[h].data # Absent
<1>1. /\ TypeOK /\ mode = "up" /\ mode' = mode /\ p \in Path
      /\ UNCHANGED <<timers, look, starts, group, bounds>>
      /\ scan.pc = "idle" /\ \A q \in Path : look[q].pc = "idle"
      /\ \A k \in Caller \ {h} : call[k].pc = "idle" /\ call'[k] = call[k]
      /\ call'[h].path = p /\ call'[h].data = call[h].data
  BY CallTurn
<1>2. Turns'
  BY <1>1 DEF Turns
<1>3. Looks'
  BY <1>1 DEF RescanInv, Looks
<1>4. \A k \in Caller \ {h} : CallFacts(k)'
  BY <1>1 DEF CallFacts
<1>5. \A q \in Path : file[q] # Absent /\ stat[q] # "current" =>
          call[h].pc = "stat" /\ p = q /\ call[h].data # Absent
  BY CallWrites
<1>6. CallFacts(h)' /\ Writes
  <2>1. CASE Redo(h)
    BY <1>1, <1>5, <2>1, Redone DEF CallFacts
  <2>2. CASE ClearParent(h)
    <3>1. CallFacts(h)
      BY DEF RescanInv
    <3>2. CASE file' = file /\ (p \in Leaf => file[Top] = Absent)
               /\ call'[h].pc = IF call[h].data = Absent THEN "cleanup" ELSE "mkdir"
      BY <1>1, <1>5, <2>2, <3>1, <3>2, ParentCleared DEF CallFacts
    <3>3. CASE /\ call'[h].pc = "dropstat" /\ p \in Leaf /\ call[h].data # Absent
               /\ ~dir /\ file[Top] # Absent /\ file'[Top] = Absent
               /\ \A q \in Leaf : file'[q] = file[q]
      BY <1>1, <1>5, <2>2, <3>3, ParentCleared, Paths DEF CallFacts
    <3> QED BY <2>2, <3>2, <3>3, ParentCleared
  <2>3. CASE DropStat(h)
    BY <1>1, <1>5, <2>3, StatDropped, Paths DEF CallFacts
  <2>4. CASE MkdirAll(h)
    BY <1>1, <1>5, <2>4, DirsMade DEF CallFacts
  <2>5. CASE ClearPath(h)
    BY <1>1, <1>5, <2>5, PathCleared, Paths DEF CallFacts, CanWrite
  <2>6. CASE ClearStats(h)
    BY <1>1, <1>5, <2>6, StatsCleared DEF CallFacts, CanWrite
  <2>7. CASE PutWrites(h)
    BY <1>1, <1>5, <2>7, PutWritten DEF CallFacts
  <2>8. CASE DeleteRemoves(h)
    BY <1>1, <1>5, <2>8, Deleted, Paths DEF CallFacts
  <2>9. CASE DeleteFails(h)
    BY <1>1, <1>5, <2>9, NotDeleted DEF CallFacts
  <2>10. CASE CallStat(h)
    BY <1>1, <1>5, <2>10, StatStored, CallTurn DEF CallFacts, RescanInv
  <2>11. CASE CallMark(h)
    BY <1>1, <1>5, <2>11, CallMarked DEF CallFacts
  <2>12. CASE CleanupEmptyDirs(h)
    BY <1>1, <1>5, <2>12, CleanedUp DEF CallFacts
  <2> QED BY <2>1, <2>2, <2>3, <2>4, <2>5, <2>6, <2>7, <2>8, <2>9, <2>10, <2>11, <2>12 DEF CallStep
<1>7. \A q \in Path : Rescanned(q)'
  BY <1>6 DEF Rescanned
<1> QED BY <1>2, <1>3, <1>4, <1>6, <1>7

LEMMA Began ==
    ASSUME TypeOK, Timed, NEW h \in Caller, NEW p \in Path, NEW f \in File, Begin(h, p, f)
    PROVE  /\ AtRest /\ UNCHANGED <<tree, timers, look, starts, records, edits, crashes>>
           /\ Told(p, f) /\ Fresh(p, f)
           /\ \A k \in Caller : call[k].pc = "idle"
           /\ \A k \in Caller \ {h} : call'[k] = call[k]
           /\ \/ call'[h].pc = "idle" /\ cache[p] = DeliverHash(f)
              \/ /\ call'[h].pc = First(p, f) /\ call'[h].path = p /\ call'[h].data = f
                 /\ cache[p] # DeliverHash(f)
<1>1. AtRest /\ \A k \in Caller : call[k].pc = "idle"
  BY DEF Begin, Timed, AtRest, Calling
<1>2. /\ UNCHANGED <<tree, timers, look, starts, records, edits, crashes>>
      /\ Told(p, f) /\ Fresh(p, f)
      /\ call' = [call EXCEPT ![h] = IF IsRepeating(cache, p, DeliverHash(f)) THEN NoCall
                                     ELSE [pc |-> First(p, f), path |-> p, data |-> f]]
  BY DEF Begin
<1>3. \A k \in Caller \ {h} : call'[k] = call[k]
  BY <1>2 DEF TypeOK
<1>4. CASE cache[p] = DeliverHash(f)
  <2>1. call'[h] = NoCall
    BY <1>2, <1>4 DEF TypeOK, IsRepeating
  <2> QED BY <1>1, <1>2, <1>3, <1>4, <2>1 DEF NoCall
<1>5. CASE cache[p] # DeliverHash(f)
  <2>1. call'[h] = [pc |-> First(p, f), path |-> p, data |-> f]
    BY <1>2, <1>5 DEF TypeOK, IsRepeating
  <2> QED BY <1>1, <1>2, <1>3, <1>5, <2>1
<1> QED BY <1>4, <1>5

LEMMA RescanBegin ==
    ASSUME RescanInv, Timed, NEW h \in Caller, NEW p \in Path, NEW f \in File, Begin(h, p, f)
    PROVE  (Turns /\ Looks /\ (\A k \in Caller : CallFacts(k)) /\ \A q \in Path : Rescanned(q))'
<1>0. TypeOK
  BY DEF RescanInv, WatchInv
<1>1. /\ AtRest /\ UNCHANGED <<dir, file, watched, events, timers, look, starts, records>>
      /\ \A k \in Caller : call[k].pc = "idle"
      /\ \A k \in Caller \ {h} : call'[k] = call[k]
  BY <1>0, Began DEF tree
<1>11. call'[h].pc = "idle" \/ (call'[h].pc = First(p, f) /\ call'[h].path = p /\ call'[h].data = f)
  BY <1>0, Began DEF tree
<1>2. /\ mode = "up" /\ mode' = "up" /\ scan.pc = "idle" /\ \A q \in Path : look[q].pc = "idle"
      /\ \A q \in Path : ~Noticed(q)
  BY <1>0, <1>1, Paths DEF AtRest, Quiet, starts, Noticed, TypeOK, Looker
<1>3. Turns'
  BY <1>1, <1>2 DEF Turns
<1>4. Looks'
  BY <1>1, <1>2 DEF RescanInv, Looks
<1>5. \A k \in Caller : CallFacts(k)'
  <2>1. \A k \in Caller \ {h} : CallFacts(k)'
    BY <1>1 DEF CallFacts
  <2>2. CASE call'[h].pc = "idle"
    BY <2>1, <2>2 DEF CallFacts
  <2>3. CASE call'[h].pc = First(p, f) /\ call'[h].path = p /\ call'[h].data = f
    <3>1. /\ f # Absent => call'[h].pc = "parent"
          /\ f = Absent => call'[h].pc \in {"remove", "idle"}
      BY <1>0, <2>3, FirstIs
    <3> QED BY <2>1, <2>3, <3>1 DEF CallFacts
  <2> QED BY <1>11, <2>2, <2>3
<1>6. \A q \in Path : file[q] # Absent => stat[q] = "current"
  BY <1>1, <1>2 DEF RescanInv, Rescanned, Tells
<1>7. \A q \in Path : Rescanned(q)'
  BY <1>1, <1>6 DEF Rescanned, records
<1> QED BY <1>3, <1>4, <1>5, <1>7

LEMMA RescanInit == Init => RescanInv
<1> SUFFICES ASSUME Init PROVE RescanInv
  OBVIOUS
<1>1. /\ mode = "down" /\ events = {} /\ ~watched /\ \A p \in Path : file[p] = Absent
      /\ \A p \in Path : entry[p] # "armed" /\ stray[p] = 0
  BY DEF Init
<1>2. /\ \A p \in Path : look[p].pc = "idle" /\ look[p].path = p
      /\ scan.pc = "idle"
  BY Paths DEF Init, NoLook, Looker
<1>3. \A h \in Caller : call[h].pc = "idle"
  BY DEF Init, NoCall
<1>4. Turns /\ Looks
  BY <1>1, <1>2, <1>3 DEF Turns, Looks, Calling
<1>5. (\A h \in Caller : CallFacts(h)) /\ \A p \in Path : Rescanned(p)
  BY <1>1, <1>3 DEF CallFacts, Rescanned
<1> QED BY <1>4, <1>5, WatchInit DEF RescanInv

LEMMA RescanStep == Timed /\ RescanInv /\ [Next]_vars => RescanInv'
<1> SUFFICES ASSUME Timed, RescanInv, [Next]_vars PROVE RescanInv'
  OBVIOUS
<1>0. WatchInv' /\ DOMAIN look = Path \cup {Scanner}
  BY WatchStep DEF RescanInv, WatchInv, TypeOK
<1>1. CASE UNCHANGED vars
  <2>1. UNCHANGED <<dir, file, watched, events, timers, look, starts, records, call>>
        /\ (Calling' <=> Calling)
    BY <1>1, CallsStay DEF vars, tree
  <2>2. Turns' /\ Looks'
    BY <2>1 DEF RescanInv, Turns, Looks, Noticed, timers, starts
  <2>3. (\A h \in Caller : CallFacts(h)') /\ \A q \in Path : Rescanned(q)'
    BY <2>1 DEF RescanInv, CallFacts, CanWrite, Rescanned, Noticed, Tells, timers, starts, records
  <2> QED BY <1>0, <2>2, <2>3 DEF RescanInv
<1>2. CASE UserStep
  BY <1>0, <1>2, RescanUser DEF RescanInv
<1>3. CASE \E e \in events : HandleEvent(e)
  BY <1>0, <1>3, RescanEvent DEF RescanInv
<1>4. CASE \E p \in Path : FireTimer(p)
  BY <1>0, <1>4, RescanTimer DEF RescanInv
<1>5. CASE \E g \in DOMAIN look : LookStep(g)
  BY <1>0, <1>5, RescanLook, RescanScanLook DEF RescanInv
<1>6. CASE \E h \in Caller : CallStep(h)
  BY <1>0, <1>6, RescanCall DEF RescanInv
<1>7. CASE \E h \in Caller : \E p \in Path, f \in Content \cup {Absent} : Begin(h, p, f)
  BY <1>0, <1>7, RescanBegin DEF File, RescanInv
<1>8. CASE Boot
  BY <1>0, <1>8, RescanBoot DEF RescanInv
<1>9. CASE \E p \in Path : Scan(p)
  BY <1>0, <1>9, RescanScan DEF RescanInv
<1>10. CASE NextPhase
  BY <1>0, <1>10, RescanNextPhase DEF RescanInv
<1>11. CASE Crash
  BY <1>0, <1>11, RescanCrash DEF RescanInv
<1> QED BY <1>1, <1>2, <1>3, <1>4, <1>5, <1>6, <1>7, <1>8, <1>9, <1>10, <1>11 DEF Next, StartStep

(* At rest the stored stat of every file is that of the file: where users and
   the hub leave the peer the time that Timed names, whatever becomes a file or
   a directory in between, and wherever the process ends (updateFileStat). *)
THEOREM StatsAreCurrent == ASSUME Timed PROVE Spec => []NothingToRescan
<1>1. RescanInv => NothingToRescan
  <2> SUFFICES ASSUME RescanInv, AtRest, NEW p \in Path, file[p] # Absent
               PROVE  stat[p] = "current"
    BY DEF NothingToRescan
  <2>1. /\ mode = "up" /\ look[p].pc = "idle" /\ ~Noticed(p)
        /\ \A h \in Caller : call[h].pc = "idle"
    BY Paths DEF AtRest, Quiet, Calling, Noticed, RescanInv, WatchInv, TypeOK, Looker
  <2> QED BY <2>1 DEF RescanInv, Rescanned, Tells
<1>2. RescanInv /\ [Next]_vars => RescanInv'
  BY RescanStep
<1> QED BY <1>1, <1>2, RescanInit, PTL DEF Spec
=============================================================================
