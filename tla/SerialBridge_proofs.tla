------------------------ MODULE SerialBridge_proofs -------------------------
(***************************************************************************)
(* StorageBridge with one edit at a time (Editing = "serial"), for any     *)
(* number of peers, groups, contents, edits, faults and overlapping        *)
(* goroutines: it implements SyncGroup's replicated register, it loses no  *)
(* edit when it is stopped, at rest every directory has the last edit, and *)
(* a failure costs one target.                                             *)
(***************************************************************************)
EXTENDS StorageBridge_proofs, FiniteSetTheorems

USE HashesDistinct, ContentAssumption, BoundAssumption, NumPeersAssumption

Last(q) == latest[Group[q]]

Offering == {"offer", "write", "pstat", "pmark"}

(* What a goroutine does for its peer t[1] it does with the last edit. *)
Carries(t) ==
    LET r == thread[t] IN
    /\ r.pc = "idle" => r = Idle
    /\ r.pc # "idle" => disk[t[1]] = Last(t[1])
    /\ r.pc = "read" => disk[t[1]] # Absent
    /\ r.pc \notin {"idle", "read"} => r.data = Last(t[1])
    /\ r.pc \in Offering => r.todo \subseteq Targets(t[1])
    /\ r.pc \in Offering \ {"offer"} => r.at \in Targets(t[1])
    /\ r.pc \notin Offering \ {"offer"} => r.at = 0
    /\ r.pc \in {"pstat", "pmark"} => disk[r.at] = Last(t[1])

(* What was noticed of a directory, or would be at the next start, is the
   last edit. *)
Noticed(q) == pending[q] \/ Detectable(q) => disk[q] = Last(q)

OnlyLast ==
    /\ \A t \in Thread : Carries(t)
    /\ \A q \in Peer : Noticed(q)

LastInv == TypeInv /\ OnlyLast

(* What a step of the bridge does to the directories: an edit stays the last
   one, and a file that changes becomes it. *)
Follows ==
    /\ latest' = latest
    /\ \A q \in Peer : disk'[q] \in {disk[q], Last(q)}

-----------------------------------------------------------------------------
(* Every goroutine carries the last edit. *)

LEMMA IdleCarries ==
    ASSUME NEW t \in Thread
    PROVE  (thread[t] = Idle => Carries(t)) /\ (thread'[t] = Idle => Carries(t)')
<1>1. Idle.pc = "idle" /\ Idle.at = 0
  BY DEF Idle
<1> QED BY <1>1 DEF Carries, Offering

LEMMA LastInit == Init => LastInv
<1> SUFFICES ASSUME Init PROVE LastInv
  OBVIOUS
<1>1. \A t \in Thread : thread[t] = Idle
  BY DEF Init
<1>2. \A t \in Thread : Carries(t)
  BY <1>1, IdleCarries
<1>3. \A q \in Peer : Group[q] \in Groups
  BY DEF Groups
<1>4. \A q \in Peer : Noticed(q)
  BY <1>3 DEF Init, Noticed, Last
<1> QED BY <1>2, <1>4, TypeInit DEF LastInv, OnlyLast

(* A goroutine that does not move goes on carrying the last edit. *)
LEMMA CarriesStays ==
    ASSUME LastInv, Follows, NEW t \in Thread, thread'[t] = thread[t]
    PROVE  Carries(t)'
<1>1. /\ t[1] \in Peer /\ thread[t] \in ThreadState
      /\ Carries(t)
  BY DEF Thread, LastInv, OnlyLast, TypeInv, TypeOK
<1>2. \A q \in Targets(t[1]) : q \in Peer /\ Group[q] = Group[t[1]]
  BY DEF Targets
<1>3. thread[t].pc \in {"pstat", "pmark"} => disk'[thread[t].at] = Last(t[1])
  BY <1>1, <1>2 DEF Carries, Follows, Last, Offering
<1> QED BY <1>1, <1>3 DEF Carries, Follows, Last

(* The files and stats that a step leaves alone stay noticed as they were. *)
LEMMA NoticedStays ==
    ASSUME LastInv, Follows, NEW q \in Peer,
           stat'[q] = stat[q] \/ disk'[q] = Last(q),
           pending'[q] => pending[q] \/ disk'[q] = Last(q)
    PROVE  Noticed(q)'
BY DEF LastInv, OnlyLast, Noticed, Detectable, Follows, Last

(* Edits are made when everything has taken in the one before. *)
LEMMA LastUser ==
    ASSUME LastInv, Editing = "serial", NEW p \in Peer, UserStep(p)
    PROVE  OnlyLast'
<1>1. Group[p] \in Groups /\ \A q \in Peer : Group[q] \in Groups
  BY DEF Groups
<1>2. AtRest
  BY DEF UserStep, UserWrite, UserDelete, UserTouch, Edit, MayEdit
<1>3. \A t \in Thread : thread[t] = Idle
  BY <1>2 DEF AtRest, LastInv, OnlyLast, Carries
<1>4. \A t \in Thread : Carries(t)'
  BY <1>3, IdleCarries DEF UserStep, UserWrite, UserDelete, UserTouch, Edit
<1>5. ASSUME NEW f \in File, Edit(p, f), NEW q \in Peer
      PROVE  Noticed(q)'
  <2>1. /\ disk' = [disk EXCEPT ![p] = f]
        /\ latest' = [latest EXCEPT ![Group[p]] = f]
        /\ \A r \in Peer : r # p => stat'[r] = stat[r] /\ pending'[r] = pending[r]
    BY <1>5 DEF Edit, WriteFile, LastInv, TypeInv, TypeOK
  <2>2. Group[q] = Group[p] => ~pending[q] /\ ~Detectable(q)
    BY <1>2, <1>5 DEF Edit, MayEdit, Settled, AtRest
  <2>3. CASE q = p
    BY <1>1, <2>1, <2>3 DEF Noticed, Last, LastInv, TypeInv, TypeOK
  <2>4. CASE q # p
    <3>1. disk'[q] = disk[q] /\ (Detectable(q)' <=> Detectable(q))
      BY <2>1, <2>4 DEF Detectable, LastInv, TypeInv, TypeOK
    <3>2. Group[q] # Group[p] => Last(q)' = Last(q)
      BY <1>1, <2>1 DEF Last, LastInv, TypeInv, TypeOK
    <3> QED BY <2>1, <2>2, <2>4, <3>1, <3>2 DEF Noticed, LastInv, OnlyLast
  <2> QED BY <2>3, <2>4
<1>6. ASSUME UserTouch(p), NEW q \in Peer
      PROVE  Noticed(q)'
  <2>1. disk' = disk /\ latest' = latest /\ disk[p] = Last(p)
    BY <1>6 DEF UserTouch, WriteFile, Last, LastInv, TypeInv, TypeOK
  <2>2. q # p => stat'[q] = stat[q] /\ pending'[q] = pending[q]
    BY <1>6 DEF UserTouch, WriteFile, LastInv, TypeInv, TypeOK
  <2>3. Follows
    BY <2>1 DEF Follows
  <2> QED BY <2>1, <2>2, <2>3, NoticedStays
<1>7. \A q \in Peer : Noticed(q)'
  <2>1. ASSUME NEW c \in Writable, UserWrite(p, c)
        PROVE  c \in File /\ Edit(p, c)
    BY <2>1 DEF UserWrite, File
  <2>2. UserDelete(p) => Absent \in File /\ Edit(p, Absent)
    BY DEF UserDelete, File
  <2> QED BY <1>5, <1>6, <2>1, <2>2 DEF UserStep
<1> QED BY <1>4, <1>7 DEF OnlyLast

(* A goroutine that starts has an event, or a stat that differs from its
   file, for its reason. *)
LEMMA LastStart ==
    ASSUME LastInv,
           \/ \E p \in Peer : Scan(p) \/ Evict(p)
           \/ \E p \in Peer, s \in Slot : FireTimer(p, s)
           \/ Boot \/ Crash
    PROVE  OnlyLast' /\ Follows
<1>1. UNCHANGED <<disk, stat, latest>>
  BY DEF Scan, ScanChanges, ScanDeletions, Evict, FireTimer, Boot, Crash
<1>2. Follows
  BY <1>1 DEF Follows
<1>3. \A q \in Peer : pending'[q] => pending[q]
  BY DEF Scan, ScanChanges, ScanDeletions, Evict, FireTimer, Boot, Crash,
         LastInv, TypeInv, TypeOK
<1>4. \A q \in Peer : Noticed(q)'
  BY <1>1, <1>2, <1>3, NoticedStays
<1>5. ASSUME NEW p \in Peer, Scan(p), NEW t \in Thread
      PROVE  Carries(t)'
  <2>1. CASE thread'[t] = thread[t]
    BY <1>2, <2>1, CarriesStays
  <2>2. CASE thread'[t] = Idle
    BY <2>2, IdleCarries
  <2>3. CASE thread'[t] # thread[t] /\ thread'[t] # Idle
    <3>1. t = <<p, 0>> /\ thread[t] = Idle
      BY <1>5, <2>3 DEF Scan, ScanChanges, ScanDeletions, Goto, Leave, Move,
             LastInv, OnlyLast, Carries, TypeInv, TypeOK
    <3>2. /\ \/ disk[p] # Absent /\ thread'[t] = [Idle EXCEPT !.pc = "read"]
             \/ disk[p] = Absent /\ thread'[t] = [Idle EXCEPT !.pc = "check"]
          /\ Detectable(p)
      BY <1>5, <2>3, <3>1 DEF Scan, ScanChanges, ScanDeletions, Goto, Leave, Move,
             Detectable, LastInv, TypeInv, TypeOK
    <3>3. disk'[p] = Last(p)' /\ disk'[p] = disk[p]
      BY <1>1, <3>2 DEF LastInv, OnlyLast, Noticed, Last
    <3>4. t[1] = p
      BY <3>1
    <3> QED BY <3>2, <3>3, <3>4 DEF Carries, Idle, Offering
  <2> QED BY <2>1, <2>2, <2>3
<1>6. ASSUME NEW p \in Peer, NEW s \in Slot, FireTimer(p, s), NEW t \in Thread
      PROVE  Carries(t)'
  <2>1. CASE t # <<p, s>>
    <3>1. thread'[t] = thread[t]
      BY <1>6, <2>1 DEF FireTimer, Goto, Move, LastInv, TypeInv, TypeOK
    <3> QED BY <1>2, <3>1, CarriesStays
  <2>2. CASE t = <<p, s>>
    <3>1. thread[t] = Idle /\ t[1] = p
      BY <1>6, <2>2 DEF FireTimer, LastInv, OnlyLast, Carries
    <3>2. thread'[t] = [Idle EXCEPT !.pc = IF disk[p] = Absent THEN "check" ELSE "read"]
      BY <1>6, <2>2, <3>1 DEF FireTimer, Goto, Move, LastInv, TypeInv, TypeOK
    <3>3. disk'[p] = Last(p)' /\ disk'[p] = disk[p]
      BY <1>1, <1>6 DEF FireTimer, LastInv, OnlyLast, Noticed, Last
    <3> QED BY <3>1, <3>2, <3>3 DEF Carries, Idle, Offering
  <2> QED BY <2>1, <2>2
<1>7. ASSUME Boot \/ Crash \/ \E p \in Peer : Evict(p), NEW t \in Thread
      PROVE  Carries(t)'
  <2>1. thread'[t] = thread[t] \/ thread'[t] = Idle
    BY <1>7 DEF Boot, Crash, Evict
  <2> QED BY <1>2, <2>1, CarriesStays, IdleCarries
<1> QED BY <1>2, <1>4, <1>5, <1>6, <1>7 DEF OnlyLast

(* One goroutine moves; what it leaves in the directories, the stats and the
   events is about the last edit. *)
LEMMA LastMove ==
    ASSUME LastInv, Follows, NEW t \in Thread, NEW r, Move(t, r), Carries(t)',
           \A q \in Peer :
               /\ stat'[q] = stat[q] \/ disk'[q] = Last(q)
               /\ pending'[q] => pending[q] \/ disk'[q] = Last(q)
    PROVE  OnlyLast'
<1>1. ASSUME NEW u \in Thread, u # t
      PROVE  Carries(u)'
  <2>1. thread'[u] = thread[u]
    BY <1>1 DEF Move, LastInv, TypeInv, TypeOK
  <2> QED BY <2>1, CarriesStays
<1> QED BY <1>1, NoticedStays DEF OnlyLast

(* Only Put's write of the last edit, or Delete's removal, changes a
   directory without a user. *)
LEMMA OneCopy ==
    ASSUME LastInv, NEW t \in Thread, ThreadStep(t)
    PROVE  /\ latest' = latest
           /\ \/ disk' = disk
              \/ \E q \in Peer : disk' = [disk EXCEPT ![q] = Last(q)]
<1>1. CASE Write(t)
  <2>1. /\ thread[t].at \in Peer
        /\ thread[t].data = Last(thread[t].at)
    BY <1>1 DEF Write, LastInv, OnlyLast, Carries, Offering, Targets, Last
  <2> QED BY <1>1, <2>1 DEF Write, WriteFile
<1>2. CASE ~Write(t)
  BY <1>2 DEF ThreadStep, ReadFile, CheckRepeating, MarkAndDispatch, Offer,
         WriteFails, PutStat, PutMark, DispatchReturns, OwnStat
<1> QED BY <1>1, <1>2

(* What is common to the steps of a goroutine. *)
LEMMA Acting ==
    ASSUME LastInv, NEW t \in Thread, ThreadStep(t)
    PROVE  /\ t[1] \in Peer /\ thread[t] \in ThreadState /\ Carries(t)
           /\ thread[t].pc # "idle" /\ disk[t[1]] = Last(t[1])
           /\ latest' = latest
           /\ \E r : Move(t, r)
           /\ \A u \in Thread : u # t => thread'[u] = thread[u]
<1>1. \E r : Move(t, r)
  BY DEF ThreadStep, ReadFile, CheckRepeating, MarkAndDispatch, Offer, Write, WriteFails,
         PutStat, PutMark, DispatchReturns, OwnStat, Goto, Leave
<1>2. \A u \in Thread : u # t => thread'[u] = thread[u]
  BY <1>1 DEF Move, LastInv, TypeInv, TypeOK
<1>3. t[1] \in Peer /\ thread[t] \in ThreadState /\ Carries(t)
  BY DEF Thread, LastInv, OnlyLast, TypeInv, TypeOK
<1>4. thread[t].pc # "idle"
  BY DEF ThreadStep, ReadFile, CheckRepeating, MarkAndDispatch, Offer, Write, WriteFails,
         PutStat, PutMark, DispatchReturns, OwnStat
<1>5. latest' = latest
  BY DEF ThreadStep, ReadFile, CheckRepeating, MarkAndDispatch, Offer, Write, WriteFails,
         PutStat, PutMark, DispatchReturns, OwnStat
<1> QED BY <1>1, <1>2, <1>3, <1>4, <1>5 DEF Carries

(* Where each step takes the goroutine, field by field. *)
LEMMA Fields ==
    ASSUME LastInv, NEW t \in Thread
    PROVE  /\ thread[t] \in ThreadState
           /\ \A r : Move(t, r) => thread'[t] = r
           /\ thread[t].pc \notin {"idle", "read"} => thread[t].data = Last(t[1])
           /\ thread[t].pc = "read" => disk[t[1]] # Absent
           /\ thread[t].pc \notin Offering \ {"offer"} => thread[t].at = 0
           /\ thread[t].pc \in Offering => thread[t].todo \subseteq Targets(t[1])
BY DEF LastInv, OnlyLast, TypeInv, TypeOK, Move, Carries

Keeps(t) ==
    /\ thread'[t].data = thread[t].data /\ thread'[t].todo = thread[t].todo
    /\ thread'[t].err = thread[t].err

LEMMA GotoMoves ==
    ASSUME LastInv, NEW t \in Thread, NEW pc \in PC, Goto(t, pc)
    PROVE  thread'[t].pc = pc /\ thread'[t].at = thread[t].at /\ Keeps(t)
<1> DEFINE r == [thread[t] EXCEPT !.pc = pc]
<1>1. /\ r.pc = pc /\ r.at = thread[t].at /\ r.data = thread[t].data
      /\ r.todo = thread[t].todo /\ r.err = thread[t].err
  BY Fields DEF ThreadState
<1>2. thread'[t] = r
  BY Fields DEF Goto
<1> HIDE DEF r
<1> QED BY <1>1, <1>2 DEF Keeps

LEMMA BackMoves ==
    ASSUME LastInv, NEW t \in Thread, Move(t, [thread[t] EXCEPT !.pc = "offer", !.at = 0])
    PROVE  thread'[t].pc = "offer" /\ thread'[t].at = 0 /\ Keeps(t)
<1> DEFINE r == [thread[t] EXCEPT !.pc = "offer", !.at = 0]
<1>1. /\ r.pc = "offer" /\ r.at = 0 /\ r.data = thread[t].data
      /\ r.todo = thread[t].todo /\ r.err = thread[t].err
  BY Fields DEF ThreadState
<1>2. thread'[t] = r
  BY Fields
<1> HIDE DEF r
<1> QED BY <1>1, <1>2 DEF Keeps

LEMMA ReadMoves ==
    ASSUME LastInv, NEW t \in Thread, ReadFile(t)
    PROVE  /\ thread'[t].pc = "check" /\ thread'[t].at = 0
           /\ thread'[t].data = disk[t[1]] /\ mode' = mode
<1> DEFINE r == [thread[t] EXCEPT !.pc = "check", !.data = disk[t[1]]]
<1>1. r.pc = "check" /\ r.at = thread[t].at /\ r.data = disk[t[1]]
  BY Fields DEF ThreadState
<1>2. Move(t, r) /\ mode' = mode /\ thread[t].at = 0
  BY Fields DEF ReadFile, Offering
<1> HIDE DEF r
<1> QED BY <1>1, <1>2, Fields

LEMMA CheckMoves ==
    ASSUME LastInv, NEW t \in Thread, CheckRepeating(t)
    PROVE  /\ \/ thread'[t].pc = "stat" /\ cache[t[1]] = DispatchHash(Last(t[1]))
              \/ thread'[t].pc = "mark" /\ cache[t[1]] # DispatchHash(Last(t[1]))
           /\ thread'[t].at = 0 /\ Keeps(t)
BY Fields, GotoMoves DEF CheckRepeating, IsRepeating, PC, Offering

LEMMA MarkMoves ==
    ASSUME LastInv, NEW t \in Thread, MarkAndDispatch(t)
    PROVE  /\ thread'[t].pc = "offer" /\ thread'[t].at = 0
           /\ thread'[t].todo = Targets(t[1])
           /\ thread'[t].data = thread[t].data /\ thread'[t].err = thread[t].err
<1> DEFINE r == [thread[t] EXCEPT !.pc = "offer", !.todo = Targets(t[1])]
<1>1. /\ r.pc = "offer" /\ r.at = thread[t].at /\ r.todo = Targets(t[1])
      /\ r.data = thread[t].data /\ r.err = thread[t].err
  BY Fields DEF ThreadState
<1>2. Move(t, r) /\ thread[t].at = 0
  BY Fields DEF MarkAndDispatch, Offering
<1> HIDE DEF r
<1> QED BY <1>1, <1>2, Fields

LEMMA OfferMoves ==
    ASSUME LastInv, NEW t \in Thread, NEW q \in Peer, Offer(t, q)
    PROVE  /\ thread'[t].data = thread[t].data /\ thread'[t].err = thread[t].err
           /\ thread'[t].todo = thread[t].todo \ {q} /\ q \in Targets(t[1])
           /\ \/ /\ thread'[t].pc = "offer" /\ thread'[t].at = 0
                 /\ cache[q] = DeliverHash(Last(t[1]))
              \/ /\ thread'[t].pc = "write" /\ thread'[t].at = q
                 /\ cache[q] # DeliverHash(Last(t[1]))
<1> DEFINE b    == thread[t]
           skip == [b EXCEPT !.todo = @ \ {q}]
           put  == [b EXCEPT !.todo = @ \ {q}, !.pc = "write", !.at = q]
<1>1. /\ skip.data = b.data /\ skip.todo = b.todo \ {q} /\ skip.err = b.err
      /\ skip.pc = b.pc /\ skip.at = b.at
  BY Fields DEF ThreadState
<1>2. /\ put.data = b.data /\ put.todo = b.todo \ {q} /\ put.err = b.err
      /\ put.pc = "write" /\ put.at = q
  BY Fields DEF ThreadState
<1>3. /\ b.pc = "offer" /\ b.at = 0 /\ b.data = Last(t[1]) /\ q \in Targets(t[1])
  BY Fields DEF Offer, IsNext, Offering
<1>4. \/ Move(t, skip) /\ cache[q] = DeliverHash(Last(t[1]))
      \/ Move(t, put) /\ cache[q] # DeliverHash(Last(t[1]))
  BY <1>3 DEF Offer, IsRepeating
<1> HIDE DEF skip, put
<1> QED BY <1>1, <1>2, <1>3, <1>4, Fields

LEMMA WriteMoves ==
    ASSUME LastInv, NEW t \in Thread, Write(t)
    PROVE  /\ Keeps(t)
           /\ \/ /\ thread'[t].pc = "offer" /\ thread'[t].at = 0
                 /\ disk[thread[t].at] = Last(t[1])
                 /\ UNCHANGED <<disk, stat, pending>>
              \/ /\ thread'[t].pc = "pstat" /\ thread'[t].at = thread[t].at
                 /\ WriteFile(thread[t].at, Last(t[1]))
                 /\ ~(Last(t[1]) = Absent /\ disk[thread[t].at] = Absent)
BY Fields, GotoMoves, BackMoves DEF Write, PC

LEMMA FailMoves ==
    ASSUME LastInv, NEW t \in Thread, WriteFails(t)
    PROVE  /\ thread'[t].pc = "offer" /\ thread'[t].at = 0 /\ thread'[t].err
           /\ thread'[t].data = thread[t].data /\ thread'[t].todo = thread[t].todo
<1> DEFINE r == [thread[t] EXCEPT !.pc = "offer", !.at = 0, !.err = TRUE]
<1>1. /\ r.pc = "offer" /\ r.at = 0 /\ r.err = TRUE
      /\ r.data = thread[t].data /\ r.todo = thread[t].todo
  BY Fields DEF ThreadState
<1>2. Move(t, r)
  BY DEF WriteFails
<1> HIDE DEF r
<1> QED BY <1>1, <1>2, Fields

LEMMA StoreMoves ==
    ASSUME LastInv, NEW t \in Thread, PutStat(t) \/ PutMark(t)
    PROVE  /\ PutStat(t) => thread'[t].pc = "pmark" /\ thread'[t].at = thread[t].at
           /\ PutMark(t) => thread'[t].pc = "offer" /\ thread'[t].at = 0
           /\ Keeps(t)
BY GotoMoves, BackMoves DEF PutStat, PutMark, PC

LEMMA ReturnMoves ==
    ASSUME LastInv, NEW t \in Thread, DispatchReturns(t) \/ OwnStat(t)
    PROVE  \/ /\ thread'[t] = Idle /\ Leave(t)
              /\ DispatchReturns(t) => thread[t].err
           \/ /\ DispatchReturns(t) /\ ~thread[t].err
              /\ thread'[t].pc = "stat" /\ thread'[t].at = 0 /\ Keeps(t) /\ mode' = mode
BY Fields, GotoMoves DEF DispatchReturns, OwnStat, Leave, PC, Offering

(* A goroutine touches its own peer and the target it is at. *)
LEMMA Local ==
    ASSUME LastInv, NEW t \in Thread, ThreadStep(t), NEW q \in Peer
    PROVE  /\ q # thread[t].at => disk'[q] = disk[q] /\ pending'[q] = pending[q]
           /\ q # t[1] => mode'[q] = mode[q]
           /\ q # t[1] /\ q # thread[t].at => stat'[q] = stat[q] /\ cache'[q] = cache[q]
<1>1. q # thread[t].at => disk'[q] = disk[q] /\ pending'[q] = pending[q]
  BY DEF ThreadStep, ReadFile, CheckRepeating, MarkAndDispatch, Offer, Write, WriteFails,
         PutStat, PutMark, DispatchReturns, OwnStat, WriteFile, LastInv, TypeInv, TypeOK
<1>2. q # t[1] => mode'[q] = mode[q]
  BY DEF ThreadStep, ReadFile, CheckRepeating, MarkAndDispatch, Offer, Write, WriteFails,
         PutStat, PutMark, DispatchReturns, OwnStat, Leave, LastInv, TypeInv, TypeOK
<1>3. q # t[1] /\ q # thread[t].at => stat'[q] = stat[q]
  BY DEF ThreadStep, ReadFile, CheckRepeating, MarkAndDispatch, Offer, Write, WriteFails,
         PutStat, PutMark, DispatchReturns, OwnStat, WriteFile, LastInv, TypeInv, TypeOK
<1>4. q # t[1] /\ q # thread[t].at => cache'[q] = cache[q]
  BY DEF ThreadStep, ReadFile, CheckRepeating, MarkAndDispatch, Offer, Write, WriteFails,
         PutStat, PutMark, DispatchReturns, OwnStat, MarkProcessed, LastInv, TypeInv, TypeOK
<1> QED BY <1>1, <1>2, <1>3, <1>4

(* The steps of a goroutine. *)
LEMMA LastThread ==
    ASSUME LastInv, NEW t \in Thread, ThreadStep(t)
    PROVE  OnlyLast' /\ Follows
<1> DEFINE b == thread[t]
           p == t[1]
<1>1. /\ p \in Peer /\ Carries(t) /\ b.pc # "idle" /\ disk[p] = Last(p)
      /\ latest' = latest
      /\ disk' = disk \/ \E q \in Peer : disk' = [disk EXCEPT ![q] = Last(q)]
      /\ \E r : Move(t, r)
  BY Acting, OneCopy
<1>2. /\ Follows /\ disk'[p] = Last(p) /\ Last(p)' = Last(p)
      /\ \A q \in Targets(p) : q \in Peer /\ Last(q) = Last(p)
                               /\ (disk[q] = Last(q) => disk'[q] = Last(q))
  BY <1>1 DEF Follows, Last, Targets, LastInv, TypeInv, TypeOK
<1>3. /\ b.pc \in Offering \ {"offer"} => b.at \in Targets(p)
      /\ b.pc \notin Offering \ {"offer"} => b.at = 0
      /\ b.pc \in {"pstat", "pmark"} => disk[b.at] = Last(p)
      /\ b.pc \in Offering => b.todo \subseteq Targets(p)
      /\ b.pc \notin {"idle", "read"} => b.data = Last(p)
      /\ b.pc = "read" => disk[p] # Absent
  BY <1>1 DEF Carries
<1>4. Carries(t)'
  <2>1. CASE ReadFile(t) \/ CheckRepeating(t) \/ MarkAndDispatch(t)
    BY <1>1, <1>2, <1>3, <2>1, ReadMoves, CheckMoves, MarkMoves
       DEF Keeps, ReadFile, CheckRepeating, MarkAndDispatch, Carries, Offering
  <2>2. ASSUME NEW q \in Peer, Offer(t, q)
        PROVE  Carries(t)'
    <3>1. b.pc = "offer"
      BY <2>2 DEF Offer
    <3> QED BY <1>2, <1>3, <2>2, <3>1, OfferMoves DEF Carries, Offering
  <2>3. CASE Write(t)
    <3>1. b.pc = "write"
      BY <2>3 DEF Write
    <3>2. WriteFile(b.at, Last(p)) => disk'[b.at] = Last(p)
      BY <1>2, <1>3, <3>1 DEF WriteFile, Offering, LastInv, TypeInv, TypeOK
    <3> QED BY <1>2, <1>3, <2>3, <3>1, <3>2, WriteMoves DEF Keeps, Carries, Offering
  <2>4. CASE WriteFails(t)
    <3>1. b.pc = "write"
      BY <2>4 DEF WriteFails
    <3> QED BY <1>2, <1>3, <2>4, <3>1, FailMoves DEF Carries, Offering
  <2>5. CASE PutStat(t) \/ PutMark(t)
    <3>1. b.pc \in {"pstat", "pmark"} /\ disk' = disk
      BY <2>5 DEF PutStat, PutMark
    <3> QED BY <1>2, <1>3, <2>5, <3>1, StoreMoves DEF Keeps, Carries, Offering
  <2>6. CASE DispatchReturns(t) \/ OwnStat(t)
    <3>1. b.pc \in {"offer", "stat"}
      BY <2>6 DEF DispatchReturns, OwnStat
    <3> QED BY <1>2, <1>3, <2>6, <3>1, ReturnMoves, IdleCarries DEF Keeps, Carries, Offering
  <2> QED BY <2>1, <2>2, <2>3, <2>4, <2>5, <2>6 DEF ThreadStep
<1>5. ASSUME NEW q \in Peer
      PROVE  /\ stat'[q] = stat[q] \/ disk'[q] = Last(q)
             /\ pending'[q] => pending[q] \/ disk'[q] = Last(q)
  <2>1. CASE q # p /\ q # b.at
    BY <2>1, Local
  <2>2. CASE q = p
    BY <1>2, <2>2
  <2>3. CASE q = b.at
    <3>1. b.pc \in {"write", "pstat", "pmark"} /\ b.at \in Targets(p)
      BY <1>3, <2>3 DEF Peer, Offering
    <3>2. CASE b.pc \in {"pstat", "pmark"}
      BY <1>2, <1>3, <2>3, <3>1, <3>2
    <3>3. CASE Write(t)
      <4>1. WriteFile(b.at, Last(p)) => disk'[q] = Last(q)
        BY <1>2, <2>3, <3>1 DEF WriteFile, LastInv, TypeInv, TypeOK
      <4> QED BY <2>3, <3>3, <4>1, WriteMoves
    <3>4. CASE b.pc = "write" /\ ~Write(t)
      BY <3>4 DEF ThreadStep, ReadFile, CheckRepeating, MarkAndDispatch, Offer, WriteFails,
         PutStat, PutMark, DispatchReturns, OwnStat
    <3> QED BY <3>1, <3>2, <3>3, <3>4
  <2> QED BY <2>1, <2>2, <2>3
<1> QED BY <1>1, <1>2, <1>4, <1>5, LastMove

LEMMA LastStep ==
    ASSUME Editing = "serial"
    PROVE  LastInv /\ [Next]_vars => LastInv'
<1> SUFFICES ASSUME LastInv, [Next]_vars PROVE LastInv'
  OBVIOUS
<1>1. TypeInv'
  BY TypeStep DEF LastInv
<1>2. OnlyLast'
  <2>1. CASE UNCHANGED vars
    BY <2>1 DEF vars, LastInv, OnlyLast, Carries, Noticed, Detectable, Last
  <2>2. CASE Next
    BY <2>2, LastUser, LastStart, LastThread DEF Next
  <2> QED BY <2>1, <2>2
<1> QED BY <1>1, <1>2 DEF LastInv

-----------------------------------------------------------------------------
(* The replicated register. *)

LEMMA RegisterInit == Init => Replica!Init
BY DEF Init, Replica!Init, Replica!Peer, Replica!Groups, Peer, Groups

LEMMA RegisterStep ==
    ASSUME Editing = "serial"
    PROVE  LastInv /\ [Next]_vars => [Replica!Next]_<<disk, latest>>
<1> SUFFICES ASSUME LastInv, [Next]_vars PROVE [Replica!Next]_<<disk, latest>>
  OBVIOUS
<1> USE DEF Replica!Peer, Replica!File
<1>1. ASSUME NEW p \in Peer, NEW f \in File, Edit(p, f)
      PROVE  Replica!Next
  <2>1. \A q \in Peer : Group[q] = Group[p] => disk[q] = latest[Group[p]]
    BY <1>1 DEF Edit, MayEdit, Settled
  <2>2. Replica!Edit(p, f)
    BY <1>1, <2>1 DEF Edit, WriteFile, Replica!Edit, Peer
  <2> QED BY <2>2 DEF Replica!Next, Peer, File
<1>2. ASSUME NEW p \in Peer, UserStep(p)
      PROVE  [Replica!Next]_<<disk, latest>>
  <2>1. ASSUME NEW c \in Writable, UserWrite(p, c)
        PROVE  c \in File /\ Edit(p, c)
    BY <2>1 DEF UserWrite, File
  <2>2. UserDelete(p) => Absent \in File /\ Edit(p, Absent)
    BY DEF UserDelete, File
  <2>3. UserTouch(p) => UNCHANGED <<disk, latest>>
    BY DEF UserTouch, WriteFile, LastInv, TypeInv, TypeOK
  <2> QED BY <1>1, <1>2, <2>1, <2>2, <2>3 DEF UserStep
<1>3. ASSUME NEW t \in Thread, ThreadStep(t)
      PROVE  [Replica!Next]_<<disk, latest>>
  <2>1. CASE disk' = disk
    BY <1>3, <2>1, OneCopy
  <2>2. ASSUME NEW q \in Peer, disk' = [disk EXCEPT ![q] = Last(q)], disk' # disk
        PROVE  Replica!Next
    <3>1. disk[q] # Last(q)
      BY <2>2 DEF LastInv, TypeInv, TypeOK
    <3>2. Replica!Deliver(q)
      BY <1>3, <2>2, <3>1, OneCopy DEF Replica!Deliver, Last
    <3> QED BY <3>2 DEF Replica!Next, Peer
  <2> QED BY <1>3, <2>1, <2>2, OneCopy
<1>4. CASE \/ \E p \in Peer : Scan(p) \/ Evict(p)
           \/ \E p \in Peer, s \in Slot : FireTimer(p, s)
           \/ Boot \/ Crash
  BY <1>4 DEF Scan, ScanChanges, ScanDeletions, Evict, FireTimer, Boot, Crash
<1>5. CASE UNCHANGED vars
  BY <1>5 DEF vars
<1> QED BY <1>2, <1>3, <1>4, <1>5 DEF Next

(* With one edit at a time, whatever fails, is evicted or crashes in between:
   the directories are the copies of a replicated register which only ever
   step to its value.  No echo, no restart and no late write puts back an
   older version (DispatchFrom, Put and Delete, the offline scans). *)
THEOREM SerialRegister ==
    ASSUME Editing = "serial"
    PROVE  Spec => FollowsRegister
<1> QED BY LastInit, LastStep, RegisterInit, RegisterStep, PTL DEF Spec, FollowsRegister

-----------------------------------------------------------------------------
(* No edit is lost.                                                          *)

(* Groups of at most two peers. *)
Pairs ==
    \A p, q, r \in Peer :
        Group[p] = Group[q] /\ Group[q] = Group[r] => p = q \/ q = r \/ p = r

(* The gaps of the code that lose an edit even so are excluded by name: an
   empty file has the hash of a deletion (base.go:113), an evicted cache entry
   lets the echo of a third peer record a stat too early (base.go:117), and the
   mark of a failed dispatch hides that the file is saved again (base.go:199). *)
NoGaps ==
    /\ Editing = "serial"
    /\ Empty \notin Writable
    /\ "evict" \notin Faults \/ ("fail" \notin Faults /\ Pairs)
    /\ "fail" \notin Faults \/ "touch" \notin UserOps

Busy(q) == \E t \in Thread : t[1] = q /\ thread[t].pc # "idle"

Hashes(f) == {DispatchHash(f), DeliverHash(f)}

(* A scan of Start has yet to look at q's file. *)
Ahead(q) == mode[q] = "changes" \/ (mode[q] = "deletions" /\ disk[q] = Absent)

(* Which goroutine runs when. *)
Modes ==
    /\ (\A q \in Peer : mode[q] = "down") \/ (\A q \in Peer : mode[q] # "down")
    /\ \A q \in Peer : mode[q] = "down" => cache[q] = NoHash
    /\ \A q \in Peer : pending[q] => mode[q] = "up"
    /\ \A t \in Thread : thread[t].pc # "idle" =>
          mode[t[1]] = IF t[2] # 0 THEN "up"
                       ELSE IF disk[t[1]] = Absent THEN "deletions" ELSE "changes"

(* A peer's cache holds a hash of the last edit only if its directory has the
   edit, and holds nothing older once the peer has taken notice of it. *)
Known(q) ==
    /\ cache[q] \in Hashes(Last(q)) => disk[q] = Last(q)
    /\ \/ cache[q] \in {NoHash} \cup Hashes(Last(q))
       \/ disk[q] # Last(q)
       \/ pending[q]
       \/ \E t \in Thread : thread[t].at = q /\ thread[t].pc \in {"pstat", "pmark"}
       \/ \E t \in Thread : t[1] = q /\ Reading(t)

(* The rest of t's dispatch reaches every target that lacks the edit. *)
Covers(t) ==
    \A r \in Targets(t[1]) :
        \/ disk[r] = Last(r) \/ r \in thread[t].todo
        \/ thread[t].pc = "write" /\ thread[t].at = r

Synced(g) == \A q \in Peer : Group[q] = g => disk[q] = latest[g]

(* The edit of group g is made and not marked yet: whoever takes notice of a
   file has no stat of it, and someone does or will. *)
Fresh(q) ==
    /\ cache[q] \notin Hashes(Last(q))
    /\ pending[q] \/ Busy(q) => Detectable(q)
    /\ pending[q] => ~Busy(q)
    /\ \A t \in Thread : t[1] = q => thread[t].pc \in {"idle", "read", "check", "mark"}
    /\ \A t, u \in Thread :
           t[1] = q /\ u[1] = q /\ thread[t].pc # "idle" /\ thread[u].pc # "idle" => t = u

Unmarked(g) ==
    /\ \A q \in Peer : Group[q] = g => Fresh(q)
    /\ \E q \in Peer :
          /\ Group[q] = g /\ disk[q] = latest[g] /\ Detectable(q)
          /\ mode[q] = "down" \/ Ahead(q) \/ pending[q] \/ Busy(q)

(* Peer s has marked the edit and is dispatching it, or has failed to: its
   stat is not stored, and no Put or Delete changes that.  Its mark may have
   been evicted. *)
Marked(s) ==
    /\ disk[s] = Last(s) /\ Detectable(s)
    /\ cache[s] = DispatchHash(Last(s)) \/ "evict" \in Faults
    /\ ~pending[s]
    /\ \A t \in Thread : Group[t[1]] = Group[s] /\ thread[t].at = s =>
           thread[t].pc = "write" /\ thread[t].data = Absent
    /\ \A t \in Thread : t[1] = s /\ thread[t].pc # "idle" =>
           thread[t].pc \in Offering /\ (thread[t].err \/ Covers(t))
    /\ thread[<<s, 0>>].pc = "idle" => ~Ahead(s)
    /\ "fail" \notin Faults => Busy(s)

OnTheWay(g) ==
    Synced(g) \/ Unmarked(g) \/ \E s \in Peer : Group[s] = g /\ Marked(s)

NoErr == "fail" \notin Faults => \A t \in Thread : ~thread[t].err

NotEmpty == \A g \in Groups : latest[g] # Empty

SafeInv ==
    /\ LastInv /\ NotEmpty /\ Modes /\ NoErr
    /\ \A q \in Peer : Known(q)
    /\ \A g \in Groups : OnTheWay(g)

LEMMA SameThread ==
    ASSUME NEW t \in Thread, NEW u \in Thread, t[1] = u[1], t[2] = u[2]
    PROVE  t = u
BY DEF Thread

LEMMA HashesApart ==
    ASSUME NEW f \in File \ {Empty}
    PROVE  /\ NoHash \notin Hashes(f)
           /\ \A h \in File \ {Empty} : h # f => Hashes(f) \cap Hashes(h) = {}
BY DEF File, Hashes, DispatchHash, DeliverHash, Bytes

(* The last edit is one of a file that is there, or of none. *)
LEMMA LastType ==
    ASSUME SafeInv, NEW q \in Peer
    PROVE  Group[q] \in Groups /\ Last(q) \in File \ {Empty}
<1>1. Group[q] \in Groups
  BY DEF Groups
<1> QED BY <1>1 DEF SafeInv, LastInv, TypeInv, TypeOK, NotEmpty, Last

LEMMA SafeInit == Init => SafeInv
<1> SUFFICES ASSUME Init PROVE SafeInv
  OBVIOUS
<1>1. \A t \in Thread : thread[t].pc = "idle" /\ thread[t].err = FALSE
  BY DEF Init, Idle
<1>2. \A q \in Peer : Group[q] \in Groups
  BY DEF Groups
<1>3. NotEmpty /\ Modes /\ NoErr
  BY <1>1 DEF Init, NotEmpty, Modes, NoErr
<1>4. \A q \in Peer : Known(q)
  BY <1>2 DEF Init, Known, Last
<1>5. \A g \in Groups : Synced(g)
  BY DEF Init, Synced
<1> QED BY <1>3, <1>4, <1>5, LastInit DEF SafeInv, OnTheWay

-----------------------------------------------------------------------------
(* Modes. *)

LEMMA ModesThread ==
    ASSUME SafeInv, NEW t \in Thread, ThreadStep(t)
    PROVE  Modes'
<1>1. LastInv /\ Modes
  BY DEF SafeInv
<1>2. /\ t[1] \in Peer /\ thread[t].pc # "idle" /\ Carries(t)
      /\ \A u \in Thread : u # t => thread'[u] = thread[u]
  BY <1>1, Acting
<1>3. /\ mode[t[1]] = IF t[2] # 0 THEN "up"
                      ELSE IF disk[t[1]] = Absent THEN "deletions" ELSE "changes"
      /\ \A q \in Peer : mode[q] # "down"
  BY <1>1, <1>2 DEF Modes
<1>4. \/ mode' = mode /\ thread'[t].pc # "idle"
      \/ t[2] # 0 /\ mode' = mode
      \/ t[2] = 0 /\ mode' = [mode EXCEPT ![t[1]] = NextMode(@)] /\ thread'[t] = Idle
  <2>1. CASE Leave(t)
    BY <1>1, <1>2, <2>1 DEF Leave, Move, LastInv, TypeInv, TypeOK
  <2>2. CASE thread'[t].pc # "idle" /\ mode' = mode
    BY <2>2
  <2>3. ~Leave(t) => thread'[t].pc # "idle" /\ mode' = mode
    BY <1>1, ReadMoves, CheckMoves, MarkMoves, OfferMoves, WriteMoves, FailMoves,
       StoreMoves, ReturnMoves DEF ThreadStep, CheckRepeating, MarkAndDispatch, Offer, Write,
       WriteFails, PutStat, PutMark
  <2> QED BY <2>1, <2>2, <2>3
<1>5. \A q \in Peer : mode'[q] # "down" /\ (mode[q] = "up" => mode'[q] = "up")
  BY <1>1, <1>3, <1>4 DEF NextMode, LastInv, TypeInv, TypeOK
<1>6. \A q \in Peer : pending'[q] => mode'[q] = "up"
  <2>1. \A q \in Peer : pending'[q] => pending[q] \/ mode[q] = "up"
    BY <1>1 DEF ThreadStep, ReadFile, CheckRepeating, MarkAndDispatch, Offer,
        Write, WriteFails, PutStat, PutMark, DispatchReturns, OwnStat, WriteFile,
        LastInv, TypeInv, TypeOK
  <2> QED BY <1>1, <1>5, <2>1 DEF Modes
<1>7. ASSUME NEW u \in Thread, thread'[u].pc # "idle"
      PROVE  mode'[u[1]] = IF u[2] # 0 THEN "up"
                           ELSE IF disk'[u[1]] = Absent THEN "deletions" ELSE "changes"
  <2>1. u[1] \in Peer /\ thread[u].pc # "idle"
    BY <1>2, <1>7 DEF Thread
  <2>2. disk[u[1]] = Last(u[1])
    BY <1>1, <2>1 DEF LastInv, OnlyLast, Carries
  <2>3. disk'[u[1]] = disk[u[1]]
    BY <1>1, <2>1, <2>2, LastThread DEF Follows
  <2>4. mode'[u[1]] = mode[u[1]]
    <3>1. CASE mode' = mode
      BY <3>1
    <3>2. CASE t[2] = 0 /\ mode' = [mode EXCEPT ![t[1]] = NextMode(@)] /\ thread'[t] = Idle
      <4>1. u # t
        BY <1>7, <3>2 DEF Idle
      <4>2. u[1] = t[1] => u[2] # 0
        BY <3>2, <4>1, SameThread
      <4>3. u[1] # t[1]
        BY <1>1, <1>3, <2>1, <3>2, <4>2 DEF Modes
      <4> QED BY <1>1, <1>2, <2>1, <3>2, <4>3 DEF LastInv, TypeInv, TypeOK
    <3> QED BY <1>4, <3>1, <3>2
  <2> QED BY <1>1, <2>1, <2>3, <2>4 DEF Modes
<1> QED BY <1>5, <1>6, <1>7 DEF Modes

(* The steps outside a dispatch. *)
LEMMA ModesStart ==
    ASSUME SafeInv, NoGaps,
           \/ \E p \in Peer : UserStep(p) \/ Scan(p) \/ Evict(p)
           \/ \E p \in Peer, s \in Slot : FireTimer(p, s)
           \/ Boot \/ Crash
    PROVE  Modes'
<1>1. LastInv /\ Modes
  BY DEF SafeInv
<1>2. \A u \in Thread : u[1] \in Peer /\ u[2] \in Slot /\ u = <<u[1], u[2]>>
  BY DEF Thread
<1>3. ASSUME NEW p \in Peer, UserStep(p)
      PROVE  Modes'
  <2>1. \A u \in Thread : thread'[u].pc = "idle"
    BY <1>3 DEF UserStep, UserWrite, UserDelete, UserTouch, Edit, MayEdit, AtRest, NoGaps
  <2>2. UNCHANGED <<mode, cache>>
    BY <1>3 DEF UserStep, UserWrite, UserDelete, UserTouch, Edit
  <2>3. \A q \in Peer : pending'[q] => pending[q] \/ mode[q] = "up"
    BY <1>1, <1>3 DEF UserStep, UserWrite, UserDelete, UserTouch, Edit, WriteFile,
       LastInv, TypeInv, TypeOK
  <2> QED BY <1>1, <2>1, <2>2, <2>3 DEF Modes
<1>4. ASSUME NEW p \in Peer, Scan(p)
      PROVE  Modes'
  <2>1. UNCHANGED <<disk, cache, pending>> /\ mode[p] \in {"changes", "deletions"}
    BY <1>4 DEF Scan, ScanChanges, ScanDeletions
  <2>2. \A q \in Peer : mode'[q] # "down" /\ (mode[q] = "up" => mode'[q] = "up")
    BY <1>1, <1>4, <2>1 DEF Scan, ScanChanges, ScanDeletions, Leave, NextMode, Modes,
       LastInv, TypeInv, TypeOK
  <2>3. ASSUME NEW u \in Thread, thread'[u].pc # "idle"
        PROVE  mode'[u[1]] = IF u[2] # 0 THEN "up"
                             ELSE IF disk'[u[1]] = Absent THEN "deletions" ELSE "changes"
    <3>1. CASE u = <<p, 0>>
      <4>1. mode' = mode /\ mode[p] = IF disk[p] = Absent THEN "deletions" ELSE "changes"
        BY <1>1, <1>4, <2>3, <3>1 DEF Scan, ScanChanges, ScanDeletions, Leave, Move, Idle,
           LastInv, TypeInv, TypeOK
      <4> QED BY <2>1, <3>1, <4>1
    <3>2. CASE u # <<p, 0>>
      <4>1. thread'[u] = thread[u]
        BY <1>1, <1>4, <3>2 DEF Scan, ScanChanges, ScanDeletions, Leave, Goto, Move,
           LastInv, TypeInv, TypeOK
      <4>2. u[1] # p \/ u[2] # 0
        BY <1>2, <3>2
      <4>3. u[1] # p
        BY <1>1, <2>1, <2>3, <4>1, <4>2 DEF Modes
      <4>4. mode'[u[1]] = mode[u[1]]
        BY <1>1, <1>2, <1>4, <4>3 DEF Scan, ScanChanges, ScanDeletions, Leave,
           LastInv, TypeInv, TypeOK
      <4> QED BY <1>1, <2>1, <2>3, <4>1, <4>4 DEF Modes
    <3> QED BY <3>1, <3>2
  <2> QED BY <1>1, <2>1, <2>2, <2>3 DEF Modes
<1>5. ASSUME NEW p \in Peer, NEW s \in Slot, FireTimer(p, s)
      PROVE  Modes'
  <2>1. UNCHANGED <<disk, cache, mode>> /\ s # 0 /\ mode[p] = "up"
    BY <1>1, <1>5 DEF FireTimer, Modes
  <2>2. \A q \in Peer : pending'[q] => pending[q]
    BY <1>1, <1>5 DEF FireTimer, LastInv, TypeInv, TypeOK
  <2>3. \A u \in Thread : u # <<p, s>> => thread'[u] = thread[u]
    BY <1>1, <1>5 DEF FireTimer, Goto, Move, LastInv, TypeInv, TypeOK
  <2> QED BY <1>1, <2>1, <2>2, <2>3 DEF Modes
<1>6. CASE Boot
  <2>1. \A u \in Thread : thread'[u].pc = "idle"
    BY <1>1, <1>2, <1>6 DEF Boot, Modes
  <2> QED BY <1>1, <1>6, <2>1 DEF Boot, Modes
<1>7. CASE Crash
  BY <1>7 DEF Crash, Modes, Idle
<1>8. ASSUME NEW p \in Peer, Evict(p)
      PROVE  Modes'
  <2>1. /\ UNCHANGED <<disk, pending, mode, thread>>
        /\ \A q \in Peer : cache'[q] \in {cache[q], NoHash}
    BY <1>1, <1>8 DEF Evict, LastInv, TypeInv, TypeOK
  <2> QED BY <1>1, <2>1 DEF Modes
<1> QED BY <1>3, <1>4, <1>5, <1>6, <1>7, <1>8

-----------------------------------------------------------------------------
(* Caches. *)

(* A goroutine's step keeps what is known of q if it marks the edit, or
   leaves the cache alone and does not just forget q. *)
LEMMA KnownMove ==
    ASSUME SafeInv, NEW q \in Peer, NEW t \in Thread, ThreadStep(t),
           pending[q] => pending'[q],
           \/ cache'[q] \in Hashes(Last(q)) /\ disk[q] = Last(q)
           \/ /\ cache'[q] = cache[q]
              /\ disk'[q] = disk[q] \/ (thread'[t].at = q /\ thread'[t].pc = "pstat")
              /\ thread[t].at = q /\ thread[t].pc \in {"pstat", "pmark"} =>
                     thread'[t].at = q /\ thread'[t].pc \in {"pstat", "pmark"}
              /\ t[1] = q /\ Reading(t) => Reading(t)' \/ cache[q] \in Hashes(Last(q))
    PROVE  Known(q)'
<1>1. LastInv /\ Known(q)
  BY DEF SafeInv
<1>2. /\ \A u \in Thread : u # t => thread'[u] = thread[u]
      /\ Follows
  BY <1>1, Acting, LastThread
<1>3. Last(q)' = Last(q) /\ Hashes(Last(q))' = Hashes(Last(q)) /\ disk'[q] \in {disk[q], Last(q)}
  BY <1>2 DEF Follows, Last, Hashes
<1>4. \A u \in Thread : u # t /\ Reading(u) => Reading(u)'
  BY <1>2 DEF Reading
<1>5. CASE cache'[q] \in Hashes(Last(q)) /\ disk[q] = Last(q)
  BY <1>3, <1>5 DEF Known
<1>6. CASE /\ cache'[q] = cache[q]
           /\ disk'[q] = disk[q] \/ (thread'[t].at = q /\ thread'[t].pc = "pstat")
           /\ thread[t].at = q /\ thread[t].pc \in {"pstat", "pmark"} =>
                  thread'[t].at = q /\ thread'[t].pc \in {"pstat", "pmark"}
           /\ t[1] = q /\ Reading(t) => Reading(t)' \/ cache[q] \in Hashes(Last(q))
  BY <1>1, <1>2, <1>3, <1>4, <1>6 DEF Known
<1> QED BY <1>5, <1>6

LEMMA KnownThread ==
    ASSUME SafeInv, NEW q \in Peer, NEW t \in Thread, ThreadStep(t)
    PROVE  Known(q)'
<1>1. LastInv
  BY DEF SafeInv
<1>2. /\ t[1] \in Peer /\ Carries(t) /\ disk[t[1]] = Last(t[1])
      /\ thread[t] \in ThreadState
  BY <1>1, Acting
<1>3. /\ thread[t].pc \notin {"idle", "read"} => thread[t].data = Last(t[1])
      /\ thread[t].pc \in {"write", "pstat", "pmark"} =>
             thread[t].at \in Peer /\ Last(thread[t].at) = Last(t[1])
  BY <1>2 DEF Carries, Offering, Targets, Last
<1>4. CASE ReadFile(t) \/ CheckRepeating(t)
  BY <1>1, <1>4, ReadMoves, CheckMoves, KnownMove DEF ReadFile, CheckRepeating, Reading, Hashes
<1>5. CASE MarkAndDispatch(t)
  BY <1>1, <1>2, <1>3, <1>5, MarkMoves, KnownMove DEF MarkAndDispatch, MarkProcessed, Hashes,
     LastInv, TypeInv, TypeOK
<1>6. CASE (\E r \in Peer : Offer(t, r)) \/ WriteFails(t) \/ DispatchReturns(t) \/ OwnStat(t)
  BY <1>6, KnownMove DEF Offer, WriteFails, DispatchReturns, OwnStat, Reading
<1>7. CASE Write(t)
  <2>1. /\ thread[t].pc = "write" /\ thread[t].at \in Peer
        /\ UNCHANGED cache
    BY <1>3, <1>7 DEF Write
  <2>2. pending[q] => pending'[q]
    BY <1>1, <1>7, <2>1, WriteMoves DEF Keeps, WriteFile, LastInv, TypeInv, TypeOK
  <2>3. disk'[q] = disk[q] \/ (thread'[t].at = q /\ thread'[t].pc = "pstat")
    BY <1>1, <1>7, <2>1, WriteMoves DEF Keeps, WriteFile, LastInv, TypeInv, TypeOK
  <2> QED BY <2>1, <2>2, <2>3, KnownMove DEF Reading
<1>8. CASE PutStat(t)
  BY <1>1, <1>8, StoreMoves, KnownMove DEF PutStat, Reading
<1>9. CASE PutMark(t)
  <2>1. disk[thread[t].at] = Last(thread[t].at)
    BY <1>2, <1>3, <1>9 DEF PutMark, Carries
  <2> QED BY <1>1, <1>3, <1>9, <2>1, KnownMove DEF PutMark, MarkProcessed, Hashes, Reading,
             LastInv, TypeInv, TypeOK
<1> QED BY <1>4, <1>5, <1>6, <1>7, <1>8, <1>9 DEF ThreadStep

(* An edit: no cache of the group holds its hash yet, as each holds that of
   the edit before, or none. *)
LEMMA EditUnknown ==
    ASSUME SafeInv, NoGaps, NEW p \in Peer, NEW f \in File \ {Empty}, f # disk[p], Edit(p, f),
           NEW q \in Peer, Group[q] = Group[p]
    PROVE  cache[q] \notin Hashes(f)
<1>1. /\ AtRest /\ disk[q] = Last(q) /\ disk[p] = Last(q)
  BY DEF NoGaps, Edit, MayEdit, Settled, Last
<1>2. \A t \in Thread : thread[t].pc = "idle"
  BY <1>1 DEF AtRest
<1>3. cache[q] \in {NoHash} \cup Hashes(Last(q))
  BY <1>1, <1>2 DEF AtRest, SafeInv, Known, Reading
<1>4. Last(q) \in File \ {Empty}
  BY LastType
<1> QED BY <1>1, <1>3, <1>4, HashesApart

LEMMA KnownUser ==
    ASSUME SafeInv, NoGaps, NEW p \in Peer, UserStep(p), NEW q \in Peer
    PROVE  Known(q)'
<1>1. LastInv /\ Modes /\ Known(q) /\ Group[q] \in Groups /\ Group[p] \in Groups
  BY DEF SafeInv, Groups
<1>2. cache' = cache /\ thread' = thread
  BY DEF UserStep, UserWrite, UserDelete, UserTouch, Edit
<1>3. ASSUME NEW f \in File \ {Empty}, f # disk[p], Edit(p, f)
      PROVE  Known(q)'
  <2>1. latest' = [latest EXCEPT ![Group[p]] = f] /\ disk' = [disk EXCEPT ![p] = f]
    BY <1>3 DEF Edit, WriteFile
  <2>2. CASE Group[q] # Group[p]
    <3>1. Last(q)' = Last(q) /\ disk'[q] = disk[q] /\ Hashes(Last(q))' = Hashes(Last(q))
      BY <1>1, <2>1, <2>2 DEF Last, Hashes, LastInv, TypeInv, TypeOK
    <3>2. pending'[q] = pending[q]
      BY <1>1, <1>3, <2>2 DEF Edit, WriteFile, LastInv, TypeInv, TypeOK
    <3> QED BY <1>1, <1>2, <3>1, <3>2 DEF Known, Reading
  <2>3. CASE Group[q] = Group[p]
    <3>1. Last(q)' = f /\ Hashes(Last(q))' = Hashes(f)
      BY <1>1, <2>1, <2>3 DEF Last, Hashes, LastInv, TypeInv, TypeOK
    <3>2. cache'[q] \notin Hashes(Last(q))'
      BY <1>2, <1>3, <2>3, <3>1, EditUnknown
    <3>3. CASE q # p
      <4>1. disk'[q] = disk[p]
        BY <1>1, <1>3, <2>1, <2>3, <3>3 DEF NoGaps, Edit, MayEdit, Settled,
           LastInv, TypeInv, TypeOK
      <4> QED BY <1>3, <3>1, <3>2, <4>1 DEF Known
    <3>4. CASE q = p /\ mode[p] = "up"
      BY <1>1, <1>3, <3>2, <3>4 DEF Edit, WriteFile, Known, LastInv, TypeInv, TypeOK
    <3>5. CASE q = p /\ mode[p] # "up"
      <4>1. mode[p] = "down"
        BY <1>3, <3>5 DEF NoGaps, Edit, MayEdit, AtRest, Up
      <4> QED BY <1>1, <1>2, <3>2, <3>5, <4>1 DEF Modes, Known
    <3> QED BY <3>3, <3>4, <3>5
  <2> QED BY <2>2, <2>3
<1>4. ASSUME NEW c \in Writable, UserWrite(p, c)
      PROVE  Known(q)'
  BY <1>3, <1>4 DEF UserWrite, NoGaps, File
<1>5. CASE UserDelete(p)
  BY <1>3, <1>5 DEF UserDelete, File
<1>6. CASE UserTouch(p)
  <2>1. latest' = latest /\ disk' = disk /\ (pending[q] => pending'[q])
    BY <1>1, <1>6 DEF UserTouch, WriteFile, LastInv, TypeInv, TypeOK
  <2> QED BY <1>1, <1>2, <2>1 DEF Known, Reading, Last, Hashes
<1> QED BY <1>4, <1>5, <1>6 DEF UserStep

LEMMA KnownStart ==
    ASSUME SafeInv, NEW q \in Peer,
           \/ \E p \in Peer : Scan(p) \/ Evict(p)
           \/ \E p \in Peer, s \in Slot : FireTimer(p, s)
           \/ Boot \/ Crash
    PROVE  Known(q)'
<1>1. LastInv /\ Known(q) /\ UNCHANGED <<disk, latest>>
  BY DEF SafeInv, Scan, ScanChanges, ScanDeletions, Evict, FireTimer, Boot, Crash
<1>2. Last(q)' = Last(q) /\ Hashes(Last(q))' = Hashes(Last(q))
  BY <1>1 DEF Last, Hashes
<1>3. ASSUME NEW p \in Peer, Scan(p)
      PROVE  Known(q)'
  <2>1. /\ UNCHANGED <<cache, pending>>
        /\ \A u \in Thread : thread[u].pc # "idle" => thread'[u] = thread[u]
    BY <1>1, <1>3 DEF Scan, ScanChanges, ScanDeletions, Leave, Goto, Move,
       LastInv, TypeInv, TypeOK
  <2> QED BY <1>1, <1>2, <2>1 DEF Known, Reading
<1>4. ASSUME NEW p \in Peer, NEW s \in Slot, FireTimer(p, s)
      PROVE  Known(q)'
  <2>1. /\ UNCHANGED cache
        /\ \A u \in Thread : thread[u].pc # "idle" => thread'[u] = thread[u]
        /\ q # p => pending'[q] = pending[q]
    BY <1>1, <1>4 DEF FireTimer, Goto, Move, LastInv, TypeInv, TypeOK
  <2>2. <<p, s>> \in Thread /\ <<p, s>>[1] = p /\ Reading(<<p, s>>)'
    <3>1. <<p, s>> \in Thread /\ thread[<<p, s>>] \in ThreadState
      BY <1>1 DEF Thread, LastInv, TypeInv, TypeOK
    <3>2. thread'[<<p, s>>].pc \in {"check", "read"}
      BY <1>1, <1>4, <3>1 DEF FireTimer, Goto, Move, LastInv, TypeInv, TypeOK, ThreadState
    <3> QED BY <3>1, <3>2 DEF Reading
  <2>3. \A u \in Thread : Reading(u) => Reading(u)'
    BY <2>1 DEF Reading
  <2> QED BY <1>1, <1>2, <2>1, <2>2, <2>3 DEF Known
<1>5. CASE Boot
  BY <1>1, <1>2, <1>5 DEF Boot, Known, Reading
<1>6. CASE Crash
  <2>1. Known(q) => (cache'[q] = NoHash /\ (cache'[q] \in Hashes(Last(q)) => FALSE))
    BY <1>6, LastType, HashesApart DEF Crash
  <2> QED BY <1>1, <1>2, <2>1 DEF Known
<1>7. ASSUME NEW p \in Peer, Evict(p)
      PROVE  Known(q)'
  <2>1. UNCHANGED <<pending, thread>> /\ cache'[q] \in {cache[q], NoHash}
    BY <1>1, <1>7 DEF Evict, LastInv, TypeInv, TypeOK
  <2>2. NoHash \notin Hashes(Last(q))
    BY LastType, HashesApart
  <2> QED BY <1>1, <1>2, <2>1, <2>2 DEF Known, Reading
<1> QED BY <1>3, <1>4, <1>5, <1>6, <1>7

-----------------------------------------------------------------------------
(* The edit of a group is synchronised, unmarked, or marked. *)

LEMMA SyncedStays ==
    ASSUME Follows, NEW g \in Groups, Synced(g)
    PROVE  Synced(g)'
BY DEF Follows, Synced, Last

(* A step that leaves what there is to do for group g's edit as it is. *)
Stays(g) ==
    /\ Synced(g) => Synced(g)'
    /\ Unmarked(g) => Unmarked(g)'
    /\ \A s \in Peer : Group[s] = g /\ Marked(s) => Marked(s)'

(* What happens in other groups does not matter. *)
LEMMA WayFrame ==
    ASSUME SafeInv, NEW g \in Groups, latest'[g] = latest[g],
           \A q \in Peer : Group[q] = g =>
               /\ disk'[q] = disk[q] /\ stat'[q] = stat[q] /\ cache'[q] = cache[q]
               /\ pending'[q] = pending[q] /\ mode'[q] = mode[q],
           \A u \in Thread : Group[u[1]] = g => thread'[u] = thread[u]
    PROVE  Stays(g)
<1>1. \A u \in Thread : u[1] \in Peer
  BY DEF Thread
<1>2. ASSUME NEW q \in Peer, Group[q] = g
      PROVE  /\ (Busy(q)' <=> Busy(q)) /\ (Detectable(q)' <=> Detectable(q))
             /\ (Ahead(q)' <=> Ahead(q)) /\ Last(q)' = Last(q)
             /\ Hashes(Last(q))' = Hashes(Last(q))
  BY <1>2 DEF Busy, Detectable, Ahead, Last, Hashes
<1>3. Synced(g) => Synced(g)'
  BY DEF Synced
<1>4. ASSUME Unmarked(g)
      PROVE  Unmarked(g)'
  <2>1. ASSUME NEW q \in Peer, Group[q] = g
        PROVE  Fresh(q)'
    BY <1>2, <1>4, <2>1 DEF Unmarked, Fresh
  <2> QED BY <1>2, <1>4, <2>1 DEF Unmarked
<1>5. ASSUME NEW s \in Peer, Group[s] = g, Marked(s)
      PROVE  Marked(s)'
  <2>1. \A u \in Thread : u[1] = s /\ Covers(u) => Covers(u)'
    BY <1>2, <1>5 DEF Covers, Targets
  <2>2. <<s, 0>> \in Thread /\ thread'[<<s, 0>>] = thread[<<s, 0>>]
    BY <1>5 DEF Thread, Slot
  <2> QED BY <1>2, <1>5, <2>1, <2>2 DEF Marked
<1> QED BY <1>3, <1>4, <1>5 DEF Stays

(* Until the edit is marked, goroutines read the file, and pass IsRepeating. *)
LEMMA UnmarkedThread ==
    ASSUME SafeInv, NEW t \in Thread, ThreadStep(t), Unmarked(Group[t[1]])
    PROVE  Unmarked(Group[t[1]])' \/ (MarkAndDispatch(t) /\ Marked(t[1])')
<1> DEFINE p == t[1]
           g == Group[t[1]]
<1>1. /\ LastInv /\ Modes /\ p \in Peer /\ g \in Groups /\ disk[p] = Last(p)
      /\ latest' = latest /\ thread[t].pc # "idle"
      /\ \A u \in Thread : u # t => thread'[u] = thread[u]
  BY Acting DEF SafeInv, Groups
<1>2. \A q \in Peer : Group[q] = g => Fresh(q)
  BY DEF Unmarked
<1>3. thread[t].pc \in {"read", "check", "mark"} /\ Detectable(p) /\ ~pending[p]
  BY <1>1, <1>2 DEF Fresh, Busy
<1>4. CASE ReadFile(t) \/ CheckRepeating(t)
  <2>1. thread'[t].pc \in {"check", "mark"}
    BY <1>1, <1>2, <1>4, ReadMoves, CheckMoves DEF Fresh, Hashes
  <2>2. UNCHANGED <<disk, stat, cache, pending, mode>>
    BY <1>1, <1>4, ReadMoves, CheckMoves DEF ReadFile, CheckRepeating
  <2>3. \A u \in Thread : thread'[u].pc = "idle" <=> thread[u].pc = "idle"
    BY <1>1, <2>1
  <2>4. \A q \in Peer : /\ (Busy(q)' <=> Busy(q)) /\ (Detectable(q)' <=> Detectable(q))
                        /\ (Ahead(q)' <=> Ahead(q)) /\ Last(q)' = Last(q)
                        /\ Hashes(Last(q))' = Hashes(Last(q))
    BY <1>1, <2>2, <2>3 DEF Busy, Detectable, Ahead, Last, Hashes
  <2>5. ASSUME NEW q \in Peer, Group[q] = g
        PROVE  Fresh(q)'
    <3>1. Fresh(q)
      BY <1>2, <2>5
    <3>2. \A u \in Thread : u[1] = q => thread'[u].pc \in {"idle", "read", "check", "mark"}
      BY <1>1, <2>1, <3>1 DEF Fresh
    <3> QED BY <2>2, <2>3, <2>4, <3>1, <3>2 DEF Fresh
  <2> QED BY <1>1, <2>2, <2>4, <2>5 DEF Unmarked
<1>5. CASE MarkAndDispatch(t)
  <2>1. /\ UNCHANGED <<disk, stat, pending, mode>>
        /\ cache'[p] = DispatchHash(Last(p))
        /\ thread[t].pc = "mark"
    BY <1>1, <1>5 DEF MarkAndDispatch, MarkProcessed, OnlyLast, Carries, LastInv, TypeInv, TypeOK
  <2>2. /\ thread'[t].pc = "offer" /\ thread'[t].at = 0 /\ thread'[t].todo = Targets(p)
    BY <1>1, <1>5, MarkMoves
  <2>3. Last(p)' = Last(p) /\ (Detectable(p)' <=> Detectable(p)) /\ (Ahead(p)' <=> Ahead(p))
    BY <1>1, <2>1 DEF Last, Detectable, Ahead
  <2>4. ASSUME NEW u \in Thread, Group[u[1]] = g
        PROVE  thread'[u].at # p
    <3>1. u[1] \in Peer /\ p # 0
      BY <1>1 DEF Thread, Peer
    <3>2. thread[u].at = 0
      BY <1>1, <1>2, <2>4, <3>1 DEF Fresh, LastInv, OnlyLast, Carries, Offering
    <3> QED BY <1>1, <2>2, <3>1, <3>2
  <2>5. ASSUME NEW u \in Thread, u[1] = p, thread'[u].pc # "idle"
        PROVE  thread'[u].pc \in Offering /\ Covers(u)'
    <3>1. u = t
      BY <1>1, <1>2, <2>5 DEF Fresh
    <3> QED BY <2>2, <3>1 DEF Offering, Covers
  <2>6. thread'[<<p, 0>>].pc = "idle" => ~Ahead(p)
    <3>1. CASE t[2] = 0
      BY <2>2, <3>1 DEF Thread
    <3>2. CASE t[2] # 0
      BY <1>1, <3>2 DEF Modes, Ahead
    <3> QED BY <3>1, <3>2
  <2>7. Busy(p)'
    BY <2>2 DEF Busy
  <2>8. Marked(p)'
    BY <1>1, <1>3, <2>1, <2>3, <2>4, <2>5, <2>6, <2>7 DEF Marked
  <2> QED BY <1>5, <2>8
<1> QED BY <1>3, <1>4, <1>5 DEF ThreadStep, Offer, Write, WriteFails, PutStat, PutMark,
       DispatchReturns, OwnStat

(* A peer stays marked while goroutines leave it alone and its own dispatches
   go on to what is left. *)
LEMMA MarkedMove ==
    ASSUME SafeInv, NEW t \in Thread, ThreadStep(t), NEW s \in Peer, Marked(s),
           Group[t[1]] = Group[s],
           stat'[s] = stat[s], cache'[s] = cache[s], pending'[s] = pending[s],
           mode'[s] = mode[s] \/ ~Ahead(s)',
           thread'[t].at = s => thread'[t].pc = "write" /\ thread'[t].data = Absent,
           t[1] = s => \/ /\ thread'[t].pc \in Offering
                          /\ thread'[t].err \/ Covers(t)'
                       \/ thread'[t].pc = "idle" /\ "fail" \in Faults /\ ~Ahead(s)'
    PROVE  Marked(s)'
<1>1. /\ LastInv /\ Follows /\ disk[s] = Last(s) /\ latest' = latest
      /\ \A u \in Thread : u # t => thread'[u] = thread[u]
  BY Acting, LastThread DEF SafeInv, Marked
<1>2. Last(s)' = Last(s) /\ disk'[s] = disk[s]
  BY <1>1 DEF Follows, Last
<1>3. (Detectable(s)' <=> Detectable(s)) /\ (mode'[s] = mode[s] => (Ahead(s)' <=> Ahead(s)))
  BY <1>2 DEF Detectable, Ahead
<1>4. ASSUME NEW u \in Thread, u # t, u[1] = s, Covers(u)
      PROVE  Covers(u)'
  <2>1. thread'[u] = thread[u] /\ \A r \in Targets(s) : r \in Peer /\ Last(r)' = Last(r)
    BY <1>1, <1>4 DEF Last, Targets
  <2> QED BY <1>1, <1>4, <2>1 DEF Covers, Follows
<1>5. \A u \in Thread : Group[u[1]] = Group[s] /\ thread'[u].at = s =>
          thread'[u].pc = "write" /\ thread'[u].data = Absent
  BY <1>1 DEF Marked
<1>6. \A u \in Thread : u[1] = s /\ thread'[u].pc # "idle" =>
          thread'[u].pc \in Offering /\ (thread'[u].err \/ Covers(u)')
  BY <1>1, <1>4 DEF Marked
<1>7. thread'[<<s, 0>>].pc = "idle" => ~Ahead(s)'
  <2>1. <<s, 0>> \in Thread /\ <<s, 0>>[1] = s
    BY DEF Thread, Slot
  <2>2. CASE <<s, 0>> # t
    BY <1>1, <1>3, <2>1, <2>2 DEF Marked
  <2>3. CASE <<s, 0>> = t
    BY <2>1, <2>3 DEF Offering
  <2> QED BY <2>2, <2>3
<1>8. "fail" \notin Faults => Busy(s)'
  BY <1>1 DEF Marked, Busy, Offering
<1> QED BY <1>1, <1>2, <1>3, <1>5, <1>6, <1>7, <1>8 DEF Marked

(* A goroutine of a peer that has marked the edit goes through the rest of
   the group; the others of the group find the peer's mark, or no file to
   delete. *)
LEMMA MarkedThread ==
    ASSUME SafeInv, NoGaps, NEW t \in Thread, ThreadStep(t), NEW s \in Peer, Marked(s),
           Group[t[1]] = Group[s]
    PROVE  Marked(s)' \/ Synced(Group[s])'
<1> SUFFICES ASSUME ~Synced(Group[s])
             PROVE  Marked(s)' \/ Synced(Group[s])'
  BY SyncedStays, LastThread, LastType DEF SafeInv
<1> DEFINE b == thread[t]
           p == t[1]
<1>1. /\ LastInv /\ Modes /\ Follows /\ p \in Peer /\ disk[p] = Last(p) /\ disk[s] = Last(s)
      /\ latest' = latest /\ b.pc # "idle" /\ Carries(t) /\ b \in ThreadState
      /\ Last(p) = Last(s) /\ disk'[s] = disk[s] /\ disk'[p] = disk[p] /\ Known(s)
      /\ s # 0 /\ p # 0 /\ Last(s) \in File \ {Empty}
  BY Acting, LastThread, LastType DEF SafeInv, Marked, Follows, Last, Peer
<1>2. /\ b.pc \notin {"idle", "read"} => b.data = Last(s)
      /\ b.pc \in Offering \ {"offer"} => b.at \in Targets(p) /\ b.at \in Peer /\ b.at # p
      /\ b.pc \notin Offering \ {"offer"} => b.at = 0
      /\ b.at = s => b.pc = "write" /\ Last(s) = Absent
  BY <1>1 DEF Carries, Offering, Targets, Marked
<1>3. \A r \in Targets(p) : r \in Peer /\ r # p /\ Last(r)' = Last(r) /\ Last(r) = Last(s)
                            /\ disk'[r] \in {disk[r], Last(r)}
  BY <1>1 DEF Targets, Last, Follows
<1>4. p = s => b.pc \in Offering /\ (b.err \/ Covers(t))
  BY <1>1 DEF Marked
(* Where marks are evicted only s itself has the edit. *)
<1>0. p # s => cache[s] = DispatchHash(Last(s))
  BY <1>1 DEF NoGaps, Pairs, Synced, Last, Marked
<1>5. CASE ReadFile(t) \/ CheckRepeating(t)
  <2>1. p # s
    BY <1>4, <1>5 DEF ReadFile, CheckRepeating, Offering
  <2>2. UNCHANGED <<stat, cache, pending, mode>>
    BY <1>1, <1>5, ReadMoves, CheckMoves DEF ReadFile, CheckRepeating
  <2>3. thread'[t].at = 0
    BY <1>1, <1>5, ReadMoves, CheckMoves
  <2> QED BY <1>1, <2>1, <2>2, <2>3, MarkedMove
<1>6. CASE MarkAndDispatch(t)
  <2>1. p # s
    BY <1>4, <1>6 DEF MarkAndDispatch, Offering
  <2>2. UNCHANGED <<stat, pending, mode>> /\ cache'[s] = cache[s]
    BY <1>1, <1>6, <2>1 DEF MarkAndDispatch, MarkProcessed, LastInv, TypeInv, TypeOK
  <2>3. thread'[t].at = 0
    BY <1>1, <1>6, MarkMoves
  <2> QED BY <1>1, <2>1, <2>2, <2>3, MarkedMove
<1>7. ASSUME NEW q \in Peer, Offer(t, q)
      PROVE  Marked(s)'
  <2>1. UNCHANGED <<disk, stat, cache, pending, mode>> /\ b.pc = "offer"
    BY <1>7 DEF Offer
  <2>2. /\ thread'[t].data = b.data /\ thread'[t].err = b.err
        /\ thread'[t].todo = b.todo \ {q} /\ q \in Targets(p)
        /\ \/ /\ thread'[t].pc = "offer" /\ thread'[t].at = 0
              /\ cache[q] = DeliverHash(Last(p))
           \/ /\ thread'[t].pc = "write" /\ thread'[t].at = q
              /\ cache[q] # DeliverHash(Last(p))
    BY <1>1, <1>7, OfferMoves
  <2>3. thread'[t].at = s => thread'[t].pc = "write" /\ thread'[t].data = Absent
    <3>1. Last(s) # Absent => DeliverHash(Last(s)) = DispatchHash(Last(s))
      BY DEF DeliverHash, DispatchHash
    <3>2. thread'[t].at = s => p # s
      BY <1>1, <1>3, <2>2
    <3> QED BY <1>0, <1>1, <1>2, <2>1, <2>2, <3>1, <3>2
  <2>4. ASSUME Covers(t)
        PROVE  Covers(t)'
    <3>1. cache[q] = DeliverHash(Last(q)) => disk[q] = Last(q)
      BY DEF SafeInv, Known, Hashes
    <3> QED BY <1>1, <1>3, <2>1, <2>2, <2>4, <3>1 DEF Covers
  <2>5. p = s => thread'[t].pc \in Offering /\ (thread'[t].err \/ Covers(t)')
    BY <1>4, <2>2, <2>4 DEF Offering
  <2> QED BY <2>1, <2>3, <2>5, MarkedMove
<1>8. CASE Write(t)
  <2>1. /\ UNCHANGED <<cache, mode>> /\ b.pc = "write" /\ b.at \in Targets(p)
        /\ stat'[s] = stat[s] /\ pending'[s] = pending[s]
    BY <1>1, <1>2, <1>8, WriteMoves DEF Write, WriteFile, Offering, LastInv, TypeInv, TypeOK
  <2>2. /\ thread'[t].err = b.err /\ thread'[t].todo = b.todo
        /\ \/ thread'[t].pc = "offer" /\ thread'[t].at = 0
           \/ /\ thread'[t].pc = "pstat" /\ thread'[t].at = b.at
              /\ b.at # s
        /\ disk'[b.at] = Last(b.at)
    BY <1>1, <1>2, <1>3, <1>8, <2>1, WriteMoves DEF Keeps, WriteFile, LastInv, TypeInv, TypeOK
  <2>3. ASSUME Covers(t)
        PROVE  Covers(t)'
    BY <1>3, <2>1, <2>2, <2>3 DEF Covers
  <2>4. p = s => thread'[t].pc \in Offering /\ (thread'[t].err \/ Covers(t)')
    BY <1>4, <2>2, <2>3 DEF Offering
  <2> QED BY <1>1, <2>1, <2>2, <2>4, MarkedMove
<1>9. CASE WriteFails(t)
  <2>1. UNCHANGED <<stat, cache, pending, mode>>
    BY <1>9 DEF WriteFails
  <2>2. thread'[t].pc = "offer" /\ thread'[t].at = 0 /\ thread'[t].err
    BY <1>1, <1>9, FailMoves
  <2> QED BY <1>1, <2>1, <2>2, MarkedMove DEF Offering
<1>10. CASE PutStat(t) \/ PutMark(t)
  <2>1. /\ b.at # s /\ b.at \in Targets(p) /\ b.pc \in {"pstat", "pmark"}
        /\ disk[b.at] = Last(b.at)
    BY <1>1, <1>2, <1>3, <1>10 DEF PutStat, PutMark, Offering, Carries
  <2>2. /\ UNCHANGED <<disk, pending, mode>> /\ stat'[s] = stat[s] /\ cache'[s] = cache[s]
    BY <1>1, <1>10, <2>1 DEF PutStat, PutMark, MarkProcessed, LastInv, TypeInv, TypeOK
  <2>3. /\ thread'[t].err = b.err /\ thread'[t].todo = b.todo
        /\ thread'[t].pc \in {"pmark", "offer"} /\ thread'[t].at \in {b.at, 0}
    BY <1>1, <1>10, StoreMoves DEF Keeps
  <2>4. ASSUME Covers(t)
        PROVE  Covers(t)'
    BY <1>3, <2>1, <2>2, <2>3, <2>4 DEF Covers
  <2>5. p = s => thread'[t].pc \in Offering /\ (thread'[t].err \/ Covers(t)')
    BY <1>4, <2>3, <2>4 DEF Offering
  <2> QED BY <1>1, <2>1, <2>2, <2>3, <2>5, MarkedMove
<1>11. CASE DispatchReturns(t)
  <2>1. UNCHANGED <<disk, stat, cache, pending>> /\ b.pc = "offer" /\ b.todo = {}
    BY <1>11 DEF DispatchReturns
  <2>2. CASE p = s /\ ~b.err
    <3>1. \A r \in Targets(s) : disk[r] = Last(r)
      BY <1>4, <2>1, <2>2 DEF Covers
    <3>2. Synced(Group[s])
      BY <1>1, <3>1 DEF Synced, Targets, Last
    <3> QED BY <1>1, <3>2, SyncedStays, LastType
  <2>3. CASE p = s /\ b.err
    <3>1. thread'[t] = Idle /\ Leave(t) /\ "fail" \in Faults
      BY <1>1, <1>11, <2>3, ReturnMoves DEF SafeInv, NoErr
    <3>2. mode'[s] = mode[s] \/ ~Ahead(s)'
      BY <1>1, <2>1, <2>3, <3>1 DEF Leave, NextMode, Modes, Ahead, LastInv, TypeInv, TypeOK
    <3>3. ~Ahead(s)'
      BY <1>1, <2>1, <2>3, <3>1 DEF Leave, NextMode, Modes, Ahead, LastInv, TypeInv, TypeOK
    <3> QED BY <1>1, <2>1, <3>1, <3>2, <3>3, MarkedMove DEF Idle
  <2>4. CASE p # s
    <3>1. mode'[s] = mode[s]
      BY <1>1, <2>4, Local
    <3>2. thread'[t].at = 0
      BY <1>1, <1>11, ReturnMoves DEF Idle
    <3> QED BY <1>1, <2>1, <2>4, <3>1, <3>2, MarkedMove
  <2> QED BY <2>2, <2>3, <2>4
<1>12. CASE OwnStat(t)
  <2>1. p # s
    BY <1>4, <1>12 DEF OwnStat, Offering
  <2>2. b.at # s
    BY <1>1, <1>2, <1>12 DEF OwnStat, Offering
  <2>3. thread'[t].at = 0
    BY <1>1, <1>12, ReturnMoves DEF Idle
  <2> QED BY <1>1, <2>1, <2>2, <2>3, Local, MarkedMove
<1> QED BY <1>5, <1>6, <1>7, <1>8, <1>9, <1>10, <1>11, <1>12 DEF ThreadStep

LEMMA WayThread ==
    ASSUME SafeInv, NoGaps, NEW t \in Thread, ThreadStep(t), NEW g \in Groups
    PROVE  OnTheWay(g)'
<1>1. /\ LastInv /\ Follows /\ t[1] \in Peer /\ Carries(t) /\ OnTheWay(g) /\ latest' = latest
      /\ \A u \in Thread : u # t => thread'[u] = thread[u]
  BY Acting, LastThread DEF SafeInv
<1>2. CASE Group[t[1]] # g
  <2>1. ASSUME NEW q \in Peer, Group[q] = g
        PROVE  q # t[1] /\ q # thread[t].at
    BY <1>1, <1>2, <2>1 DEF Carries, Offering, Targets, Peer
  <2>2. \A q \in Peer : Group[q] = g =>
            /\ disk'[q] = disk[q] /\ stat'[q] = stat[q] /\ cache'[q] = cache[q]
            /\ pending'[q] = pending[q] /\ mode'[q] = mode[q]
    BY <1>1, <2>1, Local
  <2> QED BY <1>1, <1>2, <2>2, WayFrame DEF Stays, OnTheWay
<1>3. CASE Group[t[1]] = g
  <2>1. CASE Synced(g)
    BY <1>1, <2>1, SyncedStays DEF OnTheWay
  <2>2. CASE Unmarked(g)
    BY <1>1, <1>3, <2>2, UnmarkedThread DEF OnTheWay
  <2>3. ASSUME NEW s \in Peer, Group[s] = g, Marked(s)
        PROVE  OnTheWay(g)'
    BY <1>3, <2>3, MarkedThread DEF OnTheWay
  <2> QED BY <1>1, <2>1, <2>2, <2>3 DEF OnTheWay
<1> QED BY <1>2, <1>3

(* An edit waits to be noticed, in the directory where it is made. *)
LEMMA WayEdit ==
    ASSUME SafeInv, NoGaps, NEW p \in Peer, NEW f \in File \ {Empty}, f # disk[p], Edit(p, f)
    PROVE  Unmarked(Group[p])'
<1>1. /\ LastInv /\ AtRest /\ Settled(Group[p]) /\ Group[p] \in Groups
      /\ UNCHANGED <<cache, mode, thread>>
      /\ disk' = [disk EXCEPT ![p] = f] /\ latest' = [latest EXCEPT ![Group[p]] = f]
  BY DEF SafeInv, NoGaps, Edit, MayEdit, WriteFile, Groups
<1>2. /\ \A u \in Thread : thread'[u].pc = "idle" /\ u[1] \in Peer
      /\ \A q \in Peer : ~Busy(q)'
  BY <1>1 DEF AtRest, Busy, Thread
<1>3. ASSUME NEW q \in Peer, Group[q] = Group[p]
      PROVE  cache'[q] \notin Hashes(Last(q))'
  <2>1. Hashes(Last(q))' = Hashes(f)
    BY <1>1, <1>3 DEF Last, Hashes, LastInv, TypeInv, TypeOK
  <2> QED BY <1>1, <1>3, <2>1, EditUnknown
<1>4. /\ \A q \in Peer : q # p => ~pending'[q]
      /\ pending'[p] <=> mode[p] = "up"
      /\ stat'[p] = IF stat[p] = "current" THEN "old" ELSE stat[p]
  BY <1>1 DEF Edit, WriteFile, AtRest, LastInv, TypeInv, TypeOK
<1>5. Detectable(p)'
  <2>1. ~Detectable(p) /\ disk'[p] = f
    BY <1>1 DEF Settled, LastInv, TypeInv, TypeOK
  <2> QED BY <1>4, <2>1 DEF Detectable
<1>6. \A q \in Peer : Group[q] = Group[p] => Fresh(q)'
  BY <1>2, <1>3, <1>4, <1>5 DEF Fresh
<1>7. disk'[p] = latest'[Group[p]]
  BY <1>1 DEF LastInv, TypeInv, TypeOK
<1>8. mode'[p] = "down" \/ pending'[p]
  BY <1>1, <1>4 DEF AtRest, Up
<1> QED BY <1>5, <1>6, <1>7, <1>8 DEF Unmarked

(* Saving a file again: in a group at rest that lacks the edit, the bridge is
   stopped, and the file is one more to be noticed. *)
LEMMA WayTouch ==
    ASSUME SafeInv, NoGaps, NEW p \in Peer, UserTouch(p)
    PROVE  Stays(Group[p])
<1>1. /\ LastInv /\ Modes /\ AtRest /\ Group[p] \in Groups
      /\ UNCHANGED <<cache, mode, thread, latest>> /\ disk[p] # Absent /\ "touch" \in UserOps
  BY DEF SafeInv, NoGaps, UserTouch, MayEdit, Groups
<1>2. disk' = disk
  BY <1>1 DEF UserTouch, WriteFile, LastInv, TypeInv, TypeOK
<1>3. \A u \in Thread : thread[u].pc = "idle"
  BY <1>1 DEF AtRest
<1>4. \A q \in Peer : ~Busy(q) /\ ~Busy(q)'
  BY <1>1, <1>3 DEF Busy
<1>5. Synced(Group[p]) => Synced(Group[p])'
  BY <1>1, <1>2 DEF Synced
<1>6. ASSUME Unmarked(Group[p])
      PROVE  Unmarked(Group[p])'
  <2>1. \A q \in Peer : mode[q] = "down" /\ ~pending[q]
    BY <1>1, <1>4, <1>6 DEF AtRest, Up, Unmarked, Ahead
  <2>2. \A q \in Peer : ~pending'[q] /\ (stat'[q] = stat[q] \/ (q = p /\ stat'[q] = "old"))
    BY <1>1, <2>1 DEF UserTouch, WriteFile, LastInv, TypeInv, TypeOK
  <2>3. \A q \in Peer : Detectable(q) => Detectable(q)'
    BY <1>1, <1>2, <2>2 DEF Detectable
  <2>4. \A q \in Peer : Group[q] = Group[p] => Fresh(q)'
    BY <1>1, <1>3, <1>4, <1>6, <2>2 DEF Unmarked, Fresh, Last, Hashes
  <2> QED BY <1>1, <1>2, <1>6, <2>1, <2>3, <2>4 DEF Unmarked
<1>7. ASSUME NEW s \in Peer, Marked(s)
      PROVE  FALSE
  BY <1>1, <1>4, <1>7 DEF NoGaps, Marked
<1> QED BY <1>5, <1>6, <1>7 DEF Stays

LEMMA WayUser ==
    ASSUME SafeInv, NoGaps, NEW p \in Peer, UserStep(p), NEW g \in Groups
    PROVE  Stays(g) \/ (Group[p] = g /\ Unmarked(g)')
<1>1. LastInv
  BY DEF SafeInv
<1>2. CASE Group[p] # g
  <2>1. UNCHANGED <<cache, mode, thread>> /\ latest'[g] = latest[g]
    BY <1>1, <1>2 DEF UserStep, UserWrite, UserDelete, UserTouch, Edit, LastInv, TypeInv, TypeOK
  <2>2. \A q \in Peer : q # p =>
            disk'[q] = disk[q] /\ stat'[q] = stat[q] /\ pending'[q] = pending[q]
    BY <1>1 DEF UserStep, UserWrite, UserDelete, UserTouch, Edit, WriteFile,
       LastInv, TypeInv, TypeOK
  <2> QED BY <1>2, <2>1, <2>2, WayFrame
<1>3. CASE Group[p] = g
  <2>1. ASSUME NEW c \in Writable, UserWrite(p, c)
        PROVE  Stays(g) \/ (Group[p] = g /\ Unmarked(g)')
    BY <1>3, <2>1, WayEdit DEF UserWrite, NoGaps, File
  <2>2. CASE UserDelete(p)
    BY <1>3, <2>2, WayEdit DEF UserDelete, File
  <2>3. CASE UserTouch(p)
    BY <1>3, <2>3, WayTouch
  <2> QED BY <2>1, <2>2, <2>3 DEF UserStep
<1> QED BY <1>2, <1>3

(* A scan passes over a file that is as it was stored, and reads another. *)
LEMMA Scanned ==
    ASSUME SafeInv, NEW p \in Peer, Scan(p)
    PROVE  /\ UNCHANGED <<disk, stat, cache, pending, latest>>
           /\ <<p, 0>> \in Thread /\ thread[<<p, 0>>] = Idle /\ ~pending[p]
           /\ \A u \in Thread : u # <<p, 0>> => thread'[u] = thread[u]
           /\ \A q \in Peer : q # p => mode'[q] = mode[q]
           /\ \A u \in Thread : u[1] = p => thread[u].pc = "idle"
           /\ \/ /\ thread'[<<p, 0>>] = Idle
                 /\ Ahead(p)' => Ahead(p)
                 /\ Ahead(p) /\ Detectable(p) => Ahead(p)'
              \/ /\ Ahead(p) /\ Detectable(p) /\ mode' = mode
                 /\ thread'[<<p, 0>>].pc \in {"read", "check"} /\ thread'[<<p, 0>>].at = 0
<1>1. LastInv /\ Modes /\ <<p, 0>> \in Thread
  BY DEF SafeInv, Thread, Slot
<1>2. /\ UNCHANGED <<disk, stat, cache, pending, latest>>
      /\ mode[p] \in {"changes", "deletions"} /\ thread[<<p, 0>>].pc = "idle"
  BY DEF Scan, ScanChanges, ScanDeletions
<1>3. thread[<<p, 0>>] = Idle /\ ~pending[p]
  BY <1>1, <1>2 DEF LastInv, OnlyLast, Carries, Modes
<1>4. \A u \in Thread : u[1] = p => thread[u].pc = "idle"
  <2>1. ASSUME NEW u \in Thread, u[1] = p, thread[u].pc # "idle"
        PROVE  FALSE
    <3>1. u[2] = 0
      BY <1>1, <1>2, <2>1 DEF Modes
    <3>2. u = <<p, 0>>
      BY <2>1, <3>1 DEF Thread
    <3> QED BY <1>2, <2>1, <3>2
  <2> QED BY <2>1
<1>5. /\ \A u \in Thread : u # <<p, 0>> => thread'[u] = thread[u]
      /\ \A q \in Peer : q # p => mode'[q] = mode[q]
  BY <1>1 DEF Scan, ScanChanges, ScanDeletions, Leave, Goto, Move, LastInv, TypeInv, TypeOK
<1>6. CASE Leave(<<p, 0>>) /\ ~(Ahead(p) /\ Detectable(p) /\ mode[p] = "deletions")
                          /\ ~(disk[p] # Absent /\ Detectable(p) /\ mode[p] = "changes")
  <2>1. thread'[<<p, 0>>] = Idle /\ mode'[p] = NextMode(mode[p])
    BY <1>1, <1>6 DEF Leave, Move, LastInv, TypeInv, TypeOK
  <2> QED BY <1>2, <1>3, <1>4, <1>5, <1>6, <1>1, <2>1 DEF NextMode, Ahead
<1>7. CASE ~Leave(<<p, 0>>)
  <2>1. /\ mode' = mode /\ Ahead(p) /\ Detectable(p)
        /\ \E pc \in {"read", "check"} : thread'[<<p, 0>>] = [Idle EXCEPT !.pc = pc]
    BY <1>1, <1>3, <1>7 DEF Scan, ScanChanges, ScanDeletions, Goto, Move, Ahead, Detectable,
       LastInv, TypeInv, TypeOK
  <2>2. thread'[<<p, 0>>].pc \in {"read", "check"} /\ thread'[<<p, 0>>].at = 0
    BY <2>1 DEF Idle
  <2> QED BY <1>1, <1>2, <1>3, <1>4, <1>5, <2>1, <2>2
<1>8. Leave(<<p, 0>>) => /\ ~(Ahead(p) /\ Detectable(p) /\ mode[p] = "deletions")
                         /\ ~(disk[p] # Absent /\ Detectable(p) /\ mode[p] = "changes")
  <2>1. \A pc \in {"read", "check"} : Move(<<p, 0>>, [Idle EXCEPT !.pc = pc]) => ~Leave(<<p, 0>>)
    <3>1. \A pc \in {"read", "check"} : [Idle EXCEPT !.pc = pc] # Idle
      BY DEF Idle
    <3> QED BY <1>1, <3>1 DEF Leave, Move, LastInv, TypeInv, TypeOK
  <2> QED BY <1>3, <2>1 DEF Scan, ScanChanges, ScanDeletions, Goto, Ahead, Detectable
<1> QED BY <1>6, <1>7, <1>8

LEMMA WayScan ==
    ASSUME SafeInv, NEW p \in Peer, Scan(p), NEW g \in Groups
    PROVE  Stays(g)
<1> DEFINE t == <<p, 0>>
<1>1. /\ Modes
      /\ UNCHANGED <<disk, stat, cache, pending, latest>>
      /\ t \in Thread /\ t[1] = p /\ thread[t] = Idle /\ ~pending[p] /\ thread[t].pc = "idle"
      /\ \A u \in Thread : u # t => thread'[u] = thread[u]
      /\ \A q \in Peer : q # p => mode'[q] = mode[q]
      /\ \A u \in Thread : u[1] = p => thread[u].pc = "idle"
  BY Scanned DEF SafeInv, Idle
<1>2. \/ /\ thread'[t] = Idle
         /\ Ahead(p)' => Ahead(p)
         /\ Ahead(p) /\ Detectable(p) => Ahead(p)'
      \/ /\ Ahead(p) /\ Detectable(p) /\ mode' = mode
         /\ thread'[t].pc \in {"read", "check"} /\ thread'[t].at = 0
  BY Scanned
<1>3. \A q \in Peer : /\ (Detectable(q)' <=> Detectable(q)) /\ Last(q)' = Last(q)
                      /\ Hashes(Last(q))' = Hashes(Last(q))
                      /\ q # p => (Ahead(q)' <=> Ahead(q))
  BY <1>1 DEF Detectable, Last, Hashes, Ahead
<1>4. \A q \in Peer : q # p => (Busy(q)' <=> Busy(q))
  BY <1>1 DEF Busy
<1>5. CASE Group[p] # g
  <2>1. \A u \in Thread : Group[u[1]] = g => thread'[u] = thread[u]
    BY <1>1, <1>5
  <2> QED BY <1>1, <1>5, <2>1, WayFrame
<1>6. Synced(g) => Synced(g)'
  BY <1>1 DEF Synced
<1>7. ASSUME Unmarked(g)
      PROVE  Unmarked(g)'
  <2>1. ASSUME NEW q \in Peer, Group[q] = g
        PROVE  Fresh(q)'
    <3>1. Fresh(q)
      BY <1>7, <2>1 DEF Unmarked
    <3>2. CASE q # p
      BY <1>1, <1>3, <1>4, <3>1, <3>2 DEF Fresh
    <3>3. CASE q = p /\ thread'[t] = Idle
      <4>1. thread' = thread \/ \A u \in Thread : thread'[u] = thread[u]
        BY <1>1, <3>3
      <4> QED BY <1>1, <1>3, <3>1, <3>3, <4>1 DEF Fresh, Busy
    <3>4. CASE q = p /\ Detectable(p) /\ thread'[t].pc \in {"read", "check"}
      <4>1. \A u \in Thread : u[1] = p /\ thread'[u].pc # "idle" => u = t
        BY <1>1
      <4> QED BY <1>1, <1>3, <3>1, <3>4, <4>1 DEF Fresh
    <3> QED BY <1>2, <3>2, <3>3, <3>4
  <2>2. PICK q \in Peer :
          /\ Group[q] = g /\ disk[q] = latest[g] /\ Detectable(q)
          /\ mode[q] = "down" \/ Ahead(q) \/ pending[q] \/ Busy(q)
    BY <1>7 DEF Unmarked
  <2>3. mode'[q] = "down" \/ Ahead(q)' \/ pending'[q] \/ Busy(q)'
    <3>1. CASE q # p
      BY <1>1, <1>3, <1>4, <2>2, <3>1
    <3>2. CASE q = p
      <4>1. ~Busy(p) /\ mode[p] # "down"
        BY <1>1 DEF Busy, Scan, ScanChanges, ScanDeletions
      <4>2. thread'[t].pc \in {"read", "check"} => Busy(p)'
        BY <1>1 DEF Busy
      <4> QED BY <1>1, <1>2, <2>2, <3>2, <4>1, <4>2
    <3> QED BY <3>1, <3>2
  <2> QED BY <1>1, <1>3, <2>1, <2>2, <2>3 DEF Unmarked
<1>8. ASSUME NEW s \in Peer, Group[s] = g, Marked(s)
      PROVE  Marked(s)'
  <2>1. s # 0
    BY DEF Peer
  <2>2. s = p => thread'[t] = Idle /\ ~Ahead(p)'
    BY <1>1, <1>2, <1>8 DEF Marked
  <2>3. thread'[t].at = 0 /\ (s = p => \A u \in Thread : u[1] = s => thread'[u].pc = "idle")
    BY <1>1, <1>2, <2>2 DEF Idle
  <2>4. \A u \in Thread : u[1] = s /\ u # t /\ Covers(u) => Covers(u)'
    BY <1>1, <1>3 DEF Covers, Targets
  <2>5. \A u \in Thread : u[1] = s /\ thread'[u].pc # "idle" =>
            thread'[u].pc \in Offering /\ (thread'[u].err \/ Covers(u)')
    BY <1>1, <1>8, <2>3, <2>4 DEF Marked
  <2>6. thread'[<<s, 0>>].pc = "idle" => ~Ahead(s)'
    <3>1. CASE s = p
      BY <2>2, <3>1
    <3>2. CASE s # p
      <4>1. <<s, 0>> \in Thread /\ <<s, 0>> # t
        BY <3>2 DEF Thread, Slot
      <4> QED BY <1>1, <1>3, <1>8, <3>2, <4>1 DEF Marked
    <3> QED BY <3>1, <3>2
  <2>7. "fail" \notin Faults => Busy(s)'
    <3>1. s = p => ~Busy(s)
      BY <1>1 DEF Busy
    <3> QED BY <1>4, <1>8, <3>1 DEF Marked
  <2> QED BY <1>1, <1>3, <1>8, <2>1, <2>3, <2>5, <2>6, <2>7 DEF Marked
<1> QED BY <1>5, <1>6, <1>7, <1>8 DEF Stays

LEMMA WayTimer ==
    ASSUME SafeInv, NEW p \in Peer, NEW n \in Slot, FireTimer(p, n), NEW g \in Groups
    PROVE  Stays(g)
<1> DEFINE t == <<p, n>>
<1>1. /\ Modes /\ LastInv /\ Noticed(p)
      /\ UNCHANGED <<disk, stat, cache, mode, latest>>
      /\ t \in Thread /\ t[1] = p /\ n # 0 /\ pending[p] /\ thread[t].pc = "idle"
  BY DEF SafeInv, LastInv, OnlyLast, FireTimer, Thread
<1>2. /\ \A u \in Thread : u # t => thread'[u] = thread[u]
      /\ \A q \in Peer : q # p => pending'[q] = pending[q]
      /\ ~pending'[p]
  BY <1>1 DEF FireTimer, Goto, Move, LastInv, TypeInv, TypeOK
<1>3. thread'[t].pc \in {"read", "check"} /\ thread'[t].at = 0
  <2>1. thread[t] = Idle
    BY <1>1 DEF LastInv, OnlyLast, Carries
  <2>2. \E pc \in {"read", "check"} : thread'[t] = [Idle EXCEPT !.pc = pc]
    BY <1>1, <2>1 DEF FireTimer, Goto, Move, LastInv, TypeInv, TypeOK
  <2> QED BY <2>2 DEF Idle
<1>4. \A q \in Peer : /\ (Detectable(q)' <=> Detectable(q)) /\ Last(q)' = Last(q)
                      /\ Hashes(Last(q))' = Hashes(Last(q))
                      /\ (Ahead(q)' <=> Ahead(q))
                      /\ q # p => (Busy(q)' <=> Busy(q))
  BY <1>1, <1>2 DEF Detectable, Last, Hashes, Ahead, Busy
<1>5. CASE Group[p] # g
  <2>1. \A u \in Thread : Group[u[1]] = g => thread'[u] = thread[u]
    BY <1>1, <1>2, <1>5
  <2> QED BY <1>1, <1>2, <1>5, <2>1, WayFrame
<1>6. Synced(g) => Synced(g)'
  BY <1>1 DEF Synced
<1>7. ASSUME Unmarked(g), Group[p] = g
      PROVE  Unmarked(g)'
  <2>1. Busy(p)' /\ Detectable(p) /\ ~Busy(p)
    BY <1>1, <1>3, <1>7 DEF Busy, Unmarked, Fresh
  <2>2. \A u \in Thread : u[1] = p /\ thread'[u].pc # "idle" => u = t
    BY <1>2, <2>1 DEF Busy
  <2>3. ASSUME NEW q \in Peer, Group[q] = g
        PROVE  Fresh(q)'
    <3>1. Fresh(q)
      BY <1>7, <2>3 DEF Unmarked
    <3>2. CASE q # p
      BY <1>1, <1>2, <1>4, <3>1, <3>2 DEF Fresh
    <3>3. CASE q = p
      BY <1>1, <1>2, <1>3, <1>4, <2>1, <2>2, <3>1, <3>3 DEF Fresh
    <3> QED BY <3>2, <3>3
  <2>4. \E q \in Peer :
          /\ Group[q] = g /\ disk'[q] = latest'[g] /\ Detectable(q)'
          /\ mode'[q] = "down" \/ Ahead(q)' \/ pending'[q] \/ Busy(q)'
    <3>1. disk[p] = latest[g]
      BY <1>1, <1>7 DEF Noticed, Last
    <3> QED BY <1>1, <1>4, <1>7, <2>1, <3>1
  <2> QED BY <2>3, <2>4 DEF Unmarked
<1>8. ASSUME NEW s \in Peer, Group[s] = g, Marked(s)
      PROVE  Marked(s)'
  <2>1. s # p /\ s # 0
    BY <1>1, <1>8 DEF Marked, Peer
  <2>2. \A u \in Thread : u[1] = s => u # t /\ thread'[u] = thread[u]
    BY <1>1, <1>2, <2>1
  <2>3. \A u \in Thread : u[1] = s /\ Covers(u) => Covers(u)'
    BY <1>1, <1>4, <2>2 DEF Covers, Targets
  <2>4. <<s, 0>> \in Thread /\ thread'[<<s, 0>>] = thread[<<s, 0>>]
    BY <2>2 DEF Thread, Slot
  <2>5. \A u \in Thread : u[1] = s /\ thread'[u].pc # "idle" =>
            thread'[u].pc \in Offering /\ (thread'[u].err \/ Covers(u)')
    BY <1>8, <2>2, <2>3 DEF Marked
  <2>6. \A u \in Thread : Group[u[1]] = Group[s] /\ thread'[u].at = s =>
            thread'[u].pc = "write" /\ thread'[u].data = Absent
    BY <1>2, <1>3, <1>8, <2>1 DEF Marked
  <2> QED BY <1>1, <1>2, <1>4, <1>8, <2>1, <2>4, <2>5, <2>6 DEF Marked
<1> QED BY <1>5, <1>6, <1>7, <1>8 DEF Stays

(* A bridge that starts has marked nothing; one that ends forgets its marks,
   and finds the edit again by its stat. *)
LEMMA WayBoot ==
    ASSUME SafeInv, NoGaps, Boot, NEW g \in Groups
    PROVE  Stays(g)
<1>1. /\ Modes /\ UNCHANGED <<disk, stat, cache, pending, thread, latest>>
      /\ \A q \in Peer : NoHash \notin Hashes(Last(q))
  BY LastType, HashesApart DEF SafeInv, Boot
<1>2. \A q \in Peer : /\ (Detectable(q)' <=> Detectable(q)) /\ Last(q)' = Last(q)
                      /\ Hashes(Last(q))' = Hashes(Last(q))
                      /\ Ahead(q)' /\ (Busy(q)' <=> Busy(q))
  BY <1>1 DEF Detectable, Last, Hashes, Boot, Ahead, Busy
<1>3. Synced(g) => Synced(g)'
  BY <1>1 DEF Synced
<1>4. ASSUME Unmarked(g)
      PROVE  Unmarked(g)'
  <2>1. \A q \in Peer : Group[q] = g => Fresh(q)'
    BY <1>1, <1>2, <1>4 DEF Unmarked, Fresh
  <2> QED BY <1>1, <1>2, <1>4, <2>1 DEF Unmarked
<1>5. ASSUME NEW s \in Peer, Marked(s)
      PROVE  FALSE
  <2>1. \A q \in Peer : mode[q] = "down" /\ cache[q] = NoHash /\ ~Busy(q)
    BY <1>1 DEF Boot, Modes, Busy, Thread
  <2> QED BY <1>1, <1>5, <2>1 DEF NoGaps, Marked, Hashes
<1> QED BY <1>3, <1>4, <1>5 DEF Stays

LEMMA WayCrash ==
    ASSUME SafeInv, Crash, NEW g \in Groups
    PROVE  Synced(g)' \/ Unmarked(g)'
<1>1. /\ OnTheWay(g) /\ UNCHANGED <<disk, stat, latest>>
      /\ \A q \in Peer : NoHash \notin Hashes(Last(q))
  BY LastType, HashesApart DEF SafeInv, Crash
<1>2. \A q \in Peer : /\ (Detectable(q)' <=> Detectable(q)) /\ Last(q)' = Last(q)
                      /\ Hashes(Last(q))' = Hashes(Last(q))
  BY <1>1 DEF Detectable, Last, Hashes
<1>3. CASE Synced(g)
  BY <1>1, <1>3 DEF Synced
<1>4. ASSUME NEW s \in Peer, Group[s] = g, disk[s] = latest[g], Detectable(s)
      PROVE  Unmarked(g)'
  <2>1. /\ \A q \in Peer : cache'[q] = NoHash /\ ~pending'[q] /\ mode'[q] = "down"
        /\ \A u \in Thread : thread'[u].pc = "idle"
    BY DEF Crash, Idle
  <2>2. \A q \in Peer : Group[q] = g => Fresh(q)'
    BY <1>1, <1>2, <2>1 DEF Fresh, Busy
  <2> QED BY <1>1, <1>2, <1>4, <2>1, <2>2 DEF Unmarked
<1>5. CASE Unmarked(g)
  BY <1>4, <1>5 DEF Unmarked
<1>6. ASSUME NEW s \in Peer, Group[s] = g, Marked(s)
      PROVE  Unmarked(g)'
  BY <1>4, <1>6 DEF Marked, Last
<1> QED BY <1>1, <1>3, <1>5, <1>6 DEF OnTheWay

(* An evicted entry stood for nothing but a mark. *)
LEMMA WayEvict ==
    ASSUME SafeInv, NEW p \in Peer, Evict(p), NEW g \in Groups
    PROVE  Stays(g)
<1>1. /\ UNCHANGED <<disk, stat, pending, mode, thread, latest>> /\ "evict" \in Faults
      /\ \A q \in Peer : cache'[q] \in {cache[q], NoHash} /\ NoHash \notin Hashes(Last(q))
  BY LastType, HashesApart DEF SafeInv, Evict, LastInv, TypeInv, TypeOK
<1>2. \A q \in Peer : /\ (Detectable(q)' <=> Detectable(q)) /\ Last(q)' = Last(q)
                      /\ Hashes(Last(q))' = Hashes(Last(q))
                      /\ (Ahead(q)' <=> Ahead(q)) /\ (Busy(q)' <=> Busy(q))
  BY <1>1 DEF Detectable, Last, Hashes, Ahead, Busy
<1>3. Synced(g) => Synced(g)'
  BY <1>1 DEF Synced
<1>4. ASSUME Unmarked(g)
      PROVE  Unmarked(g)'
  <2>1. \A q \in Peer : Group[q] = g => Fresh(q)'
    BY <1>1, <1>2, <1>4 DEF Unmarked, Fresh
  <2> QED BY <1>1, <1>2, <1>4, <2>1 DEF Unmarked
<1>5. ASSUME NEW s \in Peer, Marked(s)
      PROVE  Marked(s)'
  <2>1. \A u \in Thread : Covers(u) => Covers(u)'
    BY <1>1 DEF Covers, Targets, Last
  <2> QED BY <1>1, <1>2, <1>5, <2>1 DEF Marked
<1> QED BY <1>3, <1>4, <1>5 DEF Stays

-----------------------------------------------------------------------------
(* Together. *)

LEMMA PlainStep ==
    ASSUME SafeInv, NoGaps, Next
    PROVE  NotEmpty' /\ NoErr'
<1>1. LastInv /\ NotEmpty /\ NoErr
  BY DEF SafeInv
<1>2. NotEmpty'
  <2>1. ASSUME NEW p \in Peer, NEW f \in File \ {Empty}, Edit(p, f)
        PROVE  NotEmpty'
    BY <1>1, <2>1 DEF Edit, NotEmpty, LastInv, TypeInv, TypeOK
  <2>2. ASSUME NEW p \in Peer, UserStep(p)
        PROVE  NotEmpty'
    <3>1. ASSUME NEW c \in Writable, UserWrite(p, c)
          PROVE  NotEmpty'
      BY <2>1, <3>1 DEF UserWrite, NoGaps, File
    <3>2. CASE UserDelete(p)
      BY <2>1, <3>2 DEF UserDelete, File
    <3>3. CASE UserTouch(p)
      BY <1>1, <3>3 DEF UserTouch, NotEmpty
    <3> QED BY <2>2, <3>1, <3>2, <3>3 DEF UserStep
  <2>3. ASSUME NEW t \in Thread, ThreadStep(t)
        PROVE  NotEmpty'
    BY <1>1, <2>3, Acting DEF NotEmpty
  <2>4. CASE \/ \E p \in Peer : Scan(p) \/ Evict(p)
             \/ \E p \in Peer, s \in Slot : FireTimer(p, s)
             \/ Boot \/ Crash
    BY <1>1, <2>4 DEF Scan, ScanChanges, ScanDeletions, Evict, FireTimer, Boot, Crash, NotEmpty
  <2> QED BY <2>2, <2>3, <2>4 DEF Next
<1>3. NoErr'
  <2>1. ASSUME NEW t \in Thread, ThreadStep(t), "fail" \notin Faults
        PROVE  \A u \in Thread : ~thread'[u].err
    <3>1. /\ \A u \in Thread : ~thread[u].err /\ (u # t => thread'[u] = thread[u])
          /\ thread[t] \in ThreadState /\ \A r : Move(t, r) => thread'[t] = r
      BY <1>1, <2>1, Acting DEF NoErr, Move, LastInv, TypeInv, TypeOK
    <3>2. ~thread'[t].err
      <4>1. ~Idle.err
        BY DEF Idle
      <4>2. CASE ReadFile(t) \/ CheckRepeating(t) \/ DispatchReturns(t) \/ OwnStat(t)
        BY <3>1, <4>1, <4>2 DEF ReadFile, CheckRepeating, DispatchReturns, OwnStat, Leave, Goto,
           ThreadState
      <4>3. CASE MarkAndDispatch(t)
        BY <3>1, <4>3 DEF MarkAndDispatch, ThreadState
      <4>4. CASE (\E q \in Peer : Offer(t, q)) \/ Write(t) \/ PutStat(t) \/ PutMark(t)
        BY <1>1, <2>1, <3>1, <4>4, OfferMoves, WriteMoves, StoreMoves DEF Keeps
      <4> QED BY <2>1, <4>2, <4>3, <4>4 DEF ThreadStep, WriteFails
    <3> QED BY <3>1, <3>2
  <2>2. CASE \/ \E p \in Peer : UserStep(p) \/ Scan(p) \/ Evict(p)
             \/ \E p \in Peer, s \in Slot : FireTimer(p, s)
             \/ Boot \/ Crash
    <3>1. ASSUME NEW u \in Thread
          PROVE  thread'[u].err => thread[u].err
      <4>1. CASE thread' = thread
        BY <4>1
      <4>2. CASE Crash
        BY <4>2 DEF Crash, Idle
      <4>3. ASSUME NEW p \in Peer, Scan(p)
            PROVE  thread'[u].err => thread[u].err
        <5>1. thread[u] \in ThreadState
          BY <1>1 DEF LastInv, TypeInv, TypeOK
        <5>2. thread'[u] \in {thread[u], Idle, [thread[u] EXCEPT !.pc = "read"],
                             [Idle EXCEPT !.pc = "check"]}
          BY <1>1, <4>3 DEF Scan, ScanChanges, ScanDeletions, Leave, Goto, Move,
             LastInv, TypeInv, TypeOK
        <5> QED BY <5>1, <5>2 DEF Idle, ThreadState
      <4>4. ASSUME NEW p \in Peer, NEW s \in Slot, FireTimer(p, s)
            PROVE  thread'[u].err => thread[u].err
        <5>1. thread[u] \in ThreadState
          BY <1>1 DEF LastInv, TypeInv, TypeOK
        <5>2. thread'[u] \in {thread[u], [thread[u] EXCEPT !.pc = "read"],
                             [thread[u] EXCEPT !.pc = "check"]}
          BY <1>1, <4>4 DEF FireTimer, Goto, Move, LastInv, TypeInv, TypeOK
        <5> QED BY <5>1, <5>2 DEF ThreadState
      <4> QED BY <2>2, <4>1, <4>2, <4>3, <4>4 DEF UserStep, UserWrite, UserDelete, UserTouch,
                 Edit, Evict, Boot
    <3> QED BY <1>1, <3>1 DEF NoErr
  <2> QED BY <1>1, <2>1, <2>2 DEF Next, NoErr
<1> QED BY <1>2, <1>3

LEMMA SafeStep ==
    ASSUME NoGaps
    PROVE  SafeInv /\ [Next]_vars => SafeInv'
<1> SUFFICES ASSUME SafeInv, [Next]_vars PROVE SafeInv'
  OBVIOUS
<1>1. LastInv'
  BY LastStep DEF SafeInv, NoGaps
<1>2. CASE UNCHANGED vars
  <2>1. NotEmpty' /\ Modes' /\ NoErr'
    BY <1>2 DEF vars, SafeInv, NotEmpty, Modes, NoErr
  <2>2. \A q \in Peer : Known(q)'
    BY <1>2 DEF vars, SafeInv, Known, Last, Hashes, Reading
  <2>3. \A g \in Groups : OnTheWay(g)'
    BY <1>2, WayFrame DEF vars, SafeInv, Stays, OnTheWay
  <2> QED BY <1>1, <2>1, <2>2, <2>3 DEF SafeInv
<1>3. CASE Next
  <2>2. Modes'
    BY <1>3, ModesStart, ModesThread DEF Next
  <2>3. \A q \in Peer : Known(q)'
    BY <1>3, KnownUser, KnownStart, KnownThread DEF Next
  <2>4. ASSUME NEW g \in Groups
        PROVE  OnTheWay(g)'
    <3>1. Stays(g) => OnTheWay(g)'
      BY DEF SafeInv, Stays, OnTheWay
    <3> QED BY <1>3, <3>1, WayUser, WayScan, WayTimer, WayBoot, WayCrash, WayEvict, WayThread
            DEF Next, OnTheWay
  <2> QED BY <1>1, <1>3, <2>2, <2>3, <2>4, PlainStep DEF SafeInv
<1> QED BY <1>2, <1>3

(* Stopping the bridge at any point loses no edit, whatever fails before or
   after: while some directory lacks the last edit, one that has it would
   dispatch it after a restart (dispatchFile and Put store a stat only after
   what it stands for has been done). *)
THEOREM NothingLost ==
    ASSUME NoGaps
    PROVE  Spec => []CrashSafe
<1>1. SafeInv => CrashSafe
  BY DEF SafeInv, OnTheWay, Synced, Unmarked, Marked, CrashSafe, Last
<1> QED BY <1>1, SafeInit, SafeStep, PTL DEF Spec

(* If no Put or Delete fails for good, a bridge that is up and has nothing
   left to do has brought the last edit to every directory of its group,
   however often it was stopped on the way. *)
THEOREM RestsInSync ==
    ASSUME NoGaps, "fail" \notin Faults
    PROVE  Spec => []SyncAtRest
<1>1. SafeInv => SyncAtRest
  <2> SUFFICES ASSUME SafeInv, AtRest, Up, NEW p \in Peer
               PROVE  disk[p] = latest[Group[p]]
    BY DEF SyncAtRest, InSync
  <2>1. Group[p] \in Groups /\ OnTheWay(Group[p])
    BY DEF SafeInv, Groups
  <2>2. \A q \in Peer : ~Busy(q) /\ ~pending[q] /\ mode[q] = "up"
    BY DEF AtRest, Up, Busy
  <2>3. ~Unmarked(Group[p])
    BY <2>2 DEF Unmarked, Ahead
  <2>4. \A s \in Peer : ~Marked(s)
    BY <2>2 DEF Marked
  <2> QED BY <2>1, <2>3, <2>4 DEF OnTheWay, Synced
<1> QED BY <1>1, SafeInit, SafeStep, PTL DEF Spec

-----------------------------------------------------------------------------
(* Failures. *)

(* Some goroutine is about to write r's file. *)
Coming(r) ==
    \E t \in Thread :
        /\ Group[t[1]] = Group[r] /\ thread[t].pc \in Offering
        /\ r \in thread[t].todo \/ (thread[t].pc = "write" /\ thread[t].at = r)

(* Nothing will bring the last edit to r before the next start. *)
Lost(r) == disk[r] # Last(r) /\ ~Unmarked(Group[r]) /\ ~Coming(r)

LostPeers == {r \in Peer : Lost(r)}

FailInv == SafeInv /\ Cardinality(LostPeers) <= faults

(* What a step keeps of r's prospects is enough. *)
LEMMA LostKept ==
    ASSUME NEW r \in Peer,
           disk[r] = Last(r) => disk'[r] = Last(r)',
           Unmarked(Group[r]) => Unmarked(Group[r])',
           Coming(r) => Coming(r)' \/ disk'[r] = Last(r)'
    PROVE  Lost(r)' => Lost(r)
BY DEF Lost

LEMMA LostUser ==
    ASSUME SafeInv, NoGaps, NEW p \in Peer, UserStep(p), NEW r \in Peer
    PROVE  Lost(r)' => Lost(r)
<1>1. LastInv /\ Group[r] \in Groups /\ Group[p] \in Groups
  BY DEF SafeInv, Groups
<1>2. thread' = thread
  BY DEF UserStep, UserWrite, UserDelete, UserTouch, Edit
<1>3. Coming(r) => Coming(r)'
  BY <1>2 DEF Coming
<1>4. CASE Unmarked(Group[r])'
  BY <1>4 DEF Lost
<1>5. CASE Stays(Group[r]) /\ disk'[r] = disk[r] /\ Last(r)' = Last(r)
  BY <1>3, <1>5, LostKept DEF Stays
<1>6. ASSUME NEW f \in File \ {Empty}, f # disk[p], Edit(p, f)
      PROVE  Lost(r)' => Lost(r)
  <2>1. Group[r] # Group[p] => disk'[r] = disk[r] /\ Last(r)' = Last(r)
    BY <1>1, <1>6 DEF Edit, WriteFile, Last, LastInv, TypeInv, TypeOK
  <2>2. Group[r] = Group[p] => Unmarked(Group[r])'
    BY <1>6, WayEdit
  <2> QED BY <1>1, <1>4, <1>5, <2>1, <2>2, WayUser
<1>7. CASE UserTouch(p)
  <2>1. disk' = disk /\ Last(r)' = Last(r)
    BY <1>1, <1>7 DEF UserTouch, WriteFile, Last, LastInv, TypeInv, TypeOK
  <2> QED BY <1>1, <1>4, <1>5, <2>1, WayUser
<1>8. ASSUME NEW c \in Writable, UserWrite(p, c)
      PROVE  Lost(r)' => Lost(r)
  <2>1. c \in File \ {Empty} /\ c # disk[p] /\ Edit(p, c)
    BY <1>8 DEF UserWrite, NoGaps, File
  <2> QED BY <1>6, <2>1
<1>9. CASE UserDelete(p)
  <2>1. Absent \in File \ {Empty} /\ Absent # disk[p] /\ Edit(p, Absent)
    BY <1>9 DEF UserDelete, File
  <2> QED BY <1>6, <2>1
<1> QED BY <1>7, <1>8, <1>9 DEF UserStep

LEMMA LostStart ==
    ASSUME SafeInv, NoGaps, NEW r \in Peer,
           \/ \E p \in Peer : Scan(p) \/ Evict(p)
           \/ \E p \in Peer, s \in Slot : FireTimer(p, s)
           \/ Boot \/ Crash
    PROVE  Lost(r)' => Lost(r)
<1>1. LastInv /\ Group[r] \in Groups
  BY DEF SafeInv, Groups
<1>2. UNCHANGED <<disk, latest>> /\ Last(r)' = Last(r)
  BY DEF Scan, ScanChanges, ScanDeletions, Evict, FireTimer, Boot, Crash, Last
<1>3. ASSUME NEW t \in Thread, thread[t].pc = "idle",
             \A u \in Thread : u # t => thread'[u] = thread[u]
      PROVE  Coming(r) => Coming(r)'
  BY <1>3 DEF Coming, Offering
<1>4. ASSUME NEW p \in Peer, Scan(p)
      PROVE  Lost(r)' => Lost(r)
  <2>1. Stays(Group[r])
    BY <1>1, <1>4, WayScan
  <2>2. thread[<<p, 0>>].pc = "idle"
    BY <1>4 DEF Scan, ScanChanges, ScanDeletions
  <2>3. Coming(r) => Coming(r)'
    BY <1>3, <1>4, <2>2, Scanned
  <2> QED BY <1>2, <2>1, <2>3, LostKept DEF Stays
<1>5. ASSUME NEW p \in Peer, NEW s \in Slot, FireTimer(p, s)
      PROVE  Lost(r)' => Lost(r)
  <2>1. Stays(Group[r])
    BY <1>1, <1>5, WayTimer
  <2>2. /\ <<p, s>> \in Thread /\ thread[<<p, s>>].pc = "idle"
        /\ \A u \in Thread : u # <<p, s>> => thread'[u] = thread[u]
    BY <1>1, <1>5 DEF FireTimer, Goto, Move, Thread, LastInv, TypeInv, TypeOK
  <2> QED BY <1>2, <1>3, <2>1, <2>2, LostKept DEF Stays
<1>6. CASE Boot
  <2>1. Stays(Group[r]) /\ thread' = thread
    BY <1>1, <1>6, WayBoot DEF Boot
  <2>2. Coming(r) => Coming(r)'
    BY <2>1 DEF Coming
  <2> QED BY <1>2, <2>1, <2>2, LostKept DEF Stays
<1>7. CASE Crash
  BY <1>1, <1>7, WayCrash DEF Lost, Synced, Last
<1>8. ASSUME NEW p \in Peer, Evict(p)
      PROVE  Lost(r)' => Lost(r)
  <2>1. Stays(Group[r]) /\ thread' = thread
    BY <1>1, <1>8, WayEvict DEF Evict
  <2>2. Coming(r) => Coming(r)'
    BY <2>1 DEF Coming
  <2> QED BY <1>2, <2>1, <2>2, LostKept DEF Stays
<1> QED BY <1>4, <1>5, <1>6, <1>7, <1>8

(* A dispatch reaches r, or finds that r has the edit, or fails there. *)
LEMMA ComingThread ==
    ASSUME SafeInv, NEW t \in Thread, ThreadStep(t), NEW r \in Peer, Coming(r),
           ~(WriteFails(t) /\ thread[t].at = r)
    PROVE  Coming(r)' \/ disk'[r] = Last(r)'
<1>1. /\ LastInv /\ Follows /\ Known(r) /\ t[1] \in Peer
      /\ \A u \in Thread : u # t => thread'[u] = thread[u]
  BY Acting, LastThread DEF SafeInv
<1>2. Last(r)' = Last(r) /\ (disk[r] = Last(r) => disk'[r] = Last(r))
  BY <1>1 DEF Follows, Last
<1>3. PICK u \in Thread :
          /\ Group[u[1]] = Group[r] /\ thread[u].pc \in Offering
          /\ r \in thread[u].todo \/ (thread[u].pc = "write" /\ thread[u].at = r)
  BY DEF Coming
<1>4. CASE u # t
  BY <1>1, <1>3, <1>4 DEF Coming
<1>5. CASE u = t
  <2>1. CASE thread'[t].pc \in Offering /\ r \in thread'[t].todo
    BY <1>3, <1>5, <2>1 DEF Coming
  <2>2. ASSUME NEW q \in Peer, Offer(t, q)
        PROVE  Coming(r)' \/ disk'[r] = Last(r)'
    <3>1. /\ thread[t].pc = "offer" /\ r \in thread[t].todo
          /\ thread'[t].todo = thread[t].todo \ {q} /\ thread'[t].pc \in Offering
      BY <1>1, <1>3, <1>5, <2>2, OfferMoves DEF Offer, Offering
    <3>2. CASE q # r
      BY <2>1, <3>1, <3>2
    <3>3. CASE q = r
      <4>1. Last(r) = Last(t[1])
        BY <1>3, <1>5 DEF Last
      <4>2. CASE thread'[t].pc = "write" /\ thread'[t].at = q
        BY <1>3, <1>5, <3>1, <3>3, <4>2 DEF Coming
      <4>3. CASE cache[q] = DeliverHash(Last(t[1]))
        BY <1>1, <1>2, <3>3, <4>1, <4>3 DEF Known, Hashes
      <4> QED BY <1>1, <2>2, <4>2, <4>3, OfferMoves
    <3> QED BY <3>2, <3>3
  <2>3. CASE Write(t)
    <3>1. thread'[t].todo = thread[t].todo /\ thread'[t].pc \in Offering
      BY <1>1, <2>3, WriteMoves DEF Keeps, Offering
    <3>2. CASE r \in thread[t].todo
      BY <2>1, <3>1, <3>2
    <3>3. CASE thread[t].at = r
      <4>1. Last(r) = Last(t[1])
        BY <1>3, <1>5 DEF Last
      <4>2. disk[r] = Last(r) \/ disk' = [disk EXCEPT ![r] = Last(r)]
        BY <1>1, <2>3, <3>3, <4>1, WriteMoves DEF WriteFile
      <4> QED BY <1>1, <1>2, <4>2 DEF LastInv, TypeInv, TypeOK
    <3> QED BY <1>3, <1>5, <3>2, <3>3
  <2>4. CASE WriteFails(t)
    <3>1. r \in thread'[t].todo /\ thread'[t].pc \in Offering
      BY <1>1, <1>3, <1>5, <2>4, FailMoves DEF Offering
    <3> QED BY <2>1, <3>1
  <2>5. CASE PutStat(t) \/ PutMark(t)
    <3>1. r \in thread'[t].todo /\ thread'[t].pc \in Offering
      BY <1>1, <1>3, <1>5, <2>5, StoreMoves DEF PutStat, PutMark, Keeps, Offering
    <3> QED BY <2>1, <3>1
  <2>6. ~ReadFile(t) /\ ~CheckRepeating(t) /\ ~MarkAndDispatch(t) /\ ~DispatchReturns(t)
        /\ ~OwnStat(t)
    BY <1>3, <1>5 DEF ReadFile, CheckRepeating, MarkAndDispatch, DispatchReturns, OwnStat, Offering
  <2> QED BY <2>2, <2>3, <2>4, <2>5, <2>6 DEF ThreadStep
<1> QED BY <1>4, <1>5

LEMMA LostThread ==
    ASSUME SafeInv, NEW t \in Thread, ThreadStep(t), NEW r \in Peer, Lost(r)'
    PROVE  Lost(r) \/ (WriteFails(t) /\ thread[t].at = r)
<1> SUFFICES ASSUME ~(WriteFails(t) /\ thread[t].at = r)
             PROVE  Lost(r)
  OBVIOUS
<1>1. /\ LastInv /\ Follows /\ t[1] \in Peer /\ Group[r] \in Groups /\ latest' = latest
      /\ Carries(t) /\ disk[t[1]] = Last(t[1])
      /\ \A u \in Thread : u # t => thread'[u] = thread[u]
  BY Acting, LastThread DEF SafeInv, Groups
<1>2. Last(r)' = Last(r) /\ (disk[r] = Last(r) => disk'[r] = Last(r))
  BY <1>1 DEF Follows, Last
<1>3. ~Coming(r)
  BY ComingThread DEF Lost
<1>4. disk[r] # Last(r)
  BY <1>2 DEF Lost
<1>5. CASE Group[t[1]] = Group[r]
  <2>1. SUFFICES ASSUME Unmarked(Group[r]), MarkAndDispatch(t)
                 PROVE  FALSE
    BY <1>3, <1>4, <1>5, UnmarkedThread DEF Lost
  <2>2. r \in Targets(t[1])
    BY <1>1, <1>4, <1>5 DEF Targets
  <2>3. thread'[t].pc = "offer" /\ thread'[t].todo = Targets(t[1])
    BY <1>1, <2>1, MarkMoves
  <2>4. Coming(r)'
    BY <1>5, <2>2, <2>3 DEF Coming, Offering
  <2> QED BY <2>4 DEF Lost
<1>6. CASE Group[t[1]] # Group[r]
  <2>1. \A q \in Peer : Group[q] = Group[r] => q # t[1] /\ q # thread[t].at
    BY <1>1, <1>6 DEF Carries, Targets, Offering, Peer
  <2>2. \A q \in Peer : Group[q] = Group[r] =>
            /\ disk'[q] = disk[q] /\ stat'[q] = stat[q] /\ cache'[q] = cache[q]
            /\ pending'[q] = pending[q] /\ mode'[q] = mode[q]
    BY <1>1, <2>1, Local
  <2>3. Stays(Group[r])
    BY <1>1, <1>6, <2>2, WayFrame
  <2> QED BY <1>3, <1>4, <2>3 DEF Stays, Lost
<1> QED BY <1>5, <1>6

LEMMA LostFinite == IsFiniteSet(Peer) /\ IsFiniteSet(LostPeers)
                    /\ IsFiniteSet(LostPeers') /\ Cardinality(LostPeers) \in Nat
                    /\ Cardinality(LostPeers') \in Nat
<1>1. IsFiniteSet(Peer)
  BY FS_Interval DEF Peer
<1>2. LostPeers \subseteq Peer /\ LostPeers' \subseteq Peer
  BY DEF LostPeers
<1> QED BY <1>1, <1>2, FS_Subset, FS_CardinalityType

LEMMA FailInit == Init => FailInv
<1> SUFFICES ASSUME Init PROVE FailInv
  OBVIOUS
<1>1. LostPeers = {}
  <2>1. \A q \in Peer : Group[q] \in Groups
    BY DEF Groups
  <2> QED BY <2>1 DEF Init, LostPeers, Lost, Last
<1> QED BY <1>1, SafeInit, FS_EmptySet DEF FailInv, Init

LEMMA FailStep ==
    ASSUME NoGaps
    PROVE  FailInv /\ [Next]_vars => FailInv'
<1> SUFFICES ASSUME FailInv, [Next]_vars PROVE FailInv'
  OBVIOUS
<1>1. SafeInv /\ SafeInv' /\ Cardinality(LostPeers) <= faults
  BY SafeStep DEF FailInv
<1>2. faults \in Nat /\ faults' \in Nat
  BY <1>1 DEF SafeInv, LastInv, TypeInv, TypeOK
<1>3. ASSUME \A r \in Peer : Lost(r)' => Lost(r), faults <= faults'
      PROVE  FailInv'
  <2>1. LostPeers' \subseteq LostPeers
    BY <1>3 DEF LostPeers
  <2>2. Cardinality(LostPeers') <= Cardinality(LostPeers)
    BY <2>1, LostFinite, FS_Subset
  <2> QED BY <1>1, <1>2, <1>3, <2>2, LostFinite DEF FailInv
<1>4. CASE UNCHANGED vars
  <2>1. \A r \in Peer : Lost(r)' => Lost(r)
    <3>1. ASSUME NEW g \in Groups
          PROVE  Stays(g)
      BY <1>1, <1>4, <3>1, WayFrame DEF vars
    <3>2. \A r \in Peer : Group[r] \in Groups
      BY DEF Groups
    <3> QED BY <1>4, <3>1, <3>2, LostKept DEF vars, Stays, Coming, Last
  <2> QED BY <1>2, <1>3, <1>4, <2>1 DEF vars
<1>5. CASE \/ \E p \in Peer : UserStep(p) \/ Scan(p) \/ Evict(p)
           \/ \E p \in Peer, s \in Slot : FireTimer(p, s)
           \/ Boot \/ Crash
  <2>1. \A r \in Peer : Lost(r)' => Lost(r)
    BY <1>1, <1>5, LostUser, LostStart
  <2>2. faults' = faults \/ faults' = faults + 1
    BY <1>5 DEF UserStep, UserWrite, UserDelete, UserTouch, Edit, Scan, ScanChanges,
       ScanDeletions, Evict, FireTimer, Boot, Crash
  <2> QED BY <1>2, <1>3, <2>1, <2>2
<1>6. ASSUME NEW t \in Thread, ThreadStep(t)
      PROVE  FailInv'
  <2>1. CASE ~WriteFails(t)
    <3>1. faults' = faults
      BY <1>6, <2>1 DEF ThreadStep, ReadFile, CheckRepeating, MarkAndDispatch, Offer, Write,
         PutStat, PutMark, DispatchReturns, OwnStat
    <3> QED BY <1>1, <1>2, <1>3, <1>6, <2>1, <3>1, LostThread
  <2>2. CASE WriteFails(t)
    <3> DEFINE q == thread[t].at
    <3>1. faults' = faults + 1
      BY <2>2 DEF WriteFails
    <3>2. LostPeers' \subseteq LostPeers \cup {q}
      BY <1>1, <1>6, LostThread DEF LostPeers
    <3>3. /\ IsFiniteSet(LostPeers \cup {q})
          /\ Cardinality(LostPeers \cup {q}) \in
                 {Cardinality(LostPeers), Cardinality(LostPeers) + 1}
      <4>1. IsFiniteSet(LostPeers)
        BY LostFinite
      <4> QED BY <4>1, FS_AddElement
    <3>4. Cardinality(LostPeers') <= Cardinality(LostPeers \cup {q})
      BY <3>2, <3>3, FS_Subset
    <3> QED BY <1>1, <1>2, <3>1, <3>3, <3>4, LostFinite DEF FailInv
  <2> QED BY <2>1, <2>2
<1> QED BY <1>4, <1>5, <1>6 DEF Next

(* A Put or Delete that fails for good costs its own target the edit, and no
   other, whichever peers edit and however often the bridge is stopped:
   Hub.Dispatch goes on to the next target. *)
THEOREM OneFailureOneTarget ==
    ASSUME NoGaps
    PROVE  Spec => []FailureContained
<1>1. FailInv => FailureContained
  <2> SUFFICES ASSUME FailInv, AtRest, Up
               PROVE  Cardinality({p \in Peer : disk[p] # latest[Group[p]]}) <= faults
    BY DEF FailureContained
  <2>1. \A q \in Peer : ~Busy(q) /\ ~pending[q] /\ mode[q] = "up"
    BY DEF AtRest, Up, Busy
  <2>2. \A g \in Groups : ~Unmarked(g)
    BY <2>1 DEF Unmarked, Ahead
  <2>3. \A r \in Peer : ~Coming(r) /\ Group[r] \in Groups
    BY DEF AtRest, Coming, Offering, Groups
  <2>4. LostPeers = {p \in Peer : disk[p] # latest[Group[p]]}
    BY <2>2, <2>3 DEF LostPeers, Lost, Last
  <2> QED BY <2>4 DEF FailInv
<1> QED BY <1>1, FailInit, FailStep, PTL DEF Spec
=============================================================================
