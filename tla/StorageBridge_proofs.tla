------------------------ MODULE StorageBridge_proofs ------------------------
(***************************************************************************)
(* Type correctness and group isolation of StorageBridge, for any number   *)
(* of peers, groups, contents, edits, faults and overlapping goroutines;   *)
(* and what one user who saves at any time gets: no echo undoes a save, and*)
(* the last one reaches every directory.                                   *)
(***************************************************************************)
EXTENDS StorageBridge, TLAPS

(* The constants a proof about the state uses. *)
USE HashesDistinct, ContentAssumption, BoundAssumption, NumPeersAssumption

LEMMA FileHashes ==
    ASSUME NEW f \in File
    PROVE  DispatchHash(f) \in Hash /\ DeliverHash(f) \in Hash
BY DEF File, Hash, DispatchHash, DeliverHash, Bytes

LEMMA IdleType == Idle \in ThreadState
BY DEF Idle, ThreadState, PC, File

(* Writing a file keeps the types of what WriteFile changes. *)
LEMMA WriteFileType ==
    ASSUME TypeOK, NEW p \in Peer, NEW f \in File, WriteFile(p, f)
    PROVE  /\ disk' \in [Peer -> File]
           /\ stat' \in [Peer -> {"none", "old", "current"}]
           /\ pending' \in [Peer -> BOOLEAN]
<1>1. disk' \in [Peer -> File]
  BY DEF TypeOK, WriteFile
<1>2. stat' \in [Peer -> {"none", "old", "current"}]
  BY DEF TypeOK, WriteFile
<1>3. pending' \in [Peer -> BOOLEAN]
  BY DEF TypeOK, WriteFile
<1> QED BY <1>1, <1>2, <1>3

LEMMA StoredStatType ==
    ASSUME TypeOK, NEW p \in Peer, NEW f \in File
    PROVE  StoredStat(p, f) \in {"none", "old", "current"}
BY DEF TypeOK, StoredStat

(* A goroutine that is writing has a target. *)
Targeted(r) == r.pc \in {"write", "pstat", "pmark"} => r.at \in Peer

HasTarget == \A t \in Thread : Targeted(thread[t])

TypeInv == TypeOK /\ HasTarget

(* A thread's record may be replaced by any other that has a target. *)
LEMMA MoveType ==
    ASSUME TypeInv, NEW t \in Thread, NEW r \in ThreadState, Targeted(r), Move(t, r)
    PROVE  thread' \in [Thread -> ThreadState] /\ HasTarget'
BY DEF TypeInv, TypeOK, HasTarget, Move

LEMMA GotoType ==
    ASSUME TypeInv, NEW t \in Thread, NEW pc \in PC, Goto(t, pc),
           pc \in {"write", "pstat", "pmark"} => thread[t].at \in Peer
    PROVE  thread' \in [Thread -> ThreadState] /\ HasTarget'
<1> DEFINE r == [thread[t] EXCEPT !.pc = pc]
<1>1. thread[t] \in ThreadState
  BY DEF TypeInv, TypeOK
<1>2. r \in ThreadState /\ Targeted(r)
  BY <1>1 DEF ThreadState, Targeted
<1> QED BY <1>2, MoveType DEF Goto

LEMMA LeaveType ==
    ASSUME TypeInv, NEW t \in Thread, Leave(t)
    PROVE  /\ thread' \in [Thread -> ThreadState] /\ HasTarget'
           /\ mode' \in [Peer -> {"down", "changes", "deletions", "up"}]
<1>1. Targeted(Idle)
  BY DEF Targeted, Idle
<1>2. thread' \in [Thread -> ThreadState] /\ HasTarget'
  BY <1>1, IdleType, MoveType DEF Leave
<1>3. mode' \in [Peer -> {"down", "changes", "deletions", "up"}]
  BY DEF TypeInv, TypeOK, Leave, NextMode
<1> QED BY <1>2, <1>3

LEMMA TypeInit == Init => TypeInv
<1> SUFFICES ASSUME Init PROVE TypeInv
  OBVIOUS
<1>1. TypeOK
  BY IdleType DEF Init, TypeOK, File, Hash
<1>2. HasTarget
  BY DEF Init, HasTarget, Targeted, Idle
<1> QED BY <1>1, <1>2 DEF TypeInv

(* The steps of the users. *)
LEMMA TypeUser ==
    ASSUME TypeInv, NEW p \in Peer, UserStep(p)
    PROVE  TypeInv'
<1> USE DEF TypeInv
<1>1. ASSUME NEW f \in File, Edit(p, f)
      PROVE  TypeInv'
  <2>1. Group[p] \in Groups
    BY DEF Groups
  <2>2. TypeOK'
    BY <1>1, <2>1, WriteFileType DEF TypeOK, Edit
  <2>3. HasTarget'
    BY <1>1 DEF Edit, HasTarget
  <2> QED BY <2>2, <2>3
<1>2. ASSUME NEW c \in Writable, UserWrite(p, c)
      PROVE  TypeInv'
  BY <1>1, <1>2 DEF UserWrite, File
<1>3. CASE UserDelete(p)
  BY <1>1, <1>3 DEF UserDelete, File
<1>4. CASE UserTouch(p)
  <2>1. disk[p] \in File
    BY DEF TypeOK
  <2>2. TypeOK'
    BY <1>4, <2>1, WriteFileType DEF TypeOK, UserTouch
  <2>3. HasTarget'
    BY <1>4 DEF UserTouch, HasTarget
  <2> QED BY <2>2, <2>3
<1> QED BY <1>2, <1>3, <1>4 DEF UserStep

(* The scans, the timers, the process, the cache. *)
LEMMA TypeScan ==
    ASSUME TypeInv, NEW p \in Peer, Scan(p)
    PROVE  TypeInv'
<1> DEFINE r == [Idle EXCEPT !.pc = "check"]
<1>1. <<p, 0>> \in Thread
  BY DEF Thread, Slot
<1>2. r \in ThreadState /\ Targeted(r)
  BY DEF PC, Idle, ThreadState, File, Targeted
<1>3. thread' \in [Thread -> ThreadState] /\ HasTarget'
  <2>1. CASE Goto(<<p, 0>>, "read")
    BY <2>1, <1>1, GotoType DEF PC
  <2>2. CASE Leave(<<p, 0>>)
    BY <2>2, <1>1, LeaveType
  <2>3. CASE Move(<<p, 0>>, r)
    BY <2>3, <1>1, <1>2, MoveType
  <2> QED BY <2>1, <2>2, <2>3 DEF Scan, ScanChanges, ScanDeletions
<1>4. mode' \in [Peer -> {"down", "changes", "deletions", "up"}]
  BY <1>1, LeaveType DEF Scan, ScanChanges, ScanDeletions, TypeInv, TypeOK
<1> QED BY <1>3, <1>4 DEF TypeInv, TypeOK, Scan, ScanChanges, ScanDeletions

LEMMA TypeTimer ==
    ASSUME TypeInv, NEW p \in Peer, NEW s \in Slot, FireTimer(p, s)
    PROVE  TypeInv'
<1>1. <<p, s>> \in Thread
  BY DEF Thread
<1>2. thread' \in [Thread -> ThreadState] /\ HasTarget'
  BY <1>1, GotoType DEF FireTimer, PC
<1> QED BY <1>2 DEF FireTimer, TypeInv, TypeOK

LEMMA TypeFaults ==
    ASSUME TypeInv, Boot \/ Crash \/ \E p \in Peer : Evict(p)
    PROVE  TypeInv'
<1> USE DEF TypeInv
<1>1. CASE Boot
  BY <1>1 DEF Boot, TypeOK, HasTarget
<1>2. CASE Crash
  <2>1. TypeOK'
    BY <1>2, IdleType DEF Crash, TypeOK, Hash
  <2>2. HasTarget'
    BY <1>2 DEF Crash, HasTarget, Targeted, Idle
  <2> QED BY <2>1, <2>2
<1>3. ASSUME NEW p \in Peer, Evict(p)
      PROVE  TypeInv'
  BY <1>3 DEF Evict, TypeOK, HasTarget, Hash
<1> QED BY <1>1, <1>2, <1>3

-----------------------------------------------------------------------------
(* The steps of a dispatch. *)

LEMMA TypeRead ==
    ASSUME TypeInv, NEW t \in Thread, ReadFile(t) \/ CheckRepeating(t)
    PROVE  TypeInv'
<1> DEFINE r == [thread[t] EXCEPT !.pc = "check", !.data = disk[t[1]]]
<1>1. t[1] \in Peer /\ thread[t] \in ThreadState /\ disk[t[1]] \in File
  BY DEF Thread, TypeInv, TypeOK
<1>2. r \in ThreadState /\ Targeted(r)
  BY <1>1 DEF ThreadState, Targeted, PC
<1>3. CASE ReadFile(t) /\ Leave(t)
  BY <1>3, LeaveType DEF TypeInv, TypeOK, ReadFile
<1>4. CASE ReadFile(t) /\ ~Leave(t)
  BY <1>2, <1>4, MoveType DEF TypeInv, TypeOK, ReadFile
<1>5. CASE CheckRepeating(t)
  <2>1. thread' \in [Thread -> ThreadState] /\ HasTarget'
    BY <1>5, GotoType DEF CheckRepeating, PC
  <2> QED BY <1>5, <2>1 DEF TypeInv, TypeOK, CheckRepeating
<1> QED BY <1>3, <1>4, <1>5

LEMMA TypeDispatch ==
    ASSUME TypeInv, NEW t \in Thread,
           MarkAndDispatch(t) \/ \E q \in Peer : Offer(t, q)
    PROVE  TypeInv'
<1>1. thread[t] \in ThreadState /\ thread[t].data \in File
  BY DEF TypeInv, TypeOK, ThreadState
<1>2. CASE MarkAndDispatch(t)
  <2> DEFINE r == [thread[t] EXCEPT !.pc = "offer", !.todo = Targets(t[1])]
  <2>1. cache' \in [Peer -> Hash]
    BY <1>1, <1>2, FileHashes DEF TypeInv, TypeOK, MarkAndDispatch, MarkProcessed
  <2>2. Targets(t[1]) \in SUBSET Peer
    BY DEF Targets
  <2>3. r \in ThreadState /\ Targeted(r)
    BY <1>1, <2>2 DEF ThreadState, Targeted, PC
  <2>4. thread' \in [Thread -> ThreadState] /\ HasTarget'
    BY <1>2, <2>3, MoveType DEF MarkAndDispatch
  <2> QED BY <1>2, <2>1, <2>4 DEF TypeInv, TypeOK, MarkAndDispatch
<1>3. ASSUME NEW q \in Peer, Offer(t, q)
      PROVE  TypeInv'
  <2> DEFINE skip == [thread[t] EXCEPT !.todo = @ \ {q}]
             put  == [thread[t] EXCEPT !.todo = @ \ {q}, !.pc = "write", !.at = q]
  <2>1. thread[t].todo \ {q} \in SUBSET Peer
    BY <1>1 DEF ThreadState
  <2>2. skip \in ThreadState /\ Targeted(skip)
    BY <1>1, <1>3, <2>1 DEF ThreadState, Targeted, Offer
  <2>3. put \in ThreadState /\ Targeted(put)
    BY <1>1, <2>1 DEF ThreadState, Targeted, PC
  <2>4. Move(t, skip) \/ Move(t, put)
    BY <1>3 DEF Offer
  <2>5. thread' \in [Thread -> ThreadState] /\ HasTarget'
    BY <2>2, <2>3, <2>4, MoveType
  <2> QED BY <1>3, <2>5 DEF TypeInv, TypeOK, Offer
<1> QED BY <1>2, <1>3

LEMMA TypePut ==
    ASSUME TypeInv, NEW t \in Thread,
           Write(t) \/ WriteFails(t) \/ PutStat(t) \/ PutMark(t)
    PROVE  TypeInv'
<1> DEFINE back   == [thread[t] EXCEPT !.pc = "offer", !.at = 0]
           failed == [thread[t] EXCEPT !.pc = "offer", !.at = 0, !.err = TRUE]
<1>1. thread[t] \in ThreadState /\ thread[t].data \in File
  BY DEF TypeInv, TypeOK, ThreadState
<1>2. thread[t].at \in Peer
  BY DEF TypeInv, HasTarget, Targeted, Write, WriteFails, PutStat, PutMark
<1>3. back \in ThreadState /\ Targeted(back)
  BY <1>1 DEF ThreadState, Targeted, PC
<1>4. failed \in ThreadState /\ Targeted(failed)
  BY <1>1 DEF ThreadState, Targeted, PC
<1>5. CASE Write(t)
  <2>1. CASE Move(t, back) /\ UNCHANGED <<disk, stat, pending>>
    <3>1. thread' \in [Thread -> ThreadState] /\ HasTarget'
      BY <1>3, <2>1, MoveType
    <3> QED BY <1>5, <2>1, <3>1 DEF TypeInv, TypeOK, Write
  <2>2. CASE WriteFile(thread[t].at, thread[t].data) /\ Goto(t, "pstat")
    <3>1. thread' \in [Thread -> ThreadState] /\ HasTarget'
      BY <1>2, <2>2, GotoType DEF PC
    <3> QED BY <1>1, <1>2, <1>5, <2>2, <3>1, WriteFileType DEF TypeInv, TypeOK, Write
  <2> QED BY <1>5, <2>1, <2>2 DEF Write
<1>6. CASE WriteFails(t)
  <2>1. thread' \in [Thread -> ThreadState] /\ HasTarget'
    BY <1>4, <1>6, MoveType DEF WriteFails
  <2> QED BY <1>6, <2>1 DEF TypeInv, TypeOK, WriteFails
<1>7. CASE PutStat(t)
  <2>1. StoredStat(thread[t].at, thread[t].data) \in {"none", "old", "current"}
    BY <1>1, <1>2, StoredStatType DEF TypeInv
  <2>2. thread' \in [Thread -> ThreadState] /\ HasTarget'
    BY <1>2, <1>7, GotoType DEF PutStat, PC
  <2> QED BY <1>2, <1>7, <2>1, <2>2 DEF TypeInv, TypeOK, PutStat
<1>8. CASE PutMark(t)
  <2>1. cache' \in [Peer -> Hash]
    BY <1>1, <1>2, <1>8, FileHashes DEF TypeInv, TypeOK, PutMark, MarkProcessed
  <2>2. thread' \in [Thread -> ThreadState] /\ HasTarget'
    BY <1>3, <1>8, MoveType DEF PutMark
  <2> QED BY <1>8, <2>1, <2>2 DEF TypeInv, TypeOK, PutMark
<1> QED BY <1>5, <1>6, <1>7, <1>8

LEMMA TypeReturn ==
    ASSUME TypeInv, NEW t \in Thread, DispatchReturns(t) \/ OwnStat(t)
    PROVE  TypeInv'
<1>1. thread[t].data \in File /\ t[1] \in Peer
  BY DEF TypeInv, TypeOK, ThreadState, Thread
<1>2. StoredStat(t[1], thread[t].data) \in {"none", "old", "current"}
  BY <1>1, StoredStatType DEF TypeInv
<1>3. stat' \in [Peer -> {"none", "old", "current"}]
  BY <1>1, <1>2 DEF TypeInv, TypeOK, DispatchReturns, OwnStat
<1>4. CASE Leave(t)
  BY <1>3, <1>4, LeaveType DEF TypeInv, TypeOK, DispatchReturns, OwnStat
<1>5. CASE Goto(t, "stat") /\ UNCHANGED mode
  <2>1. thread' \in [Thread -> ThreadState] /\ HasTarget'
    BY <1>5, GotoType DEF PC
  <2> QED BY <1>3, <1>5, <2>1 DEF TypeInv, TypeOK, DispatchReturns, OwnStat
<1> QED BY <1>4, <1>5 DEF DispatchReturns, OwnStat

LEMMA TypeStep == TypeInv /\ [Next]_vars => TypeInv'
<1> SUFFICES ASSUME TypeInv, [Next]_vars PROVE TypeInv'
  OBVIOUS
<1>1. ASSUME NEW p \in Peer, UserStep(p) \/ Scan(p) \/ Evict(p)
      PROVE  TypeInv'
  BY <1>1, TypeUser, TypeScan, TypeFaults
<1>2. ASSUME NEW p \in Peer, NEW s \in Slot, FireTimer(p, s)
      PROVE  TypeInv'
  BY <1>2, TypeTimer
<1>3. ASSUME NEW t \in Thread, ThreadStep(t)
      PROVE  TypeInv'
  BY <1>3, TypeRead, TypeDispatch, TypePut, TypeReturn DEF ThreadStep
<1>4. CASE Boot \/ Crash
  BY <1>4, TypeFaults
<1>5. CASE UNCHANGED vars
  BY <1>5 DEF vars, TypeInv, TypeOK, HasTarget
<1> QED BY <1>1, <1>2, <1>3, <1>4, <1>5 DEF Next

(* Every reachable state is well typed, and a goroutine in Put or Delete has
   the target it was given. *)
THEOREM TypeCorrect == Spec => [](TypeOK /\ HasTarget)
<1>1. TypeInv => TypeOK /\ HasTarget
  BY DEF TypeInv
<1> QED BY <1>1, TypeInit, TypeStep, PTL DEF Spec

-----------------------------------------------------------------------------
(* Group isolation.  The disks alone are not inductive: what a goroutine     *)
(* carries, and where it will still take it, must stay in the group of the   *)
(* peer it dispatches for.                                                   *)

AtHome(f, g) == f \in Content => HomeGroup[f] = g

InGroup(p, r) ==
    /\ AtHome(r.data, Group[p])
    /\ \A q \in r.todo : Group[q] = Group[p]
    /\ r.pc \in {"write", "pstat", "pmark"} => Group[r.at] = Group[p]

DisksAtHome   == \A p \in Peer : AtHome(disk[p], Group[p])
ThreadsAtHome == \A t \in Thread : InGroup(t[1], thread[t])

IsoInv == TypeInv /\ DisksAtHome /\ ThreadsAtHome

LEMMA IdleAtHome == \A p \in Peer : InGroup(p, Idle)
BY DEF InGroup, AtHome, Idle

LEMMA MoveAtHome ==
    ASSUME IsoInv, NEW t \in Thread, NEW r, InGroup(t[1], r), Move(t, r)
    PROVE  ThreadsAtHome'
BY DEF IsoInv, TypeInv, TypeOK, ThreadsAtHome, Move

LEMMA LeaveAtHome ==
    ASSUME IsoInv, NEW t \in Thread, Leave(t)
    PROVE  ThreadsAtHome'
<1>1. t[1] \in Peer
  BY DEF Thread
<1> QED BY <1>1, IdleAtHome, MoveAtHome DEF Leave

(* A goroutine that starts or goes on writing keeps the target it has. *)
LEMMA GotoAtHome ==
    ASSUME IsoInv, NEW t \in Thread, NEW pc \in PC, Goto(t, pc),
           pc \in {"write", "pstat", "pmark"} =>
               thread[t].pc \in {"write", "pstat", "pmark"}
    PROVE  ThreadsAtHome'
<1> DEFINE r == [thread[t] EXCEPT !.pc = pc]
<1>1. thread[t] \in ThreadState /\ InGroup(t[1], thread[t])
  BY DEF IsoInv, TypeInv, TypeOK, ThreadsAtHome
<1>2. InGroup(t[1], r)
  BY <1>1 DEF ThreadState, InGroup
<1> QED BY <1>2, MoveAtHome DEF Goto

LEMMA WriteAtHome ==
    ASSUME IsoInv, NEW p \in Peer, NEW f \in File, AtHome(f, Group[p]), WriteFile(p, f)
    PROVE  DisksAtHome'
BY DEF IsoInv, TypeInv, TypeOK, DisksAtHome, WriteFile

LEMMA IsoInit == Init => IsoInv
<1> SUFFICES ASSUME Init PROVE IsoInv
  OBVIOUS
<1>1. DisksAtHome
  BY DEF Init, DisksAtHome, AtHome
<1>2. ThreadsAtHome
  <2>1. \A t \in Thread : t[1] \in Peer
    BY DEF Thread
  <2> QED BY <2>1, IdleAtHome DEF Init, ThreadsAtHome
<1> QED BY <1>1, <1>2, TypeInit DEF IsoInv

(* A user writes what belongs to the group, or what already is there. *)
LEMMA IsoUser ==
    ASSUME IsoInv, NEW p \in Peer, UserStep(p)
    PROVE  DisksAtHome' /\ ThreadsAtHome'
<1>1. ThreadsAtHome'
  BY DEF UserStep, UserWrite, UserDelete, UserTouch, Edit, IsoInv, ThreadsAtHome
<1>2. ASSUME NEW c \in Writable, UserWrite(p, c)
      PROVE  DisksAtHome'
  BY <1>2, WriteAtHome DEF UserWrite, Edit, AtHome, File
<1>3. CASE UserDelete(p)
  BY <1>1, <1>3, WriteAtHome DEF UserDelete, Edit, AtHome, File
<1>4. CASE UserTouch(p)
  <2>1. disk[p] \in File /\ AtHome(disk[p], Group[p])
    BY DEF IsoInv, TypeInv, TypeOK, DisksAtHome
  <2> QED BY <1>1, <1>4, <2>1, WriteAtHome DEF UserTouch
<1> QED BY <1>1, <1>2, <1>3, <1>4 DEF UserStep

(* Scans, timers, restarts and evictions leave the disks alone, and what
   they start carries nothing yet. *)
LEMMA IsoStart ==
    ASSUME IsoInv,
           \/ \E p \in Peer : Scan(p) \/ Evict(p)
           \/ \E p \in Peer, s \in Slot : FireTimer(p, s)
           \/ Boot \/ Crash
    PROVE  DisksAtHome' /\ ThreadsAtHome'
<1>1. DisksAtHome'
  BY DEF Scan, ScanChanges, ScanDeletions, Evict, FireTimer, Boot, Crash,
         IsoInv, DisksAtHome
<1>2. ASSUME NEW p \in Peer, Scan(p)
      PROVE  ThreadsAtHome'
  <2> DEFINE r == [Idle EXCEPT !.pc = "check"]
  <2>1. <<p, 0>> \in Thread /\ <<p, 0>>[1] = p
    BY DEF Thread, Slot
  <2>2. InGroup(p, r)
    BY DEF InGroup, AtHome, Idle
  <2>3. CASE Goto(<<p, 0>>, "read")
    BY <2>1, <2>3, GotoAtHome DEF PC
  <2>4. CASE Leave(<<p, 0>>)
    BY <2>1, <2>4, LeaveAtHome
  <2>5. CASE Move(<<p, 0>>, r)
    BY <2>1, <2>2, <2>5, MoveAtHome
  <2> QED BY <1>2, <2>3, <2>4, <2>5 DEF Scan, ScanChanges, ScanDeletions
<1>3. ASSUME NEW p \in Peer, NEW s \in Slot, FireTimer(p, s)
      PROVE  ThreadsAtHome'
  <2>1. <<p, s>> \in Thread
    BY DEF Thread
  <2> QED BY <1>3, <2>1, GotoAtHome DEF FireTimer, PC
<1>4. CASE Crash
  <2>1. \A t \in Thread : t[1] \in Peer /\ thread'[t] = Idle
    BY <1>4 DEF Crash, Thread
  <2> QED BY <1>1, <2>1, IdleAtHome DEF ThreadsAtHome
<1>5. CASE Boot \/ \E p \in Peer : Evict(p)
  BY <1>1, <1>5 DEF Boot, Evict, IsoInv, ThreadsAtHome
<1> QED BY <1>1, <1>2, <1>3, <1>4, <1>5

(* The steps of a dispatch: it reads its own peer's disk, its targets are of
   its own group, and it writes to its targets. *)
LEMMA IsoThread ==
    ASSUME IsoInv, NEW t \in Thread, ThreadStep(t)
    PROVE  DisksAtHome' /\ ThreadsAtHome'
<1> DEFINE back   == [thread[t] EXCEPT !.pc = "offer", !.at = 0]
           failed == [thread[t] EXCEPT !.pc = "offer", !.at = 0, !.err = TRUE]
<1>1. /\ t[1] \in Peer
      /\ thread[t] \in ThreadState
      /\ InGroup(t[1], thread[t])
      /\ disk[t[1]] \in File /\ AtHome(disk[t[1]], Group[t[1]])
  BY DEF IsoInv, TypeInv, TypeOK, ThreadsAtHome, DisksAtHome, Thread
<1>2. InGroup(t[1], back) /\ InGroup(t[1], failed)
  BY <1>1 DEF ThreadState, InGroup
<1>3. DisksAtHome'
  <2>1. CASE UNCHANGED disk
    BY <2>1 DEF IsoInv, DisksAtHome
  <2>2. CASE Write(t) /\ WriteFile(thread[t].at, thread[t].data)
    <3>1. /\ thread[t].at \in Peer /\ thread[t].data \in File
          /\ Group[thread[t].at] = Group[t[1]]
      BY <1>1, <2>2 DEF Write, IsoInv, TypeInv, HasTarget, Targeted, ThreadState, InGroup
    <3>2. AtHome(thread[t].data, Group[thread[t].at])
      BY <1>1, <3>1 DEF InGroup
    <3> QED BY <2>2, <3>1, <3>2, WriteAtHome
  <2> QED BY <2>1, <2>2 DEF ThreadStep, ReadFile, CheckRepeating, MarkAndDispatch, Offer,
             Write, WriteFails, PutStat, PutMark, DispatchReturns, OwnStat
<1>4. ThreadsAtHome'
  <2>1. CASE Leave(t)
    BY <2>1, LeaveAtHome
  <2>2. CASE ReadFile(t) /\ ~Leave(t)
    <3> DEFINE r == [thread[t] EXCEPT !.pc = "check", !.data = disk[t[1]]]
    <3>1. InGroup(t[1], r)
      BY <1>1 DEF ThreadState, InGroup
    <3> QED BY <2>2, <3>1, MoveAtHome DEF ReadFile
  <2>3. CASE CheckRepeating(t)
    BY <2>3, GotoAtHome DEF CheckRepeating, PC
  <2>4. CASE MarkAndDispatch(t)
    <3> DEFINE r == [thread[t] EXCEPT !.pc = "offer", !.todo = Targets(t[1])]
    <3>1. InGroup(t[1], r)
      BY <1>1 DEF ThreadState, InGroup, Targets
    <3> QED BY <2>4, <3>1, MoveAtHome DEF MarkAndDispatch
  <2>5. ASSUME NEW q \in Peer, Offer(t, q)
        PROVE  ThreadsAtHome'
    <3> DEFINE skip == [thread[t] EXCEPT !.todo = @ \ {q}]
               put  == [thread[t] EXCEPT !.todo = @ \ {q}, !.pc = "write", !.at = q]
    <3>1. InGroup(t[1], skip) /\ InGroup(t[1], put)
      BY <1>1, <2>5 DEF Offer, IsNext, ThreadState, InGroup
    <3>2. Move(t, skip) \/ Move(t, put)
      BY <2>5 DEF Offer
    <3> QED BY <3>1, <3>2, MoveAtHome
  <2>6. CASE Write(t)
    <3>1. CASE Move(t, back)
      BY <1>2, <3>1, MoveAtHome
    <3>2. CASE Goto(t, "pstat")
      BY <2>6, <3>2, GotoAtHome DEF Write, PC
    <3> QED BY <2>6, <3>1, <3>2 DEF Write
  <2>7. CASE WriteFails(t)
    BY <1>2, <2>7, MoveAtHome DEF WriteFails
  <2>8. CASE PutStat(t)
    BY <2>8, GotoAtHome DEF PutStat, PC
  <2>9. CASE PutMark(t)
    BY <1>2, <2>9, MoveAtHome DEF PutMark
  <2>10. CASE Goto(t, "stat")
    BY <2>10, GotoAtHome DEF PC
  <2> QED BY <2>1, <2>2, <2>3, <2>4, <2>5, <2>6, <2>7, <2>8, <2>9, <2>10
          DEF ThreadStep, DispatchReturns, OwnStat
<1> QED BY <1>3, <1>4

LEMMA IsoStep == IsoInv /\ [Next]_vars => IsoInv'
<1> SUFFICES ASSUME IsoInv, [Next]_vars PROVE IsoInv'
  OBVIOUS
<1>1. TypeInv'
  BY TypeStep DEF IsoInv
<1>2. DisksAtHome' /\ ThreadsAtHome'
  <2>1. CASE UNCHANGED vars
    BY <2>1 DEF vars, IsoInv, DisksAtHome, ThreadsAtHome
  <2>2. CASE Next
    BY <2>2, IsoUser, IsoStart, IsoThread DEF Next
  <2> QED BY <2>1, <2>2
<1> QED BY <1>1, <1>2 DEF IsoInv

(* Whatever the peers, groups and contents, whoever edits when, whatever
   fails: no file ever holds content written in another group
   (Hub.Dispatch routes by group). *)
THEOREM Isolation == Spec => []GroupIsolation
<1>1. IsoInv => GroupIsolation
  BY DEF IsoInv, DisksAtHome, AtHome, GroupIsolation
<1> QED BY <1>1, IsoInit, IsoStep, PTL DEF Spec

-----------------------------------------------------------------------------
(* One author.  A user who saves again before the last save has settled      *)
(* leaves the directories of the group with different versions, and every    *)
(* Put of one causes an echo.  No echo ever becomes a dispatch: the windows  *)
(* of a target are apart, so that the echo finds the hash Put marked.        *)

OneAuthor ==
    /\ Editing = "author" /\ Author \in Peer
    /\ UserOps \subseteq {"write", "touch"}
    /\ Faults \subseteq {"fail"}
    /\ WindowsApart /\ MaxOverlap = 1

Sender == <<Author, 1>>
Echo(q) == <<q, 1>>
Others == Peer \ {Author}

(* The author's dispatch has written q's file and not marked it yet. *)
Delivering(q) == thread[Sender].pc \in {"pstat", "pmark"} /\ thread[Sender].at = q

(* A peer without the file has noticed nothing; the scans found nothing. *)
Calm ==
    /\ \A p \in Peer : thread[<<p, 0>>] = Idle
    /\ (\E p \in Peer : disk[p] # Absent) => Up
    /\ \A p \in Peer : disk[p] = Absent =>
           stat[p] = "none" /\ ~pending[p] /\ thread[Echo(p)] = Idle
    /\ \A p \in Peer : Group[p] # Group[Author] => disk[p] = Absent /\ latest[Group[p]] = Absent

(* The goroutine that carries the author's saves, possibly an older one. *)
Sends(r) ==
    /\ r.pc = "idle" => r = Idle
    /\ r.pc \notin {"idle", "read"} => r.data # Absent
    /\ r.todo \subseteq Targets(Author)
    /\ IF r.pc \in {"write", "pstat", "pmark"} THEN r.at \in Targets(Author) ELSE r.at = 0

(* What q's echo is at. *)
Hears(r, q) ==
    /\ r.pc \in {"idle", "read", "check", "stat"} /\ r.at = 0
    /\ r.pc = "check" => r.data = disk[q]
    /\ r.pc \in {"read", "check"} => ~Delivering(q)

Told(q) ==
    ~Delivering(q) => cache[q] = IF disk[q] = Absent THEN NoHash ELSE Bytes(disk[q])

AuthorInv ==
    /\ TypeInv
    /\ disk[Author] = latest[Group[Author]]
    /\ Calm
    /\ Sends(thread[Sender])
    /\ thread[Sender].pc \in {"pstat", "pmark"} =>
           disk[thread[Sender].at] = thread[Sender].data
    /\ \A q \in Others : Hears(thread[Echo(q)], q) /\ Told(q)

LEMMA AuthorThreads ==
    ASSUME OneAuthor, NEW t \in Thread
    PROVE  \/ \E p \in Peer : t = <<p, 0>>
           \/ t = Sender
           \/ \E q \in Others : t = Echo(q)
<1>1. Slot = {0, 1}
  BY DEF OneAuthor, Slot
<1> QED BY <1>1 DEF Thread, Sender, Echo, Others

LEMMA AuthorNames ==
    ASSUME OneAuthor
    PROVE  /\ Sender \in Thread /\ Sender[1] = Author /\ Sender[2] = 1
           /\ \A p \in Peer : <<p, 0>> \in Thread /\ Echo(p) \in Thread
           /\ \A q \in Others : q \in Peer /\ q # Author /\ Echo(q) # Sender
           /\ Targets(Author) \subseteq Others
           /\ \A q \in Targets(Author) : Group[q] = Group[Author]
BY DEF OneAuthor, Sender, Echo, Thread, Slot, Others, Targets

LEMMA EchoApart ==
    ASSUME NEW p \in Peer, NEW q \in Peer
    PROVE  Echo(p) # <<q, 0>> /\ (Echo(p) = Echo(q) => p = q)
<1>1. Echo(p)[2] = 1 /\ <<q, 0>>[2] = 0
  BY DEF Echo
<1>2. Echo(p)[1] = p /\ Echo(q)[1] = q
  BY DEF Echo
<1>3. Echo(p) # <<q, 0>>
  BY <1>1
<1> QED BY <1>2, <1>3

LEMMA IdleSends ==
    /\ Sends(Idle) /\ Idle.pc = "idle" /\ Idle.at = 0 /\ Idle.todo = {} /\ Idle.err = FALSE
BY DEF Sends, Idle

LEMMA FileBytes ==
    ASSUME NEW f \in File, f # Absent
    PROVE  DispatchHash(f) = f /\ DeliverHash(f) = f /\ Bytes(f) = f /\ f # NoHash
BY DEF File, DispatchHash, DeliverHash, Bytes

LEMMA AuthorInit == ASSUME OneAuthor, Init PROVE AuthorInv
<1>1. TypeInv
  BY TypeInit
<1>2. \A t \in Thread : thread[t] = Idle
  BY DEF Init
<1>3. Calm
  BY <1>2, AuthorNames DEF Init, Calm, Groups
<1>4. Sends(thread[Sender]) /\ ~(thread[Sender].pc \in {"pstat", "pmark"})
  BY <1>2, AuthorNames, IdleSends
<1>5. ASSUME NEW q \in Others
      PROVE  Hears(thread[Echo(q)], q) /\ Told(q)
  <2>1. q \in Peer /\ thread[Echo(q)] = Idle
    BY <1>2, AuthorNames
  <2>2. Hears(Idle, q)
    BY DEF Hears, Idle
  <2>3. cache[q] = NoHash /\ disk[q] = Absent
    BY <2>1 DEF Init
  <2> QED BY <2>1, <2>2, <2>3 DEF Told
<1>6. disk[Author] = latest[Group[Author]]
  BY DEF OneAuthor, Init, Groups
<1> QED BY <1>1, <1>3, <1>4, <1>5, <1>6 DEF AuthorInv

(* What is known when a goroutine acts: there is a file, so the bridge is up
   and the group is the author's. *)
LEMMA AuthorActs ==
    ASSUME OneAuthor, AuthorInv, NEW t \in Thread, thread[t].pc # "idle"
    PROVE  /\ t = Sender \/ \E q \in Others : t = Echo(q)
           /\ t[1] \in Peer /\ t[2] = 1 /\ t = Echo(t[1])
           /\ disk[t[1]] # Absent /\ Group[t[1]] = Group[Author] /\ Up
           /\ thread[t] \in ThreadState
<1>1. Idle.pc = "idle"
  BY DEF Idle
<1>2. t = Sender \/ \E q \in Others : t = Echo(q)
  BY <1>1, AuthorThreads DEF AuthorInv, Calm
<1>3. t[1] \in Peer /\ t[2] = 1 /\ t = Echo(t[1])
  BY <1>2 DEF OneAuthor, Sender, Echo, Others
<1>4. disk[t[1]] # Absent
  BY <1>1, <1>3 DEF AuthorInv, Calm
<1>5. Group[t[1]] = Group[Author] /\ Up
  BY <1>3, <1>4 DEF AuthorInv, Calm
<1>6. thread[t] \in ThreadState
  BY DEF AuthorInv, TypeInv, TypeOK
<1> QED BY <1>2, <1>3, <1>4, <1>5, <1>6

(* The steps of the user: the directories of the others stay as they are. *)
LEMMA AuthorUser ==
    ASSUME OneAuthor, AuthorInv, NEW p \in Peer, UserStep(p)
    PROVE  AuthorInv'
<1>1. TypeInv /\ TypeInv'
  BY TypeUser DEF AuthorInv
<1>2. \E f \in File : /\ WriteFile(p, f) /\ f # Absent /\ UNCHANGED <<cache, mode, thread>>
                      /\ Up
                      /\ \/ p = Author /\ latest' = [latest EXCEPT ![Group[p]] = f]
                         \/ f = disk[p] /\ latest' = latest
  <2>1. ASSUME NEW c \in Writable, UserWrite(p, c)
        PROVE  /\ c \in File /\ c # Absent
               /\ WriteFile(p, c) /\ UNCHANGED <<cache, mode, thread>> /\ Up /\ p = Author
               /\ latest' = [latest EXCEPT ![Group[p]] = c]
    <3>1. c \in File /\ c # Absent
      BY DEF File
    <3>2. Editing = "author"
      BY DEF OneAuthor
    <3> QED BY <2>1, <3>1, <3>2 DEF UserWrite, Edit, MayEdit
  <2>2. ~UserDelete(p)
    BY DEF OneAuthor, UserDelete
  <2>3. CASE UserTouch(p)
    <3>1. disk[p] \in File /\ disk[p] # Absent
      BY <1>1, <2>3 DEF UserTouch, TypeInv, TypeOK
    <3>2. Up
      BY <3>1 DEF AuthorInv, Calm
    <3> QED BY <2>3, <3>1, <3>2 DEF UserTouch
  <2> QED BY <2>1, <2>2, <2>3 DEF UserStep
<1>3. PICK f \in File : /\ WriteFile(p, f) /\ f # Absent /\ UNCHANGED <<cache, mode, thread>>
                        /\ Up
                        /\ \/ p = Author /\ latest' = [latest EXCEPT ![Group[p]] = f]
                           \/ f = disk[p] /\ latest' = latest
  BY <1>2
<1>4. /\ \A q \in Others : disk'[q] = disk[q]
      /\ disk' \in [Peer -> File] /\ disk'[p] = f
      /\ \A q \in Peer : q # p => /\ disk'[q] = disk[q] /\ stat'[q] = stat[q]
                                  /\ pending'[q] = pending[q]
  BY <1>1, <1>3, AuthorNames DEF WriteFile, TypeInv, TypeOK
<1>5. disk'[Author] = latest'[Group[Author]]
  BY <1>1, <1>3, <1>4 DEF AuthorInv, OneAuthor, TypeInv, TypeOK, Groups
<1>6. Group[p] = Group[Author]
  BY <1>3 DEF AuthorInv, Calm
<1>7. Calm'
  <2>1. Up'
    BY <1>3 DEF Up
  <2>2. ASSUME NEW q \in Peer, disk'[q] = Absent
        PROVE  stat'[q] = "none" /\ ~pending'[q] /\ thread'[Echo(q)] = Idle
    <3>1. q # p
      BY <1>3, <1>4, <2>2
    <3> QED BY <1>3, <1>4, <2>2, <3>1 DEF AuthorInv, Calm
  <2>3. ASSUME NEW q \in Peer, Group[q] # Group[Author]
        PROVE  disk'[q] = Absent /\ latest'[Group[q]] = Absent
    <3>1. Group[q] \in Groups /\ q # p
      BY <1>6, <2>3 DEF Groups
    <3>2. latest'[Group[q]] = latest[Group[q]]
      BY <1>1, <1>3, <1>6, <2>3, <3>1 DEF TypeInv, TypeOK
    <3> QED BY <1>4, <2>3, <3>1, <3>2 DEF AuthorInv, Calm
  <2> QED BY <1>3, <2>1, <2>2, <2>3 DEF AuthorInv, Calm
<1>8. Sends(thread'[Sender])
  BY <1>3 DEF AuthorInv
<1>9. ASSUME thread'[Sender].pc \in {"pstat", "pmark"}
      PROVE  disk'[thread'[Sender].at] = thread'[Sender].data
  <2>1. thread'[Sender] = thread[Sender]
    BY <1>3
  <2>2. thread[Sender].at \in Others /\ disk[thread[Sender].at] = thread[Sender].data
    BY <1>9, <2>1, AuthorNames DEF AuthorInv, Sends
  <2> QED BY <1>4, <2>1, <2>2
<1>10. ASSUME NEW q \in Others
       PROVE  Hears(thread[Echo(q)], q)' /\ Told(q)'
  <2>1. /\ thread' = thread /\ cache' = cache /\ disk'[q] = disk[q]
        /\ Delivering(q)' = Delivering(q)
    BY <1>3, <1>4 DEF Delivering
  <2> QED BY <2>1 DEF AuthorInv, Hears, Told
<1> QED BY <1>1, <1>5, <1>7, <1>8, <1>9, <1>10 DEF AuthorInv, Sends

(* Starting the bridge finds no file; a timer fires only away from a Put. *)
LEMMA AuthorStart ==
    ASSUME OneAuthor, AuthorInv, Boot \/ \E p \in Peer : Scan(p)
    PROVE  AuthorInv' /\ UNCHANGED <<disk, cache, pending, thread, latest>>
<1>1. TypeInv /\ TypeInv'
  BY TypeScan, TypeFaults DEF AuthorInv
<1>2. UNCHANGED <<disk, stat, cache, pending, latest>>
  BY DEF Boot, Scan, ScanChanges, ScanDeletions
<1>3. ~Up
  BY DEF Boot, Scan, ScanChanges, ScanDeletions, Up, OneAuthor
<1>4. \A p \in Peer : disk[p] = Absent /\ stat[p] = "none"
  BY <1>3 DEF AuthorInv, Calm
<1>5. thread' = thread
  <2>1. ASSUME NEW p \in Peer, Scan(p)
        PROVE  thread' = thread
    <3>1. Leave(<<p, 0>>)
      BY <1>4, <2>1 DEF Scan, ScanChanges, ScanDeletions
    <3>2. thread[<<p, 0>>] = Idle
      BY DEF AuthorInv, Calm
    <3> QED BY <1>1, <3>1, <3>2, AuthorNames DEF Leave, Move, TypeInv, TypeOK
  <2> QED BY <2>1 DEF Boot
<1>6. Calm'
  BY <1>2, <1>4, <1>5 DEF AuthorInv, Calm
<1> QED BY <1>1, <1>2, <1>5, <1>6
     DEF AuthorInv, Sends, Hears, Told, Delivering

(* A goroutine of peer p moves, and nothing of what is written. *)
LEMMA AuthorTimer ==
    ASSUME OneAuthor, AuthorInv, NEW p \in Peer, NEW s \in Slot, FireTimer(p, s)
    PROVE  /\ AuthorInv' /\ UNCHANGED <<disk, cache, mode, latest>>
           /\ p # Author => thread'[Sender] = thread[Sender] /\ pending'[Author] = pending[Author]
           /\ p = Author => thread'[Sender].pc = "read" /\ thread'[Sender].err = FALSE
                            /\ thread[Sender].pc = "idle"
<1>1. TypeInv /\ TypeInv'
  BY TypeTimer DEF AuthorInv
<1>2. s = 1 /\ <<p, s>> = Echo(p)
  BY DEF OneAuthor, Slot, FireTimer, Echo
<1> DEFINE r == [thread[Echo(p)] EXCEPT !.pc = "read"]
<1>3. /\ disk[p] # Absent /\ Up /\ Group[p] = Group[Author]
      /\ UNCHANGED <<disk, stat, cache, mode, latest>>
      /\ pending' = [pending EXCEPT ![p] = FALSE]
      /\ thread[Echo(p)].pc = "idle" /\ thread' = [thread EXCEPT ![Echo(p)] = r]
  BY <1>2 DEF FireTimer, AuthorInv, Calm, Goto, Move
<1>4. \A t \in Thread : thread[t].at # p
  BY DEF OneAuthor, FireTimer
<1>5. thread[Echo(p)] \in ThreadState /\ Echo(p) \in Thread
  BY <1>1, AuthorNames DEF TypeInv, TypeOK
<1>6. /\ r.pc = "read" /\ r.at = thread[Echo(p)].at /\ r.todo = thread[Echo(p)].todo
      /\ r.err = thread[Echo(p)].err
  BY <1>5 DEF ThreadState
<1> HIDE DEF r
<1>7. /\ thread'[Echo(p)] = r
      /\ \A t \in Thread : t # Echo(p) => thread'[t] = thread[t]
      /\ pending'[p] = FALSE
      /\ \A q \in Peer : q # p => pending'[q] = pending[q]
  BY <1>1, <1>3, <1>5 DEF TypeInv, TypeOK
<1>8. Calm'
  <2>1. Up' = Up
    BY <1>3 DEF Up
  <2>2. \A q \in Peer : <<q, 0>> # Echo(p) /\ (q # p => Echo(q) # Echo(p))
    BY EchoApart
  <2>3. \A q \in Peer : thread'[<<q, 0>>] = thread[<<q, 0>>]
    BY <1>7, <2>2, AuthorNames
  <2>4. \A q \in Peer : q # p => thread'[Echo(q)] = thread[Echo(q)]
    BY <1>7, <2>2, AuthorNames
  <2> QED BY <1>3, <1>7, <2>1, <2>3, <2>4 DEF AuthorInv, Calm
<1>9. /\ Sends(thread'[Sender])
      /\ p = Author => thread'[Sender].pc = "read" /\ thread'[Sender].err = FALSE
                       /\ thread[Sender].pc = "idle"
      /\ p # Author => thread'[Sender] = thread[Sender]
      /\ \A q \in Others : Delivering(q)' <=> Delivering(q)
      /\ thread'[Sender].pc \in {"pstat", "pmark"} =>
           disk'[thread'[Sender].at] = thread'[Sender].data
  <2>1. CASE p = Author
    <3>1. Echo(p) = Sender
      BY <2>1 DEF Echo, Sender
    <3>2. thread[Sender] = Idle /\ thread[Echo(p)] = Idle
      BY <1>3, <3>1 DEF AuthorInv, Sends
    <3>3. thread'[Sender].pc = "read" /\ thread'[Sender].at = 0 /\ thread'[Sender].todo = {}
          /\ thread'[Sender].err = FALSE
      BY <1>6, <1>7, <3>1, <3>2, IdleSends
    <3> QED BY <1>3, <2>1, <3>1, <3>2, <3>3 DEF Sends, Delivering, Idle
  <2>2. CASE p # Author
    <3>1. Echo(p) # Sender
      BY <2>2 DEF Echo, Sender
    <3>2. thread'[Sender] = thread[Sender]
      BY <1>7, <3>1, AuthorNames
    <3> QED BY <1>3, <2>2, <3>2 DEF AuthorInv, Delivering
  <2> QED BY <2>1, <2>2
<1>10. ASSUME NEW q \in Others
       PROVE  Hears(thread[Echo(q)], q)' /\ Told(q)'
  <2>1. Told(q)'
    BY <1>3, <1>9 DEF AuthorInv, Told
  <2>2. CASE q = p
    <3>1. ~Delivering(q)
      BY <1>4, <2>2, AuthorNames DEF Delivering
    <3>2. r.at = 0 /\ r.pc = "read"
      BY <1>6, <2>2 DEF AuthorInv, Hears
    <3>3. thread'[Echo(q)] = r /\ ~Delivering(q)'
      BY <1>7, <1>9, <2>2, <3>1
    <3> QED BY <2>1, <3>2, <3>3 DEF Hears
  <2>3. CASE q # p
    <3>1. thread'[Echo(q)] = thread[Echo(q)]
      BY <1>7, <2>3, AuthorNames, EchoApart
    <3>2. (Delivering(q)' <=> Delivering(q)) /\ disk' = disk
      BY <1>3, <1>9
    <3> QED BY <2>1, <3>1, <3>2 DEF AuthorInv, Hears
  <2> QED BY <2>2, <2>3
<1>11. AuthorInv'
  BY <1>1, <1>3, <1>8, <1>9, <1>10 DEF AuthorInv
<1> QED BY <1>3, <1>7, <1>9, <1>11 DEF OneAuthor

(* A step of an echo goes no further than IsRepeating. *)
LEMMA AuthorEcho ==
    ASSUME OneAuthor, AuthorInv, NEW q \in Others, ThreadStep(Echo(q))
    PROVE  /\ AuthorInv'
           /\ UNCHANGED <<disk, cache, pending, mode, latest>>
           /\ thread'[Sender] = thread[Sender]
<1> DEFINE t == Echo(q)
           b == thread[t]
<1>1. TypeInv /\ TypeInv'
  BY AuthorNames, TypeRead, TypeDispatch, TypePut, TypeReturn DEF AuthorInv, ThreadStep
<1>2. /\ q \in Peer /\ t \in Thread /\ t # Sender /\ t[1] = q /\ t[2] = 1
      /\ b \in ThreadState /\ disk \in [Peer -> File]
  BY <1>1, AuthorNames DEF TypeInv, TypeOK, Echo
<1>3. Hears(b, q) /\ Told(q)
  BY DEF AuthorInv
<1>4. ReadFile(t) \/ CheckRepeating(t) \/ OwnStat(t)
  BY <1>3 DEF ThreadStep, MarkAndDispatch, Offer, Write, WriteFails, PutStat, PutMark,
              DispatchReturns, Hears
<1>5. disk[q] # Absent /\ Group[q] = Group[Author] /\ Up
  <2>1. b.pc # "idle"
    BY <1>4 DEF ReadFile, CheckRepeating, OwnStat
  <2> QED BY <1>2, <2>1, AuthorActs
<1>6. \E r : /\ Move(t, r) /\ r.pc \in {"idle", "check", "stat"} /\ r.at = 0
             /\ r.pc = "check" => r.data = disk[q] /\ b.pc = "read"
             /\ mode' = mode
  <2>1. CASE ReadFile(t)
    <3> DEFINE r == [b EXCEPT !.pc = "check", !.data = disk[q]]
    <3>1. r.pc = "check" /\ r.data = disk[q] /\ r.at = b.at /\ b.pc = "read"
      BY <1>2, <2>1 DEF ThreadState, ReadFile
    <3>2. Move(t, r) /\ mode' = mode
      BY <1>2, <1>5, <2>1 DEF ReadFile
    <3> HIDE DEF r
    <3> QED BY <1>3, <3>1, <3>2 DEF Hears
  <2>2. CASE CheckRepeating(t)
    <3> DEFINE r == [b EXCEPT !.pc = "stat"]
    <3>1. r.pc = "stat" /\ r.at = b.at
      BY <1>2 DEF ThreadState
    <3>2. cache[q] = DispatchHash(b.data)
      BY <1>2, <1>3, <1>5, <2>2 DEF Hears, Told, CheckRepeating, DispatchHash
    <3>3. Move(t, r) /\ mode' = mode
      BY <1>2, <2>2, <3>2 DEF CheckRepeating, IsRepeating, Goto
    <3> HIDE DEF r
    <3> QED BY <1>3, <3>1, <3>3 DEF Hears
  <2>3. CASE OwnStat(t)
    BY <1>2, <2>3, IdleSends DEF OwnStat, Leave
  <2> QED BY <1>4, <2>1, <2>2, <2>3
<1>7. /\ UNCHANGED <<disk, cache, pending, mode, latest>>
      /\ \A p \in Peer : p # q => stat'[p] = stat[p]
  BY <1>1, <1>2, <1>4, <1>6 DEF ReadFile, CheckRepeating, OwnStat, TypeInv, TypeOK
<1>8. PICK r : /\ Move(t, r) /\ r.pc \in {"idle", "check", "stat"} /\ r.at = 0
               /\ r.pc = "check" => r.data = disk[q] /\ b.pc = "read"
  BY <1>6
<1> HIDE DEF t, b
<1>9. thread'[t] = r /\ \A u \in Thread : u # t => thread'[u] = thread[u]
  BY <1>1, <1>2, <1>8 DEF Move, TypeInv, TypeOK
<1>10. thread'[Sender] = thread[Sender]
  BY <1>2, <1>9, AuthorNames
<1>11. Calm'
  <2>1. Up'
    BY <1>5, <1>7 DEF Up
  <2>2. \A p \in Peer : thread'[<<p, 0>>] = thread[<<p, 0>>]
    BY <1>2, <1>9, EchoApart, AuthorNames DEF t
  <2>3. \A p \in Peer : p # q => thread'[Echo(p)] = thread[Echo(p)]
    BY <1>2, <1>9, EchoApart, AuthorNames DEF t
  <2> QED BY <1>5, <1>7, <2>1, <2>2, <2>3 DEF AuthorInv, Calm
<1>12. ASSUME NEW p \in Others
       PROVE  Hears(thread[Echo(p)], p)' /\ Told(p)'
  <2>1. (Delivering(p)' <=> Delivering(p)) /\ disk' = disk /\ cache' = cache
    BY <1>7, <1>10 DEF Delivering
  <2>2. Told(p)'
    BY <2>1 DEF AuthorInv, Told
  <2>3. CASE p = q
    <3>1. thread'[Echo(p)] = r
      BY <1>9, <2>3 DEF t
    <3>2. b.pc = "read" => ~Delivering(p)
      BY <1>3, <2>3 DEF Hears
    <3> QED BY <1>8, <2>1, <2>2, <2>3, <3>1, <3>2 DEF Hears
  <2>4. CASE p # q
    <3>1. thread'[Echo(p)] = thread[Echo(p)]
      BY <1>2, <1>9, <2>4, EchoApart, AuthorNames DEF t
    <3> QED BY <2>1, <2>2, <3>1 DEF AuthorInv, Hears
  <2> QED BY <2>3, <2>4
<1> QED BY <1>1, <1>7, <1>10, <1>11, <1>12 DEF AuthorInv

(* Where each step takes the author's goroutine. *)
Same(b, r) == r.data = b.data /\ r.todo = b.todo /\ r.at = b.at /\ r.err = b.err

AuthorMove(b, r) ==
    \/ /\ ReadFile(Sender) /\ b.pc = "read"
       /\ r.pc = "check" /\ r.data = disk[Author]
       /\ r.todo = b.todo /\ r.at = b.at /\ r.err = b.err
    \/ /\ CheckRepeating(Sender) /\ b.pc = "check" /\ Same(b, r)
       /\ r.pc = "mark" \/ (r.pc = "stat" /\ cache[Author] = b.data)
    \/ /\ MarkAndDispatch(Sender) /\ b.pc = "mark"
       /\ r.pc = "offer" /\ r.todo = Targets(Author)
       /\ r.data = b.data /\ r.at = b.at /\ r.err = b.err
    \/ /\ b.pc = "offer" /\ r.data = b.data /\ r.err = b.err
       /\ \E q \in b.todo : /\ Offer(Sender, q) /\ r.todo = b.todo \ {q}
                            /\ \/ r.pc = "offer" /\ r.at = b.at /\ cache[q] = b.data
                               \/ r.pc = "write" /\ r.at = q
    \/ /\ Write(Sender) /\ b.pc = "write" /\ Same(b, r)
       /\ r.pc = "pstat" /\ WriteFile(b.at, b.data)
    \/ /\ WriteFails(Sender) /\ b.pc = "write"
       /\ r.pc = "offer" /\ r.at = 0 /\ r.data = b.data /\ r.todo = b.todo
    \/ PutStat(Sender) /\ b.pc = "pstat" /\ r.pc = "pmark" /\ Same(b, r)
    \/ /\ PutMark(Sender) /\ b.pc = "pmark"
       /\ r.pc = "offer" /\ r.at = 0 /\ r.data = b.data /\ r.todo = b.todo /\ r.err = b.err
    \/ /\ DispatchReturns(Sender) /\ b.pc = "offer" /\ b.todo = {}
       /\ \/ r = Idle /\ b.err
          \/ r.pc = "stat" /\ Same(b, r) /\ ~b.err
    \/ OwnStat(Sender) /\ b.pc = "stat" /\ r = Idle

LEMMA AuthorMoves ==
    ASSUME OneAuthor, AuthorInv, ThreadStep(Sender)
    PROVE  /\ AuthorMove(thread[Sender], thread'[Sender])
           /\ mode' = mode /\ latest' = latest
           /\ \A u \in Thread : u # Sender => thread'[u] = thread[u]
<1> DEFINE b == thread[Sender]
<1>1. /\ TypeInv /\ Sender \in Thread /\ Sender[1] = Author /\ Sender[2] = 1
      /\ b \in ThreadState /\ Sends(b)
  BY AuthorNames DEF AuthorInv, TypeInv, TypeOK
<1>2. b.pc # "idle"
  BY DEF ThreadStep, ReadFile, CheckRepeating, MarkAndDispatch, Offer, Write, WriteFails,
         PutStat, PutMark, DispatchReturns, OwnStat
<1>3. disk[Author] # Absent
  BY <1>1, <1>2, AuthorActs
<1>4. b.pc # "read" => /\ b.data \in File /\ b.data # Absent
                       /\ DispatchHash(b.data) = b.data /\ DeliverHash(b.data) = b.data
  BY <1>1, <1>2, FileBytes DEF Sends, ThreadState
<1>5. \A r : Move(Sender, r) => /\ thread'[Sender] = r
                                /\ \A u \in Thread : u # Sender => thread'[u] = thread[u]
  BY <1>1 DEF Move, TypeInv, TypeOK
<1>6. \A pc \in PC : /\ [b EXCEPT !.pc = pc].pc = pc
                     /\ Same(b, [b EXCEPT !.pc = pc])
  BY <1>1 DEF Same, ThreadState
<1>7. Leave(Sender) => Move(Sender, Idle) /\ mode' = mode
  BY <1>1 DEF Leave
<1>8. CASE ReadFile(Sender)
  <2> DEFINE r == [b EXCEPT !.pc = "check", !.data = disk[Author]]
  <2>1. Move(Sender, r) /\ mode' = mode /\ b.pc = "read" /\ latest' = latest
    BY <1>1, <1>3, <1>8 DEF ReadFile
  <2>2. /\ r.pc = "check" /\ r.data = disk[Author]
        /\ r.todo = b.todo /\ r.at = b.at /\ r.err = b.err
    BY <1>1 DEF ThreadState
  <2> HIDE DEF r, b
  <2> QED BY <1>5, <1>8, <2>1, <2>2 DEF AuthorMove, b
<1>9. CASE CheckRepeating(Sender)
  <2>1. /\ b.pc = "check" /\ mode' = mode /\ latest' = latest
        /\ \/ Goto(Sender, "mark")
           \/ Goto(Sender, "stat") /\ cache[Author] = b.data
    BY <1>1, <1>4, <1>9 DEF CheckRepeating, IsRepeating
  <2> QED BY <1>5, <1>6, <1>9, <2>1 DEF Goto, PC, AuthorMove
<1>10. CASE MarkAndDispatch(Sender)
  <2> DEFINE r == [b EXCEPT !.pc = "offer", !.todo = Targets(Author)]
  <2>1. Move(Sender, r) /\ mode' = mode /\ b.pc = "mark" /\ latest' = latest
    BY <1>1, <1>10 DEF MarkAndDispatch
  <2>2. /\ r.pc = "offer" /\ r.todo = Targets(Author)
        /\ r.data = b.data /\ r.at = b.at /\ r.err = b.err
    BY <1>1 DEF ThreadState
  <2> HIDE DEF r, b
  <2> QED BY <1>5, <1>10, <2>1, <2>2 DEF AuthorMove, b
<1>11. ASSUME NEW q \in Peer, Offer(Sender, q)
       PROVE  /\ AuthorMove(b, thread'[Sender]) /\ mode' = mode /\ latest' = latest
              /\ \A u \in Thread : u # Sender => thread'[u] = thread[u]
  <2> DEFINE skip == [b EXCEPT !.todo = @ \ {q}]
             put  == [b EXCEPT !.todo = @ \ {q}, !.pc = "write", !.at = q]
  <2>1. b.pc = "offer" /\ q \in b.todo /\ mode' = mode /\ latest' = latest
    BY <1>11 DEF Offer, IsNext
  <2>2. \/ Move(Sender, skip) /\ cache[q] = b.data
        \/ Move(Sender, put)
    BY <1>4, <1>11, <2>1 DEF Offer, IsRepeating
  <2>3. /\ skip.pc = b.pc /\ skip.todo = b.todo \ {q} /\ skip.at = b.at
        /\ skip.data = b.data /\ skip.err = b.err
    BY <1>1 DEF ThreadState
  <2>4. /\ put.pc = "write" /\ put.todo = b.todo \ {q} /\ put.at = q
        /\ put.data = b.data /\ put.err = b.err
    BY <1>1 DEF ThreadState
  <2> HIDE DEF skip, put, b
  <2>5. CASE Move(Sender, skip) /\ cache[q] = b.data
    BY <1>5, <1>11, <2>1, <2>3, <2>5 DEF AuthorMove
  <2>6. CASE Move(Sender, put)
    BY <1>5, <1>11, <2>1, <2>4, <2>6 DEF AuthorMove
  <2> QED BY <2>2, <2>5, <2>6 DEF b
<1>12. CASE Write(Sender)
  <2>1. /\ b.pc = "write" /\ mode' = mode /\ latest' = latest
        /\ WriteFile(b.at, b.data) /\ Goto(Sender, "pstat")
    BY <1>4, <1>12 DEF Write
  <2> QED BY <1>5, <1>6, <1>12, <2>1 DEF Goto, PC, AuthorMove
<1>13. CASE WriteFails(Sender)
  <2> DEFINE r == [b EXCEPT !.pc = "offer", !.at = 0, !.err = TRUE]
  <2>1. Move(Sender, r) /\ mode' = mode /\ b.pc = "write" /\ latest' = latest
    BY <1>13 DEF WriteFails
  <2>2. r.pc = "offer" /\ r.at = 0 /\ r.data = b.data /\ r.todo = b.todo
    BY <1>1 DEF ThreadState
  <2> HIDE DEF r, b
  <2> QED BY <1>5, <1>13, <2>1, <2>2 DEF AuthorMove, b
<1>14. CASE PutStat(Sender)
  <2>1. b.pc = "pstat" /\ mode' = mode /\ latest' = latest /\ Goto(Sender, "pmark")
    BY <1>14 DEF PutStat
  <2> QED BY <1>5, <1>6, <1>14, <2>1 DEF Goto, PC, AuthorMove
<1>15. CASE PutMark(Sender)
  <2> DEFINE r == [b EXCEPT !.pc = "offer", !.at = 0]
  <2>1. Move(Sender, r) /\ mode' = mode /\ b.pc = "pmark" /\ latest' = latest
    BY <1>15 DEF PutMark
  <2>2. r.pc = "offer" /\ r.at = 0 /\ r.data = b.data /\ r.todo = b.todo /\ r.err = b.err
    BY <1>1 DEF ThreadState
  <2> HIDE DEF r, b
  <2> QED BY <1>5, <1>15, <2>1, <2>2 DEF AuthorMove, b
<1>16. CASE DispatchReturns(Sender)
  <2>1. /\ b.pc = "offer" /\ b.todo = {} /\ mode' = mode /\ latest' = latest
        /\ \/ Move(Sender, Idle) /\ b.err
           \/ Goto(Sender, "stat") /\ ~b.err
    BY <1>7, <1>16 DEF DispatchReturns
  <2> QED BY <1>5, <1>6, <1>16, <2>1 DEF Goto, PC, AuthorMove
<1>17. CASE OwnStat(Sender)
  <2>1. b.pc = "stat" /\ mode' = mode /\ latest' = latest /\ Move(Sender, Idle)
    BY <1>7, <1>17 DEF OwnStat
  <2> QED BY <1>5, <1>17, <2>1 DEF AuthorMove
<1> QED BY <1>8, <1>9, <1>10, <1>11, <1>12, <1>13, <1>14, <1>15, <1>16, <1>17 DEF ThreadStep

(* What it leaves alone: all but the file it writes and the hash it marks. *)
Delivers == {"write", "pstat", "pmark"}

LEMMA AuthorLocal ==
    ASSUME OneAuthor, AuthorInv, ThreadStep(Sender), NEW q \in Peer
    PROVE  LET b == thread[Sender] IN
           /\ ~(Write(Sender) /\ q = b.at) => disk'[q] = disk[q] /\ pending'[q] = pending[q]
           /\ ~((Write(Sender) \/ PutStat(Sender)) /\ q = b.at) /\ q # Author =>
                  stat'[q] = stat[q]
           /\ ~(PutMark(Sender) /\ q = b.at) /\ q # Author => cache'[q] = cache[q]
           /\ ~MarkAndDispatch(Sender) /\ ~(PutMark(Sender) /\ q = b.at) => cache'[q] = cache[q]
<1> DEFINE b == thread[Sender]
<1>1. /\ disk \in [Peer -> File] /\ pending \in [Peer -> BOOLEAN] /\ cache \in [Peer -> Hash]
      /\ stat \in [Peer -> {"none", "old", "current"}] /\ Sender[1] = Author
  BY AuthorNames DEF AuthorInv, TypeInv, TypeOK
<1>2. ~(Write(Sender) /\ q = b.at) => disk'[q] = disk[q] /\ pending'[q] = pending[q]
  BY <1>1 DEF ThreadStep, ReadFile, CheckRepeating, MarkAndDispatch, Offer, Write, WriteFails,
         PutStat, PutMark, DispatchReturns, OwnStat, WriteFile
<1>3. ~((Write(Sender) \/ PutStat(Sender)) /\ q = b.at) /\ q # Author => stat'[q] = stat[q]
  BY <1>1 DEF ThreadStep, ReadFile, CheckRepeating, MarkAndDispatch, Offer, Write, WriteFails,
         PutStat, PutMark, DispatchReturns, OwnStat, WriteFile
<1>4. ~(PutMark(Sender) /\ q = b.at) /\ q # Author => cache'[q] = cache[q]
  BY <1>1 DEF ThreadStep, ReadFile, CheckRepeating, MarkAndDispatch, Offer, Write, WriteFails,
         PutStat, PutMark, DispatchReturns, OwnStat, MarkProcessed
<1>5. ~MarkAndDispatch(Sender) /\ ~(PutMark(Sender) /\ q = b.at) => cache'[q] = cache[q]
  BY <1>1 DEF ThreadStep, ReadFile, CheckRepeating, MarkAndDispatch, Offer, Write, WriteFails,
         PutStat, PutMark, DispatchReturns, OwnStat, MarkProcessed
<1> QED BY <1>2, <1>3, <1>4, <1>5

(* The steps of the author's goroutine. *)
LEMMA AuthorSend ==
    ASSUME OneAuthor, AuthorInv, ThreadStep(Sender)
    PROVE  AuthorInv'
<1> DEFINE b == thread[Sender]
           r == thread'[Sender]
<1>1. /\ TypeInv /\ TypeInv' /\ Sender \in Thread /\ Sends(b) /\ b \in ThreadState
      /\ disk \in [Peer -> File] /\ cache \in [Peer -> Hash]
      /\ stat \in [Peer -> {"none", "old", "current"}]
      /\ b.pc \in {"pstat", "pmark"} => disk[b.at] = b.data
  BY AuthorNames, TypeRead, TypeDispatch, TypePut, TypeReturn
     DEF AuthorInv, TypeInv, TypeOK, ThreadStep
<1>2. /\ AuthorMove(b, r) /\ mode' = mode /\ latest' = latest
      /\ \A u \in Thread : u # Sender => thread'[u] = thread[u]
  BY AuthorMoves
<1>3. b.pc # "idle"
  BY <1>2 DEF AuthorMove
<1>4. Up /\ disk[Author] # Absent
  BY <1>1, <1>3, AuthorActs, AuthorNames
<1>5. b.pc # "read" => /\ b.data \in File /\ b.data # Absent /\ Bytes(b.data) = b.data
                       /\ DeliverHash(b.data) = b.data
  BY <1>1, <1>3, FileBytes DEF Sends, ThreadState
<1>6. b.pc \in Delivers => b.at \in Targets(Author) /\ b.at \in Others /\ b.at \in Peer
  BY <1>1, AuthorNames DEF Sends, Delivers
<1>7. /\ Write(Sender) => /\ b.pc = "write" /\ r.pc = "pstat" /\ Same(b, r)
                          /\ disk'[b.at] = b.data
                          /\ \A u \in Slot : ~Reading(<<b.at, u>>)
      /\ PutStat(Sender) => b.pc = "pstat"
      /\ PutMark(Sender) => b.pc = "pmark" /\ cache'[b.at] = b.data
      /\ MarkAndDispatch(Sender) => b.pc = "mark"
  <2>1. ASSUME Write(Sender)
        PROVE  /\ b.pc = "write" /\ r.pc = "pstat" /\ Same(b, r) /\ disk'[b.at] = b.data
               /\ \A u \in Slot : ~Reading(<<b.at, u>>)
    <3>1. b.pc = "write" /\ b.data # Absent
      BY <1>5, <2>1 DEF Write
    <3>2. WriteFile(b.at, b.data) /\ Goto(Sender, "pstat")
      BY <2>1, <3>1 DEF Write
    <3>3. \A u \in Slot : ~Reading(<<b.at, u>>)
      BY <2>1 DEF Write, OneAuthor
    <3>4. thread'[Sender] = [b EXCEPT !.pc = "pstat"]
      BY <1>1, <3>2 DEF Goto, Move, TypeInv, TypeOK
    <3>5. r.pc = "pstat" /\ Same(b, r)
      BY <1>1, <3>4 DEF ThreadState, Same
    <3>6. disk'[b.at] = b.data
      BY <1>1, <1>6, <3>1, <3>2 DEF WriteFile, Delivers
    <3> QED BY <3>1, <3>3, <3>5, <3>6
  <2>2. PutMark(Sender) => b.pc = "pmark" /\ cache'[b.at] = b.data
    BY <1>1, <1>5, <1>6 DEF PutMark, MarkProcessed, Delivers
  <2> QED BY <2>1, <2>2 DEF PutStat, MarkAndDispatch
<1>8. Sends(r)
  <2>1. Targets(Author) \subseteq Targets(Author)
    OBVIOUS
  <2> HIDE DEF b, r
  <2> QED BY <1>1, <1>2, <1>3, <1>4, <1>5, <2>1, IdleSends DEF AuthorMove, Sends, Same
<1>9. r.pc \in {"pstat", "pmark"} =>
           r.at = b.at /\ r.data = b.data /\ (Write(Sender) \/ PutStat(Sender))
  <2> HIDE DEF b, r
  <2> QED BY <1>2, IdleSends DEF AuthorMove, Same
<1>10. b.pc \in {"pstat", "pmark"} =>
           \/ PutStat(Sender) /\ r.pc = "pmark" /\ r.at = b.at
           \/ PutMark(Sender)
  <2> HIDE DEF b, r
  <2> QED BY <1>2 DEF AuthorMove, Same
<1>11. r.pc \in {"pstat", "pmark"} => disk'[r.at] = r.data
  <2>1. CASE Write(Sender)
    BY <1>7, <1>9, <2>1
  <2>2. CASE PutStat(Sender)
    <3>1. b.at \in Peer /\ disk[b.at] = b.data /\ ~Write(Sender)
      BY <1>1, <1>6, <1>7, <2>2 DEF Delivers
    <3>2. disk'[b.at] = disk[b.at]
      BY <3>1, AuthorLocal
    <3> QED BY <1>9, <3>1, <3>2
  <2> QED BY <1>9, <2>1, <2>2
<1>12. disk'[Author] = disk[Author]
  <2>1. ~(Write(Sender) /\ Author = b.at)
    BY <1>6, <1>7, AuthorNames DEF Delivers
  <2> QED BY <2>1, AuthorLocal DEF OneAuthor
<1>13. Calm'
  <2>1. Up'
    BY <1>2, <1>4 DEF Up
  <2>2. \A p \in Peer : thread'[<<p, 0>>] = thread[<<p, 0>>]
    BY <1>2, AuthorNames, EchoApart DEF Sender, Echo, OneAuthor
  <2>3. ASSUME NEW p \in Peer, disk'[p] = Absent
        PROVE  stat'[p] = "none" /\ ~pending'[p] /\ thread'[Echo(p)] = Idle
    <3>1. ~(Write(Sender) /\ p = b.at)
      BY <1>5, <1>7, <2>3
    <3>2. disk[p] = Absent /\ pending'[p] = pending[p]
      BY <2>3, <3>1, AuthorLocal
    <3>3. p # Author
      BY <1>4, <3>2
    <3>4. ~(PutStat(Sender) /\ p = b.at)
      BY <1>1, <1>5, <1>7, <3>2
    <3>5. stat'[p] = stat[p]
      BY <3>1, <3>3, <3>4, AuthorLocal
    <3>6. thread'[Echo(p)] = thread[Echo(p)]
      BY <1>2, <3>3, AuthorNames DEF Others
    <3> QED BY <3>2, <3>5, <3>6 DEF AuthorInv, Calm
  <2>4. ASSUME NEW p \in Peer, Group[p] # Group[Author]
        PROVE  disk'[p] = Absent /\ latest'[Group[p]] = Absent
    <3>1. ~(Write(Sender) /\ p = b.at)
      BY <1>6, <1>7, <2>4, AuthorNames DEF Delivers
    <3>2. disk'[p] = disk[p]
      BY <3>1, AuthorLocal
    <3> QED BY <1>2, <2>4, <3>2 DEF AuthorInv, Calm
  <2> QED BY <2>1, <2>2, <2>3, <2>4 DEF AuthorInv, Calm
<1>14. ASSUME NEW q \in Others
       PROVE  Hears(thread[Echo(q)], q)' /\ Told(q)'
  <2>1. q \in Peer /\ q # Author /\ Echo(q) \in Thread /\ thread'[Echo(q)] = thread[Echo(q)]
    BY <1>2, AuthorNames
  <2>2. Hears(thread[Echo(q)], q) /\ Told(q)
    BY DEF AuthorInv
  <2>3. /\ Delivering(q)  <=> b.pc \in {"pstat", "pmark"} /\ b.at = q
        /\ Delivering(q)' <=> r.pc \in {"pstat", "pmark"} /\ r.at = q
    BY DEF Delivering
  <2>4. Write(Sender) /\ q = b.at => thread[Echo(q)].pc \notin {"read", "check"}
    <3>1. 1 \in Slot
      BY DEF OneAuthor, Slot
    <3> QED BY <1>7, <3>1 DEF Reading, Echo
  <2>5. Hears(thread[Echo(q)], q)'
    <3>1. thread[Echo(q)].pc = "check" => disk'[q] = disk[q]
      BY <2>1, <2>4, AuthorLocal
    <3>2. thread[Echo(q)].pc \in {"read", "check"} => ~Delivering(q)'
      BY <1>7, <1>9, <2>2, <2>3, <2>4 DEF Hears
    <3> QED BY <2>1, <2>2, <3>1, <3>2 DEF Hears
  <2>6. Told(q)'
    <3>1. CASE PutMark(Sender) /\ q = b.at
      <4>1. cache'[q] = b.data /\ disk[q] = b.data /\ ~Write(Sender)
        BY <1>1, <1>7, <3>1
      <4>2. disk'[q] = b.data
        BY <2>1, <4>1, AuthorLocal
      <4> QED BY <1>5, <1>7, <3>1, <4>1, <4>2 DEF Told
    <3>2. CASE ~(PutMark(Sender) /\ q = b.at) /\ ~Delivering(q)'
      <4>1. ~(Write(Sender) /\ q = b.at)
        BY <1>7, <2>3, <3>2 DEF Same
      <4>2. disk'[q] = disk[q] /\ cache'[q] = cache[q]
        BY <2>1, <3>2, <4>1, AuthorLocal
      <4>3. ~Delivering(q)
        BY <1>10, <2>3, <3>2
      <4> QED BY <2>2, <4>2, <4>3 DEF Told
    <3>3. CASE Delivering(q)'
      BY <3>3 DEF Told
    <3> QED BY <3>1, <3>2, <3>3
  <2> QED BY <2>5, <2>6
<1>15. latest' = latest /\ disk[Author] = latest[Group[Author]]
  BY <1>2 DEF AuthorInv
<1> QED BY <1>1, <1>8, <1>11, <1>12, <1>13, <1>14, <1>15 DEF AuthorInv

LEMMA AuthorStep == ASSUME OneAuthor, AuthorInv, [Next]_vars PROVE AuthorInv'
<1>1. ASSUME NEW p \in Peer, UserStep(p) \/ Scan(p) \/ Evict(p)
      PROVE  AuthorInv'
  <2>1. ~Evict(p)
    BY DEF OneAuthor, Evict
  <2> QED BY <1>1, <2>1, AuthorUser, AuthorStart
<1>2. ASSUME NEW p \in Peer, NEW s \in Slot, FireTimer(p, s)
      PROVE  AuthorInv'
  BY <1>2, AuthorTimer
<1>3. ASSUME NEW t \in Thread, ThreadStep(t)
      PROVE  AuthorInv'
  <2>1. thread[t].pc # "idle"
    BY <1>3 DEF ThreadStep, ReadFile, CheckRepeating, MarkAndDispatch, Offer, Write, WriteFails,
         PutStat, PutMark, DispatchReturns, OwnStat
  <2>2. t = Sender \/ \E q \in Others : t = Echo(q)
    BY <2>1, AuthorActs
  <2> QED BY <1>3, <2>2, AuthorSend, AuthorEcho
<1>4. CASE Boot \/ Crash
  <2>1. ~Crash
    BY DEF OneAuthor, Crash
  <2> QED BY <1>4, <2>1, AuthorStart
<1>5. CASE UNCHANGED vars
  <2>1. TypeInv'
    BY TypeStep DEF AuthorInv
  <2> QED BY <1>5, <2>1 DEF vars, AuthorInv, Calm, Up, Sends, Hears, Told, Delivering
<1> QED BY <1>1, <1>2, <1>3, <1>4, <1>5 DEF Next

(* A user alone in saving, as often and as soon as they like, whatever Puts
   fail: their own directory is never written (DispatchFrom's IsRepeating stops
   every echo), however many peers and contents there are. *)
THEOREM AuthorAlone ==
    ASSUME OneAuthor PROVE Spec => []AuthorUndisturbed
<1>1. Init => AuthorInv
  BY AuthorInit
<1>2. AuthorInv /\ [Next]_vars => AuthorInv'
  BY AuthorStep
<1>3. AuthorInv => AuthorUndisturbed
  BY DEF AuthorInv, AuthorUndisturbed
<1> QED BY <1>1, <1>2, <1>3, PTL DEF Spec

-----------------------------------------------------------------------------
(* The author's last save arrives, if no Put fails: a save that the current  *)
(* dispatch does not carry is still to be noticed, and what it carries is in *)
(* each directory it is done with.                                           *)

Looking == {"idle", "read", "check", "mark", "stat"}

Dispatched ==
    LET r == thread[Sender] IN
    /\ ~r.err
    /\ IF r.pc \in Looking
       THEN cache[Author] # NoHash =>
                \A q \in Targets(Author) : disk[q] # Absent /\ Bytes(disk[q]) = cache[Author]
       ELSE /\ cache[Author] = r.data
            /\ \A q \in Targets(Author) :
                   disk[q] = r.data \/ q \in r.todo \/ (r.pc = "write" /\ q = r.at)

Everywhere == \A q \in Targets(Author) : disk[q] = disk[Author]

Brought ==
    LET r == thread[Sender] IN
    \/ pending[Author]
    \/ IF r.pc \in {"idle", "stat"} THEN Everywhere
       ELSE r.pc # "read" => r.data = disk[Author]

ArriveInv == AuthorInv /\ Dispatched /\ Brought

LEMMA ArriveInit == ASSUME OneAuthor, Init PROVE ArriveInv
<1>1. AuthorInv
  BY AuthorInit
<1>2. thread[Sender] = Idle /\ cache[Author] = NoHash /\ \A q \in Peer : disk[q] = Absent
  BY AuthorNames DEF Init, OneAuthor
<1>3. Dispatched
  BY <1>2, IdleSends DEF Dispatched, Looking
<1>4. Brought
  BY <1>2, IdleSends DEF Brought, Everywhere, Targets, OneAuthor
<1> QED BY <1>1, <1>3, <1>4 DEF ArriveInv

(* A step of another goroutine, of a scan or of a user. *)
LEMMA ArriveFrame ==
    ASSUME OneAuthor, ArriveInv, thread'[Sender] = thread[Sender],
           cache'[Author] = cache[Author],
           \A q \in Others : disk'[q] = disk[q],
           pending[Author] => pending'[Author],
           disk'[Author] = disk[Author] \/ pending'[Author]
    PROVE  Dispatched' /\ Brought'
<1>1. \A q \in Targets(Author) : disk'[q] = disk[q]
  BY AuthorNames
<1> QED BY <1>1 DEF ArriveInv, Dispatched, Brought, Everywhere

LEMMA ArriveUser ==
    ASSUME OneAuthor, ArriveInv, NEW p \in Peer, UserStep(p)
    PROVE  Dispatched' /\ Brought'
<1>1. TypeInv
  BY DEF ArriveInv, AuthorInv
<1>2. /\ UNCHANGED <<cache, thread>>
      /\ \/ p = Author /\ mode[p] = "up"
         \/ disk' = [disk EXCEPT ![p] = disk[p]]
      /\ \E f : disk' = [disk EXCEPT ![p] = f]
      /\ pending' = [pending EXCEPT ![p] = @ \/ mode[p] = "up"]
  BY DEF OneAuthor, UserStep, UserWrite, UserDelete, UserTouch, Edit, WriteFile, MayEdit, Up
<1>3. /\ \A q \in Others : disk'[q] = disk[q]
      /\ disk'[Author] = disk[Author] \/ pending'[Author]
      /\ pending[Author] => pending'[Author]
  <2>1. Author \in Peer /\ \A q \in Others : q \in Peer /\ q # Author
    BY AuthorNames DEF OneAuthor
  <2> QED BY <1>1, <1>2, <2>1 DEF TypeInv, TypeOK
<1> QED BY <1>2, <1>3, ArriveFrame

LEMMA ArriveSend ==
    ASSUME OneAuthor, "fail" \notin Faults, ArriveInv, ThreadStep(Sender)
    PROVE  Dispatched' /\ Brought'
<1> DEFINE b == thread[Sender]
           r == thread'[Sender]
<1>1. /\ AuthorInv /\ TypeInv /\ Sender \in Thread /\ Sends(b) /\ b \in ThreadState
      /\ cache \in [Peer -> Hash] /\ disk \in [Peer -> File] /\ Author \in Peer
      /\ Sender[1] = Author /\ Author \notin Targets(Author)
  BY AuthorNames DEF ArriveInv, AuthorInv, TypeInv, TypeOK, OneAuthor, Others
<1>2. AuthorMove(b, r) /\ ~WriteFails(Sender)
  BY <1>1, AuthorMoves DEF WriteFails
<1>3. b.pc # "idle"
  BY <1>2 DEF AuthorMove
<1>4. b.pc # "read" => /\ b.data \in File /\ b.data # Absent /\ Bytes(b.data) = b.data
                       /\ DispatchHash(b.data) = b.data /\ b.data # NoHash
  BY <1>1, <1>3, FileBytes DEF Sends, ThreadState
<1>5. b.pc \in Delivers => b.at # Author /\ b.at \in Peer
  BY <1>1, AuthorNames DEF Sends, Delivers
<1>6. /\ Write(Sender) => b.pc = "write" /\ WriteFile(b.at, b.data)
      /\ PutMark(Sender) => b.pc = "pmark"
      /\ MarkAndDispatch(Sender) => b.pc = "mark" /\ cache'[Author] = b.data
  BY <1>1, <1>4 DEF Write, PutMark, MarkAndDispatch, MarkProcessed
<1>7. disk'[Author] = disk[Author] /\ pending'[Author] = pending[Author]
  BY <1>1, <1>5, <1>6, AuthorLocal DEF Delivers
<1>8. ~MarkAndDispatch(Sender) => cache'[Author] = cache[Author]
  BY <1>1, <1>5, <1>6, AuthorLocal DEF Delivers
<1>9. ASSUME NEW q \in Targets(Author)
      PROVE  /\ q \in Peer /\ q \in Others
             /\ ~Write(Sender) => disk'[q] = disk[q]
             /\ Write(Sender) => disk'[q] = disk[q] \/ disk'[q] = b.data
             /\ Write(Sender) /\ q = b.at => disk'[q] = b.data
             /\ b.pc = "offer" /\ cache[q] = b.data => disk[q] = b.data
  <2>1. q \in Peer /\ q \in Others
    BY AuthorNames
  <2>2. ~(Write(Sender) /\ q = b.at) => disk'[q] = disk[q]
    BY <1>1, <2>1, AuthorLocal
  <2>3. Write(Sender) /\ q = b.at => disk'[q] = b.data
    BY <1>1, <1>6, <2>1 DEF WriteFile
  <2>4. b.pc = "offer" /\ cache[q] = b.data => disk[q] = b.data
    <3>1. SUFFICES ASSUME b.pc = "offer", cache[q] = b.data
                   PROVE  disk[q] = b.data
      OBVIOUS
    <3>2. ~Delivering(q)
      BY <3>1 DEF Delivering
    <3>3. b.data = IF disk[q] = Absent THEN NoHash ELSE Bytes(disk[q])
      BY <1>1, <2>1, <3>1, <3>2 DEF AuthorInv, Told
    <3> QED BY <1>4, <3>1, <3>3 DEF Bytes
  <2> QED BY <2>1, <2>2, <2>3, <2>4
<1>10. Dispatched /\ Brought
  BY DEF ArriveInv
<1>11. Dispatched'
  <2>1. ~r.err
    BY <1>2, <1>10, IdleSends DEF AuthorMove, Same, Dispatched
  <2>2. CASE b.pc \in {"read", "check", "stat"}
    <3>1. ~Write(Sender) /\ ~MarkAndDispatch(Sender) /\ r.pc \in Looking
      BY <1>2, <1>6, <2>2, IdleSends DEF AuthorMove, Looking
    <3> QED BY <1>8, <1>9, <1>10, <2>1, <2>2, <3>1 DEF Dispatched, Looking
  <2>3. CASE b.pc = "mark"
    <3>1. /\ MarkAndDispatch(Sender) /\ r.pc = "offer"
          /\ r.todo = Targets(Author) /\ r.data = b.data
      BY <1>2, <2>3 DEF AuthorMove
    <3> QED BY <1>6, <2>1, <3>1 DEF Dispatched, Looking
  <2>4. CASE b.pc \in {"offer", "write", "pstat", "pmark"} /\ r.pc \notin Looking
    <3>1. /\ r.data = b.data /\ cache'[Author] = cache[Author] /\ cache[Author] = b.data
          /\ \A q \in Targets(Author) :
                 disk[q] = b.data \/ q \in b.todo \/ (b.pc = "write" /\ q = b.at)
      BY <1>2, <1>6, <1>8, <1>10, <2>4, IdleSends DEF AuthorMove, Same, Dispatched, Looking
    <3>2. ASSUME NEW q \in Targets(Author)
          PROVE  disk'[q] = r.data \/ q \in r.todo \/ (r.pc = "write" /\ q = r.at)
      <4>1. CASE b.pc = "offer"
        <5>1. PICK x \in b.todo : /\ r.todo = b.todo \ {x}
                                  /\ \/ r.pc = "offer" /\ cache[x] = b.data
                                     \/ r.pc = "write" /\ r.at = x
          BY <1>2, <2>4, <4>1, IdleSends DEF AuthorMove, Looking
        <5>2. disk'[q] = disk[q]
          BY <1>6, <1>9, <3>2, <4>1
        <5> QED BY <1>9, <3>1, <3>2, <4>1, <5>1, <5>2
      <4>2. CASE b.pc = "write"
        <5>1. Write(Sender) /\ r.todo = b.todo /\ r.pc = "pstat"
          BY <1>2, <4>2 DEF AuthorMove, Same
        <5> QED BY <1>9, <3>1, <3>2, <4>2, <5>1
      <4>3. CASE b.pc \in {"pstat", "pmark"}
        <5>1. ~Write(Sender) /\ r.todo = b.todo
          BY <1>2, <1>6, <4>3 DEF AuthorMove, Same
        <5> QED BY <1>9, <3>1, <3>2, <4>3, <5>1
      <4> QED BY <2>4, <4>1, <4>2, <4>3
    <3> QED BY <2>1, <2>4, <3>1, <3>2 DEF Dispatched
  <2>5. CASE b.pc \in {"offer", "write", "pstat", "pmark"} /\ r.pc \in Looking
    <3>1. b.pc = "offer" /\ b.todo = {}
      BY <1>2, <2>5 DEF AuthorMove, Looking
    <3>2. cache'[Author] = b.data /\ \A q \in Targets(Author) : disk'[q] = b.data
      BY <1>6, <1>8, <1>9, <1>10, <3>1 DEF Dispatched, Looking
    <3> QED BY <1>4, <2>1, <2>5, <3>1, <3>2 DEF Dispatched
  <2> QED BY <1>1, <1>3, <2>2, <2>3, <2>4, <2>5 DEF ThreadState, PC
<1>12. Brought'
  <2>1. CASE pending[Author]
    BY <1>7, <2>1 DEF Brought
  <2>2. CASE b.pc = "read"
    <3>1. r.pc = "check" /\ r.data = disk[Author]
      BY <1>2, <2>2 DEF AuthorMove
    <3> QED BY <1>7, <3>1 DEF Brought
  <2>3. CASE ~pending[Author] /\ b.pc = "stat"
    <3>1. r.pc = "idle" /\ ~Write(Sender)
      BY <1>2, <1>6, <2>3, IdleSends DEF AuthorMove
    <3> QED BY <1>7, <1>9, <1>10, <2>3, <3>1 DEF Brought, Everywhere
  <2>4. CASE ~pending[Author] /\ b.pc \notin {"read", "stat"} /\ r.pc \notin {"idle", "read", "stat"}
    <3>1. r.data = b.data /\ b.data = disk[Author]
      BY <1>2, <1>3, <1>10, <2>4, IdleSends DEF AuthorMove, Same, Brought
    <3> QED BY <1>7, <2>4, <3>1 DEF Brought
  <2>5. CASE /\ ~pending[Author] /\ b.pc \notin {"read", "stat"}
             /\ r.pc \in {"idle", "read", "stat"}
    <3>1. b.data = disk[Author]
      BY <1>3, <1>10, <2>5 DEF Brought
    <3>2. /\ r.pc = "stat" /\ ~Write(Sender)
          /\ \/ b.pc = "check" /\ cache[Author] = b.data
             \/ b.pc = "offer" /\ b.todo = {}
      BY <1>2, <1>6, <1>10, <2>5 DEF AuthorMove, Dispatched
    <3>3. \A q \in Targets(Author) : disk[q] = disk[Author]
      BY <1>4, <1>10, <2>5, <3>1, <3>2 DEF Dispatched, Looking, Bytes
    <3> QED BY <1>7, <1>9, <3>2, <3>3 DEF Brought, Everywhere
  <2> QED BY <2>1, <2>2, <2>3, <2>4, <2>5
<1> QED BY <1>11, <1>12

LEMMA ArriveStep ==
    ASSUME OneAuthor, "fail" \notin Faults, ArriveInv, [Next]_vars
    PROVE  ArriveInv'
<1>1. AuthorInv /\ AuthorInv'
  BY AuthorStep DEF ArriveInv
<1>2. ASSUME NEW p \in Peer, UserStep(p) \/ Scan(p) \/ Evict(p)
      PROVE  Dispatched' /\ Brought'
  <2>1. ~Evict(p)
    BY DEF OneAuthor, Evict
  <2>2. CASE Scan(p)
    BY <1>1, <2>2, AuthorStart, ArriveFrame
  <2> QED BY <1>2, <2>1, <2>2, ArriveUser
<1>3. ASSUME NEW p \in Peer, NEW s \in Slot, FireTimer(p, s)
      PROVE  Dispatched' /\ Brought'
  <2>1. CASE p = Author
    <3>1. /\ UNCHANGED <<disk, cache>> /\ thread'[Sender].pc = "read"
          /\ thread'[Sender].err = FALSE /\ thread[Sender].pc = "idle"
      BY <1>1, <1>3, <2>1, AuthorTimer
    <3> QED BY <3>1 DEF ArriveInv, Dispatched, Brought, Looking
  <2>2. CASE p # Author
    BY <1>1, <1>3, <2>2, AuthorTimer, ArriveFrame
  <2> QED BY <2>1, <2>2
<1>4. ASSUME NEW t \in Thread, ThreadStep(t)
      PROVE  Dispatched' /\ Brought'
  <2>1. thread[t].pc # "idle"
    BY <1>4 DEF ThreadStep, ReadFile, CheckRepeating, MarkAndDispatch, Offer, Write, WriteFails,
         PutStat, PutMark, DispatchReturns, OwnStat
  <2>2. t = Sender \/ \E q \in Others : t = Echo(q)
    BY <1>1, <2>1, AuthorActs
  <2>3. ASSUME NEW q \in Others, t = Echo(q)
        PROVE  Dispatched' /\ Brought'
    BY <1>1, <1>4, <2>3, AuthorEcho, ArriveFrame
  <2> QED BY <1>4, <2>2, <2>3, ArriveSend
<1>5. ASSUME Boot \/ Crash
      PROVE  Dispatched' /\ Brought'
  <2>1. ~Crash
    BY DEF OneAuthor, Crash
  <2> QED BY <1>1, <1>5, <2>1, AuthorStart, ArriveFrame
<1>6. ASSUME UNCHANGED vars
      PROVE  Dispatched' /\ Brought'
  BY <1>6, ArriveFrame DEF vars
<1>7. Dispatched' /\ Brought'
  BY <1>2, <1>3, <1>4, <1>5, <1>6 DEF Next
<1> QED BY <1>1, <1>7 DEF ArriveInv

(* The same user, if no Put fails: once the bridge has nothing left to do,
   every directory of the group holds the last save, in whatever order the
   dispatches of the earlier ones and their echoes ran. *)
THEOREM AuthorSavesArrive ==
    ASSUME OneAuthor, "fail" \notin Faults PROVE Spec => []SyncAtRest
<1>1. Init => ArriveInv
  BY ArriveInit
<1>2. ArriveInv /\ [Next]_vars => ArriveInv'
  BY ArriveStep
<1>3. ArriveInv => SyncAtRest
  <2>1. SUFFICES ASSUME ArriveInv, AtRest, Up, NEW p \in Peer
                 PROVE  disk[p] = latest[Group[p]]
    BY DEF SyncAtRest, InSync
  <2>2. thread[Sender].pc = "idle" /\ ~pending[Author]
    BY <2>1, AuthorNames DEF AtRest, OneAuthor
  <2>3. Everywhere /\ AuthorInv
    BY <2>1, <2>2 DEF ArriveInv, Brought
  <2>4. CASE Group[p] # Group[Author]
    BY <2>3, <2>4 DEF AuthorInv, Calm
  <2>5. CASE Group[p] = Group[Author] /\ p # Author
    BY <2>3, <2>5 DEF AuthorInv, Everywhere, Targets
  <2>6. CASE p = Author
    BY <2>3, <2>6 DEF AuthorInv
  <2> QED BY <2>4, <2>5, <2>6
<1> QED BY <1>1, <1>2, <1>3, PTL DEF Spec

=============================================================================
