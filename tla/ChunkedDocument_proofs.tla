----------------------- MODULE ChunkedDocument_proofs -----------------------
(***************************************************************************)
(* A document that lists chunks has them, and a call that runs alone       *)
(* repairs it, for any number of goroutines, calls, faults and attempts,   *)
(* and for contents cut into any number of chunks.                         *)
(***************************************************************************)
EXTENDS ChunkedDocument, TLAPS

USE HashesDistinct, PartsAssumption, ThreadAssumption, LimitAssumption

(* Writing chunk i of the call's data. *)
Chunking == {"getchunk", "putchunk", "reget", "redelete", "recreate"}

(* The chunk that a call is at is one of its content; Delete has none. *)
AtChunk(r) ==
    /\ r.pc \in Chunking => r.i <= NumParts(r.data)
    /\ r.pc \in {"getold", "deleteold"} => r.i <= NumParts(r.body)
    /\ r.pc \in {"mark", "look", "markdelete", "get", "put", "resolve"} => r.i = 1
    /\ r.pc \in {"look", "markdelete"} => r.data = Absent

Shape == \A t \in Thread : AtChunk(call[t])

TypeInv == TypeOK /\ Shape

(* The chunks of its data that call r has written. *)
Done(r) ==
    {j \in 1..NumParts(r.data) :
        \/ r.pc \in Chunking /\ j < r.i
        \/ r.pc \in {"get", "put"}}

Exists(j) ==
    \/ hole
    \/ chunk[j].body # Absent
    \/ \E w \in Writers : call[w].pc = "recreate" /\ call[w].i = j

(* watchChanges only reads. *)
FeedReads ==
    /\ call[Feed].pc \in {"idle", "read", "deliver"} /\ ~call[Feed].alone
    /\ call[Feed].data = Absent

(* What a call that runs alone has written stays as it wrote it. *)
Alone(w) ==
    /\ \A u \in Writers \ {w} : call[u].pc = "idle"
    /\ \A j \in Done(call[w]) : chunk[j].body = call[w].data

Quiet == \A w \in Writers : call[w].pc = "idle"

ChunkInv ==
    /\ TypeInv /\ FeedReads
    /\ \A w \in Writers : call[w].alone => Alone(w)
    /\ settled # NoHash => Quiet
    /\ PutRepairs
    /\ \A j \in Listed : Exists(j)
    /\ \A w \in Writers : \A j \in Done(call[w]) : Exists(j)

-----------------------------------------------------------------------------
(* Where the steps of a call take it. *)

LEMMA PartsType ==
    ASSUME NEW f
    PROVE  /\ NumParts(f) \in 0..MaxParts /\ NumParts(f) \in Nat
           /\ NumParts(f) > 0 => f \in Content /\ f # Absent
BY DEF NumParts

LEMMA IdleType ==
    /\ Idle \in CallState /\ Idle.pc = "idle" /\ Idle.data = Absent /\ Idle.body = Absent
    /\ Idle.i = 1 /\ Idle.rev = 0 /\ Idle.alone = FALSE
BY DEF Idle, CallState, PC, File

LEMMA Moves ==
    ASSUME TypeInv, NEW t \in Thread, NEW r, Move(t, r)
    PROVE  call'[t] = r /\ \A u \in Thread : u # t => call'[u] = call[u]
BY DEF Move, TypeInv, TypeOK

(* The call goes on, for the same data. *)
GoesOn(t) ==
    /\ call'[t] \in CallState
    /\ call'[t].data = call[t].data /\ call'[t].alone = call[t].alone

LEMMA GotoMoves ==
    ASSUME TypeInv, NEW t \in Thread, NEW pc \in PC, Goto(t, pc)
    PROVE  /\ GoesOn(t) /\ call'[t].pc = pc /\ call'[t].i = call[t].i
           /\ call'[t].rev = call[t].rev /\ call'[t].body = call[t].body
<1> DEFINE r == [call[t] EXCEPT !.pc = pc]
<1>1. call[t] \in CallState
  BY DEF TypeInv, TypeOK
<1>2. /\ r \in CallState /\ r.pc = pc /\ r.i = call[t].i /\ r.rev = call[t].rev
      /\ r.body = call[t].body /\ r.data = call[t].data /\ r.alone = call[t].alone
  BY <1>1 DEF CallState
<1>3. call'[t] = r
  BY Moves DEF Goto
<1> HIDE DEF r
<1> QED BY <1>2, <1>3 DEF GoesOn

LEMMA RevMoves ==
    ASSUME TypeInv, NEW t \in Thread, NEW pc \in PC, NEW rev \in Nat,
           Move(t, [call[t] EXCEPT !.pc = pc, !.rev = rev])
    PROVE  /\ GoesOn(t) /\ call'[t].pc = pc /\ call'[t].i = call[t].i
           /\ call'[t].rev = rev /\ call'[t].body = call[t].body
<1> DEFINE r == [call[t] EXCEPT !.pc = pc, !.rev = rev]
<1>1. call[t] \in CallState
  BY DEF TypeInv, TypeOK
<1>2. /\ r \in CallState /\ r.pc = pc /\ r.i = call[t].i /\ r.rev = rev
      /\ r.body = call[t].body /\ r.data = call[t].data /\ r.alone = call[t].alone
  BY <1>1 DEF CallState
<1>3. call'[t] = r
  BY Moves
<1> HIDE DEF r
<1> QED BY <1>2, <1>3 DEF GoesOn

(* On to chunk i, and one attempt more. *)
Restart(r, pc, i)  == [r EXCEPT !.pc = pc, !.i = i, !.rev = 0, !.tries = 0]
Again(r, pc, tries) == [r EXCEPT !.pc = pc, !.tries = tries]

LEMMA RestartFields ==
    ASSUME NEW r \in CallState, NEW pc \in PC, NEW i \in 1..(MaxParts + 1)
    PROVE  /\ Restart(r, pc, i) \in CallState
           /\ Restart(r, pc, i).pc = pc /\ Restart(r, pc, i).i = i
           /\ Restart(r, pc, i).rev = 0 /\ Restart(r, pc, i).data = r.data
           /\ Restart(r, pc, i).alone = r.alone /\ Restart(r, pc, i).body = r.body
BY DEF CallState, Restart

LEMMA AgainFields ==
    ASSUME NEW r \in CallState, NEW pc \in PC, NEW tries \in Nat
    PROVE  /\ Again(r, pc, tries) \in CallState
           /\ Again(r, pc, tries).pc = pc /\ Again(r, pc, tries).i = r.i
           /\ Again(r, pc, tries).rev = r.rev /\ Again(r, pc, tries).data = r.data
           /\ Again(r, pc, tries).alone = r.alone /\ Again(r, pc, tries).body = r.body
BY DEF CallState, Again

LEMMA RetryMoves ==
    ASSUME TypeInv, NEW t \in Thread, NEW first \in PC, NEW exhausted \in PC,
           Retry(t, first, exhausted)
    PROVE  /\ GoesOn(t) /\ call'[t].pc \in {first, exhausted} /\ call'[t].i = call[t].i
           /\ call'[t].body = call[t].body
<1>1. call[t] \in CallState /\ call[t].tries \in Nat
  BY DEF TypeInv, TypeOK, CallState
<1>2. PICK pc \in {first, exhausted}, n \in Nat :
          Move(t, Again(call[t], pc, n))
  <2>1. CASE call[t].tries + 1 < MaxAttempts
    <3>1. call[t].tries + 1 \in Nat
      BY <1>1
    <3>2. Move(t, Again(call[t], first, call[t].tries + 1))
      BY <2>1 DEF Retry, Again
    <3> QED BY <3>1, <3>2
  <2>2. CASE ~(call[t].tries + 1 < MaxAttempts)
    BY <2>2 DEF Retry, Again
  <2> QED BY <2>1, <2>2
<1>3. call'[t] = Again(call[t], pc, n)
  BY <1>2, Moves
<1>4. pc \in PC /\ call[t] \in CallState
  BY <1>1, <1>2
<1> HIDE DEF TypeInv
<1> QED BY <1>2, <1>3, <1>4, AgainFields DEF GoesOn

LEMMA NextPartFields ==
    ASSUME NEW r \in CallState, r.i <= NumParts(r.data)
    PROVE  /\ NextPart(r) \in CallState /\ NextPart(r).data = r.data
           /\ NextPart(r).alone = r.alone /\ NextPart(r).rev = 0
           /\ \/ /\ NextPart(r).pc = "getchunk" /\ NextPart(r).i = r.i + 1
                 /\ r.i + 1 <= NumParts(r.data)
              \/ NextPart(r).pc = "get" /\ NextPart(r).i = 1 /\ r.i = NumParts(r.data)
<1>0. "getchunk" \in PC /\ "get" \in PC
  BY DEF PC
<1>1. NumParts(r.data) \in 0..MaxParts /\ r.i \in 1..(MaxParts + 1)
  BY PartsType DEF CallState
<1>2. CASE r.i < NumParts(r.data)
  <2>1. r.i + 1 \in 1..(MaxParts + 1) /\ r.i + 1 <= NumParts(r.data)
    BY <1>1, <1>2
  <2>2. PICK k \in 1..(MaxParts + 1) : k = r.i + 1
    BY <2>1
  <2>3. NextPart(r) = Restart(r, "getchunk", k)
    BY <1>2, <2>2 DEF NextPart, Restart
  <2>4. /\ NextPart(r) \in CallState /\ NextPart(r).data = r.data
        /\ NextPart(r).alone = r.alone /\ NextPart(r).rev = 0 /\ NextPart(r).body = r.body
        /\ NextPart(r).pc = "getchunk" /\ NextPart(r).i = k
    BY <1>0, <2>3, RestartFields
  <2> QED BY <2>1, <2>2, <2>4
<1>3. CASE ~(r.i < NumParts(r.data))
  <2>1. r.i = NumParts(r.data) /\ 1 \in 1..(MaxParts + 1)
    BY <1>1, <1>3
  <2>2. NextPart(r) = Restart(r, "get", 1)
    BY <1>3 DEF NextPart, Restart
  <2> QED BY <1>0, <2>1, <2>2, RestartFields
<1> QED BY <1>2, <1>3

LEMMA NextOldFields ==
    ASSUME NEW r \in CallState, r.i <= NumParts(r.body)
    PROVE  /\ NextOld(r) \in CallState /\ NextOld(r).data = r.data
           /\ NextOld(r).alone = r.alone /\ NextOld(r).rev = 0 /\ NextOld(r).body = r.body
           /\ \/ NextOld(r).pc = "getold" /\ NextOld(r).i <= NumParts(r.body)
              \/ NextOld(r).pc = "markdelete" /\ r.data = Absent
              \/ NextOld(r).pc = "final" /\ r.data # Absent
<1>0. "getold" \in PC /\ "markdelete" \in PC /\ "final" \in PC
  BY DEF PC
<1>1. NumParts(r.body) \in 0..MaxParts /\ r.i \in 1..(MaxParts + 1)
  BY PartsType DEF CallState
<1>2. CASE r.i < NumParts(r.body)
  <2>1. r.i + 1 \in 1..(MaxParts + 1) /\ r.i + 1 <= NumParts(r.body)
    BY <1>1, <1>2
  <2>2. PICK k \in 1..(MaxParts + 1) : k = r.i + 1
    BY <2>1
  <2>3. NextOld(r) = Restart(r, "getold", k)
    BY <1>2, <2>2 DEF NextOld, Restart
  <2>4. /\ NextOld(r) \in CallState /\ NextOld(r).data = r.data
        /\ NextOld(r).alone = r.alone /\ NextOld(r).rev = 0 /\ NextOld(r).body = r.body
        /\ NextOld(r).pc = "getold" /\ NextOld(r).i = k
    BY <1>0, <2>3, RestartFields
  <2> QED BY <2>1, <2>2, <2>4
<1>3. CASE ~(r.i < NumParts(r.body))
  <2>1. 1 \in 1..(MaxParts + 1)
    BY <1>1
  <2>2. NextOld(r) = Restart(r, IF r.data = Absent THEN "markdelete" ELSE "final", 1)
    BY <1>3 DEF NextOld, Restart
  <2> QED BY <1>0, <2>1, <2>2, RestartFields
<1> QED BY <1>2, <1>3

(* Each action in turn. *)

LEMMA MarkMoves ==
    ASSUME TypeInv, NEW t \in Thread, MarkPut(t) \/ MarkDelete(t)
    PROVE  /\ GoesOn(t) /\ call'[t].i = 1
           /\ MarkPut(t) => IF NumParts(call[t].data) = 0 THEN call'[t].pc = "get"
                            ELSE call'[t].pc = "getchunk" /\ NumParts(call[t].data) >= 1
           /\ MarkDelete(t) => call'[t].pc = "get"
<1>1. "get" \in PC /\ "getchunk" \in PC
  BY DEF PC
<1>2. call[t].i = 1
  BY DEF MarkPut, MarkDelete, TypeInv, Shape, AtChunk
<1>3. NumParts(call[t].data) # 0 => NumParts(call[t].data) >= 1
  BY PartsType
<1>4. CASE MarkPut(t)
  BY <1>1, <1>2, <1>3, <1>4, GotoMoves DEF MarkPut, MarkDelete
<1>5. CASE MarkDelete(t)
  <2>1. PICK v \in Nat : v = call[t].base
    BY DEF TypeInv, TypeOK, CallState
  <2>2. Move(t, [call[t] EXCEPT !.pc = "get", !.rev = v])
    BY <1>5, <2>1 DEF MarkDelete
  <2>3. ~MarkPut(t)
    BY <1>5 DEF MarkPut, MarkDelete
  <2> QED BY <1>1, <1>2, <2>2, <2>3, RevMoves
<1> QED BY <1>4, <1>5

LEMMA ChunkAt ==
    ASSUME TypeInv, NEW t \in Thread
    PROVE  /\ call[t].pc \in Chunking => /\ call[t].i \in Index /\ call[t].i \in 1..NumParts(call[t].data)
                                         /\ call[t].data \in Content
           /\ call[t].pc \in {"getold", "deleteold"} => call[t].i \in Index
           /\ call[t] \in CallState /\ doc \in Stored
           /\ \A i \in Index : chunk[i] \in Stored
<1>1. /\ call[t] \in CallState /\ AtChunk(call[t]) /\ doc \in Stored
      /\ \A i \in Index : chunk[i] \in Stored
  BY DEF TypeInv, TypeOK, Shape
<1>2. call[t].i \in 1..(MaxParts + 1)
  BY <1>1 DEF CallState
<1> QED BY <1>1, <1>2, PartsType DEF AtChunk, Index

LEMMA GetMoves ==
    ASSUME TypeInv, NEW t \in Thread, GetChunk(t) \/ GetRev(t)
    PROVE  /\ GoesOn(t) /\ call'[t].i = call[t].i /\ call'[t].body = call[t].body
           /\ GetChunk(t) => call'[t].pc = "putchunk"
                             /\ call'[t].rev = Read(chunk[call[t].i], call[t].rev)
           /\ GetRev(t) => call'[t].pc = "put" /\ call'[t].rev = Read(doc, call[t].rev)
<1>1. "put" \in PC /\ "putchunk" \in PC
  BY DEF PC
<1>2. \A d \in Stored : Read(d, call[t].rev) \in Nat
  BY ChunkAt DEF Read, Stored, CallState
<1>3. CASE GetChunk(t)
  <2>1. PICK v \in Nat : v = Read(chunk[call[t].i], call[t].rev)
    BY <1>2, <1>3, ChunkAt DEF GetChunk, Chunking
  <2>2. Move(t, [call[t] EXCEPT !.pc = "putchunk", !.rev = v])
    BY <1>3, <2>1 DEF GetChunk
  <2>3. ~GetRev(t)
    BY <1>3 DEF GetChunk, GetRev
  <2>4. /\ GoesOn(t) /\ call'[t].i = call[t].i /\ call'[t].body = call[t].body
        /\ call'[t].pc = "putchunk" /\ call'[t].rev = v
    BY ONLY TypeInv, t \in Thread, <1>1, <2>2, RevMoves
  <2> QED BY <2>1, <2>3, <2>4
<1>4. CASE GetRev(t)
  <2>1. PICK v \in Nat : v = Read(doc, call[t].rev)
    BY <1>2, ChunkAt
  <2>2. Move(t, [call[t] EXCEPT !.pc = "put", !.rev = v])
    BY <1>4, <2>1 DEF GetRev
  <2>3. ~GetChunk(t)
    BY <1>4 DEF GetChunk, GetRev
  <2>4. /\ GoesOn(t) /\ call'[t].i = call[t].i /\ call'[t].body = call[t].body
        /\ call'[t].pc = "put" /\ call'[t].rev = v
    BY ONLY TypeInv, t \in Thread, <1>1, <2>2, RevMoves
  <2> QED BY <2>1, <2>3, <2>4
<1> QED BY <1>3, <1>4

LEMMA WriteMoves ==
    ASSUME TypeInv, NEW t \in Thread, PutChunk(t) \/ RecreateChunk(t) \/ DeleteOld(t)
    PROVE  /\ PutChunk(t) => call'[t] = NextPart(call[t])
           /\ RecreateChunk(t) => call'[t] \in {NextPart(call[t]), Idle}
           /\ DeleteOld(t) => call'[t] = NextOld(call[t])
BY Moves DEF PutChunk, RecreateChunk, DeleteOld, Leave

LEMMA AfreshMoves ==
    ASSUME TypeInv, NEW t \in Thread, RegetChunk(t) \/ RedeleteChunk(t)
    PROVE  \/ call'[t] = Idle /\ chunk' = chunk
           \/ /\ GoesOn(t) /\ call'[t].i = call[t].i
              /\ RegetChunk(t) => call'[t].pc = "redelete" /\ chunk' = chunk
              /\ RedeleteChunk(t) => /\ call'[t].pc = "recreate"
                     /\ chunk' = [chunk EXCEPT ![call[t].i] = Update(@, Absent)]
<1>1. "redelete" \in PC /\ "recreate" \in PC
  BY DEF PC
<1>2. CASE RegetChunk(t)
  <2>1. ~RedeleteChunk(t) /\ chunk' = chunk
    BY <1>2 DEF RegetChunk, RedeleteChunk
  <2>2. PICK v \in Nat : v = chunk[call[t].i].rev
    BY <1>2, ChunkAt DEF RegetChunk, Chunking, Stored
  <2>3. Move(t, Idle) \/ Move(t, [call[t] EXCEPT !.pc = "redelete", !.rev = v])
    BY <1>2, <2>2 DEF RegetChunk, Leave
  <2>4. CASE Move(t, Idle)
    BY ONLY TypeInv, t \in Thread, <2>1, <2>4, Moves
  <2>5. CASE Move(t, [call[t] EXCEPT !.pc = "redelete", !.rev = v])
    <3>1. GoesOn(t) /\ call'[t].i = call[t].i /\ call'[t].pc = "redelete"
      BY ONLY TypeInv, t \in Thread, <1>1, <2>5, RevMoves
    <3> QED BY <2>1, <3>1
  <2> QED BY <2>3, <2>4, <2>5
<1>3. CASE RedeleteChunk(t)
  <2>1. ~RegetChunk(t)
    BY <1>3 DEF RegetChunk, RedeleteChunk
  <2> QED BY <1>1, <1>3, <2>1, Moves, GotoMoves DEF RedeleteChunk, Leave
<1> QED BY <1>2, <1>3

LEMMA ConflictMoves ==
    ASSUME TypeInv, NEW t \in Thread, ChunkConflict(t) \/ DocConflict(t)
    PROVE  /\ GoesOn(t) /\ call'[t].i = call[t].i
           /\ ChunkConflict(t) => call'[t].pc \in {"getchunk", "reget"}
           /\ DocConflict(t) => call'[t].pc \in {"get", "resolve"}
<1>1. "getchunk" \in PC /\ "reget" \in PC /\ "get" \in PC /\ "resolve" \in PC
  BY DEF PC
<1>2. CASE ChunkConflict(t)
  <2>1. ~DocConflict(t)
    BY <1>2 DEF ChunkConflict, DocConflict
  <2> QED BY <1>1, <1>2, <2>1, RetryMoves DEF ChunkConflict
<1>3. CASE DocConflict(t)
  <2>1. ~ChunkConflict(t)
    BY <1>3 DEF ChunkConflict, DocConflict
  <2> QED BY <1>1, <1>3, <2>1, RetryMoves DEF DocConflict
<1> QED BY <1>2, <1>3

LEMMA LookMoves ==
    ASSUME TypeInv, NEW t \in Thread, Look(t)
    PROVE  \/ call'[t] = Idle
           \/ /\ GoesOn(t) /\ call'[t].i = 1 /\ call'[t].body = doc.body
              /\ \/ call'[t].pc = "markdelete"
                 \/ call'[t].pc = "getold" /\ NumParts(doc.body) >= 1
<1> DEFINE pc == IF NumParts(doc.body) = 0 THEN "markdelete" ELSE "getold"
           r  == [call[t] EXCEPT !.body = doc.body, !.base = doc.rev, !.pc = pc]
<1>1. /\ call[t] \in CallState /\ call[t].i = 1 /\ call[t].pc = "look"
      /\ doc.body \in File /\ doc.rev \in Nat /\ pc \in PC
  BY ChunkAt DEF Look, TypeInv, Shape, AtChunk, Stored, PC
<1>2. /\ r \in CallState /\ r.pc = pc /\ r.i = call[t].i
      /\ r.body = doc.body /\ r.data = call[t].data /\ r.alone = call[t].alone
  BY <1>1 DEF CallState
<1>3. pc = "markdelete" \/ (pc = "getold" /\ NumParts(doc.body) >= 1)
  BY PartsType
<1>4. CASE doc.body = Absent
  BY <1>4, Moves DEF Look, Leave
<1>5. CASE doc.body # Absent
  <2>1. Move(t, r)
    BY <1>5 DEF Look
  <2>2. call'[t] = r
    BY <2>1, Moves
  <2> HIDE DEF r, pc
  <2> QED BY <1>1, <1>2, <1>3, <2>1, <2>2 DEF GoesOn
<1> QED BY <1>4, <1>5

LEMMA OldMoves ==
    ASSUME TypeInv, NEW t \in Thread,
           GetOld(t) \/ DeleteOldConflict(t)
    PROVE  \/ call'[t] = NextOld(call[t])
           \/ /\ GoesOn(t) /\ call'[t].pc \in {"getold", "deleteold"}
              /\ call'[t].i = call[t].i /\ call'[t].body = call[t].body
<1>1. "deleteold" \in PC /\ "getold" \in PC
  BY DEF PC
<1>2. CASE GetOld(t)
  <2>1. PICK v \in Nat : v = chunk[call[t].i].rev
    BY <1>2, ChunkAt DEF GetOld, Stored
  <2>2. \/ Move(t, NextOld(call[t]))
        \/ Move(t, [call[t] EXCEPT !.pc = "deleteold", !.rev = v])
    BY <1>2, <2>1 DEF GetOld
  <2> QED BY <1>1, <2>2, Moves, RevMoves
<1>3. CASE DeleteOldConflict(t)
  <2>1. PICK n \in Nat : n = call[t].tries + 1
    BY ChunkAt DEF CallState
  <2>2. \/ Move(t, NextOld(call[t]))
        \/ Move(t, Again(call[t], "getold", n))
    BY <1>3, <2>1 DEF DeleteOldConflict, Again
  <2>3. \/ call'[t] = NextOld(call[t])
        \/ call'[t] = Again(call[t], "getold", n)
    BY <2>2, Moves
  <2>4. call[t] \in CallState
    BY ChunkAt
  <2> HIDE DEF TypeInv
  <2> QED BY <1>1, <2>3, <2>4, AgainFields DEF GoesOn
<1> QED BY <1>2, <1>3

(* The resolution of a conflict. *)
LEMMA ResolveMoves ==
    ASSUME TypeInv, NEW t \in Thread, LocalWins(t) \/ RemoteWins(t) \/ GetLatest(t)
    PROVE  \/ call'[t] = Idle
           \/ /\ GoesOn(t) /\ call'[t].pc \in {"latest", "final", "getold", "read"}
              /\ call'[t].pc = "getold" => call'[t].i <= NumParts(call'[t].body)
<1>1. /\ call[t] \in CallState /\ doc.body \in File /\ doc.rev \in Nat
  BY ChunkAt DEF Stored
<1>2. CASE LocalWins(t)
  <2> DEFINE pc == IF call[t].data = Absent THEN "latest"
                   ELSE IF NumParts(doc.body) = 0 THEN "final" ELSE "getold"
             r  == [call[t] EXCEPT !.body = doc.body, !.base = doc.rev, !.rev = 0, !.pc = pc]
  <2>1. pc \in PC
    BY DEF PC
  <2>2. /\ r \in CallState /\ r.pc = pc /\ r.i = call[t].i /\ r.body = doc.body
        /\ r.data = call[t].data /\ r.alone = call[t].alone
    BY <1>1, <2>1 DEF CallState
  <2>3. call[t].i = 1
    BY <1>2 DEF LocalWins, TypeInv, Shape, AtChunk
  <2>4. pc \in {"latest", "final", "getold"} /\ (pc = "getold" => 1 <= NumParts(doc.body))
    BY PartsType
  <2>5. Move(t, r)
    BY <1>2 DEF LocalWins
  <2>6. call'[t] = r
    BY <2>5, Moves
  <2> HIDE DEF r, pc
  <2> QED BY <2>2, <2>3, <2>4, <2>6 DEF GoesOn
<1>3. CASE RemoteWins(t)
  <2> DEFINE r == [call[t] EXCEPT !.pc = "read", !.body = doc.body, !.rev = 0]
  <2>1. /\ r \in CallState /\ r.pc = "read"
        /\ r.data = call[t].data /\ r.alone = call[t].alone
    BY <1>1 DEF CallState, PC
  <2>2. Move(t, r)
    BY <1>3 DEF RemoteWins
  <2>3. call'[t] = r
    BY <2>2, Moves
  <2> HIDE DEF r
  <2> QED BY <2>1, <2>3 DEF GoesOn
<1>4. CASE GetLatest(t)
  <2> DEFINE r == [call[t] EXCEPT !.pc = "final", !.base = doc.rev]
  <2>1. /\ r \in CallState /\ r.pc = "final"
        /\ r.data = call[t].data /\ r.alone = call[t].alone
    BY <1>1 DEF CallState, PC
  <2>2. Move(t, r) \/ Move(t, Idle)
    BY <1>4 DEF GetLatest, Leave
  <2>3. call'[t] = r \/ call'[t] = Idle
    BY <2>2, Moves
  <2> HIDE DEF r
  <2> QED BY <2>1, <2>3 DEF GoesOn
<1> QED BY <1>2, <1>3, <1>4

LEMMA ReadEffect ==
    ASSUME TypeInv, NEW t \in Thread, ReadChunk(t)
    PROVE  /\ Leave(t) \/ UNCHANGED <<settled, hole>>
           /\ \E r : Move(t, r)
<1>1. call[t].i \in Nat /\ NumParts(call[t].body) \in Nat
  BY ChunkAt, PartsType DEF CallState
<1>2. CASE call[t].i > NumParts(call[t].body)
  <2>1. ~(call[t].i <= NumParts(call[t].body))
    BY <1>1, <1>2
  <2> QED BY <1>2, <2>1 DEF ReadChunk, Goto
<1>3. CASE call[t].i <= NumParts(call[t].body)
  <2>1. ~(call[t].i > NumParts(call[t].body))
    BY <1>1, <1>3
  <2>2. CASE chunk[call[t].i].body = Absent
    BY <1>3, <2>1, <2>2 DEF ReadChunk, Leave
  <2>3. CASE chunk[call[t].i].body # Absent
    BY <1>3, <2>1, <2>3 DEF ReadChunk
  <2> QED BY <2>2, <2>3
<1> QED BY <1>1, <1>2, <1>3

LEMMA ReadMoves ==
    ASSUME TypeInv, NEW t \in Thread, ReadChunk(t)
    PROVE  \/ call'[t] = Idle
           \/ GoesOn(t) /\ call'[t].pc \in {"read", "deliver"}
<1>1. call[t] \in CallState /\ "deliver" \in PC /\ call[t].pc = "read"
  BY ChunkAt DEF PC, ReadChunk
<1>2. CASE call[t].i > NumParts(call[t].body)
  <2>1. Goto(t, "deliver")
    <3>1. ~(call[t].i <= NumParts(call[t].body))
      BY <1>1, <1>2, PartsType DEF CallState
    <3> QED BY <1>2, <3>1 DEF ReadChunk
  <2> QED BY <1>1, <2>1, GotoMoves
<1>3. CASE call[t].i <= NumParts(call[t].body) /\ chunk[call[t].i].body = Absent
  <2>1. Move(t, Idle)
    <3>1. ~(call[t].i > NumParts(call[t].body))
      BY <1>1, <1>3, PartsType DEF CallState
    <3> QED BY <1>3, <3>1 DEF ReadChunk, Leave
  <2> QED BY <2>1, Moves
<1>4. CASE call[t].i <= NumParts(call[t].body) /\ chunk[call[t].i].body # Absent
  <2>1. PICK k \in 1..(MaxParts + 1) : k = call[t].i + 1
    BY <1>1, <1>4, PartsType DEF CallState
  <2> DEFINE r == [call[t] EXCEPT !.i = k]
  <2>2. r \in CallState /\ r.pc = "read" /\ r.data = call[t].data /\ r.alone = call[t].alone
    BY <1>1 DEF CallState
  <2>3. Move(t, r)
    <3>1. ~(call[t].i > NumParts(call[t].body))
      BY <1>1, <1>4, PartsType DEF CallState
    <3> QED BY <1>4, <2>1, <3>1 DEF ReadChunk
  <2>4. call'[t] = r
    BY <2>3, Moves
  <2> HIDE DEF r
  <2> QED BY <2>2, <2>4 DEF GoesOn
<1>5. call[t].i \in Nat /\ NumParts(call[t].body) \in Nat
  BY <1>1, PartsType DEF CallState
<1> QED BY <1>2, <1>3, <1>4, <1>5

Ends(t) ==
    \/ PutDoc(t) \/ DeleteGone(t) \/ Unresolved(t) \/ ForceDoc(t) \/ Deliver(t)

LEMMA EndMoves ==
    ASSUME TypeInv, NEW t \in Thread, Ends(t)
    PROVE  call'[t] = Idle
BY Moves DEF Ends, PutDoc, DeleteGone, Unresolved, ForceDoc, Deliver, Leave

LEMMA FailMoves ==
    ASSUME TypeInv, NEW t \in Thread, RequestFails(t)
    PROVE  \/ call'[t] = Idle
           \/ call[t].pc \in {"getold", "deleteold"} /\ call'[t] = NextOld(call[t])
           \/ /\ GoesOn(t) /\ call'[t].i = call[t].i /\ call'[t].body = call[t].body
              /\ \/ call[t].pc = "getchunk" /\ call'[t].pc = "putchunk"
                 \/ call[t].pc = "get" /\ call'[t].pc = "put"
                 \/ call[t].pc = "getold" /\ call'[t].pc = "deleteold"
<1>1. "putchunk" \in PC /\ "put" \in PC /\ "deleteold" \in PC
  BY DEF PC
<1>2. CASE Move(t, Idle) \/ (call[t].pc \in {"getold", "deleteold"} /\ Move(t, NextOld(call[t])))
  BY <1>2, Moves
<1>3. CASE call[t].pc = "getchunk" /\ Goto(t, "putchunk")
  BY <1>1, <1>3, GotoMoves
<1>4. CASE call[t].pc = "get" /\ Goto(t, "put")
  BY <1>1, <1>4, GotoMoves
<1>5. CASE call[t].pc = "getold" /\ Goto(t, "deleteold")
  BY <1>1, <1>5, GotoMoves
<1> QED BY <1>2, <1>3, <1>4, <1>5 DEF RequestFails

-----------------------------------------------------------------------------
(* Types. *)

LEMMA StoredType ==
    /\ Nothing \in Stored
    /\ \A d \in Stored, f \in File : Update(d, f) \in Stored
BY DEF Nothing, Stored, Update, File

LEMMA TypeInit == Init => TypeInv
<1> SUFFICES ASSUME Init PROVE TypeInv
  OBVIOUS
<1>1. \A t \in Thread : AtChunk(call[t])
  BY IdleType DEF Init, AtChunk, Chunking
<1>2. doc \in Stored /\ chunk \in [Index -> Stored] /\ call \in [Thread -> CallState]
  BY IdleType, StoredType DEF Init
<1>3. 0 \in 0..MaxCalls /\ 0 \in 0..MaxFaults /\ pos \in Nat
  BY DEF Init
<1>4. TypeOK
  BY <1>2, <1>3 DEF Init, TypeOK, Hash, File
<1> QED BY <1>1, <1>4 DEF TypeInv, Shape

(* A call that has moved is at a chunk of its content. *)
LEMMA MovedType ==
    ASSUME TypeInv, NEW t \in Thread, Step(t) \/ RequestFails(t)
    PROVE  /\ call'[t] \in CallState /\ AtChunk(call'[t])
           /\ \A u \in Thread : u # t => call'[u] = call[u]
           /\ call' \in [Thread -> CallState]
<1>1. \E r : Move(t, r)
  <2>1. CASE \/ Goto(t, "get") \/ Goto(t, "getchunk") \/ Goto(t, "recreate") \/ Goto(t, "deliver")
             \/ Goto(t, "putchunk") \/ Goto(t, "put") \/ Goto(t, "deleteold")
    BY <2>1 DEF Goto
  <2>2. CASE Leave(t) \/ Move(t, Idle)
    BY <2>2 DEF Leave
  <2>3. CASE Retry(t, "getchunk", "reget") \/ Retry(t, "get", "resolve")
    BY <2>3 DEF Retry
  <2>4. CASE MarkPut(t) \/ MarkDelete(t) \/ GetChunk(t) \/ PutChunk(t) \/ ChunkConflict(t)
             \/ RegetChunk(t) \/ RedeleteChunk(t) \/ RecreateChunk(t)
    BY <2>1, <2>2, <2>3, <2>4 DEF MarkPut, MarkDelete, GetChunk, PutChunk, ChunkConflict,
       RegetChunk, RedeleteChunk, RecreateChunk
  <2>5. CASE Look(t) \/ GetOld(t) \/ DeleteOld(t) \/ DeleteOldConflict(t) \/ RequestFails(t)
    BY <2>1, <2>2, <2>5 DEF Look, GetOld, DeleteOld, DeleteOldConflict, RequestFails
  <2>6. CASE GetRev(t) \/ PutDoc(t) \/ DocConflict(t) \/ DeleteGone(t) \/ LocalWins(t)
             \/ RemoteWins(t) \/ Unresolved(t) \/ GetLatest(t) \/ ForceDoc(t)
    BY <2>2, <2>3, <2>6 DEF GetRev, PutDoc, DocConflict, DeleteGone, LocalWins, RemoteWins,
       Unresolved, GetLatest, ForceDoc
  <2>7. CASE ReadChunk(t)
    BY <2>7, ReadEffect
  <2>8. CASE Deliver(t)
    BY <2>2, <2>8 DEF Deliver
  <2> QED BY <2>4, <2>5, <2>6, <2>7, <2>8 DEF Step
<1>2. /\ call[t] \in CallState /\ AtChunk(call[t])
      /\ AtChunk(Idle)
  BY IdleType DEF TypeInv, TypeOK, Shape, AtChunk, Chunking
<1>3. call'[t] \in CallState /\ AtChunk(call'[t])
  <2>1. CASE MarkPut(t) \/ MarkDelete(t)
    BY <2>1, MarkMoves DEF GoesOn, AtChunk, Chunking
  <2>2. CASE GetChunk(t) \/ GetRev(t)
    <3>1. GetChunk(t) => call[t].i <= NumParts(call[t].data)
      BY <1>2 DEF AtChunk, GetChunk, Chunking
    <3>2. GetRev(t) => call[t].i = 1
      BY <1>2 DEF AtChunk, GetRev
    <3> QED BY <2>2, <3>1, <3>2, GetMoves DEF GoesOn, AtChunk, Chunking
  <2>3. CASE call'[t] = Idle
    BY <1>2, <2>3, IdleType
  <2>4. CASE call'[t] = NextPart(call[t]) /\ call[t].pc \in Chunking
    <3>1. call[t].i <= NumParts(call[t].data)
      BY <1>2, <2>4 DEF AtChunk
    <3> QED BY <1>2, <2>4, <3>1, NextPartFields DEF AtChunk, Chunking
  <2>5. CASE call'[t] = NextOld(call[t]) /\ call[t].pc \in {"getold", "deleteold"}
    <3>1. call[t].i <= NumParts(call[t].body)
      BY <1>2, <2>5 DEF AtChunk
    <3>2. NextOld(call[t]).pc = "markdelete" => NextOld(call[t]).i = 1
      BY DEF NextOld
    <3> QED BY <1>2, <2>5, <3>1, <3>2, NextOldFields DEF AtChunk, Chunking
  <2>6. CASE ChunkConflict(t) \/ DocConflict(t)
    <3>1. ChunkConflict(t) => call[t].i <= NumParts(call[t].data)
      BY <1>2 DEF AtChunk, ChunkConflict, Chunking
    <3>2. DocConflict(t) => call[t].i = 1
      BY <1>2 DEF AtChunk, DocConflict
    <3> QED BY <2>6, <3>1, <3>2, ConflictMoves DEF GoesOn, AtChunk, Chunking
  <2>7. CASE RegetChunk(t) \/ RedeleteChunk(t)
    <3>1. call[t].i <= NumParts(call[t].data)
      BY <1>2, <2>7 DEF AtChunk, RegetChunk, RedeleteChunk, Chunking
    <3> QED BY <2>3, <2>7, <3>1, AfreshMoves DEF GoesOn, AtChunk, Chunking
  <2>8. CASE Look(t)
    <3>1. call[t].data = Absent
      BY <1>2, <2>8 DEF AtChunk, Look
    <3> QED BY <2>3, <2>8, <3>1, LookMoves DEF GoesOn, AtChunk, Chunking
  <2>9. CASE GetOld(t) \/ DeleteOldConflict(t)
    <3>1. call[t].pc \in {"getold", "deleteold"} /\ call[t].i <= NumParts(call[t].body)
      BY <1>2, <2>9 DEF AtChunk, GetOld, DeleteOldConflict
    <3> QED BY <2>5, <2>9, <3>1, OldMoves DEF GoesOn, AtChunk, Chunking
  <2>10. CASE LocalWins(t) \/ RemoteWins(t) \/ GetLatest(t)
    BY <2>3, <2>10, ResolveMoves DEF GoesOn, AtChunk, Chunking
  <2>11. CASE ReadChunk(t)
    BY <2>3, <2>11, ReadMoves DEF GoesOn, AtChunk, Chunking
  <2>12. CASE PutChunk(t) \/ RecreateChunk(t) \/ DeleteOld(t)
    <3>1. /\ PutChunk(t) \/ RecreateChunk(t) => call[t].pc \in Chunking
          /\ DeleteOld(t) => call[t].pc \in {"getold", "deleteold"}
      BY DEF PutChunk, RecreateChunk, DeleteOld, Chunking
    <3> QED BY <2>3, <2>4, <2>5, <2>12, <3>1, WriteMoves
  <2>13. CASE Ends(t)
    BY <2>3, <2>13, EndMoves
  <2>14. CASE RequestFails(t)
    <3>1. ASSUME GoesOn(t), call'[t].i = call[t].i, call'[t].body = call[t].body
          PROVE  /\ call[t].pc = "getchunk" /\ call'[t].pc = "putchunk" => AtChunk(call'[t])
                 /\ call[t].pc = "get" /\ call'[t].pc = "put" => AtChunk(call'[t])
                 /\ call[t].pc = "getold" /\ call'[t].pc = "deleteold" => AtChunk(call'[t])
      BY <1>2, <3>1 DEF GoesOn, AtChunk, Chunking
    <3> QED BY <2>3, <2>5, <2>14, <3>1, FailMoves DEF GoesOn
  <2> QED BY <2>1, <2>2, <2>6, <2>7, <2>8, <2>9, <2>10, <2>11, <2>12, <2>13, <2>14 DEF Step, Ends
<1>4. \A u \in Thread : u # t => call'[u] = call[u]
  BY <1>1, Moves
<1>5. call' \in [Thread -> CallState]
  BY <1>1, <1>3 DEF Move, TypeInv, TypeOK
<1> QED BY <1>3, <1>4, <1>5

LEMMA StepType ==
    ASSUME TypeInv, NEW t \in Thread, Step(t) \/ RequestFails(t)
    PROVE  TypeInv'
<1>1. /\ call' \in [Thread -> CallState] /\ Shape'
      /\ call[t] \in CallState /\ call[t].data \in File
  BY MovedType, ChunkAt DEF Shape, TypeInv, CallState
<1>2. /\ doc' \in Stored /\ chunk' \in [Index -> Stored]
  <2>1. Forced(call[t].data) \in File
    BY <1>1 DEF Forced, File
  <2>2. doc' \in {doc, Update(doc, call[t].data), Update(doc, Forced(call[t].data))}
    BY DEF Step, RequestFails, MarkPut, GetChunk, PutChunk, ChunkConflict, RegetChunk,
       RedeleteChunk, RecreateChunk, Look, GetOld, DeleteOld, DeleteOldConflict, MarkDelete,
       GetRev, PutDoc, DocConflict, DeleteGone, LocalWins, RemoteWins, Unresolved, GetLatest,
       ForceDoc, ReadChunk, Deliver
  <2>3. \/ chunk' = chunk
        \/ \E i \in Index, f \in File : chunk' = [chunk EXCEPT ![i] = Update(@, f)]
    <3>1. CASE PutChunk(t) \/ RecreateChunk(t) \/ DeleteOld(t) \/ RedeleteChunk(t)
      <4>1. call[t].i \in Index
        BY <3>1, ChunkAt DEF PutChunk, RecreateChunk, DeleteOld, RedeleteChunk, Chunking
      <4> QED BY <1>1, <3>1, <4>1 DEF PutChunk, RecreateChunk, DeleteOld, RedeleteChunk, File
    <3>2. CASE ~(PutChunk(t) \/ RecreateChunk(t) \/ DeleteOld(t) \/ RedeleteChunk(t))
      BY <3>2 DEF Step, RequestFails, MarkPut, GetChunk, ChunkConflict, RegetChunk,
       Look, GetOld, DeleteOldConflict, MarkDelete,
       GetRev, PutDoc, DocConflict, DeleteGone, LocalWins, RemoteWins, Unresolved, GetLatest,
       ForceDoc, ReadChunk, Deliver
    <3> QED BY <3>1, <3>2
  <2> QED BY <1>1, <2>1, <2>2, <2>3, StoredType DEF TypeInv, TypeOK
<1>3. /\ settled' \in File \cup {NoHash} /\ hole' \in BOOLEAN
  <2>1. CASE UNCHANGED <<settled, hole>>
    BY <2>1 DEF TypeInv, TypeOK
  <2>2. CASE Leave(t)
    BY <2>1, <2>2 DEF Leave
  <2>3. CASE PutDoc(t)
    BY <1>1, <2>3 DEF PutDoc, TypeInv, TypeOK
  <2>4. CASE DeleteOld(t) \/ RequestFails(t)
    BY <2>4 DEF DeleteOld, RequestFails, TypeInv, TypeOK
  <2>5. CASE MarkPut(t) \/ MarkDelete(t) \/ GetChunk(t) \/ PutChunk(t) \/ ChunkConflict(t)
             \/ RegetChunk(t) \/ RedeleteChunk(t) \/ RecreateChunk(t)
    BY <2>1, <2>2, <2>5 DEF MarkPut, MarkDelete, GetChunk, PutChunk, ChunkConflict,
       RegetChunk, RedeleteChunk, RecreateChunk, history
  <2>6. CASE Look(t) \/ GetOld(t) \/ DeleteOldConflict(t) \/ Deliver(t) \/ ReadChunk(t)
    <3>1. CASE ReadChunk(t)
      BY <2>1, <2>2, <3>1, ReadEffect
    <3> QED BY <2>1, <2>2, <2>6, <3>1 DEF Look, GetOld, DeleteOldConflict, Deliver, history
  <2>7. CASE GetRev(t) \/ PutDoc(t) \/ DocConflict(t) \/ DeleteGone(t) \/ LocalWins(t)
             \/ RemoteWins(t) \/ Unresolved(t) \/ GetLatest(t) \/ ForceDoc(t)
    BY <2>1, <2>2, <2>3, <2>7 DEF GetRev, DocConflict, DeleteGone, LocalWins, RemoteWins,
       Unresolved, GetLatest, ForceDoc, history
  <2> QED BY <2>4, <2>5, <2>6, <2>7 DEF Step
<1>4. cache' \in Hash /\ file' \in File /\ pos' \in Nat /\ latest' \in File
  <2>1. ReadBack(call[t].body) \in File
    BY ChunkAt DEF ReadBack, CallState, File
  <2>2. \A f \in File : DeliverHash(f) \in Hash /\ DispatchHash(f) \in Hash
    BY DEF DeliverHash, DispatchHash, Bytes, File, Hash
  <2>3. cache' \in {cache, DeliverHash(call[t].data), DeliverHash(Absent),
                    DispatchHash(ReadBack(call[t].body))}
    BY DEF Step, RequestFails, MarkPut, GetChunk, PutChunk, ChunkConflict, RegetChunk,
       RedeleteChunk, RecreateChunk, Look, GetOld, DeleteOld, DeleteOldConflict, MarkDelete,
       GetRev, PutDoc, DocConflict, DeleteGone, LocalWins, RemoteWins, Unresolved, GetLatest,
       ForceDoc, ReadChunk, Deliver
  <2>4. file' \in {file, ReadBack(call[t].body)} /\ pos' = pos /\ latest' = latest
    BY DEF Step, RequestFails, MarkPut, GetChunk, PutChunk, ChunkConflict, RegetChunk,
       RedeleteChunk, RecreateChunk, Look, GetOld, DeleteOld, DeleteOldConflict, MarkDelete,
       GetRev, PutDoc, DocConflict, DeleteGone, LocalWins, RemoteWins, Unresolved, GetLatest,
       ForceDoc, ReadChunk, Deliver, history
  <2>5. Absent \in File
    BY DEF File
  <2> QED BY <1>1, <2>1, <2>2, <2>3, <2>4, <2>5 DEF TypeInv, TypeOK
<1>5. calls' \in 0..MaxCalls /\ faults' \in 0..MaxFaults
  <2>1. calls' = calls /\ (faults' = faults \/ (faults < MaxFaults /\ faults' = faults + 1))
    BY DEF Step, RequestFails, MarkPut, GetChunk, PutChunk, ChunkConflict, RegetChunk,
       RedeleteChunk, RecreateChunk, Look, GetOld, DeleteOld, DeleteOldConflict, MarkDelete,
       GetRev, PutDoc, DocConflict, DeleteGone, LocalWins, RemoteWins, Unresolved, GetLatest,
       ForceDoc, ReadChunk, Deliver, history, Fault
  <2> QED BY <2>1 DEF TypeInv, TypeOK
<1> QED BY <1>1, <1>2, <1>3, <1>4, <1>5 DEF TypeInv, TypeOK

(* A call has begun. *)
Begun(w, f, pc) ==
    /\ call'[w].pc = pc /\ call'[w].data = f /\ call'[w].i = 1 /\ call'[w].rev = 0
    /\ call'[w].alone => (\A u \in Writers \ {w} : call[u].pc = "idle")
    /\ \A u \in Thread \ {w} :
          /\ call'[u].pc = call[u].pc /\ call'[u].data = call[u].data
          /\ call'[u].i = call[u].i /\ call'[u].alone = FALSE

LEMMA BeginType ==
    ASSUME TypeInv, NEW w \in Writers, NEW f \in File, NEW pc \in {"mark", "look"},
           pc = "look" => f = Absent, Begin(w, f, pc)
    PROVE  TypeInv' /\ Begun(w, f, pc)
<1> DEFINE free == {u \in Writers \ {w} : call[u].pc # "idle"} = {}
           new    == [Idle EXCEPT !.pc = pc, !.data = f, !.alone = free]
           old(u) == [call[u] EXCEPT !.alone = FALSE]
<1>1. /\ new \in CallState /\ new.pc = pc /\ new.data = f /\ new.i = 1 /\ new.rev = 0
      /\ new.alone = free
  BY IdleType DEF Idle, CallState, PC
<1>2. \A u \in Thread :
          /\ old(u) \in CallState /\ old(u).pc = call[u].pc /\ old(u).data = call[u].data
          /\ old(u).i = call[u].i /\ old(u).body = call[u].body /\ old(u).alone = FALSE
  BY ChunkAt DEF CallState
<1>3. call' = [u \in Thread |-> IF u = w THEN new ELSE old(u)]
  BY DEF Begin, Offer
<1>4. w \in Thread /\ (free <=> \A u \in Writers \ {w} : call[u].pc = "idle")
  BY DEF Thread
<1> HIDE DEF new, old, free
<1>5. call' \in [Thread -> CallState]
  BY <1>1, <1>2, <1>3
<1>6. call'[w] = new /\ \A u \in Thread \ {w} : call'[u] = old(u)
  BY <1>3, <1>4
<1>7. Shape'
  <2>1. AtChunk(new)
    BY <1>1 DEF AtChunk, Chunking
  <2>2. \A u \in Thread : AtChunk(old(u))
    BY <1>2 DEF AtChunk, TypeInv, Shape
  <2> QED BY <1>6, <2>1, <2>2 DEF Shape
<1>8. UNCHANGED <<doc, chunk, cache, pos, hole, faults>> /\ file' = f /\ latest' = f
      /\ settled' = NoHash /\ calls < MaxCalls /\ calls' = calls + 1
  BY DEF Begin, Offer
<1>9. calls' \in 0..MaxCalls
  BY <1>8 DEF TypeInv, TypeOK
<1>10. TypeInv'
  BY <1>5, <1>7, <1>8, <1>9 DEF TypeInv, TypeOK
<1> QED BY <1>1, <1>2, <1>4, <1>6, <1>10 DEF Begun

LEMMA FaultType ==
    ASSUME TypeInv, TakeRow \/ Crash
    PROVE  TypeInv'
<1>1. CASE TakeRow
  <2> DEFINE r == [Idle EXCEPT !.pc = "read", !.body = doc.body]
  <2>1. r \in CallState /\ r.pc = "read"
    BY ChunkAt, IdleType DEF CallState, PC, TypeInv, TypeOK, Stored
  <2>2. call' = [call EXCEPT ![Feed] = r]
    BY <1>1 DEF TakeRow, Move
  <2>3. AtChunk(r)
    BY <2>1 DEF AtChunk, Chunking
  <2> HIDE DEF r
  <2>4. call' \in [Thread -> CallState] /\ Shape'
    BY <2>1, <2>2, <2>3 DEF TypeInv, TypeOK, Shape
  <2>5. pos' \in Nat /\ UNCHANGED <<doc, chunk, cache, file, history>>
    BY <1>1 DEF TakeRow, TypeInv, TypeOK, Stored
  <2> QED BY <2>4, <2>5 DEF TypeInv, TypeOK, history
<1>2. CASE Crash
  <2>1. call' \in [Thread -> CallState] /\ Shape'
    BY <1>2, IdleType DEF Crash, Shape, AtChunk, Chunking
  <2>2. cache' \in Hash /\ hole' \in BOOLEAN /\ faults' \in 0..MaxFaults
    BY <1>2 DEF Crash, Fault, Hash, TypeInv, TypeOK
  <2>3. UNCHANGED <<doc, chunk, file, pos, latest, settled, calls>>
    BY <1>2 DEF Crash
  <2> QED BY <2>1, <2>2, <2>3 DEF TypeInv, TypeOK
<1> QED BY <1>1, <1>2

LEMMA TypeStep == TypeInv /\ [Next]_vars => TypeInv'
<1> SUFFICES ASSUME TypeInv, [Next]_vars PROVE TypeInv'
  OBVIOUS
<1>1. CASE UNCHANGED vars
  BY <1>1 DEF vars, TypeInv, TypeOK, Shape, AtChunk
<1>2. ASSUME NEW w \in Writers, BeginPut(w) \/ BeginDelete(w)
      PROVE  TypeInv'
  <2>1. Absent \in File /\ Content \subseteq File
    BY DEF File
  <2>2. CASE \E f \in File : Repeat(w, f)
    BY <2>2 DEF Repeat, Offer, TypeInv, TypeOK, Shape, AtChunk
  <2> QED BY <1>2, <2>1, <2>2, BeginType DEF BeginPut, BeginDelete
<1> QED BY <1>1, <1>2, StepType, FaultType DEF Next

(* Every variable keeps its type, and no request names a chunk that the
   content does not have (putChunked and deleteChunkWithRetry count to the
   length of the document they were given). *)
THEOREM TypeCorrect == Spec => []TypeOK
<1>1. TypeInv => TypeOK
  BY DEF TypeInv
<1> QED BY <1>1, TypeInit, TypeStep, PTL DEF Spec

-----------------------------------------------------------------------------
(* What a step does to the documents. *)

LEMMA HoleEffect ==
    ASSUME TypeInv, NEW t \in Thread, Step(t) \/ RequestFails(t)
    PROVE  /\ hole => hole' \/ (PutDoc(t) /\ call[t].alone)
           /\ settled' \in {settled, NoHash} \/ (PutDoc(t) /\ call[t].alone)
<1>1. CASE UNCHANGED <<settled, hole>>
  BY <1>1
<1>2. CASE Leave(t)
  BY <1>2 DEF Leave
<1>3. CASE PutDoc(t)
  BY <1>3 DEF PutDoc
<1>4. CASE DeleteOld(t) \/ RequestFails(t)
  <2>1. CASE DeleteOld(t)
    BY <2>1 DEF DeleteOld
  <2>2. CASE RequestFails(t)
    <3>1. settled' = settled /\ hole \in BOOLEAN
      BY <2>2 DEF RequestFails, TypeInv, TypeOK
    <3>2. hole' = (hole \/ call[t].pc = "recreate")
      BY <2>2 DEF RequestFails
    <3>3. hole => hole'
      BY <3>2, Zenon
    <3> QED BY <3>1, <3>3
  <2> QED BY <1>4, <2>1, <2>2
<1>5. CASE MarkPut(t) \/ MarkDelete(t) \/ GetChunk(t) \/ PutChunk(t) \/ ChunkConflict(t)
           \/ RegetChunk(t) \/ RedeleteChunk(t) \/ RecreateChunk(t)
  <2>1. UNCHANGED <<settled, hole>> \/ Leave(t)
    BY <1>5 DEF MarkPut, MarkDelete, GetChunk, PutChunk, ChunkConflict,
       RegetChunk, RedeleteChunk, RecreateChunk, history
  <2> QED BY <1>1, <1>2, <2>1
<1>6. CASE Look(t) \/ GetOld(t) \/ DeleteOldConflict(t) \/ Deliver(t) \/ ReadChunk(t)
  <2>1. UNCHANGED <<settled, hole>> \/ Leave(t)
    BY <1>6, ReadEffect DEF Look, GetOld, DeleteOldConflict, Deliver, history
  <2> QED BY <1>1, <1>2, <2>1
<1>7. CASE GetRev(t) \/ PutDoc(t) \/ DocConflict(t) \/ DeleteGone(t) \/ LocalWins(t)
           \/ RemoteWins(t) \/ Unresolved(t) \/ GetLatest(t) \/ ForceDoc(t)
  <2>1. UNCHANGED <<settled, hole>> \/ Leave(t) \/ PutDoc(t)
    BY <1>7 DEF GetRev, DocConflict, DeleteGone, LocalWins, RemoteWins,
       Unresolved, GetLatest, ForceDoc, history
  <2> QED BY <1>1, <1>2, <1>3, <2>1
<1> QED BY <1>4, <1>5, <1>6, <1>7 DEF Step

LEMMA ChunkEffect ==
    ASSUME TypeInv, NEW t \in Thread, Step(t) \/ RequestFails(t), NEW j \in Index
    PROVE  \/ chunk'[j] = chunk[j]
           \/ /\ PutChunk(t) \/ RecreateChunk(t)
              /\ call[t].pc \in Chunking /\ j = call[t].i
              /\ chunk'[j].body = call[t].data /\ call[t].data # Absent
              /\ call'[t] = NextPart(call[t])
           \/ RedeleteChunk(t) /\ call'[t].pc = "recreate" /\ call'[t].i = j
           \/ DeleteOld(t) /\ hole'
<1>1. \A d, f : Update(d, f).body = f
  BY DEF Update
<1>2. CASE PutChunk(t) \/ RecreateChunk(t) \/ DeleteOld(t) \/ RedeleteChunk(t)
  <2>1. /\ call[t].i \in Index
        /\ PutChunk(t) \/ RecreateChunk(t) => call[t].pc \in Chunking /\ call[t].data # Absent
    BY <1>2, ChunkAt DEF PutChunk, RecreateChunk, DeleteOld, RedeleteChunk, Chunking
  <2>2. CASE chunk' = chunk
    BY <2>2
  <2>3. CASE j # call[t].i
    BY <1>2, <2>3 DEF PutChunk, RecreateChunk, DeleteOld, RedeleteChunk, TypeInv, TypeOK
  <2>4. CASE j = call[t].i /\ chunk' # chunk
    <3>1. CASE PutChunk(t)
      <4>1. chunk'[j].body = call[t].data
        BY <1>1, <2>1, <2>4, <3>1 DEF PutChunk, TypeInv, TypeOK
      <4> QED BY <2>1, <2>4, <3>1, <4>1, WriteMoves
    <3>2. CASE RecreateChunk(t)
      <4>1. chunk'[j].body = call[t].data /\ Move(t, NextPart(call[t]))
        BY <1>1, <2>1, <2>4, <3>2 DEF RecreateChunk, TypeInv, TypeOK
      <4> QED BY <2>1, <2>4, <3>2, <4>1, Moves
    <3>3. CASE RedeleteChunk(t)
      BY <2>4, <3>3, AfreshMoves, IdleType DEF RedeleteChunk, RegetChunk
    <3>4. CASE DeleteOld(t)
      BY <3>4 DEF DeleteOld
    <3> QED BY <1>2, <3>1, <3>2, <3>3, <3>4
  <2> QED BY <2>2, <2>3, <2>4
<1>3. CASE ~(PutChunk(t) \/ RecreateChunk(t) \/ DeleteOld(t) \/ RedeleteChunk(t))
  BY <1>3 DEF Step, RequestFails, MarkPut, GetChunk, ChunkConflict, RegetChunk,
     Look, GetOld, DeleteOldConflict, MarkDelete,
     GetRev, PutDoc, DocConflict, DeleteGone, LocalWins, RemoteWins, Unresolved, GetLatest,
     ForceDoc, ReadChunk, Deliver
<1> QED BY <1>2, <1>3

(* A document lists nothing that was not written just before. *)
LEMMA ListedEffect ==
    ASSUME TypeInv, NEW t \in Thread, Step(t) \/ RequestFails(t), NEW j \in Listed'
    PROVE  j \in Listed \/ j \in Done(call[t])
<1>1. call[t].data \in File
  BY ChunkAt DEF CallState
<1>2. CASE doc' = doc
  BY <1>2 DEF Listed
<1>3. CASE PutDoc(t)
  <2>1. doc'.body = call[t].data /\ call[t].pc = "put"
    BY <1>3 DEF PutDoc, Update
  <2> QED BY <2>1 DEF Listed, Done, NumParts
<1>4. CASE ForceDoc(t) /\ doc' # doc
  <2>1. doc'.body = Forced(call[t].data)
    BY <1>4 DEF ForceDoc, Update
  <2>2. NumParts(Forced(call[t].data)) = 0
    <3>1. CASE NumParts(call[t].data) > 0
      BY <3>1 DEF Forced, NumParts
    <3>2. CASE ~(NumParts(call[t].data) > 0)
      BY <3>2, PartsType DEF Forced
    <3> QED BY <3>1, <3>2
  <2>3. NumParts(doc.body)' = 0
    BY <2>1, <2>2 DEF NumParts
  <2> QED BY <2>3 DEF Listed
<1>5. doc' = doc \/ PutDoc(t) \/ ForceDoc(t)
  BY DEF Step, RequestFails, MarkPut, GetChunk, PutChunk, ChunkConflict,
     RegetChunk, RedeleteChunk, RecreateChunk, Look, GetOld, DeleteOld, DeleteOldConflict,
     MarkDelete, GetRev, DocConflict, DeleteGone, LocalWins, RemoteWins, Unresolved, GetLatest,
     ReadChunk, Deliver
<1> QED BY <1>2, <1>3, <1>4, <1>5

(* The chunks that a call has written are those it had written before, and
   the one that it writes. *)
LEMMA DoneEffect ==
    ASSUME TypeInv, NEW t \in Thread, Step(t) \/ RequestFails(t), NEW j \in Done(call'[t])
    PROVE  /\ call'[t].data = call[t].data /\ call[t].data \in Content /\ j \in Index
           /\ \/ j \in Done(call[t])
              \/ /\ PutChunk(t) \/ RecreateChunk(t)
                 /\ call[t].pc \in Chunking /\ j = call[t].i
<1>1. Done(Idle) = {}
  BY IdleType DEF Done, Chunking
<1>2. call'[t] # Idle
  BY <1>1
<1>3. j \in Nat /\ call[t].i \in Nat /\ AtChunk(call[t]) /\ call[t] \in CallState
  BY ChunkAt DEF Done, CallState, TypeInv, Shape
<1>4. call'[t].pc \in Chunking \cup {"get", "put"}
  BY DEF Done
<1> DEFINE Goal == /\ call'[t].data = call[t].data
                   /\ \/ j \in Done(call[t])
                      \/ /\ PutChunk(t) \/ RecreateChunk(t)
                         /\ call[t].pc \in Chunking /\ j = call[t].i
<1>5. CASE call'[t] = NextOld(call[t]) /\ call[t].pc \in {"getold", "deleteold"}
  BY <1>3, <1>4, <1>5, NextOldFields DEF AtChunk, Chunking
<1>6. Goal
  <2>1. CASE MarkPut(t) \/ MarkDelete(t)
    <3>1. MarkDelete(t) => NumParts(call[t].data) = 0
      BY <1>3, PartsType DEF AtChunk, MarkDelete
    <3>2. FALSE
      BY <1>3, <2>1, <3>1, MarkMoves DEF GoesOn, Done, Chunking
    <3> QED BY <3>2
  <2>2. CASE GetChunk(t) \/ GetRev(t)
    BY <1>3, <2>2, GetMoves DEF GoesOn, Done, Chunking, GetChunk, GetRev
  <2>3. CASE (PutChunk(t) \/ RecreateChunk(t)) /\ call'[t] = NextPart(call[t])
    <3>1. call[t].pc \in Chunking /\ call[t].i <= NumParts(call[t].data)
      BY <1>3, <2>3 DEF PutChunk, RecreateChunk, Chunking, AtChunk
    <3>2. NumParts(call[t].data) \in Nat /\ j \in 1..NumParts(call'[t].data)
      BY PartsType DEF Done
    <3>3. /\ call'[t].data = call[t].data
          /\ \/ call'[t].pc = "getchunk" /\ call'[t].i = call[t].i + 1
             \/ call'[t].pc = "get" /\ call[t].i = NumParts(call[t].data)
      BY <1>3, <2>3, <3>1, NextPartFields
    <3>4. j \in 1..NumParts(call[t].data) /\ (j < call[t].i \/ j = call[t].i)
      <4>1. CASE call'[t].pc = "getchunk" /\ call'[t].i = call[t].i + 1
        <5>1. j < call[t].i + 1
          BY <4>1 DEF Done, Chunking
        <5> QED BY <1>3, <3>2, <3>3, <5>1
      <4>2. CASE call[t].i = NumParts(call[t].data)
        BY <1>3, <3>2, <3>3, <4>2
      <4> QED BY <3>3, <4>1, <4>2
    <3> QED BY <2>3, <3>1, <3>3, <3>4 DEF Done
  <2>4. CASE ChunkConflict(t) \/ DocConflict(t)
    BY <1>3, <2>4, ConflictMoves DEF GoesOn, Done, Chunking, ChunkConflict, DocConflict
  <2>5. CASE RegetChunk(t) \/ RedeleteChunk(t)
    BY <1>2, <1>3, <2>5, AfreshMoves DEF GoesOn, Done, Chunking, RegetChunk, RedeleteChunk
  <2>6. CASE Look(t)
    BY <1>2, <1>4, <2>6, LookMoves DEF Chunking
  <2>7. CASE GetOld(t) \/ DeleteOldConflict(t)
    BY <1>4, <1>5, <2>7, OldMoves DEF Chunking, GetOld, DeleteOldConflict
  <2>8. CASE LocalWins(t) \/ RemoteWins(t) \/ GetLatest(t)
    BY <1>2, <1>4, <2>8, ResolveMoves DEF Chunking
  <2>9. CASE ReadChunk(t)
    BY <1>2, <1>4, <2>9, ReadMoves DEF Chunking
  <2>10. CASE DeleteOld(t)
    BY <1>5, <2>10, WriteMoves DEF DeleteOld
  <2>11. CASE Ends(t)
    BY <1>2, <2>11, EndMoves
  <2>13. CASE RequestFails(t)
    <3>1. CASE GoesOn(t) /\ call'[t].i = call[t].i
               /\ \/ call[t].pc = "getchunk" /\ call'[t].pc = "putchunk"
                  \/ call[t].pc = "get" /\ call'[t].pc = "put"
      BY <3>1 DEF GoesOn, Done, Chunking
    <3> QED BY <1>2, <1>4, <1>5, <2>13, <3>1, FailMoves DEF Chunking
  <2>12. CASE RecreateChunk(t) \/ PutChunk(t)
    BY <1>2, <2>3, <2>12, WriteMoves
  <2> QED BY <2>1, <2>2, <2>4, <2>5, <2>6, <2>7, <2>8, <2>9, <2>10, <2>11, <2>12, <2>13 DEF Step, Ends
<1>7. call[t].data \in Content /\ j \in Index
  BY <1>6, PartsType DEF Done, Index
<1> QED BY <1>6, <1>7

-----------------------------------------------------------------------------
(* The invariant, step by step. *)

LEMMA DoneIndex ==
    ASSUME NEW r
    PROVE  /\ Done(r) \subseteq Index /\ Listed \subseteq Index
           /\ r.pc = "idle" => Done(r) = {}
<1>1. NumParts(r.data) \in 0..MaxParts /\ NumParts(doc.body) \in 0..MaxParts
  BY PartsType
<1>2. 1..NumParts(r.data) \subseteq Index /\ 1..NumParts(doc.body) \subseteq Index
  BY <1>1 DEF Index
<1> QED BY <1>2 DEF Done, Chunking, Listed

LEMMA Busy ==
    ASSUME NEW t \in Thread, Step(t) \/ RequestFails(t)
    PROVE  call[t].pc # "idle"
<1>1. CASE MarkPut(t) \/ MarkDelete(t) \/ GetChunk(t) \/ PutChunk(t) \/ ChunkConflict(t)
           \/ RegetChunk(t) \/ RedeleteChunk(t) \/ RecreateChunk(t)
  BY <1>1 DEF MarkPut, MarkDelete, GetChunk, PutChunk, ChunkConflict,
     RegetChunk, RedeleteChunk, RecreateChunk
<1>2. CASE Look(t) \/ GetOld(t) \/ DeleteOld(t) \/ DeleteOldConflict(t) \/ Deliver(t)
           \/ ReadChunk(t) \/ RequestFails(t)
  BY <1>2 DEF Look, GetOld, DeleteOld, DeleteOldConflict, Deliver, ReadChunk, RequestFails
<1>3. CASE GetRev(t) \/ PutDoc(t) \/ DocConflict(t) \/ DeleteGone(t) \/ LocalWins(t)
           \/ RemoteWins(t) \/ Unresolved(t) \/ GetLatest(t) \/ ForceDoc(t)
  BY <1>3 DEF GetRev, PutDoc, DocConflict, DeleteGone, LocalWins, RemoteWins,
     Unresolved, GetLatest, ForceDoc
<1> QED BY <1>1, <1>2, <1>3 DEF Step

(* What the call writes into a chunk before it goes on. *)
LEMMA WrittenBody ==
    ASSUME TypeInv, NEW t \in Thread, PutChunk(t) \/ RecreateChunk(t), call'[t] # Idle
    PROVE  /\ chunk'[call[t].i].body = call[t].data /\ call[t].data # Absent
           /\ call'[t] = NextPart(call[t])
<1>1. \A d, f : Update(d, f).body = f
  BY DEF Update
<1>2. call[t].i \in Index /\ call[t].data # Absent
  BY ChunkAt DEF PutChunk, RecreateChunk, Chunking
<1>3. CASE PutChunk(t)
  <2>1. chunk'[call[t].i].body = call[t].data
    BY <1>1, <1>2, <1>3 DEF PutChunk, TypeInv, TypeOK
  <2> QED BY <1>2, <1>3, <2>1, WriteMoves
<1>4. CASE RecreateChunk(t)
  <2>1. ~Move(t, Idle)
    BY Moves
  <2>2. Accepts(chunk[call[t].i], 0)
    BY <1>4, <2>1 DEF RecreateChunk, Leave
  <2>3. /\ chunk'[call[t].i].body = call[t].data
        /\ Move(t, NextPart(call[t]))
    BY <1>1, <1>2, <1>4, <2>2 DEF RecreateChunk, TypeInv, TypeOK
  <2> QED BY <1>2, <2>3, Moves
<1> QED BY <1>3, <1>4

(* Only the end of a call that ran alone may forget that a chunk was taken
   away; but for that, what exists goes on existing. *)
LEMMA ExistsStays ==
    ASSUME TypeInv, NEW t \in Writers, Step(t) \/ RequestFails(t),
           ~(PutDoc(t) /\ call[t].alone), NEW j \in Index, Exists(j)
    PROVE  Exists(j)'
<1>0. t \in Thread
  BY DEF Thread
<1>1. CASE hole
  BY <1>0, <1>1, HoleEffect DEF Exists
<1>2. CASE chunk[j].body # Absent
  BY <1>0, <1>2, ChunkEffect DEF Exists
<1>3. ASSUME NEW w \in Writers, call[w].pc = "recreate", call[w].i = j
      PROVE  Exists(j)'
  <2>1. CASE w # t
    <3>1. call'[w] = call[w]
      BY <1>0, <2>1, MovedType DEF Thread
    <3> QED BY <1>3, <3>1 DEF Exists
  <2>2. CASE w = t
    <3>1. RecreateChunk(t) \/ RequestFails(t)
      BY <1>3, <2>2 DEF Step, MarkPut, MarkDelete, GetChunk, PutChunk, ChunkConflict,
         RegetChunk, RedeleteChunk, Look, GetOld, DeleteOld, DeleteOldConflict, Deliver, ReadChunk,
         GetRev, PutDoc, DocConflict, DeleteGone, LocalWins, RemoteWins, Unresolved, GetLatest,
         ForceDoc
    <3>2. CASE RequestFails(t)
      BY <1>3, <2>2, <3>2 DEF RequestFails, Exists
    <3>3. CASE RecreateChunk(t) /\ Accepts(chunk[j], 0)
      <4>1. chunk' = [chunk EXCEPT ![j] = Update(@, call[t].data)]
        BY <1>3, <2>2, <3>3 DEF RecreateChunk
      <4>2. chunk'[j].body = call[t].data /\ call[t].data # Absent
        BY <1>0, <1>3, <2>2, <4>1, ChunkAt DEF Update, TypeInv, TypeOK, Chunking
      <4> QED BY <4>2 DEF Exists
    <3>4. CASE RecreateChunk(t) /\ ~Accepts(chunk[j], 0)
      <4>1. chunk' = chunk /\ chunk[j].body # Absent
        BY <1>3, <2>2, <3>4 DEF RecreateChunk, Accepts
      <4> QED BY <4>1 DEF Exists
    <3> QED BY <3>1, <3>2, <3>3, <3>4
  <2> QED BY <2>1, <2>2
<1> QED BY <1>1, <1>2, <1>3 DEF Exists

LEMMA ChunksStay ==
    ASSUME ChunkInv, NEW t \in Writers, Step(t) \/ RequestFails(t),
           ~(PutDoc(t) /\ call[t].alone)
    PROVE  /\ \A j \in Listed' : Exists(j)'
           /\ \A w \in Writers : \A j \in Done(call'[w]) : Exists(j)'
<1>0. t \in Thread /\ TypeInv
  BY DEF Thread, ChunkInv
<1>1. \A j \in Index : Exists(j) => Exists(j)'
  BY <1>0, ExistsStays
<1>2. ASSUME NEW j \in Listed' PROVE Exists(j)'
  <2>1. j \in Listed \/ j \in Done(call[t])
    BY <1>0, <1>2, ListedEffect
  <2>2. j \in Index
    BY <2>1, DoneIndex
  <2> QED BY <1>1, <2>1, <2>2 DEF ChunkInv
<1>3. ASSUME NEW w \in Writers, NEW j \in Done(call'[w]) PROVE Exists(j)'
  <2>1. CASE w # t
    <3>1. call'[w] = call[w]
      BY <1>0, <2>1, MovedType DEF Thread
    <3>2. j \in Done(call[w]) /\ j \in Index
      BY <3>1, DoneIndex
    <3> QED BY <1>1, <3>2 DEF ChunkInv
  <2>2. CASE w = t
    <3>1. CASE j \in Done(call[t])
      BY <1>1, <3>1, DoneIndex DEF ChunkInv
    <3>2. CASE (PutChunk(t) \/ RecreateChunk(t)) /\ j = call[t].i
      <4>1. call'[t] # Idle
        BY <1>3, <2>2, DoneIndex, IdleType
      <4>2. chunk'[j].body # Absent
        BY <1>0, <3>2, <4>1, WrittenBody
      <4> QED BY <4>2 DEF Exists
    <3>3. j \in Done(call'[t])
      BY <2>2
    <3> QED BY <1>0, <3>1, <3>2, <3>3, DoneEffect
  <2> QED BY <2>1, <2>2
<1> QED BY <1>2, <1>3

LEMMA DataKept ==
    ASSUME TypeInv, NEW t \in Thread, Step(t) \/ RequestFails(t), call'[t] # Idle
    PROVE  call'[t].data = call[t].data /\ (call'[t].alone <=> call[t].alone)
<1>1. call[t] \in CallState /\ AtChunk(call[t])
  BY DEF TypeInv, TypeOK, Shape
<1>2. CASE call'[t] = NextOld(call[t]) /\ call[t].pc \in {"getold", "deleteold"}
  BY <1>1, <1>2, NextOldFields DEF AtChunk
<1>3. CASE call'[t] = NextPart(call[t]) /\ call[t].pc \in Chunking
  BY <1>1, <1>3, NextPartFields DEF AtChunk
<1>4. CASE GoesOn(t)
  BY <1>4 DEF GoesOn
<1>5. CASE MarkPut(t) \/ MarkDelete(t) \/ GetChunk(t) \/ GetRev(t) \/ ChunkConflict(t)
           \/ DocConflict(t)
  BY <1>4, <1>5, MarkMoves, GetMoves, ConflictMoves
<1>6. CASE RegetChunk(t) \/ RedeleteChunk(t) \/ Look(t) \/ LocalWins(t) \/ RemoteWins(t)
           \/ GetLatest(t) \/ ReadChunk(t)
  BY <1>4, <1>6, AfreshMoves, LookMoves, ResolveMoves, ReadMoves
<1>7. CASE GetOld(t) \/ DeleteOldConflict(t) \/ DeleteOld(t) \/ RequestFails(t)
  BY <1>2, <1>4, <1>7, OldMoves, WriteMoves, FailMoves DEF GetOld, DeleteOldConflict, DeleteOld
<1>8. CASE PutChunk(t) \/ RecreateChunk(t)
  BY <1>3, <1>8, WriteMoves DEF PutChunk, RecreateChunk, Chunking
<1>9. CASE Ends(t)
  BY <1>9, EndMoves
<1> QED BY <1>5, <1>6, <1>7, <1>8, <1>9 DEF Step, Ends

LEMMA AloneStays ==
    ASSUME ChunkInv, NEW t \in Writers, Step(t) \/ RequestFails(t)
    PROVE  \A w \in Writers : call'[w].alone => Alone(w)'
<1>0. t \in Thread /\ TypeInv /\ \A u \in Writers : u # t => call'[u] = call[u]
  BY MovedType DEF Thread, ChunkInv
<1>1. ASSUME NEW w \in Writers, w # t, call'[w].alone
      PROVE  FALSE
  <2>1. Alone(w)
    BY <1>0, <1>1 DEF ChunkInv
  <2> QED BY <1>0, <1>1, <2>1, Busy DEF Alone
<1>2. ASSUME call'[t].alone
      PROVE  Alone(t)'
  <2>1. call'[t] # Idle
    BY <1>2, IdleType
  <2>2. /\ call[t].alone /\ call'[t].data = call[t].data
    BY <1>0, <1>2, <2>1, DataKept
  <2>3. Alone(t)
    BY <2>2 DEF ChunkInv
  <2>4. \A u \in Writers \ {t} : call'[u].pc = "idle"
    BY <1>0, <2>3 DEF Alone
  <2>5. ASSUME NEW j \in Done(call'[t])
        PROVE  chunk'[j].body = call'[t].data
    <3>1. /\ j \in Index
          /\ \/ j \in Done(call[t])
             \/ (PutChunk(t) \/ RecreateChunk(t)) /\ j = call[t].i
      BY <1>0, DoneEffect
    <3>2. CASE (PutChunk(t) \/ RecreateChunk(t)) /\ j = call[t].i
      BY <1>0, <2>1, <2>2, <3>2, WrittenBody
    <3>3. CASE j \in Done(call[t])
      <4>1. chunk[j].body = call[t].data
        BY <2>3, <3>3 DEF Alone
      <4>2. ~DeleteOld(t)
        BY <3>3 DEF Done, Chunking, DeleteOld
      <4>3. CASE RedeleteChunk(t) /\ call'[t].pc = "recreate" /\ call'[t].i = j
        BY <2>5, <4>3 DEF Done, Chunking
      <4> QED BY <1>0, <2>2, <3>1, <4>1, <4>2, <4>3, ChunkEffect
    <3> QED BY <3>1, <3>2, <3>3
  <2> QED BY <2>4, <2>5 DEF Alone
<1> QED BY <1>1, <1>2

(* A call that ran alone writes the document: everything is in its version. *)
LEMMA AloneEnds ==
    ASSUME ChunkInv, NEW t \in Writers, PutDoc(t), call[t].alone
    PROVE  /\ settled' # NoHash => Quiet'
           /\ PutRepairs'
           /\ \A j \in Listed' : Exists(j)'
           /\ \A w \in Writers : \A j \in Done(call'[w]) : Exists(j)'
<1>0. t \in Thread /\ TypeInv /\ Alone(t)
  BY DEF Thread, ChunkInv
<1>1. /\ call'[t] = Idle /\ settled' = call[t].data /\ chunk' = chunk
      /\ doc'.body = call[t].data /\ call[t].pc = "put"
      /\ \A u \in Writers : u # t => call'[u] = call[u]
  BY <1>0, Moves DEF PutDoc, Update, Thread
<1>2. Quiet'
  BY <1>0, <1>1, IdleType DEF Quiet, Alone
<1>3. \A w \in Writers : Done(call'[w]) = {}
  BY <1>2, DoneIndex DEF Quiet
<1>4. \A j \in Listed' : chunk'[j].body = call[t].data /\ chunk'[j].body # Absent
  <2>1. Listed' = Done(call[t])
    BY <1>1 DEF Listed, Done, NumParts
  <2>2. Listed' # {} => call[t].data # Absent
    BY <1>1, PartsType DEF Listed, NumParts
  <2> QED BY <1>0, <1>1, <2>1, <2>2 DEF Alone
<1>5. PutRepairs'
  BY <1>1, <1>4 DEF PutRepairs
<1>6. \A j \in Listed' : Exists(j)'
  BY <1>4 DEF Exists
<1> QED BY <1>2, <1>3, <1>5, <1>6

LEMMA WriterStep ==
    ASSUME ChunkInv, NEW t \in Writers, Step(t) \/ RequestFails(t)
    PROVE  ChunkInv'
<1>0. t \in Thread /\ TypeInv /\ TypeInv'
  BY StepType DEF Thread, ChunkInv
<1>1. FeedReads'
  <2>1. call'[Feed] = call[Feed]
    BY <1>0, MovedType DEF Thread
  <2> QED BY <2>1 DEF ChunkInv, FeedReads
<1>2. CASE PutDoc(t) /\ call[t].alone
  BY <1>0, <1>1, <1>2, AloneEnds, AloneStays DEF ChunkInv
<1>3. CASE ~(PutDoc(t) /\ call[t].alone)
  <2>1. settled = NoHash
    BY <1>0, Busy DEF ChunkInv, Quiet
  <2>2. settled' = NoHash
    BY <1>0, <1>3, <2>1, HoleEffect
  <2> QED BY <1>0, <1>1, <1>3, <2>2, ChunksStay, AloneStays DEF ChunkInv, PutRepairs
<1> QED BY <1>2, <1>3

(* What leaves the documents and the calls of the hub alone. *)
LEMMA Elsewhere ==
    ASSUME ChunkInv, TypeInv', FeedReads', UNCHANGED <<doc, chunk, settled, hole>>,
           \A w \in Writers : call'[w] = call[w]
    PROVE  ChunkInv'
<1>1. \A w \in Writers : Alone(w) => Alone(w)'
  BY DEF Alone
<1>2. Listed' = Listed /\ \A j : Exists(j) => Exists(j)'
  BY DEF Listed, Exists
<1>3. (Quiet => Quiet') /\ PutRepairs'
  BY <1>2 DEF Quiet, PutRepairs, ChunkInv
<1>4. \A w \in Writers : \A j \in Done(call'[w]) : Exists(j)'
  BY <1>2 DEF ChunkInv
<1>5. settled' # NoHash => Quiet'
  BY <1>3 DEF ChunkInv
<1>6. \A w \in Writers : call'[w].alone => Alone(w)'
  BY <1>1 DEF ChunkInv
<1> QED BY <1>2, <1>3, <1>4, <1>5, <1>6 DEF ChunkInv

LEMMA FeedStep ==
    ASSUME ChunkInv, Step(Feed) \/ RequestFails(Feed) \/ TakeRow
    PROVE  ChunkInv'
<1>0. Feed \in Thread /\ TypeInv /\ FeedReads
  BY DEF Thread, ChunkInv
<1>1. CASE TakeRow
  <2> DEFINE r == [Idle EXCEPT !.pc = "read", !.body = doc.body]
  <2>1. r.pc = "read" /\ r.data = Absent /\ r.alone = FALSE
    BY DEF Idle
  <2>2. Move(Feed, r) /\ UNCHANGED <<doc, chunk, settled, hole>>
    BY <1>1 DEF TakeRow, history
  <2>3. call'[Feed] = r /\ \A w \in Writers : call'[w] = call[w]
    BY <1>0, <2>2, Moves DEF Thread
  <2> HIDE DEF r
  <2>4. FeedReads'
    BY <2>1, <2>3 DEF FeedReads
  <2> QED BY <1>0, <1>1, <2>2, <2>3, <2>4, FaultType, Elsewhere
<1>2. CASE Step(Feed) \/ RequestFails(Feed)
  <2>1. ReadChunk(Feed) \/ Deliver(Feed) \/ RequestFails(Feed)
    BY <1>0, <1>2 DEF FeedReads, Step, MarkPut, MarkDelete, GetChunk, PutChunk,
       ChunkConflict, RegetChunk, RedeleteChunk, RecreateChunk, Look, GetOld, DeleteOld,
       DeleteOldConflict, GetRev, PutDoc, DocConflict, DeleteGone, LocalWins, RemoteWins,
       Unresolved, GetLatest, ForceDoc
  <2>2. UNCHANGED <<doc, chunk, settled, hole>>
    <3>1. CASE ReadChunk(Feed)
      BY <1>0, <3>1, ReadEffect DEF ReadChunk, Leave
    <3>2. CASE Deliver(Feed)
      BY <3>2 DEF Deliver, Leave
    <3>3. CASE RequestFails(Feed)
      <4>1. call[Feed].pc # "recreate" /\ hole \in BOOLEAN
        BY <1>0 DEF FeedReads, TypeInv, TypeOK
      <4> QED BY <3>3, <4>1 DEF RequestFails
    <3> QED BY <2>1, <3>1, <3>2, <3>3
  <2>3. \A w \in Writers : call'[w] = call[w]
    BY <1>0, <1>2, MovedType DEF Thread
  <2>4. FeedReads'
    BY <1>0, <2>1, ReadMoves, EndMoves, FailMoves, IdleType DEF FeedReads, GoesOn, Ends
  <2> QED BY <1>0, <1>2, <2>2, <2>3, <2>4, StepType, Elsewhere
<1> QED BY <1>1, <1>2

LEMMA BeginStep ==
    ASSUME ChunkInv, NEW w \in Writers, BeginPut(w) \/ BeginDelete(w)
    PROVE  ChunkInv'
<1>0. CASE \E f \in File : Repeat(w, f)
  <2>1. UNCHANGED <<doc, chunk, call, settled, hole>>
    BY <1>0 DEF Repeat
  <2>2. TypeInv' /\ FeedReads'
    BY <2>1, TypeStep DEF ChunkInv, FeedReads, Next
  <2> QED BY <2>1, <2>2, Elsewhere
<1> SUFFICES ASSUME NEW f \in File, NEW pc \in {"mark", "look"},
                    pc = "look" => f = Absent, Begin(w, f, pc)
             PROVE  ChunkInv'
  BY <1>0 DEF BeginPut, BeginDelete, File
<1>1. (pc = "look" => f = Absent) /\ Begin(w, f, pc)
  OBVIOUS
<1>2. /\ TypeInv /\ TypeInv'
      /\ call'[w].pc = pc /\ call'[w].data = f /\ call'[w].i = 1 /\ call'[w].rev = 0
      /\ call'[w].alone => (\A u \in Writers \ {w} : call[u].pc = "idle")
      /\ \A u \in Thread \ {w} :
            /\ call'[u].pc = call[u].pc /\ call'[u].data = call[u].data
            /\ call'[u].i = call[u].i /\ call'[u].alone = FALSE
  <2>1. TypeInv /\ Begin(w, f, pc) /\ (pc = "look" => f = Absent)
    BY <1>1 DEF ChunkInv
  <2>2. TypeInv' /\ Begun(w, f, pc)
    BY <2>1, BeginType
  <2> QED BY <2>1, <2>2 DEF Begun
<1>3. UNCHANGED <<doc, chunk, hole>> /\ settled' = NoHash /\ call[w].pc = "idle"
  BY <1>1 DEF Begin, Offer
<1>4. FeedReads'
  BY <1>2 DEF ChunkInv, FeedReads, Thread
<1>5. Done(call'[w]) = {} /\ \A u \in Writers \ {w} : Done(call'[u]) = Done(call[u])
  BY <1>2 DEF Done, Chunking, Thread
<1>6. \A j : Exists(j) => Exists(j)'
  BY <1>2, <1>3 DEF Exists, Thread
<1>7. \A u \in Writers : call'[u].alone => Alone(u)'
  <2>1. \A u \in Writers \ {w} : ~call'[u].alone
    BY <1>2 DEF Thread
  <2>2. ASSUME call'[w].alone PROVE Alone(w)'
    <3>1. \A u \in Writers \ {w} : call'[u].pc = "idle"
      BY <1>2, <2>2 DEF Thread
    <3> QED BY <1>1, <1>2, <1>5, <3>1 DEF Alone
  <2> QED BY <2>1, <2>2
<1>8. Listed' = Listed
  BY <1>3 DEF Listed
<1> QED BY <1>2, <1>3, <1>4, <1>5, <1>6, <1>7, <1>8 DEF ChunkInv, PutRepairs

LEMMA CrashStep ==
    ASSUME ChunkInv, Crash
    PROVE  ChunkInv'
<1>1. /\ UNCHANGED <<doc, chunk, settled>> /\ \A t \in Thread : call'[t] = Idle
      /\ hole' = (hole \/ \E w \in Writers : call[w].pc = "recreate")
      /\ TypeInv /\ TypeInv' /\ Listed' = Listed
  BY FaultType DEF Crash, ChunkInv, Listed
<1>2. \A w \in Writers : /\ call'[w].pc = "idle" /\ ~call'[w].alone /\ Done(call'[w]) = {}
  BY <1>1, IdleType, DoneIndex DEF Thread
<1>3. FeedReads'
  BY <1>1, IdleType DEF FeedReads, Thread
<1>4. \A j : Exists(j) => Exists(j)'
  BY <1>1 DEF Exists
<1>5. Quiet' /\ PutRepairs'
  BY <1>1, <1>2 DEF Quiet, PutRepairs, ChunkInv, Listed
<1> QED BY <1>1, <1>2, <1>3, <1>4, <1>5 DEF ChunkInv

LEMMA ChunkInit == Init => ChunkInv
<1> SUFFICES ASSUME Init PROVE ChunkInv
  OBVIOUS
<1>1. /\ \A t \in Thread : call[t] = Idle
      /\ doc.body = Absent /\ settled = NoHash
  BY DEF Init, Nothing
<1>2. Listed = {} /\ \A w \in Writers : ~call[w].alone /\ Done(call[w]) = {}
  BY <1>1, IdleType, DoneIndex, PartsType DEF Listed, Thread
<1> QED BY <1>1, <1>2, TypeInit, IdleType DEF ChunkInv, FeedReads, PutRepairs, Thread

LEMMA ChunkStep == ChunkInv /\ [Next]_vars => ChunkInv'
<1> SUFFICES ASSUME ChunkInv, [Next]_vars PROVE ChunkInv'
  OBVIOUS
<1>1. CASE UNCHANGED vars
  <2>1. TypeInv' /\ FeedReads'
    BY <1>1, TypeStep DEF ChunkInv, FeedReads, vars
  <2> QED BY <1>1, <2>1, Elsewhere DEF vars
<1> QED BY <1>1, WriterStep, FeedStep, BeginStep, CrashStep DEF Next, Thread

(* A Put or Delete that no other overlapped, that writes the document (or
   deletes it) and returns true, leaves the document and all its chunks in its
   own version, whatever failures, crashes and races came before, and although
   requests of its own may have failed (putChunked, putDocumentWithRetry). *)
THEOREM PutsRepair == Spec => []PutRepairs
<1>1. ChunkInv => PutRepairs
  BY DEF ChunkInv
<1> QED BY <1>1, ChunkInit, ChunkStep, PTL DEF Spec

(* putChunked writes the chunks before the document that lists them: but for
   what Delete, forceUpdateRemote and a failed recreation took away, a listed
   chunk exists, through every race and crash. *)
THEOREM ListedChunksExist == Spec => []ListedExist
<1>1. ChunkInv => ListedExist
  BY DEF ChunkInv, ListedExist, Exists
<1> QED BY <1>1, ChunkInit, ChunkStep, PTL DEF Spec
=============================================================================
