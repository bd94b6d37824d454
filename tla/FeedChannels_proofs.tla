------------------------ MODULE FeedChannels_proofs -------------------------
(***************************************************************************)
(* Nothing is skipped and nothing is dispatched twice on the way from the  *)
(* database to the CouchDB peer, for any number of changes and faults and  *)
(* channels of any size.                                                   *)
(***************************************************************************)
EXTENDS FeedChannels, TLAPS

USE SequenceAssumption, BoundAssumption

(* What the channel of rows does. *)
LEMMA AppendFact ==
    ASSUME NEW S, NEW s \in Seq(S), NEW e \in S
    PROVE  /\ Append(s, e) \in Seq(S) /\ Len(Append(s, e)) = Len(s) + 1
           /\ \A k \in 1..Len(s) : Append(s, e)[k] = s[k]
           /\ Append(s, e)[Len(s) + 1] = e
OBVIOUS

LEMMA TailFact ==
    ASSUME NEW S, NEW s \in Seq(S), s # <<>>
    PROVE  /\ Len(s) \in Nat \ {0} /\ Head(s) = s[1] /\ Head(s) \in S
           /\ Tail(s) \in Seq(S) /\ Len(Tail(s)) = Len(s) - 1
           /\ \A k \in 1..Len(s) - 1 : Tail(s)[k] = s[k + 1]
OBVIOUS

LEMMA EmptyFact ==
    ASSUME NEW S
    PROVE  <<>> \in Seq(S) /\ Len(<<>>) = 0 /\ Len(<<>>) <= BufSize
OBVIOUS

-----------------------------------------------------------------------------
(* Which producer is running in which phase, and that an error has ended it. *)
Shape ==
    /\ since = Unset => phase \notin {"feed", "backoff"} /\ producer.of = "scan"
    /\ phase = "scan" => since = Unset /\ producer.of = "scan"
    /\ phase = "feed" => producer.of = "feed"
    /\ error => producer.pc \notin {"query", "send"}
    /\ phase = "backoff" => producer.pc \notin {"query", "send"}

TypeInv == TypeOK /\ Shape

LEMMA TypeInit == Init => TypeInv
<1> SUFFICES ASSUME Init PROVE TypeInv
  OBVIOUS
<1>1. rows \in Seq(Change) /\ Len(rows) <= BufSize
  BY EmptyFact DEF Init
<1>2. producer \in ProducerState
  BY DEF Init, Producer, ProducerState, ProducerPC
<1>3. got \in [Change -> Nat] /\ meta \subseteq Change /\ phase \in Phase
  BY DEF Init, Phase
<1>4. since \in 0..MaxChanges \cup {Unset, Now} /\ 0 \in 0..MaxChanges /\ 0 \in 0..MaxFaults
  BY DEF Init
<1>4a. /\ log = 0 /\ hand = 0 /\ faults = 0
       /\ error \in BOOLEAN /\ stop \in BOOLEAN
  BY DEF Init
<1>5. TypeOK
  BY <1>1, <1>2, <1>3, <1>4, <1>4a DEF TypeOK
<1>6. Shape
  BY DEF Init, Shape, Producer
<1> QED BY <1>5, <1>6 DEF TypeInv

(* A channel is opened empty, with a producer that has not asked yet. *)
LEMMA OpenType ==
    ASSUME NEW of \in {"scan", "feed"}, Open(of)
    PROVE  /\ producer' \in ProducerState /\ producer'.of = of /\ producer'.pc = "query"
           /\ rows' = <<>> /\ rows' \in Seq(Change) /\ Len(rows') = 0 /\ Len(rows') <= BufSize
           /\ error' = FALSE /\ phase' = of /\ phase' \in Phase
<1>1. producer' = [pc |-> "query", of |-> of, left |-> {}, at |-> 0]
  BY DEF Open, Advance, Producer
<1>2. rows' \in Seq(Change) /\ Len(rows') = 0 /\ Len(rows') <= BufSize
  BY EmptyFact DEF Open
<1> QED BY <1>1, <1>2 DEF Open, ProducerState, ProducerPC, Phase

LEMMA EndsType ==
    ASSUME ProcessEnds
    PROVE  /\ producer' \in ProducerState /\ producer'.of = "scan" /\ producer'.pc = "ended"
           /\ rows' = <<>> /\ rows' \in Seq(Change) /\ Len(rows') <= BufSize
           /\ error' = FALSE /\ phase' = "down" /\ hand' = 0 /\ stop' = FALSE
<1>1. producer' = [pc |-> "ended", of |-> "scan", left |-> {}, at |-> 0]
  BY DEF ProcessEnds, Advance, Producer
<1>2. rows' \in Seq(Change) /\ Len(rows') <= BufSize
  BY EmptyFact DEF ProcessEnds
<1> QED BY <1>1, <1>2 DEF ProcessEnds, ProducerState, ProducerPC

(* Taking a row off the channel. *)
LEMMA TakeType ==
    ASSUME TypeOK, rows # <<>>, rows' = Tail(rows)
    PROVE  /\ Head(rows) \in Change /\ rows' \in Seq(Change) /\ Len(rows') = Len(rows) - 1
           /\ Len(rows') <= BufSize
BY TailFact DEF TypeOK

LEMMA FaultType ==
    ASSUME TypeOK, NEW f, Fault(f)
    PROVE  faults' \in 0..MaxFaults
BY DEF TypeOK, Fault

LEMMA TypeStep == TypeInv /\ [Next]_vars => TypeInv'
<1> SUFFICES ASSUME TypeInv, [Next]_vars PROVE TypeInv'
  OBVIOUS
<1> USE DEF TypeInv
<1>1. CASE Write
  BY <1>1 DEF Write, TypeOK, Shape, consumer, channels
<1>2. CASE Boot
  <2>1. PICK of \in {"scan", "feed"} : Open(of) /\ (of = "scan" <=> since = Unset)
    BY <1>2 DEF Boot
  <2>2. /\ producer' \in ProducerState /\ producer'.of = of /\ producer'.pc = "query"
        /\ rows' \in Seq(Change) /\ Len(rows') <= BufSize /\ error' = FALSE
        /\ phase' = of /\ phase' \in Phase
    BY <2>1, OpenType
  <2>3. TypeOK'
    BY <1>2, <2>2 DEF Boot, TypeOK
  <2>4. Shape'
    BY <1>2, <2>1, <2>2 DEF Boot, Shape
  <2> QED BY <2>3, <2>4
<1>3. CASE Query
  <2>1. producer.of = "feed" => since # Unset
    BY DEF Shape
  <2> DEFINE left == IF producer.of = "scan" THEN 1..log ELSE {}
             at   == IF producer.of = "scan" THEN 0 ELSE IF since = Now THEN log ELSE since
  <2>2a. left \in SUBSET Change
    BY DEF TypeOK, Change
  <2>2b. at \in 0..MaxChanges
    BY <2>1 DEF TypeOK, ProducerState
  <2>2c. producer' = [producer EXCEPT !.pc = "send", !.left = left, !.at = at]
    BY <1>3 DEF Query, Advance
  <2> HIDE DEF left, at
  <2>2. producer' \in ProducerState
    BY <2>2a, <2>2b, <2>2c DEF TypeOK, ProducerState, ProducerPC
  <2>3. producer'.of = producer.of /\ producer'.pc = "send" /\ producer.pc = "query"
    BY <1>3 DEF Query, Advance, TypeOK, ProducerState
  <2> QED BY <1>3, <2>2, <2>3 DEF Query, TypeOK, Shape, consumer
<1>4. CASE SendRow
  <2>1. PICK i \in Change :
          rows' = Append(rows, i) /\ (\/ producer' = [producer EXCEPT !.left = @ \ {i}]
                                     \/ producer' = [producer EXCEPT !.at = i])
    BY <1>4 DEF SendRow, Advance
  <2>2a. i \in 0..MaxChanges
    BY DEF Change
  <2>2. producer' \in ProducerState /\ producer'.of = producer.of /\ producer'.pc = producer.pc
    <3>1. CASE producer' = [producer EXCEPT !.left = @ \ {i}]
      BY <3>1 DEF TypeOK, ProducerState
    <3>2. CASE producer' = [producer EXCEPT !.at = i]
      BY <2>2a, <3>2 DEF TypeOK, ProducerState
    <3> QED BY <2>1, <3>1, <3>2
  <2>3. rows' \in Seq(Change) /\ Len(rows') <= BufSize
    BY <1>4, <2>1, AppendFact DEF SendRow, TypeOK
  <2> QED BY <1>4, <2>2, <2>3 DEF SendRow, TypeOK, Shape, consumer
<1>5. CASE ScanEnds \/ ProducerStops \/ CloseErrors \/ CloseRows
  <2>1. PICK pc \in {"closing", "closed", "ended"} : producer' = [producer EXCEPT !.pc = pc]
    BY <1>5 DEF ScanEnds, ProducerStops, CloseErrors, CloseRows, Advance
  <2>2. /\ producer' \in ProducerState /\ producer'.of = producer.of
        /\ producer'.pc \notin {"query", "send"}
    BY <2>1 DEF TypeOK, ProducerState, ProducerPC
  <2>3. error' \in BOOLEAN
    BY <1>5 DEF ScanEnds, ProducerStops, CloseErrors, CloseRows, TypeOK
  <2> QED BY <1>5, <2>2, <2>3 DEF ScanEnds, ProducerStops, CloseErrors, CloseRows, TypeOK, Shape, consumer
<1>6. CASE RequestFails
  <2>1. producer' = [producer EXCEPT !.pc = "closing"]
    BY <1>6 DEF RequestFails, Advance
  <2>2. /\ producer' \in ProducerState /\ producer'.of = producer.of
        /\ producer'.pc \notin {"query", "send"}
    BY <2>1 DEF TypeOK, ProducerState, ProducerPC
  <2>3. faults' \in 0..MaxFaults
    BY <1>6, FaultType DEF RequestFails
  <2> QED BY <1>6, <2>2, <2>3 DEF RequestFails, TypeOK, Shape, consumer
<1>7. CASE TakeDocument
  BY <1>7, TakeType DEF TakeDocument, TypeOK, Shape, Change
<1>8. CASE ScanDone
  BY <1>8, OpenType DEF ScanDone, TypeOK, Shape, Phase
<1>9. CASE ScanError
  BY <1>9 DEF ScanError, TypeOK, Shape, Phase, Selecting
<1>10. CASE TakeRow
  <2>1. /\ Head(rows) \in Change /\ rows' \in Seq(Change) /\ Len(rows') = Len(rows) - 1
        /\ Len(rows') <= BufSize
    BY <1>10, TakeType DEF TakeRow
  <2>2. Head(rows) \in 0..MaxChanges /\ Head(rows) # Unset
    BY <2>1 DEF Change
  <2>3. TypeOK'
    BY <1>10, <2>1, <2>2 DEF TakeRow, TypeOK
  <2>4. Shape'
    BY <1>10, <2>2 DEF TakeRow, Shape, Selecting
  <2> QED BY <2>3, <2>4
<1>11. CASE FeedClosed \/ FeedBroken
  BY <1>11 DEF FeedClosed, FeedBroken, TypeOK, Shape, Phase, channels, Selecting
<1>12. CASE SeeStop
  BY <1>12 DEF SeeStop, TypeOK, Shape, Phase, channels
<1>13. CASE Handle
  BY <1>13 DEF Handle, TypeOK, Shape, channels, Change
<1>14. CASE Reconnect
  BY <1>14, OpenType DEF Reconnect, TypeOK, Shape, Phase
<1>15. CASE StopFailed \/ Stop
  <2>1. faults' \in 0..MaxFaults
    BY <1>15, FaultType DEF StopFailed, Stop, TypeOK
  <2>2. stop' = TRUE /\ UNCHANGED <<log, since, meta, phase, hand, got, producer, rows, error>>
    BY <1>15 DEF StopFailed, Stop, consumer, channels
  <2>3. TypeOK'
    BY <2>1, <2>2 DEF TypeOK
  <2>4. Shape'
    BY <2>2 DEF Shape
  <2> QED BY <2>3, <2>4
<1>16. CASE Exit \/ Crash
  <2>1. faults' \in 0..MaxFaults
    BY <1>16, FaultType DEF Exit, Crash, TypeOK
  <2>2. ProcessEnds
    BY <1>16 DEF Exit, Crash
  <2>3. /\ producer' \in ProducerState /\ producer'.of = "scan" /\ producer'.pc = "ended"
        /\ rows' \in Seq(Change) /\ Len(rows') <= BufSize /\ error' = FALSE
        /\ phase' = "down" /\ hand' = 0 /\ stop' = FALSE
    BY <2>2, EndsType
  <2>3a. phase' \in Phase /\ hand' \in 0..MaxChanges
    BY <2>3 DEF Phase
  <2>3b. error' \in BOOLEAN /\ stop' \in BOOLEAN
    BY <2>3
  <2>3c. producer' \in ProducerState /\ rows' \in Seq(Change) /\ Len(rows') <= BufSize
    BY <2>3
  <2>3d. UNCHANGED <<log, since, meta, got>>
    BY <2>2 DEF ProcessEnds
  <2>4. TypeOK'
    BY <2>1, <2>3a, <2>3b, <2>3c, <2>3d DEF TypeOK
  <2>5. Shape'
    BY <2>2, <2>3 DEF ProcessEnds, Shape
  <2> QED BY <2>4, <2>5
<1>17. CASE UNCHANGED vars
  BY <1>17 DEF vars, TypeOK, Shape
<1> QED
  BY <1>1, <1>2, <1>3, <1>4, <1>5, <1>6, <1>7, <1>8, <1>9, <1>10, <1>11, <1>12, <1>13, <1>14,
     <1>15, <1>16, <1>17 DEF Next, Produce, Consume

(* Every variable of FeedChannels keeps its type: the stored sequence stays one
   that the feed has reached, the channel is never filled beyond its capacity,
   and a feed is never opened without a sequence to start from. *)
THEOREM TypeCorrect == Spec => []TypeOK
<1>1. Init => TypeInv
  BY TypeInit
<1>2. TypeInv /\ [Next]_vars => TypeInv'
  BY TypeStep
<1>3. TypeInv => TypeOK
  BY DEF TypeInv
<1> QED BY <1>1, <1>2, <1>3, PTL DEF Spec

(* When watchChanges leaves a feed, its producer has sent its last row, whatever
   the capacity of the channel: no goroutine stays behind. *)
THEOREM ProducersEnd == Spec => []NoOrphan
<1>1. TypeInv => NoOrphan
  BY DEF TypeInv, Shape, NoOrphan
<1> QED BY <1>1, TypeInit, TypeStep, PTL DEF Spec

-----------------------------------------------------------------------------
(* Why nothing is skipped. *)
Handed(i) == got[i] > 0 \/ hand = i

(* Metadata and a stored sequence are those of rows that were taken. *)
Seen ==
    /\ \A i \in meta : got[i] > 0
    /\ since \in Nat => \A i \in 1..since : Handed(i)

(* The channel holds the rows between the stored sequence and the last one sent. *)
FeedRows ==
    phase = "feed" =>
        /\ producer.pc = "query" => rows = <<>>
        /\ since \in Nat =>
              /\ \A k \in 1..Len(rows) : rows[k] = since + k
              /\ producer.pc = "send" => producer.at = since + Len(rows)

(* As long as the stored sequence is "now", the first feed is open, and what it
   has sent and is not in the channel was seen by the scan. *)
WhileNow ==
    since = Now =>
        /\ phase = "feed" /\ hand = 0 /\ ~stop /\ producer.pc \in {"query", "send"}
        /\ producer.pc = "query" => \A i \in 1..log : got[i] > 0
        /\ producer.pc = "send" =>
              /\ Len(rows) <= producer.at
              /\ \A i \in 1..(producer.at - Len(rows)) : got[i] > 0
              /\ \A k \in 1..Len(rows) : rows[k] = producer.at - Len(rows) + k

(* A document that the scan has not dispatched is still to come. *)
ScanCovers ==
    phase = "scan" /\ ~error /\ ~stop /\ producer.pc # "query" =>
        /\ producer.pc # "send" => producer.left = {}
        /\ \A i \in 1..log : \/ Handed(i) \/ i \in producer.left
                             \/ \E k \in 1..Len(rows) : rows[k] = i

Flow == Seen /\ FeedRows /\ WhileNow /\ ScanCovers

IInv == TypeInv /\ Flow

(* A stored sequence is a number, unset or "now", and those are different. *)
LEMMA SinceFact ==
    ASSUME TypeOK
    PROVE  /\ since \in Nat \/ since = Unset \/ since = Now
           /\ since \in Nat => since <= MaxChanges /\ since # Unset /\ since # Now
           /\ since = Now => since \notin Nat /\ since # Unset
           /\ log \in Nat /\ log <= MaxChanges /\ producer.at \in Nat
           /\ Len(rows) \in Nat
<1>1. since \in 0..MaxChanges \/ since = Unset \/ since = Now
  BY DEF TypeOK
<1>2. Unset \notin Nat /\ Now \notin Nat /\ Unset # Now
  BY SequenceAssumption
<1>3. log \in Nat /\ log <= MaxChanges
  BY DEF TypeOK
<1>4. producer.at \in Nat
  BY DEF TypeOK, ProducerState
<1>5. Len(rows) \in Nat
  BY DEF TypeOK
<1>6. since \in 0..MaxChanges => since \in Nat /\ since <= MaxChanges
  OBVIOUS
<1> QED BY <1>1, <1>2, <1>3, <1>4, <1>5, <1>6

LEMMA FlowInit == Init => Flow
BY SequenceAssumption DEF Init, Flow, Seen, FeedRows, WhileNow, ScanCovers

LEMMA FlowStep ==
    ASSUME RowsWhole, ErrorsFirst, ~NowGap, IInv, TypeInv', [Next]_vars
    PROVE  Flow'
<1>0. TypeOK /\ Shape /\ Seen /\ FeedRows /\ WhileNow /\ ScanCovers /\ TypeOK'
  BY DEF IInv, Flow, TypeInv
<1> SUFFICES Seen' /\ FeedRows' /\ WhileNow' /\ ScanCovers'
  BY DEF Flow
<1>a. /\ since \in Nat \/ since = Unset \/ since = Now
      /\ since \in Nat => since <= MaxChanges /\ since # Unset /\ since # Now
      /\ since = Now => since \notin Nat /\ since # Unset
      /\ log \in Nat /\ log <= MaxChanges /\ producer.at \in Nat
      /\ Len(rows) \in Nat
  BY <1>0, SinceFact
<1>1. CASE Write
  <2>1. phase # "scan"
    BY <1>0, <1>1, <1>a DEF Write, Shape, FeedOpen
  <2>2. since = Now => producer.pc = "send"
    BY <1>0, <1>1, <1>a DEF Write, FeedOpen
  <2>3. Seen'
    BY <1>0, <1>1 DEF Write, consumer, Seen, Handed
  <2>4. FeedRows'
    BY <1>0, <1>1 DEF Write, consumer, channels, FeedRows
  <2>5. WhileNow'
    BY <1>0, <1>1, <2>2 DEF Write, consumer, channels, WhileNow
  <2>6. ScanCovers'
    BY <1>1, <2>1 DEF Write, consumer, ScanCovers
  <2> QED BY <2>3, <2>4, <2>5, <2>6
<1>2. CASE Boot
  <2>1. /\ since # Now /\ UNCHANGED <<log, since, meta, hand, stop, got>>
        /\ since = Unset => phase' = "scan"
    BY <1>0, <1>2 DEF Boot, WhileNow, Open
  <2>2. producer'.pc = "query" /\ rows' = <<>> /\ Len(rows') = 0
    <3>1. PICK of \in {"scan", "feed"} : Open(of)
      BY <1>2 DEF Boot
    <3> QED BY <3>1, OpenType
  <2>3. Seen'
    BY <1>0, <2>1 DEF Seen, Handed
  <2>4. FeedRows' /\ WhileNow' /\ ScanCovers'
    BY <2>1, <2>2 DEF FeedRows, WhileNow, ScanCovers
  <2> QED BY <2>3, <2>4
<1>3. CASE Query
  <2>1. /\ producer.pc = "query" /\ UNCHANGED <<log, since, meta, phase, hand, got, rows, error, stop>>
    BY <1>3 DEF Query, consumer
  <2>2. /\ producer'.pc = "send"
        /\ producer.of = "scan" => producer'.left = 1..log
        /\ producer'.at = IF producer.of = "scan" THEN 0 ELSE IF since = Now THEN log ELSE since
    BY <1>0, <1>3 DEF Query, Advance, TypeOK, ProducerState
  <2>3. Seen'
    BY <1>0, <2>1 DEF Seen, Handed
  <2>4. phase = "feed" => rows = <<>> /\ Len(rows) = 0
    BY <1>0, <2>1, EmptyFact DEF FeedRows
  <2>5. FeedRows'
    BY <1>0, <1>a, <2>1, <2>2, <2>4 DEF FeedRows, Shape
  <2>6. WhileNow'
    BY <1>0, <1>a, <2>1, <2>2, <2>4 DEF WhileNow, Shape
  <2>7. ScanCovers'
    BY <1>0, <2>1, <2>2 DEF ScanCovers, Shape
  <2> QED BY <2>3, <2>5, <2>6, <2>7
<1>4. CASE SendRow
  <2>1. producer.pc = "send" /\ UNCHANGED <<log, since, meta, phase, hand, got, error, stop>>
    BY <1>4 DEF SendRow, consumer
  <2>2. PICK i \in Change :
          /\ rows' = Append(rows, i)
          /\ \/ /\ producer.of = "scan" /\ i \in producer.left
                /\ producer' = [producer EXCEPT !.left = @ \ {i}]
             \/ /\ producer.of = "feed" /\ i = producer.at + 1
                /\ producer' = [producer EXCEPT !.at = i]
    BY <1>4 DEF SendRow, Advance
  <2>3. /\ Len(rows') = Len(rows) + 1 /\ rows'[Len(rows) + 1] = i
        /\ \A k \in 1..Len(rows) : rows'[k] = rows[k]
    BY <1>0, <2>2, AppendFact DEF TypeOK
  <2>4. /\ producer'.pc = "send"
        /\ producer.of = "scan" => producer'.left = producer.left \ {i}
        /\ producer.of = "feed" => producer'.at = producer.at + 1 /\ i = producer.at + 1
    BY <1>0, <2>1, <2>2 DEF TypeOK, ProducerState
  <2>5. Seen'
    BY <1>0, <2>1 DEF Seen, Handed
  <2>6. FeedRows'
    <3> SUFFICES ASSUME phase = "feed", since \in Nat
                 PROVE  /\ \A k \in 1..Len(rows') : rows'[k] = since + k
                        /\ producer'.at = since + Len(rows')
      BY <2>1, <2>4 DEF FeedRows
    <3>1. /\ producer.at = since + Len(rows) /\ producer.of = "feed"
          /\ \A k \in 1..Len(rows) : rows[k] = since + k
      BY <1>0, <2>1 DEF FeedRows, Shape
    <3>2. producer'.at = since + Len(rows')
      BY <1>a, <2>3, <2>4, <3>1
    <3>3. ASSUME NEW k \in 1..Len(rows') PROVE rows'[k] = since + k
      <4>1. CASE k \in 1..Len(rows)
        BY <2>3, <3>1, <4>1
      <4>2. CASE k = Len(rows) + 1
        BY <1>a, <2>3, <2>4, <3>1, <4>2
      <4> QED BY <1>a, <2>3, <4>1, <4>2
    <3> QED BY <3>2, <3>3
  <2>7. WhileNow'
    <3> SUFFICES ASSUME since = Now PROVE WhileNow'
      BY <2>1 DEF WhileNow
    <3>1. /\ phase = "feed" /\ hand = 0 /\ ~stop /\ producer.of = "feed"
          /\ Len(rows) <= producer.at
          /\ \A j \in 1..(producer.at - Len(rows)) : got[j] > 0
          /\ \A k \in 1..Len(rows) : rows[k] = producer.at - Len(rows) + k
      BY <1>0, <2>1 DEF WhileNow, Shape
    <3>2. /\ Len(rows') <= producer'.at
          /\ producer'.at - Len(rows') = producer.at - Len(rows)
      BY <1>a, <2>3, <2>4, <3>1
    <3>3. ASSUME NEW k \in 1..Len(rows')
          PROVE  rows'[k] = producer'.at - Len(rows') + k
      <4>1. CASE k \in 1..Len(rows)
        BY <2>3, <3>1, <3>2, <4>1
      <4>2. CASE k = Len(rows) + 1
        BY <1>a, <2>3, <2>4, <3>1, <4>2
      <4> QED BY <1>a, <2>3, <4>1, <4>2
    <3>4. \A j \in 1..(producer'.at - Len(rows')) : got'[j] > 0
      BY <2>1, <3>1, <3>2
    <3> QED BY <2>1, <2>4, <3>1, <3>2, <3>3, <3>4 DEF WhileNow
  <2>8. ScanCovers'
    <3> SUFFICES ASSUME phase = "scan", ~error, ~stop, NEW j \in 1..log
                 PROVE  (Handed(j) \/ j \in producer'.left \/ \E k \in 1..Len(rows') : rows'[k] = j)
      BY <2>1, <2>4 DEF ScanCovers, Handed
    <3>1. producer.of = "scan" /\ producer'.left = producer.left \ {i}
      BY <1>0, <2>4 DEF Shape
    <3>2. Handed(j) \/ j \in producer.left \/ \E k \in 1..Len(rows) : rows[k] = j
      BY <1>0, <2>1 DEF ScanCovers
    <3>3. CASE j \in producer.left
      <4>1. Len(rows) + 1 \in 1..Len(rows')
        BY <1>a, <2>3
      <4> QED BY <2>3, <3>1, <3>3, <4>1
    <3>4. ASSUME NEW k \in 1..Len(rows), rows[k] = j
          PROVE  \E l \in 1..Len(rows') : rows'[l] = j
      <4>1. k \in 1..Len(rows') /\ rows'[k] = j
        BY <1>a, <2>3, <3>4
      <4> QED BY <4>1
    <3> QED BY <3>2, <3>3, <3>4
  <2> QED BY <2>5, <2>6, <2>7, <2>8
<1>5. CASE ScanEnds \/ ProducerStops \/ CloseErrors \/ CloseRows
  <2>1. UNCHANGED <<log, since, meta, phase, hand, got, rows, stop>>
    BY <1>5 DEF ScanEnds, ProducerStops, CloseErrors, CloseRows, consumer
  <2>2. PICK pc \in {"closing", "closed", "ended"} : producer' = [producer EXCEPT !.pc = pc]
    BY <1>5 DEF ScanEnds, ProducerStops, CloseErrors, CloseRows, Advance
  <2>3. producer'.pc \notin {"query", "send"} /\ producer'.left = producer.left
    BY <1>0, <2>2 DEF TypeOK, ProducerState
  <2>4. since # Now
    BY <1>0, <1>5 DEF ScanEnds, ProducerStops, CloseErrors, CloseRows, WhileNow, Shape
  <2>5. stop \/ (producer.pc # "query" /\ error' = error /\ (producer.pc = "send" => producer.left = {}))
    BY <1>5 DEF ScanEnds, ProducerStops, CloseErrors, CloseRows
  <2>6. Seen'
    BY <1>0, <2>1 DEF Seen, Handed
  <2>7. FeedRows' /\ WhileNow'
    BY <1>0, <2>1, <2>3, <2>4 DEF FeedRows, WhileNow
  <2>8. ScanCovers'
    BY <1>0, <2>1, <2>3, <2>5 DEF ScanCovers, Handed
  <2> QED BY <2>6, <2>7, <2>8
<1>6. CASE RequestFails
  <2>1. since # Now /\ error' = TRUE /\ UNCHANGED <<log, since, meta, phase, hand, got, rows, stop>>
    BY <1>6 DEF RequestFails, consumer
  <2>2. producer'.pc = "closing"
    BY <1>0, <1>6 DEF RequestFails, Advance, TypeOK, ProducerState
  <2>3. Seen'
    BY <1>0, <2>1 DEF Seen, Handed
  <2>4. FeedRows' /\ WhileNow' /\ ScanCovers'
    BY <1>0, <2>1, <2>2 DEF FeedRows, WhileNow, ScanCovers
  <2> QED BY <2>3, <2>4
<1>7. CASE TakeDocument
  <2>1. /\ phase = "scan" /\ hand = 0 /\ rows # <<>> /\ rows' = Tail(rows)
        /\ hand' = (IF Head(rows) \in meta THEN 0 ELSE Head(rows))
        /\ UNCHANGED <<log, since, meta, phase, producer, error, stop, got>>
    BY <1>7 DEF TakeDocument, Selecting
  <2>2. /\ Head(rows) = rows[1] /\ Len(rows') = Len(rows) - 1
        /\ \A k \in 1..Len(rows) - 1 : rows'[k] = rows[k + 1]
    BY <1>0, <2>1, TailFact DEF TypeOK
  <2>3. since = Unset
    BY <1>0, <2>1 DEF Shape
  <2>4. Seen' /\ FeedRows' /\ WhileNow'
    BY <1>0, <1>a, <2>1, <2>3 DEF Seen, FeedRows, WhileNow, Handed
  <2>5. ScanCovers'
    <3> SUFFICES ASSUME ~error, ~stop, producer.pc # "query", NEW j \in 1..log
                 PROVE  (got[j] > 0 \/ hand' = j) \/ j \in producer.left
                        \/ \E k \in 1..Len(rows') : rows'[k] = j
      BY <1>0, <2>1 DEF ScanCovers, Handed
    <3>1. got[j] > 0 \/ j \in producer.left \/ \E k \in 1..Len(rows) : rows[k] = j
      BY <1>0, <2>1 DEF ScanCovers, Handed
    <3>2. ASSUME NEW k \in 1..Len(rows), rows[k] = j
          PROVE  got[j] > 0 \/ hand' = j \/ \E l \in 1..Len(rows') : rows'[l] = j
      <4>1. CASE k = 1
        BY <1>0, <2>1, <2>2, <3>2, <4>1 DEF Seen
      <4>2. CASE k # 1
        <5>1. k - 1 \in 1..Len(rows') /\ rows'[k - 1] = j
          BY <1>a, <2>2, <3>2, <4>2
        <5> QED BY <5>1
      <4> QED BY <4>1, <4>2
    <3> QED BY <3>1, <3>2
  <2> QED BY <2>4, <2>5
<1>8. CASE ScanDone
  <2>1. /\ phase = "scan" /\ hand = 0 /\ rows = <<>> /\ producer.pc = "ended" /\ ~error /\ ~stop
        /\ since' = Now /\ Open("feed") /\ UNCHANGED <<log, meta, hand, stop, got>>
    BY <1>8 DEF ScanDone, Selecting
  <2>2. phase' = "feed" /\ producer'.pc = "query" /\ rows' = <<>> /\ Len(rows') = 0
    BY <2>1, OpenType
  <2>3. \A i \in 1..log : got[i] > 0
    <3>1. Len(rows) = 0
      BY <2>1, EmptyFact
    <3>2. \A i \in 1..log : Handed(i)
      BY <1>0, <2>1, <3>1 DEF ScanCovers
    <3> QED BY <1>a, <2>1, <3>2 DEF Handed
  <2>4. Now \notin Nat
    BY SequenceAssumption
  <2>5. Seen' /\ FeedRows' /\ ScanCovers'
    BY <1>0, <2>1, <2>2, <2>4 DEF Seen, FeedRows, ScanCovers
  <2>6. WhileNow'
    BY <2>1, <2>2, <2>3 DEF WhileNow
  <2> QED BY <2>5, <2>6
<1>9. CASE ScanError \/ FeedClosed \/ FeedBroken \/ SeeStop
  <2>1. /\ phase' \notin {"feed", "scan"}
        /\ UNCHANGED <<log, since, meta, hand, got>>
    BY <1>9 DEF ScanError, FeedClosed, FeedBroken, SeeStop, channels
  <2>2. since # Now
    BY <1>0, <1>9 DEF ScanError, FeedClosed, FeedBroken, SeeStop, Selecting, WhileNow, Shape
  <2> QED BY <1>0, <2>1, <2>2 DEF Seen, FeedRows, WhileNow, ScanCovers, Handed
<1>10. CASE TakeRow
  <2>1. /\ phase = "feed" /\ hand = 0 /\ rows # <<>> /\ rows' = Tail(rows)
        /\ since' = Head(rows) /\ hand' = Head(rows)
        /\ UNCHANGED <<log, meta, phase, producer, error, stop, got>>
    BY <1>10 DEF TakeRow, Selecting
  <2>2. /\ Len(rows) >= 1 /\ Head(rows) = rows[1] /\ Head(rows) \in Change
        /\ Len(rows') = Len(rows) - 1
        /\ \A k \in 1..Len(rows) - 1 : rows'[k] = rows[k + 1]
    BY <1>0, <2>1, TailFact DEF TypeOK
  <2>3. Head(rows) \in Nat /\ Head(rows) # Now
    BY <2>2, SequenceAssumption DEF Change
  <2>4. since # Unset /\ producer.pc # "query"
    BY <1>0, <2>1 DEF Shape, FeedRows
  <2>5. /\ \A i \in 1..(Head(rows) - 1) : got[i] > 0
        /\ \A k \in 1..Len(rows) : rows[k] = Head(rows) - 1 + k
        /\ producer.pc = "send" => producer.at = Head(rows) - 1 + Len(rows)
    <3>1. CASE since \in Nat
      <4>1. /\ \A k \in 1..Len(rows) : rows[k] = since + k
            /\ producer.pc = "send" => producer.at = since + Len(rows)
        BY <1>0, <2>1, <3>1 DEF FeedRows
      <4>2. since = Head(rows) - 1
        BY <1>a, <2>2, <2>3, <3>1, <4>1
      <4>3. \A i \in 1..since : got[i] > 0
        BY <1>0, <2>1, <3>1 DEF Seen, Handed
      <4> QED BY <4>1, <4>2, <4>3
    <3>2. CASE since = Now
      <4>1. /\ producer.pc = "send" /\ Len(rows) <= producer.at
            /\ \A i \in 1..(producer.at - Len(rows)) : got[i] > 0
            /\ \A k \in 1..Len(rows) : rows[k] = producer.at - Len(rows) + k
        BY <1>0, <2>4, <3>2 DEF WhileNow
      <4>2. producer.at - Len(rows) = Head(rows) - 1
        BY <1>a, <2>2, <2>3, <4>1
      <4>3. producer.at = Head(rows) - 1 + Len(rows)
        BY <1>a, <2>3, <4>2
      <4> QED BY <4>1, <4>2, <4>3
    <3> QED BY <1>a, <2>4, <3>1, <3>2
  <2>6. Seen'
    <3>1. \A i \in meta' : got'[i] > 0
      BY <1>0, <2>1 DEF Seen
    <3>2. \A i \in 1..since' : got'[i] > 0 \/ hand' = i
      BY <2>1, <2>3, <2>5
    <3> QED BY <3>1, <3>2 DEF Seen, Handed
  <2>7. FeedRows'
    <3>1. ASSUME NEW k \in 1..Len(rows') PROVE rows'[k] = since' + k
      <4>1. k \in Nat /\ k \in 1..Len(rows) - 1 /\ k + 1 \in 1..Len(rows)
        BY <1>a, <2>2
      <4>2. rows'[k] = rows[k + 1] /\ rows[k + 1] = Head(rows) - 1 + (k + 1)
        BY <2>2, <2>5, <4>1
      <4> QED BY <2>1, <2>3, <4>1, <4>2
    <3>2. producer.pc = "send" => producer.at = since' + Len(rows')
      BY <1>a, <2>1, <2>2, <2>3, <2>5
    <3> QED BY <2>1, <2>4, <3>1, <3>2 DEF FeedRows
  <2>8. WhileNow' /\ ScanCovers'
    BY <2>1, <2>3 DEF WhileNow, ScanCovers
  <2> QED BY <2>6, <2>7, <2>8
<1>13. CASE Handle
  <2>1. /\ hand # 0 /\ got' = [got EXCEPT ![hand] = @ + 1] /\ meta' = meta \cup {hand} /\ hand' = 0
        /\ UNCHANGED <<log, since, phase, producer, rows, error, stop>>
    BY <1>13 DEF Handle, channels
  <2>2. hand \in Change /\ got \in [Change -> Nat]
    BY <1>0, <2>1 DEF TypeOK, Change
  <2>3. \A i \in Change : Handed(i) => got'[i] > 0
    BY <2>1, <2>2 DEF Handed
  <2>4. since # Now
    BY <1>0, <2>1 DEF WhileNow
  <2>5. Seen'
    <3>1. \A i \in meta' : got'[i] > 0
      BY <1>0, <2>1, <2>2, <2>3 DEF Seen, Handed, TypeOK
    <3>2. since \in Nat => \A i \in 1..since : i \in Change /\ Handed(i)
      BY <1>0, <1>a DEF Seen, Change
    <3> QED BY <2>1, <2>3, <3>1, <3>2 DEF Seen, Handed
  <2>6. FeedRows' /\ WhileNow'
    BY <1>0, <2>1, <2>4 DEF FeedRows, WhileNow
  <2>7. \A i \in 1..log : i \in Change
    BY <1>a DEF Change
  <2>8. ScanCovers'
    BY <1>0, <2>1, <2>3, <2>7 DEF ScanCovers, Handed
  <2> QED BY <2>5, <2>6, <2>8
<1>14. CASE Reconnect
  <2>1. phase = "backoff" /\ Open("feed") /\ UNCHANGED <<log, since, meta, hand, stop, got>>
    BY <1>14 DEF Reconnect
  <2>2. phase' = "feed" /\ producer'.pc = "query" /\ rows' = <<>> /\ Len(rows') = 0
    BY <2>1, OpenType
  <2>3. since # Now
    BY <1>0, <2>1 DEF WhileNow
  <2>4. Seen'
    BY <1>0, <2>1 DEF Seen, Handed
  <2>5. FeedRows' /\ WhileNow' /\ ScanCovers'
    BY <2>1, <2>2, <2>3 DEF FeedRows, WhileNow, ScanCovers
  <2> QED BY <2>4, <2>5
<1>15. CASE StopFailed \/ Stop
  <2>1. stop' = TRUE /\ UNCHANGED <<log, since, meta, phase, hand, got, producer, rows, error>>
    BY <1>15 DEF StopFailed, Stop, consumer, channels
  <2>2. since # Now
    BY <1>0, <1>15, <1>a DEF StopFailed, Stop, WhileNow, Shape
  <2>3. Seen'
    BY <1>0, <2>1 DEF Seen, Handed
  <2>4. FeedRows' /\ WhileNow' /\ ScanCovers'
    BY <1>0, <2>1, <2>2 DEF FeedRows, WhileNow, ScanCovers
  <2> QED BY <2>3, <2>4
<1>16. CASE Exit \/ Crash
  <2>1. hand = 0 /\ phase' = "down" /\ hand' = 0 /\ UNCHANGED <<log, since, meta, got>>
    BY <1>16 DEF Exit, Crash, ProcessEnds
  <2>2. since # Now
    BY <1>0, <1>16 DEF Exit, Crash, WhileNow
  <2>3. Seen'
    BY <1>0, <2>1 DEF Seen, Handed
  <2>4. FeedRows' /\ WhileNow' /\ ScanCovers'
    BY <2>1, <2>2 DEF FeedRows, WhileNow, ScanCovers
  <2> QED BY <2>3, <2>4
<1>17. CASE UNCHANGED vars
  BY <1>0, <1>17 DEF vars, Seen, FeedRows, WhileNow, ScanCovers, Handed
<1> QED
  BY <1>1, <1>2, <1>3, <1>4, <1>5, <1>6, <1>7, <1>8, <1>9, <1>10, <1>13, <1>14,
     <1>15, <1>16, <1>17 DEF Next, Produce, Consume

(* Changes before the stored sequence are dispatched, in hand or in the channel. *)
LEMMA FlowCovers ==
    ASSUME IInv
    PROVE  NothingSkipped
<1>0. TypeOK /\ Shape /\ Seen /\ WhileNow
  BY DEF IInv, Flow, TypeInv
<1>a. /\ since \in Nat \/ since = Unset \/ since = Now
      /\ since \in Nat => since # Unset /\ since # Now
      /\ since = Now => since # Unset
      /\ producer.at \in Nat /\ Len(rows) \in Nat
  BY <1>0, SinceFact
<1> SUFFICES ASSUME NEW i \in Past
             PROVE  got[i] > 0 \/ hand = i \/ (since = Now /\ \E k \in DOMAIN rows : rows[k] = i)
  BY DEF NothingSkipped
<1>1. CASE since = Unset
  BY <1>1 DEF Past
<1>2. CASE since \in Nat
  <2>1. i \in 1..since
    BY <1>2, <1>a DEF Past
  <2> QED BY <1>0, <1>2, <2>1 DEF Seen, Handed
<1>3. CASE since = Now
  <2>1. i \in 1..(IF FeedOpen THEN producer.at ELSE log)
    BY <1>3, <1>a DEF Past
  <2>2. phase = "feed" /\ producer.of = "feed" /\ producer.pc \in {"query", "send"}
    BY <1>0, <1>3 DEF WhileNow, Shape
  <2>3. CASE producer.pc = "query"
    BY <1>0, <1>3, <2>1, <2>3 DEF WhileNow, FeedOpen
  <2>4. CASE producer.pc = "send"
    <3>1. i \in 1..producer.at
      BY <2>1, <2>2, <2>4 DEF FeedOpen
    <3>2. /\ Len(rows) <= producer.at
          /\ \A j \in 1..(producer.at - Len(rows)) : got[j] > 0
          /\ \A k \in 1..Len(rows) : rows[k] = producer.at - Len(rows) + k
      BY <1>0, <1>3, <2>4 DEF WhileNow
    <3>3. CASE i <= producer.at - Len(rows)
      BY <1>a, <3>1, <3>2, <3>3
    <3>4. CASE i > producer.at - Len(rows)
      <4>1. i - (producer.at - Len(rows)) \in 1..Len(rows)
        BY <1>a, <3>1, <3>2, <3>4
      <4>2. rows[i - (producer.at - Len(rows))] = i
        BY <1>a, <3>1, <3>2, <4>1
      <4>3. DOMAIN rows = 1..Len(rows)
        BY <1>0 DEF TypeOK
      <4> QED BY <1>3, <4>1, <4>2, <4>3
    <3> QED BY <1>a, <3>1, <3>3, <3>4
  <2> QED BY <2>2, <2>3, <2>4
<1> QED BY <1>1, <1>2, <1>3, <1>a

(* No change before the stored sequence is lost, for any number of changes,
   errors, stops and crashes, if a row that was stored is dispatched before the
   process ends, the scan does not mistake an error or a cancelled context for
   its end, and nothing happens while the stored sequence is "now" and the feed
   is not open.  Without one of the three this code does lose changes. *)
THEOREM SkipsNothing ==
    ASSUME RowsWhole, ErrorsFirst, ~NowGap
    PROVE  Spec => []NothingSkipped
<1>1. Init => IInv
  BY TypeInit, FlowInit DEF IInv
<1>2. IInv /\ [Next]_vars => IInv'
  <2> SUFFICES ASSUME IInv, [Next]_vars PROVE IInv'
    OBVIOUS
  <2>1. TypeInv'
    BY TypeStep DEF IInv
  <2>2. Flow'
    BY <2>1, FlowStep
  <2> QED BY <2>1, <2>2 DEF IInv
<1>3. IInv => NothingSkipped
  BY FlowCovers
<1> QED BY <1>1, <1>2, <1>3, PTL DEF Spec

-----------------------------------------------------------------------------
(* Why nothing is dispatched twice. *)

(* What was dispatched lies before the stored sequence, or is known by its
   metadata; a row in hand was not dispatched. *)
Once ==
    /\ \A i \in Change : got[i] <= 1 /\ (got[i] > 0 => i <= log)
    /\ hand # 0 => got[hand] = 0 /\ hand <= log /\ phase \in {"scan", "feed"}
    /\ since = Unset => \A i \in Change : got[i] > 0 => i \in meta
    /\ since \in Nat =>
          /\ since <= log /\ \A i \in Change : got[i] > 0 => i <= since
          /\ hand # 0 => hand = since
    /\ since = Now /\ producer.pc = "send" =>
          \A i \in Change : got[i] > 0 => i <= producer.at - Len(rows)

(* Only changes of the database are sent. *)
Sent ==
    /\ producer.at <= log /\ producer.left \subseteq 1..log
    /\ \A k \in 1..Len(rows) : rows[k] <= log

OInv == IInv /\ Once /\ Sent

LEMMA OnceInit == Init => Once /\ Sent
<1> SUFFICES ASSUME Init PROVE Once /\ Sent
  OBVIOUS
<1>1. Len(rows) = 0 /\ producer.at = 0 /\ producer.left = {} /\ log = 0
  BY EmptyFact DEF Init, Producer
<1>2. Sent
  BY <1>1 DEF Sent
<1>3. Once
  BY SequenceAssumption DEF Init, Once, Producer
<1> QED BY <1>2, <1>3

LEMMA SentStep ==
    ASSUME OInv, TypeInv', [Next]_vars
    PROVE  Sent'
<1>0. TypeOK /\ Shape /\ Once /\ Sent
  BY DEF OInv, IInv, TypeInv
<1>a. /\ since \in Nat \/ since = Unset \/ since = Now
      /\ log \in Nat /\ producer.at \in Nat /\ Len(rows) \in Nat
  BY <1>0, SinceFact
<1>b. \A k \in 1..Len(rows) : rows[k] \in Nat
  BY <1>0 DEF TypeOK, Change
<1>1. CASE Write
  BY <1>0, <1>1, <1>a, <1>b DEF Write, channels, Sent
<1>2. ASSUME NEW of \in {"scan", "feed"}, Open(of), UNCHANGED log PROVE Sent'
  <2>1. producer' = [pc |-> "query", of |-> of, left |-> {}, at |-> 0] /\ Len(rows') = 0
    BY <1>2, OpenType DEF Open, Advance, Producer
  <2> QED BY <1>2, <1>a, <2>1 DEF Sent
<1>3. CASE Query
  <2>1. since # Unset \/ producer.of = "scan"
    BY <1>0 DEF Shape
  <2>2. /\ producer'.at = IF producer.of = "scan" THEN 0 ELSE IF since = Now THEN log ELSE since
        /\ producer'.left = IF producer.of = "scan" THEN 1..log ELSE {}
        /\ UNCHANGED <<log, rows>>
    BY <1>0, <1>3 DEF Query, Advance, TypeOK, ProducerState
  <2>3. producer'.at <= log
    BY <1>0, <1>a, <2>1, <2>2 DEF Once
  <2> QED BY <1>0, <2>2, <2>3 DEF Sent
<1>4. CASE SendRow
  <2>1. PICK i \in Change :
          /\ rows' = Append(rows, i)
          /\ \/ /\ producer.of = "scan" /\ i \in producer.left
                /\ producer' = [producer EXCEPT !.left = @ \ {i}]
             \/ /\ producer.of = "feed" /\ producer.at < log /\ i = producer.at + 1
                /\ producer' = [producer EXCEPT !.at = i]
    BY <1>4 DEF SendRow, Advance
  <2>2. /\ log' = log /\ Len(rows') = Len(rows) + 1 /\ rows'[Len(rows) + 1] = i
        /\ \A k \in 1..Len(rows) : rows'[k] = rows[k]
    BY <1>0, <1>4, <2>1, AppendFact DEF SendRow, TypeOK
  <2>3. i <= log
    BY <1>0, <1>a, <2>1 DEF Sent
  <2>4. producer'.at <= log /\ producer'.left \subseteq 1..log
    BY <1>0, <1>a, <2>1, <2>3 DEF Sent, TypeOK, ProducerState
  <2>5. ASSUME NEW k \in 1..Len(rows') PROVE rows'[k] <= log
    <3>1. CASE k \in 1..Len(rows)
      BY <1>0, <2>2, <3>1 DEF Sent
    <3>2. CASE k = Len(rows) + 1
      BY <2>2, <2>3, <3>2
    <3> QED BY <1>a, <2>2, <3>1, <3>2
  <2> QED BY <2>2, <2>4, <2>5 DEF Sent
<1>5. CASE ScanEnds \/ ProducerStops \/ CloseErrors \/ CloseRows \/ RequestFails
  <2>1. /\ UNCHANGED <<log, rows>>
        /\ \E pc \in {"closing", "closed", "ended"} : producer' = [producer EXCEPT !.pc = pc]
    BY <1>5 DEF ScanEnds, ProducerStops, CloseErrors, CloseRows, RequestFails, Advance
  <2>2. producer'.at = producer.at /\ producer'.left = producer.left
    BY <1>0, <2>1 DEF TypeOK, ProducerState
  <2> QED BY <1>0, <2>1, <2>2 DEF Sent
<1>6. CASE TakeDocument \/ TakeRow
  <2>1. rows # <<>> /\ rows' = Tail(rows) /\ UNCHANGED <<log, producer>>
    BY <1>6 DEF TakeDocument, TakeRow
  <2>2. Len(rows') = Len(rows) - 1 /\ \A k \in 1..Len(rows) - 1 : rows'[k] = rows[k + 1]
    BY <1>0, <2>1, TailFact DEF TypeOK
  <2>3. ASSUME NEW k \in 1..Len(rows') PROVE rows'[k] <= log
    <3>1. k \in 1..Len(rows) - 1 /\ k + 1 \in 1..Len(rows)
      BY <1>a, <2>2
    <3> QED BY <1>0, <2>2, <3>1 DEF Sent
  <2> QED BY <1>0, <2>1, <2>3 DEF Sent
<1>7. CASE Exit \/ Crash
  <2>1. UNCHANGED log /\ rows' = <<>> /\ producer' = [pc |-> "ended", of |-> "scan", left |-> {}, at |-> 0]
    BY <1>7 DEF Exit, Crash, ProcessEnds, Advance, Producer
  <2> QED BY <1>a, <2>1, EmptyFact DEF Sent
<1>8. CASE ScanError \/ FeedClosed \/ FeedBroken \/ SeeStop \/ Handle \/ StopFailed \/ Stop \/ UNCHANGED vars
  <2>1. UNCHANGED <<log, producer, rows>>
    BY <1>8 DEF ScanError, FeedClosed, FeedBroken, SeeStop, Handle, StopFailed, Stop, channels, vars
  <2> QED BY <1>0, <2>1 DEF Sent
<1>9. CASE Boot \/ ScanDone \/ Reconnect
  <2>1. UNCHANGED log /\ \E of \in {"scan", "feed"} : Open(of)
    BY <1>9 DEF Boot, ScanDone, Reconnect
  <2> QED BY <1>2, <2>1
<1> QED
  BY <1>1, <1>3, <1>4, <1>5, <1>6, <1>7, <1>8, <1>9 DEF Next, Produce, Consume

LEMMA OnceStep ==
    ASSUME RowsWhole, ErrorsFirst, ~NowGap, OInv, TypeInv', [Next]_vars
    PROVE  Once'
<1>0. TypeOK /\ Shape /\ Seen /\ FeedRows /\ WhileNow /\ ScanCovers /\ Once /\ Sent
  BY DEF OInv, IInv, Flow, TypeInv
<1>a. /\ since \in Nat \/ since = Unset \/ since = Now
      /\ since \in Nat => since # Unset /\ since # Now
      /\ since = Now => since \notin Nat /\ since # Unset
      /\ log \in Nat /\ producer.at \in Nat /\ Len(rows) \in Nat
  BY <1>0, SinceFact
<1>b. got \in [Change -> Nat] /\ Change \subseteq Nat
  BY <1>0 DEF TypeOK, Change
<1>1. CASE Write
  <2>1. since = Now => producer.pc = "send"
    BY <1>0, <1>1, <1>a DEF Write, FeedOpen
  <2> QED BY <1>0, <1>1, <1>a, <1>b DEF Write, consumer, channels, Once, TypeOK
<1>2. CASE Boot \/ Reconnect
  <2>1. /\ since # Now /\ hand = 0 /\ UNCHANGED <<log, since, meta, hand, got>>
    BY <1>0, <1>2 DEF Boot, Reconnect, WhileNow, Once
  <2> QED BY <1>0, <1>b, <2>1 DEF Once
<1>3. CASE Query
  <2>1. UNCHANGED <<log, since, meta, phase, hand, got, rows>> /\ producer.pc = "query"
    BY <1>3 DEF Query, consumer
  <2>2. since = Now => Len(rows) = 0 /\ producer'.at = log
    BY <1>0, <1>3, EmptyFact DEF Query, Advance, FeedRows, WhileNow, Shape, TypeOK, ProducerState
  <2> QED BY <1>0, <1>a, <1>b, <2>1, <2>2 DEF Once
<1>4. CASE SendRow
  <2>1. UNCHANGED <<log, since, meta, phase, hand, got>> /\ producer.pc = "send"
    BY <1>4 DEF SendRow, consumer
  <2>2. \E i \in Change : rows' = Append(rows, i)
    BY <1>4 DEF SendRow
  <2>3. Len(rows') = Len(rows) + 1
    BY <1>0, <2>2, AppendFact DEF TypeOK
  <2>4. since = Now => producer.of = "feed"
    BY <1>0 DEF WhileNow, Shape
  <2>5. since = Now => producer'.at = producer.at + 1
    BY <1>0, <1>4, <2>4 DEF SendRow, Advance, TypeOK, ProducerState
  <2>6. since = Now => producer'.at - Len(rows') = producer.at - Len(rows)
    BY <1>a, <2>3, <2>5
  <2> QED BY <1>0, <2>1, <2>6 DEF Once
<1>5. CASE ScanEnds \/ ProducerStops \/ CloseErrors \/ CloseRows \/ RequestFails
  <2>1. UNCHANGED <<log, since, meta, phase, hand, got>>
    BY <1>5 DEF ScanEnds, ProducerStops, CloseErrors, CloseRows, RequestFails, consumer
  <2>2. since # Now
    BY <1>0, <1>5 DEF ScanEnds, ProducerStops, CloseErrors, CloseRows, RequestFails, WhileNow, Shape
  <2> QED BY <1>0, <2>1, <2>2 DEF Once
<1>6. CASE TakeDocument
  <2>1. /\ phase = "scan" /\ hand' = (IF Head(rows) \in meta THEN 0 ELSE Head(rows))
        /\ rows # <<>> /\ UNCHANGED <<log, since, meta, phase, got>>
    BY <1>6 DEF TakeDocument, Selecting
  <2>2. Len(rows) >= 1 /\ Head(rows) = rows[1] /\ Head(rows) \in Change
    BY <1>0, <2>1, TailFact DEF TypeOK
  <2>3. since = Unset /\ Head(rows) <= log
    BY <1>0, <2>1, <2>2 DEF Shape, Sent
  <2>4. Head(rows) \notin meta => got[Head(rows)] = 0
    BY <1>0, <1>b, <2>2, <2>3 DEF Once
  <2> QED BY <1>0, <1>a, <2>1, <2>3, <2>4 DEF Once
<1>7. CASE TakeRow
  <2>1. /\ phase = "feed" /\ rows # <<>> /\ since' = Head(rows) /\ hand' = Head(rows)
        /\ UNCHANGED <<log, meta, phase, got>>
    BY <1>7 DEF TakeRow, Selecting
  <2>2. Len(rows) >= 1 /\ Head(rows) = rows[1] /\ Head(rows) \in Change
    BY <1>0, <2>1, TailFact DEF TypeOK
  <2>3. Head(rows) <= log /\ Head(rows) \in Nat /\ Head(rows) # Now /\ Head(rows) # Unset
    <3>1. 1 \in 1..Len(rows)
      BY <1>a, <2>2
    <3>2. Head(rows) <= log
      BY <1>0, <2>2, <3>1 DEF Sent
    <3> QED BY <1>b, <2>2, <3>2, SequenceAssumption
  <2>4. since # Unset /\ producer.pc # "query"
    BY <1>0, <2>1 DEF Shape, FeedRows
  <2>5. \A i \in Change : got[i] > 0 => i < Head(rows)
    <3>1. CASE since \in Nat
      <4>1. Head(rows) = since + 1
        BY <1>0, <2>1, <2>2, <3>1 DEF FeedRows
      <4> QED BY <1>0, <1>b, <3>1, <4>1 DEF Once
    <3>2. CASE since = Now
      <4>1. producer.pc = "send" /\ \A k \in 1..Len(rows) : rows[k] = producer.at - Len(rows) + k
        BY <1>0, <2>4, <3>2 DEF WhileNow
      <4>2. Head(rows) = producer.at - Len(rows) + 1
        BY <2>2, <4>1
      <4> QED BY <1>0, <1>a, <1>b, <3>2, <4>1, <4>2 DEF Once
    <3> QED BY <1>a, <2>4, <3>1, <3>2
  <2>6. got[Head(rows)] = 0
    BY <1>b, <2>2, <2>3, <2>5
  <2> QED BY <1>0, <1>b, <2>1, <2>3, <2>5, <2>6 DEF Once
<1>8. CASE ScanDone
  <2>1. hand = 0 /\ since' = Now /\ UNCHANGED <<log, hand, got>>
    BY <1>8 DEF ScanDone, Selecting
  <2>2. producer'.pc = "query"
    BY <1>8, OpenType DEF ScanDone
  <2> QED BY <1>0, <2>1, <2>2, SequenceAssumption DEF Once
<1>9. CASE ScanError \/ FeedClosed \/ FeedBroken \/ SeeStop
  <2>1. hand = 0 /\ UNCHANGED <<log, since, meta, hand, got>>
    BY <1>9, <1>0 DEF ScanError, FeedClosed, FeedBroken, SeeStop, Selecting, Once
  <2>2. since # Now
    BY <1>0, <1>9 DEF ScanError, FeedClosed, FeedBroken, SeeStop, Selecting, WhileNow, Shape
  <2> QED BY <1>0, <2>1, <2>2 DEF Once
<1>10. CASE Handle
  <2>1. /\ hand # 0 /\ got' = [got EXCEPT ![hand] = @ + 1] /\ meta' = meta \cup {hand} /\ hand' = 0
        /\ UNCHANGED <<log, since>>
    BY <1>10 DEF Handle
  <2>2. hand \in Change /\ got[hand] = 0 /\ hand <= log
    BY <1>0, <2>1 DEF TypeOK, Once, Change
  <2>3. got'[hand] = 1 /\ \A i \in Change \ {hand} : got'[i] = got[i]
    BY <1>b, <2>1, <2>2
  <2>4. since # Now
    BY <1>0, <2>1 DEF WhileNow
  <2>5. \A i \in Change : got'[i] <= 1 /\ (got'[i] > 0 => i <= log)
    BY <1>0, <2>2, <2>3 DEF Once
  <2>6. since = Unset => \A i \in Change : got'[i] > 0 => i \in meta'
    BY <1>0, <2>1, <2>3 DEF Once
  <2>7. since \in Nat => since <= log /\ \A i \in Change : got'[i] > 0 => i <= since
    BY <1>0, <1>b, <2>1, <2>3 DEF Once
  <2> QED BY <2>1, <2>4, <2>5, <2>6, <2>7 DEF Once
<1>11. CASE StopFailed \/ Stop
  <2>1. UNCHANGED <<log, since, meta, phase, hand, got, producer, rows>>
    BY <1>11 DEF StopFailed, Stop, consumer, channels
  <2> QED BY <1>0, <2>1 DEF Once
<1>12. CASE Exit \/ Crash
  <2>1. hand' = 0 /\ UNCHANGED <<log, since, meta, got>>
    BY <1>12 DEF Exit, Crash, ProcessEnds
  <2>2. since # Now
    BY <1>0, <1>12 DEF Exit, Crash, WhileNow
  <2> QED BY <1>0, <2>1, <2>2 DEF Once
<1>13. CASE UNCHANGED vars
  BY <1>0, <1>13 DEF vars, Once
<1> QED
  BY <1>1, <1>2, <1>3, <1>4, <1>5, <1>6, <1>7, <1>8, <1>9, <1>10, <1>11, <1>12, <1>13
  DEF Next, Produce, Consume

(* The changes and their dispatches are a behaviour of Delivery: each change is
   dispatched at most once and none before it was made, whatever is sent again
   by a scan or a feed that starts anew. *)
THEOREM DeliveredOnce ==
    ASSUME RowsWhole, ErrorsFirst, ~NowGap
    PROVE  Spec => Deliveries!Init /\ [][Deliveries!Next]_<<log, got>>
<1>1. Init => OInv /\ Deliveries!Init
  BY TypeInit, FlowInit, OnceInit DEF OInv, IInv, Init, Deliveries!Init, Change
<1>2. OInv /\ [Next]_vars => OInv'
  <2> SUFFICES ASSUME OInv, [Next]_vars PROVE OInv'
    OBVIOUS
  <2>1. TypeInv'
    BY TypeStep DEF OInv, IInv
  <2>2. Flow'
    BY <2>1, FlowStep DEF OInv
  <2>3. Once' /\ Sent'
    BY <2>1, OnceStep, SentStep
  <2> QED BY <2>1, <2>2, <2>3 DEF OInv, IInv
<1>3. OInv /\ [Next]_vars => [Deliveries!Next]_<<log, got>>
  <2> SUFFICES ASSUME OInv, [Next]_vars PROVE [Deliveries!Next]_<<log, got>>
    OBVIOUS
  <2>0. TypeOK /\ Once
    BY DEF OInv, IInv, TypeInv
  <2>1. CASE Write
    BY <2>1 DEF Write, consumer, Deliveries!Next, Deliveries!Publish
  <2>2. CASE Handle
    <3>1. /\ hand # 0 /\ got' = [got EXCEPT ![hand] = @ + 1] /\ log' = log
      BY <2>2 DEF Handle
    <3>2. hand \in 1..MaxChanges /\ got[hand] = 0 /\ hand <= log
      BY <2>0, <3>1 DEF TypeOK, Once
    <3>3. got' = [got EXCEPT ![hand] = 1]
      BY <3>1, <3>2
    <3>4. Deliveries!Deliver(hand)
      BY <3>1, <3>2, <3>3 DEF Deliveries!Deliver
    <3> QED BY <3>2, <3>4 DEF Deliveries!Next
  <2>3. CASE Query \/ SendRow \/ ScanEnds \/ ProducerStops \/ CloseErrors \/ CloseRows \/ RequestFails
    BY <2>3 DEF Query, SendRow, ScanEnds, ProducerStops, CloseErrors, CloseRows, RequestFails, consumer
  <2>4. CASE \/ TakeDocument \/ ScanDone \/ ScanError \/ TakeRow \/ FeedClosed \/ FeedBroken
             \/ SeeStop \/ Reconnect \/ Boot
    BY <2>4 DEF TakeDocument, ScanDone, ScanError, TakeRow, FeedClosed, FeedBroken, SeeStop,
                Reconnect, Boot
  <2>5. CASE Stop \/ StopFailed \/ Exit \/ Crash
    BY <2>5 DEF Stop, StopFailed, Exit, Crash, ProcessEnds, consumer
  <2>6. CASE UNCHANGED vars
    BY <2>6 DEF vars
  <2> QED BY <2>1, <2>2, <2>3, <2>4, <2>5, <2>6 DEF Next, Produce, Consume
<1> QED BY <1>1, <1>2, <1>3, PTL DEF Spec
=============================================================================
