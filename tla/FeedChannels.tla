---------------------------- MODULE FeedChannels ----------------------------
(***************************************************************************)
(* How changes of the database travel through the CouchDB client's         *)
(* channels into the CouchDB peer.                                         *)
(*                                                                         *)
(* AllDocsIterator and Changes each start a goroutine, the producer, that  *)
(* sends rows on one channel and at most one error on another, and closes  *)
(* both when it ends: the channel of errors first.  scanInitialDocuments   *)
(* and watchChanges, the consumers, select among the two channels and the  *)
(* context; a select takes any case that is ready.  The position in the    *)
(* feed is kept in the store, and the feed is opened there again after an  *)
(* error.                                                                  *)
(*                                                                         *)
(* Every change is of a document of its own: change i is what the scan     *)
(* sees as document i.  Dispatching a row is one step here; StorageBridge  *)
(* and CouchBridge model what it does.                                     *)
(***************************************************************************)
EXTENDS Naturals, Sequences

CONSTANTS
    Unset, Now,   \* a "since" that is not stored, and the literal "now"
    BufSize,      \* capacity of the channel of rows
    NowGap,       \* FALSE: nothing changes during the initial scan, nor while the
                  \* stored sequence is "now" and no feed is open; the feed is
                  \* not interrupted while it is "now"
    RowsWhole,    \* TRUE: the process does not end between the store of a row's
                  \* sequence and the end of its dispatch
    ErrorsFirst,  \* TRUE: when the scan's select finds the channel of rows closed
                  \* together with an error or a cancelled context, it takes those
    Faults,       \* which of "feed" (it breaks), "scan" (it fails), "crash",
                  \* "stop" (while the feed is watched), "stopscan" happen
    MaxChanges,   \* bound on changes
    MaxFaults     \* bound on faults

VARIABLES
    log,          \* how many changes the database has seen
    since, meta,  \* stored: the sequence, and whose metadata are
    phase,        \* where the consumer is
    hand,         \* the row it has taken and not dispatched yet, or 0
    producer,     \* the running, or last, producer
    rows, error,  \* what the channels hold
    stop,         \* the context is cancelled
    got,          \* got[i]: how often change i was dispatched (history)
    faults

vars == <<log, since, meta, phase, hand, producer, rows, error, stop, got, faults>>

channels == <<producer, rows, error>>
consumer == <<since, meta, phase, hand, got>>

Change == 1..MaxChanges

Phase == {"down", "scan", "failed",   \* Start
          "feed", "backoff", "returned"}   \* watchChanges

(* "closing": what is left is to close the channel of errors; "closed": that
   is done, the channel of rows is still open; "ended": both are closed. *)
ProducerPC == {"query", "send", "closing", "closed", "ended"}

(* left: documents the scan has not sent; at: the last row the feed has. *)
ProducerState == [pc : ProducerPC, of : {"scan", "feed"}, left : SUBSET Change, at : 0..MaxChanges]

Producer(of, pc) == [pc |-> pc, of |-> of, left |-> {}, at |-> 0]

ASSUME SequenceAssumption == Unset # Now /\ {Unset, Now} \cap Nat = {}
ASSUME BoundAssumption ==
    /\ BufSize \in Nat \ {0} /\ MaxChanges \in Nat /\ MaxFaults \in Nat
    /\ NowGap \in BOOLEAN /\ RowsWhole \in BOOLEAN /\ ErrorsFirst \in BOOLEAN

TypeOK ==
    /\ log \in 0..MaxChanges
    /\ since \in 0..MaxChanges \cup {Unset, Now} /\ meta \subseteq Change
    /\ phase \in Phase /\ hand \in 0..MaxChanges
    /\ producer \in ProducerState
    /\ rows \in Seq(Change) /\ Len(rows) <= BufSize
    /\ error \in BOOLEAN /\ stop \in BOOLEAN
    /\ got \in [Change -> Nat]
    /\ faults \in 0..MaxFaults

Init ==
    /\ log = 0 /\ since = Unset /\ meta = {}
    /\ phase = "down" /\ hand = 0
    /\ producer = Producer("scan", "ended") /\ rows = <<>> /\ error = FALSE
    /\ stop = FALSE
    /\ got = [i \in Change |-> 0]
    /\ faults = 0

-----------------------------------------------------------------------------
(* The database changes. *)

FeedOpen == producer.of = "feed" /\ producer.pc = "send"

Write ==
    /\ log < MaxChanges
    /\ NowGap \/ FeedOpen \/ since \in Nat \/ (since = Unset /\ phase = "down")
    /\ log' = log + 1
    /\ UNCHANGED <<consumer, channels, stop, faults>>

Fault(f) == f \in Faults /\ faults < MaxFaults /\ faults' = faults + 1

-----------------------------------------------------------------------------
(* The producer: AllDocsIterator and Changes. *)

Advance(p) == producer' = p

(* CouchDB answers the query: with the documents there are, or from the
   sequence the feed asks for. *)
Query ==
    /\ producer.pc = "query"
    /\ Advance([producer EXCEPT !.pc = "send",
           !.left = IF producer.of = "scan" THEN 1..log ELSE {},
           !.at   = IF producer.of = "scan" THEN 0 ELSE IF since = Now THEN log ELSE since])
    /\ UNCHANGED <<log, consumer, rows, error, stop, faults>>

(* The documents come in the order of their names, changes in that of their
   sequences.  Sending waits for room in the channel. *)
SendRow ==
    /\ producer.pc = "send" /\ Len(rows) < BufSize
    /\ \E i \in Change :
          /\ rows' = Append(rows, i)
          /\ \/ /\ producer.of = "scan" /\ i \in producer.left
                /\ Advance([producer EXCEPT !.left = @ \ {i}])
             \/ /\ producer.of = "feed" /\ producer.at < log /\ i = producer.at + 1
                /\ Advance([producer EXCEPT !.at = i])
    /\ UNCHANGED <<log, consumer, error, stop, faults>>

ScanEnds ==
    /\ producer.of = "scan" /\ producer.pc = "send" /\ producer.left = {}
    /\ Advance([producer EXCEPT !.pc = "closing"])
    /\ UNCHANGED <<log, consumer, rows, error, stop, faults>>

(* Mutant: the error is sent and the loop goes on. *)
RequestFails_GoesOn ==
    /\ producer.pc \in {"query", "send"}
    /\ Fault(producer.of)
    /\ NowGap \/ since # Now
    /\ error' = TRUE
    /\ UNCHANGED <<log, consumer, producer, rows, stop>>

(* The query fails, or the answer breaks off: the error is sent, which never
   waits, and the producer ends. *)
RequestFails ==
    /\ producer.pc \in {"query", "send"}
    /\ Fault(producer.of)
    /\ NowGap \/ since # Now
    /\ error' = TRUE
    /\ Advance([producer EXCEPT !.pc = "closing"])
    /\ UNCHANGED <<log, consumer, rows, stop>>

(* A cancelled context ends the producer: its send's select takes that case, or
   the request fails with the context's error. *)
ProducerStops ==
    /\ stop /\ producer.pc \in {"query", "send"}
    /\ error' \in {error, TRUE}
    /\ Advance([producer EXCEPT !.pc = "closing"])
    /\ UNCHANGED <<log, consumer, rows, stop, faults>>

(* Deferred calls run last in, first out. *)
CloseErrors ==
    /\ producer.pc = "closing"
    /\ Advance([producer EXCEPT !.pc = "closed"])
    /\ UNCHANGED <<log, consumer, rows, error, stop, faults>>

CloseRows ==
    /\ producer.pc = "closed"
    /\ Advance([producer EXCEPT !.pc = "ended"])
    /\ UNCHANGED <<log, consumer, rows, error, stop, faults>>

-----------------------------------------------------------------------------
(* The consumer: Start, scanInitialDocuments and watchChanges. *)

Open(of) ==
    /\ Advance(Producer(of, "query"))
    /\ rows' = <<>> /\ error' = FALSE
    /\ phase' = of

Boot ==
    /\ phase = "down"
    /\ Open(IF since = Unset THEN "scan" ELSE "feed")
    /\ UNCHANGED <<log, since, meta, hand, stop, got, faults>>

Selecting(p) == phase = p /\ hand = 0

(* A document whose stored metadata say that it has not changed is skipped. *)
TakeDocument ==
    /\ Selecting("scan") /\ rows # <<>>
    /\ hand' = (IF Head(rows) \in meta THEN 0 ELSE Head(rows))
    /\ rows' = Tail(rows)
    /\ UNCHANGED <<log, since, meta, phase, producer, error, stop, got, faults>>

(* Mutant: what is stored is the sequence after the row's. *)
TakeRow_StoresNext ==
    /\ Selecting("feed") /\ rows # <<>>
    /\ since' = Head(rows) + 1
    /\ hand' = Head(rows)
    /\ rows' = Tail(rows)
    /\ UNCHANGED <<log, meta, phase, producer, error, stop, got, faults>>

(* A row's sequence is stored first. *)
TakeRow ==
    /\ Selecting("feed") /\ rows # <<>>
    /\ since' = Head(rows)
    /\ hand' = Head(rows)
    /\ rows' = Tail(rows)
    /\ UNCHANGED <<log, meta, phase, producer, error, stop, got, faults>>

(* Mutant: no metadata are stored. *)
Handle_NoMeta ==
    /\ hand # 0
    /\ got' = [got EXCEPT ![hand] = @ + 1]
    /\ hand' = 0
    /\ UNCHANGED <<log, since, meta, phase, channels, stop, faults>>

(* The row is dispatched, and its metadata are stored. *)
Handle ==
    /\ hand # 0
    /\ got' = [got EXCEPT ![hand] = @ + 1]
    /\ meta' = meta \cup {hand}
    /\ hand' = 0
    /\ UNCHANGED <<log, since, phase, channels, stop, faults>>

(* The scan takes the closed channel of rows for the end of the documents.
   Start stores "now" and watches the feed. *)
ScanDone ==
    /\ Selecting("scan") /\ rows = <<>> /\ producer.pc = "ended"
    /\ ErrorsFirst => ~error /\ ~stop
    /\ since' = Now
    /\ Open("feed")
    /\ UNCHANGED <<log, meta, hand, stop, got, faults>>

(* An error ends the scan, and Start; a closed channel of errors does not. *)
ScanError ==
    /\ Selecting("scan") /\ error
    /\ error' = FALSE
    /\ phase' = "failed"
    /\ UNCHANGED <<log, since, meta, hand, producer, rows, stop, got, faults>>

(* The end of the channel of rows ends the inner loop of watchChanges. *)
FeedClosed ==
    /\ Selecting("feed") /\ rows = <<>> /\ producer.pc = "ended"
    /\ phase' = "backoff"
    /\ UNCHANGED <<log, since, meta, hand, channels, stop, got, faults>>

(* So does an error, or the end of their channel, whatever rows there are. *)
FeedBroken ==
    /\ Selecting("feed") /\ (error \/ producer.pc \in {"closed", "ended"})
    /\ error' = FALSE
    /\ phase' = (IF stop THEN "returned" ELSE "backoff")
    /\ UNCHANGED <<log, since, meta, hand, producer, rows, stop, got, faults>>

(* Mutant: the feed is opened where the broken one was. *)
Reconnect_AtSent ==
    /\ phase = "backoff"
    /\ since' = (IF since = Now THEN Now ELSE producer.at)
    /\ Open("feed")
    /\ UNCHANGED <<log, meta, hand, stop, got, faults>>

(* After the backoff the stored sequence is read again. *)
Reconnect ==
    /\ phase = "backoff"
    /\ Open("feed")
    /\ UNCHANGED <<log, since, meta, hand, stop, got, faults>>

SeeStop ==
    /\ stop /\ (Selecting("scan") \/ Selecting("feed") \/ phase = "backoff")
    /\ phase' = "returned"
    /\ UNCHANGED <<log, since, meta, hand, channels, stop, got, faults>>

-----------------------------------------------------------------------------
(* A peer whose Start has failed stays down until an operator stops the bridge. *)
StopFailed ==
    /\ phase = "failed" /\ ~stop
    /\ stop' = TRUE
    /\ UNCHANGED <<log, consumer, channels, faults>>

(* Hub.Stop cancels the contexts. *)
Stop ==
    /\ ~stop
    /\ \/ phase = "scan" /\ Fault("stopscan")
       \/ phase \in {"feed", "backoff"} /\ Fault("stop") /\ (NowGap \/ since # Now)
    /\ stop' = TRUE
    /\ UNCHANGED <<log, consumer, channels>>

ProcessEnds ==
    /\ phase # "down" /\ (RowsWhole => hand = 0)
    /\ phase' = "down" /\ hand' = 0 /\ stop' = FALSE
    /\ Advance(Producer("scan", "ended")) /\ rows' = <<>> /\ error' = FALSE
    /\ UNCHANGED <<log, since, meta, got>>

(* Hub.Stop waits for Start, not for watchChanges, and main returns. *)
Exit == stop /\ phase # "scan" /\ ProcessEnds /\ UNCHANGED faults

Crash == (NowGap \/ since # Now) /\ Fault("crash") /\ ProcessEnds

-----------------------------------------------------------------------------
Produce == Query \/ SendRow \/ ScanEnds \/ ProducerStops \/ CloseErrors \/ CloseRows

Consume ==
    \/ TakeDocument \/ ScanDone \/ ScanError
    \/ TakeRow \/ FeedClosed \/ FeedBroken \/ SeeStop
    \/ Handle \/ Reconnect

Next == Write \/ Boot \/ Produce \/ RequestFails \/ Consume
        \/ Stop \/ StopFailed \/ Exit \/ Crash

Spec == Init /\ [][Next]_vars

(* CouchDB answers, goroutines run, a bridge with a failed peer is stopped, and
   a process that was stopped ends and is started again. *)
Fairness ==
    /\ WF_vars(Boot) /\ WF_vars(Produce) /\ WF_vars(Consume)
    /\ WF_vars(StopFailed) /\ WF_vars(Exit)

FairSpec == Spec /\ Fairness

-----------------------------------------------------------------------------
(* Changes that no feed opened from now on would bring. *)
Past ==
    CASE since = Unset -> {}
      [] since = Now   -> 1..(IF FeedOpen THEN producer.at ELSE log)
      [] since \notin {Unset, Now} -> 1..since

(* NothingSkipped: what lies before the stored sequence has been dispatched or
   is in the consumer's hands or channel, whichever errors, reconnections, stops
   and restarts there were, and whatever rows were dropped with a channel
   (watchChanges stores the sequence of rows it takes, not of those sent). *)
NothingSkipped ==
    \A i \in Past : got[i] > 0 \/ hand = i \/ (since = Now /\ \E k \in DOMAIN rows : rows[k] = i)

(* NoOrphan: when watchChanges leaves a feed for the next one, the producer of
   the old one has sent its last row, so it does not stay behind waiting for room
   in a channel that nobody reads (the order of closing in client.go). *)
NoOrphan == phase = "backoff" => producer.pc \notin {"query", "send"}

(* Every change is dispatched once, in the end: the channels, the scan and the
   feed implement the delivery that Delivery specifies. *)
Deliveries == INSTANCE Delivery WITH made <- log
ImplementsDelivery == Deliveries!Spec
=============================================================================
