----------------------------- MODULE OutputPath -----------------------------
(***************************************************************************)
(* The way of a packet from a client connection to the socket              *)
(* (xpra/server/source/client_connection.py and                            *)
(* xpra/net/protocol/socket_handler.py), and the two ways it ends:         *)
(* flush_then_close, which sends a last packet, and close.                 *)
(*                                                                         *)
(* Threads: the producers append packets and set the event; the format     *)
(* thread waits for the event, takes a packet from next_packet and puts it *)
(* in the write queue, which holds one packet; the write thread writes it; *)
(* the main loop runs flush_then_close and its timers; whichever thread    *)
(* finds the connection broken runs close.                                 *)
(***************************************************************************)
EXTENDS Integers, Sequences, FiniteSets

CONSTANTS
    FlushRetries,  \* how often wait_for_queue looks at the write queue
    MaxPackets     \* bound: packets queued by the producers

ASSUME OutputAssumption == FlushRetries \in Nat /\ MaxPackets \in Nat

\* send (from the UI thread) and queue_packet (from the encode thread)
Producers == {"ordinary", "draw"}

\* not packets: next_packet's "none" and "closed", the end marker of a queue
NoPacket == [id |-> 0, of |-> "none"]
Marker == [id |-> 0, of |-> "marker"]

\* the packet given to flush_then_close
Last == [id |-> 0, of |-> "last"]

VARIABLES
    packets,    \* ordinary_packets and packet_queue
    appended,   \* number of packets queued so far
    signal,     \* producers between their append and source_has_more()
    sourceGone, \* the client connection is cleaned up: close_event is set
    event,      \* _source_has_more
    fmt,        \* the format thread: [pc, packet, more]
    lock,       \* _write_lock: who holds it
    queue,      \* the write queue of one packet
    swapped,    \* terminate_queue_threads has replaced it with an exit queue
    wrt,        \* the write thread: [pc, packet]
    sent,       \* packets written to the socket
    closed,     \* _closed
    closer,     \* close() in progress: "no", "drain", "mark", "done"
    cleaned,    \* clean() has dropped the lock and the callbacks
    lost,       \* _connection_lost is queued with idle_add
    flush       \* flush_then_close and its timers:
                \* [pc, own |-> it runs close() itself, retries |-> left to wait_for_queue,
                \*  poll |-> wait_for_packet_sent is due, late |-> the 5s timer is,
                \*  done |-> calls of done_callback]

vars == <<packets, appended, signal, sourceGone, event, fmt, lock, queue, swapped, wrt,
          sent, closed, closer, cleaned, lost, flush>>

source == <<packets, appended, signal, sourceGone>>
closing == <<closed, closer, cleaned, lost>>

\* the format and write threads, with no packet in hand
FormatAt(pc) == [pc |-> pc, packet |-> NoPacket, more |-> FALSE]
WriteAt(pc) == [pc |-> pc, packet |-> NoPacket]

----------------------------------------------------------------------------
Init ==
    /\ packets = [p \in Producers |-> <<>>]
    /\ appended = 0
    /\ signal = {}
    /\ sourceGone = FALSE
    /\ event = FALSE
    /\ fmt = FormatAt("unborn")
    /\ lock = "free"
    /\ queue = <<>>
    /\ swapped = FALSE
    /\ wrt = WriteAt("unborn")
    /\ sent = <<>>
    /\ closed = FALSE
    /\ closer = "no"
    /\ cleaned = FALSE
    /\ lost = FALSE
    /\ flush = [pc |-> "no", own |-> FALSE, retries |-> FlushRetries, poll |-> FALSE,
                late |-> FALSE, done |-> 0]

(* The producers.                                                           *)

\* send and queue_packet, up to source_has_more()
QueuePacket(p) ==
    /\ p \notin signal /\ ~sourceGone
    /\ appended < MaxPackets
    /\ appended' = appended + 1
    /\ packets' = [packets EXCEPT ![p] = Append(@, [id |-> appended + 1, of |-> p])]
    /\ signal' = signal \cup {p}
    /\ UNCHANGED <<sourceGone, event, fmt, lock, queue, swapped, wrt, sent, flush, closing>>

\* the first call starts the format thread
source_has_more(p) ==
    /\ p \in signal
    /\ signal' = signal \ {p}
    /\ event' = IF cleaned \/ (fmt.pc = "unborn" /\ closed) THEN event ELSE TRUE
    /\ fmt' = IF fmt.pc = "unborn" /\ ~closed THEN FormatAt("check") ELSE fmt
    /\ UNCHANGED <<packets, appended, sourceGone, lock, queue, swapped, wrt, sent, flush, closing>>

\* the server has dropped the client
SourceCleanup ==
    /\ ~sourceGone
    /\ sourceGone' = TRUE
    /\ UNCHANGED <<packets, appended, signal, event, fmt, lock, queue, swapped, wrt, sent,
                   flush, closing>>

(* The format thread.                                                       *)

\* mutant: does not look at _closed again before it waits
FormatCheckNever ==
    /\ fmt.pc = "check"
    /\ fmt' = FormatAt("wait")
    /\ UNCHANGED <<source, event, lock, queue, swapped, wrt, sent, flush, closing>>

\* top of the loop, then wait()
FormatCheck ==
    /\ fmt.pc = "check"
    /\ fmt' = FormatAt(IF closed THEN "exit" ELSE "wait")
    /\ UNCHANGED <<source, event, lock, queue, swapped, wrt, sent, flush, closing>>

\* the packet that next_packet takes off a queue, when there is one
next_packet ==
    LET p == IF packets["ordinary"] # <<>> THEN "ordinary" ELSE "draw"
    IN  [of |-> p, packet |-> Head(packets[p]), rest |-> Tail(packets[p])]

HavePackets == ~sourceGone /\ \E p \in Producers : packets[p] # <<>>

\* woken up by the event: take a packet.  The producer may have said that it will
\* have more (will_have_more, wait_for_more); the queues tell otherwise.
FormatNext ==
    /\ fmt.pc = "wait" /\ event
    /\ IF closed THEN fmt' = FormatAt("exit") /\ UNCHANGED packets
       ELSE IF HavePackets
       THEN LET n == next_packet IN
            /\ packets' = [packets EXCEPT ![n.of] = n.rest]
            /\ \E hint \in BOOLEAN :
                 fmt' = [pc |-> "clear", packet |-> n.packet,
                         more |-> hint \/ \E p \in Producers : packets'[p] # <<>>]
       ELSE /\ fmt' = FormatAt("clear")
            /\ UNCHANGED packets
    /\ UNCHANGED <<appended, signal, sourceGone, event, lock, queue, swapped, wrt, sent, flush,
                   closing>>

\* the start of add_packet_to_queue
FormatClear ==
    /\ fmt.pc = "clear"
    /\ event' = (event /\ fmt.more)
    /\ fmt' = IF fmt.packet = NoPacket THEN FormatAt("check")
              ELSE [fmt EXCEPT !.pc = "encode", !.more = FALSE]
    /\ UNCHANGED <<source, lock, queue, swapped, wrt, sent, flush, closing>>

\* encode, then look up the write lock: clean() may have dropped it
FormatEncode ==
    /\ fmt.pc = "encode"
    /\ fmt' = IF cleaned THEN FormatAt("exit") ELSE [fmt EXCEPT !.pc = "lock"]
    /\ UNCHANGED <<source, event, lock, queue, swapped, wrt, sent, flush, closing>>

\* the packet cannot be encoded: the thread ends, the main loop will close
FormatError ==
    /\ fmt.pc = "encode"
    /\ fmt' = FormatAt("exit")
    /\ lost' = (lost \/ ~closed)
    /\ UNCHANGED <<source, event, lock, queue, swapped, wrt, sent, flush, closed, closer, cleaned>>

\* with the write lock: raw_write, which starts the write thread
FormatLock ==
    /\ fmt.pc = "lock" /\ lock = "free"
    /\ IF closed THEN fmt' = FormatAt("check") /\ UNCHANGED <<lock, wrt>>
       ELSE /\ lock' = "format"
            /\ fmt' = [fmt EXCEPT !.pc = "fetch"]
            /\ wrt' = IF wrt.pc = "unborn" THEN WriteAt("check") ELSE wrt
    /\ UNCHANGED <<source, event, queue, swapped, sent, flush, closing>>

\* which queue to put it in: close() may have replaced it
FormatFetch ==
    /\ fmt.pc = "fetch"
    /\ fmt' = IF swapped THEN FormatAt("check") ELSE [fmt EXCEPT !.pc = "put"]
    /\ lock' = IF swapped THEN "free" ELSE lock
    /\ UNCHANGED <<source, event, queue, swapped, wrt, sent, flush, closing>>

\* mutant: put_nowait, and the packet is dropped if the queue is full
FormatPutNowait ==
    /\ fmt.pc = "put"
    /\ queue' = IF queue = <<>> THEN <<fmt.packet>> ELSE queue
    /\ fmt' = FormatAt("check")
    /\ lock' = "free"
    /\ UNCHANGED <<source, event, swapped, wrt, sent, flush, closing>>

\* put() waits for the place in the write queue
FormatPut ==
    /\ fmt.pc = "put"
    /\ queue = <<>>
    /\ queue' = <<fmt.packet>>
    /\ fmt' = FormatAt("check")
    /\ lock' = "free"
    /\ UNCHANGED <<source, event, swapped, wrt, sent, flush, closing>>

(* The write thread.                                                        *)

WriteCheck ==
    /\ wrt.pc = "check"
    /\ wrt' = WriteAt(IF closed THEN "exit" ELSE "fetch")
    /\ UNCHANGED <<source, event, fmt, lock, queue, swapped, sent, flush, closing>>

\* an exit queue only has end markers
WriteFetch ==
    /\ wrt.pc = "fetch"
    /\ wrt' = WriteAt(IF swapped THEN "exit" ELSE "get")
    /\ UNCHANGED <<source, event, fmt, lock, queue, swapped, sent, flush, closing>>

WriteGet ==
    /\ wrt.pc = "get"
    /\ queue # <<>>
    /\ queue' = Tail(queue)
    /\ wrt' = IF Head(queue) = Marker THEN WriteAt("exit")
              ELSE [pc |-> "write", packet |-> Head(queue)]
    /\ UNCHANGED <<source, event, fmt, lock, swapped, sent, flush, closing>>

\* everything is written
WriteDone ==
    /\ wrt.pc = "write" /\ ~closed
    /\ sent' = Append(sent, wrt.packet)
    /\ wrt' = WriteAt("check")
    /\ UNCHANGED <<source, event, fmt, lock, queue, swapped, flush, closing>>

\* the connection was closed under it
WriteAbort ==
    /\ wrt.pc = "write" /\ closed
    /\ wrt' = WriteAt("exit")
    /\ UNCHANGED <<source, event, fmt, lock, queue, swapped, sent, flush, closing>>

(* close: by the main loop, the read thread or the write thread.            *)

\* up to the first step of terminate_queue_threads
CloseBegin ==
    /\ ~closed
    /\ closed' = TRUE
    /\ event' = TRUE
    /\ swapped' = TRUE
    /\ closer' = "drain"

\* force_flush_queue: discard everything, one packet at a time
CloseDrain ==
    /\ closer = "drain"
    /\ IF queue = <<>> THEN closer' = "mark" /\ UNCHANGED queue
       ELSE queue' = Tail(queue) /\ UNCHANGED closer
    /\ UNCHANGED <<source, event, fmt, lock, swapped, wrt, sent, flush, closed, cleaned, lost>>

\* ... then the marker, if there is room for it
CloseMark ==
    /\ closer = "mark"
    /\ queue' = IF queue = <<>> THEN <<Marker>> ELSE queue
    /\ event' = TRUE
    /\ closer' = "done"
    /\ UNCHANGED <<source, fmt, lock, swapped, wrt, sent, flush, closed, cleaned, lost>>

\* the main loop is not in flush_then_close, waiting for the lock, a put() or close()
MainLoopFree == flush.pc \in {"no", "queue", "idle", "raised"}

\* clean(), queued by close() with idle_add
Clean ==
    /\ closer = "done" /\ ~cleaned
    /\ MainLoopFree
    /\ cleaned' = TRUE
    /\ UNCHANGED <<source, event, fmt, lock, queue, swapped, wrt, sent, flush, closed, closer, lost>>

\* the read thread finds the connection closed, or the main loop runs _connection_lost
ConnectionLost ==
    /\ CloseBegin
    /\ lost' = FALSE
    /\ UNCHANGED <<source, fmt, lock, queue, wrt, sent, flush, cleaned>>

WriteError ==
    /\ wrt.pc = "write"
    /\ CloseBegin
    /\ wrt' = WriteAt("exit")
    /\ UNCHANGED <<source, fmt, lock, queue, sent, flush, cleaned, lost>>

(* flush_then_close, in the main loop.                                      *)

\* wait_for_write_lock follows at once
FlushBegin ==
    /\ flush.pc = "no"
    /\ flush' = IF closed THEN [flush EXCEPT !.pc = "idle", !.done = @ + 1]
                ELSE [flush EXCEPT !.pc = "lock"]
    /\ UNCHANGED <<source, event, fmt, lock, queue, swapped, wrt, sent, closing>>

FlushLock ==
    /\ flush.pc = "lock" /\ lock = "free"
    /\ lock' = "flush"
    /\ flush' = [flush EXCEPT !.pc = "queue"]
    /\ UNCHANGED <<source, event, fmt, queue, swapped, wrt, sent, closing>>

\* close(), unless it is closed already; `f` is the state of flush_then_close then
CloseThen(f) ==
    /\ IF closed THEN UNCHANGED <<closed, event, swapped, closer>> ELSE CloseBegin
    /\ flush' = [f EXCEPT !.own = ~closed]
    /\ UNCHANGED <<source, fmt, lock, queue, wrt, sent, cleaned, lost>>

\* the lock is busy for 100ms
FlushLockTimeout ==
    /\ flush.pc = "lock" /\ lock # "free"
    /\ CloseThen([flush EXCEPT !.pc = "unlocked"])

\* the exit queue that replaces a closed one is never empty
WriteQueueEmpty == queue = <<>> /\ ~swapped

\* wait_for_queue: try again in 100ms, or give up
FlushRetry ==
    /\ flush.pc = "queue" /\ ~WriteQueueEmpty
    /\ flush.retries > 0
    /\ flush' = [flush EXCEPT !.retries = @ - 1]
    /\ UNCHANGED <<source, event, fmt, lock, queue, swapped, wrt, sent, closing>>

FlushGiveUp ==
    /\ flush.pc = "queue" /\ ~WriteQueueEmpty
    /\ flush.retries = 0
    /\ CloseThen([flush EXCEPT !.pc = "release"])

\* the queue is empty: encode the last packet, and start the write thread in raw_write
FlushLast ==
    /\ flush.pc = "queue" /\ WriteQueueEmpty
    /\ wrt' = IF wrt.pc = "unborn" THEN WriteAt("check") ELSE wrt
    /\ flush' = [flush EXCEPT !.pc = "fetch", !.retries = 0]
    /\ UNCHANGED <<source, event, fmt, lock, queue, swapped, sent, closing>>

\* the last packet cannot be encoded: nobody catches it, and the lock stays
FlushRaises ==
    /\ flush.pc = "queue" /\ WriteQueueEmpty
    /\ flush' = [flush EXCEPT !.pc = "raised", !.retries = 0]
    /\ UNCHANGED <<source, event, fmt, lock, queue, swapped, wrt, sent, closing>>

\* the last packet is queued: poll, and a timer of 5s in any case
LastQueued == flush' = [flush EXCEPT !.pc = "idle", !.poll = TRUE, !.late = TRUE]

\* which queue to put it in: an exit queue has room for it, and nobody reads it
FlushFetch ==
    /\ flush.pc = "fetch"
    /\ IF swapped THEN LastQueued ELSE flush' = [flush EXCEPT !.pc = "put"]
    /\ UNCHANGED <<source, event, fmt, lock, queue, swapped, wrt, sent, closing>>

\* mutant: does not keep the write lock after the last packet
FlushPutUnlocks ==
    /\ flush.pc = "put" /\ queue = <<>>
    /\ queue' = <<Last>>
    /\ lock' = "free"
    /\ LastQueued
    /\ UNCHANGED <<source, event, fmt, swapped, wrt, sent, closing>>

\* put() waits for the place in the write queue, and the main loop with it
FlushPut ==
    /\ flush.pc = "put" /\ queue = <<>>
    /\ queue' = <<Last>>
    /\ LastQueued
    /\ UNCHANGED <<source, event, fmt, lock, swapped, wrt, sent, closing>>

\* wait_for_packet_sent, every 100ms until the write thread has taken the packet
FlushSent ==
    /\ flush.pc = "idle" /\ flush.poll
    /\ WriteQueueEmpty \/ closed
    /\ CloseThen([flush EXCEPT !.pc = "release", !.poll = FALSE])

\* mutant: no timer if the last packet stays in the queue
FlushLateNever ==
    /\ flush.pc = "idle" /\ flush.late
    /\ closed
    /\ CloseThen([flush EXCEPT !.pc = "release", !.late = FALSE])

\* the timer of 5s, also after wait_for_packet_sent did the work
FlushLate ==
    /\ flush.pc = "idle" /\ flush.late
    /\ CloseThen([flush EXCEPT !.pc = "release", !.late = FALSE])

\* writelockrelease, if clean() has left a lock to release, and done_callback
FlushRelease ==
    /\ flush.pc \in {"release", "unlocked"}
    /\ flush.own => closer = "done"
    /\ lock' = IF flush.pc = "release" /\ ~cleaned THEN "free" ELSE lock
    /\ flush' = [flush EXCEPT !.pc = "idle", !.done = @ + 1]
    /\ UNCHANGED <<source, event, fmt, queue, swapped, wrt, sent, closing>>

Format == FormatCheck \/ FormatNext \/ FormatClear \/ FormatEncode \/ FormatLock
            \/ FormatFetch \/ FormatPut
Write == WriteCheck \/ WriteFetch \/ WriteGet \/ WriteAbort
Close == CloseDrain \/ CloseMark
Flush == FlushLock \/ FlushLockTimeout \/ FlushRetry \/ FlushGiveUp \/ FlushLast \/ FlushFetch
           \/ FlushPut \/ FlushSent \/ FlushLate \/ FlushRelease

Next ==
    \/ \E p \in Producers : QueuePacket(p) \/ source_has_more(p)
    \/ SourceCleanup
    \/ Format \/ FormatError
    \/ Write \/ WriteDone \/ WriteError
    \/ Close \/ Clean \/ ConnectionLost
    \/ FlushBegin \/ FlushRaises \/ Flush

Spec == Init /\ [][Next]_vars

\* The threads run and the timers fire.  A write may block for ever: the peer
\* need not read, and the connection need not be closed.
FairSpec ==
    /\ Spec
    /\ WF_vars(\E p \in Producers : source_has_more(p))
    /\ WF_vars(Format) /\ WF_vars(Write) /\ WF_vars(Close) /\ WF_vars(Clean)
    /\ WF_vars(Flush) /\ WF_vars(lost /\ MainLoopFree /\ ConnectionLost)

\* ... unless the peer reads
ReadingPeer == FairSpec /\ WF_vars(WriteDone)

----------------------------------------------------------------------------
(* Properties.                                                              *)

Packet == [id : 0..MaxPackets, of : Producers \cup {"none", "last", "marker"}]

TypeOK ==
    /\ packets \in [Producers -> Seq(Packet)]
    /\ appended \in 0..MaxPackets
    /\ signal \subseteq Producers
    /\ {sourceGone, event, swapped, closed, cleaned, lost} \subseteq BOOLEAN
    /\ fmt \in [pc : {"unborn", "check", "wait", "clear", "encode", "lock", "fetch", "put", "exit"},
               packet : Packet, more : BOOLEAN]
    /\ lock \in {"free", "format", "flush"}
    /\ queue \in Seq(Packet) /\ Len(queue) <= 1
    /\ wrt \in [pc : {"unborn", "check", "fetch", "get", "write", "exit"}, packet : Packet]
    /\ sent \in Seq(Packet)
    /\ closer \in {"no", "drain", "mark", "done"}
    /\ flush \in [pc : {"no", "lock", "queue", "raised", "fetch", "put", "idle", "release", "unlocked"},
                  own : BOOLEAN, retries : 0..FlushRetries, poll : BOOLEAN, late : BOOLEAN, done : 0..2]

Range1(s) == {s[i] : i \in 1..Len(s)}

\* every packet that has left the queues of the client connection, in order of progress
Downstream ==
    sent \o (IF wrt.pc = "write" THEN <<wrt.packet>> ELSE <<>>) \o queue
         \o (IF fmt.packet # NoPacket THEN <<fmt.packet>> ELSE <<>>)

\* what lies between producer p and the socket, and the packets of p in it
Line(p) == Downstream \o packets[p]
Ids(line, p) == {line[i].id : i \in {j \in 1..Len(line) : line[j].of = p}}
InOrder(line, p) ==
    \A i, j \in 1..Len(line) :
        i < j /\ line[i].of = p /\ line[j].of = p => line[i].id < line[j].id

\* While the connection is open and no packet failed to encode, the packets of one
\* producer are on their way to the socket in the order in which it queued them,
\* each of them once, though they pass through next_packet, the write lock and the
\* write queue between three threads.
NoneLostOrSwapped ==
    ~closed /\ ~lost =>
        /\ \A p \in Producers : InOrder(Line(p), p)
        /\ UNION {Ids(Line(p), p) : p \in Producers} = 1..appended

\* The packet given to flush_then_close (the disconnect message) is the last one
\* on the wire: the format thread cannot get the write lock in between.
LastIsLast == \A i \in 1..Len(sent) : sent[i] = Last => i = Len(sent)

\* The main loop waits for a place beside the end marker, and no write thread will
\* take that: close() has replaced the queue after raw_write has looked it up.
MainLoopStuck ==
    flush.pc = "put" /\ closer = "done" /\ queue = <<Marker>> /\ wrt.pc # "get"

\* flush_then_close closes the connection and calls done_callback, even if the
\* peer reads nothing ("then no matter what, we close the connection"), and whoever
\* else closes it meanwhile: unless the last packet cannot be encoded, or the
\* main loop is stuck, with the connection closed by another thread.
FlushCloses ==
    (flush.pc # "no") ~> \/ closed /\ flush.done > 0
                         \/ flush.pc = "raised"
                         \/ MainLoopStuck

\* The main loop gets out of flush_then_close.
FlushReturns == (flush.pc = "put") ~> (flush.pc # "put")

\* close() ends the write thread, which finds a marker, a packet or the exit queue,
\* and does not leave the format thread asleep: it may clear the event that close()
\* has set, but it looks at _closed between that and the next wait.
ThreadsStop == closed ~> (wrt.pc \in {"unborn", "exit"} /\ fmt.pc # "wait")

\* close() ends the queue based threads, the format thread too: a put() that
\* waits for room returns once terminate_queue_threads has emptied the queue.
PutReturns == closed ~> (fmt.pc # "put")

\* A packet queued for an open connection is sent without the help of a later one.
QueuedIsSent ==
    \A i \in 1..MaxPackets :
        (appended >= i) ~> (closed \/ sourceGone \/ \E k \in Range1(sent) : k.id = i)

FlushOver == flush.pc = "idle" /\ ~flush.poll /\ ~flush.late

\* Once flush_then_close is done with the write lock it has freed it.
LockIsFreed == FlushOver => lock # "flush"
=============================================================================
