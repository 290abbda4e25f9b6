---------------------------- MODULE SocketInput -----------------------------
(***************************************************************************)
(* The input side of a connection (xpra/net/protocol/socket_handler.py):   *)
(* the read thread puts buffers in a queue, the parse thread cuts them     *)
(* into frames (a header, a payload) and puts packets together from their  *)
(* frames; the main loop runs the timers that close the connection.        *)
(*                                                                         *)
(* A byte is its position in what the other end sends, so that a lost, a   *)
(* repeated or a misplaced one shows.                                      *)
(***************************************************************************)
EXTENDS Integers, Sequences, FiniteSets

CONSTANTS
    Streams,          \* what the other end may send (see Layout)
    HeaderSize,       \* HEADER_SIZE
    MaxRaw,           \* raw packets that are refused: 4
    MaxIndex,         \* packet indexes that are refused: 16
    MaxFirstSize,     \* what find_xpra_header takes for too big: 2 ** 16
    MaxSize,          \* max_packet_size
    AbsMaxSize,       \* abs_max_packet_size
    RaisedMaxSize,    \* the same, once the size of the desktop is known
    RaisedAbsMaxSize,
    ReadSize,         \* read_buffer_size
    QueueSize,        \* of the read queue
    MaxEmpty          \* bound: reads that return nothing though the connection is open

\* A stream s: s.noise bytes, and then frames, s.frames[f] from byte s.start[f] on; s.last[i]
\* is the last frame of packet i.  encode gives each large item of a packet a frame with the
\* item's index, before the rest, whose index is 0.  s.ssh: the noise is to be skipped.  s.looks:
\* the bytes where find_xpra_header sees the header of a main frame, not too big; it is there in
\* the headers, but other bytes may look like one.
Layout(s) ==
    LET count == Len(s.frames) IN
    /\ s.noise \in Nat /\ s.ssh \in BOOLEAN
    /\ s.frames \in Seq([index : Nat, size : Nat])
    \* frames follow each other
    /\ s.start \in [1..count + 1 -> Nat]
    /\ s.start[1] = s.noise + 1
    /\ \A f \in 1..count : s.start[f + 1] = s.start[f] + HeaderSize + s.frames[f].size
    /\ \A f \in 1..count, g \in 1..count + 1 :
          f < g => s.start[f] + HeaderSize + s.frames[f].size <= s.start[g]
    \* and so do packets
    /\ s.last \in Seq(1..count)
    /\ \A i, k \in 1..Len(s.last) : i < k => s.last[i] < s.last[k]
    /\ count > 0 => s.last # <<>> /\ s.last[Len(s.last)] = count
    /\ \A f \in 1..count : s.frames[f].index = 0 <=> \E i \in 1..Len(s.last) : s.last[i] = f
    \* an item has one frame
    /\ \A f, g \in 1..count :
          f < g /\ s.frames[f].index = s.frames[g].index
          => \E i \in 1..Len(s.last) : s.last[i] \in f..g - 1
    /\ s.looks \subseteq 1..s.start[count + 1] - 1
    /\ \A f \in 1..count : s.start[f] \in s.looks <=> s.frames[f].index = 0 /\ s.frames[f].size < MaxFirstSize
    \* what the code over ssh assumes: "that the initial packet is smaller than 64KB"
    \* (xpra/net/protocol/socket_handler.py:960), that it has one frame, and that nothing
    \* before it looks like a header
    /\ s.ssh => /\ count > 0 => s.start[1] \in s.looks
                /\ \A b \in s.looks : s.start[1] <= b

ASSUME StreamAssumption == \A s \in Streams : Layout(s)

ASSUME InputAssumption ==
    /\ HeaderSize \in Nat \ {0} /\ MaxRaw \in Nat \ {0} /\ MaxIndex \in Nat \ {0}
    /\ MaxFirstSize \in Nat /\ MaxSize \in Nat /\ AbsMaxSize \in Nat /\ MaxSize <= AbsMaxSize
    /\ RaisedMaxSize \in Nat /\ RaisedAbsMaxSize \in Nat /\ MaxSize <= RaisedMaxSize
    /\ ReadSize \in Nat \ {0} /\ QueueSize \in Nat \ {0} /\ MaxEmpty \in Nat

VARIABLES
    stream,     \* one of Streams
    sent,       \* packets that the other end has sent
    ended,      \* it has closed its end
    got,        \* bytes that were read
    reader,     \* the read thread: "read", "put", "count", "exited"
    hand,       \* the buffer that it is about to put
    eofCheck,   \* the timer of check_eof (eof_pending): "none", "quiet" while
                \* input_raw_packetcount is what it was when it was armed, "read" after
    empties,    \* reads that returned nothing before the end
    readQueue,  \* _read_queue: buffers, and the empty marker <<>>
    parser,     \* the parse thread: "none", "get", "parse", "handle", "exited"
    waitHeader, \* wait_for_header
    unparsed,   \* the bytes in read_buffers, in order,
    cuts,       \* and where each of these buffers ends
    header,     \* header
    frame,      \* the frame whose header was parsed, 0 when payload_size < 0
    raws,       \* raw_packets: the payload of each index
    parsed,     \* the packets put together, input_packetcount of them
    handled,    \* how many of these were given to process_packet_cb
    raised,     \* the limits of packet sizes have been raised
    sizeChecks, \* check_packet_size timers
    hangups,    \* why a call to close() is scheduled
    closed,     \* _closed
    stolen      \* steal_connection: <<the bytes that the new owner has>>

inputReader == <<got, reader, hand, empties>>
inputParser == <<waitHeader, unparsed, cuts, header, frame, raws, parsed, handled>>
inputPeer == <<stream, sent, ended>>
inputVars == <<inputPeer, inputReader, inputParser, eofCheck, readQueue, parser, raised,
               sizeChecks, hangups, closed, stolen>>

----------------------------------------------------------------------------
(* The bytes.                                                               *)

Frames == stream.frames
Start(f) == stream.start[f]
FirstBytes == {Start(f) : f \in 1..Len(Frames)}
Interval(first, count) == [i \in 1..count |-> first + i - 1]
HeaderOf(f) == Interval(Start(f), HeaderSize)
PayloadOf(f) == Interval(Start(f) + HeaderSize, Frames[f].size)

\* the last frame, and the last byte, of each packet
Packets == Len(stream.last)
LastFrame(i) == IF i = 0 THEN 0 ELSE stream.last[i]
EndOf(i) == IF i = 0 THEN 0 ELSE Start(LastFrame(i) + 1) - 1
Total == EndOf(Packets)

\* what the parser should make of the frames of a packet: its parts, and all of it
Content(main, parts) == [main |-> main, raws |-> parts]
FrameOf(j, frames) == CHOOSE f \in frames : Frames[f].index = j
RawsOf(frames) == [j \in {Frames[f].index : f \in frames} |-> PayloadOf(FrameOf(j, frames))]
PacketContent(i) ==
    Content(PayloadOf(LastFrame(i)), RawsOf(LastFrame(i - 1) + 1..LastFrame(i) - 1))

InputInit ==
    /\ stream \in Streams
    /\ sent = 0 /\ ended = FALSE
    /\ got = 0 /\ reader = "read" /\ hand = <<>>
    /\ eofCheck = "none" /\ empties = 0
    /\ readQueue = <<>> /\ parser = "none"
    /\ waitHeader = stream.ssh
    /\ unparsed = <<>> /\ cuts = {} /\ header = <<>> /\ frame = 0 /\ raws = RawsOf({})
    /\ parsed = <<>> /\ handled = 0
    /\ raised = FALSE /\ sizeChecks = {}
    /\ hangups = {} /\ closed = FALSE /\ stolen = <<>>

(* The other end sends packets, and closes the connection.                  *)

\* its write thread sends a packet at a time, the noise before the first
PeerSends ==
    /\ ~ended /\ sent < Packets
    /\ sent' = sent + 1
    /\ UNCHANGED <<stream, ended, inputReader, inputParser, eofCheck, readQueue, parser, raised,
                   sizeChecks, hangups, closed, stolen>>

PeerCloses ==
    /\ ~ended
    /\ ended' = TRUE
    /\ UNCHANGED <<stream, sent, inputReader, inputParser, eofCheck, readQueue, parser, raised,
                   sizeChecks, hangups, closed, stolen>>

(* The read thread.                                                         *)

\* _read gets any number of bytes of those that are there
Read ==
    /\ reader = "read" /\ ~closed
    /\ \E count \in 1..ReadSize :
        /\ got + count <= EndOf(sent)
        /\ hand' = Interval(got + 1, count)
        /\ got' = got + count
    /\ reader' = "put"
    /\ UNCHANGED <<inputPeer, empties, inputParser, eofCheck, readQueue, parser,
                   raised, sizeChecks, hangups, closed, stolen>>

\* _read gets nothing: the end of the stream, or not (ssl)
ReadNothing ==
    /\ reader = "read" /\ ~closed /\ eofCheck = "none"
    /\ \/ ended /\ got = EndOf(sent) /\ UNCHANGED empties
       \/ ~ended /\ empties < MaxEmpty /\ empties' = empties + 1
    /\ eofCheck' = "quiet"
    /\ UNCHANGED <<inputPeer, got, reader, hand, inputParser, readQueue, parser,
                   raised, sizeChecks, hangups, closed, stolen>>

\* read_queue_put, which is what _process_read is, whatever _read_queue_put has become: it
\* starts the parse thread, and waits while the queue is full
Put ==
    /\ reader = "put" /\ (closed \/ Len(readQueue) < QueueSize)
    /\ readQueue' = IF closed THEN readQueue ELSE Append(readQueue, hand)
    /\ hand' = <<>>
    /\ parser' = IF parser = "none" /\ ~closed THEN "get" ELSE parser
    /\ reader' = "count"
    /\ UNCHANGED <<inputPeer, got, empties, inputParser, eofCheck, raised,
                   sizeChecks, hangups, closed, stolen>>

Count ==
    /\ reader = "count"
    /\ eofCheck' = IF eofCheck = "quiet" THEN "read" ELSE eofCheck
    /\ reader' = "read"
    /\ UNCHANGED <<inputPeer, got, hand, empties, inputParser, readQueue, parser,
                   raised, sizeChecks, hangups, closed, stolen>>

\* an error of the connection: it is lost, whatever the parse thread has yet to parse
ReadFails ==
    /\ reader = "read" /\ ended /\ ~closed
    /\ reader' = "exited"
    /\ hangups' = hangups \cup {"error"}
    /\ UNCHANGED <<inputPeer, got, hand, empties, inputParser, eofCheck, readQueue, parser, raised,
                   sizeChecks, closed, stolen>>

ReaderExits ==
    /\ reader = "read" /\ closed
    /\ reader' = "exited"
    /\ UNCHANGED <<inputPeer, got, hand, empties, inputParser, eofCheck, readQueue,
                   parser, raised, sizeChecks, hangups, closed, stolen>>

(* The main loop.                                                           *)

\* mutant: without the empty marker
CloseSilently ==
    /\ closed' = TRUE
    /\ readQueue' = <<>>

CloseInput ==
    /\ closed' = TRUE
    /\ readQueue' = <<<<>>>>

\* close, by a timer or queued by the parse thread; terminate_queue_threads replaces the
\* queue with one that holds empty markers only, and puts one in the old one
CloseNow ==
    /\ hangups # {} /\ ~closed
    /\ CloseInput
    /\ UNCHANGED <<inputPeer, inputReader, inputParser, eofCheck, parser, raised, sizeChecks,
                   hangups, stolen>>

\* check_eof: closes the connection in a second if nothing was read since
CheckEof ==
    /\ eofCheck # "none"
    /\ eofCheck' = "none"
    /\ hangups' = IF ~closed /\ eofCheck = "quiet" THEN hangups \cup {"eof"} ELSE hangups
    /\ UNCHANGED <<inputPeer, inputReader, inputParser, readQueue, parser, raised, sizeChecks,
                   closed, stolen>>

\* set_max_packet_size, with the size of the desktop, from the first packet
RaiseMaxSize ==
    /\ handled > 0 /\ ~raised
    /\ raised' = TRUE
    /\ UNCHANGED <<inputPeer, inputReader, inputParser, eofCheck, readQueue, parser, sizeChecks,
                   hangups, closed, stolen>>
MaxNow == IF raised THEN RaisedMaxSize ELSE MaxSize
AbsMaxNow == IF raised THEN RaisedAbsMaxSize ELSE AbsMaxSize

\* check_packet_size, a second after the header: the packet may have been handled
CheckPacketSize(f) ==
    /\ f \in sizeChecks
    /\ sizeChecks' = sizeChecks \ {f}
    /\ hangups' = IF ~closed /\ Frames[f].size > MaxNow THEN hangups \cup {"invalid"} ELSE hangups
    /\ UNCHANGED <<inputPeer, inputReader, inputParser, eofCheck, readQueue, parser, raised,
                   closed, stolen>>

(* The parse thread.                                                        *)

\* invalid, gibberish, or an exception: the parse thread ends, and so does the connection
HangUp(reason) ==
    /\ parser' = "exited"
    /\ hangups' = hangups \cup {reason}

\* the first position in bytes where find_xpra_header sees the header of a main frame, or 0
FoundAt(bytes) ==
    LET found == {i \in 1..Len(bytes) - HeaderSize + 1 : bytes[i] \in stream.looks}
    IN IF found = {} THEN 0 ELSE CHOOSE i \in found : \A j \in found : i <= j

\* the next buffer, which waits to be parsed or for more; over ssh, until a header is found
GetBuffer ==
    /\ parser = "get" /\ readQueue # <<>> /\ Head(readQueue) # <<>>
    /\ readQueue' = Tail(readQueue)
    /\ LET joined == unparsed \o Head(readQueue)
           pos == FoundAt(joined)
       IN IF ~waitHeader
          THEN /\ unparsed' = joined /\ cuts' = cuts \cup {Len(joined)}
               /\ parser' = "parse"
               /\ UNCHANGED waitHeader
          ELSE IF pos = 0
          THEN unparsed' = joined /\ cuts' = {Len(joined)} /\ UNCHANGED <<parser, waitHeader>>
          ELSE /\ unparsed' = SubSeq(joined, pos, Len(joined))
               /\ cuts' = {Len(joined) - pos + 1}
               /\ waitHeader' = FALSE
               /\ parser' = "parse"
    /\ UNCHANGED <<inputPeer, inputReader, header, frame, raws, parsed, handled, eofCheck, raised,
                   sizeChecks, hangups, closed, stolen>>

\* the empty marker
ParserExits ==
    /\ parser = "get" /\ readQueue # <<>> /\ Head(readQueue) = <<>>
    /\ parser' = "exited"
    /\ UNCHANGED <<inputPeer, inputReader, inputParser, eofCheck, readQueue, raised, sizeChecks,
                   hangups, closed, stolen>>

\* there is nothing left to parse, or the rest of a payload has yet to come
NeedsMore ==
    /\ parser = "parse"
    /\ unparsed = <<>> \/ (frame # 0 /\ Len(unparsed) < Frames[frame].size)
    /\ parser' = "get"
    /\ UNCHANGED <<inputPeer, inputReader, inputParser, eofCheck, readQueue, raised, sizeChecks,
                   hangups, closed, stolen>>

\* the length of the first of read_buffers, if there is one
FirstLength == {c \in cuts : \A other \in cuts : c <= other}

\* the first count bytes leave the buffers
Drop(count) == unparsed' = SubSeq(unparsed, count + 1, Len(unparsed))
CutsAfter(count) == {c - count : c \in {c \in cuts : c > count}}

\* a first byte that is no header: gibberish, or a client of another protocol whose
\* connection the server takes over (xpra/server/core.py, invalid_header) with that buffer
InvalidHeader ==
    /\ parser = "parse" /\ unparsed # <<>> /\ frame = 0
    /\ header = <<>> /\ unparsed[1] \notin FirstBytes
    /\ \/ HangUp("gibberish") /\ UNCHANGED <<readQueue, closed, stolen>>
       \/ /\ ~closed /\ parser' = "exited" /\ CloseInput
          /\ \E length \in FirstLength : stolen' = <<SubSeq(unparsed, 1, length)>>
          /\ UNCHANGED hangups
    /\ UNCHANGED <<inputPeer, inputReader, inputParser, eofCheck, raised, sizeChecks>>

\* the frame that a complete header is parsed as: its bytes tell if they are in place
Unpack(bytes) == {f \in 1..Len(Frames) : HeaderOf(f) = bytes}
Acceptable(f) == Frames[f].index < MaxIndex /\ Frames[f].size \in 1..AbsMaxNow

\* the header is complete, and there is more
ParseHeader(bytes) ==
    \/ \E f \in Unpack(bytes) :
        /\ Acceptable(f)
        /\ frame' = f
        /\ sizeChecks' = IF Frames[f].size > MaxNow THEN sizeChecks \cup {f} ELSE sizeChecks
        /\ UNCHANGED <<parser, hangups>>
    \/ /\ \A f \in Unpack(bytes) : ~Acceptable(f)
       /\ HangUp("gibberish")
       /\ UNCHANGED <<frame, sizeChecks>>

\* the part of the header that the first buffer has
ReadHeader ==
    /\ parser = "parse" /\ unparsed # <<>> /\ frame = 0
    /\ header # <<>> \/ unparsed[1] \in FirstBytes
    /\ \E length \in FirstLength :
        LET wanted == HeaderSize - Len(header)
            count == IF length <= wanted THEN length ELSE wanted
            bytes == header \o SubSeq(unparsed, 1, count)
        IN /\ header' = bytes
           /\ Drop(count)
           /\ cuts' = CutsAfter(count)
           /\ IF length <= wanted THEN UNCHANGED <<frame, sizeChecks, parser, hangups>>
              ELSE ParseHeader(bytes)
    /\ UNCHANGED <<inputPeer, inputReader, waitHeader, raws, parsed, handled, eofCheck, readQueue,
                   raised, closed, stolen>>

Payload == SubSeq(unparsed, 1, Frames[frame].size)

\* mutant: what is left of the joined buffers is dropped
TakePayloadJoined ==
    /\ parser = "parse" /\ frame # 0
    /\ LET size == Frames[frame].size IN
       /\ Len(unparsed) >= size
       /\ IF \A c \in cuts : c >= size
          THEN Drop(size) /\ cuts' = CutsAfter(size)
          ELSE unparsed' = <<>> /\ cuts' = {}
    /\ header' = <<>> /\ frame' = 0

\* the payload is cut out of the first buffer, or of all of them, joined
TakePayload ==
    /\ parser = "parse" /\ frame # 0
    /\ LET size == Frames[frame].size IN
       /\ Len(unparsed) >= size
       /\ Drop(size)
       /\ cuts' = IF \A c \in cuts : c >= size THEN CutsAfter(size)
                  ELSE {Len(unparsed) - size} \ {0}
    /\ header' = <<>> /\ frame' = 0

\* a raw part of a packet is stored
ParseRaw ==
    /\ TakePayload
    /\ ~closed
    /\ LET index == Frames[frame].index IN
       /\ index > 0
       /\ raws' = [j \in DOMAIN raws \cup {index} |->
                      IF j \in DOMAIN raws THEN raws[j] ELSE Payload]
       /\ IF index \in DOMAIN raws \/ Cardinality(DOMAIN raws') >= MaxRaw THEN HangUp("invalid")
          ELSE UNCHANGED <<parser, hangups>>
    /\ UNCHANGED <<inputPeer, inputReader, waitHeader, parsed, handled, eofCheck, readQueue,
                   raised, sizeChecks, closed, stolen>>

\* mutant: the raw packets stay
ParsePacketKeeps ==
    /\ TakePayload
    /\ ~closed
    /\ Frames[frame].index = 0
    /\ parsed' = Append(parsed, Content(Payload, raws))
    /\ raws' = raws
    /\ parser' = "handle"
    /\ UNCHANGED <<inputPeer, inputReader, waitHeader, handled, eofCheck, readQueue, raised,
                   sizeChecks, hangups, closed, stolen>>

\* the last part: the packet is complete
ParsePacket ==
    /\ TakePayload
    /\ ~closed
    /\ Frames[frame].index = 0
    /\ parsed' = Append(parsed, Content(Payload, raws))
    /\ raws' = RawsOf({})
    /\ parser' = "handle"
    /\ UNCHANGED <<inputPeer, inputReader, waitHeader, handled, eofCheck, readQueue, raised,
                   sizeChecks, hangups, closed, stolen>>

\* process_packet_cb: _closed is not tested again, and may have been set since
HandlePacket ==
    /\ parser = "handle"
    /\ handled' = handled + 1
    /\ parser' = "parse"
    /\ UNCHANGED <<inputPeer, inputReader, waitHeader, unparsed, cuts, header, frame, raws, parsed,
                   eofCheck, readQueue, raised, sizeChecks, hangups, closed, stolen>>

\* _closed is tested before the payload is used
ParseClosed ==
    /\ parser = "parse" /\ frame # 0 /\ closed
    /\ parser' = "exited"
    /\ UNCHANGED <<inputPeer, inputReader, inputParser, eofCheck, readQueue, raised, sizeChecks,
                   hangups, closed, stolen>>

ReadThread == Read \/ ReadNothing \/ Put \/ Count \/ ReadFails \/ ReaderExits
ParseThread == GetBuffer \/ ParserExits \/ NeedsMore \/ InvalidHeader \/ ReadHeader
               \/ ParseRaw \/ ParsePacket \/ HandlePacket \/ ParseClosed
InputNext == PeerSends \/ PeerCloses \/ ReadThread \/ ParseThread
             \/ CloseNow \/ CheckEof \/ RaiseMaxSize \/ \E f \in sizeChecks : CheckPacketSize(f)

InputSpec == InputInit /\ [][InputNext]_inputVars

\* the threads and the main loop go on; the other end may stop at any time
InputFairSpec ==
    /\ InputSpec
    /\ WF_inputVars(ReadThread) /\ WF_inputVars(ParseThread)
    /\ WF_inputVars(CloseNow) /\ WF_inputVars(CheckEof)
    /\ WF_inputVars(\E f \in sizeChecks : CheckPacketSize(f))

----------------------------------------------------------------------------
(* Properties.                                                              *)

Buffers == Seq(1..Total)

\* The variables have their types.
InputTypeOK ==
    /\ stream \in Streams /\ sent \in 0..Packets /\ got \in 0..EndOf(sent) /\ ended \in BOOLEAN
    /\ reader \in {"read", "put", "count", "exited"} /\ hand \in Buffers
    /\ eofCheck \in {"none", "quiet", "read"} /\ empties \in 0..MaxEmpty
    /\ readQueue \in Seq(Buffers) /\ Len(readQueue) <= QueueSize
    /\ parser \in {"none", "get", "parse", "handle", "exited"} /\ waitHeader \in BOOLEAN
    /\ unparsed \in Buffers /\ cuts \subseteq 1..Len(unparsed)
    /\ unparsed # <<>> => Len(unparsed) \in cuts
    /\ header \in Buffers /\ Len(header) <= HeaderSize
    /\ frame \in 0..Len(Frames)
    /\ DOMAIN raws \subseteq 1..MaxIndex - 1 /\ Cardinality(DOMAIN raws) <= MaxRaw
    /\ \A j \in DOMAIN raws : raws[j] \in Buffers
    /\ parsed \in Seq({PacketContent(i) : i \in 1..Packets}) /\ Len(parsed) <= sent
    /\ handled = IF parser = "handle" THEN Len(parsed) - 1 ELSE Len(parsed)
    /\ raised \in BOOLEAN /\ sizeChecks \subseteq 1..Len(Frames)
    /\ hangups \subseteq {"eof", "error", "invalid", "gibberish"} /\ closed \in BOOLEAN
    /\ stolen \in Seq(Buffers) /\ Len(stolen) <= 1

\* Packets are handled whole, once and in order, however the reads cut them, and all of
\* those that were sent are, until the connection is closed; after that, one at most, which
\* the parse thread had when it found the connection open.
Channel == INSTANCE PacketChannel WITH
    packets <- [i \in 1..Packets |-> PacketContent(i)],
    taken <- parsed,
    open <- ~closed
InputImplementsChannel == Channel!Spec

\* a packet that respects the limits, before and after they are raised
WellFormed(i) ==
    /\ LastFrame(i) - LastFrame(i - 1) <= MaxRaw
    /\ \A f \in LastFrame(i - 1) + 1..LastFrame(i) :
        /\ Frames[f].index < MaxIndex
        /\ Frames[f].size \in 1..MaxSize /\ Frames[f].size <= RaisedAbsMaxSize

\* A stream that respects the limits is never refused, however the reads cut it, and
\* whatever precedes it over ssh without looking like a header (see Layout).
OnlyBadInputRefused ==
    hangups \cap {"invalid", "gibberish"} # {} =>
        \/ stream.noise > 0 /\ ~stream.ssh
        \/ \E i \in 1..Packets : ~WellFormed(i)

\* The end of the stream closes the connection, whatever the parse thread is waiting for,
\* and no thread stays behind a connection that is closed: neither the read thread with a
\* queue that is full, nor the parse thread with one that is empty.
EofClosesAll ==
    ended ~> closed /\ reader = "exited" /\ parser \in {"none", "exited"}

\* steal_connection: "to ensure that no packets get lost"
\* (xpra/net/protocol/socket_handler.py:1385): the new owner of the connection has
\* everything that was read from it.
StealLosesNothing == stolen # <<>> => Len(stolen[1]) = got
=============================================================================
