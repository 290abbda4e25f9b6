------------------------- MODULE OutputPath_proofs --------------------------
(***************************************************************************)
(* The packet given to flush_then_close, for any number of packets and of  *)
(* looks at the write queue: while the connection is open nothing is       *)
(* written after it.                                                       *)
(*                                                                         *)
(* The argument is about the write lock: from the moment it has the lock,  *)
(* flush_then_close keeps it until it has closed the connection, so that   *)
(* the format thread, which puts packets in the queue with the lock held,  *)
(* puts none behind the last one.                                          *)
(*                                                                         *)
(* And the packets of a producer, for any number of them: until the        *)
(* connection is closed or lost they are on their way in the order in      *)
(* which they were queued, none missing and none twice.  The argument is   *)
(* about five places, from what is sent back to the lists: the packets of  *)
(* one place are before those of the next, and a step moves a packet from  *)
(* the front of a place to the end of the next.                            *)
(*                                                                         *)
(* The encode thread of the same connection has the last part.             *)
(***************************************************************************)
EXTENDS OutputPath, EncodeQueue, SequenceTheorems, FiniteSetTheorems, TLAPS

One(b) == IF b THEN 1 ELSE 0

\* done_callback is called for the timer of 5s and for wait_for_packet_sent, or once
Calls ==
    /\ flush.pc \in {"no", "lock", "queue", "raised", "fetch", "put"} =>
         flush.done = 0 /\ ~flush.poll /\ ~flush.late
    /\ flush.pc \in {"release", "unlocked"} => flush.done + One(flush.poll) + One(flush.late) <= 1
    /\ flush.pc = "idle" => flush.done + One(flush.poll) + One(flush.late) <= 2

\* packets on their way to the write queue
Ordinary == Packet \ {Last}
OnlyOrdinary == packets \in [Producers -> Seq(Ordinary)] /\ fmt.packet \in Ordinary

Holds(q) == \E i \in 1..Len(q) : q[i] = Last

\* who may put a packet in the write queue
LockKept ==
    /\ flush.pc \in {"no", "lock", "queue", "raised", "fetch", "put", "idle"} /\ closer = "no"
    /\ flush.pc \in {"queue", "raised", "fetch", "put", "idle"} => lock = "flush"
    /\ fmt.pc \in {"fetch", "put"} => lock = "format"

\* nothing is behind the last packet
NothingBehind ==
    /\ flush.pc # "idle" => ~Holds(queue) /\ ~Holds(sent) /\ wrt.packet # Last
    /\ wrt.packet = Last => queue = <<>>
    /\ Holds(sent) => queue = <<>> /\ wrt.pc # "write"

IndInv ==
    /\ TypeOK /\ Calls /\ OnlyOrdinary
    /\ ~closed => LockKept /\ NothingBehind
    /\ LastIsLast

----------------------------------------------------------------------------
(* Packets and sequences.                                                   *)

LEMMA PacketTypes ==
    /\ NoPacket \in Packet /\ Marker \in Packet /\ Last \in Packet
    /\ NoPacket # Last /\ Marker # Last /\ NoPacket \in Ordinary
    /\ \A id \in 0..MaxPackets, p \in Producers : [id |-> id, of |-> p] \in Ordinary
<1>1. 0 \in 0..MaxPackets
  BY OutputAssumption
<1>2. NoPacket \in Packet /\ Marker \in Packet /\ Last \in Packet
  BY <1>1 DEF NoPacket, Marker, Last, Packet
<1>3. NoPacket.of = "none" /\ Marker.of = "marker" /\ Last.of = "last"
  BY DEF NoPacket, Marker, Last
<1>4. NoPacket # Last /\ Marker # Last
  BY <1>3
<1>5. ASSUME NEW id \in 0..MaxPackets, NEW p \in Producers
      PROVE  [id |-> id, of |-> p] \in Ordinary
  <2>1. [id |-> id, of |-> p] \in Packet /\ [id |-> id, of |-> p].of = p
    BY DEF Packet
  <2>2. p # "last"
    BY DEF Producers
  <2> QED
    BY <1>3, <2>1, <2>2 DEF Ordinary
<1> QED
  BY <1>2, <1>4, <1>5 DEF Ordinary

LEMMA OrdinaryIsPacket ==
    /\ Ordinary \subseteq Packet /\ Last \notin Ordinary
    /\ \A s : s \in Seq(Ordinary) => s \in Seq(Packet)
<1>1. Ordinary \subseteq Packet /\ Last \notin Ordinary
  BY DEF Ordinary
<1> QED
  BY <1>1

\* the write queue has no place for a second packet
LEMMA QueueShape ==
    ASSUME NEW q \in Seq(Packet), Len(q) <= 1, q # <<>>
    PROVE  /\ Head(q) \in Packet /\ Tail(q) = <<>> /\ Tail(q) \in Seq(Packet)
           /\ Len(Tail(q)) = 0
           /\ Holds(q) <=> Head(q) = Last
<1>1. Head(q) \in Packet /\ Tail(q) \in Seq(Packet) /\ Len(q) = 1 /\ Len(Tail(q)) = 0
  <2>1. Len(q) = 1
    <3>1. \A n \in Nat \ {0} : n <= 1 => n = 1
      OBVIOUS
    <3>2. Len(q) \in Nat \ {0}
      BY EmptySeq
    <3> QED
      BY <3>1, <3>2, Zenon
  <2> QED
    BY <2>1, HeadTailProperties
<1>2. Tail(q) = <<>>
  BY <1>1, EmptySeq
<1>3. Head(q) = q[1] /\ \A i \in 1..Len(q) : i = 1
  BY <1>1
<1> QED
  BY <1>1, <1>2, <1>3 DEF Holds

LEMMA EmptyHoldsNone == ~Holds(<<>>) /\ <<>> \in Seq(Packet) /\ Len(<<>>) = 0
  BY DEF Holds

LEMMA OneInQueue ==
    ASSUME NEW k \in Packet
    PROVE  /\ <<k>> \in Seq(Packet) /\ Len(<<k>>) = 1
           /\ Holds(<<k>>) <=> k = Last
<1>1. <<k>> \in Seq(Packet) /\ Len(<<k>>) = 1 /\ <<k>>[1] = k
  OBVIOUS
<1> QED
  BY <1>1 DEF Holds

----------------------------------------------------------------------------
(* Types and calls: the steps that only say where a thread is.              *)

FormatPcs == {"unborn", "check", "wait", "clear", "encode", "lock", "fetch", "put", "exit"}
WritePcs == {"unborn", "check", "fetch", "get", "write", "exit"}
FlushPcs == {"no", "lock", "queue", "raised", "fetch", "put", "idle", "release", "unlocked"}
FormatStates == [pc : FormatPcs, packet : Packet, more : BOOLEAN]
WriteStates == [pc : WritePcs, packet : Packet]
FlushStates == [pc : FlushPcs, own : BOOLEAN, retries : 0..FlushRetries, poll : BOOLEAN,
                late : BOOLEAN, done : 0..2]

\* the types, a variable at a time
LEMMA TypeParts ==
    TypeOK <=> /\ packets \in [Producers -> Seq(Packet)] /\ appended \in 0..MaxPackets
               /\ signal \subseteq Producers
               /\ sourceGone \in BOOLEAN /\ event \in BOOLEAN /\ swapped \in BOOLEAN
               /\ closed \in BOOLEAN /\ cleaned \in BOOLEAN /\ lost \in BOOLEAN
               /\ fmt \in FormatStates /\ lock \in {"free", "format", "flush"}
               /\ queue \in Seq(Packet) /\ Len(queue) <= 1
               /\ wrt \in WriteStates /\ sent \in Seq(Packet)
               /\ closer \in {"no", "drain", "mark", "done"}
               /\ flush \in FlushStates
  BY DEF TypeOK, FormatStates, FormatPcs, WriteStates, WritePcs, FlushStates, FlushPcs

LEMMA TypePartsPrime ==
    TypeOK' <=> /\ packets' \in [Producers -> Seq(Packet)] /\ appended' \in 0..MaxPackets
                /\ signal' \subseteq Producers
                /\ sourceGone' \in BOOLEAN /\ event' \in BOOLEAN /\ swapped' \in BOOLEAN
                /\ closed' \in BOOLEAN /\ cleaned' \in BOOLEAN /\ lost' \in BOOLEAN
                /\ fmt' \in FormatStates /\ lock' \in {"free", "format", "flush"}
                /\ queue' \in Seq(Packet) /\ Len(queue') <= 1
                /\ wrt' \in WriteStates /\ sent' \in Seq(Packet)
                /\ closer' \in {"no", "drain", "mark", "done"}
                /\ flush' \in FlushStates
  BY DEF TypeOK, FormatStates, FormatPcs, WriteStates, WritePcs, FlushStates, FlushPcs

LEMMA AtTypes ==
    /\ \A pc \in FormatPcs : FormatAt(pc) \in FormatStates /\ FormatAt(pc).pc = pc
                              /\ FormatAt(pc).packet \in Ordinary
    /\ \A pc \in WritePcs : WriteAt(pc) \in WriteStates /\ WriteAt(pc).pc = pc
                             /\ WriteAt(pc).packet # Last
<1>1. NoPacket \in Packet /\ NoPacket \in Ordinary /\ NoPacket # Last
  BY PacketTypes
<1> QED
  BY <1>1 DEF FormatAt, FormatStates, WriteAt, WriteStates

\* Steps of the producers and of the format thread that are not about the lock.
LEMMA UpstreamKeeps ==
    ASSUME IndInv, UNCHANGED <<lock, queue, wrt, sent, flush, closed, closer>>,
           TypeOK', OnlyOrdinary', fmt'.pc \in {"fetch", "put"} => fmt.pc \in {"fetch", "put"}
    PROVE  IndInv'
<1>1. Calls'
  BY DEF IndInv, Calls
<1>2. ~closed' => LockKept' /\ NothingBehind'
  BY DEF IndInv, LockKept, NothingBehind, Holds
<1>3. LastIsLast'
  BY DEF IndInv, LastIsLast
<1> QED
  BY <1>1, <1>2, <1>3 DEF IndInv

LEMMA QueuePacketKeeps ==
    ASSUME IndInv, NEW p \in Producers, QueuePacket(p)
    PROVE  IndInv'
<1> DEFINE k == [id |-> appended + 1, of |-> p]
<1>1. /\ UNCHANGED <<sourceGone, event, fmt, lock, queue, swapped, wrt, sent, flush, closing>>
      /\ appended < MaxPackets /\ appended' = appended + 1
      /\ packets' = [packets EXCEPT ![p] = Append(packets[p], k)]
      /\ signal' = signal \cup {p}
  BY DEF QueuePacket
<1>2. TypeOK /\ OnlyOrdinary
  BY DEF IndInv
<1>3. appended + 1 \in 0..MaxPackets
  BY <1>1, <1>2, OutputAssumption DEF TypeOK
<1>4. k \in Ordinary
  BY <1>3, PacketTypes
<1> HIDE DEF k
<1>5. Append(packets[p], k) \in Seq(Ordinary)
  BY <1>2, <1>4, AppendProperties DEF OnlyOrdinary
<1>6. packets' \in [Producers -> Seq(Ordinary)]
  BY <1>1, <1>2, <1>5 DEF OnlyOrdinary
<1>7. packets' \in [Producers -> Seq(Packet)]
  BY <1>6, OrdinaryIsPacket
<1>8. TypeOK'
  BY <1>1, <1>2, <1>3, <1>7, TypeParts, TypePartsPrime DEF closing
<1>9. OnlyOrdinary'
  BY <1>1, <1>2, <1>6 DEF OnlyOrdinary
<1> QED
  BY <1>1, <1>8, <1>9, UpstreamKeeps DEF closing

LEMMA MoreKeeps ==
    ASSUME IndInv, NEW p \in Producers, source_has_more(p)
    PROVE  IndInv'
<1>1. /\ UNCHANGED <<packets, appended, sourceGone, lock, queue, swapped, wrt, sent, flush, closing>>
      /\ signal' \subseteq signal
      /\ event' = event \/ event' = TRUE
      /\ fmt' = fmt \/ fmt' = FormatAt("check")
  BY DEF source_has_more
<1>2. TypeOK /\ OnlyOrdinary
  BY DEF IndInv
<1>3. "check" \in FormatPcs
  BY DEF FormatPcs
<1>4. TypeOK'
  BY <1>1, <1>2, <1>3, AtTypes, TypeParts, TypePartsPrime DEF closing
<1>5. OnlyOrdinary' /\ (fmt'.pc \in {"fetch", "put"} => fmt.pc \in {"fetch", "put"})
  BY <1>1, <1>2, <1>3, AtTypes DEF OnlyOrdinary
<1> QED
  BY <1>1, <1>4, <1>5, UpstreamKeeps DEF closing

\* the format thread goes elsewhere, with its packet or with none
LEMMA FormatGoes ==
    ASSUME IndInv, FormatCheck \/ FormatClear \/ FormatEncode \/ FormatError \/ SourceCleanup
    PROVE  IndInv'
<1>1. /\ UNCHANGED <<packets, appended, signal, lock, queue, swapped, wrt, sent, flush, closed,
                     closer, cleaned>>
      /\ sourceGone' = sourceGone \/ sourceGone' = TRUE
      /\ event' \in {event, event /\ fmt.more}
      /\ lost' \in {lost, lost \/ ~closed}
  BY DEF FormatCheck, FormatClear, FormatEncode, FormatError, SourceCleanup, source, closing
<1>2. TypeOK /\ OnlyOrdinary
  BY DEF IndInv
<1>3. \/ fmt' = fmt
      \/ \E pc \in {"check", "wait", "exit"} : fmt' = FormatAt(pc)
      \/ fmt' = [fmt EXCEPT !.pc = "encode", !.more = FALSE]
      \/ fmt' = [fmt EXCEPT !.pc = "lock"]
  BY DEF FormatCheck, FormatClear, FormatEncode, FormatError, SourceCleanup
<1>4. {"check", "wait", "exit", "encode", "lock"} \subseteq FormatPcs
  BY DEF FormatPcs
<1>5. fmt \in FormatStates
  BY <1>2, TypeParts
<1>6. /\ fmt' \in FormatStates /\ fmt'.packet \in Ordinary
      /\ fmt'.pc \in {"fetch", "put"} => fmt.pc \in {"fetch", "put"}
  <2>1. CASE \E pc \in {"check", "wait", "exit"} : fmt' = FormatAt(pc)
    BY <1>4, <2>1, AtTypes
  <2>2. CASE fmt' = fmt
    BY <1>2, <1>5, <2>2 DEF OnlyOrdinary
  <2>3. CASE fmt' = [fmt EXCEPT !.pc = "encode", !.more = FALSE]
    BY <1>2, <1>4, <1>5, <2>3 DEF OnlyOrdinary, FormatStates
  <2>4. CASE fmt' = [fmt EXCEPT !.pc = "lock"]
    BY <1>2, <1>4, <1>5, <2>4 DEF OnlyOrdinary, FormatStates
  <2> QED
    BY <1>3, <2>1, <2>2, <2>3, <2>4
<1>7. event' \in BOOLEAN /\ lost' \in BOOLEAN /\ sourceGone' \in BOOLEAN
  <2>1. event \in BOOLEAN /\ lost \in BOOLEAN /\ sourceGone \in BOOLEAN
    BY <1>2, TypeParts
  <2> QED
    BY <1>1, <2>1
<1>8. TypeOK'
  BY <1>1, <1>2, <1>6, <1>7, TypeParts, TypePartsPrime
<1>9. OnlyOrdinary'
  BY <1>1, <1>2, <1>6 DEF OnlyOrdinary
<1> QED
  BY <1>1, <1>6, <1>8, <1>9, UpstreamKeeps

\* the format thread takes the first packet of a producer
LEMMA FormatNextKeeps ==
    ASSUME IndInv, FormatNext
    PROVE  IndInv'
<1>1. UNCHANGED <<appended, signal, sourceGone, event, lock, queue, swapped, wrt, sent, flush, closing>>
  BY DEF FormatNext
<1>2. TypeOK /\ OnlyOrdinary /\ fmt \in FormatStates
  BY TypeParts DEF IndInv
<1>3. {"exit", "clear"} \subseteq FormatPcs
  BY DEF FormatPcs
<1>4. /\ fmt' \in FormatStates /\ fmt'.packet \in Ordinary /\ fmt'.pc \notin {"fetch", "put"}
      /\ packets' \in [Producers -> Seq(Ordinary)]
  <2>1. CASE UNCHANGED packets /\ \E pc \in {"exit", "clear"} : fmt' = FormatAt(pc)
    BY <1>2, <1>3, <2>1, AtTypes DEF OnlyOrdinary
  <2>2. CASE /\ HavePackets
             /\ packets' = [packets EXCEPT ![next_packet.of] = next_packet.rest]
             /\ \E more \in BOOLEAN :
                   fmt' = [pc |-> "clear", packet |-> next_packet.packet, more |-> more]
    <3> DEFINE p == IF packets["ordinary"] # <<>> THEN "ordinary" ELSE "draw"
    <3>1. next_packet = [of |-> p, packet |-> Head(packets[p]), rest |-> Tail(packets[p])]
      BY DEF next_packet
    <3>2. p \in Producers /\ packets[p] # <<>>
      BY <2>2 DEF HavePackets, Producers
    <3> HIDE DEF p
    <3>3. packets[p] \in Seq(Ordinary)
      BY <1>2, <3>2 DEF OnlyOrdinary
    <3>4. Head(packets[p]) \in Ordinary /\ Tail(packets[p]) \in Seq(Ordinary)
      BY <3>2, <3>3, HeadTailProperties
    <3>5. next_packet.of = p /\ next_packet.rest \in Seq(Ordinary) /\ next_packet.packet \in Ordinary
      BY <3>1, <3>4
    <3>6. packets' \in [Producers -> Seq(Ordinary)]
      BY <1>2, <2>2, <3>2, <3>5 DEF OnlyOrdinary
    <3> QED
      BY <1>3, <2>2, <3>5, <3>6, OrdinaryIsPacket DEF FormatStates
  <2>3. \A more \in BOOLEAN : (more \/ \E q \in Producers : packets'[q] # <<>>) \in BOOLEAN
    OBVIOUS
  <2> QED
    BY <2>1, <2>2, <2>3 DEF FormatNext
<1>5. packets' \in [Producers -> Seq(Packet)]
  BY <1>4, OrdinaryIsPacket
<1>6. TypeOK'
  BY <1>1, <1>2, <1>4, <1>5, TypeParts, TypePartsPrime DEF closing
<1>7. OnlyOrdinary'
  BY <1>4 DEF OnlyOrdinary
<1> QED
  BY <1>1, <1>4, <1>6, <1>7, UpstreamKeeps DEF closing

----------------------------------------------------------------------------
(* The write lock, the queue and the write thread.                          *)

\* the format thread gets the write lock, which flush_then_close does not have
LEMMA FormatLockKeeps ==
    ASSUME IndInv, FormatLock
    PROVE  IndInv'
<1>1. /\ UNCHANGED <<source, event, queue, swapped, sent, flush, closing>> /\ lock = "free"
      /\ wrt' = wrt \/ (wrt.pc = "unborn" /\ wrt' = WriteAt("check"))
      /\ \/ fmt' = FormatAt("check") /\ lock' = lock
         \/ lock' = "format" /\ fmt' = [fmt EXCEPT !.pc = "fetch"]
  BY DEF FormatLock
<1>2. TypeOK /\ OnlyOrdinary /\ fmt \in FormatStates /\ wrt \in WriteStates
  BY TypeParts DEF IndInv
<1>3. "check" \in FormatPcs /\ "fetch" \in FormatPcs /\ "check" \in WritePcs
  BY DEF FormatPcs, WritePcs
<1>4. wrt' \in WriteStates /\ (wrt'.packet = Last => wrt.packet = Last)
      /\ (wrt'.pc = "write" => wrt.pc = "write")
  BY <1>1, <1>2, <1>3, AtTypes
<1>5. /\ fmt' \in FormatStates /\ fmt'.packet \in Ordinary
      /\ fmt'.pc \in {"fetch", "put"} => lock' = "format"
  <2>1. CASE fmt' = FormatAt("check")
    BY <1>3, <2>1, AtTypes
  <2>2. CASE fmt' = [fmt EXCEPT !.pc = "fetch"] /\ lock' = "format"
    BY <1>2, <1>3, <2>2 DEF OnlyOrdinary, FormatStates
  <2> QED
    BY <1>1, <2>1, <2>2
<1>6. lock' \in {"free", "format", "flush"}
  BY <1>1
<1>7. TypeOK'
  BY <1>1, <1>2, <1>4, <1>5, <1>6, TypeParts, TypePartsPrime DEF source, closing
<1>8. Calls' /\ OnlyOrdinary'
  BY <1>1, <1>5 DEF IndInv, Calls, OnlyOrdinary, source
<1>9. ~closed' => LockKept'
  BY <1>1, <1>5 DEF IndInv, LockKept, closing
<1>10. ~closed' => NothingBehind'
  BY <1>1, <1>4 DEF IndInv, NothingBehind, Holds, closing
<1>11. LastIsLast'
  BY <1>1 DEF IndInv, LastIsLast
<1> QED
  BY <1>7, <1>8, <1>9, <1>10, <1>11 DEF IndInv

\* ... and gives it up, with a packet in the queue or none
LEMMA FormatPutKeeps ==
    ASSUME IndInv, FormatFetch \/ FormatPut
    PROVE  IndInv'
<1>1. /\ UNCHANGED <<source, event, swapped, wrt, sent, flush, closing>>
      /\ fmt.pc \in {"fetch", "put"}
      /\ \/ lock' = "free" /\ fmt' = FormatAt("check")
         \/ lock' = lock /\ fmt' = [fmt EXCEPT !.pc = "put"]
      /\ queue' = queue \/ queue' = <<fmt.packet>>
  BY DEF FormatFetch, FormatPut
<1>2. TypeOK /\ OnlyOrdinary /\ fmt \in FormatStates /\ fmt.packet \in Ordinary
  BY TypeParts DEF IndInv, OnlyOrdinary
<1>3. "check" \in FormatPcs /\ "put" \in FormatPcs
  BY DEF FormatPcs
<1>4. fmt' \in FormatStates /\ fmt'.packet \in Ordinary
  <2>1. CASE fmt' = FormatAt("check")
    BY <1>3, <2>1, AtTypes
  <2>2. CASE fmt' = [fmt EXCEPT !.pc = "put"]
    BY <1>2, <1>3, <2>2 DEF FormatStates
  <2> QED
    BY <1>1, <2>1, <2>2
<1>5. fmt.packet \in Packet /\ fmt.packet # Last
  BY <1>2, OrdinaryIsPacket
<1>6. queue' \in Seq(Packet) /\ Len(queue') <= 1 /\ (Holds(queue') => Holds(queue))
  <2>1. CASE queue' = queue
    BY <1>2, <2>1, TypeParts
  <2>2. CASE queue' = <<fmt.packet>>
    BY <1>5, <2>2, OneInQueue
  <2> QED
    BY <1>1, <2>1, <2>2
<1>7. lock' \in {"free", "format", "flush"}
  BY <1>1, <1>2, TypeParts
<1>8. TypeOK'
  BY <1>1, <1>2, <1>4, <1>6, <1>7, TypeParts, TypePartsPrime DEF source, closing
<1>9. Calls' /\ OnlyOrdinary'
  BY <1>1, <1>2, <1>4 DEF IndInv, Calls, OnlyOrdinary, source
<1>10. ASSUME ~closed'
       PROVE  LockKept' /\ NothingBehind'
  <2>1. ~closed /\ LockKept /\ NothingBehind
    BY <1>1, <1>10 DEF IndInv, closing
  <2>2. lock = "format" /\ flush.pc \notin {"queue", "idle"}
    BY <1>1, <2>1 DEF LockKept
  <2>3. fmt'.pc \in {"fetch", "put"} => lock' = "format"
    <3>1. FormatAt("check").pc = "check"
      BY <1>3, AtTypes
    <3> QED
      BY <1>1, <2>2, <3>1
  <2>4. LockKept'
    BY <1>1, <2>1, <2>2, <2>3 DEF LockKept, closing
  <2>5. flush.pc # "idle" /\ ~Holds(queue) /\ ~Holds(sent) /\ wrt.packet # Last
    BY <2>1, <2>2 DEF NothingBehind
  <2>6. NothingBehind'
    BY <1>1, <1>6, <2>5 DEF NothingBehind, Holds
  <2> QED
    BY <2>4, <2>6
<1>11. LastIsLast'
  BY <1>1 DEF IndInv, LastIsLast
<1> QED
  BY <1>8, <1>9, <1>10, <1>11 DEF IndInv

\* The write thread, until it writes.
LEMMA WriteGoes ==
    ASSUME IndInv, Write
    PROVE  IndInv'
<1>1. UNCHANGED <<source, event, fmt, lock, swapped, sent, flush, closing>>
  BY DEF Write, WriteCheck, WriteFetch, WriteGet, WriteAbort
<1>2. /\ TypeOK /\ OnlyOrdinary /\ queue \in Seq(Packet) /\ Len(queue) <= 1 /\ wrt \in WriteStates
  BY TypeParts DEF IndInv
<1>3. {"exit", "fetch", "get", "write"} \subseteq WritePcs
  BY DEF WritePcs
<1>4. \/ queue' = queue /\ \E pc \in {"exit", "fetch", "get"} : wrt' = WriteAt(pc)
      \/ /\ queue # <<>> /\ queue' = Tail(queue)
         /\ \/ Head(queue) = Marker /\ wrt' = WriteAt("exit")
            \/ wrt' = [pc |-> "write", packet |-> Head(queue)]
  BY DEF Write, WriteCheck, WriteFetch, WriteGet, WriteAbort
<1>5. /\ wrt' \in WriteStates /\ queue' \in Seq(Packet) /\ Len(queue') <= 1
      /\ Holds(queue') => Holds(queue)
      /\ wrt'.pc = "write" => queue # <<>>
      /\ wrt'.packet = Last => Holds(queue) /\ queue' = <<>>
  <2>1. CASE queue' = queue /\ \E pc \in {"exit", "fetch", "get"} : wrt' = WriteAt(pc)
    BY <1>2, <1>3, <2>1, AtTypes
  <2>2. CASE queue # <<>> /\ queue' = Tail(queue) /\ wrt' = WriteAt("exit")
    <3>1. queue' = <<>>
      BY <1>2, <2>2, QueueShape
    <3>2. 0 <= 1
      OBVIOUS
    <3>3. queue' \in Seq(Packet) /\ Len(queue') <= 1 /\ ~Holds(queue')
      BY <3>1, <3>2, EmptyHoldsNone, Zenon
    <3>4. wrt' \in WriteStates /\ wrt'.pc = "exit" /\ wrt'.packet # Last
      BY <1>3, <2>2, AtTypes
    <3> QED
      BY <3>3, <3>4
  <2>3. CASE /\ queue # <<>> /\ queue' = Tail(queue)
             /\ wrt' = [pc |-> "write", packet |-> Head(queue)]
    <3>1. /\ Head(queue) \in Packet /\ queue' = <<>> /\ queue' \in Seq(Packet) /\ Len(queue') = 0
          /\ Holds(queue) <=> Head(queue) = Last
      BY <1>2, <2>3, QueueShape
    <3>2. wrt' \in WriteStates /\ wrt'.packet = Head(queue)
      BY <1>3, <2>3, <3>1 DEF WriteStates
    <3>3. 0 <= 1
      OBVIOUS
    <3>4. Len(queue') <= 1 /\ ~Holds(queue')
      BY <3>1, <3>3, EmptyHoldsNone, Zenon
    <3> QED
      BY <2>3, <3>1, <3>2, <3>4, Zenon
  <2> QED
    BY <1>4, <2>1, <2>2, <2>3
<1>6. TypeOK'
  BY <1>1, <1>2, <1>5, TypeParts, TypePartsPrime DEF source, closing
<1>7. Calls' /\ OnlyOrdinary' /\ LastIsLast'
  BY <1>1 DEF IndInv, Calls, OnlyOrdinary, LastIsLast, source
<1>8. ASSUME ~closed'
      PROVE  LockKept' /\ NothingBehind'
  <2>1. ~closed /\ LockKept /\ NothingBehind
    BY <1>1, <1>8 DEF IndInv, closing
  <2>2. LockKept'
    BY <1>1, <2>1 DEF LockKept, closing
  <2>3. flush'.pc # "idle" => ~Holds(queue') /\ ~Holds(sent') /\ wrt'.packet # Last
    BY <1>1, <1>5, <2>1 DEF NothingBehind, Holds
  <2>4. Holds(sent') => queue' = <<>> /\ wrt'.pc # "write"
    <3>1. Holds(sent') => queue = <<>>
      BY <1>1, <2>1 DEF NothingBehind, Holds
    <3>2. queue = <<>> => queue' = <<>>
      BY <1>4
    <3> QED
      BY <1>5, <3>1, <3>2
  <2>5. NothingBehind'
    BY <1>5, <2>3, <2>4 DEF NothingBehind
  <2> QED
    BY <2>2, <2>5
<1> QED
  BY <1>6, <1>7, <1>8 DEF IndInv

\* A packet is written: nothing is there behind it if it is the last one.
LEMMA WriteDoneKeeps ==
    ASSUME IndInv, WriteDone
    PROVE  IndInv'
<1>1. /\ UNCHANGED <<source, event, fmt, lock, queue, swapped, flush, closing>>
      /\ wrt.pc = "write" /\ ~closed /\ ~closed' /\ sent' = Append(sent, wrt.packet)
      /\ wrt' = WriteAt("check")
  BY DEF WriteDone, closing
<1>2. /\ TypeOK /\ OnlyOrdinary /\ wrt.packet \in Packet /\ sent \in Seq(Packet)
      /\ LockKept /\ NothingBehind /\ LastIsLast
  BY <1>1, TypeParts DEF IndInv, WriteStates
<1>3. "check" \in WritePcs
  BY DEF WritePcs
<1>4. wrt' \in WriteStates /\ wrt'.pc = "check" /\ wrt'.packet # Last
  BY <1>1, <1>3, AtTypes
<1>5. /\ sent' \in Seq(Packet) /\ Len(sent) \in Nat /\ Len(sent') = Len(sent) + 1
      /\ sent'[Len(sent) + 1] = wrt.packet /\ \A i \in 1..Len(sent) : sent'[i] = sent[i]
  BY <1>1, <1>2, AppendProperties, LenProperties
<1>6. ~Holds(sent)
  BY <1>1, <1>2 DEF NothingBehind
<1>7. \A i \in 1..Len(sent') : sent'[i] = Last => i = Len(sent') /\ wrt.packet = Last
  <2>1. \A i \in 1..Len(sent') : i \in 1..Len(sent) \/ i = Len(sent) + 1
    BY <1>5
  <2> QED
    BY <1>5, <1>6, <2>1 DEF Holds
<1>8. Holds(sent') => wrt.packet = Last
  BY <1>7 DEF Holds
<1>9. TypeOK'
  BY <1>1, <1>2, <1>4, <1>5, TypeParts, TypePartsPrime DEF source, closing
<1>10. Calls' /\ OnlyOrdinary'
  BY <1>1 DEF IndInv, Calls, OnlyOrdinary, source
<1>11. LockKept'
  BY <1>1, <1>2 DEF LockKept, closing
<1>12. NothingBehind'
  <2>1. flush'.pc # "idle" => ~Holds(queue') /\ ~Holds(sent') /\ wrt'.packet # Last
    BY <1>1, <1>2, <1>4, <1>8 DEF NothingBehind, Holds
  <2>2. Holds(sent') => queue' = <<>>
    BY <1>1, <1>2, <1>8 DEF NothingBehind
  <2> QED
    BY <1>4, <2>1, <2>2 DEF NothingBehind
<1>13. LastIsLast'
  BY <1>7 DEF LastIsLast
<1> QED
  BY <1>9, <1>10, <1>11, <1>12, <1>13 DEF IndInv

----------------------------------------------------------------------------
(* close() and flush_then_close.                                            *)

\* Once the connection is closed nothing is written.
LEMMA ClosedKeeps ==
    ASSUME IndInv, closed', TypeOK', Calls', UNCHANGED <<packets, sent>>, fmt'.packet = fmt.packet
    PROVE  IndInv'
  BY DEF IndInv, OnlyOrdinary, LastIsLast

LEMMA CloseGoes ==
    ASSUME IndInv, Close \/ Clean
    PROVE  IndInv'
<1>1. /\ UNCHANGED <<source, fmt, lock, swapped, wrt, sent, flush, closed, lost>>
      /\ closer # "no" /\ closer' \in {"drain", "mark", "done"}
      /\ cleaned' \in {cleaned, TRUE} /\ event' \in {event, TRUE}
      /\ queue' = queue \/ queue' = <<Marker>> \/ (queue # <<>> /\ queue' = Tail(queue))
  BY DEF Close, CloseDrain, CloseMark, Clean
<1>2. closed' /\ TypeOK /\ queue \in Seq(Packet) /\ Len(queue) <= 1
  BY <1>1, TypeParts DEF IndInv, LockKept
<1>3. queue' \in Seq(Packet) /\ Len(queue') <= 1
  <2>1. CASE queue' = queue
    BY <1>2, <2>1
  <2>2. CASE queue' = <<Marker>>
    BY <2>2, PacketTypes, OneInQueue
  <2>3. CASE queue # <<>> /\ queue' = Tail(queue)
    BY <1>2, <2>3, QueueShape
  <2> QED
    BY <1>1, <2>1, <2>2, <2>3
<1>4. TypeOK'
  BY <1>1, <1>2, <1>3, TypeParts, TypePartsPrime DEF source
<1>5. Calls'
  BY <1>1 DEF IndInv, Calls
<1> QED
  BY <1>1, <1>2, <1>4, <1>5, ClosedKeeps DEF source

LEMMA CloseBegins ==
    ASSUME IndInv, ConnectionLost \/ WriteError
    PROVE  IndInv'
<1>1. /\ UNCHANGED <<source, fmt, lock, queue, sent, flush, cleaned>>
      /\ closed' = TRUE /\ event' = TRUE /\ swapped' = TRUE /\ closer' = "drain"
      /\ wrt' = wrt \/ wrt' = WriteAt("exit")
      /\ lost' \in {lost, FALSE}
  BY DEF ConnectionLost, WriteError, CloseBegin
<1>2. TypeOK /\ "exit" \in WritePcs
  BY DEF IndInv, WritePcs
<1>3. wrt' \in WriteStates
  BY <1>1, <1>2, AtTypes, TypeParts
<1>4. lost' \in BOOLEAN
  BY <1>1, <1>2, TypeParts
<1>5. TypeOK'
  BY <1>1, <1>2, <1>3, <1>4, TypeParts, TypePartsPrime DEF source
<1>6. Calls'
  BY <1>1 DEF IndInv, Calls
<1> QED
  BY <1>1, <1>5, <1>6, ClosedKeeps DEF source

\* flush_then_close calls close(), with timers that are due or not
LEMMA FlushClosing ==
    ASSUME IndInv, FlushLockTimeout \/ FlushGiveUp \/ FlushSent \/ FlushLate
    PROVE  IndInv'
<1>1. PICK pc \in {"unlocked", "release"}, poll \in BOOLEAN, late \in BOOLEAN :
         /\ CloseThen([flush EXCEPT !.pc = pc, !.poll = poll, !.late = late])
         /\ \/ flush.pc \in {"lock", "queue"} /\ poll = flush.poll /\ late = flush.late
            \/ flush.pc = "idle" /\ flush.poll /\ poll = FALSE /\ late = flush.late
            \/ flush.pc = "idle" /\ flush.late /\ poll = flush.poll /\ late = FALSE
  <2>1. flush \in FlushStates
    BY TypeParts DEF IndInv
  <2>2. flush.poll \in BOOLEAN /\ flush.late \in BOOLEAN
    BY <2>1 DEF FlushStates
  <2>3. ASSUME NEW p \in {"unlocked", "release"}
        PROVE  /\ [flush EXCEPT !.pc = p] =
                    [flush EXCEPT !.pc = p, !.poll = flush.poll, !.late = flush.late]
               /\ [flush EXCEPT !.pc = p, !.poll = FALSE] =
                    [flush EXCEPT !.pc = p, !.poll = FALSE, !.late = flush.late]
               /\ [flush EXCEPT !.pc = p, !.late = FALSE] =
                    [flush EXCEPT !.pc = p, !.poll = flush.poll, !.late = FALSE]
    BY <2>1 DEF FlushStates
  <2>4. CASE FlushLockTimeout
    BY <2>2, <2>3, <2>4 DEF FlushLockTimeout
  <2>5. CASE FlushGiveUp
    BY <2>2, <2>3, <2>5 DEF FlushGiveUp
  <2>6. CASE FlushSent
    BY <2>2, <2>3, <2>6 DEF FlushSent
  <2>7. CASE FlushLate
    BY <2>2, <2>3, <2>7 DEF FlushLate
  <2> QED
    BY <2>4, <2>5, <2>6, <2>7
<1>2. TypeOK /\ flush \in FlushStates /\ closed \in BOOLEAN
  BY TypeParts DEF IndInv
<1>3. /\ UNCHANGED <<source, fmt, lock, queue, wrt, sent, cleaned, lost>> /\ closed' = TRUE
      /\ event' \in {event, TRUE} /\ swapped' \in {swapped, TRUE} /\ closer' \in {closer, "drain"}
      /\ flush' = [flush EXCEPT !.pc = pc, !.poll = poll, !.late = late, !.own = ~closed]
  <2>1. (UNCHANGED <<closed, event, swapped, closer>> /\ closed) \/ CloseBegin
    BY <1>1 DEF CloseThen
  <2>2. flush' = [flush EXCEPT !.pc = pc, !.poll = poll, !.late = late, !.own = ~closed]
    BY <1>1, <1>2 DEF CloseThen, FlushStates
  <2> QED
    BY <1>1, <1>2, <2>1, <2>2 DEF CloseThen, CloseBegin
<1>4. pc \in FlushPcs
  BY DEF FlushPcs
<1>5. flush' \in FlushStates /\ flush'.pc = pc /\ flush'.poll = poll /\ flush'.late = late
      /\ flush'.done = flush.done /\ flush.done \in 0..2
  BY <1>2, <1>3, <1>4 DEF FlushStates
<1>6. event' \in BOOLEAN /\ swapped' \in BOOLEAN /\ closer' \in {"no", "drain", "mark", "done"}
  BY <1>2, <1>3, TypeParts
<1>7. TypeOK'
  BY <1>2, <1>3, <1>5, <1>6, TypeParts, TypePartsPrime DEF source
<1>8. flush.done + One(poll) + One(late) <= 1
  <2>1. CASE flush.pc \in {"lock", "queue"} /\ poll = flush.poll /\ late = flush.late
    BY <1>5, <2>1 DEF IndInv, Calls, One
  <2>2. CASE flush.pc = "idle" /\ flush.poll /\ poll = FALSE /\ late = flush.late
    BY <1>5, <2>2 DEF IndInv, Calls, One
  <2>3. CASE flush.pc = "idle" /\ flush.late /\ poll = flush.poll /\ late = FALSE
    BY <1>5, <2>3 DEF IndInv, Calls, One
  <2> QED
    BY <1>1, <2>1, <2>2, <2>3
<1>9. Calls'
  BY <1>5, <1>8 DEF Calls
<1> QED
  BY <1>3, <1>7, <1>9, ClosedKeeps DEF source

\* the lock is released, of a closed connection
LEMMA FlushReleaseKeeps ==
    ASSUME IndInv, FlushRelease
    PROVE  IndInv'
<1>1. /\ UNCHANGED <<source, event, fmt, queue, swapped, wrt, sent, closing>>
      /\ flush.pc \in {"release", "unlocked"} /\ lock' \in {"free", lock}
      /\ flush' = [flush EXCEPT !.pc = "idle", !.done = flush.done + 1]
  BY DEF FlushRelease
<1>2. TypeOK /\ flush \in FlushStates /\ lock' \in {"free", "format", "flush"}
  BY <1>1, TypeParts DEF IndInv
<1>3. closed'
  BY <1>1 DEF IndInv, LockKept, closing
<1>4. flush.done \in 0..2 /\ flush.done + One(flush.poll) + One(flush.late) <= 1
      /\ One(flush.poll) \in 0..1 /\ One(flush.late) \in 0..1
  BY <1>1, <1>2 DEF IndInv, Calls, FlushStates, One
<1>5. flush.done + 1 \in 0..2 /\ flush.done + 1 + One(flush.poll) + One(flush.late) <= 2
  BY <1>4
<1>6. "idle" \in FlushPcs
  BY DEF FlushPcs
<1>7. /\ flush' \in FlushStates /\ flush'.pc = "idle" /\ flush'.done = flush.done + 1
      /\ flush'.poll = flush.poll /\ flush'.late = flush.late
  BY <1>1, <1>2, <1>5, <1>6 DEF FlushStates
<1>8. TypeOK'
  BY <1>1, <1>2, <1>7, TypeParts, TypePartsPrime DEF source, closing
<1>9. Calls'
  BY <1>5, <1>7 DEF Calls
<1> QED
  BY <1>1, <1>3, <1>8, <1>9, ClosedKeeps DEF source

\* flush_then_close begins, waits for the lock, gets it, waits for the queue, and for
\* the place in it
LEMMA FlushGoes ==
    ASSUME IndInv,
           \/ FlushBegin \/ FlushLock \/ FlushRetry \/ FlushLast \/ FlushRaises
           \/ FlushFetch /\ ~swapped
    PROVE  IndInv'
<1> DEFINE Later(pcs) == flush' = [flush EXCEPT !.pc = pcs[2]] /\ flush.pc = pcs[1]
           Moves == {<<"no", "lock">>, <<"fetch", "put">>}
           Leaves(pc) == flush' = [flush EXCEPT !.pc = pc, !.retries = 0] /\ flush.pc = "queue"
<1>1. /\ UNCHANGED <<source, event, fmt, queue, swapped, sent, closing>>
      /\ wrt' = wrt \/ wrt' = WriteAt("check")
      /\ \/ /\ flush.pc = "no" /\ closed /\ lock' = lock
            /\ flush' = [flush EXCEPT !.pc = "idle", !.done = flush.done + 1]
         \/ lock' = lock /\ \E m \in Moves : Later(m)
         \/ lock' = lock /\ \E pc \in {"raised", "fetch"} : Leaves(pc)
         \/ lock = "free" /\ lock' = "flush" /\ Later(<<"lock", "queue">>)
         \/ /\ flush.pc = "queue" /\ lock' = lock /\ flush.retries > 0
            /\ flush' = [flush EXCEPT !.retries = flush.retries - 1]
  BY DEF FlushBegin, FlushLock, FlushRetry, FlushLast, FlushRaises, FlushFetch
<1>2. TypeOK /\ flush \in FlushStates /\ flush.done = 0 /\ ~flush.poll /\ ~flush.late
      /\ wrt \in WriteStates
  BY <1>1, TypeParts DEF IndInv, Calls
<1>3. {"idle", "lock", "queue", "raised", "fetch", "put"} \subseteq FlushPcs /\ 0 + 1 \in 0..2
      /\ "check" \in WritePcs
  BY DEF FlushPcs, WritePcs
<1>4. /\ flush' \in FlushStates /\ flush'.poll = flush.poll /\ flush'.late = flush.late
      /\ \/ flush'.pc = "idle" /\ flush'.done = 1
         \/ flush'.pc \in {"lock", "queue", "raised", "fetch", "put"} /\ flush'.done = 0
  <2>1. CASE flush' = [flush EXCEPT !.pc = "idle", !.done = flush.done + 1]
    <3>1. flush.done + 1 = 1 /\ flush.done + 1 \in 0..2
      BY <1>2
    <3> QED
      BY <1>2, <1>3, <2>1, <3>1 DEF FlushStates
  <2>2. CASE \E m \in Moves \cup {<<"lock", "queue">>} : Later(m)
    BY <1>2, <1>3, <2>2 DEF FlushStates
  <2>3. CASE \E pc \in {"raised", "fetch"} : Leaves(pc)
    <3>1. PICK pc \in {"raised", "fetch"} : Leaves(pc)
      BY <2>3
    <3>2. 0 \in 0..FlushRetries /\ pc \in FlushPcs
      BY <1>3, OutputAssumption
    <3>3. /\ flush' \in FlushStates /\ flush'.poll = flush.poll /\ flush'.late = flush.late
          /\ flush'.pc = pc /\ flush'.done = flush.done
      BY <1>2, <3>1, <3>2 DEF FlushStates
    <3> QED
      BY <1>2, <3>3
  <2>4. CASE /\ flush.retries > 0 /\ flush.pc = "queue"
             /\ flush' = [flush EXCEPT !.retries = flush.retries - 1]
    <3>1. flush.retries - 1 \in 0..FlushRetries
      BY <1>2, <2>4, OutputAssumption DEF FlushStates
    <3> QED
      BY <1>2, <2>4, <3>1 DEF FlushStates
  <2> QED
    BY <1>1, <2>1, <2>2, <2>3, <2>4
<1>5. lock' \in {"free", "format", "flush"} /\ wrt' \in WriteStates
      /\ (wrt'.packet = Last => wrt.packet = Last)
  BY <1>1, <1>2, <1>3, TypeParts, AtTypes
<1>6. TypeOK'
  BY <1>1, <1>2, <1>4, <1>5, TypeParts, TypePartsPrime DEF source, closing
<1>7. Calls'
  <2>1. ~flush'.poll /\ ~flush'.late
    BY <1>2, <1>4
  <2>2. One(flush'.poll) = 0 /\ One(flush'.late) = 0
    BY <2>1 DEF One
  <2> QED
    BY <1>4, <2>1, <2>2 DEF Calls
<1>8. OnlyOrdinary' /\ LastIsLast'
  BY <1>1 DEF IndInv, OnlyOrdinary, LastIsLast, source
<1>9. ASSUME ~closed'
      PROVE  LockKept' /\ NothingBehind'
  <2>1. ~closed /\ LockKept /\ NothingBehind
    BY <1>1, <1>9 DEF IndInv, closing
  <2>2. /\ flush'.pc \in {"lock", "queue", "raised", "fetch", "put"} /\ flush.pc # "idle"
        /\ flush'.pc # "lock" => lock' = "flush"
        /\ fmt.pc \in {"fetch", "put"} => lock' = "format"
    <3>1. CASE lock' = lock /\ \E m \in Moves : Later(m)
      BY <1>2, <2>1, <3>1 DEF LockKept, FlushStates
    <3>2. CASE lock = "free" /\ lock' = "flush" /\ Later(<<"lock", "queue">>)
      BY <1>2, <2>1, <3>2 DEF LockKept, FlushStates
    <3>3. CASE lock' = lock /\ \E pc \in {"raised", "fetch"} : Leaves(pc)
      BY <1>2, <2>1, <3>3 DEF LockKept, FlushStates
    <3>4. CASE /\ flush.pc = "queue" /\ lock' = lock
               /\ flush' = [flush EXCEPT !.retries = flush.retries - 1]
      BY <1>2, <2>1, <3>4 DEF LockKept, FlushStates
    <3> QED
      BY <1>1, <2>1, <3>1, <3>2, <3>3, <3>4
  <2>3. LockKept'
    BY <1>1, <2>1, <2>2 DEF LockKept, closing
  <2>4. NothingBehind'
    BY <1>1, <1>5, <2>1, <2>2 DEF NothingBehind, Holds
  <2> QED
    BY <2>3, <2>4
<1> QED
  BY <1>6, <1>7, <1>8, <1>9 DEF IndInv

\* the last packet, with the lock held, in the write queue or in an exit queue
LEMMA FlushPutKeeps ==
    ASSUME IndInv, FlushPut \/ (FlushFetch /\ swapped)
    PROVE  IndInv'
<1>1. /\ UNCHANGED <<source, event, fmt, lock, swapped, wrt, sent, closing>>
      /\ flush.pc \in {"fetch", "put"} /\ (queue' = <<Last>> \/ queue' = queue)
      /\ flush' = [flush EXCEPT !.pc = "idle", !.poll = TRUE, !.late = TRUE]
  BY DEF FlushPut, FlushFetch, LastQueued
<1>2. TypeOK /\ flush \in FlushStates /\ flush.done = 0
  BY <1>1, TypeParts DEF IndInv, Calls
<1>3. "idle" \in FlushPcs
  BY DEF FlushPcs
<1>4. /\ flush' \in FlushStates /\ flush'.pc = "idle" /\ flush'.done = 0
      /\ flush'.poll = TRUE /\ flush'.late = TRUE
  BY <1>1, <1>2, <1>3 DEF FlushStates
<1>5. queue' \in Seq(Packet) /\ Len(queue') <= 1
  <2>1. CASE queue' = <<Last>>
    BY <2>1, PacketTypes, OneInQueue
  <2>2. CASE queue' = queue
    BY <1>2, <2>2, TypeParts
  <2> QED
    BY <1>1, <2>1, <2>2
<1>6. TypeOK'
  BY <1>1, <1>2, <1>4, <1>5, TypeParts, TypePartsPrime DEF source, closing
<1>7. Calls'
  <2>1. One(flush'.poll) = 1 /\ One(flush'.late) = 1
    BY <1>4 DEF One
  <2> QED
    BY <1>4, <2>1 DEF Calls
<1>8. OnlyOrdinary' /\ LastIsLast'
  BY <1>1 DEF IndInv, OnlyOrdinary, LastIsLast, source
<1>9. ASSUME ~closed'
      PROVE  LockKept' /\ NothingBehind'
  <2>1. ~closed /\ LockKept /\ NothingBehind
    BY <1>1, <1>9 DEF IndInv, closing
  <2>2. LockKept'
    BY <1>1, <1>4, <2>1 DEF LockKept, closing
  <2>3. wrt'.packet # Last /\ ~Holds(sent')
    BY <1>1, <2>1 DEF NothingBehind, Holds
  <2>4. NothingBehind'
    BY <1>4, <2>3 DEF NothingBehind
  <2> QED
    BY <2>2, <2>4
<1> QED
  BY <1>6, <1>7, <1>8, <1>9 DEF IndInv

LEMMA Unchanged ==
    ASSUME IndInv, UNCHANGED vars
    PROVE  IndInv'
<1>1. TypeOK'
  BY TypeParts, TypePartsPrime DEF IndInv, vars, source, closing
<1>2. Calls' /\ OnlyOrdinary' /\ LastIsLast'
  BY DEF IndInv, vars, source, Calls, OnlyOrdinary, LastIsLast
<1>3. ~closed' => LockKept' /\ NothingBehind'
  BY DEF IndInv, vars, closing, LockKept, NothingBehind, Holds
<1> QED
  BY <1>1, <1>2, <1>3 DEF IndInv

LEMMA Invariance == Spec => []IndInv
<1>1. Init => IndInv
  <2> SUFFICES ASSUME Init PROVE IndInv
    OBVIOUS
  <2>1. "unborn" \in FormatPcs /\ "unborn" \in WritePcs /\ "no" \in FlushPcs
        /\ FlushRetries \in 0..FlushRetries /\ 0 \in 0..MaxPackets
    BY OutputAssumption DEF FormatPcs, WritePcs, FlushPcs
  <2>2. /\ fmt \in FormatStates /\ fmt.pc = "unborn" /\ fmt.packet \in Ordinary
        /\ wrt \in WriteStates /\ wrt.pc = "unborn" /\ wrt.packet # Last
    BY <2>1, AtTypes DEF Init
  <2>3. flush \in FlushStates
    BY <2>1 DEF Init, FlushStates
  <2>4. packets \in [Producers -> Seq(Ordinary)] /\ packets \in [Producers -> Seq(Packet)]
    BY DEF Init
  <2>5. TypeOK
    <3>1. /\ appended \in 0..MaxPackets /\ signal \subseteq Producers
          /\ sourceGone \in BOOLEAN /\ event \in BOOLEAN /\ swapped \in BOOLEAN
          /\ closed \in BOOLEAN /\ cleaned \in BOOLEAN /\ lost \in BOOLEAN
          /\ lock \in {"free", "format", "flush"} /\ closer \in {"no", "drain", "mark", "done"}
      BY <2>1 DEF Init
    <3>2. queue \in Seq(Packet) /\ Len(queue) = 0 /\ sent \in Seq(Packet)
      BY EmptyHoldsNone DEF Init
    <3>3. 0 <= 1
      OBVIOUS
    <3>4. Len(queue) <= 1
      BY <3>2, <3>3, Zenon
    <3> QED
      BY <2>2, <2>3, <2>4, <3>1, <3>2, <3>4, TypeParts, Zenon
  <2>6. Calls /\ OnlyOrdinary
    BY <2>2, <2>4 DEF Init, Calls, OnlyOrdinary
  <2>7. LockKept /\ NothingBehind /\ LastIsLast
    BY <2>2, EmptyHoldsNone DEF Init, LockKept, NothingBehind, LastIsLast
  <2> QED
    BY <2>5, <2>6, <2>7 DEF IndInv
<1>2. IndInv /\ [Next]_vars => IndInv'
  <2> SUFFICES ASSUME IndInv, [Next]_vars PROVE IndInv'
    OBVIOUS
  <2>1. CASE Format
    BY <2>1, FormatGoes, FormatNextKeeps, FormatLockKeeps, FormatPutKeeps DEF Format
  <2>2. CASE Flush
    BY <2>2, FlushGoes, FlushPutKeeps, FlushClosing, FlushReleaseKeeps DEF Flush
  <2>3. CASE Write \/ WriteDone \/ WriteError \/ Close \/ Clean \/ ConnectionLost
    BY <2>3, WriteGoes, WriteDoneKeeps, CloseBegins, CloseGoes
  <2>4. CASE \/ \E p \in Producers : QueuePacket(p) \/ source_has_more(p)
             \/ SourceCleanup \/ FormatError \/ FlushBegin \/ FlushRaises
    BY <2>4, QueuePacketKeeps, MoreKeeps, FormatGoes, FlushGoes
  <2> QED
    BY <2>1, <2>2, <2>3, <2>4, Unchanged DEF Next
<1> QED
  BY <1>1, <1>2, PTL DEF Spec

----------------------------------------------------------------------------
(* The way of the packets: in the order of progress, what is sent, in the   *)
(* hands of the write thread, in the queue, in the hands of the format      *)
(* thread, and in the lists.                                                *)

InWrite == IF wrt.pc = "write" THEN <<wrt.packet>> ELSE <<>>
InFormat == IF fmt.packet # NoPacket THEN <<fmt.packet>> ELSE <<>>

Before(A, B) == \A a \in A, b \in B : a < b

\* the order of what has got to A, B, C, D and E
Progress(A, B, C, D, E) ==
    /\ Before(A, B) /\ Before(A, C) /\ Before(A, D) /\ Before(A, E)
    /\ Before(B, C) /\ Before(B, D) /\ Before(B, E)
    /\ Before(C, D) /\ Before(C, E)
    /\ Before(D, E)

Flow(p) ==
    /\ InOrder(sent, p) /\ InOrder(packets[p], p)
    /\ Progress(Ids(sent, p), Ids(InWrite, p), Ids(queue, p), Ids(InFormat, p), Ids(packets[p], p))

Known(p) ==
    Ids(sent, p) \cup Ids(InWrite, p) \cup Ids(queue, p) \cup Ids(InFormat, p) \cup Ids(packets[p], p)

Flows ==
    /\ \A p \in Producers : Flow(p)
    /\ UNION {Known(p) : p \in Producers} = 1..appended

\* a list has the packets of its producer
Own == \A p \in Producers : \A i \in 1..Len(packets[p]) : packets[p][i].of = p

FlowInv ==
    /\ Own
    /\ fmt.pc \in {"unborn", "check", "wait", "exit"} => fmt.packet = NoPacket
    /\ ~closed => ~swapped /\ ~cleaned /\ closer = "no"
    /\ ~closed /\ ~lost => Flows

LEMMA IdsOfEmpty == ASSUME NEW p PROVE Ids(<<>>, p) = {} /\ InOrder(<<>>, p)
  BY DEF Ids, InOrder

LEMMA IdsOfOne ==
    ASSUME NEW k \in Packet, NEW p
    PROVE  /\ Ids(<<k>>, p) = IF k.of = p THEN {k.id} ELSE {}
           /\ InOrder(<<k>>, p)
<1>1. Len(<<k>>) = 1 /\ <<k>>[1] = k /\ 1..1 = {1}
  OBVIOUS
<1> QED
  BY <1>1 DEF Ids, InOrder

\* The packets of two stretches of the way, one behind the other.
LEMMA Stretches ==
    ASSUME NEW s \in Seq(Packet), NEW t \in Seq(Packet), NEW p
    PROVE  /\ s \o t \in Seq(Packet)
           /\ Ids(s \o t, p) = Ids(s, p) \cup Ids(t, p)
           /\ InOrder(s \o t, p) <=>
                 InOrder(s, p) /\ InOrder(t, p) /\ Before(Ids(s, p), Ids(t, p))
<1> DEFINE u == s \o t
           m == Len(s)
           n == Len(t)
<1>1. /\ u \in Seq(Packet) /\ Len(u) = m + n /\ m \in Nat /\ n \in Nat
      /\ \A i \in 1..m + n : u[i] = IF i <= m THEN s[i] ELSE t[i - m]
  BY ConcatProperties, LenProperties
<1>2. /\ \A i \in 1..m : i \in 1..m + n /\ u[i] = s[i]
      /\ \A i \in 1..n : i + m \in 1..m + n /\ u[i + m] = t[i]
      /\ \A i \in 1..m + n : i \in 1..m \/ (i - m \in 1..n /\ i = (i - m) + m)
  BY <1>1
<1> HIDE DEF u, m, n
<1>3. Ids(u, p) = Ids(s, p) \cup Ids(t, p)
  <2>1. ASSUME NEW x \in Ids(u, p) PROVE x \in Ids(s, p) \cup Ids(t, p)
    <3>1. PICK i \in 1..m + n : u[i].of = p /\ x = u[i].id
      BY <1>1, <2>1 DEF Ids
    <3>2. CASE i \in 1..m
      BY <1>2, <3>1, <3>2 DEF Ids, m
    <3>3. CASE i - m \in 1..n /\ i = (i - m) + m
      BY <1>2, <3>1, <3>3 DEF Ids, n
    <3> QED
      BY <1>2, <3>2, <3>3
  <2>2. ASSUME NEW x \in Ids(s, p) PROVE x \in Ids(u, p)
    BY <1>1, <1>2, <2>2 DEF Ids, m
  <2>3. ASSUME NEW x \in Ids(t, p) PROVE x \in Ids(u, p)
    BY <1>1, <1>2, <2>3 DEF Ids, n
  <2> QED
    BY <2>1, <2>2, <2>3
<1>4. ASSUME InOrder(u, p)
      PROVE  InOrder(s, p) /\ InOrder(t, p) /\ Before(Ids(s, p), Ids(t, p))
  <2>1. InOrder(s, p)
    BY <1>1, <1>2, <1>4 DEF InOrder, m
  <2>2. InOrder(t, p)
    <3> SUFFICES ASSUME NEW i \in 1..n, NEW j \in 1..n, i < j, t[i].of = p, t[j].of = p
                 PROVE  t[i].id < t[j].id
      BY DEF InOrder, n
    <3>1. i + m < j + m /\ i + m \in 1..m + n /\ j + m \in 1..m + n
      BY <1>1
    <3> QED
      BY <1>1, <1>2, <1>4, <3>1 DEF InOrder
  <2>3. ASSUME NEW a \in Ids(s, p), NEW b \in Ids(t, p) PROVE a < b
    <3>1. PICK i \in 1..m : s[i].of = p /\ a = s[i].id
      BY <2>3 DEF Ids, m
    <3>2. PICK j \in 1..n : t[j].of = p /\ b = t[j].id
      BY <2>3 DEF Ids, n
    <3>3. i < j + m /\ i \in 1..m + n /\ j + m \in 1..m + n
      BY <1>1
    <3> QED
      BY <1>1, <1>2, <1>4, <3>1, <3>2, <3>3 DEF InOrder
  <2> QED
    BY <2>1, <2>2, <2>3 DEF Before
<1>5. ASSUME InOrder(s, p), InOrder(t, p), Before(Ids(s, p), Ids(t, p))
      PROVE  InOrder(u, p)
  <2> SUFFICES ASSUME NEW i \in 1..m + n, NEW j \in 1..m + n, i < j, u[i].of = p, u[j].of = p
               PROVE  u[i].id < u[j].id
    BY <1>1 DEF InOrder
  <2>1. CASE j \in 1..m
    <3>1. i \in 1..m
      BY <1>1, <2>1
    <3> QED
      BY <1>2, <1>5, <2>1, <3>1 DEF InOrder, m
  <2>2. CASE i \in 1..m /\ j \notin 1..m
    <3>1. u[i].id \in Ids(s, p)
      BY <1>2, <2>2 DEF Ids, m
    <3>2. j - m \in 1..n /\ u[j] = t[j - m]
      BY <1>2, <2>2
    <3>3. u[j].id \in Ids(t, p)
      BY <3>2 DEF Ids, n
    <3> QED
      BY <1>5, <3>1, <3>3 DEF Before
  <2>3. CASE i \notin 1..m /\ j \notin 1..m
    <3>1. i - m \in 1..n /\ u[i] = t[i - m] /\ j - m \in 1..n /\ u[j] = t[j - m]
      BY <1>2, <2>3
    <3>2. i - m < j - m
      BY <1>1
    <3> QED
      BY <1>5, <3>1, <3>2 DEF InOrder, n
  <2>4. i \in 1..m \/ j \notin 1..m
    BY <1>1
  <2> QED
    BY <2>1, <2>2, <2>3, <2>4
<1> QED
  BY <1>1, <1>3, <1>4, <1>5 DEF u

LEMMA HandTypes ==
    ASSUME TypeOK
    PROVE  /\ sent \in Seq(Packet) /\ queue \in Seq(Packet)
           /\ InWrite \in Seq(Packet) /\ InFormat \in Seq(Packet)
           /\ \A p \in Producers : packets[p] \in Seq(Packet)
<1>1. wrt.packet \in Packet /\ fmt.packet \in Packet
  BY TypeParts DEF WriteStates, FormatStates
<1>2. <<wrt.packet>> \in Seq(Packet) /\ <<fmt.packet>> \in Seq(Packet) /\ <<>> \in Seq(Packet)
  BY <1>1
<1> QED
  BY <1>2, TypeParts DEF InWrite, InFormat

LEMMA JoinInOrder ==
    ASSUME NEW s \in Seq(Packet), NEW t \in Seq(Packet), NEW p,
           InOrder(s, p), InOrder(t, p), Before(Ids(s, p), Ids(t, p))
    PROVE  InOrder(s \o t, p)
BY Stretches, Zenon

LEMMA JoinIds ==
    ASSUME NEW s \in Seq(Packet), NEW t \in Seq(Packet), NEW p
    PROVE  \A x : x \in Ids(s \o t, p) <=> x \in Ids(s, p) \/ x \in Ids(t, p)
BY Stretches

\* The same for five of them.
LEMMA FiveStretches ==
    ASSUME NEW s1 \in Seq(Packet), NEW s2 \in Seq(Packet), NEW s3 \in Seq(Packet),
           NEW s4 \in Seq(Packet), NEW s5 \in Seq(Packet), NEW p
    PROVE  /\ Ids(s1 \o s2 \o s3 \o s4 \o s5, p) =
                 Ids(s1, p) \cup Ids(s2, p) \cup Ids(s3, p) \cup Ids(s4, p) \cup Ids(s5, p)
           /\ (/\ InOrder(s1, p) /\ InOrder(s2, p) /\ InOrder(s3, p) /\ InOrder(s4, p)
               /\ InOrder(s5, p)
               /\ Progress(Ids(s1, p), Ids(s2, p), Ids(s3, p), Ids(s4, p), Ids(s5, p)))
              => InOrder(s1 \o s2 \o s3 \o s4 \o s5, p)
<1>1. s1 \o s2 \in Seq(Packet)
  BY Stretches
<1>2. \A x : x \in Ids(s1 \o s2, p) <=> x \in Ids(s1, p) \/ x \in Ids(s2, p)
  BY JoinIds, Zenon
<1>3. s1 \o s2 \o s3 \in Seq(Packet)
  BY <1>1, Stretches
<1>4. \A x : x \in Ids(s1 \o s2 \o s3, p) <=> x \in Ids(s1 \o s2, p) \/ x \in Ids(s3, p)
  BY <1>1, JoinIds, Zenon
<1>5. s1 \o s2 \o s3 \o s4 \in Seq(Packet)
  BY <1>3, Stretches
<1>6. \A x : x \in Ids(s1 \o s2 \o s3 \o s4, p) <=> x \in Ids(s1 \o s2 \o s3, p) \/ x \in Ids(s4, p)
  BY <1>3, JoinIds, Zenon
<1>7. s1 \o s2 \o s3 \o s4 \o s5 \in Seq(Packet)
  BY <1>5, Stretches
<1>8. \A x : x \in Ids(s1 \o s2 \o s3 \o s4 \o s5, p) <=> x \in Ids(s1 \o s2 \o s3 \o s4, p) \/ x \in Ids(s5, p)
  BY <1>5, JoinIds, Zenon
<1>9. ASSUME InOrder(s1, p), InOrder(s2, p), InOrder(s3, p), InOrder(s4, p), InOrder(s5, p),
             Progress(Ids(s1, p), Ids(s2, p), Ids(s3, p), Ids(s4, p), Ids(s5, p))
      PROVE  InOrder(s1 \o s2 \o s3 \o s4 \o s5, p)
  <2>1. Before(Ids(s1, p), Ids(s2, p))
    BY <1>9 DEF Progress, Before
  <2>2. InOrder(s1 \o s2, p)
    BY <1>9, <2>1, JoinInOrder
  <2>3. Before(Ids(s1 \o s2, p), Ids(s3, p))
    BY <1>2, <1>9 DEF Progress, Before
  <2>4. InOrder(s1 \o s2 \o s3, p)
    BY <1>1, <2>2, <1>9, <2>3, JoinInOrder
  <2>5. Before(Ids(s1 \o s2 \o s3, p), Ids(s4, p))
    BY <1>2, <1>4, <1>9 DEF Progress, Before
  <2>6. InOrder(s1 \o s2 \o s3 \o s4, p)
    BY <1>3, <2>4, <1>9, <2>5, JoinInOrder
  <2>7. Before(Ids(s1 \o s2 \o s3 \o s4, p), Ids(s5, p))
    BY <1>2, <1>4, <1>6, <1>9 DEF Progress, Before
  <2>8. InOrder(s1 \o s2 \o s3 \o s4 \o s5, p)
    BY <1>5, <2>6, <1>9, <2>7, JoinInOrder
  <2> QED
    BY <2>8
<1> QED
  BY <1>2, <1>4, <1>6, <1>8, <1>9

\* Line(p) is in order if its parts are, and the parts are in the order of progress.
LEMMA LineOfParts ==
    ASSUME TypeOK, NEW p \in Producers
    PROVE  /\ Flow(p) => InOrder(Line(p), p)
           /\ Ids(Line(p), p) = Known(p)
<1>1. Line(p) = sent \o InWrite \o queue \o InFormat \o packets[p]
  BY DEF Line, Downstream, InWrite, InFormat
<1>2. /\ InWrite \in Seq(Packet) /\ InFormat \in Seq(Packet) /\ packets[p] \in Seq(Packet)
      /\ sent \in Seq(Packet) /\ queue \in Seq(Packet)
  BY HandTypes
<1>3. InOrder(InWrite, p) /\ InOrder(InFormat, p)
  BY IdsOfEmpty, IdsOfOne, TypeParts DEF InWrite, InFormat, WriteStates, FormatStates
<1>4. InOrder(queue, p)
  <2>1. Len(queue) <= 1
    BY TypeParts
  <2> SUFFICES ASSUME NEW i \in 1..Len(queue), NEW j \in 1..Len(queue), i < j PROVE FALSE
    BY DEF InOrder
  <2> QED
    BY <1>2, <2>1, LenProperties
<1> QED
  BY <1>1, <1>2, <1>3, <1>4, FiveStretches DEF Flow, Known

\* The head of a stretch, and one more packet at its end.
LEMMA HeadOfStretch ==
    ASSUME NEW s \in Seq(Packet), s # <<>>, NEW p
    PROVE  /\ Head(s) \in Packet /\ Tail(s) \in Seq(Packet)
           /\ Ids(s, p) = Ids(<<Head(s)>>, p) \cup Ids(Tail(s), p)
           /\ InOrder(s, p) => InOrder(Tail(s), p) /\ Before(Ids(<<Head(s)>>, p), Ids(Tail(s), p))
<1>1. Head(s) \in Packet /\ Tail(s) \in Seq(Packet) /\ <<Head(s)>> \in Seq(Packet)
  BY HeadTailProperties
<1>2. s = <<Head(s)>> \o Tail(s)
  <2> DEFINE u == <<Head(s)>> \o Tail(s)
  <2>1. /\ u \in Seq(Packet) /\ Len(u) = Len(<<Head(s)>>) + Len(Tail(s))
        /\ \A i \in 1..Len(<<Head(s)>>) + Len(Tail(s)) :
              u[i] = IF i <= Len(<<Head(s)>>) THEN <<Head(s)>>[i] ELSE Tail(s)[i - Len(<<Head(s)>>)]
    BY <1>1, ConcatProperties
  <2>2. Len(<<Head(s)>>) = 1 /\ <<Head(s)>>[1] = Head(s) /\ Head(s) = s[1]
    OBVIOUS
  <2>3. /\ Len(s) \in Nat \ {0} /\ Len(Tail(s)) = Len(s) - 1
        /\ \A i \in 1..Len(Tail(s)) : Tail(s)[i] = s[i + 1]
    BY HeadTailProperties, EmptySeq
  <2> HIDE DEF u
  <2>4. Len(u) = Len(s)
    BY <2>1, <2>2, <2>3
  <2>5. ASSUME NEW i \in 1..Len(s) PROVE u[i] = s[i]
    <3>1. CASE i = 1
      BY <2>1, <2>2, <2>3, <3>1
    <3>2. CASE i # 1
      <4>1. i - 1 \in 1..Len(Tail(s)) /\ (i - 1) + 1 = i /\ ~(i <= 1)
        BY <2>3, <3>2
      <4> QED
        BY <2>1, <2>2, <2>3, <4>1
    <3> QED
      BY <3>1, <3>2
  <2>6. u = s
    BY <2>1, <2>4, <2>5, SeqEqual
  <2> QED
    BY <2>6 DEF u
<1>3. /\ Ids(<<Head(s)>> \o Tail(s), p) = Ids(<<Head(s)>>, p) \cup Ids(Tail(s), p)
      /\ InOrder(<<Head(s)>> \o Tail(s), p) =>
            InOrder(Tail(s), p) /\ Before(Ids(<<Head(s)>>, p), Ids(Tail(s), p))
  BY <1>1, Stretches, Zenon
<1> QED
  BY <1>1, <1>2, <1>3, Zenon

LEMMA EndOfStretch ==
    ASSUME NEW s \in Seq(Packet), NEW k \in Packet, NEW p
    PROVE  /\ Ids(Append(s, k), p) = Ids(s, p) \cup Ids(<<k>>, p)
           /\ InOrder(Append(s, k), p) <=> InOrder(s, p) /\ Before(Ids(s, p), Ids(<<k>>, p))
<1>1. <<k>> \in Seq(Packet) /\ Append(s, k) = s \o <<k>>
  BY AppendIsConcat
<1>2. /\ Ids(s \o <<k>>, p) = Ids(s, p) \cup Ids(<<k>>, p)
      /\ InOrder(s \o <<k>>, p) <=>
            InOrder(s, p) /\ InOrder(<<k>>, p) /\ Before(Ids(s, p), Ids(<<k>>, p))
  BY <1>1, Stretches, Zenon
<1> QED
  BY <1>1, <1>2, IdsOfOne

\* A step that moves packets, if any, but not past each other.
LEMMA SameFlow ==
    ASSUME Flows, UNCHANGED appended,
           \A p \in Producers : Flow(p)' /\ Known(p)' = Known(p)
    PROVE  Flows'
BY DEF Flows

\* the format thread takes the first packet of a list
LEMMA FlowFormatNext ==
    ASSUME TypeOK, FlowInv, FormatNext
    PROVE  FlowInv'
<1> USE DEF FlowInv
<1>1. /\ UNCHANGED <<appended, queue, swapped, wrt, sent, closed, closer, cleaned, lost>>
      /\ fmt.packet = NoPacket
  BY DEF FormatNext, closing
<1>2. CASE UNCHANGED packets /\ \E pc \in {"exit", "clear"} : fmt' = FormatAt(pc)
  <2>1. fmt'.packet = NoPacket
    BY <1>2 DEF FormatAt
  <2>2. UNCHANGED <<InFormat, InWrite>>
    BY <1>1, <2>1 DEF InFormat, InWrite
  <2>3. Flows => Flows'
    BY <1>1, <1>2, <2>2 DEF Flows, Flow, Known
  <2> QED
    BY <1>1, <1>2, <2>1, <2>3 DEF Own
<1>3. CASE /\ HavePackets
           /\ packets' = [packets EXCEPT ![next_packet.of] = next_packet.rest]
           /\ \E more \in BOOLEAN :
                 fmt' = [pc |-> "clear", packet |-> next_packet.packet, more |-> more]
  <2> DEFINE q == IF packets["ordinary"] # <<>> THEN "ordinary" ELSE "draw"
             k == Head(packets[q])
  <2>1. next_packet = [of |-> q, packet |-> k, rest |-> Tail(packets[q])]
    BY DEF next_packet
  <2>2. q \in Producers /\ packets[q] # <<>>
    BY <1>3 DEF HavePackets, Producers
  <2> HIDE DEF q
  <2>3. packets \in [Producers -> Seq(Packet)] /\ packets[q] \in Seq(Packet)
    BY <2>2, TypeParts
  <2>4. /\ packets' = [packets EXCEPT ![q] = Tail(packets[q])]
        /\ fmt'.pc = "clear" /\ fmt'.packet = k
    BY <1>3, <2>1
  <2>5. k \in Packet
    BY <2>2, <2>3, HeadOfStretch
  <2> HIDE DEF k
  <2>6. InFormat = <<>> /\ InWrite' = InWrite
    BY <1>1 DEF InFormat, InWrite
  <2>7. ASSUME NEW p \in Producers PROVE Ids(InFormat', p) = Ids(<<k>>, p)
    <3>1. CASE k = NoPacket
      <4>1. Ids(<<k>>, p) = {}
        BY <2>5, <3>1, IdsOfOne DEF NoPacket, Producers
      <4> QED
        BY <2>4, <3>1, <4>1, IdsOfEmpty DEF InFormat
    <3>2. CASE k # NoPacket
      BY <2>4, <3>2 DEF InFormat
    <3> QED
      BY <3>1, <3>2
  <2>9. k.of = q
    <3>1. Head(packets[q]) = packets[q][1] /\ 1 \in 1..Len(packets[q])
      BY <2>2, <2>3, EmptySeq
    <3> QED
      BY <2>2, <3>1 DEF Own, k
  <2>10. Own'
    <3> SUFFICES ASSUME NEW p \in Producers, NEW i \in 1..Len(packets'[p])
                 PROVE  packets'[p][i].of = p
      BY DEF Own
    <3>1. CASE p = q
      <4>1. packets'[p] = Tail(packets[p])
        BY <2>2, <2>3, <2>4, <3>1
      <4>2. /\ Len(packets[p]) \in Nat /\ Len(Tail(packets[p])) = Len(packets[p]) - 1
            /\ Tail(packets[p])[i] = packets[p][i + 1]
        BY <2>2, <2>3, <3>1, <4>1, HeadTailProperties, LenProperties
      <4>3. i + 1 \in 1..Len(packets[p])
        BY <4>1, <4>2
      <4> QED
        BY <4>1, <4>2, <4>3 DEF Own
    <3>2. CASE p # q
      BY <2>3, <2>4, <3>2 DEF Own
    <3> QED
      BY <3>1, <3>2
  <2>8. ASSUME Flows, NEW p \in Producers PROVE Flow(p)' /\ Known(p)' = Known(p)
    <3>1. Flow(p) /\ Ids(InFormat, p) = {}
      BY <2>6, <2>8, IdsOfEmpty DEF Flows
    <3>2. CASE p = q
      <4>1. packets'[p] = Tail(packets[p])
        BY <2>2, <2>3, <2>4, <3>2
      <4>2. /\ Ids(packets[p], p) = Ids(<<k>>, p) \cup Ids(packets'[p], p)
            /\ InOrder(packets[p], p) => InOrder(packets'[p], p)
                                         /\ Before(Ids(<<k>>, p), Ids(packets'[p], p))
        BY <2>2, <2>3, <3>2, <4>1, HeadOfStretch DEF k
      <4> QED
        BY <1>1, <2>6, <2>7, <3>1, <4>2 DEF Flow, Known, Progress, Before
    <3>3. CASE p # q
      <4>1. packets'[p] = packets[p]
        BY <2>3, <2>4, <3>3
      <4>2. k.of # p
        BY <2>9, <3>3
      <4>3. Ids(<<k>>, p) = {}
        BY <2>5, <4>2, IdsOfOne
      <4> QED
        BY <1>1, <2>6, <2>7, <3>1, <4>1, <4>3 DEF Flow, Known, Progress, Before
    <3> QED
      BY <3>2, <3>3
  <2> QED
    BY <1>1, <2>4, <2>8, <2>10, SameFlow
<1> QED
  BY <1>2, <1>3 DEF FormatNext

\* A step that leaves every packet where it is, or closes the connection, or after which
\* it is lost.
LEMMA FlowStays ==
    ASSUME FlowInv, UNCHANGED <<packets, appended>>,
           fmt'.pc \in {"unborn", "check", "wait", "exit"} => fmt'.packet = NoPacket,
           ~closed' => ~swapped' /\ ~cleaned' /\ closer' = "no",
           \/ closed' \/ lost'
           \/ UNCHANGED <<sent, queue, closed, lost, InWrite, InFormat>>
    PROVE  FlowInv'
<1>1. Own'
  BY DEF FlowInv, Own
<1>2. ASSUME ~closed', ~lost' PROVE Flows'
  <2>1. UNCHANGED <<sent, queue, InWrite, InFormat>> /\ ~closed /\ ~lost
    BY <1>2
  <2>2. Flows
    BY <2>1 DEF FlowInv
  <2> QED
    BY <2>1, <2>2 DEF Flows, Flow, Known
<1> QED
  BY <1>1, <1>2 DEF FlowInv

LEMMA FlowFormatGoes ==
    ASSUME TypeOK, FlowInv,
           \/ \E p \in Producers : source_has_more(p)
           \/ SourceCleanup \/ FormatCheck \/ FormatClear \/ FormatEncode \/ FormatLock
           \/ FormatFetch \/ FormatError
    PROVE  FlowInv'
<1>1. /\ UNCHANGED <<packets, appended, queue, swapped, sent, closed, closer, cleaned>>
      /\ wrt' = wrt \/ (wrt.pc = "unborn" /\ wrt' = WriteAt("check"))
      /\ lost' = lost \/ lost' \/ closed'
  <2>1. lost \in BOOLEAN /\ closed \in BOOLEAN
    BY TypeParts
  <2>2. CASE \E p \in Producers : source_has_more(p)
    BY <2>2 DEF source_has_more, closing
  <2>3. CASE FormatError
    BY <2>1, <2>3 DEF FormatError, source
  <2>4. CASE SourceCleanup \/ FormatCheck \/ FormatClear \/ FormatEncode \/ FormatFetch
    BY <2>4 DEF SourceCleanup, FormatCheck, FormatClear, FormatEncode, FormatFetch, source, closing
  <2>5. CASE FormatLock
    BY <2>5 DEF FormatLock, source, closing
  <2> QED
    BY <2>2, <2>3, <2>4, <2>5
<1>2. InWrite' = InWrite
  BY <1>1 DEF InWrite, WriteAt
<1>3. fmt \in FormatStates /\ closed \in BOOLEAN
  BY TypeParts
<1>4. \/ fmt' = fmt
      \/ /\ closed \/ lost' \/ fmt.packet = NoPacket
         /\ \E pc \in {"check", "wait", "exit"} : fmt' = FormatAt(pc)
      \/ \E pc \in {"encode", "lock", "fetch", "put"}, more \in BOOLEAN :
            fmt' = [fmt EXCEPT !.pc = pc, !.more = more]
  <2>1. CASE \E p \in Producers : source_has_more(p)
    BY <2>1 DEF source_has_more, FlowInv
  <2>2. CASE SourceCleanup
    BY <2>2 DEF SourceCleanup
  <2>3. CASE FormatCheck
    BY <2>3 DEF FormatCheck, FlowInv
  <2>4. CASE FormatClear
    BY <2>4 DEF FormatClear
  <2>5. ASSUME NEW pc \in {"lock", "fetch", "put"}, fmt' = [fmt EXCEPT !.pc = pc]
        PROVE  fmt.more \in BOOLEAN /\ fmt' = [fmt EXCEPT !.pc = pc, !.more = fmt.more]
    BY <1>3, <2>5 DEF FormatStates
  <2>6. CASE FormatEncode
    BY <2>5, <2>6 DEF FormatEncode, FlowInv
  <2>7. CASE FormatLock
    BY <2>5, <2>7 DEF FormatLock
  <2>8. CASE FormatFetch
    BY <2>5, <2>8 DEF FormatFetch, FlowInv
  <2>9. CASE FormatError
    BY <2>9 DEF FormatError
  <2> QED
    BY <2>1, <2>2, <2>3, <2>4, <2>6, <2>7, <2>8, <2>9
<1>5. /\ fmt'.pc \in {"unborn", "check", "wait", "exit"} => fmt'.packet = NoPacket
      /\ closed \/ lost' \/ fmt'.packet = fmt.packet
  <2>1. CASE fmt' = fmt
    BY <2>1 DEF FlowInv
  <2>2. CASE \E pc \in {"encode", "lock", "fetch", "put"}, more \in BOOLEAN :
                fmt' = [fmt EXCEPT !.pc = pc, !.more = more]
    BY <1>3, <2>2 DEF FormatStates
  <2>3. CASE /\ closed \/ lost' \/ fmt.packet = NoPacket
             /\ \E pc \in {"check", "wait", "exit"} : fmt' = FormatAt(pc)
    BY <2>3 DEF FormatAt
  <2> QED
    BY <1>4, <2>1, <2>2, <2>3
<1>6. \/ closed' \/ lost'
      \/ UNCHANGED <<sent, queue, closed, lost, InWrite, InFormat>>
  BY <1>1, <1>2, <1>5 DEF InFormat
<1> QED
  BY <1>1, <1>5, <1>6, FlowStays DEF FlowInv

LEMMA FlowOthersGo ==
    ASSUME TypeOK, FlowInv,
           \/ WriteCheck \/ WriteFetch \/ WriteAbort \/ WriteError
           \/ Close \/ Clean \/ ConnectionLost
           \/ FlushBegin \/ FlushLock \/ FlushLockTimeout \/ FlushRetry \/ FlushGiveUp
           \/ FlushLast \/ FlushRaises \/ FlushFetch \/ FlushSent \/ FlushLate \/ FlushRelease
    PROVE  FlowInv'
<1>1. UNCHANGED <<packets, appended, fmt, sent>>
  BY DEF WriteCheck, WriteFetch, WriteAbort, WriteError, Close, CloseDrain, CloseMark, Clean,
         ConnectionLost, FlushBegin, FlushLock, FlushLockTimeout, FlushRetry, FlushGiveUp,
         FlushLast, FlushRaises, FlushFetch, FlushSent, FlushLate, FlushRelease, CloseThen,
         CloseBegin, source
<1>2. /\ ~closed' => ~swapped' /\ ~cleaned' /\ closer' = "no"
      /\ closed' \/ UNCHANGED <<queue, closed, lost, InWrite>>
  <2>1. CASE WriteCheck \/ WriteFetch \/ WriteAbort \/ FlushBegin \/ FlushLock \/ FlushRetry
             \/ FlushLast \/ FlushRaises \/ FlushFetch \/ FlushRelease
    <3>1. UNCHANGED <<queue, swapped, closing>>
          /\ \/ closed \/ wrt' = wrt
             \/ wrt.pc \in {"unborn", "check", "fetch"} /\ wrt'.pc \in {"check", "exit", "fetch", "get"}
      <4>1. CASE WriteCheck \/ WriteFetch
        BY <4>1 DEF WriteCheck, WriteFetch, WriteAt
      <4>2. CASE WriteAbort
        BY <4>2 DEF WriteAbort
      <4>3. CASE FlushBegin \/ FlushLock \/ FlushRetry \/ FlushLast \/ FlushRaises \/ FlushFetch
                 \/ FlushRelease
        BY <4>3 DEF FlushBegin, FlushLock, FlushRetry, FlushLast, FlushRaises, FlushFetch,
                    FlushRelease, WriteAt
      <4> QED
        BY <2>1, <4>1, <4>2, <4>3
    <3>2. closed \/ InWrite' = InWrite
      BY <3>1 DEF InWrite
    <3> QED
      BY <3>1, <3>2 DEF FlowInv, closing
  <2>2. CASE WriteError \/ ConnectionLost
    BY <2>2 DEF WriteError, ConnectionLost, CloseBegin
  <2>3. CASE Close \/ Clean
    <3>1. closer # "no" /\ closed' = closed
      BY <2>3 DEF Close, CloseDrain, CloseMark, Clean
    <3> QED
      BY <3>1 DEF FlowInv
  <2>4. CASE FlushLockTimeout \/ FlushGiveUp \/ FlushSent \/ FlushLate
    <3>1. closed'
      BY <2>4 DEF FlushLockTimeout, FlushGiveUp, FlushSent, FlushLate, CloseThen, CloseBegin
    <3> QED
      BY <3>1
  <2> QED
    BY <2>1, <2>2, <2>3, <2>4
<1>3. InFormat' = InFormat
  BY <1>1 DEF InFormat
<1> QED
  BY <1>1, <1>2, <1>3, FlowStays DEF FlowInv

\* The next packet of a producer is behind all of them.
LEMMA FlowQueuePacket ==
    ASSUME TypeOK, FlowInv, NEW q \in Producers, QueuePacket(q)
    PROVE  FlowInv'
<1> USE DEF FlowInv
<1> DEFINE k == [id |-> appended + 1, of |-> q]
<1>1. /\ UNCHANGED <<fmt, queue, swapped, wrt, sent, closed, closer, cleaned, lost>>
      /\ appended' = appended + 1 /\ appended < MaxPackets
      /\ packets' = [packets EXCEPT ![q] = Append(packets[q], k)]
  BY DEF QueuePacket, closing
<1>2. packets \in [Producers -> Seq(Packet)] /\ appended \in 0..MaxPackets
  BY TypeParts
<1>3. appended + 1 \in 0..MaxPackets
  BY <1>1, <1>2, OutputAssumption
<1>4. k \in Packet
  BY <1>3, PacketTypes, OrdinaryIsPacket
<1>5. k.of = q /\ k.id = appended + 1
  OBVIOUS
<1> HIDE DEF k
<1>6. packets[q] \in Seq(Packet) /\ packets'[q] = Append(packets[q], k)
  BY <1>1, <1>2
<1>7. UNCHANGED <<InWrite, InFormat>>
  BY <1>1 DEF InWrite, InFormat
<1>8. Own'
  <2> SUFFICES ASSUME NEW p \in Producers, NEW i \in 1..Len(packets'[p])
               PROVE  packets'[p][i].of = p
    BY DEF Own
  <2>1. CASE p = q
    <3>1. /\ Len(packets'[p]) = Len(packets[p]) + 1 /\ Len(packets[p]) \in Nat
          /\ i \in 1..Len(packets[p]) => packets'[p][i] = packets[p][i]
          /\ packets'[p][Len(packets[p]) + 1] = k
      BY <1>4, <1>6, <2>1, AppendProperties, LenProperties
    <3>2. CASE i = Len(packets[p]) + 1
      BY <1>5, <2>1, <3>1, <3>2
    <3>3. CASE i \in 1..Len(packets[p])
      BY <3>1, <3>3 DEF Own
    <3> QED
      BY <3>1, <3>2, <3>3
  <2>2. CASE p # q
    BY <1>1, <1>2, <2>2 DEF Own
  <2> QED
    BY <2>1, <2>2
<1>9. ASSUME Flows PROVE Flows'
  <2>1. UNION {Known(p) : p \in Producers} = 1..appended
    BY <1>9 DEF Flows
  <2>2. ASSUME NEW p \in Producers, NEW x \in Known(p) PROVE x \in 1..appended
    <3>1. x \in UNION {Known(r) : r \in Producers}
      BY <2>2, Zenon
    <3> QED
      BY <2>1, <3>1
  <2>3. Ids(<<k>>, q) = {appended + 1}
    BY <1>4, <1>5, IdsOfOne
  <2>4. \A x \in Known(q) : x < appended + 1
    <3>1. \A x \in 1..appended : x < appended + 1
      BY <1>2
    <3> QED
      BY <2>2, <3>1
  <2>5. Before(Known(q), Ids(<<k>>, q))
    BY <2>3, <2>4 DEF Before
  <2>6. /\ \A x : x \in Ids(packets'[q], q) <=> x \in Ids(packets[q], q) \/ x \in Ids(<<k>>, q)
        /\ InOrder(packets'[q], q) <=>
              InOrder(packets[q], q) /\ Before(Ids(packets[q], q), Ids(<<k>>, q))
    BY <1>4, <1>6, EndOfStretch
  <2>7. Flow(q)'
    <3>1. Flow(q)
      BY <1>9 DEF Flows
    <3> QED
      BY <1>1, <1>7, <2>5, <2>6, <3>1 DEF Flow, Known, Progress, Before
  <2>8. \A x : x \in Known(q)' <=> x \in Known(q) \/ x = appended + 1
    BY <1>1, <1>7, <2>3, <2>6 DEF Known
  <2>9. ASSUME NEW p \in Producers, p # q PROVE Flow(p)' /\ Known(p)' = Known(p)
    <3>1. packets'[p] = packets[p]
      BY <1>1, <1>2, <2>9
    <3> QED
      BY <1>1, <1>7, <1>9, <3>1 DEF Flows, Flow, Known
  <2>10. UNION {Known(p)' : p \in Producers} = 1..appended + 1
    <3>1. ASSUME NEW x \in UNION {Known(p)' : p \in Producers} PROVE x \in 1..appended + 1
      <4>1. PICK p \in Producers : x \in Known(p)'
        BY <3>1
      <4>2. x \in Known(p) \/ x = appended + 1
        BY <2>8, <2>9, <4>1
      <4>3. x \in 1..appended \/ x = appended + 1
        BY <2>2, <4>2
      <4> QED
        BY <1>2, <4>3
    <3>2. ASSUME NEW x \in 1..appended + 1 PROVE x \in UNION {Known(p)' : p \in Producers}
      <4>1. CASE x \in 1..appended
        <5>1. PICK p \in Producers : x \in Known(p)
          BY <2>1, <4>1
        <5>2. x \in Known(p)'
          BY <2>8, <2>9, <5>1
        <5> QED
          BY <5>2
      <4>2. CASE x = appended + 1
        <5>1. x \in Known(q)'
          BY <2>8, <4>2
        <5> QED
          BY <5>1
      <4> QED
        BY <1>2, <4>1, <4>2
    <3> QED
      BY <3>1, <3>2
  <2> QED
    BY <1>1, <2>7, <2>9, <2>10 DEF Flows
<1> QED
  BY <1>1, <1>8, <1>9

\* The packet goes from the format thread to the queue, from the queue to the write
\* thread, and to the socket.
LEMMA FlowMoves ==
    ASSUME TypeOK, FlowInv, FormatPut \/ WriteGet \/ WriteDone \/ FlushPut
    PROVE  FlowInv'
<1>1. /\ UNCHANGED <<packets, appended, swapped, closed, closer, cleaned, lost>>
      /\ fmt' = fmt \/ fmt' = FormatAt("check")
  BY DEF FormatPut, WriteGet, WriteDone, FlushPut, source, closing
<1>2. fmt'.pc \in {"unborn", "check", "wait", "exit"} => fmt'.packet = NoPacket
  BY <1>1 DEF FlowInv, FormatAt
<1>3. /\ InWrite \in Seq(Packet) /\ queue \in Seq(Packet) /\ sent \in Seq(Packet)
      /\ Len(queue) <= 1 /\ fmt \in FormatStates /\ wrt \in WriteStates
  BY HandTypes, TypeParts
<1>4. fmt.packet \in Packet /\ wrt.packet \in Packet
  BY <1>3 DEF FormatStates, WriteStates
<1>5. ASSUME Flows, NEW p \in Producers PROVE Flow(p)' /\ Known(p)' = Known(p)
  <2>1. Flow(p)
    BY <1>5 DEF Flows
  <2>2. Ids(<<>>, p) = {}
    BY IdsOfEmpty
  <2>3. CASE FormatPut
    <3>1. queue = <<>> /\ queue' = <<fmt.packet>> /\ InFormat' = <<>>
          /\ UNCHANGED <<sent, wrt, packets>>
      BY <2>3 DEF FormatPut, InFormat, FormatAt, source
    <3>2. Ids(<<fmt.packet>>, p) = Ids(InFormat, p)
      <4>1. CASE fmt.packet = NoPacket
        <5>1. Ids(<<NoPacket>>, p) = {}
          BY PacketTypes, IdsOfOne DEF NoPacket, Producers
        <5> QED
          BY <2>2, <4>1, <5>1 DEF InFormat
      <4>2. CASE fmt.packet # NoPacket
        BY <4>2 DEF InFormat
      <4> QED
        BY <4>1, <4>2
    <3>3. InWrite' = InWrite
      BY <3>1 DEF InWrite
    <3> QED
      BY <2>1, <2>2, <3>1, <3>2, <3>3 DEF Flow, Known, Progress, Before
  <2>4. CASE WriteGet
    <3>1. /\ queue # <<>> /\ queue' = Tail(queue) /\ UNCHANGED <<sent, fmt, packets>>
          /\ InWrite = <<>> /\ InWrite' = IF Head(queue) = Marker THEN <<>> ELSE <<Head(queue)>>
      BY <2>4 DEF WriteGet, InWrite, WriteAt, source
    <3>2. Head(queue) \in Packet /\ Tail(queue) = <<>>
      BY <1>3, <3>1, QueueShape
    <3>3. \A x : x \in Ids(queue, p) <=> x \in Ids(<<Head(queue)>>, p)
      <4>1. Ids(queue, p) = Ids(<<Head(queue)>>, p) \cup Ids(Tail(queue), p)
        BY <1>3, <3>1, HeadOfStretch
      <4> QED
        BY <2>2, <3>2, <4>1
    <3>4. Ids(InWrite', p) = Ids(<<Head(queue)>>, p)
      <4>1. CASE Head(queue) = Marker
        <5>1. Ids(<<Marker>>, p) = {}
          BY PacketTypes, IdsOfOne DEF Marker, Producers
        <5> QED
          BY <2>2, <3>1, <4>1, <5>1
      <4>2. CASE Head(queue) # Marker
        BY <3>1, <4>2
      <4> QED
        BY <4>1, <4>2
    <3>5. InFormat' = InFormat
      BY <3>1 DEF InFormat
    <3> QED
      BY <2>1, <2>2, <3>1, <3>2, <3>3, <3>4, <3>5 DEF Flow, Known, Progress, Before
  <2>5. CASE WriteDone
    <3>1. /\ sent' = Append(sent, wrt.packet) /\ UNCHANGED <<queue, fmt, packets>>
          /\ InWrite = <<wrt.packet>> /\ InWrite' = <<>>
      BY <2>5 DEF WriteDone, InWrite, WriteAt, source
    <3>2. /\ \A x : x \in Ids(sent', p) <=> x \in Ids(sent, p) \/ x \in Ids(InWrite, p)
          /\ InOrder(sent', p) <=> InOrder(sent, p) /\ Before(Ids(sent, p), Ids(InWrite, p))
      BY <1>3, <1>4, <3>1, EndOfStretch
    <3>3. InFormat' = InFormat
      BY <3>1 DEF InFormat
    <3> QED
      BY <2>1, <2>2, <3>1, <3>2, <3>3 DEF Flow, Known, Progress, Before
  <2>6. CASE FlushPut
    <3>1. /\ queue = <<>> /\ queue' = <<Last>> /\ UNCHANGED <<sent, fmt, packets>>
          /\ InWrite' = InWrite
      BY <2>6 DEF FlushPut, InWrite, source
    <3>2. Ids(<<Last>>, p) = {}
      BY PacketTypes, IdsOfOne DEF Last, Producers
    <3>3. InFormat' = InFormat
      BY <3>1 DEF InFormat
    <3> QED
      BY <2>1, <2>2, <3>1, <3>2, <3>3 DEF Flow, Known, Progress, Before
  <2> QED
    BY <2>3, <2>4, <2>5, <2>6
<1>6. Flows => Flows'
  BY <1>1, <1>5, SameFlow
<1>7. Own'
  BY <1>1 DEF FlowInv, Own
<1> QED
  BY <1>1, <1>2, <1>6, <1>7 DEF FlowInv

LEMMA FlowUnchanged ==
    ASSUME FlowInv, UNCHANGED vars
    PROVE  FlowInv'
<1>1. UNCHANGED <<packets, appended, fmt, swapped, cleaned, closer, closed, lost, sent, queue, wrt>>
  BY DEF vars, source, closing
<1>2. UNCHANGED <<InWrite, InFormat>>
  BY <1>1 DEF InWrite, InFormat
<1> QED
  BY <1>1, <1>2, FlowStays DEF FlowInv

LEMMA FlowInvariance == Spec => []FlowInv
<1>1. Init => FlowInv
  <2> SUFFICES ASSUME Init PROVE FlowInv
    OBVIOUS
  <2>1. /\ sent = <<>> /\ InWrite = <<>> /\ queue = <<>> /\ InFormat = <<>>
        /\ \A p \in Producers : packets[p] = <<>>
    BY DEF Init, InWrite, InFormat, FormatAt, WriteAt
  <2>2. ASSUME NEW p \in Producers PROVE Flow(p) /\ Known(p) = {}
    BY <2>1, IdsOfEmpty DEF Flow, Known, Progress, Before
  <2>3. 1..appended = {}
    BY DEF Init
  <2>4. Flows
    BY <2>2, <2>3 DEF Flows
  <2>5. Own
    BY <2>1 DEF Own
  <2> QED
    BY <2>4, <2>5 DEF Init, FlowInv, FormatAt
<1>2. IndInv /\ FlowInv /\ [Next]_vars => FlowInv'
  <2> SUFFICES ASSUME TypeOK, FlowInv, [Next]_vars PROVE FlowInv'
    BY DEF IndInv
  <2>1. CASE Format
    BY <2>1, FlowFormatGoes, FlowFormatNext, FlowMoves DEF Format
  <2>2. CASE Flush
    BY <2>2, FlowOthersGo, FlowMoves DEF Flush
  <2>3. CASE Write \/ WriteDone \/ WriteError \/ Close \/ Clean \/ ConnectionLost
    BY <2>3, FlowOthersGo, FlowMoves DEF Write
  <2>4. CASE \/ \E p \in Producers : QueuePacket(p) \/ source_has_more(p)
             \/ SourceCleanup \/ FormatError \/ FlushBegin \/ FlushRaises
    BY <2>4, FlowQueuePacket, FlowFormatGoes, FlowOthersGo
  <2> QED
    BY <2>1, <2>2, <2>3, <2>4, FlowUnchanged DEF Next
<1> QED
  BY <1>1, <1>2, Invariance, PTL DEF Spec

----------------------------------------------------------------------------
(* The theorems.                                                            *)

\* The variables have their types: the write queue holds one packet, and done_callback is
\* called twice at most, by wait_for_packet_sent and by the timer of 5s.
THEOREM TypeCorrect == Spec => []TypeOK
<1>1. IndInv => TypeOK
  BY DEF IndInv
<1> QED
  BY <1>1, Invariance, PTL

\* The packet given to flush_then_close (the disconnect message) is the last one on the
\* wire, however the producers, the threads, the timers and the errors interleave.
THEOREM DisconnectIsLast == Spec => []LastIsLast
<1>1. IndInv => LastIsLast
  BY DEF IndInv
<1> QED
  BY <1>1, Invariance, PTL

\* While the connection is open and no packet failed to encode, every packet that a
\* producer has queued is sent or on its way, once, and behind the packets that the same
\* producer has queued before it.
THEOREM PacketsKeepOrder == Spec => []NoneLostOrSwapped
<1>1. IndInv /\ FlowInv => NoneLostOrSwapped
  <2> SUFFICES ASSUME TypeOK, FlowInv, ~closed, ~lost
               PROVE  /\ \A p \in Producers : InOrder(Line(p), p)
                      /\ UNION {Ids(Line(p), p) : p \in Producers} = 1..appended
    BY DEF IndInv, NoneLostOrSwapped
  <2>1. Flows
    BY DEF FlowInv
  <2>2. \A p \in Producers : InOrder(Line(p), p) /\ Ids(Line(p), p) = Known(p)
    BY <2>1, LineOfParts DEF Flows
  <2> QED
    BY <2>1, <2>2 DEF Flows
<1> QED
  BY <1>1, Invariance, FlowInvariance, PTL

----------------------------------------------------------------------------
(* The encode thread.                                                       *)
(* For any number of callers, subsystems and items there is one thread at   *)
(* most, what frees resources runs after everything that uses them, and the *)
(* thread ends when it has run all that must run.                           *)
(*                                                                          *)
(* The argument is about ranks: what must run is calls and cleanup work     *)
(* first, then the calls for the end, then the marker, and the main loop    *)
(* alone queues what is above the first rank.  So the call that runs, the   *)
(* queue and the call that the main loop is about to make are sorted,       *)
(* whatever others queue meanwhile: that is optional, or of the first rank  *)
(* while there is no other, or too late to be among what must run.          *)

Must(item) == ~item.optional /\ item.kind # "late"
Rank(item) == IF item.kind = "marker" THEN 3 ELSE IF item.kind = "atend" THEN 2 ELSE 1

\* what must run, in order of rank, with one marker at most, within some ranks
Sorted(q) ==
    \A i, j \in 1..Len(q) : i < j /\ Must(q[i]) /\ Must(q[j]) =>
        Rank(q[i]) <= Rank(q[j]) /\ Rank(q[i]) < 3
Within(q, low, high) ==
    \A i \in 1..Len(q) : Must(q[i]) => low <= Rank(q[i]) /\ Rank(q[i]) <= high

GoodItems == {item \in Items : item.kind # "call" => ~item.optional}
NewItems == {item \in GoodItems : item.kind # "late"}
CallTypes == {<<>>} \cup {<<v>> : v \in [via : {"start", "put", "locked"}, item : NewItems]}

\* the highest rank that there may be
Top == IF stage = "stopped" THEN 3 ELSE IF stage = "cleanup" /\ todo = {} THEN 2 ELSE 1

\* the rank of the call that runs
Bottom == IF running = <<>> THEN 1 ELSE Rank(running[1])

Types ==
    /\ call \in [Callers -> CallTypes]
    /\ queueEncode \in {"start", "put"}
    /\ workQueue \in Seq(GoodItems) /\ running \in {<<>>} \cup {<<item>> : item \in GoodItems}
    /\ threads \in 0..1 /\ ended \in 0..1 /\ ended + Len(running) <= threads
    /\ stage \in {"open", "cleanup", "stopped", "failed"}

\* what the main loop is about to queue, if it must run
Coming == IF call[UI] # <<>> /\ Must(call[UI][1].item) THEN <<call[UI][1].item>> ELSE <<>>

\* what other threads queue
FromOthers(item) == item.optional \/ item.kind = "clean"

Ranks ==
    /\ \A c \in Callers \ {UI} : call[c] # <<>> => FromOthers(call[c][1].item)
    /\ Sorted(workQueue) /\ Within(workQueue, Bottom, Top)
    /\ Bottom <= Top
    /\ Coming # <<>> =>
          /\ Bottom <= Rank(Coming[1]) /\ Rank(Coming[1]) <= Top
          /\ Within(workQueue, 1, Rank(Coming[1])) /\ Within(workQueue, 1, 2)
    /\ ended > 0 => /\ stage = "stopped" /\ Coming = <<>>
                    /\ \A i \in 1..Len(workQueue) : ~Must(workQueue[i])

RankInv == Types /\ Ranks

----------------------------------------------------------------------------
(* Ranks and sequences.                                                     *)

LEMMA RankType == \A item \in GoodItems : Rank(item) \in 1..3
  BY DEF Rank

LEMMA ItemTypes ==
    /\ MARKER \in NewItems /\ Must(MARKER) /\ Rank(MARKER) = 3
    /\ Item("clean", FALSE) \in NewItems /\ Item("clean", FALSE).kind = "clean"
    /\ Item("late", FALSE) \in GoodItems /\ ~Must(Item("late", FALSE))
    /\ \A item \in GoodItems : item # MARKER /\ Must(item) => Rank(item) <= 2
    /\ \A optional \in BOOLEAN : /\ Item("call", optional) \in NewItems
                                 /\ Rank(Item("call", optional)) = 1
                                 /\ Must(Item("call", optional)) <=> ~optional
    /\ Item("cleanup", FALSE) \in NewItems /\ Must(Item("cleanup", FALSE))
    /\ Rank(Item("cleanup", FALSE)) = 1
    /\ Item("atend", FALSE) \in NewItems /\ Must(Item("atend", FALSE))
    /\ Rank(Item("atend", FALSE)) = 2
<1>1. \A kind \in Kinds, optional \in BOOLEAN :
         /\ Item(kind, optional) \in Items /\ Item(kind, optional).kind = kind
         /\ Item(kind, optional).optional = optional
  BY DEF Item, Items, Kinds
<1>2. {"call", "clean", "late", "cleanup", "atend", "marker"} \subseteq Kinds /\ FALSE \in BOOLEAN
  BY DEF Kinds
<1>3. /\ MARKER \in NewItems /\ Must(MARKER) /\ Rank(MARKER) = 3
  BY <1>1, <1>2 DEF MARKER, NewItems, GoodItems, Must, Rank
<1>4. \A item \in GoodItems : item # MARKER /\ Must(item) => Rank(item) <= 2
  <2>1. \A item \in Items : item.kind = "marker" /\ ~item.optional => item = MARKER
    BY DEF MARKER, Item, Items, Kinds
  <2> QED
    BY <2>1 DEF GoodItems, Must, Rank
<1>5. \A optional \in BOOLEAN : /\ Item("call", optional) \in NewItems
                                /\ Rank(Item("call", optional)) = 1
                                /\ Must(Item("call", optional)) <=> ~optional
  BY <1>1, <1>2 DEF NewItems, GoodItems, Must, Rank
<1>6. /\ Item("cleanup", FALSE) \in NewItems /\ Must(Item("cleanup", FALSE))
      /\ Rank(Item("cleanup", FALSE)) = 1
  BY <1>1, <1>2 DEF NewItems, GoodItems, Must, Rank
<1>7. /\ Item("atend", FALSE) \in NewItems /\ Must(Item("atend", FALSE))
      /\ Rank(Item("atend", FALSE)) = 2
  BY <1>1, <1>2 DEF NewItems, GoodItems, Must, Rank
<1>8. /\ Item("clean", FALSE) \in NewItems /\ Item("clean", FALSE).kind = "clean"
      /\ Item("late", FALSE) \in GoodItems /\ ~Must(Item("late", FALSE))
  BY <1>1, <1>2 DEF NewItems, GoodItems, Must
<1> QED
  BY <1>3, <1>4, <1>5, <1>6, <1>7, <1>8

\* An item at the end of the queue: an optional one, or one of the highest rank so far.
LEMMA AppendSorted ==
    ASSUME NEW q \in Seq(GoodItems), Sorted(q), NEW item \in GoodItems,
           Must(item) => Within(q, 1, Rank(item)) /\ Within(q, 1, 2)
    PROVE  /\ Append(q, item) \in Seq(GoodItems) /\ Sorted(Append(q, item))
           /\ \A low, high \in 1..3 :
                 /\ Within(q, low, high)
                 /\ Must(item) => low <= Rank(item) /\ Rank(item) <= high
                 => Within(Append(q, item), low, high)
           /\ (\A i \in 1..Len(q) : ~Must(q[i])) /\ ~Must(item) =>
                 \A i \in 1..Len(Append(q, item)) : ~Must(Append(q, item)[i])
<1> DEFINE a == Append(q, item)
<1>1. /\ a \in Seq(GoodItems) /\ Len(q) \in Nat /\ Len(a) = Len(q) + 1
      /\ a[Len(q) + 1] = item /\ \A i \in 1..Len(q) : a[i] = q[i] /\ q[i] \in GoodItems
  BY AppendProperties, LenProperties, ElementOfSeq
<1> HIDE DEF a
<1>2. \A i \in 1..Len(a) : i = Len(q) + 1 \/ i \in 1..Len(q)
  BY <1>1
<1>3. ASSUME NEW i \in 1..Len(a), NEW j \in 1..Len(a), i < j, Must(a[i]), Must(a[j])
      PROVE  Rank(a[i]) <= Rank(a[j]) /\ Rank(a[i]) < 3
  <2>1. i \in 1..Len(q) /\ a[i] = q[i] /\ Rank(q[i]) \in 1..3
    BY <1>1, <1>2, <1>3, RankType
  <2>2. CASE j \in 1..Len(q)
    BY <1>1, <1>3, <2>1, <2>2 DEF Sorted
  <2>3. CASE j = Len(q) + 1
    BY <1>1, <1>3, <2>1, <2>3 DEF Within
  <2> QED
    BY <1>2, <2>2, <2>3
<1>4. \A low, high \in 1..3 :
         /\ Within(q, low, high)
         /\ Must(item) => low <= Rank(item) /\ Rank(item) <= high
         => Within(a, low, high)
  BY <1>1, <1>2 DEF Within
<1>5. (\A i \in 1..Len(q) : ~Must(q[i])) /\ ~Must(item) => \A i \in 1..Len(a) : ~Must(a[i])
  BY <1>1, <1>2
<1>6. Sorted(a)
  BY <1>3 DEF Sorted
<1> QED
  BY <1>1, <1>4, <1>5, <1>6 DEF a

\* The queue without its first item, which the others are not below.
LEMMA TailSorted ==
    ASSUME NEW q \in Seq(GoodItems), q # <<>>, Sorted(q)
    PROVE  /\ Head(q) \in GoodItems /\ Tail(q) \in Seq(GoodItems) /\ Sorted(Tail(q))
           /\ \A low, high \in 1..3 : Within(q, low, high) => Within(Tail(q), low, high)
           /\ \A low, high \in 1..3 : Within(q, low, high) /\ Must(Head(q)) =>
                 /\ low <= Rank(Head(q)) /\ Rank(Head(q)) <= high
                 /\ Within(Tail(q), Rank(Head(q)), high)
           /\ Must(Head(q)) /\ Rank(Head(q)) = 3 => \A i \in 1..Len(Tail(q)) : ~Must(Tail(q)[i])
           /\ (\A i \in 1..Len(q) : ~Must(q[i])) =>
                 /\ ~Must(Head(q)) /\ \A i \in 1..Len(Tail(q)) : ~Must(Tail(q)[i])
<1> DEFINE t == Tail(q)
<1>1. /\ Head(q) \in GoodItems /\ t \in Seq(GoodItems)
      /\ Len(q) \in Nat \ {0} /\ Len(t) = Len(q) - 1
      /\ \A i \in 1..Len(t) : t[i] = q[i + 1]
  BY HeadTailProperties, EmptySeq
<1>2. Head(q) = q[1] /\ 1 \in 1..Len(q)
  BY <1>1
<1> HIDE DEF t
<1>3. \A i \in 1..Len(t) : i + 1 \in 1..Len(q) /\ 1 < i + 1 /\ t[i] = q[i + 1]
  BY <1>1
<1>4. Sorted(t)
  BY <1>1, <1>3, SMTT(40) DEF Sorted
<1>5. \A low, high \in 1..3 : Within(q, low, high) => Within(t, low, high)
  BY <1>3 DEF Within
<1>6. \A low, high \in 1..3 : Within(q, low, high) /\ Must(Head(q)) =>
         /\ low <= Rank(Head(q)) /\ Rank(Head(q)) <= high
         /\ Within(t, Rank(Head(q)), high)
  BY <1>2, <1>3 DEF Within, Sorted
<1>7. Must(Head(q)) /\ Rank(Head(q)) = 3 => \A i \in 1..Len(t) : ~Must(t[i])
  BY <1>2, <1>3 DEF Sorted
<1>8. (\A i \in 1..Len(q) : ~Must(q[i])) =>
         /\ ~Must(Head(q)) /\ \A i \in 1..Len(t) : ~Must(t[i])
  BY <1>2, <1>3
<1> QED
  BY <1>1, <1>4, <1>5, <1>6, <1>7, <1>8 DEF t

----------------------------------------------------------------------------
(* The steps.                                                               *)

LEMMA RangeOfRanks ==
    ASSUME RankInv
    PROVE  /\ Bottom \in 1..3 /\ Top \in 1..3 /\ Within(workQueue, 1, Top)
           /\ ended > 0 => running = <<>>
           /\ Coming # <<>> => Coming[1] \in GoodItems /\ Rank(Coming[1]) \in 1..3
<1>1. running = <<>> \/ running[1] \in GoodItems
  BY DEF RankInv, Types
<1>2. Bottom \in 1..3 /\ Top \in 1..3
  <2>1. Bottom \in 1..3
    BY <1>1, RankType DEF Bottom
  <2>2. Top \in 1..3
    BY DEF Top
  <2> QED
    BY <2>1, <2>2
<1>3. Within(workQueue, 1, Top)
  <2>1. \A j \in 1..Len(workQueue) : Rank(workQueue[j]) \in 1..3
    BY ElementOfSeq, RankType DEF RankInv, Types
  <2>2. Within(workQueue, Bottom, Top)
    BY DEF RankInv, Ranks
  <2> HIDE DEF RankInv, Bottom, Top
  <2> QED
    BY <2>1, <2>2 DEF Within
<1>4. ended > 0 => running = <<>>
  BY DEF RankInv, Types
<1>5. call[UI] \in CallTypes
  BY EncodeAssumption DEF RankInv, Types
<1>6. call[UI] # <<>> => call[UI][1].item \in GoodItems
  BY <1>5 DEF CallTypes, NewItems
<1>7. Coming # <<>> => Coming[1] \in GoodItems /\ Rank(Coming[1]) \in 1..3
  BY <1>6, RankType DEF Coming
<1> QED
  BY <1>2, <1>3, <1>4, <1>7

\* What a call becomes when it is made.
LEMMA QueueEncodeCall ==
    ASSUME RankInv, NEW c \in Callers, NEW item \in NewItems, QueueEncode(c, item)
    PROVE  /\ call[c] = <<>> /\ call' \in [Callers -> CallTypes]
           /\ call'[c] # <<>> /\ call'[c][1].item = item
           /\ \A d \in Callers \ {c} : call'[d] = call[d]
<1> DEFINE v == [via |-> queueEncode, item |-> item]
<1>1. v \in [via : {"start", "put", "locked"}, item : NewItems] /\ v.item = item
  BY DEF RankInv, Types
<1> HIDE DEF v
<1>2. <<v>> \in CallTypes /\ <<v>> # <<>> /\ <<v>>[1] = v
  BY <1>1 DEF CallTypes
<1>3. call[c] = <<>> /\ call' = [call EXCEPT ![c] = <<v>>] /\ call \in [Callers -> CallTypes]
  BY DEF QueueEncode, v, RankInv, Types
<1> QED
  BY <1>1, <1>2, <1>3

\* Calls of others.
LEMMA OthersQueue ==
    ASSUME RankInv, NEW c \in Callers \ {UI}, NEW item \in NewItems, FromOthers(item),
           QueueEncode(c, item),
           UNCHANGED <<queueEncode, workQueue, threads, running, ended, stage, todo>>
    PROVE  RankInv'
<1>1. /\ call' \in [Callers -> CallTypes] /\ call'[c] # <<>> /\ call'[c][1].item = item
      /\ \A d \in Callers \ {c} : call'[d] = call[d]
  BY QueueEncodeCall
<1>2. Types'
  BY <1>1 DEF RankInv, Types
<1>3. Coming' = Coming /\ Bottom' = Bottom /\ Top' = Top
  BY <1>1, EncodeAssumption DEF Coming, Bottom, Top
<1>4. \A d \in Callers \ {UI} : call'[d] # <<>> => FromOthers(call'[d][1].item)
  BY <1>1 DEF RankInv, Ranks
<1>5. Ranks'
  BY <1>3, <1>4 DEF RankInv, Ranks
<1> QED
  BY <1>2, <1>5 DEF RankInv

\* Calls of the main loop: of the highest rank so far, if they must run.
LEMMA MainLoopQueues ==
    ASSUME RankInv, NEW item \in NewItems, QueueEncode(UI, item),
           UNCHANGED <<queueEncode, workQueue, threads, running, ended>>,
           Must(item) => Top <= 2 /\ Top <= Rank(item) /\ Rank(item) <= Top' /\ ended = 0,
           stage' \in {"open", "cleanup", "stopped", "failed"}, Top <= Top', Top' \in 1..3,
           ended > 0 => stage' = "stopped"
    PROVE  RankInv'
<1>1. /\ call[UI] = <<>>
      /\ call' \in [Callers -> CallTypes] /\ call'[UI] # <<>> /\ call'[UI][1].item = item
      /\ \A d \in Callers \ {UI} : call'[d] = call[d]
  BY QueueEncodeCall, EncodeAssumption
<1>2. Types'
  BY <1>1 DEF RankInv, Types
<1>3. /\ Bottom \in 1..3 /\ Top \in 1..3 /\ Within(workQueue, 1, Top) /\ Bottom <= Top
      /\ Within(workQueue, Bottom, Top) /\ Sorted(workQueue)
  BY RangeOfRanks DEF RankInv, Ranks
<1>4. Coming = <<>> /\ Coming' = IF Must(item) THEN <<item>> ELSE <<>>
  BY <1>1 DEF Coming
<1>5. Bottom' = Bottom /\ workQueue' = workQueue
  BY DEF Bottom
<1>6. Within(workQueue, Bottom, Top') /\ Bottom <= Top' /\ Sorted(workQueue)
  <2>1. \A k \in 1..3 : k <= Top => k <= Top'
    BY <1>3
  <2>2. \A i \in 1..Len(workQueue) : Rank(workQueue[i]) \in 1..3
    BY ElementOfSeq, RankType DEF RankInv, Types
  <2> QED
    BY <1>3, <2>1, <2>2 DEF Within
<1>7. \A d \in Callers \ {UI} : call'[d] # <<>> => FromOthers(call'[d][1].item)
  BY <1>1 DEF RankInv, Ranks
<1>8. ASSUME Coming' # <<>>
      PROVE  /\ Bottom <= Rank(item) /\ Rank(item) <= Top' /\ Coming'[1] = item
             /\ Within(workQueue, 1, Rank(item)) /\ Within(workQueue, 1, 2)
  <2>1. Must(item) /\ Coming'[1] = item
    BY <1>4, <1>8
  <2>2. \A i \in 1..Len(workQueue) : Rank(workQueue[i]) \in 1..3
    BY ElementOfSeq, RankType DEF RankInv, Types
  <2>3. Rank(item) \in 1..3
    BY RankType DEF NewItems
  <2> QED
    BY <1>3, <2>1, <2>2, <2>3 DEF Within
<1>9. ended' > 0 => /\ stage' = "stopped" /\ Coming' = <<>>
                    /\ \A i \in 1..Len(workQueue') : ~Must(workQueue'[i])
  BY <1>4 DEF RankInv, Ranks, Types
<1>10. Ranks'
  BY <1>5, <1>6, <1>7, <1>8, <1>9 DEF Ranks
<1> QED
  BY <1>2, <1>10 DEF RankInv

\* The lock is taken, and the thread started if there is none.
LEMMA StartKeeps ==
    ASSUME RankInv, NEW c \in Callers, StartQueueEncode(c)
    PROVE  RankInv'
<1>1. /\ call[c] # <<>> /\ call' = [call EXCEPT ![c][1].via = "locked"]
      /\ call \in [Callers -> CallTypes]
      /\ UNCHANGED <<workQueue, running, ended, stage, todo>>
      /\ \/ threads = 0 /\ threads' = 1 /\ queueEncode' = "put"
         \/ UNCHANGED <<threads, queueEncode>>
  BY DEF StartQueueEncode, RankInv, Types
<1>2. PICK v \in [via : {"start", "put", "locked"}, item : NewItems] : call[c] = <<v>>
  BY <1>1 DEF CallTypes
<1>3. /\ [v EXCEPT !.via = "locked"] \in [via : {"start", "put", "locked"}, item : NewItems]
      /\ [v EXCEPT !.via = "locked"].item = v.item
  OBVIOUS
<1>4. call'[c] = <<[v EXCEPT !.via = "locked"]>> /\ \A d \in Callers \ {c} : call'[d] = call[d]
  BY <1>1, <1>2
<1>5. /\ call' \in [Callers -> CallTypes]
      /\ \A d \in Callers : /\ call'[d] = <<>> <=> call[d] = <<>>
                            /\ call[d] # <<>> => call'[d][1].item = call[d][1].item
  <2>1. call'[c] \in CallTypes
    BY <1>3, <1>4 DEF CallTypes
  <2>2. call'[c][1].item = call[c][1].item /\ call'[c] # <<>>
    BY <1>2, <1>3, <1>4
  <2> QED
    BY <1>1, <1>4, <2>1, <2>2
<1>6. Types'
  BY <1>1, <1>5 DEF RankInv, Types
<1>7. Coming' = Coming /\ Bottom' = Bottom /\ Top' = Top
  BY <1>1, <1>5, EncodeAssumption DEF Coming, Bottom, Top
<1>8. \A d \in Callers \ {UI} : call'[d] # <<>> => FromOthers(call'[d][1].item)
  BY <1>5 DEF RankInv, Ranks
<1>9. Ranks'
  BY <1>1, <1>7, <1>8 DEF RankInv, Ranks
<1> QED
  BY <1>6, <1>9 DEF RankInv

\* The item goes to the end of the queue.
LEMMA PutKeeps ==
    ASSUME RankInv, NEW c \in Callers, Put(c)
    PROVE  RankInv'
<1> DEFINE item == AsQueued(call[c][1].item)
<1>1. /\ call[c] # <<>> /\ call' = [call EXCEPT ![c] = <<>>] /\ call \in [Callers -> CallTypes]
      /\ workQueue' = Append(workQueue, item)
      /\ UNCHANGED <<queueEncode, threads, running, ended, stage, todo>>
  BY DEF Put, RankInv, Types
<1>2. /\ item \in GoodItems
      /\ Must(item) => item = call[c][1].item /\ ~(item.kind = "clean" /\ AllCleaned)
  <2>1. call[c][1].item \in GoodItems
    BY <1>1 DEF CallTypes, NewItems
  <2> QED
    BY <2>1, ItemTypes DEF AsQueued
<1>3. /\ call' \in [Callers -> CallTypes] /\ call'[c] = <<>>
      /\ \A d \in Callers \ {c} : call'[d] = call[d]
  BY <1>1 DEF CallTypes
<1>4. Bottom' = Bottom /\ Top' = Top
  BY <1>1 DEF Bottom, Top
<1>5. /\ Bottom \in 1..3 /\ Top \in 1..3 /\ Sorted(workQueue) /\ Within(workQueue, Bottom, Top)
      /\ workQueue \in Seq(GoodItems)
  BY RangeOfRanks DEF RankInv, Ranks, Types
<1>6. ASSUME Must(item)
      PROVE  /\ Bottom <= Rank(item) /\ Rank(item) <= Top
             /\ Within(workQueue, 1, Rank(item)) /\ Within(workQueue, 1, 2)
             /\ ended = 0 /\ (c = UI => Coming' = <<>>)
  <2>1. item = call[c][1].item
    BY <1>2, <1>6
  <2>2. CASE c = UI
    <3>1. Coming # <<>> /\ Coming[1] = item
      BY <1>1, <1>6, <2>1, <2>2 DEF Coming
    <3> QED
      BY <1>3, <2>2, <3>1 DEF RankInv, Ranks, Types, Coming
  <2>3. CASE c # UI
    <3>1. item.kind = "clean" /\ ~AllCleaned
      BY <1>1, <1>2, <1>6, <2>1, <2>3 DEF RankInv, Ranks, FromOthers, Must
    <3>2. Top = 1 /\ Rank(item) = 1 /\ stage # "stopped"
      BY <3>1 DEF Top, AllCleaned, Rank
    <3>3. ended = 0
      BY <3>2 DEF RankInv, Ranks, Types
    <3>4. Within(workQueue, 1, 2)
      <4>1. \A i \in 1..Len(workQueue) : Rank(workQueue[i]) \in 1..3
        BY <1>5, ElementOfSeq, RankType
      <4>2. Within(workQueue, 1, 1)
        BY <3>2, RangeOfRanks
      <4> QED
        BY <4>1, <4>2 DEF Within
    <3>5. Bottom = 1
      BY <1>5, <3>2 DEF RankInv, Ranks
    <3> QED
      BY <2>3, <3>2, <3>3, <3>4, <3>5, RangeOfRanks
  <2> QED
    BY <2>2, <2>3
<1>7. /\ c # UI => Coming' = Coming
      /\ c = UI => Coming' = <<>>
      /\ c # UI /\ Must(item) => Rank(item) = 1
  <2>1. c # UI /\ Must(item) => item.kind = "clean"
    BY <1>1, <1>2 DEF RankInv, Ranks, FromOthers, Must
  <2> QED
    BY <1>3, <2>1, EncodeAssumption DEF Coming, Rank
<1> HIDE DEF item
<1>8. /\ workQueue' \in Seq(GoodItems) /\ Sorted(workQueue') /\ Within(workQueue', Bottom, Top)
      /\ (\A i \in 1..Len(workQueue) : ~Must(workQueue[i])) /\ ~Must(item) =>
            \A i \in 1..Len(workQueue') : ~Must(workQueue'[i])
  <2>1. Must(item) => /\ Bottom <= Rank(item) /\ Rank(item) <= Top
                      /\ Within(workQueue, 1, Rank(item)) /\ Within(workQueue, 1, 2)
    BY <1>6
  <2> QED
    BY <1>1, <1>2, <1>5, <2>1, AppendSorted
<1>9. Types'
  BY <1>1, <1>3, <1>8 DEF RankInv, Types
<1>10. \A d \in Callers \ {UI} : call'[d] # <<>> => FromOthers(call'[d][1].item)
  BY <1>3 DEF RankInv, Ranks
<1>11. ASSUME Coming' # <<>>
       PROVE  /\ Bottom <= Rank(Coming'[1]) /\ Rank(Coming'[1]) <= Top
              /\ Within(workQueue', 1, Rank(Coming'[1])) /\ Within(workQueue', 1, 2)
  <2>1. c # UI /\ Coming' = Coming
    BY <1>7, <1>11
  <2>2. Rank(Coming[1]) \in 1..3
    BY <1>11, <2>1, RangeOfRanks
  <2>3. /\ Bottom <= Rank(Coming[1]) /\ Rank(Coming[1]) <= Top
        /\ Within(workQueue, 1, Rank(Coming[1])) /\ Within(workQueue, 1, 2)
    BY <1>11, <2>1 DEF RankInv, Ranks
  <2>4. Must(item) => /\ Rank(item) = 1
                      /\ Within(workQueue, 1, Rank(item)) /\ Within(workQueue, 1, 2)
    BY <1>6, <1>7, <2>1
  <2>5. Within(workQueue', 1, Rank(Coming[1])) /\ Within(workQueue', 1, 2)
    BY <1>1, <1>2, <1>5, <2>2, <2>3, <2>4, AppendSorted
  <2> QED
    BY <2>1, <2>3, <2>5
<1>12. ASSUME ended' > 0
       PROVE  /\ stage' = "stopped" /\ Coming' = <<>>
              /\ \A i \in 1..Len(workQueue') : ~Must(workQueue'[i])
  <2>1. ended > 0 /\ ~Must(item)
    BY <1>1, <1>6, <1>12 DEF RankInv, Types
  <2>2. /\ stage = "stopped" /\ Coming = <<>>
        /\ \A i \in 1..Len(workQueue) : ~Must(workQueue[i])
    BY <2>1 DEF RankInv, Ranks
  <2>3. Coming' = <<>>
    BY <1>3, <2>2, EncodeAssumption DEF Coming
  <2> QED
    BY <1>1, <1>8, <2>1, <2>2, <2>3
<1>13. Bottom <= Top
  BY DEF RankInv, Ranks
<1>14. Ranks'
  BY <1>4, <1>8, <1>10, <1>11, <1>12, <1>13 DEF Ranks
<1> QED
  BY <1>9, <1>14 DEF RankInv

\* The thread takes the first item, which the rest is not below.
LEMMA TakeKeeps ==
    ASSUME RankInv, EncodeTake
    PROVE  RankInv'
<1> DEFINE item == Head(workQueue)
<1>1. /\ Len(running) < threads - ended /\ workQueue # <<>> /\ workQueue' = Tail(workQueue)
      /\ UNCHANGED <<call, queueEncode, threads, stage, todo>>
      /\ ended' = IF item = MARKER THEN ended + 1 ELSE ended
      /\ running' = IF item = MARKER \/ (item.optional /\ closeEvent) THEN running
                    ELSE Append(running, item)
  BY DEF EncodeTake
<1>2. /\ threads = 1 /\ ended = 0 /\ running = <<>>
  BY <1>1 DEF RankInv, Types
<1>3. Bottom = 1 /\ Top \in 1..3 /\ Top' = Top /\ Coming' = Coming
  BY <1>1, <1>2, RangeOfRanks DEF Bottom, Top, Coming
<1>4. /\ workQueue \in Seq(GoodItems) /\ Sorted(workQueue) /\ Within(workQueue, 1, Top)
  BY <1>3 DEF RankInv, Types, Ranks
<1>5. /\ item \in GoodItems /\ Rank(item) \in 1..3
      /\ workQueue' \in Seq(GoodItems) /\ Sorted(workQueue')
      /\ Within(workQueue', 1, Top)
  BY <1>1, <1>3, <1>4, TailSorted, RankType
<1>6. Must(item) => /\ Rank(item) <= Top /\ Within(workQueue', Rank(item), Top)
                    /\ Rank(item) = 3 => \A i \in 1..Len(workQueue') : ~Must(workQueue'[i])
  BY <1>1, <1>3, <1>4, TailSorted
<1>7. ~Must(item) => Rank(item) = 1
  BY <1>5 DEF GoodItems, Items, Kinds, Rank, Must
<1>8. Coming # <<>> => /\ Rank(Coming[1]) \in 1..3 /\ Rank(Coming[1]) <= Top
                       /\ Within(workQueue', 1, Rank(Coming[1])) /\ Within(workQueue', 1, 2)
                       /\ Must(item) => Rank(item) <= Rank(Coming[1]) /\ Rank(item) <= 2
  <2> SUFFICES ASSUME Coming # <<>>
               PROVE  /\ Rank(Coming[1]) \in 1..3 /\ Rank(Coming[1]) <= Top
                      /\ Within(workQueue', 1, Rank(Coming[1])) /\ Within(workQueue', 1, 2)
                      /\ Must(item) => Rank(item) <= Rank(Coming[1]) /\ Rank(item) <= 2
    OBVIOUS
  <2>1. /\ Rank(Coming[1]) \in 1..3 /\ Rank(Coming[1]) <= Top
        /\ Within(workQueue, 1, Rank(Coming[1])) /\ Within(workQueue, 1, 2)
    BY RangeOfRanks DEF RankInv, Ranks
  <2> QED
    BY <1>1, <1>4, <2>1, TailSorted
<1>9. \A c \in Callers \ {UI} : call'[c] # <<>> => FromOthers(call'[c][1].item)
  BY <1>1 DEF RankInv, Ranks
<1> HIDE DEF item
<1>10. CASE item = MARKER
  <2>1. Must(item) /\ Rank(item) = 3
    BY <1>10, ItemTypes
  <2>2. ended' = 1 /\ running' = <<>> /\ Coming = <<>> /\ Top = 3
    BY <1>1, <1>2, <1>3, <1>6, <1>8, <1>10, <2>1
  <2>3. stage' = "stopped"
    BY <1>1, <2>2 DEF Top
  <2>4. Bottom' = 1
    BY <2>2 DEF Bottom
  <2>5. Types'
    BY <1>1, <1>2, <1>5, <2>2 DEF RankInv, Types
  <2>6. Ranks'
    BY <1>3, <1>5, <1>6, <1>9, <2>1, <2>2, <2>3, <2>4 DEF Ranks
  <2> QED
    BY <2>5, <2>6 DEF RankInv
<1>11. CASE item # MARKER /\ item.optional /\ closeEvent
  <2>1. ended' = 0 /\ running' = <<>>
    BY <1>1, <1>2, <1>11
  <2>2. Bottom' = 1
    BY <2>1 DEF Bottom
  <2>3. Types'
    BY <1>1, <1>2, <1>5, <2>1 DEF RankInv, Types
  <2>4. Ranks'
    BY <1>3, <1>5, <1>8, <1>9, <2>1, <2>2 DEF Ranks
  <2> QED
    BY <2>3, <2>4 DEF RankInv
<1>12. CASE item # MARKER /\ ~(item.optional /\ closeEvent)
  <2>1. ended' = 0 /\ running' = <<item>>
    BY <1>1, <1>2, <1>12
  <2>2. Bottom' = Rank(item)
    BY <2>1 DEF Bottom
  <2>3. Types'
    BY <1>1, <1>2, <1>5, <2>1 DEF RankInv, Types
  <2>4. Rank(item) <= Top /\ Within(workQueue', Rank(item), Top)
    BY <1>3, <1>5, <1>6, <1>7
  <2>5. Coming # <<>> => Rank(item) <= Rank(Coming[1])
    BY <1>7, <1>8
  <2>6. Ranks'
    BY <1>3, <1>5, <1>8, <1>9, <2>1, <2>2, <2>4, <2>5 DEF Ranks
  <2> QED
    BY <2>3, <2>6 DEF RankInv
<1> QED
  BY <1>10, <1>11, <1>12

\* The call that runs returns.
LEMMA ReturnKeeps ==
    ASSUME RankInv, NEW i \in 1..threads, EncodeReturn(i)
    PROVE  RankInv'
<1>1. PICK item \in GoodItems : running = <<item>>
  BY DEF RankInv, Types, EncodeReturn
<1>2. i = 1 /\ Len(running) = 1
  BY <1>1 DEF EncodeReturn
<1>3. running' = <<>>
  <2>1. running' = SubSeq(running, 1, 0) \o SubSeq(running, 2, 1)
    BY <1>2 DEF EncodeReturn
  <2>2. SubSeq(running, 1, 0) = <<>> /\ SubSeq(running, 2, 1) = <<>>
    BY SubSeqEmpty
  <2> QED
    BY <2>1, <2>2
<1>4. UNCHANGED <<call, queueEncode, workQueue, threads, ended, stage, todo>>
  BY DEF EncodeReturn
<1>5. Bottom' = 1 /\ Top' = Top /\ Coming' = Coming /\ Top \in 1..3 /\ Bottom \in 1..3
      /\ Within(workQueue, 1, Top)
  BY <1>3, <1>4, RangeOfRanks DEF Bottom, Top, Coming
<1>6. Types'
  BY <1>3, <1>4 DEF RankInv, Types
<1>7. Coming # <<>> => Rank(Coming[1]) \in 1..3
  BY RangeOfRanks
<1>8. Ranks'
  BY <1>4, <1>5, <1>7 DEF RankInv, Ranks
<1> QED
  BY <1>6, <1>8 DEF RankInv

\* close() begins, or fails.
LEMMA StageKeeps ==
    ASSUME RankInv, StartClose \/ CleanupFails
    PROVE  RankInv'
<1>1. /\ UNCHANGED <<call, queueEncode, workQueue, threads, running, ended, todo>>
      /\ stage' \in {"cleanup", "failed"} /\ stage # "stopped"
  BY DEF StartClose, CleanupFails
<1>2. Types'
  BY <1>1 DEF RankInv, Types
<1>3. Coming = <<>> /\ Coming' = Coming /\ Bottom' = Bottom
  BY <1>1 DEF Coming, Bottom, StartClose, CleanupFails
<1>4. Top = 1 /\ Top' \in 1..2
  BY DEF Top, StartClose, CleanupFails
<1>5. Within(workQueue, Bottom, Top') /\ Bottom <= Top'
  <2>1. \A j \in 1..Len(workQueue) : Rank(workQueue[j]) \in 1..3
    BY ElementOfSeq, RankType DEF RankInv, Types
  <2> QED
    BY <1>4, <2>1, RangeOfRanks DEF RankInv, Ranks, Within
<1>6. ended = 0
  BY <1>1 DEF RankInv, Types, Ranks
<1>7. Ranks'
  BY <1>1, <1>3, <1>5, <1>6 DEF RankInv, Ranks
<1> QED
  BY <1>2, <1>7 DEF RankInv

\* The cleanup of a subsystem.
LEMMA CleanupKeeps ==
    ASSUME RankInv, NEW s \in Subsystems, CleanupSubsystem(s)
    PROVE  RankInv'
<1>1. /\ stage = "cleanup" /\ stage' = stage /\ todo # {} /\ todo' = todo \ {s} /\ call[UI] = <<>>
      /\ UNCHANGED <<queueEncode, workQueue, threads, running, ended>>
  BY DEF CleanupSubsystem
<1>2. Top = 1 /\ Top' \in 1..2
  BY <1>1 DEF Top
<1>3. ended = 0
  BY <1>1 DEF RankInv, Types, Ranks
<1>4. CASE QueueEncode(UI, Item("cleanup", FALSE))
  <2> DEFINE item == Item("cleanup", FALSE)
  <2>1. item \in NewItems /\ Rank(item) = 1
    BY ItemTypes
  <2> HIDE DEF item
  <2>2. Top <= 2 /\ Top <= Rank(item) /\ Rank(item) <= Top' /\ Top <= Top' /\ Top' \in 1..3
    BY <1>2, <2>1
  <2>3. stage' \in {"open", "cleanup", "stopped", "failed"} /\ (ended > 0 => stage' = "stopped")
    BY <1>1, <1>3
  <2>4. QueueEncode(UI, item)
    BY <1>4 DEF item
  <2> QED
    BY <1>1, <1>3, <2>1, <2>2, <2>3, <2>4, MainLoopQueues
<1>5. CASE UNCHANGED call
  <2>1. Types'
    BY <1>1, <1>5 DEF RankInv, Types
  <2>2. Coming = <<>> /\ Coming' = Coming /\ Bottom' = Bottom
    BY <1>1, <1>5 DEF Coming, Bottom
  <2>3. Within(workQueue, Bottom, Top') /\ Bottom <= Top'
    <3>1. \A j \in 1..Len(workQueue) : Rank(workQueue[j]) \in 1..3
      BY ElementOfSeq, RankType DEF RankInv, Types
    <3> QED
      BY <1>2, <3>1, RangeOfRanks DEF RankInv, Ranks, Within
  <2>4. Ranks'
    BY <1>1, <1>3, <1>5, <2>2, <2>3 DEF RankInv, Ranks
  <2> QED
    BY <2>1, <2>4 DEF RankInv
<1> QED
  BY <1>4, <1>5 DEF CleanupSubsystem

\* The calls for the end, then the marker.
LEMMA StopKeeps ==
    ASSUME RankInv, StopEncodeThread
    PROVE  RankInv'
<1>1. /\ stage = "cleanup" /\ todo = {} /\ UNCHANGED todo
      /\ UNCHANGED <<queueEncode, workQueue, threads, running, ended>>
  BY DEF StopEncodeThread
<1>2. Top = 2 /\ ended = 0
  BY <1>1 DEF Top, RankInv, Types, Ranks
<1>3. CASE QueueEncode(UI, Item("atend", FALSE)) /\ UNCHANGED stage
  <2> DEFINE item == Item("atend", FALSE)
  <2>1. Top' = 2
    BY <1>1, <1>3 DEF Top
  <2>2. item \in NewItems /\ Rank(item) = 2
    BY ItemTypes
  <2> HIDE DEF item
  <2>3. Top <= 2 /\ Top <= Rank(item) /\ Rank(item) <= Top' /\ Top <= Top' /\ Top' \in 1..3
    BY <1>2, <2>1, <2>2
  <2>4. stage' \in {"open", "cleanup", "stopped", "failed"} /\ (ended > 0 => stage' = "stopped")
    BY <1>1, <1>2, <1>3
  <2>5. QueueEncode(UI, item)
    BY <1>3 DEF item
  <2> QED
    BY <1>1, <1>2, <2>2, <2>3, <2>4, <2>5, MainLoopQueues
<1>4. CASE QueueEncode(UI, MARKER) /\ stage' = "stopped"
  <2> DEFINE item == MARKER
  <2>1. Top' = 3
    BY <1>4 DEF Top
  <2>2. item \in NewItems /\ Rank(item) = 3
    BY ItemTypes
  <2> HIDE DEF item
  <2>3. Top <= 2 /\ Top <= Rank(item) /\ Rank(item) <= Top' /\ Top <= Top' /\ Top' \in 1..3
    BY <1>2, <2>1, <2>2
  <2>4. stage' \in {"open", "cleanup", "stopped", "failed"} /\ (ended > 0 => stage' = "stopped")
    BY <1>1, <1>2, <1>4
  <2>5. QueueEncode(UI, item)
    BY <1>4 DEF item
  <2> QED
    BY <1>1, <1>2, <2>2, <2>3, <2>4, <2>5, MainLoopQueues
<1> QED
  BY <1>3, <1>4 DEF StopEncodeThread

\* Work that is queued while the connection is open, or optional.
LEMMA WorkKeeps ==
    ASSUME RankInv, NEW c \in Callers, NEW optional \in BOOLEAN, CallInEncodeThread(c, optional)
    PROVE  RankInv'
<1>1. /\ QueueEncode(c, Item(IF c = UI \/ optional THEN "call" ELSE "clean", optional))
      /\ UNCHANGED <<queueEncode, workQueue, threads, running, ended, stage, todo>>
  BY DEF CallInEncodeThread
<1>2. /\ Item("call", optional) \in NewItems /\ Rank(Item("call", optional)) = 1
      /\ Must(Item("call", optional)) <=> ~optional
  BY ItemTypes
<1>3. CASE c = UI
  <2>1. stage = "open" /\ Top = 1 /\ Top' = Top /\ ended = 0
    BY <1>1, <1>3 DEF CallInEncodeThread, Top, RankInv, Types, Ranks
  <2>2. stage' \in {"open", "cleanup", "stopped", "failed"}
    BY <1>1, <2>1
  <2> QED
    BY <1>1, <1>2, <1>3, <2>1, <2>2, MainLoopQueues
<1>4. CASE c # UI
  <2> DEFINE item == Item(IF c = UI \/ optional THEN "call" ELSE "clean", optional)
  <2>1. item \in NewItems /\ FromOthers(item)
    <3>1. CASE optional
      BY <1>2, <3>1 DEF FromOthers, Item
    <3>2. CASE ~optional
      BY <1>4, <3>2, ItemTypes DEF FromOthers
    <3> QED
      BY <3>1, <3>2
  <2> HIDE DEF item
  <2>2. QueueEncode(c, item)
    BY <1>1 DEF item
  <2> QED
    BY <1>1, <1>4, <2>1, <2>2, OthersQueue
<1> QED
  BY <1>3, <1>4

LEMMA RanksAlways == EncodeSpec => []RankInv
<1>1. EncodeInit => RankInv
  <2> SUFFICES ASSUME EncodeInit PROVE RankInv
    OBVIOUS
  <2>1. Types
    BY DEF EncodeInit, Types, CallTypes
  <2>2. /\ Coming = <<>> /\ Bottom = 1 /\ Top \in 1..3
    BY EncodeAssumption DEF EncodeInit, Coming, Bottom, Top
  <2>3. Sorted(workQueue) /\ Within(workQueue, Bottom, Top)
    BY DEF EncodeInit, Sorted, Within
  <2>4. Ranks
    BY <2>2, <2>3 DEF EncodeInit, Ranks
  <2> QED
    BY <2>1, <2>4 DEF RankInv
<1>2. RankInv /\ [EncodeNext]_encodeVars => RankInv'
  <2> SUFFICES ASSUME RankInv, [EncodeNext]_encodeVars PROVE RankInv'
    OBVIOUS
  <2>1. CASE UNCHANGED encodeVars
    BY <2>1 DEF encodeVars, RankInv, Types, Ranks, Coming, Bottom, Top, Sorted, Within
  <2> QED
    BY <2>1, WorkKeeps, StartKeeps, PutKeeps, TakeKeeps, ReturnKeeps, StageKeeps, CleanupKeeps,
       StopKeeps DEF EncodeNext
<1> QED
  BY <1>1, <1>2, PTL DEF EncodeSpec

----------------------------------------------------------------------------
(* The types of what the ranks do not speak of: the lock, and the calls for *)
(* the end, of which there are no more than subsystems cleaned up so far.   *)

Counts ==
    /\ lockedBy = {} \/ \E c \in Callers : lockedBy = {c}
    /\ closeEvent \in BOOLEAN
    /\ todo \subseteq Subsystems
    /\ atEnd \in Nat /\ atEnd <= Cardinality(AtEndOf \ todo)
    /\ issued \in 0..MaxItems

\* The subsystems whose call for the end is registered.
LEMMA AtEndFinite ==
    ASSUME NEW S
    PROVE  /\ IsFiniteSet(AtEndOf \ S) /\ Cardinality(AtEndOf \ S) \in Nat
           /\ Cardinality(AtEndOf \ S) <= Cardinality(AtEndOf)
           /\ Cardinality(AtEndOf) \in Nat
<1>1. IsFiniteSet(AtEndOf)
  BY EncodeAssumption, FS_Subset
<1> QED
  BY <1>1, FS_Subset, FS_CardinalityType

LEMMA CountsKeep ==
    ASSUME Counts, [EncodeNext]_encodeVars
    PROVE  Counts'
<1>1. ASSUME NEW c \in Callers, NEW optional \in BOOLEAN, CallInEncodeThread(c, optional)
      PROVE  Counts'
  BY <1>1, EncodeAssumption DEF CallInEncodeThread, Counts
<1>2. ASSUME NEW c \in Callers, StartQueueEncode(c) \/ Put(c)
      PROVE  Counts'
  BY <1>2 DEF StartQueueEncode, Put, Counts
<1>3. CASE EncodeTake \/ StartClose \/ CleanupFails \/ (\E i \in 1..threads : EncodeReturn(i))
  BY <1>3 DEF EncodeTake, StartClose, CleanupFails, EncodeReturn, Counts
<1>4. ASSUME NEW s \in Subsystems, CleanupSubsystem(s)
      PROVE  Counts'
  <2>1. /\ s \in todo /\ todo' = todo \ {s} /\ UNCHANGED <<lockedBy, closeEvent, issued>>
        /\ atEnd' = IF s \in AtEndOf THEN atEnd + 1 ELSE atEnd
    BY <1>4 DEF CleanupSubsystem
  <2>2. CASE s \in AtEndOf
    <3>1. AtEndOf \ todo' = (AtEndOf \ todo) \cup {s} /\ s \notin AtEndOf \ todo
      BY <2>1, <2>2
    <3>2. Cardinality(AtEndOf \ todo') = Cardinality(AtEndOf \ todo) + 1
      BY <3>1, AtEndFinite, FS_AddElement
    <3> QED
      BY <2>1, <2>2, <3>2, AtEndFinite DEF Counts
  <2>3. CASE s \notin AtEndOf
    <3>1. AtEndOf \ todo' = AtEndOf \ todo
      BY <2>1, <2>3
    <3> QED
      BY <2>1, <2>3, <3>1 DEF Counts
  <2> QED
    BY <2>2, <2>3
<1>5. CASE StopEncodeThread
  <2>1. /\ UNCHANGED <<lockedBy, closeEvent, todo, issued>>
        /\ atEnd' = atEnd \/ (atEnd > 0 /\ atEnd' = atEnd - 1)
    BY <1>5 DEF StopEncodeThread
  <2> QED
    BY <2>1, AtEndFinite DEF Counts
<1>6. CASE UNCHANGED encodeVars
  BY <1>6 DEF encodeVars, Counts
<1> QED
  BY <1>1, <1>2, <1>3, <1>4, <1>5, <1>6 DEF EncodeNext

LEMMA CountsAlways == EncodeSpec => []Counts
<1>1. EncodeInit => Counts
  <2> SUFFICES ASSUME EncodeInit PROVE Counts
    OBVIOUS
  <2>1. AtEndOf \ todo = {} /\ todo \subseteq Subsystems
    BY EncodeAssumption DEF EncodeInit
  <2>2. Cardinality(AtEndOf \ todo) = 0
    BY <2>1, FS_EmptySet
  <2>3. lockedBy = {} /\ atEnd = 0 /\ issued = 0 /\ MaxItems \in Nat
    BY EncodeAssumption DEF EncodeInit
  <2>4. atEnd <= Cardinality(AtEndOf \ todo)
    <3> DEFINE registered == Cardinality(AtEndOf \ todo)
    <3>1. registered = 0 /\ atEnd = 0
      BY <2>2, <2>3
    <3> HIDE DEF registered
    <3>2. atEnd <= registered
      BY <3>1
    <3> QED
      BY <3>2 DEF registered
  <2>5. issued \in 0..MaxItems
    BY <2>3
  <2>6. lockedBy = {} /\ atEnd \in Nat
    BY <2>3
  <2>7. closeEvent \in BOOLEAN
    BY Zenon DEF EncodeInit
  <2> QED
    BY <2>1, <2>4, <2>5, <2>6, <2>7, Zenon DEF Counts
<1> QED
  BY <1>1, CountsKeep, PTL DEF EncodeSpec

----------------------------------------------------------------------------
(* The theorems.                                                            *)

\* The variables of the encode thread have their types: in particular the lock that a
\* caller starts the thread under has one holder at most, and no more calls are made at the
\* end than subsystems asked for.
THEOREM EncodeTypeCorrect == EncodeSpec => []EncodeTypeOK
<1>1. RankInv /\ Counts => EncodeTypeOK
  <2> SUFFICES ASSUME RankInv, Counts PROVE EncodeTypeOK
    OBVIOUS
  <2>1. \A c \in Callers : Len(call[c]) <= 1
    <3>1. \A w \in CallTypes : Len(w) <= 1
      BY DEF CallTypes
    <3> QED
      BY <3>1 DEF RankInv, Types
  <2>2. Cardinality(lockedBy) <= 1
    <3>1. CASE lockedBy = {}
      BY <3>1, FS_EmptySet
    <3>2. ASSUME NEW c \in Callers, lockedBy = {c}
          PROVE  Cardinality(lockedBy) <= 1
      <4>1. Cardinality({c}) = 1
        BY FS_Singleton
      <4> QED
        BY <3>2, <4>1
    <3> QED
      BY <3>1, <3>2 DEF Counts
  <2>3. workQueue \in Seq(Items) /\ running \in Seq(Items)
    <3>1. GoodItems \subseteq Items
      BY DEF GoodItems
    <3>2. \A item \in GoodItems : <<item>> \in Seq(GoodItems)
      OBVIOUS
    <3>3. workQueue \in Seq(GoodItems)
      BY DEF RankInv, Types
    <3>4. running = <<>> \/ \E item \in GoodItems : running = <<item>>
      BY DEF RankInv, Types
    <3>5. <<>> \in Seq(GoodItems)
      OBVIOUS
    <3>6. running \in Seq(GoodItems)
      BY <3>2, <3>4, <3>5
    <3> QED
      BY <3>1, <3>3, <3>6, SeqMonotonic
  <2>4. /\ queueEncode \in {"start", "put"} /\ threads \in Nat
        /\ stage \in {"open", "cleanup", "stopped", "failed"}
    BY DEF RankInv, Types
  <2>5. ended \in 0..threads
    <3>1. Len(running) \in Nat
      BY DEF RankInv, Types
    <3> QED
      BY <3>1 DEF RankInv, Types
  <2>6. atEnd \in 0..Cardinality(AtEndOf)
    BY AtEndFinite DEF Counts
  <2> QED
    BY <2>1, <2>2, <2>3, <2>4, <2>5, <2>6 DEF EncodeTypeOK, Counts
<1> QED
  BY <1>1, RanksAlways, CountsAlways, PTL

\* One encode thread at most is started, by whichever caller finds none, and runs one call
\* at a time.
THEOREM OneThread == EncodeSpec => []OneEncodeThread
<1>1. RankInv => OneEncodeThread
  BY DEF RankInv, Types, OneEncodeThread
<1> QED
  BY <1>1, RanksAlways, PTL

\* While a call for the end runs (it frees the mmap areas, the CUDA context), no call that
\* must run is left in the queue or on its way into it.
THEOREM FreedAfterLastUse == EncodeSpec => []AtEndIsLast
<1>1. RankInv => AtEndIsLast
  <2> SUFFICES ASSUME RankInv, \E item \in Contents(running) : item.kind = "atend"
               PROVE  /\ Len(running) = 1
                      /\ \A item \in Contents(workQueue) :
                            item.kind \in {"call", "clean", "cleanup"} => item.optional
                      /\ \A c \in Callers : call[c] # <<>> =>
                            (call[c][1].item.kind \in {"call", "cleanup"} => call[c][1].item.optional)
    BY DEF AtEndIsLast
  <2>1. PICK it \in GoodItems : running = <<it>> /\ it.kind = "atend"
    BY DEF RankInv, Types, Contents
  <2>2. Bottom = 2
    BY <2>1 DEF Bottom, Rank
  <2>3. \A item : item.kind \in {"call", "clean", "cleanup"} => Rank(item) = 1
    BY DEF Rank
  <2>4. \A i \in 1..Len(workQueue) :
           workQueue[i].kind \in {"call", "clean", "cleanup"} => workQueue[i].optional
    BY <2>2, <2>3 DEF RankInv, Ranks, Within, Must
  <2>5. ASSUME NEW c \in Callers, call[c] # <<>>, call[c][1].item.kind \in {"call", "cleanup"}
        PROVE  call[c][1].item.optional
    <3>1. CASE c # UI
      BY <2>5, <3>1 DEF RankInv, Ranks, FromOthers
    <3>2. CASE c = UI
      BY <2>2, <2>3, <2>5, <3>2 DEF RankInv, Ranks, Coming, Must
    <3> QED
      BY <3>1, <3>2
  <2> QED
    BY <2>1, <2>4, <2>5 DEF Contents
<1> QED
  BY <1>1, RanksAlways, PTL

\* Once the thread has met the marker, only optional calls are left behind.
THEOREM AllRunBeforeEnd == EncodeSpec => []EndedMeansAllRun
<1>1. RankInv => EndedMeansAllRun
  <2> SUFFICES ASSUME RankInv, ended > 0
               PROVE  /\ \A item \in Contents(workQueue) : item.optional \/ item.kind = "late"
                      /\ \A c \in Callers : call[c] # <<>> =>
                            call[c][1].item.optional \/ call[c][1].item.kind = "clean"
    BY DEF EndedMeansAllRun
  <2>1. ASSUME NEW item \in Contents(workQueue)
        PROVE  item.optional \/ item.kind = "late"
    BY <2>1 DEF RankInv, Ranks, Contents, Must
  <2>2. ASSUME NEW c \in Callers, call[c] # <<>>
        PROVE  call[c][1].item.optional \/ call[c][1].item.kind = "clean"
    <3>1. CASE c # UI
      BY <2>2, <3>1 DEF RankInv, Ranks, FromOthers
    <3>2. CASE c = UI
      <4>1. call[c][1].item.kind # "late"
        BY <2>2 DEF RankInv, Types, CallTypes, NewItems
      <4> QED
        BY <2>2, <3>2, <4>1 DEF RankInv, Ranks, Coming, Must
    <3> QED
      BY <3>1, <3>2
  <2> QED
    BY <2>1, <2>2
<1> QED
  BY <1>1, RanksAlways, PTL
=============================================================================
