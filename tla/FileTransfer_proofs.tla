------------------------ MODULE FileTransfer_proofs -------------------------
(***************************************************************************)
(* For any number of files, chunks, cancellations, timeouts and disk       *)
(* errors: the two ends stay in step, a file that the sender takes for     *)
(* sent is processed, and one that is processed is whole, the last as long *)
(* as writes are not short.                                                *)
(*                                                                         *)
(* The argument has three parts.  A file is asked for, offered and opened  *)
(* once: of its request, its question, its answer and its first packet     *)
(* there is one at most, and none once it is being received.  A file that  *)
(* is being received, and has not been cancelled, has on the disk exactly  *)
(* the chunks that were counted, also in the middle of a handler; one that *)
(* is cancelled after the handler's last test is known as such.  And the   *)
(* ends take turns: of the file, its chunks and its acks there is one at   *)
(* most, on its way or in the hands of a thread, and the ends' counts      *)
(* differ by one exactly while a chunk goes down.                          *)
(***************************************************************************)
EXTENDS FileTransfer, SequenceTheorems, TLAPS

USE DEF cancelling

Types == {"request", "accept", "deny", "file", "chunk", "ack", "nack", "write", "finish",
          "complete"}
Transfer == [state : States, cancelled : BOOLEAN, chunk : 0..Chunks]

----------------------------------------------------------------------------
(* Types.                                                                   *)

LEMMA ChunkTypes == Chunks \in Nat /\ Chunks # 0 /\ 0 \in 0..Chunks /\ Chunks \in 0..Chunks
  BY TransferAssumption

LEMMA PacketTypes ==
    ASSUME NEW type \in Types, NEW f \in Files, NEW chunk \in 0..Chunks
    PROVE  /\ Packet(type, f, chunk) \in Packets /\ Packet(type, f, chunk).type = type
           /\ Packet(type, f, chunk).file = f /\ Packet(type, f, chunk).chunk = chunk
  BY DEF Packet, Packets, Types

LEMMA PacketParts ==
    \A p \in Packets : p.type \in Types /\ p.file \in Files /\ p.chunk \in 0..Chunks
  BY DEF Packets, Types

LEMMA AddTypes ==
    ASSUME NEW q \in Seq(Packets), NEW p \in Packets
    PROVE  Add(q, p) \in Seq(Packets)
  BY AppendProperties DEF Add

LEMMA HeadTypes ==
    ASSUME NEW q \in Seq(Packets), NEW type, Is(q, type)
    PROVE  /\ q # <<>> /\ lost = "" /\ Head(q) \in Packets /\ Tail(q) \in Seq(Packets)
           /\ Head(q).type = type /\ Head(q).file \in Files /\ Head(q).chunk \in 0..Chunks
<1>1. q # <<>> /\ lost = "" /\ Head(q).type = type
  BY DEF Is
<1>2. Head(q) \in Packets /\ Tail(q) \in Seq(Packets)
  BY <1>1, HeadTailProperties
<1> QED
  BY <1>1, <1>2, PacketParts

\* the packet that a handler has in hand
LEMMA InHand ==
    ASSUME NEW q \in Seq(Packets), Len(q) <= 1, q # <<>>
    PROVE  q[1] \in Packets /\ q[1].file \in Files /\ q[1].chunk \in 0..Chunks /\ q = <<q[1]>>
<1>1. Len(q) = 1
  <2>1. Len(q) \in Nat \ {0}
    BY EmptySeq
  <2>2. \A n \in Nat \ {0} : n <= 1 => n = 1
    OBVIOUS
  <2> QED
    BY <2>1, <2>2, Zenon
<1>2. q[1] \in Packets
  BY <1>1, ElementOfSeq
<1>3. q = <<q[1]>>
  BY <1>1
<1> QED
  BY <1>2, <1>3, PacketParts

LEMMA OnePacket ==
    /\ <<>> \in Seq(Packets) /\ Len(<<>>) <= 1
    /\ \A p \in Packets : <<p>> \in Seq(Packets) /\ Len(<<p>>) <= 1 /\ <<p>> # <<>> /\ <<p>>[1] = p
  OBVIOUS

LEMMA DiskTypes ==
    /\ NoFile \in Seq(-1..Chunks) /\ <<>> \in Seq(-1..Chunks) /\ Whole \in Seq(-1..Chunks)
    /\ \A s \in Seq(-1..Chunks), chunk \in 0..Chunks : Append(s, chunk) \in Seq(-1..Chunks)
<1>1. \A chunk \in 0..Chunks : chunk \in -1..Chunks
  BY ChunkTypes
<1>2. -1 \in -1..Chunks
  BY ChunkTypes
<1>3. NoFile \in Seq(-1..Chunks)
  BY <1>2 DEF NoFile
<1>4. Whole \in Seq(-1..Chunks)
  <2>1. Whole \in [1..Chunks -> -1..Chunks]
    BY ChunkTypes DEF Whole
  <2> QED
    BY <2>1, ChunkTypes, IsASeq
<1>5. \A s \in Seq(-1..Chunks), chunk \in 0..Chunks : Append(s, chunk) \in Seq(-1..Chunks)
  BY <1>1, AppendProperties
<1> QED
  BY <1>3, <1>4, <1>5

\* what may become of a transfer
LEMMA TransferTypes ==
    ASSUME NEW table \in Transfers, NEW f \in Files
    PROVE  /\ table[f] \in Transfer /\ table[f].chunk \in 0..Chunks
           /\ \A s \in States : [table EXCEPT ![f].state = s] \in Transfers
           /\ \A c \in 0..Chunks : [table EXCEPT ![f].chunk = c] \in Transfers
           /\ [table EXCEPT ![f].cancelled = TRUE] \in Transfers
<1>1. table \in [Files -> Transfer] /\ table[f] \in Transfer
  BY DEF Transfers, Transfer
<1>2. ASSUME NEW t \in Transfer
      PROVE  [table EXCEPT ![f] = t] \in Transfers
  BY <1>1, <1>2 DEF Transfers, Transfer
<1>3. /\ \A s \in States : [table[f] EXCEPT !.state = s] \in Transfer
      /\ \A c \in 0..Chunks : [table[f] EXCEPT !.chunk = c] \in Transfer
      /\ [table[f] EXCEPT !.cancelled = TRUE] \in Transfer
  BY <1>1 DEF Transfer
<1>4. /\ \A s : [table EXCEPT ![f].state = s] = [table EXCEPT ![f] = [table[f] EXCEPT !.state = s]]
      /\ \A c : [table EXCEPT ![f].chunk = c] = [table EXCEPT ![f] = [table[f] EXCEPT !.chunk = c]]
      /\ [table EXCEPT ![f].cancelled = TRUE] =
            [table EXCEPT ![f] = [table[f] EXCEPT !.cancelled = TRUE]]
  OBVIOUS
<1>5. table[f].chunk \in 0..Chunks
  BY <1>1 DEF Transfer
<1> QED
  BY <1>1, <1>2, <1>3, <1>4, <1>5

Timers == SUBSET (Files \X (0..Chunks))

LEMMA TimerTypes ==
    ASSUME NEW timers \in Timers, NEW f \in Files, NEW chunk \in 0..Chunks
    PROVE  /\ timers \cup {<<f, chunk>>} \in Timers /\ timers \ {<<f, chunk>>} \in Timers
           /\ timers \ TimersOf(timers, f) \in Timers
           /\ (timers \ TimersOf(timers, f)) \cup {<<f, chunk>>} \in Timers
  BY DEF Timers

LEMMA StateTypes == {"new", "asked", "listed", "over"} \subseteq States
  BY DEF States

LEMMA KindTypes ==
    {"request", "accept", "deny", "file", "chunk", "ack", "nack", "write", "finish", "complete"}
        \subseteq Types
  BY DEF Types

\* the parts of the handlers
LEMMA DoSendFileTypes ==
    ASSUME TypeOK, NEW f \in Files, DoSendFile(f)
    PROVE  sending' \in Transfers /\ sendTimers' \in Timers /\ toReceiver' \in Seq(Packets)
<1>1. sending \in Transfers /\ sendTimers \in Timers /\ toReceiver \in Seq(Packets)
  BY DEF TypeOK, Timers
<1>2. /\ Packet("file", f, Chunks) \in Packets /\ Packet("file", f, 0) \in Packets
  BY ChunkTypes, KindTypes, PacketTypes
<1>3. \E st \in {"over", "listed"} : sending' = [sending EXCEPT ![f].state = st]
  BY DEF DoSendFile
<1>4. sending' \in Transfers
  <2>1. "over" \in States /\ "listed" \in States
    BY DEF States
  <2>2. \A st \in States : [sending EXCEPT ![f].state = st] \in Transfers
    BY <1>1, TransferTypes
  <2> QED
    BY <1>3, <2>1, <2>2
<1>5. sendTimers' = sendTimers \/ sendTimers' = sendTimers \cup {<<f, 0>>}
  BY DEF DoSendFile
<1>6. \/ toReceiver' = toReceiver
      \/ toReceiver' = Add(toReceiver, Packet("file", f, Chunks))
      \/ toReceiver' = Add(toReceiver, Packet("file", f, 0))
  BY DEF DoSendFile
<1> QED
  BY <1>1, <1>2, <1>4, <1>5, <1>6, ChunkTypes, TimerTypes, AddTypes, ZenonT(60)

LEMMA CancelSendingTypes ==
    ASSUME TypeOK, NEW f \in Files, CancelSending(f)
    PROVE  sending' \in Transfers /\ sendTimers' \in Timers
<1>1. sending \in Transfers /\ sendTimers \in Timers
  BY DEF TypeOK, Timers
<1> QED
  BY <1>1, ChunkTypes, StateTypes, TransferTypes, TimerTypes DEF CancelSending

LEMMA SendChunkTypes ==
    ASSUME TypeOK, NEW f \in Files, NEW chunk \in 0..Chunks, SendChunk(f, chunk)
    PROVE  sending' \in Transfers /\ sendTimers' \in Timers /\ toReceiver' \in Seq(Packets)
<1>1. sending \in Transfers /\ sendTimers \in Timers /\ toReceiver \in Seq(Packets)
  BY DEF TypeOK, Timers
<1>2. Packet("chunk", f, chunk) \in Packets
  BY KindTypes, PacketTypes
<1> QED
  BY <1>1, <1>2, TransferTypes, TimerTypes, AddTypes DEF SendChunk

LEMMA CancelFileTypes ==
    ASSUME TypeOK, NEW f \in Files, NEW chunk \in 0..Chunks, CancelFile(f, chunk)
    PROVE  /\ receiving' \in Transfers /\ recvTimers' \in Timers /\ cleanTimers' \subseteq Files
           /\ disk' \in [Files -> Seq(-1..Chunks)] /\ toSender' \in Seq(Packets)
<1>1. /\ receiving \in Transfers /\ recvTimers \in Timers /\ cleanTimers \subseteq Files
      /\ disk \in [Files -> Seq(-1..Chunks)] /\ toSender \in Seq(Packets)
  BY DEF TypeOK, Timers
<1>2. Packet("nack", f, chunk) \in Packets
  BY KindTypes, PacketTypes
<1>3. toSender' \in Seq(Packets)
  BY <1>1, <1>2, AddTypes DEF CancelFile
<1>4. CASE receiving[f].state = "listed"
  <2>1. /\ receiving' = [receiving EXCEPT ![f].cancelled = TRUE]
        /\ recvTimers' = recvTimers \ TimersOf(recvTimers, f)
        /\ cleanTimers' = cleanTimers \cup {f} /\ disk' = [disk EXCEPT ![f] = NoFile]
    BY <1>4 DEF CancelFile
  <2> QED
    BY <1>1, <1>3, <2>1, ChunkTypes, TransferTypes, TimerTypes, DiskTypes
<1>5. CASE receiving[f].state # "listed"
  BY <1>1, <1>3, <1>5 DEF CancelFile
<1> QED
  BY <1>4, <1>5

\* the types, in the form that the steps use
LEMMA TypeParts ==
    TypeOK <=> /\ pending \subseteq Files /\ askTimers \subseteq Files /\ allSent \subseteq Files
               /\ sending \in Transfers /\ receiving \in Transfers
               /\ sendTimers \in Timers /\ recvTimers \in Timers
               /\ cleanTimers \subseteq Files /\ asking \subseteq Files /\ accepted \subseteq Files
               /\ sender \in Seq(Packets) /\ receiver \in Seq(Packets)
               /\ Len(sender) <= 1 /\ Len(receiver) <= 1
               /\ disk \in [Files -> Seq(-1..Chunks)] /\ processed \subseteq Files
               /\ toReceiver \in Seq(Packets) /\ toSender \in Seq(Packets)
               /\ lost \in {"", "network", "error"} /\ cancels \in 0..MaxCancels
               /\ late \subseteq Files
  BY DEF TypeOK, Timers

LEMMA TypePartsPrime ==
    TypeOK' <=> /\ pending' \subseteq Files /\ askTimers' \subseteq Files /\ allSent' \subseteq Files
                /\ sending' \in Transfers /\ receiving' \in Transfers
                /\ sendTimers' \in Timers /\ recvTimers' \in Timers
                /\ cleanTimers' \subseteq Files /\ asking' \subseteq Files
                /\ accepted' \subseteq Files
                /\ sender' \in Seq(Packets) /\ receiver' \in Seq(Packets)
                /\ Len(sender') <= 1 /\ Len(receiver') <= 1
                /\ disk' \in [Files -> Seq(-1..Chunks)] /\ processed' \subseteq Files
                /\ toReceiver' \in Seq(Packets) /\ toSender' \in Seq(Packets)
                /\ lost' \in {"", "network", "error"} /\ cancels' \in 0..MaxCancels
                /\ late' \subseteq Files
  BY DEF TypeOK, Timers

----------------------------------------------------------------------------
(* Types: the steps of the sender.                                          *)

LEMMA SendFileTypes ==
    ASSUME TypeOK, NEW f \in Files, SendFile(f)
    PROVE  TypeOK'
<1>1. UNCHANGED <<sender, allSent, receiverVars, toSender, lost, cancelling>>
  BY DEF SendFile
<1>2. sending \in Transfers /\ toReceiver \in Seq(Packets) /\ Packet("request", f, 0) \in Packets
  BY ChunkTypes, KindTypes, PacketTypes, TypeParts
<1>3. /\ sending' \in Transfers /\ sendTimers' \in Timers /\ toReceiver' \in Seq(Packets)
      /\ pending' \in {pending, pending \cup {f}} /\ askTimers' \in {askTimers, askTimers \cup {f}}
  <2>1. CASE DoSendFile(f) /\ UNCHANGED <<pending, askTimers>>
    BY <2>1, DoSendFileTypes
  <2>2. CASE /\ pending' = pending \cup {f} /\ askTimers' = askTimers \cup {f}
             /\ sending' = [sending EXCEPT ![f].state = "asked"]
             /\ toReceiver' = Add(toReceiver, Packet("request", f, 0)) /\ UNCHANGED sendTimers
    BY <1>2, <2>2, StateTypes, TransferTypes, AddTypes, TypeParts
  <2>3. CASE /\ sending' = [sending EXCEPT ![f].state = "over"]
             /\ UNCHANGED <<pending, askTimers, sendTimers, toReceiver>>
    BY <1>2, <2>3, StateTypes, TransferTypes, TypeParts
  <2> QED
    BY <2>1, <2>2, <2>3 DEF SendFile
<1> QED
  BY <1>1, <1>3, TypeParts, TypePartsPrime DEF receiverVars

LEMMA ResponseTypes ==
    ASSUME TypeOK, ProcessResponse
    PROVE  TypeOK'
<1> DEFINE f == Head(toSender).file
<1>1. /\ UNCHANGED <<pending, sender, allSent, receiverVars, lost, cancelling>>
      /\ toSender' = Tail(toSender) /\ askTimers' = askTimers \ {f}
  BY DEF ProcessResponse
<1>2. /\ toSender \in Seq(Packets) /\ sending \in Transfers /\ toReceiver \in Seq(Packets)
      /\ sendTimers \in Timers
  BY TypeParts
<1>3. f \in Files /\ Tail(toSender) \in Seq(Packets)
  BY <1>2, HeadTypes DEF ProcessResponse
<1>4. \/ DoSendFile(f)
      \/ sending' = [sending EXCEPT ![f].state = "over"] /\ UNCHANGED <<sendTimers, toReceiver>>
  BY DEF ProcessResponse
<1> HIDE DEF f
<1>5. sending' \in Transfers /\ sendTimers' \in Timers /\ toReceiver' \in Seq(Packets)
  <2>1. CASE DoSendFile(f)
    BY <1>3, <2>1, DoSendFileTypes
  <2>2. CASE sending' = [sending EXCEPT ![f].state = "over"] /\ UNCHANGED <<sendTimers, toReceiver>>
    BY <1>2, <1>3, <2>2, StateTypes, TransferTypes
  <2> QED
    BY <1>4, <2>1, <2>2
<1> QED
  BY <1>1, <1>3, <1>5, TypeParts, TypePartsPrime DEF receiverVars

LEMMA AckTypes ==
    ASSUME TypeOK, ProcessAck
    PROVE  TypeOK'
<1> DEFINE packet == Head(toSender)
<1>1. /\ UNCHANGED <<pending, askTimers, allSent, receiverVars, toReceiver, lost, cancelling>>
      /\ toSender' = Tail(toSender) /\ sender = <<>>
  BY DEF ProcessAck
<1>2. toSender \in Seq(Packets) /\ sending \in Transfers /\ sendTimers \in Timers
  BY TypeParts
<1>3. packet \in Packets /\ packet.file \in Files /\ Tail(toSender) \in Seq(Packets)
  BY <1>2, HeadTypes DEF ProcessAck
<1>4. \/ CancelSending(packet.file) /\ UNCHANGED sender
      \/ sender' \in {<<packet>>, <<>>} /\ UNCHANGED <<sending, sendTimers>>
  BY DEF ProcessAck
<1> HIDE DEF packet
<1>5. sending' \in Transfers /\ sendTimers' \in Timers
  BY <1>2, <1>3, <1>4, CancelSendingTypes
<1>6. sender' \in Seq(Packets) /\ Len(sender') <= 1
  BY <1>1, <1>3, <1>4, OnePacket
<1> QED
  BY <1>1, <1>3, <1>5, <1>6, TypeParts, TypePartsPrime DEF receiverVars

LEMMA SendNextTypes ==
    ASSUME TypeOK, SendNext
    PROVE  TypeOK'
<1> DEFINE f == sender[1].file
<1>1. /\ UNCHANGED <<pending, askTimers, receiverVars, toSender, lost, cancelling>>
      /\ sender # <<>> /\ sender' = <<>>
  BY DEF SendNext
<1>2. f \in Files /\ sending \in Transfers /\ toReceiver \in Seq(Packets)
  BY <1>1, InHand, TypeParts
<1>3. \/ CancelSending(f) /\ allSent' = allSent \cup {f} /\ UNCHANGED toReceiver
      \/ sending[f].chunk # Chunks /\ SendChunk(f, sending[f].chunk + 1) /\ UNCHANGED allSent
  BY DEF SendNext
<1> HIDE DEF f
<1>4. sending[f].chunk # Chunks => sending[f].chunk + 1 \in 0..Chunks
  <2>1. sending[f].chunk \in 0..Chunks
    BY <1>2, TransferTypes
  <2> QED
    BY <2>1, ChunkTypes
<1>5. /\ sending' \in Transfers /\ sendTimers' \in Timers /\ toReceiver' \in Seq(Packets)
      /\ allSent' \subseteq Files
  BY <1>2, <1>3, <1>4, CancelSendingTypes, SendChunkTypes, TypeParts
<1> QED
  BY <1>1, <1>5, OnePacket, TypeParts, TypePartsPrime DEF receiverVars

LEMMA SenderTimerTypes ==
    ASSUME TypeOK, NEW f \in Files, NEW chunk \in 0..Chunks,
           AskTimeout(f) \/ CheckChunkSending(f, chunk)
    PROVE  TypeOK'
<1>1. /\ UNCHANGED <<sender, allSent, receiverVars, toReceiver, toSender, lost, cancelling>>
      /\ pending' \in {pending, pending \ {f}} /\ askTimers' \in {askTimers, askTimers \ {f}}
      /\ sendTimers' \in {sendTimers, sendTimers \ {<<f, chunk>>}}
      /\ sending' = sending \/ sending' = [sending EXCEPT ![f].state = "over"]
  BY DEF AskTimeout, CheckChunkSending
<1>2. sending' \in Transfers /\ sendTimers' \in Timers
  <2>1. sending \in Transfers /\ sendTimers \in Timers /\ "over" \in States
    BY StateTypes, TypeParts
  <2>2. [sending EXCEPT ![f].state = "over"] \in Transfers
    BY <2>1, TransferTypes
  <2>3. sendTimers \ {<<f, chunk>>} \in Timers
    BY <2>1, TimerTypes
  <2> QED
    BY <1>1, <2>1, <2>2, <2>3
<1> QED
  BY <1>1, <1>2, TypeParts, TypePartsPrime DEF receiverVars

----------------------------------------------------------------------------
(* Types: the steps of the receiver.                                        *)

\* packets and questions
LEMMA AskingTypes ==
    ASSUME TypeOK,
           ProcessRequest \/ (\E f \in Files, accept \in BOOLEAN : Answer(f, accept)) \/ CannotOpen
    PROVE  TypeOK'
<1>1. toReceiver \in Seq(Packets) /\ toSender \in Seq(Packets)
  BY TypeParts
<1>2. CASE ProcessRequest
  <2>1. /\ UNCHANGED <<senderVars, accepted, receiving, recvTimers, cleanTimers, receiver, disk,
                       processed, toSender, lost, cancelling>>
        /\ asking' = asking \cup {Head(toReceiver).file} /\ toReceiver' = Tail(toReceiver)
    BY <1>2 DEF ProcessRequest
  <2>2. Head(toReceiver).file \in Files /\ Tail(toReceiver) \in Seq(Packets)
    BY <1>1, <1>2, HeadTypes DEF ProcessRequest
  <2> QED
    BY <2>1, <2>2, TypeParts, TypePartsPrime DEF senderVars
<1>3. CASE \E f \in Files, accept \in BOOLEAN : Answer(f, accept)
  <2>1. PICK f \in Files, type \in {"accept", "deny"} :
           /\ UNCHANGED <<senderVars, receiving, recvTimers, cleanTimers, receiver, disk, processed,
                          toReceiver, lost, cancelling>>
           /\ asking' = asking \ {f} /\ accepted' \in {accepted, accepted \cup {f}}
           /\ toSender' = Add(toSender, Packet(type, f, 0))
    BY <1>3 DEF Answer
  <2>2. Packet(type, f, 0) \in Packets
    BY ChunkTypes, KindTypes, PacketTypes
  <2>3. toSender' \in Seq(Packets)
    BY <1>1, <2>1, <2>2, AddTypes
  <2> QED
    BY <2>1, <2>3, TypeParts, TypePartsPrime DEF senderVars
<1>4. CASE CannotOpen
  <2>1. /\ UNCHANGED <<senderVars, asking, receiving, recvTimers, cleanTimers, receiver, disk,
                       processed, toSender, cancelling>>
        /\ accepted' \subseteq accepted /\ toReceiver' = Tail(toReceiver)
        /\ lost' \in {lost, "error"}
    BY <1>4 DEF CannotOpen, Raise
  <2>2. Tail(toReceiver) \in Seq(Packets)
    BY <1>1, <1>4, HeadTypes DEF CannotOpen
  <2> QED
    BY <2>1, <2>2, TypeParts, TypePartsPrime DEF senderVars
<1> QED
  BY <1>2, <1>3, <1>4

\* the first packet of a file
LEMMA FileTypes ==
    ASSUME TypeOK, ProcessSendFile \/ ProcessWholeFile
    PROVE  TypeOK'
<1> DEFINE f == Head(toReceiver).file
<1>1. /\ UNCHANGED <<senderVars, asking, cleanTimers, receiver, lost, cancelling>>
      /\ toReceiver' = Tail(toReceiver) /\ accepted' \subseteq accepted
      /\ processed' \in {processed, processed \cup {f}}
      /\ disk' = [disk EXCEPT ![f] = <<>>] \/ disk' = [disk EXCEPT ![f] = Whole]
      /\ receiving' = receiving \/ receiving' = [receiving EXCEPT ![f].state = "listed"]
      /\ recvTimers' \in {recvTimers, recvTimers \cup {<<f, 0>>}}
      /\ \/ toSender' = toSender
         \/ toSender' = Add(toSender, Packet("ack", f, 0))
         \/ toSender' = Add(toSender, Packet("nack", f, 0))
  BY DEF ProcessSendFile, ProcessWholeFile
<1>2. /\ toReceiver \in Seq(Packets) /\ toSender \in Seq(Packets) /\ receiving \in Transfers
      /\ recvTimers \in Timers /\ disk \in [Files -> Seq(-1..Chunks)]
  BY TypeParts
<1>3. f \in Files /\ Tail(toReceiver) \in Seq(Packets)
  BY <1>2, HeadTypes DEF ProcessSendFile, ProcessWholeFile
<1> HIDE DEF f
<1>4. Packet("ack", f, 0) \in Packets /\ Packet("nack", f, 0) \in Packets
  BY <1>3, ChunkTypes, KindTypes, PacketTypes
<1>5. toSender' \in Seq(Packets)
  BY <1>1, <1>2, <1>4, AddTypes
<1>6. receiving' \in Transfers /\ recvTimers' \in Timers
  <2>1. [receiving EXCEPT ![f].state = "listed"] \in Transfers
    BY <1>2, <1>3, StateTypes, TransferTypes
  <2>2. recvTimers \cup {<<f, 0>>} \in Timers
    BY <1>2, <1>3, ChunkTypes, TimerTypes
  <2> QED
    BY <1>1, <1>2, <2>1, <2>2
<1>7. disk' \in [Files -> Seq(-1..Chunks)]
  BY <1>1, <1>2, <1>3, DiskTypes
<1> QED
  BY <1>1, <1>3, <1>5, <1>6, <1>7, TypeParts, TypePartsPrime DEF senderVars

\* timers, the user, and the end of the connection
LEMMA ReceiverTimerTypes ==
    ASSUME TypeOK, NEW f \in Files, NEW chunk \in 0..Chunks,
           CleanReceiveState(f) \/ CheckChunkReceiving(f, chunk)
    PROVE  TypeOK'
<1>1. /\ UNCHANGED <<senderVars, asking, accepted, receiver, disk, processed, toReceiver, toSender,
                     lost, cancelling>>
      /\ cleanTimers' \subseteq cleanTimers
      /\ recvTimers' \in {recvTimers, recvTimers \ {<<f, chunk>>}}
      /\ receiving' = receiving \/ receiving' = [receiving EXCEPT ![f].state = "over"]
  BY DEF CleanReceiveState, CheckChunkReceiving
<1>2. receiving \in Transfers /\ recvTimers \in Timers /\ "over" \in States
  BY StateTypes, TypeParts
<1>3. [receiving EXCEPT ![f].state = "over"] \in Transfers
  BY <1>2, TransferTypes
<1>4. recvTimers \ {<<f, chunk>>} \in Timers
  BY <1>2, TimerTypes
<1> QED
  BY <1>1, <1>2, <1>3, <1>4, TypeParts, TypePartsPrime DEF senderVars

LEMMA CancelTypes ==
    ASSUME TypeOK, NEW f \in Files, CancelDownload(f)
    PROVE  TypeOK'
<1>1. /\ UNCHANGED <<senderVars, asking, accepted, receiver, processed, toReceiver, lost>>
      /\ CancelFile(f, 0) /\ cancels < MaxCancels /\ cancels' = cancels + 1
      /\ late' \subseteq late \cup {f}
  BY DEF CancelDownload
<1>2. cancels' \in 0..MaxCancels
  <2>1. cancels \in 0..MaxCancels /\ MaxCancels \in Nat
    BY TransferAssumption, TypeParts
  <2> QED
    BY <1>1, <2>1
<1> QED
  BY <1>1, <1>2, ChunkTypes, CancelFileTypes, TypeParts, TypePartsPrime DEF senderVars

LEMMA CleanupTypes ==
    ASSUME TypeOK, Cleanup
    PROVE  TypeOK'
<1>1. /\ UNCHANGED <<sendTimers, sender, allSent, asking, cleanTimers, receiver, disk, processed, cancelling>>
      /\ toReceiver' = <<>> /\ toSender' = <<>> /\ pending' = {} /\ askTimers' = {} /\ accepted' = {}
      /\ lost' \in {"network", "error"}
      /\ sending' = [f \in Files |-> [sending[f] EXCEPT !.state = "over"]]
      /\ receiving' = [f \in Files |-> [receiving[f] EXCEPT !.state = "over"]]
      /\ recvTimers' \subseteq recvTimers
  BY DEF Cleanup
<1>2. sending \in Transfers /\ receiving \in Transfers /\ recvTimers \in Timers
  BY TypeParts
<1>3. recvTimers' \in Timers
  BY <1>1, <1>2 DEF Timers
<1>4. ASSUME NEW table \in Transfers
      PROVE  [f \in Files |-> [table[f] EXCEPT !.state = "over"]] \in Transfers
  <2>1. \A f \in Files : [table[f] EXCEPT !.state = "over"] \in Transfer
    BY StateTypes DEF Transfers, Transfer
  <2> QED
    BY <2>1 DEF Transfers, Transfer
<1>5. sending' \in Transfers /\ receiving' \in Transfers
  BY <1>1, <1>2, <1>4
<1> QED
  BY <1>1, <1>3, <1>5, OnePacket, TypeParts, TypePartsPrime

\* chunks
LEMMA ProcessChunkTypes ==
    ASSUME TypeOK, ProcessChunk
    PROVE  TypeOK'
<1> DEFINE packet == Head(toReceiver)
<1>1. /\ UNCHANGED <<senderVars, asking, accepted, processed, cancelling>>
      /\ toReceiver' = Tail(toReceiver) /\ receiver = <<>>
      /\ \/ /\ CancelFile(packet.file, packet.chunk)
            /\ lost' = "error" /\ UNCHANGED receiver
         \/ /\ UNCHANGED <<receiving, recvTimers, cleanTimers, disk, toSender, lost>>
            /\ receiver' \in {receiver, <<[packet EXCEPT !.type = "write"]>>}
  BY DEF ProcessChunk, Raise
<1>2. toReceiver \in Seq(Packets)
  BY TypeParts
<1>3. /\ packet \in Packets /\ packet.file \in Files /\ packet.chunk \in 0..Chunks
      /\ Tail(toReceiver) \in Seq(Packets)
  BY <1>2, HeadTypes DEF ProcessChunk
<1> HIDE DEF packet
<1>4. [packet EXCEPT !.type = "write"] \in Packets
  BY <1>3 DEF Packets
<1>5. receiver' \in Seq(Packets) /\ Len(receiver') <= 1
  BY <1>1, <1>4, OnePacket
<1>6. CASE CancelFile(packet.file, packet.chunk) /\ lost' = "error"
  BY <1>1, <1>3, <1>5, <1>6, CancelFileTypes, TypeParts, TypePartsPrime DEF senderVars
<1>7. CASE UNCHANGED <<receiving, recvTimers, cleanTimers, disk, toSender, lost>>
  BY <1>1, <1>3, <1>5, <1>7, TypeParts, TypePartsPrime DEF senderVars
<1> QED
  BY <1>1, <1>6, <1>7

LEMMA WriteChunkTypes ==
    ASSUME TypeOK, WriteChunk
    PROVE  TypeOK'
<1> DEFINE f == receiver[1].file
           chunk == receiver[1].chunk
<1>1. UNCHANGED <<senderVars, asking, accepted, processed, toReceiver, lost, cancelling>>
      /\ receiver # <<>>
  BY DEF WriteChunk
<1>2. receiver[1] \in Packets /\ f \in Files /\ chunk \in 0..Chunks
  BY <1>1, InHand, TypeParts
<1>3. \/ /\ receiving' = [receiving EXCEPT ![f].chunk = chunk]
         /\ disk' = [disk EXCEPT ![f] = Append(disk[f], chunk)] \/ disk' = disk
         /\ toSender' = Add(toSender, Packet("ack", f, chunk))
         /\ receiver' = <<[receiver[1] EXCEPT !.type = "finish"]>>
         /\ UNCHANGED <<recvTimers, cleanTimers>>
      \/ CancelFile(f, chunk) /\ receiver' = <<>>
      \/ /\ disk' = [disk EXCEPT ![f] = NoFile]
         /\ toSender' = Add(toSender, Packet("nack", f, chunk))
         /\ UNCHANGED <<receiving, recvTimers, cleanTimers>> /\ receiver' = <<>>
  BY DEF WriteChunk
<1>4. [receiver[1] EXCEPT !.type = "finish"] \in Packets
  BY <1>2 DEF Packets
<1> HIDE DEF f, chunk
<1>5. /\ toSender \in Seq(Packets) /\ receiving \in Transfers /\ recvTimers \in Timers
      /\ disk \in [Files -> Seq(-1..Chunks)] /\ cleanTimers \subseteq Files
  BY TypeParts
<1>6. receiver' \in Seq(Packets) /\ Len(receiver') <= 1
  BY <1>3, <1>4, OnePacket
<1>7. /\ Packet("ack", f, chunk) \in Packets /\ Packet("nack", f, chunk) \in Packets
  BY <1>2, KindTypes, PacketTypes
<1>8. /\ receiving' \in Transfers /\ recvTimers' \in Timers /\ cleanTimers' \subseteq Files
      /\ disk' \in [Files -> Seq(-1..Chunks)] /\ toSender' \in Seq(Packets)
  <2>1. CASE CancelFile(f, chunk)
    BY <1>2, <2>1, CancelFileTypes
  <2>2. CASE /\ disk' = [disk EXCEPT ![f] = NoFile]
             /\ toSender' = Add(toSender, Packet("nack", f, chunk))
             /\ UNCHANGED <<receiving, recvTimers, cleanTimers>>
    BY <1>5, <1>7, <2>2, AddTypes, DiskTypes
  <2>3. CASE /\ receiving' = [receiving EXCEPT ![f].chunk = chunk]
             /\ disk' = [disk EXCEPT ![f] = Append(disk[f], chunk)] \/ disk' = disk
             /\ toSender' = Add(toSender, Packet("ack", f, chunk))
             /\ UNCHANGED <<recvTimers, cleanTimers>>
    <3>1. [receiving EXCEPT ![f].chunk = chunk] \in Transfers
      BY <1>2, <1>5, TransferTypes
    <3>2. Append(disk[f], chunk) \in Seq(-1..Chunks)
      BY <1>2, <1>5, DiskTypes
    <3>3. disk' \in [Files -> Seq(-1..Chunks)]
      BY <1>5, <2>3, <3>2
    <3>4. toSender' \in Seq(Packets)
      BY <1>5, <1>7, <2>3, AddTypes
    <3> QED
      BY <1>5, <2>3, <3>1, <3>3, <3>4
  <2> QED
    BY <1>3, <2>1, <2>2, <2>3
<1> QED
  BY <1>1, <1>6, <1>8, TypeParts, TypePartsPrime DEF senderVars

LEMMA FinishChunkTypes ==
    ASSUME TypeOK, FinishChunk
    PROVE  TypeOK'
<1>1. /\ UNCHANGED <<senderVars, asking, accepted, receiving, recvTimers, cleanTimers, disk, processed,
                     toReceiver, toSender, lost, cancelling>>
      /\ receiver # <<>>
      /\ receiver' = <<>> \/ receiver' = <<[receiver[1] EXCEPT !.type = "complete"]>>
  BY DEF FinishChunk
<1>2. receiver[1] \in Packets
  BY <1>1, InHand, TypeParts
<1>3. [receiver[1] EXCEPT !.type = "complete"] \in Packets
  BY <1>2 DEF Packets
<1>4. receiver' \in Seq(Packets) /\ Len(receiver') <= 1
  BY <1>1, <1>3, OnePacket
<1> QED
  BY <1>1, <1>4, TypeParts, TypePartsPrime DEF senderVars

LEMMA CompleteChunkTypes ==
    ASSUME TypeOK, CompleteChunk
    PROVE  TypeOK'
<1> DEFINE f == receiver[1].file
           chunk == receiver[1].chunk
<1>1. /\ UNCHANGED <<senderVars, asking, accepted, cleanTimers, disk, toReceiver, toSender, lost, cancelling>>
      /\ receiver # <<>> /\ receiver' = <<>>
  BY DEF CompleteChunk
<1>2. f \in Files /\ chunk \in 0..Chunks
  BY <1>1, InHand, TypeParts
<1>3. /\ receiving' = receiving \/ receiving' = [receiving EXCEPT ![f].state = "over"]
      /\ recvTimers' \in {recvTimers, (recvTimers \ TimersOf(recvTimers, f)) \cup {<<f, chunk>>}}
      /\ processed' \in {processed, processed \cup {f}}
  BY DEF CompleteChunk
<1> HIDE DEF f, chunk
<1>4. receiving \in Transfers /\ recvTimers \in Timers /\ "over" \in States
  BY StateTypes, TypeParts
<1>5. [receiving EXCEPT ![f].state = "over"] \in Transfers
  BY <1>2, <1>4, TransferTypes
<1>6. (recvTimers \ TimersOf(recvTimers, f)) \cup {<<f, chunk>>} \in Timers
  BY <1>2, <1>4, TimerTypes
<1>7. receiving' \in Transfers /\ recvTimers' \in Timers /\ processed' \subseteq Files
  BY <1>2, <1>3, <1>4, <1>5, <1>6, TypeParts
<1> QED
  BY <1>1, <1>7, OnePacket, TypeParts, TypePartsPrime DEF senderVars

LEMMA TypeStep ==
    ASSUME TypeOK, [Next]_vars
    PROVE  TypeOK'
<1>1. CASE UNCHANGED vars
  BY <1>1, TypeParts, TypePartsPrime DEF vars, senderVars, receiverVars
<1>2. CASE Thread
  BY <1>2, ResponseTypes, AckTypes, SendNextTypes, AskingTypes, FileTypes, ProcessChunkTypes,
     WriteChunkTypes, FinishChunkTypes, CompleteChunkTypes DEF Thread
<1>3. ASSUME NEW f \in Files, Timer(f)
      PROVE  TypeOK'
  BY <1>3, ChunkTypes, SenderTimerTypes, ReceiverTimerTypes DEF Timer
<1>4. CASE \E f \in Files : SendFile(f) \/ CancelDownload(f)
  BY <1>4, SendFileTypes, CancelTypes
<1>5. CASE (\E f \in Files, accept \in BOOLEAN : Answer(f, accept)) \/ CannotOpen \/ Cleanup
  BY <1>5, AskingTypes, CleanupTypes
<1> QED
  BY <1>1, <1>2, <1>3, <1>4, <1>5 DEF Next

----------------------------------------------------------------------------
(* Each file is asked for, offered and opened once.                         *)

Has(q, f, T) == \E i \in 1..Len(q) : q[i].file = f /\ q[i].type \in T
Once(q, f, T) ==
    \A i, j \in 1..Len(q) :
        /\ q[i].file = f /\ q[i].type \in T
        /\ q[j].file = f /\ q[j].type \in T
        => i = j

Opens == {"request", "file"}
Replies == {"accept", "deny"}

Waits(f) == Has(toReceiver, f, Opens) \/ f \in asking \/ Has(toSender, f, Replies)

AskedOnce(f) ==
    /\ Once(toReceiver, f, Opens) /\ Once(toSender, f, Replies)
    /\ Has(toReceiver, f, Opens) => f \notin asking /\ ~Has(toSender, f, Replies)
    /\ f \in asking => ~Has(toSender, f, Replies)
    /\ Waits(f) => sending[f].state # "new" /\ receiving[f].state = "new" /\ f \notin processed
    /\ receiving[f].state # "new" \/ f \in processed => sending[f].state # "new"

\* while packets are handled
Asked == lost = "" => \A f \in Files : AskedOnce(f)

LEMMA AppendMatch ==
    ASSUME NEW q \in Seq(Packets), NEW p \in Packets, NEW f, NEW T
    PROVE  /\ Has(Append(q, p), f, T) <=> Has(q, f, T) \/ (p.file = f /\ p.type \in T)
           /\ Once(q, f, T) /\ ~(Has(q, f, T) /\ p.file = f /\ p.type \in T) =>
                 Once(Append(q, p), f, T)
<1> DEFINE a == Append(q, p)
<1>1. /\ Len(q) \in Nat /\ Len(a) = Len(q) + 1 /\ a[Len(q) + 1] = p
      /\ \A i \in 1..Len(q) : a[i] = q[i]
  BY AppendProperties, LenProperties
<1> HIDE DEF a
<1>2. /\ \A i \in 1..Len(a) : i \in 1..Len(q) \/ i = Len(q) + 1
      /\ \A i \in 1..Len(q) : i \in 1..Len(a)
      /\ Len(q) + 1 \in 1..Len(a)
  BY <1>1
<1>3. Has(a, f, T) <=> Has(q, f, T) \/ (p.file = f /\ p.type \in T)
  BY <1>1, <1>2 DEF Has
<1>4. ASSUME Once(q, f, T), ~(Has(q, f, T) /\ p.file = f /\ p.type \in T)
      PROVE  Once(a, f, T)
  BY <1>1, <1>2, <1>4 DEF Has, Once
<1> QED
  BY <1>3, <1>4 DEF a

LEMMA TailMatch ==
    ASSUME NEW q \in Seq(Packets), q # <<>>, NEW f, NEW T
    PROVE  /\ Has(Tail(q), f, T) => Has(q, f, T)
           /\ Once(q, f, T) => Once(Tail(q), f, T)
           /\ Head(q).file = f /\ Head(q).type \in T =>
                 Has(q, f, T) /\ (Once(q, f, T) => ~Has(Tail(q), f, T))
<1> DEFINE t == Tail(q)
<1>1. /\ Len(q) \in Nat \ {0} /\ Len(t) = Len(q) - 1 /\ Head(q) = q[1]
      /\ \A i \in 1..Len(t) : t[i] = q[i + 1]
  BY HeadTailProperties, EmptySeq
<1> HIDE DEF t
<1>2. /\ \A i \in 1..Len(t) : i + 1 \in 1..Len(q) /\ i + 1 # 1 /\ t[i] = q[i + 1]
      /\ \A i, j \in 1..Len(t) : i + 1 = j + 1 => i = j
      /\ 1 \in 1..Len(q)
  BY <1>1
<1>3. Has(t, f, T) => Has(q, f, T)
  BY <1>2 DEF Has
<1>4. Once(q, f, T) => Once(t, f, T)
  BY <1>2 DEF Once
<1>5. Head(q).file = f /\ Head(q).type \in T =>
         Has(q, f, T) /\ (Once(q, f, T) => ~Has(t, f, T))
  BY <1>1, <1>2 DEF Has, Once
<1> QED
  BY <1>3, <1>4, <1>5 DEF t

\* a queue that gets no packet of these types
LEMMA QuietQueue ==
    ASSUME NEW q \in Seq(Packets), NEW T, NEW r,
           \/ r = q
           \/ q # <<>> /\ r = Tail(q)
           \/ \E p \in Packets : p.type \notin T /\ r = Add(q, p)
    PROVE  \A f \in Files : /\ Has(r, f, T) => Has(q, f, T)
                            /\ Once(q, f, T) => Once(r, f, T)
<1>1. CASE r = q
  BY <1>1
<1>2. CASE q # <<>> /\ r = Tail(q)
  BY <1>2, TailMatch
<1>3. CASE \E p \in Packets : p.type \notin T /\ r = Add(q, p)
  <2>1. PICK p \in Packets : p.type \notin T /\ r = Add(q, p)
    BY <1>3
  <2>2. r = q \/ r = Append(q, p)
    BY <2>1 DEF Add
  <2> QED
    BY <2>1, <2>2, AppendMatch, ZenonT(60)
<1> QED
  BY <1>1, <1>2, <1>3

Quiet ==
    \A f \in Files :
        /\ Has(toReceiver', f, Opens) => Has(toReceiver, f, Opens)
        /\ Once(toReceiver, f, Opens) => Once(toReceiver', f, Opens)
        /\ Has(toSender', f, Replies) => Has(toSender, f, Replies)
        /\ Once(toSender, f, Replies) => Once(toSender', f, Replies)

\* Steps that neither ask nor answer nor open a file.
LEMMA AskFrame ==
    ASSUME Asked, lost' = "" => lost = "",
           lost' = "" =>
             /\ Quiet
             /\ \A f \in Files :
                  /\ f \in asking' => f \in asking
                  /\ sending[f].state # "new" => sending'[f].state # "new"
                  /\ receiving'[f].state = receiving[f].state \/ receiving[f].state # "new"
                  /\ f \in processed' => f \in processed \/ receiving[f].state # "new"
    PROVE  Asked'
<1> SUFFICES ASSUME lost' = "", NEW f \in Files
             PROVE  AskedOnce(f)'
  BY DEF Asked
<1>1. AskedOnce(f)
  BY DEF Asked
<1>2. /\ Has(toReceiver', f, Opens) => Has(toReceiver, f, Opens)
      /\ Once(toReceiver, f, Opens) => Once(toReceiver', f, Opens)
      /\ Has(toSender', f, Replies) => Has(toSender, f, Replies)
      /\ Once(toSender, f, Replies) => Once(toSender', f, Replies)
      /\ f \in asking' => f \in asking
      /\ sending[f].state # "new" => sending'[f].state # "new"
      /\ receiving'[f].state = receiving[f].state \/ receiving[f].state # "new"
      /\ f \in processed' => f \in processed \/ receiving[f].state # "new"
  BY DEF Quiet
<1>3. Waits(f)' => Waits(f)
  BY <1>2 DEF Waits
<1> QED
  BY <1>1, <1>2, <1>3 DEF AskedOnce

\* Steps about the opening of one file, which leave the others alone.
LEMMA AskOne ==
    ASSUME Asked, lost = "", NEW f \in Files, AskedOnce(f)',
           \A g \in Files \ {f} :
              /\ Has(toReceiver', g, Opens) => Has(toReceiver, g, Opens)
              /\ Once(toReceiver, g, Opens) => Once(toReceiver', g, Opens)
              /\ Has(toSender', g, Replies) => Has(toSender, g, Replies)
              /\ Once(toSender, g, Replies) => Once(toSender', g, Replies),
           \A g \in Files \ {f} :
              /\ g \in asking' => g \in asking
              /\ sending'[g].state = sending[g].state /\ receiving'[g].state = receiving[g].state
              /\ g \in processed' => g \in processed
    PROVE  Asked'
<1> SUFFICES ASSUME NEW g \in Files \ {f}
             PROVE  AskedOnce(g)'
  BY DEF Asked
<1>1. AskedOnce(g)
  BY DEF Asked
<1>2. Waits(g)' => Waits(g)
  BY DEF Waits
<1> QED
  BY <1>1, <1>2 DEF AskedOnce

\* a request, or the file, goes out
LEMMA Offered ==
    ASSUME TypeOK, Asked, lost = "", NEW f \in Files,
           receiving[f].state = "new", f \notin processed,
           ~Has(toReceiver, f, Opens), f \notin asking, ~Has(toSender', f, Replies),
           \/ toReceiver' = toReceiver
           \/ \E p \in Packets : p.file = f /\ toReceiver' = Add(toReceiver, p),
           toSender' = toSender \/ (toSender # <<>> /\ toSender' = Tail(toSender)),
           sending'[f].state # "new", \A g \in Files \ {f} : sending'[g].state = sending[g].state,
           UNCHANGED <<receiving, processed, asking>>
    PROVE  Asked'
<1>1. toReceiver \in Seq(Packets) /\ toSender \in Seq(Packets)
  BY TypeParts
<1>2. \A g \in Files : /\ Has(toSender', g, Replies) => Has(toSender, g, Replies)
                       /\ Once(toSender, g, Replies) => Once(toSender', g, Replies)
  BY <1>1, QuietQueue
<1>3. /\ Once(toReceiver', f, Opens)
      /\ \A g \in Files : g # f => /\ Has(toReceiver', g, Opens) => Has(toReceiver, g, Opens)
                                   /\ Once(toReceiver, g, Opens) => Once(toReceiver', g, Opens)
  <2>1. Once(toReceiver, f, Opens)
    BY DEF Asked, AskedOnce
  <2>2. CASE toReceiver' = toReceiver
    BY <2>1, <2>2
  <2>3. ASSUME NEW p \in Packets, p.file = f, toReceiver' = Add(toReceiver, p)
        PROVE  /\ Once(toReceiver', f, Opens)
               /\ \A g \in Files : g # f => /\ Has(toReceiver', g, Opens) => Has(toReceiver, g, Opens)
                                            /\ Once(toReceiver, g, Opens) => Once(toReceiver', g, Opens)
    <3>1. toReceiver' = Append(toReceiver, p)
      BY <2>3 DEF Add
    <3>2. \A g \in Files : /\ Has(toReceiver', g, Opens) <=>
                                 Has(toReceiver, g, Opens) \/ (p.file = g /\ p.type \in Opens)
                           /\ Once(toReceiver, g, Opens) /\
                              ~(Has(toReceiver, g, Opens) /\ p.file = g /\ p.type \in Opens) =>
                                 Once(toReceiver', g, Opens)
      BY <1>1, <3>1, AppendMatch
    <3> QED
      BY <2>1, <2>3, <3>2
  <2> QED
    BY <2>2, <2>3
<1>4. AskedOnce(f)'
  <2>1. Once(toSender, f, Replies)
    BY DEF Asked, AskedOnce
  <2>2. Waits(f)' => Has(toReceiver', f, Opens)
    BY DEF Waits
  <2> QED
    BY <1>2, <1>3, <2>1, <2>2 DEF AskedOnce, Waits
<1>5. \A g \in Files \ {f} :
         /\ Has(toReceiver', g, Opens) => Has(toReceiver, g, Opens)
         /\ Once(toReceiver, g, Opens) => Once(toReceiver', g, Opens)
         /\ Has(toSender', g, Replies) => Has(toSender, g, Replies)
         /\ Once(toSender, g, Replies) => Once(toSender', g, Replies)
  <2>1. \A g \in Files \ {f} : g \in Files /\ g # f
    OBVIOUS
  <2> QED
    BY <1>2, <1>3, <2>1, Zenon
<1>6. \A g \in Files \ {f} :
         /\ g \in asking' => g \in asking
         /\ sending'[g].state = sending[g].state /\ receiving'[g].state = receiving[g].state
         /\ g \in processed' => g \in processed
  OBVIOUS
<1> QED
  BY <1>4, <1>5, <1>6, AskOne

\* what do_send_file does, for the properties of the opening
LEMMA DoSendFileEffect ==
    ASSUME TypeOK, NEW f \in Files, DoSendFile(f)
    PROVE  /\ sending'[f].state \in {"over", "listed"}
           /\ \A g \in Files \ {f} : sending'[g].state = sending[g].state
           /\ \/ toReceiver' = toReceiver
              \/ \E p \in Packets : p.file = f /\ toReceiver' = Add(toReceiver, p)
<1>1. \E st \in {"over", "listed"} : sending' = [sending EXCEPT ![f].state = st]
  BY DEF DoSendFile
<1>2. sending \in [Files -> Transfer]
  BY TypeParts DEF Transfers, Transfer
<1>3. /\ sending'[f].state \in {"over", "listed"}
      /\ \A g \in Files \ {f} : sending'[g].state = sending[g].state
  BY <1>1, <1>2 DEF Transfer
<1>4. /\ Packet("file", f, Chunks) \in Packets /\ Packet("file", f, Chunks).file = f
      /\ Packet("file", f, 0) \in Packets /\ Packet("file", f, 0).file = f
  BY ChunkTypes, KindTypes, PacketTypes
<1>5. \/ toReceiver' = toReceiver
      \/ toReceiver' = Add(toReceiver, Packet("file", f, Chunks))
      \/ toReceiver' = Add(toReceiver, Packet("file", f, 0))
  BY DEF DoSendFile
<1> QED
  BY <1>3, <1>4, <1>5

LEMMA SendFileAsked ==
    ASSUME TypeOK, Asked, NEW f \in Files, SendFile(f)
    PROVE  Asked'
<1>1. lost = "" /\ sending[f].state = "new" /\ UNCHANGED <<receiverVars, toSender, lost>>
  BY DEF SendFile
<1>2. ~Waits(f) /\ receiving[f].state = "new" /\ f \notin processed
  BY <1>1 DEF Asked, AskedOnce
<1>3. sending \in [Files -> Transfer]
  BY TypeParts DEF Transfers, Transfer
<1>4. /\ sending'[f].state # "new" /\ \A g \in Files \ {f} : sending'[g].state = sending[g].state
      /\ \/ toReceiver' = toReceiver
         \/ \E p \in Packets : p.file = f /\ toReceiver' = Add(toReceiver, p)
  <2>1. CASE DoSendFile(f)
    BY <2>1, DoSendFileEffect
  <2>2. CASE /\ sending' = [sending EXCEPT ![f].state = "asked"]
             /\ toReceiver' = Add(toReceiver, Packet("request", f, 0))
    <3>1. Packet("request", f, 0) \in Packets /\ Packet("request", f, 0).file = f
      BY ChunkTypes, KindTypes, PacketTypes
    <3> QED
      BY <1>3, <2>2, <3>1 DEF Transfer
  <2>3. CASE sending' = [sending EXCEPT ![f].state = "over"] /\ toReceiver' = toReceiver
    BY <1>3, <2>3 DEF Transfer
  <2> QED
    BY <2>1, <2>2, <2>3 DEF SendFile
<1> QED
  BY <1>1, <1>2, <1>4, Offered DEF Waits, receiverVars

LEMMA ResponseAsked ==
    ASSUME TypeOK, Asked, ProcessResponse
    PROVE  Asked'
<1> DEFINE f == Head(toSender).file
<1>1. /\ UNCHANGED <<receiverVars, lost>> /\ toSender' = Tail(toSender)
      /\ Is(toSender, "accept") \/ Is(toSender, "deny")
  BY DEF ProcessResponse
<1>2. /\ toSender \in Seq(Packets) /\ sending \in [Files -> Transfer]
  BY TypeParts DEF Transfers, Transfer
<1>3. /\ lost = "" /\ toSender # <<>> /\ f \in Files /\ Head(toSender).type \in Replies
  BY <1>1, <1>2, HeadTypes DEF Replies
<1>4. \/ DoSendFile(f)
      \/ sending' = [sending EXCEPT ![f].state = "over"] /\ UNCHANGED toReceiver
  BY DEF ProcessResponse
<1>5. /\ Has(toSender, f, Replies)
      /\ Once(toSender, f, Replies) => ~Has(toSender', f, Replies)
  BY <1>1, <1>2, <1>3, TailMatch
<1> HIDE DEF f
<1>6. /\ ~Has(toReceiver, f, Opens) /\ f \notin asking /\ ~Has(toSender', f, Replies)
      /\ receiving[f].state = "new" /\ f \notin processed
  BY <1>3, <1>5 DEF Asked, AskedOnce, Waits
<1>7. /\ sending'[f].state # "new" /\ \A g \in Files \ {f} : sending'[g].state = sending[g].state
      /\ \/ toReceiver' = toReceiver
         \/ \E p \in Packets : p.file = f /\ toReceiver' = Add(toReceiver, p)
  <2>1. CASE DoSendFile(f)
    BY <1>3, <2>1, DoSendFileEffect
  <2>2. CASE sending' = [sending EXCEPT ![f].state = "over"] /\ UNCHANGED toReceiver
    BY <1>2, <1>3, <2>2 DEF Transfer
  <2> QED
    BY <1>4, <2>1, <2>2
<1> QED
  BY <1>1, <1>3, <1>6, <1>7, Offered DEF receiverVars

\* the request becomes a question
LEMMA RequestAsked ==
    ASSUME TypeOK, Asked, ProcessRequest
    PROVE  Asked'
<1>1. toReceiver \in Seq(Packets) /\ Is(toReceiver, "request")
  BY TypeParts DEF ProcessRequest
<1>2. PICK f \in Files : /\ f = Head(toReceiver).file /\ lost = "" /\ toReceiver # <<>>
                        /\ Head(toReceiver).type \in Opens
  BY <1>1, HeadTypes DEF Opens
<1>3. /\ UNCHANGED <<senderVars, receiving, processed, toSender, lost>>
      /\ asking' = asking \cup {f} /\ toReceiver' = Tail(toReceiver)
  BY <1>2 DEF ProcessRequest
<1>4. /\ Has(toReceiver, f, Opens)
      /\ Once(toReceiver, f, Opens) => ~Has(toReceiver', f, Opens)
  BY <1>3, <1>1, <1>2, TailMatch
<1>5. \A g \in Files : /\ Has(toReceiver', g, Opens) => Has(toReceiver, g, Opens)
                       /\ Once(toReceiver, g, Opens) => Once(toReceiver', g, Opens)
  BY <1>3, <1>1, <1>2, QuietQueue
<1>6. AskedOnce(f)
  BY <1>2 DEF Asked
<1>7. Waits(f)
  BY <1>4 DEF Waits
<1>8. AskedOnce(f)'
  <2>1. ~Has(toReceiver', f, Opens) /\ ~Has(toSender, f, Replies)
    BY <1>4, <1>6, Zenon DEF AskedOnce
  <2>2. Once(toReceiver', f, Opens) /\ Once(toSender, f, Replies)
    BY <1>2, <1>5, <1>6, Zenon DEF AskedOnce
  <2>3. sending[f].state # "new" /\ receiving[f].state = "new" /\ f \notin processed
    BY <1>6, <1>7 DEF AskedOnce
  <2>4. UNCHANGED <<sending, receiving, processed, toSender>>
    BY <1>3 DEF senderVars
  <2> QED
    BY <2>1, <2>2, <2>3, <2>4 DEF AskedOnce
<1>9. \A g \in Files \ {f} :
         /\ Has(toReceiver', g, Opens) => Has(toReceiver, g, Opens)
         /\ Once(toReceiver, g, Opens) => Once(toReceiver', g, Opens)
         /\ Has(toSender', g, Replies) => Has(toSender, g, Replies)
         /\ Once(toSender, g, Replies) => Once(toSender', g, Replies)
  <2>1. UNCHANGED toSender
    BY <1>3
  <2> QED
    BY <1>5, <2>1, Zenon
<1>11. \A g \in Files \ {f} :
         /\ g \in asking' => g \in asking
         /\ sending'[g].state = sending[g].state /\ receiving'[g].state = receiving[g].state
         /\ g \in processed' => g \in processed
  BY <1>3 DEF senderVars
<1> QED
  BY <1>2, <1>8, <1>9, <1>11, AskOne

\* the question becomes an answer
LEMMA AnswerAsked ==
    ASSUME TypeOK, Asked, NEW f \in Files, NEW accept \in BOOLEAN, Answer(f, accept)
    PROVE  Asked'
<1>1. /\ UNCHANGED <<senderVars, receiving, processed, toReceiver, lost>>
      /\ f \in asking /\ asking' = asking \ {f}
      /\ \E type \in Replies : toSender' = Add(toSender, Packet(type, f, 0))
  BY DEF Answer, Replies
<1>2. CASE lost # ""
  BY <1>1, <1>2 DEF Asked
<1>3. CASE lost = ""
  <2>1. PICK type \in Replies : toSender' = Append(toSender, Packet(type, f, 0))
    BY <1>1, <1>3 DEF Add
  <2>2. /\ Packet(type, f, 0) \in Packets /\ Packet(type, f, 0).file = f
        /\ Packet(type, f, 0).type \in Replies
    BY ChunkTypes, KindTypes, PacketTypes DEF Replies
  <2>3. toSender \in Seq(Packets)
    BY TypeParts
  <2>4. AskedOnce(f) /\ Waits(f)
    BY <1>1, <1>3 DEF Asked, Waits
  <2>5. ~Has(toReceiver, f, Opens) /\ ~Has(toSender, f, Replies)
    BY <1>1, <2>4 DEF AskedOnce
  <2>6. Once(toSender', f, Replies)
    BY <2>1, <2>2, <2>3, <2>4, <2>5, AppendMatch DEF AskedOnce
  <2>7. AskedOnce(f)'
    BY <1>1, <2>4, <2>5, <2>6 DEF AskedOnce, Waits, senderVars
  <2>8. \A g \in Files : g # f => /\ Has(toSender', g, Replies) => Has(toSender, g, Replies)
                                  /\ Once(toSender, g, Replies) => Once(toSender', g, Replies)
    BY <2>1, <2>2, <2>3, AppendMatch
  <2>9. \A g \in Files \ {f} :
           /\ Has(toReceiver', g, Opens) => Has(toReceiver, g, Opens)
           /\ Once(toReceiver, g, Opens) => Once(toReceiver', g, Opens)
           /\ Has(toSender', g, Replies) => Has(toSender, g, Replies)
           /\ Once(toSender, g, Replies) => Once(toSender', g, Replies)
    <3>1. toReceiver' = toReceiver
      BY <1>1
    <3>2. \A g \in Files \ {f} : g \in Files /\ g # f
      OBVIOUS
    <3> QED
      BY <2>8, <3>1, <3>2, Zenon
  <2>10. \A g \in Files \ {f} :
           /\ g \in asking' => g \in asking
           /\ sending'[g].state = sending[g].state /\ receiving'[g].state = receiving[g].state
           /\ g \in processed' => g \in processed
    BY <1>1 DEF senderVars
  <2> QED
    BY <1>3, <2>7, <2>9, <2>10, AskOne
<1> QED
  BY <1>2, <1>3

\* the file is opened
LEMMA FileAsked ==
    ASSUME TypeOK, Asked, ProcessSendFile \/ ProcessWholeFile
    PROVE  Asked'
<1>1. /\ toReceiver \in Seq(Packets) /\ toSender \in Seq(Packets) /\ receiving \in [Files -> Transfer]
      /\ Is(toReceiver, "file")
  BY TypeParts DEF Transfers, Transfer, ProcessSendFile, ProcessWholeFile
<1>2. PICK f \in Files : /\ f = Head(toReceiver).file /\ lost = "" /\ toReceiver # <<>>
                        /\ Head(toReceiver).type \in Opens
  BY <1>1, HeadTypes DEF Opens
<1>3. /\ UNCHANGED <<senderVars, asking, lost>>
      /\ toReceiver' = Tail(toReceiver)
      /\ processed' \in {processed, processed \cup {f}}
      /\ receiving' = receiving \/ receiving' = [receiving EXCEPT ![f].state = "listed"]
      /\ \/ toSender' = toSender
         \/ toSender' = Add(toSender, Packet("ack", f, 0))
         \/ toSender' = Add(toSender, Packet("nack", f, 0))
  BY <1>2 DEF ProcessSendFile, ProcessWholeFile
<1>4. /\ Has(toReceiver, f, Opens)
      /\ Once(toReceiver, f, Opens) => ~Has(toReceiver', f, Opens)
  BY <1>3, <1>1, <1>2, TailMatch
<1>5. \A g \in Files : /\ Has(toReceiver', g, Opens) => Has(toReceiver, g, Opens)
                       /\ Once(toReceiver, g, Opens) => Once(toReceiver', g, Opens)
  BY <1>3, <1>1, <1>2, QuietQueue
<1>6. \A g \in Files : /\ Has(toSender', g, Replies) => Has(toSender, g, Replies)
                       /\ Once(toSender, g, Replies) => Once(toSender', g, Replies)
  <2>1. /\ Packet("ack", f, 0) \in Packets /\ Packet("ack", f, 0).type \notin Replies
        /\ Packet("nack", f, 0) \in Packets /\ Packet("nack", f, 0).type \notin Replies
    <3>1. "ack" \in Types /\ "nack" \in Types /\ "ack" \notin Replies /\ "nack" \notin Replies
      BY DEF Types, Replies
    <3>2. ASSUME NEW type \in Types
          PROVE  Packet(type, f, 0) \in Packets /\ Packet(type, f, 0).type = type
      BY ChunkTypes, PacketTypes
    <3> QED
      BY <3>1, <3>2
  <2>2. toSender' = toSender \/ \E p \in Packets : p.type \notin Replies /\ toSender' = Add(toSender, p)
    BY <1>3, <2>1
  <2> QED
    BY <1>1, <2>2, QuietQueue
<1>7. AskedOnce(f) /\ Waits(f)
  BY <1>2, <1>4 DEF Asked, Waits
<1>8. ~Waits(f)'
  <2>1. ~Has(toReceiver', f, Opens) /\ f \notin asking /\ ~Has(toSender, f, Replies)
    BY <1>4, <1>7, Zenon DEF AskedOnce
  <2>2. asking' = asking
    BY <1>3
  <2> QED
    BY <1>2, <1>6, <2>1, <2>2, Zenon DEF Waits
<1>9. AskedOnce(f)'
  <2>1. Once(toReceiver', f, Opens) /\ Once(toSender', f, Replies) /\ sending'[f].state # "new"
    <3>1. sending' = sending
      BY <1>3 DEF senderVars
    <3> QED
      BY <1>2, <1>5, <1>6, <1>7, <3>1, Zenon DEF AskedOnce
  <2> QED
    BY <1>8, <2>1 DEF AskedOnce, Waits
<1>10. \A g \in Files \ {f} : receiving'[g].state = receiving[g].state
  BY <1>3, <1>1, <1>2
<1>11. \A g \in Files \ {f} : g \in processed' => g \in processed
  BY <1>3
<1>12. \A g \in Files \ {f} :
         /\ Has(toReceiver', g, Opens) => Has(toReceiver, g, Opens)
         /\ Once(toReceiver, g, Opens) => Once(toReceiver', g, Opens)
         /\ Has(toSender', g, Replies) => Has(toSender, g, Replies)
         /\ Once(toSender, g, Replies) => Once(toSender', g, Replies)
  BY <1>5, <1>6, Zenon
<1>13. \A g \in Files \ {f} :
         /\ g \in asking' => g \in asking
         /\ sending'[g].state = sending[g].state /\ receiving'[g].state = receiving[g].state
         /\ g \in processed' => g \in processed
  BY <1>3, <1>10, <1>11 DEF senderVars
<1> QED
  BY <1>2, <1>9, <1>12, <1>13, AskOne

----------------------------------------------------------------------------
(* What is on the disk is what was counted.                                 *)

Upto(n) == [i \in 1..n |-> i]
Handling(f) == receiver # <<>> /\ receiver[1].file = f

Opened(f) ==
    /\ receiving[f].state = "new" => receiving[f].chunk = 0 /\ ~receiving[f].cancelled
    /\ f \in cleanTimers => receiving[f].state # "new"
    /\ Handling(f) => receiving[f].state # "new" /\ f \notin processed
    /\ Handling(f) /\ receiver[1].type \in {"finish", "complete"} =>
         receiver[1].chunk = receiving[f].chunk
    /\ Handling(f) /\ receiver[1].type = "complete" /\ receiving[f].cancelled => f \in late
    /\ receiving[f].state = "listed" => f \notin processed
    /\ ~ShortWrites =>
         /\ (receiving[f].state = "listed" \/ Handling(f)) /\ ~receiving[f].cancelled =>
               disk[f] = Upto(receiving[f].chunk)
         /\ f \in processed => disk[f] = Whole \/ f \in late

Received == \A f \in Files : Opened(f)

LEMMA UptoNext ==
    /\ Upto(0) = <<>> /\ Upto(Chunks) = Whole
    /\ \A n \in Nat : Append(Upto(n), n + 1) = Upto(n + 1)
<1>1. Upto(0) = <<>>
  BY DEF Upto
<1>2. Upto(Chunks) = Whole
  BY DEF Upto, Whole
<1>3. ASSUME NEW n \in Nat
      PROVE  Append(Upto(n), n + 1) = Upto(n + 1)
  <2> DEFINE s == Upto(n)
             a == Append(s, n + 1)
  <2>1. s \in Seq(Nat) /\ Len(s) = n /\ \A i \in 1..n : s[i] = i
    <3>1. s \in [1..n -> Nat] /\ \A i \in 1..n : s[i] = i
      BY DEF Upto
    <3>2. s \in Seq(Nat)
      BY <3>1, IsASeq
    <3> QED
      BY <3>1, <3>2, LenProperties
  <2> HIDE DEF s
  <2>2. /\ a \in Seq(Nat) /\ Len(a) = n + 1 /\ a[n + 1] = n + 1
        /\ \A i \in 1..n : a[i] = i
    BY <2>1, AppendProperties
  <2> HIDE DEF a
  <2>3. a = [i \in 1..(n + 1) |-> a[i]]
    BY <2>2, LenProperties
  <2>4. \A i \in 1..(n + 1) : a[i] = i
    BY <2>2
  <2>5. a = [i \in 1..(n + 1) |-> i]
    BY <2>3, <2>4
  <2> QED
    BY <2>5 DEF a, s, Upto
<1> QED
  BY <1>1, <1>2, <1>3

\* a file that the step is not about
LEMMA OpenedFrame ==
    ASSUME NEW g \in Files, Opened(g),
           receiving'[g] = receiving[g], disk'[g] = disk[g],
           g \in processed' <=> g \in processed, g \in cleanTimers' => g \in cleanTimers,
           g \in late => g \in late',
           \/ receiver' = receiver \/ receiver' = <<>>
           \/ receiver'[1].file # g
    PROVE  Opened(g)'
<1>1. Handling(g)' => Handling(g) /\ receiver' = receiver
  BY DEF Handling
<1> QED
  BY <1>1 DEF Opened

\* steps that neither open a file nor write to one
LEMMA ReceivedFrame ==
    ASSUME Received, UNCHANGED <<receiving, cleanTimers, receiver, disk, processed, late>>
    PROVE  Received'
BY DEF Received, Opened, Handling

\* cancel_file, where the receiver lets go of the chunk or never had it
LEMMA CancelReceived ==
    ASSUME TypeOK, Received, NEW f \in Files, NEW chunk, CancelFile(f, chunk),
           UNCHANGED processed, receiver' \in {receiver, <<>>}, late \subseteq late',
           LastTested(f) => receiver' = <<>> \/ f \in late'
    PROVE  Received'
<1>1. receiving \in [Files -> Transfer] /\ disk \in [Files -> Seq(-1..Chunks)]
  BY TypeParts DEF Transfers, Transfer
<1>2. CASE receiving[f].state # "listed"
  <2>1. UNCHANGED <<receiving, cleanTimers, disk, processed>>
    BY <1>2 DEF CancelFile
  <2> QED
    BY <2>1, OpenedFrame DEF Received
<1>3. CASE receiving[f].state = "listed"
  <2>1. /\ receiving' = [receiving EXCEPT ![f].cancelled = TRUE]
        /\ cleanTimers' = cleanTimers \cup {f} /\ disk' = [disk EXCEPT ![f] = NoFile]
    BY <1>3 DEF CancelFile
  <2>2. /\ receiving'[f].state = "listed" /\ receiving'[f].cancelled
        /\ receiving'[f].chunk = receiving[f].chunk
    BY <1>1, <1>3, <2>1 DEF Transfer
  <2>3. ASSUME NEW g \in Files, g # f
        PROVE  Opened(g)'
    BY <1>1, <2>1, <2>3, OpenedFrame DEF Received
  <2>4. Opened(f)'
    <3>1. Opened(f)
      BY DEF Received
    <3>2. Handling(f)' => Handling(f) /\ receiver' = receiver
      BY DEF Handling
    <3>3. Handling(f)' /\ receiver'[1].type = "complete" => f \in late'
      BY <3>2 DEF Handling, LastTested
    <3>4. f \in late => f \in late'
      OBVIOUS
    <3>5. f \notin processed'
      BY <1>3, <3>1 DEF Opened
    <3> QED
      BY <1>3, <2>2, <3>1, <3>2, <3>3, <3>4, <3>5 DEF Opened
  <2> QED
    BY <2>3, <2>4 DEF Received
<1> QED
  BY <1>2, <1>3


LEMMA FileReceived ==
    ASSUME TypeOK, Asked, Received, ProcessSendFile \/ ProcessWholeFile
    PROVE  Received'
<1>1. /\ toReceiver \in Seq(Packets) /\ Is(toReceiver, "file") /\ receiver = <<>>
      /\ receiving \in [Files -> Transfer] /\ disk \in [Files -> Seq(-1..Chunks)]
  BY TypeParts DEF Transfers, Transfer, ProcessSendFile, ProcessWholeFile
<1>2. PICK f \in Files : /\ f = Head(toReceiver).file /\ lost = "" /\ toReceiver # <<>>
                        /\ Head(toReceiver).type \in Opens
  BY <1>1, HeadTypes DEF Opens
<1>3. /\ receiver' = receiver /\ cleanTimers' = cleanTimers /\ late' = late
      /\ receiving' = receiving \/ receiving' = [receiving EXCEPT ![f].state = "listed"]
      /\ \/ disk' = [disk EXCEPT ![f] = <<>>] /\ processed' = processed
         \/ /\ \/ disk' = [disk EXCEPT ![f] = Whole]
               \/ ShortWrites /\ disk' = [disk EXCEPT ![f] = <<>>]
            /\ processed' = processed \cup {f} /\ receiving' = receiving
  BY <1>2 DEF ProcessSendFile, ProcessWholeFile
<1>4. Has(toReceiver, f, Opens)
  BY <1>1, <1>2, TailMatch
<1>5. receiving[f].state = "new" /\ f \notin processed
  BY <1>2, <1>4 DEF Asked, AskedOnce, Waits
<1>6. ASSUME NEW g \in Files, g # f
      PROVE  Opened(g)'
  BY <1>1, <1>3, <1>6, OpenedFrame DEF Received
<1>7. Opened(f)'
  <2>1. receiving[f].chunk = 0 /\ ~receiving[f].cancelled /\ f \notin cleanTimers
    BY <1>5 DEF Received, Opened
  <2>2. /\ receiving'[f].chunk = 0 /\ ~receiving'[f].cancelled
        /\ receiving'[f].state \in {"new", "listed"}
        /\ receiving'[f].state = "listed" => processed' = processed /\ disk'[f] = Upto(0)
    BY <1>1, <1>3, <1>5, <2>1, UptoNext, ZenonT(60) DEF Transfer
  <2>3. f \in processed' /\ ~ShortWrites => disk'[f] = Whole
    BY <1>1, <1>3, <1>5
  <2>4. ~Handling(f)' /\ f \notin cleanTimers'
    BY <1>1, <1>3, <2>1 DEF Handling
  <2> QED
    BY <1>5, <2>2, <2>3, <2>4 DEF Opened
<1> QED
  BY <1>6, <1>7 DEF Received

LEMMA TimerReceived ==
    ASSUME TypeOK, Received, NEW f \in Files, NEW chunk,
           CleanReceiveState(f) \/ CheckChunkReceiving(f, chunk)
    PROVE  Received'
<1>1. /\ UNCHANGED <<receiver, disk, processed, late>>
      /\ \A g : g \in cleanTimers' => g \in cleanTimers
      /\ receiving' = receiving \/ receiving' = [receiving EXCEPT ![f].state = "over"]
  BY DEF CleanReceiveState, CheckChunkReceiving
<1>2. receiving \in [Files -> Transfer]
  BY TypeParts DEF Transfers, Transfer
<1>3. CASE receiving' = receiving
  BY <1>1, <1>3, OpenedFrame DEF Received
<1>4. CASE receiving' = [receiving EXCEPT ![f].state = "over"]
  <2>1. ASSUME NEW g \in Files, g # f
        PROVE  Opened(g)'
    BY <1>1, <1>2, <1>4, <2>1, OpenedFrame DEF Received
  <2>2. Opened(f)'
    <3>1. Opened(f)
      BY DEF Received
    <3>2. /\ receiving'[f].state = "over" /\ receiving'[f].chunk = receiving[f].chunk
          /\ receiving'[f].cancelled = receiving[f].cancelled
      BY <1>2, <1>4 DEF Transfer
    <3> QED
      BY <1>1, <3>1, <3>2 DEF Opened, Handling
  <2> QED
    BY <2>1, <2>2 DEF Received
<1> QED
  BY <1>1, <1>3, <1>4

LEMMA CleanupReceived ==
    ASSUME TypeOK, Received, Cleanup
    PROVE  Received'
<1>1. /\ UNCHANGED <<cleanTimers, receiver, disk, processed, late>>
      /\ receiving' = [f \in Files |-> [receiving[f] EXCEPT !.state = "over"]]
  BY DEF Cleanup
<1>2. receiving \in [Files -> Transfer]
  BY TypeParts DEF Transfers, Transfer
<1> SUFFICES ASSUME NEW f \in Files
             PROVE  Opened(f)'
  BY DEF Received
<1>3. Opened(f)
  BY DEF Received
<1>4. /\ receiving'[f].state = "over" /\ receiving'[f].chunk = receiving[f].chunk
      /\ receiving'[f].cancelled = receiving[f].cancelled
  BY <1>1, <1>2 DEF Transfer
<1> QED
  BY <1>1, <1>3, <1>4 DEF Opened, Handling

LEMMA ChunkReceived ==
    ASSUME TypeOK, Received, ProcessChunk
    PROVE  Received'
<1>1. /\ toReceiver \in Seq(Packets) /\ Is(toReceiver, "chunk") /\ receiver = <<>>
      /\ processed' = processed /\ late' = late
  BY TypeParts DEF ProcessChunk
<1>2. PICK f \in Files : f = Head(toReceiver).file /\ Head(toReceiver) \in Packets
  BY <1>1, HeadTypes
<1>3. CASE CancelFile(f, Head(toReceiver).chunk) /\ UNCHANGED receiver
  BY <1>1, <1>3, CancelReceived DEF LastTested
<1>4. CASE UNCHANGED <<receiving, cleanTimers, disk, receiver>>
  BY <1>1, <1>4, ReceivedFrame
<1>5. CASE /\ receiving[f].state = "listed" /\ ~receiving[f].cancelled
           /\ receiver' = <<[Head(toReceiver) EXCEPT !.type = "write"]>>
           /\ UNCHANGED <<receiving, cleanTimers, disk>>
  <2> DEFINE p == [Head(toReceiver) EXCEPT !.type = "write"]
  <2>1. p.file = f /\ p.type = "write"
    BY <1>2 DEF Packets
  <2> HIDE DEF p
  <2>2. receiver'[1].file = f /\ receiver'[1].type = "write"
    BY <1>5, <2>1 DEF p
  <2>3. ASSUME NEW g \in Files, g # f
        PROVE  Opened(g)'
    BY <1>1, <1>5, <2>2, <2>3, OpenedFrame DEF Received
  <2>4. Opened(f)'
    <3>1. Opened(f)
      BY DEF Received
    <3> QED
      BY <1>1, <1>5, <2>2, <3>1 DEF Opened, Handling
  <2> QED
    BY <2>3, <2>4 DEF Received
<1> QED
  BY <1>2, <1>3, <1>4, <1>5 DEF ProcessChunk

LEMMA WriteReceived ==
    ASSUME TypeOK, Received, WriteChunk
    PROVE  Received'
<1>1. /\ receiving \in [Files -> Transfer] /\ disk \in [Files -> Seq(-1..Chunks)]
      /\ receiver \in Seq(Packets) /\ receiver # <<>>
      /\ receiver[1] \in Packets /\ processed' = processed /\ late' = late
  BY InHand, TypeParts DEF Transfers, Transfer, WriteChunk
<1>2. PICK f \in Files, chunk \in 0..Chunks : receiver[1].file = f /\ receiver[1].chunk = chunk
  BY <1>1, PacketParts
<1>3. Opened(f) /\ Handling(f)
  BY <1>1, <1>2 DEF Received, Handling
<1>4. CASE CancelFile(f, chunk) /\ receiver' = <<>>
  BY <1>1, <1>4, CancelReceived
<1>5. CASE /\ receiving[f].state # "listed" /\ disk' = [disk EXCEPT ![f] = NoFile]
           /\ UNCHANGED <<receiving, cleanTimers>> /\ receiver' = <<>>
  <2>1. ASSUME NEW g \in Files, g # f
        PROVE  Opened(g)'
    BY <1>1, <1>5, <2>1, OpenedFrame DEF Received
  <2>2. ~Handling(f)'
    BY <1>5 DEF Handling
  <2>3. Opened(f)'
    BY <1>1, <1>3, <1>5, <2>2 DEF Opened
  <2> QED
    BY <2>1, <2>3 DEF Received
<1>6. CASE /\ receiving[f].chunk + 1 = chunk /\ ~receiving[f].cancelled
           /\ receiving' = [receiving EXCEPT ![f].chunk = chunk]
           /\ \/ disk' = [disk EXCEPT ![f] = Append(disk[f], chunk)]
              \/ ShortWrites /\ disk' = disk
           /\ receiver' = <<[receiver[1] EXCEPT !.type = "finish"]>>
           /\ UNCHANGED cleanTimers
  <2>1. receiver'[1].file = f /\ receiver'[1].type = "finish" /\ receiver'[1].chunk = chunk
    BY <1>1, <1>2, <1>6 DEF Packets
  <2>2. /\ receiving'[f].state = receiving[f].state /\ receiving'[f].chunk = chunk
        /\ receiving'[f].cancelled = receiving[f].cancelled
    BY <1>1, <1>6 DEF Transfer
  <2>3. ~ShortWrites => disk'[f] = Upto(chunk)
    <3> HAVE ~ShortWrites
    <3>1. disk[f] = Upto(receiving[f].chunk) /\ receiving[f].chunk \in Nat
      BY <1>1, <1>3, <1>6 DEF Opened, Transfer
    <3> QED
      BY <1>1, <1>6, <3>1, UptoNext
  <2>4. ASSUME NEW g \in Files, g # f
        PROVE  Opened(g)'
    BY <1>1, <1>6, <2>1, <2>4, OpenedFrame DEF Received
  <2>5. Opened(f)'
    BY <1>1, <1>3, <1>6, <2>1, <2>2, <2>3 DEF Opened
  <2> QED
    BY <2>4, <2>5 DEF Received
<1> QED
  BY <1>2, <1>4, <1>5, <1>6 DEF WriteChunk

LEMMA FinishReceived ==
    ASSUME TypeOK, Received, FinishChunk
    PROVE  Received'
<1>1. /\ receiver # <<>> /\ receiver[1] \in Packets /\ receiver[1].type = "finish"
      /\ UNCHANGED <<receiving, cleanTimers, disk, processed, late>>
  BY InHand, TypeParts DEF FinishChunk
<1>2. PICK f \in Files : receiver[1].file = f
  BY <1>1, PacketParts
<1>3. CASE receiver' = <<>>
  BY <1>1, <1>3, OpenedFrame DEF Received
<1>4. CASE /\ ~receiving[f].cancelled
           /\ receiver' = <<[receiver[1] EXCEPT !.type = "complete"]>>
  <2>1. receiver'[1].file = f /\ receiver'[1].chunk = receiver[1].chunk
    BY <1>1, <1>2, <1>4 DEF Packets
  <2>2. ASSUME NEW g \in Files, g # f
        PROVE  Opened(g)'
    BY <1>1, <2>1, <2>2, OpenedFrame DEF Received
  <2>3. Opened(f)'
    <3>1. Opened(f) /\ Handling(f)
      BY <1>1, <1>2 DEF Received, Handling
    <3> QED
      BY <1>1, <1>4, <2>1, <3>1 DEF Opened
  <2> QED
    BY <2>2, <2>3 DEF Received
<1> QED
  BY <1>2, <1>3, <1>4 DEF FinishChunk

LEMMA CompleteReceived ==
    ASSUME TypeOK, Received, CompleteChunk
    PROVE  Received'
<1>1. /\ receiving \in [Files -> Transfer] /\ receiver \in Seq(Packets) /\ receiver # <<>>
      /\ receiver[1] \in Packets /\ receiver[1].type = "complete"
      /\ receiver' = <<>> /\ UNCHANGED <<cleanTimers, disk, late>>
  BY InHand, TypeParts DEF Transfers, Transfer, CompleteChunk
<1>2. PICK f \in Files, chunk \in 0..Chunks : receiver[1].file = f /\ receiver[1].chunk = chunk
  BY <1>1, PacketParts
<1>3. Opened(f) /\ Handling(f)
  BY <1>1, <1>2 DEF Received, Handling
<1>4. CASE UNCHANGED <<receiving, processed>>
  BY <1>1, <1>4, OpenedFrame DEF Received
<1>5. CASE /\ chunk = Chunks
           /\ receiving' = [receiving EXCEPT ![f].state = "over"]
           /\ processed' = processed \cup {f}
  <2>1. /\ receiving'[f].state = "over" /\ receiving'[f].chunk = receiving[f].chunk
    BY <1>1, <1>5 DEF Transfer
  <2>2. ~ShortWrites => disk'[f] = Whole \/ f \in late'
    BY <1>1, <1>2, <1>3, <1>5, UptoNext DEF Opened
  <2>3. ~Handling(f)'
    BY <1>1 DEF Handling
  <2>4. ASSUME NEW g \in Files, g # f
        PROVE  Opened(g)'
    BY <1>1, <1>5, <2>4, OpenedFrame DEF Received
  <2>5. Opened(f)'
    BY <2>1, <2>2, <2>3 DEF Opened
  <2> QED
    BY <2>4, <2>5 DEF Received
<1> QED
  BY <1>2, <1>4, <1>5 DEF CompleteChunk


----------------------------------------------------------------------------
(* The steps that neither ask nor answer nor open a file keep Asked.        *)

LEMMA QuietStep ==
    ASSUME TypeOK,
           \/ toReceiver' = toReceiver
           \/ toReceiver # <<>> /\ toReceiver' = Tail(toReceiver)
           \/ \E f \in Files, c \in 0..Chunks : toReceiver' = Add(toReceiver, Packet("chunk", f, c)),
           \/ toSender' = toSender
           \/ toSender # <<>> /\ toSender' = Tail(toSender)
           \/ \E f \in Files, c \in 0..Chunks, type \in {"ack", "nack"} :
                 toSender' = Add(toSender, Packet(type, f, c))
    PROVE  Quiet
<1>1. toReceiver \in Seq(Packets) /\ toSender \in Seq(Packets)
  BY TypeParts
<1>2. \A f \in Files, c \in 0..Chunks :
         Packet("chunk", f, c) \in Packets /\ Packet("chunk", f, c).type \notin Opens
  <2> TAKE f \in Files, c \in 0..Chunks
  <2>1. Packet("chunk", f, c) \in Packets /\ Packet("chunk", f, c).type = "chunk"
    BY KindTypes, PacketTypes
  <2> QED
    BY <2>1 DEF Opens
<1>3. \A f \in Files, c \in 0..Chunks, type \in {"ack", "nack"} :
         Packet(type, f, c) \in Packets /\ Packet(type, f, c).type \notin Replies
  <2> TAKE f \in Files, c \in 0..Chunks, type \in {"ack", "nack"}
  <2>1. Packet(type, f, c) \in Packets /\ Packet(type, f, c).type = type
    BY KindTypes, PacketTypes
  <2> QED
    BY <2>1 DEF Replies
<1>4. \A f \in Files : /\ Has(toReceiver', f, Opens) => Has(toReceiver, f, Opens)
                       /\ Once(toReceiver, f, Opens) => Once(toReceiver', f, Opens)
  <2>1. \/ toReceiver' = toReceiver
        \/ toReceiver # <<>> /\ toReceiver' = Tail(toReceiver)
        \/ \E p \in Packets : p.type \notin Opens /\ toReceiver' = Add(toReceiver, p)
    BY <1>2
  <2> QED
    BY <1>1, <2>1, QuietQueue
<1>5. \A f \in Files : /\ Has(toSender', f, Replies) => Has(toSender, f, Replies)
                       /\ Once(toSender, f, Replies) => Once(toSender', f, Replies)
  <2>1. \/ toSender' = toSender
        \/ toSender # <<>> /\ toSender' = Tail(toSender)
        \/ \E p \in Packets : p.type \notin Replies /\ toSender' = Add(toSender, p)
    BY <1>3
  <2> QED
    BY <1>1, <2>1, QuietQueue
<1> QED
  BY <1>4, <1>5, Zenon DEF Quiet

\* a table where one transfer has begun, goes on or is over
LEMMA NotNew ==
    ASSUME NEW table \in Transfers, NEW next, NEW f \in Files,
           \/ next = table
           \/ next = [table EXCEPT ![f].state = "over"]
           \/ \E c : next = [table EXCEPT ![f].chunk = c]
           \/ next = [table EXCEPT ![f].cancelled = TRUE]
    PROVE  \A g \in Files : /\ table[g].state # "new" => next[g].state # "new"
                            /\ next[g].state = table[g].state \/ g = f
<1>1. table \in [Files -> Transfer]
  BY DEF Transfers, Transfer
<1> QED
  BY <1>1 DEF Transfer

\* steps of the sender
LEMMA SenderAsked ==
    ASSUME TypeOK, Asked, NEW f \in Files, NEW chunk \in 0..Chunks,
           AskTimeout(f) \/ ProcessAck \/ SendNext \/ CheckChunkSending(f, chunk)
    PROVE  Asked'
<1>1. UNCHANGED <<receiverVars, lost>>
  BY DEF AskTimeout, ProcessAck, SendNext, CheckChunkSending
<1>2. sending \in Transfers /\ toSender \in Seq(Packets)
  BY TypeParts
<1>3. CASE AskTimeout(f) \/ CheckChunkSending(f, chunk)
  <2>1. /\ UNCHANGED <<toReceiver, toSender>>
        /\ sending' = sending \/ sending' = [sending EXCEPT ![f].state = "over"]
    BY <1>3 DEF AskTimeout, CheckChunkSending
  <2>2. \A g \in Files : sending[g].state # "new" => sending'[g].state # "new"
    BY <1>2, <2>1, NotNew, SMTT(40)
  <2>3. Quiet
    BY <2>1, QuietStep
  <2> QED
    BY <1>1, <2>2, <2>3, AskFrame DEF receiverVars
<1>4. CASE ProcessAck
  <2>1. PICK g \in Files : g = Head(toSender).file /\ toSender # <<>>
    BY <1>2, <1>4, HeadTypes DEF ProcessAck
  <2>2. /\ toReceiver' = toReceiver /\ toSender' = Tail(toSender)
        /\ sending' = sending \/ sending' = [sending EXCEPT ![g].state = "over"]
    BY <1>4, <2>1 DEF ProcessAck, CancelSending
  <2>3. \A h \in Files : sending[h].state # "new" => sending'[h].state # "new"
    BY <1>2, <2>2, NotNew, SMTT(40)
  <2>4. Quiet
    BY <2>1, <2>2, QuietStep
  <2> QED
    BY <1>1, <2>3, <2>4, AskFrame DEF receiverVars
<1>5. CASE SendNext
  <2>1. PICK g \in Files : g = sender[1].file
    BY <1>5, InHand, TypeParts DEF SendNext
  <2>2. toSender' = toSender
    BY <1>5 DEF SendNext
  <2>3. CASE sending[g].chunk = Chunks
    <3>1. sending' = [sending EXCEPT ![g].state = "over"] /\ toReceiver' = toReceiver
      BY <1>5, <2>1, <2>3 DEF SendNext, CancelSending
    <3>2. \A h \in Files : sending[h].state # "new" => sending'[h].state # "new"
      BY <1>2, <3>1, NotNew
    <3>3. Quiet
      BY <2>2, <3>1, QuietStep
    <3> QED
      BY <1>1, <3>2, <3>3, AskFrame DEF receiverVars
  <2>4. CASE sending[g].chunk # Chunks
    <3>1. PICK c \in 0..Chunks : c = sending[g].chunk + 1
      <4>1. sending[g].chunk \in 0..Chunks
        BY <1>2, TransferTypes
      <4>2. \A n \in 0..Chunks : n # Chunks => n + 1 \in 0..Chunks
        BY ChunkTypes
      <4> QED
        BY <2>4, <4>1, <4>2
    <3>2. /\ sending' = [sending EXCEPT ![g].chunk = c]
          /\ toReceiver' = Add(toReceiver, Packet("chunk", g, c))
      BY <1>5, <2>1, <2>4, <3>1 DEF SendNext, SendChunk
    <3>3. \A h \in Files : sending[h].state # "new" => sending'[h].state # "new"
      BY <1>2, <3>2, NotNew
    <3>4. Quiet
      BY <2>2, <3>2, QuietStep
    <3> QED
      BY <1>1, <3>3, <3>4, AskFrame DEF receiverVars
  <2> QED
    BY <2>3, <2>4
<1> QED
  BY <1>3, <1>4, <1>5

\* timers and users of the receiver
LEMMA ReceiverAsked ==
    ASSUME TypeOK, Asked, Received, NEW f \in Files, NEW chunk \in 0..Chunks,
           CleanReceiveState(f) \/ CancelDownload(f) \/ CheckChunkReceiving(f, chunk)
    PROVE  Asked'
<1>1. /\ UNCHANGED <<senderVars, asking, processed, toReceiver, lost>>
      /\ \/ toSender' = toSender
         \/ toSender' = Add(toSender, Packet("nack", f, 0))
  BY DEF CleanReceiveState, CancelDownload, CheckChunkReceiving, CancelFile
<1>2. Quiet
  BY <1>1, ChunkTypes, QuietStep
<1>3. /\ receiving \in Transfers
      /\ \/ receiving' = receiving
         \/ receiving' = [receiving EXCEPT ![f].state = "over"]
         \/ receiving' = [receiving EXCEPT ![f].cancelled = TRUE]
  BY TypeParts DEF CleanReceiveState, CancelDownload, CheckChunkReceiving, CancelFile
<1>4. receiving' = receiving \/ receiving[f].state # "new"
  BY DEF Received, Opened, CleanReceiveState, CancelDownload, CheckChunkReceiving, Listed
<1>5. \A g \in Files : receiving'[g].state = receiving[g].state \/ receiving[g].state # "new"
  BY <1>3, <1>4, NotNew
<1> QED
  BY <1>1, <1>2, <1>5, AskFrame DEF senderVars

\* the handler of a chunk
LEMMA HandlerAsked ==
    ASSUME TypeOK, Asked, Received, ProcessChunk \/ WriteChunk \/ FinishChunk \/ CompleteChunk
    PROVE  Asked'
<1>1. receiving \in Transfers /\ toReceiver \in Seq(Packets)
  BY TypeParts
<1>2. CASE ProcessChunk
  <2>1. PICK f \in Files : f = Head(toReceiver).file /\ toReceiver # <<>>
    BY <1>1, <1>2, HeadTypes DEF ProcessChunk
  <2>2. /\ UNCHANGED <<senderVars, asking, processed>> /\ toReceiver' = Tail(toReceiver)
        /\ lost' = "error" \/ UNCHANGED <<receiving, toSender, lost>>
    BY <1>2, <2>1 DEF ProcessChunk, Raise
  <2>3. CASE lost' = "error"
    BY <2>3 DEF Asked
  <2>4. CASE UNCHANGED <<receiving, toSender, lost>>
    <3>1. Quiet
      BY <2>1, <2>2, <2>4, QuietStep
    <3> QED
      BY <2>2, <2>4, <3>1, AskFrame DEF senderVars
  <2> QED
    BY <2>2, <2>3, <2>4
<1>3. CASE WriteChunk
  <2>1. PICK f \in Files, chunk \in 0..Chunks : receiver[1].file = f /\ receiver[1].chunk = chunk
    BY <1>3, InHand, TypeParts DEF WriteChunk
  <2>2. /\ UNCHANGED <<senderVars, asking, processed, toReceiver, lost>>
        /\ \/ toSender' = Add(toSender, Packet("ack", f, chunk))
           \/ toSender' = Add(toSender, Packet("nack", f, chunk))
        /\ \/ receiving' = receiving
           \/ receiving' = [receiving EXCEPT ![f].chunk = chunk]
           \/ receiving' = [receiving EXCEPT ![f].cancelled = TRUE]
    BY <1>3, <2>1 DEF WriteChunk, CancelFile
  <2>3. Quiet
    BY <2>2, QuietStep
  <2>4. receiving[f].state # "new"
    BY <1>3, <2>1 DEF Received, Opened, Handling, WriteChunk
  <2>5. \A g \in Files : receiving'[g].state = receiving[g].state \/ receiving[g].state # "new"
    <3>1. \/ receiving' = receiving
          \/ \E c : receiving' = [receiving EXCEPT ![f].chunk = c]
          \/ receiving' = [receiving EXCEPT ![f].cancelled = TRUE]
      BY <2>2
    <3>2. \A g \in Files : receiving'[g].state = receiving[g].state \/ g = f
      <4>1. receiving \in [Files -> Transfer]
        BY <1>1 DEF Transfers, Transfer
      <4>2. CASE receiving' = receiving
        BY <4>2
      <4>3. CASE \E c : receiving' = [receiving EXCEPT ![f].chunk = c]
        BY <4>1, <4>3 DEF Transfer
      <4>4. CASE receiving' = [receiving EXCEPT ![f].cancelled = TRUE]
        BY <4>1, <4>4 DEF Transfer
      <4> QED
        BY <3>1, <4>2, <4>3, <4>4
    <3> QED
      BY <2>4, <3>2
  <2> QED
    BY <2>2, <2>3, <2>5, AskFrame DEF senderVars
<1>4. CASE FinishChunk
  <2>1. /\ UNCHANGED <<senderVars, asking, receiving, processed, toReceiver, toSender, lost>>
    BY <1>4 DEF FinishChunk
  <2>2. Quiet
    BY <2>1, QuietStep
  <2> QED
    BY <2>1, <2>2, AskFrame DEF senderVars
<1>5. CASE CompleteChunk
  <2>1. PICK f \in Files : receiver[1].file = f
    BY <1>5, InHand, TypeParts DEF CompleteChunk
  <2>2. /\ UNCHANGED <<senderVars, asking, toReceiver, toSender, lost>>
        /\ receiving' = receiving \/ receiving' = [receiving EXCEPT ![f].state = "over"]
        /\ processed' = processed \/ processed' = processed \cup {f}
    BY <1>5, <2>1 DEF CompleteChunk
  <2>3. Quiet
    BY <2>2, QuietStep
  <2>4. receiving[f].state # "new"
    BY <1>5, <2>1 DEF Received, Opened, Handling, CompleteChunk
  <2>5. \A g \in Files : receiving'[g].state = receiving[g].state \/ receiving[g].state # "new"
    BY <1>1, <2>2, <2>4, NotNew
  <2> QED
    BY <2>2, <2>3, <2>4, <2>5, AskFrame DEF senderVars
<1> QED
  BY <1>2, <1>3, <1>4, <1>5

LEMMA LossAsked ==
    ASSUME TypeOK, Asked, CannotOpen \/ Cleanup
    PROVE  Asked'
<1>1. CASE Cleanup
  BY <1>1 DEF Cleanup, Asked
<1>2. CASE CannotOpen /\ lost' = lost
  <2>1. /\ UNCHANGED <<senderVars, asking, receiving, processed, toSender>>
        /\ toReceiver # <<>> /\ toReceiver' = Tail(toReceiver)
    BY <1>2 DEF CannotOpen, Is
  <2>2. Quiet
    BY <2>1, QuietStep
  <2> QED
    BY <1>2, <2>1, <2>2, AskFrame DEF senderVars
<1>3. CASE lost' = "error"
  BY <1>3 DEF Asked
<1> QED
  BY <1>1, <1>2, <1>3 DEF CannotOpen, Raise

----------------------------------------------------------------------------
(* The invariant.                                                           *)

IInv == TypeOK /\ Asked /\ Received

LEMMA InitIInv == Init => IInv
<1> SUFFICES ASSUME Init
             PROVE  IInv
  OBVIOUS
<1>1. New \in Transfer
  BY ChunkTypes DEF New, Transfer, States
<1>2. sending = [f \in Files |-> New] /\ receiving = [f \in Files |-> New]
  BY DEF Init
<1>3. sending \in Transfers /\ receiving \in Transfers
  BY <1>1, <1>2 DEF Transfers, Transfer
<1>4. TypeOK
  <2>1. disk \in [Files -> Seq(-1..Chunks)]
    BY DiskTypes DEF Init
  <2>2. cancels \in 0..MaxCancels
    <3>1. cancels = 0 /\ MaxCancels \in Nat
      BY TransferAssumption, Zenon DEF Init
    <3> QED
      BY <3>1
  <2>3. /\ late = {} /\ pending = {} /\ askTimers = {} /\ allSent = {} /\ sendTimers = {} /\ recvTimers = {}
        /\ cleanTimers = {} /\ asking = {} /\ accepted = {} /\ processed = {}
        /\ sender = <<>> /\ receiver = <<>> /\ toReceiver = <<>> /\ toSender = <<>> /\ lost = ""
    BY DEF Init
  <2>4. {} \in Timers
    BY DEF Timers
  <2> QED
    BY <1>3, <2>1, <2>2, <2>3, <2>4, OnePacket, TypeParts
<1>5. ASSUME NEW f \in Files
      PROVE  AskedOnce(f) /\ Opened(f)
  <2>1. /\ toReceiver = <<>> /\ toSender = <<>> /\ asking = {} /\ processed = {}
        /\ cleanTimers = {} /\ receiver = <<>>
    BY DEF Init
  <2>2. ~Waits(f) /\ Once(toReceiver, f, Opens) /\ Once(toSender, f, Replies)
    BY <2>1 DEF Waits, Has, Once
  <2>3. /\ receiving[f].state = "new" /\ receiving[f].chunk = 0 /\ ~receiving[f].cancelled
    BY <1>2 DEF New
  <2> QED
    BY <2>1, <2>2, <2>3 DEF AskedOnce, Waits, Opened, Handling
<1> QED
  BY <1>4, <1>5 DEF IInv, Asked, Received

LEMMA ReceivedStep ==
    ASSUME IInv, [Next]_vars
    PROVE  Received'
<1>1. TypeOK /\ Asked /\ Received
  BY DEF IInv
<1>2. CASE UNCHANGED vars
  BY <1>1, <1>2, ReceivedFrame DEF vars, receiverVars
<1>3. CASE ProcessResponse \/ ProcessAck \/ SendNext \/ ProcessRequest \/ CannotOpen
  <2>1. UNCHANGED <<receiving, cleanTimers, receiver, disk, processed, late>>
    BY <1>3 DEF ProcessResponse, ProcessAck, SendNext, ProcessRequest, CannotOpen, receiverVars
  <2> QED
    BY <1>1, <2>1, ReceivedFrame
<1>4. ASSUME NEW f \in Files, NEW accept \in BOOLEAN, SendFile(f) \/ Answer(f, accept)
      PROVE  Received'
  <2>1. UNCHANGED <<receiving, cleanTimers, receiver, disk, processed, late>>
    BY <1>4 DEF SendFile, Answer, receiverVars
  <2> QED
    BY <1>1, <2>1, ReceivedFrame
<1>5. ASSUME NEW f \in Files, CancelDownload(f)
      PROVE  Received'
  BY <1>1, <1>5, CancelReceived DEF CancelDownload
<1>6. ASSUME NEW f \in Files, Timer(f)
      PROVE  Received'
  <2>1. CASE \E chunk \in 0..Chunks : CleanReceiveState(f) \/ CheckChunkReceiving(f, chunk)
    BY <1>1, <2>1, TimerReceived
  <2>2. CASE AskTimeout(f) \/ \E chunk \in 0..Chunks : CheckChunkSending(f, chunk)
    <3>1. UNCHANGED <<receiving, cleanTimers, receiver, disk, processed, late>>
      BY <2>2 DEF AskTimeout, CheckChunkSending, receiverVars
    <3> QED
      BY <1>1, <3>1, ReceivedFrame
  <2> QED
    BY <1>6, <2>1, <2>2, ChunkTypes DEF Timer
<1>7. CASE ProcessSendFile \/ ProcessWholeFile
  BY <1>1, <1>7, FileReceived
<1>8. CASE ProcessChunk \/ WriteChunk \/ FinishChunk \/ CompleteChunk \/ Cleanup
  BY <1>1, <1>8, ChunkReceived, WriteReceived, FinishReceived, CompleteReceived, CleanupReceived
<1> QED
  BY <1>2, <1>3, <1>4, <1>5, <1>6, <1>7, <1>8 DEF Next, Thread

LEMMA AskedStep ==
    ASSUME IInv, [Next]_vars
    PROVE  Asked'
<1>1. TypeOK /\ Asked /\ Received
  BY DEF IInv
<1>2. CASE UNCHANGED vars
  <2>1. UNCHANGED <<sending, receiving, processed, asking, toReceiver, toSender, lost>>
    BY <1>2 DEF vars, senderVars, receiverVars
  <2>2. Quiet
    BY <1>1, <2>1, QuietStep
  <2> QED
    BY <1>1, <2>1, <2>2, AskFrame
<1>3. ASSUME NEW f \in Files, NEW chunk \in 0..Chunks,
             AskTimeout(f) \/ CheckChunkSending(f, chunk)
      PROVE  Asked'
  BY <1>1, <1>3, SenderAsked
<1>4. CASE ProcessAck \/ SendNext
  <2>1. PICK f \in Files : TRUE
    <3>1. \/ sender # <<>>
          \/ Is(toSender, "ack") \/ Is(toSender, "nack")
      BY <1>4 DEF ProcessAck, SendNext
    <3> QED
      BY <1>1, <3>1, HeadTypes, InHand, TypeParts
  <2> QED
    BY <1>1, <1>4, <2>1, ChunkTypes, SenderAsked
<1>5. ASSUME NEW f \in Files, NEW chunk \in 0..Chunks,
             CleanReceiveState(f) \/ CancelDownload(f) \/ CheckChunkReceiving(f, chunk)
      PROVE  Asked'
  BY <1>1, <1>5, ReceiverAsked
<1>6. ASSUME NEW f \in Files, NEW accept \in BOOLEAN, SendFile(f) \/ Answer(f, accept)
      PROVE  Asked'
  BY <1>1, <1>6, SendFileAsked, AnswerAsked
<1>7. CASE \/ ProcessResponse \/ ProcessRequest \/ ProcessSendFile \/ ProcessWholeFile
           \/ ProcessChunk \/ WriteChunk \/ FinishChunk \/ CompleteChunk \/ CannotOpen \/ Cleanup
  BY <1>1, <1>7, ResponseAsked, RequestAsked, FileAsked, HandlerAsked, LossAsked
<1>8. ASSUME NEW f \in Files, Timer(f)
      PROVE  Asked'
  BY <1>3, <1>5, <1>8, ChunkTypes DEF Timer
<1> QED
  BY <1>2, <1>4, <1>5, <1>6, <1>7, <1>8, ChunkTypes DEF Next, Thread

----------------------------------------------------------------------------
(* The ends are in step.                                                    *)

\* the packets that the number of a chunk, or of an ack, comes with
Down == {"file", "chunk"}
Data == {"chunk"}
Acks == {"ack"}

\* the packets of these types for f have this number
Num(q, f, T, n) ==
    \A i \in 1..Len(q) : q[i].file = f /\ q[i].type \in T => q[i].chunk = n

OfTypes(q, T) == \A i \in 1..Len(q) : q[i].type \in T

Acking(f) == sender # <<>> /\ sender[1].file = f
Writing(f) == Handling(f) /\ receiver[1].type = "write"

\* the file is complete, or its user did not want it
Taken(f) ==
    \/ f \in processed
    \/ Handling(f) /\ receiver[1].type \in {"finish", "complete"}
    \/ cancels > 0 /\ receiving[f].cancelled

\* Of the file, its chunks and their acks there is one at most, wherever it is.  The
\* sender counts the chunk it has sent, the receiver the one it has written: they
\* differ while a chunk is on its way down.
InTurn(f) ==
    /\ Once(toReceiver, f, Down) /\ Once(toSender, f, Acks)
    /\ Has(toReceiver, f, Down) => ~Has(toSender, f, Acks) /\ ~Acking(f) /\ ~Writing(f)
    /\ Has(toSender, f, Acks) => ~Acking(f) /\ ~Writing(f)
    /\ Acking(f) => ~Writing(f)
    /\ Num(toReceiver, f, Data, sending[f].chunk) /\ Num(toSender, f, Acks, sending[f].chunk)
    /\ Acking(f) => sender[1].chunk = sending[f].chunk
    /\ Writing(f) => receiver[1].chunk = sending[f].chunk
    /\ Has(toReceiver, f, Data) \/ Writing(f) => sending[f].chunk = receiving[f].chunk + 1
    /\ Has(toSender, f, Acks) \/ Acking(f) => sending[f].chunk = receiving[f].chunk

\* the last chunk has been acknowledged, or is being
Complete(f) ==
    \/ f \in allSent
    \/ (Has(toSender, f, Acks) \/ Acking(f)) /\ receiving[f].chunk = Chunks

\* a file that is not open yet has no chunks, a complete one has no more, and only the
\* user cancels one in the middle of a chunk
Ends(f) ==
    /\ receiving[f].state = "new" =>
         /\ ~Has(toReceiver, f, Data) /\ ~Has(toSender, f, Acks) /\ ~Acking(f)
         /\ sending[f].chunk = 0 /\ f \notin allSent
    /\ f \in allSent =>
         /\ ~Has(toReceiver, f, Down) /\ ~Has(toSender, f, Acks) /\ ~Acking(f) /\ ~Writing(f)
         /\ receiving[f].chunk = Chunks
    /\ Handling(f) /\ receiving[f].cancelled => cancels > 0
    /\ Complete(f) => Taken(f)

Kinds ==
    /\ OfTypes(toReceiver, {"request", "file", "chunk"})
    /\ OfTypes(toSender, {"accept", "deny", "ack", "nack"})
    /\ OfTypes(sender, {"ack"}) /\ OfTypes(receiver, {"write", "finish", "complete"})

Turns == Kinds /\ \A f \in Files : InTurn(f) /\ Ends(f)

\* what becomes of the packets of a file in a queue that gets no other of them
Less(q, r, f, T) ==
    /\ Has(r, f, T) => Has(q, f, T)
    /\ Once(q, f, T) => Once(r, f, T)
    /\ \A n : Num(q, f, T, n) => Num(r, f, T, n)

LEMMA NumAppend ==
    ASSUME NEW q \in Seq(Packets), NEW p \in Packets, NEW f, NEW T, NEW n, Num(q, f, T, n),
           p.file = f /\ p.type \in T => p.chunk = n
    PROVE  Num(Append(q, p), f, T, n)
<1> DEFINE a == Append(q, p)
<1>1. /\ Len(q) \in Nat /\ Len(a) = Len(q) + 1 /\ a[Len(q) + 1] = p
      /\ \A i \in 1..Len(q) : a[i] = q[i]
  BY AppendProperties, LenProperties
<1> HIDE DEF a
<1>2. \A i \in 1..Len(a) : i \in 1..Len(q) \/ i = Len(q) + 1
  BY <1>1
<1>3. Num(a, f, T, n)
  BY <1>1, <1>2 DEF Num
<1> QED
  BY <1>3 DEF a

LEMMA NumTail ==
    ASSUME NEW q \in Seq(Packets), q # <<>>, NEW f, NEW T, NEW n, Num(q, f, T, n)
    PROVE  /\ Num(Tail(q), f, T, n)
           /\ Head(q).file = f /\ Head(q).type \in T => Head(q).chunk = n
<1> DEFINE t == Tail(q)
<1>1. /\ Len(q) \in Nat \ {0} /\ Len(t) = Len(q) - 1 /\ Head(q) = q[1]
      /\ \A i \in 1..Len(t) : t[i] = q[i + 1]
  BY HeadTailProperties, EmptySeq
<1> HIDE DEF t
<1>2. 1 \in 1..Len(q) /\ \A i \in 1..Len(t) : i + 1 \in 1..Len(q) /\ t[i] = q[i + 1]
  BY <1>1
<1>3. Num(t, f, T, n)
  BY <1>2 DEF Num
<1> QED
  BY <1>1, <1>2, <1>3 DEF Num, t

LEMMA EmptyMatch ==
    ASSUME NEW f, NEW T
    PROVE  ~Has(<<>>, f, T) /\ Once(<<>>, f, T) /\ \A n : Num(<<>>, f, T, n)
BY DEF Has, Once, Num

LEMMA LessQueue ==
    ASSUME NEW q \in Seq(Packets), NEW f, NEW T, NEW r,
           \/ r = q \/ r = <<>>
           \/ q # <<>> /\ r = Tail(q)
           \/ \E p \in Packets : ~(p.file = f /\ p.type \in T) /\ r = Add(q, p)
    PROVE  Less(q, r, f, T)
<1>1. CASE r = q \/ r = <<>>
  BY <1>1, EmptyMatch DEF Less
<1>2. CASE q # <<>> /\ r = Tail(q)
  BY <1>2, TailMatch, NumTail DEF Less
<1>3. CASE \E p \in Packets : ~(p.file = f /\ p.type \in T) /\ r = Add(q, p)
  <2>1. PICK p \in Packets : ~(p.file = f /\ p.type \in T) /\ r = Add(q, p)
    BY <1>3
  <2>2. CASE r = q
    BY <2>2 DEF Less
  <2>3. CASE r = Append(q, p)
    <3>1. \A n : Num(q, f, T, n) => Num(r, f, T, n)
      BY <2>1, <2>3, NumAppend
    <3>2. (Has(r, f, T) => Has(q, f, T)) /\ (Once(q, f, T) => Once(r, f, T))
      BY <2>1, <2>3, AppendMatch
    <3> QED
      BY <3>1, <3>2 DEF Less
  <2> QED
    BY <2>1, <2>2, <2>3 DEF Add
<1> QED
  BY <1>1, <1>2, <1>3

\* a queue that gets the only one of them
LEMMA Gained ==
    ASSUME NEW q \in Seq(Packets), NEW p \in Packets, NEW f, NEW T, ~Has(q, f, T)
    PROVE  Once(Add(q, p), f, T) /\ (p.file = f => Num(Add(q, p), f, T, p.chunk))
<1>1. Once(q, f, T) /\ \A n : Num(q, f, T, n)
  BY DEF Has, Once, Num
<1>2. CASE Add(q, p) = q
  BY <1>1, <1>2
<1>3. CASE Add(q, p) = Append(q, p)
  BY <1>1, <1>3, AppendMatch, NumAppend
<1> QED
  BY <1>2, <1>3 DEF Add

LEMMA KindsQueue ==
    ASSUME NEW q \in Seq(Packets), NEW T, NEW r, OfTypes(q, T),
           \/ r = q \/ r = <<>>
           \/ q # <<>> /\ r = Tail(q)
           \/ \E p \in Packets : p.type \in T /\ r = Add(q, p)
    PROVE  OfTypes(r, T)
<1>1. CASE r = q \/ r = <<>>
  BY <1>1 DEF OfTypes
<1>2. CASE q # <<>> /\ r = Tail(q)
  <2>1. /\ Len(q) \in Nat \ {0} /\ Len(r) = Len(q) - 1
        /\ \A i \in 1..Len(r) : r[i] = q[i + 1]
    BY <1>2, HeadTailProperties, EmptySeq
  <2>2. \A i \in 1..Len(r) : i + 1 \in 1..Len(q)
    BY <2>1
  <2> QED
    BY <2>1, <2>2 DEF OfTypes
<1>3. ASSUME NEW p \in Packets, p.type \in T, r = Append(q, p)
      PROVE  OfTypes(r, T)
  <2>1. /\ Len(q) \in Nat /\ Len(r) = Len(q) + 1 /\ r[Len(q) + 1] = p
        /\ \A i \in 1..Len(q) : r[i] = q[i]
    BY <1>3, AppendProperties, LenProperties
  <2>2. \A i \in 1..Len(r) : i \in 1..Len(q) \/ i = Len(q) + 1
    BY <2>1
  <2> QED
    BY <1>3, <2>1, <2>2 DEF OfTypes
<1> QED
  BY <1>1, <1>2, <1>3 DEF Add

\* the packet in hand is of its kind
LEMMA KindInHand ==
    ASSUME NEW q \in Seq(Packets), Len(q) <= 1, NEW T
    PROVE  OfTypes(q, T) <=> (q # <<>> => q[1].type \in T)
<1>1. CASE q = <<>>
  BY <1>1 DEF OfTypes
<1>2. CASE q # <<>>
  <2>1. PICK p \in Packets : q = <<p>>
    BY <1>2, InHand
  <2> QED
    BY <1>2, <2>1 DEF OfTypes
<1> QED
  BY <1>1, <1>2

----------------------------------------------------------------------------
(* A step leaves a file in step that it is not about.                       *)

Left(g) ==
    /\ Less(toReceiver, toReceiver', g, Down) /\ Less(toReceiver, toReceiver', g, Data)
    /\ Less(toSender, toSender', g, Acks)
    /\ Acking(g)' => sender' = sender
    /\ receiver' = receiver \/ (~Handling(g) /\ ~Handling(g)')
    /\ sending'[g].chunk = sending[g].chunk /\ receiving'[g].chunk = receiving[g].chunk
    /\ receiving'[g].state = "new" => receiving[g].state = "new"
    /\ receiving[g].cancelled => receiving'[g].cancelled
    /\ receiving'[g].cancelled => receiving[g].cancelled \/ cancels' > 0
    /\ g \in allSent' <=> g \in allSent
    /\ g \in processed => g \in processed'
    /\ cancels > 0 => cancels' > 0

LEMMA LeftInTurn ==
    ASSUME NEW g \in Files, InTurn(g), Ends(g), Left(g)
    PROVE  InTurn(g)' /\ Ends(g)'
<1>1. /\ Has(toReceiver', g, Down) => Has(toReceiver, g, Down)
      /\ Once(toReceiver, g, Down) => Once(toReceiver', g, Down)
      /\ Has(toReceiver', g, Data) => Has(toReceiver, g, Data)
      /\ Num(toReceiver, g, Data, sending[g].chunk) => Num(toReceiver', g, Data, sending'[g].chunk)
      /\ Has(toSender', g, Acks) => Has(toSender, g, Acks)
      /\ Once(toSender, g, Acks) => Once(toSender', g, Acks)
      /\ Num(toSender, g, Acks, sending[g].chunk) => Num(toSender', g, Acks, sending'[g].chunk)
  BY DEF Left, Less
<1>2. /\ Acking(g)' => Acking(g) /\ sender'[1].chunk = sender[1].chunk
      /\ Handling(g)' <=> Handling(g)
      /\ Handling(g) => receiver' = receiver
  BY DEF Left, Acking, Handling
<1>3. /\ sending'[g].chunk = sending[g].chunk /\ receiving'[g].chunk = receiving[g].chunk
      /\ receiving'[g].state = "new" => receiving[g].state = "new"
      /\ receiving[g].cancelled => receiving'[g].cancelled
      /\ receiving'[g].cancelled => receiving[g].cancelled \/ cancels' > 0
      /\ g \in allSent' <=> g \in allSent
      /\ g \in processed => g \in processed'
      /\ cancels > 0 => cancels' > 0
  BY DEF Left
<1>4. Writing(g)' <=> Writing(g)
  BY <1>2 DEF Writing
<1>5. InTurn(g)'
  BY <1>1, <1>2, <1>3, <1>4 DEF InTurn, Writing
<1>6. Complete(g)' => Complete(g)
  BY <1>1, <1>2, <1>3 DEF Complete
<1>7. Taken(g) => Taken(g)'
  BY <1>2, <1>3 DEF Taken
<1>8. Ends(g)'
  BY <1>1, <1>2, <1>3, <1>4, <1>6, <1>7 DEF Ends
<1> QED
  BY <1>5, <1>8

\* the other files of a step that is about one
LEMMA OthersInTurn ==
    ASSUME TypeOK, Turns, Kinds', NEW f \in Files, InTurn(f)', Ends(f)',
           \/ toReceiver' = toReceiver
           \/ toReceiver # <<>> /\ toReceiver' = Tail(toReceiver)
           \/ \E p \in Packets : p.file = f /\ toReceiver' = Add(toReceiver, p),
           \/ toSender' = toSender
           \/ toSender # <<>> /\ toSender' = Tail(toSender)
           \/ \E p \in Packets : p.file = f /\ toSender' = Add(toSender, p),
           sender' = sender \/ sender' = <<>> \/ sender'[1].file = f,
           \/ receiver' = receiver
           \/ /\ receiver = <<>> \/ receiver[1].file = f
              /\ receiver' = <<>> \/ receiver'[1].file = f,
           \A g \in Files \ {f} :
              /\ sending'[g].chunk = sending[g].chunk /\ receiving'[g].chunk = receiving[g].chunk
              /\ receiving'[g].state = receiving[g].state
              /\ receiving'[g].cancelled = receiving[g].cancelled,
           \A g \in Files \ {f} : (g \in allSent' <=> g \in allSent) /\ (g \in processed <=> g \in processed'),
           cancels > 0 => cancels' > 0
    PROVE  Turns'
<1> SUFFICES ASSUME NEW g \in Files \ {f}
             PROVE  InTurn(g)' /\ Ends(g)'
  BY DEF Turns
<1>1. toReceiver \in Seq(Packets) /\ toSender \in Seq(Packets) /\ g \in Files
  BY TypeParts
<1>2. /\ Less(toReceiver, toReceiver', g, Down) /\ Less(toReceiver, toReceiver', g, Data)
      /\ Less(toSender, toSender', g, Acks)
  BY <1>1, LessQueue
<1>3. Acking(g)' => sender' = sender
  BY DEF Acking
<1>4. receiver' = receiver \/ (~Handling(g) /\ ~Handling(g)')
  BY DEF Handling
<1>5. Left(g)
  BY <1>1, <1>2, <1>3, <1>4, Zenon DEF Left
<1>6. InTurn(g) /\ Ends(g)
  BY <1>1 DEF Turns
<1> QED
  BY <1>1, <1>5, <1>6, LeftInTurn

\* steps that neither send a chunk nor acknowledge one
LEMMA IdleTurns ==
    ASSUME TypeOK, Turns,
           \/ toReceiver' = toReceiver \/ toReceiver' = <<>>
           \/ toReceiver # <<>> /\ toReceiver' = Tail(toReceiver)
           \/ \E f \in Files : toReceiver' = Add(toReceiver, Packet("request", f, 0)),
           \/ toSender' = toSender \/ toSender' = <<>>
           \/ toSender # <<>> /\ toSender' = Tail(toSender)
           \/ \E f \in Files, c \in 0..Chunks, type \in {"accept", "deny", "nack"} :
                 toSender' = Add(toSender, Packet(type, f, c)),
           UNCHANGED <<sender, receiver, allSent>>,
           \A g \in Files :
              /\ sending'[g].chunk = sending[g].chunk /\ receiving'[g].chunk = receiving[g].chunk
              /\ receiving'[g].state = "new" => receiving[g].state = "new"
              /\ receiving[g].cancelled => receiving'[g].cancelled
              /\ receiving'[g].cancelled => receiving[g].cancelled \/ cancels' > 0,
           \A g \in Files : g \in processed => g \in processed',
           cancels > 0 => cancels' > 0
    PROVE  Turns'
<1>1. toReceiver \in Seq(Packets) /\ toSender \in Seq(Packets)
  BY TypeParts
<1>2. \/ toReceiver' = toReceiver \/ toReceiver' = <<>>
      \/ toReceiver # <<>> /\ toReceiver' = Tail(toReceiver)
      \/ \E p \in Packets : p.type = "request" /\ toReceiver' = Add(toReceiver, p)
  BY ChunkTypes, KindTypes, PacketTypes
<1>3. \/ toSender' = toSender \/ toSender' = <<>>
      \/ toSender # <<>> /\ toSender' = Tail(toSender)
      \/ \E p \in Packets : p.type \in {"accept", "deny", "nack"} /\ toSender' = Add(toSender, p)
  <2>1. ASSUME NEW f \in Files, NEW c \in 0..Chunks, NEW type \in {"accept", "deny", "nack"}
        PROVE  Packet(type, f, c) \in Packets /\ Packet(type, f, c).type = type
    BY KindTypes, PacketTypes
  <2> QED
    BY <2>1
<1>4. Kinds'
  <2>1. OfTypes(toReceiver', {"request", "file", "chunk"})
    <3>1. \/ toReceiver' = toReceiver \/ toReceiver' = <<>>
          \/ toReceiver # <<>> /\ toReceiver' = Tail(toReceiver)
          \/ \E p \in Packets : p.type \in {"request", "file", "chunk"} /\ toReceiver' = Add(toReceiver, p)
      BY <1>2
    <3> QED
      BY <1>1, <3>1, KindsQueue DEF Turns, Kinds
  <2>2. OfTypes(toSender', {"accept", "deny", "ack", "nack"})
    <3>1. \/ toSender' = toSender \/ toSender' = <<>>
          \/ toSender # <<>> /\ toSender' = Tail(toSender)
          \/ \E p \in Packets : p.type \in {"accept", "deny", "ack", "nack"} /\ toSender' = Add(toSender, p)
      BY <1>3
    <3> QED
      BY <1>1, <3>1, KindsQueue DEF Turns, Kinds
  <2> QED
    BY <2>1, <2>2 DEF Turns, Kinds
<1> SUFFICES ASSUME NEW g \in Files
             PROVE  InTurn(g)' /\ Ends(g)'
  BY <1>4 DEF Turns
<1>5. /\ Less(toReceiver, toReceiver', g, Down) /\ Less(toReceiver, toReceiver', g, Data)
      /\ Less(toSender, toSender', g, Acks)
  <2>1. "request" \notin Down /\ "request" \notin Data
    BY DEF Down, Data
  <2>2. "accept" \notin Acks /\ "deny" \notin Acks /\ "nack" \notin Acks
    BY DEF Acks
  <2> QED
    BY <1>1, <1>2, <1>3, <2>1, <2>2, LessQueue, SMTT(40)
<1>6. Left(g)
  BY <1>5 DEF Left
<1> QED
  BY <1>6, LeftInTurn DEF Turns

----------------------------------------------------------------------------
(* The steps keep the ends in step.                                         *)

\* the first packet of a file goes out
LEMMA OpenTurns ==
    ASSUME TypeOK, Turns, NEW f \in Files, NEW c \in 0..Chunks,
           receiving[f].state = "new", ~Has(toReceiver, f, Opens), ~Handling(f),
           toReceiver' = Add(toReceiver, Packet("file", f, c)),
           toSender' = toSender \/ (toSender # <<>> /\ toSender' = Tail(toSender)),
           UNCHANGED <<sender, receiver, receiving, allSent, processed, cancels>>,
           \A g \in Files : sending'[g].chunk = sending[g].chunk
    PROVE  Turns'
<1>1. toReceiver \in Seq(Packets) /\ toSender \in Seq(Packets)
  BY TypeParts
<1>2. PICK p \in Packets : /\ p.type = "file" /\ p.file = f
                           /\ toReceiver' = Add(toReceiver, p)
  BY KindTypes, PacketTypes
<1>3. Kinds'
  <2>1. OfTypes(toReceiver', {"request", "file", "chunk"})
    BY <1>1, <1>2, KindsQueue DEF Turns, Kinds
  <2>2. OfTypes(toSender', {"accept", "deny", "ack", "nack"})
    BY <1>1, KindsQueue DEF Turns, Kinds
  <2> QED
    BY <2>1, <2>2 DEF Turns, Kinds
<1>4. InTurn(f) /\ Ends(f)
  BY DEF Turns
<1>5. ~Has(toReceiver, f, Down) /\ ~Has(toReceiver, f, Data)
  BY <1>4 DEF Ends, Has, Down, Data, Opens
<1>6. /\ Once(toReceiver', f, Down)
      /\ Less(toReceiver, toReceiver', f, Data) /\ Less(toSender, toSender', f, Acks)
  <2>1. "file" \notin Data
    BY DEF Data
  <2> QED
    BY <1>1, <1>2, <1>5, <2>1, Gained, LessQueue
<1>7. /\ ~Has(toReceiver', f, Data) /\ ~Has(toSender', f, Acks) /\ ~Acking(f) /\ ~Acking(f)'
      /\ ~Writing(f)' /\ ~Handling(f)' /\ f \notin allSent' /\ sending'[f].chunk = sending[f].chunk
  BY <1>4, <1>5, <1>6 DEF Ends, Less, Acking, Handling, Writing
<1>8. InTurn(f)'
  BY <1>4, <1>5, <1>6, <1>7 DEF InTurn, Less
<1>9. Ends(f)'
  BY <1>4, <1>7 DEF Ends, Complete
<1> QED
  BY <1>2, <1>3, <1>8, <1>9, OthersInTurn

\* the first packet of a file is handled
LEMMA AcceptedTurns ==
    ASSUME TypeOK, Asked, Received, Turns, NEW f \in Files,
           Is(toReceiver, "file"), Head(toReceiver).file = f, receiver = <<>>,
           toReceiver' = Tail(toReceiver), toSender' = Add(toSender, Packet("ack", f, 0)),
           receiving' = [receiving EXCEPT ![f].state = "listed"],
           UNCHANGED <<sender, receiver, sending, allSent, processed, cancels>>
    PROVE  Turns'
<1>1. /\ toReceiver \in Seq(Packets) /\ toSender \in Seq(Packets) /\ receiving \in [Files -> Transfer]
      /\ toReceiver # <<>> /\ lost = ""
  BY TypeParts DEF Is, Transfers, Transfer
<1>2. PICK p \in Packets : /\ p.type = "ack" /\ p.file = f /\ p.chunk = 0
                           /\ toSender' = Add(toSender, p)
  BY ChunkTypes, KindTypes, PacketTypes
<1>3. Kinds'
  <2>1. OfTypes(toReceiver', {"request", "file", "chunk"})
    BY <1>1, KindsQueue DEF Turns, Kinds
  <2>2. OfTypes(toSender', {"accept", "deny", "ack", "nack"})
    BY <1>1, <1>2, KindsQueue DEF Turns, Kinds
  <2> QED
    BY <2>1, <2>2 DEF Turns, Kinds
<1>4. InTurn(f) /\ Ends(f) /\ Opened(f)
  BY DEF Turns, Received
<1>5. Head(toReceiver).type \in Opens /\ Head(toReceiver).type \in Down
  BY DEF Is, Opens, Down
<1>6. /\ Has(toReceiver, f, Opens) /\ Has(toReceiver, f, Down) /\ ~Has(toReceiver', f, Down)
  BY <1>1, <1>4, <1>5, TailMatch DEF InTurn
<1>7. receiving[f].state = "new"
  BY <1>1, <1>6 DEF Asked, AskedOnce, Waits
<1>8. /\ receiving[f].chunk = 0 /\ ~receiving[f].cancelled /\ sending[f].chunk = 0
      /\ ~Has(toReceiver, f, Data) /\ ~Has(toSender, f, Acks) /\ ~Acking(f) /\ f \notin allSent
  BY <1>4, <1>7 DEF Opened, Ends
<1>9. /\ Once(toSender', f, Acks) /\ Num(toSender', f, Acks, 0)
      /\ Less(toReceiver, toReceiver', f, Data) /\ Less(toReceiver, toReceiver', f, Down)
  BY <1>1, <1>2, <1>8, Gained, LessQueue
<1>10. /\ receiving'[f].chunk = 0 /\ receiving'[f].state = "listed"
       /\ \A g \in Files \ {f} : /\ receiving'[g].state = receiving[g].state
                                 /\ receiving'[g].chunk = receiving[g].chunk
                                 /\ receiving'[g].cancelled = receiving[g].cancelled
  BY <1>1, <1>8 DEF Transfer
<1>11. ~Acking(f)' /\ ~Handling(f)' /\ ~Writing(f)'
  BY <1>8 DEF Acking, Handling, Writing
<1>12. InTurn(f)'
  BY <1>4, <1>6, <1>8, <1>9, <1>10, <1>11 DEF InTurn, Less
<1>13. Ends(f)'
  <2>1. 0 # Chunks
    BY ChunkTypes
  <2> QED
    BY <1>8, <1>10, <1>11, <2>1 DEF Ends, Complete
<1>14. \A g \in Files \ {f} : sending'[g].chunk = sending[g].chunk
  OBVIOUS
<1> QED
  BY <1>1, <1>2, <1>3, <1>10, <1>12, <1>13, <1>14, OthersInTurn

\* the sender takes an ack in hand
LEMMA AckTurns ==
    ASSUME TypeOK, Turns, NEW f \in Files,
           Is(toSender, "ack"), Head(toSender).file = f, sender = <<>>,
           sender' = <<Head(toSender)>>, toSender' = Tail(toSender),
           UNCHANGED <<toReceiver, receiver, sending, receiving, allSent, processed, cancels>>
    PROVE  Turns'
<1>1. /\ toSender \in Seq(Packets) /\ toReceiver \in Seq(Packets) /\ toSender # <<>>
      /\ Head(toSender) \in Packets /\ Head(toSender).type = "ack"
  BY TypeParts, HeadTypes
<1>2. sender' # <<>> /\ sender'[1] = Head(toSender)
  OBVIOUS
<1>3. Kinds'
  <2>1. OfTypes(toSender', {"accept", "deny", "ack", "nack"})
    BY <1>1, KindsQueue DEF Turns, Kinds
  <2>2. OfTypes(sender', {"ack"})
    BY <1>1, <1>2, OnePacket, KindInHand
  <2> QED
    BY <2>1, <2>2 DEF Turns, Kinds
<1>4. InTurn(f) /\ Ends(f)
  BY DEF Turns
<1>5. Head(toSender).type \in Acks
  BY <1>1 DEF Acks
<1>6. /\ Has(toSender, f, Acks) /\ ~Has(toSender', f, Acks)
      /\ Head(toSender).chunk = sending[f].chunk
      /\ Less(toSender, toSender', f, Acks)
  BY <1>1, <1>4, <1>5, TailMatch, NumTail, LessQueue DEF InTurn
<1>7. Acking(f)'
  BY <1>2 DEF Acking
<1>8. (Handling(f)' <=> Handling(f)) /\ (Writing(f)' <=> Writing(f))
  BY DEF Handling, Writing
<1>9. InTurn(f)'
  BY <1>2, <1>4, <1>6, <1>7, <1>8 DEF InTurn, Less
<1>10. Ends(f)'
  BY <1>4, <1>6, <1>7, <1>8 DEF Ends, Complete, Taken
<1> QED
  BY <1>1, <1>2, <1>3, <1>9, <1>10, OthersInTurn

\* ... and goes on: to the next chunk, or the file is sent
LEMMA SendNextTurns ==
    ASSUME TypeOK, Received, Turns, SendNext
    PROVE  Turns'
<1>1. /\ toReceiver \in Seq(Packets) /\ toSender \in Seq(Packets) /\ sending \in [Files -> Transfer]
      /\ sender # <<>> /\ sender' = <<>>
      /\ UNCHANGED <<receiver, receiving, processed, toSender, cancels>>
  BY TypeParts DEF SendNext, receiverVars, Transfers, Transfer
<1>2. PICK f \in Files : f = sender[1].file
  BY <1>1, InHand, TypeParts
<1>3. InTurn(f) /\ Ends(f) /\ Acking(f) /\ Opened(f) /\ ~Acking(f)'
  BY <1>1, <1>2 DEF Turns, Acking, Received
<1>4. (Handling(f)' <=> Handling(f)) /\ (Writing(f)' <=> Writing(f))
  BY <1>1 DEF Handling, Writing
<1>5. /\ ~Has(toReceiver, f, Down) /\ ~Has(toReceiver, f, Data) /\ ~Has(toSender, f, Acks)
      /\ ~Writing(f) /\ sending[f].chunk = receiving[f].chunk /\ receiving[f].state # "new"
      /\ Once(toSender, f, Acks) /\ f \notin allSent
  BY <1>3 DEF InTurn, Ends, Has, Data, Down
<1>6. OfTypes(sender', {"ack"})
  BY <1>1 DEF OfTypes
<1>7. CASE sending[f].chunk = Chunks
  <2>1. /\ sending' = [sending EXCEPT ![f].state = "over"] /\ toReceiver' = toReceiver
        /\ allSent' = allSent \cup {f}
    BY <1>2, <1>7 DEF SendNext, CancelSending
  <2>2. \A g \in Files : sending'[g].chunk = sending[g].chunk
    BY <1>1, <2>1 DEF Transfer
  <2>3. Kinds'
    BY <1>1, <1>6, <2>1 DEF Turns, Kinds
  <2>4. InTurn(f)'
    BY <1>1, <1>3, <1>4, <1>5, <2>1, <2>2 DEF InTurn
  <2>5. Taken(f)
    BY <1>3, <1>5, <1>7 DEF Ends, Complete
  <2>6. Taken(f)'
    BY <1>1, <1>4, <2>5 DEF Taken
  <2>7. Ends(f)'
    BY <1>1, <1>3, <1>4, <1>5, <1>7, <2>1, <2>6 DEF Ends
  <2> QED
    BY <1>1, <2>1, <2>2, <2>3, <2>4, <2>7, OthersInTurn
<1>8. CASE sending[f].chunk # Chunks
  <2>1. PICK c \in 0..Chunks : c = sending[f].chunk + 1
    <3>1. sending[f].chunk \in 0..Chunks
      BY <1>1 DEF Transfer
    <3>2. \A n \in 0..Chunks : n # Chunks => n + 1 \in 0..Chunks
      BY ChunkTypes
    <3> QED
      BY <1>8, <3>1, <3>2
  <2>2. /\ sending' = [sending EXCEPT ![f].chunk = c] /\ allSent' = allSent
        /\ toReceiver' = Add(toReceiver, Packet("chunk", f, c))
    BY <1>2, <1>8, <2>1 DEF SendNext, SendChunk
  <2>3. PICK p \in Packets : /\ p.type = "chunk" /\ p.file = f /\ p.chunk = c
                             /\ toReceiver' = Add(toReceiver, p)
    BY <2>2, KindTypes, PacketTypes
  <2>4. /\ sending'[f].chunk = c
        /\ \A g \in Files \ {f} : sending'[g].chunk = sending[g].chunk
    BY <1>1, <2>2 DEF Transfer
  <2>5. Kinds'
    <3>1. OfTypes(toReceiver', {"request", "file", "chunk"})
      BY <1>1, <2>3, KindsQueue DEF Turns, Kinds
    <3> QED
      BY <1>1, <1>6, <3>1 DEF Turns, Kinds
  <2>6. /\ Once(toReceiver', f, Down) /\ Num(toReceiver', f, Data, c)
    BY <1>1, <1>5, <2>3, Gained
  <2>7. c = receiving'[f].chunk + 1 /\ ~Has(toSender', f, Acks) /\ Num(toSender', f, Acks, c)
    BY <1>1, <1>5, <2>1 DEF Has, Num
  <2>8. InTurn(f)'
    BY <1>1, <1>3, <1>4, <1>5, <2>4, <2>6, <2>7 DEF InTurn
  <2>9. Ends(f)'
    BY <1>1, <1>3, <1>4, <1>5, <2>2, <2>7 DEF Ends, Complete
  <2> QED
    BY <1>1, <2>2, <2>3, <2>4, <2>5, <2>8, <2>9, OthersInTurn
<1> QED
  BY <1>7, <1>8

\* the receiver takes a chunk in hand
LEMMA ChunkTurns ==
    ASSUME TypeOK, Turns, NEW f \in Files,
           Is(toReceiver, "chunk"), Head(toReceiver).file = f, receiver = <<>>,
           ~receiving[f].cancelled, toReceiver' = Tail(toReceiver),
           receiver' = <<[Head(toReceiver) EXCEPT !.type = "write"]>>,
           UNCHANGED <<toSender, sender, sending, receiving, allSent, processed, cancels>>
    PROVE  Turns'
<1> DEFINE p == [Head(toReceiver) EXCEPT !.type = "write"]
<1>1. /\ toReceiver \in Seq(Packets) /\ toSender \in Seq(Packets) /\ toReceiver # <<>>
      /\ Head(toReceiver) \in Packets /\ Head(toReceiver).type = "chunk"
  BY TypeParts, HeadTypes
<1>2. p \in Packets /\ p.type = "write" /\ p.file = f /\ p.chunk = Head(toReceiver).chunk
  BY <1>1 DEF Packets
<1> HIDE DEF p
<1>3. receiver' # <<>> /\ receiver'[1] = p /\ Len(receiver') <= 1 /\ receiver' \in Seq(Packets)
  BY <1>2 DEF p
<1>4. Kinds'
  <2>1. OfTypes(toReceiver', {"request", "file", "chunk"})
    BY <1>1, KindsQueue DEF Turns, Kinds
  <2>2. OfTypes(receiver', {"write", "finish", "complete"})
    BY <1>2, <1>3, KindInHand
  <2> QED
    BY <2>1, <2>2 DEF Turns, Kinds
<1>5. InTurn(f) /\ Ends(f)
  BY DEF Turns
<1>6. Head(toReceiver).type \in Down /\ Head(toReceiver).type \in Data
  BY <1>1 DEF Down, Data
<1>7. /\ Has(toReceiver, f, Down) /\ Has(toReceiver, f, Data)
      /\ ~Has(toReceiver', f, Down) /\ ~Has(toReceiver', f, Data)
      /\ Once(toReceiver', f, Down) /\ Num(toReceiver', f, Data, sending[f].chunk)
      /\ Head(toReceiver).chunk = sending[f].chunk
  <2>1. /\ Has(toReceiver, f, Down) /\ Has(toReceiver, f, Data) /\ ~Has(toReceiver', f, Down)
        /\ Once(toReceiver', f, Down)
    BY <1>1, <1>5, <1>6, TailMatch DEF InTurn
  <2>2. Num(toReceiver', f, Data, sending[f].chunk) /\ Head(toReceiver).chunk = sending[f].chunk
    BY <1>1, <1>5, <1>6, NumTail DEF InTurn
  <2>3. ~Has(toReceiver', f, Data)
    BY <2>1 DEF Has, Data, Down
  <2> QED
    BY <2>1, <2>2, <2>3
<1>8. /\ ~Has(toSender, f, Acks) /\ ~Acking(f) /\ ~Acking(f)' /\ receiving[f].state # "new"
      /\ f \notin allSent /\ sending[f].chunk = receiving[f].chunk + 1
  BY <1>5, <1>7 DEF InTurn, Ends, Acking
<1>9. Writing(f)' /\ Handling(f)' /\ receiver'[1].chunk = sending[f].chunk
  BY <1>2, <1>3, <1>7 DEF Writing, Handling
<1>10. InTurn(f)'
  BY <1>5, <1>7, <1>8, <1>9 DEF InTurn
<1>11. Ends(f)'
  BY <1>8, <1>9 DEF Ends, Complete
<1> QED
  BY <1>1, <1>2, <1>3, <1>4, <1>10, <1>11, OthersInTurn

\* ... and writes it, or fails
LEMMA WriteTurns ==
    ASSUME TypeOK, Received, Turns, WriteChunk
    PROVE  Turns'
<1>1. /\ toReceiver \in Seq(Packets) /\ toSender \in Seq(Packets) /\ receiving \in [Files -> Transfer]
      /\ receiver \in Seq(Packets) /\ Len(receiver) <= 1
      /\ receiver # <<>> /\ receiver[1].type = "write" /\ receiver[1] \in Packets
      /\ UNCHANGED <<toReceiver, sender, sending, allSent, processed, cancels>>
  BY TypeParts, InHand DEF WriteChunk, senderVars, Transfers, Transfer
<1>2. PICK f \in Files, chunk \in 0..Chunks : receiver[1].file = f /\ receiver[1].chunk = chunk
  BY <1>1, PacketParts
<1>3. InTurn(f) /\ Ends(f) /\ Opened(f) /\ Handling(f) /\ Writing(f)
  BY <1>1, <1>2 DEF Turns, Received, Handling, Writing
<1>4. /\ ~Has(toReceiver, f, Down) /\ ~Has(toReceiver, f, Data) /\ ~Has(toSender, f, Acks)
      /\ ~Acking(f) /\ ~Acking(f)' /\ f \notin allSent /\ receiving[f].state # "new"
      /\ chunk = sending[f].chunk /\ chunk = receiving[f].chunk + 1
  BY <1>1, <1>2, <1>3 DEF InTurn, Ends, Opened, Acking, Has, Data, Down
<1>5. CASE /\ ~receiving[f].cancelled
           /\ receiving' = [receiving EXCEPT ![f].chunk = chunk]
           /\ toSender' = Add(toSender, Packet("ack", f, chunk))
           /\ receiver' = <<[receiver[1] EXCEPT !.type = "finish"]>>
  <2> DEFINE w == [receiver[1] EXCEPT !.type = "finish"]
  <2>1. w \in Packets /\ w.type = "finish" /\ w.file = f
    BY <1>1, <1>2 DEF Packets
  <2> HIDE DEF w
  <2>2. /\ receiver' # <<>> /\ receiver'[1] = w /\ Len(receiver') <= 1
        /\ receiver' \in Seq(Packets)
    BY <1>5, <2>1 DEF w
  <2>3. PICK p \in Packets : /\ p.type = "ack" /\ p.file = f /\ p.chunk = chunk
                             /\ toSender' = Add(toSender, p)
    BY <1>5, KindTypes, PacketTypes
  <2>4. Kinds'
    <3>1. OfTypes(toSender', {"accept", "deny", "ack", "nack"})
      BY <1>1, <2>3, KindsQueue DEF Turns, Kinds
    <3>2. OfTypes(receiver', {"write", "finish", "complete"})
      BY <2>1, <2>2, KindInHand
    <3> QED
      BY <1>1, <3>1, <3>2 DEF Turns, Kinds
  <2>5. /\ receiving'[f].chunk = chunk /\ receiving'[f].state = receiving[f].state
        /\ receiving'[f].cancelled = receiving[f].cancelled
        /\ \A g \in Files \ {f} : /\ receiving'[g].state = receiving[g].state
                                  /\ receiving'[g].chunk = receiving[g].chunk
                                  /\ receiving'[g].cancelled = receiving[g].cancelled
    BY <1>1, <1>5 DEF Transfer
  <2>6. Once(toSender', f, Acks) /\ Num(toSender', f, Acks, chunk)
    BY <1>1, <1>4, <2>3, Gained
  <2>7. Handling(f)' /\ ~Writing(f)' /\ Taken(f)'
    BY <2>1, <2>2 DEF Handling, Writing, Taken
  <2>8. InTurn(f)'
    BY <1>1, <1>3, <1>4, <2>5, <2>6, <2>7 DEF InTurn
  <2>9. Ends(f)'
    BY <1>1, <1>4, <1>5, <2>5, <2>7 DEF Ends
  <2>10. \A g \in Files \ {f} : sending'[g].chunk = sending[g].chunk
    BY <1>1
  <2> QED
    BY <1>1, <1>2, <2>1, <2>2, <2>3, <2>4, <2>5, <2>8, <2>9, <2>10, OthersInTurn
<1>6. CASE /\ \/ receiving' = receiving
              \/ receiving' = [receiving EXCEPT ![f].cancelled = TRUE]
           /\ toSender' = Add(toSender, Packet("nack", f, chunk))
           /\ receiver' = <<>>
  <2>1. PICK p \in Packets : /\ p.type = "nack" /\ p.file = f /\ toSender' = Add(toSender, p)
    BY <1>6, KindTypes, PacketTypes
  <2>2. Kinds'
    <3>1. OfTypes(toSender', {"accept", "deny", "ack", "nack"})
      BY <1>1, <2>1, KindsQueue DEF Turns, Kinds
    <3>2. OfTypes(receiver', {"write", "finish", "complete"})
      BY <1>6 DEF OfTypes
    <3> QED
      BY <1>1, <3>1, <3>2 DEF Turns, Kinds
  <2>3. /\ receiving'[f].chunk = receiving[f].chunk /\ receiving'[f].state = receiving[f].state
        /\ \A g \in Files \ {f} : /\ receiving'[g].state = receiving[g].state
                                  /\ receiving'[g].chunk = receiving[g].chunk
                                  /\ receiving'[g].cancelled = receiving[g].cancelled
    BY <1>1, <1>6 DEF Transfer
  <2>4. ~Handling(f)' /\ ~Writing(f)'
    BY <1>6 DEF Handling, Writing
  <2>5. Less(toSender, toSender', f, Acks)
    <3>1. "nack" \notin Acks
      BY DEF Acks
    <3> QED
      BY <1>1, <2>1, <3>1, LessQueue
  <2>6. ~Has(toSender', f, Acks)
    BY <1>4, <2>5 DEF Less
  <2>7. InTurn(f)'
    BY <1>1, <1>3, <1>4, <2>4, <2>5, <2>6 DEF InTurn, Less
  <2>8. Ends(f)'
    BY <1>1, <1>4, <2>3, <2>4, <2>6 DEF Ends, Complete
  <2>9. \A g \in Files \ {f} : sending'[g].chunk = sending[g].chunk
    BY <1>1
  <2> QED
    BY <1>1, <1>2, <1>6, <2>1, <2>2, <2>3, <2>7, <2>8, <2>9, OthersInTurn
<1> QED
  BY <1>2, <1>5, <1>6 DEF WriteChunk, CancelFile

\* ... and tests whether it was cancelled
LEMMA FinishTurns ==
    ASSUME TypeOK, Received, Turns, FinishChunk
    PROVE  Turns'
<1>1. /\ toReceiver \in Seq(Packets) /\ toSender \in Seq(Packets)
      /\ receiver # <<>> /\ receiver[1].type = "finish" /\ receiver[1] \in Packets
      /\ UNCHANGED <<toReceiver, toSender, sender, sending, receiving, processed, allSent, cancels>>
  BY TypeParts, InHand DEF FinishChunk, senderVars
<1>2. PICK f \in Files : receiver[1].file = f
  BY <1>1, PacketParts
<1>3. InTurn(f) /\ Ends(f) /\ Handling(f) /\ ~Writing(f)
  BY <1>1, <1>2 DEF Turns, Handling, Writing
<1> DEFINE w == [receiver[1] EXCEPT !.type = "complete"]
<1>4. w \in Packets /\ w.type = "complete" /\ w.file = f
  BY <1>1, <1>2 DEF Packets
<1>5. receiver' = (IF receiving[f].cancelled THEN <<>> ELSE <<w>>)
  BY <1>2 DEF FinishChunk
<1> HIDE DEF w
<1>6. receiver' = <<>> \/ (receiver' # <<>> /\ receiver'[1] = w /\ receiver' = <<w>>)
  BY <1>5
<1>7. ~Writing(f)'
  BY <1>4, <1>6 DEF Writing, Handling
<1>8. Acking(f)' <=> Acking(f)
  BY <1>1 DEF Acking
<1>9. Kinds'
  <2>1. OfTypes(receiver', {"write", "finish", "complete"})
    <3>1. CASE receiver' = <<>>
      BY <3>1 DEF OfTypes
    <3>2. CASE receiver' = <<w>>
      BY <1>4, <3>2 DEF OfTypes
    <3> QED
      BY <1>6, <3>1, <3>2
  <2> QED
    BY <1>1, <2>1 DEF Turns, Kinds
<1>10. Taken(f)'
  <2>1. CASE receiving[f].cancelled
    BY <1>1, <1>3, <2>1 DEF Ends, Taken
  <2>2. CASE ~receiving[f].cancelled
    <3>1. receiver' # <<>> /\ receiver'[1] = w
      BY <1>5, <2>2
    <3> QED
      BY <1>4, <3>1 DEF Taken, Handling
  <2> QED
    BY <2>1, <2>2
<1>11. InTurn(f)'
  BY <1>1, <1>3, <1>7, <1>8 DEF InTurn
<1>12. Ends(f)'
  BY <1>1, <1>3, <1>7, <1>8, <1>10 DEF Ends, Complete
<1>13. receiver' = <<>> \/ receiver'[1].file = f
  BY <1>4, <1>6
<1> QED
  BY <1>1, <1>2, <1>9, <1>11, <1>12, <1>13, OthersInTurn

\* ... and is done with it
LEMMA CompleteTurns ==
    ASSUME TypeOK, Received, Turns, CompleteChunk
    PROVE  Turns'
<1>1. /\ toReceiver \in Seq(Packets) /\ toSender \in Seq(Packets) /\ receiving \in [Files -> Transfer]
      /\ receiver # <<>> /\ receiver[1].type = "complete" /\ receiver[1] \in Packets
      /\ receiver' = <<>>
      /\ UNCHANGED <<toReceiver, toSender, sender, sending, allSent, cancels>>
  BY TypeParts, InHand DEF CompleteChunk, senderVars, Transfers, Transfer
<1>2. PICK f \in Files, chunk \in 0..Chunks : receiver[1].file = f /\ receiver[1].chunk = chunk
  BY <1>1, PacketParts
<1>3. InTurn(f) /\ Ends(f) /\ Opened(f) /\ Handling(f) /\ ~Writing(f)
  BY <1>1, <1>2 DEF Turns, Received, Handling, Writing
<1>4. chunk = receiving[f].chunk /\ receiving[f].state # "new"
  BY <1>1, <1>2, <1>3 DEF Opened
<1>5. ~Handling(f)' /\ ~Writing(f)' /\ (Acking(f)' <=> Acking(f))
  BY <1>1 DEF Handling, Writing, Acking
<1>6. Kinds'
  BY <1>1 DEF Turns, Kinds, OfTypes
<1>7. \/ receiving' = receiving /\ chunk < Chunks
      \/ /\ receiving' = [receiving EXCEPT ![f].state = "over"]
         /\ processed' = processed \cup {f}
  BY <1>2 DEF CompleteChunk
<1>8. /\ receiving'[f].chunk = receiving[f].chunk /\ receiving'[f].state # "new"
      /\ receiving'[f].cancelled = receiving[f].cancelled
      /\ \A g \in Files \ {f} : /\ receiving'[g].state = receiving[g].state
                                /\ receiving'[g].chunk = receiving[g].chunk
                                /\ receiving'[g].cancelled = receiving[g].cancelled
  BY <1>1, <1>4, <1>7 DEF Transfer
<1>9. processed' = processed \/ processed' = processed \cup {f}
  BY <1>2 DEF CompleteChunk
<1>10. Complete(f) => Taken(f)'
  <2>1. CASE receiving' = receiving /\ chunk < Chunks
    BY <1>3, <1>4, <2>1, ChunkTypes DEF Ends, Complete
  <2>2. CASE processed' = processed \cup {f}
    BY <2>2 DEF Taken
  <2> QED
    BY <1>7, <2>1, <2>2
<1>11. InTurn(f)'
  BY <1>1, <1>3, <1>5, <1>8 DEF InTurn
<1>12. Ends(f)'
  BY <1>1, <1>3, <1>5, <1>8, <1>10 DEF Ends, Complete
<1>13. /\ \A g \in Files \ {f} : sending'[g].chunk = sending[g].chunk
       /\ \A g \in Files \ {f} : (g \in allSent' <=> g \in allSent) /\ (g \in processed <=> g \in processed')
  BY <1>1, <1>9
<1> QED
  BY <1>1, <1>2, <1>6, <1>8, <1>11, <1>12, <1>13, OthersInTurn

\* the steps of the sender
LEMMA DoSendFileTurns ==
    ASSUME TypeOK, Turns, NEW f \in Files, DoSendFile(f), ~Has(toReceiver, f, Opens),
           receiving[f].state = "new", ~Handling(f),
           toSender' = toSender \/ (toSender # <<>> /\ toSender' = Tail(toSender)),
           UNCHANGED <<sender, receiver, receiving, allSent, processed, cancels>>
    PROVE  Turns'
<1>1. sending \in [Files -> Transfer] /\ Chunks \in 0..Chunks /\ 0 \in 0..Chunks
  BY ChunkTypes, TypeParts DEF Transfers, Transfer
<1>2. \E s : sending' = [sending EXCEPT ![f].state = s]
  BY DEF DoSendFile
<1>3. \A g \in Files : sending'[g].chunk = sending[g].chunk
  BY <1>1, <1>2 DEF Transfer
<1>4. \/ toReceiver' = toReceiver
      \/ toReceiver' = Add(toReceiver, Packet("file", f, Chunks))
      \/ toReceiver' = Add(toReceiver, Packet("file", f, 0))
  BY DEF DoSendFile
<1>5. CASE toReceiver' = toReceiver
  BY <1>3, <1>5, IdleTurns
<1>6. CASE \E c \in 0..Chunks : toReceiver' = Add(toReceiver, Packet("file", f, c))
  BY <1>3, <1>6, OpenTurns
<1> QED
  BY <1>1, <1>4, <1>5, <1>6

LEMMA SendFileTurns ==
    ASSUME TypeOK, Asked, Received, Turns, NEW f \in Files, SendFile(f)
    PROVE  Turns'
<1>1. /\ sending \in [Files -> Transfer] /\ lost = "" /\ sending[f].state = "new"
      /\ UNCHANGED <<sender, receiver, receiving, allSent, processed, cancels, toSender>>
  BY TypeParts DEF SendFile, receiverVars, Transfers, Transfer
<1>2. CASE DoSendFile(f)
  <2>1. ~Has(toReceiver, f, Opens) /\ receiving[f].state = "new"
    BY <1>1 DEF Asked, AskedOnce, Waits
  <2>2. ~Handling(f)
    BY <2>1 DEF Received, Opened
  <2> QED
    BY <1>1, <1>2, <2>1, <2>2, DoSendFileTurns
<1>3. CASE /\ \/ sending' = [sending EXCEPT ![f].state = "asked"]
              \/ sending' = [sending EXCEPT ![f].state = "over"]
           /\ \/ toReceiver' = toReceiver
              \/ toReceiver' = Add(toReceiver, Packet("request", f, 0))
  <2>1. \A g \in Files : sending'[g].chunk = sending[g].chunk
    <3>1. CASE sending' = [sending EXCEPT ![f].state = "asked"]
      BY <1>1, <3>1 DEF Transfer
    <3>2. CASE sending' = [sending EXCEPT ![f].state = "over"]
      BY <1>1, <3>2 DEF Transfer
    <3> QED
      BY <1>3, <3>1, <3>2
  <2> QED
    BY <1>1, <1>3, <2>1, IdleTurns
<1> QED
  BY <1>2, <1>3 DEF SendFile

LEMMA ResponseTurns ==
    ASSUME TypeOK, Asked, Received, Turns, ProcessResponse
    PROVE  Turns'
<1>1. /\ toSender \in Seq(Packets) /\ sending \in [Files -> Transfer] /\ lost = "" /\ toSender # <<>>
      /\ toSender' = Tail(toSender)
      /\ UNCHANGED <<sender, receiver, receiving, allSent, processed, cancels>>
  BY TypeParts DEF ProcessResponse, Is, receiverVars, Transfers, Transfer
<1>2. PICK f \in Files : f = Head(toSender).file /\ Head(toSender).type \in Replies
  BY <1>1, HeadTypes DEF ProcessResponse, Replies
<1>3. CASE DoSendFile(f)
  <2>1. Has(toSender, f, Replies)
    BY <1>1, <1>2, TailMatch
  <2>2. ~Has(toReceiver, f, Opens) /\ receiving[f].state = "new"
    BY <1>1, <2>1 DEF Asked, AskedOnce, Waits
  <2>3. ~Handling(f)
    BY <2>2 DEF Received, Opened
  <2> QED
    BY <1>1, <1>3, <2>2, <2>3, DoSendFileTurns
<1>4. CASE sending' = [sending EXCEPT ![f].state = "over"] /\ toReceiver' = toReceiver
  <2>1. \A g \in Files : sending'[g].chunk = sending[g].chunk
    BY <1>1, <1>4 DEF Transfer
  <2> QED
    BY <1>1, <1>4, <2>1, IdleTurns
<1> QED
  BY <1>2, <1>3, <1>4 DEF ProcessResponse

LEMMA ProcessAckTurns ==
    ASSUME TypeOK, Turns, ProcessAck
    PROVE  Turns'
<1>1. /\ toSender \in Seq(Packets) /\ sending \in [Files -> Transfer] /\ toSender # <<>> /\ sender = <<>>
      /\ toSender' = Tail(toSender)
      /\ UNCHANGED <<toReceiver, receiver, receiving, allSent, processed, cancels>>
  BY TypeParts DEF ProcessAck, Is, receiverVars, Transfers, Transfer
<1>2. PICK f \in Files : f = Head(toSender).file
  BY <1>1, HeadTypes DEF ProcessAck
<1>3. \/ sending' = sending \/ sending' = [sending EXCEPT ![f].state = "over"]
  BY <1>2 DEF ProcessAck, CancelSending
<1>4. \A g \in Files : sending'[g].chunk = sending[g].chunk
  BY <1>1, <1>3 DEF Transfer
<1>5. CASE sender' = sender
  BY <1>1, <1>4, <1>5, IdleTurns
<1>6. CASE sender' = <<Head(toSender)>> /\ sending' = sending /\ Is(toSender, "ack")
  BY <1>1, <1>2, <1>6, AckTurns
<1>7. CASE Is(toSender, "nack")
  <2>1. Head(toSender).type = "nack"
    BY <1>7 DEF Is
  <2>2. sender' = sender
    BY <2>1 DEF ProcessAck
  <2> QED
    BY <1>5, <2>2
<1>8. CASE Is(toSender, "ack")
  <2>1. Head(toSender).type = "ack"
    BY <1>8 DEF Is
  <2>2. sender' = sender \/ (sender' = <<Head(toSender)>> /\ sending' = sending)
    BY <1>1, <2>1 DEF ProcessAck
  <2> QED
    BY <1>5, <1>6, <1>8, <2>2
<1> QED
  BY <1>7, <1>8 DEF ProcessAck

LEMMA SenderTimerTurns ==
    ASSUME TypeOK, Turns, NEW f \in Files, NEW chunk,
           AskTimeout(f) \/ CheckChunkSending(f, chunk)
    PROVE  Turns'
<1>1. /\ sending \in [Files -> Transfer]
      /\ sending' = sending \/ sending' = [sending EXCEPT ![f].state = "over"]
      /\ UNCHANGED <<toReceiver, toSender, sender, receiver, receiving, allSent, processed, cancels>>
  BY TypeParts DEF AskTimeout, CheckChunkSending, receiverVars, Transfers, Transfer
<1>2. \A g \in Files : sending'[g].chunk = sending[g].chunk
  BY <1>1 DEF Transfer
<1> QED
  BY <1>1, <1>2, IdleTurns

\* the steps of the receiver
LEMMA AskingTurns ==
    ASSUME TypeOK, Turns,
           ProcessRequest \/ \E f \in Files, accept \in BOOLEAN : Answer(f, accept)
    PROVE  Turns'
<1>1. UNCHANGED <<sender, sending, receiver, receiving, allSent, processed, cancels>>
  BY DEF ProcessRequest, Answer, senderVars
<1>2. CASE ProcessRequest
  BY <1>1, <1>2, IdleTurns DEF ProcessRequest, Is
<1>3. ASSUME NEW f \in Files, NEW accept \in BOOLEAN, Answer(f, accept)
      PROVE  Turns'
  <2>1. PICK type \in {"accept", "deny", "nack"} : toSender' = Add(toSender, Packet(type, f, 0))
    BY <1>3 DEF Answer
  <2>2. toReceiver' = toReceiver
    BY <1>3 DEF Answer
  <2> QED
    BY <1>1, <2>1, <2>2, ChunkTypes, IdleTurns
<1> QED
  BY <1>2, <1>3

LEMMA FileTurns ==
    ASSUME TypeOK, Asked, Received, Turns, ProcessSendFile \/ ProcessWholeFile \/ CannotOpen
    PROVE  Turns'
<1>1. /\ toReceiver \in Seq(Packets) /\ Is(toReceiver, "file") /\ receiver = <<>>
      /\ toReceiver # <<>> /\ toReceiver' = Tail(toReceiver)
      /\ UNCHANGED <<sender, receiver, sending, allSent, cancels>>
  BY TypeParts DEF ProcessSendFile, ProcessWholeFile, CannotOpen, Is, senderVars
<1>2. PICK f \in Files : f = Head(toReceiver).file
  BY <1>1, HeadTypes
<1>3. CASE ProcessSendFile /\ receiving' # receiving
  <2>1. /\ receiving' = [receiving EXCEPT ![f].state = "listed"] /\ processed' = processed
        /\ toSender' = Add(toSender, Packet("ack", f, 0))
    BY <1>2, <1>3 DEF ProcessSendFile
  <2> QED
    BY <1>1, <1>2, <2>1, AcceptedTurns
<1>4. CASE ProcessSendFile /\ receiving' = receiving
           /\ toSender' = Add(toSender, Packet("nack", f, 0))
  <2>1. processed' = processed
    BY <1>4 DEF ProcessSendFile
  <2> QED
    BY <1>1, <1>4, <2>1, ChunkTypes, IdleTurns
<1>5. CASE ProcessSendFile /\ receiving' = receiving
           /\ toSender' = Add(toSender, Packet("ack", f, 0))
           /\ receiving' = [receiving EXCEPT ![f].state = "listed"]
  <2>1. processed' = processed
    BY <1>5 DEF ProcessSendFile
  <2> QED
    BY <1>1, <1>2, <1>5, <2>1, AcceptedTurns
<1>6. CASE ProcessWholeFile \/ CannotOpen
  <2>1. UNCHANGED <<receiving, toSender>> /\ processed \subseteq processed'
    BY <1>6 DEF ProcessWholeFile, CannotOpen
  <2> QED
    BY <1>1, <2>1, IdleTurns
<1> QED
  BY <1>2, <1>3, <1>4, <1>5, <1>6 DEF ProcessSendFile

LEMMA ReceiverTimerTurns ==
    ASSUME TypeOK, Turns, NEW f \in Files, NEW chunk,
           CleanReceiveState(f) \/ CheckChunkReceiving(f, chunk) \/ CancelDownload(f)
    PROVE  Turns'
<1>1. /\ receiving \in [Files -> Transfer] /\ cancels \in 0..MaxCancels
      /\ UNCHANGED <<toReceiver, sender, receiver, sending, allSent, processed>>
  BY TypeParts DEF CleanReceiveState, CheckChunkReceiving, CancelDownload, senderVars, Transfers, Transfer
<1>2. CASE CleanReceiveState(f) \/ CheckChunkReceiving(f, chunk)
  <2>1. /\ UNCHANGED <<toSender, cancels>>
        /\ receiving' = receiving \/ receiving' = [receiving EXCEPT ![f].state = "over"]
    BY <1>2 DEF CleanReceiveState, CheckChunkReceiving
  <2>2. \A g \in Files :
           /\ sending'[g].chunk = sending[g].chunk /\ receiving'[g].chunk = receiving[g].chunk
           /\ receiving'[g].state = "new" => receiving[g].state = "new"
           /\ receiving'[g].cancelled = receiving[g].cancelled
    BY <1>1, <2>1 DEF Transfer
  <2> QED
    BY <1>1, <2>1, <2>2, IdleTurns
<1>3. CASE CancelDownload(f)
  <2>1. /\ cancels' = cancels + 1 /\ toSender' = Add(toSender, Packet("nack", f, 0))
        /\ receiving' = receiving \/ receiving' = [receiving EXCEPT ![f].cancelled = TRUE]
    BY <1>3 DEF CancelDownload, CancelFile
  <2>2. cancels' > 0
    <3>1. cancels \in Nat
      BY <1>1, TransferAssumption
    <3> QED
      BY <2>1, <3>1
  <2>3. \A g \in Files :
           /\ sending'[g].chunk = sending[g].chunk /\ receiving'[g].chunk = receiving[g].chunk
           /\ receiving'[g].state = "new" => receiving[g].state = "new"
           /\ receiving[g].cancelled => receiving'[g].cancelled
    BY <1>1, <2>1 DEF Transfer
  <2> QED
    BY <1>1, <2>1, <2>2, <2>3, ChunkTypes, IdleTurns
<1> QED
  BY <1>2, <1>3

LEMMA ProcessChunkTurns ==
    ASSUME TypeOK, Turns, ProcessChunk
    PROVE  Turns'
<1>1. /\ toReceiver \in Seq(Packets) /\ Is(toReceiver, "chunk") /\ receiver = <<>>
      /\ toReceiver # <<>> /\ toReceiver' = Tail(toReceiver)
      /\ UNCHANGED <<sender, sending, allSent, processed, cancels>>
  BY TypeParts DEF ProcessChunk, Is, senderVars
<1>2. PICK f \in Files, c \in 0..Chunks : f = Head(toReceiver).file /\ c = Head(toReceiver).chunk
  BY <1>1, HeadTypes
<1>3. \/ /\ UNCHANGED <<receiver, receiving>>
         /\ \/ toSender' = toSender
            \/ toSender' = Add(toSender, Packet("nack", f, c))
      \/ /\ ~receiving[f].cancelled
         /\ receiver' = <<[Head(toReceiver) EXCEPT !.type = "write"]>>
         /\ UNCHANGED <<receiving, toSender>>
  BY <1>2 DEF ProcessChunk, CancelFile
<1>4. CASE UNCHANGED <<receiver, receiving>> /\ toSender' = toSender
  BY <1>1, <1>4, IdleTurns
<1>5. CASE UNCHANGED <<receiver, receiving>> /\ toSender' = Add(toSender, Packet("nack", f, c))
  BY <1>1, <1>5, IdleTurns
<1>6. CASE /\ ~receiving[f].cancelled
           /\ receiver' = <<[Head(toReceiver) EXCEPT !.type = "write"]>>
           /\ UNCHANGED <<receiving, toSender>>
  BY <1>1, <1>2, <1>6, ChunkTurns
<1> QED
  BY <1>3, <1>4, <1>5, <1>6

LEMMA CleanupTurns ==
    ASSUME TypeOK, Turns, Cleanup
    PROVE  Turns'
<1>1. /\ toReceiver' = <<>> /\ toSender' = <<>>
      /\ sending' = [f \in Files |-> [sending[f] EXCEPT !.state = "over"]]
      /\ receiving' = [f \in Files |-> [receiving[f] EXCEPT !.state = "over"]]
      /\ UNCHANGED <<sender, allSent, receiver, processed, cancels>>
  BY DEF Cleanup
<1>2. sending \in [Files -> Transfer] /\ receiving \in [Files -> Transfer]
  BY TypeParts DEF Transfers, Transfer
<1>3. \A g \in Files :
         /\ sending'[g].chunk = sending[g].chunk /\ receiving'[g].chunk = receiving[g].chunk
         /\ receiving'[g].state # "new" /\ receiving'[g].cancelled = receiving[g].cancelled
  BY <1>1, <1>2 DEF Transfer
<1> QED
  BY <1>1, <1>3, IdleTurns

LEMMA InitTurns == Init => Turns
<1> SUFFICES ASSUME Init
             PROVE  Turns
  OBVIOUS
<1>1. /\ toReceiver = <<>> /\ toSender = <<>> /\ sender = <<>> /\ receiver = <<>>
      /\ allSent = {} /\ sending = [f \in Files |-> New] /\ receiving = [f \in Files |-> New]
  BY DEF Init
<1>2. \A T : OfTypes(<<>>, T)
  BY DEF OfTypes
<1>3. ASSUME NEW f \in Files
      PROVE  InTurn(f) /\ Ends(f)
  <2>1. \A T : ~Has(<<>>, f, T) /\ Once(<<>>, f, T) /\ \A n : Num(<<>>, f, T, n)
    BY EmptyMatch
  <2>2. ~Handling(f) /\ ~Writing(f) /\ ~Acking(f)
    BY <1>1 DEF Handling, Writing, Acking
  <2>3. sending[f].chunk = 0 /\ f \notin allSent
    BY <1>1 DEF New
  <2> QED
    BY <1>1, <2>1, <2>2, <2>3 DEF InTurn, Ends, Complete
<1> QED
  BY <1>1, <1>2, <1>3 DEF Turns, Kinds

LEMMA TurnsStep ==
    ASSUME IInv, Turns, [Next]_vars
    PROVE  Turns'
<1>1. TypeOK /\ Asked /\ Received
  BY DEF IInv
<1>2. CASE UNCHANGED vars
  <2>1. UNCHANGED <<toReceiver, toSender, sender, receiver, sending, receiving, allSent, processed, cancels>>
    BY <1>2 DEF vars, senderVars, receiverVars
  <2> QED
    BY <1>1, <2>1, IdleTurns
<1>3. CASE \E f \in Files : SendFile(f)
  BY <1>1, <1>3, SendFileTurns
<1>4. ASSUME NEW f \in Files, CancelDownload(f)
      PROVE  Turns'
  BY <1>1, <1>4, ReceiverTimerTurns
<1>5. ASSUME NEW f \in Files, Timer(f)
      PROVE  Turns'
  <2>1. PICK chunk \in 0..Chunks : \/ AskTimeout(f) \/ CheckChunkSending(f, chunk)
                                   \/ CleanReceiveState(f) \/ CheckChunkReceiving(f, chunk)
    BY <1>5, ChunkTypes DEF Timer
  <2> QED
    BY <1>1, <2>1, SenderTimerTurns, ReceiverTimerTurns
<1>6. CASE ProcessRequest \/ \E f \in Files, accept \in BOOLEAN : Answer(f, accept)
  BY <1>1, <1>6, AskingTurns
<1>7. CASE ProcessResponse \/ ProcessAck \/ SendNext
  BY <1>1, <1>7, ResponseTurns, ProcessAckTurns, SendNextTurns
<1>8. CASE ProcessSendFile \/ ProcessWholeFile \/ CannotOpen
  BY <1>1, <1>8, FileTurns
<1>9. CASE ProcessChunk \/ WriteChunk \/ FinishChunk \/ CompleteChunk \/ Cleanup
  BY <1>1, <1>9, ProcessChunkTurns, WriteTurns, FinishTurns, CompleteTurns, CleanupTurns
<1> QED
  BY <1>2, <1>3, <1>4, <1>5, <1>6, <1>7, <1>8, <1>9 DEF Next, Thread

----------------------------------------------------------------------------
(* What is underway.                                                        *)

Moved == {"file", "chunk", "ack", "write"}

LEMMA ConcatMatch ==
    ASSUME NEW a \in Seq(Packets), NEW b \in Seq(Packets)
    PROVE  /\ a \o b \in Seq(Packets) /\ Len(a \o b) = Len(a) + Len(b)
           /\ \A i \in 1..Len(a \o b) : \/ i \in 1..Len(a) /\ (a \o b)[i] = a[i]
                                        \/ i - Len(a) \in 1..Len(b) /\ (a \o b)[i] = b[i - Len(a)]
<1>1. Len(a) \in Nat /\ Len(b) \in Nat
  BY LenProperties
<1>2. /\ a \o b \in Seq(Packets) /\ Len(a \o b) = Len(a) + Len(b)
      /\ \A i \in 1..(Len(a) + Len(b)) :
            (a \o b)[i] = IF i <= Len(a) THEN a[i] ELSE b[i - Len(a)]
  BY ConcatProperties
<1> DEFINE c == a \o b
<1> HIDE DEF c
<1>3. ASSUME NEW i \in 1..Len(c)
      PROVE  \/ i \in 1..Len(a) /\ c[i] = a[i]
             \/ i - Len(a) \in 1..Len(b) /\ c[i] = b[i - Len(a)]
  BY <1>1, <1>2 DEF c
<1> QED
  BY <1>2, <1>3 DEF c

\* a packet that only one of two queues has, once
LEMMA ConcatOnce ==
    ASSUME NEW a \in Seq(Packets), NEW b \in Seq(Packets), NEW f, NEW T,
           Once(a, f, T), Once(b, f, T), ~(Has(a, f, T) /\ Has(b, f, T))
    PROVE  Once(a \o b, f, T) /\ (Has(a \o b, f, T) => Has(a, f, T) \/ Has(b, f, T))
<1> DEFINE c == a \o b
           Mine(i) == c[i].file = f /\ c[i].type \in T
<1>1. Len(a) \in Nat /\ Len(b) \in Nat
  BY LenProperties
<1>2. \A i \in 1..Len(c) : \/ i \in 1..Len(a) /\ c[i] = a[i]
                           \/ i - Len(a) \in 1..Len(b) /\ c[i] = b[i - Len(a)]
  BY ConcatMatch
<1>3. \A i \in 1..Len(c) : i \in Int
  OBVIOUS
<1> HIDE DEF c
<1>4. Has(c, f, T) => Has(a, f, T) \/ Has(b, f, T)
  BY <1>2 DEF Has
<1>5. Once(c, f, T)
  <2> SUFFICES ASSUME NEW i \in 1..Len(c), NEW j \in 1..Len(c), Mine(i), Mine(j)
               PROVE  i = j
    BY DEF Once
  <2>1. CASE i \in 1..Len(a) /\ c[i] = a[i]
    <3>1. Has(a, f, T)
      BY <2>1 DEF Has
    <3>2. j \in 1..Len(a) /\ c[j] = a[j]
      BY <1>2, <3>1 DEF Has
    <3> QED
      BY <2>1, <3>2 DEF Once
  <2>2. CASE i - Len(a) \in 1..Len(b) /\ c[i] = b[i - Len(a)]
    <3>1. Has(b, f, T)
      BY <2>2 DEF Has
    <3>2. j - Len(a) \in 1..Len(b) /\ c[j] = b[j - Len(a)]
      BY <1>2, <3>1 DEF Has
    <3>3. i - Len(a) = j - Len(a)
      BY <2>2, <3>2 DEF Once
    <3> QED
      BY <1>1, <1>3, <3>3
  <2> QED
    BY <1>2, <2>1, <2>2
<1> QED
  BY <1>4, <1>5 DEF c

LEMMA OneInHand ==
    ASSUME NEW q \in Seq(Packets), Len(q) <= 1, NEW f, NEW T
    PROVE  Once(q, f, T) /\ (Has(q, f, T) => q # <<>> /\ q[1].file = f /\ q[1].type \in T)
<1>1. \A i \in 1..Len(q) : i = 1
  BY LenProperties
<1>2. q = <<>> => ~Has(q, f, T)
  BY DEF Has
<1> QED
  BY <1>1, <1>2 DEF Once, Has

LEMMA MovedOnce ==
    ASSUME TypeOK, Turns, NEW f \in Files
    PROVE  Once(Underway, f, Moved)
<1>1. /\ toReceiver \in Seq(Packets) /\ toSender \in Seq(Packets)
      /\ sender \in Seq(Packets) /\ receiver \in Seq(Packets)
      /\ Len(sender) <= 1 /\ Len(receiver) <= 1
  BY TypeParts
<1>2. InTurn(f) /\ Kinds
  BY DEF Turns
<1>3. Once(toReceiver, f, Moved) /\ (Has(toReceiver, f, Moved) => Has(toReceiver, f, Down))
  BY <1>2 DEF Kinds, OfTypes, InTurn, Once, Has, Moved, Down
<1>4. Once(toSender, f, Moved) /\ (Has(toSender, f, Moved) => Has(toSender, f, Acks))
  BY <1>2 DEF Kinds, OfTypes, InTurn, Once, Has, Moved, Acks
<1>5. Once(sender, f, Moved) /\ (Has(sender, f, Moved) => Acking(f))
  BY <1>1, OneInHand DEF Acking
<1>6. Once(receiver, f, Moved) /\ (Has(receiver, f, Moved) => Writing(f))
  <2>1. /\ Once(receiver, f, Moved)
        /\ Has(receiver, f, Moved) => /\ receiver # <<>> /\ receiver[1].file = f
                                      /\ receiver[1].type \in Moved
    BY <1>1, OneInHand
  <2>2. receiver # <<>> => receiver[1].type \in {"write", "finish", "complete"}
    BY <1>1, <1>2, KindInHand DEF Kinds
  <2> QED
    BY <2>1, <2>2 DEF Moved, Writing, Handling
<1> DEFINE a == toReceiver \o toSender
           b == a \o sender
<1>7. a \in Seq(Packets) /\ Once(a, f, Moved)
      /\ (Has(a, f, Moved) => Has(toReceiver, f, Down) \/ Has(toSender, f, Acks))
  BY <1>1, <1>2, <1>3, <1>4, ConcatMatch, ConcatOnce DEF InTurn
<1> HIDE DEF a
<1>8. b \in Seq(Packets) /\ Once(b, f, Moved)
      /\ (Has(b, f, Moved) => Has(toReceiver, f, Down) \/ Has(toSender, f, Acks) \/ Acking(f))
  BY <1>1, <1>2, <1>5, <1>7, ConcatMatch, ConcatOnce DEF InTurn
<1> HIDE DEF b
<1>9. Once(b \o receiver, f, Moved)
  BY <1>1, <1>2, <1>6, <1>8, ConcatOnce DEF InTurn
<1> QED
  BY <1>9 DEF a, b, Underway

LEMMA ConcatElements ==
    ASSUME NEW a \in Seq(Packets), NEW b \in Seq(Packets), NEW k \in 1..Len(a \o b)
    PROVE  \/ \E j \in 1..Len(a) : (a \o b)[k] = a[j]
           \/ \E j \in 1..Len(b) : (a \o b)[k] = b[j]
<1>1. CASE k \in 1..Len(a) /\ (a \o b)[k] = a[k]
  BY <1>1, Zenon
<1>2. CASE k - Len(a) \in 1..Len(b) /\ (a \o b)[k] = b[k - Len(a)]
  BY <1>2, Zenon
<1> QED
  BY <1>1, <1>2, ConcatMatch, Zenon

\* where a packet underway is
LEMMA Whereabouts ==
    ASSUME TypeOK, NEW i \in 1..Len(Underway)
    PROVE  \/ \E j \in 1..Len(toReceiver) : Underway[i] = toReceiver[j]
           \/ \E j \in 1..Len(toSender) : Underway[i] = toSender[j]
           \/ \E j \in 1..Len(sender) : Underway[i] = sender[j]
           \/ \E j \in 1..Len(receiver) : Underway[i] = receiver[j]
<1> DEFINE a == toReceiver \o toSender
           b == a \o sender
           c == b \o receiver
<1>1. /\ toReceiver \in Seq(Packets) /\ toSender \in Seq(Packets)
      /\ sender \in Seq(Packets) /\ receiver \in Seq(Packets)
  BY TypeParts
<1>2. /\ a \in Seq(Packets)
      /\ \A k \in 1..Len(a) : \/ \E j \in 1..Len(toReceiver) : a[k] = toReceiver[j]
                              \/ \E j \in 1..Len(toSender) : a[k] = toSender[j]
  BY <1>1, ConcatMatch, ConcatElements, Zenon
<1> HIDE DEF a
<1>3. /\ b \in Seq(Packets)
      /\ \A k \in 1..Len(b) : \/ \E j \in 1..Len(a) : b[k] = a[j]
                              \/ \E j \in 1..Len(sender) : b[k] = sender[j]
  BY <1>1, <1>2, ConcatMatch, ConcatElements, Zenon
<1> HIDE DEF b
<1>4. \A k \in 1..Len(c) : \/ \E j \in 1..Len(b) : c[k] = b[j]
                           \/ \E j \in 1..Len(receiver) : c[k] = receiver[j]
  BY <1>1, <1>3, ConcatElements, Zenon
<1>5. c = Underway
  BY DEF a, b, Underway
<1> HIDE DEF c
<1>6. \/ \E j \in 1..Len(b) : Underway[i] = b[j]
      \/ \E j \in 1..Len(receiver) : Underway[i] = receiver[j]
  BY <1>4, <1>5, Zenon
<1>7. ASSUME NEW k \in 1..Len(b)
      PROVE  \/ \E j \in 1..Len(toReceiver) : b[k] = toReceiver[j]
             \/ \E j \in 1..Len(toSender) : b[k] = toSender[j]
             \/ \E j \in 1..Len(sender) : b[k] = sender[j]
  BY <1>2, <1>3, Zenon
<1> QED
  BY <1>6, <1>7, Zenon

LEMMA TurnsInStep == IInv /\ Turns => InStep
<1> SUFFICES ASSUME IInv, Turns, NEW f \in Files
             PROVE  /\ \A i, j \in Moving(f) : i = j
                    /\ \A i \in Moving(f) :
                          LET packet == Underway[i] IN
                          IF packet.type = "ack" THEN packet.chunk = sending[f].chunk
                          ELSE packet.type # "file" => packet.chunk = receiving[f].chunk + 1
  BY DEF InStep
<1>1. TypeOK /\ Kinds /\ InTurn(f) /\ Opened(f)
  BY DEF IInv, Turns, Received
<1>2. \A i, j \in Moving(f) : i = j
  BY <1>1, MovedOnce DEF Once, Moving, Moved
<1>3. ASSUME NEW i \in Moving(f)
      PROVE  IF Underway[i].type = "ack" THEN Underway[i].chunk = sending[f].chunk
             ELSE Underway[i].type # "file" => Underway[i].chunk = receiving[f].chunk + 1
  <2> DEFINE p == Underway[i]
  <2>1. i \in 1..Len(Underway) /\ p.file = f /\ p.type \in Moved
    BY <1>3 DEF Moving, Moved
  <2>2. \/ \E j \in 1..Len(toReceiver) : p = toReceiver[j]
        \/ \E j \in 1..Len(toSender) : p = toSender[j]
        \/ \E j \in 1..Len(sender) : p = sender[j]
        \/ \E j \in 1..Len(receiver) : p = receiver[j]
    BY <1>1, <2>1, Whereabouts
  <2> HIDE DEF p
  <2>3. CASE \E j \in 1..Len(toReceiver) : p = toReceiver[j]
    <3>1. p.type = "file" \/ p.type = "chunk"
      BY <1>1, <2>1, <2>3 DEF Kinds, OfTypes, Moved
    <3>2. p.type = "chunk" => p.chunk = sending[f].chunk /\ Has(toReceiver, f, Data)
      BY <1>1, <2>1, <2>3 DEF InTurn, Num, Data, Has
    <3> QED
      BY <1>1, <3>1, <3>2 DEF InTurn, p
  <2>4. CASE \E j \in 1..Len(toSender) : p = toSender[j]
    <3>1. p.type = "ack"
      BY <1>1, <2>1, <2>4 DEF Kinds, OfTypes, Moved
    <3> QED
      BY <1>1, <2>1, <2>4, <3>1 DEF InTurn, Num, Acks, p
  <2>5. CASE \E j \in 1..Len(sender) : p = sender[j]
    <3>1. p = sender[1] /\ p.type = "ack" /\ Acking(f)
      <4>1. sender \in Seq(Packets) /\ Len(sender) <= 1
        BY <1>1, TypeParts
      <4>2. Len(sender) \in Nat
        BY <4>1, LenProperties
      <4>3. p = sender[1] /\ p.type = "ack" /\ sender # <<>>
        BY <1>1, <2>5, <4>1, <4>2 DEF Kinds, OfTypes
      <4> QED
        BY <2>1, <4>3 DEF Acking
    <3> QED
      BY <1>1, <3>1 DEF InTurn, p
  <2>6. CASE \E j \in 1..Len(receiver) : p = receiver[j]
    <3>1. p = receiver[1] /\ p.type = "write" /\ Writing(f)
      <4>1. receiver \in Seq(Packets) /\ Len(receiver) <= 1
        BY <1>1, TypeParts
      <4>2. Len(receiver) \in Nat
        BY <4>1, LenProperties
      <4>3. p = receiver[1] /\ p.type = "write" /\ receiver # <<>>
        BY <1>1, <2>1, <2>6, <4>1, <4>2 DEF Kinds, OfTypes, Moved
      <4> QED
        BY <2>1, <4>3 DEF Writing, Handling
    <3> QED
      BY <1>1, <3>1 DEF InTurn, p
  <2> QED
    BY <2>2, <2>3, <2>4, <2>5, <2>6
<1> QED
  BY <1>2, <1>3

----------------------------------------------------------------------------
(* The theorems.                                                            *)

\* Every variable keeps its type, whatever is lost, times out, is cancelled or fails.
THEOREM TypeCorrect == Spec => []TypeOK
<1>1. Init => TypeOK
  BY InitIInv DEF IInv
<1>2. TypeOK /\ [Next]_vars => TypeOK'
  BY TypeStep
<1> QED
  BY <1>1, <1>2, PTL DEF Spec

\* "check file size and digest then process it" (xpra/net/file_transfer.py:456): unless a
\* write is short without an error, a file that is processed has all of its chunks, in
\* order, on the disk.  A cancellation deletes a file that is processed only where it
\* comes between the receiver's last test and its processing.
THEOREM ProcessedWhole == ~ShortWrites => (Spec => []ProcessedIsWhole)
<1> SUFFICES ASSUME ~ShortWrites
             PROVE  Spec => []ProcessedIsWhole
  OBVIOUS
<1>1. IInv /\ [Next]_vars => IInv'
  BY TypeStep, AskedStep, ReceivedStep DEF IInv
<1>2. IInv => ProcessedIsWhole
  <2> SUFFICES ASSUME IInv, NEW f \in processed
               PROVE  disk[f] = Whole \/ f \in late
    BY DEF ProcessedIsWhole
  <2>1. f \in Files
    BY TypeParts DEF IInv
  <2> QED
    BY <2>1 DEF IInv, Received, Opened
<1> QED
  BY InitIInv, <1>1, <1>2, PTL DEF Spec

LEMMA Invariance == Spec => [](IInv /\ Turns)
<1>1. Init => IInv /\ Turns
  BY InitIInv, InitTurns
<1>2. IInv /\ Turns /\ [Next]_vars => (IInv /\ Turns)'
  BY TypeStep, AskedStep, ReceivedStep, TurnsStep DEF IInv
<1> QED
  BY <1>1, <1>2, PTL DEF Spec

\* Whatever times out, is cancelled, is lost or fails, there is at most one chunk or ack of
\* a file on its way, and it has the number that the other end expects, so that neither
\* finds a mismatch.
THEOREM EndsInStep == Spec => []InStep
  BY Invariance, TurnsInStep, PTL

\* When the sender takes a file for sent, the receiver has all of it and processes it,
\* unless its user has cancelled a transfer: also when writes are short.
THEOREM SentIsProcessed == Spec => []AllSentIsProcessed
<1>1. IInv /\ Turns => AllSentIsProcessed
  <2> SUFFICES ASSUME IInv, Turns, NEW f \in allSent
               PROVE  \/ f \in processed
                      \/ receiver # <<>> /\ receiver[1].file = f
                      \/ cancels > 0 /\ receiving[f].cancelled
    BY DEF AllSentIsProcessed
  <2>1. f \in Files
    BY TypeParts DEF IInv
  <2>2. Taken(f)
    BY <2>1 DEF Turns, Ends, Complete
  <2> QED
    BY <2>2 DEF Taken, Handling
<1> QED
  BY Invariance, <1>1, PTL

=============================================================================
