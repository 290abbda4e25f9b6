---------------------------- MODULE FileTransfer ----------------------------
(***************************************************************************)
(* The transfer of files from one end of a connection to the other         *)
(* (xpra/net/file_transfer.py): asking for permission, the file in chunks, *)
(* each sent when the one before has been acknowledged, and the timers.    *)
(*                                                                         *)
(* Packets are handled in the network thread of each end, timers and users *)
(* in its main thread, so that a handler of a chunk or of an ack is more   *)
(* than one step: it holds on to the state of a transfer that the main     *)
(* thread may cancel or forget in between.                                 *)
(***************************************************************************)
EXTENDS Integers, Sequences, FiniteSets

CONSTANTS
    Files,      \* files to send, once each
    Small,      \* those of less than a chunk, sent in the first packet
    Chunks,     \* chunks of the others
    MaxFiles,   \* MAX_CONCURRENT_FILES
    Asks,       \* those that the receiver wants to be asked about, to print or open them
    DiskErrors, \* files can fail to open, and writes too
    ShortWrites, \* a write may write less than it was given, without an error
    MaxCancels  \* bound: calls to cancel_download

ASSUME TransferAssumption ==
    /\ Small \subseteq Files /\ Chunks \in Nat \ {0} /\ MaxFiles \in Nat \ {0}
    /\ Asks \subseteq Files /\ DiskErrors \in BOOLEAN /\ ShortWrites \in BOOLEAN
    /\ MaxCancels \in Nat

VARIABLES
    pending,    \* pending_send_data
    askTimers,  \* pending_send_data_timers
    sending,    \* the SendChunkState of each file: listed, in send_chunks_in_progress
    sendTimers, \* files and chunks whose _check_chunk_sending is armed
    sender,     \* the ack that the sender's network thread handles: <<>> or <<packet>>
    allSent,    \* files whose last chunk has been acknowledged
    asking,     \* files that the user is asked about
    accepted,   \* files_accepted
    receiving,  \* the ReceiveChunkState of each file
    recvTimers, \* files and chunks whose _check_chunk_receiving is armed
    cleanTimers, \* files whose clean_receive_state is armed
    receiver,   \* the chunk that the receiver's network thread handles
    disk,       \* the chunks that were written
    processed,  \* files given to process_downloaded_file
    toReceiver, toSender, \* packets
    lost,       \* why the connection is lost: "" while it is not
    cancels,    \* calls to cancel_download
    late        \* files cancelled after the last test that the receiver makes of it

senderVars == <<pending, askTimers, sending, sendTimers, sender, allSent>>
receiverVars == <<asking, accepted, receiving, recvTimers, cleanTimers, receiver, disk, processed>>
cancelling == <<cancels, late>>
vars == <<senderVars, receiverVars, toReceiver, toSender, lost, cancelling>>

NoFile == <<-1>>
Whole == [i \in 1..Chunks |-> i]
New == [state |-> "new", cancelled |-> FALSE, chunk |-> 0]

----------------------------------------------------------------------------
Init ==
    /\ pending = {} /\ askTimers = {}
    /\ sending = [f \in Files |-> New]
    /\ sendTimers = {} /\ sender = <<>> /\ allSent = {}
    /\ asking = {} /\ accepted = {}
    /\ receiving = [f \in Files |-> New]
    /\ recvTimers = {} /\ cleanTimers = {} /\ receiver = <<>>
    /\ disk = [f \in Files |-> NoFile] /\ processed = {}
    /\ toReceiver = <<>> /\ toSender = <<>>
    /\ lost = "" /\ cancels = 0 /\ late = {}

Packet(type, f, chunk) == [type |-> type, file |-> f, chunk |-> chunk]
Is(queue, type) == queue # <<>> /\ lost = "" /\ Head(queue).type = type

\* send: nothing goes into a connection that is lost
Add(queue, packet) == IF lost = "" THEN Append(queue, packet) ELSE queue

Listed(table) == {f \in Files : table[f].state = "listed"}

\* the timer of a transfer, which GLib.source_remove removes
TimersOf(timers, f) == {t \in timers : t[1] = f}

(* The sender.                                                              *)

\* do_send_file: with an error if too many are in progress
DoSendFile(f) ==
    \/ /\ f \in Small
       /\ sending' = [sending EXCEPT ![f].state = "over"]
       /\ toReceiver' = Add(toReceiver, Packet("file", f, Chunks))
       /\ UNCHANGED sendTimers
    \/ /\ f \notin Small /\ Cardinality(Listed(sending)) < MaxFiles
       /\ sending' = [sending EXCEPT ![f].state = "listed"]
       /\ sendTimers' = sendTimers \cup {<<f, 0>>}
       /\ toReceiver' = Add(toReceiver, Packet("file", f, 0))
    \/ /\ f \notin Small /\ Cardinality(Listed(sending)) >= MaxFiles
       /\ sending' = [sending EXCEPT ![f].state = "over"]
       /\ UNCHANGED <<sendTimers, toReceiver>>

\* send_file, and send_data_request
SendFile(f) ==
    /\ lost = "" /\ sending[f].state = "new" /\ f \notin pending
    /\ \/ /\ f \notin Asks
          /\ DoSendFile(f)
          /\ UNCHANGED <<pending, askTimers>>
       \/ /\ f \in Asks /\ Cardinality(pending) < MaxFiles
          /\ pending' = pending \cup {f}
          /\ askTimers' = askTimers \cup {f}
          /\ sending' = [sending EXCEPT ![f].state = "asked"]
          /\ toReceiver' = Add(toReceiver, Packet("request", f, 0))
          /\ UNCHANGED sendTimers
       \/ /\ f \in Asks /\ Cardinality(pending) >= MaxFiles
          /\ sending' = [sending EXCEPT ![f].state = "over"]
          /\ UNCHANGED <<pending, askTimers, sendTimers, toReceiver>>
    /\ UNCHANGED <<sender, allSent, receiverVars, toSender, lost, cancelling>>

\* send_data_ask_timeout
AskTimeout(f) ==
    /\ f \in askTimers
    /\ askTimers' = askTimers \ {f}
    /\ pending' = pending \ {f}
    /\ UNCHANGED <<sending, sendTimers, sender, allSent, receiverVars, toReceiver, toSender, lost, cancelling>>

\* _process_send_data_response: the entry stays in pending_send_data
ProcessResponse ==
    /\ \/ Is(toSender, "accept") \/ Is(toSender, "deny")
    /\ LET f == Head(toSender).file IN
       /\ askTimers' = askTimers \ {f}
       /\ IF f \in pending /\ Head(toSender).type = "accept" THEN DoSendFile(f)
          ELSE /\ sending' = [sending EXCEPT ![f].state = "over"]
               /\ UNCHANGED <<sendTimers, toReceiver>>
    /\ toSender' = Tail(toSender)
    /\ UNCHANGED <<pending, sender, allSent, receiverVars, lost, cancelling>>

\* cancel_sending
CancelSending(f) ==
    /\ sending' = [sending EXCEPT ![f].state = "over"]
    /\ sendTimers' = IF sending[f].state = "listed" THEN sendTimers \ TimersOf(sendTimers, f)
                     ELSE sendTimers

\* _process_ack_file_chunk, which looks for the state of the transfer
ProcessAck ==
    /\ sender = <<>>
    /\ \/ Is(toSender, "ack") \/ Is(toSender, "nack")
    /\ LET packet == Head(toSender)
           f == packet.file
       IN IF packet.type = "nack" \/ (sending[f].state = "listed" /\ sending[f].chunk # packet.chunk)
          THEN CancelSending(f) /\ UNCHANGED sender
          ELSE /\ sender' = IF sending[f].state = "listed" THEN <<packet>> ELSE <<>>
               /\ UNCHANGED <<sending, sendTimers>>
    /\ toSender' = Tail(toSender)
    /\ UNCHANGED <<pending, askTimers, allSent, receiverVars, toReceiver, lost, cancelling>>

\* mutant: no timer for the next chunk
SendChunkUntimed(f, chunk) ==
    /\ sending' = [sending EXCEPT ![f].chunk = chunk]
    /\ sendTimers' = sendTimers \ TimersOf(sendTimers, f)
    /\ toReceiver' = Add(toReceiver, Packet("chunk", f, chunk))

SendChunk(f, chunk) ==
    /\ sending' = [sending EXCEPT ![f].chunk = chunk]
    /\ sendTimers' = (sendTimers \ TimersOf(sendTimers, f)) \cup {<<f, chunk>>}
    /\ toReceiver' = Add(toReceiver, Packet("chunk", f, chunk))

\* mutant: does not wait for the ack
SendNextUnacked ==
    /\ sender # <<>>
    /\ LET f == sender[1].file IN
       IF sending[f].chunk = Chunks
       THEN CancelSending(f) /\ allSent' = allSent \cup {f} /\ sender' = <<>> /\ UNCHANGED toReceiver
       ELSE SendChunk(f, sending[f].chunk + 1) /\ UNCHANGED <<sender, allSent>>
    /\ UNCHANGED <<pending, askTimers, receiverVars, toSender, lost, cancelling>>

\* then: everything was sent, or the next chunk is
SendNext ==
    /\ sender # <<>>
    /\ sender' = <<>>
    /\ LET f == sender[1].file IN
       IF sending[f].chunk = Chunks
       THEN CancelSending(f) /\ allSent' = allSent \cup {f} /\ UNCHANGED toReceiver
       ELSE SendChunk(f, sending[f].chunk + 1) /\ UNCHANGED allSent
    /\ UNCHANGED <<pending, askTimers, receiverVars, toSender, lost, cancelling>>

\* _check_chunk_sending
CheckChunkSending(f, chunk) ==
    /\ <<f, chunk>> \in sendTimers
    /\ sendTimers' = sendTimers \ {<<f, chunk>>}
    /\ sending' = IF sending[f].state = "listed" /\ sending[f].chunk = chunk
                  THEN [sending EXCEPT ![f].state = "over"] ELSE sending
    /\ UNCHANGED <<pending, askTimers, sender, allSent, receiverVars, toReceiver, toSender, lost, cancelling>>

(* The receiver.                                                            *)

\* _process_send_data_request
ProcessRequest ==
    /\ Is(toReceiver, "request") /\ receiver = <<>>
    /\ asking' = asking \cup {Head(toReceiver).file}
    /\ toReceiver' = Tail(toReceiver)
    /\ UNCHANGED <<senderVars, accepted, receiving, recvTimers, cleanTimers, receiver, disk,
                   processed, toSender, lost, cancelling>>

\* cb_answer, when the user answers
Answer(f, accept) ==
    /\ f \in asking
    /\ asking' = asking \ {f}
    /\ accepted' = IF accept THEN accepted \cup {f} ELSE accepted
    /\ toSender' = Add(toSender, Packet(IF accept THEN "accept" ELSE "deny", f, 0))
    /\ UNCHANGED <<senderVars, receiving, recvTimers, cleanTimers, receiver, disk, processed,
                   toReceiver, lost, cancelling>>

\* _process_send_file, for a file in chunks: the file is opened before the number of
\* transfers is tested, and stays when there are too many of them
ProcessSendFile ==
    /\ Is(toReceiver, "file") /\ receiver = <<>> /\ Head(toReceiver).file \notin Small
    /\ toReceiver' = Tail(toReceiver)
    /\ LET f == Head(toReceiver).file IN
       /\ accepted' = accepted \ {f}
       /\ disk' = [disk EXCEPT ![f] = <<>>]
       /\ IF Cardinality(Listed(receiving)) < MaxFiles
          THEN /\ receiving' = [receiving EXCEPT ![f].state = "listed"]
               /\ recvTimers' = recvTimers \cup {<<f, 0>>}
               /\ toSender' = Add(toSender, Packet("ack", f, 0))
          ELSE /\ toSender' = Add(toSender, Packet("nack", f, 0))
               /\ UNCHANGED <<receiving, recvTimers>>
    /\ UNCHANGED <<senderVars, asking, cleanTimers, receiver, processed, lost, cancelling>>

\* the same for one that is whole
ProcessWholeFile ==
    /\ Is(toReceiver, "file") /\ receiver = <<>> /\ Head(toReceiver).file \in Small
    /\ toReceiver' = Tail(toReceiver)
    /\ LET f == Head(toReceiver).file IN
       /\ accepted' = accepted \ {f}
       /\ \/ /\ disk' = [disk EXCEPT ![f] = Whole]
             /\ processed' = processed \cup {f}
          \/ /\ DiskErrors
             /\ disk' = [disk EXCEPT ![f] = <<>>]
             /\ UNCHANGED processed
          \/ /\ ShortWrites
             /\ disk' = [disk EXCEPT ![f] = <<>>]
             /\ processed' = processed \cup {f}
    /\ UNCHANGED <<senderVars, asking, receiving, recvTimers, cleanTimers, receiver, toSender, lost, cancelling>>

\* an exception in a handler that call_handler does not expect (xpra/net/glib_handler.py)
\* ends the parse thread and the connection
Raise == lost' = "error"

\* _process_send_file, when the file cannot be opened: cancel() uses a variable that has
\* no value yet
CannotOpen ==
    /\ DiskErrors /\ Is(toReceiver, "file") /\ receiver = <<>>
    /\ toReceiver' = Tail(toReceiver)
    /\ accepted' = accepted \ {Head(toReceiver).file}
    /\ IF Head(toReceiver).file \in Small THEN UNCHANGED lost ELSE Raise
    /\ UNCHANGED <<senderVars, asking, receiving, recvTimers, cleanTimers, receiver, disk,
                   processed, toSender, cancelling>>

\* cancel_file
CancelFile(f, chunk) ==
    /\ IF receiving[f].state = "listed"
       THEN /\ receiving' = [receiving EXCEPT ![f].cancelled = TRUE]
            /\ recvTimers' = recvTimers \ TimersOf(recvTimers, f)
            /\ cleanTimers' = cleanTimers \cup {f}
            /\ disk' = [disk EXCEPT ![f] = NoFile]
       ELSE UNCHANGED <<receiving, recvTimers, cleanTimers, disk>>
    /\ toSender' = Add(toSender, Packet("nack", f, chunk))

\* clean_receive_state
CleanReceiveState(f) ==
    /\ f \in cleanTimers
    /\ cleanTimers' = cleanTimers \ {f}
    /\ receiving' = [receiving EXCEPT ![f].state = "over"]
    /\ UNCHANGED <<senderVars, asking, accepted, recvTimers, receiver, disk, processed,
                   toReceiver, toSender, lost, cancelling>>

\* the receiver's thread has tested for the last time whether f is cancelled
LastTested(f) == receiver # <<>> /\ receiver[1].file = f /\ receiver[1].type = "complete"

\* cancel_download, by the user.  One that has found the transfer listed goes on when
\* the receiver's thread takes it off the list: it deletes the file all the same.
CancelDownload(f) ==
    /\ cancels < MaxCancels
    /\ cancels' = cancels + 1
    /\ f \in Listed(receiving)
    /\ CancelFile(f, 0)
    /\ late' = IF LastTested(f) THEN late \cup {f} ELSE late
    /\ UNCHANGED <<senderVars, asking, accepted, receiver, processed, toReceiver, lost>>

\* _check_chunk_receiving: the file stays, and the sender is not told
CheckChunkReceiving(f, chunk) ==
    /\ <<f, chunk>> \in recvTimers
    /\ recvTimers' = recvTimers \ {<<f, chunk>>}
    /\ receiving' = IF /\ receiving[f].state = "listed" /\ ~receiving[f].cancelled
                       /\ receiving[f].chunk = chunk
                    THEN [receiving EXCEPT ![f].state = "over"] ELSE receiving
    /\ UNCHANGED <<senderVars, asking, accepted, cleanTimers, receiver, disk, processed,
                   toReceiver, toSender, lost, cancelling>>

\* _process_send_file_chunk, which looks for the state of the transfer: without one, it
\* fails after the sender has been told
ProcessChunk ==
    /\ Is(toReceiver, "chunk") /\ receiver = <<>>
    /\ toReceiver' = Tail(toReceiver)
    /\ LET packet == Head(toReceiver)
           f == packet.file
       IN \/ /\ receiving[f].state \in {"new", "over"}
             /\ CancelFile(f, packet.chunk)
             /\ Raise
             /\ UNCHANGED receiver
          \/ /\ receiving[f].state = "listed" /\ receiving[f].cancelled
             /\ UNCHANGED <<receiving, recvTimers, cleanTimers, disk, toSender, lost, receiver>>
          \/ /\ receiving[f].state = "listed" /\ ~receiving[f].cancelled
             /\ receiver' = <<[packet EXCEPT !.type = "write"]>>
             /\ UNCHANGED <<receiving, recvTimers, cleanTimers, disk, toSender, lost>>
    /\ UNCHANGED <<senderVars, asking, accepted, processed, cancelling>>

\* mutant: the ack comes before the write
WriteChunkLate ==
    /\ receiver # <<>> /\ receiver[1].type = "write"
    /\ LET f == receiver[1].file
           chunk == receiver[1].chunk
       IN /\ receiving' = [receiving EXCEPT ![f].chunk = chunk]
          /\ toSender' = Add(toSender, Packet("ack", f, chunk))
          /\ \/ /\ ~receiving[f].cancelled
                /\ disk' = [disk EXCEPT ![f] = Append(@, chunk)]
                /\ receiver' = <<[receiver[1] EXCEPT !.type = "finish"]>>
             \/ /\ receiving[f].cancelled \/ DiskErrors
                /\ disk' = [disk EXCEPT ![f] = NoFile]
                /\ receiver' = <<>>
    /\ UNCHANGED <<senderVars, asking, accepted, recvTimers, cleanTimers, processed, toReceiver, lost, cancelling>>

\* then: the chunk is written and acknowledged, or the transfer is cancelled (error).  The
\* file is closed once the transfer has been cancelled, so that the write fails.
WriteChunk ==
    /\ receiver # <<>> /\ receiver[1].type = "write"
    /\ LET f == receiver[1].file
           chunk == receiver[1].chunk
           expected == receiving[f].chunk + 1 = chunk
       IN \/ /\ expected /\ ~receiving[f].cancelled
             /\ receiving' = [receiving EXCEPT ![f].chunk = chunk]
             /\ \/ disk' = [disk EXCEPT ![f] = Append(@, chunk)]
                \/ ShortWrites /\ UNCHANGED disk
             /\ toSender' = Add(toSender, Packet("ack", f, chunk))
             /\ receiver' = <<[receiver[1] EXCEPT !.type = "finish"]>>
             /\ UNCHANGED <<recvTimers, cleanTimers>>
          \/ /\ ~expected \/ receiving[f].cancelled \/ DiskErrors
             /\ IF receiving[f].state = "listed" THEN CancelFile(f, chunk)
                ELSE /\ disk' = [disk EXCEPT ![f] = NoFile]
                     /\ toSender' = Add(toSender, Packet("nack", f, chunk))
                     /\ UNCHANGED <<receiving, recvTimers, cleanTimers>>
             /\ receiver' = <<>>
    /\ UNCHANGED <<senderVars, asking, accepted, processed, toReceiver, lost, cancelling>>

\* mutant: a file that the main thread has cancelled goes on
FinishChunkAnyway ==
    /\ receiver # <<>> /\ receiver[1].type = "finish"
    /\ receiver' = <<[receiver[1] EXCEPT !.type = "complete"]>>
    /\ UNCHANGED <<senderVars, asking, accepted, receiving, recvTimers, cleanTimers, disk,
                   processed, toReceiver, toSender, lost, cancelling>>

\* then: the last test of cancelled
FinishChunk ==
    /\ receiver # <<>> /\ receiver[1].type = "finish"
    /\ receiver' = IF receiving[receiver[1].file].cancelled THEN <<>>
                   ELSE <<[receiver[1] EXCEPT !.type = "complete"]>>
    /\ UNCHANGED <<senderVars, asking, accepted, receiving, recvTimers, cleanTimers, disk,
                   processed, toReceiver, toSender, lost, cancelling>>

\* then: it waits for the next chunk, or the file is complete, cancelled or not.  The
\* digest and the size are those of what was to be written.
CompleteChunk ==
    /\ receiver # <<>> /\ receiver[1].type = "complete"
    /\ receiver' = <<>>
    /\ LET f == receiver[1].file
           chunk == receiver[1].chunk
       IN \/ /\ chunk < Chunks
             /\ recvTimers' = (recvTimers \ TimersOf(recvTimers, f)) \cup {<<f, chunk>>}
             /\ UNCHANGED <<receiving, processed>>
          \/ /\ chunk = Chunks
             /\ receiving' = [receiving EXCEPT ![f].state = "over"]
             /\ processed' = processed \cup {f}
             /\ UNCHANGED recvTimers
    /\ UNCHANGED <<senderVars, asking, accepted, cleanTimers, disk, toReceiver, toSender, lost, cancelling>>

\* cleanup, at both ends, when the connection is lost: timers of transfers being sent stay
Cleanup ==
    /\ \/ lost = "" /\ lost' = "network"
       \/ lost = "error" /\ UNCHANGED lost
    /\ \/ lost = "" \/ Listed(sending) \cup Listed(receiving) # {}
       \/ pending # {} \/ toReceiver # <<>> \/ toSender # <<>>
    /\ toReceiver' = <<>> /\ toSender' = <<>>
    /\ pending' = {} /\ askTimers' = {}
    /\ sending' = [f \in Files |-> [sending[f] EXCEPT !.state = "over"]]
    /\ recvTimers' = {t \in recvTimers : t[1] \notin Listed(receiving)}
    /\ receiving' = [f \in Files |-> [receiving[f] EXCEPT !.state = "over"]]
    /\ accepted' = {}
    /\ UNCHANGED <<sendTimers, sender, allSent, asking, cleanTimers, receiver, disk, processed, cancelling>>

Thread == ProcessResponse \/ ProcessAck \/ SendNext
          \/ ProcessRequest \/ ProcessSendFile \/ ProcessWholeFile
          \/ ProcessChunk \/ WriteChunk \/ FinishChunk \/ CompleteChunk

Timer(f) ==
    \/ AskTimeout(f) \/ CleanReceiveState(f)
    \/ \E chunk \in 0..Chunks : CheckChunkSending(f, chunk) \/ CheckChunkReceiving(f, chunk)

Next ==
    \/ \E f \in Files : SendFile(f) \/ CancelDownload(f)
    \/ \E f \in Files, accept \in BOOLEAN : Answer(f, accept)
    \/ Thread \/ CannotOpen
    \/ \E f \in Files : Timer(f)
    \/ Cleanup

Spec == Init /\ [][Next]_vars

\* GLib runs its timers, and a thread that has begun to handle a packet goes on with it.
\* Whether packets arrive is up to the network and the other end.
FairSpec ==
    /\ Spec
    /\ \A f \in Files : WF_vars(Timer(f))
    /\ WF_vars(SendNext) /\ WF_vars(WriteChunk \/ FinishChunk \/ CompleteChunk)

----------------------------------------------------------------------------
(* Properties.                                                              *)

States == {"new", "asked", "listed", "over"}
Transfers == [Files -> [state : States, cancelled : BOOLEAN, chunk : 0..Chunks]]
Packets == [type : {"request", "accept", "deny", "file", "chunk", "ack", "nack", "write", "finish",
                    "complete"},
            file : Files, chunk : 0..Chunks]

\* The variables have their types.
TypeOK ==
    /\ pending \subseteq Files /\ askTimers \subseteq Files /\ allSent \subseteq Files
    /\ sending \in Transfers /\ receiving \in Transfers
    /\ sendTimers \subseteq Files \X (0..Chunks) /\ recvTimers \subseteq Files \X (0..Chunks)
    /\ cleanTimers \subseteq Files /\ asking \subseteq Files /\ accepted \subseteq Files
    /\ sender \in Seq(Packets) /\ receiver \in Seq(Packets)
    /\ Len(sender) <= 1 /\ Len(receiver) <= 1
    /\ disk \in [Files -> Seq(-1..Chunks)] /\ processed \subseteq Files
    /\ toReceiver \in Seq(Packets) /\ toSender \in Seq(Packets)
    /\ lost \in {"", "network", "error"} /\ cancels \in 0..MaxCancels /\ late \subseteq Files

\* the packets on their way or being handled, and those of them that are a chunk or an
\* ack of a file
Underway == toReceiver \o toSender \o sender \o receiver

Moving(f) == {i \in 1..Len(Underway) : /\ Underway[i].file = f
                                      /\ Underway[i].type \in {"file", "chunk", "ack", "write"}}

\* The ends are in step, whatever times out or is cancelled: there is at most one chunk or
\* ack of a file on its way, and it has the number that the other end expects, so that
\* neither finds a mismatch.
InStep ==
    \A f \in Files :
        /\ \A i, j \in Moving(f) : i = j
        /\ \A i \in Moving(f) :
             LET packet == Underway[i] IN
             IF packet.type = "ack" THEN packet.chunk = sending[f].chunk
             ELSE packet.type # "file" => packet.chunk = receiving[f].chunk + 1

\* "check file size and digest then process it" (xpra/net/file_transfer.py:456): a file that
\* is processed has all of its chunks, in order, on the disk, unless its user cancels it after
\* the receiver has "check[ed] again if the transfer has been cancelled" (:428).
ProcessedIsWhole == \A f \in processed : disk[f] = Whole \/ f \in late

\* The same without the exception: nothing is checked between that test and the
\* processing, so that a file is processed that cancel_file has deleted.
ProcessedIsThere == \A f \in processed : disk[f] = Whole

\* When the sender takes a file for sent, the receiver has all of it and processes it,
\* unless its user has cancelled a transfer.
AllSentIsProcessed ==
    \A f \in allSent : \/ f \in processed
                       \/ receiver # <<>> /\ receiver[1].file = f
                       \/ cancels > 0 /\ receiving[f].cancelled

\* No transfer is in progress for ever: files are sent once each, so that in the end
\* nothing counts against the limit, at either end, whether or not the other still answers.
SlotsFreed == <>[](Listed(sending) = {} /\ Listed(receiving) = {})

\* "remove this transfer after a little while, so in-flight packets won't cause errors"
\* (xpra/net/file_transfer.py:351-352): no packet of the other end breaks the connection.
InFlightCausesNoError == lost # "error"

\* "%i transfers already waiting for a response" (xpra/net/file_transfer.py:843): those
\* in pending_send_data wait for one, until their timeout.
PendingAwaitsResponse == pending \subseteq askTimers

\* "from now on, call error() so we also close / cleanup the temporary file"
\* (xpra/net/file_transfer.py:548): a file that is not being received is whole.
NoFileLeft ==
    \A f \in Files : disk[f] \notin {NoFile, Whole} =>
        f \in Listed(receiving) \/ receiver # <<>> \/ lost # ""
=============================================================================
