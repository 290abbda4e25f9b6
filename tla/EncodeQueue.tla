---------------------------- MODULE EncodeQueue -----------------------------
(***************************************************************************)
(* The encode thread of a client connection                                *)
(* (xpra/server/source/client_connection.py and the close method in        *)
(* factory.py): started by the first item that is queued, stopped by the   *)
(* end marker that the last cleanup step queues.                           *)
(*                                                                         *)
(* The threads that queue items read the queue_encode attribute first and  *)
(* call what they found there after: start_queue_encode, or put.           *)
(***************************************************************************)
EXTENDS Integers, Sequences, FiniteSets

CONSTANTS
    Callers,     \* threads that queue work; UI is one of them
    UI,          \* the main loop
    Subsystems,  \* the parts of the connection that close() cleans up
    WorkOf,      \* those whose cleanup queues work (windows: encode_ended)
    AtEndOf,     \* those whose cleanup registers a call for the end (mmap: free the area)
    MaxItems     \* bound: items queued while the connection is open

ASSUME EncodeAssumption ==
    /\ UI \in Callers
    /\ IsFiniteSet(Subsystems) /\ WorkOf \subseteq Subsystems /\ AtEndOf \subseteq Subsystems
    /\ MaxItems \in Nat

\* items: frames and other calls, a video encoder that is dropped (cleaned in time or
\* late), a subsystem's cleanup work, an at-end call, None
Kinds == {"call", "clean", "late", "cleanup", "atend", "marker"}
Item(kind, optional) == [kind |-> kind, optional |-> optional]
MARKER == Item("marker", FALSE)

VARIABLES
    call,        \* what each caller is about to do: <<>> or <<[via, item]>>
    lockedBy,    \* encode_thread_lock: the set of callers that hold it
    queueEncode, \* the queue_encode attribute: "start" (start_queue_encode) or "put"
    workQueue,   \* encode_work_queue
    threads,     \* encode threads started
    running,     \* the items that they are running
    ended,       \* those that met the marker
    closeEvent,  \* close_event
    stage,       \* close() in the UI thread: "open", "cleanup", "stopped", "failed"
    todo,        \* subsystems that it has yet to clean up
    atEnd,       \* length of encode_at_end
    issued       \* items queued by the subsystems before their cleanup

encodeVars == <<call, lockedBy, queueEncode, workQueue, threads, running, ended, closeEvent,
          stage, todo, atEnd, issued>>

----------------------------------------------------------------------------
EncodeInit ==
    /\ call = [c \in Callers |-> <<>>]
    /\ lockedBy = {}
    /\ queueEncode = "start"
    /\ workQueue = <<>>
    /\ threads = 0
    /\ running = <<>>
    /\ ended = 0
    /\ closeEvent = FALSE
    /\ stage = "open"
    /\ todo = Subsystems
    /\ atEnd = 0
    /\ issued = 0

(* Queueing an item.                                                        *)

\* read queue_encode: the call itself comes later
QueueEncode(c, item) ==
    /\ call[c] = <<>>
    /\ call' = [call EXCEPT ![c] = <<[via |-> queueEncode, item |-> item]>>]

\* call_in_encode_thread, and send_clipboard.  The main loop queues nothing once the
\* connection is being closed (the one timer left, for the frames in a video encoder,
\* is cancelled by the cleanup call).  Another thread queues optional calls and, when the
\* client sends a decode error or a new encoding, cleanup_codecs, which is not optional:
\* also from a handler that was running when close() began.
CallInEncodeThread(c, optional) ==
    /\ issued < MaxItems
    /\ c = UI => stage = "open"
    /\ QueueEncode(c, Item(IF c = UI \/ optional THEN "call" ELSE "clean", optional))
    /\ issued' = issued + 1
    /\ UNCHANGED <<lockedBy, queueEncode, workQueue, threads, running, ended, closeEvent,
                   stage, todo, atEnd>>

\* mutant: starts a thread without looking for one
StartQueueEncodeRacy(c) ==
    /\ call[c] # <<>> /\ call[c][1].via = "start"
    /\ lockedBy = {}
    /\ lockedBy' = {c}
    /\ call' = [call EXCEPT ![c][1].via = "locked"]
    /\ threads' = threads + 1
    /\ queueEncode' = "put"
    /\ UNCHANGED <<workQueue, running, ended, closeEvent, stage, todo, atEnd, issued>>

\* start_queue_encode, up to its put
StartQueueEncode(c) ==
    /\ call[c] # <<>> /\ call[c][1].via = "start"
    /\ lockedBy = {}
    /\ lockedBy' = {c}
    /\ call' = [call EXCEPT ![c][1].via = "locked"]
    /\ IF threads = 0 THEN threads' = 1 /\ queueEncode' = "put"
       ELSE UNCHANGED <<threads, queueEncode>>
    /\ UNCHANGED <<workQueue, running, ended, closeEvent, stage, todo, atEnd, issued>>

\* close() may have queued its calls for the end, or is about to
AllCleaned == stage = "stopped" \/ (stage = "cleanup" /\ todo = {})
AsQueued(item) == IF item.kind = "clean" /\ AllCleaned THEN Item("late", FALSE) ELSE item

Put(c) ==
    /\ call[c] # <<>> /\ call[c][1].via # "start"
    /\ workQueue' = Append(workQueue, AsQueued(call[c][1].item))
    /\ lockedBy' = lockedBy \ {c}
    /\ call' = [call EXCEPT ![c] = <<>>]
    /\ UNCHANGED <<queueEncode, threads, running, ended, closeEvent, stage, todo, atEnd, issued>>

(* encode_loop.                                                             *)

EncodeTake ==
    /\ Len(running) < threads - ended
    /\ workQueue # <<>>
    /\ workQueue' = Tail(workQueue)
    /\ LET item == Head(workQueue) IN
       /\ ended' = IF item = MARKER THEN ended + 1 ELSE ended
       /\ running' = IF item = MARKER \/ (item.optional /\ closeEvent) THEN running
                     ELSE Append(running, item)
    /\ UNCHANGED <<call, lockedBy, queueEncode, threads, closeEvent, stage, todo, atEnd, issued>>

\* the call returns, or raises: the loop goes on
EncodeReturn(i) ==
    /\ i \in 1..Len(running)
    /\ running' = SubSeq(running, 1, i - 1) \o SubSeq(running, i + 1, Len(running))
    /\ UNCHANGED <<call, lockedBy, queueEncode, workQueue, threads, ended, closeEvent,
                   stage, todo, atEnd, issued>>

(* close(), in the UI thread.                                               *)

StartClose ==
    /\ stage = "open" /\ call[UI] = <<>>
    /\ stage' = "cleanup"
    /\ closeEvent' = TRUE
    /\ UNCHANGED <<call, lockedBy, queueEncode, workQueue, threads, running, ended, todo,
                   atEnd, issued>>

\* mutant: frees what the encode thread uses as soon as the subsystem is cleaned up
CleanupSubsystemAtOnce(s) ==
    /\ stage = "cleanup" /\ s \in todo /\ call[UI] = <<>>
    /\ todo' = todo \ {s}
    /\ IF s \in WorkOf THEN QueueEncode(UI, Item("cleanup", FALSE))
       ELSE IF s \in AtEndOf THEN QueueEncode(UI, Item("atend", FALSE)) ELSE UNCHANGED call
    /\ UNCHANGED <<lockedBy, queueEncode, workQueue, threads, running, ended, closeEvent,
                   stage, atEnd, issued>>

\* the cleanup of one subsystem, in any order of them
CleanupSubsystem(s) ==
    /\ stage = "cleanup" /\ s \in todo /\ call[UI] = <<>>
    /\ todo' = todo \ {s}
    /\ IF s \in WorkOf THEN QueueEncode(UI, Item("cleanup", FALSE)) ELSE UNCHANGED call
    /\ atEnd' = IF s \in AtEndOf THEN atEnd + 1 ELSE atEnd
    /\ UNCHANGED <<lockedBy, queueEncode, workQueue, threads, running, ended, closeEvent,
                   stage, issued>>

\* a cleanup raises: close() raises too, and nothing after it is cleaned up
CleanupFails ==
    /\ stage = "cleanup" /\ todo # {} /\ call[UI] = <<>>
    /\ stage' = "failed"
    /\ UNCHANGED <<call, lockedBy, queueEncode, workQueue, threads, running, ended, closeEvent,
                   todo, atEnd, issued>>

\* mutant: the marker goes first
StopEncodeThreadEarly ==
    /\ stage = "cleanup" /\ todo = {} /\ call[UI] = <<>>
    /\ IF atEnd > 0 /\ MARKER \in {workQueue[i] : i \in 1..Len(workQueue)}
       THEN /\ QueueEncode(UI, Item("atend", FALSE))
            /\ atEnd' = atEnd - 1
            /\ stage' = IF atEnd = 1 THEN "stopped" ELSE stage
       ELSE /\ QueueEncode(UI, MARKER)
            /\ stage' = IF atEnd = 0 THEN "stopped" ELSE stage
            /\ UNCHANGED atEnd
    /\ UNCHANGED <<lockedBy, queueEncode, workQueue, threads, running, ended, closeEvent,
                   todo, issued>>

\* mutant: forgets the marker
StopEncodeThreadNoMarker ==
    /\ stage = "cleanup" /\ todo = {} /\ call[UI] = <<>>
    /\ IF atEnd > 0
       THEN QueueEncode(UI, Item("atend", FALSE)) /\ atEnd' = atEnd - 1 /\ UNCHANGED stage
       ELSE stage' = "stopped" /\ UNCHANGED <<call, atEnd>>
    /\ UNCHANGED <<lockedBy, queueEncode, workQueue, threads, running, ended, closeEvent,
                   todo, issued>>

\* ClientConnection is cleaned up last: the calls for the end, then the marker
StopEncodeThread ==
    /\ stage = "cleanup" /\ todo = {} /\ call[UI] = <<>>
    /\ IF atEnd > 0
       THEN QueueEncode(UI, Item("atend", FALSE)) /\ atEnd' = atEnd - 1 /\ UNCHANGED stage
       ELSE QueueEncode(UI, MARKER) /\ stage' = "stopped" /\ UNCHANGED atEnd
    /\ UNCHANGED <<lockedBy, queueEncode, workQueue, threads, running, ended, closeEvent,
                   todo, issued>>

EncodeNext ==
    \/ \E c \in Callers, optional \in BOOLEAN : CallInEncodeThread(c, optional)
    \/ \E c \in Callers : StartQueueEncode(c) \/ Put(c)
    \/ EncodeTake
    \/ \E i \in 1..threads : EncodeReturn(i)
    \/ StartClose
    \/ \E s \in Subsystems : CleanupSubsystem(s)
    \/ CleanupFails
    \/ StopEncodeThread

EncodeSpec == EncodeInit /\ [][EncodeNext]_encodeVars

\* Callers finish the call they are in, the encode thread takes its items and
\* every call that it runs returns, and a close() that has begun goes on.
EncodeFairSpec ==
    /\ EncodeSpec
    /\ \A c \in Callers : WF_encodeVars(StartQueueEncode(c)) /\ WF_encodeVars(Put(c))
    /\ WF_encodeVars(EncodeTake)
    /\ WF_encodeVars(\E i \in 1..threads : EncodeReturn(i))
    /\ WF_encodeVars(StopEncodeThread \/ \E s \in Subsystems : CleanupSubsystem(s))

----------------------------------------------------------------------------
(* Properties.                                                              *)

Items == [kind : Kinds, optional : BOOLEAN]

EncodeTypeOK ==
    /\ \A c \in Callers : Len(call[c]) <= 1
    /\ Cardinality(lockedBy) <= 1
    /\ queueEncode \in {"start", "put"}
    /\ workQueue \in Seq(Items) /\ running \in Seq(Items)
    /\ threads \in Nat /\ ended \in 0..threads
    /\ closeEvent \in BOOLEAN
    /\ stage \in {"open", "cleanup", "stopped", "failed"}
    /\ todo \subseteq Subsystems
    /\ atEnd \in 0..Cardinality(AtEndOf)
    /\ issued \in 0..MaxItems

\* Only one thread is ever started for the queue, though any caller may find none and
\* start it: two would run the calls of one window at once and out of order.
OneEncodeThread == threads <= 1 /\ Len(running) <= 1

Contents(q) == {q[i] : i \in 1..Len(q)}

\* A call for the end frees what every other call may use (the mmap areas, the
\* CUDA context): when it runs, no other call runs, and none that will run is left
\* in the queue or on its way into it, whatever order the subsystems are cleaned up in:
\* but for an encoder that the thread which reads the client's packets drops while
\* or after close() queues these calls.
AtEndIsLast ==
    (\E item \in Contents(running) : item.kind = "atend") =>
        /\ Len(running) = 1
        /\ \A item \in Contents(workQueue) :
              item.kind \in {"call", "clean", "cleanup"} => item.optional
        /\ \A c \in Callers : call[c] # <<>> =>
              (call[c][1].item.kind \in {"call", "cleanup"} => call[c][1].item.optional)

\* The encode thread "must run until we hit the end of queue marker, to ensure
\* all the queued items get called": once it has ended, only calls that are
\* optional are left behind, and encoders that were dropped too late.
EndedMeansAllRun ==
    ended > 0 =>
        /\ \A item \in Contents(workQueue) : item.optional \/ item.kind = "late"
        /\ \A c \in Callers : call[c] # <<>> =>
              call[c][1].item.optional \/ call[c][1].item.kind = "clean"

\* No encoder is dropped so late that its cleanup is left behind by the thread.
NoneTooLate == ended > 0 => \A item \in Contents(workQueue) : item.optional

\* A close() that no cleanup interrupts ends the encode thread, which would keep
\* the process alive (it is not a daemon thread), even one started by the marker.
EncodeThreadEnds == (stage = "stopped") ~> (threads = 1 /\ ended = 1)
=============================================================================
