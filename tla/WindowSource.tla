---------------------------- MODULE WindowSource ----------------------------
(***************************************************************************)
(* The damage pipeline of one window for one client                        *)
(* (xpra/server/window/compress.py, with the send_regions of               *)
(* video_compress.py, which is the class the server instantiates).         *)
(*                                                                         *)
(* Screen updates are batched in a "delayed region".  The region waits for *)
(* its expire timer, then for the client's acks, but never for those only: *)
(* a soft timer or a timeout sends it in any case.                         *)
(*                                                                         *)
(* Three threads work on the attributes of the same object, here the       *)
(* record ws: the UI thread (damage, timers, suspend, cleanup), the encode *)
(* thread (make_data_packet_cb), the network parse thread (acks).  Each UI *)
(* method is an operator from a record to the set of records it can leave: *)
(* clocks, batch delays and pixel counts only appear as that choice.       *)
(***************************************************************************)
EXTENDS Integers, Sequences, FiniteSets

CONSTANTS
    MaxSoftExpired,  \* max_soft_expired, from the client's encoding options
    BandwidthLimit,  \* whether a bandwidth limit is set
    Mmap,            \* whether the pixels go through the mmap area
    VideoRegion,     \* whether the window can have a video region
    MaxSequence,     \* bound: images grabbed from the window
    MaxSources,      \* bound: live expire timers
    MaxIdle          \* bound: calls queued with idle_add

ASSUME WindowAssumption ==
    /\ MaxSoftExpired \in Nat
    /\ BandwidthLimit \in BOOLEAN /\ Mmap \in BOOLEAN /\ VideoRegion \in BOOLEAN
    /\ MaxSequence \in Nat /\ MaxSources \in Nat /\ MaxIdle \in Nat

\* greater than every sequence number: cancels everything, now and later
MAX_SEQUENCE == MaxSequence + 1

\* the end marker that cleanup queues for the encode thread, not a sequence
ENCODE_ENDED == 0

\* the GLib timers of a window, by the attribute that holds the source's id
Timers == {"expire", "soft", "timeout", "maysend", "decode"}

VARIABLES
    ws,         \* the WindowSource object
    encoding,   \* the sequence the encode thread is working on, or 0
    wire,       \* numbers of the draw packets sent, neither acked nor lost
    ackThread,  \* what the parse thread saw of the delayed region, or "idle"
    idle        \* pending idle_add(call_may_send_delayed) calls

vars == <<ws, encoding, wire, ackThread, idle>>

----------------------------------------------------------------------------
(* GLib sources: `armed` has the timers whose attribute is not zero,        *)
(* `sources` counts the sources the main loop still has.                    *)

Arm(w, t) == [w EXCEPT !.armed = @ \cup {t}, !.sources = [w.sources EXCEPT ![t] = @ + 1]]

Cancel(w, T) ==
    [w EXCEPT !.armed = @ \ T,
              !.sources = [t \in Timers |-> IF t \in T \cap w.armed THEN w.sources[t] - 1
                                                                    ELSE w.sources[t]]]

\* a source fires: its callback begins by zeroing the attribute
Fired(w, t) == [w EXCEPT !.armed = @ \ {t}, !.sources = [w.sources EXCEPT ![t] = @ - 1]]

----------------------------------------------------------------------------
(* Cancellation.                                                            *)

is_cancelled(w, sequence) == w.cancelled >= sequence

cancel_damage(w, limit) ==
    [Cancel(w, Timers) EXCEPT
        !.cancelled = limit,
        !.delayed = "none",
        !.turn = IF w.delayed = "none" THEN @ ELSE 1 - @,
        !.encodingPending = {s \in @ : s > limit}]

\* statistics.reset(): forgets the acks and the encodes that are pending
statistics_reset(w) == [w EXCEPT !.ackPending = {}, !.encodingPending = {}]

----------------------------------------------------------------------------
(* Sending a region.                                                        *)

\* process_damage_region: no image (no sequence used, or one used up), or an
\* image that is queued for the encode thread
process_damage_region(w) ==
    {w} \cup
    (IF w.sequence >= MaxSequence THEN {}
     ELSE LET s == w.sequence + 1
              u == [w EXCEPT !.sequence = s]
          IN  {u} \cup IF is_cancelled(w, s) THEN {}
                       ELSE {[u EXCEPT !.encodeQueue = Append(@, s)]})

\* send_regions: everything now, or the video region now and the rest later
send_regions(w) ==
    LET now == process_damage_region(w)
        later == {Arm([v EXCEPT !.delayed = "fresh"], "expire") : v \in now}
    IN  IF VideoRegion /\ w.sources["expire"] < MaxSources THEN now \cup later ELSE now

send_delayed_regions(w) ==
    IF is_cancelled(w, MAX_SEQUENCE) THEN {w} ELSE send_regions(w)

do_send_delayed(w) ==
    LET c == Cancel(w, {"timeout", "soft"}) IN
    IF w.delayed = "none" THEN {c}
    ELSE send_delayed_regions([c EXCEPT !.delayed = "none", !.turn = 1 - @])

\* full_quality_refresh: the whole window, the delayed region is left alone
full_quality_refresh(w) ==
    IF is_cancelled(w, MAX_SEQUENCE) THEN {w} ELSE process_damage_region(w)

\* wait for late acks (giving up on them after the timeout delay), check again
\* later, wait for the encode thread, or send
may_send_delayed(w) ==
    IF w.delayed # "expired" THEN {w}
    ELSE
      (IF w.ackPending = {} THEN {} ELSE {w, [w EXCEPT !.ackPending = {}]})
      \cup
      (IF w.locked THEN {Arm(w, "maysend")} \cup do_send_delayed(w)
       ELSE (IF BandwidthLimit THEN {Arm(w, "maysend")} ELSE {})
            \cup (IF w.encodingPending = {} THEN {}
                  ELSE {IF w.ackPending = {} THEN Arm(w, "maysend") ELSE w})
            \cup do_send_delayed([w EXCEPT !.softExpired = 0]))

\* mutant: trusts the acks once the soft expire limit is reached
soft_expire_no_timeout(w) ==
    {IF w.softExpired < limit THEN Arm([w EXCEPT !.softExpired = @ + 1], "soft") ELSE w :
        limit \in (IF MaxSoftExpired = 0 THEN {0} ELSE 1..MaxSoftExpired)}

\* the end of expire_delayed_region, for a region that may_send_delayed did not
\* send: the soft timer below a limit that grows with the damage events, the
\* timeout once it is reached
soft_expire(w) ==
    {IF w.softExpired < limit
     THEN Arm([w EXCEPT !.softExpired = @ + 1], "soft")
     ELSE IF "timeout" \in w.armed THEN w
     ELSE Arm([w EXCEPT !.timeoutOurs = TRUE], "timeout") :
        limit \in (IF MaxSoftExpired = 0 THEN {0} ELSE 1..MaxSoftExpired)}

expire_delayed_region(w) ==
    IF w.delayed = "none" \/ "soft" \in w.armed THEN {w}
    ELSE LET sent == may_send_delayed([Cancel(w, {"maysend"}) EXCEPT !.delayed = "expired"])
         IN  UNION {IF v.delayed = "none" THEN {v} ELSE soft_expire(v) : v \in sent}

\* a delayed region exists: merge into it.  The code calls it a bug when it
\* finds no timer there, and starts one.
merge_damage(w) ==
    IF "expire" \notin w.armed /\ "soft" \notin w.armed /\ w.softExpired = 0
    THEN Arm(w, "expire") ELSE w

do_damage(w) ==
    IF w.delayed # "none" THEN merge_damage(w)
    ELSE Arm([w EXCEPT !.delayed = "fresh", !.timeoutOurs = FALSE], "expire")

delayed_region_timeout(w) ==
    IF w.delayed = "none" \/ ~w.timeoutOurs THEN {w}
    ELSE full_quality_refresh(cancel_damage(w, w.sequence))

----------------------------------------------------------------------------
Init ==
    /\ ws = [delayed |-> "none", timeoutOurs |-> FALSE, softExpired |-> 0,
             armed |-> {}, sources |-> [t \in Timers |-> 0],
             suspended |-> FALSE, locked |-> FALSE,
             sequence |-> 1, cancelled |-> 0, encodeQueue |-> <<>>,
             encodingPending |-> {}, packetSequence |-> 1, ackPending |-> {},
             turn |-> 0, closed |-> FALSE, ended |-> FALSE, gone |-> FALSE]
    /\ encoding = 0
    /\ wire = {}
    /\ ackThread = "idle"
    /\ idle = 0

(* UI thread: calls from the server.                                        *)

Damage ==
    /\ ~ws.closed /\ ~ws.suspended
    /\ ws.sources["expire"] < MaxSources
    /\ ws' = do_damage(ws)
    /\ UNCHANGED <<encoding, wire, ackThread, idle>>

\* WindowsConnection.refresh: cancel what is pending and damage it all again
Refresh ==
    /\ ~ws.closed
    /\ ws.sources["expire"] < MaxSources
    /\ LET c == cancel_damage(ws, ws.sequence)
       IN  ws' = IF ws.suspended THEN c ELSE do_damage(c)
    /\ UNCHANGED <<encoding, wire, ackThread, idle>>

Suspend ==
    /\ ~ws.closed
    /\ ws' = [statistics_reset(cancel_damage(ws, ws.sequence)) EXCEPT !.suspended = TRUE]
    /\ UNCHANGED <<encoding, wire, ackThread, idle>>

Resume ==
    /\ ~ws.closed
    /\ ws.sources["expire"] < MaxSources
    /\ LET c == statistics_reset(cancel_damage(ws, ws.sequence))
       IN  ws' = do_damage([c EXCEPT !.suspended = FALSE])
    /\ UNCHANGED <<encoding, wire, ackThread, idle>>

\* the window is iconified: its batch delay is locked
GoIdle ==
    /\ ~ws.closed /\ ~ws.locked
    /\ ws' = [ws EXCEPT !.locked = TRUE]
    /\ UNCHANGED <<encoding, wire, ackThread, idle>>

\* unmap also goes idle, map unlocks the batch delay
Unmap ==
    /\ ~ws.closed
    /\ ws' = [statistics_reset(cancel_damage(ws, ws.sequence)) EXCEPT !.locked = TRUE]
    /\ UNCHANGED <<encoding, wire, ackThread, idle>>

Map ==
    /\ ~ws.closed /\ ws.locked
    /\ ws' = [ws EXCEPT !.locked = FALSE]
    /\ UNCHANGED <<encoding, wire, ackThread, idle>>

\* mutant: leaves the delayed region and its timers alone
CleanupNoCancel ==
    /\ ~ws.closed
    /\ ws' = [ws EXCEPT !.closed = TRUE, !.encodeQueue = Append(@, ENCODE_ENDED)]
    /\ UNCHANGED <<encoding, wire, ackThread, idle>>

\* init_vars runs after the timers are cancelled
Cleanup ==
    /\ ~ws.closed
    /\ ws' = [cancel_damage(ws, MAX_SEQUENCE) EXCEPT
                !.closed = TRUE, !.softExpired = 0, !.suspended = FALSE,
                !.sequence = 1, !.packetSequence = 1,
                !.encodeQueue = Append(@, ENCODE_ENDED)]
    /\ UNCHANGED <<encoding, wire, ackThread, idle>>

(* UI thread: timers and idle callbacks.                                    *)

ExpireTimer ==
    /\ ws.sources["expire"] > 0
    /\ UNCHANGED <<encoding, wire, ackThread, idle>>
    /\ ws' \in expire_delayed_region(Fired(ws, "expire"))

SoftTimer ==
    /\ ws.sources["soft"] > 0
    /\ UNCHANGED <<encoding, wire, ackThread, idle>>
    /\ ws' \in do_send_delayed(Fired(ws, "soft"))

TimeoutTimer ==
    /\ ws.sources["timeout"] > 0
    /\ UNCHANGED <<encoding, wire, ackThread, idle>>
    /\ ws' \in delayed_region_timeout(Fired(ws, "timeout"))

MaySendTimer ==
    /\ ws.sources["maysend"] > 0
    /\ ws' \in may_send_delayed(Fired(ws, "maysend"))
    /\ UNCHANGED <<encoding, wire, ackThread, idle>>

DecodeErrorTimer ==
    /\ ws.sources["decode"] > 0
    /\ LET f == Fired(ws, "decode")
       IN  ws' \in IF f.gone THEN {f} ELSE full_quality_refresh(f)
    /\ UNCHANGED <<encoding, wire, ackThread, idle>>

\* mutant: does not cancel the may-send timer first
IdleMaySendNoCancel ==
    /\ idle > 0
    /\ idle' = idle - 1
    /\ ws' \in may_send_delayed(ws)
    /\ UNCHANGED <<encoding, wire, ackThread>>

\* call_may_send_delayed, queued by an ack
IdleMaySend ==
    /\ idle > 0
    /\ idle' = idle - 1
    /\ ws' \in may_send_delayed(Cancel(ws, {"maysend"}))
    /\ UNCHANGED <<encoding, wire, ackThread>>

\* ui_cleanup, queued by encode_ended: the window and the statistics go away
UICleanup ==
    /\ ws.ended /\ ~ws.gone
    /\ ws' = [ws EXCEPT !.gone = TRUE]
    /\ UNCHANGED <<encoding, wire, ackThread, idle>>

(* Encode thread.                                                           *)

\* make_data_packet_cb on a frame that is cancelled or suspended already
EncodeSkip ==
    /\ encoding = 0 /\ ws.encodeQueue # <<>>
    /\ Head(ws.encodeQueue) # ENCODE_ENDED
    /\ is_cancelled(ws, Head(ws.encodeQueue)) \/ ws.suspended
    /\ ws' = [ws EXCEPT !.encodeQueue = Tail(@)]
    /\ UNCHANGED <<encoding, wire, ackThread, idle>>

EncodeStart ==
    /\ encoding = 0 /\ ws.encodeQueue # <<>>
    /\ LET s == Head(ws.encodeQueue)
       IN  /\ s # ENCODE_ENDED
           /\ ~is_cancelled(ws, s) /\ ~ws.suspended
           /\ encoding' = s
           /\ ws' = [ws EXCEPT !.encodeQueue = Tail(@), !.encodingPending = @ \cup {s}]
    /\ UNCHANGED <<wire, ackThread, idle>>

\* mutant: only a frame that was sent is taken off encoding_pending
EncodeDropKeepsPending ==
    /\ encoding # 0
    /\ encoding' = 0
    /\ UNCHANGED <<ws, wire, ackThread, idle>>

\* no data from the encoder, or cancelled while it was working
EncodeDrop ==
    /\ encoding # 0
    /\ ws' = [ws EXCEPT !.encodingPending = @ \ {encoding}]
    /\ encoding' = 0
    /\ UNCHANGED <<wire, ackThread, idle>>

\* the draw packet is queued; with mmap even for a cancelled frame, because
\* the client must move the mmap pointer past it
EncodeDone ==
    /\ encoding # 0
    /\ ~Mmap => ~is_cancelled(ws, encoding) /\ ~ws.suspended
    /\ ws' = [ws EXCEPT !.encodingPending = @ \ {encoding},
                        !.ackPending = @ \cup {ws.packetSequence},
                        !.packetSequence = @ + 1]
    /\ wire' = wire \cup {ws.packetSequence}
    /\ encoding' = 0
    /\ UNCHANGED <<ackThread, idle>>

\* the end of the queue: encode_ended drops the encoders
EncodeEnded ==
    /\ encoding = 0 /\ ws.encodeQueue # <<>>
    /\ Head(ws.encodeQueue) = ENCODE_ENDED
    /\ ws' = [ws EXCEPT !.encodeQueue = Tail(@), !.ended = TRUE]
    /\ UNCHANGED <<encoding, wire, ackThread, idle>>

(* Network parse thread.                                                    *)

\* damage_packet_acked up to where it looks at the delayed region
AckBegin(p, decodeError) ==
    /\ p \in wire /\ ackThread = "idle"
    /\ wire' = wire \ {p}
    /\ IF ws.closed THEN UNCHANGED <<ws, ackThread>>  \* no longer in window_sources
       ELSE /\ ws' = LET w == IF decodeError /\ "decode" \notin ws.armed
                              THEN Arm(ws, "decode") ELSE ws
                     IN  [w EXCEPT !.ackPending = @ \ {p}]
            /\ ackThread' = IF p \in ws.ackPending THEN ws.delayed ELSE "idle"
    /\ UNCHANGED <<encoding, idle>>

\* ... and what it does about it
AckEnd ==
    /\ ackThread # "idle"
    /\ ackThread = "expired" => idle < MaxIdle
    /\ ws' = IF ackThread = "none" THEN [ws EXCEPT !.softExpired = 0] ELSE ws
    /\ idle' = IF ackThread = "expired" THEN idle + 1 ELSE idle
    /\ ackThread' = "idle"
    /\ UNCHANGED <<encoding, wire>>

\* the client never acks the packet
AckLost(p) ==
    /\ p \in wire
    /\ wire' = wire \ {p}
    /\ UNCHANGED <<ws, encoding, ackThread, idle>>

\* get_client_backlog forgets an ack that is missing for a minute
ExpireMissingAck(p) ==
    /\ p \in ws.ackPending /\ p \notin wire
    /\ ws' = [ws EXCEPT !.ackPending = @ \ {p}]
    /\ UNCHANGED <<encoding, wire, ackThread, idle>>

Packets == 1..MaxSequence

Next ==
    \/ Damage \/ Refresh \/ Suspend \/ Resume \/ GoIdle \/ Unmap \/ Map \/ Cleanup
    \/ ExpireTimer \/ SoftTimer \/ TimeoutTimer \/ MaySendTimer
    \/ DecodeErrorTimer \/ IdleMaySend \/ UICleanup
    \/ EncodeSkip \/ EncodeStart \/ EncodeDrop \/ EncodeDone \/ EncodeEnded
    \/ \E p \in Packets, e \in BOOLEAN : AckBegin(p, e)
    \/ AckEnd
    \/ \E p \in Packets : AckLost(p) \/ ExpireMissingAck(p)

Spec == Init /\ [][Next]_vars

\* The main loop runs every timer that stays due.  Nothing is assumed of the
\* client or of the encode thread.
FairSpec ==
    Spec /\ WF_vars(ExpireTimer) /\ WF_vars(SoftTimer) /\ WF_vars(TimeoutTimer)

----------------------------------------------------------------------------
(* Properties.                                                              *)

Statuses == {"none", "fresh", "expired"}

WindowState ==
    [delayed : Statuses, timeoutOurs : BOOLEAN, softExpired : Nat,
     armed : SUBSET Timers, sources : [Timers -> Nat],
     suspended : BOOLEAN, locked : BOOLEAN,
     sequence : Nat, cancelled : Nat, encodeQueue : Seq(Nat),
     encodingPending : SUBSET Nat, packetSequence : Nat,
     ackPending : SUBSET Nat, turn : {0, 1},
     closed : BOOLEAN, ended : BOOLEAN, gone : BOOLEAN]

TypeOK ==
    /\ ws \in WindowState
    /\ encoding \in Nat
    /\ wire \subseteq Nat
    /\ ackThread \in Statuses \cup {"idle"}
    /\ idle \in Nat

\* A delayed region always has a timer of its own that ends in it being sent,
\* whether or not the client ever acks anything: expire_delayed_region never
\* leaves a region to the acks alone.
RegionHasTimer ==
    ws.delayed # "none" =>
        \/ ws.sources["expire"] > 0
        \/ ws.sources["soft"] > 0
        \/ ws.sources["timeout"] > 0 /\ ws.timeoutOurs

\* The soft, timeout and may-send timers are never started twice: no source is
\* left in the main loop that cancel_damage cannot remove.
NoStrayTimer ==
    \A t \in {"soft", "timeout", "maysend"} : ws.sources[t] = IF t \in ws.armed THEN 1 ELSE 0

\* The soft expire count, which lengthens the soft delay of each further region,
\* stays within the limit the client asked for.
SoftExpiredBounded == ws.softExpired <= MaxSoftExpired

\* encoding_pending, which holds back the window's updates, only ever has the
\* frame that the encode thread is busy with: cancelled, suspended and failed
\* frames leave no entry behind.
EncodingPendingIsBusy == ws.encodingPending \subseteq {encoding}

\* Once ui_cleanup has run, no frame of the window is left for the encode
\* thread, which would need the statistics and encoders that are gone.
GoneMeansDrained ==
    ws.gone => ws.encodeQueue = <<>> /\ encoding = 0 /\ ws.delayed = "none"

\* A delayed region is sent, or dropped by cancel_damage, in the end (`turn`
\* flips then), even if no ack ever arrives and the encode thread is stuck.
RegionIsSent ==
    \A b \in {0, 1} :
        (ws.delayed # "none" /\ ws.turn = b) ~> (ws.delayed = "none" \/ ws.turn # b)

\* do_damage reports a bug when it merges into a region that has neither an
\* expire timer nor a soft timer, with no soft expired region to wait for.
MergeFindsTimer ==
    ws.delayed # "none" =>
        "expire" \in ws.armed \/ "soft" \in ws.armed \/ ws.softExpired > 0
=============================================================================
