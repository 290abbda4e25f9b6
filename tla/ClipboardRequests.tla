------------------------- MODULE ClipboardRequests --------------------------
(***************************************************************************)
(* Requests of local applications for the peer's clipboard, on an X11      *)
(* server: xpra/x11/selection/proxy.py (an application asks for the        *)
(* selection that we own), xpra/clipboard/timeout.py (the request sent to  *)
(* the peer, its timer and its reply), xpra/clipboard/core.py (tokens) and *)
(* xpra/server/subsystem/clipboard.py (which client is the peer).          *)
(*                                                                         *)
(* Packets of the peer are handled in two steps: the network thread checks *)
(* that they come from the peer, and the main loop processes them later.   *)
(* What a peer sends is ordered, so its state is taken as of the packets   *)
(* that have arrived: a reply carries the copy of the last token before it *)
(* (X11Offer is about the reads on that side).                             *)
(***************************************************************************)
EXTENDS Integers, Sequences, FiniteSets

CONSTANTS
    Apps,        \* requests made by applications, one each
    Clients,     \* clients that can be the clipboard peer
    NoClient,
    Targets,     \* targets other than TARGETS
    Offered,     \* those that the peers offer
    Translated,  \* TRANSLATED_TARGETS: what may stand for a target
    NoTarget,
    Tokens,      \* the shapes of the tokens that the peers send (see TokenShapes)
    MaxIds,      \* bound: clipboard requests sent
    MaxCopies,   \* bound: copies made by the clients
    MaxInbox,    \* bound: packets between the network thread and the main loop
    MaxTakes,    \* bound: changes of the clipboard peer
    MaxResets    \* bound: calls to client_reset

\* with a list of targets or not, with the data of a target or not, to be claimed or not,
\* for a client that waits for its data or not
TokenShapes == [targets : SUBSET Offered, data : SUBSET Offered, claim : BOOLEAN, sync : BOOLEAN]

ASSUME RequestsAssumption ==
    /\ NoClient \notin Clients /\ NoTarget \notin Targets /\ "TARGETS" \notin Targets
    /\ NoTarget # "TARGETS" /\ "ignored" \notin Targets /\ NoTarget # "ignored"
    /\ Tokens \subseteq TokenShapes
    /\ Offered \subseteq Targets /\ Translated \in [Targets -> SUBSET Targets]
    /\ MaxIds \in Nat /\ MaxCopies \in Nat /\ MaxInbox \in Nat
    /\ MaxTakes \in Nat /\ MaxResets \in Nat

AllTargets == Targets \cup {"TARGETS"}

\* for one whose request was ignored: its window is one of BLOCKLISTED_CLIPBOARD_CLIENTS
Ignored == "ignored"
Ids == 1..MaxIds

\* a copy, by the client that made it and its number; the first is the empty clipboard
Copy(c, n) == [client |-> c, copy |-> n]
NoCopy == Copy(NoClient, 0)

VARIABLES
    enabled,     \* proxy._enabled
    owned,       \* proxy.owned
    haveToken,   \* proxy._have_token
    targets,     \* proxy.targets
    data,        \* the targets in proxy.target_data
    source,      \* the copy that they are of
    waiting,     \* proxy.remote_requests
    outstanding, \* _clipboard_outstanding_requests: the target of each request id
    timers,      \* ids whose timer is armed
    nextId,      \* _clipboard_request_counter
    client,      \* _clipboard_client
    accepts,     \* its clipboard_enabled
    peer,        \* requests that a client has yet to answer: ids, by client
    inbox,       \* packets for process_clipboard_packet
    copies,      \* the number of the last copy that each client made
    token,       \* the copy whose token was processed last
    asked,       \* the target that each application asked for, or Ignored
    since,       \* while it waits: the value of token when it asked
    answers,     \* what it was given
    resets,      \* calls to client_reset
    takes        \* changes of the peer

proxy == <<enabled, owned, haveToken, targets, data, source>>
helper == <<outstanding, timers, nextId>>
apps == <<waiting, asked, since, answers>>
network == <<client, accepts, peer, inbox, copies>>
vars == <<proxy, helper, apps, network, token, resets, takes>>

----------------------------------------------------------------------------
Init ==
    /\ enabled = FALSE /\ owned \in BOOLEAN /\ haveToken = FALSE
    /\ targets = {} /\ data = {} /\ source = NoCopy
    /\ waiting = [t \in AllTargets |-> <<>>]
    /\ outstanding = [i \in Ids |-> NoTarget]
    /\ timers = {}
    /\ nextId = 1
    /\ client = NoClient /\ accepts = FALSE
    /\ peer = [c \in Clients |-> {}]
    /\ inbox = <<>>
    /\ copies = [c \in Clients |-> 0]
    /\ token = NoCopy
    /\ asked = [a \in Apps |-> NoTarget]
    /\ since = [a \in Apps |-> NoCopy]
    /\ answers = [a \in Apps |-> <<>>]
    /\ resets = 0 /\ takes = 0

(* The proxy.                                                               *)

\* set_selection_response; stale, if the client had announced a newer copy than this one
\* before the application asked
Answer(target, dtype, copy, before) ==
    [target |-> target, dtype |-> dtype,
     stale |-> copy.client = before.client /\ copy.copy < before.copy]
NoData == Answer(NoTarget, NoTarget, NoCopy, NoCopy)

\* the dtype that got_contents gives to the i-th of the pending requests: the loop
\* assigns the variable that it tests, so the first change stays for those that follow
DtypeOf(pending, i, target) ==
    LET other == {j \in 1..i : asked[pending[j]] # target} IN
    IF other = {} THEN target
    ELSE asked[pending[CHOOSE j \in other : \A k \in other : j <= k]]

\* the targets of S that an application waits for
WaitsFor(a, S) == {t \in S : \E i \in 1..Len(waiting[t]) : waiting[t][i] = a}

\* mutant: looks the pending requests up and leaves them there
GotContentsKeeps(S, empty, copy) ==
    /\ waiting' = waiting
    /\ answers' = [a \in Apps |->
            IF WaitsFor(a, S) = {} THEN answers[a] ELSE Append(answers[a], NoData)]
    /\ since' = since

\* got_contents for each of several targets: empty is no data at all
GotContents(S, empty, copy) ==
    /\ waiting' = [t \in AllTargets |-> IF t \in S THEN <<>> ELSE waiting[t]]
    /\ answers' = [a \in Apps |->
            IF WaitsFor(a, S) = {} THEN answers[a]
            ELSE LET t == CHOOSE t \in WaitsFor(a, S) : TRUE
                     i == CHOOSE i \in 1..Len(waiting[t]) : waiting[t][i] = a
                 IN Append(answers[a], IF empty THEN NoData
                                       ELSE Answer(t, DtypeOf(waiting[t], i, t), copy, since[a]))]
    /\ since' = [a \in Apps |-> IF WaitsFor(a, S) = {} THEN since[a] ELSE NoCopy]

\* _send_clipboard_request_handler, and send_clipboard_packet, which drops the packet
\* when there is no peer
SendRequest(target) ==
    /\ nextId <= MaxIds
    /\ nextId' = nextId + 1
    /\ outstanding' = [outstanding EXCEPT ![nextId] = target]
    /\ timers' = timers \cup {nextId}
    /\ peer' = IF client \in Clients THEN [peer EXCEPT ![client] = @ \cup {nextId}] ELSE peer

Ask(a, target, response) ==
    /\ asked' = [asked EXCEPT ![a] = target]
    /\ since' = IF response = <<>> THEN [since EXCEPT ![a] = token] ELSE since
    /\ answers' = [answers EXCEPT ![a] = response]

\* the target asked of the peer: one that can be translated, if ours is not offered
RequestTargets(target) ==
    LET can_translate == Translated[target] \cap targets IN
    IF target # "TARGETS" /\ targets # {} /\ target \notin targets /\ can_translate # {}
    THEN can_translate ELSE {target}

Wait(a, target, req) ==
    /\ IF waiting[req] = <<>> THEN SendRequest(req) ELSE UNCHANGED <<helper, peer>>
    /\ waiting' = [waiting EXCEPT ![req] = Append(@, a)]
    /\ Ask(a, target, <<>>)

\* do_selection_request_event, with a window and a property.  A target that
\* must_discard or must_discard_extra rejects is answered at once, like the first case.
\* Any application may be one that is blocklisted, which is told nothing.
SelectionRequest(a, target) ==
    /\ asked[a] = NoTarget
    /\ \/ /\ ~enabled \/ ~owned
          /\ Ask(a, target, <<NoData>>)
          /\ UNCHANGED <<waiting, helper, peer>>
       \/ /\ enabled
          /\ asked' = [asked EXCEPT ![a] = Ignored]
          /\ UNCHANGED <<since, answers, waiting, helper, peer>>
       \/ /\ enabled /\ owned /\ target = "TARGETS" /\ targets # {}
          /\ Ask(a, target, <<Answer(target, target, token, token)>>)
          /\ UNCHANGED <<waiting, helper, peer>>
       \/ /\ enabled /\ owned /\ target = "TARGETS" /\ targets = {}
          /\ Wait(a, target, target)
       \/ \E req \in RequestTargets(target) :
          /\ enabled /\ owned /\ target # "TARGETS"
          /\ IF req \in data /\ haveToken
             THEN /\ Ask(a, target, <<Answer(req, req, source, token)>>)
                  /\ UNCHANGED <<waiting, helper, peer>>
             ELSE Wait(a, target, req)
    /\ UNCHANGED <<proxy, client, accepts, inbox, copies, token, resets, takes>>

\* a local application takes the selection: do_selection_clear_event and
\* do_selection_notify_event, which update owned even when the proxy is disabled
LocalCopy ==
    /\ owned
    /\ owned' = FALSE
    /\ IF enabled THEN targets' = {} /\ data' = {} /\ haveToken' = FALSE
       ELSE UNCHANGED <<targets, data, haveToken>>
    /\ UNCHANGED <<enabled, source, helper, apps, network, token, resets, takes>>

(* The peer.                                                                *)

\* "enable" has its argument in the place of the claim
NoToken == [targets |-> {}, data |-> {}, claim |-> FALSE, sync |-> FALSE]
Packet(type, shape, i, copy) == [type |-> type, shape |-> shape, id |-> i, copy |-> copy]

Arrive(packet) ==
    /\ Len(inbox) < MaxInbox
    /\ inbox' = IF accepts THEN Append(inbox, packet) ELSE inbox

\* the user copies something at the peer, which sends a token
PeerToken(shape) ==
    /\ client \in Clients
    /\ \E n \in 1..MaxCopies :
        /\ \A c \in Clients : copies[c] < n
        /\ \E c \in Clients : copies[c] = n - 1
        /\ copies' = [copies EXCEPT ![client] = n]
    /\ Arrive(Packet("token", shape, 0, Copy(client, copies'[client])))
    /\ UNCHANGED <<proxy, helper, apps, client, accepts, peer, token, resets, takes>>

\* it answers a request, with contents or without
PeerReply(i, empty) ==
    /\ client \in Clients /\ i \in peer[client]
    /\ peer' = [peer EXCEPT ![client] = @ \ {i}]
    /\ Arrive(Packet(IF empty THEN "contents-none" ELSE "contents", NoToken, i,
                     Copy(client, copies[client])))
    /\ UNCHANGED <<proxy, helper, apps, client, accepts, copies, token, resets, takes>>

\* clipboard-enable-selections
PeerEnable(on) ==
    /\ client \in Clients
    /\ Arrive(Packet("enable", [NoToken EXCEPT !.claim = on], 0, NoCopy))
    /\ UNCHANGED <<proxy, helper, apps, client, accepts, peer, copies, token, resets, takes>>

\* contents that are too big are not sent, and no reply either (proxy_got_contents)
PeerNoReply(i) ==
    /\ client \in Clients /\ i \in peer[client]
    /\ peer' = [peer EXCEPT ![client] = @ \ {i}]
    /\ UNCHANGED <<proxy, helper, apps, client, accepts, inbox, copies, token, resets, takes>>

(* Packets, in the main loop.                                               *)

\* the text target of got_token's target data, for a synchronous client
TextTargets(packet) ==
    IF packet.shape.sync /\ packet.shape.claim THEN packet.shape.data ELSE {}

\* mutant: keeps the data of the token before if this one has none
ProcessTokenKeeps ==
    /\ inbox # <<>> /\ Head(inbox).type = "token"
    /\ inbox' = Tail(inbox)
    /\ LET packet == Head(inbox)
           offer == packet.shape.targets \cup packet.shape.data
       IN IF enabled
          THEN /\ token' = packet.copy
               /\ targets' = offer /\ (IF packet.shape.data = {} THEN UNCHANGED <<data, source>>
                                      ELSE data' = packet.shape.data /\ source' = packet.copy)
               /\ haveToken' = (haveToken \/ packet.shape.claim)
               /\ owned' = (owned \/ packet.shape.claim)
               /\ GotContents((IF offer # {} /\ packet.shape.claim THEN {"TARGETS"} ELSE {})
                                \cup TextTargets(packet), FALSE, packet.copy)
          ELSE UNCHANGED <<token, targets, data, source, haveToken, owned, waiting, since, answers>>
    /\ UNCHANGED <<enabled, helper, asked, client, accepts, peer, copies, resets, takes>>

\* _process_clipboard_token and got_token
ProcessToken ==
    /\ inbox # <<>> /\ Head(inbox).type = "token"
    /\ inbox' = Tail(inbox)
    /\ LET packet == Head(inbox)
           offer == packet.shape.targets \cup packet.shape.data
       IN IF enabled
          THEN /\ token' = packet.copy
               /\ targets' = offer /\ data' = packet.shape.data /\ source' = packet.copy
               /\ haveToken' = (haveToken \/ packet.shape.claim)
               /\ owned' = (owned \/ packet.shape.claim)
               /\ GotContents((IF offer # {} /\ packet.shape.claim THEN {"TARGETS"} ELSE {})
                                \cup TextTargets(packet), FALSE, packet.copy)
          ELSE UNCHANGED <<token, targets, data, source, haveToken, owned, waiting, since, answers>>
    /\ UNCHANGED <<enabled, helper, asked, client, accepts, peer, copies, resets, takes>>

\* _process_clipboard_contents(_none) and _clipboard_got_contents: a reply to a request
\* that is not found is too late, or a duplicate
ProcessContents ==
    /\ inbox # <<>> /\ Head(inbox).type \in {"contents", "contents-none"}
    /\ inbox' = Tail(inbox)
    /\ LET packet == Head(inbox)
           target == outstanding[packet.id]
           empty == packet.type = "contents-none"
       IN IF target # NoTarget
          THEN /\ outstanding' = [outstanding EXCEPT ![packet.id] = NoTarget]
               /\ timers' = timers \ {packet.id}
               /\ targets' = IF target = "TARGETS" /\ ~empty THEN Offered ELSE targets
               /\ GotContents({target}, empty, packet.copy)
          ELSE UNCHANGED <<outstanding, timers, targets, waiting, since, answers>>
    /\ UNCHANGED <<enabled, owned, haveToken, data, source, nextId, asked,
                   client, accepts, peer, copies, token, resets, takes>>

\* _process_clipboard_enable_selections
ProcessEnable ==
    /\ inbox # <<>> /\ Head(inbox).type = "enable"
    /\ inbox' = Tail(inbox)
    /\ enabled' = Head(inbox).shape.claim
    /\ UNCHANGED <<owned, haveToken, targets, data, source, helper, apps, client, accepts, peer,
                   copies, token, resets, takes>>

\* mutant: forgets the applications
TimeoutRequestOnly(i) ==
    /\ i \in timers
    /\ timers' = timers \ {i}
    /\ outstanding' = [outstanding EXCEPT ![i] = NoTarget]
    /\ UNCHANGED <<proxy, nextId, apps, network, token, resets, takes>>

\* timeout_request
TimeoutRequest(i) ==
    /\ i \in timers
    /\ timers' = timers \ {i}
    /\ outstanding' = [outstanding EXCEPT ![i] = NoTarget]
    /\ IF outstanding[i] # NoTarget THEN GotContents({outstanding[i]}, TRUE, NoCopy)
       ELSE UNCHANGED <<waiting, since, answers>>
    /\ UNCHANGED <<proxy, nextId, asked, network, token, resets, takes>>

(* Clients.                                                                 *)

\* client_reset empties the table before it looks the requests up in it, so that
\* _clipboard_got_contents finds none of them and their timers stay
ClientReset ==
    /\ resets < MaxResets
    /\ resets' = resets + 1
    /\ outstanding' = [i \in Ids |-> NoTarget]
    /\ UNCHANGED <<timers, nextId, apps>>

\* cleanup_protocol, for the clipboard peer
PeerGone ==
    /\ client \in Clients
    /\ client' = NoClient /\ accepts' = FALSE
    /\ peer' = [peer EXCEPT ![client] = {}]
    /\ ClientReset
    /\ UNCHANGED <<proxy, inbox, copies, token, takes>>

\* last_client_exited: a call that is queued by the last cleanup_protocol, and may run
\* when another client has come
LastClientExited ==
    /\ resets > 0
    /\ ClientReset
    /\ UNCHANGED <<proxy, network, token, takes>>

\* set_clipboard_source, for a new client (parse_hello_ui_clipboard: none is the peer, or
\* it is closed) or for the new session driver (set_session_driver); send_tokens sends none
TakeClipboard(c, on) ==
    /\ takes < MaxTakes
    /\ takes' = takes + 1
    /\ c # client
    /\ client' = c /\ accepts' = TRUE
    /\ enabled' = on
    /\ haveToken' = IF on THEN FALSE ELSE haveToken
    /\ UNCHANGED <<owned, targets, data, source, helper, apps, peer, inbox, copies, token, resets>>

\* set_clipboard_enabled_status, from the peer: enabling it again enables no selection
ClipboardStatus(on) ==
    /\ client \in Clients /\ accepts # on
    /\ accepts' = on
    /\ enabled' = (enabled /\ on)
    /\ UNCHANGED <<owned, haveToken, targets, data, source, helper, apps, client, peer, inbox,
                   copies, token, resets, takes>>

Next ==
    \/ \E a \in Apps, t \in AllTargets : SelectionRequest(a, t)
    \/ LocalCopy
    \/ \E shape \in Tokens : PeerToken(shape)
    \/ \E i \in Ids, empty \in BOOLEAN : PeerReply(i, empty)
    \/ \E i \in Ids : PeerNoReply(i)
    \/ \E on \in BOOLEAN : PeerEnable(on)
    \/ ProcessToken \/ ProcessContents \/ ProcessEnable
    \/ \E i \in Ids : TimeoutRequest(i)
    \/ PeerGone \/ LastClientExited
    \/ \E c \in Clients, on \in BOOLEAN : TakeClipboard(c, on)
    \/ \E on \in BOOLEAN : ClipboardStatus(on)

Spec == Init /\ [][Next]_vars

----------------------------------------------------------------------------
(* Properties.                                                              *)

Copies == [client : Clients \cup {NoClient}, copy : 0..MaxCopies]
Packets == [type : {"token", "contents", "contents-none", "enable"}, shape : TokenShapes,
            id : 0..MaxIds, copy : Copies]
AskedTargets == AllTargets \cup {NoTarget, Ignored}
Answers == [target : AllTargets \cup {NoTarget}, dtype : AskedTargets,
            stale : BOOLEAN]

\* The variables have their types.
TypeOK ==
    /\ enabled \in BOOLEAN /\ owned \in BOOLEAN /\ haveToken \in BOOLEAN
    /\ targets \subseteq Targets /\ data \subseteq Targets /\ source \in Copies
    /\ waiting \in [AllTargets -> Seq(Apps)]
    /\ outstanding \in [Ids -> AllTargets \cup {NoTarget}]
    /\ timers \subseteq Ids
    /\ nextId \in 1..MaxIds + 1
    /\ client \in Clients \cup {NoClient} /\ accepts \in BOOLEAN
    /\ peer \in [Clients -> SUBSET Ids]
    /\ inbox \in Seq(Packets)
    /\ copies \in [Clients -> 0..MaxCopies]
    /\ token \in Copies
    /\ asked \in [Apps -> AskedTargets]
    /\ since \in [Apps -> Copies]
    /\ answers \in [Apps -> Seq(Answers)]
    /\ resets \in 0..MaxResets /\ takes \in 0..MaxTakes

IsWaiting(a) == \E t \in AllTargets : \E i \in 1..Len(waiting[t]) : waiting[t][i] = a

\* An application that has asked is either waiting or has been answered, once: a
\* reply, its duplicate, the timeout and a token may all reach for the same request.
\* But one that is blocklisted is ignored: it does not wait, and gets no answer at all.
AnsweredOnce ==
    \A a \in Apps : asked[a] # NoTarget =>
        IF IsWaiting(a) THEN asked[a] # Ignored /\ answers[a] = <<>>
        ELSE Len(answers[a]) = IF asked[a] = Ignored THEN 0 ELSE 1

\* "already waiting for ..." must be true: while an application waits for a target, a
\* request for it is outstanding and its timer armed, whatever the peer does, whoever the
\* peer is.  Only client_reset may break this (see ResetTimesOut).
WaitersHaveTimer ==
    resets = 0 => \A t \in AllTargets : waiting[t] # <<>> =>
        \E i \in timers : outstanding[i] = t

\* What an application is given is no older than the token that was the last one when it
\* asked, if both are of the same client: though it may be waiting for a request sent
\* long before, and replies come late.
FreshAnswer == \A a \in Apps : \A i \in 1..Len(answers[a]) : ~answers[a][i].stale

\* client_reset: "timeout all pending requests" (xpra/clipboard/timeout.py:104), so that
\* nobody waits without a request.
ResetTimesOut ==
    \A t \in AllTargets : waiting[t] # <<>> => \E i \in Ids : outstanding[i] = t

\* got_contents: "give them the response they are waiting for"
\* (xpra/x11/selection/proxy.py:365): one that asked for the very target that the peer
\* was asked for gets its type.
TypeAsAsked ==
    \A a \in Apps : \A i \in 1..Len(answers[a]) :
        answers[a][i].target = asked[a] => answers[a][i].dtype \in {asked[a], NoTarget}
=============================================================================
