---------------------------- MODULE CatlinkBridge ----------------------------
(***************************************************************************)
(* The clipboard of a GTK client on X11 whose Catlink bridge is connected: *)
(* xpra/clipboard/catlink_bridge.py (offers, the native provider, requests *)
(* to the peer and to the broker), xpra/gtk/clipboard.py (who owns the     *)
(* selection) and the token handler of xpra/clipboard/core.py.             *)
(*                                                                         *)
(* Everything runs in the main loop but the thread that reads from the     *)
(* broker and those that offer files to it.  A provider's callback, and a  *)
(* wait for the targets of another application, run the main loop until    *)
(* they are answered: the calls that wait are a stack, and only the one on *)
(* top of it may return.                                                   *)
(*                                                                         *)
(* Copies are numbered, those of the peer and those of local applications  *)
(* apart.  The X server, GTK, the peer and the broker are external.        *)
(***************************************************************************)
EXTENDS Integers, Sequences, FiniteSets

CONSTANTS
    Shapes,      \* the tokens of the peer: the targets and the one that comes with its data
    MaxCopies,   \* bound: copies made at the peer
    MaxPhases,   \* bound: further tokens for a copy that was announced
    MaxTakes,    \* bound: copies made by local applications
    MaxPastes,   \* bound: pastes of local applications
    MaxInputs    \* bound: all of these, and the loss of the broker, together

\* image/*, text/uri-list, and text; a text that lists files is another eager data
Managed == {"image", "uri"}
Targets == Managed \cup {"text"}
Eager == {"none", "image", "uri", "text", "files"}

ASSUME BridgeAssumption ==
    /\ Shapes \subseteq [targets : SUBSET Targets, eager : Eager]
    /\ MaxCopies \in Nat /\ MaxPhases \in Nat /\ MaxTakes \in Nat
    /\ MaxPastes \in Nat /\ MaxInputs \in Nat

\* owners of the selection: a local application by the number of its copy, or
Nobody == 0
Us == -1

\* contents: the number of the copy that they are of, or
Nothing == -1      \* not there yet
Unavailable == 0   \* known to be missing

VARIABLES
    \* the X server and GTK
    owner,       \* owner of CLIPBOARD
    takes,       \* copies made by local applications
    raced,       \* one of them was made while we took the selection, the last time
    events,      \* events that GTK has not handled
    serial,      \* times that we took the selection: an older clear event is ignored
    provider,    \* what GTK serves the selection from
    \* CatlinkClipboardBridge
    sock,        \* connected to the broker
    generation,
    active,      \* _active
    targets,     \* _targets
    source,      \* _source_offer_id
    listed,      \* _offer_text is a list of files
    claimed,     \* _claimed_proxy, _claimed_generation and _claimed_targets
    nativeOwner, \* _native_owner is there
    nonce,       \* _native_clear_nonce
    clears,      \* idle callbacks that _schedule_native_clear has queued
    requested,   \* _requested, of this generation
    inline,      \* _inline and _unavailable for the text of this generation
    responses,   \* _responses
    batches,     \* _uri_file_offers: generations
    jobs,        \* threads in _send_uri_files, and those that it has raised in
    reader,      \* a response that the reader thread is about to store
    \* GTKClipboardProxy
    localOwner,  \* _catlink_local_owner
    textOwner,   \* _catlink_text_owner is there
    embargo,     \* _owner_change_embargo was set, and BLOCK_DELAY may not have passed
    stack,       \* calls that run the main loop
    pastes,      \* calls of get_data
    stale,       \* one of them has given something older than the offer it was for
    heard,       \* copies of local applications that the peer was told of
    \* the peer and the broker
    copy,        \* copies made at the peer
    phases,      \* further tokens
    requests,    \* requests for clipboard contents that nothing has answered
    store,       \* what the broker has been sent of this generation
    wanted       \* how many data requests the broker has not answered

xserver == <<owner, takes, raced, events, serial, provider>>
offer == <<generation, active, targets, source, listed, claimed>>
fetched == <<requested, inline, responses, store, wanted>>
threads == <<batches, jobs, reader>>
retiring == <<nonce, clears>>
proxy == <<localOwner, textOwner, embargo>>
network == <<copy, phases>>
vars == <<xserver, sock, offer, nativeOwner, retiring, fetched, threads, proxy,
          stack, pastes, stale, heard, network, requests>>

NoProvider == [type |-> "none", generation |-> 0, copy |-> 0, targets |-> {}, aliased |-> FALSE]
TextProvider == [NoProvider EXCEPT !.type = "text"]
NotClaimed == [on |-> FALSE, generation |-> 0, targets |-> {}]
NoStore == [t \in Managed |-> Nothing]
NoneWanted == [t \in Managed |-> 0]
NoResponse == [generation |-> 0, target |-> "none", copy |-> Nothing]

Init ==
    /\ owner = Nobody /\ takes = 0 /\ raced = FALSE /\ events = <<>> /\ serial = 0
    /\ provider = NoProvider
    /\ sock = TRUE /\ generation = 0 /\ active = FALSE /\ targets = {} /\ source = 0
    /\ listed = FALSE /\ claimed = NotClaimed /\ nativeOwner = FALSE /\ nonce = 0 /\ clears = {}
    /\ requested = {} /\ inline = Nothing /\ responses = {} /\ batches = {} /\ jobs = {}
    /\ reader = NoResponse
    /\ localOwner = FALSE /\ textOwner = FALSE /\ embargo = FALSE
    /\ stack = <<>> /\ pastes = 0 /\ stale = FALSE /\ heard = {}
    /\ copy = 0 /\ phases = 0 /\ requests = {}
    /\ store = NoStore /\ wanted = NoneWanted

\* one more copy, token, paste or loss
Input == copy + phases + takes + pastes + (IF sock THEN 0 ELSE 1) < MaxInputs

----------------------------------------------------------------------------
(* The X server: who takes the selection, and the events of it.             *)

Change == [type |-> "change", serial |-> 0]
Clear(n) == [type |-> "clear", serial |-> n]

\* an application takes the selection
LocalCopy ==
    /\ Input /\ takes < MaxTakes
    /\ takes' = takes + 1 /\ owner' = takes + 1
    /\ events' = events \o (IF owner = Us THEN <<Clear(serial), Change>> ELSE <<Change>>)
    /\ UNCHANGED <<raced, serial, provider, sock, offer, nativeOwner, retiring, fetched, threads,
                   proxy, stack, pastes, stale, heard, network, requests>>

\* we take it for provider p: an application may take it just before, so that GTK fails,
\* or just after
Races == {"none", "before", "after"}
TakeSelection(p, race) ==
    /\ race # "none" => takes < MaxTakes
    /\ takes' = IF race = "none" THEN takes ELSE takes + 1
    /\ owner' = IF race = "none" THEN Us ELSE takes + 1
    /\ raced' = (race # "none")
    /\ serial' = IF race = "before" THEN serial ELSE serial + 1
    /\ provider' = IF race = "before" THEN provider ELSE p
    /\ events' = events \o
        CASE race = "none" -> <<Change>>
          [] race = "before" -> IF owner = Us THEN <<Clear(serial), Change>> ELSE <<Change>>
          [] race = "after" -> <<Change, Clear(serial + 1), Change>>

----------------------------------------------------------------------------
(* Retired offers.                                                          *)

\* mutant: for the next generation
StaleClearNext == [generation |-> generation + 1, nonce |-> nonce]

\* a callback for the offer that is being retired
StaleClear == [generation |-> generation, nonce |-> nonce]

\* invalidate_native, but for what it does to the proxy
Retires == sock /\ (active \/ claimed.on)
InvalidateNative(clear) ==
    IF Retires
    THEN /\ generation' = generation + 1
         /\ active' = FALSE /\ targets' = {} /\ source' = 0 /\ claimed' = NotClaimed
         /\ requested' = {} /\ responses' = {} /\ inline' = Nothing
         /\ store' = NoStore /\ wanted' = NoneWanted
         /\ clears' = IF clear THEN clears \cup {StaleClear}
                      ELSE clears
         /\ UNCHANGED listed
    ELSE UNCHANGED <<offer, fetched, clears>>

\* mutant: only a claim that is current counts
OwnsNativeNever == FALSE

\* owns_native
OwnsNative == nativeOwner /\ owner = Us

\* clear_if_stale
ClearIfStale(c) ==
    /\ c \in clears
    /\ clears' = clears \ {c}
    /\ IF generation = c.generation + 1 /\ ~active /\ nonce = c.nonce /\ OwnsNative
       THEN /\ owner' = Nobody /\ events' = Append(events, Change)
            /\ provider' = NoProvider /\ nativeOwner' = FALSE
       ELSE UNCHANGED <<owner, events, provider, nativeOwner>>
    /\ UNCHANGED <<takes, raced, serial, sock, offer, nonce, fetched, threads, proxy, stack, pastes, stale,
                   heard, network, requests>>

\* clear_data, when another application has taken the selection
ClearData ==
    /\ events # <<>> /\ Head(events).type = "clear"
    /\ events' = Tail(events)
    /\ IF Head(events).serial # serial \/ provider.type # "native"
       THEN /\ provider' = IF Head(events).serial = serial THEN NoProvider ELSE provider
            /\ UNCHANGED <<nativeOwner, offer, fetched, clears, localOwner>>
       ELSE /\ provider' = NoProvider /\ nativeOwner' = FALSE
            /\ IF claimed.on /\ claimed.generation = provider.generation
               THEN InvalidateNative(FALSE) /\ localOwner' = TRUE
               ELSE UNCHANGED <<offer, fetched, clears, localOwner>>
    /\ UNCHANGED <<owner, takes, raced, serial, sock, nonce, threads, textOwner, embargo, stack,
                   pastes, stale, heard, network, requests>>

----------------------------------------------------------------------------
(* Local copies.                                                            *)

IsClaimed == active /\ claimed.on /\ claimed.generation = generation

\* mutant: whoever is the owner
EmbargoedAnyway(local) == embargo

\* the embargo is for what follows a token, unless an application has taken over
Embargoed(local) == ~local /\ embargo

\* do_owner_changed; schedule_emit_token waits for the targets of whoever is the owner
OwnerChanged ==
    /\ events # <<>> /\ Head(events).type = "change"
    /\ events' = Tail(events)
    /\ IF \/ IsClaimed \/ (sock /\ OwnsNative)
          \/ textOwner /\ owner = Us
       THEN UNCHANGED <<textOwner, localOwner, stack>>
       ELSE /\ textOwner' = FALSE
            /\ localOwner' = (localOwner \/ textOwner)
            /\ \/ stack' = Append(stack, [type |-> "emit", copy |-> owner])
               \/ Embargoed(localOwner') /\ stack' = stack
    /\ UNCHANGED <<owner, takes, raced, serial, provider, sock, offer, nativeOwner, retiring,
                   fetched, threads, embargo, pastes, stale, heard, network, requests>>

Top == stack[Len(stack)]
Pop == SubSeq(stack, 1, Len(stack) - 1)

\* send_token
EmitToken ==
    /\ stack # <<>> /\ Top.type = "emit"
    /\ stack' = Pop
    /\ heard' = heard \cup {Top.copy}
    /\ UNCHANGED <<xserver, sock, offer, nativeOwner, retiring, fetched, threads, proxy, pastes, stale,
                   network, requests>>

----------------------------------------------------------------------------
(* Tokens, as they arrive from the peer.                                    *)

\* the user copies something at the peer, or a copy is announced in another phase, which
\* has its offer-id
Announce ==
    /\ Input
    /\ \/ copy < MaxCopies /\ copy' = copy + 1 /\ phases' = phases
       \/ copy > 0 /\ phases < MaxPhases /\ phases' = phases + 1 /\ copy' = copy

\* handle and got_token for a token without managed targets, or for any without a broker:
\* text that comes with it is put in the selection by GTK
PlainToken(shape) ==
    /\ Announce
    /\ ~sock \/ shape.targets \cap Managed = {}
    /\ InvalidateNative(TRUE)
    /\ IF shape.eager \in {"text", "files"}
       THEN \E race \in Races :
            /\ TakeSelection(TextProvider, race)
            /\ nonce' = nonce + 1 /\ embargo' = TRUE
            /\ nativeOwner' = (nativeOwner /\ race = "before")
            /\ textOwner' = IF sock THEN race = "none" ELSE textOwner
            /\ localOwner' = IF sock THEN FALSE
                             ELSE \/ localOwner
                                  \/ /\ race # "before" /\ provider.type = "native"
                                     /\ claimed.on /\ claimed.generation = provider.generation
       ELSE /\ localOwner' = (localOwner \/ Retires)
            /\ UNCHANGED <<xserver, nativeOwner, nonce, textOwner, embargo>>
    /\ UNCHANGED <<sock, threads, stack, pastes, stale, heard, requests>>

\* claim
Claim(shape, race) ==
    /\ TakeSelection([type |-> "native", generation |-> generation', copy |-> copy',
                      targets |-> shape.targets,
                      aliased |-> /\ "uri" \in shape.targets
                                  /\ shape.eager # "text"], race)
    /\ claimed' = [on |-> race # "before", generation |-> generation',
                   targets |-> shape.targets]
    /\ nativeOwner' = (race = "none")
    /\ nonce' = nonce + 1
    /\ embargo' = TRUE /\ localOwner' = FALSE /\ textOwner' = FALSE

\* a request to the peer: its answer is no older than its copy of now
Request(g, t, c) == [generation |-> g, target |-> t, since |-> c]

\* what _process_clipboard_token asks the peer for
Preferred(shape) ==
    (IF "image" \in shape.targets THEN shape.targets \cap Managed ELSE {"uri"}) \ {shape.eager}

Job(g, c) == [generation |-> g, copy |-> c, state |-> "new"]

\* handle for one with managed targets, which is a new offer or another phase of the
\* current one, got_token, and the requests to the peer
ManagedToken(shape) ==
    /\ Announce
    /\ sock /\ shape.targets \cap Managed # {}
    /\ LET merge == source = copy'
           Kept(old, new) == IF merge THEN old ELSE new
           asked == Kept(requested, {}) \cup (Managed \cap {shape.eager})
       IN /\ active' = TRUE /\ source' = copy'
          /\ generation' = Kept(generation, generation + 1)
          /\ targets' = Kept(targets, {}) \cup shape.targets
          /\ listed' = IF shape.eager \in {"text", "files"} THEN shape.eager = "files"
                       ELSE Kept(listed, FALSE)
          /\ inline' = IF shape.eager \in {"text", "files"} THEN copy'
                       ELSE Kept(inline, Nothing)
          /\ responses' = Kept(responses, {})
          /\ batches' = Kept(batches, {})
          /\ wanted' = Kept(wanted, NoneWanted)
          /\ jobs' = IF shape.eager = "uri" THEN jobs \cup {Job(generation', copy')} ELSE jobs
          /\ \E image \in IF shape.eager = "image" THEN {Unavailable, copy'}
                          ELSE {Kept(store["image"], Nothing)} :
                store' = [image |-> image, uri |-> Kept(store["uri"], Nothing)]
          /\ IF merge /\ IsClaimed /\ claimed.targets = shape.targets
             THEN UNCHANGED <<xserver, claimed, nativeOwner, nonce, localOwner, textOwner, embargo>>
             ELSE \E race \in Races : Claim(shape, race)
          /\ requested' = asked \cup Preferred(shape)
          /\ requests' = requests \cup {Request(generation', t, copy') : t \in Preferred(shape) \ asked}
    /\ UNCHANGED <<sock, clears, reader, stack, pastes, stale, heard>>

----------------------------------------------------------------------------
(* Contents.                                                                *)

\* mutant: a reply for any offer
ExpectedByTarget(r) == sock /\ active /\ r.target \in targets

\* handle for contents: which offer they are for is remembered with the request
Expected(r) == sock /\ r.generation = generation /\ active /\ r.target \in targets

Deliver(r, c) ==
    IF ~Expected(r)
    THEN UNCHANGED <<inline, store, jobs>>
    ELSE CASE r.target = "text" ->
                /\ inline' = IF c = Unavailable /\ inline # Nothing THEN inline ELSE c
                /\ UNCHANGED <<store, jobs>>
           [] r.target = "uri" /\ (c # Unavailable \/ listed) ->
                /\ jobs' = jobs \cup {Job(generation, IF c = Unavailable THEN source ELSE c)}
                /\ UNCHANGED <<inline, store>>
           [] OTHER ->
                /\ \E complete \in BOOLEAN :
                     store' = [store EXCEPT ![r.target] = IF complete THEN c ELSE Unavailable]
                /\ UNCHANGED <<inline, jobs>>

\* a reply is of a copy that was made before it was sent, even if it comes after the token
\* of a later one; the requests of a proxy are forgotten as they are answered
Reply(r, c) ==
    /\ r \in requests
    /\ requests' = requests \ {r}
    /\ Deliver(r, c)
    /\ UNCHANGED <<xserver, sock, offer, nativeOwner, retiring, requested, responses, wanted,
                   batches, reader, proxy, stack, pastes, stale, heard, network>>

PeerReply(r) == \E c \in {Unavailable} \cup (r.since .. copy) : Reply(r, c)

\* timeout_request: a reply that comes later finds no request
RequestTimeout(r) == Reply(r, Unavailable)

InState(j, s) == (jobs \ {j}) \cup {[j EXCEPT !.state = s]}

\* _send_uri_files: one batch of files for each offer; urlsplit raises for some URIs
TakeBatch(j) ==
    /\ j \in jobs /\ j.state = "new"
    /\ \/ jobs' = InState(j, "raised") /\ batches' = batches
       \/ IF j.generation # generation \/ ~active \/ generation \in batches
          THEN jobs' = jobs \ {j} /\ batches' = batches
          ELSE batches' = batches \cup {generation} /\ jobs' = InState(j, "registered")
    /\ UNCHANGED <<xserver, sock, offer, nativeOwner, retiring, fetched, reader, proxy, stack,
                   pastes, stale, heard, network, requests>>

\* when the server has registered the files, or has not; the broker ignores old generations,
\* and _send raises for a list of files that is longer than a header may be
SendBatch(j) ==
    /\ j \in jobs /\ j.state = "registered"
    /\ \/ jobs' = InState(j, "raised") /\ store' = store
       \/ /\ jobs' = jobs \ {j}
          /\ \E c \in {Unavailable, j.copy} :
                store' = IF j.generation = generation /\ active
                         THEN [store EXCEPT !["uri"] = c] ELSE store
    /\ UNCHANGED <<xserver, sock, offer, nativeOwner, retiring, requested, inline, responses, wanted,
                   batches, reader, proxy, stack, pastes, stale, heard, network, requests>>

----------------------------------------------------------------------------
(* The broker.                                                              *)

\* it answers once it has the data or knows that there is none, or it fails; the reader
\* thread drops what is not of this generation
BrokerAnswers(t, c) ==
    /\ sock /\ reader = NoResponse
    /\ wanted[t] > 0
    /\ wanted' = [wanted EXCEPT ![t] = @ - 1]
    /\ reader' = [generation |-> generation, target |-> t, copy |-> c]
    /\ UNCHANGED <<xserver, sock, offer, nativeOwner, retiring, requested, inline, responses, store,
                   batches, jobs, proxy, stack, pastes, stale, heard, network, requests>>

DataResponse(t) == store[t] # Nothing /\ BrokerAnswers(t, store[t])
EmptyResponse(t) == BrokerAnswers(t, Unavailable)

\* which stores it in a second step; a late empty response replaces nothing
StoreResponse ==
    /\ reader # NoResponse
    /\ reader' = NoResponse
    /\ LET previous == {r \in responses : /\ r.generation = reader.generation
                                          /\ r.target = reader.target}
       IN responses' = IF reader.copy # Unavailable \/ previous = {}
                       THEN (responses \ previous) \cup {reader} ELSE responses
    /\ UNCHANGED <<xserver, sock, offer, nativeOwner, retiring, requested, inline, store, wanted,
                   batches, jobs, proxy, stack, pastes, stale, heard, network, requests>>

\* the reader thread comes to the end of the stream, after what it has read
BrokerLost ==
    /\ Input
    /\ sock /\ sock' = FALSE
    /\ reader = NoResponse
    /\ UNCHANGED <<xserver, offer, nativeOwner, retiring, fetched, threads, proxy, stack, pastes, stale,
                   heard, network, requests>>

----------------------------------------------------------------------------
(* Pastes: get_data, called by GTK for the provider that is installed,      *)
(* though the selection may have gone to another application meanwhile.     *)

\* the formats of file managers are made from the list of files
Offered(p) == p.targets \cup (IF "uri" \in p.targets THEN {"alias"} ELSE {})
IsLocal(p, t) == t = "alias" \/ (t = "text" /\ p.aliased)

Paste(t) ==
    /\ Input /\ pastes < MaxPastes
    /\ pastes' = pastes + 1
    /\ provider.type = "native" /\ t \in Offered(provider)
    /\ IF provider.generation # generation \/ ~active
       THEN UNCHANGED <<requested, requests, wanted, stack>>
       ELSE LET key == IF IsLocal(provider, t) THEN "uri" ELSE t
                ask == IF IsLocal(provider, t) THEN {} ELSE {t} \ requested
            IN /\ requested' = requested \cup ask
               /\ requests' = requests \cup {Request(generation, x, copy) : x \in ask}
               /\ wanted' = IF sock /\ key \in Managed THEN [wanted EXCEPT ![key] = @ + 1] ELSE wanted
               /\ stack' = Append(stack, [type |-> "paste", target |-> key,
                                          generation |-> generation, copy |-> provider.copy])
    /\ UNCHANGED <<xserver, sock, offer, nativeOwner, retiring, inline, responses, store, threads,
                   proxy, stale, heard, network>>

\* what a call has been waiting for
Answers(call) ==
    IF call.target = "text" THEN {inline} \ {Nothing}
    ELSE {r.copy : r \in {r \in responses : /\ r.generation = call.generation
                                            /\ r.target = call.target}}

\* mutant: the loss of the broker goes unnoticed
CancelledByOffer(call) == call.generation # generation \/ ~active

\* the offer is retired, or the broker gone
Cancelled(call) ==
    \/ call.generation # generation \/ ~active
    \/ call.target \in Managed /\ ~sock

\* _wait_response and _wait_inline return, and get_data gives what they have found.  They
\* give up after 30 seconds, but not those that wait for files.
PasteReturns ==
    /\ stack # <<>> /\ Top.type = "paste"
    /\ stack' = Pop
    /\ \/ (Cancelled(Top) \/ Top.target # "uri") /\ UNCHANGED stale
       \/ /\ ~Cancelled(Top)
          /\ \E c \in Answers(Top) : stale' = (stale \/ (c # Unavailable /\ c < Top.copy))
    /\ UNCHANGED <<xserver, sock, offer, nativeOwner, retiring, fetched, threads, proxy, pastes,
                   heard, network, requests>>

----------------------------------------------------------------------------
Next ==
    \/ LocalCopy
    \/ \E c \in clears : ClearIfStale(c)
    \/ ClearData \/ OwnerChanged \/ EmitToken
    \/ \E shape \in Shapes : PlainToken(shape) \/ ManagedToken(shape)
    \/ \E r \in requests : PeerReply(r) \/ RequestTimeout(r)
    \/ \E j \in jobs : TakeBatch(j) \/ SendBatch(j)
    \/ \E t \in Managed : DataResponse(t) \/ EmptyResponse(t)
    \/ StoreResponse \/ BrokerLost
    \/ \E t \in Targets \cup {"alias"} : Paste(t)
    \/ PasteReturns

\* The main loop goes round, requests time out, threads run; the broker answers when it has
\* the data or has been told that there is none.  No copy, paste or failure has to happen.
Fairness ==
    /\ WF_vars(ClearData \/ OwnerChanged)
    /\ WF_vars(EmitToken) /\ WF_vars(PasteReturns)
    /\ WF_vars(\E r \in requests : RequestTimeout(r))
    /\ WF_vars(\E j \in jobs : TakeBatch(j) \/ SendBatch(j))
    /\ WF_vars(\E t \in Managed : DataResponse(t))
    /\ WF_vars(StoreResponse)

Spec == Init /\ [][Next]_vars /\ Fairness

----------------------------------------------------------------------------
(* Properties.                                                              *)

Contents == Nat \cup {Nothing}

\* the X server and GTK, the offer, ...
SelectionTypes ==
    /\ owner \in Nat \cup {Us} /\ takes \in Nat /\ raced \in BOOLEAN /\ serial \in Nat
    /\ events \in Seq([type : {"change", "clear"}, serial : Nat])
    /\ provider \in [type : {"none", "text", "native"}, generation : Nat, copy : Nat,
                     targets : SUBSET Targets, aliased : BOOLEAN]
OfferTypes ==
    /\ generation \in Nat /\ source \in Nat /\ targets \subseteq Targets
    /\ active \in BOOLEAN /\ listed \in BOOLEAN
    /\ claimed \in [on : BOOLEAN, generation : Nat, targets : SUBSET Targets]
OwnerTypes ==
    /\ sock \in BOOLEAN /\ nativeOwner \in BOOLEAN /\ nonce \in Nat
    /\ clears \subseteq [generation : Nat, nonce : Nat]
    /\ localOwner \in BOOLEAN /\ textOwner \in BOOLEAN /\ embargo \in BOOLEAN
ContentTypes ==
    /\ requested \subseteq Targets /\ inline \in Contents
    /\ responses \subseteq [generation : Nat, target : Managed, copy : Nat]
    /\ store \in [Managed -> Contents] /\ wanted \in [Managed -> Nat]
ThreadTypes ==
    /\ batches \subseteq Nat
    /\ jobs \subseteq [generation : Nat, copy : Nat, state : {"new", "registered", "raised"}]
    /\ reader = NoResponse \/ reader \in [generation : Nat, target : Managed, copy : Nat]
CallTypes ==
    /\ stack \in Seq([type : {"emit"}, copy : Nat \cup {Us}]
                       \cup [type : {"paste"}, target : Targets, generation : Nat, copy : Nat])
    /\ pastes \in Nat /\ stale \in BOOLEAN /\ heard \subseteq Nat \cup {Us}
PeerTypes ==
    /\ copy \in Nat /\ phases \in Nat
    /\ requests \subseteq [generation : Nat, target : Targets, since : Nat]

TypeOK ==
    /\ SelectionTypes /\ OfferTypes /\ OwnerTypes /\ ContentTypes
    /\ ThreadTypes /\ CallTypes /\ PeerTypes

Announcing(n) == \E i \in 1..Len(stack) : stack[i].type = "emit" /\ stack[i].copy = n
LastCopyAnnounced == events = <<>> /\ owner > 0 => owner \in heard \/ Announcing(owner)

\* "A native clear callback is positive evidence of a new local owner"
\* (xpra/gtk/clipboard.py:232): once GTK has handled its events, the peer has been told of
\* the copy that is in the selection, however soon after the peer's own it was made.
\* Not so when the broker is gone (below), or when an application took the selection while
\* we did: then there is no clear callback, and the embargo is for local copies too.
LocalCopyAnnounced == sock /\ ~raced => LastCopyAnnounced

\* "GTK has not released our provider: this is our own claim event"
\* (xpra/gtk/clipboard.py:222), without a broker too: clear_data finds that the proxy is not
\* accepted, so that is_claimed stays true and hides the copies of all applications.
AnnouncedWithoutBroker == ~raced => LastCopyAnnounced

\* schedule_emit_token announces what is in the selection (xpra/gtk/clipboard.py:162): its
\* wait runs the main loop, which may announce a later copy before it goes on with the
\* targets of the earlier one.
AnnouncedIsCurrent == [][EmitToken => \A n \in heard \ {Nobody, Us} : n <= Top.copy]_vars

\* "The corresponding owner-change must not be sent back as a new token"
\* (xpra/clipboard/catlink_bridge.py, handle): when the peer is told of a copy, it is not
\* of what we have put in the selection ourselves for the peer's own offer.
NeverEchoed ==
    [][sock /\ Len(stack') > Len(stack) /\ stack'[Len(stack')].type = "emit"
        => stack'[Len(stack')].copy # Us]_vars

\* An offer that is over does not stay in the selection, where applications would paste
\* nothing: there is a callback that will release it, and nothing will cancel it.
RetiredIsReleased ==
    owner = Us /\ provider.type = "native" /\ provider.generation # generation =>
        \E c \in clears : c.generation + 1 = generation /\ c.nonce = nonce /\ nativeOwner /\ ~active

\* "an old response cannot be mistaken for data belonging to the next offer"
\* (invalidate_native): an application is given nothing older than the offer it pastes from.
FreshPaste == ~stale

Pasting == \E i \in 1..Len(stack) : stack[i].type = "paste"

\* the call that runs waits for files, and a thread that was to offer those has raised:
\* the broker has been told nothing of them, and will never answer
FilesForgotten ==
    /\ stack # <<>> /\ Top.type = "paste" /\ Top.target = "uri"
    /\ store["uri"] = Nothing
    /\ \E j \in jobs : j.state = "raised" /\ j.generation = generation

\* Whoever pastes is answered, although calls for files have no timeout and block those
\* under them in the stack: unless the files could not even be reported as missing.
PasteEnds == Pasting ~> (~Pasting \/ FilesForgotten)

\* "Failure is an explicit empty response; generation/connection retirement cancels the
\* wait" (_wait_response): not that of a thread which raises, and the wait goes on.
PasteAlwaysEnds == Pasting ~> ~Pasting
=============================================================================
