------------------------------ MODULE X11Offer ------------------------------
(***************************************************************************)
(* How the X11 clipboard proxy tells the peer about the selection of a     *)
(* local application (xpra/x11/selection/proxy.py: the owner events,       *)
(* do_owner_changed, schedule_emit_token, offer_metadata, got_token).      *)
(*                                                                         *)
(* The peer may only want to know that there is an owner, or the targets   *)
(* too (want_targets), or the data of the best target as well (greedy):    *)
(* these are read from the application first, by the reads of LocalReads,  *)
(* and each step of the reading may find that the selection has changed.   *)
(*                                                                         *)
(* Copies go to the peer (_can_send), and those of the peer may come here. *)
(***************************************************************************)
EXTENDS Integers, Sequences, FiniteSets

CONSTANTS
    Xids,       \* windows of applications that own the selection
    Self,       \* the window of the proxy
    NoOwner,
    Copied,     \* bound: what an application may offer when it copies
    CanReceive, \* _can_receive
    MaxStamps,  \* bound: offers that applications publish
    MaxInputs,  \* bound: tokens received, and times that the clipboard is disabled
    MaxQueue    \* bound: owner events that wait

\* what an application offers: text, files, or files with an image of them
Text == {"text"}
Files == {"uri-list", "text"}
Image == {"uri-list", "text", "png"}
TargetSets == {Text, Files, Image}

ASSUME OfferAssumption ==
    /\ Copied \subseteq TargetSets /\ CanReceive \in BOOLEAN
    /\ Self \notin Xids /\ NoOwner \notin Xids /\ Self # NoOwner
    /\ MaxStamps \in Nat /\ MaxInputs \in Nat /\ MaxQueue \in Nat \ {0}

NOTHING == 0   \* no offer, no content, no targets
REMOTE == -1   \* the targets of the peer

VARIABLES
    wants,       \* _want_targets and _greedy_client: "owner", "targets" or "data"
    enabled,     \* _enabled
    owner,       \* of the selection, in the X server
    offers,      \* what applications published, in order: [xid, content, targets]
    queue,       \* owner events: the offer that they are about, or NOTHING, and its owner
    owned,       \* proxy.owned
    haveToken,   \* proxy._have_token
    cached,      \* proxy.targets: those of an offer, REMOTE or NOTHING
    current,     \* offer_owner_xid and offer_selection_timestamp: the offer
    reading,     \* the step of schedule_emit_token that waits: <<>> or <<[step, targets, files]>>
    last,        \* offer_token_owner_xid, offer_token_timestamp, offer_last_*
    offerId,     \* offer_id
    asking,      \* a request for the peer's TARGETS is outstanding
    inputs,      \* tokens received, and times that the clipboard was disabled
    sent,        \* the last token sent: <<>> or one record
    answered,    \* a token has been sent since one was received that took the selection
    missed,      \* an owner event was ignored, or a token of the peer that did not take the
                 \* selection has ended a reading, and there was no owner event since
    odd          \* an odd token has been sent

proxy == <<owned, haveToken, cached, current, reading>>
offer == <<last, offerId>>
peer == <<inputs, sent, answered, missed, odd>>
setup == <<wants, enabled>>
vars == <<setup, owner, offers, queue, proxy, offer, asking, peer>>

Reading == wants # "owner"
Stamps == 1..MaxStamps
NoLast == [xid |-> NoOwner, stamp |-> NOTHING, targets |-> {}, content |-> NOTHING,
           target |-> "none", files |-> NOTHING]

----------------------------------------------------------------------------
Init ==
    /\ wants \in {"owner", "targets", "data"}
    /\ enabled = TRUE
    /\ owner = NoOwner /\ offers = <<>> /\ queue = <<>>
    /\ owned = FALSE /\ haveToken = FALSE
    /\ cached = NOTHING /\ current = NOTHING /\ reading = <<>>
    /\ last = NoLast /\ offerId = 1
    /\ asking = FALSE /\ inputs = 0
    /\ sent = <<>> /\ answered = TRUE /\ missed = FALSE /\ odd = FALSE

ContentOf(stamp) == IF stamp \in Stamps THEN offers[stamp].content ELSE NOTHING
TargetsOf(stamp) == IF stamp \in Stamps THEN offers[stamp].targets
                    ELSE IF stamp = REMOTE THEN Text ELSE {}
OwnerOf(stamp) == IF stamp \in Stamps THEN offers[stamp].xid ELSE NoOwner

\* A token without targets of its offer, or with something that is newer than it: a read
\* may overtake the event of the copy (see LocalReads).
Odd(token) == \/ token.targets \notin Stamps
              \/ token.files > ContentOf(token.stamp)
              \/ token.content > ContentOf(token.stamp)

(* Applications.                                                            *)

\* a copy of something new
AppCopies(xid, targets) ==
    /\ Len(offers) < MaxStamps /\ Len(queue) < MaxQueue
    /\ offers' = Append(offers, [xid |-> xid, content |-> Len(offers) + 1, targets |-> targets])
    /\ owner' = xid
    /\ queue' = Append(queue, [xid |-> xid, stamp |-> Len(offers')])
    /\ UNCHANGED <<setup, proxy, offer, asking, peer>>

\* a file manager publishes the image of the file that it has just copied
AppExpands ==
    /\ Len(offers) \in 1..MaxStamps - 1 /\ owner \in Xids /\ Len(queue) < MaxQueue
    /\ offers[Len(offers)].targets = Files
    /\ offers' = Append(offers, [offers[Len(offers)] EXCEPT !.targets = Image])
    /\ queue' = Append(queue, [xid |-> owner, stamp |-> Len(offers')])
    /\ UNCHANGED <<setup, owner, proxy, offer, asking, peer>>

AppReleases ==
    /\ owner \in Xids /\ Len(queue) < MaxQueue
    /\ owner' = NoOwner
    /\ queue' = Append(queue, [xid |-> NoOwner, stamp |-> NOTHING])
    /\ UNCHANGED <<setup, offers, proxy, offer, asking, peer>>

\* an application asks for the peer's TARGETS, which are not cached (see ClipboardRequests)
AppAsksTargets ==
    /\ enabled /\ owned /\ cached = NOTHING /\ ~asking
    /\ asking' = TRUE
    /\ UNCHANGED <<setup, owner, offers, queue, proxy, offer, peer>>

(* Tokens.                                                                  *)

\* mutant: forgets the file list
NewOfferNoFiles(xid, targets, target, content, files) ==
    LET same_event == current # NOTHING /\ current = last.stamp
        expanding == last.targets # {} /\ last.targets \subseteq targets /\ last.targets # targets
        content_changed == target = last.target /\ content # NOTHING
                              /\ last.content # NOTHING /\ content # last.content
    IN  \/ xid # last.xid
        \/ last.targets # {} /\ ~(expanding /\ ~content_changed) /\ ~same_event
        \/ content_changed

\* the condition of offer_metadata for a new offer-id
NewOffer(xid, targets, target, content, files) ==
    LET same_event == current # NOTHING /\ current = last.stamp
        expanding == last.targets # {} /\ last.targets \subseteq targets /\ last.targets # targets
        same_files == files # NOTHING /\ files = last.files
        content_changed == target # "none" /\ target = last.target /\ content # NOTHING
                              /\ last.content # NOTHING /\ content # last.content
    IN  \/ xid # last.xid
        \/ last.targets # {} /\ ~(expanding /\ same_files /\ ~content_changed) /\ ~same_event
        \/ content_changed
        \/ files # NOTHING /\ last.files # NOTHING /\ files # last.files

\* offer_metadata, and the token with its id: targets is the offer that they were read
\* from, content the one that the data was
SendToken(targets, target, content, files) ==
    LET xid == OwnerOf(current)
        set == TargetsOf(targets)
        new == NewOffer(xid, set, target, content, files)
    IN  /\ offerId' = IF new THEN offerId + 1 ELSE offerId
        /\ last' = [xid |-> xid, stamp |-> current, targets |-> set,
                    content |-> IF new \/ content # NOTHING THEN content ELSE last.content,
                    target |-> IF new \/ content # NOTHING THEN target ELSE last.target,
                    files |-> IF new \/ files # NOTHING THEN files ELSE last.files]
        /\ sent' = <<[stamp |-> current, targets |-> targets, target |-> target,
                      content |-> content, files |-> files, id |-> offerId']>>
        /\ odd' = (odd \/ Odd(sent'[1]))
        /\ answered' = TRUE
        /\ haveToken' = FALSE
        /\ reading' = <<>>

NoToken == UNCHANGED <<offer, sent, answered, odd, haveToken>>

\* a token that only says that there is an owner
SendBareToken ==
    /\ sent' = <<[stamp |-> current', targets |-> NOTHING, target |-> "none", content |-> NOTHING,
                  files |-> NOTHING, id |-> NOTHING]>>
    /\ answered' = TRUE /\ haveToken' = FALSE
    /\ reading' = <<>>
    /\ UNCHANGED <<offer, odd>>

\* choose_targets: the image, or else the text
Chosen(targets) == IF "png" \in targets THEN "png" ELSE "text"

\* the next read, which ends the reading if we own the selection by now (get_contents
\* finds it out), without a token: current() tests that we do not
ReadNext(step, targets, files) ==
    /\ reading' = IF owner = Self THEN <<>>
                  ELSE <<[step |-> step, targets |-> targets, files |-> files]>>
    /\ owned' = (owner = Self)
    /\ NoToken

(* Events.                                                                  *)

\* schedule_emit_token, up to its first read
ScheduleEmitToken ==
    IF Reading
    THEN /\ owned' = (owner = Self)
         /\ reading' = IF owner = Self THEN <<>>
                       ELSE <<[step |-> "targets", targets |-> NOTHING, files |-> NOTHING]>>
         /\ NoToken
    ELSE /\ owned' = FALSE
         /\ SendBareToken

\* mutant: a client that reads learns of an owner only after it had the token
DoOwnerChangedUntold ==
    /\ cached' = NOTHING
    /\ IF haveToken THEN ScheduleEmitToken ELSE reading' = <<>> /\ owned' = FALSE /\ NoToken

\* do_owner_changed: the reads in progress end, and find that the epoch has changed
DoOwnerChanged ==
    /\ cached' = NOTHING
    /\ IF haveToken \/ Reading THEN ScheduleEmitToken
       ELSE reading' = <<>> /\ owned' = FALSE /\ NoToken

\* do_selection_clear_event, then do_selection_notify_event: the X server sends the two
\* together.  The second schedules anew what the first has scheduled.
OwnerEvent ==
    /\ queue # <<>>
    /\ queue' = Tail(queue)
    /\ LET event == Head(queue) IN
       IF event.xid = Self \/ ~enabled
       THEN /\ owned' = (event.xid = Self)
            /\ missed' = (missed \/ event.xid # Self)
            /\ UNCHANGED <<haveToken, cached, current, reading, offer, sent, odd, answered>>
       ELSE /\ current' = IF event.xid \in Xids THEN event.stamp ELSE current
            /\ missed' = FALSE
            /\ DoOwnerChanged
    /\ UNCHANGED <<setup, owner, offers, asking, inputs>>

\* enable_selections, when the peer says so
EnableSelections ==
    /\ enabled' = ~enabled
    /\ IF enabled THEN inputs < MaxInputs /\ inputs' = inputs + 1 ELSE inputs' = inputs
    /\ UNCHANGED <<wants, owner, offers, queue, proxy, offer, asking, sent, answered,
                   missed, odd>>

\* what a read ends with: nothing, or something no older than the offer that the proxy
\* knows of, from an application (LocalReads); a disabled proxy lets it time out
ReadResults == {NOTHING} \cup {s \in Stamps : enabled /\ s \in current..Len(offers)}

\* got_targets and with_targets: if the application refuses, the token takes the cached
\* targets; a read that times out gives an empty list
GotTargets(result) ==
    /\ reading # <<>> /\ reading[1].step = "targets"
    /\ cached' = result \/ (result = NOTHING /\ cached' = cached)
    /\ LET targets == TargetsOf(result) IN
       \/ /\ wants = "targets" \/ targets = {}
          /\ SendToken(cached', "none", NOTHING, NOTHING)
          /\ UNCHANGED owned
       \/ /\ wants = "data" /\ "uri-list" \in targets
          /\ ReadNext("files", result, NOTHING)
       \/ /\ wants = "data" /\ targets # {} /\ "uri-list" \notin targets
          /\ ReadNext("chosen", result, NOTHING)
    /\ UNCHANGED <<setup, owner, offers, queue, current, asking, inputs, missed>>

\* got_files: the chosen target is read next
GotFiles(result) ==
    /\ reading # <<>> /\ reading[1].step = "files"
    /\ ReadNext("chosen", reading[1].targets, ContentOf(result))
    /\ UNCHANGED <<setup, owner, offers, queue, cached, current, asking, inputs, missed>>

\* mutant: takes the list of targets from the cache, whatever was read
GotChosenTargetCached(result) ==
    /\ reading # <<>> /\ reading[1].step = "chosen"
    /\ SendToken(cached, Chosen(TargetsOf(cached)), ContentOf(result), reading[1].files)
    /\ UNCHANGED <<setup, owner, offers, queue, owned, cached, current, asking, inputs, missed>>

\* got_chosen_target: without data, send_token_with_targets takes the cached targets
GotChosenTarget(result) ==
    /\ reading # <<>> /\ reading[1].step = "chosen"
    /\ IF result = NOTHING THEN SendToken(cached, "none", NOTHING, reading[1].files)
       ELSE SendToken(reading[1].targets, Chosen(TargetsOf(reading[1].targets)),
                      ContentOf(result), reading[1].files)
    /\ UNCHANGED <<setup, owner, offers, queue, owned, cached, current, asking, inputs, missed>>

(* The peer.                                                                *)

\* mutant: does not end the reading
GotTokenKeeps(targets, claim) ==
    /\ enabled /\ inputs < MaxInputs /\ Len(queue) < MaxQueue
    /\ inputs' = inputs + 1
    /\ cached' = targets
    /\ haveToken' = TRUE
    /\ owner' = Self /\ owned' = TRUE
    /\ queue' = Append(queue, [xid |-> Self, stamp |-> NOTHING])
    /\ answered' = FALSE
    /\ UNCHANGED <<setup, offers, current, reading, offer, asking, sent, missed, odd>>

\* claim
Claim ==
    /\ Len(queue) < MaxQueue
    /\ owner' = Self /\ owned' = TRUE
    /\ queue' = Append(queue, [xid |-> Self, stamp |-> NOTHING])
    /\ answered' = FALSE
    /\ UNCHANGED missed

\* got_token: the peer may only tell us of its copy, and not want the selection
GotToken(targets, claim) ==
    /\ enabled /\ inputs < MaxInputs
    /\ inputs' = inputs + 1
    /\ reading' = <<>>
    /\ last' = NoLast
    /\ haveToken' = (haveToken \/ claim)
    /\ cached' = IF CanReceive THEN targets ELSE cached
    /\ IF CanReceive /\ claim THEN Claim
       ELSE /\ missed' = (missed \/ reading # <<>>)
            /\ UNCHANGED <<owner, owned, queue, answered>>
    /\ UNCHANGED <<setup, offers, current, offerId, asking, sent, odd>>

\* got_contents, for TARGETS: caches them, whoever owns the selection by then
GotRemoteTargets ==
    /\ asking
    /\ asking' = FALSE
    /\ cached' = REMOTE
    /\ UNCHANGED <<setup, owner, offers, queue, owned, haveToken, current,
                   reading, offer, peer>>

Next ==
    \/ \E x \in Xids, t \in Copied : AppCopies(x, t)
    \/ AppExpands \/ AppReleases \/ AppAsksTargets
    \/ OwnerEvent \/ EnableSelections
    \/ \E s \in ReadResults : GotTargets(s) \/ GotFiles(s) \/ GotChosenTarget(s)
    \/ \E t \in {NOTHING, REMOTE}, claim \in BOOLEAN : GotToken(t, claim)
    \/ GotRemoteTargets

Spec == Init /\ [][Next]_vars

----------------------------------------------------------------------------
(* Properties.                                                              *)

Offers == {NOTHING} \cup Stamps
Published == [xid : Xids, content : Stamps, targets : TargetSets]
Events == [xid : Xids \cup {Self, NoOwner}, stamp : Offers]
ReadSteps == [step : {"targets", "files", "chosen"}, targets : Offers, files : Offers]
Tokens == [stamp : Offers, targets : Offers \cup {REMOTE}, target : {"none", "text", "png"},
           content : Offers, files : Offers, id : Nat]

\* The variables have their types.
TypeOK ==
    /\ wants \in {"owner", "targets", "data"} /\ enabled \in BOOLEAN
    /\ owner \in Xids \cup {Self, NoOwner}
    /\ offers \in Seq(Published)
    /\ Len(offers) <= MaxStamps
    /\ queue \in Seq(Events)
    /\ owned \in BOOLEAN /\ haveToken \in BOOLEAN
    /\ cached \in Offers \cup {REMOTE} /\ current \in 0..Len(offers)
    /\ reading \in Seq(ReadSteps) /\ Len(reading) <= 1
    /\ last \in [xid : Xids \cup {NoOwner}, stamp : Offers, targets : TargetSets \cup {{}},
                 content : Offers, target : {"none", "text", "png"}, files : Offers]
    /\ offerId \in Nat \ {0}
    /\ asking \in BOOLEAN /\ inputs \in 0..MaxInputs
    /\ sent \in Seq(Tokens) /\ Len(sent) <= 1
    /\ answered \in BOOLEAN /\ missed \in BOOLEAN /\ odd \in BOOLEAN

\* A token that was read is sent for a local owner only: not once the peer's own token
\* has made us the owner, though events of an earlier local copy are still to come.
TokenOfLocalOwner == [][sent' # sent /\ Reading => owner # Self]_vars

\* When there is no event left and nothing is being read, the peer knows of the local
\* owner: by a token for the latest offer if it wants to know what is offered, or else by
\* one that came after its own last one.  Not so if the clipboard was disabled when the
\* application took it, or if a token of the peer that did not take the selection has ended
\* the reading: got_token drops it without reading again.
QuietMeansAnnounced ==
    queue = <<>> /\ reading = <<>> /\ owner \in Xids /\ ~missed =>
        /\ answered
        /\ Reading => sent # <<>> /\ sent[1].stamp = Len(offers)

\* What a token carries is never older than the offer that it is for, and the list of
\* targets that comes with data was read for the same offer: a late reply for the peer's
\* TARGETS, or for an earlier offer, does not mix with it.
TokenOfOneOffer ==
    sent # <<>> /\ sent[1].target # "none" =>
        /\ sent[1].targets \in sent[1].stamp..Len(offers)
        /\ sent[1].content >= ContentOf(sent[1].stamp)
        /\ sent[1].files # NOTHING => sent[1].files >= ContentOf(sent[1].stamp)

\* do_owner_changed announces "an application on our side" (xpra/clipboard/proxy.py:202): a
\* token that only says what the peer has does not take that back, but it ends the reading,
\* and nothing reads again until the application makes another copy.
AlwaysAnnounced ==
    queue = <<>> /\ reading = <<>> /\ owner \in Xids /\ enabled /\ Reading =>
        sent # <<>> /\ sent[1].stamp = Len(offers)

SameId == sent # <<>> /\ sent' # <<>> /\ sent'[1].id = sent[1].id
SameContent == ContentOf(sent'[1].stamp) = ContentOf(sent[1].stamp)

\* "offer-id means one user-visible clipboard content snapshot"
\* (xpra/x11/selection/proxy.py:446): ids only grow, so that two tokens in a row that
\* share one are for the same content.
OneContentPerId == [][Reading /\ SameId => SameContent]_vars

\* The same, as long as all tokens had targets, and nothing newer than their offer.
OneContentPerIdUnlessOdd ==
    [][Reading /\ SameId /\ ~odd' => SameContent]_vars

\* test_stale_targets_does_not_replace_new_cache
\* (tests/unittests/unit/clipboard/x11_offer_test.py:161): the targets cached for a local
\* owner are its own.
CacheOfLocalOwner == owner \in Xids /\ queue = <<>> => cached # REMOTE

\* "an application on our side owns the clipboard selection"
\* (xpra/clipboard/proxy.py:202): a token is sent only then.
TokenOnlyIfLocal == [][sent' # sent => owner # Self]_vars
=============================================================================
