------------------------- MODULE CatlinkBridge_proofs -------------------------
(***************************************************************************)
(* The clipboard between the peer's offers and the selection, for any      *)
(* number of copies, tokens, pastes and events that GTK has yet to handle: *)
(* what is in the selection is never announced as a local copy when it is  *)
(* the peer's own, local copies are announced, an offer that is over is    *)
(* released, and nothing older than an offer is pasted from it.            *)
(*                                                                         *)
(* A claim, the provider that GTK serves from and the generation go        *)
(* together as long as there is a broker (ClaimInv), what we have put in   *)
(* the selection is marked as ours (OwnInv), and the marks that hide it    *)
(* are taken away by the callback that an offer leaves behind (ReleaseInv, *)
(* OverInv) or by the clear event that a local copy leaves in the queue,   *)
(* before the event of its own (FreedInv, ToldInv).  What is held of an    *)
(* offer has its generation, and is of the copy that it was announced with *)
(* or of a later one (FreshInv).                                           *)
(***************************************************************************)
EXTENDS CatlinkBridge, SequenceTheorems, TLAPS

Events == [type : {"change", "clear"}, serial : Nat]
Providers == [type : {"none", "text", "native"}, generation : Nat, copy : Nat,
              targets : SUBSET Targets, aliased : BOOLEAN]
Emits == [type : {"emit"}, copy : Nat \cup {Us}]
Pastes == [type : {"paste"}, target : Targets, generation : Nat, copy : Nat]
Replies == [generation : Nat, target : Managed, copy : Nat]

----------------------------------------------------------------------------
(* What the parts of actions do, and types.                                 *)

LEMMA Numbers ==
    /\ MaxCopies \in Nat /\ MaxPhases \in Nat /\ MaxTakes \in Nat
    /\ MaxPastes \in Nat /\ MaxInputs \in Nat /\ Us = -1 /\ Us \notin Nat
    /\ \A shape \in Shapes : shape.targets \subseteq Targets /\ shape.eager \in Eager
  BY BridgeAssumption DEF Us

LEMMA EventTypes ==
    ASSUME NEW n \in Nat
    PROVE  /\ Clear(n) \in Events /\ Clear(n).type = "clear" /\ Clear(n).serial = n
           /\ Change \in Events /\ Change.type = "change"
  BY DEF Clear, Change, Events

LEMMA ShortQueues ==
    ASSUME NEW S, NEW a \in S, NEW b \in S, NEW c \in S
    PROVE  <<a>> \in Seq(S) /\ <<a, b>> \in Seq(S) /\ <<a, b, c>> \in Seq(S)
  OBVIOUS

LEMMA Same ==
    /\ SelectionTypes /\ UNCHANGED xserver => SelectionTypes'
    /\ OfferTypes /\ UNCHANGED offer => OfferTypes'
    /\ OwnerTypes /\ UNCHANGED <<sock, nativeOwner, retiring, proxy>> => OwnerTypes'
    /\ ContentTypes /\ UNCHANGED fetched => ContentTypes'
    /\ ThreadTypes /\ UNCHANGED threads => ThreadTypes'
    /\ CallTypes /\ UNCHANGED <<stack, pastes, stale, heard>> => CallTypes'
    /\ PeerTypes /\ UNCHANGED <<network, requests>> => PeerTypes'
<1>1. SelectionTypes /\ UNCHANGED xserver => SelectionTypes'
  BY DEF SelectionTypes, xserver
<1>2. OfferTypes /\ UNCHANGED offer => OfferTypes'
  BY DEF OfferTypes, offer
<1>3. OwnerTypes /\ UNCHANGED <<sock, nativeOwner, retiring, proxy>> => OwnerTypes'
  BY DEF OwnerTypes, retiring, proxy
<1>4. ContentTypes /\ UNCHANGED fetched => ContentTypes'
  BY DEF ContentTypes, fetched
<1>5. ThreadTypes /\ UNCHANGED threads => ThreadTypes'
  BY DEF ThreadTypes, threads
<1>6. CallTypes /\ UNCHANGED <<stack, pastes, stale, heard>> => CallTypes'
  BY DEF CallTypes
<1>7. PeerTypes /\ UNCHANGED <<network, requests>> => PeerTypes'
  BY DEF PeerTypes, network
<1> QED
  BY <1>1, <1>2, <1>3, <1>4, <1>5, <1>6, <1>7

\* who has the selection after we take it, and the events of that
LEMMA Taken ==
    ASSUME TypeOK, NEW p, NEW race \in Races, TakeSelection(p, race)
    PROVE  \/ /\ race = "none" /\ owner' = Us /\ takes' = takes /\ raced' = FALSE
              /\ serial' = serial + 1 /\ provider' = p /\ events' = events \o <<Change>>
           \/ /\ race = "before" /\ owner' = takes + 1 /\ takes' = takes + 1 /\ raced' = TRUE
              /\ serial' = serial /\ provider' = provider
              /\ \/ events' = events \o <<Clear(serial), Change>>
                 \/ owner # Us /\ events' = events \o <<Change>>
           \/ /\ race = "after" /\ owner' = takes + 1 /\ takes' = takes + 1 /\ raced' = TRUE
              /\ serial' = serial + 1 /\ provider' = p
              /\ events' = events \o <<Change, Clear(serial + 1), Change>>
  BY DEF TakeSelection, Races

LEMMA TakenTypes ==
    ASSUME TypeOK, NEW p \in Providers, NEW race \in Races, TakeSelection(p, race)
    PROVE  /\ takes' \in Nat /\ owner' \in Nat \cup {Us} /\ raced' \in BOOLEAN /\ serial' \in Nat
           /\ provider' \in Providers /\ events' \in Seq(Events)
<1>1. /\ takes \in Nat /\ serial \in Nat /\ provider \in Providers /\ events \in Seq(Events)
      /\ serial + 1 \in Nat /\ takes + 1 \in Nat
  BY DEF TypeOK, SelectionTypes, Events, Providers
<1>2. /\ Clear(serial) \in Events /\ Clear(serial + 1) \in Events /\ Change \in Events
  BY <1>1, EventTypes
<1>3. /\ <<Change>> \in Seq(Events) /\ <<Clear(serial), Change>> \in Seq(Events)
      /\ <<Change, Clear(serial + 1), Change>> \in Seq(Events)
  BY <1>2, ShortQueues
<1>4. events' \in Seq(Events)
  <2>1. \A q \in Seq(Events) : events \o q \in Seq(Events)
    BY <1>1
  <2> QED
    BY <2>1, <1>3, Taken
<1>5. /\ takes' \in Nat /\ owner' \in Nat \cup {Us} /\ raced' \in BOOLEAN /\ serial' \in Nat
      /\ provider' \in Providers
  <2>1. /\ raced' = TRUE \/ raced' = FALSE
        /\ takes' = takes \/ takes' = takes + 1
        /\ owner' = Us \/ owner' = takes + 1
        /\ serial' = serial \/ serial' = serial + 1
        /\ provider' = provider \/ provider' = p
    BY Taken, Zenon
  <2> QED
    BY <1>1, <2>1
<1> QED
  BY <1>4, <1>5

\* the offer is retired, or nothing happens
LEMMA Invalidated ==
    ASSUME NEW clear \in BOOLEAN, InvalidateNative(clear)
    PROVE  \/ /\ Retires /\ generation' = generation + 1 /\ active' = FALSE /\ targets' = {}
              /\ source' = 0 /\ claimed' = NotClaimed /\ requested' = {} /\ responses' = {}
              /\ inline' = Nothing /\ store' = NoStore /\ wanted' = NoneWanted
              /\ clears' = (IF clear THEN clears \cup {StaleClear} ELSE clears)
              /\ UNCHANGED listed
           \/ ~Retires /\ UNCHANGED <<offer, fetched, clears>>
  BY DEF InvalidateNative

LEMMA InvalidatedTypes ==
    ASSUME TypeOK, NEW clear \in BOOLEAN, InvalidateNative(clear)
    PROVE  /\ generation' \in Nat /\ active' \in BOOLEAN /\ targets' \subseteq Targets
           /\ source' \in Nat /\ listed' \in BOOLEAN
           /\ claimed' \in [on : BOOLEAN, generation : Nat, targets : SUBSET Targets]
           /\ requested' \subseteq Targets /\ responses' \subseteq Replies
           /\ inline' \in Contents /\ store' \in [Managed -> Contents]
           /\ wanted' \in [Managed -> Nat] /\ clears' \subseteq [generation : Nat, nonce : Nat]
<1>1. NotClaimed \in [on : BOOLEAN, generation : Nat, targets : SUBSET Targets]
  BY DEF NotClaimed
<1>2. NoStore \in [Managed -> Contents] /\ NoneWanted \in [Managed -> Nat] /\ Nothing \in Contents
  BY DEF NoStore, NoneWanted, Contents
<1>3. generation \in Nat /\ nonce \in Nat /\ StaleClear \in [generation : Nat, nonce : Nat]
  BY DEF TypeOK, OfferTypes, OwnerTypes, StaleClear
<1>4. CASE Retires
  <2>1. generation + 1 \in Nat /\ clears \cup {StaleClear} \subseteq [generation : Nat, nonce : Nat]
    BY <1>3 DEF TypeOK, OwnerTypes
  <2>2. 0 \in Nat /\ {} \subseteq Targets /\ {} \subseteq Replies /\ FALSE \in BOOLEAN
    OBVIOUS
  <2> QED
    BY <1>1, <1>2, <1>4, <2>1, <2>2, Invalidated DEF TypeOK, OfferTypes
<1>5. CASE ~Retires
  <2>1. UNCHANGED <<offer, fetched, clears>>
    BY <1>5, Invalidated
  <2> QED
    BY <2>1 DEF TypeOK, OfferTypes, OwnerTypes, ContentTypes, offer, fetched, Replies
<1> QED
  BY <1>4, <1>5

LEMMA Announced ==
    ASSUME TypeOK, Announce
    PROVE  copy' \in Nat /\ phases' \in Nat /\ copy' >= copy /\ copy' > 0
  BY DEF TypeOK, PeerTypes, Announce

\* a claim, and the provider that it is for
LEMMA Claims ==
    ASSUME TypeOK, NEW shape \in Shapes, NEW race \in Races, Claim(shape, race),
           generation' \in Nat, copy' \in Nat
    PROVE  \E p \in Providers :
             /\ p.type = "native" /\ p.generation = generation' /\ p.copy = copy'
             /\ TakeSelection(p, race)
             /\ claimed'.on = (race # "before") /\ claimed'.generation = generation'
             /\ claimed' \in [on : BOOLEAN, generation : Nat, targets : SUBSET Targets]
             /\ nativeOwner' = (race = "none") /\ nonce' = nonce + 1
             /\ embargo' = TRUE /\ localOwner' = FALSE /\ textOwner' = FALSE
<1> DEFINE p == [type |-> "native", generation |-> generation', copy |-> copy',
                 targets |-> shape.targets,
                 aliased |-> "uri" \in shape.targets /\ shape.eager # "text"]
<1>1. shape.targets \in SUBSET Targets
  BY Numbers
<1>2. p \in Providers /\ p.type = "native" /\ p.generation = generation' /\ p.copy = copy'
  BY <1>1 DEF Providers
<1>3. TakeSelection(p, race)
  BY DEF Claim
<1> HIDE DEF p
<1>4. claimed' = [on |-> race # "before", generation |-> generation', targets |-> shape.targets]
  BY DEF Claim
<1>5. claimed' \in [on : BOOLEAN, generation : Nat, targets : SUBSET Targets]
  BY <1>1, <1>4
<1>6. /\ nativeOwner' = (race = "none") /\ nonce' = nonce + 1
      /\ embargo' = TRUE /\ localOwner' = FALSE /\ textOwner' = FALSE
  BY DEF Claim
<1> QED
  BY <1>2, <1>3, <1>4, <1>5, <1>6

\* an offer, or another phase of the one that there is
LEMMA Offers ==
    ASSUME TypeOK, NEW shape \in Shapes, ManagedToken(shape)
    PROVE  /\ sock /\ active' = TRUE /\ source' = copy' /\ Announce
           /\ \/ source = copy' /\ generation' = generation
              \/ source # copy' /\ generation' = generation + 1
           /\ \/ /\ source = copy' /\ IsClaimed
                 /\ UNCHANGED <<xserver, claimed, nativeOwner, nonce, localOwner, textOwner, embargo>>
              \/ \E race \in Races : Claim(shape, race)
           /\ UNCHANGED <<sock, clears, reader, stack, pastes, stale, heard>>
  BY DEF ManagedToken

LEMMA InitTypes == Init => TypeOK
<1> SUFFICES ASSUME Init PROVE TypeOK
  OBVIOUS
<1>1. SelectionTypes
  <2>1. NoProvider \in Providers /\ events \in Seq(Events)
    BY DEF Init, NoProvider, Providers
  <2> QED
    BY <2>1 DEF Init, SelectionTypes, Nobody, Events, Providers
<1>2. OfferTypes /\ OwnerTypes
  BY DEF Init, OfferTypes, OwnerTypes, NotClaimed
<1>3. ContentTypes
  BY DEF Init, ContentTypes, NoStore, NoneWanted, Contents
<1>4. ThreadTypes /\ PeerTypes
  BY DEF Init, ThreadTypes, PeerTypes
<1>5. CallTypes
  <2>1. stack \in Seq(Emits \cup Pastes)
    BY DEF Init
  <2> QED
    BY <2>1 DEF Init, CallTypes, Emits, Pastes
<1> QED
  BY <1>1, <1>2, <1>3, <1>4, <1>5 DEF TypeOK

LEMMA LocalCopyTypes == TypeOK /\ LocalCopy => TypeOK'
<1> SUFFICES ASSUME TypeOK, LocalCopy
             PROVE  TypeOK'
  OBVIOUS
<1>1. serial \in Nat /\ takes + 1 \in Nat /\ events \in Seq(Events)
  BY DEF TypeOK, SelectionTypes, Events
<1>2. \A q \in Seq(Events) : events \o q \in Seq(Events)
  BY <1>1
<1>3. <<Change>> \in Seq(Events) /\ <<Clear(serial), Change>> \in Seq(Events)
  BY <1>1, EventTypes, ShortQueues
<1>4. takes' \in Nat /\ owner' \in Nat /\ events' \in Seq(Events)
  BY <1>1, <1>2, <1>3 DEF LocalCopy
<1>5. UNCHANGED <<raced, serial, provider, sock, offer, nativeOwner, retiring, fetched, threads,
                  proxy, stack, pastes, stale, heard, network, requests>>
  BY DEF LocalCopy
<1>6. SelectionTypes'
  BY <1>4, <1>5 DEF TypeOK, SelectionTypes, Events
<1> QED
  BY <1>5, <1>6, Same DEF TypeOK

LEMMA EventsTypes == TypeOK /\ events # <<>> => Head(events) \in Events /\ Tail(events) \in Seq(Events)
<1> SUFFICES ASSUME TypeOK, events # <<>>
             PROVE  Head(events) \in Events /\ Tail(events) \in Seq(Events)
  OBVIOUS
<1>1. events \in Seq(Events)
  BY DEF TypeOK, SelectionTypes, Events
<1> QED
  BY <1>1

LEMMA ClearIfStaleTypes == ASSUME TypeOK, NEW c \in clears, ClearIfStale(c) PROVE TypeOK'
<1>1. events \in Seq(Events) /\ Change \in Events
  BY EventTypes DEF TypeOK, SelectionTypes, Events
<1>2. Append(events, Change) \in Seq(Events)
  BY <1>1
<1>3. NoProvider \in Providers
  BY DEF NoProvider, Providers
<1>4. /\ owner' \in {owner, Nobody} /\ events' \in {events, Append(events, Change)}
      /\ provider' \in {provider, NoProvider} /\ nativeOwner' \in {nativeOwner, FALSE}
      /\ clears' \subseteq clears
  BY DEF ClearIfStale
<1>5. UNCHANGED <<takes, raced, serial, sock, offer, nonce, fetched, threads, proxy, stack, pastes,
                  stale, heard, network, requests>>
  BY DEF ClearIfStale
<1>6. SelectionTypes'
  <2>1. events' \in Seq(Events) /\ provider' \in Providers
    BY <1>1, <1>2, <1>3, <1>4 DEF TypeOK, SelectionTypes, Providers
  <2>2. owner' \in Nat \cup {Us} /\ takes' \in Nat /\ raced' \in BOOLEAN /\ serial' \in Nat
    BY <1>4, <1>5 DEF TypeOK, SelectionTypes, Nobody
  <2> QED
    BY <2>1, <2>2 DEF SelectionTypes, Events, Providers
<1>7. OwnerTypes'
  BY <1>4, <1>5 DEF TypeOK, OwnerTypes, proxy
<1> QED
  BY <1>5, <1>6, <1>7, Same DEF TypeOK

\* a callback for an offer that is over
LEMMA ClearDataTypes == TypeOK /\ ClearData => TypeOK'
<1> SUFFICES ASSUME TypeOK, ClearData
             PROVE  TypeOK'
  OBVIOUS
<1>1. events' \in Seq(Events)
  BY EventsTypes DEF ClearData
<1>2. /\ provider' \in {provider, NoProvider} /\ nativeOwner' \in {nativeOwner, FALSE}
      /\ localOwner' \in {localOwner, TRUE}
  BY DEF ClearData
<1>3. InvalidateNative(FALSE) \/ UNCHANGED <<offer, fetched, clears>>
  BY DEF ClearData
<1>4. UNCHANGED <<owner, takes, raced, serial, sock, nonce, threads, textOwner, embargo, stack,
                  pastes, stale, heard, network, requests>>
  BY DEF ClearData
<1>5. SelectionTypes'
  <2>1. NoProvider \in Providers
    BY DEF NoProvider, Providers
  <2>2. provider' \in Providers
    BY <1>2, <2>1 DEF TypeOK, SelectionTypes, Providers
  <2> QED
    BY <1>1, <1>4, <2>2 DEF TypeOK, SelectionTypes, Events, Providers
<1>6. CASE InvalidateNative(FALSE)
  <2>1. OfferTypes' /\ ContentTypes' /\ clears' \subseteq [generation : Nat, nonce : Nat]
    BY <1>6, InvalidatedTypes DEF OfferTypes, ContentTypes, Replies
  <2>2. OwnerTypes'
    BY <1>2, <1>4, <2>1 DEF TypeOK, OwnerTypes
  <2> QED
    BY <1>4, <1>5, <2>1, <2>2, Same DEF TypeOK
<1>7. CASE UNCHANGED <<offer, fetched, clears>>
  <2>1. OwnerTypes'
    BY <1>2, <1>4, <1>7 DEF TypeOK, OwnerTypes
  <2> QED
    BY <1>4, <1>5, <1>7, <2>1, Same DEF TypeOK
<1> QED
  BY <1>3, <1>6, <1>7

LEMMA OwnerChangedTypes == TypeOK /\ OwnerChanged => TypeOK'
<1> SUFFICES ASSUME TypeOK, OwnerChanged
             PROVE  TypeOK'
  OBVIOUS
<1>1. events' \in Seq(Events)
  BY EventsTypes DEF OwnerChanged
<1>2. [type |-> "emit", copy |-> owner] \in Emits
  BY DEF TypeOK, SelectionTypes, Emits
<1>3. stack \in Seq(Emits \cup Pastes)
  BY DEF TypeOK, CallTypes, Emits, Pastes
<1>4. stack' \in {stack, Append(stack, [type |-> "emit", copy |-> owner])}
  BY DEF OwnerChanged
<1>5. textOwner' \in {textOwner, FALSE} /\ localOwner' \in {localOwner, localOwner \/ textOwner}
  BY DEF OwnerChanged
<1>6. UNCHANGED <<owner, takes, raced, serial, provider, sock, offer, nativeOwner, retiring,
                  fetched, threads, embargo, pastes, stale, heard, network, requests>>
  BY DEF OwnerChanged
<1>7. SelectionTypes'
  BY <1>1, <1>6 DEF TypeOK, SelectionTypes, Events
<1>8. OwnerTypes'
  BY <1>5, <1>6 DEF TypeOK, OwnerTypes, retiring
<1>9. CallTypes'
  <2>1. stack' \in Seq(Emits \cup Pastes)
    BY <1>2, <1>3, <1>4
  <2> QED
    BY <1>6, <2>1 DEF TypeOK, CallTypes, Emits, Pastes
<1> QED
  BY <1>6, <1>7, <1>8, <1>9, Same DEF TypeOK

LEMMA StackTypes ==
    TypeOK /\ stack # <<>> => /\ Top \in Emits \cup Pastes /\ Pop \in Seq(Emits \cup Pastes)
                              /\ Len(Pop) = Len(stack) - 1
                              /\ \A i \in 1..Len(Pop) : Pop[i] = stack[i]
<1> SUFFICES ASSUME TypeOK, stack # <<>>
             PROVE  /\ Top \in Emits \cup Pastes /\ Pop \in Seq(Emits \cup Pastes)
                    /\ Len(Pop) = Len(stack) - 1
                    /\ \A i \in 1..Len(Pop) : Pop[i] = stack[i]
  OBVIOUS
<1>1. stack \in Seq(Emits \cup Pastes)
  BY DEF TypeOK, CallTypes, Emits, Pastes
<1>2. Len(stack) \in Nat /\ Len(stack) # 0
  BY <1>1
<1>3. Top \in Emits \cup Pastes
  BY <1>1, <1>2 DEF Top
<1>4. PICK n \in Int : n = Len(stack) - 1 /\ n >= 0
  BY <1>2
<1>5. \A i \in 1..n : stack[i] \in Emits \cup Pastes
  BY <1>1, <1>2, <1>4
<1>6. /\ SubSeq(stack, 1, n) \in Seq(Emits \cup Pastes)
      /\ Len(SubSeq(stack, 1, n)) = IF 1 <= n THEN n - 1 + 1 ELSE 0
      /\ \A i \in 1..n - 1 + 1 : SubSeq(stack, 1, n)[i] = stack[1 + i - 1]
  BY <1>5, SubSeqProperties
<1>7. Pop = SubSeq(stack, 1, n)
  BY <1>4 DEF Pop
<1> QED
  BY <1>2, <1>3, <1>4, <1>6, <1>7

LEMMA EmitTokenTypes == TypeOK /\ EmitToken => TypeOK'
<1> SUFFICES ASSUME TypeOK, EmitToken
             PROVE  TypeOK'
  OBVIOUS
<1>1. stack' \in Seq(Emits \cup Pastes) /\ Top \in Emits
  BY StackTypes DEF EmitToken, Pastes
<1>2. heard' \subseteq Nat \cup {Us}
  BY <1>1 DEF EmitToken, TypeOK, CallTypes, Emits
<1>3. UNCHANGED <<xserver, sock, offer, nativeOwner, retiring, fetched, threads, proxy, pastes,
                  stale, network, requests>>
  BY DEF EmitToken
<1>4. CallTypes'
  BY <1>1, <1>2, <1>3 DEF TypeOK, CallTypes, Emits, Pastes
<1> QED
  BY <1>3, <1>4, Same DEF TypeOK

LEMMA PasteReturnsTypes == TypeOK /\ PasteReturns => TypeOK'
<1> SUFFICES ASSUME TypeOK, PasteReturns
             PROVE  TypeOK'
  OBVIOUS
<1>1. stack' \in Seq(Emits \cup Pastes)
  BY StackTypes DEF PasteReturns
<1>2. stale' \in BOOLEAN
  BY DEF PasteReturns, TypeOK, CallTypes
<1>3. UNCHANGED <<xserver, sock, offer, nativeOwner, retiring, fetched, threads, proxy, pastes,
                  heard, network, requests>>
  BY DEF PasteReturns
<1>4. CallTypes'
  BY <1>1, <1>2, <1>3 DEF TypeOK, CallTypes, Emits, Pastes
<1> QED
  BY <1>3, <1>4, Same DEF TypeOK

LEMMA PlainTokenTypes == ASSUME TypeOK, NEW shape \in Shapes, PlainToken(shape) PROVE TypeOK'
<1>1. copy' \in Nat /\ phases' \in Nat
  BY Announced DEF PlainToken
<1>2. InvalidateNative(TRUE) /\ UNCHANGED <<sock, threads, stack, pastes, stale, heard, requests>>
  BY DEF PlainToken
<1>3. TextProvider \in Providers
  BY DEF TextProvider, NoProvider, Providers
<1>4. PeerTypes'
  BY <1>1, <1>2 DEF TypeOK, PeerTypes
<1>5. OfferTypes' /\ ContentTypes' /\ clears' \subseteq [generation : Nat, nonce : Nat]
  BY <1>2, InvalidatedTypes DEF OfferTypes, ContentTypes, Replies
<1>6. SelectionTypes' /\ OwnerTypes'
  <2>1. CASE shape.eager \in {"text", "files"}
    <3>1. PICK race \in Races :
              /\ TakeSelection(TextProvider, race)
              /\ nonce' = nonce + 1 /\ embargo' = TRUE
              /\ nativeOwner' = (nativeOwner /\ race = "before")
              /\ textOwner' = IF sock THEN race = "none" ELSE textOwner
              /\ localOwner' = IF sock THEN FALSE
                               ELSE \/ localOwner
                                    \/ /\ race # "before" /\ provider.type = "native"
                                       /\ claimed.on /\ claimed.generation = provider.generation
      BY <2>1 DEF PlainToken
    <3>2. SelectionTypes'
      <4>1. /\ takes' \in Nat /\ owner' \in Nat \cup {Us} /\ raced' \in BOOLEAN /\ serial' \in Nat
            /\ provider' \in Providers /\ events' \in Seq(Events)
        BY <1>3, <3>1, TakenTypes
      <4> QED
        BY <4>1 DEF SelectionTypes, Events, Providers
    <3>3. OwnerTypes'
      <4>1. nonce' \in Nat /\ sock' \in BOOLEAN /\ embargo' \in BOOLEAN
        BY <1>2, <3>1 DEF TypeOK, OwnerTypes
      <4>2. /\ nativeOwner' = TRUE \/ nativeOwner' = FALSE
            /\ textOwner' \in {TRUE, FALSE, textOwner}
            /\ localOwner' = TRUE \/ localOwner' = FALSE
        BY <3>1
      <4> QED
        BY <1>5, <4>1, <4>2 DEF TypeOK, OwnerTypes
    <3> QED
      BY <3>2, <3>3
  <2>2. CASE shape.eager \notin {"text", "files"}
    <3>1. /\ localOwner' = (localOwner \/ Retires)
          /\ UNCHANGED <<xserver, nativeOwner, nonce, textOwner, embargo>>
      BY <2>2 DEF PlainToken
    <3>2. OwnerTypes'
      BY <1>2, <1>5, <3>1 DEF TypeOK, OwnerTypes
    <3> QED
      BY <3>1, <3>2, Same DEF TypeOK
  <2> QED
    BY <2>1, <2>2
<1> QED
  BY <1>2, <1>4, <1>5, <1>6, Same DEF TypeOK

\* the selection after a token with an offer
LEMMA OfferedTypes ==
    ASSUME TypeOK, NEW shape \in Shapes, ManagedToken(shape)
    PROVE  /\ SelectionTypes' /\ OwnerTypes'
           /\ claimed' \in [on : BOOLEAN, generation : Nat, targets : SUBSET Targets]
           /\ copy' \in Nat /\ phases' \in Nat /\ generation' \in Nat
<1>1. copy' \in Nat /\ phases' \in Nat /\ generation' \in Nat
  <2>1. Announce /\ (generation' = generation \/ generation' = generation + 1)
    BY Offers, Zenon
  <2>2. generation \in Nat
    BY DEF TypeOK, OfferTypes
  <2> QED
    BY <2>1, <2>2, Announced
<1>2. UNCHANGED <<sock, clears>>
  BY Offers
<1>3. CASE UNCHANGED <<xserver, claimed, nativeOwner, nonce, localOwner, textOwner, embargo>>
  BY <1>1, <1>2, <1>3, Same DEF TypeOK, OwnerTypes, OfferTypes
<1>4. CASE \E race \in Races : Claim(shape, race)
  <2>1. PICK race \in Races : Claim(shape, race)
    BY <1>4
  <2>2. PICK p \in Providers :
             /\ p.type = "native" /\ p.generation = generation' /\ p.copy = copy'
             /\ TakeSelection(p, race)
             /\ claimed'.on = (race # "before") /\ claimed'.generation = generation'
             /\ claimed' \in [on : BOOLEAN, generation : Nat, targets : SUBSET Targets]
             /\ nativeOwner' = (race = "none") /\ nonce' = nonce + 1
             /\ embargo' = TRUE /\ localOwner' = FALSE /\ textOwner' = FALSE
    BY <1>1, <2>1, Claims
  <2>3. SelectionTypes'
    <3>1. /\ takes' \in Nat /\ owner' \in Nat \cup {Us} /\ raced' \in BOOLEAN /\ serial' \in Nat
          /\ provider' \in Providers /\ events' \in Seq(Events)
      BY <2>2, TakenTypes
    <3> QED
      BY <3>1 DEF SelectionTypes, Events, Providers
  <2>4. OwnerTypes'
    <3>1. nonce' \in Nat /\ sock' \in BOOLEAN
      BY <1>2, <2>2 DEF TypeOK, OwnerTypes
    <3> QED
      BY <1>2, <2>2, <3>1 DEF TypeOK, OwnerTypes
  <2> QED
    BY <1>1, <2>2, <2>3, <2>4
<1> QED
  BY <1>3, <1>4, Offers

LEMMA ManagedTokenTypes == ASSUME TypeOK, NEW shape \in Shapes, ManagedToken(shape) PROVE TypeOK'
<1>1. /\ shape.targets \subseteq Targets /\ shape.eager \in Eager /\ Managed \subseteq Targets
      /\ "uri" \in Managed
  BY Numbers DEF Targets, Managed
<1>2. copy' \in Nat /\ generation' \in Nat
  BY OfferedTypes
<1>3. Preferred(shape) \subseteq Managed
  BY <1>1 DEF Preferred
<1>4. /\ \/ targets' = targets \cup shape.targets
         \/ targets' = {} \cup shape.targets
      /\ \/ listed' = (shape.eager = "files")
         \/ listed' = listed
         \/ listed' = FALSE
      /\ inline' \in {copy', inline, Nothing}
      /\ responses' \in {responses, {}} /\ batches' \in {batches, {}}
      /\ wanted' \in {wanted, NoneWanted}
      /\ jobs' \in {jobs, jobs \cup {Job(generation', copy')}}
      /\ \E image \in {Unavailable, copy', store["image"], Nothing} :
         \E uri \in {store["uri"], Nothing} : store' = [image |-> image, uri |-> uri]
  BY DEF ManagedToken
<1>5. \/ requested' = (requested \cup (Managed \cap {shape.eager})) \cup Preferred(shape)
      \/ requested' = ({} \cup (Managed \cap {shape.eager})) \cup Preferred(shape)
  BY DEF ManagedToken
<1>6. \A r \in requests' : r \in requests \/ \E t \in Preferred(shape) : r = Request(generation', t, copy')
  BY DEF ManagedToken
<1>7. OfferTypes'
  <2>1. targets' \subseteq Targets /\ listed' \in BOOLEAN
    BY <1>1, <1>4 DEF TypeOK, OfferTypes
  <2>2. active' = TRUE /\ source' \in Nat
    BY <1>2, Offers
  <2> QED
    BY <2>1, <2>2, OfferedTypes DEF OfferTypes
<1>8. ContentTypes'
  <2>1. requested' \subseteq Targets
    BY <1>1, <1>3, <1>5 DEF TypeOK, ContentTypes
  <2>2. inline' \in Contents /\ responses' \subseteq Replies /\ wanted' \in [Managed -> Nat]
    BY <1>2, <1>4 DEF TypeOK, ContentTypes, Contents, Nothing, NoneWanted, Replies
  <2>3. store' \in [Managed -> Contents]
    <3>1. store["image"] \in Contents /\ store["uri"] \in Contents
      BY DEF TypeOK, ContentTypes, Managed
    <3>2. PICK image \in Contents, uri \in Contents : store' = [image |-> image, uri |-> uri]
      BY <1>2, <1>4, <3>1 DEF Contents, Nothing, Unavailable
    <3> QED
      BY <3>2 DEF Managed
  <2> QED
    BY <2>1, <2>2, <2>3 DEF ContentTypes, Replies
<1>9. ThreadTypes'
  <2>1. Job(generation', copy') \in [generation : Nat, copy : Nat, state : {"new", "registered", "raised"}]
    BY <1>2 DEF Job
  <2>2. reader' = reader
    BY Offers
  <2> QED
    BY <1>4, <2>1, <2>2 DEF TypeOK, ThreadTypes
<1>10. PeerTypes'
  <2>1. \A t \in Targets : Request(generation', t, copy') \in [generation : Nat, target : Targets, since : Nat]
    BY <1>2 DEF Request
  <2> QED
    BY <1>1, <1>3, <1>6, <2>1, OfferedTypes DEF TypeOK, PeerTypes
<1> QED
  BY <1>7, <1>8, <1>9, <1>10, OfferedTypes, Offers, Same DEF TypeOK

\* what a reply changes, if it is for the offer that there is
LEMMA Delivered ==
    ASSUME TypeOK, NEW r \in requests, NEW c \in Nat, Deliver(r, c)
    PROVE  \/ UNCHANGED <<inline, store, jobs>>
           \/ /\ r.generation = generation
              /\ inline' \in {inline, c}
              /\ \/ store' = store
                 \/ \E t \in Managed, x \in {c, Unavailable} : store' = [store EXCEPT ![t] = x]
              /\ \/ jobs' = jobs
                 \/ jobs' = jobs \cup {Job(generation, source)}
                 \/ c # Unavailable /\ jobs' = jobs \cup {Job(generation, c)}
<1>1. CASE ~Expected(r)
  BY <1>1 DEF Deliver
<1>2. CASE Expected(r)
  <2>1. r.generation = generation /\ r.target \in Targets
    BY <1>2 DEF Expected, TypeOK, PeerTypes
  <2>2. CASE r.target = "text"
    BY <1>2, <2>1, <2>2 DEF Deliver
  <2>3. CASE r.target = "uri" /\ (c # Unavailable \/ listed)
    BY <1>2, <2>1, <2>3 DEF Deliver
  <2>4. CASE r.target # "text" /\ ~(r.target = "uri" /\ (c # Unavailable \/ listed))
    <3>1. r.target \in Managed
      BY <2>1, <2>4 DEF Targets
    <3>2. /\ \E complete \in BOOLEAN :
               store' = [store EXCEPT ![r.target] = IF complete THEN c ELSE Unavailable]
          /\ UNCHANGED <<inline, jobs>>
      BY <1>2, <2>4 DEF Deliver
    <3> QED
      BY <2>1, <3>1, <3>2
  <2> QED
    BY <2>2, <2>3, <2>4
<1> QED
  BY <1>1, <1>2

LEMMA ReplyTypes == ASSUME TypeOK, NEW r \in requests, NEW c \in Nat, Reply(r, c) PROVE TypeOK'
<1>1. /\ requests' = requests \ {r} /\ Deliver(r, c)
      /\ UNCHANGED <<xserver, sock, offer, nativeOwner, retiring, requested, responses, wanted,
                     batches, reader, proxy, stack, pastes, stale, heard, network>>
  BY DEF Reply
<1>2. inline' \in Contents /\ store' \in [Managed -> Contents]
  <2>1. c \in Contents /\ Unavailable \in Contents
    BY DEF Contents, Unavailable
  <2> QED
    BY <1>1, <2>1, Delivered DEF TypeOK, ContentTypes
<1>3. jobs' \subseteq [generation : Nat, copy : Nat, state : {"new", "registered", "raised"}]
  <2>1. \A x \in Nat : Job(generation, x) \in [generation : Nat, copy : Nat, state : {"new", "registered", "raised"}]
    BY DEF Job, TypeOK, OfferTypes
  <2>2. source \in Nat
    BY DEF TypeOK, OfferTypes
  <2> QED
    BY <1>1, <2>1, <2>2, Delivered DEF TypeOK, ThreadTypes
<1>4. ContentTypes' /\ ThreadTypes' /\ PeerTypes'
  BY <1>1, <1>2, <1>3 DEF TypeOK, ContentTypes, ThreadTypes, PeerTypes, network
<1> QED
  BY <1>1, <1>4, Same DEF TypeOK

\* replies are not older than their requests
LEMMA RepliesSince ==
    ASSUME TypeOK, NEW r \in requests, PeerReply(r) \/ RequestTimeout(r)
    PROVE  \E c \in Nat : Reply(r, c) /\ (c = Unavailable \/ c >= r.since)
<1>1. r.since \in Nat /\ copy \in Nat /\ Unavailable = 0
  BY DEF TypeOK, PeerTypes, Unavailable
<1>2. CASE RequestTimeout(r)
  BY <1>1, <1>2 DEF RequestTimeout
<1>3. CASE PeerReply(r)
  <2>1. PICK c \in {Unavailable} \cup (r.since .. copy) : Reply(r, c)
    BY <1>3 DEF PeerReply
  <2>2. c \in Nat /\ (c = Unavailable \/ c >= r.since)
    BY <1>1, <2>1
  <2> QED
    BY <2>1, <2>2
<1> QED
  BY <1>2, <1>3

LEMMA TakeBatchTypes == ASSUME TypeOK, NEW j \in jobs, TakeBatch(j) PROVE TypeOK'
<1>1. j \in [generation : Nat, copy : Nat, state : {"new", "registered", "raised"}] /\ generation \in Nat
  BY DEF TypeOK, ThreadTypes, OfferTypes
<1>2. \A s \in {"registered", "raised"} :
        [j EXCEPT !.state = s] \in [generation : Nat, copy : Nat, state : {"new", "registered", "raised"}]
  BY <1>1
<1>3. /\ batches' \in {batches, batches \cup {generation}}
      /\ jobs' \in {jobs \ {j}, InState(j, "registered"), InState(j, "raised")}
      /\ UNCHANGED <<xserver, sock, offer, nativeOwner, retiring, fetched, reader, proxy, stack,
                     pastes, stale, heard, network, requests>>
  BY DEF TakeBatch
<1>4. ThreadTypes'
  BY <1>1, <1>2, <1>3 DEF TypeOK, ThreadTypes, InState
<1> QED
  BY <1>3, <1>4, Same DEF TypeOK

LEMMA SendBatchTypes == ASSUME TypeOK, NEW j \in jobs, SendBatch(j) PROVE TypeOK'
<1>1. j.copy \in Contents /\ Unavailable \in Contents /\ "uri" \in Managed
  BY DEF TypeOK, ThreadTypes, Contents, Unavailable, Managed
<1>4. [j EXCEPT !.state = "raised"] \in [generation : Nat, copy : Nat, state : {"new", "registered", "raised"}]
  BY DEF TypeOK, ThreadTypes
<1>2. /\ jobs' \in {jobs \ {j}, InState(j, "raised")}
      /\ \E c \in {Unavailable, j.copy} : store' \in {store, [store EXCEPT !["uri"] = c]}
      /\ UNCHANGED <<xserver, sock, offer, nativeOwner, retiring, requested, inline, responses,
                     wanted, batches, reader, proxy, stack, pastes, stale, heard, network, requests>>
  BY DEF SendBatch
<1>3. ContentTypes' /\ ThreadTypes'
  BY <1>1, <1>2, <1>4 DEF TypeOK, ContentTypes, ThreadTypes, InState
<1> QED
  BY <1>2, <1>3, Same DEF TypeOK

\* what the broker answers
LEMMA Answered ==
    ASSUME TypeOK, NEW t \in Managed, DataResponse(t) \/ EmptyResponse(t)
    PROVE  /\ \E c \in Nat : /\ reader' = [generation |-> generation, target |-> t, copy |-> c]
                             /\ c = Unavailable \/ c = store[t]
           /\ wanted[t] > 0 /\ wanted' = [wanted EXCEPT ![t] = @ - 1]
           /\ UNCHANGED <<xserver, sock, offer, nativeOwner, retiring, requested, inline, responses,
                          store, batches, jobs, proxy, stack, pastes, stale, heard, network, requests>>
<1>1. store[t] \in Nat \cup {Nothing} /\ Unavailable \in Nat
  BY DEF TypeOK, ContentTypes, Contents, Unavailable
<1>2. CASE DataResponse(t)
  <2>1. store[t] \in Nat /\ BrokerAnswers(t, store[t])
    BY <1>1, <1>2 DEF DataResponse
  <2> QED
    BY <2>1 DEF BrokerAnswers
<1>3. CASE EmptyResponse(t)
  BY <1>1, <1>3 DEF EmptyResponse, BrokerAnswers
<1> QED
  BY <1>2, <1>3

LEMMA AnsweredTypes == ASSUME TypeOK, NEW t \in Managed, DataResponse(t) \/ EmptyResponse(t) PROVE TypeOK'
<1>1. wanted' \in [Managed -> Nat]
  BY Answered DEF TypeOK, ContentTypes
<1>2. reader' \in [generation : Nat, target : Managed, copy : Nat]
  BY Answered DEF TypeOK, OfferTypes
<1>3. ContentTypes' /\ ThreadTypes'
  BY <1>1, <1>2, Answered DEF TypeOK, ContentTypes, ThreadTypes
<1> QED
  BY <1>3, Answered, Same DEF TypeOK

LEMMA StoreResponseTypes == TypeOK /\ StoreResponse => TypeOK'
<1> SUFFICES ASSUME TypeOK, StoreResponse
             PROVE  TypeOK'
  OBVIOUS
<1>1. /\ reader # NoResponse /\ reader' = NoResponse /\ responses' \subseteq responses \cup {reader}
      /\ UNCHANGED <<xserver, sock, offer, nativeOwner, retiring, requested, inline, store, wanted,
                     batches, jobs, proxy, stack, pastes, stale, heard, network, requests>>
  BY DEF StoreResponse
<1>2. ContentTypes' /\ ThreadTypes'
  BY <1>1 DEF TypeOK, ContentTypes, ThreadTypes
<1> QED
  BY <1>1, <1>2, Same DEF TypeOK

LEMMA BrokerLostTypes == TypeOK /\ BrokerLost => TypeOK'
<1> SUFFICES ASSUME TypeOK, BrokerLost
             PROVE  TypeOK'
  OBVIOUS
<1>1. OwnerTypes'
  BY DEF BrokerLost, TypeOK, OwnerTypes, retiring, proxy
<1> QED
  BY <1>1, Same DEF BrokerLost, TypeOK

\* a paste calls for what the provider has, or comes to nothing
LEMMA Pasted ==
    ASSUME TypeOK, NEW t \in Targets \cup {"alias"}, Paste(t)
    PROVE  /\ provider.type = "native" /\ pastes' = pastes + 1
           /\ \/ UNCHANGED <<requested, requests, wanted, stack>>
              \/ /\ provider.generation = generation /\ active
                 /\ \E key \in Targets, ask \in SUBSET Targets :
                      /\ requested' = requested \cup ask
                      /\ requests' = requests \cup {Request(generation, x, copy) : x \in ask}
                      /\ wanted' \in {wanted} \cup {[wanted EXCEPT ![m] = @ + 1] : m \in Managed}
                      /\ stack' = Append(stack, [type |-> "paste", target |-> key,
                                                 generation |-> generation, copy |-> provider.copy])
           /\ UNCHANGED <<xserver, sock, offer, nativeOwner, retiring, inline, responses, store, threads,
                          proxy, stale, heard, network>>
<1> DEFINE key == IF IsLocal(provider, t) THEN "uri" ELSE t
           ask == IF IsLocal(provider, t) THEN {} ELSE {t} \ requested
<1>1. key \in Targets /\ ask \in SUBSET Targets
  BY DEF IsLocal, Targets, Managed
<1>2. CASE provider.generation # generation \/ ~active
  BY <1>2 DEF Paste
<1>3. CASE ~(provider.generation # generation \/ ~active)
  <2>1. /\ requested' = requested \cup ask
        /\ requests' = requests \cup {Request(generation, x, copy) : x \in ask}
        /\ wanted' = IF sock /\ key \in Managed THEN [wanted EXCEPT ![key] = @ + 1] ELSE wanted
        /\ stack' = Append(stack, [type |-> "paste", target |-> key,
                                   generation |-> generation, copy |-> provider.copy])
    BY <1>3 DEF Paste
  <2> HIDE DEF key, ask
  <2>2. wanted' \in {wanted} \cup {[wanted EXCEPT ![m] = @ + 1] : m \in Managed}
    BY <2>1
  <2> QED
    BY <1>1, <1>3, <2>1, <2>2 DEF Paste
<1> QED
  BY <1>2, <1>3

LEMMA PasteTypes == ASSUME TypeOK, NEW t \in Targets \cup {"alias"}, Paste(t) PROVE TypeOK'
<1>1. UNCHANGED <<xserver, sock, offer, nativeOwner, retiring, inline, responses, store, threads,
                  proxy, stale, heard, network>>
  BY Pasted
<1>2. CASE UNCHANGED <<requested, requests, wanted, stack>>
  <2>1. CallTypes' /\ ContentTypes' /\ PeerTypes'
    BY <1>1, <1>2, Pasted DEF TypeOK, CallTypes, ContentTypes, PeerTypes, network
  <2> QED
    BY <1>1, <2>1, Same DEF TypeOK
<1>3. CASE ~UNCHANGED <<requested, requests, wanted, stack>>
  <2>1. PICK key \in Targets, ask \in SUBSET Targets :
           /\ requested' = requested \cup ask
           /\ requests' = requests \cup {Request(generation, x, copy) : x \in ask}
           /\ wanted' \in {wanted} \cup {[wanted EXCEPT ![m] = @ + 1] : m \in Managed}
           /\ stack' = Append(stack, [type |-> "paste", target |-> key,
                                      generation |-> generation, copy |-> provider.copy])
    BY <1>3, Pasted
  <2>2. CallTypes'
    <3>1. [type |-> "paste", target |-> key, generation |-> generation, copy |-> provider.copy] \in Pastes
      BY DEF TypeOK, OfferTypes, SelectionTypes, Pastes
    <3>2. stack \in Seq(Emits \cup Pastes)
      BY DEF TypeOK, CallTypes, Emits, Pastes
    <3>3. stack' \in Seq(Emits \cup Pastes)
      BY <2>1, <3>1, <3>2
    <3>4. pastes' \in Nat
      BY Pasted DEF TypeOK, CallTypes
    <3> QED
      BY <1>1, <3>3, <3>4 DEF TypeOK, CallTypes, Emits, Pastes
  <2>3. ContentTypes'
    <3>1. wanted' \in [Managed -> Nat]
      BY <2>1 DEF TypeOK, ContentTypes
    <3> QED
      BY <1>1, <2>1, <3>1 DEF TypeOK, ContentTypes
  <2>4. PeerTypes'
    <3>1. \A x \in Targets : Request(generation, x, copy) \in [generation : Nat, target : Targets, since : Nat]
      BY DEF Request, TypeOK, OfferTypes, PeerTypes
    <3> QED
      BY <1>1, <2>1, <3>1 DEF TypeOK, PeerTypes, network
  <2> QED
    BY <1>1, <2>2, <2>3, <2>4, Same DEF TypeOK
<1> QED
  BY <1>2, <1>3

\* one step of the system
LEMMA NextTypes == TypeOK /\ [Next]_vars => TypeOK'
<1> SUFFICES ASSUME TypeOK, [Next]_vars
             PROVE  TypeOK'
  OBVIOUS
<1>1. CASE LocalCopy
  BY <1>1, LocalCopyTypes
<1>2. CASE \E c \in clears : ClearIfStale(c)
  BY <1>2, ClearIfStaleTypes
<1>3. CASE ClearData \/ OwnerChanged \/ EmitToken
  BY <1>3, ClearDataTypes, OwnerChangedTypes, EmitTokenTypes
<1>4. CASE \E shape \in Shapes : PlainToken(shape) \/ ManagedToken(shape)
  BY <1>4, PlainTokenTypes, ManagedTokenTypes
<1>5. CASE \E r \in requests : PeerReply(r) \/ RequestTimeout(r)
  <2>1. PICK r \in requests : PeerReply(r) \/ RequestTimeout(r)
    BY <1>5
  <2>2. PICK c \in Nat : Reply(r, c)
    BY <2>1, RepliesSince
  <2> QED
    BY <2>2, ReplyTypes
<1>6. CASE \E j \in jobs : TakeBatch(j) \/ SendBatch(j)
  BY <1>6, TakeBatchTypes, SendBatchTypes
<1>7. CASE \E t \in Managed : DataResponse(t) \/ EmptyResponse(t)
  BY <1>7, AnsweredTypes
<1>8. CASE StoreResponse \/ BrokerLost \/ PasteReturns
  BY <1>8, StoreResponseTypes, BrokerLostTypes, PasteReturnsTypes
<1>9. CASE \E t \in Targets \cup {"alias"} : Paste(t)
  BY <1>9, PasteTypes
<1>10. CASE UNCHANGED vars
  BY <1>10, Same DEF TypeOK, vars
<1> QED
  BY <1>1, <1>2, <1>3, <1>4, <1>5, <1>6, <1>7, <1>8, <1>9, <1>10 DEF Next

\* The state of the selection, the bridge, the proxy, the peer and the broker keeps its types.
THEOREM TypeCorrect == Spec => []TypeOK
<1> QED
  BY InitTypes, NextTypes, PTL DEF Spec

----------------------------------------------------------------------------
(* Whose the selection is.                                                  *)

\* a claim is for the offer, and for what GTK serves as long as there is a broker
ClaimInv ==
    /\ claimed.on => active
    /\ sock /\ claimed.on => /\ provider.type = "native" /\ provider.generation = generation
                             /\ claimed.generation = generation

ReleaseInv ==
    /\ owner = Us /\ provider.type = "native" => nativeOwner
    /\ RetiredIsReleased

\* a clear event that GTK would heed says that the selection is another's
Clears == \A i \in 1..Len(events) : events[i].type = "clear" =>
             events[i].serial <= serial /\ (events[i].serial = serial => owner # Us)

\* and what we have put in the selection is known to be ours
OwnInv ==
    /\ Clears
    /\ sock /\ owner = Us => \/ provider.type = "native" /\ nativeOwner
                             \/ provider.type = "text" /\ textOwner

\* local copies are expected once an offer is over, unless another came after it
OverInv ==
    /\ \A c \in clears : c.nonce <= nonce /\ (c.nonce = nonce => localOwner)
    /\ sock /\ owner = Us => claimed.on \/ localOwner \/ textOwner

SelectionInv == TypeOK /\ ClaimInv /\ ReleaseInv /\ OwnInv /\ OverInv

\* nothing that any of this is about
Quiet == /\ UNCHANGED <<owner, raced, events, serial, provider, generation, active, claimed, source,
                        nativeOwner, nonce, clears, localOwner, textOwner, embargo>>
         /\ sock' = sock \/ sock' = FALSE

LEMMA QuietSteps ==
    /\ EmitToken \/ StoreResponse \/ BrokerLost \/ PasteReturns \/ UNCHANGED vars => Quiet
    /\ \A r, c : Reply(r, c) => Quiet
    /\ \A j : TakeBatch(j) \/ SendBatch(j) => Quiet
    /\ \A t, c : BrokerAnswers(t, c) => Quiet
    /\ \A t : Paste(t) => Quiet
<1> USE DEF Quiet, xserver, offer, retiring, proxy
<1>1. EmitToken \/ StoreResponse \/ BrokerLost \/ PasteReturns => Quiet
  BY DEF EmitToken, StoreResponse, BrokerLost, PasteReturns
<1>2. UNCHANGED vars => Quiet
  BY DEF vars
<1>3. ASSUME NEW r, NEW c, Reply(r, c) PROVE Quiet
  BY <1>3 DEF Reply
<1>4. ASSUME NEW j, TakeBatch(j) \/ SendBatch(j) PROVE Quiet
  BY <1>4 DEF TakeBatch, SendBatch
<1>5. ASSUME NEW t, NEW c, BrokerAnswers(t, c) PROVE Quiet
  BY <1>5 DEF BrokerAnswers
<1>6. ASSUME NEW t, Paste(t) PROVE Quiet
  BY <1>6 DEF Paste
<1> QED
  BY <1>1, <1>2, <1>3, <1>4, <1>5, <1>6

\* a token without an offer, with text that is put in the selection or without
Texts(race) ==
    /\ TakeSelection(TextProvider, race)
    /\ nonce' = nonce + 1 /\ embargo' = TRUE
    /\ nativeOwner' = (nativeOwner /\ race = "before")
    /\ sock => textOwner' = (race = "none") /\ localOwner' = FALSE
    /\ ~sock => textOwner' = textOwner
NoText ==
    /\ localOwner' = (localOwner \/ Retires)
    /\ UNCHANGED <<xserver, nativeOwner, nonce, textOwner, embargo>>

LEMMA Plain ==
    ASSUME NEW shape \in Shapes, PlainToken(shape)
    PROVE  /\ InvalidateNative(TRUE) /\ Announce
           /\ UNCHANGED <<sock, threads, stack, pastes, stale, heard, requests>>
           /\ NoText \/ \E race \in Races : Texts(race)
<1>1. CASE shape.eager \in {"text", "files"}
  BY <1>1 DEF PlainToken, Texts
<1>2. CASE shape.eager \notin {"text", "files"}
  BY <1>2 DEF PlainToken, NoText
<1> QED
  BY <1>1, <1>2

\* a token with an offer
Claimed(race) ==
    \E p \in Providers :
       /\ p.type = "native" /\ p.generation = generation' /\ p.copy = copy'
       /\ TakeSelection(p, race)
       /\ claimed'.on = (race # "before") /\ claimed'.generation = generation'
       /\ nativeOwner' = (race = "none") /\ nonce' = nonce + 1
       /\ embargo' = TRUE /\ localOwner' = FALSE /\ textOwner' = FALSE
Merged ==
    /\ source = copy' /\ IsClaimed
    /\ UNCHANGED <<xserver, claimed, nativeOwner, nonce, localOwner, textOwner, embargo>>

LEMMA OfferClaims ==
    ASSUME TypeOK, NEW shape \in Shapes, ManagedToken(shape)
    PROVE  /\ sock /\ sock' = sock /\ active' = TRUE /\ clears' = clears
           /\ \/ source = copy' /\ generation' = generation
              \/ source # copy' /\ generation' = generation + 1
           /\ Merged \/ \E race \in Races : Claimed(race)
<1>1. /\ sock /\ sock' = sock /\ active' = TRUE /\ clears' = clears
      /\ \/ source = copy' /\ generation' = generation
         \/ source # copy' /\ generation' = generation + 1
  BY Offers
<1>2. Merged \/ \E race \in Races : Claim(shape, race)
  BY Offers DEF Merged
<1>3. ASSUME NEW race \in Races, Claim(shape, race) PROVE Claimed(race)
  <2>1. generation' \in Nat /\ copy' \in Nat
    BY OfferedTypes
  <2> QED
    BY <1>3, <2>1, Claims DEF Claimed
<1> QED
  BY <1>1, <1>2, <1>3

----------------------------------------------------------------------------
LEMMA ClaimStep ==
    ASSUME TypeOK, ClaimInv, [Next]_vars
    PROVE  ClaimInv'
<1> USE DEF ClaimInv
<1>1. CASE Quiet
  BY <1>1 DEF Quiet
<1>2. CASE LocalCopy
  BY <1>2 DEF LocalCopy, offer
<1>3. ASSUME NEW c \in clears, ClearIfStale(c) PROVE ClaimInv'
  <2>1. UNCHANGED <<offer, sock>> /\ (provider' = provider \/ ~active)
    BY <1>3 DEF ClearIfStale
  <2> QED
    BY <2>1 DEF offer
<1>4. CASE ClearData
  <2>1. sock' = sock
    BY <1>4 DEF ClearData
  <2>2. CASE ~sock
    <3>1. UNCHANGED offer
      BY <1>4, <2>2 DEF ClearData, InvalidateNative, Retires
    <3> QED
      BY <2>1, <2>2, <3>1 DEF offer
  <2>3. CASE sock /\ claimed.on
    <3>1. \/ UNCHANGED <<offer, provider>>
          \/ InvalidateNative(FALSE)
      BY <1>4, <2>3 DEF ClearData
    <3>2. CASE InvalidateNative(FALSE)
      <4>1. claimed' = NotClaimed
        BY <2>3, <3>2, Invalidated DEF Retires
      <4> QED
        BY <4>1 DEF NotClaimed
    <3>3. CASE UNCHANGED <<offer, provider>>
      BY <2>1, <3>3 DEF offer
    <3> QED
      BY <3>1, <3>2, <3>3
  <2>4. CASE sock /\ ~claimed.on
    <3>1. UNCHANGED offer
      BY <1>4, <2>4 DEF ClearData
    <3> QED
      BY <2>4, <3>1 DEF offer
  <2> QED
    BY <2>2, <2>3, <2>4
<1>5. CASE OwnerChanged
  BY <1>5 DEF OwnerChanged, offer
<1>6. ASSUME NEW shape \in Shapes, PlainToken(shape) PROVE ClaimInv'
  <2>1. sock' = sock /\ InvalidateNative(TRUE)
    BY <1>6, Plain
  <2>2. CASE Retires
    <3>1. claimed' = NotClaimed
      BY <2>1, <2>2, Invalidated
    <3> QED
      BY <3>1 DEF NotClaimed
  <2>3. CASE ~Retires
    <3>1. UNCHANGED <<active, claimed>>
      BY <2>1, <2>3, Invalidated DEF offer
    <3>2. ~sock \/ ~claimed.on
      BY <2>3 DEF Retires
    <3> QED
      BY <2>1, <3>1, <3>2
  <2> QED
    BY <2>2, <2>3
<1>7. ASSUME NEW shape \in Shapes, ManagedToken(shape) PROVE ClaimInv'
  <2>1. active' = TRUE /\ (Merged \/ \E race \in Races : Claimed(race))
    BY <1>7, OfferClaims
  <2>2. CASE Merged
    <3>1. sock /\ generation' = generation
      BY <1>7, <2>2, OfferClaims DEF Merged
    <3> QED
      BY <2>1, <2>2, <3>1 DEF Merged, xserver
  <2>3. ASSUME NEW race \in Races, Claimed(race) PROVE ClaimInv'
    <3>1. PICK p \in Providers :
            /\ p.type = "native" /\ p.generation = generation' /\ TakeSelection(p, race)
            /\ claimed'.on = (race # "before") /\ claimed'.generation = generation'
      BY <2>3 DEF Claimed
    <3>2. race = "before" \/ provider' = p
      BY <3>1, Taken
    <3> QED
      BY <2>1, <3>1, <3>2
  <2> QED
    BY <2>1, <2>2, <2>3
<1> QED
  BY <1>1, <1>2, <1>3, <1>4, <1>5, <1>6, <1>7, QuietSteps
     DEF Next, PeerReply, RequestTimeout, DataResponse, EmptyResponse

\* a copy is nobody's but the application's that made it
LEMMA Copies == TypeOK => takes \in Nat /\ takes + 1 # Us /\ takes + 1 > 0
  BY Numbers DEF TypeOK, SelectionTypes

LEMMA ReleaseStep ==
    ASSUME TypeOK, ClaimInv, ReleaseInv, [Next]_vars
    PROVE  ReleaseInv'
<1> USE DEF ReleaseInv
<1>1. CASE Quiet
  BY <1>1 DEF Quiet, RetiredIsReleased
<1>2. ASSUME owner' # Us \/ provider'.type # "native" PROVE ReleaseInv'
  BY <1>2 DEF RetiredIsReleased
<1>3. CASE LocalCopy
  <2>1. owner' # Us
    BY <1>3, Numbers DEF LocalCopy, TypeOK, SelectionTypes
  <2> QED
    BY <1>2, <2>1
<1>4. ASSUME NEW c \in clears, ClearIfStale(c) PROVE ReleaseInv'
  <2>1. UNCHANGED <<generation, active, nonce>> /\ clears' = clears \ {c}
    BY <1>4 DEF ClearIfStale, offer
  <2>2. CASE generation = c.generation + 1 /\ ~active /\ nonce = c.nonce /\ OwnsNative
    <3>1. owner' # Us
      BY <1>4, <2>2 DEF ClearIfStale, Nobody, Us
    <3> QED
      BY <1>2, <3>1
  <2>3. CASE ~(generation = c.generation + 1 /\ ~active /\ nonce = c.nonce /\ OwnsNative)
    <3>1. UNCHANGED <<owner, provider, nativeOwner>>
      BY <1>4, <2>3 DEF ClearIfStale
    <3>2. SUFFICES ASSUME owner = Us, provider.type = "native", provider.generation # generation
                   PROVE  \E d \in clears' : d.generation + 1 = generation /\ d.nonce = nonce
                                             /\ nativeOwner /\ ~active
      BY <2>1, <3>1 DEF RetiredIsReleased
    <3>3. PICK d \in clears : d.generation + 1 = generation /\ d.nonce = nonce /\ nativeOwner /\ ~active
      BY <3>2 DEF RetiredIsReleased
    <3>4. d # c
      BY <2>3, <3>2, <3>3 DEF OwnsNative
    <3> QED
      BY <2>1, <3>3, <3>4
  <2> QED
    BY <2>2, <2>3
<1>5. CASE ClearData
  <2>1. CASE provider' = NoProvider
    BY <1>2, <2>1 DEF NoProvider
  <2>2. CASE provider' # NoProvider
    <3>1. /\ UNCHANGED <<owner, nonce, provider, nativeOwner, offer, clears>>
      BY <1>5, <2>2 DEF ClearData
    <3> QED
      BY <3>1 DEF RetiredIsReleased, offer
  <2> QED
    BY <2>1, <2>2
<1>6. CASE OwnerChanged
  BY <1>6 DEF OwnerChanged, offer, retiring, RetiredIsReleased
<1>7. ASSUME NEW shape \in Shapes, PlainToken(shape) PROVE ReleaseInv'
  <2>1. InvalidateNative(TRUE) /\ (NoText \/ \E race \in Races : Texts(race))
    BY <1>7, Plain
  <2>2. CASE NoText
    <3>1. UNCHANGED <<owner, provider, nativeOwner, nonce>>
      BY <2>2 DEF NoText, xserver
    <3>2. CASE Retires
      <4>1. /\ generation' = generation + 1 /\ active' = FALSE
            /\ clears' = clears \cup {StaleClear}
        BY <2>1, <3>2, Invalidated
      <4>2. /\ StaleClear \in clears' /\ StaleClear.generation = generation
            /\ StaleClear.nonce = nonce
        BY <4>1 DEF StaleClear
      <4> QED
        BY <3>1, <4>1, <4>2 DEF RetiredIsReleased
    <3>3. CASE ~Retires
      <4>1. UNCHANGED <<generation, active, clears>>
        BY <2>1, <3>3, Invalidated DEF offer
      <4> QED
        BY <3>1, <4>1 DEF RetiredIsReleased
    <3> QED
      BY <3>2, <3>3
  <2>3. ASSUME NEW race \in Races, Texts(race) PROVE ReleaseInv'
    <3>1. owner' # Us \/ provider' = TextProvider
      BY <2>3, Taken, Copies DEF Texts
    <3> QED
      BY <1>2, <3>1 DEF TextProvider, NoProvider
  <2> QED
    BY <2>1, <2>2, <2>3
<1>8. ASSUME NEW shape \in Shapes, ManagedToken(shape) PROVE ReleaseInv'
  <2>1. CASE Merged
    <3>1. generation' = generation /\ clears' = clears /\ active
      BY <1>8, <2>1, OfferClaims DEF Merged, IsClaimed
    <3>2. UNCHANGED <<owner, provider, nativeOwner, nonce>>
      BY <2>1 DEF Merged, xserver
    <3> QED
      BY <3>1, <3>2 DEF RetiredIsReleased
  <2>2. ASSUME NEW race \in Races, Claimed(race) PROVE ReleaseInv'
    <3>1. PICK p \in Providers :
            /\ p.type = "native" /\ p.generation = generation' /\ TakeSelection(p, race)
            /\ nativeOwner' = (race = "none")
      BY <2>2 DEF Claimed
    <3>2. owner' # Us \/ (race = "none" /\ provider' = p)
      BY <3>1, Taken, Copies
    <3> QED
      BY <1>2, <3>1, <3>2 DEF RetiredIsReleased
  <2> QED
    BY <1>8, <2>1, <2>2, OfferClaims
<1> QED
  BY <1>1, <1>3, <1>4, <1>5, <1>6, <1>7, <1>8, QuietSteps
     DEF Next, PeerReply, RequestTimeout, DataResponse, EmptyResponse

\* the events after one of them has been handled, and with others behind them
LEMMA Handled ==
    ASSUME TypeOK, events # <<>>, events' = Tail(events)
    PROVE  /\ Len(events') = Len(events) - 1 /\ Len(events) \in Nat \ {0}
           /\ \A i \in 1..Len(events') : i + 1 \in 1..Len(events) /\ events'[i] = events[i + 1]
           /\ 1 \in 1..Len(events) /\ events[1] = Head(events)
<1>1. events \in Seq(Events)
  BY DEF TypeOK, SelectionTypes, Events
<1> QED
  BY <1>1

LEMMA Queued ==
    ASSUME TypeOK, NEW q \in Seq(Events), events' = events \o q
    PROVE  /\ Len(events') = Len(events) + Len(q) /\ Len(events) \in Nat /\ Len(q) \in Nat
           /\ \A i \in 1..Len(events) : events'[i] = events[i]
           /\ \A i \in 1..Len(q) : events'[Len(events) + i] = q[i]
           /\ \A i \in 1..Len(events') :
                 \/ i \in 1..Len(events)
                 \/ \E j \in 1..Len(q) : i = Len(events) + j
<1>1. events \in Seq(Events)
  BY DEF TypeOK, SelectionTypes, Events
<1>2. /\ Len(events') = Len(events) + Len(q) /\ Len(events) \in Nat /\ Len(q) \in Nat
      /\ \A i \in 1..Len(events') : events'[i] = IF i <= Len(events) THEN events[i] ELSE q[i - Len(events)]
  BY <1>1, ConcatProperties
<1>3. ASSUME NEW i \in 1..Len(events'), i \notin 1..Len(events)
      PROVE  \E j \in 1..Len(q) : i = Len(events) + j
  <2>1. i - Len(events) \in 1..Len(q) /\ i = Len(events) + (i - Len(events))
    BY <1>2, <1>3
  <2> QED
    BY <2>1
<1>4. \A i \in 1..Len(q) : events'[Len(events) + i] = q[i]
  BY <1>2
<1>5. \A i \in 1..Len(events) : events'[i] = events[i]
  BY <1>2
<1>6. \A i \in 1..Len(events') : i \in 1..Len(events) \/ \E j \in 1..Len(q) : i = Len(events) + j
  BY <1>3
<1> QED
  BY <1>2, <1>4, <1>5, <1>6, Zenon

\* which clear events there are once the selection is taken
LEMMA ClearsQueued ==
    ASSUME TypeOK, Clears, serial' \in Nat, NEW q \in Seq(Events), events' = events \o q,
           \A i \in 1..Len(q) : q[i].type = "clear" =>
               q[i].serial <= serial' /\ (q[i].serial = serial' => owner' # Us),
           serial' > serial \/ (serial' = serial /\ (owner' # Us \/ owner = Us))
    PROVE  Clears'
<1>1. ASSUME NEW i \in 1..Len(events'), events'[i].type = "clear"
      PROVE  events'[i].serial <= serial' /\ (events'[i].serial = serial' => owner' # Us)
  <2>1. CASE i \in 1..Len(events)
    <3>1. events'[i] = events[i]
      BY <2>1, Queued
    <3>2. events[i] \in Events
      <4>1. events \in Seq(Events)
        BY DEF TypeOK, SelectionTypes, Events
      <4> QED
        BY <2>1, <4>1
    <3>3. events[i].serial \in Nat /\ serial \in Nat
      BY <3>2 DEF Events, TypeOK, SelectionTypes
    <3> QED
      BY <1>1, <2>1, <3>1, <3>3 DEF Clears
  <2>2. CASE \E j \in 1..Len(q) : i = Len(events) + j
    <3>1. PICK j \in 1..Len(q) : events'[i] = q[j]
      BY <2>2, Queued
    <3> QED
      BY <1>1, <3>1
  <2> QED
    BY <2>1, <2>2, Queued
<1> QED
  BY <1>1 DEF Clears

\* the events of each way in which the selection is taken
LEMMA TakenClears ==
    ASSUME TypeOK, Clears, NEW p \in Providers, NEW race \in Races, TakeSelection(p, race)
    PROVE  Clears'
<1>1. serial \in Nat /\ serial + 1 \in Nat /\ takes + 1 # Us /\ serial' \in Nat
  BY TakenTypes, Numbers DEF TypeOK, SelectionTypes
<1>2. /\ Change \in Events /\ Change.type = "change"
      /\ Clear(serial) \in Events /\ Clear(serial).serial = serial
      /\ Clear(serial + 1) \in Events /\ Clear(serial + 1).serial = serial + 1
  BY <1>1, EventTypes
<1>3. /\ <<Change>> \in Seq(Events) /\ <<Clear(serial), Change>> \in Seq(Events)
      /\ <<Change, Clear(serial + 1), Change>> \in Seq(Events)
  BY <1>2, ShortQueues
<1>4. CASE race = "none"
  <2>0. serial' = serial + 1 /\ events' = events \o <<Change>>
    BY <1>4, Taken
  <2>1. serial' > serial /\ events' = events \o <<Change>>
    BY <1>1, <2>0
  <2>2. \A i \in 1..Len(<<Change>>) : <<Change>>[i].type # "clear"
    BY <1>2
  <2> QED
    BY <1>1, <1>3, <2>1, <2>2, ClearsQueued
<1>5. CASE race = "before"
  <2>1. /\ serial' = serial /\ owner' # Us
        /\ events' = events \o <<Change>> \/ events' = events \o <<Clear(serial), Change>>
    BY <1>1, <1>5, Taken
  <2>2. PICK q \in {<<Change>>, <<Clear(serial), Change>>} : events' = events \o q
    BY <2>1
  <2>3. \A i \in 1..Len(q) : q[i] \in {Change, Clear(serial)}
    BY <2>2
  <2>4. q \in Seq(Events)
    BY <1>3, <2>2
  <2>5. \A i \in 1..Len(q) : q[i].type = "clear" =>
            q[i].serial <= serial' /\ (q[i].serial = serial' => owner' # Us)
    BY <1>1, <1>2, <2>1, <2>3
  <2> QED
    BY <1>1, <2>1, <2>2, <2>4, <2>5, ClearsQueued
<1>6. CASE race = "after"
  <2> DEFINE q == <<Change, Clear(serial + 1), Change>>
  <2>1. serial' = serial + 1 /\ owner' # Us /\ events' = events \o q
    BY <1>1, <1>6, Taken
  <2>2. \A i \in 1..Len(q) : q[i] \in {Change, Clear(serial + 1)}
    OBVIOUS
  <2>3. q \in Seq(Events)
    BY <1>3
  <2> HIDE DEF q
  <2>4. \A i \in 1..Len(q) : q[i].type = "clear" =>
            q[i].serial <= serial' /\ (q[i].serial = serial' => owner' # Us)
    BY <1>1, <1>2, <2>1, <2>2
  <2>5. serial' > serial
    BY <1>1, <2>1
  <2> QED
    BY <1>1, <2>1, <2>3, <2>4, <2>5, ClearsQueued
<1> QED
  BY <1>4, <1>5, <1>6 DEF Races

LEMMA ClearsHandled ==
    ASSUME TypeOK, Clears, events # <<>>, events' = Tail(events), UNCHANGED <<owner, serial>>
    PROVE  Clears'
  BY Handled DEF Clears

LEMMA OwnStep ==
    ASSUME TypeOK, OwnInv, [Next]_vars
    PROVE  OwnInv'
<1> USE DEF OwnInv
<1>1. CASE Quiet
  BY <1>1 DEF Quiet, Clears
<1>2. CASE LocalCopy
  <2>1. owner' # Us /\ serial' = serial /\ serial \in Nat
    BY <1>2, Copies DEF LocalCopy, TypeOK, SelectionTypes
  <2>2. PICK q \in {<<Change>>, <<Clear(serial), Change>>} : events' = events \o q
    BY <1>2 DEF LocalCopy
  <2>3. /\ Change \in Events /\ Change.type = "change"
        /\ Clear(serial) \in Events /\ Clear(serial).serial = serial
    BY <2>1, EventTypes
  <2>4. q \in Seq(Events)
    BY <2>2, <2>3, ShortQueues
  <2>5. \A i \in 1..Len(q) : q[i] \in {Change, Clear(serial)}
    BY <2>2
  <2>6. \A i \in 1..Len(q) : q[i].type = "clear" =>
            q[i].serial <= serial' /\ (q[i].serial = serial' => owner' # Us)
    BY <2>1, <2>3, <2>5
  <2>7. Clears'
    BY <2>1, <2>2, <2>4, <2>6, ClearsQueued
  <2> QED
    BY <2>1, <2>7
<1>3. ASSUME NEW c \in clears, ClearIfStale(c) PROVE OwnInv'
  <2>1. CASE events' = Append(events, Change) /\ owner' = Nobody /\ serial' = serial
    <3>1. owner' # Us /\ serial \in Nat
      BY <2>1 DEF Nobody, Us, TypeOK, SelectionTypes
    <3>2. <<Change>> \in Seq(Events) /\ events \in Seq(Events) /\ Change.type = "change"
      BY <3>1, EventTypes, ShortQueues DEF TypeOK, SelectionTypes, Events
    <3>3. events' = events \o <<Change>>
      BY <2>1, <3>2
    <3>4. \A i \in 1..Len(<<Change>>) : <<Change>>[i].type # "clear"
      BY <3>2
    <3>5. Clears'
      BY <2>1, <3>1, <3>2, <3>3, <3>4, ClearsQueued
    <3> QED
      BY <3>1, <3>5
  <2>2. CASE UNCHANGED <<owner, events, provider, nativeOwner, serial, sock, textOwner>>
    BY <2>2 DEF Clears
  <2> QED
    BY <1>3, <2>1, <2>2 DEF ClearIfStale, proxy
<1>4. CASE ClearData
  <2>1. /\ events # <<>> /\ Head(events).type = "clear" /\ events' = Tail(events)
        /\ UNCHANGED <<owner, serial, sock, textOwner>>
    BY <1>4 DEF ClearData
  <2>2. Clears'
    BY <2>1, ClearsHandled
  <2>3. CASE Head(events).serial = serial
    <3>1. owner # Us
      BY <2>1, <2>3, Handled DEF Clears
    <3> QED
      BY <2>1, <2>2, <3>1
  <2>4. CASE Head(events).serial # serial
    <3>1. UNCHANGED <<provider, nativeOwner>>
      BY <1>4, <2>4 DEF ClearData
    <3> QED
      BY <2>1, <2>2, <3>1
  <2> QED
    BY <2>3, <2>4
<1>5. CASE OwnerChanged
  <2>1. /\ events # <<>> /\ events' = Tail(events)
        /\ UNCHANGED <<owner, serial, sock, provider, nativeOwner>>
    BY <1>5 DEF OwnerChanged
  <2>2. Clears'
    BY <2>1, ClearsHandled
  <2>3. sock /\ owner = Us => textOwner' = textOwner \/ (provider.type = "native" /\ nativeOwner)
    BY <1>5 DEF OwnerChanged, OwnsNative
  <2> QED
    BY <2>1, <2>2, <2>3
<1>6. ASSUME NEW shape \in Shapes, PlainToken(shape) PROVE OwnInv'
  <2>1. sock' = sock /\ (NoText \/ \E race \in Races : Texts(race))
    BY <1>6, Plain
  <2>2. CASE NoText
    BY <2>1, <2>2 DEF NoText, xserver, Clears
  <2>3. ASSUME NEW race \in Races, Texts(race) PROVE OwnInv'
    <3>1. TextProvider \in Providers /\ TextProvider.type = "text"
      BY DEF TextProvider, NoProvider, Providers
    <3>2. TakeSelection(TextProvider, race)
      BY <2>3 DEF Texts
    <3>3. Clears'
      BY <3>1, <3>2, TakenClears
    <3>4. owner' # Us \/ (race = "none" /\ provider' = TextProvider)
      BY <3>2, Taken, Copies
    <3>5. sock => textOwner' = (race = "none")
      BY <2>3 DEF Texts
    <3> QED
      BY <2>1, <3>1, <3>3, <3>4, <3>5
  <2> QED
    BY <2>1, <2>2, <2>3
<1>7. ASSUME NEW shape \in Shapes, ManagedToken(shape) PROVE OwnInv'
  <2>1. sock' = sock
    BY <1>7, OfferClaims
  <2>2. CASE Merged
    BY <2>1, <2>2 DEF Merged, xserver, Clears
  <2>3. ASSUME NEW race \in Races, Claimed(race) PROVE OwnInv'
    <3>1. PICK p \in Providers :
            /\ p.type = "native" /\ p.generation = generation' /\ TakeSelection(p, race)
            /\ nativeOwner' = (race = "none")
      BY <2>3 DEF Claimed
    <3>2. owner' # Us \/ (race = "none" /\ provider' = p)
      BY <3>1, Taken, Copies
    <3>3. Clears'
      BY <3>1, TakenClears
    <3> QED
      BY <3>1, <3>2, <3>3
  <2> QED
    BY <1>7, <2>2, <2>3, OfferClaims
<1> QED
  BY <1>1, <1>2, <1>3, <1>4, <1>5, <1>6, <1>7, QuietSteps
     DEF Next, PeerReply, RequestTimeout, DataResponse, EmptyResponse

LEMMA OverStep ==
    ASSUME TypeOK, OwnInv, OverInv, [Next]_vars
    PROVE  OverInv'
<1> USE DEF OverInv
<1>1. CASE Quiet
  BY <1>1 DEF Quiet
<1>2. CASE LocalCopy
  <2>1. owner' # Us
    BY <1>2, Copies DEF LocalCopy
  <2> QED
    BY <1>2, <2>1 DEF LocalCopy, retiring, proxy
<1>3. ASSUME NEW c \in clears, ClearIfStale(c) PROVE OverInv'
  <2>1. /\ owner' = owner \/ owner' = Nobody
        /\ clears' \subseteq clears /\ UNCHANGED <<sock, nonce, localOwner, textOwner, claimed>>
    BY <1>3 DEF ClearIfStale, offer, proxy
  <2> QED
    BY <2>1 DEF Nobody, Us
<1>4. CASE ClearData
  <2>1. /\ events # <<>> /\ Head(events).type = "clear"
        /\ UNCHANGED <<owner, sock, textOwner, nonce>>
    BY <1>4 DEF ClearData
  <2>2. clears' = clears
    BY <1>4, Invalidated DEF ClearData
  <2>3. \/ UNCHANGED <<claimed, localOwner>>
        \/ localOwner' = TRUE
    BY <1>4 DEF ClearData, offer
  <2> QED
    BY <2>1, <2>2, <2>3
<1>5. CASE OwnerChanged
  BY <1>5 DEF OwnerChanged, offer, retiring
<1>6. ASSUME NEW shape \in Shapes, PlainToken(shape) PROVE OverInv'
  <2>1. sock' = sock /\ InvalidateNative(TRUE) /\ (NoText \/ \E race \in Races : Texts(race))
    BY <1>6, Plain
  <2>2. clears' \in {clears, clears \cup {StaleClear}}
    BY <2>1, Invalidated
  <2>3. StaleClear.nonce = nonce /\ nonce \in Nat /\ \A c \in clears : c.nonce \in Nat
    BY DEF StaleClear, TypeOK, OwnerTypes
  <2>4. CASE NoText
    <3>1. UNCHANGED <<owner, nonce, textOwner>> /\ localOwner' = (localOwner \/ Retires)
      BY <2>4 DEF NoText, xserver
    <3>2. CASE Retires
      <4>1. localOwner' = TRUE
        BY <3>1, <3>2
      <4>2. \A c \in clears' : c.nonce <= nonce
        BY <2>2, <2>3
      <4> QED
        BY <3>1, <4>1, <4>2
    <3>3. CASE ~Retires
      <4>1. UNCHANGED <<claimed, clears>>
        BY <2>1, <3>3, Invalidated DEF offer
      <4> QED
        BY <2>1, <3>1, <4>1
    <3> QED
      BY <3>2, <3>3
  <2>5. ASSUME NEW race \in Races, Texts(race) PROVE OverInv'
    <3>1. nonce' = nonce + 1 /\ TakeSelection(TextProvider, race)
      BY <2>5 DEF Texts
    <3>2. \A c \in clears' : c.nonce <= nonce' /\ c.nonce # nonce'
      BY <2>2, <2>3, <3>1
    <3>3. owner' # Us \/ race = "none"
      BY <3>1, Taken, Copies
    <3>4. sock => textOwner' = (race = "none")
      BY <2>5 DEF Texts
    <3> QED
      BY <2>1, <3>2, <3>3, <3>4
  <2> QED
    BY <2>1, <2>4, <2>5
<1>7. ASSUME NEW shape \in Shapes, ManagedToken(shape) PROVE OverInv'
  <2>1. sock' = sock /\ clears' = clears
    BY <1>7, OfferClaims
  <2>2. CASE Merged
    BY <2>1, <2>2 DEF Merged, xserver
  <2>3. ASSUME NEW race \in Races, Claimed(race) PROVE OverInv'
    <3>1. PICK p \in Providers :
            /\ TakeSelection(p, race) /\ claimed'.on = (race # "before") /\ nonce' = nonce + 1
      BY <2>3 DEF Claimed
    <3>2. owner' # Us \/ race = "none"
      BY <3>1, Taken, Copies
    <3>3. nonce \in Nat /\ \A c \in clears : c.nonce \in Nat
      BY DEF TypeOK, OwnerTypes
    <3>4. \A c \in clears' : c.nonce <= nonce' /\ c.nonce # nonce'
      BY <2>1, <3>1, <3>3
    <3> QED
      BY <3>1, <3>2, <3>4
  <2> QED
    BY <1>7, <2>2, <2>3, OfferClaims
<1> QED
  BY <1>1, <1>2, <1>3, <1>4, <1>5, <1>6, <1>7, QuietSteps
     DEF Next, PeerReply, RequestTimeout, DataResponse, EmptyResponse

LEMMA SelectionInit == Init => SelectionInv
<1> SUFFICES ASSUME Init PROVE SelectionInv
  OBVIOUS
<1>1. ClaimInv /\ ReleaseInv
  BY DEF Init, ClaimInv, ReleaseInv, RetiredIsReleased, NotClaimed, NoProvider
<1>2. OwnInv /\ OverInv
  BY DEF Init, OwnInv, OverInv, Clears, Nobody, Us
<1> QED
  BY <1>1, <1>2, InitTypes DEF SelectionInv

LEMMA SelectionAlways == Spec => []SelectionInv
<1>1. SelectionInv /\ [Next]_vars => SelectionInv'
  BY NextTypes, ClaimStep, ReleaseStep, OwnStep, OverStep DEF SelectionInv
<1> QED
  BY <1>1, SelectionInit, PTL DEF Spec

\* An offer that is over does not stay in the selection: there is a callback that will release
\* it, and nothing will cancel it.
THEOREM RetiredOfferReleased == Spec => []RetiredIsReleased
<1>1. SelectionInv => RetiredIsReleased
  BY DEF SelectionInv, ReleaseInv
<1> QED
  BY <1>1, SelectionAlways, PTL

\* "The corresponding owner-change must not be sent back as a new token": when the peer is
\* told of a copy, it is not of what we have put in the selection for the peer's own offer.
THEOREM OwnOfferNeverEchoed == Spec => NeverEchoed
<1>1. SelectionInv /\ [Next]_vars => [sock /\ Len(stack') > Len(stack) /\ stack'[Len(stack')].type = "emit"
                                        => stack'[Len(stack')].copy # Us]_vars
  <2> SUFFICES ASSUME SelectionInv, Next, sock, Len(stack') > Len(stack),
                      stack'[Len(stack')].type = "emit"
               PROVE  stack'[Len(stack')].copy # Us
    OBVIOUS
  <2>1. stack \in Seq(Emits \cup Pastes) /\ Len(stack) \in Nat
    BY DEF SelectionInv, TypeOK, CallTypes, Emits, Pastes
  <2>2. CASE OwnerChanged
    <3>1. stack' = Append(stack, [type |-> "emit", copy |-> owner])
      BY <2>1, <2>2 DEF OwnerChanged
    <3>2. owner # Us
      BY <2>1, <2>2 DEF OwnerChanged, SelectionInv, OwnInv, OwnsNative
    <3> QED
      BY <2>1, <3>1, <3>2
  <2>3. ASSUME NEW t \in Targets \cup {"alias"}, Paste(t) PROVE FALSE
    <3>1. stack' = stack \/ \E call : call.type = "paste" /\ stack' = Append(stack, call)
      <4>1. \A key, g, c : [type |-> "paste", target |-> key, generation |-> g, copy |-> c].type = "paste"
        OBVIOUS
      <4>2. TypeOK
        BY DEF SelectionInv
      <4> QED
        BY <2>3, <4>1, <4>2, Pasted, Zenon
    <3> QED
      BY <2>1, <3>1
  <2>4. CASE EmitToken \/ PasteReturns
    <3>1. stack # <<>> /\ stack' = Pop
      BY <2>4 DEF EmitToken, PasteReturns
    <3>2. Len(Pop) = Len(stack) - 1
      BY <3>1, StackTypes DEF SelectionInv
    <3> QED
      BY <2>1, <3>1, <3>2
  <2>5. CASE stack' = stack
    BY <2>1, <2>5
  <2> QED
    BY <2>2, <2>3, <2>4, <2>5 DEF Next, LocalCopy, ClearIfStale, ClearData, PlainToken, ManagedToken,
       PeerReply, RequestTimeout, Reply, TakeBatch, SendBatch, DataResponse, EmptyResponse,
       BrokerAnswers, StoreResponse, BrokerLost
<1> QED
  BY <1>1, SelectionAlways, PTL DEF Spec, NeverEchoed

----------------------------------------------------------------------------
(* What is pasted.                                                          *)
(* The source of an offer is the copy that it was announced with.  All that *)
(* is of its generation is of that copy or of a later one, and what is left *)
(* of earlier ones can be told by its generation.                           *)

FreshIn(c) == c \in {Nothing, Unavailable} \/ c >= source

HeldInv == source <= copy /\ FreshIn(inline) /\ \A t \in Managed : FreshIn(store[t])
ResponseInv == \A r \in responses \cup {reader} :
    r.generation <= generation /\ (r.generation = generation => FreshIn(r.copy))
JobInv == \A j \in jobs : j.generation <= generation /\ (j.generation = generation => j.copy >= source)
RequestInv == \A r \in requests :
    r.generation <= generation /\ (r.generation = generation => r.since >= source)
ProviderInv == provider.type = "native" =>
    provider.generation <= generation /\ (provider.generation = generation => provider.copy = source)
CallInv == \A i \in 1..Len(stack) : stack[i].type = "paste" =>
    stack[i].generation <= generation /\ (stack[i].generation = generation => stack[i].copy = source)

FreshInv == /\ HeldInv /\ ResponseInv /\ JobInv /\ RequestInv /\ ProviderInv /\ CallInv
            /\ ~stale

\* the offer stays, or another generation begins
Turn == UNCHANGED <<generation, source>> \/ generation' = generation + 1

LEMMA ResponsesKept ==
    ASSUME TypeOK, ResponseInv, Turn,
           \A r \in responses' \cup {reader'} : r \in responses \cup {reader}
    PROVE  ResponseInv'
<1>1. generation \in Nat
  BY DEF TypeOK, OfferTypes
<1>2. \A r \in responses' \cup {reader'} :
        r.generation <= generation /\ (r.generation = generation => FreshIn(r.copy)) /\ r.generation \in Nat
  BY DEF ResponseInv, TypeOK, ContentTypes, ThreadTypes, NoResponse
<1>3. CASE generation' = generation + 1
  BY <1>1, <1>2, <1>3 DEF ResponseInv
<1>4. CASE UNCHANGED <<generation, source>>
  <2>1. \A r \in responses' \cup {reader'} : FreshIn(r.copy)' <=> FreshIn(r.copy)
    BY <1>4 DEF FreshIn
  <2> QED
    BY <1>2, <1>4, <2>1 DEF ResponseInv
<1> QED
  BY <1>3, <1>4 DEF Turn

LEMMA JobsKept ==
    ASSUME TypeOK, JobInv, Turn,
           \A j \in jobs' : \/ \E k \in jobs : k.generation = j.generation /\ k.copy = j.copy
                            \/ j.generation = generation' /\ j.copy >= source'
    PROVE  JobInv'
<1>1. generation \in Nat /\ source \in Nat
  BY DEF TypeOK, OfferTypes
<1>2. \A k \in jobs : k.generation \in Nat
  BY DEF TypeOK, ThreadTypes
<1>3. ASSUME NEW j \in jobs'
      PROVE  j.generation <= generation' /\ (j.generation = generation' => j.copy >= source')
  <2>1. CASE j.generation = generation' /\ j.copy >= source'
    BY <1>1, <2>1 DEF Turn
  <2>2. CASE \E k \in jobs : k.generation = j.generation /\ k.copy = j.copy
    <3>1. j.generation \in Nat /\ j.generation <= generation /\ (j.generation = generation => j.copy >= source)
      BY <1>2, <2>2 DEF JobInv
    <3> QED
      BY <1>1, <3>1 DEF Turn
  <2> QED
    BY <1>3, <2>1, <2>2
<1> QED
  BY <1>3 DEF JobInv

LEMMA RequestsKept ==
    ASSUME TypeOK, RequestInv, Turn,
           \A r \in requests' : r \in requests \/ (r.generation = generation' /\ r.since >= source')
    PROVE  RequestInv'
<1>1. generation \in Nat /\ source \in Nat
  BY DEF TypeOK, OfferTypes
<1>2. \A r \in requests : r.generation \in Nat
  BY DEF TypeOK, PeerTypes
<1>3. ASSUME NEW r \in requests'
      PROVE  r.generation <= generation' /\ (r.generation = generation' => r.since >= source')
  <2>1. CASE r.generation = generation' /\ r.since >= source'
    BY <1>1, <2>1 DEF Turn
  <2>2. CASE r \in requests
    BY <1>1, <1>2, <2>2 DEF RequestInv, Turn
  <2> QED
    BY <1>3, <2>1, <2>2
<1> QED
  BY <1>3 DEF RequestInv

LEMMA ProviderKept ==
    ASSUME TypeOK, ProviderInv, Turn,
           \/ provider' = provider \/ provider'.type # "native"
           \/ provider'.generation = generation' /\ provider'.copy = source'
    PROVE  ProviderInv'
<1>1. generation \in Nat /\ provider.generation \in Nat
  BY DEF TypeOK, OfferTypes, SelectionTypes
<1> QED
  BY <1>1 DEF ProviderInv, Turn

LEMMA CallsKept ==
    ASSUME TypeOK, CallInv, Turn,
           \A i \in 1..Len(stack') : \/ stack'[i].type # "paste"
                                     \/ i \in 1..Len(stack) /\ stack'[i] = stack[i]
                                     \/ stack'[i].generation = generation' /\ stack'[i].copy = source'
    PROVE  CallInv'
<1>1. generation \in Nat
  BY DEF TypeOK, OfferTypes
<1>2. ASSUME NEW i \in 1..Len(stack), stack[i].type = "paste" PROVE stack[i].generation \in Nat
  <2>1. stack \in Seq(Emits \cup Pastes)
    BY DEF TypeOK, CallTypes, Emits, Pastes
  <2>2. stack[i] \in Emits \cup Pastes
    BY <2>1
  <2> QED
    BY <1>2, <2>2 DEF Emits, Pastes
<1>3. ASSUME NEW i \in 1..Len(stack'), stack'[i].type = "paste"
      PROVE  /\ stack'[i].generation <= generation'
             /\ stack'[i].generation = generation' => stack'[i].copy = source'
  <2>1. CASE stack'[i].generation = generation' /\ stack'[i].copy = source'
    BY <1>1, <2>1 DEF Turn
  <2>2. CASE i \in 1..Len(stack) /\ stack'[i] = stack[i]
    BY <1>1, <1>2, <1>3, <2>2 DEF CallInv, Turn
  <2> QED
    BY <1>3, <2>1, <2>2
<1> QED
  BY <1>3 DEF CallInv

\* the generation, and what is held of it, once an offer is retired
LEMMA HeldInvalidated ==
    ASSUME TypeOK, HeldInv, NEW clear \in BOOLEAN, InvalidateNative(clear), copy' \in Nat, copy' >= copy
    PROVE  HeldInv' /\ Turn /\ responses' \subseteq responses
<1>1. source \in Nat /\ copy \in Nat
  BY DEF TypeOK, OfferTypes, PeerTypes
<1>2. CASE Retires
  <2>1. /\ generation' = generation + 1 /\ source' = 0 /\ responses' = {}
        /\ inline' = Nothing /\ store' = NoStore
    BY <1>2, Invalidated
  <2> QED
    BY <1>1, <2>1 DEF HeldInv, FreshIn, NoStore, Turn
<1>3. CASE ~Retires
  <2>1. UNCHANGED <<generation, source, responses, inline, store>>
    BY <1>3, Invalidated DEF offer, fetched
  <2> QED
    BY <1>1, <2>1 DEF HeldInv, FreshIn, Turn
<1> QED
  BY <1>2, <1>3

\* what leaves the offer and what is of it alone
LEMMA Untouched ==
    ASSUME TypeOK, FreshInv, UNCHANGED <<generation, source, copy, inline, store, responses, reader,
                                         jobs, requests, stale>>,
           provider' = provider \/ provider'.type # "native", CallInv'
    PROVE  FreshInv'
<1>1. HeldInv' /\ Turn
  BY DEF FreshInv, HeldInv, FreshIn, Turn
<1>2. ResponseInv' /\ JobInv' /\ RequestInv'
  BY <1>1, ResponsesKept, JobsKept, RequestsKept DEF FreshInv
<1>3. ProviderInv'
  BY <1>1, ProviderKept DEF FreshInv
<1> QED
  BY <1>1, <1>2, <1>3 DEF FreshInv

LEMMA CallsStay == ASSUME TypeOK, FreshInv, Turn, stack' = stack PROVE CallInv'
  BY CallsKept DEF FreshInv

LEMMA FreshLocal ==
    ASSUME TypeOK, FreshInv, LocalCopy \/ BrokerLost \/ UNCHANGED vars
    PROVE  FreshInv'
<1>1. UNCHANGED <<generation, source, copy, inline, store, responses, reader, jobs, requests, stale,
                  provider, stack>>
  BY DEF LocalCopy, BrokerLost, vars, offer, fetched, threads, network, xserver
<1>2. CallInv'
  BY <1>1, CallsStay DEF Turn
<1> QED
  BY <1>1, <1>2, Untouched

LEMMA FreshStale == ASSUME TypeOK, FreshInv, NEW c \in clears, ClearIfStale(c) PROVE FreshInv'
<1>1. UNCHANGED <<generation, source, copy, inline, store, responses, reader, jobs, requests, stale,
                  stack>>
  BY DEF ClearIfStale, offer, fetched, threads, network
<1>2. provider' = provider \/ provider'.type # "native"
  BY DEF ClearIfStale, NoProvider
<1>3. CallInv'
  BY <1>1, CallsStay DEF Turn
<1> QED
  BY <1>1, <1>2, <1>3, Untouched

LEMMA FreshClear == ASSUME TypeOK, FreshInv, ClearData PROVE FreshInv'
<1>1. UNCHANGED <<copy, reader, jobs, requests, stale, stack>>
  BY DEF ClearData, threads, network
<1>2. provider' = provider \/ provider'.type # "native"
  <2>1. provider' \in {provider, NoProvider}
    BY DEF ClearData
  <2> QED
    BY <2>1 DEF NoProvider
<1>3. InvalidateNative(FALSE) \/ UNCHANGED <<offer, fetched, clears>>
  BY DEF ClearData
<1>4. CASE UNCHANGED <<offer, fetched, clears>>
  <2>1. UNCHANGED <<generation, source, inline, store, responses>>
    BY <1>4 DEF offer, fetched
  <2>2. CallInv'
    BY <1>1, <2>1, CallsStay DEF Turn
  <2> QED
    BY <1>1, <1>2, <2>1, <2>2, Untouched
<1>5. CASE InvalidateNative(FALSE)
  <2>1. HeldInv' /\ Turn /\ responses' \subseteq responses
    <3>1. copy \in Nat /\ copy' \in Nat /\ copy' >= copy
      BY <1>1 DEF TypeOK, PeerTypes
    <3> QED
      BY <1>5, <3>1, HeldInvalidated DEF FreshInv
  <2>2. ResponseInv' /\ JobInv' /\ RequestInv'
    BY <1>1, <2>1, ResponsesKept, JobsKept, RequestsKept DEF FreshInv
  <2>3. ProviderInv' /\ CallInv'
    BY <1>1, <1>2, <2>1, ProviderKept, CallsStay DEF FreshInv
  <2> QED
    BY <1>1, <2>1, <2>2, <2>3 DEF FreshInv
<1> QED
  BY <1>3, <1>4, <1>5

LEMMA FreshOwner == ASSUME TypeOK, FreshInv, OwnerChanged PROVE FreshInv'
<1>1. UNCHANGED <<generation, source, copy, inline, store, responses, reader, jobs, requests, stale,
                  provider>>
  BY DEF OwnerChanged, offer, fetched, threads, network
<1>2. stack \in Seq(Emits \cup Pastes)
  BY DEF TypeOK, CallTypes, Emits, Pastes
<1>3. PICK call : call.type = "emit" /\ (stack' = stack \/ stack' = Append(stack, call))
  BY DEF OwnerChanged
<1>4. \A i \in 1..Len(stack') : stack'[i].type # "paste" \/ (i \in 1..Len(stack) /\ stack'[i] = stack[i])
  BY <1>2, <1>3
<1>5. CallInv'
  BY <1>1, <1>4, CallsKept DEF FreshInv, Turn
<1> QED
  BY <1>1, <1>5, Untouched

\* the top of the stack returns
LEMMA Popped ==
    ASSUME TypeOK, FreshInv, stack # <<>>, stack' = Pop, Turn
    PROVE  CallInv'
<1>1. stack \in Seq(Emits \cup Pastes) /\ Len(stack) \in Nat
  BY DEF TypeOK, CallTypes, Emits, Pastes
<1>2. Len(stack') = Len(stack) - 1 /\ \A i \in 1..Len(stack') : stack'[i] = stack[i]
  BY StackTypes
<1>3. \A i \in 1..Len(stack') : i \in 1..Len(stack)
  BY <1>1, <1>2
<1> QED
  BY <1>2, <1>3, CallsKept DEF FreshInv

LEMMA FreshEmit == ASSUME TypeOK, FreshInv, EmitToken PROVE FreshInv'
<1>1. UNCHANGED <<generation, source, copy, inline, store, responses, reader, jobs, requests, stale,
                  provider>>
  BY DEF EmitToken, offer, fetched, threads, network, xserver
<1>2. CallInv'
  BY <1>1, Popped DEF EmitToken, Turn
<1> QED
  BY <1>1, <1>2, Untouched

LEMMA FreshReturn == ASSUME TypeOK, FreshInv, PasteReturns PROVE FreshInv'
<1>1. UNCHANGED <<generation, source, copy, inline, store, responses, reader, jobs, requests, provider>>
  BY DEF PasteReturns, offer, fetched, threads, network, xserver
<1>2. CallInv'
  BY <1>1, Popped DEF PasteReturns, Turn
<1>3. stack \in Seq(Emits \cup Pastes) /\ Len(stack) \in 1..Len(stack)
  BY DEF PasteReturns, TypeOK, CallTypes, Emits, Pastes
<1>4. stale' = stale
  <2>1. SUFFICES ASSUME ~Cancelled(Top), NEW c \in Answers(Top)
                 PROVE  ~(c # Unavailable /\ c < Top.copy)
    <3>1. stale = FALSE
      BY DEF FreshInv, TypeOK, CallTypes
    <3> QED
      BY <2>1, <3>1 DEF PasteReturns
  <2>2. Top.generation = generation
    BY <2>1 DEF Cancelled
  <2>3. Top.copy = source
    BY <1>3, <2>2 DEF FreshInv, CallInv, Top, PasteReturns
  <2>4. FreshIn(c) /\ c # Nothing
    <3>1. CASE Top.target = "text"
      BY <2>1, <3>1 DEF Answers, FreshInv, HeldInv
    <3>2. CASE Top.target # "text"
      <4>1. PICK r \in responses : r.generation = generation /\ c = r.copy
        BY <2>1, <2>2, <3>2 DEF Answers
      <4>2. c \in Nat
        BY <4>1 DEF TypeOK, ContentTypes
      <4> QED
        BY <4>1, <4>2 DEF FreshInv, ResponseInv, Nothing
    <3> QED
      BY <3>1, <3>2
  <2>5. c \in Int /\ source \in Nat
    <3>1. CASE Top.target = "text"
      BY <2>1, <3>1 DEF Answers, TypeOK, ContentTypes, Contents, Nothing, OfferTypes
    <3>2. CASE Top.target # "text"
      BY <2>1, <3>2 DEF Answers, TypeOK, ContentTypes, OfferTypes
    <3> QED
      BY <3>1, <3>2
  <2> QED
    BY <2>3, <2>4, <2>5 DEF FreshIn
<1> QED
  BY <1>1, <1>2, <1>4, Untouched

LEMMA FreshPlain == ASSUME TypeOK, FreshInv, NEW shape \in Shapes, PlainToken(shape) PROVE FreshInv'
<1>1. /\ InvalidateNative(TRUE) /\ Announce /\ (NoText \/ \E race \in Races : Texts(race))
      /\ UNCHANGED <<reader, jobs, requests, stale, stack>>
  BY Plain DEF threads
<1>2. HeldInv' /\ Turn /\ responses' \subseteq responses
  BY <1>1, Announced, HeldInvalidated DEF FreshInv
<1>3. ResponseInv' /\ JobInv' /\ RequestInv' /\ CallInv'
  BY <1>1, <1>2, ResponsesKept, JobsKept, RequestsKept, CallsStay DEF FreshInv
<1>4. provider' = provider \/ provider'.type # "native"
  <2>1. CASE NoText
    BY <2>1 DEF NoText, xserver
  <2>2. ASSUME NEW race \in Races, Texts(race) PROVE provider' = provider \/ provider' = TextProvider
    BY <2>2, Taken DEF Texts
  <2> QED
    BY <1>1, <2>1, <2>2 DEF TextProvider, NoProvider
<1>5. ProviderInv'
  BY <1>2, <1>4, ProviderKept DEF FreshInv
<1> QED
  BY <1>1, <1>2, <1>3, <1>5 DEF FreshInv

LEMMA FreshOffer == ASSUME TypeOK, FreshInv, NEW shape \in Shapes, ManagedToken(shape) PROVE FreshInv'
<1>1. /\ source' = copy' /\ UNCHANGED <<reader, stack, stale>>
      /\ \/ source = copy' /\ generation' = generation
         \/ source # copy' /\ generation' = generation + 1
  BY Offers
<1>2. Turn
  BY <1>1 DEF Turn
<1>3. copy' \in Nat /\ generation' \in Nat
  BY OfferedTypes
<1>4. HeldInv'
  <2>1. /\ \/ inline' \in {copy', Nothing}
           \/ source = copy' /\ inline' = inline
        /\ \E image, uri : /\ store' = [image |-> image, uri |-> uri]
                           /\ \/ image \in {Unavailable, copy', Nothing}
                              \/ source = copy' /\ image = store["image"]
                           /\ \/ uri = Nothing
                              \/ source = copy' /\ uri = store["uri"]
    BY DEF ManagedToken
  <2>2. FreshIn(inline)'
    BY <1>1, <1>3, <2>1 DEF FreshInv, HeldInv, FreshIn
  <2>3. \A t \in Managed : FreshIn(store[t])'
    <3>1. FreshIn(store["image"])'
      BY <1>1, <1>3, <2>1 DEF FreshInv, HeldInv, FreshIn, Managed
    <3>2. FreshIn(store["uri"])'
      BY <1>1, <1>3, <2>1 DEF FreshInv, HeldInv, FreshIn, Managed
    <3> QED
      BY <3>1, <3>2 DEF Managed
  <2> QED
    BY <1>1, <1>3, <2>2, <2>3 DEF HeldInv
<1>5. ResponseInv'
  <2>1. responses' \subseteq responses
    BY DEF ManagedToken
  <2> QED
    BY <1>1, <1>2, <2>1, ResponsesKept DEF FreshInv
<1>6. JobInv'
  <2>1. jobs' \subseteq jobs \cup {Job(generation', copy')}
    BY DEF ManagedToken
  <2> QED
    BY <1>1, <1>2, <1>3, <2>1, JobsKept DEF FreshInv, Job
<1>7. RequestInv'
  <2>1. \A r \in requests' : r \in requests \/ \E t : r = Request(generation', t, copy')
    BY DEF ManagedToken
  <2> QED
    BY <1>1, <1>2, <1>3, <2>1, RequestsKept DEF FreshInv, Request
<1>8. ProviderInv'
  <2>1. CASE Merged
    BY <1>2, <2>1, ProviderKept DEF Merged, xserver, FreshInv
  <2>2. ASSUME NEW race \in Races, Claimed(race) PROVE ProviderInv'
    <3>1. PICK p \in Providers :
            p.generation = generation' /\ p.copy = copy' /\ TakeSelection(p, race)
      BY <2>2 DEF Claimed
    <3>2. provider' \in {p, provider}
      BY <3>1, Taken
    <3> QED
      BY <1>1, <1>2, <3>1, <3>2, ProviderKept DEF FreshInv
  <2> QED
    BY <2>1, <2>2, OfferClaims
<1>9. CallInv'
  BY <1>1, <1>2, CallsStay
<1> QED
  BY <1>1, <1>4, <1>5, <1>6, <1>7, <1>8, <1>9 DEF FreshInv

LEMMA FreshReply ==
    ASSUME TypeOK, FreshInv, NEW r \in requests, NEW c \in Nat, Reply(r, c),
           c = Unavailable \/ c >= r.since
    PROVE  FreshInv'
<1>1. /\ requests' = requests \ {r} /\ Deliver(r, c)
      /\ UNCHANGED <<generation, source, provider, responses, reader, stack, stale, copy>>
  BY DEF Reply, offer, xserver, network
<1>2. Turn
  BY <1>1 DEF Turn
<1>3. source \in Nat /\ source <= copy /\ copy \in Nat /\ generation \in Nat
  BY DEF TypeOK, OfferTypes, PeerTypes, FreshInv, HeldInv
<1>4. r.generation = generation => c = Unavailable \/ c >= source
  <2>1. r.since \in Nat /\ (r.generation = generation => r.since >= source)
    BY DEF TypeOK, PeerTypes, FreshInv, RequestInv
  <2> QED
    BY <1>3, <2>1
<1>5. ResponseInv' /\ RequestInv' /\ ProviderInv' /\ CallInv'
  BY <1>1, <1>2, ResponsesKept, RequestsKept, ProviderKept, CallsStay DEF FreshInv
<1>6. CASE UNCHANGED <<inline, store, jobs>>
  BY <1>1, <1>2, <1>5, <1>6, JobsKept DEF FreshInv, HeldInv, FreshIn
<1>7. CASE ~UNCHANGED <<inline, store, jobs>>
  <2>1. /\ r.generation = generation
        /\ inline' \in {inline, c}
        /\ \/ store' = store
           \/ \E t \in Managed, x \in {c, Unavailable} : store' = [store EXCEPT ![t] = x]
        /\ \/ jobs' = jobs
           \/ jobs' = jobs \cup {Job(generation, source)}
           \/ c # Unavailable /\ jobs' = jobs \cup {Job(generation, c)}
    BY <1>1, <1>7, Delivered
  <2>2. FreshIn(c) /\ FreshIn(Unavailable)
    BY <1>4, <2>1 DEF FreshIn
  <2>3. \A t \in Managed : FreshIn(store'[t])
    BY <2>1, <2>2 DEF TypeOK, ContentTypes, FreshInv, HeldInv
  <2>4. HeldInv'
    BY <1>1, <2>1, <2>2, <2>3 DEF FreshInv, HeldInv, FreshIn
  <2>5. \A j \in jobs' : j \in jobs \/ (j.generation = generation /\ j.copy >= source)
    BY <1>3, <1>4, <2>1 DEF Job
  <2>6. JobInv'
    BY <1>1, <1>2, <2>5, JobsKept DEF FreshInv
  <2> QED
    BY <1>1, <1>5, <2>4, <2>6 DEF FreshInv
<1> QED
  BY <1>6, <1>7

\* a thread goes on with the files that it has
LEMMA SameFiles ==
    ASSUME TypeOK, NEW j \in jobs, NEW s
    PROVE  \A k \in InState(j, s) : \E l \in jobs : l.generation = k.generation /\ l.copy = k.copy
<1>1. j \in [generation : Nat, copy : Nat, state : {"new", "registered", "raised"}]
  BY DEF TypeOK, ThreadTypes
<1>2. /\ [j EXCEPT !.state = s].generation = j.generation
      /\ [j EXCEPT !.state = s].copy = j.copy
  BY <1>1
<1> QED
  BY <1>2 DEF InState

LEMMA FreshBatch == ASSUME TypeOK, FreshInv, NEW j \in jobs, TakeBatch(j) PROVE FreshInv'
<1>1. UNCHANGED <<generation, source, copy, inline, store, responses, reader, requests, stale,
                  provider, stack>>
  BY DEF TakeBatch, offer, fetched, network, xserver
<1>2. Turn
  BY <1>1 DEF Turn
<1>3. \E s \in {"registered", "raised"} : jobs' \subseteq InState(j, s)
  BY DEF TakeBatch, InState
<1>4. \A k \in jobs' : \E l \in jobs : l.generation = k.generation /\ l.copy = k.copy
  BY <1>3, SameFiles
<1>5. HeldInv'
  BY <1>1 DEF FreshInv, HeldInv, FreshIn
<1>6. JobInv'
  BY <1>2, <1>4, JobsKept DEF FreshInv
<1> QED
  BY <1>1, <1>2, <1>5, <1>6, ResponsesKept, RequestsKept, ProviderKept, CallsStay DEF FreshInv

LEMMA FreshSend == ASSUME TypeOK, FreshInv, NEW j \in jobs, SendBatch(j) PROVE FreshInv'
<1>1. /\ jobs' \subseteq InState(j, "raised")
      /\ UNCHANGED <<generation, source, copy, inline, responses, reader, requests, stale,
                     provider, stack>>
  BY DEF SendBatch, InState, offer, network, xserver
<1>2. Turn
  BY <1>1 DEF Turn
<1>3. HeldInv'
  <2>1. store' = store \/ \E c \in {Unavailable, j.copy} : /\ j.generation = generation
                                                          /\ store' = [store EXCEPT !["uri"] = c]
    BY DEF SendBatch
  <2>2. j.generation = generation => FreshIn(j.copy)
    BY DEF FreshInv, JobInv, FreshIn
  <2>3. FreshIn(Unavailable)
    BY DEF FreshIn
  <2>4. \A t \in Managed : FreshIn(store'[t])
    BY <2>1, <2>2, <2>3 DEF TypeOK, ContentTypes, FreshInv, HeldInv
  <2> QED
    BY <1>1, <2>4 DEF FreshInv, HeldInv, FreshIn
<1>5. \A k \in jobs' : \E l \in jobs : l.generation = k.generation /\ l.copy = k.copy
  BY <1>1, SameFiles
<1>4. JobInv'
  BY <1>2, <1>5, JobsKept DEF FreshInv
<1> QED
  BY <1>1, <1>2, <1>3, <1>4, ResponsesKept, RequestsKept, ProviderKept, CallsStay DEF FreshInv

LEMMA FreshAnswer ==
    ASSUME TypeOK, FreshInv, NEW t \in Managed, DataResponse(t) \/ EmptyResponse(t)
    PROVE  FreshInv'
<1>1. UNCHANGED <<generation, source, copy, inline, store, responses, jobs, requests, stale,
                  provider, stack>>
  BY Answered DEF offer, network, xserver
<1>2. Turn
  BY <1>1 DEF Turn
<1>3. HeldInv'
  BY <1>1 DEF FreshInv, HeldInv, FreshIn
<1>4. ResponseInv'
  <2>1. PICK c \in Nat : /\ reader' = [generation |-> generation, target |-> t, copy |-> c]
                         /\ c = Unavailable \/ c = store[t]
    BY Answered
  <2>2. FreshIn(c)
    BY <2>1 DEF FreshInv, HeldInv, FreshIn
  <2>3. generation \in Nat /\ reader'.generation = generation /\ FreshIn(reader'.copy)
    BY <2>1, <2>2 DEF TypeOK, OfferTypes
  <2>4. \A r \in responses : r.generation <= generation /\ (r.generation = generation => FreshIn(r.copy))
    BY DEF FreshInv, ResponseInv
  <2> QED
    BY <1>1, <2>3, <2>4 DEF ResponseInv, FreshIn
<1> QED
  BY <1>1, <1>2, <1>3, <1>4, JobsKept, RequestsKept, ProviderKept, CallsStay DEF FreshInv

LEMMA FreshStore == ASSUME TypeOK, FreshInv, StoreResponse PROVE FreshInv'
<1>1. /\ reader' = NoResponse /\ responses' \subseteq responses \cup {reader}
      /\ UNCHANGED <<generation, source, copy, inline, store, jobs, requests, stale, provider, stack>>
  BY DEF StoreResponse, offer, network, xserver
<1>2. Turn
  BY <1>1 DEF Turn
<1>3. HeldInv'
  BY <1>1 DEF FreshInv, HeldInv, FreshIn
<1>4. ResponseInv'
  <2>1. \A r \in responses \cup {reader} :
          r.generation <= generation /\ (r.generation = generation => FreshIn(r.copy))
    BY DEF FreshInv, ResponseInv
  <2>2. NoResponse.generation <= generation /\ FreshIn(NoResponse.copy)
    BY DEF NoResponse, FreshIn, TypeOK, OfferTypes
  <2> QED
    BY <1>1, <2>1, <2>2 DEF ResponseInv, FreshIn
<1> QED
  BY <1>1, <1>2, <1>3, <1>4, JobsKept, RequestsKept, ProviderKept, CallsStay DEF FreshInv

LEMMA FreshCall ==
    ASSUME TypeOK, FreshInv, NEW t \in Targets \cup {"alias"}, Paste(t)
    PROVE  FreshInv'
<1>1. /\ provider.type = "native"
      /\ UNCHANGED <<generation, source, copy, inline, store, responses, reader, jobs, stale, provider>>
  BY Pasted DEF offer, threads, network, xserver
<1>2. Turn
  BY <1>1 DEF Turn
<1>3. HeldInv'
  BY <1>1 DEF FreshInv, HeldInv, FreshIn
<1>4. RequestInv' /\ CallInv'
  <2>1. CASE UNCHANGED <<requested, requests, wanted, stack>>
    BY <1>2, <2>1, RequestsKept, CallsStay DEF FreshInv
  <2>2. CASE ~UNCHANGED <<requested, requests, wanted, stack>>
    <3>1. /\ provider.generation = generation
          /\ \E key \in Targets, ask \in SUBSET Targets :
               /\ requests' = requests \cup {Request(generation, x, copy) : x \in ask}
               /\ stack' = Append(stack, [type |-> "paste", target |-> key,
                                          generation |-> generation, copy |-> provider.copy])
      BY <2>2, Pasted
    <3>2. copy >= source /\ provider.copy = source
      BY <1>1, <3>1 DEF FreshInv, HeldInv, ProviderInv, TypeOK, OfferTypes, PeerTypes
    <3>3. \A r \in requests' : r \in requests \/ (r.generation = generation /\ r.since >= source)
      BY <3>1, <3>2 DEF Request
    <3>4. RequestInv'
      BY <1>1, <1>2, <3>3, RequestsKept DEF FreshInv
    <3>5. PICK call : /\ call.generation = generation /\ call.copy = source
                      /\ stack' = Append(stack, call)
      BY <3>1, <3>2
    <3>6. stack \in Seq(Emits \cup Pastes)
      BY DEF TypeOK, CallTypes, Emits, Pastes
    <3>7. \A i \in 1..Len(stack') : \/ i \in 1..Len(stack) /\ stack'[i] = stack[i]
                                    \/ stack'[i] = call
      BY <3>5, <3>6
    <3>8. CallInv'
      BY <1>1, <1>2, <3>5, <3>7, CallsKept DEF FreshInv
    <3> QED
      BY <3>4, <3>8
  <2> QED
    BY <2>1, <2>2
<1> QED
  BY <1>1, <1>2, <1>3, <1>4, ResponsesKept, JobsKept, ProviderKept DEF FreshInv

LEMMA FreshInit == Init => FreshInv
  BY DEF Init, FreshInv, HeldInv, FreshIn, NoStore, ResponseInv, NoResponse, JobInv, RequestInv,
         ProviderInv, NoProvider, CallInv

LEMMA FreshStep ==
    ASSUME TypeOK, FreshInv, [Next]_vars
    PROVE  FreshInv'
<1>1. CASE LocalCopy \/ BrokerLost \/ UNCHANGED vars
  BY <1>1, FreshLocal
<1>2. CASE \E c \in clears : ClearIfStale(c)
  BY <1>2, FreshStale
<1>3. CASE ClearData \/ OwnerChanged \/ EmitToken
  BY <1>3, FreshClear, FreshOwner, FreshEmit
<1>4. CASE \E shape \in Shapes : PlainToken(shape) \/ ManagedToken(shape)
  BY <1>4, FreshPlain, FreshOffer
<1>5. CASE \E r \in requests : PeerReply(r) \/ RequestTimeout(r)
  BY <1>5, RepliesSince, FreshReply
<1>6. CASE \E j \in jobs : TakeBatch(j) \/ SendBatch(j)
  BY <1>6, FreshBatch, FreshSend
<1>7. CASE \E t \in Managed : DataResponse(t) \/ EmptyResponse(t)
  BY <1>7, FreshAnswer
<1>8. CASE StoreResponse \/ PasteReturns
  BY <1>8, FreshStore, FreshReturn
<1>9. CASE \E t \in Targets \cup {"alias"} : Paste(t)
  BY <1>9, FreshCall
<1> QED
  BY <1>1, <1>2, <1>3, <1>4, <1>5, <1>6, <1>7, <1>8, <1>9 DEF Next

\* "an old response cannot be mistaken for data belonging to the next offer": an application
\* is given nothing older than the offer that it pastes from, however late responses of the
\* peer and of the broker come and whatever offers follow each other.
THEOREM PastesAreFresh == Spec => []FreshPaste
<1>1. FreshInv => FreshPaste
  BY DEF FreshInv, FreshPaste
<1>2. TypeOK /\ FreshInv /\ [Next]_vars => FreshInv'
  BY FreshStep
<1> QED
  BY <1>1, <1>2, FreshInit, TypeCorrect, PTL DEF Spec

----------------------------------------------------------------------------
(* Which copies the peer is told of.                                        *)
(* Whoever has the selection instead of us, GTK is about to be told so: by  *)
(* the time it handles the last event, a copy is announced and not hidden   *)
(* as what we have put there ourselves.                                     *)

\* a change of owner would be announced
Ready == ~IsClaimed /\ (localOwner \/ textOwner \/ ~embargo)

\* a clear event that retires the offer
Frees(event) ==
    /\ event.type = "clear" /\ event.serial = serial /\ provider.type = "native"
    /\ claimed.on /\ claimed.generation = provider.generation

\* a change of owner will be, once the first j events are handled
Freed(j) == Ready \/ \E i \in 1..j : Frees(events[i])

Told(n) == n \in heard \/ Announcing(n)

FreedInv == sock /\ ~raced /\ owner # Us => Freed(Len(events))
ToldInv == sock /\ ~raced /\ owner > 0 =>
    Told(owner) \/ \E j \in 1..Len(events) : events[j].type = "change" /\ Freed(j)

AnnounceInv == FreedInv /\ ToldInv

\* the event of a change is handled, or a clear event that retires nothing
LEMMA FreedHandled ==
    ASSUME TypeOK, events # <<>>, events' = Tail(events), ~Frees(Head(events)),
           Ready => Ready', \A event : Frees(event) => Frees(event)'
    PROVE  \A j \in 1..Len(events) : Freed(j) => Freed(j - 1)'
<1> SUFFICES ASSUME NEW j \in 1..Len(events), Freed(j), ~Ready
             PROVE  Freed(j - 1)'
  BY DEF Freed
<1>1. PICK i \in 1..j : Frees(events[i])
  BY DEF Freed
<1>2. /\ Len(events) \in Nat /\ Len(events') = Len(events) - 1 /\ events[1] = Head(events)
      /\ \A k \in 1..Len(events') : events'[k] = events[k + 1]
  BY Handled
<1>3. i # 1
  BY <1>1, <1>2
<1>4. i - 1 \in 1..(j - 1) /\ i - 1 \in 1..Len(events') /\ (i - 1) + 1 = i
  BY <1>2, <1>3
<1>5. events'[i - 1] = events[i]
  BY <1>2, <1>4
<1>6. PICK event : event = events[i]
  OBVIOUS
<1>7. Frees(event)
  BY <1>1, <1>6 DEF Frees
<1>8. Frees(event)'
  BY <1>7
<1>9. \E k \in 1..(j - 1) : Frees(events[k])'
  BY <1>4, <1>5, <1>6, <1>8 DEF Frees
<1> QED
  BY <1>9 DEF Freed

\* nothing of the selection, of the claim and of the embargo changes
LEMMA AnnounceSame ==
    ASSUME TypeOK, AnnounceInv, Told(owner) => Told(owner)', sock' => sock,
           UNCHANGED <<owner, raced, events, serial, provider, claimed, generation, localOwner,
                       textOwner, embargo>>,
           IsClaimed' => IsClaimed
    PROVE  AnnounceInv'
<1>1. Ready => Ready'
  BY DEF Ready
<1>2. \A i : Frees(events[i]) => Frees(events[i])'
  BY DEF Frees
<1>3. \A j : Freed(j) => Freed(j)'
  BY <1>1, <1>2 DEF Freed
<1>4. FreedInv'
  BY <1>3 DEF AnnounceInv, FreedInv
<1>5. ToldInv'
  <2>1. SUFFICES ASSUME sock', ~raced', owner' > 0
                 PROVE  Told(owner)' \/ \E j \in 1..Len(events') : events'[j].type = "change" /\ Freed(j)'
    BY DEF ToldInv
  <2>2. Told(owner) \/ \E j \in 1..Len(events) : events[j].type = "change" /\ Freed(j)
    BY <2>1 DEF AnnounceInv, ToldInv
  <2> QED
    BY <1>3, <2>2
<1> QED
  BY <1>4, <1>5 DEF AnnounceInv

\* the offer is retired, or not: an application is ready to be told of
LEMMA AnnounceReady ==
    ASSUME AnnounceInv, Ready', UNCHANGED <<owner, raced, events, sock, heard, stack>>
    PROVE  AnnounceInv'
  BY DEF AnnounceInv, FreedInv, ToldInv, Freed, Told, Announcing

\* what we take ourselves is not announced, and what races with it need not be
LEMMA AnnounceTaken ==
    ASSUME TypeOK, NEW p, NEW race \in Races, TakeSelection(p, race)
    PROVE  AnnounceInv'
<1>1. owner' = Us \/ raced' = TRUE
  BY Taken
<1> QED
  BY <1>1, Numbers DEF AnnounceInv, FreedInv, ToldInv

LEMMA AnnounceCopy == ASSUME TypeOK, ClaimInv, OverInv, AnnounceInv, LocalCopy PROVE AnnounceInv'
<1>1. UNCHANGED <<raced, serial, provider, sock, active, claimed, generation, localOwner, textOwner,
                  embargo>>
  BY DEF LocalCopy, offer, proxy
<1>2. serial \in Nat /\ events \in Seq(Events)
  BY DEF TypeOK, SelectionTypes, Events
<1>3. /\ Change \in Events /\ Change.type = "change"
      /\ Clear(serial) \in Events /\ Clear(serial).type = "clear" /\ Clear(serial).serial = serial
  BY <1>2, EventTypes
<1>4. PICK q \in {<<Change>>, <<Clear(serial), Change>>} :
        events' = events \o q /\ (owner = Us => q = <<Clear(serial), Change>>)
  BY DEF LocalCopy
<1>5. q \in Seq(Events) /\ Len(q) \in 1..2 /\ q[Len(q)] = Change
  <2>1. CASE q = <<Change>>
    BY <1>3, <2>1, ShortQueues
  <2>2. CASE q = <<Clear(serial), Change>>
    <3>1. Len(q) = 2 /\ q[2] = Change
      BY <2>2
    <3> QED
      BY <1>3, <2>2, <3>1, ShortQueues
  <2> QED
    BY <1>4, <2>1, <2>2
<1>6. /\ Len(events') = Len(events) + Len(q) /\ Len(events) \in Nat
      /\ \A i \in 1..Len(events) : events'[i] = events[i]
      /\ \A i \in 1..Len(q) : events'[Len(events) + i] = q[i]
  BY <1>4, <1>5, Queued
<1>7. Len(events') \in 1..Len(events') /\ events'[Len(events')].type = "change"
  <2>1. Len(events') \in 1..Len(events') /\ Len(events') = Len(events) + Len(q)
    BY <1>5, <1>6
  <2>2. PICK n \in 1..Len(q) : n = Len(q)
    BY <1>5
  <2>3. events'[Len(events) + n] = q[n]
    BY <1>6
  <2>4. events'[Len(events')] = Change
    BY <1>5, <2>1, <2>2, <2>3
  <2> QED
    BY <1>3, <2>1, <2>4
<1>8. ASSUME NEW event, Frees(event), NEW i \in 1..Len(events'), events'[i] = event
      PROVE  Freed(Len(events))'
  <2>1. Frees(events[i])'
    BY <1>1, <1>8 DEF Frees
  <2> QED
    BY <1>8, <2>1 DEF Freed
<1>9. Ready' <=> Ready
  BY <1>1 DEF Ready, IsClaimed
<1>10. ASSUME sock, ~raced PROVE Freed(Len(events))'
  <2>1. CASE owner # Us
    <3>1. CASE Ready
      BY <1>9, <3>1 DEF Freed
    <3>2. CASE ~Ready
      <4>1. PICK i \in 1..Len(events) : Frees(events[i])
        BY <1>10, <2>1, <3>2 DEF AnnounceInv, FreedInv, Freed
      <4>2. i \in 1..Len(events') /\ events'[i] = events[i]
        BY <1>5, <1>6
      <4> QED
        BY <1>8, <4>1, <4>2
    <3> QED
      BY <3>1, <3>2
  <2>2. CASE owner = Us /\ claimed.on
    <3>1. q = <<Clear(serial), Change>>
      BY <1>4, <2>2
    <3>2. Len(q) = 2 /\ q[1] = Clear(serial)
      BY <3>1
    <3>3. Len(events) + 1 \in 1..Len(events') /\ events'[Len(events) + 1] = Clear(serial)
      BY <1>6, <3>2
    <3>4. /\ provider.type = "native" /\ provider.generation = generation
          /\ claimed.generation = generation
      BY <1>10, <2>2 DEF ClaimInv
    <3>5. Frees(Clear(serial))
      BY <1>3, <2>2, <3>4 DEF Frees
    <3> QED
      BY <1>8, <3>3, <3>5
  <2>3. CASE owner = Us /\ ~claimed.on
    <3>1. Ready
      BY <1>10, <2>3 DEF OverInv, Ready, IsClaimed
    <3> QED
      BY <1>9, <3>1 DEF Freed
  <2> QED
    BY <2>1, <2>2, <2>3
<1> QED
  BY <1>1, <1>7, <1>10 DEF AnnounceInv, FreedInv, ToldInv

LEMMA AnnounceStale ==
    ASSUME TypeOK, OverInv, AnnounceInv, NEW c \in clears, ClearIfStale(c)
    PROVE  AnnounceInv'
<1>1. UNCHANGED <<raced, serial, sock, active, claimed, generation, localOwner, textOwner, embargo,
                  stack, heard>>
  BY DEF ClearIfStale, offer, proxy
<1>2. CASE generation = c.generation + 1 /\ ~active /\ nonce = c.nonce /\ OwnsNative
  <2>1. owner' = Nobody
    BY <1>2 DEF ClearIfStale
  <2>2. localOwner
    BY <1>2 DEF OverInv
  <2>3. Ready'
    BY <1>1, <1>2, <2>2 DEF Ready, IsClaimed
  <2> QED
    BY <2>1, <2>3 DEF AnnounceInv, FreedInv, ToldInv, Freed, Nobody
<1>3. CASE ~(generation = c.generation + 1 /\ ~active /\ nonce = c.nonce /\ OwnsNative)
  <2>1. UNCHANGED <<owner, events, provider>>
    BY <1>3 DEF ClearIfStale
  <2> QED
    BY <1>1, <2>1, AnnounceSame DEF IsClaimed, Told, Announcing
<1> QED
  BY <1>2, <1>3

LEMMA AnnounceClear == ASSUME TypeOK, ClaimInv, AnnounceInv, ClearData PROVE AnnounceInv'
<1>1. /\ events # <<>> /\ Head(events).type = "clear" /\ events' = Tail(events)
      /\ UNCHANGED <<owner, raced, serial, sock, textOwner, embargo, stack, heard>>
  BY DEF ClearData
<1>2. /\ Len(events) \in Nat /\ Len(events') = Len(events) - 1 /\ events[1] = Head(events)
      /\ \A k \in 1..Len(events') : events'[k] = events[k + 1]
  BY <1>1, Handled
<1>3. SUFFICES ASSUME sock PROVE AnnounceInv'
  BY <1>1 DEF AnnounceInv, FreedInv, ToldInv
<1>4. \A j \in 1..Len(events) : Freed(j) => Freed(j - 1)'
  <2>1. CASE Frees(Head(events))
    <3>1. InvalidateNative(FALSE) /\ localOwner' = TRUE
      BY <2>1 DEF ClearData, Frees
    <3>2. claimed' = NotClaimed
      BY <1>3, <2>1, <3>1, Invalidated DEF Frees, Retires
    <3>3. Ready'
      BY <3>1, <3>2 DEF Ready, IsClaimed, NotClaimed
    <3> QED
      BY <3>3 DEF Freed
  <2>2. CASE ~Frees(Head(events))
    <3>1. UNCHANGED <<offer, localOwner>>
      BY <1>1, <2>2 DEF ClearData, Frees
    <3>2. Ready => Ready'
      BY <1>1, <3>1 DEF Ready, IsClaimed, offer
    <3>3. ASSUME NEW event, Frees(event) PROVE Frees(event)'
      <4>1. provider.type = "native" /\ Head(events).serial # serial
        BY <1>1, <2>2, <3>3 DEF Frees
      <4>2. provider' = provider
        BY <4>1 DEF ClearData
      <4> QED
        BY <1>1, <3>1, <3>3, <4>2 DEF Frees, offer
    <3> QED
      BY <1>1, <2>2, <3>2, <3>3, FreedHandled
  <2> QED
    BY <2>1, <2>2
<1>5. FreedInv'
  <2>1. Len(events) \in 1..Len(events)
    BY <1>1, Handled
  <2>2. ASSUME Freed(Len(events)) PROVE Freed(Len(events))'
    <3>1. PICK n \in 1..Len(events) : n = Len(events) /\ n - 1 = Len(events')
      BY <1>2, <2>1
    <3>2. Freed(n - 1)'
      BY <1>4, <2>2, <3>1
    <3> QED
      BY <3>1, <3>2 DEF Freed
  <2> QED
    BY <1>1, <2>2 DEF AnnounceInv, FreedInv
<1>6. ToldInv'
  <2>1. ASSUME NEW j \in 1..Len(events), events[j].type = "change", Freed(j)
        PROVE  \E k \in 1..Len(events') : events'[k].type = "change" /\ Freed(k)'
    <3>1. j # 1
      BY <1>1, <1>2, <2>1
    <3>2. j - 1 \in 1..Len(events') /\ (j - 1) + 1 = j
      BY <1>2, <3>1
    <3>3. events'[j - 1] = events[j] /\ Freed(j - 1)'
      BY <1>2, <1>4, <2>1, <3>2
    <3> QED
      BY <2>1, <3>2, <3>3
  <2>2. Told(owner)' <=> Told(owner)
    BY <1>1 DEF Told, Announcing
  <2> QED
    BY <1>1, <2>1, <2>2 DEF AnnounceInv, ToldInv
<1> QED
  BY <1>5, <1>6 DEF AnnounceInv

LEMMA AnnounceOwner == ASSUME TypeOK, AnnounceInv, OwnerChanged PROVE AnnounceInv'
<1>1. /\ events # <<>> /\ Head(events).type = "change" /\ events' = Tail(events)
      /\ UNCHANGED <<owner, raced, serial, provider, sock, active, claimed, generation, embargo, heard>>
  BY DEF OwnerChanged, offer
<1>2. /\ Len(events) \in Nat /\ Len(events') = Len(events) - 1 /\ events[1] = Head(events)
      /\ \A k \in 1..Len(events') : events'[k] = events[k + 1]
  BY <1>1, Handled
<1>3. stack \in Seq(Emits \cup Pastes) /\ Len(stack) \in Nat
  BY DEF TypeOK, CallTypes, Emits, Pastes
<1>4. ~Frees(Head(events)) /\ \A event : Frees(event) => Frees(event)'
  BY <1>1 DEF Frees
<1>5. (localOwner \/ textOwner) => (localOwner' \/ textOwner')
  BY DEF OwnerChanged
<1>6. Ready => Ready'
  BY <1>1, <1>5 DEF Ready, IsClaimed
<1>7. \A j \in 1..Len(events) : Freed(j) => Freed(j - 1)'
  BY <1>1, <1>4, <1>6, FreedHandled
<1>8. stack' = stack \/ stack' = Append(stack, [type |-> "emit", copy |-> owner])
  BY DEF OwnerChanged
<1>9. Told(owner) => Told(owner)'
  <2>1. \A i \in 1..Len(stack) : i \in 1..Len(stack') /\ stack'[i] = stack[i]
    BY <1>3, <1>8
  <2> QED
    BY <1>1, <2>1 DEF Told, Announcing
<1>10. ASSUME Ready, owner # Us PROVE Told(owner)'
  <2>1. stack' = Append(stack, [type |-> "emit", copy |-> owner])
    BY <1>10 DEF OwnerChanged, OwnsNative, Embargoed, Ready
  <2>2. Len(stack') \in 1..Len(stack') /\ stack'[Len(stack')] = [type |-> "emit", copy |-> owner]
    BY <1>3, <2>1
  <2> QED
    BY <1>1, <2>2 DEF Told, Announcing
<1>11. FreedInv'
  <2>1. Len(events) \in 1..Len(events)
    BY <1>1, Handled
  <2>2. ASSUME Freed(Len(events)) PROVE Freed(Len(events))'
    <3>1. PICK n \in 1..Len(events) : n = Len(events) /\ n - 1 = Len(events')
      BY <1>2, <2>1
    <3>2. Freed(n - 1)'
      BY <1>7, <2>2, <3>1
    <3> QED
      BY <3>1, <3>2 DEF Freed
  <2> QED
    BY <1>1, <2>2 DEF AnnounceInv, FreedInv
<1>12. ToldInv'
  <2>1. ASSUME NEW j \in 1..Len(events), events[j].type = "change", Freed(j), owner > 0
        PROVE  Told(owner)' \/ \E k \in 1..Len(events') : events'[k].type = "change" /\ Freed(k)'
    <3>1. CASE j = 1
      <4>1. Ready
        BY <1>2, <1>4, <2>1, <3>1 DEF Freed
      <4>2. owner # Us
        BY <2>1, Numbers
      <4> QED
        BY <1>10, <4>1, <4>2
    <3>2. CASE j # 1
      <4>1. j - 1 \in 1..Len(events') /\ (j - 1) + 1 = j
        BY <1>2, <3>2
      <4>2. events'[j - 1] = events[j] /\ Freed(j - 1)'
        BY <1>2, <1>7, <2>1, <4>1
      <4> QED
        BY <2>1, <4>1, <4>2
    <3> QED
      BY <3>1, <3>2
  <2> QED
    BY <1>1, <1>9, <2>1 DEF AnnounceInv, ToldInv
<1> QED
  BY <1>11, <1>12 DEF AnnounceInv

LEMMA AnnouncePlain ==
    ASSUME TypeOK, AnnounceInv, NEW shape \in Shapes, PlainToken(shape)
    PROVE  AnnounceInv'
<1>1. /\ InvalidateNative(TRUE) /\ (NoText \/ \E race \in Races : Texts(race))
      /\ UNCHANGED <<sock, stack, heard>>
  BY Plain
<1>2. CASE NoText
  <2>1. /\ UNCHANGED <<owner, raced, events, serial, provider, textOwner, embargo>>
        /\ localOwner' = (localOwner \/ Retires)
    BY <1>2 DEF NoText, xserver
  <2>2. CASE Retires
    <3>1. claimed' = NotClaimed /\ localOwner' = TRUE
      BY <1>1, <2>1, <2>2, Invalidated
    <3>2. Ready'
      BY <3>1 DEF Ready, IsClaimed, NotClaimed
    <3> QED
      BY <1>1, <2>1, <3>2, AnnounceReady
  <2>3. CASE ~Retires
    <3>1. UNCHANGED <<generation, active, claimed>>
      BY <1>1, <2>3, Invalidated DEF offer
    <3>2. localOwner' = localOwner
      BY <2>1, <2>3 DEF TypeOK, OwnerTypes
    <3> QED
      BY <1>1, <2>1, <3>1, <3>2, AnnounceSame DEF IsClaimed, Told, Announcing
  <2> QED
    BY <2>2, <2>3
<1>3. ASSUME NEW race \in Races, Texts(race) PROVE AnnounceInv'
  BY <1>3, AnnounceTaken DEF Texts
<1> QED
  BY <1>1, <1>2, <1>3

LEMMA AnnounceOffer ==
    ASSUME TypeOK, AnnounceInv, NEW shape \in Shapes, ManagedToken(shape)
    PROVE  AnnounceInv'
<1>1. sock' = sock /\ UNCHANGED <<stack, heard>>
  BY Offers
<1>2. CASE Merged
  <2>1. generation' = generation
    BY <1>2, OfferClaims DEF Merged
  <2> QED
    BY <1>1, <1>2, <2>1, AnnounceSame DEF Merged, xserver, IsClaimed, Told, Announcing
<1>3. ASSUME NEW race \in Races, Claimed(race) PROVE AnnounceInv'
  BY <1>3, AnnounceTaken DEF Claimed
<1> QED
  BY <1>2, <1>3, OfferClaims

\* calls that return, and those that begin
LEMMA ToldPopped ==
    ASSUME TypeOK, stack # <<>>, stack' = Pop, heard \subseteq heard',
           Top.type = "emit" => Top.copy \in heard', NEW n, Told(n)
    PROVE  Told(n)'
<1>1. stack \in Seq(Emits \cup Pastes) /\ Len(stack) \in Nat
  BY DEF TypeOK, CallTypes, Emits, Pastes
<1>2. Len(stack') = Len(stack) - 1 /\ \A i \in 1..Len(stack') : stack'[i] = stack[i]
  BY StackTypes
<1>3. CASE n \in heard
  BY <1>3 DEF Told
<1>4. ASSUME NEW i \in 1..Len(stack), stack[i].type = "emit", stack[i].copy = n PROVE Told(n)'
  <2>1. CASE i = Len(stack)
    BY <1>4, <2>1 DEF Top, Told
  <2>2. CASE i # Len(stack)
    <3>1. i \in 1..Len(stack')
      BY <1>1, <1>2, <2>2
    <3> QED
      BY <1>2, <1>4, <3>1 DEF Told, Announcing
  <2> QED
    BY <2>1, <2>2
<1> QED
  BY <1>3, <1>4 DEF Told, Announcing

LEMMA ToldCall ==
    ASSUME TypeOK, NEW t \in Targets \cup {"alias"}, Paste(t), NEW n, Told(n)
    PROVE  Told(n)'
<1>1. stack \in Seq(Emits \cup Pastes) /\ Len(stack) \in Nat
  BY DEF TypeOK, CallTypes, Emits, Pastes
<1>2. heard' = heard
  BY DEF Paste
<1>3. stack' = stack \/ \E call : stack' = Append(stack, call)
  BY DEF Paste
<1>4. \A i \in 1..Len(stack) : i \in 1..Len(stack') /\ stack'[i] = stack[i]
  BY <1>1, <1>3
<1> QED
  BY <1>2, <1>4 DEF Told, Announcing

LEMMA AnnounceQuiet ==
    ASSUME TypeOK, AnnounceInv, Quiet, Told(owner) => Told(owner)'
    PROVE  AnnounceInv'
<1>1. UNCHANGED <<owner, raced, events, serial, provider, claimed, generation, active, localOwner,
                  textOwner, embargo>>
  BY DEF Quiet
<1>2. sock' => sock
  BY DEF Quiet
<1> QED
  BY <1>1, <1>2, AnnounceSame DEF IsClaimed

LEMMA AnnounceStep ==
    ASSUME SelectionInv, AnnounceInv, [Next]_vars
    PROVE  AnnounceInv'
<1> USE DEF SelectionInv
<1>1. CASE LocalCopy
  BY <1>1, AnnounceCopy
<1>2. CASE \E c \in clears : ClearIfStale(c)
  BY <1>2, AnnounceStale
<1>3. CASE ClearData \/ OwnerChanged
  BY <1>3, AnnounceClear, AnnounceOwner
<1>4. CASE \E shape \in Shapes : PlainToken(shape) \/ ManagedToken(shape)
  BY <1>4, AnnouncePlain, AnnounceOffer
<1>5. CASE EmitToken
  <2>1. Told(owner) => Told(owner)'
    <3>1. /\ stack # <<>> /\ stack' = Pop /\ heard \subseteq heard' /\ owner' = owner
          /\ Top.type = "emit" => Top.copy \in heard'
      BY <1>5 DEF EmitToken, xserver
    <3>2. \A n : Told(n) => Told(n)'
      BY <3>1, ToldPopped
    <3> QED
      BY <3>1, <3>2 DEF Told, Announcing
  <2> QED
    BY <1>5, <2>1, QuietSteps, AnnounceQuiet
<1>6. CASE PasteReturns
  <2>1. Told(owner) => Told(owner)'
    <3>1. /\ stack # <<>> /\ stack' = Pop /\ heard \subseteq heard' /\ owner' = owner
          /\ Top.type # "emit"
      BY <1>6 DEF PasteReturns, xserver
    <3>2. \A n : Told(n) => Told(n)'
      BY <3>1, ToldPopped
    <3> QED
      BY <3>1, <3>2 DEF Told, Announcing
  <2> QED
    BY <1>6, <2>1, QuietSteps, AnnounceQuiet
<1>7. ASSUME NEW t \in Targets \cup {"alias"}, Paste(t) PROVE AnnounceInv'
  <2>1. Told(owner) => Told(owner)'
    <3>1. owner' = owner
      BY <1>7 DEF Paste, xserver
    <3>2. \A n : Told(n) => Told(n)'
      BY <1>7, ToldCall
    <3> QED
      BY <3>1, <3>2 DEF Told, Announcing
  <2> QED
    BY <1>7, <2>1, QuietSteps, AnnounceQuiet
<1>8. CASE Quiet /\ UNCHANGED <<stack, heard>>
  BY <1>8, AnnounceQuiet DEF Quiet, Told, Announcing
<1>9. ASSUME NEW r, NEW c, Reply(r, c) PROVE UNCHANGED <<stack, heard>>
  BY <1>9 DEF Reply
<1>10. ASSUME NEW t, NEW c, BrokerAnswers(t, c) PROVE UNCHANGED <<stack, heard>>
  BY <1>10 DEF BrokerAnswers
<1>11. ASSUME NEW j, TakeBatch(j) \/ SendBatch(j) PROVE UNCHANGED <<stack, heard>>
  BY <1>11 DEF TakeBatch, SendBatch
<1>12. StoreResponse \/ BrokerLost \/ UNCHANGED vars => UNCHANGED <<stack, heard>>
  BY DEF StoreResponse, BrokerLost, vars
<1> QED
  BY <1>1, <1>2, <1>3, <1>4, <1>5, <1>6, <1>7, <1>8, <1>9, <1>10, <1>11, <1>12, QuietSteps
     DEF Next, PeerReply, RequestTimeout, DataResponse, EmptyResponse

LEMMA AnnounceInit == Init => AnnounceInv
  BY DEF Init, AnnounceInv, FreedInv, ToldInv, Freed, Ready, IsClaimed, NotClaimed, Nobody

\* "A native clear callback is positive evidence of a new local owner": with a broker, and
\* unless it raced with our own claim, the copy that is in the selection is one that the peer
\* has been told of, or is being told of, once GTK has handled its events.
THEOREM LocalCopiesAnnounced == Spec => []LocalCopyAnnounced
<1>1. AnnounceInv => LocalCopyAnnounced
  BY DEF AnnounceInv, ToldInv, Told, LocalCopyAnnounced, LastCopyAnnounced
<1>2. SelectionInv /\ AnnounceInv /\ [Next]_vars => AnnounceInv'
  BY AnnounceStep
<1> QED
  BY <1>1, <1>2, AnnounceInit, SelectionAlways, PTL DEF Spec
=============================================================================
