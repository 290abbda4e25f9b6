-------------------------- MODULE X11Offer_proofs --------------------------
(***************************************************************************)
(* The tokens for the selection of a local application, for any number of  *)
(* applications, offers, tokens and events.                                *)
(*                                                                         *)
(* What is read is read for one offer: an event of an owner, which is what *)
(* changes the offer, ends the reading, and so does the peer's own token.  *)
(* The last event that waits says who the owner is and what it offers, so  *)
(* that the peer has been told, or will be, when it is handled.            *)
(* For the ids, the proxy remembers what it has sent last, unless it has   *)
(* had a token since, and it takes another id for other files.             *)
(***************************************************************************)
EXTENDS X11Offer, SequenceTheorems, TLAPS

USE DEF setup

\* every event of an application is about an offer, and the last one says who the owner
\* is, and what it offers now
QueueInv ==
    /\ \A i \in 1..Len(queue) : queue[i].xid \in Xids => queue[i].stamp \in 1..Len(offers)
    /\ queue # <<>> => queue[Len(queue)].xid = owner
    /\ queue # <<>> /\ owner \in Xids => queue[Len(queue)].stamp = Len(offers)

\* what is offered later is not older
OfferInv ==
    /\ \A i \in 1..Len(offers) : offers[i].content <= i
    /\ \A i, j \in 1..Len(offers) : i <= j => offers[i].content <= offers[j].content

\* once the last event is handled, the proxy knows of the latest offer, and has told the
\* peer or is reading what it will tell it, unless it was disabled or the peer's token has
\* ended the reading
QuietInv ==
    /\ ~haveToken => answered
    /\ owner \in Xids /\ queue = <<>> /\ ~missed =>
        /\ current = Len(offers)
        /\ Reading => reading # <<>> \/ (sent # <<>> /\ sent[1].stamp = current)
        /\ answered \/ (Reading /\ reading # <<>>)

\* what is read is of a local owner, and no older than the offer that the proxy knows
ReadInv ==
    /\ cached <= Len(offers)
    /\ reading # <<>> =>
        /\ owner # Self /\ Reading
        /\ reading[1].step # "targets" => reading[1].targets \in Stamps /\ reading[1].targets \in current..Len(offers)
        /\ reading[1].files # NOTHING => reading[1].files >= ContentOf(current)

\* the last token is for an offer that has been published
SentInv ==
    sent # <<>> =>
        /\ sent[1].stamp <= Len(offers) /\ sent[1].targets <= Len(offers)
        /\ current = NOTHING => sent[1].stamp = NOTHING

\* what the proxy remembers of the last token is what it has sent
Remembered ==
    /\ last.stamp = sent[1].stamp
    /\ last.xid = OwnerOf(sent[1].stamp)
    /\ last.targets = TargetsOf(sent[1].targets)
    /\ ~odd => /\ sent[1].targets \in Stamps
               /\ last.files # NOTHING => last.files = ContentOf(last.stamp)

IdInv ==
    Reading =>
        /\ sent = <<>> => last = NoLast
        /\ sent # <<>> => sent[1].id = offerId /\ (last = NoLast \/ Remembered)

IndInv == TypeOK /\ QueueInv /\ OfferInv /\ QuietInv /\ ReadInv /\ SentInv /\ TokenOfOneOffer /\ IdInv

Memories == [xid : Xids \cup {NoOwner}, stamp : Offers, targets : TargetSets \cup {{}},
             content : Offers, target : {"none", "text", "png"}, files : Offers]

----------------------------------------------------------------------------
(* Offers, events and tokens.                                               *)

LEMMA Single ==
    ASSUME NEW S, NEW x \in S
    PROVE  <<x>> \in Seq(S) /\ Len(<<x>>) = 1 /\ <<x>>[1] = x /\ <<x>> # <<>>
  OBVIOUS

\* The numbers of offers.
LEMMA OfferCounts ==
    ASSUME TypeOK
    PROVE  /\ offers \in Seq(Published) /\ Len(offers) \in Nat /\ Len(offers) <= MaxStamps
           /\ MaxStamps \in Nat
           /\ current \in 0..Len(offers) /\ current \in Int
<1>1. offers \in Seq(Published) /\ Len(offers) <= MaxStamps /\ current \in 0..Len(offers)
  BY DEF TypeOK
<1>2. Len(offers) \in Nat
  BY <1>1, LenProperties
<1> QED
  BY <1>1, <1>2, OfferAssumption

\* What an offer has, and what there is besides offers.
LEMMA OfferFacts ==
    ASSUME TypeOK, NEW s \in Int, s <= Len(offers)
    PROVE  /\ ContentOf(s) \in Offers /\ OwnerOf(s) \in Xids \cup {NoOwner}
           /\ TargetsOf(s) \in TargetSets \cup {{}}
           /\ s \in Stamps => /\ s \in 1..Len(offers) /\ offers[s] \in Published
                              /\ ContentOf(s) = offers[s].content /\ OwnerOf(s) \in Xids
                              /\ TargetsOf(s) # {}
           /\ s = NOTHING => ContentOf(s) = NOTHING /\ OwnerOf(s) = NoOwner /\ TargetsOf(s) = {}
<1>1. Len(offers) \in Nat /\ MaxStamps \in Nat /\ Len(offers) <= MaxStamps
  BY OfferCounts
<1>2. CASE s \in Stamps
  <2>1. s \in 1..Len(offers)
    BY <1>1, <1>2 DEF Stamps
  <2>2. offers[s] \in Published
    BY <2>1, ElementOfSeq DEF TypeOK
  <2>3. offers[s].targets # {} /\ offers[s].targets \in TargetSets /\ offers[s].xid \in Xids /\ offers[s].content \in Stamps
    BY <2>2 DEF Published, TargetSets, Text, Files, Image
  <2>4. s # NOTHING
    BY <1>2 DEF Stamps, NOTHING
  <2> QED
    BY <1>2, <2>1, <2>2, <2>3, <2>4 DEF ContentOf, OwnerOf, TargetsOf, Offers
<1>3. CASE s \notin Stamps
  BY <1>3 DEF ContentOf, OwnerOf, TargetsOf, Offers, NOTHING, REMOTE, TargetSets, Text
<1> QED
  BY <1>2, <1>3

\* What has been published stays.
LEMMA Appended ==
    ASSUME TypeOK, NEW p \in Published, Len(offers) < MaxStamps, offers' = Append(offers, p)
    PROVE  /\ offers' \in Seq(Published) /\ Len(offers') = Len(offers) + 1
           /\ Len(offers') \in Stamps
           /\ \A i \in 1..Len(offers) : offers'[i] = offers[i]
           /\ offers'[Len(offers) + 1] = p
           /\ \A s \in Int : s <= Len(offers) =>
                /\ ContentOf(s)' = ContentOf(s) /\ OwnerOf(s)' = OwnerOf(s)
                /\ TargetsOf(s)' = TargetsOf(s)
<1>1. offers \in Seq(Published) /\ Len(offers) \in Nat /\ MaxStamps \in Nat
  BY OfferCounts
<1>2. /\ offers' \in Seq(Published) /\ Len(offers') = Len(offers) + 1
      /\ \A i \in 1..Len(offers) : offers'[i] = offers[i]
      /\ offers'[Len(offers) + 1] = p
  BY <1>1, AppendProperties
<1>3. ASSUME NEW s \in Int, s <= Len(offers)
      PROVE  /\ ContentOf(s)' = ContentOf(s) /\ OwnerOf(s)' = OwnerOf(s)
             /\ TargetsOf(s)' = TargetsOf(s)
  <2>1. s \in Stamps => s \in 1..Len(offers)
    BY <1>1, <1>3 DEF Stamps
  <2> QED
    BY <1>2, <2>1 DEF ContentOf, OwnerOf, TargetsOf
<1> QED
  BY <1>1, <1>2, <1>3 DEF Stamps

\* The events that wait.
LEMMA Enqueued ==
    ASSUME NEW event \in Events, queue \in Seq(Events), queue' = Append(queue, event)
    PROVE  /\ queue' \in Seq(Events) /\ Len(queue) \in Nat /\ Len(queue') = Len(queue) + 1
           /\ queue' # <<>>
           /\ \A i \in 1..Len(queue) : queue'[i] = queue[i]
           /\ queue'[Len(queue')] = event
  BY AppendProperties, LenProperties

LEMMA Dequeued ==
    ASSUME queue \in Seq(Events), queue # <<>>, queue' = Tail(queue)
    PROVE  /\ queue' \in Seq(Events) /\ Len(queue') = Len(queue) - 1
           /\ Head(queue) = queue[1] /\ Head(queue) \in Events /\ Len(queue) \in Nat \ {0}
           /\ \A i \in 1..Len(queue') : queue'[i] = queue[i + 1] /\ i + 1 \in 1..Len(queue)
           /\ queue' = <<>> => Len(queue) = 1
           /\ queue' # <<>> => queue'[Len(queue')] = queue[Len(queue)]
<1>1. Len(queue) \in Nat \ {0} /\ Head(queue) = queue[1]
  BY EmptySeq, HeadTailProperties, LenProperties
<1>2. Head(queue) \in Events /\ Tail(queue) \in Seq(Events) /\ Len(Tail(queue)) = Len(queue) - 1
  BY HeadTailProperties
<1>3. \A i \in 1..Len(Tail(queue)) : Tail(queue)[i] = queue[i + 1]
  BY HeadTailProperties
<1>4. queue' # <<>> => Len(queue') \in 1..Len(queue')
  BY <1>2, EmptySeq, LenProperties
<1>5. queue' = <<>> => Len(queue') = 0
  OBVIOUS
<1> QED
  BY <1>1, <1>2, <1>3, <1>4, <1>5

\* The parts of TypeOK that different steps change.
WorldTypes ==
    /\ wants \in {"owner", "targets", "data"}
    /\ owner \in Xids \cup {Self, NoOwner}
    /\ offers \in Seq(Published) /\ Len(offers) <= MaxStamps
    /\ queue \in Seq(Events)

ReadTypes ==
    /\ owned \in BOOLEAN
    /\ cached \in Offers \cup {REMOTE} /\ current \in 0..Len(offers)
    /\ reading \in Seq(ReadSteps) /\ Len(reading) <= 1

TokenTypes ==
    /\ last \in Memories /\ offerId \in Nat \ {0}
    /\ haveToken \in BOOLEAN
    /\ sent \in Seq(Tokens) /\ Len(sent) <= 1
    /\ answered \in BOOLEAN /\ odd \in BOOLEAN

PeerTypes ==
    /\ asking \in BOOLEAN /\ inputs \in 0..MaxInputs
    /\ enabled \in BOOLEAN /\ missed \in BOOLEAN

LEMMA TypeParts == TypeOK <=> WorldTypes /\ ReadTypes /\ TokenTypes /\ PeerTypes
  BY DEF TypeOK, WorldTypes, ReadTypes, TokenTypes, PeerTypes, Memories

\* The one token that was sent last, and the one step that is being read.
LEMMA LastOne ==
    ASSUME TypeOK
    PROVE  /\ sent # <<>> => sent[1] \in Tokens
           /\ reading # <<>> => reading[1] \in ReadSteps
<1>1. sent \in Seq(Tokens) /\ reading \in Seq(ReadSteps)
  BY DEF TypeOK
<1>2. sent # <<>> => 1 \in 1..Len(sent)
  BY <1>1, EmptySeq
<1>3. reading # <<>> => 1 \in 1..Len(reading)
  BY <1>1, EmptySeq
<1> QED
  BY <1>1, <1>2, <1>3, ElementOfSeq

\* What a token that was read leaves behind.
WasSent(targets, target, content, files) ==
    /\ sent' # <<>>
    /\ sent'[1].stamp = current /\ sent'[1].targets = targets
    /\ sent'[1].target = target /\ sent'[1].content = content
    /\ sent'[1].files = files /\ sent'[1].id = offerId'
    /\ last'.xid = OwnerOf(current) /\ last'.stamp = current
    /\ last'.targets = TargetsOf(targets)
    /\ last'.files = files \/ (files = NOTHING /\ last'.files = last.files /\ offerId' = offerId)
    /\ offerId' = IF NewOffer(OwnerOf(current), TargetsOf(targets), target, content, files)
                  THEN offerId + 1 ELSE offerId
    /\ odd' = (odd \/ Odd(sent'[1]))
    /\ answered' = TRUE /\ haveToken' = FALSE /\ reading' = <<>>

LEMMA Sends ==
    ASSUME TypeOK,
           NEW targets \in Int, targets \in Offers \cup {REMOTE}, targets <= Len(offers),
           NEW target \in {"none", "text", "png"}, NEW content \in Offers, NEW files \in Offers,
           SendToken(targets, target, content, files)
    PROVE  TokenTypes' /\ WasSent(targets, target, content, files)
<1>1. current \in Int /\ current <= Len(offers) /\ current \in Offers
  <2>1. /\ Len(offers) \in Nat /\ Len(offers) <= MaxStamps /\ MaxStamps \in Nat
        /\ current \in 0..Len(offers)
    BY OfferCounts
  <2>2. current \in Int /\ current <= Len(offers) /\ current \in {0} \cup 1..MaxStamps
    BY <2>1
  <2>3. current \in Offers
    BY <2>2 DEF Offers, Stamps, NOTHING
  <2> QED
    BY <2>2, <2>3
<1>2. /\ OwnerOf(current) \in Xids \cup {NoOwner}
      /\ TargetsOf(targets) \in TargetSets \cup {{}}
  BY <1>1, OfferFacts
<1>3. last \in Memories /\ offerId \in Nat \ {0} /\ odd \in BOOLEAN
  BY TypeParts DEF TokenTypes
<1> DEFINE new == NewOffer(OwnerOf(current), TargetsOf(targets), target, content, files)
           xid == OwnerOf(current)
           set == TargetsOf(targets)
           token == [stamp |-> current, targets |-> targets, target |-> target,
                     content |-> content, files |-> files, id |-> offerId']
<1>4. /\ offerId' = IF new THEN offerId + 1 ELSE offerId
      /\ last' = [xid |-> xid, stamp |-> current, targets |-> set,
                  content |-> IF new \/ content # NOTHING THEN content ELSE last.content,
                  target |-> IF new \/ content # NOTHING THEN target ELSE last.target,
                  files |-> IF new \/ files # NOTHING THEN files ELSE last.files]
      /\ sent' = <<token>> /\ odd' = (odd \/ Odd(sent'[1]))
      /\ answered' = TRUE /\ haveToken' = FALSE /\ reading' = <<>>
  BY DEF SendToken
<1> HIDE DEF new, xid, set
<1>5. xid \in Xids \cup {NoOwner} /\ set \in TargetSets \cup {{}}
  BY <1>2 DEF xid, set
<1>6. offerId' \in Nat \ {0}
  <2>1. offerId' = offerId \/ offerId' = offerId + 1
    BY <1>4
  <2> QED
    BY <1>3, <2>1
<1>7. last' \in Memories
  BY <1>1, <1>3, <1>4, <1>5 DEF Memories
<1>8. token \in Tokens
  BY <1>1, <1>6 DEF Tokens
<1> HIDE DEF token
<1>9. sent' \in Seq(Tokens) /\ Len(sent') = 1 /\ sent'[1] = token /\ sent' # <<>>
  BY <1>4, <1>8, Single
<1>10. odd' \in BOOLEAN
  BY <1>3, <1>4 DEF Odd
<1>11. TokenTypes'
  <2>1. Len(sent') <= 1
    BY <1>9
  <2>2. haveToken' \in BOOLEAN /\ answered' \in BOOLEAN
    BY <1>4
  <2> QED
    BY <1>6, <1>7, <1>9, <1>10, <2>1, <2>2 DEF TokenTypes
<1>12. /\ last'.xid = xid /\ last'.stamp = current /\ last'.targets = set
       /\ last'.files = files \/ (files = NOTHING /\ last'.files = last.files /\ offerId' = offerId)
  BY <1>4
<1>13. /\ sent'[1].stamp = current /\ sent'[1].targets = targets
       /\ sent'[1].target = target /\ sent'[1].content = content
       /\ sent'[1].files = files /\ sent'[1].id = offerId'
  <2>1. sent'[1] = token
    BY <1>9
  <2> QED
    BY <2>1 DEF token
<1> QED
  BY <1>4, <1>9, <1>11, <1>12, <1>13 DEF WasSent, new, xid, set

----------------------------------------------------------------------------
(* The ids.                                                                 *)

\* The stamps of the last token and of the present offer.
LEMMA StampFacts ==
    ASSUME TypeOK, SentInv
    PROVE  /\ current \in Int /\ current <= Len(offers) /\ current \in Offers
           /\ sent # <<>> => /\ sent[1].stamp \in Int /\ sent[1].stamp <= Len(offers)
                             /\ sent[1].targets \in Int /\ sent[1].targets <= Len(offers)
                             /\ sent[1].stamp \in Offers /\ sent[1].id \in Nat
<1>1. /\ Len(offers) \in Nat /\ Len(offers) <= MaxStamps /\ MaxStamps \in Nat
      /\ current \in 0..Len(offers)
  BY OfferCounts
<1>2. current \in Int /\ current <= Len(offers) /\ current \in {0} \cup 1..MaxStamps
  BY <1>1
<1>3. sent # <<>> => sent[1] \in Tokens
  BY LastOne
<1>4. sent # <<>> => /\ sent[1].stamp \in Offers /\ sent[1].targets \in Offers \cup {REMOTE}
                     /\ sent[1].id \in Nat
  BY <1>3 DEF Tokens
<1>5. Offers \cup {REMOTE} \subseteq Int
  BY DEF Offers, Stamps, NOTHING, REMOTE
<1>6. sent # <<>> => sent[1].stamp <= Len(offers) /\ sent[1].targets <= Len(offers)
  BY DEF SentInv
<1>7. current \in Offers
  BY <1>2 DEF Offers, Stamps, NOTHING
<1> QED
  BY <1>2, <1>4, <1>5, <1>6, <1>7

\* An id is kept for the same event, or for the same files.
LEMMA KeepsId ==
    ASSUME TypeOK, SentInv, sent # <<>>, Remembered, ~odd,
           NEW set, NEW target, NEW content, NEW files,
           ~NewOffer(OwnerOf(current), set, target, content, files)
    PROVE  current = last.stamp \/ (files # NOTHING /\ files = last.files)
<1>1. sent[1].targets \in Int /\ sent[1].targets <= Len(offers)
  BY StampFacts
<1>2. sent[1].targets \in Stamps /\ last.targets = TargetsOf(sent[1].targets)
  BY DEF Remembered
<1>3. last.targets # {}
  BY <1>1, <1>2, OfferFacts
<1> QED
  BY <1>3 DEF NewOffer

\* Two tokens in a row with one id are for one content, and what is remembered is true
\* again.
LEMMA SendsId ==
    ASSUME TypeOK, SentInv, IdInv, Reading,
           NEW targets \in Int, targets \in Offers \cup {REMOTE}, targets <= Len(offers),
           NEW target \in {"none", "text", "png"}, NEW content \in Offers, NEW files \in Offers,
           SendToken(targets, target, content, files), UNCHANGED <<setup, offers, current>>,
           files # NOTHING => files >= ContentOf(current)
    PROVE  /\ IdInv'
           /\ SameId /\ ~odd' => SameContent
<1>1. /\ sent' # <<>>
      /\ sent'[1].stamp = current /\ sent'[1].targets = targets
      /\ sent'[1].files = files /\ sent'[1].id = offerId'
      /\ last'.xid = OwnerOf(current) /\ last'.stamp = current
      /\ last'.targets = TargetsOf(targets)
      /\ last'.files = files \/ (files = NOTHING /\ last'.files = last.files /\ offerId' = offerId)
      /\ offerId' = IF NewOffer(OwnerOf(current), TargetsOf(targets), target, content, files)
                    THEN offerId + 1 ELSE offerId
      /\ odd' = (odd \/ Odd(sent'[1]))
  <2>1. WasSent(targets, target, content, files)
    BY Sends
  <2> QED
    BY <2>1 DEF WasSent
<1> DEFINE new == NewOffer(OwnerOf(current), TargetsOf(targets), target, content, files)
<1>2. offerId \in Nat \ {0} /\ last \in Memories
  BY TypeParts DEF TokenTypes
<1>3. current \in Int /\ current <= Len(offers) /\ current \in Offers
  BY StampFacts
<1>4. ContentOf(current) \in Offers
  BY <1>3, OfferFacts
<1>5. \A s \in Offers : s \in Int
  <2>1. MaxStamps \in Nat
    BY OfferAssumption
  <2> QED
    BY <2>1 DEF Offers, Stamps, NOTHING
<1>6. offerId' = offerId => ~new
  <2>1. offerId' = IF new THEN offerId + 1 ELSE offerId
    BY <1>1
  <2> HIDE DEF new
  <2>2. new => offerId' = offerId + 1
    BY <2>1
  <2> QED
    BY <1>2, <2>2
<1>7. ~odd' => ~odd /\ targets \in Stamps /\ files <= ContentOf(current)
  <2>1. ~odd' => ~odd /\ ~Odd(sent'[1])
    BY <1>1, Zenon
  <2>2. files \in Int /\ ContentOf(current) \in Int
    BY <1>4, <1>5
  <2>3. ~Odd(sent'[1]) => targets \in Stamps /\ ~(files > ContentOf(current))
    BY <1>1 DEF Odd
  <2> QED
    BY <2>1, <2>2, <2>3
<1>8. ~odd' /\ files # NOTHING => files = ContentOf(current)
  <2>1. files \in Int /\ ContentOf(current) \in Int
    BY <1>4, <1>5
  <2> QED
    BY <1>7, <2>1
<1>9. sent # <<>> => sent[1].id = offerId /\ (last = NoLast \/ Remembered)
  BY DEF IdInv
<1>10. sent = <<>> => last = NoLast
  BY DEF IdInv
<1>11. ASSUME ~odd', last'.files # NOTHING PROVE last'.files = ContentOf(current)
  <2>1. CASE last'.files = files
    BY <1>8, <1>11, <2>1
  <2>2. CASE files = NOTHING /\ last'.files = last.files /\ offerId' = offerId
    <3>1. last # NoLast
      BY <1>11, <2>2 DEF NoLast
    <3>2. sent # <<>> /\ Remembered /\ ~odd
      BY <1>7, <1>9, <1>10, <1>11, <3>1
    <3>3. ~new
      BY <1>6, <2>2
    <3>4. current = last.stamp
      BY <2>2, <3>2, <3>3, KeepsId
    <3>5. last.files = ContentOf(last.stamp)
      BY <1>11, <2>2, <3>2 DEF Remembered
    <3> QED
      BY <2>2, <3>4, <3>5
  <2> QED
    BY <1>1, <2>1, <2>2
<1>12. IdInv'
  <2>1. /\ last'.stamp = sent'[1].stamp /\ sent'[1].stamp = current
        /\ sent'[1].targets = targets /\ offers' = offers
        /\ last'.xid = OwnerOf(current) /\ last'.targets = TargetsOf(targets)
    BY <1>1
  <2>2. ~odd' => /\ targets \in Stamps
                 /\ last'.files # NOTHING => last'.files = ContentOf(current)
    BY <1>7, <1>11
  <2>6. Remembered'
    BY <2>1, <2>2 DEF Remembered, ContentOf, OwnerOf, TargetsOf
  <2> QED
    BY <1>1, <2>6 DEF IdInv
<1>13. ASSUME SameId, ~odd' PROVE SameContent
  <2>1. sent # <<>> /\ offerId' = offerId
    BY <1>1, <1>9, <1>13 DEF SameId
  <2>2. ~new
    BY <1>6, <2>1
  <2>3. sent[1].stamp \in Offers
    BY <2>1, StampFacts
  <2>4. CASE last = NoLast
    <3>1. OwnerOf(current) = NoOwner
      BY <2>2, <2>4 DEF NewOffer, NoLast
    <3>2. current = NOTHING
      BY <1>3, <3>1, OfferFacts, OfferAssumption DEF Offers
    <3>3. sent[1].stamp = NOTHING
      BY <2>1, <3>2 DEF SentInv
    <3> QED
      BY <1>1, <3>2, <3>3 DEF SameContent
  <2>5. CASE Remembered
    <3>1. CASE current = last.stamp
      BY <1>1, <2>5, <3>1 DEF SameContent, Remembered
    <3>2. CASE files # NOTHING /\ files = last.files
      <4>1. last.files = ContentOf(last.stamp) /\ last.stamp = sent[1].stamp
        BY <1>7, <1>13, <2>5, <3>2 DEF Remembered
      <4>2. files = ContentOf(current)
        BY <1>8, <1>13, <3>2
      <4> QED
        BY <1>1, <3>2, <4>1, <4>2 DEF SameContent
    <3> QED
      BY <1>7, <1>13, <2>1, <2>2, <2>5, <3>1, <3>2, KeepsId
  <2> QED
    BY <1>9, <2>1, <2>4, <2>5
<1> QED
  BY <1>12, <1>13

----------------------------------------------------------------------------
(* The methods of the proxy that several steps have in common.              *)

LEMMA Numbers ==
    ASSUME TypeOK
    PROVE  /\ Len(offers) \in Nat /\ MaxStamps \in Nat /\ Len(offers) <= MaxStamps
           /\ \A s \in Offers : s \in Int /\ s >= 0
           /\ cached \in Int /\ inputs \in Nat
<1>1. /\ Len(offers) \in Nat /\ Len(offers) <= MaxStamps /\ MaxStamps \in Nat
  BY OfferCounts
<1>2. \A s \in Offers : s \in Int /\ s >= 0
  BY <1>1 DEF Offers, Stamps, NOTHING
<1>3. cached \in Offers \cup {REMOTE} /\ inputs \in 0..MaxInputs /\ MaxInputs \in Nat
  BY OfferAssumption, TypeParts DEF ReadTypes, PeerTypes
<1>4. cached \in Int /\ inputs \in Nat
  BY <1>2, <1>3 DEF REMOTE
<1> QED
  BY <1>1, <1>2, <1>4

\* What is read is not older than the present offer.
LEMMA Results ==
    ASSUME IndInv, NEW s \in ReadResults
    PROVE  /\ s \in Int /\ s \in Offers /\ s <= Len(offers) /\ ContentOf(s) \in Offers
           /\ s = NOTHING => ContentOf(s) = NOTHING /\ TargetsOf(s) = {}
           /\ s # NOTHING => /\ s \in Stamps /\ s \in current..Len(offers)
                             /\ ContentOf(s) >= ContentOf(current)
<1>1. TypeOK /\ OfferInv
  BY DEF IndInv
<1>2. /\ Len(offers) \in Nat /\ Len(offers) <= MaxStamps /\ MaxStamps \in Nat
      /\ current \in 0..Len(offers)
  BY <1>1, OfferCounts
<1>3. s = NOTHING \/ (s \in Stamps /\ s \in current..Len(offers))
  BY DEF ReadResults
<1>4. s \in Int /\ s \in Offers /\ s <= Len(offers)
  BY <1>2, <1>3 DEF Offers, Stamps, NOTHING
<1>5. ContentOf(s) \in Offers /\ (s = NOTHING => ContentOf(s) = NOTHING /\ TargetsOf(s) = {})
  BY <1>1, <1>4, OfferFacts
<1>6. ASSUME s # NOTHING PROVE ContentOf(s) >= ContentOf(current)
  <2>1. s \in Stamps /\ s \in 1..Len(offers) /\ current <= s
    BY <1>2, <1>3, <1>6 DEF Stamps
  <2>2. ContentOf(s) = offers[s].content /\ ContentOf(s) \in Int
    BY <1>1, <1>2, <1>4, <1>5, <2>1, OfferFacts, Numbers
  <2>3. CASE current \in Stamps
    <3>1. current \in Int /\ current <= Len(offers) /\ current \in 1..Len(offers)
      BY <1>2, <2>3 DEF Stamps
    <3>2. ContentOf(current) = offers[current].content /\ ContentOf(current) \in Offers
      BY <1>1, <2>3, <3>1, OfferFacts
    <3>3. offers[current].content <= offers[s].content
      BY <1>1, <2>1, <3>1 DEF OfferInv
    <3>4. ContentOf(current) \in Int
      BY <1>1, <3>2, Numbers
    <3> QED
      BY <2>2, <3>2, <3>3, <3>4
  <2>4. CASE current \notin Stamps
    <3>1. ContentOf(current) = 0
      BY <2>4 DEF ContentOf, NOTHING
    <3>2. ContentOf(s) >= 0
      BY <1>1, <1>5, Numbers
    <3> QED
      BY <3>1, <3>2
  <2> QED
    BY <2>3, <2>4
<1> QED
  BY <1>3, <1>4, <1>5, <1>6

\* A token that was read is for the present offer and not older than it.
LEMMA SendKeeps ==
    ASSUME IndInv, Reading,
           NEW targets \in Int, targets \in Offers \cup {REMOTE}, targets <= Len(offers),
           NEW target \in {"none", "text", "png"}, NEW content \in Offers, NEW files \in Offers,
           SendToken(targets, target, content, files),
           UNCHANGED <<setup, owner, offers, queue, current, asking, inputs, missed>>,
           owned' \in BOOLEAN, cached' \in Offers \cup {REMOTE}, cached' <= Len(offers),
           target # "none" => targets \in current..Len(offers) /\ content >= ContentOf(current),
           files # NOTHING => files >= ContentOf(current)
    PROVE  IndInv' /\ (SameId /\ ~odd' => SameContent)
<1>1. /\ TypeOK /\ QueueInv /\ OfferInv /\ QuietInv /\ ReadInv /\ SentInv /\ TokenOfOneOffer
      /\ IdInv
  BY DEF IndInv
<1>2. TokenTypes' /\ WasSent(targets, target, content, files)
  BY <1>1, Sends
<1>3. /\ sent' # <<>> /\ sent'[1].stamp = current /\ sent'[1].targets = targets
      /\ sent'[1].target = target /\ sent'[1].content = content /\ sent'[1].files = files
      /\ answered' = TRUE /\ haveToken' = FALSE /\ reading' = <<>>
  BY <1>2 DEF WasSent
<1>4. IdInv' /\ (SameId /\ ~odd' => SameContent)
  BY <1>1, SendsId
<1>5. TypeOK'
  <2>1. WorldTypes' /\ PeerTypes'
    BY <1>1, TypeParts DEF WorldTypes, PeerTypes
  <2>2. current' \in 0..Len(offers')
    BY <1>1, TypeParts DEF ReadTypes
  <2>3. reading' \in Seq(ReadSteps) /\ Len(reading') <= 1
    BY <1>3
  <2>4. ReadTypes'
    BY <2>2, <2>3 DEF ReadTypes
  <2> QED
    BY <1>2, <2>1, <2>4 DEF TypeOK, WorldTypes, ReadTypes, TokenTypes, PeerTypes, Memories
<1>6. QueueInv' /\ OfferInv'
  BY <1>1 DEF QueueInv, OfferInv
<1>7. QuietInv'
  BY <1>1, <1>3 DEF QuietInv, Reading
<1>8. ReadInv'
  BY <1>3 DEF ReadInv
<1>9. SentInv'
  <2>1. current <= Len(offers)
    BY <1>1, StampFacts
  <2> QED
    BY <1>3, <2>1 DEF SentInv
<1>10. TokenOfOneOffer'
  BY <1>3 DEF TokenOfOneOffer, ContentOf
<1> QED
  BY <1>4, <1>5, <1>6, <1>7, <1>8, <1>9, <1>10 DEF IndInv

\* The next step of the reading is for the same offer.
LEMMA ReadKeeps ==
    ASSUME IndInv, Reading, reading # <<>>,
           NEW step \in {"files", "chosen"}, NEW targets \in Stamps, NEW files \in Offers,
           ReadNext(step, targets, files), targets \in current..Len(offers),
           UNCHANGED <<setup, owner, offers, queue, current, asking, inputs, missed>>,
           cached' \in Offers \cup {REMOTE}, cached' <= Len(offers),
           files # NOTHING => files >= ContentOf(current)
    PROVE  IndInv' /\ UNCHANGED sent
<1> DEFINE next == [step |-> step, targets |-> targets, files |-> files]
<1>1. /\ TypeOK /\ QueueInv /\ OfferInv /\ QuietInv /\ ReadInv /\ SentInv /\ TokenOfOneOffer
      /\ IdInv
  BY DEF IndInv
<1>2. UNCHANGED <<last, offerId, sent, answered, odd, haveToken>>
  BY DEF ReadNext, NoToken, offer
<1>3. owner # Self
  BY <1>1 DEF ReadInv
<1>4. reading' = <<next>> /\ owned' = FALSE
  BY <1>3 DEF ReadNext
<1>5. next \in ReadSteps
  BY DEF ReadSteps, Offers
<1>6. /\ reading' \in Seq(ReadSteps) /\ Len(reading') = 1 /\ reading'[1] = next
      /\ reading' # <<>>
  <2> HIDE DEF next
  <2> QED
    BY <1>4, <1>5, Single
<1>7. TypeOK'
  <2>1. WorldTypes' /\ PeerTypes' /\ TokenTypes'
    BY <1>1, <1>2, TypeParts DEF WorldTypes, PeerTypes, TokenTypes
  <2>2. current' \in 0..Len(offers')
    BY <1>1, TypeParts DEF ReadTypes
  <2>3. owned' \in BOOLEAN /\ Len(reading') <= 1
    <3>1. owned' \in BOOLEAN
      BY <1>4
    <3>2. Len(reading') <= 1
      BY <1>6
    <3> QED
      BY <3>1, <3>2
  <2>4. ReadTypes'
    BY <1>6, <2>2, <2>3 DEF ReadTypes
  <2> QED
    BY <2>1, <2>4 DEF TypeOK, WorldTypes, ReadTypes, TokenTypes, PeerTypes, Memories
<1>8. QueueInv' /\ OfferInv'
  BY <1>1 DEF QueueInv, OfferInv
<1>9. QuietInv'
  BY <1>1, <1>2, <1>6 DEF QuietInv, Reading
<1>10. ReadInv'
  <2>1. /\ reading'[1].targets = targets /\ reading'[1].files = files
    BY <1>6
  <2> QED
    BY <1>3, <2>1 DEF ReadInv, Reading, ContentOf
<1>11. SentInv' /\ TokenOfOneOffer'
  BY <1>1, <1>2 DEF SentInv, TokenOfOneOffer, ContentOf
<1>12. IdInv'
  BY <1>1, <1>2 DEF IdInv, Remembered, Reading, ContentOf, OwnerOf, TargetsOf
<1> QED
  BY <1>2, <1>7, <1>8, <1>9, <1>10, <1>11, <1>12 DEF IndInv

----------------------------------------------------------------------------
(* The actions.                                                             *)

LEMMA InitHolds == Init => IndInv
<1> SUFFICES ASSUME Init PROVE IndInv
  OBVIOUS
<1>1. /\ owner = NoOwner /\ offers = <<>> /\ queue = <<>> /\ owned = FALSE /\ haveToken = FALSE
      /\ cached = NOTHING /\ current = NOTHING /\ reading = <<>> /\ last = NoLast /\ offerId = 1
      /\ asking = FALSE /\ inputs = 0 /\ sent = <<>> /\ answered = TRUE /\ odd = FALSE
      /\ enabled = TRUE /\ missed = FALSE
      /\ wants \in {"owner", "targets", "data"}
  BY DEF Init
<1>2. Len(<<>>) = 0 /\ MaxStamps \in Nat /\ MaxInputs \in Nat
  BY OfferAssumption
<1>0. /\ owned \in BOOLEAN /\ haveToken \in BOOLEAN /\ asking \in BOOLEAN
      /\ answered \in BOOLEAN /\ odd \in BOOLEAN /\ enabled \in BOOLEAN /\ missed \in BOOLEAN
  BY <1>1
<1>3. WorldTypes
  BY <1>1, <1>2 DEF WorldTypes
<1>4. ReadTypes
  <2>1. /\ cached = NOTHING /\ current = NOTHING /\ reading = <<>> /\ Len(offers) = 0
    BY <1>1, <1>2
  <2>2. current \in 0..Len(offers) /\ cached \in Offers \cup {REMOTE}
    BY <2>1 DEF Offers, NOTHING
  <2>3. reading \in Seq(ReadSteps) /\ Len(reading) <= 1
    BY <1>2, <2>1
  <2> QED
    BY <1>0, <2>2, <2>3 DEF ReadTypes
<1>5. last \in Memories
  BY <1>1 DEF Memories, NoLast, Offers, NOTHING
<1>6. TokenTypes
  <2>1. sent \in Seq(Tokens) /\ Len(sent) <= 1 /\ offerId \in Nat \ {0}
    BY <1>1, <1>2
  <2> QED
    BY <1>0, <1>5, <2>1 DEF TokenTypes
<1>7. PeerTypes
  <2>1. inputs \in 0..MaxInputs
    BY <1>1, <1>2
  <2> QED
    BY <1>0, <2>1 DEF PeerTypes
<1>8. TypeOK
  BY <1>3, <1>4, <1>6, <1>7, TypeParts
<1>9. QueueInv /\ OfferInv
  BY <1>1, <1>2 DEF QueueInv, OfferInv
<1>10. QuietInv
  BY <1>1, OfferAssumption DEF QuietInv
<1>11. ReadInv /\ SentInv /\ TokenOfOneOffer /\ IdInv
  BY <1>1, <1>2 DEF ReadInv, SentInv, TokenOfOneOffer, IdInv, NOTHING
<1> QED
  BY <1>8, <1>9, <1>10, <1>11 DEF IndInv

\* An application publishes an offer that is not older than those before.
LEMMA Publishes ==
    ASSUME IndInv, NEW p \in Published, NEW x \in Xids,
           Len(offers) < MaxStamps, offers' = Append(offers, p), owner' = x,
           queue' = Append(queue, [xid |-> x, stamp |-> Len(offers')]),
           p.content <= Len(offers) + 1,
           \A i \in 1..Len(offers) : offers[i].content <= p.content,
           UNCHANGED <<setup, proxy, offer, asking, peer>>
    PROVE  IndInv'
<1> DEFINE n == Len(offers)
           event == [xid |-> x, stamp |-> n + 1]
<1>1. /\ TypeOK /\ QueueInv /\ OfferInv /\ QuietInv /\ ReadInv /\ SentInv /\ TokenOfOneOffer
      /\ IdInv
  BY DEF IndInv
<1>2. UNCHANGED <<setup, owned, haveToken, cached, current, reading, last, offerId, asking,
                  inputs, sent, answered, missed, odd>>
  BY DEF proxy, offer, peer
<1>3. /\ offers' \in Seq(Published) /\ Len(offers') = n + 1 /\ n + 1 \in Stamps
      /\ \A i \in 1..n : offers'[i] = offers[i]
      /\ offers'[n + 1] = p
      /\ \A s \in Int : s <= n =>
           /\ ContentOf(s)' = ContentOf(s) /\ OwnerOf(s)' = OwnerOf(s)
           /\ TargetsOf(s)' = TargetsOf(s)
  BY <1>1, Appended
<1>4. /\ n \in Nat /\ MaxStamps \in Nat /\ cached \in Int
      /\ \A s \in Offers : s \in Int /\ s >= 0
  BY <1>1, Numbers
<1>5. /\ current \in Int /\ current <= n /\ current \in 0..n
      /\ sent # <<>> => /\ sent[1].stamp \in Int /\ sent[1].stamp <= n
                        /\ sent[1].targets \in Int /\ sent[1].targets <= n
  BY <1>1, StampFacts, OfferCounts
<1>6. event \in Events /\ queue \in Seq(Events) /\ queue' = Append(queue, event)
  <2>1. queue \in Seq(Events)
    BY <1>1, TypeParts DEF WorldTypes
  <2>2. event \in Events
    BY <1>3 DEF Events, Offers
  <2> QED
    BY <1>3, <2>1, <2>2
<1> HIDE DEF event
<1>7. /\ queue' \in Seq(Events) /\ Len(queue) \in Nat /\ Len(queue') = Len(queue) + 1
      /\ queue' # <<>>
      /\ \A i \in 1..Len(queue) : queue'[i] = queue[i]
      /\ queue'[Len(queue')] = event
  BY <1>6, Enqueued
<1> HIDE DEF n
<1>8. TypeOK'
  <2>1. Len(offers') <= MaxStamps
    BY <1>3, <1>4 DEF Stamps
  <2>2. WorldTypes'
    BY <1>1, <1>2, <1>3, <1>7, <2>1, TypeParts DEF WorldTypes
  <2>3. current' \in 0..Len(offers')
    BY <1>2, <1>3, <1>4, <1>5
  <2>4. ReadTypes'
    BY <1>1, <1>2, <2>3, TypeParts DEF ReadTypes
  <2>5. TokenTypes' /\ PeerTypes'
    BY <1>1, <1>2, TypeParts DEF TokenTypes, PeerTypes
  <2> QED
    BY <2>2, <2>4, <2>5 DEF TypeOK, WorldTypes, ReadTypes, TokenTypes, PeerTypes, Memories
<1>9. QueueInv'
  <2>1. event.xid = x /\ event.stamp = n + 1
    BY DEF event
  <2>2. ASSUME NEW i \in 1..Len(queue'), queue'[i].xid \in Xids PROVE queue'[i].stamp \in 1..n + 1
    <3>1. CASE i \in 1..Len(queue)
      <4>1. queue[i].stamp \in 1..n
        BY <1>1, <1>7, <2>2, <3>1 DEF QueueInv, n
      <4> QED
        BY <1>4, <1>7, <3>1, <4>1
    <3>2. CASE i = Len(queue')
      BY <1>4, <1>7, <2>1, <3>2
    <3> QED
      BY <1>7, <2>2, <3>1, <3>2
  <2> QED
    BY <1>3, <1>7, <2>1, <2>2 DEF QueueInv
<1>10. OfferInv'
  <2>1. \A i \in 1..n : offers[i].content <= i /\ offers[i].content <= p.content
    BY <1>1 DEF OfferInv, n
  <2>2. \A i, j \in 1..n : i <= j => offers[i].content <= offers[j].content
    BY <1>1 DEF OfferInv, n
  <2>3. p.content \in Int /\ p.content <= n + 1
    <3>1. p.content \in Offers
      BY DEF Published, Offers
    <3> QED
      BY <1>4, <3>1 DEF n
  <2>4. ASSUME NEW i \in 1..n + 1 PROVE offers'[i].content <= i
    BY <1>3, <1>4, <2>1, <2>3, <2>4
  <2>5. ASSUME NEW i \in 1..n + 1, NEW j \in 1..n + 1, i <= j
        PROVE  offers'[i].content <= offers'[j].content
    <3>1. CASE j \in 1..n
      <4>1. i \in 1..n
        BY <1>4, <2>5, <3>1
      <4> QED
        BY <1>3, <2>2, <2>5, <3>1, <4>1
    <3>2. CASE j = n + 1 /\ i \in 1..n
      BY <1>3, <2>1, <3>2
    <3>3. CASE j = n + 1 /\ i = n + 1
      BY <1>3, <2>3, <3>3
    <3>4. n \in Nat
      BY <1>4
    <3>5. j \in 1..n \/ (j = n + 1 /\ i \in 1..n) \/ (j = n + 1 /\ i = n + 1)
      BY <3>4
    <3> QED
      BY <3>1, <3>2, <3>3, <3>5
  <2> QED
    BY <1>3, <2>4, <2>5 DEF OfferInv
<1>11. QuietInv'
  BY <1>1, <1>2, <1>7 DEF QuietInv
<1>12. ReadInv'
  <2>1. ContentOf(current)' = ContentOf(current)
    BY <1>2, <1>3, <1>5
  <2>2. x # Self
    BY OfferAssumption
  <2>3. cached <= n + 1
    BY <1>1, <1>4 DEF ReadInv, n
  <2>4. current..n \subseteq current..(n + 1)
    BY <1>4, <1>5
  <2> QED
    BY <1>1, <1>2, <1>3, <2>1, <2>2, <2>3, <2>4 DEF ReadInv, Reading, n
<1>13. SentInv'
  BY <1>1, <1>2, <1>3, <1>4, <1>5 DEF SentInv
<1>14. ASSUME sent # <<>>
       PROVE  /\ ContentOf(sent[1].stamp)' = ContentOf(sent[1].stamp)
              /\ OwnerOf(sent[1].stamp)' = OwnerOf(sent[1].stamp)
              /\ TargetsOf(sent[1].targets)' = TargetsOf(sent[1].targets)
  <2>1. /\ ContentOf(sent[1].stamp)' = ContentOf(sent[1].stamp)
        /\ OwnerOf(sent[1].stamp)' = OwnerOf(sent[1].stamp)
    <3>1. PICK s \in Int : s = sent[1].stamp /\ s <= n
      BY <1>5, <1>14
    <3> QED
      BY <1>2, <1>3, <3>1
  <2>2. TargetsOf(sent[1].targets)' = TargetsOf(sent[1].targets)
    <3>1. PICK s \in Int : s = sent[1].targets /\ s <= n
      BY <1>5, <1>14
    <3> QED
      BY <1>2, <1>3, <3>1
  <2> QED
    BY <2>1, <2>2
<1>15. TokenOfOneOffer'
  <2>1. \A s \in Int : s..n \subseteq s..(n + 1)
    BY <1>4
  <2> QED
    BY <1>1, <1>2, <1>3, <1>5, <1>14, <2>1 DEF TokenOfOneOffer, n
<1>16. IdInv'
  <2>1. ASSUME sent # <<>>, Remembered PROVE Remembered'
    BY <1>2, <1>14, <2>1 DEF Remembered
  <2> QED
    BY <1>1, <1>2, <2>1 DEF IdInv, Reading
<1> QED
  BY <1>8, <1>9, <1>10, <1>11, <1>12, <1>13, <1>15, <1>16 DEF IndInv

LEMMA AppCopiesKeeps ==
    ASSUME IndInv, NEW xid \in Xids, NEW t \in TargetSets, AppCopies(xid, t)
    PROVE  IndInv'
<1> DEFINE p == [xid |-> xid, content |-> Len(offers) + 1, targets |-> t]
<1>1. TypeOK /\ OfferInv
  BY DEF IndInv
<1>2. Len(offers) \in Nat /\ MaxStamps \in Nat /\ Len(offers) < MaxStamps
  BY <1>1, Numbers DEF AppCopies
<1>3. p \in Published
  BY <1>2 DEF Published, Stamps
<1>4. \A i \in 1..Len(offers) : offers[i].content <= p.content
  <2>1. ASSUME NEW i \in 1..Len(offers) PROVE offers[i].content <= Len(offers) + 1
    <3>1. offers[i].content <= i /\ offers[i] \in Published
      BY <1>1, ElementOfSeq, OfferCounts DEF OfferInv
    <3>2. offers[i].content \in Int
      BY <1>2, <3>1 DEF Published, Stamps
    <3> QED
      BY <1>2, <3>1, <3>2
  <2> QED
    BY <2>1
<1>5. p.content <= Len(offers) + 1
  BY <1>2
<1>6. /\ offers' = Append(offers, p) /\ owner' = xid
      /\ queue' = Append(queue, [xid |-> xid, stamp |-> Len(offers')])
      /\ UNCHANGED <<setup, proxy, offer, asking, peer>>
  BY DEF AppCopies
<1> HIDE DEF p
<1> QED
  BY <1>2, <1>3, <1>4, <1>5, <1>6, Publishes

LEMMA AppExpandsKeeps ==
    ASSUME IndInv, AppExpands
    PROVE  IndInv'
<1> DEFINE p == [offers[Len(offers)] EXCEPT !.targets = Image]
<1>1. TypeOK /\ OfferInv
  BY DEF IndInv
<1>2. /\ Len(offers) \in Nat /\ MaxStamps \in Nat /\ Len(offers) < MaxStamps
      /\ Len(offers) \in 1..Len(offers) /\ owner \in Xids
  BY <1>1, Numbers DEF AppExpands
<1>3. offers[Len(offers)] \in Published
  BY <1>1, <1>2, ElementOfSeq, OfferCounts
<1>4. p \in Published /\ p.content = offers[Len(offers)].content
  BY <1>3 DEF Published, TargetSets
<1>5. \A i \in 1..Len(offers) : offers[i].content <= p.content
  <2>1. ASSUME NEW i \in 1..Len(offers) PROVE offers[i].content <= offers[Len(offers)].content
    <3>1. i <= Len(offers)
      BY <1>2
    <3> QED
      BY <1>1, <1>2, <3>1 DEF OfferInv
  <2> QED
    BY <1>4, <2>1
<1>6. p.content <= Len(offers) + 1
  <2>1. offers[Len(offers)].content <= Len(offers)
    BY <1>1, <1>2 DEF OfferInv
  <2>2. p.content \in Int
    BY <1>2, <1>4 DEF Published, Stamps
  <2> QED
    BY <1>2, <1>4, <2>1, <2>2
<1>7. /\ offers' = Append(offers, p) /\ owner' = owner
      /\ queue' = Append(queue, [xid |-> owner, stamp |-> Len(offers')])
      /\ UNCHANGED <<setup, proxy, offer, asking, peer>>
  BY DEF AppExpands
<1> HIDE DEF p
<1> QED
  BY <1>2, <1>4, <1>5, <1>6, <1>7, Publishes

\* The selection is no longer an application's, and the event that says so waits.
LEMMA Leaves ==
    ASSUME IndInv, NEW x \in {Self, NoOwner}, owner' = x,
           queue' = Append(queue, [xid |-> x, stamp |-> NOTHING]),
           UNCHANGED offers
    PROVE  /\ QueueInv' /\ OfferInv' /\ queue' \in Seq(Events) /\ queue' # <<>>
           /\ owner' \notin Xids
<1> DEFINE event == [xid |-> x, stamp |-> NOTHING]
<1>1. TypeOK /\ QueueInv /\ OfferInv
  BY DEF IndInv
<1>2. event \in Events /\ queue \in Seq(Events)
  BY <1>1, TypeParts DEF WorldTypes, Events, Offers
<1>3. event.xid = x
  OBVIOUS
<1> HIDE DEF event
<1>4. /\ queue' \in Seq(Events) /\ Len(queue) \in Nat /\ Len(queue') = Len(queue) + 1
      /\ queue' # <<>>
      /\ \A i \in 1..Len(queue) : queue'[i] = queue[i]
      /\ queue'[Len(queue')] = event
  BY <1>2, Enqueued DEF event
<1>5. owner' \notin Xids
  BY OfferAssumption
<1>6. QueueInv'
  <2>1. ASSUME NEW i \in 1..Len(queue'), queue'[i].xid \in Xids PROVE i \in 1..Len(queue)
    BY <1>3, <1>4, <1>5, <2>1
  <2>2. \A i \in 1..Len(queue') : queue'[i].xid \in Xids => queue'[i].stamp \in 1..Len(offers')
    BY <1>1, <1>4, <2>1 DEF QueueInv
  <2> QED
    BY <1>3, <1>4, <1>5, <2>2 DEF QueueInv
<1>7. OfferInv'
  BY <1>1 DEF OfferInv
<1> QED
  BY <1>4, <1>5, <1>6, <1>7

LEMMA AppReleasesKeeps ==
    ASSUME IndInv, AppReleases
    PROVE  IndInv'
<1>1. /\ TypeOK /\ QuietInv /\ ReadInv /\ SentInv /\ TokenOfOneOffer /\ IdInv
  BY DEF IndInv
<1>2. /\ owner' = NoOwner /\ queue' = Append(queue, [xid |-> NoOwner, stamp |-> NOTHING])
      /\ UNCHANGED <<setup, offers, owned, haveToken, cached, current, reading, last, offerId,
                     asking, inputs, sent, answered, missed, odd>>
  BY DEF AppReleases, proxy, offer, peer
<1>3. /\ QueueInv' /\ OfferInv' /\ queue' \in Seq(Events) /\ queue' # <<>>
      /\ owner' \notin Xids
  BY <1>2, Leaves
<1>4. TypeOK'
  <2>1. WorldTypes'
    BY <1>1, <1>2, <1>3, TypeParts DEF WorldTypes
  <2>2. ReadTypes' /\ TokenTypes' /\ PeerTypes'
    BY <1>1, <1>2, TypeParts DEF ReadTypes, TokenTypes, PeerTypes
  <2> QED
    BY <2>1, <2>2 DEF TypeOK, WorldTypes, ReadTypes, TokenTypes, PeerTypes, Memories
<1>5. QuietInv'
  BY <1>1, <1>2, <1>3 DEF QuietInv
<1>6. ReadInv'
  BY <1>1, <1>2, OfferAssumption DEF ReadInv, Reading, ContentOf
<1>7. SentInv' /\ TokenOfOneOffer'
  BY <1>1, <1>2 DEF SentInv, TokenOfOneOffer, ContentOf
<1>8. IdInv'
  BY <1>1, <1>2 DEF IdInv, Remembered, Reading, ContentOf, OwnerOf, TargetsOf
<1> QED
  BY <1>3, <1>4, <1>5, <1>6, <1>7, <1>8 DEF IndInv

LEMMA AsksAndAnswersKeep ==
    ASSUME IndInv, AppAsksTargets \/ GotRemoteTargets \/ EnableSelections \/ UNCHANGED vars
    PROVE  IndInv' /\ UNCHANGED sent
<1>1. /\ TypeOK /\ QueueInv /\ OfferInv /\ QuietInv /\ ReadInv /\ SentInv /\ TokenOfOneOffer
      /\ IdInv
  BY DEF IndInv
<1>2. /\ asking' = asking \/ asking' = TRUE \/ asking' = FALSE
      /\ cached' = cached \/ cached' = REMOTE
      /\ UNCHANGED <<wants, owner, offers, queue, owned, haveToken, current, reading, last,
                     offerId, sent, answered, missed, odd>>
  BY DEF AppAsksTargets, GotRemoteTargets, EnableSelections, vars, proxy, offer, peer
<1>9. enabled' \in BOOLEAN /\ inputs' \in 0..MaxInputs
  <2>1. enabled \in BOOLEAN /\ inputs \in 0..MaxInputs /\ MaxInputs \in Nat
    BY <1>1, OfferAssumption, TypeParts DEF PeerTypes
  <2>2. \/ UNCHANGED <<enabled, inputs>>
        \/ enabled' = ~enabled /\ inputs' = inputs
        \/ enabled' = ~enabled /\ inputs < MaxInputs /\ inputs' = inputs + 1
    BY DEF AppAsksTargets, GotRemoteTargets, EnableSelections, vars, peer
  <2>3. enabled' \in BOOLEAN
    BY <2>1, <2>2, Zenon
  <2>4. inputs' \in 0..MaxInputs
    BY <2>1, <2>2
  <2> QED
    BY <2>3, <2>4
<1>3. TypeOK'
  <2>1. asking' \in BOOLEAN
    BY <1>1, <1>2, TypeParts DEF PeerTypes
  <2>2. WorldTypes' /\ TokenTypes' /\ PeerTypes'
    BY <1>1, <1>2, <1>9, <2>1, TypeParts DEF WorldTypes, TokenTypes, PeerTypes
  <2>3. ReadTypes'
    BY <1>1, <1>2, TypeParts DEF ReadTypes
  <2> QED
    BY <2>2, <2>3 DEF TypeOK, WorldTypes, ReadTypes, TokenTypes, PeerTypes, Memories
<1>4. QueueInv' /\ OfferInv' /\ QuietInv'
  BY <1>1, <1>2 DEF QueueInv, OfferInv, QuietInv, Reading
<1>5. ReadInv'
  <2>1. Len(offers) \in Nat
    BY <1>1, Numbers
  <2>2. cached' <= Len(offers')
    BY <1>1, <1>2, <2>1 DEF ReadInv, REMOTE
  <2> QED
    BY <1>1, <1>2, <2>2 DEF ReadInv, Reading, ContentOf
<1>6. SentInv' /\ TokenOfOneOffer'
  BY <1>1, <1>2 DEF SentInv, TokenOfOneOffer, ContentOf
<1>7. IdInv'
  BY <1>1, <1>2 DEF IdInv, Remembered, Reading, ContentOf, OwnerOf, TargetsOf
<1> QED
  BY <1>2, <1>3, <1>4, <1>5, <1>6, <1>7 DEF IndInv

LEMMA PeerTokenKeeps ==
    ASSUME IndInv, NEW t \in {NOTHING, REMOTE}, NEW claim \in BOOLEAN, GotToken(t, claim)
    PROVE  IndInv' /\ UNCHANGED sent
<1>1. /\ TypeOK /\ QueueInv /\ OfferInv /\ QuietInv /\ ReadInv /\ SentInv /\ TokenOfOneOffer
      /\ IdInv
  BY DEF IndInv
<1>2. /\ inputs < MaxInputs /\ inputs' = inputs + 1 /\ reading' = <<>> /\ last' = NoLast
      /\ cached' \in {cached, t} /\ haveToken' = (haveToken \/ claim)
      /\ UNCHANGED <<setup, offers, current, offerId, asking, sent, odd>>
  BY DEF GotToken
<1>9. \/ Claim /\ haveToken'
      \/ missed' = (missed \/ reading # <<>>) /\ UNCHANGED <<owner, owned, queue, answered>>
  BY DEF GotToken
<1>3. QueueInv' /\ OfferInv' /\ queue' \in Seq(Events)
  <2>1. CASE Claim
    BY <1>2, <2>1, Leaves DEF Claim
  <2>2. CASE UNCHANGED <<owner, queue>>
    BY <1>1, <1>2, <2>2, TypeParts DEF QueueInv, OfferInv, WorldTypes
  <2> QED
    BY <1>9, <2>1, <2>2
<1>4. TypeOK'
  <2>1. WorldTypes'
    BY <1>1, <1>2, <1>3, <1>9, TypeParts DEF WorldTypes, Claim
  <2>2. /\ owned' \in BOOLEAN /\ haveToken' \in BOOLEAN /\ answered' \in BOOLEAN
        /\ missed' \in BOOLEAN
    <3>1. /\ owned \in BOOLEAN /\ haveToken \in BOOLEAN /\ answered \in BOOLEAN
          /\ missed \in BOOLEAN
      BY <1>1 DEF TypeOK
    <3> QED
      BY <1>2, <1>9, <3>1, Zenon DEF Claim
  <2>3. ReadTypes'
    <3>1. reading' \in Seq(ReadSteps) /\ Len(reading') <= 1
      BY <1>2
    <3>2. cached' \in Offers \cup {REMOTE}
      BY <1>1, <1>2, TypeParts DEF ReadTypes, Offers
    <3> QED
      BY <1>1, <1>2, <2>2, <3>1, <3>2, TypeParts DEF ReadTypes
  <2>4. TokenTypes'
    <3>1. last' \in Memories
      BY <1>2 DEF Memories, NoLast, Offers
    <3> QED
      BY <1>1, <1>2, <2>2, <3>1, TypeParts DEF TokenTypes
  <2>5. PeerTypes'
    <3>1. inputs \in Nat /\ MaxInputs \in Nat
      BY <1>1, Numbers, OfferAssumption
    <3>2. inputs' \in 0..MaxInputs
      BY <1>2, <3>1
    <3> QED
      BY <1>1, <1>2, <2>2, <3>2, TypeParts DEF PeerTypes
  <2> QED
    BY <2>1, <2>3, <2>4, <2>5 DEF TypeOK, WorldTypes, ReadTypes, TokenTypes, PeerTypes, Memories
<1>5. QuietInv'
  <2>1. CASE Claim /\ haveToken'
    <3>1. owner' \notin Xids
      BY <2>1, OfferAssumption DEF Claim
    <3> QED
      BY <2>1, <3>1 DEF QuietInv
  <2>2. CASE missed' = (missed \/ reading # <<>>) /\ UNCHANGED <<owner, owned, queue, answered>>
    BY <1>1, <1>2, <2>2 DEF QuietInv, Reading
  <2> QED
    BY <1>9, <2>1, <2>2
<1>6. ReadInv'
  <2>1. Len(offers) \in Nat
    BY <1>1, Numbers
  <2> QED
    BY <1>1, <1>2, <2>1 DEF ReadInv, REMOTE, NOTHING
<1>7. SentInv' /\ TokenOfOneOffer'
  BY <1>1, <1>2 DEF SentInv, TokenOfOneOffer, ContentOf
<1>8. IdInv'
  BY <1>1, <1>2 DEF IdInv, Reading
<1> QED
  BY <1>2, <1>3, <1>4, <1>5, <1>6, <1>7, <1>8 DEF IndInv

LEMMA OwnerEventKeeps ==
    ASSUME IndInv, OwnerEvent
    PROVE  IndInv' /\ (Reading => UNCHANGED sent)
<1> DEFINE event == Head(queue)
<1>1. /\ TypeOK /\ QueueInv /\ OfferInv /\ QuietInv /\ ReadInv /\ SentInv /\ TokenOfOneOffer
      /\ IdInv
  BY DEF IndInv
<1>2. /\ queue # <<>> /\ queue' = Tail(queue)
      /\ UNCHANGED <<setup, owner, offers, asking, inputs>>
  BY DEF OwnerEvent
<1>10. missed' \in BOOLEAN
  <2>1. missed \in BOOLEAN
    BY <1>1, TypeParts DEF PeerTypes
  <2> QED
    BY <2>1, Zenon DEF OwnerEvent
<1>3. queue \in Seq(Events)
  BY <1>1, TypeParts DEF WorldTypes
<1>4. /\ queue' \in Seq(Events) /\ Len(queue') = Len(queue) - 1
      /\ event = queue[1] /\ event \in Events /\ Len(queue) \in Nat \ {0}
      /\ \A i \in 1..Len(queue') : queue'[i] = queue[i + 1] /\ i + 1 \in 1..Len(queue)
      /\ queue' = <<>> => Len(queue) = 1
      /\ queue' # <<>> => queue'[Len(queue')] = queue[Len(queue)]
  BY <1>2, <1>3, Dequeued
<1> HIDE DEF event
<1>5. /\ event.xid \in Xids => event.stamp \in 1..Len(offers)
      /\ queue' = <<>> => event.xid = owner
      /\ queue' = <<>> /\ owner \in Xids => event.stamp = Len(offers)
  <2>1. 1 \in 1..Len(queue)
    BY <1>4
  <2>2. event.xid \in Xids => event.stamp \in 1..Len(offers)
    BY <1>1, <1>4, <2>1 DEF QueueInv
  <2>3. queue' = <<>> => event = queue[Len(queue)]
    BY <1>4
  <2> QED
    BY <1>1, <1>2, <2>2, <2>3 DEF QueueInv
<1>6. QueueInv' /\ OfferInv'
  <2>1. \A i \in 1..Len(queue') : queue'[i].xid \in Xids => queue'[i].stamp \in 1..Len(offers')
    BY <1>1, <1>2, <1>4 DEF QueueInv
  <2>2. QueueInv'
    BY <1>1, <1>2, <1>4, <2>1 DEF QueueInv
  <2> QED
    BY <1>1, <1>2, <2>2 DEF OfferInv
<1>7. WorldTypes' /\ PeerTypes'
  BY <1>1, <1>2, <1>4, <1>10, TypeParts DEF WorldTypes, PeerTypes
<1>8. CASE event.xid = Self \/ ~enabled
  <2>1. /\ owned' = (event.xid = Self)
        /\ missed' = (missed \/ event.xid # Self)
        /\ UNCHANGED <<haveToken, cached, current, reading, last, offerId, sent, odd, answered>>
    BY <1>8 DEF OwnerEvent, event, offer
  <2>2. ReadTypes' /\ TokenTypes'
    <3>1. owned' \in BOOLEAN
      BY <2>1
    <3> QED
      BY <1>1, <1>2, <2>1, <3>1, TypeParts DEF ReadTypes, TokenTypes
  <2>3. QuietInv'
    <3>1. ~(owner \in Xids /\ queue' = <<>> /\ ~missed')
      BY <1>5, <2>1, OfferAssumption
    <3> QED
      BY <1>1, <1>2, <2>1, <3>1 DEF QuietInv
  <2>4. ReadInv' /\ SentInv' /\ TokenOfOneOffer'
    BY <1>1, <1>2, <2>1 DEF ReadInv, SentInv, TokenOfOneOffer, Reading, ContentOf
  <2>5. IdInv'
    BY <1>1, <1>2, <2>1 DEF IdInv, Remembered, Reading, ContentOf, OwnerOf, TargetsOf
  <2>6. TypeOK'
    BY <1>7, <2>2 DEF TypeOK, WorldTypes, ReadTypes, TokenTypes, PeerTypes, Memories
  <2> QED
    BY <1>6, <2>1, <2>3, <2>4, <2>5, <2>6 DEF IndInv
<1>9. CASE event.xid # Self /\ enabled
  <2>1. /\ current' = IF event.xid \in Xids THEN event.stamp ELSE current
        /\ cached' = NOTHING
        /\ IF haveToken \/ Reading THEN ScheduleEmitToken
           ELSE reading' = <<>> /\ owned' = FALSE /\ NoToken
    BY <1>9 DEF OwnerEvent, DoOwnerChanged, event
  <2>2. Len(offers) \in Nat /\ current \in 0..Len(offers)
    BY <1>1, OfferCounts
  <2>3. /\ current' \in 0..Len(offers) /\ current' \in Int /\ current' <= Len(offers)
        /\ current' = NOTHING => current = NOTHING
        /\ queue' = <<>> /\ owner \in Xids => current' = Len(offers)
    BY <1>5, <2>1, <2>2 DEF NOTHING
  <2>4. cached' \in Offers \cup {REMOTE} /\ cached' <= Len(offers')
    BY <1>2, <2>1, <2>2 DEF Offers, NOTHING
  <2>5. CASE Reading
    <3> DEFINE next == [step |-> "targets", targets |-> NOTHING, files |-> NOTHING]
    <3>1. /\ reading' = IF owner = Self THEN <<>> ELSE <<next>>
          /\ owned' = (owner = Self)
          /\ UNCHANGED <<last, offerId, sent, answered, odd, haveToken>>
      BY <2>1, <2>5 DEF ScheduleEmitToken, NoToken, offer
    <3>2. next \in ReadSteps /\ next.step = "targets" /\ next.files = NOTHING
      BY DEF ReadSteps, Offers
    <3> HIDE DEF next
    <3>3. /\ reading' \in Seq(ReadSteps) /\ Len(reading') <= 1
          /\ reading' # <<>> => owner # Self /\ reading'[1] = next
          /\ owner # Self => reading' # <<>>
      <4>1. CASE owner = Self
        BY <3>1, <4>1
      <4>2. CASE owner # Self
        BY <3>1, <3>2, <4>2, Single
      <4> QED
        BY <4>1, <4>2
    <3>4. ReadTypes'
      <4>1. owned' \in BOOLEAN
        BY <3>1
      <4> QED
        BY <1>2, <2>3, <2>4, <3>3, <4>1 DEF ReadTypes
    <3>5. TokenTypes'
      BY <1>1, <1>2, <3>1, TypeParts DEF TokenTypes
    <3>6. TypeOK'
      BY <1>7, <3>4, <3>5 DEF TypeOK, WorldTypes, ReadTypes, TokenTypes, PeerTypes, Memories
    <3>7. QuietInv'
      <4>1. owner \in Xids => owner # Self
        BY OfferAssumption
      <4> QED
        BY <1>1, <1>2, <2>3, <2>5, <3>1, <3>3, <4>1 DEF QuietInv, Reading
    <3>8. ReadInv'
      <4>1. reading' # <<>> => reading'[1].step = "targets" /\ reading'[1].files = NOTHING
        BY <3>2, <3>3
      <4> QED
        BY <1>2, <2>4, <2>5, <3>3, <4>1 DEF ReadInv, Reading
    <3>9. SentInv'
      BY <1>1, <1>2, <2>3, <3>1 DEF SentInv
    <3>10. TokenOfOneOffer'
      BY <1>1, <1>2, <3>1 DEF TokenOfOneOffer, ContentOf
    <3>11. IdInv'
      BY <1>1, <1>2, <3>1 DEF IdInv, Remembered, Reading, ContentOf, OwnerOf, TargetsOf
    <3> QED
      BY <1>6, <3>1, <3>6, <3>7, <3>8, <3>9, <3>10, <3>11 DEF IndInv
  <2>6. CASE ~Reading /\ haveToken
    <3> DEFINE token == [stamp |-> current', targets |-> NOTHING, target |-> "none",
                         content |-> NOTHING, files |-> NOTHING, id |-> NOTHING]
    <3>1. /\ sent' = <<token>> /\ answered' = TRUE /\ haveToken' = FALSE /\ reading' = <<>>
          /\ owned' = FALSE /\ UNCHANGED <<last, offerId, odd>>
      BY <2>1, <2>6 DEF ScheduleEmitToken, SendBareToken, offer
    <3>2. token \in Tokens
      <4>1. current' \in {0} \cup 1..MaxStamps
        BY <1>1, <2>3, Numbers
      <4>2. current' \in Offers
        BY <4>1 DEF Offers, Stamps, NOTHING
      <4> QED
        BY <4>2 DEF Tokens, Offers, NOTHING
    <3>3. token.stamp = current' /\ token.targets = NOTHING /\ token.target = "none"
      OBVIOUS
    <3> HIDE DEF token
    <3>4. sent' \in Seq(Tokens) /\ Len(sent') = 1 /\ sent'[1] = token
      BY <3>1, <3>2, Single
    <3>5. ReadTypes'
      <4>1. owned' \in BOOLEAN
        BY <3>1
      <4>2. reading' \in Seq(ReadSteps) /\ Len(reading') <= 1
        BY <3>1
      <4> QED
        BY <1>2, <2>3, <2>4, <4>1, <4>2 DEF ReadTypes
    <3>6. TokenTypes'
      <4>1. haveToken' \in BOOLEAN /\ answered' \in BOOLEAN
        BY <3>1
      <4>2. Len(sent') <= 1
        BY <3>4
      <4> QED
        BY <1>1, <3>1, <3>4, <4>1, <4>2, TypeParts DEF TokenTypes
    <3>7. TypeOK'
      BY <1>7, <3>5, <3>6 DEF TypeOK, WorldTypes, ReadTypes, TokenTypes, PeerTypes, Memories
    <3>8. QuietInv'
      BY <1>2, <2>3, <2>6, <3>1 DEF QuietInv, Reading
    <3>9. ReadInv'
      BY <2>4, <3>1 DEF ReadInv
    <3>10. SentInv'
      BY <1>2, <2>2, <2>3, <3>3, <3>4 DEF SentInv, NOTHING
    <3>11. TokenOfOneOffer'
      BY <3>3, <3>4 DEF TokenOfOneOffer
    <3>12. IdInv'
      BY <1>2, <2>6 DEF IdInv, Reading
    <3> QED
      BY <1>6, <2>6, <3>7, <3>8, <3>9, <3>10, <3>11, <3>12 DEF IndInv
  <2>7. CASE ~Reading /\ ~haveToken
    <3>1. /\ reading' = <<>> /\ owned' = FALSE
          /\ UNCHANGED <<last, offerId, sent, answered, odd, haveToken>>
      BY <2>1, <2>7 DEF NoToken, offer
    <3>2. ReadTypes'
      <4>1. owned' \in BOOLEAN
        BY <3>1
      <4>2. reading' \in Seq(ReadSteps) /\ Len(reading') <= 1
        BY <3>1
      <4> QED
        BY <1>2, <2>3, <2>4, <4>1, <4>2 DEF ReadTypes
    <3>3. TokenTypes'
      BY <1>1, <1>2, <3>1, TypeParts DEF TokenTypes
    <3>4. TypeOK'
      BY <1>7, <3>2, <3>3 DEF TypeOK, WorldTypes, ReadTypes, TokenTypes, PeerTypes, Memories
    <3>5. QuietInv'
      <4>1. answered
        BY <1>1, <2>7 DEF QuietInv
      <4> QED
        BY <1>1, <1>2, <2>3, <2>7, <3>1, <4>1 DEF QuietInv, Reading
    <3>6. ReadInv'
      BY <2>4, <3>1 DEF ReadInv
    <3>7. SentInv' /\ TokenOfOneOffer'
      BY <1>1, <1>2, <2>3, <3>1 DEF SentInv, TokenOfOneOffer, ContentOf
    <3>8. IdInv'
      BY <1>2, <2>7 DEF IdInv, Reading
    <3> QED
      BY <1>6, <2>7, <3>4, <3>5, <3>6, <3>7, <3>8 DEF IndInv
  <2> QED
    BY <2>5, <2>6, <2>7
<1> QED
  BY <1>8, <1>9

\* A step of the reading.
Tells == IndInv' /\ (sent' # sent => owner # Self /\ (SameId /\ ~odd' => SameContent))

LEMMA GotTargetsKeeps ==
    ASSUME IndInv, NEW result \in ReadResults, GotTargets(result)
    PROVE  Tells
<1>1. TypeOK /\ ReadInv
  BY DEF IndInv
<1>2. /\ result \in Int /\ result \in Offers /\ result <= Len(offers)
      /\ result = NOTHING => TargetsOf(result) = {}
      /\ result # NOTHING => result \in Stamps /\ result \in current..Len(offers)
  BY Results
<1>3. /\ reading # <<>> /\ cached' \in {cached, result}
      /\ UNCHANGED <<setup, owner, offers, queue, current, asking, inputs, missed>>
  BY DEF GotTargets
<1>4. owner # Self /\ Reading
  BY <1>1, <1>3 DEF ReadInv
<1>5. /\ cached \in Int /\ cached \in Offers \cup {REMOTE} /\ cached <= Len(offers)
  BY <1>1, Numbers, TypeParts DEF ReadTypes, ReadInv
<1>6. cached' \in Int /\ cached' \in Offers \cup {REMOTE} /\ cached' <= Len(offers)
  BY <1>2, <1>3, <1>5
<1>7. NOTHING \in Offers
  BY DEF Offers
<1>8. CASE SendToken(cached', "none", NOTHING, NOTHING) /\ UNCHANGED owned
  <2>1. PICK t \in Int : t = cached'
    BY <1>6
  <2>2. owned' \in BOOLEAN
    BY <1>1, <1>8, TypeParts DEF ReadTypes
  <2>3. SendToken(t, "none", NOTHING, NOTHING)
    BY <1>8, <2>1
  <2>4. t \in Offers \cup {REMOTE} /\ t <= Len(offers) /\ cached' <= Len(offers)
    BY <1>6, <2>1
  <2>5. IndInv' /\ (SameId /\ ~odd' => SameContent)
    BY <1>3, <1>4, <1>6, <1>7, <2>2, <2>3, <2>4, SendKeeps
  <2> QED
    BY <1>4, <2>5 DEF Tells
<1>9. CASE \E step \in {"files", "chosen"} :
             TargetsOf(result) # {} /\ ReadNext(step, result, NOTHING)
  <2>1. PICK step \in {"files", "chosen"} :
               TargetsOf(result) # {} /\ ReadNext(step, result, NOTHING)
    BY <1>9
  <2>2. result \in Stamps /\ result \in current..Len(offers)
    BY <1>2, <2>1
  <2>3. IndInv' /\ UNCHANGED sent
    BY <1>3, <1>4, <1>6, <1>7, <2>1, <2>2, ReadKeeps
  <2> QED
    BY <2>3 DEF Tells
<1>10. "uri-list" \in TargetsOf(result) => TargetsOf(result) # {}
  OBVIOUS
<1> QED
  BY <1>8, <1>9, <1>10 DEF GotTargets

LEMMA GotFilesKeeps ==
    ASSUME IndInv, NEW result \in ReadResults, GotFiles(result)
    PROVE  Tells
<1>1. TypeOK /\ ReadInv
  BY DEF IndInv
<1>2. /\ ContentOf(result) \in Offers
      /\ result = NOTHING => ContentOf(result) = NOTHING
      /\ result # NOTHING => ContentOf(result) >= ContentOf(current)
  BY Results
<1>3. /\ reading # <<>> /\ reading[1].step = "files"
      /\ ReadNext("chosen", reading[1].targets, ContentOf(result))
      /\ UNCHANGED <<setup, owner, offers, queue, cached, current, asking, inputs, missed>>
  BY DEF GotFiles
<1>4. /\ owner # Self /\ Reading /\ reading[1].targets \in Stamps
      /\ reading[1].targets \in current..Len(offers)
  BY <1>1, <1>3 DEF ReadInv
<1>5. cached' \in Offers \cup {REMOTE} /\ cached' <= Len(offers)
  BY <1>1, <1>3, TypeParts DEF ReadTypes, ReadInv
<1>6. ContentOf(result) # NOTHING => ContentOf(result) >= ContentOf(current)
  BY <1>2
<1>7. IndInv' /\ UNCHANGED sent
  BY <1>2, <1>3, <1>4, <1>5, <1>6, ReadKeeps
<1> QED
  BY <1>7 DEF Tells

LEMMA GotChosenTargetKeeps ==
    ASSUME IndInv, NEW result \in ReadResults, GotChosenTarget(result)
    PROVE  Tells
<1>1. TypeOK /\ ReadInv
  BY DEF IndInv
<1>2. /\ ContentOf(result) \in Offers
      /\ result # NOTHING => ContentOf(result) >= ContentOf(current)
  BY Results
<1>3. /\ reading # <<>> /\ reading[1].step = "chosen"
      /\ IF result = NOTHING THEN SendToken(cached, "none", NOTHING, reading[1].files)
         ELSE SendToken(reading[1].targets, Chosen(TargetsOf(reading[1].targets)),
                        ContentOf(result), reading[1].files)
      /\ UNCHANGED <<setup, owner, offers, queue, owned, cached, current, asking, inputs, missed>>
  BY DEF GotChosenTarget
<1>4. /\ owner # Self /\ Reading /\ reading[1].targets \in Stamps
      /\ reading[1].targets \in current..Len(offers)
      /\ reading[1].files # NOTHING => reading[1].files >= ContentOf(current)
  BY <1>1, <1>3 DEF ReadInv
<1>5. reading[1].files \in Offers
  BY <1>1, <1>3, LastOne DEF ReadSteps
<1>6. /\ cached' \in Offers \cup {REMOTE} /\ cached' <= Len(offers) /\ cached' = cached
      /\ cached \in Int /\ owned' \in BOOLEAN
  BY <1>1, <1>3, Numbers, TypeParts DEF ReadTypes, ReadInv
<1>7. CASE result = NOTHING
  <2>1. SendToken(cached, "none", NOTHING, reading[1].files)
    BY <1>3, <1>7
  <2>2. NOTHING \in Offers /\ cached \in Offers \cup {REMOTE} /\ cached <= Len(offers)
    BY <1>6 DEF Offers
  <2>3. IndInv' /\ (SameId /\ ~odd' => SameContent)
    BY <1>3, <1>4, <1>5, <1>6, <2>1, <2>2, SendKeeps
  <2> QED
    BY <1>4, <2>3 DEF Tells
<1>8. CASE result # NOTHING
  <2> DEFINE r == reading[1].targets
  <2>1. SendToken(r, Chosen(TargetsOf(r)), ContentOf(result), reading[1].files)
    BY <1>3, <1>8
  <2>2. r \in Int /\ r \in Offers \cup {REMOTE} /\ r <= Len(offers)
    <3>1. current \in Int /\ Len(offers) \in Nat
      BY <1>1, OfferCounts
    <3> QED
      BY <1>4, <3>1 DEF Offers
  <2>3. Chosen(TargetsOf(r)) \in {"none", "text", "png"}
    BY DEF Chosen
  <2>4. ContentOf(result) >= ContentOf(current) /\ r \in current..Len(offers)
    BY <1>2, <1>4, <1>8
  <2>5. IndInv' /\ (SameId /\ ~odd' => SameContent)
    BY <1>2, <1>3, <1>4, <1>5, <1>6, <2>1, <2>2, <2>3, <2>4, SendKeeps
  <2> QED
    BY <1>4, <2>5 DEF Tells
<1> QED
  BY <1>7, <1>8

----------------------------------------------------------------------------
(* The theorems.                                                            *)

LEMMA StepKeeps ==
    ASSUME IndInv, [Next]_vars
    PROVE  IndInv' /\ (Reading /\ sent' # sent => owner # Self /\ (SameId /\ ~odd' => SameContent))
<1>1. ASSUME NEW x \in Xids, NEW t \in Copied, AppCopies(x, t)
      PROVE  IndInv' /\ UNCHANGED sent
  <2>1. t \in TargetSets
    BY OfferAssumption
  <2> QED
    BY <1>1, <2>1, AppCopiesKeeps DEF AppCopies, peer
<1>2. CASE AppExpands
  BY <1>2, AppExpandsKeeps DEF AppExpands, peer
<1>3. CASE AppReleases
  BY <1>3, AppReleasesKeeps DEF AppReleases, peer
<1>4. CASE AppAsksTargets \/ GotRemoteTargets \/ EnableSelections \/ UNCHANGED vars
  BY <1>4, AsksAndAnswersKeep
<1>5. CASE OwnerEvent
  BY <1>5, OwnerEventKeeps
<1>6. ASSUME NEW s \in ReadResults, GotTargets(s) \/ GotFiles(s) \/ GotChosenTarget(s)
      PROVE  Tells
  BY <1>6, GotTargetsKeeps, GotFilesKeeps, GotChosenTargetKeeps
<1>7. ASSUME NEW t \in {NOTHING, REMOTE}, NEW claim \in BOOLEAN, GotToken(t, claim)
      PROVE  IndInv' /\ UNCHANGED sent
  BY <1>7, PeerTokenKeeps
<1>8. CASE Next
  BY <1>1, <1>2, <1>3, <1>4, <1>5, <1>6, <1>7, <1>8, Zenon DEF Next, Tells
<1> QED
  BY <1>4, <1>8

LEMMA AlwaysIndInv == Spec => []IndInv
<1>1. Init => IndInv
  BY InitHolds
<1>2. IndInv /\ [Next]_vars => IndInv'
  BY StepKeeps
<1> QED
  BY <1>1, <1>2, PTL DEF Spec

\* The state of the X server, the proxy and the tokens keeps its types, for any number of
\* applications, offers and tokens.
THEOREM TypeCorrect == Spec => []TypeOK
<1>1. IndInv => TypeOK
  BY DEF IndInv
<1> QED
  BY <1>1, AlwaysIndInv, PTL

\* Once the last owner event is handled and nothing is being read, the peer has been told of
\* the local owner (do_owner_changed and schedule_emit_token miss none, whatever overtakes
\* what).
THEOREM QuietIsAnnounced == Spec => []QuietMeansAnnounced
<1>1. IndInv => QuietMeansAnnounced
  BY DEF IndInv, QuietInv, QuietMeansAnnounced
<1> QED
  BY <1>1, AlwaysIndInv, PTL

\* What schedule_emit_token puts together for one token, over several reads, is of the offer
\* that the token is for or of a later one, and its targets too.
THEOREM TokensDoNotMix == Spec => []TokenOfOneOffer
<1>1. IndInv => TokenOfOneOffer
  BY DEF IndInv
<1> QED
  BY <1>1, AlwaysIndInv, PTL

\* No token that was read is sent once the peer's own token has made us the owner.
THEOREM TokensOfLocalOwner == Spec => TokenOfLocalOwner
<1>1. IndInv /\ [Next]_vars => [sent' # sent /\ Reading => owner # Self]_vars
  BY StepKeeps
<1> QED
  BY <1>1, AlwaysIndInv, PTL DEF Spec, TokenOfLocalOwner

\* offer_metadata gives two tokens in a row one offer-id only if they are for the same
\* content, as long as no token lacked its targets or was overtaken by newer data.
THEOREM IdsTellContents == Spec => OneContentPerIdUnlessOdd
<1>1. IndInv /\ [Next]_vars => [Reading /\ SameId /\ ~odd' => SameContent]_vars
  <2> SUFFICES ASSUME IndInv, [Next]_vars, Reading, SameId, ~odd' PROVE SameContent
    OBVIOUS
  <2>1. CASE sent' = sent
    BY <2>1 DEF SameContent
  <2>2. CASE sent' # sent
    BY <2>2, StepKeeps
  <2> QED
    BY <2>1, <2>2
<1> QED
  BY <1>1, AlwaysIndInv, PTL DEF Spec, OneContentPerIdUnlessOdd
=============================================================================
