---------------------- MODULE ClipboardRequests_proofs ----------------------
(***************************************************************************)
(* Proofs about the requests of local applications for the clipboard of    *)
(* the peer, for any number of applications, targets, clients and packets. *)
(*                                                                         *)
(* A request leaves the table together with those who wait for its target, *)
(* which gives the timers and the one answer.  That the answer is fresh is *)
(* about order: what the proxy has seen of a client is not newer than what *)
(* is still to come from that client, so that contents that arrive are     *)
(* fresh enough for all who asked before.                                  *)
(***************************************************************************)
EXTENDS ClipboardRequests, TLAPS, WellFoundedInduction

\* replies are about requests that were sent
RepliesHaveIds ==
    \A i \in 1..Len(inbox) : inbox[i].type \in {"contents", "contents-none"} => inbox[i].id \in Ids

Types == TypeOK /\ RepliesHaveIds

----------------------------------------------------------------------------
(* The least of a set of numbers.                                           *)

LEMMA Minimal ==
    ASSUME NEW R, IsWellFoundedOn(R, Nat), NEW T \in SUBSET Nat, T # {}
    PROVE  \E x \in T : \A y \in T : ~ (<<y, x>> \in R)
<1>1. T \subseteq Nat
  OBVIOUS
<1> QED
  BY <1>1, WFMin

LEMMA LeastOf ==
    ASSUME NEW R, IsWellFoundedOn(R, Nat), \A x, y \in Nat : x < y => <<x, y>> \in R,
           NEW T \in SUBSET Nat, T # {}
    PROVE  \E x \in T : \A y \in T : x <= y
<1>1. T \subseteq Nat /\ T # {}
  OBVIOUS
<1>2. PICK x \in T : \A y \in T : ~ (<<y, x>> \in R)
  BY Minimal, Zenon
<1>3. \A y \in T : x <= y
  <2> TAKE y \in T
  <2>1. x \in Nat /\ y \in Nat
    BY <1>1
  <2>2. ~(y < x)
    BY <2>1, <1>2, Zenon
  <2> QED
    BY <2>1, <2>2
<1> QED
  BY <1>3

LEMMA Least ==
    ASSUME NEW T \in SUBSET Nat, T # {}
    PROVE  \E x \in T : \A y \in T : x <= y
<1> DEFINE R == OpToRel(<, Nat)
<1>1. IsWellFoundedOn(R, Nat)
  BY NatLessThanWellFounded
<1>2. \A x, y \in Nat : x < y => <<x, y>> \in R
  BY DEF OpToRel
<1> HIDE DEF R
<1> QED
  BY <1>1, <1>2, LeastOf

----------------------------------------------------------------------------
(* Types.                                                                   *)

LEMMA NoCopyType == NoCopy \in Copies
BY RequestsAssumption DEF NoCopy, Copy, Copies

LEMMA InitTypes == Init => Types
<1> SUFFICES ASSUME Init PROVE Types
  OBVIOUS
<1> USE RequestsAssumption DEF Init
<1>1. waiting \in [AllTargets -> Seq(Apps)] /\ answers \in [Apps -> Seq(Answers)]
  OBVIOUS
<1>2. inbox \in Seq(Packets) /\ RepliesHaveIds
  BY DEF RepliesHaveIds
<1>3. nextId \in 1..MaxIds + 1 /\ outstanding \in [Ids -> AllTargets \cup {NoTarget}]
  OBVIOUS
<1>4. copies \in [Clients -> 0..MaxCopies] /\ since \in [Apps -> Copies] /\ token \in Copies
      /\ source \in Copies
  BY NoCopyType
<1>5. peer \in [Clients -> SUBSET Ids] /\ asked \in [Apps -> AskedTargets]
      /\ resets \in 0..MaxResets /\ takes \in 0..MaxTakes
  BY DEF AskedTargets
<1> QED
  BY <1>1, <1>2, <1>3, <1>4, <1>5 DEF Types, TypeOK, AskedTargets

\* What an application is given is an answer.
LEMMA AnswerType ==
    ASSUME NEW t \in AllTargets \cup {NoTarget}, NEW d \in AskedTargets,
           NEW copy, NEW before
    PROVE  Answer(t, d, copy, before) \in Answers
BY DEF Answer, Answers

LEMMA NoDataType == NoData \in Answers
BY AnswerType DEF NoData, AskedTargets

\* The type that got_contents gives is one that somebody asked for.
LEMMA DtypeType ==
    ASSUME asked \in [Apps -> AskedTargets],
           NEW pending \in Seq(Apps), NEW i \in 1..Len(pending), NEW t \in AllTargets
    PROVE  DtypeOf(pending, i, t) \in AskedTargets
<1> DEFINE other == {j \in 1..i : asked[pending[j]] # t}
           least == CHOOSE j \in other : \A k \in other : j <= k
<1>1. CASE other = {}
  BY <1>1 DEF DtypeOf
<1>2. CASE other # {}
  <2>1. other \in SUBSET Nat
    OBVIOUS
  <2>2. \E j \in other : \A k \in other : j <= k
    BY <1>2, <2>1, Least
  <2>3. least \in other
    BY <2>2
  <2>4. pending[least] \in Apps
    BY <2>3
  <2>5. DtypeOf(pending, i, t) = asked[pending[least]]
    BY <1>2 DEF DtypeOf
  <2> HIDE DEF least
  <2> QED
    BY <2>4, <2>5
<1> QED
  BY <1>1, <1>2

\* got_contents leaves lists of applications, and gives them answers.
LEMMA GotContentsTypes ==
    ASSUME waiting \in [AllTargets -> Seq(Apps)], since \in [Apps -> Copies],
           asked \in [Apps -> AskedTargets], answers \in [Apps -> Seq(Answers)],
           NEW S \in SUBSET AllTargets, NEW empty \in BOOLEAN, NEW copy,
           GotContents(S, empty, copy)
    PROVE  /\ waiting' \in [AllTargets -> Seq(Apps)]
           /\ answers' \in [Apps -> Seq(Answers)]
           /\ since' \in [Apps -> Copies]
<1>1. waiting' \in [AllTargets -> Seq(Apps)]
  BY DEF GotContents
<1>2. since' \in [Apps -> Copies]
  BY NoCopyType DEF GotContents
<1> DEFINE t(a) == CHOOSE t \in WaitsFor(a, S) : TRUE
           i(a) == CHOOSE i \in 1..Len(waiting[t(a)]) : waiting[t(a)][i] = a
           given(a) == IF empty THEN NoData
                       ELSE Answer(t(a), DtypeOf(waiting[t(a)], i(a), t(a)), copy, since[a])
<1>3. ASSUME NEW a \in Apps, WaitsFor(a, S) # {}
      PROVE  given(a) \in Answers
  <2>1. t(a) \in WaitsFor(a, S)
    BY <1>3
  <2>2. t(a) \in AllTargets /\ \E k \in 1..Len(waiting[t(a)]) : waiting[t(a)][k] = a
    BY <2>1 DEF WaitsFor
  <2>3. i(a) \in 1..Len(waiting[t(a)])
    BY <2>2
  <2>4. waiting[t(a)] \in Seq(Apps)
    BY <2>2
  <2> HIDE DEF t, i
  <2>5. DtypeOf(waiting[t(a)], i(a), t(a)) \in AskedTargets
    BY <2>2, <2>3, <2>4, DtypeType
  <2>6. Answer(t(a), DtypeOf(waiting[t(a)], i(a), t(a)), copy, since[a]) \in Answers
    BY <2>2, <2>5, AnswerType
  <2> QED
    BY <2>6, NoDataType
<1>4. answers' = [a \in Apps |->
        IF WaitsFor(a, S) = {} THEN answers[a] ELSE Append(answers[a], given(a))]
  BY DEF GotContents
<1> HIDE DEF given
<1>5. answers' \in [Apps -> Seq(Answers)]
  BY <1>3, <1>4
<1> QED
  BY <1>1, <1>2, <1>5
\* A new application is recorded as waiting or as answered.
LEMMA AskTypes ==
    ASSUME Types, NEW a \in Apps, NEW target \in AllTargets, NEW response \in Seq(Answers),
           Ask(a, target, response)
    PROVE  /\ asked' \in [Apps -> AskedTargets]
           /\ since' \in [Apps -> Copies]
           /\ answers' \in [Apps -> Seq(Answers)]
BY DEF Ask, Types, TypeOK, AskedTargets

LEMMA SendRequestTypes ==
    ASSUME Types, NEW target \in AllTargets, SendRequest(target)
    PROVE  /\ outstanding' \in [Ids -> AllTargets \cup {NoTarget}]
           /\ timers' \subseteq Ids
           /\ nextId' \in 1..MaxIds + 1
           /\ peer' \in [Clients -> SUBSET Ids]
<1>1. nextId \in Ids
  BY RequestsAssumption DEF SendRequest, Types, TypeOK, Ids
<1> QED
  BY <1>1, RequestsAssumption DEF SendRequest, Types, TypeOK, Ids

LEMMA WaitTypes ==
    ASSUME Types, NEW a \in Apps, NEW target \in AllTargets, NEW req \in AllTargets,
           Wait(a, target, req)
    PROVE  /\ waiting' \in [AllTargets -> Seq(Apps)]
           /\ asked' \in [Apps -> AskedTargets]
           /\ since' \in [Apps -> Copies]
           /\ answers' \in [Apps -> Seq(Answers)]
           /\ outstanding' \in [Ids -> AllTargets \cup {NoTarget}]
           /\ timers' \subseteq Ids
           /\ nextId' \in 1..MaxIds + 1
           /\ peer' \in [Clients -> SUBSET Ids]
<1>1. waiting' \in [AllTargets -> Seq(Apps)]
  BY DEF Wait, Types, TypeOK
<1>2. <<>> \in Seq(Answers)
  OBVIOUS
<1>3. Ask(a, target, <<>>)
  BY DEF Wait
<1>4. SendRequest(req) \/ UNCHANGED <<helper, peer>>
  BY DEF Wait
<1> QED
  BY <1>1, <1>2, <1>3, <1>4, AskTypes, SendRequestTypes DEF helper, Types, TypeOK

\* What is asked of the peer is a target.
LEMMA RequestTargetsType ==
    ASSUME Types, NEW target \in AllTargets
    PROVE  RequestTargets(target) \subseteq AllTargets
BY RequestsAssumption DEF RequestTargets, AllTargets, Types, TypeOK

\* Packets that arrive are packets.
LEMMA ArriveTypes ==
    ASSUME Types, NEW packet \in Packets, Arrive(packet),
           packet.type \in {"contents", "contents-none"} => packet.id \in Ids
    PROVE  inbox' \in Seq(Packets) /\ RepliesHaveIds'
<1>1. inbox \in Seq(Packets)
  BY DEF Types, TypeOK
<1>2. CASE inbox' = inbox
  BY <1>1, <1>2 DEF Types, RepliesHaveIds
<1>3. CASE inbox' = Append(inbox, packet)
  <2>1. /\ inbox' \in Seq(Packets) /\ Len(inbox') = Len(inbox) + 1
        /\ \A i \in 1..Len(inbox) : inbox'[i] = inbox[i]
        /\ inbox'[Len(inbox) + 1] = packet
    BY <1>1, <1>3
  <2>2. ASSUME NEW i \in 1..Len(inbox'), inbox'[i].type \in {"contents", "contents-none"}
        PROVE  inbox'[i].id \in Ids
    <3>1. CASE i \in 1..Len(inbox)
      BY <2>1, <2>2, <3>1 DEF Types, RepliesHaveIds
    <3>2. CASE i = Len(inbox) + 1
      BY <2>1, <2>2, <3>2
    <3> QED
      BY <1>1, <2>1, <3>1, <3>2
  <2> QED
    BY <2>1, <2>2 DEF RepliesHaveIds
<1> QED
  BY <1>2, <1>3 DEF Arrive

LEMMA TakeFirstTypes ==
    ASSUME Types, inbox # <<>>, inbox' = Tail(inbox)
    PROVE  /\ inbox' \in Seq(Packets) /\ RepliesHaveIds'
           /\ Head(inbox) \in Packets
           /\ Head(inbox).type \in {"contents", "contents-none"} => Head(inbox).id \in Ids
<1>1. inbox \in Seq(Packets)
  BY DEF Types, TypeOK
<1>2. /\ inbox' \in Seq(Packets) /\ Len(inbox') = Len(inbox) - 1
      /\ \A i \in 1..Len(inbox') : inbox'[i] = inbox[i + 1]
      /\ Head(inbox) = inbox[1] /\ Head(inbox) \in Packets
  BY <1>1
<1>3. \A i \in 1..Len(inbox') : i + 1 \in 1..Len(inbox)
  BY <1>1, <1>2
<1>4. RepliesHaveIds'
  BY <1>2, <1>3 DEF Types, RepliesHaveIds
<1>5. 1 \in 1..Len(inbox)
  BY <1>1
<1> QED
  BY <1>2, <1>4, <1>5 DEF Types, RepliesHaveIds

\* Each step keeps the types.
LEMMA NextTypes ==
    ASSUME Types, [Next]_vars
    PROVE  Types'
<1> USE RequestsAssumption
<1>1. ASSUME NEW a \in Apps, NEW t \in AllTargets, SelectionRequest(a, t)
      PROVE  Types'
  <2>1. \/ \E response \in Seq(Answers) : Ask(a, t, response) /\ UNCHANGED <<waiting, helper, peer>>
        \/ \E req \in AllTargets : Wait(a, t, req)
        \/ /\ asked' = [asked EXCEPT ![a] = Ignored]
           /\ UNCHANGED <<since, answers, waiting, helper, peer>>
    <3>1. ASSUME NEW req \in AllTargets, NEW copy, NEW before
          PROVE  <<Answer(req, req, copy, before)>> \in Seq(Answers)
      <4>1. req \in AllTargets \cup {NoTarget} /\ req \in AskedTargets
        BY DEF AskedTargets
      <4>2. Answer(req, req, copy, before) \in Answers
        BY <4>1, AnswerType
      <4> QED
        BY <4>2
    <3>2. <<NoData>> \in Seq(Answers)
      BY NoDataType
    <3> QED
      BY <1>1, <3>1, <3>2, RequestTargetsType DEF SelectionRequest
  <2>2. /\ waiting' \in [AllTargets -> Seq(Apps)]
        /\ asked' \in [Apps -> AskedTargets]
        /\ since' \in [Apps -> Copies]
        /\ answers' \in [Apps -> Seq(Answers)]
        /\ outstanding' \in [Ids -> AllTargets \cup {NoTarget}]
        /\ timers' \subseteq Ids
        /\ nextId' \in 1..MaxIds + 1
        /\ peer' \in [Clients -> SUBSET Ids]
    <3>1. CASE \E response \in Seq(Answers) : Ask(a, t, response) /\ UNCHANGED <<waiting, helper, peer>>
      BY <3>1, AskTypes DEF helper, Types, TypeOK
    <3>2. CASE \E req \in AllTargets : Wait(a, t, req)
      BY <3>2, WaitTypes
    <3>3. CASE /\ asked' = [asked EXCEPT ![a] = Ignored]
               /\ UNCHANGED <<since, answers, waiting, helper, peer>>
      BY <3>3 DEF helper, Types, TypeOK, AskedTargets
    <3> QED
      BY <2>1, <3>1, <3>2, <3>3
  <2>3. UNCHANGED <<proxy, client, accepts, inbox, copies, token, resets, takes>>
    BY <1>1 DEF SelectionRequest
  <2> QED
    BY <2>2, <2>3 DEF proxy, Types, TypeOK, RepliesHaveIds
<1>2. ASSUME LocalCopy PROVE Types'
  BY <1>2 DEF LocalCopy, helper, apps, network, Types, TypeOK, RepliesHaveIds
<1>3. ASSUME NEW shape \in Tokens, PeerToken(shape) PROVE Types'
  <2>1. copies' \in [Clients -> 0..MaxCopies]
    BY <1>3 DEF PeerToken, Types, TypeOK
  <2>2. client \in Clients
    BY <1>3 DEF PeerToken
  <2> DEFINE packet == Packet("token", shape, 0, Copy(client, copies'[client]))
  <2>3. packet \in Packets /\ packet.type = "token"
    BY <2>1, <2>2 DEF Packet, Packets, Copy, Copies
  <2>4. Arrive(packet)
    BY <1>3 DEF PeerToken
  <2> HIDE DEF packet
  <2>5. inbox' \in Seq(Packets) /\ RepliesHaveIds'
    BY <2>3, <2>4, ArriveTypes
  <2> QED
    BY <1>3, <2>1, <2>5 DEF PeerToken, proxy, helper, apps, Types, TypeOK
<1>4. ASSUME NEW i \in Ids, NEW empty \in BOOLEAN, PeerReply(i, empty) PROVE Types'
  <2>1. client \in Clients /\ peer' \in [Clients -> SUBSET Ids]
    BY <1>4 DEF PeerReply, Types, TypeOK
  <2> DEFINE packet == Packet(IF empty THEN "contents-none" ELSE "contents", NoToken, i,
                              Copy(client, copies[client]))
  <2>2. copies[client] \in 0..MaxCopies /\ i \in 0..MaxIds
    BY <2>1 DEF Types, TypeOK, Ids
  <2>3. NoToken \in TokenShapes
    BY DEF NoToken, TokenShapes
  <2>4. packet \in Packets /\ packet.id = i
    BY <2>1, <2>2, <2>3 DEF Packet, Packets, Copy, Copies
  <2>5. Arrive(packet)
    BY <1>4 DEF PeerReply
  <2> HIDE DEF packet
  <2>6. inbox' \in Seq(Packets) /\ RepliesHaveIds'
    BY <2>4, <2>5, ArriveTypes
  <2> QED
    BY <1>4, <2>1, <2>6 DEF PeerReply, proxy, helper, apps, Types, TypeOK
<1>5. ASSUME NEW on \in BOOLEAN, PeerEnable(on) PROVE Types'
  <2> DEFINE packet == Packet("enable", [NoToken EXCEPT !.claim = on], 0, NoCopy)
  <2>1. [NoToken EXCEPT !.claim = on] \in TokenShapes
    BY DEF NoToken, TokenShapes
  <2>2. packet \in Packets /\ packet.type = "enable"
    BY <2>1, NoCopyType DEF Packet, Packets
  <2>3. Arrive(packet)
    BY <1>5 DEF PeerEnable
  <2> HIDE DEF packet
  <2>4. inbox' \in Seq(Packets) /\ RepliesHaveIds'
    BY <2>2, <2>3, ArriveTypes
  <2> QED
    BY <1>5, <2>4 DEF PeerEnable, proxy, helper, apps, Types, TypeOK
<1>6. ASSUME NEW i \in Ids, PeerNoReply(i) PROVE Types'
  BY <1>6 DEF PeerNoReply, proxy, helper, apps, Types, TypeOK, RepliesHaveIds
<1>7. ASSUME ProcessToken PROVE Types'
  <2> DEFINE packet == Head(inbox)
             offer == packet.shape.targets \cup packet.shape.data
             S == (IF offer # {} /\ packet.shape.claim THEN {"TARGETS"} ELSE {}) \cup TextTargets(packet)
  <2>1. inbox' \in Seq(Packets) /\ RepliesHaveIds' /\ packet \in Packets
    BY <1>7, TakeFirstTypes DEF ProcessToken
  <2>2. /\ packet.copy \in Copies /\ packet.shape.claim \in BOOLEAN
        /\ packet.shape.data \subseteq Offered /\ packet.shape.targets \subseteq Offered
    BY <2>1 DEF Packets, TokenShapes
  <2>3. S \in SUBSET AllTargets
    BY <2>2 DEF TextTargets, AllTargets
  <2>4. CASE ~enabled
    BY <1>7, <2>1, <2>4 DEF ProcessToken, helper, Types, TypeOK
  <2>5. CASE enabled
    <3>1. /\ token' = packet.copy
          /\ targets' = offer /\ data' = packet.shape.data /\ source' = packet.copy
          /\ haveToken' = (haveToken \/ packet.shape.claim)
          /\ owned' = (owned \/ packet.shape.claim)
          /\ GotContents(S, FALSE, packet.copy)
          /\ UNCHANGED <<enabled, helper, asked, client, accepts, peer, copies, resets, takes>>
      BY <1>7, <2>5 DEF ProcessToken
    <3> HIDE DEF S, packet
    <3>2. waiting' \in [AllTargets -> Seq(Apps)] /\ answers' \in [Apps -> Seq(Answers)]
          /\ since' \in [Apps -> Copies]
      BY <2>3, <3>1, GotContentsTypes DEF Types, TypeOK
    <3>3. /\ token' \in Copies /\ targets' \subseteq Targets /\ data' \subseteq Targets
          /\ source' \in Copies /\ haveToken' \in BOOLEAN /\ owned' \in BOOLEAN
      BY <2>2, <3>1 DEF Types, TypeOK
    <3> QED
      BY <2>1, <3>1, <3>2, <3>3 DEF helper, Types, TypeOK
  <2> QED
    BY <2>4, <2>5
<1>8. ASSUME ProcessContents PROVE Types'
  <2> DEFINE packet == Head(inbox)
             target == outstanding[packet.id]
             empty == packet.type = "contents-none"
  <2>1. inbox' \in Seq(Packets) /\ RepliesHaveIds' /\ packet.id \in Ids
    BY <1>8, TakeFirstTypes DEF ProcessContents
  <2>2. target \in AllTargets \cup {NoTarget}
    BY <2>1 DEF Types, TypeOK
  <2>3. UNCHANGED <<enabled, owned, haveToken, data, source, nextId, asked,
                    client, accepts, peer, copies, token, resets, takes>>
    BY <1>8 DEF ProcessContents
  <2>4. CASE target = NoTarget
    BY <1>8, <2>1, <2>3, <2>4 DEF ProcessContents, Types, TypeOK
  <2>5. CASE target # NoTarget
    <3>1. /\ outstanding' = [outstanding EXCEPT ![packet.id] = NoTarget]
          /\ timers' = timers \ {packet.id}
          /\ targets' = IF target = "TARGETS" /\ ~empty THEN Offered ELSE targets
          /\ GotContents({target}, empty, packet.copy)
      BY <1>8, <2>5 DEF ProcessContents
    <3>2. {target} \in SUBSET AllTargets /\ empty \in BOOLEAN
      BY <2>2, <2>5
    <3>3. outstanding' \in [Ids -> AllTargets \cup {NoTarget}] /\ timers' \subseteq Ids
          /\ targets' \subseteq Targets
      BY <3>1 DEF Types, TypeOK
    <3> HIDE DEF target, empty, packet
    <3>4. waiting \in [AllTargets -> Seq(Apps)] /\ answers \in [Apps -> Seq(Answers)]
          /\ since \in [Apps -> Copies] /\ asked \in [Apps -> AskedTargets]
      BY DEF Types, TypeOK
    <3>5. GotContents({target}, empty, packet.copy)
      BY <3>1
    <3>6. waiting' \in [AllTargets -> Seq(Apps)] /\ answers' \in [Apps -> Seq(Answers)]
          /\ since' \in [Apps -> Copies]
      BY <3>2, <3>4, <3>5, GotContentsTypes
    <3> QED
      BY <2>1, <2>3, <3>3, <3>6 DEF Types, TypeOK
  <2> QED
    BY <2>4, <2>5
<1>9. ASSUME ProcessEnable PROVE Types'
  <2>1. inbox' \in Seq(Packets) /\ RepliesHaveIds' /\ Head(inbox) \in Packets
    BY <1>9, TakeFirstTypes DEF ProcessEnable
  <2>2. enabled' \in BOOLEAN
    BY <1>9, <2>1 DEF ProcessEnable, Packets, TokenShapes
  <2> QED
    BY <1>9, <2>1, <2>2 DEF ProcessEnable, helper, apps, Types, TypeOK
<1>10. ASSUME NEW i \in Ids, TimeoutRequest(i) PROVE Types'
  <2>1. outstanding' \in [Ids -> AllTargets \cup {NoTarget}] /\ timers' \subseteq Ids
    BY <1>10 DEF TimeoutRequest, Types, TypeOK
  <2>2. waiting' \in [AllTargets -> Seq(Apps)] /\ answers' \in [Apps -> Seq(Answers)]
        /\ since' \in [Apps -> Copies]
    <3>1. CASE outstanding[i] = NoTarget
      BY <1>10, <3>1 DEF TimeoutRequest, Types, TypeOK
    <3>2. CASE outstanding[i] # NoTarget
      <4>1. GotContents({outstanding[i]}, TRUE, NoCopy)
        BY <1>10, <3>2 DEF TimeoutRequest
      <4>2. {outstanding[i]} \in SUBSET AllTargets
        BY <3>2 DEF Types, TypeOK
      <4> QED
        BY <4>1, <4>2, GotContentsTypes DEF Types, TypeOK
    <3> QED
      BY <3>1, <3>2
  <2> QED
    BY <1>10, <2>1, <2>2 DEF TimeoutRequest, proxy, network, Types, TypeOK, RepliesHaveIds
<1>11. ASSUME ClientReset, UNCHANGED <<proxy, inbox, copies, token, takes>>,
              client' \in Clients \cup {NoClient}, accepts' \in BOOLEAN,
              peer' \in [Clients -> SUBSET Ids]
       PROVE  Types'
  <2>1. outstanding' \in [Ids -> AllTargets \cup {NoTarget}] /\ resets' \in 0..MaxResets
    BY <1>11 DEF ClientReset, Types, TypeOK
  <2> QED
    BY <1>11, <2>1 DEF ClientReset, proxy, apps, Types, TypeOK, RepliesHaveIds
<1>12. ASSUME PeerGone PROVE Types'
  <2>1. peer' \in [Clients -> SUBSET Ids]
    BY <1>12 DEF PeerGone, Types, TypeOK
  <2> QED
    BY <1>11, <1>12, <2>1 DEF PeerGone
<1>13. ASSUME LastClientExited PROVE Types'
  BY <1>11, <1>13 DEF LastClientExited, network, Types, TypeOK
<1>14. ASSUME NEW c \in Clients, NEW on \in BOOLEAN, TakeClipboard(c, on) PROVE Types'
  <2>1. takes' \in 0..MaxTakes
    BY <1>14 DEF TakeClipboard, Types, TypeOK
  <2>2. client' \in Clients /\ accepts' \in BOOLEAN /\ enabled' \in BOOLEAN
        /\ haveToken' \in BOOLEAN
    BY <1>14, Zenon DEF TakeClipboard, Types, TypeOK
  <2> QED
    BY <1>14, <2>1, <2>2 DEF TakeClipboard, helper, apps, Types, TypeOK, RepliesHaveIds
<1>15. ASSUME NEW on \in BOOLEAN, ClipboardStatus(on) PROVE Types'
  BY <1>15 DEF ClipboardStatus, helper, apps, Types, TypeOK, RepliesHaveIds
<1>16. CASE UNCHANGED vars
  BY <1>16 DEF vars, proxy, helper, apps, network, Types, TypeOK, RepliesHaveIds
<1> QED
  BY <1>1, <1>2, <1>3, <1>4, <1>5, <1>6, <1>7, <1>8, <1>9, <1>10, <1>12, <1>13, <1>14, <1>15,
     <1>16 DEF Next

\* The variables of the clipboard requests have their types in every state.
THEOREM TypeCorrect == Spec => []TypeOK
<1>1. Init => Types
  BY InitTypes
<1>2. Types /\ [Next]_vars => Types'
  BY NextTypes
<1>3. Types => TypeOK
  BY DEF Types
<1> QED
  BY <1>1, <1>2, <1>3, PTL DEF Spec
----------------------------------------------------------------------------
(* Whoever waits has a request, and its timer.                              *)

\* timers are those of requests that were sent
TimersSent == \A i \in timers : i < nextId

TimerInv == Types /\ TimersSent /\ WaitersHaveTimer

\* A target that got_contents was not called for keeps its list; one that it was called
\* for has none left.
LEMMA GotContentsWaiting ==
    ASSUME waiting \in [AllTargets -> Seq(Apps)], NEW S, NEW empty, NEW copy,
           GotContents(S, empty, copy)
    PROVE  \A t \in AllTargets : waiting'[t] # <<>> => t \notin S /\ waiting[t] # <<>>
BY DEF GotContents

\* Removing one request, when those that wait for its target are given an answer.
LEMMA RequestOver ==
    ASSUME TimerInv, NEW i \in Ids, outstanding' = [outstanding EXCEPT ![i] = NoTarget],
           timers' = timers \ {i}, nextId' = nextId, resets' = resets,
           \A t \in AllTargets : waiting'[t] # <<>> => t # outstanding[i] /\ waiting[t] # <<>>
    PROVE  TimersSent' /\ WaitersHaveTimer'
<1>1. TimersSent'
  BY DEF TimerInv, TimersSent
<1>2. ASSUME resets = 0, NEW t \in AllTargets, waiting'[t] # <<>>
      PROVE  \E k \in timers' : outstanding'[k] = t
  <2>1. t # outstanding[i] /\ waiting[t] # <<>>
    BY <1>2
  <2>2. PICK k \in timers : outstanding[k] = t
    BY <1>2, <2>1 DEF TimerInv, WaitersHaveTimer
  <2>3. k # i /\ k \in Ids
    BY <2>1, <2>2 DEF TimerInv, Types, TypeOK
  <2>4. outstanding'[k] = t
    BY <2>2, <2>3 DEF TimerInv, Types, TypeOK
  <2> QED
    BY <2>2, <2>3, <2>4
<1> QED
  BY <1>1, <1>2 DEF WaitersHaveTimer

\* A request that is sent takes an id that no timer has, so that none is overwritten.
LEMMA RequestSent ==
    ASSUME TimerInv, NEW req \in AllTargets, SendRequest(req), resets' = resets,
           \A t \in AllTargets : waiting'[t] # <<>> => t = req \/ waiting[t] # <<>>
    PROVE  TimersSent' /\ WaitersHaveTimer'
<1>1. /\ nextId \in Ids /\ nextId' = nextId + 1
      /\ outstanding' = [outstanding EXCEPT ![nextId] = req]
      /\ timers' = timers \cup {nextId}
      /\ outstanding \in [Ids -> AllTargets \cup {NoTarget}] /\ timers \subseteq Ids
  BY RequestsAssumption DEF SendRequest, TimerInv, Types, TypeOK, Ids
<1>2. Ids \subseteq Nat
  BY DEF Ids
<1>3. TimersSent'
  BY <1>1, <1>2 DEF TimerInv, TimersSent
<1>4. ASSUME resets = 0, NEW t \in AllTargets, waiting'[t] # <<>>
      PROVE  \E k \in timers' : outstanding'[k] = t
  <2>1. CASE t = req
    BY <1>1, <2>1
  <2>2. CASE t # req
    <3>1. PICK k \in timers : outstanding[k] = t
      BY <1>4, <2>2 DEF TimerInv, WaitersHaveTimer
    <3>2. k # nextId
      BY <1>1, <1>2, <3>1 DEF TimerInv, TimersSent
    <3> QED
      BY <1>1, <3>1, <3>2
  <2> QED
    BY <2>1, <2>2
<1> QED
  BY <1>3, <1>4 DEF WaitersHaveTimer

LEMMA NextTimers ==
    ASSUME TimerInv, [Next]_vars
    PROVE  TimerInv'
<1>1. Types'
  BY NextTypes DEF TimerInv
<1> SUFFICES TimersSent' /\ WaitersHaveTimer'
  BY <1>1 DEF TimerInv
<1>2. ASSUME UNCHANGED <<outstanding, timers, nextId, waiting>>,
             resets' = resets \/ resets' # 0
      PROVE  TimersSent' /\ WaitersHaveTimer'
  BY <1>2 DEF TimerInv, TimersSent, WaitersHaveTimer
<1>3. ASSUME NEW a \in Apps, NEW target \in AllTargets, SelectionRequest(a, target)
      PROVE  TimersSent' /\ WaitersHaveTimer'
  <2>1. resets' = resets
    BY <1>3 DEF SelectionRequest
  <2>2. CASE UNCHANGED <<waiting, helper, peer>>
    BY <1>2, <2>1, <2>2 DEF helper
  <2>3. ASSUME NEW req \in AllTargets, Wait(a, target, req)
        PROVE  TimersSent' /\ WaitersHaveTimer'
    <3>1. \A t \in AllTargets : waiting'[t] # <<>> => t = req \/ waiting[t] # <<>>
      BY <2>3 DEF Wait, TimerInv, Types, TypeOK
    <3>2. CASE waiting[req] = <<>>
      BY <2>1, <2>3, <3>1, <3>2, RequestSent DEF Wait
    <3>3. CASE waiting[req] # <<>>
      BY <2>1, <2>3, <3>1, <3>3 DEF Wait, helper, TimerInv, TimersSent, WaitersHaveTimer
    <3> QED
      BY <3>2, <3>3
  <2>4. UNCHANGED <<waiting, helper, peer>> \/ \E req \in AllTargets : Wait(a, target, req)
    BY <1>3, RequestTargetsType DEF SelectionRequest, TimerInv
  <2> QED
    BY <2>2, <2>3, <2>4
<1>4. ASSUME ProcessToken
      PROVE  TimersSent' /\ WaitersHaveTimer'
  <2>1. UNCHANGED <<helper, resets>>
    BY <1>4 DEF ProcessToken
  <2>2. \A t \in AllTargets : waiting'[t] # <<>> => waiting[t] # <<>>
    <3>1. CASE ~enabled
      BY <1>4, <3>1 DEF ProcessToken
    <3>2. CASE enabled
      <4>1. \E S, copy : GotContents(S, FALSE, copy)
        BY <1>4, <3>2, Zenon DEF ProcessToken
      <4> QED
        BY <4>1, GotContentsWaiting DEF TimerInv, Types, TypeOK
    <3> QED
      BY <3>1, <3>2
  <2> QED
    BY <2>1, <2>2 DEF helper, TimerInv, TimersSent, WaitersHaveTimer
<1>5. ASSUME ProcessContents
      PROVE  TimersSent' /\ WaitersHaveTimer'
  <2> DEFINE packet == Head(inbox)
  <2>1. nextId' = nextId /\ resets' = resets /\ packet.id \in Ids
    BY <1>5, TakeFirstTypes DEF ProcessContents, TimerInv
  <2>2. CASE outstanding[packet.id] = NoTarget
    BY <1>2, <1>5, <2>1, <2>2 DEF ProcessContents
  <2>3. CASE outstanding[packet.id] # NoTarget
    <3>1. /\ outstanding' = [outstanding EXCEPT ![packet.id] = NoTarget]
          /\ timers' = timers \ {packet.id}
          /\ GotContents({outstanding[packet.id]}, packet.type = "contents-none", packet.copy)
      BY <1>5, <2>3 DEF ProcessContents
    <3> HIDE DEF packet
    <3>2. \A t \in AllTargets : waiting'[t] # <<>> => t # outstanding[packet.id] /\ waiting[t] # <<>>
      BY <3>1, GotContentsWaiting DEF TimerInv, Types, TypeOK
    <3> QED
      BY <2>1, <3>1, <3>2, RequestOver
  <2> QED
    BY <2>2, <2>3
<1>6. ASSUME NEW i \in Ids, TimeoutRequest(i)
      PROVE  TimersSent' /\ WaitersHaveTimer'
  <2>1. /\ outstanding' = [outstanding EXCEPT ![i] = NoTarget]
        /\ timers' = timers \ {i} /\ nextId' = nextId /\ resets' = resets
    BY <1>6 DEF TimeoutRequest
  <2>2. \A t \in AllTargets : waiting'[t] # <<>> => t # outstanding[i] /\ waiting[t] # <<>>
    <3>1. CASE outstanding[i] = NoTarget
      BY <1>6, <3>1, RequestsAssumption DEF TimeoutRequest, AllTargets
    <3>2. CASE outstanding[i] # NoTarget
      <4>1. GotContents({outstanding[i]}, TRUE, NoCopy)
        BY <1>6, <3>2 DEF TimeoutRequest
      <4> QED
        BY <4>1, GotContentsWaiting DEF TimerInv, Types, TypeOK
    <3> QED
      BY <3>1, <3>2
  <2> QED
    BY <2>1, <2>2, RequestOver
<1>7. ASSUME ClientReset
      PROVE  TimersSent' /\ WaitersHaveTimer'
  <2>1. resets' # 0 /\ UNCHANGED <<timers, nextId>>
    BY <1>7 DEF ClientReset, TimerInv, Types, TypeOK
  <2> QED
    BY <2>1 DEF TimerInv, TimersSent, WaitersHaveTimer
<1>8. ASSUME PeerGone
      PROVE  TimersSent' /\ WaitersHaveTimer'
  <2>1. ClientReset
    BY <1>8 DEF PeerGone
  <2> QED
    BY <2>1, <1>7
<1>9. ASSUME LastClientExited
      PROVE  TimersSent' /\ WaitersHaveTimer'
  <2>1. ClientReset
    BY <1>9 DEF LastClientExited
  <2> QED
    BY <2>1, <1>7
<1>10. ASSUME \/ LocalCopy \/ ProcessEnable
              \/ \E shape \in Tokens : PeerToken(shape)
              \/ \E i \in Ids, empty \in BOOLEAN : PeerReply(i, empty) \/ PeerNoReply(i)
              \/ \E on \in BOOLEAN : PeerEnable(on) \/ ClipboardStatus(on)
              \/ \E c \in Clients, on \in BOOLEAN : TakeClipboard(c, on)
       PROVE  UNCHANGED <<outstanding, timers, nextId, waiting, resets>>
  BY <1>10 DEF LocalCopy, ProcessEnable, PeerToken, PeerReply, PeerNoReply, PeerEnable,
     ClipboardStatus, TakeClipboard, helper, apps
<1>11. CASE UNCHANGED <<outstanding, timers, nextId, waiting, resets>>
  BY <1>2, <1>11
<1>12. CASE UNCHANGED vars
  BY <1>2, <1>12 DEF vars, helper, apps
<1>13. \A i \in Ids : PeerNoReply(i) => \E empty \in BOOLEAN : PeerReply(i, empty) \/ PeerNoReply(i)
  OBVIOUS
<1> QED
  BY <1>3, <1>4, <1>5, <1>6, <1>8, <1>9, <1>10, <1>11, <1>12, <1>13, Zenon DEF Next

\* While an application waits for the peer, a request for what it waits for is outstanding
\* and will time out, as long as client_reset has not been called.
THEOREM WaitersAreTimed == Spec => []WaitersHaveTimer
<1>1. Init => TimerInv
  <2> SUFFICES ASSUME Init PROVE TimersSent /\ WaitersHaveTimer
    BY InitTypes DEF TimerInv
  <2> QED
    BY DEF Init, TimersSent, WaitersHaveTimer
<1>2. TimerInv /\ [Next]_vars => TimerInv'
  BY NextTimers
<1>3. TimerInv => WaitersHaveTimer
  BY DEF TimerInv
<1> QED
  BY <1>1, <1>2, <1>3, PTL DEF Spec
----------------------------------------------------------------------------
(* An application is answered once.                                         *)

InList(a, t) == \E i \in 1..Len(waiting[t]) : waiting[t][i] = a

\* an application waits for one target at most, and only once it has asked
WaitsOnce ==
    \A a \in Apps :
        /\ asked[a] \in {NoTarget, Ignored} => answers[a] = <<>> /\ \A t \in AllTargets : ~InList(a, t)
        /\ \A t, u \in AllTargets : InList(a, t) /\ InList(a, u) => t = u

\* what AnsweredOnce says of one whose request is not ignored
Served ==
    \A a \in Apps : asked[a] \notin {NoTarget, Ignored} =>
        IF IsWaiting(a) THEN answers[a] = <<>> ELSE Len(answers[a]) = 1

OnceInv == Types /\ WaitsOnce /\ Served

\* what the invariant says of an application whose part of the state does not change
LEMMA SameApplication ==
    ASSUME OnceInv, NEW a \in Apps, asked'[a] = asked[a], answers'[a] = answers[a],
           \A t \in AllTargets : InList(a, t)' <=> InList(a, t)
    PROVE  /\ asked'[a] \in {NoTarget, Ignored} => answers'[a] = <<>> /\ \A t \in AllTargets : ~InList(a, t)'
           /\ \A t, u \in AllTargets : InList(a, t)' /\ InList(a, u)' => t = u
           /\ asked'[a] \notin {NoTarget, Ignored} =>
                IF IsWaiting(a)' THEN answers'[a] = <<>> ELSE Len(answers'[a]) = 1
<1>1. IsWaiting(a)' <=> IsWaiting(a)
  BY DEF IsWaiting, InList
<1> QED
  BY <1>1, Zenon DEF OnceInv, WaitsOnce, Served

LEMMA GotContentsOnce ==
    ASSUME OnceInv, NEW S \in SUBSET AllTargets, NEW empty, NEW copy,
           GotContents(S, empty, copy), asked' = asked
    PROVE  WaitsOnce' /\ Served'
<1>1. \A t \in AllTargets : waiting'[t] = IF t \in S THEN <<>> ELSE waiting[t]
  BY DEF GotContents, OnceInv, Types, TypeOK
<1>2. ASSUME NEW a \in Apps, NEW t \in AllTargets
      PROVE  InList(a, t)' <=> t \notin S /\ InList(a, t)
  BY <1>1 DEF InList
<1> SUFFICES ASSUME NEW a \in Apps
             PROVE  /\ asked'[a] \in {NoTarget, Ignored} => answers'[a] = <<>> /\ \A t \in AllTargets : ~InList(a, t)'
                    /\ \A t, u \in AllTargets : InList(a, t)' /\ InList(a, u)' => t = u
                    /\ asked'[a] \notin {NoTarget, Ignored} =>
                         IF IsWaiting(a)' THEN answers'[a] = <<>> ELSE Len(answers'[a]) = 1
  BY Zenon DEF WaitsOnce, Served
<1>3. CASE WaitsFor(a, S) = {}
  <2>1. \A t \in S : ~InList(a, t)
    BY <1>3 DEF WaitsFor, InList
  <2>2. \A t \in AllTargets : InList(a, t)' <=> InList(a, t)
    BY <1>2, <2>1
  <2>3. answers'[a] = answers[a]
    BY <1>3 DEF GotContents
  <2> QED
    BY <2>2, <2>3, SameApplication
<1>4. CASE WaitsFor(a, S) # {}
  <2>1. PICK t \in S : InList(a, t)
    BY <1>4 DEF WaitsFor, InList
  <2>2. asked[a] \notin {NoTarget, Ignored} /\ IsWaiting(a)
    BY <2>1 DEF OnceInv, WaitsOnce, IsWaiting, InList
  <2>3. answers[a] = <<>>
    BY <2>2 DEF OnceInv, Served
  <2>4. \E answer : answers'[a] = Append(answers[a], answer)
    BY <1>4 DEF GotContents
  <2>5. Len(answers'[a]) = 1
    BY <2>3, <2>4
  <2>6. \A u \in AllTargets : ~InList(a, u)'
    BY <1>2, <2>1 DEF OnceInv, WaitsOnce
  <2>7. ~IsWaiting(a)'
    BY <2>6 DEF IsWaiting, InList
  <2> QED
    BY <2>2, <2>5, <2>6, <2>7
<1> QED
  BY <1>3, <1>4

\* An application that asks is the last of one list, or is given an answer at once.
LEMMA SelectionRequestOnce ==
    ASSUME OnceInv, NEW a \in Apps, NEW target \in AllTargets, SelectionRequest(a, target)
    PROVE  WaitsOnce' /\ Served'
<1>1. asked[a] = NoTarget /\ answers[a] = <<>> /\ \A t \in AllTargets : ~InList(a, t)
  BY DEF SelectionRequest, OnceInv, WaitsOnce
<1>2. /\ waiting \in [AllTargets -> Seq(Apps)]
      /\ NoTarget \notin AllTargets /\ Ignored \notin AllTargets
      /\ asked \in [Apps -> AskedTargets] /\ answers \in [Apps -> Seq(Answers)]
  BY RequestsAssumption DEF OnceInv, Types, TypeOK, AllTargets, Ignored
<1>3. ASSUME NEW b \in Apps, b # a, asked'[b] = asked[b], answers'[b] = answers[b],
             \A t \in AllTargets : InList(b, t)' <=> InList(b, t)
      PROVE  /\ asked'[b] \in {NoTarget, Ignored} => answers'[b] = <<>> /\ \A t \in AllTargets : ~InList(b, t)'
             /\ \A t, u \in AllTargets : InList(b, t)' /\ InList(b, u)' => t = u
             /\ asked'[b] \notin {NoTarget, Ignored} =>
                  IF IsWaiting(b)' THEN answers'[b] = <<>> ELSE Len(answers'[b]) = 1
  BY <1>3, SameApplication
<1>4. ASSUME NEW answer, Ask(a, target, <<answer>>), UNCHANGED <<waiting, helper, peer>>
      PROVE  WaitsOnce' /\ Served'
  <2>1. /\ asked' = [asked EXCEPT ![a] = target] /\ waiting' = waiting
        /\ answers' = [answers EXCEPT ![a] = <<answer>>]
    BY <1>4 DEF Ask
  <2>2. \A b \in Apps, t \in AllTargets : InList(b, t)' <=> InList(b, t)
    BY <2>1 DEF InList
  <2>3. asked'[a] \notin {NoTarget, Ignored} /\ Len(answers'[a]) = 1 /\ ~IsWaiting(a)'
    BY <1>1, <1>2, <2>1, <2>2 DEF IsWaiting, InList
  <2>4. \A b \in Apps : b # a => asked'[b] = asked[b] /\ answers'[b] = answers[b]
    BY <1>2, <2>1
  <2> QED
    BY <1>1, <1>3, <2>2, <2>3, <2>4 DEF WaitsOnce, Served
<1>5. ASSUME NEW req \in AllTargets, Wait(a, target, req)
      PROVE  WaitsOnce' /\ Served'
  <2>1. /\ asked' = [asked EXCEPT ![a] = target]
        /\ waiting' = [waiting EXCEPT ![req] = Append(waiting[req], a)]
        /\ answers' = [answers EXCEPT ![a] = <<>>]
    BY <1>5 DEF Wait, Ask
  <2>2. \A b \in Apps : b # a => asked'[b] = asked[b] /\ answers'[b] = answers[b]
    BY <1>2, <2>1
  <2>3. \A b \in Apps, t \in AllTargets : t # req => (InList(b, t)' <=> InList(b, t))
    BY <1>2, <2>1 DEF InList
  <2>4. \A b \in Apps : InList(b, req)' <=> b = a \/ InList(b, req)
    <3>1. waiting'[req] = Append(waiting[req], a) /\ waiting[req] \in Seq(Apps)
      BY <1>2, <2>1
    <3>2. /\ Len(waiting'[req]) = Len(waiting[req]) + 1
          /\ \A i \in 1..Len(waiting[req]) : waiting'[req][i] = waiting[req][i]
          /\ waiting'[req][Len(waiting[req]) + 1] = a
          /\ Len(waiting[req]) \in Nat
      BY <3>1
    <3>3. \A i : i \in 1..Len(waiting[req]) + 1 <=>
                    i \in 1..Len(waiting[req]) \/ i = Len(waiting[req]) + 1
      BY <3>2
    <3> QED
      BY <3>2, <3>3 DEF InList
  <2>5. asked'[a] \notin {NoTarget, Ignored} /\ answers'[a] = <<>> /\ IsWaiting(a)'
    BY <1>2, <2>1, <2>4 DEF IsWaiting, InList
  <2>6. \A t \in AllTargets : InList(a, t)' => t = req
    BY <1>1, <2>3
  <2> QED
    BY <1>3, <2>2, <2>3, <2>4, <2>5, <2>6 DEF WaitsOnce, Served
<1>6. CASE asked' = [asked EXCEPT ![a] = Ignored] /\ UNCHANGED <<since, answers, waiting>>
  <2>1. \A b \in Apps, t \in AllTargets : InList(b, t)' <=> InList(b, t)
    BY <1>6 DEF InList
  <2>2. asked'[a] = Ignored /\ answers'[a] = <<>> /\ ~IsWaiting(a)'
    BY <1>1, <1>2, <1>6, <2>1 DEF IsWaiting, InList
  <2>3. \A b \in Apps : b # a => asked'[b] = asked[b] /\ answers'[b] = answers[b]
    BY <1>2, <1>6
  <2> QED
    BY <1>1, <1>3, <2>1, <2>2, <2>3 DEF WaitsOnce, Served
<1>7. \/ \E answer : Ask(a, target, <<answer>>) /\ UNCHANGED <<waiting, helper, peer>>
      \/ \E req \in AllTargets : Wait(a, target, req)
      \/ asked' = [asked EXCEPT ![a] = Ignored] /\ UNCHANGED <<since, answers, waiting>>
  BY RequestTargetsType DEF SelectionRequest, OnceInv
<1> QED
  BY <1>4, <1>5, <1>6, <1>7

LEMMA NextOnce ==
    ASSUME OnceInv, [Next]_vars
    PROVE  OnceInv'
<1>1. Types'
  BY NextTypes DEF OnceInv
<1> SUFFICES WaitsOnce' /\ Served'
  BY <1>1 DEF OnceInv
<1>2. CASE UNCHANGED <<waiting, asked, answers>>
  BY <1>2 DEF OnceInv, WaitsOnce, Served, IsWaiting, InList
<1>3. ASSUME NEW S \in SUBSET AllTargets, NEW empty, NEW copy, GotContents(S, empty, copy),
             asked' = asked
      PROVE  WaitsOnce' /\ Served'
  BY <1>3, GotContentsOnce
<1>4. ASSUME ProcessToken
      PROVE  WaitsOnce' /\ Served'
  <2> DEFINE packet == Head(inbox)
             offer == packet.shape.targets \cup packet.shape.data
             S == (IF offer # {} /\ packet.shape.claim THEN {"TARGETS"} ELSE {}) \cup TextTargets(packet)
  <2>1. asked' = asked
    BY <1>4 DEF ProcessToken
  <2>2. CASE ~enabled
    BY <1>2, <1>4, <2>1, <2>2 DEF ProcessToken
  <2>3. CASE enabled
    <3>1. packet \in Packets
      BY <1>4, TakeFirstTypes DEF ProcessToken, OnceInv
    <3>2. packet.shape.data \subseteq Targets
      BY <3>1, RequestsAssumption DEF Packets, TokenShapes
    <3>3. S \in SUBSET AllTargets
      BY <3>2 DEF TextTargets, AllTargets
    <3>4. GotContents(S, FALSE, packet.copy)
      BY <1>4, <2>3 DEF ProcessToken
    <3> HIDE DEF S, packet
    <3> QED
      BY <1>3, <2>1, <3>3, <3>4
  <2> QED
    BY <2>2, <2>3
<1>5. ASSUME ProcessContents
      PROVE  WaitsOnce' /\ Served'
  <2> DEFINE packet == Head(inbox)
  <2>1. asked' = asked /\ packet.id \in Ids
    BY <1>5, TakeFirstTypes DEF ProcessContents, OnceInv
  <2>2. CASE outstanding[packet.id] = NoTarget
    BY <1>2, <1>5, <2>1, <2>2 DEF ProcessContents
  <2>3. CASE outstanding[packet.id] # NoTarget
    <3>1. GotContents({outstanding[packet.id]}, packet.type = "contents-none", packet.copy)
      BY <1>5, <2>3 DEF ProcessContents
    <3>2. {outstanding[packet.id]} \in SUBSET AllTargets
      BY <2>1, <2>3 DEF OnceInv, Types, TypeOK
    <3> HIDE DEF packet
    <3> QED
      BY <1>3, <2>1, <3>1, <3>2
  <2> QED
    BY <2>2, <2>3
<1>6. ASSUME NEW i \in Ids, TimeoutRequest(i)
      PROVE  WaitsOnce' /\ Served'
  <2>1. asked' = asked
    BY <1>6 DEF TimeoutRequest
  <2>2. CASE outstanding[i] = NoTarget
    BY <1>2, <1>6, <2>1, <2>2 DEF TimeoutRequest
  <2>3. CASE outstanding[i] # NoTarget
    <3>1. GotContents({outstanding[i]}, TRUE, NoCopy)
      BY <1>6, <2>3 DEF TimeoutRequest
    <3>2. {outstanding[i]} \in SUBSET AllTargets
      BY <2>3 DEF OnceInv, Types, TypeOK
    <3> QED
      BY <1>3, <2>1, <3>1, <3>2
  <2> QED
    BY <2>2, <2>3
<1>7. ASSUME \/ LocalCopy \/ ProcessEnable \/ PeerGone \/ LastClientExited
             \/ \E shape \in Tokens : PeerToken(shape)
             \/ \E i \in Ids, empty \in BOOLEAN : PeerReply(i, empty)
             \/ \E i \in Ids : PeerNoReply(i)
             \/ \E on \in BOOLEAN : PeerEnable(on) \/ ClipboardStatus(on)
             \/ \E c \in Clients, on \in BOOLEAN : TakeClipboard(c, on)
             \/ UNCHANGED vars
      PROVE  UNCHANGED <<waiting, asked, answers>>
  BY <1>7 DEF LocalCopy, ProcessEnable, PeerGone, LastClientExited, ClientReset, PeerToken,
     PeerReply, PeerNoReply, PeerEnable, ClipboardStatus, TakeClipboard, apps, vars
<1>8. ASSUME NEW a \in Apps, NEW t \in AllTargets, SelectionRequest(a, t)
      PROVE  WaitsOnce' /\ Served'
  BY <1>8, SelectionRequestOnce
<1> QED
  BY <1>2, <1>4, <1>5, <1>6, <1>7, <1>8, Zenon DEF Next

\* Each application that has asked for the clipboard either waits, or has been answered
\* exactly once, or is blocklisted and gets no answer.
THEOREM AnsweredExactlyOnce == Spec => []AnsweredOnce
<1>1. Init => OnceInv
  <2> SUFFICES ASSUME Init PROVE WaitsOnce /\ Served
    BY InitTypes DEF OnceInv
  <2> QED
    BY DEF Init, WaitsOnce, Served, InList
<1>2. OnceInv /\ [Next]_vars => OnceInv'
  BY NextOnce
<1>3. OnceInv => AnsweredOnce
  <2> SUFFICES ASSUME OnceInv, NEW a \in Apps, asked[a] # NoTarget
               PROVE  IF IsWaiting(a) THEN asked[a] # Ignored /\ answers[a] = <<>>
                      ELSE Len(answers[a]) = IF asked[a] = Ignored THEN 0 ELSE 1
    BY DEF AnsweredOnce
  <2>1. CASE asked[a] = Ignored
    <3>1. answers[a] = <<>> /\ ~IsWaiting(a)
      BY <2>1 DEF OnceInv, WaitsOnce, IsWaiting, InList
    <3> QED
      BY <2>1, <3>1
  <2>2. CASE asked[a] # Ignored
    BY <2>2 DEF OnceInv, Served
  <2> QED
    BY <2>1, <2>2
<1> QED
  BY <1>1, <1>2, <1>3, PTL DEF Spec

----------------------------------------------------------------------------
(* Answers are fresh.                                                       *)

\* of two copies of a client
NotAfter(p, q) == p.client = q.client => p.copy <= q.copy

\* it has been made, or nobody has made it
Made(p) == IF p.client \in Clients THEN p.copy <= copies[p.client] ELSE p.copy = 0

\* it was copied before what arrives
Before(p) == Made(p) /\ \A i \in 1..Len(inbox) : NotAfter(p, inbox[i].copy)

\* what a client has copied arrives in the order of its copies
Arrivals ==
    \A i \in 1..Len(inbox) :
        Made(inbox[i].copy) /\ \A j \in 1..i : NotAfter(inbox[j].copy, inbox[i].copy)

\* What the proxy, or an application when it asked, has seen is not newer than what
\* arrives, and the data that the proxy keeps is that of the last token.
InOrder == source = token /\ Before(token) /\ (\A a \in Apps : Before(since[a])) /\ Arrivals

FreshInv == Types /\ InOrder /\ FreshAnswer

LEMMA CopyParts ==
    /\ \A p \in Copies : p.client \in Clients \cup {NoClient} /\ p.copy \in 0..MaxCopies
    /\ NoCopy.client = NoClient /\ NoCopy.copy = 0 /\ NoCopy \in Copies
    /\ \A p \in Packets : p.copy \in Copies
BY NoCopyType DEF Copies, Packets, NoCopy, Copy

\* an answer that is not from before
LEMMA FreshEnough ==
    ASSUME NEW t, NEW d, NEW copy \in Copies, NEW before \in Copies, NotAfter(before, copy)
    PROVE  ~Answer(t, d, copy, before).stale
<1>1. copy.copy \in Int /\ before.copy \in Int
  BY CopyParts
<1>2. ~(copy.client = before.client /\ copy.copy < before.copy)
  BY <1>1 DEF NotAfter
<1> QED
  BY <1>2, Zenon DEF Answer

LEMMA NoDataFresh == ~NoData.stale
<1>1. NotAfter(NoCopy, NoCopy) /\ NoCopy \in Copies
  BY CopyParts DEF NotAfter
<1> QED
  BY <1>1, FreshEnough DEF NoData

\* got_contents gives what is not older than what an application had seen
LEMMA GotContentsFresh ==
    ASSUME Types, FreshAnswer, NEW S \in SUBSET AllTargets, NEW empty \in BOOLEAN,
           NEW copy \in Copies, GotContents(S, empty, copy),
           \A a \in Apps : NotAfter(since[a], copy) \/ empty
    PROVE  FreshAnswer' /\ \A a \in Apps : since'[a] = since[a] \/ since'[a] = NoCopy
<1>1. /\ waiting \in [AllTargets -> Seq(Apps)] /\ since \in [Apps -> Copies]
      /\ asked \in [Apps -> AskedTargets] /\ answers \in [Apps -> Seq(Answers)]
  BY DEF Types, TypeOK
<1>2. answers' \in [Apps -> Seq(Answers)]
  BY <1>1, GotContentsTypes
<1>3. \A a \in Apps : since'[a] = since[a] \/ since'[a] = NoCopy
  BY DEF GotContents
<1> DEFINE t(a) == CHOOSE t \in WaitsFor(a, S) : TRUE
           i(a) == CHOOSE i \in 1..Len(waiting[t(a)]) : waiting[t(a)][i] = a
           d(a) == DtypeOf(waiting[t(a)], i(a), t(a))
           given(a) == IF empty THEN NoData ELSE Answer(t(a), d(a), copy, since[a])
<1>4. \A a \in Apps :
        answers'[a] = IF WaitsFor(a, S) = {} THEN answers[a] ELSE Append(answers[a], given(a))
  BY DEF GotContents
<1> HIDE DEF t, d
<1>5. \A a \in Apps : ~given(a).stale
  BY <1>1, FreshEnough, NoDataFresh
<1> HIDE DEF given
<1>6. ASSUME NEW a \in Apps
      PROVE  \A k \in 1..Len(answers'[a]) : ~answers'[a][k].stale
  <2>1. answers[a] \in Seq(Answers) /\ \A k \in 1..Len(answers[a]) : ~answers[a][k].stale
    BY <1>1 DEF FreshAnswer
  <2>2. CASE answers'[a] = answers[a]
    BY <2>1, <2>2
  <2>3. CASE answers'[a] = Append(answers[a], given(a))
    <3> DEFINE r == Append(answers[a], given(a))
    <3>1. /\ Len(answers[a]) \in Nat /\ Len(r) = Len(answers[a]) + 1
          /\ r[Len(answers[a]) + 1] = given(a)
          /\ \A k \in 1..Len(answers[a]) : r[k] = answers[a][k]
      BY <2>1
    <3> HIDE DEF r
    <3>2. \A k \in 1..Len(r) : k \in 1..Len(answers[a]) \/ k = Len(answers[a]) + 1
      BY <3>1
    <3>3. \A k \in 1..Len(r) : ~r[k].stale
      BY <1>5, <2>1, <3>1, <3>2
    <3> QED
      BY <2>3, <3>3 DEF r
  <2> QED
    BY <1>4, <2>2, <2>3
<1> QED
  BY <1>3, <1>6 DEF FreshAnswer

\* what may arrive: the last copy of the client, or nothing that was copied
Latest(p) ==
    \/ p = NoCopy
    \/ p.client \in Clients /\ p.copy = copies'[p.client]

Comes ==
    \/ inbox' = inbox /\ copies' = copies
    \/ inbox # <<>> /\ inbox' = Tail(inbox) /\ copies' = copies
    \/ /\ \A c \in Clients : copies[c] <= copies'[c]
       /\ \/ inbox' = inbox
          \/ \E packet \in Packets : Latest(packet.copy) /\ inbox' = Append(inbox, packet)

LEMMA StillMade ==
    ASSUME Types, Types', Comes, NEW p \in Copies, Made(p)
    PROVE  Made(p)'
<1>1. \A c \in Clients : copies[c] \in Int /\ copies'[c] \in Int /\ copies[c] <= copies'[c]
  BY DEF Types, TypeOK, Comes
<1>2. p.copy \in Int
  BY CopyParts
<1> QED
  BY <1>1, <1>2 DEF Made

LEMMA LatestMade ==
    ASSUME Types, Types', Comes, NEW p \in Copies, Latest(p)
    PROVE  Made(p)' /\ \A q \in Copies : Made(q) => NotAfter(q, p)
<1>1. \A c \in Clients : copies[c] \in Int /\ copies'[c] \in Int /\ copies[c] <= copies'[c]
  BY DEF Types, TypeOK, Comes
<1>2. p.copy \in Int /\ \A q \in Copies : q.copy \in Int
  BY CopyParts
<1>3. NoClient \notin Clients
  BY RequestsAssumption
<1>4. CASE p = NoCopy
  BY <1>2, <1>3, <1>4, CopyParts DEF Made, NotAfter
<1>5. CASE p.client \in Clients /\ p.copy = copies'[p.client]
  BY <1>1, <1>2, <1>5 DEF Made, NotAfter
<1> QED
  BY <1>4, <1>5 DEF Latest

\* the packets after a step are those before it, and the latest
LEMMA Arrived ==
    ASSUME Types, Types', Comes
    PROVE  \E k \in {0, 1} : \A i \in 1..Len(inbox') :
              \/ i + k \in 1..Len(inbox) /\ inbox'[i] = inbox[i + k]
              \/ i = Len(inbox') /\ inbox'[i] \in Packets /\ Latest(inbox'[i].copy)
<1>1. inbox \in Seq(Packets) /\ inbox' \in Seq(Packets)
  BY DEF Types, TypeOK
<1>2. CASE inbox' = inbox
  <2>1. \A i \in 1..Len(inbox') : i + 0 \in 1..Len(inbox) /\ inbox'[i] = inbox[i + 0]
    BY <1>1, <1>2
  <2> QED
    BY <2>1
<1>3. CASE inbox # <<>> /\ inbox' = Tail(inbox)
  <2>1. /\ Len(inbox) \in Nat /\ Len(inbox') = Len(inbox) - 1
        /\ \A i \in 1..Len(inbox') : inbox'[i] = inbox[i + 1]
    BY <1>1, <1>3
  <2>2. \A i \in 1..Len(inbox') : i + 1 \in 1..Len(inbox)
    BY <2>1
  <2> QED
    BY <2>1, <2>2
<1>4. CASE \E packet \in Packets : Latest(packet.copy) /\ inbox' = Append(inbox, packet)
  <2>1. PICK packet \in Packets : Latest(packet.copy) /\ inbox' = Append(inbox, packet)
    BY <1>4
  <2>2. /\ Len(inbox) \in Nat /\ Len(inbox') = Len(inbox) + 1
        /\ inbox'[Len(inbox')] = packet /\ \A i \in 1..Len(inbox) : inbox'[i] = inbox[i]
    BY <1>1, <2>1
  <2>3. ASSUME NEW i \in 1..Len(inbox')
        PROVE  \/ i + 0 \in 1..Len(inbox) /\ inbox'[i] = inbox[i + 0]
               \/ i = Len(inbox') /\ inbox'[i] \in Packets /\ Latest(inbox'[i].copy)
    BY <2>1, <2>2
  <2> QED
    BY <2>3
<1> QED
  BY <1>2, <1>3, <1>4 DEF Comes

LEMMA StillBefore ==
    ASSUME Types, Types', Comes, NEW p \in Copies, Before(p)
    PROVE  Before(p)'
<1>1. Made(p) /\ Made(p)'
  BY StillMade DEF Before
<1>2. ASSUME NEW i \in 1..Len(inbox')
      PROVE  NotAfter(p, inbox'[i].copy)
  <2>1. CASE \E j \in 1..Len(inbox) : inbox'[i] = inbox[j]
    BY <2>1 DEF Before
  <2>2. CASE inbox'[i] \in Packets /\ Latest(inbox'[i].copy)
    BY <1>1, <2>2, LatestMade, CopyParts
  <2> QED
    BY <2>1, <2>2, Arrived
<1> QED
  BY <1>1, <1>2 DEF Before

LEMMA StillArrivals ==
    ASSUME Types, Types', Comes, Arrivals
    PROVE  Arrivals'
<1>1. inbox \in Seq(Packets) /\ inbox' \in Seq(Packets)
  BY DEF Types, TypeOK
<1>2. Len(inbox) \in Nat /\ Len(inbox') \in Nat
  BY <1>1
<1>3. PICK k \in {0, 1} : \A i \in 1..Len(inbox') :
              \/ i + k \in 1..Len(inbox) /\ inbox'[i] = inbox[i + k]
              \/ i = Len(inbox') /\ inbox'[i] \in Packets /\ Latest(inbox'[i].copy)
  BY Arrived
<1>4. \A i \in 1..Len(inbox) : inbox[i].copy \in Copies
  BY <1>1, CopyParts
<1>5. ASSUME NEW i \in 1..Len(inbox'), NEW p, p = inbox'[i].copy
      PROVE  p \in Copies /\ Made(p)' /\ \A j \in 1..i : NotAfter(inbox'[j].copy, p)
  <2>1. CASE i + k \in 1..Len(inbox) /\ inbox'[i] = inbox[i + k]
    <3>1. p \in Copies /\ Made(p)'
      BY <1>4, <1>5, <2>1, StillMade DEF Arrivals
    <3>2. ASSUME NEW j \in 1..i
          PROVE  NotAfter(inbox'[j].copy, p)
      <4>1. j + k \in 1..(i + k) /\ j \in 1..Len(inbox')
        BY <1>2
      <4>2. CASE inbox'[j] = inbox[j + k]
        BY <1>5, <2>1, <4>1, <4>2 DEF Arrivals
      <4>3. CASE j = Len(inbox')
        <5>1. j = i /\ p.copy \in Int
          BY <1>2, <3>1, <4>3, CopyParts
        <5> QED
          BY <1>5, <5>1 DEF NotAfter
      <4> QED
        BY <1>3, <4>1, <4>2, <4>3
    <3> QED
      BY <3>1, <3>2
  <2>2. CASE i = Len(inbox') /\ inbox'[i] \in Packets /\ Latest(inbox'[i].copy)
    <3>1. p \in Copies /\ Latest(p)
      BY <1>5, <2>2, CopyParts
    <3>2. Made(p)' /\ \A q \in Copies : Made(q) => NotAfter(q, p)
      BY <3>1, LatestMade
    <3>3. ASSUME NEW j \in 1..i
          PROVE  NotAfter(inbox'[j].copy, p)
      <4>1. j \in 1..Len(inbox')
        BY <1>2
      <4>2. CASE j + k \in 1..Len(inbox) /\ inbox'[j] = inbox[j + k]
        BY <1>4, <3>2, <4>2 DEF Arrivals
      <4>3. CASE j = Len(inbox')
        <5>1. p.copy \in Int
          BY <3>1, CopyParts
        <5> QED
          BY <1>5, <2>2, <4>3, <5>1 DEF NotAfter
      <4> QED
        BY <1>3, <4>1, <4>2, <4>3
    <3> QED
      BY <3>1, <3>2, <3>3
  <2> QED
    BY <1>3, <2>1, <2>2
<1>6. \A i \in 1..Len(inbox') : \A p : p = inbox'[i].copy =>
         Made(p)' /\ \A j \in 1..i : NotAfter(inbox'[j].copy, p)
  BY <1>5
<1> QED
  BY <1>6 DEF Arrivals, Made

\* the first packet, when it is taken
LEMMA HeadBefore ==
    ASSUME Types, Types', Arrivals, inbox # <<>>, inbox' = Tail(inbox), copies' = copies,
           NEW p, p = Head(inbox).copy
    PROVE  p \in Copies /\ Before(p)'
<1>1. inbox \in Seq(Packets)
  BY DEF Types, TypeOK
<1>2. /\ Len(inbox) \in Nat \ {0} /\ Len(inbox') = Len(inbox) - 1
      /\ Head(inbox) = inbox[1] /\ Head(inbox) \in Packets
      /\ \A i \in 1..Len(inbox') : inbox'[i] = inbox[i + 1]
  BY <1>1
<1>3. Made(p)'
  BY <1>2 DEF Arrivals, Made
<1>4. ASSUME NEW i \in 1..Len(inbox')
      PROVE  NotAfter(p, inbox'[i].copy)
  <2>1. i + 1 \in 1..Len(inbox) /\ 1 \in 1..(i + 1)
    BY <1>2
  <2> QED
    BY <1>2, <2>1 DEF Arrivals
<1> QED
  BY <1>2, <1>3, <1>4, CopyParts DEF Before

\* nothing that anybody has seen is from before, after a step that sees nothing new
LEMMA SeenInOrder ==
    ASSUME Types, Types', InOrder, Comes, source' = token', NEW fresh,
           fresh = token', Before(fresh)',
           \A a \in Apps : since'[a] \in {since[a], NoCopy, fresh}
    PROVE  InOrder'
<1>1. Before(NoCopy)'
  <2>1. NoClient \notin Clients
    BY RequestsAssumption
  <2>2. \A i \in 1..Len(inbox') : inbox'[i].copy \in Copies
    <3>1. inbox' \in Seq(Packets)
      BY DEF Types, TypeOK
    <3> QED
      BY <3>1, CopyParts
  <2>3. \A p \in Copies : NotAfter(NoCopy, p)
    <3>1. \A p \in Copies : p.copy \in 0..MaxCopies
      BY CopyParts
    <3>2. NoCopy.copy = 0
      BY CopyParts
    <3> QED
      BY <3>1, <3>2 DEF NotAfter
  <2> QED
    BY <2>1, <2>2, <2>3, CopyParts DEF Before, Made
<1>2. ASSUME NEW a \in Apps, NEW p, p = since'[a]
      PROVE  Before(p)'
  <2>1. since[a] \in Copies /\ Before(since[a])
    BY DEF Types, TypeOK, InOrder
  <2>2. CASE p = since[a]
    <3>1. p \in Copies /\ Before(p)
      BY <2>1, <2>2
    <3> QED
      BY <3>1, StillBefore
  <2>3. p \in {since[a], NoCopy, fresh}
    BY <1>2
  <2> QED
    BY <1>1, <2>2, <2>3
<1>3. \A p : \A a \in Apps : p = since'[a] => Before(p)'
  BY <1>2
<1>4. \A p : p = token' => Before(p)'
  OBVIOUS
<1>5. Arrivals'
  BY StillArrivals DEF InOrder
<1> QED
  BY <1>3, <1>4, <1>5 DEF InOrder, Before, Made

\* ... and the token stays
LEMMA KeptInOrder ==
    ASSUME Types, Types', InOrder, Comes, UNCHANGED <<source, token>>,
           \A a \in Apps : since'[a] \in {since[a], NoCopy, token}
    PROVE  InOrder'
<1>1. PICK p : p = token
  OBVIOUS
<1>2. p \in Copies /\ Before(p)
  BY <1>1 DEF Types, TypeOK, InOrder
<1>3. Before(p)'
  BY <1>2, StillBefore
<1> QED
  BY <1>1, <1>3, SeenInOrder DEF InOrder

LEMMA SelectionRequestFresh ==
    ASSUME FreshInv, Types', NEW a \in Apps, NEW target \in AllTargets, SelectionRequest(a, target)
    PROVE  InOrder' /\ FreshAnswer'
<1>1. /\ answers \in [Apps -> Seq(Answers)] /\ since \in [Apps -> Copies]
      /\ token \in Copies /\ source = token
  BY DEF FreshInv, Types, TypeOK, InOrder
<1>2. /\ UNCHANGED <<source, token, inbox, copies>>
      /\ \A b \in Apps : since'[b] \in {since[b], NoCopy, token}
  <2>1. UNCHANGED <<source, token, inbox, copies>>
    BY DEF SelectionRequest, proxy
  <2>2. since' = since \/ \E response : Ask(a, target, response)
    BY DEF SelectionRequest, Wait
  <2>3. since' = since \/ since' = [since EXCEPT ![a] = token]
    BY <2>2 DEF Ask
  <2> QED
    BY <1>1, <2>1, <2>3
<1>3. InOrder'
  BY <1>2, KeptInOrder DEF FreshInv, Comes
<1>4. NotAfter(token, token)
  <2>1. token.copy \in Int
    BY <1>1, CopyParts
  <2> QED
    BY <2>1 DEF NotAfter
<1>5. answers' = answers \/
      \E response : /\ answers' = [answers EXCEPT ![a] = response]
                    /\ \/ response = <<>>
                       \/ \E answer : response = <<answer>> /\ ~answer.stale
  <2>1. \A t, d : ~Answer(t, d, token, token).stale
    BY <1>1, <1>4, FreshEnough
  <2>2. CASE Ask(a, target, <<NoData>>)
    BY <2>2, NoDataFresh DEF Ask
  <2>3. CASE Ask(a, target, <<Answer(target, target, token, token)>>)
    BY <2>1, <2>3 DEF Ask
  <2>4. CASE \E req : Ask(a, target, <<Answer(req, req, source, token)>>)
    BY <1>1, <2>1, <2>4 DEF Ask
  <2>5. CASE \E req : Wait(a, target, req)
    BY <2>5 DEF Wait, Ask
  <2> QED
    BY <2>2, <2>3, <2>4, <2>5, Zenon DEF SelectionRequest
<1>6. ASSUME NEW b \in Apps, NEW i \in 1..Len(answers'[b])
      PROVE  ~answers'[b][i].stale
  <2>1. CASE answers'[b] = answers[b]
    BY <1>6, <2>1 DEF FreshInv, FreshAnswer
  <2>2. CASE answers'[b] = <<>>
    BY <1>6, <2>2
  <2>3. CASE \E answer : answers'[b] = <<answer>> /\ ~answer.stale
    BY <1>6, <2>3
  <2> QED
    BY <1>1, <1>5, <2>1, <2>2, <2>3
<1> QED
  BY <1>3, <1>6 DEF FreshAnswer

LEMMA NextFresh ==
    ASSUME FreshInv, [Next]_vars
    PROVE  FreshInv'
<1>1. Types /\ Types' /\ InOrder /\ FreshAnswer
  BY NextTypes DEF FreshInv
<1> SUFFICES InOrder' /\ FreshAnswer'
  BY <1>1 DEF FreshInv
<1>2. /\ since \in [Apps -> Copies] /\ inbox \in Seq(Packets) /\ token \in Copies
      /\ answers \in [Apps -> Seq(Answers)]
  BY <1>1 DEF Types, TypeOK
<1>3. ASSUME UNCHANGED <<source, token, since, answers>>, Comes
      PROVE  InOrder' /\ FreshAnswer'
  BY <1>1, <1>3, KeptInOrder DEF FreshAnswer
<1>4. ASSUME NEW a \in Apps, NEW t \in AllTargets, SelectionRequest(a, t)
      PROVE  InOrder' /\ FreshAnswer'
  BY <1>1, <1>4, SelectionRequestFresh
<1>5. ASSUME NEW shape \in Tokens, PeerToken(shape)
      PROVE  InOrder' /\ FreshAnswer'
  <2>1. PICK n \in 1..MaxCopies : /\ \A c \in Clients : copies[c] < n
                                  /\ copies' = [copies EXCEPT ![client] = n]
    BY <1>5 DEF PeerToken
  <2>2. client \in Clients /\ copies \in [Clients -> 0..MaxCopies]
    BY <1>1, <1>5 DEF PeerToken, Types, TypeOK
  <2>3. \A c \in Clients : copies[c] <= copies'[c]
    BY <2>1, <2>2
  <2> DEFINE packet == Packet("token", shape, 0, Copy(client, copies'[client]))
  <2>4. Latest(packet.copy)
    BY <2>2 DEF Latest, Packet, Copy
  <2>5. inbox' = inbox \/ inbox' = Append(inbox, packet)
    BY <1>5 DEF PeerToken, Arrive
  <2>6. packet \in Packets
    <3>1. shape \in TokenShapes /\ 0 \in 0..MaxIds
      BY RequestsAssumption
    <3>2. copies'[client] \in 0..MaxCopies
      BY <2>1, <2>2, RequestsAssumption
    <3> QED
      BY <2>2, <3>1, <3>2 DEF Packet, Packets, Copies, Copy
  <2> HIDE DEF packet
  <2>7. Comes
    BY <2>3, <2>4, <2>5, <2>6 DEF Comes
  <2>8. UNCHANGED <<source, token, since, answers>>
    BY <1>5 DEF PeerToken, proxy, apps
  <2> QED
    BY <1>3, <2>7, <2>8
<1>6. ASSUME NEW i \in Ids, NEW empty \in BOOLEAN, PeerReply(i, empty)
      PROVE  InOrder' /\ FreshAnswer'
  <2>1. client \in Clients /\ copies' = copies /\ copies \in [Clients -> 0..MaxCopies]
    BY <1>1, <1>6 DEF PeerReply, Types, TypeOK
  <2> DEFINE packet == Packet(IF empty THEN "contents-none" ELSE "contents", NoToken, i,
                              Copy(client, copies[client]))
  <2>2. Latest(packet.copy)
    BY <2>1 DEF Latest, Packet, Copy
  <2>3. inbox' = inbox \/ inbox' = Append(inbox, packet)
    BY <1>6 DEF PeerReply, Arrive
  <2>4. packet \in Packets
    <3>1. NoToken \in TokenShapes /\ i \in 0..MaxIds
      BY RequestsAssumption DEF NoToken, TokenShapes, Ids
    <3> QED
      BY <2>1, <3>1 DEF Packet, Packets, Copies, Copy
  <2> HIDE DEF packet
  <2>5. Comes
    <3>1. \A c \in Clients : copies[c] <= copies'[c]
      BY <2>1
    <3> QED
      BY <2>2, <2>3, <2>4, <3>1 DEF Comes
  <2>6. UNCHANGED <<source, token, since, answers>>
    BY <1>6 DEF PeerReply, proxy, apps
  <2> QED
    BY <1>3, <2>5, <2>6
<1>7. ASSUME NEW on \in BOOLEAN, PeerEnable(on)
      PROVE  InOrder' /\ FreshAnswer'
  <2>1. copies' = copies /\ copies \in [Clients -> 0..MaxCopies]
    BY <1>1, <1>7 DEF PeerEnable, Types, TypeOK
  <2> DEFINE packet == Packet("enable", [NoToken EXCEPT !.claim = on], 0, NoCopy)
  <2>2. Latest(packet.copy)
    BY DEF Latest, Packet
  <2>3. inbox' = inbox \/ inbox' = Append(inbox, packet)
    BY <1>7 DEF PeerEnable, Arrive
  <2>4. packet \in Packets
    <3>1. [NoToken EXCEPT !.claim = on] \in TokenShapes /\ 0 \in 0..MaxIds
      <4>1. 0 \in 0..MaxIds
        BY RequestsAssumption
      <4>2. [NoToken EXCEPT !.claim = on] \in TokenShapes
        BY DEF NoToken, TokenShapes
      <4> QED
        BY <4>1, <4>2
    <3> QED
      BY <3>1, NoCopyType DEF Packet, Packets
  <2> HIDE DEF packet
  <2>5. Comes
    <3>1. \A c \in Clients : copies[c] <= copies'[c]
      BY <2>1
    <3> QED
      BY <2>2, <2>3, <2>4, <3>1 DEF Comes
  <2>6. UNCHANGED <<source, token, since, answers>>
    BY <1>7 DEF PeerEnable, proxy, apps
  <2> QED
    BY <1>3, <2>5, <2>6
<1>8. ASSUME ProcessToken
      PROVE  InOrder' /\ FreshAnswer'
  <2> DEFINE offer == Head(inbox).shape.targets \cup Head(inbox).shape.data
             S == (IF offer # {} /\ Head(inbox).shape.claim THEN {"TARGETS"} ELSE {})
                    \cup TextTargets(Head(inbox))
  <2>1. inbox # <<>> /\ inbox' = Tail(inbox) /\ copies' = copies /\ Comes
    BY <1>8 DEF ProcessToken, Comes
  <2>2. PICK p : p = Head(inbox).copy
    OBVIOUS
  <2>3. p \in Copies /\ Before(p)'
    BY <1>1, <2>1, <2>2, HeadBefore DEF InOrder
  <2>4. CASE ~enabled
    BY <1>3, <1>8, <2>1, <2>4 DEF ProcessToken
  <2>5. CASE enabled
    <3>1. /\ token' = p /\ source' = p /\ GotContents(S, FALSE, p)
      BY <1>8, <2>2, <2>5 DEF ProcessToken
    <3>2. Head(inbox) \in Packets
      BY <1>1, <2>1, TakeFirstTypes
    <3>3. S \in SUBSET AllTargets
      <4>1. Head(inbox).shape.data \subseteq Targets
        BY <3>2, RequestsAssumption DEF Packets, TokenShapes
      <4> QED
        BY <4>1 DEF TextTargets, AllTargets
    <3> HIDE DEF S
    <3>4. \A a \in Apps : NotAfter(since[a], p)
      <4>1. 1 \in 1..Len(inbox) /\ Head(inbox) = inbox[1]
        BY <1>2, <2>1
      <4> QED
        BY <1>1, <2>2, <4>1 DEF InOrder, Before
    <3>5. FreshAnswer' /\ \A a \in Apps : since'[a] = since[a] \/ since'[a] = NoCopy
      BY <1>1, <2>3, <3>1, <3>3, <3>4, GotContentsFresh
    <3> QED
      BY <1>1, <2>1, <2>3, <3>1, <3>5, SeenInOrder
  <2> QED
    BY <2>4, <2>5
<1>9. ASSUME ProcessContents
      PROVE  InOrder' /\ FreshAnswer'
  <2> DEFINE target == outstanding[Head(inbox).id]
  <2>1. /\ inbox # <<>> /\ inbox' = Tail(inbox) /\ copies' = copies /\ Comes
        /\ UNCHANGED <<source, token>> /\ Head(inbox).type \in {"contents", "contents-none"}
    BY <1>9 DEF ProcessContents, Comes
  <2>2. PICK p : p = Head(inbox).copy
    OBVIOUS
  <2>3. p \in Copies /\ Head(inbox).id \in Ids
    <3>1. p \in Copies
      BY <1>1, <2>1, <2>2, HeadBefore DEF InOrder
    <3> QED
      BY <1>1, <2>1, <3>1, TakeFirstTypes
  <2>4. CASE target = NoTarget
    BY <1>3, <1>9, <2>1, <2>4 DEF ProcessContents
  <2>5. CASE target # NoTarget
    <3>1. PICK empty \in BOOLEAN : GotContents({target}, empty, p)
      BY <1>9, <2>2, <2>5 DEF ProcessContents
    <3>2. {target} \in SUBSET AllTargets
      BY <1>1, <2>3, <2>5 DEF Types, TypeOK
    <3> HIDE DEF target
    <3>3. \A a \in Apps : NotAfter(since[a], p)
      <4>1. 1 \in 1..Len(inbox) /\ Head(inbox) = inbox[1]
        BY <1>2, <2>1
      <4> QED
        BY <1>1, <2>2, <4>1 DEF InOrder, Before
    <3>4. FreshAnswer' /\ \A a \in Apps : since'[a] = since[a] \/ since'[a] = NoCopy
      BY <1>1, <2>3, <3>1, <3>2, <3>3, GotContentsFresh
    <3> QED
      BY <1>1, <2>1, <3>4, KeptInOrder
  <2> QED
    BY <2>4, <2>5
<1>10. ASSUME NEW i \in Ids, TimeoutRequest(i)
       PROVE  InOrder' /\ FreshAnswer'
  <2>1. UNCHANGED <<source, token>> /\ Comes
    BY <1>10 DEF TimeoutRequest, proxy, network, Comes
  <2>2. CASE outstanding[i] = NoTarget
    BY <1>3, <1>10, <2>1, <2>2 DEF TimeoutRequest
  <2>3. CASE outstanding[i] # NoTarget
    <3>1. GotContents({outstanding[i]}, TRUE, NoCopy)
      BY <1>10, <2>3 DEF TimeoutRequest
    <3>2. {outstanding[i]} \in SUBSET AllTargets
      BY <1>1, <2>3 DEF Types, TypeOK
    <3>3. FreshAnswer' /\ \A a \in Apps : since'[a] = since[a] \/ since'[a] = NoCopy
      BY <1>1, <3>1, <3>2, NoCopyType, GotContentsFresh
    <3> QED
      BY <1>1, <2>1, <3>3, KeptInOrder
  <2> QED
    BY <2>2, <2>3
<1>11. CASE \/ LocalCopy \/ PeerGone \/ LastClientExited
            \/ \E i \in Ids : PeerNoReply(i)
            \/ \E on \in BOOLEAN : ClipboardStatus(on)
            \/ \E c \in Clients, on \in BOOLEAN : TakeClipboard(c, on)
            \/ UNCHANGED vars
  <2>1. UNCHANGED <<source, token, since, answers, inbox, copies>>
    BY <1>11 DEF LocalCopy, PeerGone, LastClientExited, ClientReset, PeerNoReply, ClipboardStatus,
       TakeClipboard, apps, network, proxy, vars
  <2> QED
    BY <1>3, <2>1 DEF Comes
<1>12. CASE ProcessEnable
  <2>1. UNCHANGED <<source, token, since, answers>> /\ Comes
    BY <1>12 DEF ProcessEnable, apps, Comes
  <2> QED
    BY <1>3, <2>1
<1> QED
  BY <1>4, <1>5, <1>6, <1>7, <1>8, <1>9, <1>10, <1>11, <1>12, Zenon DEF Next

\* What an application is given is no older than the token that was the last one when it
\* asked, if both are of the same client, though it may have waited for a request that
\* was sent long before, and replies come late.
THEOREM AnswersAreFresh == Spec => []FreshAnswer
<1>1. Init => FreshInv
  <2> SUFFICES ASSUME Init PROVE FreshInv
    OBVIOUS
  <2>1. /\ source = NoCopy /\ token = NoCopy /\ inbox = <<>>
        /\ since = [a \in Apps |-> NoCopy] /\ answers = [a \in Apps |-> <<>>]
    BY DEF Init
  <2>2. Made(NoCopy)
    BY CopyParts, RequestsAssumption DEF Made
  <2>3. InOrder
    BY <2>1, <2>2 DEF InOrder, Before, Arrivals
  <2>4. FreshAnswer
    BY <2>1 DEF FreshAnswer
  <2> QED
    BY <2>3, <2>4, InitTypes DEF FreshInv
<1>2. FreshInv /\ [Next]_vars => FreshInv'
  BY NextFresh
<1>3. FreshInv => FreshAnswer
  BY DEF FreshInv
<1> QED
  BY <1>1, <1>2, <1>3, PTL DEF Spec
=============================================================================
