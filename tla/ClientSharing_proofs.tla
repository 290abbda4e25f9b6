------------------------ MODULE ClientSharing_proofs ------------------------
(***************************************************************************)
(* Proofs about the connections of a server: the fence around the owner's  *)
(* projection and whose projection is connected, for every number of       *)
(* connections, every set of hellos and every limit; and the input of a    *)
(* connection, for every stream, every way to cut it and every limit.      *)
(***************************************************************************)
EXTENDS ClientSharing, SocketInput, SequenceTheorems, FiniteSetTheorems, TLAPS

\* the types that the fence depends on
FenceTypes ==
    /\ owner \in Projections
    /\ retired \in Seq(Projections)
    /\ owners \in Seq(Projections \ {NoUuid})
    /\ caps \in [Conns -> AllCaps]

\* the retired projections are the latest owners before the present one
FenceRemembers ==
    /\ owners = <<>> => owner = NoUuid /\ retired = <<>>
    /\ owners # <<>> =>
          /\ owner = owners[Len(owners)]
          /\ Len(retired) = IF Len(owners) - 1 < Limit THEN Len(owners) - 1 ELSE Limit
          /\ \A i \in 1..Len(retired) : retired[i] = owners[Len(owners) - 1 - Len(retired) + i]

FenceInv == FenceTypes /\ FenceSound /\ FenceRemembers /\ NeverReclaimed

----------------------------------------------------------------------------
(* What a step does to the fence.                                           *)

\* The toggles and the hellos keep the capabilities what they are.
LEMMA CapsKept ==
    ASSUME caps \in [Conns -> AllCaps], [Next]_vars
    PROVE  caps' \in [Conns -> AllCaps]
<1>1. ASSUME NEW c \in Conns, AuthVerified(c)
      PROVE  caps' \in [Conns -> AllCaps]
  BY <1>1, SharingAssumption DEF AuthVerified
<1>2. ASSUME NEW c \in Conns, SharingToggle(c) \/ LockToggle(c)
      PROVE  caps' \in [Conns -> AllCaps]
  <2>1. PICK v \in BOOLEAN : \/ caps' = [caps EXCEPT ![c].share = v]
                             \/ caps' = [caps EXCEPT ![c].lock = v]
    BY <1>2 DEF SharingToggle, LockToggle
  <2>2. caps[c] \in AllCaps
    OBVIOUS
  <2>3. [caps[c] EXCEPT !.share = v] \in AllCaps /\ [caps[c] EXCEPT !.lock = v] \in AllCaps
    BY <2>2 DEF AllCaps
  <2> QED
    BY <2>1, <2>3
<1>3. CASE UNCHANGED caps
  BY <1>3
<1> QED
  BY <1>1, <1>2, <1>3 DEF Next, vars, Close, ConnectionLost, LastClientExited,
     ClientDisconnect, HelloRejected, HelloDetach, HelloRefused, HelloAccepted, Register, HelloUI

\* A step leaves the fence alone, or accepts a projection that is not retired.
LEMMA FenceStep ==
    ASSUME [Next]_vars
    PROVE  \/ UNCHANGED fence
           \/ \E c \in Conns : ~is_retired(c) /\ accept(caps[c].projection)
<1>1. ASSUME NEW c \in Conns, HelloAccepted(c)
      PROVE  UNCHANGED fence \/ (~is_retired(c) /\ accept(caps[c].projection))
  BY <1>1 DEF HelloAccepted, Rejected
<1> QED
  BY <1>1 DEF Next, vars, AuthVerified, Close, ConnectionLost, LastClientExited,
     ClientDisconnect, HelloRejected, HelloDetach, HelloRefused, Register, HelloUI,
     SharingToggle, LockToggle

\* What the loop of accept() keeps of the list, and what it discards: with one
\* projection too many, d is 1.
LEMMA NewestFacts ==
    ASSUME NEW S, NEW list \in Seq(S), Limit > 0, Len(list) <= Limit + 1
    PROVE  \E d \in {0, 1} :
              /\ d = 0 <=> Len(list) <= Limit
              /\ Newest(list) \in Seq(S)
              /\ Len(Newest(list)) = Len(list) - d
              /\ \A i \in 1..(Len(list) - d) : Newest(list)[i] = list[i + d]
              /\ Oldest(list) = {list[i] : i \in 1..d}
<1> USE SharingAssumption
<1>1. CASE Len(list) <= Limit
  <2>1. Newest(list) = list
    BY <1>1 DEF Newest
  <2>2. 1..(Len(list) - Limit) = {} /\ 1..0 = {}
    BY <1>1
  <2>3. Oldest(list) = {list[i] : i \in 1..0}
    BY <2>2 DEF Oldest
  <2>4. \A i \in 1..(Len(list) - 0) : i + 0 = i
    OBVIOUS
  <2>5. Len(list) - 0 = Len(list)
    OBVIOUS
  <2> QED
    BY <1>1, <2>1, <2>3, <2>4, <2>5
<1>2. CASE Len(list) = Limit + 1
  <2>1. Newest(list) = SubSeq(list, 2, Len(list))
    BY <1>2 DEF Newest
  <2>2. Len(list) - Limit = 1
    BY <1>2
  <2>3. Oldest(list) = {list[i] : i \in 1..1}
    BY <2>2 DEF Oldest
  <2>4. /\ Newest(list) \in Seq(S) /\ Len(Newest(list)) = Len(list) - 1
        /\ \A i \in 1..(Len(list) - 1) : Newest(list)[i] = list[i + 1]
    BY <1>2, <2>1
  <2> QED
    BY <1>2, <2>3, <2>4
<1> QED
  BY <1>1, <1>2

\* The heart of the proof: accepting a projection that is not retired keeps the
\* list and the set in step, and the latest owners in the list.
LEMMA AcceptKeeps ==
    ASSUME FenceInv, NEW c \in Conns, ~is_retired(c), accept(caps[c].projection),
           caps' \in [Conns -> AllCaps]
    PROVE  FenceInv'
<1> DEFINE uuid == caps[c].projection
           list == Append(retired, owner)
<1> USE SharingAssumption
<1>1. uuid \in Projections
  BY DEF FenceInv, FenceTypes, AllCaps
<1>2. CASE UNCHANGED fence
  BY <1>2 DEF FenceInv, FenceTypes, FenceSound, FenceRemembers, NeverReclaimed, fence
<1>3. CASE uuid # NoUuid /\ uuid # owner
  <2>1. /\ owner' = uuid
        /\ owners' = Append(owners, uuid)
        /\ IF owner = NoUuid \/ Limit = 0 THEN UNCHANGED <<retired, retiredSet>>
           ELSE /\ retired' = Newest(list)
                /\ retiredSet' = (retiredSet \cup {owner}) \ Oldest(list)
    BY <1>3 DEF accept
  <2>2. uuid \notin retiredSet
    BY <1>3 DEF is_retired
  <2>3. owners' \in Seq(Projections \ {NoUuid}) /\ owners' # <<>>
        /\ Len(owners') = Len(owners) + 1 /\ owners'[Len(owners')] = uuid
        /\ \A i \in 1..Len(owners) : owners'[i] = owners[i]
    BY <1>1, <1>3, <2>1 DEF FenceInv, FenceTypes
  <2>4. owner = NoUuid <=> owners = <<>>
    BY DEF FenceInv, FenceTypes, FenceRemembers
  <2>5. /\ retired' \in Seq(Projections)
        /\ FenceSound'
        /\ FenceRemembers'
    <3>1. CASE owner = NoUuid
      <4>1. UNCHANGED <<retired, retiredSet>> /\ owners = <<>> /\ retired = <<>>
        BY <2>1, <2>4, <3>1 DEF FenceInv, FenceRemembers
      <4> QED
        BY <1>3, <2>1, <2>2, <2>3, <4>1 DEF FenceInv, FenceTypes, FenceSound, FenceRemembers
    <3>2. CASE Limit = 0
      <4>1. UNCHANGED <<retired, retiredSet>> /\ Len(retired) = 0
        BY <2>1, <3>2 DEF FenceInv, FenceSound, FenceTypes
      <4> QED
        BY <1>3, <2>1, <2>2, <2>3, <3>2, <4>1 DEF FenceInv, FenceTypes, FenceSound, FenceRemembers
    <3>3. CASE owner # NoUuid /\ Limit > 0
      <4>1. /\ retired' = Newest(list)
            /\ retiredSet' = (retiredSet \cup {owner}) \ Oldest(list)
        BY <2>1, <3>3
      <4>2. /\ list \in Seq(Projections) /\ Len(list) = Len(retired) + 1
            /\ Len(retired) \in Nat /\ Len(retired) <= Limit
            /\ list[Len(list)] = owner
            /\ \A i \in 1..Len(retired) : list[i] = retired[i]
        BY DEF FenceInv, FenceTypes, FenceSound
      <4>3. PICK d \in {0, 1} :
              /\ d = 0 <=> Len(list) <= Limit
              /\ retired' \in Seq(Projections)
              /\ Len(retired') = Len(list) - d
              /\ \A i \in 1..(Len(list) - d) : retired'[i] = list[i + d]
              /\ retiredSet' = (retiredSet \cup {owner}) \ {list[i] : i \in 1..d}
        <5> HIDE DEF list
        <5>1. list \in Seq(Projections) /\ Limit > 0 /\ Len(list) <= Limit + 1
          BY <3>3, <4>2
        <5>2. PICK d \in {0, 1} :
                 /\ d = 0 <=> Len(list) <= Limit
                 /\ Newest(list) \in Seq(Projections)
                 /\ Len(Newest(list)) = Len(list) - d
                 /\ \A i \in 1..(Len(list) - d) : Newest(list)[i] = list[i + d]
                 /\ Oldest(list) = {list[i] : i \in 1..d}
          BY <5>1, NewestFacts
        <5>3. retiredSet' = (retiredSet \cup {owner}) \ {list[i] : i \in 1..d}
          BY <4>1, <5>2
        <5> QED
          BY <4>1, <5>2, <5>3
      <4>4. /\ \A i, j \in 1..Len(list) : list[i] = list[j] => i = j
            /\ retiredSet \cup {owner} = {list[i] : i \in 1..Len(list)}
            /\ \A i \in 1..Len(list) : list[i] # uuid /\ list[i] # NoUuid
        <5> HIDE DEF list
        <5>1. /\ retiredSet = {retired[i] : i \in 1..Len(retired)}
              /\ \A i, j \in 1..Len(retired) : retired[i] = retired[j] => i = j
              /\ owner \notin retiredSet /\ NoUuid \notin retiredSet
          BY DEF FenceInv, FenceSound
        <5>2. \A i \in 1..Len(retired) : list[i] \in retiredSet
          BY <4>2, <5>1
        <5>3. \A i \in 1..Len(list) : i = Len(list) \/ i \in 1..Len(retired)
          BY <4>2
        <5>4. \A i, j \in 1..Len(list) : list[i] = list[j] => i = j
          BY <4>2, <5>1, <5>2, <5>3
        <5>5. retiredSet \cup {owner} = {list[i] : i \in 1..Len(list)}
          BY <4>2, <5>1, <5>3
        <5> QED
          BY <1>3, <2>2, <3>3, <4>2, <5>1, <5>2, <5>3, <5>4, <5>5
      <4> HIDE DEF list
      <4>5. /\ Len(list) \in Nat /\ Len(list) > 0 /\ d \in Int
            /\ \A i \in 1..Len(retired') : i + d \in 1..Len(list) /\ retired'[i] = list[i + d]
            /\ \A j \in 1..Len(list) :
                   j \in 1..d \/ (j - d \in 1..Len(retired') /\ (j - d) + d = j)
        <5>1. /\ Len(list) \in Nat /\ Len(list) > 0 /\ d \in {0, 1}
              /\ Len(retired') = Len(list) - d
          BY <4>2, <4>3
        <5>2. \A i \in 1..Len(retired') : i + d \in 1..Len(list)
          BY <5>1
        <5>3. \A i \in 1..Len(retired') : retired'[i] = list[i + d]
          BY <4>3, <5>1
        <5>4. ASSUME NEW j \in 1..Len(list)
              PROVE  j \in 1..d \/ (j - d \in 1..Len(retired') /\ (j - d) + d = j)
          BY <5>1
        <5> QED
          BY <5>1, <5>2, <5>3, <5>4
      <4>6. retiredSet' = {retired'[i] : i \in 1..Len(retired')}
        <5>1. retiredSet' = {list[i] : i \in 1..Len(list)} \ {list[i] : i \in 1..d}
          BY <4>3, <4>4
        <5>2. ASSUME NEW x \in retiredSet'
              PROVE  \E i \in 1..Len(retired') : retired'[i] = x
          <6>1. PICK j \in 1..Len(list) : list[j] = x /\ j \notin 1..d
            BY <5>1, <5>2
          <6>2. j - d \in 1..Len(retired') /\ (j - d) + d = j
            BY <4>5, <6>1
          <6> QED
            BY <4>5, <6>1, <6>2
        <5>3. ASSUME NEW i \in 1..Len(retired')
              PROVE  retired'[i] \in retiredSet'
          <6>1. i + d \in 1..Len(list) /\ retired'[i] = list[i + d]
            BY <4>5
          <6>2. \A k \in 1..d : k \in 1..Len(list) /\ k # i + d
            BY <4>5
          <6> QED
            BY <4>4, <5>1, <6>1, <6>2
        <5> QED
          BY <5>2, <5>3
      <4>7. FenceSound'
        <5>1. Len(retired') <= Limit
          BY <3>3, <4>2, <4>3
        <5>2. ASSUME NEW i \in 1..Len(retired'), NEW j \in 1..Len(retired'),
                     retired'[i] = retired'[j]
              PROVE  i = j
          <6>1. i + d = j + d
            BY <4>4, <4>5, <5>2
          <6> QED
            BY <4>5, <6>1
        <5>3. \A i \in 1..Len(retired') : retired'[i] # uuid /\ retired'[i] # NoUuid
          BY <4>4, <4>5
        <5>4. owner' \notin retiredSet' /\ NoUuid \notin retiredSet'
          <6> HIDE DEF uuid
          <6> QED
            BY <2>1, <4>6, <5>3
        <5> QED
          BY <4>6, <5>1, <5>2, <5>4 DEF FenceSound
      <4>8. FenceRemembers'
        <5>1. /\ owners # <<>> /\ Len(owners) \in Nat /\ Len(owners) > 0
              /\ owner = owners[Len(owners)]
              /\ Len(retired) = IF Len(owners) - 1 < Limit THEN Len(owners) - 1 ELSE Limit
              /\ \A i \in 1..Len(retired) :
                     retired[i] = owners[Len(owners) - 1 - Len(retired) + i]
          BY <2>4, <3>3 DEF FenceInv, FenceTypes, FenceRemembers
        <5>2. Len(retired') = IF Len(owners') - 1 < Limit THEN Len(owners') - 1 ELSE Limit
          BY <2>3, <3>3, <4>2, <4>3, <5>1
        <5>3. ASSUME NEW j \in 1..Len(list)
              PROVE  list[j] = owners[Len(owners) - Len(list) + j]
          <6>1. CASE j = Len(list)
            <7>1. Len(owners) - Len(list) + j = Len(owners)
              BY <4>5, <5>1, <6>1
            <7> QED
              BY <4>2, <5>1, <6>1, <7>1
          <6>2. CASE j # Len(list)
            <7>1. j \in 1..Len(retired)
              BY <4>2, <4>5, <6>2
            <7>2. Len(owners) - Len(list) + j = Len(owners) - 1 - Len(retired) + j
              BY <4>2, <5>1
            <7> QED
              BY <4>2, <5>1, <7>1, <7>2
          <6> QED
            BY <6>1, <6>2
        <5>4. ASSUME NEW i \in 1..Len(retired')
              PROVE  retired'[i] = owners'[Len(owners') - 1 - Len(retired') + i]
          <6>1. i + d \in 1..Len(list) /\ retired'[i] = list[i + d]
            BY <4>5
          <6>2. Len(owners) - Len(list) + (i + d) = Len(owners') - 1 - Len(retired') + i
            BY <2>3, <4>3, <4>5, <5>1
          <6>3. Len(owners) - Len(list) + (i + d) \in 1..Len(owners)
            <7>1. Len(list) <= Len(owners)
              BY <4>2, <5>1
            <7> QED
              BY <4>5, <5>1, <6>1, <7>1
          <6> QED
            BY <2>3, <5>3, <6>1, <6>2, <6>3
        <5> QED
          BY <2>1, <2>3, <5>2, <5>4 DEF FenceRemembers
      <4> QED
        BY <4>3, <4>7, <4>8
    <3> QED
      BY <3>1, <3>2, <3>3
  <2>6. NeverReclaimed'
    <3> SUFFICES ASSUME NEW i \in 1..Len(owners), i >= Len(owners) - Limit
                 PROVE  owners[i] # uuid
      BY <2>3 DEF NeverReclaimed
    <3>1. /\ owners # <<>> /\ Len(owners) \in Nat /\ owner = owners[Len(owners)]
          /\ Len(retired) = IF Len(owners) - 1 < Limit THEN Len(owners) - 1 ELSE Limit
          /\ \A k \in 1..Len(retired) : retired[k] = owners[Len(owners) - 1 - Len(retired) + k]
          /\ retiredSet = {retired[k] : k \in 1..Len(retired)}
      BY DEF FenceInv, FenceTypes, FenceRemembers, FenceSound
    <3>2. CASE i = Len(owners)
      BY <1>3, <3>1, <3>2
    <3>3. CASE i < Len(owners)
      <4> DEFINE k == i - Len(owners) + 1 + Len(retired)
      <4>1. Len(retired) \in Nat /\ k \in Int
        BY <3>1 DEF FenceInv, FenceTypes
      <4>2. k >= 1
        <5>1. /\ Len(owners) \in Nat /\ i \in Nat /\ i >= Len(owners) - Limit
              /\ Len(retired) = Len(owners) - 1 \/ Len(retired) = Limit
          BY <3>1
        <5>2. CASE Len(retired) = Len(owners) - 1
          BY <5>1, <5>2
        <5>3. CASE Len(retired) = Limit
          BY <5>1, <5>3
        <5> QED
          BY <5>1, <5>2, <5>3
      <4>3. k <= Len(retired) /\ Len(owners) - 1 - Len(retired) + k = i
        <5>1. Len(owners) \in Nat /\ i \in Nat /\ i < Len(owners)
          BY <3>1, <3>3
        <5> QED
          BY <4>1, <5>1
      <4>4. k \in 1..Len(retired)
        BY <4>1, <4>2, <4>3
      <4>5. owners[i] \in retiredSet
        BY <3>1, <4>3, <4>4
      <4> QED
        BY <2>2, <4>5
    <3> QED
      BY <3>1, <3>2, <3>3
  <2> QED
    BY <1>1, <2>1, <2>3, <2>5, <2>6 DEF FenceInv, FenceTypes
<1> QED
  BY <1>2, <1>3 DEF accept

----------------------------------------------------------------------------

\* FenceInv holds of every reachable state: hellos, toggles, lost connections and
\* everything else that the main loop and the network threads do keep it.
THEOREM FenceInvariant == Spec => []FenceInv
<1>1. Init => FenceInv
  BY SharingAssumption DEF Init, FenceInv, FenceTypes, FenceSound, FenceRemembers, NeverReclaimed
<1>2. FenceInv /\ [Next]_vars => FenceInv'
  <2> SUFFICES ASSUME FenceInv, [Next]_vars PROVE FenceInv'
    OBVIOUS
  <2>1. caps' \in [Conns -> AllCaps]
    BY CapsKept DEF FenceInv, FenceTypes
  <2>2. CASE UNCHANGED fence
    BY <2>1, <2>2 DEF FenceInv, FenceTypes, FenceSound, FenceRemembers, NeverReclaimed, fence
  <2>3. CASE \E c \in Conns : ~is_retired(c) /\ accept(caps[c].projection)
    BY <2>1, <2>3, AcceptKeeps
  <2> QED
    BY <2>2, <2>3, FenceStep
<1> QED
  BY <1>1, <1>2, PTL DEF Spec

\* The list of retired projections and the set never disagree, whatever the limit.
THEOREM FenceIsSound == Spec => []FenceSound
<1>1. FenceInv => FenceSound
  BY DEF FenceInv
<1> QED
  BY <1>1, FenceInvariant, PTL

\* A projection that owned the session stays out while it is among the latest ones.
THEOREM OwnersNeverReclaim == Spec => []NeverReclaimed
<1>1. FenceInv => NeverReclaimed
  BY DEF FenceInv
<1> QED
  BY <1>1, FenceInvariant, PTL

----------------------------------------------------------------------------
(* The clients and the calls of the main loop.                              *)

Calls == ({"hello", "hello_ui", "lost"} \X Conns) \cup {<<"last", NoConn>>}

Queued(queue, c) == \E i \in 1..Len(queue) : queue[i] = <<"hello", c>>

\* a client, or what is about to be one, has been through its authentication
KnownAreDone ==
    \A c \in Conns : c \in sources \/ c = pending \/ Queued(idle, c) => stage[c] = "done"

\* a queue with one more call
LEMMA AppendFacts ==
    ASSUME NEW queue \in Seq(Calls), NEW call \in Calls
    PROVE  /\ Append(queue, call) \in Seq(Calls)
           /\ \A c \in Conns : Queued(Append(queue, call), c) =>
                                  Queued(queue, c) \/ call = <<"hello", c>>
<1> DEFINE longer == Append(queue, call)
<1>1. /\ longer \in Seq(Calls) /\ Len(longer) = Len(queue) + 1
      /\ \A i \in 1..Len(queue) : longer[i] = queue[i]
      /\ longer[Len(queue) + 1] = call
  OBVIOUS
<1> HIDE DEF longer
<1>2. ASSUME NEW c \in Conns, NEW i \in 1..Len(longer), longer[i] = <<"hello", c>>
      PROVE  Queued(queue, c) \/ call = <<"hello", c>>
  <2>1. i \in 1..Len(queue) \/ i = Len(queue) + 1
    BY <1>1
  <2> QED
    BY <1>1, <1>2, <2>1 DEF Queued
<1> QED
  BY <1>1, <1>2 DEF Queued, longer

\* a queue whose first call is made
LEMMA CallFacts ==
    ASSUME idle \in Seq(Calls), NEW name, NEW c, Call(name, c)
    PROVE  /\ Tail(idle) \in Seq(Calls)
           /\ \A d \in Conns : Queued(Tail(idle), d) => Queued(idle, d)
           /\ name = "hello" => Queued(idle, c)
           /\ pending = NoConn
<1>1. /\ idle # <<>> /\ idle[1] = <<name, c>> /\ pending = NoConn
  BY DEF Call
<1>2. /\ Tail(idle) \in Seq(Calls) /\ Len(Tail(idle)) = Len(idle) - 1
      /\ Len(idle) \in Nat /\ Len(idle) > 0
      /\ \A i \in 1..(Len(idle) - 1) : Tail(idle)[i] = idle[i + 1] /\ i + 1 \in 1..Len(idle)
  BY <1>1
<1>3. ASSUME NEW d \in Conns, Queued(Tail(idle), d)
      PROVE  Queued(idle, d)
  <2>1. PICK i \in 1..Len(Tail(idle)) : Tail(idle)[i] = <<"hello", d>>
    BY <1>3 DEF Queued
  <2> QED
    BY <1>2, <2>1 DEF Queued
<1>4. 1 \in 1..Len(idle)
  BY <1>2
<1> QED
  BY <1>1, <1>2, <1>3, <1>4 DEF Queued

\* Disconnecting takes clients away, and may queue a call that is not a hello.
LEMMA CleanupFacts ==
    ASSUME NEW D, NEW queue \in Seq(Calls), Cleanup(D, queue)
    PROVE  /\ sources' = sources \ D
           /\ idle' \in Seq(Calls)
           /\ \A c \in Conns : Queued(idle', c) => Queued(queue, c)
<1>1. sources' = sources \ D
  BY DEF Cleanup
<1>2. idle' = queue \/ idle' = Append(queue, <<"last", NoConn>>)
  BY DEF Cleanup
<1>3. <<"last", NoConn>> \in Calls
  BY DEF Calls
<1>4. \A c : <<"last", NoConn>> # <<"hello", c>>
  OBVIOUS
<1> QED
  BY <1>1, <1>2, <1>3, <1>4, AppendFacts

\* Types, and that nobody gets past the authentication.
MainInv == TypeOK /\ KnownAreDone

FenceTyped ==
    /\ owner \in Projections /\ retired \in Seq(Projections) /\ retiredSet \subseteq Projections
    /\ owners \in Seq(Projections)

\* What most steps do: clients may go, and hellos may be taken from the queue.
Recedes ==
    /\ sources' \subseteq sources /\ idle' \in Seq(Calls)
    /\ \A c \in Conns : Queued(idle', c) => Queued(idle, c)

LEMMA RecedesKeeps ==
    ASSUME MainInv, Recedes, UNCHANGED <<options, stage>>, FenceTyped',
           open' \subseteq open, caps' \in [Conns -> AllCaps], toggles' \in 0..MaxToggles,
           pending' \in {pending, NoConn} \/ (pending' \in Conns /\ stage[pending'] = "done"),
           {closing', refused'} \subseteq BOOLEAN, superseded' \subseteq Projections
    PROVE  MainInv'
<1>1. TypeOK'
  BY DEF MainInv, TypeOK, Recedes, Calls, FenceTyped
<1>2. KnownAreDone'
  <2> SUFFICES ASSUME NEW c \in Conns, c \in sources' \/ c = pending' \/ Queued(idle', c)
               PROVE  stage[c] = "done"
    BY DEF KnownAreDone
  <2> QED
    BY SharingAssumption DEF MainInv, Recedes, KnownAreDone
<1> QED
  BY <1>1, <1>2 DEF MainInv

LEMMA AcceptTyped ==
    ASSUME MainInv, NEW uuid \in Projections, accept(uuid)
    PROVE  FenceTyped'
<1>1. CASE UNCHANGED fence
  BY <1>1 DEF MainInv, TypeOK, FenceTyped, fence
<1>2. CASE uuid # NoUuid /\ uuid # owner
  <2>1. /\ owner' = uuid /\ owners' = Append(owners, uuid)
        /\ \/ UNCHANGED <<retired, retiredSet>>
           \/ /\ retired' = Newest(Append(retired, owner))
              /\ retiredSet' = (retiredSet \cup {owner}) \ Oldest(Append(retired, owner))
    BY <1>2 DEF accept
  <2>2. owner \in Projections /\ retired \in Seq(Projections) /\ retiredSet \subseteq Projections
        /\ owners \in Seq(Projections)
    BY DEF MainInv, TypeOK
  <2>3. Append(retired, owner) \in Seq(Projections)
    BY <2>2
  <2>4. Newest(Append(retired, owner)) \in Seq(Projections)
    BY <2>3, SharingAssumption DEF Newest
  <2> QED
    BY <2>1, <2>2, <2>4 DEF FenceTyped
<1> QED
  BY <1>1, <1>2 DEF accept

\* Every step keeps the types, and lets nobody in who has not been authenticated.
LEMMA MainStep ==
    ASSUME MainInv, [Next]_vars
    PROVE  MainInv'
<1> USE SharingAssumption
<1>1. /\ options \in AllOptions /\ stage \in [Conns -> {"auth", "done"}]
      /\ caps \in [Conns -> AllCaps] /\ open \subseteq Conns /\ sources \subseteq Conns
      /\ pending \in Conns \cup {NoConn} /\ idle \in Seq(Calls) /\ closing \in BOOLEAN
      /\ refused \in BOOLEAN /\ toggles \in 0..MaxToggles /\ superseded \subseteq Projections
      /\ FenceTyped /\ KnownAreDone
  BY DEF MainInv, TypeOK, FenceTyped, Calls
<1>2. UNCHANGED fence => FenceTyped'
  BY <1>1 DEF FenceTyped, fence
<1>3. caps' \in [Conns -> AllCaps]
  BY <1>1, CapsKept
<1>4. ASSUME NEW c \in Conns, AuthVerified(c)
      PROVE  MainInv'
  <2>1. <<"hello", c>> \in Calls
    BY DEF Calls
  <2>2. /\ idle' \in Seq(Calls)
        /\ \A d \in Conns : Queued(idle', d) => Queued(idle, d) \/ d = c
    BY <1>1, <1>4, <2>1, AppendFacts DEF AuthVerified
  <2>3. stage' = [stage EXCEPT ![c] = "done"]
        /\ UNCHANGED <<options, open, sources, pending, closing, fence, toggles, history>>
    BY <1>4 DEF AuthVerified
  <2>4. stage' \in [Conns -> {"auth", "done"}] /\ stage'[c] = "done"
        /\ \A d \in Conns : d # c => stage'[d] = stage[d]
    BY <1>1, <2>3
  <2>5. TypeOK'
    BY <1>1, <1>2, <1>3, <2>2, <2>3, <2>4 DEF TypeOK, FenceTyped, Calls, history
  <2>6. KnownAreDone'
    BY <1>1, <2>2, <2>3, <2>4 DEF KnownAreDone
  <2> QED
    BY <2>5, <2>6 DEF MainInv
<1>5. ASSUME NEW c \in Conns, Close(c)
      PROVE  MainInv'
  <2>1. <<"lost", c>> \in Calls /\ \A d : <<"lost", c>> # <<"hello", d>>
    BY DEF Calls
  <2>2. Recedes
    BY <1>1, <1>5, <2>1, AppendFacts DEF Close, Recedes
  <2> QED
    BY <1>1, <1>2, <1>3, <1>5, <2>2, RecedesKeeps DEF Close, history
<1>6. ASSUME NEW c \in Conns, ConnectionLost(c)
      PROVE  MainInv'
  <2>1. Recedes
    BY <1>1, <1>6, CallFacts, CleanupFacts DEF ConnectionLost, Recedes
  <2> QED
    BY <1>1, <1>2, <1>3, <1>6, <2>1, RecedesKeeps DEF ConnectionLost, history
<1>7. ASSUME LastClientExited
      PROVE  MainInv'
  <2>1. Recedes
    BY <1>1, <1>7, CallFacts, CleanupFacts DEF LastClientExited, Recedes
  <2>2. closing' \in BOOLEAN
    BY <1>1, <1>7 DEF LastClientExited, ExitWithClient, AllOptions
  <2> QED
    BY <1>1, <1>2, <1>3, <1>7, <2>1, <2>2, RecedesKeeps DEF LastClientExited, history
<1>8. ASSUME NEW c \in Conns, ClientDisconnect(c)
      PROVE  MainInv'
  <2>1. Recedes
    BY <1>1, <1>8, CleanupFacts DEF ClientDisconnect, Recedes
  <2> QED
    BY <1>1, <1>2, <1>3, <1>8, <2>1, RecedesKeeps DEF ClientDisconnect, history
<1>9. ASSUME NEW c \in Conns, HelloRejected(c)
      PROVE  MainInv'
  <2>1. Recedes
    BY <1>1, <1>9, CallFacts DEF HelloRejected, Hello, Recedes
  <2> QED
    BY <1>1, <1>2, <1>3, <1>9, <2>1, RecedesKeeps DEF HelloRejected, history
<1>10. ASSUME NEW c \in Conns, HelloDetach(c)
       PROVE  MainInv'
  <2>1. Recedes
    BY <1>1, <1>10, CallFacts, CleanupFacts DEF HelloDetach, Hello, disconnect_client, Recedes
  <2> QED
    BY <1>1, <1>2, <1>3, <1>10, <2>1, RecedesKeeps DEF HelloDetach, history
<1>11. ASSUME NEW c \in Conns, HelloRefused(c)
       PROVE  MainInv'
  <2>1. Recedes
    BY <1>1, <1>11, CallFacts, CleanupFacts DEF HelloRefused, Hello, disconnect_client, Recedes
  <2> QED
    BY <1>1, <1>2, <1>3, <1>11, <2>1, RecedesKeeps DEF HelloRefused
<1>12. ASSUME NEW c \in Conns, HelloAccepted(c)
       PROVE  MainInv'
  <2>1. Recedes /\ Queued(idle, c)
    BY <1>1, <1>12, CallFacts, CleanupFacts DEF HelloAccepted, Hello, disconnect_client, Recedes
  <2>2. stage[c] = "done"
    BY <1>1, <2>1 DEF KnownAreDone
  <2>3. \A d \in Conns : caps[d].projection \in Projections
    BY <1>1 DEF AllCaps
  <2>4. FenceTyped'
    BY <1>2, <1>12, <2>3, AcceptTyped DEF HelloAccepted
  <2>5. Losers(c) \subseteq Projections
    BY <1>1, <2>3 DEF Losers, Replaced
  <2>6. UNCHANGED <<options, stage, open, caps, closing, toggles, refused>> /\ pending' = c
        /\ superseded' = superseded \cup Losers(c)
    BY <1>12 DEF HelloAccepted
  <2> QED
    BY <1>1, <1>3, <2>1, <2>2, <2>4, <2>5, <2>6, RecedesKeeps
<1>13. ASSUME NEW c \in Conns, Register(c)
       PROVE  MainInv'
  <2>1. <<"hello_ui", c>> \in Calls /\ \A d : <<"hello_ui", c>> # <<"hello", d>>
    BY DEF Calls
  <2>2. /\ idle' \in Seq(Calls)
        /\ \A d \in Conns : Queued(idle', d) => Queued(idle, d)
    BY <1>1, <1>13, <2>1, AppendFacts DEF Register
  <2>3. /\ c = pending /\ sources' = sources \cup {c} /\ pending' = NoConn
        /\ UNCHANGED <<options, stage, open, caps, closing, fence, toggles, history>>
    BY <1>13 DEF Register
  <2>4. TypeOK'
    BY <1>1, <1>2, <2>2, <2>3 DEF TypeOK, FenceTyped, Calls, history
  <2>5. KnownAreDone'
    BY <1>1, <2>2, <2>3 DEF KnownAreDone
  <2> QED
    BY <2>4, <2>5 DEF MainInv
<1>14. ASSUME NEW c \in Conns, HelloUI(c)
       PROVE  MainInv'
  <2>1. Recedes
    BY <1>1, <1>14, CallFacts, CleanupFacts DEF HelloUI, disconnect_client, Recedes
  <2> QED
    BY <1>1, <1>2, <1>3, <1>14, <2>1, RecedesKeeps DEF HelloUI, history
<1>15. ASSUME NEW c \in Conns, SharingToggle(c)
       PROVE  MainInv'
  <2>1. Recedes
    BY <1>1, <1>15, CleanupFacts DEF SharingToggle, disconnect_client, Recedes
  <2>2. toggles' \in 0..MaxToggles
    BY <1>1, <1>15 DEF SharingToggle
  <2> QED
    BY <1>1, <1>2, <1>3, <1>15, <2>1, <2>2, RecedesKeeps DEF SharingToggle, history
<1>16. ASSUME NEW c \in Conns, LockToggle(c)
       PROVE  MainInv'
  <2>1. Recedes
    BY <1>1, <1>16 DEF LockToggle, Recedes
  <2>2. toggles' \in 0..MaxToggles
    BY <1>1, <1>16 DEF LockToggle
  <2> QED
    BY <1>1, <1>2, <1>3, <1>16, <2>1, <2>2, RecedesKeeps DEF LockToggle, history
<1>17. CASE UNCHANGED vars
  <2>1. Recedes
    BY <1>1, <1>17 DEF vars, Recedes
  <2> QED
    BY <1>1, <1>2, <1>3, <1>17, <2>1, RecedesKeeps DEF vars, history
<1> QED
  BY <1>4, <1>5, <1>6, <1>7, <1>8, <1>9, <1>10, <1>11, <1>12, <1>13, <1>14, <1>15, <1>16, <1>17
     DEF Next

THEOREM MainInvariant == Spec => []MainInv
<1>1. Init => MainInv
  <2> SUFFICES ASSUME Init PROVE MainInv
    OBVIOUS
  <2>1. caps \in [Conns -> AllCaps]
    BY SharingAssumption DEF Init
  <2>2. idle \in Seq(Calls) /\ FenceTyped
    BY SharingAssumption DEF Init, FenceTyped
  <2>3. closing \in BOOLEAN /\ refused \in BOOLEAN
    BY DEF Init
  <2>4. toggles \in 0..MaxToggles
    BY SharingAssumption DEF Init
  <2>5. /\ options \in AllOptions /\ stage \in [Conns -> {"auth", "done"}]
        /\ open \subseteq Conns /\ sources \subseteq Conns /\ pending \in Conns \cup {NoConn}
        /\ superseded \subseteq Projections
    BY SharingAssumption DEF Init
  <2>6. TypeOK
    BY <2>1, <2>2, <2>3, <2>4, <2>5 DEF TypeOK, Calls, FenceTyped
  <2>7. KnownAreDone
    BY SharingAssumption DEF Init, KnownAreDone, Queued
  <2> QED
    BY <2>6, <2>7 DEF MainInv
<1>2. MainInv /\ [Next]_vars => MainInv'
  BY MainStep
<1> QED
  BY <1>1, <1>2, PTL DEF Spec

\* The variables keep their types, for every set of hellos, options and limits.
THEOREM TypeCorrect == Spec => []TypeOK
<1>1. MainInv => TypeOK
  BY DEF MainInv
<1> QED
  BY <1>1, MainInvariant, PTL

----------------------------------------------------------------------------
(* Whose projection is connected, in a session that is not shared.          *)

\* Between hello_oked's decision and the addition of the client, it counts as connected.
OwnerShown ==
    Sharing = "no" =>
        \A c \in open : /\ c \in sources \/ c = pending
                        /\ Ui(c) /\ caps[c].projection # NoUuid
                        => caps[c].projection = owner

\* What most steps do to it: connections close, clients and the pending one go.
LEMMA ShownKept ==
    ASSUME OwnerShown, UNCHANGED <<options, owner>>, open' \subseteq open,
           sources' \cup {pending'} \subseteq sources \cup {pending, NoConn}, NoConn \notin open,
           \A c \in open' : c \in sources' \/ c = pending' =>
                            caps'[c].kind = caps[c].kind /\ caps'[c].projection = caps[c].projection
    PROVE  OwnerShown'
BY DEF OwnerShown, Ui, Sharing

LEMMA ShownStep ==
    ASSUME MainInv, OwnerShown, [Next]_vars
    PROVE  OwnerShown'
<1> USE SharingAssumption
<1>1. /\ caps \in [Conns -> AllCaps] /\ open \subseteq Conns /\ sources \subseteq Conns
      /\ idle \in Seq(Calls) /\ pending \in Conns \cup {NoConn} /\ NoConn \notin open
      /\ KnownAreDone
  BY DEF MainInv, TypeOK, Calls
<1>2. ASSUME NEW c \in Conns, AuthVerified(c)
      PROVE  OwnerShown'
  <2>1. c \notin sources /\ c # pending
    BY <1>1, <1>2 DEF AuthVerified, KnownAreDone
  <2>2. \A d \in Conns : d # c => caps'[d] = caps[d]
    BY <1>1, <1>2 DEF AuthVerified
  <2>3. UNCHANGED <<options, open, sources, pending, owner>>
    BY <1>2 DEF AuthVerified, fence
  <2> QED
    BY <1>1, <2>1, <2>2, <2>3, ShownKept
<1>3. ASSUME NEW c \in Conns, HelloAccepted(c)
      PROVE  OwnerShown'
  <2>1. sources' = sources \ (Replaced(c) \cap open)
    BY <1>1, <1>3, CallFacts, CleanupFacts DEF HelloAccepted, Hello, disconnect_client
  <2>2. /\ UNCHANGED <<options, open, caps>> /\ pending' = c /\ pending = NoConn
        /\ IF Fencing(c) THEN accept(caps[c].projection) ELSE UNCHANGED fence
    BY <1>1, <1>3, CallFacts DEF HelloAccepted, Hello
  <2>3. CASE ~Ui(c)
    <3>1. UNCHANGED owner
      BY <2>2, <2>3 DEF Fencing, fence
    <3> QED
      BY <2>1, <2>2, <2>3, <3>1 DEF OwnerShown, Ui, Sharing
  <2>4. CASE Ui(c) /\ Sharing = "no"
    <3>1. SharedWith(c) = {} /\ Replaced(c) = {d \in sources : Ui(d)}
      BY <2>4 DEF SharedWith, Replaced, will_share_with
    <3>2. caps[c].projection # NoUuid => owner' = caps[c].projection
      BY <2>2, <2>4, <3>1 DEF Fencing, accept, fence
    <3>3. \A d \in open : d \in sources' => ~Ui(d)
      BY <2>1, <3>1
    <3> QED
      BY <2>2, <3>2, <3>3 DEF OwnerShown, Ui, Sharing
  <2>5. CASE Sharing # "no"
    BY <2>2, <2>5 DEF OwnerShown, Sharing
  <2> QED
    BY <2>3, <2>4, <2>5
<1>4. ASSUME NEW c \in Conns, SharingToggle(c) \/ LockToggle(c)
      PROVE  OwnerShown'
  <2>1. \A d \in Conns : caps'[d].kind = caps[d].kind /\ caps'[d].projection = caps[d].projection
    <3>1. PICK v \in BOOLEAN : \/ caps' = [caps EXCEPT ![c].share = v]
                               \/ caps' = [caps EXCEPT ![c].lock = v]
      BY <1>4 DEF SharingToggle, LockToggle
    <3> DEFINE b == [caps[c] EXCEPT !.share = v]
               e == [caps[c] EXCEPT !.lock = v]
    <3>2. caps[c] \in AllCaps
      BY <1>1
    <3>3. /\ b.kind = caps[c].kind /\ b.projection = caps[c].projection
          /\ e.kind = caps[c].kind /\ e.projection = caps[c].projection
      BY <3>2 DEF AllCaps
    <3>4. caps' = [caps EXCEPT ![c] = b] \/ caps' = [caps EXCEPT ![c] = e]
      BY <3>1
    <3> HIDE DEF b, e
    <3>5. \A d \in Conns : d # c => caps'[d] = caps[d]
      BY <1>1, <3>4
    <3>6. caps'[c] \in {b, e}
      BY <1>1, <3>4
    <3> QED
      BY <3>3, <3>5, <3>6
  <2>2. sources' \subseteq sources
    BY <1>1, <1>4, CleanupFacts DEF SharingToggle, LockToggle, disconnect_client
  <2>3. UNCHANGED <<options, open, pending, owner>>
    BY <1>4 DEF SharingToggle, LockToggle, fence
  <2> QED
    BY <1>1, <2>1, <2>2, <2>3, ShownKept
<1>5. ASSUME NEW c \in Conns, Close(c) \/ HelloRejected(c) \/ Register(c)
      PROVE  OwnerShown'
  BY <1>1, <1>5, ShownKept DEF Close, HelloRejected, Register, fence
<1>6. ASSUME NEW c \in Conns, \/ ConnectionLost(c) \/ ClientDisconnect(c) \/ HelloDetach(c)
                              \/ HelloRefused(c) \/ HelloUI(c)
      PROVE  OwnerShown'
  <2>1. sources' \subseteq sources
    BY <1>6 DEF ConnectionLost, ClientDisconnect, HelloDetach, HelloRefused, HelloUI,
       disconnect_client, Cleanup
  <2>2. UNCHANGED <<options, open, caps, pending, owner>>
    BY <1>6 DEF ConnectionLost, ClientDisconnect, HelloDetach, HelloRefused, HelloUI, fence
  <2> QED
    BY <1>1, <2>1, <2>2, ShownKept
<1>7. CASE LastClientExited
  <2>1. sources' \subseteq sources
    BY <1>7 DEF LastClientExited, Cleanup
  <2>2. UNCHANGED <<options, open, caps, pending, owner>>
    BY <1>7 DEF LastClientExited, fence
  <2> QED
    BY <1>1, <2>1, <2>2, ShownKept
<1>8. CASE UNCHANGED vars
  BY <1>1, <1>8, ShownKept DEF vars, fence
<1> QED
  BY <1>2, <1>3, <1>4, <1>5, <1>6, <1>7, <1>8 DEF Next

\* In a session that is not shared, no client but the owner's projection is connected,
\* whatever hellos, requests to detach and losses come in whatever order.
THEOREM SessionIsOwners == Spec => []OwnerIsSession
<1>1. Init => OwnerShown
  BY SharingAssumption DEF Init, OwnerShown
<1>2. MainInv /\ OwnerShown /\ [Next]_vars => OwnerShown'
  BY ShownStep
<1>3. OwnerShown => OwnerIsSession
  BY DEF OwnerShown, OwnerIsSession
<1> QED
  BY <1>1, <1>2, <1>3, MainInvariant, PTL DEF Spec

----------------------------------------------------------------------------
(* The input of a connection.                                               *)
(* For any stream, any sizes of reads, queues and headers, and any limits:  *)
(* packets are handled whole, once and in order, however the reads cut      *)
(* them, and a stream that respects the limits is never refused.            *)
(*                                                                          *)
(* The argument follows the bytes.  There is a frame f, the next that will  *)
(* be complete, such that what the parser holds, what is in the queue and   *)
(* what the read thread holds are the bytes that follow one another from    *)
(* f's part that was not parsed yet (Flow), the parts kept are those of its *)
(* packet that precede f, and the packets parsed those that precede its     *)
(* packet (InPacket).  What is refused is then a frame of the stream.       *)

\* nothing has been parsed yet: the noise is there, and the parser waits for a header or
\* will not know the first byte
Skipping == waitHeader \/ (stream.noise > 0 /\ ~stream.ssh)

\* where the first unparsed byte should be, when f is the next frame that will be complete
Position(f) ==
    IF Skipping THEN 1
    ELSE IF frame # 0 THEN Start(f) + HeaderSize ELSE Start(f) + Len(header)

\* the bytes of a buffer follow each other, from p on
From(b, p) == \A k \in 1..Len(b) : b[k] = p + k - 1

\* the packet of the next frame is the one after those that are complete
FirstFrame == LastFrame(Len(parsed)) + 1
InPacket(f) ==
    /\ Len(parsed) <= Packets
    /\ \A i \in 1..Len(parsed) : parsed[i] = PacketContent(i)
    /\ FirstFrame <= f
    /\ f <= IF Len(parsed) < Packets THEN LastFrame(Len(parsed) + 1) ELSE Len(Frames) + 1
    /\ raws = RawsOf(FirstFrame..f - 1)
    /\ IsFiniteSet(DOMAIN raws) /\ Cardinality(DOMAIN raws) <= f - FirstFrame

\* the next frame is f
AtFrame(f) ==
    /\ Skipping => f = 1 /\ header = <<>> /\ frame = 0
    /\ frame \in {0, f} /\ frame <= Len(Frames)
    /\ From(header, Start(f)) /\ (frame # 0 => Len(header) = HeaderSize)
    /\ From(unparsed, Position(f))
    /\ Position(f) + Len(unparsed) <= got + 1

\* what has been read and is not yet with the parser, next being its first byte
Reaches(next) ==
    /\ \A i \in 1..Len(readQueue) :
        /\ readQueue[i] # <<>> /\ readQueue[i][1] + Len(readQueue[i]) <= got + 1
        /\ From(readQueue[i], IF i = 1 THEN next
                              ELSE readQueue[i - 1][1] + Len(readQueue[i - 1]))
    /\ got + 1 - Len(hand) = IF readQueue = <<>> THEN next
                             ELSE readQueue[Len(readQueue)][1] + Len(readQueue[Len(readQueue)])
    /\ From(hand, got + 1 - Len(hand))
    /\ hand # <<>> <=> reader = "put"

FlowAt(f) ==
    /\ AtFrame(f) /\ InPacket(f)
    /\ ~closed => Reaches(Position(f) + Len(unparsed))
Flow == \E f \in 1..Len(Frames) + 1 : FlowAt(f)

\* the types that the flow depends on
FlowTypes ==
    /\ stream \in Streams /\ got \in Nat
    /\ readQueue \in Seq(Seq(Int))
    /\ hand \in Seq(Int) /\ unparsed \in Seq(Int) /\ header \in Seq(Int) /\ Len(header) <= HeaderSize
    /\ frame \in 0..Len(Frames) /\ parsed \in Seq({PacketContent(i) : i \in 1..Packets})

\* the stream does not respect the limits
BadStream ==
    \/ stream.noise > 0 /\ ~stream.ssh
    \/ \E i \in 1..Packets : ~WellFormed(i)

\* the parser waits for a header over ssh only, is there while it may take another part, and
\* took note of no size that the limits allow
ParserInv ==
    /\ waitHeader => stream.ssh /\ parser \notin {"parse", "handle"}
    /\ parser # "exited" => Cardinality(DOMAIN raws) < MaxRaw
    /\ sizeChecks # {} => BadStream
    /\ frame # 0 => Frames[frame].index < MaxIndex
    /\ closed => readQueue = <<<<>>>>

InputInv == InputTypeOK /\ Flow /\ ParserInv /\ OnlyBadInputRefused

----------------------------------------------------------------------------
(* What the layout of a stream implies.                                     *)

LEMMA StreamLaidOut ==
    ASSUME stream \in Streams
    PROVE  /\ Layout(stream)
           /\ Packets \in Nat /\ Len(Frames) \in Nat /\ stream.noise \in Nat /\ stream.ssh \in BOOLEAN
<1>1. Layout(stream)
  BY StreamAssumption
<1>2. stream.frames \in Seq([index : Nat, size : Nat]) /\ stream.last \in Seq(1..Len(stream.frames))
      /\ stream.noise \in Nat /\ stream.ssh \in BOOLEAN
  BY <1>1 DEF Layout
<1>3. Len(stream.frames) \in Nat
  BY <1>2, LenProperties
<1>4. Len(stream.last) \in Nat
  BY <1>2, LenProperties
<1> QED
  BY <1>1, <1>2, <1>3, <1>4 DEF Packets, Frames

LEMMA FrameTypes ==
    ASSUME stream \in Streams
    PROVE  \A f \in 1..Len(Frames) : Frames[f].index \in Nat /\ Frames[f].size \in Nat
<1>1. Frames \in Seq([index : Nat, size : Nat])
  BY StreamLaidOut DEF Layout, Frames
<1>2. \A f \in 1..Len(Frames) : Frames[f] \in [index : Nat, size : Nat]
  BY <1>1, ElementOfSeq
<1> QED
  BY <1>2

\* Where the frames begin.
LEMMA Starts ==
    ASSUME stream \in Streams
    PROVE  /\ \A f \in 1..Len(Frames) + 1 : Start(f) \in Nat
           /\ Start(1) = stream.noise + 1
           /\ \A f \in 1..Len(Frames) : Start(f + 1) = Start(f) + HeaderSize + Frames[f].size
BY StreamLaidOut DEF Layout, Frames, Start

LEMMA FramesApart ==
    ASSUME stream \in Streams, NEW f \in 1..Len(Frames), NEW g \in 1..Len(Frames) + 1, f < g
    PROVE  Start(f) + HeaderSize + Frames[f].size <= Start(g)
BY StreamLaidOut DEF Layout, Frames, Start

LEMMA StartsGrow ==
    ASSUME stream \in Streams, NEW f \in 1..Len(Frames) + 1, NEW g \in 1..Len(Frames) + 1, f < g
    PROVE  Start(f) < Start(g)
<1>1. f \in 1..Len(Frames) /\ f \in Int
  BY StreamLaidOut
<1>2. Frames[f].size \in Nat
  BY <1>1, FrameTypes
<1>3. Start(f) \in Nat /\ Start(g) \in Nat
  BY Starts
<1>4. Start(f) + HeaderSize + Frames[f].size <= Start(g)
  BY <1>1, FramesApart
<1>5. HeaderSize \in Nat \ {0}
  BY InputAssumption
<1> HIDE DEF Start, Frames
<1> QED
  BY <1>2, <1>3, <1>4, <1>5

LEMMA StartsDiffer ==
    ASSUME stream \in Streams, NEW f \in 1..Len(Frames) + 1, NEW g \in 1..Len(Frames) + 1,
           Start(f) = Start(g)
    PROVE  f = g
<1>1. Len(Frames) \in Nat
  BY StreamLaidOut
<1>2. f \in Int /\ g \in Int /\ Start(f) \in Nat /\ Start(g) \in Nat
  BY <1>1, Starts
<1>3. CASE f < g
  <2>1. Start(f) < Start(g)
    BY <1>3, StartsGrow
  <2> QED
    BY <2>1, <1>2
<1>4. CASE g < f
  <2>1. Start(g) < Start(f)
    BY <1>4, StartsGrow
  <2> QED
    BY <2>1, <1>2
<1> QED
  BY <1>2, <1>3, <1>4

LEMMA FirstStart ==
    ASSUME stream \in Streams, NEW f \in 1..Len(Frames) + 1
    PROVE  stream.noise + 1 <= Start(f) /\ (f # 1 => stream.noise + 1 < Start(f))
<1>1. Len(Frames) \in Nat /\ f \in Int /\ Start(f) \in Nat /\ Start(1) = stream.noise + 1
      /\ stream.noise \in Nat
  BY StreamLaidOut, Starts
<1>2. CASE f = 1
  BY <1>1, <1>2
<1>3. CASE f # 1
  <2>1. 1 \in 1..Len(Frames) + 1 /\ 1 < f
    BY <1>1, <1>3
  <2>2. Start(1) < Start(f)
    BY <2>1, StartsGrow
  <2> QED
    BY <2>2, <1>1
<1> QED
  BY <1>2, <1>3

\* Which frames belong to a packet.
LEMMA LastFrames ==
    ASSUME stream \in Streams
    PROVE  /\ \A i \in 0..Packets : LastFrame(i) \in 0..Len(Frames)
           /\ \A i, k \in 0..Packets : i < k => LastFrame(i) < LastFrame(k)
           /\ LastFrame(Packets) = Len(Frames) /\ LastFrame(0) = 0
<1>1. stream.last \in Seq(1..Len(Frames)) /\ Packets = Len(stream.last)
  BY StreamLaidOut DEF Layout, Packets, Frames
<1>2. Packets \in Nat /\ Len(Frames) \in Nat
  BY StreamLaidOut
<1>3. \A i \in 1..Packets : stream.last[i] \in 1..Len(Frames)
  BY <1>1, ElementOfSeq
<1>4. \A i, k \in 1..Packets : i < k => stream.last[i] < stream.last[k]
  BY StreamLaidOut DEF Layout, Packets
<1>5. /\ Len(Frames) > 0 => stream.last # <<>> /\ stream.last[Packets] = Len(Frames)
      /\ stream.last # <<>> => Packets # 0
  BY StreamLaidOut, <1>1, EmptySeq DEF Layout, Packets, Frames
<1>6. Packets # 0 => Len(Frames) > 0
  BY <1>2, <1>3
<1>7. \A i \in 0..Packets : LastFrame(i) = IF i = 0 THEN 0 ELSE stream.last[i]
  BY DEF LastFrame
<1> HIDE DEF LastFrame, Packets, Frames
<1>8. \A i \in 0..Packets : LastFrame(i) \in 0..Len(Frames)
  BY <1>2, <1>3, <1>7
<1>9. ASSUME NEW i \in 0..Packets, NEW k \in 0..Packets, i < k
      PROVE  LastFrame(i) < LastFrame(k)
  <2>1. k \in 1..Packets /\ stream.last[k] \in 1..Len(Frames)
    BY <1>2, <1>3, <1>9
  <2>2. CASE i = 0
    BY <2>1, <2>2, <1>2, <1>7
  <2>3. CASE i # 0
    <3>1. i \in 1..Packets
      BY <2>3, <1>2
    <3> QED
      BY <3>1, <2>1, <2>3, <1>2, <1>4, <1>7, <1>9
  <2> QED
    BY <2>2, <2>3
<1>10. LastFrame(Packets) = Len(Frames)
  BY <1>2, <1>3, <1>5, <1>6, <1>7
<1> QED
  BY <1>2, <1>7, <1>8, <1>9, <1>10

LEMMA MainIsLast ==
    ASSUME stream \in Streams, NEW n \in 0..Packets, n < Packets,
           NEW f \in LastFrame(n) + 1..LastFrame(n + 1)
    PROVE  Frames[f].index = 0 <=> f = LastFrame(n + 1)
<1>1. Packets \in Nat /\ Len(Frames) \in Nat
  BY StreamLaidOut
<1>2. n \in Nat /\ n + 1 \in 1..Packets /\ LastFrame(n) \in 0..Len(Frames) /\ LastFrame(n + 1) \in 0..Len(Frames)
  BY <1>1, LastFrames
<1>3. f \in 1..Len(Frames) /\ f \in Int
  BY <1>1, <1>2
<1>4. Frames[f].index = 0 <=> \E i \in 1..Packets : LastFrame(i) = f
  <2>1. \A i \in 1..Packets : LastFrame(i) = stream.last[i]
    BY <1>1 DEF LastFrame
  <2>2. Frames[f].index = 0 <=> \E i \in 1..Packets : stream.last[i] = f
    BY <1>3, StreamLaidOut DEF Layout, Packets, Frames
  <2> QED
    BY <2>1, <2>2
<1>5. ASSUME NEW i \in 1..Packets, LastFrame(i) = f
      PROVE  f = LastFrame(n + 1)
  <2>1. i \in 0..Packets /\ i \in Int /\ n + 1 \in 0..Packets
    BY <1>1, <1>2
  <2>2. i <= n => LastFrame(i) <= LastFrame(n)
    BY <2>1, <1>1, <1>2, LastFrames
  <2>3. n + 1 < i => LastFrame(n + 1) < LastFrame(i)
    BY <2>1, LastFrames
  <2> QED
    BY <2>1, <2>2, <2>3, <1>2, <1>3, <1>5
<1> QED
  BY <1>2, <1>4, <1>5

LEMMA PartsDiffer ==
    ASSUME stream \in Streams, NEW n \in 0..Packets, n < Packets,
           NEW f \in LastFrame(n) + 1..LastFrame(n + 1), NEW g \in LastFrame(n) + 1..LastFrame(n + 1),
           f < g
    PROVE  Frames[f].index # Frames[g].index
<1>1. Packets \in Nat /\ Len(Frames) \in Nat
  BY StreamLaidOut
<1>2. n \in Nat /\ n + 1 \in 1..Packets /\ n + 1 \in 0..Packets
      /\ LastFrame(n) \in 0..Len(Frames) /\ LastFrame(n + 1) \in 0..Len(Frames)
  BY <1>1, LastFrames
<1>3. f \in 1..Len(Frames) /\ g \in 1..Len(Frames) /\ f \in Int /\ g \in Int
  BY <1>1, <1>2
<1>4. SUFFICES ASSUME Frames[f].index = Frames[g].index PROVE FALSE
  OBVIOUS
<1>5. PICK i \in 1..Packets : stream.last[i] \in f..g - 1
  BY <1>3, <1>4, StreamLaidOut DEF Layout, Packets, Frames
<1>6. LastFrame(i) = stream.last[i] /\ i \in 0..Packets /\ i \in Int
  BY <1>1 DEF LastFrame
<1>7. LastFrame(i) \in Nat
  <2>1. \A k \in 0..Packets : LastFrame(k) \in 0..Len(Frames)
    BY LastFrames
  <2> QED
    BY <2>1, <1>1, <1>6
<1>8. CASE i <= n
  <2>1. i < n \/ i = n
    BY <1>2, <1>6, <1>8
  <2>2. LastFrame(i) < LastFrame(n) \/ LastFrame(i) = LastFrame(n)
    BY <2>1, <1>2, <1>6, LastFrames
  <2> QED
    BY <2>2, <1>2, <1>3, <1>5, <1>6, <1>7
<1>9. CASE n + 1 <= i
  <2>1. n + 1 < i \/ n + 1 = i
    BY <1>2, <1>6, <1>9
  <2>2. LastFrame(n + 1) < LastFrame(i) \/ LastFrame(n + 1) = LastFrame(i)
    BY <2>1, <1>2, <1>6, LastFrames
  <2> QED
    BY <2>2, <1>2, <1>3, <1>5, <1>6, <1>7
<1> QED
  BY <1>2, <1>6, <1>8, <1>9

\* The last bytes of packets.
LEMMA Ends ==
    ASSUME stream \in Streams
    PROVE  /\ \A i \in 0..Packets : EndOf(i) \in Nat
           /\ \A i, k \in 0..Packets : i < k => EndOf(i) < EndOf(k)
           /\ EndOf(0) = 0 /\ Total \in Nat
<1>1. Packets \in Nat /\ Len(Frames) \in Nat /\ stream.noise \in Nat
  BY StreamLaidOut
<1>2. \A i \in 0..Packets : LastFrame(i) + 1 \in 1..Len(Frames) + 1 /\ LastFrame(i) \in Nat
  BY <1>1, LastFrames
<1>3. LastFrame(0) = 0 /\ 0 \in 0..Packets
  BY <1>1, LastFrames
<1>4. \A i \in 0..Packets : EndOf(i) = IF i = 0 THEN 0 ELSE Start(LastFrame(i) + 1) - 1
  BY DEF EndOf
<1>5. \A i \in 0..Packets : Start(LastFrame(i) + 1) \in Nat
  BY <1>2, Starts
<1>6. ASSUME NEW i \in 0..Packets, NEW k \in 0..Packets, i < k
      PROVE  Start(LastFrame(i) + 1) < Start(LastFrame(k) + 1)
  <2>1. LastFrame(i) < LastFrame(k)
    BY <1>6, LastFrames
  <2>2. LastFrame(i) + 1 < LastFrame(k) + 1
    BY <2>1, <1>2
  <2> QED
    BY <2>2, <1>2, StartsGrow
<1>7. Start(LastFrame(0) + 1) >= 1
  BY <1>1, <1>3, Starts
<1> HIDE DEF EndOf, Start, LastFrame, Packets, Frames
<1>8. \A i \in 0..Packets : i # 0 => EndOf(i) \in Nat /\ EndOf(i) >= 1
  <2> SUFFICES ASSUME NEW i \in 0..Packets, i # 0 PROVE EndOf(i) \in Nat /\ EndOf(i) >= 1
    OBVIOUS
  <2>1. Start(LastFrame(0) + 1) < Start(LastFrame(i) + 1)
    BY <1>1, <1>3, <1>6
  <2> QED
    BY <2>1, <1>3, <1>4, <1>5, <1>7
<1>9. ASSUME NEW i \in 0..Packets, NEW k \in 0..Packets, i < k
      PROVE  EndOf(i) < EndOf(k)
  <2>1. k # 0 /\ k \in Nat /\ i \in Nat
    BY <1>1, <1>9
  <2>2. CASE i = 0
    BY <2>1, <2>2, <1>4, <1>8
  <2>3. CASE i # 0
    BY <2>1, <2>3, <1>4, <1>5, <1>6, <1>9
  <2> QED
    BY <2>2, <2>3
<1>10. EndOf(0) = 0
  BY <1>3, <1>4
<1>11. \A i \in 0..Packets : EndOf(i) \in Nat
  BY <1>8, <1>10
<1> QED
  BY <1>1, <1>9, <1>10, <1>11 DEF Total

LEMMA EndsGrow ==
    ASSUME stream \in Streams, NEW i \in 0..Packets, NEW k \in 0..Packets, i <= k
    PROVE  EndOf(i) <= EndOf(k)
<1>1. Packets \in Nat
  BY StreamLaidOut
<1>2. i \in Nat /\ k \in Nat /\ EndOf(i) \in Nat /\ EndOf(k) \in Nat
  BY <1>1, Ends
<1>3. CASE i = k
  BY <1>2, <1>3
<1>4. CASE i < k
  <2>1. EndOf(i) < EndOf(k)
    BY <1>4, Ends
  <2> QED
    BY <2>1, <1>2
<1> QED
  BY <1>2, <1>3, <1>4

----------------------------------------------------------------------------
(* Buffers of bytes that follow each other.                                 *)

LEMMA IntervalIsFrom ==
    ASSUME NEW p \in Int, NEW n \in Nat
    PROVE  /\ Interval(p, n) \in Seq(Int) /\ Len(Interval(p, n)) = n
           /\ From(Interval(p, n), p)
<1>1. Interval(p, n) = [i \in 1..n |-> p + i - 1]
  BY DEF Interval
<1>2. Interval(p, n) \in [1..n -> Int]
  BY <1>1
<1>3. Interval(p, n) \in Seq(Int)
  BY <1>2, SeqDef
<1>4. Len(Interval(p, n)) = n
  BY <1>2, <1>3, LenProperties
<1> QED
  BY <1>1, <1>3, <1>4 DEF From

LEMMA FromIsInterval ==
    ASSUME NEW b \in Seq(Int), NEW p \in Int, From(b, p)
    PROVE  b = Interval(p, Len(b))
<1>1. Len(b) \in Nat /\ b = [i \in 1..Len(b) |-> b[i]]
  BY LenProperties
<1> QED
  BY <1>1 DEF From, Interval

LEMMA DropFrom ==
    ASSUME NEW b \in Seq(Int), NEW p \in Int, From(b, p), NEW n \in 0..Len(b)
    PROVE  /\ SubSeq(b, n + 1, Len(b)) \in Seq(Int)
           /\ Len(SubSeq(b, n + 1, Len(b))) = Len(b) - n
           /\ From(SubSeq(b, n + 1, Len(b)), p + n)
<1>1. PICK l \in Nat : l = Len(b)
  BY LenProperties
<1>2. \A i \in n + 1..l : b[i] \in Int /\ b[i] = p + i - 1
  BY <1>1, ElementOfSeq DEF From
<1>3. n \in Int /\ n + 1 \in Int /\ l \in Int
  BY <1>1
<1>4. /\ SubSeq(b, n + 1, l) \in Seq(Int)
      /\ Len(SubSeq(b, n + 1, l)) = IF n + 1 <= l THEN l - (n + 1) + 1 ELSE 0
      /\ \A i \in 1..l - (n + 1) + 1 : SubSeq(b, n + 1, l)[i] = b[(n + 1) + i - 1]
  BY <1>2, <1>3, SubSeqProperties
<1>5. Len(SubSeq(b, n + 1, l)) = l - n
  BY <1>1, <1>4
<1>6. \A i \in 1..l - n : SubSeq(b, n + 1, l)[i] = (p + n) + i - 1
  BY <1>1, <1>2, <1>4
<1> QED
  BY <1>1, <1>4, <1>5, <1>6 DEF From

LEMMA TakeFrom ==
    ASSUME NEW b \in Seq(Int), NEW p \in Int, From(b, p), NEW n \in 0..Len(b)
    PROVE  /\ SubSeq(b, 1, n) \in Seq(Int)
           /\ Len(SubSeq(b, 1, n)) = n
           /\ From(SubSeq(b, 1, n), p)
           /\ SubSeq(b, 1, n) = Interval(p, n)
<1>1. PICK l \in Nat : l = Len(b)
  BY LenProperties
<1>2. n \in Nat /\ n <= l
  BY <1>1
<1>3. \A i \in 1..n : b[i] \in Int /\ b[i] = p + i - 1
  BY <1>1, <1>2, ElementOfSeq DEF From
<1>4. /\ SubSeq(b, 1, n) \in Seq(Int)
      /\ Len(SubSeq(b, 1, n)) = IF 1 <= n THEN n - 1 + 1 ELSE 0
      /\ \A i \in 1..n - 1 + 1 : SubSeq(b, 1, n)[i] = b[1 + i - 1]
  BY <1>2, <1>3, SubSeqProperties
<1>5. Len(SubSeq(b, 1, n)) = n
  BY <1>2, <1>4
<1>6. From(SubSeq(b, 1, n), p)
  BY <1>2, <1>3, <1>4, <1>5 DEF From
<1>7. SubSeq(b, 1, n) = Interval(p, n)
  BY <1>4, <1>5, <1>6, FromIsInterval
<1> QED
  BY <1>4, <1>5, <1>6, <1>7

LEMMA JoinFrom ==
    ASSUME NEW a \in Seq(Int), NEW b \in Seq(Int), NEW p \in Int, From(a, p), From(b, p + Len(a))
    PROVE  /\ a \o b \in Seq(Int) /\ Len(a \o b) = Len(a) + Len(b)
           /\ From(a \o b, p)
<1>1. Len(a) \in Nat /\ Len(b) \in Nat
  BY LenProperties
<1>2. /\ a \o b \in Seq(Int) /\ Len(a \o b) = Len(a) + Len(b)
      /\ \A i \in 1..Len(a) + Len(b) : (a \o b)[i] = IF i <= Len(a) THEN a[i] ELSE b[i - Len(a)]
  BY ConcatProperties
<1>3. ASSUME NEW i \in 1..Len(a) + Len(b)
      PROVE  (a \o b)[i] = p + i - 1
  <2>1. CASE i <= Len(a)
    <3>1. i \in 1..Len(a)
      BY <2>1, <1>1
    <3> QED
      BY <3>1, <2>1, <1>2 DEF From
  <2>2. CASE ~(i <= Len(a))
    <3>1. i - Len(a) \in 1..Len(b)
      BY <2>2, <1>1
    <3>2. b[i - Len(a)] = (p + Len(a)) + (i - Len(a)) - 1
      BY <3>1 DEF From
    <3> QED
      BY <3>2, <2>2, <1>1, <1>2
  <2> QED
    BY <2>1, <2>2
<1> QED
  BY <1>2, <1>3 DEF From

(* The parts of a packet.                                                   *)

LEMMA RawsDomain ==
    ASSUME NEW S
    PROVE  /\ DOMAIN RawsOf(S) = {Frames[f].index : f \in S}
           /\ \A j \in {Frames[f].index : f \in S} :
                RawsOf(S)[j] = PayloadOf(FrameOf(j, S))
BY DEF RawsOf

LEMMA RawsGrow ==
    ASSUME stream \in Streams, NEW n \in 0..Packets, n < Packets,
           NEW f \in LastFrame(n) + 1..LastFrame(n + 1),
           NEW parts, parts = RawsOf(LastFrame(n) + 1..f - 1)
    PROVE  /\ Frames[f].index \notin DOMAIN parts
           /\ RawsOf(LastFrame(n) + 1..f) =
                [j \in DOMAIN parts \cup {Frames[f].index} |->
                    IF j \in DOMAIN parts THEN parts[j] ELSE PayloadOf(f)]
<1>1. Packets \in Nat /\ Len(Frames) \in Nat
  BY StreamLaidOut
<1>2. LastFrame(n) \in Nat /\ LastFrame(n + 1) \in Nat
  BY <1>1, LastFrames
<1> DEFINE a == LastFrame(n) + 1
           old == a..f - 1
           new == a..f
           index(g) == Frames[g].index
<1>3. f \in new /\ f \notin old /\ new = old \cup {f}
  BY <1>2
<1>4. ASSUME NEW g \in new, NEW h \in new, index(g) = index(h)
      PROVE  g = h
  <2>1. g \in LastFrame(n) + 1..LastFrame(n + 1) /\ h \in LastFrame(n) + 1..LastFrame(n + 1)
    BY <1>2
  <2>2. g \in Int /\ h \in Int
    BY <1>2
  <2>3. ~(g < h) /\ ~(h < g)
    BY <2>1, <1>4, PartsDiffer
  <2> QED
    BY <2>2, <2>3
<1>5. DOMAIN parts = {index(g) : g \in old} /\ DOMAIN RawsOf(new) = {index(g) : g \in new}
  BY RawsDomain
<1>6. \A j \in {index(g) : g \in old} : parts[j] = PayloadOf(FrameOf(j, old))
  BY RawsDomain
<1>7. \A j \in {index(g) : g \in new} : RawsOf(new)[j] = PayloadOf(FrameOf(j, new))
  BY RawsDomain
<1>8. \A g \in new : FrameOf(index(g), new) = g
  BY <1>4 DEF FrameOf
<1>9. \A g \in old : FrameOf(index(g), old) = g
  BY <1>3, <1>4 DEF FrameOf
<1>10. index(f) \notin DOMAIN parts
  BY <1>3, <1>4, <1>5
<1>11. DOMAIN RawsOf(new) = DOMAIN parts \cup {index(f)}
  BY <1>3, <1>5
<1>12. RawsOf(new)[index(f)] = PayloadOf(f)
  BY <1>3, <1>7, <1>8
<1>13. \A g \in old : RawsOf(new)[index(g)] = PayloadOf(g) /\ parts[index(g)] = PayloadOf(g)
  BY <1>3, <1>6, <1>7, <1>8, <1>9
<1>14. \A j \in DOMAIN parts : RawsOf(new)[j] = parts[j]
  BY <1>5, <1>13
<1>15. RawsOf(new) = [j \in DOMAIN RawsOf(new) |-> RawsOf(new)[j]]
  BY DEF RawsOf
<1> HIDE DEF index, old, new
<1>16. RawsOf(new) = [j \in DOMAIN parts \cup {index(f)} |->
                        IF j \in DOMAIN parts THEN parts[j] ELSE PayloadOf(f)]
  BY <1>10, <1>11, <1>12, <1>14, <1>15
<1> QED
  BY <1>10, <1>16 DEF index, new

LEMMA NoRawsYet ==
    ASSUME NEW n \in Int
    PROVE  RawsOf(n + 1..n) = RawsOf({}) /\ DOMAIN RawsOf({}) = {}
<1>1. n + 1..n = {}
  OBVIOUS
<1>2. DOMAIN RawsOf({}) = {Frames[f].index : f \in {}}
  BY RawsDomain
<1> QED
  BY <1>1, <1>2

(* A stream that stays the same has the same frames and packets.            *)

LEMMA SameStream ==
    ASSUME stream' = stream
    PROVE  /\ Frames' = Frames /\ Packets' = Packets /\ FirstBytes' = FirstBytes /\ Total' = Total
           /\ \A f \in Int : Start(f)' = Start(f) /\ PayloadOf(f)' = PayloadOf(f) /\ HeaderOf(f)' = HeaderOf(f)
           /\ \A i \in Int : LastFrame(i)' = LastFrame(i) /\ EndOf(i)' = EndOf(i)
BY DEF Frames, Packets, FirstBytes, Total, Start, PayloadOf, HeaderOf, LastFrame, EndOf

LEMMA SameContents ==
    ASSUME stream' = stream
    PROVE  /\ \A S : RawsOf(S)' = RawsOf(S)
           /\ \A i \in Int : PacketContent(i)' = PacketContent(i)
           /\ \A i \in Int : WellFormed(i)' <=> WellFormed(i)
           /\ Buffers' = Buffers
BY SameStream DEF RawsOf, FrameOf, PacketContent, WellFormed, Buffers, Content, PayloadOf,
     Frames, LastFrame, Start
----------------------------------------------------------------------------
(* What a step does to the bytes on their way.                              *)

LEMMA PositionIsInt ==
    ASSUME FlowTypes, NEW f \in 1..Len(Frames) + 1
    PROVE  Position(f) \in Int /\ Start(f) \in Nat /\ Len(header) \in Nat /\ Len(unparsed) \in Nat /\ f \in Nat
<1>1. Start(f) \in Nat /\ Len(Frames) \in Nat
  BY Starts, StreamLaidOut DEF FlowTypes
<1>2. Len(header) \in Nat /\ Len(unparsed) \in Nat
  BY LenProperties DEF FlowTypes
<1>3. HeaderSize \in Nat
  BY InputAssumption
<1>4. Position(f) = 1 \/ Position(f) = Start(f) + HeaderSize \/ Position(f) = Start(f) + Len(header)
  BY DEF Position
<1> HIDE DEF Position, Start, Frames
<1> QED
  BY <1>1, <1>2, <1>3, <1>4

LEMMA AtFrameKept ==
    ASSUME FlowTypes, NEW f \in 1..Len(Frames) + 1, AtFrame(f), got' \in Nat, got <= got',
           UNCHANGED <<stream, waitHeader, unparsed, header, frame>>
    PROVE  AtFrame(f)' /\ Position(f)' = Position(f)
<1>1. f \in Int /\ Start(f)' = Start(f) /\ Frames' = Frames
  <2>1. f \in Int
    BY StreamLaidOut DEF FlowTypes
  <2> QED
    BY <2>1, SameStream
<1>2. Position(f)' = Position(f)
  BY <1>1 DEF Position, Skipping
<1>3. Position(f) + Len(unparsed) <= got' + 1
  BY PositionIsInt DEF AtFrame, FlowTypes
<1> QED
  BY <1>1, <1>2, <1>3 DEF AtFrame, Skipping

LEMMA InPacketKept ==
    ASSUME FlowTypes, NEW f \in 1..Len(Frames) + 1, InPacket(f),
           UNCHANGED <<stream, parsed, raws>>
    PROVE  InPacket(f)'
<1>1. \A i \in Int : PacketContent(i)' = PacketContent(i)
  BY SameContents
<1>2. \A S : RawsOf(S)' = RawsOf(S)
  BY SameContents
<1>3. Frames' = Frames /\ Packets' = Packets
  BY SameStream
<1> QED
  BY <1>1, <1>2, <1>3 DEF InPacket, FirstFrame, LastFrame

LEMMA ReachesKept ==
    ASSUME NEW next \in Int, Reaches(next), UNCHANGED <<got, hand, readQueue>>,
           reader = "put" <=> reader' = "put"
    PROVE  Reaches(next)'
BY DEF Reaches

LEMMA ReachesPop ==
    ASSUME FlowTypes, NEW next \in Int, Reaches(next), readQueue # <<>>,
           readQueue' = Tail(readQueue), UNCHANGED <<got, hand, reader>>
    PROVE  /\ \A s \in Int : s = next + Len(Head(readQueue)) => Reaches(s)'
           /\ Head(readQueue) \in Seq(Int) /\ Len(Head(readQueue)) \in Nat
           /\ From(Head(readQueue), next) /\ next + Len(Head(readQueue)) <= got + 1
<1> DEFINE first == Head(readQueue)
           n == Len(readQueue)
<1>1. /\ readQueue \in Seq(Seq(Int)) /\ got \in Nat /\ hand \in Seq(Int)
  BY DEF FlowTypes
<1>2. n \in Nat \ {0}
  BY <1>1, EmptySeq
<1>3. first = readQueue[1] /\ first \in Seq(Int)
  BY <1>1, HeadTailProperties
<1>4. /\ Len(Tail(readQueue)) = n - 1 /\ \A i \in 1..n - 1 : Tail(readQueue)[i] = readQueue[i + 1]
  BY <1>1, HeadTailProperties
<1>5. \A i \in 1..n : readQueue[i] \in Seq(Int)
  BY <1>1, ElementOfSeq
<1>6. Len(first) \in Nat /\ first # <<>> => Len(first) \in Nat \ {0}
  BY <1>3, EmptySeq, LenProperties
<1>7. 1 \in 1..n
  BY <1>2
<1>8. first # <<>> /\ From(first, next) /\ first[1] + Len(first) <= got + 1
  BY <1>3, <1>7 DEF Reaches
<1>9. Len(first) \in Nat \ {0} /\ 1 \in 1..Len(first)
  BY <1>6, <1>8
<1>10. first[1] = next
  BY <1>8, <1>9 DEF From
<1>11. ASSUME NEW i \in 1..n - 1
       PROVE  /\ Tail(readQueue)[i] # <<>> /\ Tail(readQueue)[i][1] + Len(Tail(readQueue)[i]) <= got + 1
              /\ From(Tail(readQueue)[i], IF i = 1 THEN next + Len(first)
                        ELSE Tail(readQueue)[i - 1][1] + Len(Tail(readQueue)[i - 1]))
  <2>1. i + 1 \in 1..n /\ i + 1 # 1 /\ (i + 1) - 1 = i
    BY <1>2
  <2>2. /\ readQueue[i + 1] # <<>> /\ readQueue[i + 1][1] + Len(readQueue[i + 1]) <= got + 1
        /\ From(readQueue[i + 1], readQueue[i][1] + Len(readQueue[i]))
    BY <2>1 DEF Reaches
  <2>3. Tail(readQueue)[i] = readQueue[i + 1]
    BY <1>4
  <2>4. CASE i = 1
    BY <2>2, <2>3, <2>4, <1>3, <1>10
  <2>5. CASE i # 1
    <3>1. i - 1 \in 1..n - 1 /\ (i - 1) + 1 = i
      BY <2>5, <1>2
    <3>2. Tail(readQueue)[i - 1] = readQueue[i]
      BY <3>1, <1>4
    <3> QED
      BY <3>2, <2>2, <2>3, <2>5
  <2> QED
    BY <2>4, <2>5
<1>12. got + 1 - Len(hand) = readQueue[n][1] + Len(readQueue[n])
  BY DEF Reaches
<1>13. got + 1 - Len(hand) = IF Tail(readQueue) = <<>> THEN next + Len(first)
                             ELSE Tail(readQueue)[n - 1][1] + Len(Tail(readQueue)[n - 1])
  <2>1. CASE Tail(readQueue) = <<>>
    <3>1. n - 1 = 0
      BY <2>1, <1>4, EmptySeq
    <3>2. n = 1
      BY <3>1, <1>2
    <3> QED
      BY <3>2, <2>1, <1>3, <1>10, <1>12
  <2>2. CASE Tail(readQueue) # <<>>
    <3>1. Tail(readQueue) \in Seq(Seq(Int))
      BY <1>1, HeadTailProperties
    <3>2. PICK l \in Nat : l = n
      BY <1>2
    <3>3. l - 1 \in Nat \ {0}
      BY <3>1, <3>2, <2>2, <1>4, EmptySeq
    <3>4. l - 1 \in 1..l - 1 /\ (l - 1) + 1 = l
      BY <3>3
    <3>5. Tail(readQueue)[l - 1] = readQueue[(l - 1) + 1]
      BY <3>2, <3>4, <1>4
    <3> QED
      BY <3>2, <3>4, <3>5, <2>2, <1>12
  <2> QED
    BY <2>1, <2>2
<1>14. ASSUME NEW s \in Int, s = next + Len(first)
       PROVE  Reaches(s)'
  <2>1. From(hand, got + 1 - Len(hand)) /\ (hand # <<>> <=> reader = "put")
    BY DEF Reaches
  <2>2. Len(Tail(readQueue)) = n - 1
    BY <1>4
  <2>3. \A i \in 1..Len(readQueue') :
          /\ readQueue'[i] # <<>> /\ readQueue'[i][1] + Len(readQueue'[i]) <= got' + 1
          /\ From(readQueue'[i], IF i = 1 THEN s
                                ELSE readQueue'[i - 1][1] + Len(readQueue'[i - 1]))
    <3> SUFFICES ASSUME NEW i \in 1..n - 1
                 PROVE  /\ Tail(readQueue)[i] # <<>> /\ Tail(readQueue)[i][1] + Len(Tail(readQueue)[i]) <= got + 1
                        /\ From(Tail(readQueue)[i], IF i = 1 THEN s
                              ELSE Tail(readQueue)[i - 1][1] + Len(Tail(readQueue)[i - 1]))
      BY <2>2
    <3>1. CASE i = 1
      BY <3>1, <1>11, <1>14
    <3>2. CASE i # 1
      BY <3>2, <1>11
    <3> QED
      BY <3>1, <3>2
  <2>4. got' + 1 - Len(hand') = IF readQueue' = <<>> THEN s
                              ELSE readQueue'[Len(readQueue')][1] + Len(readQueue'[Len(readQueue')])
    BY <1>13, <1>14, <2>2
  <2>5. From(hand', got' + 1 - Len(hand')) /\ (hand' # <<>> <=> reader' = "put")
    BY <2>1
  <2> QED
    BY <2>3, <2>4, <2>5 DEF Reaches
<1> QED
  BY <1>3, <1>8, <1>9, <1>10, <1>14
LEMMA ReachesPush ==
    ASSUME FlowTypes, NEW next \in Int, Reaches(next), reader = "put", reader' # "put",
           readQueue' = Append(readQueue, hand), hand' = <<>>, got' = got
    PROVE  Reaches(next)'
<1>1. /\ readQueue \in Seq(Seq(Int)) /\ got \in Nat /\ hand \in Seq(Int)
  BY DEF FlowTypes
<1>2. PICK n \in Nat : n = Len(readQueue)
  BY <1>1, LenProperties
<1>3. PICK l \in Nat \ {0} : l = Len(hand)
  BY <1>1, EmptySeq DEF Reaches
<1>4. /\ Len(readQueue') = n + 1 /\ readQueue' # <<>> /\ readQueue'[n + 1] = hand
      /\ \A i \in 1..n : readQueue'[i] = readQueue[i]
  <2>1. /\ Append(readQueue, hand) \in Seq(Seq(Int))
        /\ Len(Append(readQueue, hand)) = Len(readQueue) + 1
        /\ \A i \in 1..Len(readQueue) : Append(readQueue, hand)[i] = readQueue[i]
        /\ Append(readQueue, hand)[Len(readQueue) + 1] = hand
    BY <1>1, AppendProperties
  <2> QED
    BY <2>1, <1>2, EmptySeq
<1>5. From(hand, got + 1 - l) /\ hand # <<>>
  BY <1>3 DEF Reaches
<1>6. hand[1] = got + 1 - l
  <2>1. hand[1] = (got + 1 - l) + 1 - 1
    BY <1>3, <1>5 DEF From
  <2> QED
    BY <2>1, <1>1
<1>7. got + 1 - l = IF n = 0 THEN next ELSE readQueue[n][1] + Len(readQueue[n])
  <2>1. readQueue = <<>> <=> n = 0
    BY <1>1, <1>2, EmptySeq
  <2> QED
    BY <2>1, <1>2, <1>3 DEF Reaches
<1>8. ASSUME NEW i \in 1..n + 1
      PROVE  /\ readQueue'[i] # <<>> /\ readQueue'[i][1] + Len(readQueue'[i]) <= got' + 1
             /\ From(readQueue'[i], IF i = 1 THEN next
                       ELSE readQueue'[i - 1][1] + Len(readQueue'[i - 1]))
  <2>1. CASE i = n + 1
    <3>1. hand[1] + Len(hand) <= got + 1
      BY <1>1, <1>3, <1>6
    <3>2. CASE n = 0
      BY <3>1, <3>2, <2>1, <1>4, <1>5, <1>7
    <3>3. CASE n # 0
      <4>1. i # 1 /\ i - 1 = n /\ n \in 1..n
        BY <3>3, <2>1
      <4>2. readQueue'[i - 1] = readQueue[n] /\ readQueue'[i] = hand
        BY <4>1, <2>1, <1>4
      <4> QED
        BY <4>1, <4>2, <3>1, <3>3, <1>5, <1>7
    <3> QED
      BY <3>2, <3>3
  <2>2. CASE i # n + 1
    <3>1. i \in 1..n
      BY <2>2
    <3>2. i # 1 => i - 1 \in 1..n
      BY <3>1
    <3>3. /\ readQueue[i] # <<>> /\ readQueue[i][1] + Len(readQueue[i]) <= got + 1
          /\ From(readQueue[i], IF i = 1 THEN next ELSE readQueue[i - 1][1] + Len(readQueue[i - 1]))
      BY <3>1, <1>2 DEF Reaches
    <3>4. readQueue'[i] = readQueue[i] /\ (i # 1 => readQueue'[i - 1] = readQueue[i - 1])
      BY <3>1, <3>2, <1>4
    <3>5. CASE i = 1
      BY <3>3, <3>4, <3>5
    <3>6. CASE i # 1
      BY <3>3, <3>4, <3>6
    <3> QED
      BY <3>5, <3>6
  <2> QED
    BY <2>1, <2>2
<1>9. got' + 1 - Len(hand') = readQueue'[n + 1][1] + Len(readQueue'[n + 1])
  <2>1. Len(hand') = 0
    BY EmptySeq
  <2>2. readQueue'[n + 1][1] = got + 1 - l /\ Len(readQueue'[n + 1]) = l
    BY <1>3, <1>4, <1>6
  <2> QED
    BY <2>1, <2>2, <1>1, <1>3
<1>10. From(hand', got' + 1 - Len(hand')) /\ (hand' # <<>> <=> reader' = "put")
  BY EmptySeq DEF From
<1> QED
  BY <1>4, <1>8, <1>9, <1>10 DEF Reaches

LEMMA ReachesRead ==
    ASSUME FlowTypes, NEW next \in Int, Reaches(next), reader # "put", reader' = "put",
           NEW count \in Nat \ {0}, hand' = Interval(got + 1, count), got' = got + count,
           readQueue' = readQueue
    PROVE  Reaches(next)'
<1>1. got \in Nat /\ hand = <<>> /\ Len(hand) = 0
  BY EmptySeq DEF FlowTypes, Reaches
<1>2. hand' \in Seq(Int) /\ Len(hand') = count /\ From(hand', got + 1)
  BY <1>1, IntervalIsFrom
<1>3. got' + 1 - Len(hand') = got + 1 - Len(hand) /\ got' + 1 - Len(hand') = got + 1
  BY <1>1, <1>2
<1>4. hand' # <<>>
  BY <1>2, EmptySeq
<1>5. PICK n \in Nat : n = Len(readQueue)
  BY LenProperties DEF FlowTypes
<1>6. ASSUME NEW i \in 1..n
      PROVE  readQueue[i][1] + Len(readQueue[i]) <= got' + 1
  <2>1. readQueue[i] \in Seq(Int)
    BY <1>5, ElementOfSeq DEF FlowTypes
  <2>2. readQueue[i] # <<>> /\ readQueue[i][1] + Len(readQueue[i]) <= got + 1
    BY <1>5 DEF Reaches
  <2>3. Len(readQueue[i]) \in Nat \ {0}
    BY <2>1, <2>2, EmptySeq
  <2>4. readQueue[i][1] \in Int
    <3>1. 1 \in 1..Len(readQueue[i])
      BY <2>3
    <3> QED
      BY <3>1, <2>1, ElementOfSeq
  <2> QED
    BY <2>2, <2>3, <2>4, <1>1
<1> QED
  BY <1>2, <1>3, <1>4, <1>5, <1>6 DEF Reaches

----------------------------------------------------------------------------
(* The steps that leave the next frame what it is.                          *)

flowVars == <<stream, got, hand, readQueue, waitHeader, unparsed, header, frame, raws,
              parsed, closed>>

LEMMA ReachesMoved ==
    ASSUME FlowTypes, NEW f \in 1..Len(Frames) + 1, FlowAt(f), ~closed
    PROVE  \E next \in Int : next = Position(f) + Len(unparsed) /\ Reaches(next)
<1>1. Position(f) + Len(unparsed) \in Int
  BY PositionIsInt
<1>2. Reaches(Position(f) + Len(unparsed))
  BY DEF FlowAt
<1> QED
  BY <1>1, <1>2

LEMMA FlowUntouched ==
    ASSUME FlowTypes, NEW f \in 1..Len(Frames) + 1, FlowAt(f), UNCHANGED flowVars,
           reader = "put" <=> reader' = "put"
    PROVE  FlowAt(f)'
<1>1. got' \in Nat /\ got <= got'
  BY DEF flowVars, FlowTypes
<1>2. AtFrame(f)' /\ Position(f)' = Position(f)
  BY <1>1, AtFrameKept DEF flowVars, FlowAt
<1>3. InPacket(f)'
  BY InPacketKept DEF flowVars, FlowAt
<1>4. CASE closed
  BY <1>2, <1>3, <1>4 DEF flowVars, FlowAt
<1>5. CASE ~closed
  <2>1. PICK next \in Int : next = Position(f) + Len(unparsed) /\ Reaches(next)
    BY <1>5, ReachesMoved
  <2>2. Reaches(next)'
    BY <2>1, ReachesKept DEF flowVars
  <2>3. Position(f)' + Len(unparsed)' = next
    BY <2>1, <1>2 DEF flowVars
  <2> QED
    BY <2>2, <2>3, <1>2, <1>3 DEF FlowAt
<1> QED
  BY <1>4, <1>5

LEMMA ReadFlow ==
    ASSUME FlowTypes, NEW f \in 1..Len(Frames) + 1, FlowAt(f), Read
    PROVE  FlowAt(f)'
<1>1. PICK count \in 1..ReadSize : hand' = Interval(got + 1, count) /\ got' = got + count
  BY DEF Read
<1>2. count \in Nat \ {0} /\ got \in Nat
  BY InputAssumption DEF FlowTypes
<1>3. got' \in Nat /\ got <= got'
  BY <1>1, <1>2
<1>4. /\ UNCHANGED <<stream, waitHeader, unparsed, header, frame>>
      /\ UNCHANGED <<stream, parsed, raws>> /\ readQueue' = readQueue
      /\ reader # "put" /\ reader' = "put" /\ ~closed /\ unparsed' = unparsed
  BY DEF Read, inputPeer, inputParser
<1>5. AtFrame(f)' /\ Position(f)' = Position(f)
  BY <1>3, <1>4, AtFrameKept DEF FlowAt
<1>6. InPacket(f)'
  BY <1>4, InPacketKept DEF FlowAt
<1>7. PICK next \in Int : next = Position(f) + Len(unparsed) /\ Reaches(next)
  BY <1>4, ReachesMoved
<1>8. Reaches(next)'
  BY <1>1, <1>2, <1>4, <1>7, ReachesRead
<1>9. Position(f)' + Len(unparsed)' = next
  BY <1>4, <1>5, <1>7
<1> QED
  BY <1>5, <1>6, <1>8, <1>9 DEF FlowAt

LEMMA PutFlow ==
    ASSUME FlowTypes, NEW f \in 1..Len(Frames) + 1, FlowAt(f), Put
    PROVE  FlowAt(f)'
<1>1. /\ UNCHANGED <<stream, waitHeader, unparsed, header, frame>>
      /\ UNCHANGED <<stream, parsed, raws>> /\ got' = got /\ closed' = closed /\ unparsed' = unparsed
      /\ reader = "put" /\ reader' # "put" /\ hand' = <<>>
  BY DEF Put, inputPeer, inputParser
<1>2. got' \in Nat /\ got <= got'
  BY <1>1 DEF FlowTypes
<1>3. AtFrame(f)' /\ Position(f)' = Position(f)
  BY <1>1, <1>2, AtFrameKept DEF FlowAt
<1>4. InPacket(f)'
  BY <1>1, InPacketKept DEF FlowAt
<1>5. CASE closed
  BY <1>1, <1>3, <1>4, <1>5 DEF FlowAt
<1>6. CASE ~closed
  <2>1. PICK next \in Int : next = Position(f) + Len(unparsed) /\ Reaches(next)
    BY <1>6, ReachesMoved
  <2>2. readQueue' = Append(readQueue, hand)
    BY <1>6 DEF Put
  <2>3. Reaches(next)'
    BY <2>1, <2>2, <1>1, ReachesPush
  <2>4. Position(f)' + Len(unparsed)' = next
    BY <2>1, <1>1, <1>3
  <2> QED
    BY <2>3, <2>4, <1>3, <1>4 DEF FlowAt
<1> QED
  BY <1>5, <1>6

LEMMA CloseFlow ==
    ASSUME FlowTypes, NEW f \in 1..Len(Frames) + 1, FlowAt(f), CloseInput,
           UNCHANGED <<stream, got, waitHeader, unparsed, header, frame, raws, parsed>>
    PROVE  FlowAt(f)'
<1>1. got' \in Nat /\ got <= got'
  BY DEF FlowTypes
<1>2. AtFrame(f)'
  BY <1>1, AtFrameKept DEF FlowAt
<1>3. InPacket(f)'
  BY InPacketKept DEF FlowAt
<1> QED
  BY <1>2, <1>3 DEF FlowAt, CloseInput

(* GetBuffer.                                                               *)

\* The first header that is found is that of the first frame.
LEMMA FoundIsFirst ==
    ASSUME stream \in Streams, stream.ssh, NEW bytes \in Seq(Int), From(bytes, 1), FoundAt(bytes) # 0
    PROVE  FoundAt(bytes) = stream.noise + 1 /\ stream.noise < Len(bytes)
<1> DEFINE found == {i \in 1..Len(bytes) - HeaderSize + 1 : bytes[i] \in stream.looks}
           least(i) == \A j \in found : i <= j
<1>1. Len(bytes) \in Nat /\ HeaderSize \in Nat \ {0} /\ Len(Frames) \in Nat /\ stream.noise \in Nat
  BY LenProperties, InputAssumption, StreamLaidOut
<1>2. found # {} /\ FoundAt(bytes) = CHOOSE i \in found : least(i)
  BY DEF FoundAt
<1>3. \A i \in found : bytes[i] = i /\ i \in 1..Len(bytes)
  BY <1>1 DEF From
<1>4. PICK k \in found : TRUE
  BY <1>2
<1>5. k \in stream.looks
  BY <1>3, <1>4
<1>6. \A b \in stream.looks : stream.noise + 1 <= b
  BY StreamLaidOut DEF Layout
<1>7. stream.noise + 1 \in stream.looks
  <2>1. Len(Frames) > 0
    <3> SUFFICES ASSUME Len(Frames) = 0 PROVE FALSE
      BY <1>1
    <3>1. stream.looks \subseteq 1..stream.start[1] - 1 /\ stream.start[1] = stream.noise + 1
      BY StreamLaidOut DEF Layout, Frames
    <3> HIDE DEF found
    <3> QED
      BY <3>1, <1>1, <1>5, <1>6
  <2> QED
    BY <2>1, StreamLaidOut DEF Layout, Frames
<1>8. \A i \in found : stream.noise + 1 <= i
  BY <1>3, <1>6
<1>9. stream.noise + 1 \in 1..Len(bytes) - HeaderSize + 1
  <2>1. k \in 1..Len(bytes) - HeaderSize + 1 /\ stream.noise + 1 <= k
    BY <1>8, <1>4
  <2> HIDE DEF found
  <2> QED
    BY <2>1, <1>1
<1>10. stream.noise + 1 \in found
  <2>1. PICK n \in Nat : n = stream.noise
    BY <1>1
  <2>2. n + 1 \in 1..Len(bytes)
    BY <2>1, <1>1, <1>9
  <2>3. bytes[n + 1] = n + 1
    BY <2>1, <2>2 DEF From
  <2> QED
    BY <2>1, <2>3, <1>7, <1>9
<1>11. least(stream.noise + 1)
  BY <1>8
<1>12. FoundAt(bytes) \in found /\ least(FoundAt(bytes))
  BY <1>2, <1>10, <1>11
<1>13. FoundAt(bytes) <= stream.noise + 1 /\ stream.noise + 1 <= FoundAt(bytes)
  BY <1>8, <1>10, <1>12
<1>14. FoundAt(bytes) \in Int
  BY <1>12
<1> HIDE DEF found, least
<1> QED
  BY <1>1, <1>9, <1>13, <1>14

LEMMA GetBufferFlow ==
    ASSUME FlowTypes, NEW f \in 1..Len(Frames) + 1, FlowAt(f), GetBuffer, waitHeader => stream.ssh,
           closed => readQueue = <<<<>>>>
    PROVE  /\ FlowAt(f)'
           /\ LET joined == unparsed \o Head(readQueue) IN
              waitHeader /\ FoundAt(joined) # 0 => FoundAt(joined) \in 1..Len(joined)
<1> DEFINE joined == unparsed \o Head(readQueue)
           buf == Head(readQueue)
<1>1. /\ readQueue # <<>> /\ Head(readQueue) # <<>> /\ readQueue' = Tail(readQueue)
      /\ UNCHANGED <<stream, header, frame>> /\ UNCHANGED <<got, hand, reader>>
      /\ UNCHANGED <<stream, parsed, raws>> /\ closed' = closed
  BY DEF GetBuffer, inputPeer, inputReader
<1>2. ~closed
  BY <1>1
<1>3. PICK next \in Int : next = Position(f) + Len(unparsed) /\ Reaches(next)
  BY <1>2, ReachesMoved
<1>4. /\ \A s \in Int : s = next + Len(buf) => Reaches(s)'
      /\ buf \in Seq(Int) /\ Len(buf) \in Nat /\ From(buf, next) /\ next + Len(buf) <= got + 1
  BY <1>1, <1>3, ReachesPop
<1>5. /\ Position(f) \in Int /\ Start(f) \in Nat /\ Len(header) \in Nat /\ Len(unparsed) \in Nat /\ f \in Nat
      /\ unparsed \in Seq(Int) /\ From(unparsed, Position(f)) /\ got \in Nat
  BY PositionIsInt DEF FlowTypes, FlowAt, AtFrame
<1>6. /\ joined \in Seq(Int) /\ Len(joined) = Len(unparsed) + Len(buf) /\ From(joined, Position(f))
  BY <1>3, <1>4, <1>5, JoinFrom
<1>7. Position(f) + Len(joined) = next + Len(buf) /\ Position(f) + Len(joined) <= got + 1
  BY <1>3, <1>4, <1>5, <1>6
<1>8. InPacket(f)'
  BY <1>1, InPacketKept DEF FlowAt
<1>9. Start(f)' = Start(f) /\ Frames' = Frames
  BY <1>1, <1>5, SameStream
<1> HIDE DEF joined, buf
<1>10. ASSUME waitHeader' = waitHeader /\ unparsed' = joined
       PROVE  FlowAt(f)'
  <2>1. Position(f)' = Position(f)
    BY <1>1, <1>9, <1>10 DEF Position, Skipping
  <2>2. AtFrame(f)'
    BY <2>1, <1>1, <1>6, <1>7, <1>9, <1>10 DEF AtFrame, FlowAt, Skipping
  <2>3. Position(f)' + Len(unparsed)' = next + Len(buf) /\ next + Len(buf) \in Int
    BY <2>1, <1>4, <1>7, <1>10
  <2>4. Reaches(Position(f) + Len(unparsed))'
    BY <2>3, <1>4
  <2> QED
    BY <2>2, <2>4, <1>8 DEF FlowAt
<1>11. ASSUME waitHeader /\ FoundAt(joined) # 0 /\ unparsed' = SubSeq(joined, FoundAt(joined), Len(joined))
              /\ waitHeader' = FALSE
       PROVE  FlowAt(f)'
  <2>1. stream.ssh /\ f = 1 /\ Position(f) = 1 /\ header = <<>> /\ frame = 0
    BY <1>11 DEF FlowAt, AtFrame, Skipping, Position
  <2>2. From(joined, 1)
    BY <2>1, <1>6
  <2>3. FoundAt(joined) = stream.noise + 1 /\ stream.noise < Len(joined)
    BY <2>1, <2>2, <1>6, <1>11, FoundIsFirst DEF FlowTypes
  <2>4. stream.noise \in 0..Len(joined)
    BY <2>3, <1>4, <1>5, <1>6, StreamLaidOut DEF FlowTypes
  <2>5. /\ Len(unparsed') = Len(joined) - stream.noise
        /\ From(unparsed', 1 + stream.noise)
    <3>1. PICK n \in 0..Len(joined) : n = stream.noise
      BY <2>4
    <3>2. PICK p \in Int : p = 1
      OBVIOUS
    <3>3. joined \in Seq(Int) /\ From(joined, p)
      BY <3>2, <2>2, <1>6
    <3>4. Len(SubSeq(joined, n + 1, Len(joined))) = Len(joined) - n /\ From(SubSeq(joined, n + 1, Len(joined)), p + n)
      BY <3>3, DropFrom
    <3> QED
      BY <3>1, <3>2, <3>4, <2>3, <1>11
  <2>6. Start(f) = stream.noise + 1 /\ stream.noise \in Nat
    BY <2>1, Starts, StreamLaidOut DEF FlowTypes
  <2>7. ~Skipping'
    BY <2>1, <1>1, <1>11 DEF Skipping
  <2>8. Position(f)' = Start(f)
    <3>1. Position(f)' = Start(f)' + Len(header')
      BY <2>1, <2>7, <1>1 DEF Position
    <3>2. Len(header') = 0
      BY <2>1, <1>1, EmptySeq
    <3> QED
      BY <3>1, <3>2, <2>6, <1>9
  <2>9. Position(f)' + Len(unparsed') = Position(f) + Len(joined)
    BY <2>1, <2>5, <2>6, <2>8, <1>4, <1>5, <1>6
  <2>10. AtFrame(f)'
    <3>1. From(unparsed', Position(f)')
      BY <2>5, <2>6, <2>8
    <3>2. From(header', Start(f)')
      BY <2>1, <1>1, EmptySeq DEF From
    <3>3. Position(f)' + Len(unparsed') <= got' + 1
      BY <2>9, <1>1, <1>7
    <3> QED
      BY <3>1, <3>2, <3>3, <2>1, <2>7, <1>1, <1>9 DEF AtFrame, FlowAt
  <2>11. Position(f)' + Len(unparsed') = next + Len(buf) /\ next + Len(buf) \in Int
    BY <2>9, <1>4, <1>7
  <2>12. Reaches(Position(f) + Len(unparsed))'
    BY <2>11, <1>4
  <2> QED
    BY <2>10, <2>12, <1>8 DEF FlowAt
<1>12. FlowAt(f)'
  BY <1>10, <1>11 DEF GetBuffer, joined
<1>13. waitHeader /\ FoundAt(joined) # 0 => FoundAt(joined) \in 1..Len(joined)
  <2> SUFFICES ASSUME waitHeader, FoundAt(joined) # 0 PROVE FoundAt(joined) \in 1..Len(joined)
    OBVIOUS
  <2>1. stream.ssh /\ Position(f) = 1
    BY DEF FlowAt, AtFrame, Skipping, Position
  <2>2. PICK b \in Seq(Int) : b = joined /\ From(b, 1)
    BY <2>1, <1>6
  <2>3. FoundAt(b) = stream.noise + 1 /\ stream.noise < Len(b)
    BY <2>1, <2>2, FoundIsFirst DEF FlowTypes
  <2>4. stream.noise \in Nat /\ Len(b) \in Nat
    BY <2>2, LenProperties, StreamLaidOut DEF FlowTypes
  <2> QED
    BY <2>2, <2>3, <2>4
<1> QED
  BY <1>12, <1>13 DEF joined

(* The header.                                                              *)

LEMMA TotalIsEnd ==
    ASSUME stream \in Streams
    PROVE  Start(Len(Frames) + 1) >= Total + 1
<1>1. Packets \in Nat /\ Len(Frames) \in Nat /\ stream.noise \in Nat
  BY StreamLaidOut
<1>2. LastFrame(Packets) = Len(Frames) /\ LastFrame(0) = 0 /\ Start(1) = stream.noise + 1
  BY LastFrames, Starts
<1>3. Start(Len(Frames) + 1) \in Nat
  BY <1>1, Starts
<1>4. CASE Packets = 0
  <2>1. Len(Frames) + 1 = 1
    BY <1>2, <1>4
  <2>2. Total = 0
    BY <1>4 DEF Total, EndOf
  <2> QED
    BY <2>1, <2>2, <1>1, <1>2
<1>5. CASE Packets # 0
  <2>1. Total = Start(Len(Frames) + 1) - 1
    BY <1>2, <1>5 DEF Total, EndOf
  <2> QED
    BY <2>1, <1>3
<1> QED
  BY <1>4, <1>5

\* Bytes of a frame that have been read are those of a frame that there is.
LEMMA FrameExists ==
    ASSUME FlowTypes, NEW f \in 1..Len(Frames) + 1, AtFrame(f), ~Skipping, unparsed # <<>>, got <= Total
    PROVE  f \in 1..Len(Frames)
<1>1. /\ Position(f) \in Int /\ Start(f) \in Nat /\ Len(header) \in Nat /\ f \in Nat
      /\ Len(unparsed) \in Nat \ {0}
  BY PositionIsInt, EmptySeq DEF FlowTypes
<1>2. Position(f) >= Start(f)
  <2>1. HeaderSize \in Nat
    BY InputAssumption
  <2>2. Position(f) = Start(f) + HeaderSize \/ Position(f) = Start(f) + Len(header)
    BY DEF Position
  <2> QED
    BY <2>1, <2>2, <1>1
<1>3. Position(f) + Len(unparsed) <= got + 1 /\ got \in Nat
  BY DEF AtFrame, FlowTypes
<1>4. Total \in Nat /\ Len(Frames) \in Nat
  BY Ends, StreamLaidOut DEF FlowTypes
<1>5. CASE f = Len(Frames) + 1
  <2>1. Start(f) >= Total + 1
    BY <1>5, TotalIsEnd DEF FlowTypes
  <2> QED
    BY <2>1, <1>1, <1>2, <1>3, <1>4
<1> QED
  BY <1>4, <1>5

\* The packet that a frame belongs to is the next one.
LEMMA PacketOfFrame ==
    ASSUME FlowTypes, NEW f \in 1..Len(Frames), InPacket(f)
    PROVE  /\ Len(parsed) \in 0..Packets /\ Len(parsed) < Packets
           /\ f \in LastFrame(Len(parsed)) + 1..LastFrame(Len(parsed) + 1)
           /\ LastFrame(Len(parsed)) \in Nat /\ LastFrame(Len(parsed) + 1) \in 1..Len(Frames)
           /\ FirstFrame = LastFrame(Len(parsed)) + 1
<1>1. Packets \in Nat /\ Len(Frames) \in Nat
  BY StreamLaidOut DEF FlowTypes
<1>2. PICK n \in Nat : n = Len(parsed)
  BY LenProperties DEF FlowTypes
<1>3. n \in 0..Packets
  BY <1>1, <1>2 DEF InPacket
<1>4. LastFrame(n) \in Nat /\ LastFrame(n) + 1 <= f
  BY <1>1, <1>2, <1>3, LastFrames DEF InPacket, FirstFrame, FlowTypes
<1>5. n < Packets
  <2>1. CASE n = Packets
    <3>1. LastFrame(n) = Len(Frames)
      BY <2>1, LastFrames DEF FlowTypes
    <3> QED
      BY <3>1, <1>1, <1>4
  <2> QED
    BY <2>1, <1>1, <1>3
<1>6. n + 1 \in 0..Packets /\ n < n + 1
  BY <1>1, <1>3, <1>5
<1>7. LastFrame(n + 1) \in 0..Len(Frames) /\ LastFrame(n) < LastFrame(n + 1)
  BY <1>3, <1>6, LastFrames DEF FlowTypes
<1>8. f <= LastFrame(n + 1)
  BY <1>2, <1>5 DEF InPacket
<1> QED
  BY <1>1, <1>2, <1>3, <1>4, <1>5, <1>7, <1>8 DEF FirstFrame

\* A frame that is refused at its header is one of a packet that breaks the limits.
LEMMA RefusedIsBad ==
    ASSUME FlowTypes, NEW f \in 1..Len(Frames), InPacket(f), raised \in BOOLEAN, ~Acceptable(f)
    PROVE  BadStream
<1>1. PICK n \in 0..Packets : n = Len(parsed)
  BY PacketOfFrame
<1>2. n < Packets /\ f \in LastFrame(n) + 1..LastFrame(n + 1)
  BY <1>1, PacketOfFrame
<1>3. Packets \in Nat
  BY StreamLaidOut DEF FlowTypes
<1>4. n + 1 \in 1..Packets /\ (n + 1) - 1 = n
  BY <1>2, <1>3
<1>5. SUFFICES ASSUME WellFormed(n + 1) PROVE FALSE
  BY <1>4 DEF BadStream
<1>6. Frames[f].index < MaxIndex /\ Frames[f].size \in 1..MaxSize /\ Frames[f].size <= RaisedAbsMaxSize
  BY <1>2, <1>4, <1>5 DEF WellFormed
<1>7. Frames[f].size <= AbsMaxNow
  <2>1. CASE raised
    BY <2>1, <1>6 DEF AbsMaxNow
  <2>2. CASE ~raised
    <3>1. AbsMaxNow = AbsMaxSize
      BY <2>2 DEF AbsMaxNow
    <3> QED
      BY <3>1, <1>6, InputAssumption
  <2> QED
    BY <2>1, <2>2
<1>8. AbsMaxNow \in Nat
  BY InputAssumption DEF AbsMaxNow
<1> QED
  BY <1>6, <1>7, <1>8, InputAssumption DEF Acceptable

\* A first byte that is refused is noise.
LEMMA InvalidIsNoise ==
    ASSUME FlowTypes, NEW f \in 1..Len(Frames) + 1, AtFrame(f), got <= Total,
           waitHeader => parser # "parse", InvalidHeader
    PROVE  BadStream
<1>1. unparsed # <<>> /\ frame = 0 /\ header = <<>> /\ unparsed[1] \notin FirstBytes /\ ~waitHeader
  BY DEF InvalidHeader
<1>2. SUFFICES ASSUME ~Skipping PROVE FALSE
  BY <1>1 DEF Skipping, BadStream
<1>3. f \in 1..Len(Frames)
  BY <1>1, <1>2, FrameExists
<1>4. Position(f) = Start(f) /\ Start(f) \in Nat
  <2>1. Len(header) = 0 /\ Start(f) \in Nat
    BY <1>1, EmptySeq, PositionIsInt
  <2>2. Position(f) = Start(f) + Len(header)
    BY <1>1, <1>2 DEF Position
  <2> QED
    BY <2>1, <2>2
<1>5. 1 \in 1..Len(unparsed)
  BY <1>1, EmptySeq DEF FlowTypes
<1>6. unparsed[1] = Start(f)
  <2>1. unparsed[1] = Start(f) + 1 - 1
    BY <1>4, <1>5 DEF AtFrame, From
  <2> QED
    BY <2>1, <1>4
<1> QED
  BY <1>1, <1>3, <1>6 DEF FirstBytes

LEMMA HeaderOfOneFrame ==
    ASSUME stream \in Streams, NEW f \in 1..Len(Frames), NEW g \in 1..Len(Frames), HeaderOf(f) = HeaderOf(g)
    PROVE  f = g
<1>1. HeaderSize \in Nat \ {0} /\ Len(Frames) \in Nat
  BY InputAssumption, StreamLaidOut
<1>2. f \in 1..Len(Frames) + 1 /\ g \in 1..Len(Frames) + 1
  BY <1>1
<1>3. Start(f) \in Nat /\ Start(g) \in Nat
  BY <1>2, Starts
<1>4. HeaderOf(f)[1] = Start(f) + 1 - 1 /\ HeaderOf(g)[1] = Start(g) + 1 - 1
  BY <1>1 DEF HeaderOf, Interval
<1>5. Start(f) = Start(g)
  BY <1>3, <1>4
<1> QED
  BY <1>2, <1>5, StartsDiffer

LEMMA ReadHeaderFlow ==
    ASSUME FlowTypes, NEW f \in 1..Len(Frames) + 1, FlowAt(f), ReadHeader, got <= Total,
           waitHeader => parser # "parse", cuts \subseteq 1..Len(unparsed)
    PROVE  /\ FlowAt(f)'
           /\ frame' # 0 => f \in 1..Len(Frames) /\ frame' = f /\ Acceptable(f)
           /\ \/ hangups' = hangups
              \/ f \in 1..Len(Frames) /\ ~Acceptable(f) /\ hangups' = hangups \cup {"gibberish"}
           /\ \/ sizeChecks' = sizeChecks
              \/ f \in 1..Len(Frames) /\ Frames[f].size > MaxNow /\ sizeChecks' = sizeChecks \cup {f}
<1>1. /\ parser = "parse" /\ unparsed # <<>> /\ frame = 0 /\ (header # <<>> \/ unparsed[1] \in FirstBytes)
      /\ UNCHANGED <<stream, got, hand, readQueue, waitHeader, raws, parsed, closed, reader>>
      /\ UNCHANGED <<stream, parsed, raws>> /\ UNCHANGED <<got, hand, readQueue>>
  BY DEF ReadHeader, inputPeer, inputReader
<1>2. /\ Position(f) \in Int /\ Start(f) \in Nat /\ Len(header) \in Nat /\ f \in Nat
      /\ Len(unparsed) \in Nat \ {0} /\ unparsed \in Seq(Int) /\ header \in Seq(Int)
      /\ HeaderSize \in Nat \ {0} /\ Len(header) <= HeaderSize /\ got \in Nat
  BY <1>1, PositionIsInt, EmptySeq, InputAssumption DEF FlowTypes
<1>3. AtFrame(f) /\ InPacket(f) /\ From(unparsed, Position(f)) /\ From(header, Start(f))
  BY DEF FlowAt, AtFrame
<1>4. ~Skipping
  <2> SUFFICES ASSUME Skipping PROVE FALSE
    OBVIOUS
  <2>1. header = <<>> /\ Position(f) = 1 /\ stream.noise > 0
    BY <1>1, <1>3 DEF AtFrame, Position, Skipping
  <2>2. 1 \in 1..Len(unparsed)
    BY <1>2
  <2>3. unparsed[1] = 1
    <3>1. unparsed[1] = 1 + 1 - 1
      BY <2>1, <2>2, <1>3 DEF From
    <3> QED
      BY <3>1
  <2>4. PICK g \in 1..Len(Frames) : Start(g) = 1
    BY <2>1, <2>3, <1>1 DEF FirstBytes
  <2>5. g \in 1..Len(Frames) + 1 /\ stream.noise \in Nat
    BY StreamLaidOut DEF FlowTypes
  <2>6. stream.noise + 1 <= Start(g)
    BY <2>5, FirstStart DEF FlowTypes
  <2> QED
    BY <2>1, <2>4, <2>5, <2>6
<1>5. f \in 1..Len(Frames)
  BY <1>1, <1>3, <1>4, FrameExists
<1>6. Position(f) = Start(f) + Len(header)
  BY <1>1, <1>4 DEF Position
<1>7. PICK length \in FirstLength :
         LET wanted == HeaderSize - Len(header)
             count == IF length <= wanted THEN length ELSE wanted
             bytes == header \o SubSeq(unparsed, 1, count)
         IN /\ header' = bytes
            /\ unparsed' = SubSeq(unparsed, count + 1, Len(unparsed))
            /\ IF length <= wanted THEN UNCHANGED <<frame, sizeChecks, parser, hangups>>
               ELSE ParseHeader(bytes)
  BY DEF ReadHeader, Drop
<1> DEFINE wanted == HeaderSize - Len(header)
           count == IF length <= wanted THEN length ELSE wanted
<1>8. length \in 1..Len(unparsed)
  BY <1>7 DEF FirstLength
<1>9. PICK n \in 0..Len(unparsed) :
         /\ n = count /\ Len(header) + n <= HeaderSize
         /\ ~(length <= wanted) => Len(header) + n = HeaderSize
  <2>1. PICK l \in Nat : l = Len(header)
    BY <1>2
  <2>2. PICK w \in Nat : w = HeaderSize - l /\ w = wanted
    <3>1. HeaderSize - l \in Nat
      BY <2>1, <1>2
    <3> QED
      BY <3>1, <2>1
  <2> HIDE DEF wanted
  <2>3. CASE length <= w
    <3>1. count = length
      BY <2>2, <2>3
    <3>2. length \in 0..Len(unparsed) /\ l + length <= HeaderSize
      BY <1>2, <1>8, <2>2, <2>3
    <3> QED
      BY <3>1, <3>2, <2>1, <2>2, <2>3
  <2>4. CASE ~(length <= w)
    <3>1. count = w
      BY <2>2, <2>4
    <3>2. w \in 0..Len(unparsed) /\ l + w = HeaderSize /\ l + w <= HeaderSize
      BY <1>2, <1>8, <2>2, <2>4
    <3> QED
      BY <3>1, <3>2, <2>1, <2>2, <2>4
  <2> QED
    BY <2>3, <2>4
<1> HIDE DEF count
<1>10. /\ SubSeq(unparsed, 1, n) \in Seq(Int) /\ Len(SubSeq(unparsed, 1, n)) = n
       /\ From(SubSeq(unparsed, 1, n), Position(f))
  BY <1>2, <1>3, TakeFrom
<1>11. /\ header' = header \o SubSeq(unparsed, 1, n) /\ unparsed' = SubSeq(unparsed, n + 1, Len(unparsed))
       /\ IF length <= wanted THEN UNCHANGED <<frame, sizeChecks, parser, hangups>> ELSE ParseHeader(header')
  BY <1>7, <1>9 DEF count
<1>12. header' \in Seq(Int) /\ Len(header') = Len(header) + n /\ From(header', Start(f))
  <2>1. PICK part \in Seq(Int) : part = SubSeq(unparsed, 1, n) /\ Len(part) = n
    BY <1>10
  <2>2. From(part, Start(f) + Len(header))
    BY <2>1, <1>6, <1>10
  <2>3. /\ header \o part \in Seq(Int) /\ Len(header \o part) = Len(header) + Len(part)
        /\ From(header \o part, Start(f))
    <3>1. Start(f) \in Int
      BY <1>2
    <3> QED
      BY <3>1, <2>2, <1>2, <1>3, JoinFrom
  <2> QED
    BY <2>1, <2>3, <1>11
<1>13. Len(unparsed') = Len(unparsed) - n /\ From(unparsed', Position(f) + n)
  BY <1>2, <1>3, <1>11, DropFrom
<1>14. ~(length <= wanted) => Len(header') = HeaderSize /\ header' = HeaderOf(f)
  <2> SUFFICES ASSUME ~(length <= wanted) PROVE Len(header') = HeaderSize /\ header' = HeaderOf(f)
    OBVIOUS
  <2>1. Len(header') = HeaderSize
    BY <1>2, <1>9, <1>12
  <2>2. header' = Interval(Start(f), Len(header'))
    <3>1. PICK h \in Seq(Int) : h = header' /\ From(h, Start(f))
      BY <1>12
    <3>2. PICK p \in Int : p = Start(f)
      BY <1>2
    <3>3. h = Interval(p, Len(h))
      BY <3>1, <3>2, FromIsInterval
    <3> QED
      BY <3>1, <3>2, <3>3
  <2> QED
    BY <2>1, <2>2 DEF HeaderOf
<1>15. \/ length <= wanted /\ frame' = 0 /\ hangups' = hangups
       \/ ~(length <= wanted) /\ frame' = f /\ Acceptable(f) /\ hangups' = hangups
       \/ ~(length <= wanted) /\ frame' = 0 /\ ~Acceptable(f) /\ hangups' = hangups \cup {"gibberish"}
  <2>1. CASE length <= wanted
    BY <2>1, <1>1, <1>11
  <2>2. CASE ~(length <= wanted)
    <3>1. ParseHeader(header')
      BY <2>2, <1>11
    <3>2. \A g \in 1..Len(Frames) : HeaderOf(g) = header' <=> g = f
      <4> SUFFICES ASSUME NEW g \in 1..Len(Frames) PROVE HeaderOf(g) = header' <=> g = f
        OBVIOUS
      <4>1. header' = HeaderOf(f)
        BY <2>2, <1>14
      <4> QED
        BY <4>1, <1>5, HeaderOfOneFrame DEF FlowTypes
    <3>3. Unpack(header') = {f}
      BY <3>2, <1>5 DEF Unpack
    <3>4. \/ Acceptable(f) /\ frame' = f /\ hangups' = hangups
          \/ ~Acceptable(f) /\ frame' = frame /\ hangups' = hangups \cup {"gibberish"}
      BY <3>1, <3>3 DEF ParseHeader, HangUp
    <3> QED
      BY <3>4, <2>2, <1>1
  <2> QED
    BY <2>1, <2>2
<1>16. Frames' = Frames /\ Start(f)' = Start(f) /\ ~Skipping'
  <2>1. stream' = stream /\ waitHeader' = waitHeader /\ f \in Int
    BY <1>1, <1>2
  <2> QED
    BY <2>1, <1>4, SameStream DEF Skipping
<1>17. Position(f)' = Start(f) + Len(header')
  <2>1. frame' # 0 => Len(header') = HeaderSize
    BY <1>14, <1>15
  <2> QED
    BY <2>1, <1>16 DEF Position
<1>18. Position(f)' = Position(f) + n /\ Position(f)' + Len(unparsed') = Position(f) + Len(unparsed)
  BY <1>2, <1>6, <1>12, <1>13, <1>17
<1>19. AtFrame(f)'
  <2>1. frame' \in {0, f} /\ frame' <= Len(Frames)
    <3>1. Len(Frames) \in Nat
      BY StreamLaidOut DEF FlowTypes
    <3> QED
      BY <3>1, <1>5, <1>15
  <2>2. frame' # 0 => Len(header') = HeaderSize
    BY <1>14, <1>15
  <2>3. Position(f)' + Len(unparsed') <= got' + 1
    BY <1>1, <1>3, <1>18 DEF AtFrame
  <2>4. From(unparsed', Position(f)')
    BY <1>13, <1>18
  <2> QED
    BY <2>1, <2>2, <2>3, <2>4, <1>12, <1>16 DEF AtFrame
<1>20. InPacket(f)'
  BY <1>1, <1>3, InPacketKept
<1>21. ~closed' => Reaches(Position(f) + Len(unparsed))'
  <2> SUFFICES ASSUME ~closed PROVE Reaches(Position(f) + Len(unparsed))'
    BY <1>1
  <2>1. PICK next \in Int : next = Position(f) + Len(unparsed) /\ Reaches(next)
    BY ReachesMoved
  <2>2. Reaches(next)'
    BY <2>1, <1>1, ReachesKept
  <2> QED
    BY <2>1, <2>2, <1>18
<1>22. FlowAt(f)'
  BY <1>19, <1>20, <1>21 DEF FlowAt
<1>23. \/ sizeChecks' = sizeChecks
       \/ f \in 1..Len(Frames) /\ Frames[f].size > MaxNow /\ sizeChecks' = sizeChecks \cup {f}
  <2>1. CASE length <= wanted
    BY <2>1, <1>11
  <2>2. CASE ~(length <= wanted)
    <3>1. ParseHeader(header') /\ header' = HeaderOf(f)
      BY <2>2, <1>11, <1>14
    <3>2. \A g \in Unpack(header') : g = f
      BY <3>1, <1>5, HeaderOfOneFrame DEF Unpack, FlowTypes
    <3> HIDE DEF wanted
    <3> QED
      BY <3>1, <3>2, <1>5 DEF ParseHeader
  <2> QED
    BY <2>1, <2>2
<1> QED
  BY <1>2, <1>5, <1>15, <1>22, <1>23
----------------------------------------------------------------------------
(* The payload.                                                             *)

LEMMA TakePayloadFlow ==
    ASSUME FlowTypes, NEW f \in 1..Len(Frames) + 1, FlowAt(f), TakePayload,
           UNCHANGED <<stream, got, hand, readQueue, waitHeader, closed, reader>>
    PROVE  /\ frame = f /\ f \in 1..Len(Frames) /\ f + 1 \in 1..Len(Frames) + 1
           /\ Payload = PayloadOf(f) /\ Start(f + 1) \in Nat /\ Start(f + 1) <= got + 1
           /\ AtFrame(f + 1)'
           /\ ~closed' => Reaches(Position(f + 1) + Len(unparsed))'
<1>1. /\ frame # 0 /\ Len(unparsed) >= Frames[frame].size /\ header' = <<>> /\ frame' = 0
      /\ unparsed' = SubSeq(unparsed, Frames[frame].size + 1, Len(unparsed))
  BY DEF TakePayload, Drop
<1>2. AtFrame(f)
  BY DEF FlowAt
<1>3. Len(Frames) \in Nat
  BY StreamLaidOut DEF FlowTypes
<1>4. frame = f /\ f \in 1..Len(Frames) /\ f + 1 \in 1..Len(Frames) + 1 /\ f \in Nat
  BY <1>1, <1>2, <1>3 DEF AtFrame
<1>5. ~Skipping
  BY <1>1, <1>2 DEF AtFrame
<1>6. PICK size \in Nat : size = Frames[f].size
  BY <1>4, FrameTypes DEF FlowTypes
<1>7. PICK p \in Nat : p = Start(f) + HeaderSize /\ Start(f + 1) = p + size
  <2>1. Start(f) \in Nat /\ Start(f + 1) = Start(f) + HeaderSize + Frames[f].size
    BY <1>4, Starts DEF FlowTypes
  <2>2. Start(f) + HeaderSize \in Nat
    BY <2>1, InputAssumption
  <2> QED
    BY <2>1, <2>2, <1>6
<1>8. Position(f) = p
  BY <1>1, <1>5, <1>7 DEF Position
<1>9. PICK u \in Seq(Int) : u = unparsed /\ From(u, p)
  BY <1>2, <1>8 DEF FlowTypes, AtFrame
<1>10. size \in 0..Len(u) /\ Len(u) \in Nat
  BY <1>1, <1>4, <1>6, <1>9, LenProperties
<1>11. p \in Int /\ u \in Seq(Int) /\ From(u, p) /\ size \in 0..Len(u)
  BY <1>7, <1>9, <1>10
<1>12. Payload = PayloadOf(f)
  <2>1. SubSeq(u, 1, size) = Interval(p, size)
    BY <1>11, TakeFrom
  <2>2. Payload = SubSeq(u, 1, size)
    BY <1>4, <1>6, <1>9 DEF Payload
  <2>3. PayloadOf(f) = Interval(p, size)
    BY <1>6, <1>7 DEF PayloadOf
  <2> QED
    BY <2>1, <2>2, <2>3
<1>13. Len(unparsed') = Len(u) - size /\ From(unparsed', p + size)
  <2>1. unparsed' = SubSeq(u, size + 1, Len(u))
    BY <1>1, <1>4, <1>6, <1>9
  <2>2. Len(SubSeq(u, size + 1, Len(u))) = Len(u) - size /\ From(SubSeq(u, size + 1, Len(u)), p + size)
    BY <1>11, DropFrom
  <2> QED
    BY <2>1, <2>2
<1>14. p + Len(u) <= got + 1 /\ got \in Nat
  BY <1>2, <1>8, <1>9 DEF AtFrame, FlowTypes
<1>15. Start(f + 1)' = p + size /\ Start(f + 1) \in Nat /\ Start(f + 1) <= got + 1
  <2>1. Start(f + 1)' = Start(f + 1)
    <3>1. f + 1 \in Int
      BY <1>4
    <3> QED
      BY <3>1, SameStream
  <2> QED
    BY <2>1, <1>7, <1>10, <1>14
<1>16. ~Skipping'
  BY <1>5 DEF Skipping
<1>17. Len(header') = 0
  BY <1>1
<1>18. Position(f + 1)' = p + size
  <2>1. Position(f + 1)' = Start(f + 1)' + Len(header')
    BY <1>1, <1>16 DEF Position
  <2> QED
    BY <2>1, <1>7, <1>15, <1>17
<1>19. Position(f + 1)' + Len(unparsed') = p + Len(u)
  BY <1>7, <1>10, <1>13, <1>18
<1>20. AtFrame(f + 1)'
  <2>1. frame' \in {0, f + 1} /\ frame' <= Len(Frames')
    <3>1. Len(Frames') = Len(Frames)
      BY SameStream
    <3> QED
      BY <3>1, <1>1, <1>3
  <2>2. \A s : From(header', s)
    BY <1>17 DEF From
  <2>3. From(unparsed', Position(f + 1)')
    BY <1>13, <1>18
  <2>4. Position(f + 1)' + Len(unparsed') <= got' + 1
    BY <1>14, <1>19
  <2> QED
    BY <2>1, <2>2, <2>3, <2>4, <1>1, <1>16 DEF AtFrame
<1>21. ~closed' => Reaches(Position(f + 1) + Len(unparsed))'
  <2> SUFFICES ASSUME ~closed PROVE Reaches(Position(f + 1) + Len(unparsed))'
    OBVIOUS
  <2>1. PICK next \in Int : next = Position(f) + Len(unparsed) /\ Reaches(next)
    BY ReachesMoved
  <2>2. Reaches(next)'
    BY <2>1, ReachesKept
  <2>3. next = p + Len(u)
    BY <2>1, <1>8, <1>9
  <2> QED
    BY <2>2, <2>3, <1>19
<1> QED
  BY <1>4, <1>12, <1>15, <1>20, <1>21

\* A raw part: the packet that it belongs to has one more.
LEMMA ParseRawFlow ==
    ASSUME FlowTypes, NEW f \in 1..Len(Frames) + 1, FlowAt(f), ParseRaw
    PROVE  /\ f + 1 \in 1..Len(Frames) + 1 /\ FlowAt(f + 1)'
           /\ \/ hangups' = hangups /\ parser' = parser /\ Cardinality(DOMAIN raws') < MaxRaw
              \/ parser' = "exited" /\ BadStream
           /\ Cardinality(DOMAIN raws') <= Cardinality(DOMAIN raws) + 1
           /\ DOMAIN raws' = DOMAIN raws \cup {Frames[f].index}
           /\ \A j \in DOMAIN raws' : raws'[j] \in {PayloadOf(f)} \cup {raws[k] : k \in DOMAIN raws}
           /\ frame = f /\ f \in 1..Len(Frames)
<1>1. /\ TakePayload /\ Frames[frame].index > 0
      /\ raws' = [j \in DOMAIN raws \cup {Frames[frame].index} |->
                     IF j \in DOMAIN raws THEN raws[j] ELSE Payload]
      /\ IF Frames[frame].index \in DOMAIN raws \/ Cardinality(DOMAIN raws') >= MaxRaw
         THEN HangUp("invalid") ELSE UNCHANGED <<parser, hangups>>
      /\ UNCHANGED <<stream, got, hand, readQueue, waitHeader, closed, reader>> /\ parsed' = parsed
  BY DEF ParseRaw, inputPeer, inputReader
<1>2. /\ frame = f /\ f \in 1..Len(Frames) /\ f + 1 \in 1..Len(Frames) + 1
      /\ Payload = PayloadOf(f)
      /\ AtFrame(f + 1)' /\ (~closed' => Reaches(Position(f + 1) + Len(unparsed))')
  BY <1>1, TakePayloadFlow
<1>3. InPacket(f)
  BY DEF FlowAt
<1>4. PICK n \in 0..Packets : n = Len(parsed)
  BY <1>2, <1>3, PacketOfFrame
<1>5. n < Packets /\ f \in LastFrame(n) + 1..LastFrame(n + 1) /\ FirstFrame = LastFrame(n) + 1
  BY <1>2, <1>3, <1>4, PacketOfFrame
<1>6. Packets \in Nat /\ Len(Frames) \in Nat /\ n \in Nat /\ n + 1 \in 0..Packets /\ f \in Nat
  <2>1. Packets \in Nat /\ Len(Frames) \in Nat
    BY StreamLaidOut DEF FlowTypes
  <2> QED
    BY <2>1, <1>2, <1>4, <1>5
<1>7. PICK low \in Nat, high \in Nat : low = LastFrame(n) /\ high = LastFrame(n + 1)
  <2>1. LastFrame(n) \in 0..Len(Frames) /\ LastFrame(n + 1) \in 0..Len(Frames)
    BY <1>6, LastFrames DEF FlowTypes
  <2> QED
    BY <2>1, <1>6
<1>8. low + 1 <= f /\ f + 1 <= high
  <2>1. f # high
    BY <1>1, <1>2, <1>5, <1>7, MainIsLast DEF FlowTypes
  <2> QED
    BY <2>1, <1>5, <1>6, <1>7
<1>9. raws = RawsOf(low + 1..f - 1) /\ IsFiniteSet(DOMAIN raws) /\ Cardinality(DOMAIN raws) <= f - (low + 1)
  BY <1>3, <1>5, <1>7 DEF InPacket
<1>10. Frames[f].index \notin DOMAIN raws /\ raws' = RawsOf(low + 1..f)
  <2>1. /\ Frames[f].index \notin DOMAIN raws
        /\ RawsOf(LastFrame(n) + 1..f) =
                [j \in DOMAIN raws \cup {Frames[f].index} |->
                    IF j \in DOMAIN raws THEN raws[j] ELSE PayloadOf(f)]
    <3>1. raws = RawsOf(LastFrame(n) + 1..f - 1)
      BY <1>7, <1>9
    <3>2. stream \in Streams
      BY DEF FlowTypes
    <3>3. PICK parts : parts = raws /\ parts = RawsOf(LastFrame(n) + 1..f - 1)
      BY <3>1
    <3>4. /\ Frames[f].index \notin DOMAIN parts
          /\ RawsOf(LastFrame(n) + 1..f) =
                [j \in DOMAIN parts \cup {Frames[f].index} |->
                    IF j \in DOMAIN parts THEN parts[j] ELSE PayloadOf(f)]
      BY <1>5, <3>2, <3>3, RawsGrow
    <3> QED
      BY <3>3, <3>4
  <2> QED
    BY <2>1, <1>1, <1>2, <1>7
<1>11. DOMAIN raws' = DOMAIN raws \cup {Frames[f].index}
  BY <1>1, <1>2
<1>12. /\ IsFiniteSet(DOMAIN raws') /\ Cardinality(DOMAIN raws) \in Nat
       /\ Cardinality(DOMAIN raws') = Cardinality(DOMAIN raws) + 1
  <2> DEFINE D == DOMAIN raws
  <2>1. IsFiniteSet(D) /\ Frames[f].index \notin D
    BY <1>9, <1>10
  <2>2. IsFiniteSet(D \cup {Frames[f].index}) /\ Cardinality(D \cup {Frames[f].index}) = Cardinality(D) + 1
    <3> HIDE DEF D
    <3> QED
      BY <2>1, FS_AddElement
  <2>3. Cardinality(D) \in Nat
    BY <2>1, FS_CardinalityType
  <2> QED
    BY <2>2, <2>3, <1>11
<1>13. Cardinality(DOMAIN raws') <= f - low
  BY <1>6, <1>7, <1>9, <1>12
<1>14. InPacket(f + 1)'
  <2>1. /\ LastFrame(n)' = low /\ LastFrame(n + 1)' = high /\ Packets' = Packets
        /\ RawsOf(low + 1..f)' = RawsOf(low + 1..f) /\ Len(Frames)' = Len(Frames)
        /\ \A i \in Int : PacketContent(i)' = PacketContent(i)
    BY <1>1, <1>6, <1>7, SameStream, SameContents
  <2>2. Len(parsed') = n /\ FirstFrame' = low + 1
    BY <2>1, <1>1, <1>4 DEF FirstFrame
  <2>3. \A i \in 1..n : parsed'[i] = PacketContent(i)'
    BY <2>1, <1>1, <1>3, <1>4 DEF InPacket
  <2>4. raws' = RawsOf(low + 1..f + 1 - 1)'
    <3>1. f + 1 - 1 = f
      BY <1>6
    <3> QED
      BY <3>1, <2>1, <1>10
  <2>5. Cardinality(DOMAIN raws') <= f + 1 - (low + 1) /\ low + 1 <= f + 1 /\ n <= Packets
    BY <1>6, <1>7, <1>8, <1>13
  <2> QED
    BY <2>1, <2>2, <2>3, <2>4, <2>5, <1>5, <1>8, <1>12 DEF InPacket
<1>15. \/ hangups' = hangups /\ parser' = parser /\ Cardinality(DOMAIN raws') < MaxRaw
       \/ parser' = "exited" /\ BadStream
  <2>1. CASE Cardinality(DOMAIN raws') >= MaxRaw
    <3>1. high - low > MaxRaw
      BY <2>1, <1>6, <1>7, <1>8, <1>12, <1>13, InputAssumption
    <3>2. n + 1 \in 1..Packets /\ (n + 1) - 1 = n
      BY <1>5, <1>6
    <3>3. ~WellFormed(n + 1)
      BY <3>1, <3>2, <1>7, InputAssumption DEF WellFormed
    <3>4. parser' = "exited"
      BY <2>1, <1>1 DEF HangUp
    <3> QED
      BY <3>2, <3>3, <3>4 DEF BadStream
  <2>2. CASE ~(Cardinality(DOMAIN raws') >= MaxRaw)
    <3>1. UNCHANGED <<parser, hangups>>
      BY <2>2, <1>1, <1>2, <1>10
    <3>2. Cardinality(DOMAIN raws') < MaxRaw
      BY <2>2, <1>12, InputAssumption
    <3> QED
      BY <3>1, <3>2
  <2> QED
    BY <2>1, <2>2
<1>16. \A j \in DOMAIN raws' : raws'[j] \in {PayloadOf(f)} \cup {raws[k] : k \in DOMAIN raws}
  BY <1>1, <1>2
<1>17. FlowAt(f + 1)'
  BY <1>2, <1>14 DEF FlowAt
<1>18. Cardinality(DOMAIN raws') <= Cardinality(DOMAIN raws) + 1
  BY <1>12
<1> QED
  BY <1>2, <1>11, <1>15, <1>16, <1>17, <1>18

\* The last part: the packet is the one that was sent.
LEMMA ParsePacketFlow ==
    ASSUME FlowTypes, NEW f \in 1..Len(Frames) + 1, FlowAt(f), ParsePacket,
           sent \in 0..Packets, got <= EndOf(sent)
    PROVE  /\ f + 1 \in 1..Len(Frames) + 1 /\ FlowAt(f + 1)'
           /\ Len(parsed) < sent /\ Len(parsed) \in 0..Packets - 1
           /\ parsed' = Append(parsed, PacketContent(Len(parsed) + 1))
<1>1. /\ TakePayload /\ Frames[frame].index = 0
      /\ parsed' = Append(parsed, Content(Payload, raws)) /\ raws' = RawsOf({})
      /\ UNCHANGED <<stream, got, hand, readQueue, waitHeader, closed, reader>>
  BY DEF ParsePacket, inputPeer, inputReader
<1>2. /\ frame = f /\ f \in 1..Len(Frames) /\ f + 1 \in 1..Len(Frames) + 1
      /\ Payload = PayloadOf(f) /\ Start(f + 1) \in Nat /\ Start(f + 1) <= got + 1
      /\ AtFrame(f + 1)' /\ (~closed' => Reaches(Position(f + 1) + Len(unparsed))')
  BY <1>1, TakePayloadFlow
<1>3. InPacket(f)
  BY DEF FlowAt
<1>4. PICK n \in 0..Packets : n = Len(parsed)
  BY <1>2, <1>3, PacketOfFrame
<1>5. n < Packets /\ f \in LastFrame(n) + 1..LastFrame(n + 1) /\ FirstFrame = LastFrame(n) + 1
  BY <1>2, <1>3, <1>4, PacketOfFrame
<1>6. /\ Packets \in Nat /\ Len(Frames) \in Nat /\ n \in Nat /\ n + 1 \in 1..Packets /\ f \in Nat
      /\ (n + 1) - 1 = n /\ n + 1 # 0 /\ n + 1 \in 0..Packets
  <2>1. Packets \in Nat /\ Len(Frames) \in Nat
    BY StreamLaidOut DEF FlowTypes
  <2> QED
    BY <2>1, <1>2, <1>4, <1>5
<1>7. f = LastFrame(n + 1)
  BY <1>1, <1>2, <1>5, MainIsLast DEF FlowTypes
<1>8. Content(Payload, raws) = PacketContent(n + 1)
  <2>1. raws = RawsOf(LastFrame(n) + 1..f - 1)
    BY <1>3, <1>5 DEF InPacket
  <2>2. PacketContent(n + 1) = Content(PayloadOf(LastFrame(n + 1)), RawsOf(LastFrame(n) + 1..LastFrame(n + 1) - 1))
    BY <1>6 DEF PacketContent
  <2> QED
    BY <2>1, <2>2, <1>2, <1>7
<1>9. parsed' = Append(parsed, PacketContent(n + 1))
  BY <1>1, <1>8
<1>10. Len(parsed') = n + 1 /\ \A i \in 1..n + 1 : parsed'[i] = PacketContent(i)
  <2>1. parsed \in Seq({PacketContent(i) : i \in 1..Packets})
    BY DEF FlowTypes
  <2>2. PacketContent(n + 1) \in {PacketContent(i) : i \in 1..Packets}
    BY <1>6
  <2>3. \A i \in 1..n : parsed[i] = PacketContent(i)
    BY <1>3, <1>4 DEF InPacket
  <2> DEFINE T == {PacketContent(i) : i \in 1..Packets}
             x == PacketContent(n + 1)
  <2>4. parsed \in Seq(T) /\ x \in T
    BY <2>1, <2>2
  <2> HIDE DEF T, x
  <2>5. /\ Len(Append(parsed, x)) = Len(parsed) + 1
        /\ \A i \in 1..Len(parsed) : Append(parsed, x)[i] = parsed[i]
        /\ Append(parsed, x)[Len(parsed) + 1] = x
    BY <2>4, AppendProperties
  <2>6. parsed' = Append(parsed, x) /\ x = PacketContent(n + 1)
    BY <1>9 DEF x
  <2>7. \A i \in 1..n + 1 : i \in 1..n \/ i = n + 1
    BY <1>6
  <2> QED
    BY <2>3, <2>5, <2>6, <2>7, <1>4
<1>11. n < sent
  <2>1. EndOf(n + 1) = Start(f + 1) - 1
    BY <1>6, <1>7 DEF EndOf
  <2>2. EndOf(n + 1) <= got /\ got \in Nat
    BY <2>1, <1>2 DEF FlowTypes
  <2>3. sent \in Nat /\ EndOf(sent) \in Nat /\ EndOf(n + 1) \in Nat
    BY <1>6, Ends DEF FlowTypes
  <2>4. CASE sent < n + 1
    <3>1. EndOf(sent) < EndOf(n + 1)
      BY <2>4, <1>6, Ends DEF FlowTypes
    <3> QED
      BY <3>1, <2>2, <2>3
  <2> QED
    BY <2>3, <2>4, <1>6
<1>12. InPacket(f + 1)'
  <2>1. /\ LastFrame(n + 1)' = f /\ LastFrame(n + 2)' = LastFrame(n + 2) /\ Packets' = Packets
        /\ Len(Frames)' = Len(Frames) /\ RawsOf({})' = RawsOf({})
        /\ \A i \in Int : PacketContent(i)' = PacketContent(i)
    <3>1. n + 1 \in Int /\ n + 2 \in Int
      BY <1>6
    <3> QED
      BY <3>1, <1>1, <1>7, SameStream, SameContents
  <2>2. FirstFrame' = f + 1
    BY <2>1, <1>10 DEF FirstFrame
  <2>3. \A i \in 1..n + 1 : parsed'[i] = PacketContent(i)'
    BY <2>1, <1>10
  <2>4. raws' = RawsOf(f + 1..f + 1 - 1)'
    <3>1. f + 1 - 1 = f /\ f \in Int
      BY <1>6
    <3>2. RawsOf(f + 1..f) = RawsOf({})
      BY <3>1, NoRawsYet
    <3>3. RawsOf(f + 1..f)' = RawsOf(f + 1..f)
      BY <1>1, SameContents
    <3> QED
      BY <3>1, <3>2, <3>3, <1>1
  <2>5. IsFiniteSet(DOMAIN raws') /\ Cardinality(DOMAIN raws') <= f + 1 - (f + 1)
    <3>1. DOMAIN RawsOf({}) = {}
      <4>1. 0 \in Int
        OBVIOUS
      <4> QED
        BY <4>1, NoRawsYet
    <3>2. IsFiniteSet(DOMAIN raws') /\ Cardinality(DOMAIN raws') = 0
      BY <3>1, <1>1, FS_EmptySet
    <3> QED
      BY <3>2, <1>6
  <2>6. n + 1 < Packets => f + 1 <= LastFrame(n + 2)
    <3> SUFFICES ASSUME n + 1 < Packets PROVE f + 1 <= LastFrame(n + 2)
      OBVIOUS
    <3>1. n + 1 \in 0..Packets /\ n + 2 \in 0..Packets /\ n + 1 < n + 2
      BY <1>6
    <3>2. LastFrame(n + 1) < LastFrame(n + 2) /\ LastFrame(n + 2) \in 0..Len(Frames)
      BY <3>1, LastFrames DEF FlowTypes
    <3> QED
      BY <3>2, <1>6, <1>7
  <2>7. f + 1 <= Len(Frames) + 1 /\ n + 1 <= Packets /\ f + 1 <= f + 1 /\ (n + 1) + 1 = n + 2
    BY <1>2, <1>6
  <2>8. f + 1 <= IF n + 1 < Packets THEN LastFrame(n + 2) ELSE Len(Frames) + 1
    BY <2>6, <2>7
  <2> QED
    BY <2>1, <2>2, <2>3, <2>4, <2>5, <2>7, <2>8, <1>10 DEF InPacket
<1>13. FlowAt(f + 1)'
  BY <1>2, <1>12 DEF FlowAt
<1>14. n \in 0..Packets - 1
  BY <1>5, <1>6
<1> QED
  BY <1>2, <1>4, <1>9, <1>11, <1>13, <1>14

\* A frame that is too large for the limits of the time is so for those of the hello.
LEMMA OversizeIsBad ==
    ASSUME FlowTypes, NEW f \in 1..Len(Frames), InPacket(f), raised \in BOOLEAN, Frames[f].size > MaxNow
    PROVE  BadStream
<1>1. PICK n \in 0..Packets : n = Len(parsed)
  BY PacketOfFrame
<1>2. n < Packets /\ f \in LastFrame(n) + 1..LastFrame(n + 1)
  BY <1>1, PacketOfFrame
<1>3. Packets \in Nat
  BY StreamLaidOut DEF FlowTypes
<1>4. n + 1 \in 1..Packets /\ (n + 1) - 1 = n
  BY <1>2, <1>3
<1>5. MaxNow \in Nat /\ MaxSize <= MaxNow
  <2>1. CASE raised
    BY <2>1, InputAssumption DEF MaxNow
  <2>2. CASE ~raised
    <3>1. MaxNow = MaxSize
      BY <2>2 DEF MaxNow
    <3> QED
      BY <3>1, InputAssumption
  <2> QED
    BY <2>1, <2>2
<1>6. Frames[f].size \in Nat
  BY FrameTypes DEF FlowTypes
<1>7. ~(Frames[f].size \in 1..MaxSize)
  BY <1>5, <1>6, InputAssumption
<1>8. ~WellFormed(n + 1)
  BY <1>2, <1>4, <1>7 DEF WellFormed
<1> QED
  BY <1>4, <1>8 DEF BadStream

----------------------------------------------------------------------------
(* The types.                                                               *)

PeerTypes == stream \in Streams /\ sent \in 0..Packets /\ got \in 0..EndOf(sent) /\ ended \in BOOLEAN
StateTypes ==
    /\ reader \in {"read", "put", "count", "exited"} /\ eofCheck \in {"none", "quiet", "read"}
    /\ parser \in {"none", "get", "parse", "handle", "exited"}
    /\ hangups \subseteq {"eof", "error", "invalid", "gibberish"} /\ empties \in 0..MaxEmpty
FlagTypes == waitHeader \in BOOLEAN /\ raised \in BOOLEAN /\ closed \in BOOLEAN
QueueTypes ==
    /\ hand \in Buffers /\ readQueue \in Seq(Buffers) /\ Len(readQueue) <= QueueSize
    /\ stolen \in Seq(Buffers) /\ Len(stolen) <= 1
BufferTypes ==
    /\ unparsed \in Buffers /\ cuts \subseteq 1..Len(unparsed)
    /\ unparsed # <<>> => Len(unparsed) \in cuts
HeaderTypes == header \in Buffers /\ Len(header) <= HeaderSize /\ frame \in 0..Len(Frames)
PartTypes ==
    /\ DOMAIN raws \subseteq 1..MaxIndex - 1 /\ Cardinality(DOMAIN raws) <= MaxRaw
    /\ \A j \in DOMAIN raws : raws[j] \in Buffers
DeliveryTypes ==
    parsed \in Seq({PacketContent(i) : i \in 1..Packets}) /\ Len(parsed) <= sent
HandledTypes == handled = IF parser = "handle" THEN Len(parsed) - 1 ELSE Len(parsed)
CheckTypes == sizeChecks \subseteq 1..Len(Frames)

LEMMA TypesInParts ==
    InputTypeOK <=> /\ PeerTypes /\ StateTypes /\ FlagTypes /\ QueueTypes /\ BufferTypes
                    /\ HeaderTypes /\ PartTypes /\ DeliveryTypes /\ HandledTypes /\ CheckTypes
BY Zenon DEF InputTypeOK, PeerTypes, StateTypes, FlagTypes, QueueTypes, BufferTypes, HeaderTypes,
             PartTypes, DeliveryTypes, HandledTypes, CheckTypes

\* A buffer of bytes that there are is one of integers.
LEMMA BufferOfInts ==
    ASSUME stream \in Streams, NEW b \in Buffers
    PROVE  b \in Seq(Int) /\ Len(b) \in Nat
<1>1. Total \in Nat
  BY Ends
<1>2. 1..Total \subseteq Int
  BY <1>1
<1>3. Len(b) \in Nat /\ b \in [1..Len(b) -> 1..Total]
  BY LenProperties DEF Buffers
<1>4. b \in [1..Len(b) -> Int]
  BY <1>2, <1>3
<1> QED
  BY <1>3, <1>4, SeqDef

LEMMA TypesForFlow ==
    ASSUME InputTypeOK
    PROVE  FlowTypes
<1>1. PeerTypes /\ QueueTypes /\ BufferTypes /\ HeaderTypes /\ DeliveryTypes
  BY TypesInParts
<1>2. stream \in Streams /\ got \in Nat
  <2>1. sent \in 0..Packets /\ EndOf(sent) \in Nat
    BY <1>1, Ends DEF PeerTypes
  <2> QED
    BY <2>1, <1>1 DEF PeerTypes
<1>3. hand \in Seq(Int) /\ unparsed \in Seq(Int) /\ header \in Seq(Int) /\ Len(header) <= HeaderSize
  BY <1>1, <1>2, BufferOfInts DEF QueueTypes, BufferTypes, HeaderTypes
<1>4. readQueue \in Seq(Seq(Int))
  <2>1. \A b \in Buffers : b \in Seq(Int)
    BY <1>2, BufferOfInts
  <2>2. Len(readQueue) \in Nat /\ readQueue \in [1..Len(readQueue) -> Buffers]
    BY <1>1, LenProperties DEF QueueTypes
  <2>3. readQueue \in [1..Len(readQueue) -> Seq(Int)]
    BY <2>1, <2>2
  <2> QED
    BY <2>2, <2>3, SeqDef
<1> QED
  BY <1>1, <1>2, <1>3, <1>4 DEF FlowTypes, HeaderTypes, DeliveryTypes

\* The stream is chosen once.
LEMMA StreamStays ==
    ASSUME [InputNext]_inputVars
    PROVE  stream' = stream
BY DEF InputNext, inputVars, inputPeer, ReadThread, ParseThread, PeerSends, PeerCloses, Read,
     ReadNothing, Put, Count, ReadFails, ReaderExits, CloseNow, CheckEof, RaiseMaxSize,
     CheckPacketSize, GetBuffer, ParserExits, NeedsMore, InvalidHeader, ReadHeader, ParseRaw,
     ParsePacket, HandlePacket, ParseClosed

LEMMA PeerTypesKept ==
    ASSUME PeerTypes, [InputNext]_inputVars
    PROVE  PeerTypes'
<1>1. stream' = stream
  BY StreamStays
<1>2. Packets' = Packets /\ \A i \in Int : EndOf(i)' = EndOf(i)
  BY <1>1, SameStream
<1>3. stream \in Streams /\ sent \in 0..Packets /\ got \in 0..EndOf(sent) /\ Packets \in Nat /\ ended \in BOOLEAN
  BY StreamLaidOut DEF PeerTypes
<1>4. EndOf(sent) \in Nat /\ got \in Nat
  BY <1>3, Ends
<1>5. CASE UNCHANGED <<sent, ended, got>>
  <2>1. sent \in Int
    BY <1>3
  <2>2. PICK n \in Int : n = sent
    BY <2>1
  <2> QED
    BY <2>2, <1>1, <1>2, <1>3, <1>5 DEF PeerTypes
<1>6. CASE PeerSends
  <2>1. sent' = sent + 1 /\ ended' = ended /\ got' = got /\ sent < Packets
    BY <1>6 DEF PeerSends, inputReader
  <2>2. PICK n \in 0..Packets, m \in 0..Packets : n = sent /\ m = n + 1 /\ n <= m
    BY <2>1, <1>3
  <2>3. EndOf(n) <= EndOf(m) /\ EndOf(m) \in Nat
    BY <2>2, <1>3, EndsGrow, Ends
  <2>4. got \in 0..EndOf(m) /\ m \in Int
    BY <2>2, <2>3, <1>3, <1>4
  <2> QED
    BY <2>1, <2>2, <2>4, <1>1, <1>2, <1>3 DEF PeerTypes
<1>7. CASE PeerCloses
  <2>1. sent' = sent /\ ended' = TRUE /\ got' = got
    BY <1>7 DEF PeerCloses, inputReader
  <2>2. PICK n \in Int : n = sent
    BY <1>3
  <2> QED
    BY <2>1, <2>2, <1>1, <1>2, <1>3 DEF PeerTypes
<1>8. CASE Read
  <2>1. sent' = sent /\ ended' = ended
    BY <1>8 DEF Read, inputPeer
  <2>2. PICK count \in 1..ReadSize : got + count <= EndOf(sent) /\ got' = got + count
    BY <1>8 DEF Read
  <2>3. got' \in 0..EndOf(sent)
    BY <2>2, <1>4, InputAssumption
  <2>4. PICK n \in Int : n = sent
    BY <1>3
  <2> QED
    BY <2>1, <2>3, <2>4, <1>1, <1>2, <1>3 DEF PeerTypes
<1> QED
  BY <1>5, <1>6, <1>7, <1>8 DEF InputNext, inputVars, inputPeer, inputReader, ReadThread,
       ParseThread, ReadNothing, Put, Count, ReadFails, ReaderExits, CloseNow, CheckEof,
       RaiseMaxSize, CheckPacketSize, GetBuffer, ParserExits, NeedsMore, InvalidHeader,
       ReadHeader, ParseRaw, ParsePacket, HandlePacket, ParseClosed

LEMMA FlagTypesKept ==
    ASSUME FlagTypes, [InputNext]_inputVars
    PROVE  FlagTypes'
<1>1. waitHeader' = waitHeader \/ waitHeader' = FALSE
  BY DEF InputNext, inputVars, inputParser, ReadThread, ParseThread, PeerSends, PeerCloses, Read,
       ReadNothing, Put, Count, ReadFails, ReaderExits, CloseNow, CheckEof, RaiseMaxSize,
       CheckPacketSize, GetBuffer, ParserExits, NeedsMore, InvalidHeader, ReadHeader, ParseRaw,
       ParsePacket, HandlePacket, ParseClosed
<1>2. raised' = raised \/ raised' = TRUE
  BY DEF InputNext, inputVars, ReadThread, ParseThread, PeerSends, PeerCloses, Read, ReadNothing,
       Put, Count, ReadFails, ReaderExits, CloseNow, CheckEof, RaiseMaxSize, CheckPacketSize,
       GetBuffer, ParserExits, NeedsMore, InvalidHeader, ReadHeader, ParseRaw, ParsePacket, HandlePacket,
       ParseClosed
<1>3. closed' = closed \/ closed' = TRUE
  BY DEF InputNext, inputVars, ReadThread, ParseThread, PeerSends, PeerCloses, Read, ReadNothing,
       Put, Count, ReadFails, ReaderExits, CloseNow, CloseInput, CheckEof, RaiseMaxSize,
       CheckPacketSize, GetBuffer, ParserExits, NeedsMore, InvalidHeader, ReadHeader, ParseRaw,
       ParsePacket, HandlePacket, ParseClosed
<1> QED
  BY <1>1, <1>2, <1>3 DEF FlagTypes

LEMMA StateTypesKept ==
    ASSUME StateTypes, [InputNext]_inputVars
    PROVE  StateTypes'
<1>1. reader' \in {"read", "put", "count", "exited"}
  BY DEF StateTypes, InputNext, inputVars, inputReader, ReadThread, ParseThread, PeerSends,
       PeerCloses, Read, ReadNothing, Put, Count, ReadFails, ReaderExits, CloseNow, CheckEof,
       RaiseMaxSize, CheckPacketSize, GetBuffer, ParserExits, NeedsMore, InvalidHeader,
       ReadHeader, ParseRaw, ParsePacket, HandlePacket, ParseClosed
<1>2. eofCheck' \in {"none", "quiet", "read"}
  BY DEF StateTypes, InputNext, inputVars, ReadThread, ParseThread, PeerSends, PeerCloses, Read,
       ReadNothing, Put, Count, ReadFails, ReaderExits, CloseNow, CheckEof, RaiseMaxSize,
       CheckPacketSize, GetBuffer, ParserExits, NeedsMore, InvalidHeader, ReadHeader, ParseRaw,
       ParsePacket, HandlePacket, ParseClosed
<1>3. parser' \in {"none", "get", "parse", "handle", "exited"}
  BY DEF StateTypes, HangUp, ParseHeader, InputNext, inputVars, ReadThread, ParseThread,
       PeerSends, PeerCloses, Read, ReadNothing, Put, Count, ReadFails, ReaderExits, CloseNow,
       CheckEof, RaiseMaxSize, CheckPacketSize, GetBuffer, ParserExits, NeedsMore, InvalidHeader,
       ReadHeader, ParseRaw, ParsePacket, HandlePacket, ParseClosed
<1>4. hangups' \subseteq {"eof", "error", "invalid", "gibberish"}
  <2>1. \/ hangups' = hangups
        \/ \E reason \in {"eof", "error", "invalid", "gibberish"} : hangups' = hangups \cup {reason}
    BY DEF HangUp, ParseHeader, InputNext, inputVars, ReadThread, ParseThread, PeerSends,
         PeerCloses, Read, ReadNothing, Put, Count, ReadFails, ReaderExits, CloseNow, CheckEof,
         RaiseMaxSize, CheckPacketSize, GetBuffer, ParserExits, NeedsMore, InvalidHeader,
         ReadHeader, ParseRaw, ParsePacket, HandlePacket, ParseClosed
  <2> QED
    BY <2>1 DEF StateTypes
<1>5. empties' \in 0..MaxEmpty
  <2>1. empties' = empties \/ (empties < MaxEmpty /\ empties' = empties + 1)
    BY DEF InputNext, inputVars, inputReader, ReadThread, ParseThread, PeerSends, PeerCloses,
         Read, ReadNothing, Put, Count, ReadFails, ReaderExits, CloseNow, CheckEof, RaiseMaxSize,
         CheckPacketSize, GetBuffer, ParserExits, NeedsMore, InvalidHeader, ReadHeader, ParseRaw,
         ParsePacket, HandlePacket, ParseClosed
  <2> QED
    BY <2>1, InputAssumption DEF StateTypes
<1> QED
  BY <1>1, <1>2, <1>3, <1>4, <1>5 DEF StateTypes

LEMMA SubBuffer ==
    ASSUME NEW b \in Buffers, NEW low \in Int, NEW high \in Int,
           low \in 1..Len(b) + 1, high \in low - 1..Len(b)
    PROVE  SubSeq(b, low, high) \in Buffers /\ Len(SubSeq(b, low, high)) = high - low + 1
<1>1. Len(b) \in Nat
  BY LenProperties DEF Buffers
<1>2. low \in Int /\ high \in Int
  BY <1>1
<1>3. \A k \in low..high : b[k] \in 1..Total
  <2>1. \A k \in 1..Len(b) : b[k] \in 1..Total
    BY ElementOfSeq DEF Buffers
  <2> QED
    BY <2>1, <1>1, <1>2
<1>4. /\ SubSeq(b, low, high) \in Seq(1..Total)
      /\ Len(SubSeq(b, low, high)) = IF low <= high THEN high - low + 1 ELSE 0
  BY <1>1, <1>2, <1>3, SubSeqProperties DEF Buffers
<1> QED
  BY <1>1, <1>2, <1>4 DEF Buffers

LEMMA JoinBuffers ==
    ASSUME NEW a \in Buffers, NEW b \in Buffers
    PROVE  a \o b \in Buffers /\ Len(a \o b) = Len(a) + Len(b) /\ Len(a) \in Nat /\ Len(b) \in Nat
<1>1. a \o b \in Buffers /\ Len(a \o b) = Len(a) + Len(b)
  BY ConcatProperties DEF Buffers
<1> QED
  BY <1>1, LenProperties DEF Buffers

LEMMA EmptyBuffer ==
    <<>> \in Buffers /\ Len(<<>>) = 0
BY EmptySeq DEF Buffers

\* The queue with nothing but the end marker.
LEMMA MarkerQueue ==
    <<<<>>>> \in Seq(Buffers) /\ Len(<<<<>>>>) = 1
<1>1. <<>> \in Buffers
  BY EmptyBuffer
<1> HIDE DEF Buffers
<1> QED
  BY <1>1

LEMMA QueueTypesKept ==
    ASSUME PeerTypes, QueueTypes, BufferTypes, [InputNext]_inputVars
    PROVE  QueueTypes'
<1>1. stream' = stream /\ Buffers' = Buffers
  BY StreamStays, SameContents
<1>2. QueueSize \in Nat \ {0}
  BY InputAssumption
<1>3. ASSUME UNCHANGED <<hand, readQueue, stolen>> PROVE QueueTypes'
  BY <1>1, <1>3 DEF QueueTypes
<1>4. ASSUME Read PROVE QueueTypes'
  <2>1. PICK count \in 1..ReadSize : got + count <= EndOf(sent) /\ hand' = Interval(got + 1, count)
    BY <1>4 DEF Read
  <2>2. UNCHANGED <<readQueue, stolen>>
    BY <1>4 DEF Read
  <2>3. Packets \in Nat /\ sent \in 0..Packets /\ EndOf(sent) \in Nat /\ Total \in Nat /\ got \in Nat
    <3>1. Packets \in Nat /\ sent \in 0..Packets
      BY StreamLaidOut DEF PeerTypes
    <3>2. EndOf(sent) \in Nat /\ Total \in Nat
      BY <3>1, Ends DEF PeerTypes
    <3> QED
      BY <3>1, <3>2 DEF PeerTypes
  <2>4. EndOf(sent) <= Total
    <3>1. Packets \in 0..Packets /\ sent <= Packets
      BY <2>3
    <3> QED
      BY <3>1, <2>3, EndsGrow DEF PeerTypes, Total
  <2>5. PICK c \in Nat : c = count /\ got + c <= Total
    BY <2>1, <2>3, <2>4, InputAssumption
  <2>6. \A k \in 1..c : got + 1 + k - 1 \in 1..Total
    BY <2>3, <2>5
  <2>7. hand' \in [1..c -> 1..Total]
    BY <2>1, <2>5, <2>6 DEF Interval
  <2>8. hand' \in Buffers
    BY <2>5, <2>7, SeqDef DEF Buffers
  <2> QED
    BY <2>2, <2>8, <1>1 DEF QueueTypes
<1>5. ASSUME Put PROVE QueueTypes'
  <2>1. hand' = <<>> /\ stolen' = stolen
    BY <1>5 DEF Put
  <2>2. \/ readQueue' = readQueue
        \/ Len(readQueue) < QueueSize /\ readQueue' = Append(readQueue, hand)
    BY <1>5 DEF Put
  <2>3. /\ Append(readQueue, hand) \in Seq(Buffers)
        /\ Len(Append(readQueue, hand)) = Len(readQueue) + 1 /\ Len(readQueue) \in Nat
    <3> HIDE DEF Buffers
    <3> QED
      BY AppendProperties, LenProperties DEF QueueTypes
  <2>4. readQueue' \in Seq(Buffers) /\ Len(readQueue') <= QueueSize
    BY <2>2, <2>3, <1>2 DEF QueueTypes
  <2> QED
    BY <2>1, <2>4, <1>1, EmptyBuffer DEF QueueTypes
<1>6. ASSUME readQueue # <<>>, readQueue' = Tail(readQueue), UNCHANGED <<hand, stolen>> PROVE QueueTypes'
  <2>1. Tail(readQueue) \in Seq(Buffers) /\ Len(Tail(readQueue)) = Len(readQueue) - 1 /\ Len(readQueue) \in Nat
    <3> HIDE DEF Buffers
    <3> QED
      BY <1>6, HeadTailProperties, LenProperties DEF QueueTypes
  <2>2. readQueue' \in Seq(Buffers) /\ Len(readQueue') <= QueueSize
    BY <2>1, <1>2, <1>6 DEF QueueTypes
  <2> QED
    BY <2>2, <1>1, <1>6 DEF QueueTypes
<1>7. ASSUME CloseInput, hand' = hand, stolen' \in Seq(Buffers), Len(stolen') <= 1 PROVE QueueTypes'
  <2>1. readQueue' \in Seq(Buffers) /\ Len(readQueue') <= QueueSize
    BY <1>2, <1>7, MarkerQueue DEF CloseInput
  <2> QED
    BY <2>1, <1>1, <1>7 DEF QueueTypes
<1>8. ASSUME InvalidHeader PROVE QueueTypes'
  <2>1. CASE UNCHANGED <<readQueue, stolen>>
    BY <2>1, <1>3, <1>8 DEF InvalidHeader, inputReader
  <2>2. CASE ~UNCHANGED <<readQueue, stolen>>
    <3>1. PICK length \in FirstLength : stolen' = <<SubSeq(unparsed, 1, length)>>
      BY <2>2, <1>8 DEF InvalidHeader
    <3>2. Len(unparsed) \in Nat
      BY LenProperties DEF BufferTypes, Buffers
    <3>3. PICK n \in 1..Len(unparsed) : n = length
      BY <3>1 DEF BufferTypes, FirstLength
    <3>4. PICK one \in Nat : one = 1
      OBVIOUS
    <3>5. one \in 1..Len(unparsed) + 1 /\ n \in one - 1..Len(unparsed) /\ unparsed \in Buffers
      BY <3>2, <3>3, <3>4 DEF BufferTypes
    <3>6. SubSeq(unparsed, 1, n) \in Buffers
      BY <3>4, <3>5, SubBuffer
    <3>7. stolen' \in Seq(Buffers) /\ Len(stolen') <= 1
      <4> HIDE DEF Buffers
      <4> QED
        BY <3>1, <3>3, <3>6
    <3>8. CloseInput /\ hand' = hand
      BY <2>2, <1>8 DEF InvalidHeader, inputReader
    <3> QED
      BY <3>7, <3>8, <1>7
  <2> QED
    BY <2>1, <2>2
<1>9. ASSUME CloseNow PROVE QueueTypes'
  BY <1>7, <1>9 DEF CloseNow, inputReader, QueueTypes
<1>10. ASSUME GetBuffer PROVE QueueTypes'
  BY <1>6, <1>10 DEF GetBuffer, inputReader
<1> QED
  BY <1>3, <1>4, <1>5, <1>8, <1>9, <1>10 DEF InputNext, inputVars, inputReader, ReadThread,
       ParseThread, PeerSends, PeerCloses, ReadNothing, Count, ReadFails, ReaderExits, CheckEof,
       RaiseMaxSize, CheckPacketSize, ParserExits, NeedsMore, ReadHeader, ParseRaw, ParsePacket, HandlePacket,
       ParseClosed

\* What is left when bytes are dropped from a buffer that ends where its last cut is.
LEMMA DropTypes ==
    ASSUME BufferTypes, Buffers' = Buffers, NEW n \in 0..Len(unparsed), Drop(n),
           \/ cuts' = CutsAfter(n)
           \/ cuts' = {Len(unparsed) - n} \ {0}
    PROVE  BufferTypes'
<1>1. PICK total \in Nat : total = Len(unparsed)
  BY LenProperties DEF BufferTypes, Buffers
<1>2. unparsed' \in Buffers /\ Len(unparsed') = total - n
  <2>1. PICK m \in Int, h \in Int :
           m = n + 1 /\ h = Len(unparsed) /\ m \in 1..Len(unparsed) + 1 /\ h \in m - 1..Len(unparsed)
    BY <1>1
  <2>2. unparsed \in Buffers
    BY DEF BufferTypes
  <2>3. SubSeq(unparsed, m, h) \in Buffers /\ Len(SubSeq(unparsed, m, h)) = h - m + 1
    BY <2>1, <2>2, SubBuffer
  <2> QED
    BY <2>1, <2>3, <1>1 DEF Drop
<1>3. \A c \in cuts : c \in 1..total
  BY <1>1 DEF BufferTypes
<1>4. cuts' \subseteq 1..total - n
  BY <1>1, <1>3 DEF CutsAfter
<1>5. unparsed' # <<>> => total - n \in cuts'
  <2> SUFFICES ASSUME unparsed' # <<>> PROVE total - n \in cuts'
    OBVIOUS
  <2>1. Len(unparsed') # 0
    <3> HIDE DEF Buffers
    <3> QED
      BY <1>2, EmptySeq DEF Buffers
  <2>2. total > n /\ total # 0
    BY <2>1, <1>1, <1>2
  <2>3. total \in cuts
    BY <2>2, <1>1, EmptySeq DEF BufferTypes
  <2> QED
    BY <2>2, <2>3, <1>1 DEF CutsAfter
<1> QED
  BY <1>2, <1>4, <1>5 DEF BufferTypes

LEMMA TakePayloadTypes ==
    ASSUME PeerTypes, BufferTypes, HeaderTypes, TakePayload, stream' = stream
    PROVE  BufferTypes' /\ HeaderTypes' /\ Payload \in Buffers
<1>1. /\ frame # 0 /\ Len(unparsed) >= Frames[frame].size /\ Drop(Frames[frame].size)
      /\ \/ cuts' = CutsAfter(Frames[frame].size)
         \/ cuts' = {Len(unparsed) - Frames[frame].size} \ {0}
      /\ header' = <<>> /\ frame' = 0
  BY DEF TakePayload
<1>2. Len(Frames) \in Nat /\ Len(unparsed) \in Nat /\ frame \in 1..Len(Frames) /\ unparsed \in Buffers
  BY <1>1, StreamLaidOut, LenProperties DEF PeerTypes, HeaderTypes, BufferTypes, Buffers
<1>3. PICK n \in 0..Len(unparsed) : n = Frames[frame].size
  BY <1>1, <1>2, FrameTypes DEF PeerTypes
<1>4. Buffers' = Buffers /\ Frames' = Frames
  BY SameContents, SameStream
<1>5. BufferTypes'
  BY <1>1, <1>3, <1>4, DropTypes
<1>6. HeaderTypes'
  <2>1. header' \in Buffers /\ Len(header') <= HeaderSize
    BY <1>1, EmptyBuffer, InputAssumption
  <2> QED
    BY <2>1, <1>1, <1>2, <1>4 DEF HeaderTypes
<1>7. Payload \in Buffers
  <2>1. PICK one \in Nat : one = 1
    OBVIOUS
  <2>2. one \in 1..Len(unparsed) + 1 /\ n \in one - 1..Len(unparsed)
    BY <2>1, <1>2
  <2>3. SubSeq(unparsed, one, n) \in Buffers
    BY <2>2, <1>2, SubBuffer
  <2> QED
    BY <2>1, <2>3, <1>3 DEF Payload
<1> QED
  BY <1>5, <1>6, <1>7

LEMMA GetBufferTypes ==
    ASSUME PeerTypes, QueueTypes, BufferTypes, GetBuffer, Buffers' = Buffers,
           waitHeader /\ FoundAt(unparsed \o Head(readQueue)) # 0
           => FoundAt(unparsed \o Head(readQueue)) \in 1..Len(unparsed \o Head(readQueue))
    PROVE  BufferTypes'
<1>1. readQueue # <<>> /\ Head(readQueue) # <<>> /\ readQueue \in Seq(Buffers)
  BY DEF GetBuffer, QueueTypes
<1>2. PICK buf \in Buffers : buf = Head(readQueue) /\ Len(buf) \in Nat \ {0}
  <2>1. Head(readQueue) \in Buffers
    <3> HIDE DEF Buffers
    <3> QED
      BY <1>1, HeadTailProperties
  <2> QED
    BY <2>1, <1>1, LenProperties, EmptySeq DEF Buffers
<1>3. PICK joined \in Buffers : joined = unparsed \o buf /\ Len(joined) = Len(unparsed) + Len(buf)
                               /\ Len(unparsed) \in Nat
  <2>1. unparsed \in Buffers
    BY DEF BufferTypes
  <2> QED
    BY <2>1, JoinBuffers
<1>4. PICK total \in Nat \ {0} : total = Len(joined) /\ Len(unparsed) <= total
  BY <1>2, <1>3
<1>5. CASE unparsed' = joined /\ cuts' = cuts \cup {Len(joined)}
  <2>1. \A c \in cuts : c \in 1..total
    BY <1>3, <1>4 DEF BufferTypes
  <2>2. total \in 1..total
    BY <1>4
  <2> QED
    BY <2>1, <2>2, <1>4, <1>5 DEF BufferTypes
<1>6. CASE unparsed' = joined /\ cuts' = {Len(joined)}
  <2>1. total \in 1..total
    BY <1>4
  <2> QED
    BY <2>1, <1>4, <1>6 DEF BufferTypes
<1>7. CASE /\ waitHeader /\ FoundAt(joined) # 0
           /\ unparsed' = SubSeq(joined, FoundAt(joined), Len(joined))
           /\ cuts' = {Len(joined) - FoundAt(joined) + 1}
  <2>1. PICK pos \in Int : pos = FoundAt(joined) /\ pos \in 1..total
    BY <1>2, <1>3, <1>4, <1>7
  <2>2. PICK h \in Int : h = Len(joined) /\ h = total
    BY <1>4
  <2>3. pos \in 1..Len(joined) + 1 /\ h \in pos - 1..Len(joined)
    BY <2>1, <2>2, <1>4
  <2>4. SubSeq(joined, pos, h) \in Buffers /\ Len(SubSeq(joined, pos, h)) = h - pos + 1
    BY <2>3, SubBuffer
  <2>5. unparsed' \in Buffers /\ Len(unparsed') = total - pos + 1 /\ cuts' = {total - pos + 1}
    BY <2>1, <2>2, <2>4, <1>7
  <2>6. total - pos + 1 \in 1..total - pos + 1
    BY <2>1
  <2> QED
    BY <2>5, <2>6 DEF BufferTypes
<1> QED
  BY <1>2, <1>3, <1>5, <1>6, <1>7 DEF GetBuffer

LEMMA ReadHeaderTypes ==
    ASSUME BufferTypes, HeaderTypes, ReadHeader, Buffers' = Buffers
    PROVE  BufferTypes' /\ header' \in Buffers /\ Len(header') <= HeaderSize
<1>1. PICK length \in FirstLength :
         LET wanted == HeaderSize - Len(header)
             count == IF length <= wanted THEN length ELSE wanted
         IN /\ header' = header \o SubSeq(unparsed, 1, count)
            /\ Drop(count)
            /\ cuts' = CutsAfter(count)
  BY DEF ReadHeader
<1> DEFINE wanted == HeaderSize - Len(header)
           count == IF length <= wanted THEN length ELSE wanted
<1>2. /\ header \in Buffers /\ unparsed \in Buffers /\ HeaderSize \in Nat
      /\ Len(unparsed) \in Nat /\ Len(header) \in Nat /\ Len(header) <= HeaderSize
  BY InputAssumption, LenProperties DEF BufferTypes, HeaderTypes, Buffers
<1>3. length \in 1..Len(unparsed)
  BY DEF FirstLength, BufferTypes
<1>4. PICK n \in 0..Len(unparsed) : n = count /\ Len(header) + n <= HeaderSize
  <2>1. PICK l \in Nat : l = Len(header)
    BY <1>2
  <2>2. PICK w \in Nat : w = HeaderSize - l /\ w = wanted
    <3>1. HeaderSize - l \in Nat
      BY <2>1, <1>2
    <3> QED
      BY <3>1, <2>1
  <2> HIDE DEF wanted
  <2>3. CASE length <= w
    <3>1. count = length
      BY <2>2, <2>3
    <3>2. length \in 0..Len(unparsed) /\ l + length <= HeaderSize
      BY <1>2, <1>3, <2>2, <2>3
    <3> QED
      BY <3>1, <3>2, <2>1
  <2>4. CASE ~(length <= w)
    <3>1. count = w
      BY <2>2, <2>4
    <3>2. w \in 0..Len(unparsed) /\ l + w <= HeaderSize
      BY <1>2, <1>3, <2>2, <2>4
    <3> QED
      BY <3>1, <3>2, <2>1
  <2> QED
    BY <2>3, <2>4
<1>5. header' = header \o SubSeq(unparsed, 1, n) /\ Drop(n) /\ cuts' = CutsAfter(n)
  BY <1>1, <1>4
<1>6. BufferTypes'
  BY <1>5, DropTypes
<1>7. SubSeq(unparsed, 1, n) \in Buffers /\ Len(SubSeq(unparsed, 1, n)) = n
  <2>1. PICK one \in Int : one = 1 /\ n \in Int
    BY <1>2
  <2>2. one \in 1..Len(unparsed) + 1 /\ n \in one - 1..Len(unparsed)
    BY <2>1, <1>2
  <2>3. SubSeq(unparsed, one, n) \in Buffers /\ Len(SubSeq(unparsed, one, n)) = n - one + 1
    BY <2>1, <2>2, <1>2, SubBuffer
  <2>4. n - one + 1 = n
    BY <2>1
  <2> QED
    BY <2>1, <2>3, <2>4
<1>8. header' \in Buffers /\ Len(header') = Len(header) + n
  <2>1. PICK part \in Buffers : part = SubSeq(unparsed, 1, n) /\ Len(part) = n
    BY <1>7
  <2>2. header \o part \in Buffers /\ Len(header \o part) = Len(header) + Len(part)
    BY <2>1, <1>2, JoinBuffers
  <2> QED
    BY <2>1, <2>2, <1>5
<1> QED
  BY <1>4, <1>6, <1>8

----------------------------------------------------------------------------
(* The steps.                                                               *)

LEMMA BadStreamStays ==
    ASSUME stream' = stream
    PROVE  BadStream' <=> BadStream
<1>1. Packets' = Packets
  BY SameStream
<1>2. \A i \in Int : WellFormed(i)' <=> WellFormed(i)
  BY SameContents
<1>3. \A i \in 1..Packets : i \in Int
  OBVIOUS
<1>4. (\E i \in 1..Packets : ~WellFormed(i))' <=> \E i \in 1..Packets : ~WellFormed(i)
  BY <1>1, <1>2, <1>3
<1> QED
  BY <1>4 DEF BadStream

\* What a step of a connection in good order starts from.
LEMMA InGoodOrder ==
    ASSUME InputTypeOK
    PROVE  /\ FlowTypes /\ PeerTypes /\ StateTypes /\ FlagTypes /\ QueueTypes /\ BufferTypes
           /\ HeaderTypes /\ PartTypes /\ DeliveryTypes /\ HandledTypes /\ CheckTypes
           /\ got <= EndOf(sent) /\ got <= Total /\ sent \in 0..Packets /\ raised \in BOOLEAN
           /\ Len(Frames) \in Nat
<1>1. /\ FlowTypes /\ PeerTypes /\ StateTypes /\ FlagTypes /\ QueueTypes /\ BufferTypes
      /\ HeaderTypes /\ PartTypes /\ DeliveryTypes /\ HandledTypes /\ CheckTypes
  BY TypesInParts, TypesForFlow
<1>2. stream \in Streams /\ sent \in 0..Packets /\ got \in 0..EndOf(sent)
  BY <1>1 DEF PeerTypes
<1>3. Packets \in Nat /\ EndOf(sent) \in Nat /\ Total \in Nat /\ Len(Frames) \in Nat
  BY <1>2, StreamLaidOut, Ends
<1>4. EndOf(sent) <= Total
  <2>1. Packets \in 0..Packets /\ sent <= Packets
    BY <1>2, <1>3
  <2> QED
    BY <2>1, <1>2, EndsGrow DEF Total
<1>5. raised \in BOOLEAN
  BY <1>1 DEF FlagTypes
<1> QED
  BY <1>1, <1>2, <1>3, <1>4, <1>5

LEMMA FlowKept ==
    ASSUME InputTypeOK, Flow, ParserInv, [InputNext]_inputVars
    PROVE  Flow'
<1> USE InGoodOrder
<1>1. PICK f \in 1..Len(Frames) + 1 : FlowAt(f)
  BY DEF Flow
<1>2. Len(Frames)' = Len(Frames)
  BY StreamStays, SameStream
<1>3. SUFFICES \E g \in 1..Len(Frames) + 1 : FlowAt(g)'
  BY <1>2 DEF Flow
<1>4. waitHeader => stream.ssh /\ parser # "parse"
  BY DEF ParserInv
<1>5. closed => readQueue = <<<<>>>>
  BY DEF ParserInv
<1>6. cuts \subseteq 1..Len(unparsed)
  BY DEF BufferTypes
<1>7. ASSUME UNCHANGED flowVars, reader = "put" <=> reader' = "put" PROVE FlowAt(f)'
  BY <1>1, <1>7, FlowUntouched
<1>8. ASSUME CloseInput, UNCHANGED <<stream, got, waitHeader, unparsed, header, frame, raws, parsed>>
      PROVE  FlowAt(f)'
  BY <1>1, <1>8, CloseFlow
<1>9. ASSUME PeerSends \/ PeerCloses PROVE FlowAt(f)'
  BY <1>7, <1>9 DEF PeerSends, PeerCloses, inputReader, inputParser, flowVars
<1>10. ASSUME ReadThread PROVE FlowAt(f)'
  <2>1. ASSUME ReadNothing \/ Count \/ ReadFails \/ ReaderExits PROVE FlowAt(f)'
    BY <1>7, <2>1 DEF ReadNothing, Count, ReadFails, ReaderExits, inputPeer, inputParser, flowVars
  <2>2. ASSUME Read PROVE FlowAt(f)'
    BY <1>1, <2>2, ReadFlow
  <2>3. ASSUME Put PROVE FlowAt(f)'
    BY <1>1, <2>3, PutFlow
  <2> QED
    BY <2>1, <2>2, <2>3, <1>10 DEF ReadThread
<1>11. ASSUME CloseNow PROVE FlowAt(f)'
  BY <1>8, <1>11 DEF CloseNow, inputPeer, inputReader, inputParser
<1>12. ASSUME CheckEof \/ RaiseMaxSize \/ (\E g \in sizeChecks : CheckPacketSize(g)) PROVE FlowAt(f)'
  BY <1>7, <1>12 DEF CheckEof, RaiseMaxSize, CheckPacketSize, inputPeer, inputReader,
       inputParser, flowVars
<1>13. ASSUME ParserExits \/ NeedsMore \/ HandlePacket \/ ParseClosed PROVE FlowAt(f)'
  BY <1>7, <1>13 DEF ParserExits, NeedsMore, HandlePacket, ParseClosed, inputPeer, inputReader, inputParser,
       flowVars
<1>14. ASSUME GetBuffer PROVE FlowAt(f)'
  BY <1>1, <1>4, <1>5, <1>14, GetBufferFlow
<1>15. ASSUME InvalidHeader PROVE FlowAt(f)'
  <2>1. CASE UNCHANGED <<readQueue, closed>>
    BY <2>1, <1>7, <1>15 DEF InvalidHeader, inputPeer, inputReader, inputParser, flowVars
  <2>2. CASE CloseInput
    BY <2>2, <1>8, <1>15 DEF InvalidHeader, inputPeer, inputReader, inputParser
  <2> QED
    BY <2>1, <2>2, <1>15 DEF InvalidHeader
<1>16. ASSUME ReadHeader PROVE FlowAt(f)'
  BY <1>1, <1>4, <1>6, <1>16, ReadHeaderFlow
<1>17. ASSUME ParseRaw \/ ParsePacket PROVE \E g \in 1..Len(Frames) + 1 : FlowAt(g)'
  <2>1. f + 1 \in 1..Len(Frames) + 1 /\ FlowAt(f + 1)'
    BY <1>1, <1>17, ParseRawFlow, ParsePacketFlow
  <2> QED
    BY <2>1
<1>18. CASE UNCHANGED inputVars
  <2>1. UNCHANGED flowVars /\ reader' = reader
    BY <1>18 DEF inputVars, inputPeer, inputReader, inputParser, flowVars
  <2> QED
    BY <2>1, <1>1, <1>7
<1> QED
  BY <1>1, <1>9, <1>10, <1>11, <1>12, <1>13, <1>14, <1>15, <1>16, <1>17, <1>18 DEF InputNext,
       ParseThread

LEMMA BuffersKept ==
    ASSUME InputTypeOK, Flow, ParserInv, [InputNext]_inputVars
    PROVE  BufferTypes' /\ HeaderTypes'
<1> USE InGoodOrder
<1>1. PICK f \in 1..Len(Frames) + 1 : FlowAt(f)
  BY DEF Flow
<1>2. stream' = stream /\ Buffers' = Buffers /\ Frames' = Frames
  BY StreamStays, SameStream, SameContents
<1>3. ASSUME UNCHANGED <<unparsed, cuts>> PROVE BufferTypes'
  BY <1>2, <1>3 DEF BufferTypes
<1>4. ASSUME UNCHANGED <<header, frame>> PROVE HeaderTypes'
  BY <1>2, <1>4 DEF HeaderTypes
<1>5. ASSUME GetBuffer PROVE BufferTypes' /\ HeaderTypes'
  <2>1. waitHeader => stream.ssh
    BY DEF ParserInv
  <2>2. closed => readQueue = <<<<>>>>
    BY DEF ParserInv
  <2>3. waitHeader /\ FoundAt(unparsed \o Head(readQueue)) # 0
        => FoundAt(unparsed \o Head(readQueue)) \in 1..Len(unparsed \o Head(readQueue))
    BY <2>1, <2>2, <1>1, <1>5, GetBufferFlow
  <2>4. BufferTypes'
    BY <2>3, <1>2, <1>5, GetBufferTypes
  <2>5. UNCHANGED <<header, frame>>
    BY <1>5 DEF GetBuffer
  <2> QED
    BY <2>4, <2>5, <1>4
<1>6. ASSUME ReadHeader PROVE BufferTypes' /\ HeaderTypes'
  <2>1. BufferTypes' /\ header' \in Buffers /\ Len(header') <= HeaderSize
    BY <1>2, <1>6, ReadHeaderTypes
  <2>2. frame' # 0 => f \in 1..Len(Frames) /\ frame' = f
    <3>1. waitHeader => parser # "parse"
      BY DEF ParserInv
    <3>2. cuts \subseteq 1..Len(unparsed)
      BY DEF BufferTypes
    <3> QED
      BY <3>1, <3>2, <1>1, <1>6, ReadHeaderFlow
  <2> QED
    BY <2>1, <2>2, <1>2 DEF HeaderTypes
<1>7. ASSUME ParseRaw \/ ParsePacket PROVE BufferTypes' /\ HeaderTypes'
  BY <1>2, <1>7, TakePayloadTypes DEF ParseRaw, ParsePacket
<1>8. CASE UNCHANGED <<unparsed, cuts, header, frame>>
  BY <1>3, <1>4, <1>8
<1> QED
  BY <1>5, <1>6, <1>7, <1>8 DEF InputNext, inputVars, inputParser, ReadThread, ParseThread,
       PeerSends, PeerCloses, Read, ReadNothing, Put, Count, ReadFails, ReaderExits, CloseNow,
       CheckEof, RaiseMaxSize, CheckPacketSize, ParserExits, NeedsMore, InvalidHeader,
       HandlePacket, ParseClosed

\* The steps that leave the parts of a packet alone.
LEMMA OtherSteps ==
    ASSUME [InputNext]_inputVars
    PROVE  /\ raws' = raws \/ ParseRaw \/ ParsePacket
           /\ parsed' = parsed \/ ParsePacket
           /\ sizeChecks' \subseteq sizeChecks \/ ReadHeader
           /\ frame' = frame \/ frame' = 0 \/ ReadHeader
           /\ sent' = sent \/ PeerSends
           /\ handled' = handled \/ HandlePacket
           /\ (parser' = "handle" <=> parser = "handle") \/ ParsePacket \/ HandlePacket
<1>1. raws' = raws \/ ParseRaw \/ ParsePacket
  BY DEF InputNext, inputVars, inputPeer, inputParser, ReadThread, ParseThread, PeerSends,
       PeerCloses, Read, ReadNothing, Put, Count, ReadFails, ReaderExits, CloseNow, CheckEof,
       RaiseMaxSize, CheckPacketSize, GetBuffer, ParserExits, NeedsMore, InvalidHeader,
       ParseClosed, HandlePacket, ReadHeader
<1>2. parsed' = parsed \/ ParsePacket
  BY DEF InputNext, inputVars, inputPeer, inputParser, ReadThread, ParseThread, PeerSends,
       PeerCloses, Read, ReadNothing, Put, Count, ReadFails, ReaderExits, CloseNow, CheckEof,
       RaiseMaxSize, CheckPacketSize, GetBuffer, ParserExits, NeedsMore, InvalidHeader,
       ParseClosed, HandlePacket, ReadHeader, ParseRaw
<1>3. sizeChecks' \subseteq sizeChecks \/ ReadHeader
  BY DEF InputNext, inputVars, inputPeer, inputParser, ReadThread, ParseThread, PeerSends,
       PeerCloses, Read, ReadNothing, Put, Count, ReadFails, ReaderExits, CloseNow, CheckEof,
       RaiseMaxSize, CheckPacketSize, GetBuffer, ParserExits, NeedsMore, InvalidHeader,
       ParseClosed, HandlePacket, ParseRaw, ParsePacket
<1>4. frame' = frame \/ frame' = 0 \/ ReadHeader
  BY DEF InputNext, inputVars, inputPeer, inputParser, ReadThread, ParseThread, PeerSends,
       PeerCloses, Read, ReadNothing, Put, Count, ReadFails, ReaderExits, CloseNow, CheckEof,
       RaiseMaxSize, CheckPacketSize, GetBuffer, ParserExits, NeedsMore, InvalidHeader,
       ParseClosed, HandlePacket, ParseRaw, ParsePacket, TakePayload
<1>5. sent' = sent \/ PeerSends
  BY DEF InputNext, inputVars, inputPeer, inputParser, ReadThread, ParseThread, PeerCloses, Read,
       ReadNothing, Put, Count, ReadFails, ReaderExits, CloseNow, CheckEof, RaiseMaxSize,
       CheckPacketSize, GetBuffer, ParserExits, NeedsMore, InvalidHeader, ParseClosed, HandlePacket,
       ReadHeader, ParseRaw, ParsePacket
<1>6. handled' = handled \/ HandlePacket
  BY DEF InputNext, inputVars, inputParser, ReadThread, ParseThread, PeerSends, PeerCloses, Read,
       ReadNothing, Put, Count, ReadFails, ReaderExits, CloseNow, CheckEof, RaiseMaxSize,
       CheckPacketSize, GetBuffer, ParserExits, NeedsMore, InvalidHeader, ParseClosed,
       ReadHeader, ParseRaw, ParsePacket
<1>7. (parser' = "handle" <=> parser = "handle") \/ ParsePacket \/ HandlePacket
  BY DEF InputNext, inputVars, ReadThread, ParseThread, PeerSends, PeerCloses, HangUp,
       TakePayload, Read, ReadNothing, Put, Count, ReadFails, ReaderExits, CloseNow, CheckEof,
       RaiseMaxSize, CheckPacketSize, GetBuffer, ParserExits, NeedsMore, InvalidHeader,
       ReadHeader, ParseHeader, ParseClosed, ParseRaw
<1> QED
  BY <1>1, <1>2, <1>3, <1>4, <1>5, <1>6, <1>7

LEMMA PartsKept ==
    ASSUME InputTypeOK, Flow, ParserInv, [InputNext]_inputVars
    PROVE  PartTypes' /\ (parser' # "exited" => Cardinality(DOMAIN raws') < MaxRaw)
<1> USE InGoodOrder
<1>1. PICK f \in 1..Len(Frames) + 1 : FlowAt(f)
  BY DEF Flow
<1>2. stream' = stream /\ Buffers' = Buffers
  BY StreamStays, SameContents
<1>3. parser' # "exited" => parser # "exited"
  BY DEF InputNext, inputVars, ReadThread, ParseThread, PeerSends, PeerCloses, HangUp,
       TakePayload, Read, ReadNothing, Put, Count, ReadFails, ReaderExits, CloseNow, CheckEof,
       RaiseMaxSize, CheckPacketSize, GetBuffer, ParserExits, NeedsMore, InvalidHeader,
       ReadHeader, ParseHeader, ParseClosed, HandlePacket, ParseRaw, ParsePacket
<1>4. MaxRaw \in Nat \ {0} /\ MaxIndex \in Nat \ {0}
  BY InputAssumption
<1>5. CASE raws' = raws
  BY <1>2, <1>3, <1>5 DEF PartTypes, ParserInv
<1>6. CASE ParseRaw
  <2>1. /\ \/ hangups' = hangups /\ parser' = parser /\ Cardinality(DOMAIN raws') < MaxRaw
           \/ parser' = "exited" /\ BadStream
        /\ Cardinality(DOMAIN raws') <= Cardinality(DOMAIN raws) + 1
        /\ DOMAIN raws' = DOMAIN raws \cup {Frames[f].index}
        /\ \A j \in DOMAIN raws' : raws'[j] \in {PayloadOf(f)} \cup {raws[k] : k \in DOMAIN raws}
        /\ frame = f /\ f \in 1..Len(Frames)
    BY <1>1, <1>6, ParseRawFlow
  <2>2. Cardinality(DOMAIN raws) < MaxRaw
    <3>1. parser # "exited"
      BY <1>6 DEF ParseRaw, TakePayload
    <3> QED
      BY <3>1 DEF ParserInv
  <2>3. IsFiniteSet(DOMAIN raws) /\ Cardinality(DOMAIN raws) \in Nat
    <3>1. IsFiniteSet(DOMAIN raws)
      BY <1>1 DEF FlowAt, InPacket
    <3> QED
      BY <3>1, FS_CardinalityType
  <2>4. IsFiniteSet(DOMAIN raws') /\ Cardinality(DOMAIN raws') \in Nat
    <3>1. \A S, x : IsFiniteSet(S) => IsFiniteSet(S \cup {x})
      BY FS_AddElement
    <3>2. IsFiniteSet(DOMAIN raws')
      BY <3>1, <2>1, <2>3
    <3> QED
      BY <3>2, FS_CardinalityType
  <2>5. Cardinality(DOMAIN raws') <= MaxRaw
    BY <2>1, <2>2, <2>3, <2>4, <1>4
  <2>6. DOMAIN raws' \subseteq 1..MaxIndex - 1
    <3>1. Frames[f].index \in Nat /\ Frames[f].index < MaxIndex /\ Frames[f].index > 0
      <4>1. Frames[f].index \in Nat
        BY <2>1, FrameTypes DEF PeerTypes
      <4>2. f # 0
        BY <2>1
      <4>3. Frames[f].index < MaxIndex
        BY <4>2, <2>1 DEF ParserInv
      <4>4. Frames[f].index > 0
        BY <2>1, <1>6 DEF ParseRaw
      <4> QED
        BY <4>1, <4>3, <4>4
    <3>2. Frames[f].index \in 1..MaxIndex - 1
      BY <3>1, <1>4
    <3> QED
      BY <3>2, <2>1 DEF PartTypes
  <2>7. PayloadOf(f) \in Buffers
    <3>1. Payload \in Buffers
      BY <1>2, <1>6, TakePayloadTypes DEF ParseRaw
    <3>2. UNCHANGED <<stream, got, hand, readQueue, waitHeader, closed, reader>>
      BY <1>6 DEF ParseRaw, inputPeer, inputReader
    <3>3. Payload = PayloadOf(f)
      BY <3>2, <1>1, <1>6, TakePayloadFlow DEF ParseRaw
    <3> QED
      BY <3>1, <3>3
  <2>8. \A j \in DOMAIN raws' : raws'[j] \in Buffers
    BY <2>1, <2>7 DEF PartTypes
  <2> QED
    BY <2>1, <2>5, <2>6, <2>8, <1>2 DEF PartTypes
<1>7. CASE ParsePacket
  <2>1. raws' = RawsOf({})
    BY <1>7 DEF ParsePacket
  <2>2. DOMAIN raws' = {}
    <3>1. 0 \in Int
      OBVIOUS
    <3> QED
      BY <3>1, <2>1, NoRawsYet
  <2>3. Cardinality(DOMAIN raws') = 0
    BY <2>2, FS_EmptySet
  <2> QED
    BY <2>2, <2>3, <1>4 DEF PartTypes
<1> QED
  BY <1>5, <1>6, <1>7, OtherSteps

LEMMA DeliveryKept ==
    ASSUME InputTypeOK, Flow, ParserInv, [InputNext]_inputVars
    PROVE  DeliveryTypes'
<1> USE InGoodOrder
<1>1. PICK f \in 1..Len(Frames) + 1 : FlowAt(f)
  BY DEF Flow
<1>2. stream' = stream /\ Packets' = Packets /\ \A i \in Int : PacketContent(i)' = PacketContent(i)
  BY StreamStays, SameStream, SameContents
<1> DEFINE T == {PacketContent(i) : i \in 1..Packets}
<1>3. T' = T
  <2>1. \A i \in 1..Packets : i \in Int
    OBVIOUS
  <2> QED
    BY <2>1, <1>2
<1>4. Packets \in Nat /\ sent \in Nat /\ Len(parsed) \in Nat /\ parsed \in Seq(T) /\ Len(parsed) <= sent
  <2>1. parsed \in Seq(T) /\ Len(parsed) <= sent
    BY DEF DeliveryTypes
  <2>2. Packets \in Nat /\ sent \in Nat
    BY StreamLaidOut DEF PeerTypes
  <2> HIDE DEF T
  <2>3. Len(parsed) \in Nat
    BY <2>1, LenProperties
  <2> QED
    BY <2>1, <2>2, <2>3
<1>5. sent' \in Nat /\ sent <= sent'
  <2>1. sent' = sent \/ sent' = sent + 1
    BY OtherSteps DEF PeerSends
  <2> HIDE DEF T
  <2> QED
    BY <2>1, <1>4
<1>6. CASE parsed' = parsed
  <2>1. DeliveryTypes' <=> parsed' \in Seq(T') /\ Len(parsed') <= sent'
    BY DEF DeliveryTypes
  <2> HIDE DEF T
  <2>2. parsed' \in Seq(T') /\ Len(parsed') <= sent'
    BY <1>3, <1>4, <1>5, <1>6
  <2> QED
    BY <2>1, <2>2
<1>7. CASE ParsePacket
  <2>1. /\ Len(parsed) < sent /\ Len(parsed) \in 0..Packets - 1
        /\ parsed' = Append(parsed, PacketContent(Len(parsed) + 1))
    BY <1>1, <1>7, ParsePacketFlow
  <2>2. PICK n \in 1..Packets : n = Len(parsed) + 1
    BY <2>1, <1>4
  <2>3. PacketContent(n) \in T
    BY <2>2
  <2> HIDE DEF T
  <2>4. Append(parsed, PacketContent(n)) \in Seq(T)
        /\ Len(Append(parsed, PacketContent(n))) = Len(parsed) + 1
    BY <2>3, <1>4, AppendProperties
  <2>5. parsed' \in Seq(T) /\ Len(parsed') <= sent'
    BY <2>1, <2>2, <2>4, <1>4, <1>5
  <2> QED
    BY <2>5, <1>3 DEF DeliveryTypes, T
<1> QED
  BY <1>6, <1>7, OtherSteps

LEMMA HandledKept ==
    ASSUME InputTypeOK, Flow, ParserInv, [InputNext]_inputVars
    PROVE  HandledTypes'
<1> USE InGoodOrder
<1>1. PICK n \in Nat : n = Len(parsed)
  BY LenProperties DEF DeliveryTypes
<1>2. CASE ParsePacket
  <2>1. PICK f \in 1..Len(Frames) + 1 : FlowAt(f)
    BY DEF Flow
  <2>2. parsed' = Append(parsed, PacketContent(Len(parsed) + 1))
    BY <2>1, <1>2, ParsePacketFlow
  <2>3. Len(parsed') = n + 1
    BY <2>2, <1>1, AppendProperties DEF DeliveryTypes
  <2>4. parser = "parse" /\ parser' = "handle" /\ handled' = handled
    BY <1>2 DEF ParsePacket, TakePayload
  <2> QED
    BY <2>3, <2>4, <1>1 DEF HandledTypes
<1>3. CASE HandlePacket
  <2>1. parser = "handle" /\ parser' = "parse" /\ handled' = handled + 1 /\ parsed' = parsed
    BY <1>3 DEF HandlePacket
  <2> QED
    BY <2>1, <1>1 DEF HandledTypes
<1>4. CASE ~ParsePacket /\ ~HandlePacket
  <2>1. parsed' = parsed /\ handled' = handled /\ (parser' = "handle" <=> parser = "handle")
    BY <1>4, OtherSteps
  <2> QED
    BY <2>1 DEF HandledTypes
<1> QED
  BY <1>2, <1>3, <1>4

LEMMA ChecksKept ==
    ASSUME InputTypeOK, Flow, ParserInv, [InputNext]_inputVars
    PROVE  /\ CheckTypes' /\ (sizeChecks' # {} => BadStream')
           /\ frame' # 0 => Frames'[frame'].index < MaxIndex
<1> USE InGoodOrder
<1>1. PICK f \in 1..Len(Frames) + 1 : FlowAt(f)
  BY DEF Flow
<1>2. stream' = stream /\ Frames' = Frames /\ (BadStream' <=> BadStream)
  BY StreamStays, SameStream, BadStreamStays
<1>3. CASE ReadHeader
  <2>1. /\ frame' # 0 => f \in 1..Len(Frames) /\ frame' = f /\ Acceptable(f)
        /\ \/ sizeChecks' = sizeChecks
           \/ f \in 1..Len(Frames) /\ Frames[f].size > MaxNow /\ sizeChecks' = sizeChecks \cup {f}
    <3>1. waitHeader => parser # "parse"
      BY DEF ParserInv
    <3>2. cuts \subseteq 1..Len(unparsed)
      BY DEF BufferTypes
    <3> QED
      BY <3>1, <3>2, <1>1, <1>3, ReadHeaderFlow
  <2>2. sizeChecks' # {} => BadStream
    BY <2>1, <1>1, OversizeIsBad DEF ParserInv, FlowAt
  <2>3. CheckTypes'
    BY <2>1, <1>2 DEF CheckTypes
  <2> QED
    BY <2>1, <2>2, <2>3, <1>2 DEF Acceptable
<1>4. CASE ~ReadHeader
  <2>1. sizeChecks' \subseteq sizeChecks /\ (frame' = frame \/ frame' = 0)
    BY <1>4, OtherSteps
  <2> QED
    BY <2>1, <1>2 DEF CheckTypes, ParserInv
<1> QED
  BY <1>3, <1>4

LEMMA WaitingKept ==
    ASSUME InputTypeOK, ParserInv, [InputNext]_inputVars
    PROVE  /\ waitHeader' => stream'.ssh /\ parser' \notin {"parse", "handle"}
           /\ closed' => readQueue' = <<<<>>>>
<1>1. waitHeader => stream.ssh /\ parser \notin {"parse", "handle"}
  BY DEF ParserInv
<1>2. closed => readQueue = <<<<>>>>
  BY DEF ParserInv
<1>3. stream' = stream
  BY StreamStays
<1>4. waitHeader' => waitHeader
  BY InGoodOrder DEF FlagTypes, InputNext, inputVars, inputParser, ReadThread, ParseThread,
       PeerSends, PeerCloses, Read, ReadNothing, Put, Count, ReadFails, ReaderExits, CloseNow,
       CheckEof, RaiseMaxSize, CheckPacketSize, GetBuffer, ParserExits, NeedsMore, InvalidHeader,
       ReadHeader, ParseClosed, HandlePacket, ParseRaw, ParsePacket
<1>5. waitHeader' => parser' \notin {"parse", "handle"}
  BY <1>1, <1>4 DEF InputNext, inputVars, inputParser, ReadThread, ParseThread, PeerSends,
       PeerCloses, HangUp, TakePayload, Read, ReadNothing, Put, Count, ReadFails, ReaderExits,
       CloseNow, CheckEof, RaiseMaxSize, CheckPacketSize, GetBuffer, ParserExits, NeedsMore,
       InvalidHeader, ReadHeader, ParseHeader, ParseClosed, HandlePacket, ParseRaw, ParsePacket
<1>6. closed' => readQueue' = <<<<>>>>
  <2>1. CASE GetBuffer
    <3>1. Head(<<<<>>>>) = <<>>
      OBVIOUS
    <3> QED
      BY <2>1, <3>1, <1>2 DEF GetBuffer
  <2>2. CASE ~GetBuffer
    BY <2>2, <1>2 DEF InputNext, inputVars, ReadThread, ParseThread, PeerSends, PeerCloses,
         CloseInput, Read, ReadNothing, Put, Count, ReadFails, ReaderExits, CloseNow, CheckEof,
         RaiseMaxSize, CheckPacketSize, ParserExits, NeedsMore, InvalidHeader, ReadHeader,
         ParseClosed, HandlePacket, ParseRaw, ParsePacket
  <2> QED
    BY <2>1, <2>2
<1> QED
  BY <1>1, <1>3, <1>4, <1>5, <1>6

\* What a step refuses is a fault of the stream.
LEMMA RefusalsKept ==
    ASSUME InputTypeOK, Flow, ParserInv, OnlyBadInputRefused, [InputNext]_inputVars
    PROVE  OnlyBadInputRefused'
<1> USE InGoodOrder
<1>1. PICK f \in 1..Len(Frames) + 1 : FlowAt(f)
  BY DEF Flow
<1>2. BadStream' <=> BadStream
  BY StreamStays, BadStreamStays
<1>3. hangups \cap {"invalid", "gibberish"} # {} => BadStream
  BY DEF OnlyBadInputRefused, BadStream
<1>4. SUFFICES hangups' \cap {"invalid", "gibberish"} # {} => BadStream
  BY <1>2 DEF OnlyBadInputRefused, BadStream
<1>5. ASSUME hangups' \in {hangups, hangups \cup {"eof"}, hangups \cup {"error"}}
      PROVE  hangups' \cap {"invalid", "gibberish"} # {} => BadStream
  BY <1>3, <1>5
<1>6. waitHeader => parser # "parse"
  BY DEF ParserInv
<1>7. CASE InvalidHeader
  BY <1>1, <1>6, <1>7, InvalidIsNoise DEF FlowAt
<1>8. CASE ReadHeader
  <2>1. cuts \subseteq 1..Len(unparsed)
    BY DEF BufferTypes
  <2>2. \/ hangups' = hangups
        \/ f \in 1..Len(Frames) /\ ~Acceptable(f)
    BY <2>1, <1>1, <1>6, <1>8, ReadHeaderFlow
  <2>3. CASE hangups' = hangups
    BY <2>3, <1>3
  <2>4. CASE f \in 1..Len(Frames) /\ ~Acceptable(f)
    BY <2>4, <1>1, RefusedIsBad DEF FlowAt
  <2> QED
    BY <2>2, <2>3, <2>4
<1>9. CASE ParseRaw
  BY <1>1, <1>3, <1>9, ParseRawFlow
<1>10. CASE \E g \in sizeChecks : CheckPacketSize(g)
  BY <1>10 DEF ParserInv
<1>11. CASE UNCHANGED inputVars
  BY <1>5, <1>11 DEF inputVars
<1>12. CASE PeerSends \/ PeerCloses \/ ReadThread \/ CloseNow \/ CheckEof \/ RaiseMaxSize \/ GetBuffer
            \/ ParserExits \/ NeedsMore \/ ParsePacket \/ HandlePacket \/ ParseClosed
  <2>1. hangups' \in {hangups, hangups \cup {"eof"}, hangups \cup {"error"}}
    BY <1>12 DEF ReadThread, PeerSends, PeerCloses, Read, ReadNothing, Put, Count, ReadFails,
         ReaderExits, CloseNow, CheckEof, RaiseMaxSize, GetBuffer, ParserExits, NeedsMore,
         HandlePacket, ParseClosed, ParsePacket
  <2> QED
    BY <2>1, <1>5
<1> QED
  BY <1>7, <1>8, <1>9, <1>10, <1>11, <1>12 DEF InputNext, ParseThread

LEMMA InputInvKept ==
    ASSUME InputInv, [InputNext]_inputVars
    PROVE  InputInv'
<1>1. InputTypeOK /\ Flow /\ ParserInv /\ OnlyBadInputRefused
  BY DEF InputInv
<1>2. PeerTypes' /\ StateTypes' /\ FlagTypes' /\ QueueTypes'
  BY <1>1, InGoodOrder, PeerTypesKept, StateTypesKept, FlagTypesKept, QueueTypesKept
<1>3. BufferTypes' /\ HeaderTypes' /\ PartTypes' /\ DeliveryTypes' /\ HandledTypes' /\ CheckTypes'
  BY <1>1, BuffersKept, PartsKept, DeliveryKept, HandledKept, ChecksKept
<1>4. InputTypeOK'
  BY <1>2, <1>3, Zenon DEF InputTypeOK, PeerTypes, StateTypes, FlagTypes, QueueTypes,
       BufferTypes, HeaderTypes, PartTypes, DeliveryTypes, HandledTypes, CheckTypes
<1>5. Flow'
  BY <1>1, FlowKept
<1>6. ParserInv'
  BY <1>1, WaitingKept, PartsKept, ChecksKept DEF ParserInv
<1>7. OnlyBadInputRefused'
  BY <1>1, RefusalsKept
<1> QED
  BY <1>4, <1>5, <1>6, <1>7 DEF InputInv

----------------------------------------------------------------------------
(* The theorems.                                                            *)

LEMMA InputStarts ==
    ASSUME InputInit
    PROVE  InputInv
<1>1. /\ stream \in Streams /\ sent = 0 /\ ended = FALSE /\ got = 0 /\ reader = "read" /\ hand = <<>>
      /\ eofCheck = "none" /\ empties = 0 /\ readQueue = <<>> /\ parser = "none"
      /\ waitHeader = stream.ssh /\ unparsed = <<>> /\ cuts = {} /\ header = <<>> /\ frame = 0
      /\ raws = RawsOf({}) /\ parsed = <<>> /\ handled = 0 /\ raised = FALSE /\ sizeChecks = {}
      /\ hangups = {} /\ closed = FALSE /\ stolen = <<>>
  BY DEF InputInit
<1>2. /\ Packets \in Nat /\ Len(Frames) \in Nat /\ stream.noise \in Nat /\ stream.ssh \in BOOLEAN
      /\ HeaderSize \in Nat /\ MaxRaw \in Nat \ {0} /\ QueueSize \in Nat /\ MaxEmpty \in Nat
  BY <1>1, StreamLaidOut, InputAssumption
<1>3. <<>> \in Buffers /\ Len(<<>>) = 0 /\ <<>> \in Seq(Buffers)
  BY EmptyBuffer, EmptySeq
<1>4. DOMAIN raws = {} /\ IsFiniteSet(DOMAIN raws) /\ Cardinality(DOMAIN raws) = 0
      /\ \A n \in Int : RawsOf(n + 1..n) = raws
  <2>1. \A n \in Int : RawsOf(n + 1..n) = raws /\ DOMAIN RawsOf({}) = {}
    BY <1>1, NoRawsYet
  <2>2. 0 \in Int
    OBVIOUS
  <2>3. DOMAIN raws = {}
    BY <2>1, <2>2, <1>1
  <2> QED
    BY <2>1, <2>3, FS_EmptySet
<1>5. PeerTypes
  <2>1. EndOf(0) = 0 /\ 0 \in 0..Packets
    BY <1>1, <1>2, Ends
  <2>2. sent \in 0..Packets /\ got \in 0..EndOf(sent)
    BY <2>1, <1>1
  <2>3. ended \in BOOLEAN
    BY <1>1
  <2> QED
    BY <2>2, <2>3, <1>1 DEF PeerTypes
<1>6. StateTypes
  BY <1>1, <1>2 DEF StateTypes
<1>7. FlagTypes
  BY <1>1, <1>2 DEF FlagTypes
<1>8. QueueTypes
  BY <1>1, <1>2, <1>3 DEF QueueTypes
<1>9. BufferTypes /\ HeaderTypes
  BY <1>1, <1>2, <1>3 DEF BufferTypes, HeaderTypes
<1>10. PartTypes /\ CheckTypes
  <2>1. DOMAIN raws \subseteq 1..MaxIndex - 1 /\ \A j \in DOMAIN raws : raws[j] \in Buffers
    BY <1>4
  <2>2. Cardinality(DOMAIN raws) <= MaxRaw
    BY <1>2, <1>4
  <2>3. sizeChecks \subseteq 1..Len(Frames)
    BY <1>1
  <2> QED
    BY <2>1, <2>2, <2>3 DEF PartTypes, CheckTypes
<1>11. DeliveryTypes /\ HandledTypes
  BY <1>1, EmptySeq DEF DeliveryTypes, HandledTypes
<1>12. InputTypeOK
  BY <1>5, <1>6, <1>7, <1>8, <1>9, <1>10, <1>11, TypesInParts
<1>13. ParserInv /\ OnlyBadInputRefused
  BY <1>1, <1>2, <1>4 DEF ParserInv, OnlyBadInputRefused
<1>14. PICK f \in 1..Len(Frames) + 1 : f = 1
  BY <1>2
<1>15. Start(f) = stream.noise + 1 /\ Position(f) = 1
  <2>1. Start(f) = stream.noise + 1
    BY <1>1, <1>14, Starts
  <2>2. CASE Skipping
    BY <2>1, <2>2 DEF Position
  <2>3. CASE ~Skipping
    <3>1. stream.noise = 0
      BY <2>3, <1>1, <1>2 DEF Skipping
    <3>2. Position(f) = Start(f) + Len(header) /\ Len(header) = 0
      BY <2>3, <1>1 DEF Position
    <3> QED
      BY <2>1, <3>1, <3>2
  <2> QED
    BY <2>2, <2>3
<1>16. AtFrame(f)
  <2>1. \A s : From(header, s) /\ From(unparsed, s)
    BY <1>1 DEF From
  <2>2. Position(f) + Len(unparsed) <= got + 1
    BY <1>1, <1>15
  <2> QED
    BY <2>1, <2>2, <1>1, <1>2, <1>14 DEF AtFrame
<1>17. InPacket(f)
  <2>1. Len(parsed) = 0 /\ LastFrame(0) = 0 /\ FirstFrame = 1
    BY <1>1, LastFrames DEF FirstFrame
  <2>2. raws = RawsOf(1..1 - 1)
    <3>1. PICK n \in Int : n = 0
      OBVIOUS
    <3>2. n + 1 = 1 /\ n = 1 - 1
      BY <3>1
    <3> QED
      BY <3>2, <1>4
  <2>3. 0 < Packets => 1 <= LastFrame(1)
    <3> SUFFICES ASSUME 0 < Packets PROVE 1 <= LastFrame(1)
      OBVIOUS
    <3>1. 0 \in 0..Packets /\ 1 \in 0..Packets
      BY <1>2
    <3>2. LastFrame(0) < LastFrame(1) /\ LastFrame(1) \in 0..Len(Frames)
      BY <3>1, <1>1, LastFrames
    <3> QED
      BY <3>2, <2>1, <1>2
  <2> QED
    BY <2>1, <2>2, <2>3, <1>2, <1>4, <1>14 DEF InPacket
<1>18. Reaches(Position(f) + Len(unparsed))
  <2>1. Position(f) + Len(unparsed) = 1
    BY <1>1, <1>15
  <2>2. Reaches(1)
    BY <1>1 DEF Reaches, From
  <2> QED
    BY <2>1, <2>2
<1>19. Flow
  BY <1>16, <1>17, <1>18 DEF Flow, FlowAt
<1> QED
  BY <1>12, <1>13, <1>19 DEF InputInv

\* The bytes in the buffers follow each other, from the reads to the parser, and the packets put
\* together are those that the other end sent: read_queue_put, get_header, process_packet.
THEOREM InputInvariant == InputSpec => []InputInv
<1>1. InputInv /\ [InputNext]_inputVars => InputInv'
  BY InputInvKept
<1> QED
  BY <1>1, InputStarts, PTL DEF InputSpec

\* The variables of the read thread and of the parse thread have their types.
THEOREM InputTypeCorrect == InputSpec => []InputTypeOK
<1>1. InputInv => InputTypeOK
  BY DEF InputInv
<1> QED
  BY <1>1, InputInvariant, PTL

\* A stream that respects the limits is never refused, however the reads cut it, and whatever
\* precedes it over ssh without looking like a header
\* (invalid_header, gibberish, check_packet_size, the raw packets of process_packet).
THEOREM GoodInputAccepted == InputSpec => []OnlyBadInputRefused
<1>1. InputInv => OnlyBadInputRefused
  BY DEF InputInv
<1> QED
  BY <1>1, InputInvariant, PTL

\* A step of the connection is a step of the channel, or none.
LEMMA InputStepIsChannelStep ==
    ASSUME InputInv, [InputNext]_inputVars
    PROVE  [Channel!Next]_(Channel!vars)
<1> DEFINE all == [i \in 1..Packets |-> PacketContent(i)]
<1>1. InputTypeOK /\ Flow /\ ParserInv
  BY DEF InputInv
<1> USE <1>1, InGoodOrder
<1>2. PICK f \in 1..Len(Frames) + 1 : FlowAt(f)
  BY DEF Flow
<1>3. Packets \in Nat /\ sent \in 0..Packets /\ closed \in BOOLEAN
  BY StreamLaidOut DEF PeerTypes, FlagTypes
<1>4. all' = all
  <2>1. Packets' = Packets /\ \A i \in Int : PacketContent(i)' = PacketContent(i)
    BY StreamStays, SameStream, SameContents
  <2>2. \A i \in 1..Packets : i \in Int
    OBVIOUS
  <2> QED
    BY <2>1, <2>2
<1>5. Len(all) = Packets
  BY <1>3
<1>6. CASE PeerSends
  <2>1. sent < Packets /\ sent' = sent + 1 /\ parsed' = parsed /\ handled' = handled /\ closed' = closed
    BY <1>6 DEF PeerSends, inputParser
  <2> HIDE DEF all
  <2>2. Channel!Send
    BY <2>1, <1>4, <1>5 DEF Channel!Send, all
  <2> QED
    BY <2>2 DEF Channel!Next
<1>7. CASE ParsePacket
  <2>1. ~closed /\ closed' = closed /\ sent' = sent /\ handled' = handled /\ handled = Len(parsed)
    BY <1>7 DEF ParsePacket, TakePayload, inputPeer, HandledTypes
  <2>2. /\ Len(parsed) < sent /\ Len(parsed) \in 0..Packets - 1
        /\ parsed' = Append(parsed, PacketContent(Len(parsed) + 1))
    BY <1>2, <1>7, ParsePacketFlow
  <2>3. all[Len(parsed) + 1] = PacketContent(Len(parsed) + 1)
    BY <2>2, <1>3
  <2>4. Channel!Take
    BY <2>1, <2>2, <2>3, <1>4 DEF Channel!Take
  <2> QED
    BY <2>4 DEF Channel!Next
<1>8. CASE HandlePacket
  <2>1. /\ parser = "handle" /\ handled' = handled + 1
        /\ sent' = sent /\ parsed' = parsed /\ closed' = closed
    BY <1>8 DEF HandlePacket, inputPeer
  <2>2. handled < Len(parsed)
    BY <2>1, LenProperties DEF HandledTypes, DeliveryTypes
  <2>3. Channel!Handle
    BY <2>1, <2>2, <1>4 DEF Channel!Handle
  <2> QED
    BY <2>3 DEF Channel!Next
<1>9. CASE ~PeerSends /\ ~ParsePacket /\ ~HandlePacket
  <2>1. sent' = sent /\ parsed' = parsed /\ handled' = handled
    BY <1>9, OtherSteps
  <2>2. closed' = closed \/ closed' = TRUE
    BY DEF InputNext, inputVars, ReadThread, ParseThread, PeerSends, PeerCloses, Read,
         ReadNothing, Put, Count, ReadFails, ReaderExits, CloseNow, CloseInput, CheckEof,
         RaiseMaxSize, CheckPacketSize, GetBuffer, ParserExits, NeedsMore, InvalidHeader,
         ReadHeader, ParseRaw, ParsePacket, HandlePacket, ParseClosed
  <2>3. CASE closed' = closed
    BY <2>1, <2>3, <1>4 DEF Channel!vars
  <2>4. CASE ~closed /\ closed' = TRUE
    <3>1. Channel!Close
      BY <2>1, <2>4, <1>4 DEF Channel!Close
    <3> QED
      BY <3>1 DEF Channel!Next
  <2> QED
    BY <2>2, <2>3, <2>4, <1>3
<1> QED
  BY <1>6, <1>7, <1>8, <1>9

\* Packets are handled whole, once and in order, and none before it was sent, whatever buffers
\* the reads and the queue cut the stream into: the safety half of InputImplementsChannel.
THEOREM InputImplements == InputSpec => Channel!Init /\ [][Channel!Next]_(Channel!vars)
<1>1. InputInit => Channel!Init
  BY DEF InputInit, Channel!Init
<1>2. InputInv /\ [InputNext]_inputVars => [Channel!Next]_(Channel!vars)
  BY InputStepIsChannelStep
<1> QED
  BY <1>1, <1>2, InputInvariant, PTL DEF InputSpec
=============================================================================
