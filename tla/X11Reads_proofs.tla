-------------------------- MODULE X11Reads_proofs --------------------------
(***************************************************************************)
(* Reads of a local selection, for any number of reads, targets, parts,    *)
(* copies and tokens.                                                      *)
(***************************************************************************)
EXTENDS X11Reads, SequenceTheorems, WellFoundedInduction, TLAPS

----------------------------------------------------------------------------
(* What is read is not older than the copy that the proxy knows.           *)
(* The proxy hears of another copy or owner in the step that begins a new   *)
(* epoch, and that ends every read; what conversions of an earlier epoch    *)
(* write goes to properties that the proxy does not look at any more.  So   *)
(* Floor, the oldest copy that a property may be of, is the known one in    *)
(* this epoch, and anything in those before it.                             *)

Atoms == Nat \X Targets
PartsOf(lo, hi) == [copy : lo..hi, of : Readers, part : Nat]
Content(lo, hi) == Seq(PartsOf(lo, hi))
ValuesOf(lo, hi) == {<<v>> : v \in [type : {"", "INCR", "data"}, parts : Content(lo, hi)]}
Floor(p) == IF p[1] = epoch THEN known ELSE 0

Events == [type : {"owner", "clear"}, copy : Nat, prop : {<<0, NoTarget>>}]
            \cup [type : {"property"}, copy : {0}, prop : Atoms]
Conversions == [state : {"none", "asked", "incr", "done"}, copy : Nat,
                prop : Nat \X (Targets \cup {NoTarget}), next : Nat, go : BOOLEAN]

\* owner events tell of copies from lo to hi, in order
Tells(event) == event.type = "owner" /\ event.copy # 0
Ordered(q, lo, hi) ==
    /\ \A i \in 1..Len(q) : Tells(q[i]) => q[i].copy \in lo..hi
    /\ \A i, j \in 1..Len(q) : i <= j /\ Tells(q[i]) /\ Tells(q[j]) => q[i].copy <= q[j].copy

Numbers == made \in Nat /\ known \in Nat /\ known <= made /\ owner \in {0, made} /\ epoch \in Nat
Told == queue \in Seq(Events) /\ Ordered(queue, known, made)
Written ==
    /\ DOMAIN property \subseteq Atoms
    /\ \A p \in DOMAIN property : property[p] \in ValuesOf(Floor(p), made) /\ p[1] <= epoch
Working ==
    /\ conv \in [Readers -> Conversions]
    /\ \A r \in Readers : conv[r].state # "none" =>
          /\ conv[r].prop \in Atoms /\ conv[r].prop[1] <= epoch
          /\ conv[r].copy \in Floor(conv[r].prop)..made
Received == incr \in [Targets -> ValuesOf(known, made) \cup {Absent}]
Cached == targets = 0 \/ targets \in known..made

Fresh == Numbers /\ Told /\ Written /\ Working /\ Received /\ Cached

\* Contents of a smaller range of copies.
LEMMA ContentGrows ==
    ASSUME NEW lo \in Nat, NEW hi \in Nat, NEW low \in Nat, NEW high \in Nat,
           low <= lo, hi <= high
    PROVE  /\ Content(lo, hi) \subseteq Content(low, high)
           /\ ValuesOf(lo, hi) \subseteq ValuesOf(low, high)
<1>1. PartsOf(lo, hi) \subseteq PartsOf(low, high)
  BY DEF PartsOf
<1>2. Content(lo, hi) \subseteq Content(low, high)
  BY <1>1, SeqMonotonic DEF Content
<1> QED
  BY <1>2 DEF ValuesOf

\* A value with some content.
LEMMA ValueTypes ==
    ASSUME NEW lo \in Nat, NEW hi \in Nat, NEW type \in {"", "INCR", "data"},
           NEW parts \in Content(lo, hi)
    PROVE  Value(type, parts) \in ValuesOf(lo, hi)
  BY DEF Value, ValuesOf

\* The type and the content of a value.
LEMMA ValueParts ==
    ASSUME NEW lo \in Nat, NEW hi \in Nat, NEW value \in ValuesOf(lo, hi)
    PROVE  value[1].type \in {"", "INCR", "data"} /\ value[1].parts \in Content(lo, hi)
<1>1. PICK v \in [type : {"", "INCR", "data"}, parts : Content(lo, hi)] : value = <<v>>
  BY DEF ValuesOf
<1>2. value[1] = v
  BY <1>1
<1> QED
  BY <1>2

\* What a conversion writes.
LEMMA PartTypes ==
    ASSUME NEW lo \in Nat, NEW hi \in Nat, NEW copy \in lo..hi, NEW r \in Readers
    PROVE  /\ \A i \in Nat : <<Part(copy, r, i)>> \in Content(lo, hi)
           /\ [i \in 1..Parts |-> Part(copy, r, i)] \in Content(lo, hi)
           /\ <<>> \in Content(lo, hi)
<1>1. \A i \in Nat : Part(copy, r, i) \in PartsOf(lo, hi)
  BY DEF Part, PartsOf
<1> HIDE DEF PartsOf
<1>2. [i \in 1..Parts |-> Part(copy, r, i)] \in Seq(PartsOf(lo, hi))
  BY <1>1, ReadsAssumption
<1>3. \A i \in Nat : <<Part(copy, r, i)>> \in Seq(PartsOf(lo, hi))
  BY <1>1
<1>4. <<>> \in Seq(PartsOf(lo, hi))
  OBVIOUS
<1> QED
  BY <1>2, <1>3, <1>4 DEF Content

\* Another event, of the latest copy if it tells of one.
LEMMA OrderedAppend ==
    ASSUME NEW q \in Seq(Events), NEW event \in Events, NEW lo \in Nat, NEW hi \in Nat,
           Ordered(q, lo, hi), Tells(event) => event.copy = hi /\ lo <= hi
    PROVE  Append(q, event) \in Seq(Events) /\ Ordered(Append(q, event), lo, hi)
<1> DEFINE a == Append(q, event)
<1>1. /\ a \in Seq(Events) /\ Len(q) \in Nat
      /\ Len(a) = Len(q) + 1 /\ a[Len(q) + 1] = event
      /\ \A i \in 1..Len(q) : a[i] = q[i]
  BY AppendProperties, LenProperties
<1> HIDE DEF a
<1>2. \A i \in 1..Len(a) : i = Len(q) + 1 \/ i \in 1..Len(q)
  BY <1>1
<1>3. \A i \in 1..Len(a) : Tells(a[i]) => a[i].copy \in lo..hi
  BY <1>1, <1>2 DEF Ordered
<1>4. \A i, j \in 1..Len(a) : i <= j /\ Tells(a[i]) /\ Tells(a[j]) => a[i].copy <= a[j].copy
  <2>1. ASSUME NEW i \in 1..Len(a), NEW j \in 1..Len(a), i <= j, Tells(a[i]), Tells(a[j])
        PROVE  a[i].copy <= a[j].copy
    <3>1. CASE j = Len(q) + 1
      BY <1>1, <1>3, <2>1, <3>1
    <3>2. CASE j \in 1..Len(q)
      <4>1. i \in 1..Len(q)
        BY <1>1, <2>1, <3>2
      <4> QED
        BY <1>1, <2>1, <3>2, <4>1 DEF Ordered
    <3> QED
      BY <1>2, <3>1, <3>2
  <2> QED
    BY <2>1
<1>5. a \in Seq(Events) /\ Ordered(a, lo, hi)
  BY <1>1, <1>3, <1>4 DEF Ordered
<1> QED
  BY <1>5 DEF a

\* The events after the first, which are not of earlier copies.
LEMMA OrderedTail ==
    ASSUME NEW q \in Seq(Events), q # <<>>, NEW lo \in Nat, NEW hi \in Nat, Ordered(q, lo, hi)
    PROVE  /\ Head(q) \in Events /\ Tail(q) \in Seq(Events) /\ Ordered(Tail(q), lo, hi)
           /\ Tells(Head(q)) => /\ Head(q).copy \in lo..hi
                                /\ Ordered(Tail(q), Head(q).copy, hi)
<1> DEFINE t == Tail(q)
<1>1. /\ Head(q) \in Events /\ t \in Seq(Events)
      /\ Len(q) \in Nat \ {0} /\ Len(t) = Len(q) - 1
      /\ \A i \in 1..Len(t) : t[i] = q[i + 1]
  BY HeadTailProperties, EmptySeq
<1>2. Head(q) = q[1]
  OBVIOUS
<1> HIDE DEF t
<1>3. \A i \in 1..Len(t) : i + 1 \in 1..Len(q)
  BY <1>1
<1>4. 1 \in 1..Len(q)
  BY <1>1
<1>5. \A i \in 1..Len(t) : Tells(t[i]) => t[i].copy \in lo..hi
  BY <1>1, <1>3 DEF Ordered
<1>6. \A i, j \in 1..Len(t) : i <= j /\ Tells(t[i]) /\ Tells(t[j]) => t[i].copy <= t[j].copy
  BY <1>1, <1>3, SMTT(40) DEF Ordered
<1>7. ASSUME Tells(Head(q))
      PROVE  Head(q).copy \in lo..hi /\ \A i \in 1..Len(t) : Tells(t[i]) => t[i].copy \in Head(q).copy..hi
  <2>1. Head(q).copy \in lo..hi
    BY <1>2, <1>4, <1>7 DEF Ordered
  <2>2. ASSUME NEW i \in 1..Len(t), Tells(t[i])
        PROVE  t[i].copy \in Head(q).copy..hi
    <3>1. i + 1 \in 1..Len(q) /\ t[i] = q[i + 1] /\ 1 <= i + 1
      BY <1>1, <1>3
    <3>2. q[1].copy <= q[i + 1].copy
      BY <1>2, <1>4, <1>7, <2>2, <3>1 DEF Ordered
    <3> QED
      BY <1>2, <1>5, <2>1, <2>2, <3>1, <3>2
  <2> QED
    BY <2>1, <2>2
<1>8. Ordered(t, lo, hi) /\ (Tells(Head(q)) => Ordered(t, Head(q).copy, hi))
  BY <1>5, <1>6, <1>7 DEF Ordered
<1> QED
  BY <1>1, <1>7, <1>8 DEF t

\* More copies.
LEMMA OrderedGrows ==
    ASSUME NEW q \in Seq(Events), NEW lo \in Nat, NEW hi \in Nat, NEW high \in Nat,
           hi <= high, Ordered(q, lo, hi)
    PROVE  Ordered(q, lo, high)
  BY DEF Ordered

\* The events that are written.
LEMMA EventTypes ==
    /\ \A p \in Atoms : PropertyEvent(p) \in Events /\ ~Tells(PropertyEvent(p))
    /\ \A c \in Nat : OwnerEvent(c) \in Events /\ OwnerEvent(c).copy = c
    /\ ClearEvent \in Events /\ ~Tells(ClearEvent)
  BY DEF PropertyEvent, OwnerEvent, ClearEvent, Events, Tells

\* Everything but the queue, when applications make more copies, or nothing happens.
LEMMA FreshGrows ==
    ASSUME Fresh, made' \in Nat, made <= made',
           UNCHANGED <<epoch, known, property, conv, incr, targets>>
    PROVE  (Written /\ Working /\ Received /\ Cached)'
<1>1. \A p : Floor(p) \in Nat /\ Floor(p)' = Floor(p)
  BY DEF Fresh, Numbers, Floor
<1>2. /\ made \in Nat /\ known \in Nat
      /\ \A p : ValuesOf(Floor(p), made) \subseteq ValuesOf(Floor(p), made')
      /\ ValuesOf(known, made) \subseteq ValuesOf(known, made')
  BY <1>1, ContentGrows DEF Fresh, Numbers
<1>3. Written'
  BY <1>1, <1>2 DEF Fresh, Written
<1>4. Working'
  <2>1. \A r \in Readers : conv[r].copy \in Floor(conv[r].prop)..made =>
                           conv[r].copy \in Floor(conv[r].prop)..made'
    BY <1>1, <1>2
  <2> QED
    BY <1>1, <2>1 DEF Fresh, Working
<1>5. Received'
  BY <1>2 DEF Fresh, Received
<1>6. Cached'
  BY <1>2 DEF Fresh, Cached
<1> QED
  BY <1>3, <1>4, <1>5, <1>6

\* Another epoch, in which another copy may be known.
LEMMA FreshEpoch ==
    ASSUME Fresh, made' = made, known' \in known..made, epoch' = epoch + 1,
           incr' = [t \in Targets |-> Absent], targets' = 0, UNCHANGED <<property, conv>>
    PROVE  (Written /\ Working /\ Received /\ Cached)'
<1>1. made \in Nat /\ known \in Nat /\ epoch \in Nat
  BY DEF Fresh, Numbers
<1>2. \A p \in Atoms : p[1] <= epoch => Floor(p) \in Nat /\ Floor(p)' = 0
  <2>1. ASSUME NEW p \in Atoms, p[1] <= epoch
        PROVE  Floor(p) \in Nat /\ Floor(p)' = 0
    <3>1. p[1] \in Nat
      BY DEF Atoms
    <3> QED
      BY <1>1, <2>1, <3>1 DEF Floor
  <2> QED
    BY <2>1
<1>3. Written'
  <2>1. \A p \in DOMAIN property : /\ p \in Atoms /\ p[1] <= epoch /\ p[1] \in Nat
                                   /\ property[p] \in ValuesOf(Floor(p), made)
    BY DEF Fresh, Written, Atoms
  <2>2. \A p \in DOMAIN property : ValuesOf(Floor(p), made) \subseteq ValuesOf(0, made)
    BY <1>1, <1>2, <2>1, ContentGrows
  <2> QED
    BY <1>1, <1>2, <2>1, <2>2 DEF Written
<1>4. Working'
  <2>1. \A r \in Readers : conv[r].state # "none" =>
           /\ conv[r].prop \in Atoms /\ conv[r].prop[1] <= epoch
           /\ conv[r].copy \in Floor(conv[r].prop)..made
    BY DEF Fresh, Working
  <2>2. ASSUME NEW r \in Readers, conv[r].state # "none"
        PROVE  /\ conv[r].prop \in Atoms /\ conv[r].prop[1] <= epoch + 1
               /\ conv[r].copy \in 0..made /\ Floor(conv[r].prop)' = 0
    <3>1. conv[r].prop \in Atoms /\ conv[r].prop[1] \in Nat /\ conv[r].prop[1] <= epoch
      BY <2>1, <2>2 DEF Atoms
    <3>2. Floor(conv[r].prop) \in Nat /\ Floor(conv[r].prop)' = IF conv[r].prop[1] = epoch' THEN known' ELSE 0
      BY <1>2, <3>1 DEF Floor
    <3>3. conv[r].copy \in 0..made
      BY <1>1, <2>1, <2>2, <3>2
    <3> QED
      BY <1>1, <3>1, <3>2, <3>3
  <2> QED
    BY <2>2 DEF Fresh, Working
<1>5. Received'
  BY DEF Received
<1>6. Cached'
  BY DEF Cached
<1> QED
  BY <1>3, <1>4, <1>5, <1>6

\* An application writes a property.
LEMMA WriteKeeps ==
    ASSUME Fresh, NEW r \in Readers, conv[r].state # "none", NEW state \in {"incr", "done"},
           NEW value \in ValuesOf(Floor(conv[r].prop), made), WriteProperty(r, value, state)
    PROVE  Fresh'
<1> DEFINE p == conv[r].prop
<1>1. p \in Atoms /\ p[1] <= epoch /\ conv[r] \in Conversions
  BY DEF Fresh, Working
<1>2. UNCHANGED <<owner, made, known, epoch, incr, targets>>
  BY DEF WriteProperty, proxy
<1>3. \A q : Floor(q)' = Floor(q)
  BY <1>2 DEF Floor
<1>4. Numbers' /\ Received' /\ Cached'
  BY <1>2 DEF Fresh, Numbers, Received, Cached
<1>5. Told'
  <2>1. queue' = Append(queue, PropertyEvent(p)) /\ made \in Nat /\ known \in Nat
    BY DEF WriteProperty, Fresh, Numbers
  <2> QED
    BY <1>1, <1>2, <2>1, EventTypes, OrderedAppend DEF Fresh, Told
<1>6. Written'
  <2>1. property' = [q \in DOMAIN property \cup {p} |-> IF q = p THEN value ELSE property[q]]
    BY DEF WriteProperty
  <2> QED
    BY <1>1, <1>2, <1>3, <2>1 DEF Fresh, Written
<1>7. Working'
  <2>1. /\ conv \in [Readers -> Conversions]
        /\ conv' = [conv EXCEPT ![r] = [conv[r] EXCEPT !.state = state, !.next = @ + 1, !.go = FALSE]]
    BY DEF WriteProperty, Fresh, Working
  <2>2. [conv[r] EXCEPT !.state = state, !.next = @ + 1, !.go = FALSE] \in Conversions
    <3>1. \A c \in Conversions : [c EXCEPT !.state = state] \in Conversions
      BY DEF Conversions
    <3>2. \A c \in Conversions : \A n \in Nat : [c EXCEPT !.next = n] \in Conversions
      BY DEF Conversions
    <3>3. \A c \in Conversions : [c EXCEPT !.go = FALSE] \in Conversions
      BY DEF Conversions
    <3>4. \A c \in Conversions : c.next + 1 \in Nat
      BY DEF Conversions
    <3> QED
      BY <1>1, <3>1, <3>2, <3>3, <3>4
  <2>3. conv' \in [Readers -> Conversions]
    BY <2>1, <2>2
  <2>4. /\ conv'[r].prop = conv[r].prop /\ conv'[r].copy = conv[r].copy
        /\ \A q \in Readers \ {r} : conv'[q] = conv[q]
    BY <1>1, <2>1 DEF Conversions
  <2>5. ASSUME NEW q \in Readers, conv'[q].state # "none"
        PROVE  /\ conv'[q].prop \in Atoms /\ conv'[q].prop[1] <= epoch
               /\ conv'[q].copy \in Floor(conv[q].prop)'..made
    <3>1. /\ conv'[q].prop = conv[q].prop /\ conv'[q].copy = conv[q].copy
          /\ conv[q].state # "none"
      BY <2>4, <2>5
    <3> QED
      BY <1>2, <3>1 DEF Fresh, Working, Floor
  <2> QED
    BY <1>2, <2>3, <2>5 DEF Working
<1> QED
  BY <1>4, <1>5, <1>6, <1>7 DEF Fresh

\* The proxy takes an event of a property, and deletes the property or leaves it.
LEMMA EventKeeps ==
    ASSUME Fresh, queue # <<>>, Head(queue).type = "property",
           DeleteProperty(Head(queue).prop) \/ KeepProperty,
           UNCHANGED <<owner, made, known, epoch>>
    PROVE  (Numbers /\ Told /\ Written /\ Working)'
<1> DEFINE p == Head(queue).prop
<1>1. /\ queue \in Seq(Events) /\ Ordered(queue, known, made) /\ made \in Nat /\ known \in Nat
      /\ known <= made
  BY DEF Fresh, Told, Numbers
<1>2. /\ p \in Atoms /\ Tail(queue) \in Seq(Events) /\ Ordered(Tail(queue), known, made)
  <2>1. /\ Head(queue) \in Events /\ Tail(queue) \in Seq(Events)
        /\ Ordered(Tail(queue), known, made)
    BY <1>1, OrderedTail
  <2> QED
    BY <2>1 DEF Events
<1>3. \A q : Floor(q)' = Floor(q)
  BY DEF Floor
<1>4. Numbers'
  BY DEF Fresh, Numbers
<1>5. CASE KeepProperty
  <2>1. Told'
    BY <1>2, <1>5 DEF KeepProperty, Told
  <2>2. Written'
    BY <1>3, <1>5 DEF KeepProperty, Fresh, Written
  <2>3. Working'
    BY <1>3, <1>5 DEF KeepProperty, Fresh, Working, Floor
  <2> QED
    BY <1>4, <2>1, <2>2, <2>3
<1>6. CASE DeleteProperty(p)
  <2>1. Told'
    <3>1. PropertyEvent(p) \in Events /\ ~Tells(PropertyEvent(p))
      BY <1>2, EventTypes
    <3>2. /\ Append(Tail(queue), PropertyEvent(p)) \in Seq(Events)
          /\ Ordered(Append(Tail(queue), PropertyEvent(p)), known, made)
      BY <1>1, <1>2, <3>1, OrderedAppend
    <3> QED
      BY <1>2, <1>6, <3>2 DEF DeleteProperty, Told
  <2>2. Written'
    BY <1>3, <1>6 DEF DeleteProperty, Fresh, Written
  <2>3. conv \in [Readers -> Conversions]
    BY DEF Fresh, Working
  <2>4. ASSUME NEW r \in Readers
        PROVE  /\ conv'[r] \in Conversions /\ conv'[r].state = conv[r].state
               /\ conv'[r].prop = conv[r].prop /\ conv'[r].copy = conv[r].copy
    <3>1. conv[r] \in Conversions
      BY <2>3
    <3>2. /\ [conv[r] EXCEPT !.go = TRUE] \in Conversions
          /\ [conv[r] EXCEPT !.go = TRUE].state = conv[r].state
          /\ [conv[r] EXCEPT !.go = TRUE].prop = conv[r].prop
          /\ [conv[r] EXCEPT !.go = TRUE].copy = conv[r].copy
      BY <3>1 DEF Conversions
    <3>3. conv'[r] \in {[conv[r] EXCEPT !.go = TRUE], conv[r]}
      BY <1>6 DEF DeleteProperty
    <3> QED
      BY <3>1, <3>2, <3>3
  <2>5. conv' = [r \in Readers |-> conv'[r]]
    BY <1>6 DEF DeleteProperty
  <2>6. Working'
    BY <1>3, <2>4, <2>5 DEF Fresh, Working, Floor
  <2> QED
    BY <1>4, <2>1, <2>2, <2>6
<1> QED
  BY <1>5, <1>6

\* do_property_notify takes the event, and calls the readers of its target, if any, with
\* what is in this epoch's properties.
LEMMA NotifyReads ==
    ASSUME Fresh, PropertyNotify
    PROVE  /\ Fresh'
           /\ ~closed /\ UNCHANGED <<made, known, asked, closed>>
           /\ \/ UNCHANGED <<requests, timers, calls>>
              \/ \E target \in Targets, parts \in Content(known, made) :
                    GotLocalContents(target, parts)
<1> DEFINE p == Head(queue).prop
           target == p[2]
           value == ReadProperty(p)
<1>1. /\ made \in Nat /\ known \in Nat
      /\ ~closed /\ queue # <<>> /\ Head(queue).type = "property"
      /\ UNCHANGED <<owner, made, epoch, known, asked, closed>>
  BY DEF PropertyNotify, Fresh, Numbers
<1>2. p \in Atoms
  <2>1. Head(queue) \in Events
    BY <1>1, OrderedTail DEF Fresh, Told, Numbers
  <2> QED
    BY <1>1, <2>1 DEF Events
<1>3. target \in Targets
  BY <1>2 DEF Atoms
<1>4. incr[target] \in ValuesOf(known, made) \cup {Absent}
  BY <1>3 DEF Fresh, Received
<1>5. p[1] = epoch => value \in ValuesOf(known, made) \cup {Absent}
  BY DEF Fresh, Written, Floor, ReadProperty
<1>6. \A v \in ValuesOf(known, made) : v[1].parts \in Content(known, made)
  BY <1>1, ValueParts
<1>7. \A v \in ValuesOf(known, made) : v[1].type \in {"", "INCR", "data"}
  BY <1>1, ValueParts, ZenonT(60)
<1>8. DeleteProperty(p) \/ KeepProperty
  BY DEF PropertyNotify
<1>9. (Numbers /\ Told /\ Written /\ Working)'
  BY <1>1, <1>8, EventKeeps, SMTT(40)
<1>10. \/ UNCHANGED <<requests, timers, calls>>
       \/ \E parts \in Content(known, made) : GotLocalContents(target, parts)
  <2>1. <<>> \in Content(known, made)
    BY DEF Content
  <2>2. CASE UNCHANGED <<requests, timers, calls>>
    BY <2>2
  <2>3. CASE GotLocalContents(target, <<>>)
    BY <2>1, <2>3
  <2>4. CASE incr[target] # Absent /\ GotLocalContents(target, incr[target][1].parts)
    BY <1>4, <1>6, <2>4
  <2>5. CASE p[1] = epoch /\ value # Absent /\ GotLocalContents(target, value[1].parts)
    BY <1>5, <1>6, <2>5, SMTT(40)
  <2> QED
    BY <2>2, <2>3, <2>4, <2>5 DEF PropertyNotify
<1>11. Received'
  <2> SUFFICES incr' \in [Targets -> ValuesOf(known, made) \cup {Absent}]
    BY <1>1 DEF Received
  <2>1. incr \in [Targets -> ValuesOf(known, made) \cup {Absent}]
    BY DEF Fresh, Received
  <2>2. CASE UNCHANGED incr
    BY <2>1, <2>2
  <2>3. CASE incr' = [incr EXCEPT ![target] = Absent]
    BY <2>1, <2>3
  <2>4. CASE incr' = [incr EXCEPT ![target] = Value("", <<>>)]
    <3>1. <<>> \in Content(known, made)
      BY DEF Content
    <3>2. Value("", <<>>) \in ValuesOf(known, made)
      BY <1>1, <3>1, ValueTypes
    <3> QED
      BY <2>1, <2>4, <3>2
  <2>5. CASE /\ p[1] = epoch /\ value # Absent /\ incr[target] # Absent
             /\ incr' = [incr EXCEPT ![target] =
                            Value(value[1].type, @[1].parts \o value[1].parts)]
    <3>1. /\ value[1].parts \in Content(known, made) /\ value[1].type \in {"", "INCR", "data"}
          /\ incr[target][1].parts \in Content(known, made)
      BY <1>4, <1>5, <1>6, <1>7, <2>5
    <3>2. incr[target][1].parts \o value[1].parts \in Content(known, made)
      BY <3>1, ConcatProperties DEF Content
    <3>3. Value(value[1].type, incr[target][1].parts \o value[1].parts) \in ValuesOf(known, made)
      BY <1>1, <3>1, <3>2, ValueTypes
    <3> QED
      BY <2>1, <2>5, <3>3
  <2> QED
    BY <2>2, <2>3, <2>4, <2>5 DEF PropertyNotify
<1>12. Cached'
  <2>1. CASE targets' = targets
    BY <1>1, <2>1 DEF Fresh, Cached
  <2>2. CASE targets' = 0
    BY <2>2 DEF Cached
  <2>3. CASE /\ p[1] = epoch /\ value # Absent /\ value[1].parts # <<>>
             /\ targets' = CopyOf(value[1].parts)
    <3>1. value[1].parts \in Content(known, made)
      BY <1>5, <1>6, <2>3
    <3>2. 1 \in 1..Len(value[1].parts)
      BY <2>3, <3>1, EmptySeq DEF Content
    <3>3. value[1].parts[1] \in PartsOf(known, made)
      BY <3>1, <3>2, ElementOfSeq DEF Content
    <3>4. CopyOf(value[1].parts) \in known..made
      BY <3>3 DEF PartsOf, CopyOf
    <3> QED
      BY <1>1, <2>3, <3>4 DEF Cached
  <2> QED
    BY <2>1, <2>2, <2>3 DEF PropertyNotify
<1> QED
  BY <1>1, <1>3, <1>9, <1>10, <1>11, <1>12 DEF Fresh

----------------------------------------------------------------------------
(* Each callback is called at most once.  The state of a read is in three  *)
(* places: the table of reads, the timers, and whether its callback has    *)
(* been called.  Those that change the table take the readers that they    *)
(* call out of it in the same step (CallKeeps); cleanup() alone does not   *)
(* call them, and after it no reader is in the table.                      *)

Reading ==
    /\ requests \in [Targets -> SUBSET Readers]
    /\ timers \in SUBSET Readers
    /\ asked \in [Readers -> Targets \cup {NoTarget}]
    /\ calls = [r \in Readers |-> calls[r]]
    /\ closed \in BOOLEAN
    /\ \A r \in Readers : calls[r] = <<>> \/ Len(calls[r]) = 1
    /\ \A r \in Readers : asked[r] = NoTarget => calls[r] = <<>>
    /\ \A t \in Targets : \A r \in requests[t] : asked[r] = t /\ calls[r] = <<>>
    /\ closed => \A t \in Targets : requests[t] = {}
    /\ ~closed =>
          /\ \A r \in timers : \E t \in Targets : r \in requests[t]
          /\ \A r \in Readers : asked[r] # NoTarget /\ calls[r] = <<>> => r \in timers

\* One call is the first call.
LEMMA FirstCall ==
    ASSUME NEW parts
    PROVE  Len(Append(<<>>, parts)) = 1 /\ Append(<<>>, parts) # <<>>
<1>1. <<>> \in Seq({parts}) /\ parts \in {parts} /\ Len(<<>>) = 0
  OBVIOUS
<1>2. Len(Append(<<>>, parts)) = 1
  BY <1>1, AppendProperties
<1> QED
  BY <1>1, <1>2

\* Readers whose callbacks are called, and that leave the table and the timers.
LEMMA CallKeeps ==
    ASSUME Reading, NEW S \in SUBSET Readers, NEW parts,
           \A r \in S : \E t \in Targets : r \in requests[t],
           requests' = [t \in Targets |-> requests[t] \ S],
           Call(S, parts), UNCHANGED <<asked, closed>>
    PROVE  Reading'
<1>1. \A r \in S : calls[r] = <<>> /\ asked[r] \in Targets
  BY DEF Reading
<1>2. \A r \in Readers : calls'[r] = IF r \in S THEN Append(calls[r], parts) ELSE calls[r]
  BY DEF Call
<1>3. \A r \in S : Len(calls'[r]) = 1 /\ calls'[r] # <<>>
  BY <1>1, <1>2, FirstCall
<1>4. \A r \in Readers \ S : calls'[r] = calls[r]
  BY <1>2
<1>5. calls' = [r \in Readers |-> calls'[r]]
  BY DEF Call
<1>6. timers' = timers \ S
  BY DEF Call
<1>7. /\ requests' \in [Targets -> SUBSET Readers]
      /\ \A t \in Targets : requests'[t] = requests[t] \ S
  BY DEF Reading
<1>8. /\ \A r \in Readers : calls'[r] = <<>> \/ Len(calls'[r]) = 1
      /\ \A r \in Readers : asked'[r] = NoTarget => calls'[r] = <<>>
  BY <1>1, <1>3, <1>4, ReadsAssumption DEF Reading
<1>9. \A t \in Targets : \A r \in requests'[t] : asked'[r] = t /\ calls'[r] = <<>>
  BY <1>4, <1>7 DEF Reading
<1>10. ASSUME ~closed'
       PROVE  /\ \A r \in timers' : \E t \in Targets : r \in requests'[t]
              /\ \A r \in Readers : asked'[r] # NoTarget /\ calls'[r] = <<>> => r \in timers'
  <2>1. ~closed
    BY <1>10
  <2>2. \A r \in timers' : \E t \in Targets : r \in requests'[t]
    BY <1>6, <1>7, <2>1 DEF Reading
  <2>3. \A r \in Readers : asked'[r] # NoTarget /\ calls'[r] = <<>> => r \in timers'
    BY <1>3, <1>4, <1>6, <2>1 DEF Reading
  <2> QED
    BY <2>2, <2>3
<1> QED
  BY <1>5, <1>6, <1>7, <1>8, <1>9, <1>10 DEF Reading

\* What leaves the reads alone.
LEMMA SilentKeeps ==
    ASSUME Reading, UNCHANGED <<requests, timers, asked, calls, closed>>
    PROVE  Reading'
  BY DEF Reading

\* _invalidate_local_reads calls all that are in the table.
LEMMA InvalidateKeeps ==
    ASSUME Reading, InvalidateLocalReads, UNCHANGED <<asked, closed>>
    PROVE  Reading'
<1> DEFINE S == UNION {requests[t] : t \in Targets}
<1>1. S \in SUBSET Readers /\ \A r \in S : \E t \in Targets : r \in requests[t]
  BY DEF Reading
<1>2. requests' = [t \in Targets |-> requests[t] \ S]
  <2>1. \A t \in Targets : requests[t] \ S = {}
    OBVIOUS
  <2> QED
    BY <2>1 DEF InvalidateLocalReads
<1>3. Call(S, <<>>)
  BY DEF InvalidateLocalReads
<1> QED
  BY <1>1, <1>2, <1>3, CallKeeps

\* A reply calls those that wait for its target.
LEMMA GotLocalContentsKeeps ==
    ASSUME Reading, NEW target \in Targets, NEW parts,
           GotLocalContents(target, parts), UNCHANGED <<asked, closed>>
    PROVE  Reading'
<1> DEFINE S == requests[target]
<1>1. S \in SUBSET Readers /\ \A r \in S : \E t \in Targets : r \in requests[t]
  BY DEF Reading
<1>2. requests' = [t \in Targets |-> requests[t] \ S]
  <2>1. \A t \in Targets : t # target => requests[t] \ S = requests[t]
    <3>1. \A t \in Targets : \A r \in requests[t] : asked[r] = t
      BY DEF Reading
    <3> QED
      BY <3>1
  <2>2. requests' = [requests EXCEPT ![target] = {}] /\ DOMAIN requests = Targets
    BY DEF GotLocalContents, Reading
  <2>3. requests[target] \ S = {}
    OBVIOUS
  <2> QED
    BY <2>1, <2>2, <2>3
<1>3. Call(S, parts)
  BY DEF GotLocalContents
<1> QED
  BY <1>1, <1>2, <1>3, CallKeeps

\* get_contents: the reader has not asked before, so it has not been called.
LEMMA GetContentsKeeps ==
    ASSUME Reading, NEW r \in Readers, NEW target \in Targets, GetContents(r, target)
    PROVE  Reading'
<1>1. /\ ~closed /\ closed' = closed /\ asked[r] = NoTarget /\ calls[r] = <<>>
      /\ asked' = [asked EXCEPT ![r] = target]
      /\ target # NoTarget
      /\ \A t \in Targets : r \notin requests[t]
      /\ r \notin timers
  <2>1. /\ ~closed /\ closed' = closed /\ asked[r] = NoTarget /\ calls[r] = <<>>
        /\ asked' = [asked EXCEPT ![r] = target]
    BY DEF Reading, GetContents
  <2>2. target # NoTarget /\ \A t \in Targets : r \notin requests[t]
    BY <2>1, ReadsAssumption DEF Reading
  <2>3. r \notin timers
    BY <2>1, <2>2 DEF Reading
  <2> QED
    BY <2>1, <2>2, <2>3
<1>2. /\ asked' \in [Readers -> Targets \cup {NoTarget}] /\ asked'[r] = target
      /\ \A q \in Readers \ {r} : asked'[q] = asked[q]
  BY <1>1 DEF Reading
<1>3. CASE \E parts : /\ calls' = [calls EXCEPT ![r] = Append(@, parts)]
                      /\ UNCHANGED <<requests, timers>>
  <2>1. PICK parts : /\ calls' = [calls EXCEPT ![r] = Append(@, parts)]
                     /\ UNCHANGED <<requests, timers>>
    BY <1>3
  <2>2. /\ calls' = [q \in Readers |-> calls'[q]]
        /\ calls'[r] = Append(<<>>, parts)
        /\ \A q \in Readers \ {r} : calls'[q] = calls[q]
    BY <1>1, <2>1 DEF Reading
  <2>3. Len(calls'[r]) = 1 /\ calls'[r] # <<>>
    BY <2>2, FirstCall
  <2> QED
    BY <1>1, <1>2, <2>1, <2>2, <2>3 DEF Reading
<1>4. CASE /\ requests' = [requests EXCEPT ![target] = @ \cup {r}]
           /\ timers' = timers \cup {r} /\ calls' = calls
  <2>1. /\ requests' \in [Targets -> SUBSET Readers]
        /\ requests'[target] = requests[target] \cup {r}
        /\ \A t \in Targets \ {target} : requests'[t] = requests[t]
    BY <1>4 DEF Reading
  <2>2. /\ timers' \in SUBSET Readers /\ calls' = calls
        /\ \A q \in Readers : asked'[q] = NoTarget => calls'[q] = <<>>
    BY <1>1, <1>2, <1>4 DEF Reading
  <2>3. \A t \in Targets : \A q \in requests'[t] : asked'[q] = t /\ calls'[q] = <<>>
    <3>1. ASSUME NEW t \in Targets, NEW q \in requests'[t]
          PROVE  asked'[q] = t /\ calls'[q] = <<>>
      <4>1. CASE q = r
        BY <1>1, <1>2, <2>1, <2>2, <4>1
      <4>2. CASE q # r
        <5>1. q \in requests[t] /\ q \in Readers
          BY <2>1, <4>2
        <5> QED
          BY <1>2, <2>2, <4>2, <5>1 DEF Reading
      <4> QED
        BY <4>1, <4>2
    <3> QED
      BY <3>1
  <2>4. \A q \in timers' : \E t \in Targets : q \in requests'[t]
    <3>1. \A q \in timers : \E t \in Targets : q \in requests[t]
      BY <1>1 DEF Reading
    <3> QED
      BY <1>4, <2>1, <3>1
  <2>5. \A q \in Readers : asked'[q] # NoTarget /\ calls'[q] = <<>> => q \in timers'
    BY <1>1, <1>2, <1>4 DEF Reading
  <2> QED
    BY <1>1, <1>2, <2>1, <2>2, <2>3, <2>4, <2>5, SMTT(40) DEF Reading
<1> QED
  BY <1>3, <1>4 DEF GetContents

\* timeout_get_contents finds the reader in the table, unless cleanup() has emptied it.
LEMMA TimeoutKeeps ==
    ASSUME Reading, NEW r \in Readers, TimeoutGetContents(r)
    PROVE  Reading'
<1> DEFINE S == {r} \cap UNION {requests[t] : t \in Targets}
<1>1. /\ requests' = [t \in Targets |-> requests[t] \ {r}]
      /\ timers' = timers \ {r} /\ UNCHANGED <<asked, closed>>
      /\ calls' = [calls EXCEPT ![r] = IF S = {} THEN @ ELSE Append(@, <<>>)]
      /\ r \in timers
  BY DEF TimeoutGetContents
<1>2. CASE S = {}
  <2>1. /\ \A t \in Targets : r \notin requests[t]
        /\ requests' = requests /\ calls' = calls /\ closed
    BY <1>1, <1>2 DEF Reading
  <2> QED
    BY <1>1, <2>1 DEF Reading
<1>3. CASE S # {}
  <2>1. S = {r} /\ \E t \in Targets : r \in requests[t]
    BY <1>3
  <2>2. calls' = [q \in Readers |-> IF q \in {r} THEN Append(calls[q], <<>>) ELSE calls[q]]
    BY <1>1, <1>3 DEF Reading
  <2>3. Call({r}, <<>>)
    BY <1>1, <2>2 DEF Call
  <2> QED
    BY <1>1, <2>1, <2>3, CallKeeps
<1> QED
  BY <1>2, <1>3

\* Each step keeps it.
LEMMA ReadingStep ==
    ASSUME Reading, Fresh, [Next]_vars
    PROVE  Reading'
<1>1. CASE AppCopies
  BY <1>1, SilentKeeps DEF AppCopies, proxy, reads
<1>2. ASSUME NEW r \in Readers, AppConverts(r) \/ AppWritesPart(r)
      PROVE  Reading'
  BY <1>2, SilentKeeps DEF AppConverts, AppWritesPart, WriteProperty, proxy, reads
<1>3. ASSUME NEW r \in Readers, NEW t \in Targets, GetContents(r, t)
      PROVE  Reading'
  BY <1>3, GetContentsKeeps
<1>4. ASSUME NEW r \in Readers, TimeoutGetContents(r)
      PROVE  Reading'
  BY <1>4, TimeoutKeeps
<1>5. CASE OwnerChanged
  <2>1. CASE InvalidateLocalReads
    BY <1>5, <2>1, InvalidateKeeps DEF OwnerChanged
  <2>2. CASE UNCHANGED <<epoch, requests, timers, calls, targets, incr, stalls, known>>
    BY <1>5, <2>2, SilentKeeps DEF OwnerChanged
  <2> QED
    BY <1>5, <2>1, <2>2 DEF OwnerChanged
<1>6. CASE GotToken
  BY <1>6, InvalidateKeeps DEF GotToken
<1>7. CASE PropertyNotify
  <2>1. UNCHANGED <<asked, closed>>
    BY <1>7, NotifyReads
  <2>2. CASE UNCHANGED <<requests, timers, calls>>
    BY <2>1, <2>2, SilentKeeps
  <2>3. CASE \E target \in Targets, parts \in Content(known, made) :
                GotLocalContents(target, parts)
    BY <2>1, <2>3, GotLocalContentsKeeps
  <2> QED
    BY <1>7, <2>2, <2>3, NotifyReads
<1>8. ASSUME NEW t \in Targets, IncrDataTimeout(t)
      PROVE  Reading'
  BY <1>8, SilentKeeps DEF IncrDataTimeout, reads
<1>9. CASE Cleanup
  BY <1>9 DEF Cleanup, reads, Reading
<1>10. CASE UNCHANGED vars
  BY <1>10, SilentKeeps DEF vars, proxy, reads
<1> QED
  BY <1>1, <1>2, <1>3, <1>4, <1>5, <1>6, <1>7, <1>8, <1>9, <1>10 DEF Next

----------------------------------------------------------------------------
(* Everything the proxy reads stays fresh.                                  *)

\* The applications act.
LEMMA ApplicationsKeep ==
    ASSUME Fresh, AppCopies \/ \E r \in Readers : AppConverts(r) \/ AppWritesPart(r)
    PROVE  Fresh'
<1>1. made \in Nat /\ known \in Nat /\ known <= made
  BY DEF Fresh, Numbers
<1>2. CASE AppCopies
  <2>1. /\ made' = made + 1 /\ owner' = made'
        /\ queue' = Append(IF owner = 0 THEN Append(queue, ClearEvent) ELSE queue, OwnerEvent(made'))
        /\ UNCHANGED <<property, conv, epoch, known, targets, incr>>
    BY <1>2 DEF AppCopies, proxy
  <2>2. Numbers'
    BY <1>1, <2>1 DEF Fresh, Numbers
  <2>3. made' \in Nat /\ made <= made' /\ known <= made'
    BY <1>1, <2>1
  <2>4. (Written /\ Working /\ Received /\ Cached)'
    BY <2>1, <2>3, FreshGrows
  <2>5. Told'
    <3> DEFINE q == IF owner = 0 THEN Append(queue, ClearEvent) ELSE queue
    <3>1. queue \in Seq(Events) /\ Ordered(queue, known, made')
      BY <1>1, <2>3, OrderedGrows DEF Fresh, Told
    <3>2. q \in Seq(Events) /\ Ordered(q, known, made')
      BY <1>1, <2>3, <3>1, OrderedAppend, EventTypes
    <3>3. OwnerEvent(made') \in Events /\ OwnerEvent(made').copy = made'
      BY <2>3, EventTypes
    <3> HIDE DEF q
    <3>4. /\ Append(q, OwnerEvent(made')) \in Seq(Events)
          /\ Ordered(Append(q, OwnerEvent(made')), known, made')
      BY <1>1, <2>3, <3>2, <3>3, OrderedAppend
    <3> QED
      BY <2>1, <3>4 DEF Told, q
  <2> QED
    BY <2>2, <2>4, <2>5 DEF Fresh
<1>3. ASSUME NEW r \in Readers, AppConverts(r) \/ AppWritesPart(r)
      PROVE  Fresh'
  <2> DEFINE lo == Floor(conv[r].prop)
  <2>1. conv[r].state # "none"
    BY <1>3 DEF AppConverts, AppWritesPart
  <2>2. /\ lo \in Nat /\ conv[r].copy \in lo..made /\ conv[r].next \in Nat
    <3>1. conv[r] \in Conversions /\ conv[r].copy \in lo..made
      BY <2>1 DEF Fresh, Working
    <3>2. lo \in Nat
      BY <1>1 DEF Floor
    <3> QED
      BY <3>1, <3>2 DEF Conversions
  <2> HIDE DEF lo
  <2>3. /\ \A i \in Nat : <<Part(conv[r].copy, r, i)>> \in Content(lo, made)
        /\ [i \in 1..Parts |-> Part(conv[r].copy, r, i)] \in Content(lo, made)
        /\ <<>> \in Content(lo, made)
    BY <1>1, <2>2, PartTypes
  <2>4. \A type \in {"", "INCR", "data"} : \A parts \in Content(lo, made) :
           Value(type, parts) \in ValuesOf(lo, made)
    BY <1>1, <2>2, ValueTypes
  <2>5. CASE AppConverts(r)
    <3>1. \E value \in ValuesOf(lo, made), state \in {"incr", "done"} : WriteProperty(r, value, state)
      BY <2>3, <2>4, <2>5 DEF AppConverts
    <3> QED
      BY <2>1, <3>1, WriteKeeps DEF lo
  <2>6. CASE AppWritesPart(r)
    <3>1. \E value \in ValuesOf(lo, made), state \in {"incr", "done"} : WriteProperty(r, value, state)
      BY <2>2, <2>3, <2>4, <2>6 DEF AppWritesPart
    <3> QED
      BY <2>1, <3>1, WriteKeeps DEF lo
  <2> QED
    BY <1>3, <2>5, <2>6
<1> QED
  BY <1>2, <1>3

\* A new read asks the owner of the moment, who has made the latest copy.
LEMMA GetContentsFresh ==
    ASSUME Fresh, NEW r \in Readers, NEW target \in Targets, GetContents(r, target)
    PROVE  Fresh'
<1>1. made \in Nat /\ known \in Nat /\ known <= made /\ epoch \in Nat /\ owner \in {0, made}
  BY DEF Fresh, Numbers
<1>2. UNCHANGED <<owner, made, queue, property, epoch, known, targets, incr>>
  BY DEF GetContents
<1>3. Numbers' /\ Told' /\ Written' /\ Received' /\ Cached'
  BY <1>2 DEF Fresh, Numbers, Told, Written, Received, Cached, Floor
<1>4. CASE UNCHANGED conv
  BY <1>2, <1>3, <1>4 DEF Fresh, Working, Floor
<1>5. CASE /\ owner # 0
           /\ conv' = [conv EXCEPT ![r] = [NoConversion EXCEPT
                         !.state = "asked", !.copy = owner, !.prop = <<epoch, target>>]]
  <2> DEFINE c == [NoConversion EXCEPT !.state = "asked", !.copy = owner, !.prop = <<epoch, target>>]
  <2>1. NoConversion \in Conversions /\ owner \in Nat
        /\ <<epoch, target>> \in Nat \X (Targets \cup {NoTarget})
    BY <1>1 DEF NoConversion, Conversions
  <2>2. c \in Conversions /\ c.prop = <<epoch, target>> /\ c.copy = owner
    <3>1. \A d \in Conversions : [d EXCEPT !.state = "asked"] \in Conversions
      BY DEF Conversions
    <3>2. \A d \in Conversions : \A n \in Nat :
             [d EXCEPT !.copy = n] \in Conversions /\ [d EXCEPT !.copy = n].copy = n
      BY DEF Conversions
    <3>3. \A d \in Conversions : \A q \in Nat \X (Targets \cup {NoTarget}) :
             /\ [d EXCEPT !.prop = q] \in Conversions
             /\ [d EXCEPT !.prop = q].prop = q /\ [d EXCEPT !.prop = q].copy = d.copy
      BY DEF Conversions
    <3> DEFINE d == [NoConversion EXCEPT !.state = "asked"]
               e == [d EXCEPT !.copy = owner]
    <3>4. d \in Conversions
      BY <2>1, <3>1
    <3> HIDE DEF d
    <3>5. e \in Conversions /\ e.copy = owner
      BY <2>1, <3>2, <3>4
    <3> HIDE DEF e
    <3>6. [e EXCEPT !.prop = <<epoch, target>>] = c
      BY DEF d, e
    <3>7. /\ [e EXCEPT !.prop = <<epoch, target>>] \in Conversions
          /\ [e EXCEPT !.prop = <<epoch, target>>].prop = <<epoch, target>>
          /\ [e EXCEPT !.prop = <<epoch, target>>].copy = owner
      BY <2>1, <3>3, <3>5
    <3> HIDE DEF c
    <3> QED
      BY <3>6, <3>7
  <2>3. /\ c.prop \in Atoms /\ c.prop[1] = epoch /\ c.copy \in known..made
    BY <1>1, <1>5, <2>2 DEF Atoms
  <2> HIDE DEF c
  <2>4. /\ conv \in [Readers -> Conversions] /\ conv' = [conv EXCEPT ![r] = c]
    BY <1>5 DEF Fresh, Working, c
  <2>5. conv' \in [Readers -> Conversions]
    BY <2>2, <2>4
  <2>6. ASSUME NEW q \in Readers, conv'[q].state # "none"
        PROVE  /\ conv'[q].prop \in Atoms /\ conv'[q].prop[1] <= epoch
               /\ conv'[q].copy \in Floor(conv[q].prop)'..made
    <3>1. CASE q = r
      BY <1>1, <1>2, <2>3, <2>4, <3>1 DEF Floor
    <3>2. CASE q # r
      BY <1>2, <2>4, <2>6, <3>2 DEF Fresh, Working, Floor
    <3> QED
      BY <3>1, <3>2
  <2>7. Working'
    BY <1>2, <2>5, <2>6 DEF Working
  <2> QED
    BY <1>3, <2>7 DEF Fresh
<1> QED
  BY <1>4, <1>5 DEF GetContents

\* What the proxy hears: of another owner, which may have a copy, or of a token.
LEMMA OwnerChangedFresh ==
    ASSUME Fresh, OwnerChanged
    PROVE  Fresh' /\ known' \in known..made
<1> DEFINE event == Head(queue)
<1>1. /\ queue # <<>> /\ event.type \in {"clear", "owner"} /\ queue' = Tail(queue)
      /\ UNCHANGED <<owner, made, property, conv>>
  BY DEF OwnerChanged, KeepProperty
<1>2. /\ made \in Nat /\ known \in Nat /\ known <= made /\ epoch \in Nat
      /\ queue \in Seq(Events) /\ Ordered(queue, known, made)
  BY DEF Fresh, Numbers, Told
<1>3. /\ Tail(queue) \in Seq(Events) /\ Ordered(Tail(queue), known, made)
      /\ Tells(event) => event.copy \in known..made /\ Ordered(Tail(queue), event.copy, made)
  BY <1>1, <1>2, OrderedTail
<1>4. CASE InvalidateLocalReads /\ targets' = 0
  <2>1. known' = IF event.type = "owner" THEN event.copy ELSE known
    BY <1>1, <1>4 DEF OwnerChanged, InvalidateLocalReads
  <2>2. event.type = "owner" => Tells(event)
    BY <1>2, <1>4 DEF OwnerChanged, InvalidateLocalReads, Tells
  <2>3. known' \in known..made /\ Ordered(Tail(queue), known', made)
    BY <1>2, <1>3, <2>1, <2>2
  <2>4. (Written /\ Working /\ Received /\ Cached)'
    BY <1>1, <1>4, <2>3, FreshEpoch DEF InvalidateLocalReads
  <2>5. Numbers' /\ Told'
    BY <1>1, <1>2, <1>3, <1>4, <2>3 DEF Fresh, Numbers, Told, InvalidateLocalReads
  <2> QED
    BY <2>3, <2>4, <2>5 DEF Fresh
<1>5. CASE UNCHANGED <<epoch, targets, incr, known>>
  <2>1. (Written /\ Working /\ Received /\ Cached)'
    BY <1>1, <1>2, <1>5, FreshGrows
  <2>2. Numbers' /\ Told'
    BY <1>1, <1>2, <1>3, <1>5 DEF Fresh, Numbers, Told
  <2> QED
    BY <1>2, <1>5, <2>1, <2>2 DEF Fresh
<1> QED
  BY <1>4, <1>5 DEF OwnerChanged

\* A token begins a new epoch too; the selection is ours from then on.
LEMMA GotTokenFresh ==
    ASSUME Fresh, GotToken
    PROVE  Fresh'
<1>1. /\ made \in Nat /\ known \in Nat /\ known <= made /\ epoch \in Nat
      /\ queue \in Seq(Events) /\ Ordered(queue, known, made)
  BY DEF Fresh, Numbers, Told
<1>2. /\ UNCHANGED <<made, property, conv, known>> /\ targets' = 0 /\ owner' = 0
      /\ queue' = Append(queue, OwnerEvent(0)) /\ InvalidateLocalReads
  BY DEF GotToken
<1>3. OwnerEvent(0) \in Events /\ ~Tells(OwnerEvent(0))
  BY EventTypes DEF Tells
<1>4. Told'
  BY <1>1, <1>2, <1>3, OrderedAppend DEF Told
<1>5. (Written /\ Working /\ Received /\ Cached)'
  BY <1>1, <1>2, FreshEpoch DEF InvalidateLocalReads
<1>6. Numbers'
  BY <1>1, <1>2 DEF Numbers, InvalidateLocalReads
<1> QED
  BY <1>4, <1>5, <1>6 DEF Fresh

\* Timers and cleanup() drop what was received, at most.
LEMMA DropKeepsFresh ==
    ASSUME Fresh, UNCHANGED <<server, epoch, known, targets>>,
           \/ UNCHANGED incr
           \/ \E t \in Targets : incr' = [incr EXCEPT ![t] = Absent]
           \/ incr' = [t \in Targets |-> Absent]
    PROVE  Fresh'
<1>1. Received'
  BY DEF Fresh, Received, server
<1> QED
  BY <1>1 DEF Fresh, Numbers, Told, Written, Working, Cached, Floor, server

\* Each step keeps what is read fresh.
LEMMA FreshStep ==
    ASSUME Fresh, [Next]_vars
    PROVE  Fresh'
<1>1. CASE AppCopies \/ \E r \in Readers : AppConverts(r) \/ AppWritesPart(r)
  BY <1>1, ApplicationsKeep
<1>2. ASSUME NEW r \in Readers, NEW t \in Targets, GetContents(r, t)
      PROVE  Fresh'
  BY <1>2, GetContentsFresh
<1>3. CASE OwnerChanged
  BY <1>3, OwnerChangedFresh
<1>4. CASE GotToken
  BY <1>4, GotTokenFresh
<1>5. CASE PropertyNotify
  BY <1>5, NotifyReads
<1>6. ASSUME NEW r \in Readers, TimeoutGetContents(r)
      PROVE  Fresh'
  BY <1>6, DropKeepsFresh DEF TimeoutGetContents
<1>7. ASSUME NEW t \in Targets, IncrDataTimeout(t)
      PROVE  Fresh'
  BY <1>7, DropKeepsFresh DEF IncrDataTimeout
<1>8. CASE Cleanup
  BY <1>8, DropKeepsFresh DEF Cleanup
<1>9. CASE UNCHANGED vars
  BY <1>9, DropKeepsFresh DEF vars, proxy
<1> QED
  BY <1>1, <1>2, <1>3, <1>4, <1>5, <1>6, <1>7, <1>8, <1>9 DEF Next

\* In the initial states there is nothing to read.
LEMMA InitHolds ==
    ASSUME Init
    PROVE  Fresh /\ Reading
<1>1. Numbers /\ Received /\ Cached /\ Written
  BY DEF Init, Numbers, Received, Cached, Written
<1>2. Told
  <2>1. queue = <<>> /\ <<>> \in Seq(Events) /\ Len(<<>>) = 0
    BY DEF Init
  <2> QED
    BY <2>1 DEF Told, Ordered
<1>3. Working
  <2>1. NoConversion \in Conversions /\ NoConversion.state = "none"
    BY DEF NoConversion, Conversions
  <2> QED
    BY <2>1 DEF Init, Working
<1>4. Reading
  BY DEF Init, Reading
<1> QED
  BY <1>1, <1>2, <1>3, <1>4 DEF Fresh

IndInv == Fresh /\ Reading

\* The inductive invariant.
LEMMA Invariance == Spec => []IndInv
<1>1. Init => IndInv
  BY InitHolds DEF IndInv
<1>2. IndInv /\ [Next]_vars => IndInv'
  BY FreshStep, ReadingStep DEF IndInv
<1> QED
  BY <1>1, <1>2, PTL DEF Spec

\* Whatever the property, the timers, other reads' replies, owner changes and tokens do,
\* each callback of get_contents is called once at most, and until then its read is waited
\* for, with a timer.
THEOREM ReadsCalledOnce == Spec => []CalledOnce
<1>1. IndInv => CalledOnce
  <2> SUFFICES ASSUME IndInv PROVE CalledOnce
    OBVIOUS
  <2> USE DEF IndInv
  <2>1. \A r \in Readers : Len(calls[r]) <= 1
    BY DEF Reading
  <2>2. ~closed => Pending = timers
    <3> SUFFICES ASSUME ~closed PROVE Pending = timers
      OBVIOUS
    <3>1. \A r \in timers : r \in Pending
      BY DEF Reading, Pending
    <3>2. \A r \in Pending : r \in Readers /\ asked[r] # NoTarget /\ calls[r] = <<>>
      <4>1. \A r \in Pending : \E t \in Targets : r \in requests[t]
        BY DEF Pending
      <4>2. \A t \in Targets : \A r \in requests[t] : r \in Readers /\ asked[r] = t /\ calls[r] = <<>>
        BY DEF Reading
      <4> QED
        BY <4>1, <4>2, ReadsAssumption
    <3>3. \A r \in Pending : r \in timers
      BY <3>2 DEF Reading
    <3> QED
      BY <3>1, <3>3
  <2>3. ASSUME ~closed, NEW r \in Readers, asked[r] # NoTarget
        PROVE  r \in Pending <=> calls[r] = <<>>
    <3>1. r \in Pending => calls[r] = <<>>
      <4>1. \A t \in Targets : r \in requests[t] => calls[r] = <<>>
        BY DEF Reading
      <4> QED
        BY <4>1 DEF Pending
    <3>2. calls[r] = <<>> => r \in timers
      BY <2>3 DEF Reading
    <3> QED
      BY <2>2, <2>3, <3>1, <3>2
  <2>4. \A t \in Targets : requests[t] \subseteq {r \in Readers : asked[r] = t}
    BY DEF Reading
  <2> QED
    BY <2>1, <2>2, <2>3, <2>4 DEF CalledOnce
<1> QED
  BY <1>1, Invariance, PTL

----------------------------------------------------------------------------
(* The types.  What the bounds on the copies, the tokens and the parts give *)
(* the events, the values and the calls; that the other variables have      *)
(* their types is in Fresh and Reading.                                     *)

SomeParts == Seq(PartSet)
SomeValues == {<<v>> : v \in [type : {"", "INCR", "data"}, parts : SomeParts]}
SomeEvents == [type : {"owner", "clear"}, copy : 0..MaxCopies, prop : {<<0, NoTarget>>}]
                \cup [type : {"property"}, copy : {0}, prop : Atoms]

\* the parts that an application has written, by the state of its conversion
Progress(c) ==
    /\ c.state = "none" => c.copy = 0 /\ c.next = 0
    /\ c.state # "none" => c.copy \in 1..MaxCopies
    /\ c.state = "asked" => c.next = 0
    /\ c.state = "incr" => c.next \in 1..Parts + 1
    /\ c.state = "done" => c.next \in 1..Parts + 2

Counted == made <= MaxCopies /\ tokens \in 0..MaxTokens
Queued == queue \in Seq(SomeEvents)
Stored == \A p \in DOMAIN property : property[p] \in SomeValues
Progressing == \A r \in Readers : Progress(conv[r])
Collected == /\ incr \in [Targets -> SomeValues \cup {Absent}]
             /\ stalls \in [Targets -> {<<S>> : S \in SUBSET Readers} \cup {<<>>}]
Called == calls \in [Readers -> Seq(SomeParts)]

Typed == Counted /\ Queued /\ Stored /\ Progressing /\ Collected /\ Called

\* Values of the parts that there are.
LEMMA SomeValueTypes ==
    /\ <<>> \in SomeParts /\ Absent \notin SomeValues
    /\ \A type \in {"", "INCR", "data"} : \A parts \in SomeParts : Value(type, parts) \in SomeValues
    /\ \A value \in SomeValues : /\ value[1].type \in {"", "INCR", "data"}
                                 /\ value[1].parts \in SomeParts
<1>1. <<>> \in SomeParts
  BY DEF SomeParts
<1> DEFINE V == [type : {"", "INCR", "data"}, parts : SomeParts]
<1>2. SomeValues = {<<v>> : v \in V}
  BY DEF SomeValues
<1>3. \A type \in {"", "INCR", "data"} : \A parts \in SomeParts : Value(type, parts) \in SomeValues
  BY <1>2 DEF Value
<1>4. \A v \in V : v.type \in {"", "INCR", "data"} /\ v.parts \in SomeParts
  OBVIOUS
<1> HIDE DEF V
<1>5. \A value \in SomeValues : value # <<>> /\ value[1] \in V
  BY <1>2
<1> QED
  BY <1>1, <1>3, <1>4, <1>5 DEF Absent

\* The parts that a conversion of a copy writes.
LEMMA SomePartTypes ==
    ASSUME NEW copy \in 1..MaxCopies, NEW r \in Readers
    PROVE  /\ \A i \in 0..Parts : <<Part(copy, r, i)>> \in SomeParts
           /\ [i \in 1..Parts |-> Part(copy, r, i)] \in SomeParts
<1>1. \A i \in 0..Parts : Part(copy, r, i) \in PartSet
  BY DEF Part, PartSet
<1>2. Parts \in Nat /\ \A i \in 1..Parts : i \in 0..Parts
  BY ReadsAssumption
<1> HIDE DEF PartSet
<1>3. [i \in 1..Parts |-> Part(copy, r, i)] \in Seq(PartSet)
  BY <1>1, <1>2
<1>4. \A i \in 0..Parts : <<Part(copy, r, i)>> \in Seq(PartSet)
  BY <1>1
<1> QED
  BY <1>3, <1>4 DEF SomeParts

\* The events of copies, tokens and properties.
LEMMA SomeEventTypes ==
    /\ \A p \in Atoms : PropertyEvent(p) \in SomeEvents
    /\ \A c \in 0..MaxCopies : OwnerEvent(c) \in SomeEvents
    /\ ClearEvent \in SomeEvents
<1>1. 0 \in 0..MaxCopies
  BY ReadsAssumption
<1> QED
  BY <1>1 DEF PropertyEvent, OwnerEvent, ClearEvent, SomeEvents

LEMMA SomeQueue ==
    ASSUME Queued
    PROVE  /\ \A event \in SomeEvents : Append(queue, event) \in Seq(SomeEvents)
           /\ queue # <<>> => /\ Tail(queue) \in Seq(SomeEvents)
                              /\ \A event \in SomeEvents :
                                    Append(Tail(queue), event) \in Seq(SomeEvents)
<1>1. \A q \in Seq(SomeEvents) : \A event \in SomeEvents : Append(q, event) \in Seq(SomeEvents)
  BY AppendProperties
<1>2. queue # <<>> => Tail(queue) \in Seq(SomeEvents)
  BY HeadTailProperties DEF Queued
<1> QED
  BY <1>1, <1>2 DEF Queued

\* Callbacks that are called with such parts.
LEMMA CallTyped ==
    ASSUME Called, NEW S, NEW parts \in SomeParts, Call(S, parts)
    PROVE  Called'
<1>1. \A s \in Seq(SomeParts) : Append(s, parts) \in Seq(SomeParts)
  BY AppendProperties
<1>2. \A r \in Readers : calls[r] \in Seq(SomeParts)
  BY DEF Called
<1> QED
  BY <1>1, <1>2 DEF Call, Called

\* One callback.
LEMMA OneCallTyped ==
    ASSUME Called, NEW r \in Readers, NEW parts \in SomeParts,
           calls' = [calls EXCEPT ![r] = Append(@, parts)]
    PROVE  Called'
<1>1. calls[r] \in Seq(SomeParts)
  BY DEF Called
<1>2. Append(calls[r], parts) \in Seq(SomeParts)
  BY <1>1, AppendProperties
<1> QED
  BY <1>2 DEF Called

\* What is received is dropped.
LEMMA DropTyped ==
    ASSUME Collected,
           \/ incr' = [t \in Targets |-> Absent] /\ stalls' = incr'
           \/ \E t \in Targets : /\ incr' = [incr EXCEPT ![t] = Absent]
                                 /\ stalls' = [stalls EXCEPT ![t] = Absent]
    PROVE  Collected'
  BY DEF Collected, Absent

\* The local reads end.
LEMMA InvalidateTyped ==
    ASSUME Collected, Called, InvalidateLocalReads
    PROVE  Collected' /\ Called'
<1>1. Collected'
  BY DropTyped DEF InvalidateLocalReads
<1>2. Called'
  BY SomeValueTypes, CallTyped DEF InvalidateLocalReads
<1> QED
  BY <1>1, <1>2

\* An application writes.
LEMMA WriteTyped ==
    ASSUME Typed, Fresh, NEW r \in Readers, conv[r].state # "none",
           NEW value \in SomeValues, NEW state \in {"incr", "done"},
           WriteProperty(r, value, state),
           conv[r].next + 1 \in 1..Parts + 2, state = "incr" => conv[r].next + 1 \in 1..Parts + 1
    PROVE  Typed'
<1> DEFINE p == conv[r].prop
<1>1. p \in Atoms /\ conv \in [Readers -> Conversions] /\ conv[r].copy \in 1..MaxCopies
  BY DEF Fresh, Working, Typed, Progressing, Progress
<1>2. UNCHANGED <<made, tokens, incr, stalls, calls>>
  BY DEF WriteProperty, proxy, reads
<1>3. Queued'
  BY <1>1, SomeEventTypes, SomeQueue DEF WriteProperty, Typed, Queued
<1>4. Stored'
  <2>1. property' = [q \in DOMAIN property \cup {p} |-> IF q = p THEN value ELSE property[q]]
    BY DEF WriteProperty
  <2> QED
    BY <2>1 DEF Typed, Stored
<1>5. Progressing'
  <2>1. conv' = [conv EXCEPT ![r] = [conv[r] EXCEPT !.state = state, !.next = @ + 1, !.go = FALSE]]
    BY <1>1 DEF WriteProperty
  <2>2. \A q \in Readers \ {r} : conv'[q] = conv[q]
    BY <1>1, <2>1
  <2>3. conv'[r].state = state /\ conv'[r].next = conv[r].next + 1 /\ conv'[r].copy = conv[r].copy
    BY <1>1, <2>1 DEF Conversions
  <2>4. Progress(conv'[r])
    BY <1>1, <2>3 DEF Progress
  <2> QED
    BY <2>2, <2>4 DEF Typed, Progressing
<1> QED
  BY <1>2, <1>3, <1>4, <1>5 DEF Typed, Counted, Collected, Called

\* The applications act.
LEMMA ApplicationsTyped ==
    ASSUME Typed, Fresh, AppCopies \/ \E r \in Readers : AppConverts(r) \/ AppWritesPart(r)
    PROVE  Typed'
<1>1. CASE AppCopies
  <2>1. /\ made < MaxCopies /\ made' = made + 1
        /\ queue' = Append(IF owner = 0 THEN Append(queue, ClearEvent) ELSE queue, OwnerEvent(made'))
        /\ UNCHANGED <<property, conv, incr, stalls, calls, tokens>>
    BY <1>1 DEF AppCopies, proxy, reads
  <2>2. made' \in 0..MaxCopies
    BY <2>1, ReadsAssumption DEF Fresh, Numbers
  <2>3. Queued'
    <3> DEFINE q == IF owner = 0 THEN Append(queue, ClearEvent) ELSE queue
    <3>1. q \in Seq(SomeEvents)
      BY SomeEventTypes, SomeQueue DEF Typed, Queued
    <3>2. OwnerEvent(made') \in SomeEvents
      BY <2>2, SomeEventTypes
    <3> HIDE DEF q
    <3>3. Append(q, OwnerEvent(made')) \in Seq(SomeEvents)
      BY <3>1, <3>2, AppendProperties
    <3> QED
      BY <2>1, <3>3 DEF Queued, q
  <2> QED
    BY <2>1, <2>2, <2>3 DEF Typed, Counted, Stored, Progressing, Collected, Called
<1>2. ASSUME NEW r \in Readers, AppConverts(r) \/ AppWritesPart(r)
      PROVE  Typed'
  <2>1. conv[r].state # "none"
    BY <1>2 DEF AppConverts, AppWritesPart
  <2>2. Progress(conv[r]) /\ Parts \in Nat /\ conv[r].copy \in 1..MaxCopies
    BY <2>1, ReadsAssumption DEF Typed, Progressing, Progress
  <2>3. /\ \A i \in 0..Parts : <<Part(conv[r].copy, r, i)>> \in SomeParts
        /\ [i \in 1..Parts |-> Part(conv[r].copy, r, i)] \in SomeParts
        /\ <<>> \in SomeParts
    BY <2>2, SomePartTypes, SomeValueTypes
  <2>4. \A type \in {"", "INCR", "data"} : \A parts \in SomeParts : Value(type, parts) \in SomeValues
    BY SomeValueTypes
  <2>5. CASE AppConverts(r)
    <3>1. conv[r].next = 0
      BY <2>2, <2>5 DEF AppConverts, Progress
    <3>2. conv[r].next + 1 \in 1..Parts + 1 /\ conv[r].next + 1 \in 1..Parts + 2 /\ 0 \in 0..Parts
      BY <2>2, <3>1
    <3>3. \E value \in SomeValues, state \in {"incr", "done"} : WriteProperty(r, value, state)
      BY <2>3, <2>4, <2>5, <3>2 DEF AppConverts
    <3> QED
      BY <2>1, <3>2, <3>3, WriteTyped
  <2>6. CASE AppWritesPart(r)
    <3>1. conv[r].next \in 1..Parts + 1
      BY <2>2, <2>6 DEF AppWritesPart, Progress
    <3>2. CASE conv[r].next <= Parts
      <4>1. /\ conv[r].next \in 0..Parts /\ conv[r].next + 1 \in 1..Parts + 1
            /\ conv[r].next + 1 \in 1..Parts + 2
        BY <2>2, <3>1, <3>2
      <4>2. \E value \in SomeValues : WriteProperty(r, value, "incr")
        BY <2>3, <2>4, <2>6, <3>2, <4>1 DEF AppWritesPart
      <4> QED
        BY <2>1, <4>1, <4>2, WriteTyped
    <3>3. CASE ~(conv[r].next <= Parts)
      <4>1. conv[r].next + 1 \in 1..Parts + 2
        BY <2>2, <3>1
      <4>2. \E value \in SomeValues : WriteProperty(r, value, "done")
        BY <2>3, <2>4, <2>6, <3>3 DEF AppWritesPart
      <4> QED
        BY <2>1, <4>1, <4>2, WriteTyped
    <3> QED
      BY <3>2, <3>3
  <2> QED
    BY <1>2, <2>5, <2>6
<1> QED
  BY <1>1, <1>2

\* get_contents is answered from the cache, with nothing, or asks the owner of the moment.
LEMMA GetContentsTyped ==
    ASSUME Typed, Fresh, NEW r \in Readers, NEW target \in Targets, GetContents(r, target)
    PROVE  Typed'
<1>1. UNCHANGED <<made, tokens, queue, property, incr, stalls>>
  BY DEF GetContents
<1>2. Counted' /\ Queued' /\ Stored' /\ Collected'
  BY <1>1 DEF Typed, Counted, Queued, Stored, Collected
<1>3. Called'
  <2>1. CASE UNCHANGED calls
    BY <2>1 DEF Typed, Called
  <2>2. CASE targets # 0 /\ calls' = [calls EXCEPT ![r] = Append(@, <<Part(targets, r, 1)>>)]
    <3>1. targets \in 1..MaxCopies /\ 1 \in 0..Parts
      BY <2>2, ReadsAssumption DEF Fresh, Cached, Numbers, Typed, Counted
    <3>2. <<Part(targets, r, 1)>> \in SomeParts
      BY <3>1, SomePartTypes
    <3> QED
      BY <2>2, <3>2, OneCallTyped DEF Typed
  <2>3. CASE calls' = [calls EXCEPT ![r] = Append(@, <<>>)]
    BY <2>3, SomeValueTypes, OneCallTyped DEF Typed
  <2> QED
    BY <2>1, <2>2, <2>3 DEF GetContents
<1>4. Progressing'
  <2>1. CASE UNCHANGED conv
    BY <2>1 DEF Typed, Progressing
  <2>2. CASE /\ owner # 0
             /\ conv' = [conv EXCEPT ![r] = [NoConversion EXCEPT
                           !.state = "asked", !.copy = owner, !.prop = <<epoch, target>>]]
    <3>1. owner \in 1..MaxCopies /\ conv \in [Readers -> Conversions]
      BY <2>2, ReadsAssumption DEF Fresh, Numbers, Working, Typed, Counted
    <3>2. /\ \A q \in Readers \ {r} : conv'[q] = conv[q]
          /\ conv'[r].state = "asked" /\ conv'[r].copy = owner /\ conv'[r].next = 0
      BY <2>2, <3>1 DEF NoConversion
    <3>3. Progress(conv'[r])
      BY <3>1, <3>2 DEF Progress
    <3> QED
      BY <3>2, <3>3 DEF Typed, Progressing
  <2> QED
    BY <2>1, <2>2 DEF GetContents
<1> QED
  BY <1>2, <1>3, <1>4 DEF Typed

\* The timer of a read.
LEMMA TimeoutTyped ==
    ASSUME Typed, NEW r \in Readers, TimeoutGetContents(r)
    PROVE  Typed'
<1>1. UNCHANGED <<made, tokens, queue, property, conv, incr, stalls>>
  BY DEF TimeoutGetContents, server
<1>2. \/ calls' = [calls EXCEPT ![r] = calls[r]]
      \/ calls' = [calls EXCEPT ![r] = Append(@, <<>>)]
  BY DEF TimeoutGetContents
<1>3. Called'
  <2>1. CASE calls' = [calls EXCEPT ![r] = calls[r]]
    BY <2>1 DEF Typed, Called
  <2> QED
    BY <1>2, <2>1, SomeValueTypes, OneCallTyped DEF Typed
<1> QED
  BY <1>1, <1>3 DEF Typed, Counted, Queued, Stored, Progressing, Collected

\* What the proxy hears of owners, and tokens.
LEMMA OwnerTyped ==
    ASSUME Typed, OwnerChanged \/ GotToken
    PROVE  Typed'
<1>1. UNCHANGED <<made, property, conv>> /\ Stored' /\ Progressing'
  BY DEF OwnerChanged, GotToken, KeepProperty, Typed, Stored, Progressing
<1>2. Counted'
  BY <1>1, ReadsAssumption DEF OwnerChanged, GotToken, Typed, Counted
<1>3. Queued'
  <2>1. CASE OwnerChanged
    BY <2>1, SomeQueue DEF OwnerChanged, KeepProperty, Typed, Queued
  <2>2. CASE GotToken
    <3>1. 0 \in 0..MaxCopies
      BY ReadsAssumption
    <3> QED
      BY <2>2, <3>1, SomeQueue, SomeEventTypes DEF GotToken, Typed, Queued
  <2> QED
    BY <2>1, <2>2
<1>4. Collected' /\ Called'
  <2>1. CASE InvalidateLocalReads
    BY <2>1, InvalidateTyped DEF Typed
  <2>2. CASE UNCHANGED <<calls, incr, stalls>>
    BY <2>2 DEF Typed, Collected, Called
  <2> QED
    BY <2>1, <2>2 DEF OwnerChanged, GotToken
<1> QED
  BY <1>1, <1>2, <1>3, <1>4 DEF Typed

\* An event of a property: what is read is stored, and it is given to those who wait.
LEMMA NotifyTyped ==
    ASSUME Typed, Fresh, Reading, PropertyNotify
    PROVE  Typed'
<1> DEFINE p == Head(queue).prop
           target == p[2]
           value == ReadProperty(p)
<1>1. /\ queue # <<>> /\ Head(queue).type = "property" /\ UNCHANGED <<made, tokens>>
      /\ DeleteProperty(p) \/ KeepProperty
  BY DEF PropertyNotify
<1>2. p \in Atoms /\ target \in Targets
  <2>1. Head(queue) \in Events
    BY <1>1, OrderedTail DEF Fresh, Told, Numbers
  <2>2. p \in Atoms
    BY <1>1, <2>1 DEF Events
  <2> QED
    BY <2>2 DEF Atoms
<1>3. Counted'
  BY <1>1 DEF Typed, Counted
<1>4. Queued'
  BY <1>1, <1>2, SomeQueue, SomeEventTypes DEF DeleteProperty, KeepProperty, Typed, Queued
<1>5. Stored'
  BY <1>1 DEF DeleteProperty, KeepProperty, Typed, Stored
<1>6. Progressing'
  <2>1. CASE KeepProperty
    BY <2>1 DEF KeepProperty, Typed, Progressing
  <2>2. CASE DeleteProperty(p)
    <3>1. ASSUME NEW r \in Readers
          PROVE  Progress(conv'[r])
      <4>1. conv[r] \in Conversions /\ Progress(conv[r])
        BY DEF Fresh, Working, Typed, Progressing
      <4>2. conv'[r] \in {[conv[r] EXCEPT !.go = TRUE], conv[r]}
        BY <2>2 DEF DeleteProperty
      <4>3. /\ conv'[r].state = conv[r].state /\ conv'[r].copy = conv[r].copy
            /\ conv'[r].next = conv[r].next
        BY <4>1, <4>2 DEF Conversions
      <4> QED
        BY <4>1, <4>3 DEF Progress
    <3> QED
      BY <3>1 DEF Progressing
  <2> QED
    BY <1>1, <2>1, <2>2
<1>7. value \in SomeValues \cup {Absent} /\ incr[target] \in SomeValues \cup {Absent}
  BY <1>2 DEF Typed, Stored, Collected, ReadProperty
<1>8. Called'
  <2>1. CASE UNCHANGED calls
    BY <2>1 DEF Typed, Called
  <2>2. ASSUME NEW parts \in SomeParts, GotLocalContents(target, parts)
        PROVE  Called'
    BY <2>2, CallTyped DEF GotLocalContents, Typed
  <2>3. CASE GotLocalContents(target, <<>>)
    BY <2>2, <2>3, SomeValueTypes
  <2>4. CASE incr[target] # Absent /\ GotLocalContents(target, incr[target][1].parts)
    BY <1>7, <2>2, <2>4, SomeValueTypes
  <2>5. CASE value # Absent /\ GotLocalContents(target, value[1].parts)
    BY <1>7, <2>2, <2>5, SomeValueTypes
  <2> QED
    BY <2>1, <2>3, <2>4, <2>5 DEF PropertyNotify
<1>9. Collected'
  <2>1. /\ incr \in [Targets -> SomeValues \cup {Absent}]
        /\ stalls \in [Targets -> {<<S>> : S \in SUBSET Readers} \cup {<<>>}]
        /\ <<timers>> \in {<<S>> : S \in SUBSET Readers}
    BY DEF Typed, Collected, Reading
  <2>2. CASE UNCHANGED <<incr, stalls>>
    BY <2>1, <2>2 DEF Collected
  <2>3. CASE /\ incr' = [incr EXCEPT ![target] = Absent]
             /\ stalls' = [stalls EXCEPT ![target] = Absent]
    BY <1>2, <2>3, DropTyped DEF Typed
  <2>4. ASSUME NEW v \in SomeValues, incr' = [incr EXCEPT ![target] = v],
               stalls' = [stalls EXCEPT ![target] = <<timers>>]
        PROVE  Collected'
    BY <2>1, <2>4 DEF Collected
  <2>5. CASE /\ incr' = [incr EXCEPT ![target] = Value("", <<>>)]
             /\ stalls' = [stalls EXCEPT ![target] = <<timers>>]
    BY <2>4, <2>5, SomeValueTypes
  <2>6. CASE /\ value # Absent /\ incr[target] # Absent
             /\ incr' = [incr EXCEPT ![target] =
                            Value(value[1].type, @[1].parts \o value[1].parts)]
             /\ stalls' = [stalls EXCEPT ![target] = <<timers>>]
    <3>1. /\ value[1].parts \in SomeParts /\ value[1].type \in {"", "INCR", "data"}
          /\ incr[target][1].parts \in SomeParts
      BY <1>7, <2>6, SomeValueTypes
    <3>2. incr[target][1].parts \o value[1].parts \in SomeParts
      BY <3>1, ConcatProperties DEF SomeParts
    <3>3. Value(value[1].type, incr[target][1].parts \o value[1].parts) \in SomeValues
      BY <3>1, <3>2, SomeValueTypes
    <3>4. incr' = [incr EXCEPT ![target] =
                     Value(value[1].type, incr[target][1].parts \o value[1].parts)]
      BY <1>2, <2>1, <2>6
    <3> QED
      BY <2>4, <2>6, <3>3, <3>4
  <2> QED
    BY <2>2, <2>3, <2>5, <2>6 DEF PropertyNotify
<1> QED
  BY <1>3, <1>4, <1>5, <1>6, <1>8, <1>9 DEF Typed

\* Each step keeps the types.
LEMMA TypedStep ==
    ASSUME Typed, Fresh, Reading, [Next]_vars
    PROVE  Typed'
<1>1. CASE AppCopies \/ \E r \in Readers : AppConverts(r) \/ AppWritesPart(r)
  BY <1>1, ApplicationsTyped
<1>2. CASE \E r \in Readers, t \in Targets : GetContents(r, t)
  BY <1>2, GetContentsTyped
<1>3. CASE \E r \in Readers : TimeoutGetContents(r)
  BY <1>3, TimeoutTyped
<1>4. CASE OwnerChanged \/ GotToken
  BY <1>4, OwnerTyped
<1>5. CASE PropertyNotify
  BY <1>5, NotifyTyped
<1>6. CASE Cleanup \/ \E t \in Targets : IncrDataTimeout(t)
  <2>1. UNCHANGED <<made, tokens, queue, property, conv, calls>>
    BY <1>6 DEF Cleanup, IncrDataTimeout, server, reads
  <2>2. Collected'
    BY <1>6, DropTyped DEF Cleanup, IncrDataTimeout, Typed
  <2> QED
    BY <2>1, <2>2 DEF Typed, Counted, Queued, Stored, Progressing, Called
<1>7. CASE UNCHANGED vars
  BY <1>7 DEF vars, server, proxy, reads, Typed, Counted, Queued, Stored, Progressing, Collected,
              Called
<1> QED
  BY <1>1, <1>2, <1>3, <1>4, <1>5, <1>6, <1>7 DEF Next

LEMMA TypedAlways == Spec => []Typed
<1>1. Init => Typed
  <2> SUFFICES ASSUME Init PROVE Typed
    OBVIOUS
  <2>1. Counted /\ Stored
    BY ReadsAssumption DEF Init, Counted, Stored
  <2>2. Queued /\ Called
    <3>1. <<>> \in Seq(SomeEvents) /\ <<>> \in Seq(SomeParts)
      OBVIOUS
    <3> QED
      BY <3>1 DEF Init, Queued, Called
  <2>3. Progressing
    BY DEF Init, Progressing, Progress, NoConversion
  <2>4. Collected
    BY DEF Init, Collected, Absent
  <2> QED
    BY <2>1, <2>2, <2>3, <2>4 DEF Typed
<1>2. IndInv /\ Typed /\ [Next]_vars => Typed'
  BY TypedStep DEF IndInv
<1> QED
  BY <1>1, <1>2, Invariance, PTL DEF Spec

\* The variables have their types: an incremental transfer writes no more parts than the
\* content has, and every part, event and call is of a copy that has been made.
THEOREM ReadsTypeCorrect == Spec => []TypeOK
<1>1. IndInv /\ Typed => TypeOK
  <2> SUFFICES ASSUME IndInv, Typed PROVE TypeOK
    OBVIOUS
  <2> USE DEF IndInv
  <2>1. /\ owner \in 0..made /\ made \in 0..MaxCopies /\ tokens \in 0..MaxTokens
        /\ epoch \in Nat /\ known \in 0..made /\ targets \in 0..made
    BY ReadsAssumption DEF Fresh, Numbers, Cached, Typed, Counted
  <2>2. queue \in Seq([type : {"owner", "clear", "property"}, copy : 0..MaxCopies,
                       prop : Nat \X (Targets \cup {NoTarget})])
    <3> DEFINE E == [type : {"owner", "clear", "property"}, copy : 0..MaxCopies,
                     prop : Nat \X (Targets \cup {NoTarget})]
    <3>1. SomeEvents \subseteq E
      <4>1. 0 \in 0..MaxCopies /\ <<0, NoTarget>> \in Nat \X (Targets \cup {NoTarget})
        BY ReadsAssumption
      <4> QED
        BY <4>1 DEF SomeEvents, Atoms
    <3> HIDE DEF E
    <3>2. queue \in Seq(E)
      BY <3>1, SeqMonotonic DEF Typed, Queued
    <3> QED
      BY <3>2 DEF E
  <2>3. SomeValues \subseteq Values
    <3> DEFINE V == [type : {"", "INCR", "data"}, parts : Seq(PartSet)]
    <3>1. SomeValues = {<<v>> : v \in V} /\ Values = Seq(V)
      BY DEF SomeValues, SomeParts, Values
    <3> HIDE DEF V
    <3>2. \A v \in V : <<v>> \in Seq(V)
      OBVIOUS
    <3> QED
      BY <3>1, <3>2
  <2>4. DOMAIN property \subseteq Nat \X Targets /\ \A q \in DOMAIN property : property[q] \in Values
    BY <2>3 DEF Fresh, Written, Atoms, Typed, Stored
  <2>5. conv \in [Readers -> [state : {"none", "asked", "incr", "done"}, copy : 0..MaxCopies,
                              prop : Nat \X (Targets \cup {NoTarget}),
                              next : 0..Parts + 2, go : BOOLEAN]]
    <3>1. conv \in [Readers -> Conversions] /\ \A r \in Readers : Progress(conv[r])
      BY DEF Fresh, Working, Typed, Progressing
    <3>2. \A c \in Conversions : Progress(c) =>
             c \in [state : {"none", "asked", "incr", "done"}, copy : 0..MaxCopies,
                    prop : Nat \X (Targets \cup {NoTarget}), next : 0..Parts + 2, go : BOOLEAN]
      <4>1. \A c \in Conversions : Progress(c) => c.copy \in 0..MaxCopies /\ c.next \in 0..Parts + 2
        BY ReadsAssumption DEF Conversions, Progress
      <4> QED
        BY <4>1 DEF Conversions
    <3> QED
      BY <3>1, <3>2
  <2>6. /\ requests \in [Targets -> SUBSET Readers] /\ timers \subseteq Readers
        /\ asked \in [Readers -> Targets \cup {NoTarget}] /\ closed \in BOOLEAN
    BY DEF Reading
  <2>7. incr \in [Targets -> Values]
    <3>1. Absent \in Values
      BY DEF Absent, Values
    <3> QED
      BY <2>3, <3>1 DEF Typed, Collected
  <2>8. stalls \in [Targets -> Seq(SUBSET Readers)]
    <3> DEFINE R == SUBSET Readers
    <3>1. stalls \in [Targets -> {<<S>> : S \in R} \cup {<<>>}]
      BY DEF Typed, Collected
    <3> HIDE DEF R
    <3>2. \A S \in R : <<S>> \in Seq(R)
      OBVIOUS
    <3>3. <<>> \in Seq(R)
      OBVIOUS
    <3>4. \A x \in {<<S>> : S \in R} \cup {<<>>} : x \in Seq(R)
      BY <3>2, <3>3
    <3>5. stalls \in [Targets -> Seq(R)]
      BY <3>1, <3>4
    <3> QED
      BY <3>5 DEF R
  <2>9. calls \in [Readers -> Seq(Seq(PartSet))]
    BY DEF Typed, Called, SomeParts
  <2> QED
    BY <2>1, <2>2, <2>4, <2>5, <2>6, <2>7, <2>8, <2>9, Zenon DEF TypeOK
<1> QED
  BY <1>1, Invariance, TypedAlways, PTL

----------------------------------------------------------------------------
(* The reads implement LocalReads.                                          *)

\* Some numbers have a smallest one.
LEMMA WellFounded ==
    ASSUME NEW S \in SUBSET Nat, S # {}
    PROVE  \E k \in S : \A n \in S : k <= n
<1>1. PICK k \in S : \A n \in S : ~(<<n, k>> \in OpToRel(<, Nat))
  BY WFMin, NatLessThanWellFounded, Zenon
<1>2. \A n \in S : ~(n < k)
  BY <1>1 DEF OpToRel
<1> QED
  BY <1>2

\* The oldest part of some content is one of its parts.
LEMMA OldestPartIsThere ==
    ASSUME NEW lo \in Nat, NEW hi \in Nat, NEW parts \in Content(lo, hi), parts # <<>>
    PROVE  OldestPart(parts) \in lo..hi
<1> DEFINE S == {parts[i].copy : i \in 1..Len(parts)}
<1>1. \A i \in 1..Len(parts) : parts[i].copy \in lo..hi
  <2>1. \A i \in 1..Len(parts) : parts[i] \in PartsOf(lo, hi)
    BY ElementOfSeq DEF Content
  <2> QED
    BY <2>1 DEF PartsOf
<1>2. 1 \in 1..Len(parts)
  BY EmptySeq DEF Content
<1>3. S \in SUBSET (lo..hi) /\ S \in SUBSET Nat /\ S # {}
  BY <1>1, <1>2
<1>4. \E k \in S : \A n \in S : k <= n
  <2> HIDE DEF S
  <2> QED
    BY <1>3, WellFounded
<1>5. \E k \in S : \A i \in 1..Len(parts) : k <= parts[i].copy
  BY <1>4
<1>6. OldestPart(parts) \in S
  BY <1>5 DEF OldestPart
<1> QED
  BY <1>3, <1>6

\* Nothing happens to the reads.
LEMMA SameReads ==
    ASSUME UNCHANGED reads
    PROVE  UNCHANGED <<[r \in Readers |-> Outcome(r)], [r \in Readers |-> Oldest(r)]>>
  BY DEF reads, Outcome, Oldest

\* The callbacks of some reads are called with content that may be read now.
LEMMA FinishStep ==
    ASSUME Fresh, ~closed, UNCHANGED <<made, known, closed>>,
           NEW S \in SUBSET Readers, S # {}, NEW parts \in Content(known, made),
           \A r \in S : /\ calls[r] = <<>> /\ calls'[r] = Append(<<>>, parts)
                        /\ asked'[r] # NoTarget,
           \A r \in Readers \ S : calls'[r] = calls[r] /\ asked'[r] = asked[r]
    PROVE  Promise!Finish(S)
<1> DEFINE result == IF parts = <<>> THEN "empty" ELSE "data"
<1>1. made \in Nat /\ known \in Nat /\ known <= made
  BY DEF Fresh, Numbers
<1>2. PICK k \in known..made : parts # <<>> => k = OldestPart(parts)
  BY <1>1, OldestPartIsThere
<1>3. \A r \in S : Outcome(r) \in {"idle", "pending"}
  BY DEF Outcome
<1>4. Append(<<>>, parts) # <<>> /\ Append(<<>>, parts)[1] = parts
  <2>1. <<>> \in Seq({parts}) /\ parts \in {parts} /\ Len(<<>>) = 0
    OBVIOUS
  <2> QED
    BY <2>1, AppendProperties
<1>5. ASSUME NEW r \in S
      PROVE  /\ Outcome(r)' = result
             /\ result = "data" => Oldest(r)' = k
             /\ result # "data" => Oldest(r)' = 0 /\ Oldest(r) = 0
  <2>1. /\ calls'[r] # <<>> /\ calls'[r][1] = parts /\ asked'[r] # NoTarget /\ calls[r] = <<>>
    BY <1>4
  <2>2. Outcome(r)' = result
    BY <2>1 DEF Outcome
  <2>3. Oldest(r) = 0
    BY <2>1 DEF Oldest, Outcome
  <2>4. Oldest(r)' = IF result = "data" THEN OldestPart(parts) ELSE 0
    BY <2>1, <2>2 DEF Oldest, OldestPart
  <2> QED
    BY <1>2, <2>2, <2>3, <2>4
<1>6. ASSUME NEW r \in Readers \ S
      PROVE  Outcome(r)' = Outcome(r) /\ Oldest(r)' = Oldest(r)
  <2>1. calls'[r] = calls[r] /\ asked'[r] = asked[r]
    OBVIOUS
  <2> QED
    BY <2>1 DEF Outcome, Oldest, OldestPart
<1>7. result \in {"empty", "data"}
  OBVIOUS
<1> HIDE DEF result
<1>8. [r \in Readers |-> Outcome(r)]' =
         [r \in Readers |-> IF r \in S THEN result ELSE [q \in Readers |-> Outcome(q)][r]]
  BY <1>5, <1>6
<1>9. [r \in Readers |-> Oldest(r)]' =
         [r \in Readers |-> IF r \in S /\ result = "data" THEN k ELSE [q \in Readers |-> Oldest(q)][r]]
  BY <1>5, <1>6
<1> QED
  BY <1>2, <1>3, <1>7, <1>8, <1>9 DEF Promise!Finish

\* Those that are pending end without data when another owner is heard of.
LEMMA NoticeStep ==
    ASSUME Fresh, Reading, ~closed, InvalidateLocalReads, UNCHANGED <<made, asked, closed>>,
           known' \in known..made
    PROVE  Promise!Notice
<1> DEFINE S == UNION {requests[t] : t \in Targets}
<1>1. \A r \in Readers : calls'[r] = IF r \in S THEN Append(calls[r], <<>>) ELSE calls[r]
  BY DEF InvalidateLocalReads, Call
<1>2. \A r \in S : r \in Readers /\ asked[r] # NoTarget /\ calls[r] = <<>>
  <2>1. \A t \in Targets : \A r \in requests[t] : r \in Readers /\ asked[r] = t /\ calls[r] = <<>>
    BY DEF Reading
  <2> QED
    BY <2>1, ReadsAssumption
<1>3. \A r \in Readers : asked[r] # NoTarget /\ calls[r] = <<>> => r \in S
  <2>1. \A r \in timers : \E t \in Targets : r \in requests[t]
    BY DEF Reading
  <2> QED
    BY <2>1 DEF Reading
<1>4. \A r \in Readers : r \in S <=> Outcome(r) = "pending"
  BY <1>2, <1>3 DEF Outcome
<1>5. Append(<<>>, <<>>) # <<>> /\ Append(<<>>, <<>>)[1] = <<>>
  <2>1. <<>> \in Seq({<<>>}) /\ <<>> \in {<<>>} /\ Len(<<>>) = 0
    OBVIOUS
  <2> QED
    BY <2>1, AppendProperties
<1> HIDE DEF S
<1>6. ASSUME NEW r \in Readers
      PROVE  /\ Outcome(r)' = IF Outcome(r) = "pending" THEN "empty" ELSE Outcome(r)
             /\ Oldest(r)' = Oldest(r)
  <2>1. CASE r \in S
    <3>1. calls'[r] # <<>> /\ calls'[r][1] = <<>> /\ asked'[r] # NoTarget
      BY <1>1, <1>2, <1>5, <2>1
    <3>2. Outcome(r)' = "empty"
      BY <3>1 DEF Outcome
    <3> QED
      BY <1>4, <2>1, <3>2 DEF Oldest
  <2>2. CASE r \notin S
    <3>1. calls'[r] = calls[r] /\ asked'[r] = asked[r]
      BY <1>1, <2>2
    <3> QED
      BY <1>4, <2>2, <3>1 DEF Outcome, Oldest, OldestPart
  <2> QED
    BY <2>1, <2>2
<1>7. [r \in Readers |-> Outcome(r)]' =
         [r \in Readers |-> IF [q \in Readers |-> Outcome(q)][r] = "pending" THEN "empty"
                            ELSE [q \in Readers |-> Outcome(q)][r]]
  BY <1>6
<1>8. [r \in Readers |-> Oldest(r)]' = [r \in Readers |-> Oldest(r)]
  BY <1>6
<1> QED
  BY <1>7, <1>8 DEF Promise!Notice

\* A read that has to wait.
LEMMA AskStep ==
    ASSUME Reading, NEW r \in Readers, asked[r] = NoTarget, asked'[r] # NoTarget,
           \A q \in Readers \ {r} : asked'[q] = asked[q], UNCHANGED <<calls, made, known, closed>>
    PROVE  Promise!Ask(r)
<1>1. calls[r] = <<>>
  BY DEF Reading
<1>2. Outcome(r) = "idle" /\ Outcome(r)' = "pending"
  BY <1>1 DEF Outcome
<1>3. \A q \in Readers \ {r} : Outcome(q)' = Outcome(q)
  BY DEF Outcome
<1>4. \A q \in Readers : Oldest(q)' = Oldest(q)
  <2>1. \A q \in Readers \ {r} : Oldest(q)' = Oldest(q)
    BY <1>3 DEF Oldest, OldestPart
  <2>2. Oldest(r) = 0 /\ Oldest(r)' = 0
    BY <1>2 DEF Oldest
  <2> QED
    BY <2>1, <2>2
<1>5. [q \in Readers |-> Outcome(q)]' = [[q \in Readers |-> Outcome(q)] EXCEPT ![r] = "pending"]
  BY <1>2, <1>3
<1>6. [q \in Readers |-> Oldest(q)]' = [q \in Readers |-> Oldest(q)]
  BY <1>4
<1> QED
  BY <1>2, <1>5, <1>6 DEF Promise!Ask

\* What get_contents does at once, or asks for.
LEMMA GetContentsStep ==
    ASSUME Fresh, Reading, NEW r \in Readers, NEW target \in Targets, GetContents(r, target)
    PROVE  Promise!Ask(r) \/ Promise!Finish({r})
<1>1. /\ ~closed /\ UNCHANGED <<made, known, closed>> /\ asked[r] = NoTarget
      /\ asked' = [asked EXCEPT ![r] = target] /\ target # NoTarget
  BY ReadsAssumption DEF GetContents
<1>2. /\ asked'[r] # NoTarget /\ \A q \in Readers \ {r} : asked'[q] = asked[q]
      /\ calls[r] = <<>>
  BY <1>1 DEF Reading
<1>3. CASE UNCHANGED calls
  BY <1>1, <1>2, <1>3, AskStep
<1>4. CASE \E parts \in Content(known, made) : calls' = [calls EXCEPT ![r] = Append(@, parts)]
  <2>1. PICK parts \in Content(known, made) : calls' = [calls EXCEPT ![r] = Append(@, parts)]
    BY <1>4
  <2>2. calls'[r] = Append(<<>>, parts) /\ \A q \in Readers \ {r} : calls'[q] = calls[q]
    BY <1>2, <2>1 DEF Reading
  <2> QED
    BY <1>1, <1>2, <2>2, FinishStep
<1>5. <<>> \in Content(known, made)
  BY DEF Content
<1>6. targets # 0 => <<Part(targets, r, 1)>> \in Content(known, made)
  BY PartTypes DEF Fresh, Cached, Numbers
<1> QED
  BY <1>3, <1>4, <1>5, <1>6 DEF GetContents

\* The timer calls the callback without data, unless the proxy is closed.
LEMMA TimeoutStep ==
    ASSUME Fresh, Reading, NEW r \in Readers, TimeoutGetContents(r)
    PROVE  Promise!Finish({r}) \/ UNCHANGED Promise!vars
<1> DEFINE S == {r} \cap UNION {requests[t] : t \in Targets}
<1>1. /\ UNCHANGED <<made, known, asked, closed>>
      /\ calls' = [calls EXCEPT ![r] = IF S = {} THEN @ ELSE Append(@, <<>>)]
  BY DEF TimeoutGetContents, server
<1>2. CASE S = {}
  <2>1. calls' = calls
    BY <1>1, <1>2 DEF Reading
  <2> QED
    BY <1>1, <2>1, SameReads DEF Promise!vars, reads
<1>3. CASE S # {}
  <2>1. PICK t \in Targets : r \in requests[t]
    BY <1>3
  <2>2. ~closed /\ calls[r] = <<>> /\ asked[r] # NoTarget
    BY <2>1, ReadsAssumption DEF Reading
  <2>3. calls'[r] = Append(<<>>, <<>>) /\ \A q \in Readers \ {r} : calls'[q] = calls[q]
    BY <1>1, <1>3, <2>2 DEF Reading
  <2>4. <<>> \in Content(known, made)
    BY DEF Content
  <2>5. asked' = asked
    BY <1>1
  <2> QED
    BY <1>1, <2>2, <2>3, <2>4, <2>5, FinishStep
<1> QED
  BY <1>2, <1>3

\* A property calls those that wait for its target.
LEMMA NotifyStep ==
    ASSUME Fresh, Reading, PropertyNotify
    PROVE  (\E S \in SUBSET Readers : Promise!Finish(S)) \/ UNCHANGED Promise!vars
<1>1. ~closed /\ UNCHANGED <<made, known, asked, closed>>
  BY NotifyReads
<1>2. CASE UNCHANGED calls
  BY <1>1, <1>2, SameReads DEF Promise!vars, reads
<1>3. ASSUME NEW target \in Targets, NEW parts \in Content(known, made),
             GotLocalContents(target, parts)
      PROVE  (\E S \in SUBSET Readers : Promise!Finish(S)) \/ UNCHANGED Promise!vars
  <2> DEFINE S == requests[target]
  <2>1. /\ S \in SUBSET Readers
        /\ \A r \in S : asked[r] = target /\ calls[r] = <<>>
    BY DEF Reading
  <2>2. \A r \in Readers : calls'[r] = IF r \in S THEN Append(calls[r], parts) ELSE calls[r]
    BY <1>3 DEF GotLocalContents, Call
  <2>3. CASE S = {}
    <3>1. calls' = calls
      <4>1. calls' = [r \in Readers |-> calls'[r]]
        BY <1>3 DEF GotLocalContents, Call
      <4> QED
        BY <2>2, <2>3, <4>1 DEF Reading
    <3> QED
      BY <1>2, <3>1
  <2>4. CASE S # {}
    <3>1. /\ \A r \in S : /\ calls[r] = <<>> /\ calls'[r] = Append(<<>>, parts)
                          /\ asked'[r] # NoTarget
          /\ \A r \in Readers \ S : calls'[r] = calls[r] /\ asked'[r] = asked[r]
      BY <1>1, <2>1, <2>2, ReadsAssumption
    <3> HIDE DEF S
    <3>2. Promise!Finish(S)
      BY <1>1, <2>1, <2>4, <3>1, FinishStep
    <3> QED
      BY <2>1, <3>2
  <2> QED
    BY <2>3, <2>4
<1> QED
  BY <1>2, <1>3, NotifyReads

\* Each step is one of LocalReads, or changes nothing that it speaks of.
LEMMA RefinementStep ==
    ASSUME Fresh, Reading, [Next]_vars
    PROVE  [Promise!Next]_(Promise!vars)
<1>1. CASE AppCopies
  <2>1. UNCHANGED reads /\ made' = made + 1 /\ made < MaxCopies /\ UNCHANGED <<known, closed>>
    BY <1>1 DEF AppCopies, proxy
  <2>2. Promise!Copy
    BY <2>1, SameReads DEF Promise!Copy
  <2> QED
    BY <2>2 DEF Promise!Next
<1>2. ASSUME NEW r \in Readers, AppConverts(r) \/ AppWritesPart(r)
      PROVE  UNCHANGED Promise!vars
  <2>1. UNCHANGED reads /\ UNCHANGED <<made, known, closed>>
    BY <1>2 DEF AppConverts, AppWritesPart, WriteProperty, proxy
  <2> QED
    BY <2>1, SameReads DEF Promise!vars
<1>3. ASSUME NEW r \in Readers, NEW t \in Targets, GetContents(r, t)
      PROVE  Promise!Next
  BY <1>3, GetContentsStep DEF Promise!Next
<1>4. ASSUME NEW r \in Readers, TimeoutGetContents(r)
      PROVE  Promise!Next \/ UNCHANGED Promise!vars
  BY <1>4, TimeoutStep DEF Promise!Next
<1>5. CASE OwnerChanged
  <2>1. ~closed /\ UNCHANGED <<made, asked, closed>> /\ known' \in known..made
    BY <1>5, OwnerChangedFresh DEF OwnerChanged
  <2>2. CASE InvalidateLocalReads
    BY <2>1, <2>2, NoticeStep DEF Promise!Next
  <2>3. CASE UNCHANGED <<calls, known>>
    BY <2>1, <2>3, SameReads DEF Promise!vars, reads
  <2> QED
    BY <1>5, <2>2, <2>3 DEF OwnerChanged
<1>6. CASE GotToken
  <2>1. ~closed /\ UNCHANGED <<made, asked, closed>> /\ known' = known /\ InvalidateLocalReads
    BY <1>6 DEF GotToken
  <2>2. known' \in known..made
    BY <2>1 DEF Fresh, Numbers
  <2> QED
    BY <2>1, <2>2, NoticeStep DEF Promise!Next
<1>7. CASE PropertyNotify
  BY <1>7, NotifyStep DEF Promise!Next
<1>8. ASSUME NEW t \in Targets, IncrDataTimeout(t)
      PROVE  UNCHANGED Promise!vars
  <2>1. UNCHANGED reads /\ UNCHANGED <<made, known, closed>>
    BY <1>8 DEF IncrDataTimeout, server
  <2> QED
    BY <2>1, SameReads DEF Promise!vars
<1>9. CASE Cleanup
  <2>1. UNCHANGED reads /\ UNCHANGED <<made, known>> /\ closed' = TRUE
    BY <1>9 DEF Cleanup, server
  <2>2. Promise!Close
    BY <2>1, SameReads DEF Promise!Close
  <2> QED
    BY <2>2 DEF Promise!Next
<1>10. CASE UNCHANGED vars
  <2>1. UNCHANGED reads /\ UNCHANGED <<made, known, closed>>
    BY <1>10 DEF vars, proxy, server
  <2> QED
    BY <2>1, SameReads DEF Promise!vars
<1> QED
  BY <1>1, <1>2, <1>3, <1>4, <1>5, <1>6, <1>7, <1>8, <1>9, <1>10 DEF Next

\* Reads of a local selection do what LocalReads says, for every value of the constants:
\* nobody is given data that is older than the copy of the owner that the proxy knows,
\* and nobody is called twice.  (That every read ends is for TLC.)
THEOREM ReadsImplement == Spec => Promise!Init /\ [][Promise!Next]_(Promise!vars)
<1>1. Init => Promise!Init
  <2> SUFFICES ASSUME Init PROVE Promise!Init
    OBVIOUS
  <2>1. \A r \in Readers : Outcome(r) = "idle" /\ Oldest(r) = 0
    BY DEF Init, Outcome, Oldest
  <2>2. /\ [r \in Readers |-> Outcome(r)] = [r \in Readers |-> "idle"]
        /\ [r \in Readers |-> Oldest(r)] = [r \in Readers |-> 0]
    BY <2>1
  <2> QED
    BY <2>2 DEF Init, Promise!Init
<1>2. IndInv /\ [Next]_vars => [Promise!Next]_(Promise!vars)
  BY RefinementStep DEF IndInv
<1> QED
  BY <1>1, <1>2, Invariance, PTL DEF Spec
=============================================================================
