------------------------------ MODULE X11Reads ------------------------------
(***************************************************************************)
(* How the X11 clipboard proxy reads the selection of a local application  *)
(* (xpra/x11/selection/proxy.py: get_contents, do_property_notify and what *)
(* invalidates them), with the X server and the applications that own the  *)
(* selection as its environment.                                           *)
(*                                                                         *)
(* The X server changes owners and properties at once; the proxy hears of  *)
(* it by events that are processed in order, and reads the value that the  *)
(* property has by then.  A conversion that is too big for one property is *)
(* sent in parts: the owner writes an INCR header, then each part when the *)
(* proxy has deleted the one before, and an empty one at the end.          *)
(***************************************************************************)
EXTENDS Integers, Sequences, FiniteSets

CONSTANTS
    Readers,    \* calls to get_contents, one each
    Targets,    \* with TARGETS, whose contents are cached
    NoTarget,
    Parts,      \* parts of the content of a selection
    MaxCopies,  \* bound: copies made by applications
    MaxTokens,  \* bound: tokens received, each of which claims the selection
    MaxQueue    \* bound: X events that are not processed yet when an application acts

ASSUME ReadsAssumption ==
    /\ NoTarget \notin Targets /\ "TARGETS" \in Targets
    /\ Parts \in Nat \ {0} /\ MaxCopies \in Nat /\ MaxTokens \in Nat /\ MaxQueue \in Nat

\* values of a property: parts of the content of a copy, by the conversion they are from
Part(copy, r, i) == [copy |-> copy, of |-> r, part |-> i]
Value(type, parts) == <<[type |-> type, parts |-> parts]>>
Absent == <<>>

VARIABLES
    owner,    \* of the selection, in the X server: a copy, or 0 (us, or nobody)
    made,     \* copies made
    tokens,   \* tokens received
    queue,    \* X events
    property, \* the properties of our window that exist, each named for an epoch and a target
    conv,     \* conversions that an application works on, by the read that asked for them
    epoch,    \* _offer_epoch
    known,    \* the copy of the last event
    targets,  \* the copy whose TARGETS are cached (0: none)
    requests, \* local_requests: the reads that wait for a target
    timers,   \* reads whose timer of CONVERT_TIMEOUT is armed
    incr,     \* incr_data: the parts received for each target, if it is in progress
    stalls,   \* the incr timer of each target: the reads whose own timer is older, if it is armed
    asked,    \* the target of each read
    calls,    \* the calls of its callback: the parts it was given
    closed    \* cleanup() has run

server == <<owner, made, queue, property, conv>>
proxy == <<epoch, known, targets, requests, timers, incr, stalls>>
reads == <<asked, calls>>
vars == <<server, proxy, reads, tokens, closed>>

----------------------------------------------------------------------------
NoConversion == [state |-> "none", prop |-> <<0, NoTarget>>, copy |-> 0, next |-> 0, go |-> FALSE]

Init ==
    /\ owner = 0 /\ made = 0 /\ tokens = 0
    /\ queue = <<>>
    /\ property = [p \in {} |-> Absent]
    /\ conv = [r \in Readers |-> NoConversion]
    /\ epoch = 0 /\ known = 0 /\ targets = 0
    /\ requests = [t \in Targets |-> {}]
    /\ timers = {}
    /\ incr = [t \in Targets |-> Absent] /\ stalls = incr
    /\ asked = [r \in Readers |-> NoTarget]
    /\ calls = [r \in Readers |-> <<>>]
    /\ closed = FALSE

(* The X server and the applications.                                       *)

PropertyEvent(p) == [type |-> "property", copy |-> 0, prop |-> p]
OwnerEvent(copy) == [type |-> "owner", copy |-> copy, prop |-> <<0, NoTarget>>]
ClearEvent == [type |-> "clear", copy |-> 0, prop |-> <<0, NoTarget>>]

\* an application acts: our window goes away with the proxy
AppActs == ~closed /\ Len(queue) < MaxQueue

\* the selection is taken from us, or from another application
AppCopies ==
    /\ AppActs /\ made < MaxCopies
    /\ made' = made + 1 /\ owner' = made'
    /\ queue' = Append(IF owner = 0 THEN Append(queue, ClearEvent) ELSE queue, OwnerEvent(made'))
    /\ UNCHANGED <<property, conv, proxy, reads, tokens, closed>>

WriteProperty(r, value, state) ==
    LET p == conv[r].prop IN
    /\ property' = [q \in DOMAIN property \cup {p} |-> IF q = p THEN value ELSE property[q]]
    /\ queue' = Append(queue, PropertyEvent(p))
    /\ conv' = [conv EXCEPT ![r].state = state, ![r].next = @ + 1, ![r].go = FALSE]
    /\ UNCHANGED <<owner, made, proxy, reads, tokens, closed>>

\* the conversion is answered at once, in parts, or never
AppConverts(r) ==
    /\ AppActs /\ conv[r].state = "asked"
    /\ LET copy == conv[r].copy IN
       \/ WriteProperty(r, Value("data", [i \in 1..Parts |-> Part(copy, r, i)]), "done")
       \/ WriteProperty(r, Value("INCR", <<Part(copy, r, 0)>>), "incr")

AppWritesPart(r) ==
    /\ AppActs /\ conv[r].state = "incr" /\ conv[r].go
    /\ IF conv[r].next <= Parts
       THEN WriteProperty(r, Value("data", <<Part(conv[r].copy, r, conv[r].next)>>), "incr")
       ELSE WriteProperty(r, Value("data", <<>>), "done")

\* XDeleteProperty: every application that waits for it goes on
DeleteProperty(p) ==
    /\ property' = [q \in DOMAIN property \ {p} |-> property[q]]
    /\ queue' = IF p \in DOMAIN property THEN Append(Tail(queue), PropertyEvent(p)) ELSE Tail(queue)
    /\ conv' = [r \in Readers |-> IF conv[r].state = "incr" /\ conv[r].prop = p /\ p \in DOMAIN property
                                  THEN [conv[r] EXCEPT !.go = TRUE] ELSE conv[r]]

KeepProperty == queue' = Tail(queue) /\ UNCHANGED <<property, conv>>

(* get_contents.                                                            *)

GetContents(r, target) ==
    /\ ~closed /\ asked[r] = NoTarget
    /\ asked' = [asked EXCEPT ![r] = target]
    /\ IF target = "TARGETS" /\ targets # 0
       THEN /\ calls' = [calls EXCEPT ![r] = Append(@, <<Part(targets, r, 1)>>)]
            /\ UNCHANGED <<requests, timers, conv>>
       ELSE IF owner = 0
       THEN /\ calls' = [calls EXCEPT ![r] = Append(@, <<>>)]
            /\ UNCHANGED <<requests, timers, conv>>
       ELSE /\ requests' = [requests EXCEPT ![target] = @ \cup {r}]
            /\ timers' = timers \cup {r}
            /\ conv' = IF requests[target] # {} THEN conv
                       ELSE [conv EXCEPT ![r] = [NoConversion EXCEPT
                               !.state = "asked", !.copy = owner, !.prop = <<epoch, target>>]]
            /\ UNCHANGED calls
    /\ UNCHANGED <<owner, made, queue, property, epoch, known, targets, incr, stalls,
                   tokens, closed>>

\* the callbacks of some reads are called with the same parts
Call(S, parts) ==
    /\ calls' = [r \in Readers |-> IF r \in S THEN Append(calls[r], parts) ELSE calls[r]]
    /\ timers' = timers \ S

\* timeout_get_contents
TimeoutGetContents(r) ==
    /\ r \in timers
    /\ LET S == {r} \cap UNION {requests[t] : t \in Targets} IN
       /\ requests' = [t \in Targets |-> requests[t] \ {r}]
       /\ calls' = [calls EXCEPT ![r] = IF S = {} THEN @ ELSE Append(@, <<>>)]
       /\ timers' = timers \ {r}
    /\ UNCHANGED <<server, epoch, known, targets, incr, stalls, asked, tokens, closed>>

(* Events.                                                                  *)

\* mutant: the epoch stays
InvalidateSameEpoch ==
    /\ UNCHANGED epoch
    /\ requests' = [t \in Targets |-> {}]
    /\ incr' = [t \in Targets |-> Absent] /\ stalls' = incr'
    /\ Call(UNION {requests[t] : t \in Targets}, <<>>)

\* _invalidate_local_reads
InvalidateLocalReads ==
    /\ epoch' = epoch + 1
    /\ requests' = [t \in Targets |-> {}]
    /\ incr' = [t \in Targets |-> Absent] /\ stalls' = incr'
    /\ Call(UNION {requests[t] : t \in Targets}, <<>>)

\* do_selection_clear_event, do_selection_notify_event
OwnerChanged ==
    /\ ~closed
    /\ queue # <<>> /\ Head(queue).type \in {"clear", "owner"}
    /\ LET event == Head(queue) IN
       IF event.type = "clear" \/ event.copy # 0
       THEN /\ InvalidateLocalReads
            /\ targets' = 0
            /\ known' = IF event.type = "owner" THEN event.copy ELSE known
       ELSE UNCHANGED <<epoch, requests, timers, calls, targets, incr, stalls, known>>
    /\ KeepProperty
    /\ UNCHANGED <<owner, made, asked, tokens, closed>>

\* got_token and claim, of a token that brings neither targets nor data (X11Offer, ClipboardRequests)
GotToken ==
    /\ ~closed /\ tokens < MaxTokens
    /\ tokens' = tokens + 1
    /\ InvalidateLocalReads
    /\ targets' = 0
    /\ owner' = 0 /\ queue' = Append(queue, OwnerEvent(0))
    /\ UNCHANGED <<made, property, conv, known, asked, closed>>

\* mutant: the waiters are called and kept
GotLocalContentsAgain(target, parts) ==
    /\ calls' = [r \in Readers |-> IF r \in requests[target] THEN Append(calls[r], parts) ELSE calls[r]]
    /\ UNCHANGED <<requests, timers>>

GotLocalContents(target, parts) ==
    /\ Call(requests[target], parts)
    /\ requests' = [requests EXCEPT ![target] = {}]

CopyOf(parts) == parts[1].copy

ReadProperty(p) == IF p \in DOMAIN property THEN property[p] ELSE Absent

\* do_property_notify
PropertyNotify ==
    /\ ~closed
    /\ queue # <<>> /\ Head(queue).type = "property"
    /\ LET p == Head(queue).prop
           target == p[2]
           value == ReadProperty(p)
       IN \/ \* of another epoch
             /\ p[1] # epoch
             /\ DeleteProperty(p)
             /\ UNCHANGED <<requests, timers, calls, targets, incr, stalls>>
          \/ \* it is gone
             /\ p[1] = epoch /\ value = Absent
             /\ KeepProperty
             /\ UNCHANGED <<requests, timers, calls, targets, incr, stalls>>
          \/ \* start of an incremental transfer
             /\ p[1] = epoch /\ value # Absent /\ incr[target] = Absent
             /\ value[1].type = "INCR"
             /\ incr' = [incr EXCEPT ![target] = Value("", <<>>)]
             /\ stalls' = [stalls EXCEPT ![target] = <<timers>>]
             /\ DeleteProperty(p)
             /\ UNCHANGED <<requests, timers, calls, targets>>
          \/ \* incremental, with another type than before
             /\ p[1] = epoch /\ value # Absent /\ incr[target] # Absent
             /\ incr[target][1].type \notin {"", value[1].type}
             /\ incr' = [incr EXCEPT ![target] = Absent]
             /\ stalls' = [stalls EXCEPT ![target] = Absent]
             /\ DeleteProperty(p)
             /\ GotLocalContents(target, <<>>)
             /\ UNCHANGED targets
          \/ \* incremental: one part, or the end
             /\ p[1] = epoch /\ value # Absent /\ incr[target] # Absent
             /\ incr[target][1].type \in {"", value[1].type}
             /\ IF value[1].parts # <<>>
                THEN /\ incr' = [incr EXCEPT ![target] =
                                    Value(value[1].type, @[1].parts \o value[1].parts)]
                     /\ stalls' = [stalls EXCEPT ![target] = <<timers>>]
                     /\ DeleteProperty(p)
                     /\ UNCHANGED <<requests, timers, calls>>
                ELSE /\ incr' = [incr EXCEPT ![target] = Absent]
                     /\ stalls' = [stalls EXCEPT ![target] = Absent]
                     /\ KeepProperty
                     /\ GotLocalContents(target, incr[target][1].parts)
             /\ UNCHANGED targets
          \/ \* all of it at once
             /\ p[1] = epoch /\ value # Absent /\ incr[target] = Absent
             /\ value[1].type # "INCR"
             /\ targets' = IF target # "TARGETS" THEN targets
                           ELSE IF value[1].parts = <<>> THEN 0 ELSE CopyOf(value[1].parts)
             /\ KeepProperty
             /\ GotLocalContents(target, value[1].parts)
             /\ UNCHANGED <<incr, stalls>>
    /\ UNCHANGED <<owner, made, epoch, known, asked, tokens, closed>>

\* incr_data_timeout, after 1s: the timers of 100ms that were armed before have fired.
\* Whoever waits for the target goes on waiting
IncrDataTimeout(target) ==
    /\ stalls[target] # Absent /\ stalls[target][1] \cap timers = {}
    /\ incr' = [incr EXCEPT ![target] = Absent]
    /\ stalls' = [stalls EXCEPT ![target] = Absent]
    /\ UNCHANGED <<server, epoch, known, targets, requests, timers, reads, tokens, closed>>

\* cleanup() empties the table of reads before it looks the reads up in it: their
\* callbacks are not called, and their timers find nothing
Cleanup ==
    /\ ~closed
    /\ closed' = TRUE
    /\ incr' = [t \in Targets |-> Absent] /\ stalls' = incr'
    /\ requests' = [t \in Targets |-> {}]
    /\ UNCHANGED <<server, epoch, known, targets, timers, reads, tokens>>

Next ==
    \/ AppCopies
    \/ \E r \in Readers : AppConverts(r) \/ AppWritesPart(r)
    \/ \E r \in Readers, t \in Targets : GetContents(r, t)
    \/ \E r \in Readers : TimeoutGetContents(r)
    \/ OwnerChanged \/ GotToken \/ PropertyNotify
    \/ \E t \in Targets : IncrDataTimeout(t)
    \/ Cleanup

\* the timers of the main loop fire; nothing is asked of applications
Spec == Init /\ [][Next]_vars /\ \A r \in Readers : WF_vars(TimeoutGetContents(r))

----------------------------------------------------------------------------
(* Properties.                                                              *)

PartSet == [copy : 1..MaxCopies, of : Readers, part : 0..Parts]
Values == Seq([type : {"", "INCR", "data"}, parts : Seq(PartSet)])
Pending == UNION {requests[t] : t \in Targets}

\* The variables have their types.
TypeOK ==
    /\ owner \in 0..made /\ made \in 0..MaxCopies /\ tokens \in 0..MaxTokens
    /\ queue \in Seq([type : {"owner", "clear", "property"}, copy : 0..MaxCopies,
                      prop : Nat \X (Targets \cup {NoTarget})])
    /\ DOMAIN property \subseteq Nat \X Targets
    /\ \A p \in DOMAIN property : property[p] \in Values
    /\ conv \in [Readers -> [state : {"none", "asked", "incr", "done"}, copy : 0..MaxCopies,
                             prop : Nat \X (Targets \cup {NoTarget}),
                             next : 0..Parts + 2, go : BOOLEAN]]
    /\ epoch \in Nat /\ known \in 0..made /\ targets \in 0..made
    /\ requests \in [Targets -> SUBSET Readers]
    /\ timers \subseteq Readers
    /\ incr \in [Targets -> Values] /\ stalls \in [Targets -> Seq(SUBSET Readers)]
    /\ asked \in [Readers -> Targets \cup {NoTarget}]
    /\ calls \in [Readers -> Seq(Seq(PartSet))]
    /\ closed \in BOOLEAN

\* Every read waits for one target with a timer, or its callback has been called, once:
\* the property, its timer, another read's reply, an owner change and a token compete.
CalledOnce ==
    /\ \A r \in Readers : Len(calls[r]) <= 1
    /\ ~closed => /\ Pending = timers
                  /\ \A r \in Readers : asked[r] # NoTarget => (r \in Pending <=> calls[r] = <<>>)
                  /\ \A t \in Targets : requests[t] \subseteq {r \in Readers : asked[r] = t}

\* The reads implement LocalReads: each ends once, without data or with data that is no
\* older than the copy that the proxy knows, and every one does end.
Outcome(r) ==
    IF asked[r] = NoTarget THEN "idle" ELSE IF calls[r] = <<>> THEN "pending"
    ELSE IF calls[r][1] = <<>> THEN "empty" ELSE "data"
OldestPart(parts) == CHOOSE k \in {parts[i].copy : i \in 1..Len(parts)} :
                        \A i \in 1..Len(parts) : k <= parts[i].copy

Oldest(r) == IF Outcome(r) = "data" THEN OldestPart(calls[r][1]) ELSE 0

Promise == INSTANCE LocalReads WITH
    outcome <- [r \in Readers |-> Outcome(r)],
    oldest <- [r \in Readers |-> Oldest(r)]

ReadsImplementPromise == Promise!Spec

\* "One property carries one conversion; fan out the result to all waiters instead of
\* starting overlapping transfers on that atom" (xpra/x11/selection/proxy.py:619-620): no
\* two conversions that may still write to the same property.
OneConversion ==
    \A r, s \in Readers :
        /\ r # s
        /\ conv[r].state \in {"asked", "incr"} /\ conv[s].state \in {"asked", "incr"}
        => conv[r].prop # conv[s].prop

\* A callback is given the whole content or nothing.
WholeContent ==
    \A r \in Readers : \A i \in 1..Len(calls[r]) :
        calls[r][i] = <<>> \/ asked[r] = "TARGETS"
            \/ [k \in 1..Len(calls[r][i]) |-> calls[r][i][k].part] = [k \in 1..Parts |-> k]
=============================================================================
