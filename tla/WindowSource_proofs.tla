------------------------ MODULE WindowSource_proofs -------------------------
(***************************************************************************)
(* Proofs about the damage pipeline, for every value of the constants.     *)
(*                                                                         *)
(* The timers are about what each method leaves behind: it takes a record  *)
(* that is Good to those that are, and a step only combines methods.  The  *)
(* cleanup is about the end marker: the last entry that the encode queue   *)
(* gets, because the window that queues it is retired.                     *)
(* The mmap area that its pixels go through has the last part.             *)
(***************************************************************************)
EXTENDS WindowSource, MmapRing, SequenceTheorems, TLAPS

\* what holds of the object between any two calls of one method by another
Sound(w) ==
    /\ w \in WindowState
    /\ w.softExpired <= MaxSoftExpired
    /\ \A t \in {"soft", "timeout", "maysend"} : w.sources[t] = IF t \in w.armed THEN 1 ELSE 0
    /\ \A t \in {"expire", "decode"} : t \in w.armed => w.sources[t] >= 1
    /\ "timeout" \in w.armed => w.delayed # "none" /\ w.timeoutOurs

\* what holds besides when a method is entered by the main loop or returns to it
Timed(w) ==
    w.delayed # "none" =>
        \/ w.sources["expire"] > 0
        \/ w.sources["soft"] > 0
        \/ w.sources["timeout"] > 0 /\ w.timeoutOurs

Good(w) == Sound(w) /\ Timed(w)

LEMMA ArmFields ==
    ASSUME NEW w \in WindowState, NEW t \in Timers
    PROVE  /\ Arm(w, t) \in WindowState
           /\ Arm(w, t).delayed = w.delayed
           /\ Arm(w, t).timeoutOurs = w.timeoutOurs
           /\ Arm(w, t).softExpired = w.softExpired
           /\ Arm(w, t).armed = w.armed \cup {t}
           /\ Arm(w, t).sources = [w.sources EXCEPT ![t] = @ + 1]
<1> DEFINE a == w.armed \cup {t}
           s == [w.sources EXCEPT ![t] = @ + 1]
<1>1. a \in SUBSET Timers /\ s \in [Timers -> Nat]
  BY DEF WindowState
<1>2. Arm(w, t) = [w EXCEPT !.armed = a, !.sources = s]
  BY DEF Arm
<1> HIDE DEF a, s
<1>3. /\ Arm(w, t) \in WindowState
      /\ Arm(w, t).delayed = w.delayed
      /\ Arm(w, t).timeoutOurs = w.timeoutOurs
      /\ Arm(w, t).softExpired = w.softExpired
      /\ Arm(w, t).armed = a
      /\ Arm(w, t).sources = s
  BY <1>1, <1>2 DEF WindowState
<1> QED
  BY <1>3 DEF a, s

LEMMA ArmSound ==
    ASSUME NEW w, Sound(w), NEW t \in Timers,
           t \in {"expire", "decode"} \/ t \notin w.armed,
           t = "timeout" => w.delayed # "none" /\ w.timeoutOurs
    PROVE  Sound(Arm(w, t))
<1> DEFINE v == Arm(w, t)
<1>1. /\ v \in WindowState /\ v.delayed = w.delayed /\ v.timeoutOurs = w.timeoutOurs
      /\ v.softExpired = w.softExpired /\ v.armed = w.armed \cup {t}
      /\ v.sources = [w.sources EXCEPT ![t] = @ + 1]
  BY ArmFields DEF Sound
<1>2. w.sources \in [Timers -> Nat]
  BY DEF Sound, WindowState
<1> HIDE DEF v
<1>3. \A u \in {"soft", "timeout", "maysend"} : v.sources[u] = IF u \in v.armed THEN 1 ELSE 0
  BY <1>1, <1>2 DEF Sound, Timers
<1>4. \A u \in {"expire", "decode"} : u \in v.armed => v.sources[u] >= 1
  BY <1>1, <1>2 DEF Sound, Timers
<1>5. Sound(v)
  BY <1>1, <1>3, <1>4 DEF Sound
<1> QED
  BY <1>5 DEF v

LEMMA CancelFields ==
    ASSUME NEW w, Sound(w), NEW T \in SUBSET Timers
    PROVE  /\ Cancel(w, T) \in WindowState
           /\ Cancel(w, T).delayed = w.delayed
           /\ Cancel(w, T).timeoutOurs = w.timeoutOurs
           /\ Cancel(w, T).softExpired = w.softExpired
           /\ Cancel(w, T).armed = w.armed \ T
           /\ Cancel(w, T).sources =
                [t \in Timers |-> IF t \in T \cap w.armed THEN w.sources[t] - 1 ELSE w.sources[t]]
<1> DEFINE s == [t \in Timers |-> IF t \in T \cap w.armed THEN w.sources[t] - 1 ELSE w.sources[t]]
<1>1. w \in WindowState /\ w.sources \in [Timers -> Nat]
  BY DEF Sound, WindowState
<1>2. ASSUME NEW t \in Timers, t \in w.armed PROVE w.sources[t] - 1 \in Nat
  BY <1>1, <1>2 DEF Sound, Timers
<1>3. s \in [Timers -> Nat] /\ w.armed \ T \in SUBSET Timers
  BY <1>1, <1>2 DEF WindowState
<1> HIDE DEF s
<1>4. Cancel(w, T) = [w EXCEPT !.armed = w.armed \ T, !.sources = s]
  BY DEF Cancel, s
<1>5. /\ Cancel(w, T) \in WindowState
      /\ Cancel(w, T).delayed = w.delayed
      /\ Cancel(w, T).timeoutOurs = w.timeoutOurs
      /\ Cancel(w, T).softExpired = w.softExpired
      /\ Cancel(w, T).armed = w.armed \ T
      /\ Cancel(w, T).sources = s
  BY <1>1, <1>3, <1>4 DEF WindowState
<1> QED
  BY <1>5 DEF s

LEMMA CancelSound ==
    ASSUME NEW w, Sound(w), NEW T \in SUBSET Timers
    PROVE  Sound(Cancel(w, T))
<1> DEFINE v == Cancel(w, T)
<1>1. /\ v \in WindowState /\ v.delayed = w.delayed /\ v.timeoutOurs = w.timeoutOurs
      /\ v.softExpired = w.softExpired /\ v.armed = w.armed \ T
      /\ v.sources = [t \in Timers |-> IF t \in T \cap w.armed THEN w.sources[t] - 1
                                                               ELSE w.sources[t]]
  BY CancelFields
<1>2. w.sources \in [Timers -> Nat]
  BY DEF Sound, WindowState
<1> HIDE DEF v
<1>3. \A u \in {"soft", "timeout", "maysend"} : v.sources[u] = IF u \in v.armed THEN 1 ELSE 0
  BY <1>1, <1>2 DEF Sound, Timers
<1>4. \A u \in {"expire", "decode"} : u \in v.armed => v.sources[u] >= 1
  BY <1>1, <1>2 DEF Sound, Timers
<1>5. Sound(v)
  BY <1>1, <1>3, <1>4 DEF Sound
<1> QED
  BY <1>5 DEF v

LEMMA FiredSound ==
    ASSUME NEW w, Sound(w), NEW t \in Timers, w.sources[t] > 0
    PROVE  /\ Sound(Fired(w, t))
           /\ Fired(w, t).delayed = w.delayed
           /\ Fired(w, t).timeoutOurs = w.timeoutOurs
           /\ Fired(w, t).armed = w.armed \ {t}
           /\ Fired(w, t).sources = [w.sources EXCEPT ![t] = @ - 1]
<1> DEFINE v == Fired(w, t)
           a == w.armed \ {t}
           s == [w.sources EXCEPT ![t] = @ - 1]
<1>1. w \in WindowState /\ w.sources \in [Timers -> Nat]
  BY DEF Sound, WindowState
<1>2. a \in SUBSET Timers /\ s \in [Timers -> Nat]
  BY <1>1 DEF WindowState
<1>a. v = [w EXCEPT !.armed = a, !.sources = s]
  BY DEF Fired
<1> HIDE DEF a, s, v
<1>b. /\ v \in WindowState /\ v.delayed = w.delayed /\ v.timeoutOurs = w.timeoutOurs
      /\ v.softExpired = w.softExpired /\ v.armed = a
      /\ v.sources = s
  BY <1>1, <1>2, <1>a DEF WindowState
<1>3. /\ v \in WindowState /\ v.delayed = w.delayed /\ v.timeoutOurs = w.timeoutOurs
      /\ v.softExpired = w.softExpired /\ v.armed = w.armed \ {t}
      /\ v.sources = [w.sources EXCEPT ![t] = @ - 1]
  BY <1>b DEF a, s
<1>4. \A u \in {"soft", "timeout", "maysend"} : v.sources[u] = IF u \in v.armed THEN 1 ELSE 0
  BY <1>1, <1>3 DEF Sound, Timers
<1>5. \A u \in {"expire", "decode"} : u \in v.armed => v.sources[u] >= 1
  BY <1>1, <1>3 DEF Sound, Timers
<1>6. Sound(v)
  BY <1>3, <1>4, <1>5 DEF Sound
<1> QED
  BY <1>3, <1>6 DEF v

----------------------------------------------------------------------------
(* Methods that do not touch the timers.                                    *)

SameTimers(v, w) ==
    /\ v.delayed = w.delayed /\ v.timeoutOurs = w.timeoutOurs
    /\ v.softExpired = w.softExpired
    /\ v.armed = w.armed /\ v.sources = w.sources

LEMMA SameTimersSound ==
    ASSUME NEW w, NEW v \in WindowState, SameTimers(v, w)
    PROVE  (Sound(w) => Sound(v)) /\ (Timed(w) => Timed(v))
BY DEF SameTimers, Sound, Timed

LEMMA ProcessSame ==
    ASSUME NEW w \in WindowState, NEW v \in process_damage_region(w)
    PROVE  v \in WindowState /\ SameTimers(v, w)
<1> DEFINE s == w.sequence + 1
           u == [w EXCEPT !.sequence = s]
           q == Append(w.encodeQueue, s)
<1>1. s \in Nat /\ q \in Seq(Nat)
  BY DEF WindowState
<1>2. v = w \/ v = u \/ v = [u EXCEPT !.encodeQueue = Append(u.encodeQueue, s)]
  BY DEF process_damage_region
<1>3. u \in WindowState /\ SameTimers(u, w) /\ u.encodeQueue = w.encodeQueue
  <2> HIDE DEF s
  <2> QED BY <1>1 DEF WindowState, SameTimers
<1>4. [u EXCEPT !.encodeQueue = q] \in WindowState /\ SameTimers([u EXCEPT !.encodeQueue = q], w)
  <2> HIDE DEF q, u
  <2> QED BY <1>1, <1>3 DEF WindowState, SameTimers
<1> QED
  BY <1>2, <1>3, <1>4 DEF SameTimers

LEMMA RefreshGood ==
    ASSUME NEW w, Good(w), NEW v \in full_quality_refresh(w)
    PROVE  Good(v)
<1>1. v = w \/ v \in process_damage_region(w)
  BY DEF full_quality_refresh
<1> QED
  BY <1>1, ProcessSame, SameTimersSound DEF Good, Sound

----------------------------------------------------------------------------
(* Sending.                                                                 *)

LEMMA SendGood ==
    ASSUME NEW w, Sound(w), w.delayed = "none", "soft" \notin w.armed,
           NEW v \in send_regions(w)
    PROVE  Good(v) /\ "soft" \notin v.armed
<1> DEFINE now == process_damage_region(w)
           fresh(u) == [u EXCEPT !.delayed = "fresh"]
<1>1. ASSUME NEW u \in now
      PROVE  Sound(u) /\ SameTimers(u, w)
  BY <1>1, ProcessSame, SameTimersSound DEF Sound
<1>2. ASSUME NEW u \in now
      PROVE  Good(u) /\ "soft" \notin u.armed
  BY <1>1 DEF Good, Timed, SameTimers
<1>3. ASSUME NEW u \in now
      PROVE  Good(Arm(fresh(u), "expire")) /\ "soft" \notin Arm(fresh(u), "expire").armed
  <2>1. fresh(u) \in WindowState /\ fresh(u).delayed = "fresh" /\ fresh(u).armed = u.armed
        /\ fresh(u).sources = u.sources /\ fresh(u).softExpired = u.softExpired
    BY <1>1, ZenonT(60) DEF WindowState, Sound, Statuses
  <2>2. "timeout" \notin u.armed /\ "soft" \notin u.armed
    BY <1>1 DEF Sound, SameTimers
  <2> HIDE DEF fresh
  <2>3. Sound(fresh(u))
    BY <1>1, <2>1, <2>2 DEF Sound
  <2>4. "expire" \in Timers
    BY DEF Timers
  <2>5. Sound(Arm(fresh(u), "expire"))
    BY <2>3, <2>4, ArmSound
  <2>6. Arm(fresh(u), "expire").armed = u.armed \cup {"expire"}
    BY <2>1, <2>4, ArmFields, ZenonT(60)
  <2>7. Timed(Arm(fresh(u), "expire"))
    <3> DEFINE a == Arm(fresh(u), "expire")
    <3>1. a \in WindowState /\ ("expire" \in a.armed => a.sources["expire"] >= 1)
      BY <2>5 DEF Sound
    <3>2. "expire" \in a.armed
      BY <2>6
    <3> HIDE DEF a
    <3>3. a.sources["expire"] \in Nat
      BY <3>1 DEF WindowState, Timers
    <3>4. a.sources["expire"] > 0
      BY <3>1, <3>2, <3>3
    <3> QED
      BY <3>4 DEF Timed, a
  <2> QED BY <2>2, <2>5, <2>6, <2>7 DEF Good
<1>4. v \in now \/ \E u \in now : v = Arm(fresh(u), "expire")
  BY DEF send_regions
<1> QED
  BY <1>2, <1>3, <1>4

LEMMA DoSendGood ==
    ASSUME NEW w, Sound(w), NEW v \in do_send_delayed(w)
    PROVE  Good(v) /\ "soft" \notin v.armed
<1> DEFINE c == Cancel(w, {"timeout", "soft"})
           n == [c EXCEPT !.delayed = "none", !.turn = 1 - c.turn]
<1>1. {"timeout", "soft"} \in SUBSET Timers
  BY DEF Timers
<1>2. Sound(c) /\ c.armed = w.armed \ {"timeout", "soft"} /\ c.delayed = w.delayed
  BY <1>1, CancelFields, CancelSound, ZenonT(60)
<1>3. CASE w.delayed = "none"
  <2>1. v = c
    BY <1>3 DEF do_send_delayed
  <2> QED BY <1>2, <1>3, <2>1 DEF Good, Timed
<1>4. CASE w.delayed # "none"
  <2>1. v \in send_delayed_regions(n)
    BY <1>4 DEF do_send_delayed
  <2>2. c \in WindowState /\ 1 - c.turn \in {0, 1}
    BY <1>2, SMTT(40) DEF Sound, WindowState
  <2>3. n \in WindowState /\ n.delayed = "none" /\ n.armed = c.armed /\ n.sources = c.sources
        /\ n.softExpired = c.softExpired
    <3> HIDE DEF c
    <3> QED BY <2>2 DEF WindowState, Statuses
  <2>4. Sound(n)
    <3> HIDE DEF n, c
    <3> QED BY <1>2, <2>3 DEF Sound
  <2> HIDE DEF n
  <2>5. v = n \/ v \in send_regions(n)
    BY <2>1 DEF send_delayed_regions
  <2> QED BY <1>2, <2>3, <2>4, <2>5, SendGood DEF Good, Timed
<1> QED
  BY <1>3, <1>4

----------------------------------------------------------------------------
(* Cancelling and batching.                                                 *)

LEMMA CancelDamageGood ==
    ASSUME NEW w, Sound(w), NEW limit \in Nat
    PROVE  /\ Good(cancel_damage(w, limit))
           /\ cancel_damage(w, limit).delayed = "none"
           /\ cancel_damage(w, limit).armed = {}
<1> DEFINE c == Cancel(w, Timers)
           turn == IF w.delayed = "none" THEN c.turn ELSE 1 - c.turn
           pending == {k \in c.encodingPending : k > limit}
           v == [c EXCEPT !.cancelled = limit, !.delayed = "none", !.turn = turn,
                          !.encodingPending = pending]
<1>1. Sound(c) /\ c.armed = w.armed \ Timers
  BY CancelFields, CancelSound, ZenonT(60)
<1>2. c \in WindowState /\ turn \in {0, 1} /\ pending \in SUBSET Nat
  BY <1>1 DEF Sound, WindowState
<1>3. c.armed = {}
  BY <1>1 DEF Sound, WindowState
<1>4. cancel_damage(w, limit) = v
  BY DEF cancel_damage
<1>5. v \in WindowState /\ v.delayed = "none" /\ v.armed = c.armed /\ v.sources = c.sources
      /\ v.softExpired = c.softExpired
  <2> HIDE DEF c, turn, pending
  <2> QED BY <1>2 DEF WindowState, Statuses
<1> HIDE DEF v, c
<1>6. Good(v)
  BY <1>1, <1>3, <1>5 DEF Good, Sound, Timed
<1> QED
  BY <1>3, <1>4, <1>5, <1>6

LEMMA StatisticsResetSame ==
    ASSUME NEW w \in WindowState
    PROVE  statistics_reset(w) \in WindowState /\ SameTimers(statistics_reset(w), w)
BY DEF statistics_reset, WindowState, SameTimers

LEMMA DamageGood ==
    ASSUME NEW w, Good(w)
    PROVE  Good(do_damage(w))
<1> DEFINE n == [w EXCEPT !.delayed = "fresh", !.timeoutOurs = FALSE]
<1>1. "expire" \in Timers
  BY DEF Timers
<1>2. ASSUME NEW u, Sound(u)
      PROVE  Good(Arm(u, "expire"))
  <2>1. u \in WindowState
    BY <1>2 DEF Sound
  <2>2. Sound(Arm(u, "expire"))
    BY <1>1, <1>2, ArmSound
  <2>3. "expire" \in Arm(u, "expire").armed
    BY <1>1, <2>1, ArmFields
  <2>4. Arm(u, "expire").sources["expire"] > 0
    BY <2>2, <2>3 DEF Sound, WindowState, Timers
  <2> QED BY <2>2, <2>4 DEF Good, Timed
<1>3. CASE w.delayed # "none"
  BY <1>2, <1>3 DEF do_damage, merge_damage, Good
<1>4. CASE w.delayed = "none"
  <2>1. n \in WindowState /\ n.delayed = "fresh" /\ n.armed = w.armed /\ n.sources = w.sources
        /\ n.softExpired = w.softExpired
    BY DEF Good, Sound, WindowState, Statuses
  <2> HIDE DEF n
  <2>2. Sound(n)
    BY <1>4, <2>1 DEF Good, Sound
  <2> QED BY <1>2, <1>4, <2>2 DEF do_damage, n
<1> QED
  BY <1>3, <1>4

LEMMA MaySendSound ==
    ASSUME NEW w, Sound(w), "maysend" \notin w.armed, NEW v \in may_send_delayed(w)
    PROVE  /\ Sound(v)
           /\ Timed(w) => Timed(v)
           /\ "soft" \notin w.armed => "soft" \notin v.armed
<1> DEFINE forget == [w EXCEPT !.ackPending = {}]
           reset == [w EXCEPT !.softExpired = 0]
<1>1. "maysend" \in Timers /\ w \in WindowState
  BY DEF Timers, Sound
<1>2. Sound(forget) /\ SameTimers(forget, w)
  <2>1. forget \in WindowState /\ SameTimers(forget, w)
    BY <1>1 DEF WindowState, SameTimers
  <2> QED BY <2>1, SameTimersSound
<1>3. Sound(reset)
  <2>1. reset \in WindowState /\ reset.delayed = w.delayed /\ reset.armed = w.armed
        /\ reset.sources = w.sources /\ reset.softExpired = 0
        /\ reset.timeoutOurs = w.timeoutOurs
    BY <1>1 DEF WindowState
  <2> HIDE DEF reset
  <2> QED BY <2>1, WindowAssumption DEF Sound
<1>4. Sound(Arm(w, "maysend"))
  BY <1>1, ArmSound
<1>5. /\ Timed(w) => Timed(Arm(w, "maysend"))
      /\ "soft" \notin w.armed => "soft" \notin Arm(w, "maysend").armed
  <2>1. /\ Arm(w, "maysend").delayed = w.delayed
        /\ Arm(w, "maysend").timeoutOurs = w.timeoutOurs
        /\ Arm(w, "maysend").armed = w.armed \cup {"maysend"}
        /\ Arm(w, "maysend").sources = [w.sources EXCEPT !["maysend"] = @ + 1]
    BY <1>1, ArmFields
  <2> QED BY <1>1, <2>1 DEF Timed, WindowState, Timers
<1> HIDE DEF forget, reset
<1>6. \/ v = w \/ v = forget \/ v = Arm(w, "maysend")
      \/ v \in do_send_delayed(w) \/ v \in do_send_delayed(reset)
  BY DEF may_send_delayed, forget, reset
<1>7. CASE v = w
  BY <1>7
<1>8. CASE v = forget
  BY <1>1, <1>2, <1>8 DEF SameTimers, Timed
<1>9. CASE v = Arm(w, "maysend")
  BY <1>4, <1>5, <1>9
<1>10. CASE v \in do_send_delayed(w) \/ v \in do_send_delayed(reset)
  BY <1>3, <1>10, DoSendGood DEF Good
<1> QED
  BY <1>6, <1>7, <1>8, <1>9, <1>10

LEMMA SoftExpireGood ==
    ASSUME NEW w, Sound(w), w.delayed # "none", "soft" \notin w.armed,
           NEW v \in soft_expire(w)
    PROVE  Good(v)
<1> DEFINE n == w.softExpired + 1
           next == [w EXCEPT !.softExpired = n]
           ours == [w EXCEPT !.timeoutOurs = TRUE]
<1>1. "soft" \in Timers /\ "timeout" \in Timers /\ w \in WindowState
  BY DEF Timers, Sound
<1>2. PICK limit \in (IF MaxSoftExpired = 0 THEN {0} ELSE 1..MaxSoftExpired) :
         v = IF w.softExpired < limit THEN Arm(next, "soft")
             ELSE IF "timeout" \in w.armed THEN w ELSE Arm(ours, "timeout")
  BY DEF soft_expire
<1>3. CASE w.softExpired < limit
  <2>1. next \in WindowState /\ next.delayed = w.delayed /\ next.armed = w.armed
        /\ next.sources = w.sources /\ next.softExpired = n
        /\ next.timeoutOurs = w.timeoutOurs
    <3>1. n \in Nat
      BY <1>1 DEF WindowState
    <3> HIDE DEF n
    <3> QED BY <1>1, <3>1 DEF WindowState
  <2>2. n <= MaxSoftExpired
    BY <1>1, <1>3, WindowAssumption DEF WindowState
  <2> HIDE DEF next, n
  <2>3. Sound(next)
    BY <2>1, <2>2 DEF Sound
  <2>4. Sound(Arm(next, "soft")) /\ "soft" \in Arm(next, "soft").armed
    BY <1>1, <2>1, <2>3, ArmSound, ArmFields
  <2> QED BY <1>2, <1>3, <2>4 DEF Good, Sound, Timed
<1>4. CASE ~(w.softExpired < limit) /\ "timeout" \in w.armed
  BY <1>2, <1>4 DEF Good, Sound, Timed
<1>5. CASE ~(w.softExpired < limit) /\ "timeout" \notin w.armed
  <2>1. ours \in WindowState /\ ours.delayed = w.delayed /\ ours.armed = w.armed
        /\ ours.sources = w.sources /\ ours.softExpired = w.softExpired
        /\ ours.timeoutOurs = TRUE
    BY <1>1 DEF WindowState
  <2> HIDE DEF ours
  <2>2. Sound(ours)
    BY <2>1 DEF Sound
  <2>3. /\ Sound(Arm(ours, "timeout")) /\ "timeout" \in Arm(ours, "timeout").armed
        /\ Arm(ours, "timeout").timeoutOurs = TRUE
    BY <1>1, <1>5, <2>1, <2>2, ArmSound, ArmFields
  <2>4. v = Arm(ours, "timeout")
    BY <1>2, <1>5
  <2> QED BY <2>3, <2>4 DEF Good, Sound, Timed
<1> QED
  BY <1>3, <1>4, <1>5

LEMMA ExpireGood ==
    ASSUME NEW w, Sound(w), NEW v \in expire_delayed_region(w)
    PROVE  Good(v)
<1> DEFINE c == Cancel(w, {"maysend"})
           e == [c EXCEPT !.delayed = "expired"]
<1>1. CASE w.delayed = "none" \/ "soft" \in w.armed
  <2>1. v = w
    BY <1>1 DEF expire_delayed_region
  <2> QED BY <1>1, <2>1 DEF Good, Timed, Sound
<1>2. CASE ~(w.delayed = "none" \/ "soft" \in w.armed)
  <2>1. {"maysend"} \in SUBSET Timers
    BY DEF Timers
  <2>2. Sound(c) /\ c.delayed = w.delayed /\ c.armed = w.armed \ {"maysend"}
    BY <2>1, CancelFields, CancelSound, ZenonT(60)
  <2>3. e \in WindowState /\ e.delayed = "expired" /\ e.armed = c.armed /\ e.sources = c.sources
        /\ e.softExpired = c.softExpired /\ e.timeoutOurs = c.timeoutOurs
    <3> HIDE DEF c
    <3> QED BY <2>2 DEF Sound, WindowState, Statuses
  <2>4. PICK u \in may_send_delayed(e) :
           v \in IF u.delayed = "none" THEN {u} ELSE soft_expire(u)
    BY <1>2 DEF expire_delayed_region
  <2> HIDE DEF e, c
  <2>5. Sound(e)
    BY <2>2, <2>3 DEF Sound
  <2>6. Sound(u) /\ "soft" \notin u.armed
    BY <1>2, <2>2, <2>3, <2>5, MaySendSound
  <2>7. CASE u.delayed = "none"
    BY <2>4, <2>6, <2>7 DEF Good, Timed
  <2>8. CASE u.delayed # "none"
    BY <2>4, <2>6, <2>8, SoftExpireGood
  <2> QED BY <2>7, <2>8
<1> QED
  BY <1>1, <1>2

LEMMA TimeoutGood ==
    ASSUME NEW w, Good(w), w.sources["timeout"] > 0,
           NEW v \in delayed_region_timeout(Fired(w, "timeout"))
    PROVE  Good(v)
<1> DEFINE f == Fired(w, "timeout")
<1>1. "timeout" \in Timers
  BY DEF Timers
<1>2. Sound(f) /\ f.delayed = w.delayed /\ f.timeoutOurs = w.timeoutOurs
  BY <1>1, FiredSound DEF Good
<1>3. w.timeoutOurs
  BY DEF Good, Sound
<1> HIDE DEF f
<1>4. CASE f.delayed = "none"
  <2>1. v = f
    BY <1>4 DEF delayed_region_timeout, f
  <2> QED BY <1>2, <1>4, <2>1 DEF Good, Timed
<1>5. CASE f.delayed # "none"
  <2>1. v \in full_quality_refresh(cancel_damage(f, f.sequence))
    BY <1>2, <1>3, <1>5 DEF delayed_region_timeout, f
  <2>2. f.sequence \in Nat
    BY <1>2 DEF Sound, WindowState
  <2> QED BY <1>2, <2>1, <2>2, CancelDamageGood, RefreshGood
<1> QED
  BY <1>4, <1>5

----------------------------------------------------------------------------
(* What the methods leave of the encode thread's work.                      *)

\* the numbers of the frames in the queue: the end marker is none of them
Frames == Nat \ {0}

\* nothing is waiting to be sent, and nothing will be from now on
Retired(w) == w.delayed = "none" /\ w.cancelled >= MAX_SEQUENCE

\* what a method may do to the attributes that the encode thread works on, above
\* all that it queues nothing for a window that is cleaned up
Keeps(v, w) ==
    /\ v.closed = w.closed /\ v.ended = w.ended /\ v.gone = w.gone
    /\ v.encodingPending \subseteq w.encodingPending
    /\ w.encodeQueue \in Seq(Frames) => v.encodeQueue \in Seq(Frames)
    /\ w.closed /\ Retired(w) => Retired(v) /\ v.encodeQueue = w.encodeQueue

LEMMA KeepsTransitive ==
    ASSUME NEW u, NEW v, NEW w, Keeps(u, v), Keeps(v, w)
    PROVE  Keeps(u, w)
BY DEF Keeps

LEMMA ArmKeeps ==
    ASSUME NEW w \in WindowState, NEW t
    PROVE  Keeps(Arm(w, t), w)
BY DEF Arm, Keeps, Retired, WindowState

LEMMA CancelKeeps ==
    ASSUME NEW w \in WindowState, NEW T
    PROVE  Keeps(Cancel(w, T), w)
<1> DEFINE s == [t \in Timers |-> IF t \in T \cap w.armed THEN w.sources[t] - 1 ELSE w.sources[t]]
<1>1. Cancel(w, T) = [w EXCEPT !.armed = w.armed \ T, !.sources = s]
  BY DEF Cancel
<1> HIDE DEF s
<1> QED
  BY <1>1 DEF Keeps, Retired, WindowState

LEMMA FiredKeeps ==
    ASSUME NEW w \in WindowState, NEW t
    PROVE  Keeps(Fired(w, t), w)
BY DEF Fired, Keeps, Retired, WindowState

LEMMA ProcessKeeps ==
    ASSUME NEW w \in WindowState, NEW v \in process_damage_region(w)
    PROVE  Keeps(v, w) /\ v.cancelled = w.cancelled
<1> DEFINE s == w.sequence + 1
           u == [w EXCEPT !.sequence = s]
           q == Append(w.encodeQueue, s)
<1>1. \/ v = w \/ v = u
      \/ v = [u EXCEPT !.encodeQueue = q] /\ w.sequence < MaxSequence /\ ~is_cancelled(w, s)
  <2>1. u.encodeQueue = w.encodeQueue
    BY DEF WindowState
  <2>2. w.sequence >= MaxSequence \/ w.sequence < MaxSequence
    BY WindowAssumption DEF WindowState
  <2>3. is_cancelled(u, s) <=> is_cancelled(w, s)
    BY DEF WindowState, is_cancelled
  <2> QED BY <2>1, <2>2, <2>3 DEF process_damage_region
<1>2. s \in Frames
  BY DEF WindowState, Frames
<1>3. w.encodeQueue \in Seq(Frames) => q \in Seq(Frames)
  BY <1>2
<1> HIDE DEF q
<1>4. Keeps(w, w) /\ Keeps(u, w) /\ u.cancelled = w.cancelled
  BY DEF Keeps, Retired, WindowState
<1>5. CASE v = [u EXCEPT !.encodeQueue = q] /\ w.sequence < MaxSequence /\ ~is_cancelled(w, s)
  <2>1. ~Retired(w)
    BY <1>5, WindowAssumption DEF Retired, WindowState, is_cancelled, MAX_SEQUENCE
  <2>2. /\ v.closed = w.closed /\ v.ended = w.ended /\ v.gone = w.gone
        /\ v.encodingPending = w.encodingPending /\ v.encodeQueue = q
        /\ v.cancelled = w.cancelled
    BY <1>5 DEF WindowState
  <2> QED BY <1>3, <2>1, <2>2 DEF Keeps
<1> QED
  BY <1>1, <1>4, <1>5

LEMMA RefreshKeeps ==
    ASSUME NEW w \in WindowState, NEW v \in full_quality_refresh(w)
    PROVE  Keeps(v, w)
<1>1. v = w \/ v \in process_damage_region(w)
  BY DEF full_quality_refresh
<1> QED
  BY <1>1, ProcessKeeps DEF Keeps

LEMMA SendKeeps ==
    ASSUME NEW w \in WindowState, ~is_cancelled(w, MAX_SEQUENCE), NEW v \in send_regions(w)
    PROVE  Keeps(v, w)
<1> DEFINE now == process_damage_region(w)
           fresh(u) == [u EXCEPT !.delayed = "fresh"]
<1>1. ASSUME NEW u \in now PROVE Keeps(u, w) /\ u \in WindowState
  BY <1>1, ProcessKeeps, ProcessSame
<1>2. ASSUME NEW u \in now PROVE Keeps(Arm(fresh(u), "expire"), w)
  <2>1. /\ fresh(u) \in WindowState
        /\ fresh(u).closed = u.closed /\ fresh(u).ended = u.ended /\ fresh(u).gone = u.gone
        /\ fresh(u).encodingPending = u.encodingPending /\ fresh(u).encodeQueue = u.encodeQueue
    BY <1>1, <1>2 DEF WindowState, Statuses
  <2>2. ~Retired(w)
    BY DEF Retired, is_cancelled
  <2> HIDE DEF fresh
  <2>3. Keeps(fresh(u), w)
    BY <1>1, <1>2, <2>1, <2>2 DEF Keeps
  <2> QED BY <2>1, <2>3, ArmKeeps, KeepsTransitive
<1>3. v \in now \/ \E u \in now : v = Arm(fresh(u), "expire")
  BY DEF send_regions
<1> QED
  BY <1>1, <1>2, <1>3

LEMMA DoSendKeeps ==
    ASSUME NEW w, Sound(w), NEW v \in do_send_delayed(w)
    PROVE  Keeps(v, w)
<1> DEFINE c == Cancel(w, {"timeout", "soft"})
           n == [c EXCEPT !.delayed = "none", !.turn = 1 - c.turn]
<1>1. {"timeout", "soft"} \in SUBSET Timers /\ w \in WindowState
  BY DEF Timers, Sound
<1>2. c \in WindowState /\ Keeps(c, w)
  BY <1>1, CancelFields, CancelKeeps, ZenonT(60)
<1>3. CASE w.delayed = "none"
  <2>1. v = c
    BY <1>3 DEF do_send_delayed
  <2> QED BY <1>2, <2>1
<1>4. CASE w.delayed # "none"
  <2>1. v \in send_delayed_regions(n)
    BY <1>4 DEF do_send_delayed
  <2>2. 1 - c.turn \in {0, 1}
    BY <1>2, SMTT(40) DEF WindowState
  <2>3. /\ n \in WindowState
        /\ n.closed = c.closed /\ n.ended = c.ended /\ n.gone = c.gone
        /\ n.encodingPending = c.encodingPending /\ n.encodeQueue = c.encodeQueue
    <3> HIDE DEF c
    <3> QED BY <1>2, <2>2 DEF WindowState, Statuses
  <2> HIDE DEF n, c
  <2>4. Keeps(n, w)
    BY <1>2, <1>4, <2>3 DEF Keeps, Retired
  <2>5. v = n \/ (~is_cancelled(n, MAX_SEQUENCE) /\ v \in send_regions(n))
    BY <2>1 DEF send_delayed_regions
  <2> QED BY <2>3, <2>4, <2>5, SendKeeps, KeepsTransitive
<1> QED
  BY <1>3, <1>4

LEMMA CancelDamageKeeps ==
    ASSUME NEW w \in WindowState, NEW limit, ~w.closed \/ w.delayed # "none"
    PROVE  Keeps(cancel_damage(w, limit), w)
<1> DEFINE c == Cancel(w, Timers)
           turn == IF w.delayed = "none" THEN c.turn ELSE 1 - c.turn
           pending == {k \in c.encodingPending : k > limit}
           v == [c EXCEPT !.cancelled = limit, !.delayed = "none", !.turn = turn,
                          !.encodingPending = pending]
           s == [t \in Timers |-> IF t \in Timers \cap w.armed THEN w.sources[t] - 1
                                                               ELSE w.sources[t]]
           a == w.armed \ Timers
<1>1. cancel_damage(w, limit) = v
  BY DEF cancel_damage
<1>2. c = [w EXCEPT !.armed = a, !.sources = s]
  BY DEF Cancel
<1>3. pending \subseteq c.encodingPending
  OBVIOUS
<1> HIDE DEF s, a, turn, pending
<1>4. /\ v.closed = w.closed /\ v.ended = w.ended /\ v.gone = w.gone
      /\ v.encodingPending = pending /\ v.encodeQueue = w.encodeQueue
      /\ c.encodingPending = w.encodingPending
  BY <1>2 DEF WindowState
<1> QED
  BY <1>1, <1>3, <1>4 DEF Keeps, Retired

LEMMA StatisticsResetKeeps ==
    ASSUME NEW w \in WindowState
    PROVE  Keeps(statistics_reset(w), w)
BY DEF statistics_reset, Keeps, Retired, WindowState

LEMMA DamageKeeps ==
    ASSUME NEW w \in WindowState, ~w.closed
    PROVE  Keeps(do_damage(w), w)
<1> DEFINE n == [w EXCEPT !.delayed = "fresh", !.timeoutOurs = FALSE]
<1>1. CASE w.delayed # "none"
  BY <1>1, ArmKeeps DEF do_damage, merge_damage, Keeps
<1>2. CASE w.delayed = "none"
  <2>1. n \in WindowState /\ Keeps(n, w)
    BY DEF WindowState, Statuses, Keeps
  <2> HIDE DEF n
  <2>2. do_damage(w) = Arm(n, "expire")
    BY <1>2 DEF do_damage, n
  <2> QED BY <2>1, <2>2, ArmKeeps, KeepsTransitive
<1> QED
  BY <1>1, <1>2

LEMMA MaySendKeeps ==
    ASSUME NEW w, Sound(w), NEW v \in may_send_delayed(w)
    PROVE  Keeps(v, w)
<1> DEFINE forget == [w EXCEPT !.ackPending = {}]
           reset == [w EXCEPT !.softExpired = 0]
<1>1. w \in WindowState
  BY DEF Sound
<1>2. Keeps(forget, w) /\ Keeps(w, w)
  BY <1>1 DEF Keeps, Retired, WindowState
<1>3. Sound(reset) /\ Keeps(reset, w)
  <2>1. reset \in WindowState /\ reset.delayed = w.delayed /\ reset.armed = w.armed
        /\ reset.sources = w.sources /\ reset.softExpired = 0
        /\ reset.timeoutOurs = w.timeoutOurs
    BY <1>1 DEF WindowState
  <2>2. Keeps(reset, w)
    BY <1>1 DEF Keeps, Retired, WindowState
  <2> HIDE DEF reset
  <2> QED BY <2>1, <2>2, WindowAssumption DEF Sound
<1> HIDE DEF forget, reset
<1>4. \/ v = w \/ v = forget \/ v = Arm(w, "maysend")
      \/ v \in do_send_delayed(w) \/ v \in do_send_delayed(reset)
  BY DEF may_send_delayed, forget, reset
<1> QED
  BY <1>1, <1>2, <1>3, <1>4, ArmKeeps, DoSendKeeps, KeepsTransitive

LEMMA SoftExpireKeeps ==
    ASSUME NEW w \in WindowState, NEW v \in soft_expire(w)
    PROVE  Keeps(v, w)
<1> DEFINE n == w.softExpired + 1
           next == [w EXCEPT !.softExpired = n]
           ours == [w EXCEPT !.timeoutOurs = TRUE]
<1>1. v = w \/ v = Arm(next, "soft") \/ v = Arm(ours, "timeout")
  BY DEF soft_expire
<1>2. n \in Nat
  BY DEF WindowState
<1> HIDE DEF n
<1>3. /\ next \in WindowState /\ ours \in WindowState
      /\ Keeps(next, w) /\ Keeps(ours, w) /\ Keeps(w, w)
  BY <1>2 DEF WindowState, Keeps, Retired
<1> HIDE DEF next, ours
<1> QED
  BY <1>1, <1>3, ArmKeeps, KeepsTransitive

LEMMA ExpireKeeps ==
    ASSUME NEW w, Sound(w), NEW v \in expire_delayed_region(w)
    PROVE  Keeps(v, w)
<1> DEFINE c == Cancel(w, {"maysend"})
           e == [c EXCEPT !.delayed = "expired"]
<1>1. CASE w.delayed = "none" \/ "soft" \in w.armed
  BY <1>1 DEF expire_delayed_region, Keeps
<1>2. CASE ~(w.delayed = "none" \/ "soft" \in w.armed)
  <2>1. {"maysend"} \in SUBSET Timers /\ w \in WindowState
    BY DEF Timers, Sound
  <2>2. Sound(c) /\ c.armed = w.armed \ {"maysend"} /\ Keeps(c, w)
    BY <2>1, CancelFields, CancelSound, CancelKeeps, ZenonT(60)
  <2>3. /\ e \in WindowState /\ e.delayed = "expired" /\ e.armed = c.armed
        /\ e.sources = c.sources /\ e.softExpired = c.softExpired
        /\ e.timeoutOurs = c.timeoutOurs
        /\ e.closed = c.closed /\ e.ended = c.ended /\ e.gone = c.gone
        /\ e.encodingPending = c.encodingPending /\ e.encodeQueue = c.encodeQueue
    <3> HIDE DEF c
    <3> QED BY <2>2 DEF Sound, WindowState, Statuses
  <2>4. PICK u \in may_send_delayed(e) :
           v \in IF u.delayed = "none" THEN {u} ELSE soft_expire(u)
    BY <1>2 DEF expire_delayed_region
  <2> HIDE DEF e, c
  <2>5. Sound(e) /\ "maysend" \notin e.armed
    BY <2>2, <2>3 DEF Sound
  <2>6. Keeps(e, w)
    BY <1>2, <2>2, <2>3 DEF Keeps, Retired
  <2>7. u \in WindowState /\ Keeps(u, w)
    BY <2>4, <2>5, <2>6, MaySendSound, MaySendKeeps, KeepsTransitive DEF Sound
  <2> QED BY <2>4, <2>7, SoftExpireKeeps, KeepsTransitive
<1> QED
  BY <1>1, <1>2

LEMMA TimeoutKeeps ==
    ASSUME NEW w, Sound(w), NEW v \in delayed_region_timeout(w)
    PROVE  Keeps(v, w)
<1> DEFINE c == cancel_damage(w, w.sequence)
<1>1. w \in WindowState /\ w.sequence \in Nat
  BY DEF Sound, WindowState
<1>2. CASE w.delayed = "none" \/ ~w.timeoutOurs
  BY <1>2 DEF delayed_region_timeout, Keeps
<1>3. CASE ~(w.delayed = "none" \/ ~w.timeoutOurs)
  <2>1. v \in full_quality_refresh(c)
    BY <1>3 DEF delayed_region_timeout
  <2>2. c \in WindowState /\ Keeps(c, w)
    BY <1>1, <1>3, CancelDamageGood, CancelDamageKeeps DEF Good, Sound
  <2> QED BY <2>1, <2>2, RefreshKeeps, KeepsTransitive
<1> QED
  BY <1>2, <1>3

----------------------------------------------------------------------------
(* The inductive invariant, and the actions.                                *)

Threads ==
    /\ encoding \in Nat
    /\ wire \subseteq Nat
    /\ ackThread \in Statuses \cup {"idle"}
    /\ idle \in Nat

IndInv == Good(ws) /\ Threads

LEMMA InitGood == Init => IndInv
<1> SUFFICES ASSUME Init PROVE IndInv
  OBVIOUS
<1>1. ws \in WindowState
  BY DEF Init, WindowState, Statuses, Timers
<1>2. /\ ws.delayed = "none" /\ ws.softExpired = 0 /\ ws.armed = {}
      /\ ws.sources = [t \in Timers |-> 0]
  BY DEF Init
<1>3. Good(ws)
  BY <1>1, <1>2, WindowAssumption DEF Good, Sound, Timed, Timers
<1>4. Threads
  BY DEF Init, Threads
<1> QED
  BY <1>3, <1>4 DEF IndInv

\* the calls from the server
LEMMA ServerGood ==
    ASSUME IndInv,
           Damage \/ Refresh \/ Suspend \/ Resume \/ GoIdle \/ Unmap \/ Map \/ Cleanup
    PROVE  IndInv'
<1> DEFINE c == cancel_damage(ws, ws.sequence)
           r == statistics_reset(c)
<1>1. Good(ws) /\ Sound(ws) /\ ws \in WindowState /\ ws.sequence \in Nat
  BY DEF IndInv, Good, Sound, WindowState
<1>2. Good(c) /\ c \in WindowState
  BY <1>1, CancelDamageGood DEF Good, Sound
<1>3. Good(r) /\ r \in WindowState
  <2> HIDE DEF c
  <2> QED BY <1>2, StatisticsResetSame, SameTimersSound DEF Good
<1>4. Threads'
  BY DEF IndInv, Threads, Damage, Refresh, Suspend, Resume, GoIdle, Unmap, Map, Cleanup
<1>5. ASSUME NEW w, Good(w), NEW b \in BOOLEAN
      PROVE  Good([w EXCEPT !.suspended = b]) /\ Good([w EXCEPT !.locked = b])
  <2>1. /\ [w EXCEPT !.suspended = b] \in WindowState
        /\ SameTimers([w EXCEPT !.suspended = b], w)
    BY <1>5 DEF Good, Sound, WindowState, SameTimers
  <2>2. /\ [w EXCEPT !.locked = b] \in WindowState
        /\ SameTimers([w EXCEPT !.locked = b], w)
    BY <1>5 DEF Good, Sound, WindowState, SameTimers
  <2> QED BY <1>5, <2>1, <2>2, SameTimersSound DEF Good
<1>6. CASE Damage
  BY <1>1, <1>4, <1>6, DamageGood DEF IndInv, Damage
<1>7. CASE Refresh
  <2>1. ws' = c \/ ws' = do_damage(c)
    BY <1>7 DEF Refresh
  <2> QED BY <1>2, <1>4, <2>1, DamageGood DEF IndInv
<1>8. CASE Suspend
  <2>1. ws' = [r EXCEPT !.suspended = TRUE]
    BY <1>8 DEF Suspend
  <2> QED BY <1>3, <1>4, <1>5, <2>1 DEF IndInv
<1>9. CASE Resume
  <2>1. ws' = do_damage([r EXCEPT !.suspended = FALSE])
    BY <1>9 DEF Resume
  <2> QED BY <1>3, <1>4, <1>5, <2>1, DamageGood DEF IndInv
<1>10. CASE GoIdle
  BY <1>1, <1>4, <1>5, <1>10 DEF IndInv, GoIdle
<1>11. CASE Unmap
  <2>1. ws' = [r EXCEPT !.locked = TRUE]
    BY <1>11 DEF Unmap
  <2> QED BY <1>3, <1>4, <1>5, <2>1 DEF IndInv
<1>12. CASE Map
  BY <1>1, <1>4, <1>5, <1>12 DEF IndInv, Map
<1>13. CASE Cleanup
  <2> DEFINE m == cancel_damage(ws, MAX_SEQUENCE)
             q == Append(m.encodeQueue, ENCODE_ENDED)
  <2>1. MAX_SEQUENCE \in Nat
    BY WindowAssumption DEF MAX_SEQUENCE
  <2>2. Good(m) /\ m.delayed = "none" /\ m.armed = {}
    BY <1>1, <2>1, CancelDamageGood
  <2>3. ws' = [m EXCEPT !.closed = TRUE, !.softExpired = 0, !.suspended = FALSE,
                        !.sequence = 1, !.packetSequence = 1, !.encodeQueue = q]
    BY <1>13 DEF Cleanup
  <2> HIDE DEF m
  <2>4. m \in WindowState /\ q \in Seq(Nat)
    BY <2>2 DEF Good, Sound, WindowState, ENCODE_ENDED
  <2> HIDE DEF q
  <2>5. ws' \in WindowState /\ ws'.delayed = "none" /\ ws'.armed = {}
        /\ ws'.sources = m.sources /\ ws'.softExpired = 0
    BY <2>2, <2>3, <2>4 DEF WindowState
  <2>6. Good(ws')
    BY <2>2, <2>5, WindowAssumption DEF Good, Sound, Timed
  <2> QED BY <1>4, <2>6 DEF IndInv
<1> QED
  BY <1>6, <1>7, <1>8, <1>9, <1>10, <1>11, <1>12, <1>13

\* the timers and idle callbacks of the main loop
LEMMA TimersGood ==
    ASSUME IndInv,
           \/ ExpireTimer \/ SoftTimer \/ TimeoutTimer \/ MaySendTimer
           \/ DecodeErrorTimer \/ IdleMaySend \/ UICleanup
    PROVE  IndInv'
<1>1. Good(ws) /\ Sound(ws) /\ ws \in WindowState
  BY DEF IndInv, Good, Sound
<1>2. Threads'
  BY DEF IndInv, Threads, ExpireTimer, SoftTimer, TimeoutTimer, MaySendTimer,
         DecodeErrorTimer, IdleMaySend, UICleanup
<1>3. /\ "expire" \in Timers /\ "soft" \in Timers /\ "maysend" \in Timers
      /\ "decode" \in Timers /\ {"maysend"} \in SUBSET Timers
  BY DEF Timers
<1>4. CASE ExpireTimer
  BY <1>1, <1>2, <1>3, <1>4, FiredSound, ExpireGood DEF IndInv, ExpireTimer
<1>5. CASE SoftTimer
  BY <1>1, <1>2, <1>3, <1>5, FiredSound, DoSendGood DEF IndInv, SoftTimer
<1>6. CASE TimeoutTimer
  BY <1>1, <1>2, <1>6, TimeoutGood DEF IndInv, TimeoutTimer
<1>7. CASE MaySendTimer
  <2> DEFINE f == Fired(ws, "maysend")
  <2>1. /\ Sound(f) /\ "maysend" \notin f.armed /\ f.delayed = ws.delayed
        /\ f.timeoutOurs = ws.timeoutOurs
        /\ f.sources = [ws.sources EXCEPT !["maysend"] = @ - 1]
        /\ ws' \in may_send_delayed(f)
    BY <1>1, <1>3, <1>7, FiredSound DEF MaySendTimer
  <2> HIDE DEF f
  <2>2. Timed(f)
    BY <1>1, <1>3, <2>1 DEF Good, Timed, WindowState
  <2> QED BY <1>2, <2>1, <2>2, MaySendSound DEF IndInv, Good
<1>8. CASE DecodeErrorTimer
  <2> DEFINE f == Fired(ws, "decode")
  <2>1. /\ Sound(f) /\ f.delayed = ws.delayed /\ f.timeoutOurs = ws.timeoutOurs
        /\ f.sources = [ws.sources EXCEPT !["decode"] = @ - 1]
        /\ ws' = f \/ ws' \in full_quality_refresh(f)
    BY <1>1, <1>3, <1>8, FiredSound DEF DecodeErrorTimer
  <2> HIDE DEF f
  <2>2. Good(f)
    BY <1>1, <1>3, <2>1 DEF Good, Timed, WindowState
  <2> QED BY <1>2, <2>1, <2>2, RefreshGood DEF IndInv
<1>9. CASE IdleMaySend
  <2> DEFINE c == Cancel(ws, {"maysend"})
  <2>1. /\ Sound(c) /\ "maysend" \notin c.armed /\ c.delayed = ws.delayed
        /\ c.timeoutOurs = ws.timeoutOurs
        /\ c.sources = [t \in Timers |-> IF t \in {"maysend"} \cap ws.armed
                                         THEN ws.sources[t] - 1 ELSE ws.sources[t]]
        /\ ws' \in may_send_delayed(c)
    BY <1>1, <1>3, <1>9, CancelFields, CancelSound DEF IdleMaySend
  <2> HIDE DEF c
  <2>2. Timed(c)
    BY <1>1, <2>1 DEF Good, Timed, Timers
  <2> QED BY <1>2, <2>1, <2>2, MaySendSound DEF IndInv, Good
<1>10. CASE UICleanup
  <2>1. ws' \in WindowState /\ SameTimers(ws', ws)
    BY <1>1, <1>10 DEF UICleanup, WindowState, SameTimers
  <2> QED BY <1>1, <1>2, <2>1, SameTimersSound DEF IndInv, Good
<1> QED
  BY <1>4, <1>5, <1>6, <1>7, <1>8, <1>9, <1>10

\* the encode thread
LEMMA EncodeGood ==
    ASSUME IndInv, EncodeSkip \/ EncodeStart \/ EncodeDrop \/ EncodeDone \/ EncodeEnded
    PROVE  IndInv'
<1> DEFINE q == Tail(ws.encodeQueue)
           h == Head(ws.encodeQueue)
           n == ws.packetSequence + 1
           k == ws.packetSequence
<1>1. Good(ws) /\ ws \in WindowState
  BY DEF IndInv, Good, Sound
<1>2. ws.encodeQueue # <<>> => q \in Seq(Nat) /\ h \in Nat
  BY <1>1 DEF WindowState
<1>3. n \in Nat /\ k \in Nat
  BY <1>1 DEF WindowState
<1>4. Threads'
  BY <1>2, <1>3 DEF IndInv, Threads, EncodeSkip, EncodeStart, EncodeDrop, EncodeDone, EncodeEnded
<1>5. encoding \in Nat
  BY DEF IndInv, Threads
<1>6. SUFFICES ws' \in WindowState /\ SameTimers(ws', ws)
  BY <1>1, <1>4, SameTimersSound DEF IndInv, Good
<1>7. CASE EncodeSkip
  <2>1. q \in Seq(Nat) /\ ws' = [ws EXCEPT !.encodeQueue = q]
    BY <1>2, <1>7 DEF EncodeSkip
  <2> QED BY <1>1, <2>1 DEF WindowState, SameTimers
<1>8. CASE EncodeStart
  <2>1. /\ q \in Seq(Nat) /\ h \in Nat
        /\ ws' = [ws EXCEPT !.encodeQueue = q, !.encodingPending = ws.encodingPending \cup {h}]
    BY <1>2, <1>8 DEF EncodeStart
  <2> HIDE DEF q, h
  <2> QED BY <1>1, <2>1 DEF WindowState, SameTimers
<1>9. CASE EncodeDrop
  BY <1>1, <1>9 DEF EncodeDrop, WindowState, SameTimers
<1>10. CASE EncodeDone
  <2>1. ws' = [ws EXCEPT !.encodingPending = ws.encodingPending \ {encoding},
                         !.ackPending = ws.ackPending \cup {k},
                         !.packetSequence = n]
    BY <1>10 DEF EncodeDone
  <2> HIDE DEF n, k
  <2> QED BY <1>1, <1>3, <2>1 DEF WindowState, SameTimers
<1>11. CASE EncodeEnded
  <2>1. q \in Seq(Nat) /\ ws' = [ws EXCEPT !.encodeQueue = q, !.ended = TRUE]
    BY <1>2, <1>11 DEF EncodeEnded
  <2> HIDE DEF q
  <2> QED BY <1>1, <2>1 DEF WindowState, SameTimers
<1> QED
  BY <1>7, <1>8, <1>9, <1>10, <1>11

\* the network thread, and what the client may do
LEMMA AckGood ==
    ASSUME IndInv,
           \/ \E p \in Packets, e \in BOOLEAN : AckBegin(p, e)
           \/ AckEnd
           \/ \E p \in Packets : AckLost(p) \/ ExpireMissingAck(p)
    PROVE  IndInv'
<1>1. Good(ws) /\ Sound(ws) /\ ws \in WindowState
  BY DEF IndInv, Good, Sound
<1>2. ASSUME NEW w, Good(w), NEW p
      PROVE  Good([w EXCEPT !.ackPending = @ \ {p}])
  <2>1. /\ [w EXCEPT !.ackPending = @ \ {p}] \in WindowState
        /\ SameTimers([w EXCEPT !.ackPending = @ \ {p}], w)
    BY <1>2 DEF Good, Sound, WindowState, SameTimers
  <2> QED BY <1>2, <2>1, SameTimersSound DEF Good
<1>3. ASSUME NEW p \in Packets, NEW e \in BOOLEAN, AckBegin(p, e)
      PROVE  IndInv'
  <2> DEFINE d == Arm(ws, "decode")
  <2>1. "decode" \in Timers
    BY DEF Timers
  <2>2. Sound(d) /\ d.delayed = ws.delayed /\ d.timeoutOurs = ws.timeoutOurs
        /\ d.sources = [ws.sources EXCEPT !["decode"] = @ + 1]
    BY <1>1, <2>1, ArmSound, ArmFields
  <2>3. Good(d)
    <3> HIDE DEF d
    <3> QED BY <1>1, <2>1, <2>2 DEF Good, Timed, WindowState
  <2>4. \/ ws' = ws
        \/ ws' = [ws EXCEPT !.ackPending = @ \ {p}]
        \/ ws' = [d EXCEPT !.ackPending = @ \ {p}]
    BY <1>3 DEF AckBegin
  <2>5. Good(ws')
    <3> HIDE DEF d
    <3> QED BY <1>1, <1>2, <2>3, <2>4
  <2>6. ws.delayed \in Statuses
    BY <1>1 DEF WindowState
  <2>7. Threads'
    BY <1>3, <2>6 DEF AckBegin, IndInv, Threads
  <2> QED BY <2>5, <2>7 DEF IndInv
<1>4. CASE AckEnd
  <2>1. ws' = ws \/ ws' = [ws EXCEPT !.softExpired = 0]
    BY <1>4 DEF AckEnd
  <2>2. [ws EXCEPT !.softExpired = 0] \in WindowState
    BY <1>1 DEF WindowState
  <2>3. Good(ws')
    <3>1. CASE ws' = [ws EXCEPT !.softExpired = 0]
      <4>1. /\ ws' \in WindowState /\ ws'.delayed = ws.delayed /\ ws'.armed = ws.armed
            /\ ws'.sources = ws.sources /\ ws'.softExpired = 0
            /\ ws'.timeoutOurs = ws.timeoutOurs
        BY <1>1, <2>2, <3>1 DEF WindowState
      <4> QED BY <1>1, <4>1, WindowAssumption DEF Good, Sound, Timed
    <3> QED BY <1>1, <2>1, <3>1
  <2>4. Threads'
    BY <1>4 DEF AckEnd, IndInv, Threads
  <2> QED BY <2>3, <2>4 DEF IndInv
<1>5. ASSUME NEW p \in Packets, AckLost(p) \/ ExpireMissingAck(p)
      PROVE  IndInv'
  <2>1. Threads'
    BY <1>5 DEF AckLost, ExpireMissingAck, IndInv, Threads
  <2>2. ws' = ws \/ ws' = [ws EXCEPT !.ackPending = @ \ {p}]
    BY <1>5 DEF AckLost, ExpireMissingAck
  <2> QED BY <1>1, <1>2, <2>1, <2>2 DEF IndInv
<1> QED
  BY <1>3, <1>4, <1>5

LEMMA NextGood == IndInv /\ [Next]_vars => IndInv'
<1> SUFFICES ASSUME IndInv, [Next]_vars PROVE IndInv'
  OBVIOUS
<1>1. CASE Damage \/ Refresh \/ Suspend \/ Resume \/ GoIdle \/ Unmap \/ Map \/ Cleanup
  BY <1>1, ServerGood
<1>2. CASE \/ ExpireTimer \/ SoftTimer \/ TimeoutTimer \/ MaySendTimer
           \/ DecodeErrorTimer \/ IdleMaySend \/ UICleanup
  BY <1>2, TimersGood
<1>3. CASE EncodeSkip \/ EncodeStart \/ EncodeDrop \/ EncodeDone \/ EncodeEnded
  BY <1>3, EncodeGood
<1>4. CASE \/ \E p \in Packets, e \in BOOLEAN : AckBegin(p, e)
           \/ AckEnd
           \/ \E p \in Packets : AckLost(p) \/ ExpireMissingAck(p)
  BY <1>4, AckGood
<1>5. CASE UNCHANGED vars
  BY <1>5 DEF IndInv, Threads, vars
<1> QED
  BY <1>1, <1>2, <1>3, <1>4, <1>5 DEF Next

LEMMA Invariance == Spec => []IndInv
BY InitGood, NextGood, PTL DEF Spec

----------------------------------------------------------------------------
(* The inductive invariant of the encode thread's work, and the actions.    *)

\* frames are queued for a window that is not cleaned up only, the end marker is
\* the last of the queue, and the encode thread stops there
Draining ==
    /\ ~ws.closed => ws.encodeQueue \in Seq(Frames) /\ ~ws.ended
    /\ ws.closed => Retired(ws)
    /\ ws.closed /\ ~ws.ended =>
         \E q \in Seq(Frames) : ws.encodeQueue = Append(q, ENCODE_ENDED)
    /\ ws.ended => ws.encodeQueue = <<>> /\ encoding = 0
    /\ ws.gone => ws.ended

\* the frame that is being encoded is the only one that is pending
Pending == ws.encodingPending \subseteq {encoding} \ {ENCODE_ENDED}

DrainInv == IndInv /\ Draining /\ Pending

LEMMA KeepsDrained ==
    ASSUME DrainInv, Keeps(ws', ws), encoding' = encoding
    PROVE  (Draining /\ Pending)'
<1>1. Pending'
  BY DEF DrainInv, Pending, Keeps
<1>2. /\ ws'.closed = ws.closed /\ ws'.ended = ws.ended /\ ws'.gone = ws.gone
      /\ ws.encodeQueue \in Seq(Frames) => ws'.encodeQueue \in Seq(Frames)
      /\ ws.closed /\ Retired(ws) => Retired(ws') /\ ws'.encodeQueue = ws.encodeQueue
  BY DEF Keeps
<1>3. Draining
  BY DEF DrainInv
<1>4. CASE ws.closed
  <2>1. /\ ws'.closed /\ Retired(ws') /\ ws'.encodeQueue = ws.encodeQueue
        /\ (ws'.ended <=> ws.ended) /\ (ws'.gone <=> ws.gone)
    BY <1>2, <1>3, <1>4, SMT DEF Draining
  <2>2. /\ ws.ended => ws.encodeQueue = <<>> /\ encoding = 0
        /\ ws.gone => ws.ended
        /\ ~ws.ended => \E q \in Seq(Frames) : ws.encodeQueue = Append(q, ENCODE_ENDED)
    BY <1>3, <1>4 DEF Draining
  <2> QED BY <2>1, <2>2, <1>1, Zenon DEF Draining
<1>5. CASE ~ws.closed
  <2>1. ~ws'.closed /\ ~ws'.ended /\ ws'.encodeQueue \in Seq(Frames) /\ ~ws'.gone
    BY <1>2, <1>3, <1>5, SMT DEF Draining
  <2> QED BY <1>1, <2>1, Zenon DEF Draining
<1> QED
  BY <1>1, <1>4, <1>5

LEMMA InitDrained == Init => DrainInv
BY InitGood DEF Init, DrainInv, Draining, Pending, Frames

LEMMA ServerDrained ==
    ASSUME DrainInv,
           Damage \/ Refresh \/ Suspend \/ Resume \/ GoIdle \/ Unmap \/ Map
    PROVE  (Draining /\ Pending)'
<1> DEFINE c == cancel_damage(ws, ws.sequence)
           r == statistics_reset(c)
<1>1. /\ Sound(ws) /\ ws \in WindowState /\ ws.sequence \in Nat /\ ~ws.closed
      /\ encoding' = encoding
  BY DEF DrainInv, IndInv, Good, Sound, WindowState,
         Damage, Refresh, Suspend, Resume, GoIdle, Unmap, Map
<1>2. c \in WindowState /\ Keeps(c, ws)
  BY <1>1, CancelDamageGood, CancelDamageKeeps DEF Good, Sound
<1>3. r \in WindowState /\ Keeps(r, ws)
  <2> HIDE DEF c
  <2> QED BY <1>2, StatisticsResetSame, StatisticsResetKeeps, KeepsTransitive
<1>4. ASSUME NEW w \in WindowState, NEW b \in BOOLEAN
      PROVE  /\ [w EXCEPT !.suspended = b] \in WindowState
             /\ Keeps([w EXCEPT !.suspended = b], w)
             /\ Keeps([w EXCEPT !.locked = b], w)
  BY DEF WindowState, Keeps, Retired
<1>5. ASSUME NEW w \in WindowState, Keeps(w, ws)
      PROVE  Keeps(do_damage(w), ws)
  <2>1. ~w.closed
    BY <1>1, <1>5 DEF Keeps
  <2> QED BY <1>5, <2>1, DamageKeeps, KeepsTransitive
<1>6. Keeps(ws, ws)
  BY DEF Keeps
<1> HIDE DEF r, c
<1>7. CASE Damage
  BY <1>1, <1>5, <1>6, <1>7, KeepsDrained DEF Damage
<1>8. CASE Refresh
  <2>1. ws' = c \/ ws' = do_damage(c)
    BY <1>8 DEF Refresh, c
  <2> QED BY <1>1, <1>2, <1>5, <2>1, KeepsDrained
<1>9. CASE Suspend
  <2>1. ws' = [r EXCEPT !.suspended = TRUE]
    BY <1>9 DEF Suspend, r, c
  <2> QED BY <1>1, <1>3, <1>4, <2>1, KeepsTransitive, KeepsDrained
<1>10. CASE Resume
  <2>1. ws' = do_damage([r EXCEPT !.suspended = FALSE])
    BY <1>10 DEF Resume, r, c
  <2>2. /\ [r EXCEPT !.suspended = FALSE] \in WindowState
        /\ Keeps([r EXCEPT !.suspended = FALSE], ws)
    BY <1>3, <1>4, KeepsTransitive
  <2> QED BY <1>1, <1>5, <2>1, <2>2, KeepsDrained
<1>11. CASE GoIdle
  BY <1>1, <1>4, <1>11, KeepsDrained DEF GoIdle
<1>12. CASE Unmap
  <2>1. ws' = [r EXCEPT !.locked = TRUE]
    BY <1>12 DEF Unmap, r, c
  <2> QED BY <1>1, <1>3, <1>4, <2>1, KeepsTransitive, KeepsDrained
<1>13. CASE Map
  BY <1>1, <1>4, <1>13, KeepsDrained DEF Map
<1> QED
  BY <1>7, <1>8, <1>9, <1>10, <1>11, <1>12, <1>13

LEMMA CleanupDrained ==
    ASSUME DrainInv, Cleanup
    PROVE  (Draining /\ Pending)'
<1> DEFINE m == cancel_damage(ws, MAX_SEQUENCE)
           q == Append(m.encodeQueue, ENCODE_ENDED)
<1>1. /\ Sound(ws) /\ ws \in WindowState /\ ~ws.closed /\ MAX_SEQUENCE \in Nat
      /\ encoding' = encoding
  BY WindowAssumption DEF DrainInv, IndInv, Good, Sound, Cleanup, MAX_SEQUENCE
<1>2. m \in WindowState /\ m.delayed = "none" /\ Keeps(m, ws)
  BY <1>1, CancelDamageGood, CancelDamageKeeps DEF Good, Sound
<1>3. m.cancelled = MAX_SEQUENCE
  <2> DEFINE d == Cancel(ws, Timers)
  <2>1. d \in WindowState
    BY <1>1, CancelFields
  <2>2. m.cancelled = [d EXCEPT !.cancelled = MAX_SEQUENCE].cancelled
    <3> HIDE DEF d
    <3> QED BY <2>1 DEF cancel_damage, d
  <2> HIDE DEF d
  <2> QED BY <2>1, <2>2 DEF WindowState
<1>4. ws' = [m EXCEPT !.closed = TRUE, !.softExpired = 0, !.suspended = FALSE,
                      !.sequence = 1, !.packetSequence = 1, !.encodeQueue = q]
  BY DEF Cleanup
<1> HIDE DEF m
<1>5. m.encodeQueue \in Seq(Frames)
  BY <1>1, <1>2 DEF DrainInv, Draining, Keeps
<1> HIDE DEF q
<1>6. /\ ws'.closed = TRUE /\ ws'.ended = m.ended /\ ws'.gone = m.gone
      /\ ws'.delayed = "none" /\ ws'.cancelled = MAX_SEQUENCE
      /\ ws'.encodingPending = m.encodingPending /\ ws'.encodeQueue = q
  BY <1>2, <1>3, <1>4 DEF WindowState
<1>7. ~ws'.ended /\ ~ws'.gone
  BY <1>1, <1>2, <1>6 DEF DrainInv, Draining, Keeps
<1>8. Pending'
  BY <1>1, <1>2, <1>6 DEF DrainInv, Pending, Keeps
<1>9. Retired(ws')
  BY <1>1, <1>6 DEF Retired
<1> QED
  BY <1>5, <1>6, <1>7, <1>8, <1>9 DEF Draining, q

LEMMA TimersDrained ==
    ASSUME DrainInv,
           \/ ExpireTimer \/ SoftTimer \/ TimeoutTimer \/ MaySendTimer
           \/ DecodeErrorTimer \/ IdleMaySend
    PROVE  (Draining /\ Pending)'
<1>1. Sound(ws) /\ ws \in WindowState /\ encoding' = encoding
  BY DEF DrainInv, IndInv, Good, Sound, ExpireTimer, SoftTimer, TimeoutTimer, MaySendTimer,
         DecodeErrorTimer, IdleMaySend
<1>2. /\ "expire" \in Timers /\ "soft" \in Timers /\ "maysend" \in Timers
      /\ "decode" \in Timers /\ "timeout" \in Timers /\ {"maysend"} \in SUBSET Timers
  BY DEF Timers
<1>3. ASSUME NEW t \in Timers, ws.sources[t] > 0
      PROVE  /\ Sound(Fired(ws, t)) /\ Fired(ws, t) \in WindowState
             /\ Keeps(Fired(ws, t), ws)
  BY <1>1, <1>3, FiredSound, FiredKeeps DEF Sound
<1>4. CASE ExpireTimer
  <2> DEFINE f == Fired(ws, "expire")
  <2>1. Sound(f) /\ Keeps(f, ws) /\ ws' \in expire_delayed_region(f)
    BY <1>2, <1>3, <1>4 DEF ExpireTimer
  <2> QED BY <1>1, <2>1, ExpireKeeps, KeepsTransitive, KeepsDrained
<1>5. CASE SoftTimer
  <2> DEFINE f == Fired(ws, "soft")
  <2>1. Sound(f) /\ Keeps(f, ws) /\ ws' \in do_send_delayed(f)
    BY <1>2, <1>3, <1>5 DEF SoftTimer
  <2> QED BY <1>1, <2>1, DoSendKeeps, KeepsTransitive, KeepsDrained
<1>6. CASE TimeoutTimer
  <2> DEFINE f == Fired(ws, "timeout")
  <2>1. Sound(f) /\ Keeps(f, ws) /\ ws' \in delayed_region_timeout(f)
    BY <1>2, <1>3, <1>6 DEF TimeoutTimer
  <2> QED BY <1>1, <2>1, TimeoutKeeps, KeepsTransitive, KeepsDrained
<1>7. CASE MaySendTimer
  <2> DEFINE f == Fired(ws, "maysend")
  <2>1. Sound(f) /\ Keeps(f, ws) /\ ws' \in may_send_delayed(f)
    BY <1>2, <1>3, <1>7 DEF MaySendTimer
  <2> QED BY <1>1, <2>1, MaySendKeeps, KeepsTransitive, KeepsDrained
<1>8. CASE DecodeErrorTimer
  <2> DEFINE f == Fired(ws, "decode")
  <2>1. /\ f \in WindowState /\ Keeps(f, ws)
        /\ ws' = f \/ ws' \in full_quality_refresh(f)
    BY <1>2, <1>3, <1>8 DEF DecodeErrorTimer
  <2> QED BY <1>1, <2>1, RefreshKeeps, KeepsTransitive, KeepsDrained
<1>9. CASE IdleMaySend
  <2> DEFINE c == Cancel(ws, {"maysend"})
  <2>1. Sound(c) /\ Keeps(c, ws) /\ ws' \in may_send_delayed(c)
    BY <1>1, <1>2, <1>9, CancelSound, CancelKeeps DEF IdleMaySend
  <2> QED BY <1>1, <2>1, MaySendKeeps, KeepsTransitive, KeepsDrained
<1> QED
  BY <1>4, <1>5, <1>6, <1>7, <1>8, <1>9

\* the encode thread takes the head of the queue; behind the end marker there is
\* nothing
LEMMA QueueHead ==
    ASSUME DrainInv, ws.encodeQueue # <<>>
    PROVE  /\ ~ws.ended
           /\ ~ws.closed => /\ Head(ws.encodeQueue) \in Frames
                            /\ Tail(ws.encodeQueue) \in Seq(Frames)
           /\ ws.closed /\ Head(ws.encodeQueue) # ENCODE_ENDED =>
                \E q \in Seq(Frames) : Tail(ws.encodeQueue) = Append(q, ENCODE_ENDED)
           /\ Head(ws.encodeQueue) = ENCODE_ENDED => ws.closed /\ Tail(ws.encodeQueue) = <<>>
<1>1. ~ws.ended
  BY DEF DrainInv, Draining
<1>2. CASE ~ws.closed
  <2>1. ws.encodeQueue \in Seq(Frames)
    BY <1>2 DEF DrainInv, Draining
  <2>2. Head(ws.encodeQueue) \in Frames /\ Tail(ws.encodeQueue) \in Seq(Frames)
    BY <2>1
  <2> QED BY <1>1, <1>2, <2>2 DEF Frames, ENCODE_ENDED
<1>3. CASE ws.closed
  <2>1. PICK q \in Seq(Frames) : ws.encodeQueue = Append(q, ENCODE_ENDED)
    BY <1>1, <1>3 DEF DrainInv, Draining
  <2>2. CASE q = <<>>
    <3>1. ws.encodeQueue = <<ENCODE_ENDED>>
      BY <2>1, <2>2
    <3> QED BY <1>1, <1>3, <3>1
  <2>3. CASE q # <<>>
    <3>1. Head(q) \in Frames /\ Tail(q) \in Seq(Frames)
      BY <2>3
    <3>2. Head(ws.encodeQueue) = Head(q)
      BY <2>1, <2>3
    <3>3. Tail(ws.encodeQueue) = Append(Tail(q), ENCODE_ENDED)
      BY <2>1, <2>3
    <3> QED BY <1>1, <1>3, <3>1, <3>2, <3>3 DEF Frames, ENCODE_ENDED
  <2> QED BY <2>2, <2>3
<1> QED
  BY <1>2, <1>3

LEMMA EncodeDrained ==
    ASSUME DrainInv, EncodeSkip \/ EncodeStart \/ EncodeDrop \/ EncodeDone \/ EncodeEnded
    PROVE  (Draining /\ Pending)'
<1> DEFINE q == Tail(ws.encodeQueue)
           h == Head(ws.encodeQueue)
<1>1. ws \in WindowState /\ encoding \in Nat
  BY DEF DrainInv, IndInv, Good, Sound, Threads
<1>2. CASE EncodeSkip
  <2>1. /\ ws.encodeQueue # <<>> /\ h # ENCODE_ENDED
        /\ ws' = [ws EXCEPT !.encodeQueue = q] /\ encoding' = encoding
    BY <1>2 DEF EncodeSkip
  <2>2. /\ ws'.encodeQueue = q /\ ws'.closed = ws.closed /\ ws'.ended = ws.ended
        /\ ws'.gone = ws.gone /\ ws'.delayed = ws.delayed /\ ws'.cancelled = ws.cancelled
        /\ ws'.encodingPending = ws.encodingPending
    <3> HIDE DEF q
    <3> QED BY <1>1, <2>1 DEF WindowState
  <2>3. Draining'
    BY <2>1, <2>2, QueueHead DEF DrainInv, Draining, Retired
  <2> QED BY <2>1, <2>2, <2>3 DEF DrainInv, Pending
<1>3. CASE EncodeStart
  <2>1. /\ ws.encodeQueue # <<>> /\ h # ENCODE_ENDED /\ encoding = 0 /\ encoding' = h
        /\ ws' = [ws EXCEPT !.encodeQueue = q, !.encodingPending = ws.encodingPending \cup {h}]
    BY <1>3 DEF EncodeStart
  <2>2. /\ ws'.encodeQueue = q /\ ws'.closed = ws.closed /\ ws'.ended = ws.ended
        /\ ws'.gone = ws.gone /\ ws'.delayed = ws.delayed /\ ws'.cancelled = ws.cancelled
        /\ ws'.encodingPending = ws.encodingPending \cup {h}
    <3> HIDE DEF q, h
    <3> QED BY <1>1, <2>1 DEF WindowState
  <2>3. Draining'
    BY <2>1, <2>2, QueueHead DEF DrainInv, Draining, Retired
  <2>4. Pending'
    BY <2>1, <2>2 DEF DrainInv, Pending, ENCODE_ENDED
  <2> QED BY <2>3, <2>4
<1>4. CASE EncodeDrop \/ EncodeDone
  <2>1. /\ encoding # 0 /\ encoding' = 0
        /\ ws'.encodeQueue = ws.encodeQueue /\ ws'.closed = ws.closed /\ ws'.ended = ws.ended
        /\ ws'.gone = ws.gone /\ ws'.delayed = ws.delayed /\ ws'.cancelled = ws.cancelled
        /\ ws'.encodingPending = ws.encodingPending \ {encoding}
    BY <1>1, <1>4 DEF EncodeDrop, EncodeDone, WindowState
  <2>2. Draining'
    BY <2>1 DEF DrainInv, Draining, Retired
  <2>3. Pending'
    BY <2>1 DEF DrainInv, Pending, ENCODE_ENDED
  <2> QED BY <2>2, <2>3
<1>5. CASE EncodeEnded
  <2>1. /\ ws.encodeQueue # <<>> /\ h = ENCODE_ENDED /\ encoding = 0 /\ encoding' = 0
        /\ ws' = [ws EXCEPT !.encodeQueue = q, !.ended = TRUE]
    BY <1>5 DEF EncodeEnded
  <2>2. /\ ws'.encodeQueue = q /\ ws'.closed = ws.closed /\ ws'.ended = TRUE
        /\ ws'.gone = ws.gone /\ ws'.delayed = ws.delayed /\ ws'.cancelled = ws.cancelled
        /\ ws'.encodingPending = ws.encodingPending
    <3> HIDE DEF q
    <3> QED BY <1>1, <2>1 DEF WindowState
  <2>3. Draining'
    BY <2>1, <2>2, QueueHead DEF DrainInv, Draining, Retired
  <2> QED BY <2>1, <2>2, <2>3 DEF DrainInv, Pending
<1> QED
  BY <1>2, <1>3, <1>4, <1>5

LEMMA NextDrained == DrainInv /\ [Next]_vars => DrainInv'
<1> SUFFICES ASSUME DrainInv, [Next]_vars PROVE (Draining /\ Pending)'
  BY NextGood DEF DrainInv
<1>1. ws \in WindowState /\ Keeps(ws, ws)
  BY DEF DrainInv, IndInv, Good, Sound, Keeps
<1>2. CASE Damage \/ Refresh \/ Suspend \/ Resume \/ GoIdle \/ Unmap \/ Map
  BY <1>2, ServerDrained
<1>3. CASE Cleanup
  BY <1>3, CleanupDrained
<1>4. CASE \/ ExpireTimer \/ SoftTimer \/ TimeoutTimer \/ MaySendTimer
           \/ DecodeErrorTimer \/ IdleMaySend
  BY <1>4, TimersDrained
<1>5. CASE UICleanup
  <2>1. /\ ws.ended /\ encoding' = encoding
        /\ ws'.encodeQueue = ws.encodeQueue /\ ws'.closed = ws.closed /\ ws'.ended = ws.ended
        /\ ws'.delayed = ws.delayed /\ ws'.cancelled = ws.cancelled
        /\ ws'.encodingPending = ws.encodingPending
    BY <1>1, <1>5 DEF UICleanup, WindowState
  <2>2. Draining'
    BY <2>1 DEF DrainInv, Draining, Retired
  <2> QED BY <2>1, <2>2 DEF DrainInv, Pending
<1>6. CASE EncodeSkip \/ EncodeStart \/ EncodeDrop \/ EncodeDone \/ EncodeEnded
  BY <1>6, EncodeDrained
<1>7. ASSUME NEW w \in WindowState, NEW a, NEW n
      PROVE  /\ Keeps([w EXCEPT !.ackPending = a], w)
             /\ Keeps([w EXCEPT !.softExpired = n], w)
  BY DEF WindowState, Keeps, Retired
<1>8. ASSUME NEW p \in Packets, NEW e \in BOOLEAN, AckBegin(p, e)
      PROVE  (Draining /\ Pending)'
  <2> DEFINE d == Arm(ws, "decode")
  <2>1. "decode" \in Timers
    BY DEF Timers
  <2>2. d \in WindowState /\ Keeps(d, ws)
    BY <1>1, <2>1, ArmFields, ArmKeeps
  <2>3. \/ ws' = ws
        \/ ws' = [ws EXCEPT !.ackPending = ws.ackPending \ {p}]
        \/ ws' = [d EXCEPT !.ackPending = d.ackPending \ {p}]
    BY <1>8 DEF AckBegin
  <2> HIDE DEF d
  <2>4. Keeps(ws', ws)
    <3>1. CASE ws' = [d EXCEPT !.ackPending = d.ackPending \ {p}]
      <4>1. Keeps(ws', d)
        BY <1>7, <2>2, <3>1
      <4> QED BY <2>2, <4>1, KeepsTransitive
    <3>2. CASE ws' = [ws EXCEPT !.ackPending = ws.ackPending \ {p}]
      BY <1>1, <1>7, <3>2
    <3> QED BY <1>1, <2>3, <3>1, <3>2
  <2>5. encoding' = encoding
    BY <1>8 DEF AckBegin
  <2> QED BY <2>4, <2>5, KeepsDrained
<1>9. CASE AckEnd
  BY <1>1, <1>7, <1>9, KeepsDrained DEF AckEnd
<1>10. ASSUME NEW p \in Packets, AckLost(p) \/ ExpireMissingAck(p)
       PROVE  (Draining /\ Pending)'
  BY <1>1, <1>7, <1>10, KeepsDrained DEF AckLost, ExpireMissingAck
<1>11. CASE UNCHANGED vars
  BY <1>1, <1>11, KeepsDrained DEF vars
<1> QED
  BY <1>2, <1>3, <1>4, <1>5, <1>6, <1>8, <1>9, <1>10, <1>11 DEF Next

LEMMA DrainInvariance == Spec => []DrainInv
BY InitDrained, NextDrained, PTL DEF Spec

----------------------------------------------------------------------------
(* The theorems.                                                            *)

\* The attributes of a WindowSource and of the threads that work on it keep
\* their types; above all no GLib source is removed that does not exist.
THEOREM TypeCorrect == Spec => []TypeOK
<1>1. IndInv => TypeOK
  BY DEF IndInv, Threads, Good, Sound, TypeOK
<1> QED
  BY <1>1, Invariance, PTL

\* However the main loop, the encode thread and the network thread interleave, a
\* delayed region always has a timer that ends in it being sent: it never depends
\* on an ack of the client or on the encode thread alone.
THEOREM DelayedRegionHasTimer == Spec => []RegionHasTimer
<1>1. IndInv => RegionHasTimer
  BY DEF IndInv, Good, Timed, RegionHasTimer
<1> QED
  BY <1>1, Invariance, PTL

\* No soft, timeout or may-send timer is ever started twice, so that cancel_damage
\* leaves none of them in the main loop.
THEOREM TimersNeverStray == Spec => []NoStrayTimer
<1>1. IndInv => NoStrayTimer
  BY DEF IndInv, Good, Sound, NoStrayTimer
<1> QED
  BY <1>1, Invariance, PTL

\* The soft expire count never passes max_soft_expired, though the network thread
\* resets it while the main loop counts.
THEOREM SoftExpireCountBounded == Spec => []SoftExpiredBounded
<1>1. IndInv => SoftExpiredBounded
  BY DEF IndInv, Good, Sound, SoftExpiredBounded
<1> QED
  BY <1>1, Invariance, PTL

\* encoding_pending, which holds back the window's updates, never keeps a frame
\* that the encode thread is not busy with, however its work is interleaved with
\* cancel_damage, suspend, unmap and cleanup.
THEOREM NothingStaysPending == Spec => []EncodingPendingIsBusy
<1>1. DrainInv => EncodingPendingIsBusy
  BY DEF DrainInv, Pending, EncodingPendingIsBusy
<1> QED
  BY <1>1, DrainInvariance, PTL

\* The statistics and the encoders that ui_cleanup drops are not needed any more:
\* cleanup's end marker is the last entry that the encode queue ever gets.
THEOREM DrainedBeforeGone == Spec => []GoneMeansDrained
<1>1. DrainInv => GoneMeansDrained
  BY DEF DrainInv, Draining, Retired, GoneMeansDrained
<1> QED
  BY <1>1, DrainInvariance, PTL

----------------------------------------------------------------------------
(* The mmap area that the pixels of a window go through, of any size, with  *)
(* buffers of any sizes and any number of them outstanding: every buffer    *)
(* lies inside the area, no buffer is written over another that the client  *)
(* still needs and an area that is drained is free again.                   *)
(*                                                                          *)
(* The first rests on the size that mmap_write has tested: data_end does    *)
(* not move while the writer holds on to what it read of data_start, so     *)
(* that the buffer still fits when its chunks are computed, however far     *)
(* data_start has moved since.  The last rests on where the latest buffer   *)
(* ends, wherever it is on its way.  The second measures every place from   *)
(* data_start, in the direction in which the server writes: the buffers     *)
(* follow each other, the oldest first, none of them past data_end; what    *)
(* is written begins at data_end and does not get round to data_start,      *)
(* because the data_start that the writer has read is farther from          *)
(* data_end than where data_start has got to in the meantime.               *)

\* a chunk inside the area, and what WriteChunks makes of them
Inside == {c \in (HEADER..MmapSize) \X (0..MmapSize) : ChunkEnd(c) <= MmapSize}
Lists == {<<c>> : c \in Inside} \cup {<<c[1], c[2]>> : c \in Inside \X Inside}

\* the buffer in the making still fits
Fits(w) == w.size <= Available(w.start, Index(dataEnd))
Writers == {<<>>} \cup {<<w>> : w \in [start : HEADER..MmapSize, size : Sizes]}

Shape ==
    /\ dataStart \in 0..MmapSize /\ dataEnd \in 0..MmapSize
    /\ writer \in Writers
    /\ drawPackets \in Seq(Lists)
    /\ ui \in Seq([chunks : Lists \cup {<<>>}, end : 0..MmapSize])
    /\ filled \in BOOLEAN /\ overtook \in BOOLEAN /\ leaked \in BOOLEAN

WriterFits == writer # <<>> => Fits(writer[1])

\* the latest buffer ends at data_end, wherever it has got to
LatestAtEnd ==
    /\ drawPackets # <<>> => LastEnd(drawPackets[Len(drawPackets)]) = dataEnd
    /\ (drawPackets = <<>> /\ ui # <<>> /\ ~overtook /\ ~leaked) => ui[Len(ui)].end = dataEnd
    /\ (drawPackets = <<>> /\ ui = <<>> /\ ~overtook /\ ~leaked) => Index(dataStart) = Index(dataEnd)

----------------------------------------------------------------------------
(* Sequences, the index and chunks.                                         *)

\* The first and the rest of a sequence, and its last element.
LEMMA FirstAndRest ==
    ASSUME NEW S, NEW s \in Seq(S), s # <<>>
    PROVE  /\ Head(s) \in S /\ Tail(s) \in Seq(S)
           /\ Tail(s) = <<>> => s[Len(s)] = Head(s)
           /\ Tail(s) # <<>> => Tail(s)[Len(Tail(s))] = s[Len(s)]
<1>0. Len(s) \in Nat /\ Len(s) # 0
  OBVIOUS
<1>1. /\ Head(s) \in S /\ Tail(s) \in Seq(S) /\ Head(s) = s[1]
      /\ Len(s) \in Nat \ {0} /\ Len(Tail(s)) = Len(s) - 1
      /\ \A i \in 1..Len(Tail(s)) : Tail(s)[i] = s[i + 1]
  <2>1. Head(s) = s[1] /\ Head(s) \in S
    BY <1>0
  <2>2. Tail(s) \in Seq(S)
    OBVIOUS
  <2>3. Len(Tail(s)) = Len(s) - 1
    BY <1>0
  <2>4. \A i \in 1..Len(Tail(s)) : Tail(s)[i] = s[i + 1]
    BY <1>0, <2>3
  <2> QED
    BY <1>0, <2>1, <2>2, <2>3, <2>4
<1>2. Tail(s) = <<>> => Len(s) = 1
  <2>1. Len(<<>>) = 0
    OBVIOUS
  <2>2. ASSUME Tail(s) = <<>>
        PROVE  Len(Tail(s)) = 0
    BY <2>1, <2>2
  <2> QED
    BY <1>1, <2>2
<1>3. Tail(s) # <<>> => Len(Tail(s)) >= 1
  BY <1>1
<1> QED
  BY <1>1, <1>2, <1>3

\* An index that was read is inside the area, past the header.
LEMMA IndexInside ==
    ASSUME NEW v \in 0..MmapSize
    PROVE  Index(v) \in HEADER..MmapSize
  BY MmapAssumption DEF Index, HEADER

\* The bytes of a list of chunks are those of the area, without its header.
LEMMA ListBytes ==
    ASSUME NEW l \in Lists
    PROVE  Bytes(l) \subseteq HEADER..(MmapSize - 1)
<1>1. \A i \in 1..Len(l) : l[i] \in Inside
  BY DEF Lists
<1>2. \A c \in Inside : c[1]..(ChunkEnd(c) - 1) \subseteq HEADER..(MmapSize - 1)
  BY MmapAssumption DEF Inside, ChunkEnd, HEADER
<1> QED
  BY <1>1, <1>2 DEF Bytes

\* A list ends inside the area.
LEMMA ListEnd ==
    ASSUME NEW l \in Lists
    PROVE  LastEnd(l) \in 0..MmapSize
<1>1. /\ Len(l) \in {1, 2}
      /\ l[Len(l)] \in Inside
  BY DEF Lists
<1>2. \A c \in Inside : ChunkEnd(c) \in 0..MmapSize
  BY MmapAssumption DEF Inside, ChunkEnd, HEADER
<1> QED
  BY <1>1, <1>2 DEF LastEnd

\* The chunks of a buffer that fits lie inside the area, in each of the three ways.
LEMMA ChunksInside ==
    ASSUME NEW start \in HEADER..MmapSize, NEW end \in HEADER..MmapSize,
           NEW size \in Sizes, size <= Available(start, end)
    PROVE  WriteChunks(start, end, size) \in Lists
<1> DEFINE chunk == FirstChunk(start, end)
<1>0. size \in Nat /\ size >= 1 /\ MmapSize \in Nat /\ MmapSize > HEADER /\ HEADER = 8
  BY MmapAssumption DEF HEADER
<1>1. CASE size < chunk
  <2>1. <<end, size>> \in Inside
    BY <1>0, <1>1 DEF Inside, ChunkEnd, FirstChunk
  <2> QED
    BY <1>1, <2>1 DEF WriteChunks, Lists
<1>2. CASE ~(size < chunk) /\ StartAgain(start, end, size)
  <2>1. <<HEADER, size>> \in Inside
    BY <1>0, <1>2 DEF Inside, ChunkEnd, StartAgain
  <2> QED
    BY <1>2, <2>1 DEF WriteChunks, Lists
<1>3. CASE ~(size < chunk) /\ ~StartAgain(start, end, size)
  <2>1. <<end, chunk>> \in Inside
    BY <1>0, <1>3 DEF Inside, ChunkEnd, FirstChunk
  <2>2. <<HEADER, size - chunk>> \in Inside
    BY <1>0, <1>3 DEF Inside, ChunkEnd, FirstChunk, Available
  <2>3. <<<<end, chunk>>, <<HEADER, size - chunk>>>> \in Lists
    <3>1. <<<<end, chunk>>, <<HEADER, size - chunk>>>> \in Inside \X Inside
      BY <2>1, <2>2
    <3> QED
      BY <3>1 DEF Lists
  <2> QED
    BY <1>3, <2>3 DEF WriteChunks
<1> QED
  BY <1>1, <1>2, <1>3

----------------------------------------------------------------------------
(* The invariants.                                                          *)

LEMMA InitShape == RingInit => Shape /\ WriterFits /\ LatestAtEnd
<1> SUFFICES ASSUME RingInit PROVE Shape /\ WriterFits /\ LatestAtEnd
  OBVIOUS
<1>1. drawPackets \in Seq(Lists) /\ ui \in Seq([chunks : Lists \cup {<<>>}, end : 0..MmapSize])
  BY DEF RingInit
<1>2. dataStart \in 0..MmapSize /\ dataEnd \in 0..MmapSize
  BY MmapAssumption DEF RingInit, HEADER
<1> QED
  BY <1>1, <1>2 DEF RingInit, Shape, Writers, WriterFits, LatestAtEnd

\* The chunks that WriteEnd sends.
LEMMA WrittenInside ==
    ASSUME Shape, WriterFits, writer # <<>>
    PROVE  WriteChunks(writer[1].start, Index(dataEnd), writer[1].size) \in Lists
<1>1. writer[1].start \in HEADER..MmapSize /\ writer[1].size \in Sizes
  BY DEF Shape, Writers
<1>2. Index(dataEnd) \in HEADER..MmapSize
  BY IndexInside DEF Shape
<1> QED
  BY <1>1, <1>2, ChunksInside DEF WriterFits, Fits

LEMMA NextShape ==
    ASSUME Shape, WriterFits, [RingNext]_ringVars
    PROVE  Shape' /\ WriterFits'
<1> USE DEF Shape, WriterFits
<1>1. CASE \E size \in Sizes : WriteBegin(size)
  <2>1. PICK size \in Sizes : WriteBegin(size)
    BY <1>1
  <2>2. Index(dataStart) \in HEADER..MmapSize
    BY IndexInside
  <2>3. [start |-> Index(dataStart), size |-> size] \in [start : HEADER..MmapSize, size : Sizes]
    BY <2>2
  <2>4. writer' \in Writers
    BY <2>1, <2>3 DEF WriteBegin, Writers
  <2>5. WriterFits'
    BY <2>1 DEF WriteBegin, Fits
  <2> QED
    BY <2>1, <2>4, <2>5 DEF WriteBegin
<1>2. CASE WriteEnd
  <2> DEFINE chunks == WriteChunks(writer[1].start, Index(dataEnd), writer[1].size)
  <2>1. chunks \in Lists
    BY <1>2, WrittenInside DEF WriteEnd
  <2>2. LastEnd(chunks) \in 0..MmapSize
    BY <2>1, ListEnd
  <2>3. dataEnd' = LastEnd(chunks) /\ drawPackets' = Append(drawPackets, chunks) /\ writer' = <<>>
    BY <1>2 DEF WriteEnd
  <2>4. filled' \in BOOLEAN
    BY <1>2 DEF WriteEnd
  <2> HIDE DEF chunks
  <2> QED
    BY <1>2, <2>1, <2>2, <2>3, <2>4 DEF WriteEnd, Writers
<1>3. CASE drawPackets # <<>> /\ (ReadZeroCopy \/ ReadCopy \/ DrawWindowGone \/ DrawError)
  <2> DEFINE callbacks == Seq([chunks : Lists \cup {<<>>}, end : 0..MmapSize])
  <2>1. Head(drawPackets) \in Lists /\ Tail(drawPackets) \in Seq(Lists)
    BY <1>3, FirstAndRest
  <2>2. LastEnd(Head(drawPackets)) \in 0..MmapSize
    BY <2>1, ListEnd
  <2>3. /\ drawPackets' = Tail(drawPackets) /\ UNCHANGED <<dataEnd, writer, filled>>
        /\ dataStart' \in {dataStart, LastEnd(Head(drawPackets))}
        /\ overtook' \in BOOLEAN /\ leaked' \in BOOLEAN
    BY <1>3 DEF ReadZeroCopy, ReadCopy, DrawWindowGone, DrawError
  <2>4. \/ ui' = ui
        \/ \E chunks \in Lists \cup {<<>>} : ui' = Append(ui, [chunks |-> chunks, end |-> LastEnd(Head(drawPackets))])
    BY <1>3, <2>1 DEF ReadZeroCopy, ReadCopy, DrawWindowGone, DrawError
  <2>5. ui' \in callbacks
    <3>1. \A chunks \in Lists \cup {<<>>} :
             [chunks |-> chunks, end |-> LastEnd(Head(drawPackets))] \in [chunks : Lists \cup {<<>>}, end : 0..MmapSize]
      BY <2>2
    <3>2. ui \in callbacks
      OBVIOUS
    <3>3. \A c \in [chunks : Lists \cup {<<>>}, end : 0..MmapSize] : Append(ui, c) \in callbacks
      BY <3>2
    <3> HIDE DEF callbacks
    <3> QED
      BY <2>4, <3>1, <3>2, <3>3
  <2> QED
    BY <2>1, <2>2, <2>3, <2>5 DEF Fits
<1>4. CASE UIRelease
  <2>1. /\ Head(ui) \in [chunks : Lists \cup {<<>>}, end : 0..MmapSize]
        /\ Tail(ui) \in Seq([chunks : Lists \cup {<<>>}, end : 0..MmapSize])
    BY <1>4, FirstAndRest DEF UIRelease
  <2> QED
    BY <1>4, <2>1 DEF UIRelease, Fits
<1>5. CASE UNCHANGED ringVars
  BY <1>5 DEF ringVars, Fits
<1> QED
  BY <1>1, <1>2, <1>3, <1>4, <1>5
     DEF RingNext, WriteFull, ReadZeroCopy, ReadCopy, DrawWindowGone, DrawError

LEMMA NextLatest ==
    ASSUME Shape, LatestAtEnd, [RingNext]_ringVars
    PROVE  LatestAtEnd'
<1> USE DEF Shape, LatestAtEnd
<1>1. CASE \E size \in Sizes : WriteBegin(size)
  BY <1>1 DEF WriteBegin
<1>2. CASE WriteEnd
  BY <1>2 DEF WriteEnd
<1>3. CASE ReadZeroCopy
  BY <1>3, SMTT(40) DEF ReadZeroCopy
<1>4. CASE ReadCopy
  <2>1. CASE Tail(drawPackets) = <<>>
    <3>1. Head(drawPackets) = drawPackets[Len(drawPackets)]
      BY <1>4, <2>1, FirstAndRest DEF ReadCopy
    <3>2. /\ drawPackets' = <<>> /\ ui' = ui /\ dataEnd' = dataEnd
          /\ dataStart' = dataEnd
          /\ ~overtook' => ui = <<>>
      BY <1>4, <2>1, <3>1 DEF ReadCopy
    <3> QED
      BY <3>2
  <2>2. CASE Tail(drawPackets) # <<>>
    <3>1. /\ drawPackets' = Tail(drawPackets) /\ dataEnd' = dataEnd
          /\ Tail(drawPackets)[Len(Tail(drawPackets))] = drawPackets[Len(drawPackets)]
      BY <1>4, <2>2, FirstAndRest DEF ReadCopy
    <3> QED
      BY <1>4, <2>2, <3>1 DEF ReadCopy
  <2> QED
    BY <2>1, <2>2
<1>5. CASE DrawWindowGone
  BY <1>5, SMTT(40) DEF DrawWindowGone
<1>6. CASE DrawError
  BY <1>6 DEF DrawError
<1>7. CASE UIRelease
  <2>1. CASE Tail(ui) = <<>>
    <3>1. Head(ui) = ui[Len(ui)]
      BY <1>7, <2>1, FirstAndRest DEF UIRelease
    <3> QED
      BY <1>7, <2>1, <3>1 DEF UIRelease
  <2>2. CASE Tail(ui) # <<>>
    <3>1. Tail(ui)[Len(Tail(ui))] = ui[Len(ui)]
      BY <1>7, <2>2, FirstAndRest DEF UIRelease
    <3> QED
      BY <1>7, <2>2, <3>1 DEF UIRelease
  <2> QED
    BY <2>1, <2>2
<1>8. CASE UNCHANGED ringVars
  BY <1>8 DEF ringVars
<1> QED
  BY <1>1, <1>2, <1>3, <1>4, <1>5, <1>6, <1>7, <1>8 DEF RingNext, WriteFull

\* Everything that the two theorems rest on, at all times.
LEMMA Always == RingSpec => [](Shape /\ WriterFits /\ LatestAtEnd)
<1>1. Shape /\ WriterFits /\ LatestAtEnd /\ [RingNext]_ringVars => (Shape /\ WriterFits /\ LatestAtEnd)'
  BY NextShape, NextLatest
<1> QED
  BY InitShape, <1>1, PTL DEF RingSpec

----------------------------------------------------------------------------
(* The ring: places in the order in which the writer comes to them.         *)

Ring == HEADER..(MmapSize - 1)
Dist(a, b) == IF b >= a THEN b - a ELSE (b - a) + (MmapSize - HEADER)

S == Index(dataStart)
E == Index(dataEnd)

\* the buffers on their way to the client, oldest first: their bytes and their ends
Buffers == Len(ui) + Len(drawPackets)
Held(k) == IF k <= Len(ui) THEN Bytes(ui[k].chunks) ELSE Bytes(drawPackets[k - Len(ui)])
End(k) == IF k <= Len(ui) THEN ui[k].end ELSE LastEnd(drawPackets[k - Len(ui)])

\* a buffer lies between S and its end, which is not past E
Placed(k) ==
    /\ End(k) \in Ring /\ Held(k) \subseteq Ring
    /\ 0 < Dist(S, End(k)) /\ Dist(S, End(k)) <= Dist(S, E)
    /\ \A x \in Held(k) : Dist(S, x) < Dist(S, End(k))

\* ... and behind the ends of the older ones
Behind(j, k) ==
    /\ Dist(S, End(j)) < Dist(S, End(k))
    /\ \A x \in Held(k) : Dist(S, End(j)) <= Dist(S, x)

\* S may have moved towards E since the writer has read it
WriterSees ==
    writer # <<>> => /\ writer[1].start \in Ring
                     /\ Dist(S, E) <= Dist(writer[1].start, E)

RingInv ==
    ~filled /\ ~overtook =>
        /\ S \in Ring /\ E \in Ring
        /\ \A k \in 1..Buffers : Placed(k)
        /\ \A j, k \in 1..Buffers : j < k => Behind(j, k)
        /\ WriterSees

LEMMA SizeOfRing == MmapSize \in Nat /\ HEADER = 8 /\ MmapSize > 8
  BY MmapAssumption DEF HEADER

\* Distances are less than the size of the ring.
LEMMA DistRange ==
    ASSUME NEW a \in Ring, NEW b \in Ring
    PROVE  Dist(a, b) \in 0..(MmapSize - HEADER - 1) /\ (Dist(a, b) = 0 <=> a = b)
  BY SizeOfRing DEF Ring, Dist

\* What is not before e is as far from e as it is from a, less the way from a to e.
LEMMA Shift ==
    ASSUME NEW a \in Ring, NEW e \in Ring, NEW y \in Ring, Dist(a, e) <= Dist(a, y)
    PROVE  Dist(e, y) = Dist(a, y) - Dist(a, e)
  BY SizeOfRing DEF Ring, Dist

\* If w is as far from e as s is, or farther, then s is on the way from w to e.
LEMMA Between ==
    ASSUME NEW w \in Ring, NEW s \in Ring, NEW e \in Ring, Dist(s, e) <= Dist(w, e)
    PROVE  Dist(w, s) = Dist(w, e) - Dist(s, e)
  BY SizeOfRing DEF Ring, Dist

LEMMA InRing == \A v \in Ring : Index(v) = v
  BY SizeOfRing DEF Ring, Index

\* The bytes of no chunk, of one and of two.
LEMMA NoChunk == Bytes(<<>>) = {}
  BY DEF Bytes

LEMMA OneChunk ==
    ASSUME NEW from \in Int, NEW n \in Int
    PROVE  /\ Bytes(<<<<from, n>>>>) = from..(from + n - 1)
           /\ LastEnd(<<<<from, n>>>>) = from + n
<1> DEFINE c == <<from, n>>
<1>1. c[1] = from /\ ChunkEnd(c) = from + n
  BY DEF ChunkEnd
<1> HIDE DEF c
<1>2. Len(<<c>>) = 1 /\ <<c>>[1] = c
  OBVIOUS
<1>3. {<<c>>[i] : i \in 1..1} = {c}
  BY <1>2
<1>4. Bytes(<<c>>) = c[1]..(ChunkEnd(c) - 1) /\ LastEnd(<<c>>) = ChunkEnd(c)
  BY <1>2, <1>3 DEF Bytes, LastEnd
<1>5. Bytes(<<c>>) = from..(from + n - 1) /\ LastEnd(<<c>>) = from + n
  BY <1>1, <1>4
<1> QED
  BY <1>5, Zenon DEF c

LEMMA TwoChunks ==
    ASSUME NEW from1 \in Int, NEW n1 \in Int, NEW from2 \in Int, NEW n2 \in Int
    PROVE  /\ \A x : x \in Bytes(<<<<from1, n1>>, <<from2, n2>>>>) <=>
                        x \in from1..(from1 + n1 - 1) \/ x \in from2..(from2 + n2 - 1)
           /\ LastEnd(<<<<from1, n1>>, <<from2, n2>>>>) = from2 + n2
<1> DEFINE c == <<from1, n1>>
           d == <<from2, n2>>
<1>1. c[1] = from1 /\ ChunkEnd(c) = from1 + n1 /\ d[1] = from2 /\ ChunkEnd(d) = from2 + n2
  BY DEF ChunkEnd
<1> HIDE DEF c, d
<1>2. Len(<<c, d>>) = 2 /\ <<c, d>>[1] = c /\ <<c, d>>[2] = d
  OBVIOUS
<1>3. {<<c, d>>[i] : i \in 1..2} = {c, d}
  BY <1>2
<1>4. /\ Bytes(<<c, d>>) = (c[1]..(ChunkEnd(c) - 1)) \cup (d[1]..(ChunkEnd(d) - 1))
      /\ LastEnd(<<c, d>>) = ChunkEnd(d)
  BY <1>2, <1>3 DEF Bytes, LastEnd
<1>5. /\ \A x : x \in Bytes(<<c, d>>) <=>
                   x \in from1..(from1 + n1 - 1) \/ x \in from2..(from2 + n2 - 1)
      /\ LastEnd(<<c, d>>) = from2 + n2
  BY <1>1, <1>4
<1> QED
  BY <1>5, Zenon DEF c, d

\* The buffer that mmap_write places, seen from the data_start that it has read: it
\* begins where the last one ends, and a byte at least remains free.
LEMMA WrittenAhead ==
    ASSUME NEW start \in Ring, NEW end \in Ring, NEW size \in Sizes,
           size < Available(start, end)
    PROVE  LET chunks == WriteChunks(start, end, size) IN
           /\ LastEnd(chunks) \in Ring /\ Bytes(chunks) \subseteq Ring
           /\ Dist(start, end) < Dist(start, LastEnd(chunks))
           /\ \A x \in Bytes(chunks) : /\ Dist(start, end) <= Dist(start, x)
                                       /\ Dist(start, x) < Dist(start, LastEnd(chunks))
<1> DEFINE chunk == FirstChunk(start, end)
           chunks == WriteChunks(start, end, size)
<1>0. size \in Nat /\ size >= 1 /\ start \in Int /\ end \in Int /\ chunk \in Int /\ HEADER \in Int
  BY MmapAssumption, SizeOfRing DEF Ring, FirstChunk
<1>1. CASE size < chunk
  <2>1. chunks = <<<<end, size>>>>
    BY <1>1 DEF WriteChunks
  <2>2. Bytes(chunks) = end..(end + size - 1) /\ LastEnd(chunks) = end + size
    BY <1>0, <2>1, OneChunk
  <2> HIDE DEF chunks
  <2>3. end + size \in Ring /\ Dist(start, end + size) = Dist(start, end) + size
    BY <1>0, <1>1, SizeOfRing DEF FirstChunk, Ring, Dist
  <2>4. ASSUME NEW x \in end..(end + size - 1)
        PROVE  x \in Ring /\ Dist(start, end) <= Dist(start, x)
               /\ Dist(start, x) < Dist(start, end) + size
    BY <1>0, <1>1, SizeOfRing DEF FirstChunk, Ring, Dist
  <2>5. Dist(start, end) < Dist(start, end) + size
    BY <1>0, DistRange, SizeOfRing
  <2> QED
    BY <2>2, <2>3, <2>4, <2>5 DEF chunks
<1>2. CASE ~(size < chunk) /\ StartAgain(start, end, size)
  <2>1. chunks = <<<<HEADER, size>>>>
    BY <1>2 DEF WriteChunks
  <2>2. Bytes(chunks) = HEADER..(HEADER + size - 1) /\ LastEnd(chunks) = HEADER + size
    BY <1>0, <2>1, OneChunk
  <2> HIDE DEF chunks
  <2>3. /\ HEADER + size \in Ring /\ HEADER + size < start /\ ~(end < start)
    BY <1>0, <1>2, SizeOfRing DEF FirstChunk, StartAgain, Available, Ring
  <2>4. Dist(start, end) < Dist(start, HEADER + size)
    BY <1>0, <2>3, SizeOfRing DEF Ring, Dist
  <2>5. ASSUME NEW x \in HEADER..(HEADER + size - 1)
        PROVE  x \in Ring /\ Dist(start, end) <= Dist(start, x)
               /\ Dist(start, x) < Dist(start, HEADER + size)
    BY <1>0, <2>3, SizeOfRing DEF Ring, Dist
  <2> QED
    BY <2>2, <2>3, <2>4, <2>5 DEF chunks
<1>3. CASE ~(size < chunk) /\ ~StartAgain(start, end, size)
  <2>1. chunks = <<<<end, chunk>>, <<HEADER, size - chunk>>>>
    BY <1>3 DEF WriteChunks
  <2>2. /\ \A x : x \in Bytes(chunks) <=>
                   x \in end..(end + chunk - 1) \/ x \in HEADER..(HEADER + (size - chunk) - 1)
        /\ LastEnd(chunks) = HEADER + (size - chunk)
    <3> HIDE DEF chunk, chunks
    <3>1. size - chunk \in Int
      BY <1>0
    <3>2. /\ \A x : x \in Bytes(<<<<end, chunk>>, <<HEADER, size - chunk>>>>) <=>
                     x \in end..(end + chunk - 1) \/ x \in HEADER..(HEADER + (size - chunk) - 1)
          /\ LastEnd(<<<<end, chunk>>, <<HEADER, size - chunk>>>>) = HEADER + (size - chunk)
      BY <1>0, <3>1, TwoChunks
    <3> QED
      BY <2>1, <3>2, Zenon
  <2> HIDE DEF chunks
  <2>3. ~(end < start) /\ chunk = MmapSize - end
    BY <1>3 DEF FirstChunk, Available
  <2> HIDE DEF chunk
  <2>4. HEADER + (size - chunk) < start /\ chunk \in Nat /\ size >= chunk
    BY <1>0, <1>3, <2>3, SizeOfRing DEF Available, Ring
  <2>5. HEADER + (size - chunk) \in Ring
        /\ Dist(start, end) < Dist(start, HEADER + (size - chunk))
    BY <1>0, <2>3, <2>4, SizeOfRing DEF Ring, Dist
  <2>6. ASSUME NEW x \in end..(end + chunk - 1)
        PROVE  x \in Ring /\ Dist(start, end) <= Dist(start, x)
               /\ Dist(start, x) < Dist(start, HEADER + (size - chunk))
    BY <1>0, <2>3, <2>4, SizeOfRing DEF Ring, Dist
  <2>7. ASSUME NEW x \in HEADER..(HEADER + (size - chunk) - 1)
        PROVE  x \in Ring /\ Dist(start, end) <= Dist(start, x)
               /\ Dist(start, x) < Dist(start, HEADER + (size - chunk))
    BY <1>0, <2>3, <2>4, SizeOfRing DEF Ring, Dist
  <2> QED
    BY <2>2, <2>5, <2>6, <2>7 DEF chunks
<1> QED
  BY <1>1, <1>2, <1>3

----------------------------------------------------------------------------
(* The steps.  f says where a buffer was before the step.                   *)

LEMMA RingMembers ==
    ASSUME RingInv, ~filled, ~overtook
    PROVE  /\ S \in Ring /\ E \in Ring
           /\ \A k \in 1..Buffers : Placed(k)
           /\ \A j, k \in 1..Buffers : j < k => Behind(j, k)
           /\ WriterSees
  BY DEF RingInv

\* A step that moves neither index: buffers change hands or are dropped, in order.
LEMMA BuffersMove ==
    ASSUME RingInv, ~filled, ~overtook, UNCHANGED <<dataStart, dataEnd>>, WriterSees',
           NEW f, \A k \in 1..Buffers' : f[k] \in 1..Buffers /\ End(k)' = End(f[k])
                                         /\ Held(k)' \subseteq Held(f[k]),
           \A j, k \in 1..Buffers' : j < k => f[j] < f[k]
    PROVE  RingInv'
<1>1. S' = S /\ E' = E
  BY DEF S, E
<1>2. ASSUME NEW k \in 1..Buffers' PROVE Placed(k)'
  <2>1. Placed(f[k])
    BY RingMembers
  <2> QED
    BY <1>1, <2>1 DEF Placed
<1>3. ASSUME NEW j \in 1..Buffers', NEW k \in 1..Buffers', j < k PROVE Behind(j, k)'
  <2>1. Behind(f[j], f[k])
    BY <1>3, RingMembers
  <2> QED
    BY <1>1, <2>1 DEF Behind
<1> QED
  BY <1>1, <1>2, <1>3, RingMembers DEF RingInv

\* The oldest buffer is done with: data_start moves to its end.
LEMMA OldestDone ==
    ASSUME RingInv, ~filled, ~overtook, UNCHANGED <<dataEnd, writer>>,
           Buffers \in Nat, 1 \in 1..Buffers, Buffers' = Buffers - 1, dataStart' = End(1),
           \A k \in 1..Buffers' : End(k)' = End(k + 1) /\ Held(k)' = Held(k + 1)
    PROVE  RingInv'
<1> DEFINE e == End(1)
<1>1. /\ S \in Ring /\ E \in Ring /\ e \in Ring /\ 0 < Dist(S, e) /\ Dist(S, e) <= Dist(S, E)
  BY RingMembers DEF Placed
<1>2. S' = e /\ E' = E
  BY <1>1, InRing DEF S, E
<1>3. ASSUME NEW y \in Ring, Dist(S, e) <= Dist(S, y)
      PROVE  /\ Dist(e, y) = Dist(S, y) - Dist(S, e)
  BY <1>1, <1>3, Shift
<1>4. \A y \in Ring : Dist(S, y) \in Int
  BY <1>1, DistRange, SizeOfRing
<1> HIDE DEF e
<1>5. ASSUME NEW k \in 1..Buffers' PROVE Placed(k)'
  <2>1. k + 1 \in 1..Buffers /\ 1 < k + 1
    OBVIOUS
  <2>2. Placed(k + 1) /\ Behind(1, k + 1)
    BY <2>1, RingMembers
  <2>3. End(k)' = End(k + 1) /\ Held(k)' = Held(k + 1)
    OBVIOUS
  <2>4. /\ End(k + 1) \in Ring /\ Dist(S, e) < Dist(S, End(k + 1))
        /\ Dist(S, End(k + 1)) <= Dist(S, E)
        /\ \A x \in Held(k + 1) : /\ x \in Ring /\ Dist(S, e) <= Dist(S, x)
                                  /\ Dist(S, x) < Dist(S, End(k + 1))
    BY <2>2 DEF Placed, Behind, e
  <2>5. Dist(e, End(k + 1)) = Dist(S, End(k + 1)) - Dist(S, e)
        /\ Dist(e, E) = Dist(S, E) - Dist(S, e)
    BY <1>1, <1>3, <1>4, <2>4
  <2>6. 0 < Dist(e, End(k + 1)) /\ Dist(e, End(k + 1)) <= Dist(e, E)
    BY <1>1, <1>4, <2>4, <2>5
  <2>7. ASSUME NEW x \in Held(k + 1) PROVE Dist(e, x) < Dist(e, End(k + 1))
    BY <1>1, <1>3, <1>4, <2>4, <2>5
  <2>8. Held(k + 1) \subseteq Ring
    BY <2>4
  <2> QED
    BY <1>2, <2>3, <2>4, <2>6, <2>7, <2>8 DEF Placed
<1>6. ASSUME NEW j \in 1..Buffers', NEW k \in 1..Buffers', j < k PROVE Behind(j, k)'
  <2>1. j + 1 \in 1..Buffers /\ k + 1 \in 1..Buffers /\ j + 1 < k + 1 /\ 1 < k + 1 /\ 1 < j + 1
    BY <1>6
  <2>2. Placed(j + 1) /\ Placed(k + 1) /\ Behind(1, j + 1) /\ Behind(1, k + 1) /\ Behind(j + 1, k + 1)
    BY <2>1, RingMembers
  <2>3. End(j)' = End(j + 1) /\ End(k)' = End(k + 1) /\ Held(k)' = Held(k + 1)
    OBVIOUS
  <2>4. /\ End(j + 1) \in Ring /\ End(k + 1) \in Ring
        /\ Dist(S, e) < Dist(S, End(j + 1)) /\ Dist(S, End(j + 1)) < Dist(S, End(k + 1))
        /\ \A x \in Held(k + 1) : /\ x \in Ring /\ Dist(S, e) <= Dist(S, x)
                                  /\ Dist(S, End(j + 1)) <= Dist(S, x)
    BY <2>2 DEF Placed, Behind, e
  <2>5. Dist(e, End(j + 1)) = Dist(S, End(j + 1)) - Dist(S, e)
    BY <1>1, <1>3, <1>4, <2>4
  <2>6. Dist(e, End(k + 1)) = Dist(S, End(k + 1)) - Dist(S, e)
    <3>1. Dist(S, e) <= Dist(S, End(k + 1))
      BY <1>1, <1>4, <2>4
    <3> QED
      BY <1>3, <2>4, <3>1
  <2>7. Dist(e, End(j + 1)) < Dist(e, End(k + 1))
    BY <1>1, <1>4, <2>4, <2>5, <2>6
  <2>8. ASSUME NEW x \in Held(k + 1) PROVE Dist(e, End(j + 1)) <= Dist(e, x)
    BY <1>1, <1>3, <1>4, <2>4, <2>5
  <2> QED
    BY <1>2, <2>3, <2>7, <2>8 DEF Behind
<1>7. WriterSees'
  <2> SUFFICES ASSUME writer # <<>>
               PROVE  writer[1].start \in Ring /\ Dist(e, E) <= Dist(writer[1].start, E)
    BY <1>2 DEF WriterSees
  <2>1. writer[1].start \in Ring /\ Dist(S, E) <= Dist(writer[1].start, E)
    BY RingMembers DEF WriterSees
  <2>2. Dist(e, E) = Dist(S, E) - Dist(S, e)
    BY <1>1, <1>3
  <2>3. Dist(writer[1].start, E) \in Int
    BY <1>1, <2>1, DistRange, SizeOfRing
  <2> QED
    BY <1>1, <1>4, <2>1, <2>2, <2>3
<1> QED
  BY <1>1, <1>2, <1>5, <1>6, <1>7 DEF RingInv

\* A new buffer behind all the others.
LEMMA BufferWritten ==
    ASSUME RingInv, ~filled, ~overtook, UNCHANGED dataStart, writer' = <<>>,
           NEW w \in Ring, Dist(S, E) <= Dist(w, E),
           NEW n \in Nat, Buffers = n, Buffers' = n + 1, dataEnd' = End(n + 1)',
           \A k \in 1..n : End(k)' = End(k) /\ Held(k)' = Held(k),
           dataEnd' \in Ring, Held(n + 1)' \subseteq Ring,
           Dist(w, E) < Dist(w, dataEnd'),
           \A x \in Held(n + 1)' : Dist(w, E) <= Dist(w, x) /\ Dist(w, x) < Dist(w, dataEnd')
    PROVE  RingInv'
<1> DEFINE e == dataEnd'
           new == Held(n + 1)'
<1>1. S \in Ring /\ E \in Ring /\ e \in Ring /\ S' = S /\ E' = e
  BY RingMembers, InRing DEF S, E
<1>2. \A y \in Ring : Dist(S, y) \in Int /\ Dist(w, y) \in Int
  BY <1>1, DistRange, SizeOfRing
<1>3. 0 <= Dist(S, E) /\ Dist(w, S) = Dist(w, E) - Dist(S, E)
  BY <1>1, Between, DistRange, SizeOfRing
<1> HIDE DEF e, new
<1>4. ASSUME NEW y \in Ring, Dist(w, E) <= Dist(w, y)
      PROVE  Dist(S, y) = Dist(w, y) - Dist(w, S)
  <2>1. Dist(w, S) <= Dist(w, y)
    BY <1>1, <1>2, <1>3, <1>4
  <2> QED
    BY <1>1, <2>1, Shift
<1>5. Dist(w, E) < Dist(w, e) /\ new \subseteq Ring
      /\ \A x \in new : Dist(w, E) <= Dist(w, x) /\ Dist(w, x) < Dist(w, e)
  BY DEF e, new
<1>6. Dist(S, E) < Dist(S, e)
  <2>1. Dist(S, e) = Dist(w, e) - Dist(w, S)
    BY <1>1, <1>2, <1>4, <1>5
  <2> QED
    BY <1>1, <1>2, <1>3, <1>5, <2>1
<1>7. ASSUME NEW x \in new PROVE Dist(S, E) <= Dist(S, x) /\ Dist(S, x) < Dist(S, e)
  <2>1. x \in Ring /\ Dist(w, E) <= Dist(w, x) /\ Dist(w, x) < Dist(w, e)
    BY <1>5
  <2>2. Dist(S, e) = Dist(w, e) - Dist(w, S) /\ Dist(S, x) = Dist(w, x) - Dist(w, S)
    BY <1>1, <1>2, <1>4, <1>5, <2>1
  <2> QED
    BY <1>1, <1>2, <1>3, <2>1, <2>2
<1>8. End(n + 1)' = e /\ Held(n + 1)' = new
  BY DEF e, new
<1>9. \A k \in 1..n + 1 : k \in 1..n \/ k = n + 1
  OBVIOUS
<1>10. ASSUME NEW k \in 1..n + 1
       PROVE  /\ End(k)' \in Ring /\ Held(k)' \subseteq Ring
              /\ 0 < Dist(S, End(k)') /\ Dist(S, End(k)') <= Dist(S, e)
              /\ \A x \in Held(k)' : Dist(S, x) < Dist(S, End(k)')
  <2>1. CASE k \in 1..n
    <3>1. Placed(k) /\ End(k)' = End(k) /\ Held(k)' = Held(k)
      BY <2>1, RingMembers
    <3> QED
      BY <1>1, <1>2, <1>6, <3>1 DEF Placed
  <2>2. CASE k = n + 1
    BY <1>1, <1>2, <1>3, <1>5, <1>6, <1>7, <1>8, <2>2
  <2> QED
    BY <1>9, <2>1, <2>2
<1>11. ASSUME NEW j \in 1..n + 1, NEW k \in 1..n + 1, j < k
       PROVE  /\ Dist(S, End(j)') < Dist(S, End(k)')
              /\ \A x \in Held(k)' : Dist(S, End(j)') <= Dist(S, x)
  <2>1. j \in 1..n
    BY <1>11
  <2>2. Placed(j) /\ End(j)' = End(j)
    BY <2>1, RingMembers
  <2>3. CASE k \in 1..n
    <3>1. Behind(j, k) /\ End(k)' = End(k) /\ Held(k)' = Held(k)
      BY <1>11, <2>1, <2>3, RingMembers
    <3> QED
      BY <2>2, <3>1 DEF Behind
  <2>4. CASE k = n + 1
    <3>1. End(j) \in Ring /\ Dist(S, End(j)) <= Dist(S, E)
      BY <2>2 DEF Placed
    <3>2. Dist(S, End(j)) < Dist(S, e)
      BY <1>1, <1>2, <1>6, <3>1
    <3>3. \A x \in new : Dist(S, End(j)) <= Dist(S, x)
      BY <1>1, <1>2, <1>5, <1>7, <3>1
    <3> QED
      BY <1>8, <2>2, <2>4, <3>2, <3>3
  <2> QED
    BY <1>9, <2>3, <2>4
<1> QED
  BY <1>1, <1>10, <1>11 DEF RingInv, Placed, Behind, WriterSees

\* The lists of chunks in drawPackets and ui have their types, and a number.
LEMMA BufferCounts ==
    ASSUME Shape
    PROVE  /\ Len(ui) \in Nat /\ Len(drawPackets) \in Nat /\ Buffers \in Nat
           /\ ui # <<>> => Len(ui) >= 1
           /\ drawPackets # <<>> => Len(drawPackets) >= 1
           /\ ui = <<>> => Len(ui) = 0
           /\ drawPackets = <<>> => Len(drawPackets) = 0
<1>1. /\ ui \in Seq([chunks : Lists \cup {<<>>}, end : 0..MmapSize]) /\ drawPackets \in Seq(Lists)
  BY DEF Shape
<1>2. Len(ui) \in Nat /\ Len(drawPackets) \in Nat
  BY <1>1
<1>3. (ui # <<>> => Len(ui) # 0) /\ (drawPackets # <<>> => Len(drawPackets) # 0)
  BY <1>1
<1> QED
  BY <1>2, <1>3 DEF Buffers

LEMMA InitRing == RingInit => RingInv
<1> SUFFICES ASSUME RingInit PROVE RingInv
  OBVIOUS
<1>1. Index(0) \in Ring
  BY SizeOfRing DEF Index, Ring
<1>2. S \in Ring /\ E \in Ring
  BY <1>1 DEF RingInit, S, E
<1>3. Buffers = 0
  BY DEF RingInit, Buffers
<1> QED
  BY <1>2, <1>3 DEF RingInit, RingInv, WriterSees

\* mmap_write reads data_start
LEMMA RingWriteBegin ==
    ASSUME Shape, RingInv, NEW size \in Sizes, WriteBegin(size)
    PROVE  RingInv'
<1>1. /\ UNCHANGED <<dataStart, dataEnd, drawPackets, ui, filled, overtook>>
      /\ writer' = <<[start |-> S, size |-> size]>>
  BY DEF WriteBegin, S
<1>2. writer'[1].start = S
  BY <1>1
<1>3. UNCHANGED <<S, E, Buffers>> /\ \A k : Held(k)' = Held(k) /\ End(k)' = End(k)
  BY <1>1 DEF S, E, Buffers, Held, End
<1>4. CASE ~filled /\ ~overtook
  <2>1. S \in Ring /\ E \in Ring /\ Dist(S, E) \in Int
    BY <1>4, RingMembers, DistRange, SizeOfRing
  <2>2. WriterSees'
    BY <1>2, <1>3, <2>1 DEF WriterSees
  <2>3. \A k \in 1..Buffers : Placed(k)'
    BY <1>3, <1>4, RingMembers DEF Placed
  <2>4. \A j, k \in 1..Buffers : j < k => Behind(j, k)'
    BY <1>3, <1>4, RingMembers DEF Behind
  <2> QED
    BY <1>3, <2>1, <2>2, <2>3, <2>4 DEF RingInv
<1> QED
  BY <1>1, <1>4 DEF RingInv

\* mmap_write copies the pixels and stores data_end
LEMMA RingWriteEnd ==
    ASSUME Shape, WriterFits, RingInv, WriteEnd
    PROVE  RingInv'
<1> SUFFICES ASSUME ~filled', ~overtook' PROVE RingInv'
  BY DEF RingInv
<1> DEFINE w == writer[1].start
           size == writer[1].size
           chunks == WriteChunks(w, E, size)
<1>1. /\ writer # <<>> /\ dataEnd' = LastEnd(chunks) /\ drawPackets' = Append(drawPackets, chunks)
      /\ filled' = (filled \/ size = Available(w, E)) /\ writer' = <<>>
      /\ UNCHANGED <<dataStart, ui, overtook>>
  BY DEF WriteEnd, E
<1>2. ~filled /\ ~overtook /\ size # Available(w, E)
  BY <1>1
<1>3. S \in Ring /\ E \in Ring /\ w \in Ring /\ Dist(S, E) <= Dist(w, E)
  BY <1>1, <1>2, RingMembers DEF WriterSees
<1>4. size \in Sizes /\ size \in Nat
  <2>1. writer # <<>>
    BY <1>1
  <2>2. size \in Sizes
    BY <2>1 DEF Shape, Writers
  <2> QED
    BY <2>2, MmapAssumption
<1>5. size < Available(w, E)
  <2>1. size <= Available(w, E)
    BY <1>1 DEF WriterFits, Fits, E
  <2>2. Available(w, E) \in Int
    BY <1>3, SizeOfRing DEF Available, Ring
  <2> QED
    BY <1>2, <1>4, <2>1, <2>2
<1>6. /\ LastEnd(chunks) \in Ring /\ Bytes(chunks) \subseteq Ring
      /\ Dist(w, E) < Dist(w, LastEnd(chunks))
      /\ \A x \in Bytes(chunks) : /\ Dist(w, E) <= Dist(w, x)
                                  /\ Dist(w, x) < Dist(w, LastEnd(chunks))
  BY <1>3, <1>4, <1>5, WrittenAhead
<1>7. chunks \in Lists
  BY <1>1, WrittenInside DEF E
<1> HIDE DEF w, size, chunks
<1>8. PICK n \in Nat : n = Buffers
  BY BufferCounts
<1>9. /\ Len(ui) \in Nat /\ Len(drawPackets) \in Nat /\ n = Len(ui) + Len(drawPackets)
      /\ Len(drawPackets') = Len(drawPackets) + 1 /\ drawPackets'[Len(drawPackets) + 1] = chunks
      /\ \A k \in 1..Len(drawPackets) : drawPackets'[k] = drawPackets[k]
  BY <1>1, <1>7, <1>8, BufferCounts DEF Shape, Buffers
<1>10. Buffers' = n + 1
  BY <1>1, <1>9 DEF Buffers
<1>11. Held(n + 1)' = Bytes(chunks) /\ End(n + 1)' = LastEnd(chunks)
  <2>1. ~(n + 1 <= Len(ui)) /\ (n + 1) - Len(ui) = Len(drawPackets) + 1
    BY <1>9
  <2> QED
    BY <1>1, <1>9, <2>1 DEF Held, End
<1>12. ASSUME NEW k \in 1..n PROVE End(k)' = End(k) /\ Held(k)' = Held(k)
  <2>1. k <= Len(ui) \/ k - Len(ui) \in 1..Len(drawPackets)
    BY <1>9
  <2> QED
    BY <1>1, <1>9, <2>1 DEF Held, End
<1> QED
  BY <1>1, <1>2, <1>3, <1>6, <1>8, <1>10, <1>11, <1>12, BufferWritten

\* The draw thread hands the oldest list to the UI thread, or drops it.
LEMMA RingDraw ==
    ASSUME Shape, RingInv, ReadZeroCopy \/ DrawWindowGone \/ DrawError
    PROVE  RingInv'
<1> SUFFICES ASSUME ~filled', ~overtook' PROVE RingInv'
  BY DEF RingInv
<1>1. /\ drawPackets # <<>> /\ drawPackets' = Tail(drawPackets)
      /\ UNCHANGED <<dataStart, dataEnd, writer, filled, overtook>>
      /\ \/ ui' = ui
         \/ \E chunks \in {Head(drawPackets), <<>>} :
               ui' = Append(ui, [chunks |-> chunks, end |-> LastEnd(Head(drawPackets))])
  BY DEF ReadZeroCopy, DrawWindowGone, DrawError
<1>2. drawPackets \in Seq(Lists) /\ ui \in Seq([chunks : Lists \cup {<<>>}, end : 0..MmapSize])
  BY DEF Shape
<1>3. PICK n \in Nat, m \in Nat : n = Len(ui) /\ m = Len(drawPackets) /\ m >= 1 /\ Buffers = n + m
  BY <1>1, BufferCounts DEF Buffers
<1>4. /\ Len(drawPackets') = m - 1 /\ Head(drawPackets) = drawPackets[1]
      /\ \A k \in 1..(m - 1) : drawPackets'[k] = drawPackets[k + 1]
  BY <1>1, <1>2, <1>3
<1>5. WriterSees'
  <2>1. UNCHANGED <<S, E>>
    BY <1>1 DEF S, E
  <2> QED
    BY <1>1, <2>1, RingMembers DEF WriterSees
<1>6. CASE ui' = ui
  <2> DEFINE f == [k \in 1..(n + m - 1) |-> IF k <= n THEN k ELSE k + 1]
  <2>1. Buffers' = n + m - 1
    BY <1>3, <1>4, <1>6 DEF Buffers
  <2>2. ASSUME NEW k \in 1..(n + m - 1)
        PROVE  f[k] \in 1..(n + m) /\ End(k)' = End(f[k]) /\ Held(k)' \subseteq Held(f[k])
    <3>1. CASE k <= n
      BY <1>3, <1>6, <3>1 DEF Held, End
    <3>2. CASE ~(k <= n)
      <4>1. /\ f[k] = k + 1 /\ ~(k + 1 <= n) /\ k - n \in 1..(m - 1)
            /\ (k + 1) - n = (k - n) + 1
        BY <3>2
      <4>2. drawPackets'[k - n] = drawPackets[(k - n) + 1]
        BY <1>4, <4>1
      <4> QED
        BY <1>3, <1>6, <3>2, <4>1, <4>2 DEF Held, End
    <3> QED
      BY <3>1, <3>2
  <2>3. \A j, k \in 1..(n + m - 1) : j < k => f[j] < f[k]
    OBVIOUS
  <2> HIDE DEF f
  <2> QED
    BY <1>1, <1>3, <1>5, <2>1, <2>2, <2>3, BuffersMove
<1>7. CASE \E chunks \in {Head(drawPackets), <<>>} :
              ui' = Append(ui, [chunks |-> chunks, end |-> LastEnd(Head(drawPackets))])
  <2> DEFINE f == [k \in 1..(n + m) |-> k]
  <2>1. PICK chunks \in {Head(drawPackets), <<>>} :
              ui' = Append(ui, [chunks |-> chunks, end |-> LastEnd(Head(drawPackets))])
    BY <1>7
  <2>2. /\ Len(ui') = n + 1 /\ ui'[n + 1] = [chunks |-> chunks, end |-> LastEnd(Head(drawPackets))]
        /\ \A k \in 1..n : ui'[k] = ui[k]
    BY <1>2, <1>3, <2>1
  <2>3. Buffers' = n + m
    BY <1>3, <1>4, <2>2 DEF Buffers
  <2>4. ASSUME NEW k \in 1..(n + m)
        PROVE  End(k)' = End(k) /\ Held(k)' \subseteq Held(k)
    <3>1. CASE k <= n
      BY <1>3, <2>2, <3>1 DEF Held, End
    <3>2. CASE k = n + 1
      <4>1. /\ End(k) = LastEnd(drawPackets[1]) /\ Held(k) = Bytes(drawPackets[1])
        BY <1>3, <3>2 DEF Held, End
      <4>2. /\ End(k)' = LastEnd(Head(drawPackets)) /\ Held(k)' = Bytes(chunks)
        BY <2>2, <3>2 DEF Held, End
      <4>3. Bytes(chunks) \subseteq Bytes(Head(drawPackets))
        BY NoChunk
      <4> QED
        BY <1>4, <4>1, <4>2, <4>3
    <3>3. CASE k > n + 1
      <4>1. /\ ~(k <= n) /\ ~(k <= n + 1) /\ k - (n + 1) \in 1..(m - 1)
            /\ k - n = (k - (n + 1)) + 1
        BY <3>3
      <4>2. drawPackets'[k - (n + 1)] = drawPackets[k - n]
        BY <1>4, <4>1
      <4> QED
        BY <1>3, <2>2, <4>1, <4>2 DEF Held, End
    <3> QED
      BY <3>1, <3>2, <3>3
  <2>5. ASSUME NEW k \in 1..(n + m)
        PROVE  f[k] \in 1..(n + m) /\ End(k)' = End(f[k]) /\ Held(k)' \subseteq Held(f[k])
    <3>1. f[k] = k
      OBVIOUS
    <3> QED
      BY <2>4, <3>1
  <2>6. \A j, k \in 1..(n + m) : j < k => f[j] < f[k]
    OBVIOUS
  <2> HIDE DEF f
  <2> QED
    BY <1>1, <1>3, <1>5, <2>3, <2>5, <2>6, BuffersMove
<1> QED
  BY <1>1, <1>6, <1>7

\* A buffer is copied with none before it, or the UI thread is done with the oldest.
LEMMA RingRelease ==
    ASSUME Shape, RingInv, ReadCopy \/ UIRelease
    PROVE  RingInv'
<1> SUFFICES ASSUME ~filled', ~overtook' PROVE RingInv'
  BY DEF RingInv
<1>1. drawPackets \in Seq(Lists) /\ ui \in Seq([chunks : Lists \cup {<<>>}, end : 0..MmapSize])
  BY DEF Shape
<1>2. PICK n \in Nat, m \in Nat : n = Len(ui) /\ m = Len(drawPackets) /\ Buffers = n + m
  BY BufferCounts DEF Buffers
<1>3. CASE ReadCopy
  <2>1. /\ drawPackets # <<>> /\ drawPackets' = Tail(drawPackets) /\ dataStart' = LastEnd(Head(drawPackets)) /\ ui = <<>>
        /\ ~filled /\ ~overtook /\ UNCHANGED <<dataEnd, writer, ui>>
    BY <1>3 DEF ReadCopy
  <2>2. n = 0 /\ m >= 1 /\ Len(ui') = 0
    BY <1>2, <2>1, BufferCounts
  <2>3. /\ Len(drawPackets') = m - 1 /\ Head(drawPackets) = drawPackets[1]
        /\ \A k \in 1..(m - 1) : drawPackets'[k] = drawPackets[k + 1]
    BY <1>1, <1>2, <2>1, <2>2
  <2>4. Buffers = m /\ Buffers' = m - 1
    BY <1>2, <2>2, <2>3 DEF Buffers
  <2>5. dataStart' = End(1)
    BY <1>2, <2>1, <2>2, <2>3 DEF End
  <2>6. ASSUME NEW k \in 1..(m - 1) PROVE End(k)' = End(k + 1) /\ Held(k)' = Held(k + 1)
    <3>1. ~(k <= 0) /\ ~(k + 1 <= 0) /\ k - 0 = k /\ (k + 1) - 0 = k + 1
      OBVIOUS
    <3> QED
      BY <1>2, <2>2, <2>3, <3>1 DEF End, Held
  <2> QED
    BY <2>1, <2>2, <2>4, <2>5, <2>6, OldestDone
<1>4. CASE UIRelease
  <2>1. /\ ui # <<>> /\ ui' = Tail(ui) /\ dataStart' = Head(ui).end
        /\ ~filled /\ ~overtook /\ UNCHANGED <<dataEnd, writer, drawPackets>>
    BY <1>4 DEF UIRelease
  <2>2. n >= 1
    BY <1>2, <2>1, BufferCounts
  <2>3. /\ Len(ui') = n - 1 /\ Head(ui) = ui[1]
        /\ \A k \in 1..(n - 1) : ui'[k] = ui[k + 1]
    BY <1>1, <1>2, <2>1, <2>2
  <2>4. Buffers' = n + m - 1
    BY <1>2, <2>1, <2>3 DEF Buffers
  <2>5. dataStart' = End(1)
    BY <1>2, <2>1, <2>2, <2>3 DEF End
  <2>6. ASSUME NEW k \in 1..(n + m - 1) PROVE End(k)' = End(k + 1) /\ Held(k)' = Held(k + 1)
    <3>1. CASE k <= n - 1
      BY <1>2, <2>3, <3>1 DEF End, Held
    <3>2. CASE ~(k <= n - 1)
      <4>1. ~(k + 1 <= n) /\ (k + 1) - n = k - (n - 1)
        BY <3>2
      <4> QED
        BY <1>2, <2>1, <2>3, <3>2, <4>1 DEF End, Held
    <3> QED
      BY <3>1, <3>2
  <2> QED
    BY <1>2, <2>1, <2>2, <2>4, <2>5, <2>6, OldestDone
<1> QED
  BY <1>3, <1>4

LEMMA NextRing ==
    ASSUME Shape, WriterFits, RingInv, [RingNext]_ringVars
    PROVE  RingInv'
<1>1. CASE UNCHANGED ringVars
  <2>1. UNCHANGED <<S, E, Buffers, writer, filled, overtook>>
        /\ \A k : Held(k)' = Held(k) /\ End(k)' = End(k)
    BY <1>1 DEF ringVars, S, E, Buffers, Held, End
  <2> QED
    BY <2>1 DEF RingInv, Placed, Behind, WriterSees
<1> QED
  BY <1>1, RingWriteBegin, RingWriteEnd, RingDraw, RingRelease DEF RingNext, WriteFull

\* In a ring without two buffers over each other, the live ones are disjoint.
LEMMA RingDisjoint ==
    ASSUME Shape, RingInv
    PROVE  NoOverwrite
<1> SUFFICES ASSUME ~filled, ~overtook PROVE Disjoint
  BY DEF NoOverwrite
<1>1. PICK n \in Nat, m \in Nat : n = Len(ui) /\ m = Len(drawPackets) /\ Buffers = n + m
  BY BufferCounts DEF Buffers
<1> DEFINE C == Lists \cup {<<>>}
           painted == [i \in 1..n |-> ui[i].chunks]
<1>2. drawPackets \in Seq(C) /\ ui \in Seq([chunks : C, end : 0..MmapSize])
  BY DEF Shape
<1>3. painted \in Seq(C) /\ Len(painted) = n
  <2> HIDE DEF C
  <2>1. ASSUME NEW i \in 1..n PROVE ui[i].chunks \in C
    <3> DEFINE R == [chunks : C, end : 0..MmapSize]
    <3>1. ui \in Seq(R) /\ i \in 1..Len(ui)
      BY <1>1, <1>2
    <3> HIDE DEF R
    <3>2. ui[i] \in R
      BY <3>1, ElementOfSeq
    <3>3. ui[i] \in [chunks : C, end : 0..MmapSize]
      BY <3>2 DEF R
    <3> QED
      BY <3>3
  <2> QED
    BY <1>1, <2>1
<1>4. Live = painted \o drawPackets
  BY <1>1 DEF Live
<1>5. \A i \in 1..n : painted[i] = ui[i].chunks
  OBVIOUS
<1> HIDE DEF C, painted
<1>6. /\ Len(Live) = n + m
      /\ \A i \in 1..(n + m) : Live[i] = IF i <= n THEN painted[i] ELSE drawPackets[i - n]
  <2>1. drawPackets \in Seq(C) /\ Len(drawPackets) = m
    BY <1>1, <1>2
  <2>2. /\ Len(painted \o drawPackets) = Len(painted) + Len(drawPackets)
        /\ \A i \in 1..(Len(painted) + Len(drawPackets)) :
             (painted \o drawPackets)[i] = IF i <= Len(painted) THEN painted[i] ELSE drawPackets[i - Len(painted)]
    BY <1>3, <2>1, ConcatProperties
  <2> QED
    BY <1>3, <1>4, <2>1, <2>2
<1>7. ASSUME NEW i \in 1..(n + m) PROVE Bytes(Live[i]) = Held(i)
  BY <1>1, <1>5, <1>6 DEF Held
<1>8. ASSUME NEW i \in 1..(n + m), NEW j \in 1..(n + m), i < j, NEW x \in Held(i), x \in Held(j)
      PROVE  FALSE
  <2>1. Placed(i) /\ Behind(i, j) /\ Placed(j) /\ S \in Ring
    BY <1>1, <1>8, RingMembers
  <2>2. Dist(S, x) < Dist(S, End(i)) /\ Dist(S, End(i)) <= Dist(S, x)
    BY <1>8, <2>1 DEF Placed, Behind
  <2>3. Dist(S, x) \in Int /\ Dist(S, End(i)) \in Int
    BY <1>8, <2>1, DistRange, SizeOfRing DEF Placed
  <2> QED
    BY <2>2, <2>3
<1> QED
  <2> SUFFICES ASSUME NEW i \in 1..(n + m), NEW j \in 1..(n + m), i # j
               PROVE  Held(i) \cap Held(j) = {}
    BY <1>6, <1>7 DEF Disjoint
  <2>1. i < j \/ j < i
    OBVIOUS
  <2> QED
    BY <1>8, <2>1

LEMMA RingAlways == RingSpec => [](Shape /\ RingInv)
<1>1. RingInit => Shape /\ WriterFits /\ RingInv
  BY InitShape, InitRing
<1>2. Shape /\ WriterFits /\ RingInv /\ [RingNext]_ringVars => (Shape /\ WriterFits /\ RingInv)'
  BY NextShape, NextRing
<1> QED
  BY <1>1, <1>2, PTL DEF RingSpec

----------------------------------------------------------------------------
(* The theorems.                                                            *)

\* The indexes and the chunks keep their types: none is outside the area.
THEOREM RingTypeCorrect == RingSpec => []RingTypeOK
<1>1. Shape => RingTypeOK
  <2> SUFFICES ASSUME Shape PROVE RingTypeOK
    OBVIOUS
  <2>1. /\ dataStart \in 0..MmapSize /\ dataEnd \in 0..MmapSize
        /\ filled \in BOOLEAN /\ overtook \in BOOLEAN /\ leaked \in BOOLEAN
    BY DEF Shape
  <2>2. writer = <<>> \/ (Len(writer) = 1 /\ writer[1].start \in HEADER..MmapSize
                                          /\ writer[1].size \in Sizes)
    BY DEF Shape, Writers
  <2>3. ASSUME NEW i \in 1..Len(drawPackets), NEW j \in 1..Len(drawPackets[i])
        PROVE  drawPackets[i][j] \in Chunk
    <3>1. drawPackets[i] \in Lists
      BY ElementOfSeq DEF Shape
    <3>2. Inside \subseteq Chunk
      BY MmapAssumption DEF Inside, Chunk, HEADER
    <3>3. drawPackets[i][j] \in Inside
      <4>1. CASE \E c \in Inside : drawPackets[i] = <<c>>
        BY <4>1
      <4>2. CASE \E c \in Inside \X Inside : drawPackets[i] = <<c[1], c[2]>>
        <5>1. PICK c \in Inside \X Inside : drawPackets[i] = <<c[1], c[2]>>
          BY <4>2
        <5>2. c[1] \in Inside /\ c[2] \in Inside /\ j \in 1..2
          BY <5>1
        <5> HIDE DEF Inside
        <5>3. j = 1 \/ j = 2
          BY <5>2
        <5> QED
          BY <5>1, <5>2, <5>3
      <4> QED
        BY <3>1, <4>1, <4>2 DEF Lists
    <3> QED
      BY <3>2, <3>3
  <2>4. ASSUME NEW i \in 1..Len(ui) PROVE ui[i].end \in 0..MmapSize
    <3>1. ui[i] \in [chunks : Lists \cup {<<>>}, end : 0..MmapSize]
      BY ElementOfSeq DEF Shape
    <3> QED
      BY <3>1
  <2> QED
    BY <2>1, <2>2, <2>3, <2>4 DEF RingTypeOK
<1> QED
  BY Always, <1>1, PTL

\* mmap_write (io.py): no buffer ever lies over the two shared indexes or past the end of
\* the area, for any size of the area and of the buffers.
THEOREM BuffersInsideArea == RingSpec => []InsideArea
<1>1. Shape => InsideArea
  <2> SUFFICES ASSUME Shape, NEW i \in 1..Len(drawPackets)
               PROVE  Bytes(drawPackets[i]) \subseteq HEADER..(MmapSize - 1)
    BY DEF InsideArea
  <2>1. drawPackets[i] \in Lists
    BY DEF Shape
  <2> QED
    BY <2>1, ListBytes
<1> QED
  BY Always, <1>1, PTL

\* free_mem and draw_cleanup: an area whose buffers have all been painted or dropped is
\* free again, for any size and any number of buffers.
THEOREM DrainedAreaIsFree == RingSpec => []DrainedIsFree
<1>1. LatestAtEnd => DrainedIsFree
  BY DEF LatestAtEnd, DrainedIsFree
<1> QED
  BY Always, <1>1, PTL

\* mmap_write and mmap_read: no buffer is written over one that the client has yet to read
\* or paint, whatever the sizes, unless a write has filled the area to the last byte or a
\* copied read has gone ahead of a buffer that waits for the UI thread.
THEOREM LiveBuffersIntact == RingSpec => []NoOverwrite
<1>1. Shape /\ RingInv => NoOverwrite
  BY RingDisjoint
<1> QED
  BY RingAlways, <1>1, PTL
=============================================================================
