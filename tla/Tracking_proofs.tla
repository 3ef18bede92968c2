--------------------------- MODULE Tracking_proofs ---------------------------
(* Of tracked time: what ActivityTracker credits is credited once and only    *)
(* with consent, and OfflineQueue of the browser extension loses no heartbeat. *)
EXTENDS ActivityTracker, OfflineQueue, FiniteSetTheorems, SequenceTheorems, TLAPS

-----------------------------------------------------------------------------
(* ActivityTracker *)

(* What holds of the rows ss of activity_sessions: the total of a session is   *)
(* the number of its ticks, all of them past; one session at most is open, no  *)
(* tick is of two, and none, nor one without consent, is later than the last    *)
(* beat of the open session.                                                 *)
SoundSessions(ss) ==
    /\ \A i \in 1..Len(ss) :
          /\ ss[i].total = Cardinality(ss[i].credited)
          /\ ss[i].credited \subseteq 1..clock /\ ss[i].seen <= clock
          /\ ~slipped => ss[i].credited \cap denied = {}
    /\ \A i, j \in 1..Len(ss) :
          /\ ss[i].active /\ ss[j].active => i = j
          /\ i # j => ss[i].credited \cap ss[j].credited = {}
          /\ ss[i].active => \A k \in ss[j].credited : k <= ss[i].seen
    /\ \A i \in 1..Len(ss) : ss[i].active /\ ~slipped => \A k \in denied : k <= ss[i].seen

(* Requests are about sessions that exist, and arrived in the past.             *)
CallSound(call, n, now) ==
    /\ call.at <= now /\ call.routed <= n
    /\ call.step # "none" => call.todo # <<>>
    /\ call.step # "none" /\ call.op = "beat" => call.sid \in 1..n

(* Beside the rows and the requests: without consent, and once it is taken back,  *)
(* no session is open but one that slipped through.                             *)
CreditInv ==
    /\ TrackerTypeOK
    /\ SoundSessions(sessions)
    /\ denied \subseteq 1..clock
    /\ ~slipped /\ ~consented /\ ~closing => \A i \in SessionIds : ~sessions[i].active
    /\ \A c \in Calls : CallSound(calls[c], Len(sessions), clock)

(* The day of a moment is no later than the last day.                         *)
LEMMA DaysInOrder ==
  ASSUME NEW t \in Instants
  PROVE  DayOf(t) \in 0..DayOf(MaxClock) /\ Midnight(t) \in Nat
  <1>1. DayLength \in Nat \ {0} /\ MaxClock \in Nat /\ t \in Nat /\ t <= MaxClock
    BY TrackerTimeAssumption, TrackerBoundsAssumption DEF Instants
  <1>2. DayOf(t) \in Nat /\ DayOf(MaxClock) \in Nat
    BY <1>1 DEF DayOf
  <1>3. /\ t = DayLength * DayOf(t) + (t % DayLength) /\ t % DayLength \in 0..(DayLength - 1)
        /\ MaxClock = DayLength * DayOf(MaxClock) + (MaxClock % DayLength)
        /\ MaxClock % DayLength \in 0..(DayLength - 1)
    BY <1>1 DEF DayOf
  <1>4. DayOf(t) <= DayOf(MaxClock)
    BY <1>1, <1>2, <1>3
  <1>5. Midnight(t) \in Nat
    BY <1>1, <1>2 DEF Midnight
  <1> QED
    BY <1>2, <1>4, <1>5

(* A row's type, field by field.                                             *)
LEMMA SessionFields ==
  ASSUME NEW s \in Session
  PROVE  /\ s.active \in BOOLEAN /\ s.day \in 0..DayOf(MaxClock) /\ s.seen \in Instants
         /\ s.total \in Nat /\ s.credited \in SUBSET Ticks
         /\ s.seen \in Nat /\ IsFiniteSet(s.credited)
  <1>1. /\ s.active \in BOOLEAN /\ s.day \in 0..DayOf(MaxClock) /\ s.seen \in Instants
        /\ s.total \in Nat /\ s.credited \in SUBSET Ticks
    BY DEF Session
  <1>2. IsFiniteSet(Ticks)
    BY TrackerBoundsAssumption, FS_Interval DEF Ticks
  <1> QED
    BY <1>1, <1>2, FS_Subset DEF Instants

(* A session that is closed is still a session.                               *)
LEMMA ClosedRow ==
  ASSUME NEW s \in Session
  PROVE  /\ Closed(s) \in Session /\ ~Closed(s).active /\ Closed(s).seen = 0
         /\ Closed(s).total = s.total /\ Closed(s).credited = s.credited
  <1>1. 0 \in Instants
    BY TrackerBoundsAssumption DEF Instants
  <1> QED
    BY <1>1 DEF Session, Closed

(* A session that starts has no ticks and no total.                           *)
LEMMA NewRow ==
  ASSUME clock \in Instants, NEW t \in Instants
  PROVE  /\ NewSession(t) \in Session /\ NewSession(t).active /\ NewSession(t).seen = clock
         /\ NewSession(t).total = 0 /\ NewSession(t).credited = {}
         /\ NewSession(t).day = DayOf(t)
  BY DaysInOrder DEF NewSession, Session

(* A beat at t is credited for ticks between the last beat and t, and the       *)
(* total grows by their number.                                              *)
LEMMA CreditedRow ==
  ASSUME NEW s \in Session, NEW t \in Instants, s.seen <= t
  PROVE  /\ Credit(s, t) \in Session /\ Credit(s, t).active = s.active /\ Credit(s, t).seen = t
         /\ Credit(s, t).day = s.day
         /\ s.credited \subseteq Credit(s, t).credited
         /\ \A k \in Credit(s, t).credited : k \in s.credited \/ k \in (s.seen + 1)..t
         /\ (s.total = Cardinality(s.credited) /\ \A k \in s.credited : k <= s.seen)
               => Credit(s, t).total = Cardinality(Credit(s, t).credited)
  <1> DEFINE delta == CappedDelta(s.seen, t)
             new == (t - delta + 1)..t
  <1>1. /\ s.active \in BOOLEAN /\ s.seen \in Nat /\ s.total \in Nat /\ s.credited \in SUBSET Ticks
        /\ IsFiniteSet(s.credited) /\ t \in Nat /\ t <= MaxClock /\ Cap \in Nat /\ MaxClock \in Nat
    BY SessionFields, TrackerTimeAssumption, TrackerBoundsAssumption DEF Instants
  <1>2. delta \in Nat /\ delta <= t - s.seen
    BY <1>1 DEF CappedDelta, Earlier, Later
  <1>3. Later(s.seen, t) = t
    BY <1>1 DEF Later
  <1> HIDE DEF delta
  <1>4. new \subseteq (s.seen + 1)..t /\ new \in SUBSET Ticks
    BY <1>1, <1>2 DEF Ticks
  <1>5. Credit(s, t) = [s EXCEPT !.total = s.total + delta, !.credited = s.credited \cup new,
                                 !.seen = t]
    BY <1>3 DEF Credit, delta, Session
  <1> HIDE DEF new
  <1>6. s.total + delta \in Nat /\ (s.credited \cup new) \in SUBSET Ticks
    <2>1. s.total + delta \in Nat
      BY <1>1, <1>2
    <2>2. (s.credited \cup new) \in SUBSET Ticks
      BY <1>1, <1>4, Zenon
    <2> QED
      BY <2>1, <2>2
  <1>7. /\ Credit(s, t) \in Session /\ Credit(s, t).active = s.active /\ Credit(s, t).seen = t
        /\ Credit(s, t).day = s.day
        /\ Credit(s, t).total = s.total + delta /\ Credit(s, t).credited = s.credited \cup new
    <2> DEFINE total == s.total + delta
               credited == s.credited \cup new
    <2>1. total \in Nat /\ credited \in SUBSET Ticks
      BY <1>6
    <2>2. Credit(s, t) = [s EXCEPT !.total = total, !.credited = credited, !.seen = t]
      BY <1>5
    <2> HIDE DEF total, credited
    <2>3. Credit(s, t) = [active |-> s.active, day |-> s.day, seen |-> t,
                          total |-> total, credited |-> credited]
      BY <2>2 DEF Session
    <2>4. Credit(s, t) \in Session
      BY <2>1, <2>3, SessionFields DEF Session
    <2> QED
      BY <2>3, <2>4 DEF total, credited
  <1>8. ASSUME s.total = Cardinality(s.credited), \A k \in s.credited : k <= s.seen
        PROVE  Credit(s, t).total = Cardinality(Credit(s, t).credited)
    <2>1. IsFiniteSet(new) /\ Cardinality(new) = delta
      <3> DEFINE first == t - delta + 1
      <3>1. first \in Int /\ t \in Int
        BY <1>1, <1>2
      <3> HIDE DEF first
      <3>2. IsFiniteSet(first..t) /\ Cardinality(first..t) = IF first > t THEN 0 ELSE t - first + 1
        BY ONLY <3>1, FS_Interval
      <3> QED
        BY <1>1, <1>2, <3>2 DEF first, new
    <2>2. s.credited \cap new = {}
      <3>1. \A k \in new : ~(k <= s.seen)
        BY <1>1, <1>4
      <3> QED
        BY <1>8, <3>1, Zenon
    <2>3. Cardinality(s.credited \cup new) = Cardinality(s.credited) + Cardinality(new)
                                               - Cardinality(s.credited \cap new)
      <3>1. IsFiniteSet(s.credited) /\ IsFiniteSet(new)
        BY <1>1, <2>1
      <3> QED
        BY ONLY <3>1, FS_Union
    <2>4. Cardinality(s.credited \cap new) = 0
      BY ONLY <2>2, FS_EmptySet
    <2> QED
      BY <1>1, <1>2, <1>7, <1>8, <2>1, <2>3, <2>4
  <1> QED
    BY <1>4, <1>7, <1>8

(* The rows of an open session may be replaced by one that was credited for     *)
(* later ticks only, open or closed.                                          *)
LEMMA ReplacedSound ==
  ASSUME NEW ss \in Seq(Session), SoundSessions(ss), clock \in Instants, denied \subseteq 1..clock,
         NEW i \in 1..Len(ss), NEW a \in Session, a.active => ss[i].active,
         a.total = Cardinality(a.credited), a.seen <= clock,
         a.active => ss[i].seen <= a.seen /\ \A k \in a.credited : k <= a.seen,
         \A k \in a.credited :
            k \in ss[i].credited \/ (ss[i].active /\ k > ss[i].seen /\ k <= clock)
  PROVE  SoundSessions([ss EXCEPT ![i] = a])
  <1> DEFINE tt == [ss EXCEPT ![i] = a]
  <1>1. Len(tt) = Len(ss) /\ tt[i] = a /\ \A j \in 1..Len(ss) : j # i => tt[j] = ss[j]
    OBVIOUS
  <1>2. clock \in Nat /\ (\A j \in 1..Len(ss) : ss[j].seen \in Nat /\ ss[j] \in Session)
        /\ a.seen \in Nat /\ ss[i].seen \in Nat
    BY SessionFields, TrackerBoundsAssumption DEF Instants
  <1>3. \A j \in 1..Len(ss) : \A k \in ss[j].credited : k \in 1..clock
    BY DEF SoundSessions
  <1>4. \A k \in a.credited : k \in Nat /\ k >= 1
    BY SessionFields DEF Ticks
  <1>5. \A k \in a.credited : k \in 1..clock
    BY <1>2, <1>3, <1>4
  <1> HIDE DEF tt
  <1>6. ASSUME NEW j \in 1..Len(ss), j # i
        PROVE  /\ ~(\E k \in a.credited : k \in ss[j].credited)
               /\ a.active => ~ss[j].active /\ \A k \in ss[j].credited : k <= a.seen
               /\ ss[j].active => ~a.active /\ \A k \in a.credited : k <= ss[j].seen
    <2>1. /\ ss[i].credited \cap ss[j].credited = {} /\ ~(ss[i].active /\ ss[j].active)
          /\ ss[i].active => \A k \in ss[j].credited : k <= ss[i].seen
          /\ ss[j].active => \A k \in ss[i].credited : k <= ss[j].seen
      BY <1>6 DEF SoundSessions
    <2>2. \A k \in ss[j].credited : k \in Int
      BY <1>3
    <2> QED
      BY <1>2, <2>1, <2>2
  <1>7. ASSUME ~slipped PROVE a.credited \cap denied = {}
    <2>1. ss[i].credited \cap denied = {} /\ (ss[i].active => \A k \in denied : k <= ss[i].seen)
      BY <1>7 DEF SoundSessions
    <2>2. \A k \in denied : k \in Int
      BY <1>2
    <2> QED
      BY <1>2, <1>4, <2>1, <2>2
  <1>8. a.active /\ ~slipped => \A k \in denied : k <= a.seen
    <2>1. ss[i].active /\ ~slipped => \A k \in denied : k <= ss[i].seen
      BY DEF SoundSessions
    <2>2. \A k \in denied : k \in Int
      BY <1>2
    <2> QED
      BY <1>2, <2>1, <2>2
  <1>9. \A j \in 1..Len(tt) :
          /\ tt[j].total = Cardinality(tt[j].credited)
          /\ tt[j].credited \subseteq 1..clock /\ tt[j].seen <= clock
          /\ ~slipped => tt[j].credited \cap denied = {}
          /\ tt[j].active /\ ~slipped => \A k \in denied : k <= tt[j].seen
    <2> TAKE j \in 1..Len(tt)
    <2>1. CASE j = i
      BY <1>1, <1>5, <1>7, <1>8, <2>1
    <2>2. CASE j # i
      BY <1>1, <2>2 DEF SoundSessions
    <2> QED
      BY <2>1, <2>2
  <1>10. \A j, l \in 1..Len(tt) :
          /\ tt[j].active /\ tt[l].active => j = l
          /\ j # l => tt[j].credited \cap tt[l].credited = {}
          /\ tt[j].active => \A k \in tt[l].credited : k <= tt[j].seen
    <2> TAKE j, l \in 1..Len(tt)
    <2>1. CASE j = i /\ l = i
      BY <1>1, <2>1
    <2>2. CASE j = i /\ l # i
      BY <1>1, <1>6, <2>2
    <2>3. CASE j # i /\ l = i
      BY <1>1, <1>6, <2>3
    <2>4. CASE j # i /\ l # i
      BY <1>1, <2>4 DEF SoundSessions
    <2> QED
      BY <2>1, <2>2, <2>3, <2>4
  <1> QED
    BY <1>9, <1>10 DEF SoundSessions, tt

(* With no session open, a new one starts after everything that was credited    *)
(* and after every tick without consent.                                      *)
LEMMA StartedSound ==
  ASSUME NEW ss \in Seq(Session), SoundSessions(ss), clock \in Instants, denied \subseteq 1..clock,
         NEW t \in Instants, \A i \in 1..Len(ss) : ~ss[i].active
  PROVE  SoundSessions(Append(ss, NewSession(t)))
  <1> DEFINE new == NewSession(t)
             tt == Append(ss, new)
  <1>1. /\ new \in Session /\ new.active /\ new.seen = clock /\ new.total = 0 /\ new.credited = {}
    BY NewRow
  <1> HIDE DEF new
  <1>2. /\ Len(ss) \in Nat /\ Len(tt) = Len(ss) + 1 /\ tt[Len(ss) + 1] = new
        /\ \A j \in 1..Len(ss) : tt[j] = ss[j]
    BY <1>1
  <1> HIDE DEF tt
  <1>3. clock \in Nat
    BY TrackerBoundsAssumption DEF Instants
  <1>4. Cardinality({}) = 0
    BY FS_EmptySet
  <1>5. \A j \in 1..Len(tt) :
          /\ tt[j].total = Cardinality(tt[j].credited)
          /\ tt[j].credited \subseteq 1..clock /\ tt[j].seen <= clock
          /\ ~slipped => tt[j].credited \cap denied = {}
          /\ tt[j].active /\ ~slipped => \A k \in denied : k <= tt[j].seen
    <2> TAKE j \in 1..Len(tt)
    <2>1. CASE j = Len(ss) + 1
      <3>1. tt[j] = new
        BY <1>2, <2>1
      <3>2. \A k \in denied : k <= clock
        BY <1>3
      <3>3. new.total = Cardinality(new.credited)
        BY ONLY <1>1, <1>4
      <3>4. new.seen <= clock /\ \A k \in denied : k <= new.seen
        BY <1>1, <1>3, <3>2
      <3>5. new.credited \subseteq 1..clock /\ new.credited \cap denied = {}
        BY <1>1
      <3> QED
        BY <3>1, <3>3, <3>4, <3>5, Zenon
    <2>2. CASE j # Len(ss) + 1
      <3>1. j \in 1..Len(ss) /\ tt[j] = ss[j]
        BY <1>2, <2>2
      <3> QED
        BY <3>1 DEF SoundSessions
    <2> QED
      BY <2>1, <2>2
  <1>6. \A j, l \in 1..Len(tt) :
          /\ tt[j].active /\ tt[l].active => j = l
          /\ j # l => tt[j].credited \cap tt[l].credited = {}
          /\ tt[j].active => \A k \in tt[l].credited : k <= tt[j].seen
    <2> TAKE j, l \in 1..Len(tt)
    <2>1. \A m \in 1..Len(tt) : m = Len(ss) + 1 \/ m \in 1..Len(ss)
      BY <1>2
    <2>2. \A m \in 1..Len(ss) : ~tt[m].active /\ tt[m].credited \subseteq 1..clock
      BY <1>2 DEF SoundSessions
    <2>3. CASE j \in 1..Len(ss) /\ l \in 1..Len(ss)
      BY <1>2, <2>2, <2>3 DEF SoundSessions
    <2>4. CASE j \in 1..Len(ss) /\ l = Len(ss) + 1
      BY <1>1, <1>2, <2>2, <2>4
    <2>5. CASE j = Len(ss) + 1 /\ l \in 1..Len(ss)
      BY <1>1, <1>2, <1>3, <2>2, <2>5
    <2>6. CASE j = Len(ss) + 1 /\ l = Len(ss) + 1
      BY <1>1, <1>2, <2>6
    <2> QED
      BY <2>1, <2>3, <2>4, <2>5, <2>6
  <1> QED
    BY <1>5, <1>6 DEF SoundSessions, tt, new

(* Sessions that are closed, any number of them, stay sound.                    *)
LEMMA ClosedSound ==
  ASSUME NEW ss \in Seq(Session), SoundSessions(ss), clock \in Instants, denied \subseteq 1..clock,
         NEW tt \in Seq(Session), Len(tt) = Len(ss),
         \A i \in 1..Len(ss) : tt[i] = ss[i] \/ tt[i] = Closed(ss[i])
  PROVE  SoundSessions(tt)
  <1>1. clock \in Nat
    BY TrackerBoundsAssumption DEF Instants
  <1>2. \A i \in 1..Len(ss) : /\ tt[i].total = ss[i].total /\ tt[i].credited = ss[i].credited
                              /\ tt[i].active => tt[i] = ss[i]
                              /\ tt[i].seen = ss[i].seen \/ tt[i].seen = 0
    BY ClosedRow
  <1>3. \A i \in 1..Len(ss) : tt[i].seen <= clock
    BY <1>1, <1>2 DEF SoundSessions
  <1> QED
    BY <1>2, <1>3 DEF SoundSessions


(* The sequences of S no longer than m. *)
LEMMA ShortSequences ==
  ASSUME NEW S, NEW m \in Nat, NEW q
  PROVE  q \in UNION {[1..n -> S] : n \in 0..m} <=> q \in Seq(S) /\ Len(q) <= m
  <1>1. ASSUME q \in UNION {[1..n -> S] : n \in 0..m} PROVE q \in Seq(S) /\ Len(q) <= m
    <2>1. PICK n \in 0..m : q \in [1..n -> S]
      BY <1>1
    <2>2. n \in Nat /\ q \in Seq(S)
      BY <2>1
    <2> QED
      BY <2>1, <2>2
  <1>2. ASSUME q \in Seq(S), Len(q) <= m PROVE q \in UNION {[1..n -> S] : n \in 0..m}
    <2>1. Len(q) \in 0..m /\ q \in [1..Len(q) -> S]
      BY <1>2
    <2> QED
      BY <2>1
  <1> QED
    BY <1>1, <1>2

(* The only sequence of no length is the empty one.                           *)
LEMMA EmptySequence ==
  ASSUME NEW S, NEW q \in Seq(S)
  PROVE  q = <<>> <=> Len(q) = 0
  OBVIOUS

(* The next entry of a request, and a beat in a session that has just begun,     *)
(* which is credited with nothing.                                            *)
LEMMA CallFields ==
  ASSUME NEW call \in Call
  PROVE  /\ call.step \in {"none", "arrived", "checked"} /\ call.op \in {"start", "beat"}
         /\ call.at \in Instants /\ call.sid \in 0..MaxSessions /\ call.routed \in 0..MaxSessions
         /\ call.todo \in Seq(Instants) /\ Len(call.todo) <= MaxReplay
  <1>1. call.todo \in UNION {[1..n -> Instants] : n \in 0..MaxReplay}
    BY DEF Call
  <1>2. call.todo \in Seq(Instants) /\ Len(call.todo) <= MaxReplay
    BY <1>1, ShortSequences, TrackerBoundsAssumption
  <1> QED
    BY <1>2 DEF Call

(* A call that is not under way.                                              *)
LEMMA NoCallType ==
  /\ NoCall \in Call /\ NoCall.step = "none" /\ NoCall.at = 0 /\ NoCall.routed = 0
  /\ \A n, now \in Nat : CallSound(NoCall, n, now)
  <1>1. <<>> \in Seq(Instants) /\ Len(<<>>) <= MaxReplay
    BY TrackerBoundsAssumption
  <1>2. <<>> \in UNION {[1..n -> Instants] : n \in 0..MaxReplay}
    BY <1>1, ShortSequences, TrackerBoundsAssumption
  <1>3. 0 \in Instants /\ 0 \in 0..MaxSessions
    BY TrackerBoundsAssumption DEF Instants
  <1> QED
    BY <1>2, <1>3 DEF NoCall, Call, CallSound

(* The calls that the steps set up.                                           *)
LEMMA BuiltCalls ==
  ASSUME NEW call \in Call, NEW at \in Instants, NEW sid \in 0..MaxSessions,
         NEW q \in Seq(Instants), Len(q) <= MaxReplay
  PROVE  /\ [NoCall EXCEPT !.step = "arrived", !.at = at, !.todo = q] \in Call
         /\ [NoCall EXCEPT !.step = "arrived", !.op = "beat", !.at = at, !.sid = sid, !.todo = q] \in Call
         /\ [call EXCEPT !.step = "checked"] \in Call
         /\ [call EXCEPT !.routed = sid] \in Call
         /\ [call EXCEPT !.step = "arrived", !.todo = q] \in Call
  <1>1. q \in UNION {[1..n -> Instants] : n \in 0..MaxReplay}
    BY ShortSequences, TrackerBoundsAssumption
  <1>2. NoCall \in Call
    BY NoCallType
  <1> QED
    BY <1>1, <1>2 DEF Call

(* What is left of a batch when its first entry is done with.                 *)
LEMMA NextEntries ==
  ASSUME NEW call \in Call, NEW n \in Nat, NEW now \in Nat, CallSound(call, n, now), call.step # "none"
  PROVE  NextEntry(call) \in Call /\ CallSound(NextEntry(call), n, now)
  <1>1. CASE Len(call.todo) = 1
    BY <1>1, NoCallType DEF NextEntry
  <1>2. CASE Len(call.todo) # 1
    <2>1. /\ call.todo \in Seq(Instants) /\ call.todo # <<>> /\ Len(call.todo) <= MaxReplay
      BY CallFields DEF CallSound
    <2>2. /\ Tail(call.todo) \in Seq(Instants) /\ Len(Tail(call.todo)) = Len(call.todo) - 1
          /\ Tail(call.todo) # <<>>
      <3>1. Len(call.todo) \in Nat /\ Len(call.todo) # 0
        BY <2>1
      <3>2. Tail(call.todo) \in Seq(Instants) /\ Len(Tail(call.todo)) = Len(call.todo) - 1
        BY <2>1
      <3>3. Len(Tail(call.todo)) # 0
        BY <1>2, <3>1, <3>2
      <3> QED
        BY <3>2, <3>3, EmptySequence
    <2>3. Len(Tail(call.todo)) <= MaxReplay
      BY <2>1, <2>2, TrackerBoundsAssumption
    <2>4. 0 \in Instants /\ 0 \in 0..MaxSessions
      BY TrackerBoundsAssumption DEF Instants
    <2>5. NextEntry(call) = [call EXCEPT !.step = "arrived", !.todo = Tail(call.todo)]
      BY <1>2 DEF NextEntry, Call
    <2>6. NextEntry(call) \in Call
      <3>1. PICK q, y : q = Tail(call.todo) /\ y = NextEntry(call)
        OBVIOUS
      <3>2. PICK Queues : Queues = UNION {[1..k -> Instants] : k \in 0..MaxReplay}
        OBVIOUS
      <3>3. q \in Queues
        BY <2>2, <2>3, <3>1, <3>2, ShortSequences, TrackerBoundsAssumption
      <3>4. y = [call EXCEPT !.step = "arrived", !.todo = q]
        BY ONLY <2>5, <3>1
      <3>5. Call = [step : {"none", "arrived", "checked"}, op : {"start", "beat"}, at : Instants,
                    sid : 0..MaxSessions, routed : 0..MaxSessions, todo : Queues]
        BY ONLY <3>2 DEF Call
      <3>6. y \in Call
        BY ONLY <3>3, <3>4, <3>5, call \in Call
      <3> QED
        BY <3>1, <3>6
    <2>7. /\ NextEntry(call).at = call.at /\ NextEntry(call).routed = call.routed
          /\ NextEntry(call).op = call.op /\ NextEntry(call).sid = call.sid
          /\ NextEntry(call).todo = Tail(call.todo)
      BY <2>5 DEF Call
    <2> QED
      BY <2>2, <2>6, <2>7 DEF CallSound
  <1> QED
    BY <1>1, <1>2

(* A session that begins is credited with nothing by its first beat.          *)
LEMMA NothingForNewSessions ==
  ASSUME clock \in Instants, NEW b \in Instants, NEW t \in Instants, t <= clock
  PROVE  Credit(NewSession(b), t) = NewSession(b)
  <1>1. clock \in Nat /\ t \in Nat /\ Cap \in Nat
    BY TrackerTimeAssumption, TrackerBoundsAssumption DEF Instants
  <1>2. NewSession(b) \in Session /\ NewSession(b).seen = clock
        /\ NewSession(b).total = 0 /\ NewSession(b).credited = {}
    BY NewRow
  <1>3. CappedDelta(clock, t) = 0 /\ Later(clock, t) = clock
    BY <1>1 DEF CappedDelta, Earlier, Later
  <1>4. (t - 0 + 1)..t = {} /\ 0 + 0 = 0
    BY <1>1
  <1>5. Credit(NewSession(b), t) = [NewSession(b) EXCEPT !.total = 0, !.credited = {}, !.seen = clock]
    BY <1>2, <1>3, <1>4 DEF Credit, Session
  <1> QED
    BY <1>2, <1>5 DEF Session


(* What a beat writes: its session, and the one that goes on in its place.      *)
LEMMA BeatRows ==
  ASSUME CreditInv, NEW i \in SessionIds, sessions[i].active,
         NEW t \in Instants, sessions[i].seen <= t, t <= clock
  PROVE  \E a \in Session :
            /\ SoundSessions([sessions EXCEPT ![i] = a])
            /\ \/ Recorded(sessions[i], t) = <<a>>
               \/ \E b \in Instants : Recorded(sessions[i], t) = <<a, NewSession(b)>> /\ ~a.active
  <1> DEFINE s == sessions[i]
             rows == Recorded(s, t)
  <1>1. /\ sessions \in Seq(Session) /\ SoundSessions(sessions) /\ clock \in Instants
        /\ denied \subseteq 1..clock /\ i \in 1..Len(sessions) /\ s \in Session
    BY DEF CreditInv, TrackerTypeOK, SessionIds
  <1>2. s.total = Cardinality(s.credited) /\ \A k \in s.credited : k <= s.seen
    BY <1>1 DEF SoundSessions
  <1>3. clock \in Nat /\ s.seen \in Nat /\ t \in Nat
    BY <1>1, SessionFields, TrackerBoundsAssumption DEF Instants
  <1>4. ASSUME NEW u \in Instants, s.seen <= u, u <= t
        PROVE  /\ SoundSessions([sessions EXCEPT ![i] = Credit(s, u)])
               /\ SoundSessions([sessions EXCEPT ![i] = Closed(Credit(s, u))])
               /\ Credit(s, u) \in Session
               /\ Closed(Credit(s, u)) \in Session /\ ~Closed(Credit(s, u)).active
    <2> DEFINE a == Credit(s, u)
    <2>1. /\ a \in Session /\ a.active = s.active /\ a.seen = u
          /\ \A k \in a.credited : k \in s.credited \/ k \in (s.seen + 1)..u
          /\ a.total = Cardinality(a.credited)
      BY <1>1, <1>2, <1>4, CreditedRow
    <2>2. u \in Nat
      BY <1>4, TrackerBoundsAssumption DEF Instants
    <2>3. /\ Closed(a) \in Session /\ ~Closed(a).active /\ Closed(a).seen = 0
          /\ Closed(a).total = a.total /\ Closed(a).credited = a.credited
      BY <2>1, ClosedRow
    <2> HIDE DEF a
    <2>4. \A k \in s.credited : k \in Int
      BY <1>1, SessionFields DEF Ticks
    <2>5. \A k \in a.credited : /\ k <= u
                                /\ k \in s.credited \/ (s.active /\ k > s.seen /\ k <= clock)
      BY <1>2, <1>3, <1>4, <2>1, <2>2, <2>4
    <2>6. a.seen <= clock /\ s.seen <= a.seen
      BY <1>3, <1>4, <2>1, <2>2
    <2>7. SoundSessions([sessions EXCEPT ![i] = a])
      <3>1. a.active => sessions[i].seen <= a.seen /\ \A k \in a.credited : k <= a.seen
        BY <2>1, <2>5, <2>6
      <3> QED
        BY <1>1, <2>1, <2>5, <2>6, <3>1, ReplacedSound
    <2>8. SoundSessions([sessions EXCEPT ![i] = Closed(a)])
      <3>1. Closed(a).seen <= clock
        BY <1>3, <2>3
      <3> QED
        BY <1>1, <2>1, <2>3, <2>5, <3>1, ReplacedSound
    <2> QED
      BY <2>1, <2>3, <2>7, <2>8 DEF a
  <1>5. CASE IsAbandoned(s, t)
    <2>1. rows = <<Closed(s), NewSession(t)>>
      BY <1>5 DEF Recorded
    <2>2. /\ Closed(s) \in Session /\ ~Closed(s).active /\ Closed(s).seen = 0
          /\ Closed(s).total = s.total /\ Closed(s).credited = s.credited
      BY <1>1, ClosedRow
    <2>3. SoundSessions([sessions EXCEPT ![i] = Closed(s)])
      BY <1>1, <1>2, <1>3, <2>2, ReplacedSound
    <2> QED
      BY <2>1, <2>2, <2>3
  <1>6. CASE ~IsAbandoned(s, t) /\ DayOf(t) # s.day
    <2> DEFINE b == Boundary(s, t)
    <2>1. Midnight(t) \in Nat
      BY DaysInOrder
    <2>2. b \in Instants /\ s.seen <= b /\ b <= t
      BY <1>3, <2>1, TrackerBoundsAssumption DEF Boundary, Instants
    <2>3. rows = <<Closed(Credit(s, b)), Credit(NewSession(b), t)>>
      BY <1>6 DEF Recorded
    <2>4. Credit(NewSession(b), t) = NewSession(b)
      BY <1>1, <2>2, NothingForNewSessions
    <2> HIDE DEF b
    <2>5. /\ SoundSessions([sessions EXCEPT ![i] = Closed(Credit(s, b))])
          /\ Closed(Credit(s, b)) \in Session /\ ~Closed(Credit(s, b)).active
      BY <1>4, <2>2
    <2> QED
      BY <2>2, <2>3, <2>4, <2>5
  <1>7. CASE ~IsAbandoned(s, t) /\ ~(DayOf(t) # s.day)
    <2>1. rows = <<Credit(s, t)>>
      BY <1>7 DEF Recorded
    <2>2. s.seen <= t /\ t <= t
      BY <1>3
    <2>3. Credit(s, t) \in Session /\ SoundSessions([sessions EXCEPT ![i] = Credit(s, t)])
      BY <1>4, <2>2
    <2> QED
      BY <2>1, <2>3
  <1> QED
    BY <1>5, <1>6, <1>7

(* The service starts sound.                                                  *)
LEMMA CreditInit == TrackerInit => CreditInv
  <1> SUFFICES ASSUME TrackerInit PROVE CreditInv
    OBVIOUS
  <1>1. clock = 0 /\ sessions = <<>> /\ denied = {} /\ Len(sessions) = 0
    BY DEF TrackerInit
  <1>2. TrackerTypeOK
    <2>1. calls \in [Calls -> Call]
      BY NoCallType DEF TrackerInit
    <2>2. sessions \in Seq(Session) /\ Len(sessions) <= MaxSessions /\ 0 \in Instants
      BY <1>1, TrackerBoundsAssumption DEF Instants
    <2> QED
      BY <1>1, <2>1, <2>2 DEF TrackerInit, TrackerTypeOK
  <1>3. SoundSessions(sessions) /\ \A c \in Calls : CallSound(calls[c], Len(sessions), clock)
    BY <1>1, NoCallType DEF SoundSessions, TrackerInit
  <1> QED
    BY <1>1, <1>2, <1>3 DEF CreditInv, SessionIds


(* Steps of requests that leave the sessions alone.                            *)
LEMMA CallStep ==
  ASSUME CreditInv, NEW c \in Calls, NEW call \in Call, CallSound(call, Len(sessions), clock),
         calls' = [calls EXCEPT ![c] = call],
         UNCHANGED <<clock, consented, closing, sessions, slipped, denied>>
  PROVE  CreditInv'
  <1>1. calls' \in [Calls -> Call] /\ \A x \in Calls : CallSound(calls'[x], Len(sessions), clock)
    BY DEF CreditInv, TrackerTypeOK
  <1>2. TrackerTypeOK'
    BY <1>1 DEF CreditInv, TrackerTypeOK
  <1>3. SoundSessions(sessions)'
    BY DEF CreditInv, SoundSessions
  <1> QED
    BY <1>1, <1>2, <1>3 DEF CreditInv, SessionIds

(* Steps that change the sessions, of a request or not.                         *)
LEMMA SessionsStep ==
  ASSUME CreditInv, NEW ss \in Seq(Session), SoundSessions(ss),
         Len(ss) >= Len(sessions), Len(ss) <= MaxSessions,
         sessions' = ss, UNCHANGED <<clock, denied>>,
         consented' \in BOOLEAN, closing' \in BOOLEAN, slipped' \in BOOLEAN, slipped => slipped',
         ~slipped' /\ ~consented' /\ ~closing' => \A i \in 1..Len(ss) : ~ss[i].active,
         calls' \in [Calls -> Call], \A c \in Calls : CallSound(calls'[c], Len(ss), clock)
  PROVE  CreditInv'
  <1>1. TrackerTypeOK'
    BY DEF CreditInv, TrackerTypeOK
  <1>2. SoundSessions(sessions)'
    BY DEF SoundSessions
  <1> QED
    BY <1>1, <1>2 DEF CreditInv, SessionIds

(* Calls stay sound when sessions are added.                                  *)
LEMMA CallsOfMore ==
  ASSUME CreditInv, NEW n \in Nat, n >= Len(sessions)
  PROVE  \A c \in Calls : calls[c] \in Call /\ CallSound(calls[c], n, clock)
  <1>1. \A c \in Calls : calls[c] \in Call /\ calls[c].routed \in Nat
    BY CallFields, TrackerBoundsAssumption DEF CreditInv, TrackerTypeOK
  <1>2. Len(sessions) \in Nat
    BY DEF CreditInv, TrackerTypeOK
  <1> QED
    BY <1>1, <1>2 DEF CreditInv, CallSound

(* Sessions end: all at once, for want of beats or on request.                *)
LEMMA CloseStep ==
  ASSUME CreditInv, EndActiveSessions \/ EndStaleSessions \/ \E i \in SessionIds : EndSession(i)
  PROVE  CreditInv'
  <1>1. /\ sessions \in Seq(Session) /\ SoundSessions(sessions) /\ clock \in Instants
        /\ denied \subseteq 1..clock /\ Len(sessions) <= MaxSessions /\ Len(sessions) \in Nat
        /\ slipped \in BOOLEAN /\ closing \in BOOLEAN /\ consented \in BOOLEAN
        /\ calls \in [Calls -> Call]
    BY DEF CreditInv, TrackerTypeOK
  <1>2. \A i \in 1..Len(sessions) : sessions[i] \in Session /\ Closed(sessions[i]) \in Session
                                    /\ ~Closed(sessions[i]).active
    BY <1>1, ClosedRow
  <1>3. /\ sessions' \in Seq(Session) /\ Len(sessions') = Len(sessions)
        /\ \A i \in 1..Len(sessions) : sessions'[i] = sessions[i] \/ sessions'[i] = Closed(sessions[i])
        /\ EndActiveSessions => \A i \in 1..Len(sessions) : sessions'[i] = Closed(sessions[i])
        /\ UNCHANGED <<clock, denied, calls, consented, slipped>>
        /\ UNCHANGED closing \/ (EndActiveSessions /\ closing' = FALSE)
    <2>1. CASE EndActiveSessions
      <3>1. /\ sessions' = [i \in 1..Len(sessions) |-> Closed(sessions[i])] /\ closing' = FALSE
            /\ UNCHANGED <<clock, denied, calls, consented, slipped>>
        BY <2>1 DEF EndActiveSessions, SessionIds
      <3>2. sessions' \in Seq(Session) /\ Len(sessions') = Len(sessions)
        BY <1>1, <1>2, <3>1
      <3>3. \A i \in 1..Len(sessions) : sessions'[i] = Closed(sessions[i])
        BY <3>1
      <3> QED
        BY <2>1, <3>1, <3>2, <3>3
    <2>2. CASE EndStaleSessions
      <3>1. /\ sessions' = [i \in 1..Len(sessions) |->
                              IF IsStale(sessions[i]) THEN Closed(sessions[i]) ELSE sessions[i]]
            /\ UNCHANGED <<clock, denied, calls, consented, slipped, closing>>
        BY <2>2 DEF EndStaleSessions, SessionIds
      <3>2. sessions' \in Seq(Session) /\ Len(sessions') = Len(sessions)
        BY <1>1, <1>2, <3>1
      <3>3. \A i \in 1..Len(sessions) : sessions'[i] = sessions[i] \/ sessions'[i] = Closed(sessions[i])
        BY <3>1
      <3> QED
        BY <2>1, <3>1, <3>2, <3>3
    <2>3. ASSUME NEW i \in SessionIds, EndSession(i)
          PROVE  /\ sessions' \in Seq(Session) /\ Len(sessions') = Len(sessions)
                 /\ \A j \in 1..Len(sessions) : sessions'[j] = sessions[j] \/ sessions'[j] = Closed(sessions[j])
                 /\ UNCHANGED <<clock, denied, calls, consented, slipped, closing>>
      BY <1>1, <1>2, <2>3 DEF EndSession, SessionIds
    <2> QED
      BY <2>1, <2>2, <2>3
  <1>4. SoundSessions(sessions')
    <2>1. PICK tt \in Seq(Session) : tt = sessions'
      BY <1>3
    <2>2. SoundSessions(tt)
      BY <1>1, <1>3, <2>1, ClosedSound
    <2> QED
      BY <2>1, <2>2
  <1>5. \A i \in 1..Len(sessions) : sessions'[i].active => sessions[i].active
    BY <1>2, <1>3
  <1>6. ~slipped' /\ ~consented' /\ ~closing' => \A i \in 1..Len(sessions') : ~sessions'[i].active
    <2>1. CASE EndActiveSessions
      BY <1>2, <1>3, <2>1
    <2>2. CASE UNCHANGED closing
      BY <1>3, <1>5, <2>2 DEF CreditInv, SessionIds
    <2> QED
      BY <1>3, <2>1, <2>2
  <1>7. \A c \in Calls : CallSound(calls'[c], Len(sessions'), clock)
    BY <1>3 DEF CreditInv
  <1>8. TrackerTypeOK'
    <2>1. closing' \in BOOLEAN
      BY <1>1, <1>3, Zenon
    <2>2. clock' \in Instants /\ consented' \in BOOLEAN /\ slipped' \in BOOLEAN /\ calls' \in [Calls -> Call]
      BY <1>1, <1>3, Zenon
    <2>3. sessions' \in Seq(Session) /\ Len(sessions') <= MaxSessions /\ denied' \subseteq Ticks
      BY <1>1, <1>3 DEF CreditInv, TrackerTypeOK
    <2> QED
      BY <2>1, <2>2, <2>3, Zenon DEF TrackerTypeOK
  <1>9. SoundSessions(sessions)'
    BY <1>3, <1>4 DEF SoundSessions
  <1>10. denied' \subseteq 1..clock'
    BY <1>1, <1>3
  <1>11. \A c \in Calls : CallSound(calls[c], Len(sessions), clock)'
    BY <1>3, <1>7
  <1> QED
    BY <1>6, <1>8, <1>9, <1>10, <1>11, Zenon DEF CreditInv, SessionIds


(* A session starts, or an open one is resumed.                               *)
LEMMA StartStep ==
  ASSUME CreditInv, NEW c \in Calls, StartSession(c)
  PROVE  CreditInv'
  <1> DEFINE t == Earlier(calls[c].todo[1], calls[c].at)
             ss == IF \E i \in SessionIds : sessions[i].active THEN sessions
                   ELSE Append(sessions, NewSession(t))
  <1>1. /\ sessions \in Seq(Session) /\ SoundSessions(sessions) /\ clock \in Instants
        /\ denied \subseteq 1..clock /\ Len(sessions) <= MaxSessions /\ Len(sessions) \in Nat
        /\ calls \in [Calls -> Call] /\ slipped \in BOOLEAN /\ consented \in BOOLEAN
        /\ closing \in BOOLEAN /\ clock \in Nat
    BY TrackerBoundsAssumption DEF CreditInv, TrackerTypeOK, Instants
  <1>2. t \in Instants
    <2>1. /\ calls[c] \in Call /\ calls[c].todo # <<>>
      BY <1>1 DEF CreditInv, CallSound, StartSession
    <2>2. calls[c].todo \in Seq(Instants) /\ calls[c].at \in Instants
      BY <2>1, CallFields
    <2>3. calls[c].todo[1] \in Instants
      BY <2>1, <2>2
    <2> QED
      BY <2>2, <2>3 DEF Earlier
  <1>3. NewSession(t) \in Session
    BY <1>1, <1>2, NewRow
  <1>4. /\ sessions' = ss /\ calls' = [calls EXCEPT ![c] = NoCall]
        /\ slipped' = (slipped \/ ~consented)
        /\ UNCHANGED <<clock, consented, closing, denied>>
        /\ (\E i \in SessionIds : sessions[i].active) \/ Len(sessions) < MaxSessions
    BY DEF StartSession, HasRoomForSession
  <1>5. ss \in Seq(Session) /\ SoundSessions(ss) /\ Len(ss) >= Len(sessions) /\ Len(ss) <= MaxSessions
        /\ Len(ss) \in Nat
    <2>1. CASE \E i \in SessionIds : sessions[i].active
      BY <1>1, <2>1
    <2>2. CASE ~\E i \in SessionIds : sessions[i].active
      <3>1. ss = Append(sessions, NewSession(t)) /\ Len(sessions) < MaxSessions
        BY <1>4, <2>2
      <3>2. SoundSessions(Append(sessions, NewSession(t)))
        BY <1>1, <1>2, <2>2, StartedSound DEF SessionIds
      <3> QED
        BY <1>1, <1>3, <3>1, <3>2, TrackerBoundsAssumption
    <2> QED
      BY <2>1, <2>2
  <1>6. calls' \in [Calls -> Call] /\ \A x \in Calls : CallSound(calls'[x], Len(ss), clock)
    <2> HIDE DEF ss
    <2>1. \A x \in Calls : CallSound(calls[x], Len(ss), clock)
      BY <1>5, CallsOfMore
    <2> QED
      BY <1>1, <1>4, <1>5, <2>1, NoCallType
  <1>7. slipped' \in BOOLEAN /\ (slipped => slipped') /\ (~slipped' => consented')
    BY <1>1, <1>4, Zenon
  <1>8. consented' \in BOOLEAN /\ closing' \in BOOLEAN
    BY <1>1, <1>4, Zenon
  <1> HIDE DEF ss
  <1> QED
    BY <1>4, <1>5, <1>6, <1>7, <1>8, SessionsStep

(* A heartbeat, or an entry of a batch, is credited.                          *)
LEMMA BeatStep ==
  ASSUME CreditInv, NEW c \in Calls, RecordHeartbeat(c)
  PROVE  CreditInv'
  <1>1. /\ sessions \in Seq(Session) /\ SoundSessions(sessions) /\ clock \in Instants
        /\ denied \subseteq 1..clock /\ Len(sessions) <= MaxSessions /\ Len(sessions) \in Nat
        /\ calls \in [Calls -> Call] /\ slipped \in BOOLEAN /\ consented \in BOOLEAN
        /\ closing \in BOOLEAN /\ clock \in Nat
    BY TrackerBoundsAssumption DEF CreditInv, TrackerTypeOK, Instants
  <1>2. PICK call \in Call : call = calls[c]
    BY <1>1
  <1>3. /\ CallSound(call, Len(sessions), clock) /\ call.step = "checked" /\ call.op = "beat"
        /\ call.todo # <<>> /\ call.todo \in Seq(Instants) /\ call.at \in Instants /\ call.at <= clock
        /\ call.sid \in 1..Len(sessions) /\ call.routed \in Nat /\ call.routed <= Len(sessions)
    <2>1. CallSound(call, Len(sessions), clock) /\ call.step = "checked" /\ call.op = "beat"
      BY <1>2 DEF RecordHeartbeat, CreditInv
    <2>2. call.todo \in Seq(Instants) /\ call.at \in Instants /\ call.routed \in Nat
      BY CallFields, TrackerBoundsAssumption
    <2> QED
      BY <2>1, <2>2 DEF CallSound
  <1>4. PICK i \in SessionIds : i = IF call.routed # 0 THEN call.routed ELSE call.sid
    BY <1>1, <1>3 DEF SessionIds
  <1>5. /\ sessions[i] \in Session /\ sessions[i].seen \in Nat /\ sessions[i].seen <= clock
        /\ sessions[i].active \in BOOLEAN
    BY <1>1, SessionFields DEF SessionIds, SoundSessions
  <1>6. PICK t \in Instants : t = Clamp(sessions[i], Head(call.todo), call.at)
    <2>1. Head(call.todo) \in Instants
      BY <1>3
    <2> QED
      BY <1>3, <1>5, <2>1, SessionFields DEF Clamp, Later, Earlier
  <1>7. sessions[i].seen <= t /\ t <= clock
    <2>1. Head(call.todo) \in Instants
      BY <1>3
    <2>2. Head(call.todo) \in Nat /\ call.at \in Nat
      BY <1>3, <2>1, TrackerBoundsAssumption DEF Instants
    <2> QED
      BY <1>1, <1>3, <1>5, <1>6, <2>2 DEF Clamp, Later, Earlier
  <1>8. CASE ~sessions[i].active
    <2>1. calls' = [calls EXCEPT ![c] = NextEntry(call)]
          /\ UNCHANGED <<clock, consented, closing, sessions, slipped, denied>>
      BY <1>2, <1>4, <1>6, <1>8 DEF RecordHeartbeat
    <2>2. NextEntry(call) \in Call /\ CallSound(NextEntry(call), Len(sessions), clock)
      BY <1>1, <1>3, NextEntries
    <2> QED
      BY <2>1, <2>2, CallStep
  <1>9. CASE sessions[i].active
    <2> DEFINE rows == Recorded(sessions[i], t)
               last == IF Len(rows) = 1 THEN i ELSE Len(sessions) + 1
               onward == [call EXCEPT !.routed = last]
               ss == [sessions EXCEPT ![i] = rows[1]] \o Tail(rows)
    <2>1. /\ Len(rows) = 1 \/ Len(sessions) < MaxSessions
          /\ sessions' = ss /\ calls' = [calls EXCEPT ![c] = NextEntry(onward)]
          /\ UNCHANGED <<clock, consented, closing, slipped, denied>>
      BY <1>2, <1>4, <1>6, <1>9 DEF RecordHeartbeat, HasRoomForSession
    <2>2. PICK a \in Session :
            /\ SoundSessions([sessions EXCEPT ![i] = a])
            /\ rows = <<a>> \/ \E b \in Instants : rows = <<a, NewSession(b)>> /\ ~a.active
      BY <1>7, <1>9, BeatRows
    <2> HIDE DEF rows
    <2>3. PICK tt \in Seq(Session) : tt = [sessions EXCEPT ![i] = a]
      BY <1>1, <2>2
    <2>4. Len(tt) = Len(sessions) /\ SoundSessions(tt) /\ tt[i] = a
          /\ \A j \in 1..Len(sessions) : j # i => tt[j] = sessions[j]
      BY <1>1, <2>2, <2>3 DEF SessionIds
    <2>5. /\ ss \in Seq(Session) /\ SoundSessions(ss) /\ Len(ss) <= MaxSessions /\ Len(ss) \in Nat
          /\ Len(ss) >= Len(sessions) /\ last \in 1..Len(ss)
      <3>1. CASE rows = <<a>>
        <4>1. rows[1] = a /\ Tail(rows) = <<>> /\ Len(rows) = 1
          BY <3>1
        <4>2. ss = tt
          BY <2>3, <4>1, ConcatEmptySeq
        <4>3. last = i /\ i \in 1..Len(sessions)
          BY <4>1 DEF SessionIds
        <4> HIDE DEF ss, last
        <4> QED
          BY <1>1, <2>4, <4>2, <4>3
      <3>2. ASSUME NEW b \in Instants, rows = <<a, NewSession(b)>>, ~a.active
            PROVE  /\ ss \in Seq(Session) /\ SoundSessions(ss) /\ Len(ss) <= MaxSessions
                   /\ Len(ss) \in Nat
                   /\ Len(ss) >= Len(sessions) /\ last \in 1..Len(ss)
        <4>1. rows[1] = a /\ Tail(rows) = <<NewSession(b)>> /\ Len(rows) = 2
          BY <3>2
        <4>2. NewSession(b) \in Session
          BY <1>1, NewRow
        <4>3. ss = Append(tt, NewSession(b))
          BY <2>3, <4>1, <4>2, AppendIsConcat
        <4>4. \A j \in 1..Len(tt) : ~tt[j].active
          BY <1>1, <1>9, <2>4, <3>2 DEF SoundSessions, SessionIds
        <4>5. SoundSessions(Append(tt, NewSession(b)))
          BY <1>1, <2>4, <4>4, StartedSound
        <4>6. Len(sessions) < MaxSessions /\ last = Len(sessions) + 1
          BY <2>1, <4>1
        <4> HIDE DEF ss, last
        <4> QED
          BY <1>1, <2>4, <4>2, <4>3, <4>5, <4>6, TrackerBoundsAssumption
      <3> QED
        BY <2>2, <3>1, <3>2
    <2> HIDE DEF ss, last
    <2>6. last \in 0..MaxSessions
      BY <2>5, TrackerBoundsAssumption
    <2>7. onward \in Call /\ CallSound(onward, Len(ss), clock) /\ onward.step # "none"
      <3>1. /\ onward.step = call.step /\ onward.op = call.op /\ onward.at = call.at
            /\ onward.sid = call.sid /\ onward.todo = call.todo /\ onward.routed = last
        BY DEF Call
      <3>2. onward \in Call
        BY <2>6 DEF Call
      <3>3. call.sid \in 1..Len(ss) /\ last <= Len(ss)
        BY <1>1, <1>3, <2>5
      <3> HIDE DEF onward
      <3> QED
        BY <1>3, <3>1, <3>2, <3>3 DEF CallSound
    <2> HIDE DEF onward
    <2>8. NextEntry(onward) \in Call /\ CallSound(NextEntry(onward), Len(ss), clock)
      BY <1>1, <2>5, <2>7, NextEntries
    <2>9. calls' \in [Calls -> Call] /\ \A x \in Calls : CallSound(calls'[x], Len(ss), clock)
      <3>1. \A x \in Calls : CallSound(calls[x], Len(ss), clock)
        BY <2>5, CallsOfMore
      <3> QED
        BY <1>1, <2>1, <2>8, <3>1
    <2>10. ~slipped' /\ ~consented' /\ ~closing' => FALSE
      BY <1>9, <2>1 DEF CreditInv
    <2>11. slipped' \in BOOLEAN /\ consented' \in BOOLEAN /\ closing' \in BOOLEAN /\ (slipped => slipped')
      BY <1>1, <2>1, Zenon
    <2> QED
      BY <2>1, <2>5, <2>9, <2>10, <2>11, SessionsStep
  <1> QED
    BY <1>5, <1>8, <1>9

(* Every step keeps the invariant.                                            *)
LEMMA CreditNext == CreditInv /\ [TrackerNext]_trackerVars => CreditInv'
  <1> SUFFICES ASSUME CreditInv, [TrackerNext]_trackerVars PROVE CreditInv'
    OBVIOUS
  <1>1. /\ sessions \in Seq(Session) /\ SoundSessions(sessions) /\ clock \in Instants
        /\ denied \subseteq 1..clock /\ Len(sessions) <= MaxSessions /\ Len(sessions) \in Nat
        /\ calls \in [Calls -> Call] /\ slipped \in BOOLEAN /\ consented \in BOOLEAN
        /\ closing \in BOOLEAN /\ clock \in Nat
    BY TrackerBoundsAssumption DEF CreditInv, TrackerTypeOK, Instants
  <1>2. \A c \in Calls : CallSound(calls[c], Len(sessions), clock)
    BY DEF CreditInv
  <1>3. CASE GiveConsent \/ RevokeConsent \/ LoseRevocation
    <2>1. /\ UNCHANGED <<sessions, clock, denied, calls>>
          /\ ~(~slipped' /\ ~consented' /\ ~closing')
          /\ (slipped => slipped')
      BY <1>3 DEF GiveConsent, RevokeConsent, LoseRevocation
    <2>2. consented' \in BOOLEAN /\ closing' \in BOOLEAN /\ slipped' \in BOOLEAN
      BY <1>1, <1>3, Zenon DEF GiveConsent, RevokeConsent, LoseRevocation
    <2>3. Len(sessions) >= Len(sessions) /\ calls' \in [Calls -> Call]
          /\ \A c \in Calls : CallSound(calls'[c], Len(sessions), clock)
      BY <1>1, <1>2, <2>1
    <2> QED
      BY <1>1, <2>1, <2>2, <2>3, SessionsStep
  <1>4. CASE PassTime
    <2>1. /\ clock < MaxClock /\ ~closing /\ clock' = clock + 1
          /\ denied' = IF consented THEN denied ELSE denied \cup {clock + 1}
          /\ UNCHANGED <<consented, closing, sessions, calls, slipped>>
      BY <1>4 DEF PassTime
    <2>2. clock' \in Instants /\ clock' \in Ticks
      BY <1>1, <2>1, TrackerBoundsAssumption DEF Instants, Ticks
    <2>3. denied' \subseteq 1..clock' /\ denied' \subseteq Ticks
      BY <1>1, <2>1, <2>2, TrackerBoundsAssumption DEF Ticks
    <2>4. \A i \in 1..Len(sessions) :
            /\ sessions[i].credited \subseteq 1..clock /\ sessions[i].seen \in Nat
            /\ sessions[i].seen <= clock
      BY <1>1, SessionFields DEF SoundSessions
    <2>5. UNCHANGED sessions
      BY <2>1
    <2>6. ASSUME ~slipped, ~consented, NEW i \in 1..Len(sessions) PROVE ~sessions[i].active
      BY <2>1, <2>6 DEF CreditInv, SessionIds
    <2>7. ASSUME ~slipped, NEW i \in 1..Len(sessions)
          PROVE  /\ sessions[i].credited \cap denied' = {}
                 /\ sessions[i].active => \A k \in denied' : k <= sessions[i].seen
      <3>1. /\ sessions[i].credited \cap denied = {}
            /\ sessions[i].active => \A k \in denied : k <= sessions[i].seen
        BY <1>1, <2>7 DEF SoundSessions
      <3>2. clock + 1 \notin sessions[i].credited
        BY <1>1, <2>4
      <3>3. CASE consented
        BY <2>1, <3>1, <3>3
      <3>4. CASE ~consented
        <4>1. ~sessions[i].active
          BY <2>6, <2>7, <3>4
        <4>2. denied' = denied \cup {clock + 1}
          BY <2>1, <3>4
        <4> QED
          BY <3>1, <3>2, <4>1, <4>2
      <3> QED
        BY <3>3, <3>4
    <2>8. \A i \in 1..Len(sessions) :
            sessions[i].credited \subseteq 1..clock' /\ sessions[i].seen <= clock'
      BY <1>1, <2>1, <2>4
    <2>9. SoundSessions(sessions)'
      BY <1>1, <2>1, <2>7, <2>8 DEF SoundSessions
    <2>10. \A c \in Calls : CallSound(calls[c], Len(sessions), clock)'
      <3>1. \A c \in Calls : calls[c].at \in Nat
        BY <1>1, CallFields, TrackerBoundsAssumption DEF Instants
      <3> QED
        BY <1>1, <1>2, <2>1, <3>1 DEF CallSound
    <2>11. TrackerTypeOK'
      BY <1>1, <2>1, <2>2, <2>3 DEF TrackerTypeOK
    <2>12. (~slipped /\ ~consented /\ ~closing => \A i \in SessionIds : ~sessions[i].active)'
      BY <2>1, <2>6 DEF SessionIds
    <2> QED
      BY <2>3, <2>9, <2>10, <2>11, <2>12, Zenon DEF CreditInv
  <1>5. ASSUME NEW c \in Calls, Arrive(c) \/ RequireConsent(c) \/ Disconnect(c) PROVE CreditInv'
    <2>1. NoCall \in Call /\ CallSound(NoCall, Len(sessions), clock)
      BY <1>1, NoCallType
    <2>2. PICK call \in Call : /\ CallSound(call, Len(sessions), clock)
                               /\ calls' = [calls EXCEPT ![c] = call]
      <3>1. CASE Disconnect(c)
        BY <2>1, <3>1 DEF Disconnect
      <3>2. CASE RequireConsent(c)
        <4>1. 0 \in Instants /\ 0 \in 0..MaxSessions /\ <<>> \in Seq(Instants) /\ Len(<<>>) <= MaxReplay
          BY TrackerBoundsAssumption DEF Instants
        <4>2. [calls[c] EXCEPT !.step = "checked"] \in Call
          BY <1>1, <4>1, BuiltCalls
        <4>3. CallSound([calls[c] EXCEPT !.step = "checked"], Len(sessions), clock)
          BY <1>1, <1>2, <3>2 DEF CallSound, Call, RequireConsent
        <4> QED
          BY <2>1, <3>2, <4>2, <4>3 DEF RequireConsent
      <3>3. CASE Arrive(c)
        <4>1. ASSUME NEW t \in Instants,
                     calls' = [calls EXCEPT ![c] = [NoCall EXCEPT !.step = "arrived", !.at = clock,
                                                                  !.todo = <<t>>]]
              PROVE  \E call \in Call : /\ CallSound(call, Len(sessions), clock)
                                        /\ calls' = [calls EXCEPT ![c] = call]
          <5> DEFINE call == [NoCall EXCEPT !.step = "arrived", !.at = clock, !.todo = <<t>>]
          <5>1. <<t>> \in Seq(Instants) /\ Len(<<t>>) <= MaxReplay /\ 0 \in 0..MaxSessions /\ <<t>> # <<>>
            BY TrackerBoundsAssumption
          <5>2. call \in Call
            BY <1>1, <5>1, BuiltCalls, NoCallType
          <5>3. CallSound(call, Len(sessions), clock)
            BY <1>1, <5>1 DEF CallSound, NoCall
          <5> QED
            BY <4>1, <5>2, <5>3
        <4>2. ASSUME NEW i \in SessionIds, NEW n \in 1..MaxReplay, NEW ts \in [1..n -> Instants],
                     calls' = [calls EXCEPT ![c] = [NoCall EXCEPT !.step = "arrived", !.op = "beat",
                                                                  !.at = clock, !.sid = i, !.todo = ts]]
              PROVE  \E call \in Call : /\ CallSound(call, Len(sessions), clock)
                                        /\ calls' = [calls EXCEPT ![c] = call]
          <5> DEFINE call == [NoCall EXCEPT !.step = "arrived", !.op = "beat", !.at = clock,
                                            !.sid = i, !.todo = ts]
          <5>1. ts \in Seq(Instants) /\ Len(ts) = n /\ n \in Nat /\ n <= MaxReplay /\ n # 0
            BY TrackerBoundsAssumption
          <5>2. ts # <<>>
            BY <5>1, EmptySequence
          <5>3. i \in 0..MaxSessions
            BY <1>1, TrackerBoundsAssumption DEF SessionIds
          <5>4. call \in Call
            BY <1>1, <5>1, <5>3, BuiltCalls, NoCallType
          <5>5. CallSound(call, Len(sessions), clock)
            BY <1>1, <5>2 DEF CallSound, NoCall, SessionIds
          <5> QED
            BY <4>2, <5>4, <5>5
        <4> QED
          BY <3>3, <4>1, <4>2 DEF Arrive
      <3> QED
        BY <1>5, <3>1, <3>2, <3>3
    <2>3. UNCHANGED <<clock, consented, closing, sessions, slipped, denied>>
      BY <1>5 DEF Arrive, RequireConsent, Disconnect
    <2> QED
      BY <2>2, <2>3, CallStep
  <1>6. CASE UNCHANGED trackerVars
    BY <1>6 DEF trackerVars, CreditInv, TrackerTypeOK, SoundSessions, SessionIds
  <1> QED
    BY <1>3, <1>4, <1>5, <1>6, CloseStep, StartStep, BeatStep DEF TrackerNext

(* The tracker's rows and requests keep their types, and what CreditInv says   *)
(* of them, in every state.                                                  *)
THEOREM CreditAlwaysSound == TrackerSpec => []CreditInv
  BY CreditInit, CreditNext, PTL DEF TrackerSpec

(* However requests are resent, replayed and reordered, each second of work is  *)
(* credited once: to the session's total, and to one session only.             *)
THEOREM CreditedOnce == TrackerSpec => []NoDoubleCredit
  <1>1. CreditInv => NoDoubleCredit
    <2> SUFFICES ASSUME CreditInv PROVE NoDoubleCredit
      OBVIOUS
    <2> DEFINE open == {i \in SessionIds : sessions[i].active}
    <2>1. \A i, j \in open : i = j
      BY DEF CreditInv, SoundSessions, SessionIds
    <2>2. Cardinality(open) <= 1
      <3>1. CASE open = {}
        BY <3>1, FS_EmptySet
      <3>2. CASE open # {}
        <4>1. PICK i : open = {i}
          BY <2>1, <3>2
        <4>2. Cardinality(open) = 1
          BY ONLY <4>1, FS_Singleton
        <4> QED
          BY <4>2
      <3> QED
        BY <3>1, <3>2
    <2> QED
      BY <2>2 DEF NoDoubleCredit, CreditInv, SoundSessions, SessionIds
  <1> QED
    BY <1>1, CreditAlwaysSound, PTL

(* Nothing that happened without consent is credited, not even by beats that    *)
(* arrive after a new grant, short of the two races the model records.          *)
THEOREM ConsentFirst == TrackerSpec => []NothingWithoutConsent
  <1>1. CreditInv => NothingWithoutConsent
    BY DEF CreditInv, SoundSessions, NothingWithoutConsent, SessionIds
  <1> QED
    BY <1>1, CreditAlwaysSound, PTL


-----------------------------------------------------------------------------
(* OfflineQueue *)

(* A handler that has a heartbeat in hand.                                    *)
HoldsBeat(chore) ==
    \/ chore.at \in {"flush", "batch", "entries", "flushed", "send", "post", "posted", "queue"}
    \/ chore.at \in {"session", "start", "started"} /\ chore.then \in {"batch", "send", "again"}

(* Unless entries were taken off the queue q since, a batch is its oldest part.  *)
IsOldest(chore, q) ==
    Len(chore.batch) <= Len(q) /\ \A i \in 1..Len(chore.batch) : chore.batch[i] = q[i]

(* What a handler's copies are: every entry of its batch that is not left to do  *)
(* has landed or was skipped.                                                *)
ChoreSound(chore, q, landed, taken) ==
    /\ chore.beat # None <=> HoldsBeat(chore)
    /\ chore.beat <= taken
    /\ Elements(chore.batch) \subseteq 1..taken /\ Elements(chore.todo) \subseteq 1..taken
    /\ chore.skipped \subseteq 1..taken
    /\ ~chore.shifted => IsOldest(chore, q)
    /\ chore.at \in {"entries", "flushed"} =>
          Elements(chore.batch) \subseteq landed \cup chore.skipped \cup Elements(chore.todo)
    /\ chore.at = "flushed" => chore.todo = <<>>
    /\ chore.at = "batch" => chore.todo = chore.batch
    /\ chore.at = "posted" /\ chore.got = "ok" => chore.beat \in landed
    /\ chore.at \in {"end", "ask", "asked"} => chore.then \in {"none", "session", "revoke", "stopped"}

QueueInv ==
    /\ QueueTypeOK /\ QueueKeepsBeats
    /\ \A c \in Chores : ChoreSound(chores[c], kept.queue, beats.landed, beats.taken)

Activity == [consent : BOOLEAN, open : SessionNames \cup {None}, opened : 0..MaxOpened]
History == [taken : 0..MaxBeats, landed : SUBSET Beats, excused : SUBSET Beats]

(* The numbers the proofs rely on.                                            *)
LEMMA Numbers == QueueCap \in Nat /\ MaxBeats \in Nat /\ MaxOpened \in Nat /\ None = 0 /\ None \notin Beats
  BY QueueAssumption DEF None, Beats

(* The queues are the short sequences of heartbeats.                          *)
LEMMA QueuedAre ==
  ASSUME NEW q
  PROVE  q \in Queued <=> q \in Seq(Beats) /\ Len(q) <= QueueCap
  BY Numbers, ShortSequences DEF Queued

(* The types of what is stored.                                               *)
LEMMA KeptFields ==
  ASSUME NEW k \in Kept
  PROVE  /\ k.session \in SessionNames \cup {None} /\ k.consented \in BOOLEAN /\ k.paused \in BOOLEAN
         /\ k.queue \in Queued /\ k.queue \in Seq(Beats) /\ Len(k.queue) <= QueueCap
  <1>1. k.queue \in Queued
    BY DEF Kept
  <1> QED
    BY <1>1, QueuedAre DEF Kept

(* The types of what a handler has.                                           *)
LEMMA ChoreFields ==
  ASSUME NEW x \in Chore
  PROVE  /\ x.beat \in Beats \cup {None} /\ x.beat \in Nat
         /\ x.sid \in SessionNames \cup {None} /\ x.route \in SessionNames \cup {None}
         /\ x.batch \in Queued /\ x.todo \in Queued /\ x.skipped \in SUBSET Beats
         /\ x.batch \in Seq(Beats) /\ x.todo \in Seq(Beats) /\ x.shifted \in BOOLEAN
         /\ Len(x.batch) <= QueueCap /\ Len(x.todo) <= QueueCap
  <1>1. /\ x.beat \in Beats \cup {None}
        /\ x.sid \in SessionNames \cup {None} /\ x.route \in SessionNames \cup {None}
        /\ x.batch \in Queued /\ x.todo \in Queued /\ x.skipped \in SUBSET Beats /\ x.shifted \in BOOLEAN
    BY DEF Chore
  <1>2. x.beat \in Nat
    BY <1>1, Numbers DEF Beats
  <1> QED
    BY <1>1, <1>2, QueuedAre

(* The empty queue is one of them.                                            *)
LEMMA EmptyQueue == <<>> \in Queued /\ Elements(<<>>) = {} /\ Len(<<>>) = 0
  <1>1. <<>> \in Seq(Beats) /\ Len(<<>>) = 0
    OBVIOUS
  <1>2. <<>> \in Queued
    <2>1. Len(<<>>) <= QueueCap
      BY <1>1, Numbers
    <2> QED
      BY <1>1, <2>1, QueuedAre
  <1>3. 1..Len(<<>>) = {}
    BY <1>1
  <1> QED
    BY <1>1, <1>2, <1>3 DEF Elements

(* A free handler is sound.                                                   *)
LEMMA NoChoreSound ==
  /\ NoChore \in Chore /\ NoChore.beat = None /\ NoChore.batch = <<>>
  /\ \A q \in Seq(Beats), taken \in Nat : \A landed : ChoreSound(NoChore, q, landed, taken)
  <1>1. NoChore \in Chore
    BY EmptyQueue, Numbers DEF NoChore, Chore, Steps
  <1>2. /\ NoChore.beat = None /\ NoChore.at = "free" /\ NoChore.batch = <<>> /\ NoChore.todo = <<>>
        /\ NoChore.skipped = {}
    BY DEF NoChore
  <1>3. ASSUME NEW q \in Seq(Beats), NEW landed, NEW taken \in Nat
        PROVE  ChoreSound(NoChore, q, landed, taken)
    <2>1. IsOldest(NoChore, q)
      BY <1>2, EmptyQueue DEF IsOldest
    <2> QED
      BY <1>2, <2>1, EmptyQueue, Numbers DEF ChoreSound, HoldsBeat
  <1> QED
    BY <1>1, <1>2, <1>3

(* The oldest n entries of a queue and the rest of it.                          *)
LEMMA QueueSplits ==
  ASSUME NEW S, NEW q \in Seq(S), NEW n \in Nat
  PROVE  /\ Oldest(q, n) \in Seq(S) /\ Rest(q, n) \in Seq(S)
         /\ Len(Oldest(q, n)) = IF n < Len(q) THEN n ELSE Len(q)
         /\ Len(Rest(q, n)) = IF n < Len(q) THEN Len(q) - n ELSE 0
         /\ \A i \in 1..Len(Oldest(q, n)) : Oldest(q, n)[i] = q[i]
         /\ Elements(q) = Elements(Oldest(q, n)) \cup Elements(Rest(q, n))
  <1> DEFINE m == IF n < Len(q) THEN n ELSE Len(q)
  <1>1. Len(q) \in Nat /\ m \in 0..Len(q)
    OBVIOUS
  <1>2. /\ Oldest(q, n) \in Seq(S) /\ Len(Oldest(q, n)) = m
        /\ \A i \in 1..m : Oldest(q, n)[i] = q[i]
    BY <1>1 DEF Oldest
  <1>3. /\ Rest(q, n) \in Seq(S) /\ Len(Rest(q, n)) = Len(q) - m
        /\ \A i \in 1..(Len(q) - m) : Rest(q, n)[i] = q[m + i]
    <2>1. CASE n < Len(q)
      <3>1. m = n /\ n + 1 \in 1..Len(q) + 1 /\ \A j \in (n + 1)..Len(q) : q[j] \in S
        BY <2>1
      <3>2. /\ SubSeq(q, n + 1, Len(q)) \in Seq(S) /\ Len(SubSeq(q, n + 1, Len(q))) = Len(q) - n
            /\ \A i \in 1..(Len(q) - n) : SubSeq(q, n + 1, Len(q))[i] = q[n + i]
        BY <1>1, <2>1, <3>1
      <3> QED
        BY <3>1, <3>2 DEF Rest
    <2>2. CASE ~(n < Len(q))
      <3>1. m = Len(q) /\ n + 1 > Len(q)
        BY <2>2
      <3>2. SubSeq(q, n + 1, Len(q)) \in Seq(S) /\ Len(SubSeq(q, n + 1, Len(q))) = 0
        <4>1. SubSeq(q, n + 1, Len(q)) = <<>>
          BY <1>1, <3>1, SubSeqEmpty
        <4> QED
          BY <4>1, EmptySeq
      <3>3. Len(q) - m = 0 /\ 1..(Len(q) - m) = {}
        BY <1>1, <3>1
      <3> QED
        BY <3>2, <3>3 DEF Rest
    <2> QED
      BY <2>1, <2>2
  <1> HIDE DEF m
  <1>4. ASSUME NEW i \in 1..Len(q)
        PROVE  q[i] \in Elements(Oldest(q, n)) \cup Elements(Rest(q, n))
    <2>1. CASE i <= m
      BY <1>1, <1>2, <2>1 DEF Elements
    <2>2. CASE ~(i <= m)
      <3>1. i - m \in 1..(Len(q) - m) /\ q[i] = Rest(q, n)[i - m]
        BY <1>1, <1>3, <2>2
      <3> QED
        BY <1>3, <3>1 DEF Elements
    <2> QED
      BY <2>1, <2>2
  <1>5. Elements(Oldest(q, n)) \subseteq Elements(q)
    BY <1>1, <1>2 DEF Elements
  <1>6. Elements(Rest(q, n)) \subseteq Elements(q)
    <2>1. ASSUME NEW i \in 1..(Len(q) - m) PROVE Rest(q, n)[i] \in Elements(q)
      <3>1. m + i \in 1..Len(q)
        BY <1>1
      <3> QED
        BY <1>3, <3>1 DEF Elements
    <2> QED
      BY <1>3, <2>1 DEF Elements
  <1>7. Elements(q) \subseteq Elements(Oldest(q, n)) \cup Elements(Rest(q, n))
    BY <1>4 DEF Elements
  <1>8. Elements(q) = Elements(Oldest(q, n)) \cup Elements(Rest(q, n))
    BY <1>5, <1>6, <1>7
  <1>9. Len(q) - m = IF n < Len(q) THEN Len(q) - n ELSE 0
    BY <1>1 DEF m
  <1> QED
    BY <1>2, <1>3, <1>8, <1>9 DEF m


(* The extension starts sound.                                                *)
LEMMA QueueInitSound == QueueInit => QueueInv
  <1> SUFFICES ASSUME QueueInit PROVE QueueInv
    OBVIOUS
  <1>1. /\ kept \in Kept /\ kept.queue = <<>> /\ kept.consented \in BOOLEAN
        /\ chores = [c \in Chores |-> NoChore]
        /\ beats = [taken |-> 0, landed |-> {}, excused |-> {}]
    BY EmptyQueue, Numbers DEF QueueInit, Kept
  <1>2. activity \in Activity
    BY <1>1, Numbers DEF QueueInit, Activity
  <1>3. QueueTypeOK
    BY <1>1, <1>2, NoChoreSound, Numbers DEF QueueTypeOK, Activity
  <1>4. QueueKeepsBeats
    <2>1. {c \in Chores : chores[c].beat # None} = {}
      BY <1>1, NoChoreSound
    <2> QED
      BY <1>1, <2>1, EmptyQueue DEF QueueKeepsBeats
  <1>5. ASSUME NEW c \in Chores
        PROVE  ChoreSound(chores[c], kept.queue, beats.landed, beats.taken)
    <2>1. chores[c] = NoChore /\ kept.queue \in Seq(Beats) /\ beats.taken = 0 /\ 0 \in Nat
      BY <1>1, EmptyQueue, QueuedAre
    <2>2. beats.taken \in Nat
      BY <2>1
    <2>3. ChoreSound(NoChore, kept.queue, beats.landed, beats.taken)
      BY <2>1, <2>2, NoChoreSound
    <2> QED
      BY <2>1, <2>3, Zenon
  <1> QED
    BY <1>3, <1>4, <1>5 DEF QueueInv

(* A step of one handler that leaves the queue alone and lets go of no beat, or   *)
(* of one that has landed or is excused.                                      *)
LEMMA OneChore ==
  ASSUME QueueInv, NEW c \in Chores, NEW x \in Chore, chores' = [chores EXCEPT ![c] = x],
         kept' \in Kept, kept'.queue = kept.queue, activity' \in Activity,
         NEW landed, NEW excused, landed \subseteq 1..beats.taken, excused \subseteq 1..beats.taken,
         beats' = [taken |-> beats.taken, landed |-> landed, excused |-> excused],
         beats.landed \subseteq landed, beats.excused \subseteq excused,
         ChoreSound(x, kept.queue, landed, beats.taken),
         \/ x.beat = chores[c].beat
         \/ x.beat = None /\ (chores[c].beat = None \/ chores[c].beat \in landed \cup excused)
  PROVE  QueueInv'
  <1>1. /\ chores \in [Chores -> Chore] /\ beats.taken \in 0..MaxBeats /\ beats.taken \in Nat
        /\ beats'.taken = beats.taken /\ beats'.landed = landed /\ beats'.excused = excused
        /\ 1..beats.taken \subseteq Beats
    BY Numbers DEF QueueInv, QueueTypeOK, Beats
  <1>2. beats' \in History
    <2>1. landed \in SUBSET Beats /\ excused \in SUBSET Beats
      BY <1>1
    <2> QED
      BY <1>1, <2>1 DEF History
  <1>3. QueueTypeOK'
    <2>1. chores' \in [Chores -> Chore]
      BY <1>1
    <2> QED
      BY <1>2, <2>1 DEF QueueTypeOK, Activity, History
  <1>4. \A d \in Chores : ChoreSound(chores'[d], kept'.queue, beats'.landed, beats'.taken)
    <2> TAKE d \in Chores
    <2>1. CASE d = c
      BY <1>1, <2>1
    <2>2. CASE d # c
      BY <1>1, <2>2 DEF QueueInv, ChoreSound
    <2> QED
      BY <2>1, <2>2
  <1>5. QueueKeepsBeats'
    <2> DEFINE held(cs) == {cs[d].beat : d \in {e \in Chores : cs[e].beat # None}}
    <2>1. 1..beats.taken = beats.landed \cup beats.excused \cup Elements(kept.queue) \cup held(chores)
      BY DEF QueueInv, QueueKeepsBeats
    <2>2. \A d \in Chores : d # c => chores'[d] = chores[d]
      BY <1>1
    <2>3. chores'[c] = x
      BY <1>1
    <2>4. held(chores) \subseteq held(chores') \cup landed \cup excused
      BY <2>2, <2>3
    <2>5. x.beat # None => x.beat \in held(chores)
      OBVIOUS
    <2>6. held(chores') \subseteq held(chores)
      BY <2>2, <2>3, <2>5
    <2> HIDE DEF held
    <2>7. 1..beats.taken = landed \cup excused \cup Elements(kept.queue) \cup held(chores')
      BY <2>1, <2>4, <2>6
    <2> QED
      BY <1>1, <2>7 DEF QueueKeepsBeats, held
  <1> QED
    BY <1>3, <1>4, <1>5 DEF QueueInv

(* The common case: nothing becomes of a beat.                                 *)
LEMMA PlainChore ==
  ASSUME QueueInv, NEW c \in Chores, NEW x \in Chore, chores' = [chores EXCEPT ![c] = x],
         kept' \in Kept, kept'.queue = kept.queue, activity' \in Activity, beats' = beats,
         ChoreSound(x, kept.queue, beats.landed, beats.taken), x.beat = chores[c].beat
  PROVE  QueueInv'
  <1>1. beats \in History
    BY DEF QueueInv, QueueTypeOK, History
  <1>2. beats = [taken |-> beats.taken, landed |-> beats.landed, excused |-> beats.excused]
    BY <1>1 DEF History
  <1>3. beats.landed \subseteq 1..beats.taken /\ beats.excused \subseteq 1..beats.taken
    BY DEF QueueInv, QueueKeepsBeats
  <1>4. PICK landed, excused : landed = beats.landed /\ excused = beats.excused
    OBVIOUS
  <1>5. beats' = [taken |-> beats.taken, landed |-> landed, excused |-> excused]
    BY <1>2, <1>4
  <1> QED
    BY <1>3, <1>4, <1>5, OneChore

(* A handler past its queue work is sound if it has the beat, the batch and the  *)
(* excuses it had.                                                          *)
LEMMA KeepsSound ==
  ASSUME NEW x, NEW y, NEW q, NEW landed, NEW taken \in Nat, ChoreSound(x, q, landed, taken),
         y.beat = x.beat, y.skipped = x.skipped, y.shifted = x.shifted,
         y.batch = x.batch, y.todo = x.todo, HoldsBeat(y) <=> HoldsBeat(x),
         y.at \notin {"batch", "entries", "flushed"}, y.at = "posted" => y.got # "ok",
         y.at \in {"end", "ask", "asked"} => y.then \in {"none", "session", "revoke", "stopped"}
  PROVE  ChoreSound(y, q, landed, taken)
  BY DEF ChoreSound, IsOldest

(* What the handlers go on with after a session is no less sound, and has the    *)
(* same beat.                                                               *)
LEMMA GivenSound ==
  ASSUME NEW x \in Chore, NEW q \in Seq(Beats), NEW landed, NEW taken \in Nat,
         ChoreSound(x, q, landed, taken), x.at \in {"session", "start", "started"},
         NEW s \in SessionNames \cup {None}
  PROVE  Given(x, s) \in Chore /\ ChoreSound(Given(x, s), q, landed, taken) /\ Given(x, s).beat = x.beat
  <1>1. /\ x.beat \in Beats \cup {None} /\ x.sid \in SessionNames \cup {None} /\ x.skipped \in SUBSET Beats
        /\ x.batch \in Queued /\ x.todo \in Queued /\ x.shifted \in BOOLEAN /\ None \in SessionNames \cup {None}
    BY ChoreFields
  <1>2. CASE x.then = "batch" /\ s # None
    <2>1. Given(x, s) = [at |-> "batch", then |-> "none", beat |-> x.beat, sid |-> x.sid, route |-> s,
                         batch |-> x.batch, todo |-> x.batch, got |-> "none", skipped |-> x.skipped,
                         shifted |-> x.shifted]
      BY <1>2 DEF Given, Chore
    <2>2. Given(x, s) \in Chore
      BY <1>1, <2>1 DEF Chore, Steps
    <2>3. ChoreSound(Given(x, s), q, landed, taken)
      BY <1>2, <2>1 DEF ChoreSound, IsOldest, HoldsBeat
    <2> QED
      BY <2>1, <2>2, <2>3
  <1>3. CASE x.then = "batch" /\ s = None
    <2>1. Given(x, s) = [at |-> "send", then |-> "none", beat |-> x.beat, sid |-> x.sid, route |-> None,
                         batch |-> <<>>, todo |-> x.todo, got |-> "none", skipped |-> x.skipped,
                         shifted |-> x.shifted]
      BY <1>3 DEF Given, Chore
    <2>2. Given(x, s) \in Chore
      BY <1>1, <2>1, EmptyQueue DEF Chore, Steps
    <2>3. IsOldest(Given(x, s), q)
      BY <2>1, EmptyQueue DEF IsOldest
    <2>4. ChoreSound(Given(x, s), q, landed, taken)
      BY <1>3, <2>1, <2>3, EmptyQueue DEF ChoreSound, HoldsBeat
    <2> QED
      BY <2>1, <2>2, <2>4
  <1>4. CASE x.then = "send" /\ s # None
    <2>1. Given(x, s) = [at |-> "post", then |-> "none", beat |-> x.beat, sid |-> s, route |-> None,
                         batch |-> x.batch, todo |-> x.todo, got |-> "none", skipped |-> x.skipped,
                         shifted |-> x.shifted]
      BY <1>4 DEF Given, Chore
    <2>2. Given(x, s) \in Chore
      BY <1>1, <2>1 DEF Chore, Steps
    <2>3. ChoreSound(Given(x, s), q, landed, taken)
      BY <1>4, <2>1, KeepsSound DEF HoldsBeat
    <2> QED
      BY <2>1, <2>2, <2>3
  <1>5. CASE x.then = "again" /\ s # None
    <2>1. Given(x, s) = [at |-> "send", then |-> "none", beat |-> x.beat, sid |-> s, route |-> None,
                         batch |-> x.batch, todo |-> x.todo, got |-> "none", skipped |-> x.skipped,
                         shifted |-> x.shifted]
      BY <1>5 DEF Given, Chore
    <2>2. Given(x, s) \in Chore
      BY <1>1, <2>1 DEF Chore, Steps
    <2>3. ChoreSound(Given(x, s), q, landed, taken)
      BY <1>5, <2>1, KeepsSound DEF HoldsBeat
    <2> QED
      BY <2>1, <2>2, <2>3
  <1>6. CASE x.then \in {"send", "again"} /\ s = None
    <2>1. Given(x, s) = [at |-> "queue", then |-> "none", beat |-> x.beat, sid |-> x.sid, route |-> None,
                         batch |-> x.batch, todo |-> x.todo, got |-> "none", skipped |-> x.skipped,
                         shifted |-> x.shifted]
      BY <1>6 DEF Given, Chore
    <2>2. Given(x, s) \in Chore
      BY <1>1, <2>1 DEF Chore, Steps
    <2>3. ChoreSound(Given(x, s), q, landed, taken)
      BY <1>6, <2>1, KeepsSound DEF HoldsBeat
    <2> QED
      BY <2>1, <2>2, <2>3
  <1>7. CASE x.then \notin {"batch", "send", "again"}
    <2>1. Given(x, s) = NoChore
      BY <1>7 DEF Given
    <2>2. x.beat = None
      BY <1>7 DEF ChoreSound, HoldsBeat
    <2> QED
      BY <2>1, <2>2, NoChoreSound
  <1> QED
    BY <1>2, <1>3, <1>4, <1>5, <1>6, <1>7

(* What is left of a chore when its batch is done with.                         *)
LEMMA UnsentSound ==
  ASSUME NEW x \in Chore, NEW q \in Seq(Beats), NEW landed, NEW taken \in Nat,
         ChoreSound(x, q, landed, taken), HoldsBeat(x)
  PROVE  /\ Unsent(x) \in Chore /\ ChoreSound(Unsent(x), q, landed, taken)
         /\ Unsent(x).beat = x.beat /\ Unsent(x).batch = <<>>
  <1>1. /\ x.beat \in Beats \cup {None} /\ x.sid \in SessionNames \cup {None} /\ None \in SessionNames \cup {None}
    BY ChoreFields
  <1>2. Unsent(x) = [at |-> "send", then |-> x.then, beat |-> x.beat, sid |-> x.sid, route |-> None,
                     batch |-> <<>>, todo |-> <<>>, got |-> x.got, skipped |-> {}, shifted |-> FALSE]
    <2>1. PICK no, empty : no = {} /\ empty = <<>>
      OBVIOUS
    <2>2. Unsent(x) = [x EXCEPT !.at = "send", !.batch = empty, !.todo = empty, !.route = None,
                                !.skipped = no, !.shifted = FALSE]
      BY <2>1 DEF Unsent
    <2>3. Unsent(x) = [at |-> "send", then |-> x.then, beat |-> x.beat, sid |-> x.sid, route |-> None,
                       batch |-> empty, todo |-> empty, got |-> x.got, skipped |-> no, shifted |-> FALSE]
      BY <2>2 DEF Chore
    <2> QED
      BY <2>1, <2>3
  <1>3. Unsent(x) \in Chore
    <2>1. x.then \in {"none", "batch", "send", "again", "fresh", "session", "revoke", "stopped"}
          /\ x.got \in {"none", "ok", "refused", "missing"}
      BY DEF Chore
    <2> QED
      BY <1>1, <1>2, <2>1, EmptyQueue DEF Chore, Steps
  <1>4. IsOldest(Unsent(x), q)
    BY <1>2, EmptyQueue DEF IsOldest
  <1>5. ChoreSound(Unsent(x), q, landed, taken)
    BY <1>2, <1>4, EmptyQueue DEF ChoreSound, HoldsBeat
  <1> QED
    BY <1>2, <1>3, <1>5

(* A handler that starts at a, with nothing in hand.                            *)
Fresh(a, t, d) ==
    [at |-> a, then |-> t, beat |-> None, sid |-> d, route |-> None,
     batch |-> <<>>, todo |-> <<>>, got |-> "none", skipped |-> {}, shifted |-> FALSE]

(* The records that a free handler is turned into.                             *)
LEMMA FromNoChore ==
  ASSUME NEW a, NEW t, NEW y
  PROVE  /\ y = [NoChore EXCEPT !.at = a] =>
               y = Fresh(a, "none", None)
         /\ y = [NoChore EXCEPT !.at = a, !.then = t] =>
               y = Fresh(a, t, None)
  <1>1. PICK z, free, none, nil, empty, no, off :
             /\ z = NoChore /\ free = "free" /\ none = "none" /\ nil = None /\ empty = <<>> /\ no = {}
             /\ off = FALSE
    OBVIOUS
  <1>2. z = [at |-> free, then |-> none, beat |-> nil, sid |-> nil, route |-> nil,
             batch |-> empty, todo |-> empty, got |-> none, skipped |-> no, shifted |-> off]
    BY <1>1, Zenon DEF NoChore
  <1>3. ASSUME y = [z EXCEPT !.at = a]
        PROVE  y = [at |-> a, then |-> none, beat |-> nil, sid |-> nil, route |-> nil,
                    batch |-> empty, todo |-> empty, got |-> none, skipped |-> no, shifted |-> off]
    BY ONLY <1>2, <1>3
  <1>4. ASSUME y = [z EXCEPT !.at = a, !.then = t]
        PROVE  y = [at |-> a, then |-> t, beat |-> nil, sid |-> nil, route |-> nil,
                    batch |-> empty, todo |-> empty, got |-> none, skipped |-> no, shifted |-> off]
    BY ONLY <1>2, <1>4
  <1> QED
    BY <1>1, <1>3, <1>4, Zenon DEF Fresh

(* ... for a session that it has read,                                         *)
LEMMA FromNoChoreTo ==
  ASSUME NEW a, NEW d, NEW y,
         y = [NoChore EXCEPT !.at = a, !.sid = d]
  PROVE  y = Fresh(a, "none", d)
  <1>1. PICK z, free, none, nil, empty, no, off :
             /\ z = NoChore /\ free = "free" /\ none = "none" /\ nil = None /\ empty = <<>> /\ no = {}
             /\ off = FALSE
    OBVIOUS
  <1>2. z = [at |-> free, then |-> none, beat |-> nil, sid |-> nil, route |-> nil,
             batch |-> empty, todo |-> empty, got |-> none, skipped |-> no, shifted |-> off]
    BY <1>1, Zenon DEF NoChore
  <1>3. y = [z EXCEPT !.at = a, !.sid = d]
    BY <1>1
  <1>4. y = [at |-> a, then |-> none, beat |-> nil, sid |-> d, route |-> nil,
             batch |-> empty, todo |-> empty, got |-> none, skipped |-> no, shifted |-> off]
    BY ONLY <1>2, <1>3
  <1> QED
    BY <1>1, <1>4, Zenon DEF Fresh

(* ... or with a heartbeat.                                                    *)
LEMMA FromNoChoreWith ==
  ASSUME NEW a, NEW b, NEW d, NEW y,
         y = [NoChore EXCEPT !.at = a, !.beat = b, !.sid = d]
  PROVE  y = [at |-> a, then |-> "none", beat |-> b, sid |-> d, route |-> None,
              batch |-> <<>>, todo |-> <<>>, got |-> "none", skipped |-> {}, shifted |-> FALSE]
  <1>1. PICK z, free, none, nil, empty, no, off :
             /\ z = NoChore /\ free = "free" /\ none = "none" /\ nil = None /\ empty = <<>> /\ no = {}
             /\ off = FALSE
    OBVIOUS
  <1>2. z = [at |-> free, then |-> none, beat |-> nil, sid |-> nil, route |-> nil,
             batch |-> empty, todo |-> empty, got |-> none, skipped |-> no, shifted |-> off]
    BY <1>1, Zenon DEF NoChore
  <1>3. y = [z EXCEPT !.at = a, !.beat = b, !.sid = d]
    BY <1>1
  <1>4. y = [at |-> a, then |-> none, beat |-> b, sid |-> d, route |-> nil,
             batch |-> empty, todo |-> empty, got |-> none, skipped |-> no, shifted |-> off]
    BY ONLY <1>2, <1>3
  <1> QED
    BY <1>1, <1>4, Zenon

(* A handler that starts with nothing in hand.                                 *)
LEMMA FreshChore ==
  ASSUME NEW a \in Steps, NEW t \in {"none", "fresh", "session", "revoke", "stopped"},
         NEW d \in SessionNames \cup {None}, NEW y,
         y = Fresh(a, t, d),
         ~HoldsBeat(y), a \in {"end", "ask", "asked"} => t # "fresh"
  PROVE  /\ y \in Chore /\ y.beat = None
         /\ \A q \in Seq(Beats), taken \in Nat : \A landed : ChoreSound(y, q, landed, taken)
  <1>1. y \in Chore /\ y.beat = None
    BY EmptyQueue, Numbers DEF Chore, Fresh
  <1>2. ASSUME NEW q \in Seq(Beats), NEW landed, NEW taken \in Nat
        PROVE  ChoreSound(y, q, landed, taken)
    <2>1. IsOldest(y, q)
      BY EmptyQueue DEF IsOldest, Fresh
    <2> QED
      BY <2>1, EmptyQueue, Numbers DEF ChoreSound, HoldsBeat, Fresh
  <1> QED
    BY <1>1, <1>2

(* What follows an end, or an answer about the consent, has nothing in hand.     *)
LEMMA AfterSound ==
  ASSUME NEW x \in Chore, NEW q \in Seq(Beats), NEW landed, NEW taken \in Nat,
         ChoreSound(x, q, landed, taken), x.at \in {"end", "ask", "asked"}
  PROVE  After(x) \in Chore /\ ChoreSound(After(x), q, landed, taken) /\ After(x).beat = x.beat
  <1>1. x.beat = None
    BY DEF ChoreSound, HoldsBeat
  <1>2. CASE x.then = "none"
    BY <1>1, <1>2, NoChoreSound DEF After
  <1>3. CASE x.then # "none"
    <2>1. x.then \in {"session", "revoke", "stopped"}
      BY <1>3 DEF ChoreSound
    <2>2. PICK y, a : y = After(x) /\ a = x.then
      OBVIOUS
    <2>3. y = [NoChore EXCEPT !.at = a]
      BY <1>3, <2>2 DEF After
    <2>4. y = Fresh(a, "none", None)
      BY <2>3, FromNoChore, Zenon
    <2>5. a \in {"session", "revoke", "stopped"}
      BY <2>1, <2>2
    <2>6. y.at = a
      BY <2>4 DEF Fresh
    <2>7. ~HoldsBeat(y) /\ a \in Steps /\ a \notin {"end", "ask", "asked"}
      <3>1. y.then = "none"
        BY <2>4 DEF Fresh
      <3> QED
        BY <2>5, <2>6, <3>1 DEF HoldsBeat, Steps
    <2>8. /\ y \in Chore /\ y.beat = None
          /\ \A r \in Seq(Beats), k \in Nat : \A l : ChoreSound(y, r, l, k)
      <3>1. "none" \in {"none", "fresh", "session", "revoke", "stopped"} /\ None \in SessionNames \cup {None}
        OBVIOUS
      <3>2. a \in Steps /\ (a \in {"end", "ask", "asked"} => "none" # "fresh")
        BY <2>7
      <3>3. ~HoldsBeat(y)
        BY <2>7
      <3>4. PICK t, d : t = "none" /\ d = None
        OBVIOUS
      <3>5. a \in Steps /\ t \in {"none", "fresh", "session", "revoke", "stopped"} /\ d \in SessionNames \cup {None}
        BY <3>1, <3>2, <3>4
      <3>6. y = Fresh(a, t, d) /\ (a \in {"end", "ask", "asked"} => t # "fresh")
        BY <2>4, <3>2, <3>4
      <3> QED
        BY ONLY <3>3, <3>5, <3>6, FreshChore
    <2> QED
      BY <1>1, <2>2, <2>8
  <1> QED
    BY <1>2, <1>3

(* What an invariant state says of a handler.                                 *)
LEMMA StateFacts ==
  ASSUME QueueInv, NEW c \in Chores
  PROVE  /\ chores \in [Chores -> Chore] /\ chores[c] \in Chore
         /\ ChoreSound(chores[c], kept.queue, beats.landed, beats.taken)
         /\ kept \in Kept /\ kept.queue \in Queued /\ kept.queue \in Seq(Beats)
         /\ kept.session \in SessionNames \cup {None}
         /\ activity \in Activity /\ activity.open \in SessionNames \cup {None}
         /\ beats \in History /\ beats.taken \in Nat /\ beats.taken \in 0..MaxBeats
  BY KeptFields, Numbers DEF QueueInv, QueueTypeOK, Activity, History

(* The messages of the pop-up, and the suspension: they start with nothing.      *)
LEMMA MessageSteps ==
  ASSUME QueueInv, NEW c \in Chores,
         Resume(c) \/ StopTracking(c) \/ RevokeInPopup(c) \/ GrantConsent(c) \/ RefreshConsent(c) \/ Suspend(c)
  PROVE  QueueInv'
  <1> DEFINE Ats == {"session", "revoke", "stopped", "end", "grant", "ask"}
             Thens == {"none", "session", "revoke", "stopped"}
             Sids == SessionNames \cup {None}
  <1>1. /\ kept \in Kept /\ activity \in Activity /\ None \in SessionNames \cup {None}
        /\ kept.session \in SessionNames \cup {None}
    BY StateFacts
  <1>2. At(c, "free") /\ activity' = activity /\ beats' = beats
    BY DEF Resume, StopTracking, RevokeInPopup, GrantConsent, RefreshConsent, Suspend
  <1>3. kept' \in Kept /\ kept'.queue = kept.queue
    BY <1>1 DEF Resume, StopTracking, RevokeInPopup, GrantConsent, RefreshConsent, Suspend, Kept
  <1>4. ASSUME NEW a \in Ats, NEW t \in Thens, NEW d \in Sids, NEW y, y = Fresh(a, t, d), Goes(c, y)
        PROVE  QueueInv'
    <2>1. chores' = [chores EXCEPT ![c] = y]
      BY <1>4 DEF Goes
    <2>2. y = Fresh(a, t, d)
      BY <1>4
    <2>3. y.at = a /\ y.then = t
      BY ONLY <2>2 DEF Fresh
    <2>4. ~HoldsBeat(y)
      BY <2>3 DEF HoldsBeat
    <2>5. /\ a \in Steps /\ t \in {"none", "fresh", "session", "revoke", "stopped"}
          /\ (a \in {"end", "ask", "asked"} => t # "fresh") /\ d \in SessionNames \cup {None}
      BY <2>3 DEF Steps
    <2>6. /\ y \in Chore /\ y.beat = None
          /\ \A q \in Seq(Beats), taken \in Nat : \A landed : ChoreSound(y, q, landed, taken)
      BY ONLY <2>2, <2>4, <2>5, FreshChore, Zenon
    <2>7. ChoreSound(y, kept.queue, beats.landed, beats.taken)
      BY <2>6, StateFacts, Zenon
    <2>8. chores[c].beat = None
      BY <1>2, StateFacts DEF ChoreSound, HoldsBeat, At
    <2>9. y.beat = chores[c].beat /\ kept' \in Kept /\ kept'.queue = kept.queue /\ activity' \in Activity /\ beats' = beats
      BY ONLY <1>1, <1>2, <1>3, <2>6, <2>8
    <2> QED
      BY ONLY QueueInv, c \in Chores, <2>1, <2>6, <2>7, <2>9, PlainChore
  <1>5. ASSUME NEW a \in Ats, Goes(c, [NoChore EXCEPT !.at = a])
        PROVE  QueueInv'
    <2>1. PICK y : y = [NoChore EXCEPT !.at = a]
      OBVIOUS
    <2>2. y = Fresh(a, "none", None)
      BY <2>1, FromNoChore, Zenon
    <2> QED
      BY <1>1, <1>4, <1>5, <2>1, <2>2
  <1>6. CASE Resume(c)
    BY <1>5, <1>6 DEF Resume
  <1>7. CASE StopTracking(c)
    <2>1. PICK next \in {"revoke", "stopped"} : next = IF kept.consented THEN "revoke" ELSE "stopped"
      OBVIOUS
    <2>2. CASE kept.session = None
      BY <1>5, <1>7, <2>1, <2>2 DEF StopTracking
    <2>3. CASE kept.session # None
      <3>0. PICK d \in Sids : d = kept.session
        BY <1>1
      <3>1. PICK y : y = [NoChore EXCEPT !.at = "end", !.sid = d, !.then = next]
        OBVIOUS
      <3>2. Goes(c, y)
        BY <1>7, <2>1, <2>3, <3>0, <3>1 DEF StopTracking
      <3>5. y = Fresh("end", next, d)
        <4>1. PICK z, end, free, none, nil, empty, no, off :
                 /\ z = NoChore /\ end = "end" /\ free = "free" /\ none = "none" /\ nil = None /\ empty = <<>>
                 /\ no = {} /\ off = FALSE
          OBVIOUS
        <4>2. z = [at |-> free, then |-> none, beat |-> nil, sid |-> nil, route |-> nil,
                   batch |-> empty, todo |-> empty, got |-> none, skipped |-> no, shifted |-> off]
          BY <4>1, Zenon DEF NoChore
        <4>3. y = [z EXCEPT !.at = end, !.sid = d, !.then = next]
          BY <3>1, <4>1
        <4>4. y = [at |-> end, then |-> next, beat |-> nil, sid |-> d, route |-> nil,
                   batch |-> empty, todo |-> empty, got |-> none, skipped |-> no, shifted |-> off]
          BY ONLY <4>2, <4>3
        <4> QED
          BY <4>1, <4>4, Zenon DEF Fresh
      <3> QED
        BY <1>4, <2>1, <3>2, <3>5
    <2> QED
      BY <2>2, <2>3
  <1>8. CASE RevokeInPopup(c)
    BY <1>5, <1>8 DEF RevokeInPopup
  <1>9. CASE GrantConsent(c)
    BY <1>5, <1>9 DEF GrantConsent
  <1>10. CASE RefreshConsent(c)
    <2>1. PICK t \in {"none", "session"} : Goes(c, [NoChore EXCEPT !.at = "ask", !.then = t])
      BY <1>10 DEF RefreshConsent
    <2>2. PICK y : y = [NoChore EXCEPT !.at = "ask", !.then = t]
      OBVIOUS
    <2>3. y = Fresh("ask", t, None)
      BY <2>2, FromNoChore, Zenon
    <2> QED
      BY <1>1, <1>4, <2>1, <2>2, <2>3
  <1>11. CASE Suspend(c)
    <2>0. PICK d \in Sids : d = kept.session
      BY <1>1
    <2>1. PICK y : y = [NoChore EXCEPT !.at = "end", !.sid = d]
      OBVIOUS
    <2>2. Goes(c, y)
      BY <1>11, <2>0, <2>1 DEF Suspend
    <2>5. y = Fresh("end", "none", d)
      BY <2>1, FromNoChoreTo
    <2> QED
      BY <1>4, <2>2, <2>5
  <1> QED
    BY <1>6, <1>7, <1>8, <1>9, <1>10, <1>11

(* Getting a session, and ending one.                                         *)
LEMMA SessionSteps ==
  ASSUME QueueInv, NEW c \in Chores,
         EnsureActiveSession(c) \/ AnswerStart(c) \/ KeepSession(c) \/ EndKeptSession(c)
  PROVE  QueueInv'
  <1> DEFINE q == kept.queue
  <1>1. PICK x \in Chore : x = chores[c]
    BY StateFacts
  <1>2. /\ kept \in Kept /\ activity \in Activity /\ None \in SessionNames \cup {None}
        /\ kept.session \in SessionNames \cup {None} /\ q \in Seq(Beats) /\ beats.taken \in Nat
        /\ ChoreSound(x, q, beats.landed, beats.taken) /\ activity.open \in SessionNames \cup {None}
    BY <1>1, StateFacts
  <1>3. ASSUME NEW s \in SessionNames \cup {None}, x.at \in {"session", "start", "started"},
               Goes(c, Given(x, s)), kept' \in Kept, kept'.queue = q, UNCHANGED <<activity, beats>>
        PROVE  QueueInv'
    <2>1. Given(x, s) \in Chore /\ ChoreSound(Given(x, s), q, beats.landed, beats.taken) /\ Given(x, s).beat = x.beat
      BY <1>2, <1>3, GivenSound
    <2> QED
      BY <1>1, <1>2, <1>3, <2>1, PlainChore DEF Goes
  <1>4. CASE EnsureActiveSession(c)
    <2>1. x.at = "session" /\ UNCHANGED <<kept, activity, beats>>
      BY <1>1, <1>4 DEF EnsureActiveSession, At
    <2>2. CASE Goes(c, [x EXCEPT !.at = "start"])
      <3>1. PICK y : y = [x EXCEPT !.at = "start"]
        OBVIOUS
      <3>2. y \in Chore
        BY <3>1 DEF Chore, Steps
      <3>3. ChoreSound(y, q, beats.landed, beats.taken) /\ y.beat = x.beat
        BY <1>2, <2>1, <3>1, KeepsSound DEF Chore, HoldsBeat
      <3> QED
        BY <1>1, <1>2, <2>1, <2>2, <3>1, <3>2, <3>3, PlainChore DEF Goes
    <2>3. CASE Goes(c, Given(x, None))
      BY <1>2, <1>3, <2>1, <2>3
    <2>4. CASE Goes(c, Given(x, kept.session))
      BY <1>2, <1>3, <2>1, <2>4
    <2>5. Goes(c, [x EXCEPT !.at = "start"]) \/ Goes(c, Given(x, None)) \/ Goes(c, Given(x, kept.session))
      BY <1>1, <1>4, Zenon DEF EnsureActiveSession
    <2> QED
      BY <2>2, <2>3, <2>4, <2>5
  <1>5. CASE AnswerStart(c)
    <2>1. x.at = "start" /\ UNCHANGED <<kept, beats>>
      BY <1>1, <1>5 DEF AnswerStart, At
    <2>2. PICK s \in SessionNames \cup {None} :
             Goes(c, [x EXCEPT !.at = "started", !.route = s]) /\ activity' \in Activity
      <3>1. CASE activity.consent /\ activity.open = None /\ activity.opened < MaxOpened /\ ~UNCHANGED activity
        <4>1. activity.opened + 1 \in SessionNames /\ activity.opened + 1 \in 0..MaxOpened
          BY <1>2, <3>1, Numbers DEF SessionNames, Activity
        <4>2. activity' = [activity EXCEPT !.open = activity.opened + 1, !.opened = @ + 1]
              /\ Goes(c, [x EXCEPT !.at = "started", !.route = activity.opened + 1])
          BY <1>1, <1>5, <3>1 DEF AnswerStart
        <4>3. activity' \in Activity
          BY <1>2, <4>1, <4>2 DEF Activity
        <4> QED
          BY <4>1, <4>2, <4>3
      <3>2. CASE UNCHANGED activity /\ (Goes(c, [x EXCEPT !.at = "started", !.route = None])
                                        \/ Goes(c, [x EXCEPT !.at = "started", !.route = activity.open]))
        BY <1>2, <3>2
      <3>3. CASE activity.consent /\ activity.open = None /\ activity.opened < MaxOpened /\ UNCHANGED activity
                 /\ Goes(c, [x EXCEPT !.at = "started", !.route = activity.opened + 1])
        <4>1. activity.opened + 1 \in SessionNames
          BY <1>2, <3>3, Numbers DEF SessionNames, Activity
        <4> QED
          BY <1>2, <3>3, <4>1
      <3> QED
        BY <1>1, <1>5, <3>1, <3>2, <3>3 DEF AnswerStart
    <2>3. PICK y : y = [x EXCEPT !.at = "started", !.route = s]
      OBVIOUS
    <2>4. y \in Chore
      BY <2>3 DEF Chore, Steps
    <2>5. /\ y.at = "started" /\ y.then = x.then /\ y.beat = x.beat /\ y.batch = x.batch /\ y.todo = x.todo
          /\ y.skipped = x.skipped /\ y.shifted = x.shifted
      BY <2>3 DEF Chore
    <2>6. ChoreSound(y, q, beats.landed, beats.taken)
      <3>1. HoldsBeat(y) <=> HoldsBeat(x)
        BY <2>1, <2>5 DEF HoldsBeat
      <3> QED
        BY <1>2, <2>5, <3>1, KeepsSound
    <2> QED
      BY <1>1, <1>2, <2>1, <2>2, <2>3, <2>4, <2>5, <2>6, PlainChore DEF Goes
  <1>6. CASE KeepSession(c)
    <2>1. x.at = "started" /\ UNCHANGED <<activity, beats>> /\ Goes(c, Given(x, x.route))
          /\ kept' = IF x.route = None THEN kept ELSE [kept EXCEPT !.session = x.route]
      BY <1>1, <1>6 DEF KeepSession, At
    <2>2. x.route \in SessionNames \cup {None}
      BY ChoreFields
    <2>3. kept' \in Kept /\ kept'.queue = q
      BY <1>2, <2>1, <2>2 DEF Kept
    <2> QED
      BY <1>3, <2>1, <2>2, <2>3
  <1>7. CASE EndKeptSession(c)
    <2>1. x.at = "end" /\ UNCHANGED <<kept, beats>> /\ Goes(c, After(x))
      BY <1>1, <1>7 DEF EndKeptSession, At
    <2>2. activity' \in Activity
      BY <1>2, <1>7 DEF EndKeptSession, Activity
    <2>3. After(x) \in Chore /\ ChoreSound(After(x), q, beats.landed, beats.taken) /\ After(x).beat = x.beat
      BY <1>2, <2>1, AfterSound
    <2> QED
      BY <1>1, <1>2, <2>1, <2>2, <2>3, PlainChore DEF Goes
  <1> QED
    BY <1>4, <1>5, <1>6, <1>7

(* The steps of a heartbeat's way that nothing becomes of it in.                *)
LEMMA WaySteps ==
  ASSUME QueueInv, NEW c \in Chores, FlushQueue(c) \/ AnswerBatch(c) \/ SendHeartbeat(c)
  PROVE  QueueInv'
  <1> DEFINE q == kept.queue
  <1>1. PICK x \in Chore : x = chores[c]
    BY StateFacts
  <1>2. /\ kept \in Kept /\ activity \in Activity /\ None \in SessionNames \cup {None}
        /\ q \in Seq(Beats) /\ q \in Queued /\ beats.taken \in Nat
        /\ ChoreSound(x, q, beats.landed, beats.taken)
    BY <1>1, StateFacts
  <1>3. UNCHANGED <<kept, activity, beats>>
    BY DEF FlushQueue, AnswerBatch, SendHeartbeat
  <1>4. ASSUME NEW y \in Chore, chores' = [chores EXCEPT ![c] = y],
               ChoreSound(y, q, beats.landed, beats.taken), y.beat = x.beat
        PROVE  QueueInv'
    BY <1>1, <1>2, <1>3, <1>4, PlainChore
  <1>5. CASE FlushQueue(c)
    <2>1. x.at = "flush"
      BY <1>1, <1>5 DEF FlushQueue, At
    <2>2. CASE q = <<>>
      <3>1. PICK y : y = [x EXCEPT !.at = "send"]
        OBVIOUS
      <3>2. y \in Chore
        BY <3>1 DEF Chore, Steps
      <3>3. ChoreSound(y, q, beats.landed, beats.taken) /\ y.beat = x.beat
        BY <1>2, <2>1, <3>1, KeepsSound DEF Chore, HoldsBeat
      <3>4. chores' = [chores EXCEPT ![c] = y]
        BY <1>1, <1>5, <2>2, <3>1 DEF FlushQueue, Goes
      <3> QED
        BY <1>4, <3>2, <3>3, <3>4
    <2>3. CASE q # <<>>
      <3>1. PICK y : y = [x EXCEPT !.at = "session", !.then = "batch", !.batch = q]
        OBVIOUS
      <3>2. y \in Chore
        BY <1>2, <3>1 DEF Chore, Steps
      <3>3. /\ y.at = "session" /\ y.then = "batch" /\ y.batch = q /\ y.beat = x.beat /\ y.todo = x.todo
            /\ y.skipped = x.skipped /\ y.shifted = x.shifted
        BY <3>1 DEF Chore
      <3>4. IsOldest(y, q)
        BY <1>2, <3>3 DEF IsOldest
      <3>5. Elements(q) \subseteq 1..beats.taken
        BY DEF QueueInv, QueueKeepsBeats
      <3>6. ChoreSound(y, q, beats.landed, beats.taken)
        BY <1>2, <2>1, <3>3, <3>4, <3>5 DEF ChoreSound, HoldsBeat
      <3>7. chores' = [chores EXCEPT ![c] = y]
        BY <1>1, <1>5, <2>3, <3>1 DEF FlushQueue, Goes
      <3> QED
        BY <1>4, <3>2, <3>3, <3>6, <3>7
    <2> QED
      BY <2>2, <2>3
  <1>6. CASE AnswerBatch(c)
    <2>1. x.at = "batch"
      BY <1>1, <1>6 DEF AnswerBatch, At
    <2>2. CASE chores' = [chores EXCEPT ![c] = [x EXCEPT !.at = "entries"]]
      <3>1. PICK y : y = [x EXCEPT !.at = "entries"]
        OBVIOUS
      <3>2. y \in Chore
        BY <3>1 DEF Chore, Steps
      <3>3. /\ y.at = "entries" /\ y.batch = x.batch /\ y.beat = x.beat /\ y.todo = x.todo
            /\ y.skipped = x.skipped /\ y.shifted = x.shifted
        BY <3>1 DEF Chore
      <3>4. ChoreSound(y, q, beats.landed, beats.taken)
        BY <1>2, <2>1, <3>3 DEF ChoreSound, HoldsBeat, IsOldest
      <3> QED
        BY <1>4, <2>2, <3>1, <3>2, <3>3, <3>4
    <2>3. CASE chores' = [chores EXCEPT ![c] = Unsent(x)]
      <3>1. HoldsBeat(x)
        BY <2>1 DEF HoldsBeat
      <3>2. Unsent(x) \in Chore /\ ChoreSound(Unsent(x), q, beats.landed, beats.taken) /\ Unsent(x).beat = x.beat
        BY <1>2, <3>1, UnsentSound
      <3> QED
        BY <1>4, <2>3, <3>2
    <2> QED
      BY <1>1, <1>6, <2>2, <2>3, Zenon DEF AnswerBatch, Goes
  <1>7. CASE SendHeartbeat(c)
    <2>1. x.at = "send"
      BY <1>1, <1>7 DEF SendHeartbeat, At
    <2>2. PICK y : /\ chores' = [chores EXCEPT ![c] = y]
                   /\ y = [x EXCEPT !.at = "session", !.then = "send"] \/ y = [x EXCEPT !.at = "post"]
      BY <1>1, <1>7 DEF SendHeartbeat, Goes
    <2>3. y \in Chore
      <3>1. CASE y = [x EXCEPT !.at = "session", !.then = "send"]
        BY <3>1 DEF Chore, Steps
      <3>2. CASE y = [x EXCEPT !.at = "post"]
        BY <3>2 DEF Chore, Steps
      <3> QED
        BY <2>2, <3>1, <3>2
    <2>4. ChoreSound(y, q, beats.landed, beats.taken) /\ y.beat = x.beat
      BY <1>2, <2>1, <2>2, KeepsSound DEF Chore, HoldsBeat
    <2> QED
      BY <1>4, <2>2, <2>3, <2>4
  <1> QED
    BY <1>5, <1>6, <1>7

(* The consent: asked for, given, taken back and kept.                          *)
LEMMA ConsentSteps ==
  ASSUME QueueInv, NEW c \in Chores, AnswerConsent(c) \/ KeepConsent(c)
  PROVE  QueueInv'
  <1> DEFINE q == kept.queue
  <1>1. PICK x \in Chore : x = chores[c]
    BY StateFacts
  <1>2. /\ kept \in Kept /\ activity \in Activity /\ None \in SessionNames \cup {None}
        /\ q \in Seq(Beats) /\ beats.taken \in Nat /\ ChoreSound(x, q, beats.landed, beats.taken)
    BY <1>1, StateFacts
  <1>3. ASSUME NEW y \in Chore, Goes(c, y), kept' \in Kept, kept'.queue = q, activity' \in Activity, beats' = beats,
               ChoreSound(y, q, beats.landed, beats.taken), y.beat = x.beat
        PROVE  QueueInv'
    BY <1>1, <1>3, PlainChore DEF Goes
  <1>4. CASE AnswerConsent(c)
    <2>1. kept' \in Kept /\ kept'.queue = q /\ beats' = beats /\ activity' \in Activity
      BY <1>2, <1>4 DEF AnswerConsent, Activity
    <2>2. PICK y : /\ Goes(c, y) /\ x.at \in {"revoke", "grant", "ask"}
                   /\ \/ y = [x EXCEPT !.at = "revoked"] \/ y = [x EXCEPT !.at = "granted"]
                      \/ y = [x EXCEPT !.at = "asked", !.got = "ok"] /\ x.at = "ask"
                      \/ y = [x EXCEPT !.at = "asked", !.got = "refused"] /\ x.at = "ask"
      BY <1>1, <1>4 DEF AnswerConsent, At
    <2>3. y \in Chore
      <3>1. CASE y = [x EXCEPT !.at = "revoked"] \/ y = [x EXCEPT !.at = "granted"]
        <4>1. PICK a \in Steps : y = [x EXCEPT !.at = a]
          BY <3>1 DEF Steps
        <4> QED
          BY <4>1 DEF Chore
      <3>2. CASE \E g \in {"ok", "refused"} : y = [x EXCEPT !.at = "asked", !.got = g]
        <4>1. PICK g \in {"ok", "refused"} : y = [x EXCEPT !.at = "asked", !.got = g]
          BY <3>2
        <4>2. PICK a \in Steps, h \in {"none", "ok", "refused", "missing"} : a = "asked" /\ h = g
          BY DEF Steps
        <4>3. y = [x EXCEPT !.at = a, !.got = h]
          BY <4>1, <4>2
        <4> QED
          BY <4>3 DEF Chore
      <3> QED
        BY <2>2, <3>1, <3>2
    <2>4. ChoreSound(y, q, beats.landed, beats.taken) /\ y.beat = x.beat
      <3>1. /\ y.beat = x.beat /\ y.skipped = x.skipped /\ y.shifted = x.shifted /\ y.then = x.then
            /\ y.batch = x.batch /\ y.todo = x.todo /\ y.at \in {"revoked", "granted", "asked"}
            /\ y.at = "asked" => x.at = "ask"
        BY <2>2 DEF Chore
      <3>2. HoldsBeat(y) <=> HoldsBeat(x)
        BY <2>2, <3>1 DEF HoldsBeat
      <3>3. y.at \in {"end", "ask", "asked"} => y.then \in {"none", "session", "revoke", "stopped"}
        BY <1>2, <3>1 DEF ChoreSound
      <3> QED
        BY <1>2, <3>1, <3>2, <3>3, KeepsSound
    <2> QED
      BY <1>3, <2>1, <2>2, <2>3, <2>4
  <1>5. CASE KeepConsent(c)
    <2>1. activity' \in Activity /\ beats' = beats
      BY <1>2, <1>5 DEF KeepConsent
    <2>2. x.at \in {"revoked", "stopped", "granted", "asked"}
      BY <1>1, <1>5 DEF KeepConsent, At
    <2>3. x.beat = None
      BY <1>2, <2>2 DEF ChoreSound, HoldsBeat
    <2>4. kept' \in Kept /\ kept'.queue = q
      BY <1>2, <1>5 DEF KeepConsent, Kept
    <2>5. CASE Goes(c, NoChore)
      BY <1>2, <1>3, <2>1, <2>3, <2>4, <2>5, NoChoreSound
    <2>6. CASE Goes(c, [NoChore EXCEPT !.at = "session", !.then = "fresh"])
      <3>1. PICK y : y = [NoChore EXCEPT !.at = "session", !.then = "fresh"]
        OBVIOUS
      <3>2. y = Fresh("session", "fresh", None)
        BY <3>1 DEF NoChore, Fresh
      <3>3. ~HoldsBeat(y)
        BY <3>2 DEF HoldsBeat, Fresh
      <3>4. y \in Chore /\ y.beat = None /\ ChoreSound(y, q, beats.landed, beats.taken)
        <4>1. "session" \in Steps /\ "fresh" \in {"none", "fresh", "session", "revoke", "stopped"}
          BY DEF Steps
        <4> QED
          BY <1>2, <3>2, <3>3, <4>1, FreshChore
      <3> QED
        BY <1>3, <2>1, <2>3, <2>4, <2>6, <3>1, <3>4
    <2>7. CASE Goes(c, After(x)) /\ x.at = "asked"
      <3>1. After(x) \in Chore /\ ChoreSound(After(x), q, beats.landed, beats.taken) /\ After(x).beat = x.beat
        BY <1>2, <2>7, AfterSound
      <3> QED
        BY <1>3, <2>1, <2>4, <2>7, <3>1
    <2> QED
      BY <1>1, <1>5, <2>5, <2>6, <2>7 DEF KeepConsent, At
  <1> QED
    BY <1>4, <1>5

(* A request or its answer is lost.                                          *)
LEMMA LostSteps ==
  ASSUME QueueInv, NEW c \in Chores, LoseRequest(c)
  PROVE  QueueInv'
  <1> DEFINE q == kept.queue
  <1>1. PICK x \in Chore : x = chores[c]
    BY StateFacts
  <1>2. /\ kept \in Kept /\ activity \in Activity /\ None \in SessionNames \cup {None}
        /\ q \in Seq(Beats) /\ beats.taken \in Nat /\ ChoreSound(x, q, beats.landed, beats.taken)
    BY <1>1, StateFacts
  <1>3. kept' \in Kept /\ kept'.queue = q /\ activity' \in Activity /\ beats' = beats
    BY <1>2 DEF LoseRequest, Kept
  <1>4. ASSUME NEW y \in Chore, Goes(c, y), ChoreSound(y, q, beats.landed, beats.taken), y.beat = x.beat
        PROVE  QueueInv'
    BY <1>1, <1>3, <1>4, PlainChore DEF Goes
  <1>5. CASE x.at \in {"start", "started"} /\ Goes(c, Given(x, None))
    <2>1. /\ Given(x, None) \in Chore /\ ChoreSound(Given(x, None), q, beats.landed, beats.taken)
          /\ Given(x, None).beat = x.beat
      BY <1>2, <1>5, GivenSound
    <2> QED
      BY <1>4, <1>5, <2>1
  <1>6. CASE x.at \in {"batch", "entries", "flushed"} /\ Goes(c, Unsent(x))
    <2>1. HoldsBeat(x)
      BY <1>6 DEF HoldsBeat
    <2>2. Unsent(x) \in Chore /\ ChoreSound(Unsent(x), q, beats.landed, beats.taken) /\ Unsent(x).beat = x.beat
      BY <1>2, <2>1, UnsentSound
    <2> QED
      BY <1>4, <1>6, <2>2
  <1>7. CASE x.at \in {"post", "posted"} /\ Goes(c, [x EXCEPT !.at = "queue", !.got = "none", !.route = None])
    <2>1. PICK y : y = [x EXCEPT !.at = "queue", !.got = "none", !.route = None]
      OBVIOUS
    <2>2. y \in Chore
      BY <1>2, <2>1 DEF Chore, Steps
    <2>3. ChoreSound(y, q, beats.landed, beats.taken) /\ y.beat = x.beat
      <3>1. /\ y.at = "queue" /\ y.beat = x.beat /\ y.batch = x.batch /\ y.todo = x.todo
            /\ y.skipped = x.skipped /\ y.shifted = x.shifted
        BY <2>1 DEF Chore
      <3>2. HoldsBeat(y) <=> HoldsBeat(x)
        BY <1>7, <3>1 DEF HoldsBeat
      <3> QED
        BY <1>2, <3>1, <3>2, KeepsSound
    <2> QED
      BY <1>4, <1>7, <2>1, <2>2, <2>3
  <1>8. CASE x.at \in {"end", "ask", "asked"} /\ Goes(c, After(x))
    <2>1. After(x) \in Chore /\ ChoreSound(After(x), q, beats.landed, beats.taken) /\ After(x).beat = x.beat
      BY <1>2, <1>8, AfterSound
    <2> QED
      BY <1>4, <1>8, <2>1
  <1>9. CASE x.at \in {"revoke", "revoked", "grant", "granted"} /\ Goes(c, NoChore)
    <2>1. x.beat = None
      BY <1>2, <1>9 DEF ChoreSound, HoldsBeat
    <2> QED
      BY <1>2, <1>4, <1>9, <2>1, NoChoreSound
  <1> QED
    BY <1>1, <1>5, <1>6, <1>7, <1>8, <1>9 DEF LoseRequest

(* The first entry of a batch and the rest.                                    *)
LEMMA HeadAndTail ==
  ASSUME NEW q \in Queued, q # <<>>
  PROVE  /\ Tail(q) \in Queued /\ Head(q) \in Beats
         /\ Elements(q) = {Head(q)} \cup Elements(Tail(q))
  <1>1. q \in Seq(Beats) /\ Len(q) <= QueueCap /\ Len(q) \in Nat /\ Len(q) >= 1
    BY QueuedAre, EmptySequence
  <1>2. /\ Tail(q) \in Seq(Beats) /\ Len(Tail(q)) = Len(q) - 1 /\ Head(q) = q[1] /\ q[1] \in Beats
        /\ \A i \in 1..(Len(q) - 1) : Tail(q)[i] = q[i + 1]
    BY <1>1
  <1>3. Tail(q) \in Queued
    <2>1. Len(Tail(q)) <= QueueCap
      BY <1>1, <1>2, Numbers
    <2> QED
      BY <1>2, <2>1, QueuedAre
  <1>4. Elements(q) \subseteq {Head(q)} \cup Elements(Tail(q))
    <2>1. ASSUME NEW i \in 1..Len(q), i # 1 PROVE q[i] \in Elements(Tail(q))
      <3>1. i - 1 \in 1..(Len(q) - 1) /\ q[i] = Tail(q)[i - 1]
        BY <1>1, <1>2, <2>1
      <3> QED
        BY <1>2, <3>1 DEF Elements
    <2> QED
      BY <1>2, <2>1 DEF Elements
  <1>5. {Head(q)} \cup Elements(Tail(q)) \subseteq Elements(q)
    <2>1. ASSUME NEW i \in 1..(Len(q) - 1) PROVE Tail(q)[i] \in Elements(q)
      <3>1. i + 1 \in 1..Len(q)
        BY <1>1
      <3> QED
        BY <1>2, <3>1 DEF Elements
    <2>2. Head(q) \in Elements(q)
      BY <1>1, <1>2 DEF Elements
    <2> QED
      BY <1>2, <2>1, <2>2 DEF Elements
  <1> QED
    BY <1>2, <1>3, <1>4, <1>5

(* What a beat that the server records leaves.                                 *)
LEMMA RecordsFacts ==
  ASSUME QueueInv, NEW b, b \in 1..beats.taken, NEW s, NEW after \in SessionNames, Records(b, s, after)
  PROVE  /\ activity' \in Activity
         /\ beats' = [taken |-> beats.taken, landed |-> beats.landed \cup {b}, excused |-> beats.excused]
  <1>1. activity \in Activity /\ beats \in History
    BY DEF QueueInv, QueueTypeOK, Activity, History
  <1>2. activity' \in Activity
    <2>1. CASE UNCHANGED activity
      BY <1>1, <2>1
    <2>2. CASE after = activity.opened + 1 /\ activity' = [activity EXCEPT !.open = after, !.opened = after]
      <3>1. after \in 0..MaxOpened
        BY DEF SessionNames
      <3> QED
        BY <1>1, <2>2, <3>1 DEF Activity
    <2> QED
      BY <2>1, <2>2 DEF Records
  <1>3. beats' = [taken |-> beats.taken, landed |-> beats.landed \cup {b}, excused |-> beats.excused]
    BY <1>1 DEF Records, History
  <1> QED
    BY <1>2, <1>3

(* The history as the lemma about one handler takes it.                          *)
LEMMA HistoryFacts ==
  ASSUME QueueInv
  PROVE  /\ beats = [taken |-> beats.taken, landed |-> beats.landed, excused |-> beats.excused]
         /\ beats.landed \subseteq 1..beats.taken /\ beats.excused \subseteq 1..beats.taken
         /\ Elements(kept.queue) \subseteq 1..beats.taken /\ 1..beats.taken \subseteq Beats
  <1>1. beats \in History
    BY DEF QueueInv, QueueTypeOK, History
  <1>2. 1..beats.taken \subseteq Beats
    BY <1>1, Numbers DEF History, Beats
  <1> QED
    BY <1>1, <1>2 DEF QueueInv, QueueKeepsBeats, History

(* The server takes the entries of a batch, one after another.                   *)
LEMMA EntrySteps ==
  ASSUME QueueInv, NEW c \in Chores, RecordEntry(c)
  PROVE  QueueInv'
  <1> DEFINE q == kept.queue
  <1>1. PICK x \in Chore : x = chores[c]
    BY StateFacts
  <1>2. /\ kept \in Kept /\ activity \in Activity /\ q \in Seq(Beats) /\ beats.taken \in Nat
        /\ ChoreSound(x, q, beats.landed, beats.taken) /\ x.at = "entries" /\ kept' = kept
        /\ x.todo \in Queued /\ x.skipped \in SUBSET Beats
    BY <1>1, StateFacts, ChoreFields DEF RecordEntry, At
  <1>3. CASE /\ x.todo = <<>> /\ Goes(c, [x EXCEPT !.at = "flushed"]) /\ UNCHANGED <<activity, beats>>
    <2>1. PICK y : y = [x EXCEPT !.at = "flushed"]
      OBVIOUS
    <2>2. y \in Chore
      BY <2>1 DEF Chore, Steps
    <2>3. /\ y.at = "flushed" /\ y.batch = x.batch /\ y.beat = x.beat /\ y.todo = x.todo
          /\ y.skipped = x.skipped /\ y.shifted = x.shifted
      BY <2>1 DEF Chore
    <2>4. ChoreSound(y, q, beats.landed, beats.taken)
      BY <1>2, <1>3, <2>3 DEF ChoreSound, HoldsBeat, IsOldest
    <2> QED
      BY <1>1, <1>2, <1>3, <2>1, <2>2, <2>3, <2>4, PlainChore DEF Goes
  <1>4. CASE x.todo # <<>>
    <2>1. /\ Tail(x.todo) \in Queued /\ Head(x.todo) \in Beats
          /\ Elements(x.todo) = {Head(x.todo)} \cup Elements(Tail(x.todo))
      BY <1>2, <1>4, HeadAndTail
    <2>2. PICK h, t : h = Head(x.todo) /\ t = Tail(x.todo)
      OBVIOUS
    <2>3. h \in 1..beats.taken /\ Elements(t) \subseteq 1..beats.taken
      BY <1>2, <2>1, <2>2 DEF ChoreSound
    <2>4. ASSUME NEW after \in SessionNames, Records(h, x.route, after),
                 Goes(c, [x EXCEPT !.todo = t, !.route = after])
          PROVE  QueueInv'
      <3>1. PICK landed, excused : landed = beats.landed \cup {h} /\ excused = beats.excused
        OBVIOUS
      <3>2. beats' = [taken |-> beats.taken, landed |-> landed, excused |-> excused] /\ activity' \in Activity
        BY <2>3, <2>4, <3>1, RecordsFacts
      <3>3. PICK y : y = [x EXCEPT !.todo = t, !.route = after]
        OBVIOUS
      <3>4. y \in Chore
        BY <2>1, <2>2, <3>3 DEF Chore
      <3>5. /\ y.at = "entries" /\ y.batch = x.batch /\ y.beat = x.beat /\ y.todo = t
            /\ y.skipped = x.skipped /\ y.shifted = x.shifted
        BY <1>2, <3>3 DEF Chore
      <3>6. ChoreSound(y, q, landed, beats.taken)
        BY <1>2, <2>1, <2>2, <2>3, <3>1, <3>5 DEF ChoreSound, HoldsBeat, IsOldest
      <3>7. landed \subseteq 1..beats.taken /\ excused \subseteq 1..beats.taken
            /\ beats.landed \subseteq landed /\ beats.excused \subseteq excused
        BY <2>3, <3>1, HistoryFacts
      <3> QED
        BY <1>1, <1>2, <2>4, <3>2, <3>3, <3>4, <3>5, <3>6, <3>7, OneChore DEF Goes
    <2>5. CASE Goes(c, [x EXCEPT !.todo = t, !.skipped = @ \cup {h}]) /\ UNCHANGED <<activity, beats>>
      <3>1. PICK y : y = [x EXCEPT !.todo = t, !.skipped = x.skipped \cup {h}]
        OBVIOUS
      <3>2. x.skipped \cup {h} \in SUBSET Beats
        BY <1>2, <2>1, <2>2
      <3>3. y \in Chore
        BY <2>1, <2>2, <3>1, <3>2 DEF Chore
      <3>4. /\ y.at = "entries" /\ y.batch = x.batch /\ y.beat = x.beat /\ y.todo = t
            /\ y.skipped = x.skipped \cup {h} /\ y.shifted = x.shifted
        BY <1>2, <3>1 DEF Chore
      <3>5. ChoreSound(y, q, beats.landed, beats.taken)
        BY <1>2, <2>1, <2>2, <2>3, <3>4 DEF ChoreSound, HoldsBeat, IsOldest
      <3>6. chores' = [chores EXCEPT ![c] = y]
        BY <1>1, <2>5, <3>1 DEF Goes
      <3> QED
        BY <1>1, <1>2, <2>5, <3>3, <3>4, <3>5, <3>6, PlainChore
    <2> QED
      BY <1>1, <1>4, <2>2, <2>4, <2>5 DEF RecordEntry
  <1> QED
    BY <1>1, <1>3, <1>4 DEF RecordEntry

(* A heartbeat's own answer, and what the extension makes of it.                  *)
LEMMA AnswerSteps ==
  ASSUME QueueInv, NEW c \in Chores, AnswerHeartbeat(c) \/ ReadAnswer(c)
  PROVE  QueueInv'
  <1> DEFINE q == kept.queue
  <1>1. PICK x \in Chore : x = chores[c]
    BY StateFacts
  <1>2. /\ kept \in Kept /\ activity \in Activity /\ q \in Seq(Beats) /\ beats.taken \in Nat
        /\ ChoreSound(x, q, beats.landed, beats.taken) /\ None \in SessionNames \cup {None}
        /\ x.route \in SessionNames \cup {None} /\ x.beat \in Nat
    BY <1>1, StateFacts, ChoreFields
  <1>3. x.at \in {"post", "posted"} /\ x.beat \in 1..beats.taken /\ x.beat # None
    <2>1. x.at \in {"post", "posted"}
      BY <1>1 DEF AnswerHeartbeat, ReadAnswer, At
    <2>2. x.beat # None /\ x.beat <= beats.taken
      BY <1>2, <2>1 DEF ChoreSound, HoldsBeat
    <2> QED
      BY <1>2, <2>1, <2>2, Numbers
  <1>4. CASE AnswerHeartbeat(c)
    <2>1. x.at = "post" /\ kept' = kept
      BY <1>1, <1>4 DEF AnswerHeartbeat, At
    <2>2. ASSUME NEW y, y = [x EXCEPT !.at = "queue"] \/ y = [x EXCEPT !.at = "posted", !.got = "refused"]
                        \/ y = [x EXCEPT !.at = "posted", !.got = "missing"],
                 Goes(c, y), UNCHANGED <<activity, beats>>
          PROVE  QueueInv'
      <3>1. y \in Chore
        <4>1. CASE y = [x EXCEPT !.at = "queue"]
          BY <4>1 DEF Chore, Steps
        <4>2. CASE \E g \in {"refused", "missing"} : y = [x EXCEPT !.at = "posted", !.got = g]
          <5>1. PICK g \in {"refused", "missing"} : y = [x EXCEPT !.at = "posted", !.got = g]
            BY <4>2
          <5>2. PICK a \in Steps, h \in {"none", "ok", "refused", "missing"} : a = "posted" /\ h = g
            BY DEF Steps
          <5>3. y = [x EXCEPT !.at = a, !.got = h]
            BY <5>1, <5>2
          <5> QED
            BY <5>3 DEF Chore
        <4> QED
          BY <2>2, <4>1, <4>2
      <3>2. ChoreSound(y, q, beats.landed, beats.taken) /\ y.beat = x.beat
        BY <1>2, <2>1, <2>2, KeepsSound DEF Chore, HoldsBeat
      <3> QED
        BY <1>1, <1>2, <2>1, <2>2, <3>1, <3>2, PlainChore DEF Goes
    <2>3. ASSUME NEW after \in SessionNames, Records(x.beat, x.sid, after),
                 Goes(c, [x EXCEPT !.at = "posted", !.got = "ok", !.route = after])
          PROVE  QueueInv'
      <3>1. PICK landed, excused : landed = beats.landed \cup {x.beat} /\ excused = beats.excused
        OBVIOUS
      <3>2. beats' = [taken |-> beats.taken, landed |-> landed, excused |-> excused] /\ activity' \in Activity
        BY <1>3, <2>3, <3>1, RecordsFacts
      <3>3. PICK y : y = [x EXCEPT !.at = "posted", !.got = "ok", !.route = after]
        OBVIOUS
      <3>4. y \in Chore
        <4>1. x \in Chore /\ after \in SessionNames
          BY <1>1, <2>3
        <4>2. PICK r : r = after /\ r \in SessionNames \cup {None}
          BY <4>1
        <4>3. "posted" \in Steps
          BY DEF Steps
        <4>4. y = [x EXCEPT !.at = "posted", !.got = "ok", !.route = r]
          BY ONLY <3>3, <4>2
        <4> QED
          BY ONLY <4>1, <4>2, <4>3, <4>4 DEF Chore
      <3>5. /\ y.at = "posted" /\ y.batch = x.batch /\ y.beat = x.beat /\ y.todo = x.todo
            /\ y.skipped = x.skipped /\ y.shifted = x.shifted
        BY <3>3 DEF Chore
      <3>6. ChoreSound(y, q, landed, beats.taken)
        BY <1>2, <1>3, <3>1, <3>5 DEF ChoreSound, HoldsBeat, IsOldest
      <3>7. landed \subseteq 1..beats.taken /\ excused \subseteq 1..beats.taken
            /\ beats.landed \subseteq landed /\ beats.excused \subseteq excused
        BY <1>3, <3>1, HistoryFacts
      <3>8. chores' = [chores EXCEPT ![c] = y]
        BY <2>3, <3>3 DEF Goes
      <3>9. kept' \in Kept /\ kept'.queue = kept.queue
        BY <1>2, <2>1
      <3>10. y.beat = chores[c].beat /\ ChoreSound(y, kept.queue, landed, beats.taken)
        BY <1>1, <3>5, <3>6
      <3> QED
        BY ONLY QueueInv, c \in Chores, <3>2, <3>4, <3>7, <3>8, <3>9, <3>10, OneChore
    <2> QED
      BY <1>1, <1>4, <2>2, <2>3 DEF AnswerHeartbeat
  <1>5. CASE ReadAnswer(c)
    <2>1. x.at = "posted" /\ activity' = activity
      BY <1>1, <1>5 DEF ReadAnswer, At
    <2>2. NoChore \in Chore /\ NoChore.beat = None /\ \A landed : ChoreSound(NoChore, q, landed, beats.taken)
      BY <1>2, NoChoreSound
    <2>3. CASE x.got = "ok" /\ kept' = [kept EXCEPT !.session = x.route] /\ Goes(c, NoChore) /\ UNCHANGED beats
      <3>1. PICK landed, excused : landed = beats.landed /\ excused = beats.excused
        OBVIOUS
      <3>2. x.beat \in landed
        BY <1>2, <2>1, <2>3, <3>1 DEF ChoreSound
      <3>3. kept' \in Kept /\ kept'.queue = q
        BY <1>2, <2>3 DEF Kept
      <3>4. beats' = [taken |-> beats.taken, landed |-> landed, excused |-> excused]
        BY <2>3, <3>1, HistoryFacts
      <3>5. landed \subseteq 1..beats.taken /\ excused \subseteq 1..beats.taken
        BY <3>1, HistoryFacts
      <3> QED
        BY <1>1, <1>2, <2>1, <2>2, <2>3, <3>1, <3>2, <3>3, <3>4, <3>5, OneChore DEF Goes
    <2>4. CASE Goes(c, [x EXCEPT !.at = "session", !.then = "again", !.got = "none"]) /\ UNCHANGED <<kept, beats>>
      <3>1. PICK y : y = [x EXCEPT !.at = "session", !.then = "again", !.got = "none"]
        OBVIOUS
      <3>2. y \in Chore
        BY <3>1 DEF Chore, Steps
      <3>3. ChoreSound(y, q, beats.landed, beats.taken) /\ y.beat = x.beat
        <4>1. /\ y.at = "session" /\ y.then = "again" /\ y.beat = x.beat /\ y.batch = x.batch /\ y.todo = x.todo
              /\ y.skipped = x.skipped /\ y.shifted = x.shifted
          BY <3>1 DEF Chore
        <4>2. HoldsBeat(y) <=> HoldsBeat(x)
          BY <2>1, <4>1 DEF HoldsBeat
        <4> QED
          BY <1>2, <4>1, <4>2, KeepsSound
      <3> QED
        BY <1>1, <1>2, <2>1, <2>4, <3>1, <3>2, <3>3, PlainChore DEF Goes
    <2>5. CASE /\ kept' = [kept EXCEPT !.consented = FALSE] /\ Goes(c, NoChore)
               /\ beats' = [beats EXCEPT !.excused = @ \cup {x.beat}]
      <3>1. PICK landed, excused : landed = beats.landed /\ excused = beats.excused \cup {x.beat}
        OBVIOUS
      <3>2. kept' \in Kept /\ kept'.queue = q
        BY <1>2, <2>5 DEF Kept
      <3>3. beats' = [taken |-> beats.taken, landed |-> landed, excused |-> excused]
        BY <2>5, <3>1, HistoryFacts
      <3>4. landed \subseteq 1..beats.taken /\ excused \subseteq 1..beats.taken
        BY <1>3, <3>1, HistoryFacts
      <3>5. /\ chores' = [chores EXCEPT ![c] = NoChore] /\ activity' \in Activity
            /\ beats.landed \subseteq landed /\ beats.excused \subseteq excused
        BY <1>2, <2>1, <2>5, <3>1 DEF Goes
      <3>6. chores[c].beat \in landed \cup excused
        BY <1>1, <3>1
      <3>7. NoChore \in Chore /\ NoChore.beat = None /\ ChoreSound(NoChore, kept.queue, landed, beats.taken)
        BY <2>2
      <3> QED
        BY <3>2, <3>3, <3>4, <3>5, <3>6, <3>7, OneChore, Zenon
    <2> QED
      BY <1>1, <1>5, <2>3, <2>4, <2>5 DEF ReadAnswer
  <1> QED
    BY <1>4, <1>5

(* A step that changes the queue too: what leaves the queue and the handler has    *)
(* landed or is excused, or the queue or the handler has it.                     *)
LEMMA QueueStep ==
  ASSUME QueueInv, NEW c \in Chores, NEW x \in Chore, NEW cs \in [Chores -> Chore],
         chores' = [cs EXCEPT ![c] = x],
         NEW queue \in Queued, kept' = [kept EXCEPT !.queue = queue], activity' = activity,
         NEW excused, excused \subseteq 1..beats.taken, beats.excused \subseteq excused,
         beats' = [taken |-> beats.taken, landed |-> beats.landed, excused |-> excused],
         ChoreSound(x, queue, beats.landed, beats.taken),
         \A d \in Chores \ {c} : /\ cs[d].beat = chores[d].beat
                                 /\ ChoreSound(cs[d], queue, beats.landed, beats.taken),
         Elements(queue) \subseteq 1..beats.taken,
         Elements(kept.queue) \subseteq Elements(queue) \cup beats.landed \cup excused,
         \/ x.beat = chores[c].beat
         \/ x.beat = None /\ (chores[c].beat = None \/ chores[c].beat \in Elements(queue) \cup excused)
  PROVE  QueueInv'
  <1>1. /\ kept \in Kept /\ activity \in Activity /\ beats.taken \in 0..MaxBeats
        /\ beats'.taken = beats.taken /\ beats'.landed = beats.landed /\ beats'.excused = excused
    BY StateFacts
  <1>2. kept' \in Kept /\ kept'.queue = queue
    BY <1>1 DEF Kept
  <1>3. chores' \in [Chores -> Chore] /\ chores'[c] = x /\ \A d \in Chores \ {c} : chores'[d] = cs[d]
    OBVIOUS
  <1>4. QueueTypeOK'
    <2>1. beats' \in History
      <3>1. beats.landed \in SUBSET Beats /\ excused \in SUBSET Beats
        BY HistoryFacts
      <3> QED
        BY <1>1, <3>1 DEF History
    <2> QED
      BY <1>1, <1>2, <1>3, <2>1 DEF QueueTypeOK, Activity, History
  <1>5. \A d \in Chores : ChoreSound(chores'[d], kept'.queue, beats'.landed, beats'.taken)
    <2> TAKE d \in Chores
    <2>1. CASE d = c
      BY <1>1, <1>2, <1>3, <2>1
    <2>2. CASE d # c
      BY <1>1, <1>2, <1>3, <2>2
    <2> QED
      BY <2>1, <2>2
  <1>6. QueueKeepsBeats'
    <2> DEFINE held(f) == {f[d].beat : d \in {e \in Chores : f[e].beat # None}}
    <2>1. 1..beats.taken = beats.landed \cup beats.excused \cup Elements(kept.queue) \cup held(chores)
      BY DEF QueueInv, QueueKeepsBeats
    <2>2. \A d \in Chores : d # c => chores'[d].beat = chores[d].beat
      BY <1>3
    <2>3. held(chores) \subseteq held(chores') \cup Elements(queue) \cup excused
      BY <1>3, <2>2
    <2>4. held(chores') \subseteq held(chores)
      BY <1>3, <2>2
    <2> HIDE DEF held
    <2>5. 1..beats.taken = beats.landed \cup excused \cup Elements(queue) \cup held(chores')
      BY <2>1, <2>3, <2>4
    <2> QED
      BY <1>1, <1>2, <2>5 DEF QueueKeepsBeats, held
  <1> QED
    BY <1>4, <1>5, <1>6 DEF QueueInv

(* A handler whose batch is on its way is told that the queue has moved.          *)
LEMMA ShiftSound ==
  ASSUME chores \in [Chores -> Chore], NEW q, NEW landed, NEW taken \in Nat,
         NEW r \in Seq(Beats), \A d \in Chores : ChoreSound(chores[d], q, landed, taken)
  PROVE  /\ Shift(chores) \in [Chores -> Chore]
         /\ \A d \in Chores : Shift(chores)[d].beat = chores[d].beat /\ ChoreSound(Shift(chores)[d], r, landed, taken)
  <1>1. ASSUME NEW d \in Chores
        PROVE  /\ Shift(chores)[d] \in Chore /\ Shift(chores)[d].beat = chores[d].beat
               /\ ChoreSound(Shift(chores)[d], r, landed, taken)
    <2>1. PICK x \in Chore : x = chores[d]
      OBVIOUS
    <2>2. ChoreSound(x, q, landed, taken)
      BY <2>1
    <2>3. CASE x.batch = <<>>
      <3>1. Shift(chores)[d] = x
        BY <2>1, <2>3 DEF Shift
      <3>2. IsOldest(x, r)
        BY <2>3, EmptyQueue DEF IsOldest
      <3>3. ChoreSound(x, r, landed, taken)
        BY <2>2, <3>2 DEF ChoreSound
      <3> QED
        BY <2>1, <3>1, <3>3
    <2>4. CASE x.batch # <<>>
      <3>1. PICK y : y = [x EXCEPT !.shifted = TRUE]
        OBVIOUS
      <3>2. Shift(chores)[d] = y
        BY <2>1, <2>4, <3>1 DEF Shift
      <3>3. y \in Chore
        BY <3>1 DEF Chore
      <3>4. /\ y.at = x.at /\ y.then = x.then /\ y.beat = x.beat /\ y.batch = x.batch /\ y.todo = x.todo
            /\ y.got = x.got /\ y.skipped = x.skipped
        BY <3>1 DEF Chore
      <3>5. y.shifted
        BY <3>1 DEF Chore
      <3>6. ChoreSound(y, r, landed, taken)
        BY <2>2, <3>4, <3>5 DEF ChoreSound, HoldsBeat
      <3> QED
        BY <2>1, <3>2, <3>3, <3>4, <3>6
    <2> QED
      BY <2>3, <2>4
  <1>2. Shift(chores) = [d \in Chores |-> Shift(chores)[d]]
    BY DEF Shift
  <1> QED
    BY <1>1, <1>2

(* The oldest entries go: they are the batch's, or an excused handler's.          *)
LEMMA DropStep ==
  ASSUME QueueInv, NEW c \in Chores, DropSent(c)
  PROVE  QueueInv'
  <1>1. PICK x \in Chore : x = chores[c]
    BY StateFacts
  <1>2. PICK q \in Queued : q = kept.queue
    BY StateFacts
  <1>3. /\ q \in Seq(Beats) /\ Len(q) <= QueueCap /\ Len(q) \in Nat /\ beats.taken \in Nat
        /\ ChoreSound(x, q, beats.landed, beats.taken) /\ x.at = "flushed"
        /\ x.batch \in Seq(Beats) /\ chores \in [Chores -> Chore] /\ QueueCap \in Nat
    BY <1>1, <1>2, StateFacts, ChoreFields, QueuedAre, Numbers DEF DropSent, At
  <1>4. PICK n \in Nat : n = Len(x.batch)
    BY <1>3
  <1>5. PICK sent, rest : sent = Oldest(q, n) /\ rest = Rest(q, n)
    OBVIOUS
  <1>6. /\ sent \in Seq(Beats) /\ rest \in Seq(Beats) /\ Len(rest) <= Len(q)
        /\ Len(sent) = IF n < Len(q) THEN n ELSE Len(q)
        /\ \A i \in 1..Len(sent) : sent[i] = q[i]
        /\ Elements(q) = Elements(sent) \cup Elements(rest)
    BY <1>3, <1>5, QueueSplits
  <1>7. rest \in Queued
    BY <1>3, <1>6, QueuedAre
  <1>8. PICK lost : lost = IF x.shifted THEN Elements(sent) \ Elements(x.batch) ELSE {}
    OBVIOUS
  <1>9. PICK excused : excused = beats.excused \cup x.skipped \cup lost
    OBVIOUS
  <1>10. Elements(q) \subseteq 1..beats.taken /\ beats.excused \subseteq 1..beats.taken
    BY <1>2, HistoryFacts
  <1>11. excused \subseteq 1..beats.taken
    BY <1>3, <1>6, <1>8, <1>9, <1>10 DEF ChoreSound
  <1>12. Elements(sent) \subseteq beats.landed \cup excused
    <2>1. Elements(x.batch) \subseteq beats.landed \cup x.skipped
      BY <1>3, EmptyQueue DEF ChoreSound
    <2>2. CASE x.shifted
      BY <1>8, <1>9, <2>1, <2>2
    <2>3. CASE ~x.shifted
      <3>1. n <= Len(q) /\ \A i \in 1..n : x.batch[i] = q[i]
        BY <1>3, <1>4, <2>3 DEF ChoreSound, IsOldest
      <3>2. Len(sent) = n
        BY <1>3, <1>6, <3>1
      <3>3. \A i \in 1..Len(sent) : sent[i] = x.batch[i]
        BY <1>6, <3>1, <3>2
      <3>4. Elements(sent) \subseteq Elements(x.batch)
        BY <1>4, <3>2, <3>3 DEF Elements
      <3> QED
        BY <1>9, <2>1, <3>4
    <2> QED
      BY <2>2, <2>3
  <1>13. PICK cs \in [Chores -> Chore] : cs = Shift(chores) /\ \A d \in Chores :
            cs[d].beat = chores[d].beat /\ ChoreSound(cs[d], rest, beats.landed, beats.taken)
    <2>1. \A d \in Chores : ChoreSound(chores[d], q, beats.landed, beats.taken)
      BY <1>2 DEF QueueInv
    <2>2. /\ Shift(chores) \in [Chores -> Chore]
          /\ \A d \in Chores : Shift(chores)[d].beat = chores[d].beat
                /\ ChoreSound(Shift(chores)[d], rest, beats.landed, beats.taken)
      BY <1>3, <1>6, <2>1, ShiftSound, Zenon
    <2> QED
      BY <2>2, Zenon
  <1>14. PICK y \in Chore : y = Unsent(x) /\ y.beat = x.beat /\ ChoreSound(y, rest, beats.landed, beats.taken)
    <2>1. HoldsBeat(x)
      BY <1>3 DEF HoldsBeat
    <2>2. Unsent(x) \in Chore /\ Unsent(x).beat = x.beat /\ Unsent(x).batch = <<>>
          /\ ChoreSound(Unsent(x), q, beats.landed, beats.taken)
      BY <1>3, <2>1, UnsentSound
    <2>3. IsOldest(Unsent(x), rest)
      BY <1>6, <2>2, EmptyQueue DEF IsOldest
    <2>4. ChoreSound(Unsent(x), rest, beats.landed, beats.taken)
      BY <2>2, <2>3 DEF ChoreSound
    <2> QED
      BY <2>2, <2>4
  <1>15. chores' = [cs EXCEPT ![c] = y] /\ kept' = [kept EXCEPT !.queue = rest] /\ activity' = activity
    BY <1>1, <1>2, <1>4, <1>5, <1>13, <1>14 DEF DropSent, SentCount
  <1>16. beats' = [taken |-> beats.taken, landed |-> beats.landed, excused |-> excused]
    <2>1. beats' = [beats EXCEPT !.excused = @ \cup x.skipped \cup lost]
      BY <1>1, <1>2, <1>4, <1>5, <1>8 DEF DropSent, SentCount
    <2> QED
      BY <1>9, <2>1, HistoryFacts
  <1> QED
    <2>1. Elements(rest) \subseteq 1..beats.taken
      BY <1>6, <1>10
    <2>2. Elements(kept.queue) \subseteq Elements(rest) \cup beats.landed \cup excused
      BY <1>2, <1>6, <1>12
    <2>3. beats.excused \subseteq excused
      BY <1>9
    <2>4. y.beat = chores[c].beat
      BY <1>1, <1>14
    <2>5. \A d \in Chores \ {c} : /\ cs[d].beat = chores[d].beat
                                  /\ ChoreSound(cs[d], rest, beats.landed, beats.taken)
      BY <1>13
    <2> QED
      BY <1>7, <1>11, <1>14, <1>15, <1>16, <2>1, <2>2, <2>3, <2>4, <2>5, QueueStep, ZenonT(30)

(* A heartbeat is queued, and the oldest make room for it.                      *)
LEMMA EntryStep ==
  ASSUME QueueInv, NEW c \in Chores, QueueEntry(c)
  PROVE  QueueInv'
  <1>1. PICK x \in Chore : x = chores[c]
    BY StateFacts
  <1>2. PICK q \in Queued : q = kept.queue
    BY StateFacts
  <1>3. /\ q \in Seq(Beats) /\ Len(q) <= QueueCap /\ Len(q) \in Nat /\ beats.taken \in Nat
        /\ ChoreSound(x, q, beats.landed, beats.taken) /\ x.at = "queue"
        /\ chores \in [Chores -> Chore] /\ QueueCap \in Nat /\ QueueCap >= 1
        /\ x.beat \in Beats \cup {None} /\ x.beat \in Nat
    <2>1. QueueCap \in Nat /\ QueueCap >= 1
      BY QueueAssumption
    <2> QED
      BY <1>1, <1>2, <2>1, StateFacts, ChoreFields, QueuedAre DEF QueueEntry, At
  <1>4. PICK b \in 1..beats.taken : b = x.beat /\ b \in Beats
    <2>1. x.beat # None /\ x.beat <= beats.taken
      BY <1>3 DEF ChoreSound, HoldsBeat
    <2> QED
      BY <1>3, <2>1, Numbers
  <1>5. PICK next : next = Append(q, b)
    OBVIOUS
  <1>6. /\ next \in Seq(Beats) /\ Len(next) = Len(q) + 1
        /\ \A i \in 1..Len(q) : next[i] = q[i]
        /\ next[Len(q) + 1] = b
    BY <1>3, <1>4, <1>5
  <1>7. Elements(next) = Elements(q) \cup {b}
    <2>1. 1..Len(next) = 1..Len(q) \cup {Len(q) + 1}
      BY <1>3, <1>6
    <2> QED
      BY <1>6, <2>1 DEF Elements
  <1>8. PICK over \in Nat : over = IF Len(next) > QueueCap THEN Len(next) - QueueCap ELSE 0
    BY <1>3, <1>6
  <1>9. PICK gone, rest : gone = Oldest(next, over) /\ rest = Rest(next, over)
    OBVIOUS
  <1>10. /\ rest \in Seq(Beats) /\ Len(rest) = IF over < Len(next) THEN Len(next) - over ELSE 0
         /\ Elements(next) = Elements(gone) \cup Elements(rest)
    BY <1>6, <1>8, <1>9, QueueSplits
  <1>11. rest \in Queued
    <2>1. Len(rest) <= QueueCap
      BY <1>3, <1>6, <1>8, <1>10
    <2> QED
      BY <1>10, <2>1, QueuedAre
  <1>12. PICK excused : excused = beats.excused \cup Elements(gone)
    OBVIOUS
  <1>13. Elements(q) \subseteq 1..beats.taken /\ beats.excused \subseteq 1..beats.taken
    BY <1>2, HistoryFacts
  <1>14. Elements(rest) \subseteq 1..beats.taken /\ excused \subseteq 1..beats.taken
    BY <1>7, <1>10, <1>12, <1>13
  <1>15. \A d \in Chores : ChoreSound(chores[d], q, beats.landed, beats.taken)
    BY <1>2 DEF QueueInv
  <1>16. PICK cs \in [Chores -> Chore] : /\ cs = IF over > 0 THEN Shift(chores) ELSE chores
                                         /\ \A d \in Chores : cs[d].beat = chores[d].beat
                                               /\ ChoreSound(cs[d], rest, beats.landed, beats.taken)
    <2>1. CASE over > 0
      <3>1. /\ Shift(chores) \in [Chores -> Chore]
            /\ \A d \in Chores : Shift(chores)[d].beat = chores[d].beat
                  /\ ChoreSound(Shift(chores)[d], rest, beats.landed, beats.taken)
        BY <1>3, <1>10, <1>15, ShiftSound
      <3> QED
        BY <2>1, <3>1
    <2>2. CASE ~(over > 0)
      <3>1. over = 0
        BY <1>8, <2>2
      <3>2. rest = SubSeq(next, 1, Len(next))
        BY <1>9, <3>1 DEF Rest
      <3>3. rest = next
        BY <1>6, <3>2
      <3>4. ASSUME NEW d \in Chores PROVE ChoreSound(chores[d], rest, beats.landed, beats.taken)
        <4>1. chores[d] \in Chore /\ Len(chores[d].batch) \in Nat
          BY <1>3, ChoreFields
        <4>2. IsOldest(chores[d], q) => IsOldest(chores[d], rest)
          BY <1>3, <1>6, <3>3, <4>1 DEF IsOldest
        <4> QED
          BY <1>15, <4>2 DEF ChoreSound
      <3> QED
        BY <1>3, <2>2, <3>4
    <2> QED
      BY <2>1, <2>2
  <1>17. chores' = [cs EXCEPT ![c] = NoChore] /\ kept' = [kept EXCEPT !.queue = rest] /\ activity' = activity
    BY <1>1, <1>2, <1>4, <1>5, <1>8, <1>9, <1>16 DEF QueueEntry, Appended
  <1>18. beats' = [taken |-> beats.taken, landed |-> beats.landed, excused |-> excused]
    <2>1. beats' = [beats EXCEPT !.excused = @ \cup Elements(gone)]
      BY <1>1, <1>2, <1>4, <1>5, <1>8, <1>9 DEF QueueEntry, Appended
    <2> QED
      BY <1>12, <2>1, HistoryFacts
  <1> QED
    <2>1. Elements(kept.queue) \subseteq Elements(rest) \cup beats.landed \cup excused
      BY <1>2, <1>7, <1>10, <1>12
    <2>2. chores[c].beat \in Elements(rest) \cup excused
      BY <1>1, <1>4, <1>7, <1>10, <1>12
    <2>3. beats.excused \subseteq excused
      BY <1>12
    <2>4. NoChore \in Chore /\ NoChore.beat = None /\ ChoreSound(NoChore, rest, beats.landed, beats.taken)
      BY <1>3, <1>10, NoChoreSound
    <2>5. \A d \in Chores \ {c} : /\ cs[d].beat = chores[d].beat
                                  /\ ChoreSound(cs[d], rest, beats.landed, beats.taken)
      BY <1>16
    <2> QED
      BY <1>11, <1>14, <1>17, <1>18, <2>1, <2>2, <2>3, <2>4, <2>5, QueueStep, ZenonT(30)

(* A heartbeat is taken: it is the next number, and in the handler's hands.        *)
LEMMA TakeStep ==
  ASSUME QueueInv, NEW c \in Chores, TakeBeat(c)
  PROVE  QueueInv'
  <1>1. /\ kept \in Kept /\ activity \in Activity /\ beats \in History /\ beats.taken \in Nat
        /\ chores \in [Chores -> Chore] /\ beats.taken < MaxBeats /\ kept' = kept /\ activity' = activity
        /\ kept.session \in SessionNames \cup {None} /\ kept.queue \in Seq(Beats) /\ chores[c].at = "free"
    BY StateFacts DEF TakeBeat, At
  <1>2. PICK n \in Nat : n = beats.taken + 1 /\ n \in 1..MaxBeats
    BY <1>1, Numbers
  <1>3. beats' = [taken |-> n, landed |-> beats.landed, excused |-> beats.excused]
    BY <1>1, <1>2 DEF TakeBeat, History
  <1>4. PICK y : y = [at |-> "flush", then |-> "none", beat |-> n, sid |-> kept.session, route |-> None,
                      batch |-> <<>>, todo |-> <<>>, got |-> "none", skipped |-> {}, shifted |-> FALSE]
    OBVIOUS
  <1>5. chores' = [chores EXCEPT ![c] = y]
    <2>1. chores' = [chores EXCEPT ![c] = [NoChore EXCEPT !.at = "flush", !.beat = n, !.sid = kept.session]]
      BY <1>2 DEF TakeBeat, Goes
    <2>2. [NoChore EXCEPT !.at = "flush", !.beat = n, !.sid = kept.session] = y
      BY <1>4, FromNoChoreWith
    <2> QED
      BY <2>1, <2>2, Zenon
  <1>6. y \in Chore /\ y.beat = n
    BY <1>1, <1>2, <1>4, EmptyQueue, Numbers DEF Chore, Steps, Beats
  <1>7. ChoreSound(y, kept.queue, beats.landed, n)
    <2>1. IsOldest(y, kept.queue)
      BY <1>1, <1>4, EmptyQueue DEF IsOldest
    <2> QED
      BY <1>2, <1>4, <2>1, EmptyQueue, Numbers DEF ChoreSound, HoldsBeat
  <1>8. chores[c].beat = None
    BY <1>1, StateFacts DEF ChoreSound, HoldsBeat
  <1>9. QueueTypeOK'
    <2>1. beats' \in History
      BY <1>1, <1>2, <1>3 DEF History
    <2>2. chores' \in [Chores -> Chore]
      BY <1>1, <1>5, <1>6
    <2> QED
      BY <1>1, <2>1, <2>2 DEF QueueTypeOK, Activity, History
  <1>10. 1..n = 1..beats.taken \cup {n} /\ \A k \in Int : k <= beats.taken => k <= n
    BY <1>1, <1>2
  <1>11. ASSUME NEW d \in Chores
         PROVE  ChoreSound(chores'[d], kept'.queue, beats'.landed, beats'.taken)
    <2>1. CASE d = c
      BY <1>1, <1>3, <1>5, <1>7, <2>1
    <2>2. CASE d # c
      <3>1. PICK x \in Chore : x = chores[d] /\ ChoreSound(x, kept.queue, beats.landed, beats.taken)
        BY <1>1, StateFacts
      <3>2. x.beat \in Int
        BY ChoreFields
      <3>3. ChoreSound(x, kept.queue, beats.landed, n)
        <4>1. /\ x.beat <= n /\ Elements(x.batch) \subseteq 1..n /\ Elements(x.todo) \subseteq 1..n
              /\ x.skipped \subseteq 1..n
          BY <1>10, <3>1, <3>2 DEF ChoreSound
        <4> QED
          BY <3>1, <4>1 DEF ChoreSound
      <3> QED
        BY <1>1, <1>3, <1>5, <2>2, <3>1, <3>3
    <2> QED
      BY <2>1, <2>2
  <1>12. QueueKeepsBeats'
    <2> DEFINE held(f) == {f[d].beat : d \in {e \in Chores : f[e].beat # None}}
    <2>1. 1..beats.taken = beats.landed \cup beats.excused \cup Elements(kept.queue) \cup held(chores)
      BY DEF QueueInv, QueueKeepsBeats
    <2>2. chores'[c] = y /\ \A d \in Chores : d # c => chores'[d] = chores[d]
      BY <1>1, <1>5
    <2>3. n # None
      BY <1>2, Numbers
    <2>4. held(chores') = held(chores) \cup {n}
      <3>1. held(chores) \subseteq held(chores')
        BY <1>8, <2>2
      <3>2. n \in held(chores')
        BY <1>6, <2>2, <2>3
      <3>3. held(chores') \subseteq held(chores) \cup {n}
        BY <1>6, <2>2
      <3> QED
        BY <3>1, <3>2, <3>3
    <2> HIDE DEF held
    <2>5. 1..n = beats.landed \cup beats.excused \cup Elements(kept.queue) \cup held(chores')
      BY <1>10, <2>1, <2>4
    <2> QED
      BY <1>1, <1>3, <2>5 DEF QueueKeepsBeats, held
  <1> QED
    BY <1>9, <1>11, <1>12 DEF QueueInv

(* The browser ends the script: what it had in hand goes with it.                 *)
LEMMA EndStep ==
  ASSUME QueueInv, EndScript
  PROVE  QueueInv'
  <1> DEFINE held(f) == {f[d].beat : d \in {e \in Chores : f[e].beat # None}}
  <1>1. /\ kept' = kept /\ activity' = activity /\ chores' = [c \in Chores |-> NoChore]
        /\ beats' = [beats EXCEPT !.excused = @ \cup held(chores)]
    BY DEF EndScript
  <1>2. /\ kept \in Kept /\ activity \in Activity /\ beats \in History /\ beats.taken \in Nat
        /\ kept.queue \in Seq(Beats)
    BY KeptFields, Numbers DEF QueueInv, QueueTypeOK, Activity, History
  <1>3. 1..beats.taken = beats.landed \cup beats.excused \cup Elements(kept.queue) \cup held(chores)
    BY DEF QueueInv, QueueKeepsBeats
  <1>4. held(chores') = {}
    BY <1>1, NoChoreSound
  <1>5. PICK h : h = held(chores)
    OBVIOUS
  <1> HIDE DEF held
  <1>6. beats' = [taken |-> beats.taken, landed |-> beats.landed, excused |-> beats.excused \cup h]
    BY <1>1, <1>2, <1>5 DEF History
  <1>7. QueueTypeOK'
    <2>1. beats' \in History
      <3>1. 1..beats.taken \subseteq Beats
        BY HistoryFacts
      <3> QED
        BY <1>2, <1>3, <1>5, <1>6, <3>1 DEF History
    <2>2. chores' \in [Chores -> Chore]
      BY <1>1, NoChoreSound
    <2> QED
      BY <1>1, <1>2, <2>1, <2>2 DEF QueueTypeOK, Activity, History
  <1>8. QueueKeepsBeats'
    <2>1. 1..beats.taken = beats.landed \cup (beats.excused \cup h) \cup Elements(kept.queue) \cup held(chores')
      BY <1>3, <1>4, <1>5
    <2> QED
      BY <1>1, <1>6, <2>1 DEF QueueKeepsBeats, held
  <1>9. ASSUME NEW d \in Chores
        PROVE  ChoreSound(chores'[d], kept'.queue, beats'.landed, beats'.taken)
    <2>1. ChoreSound(NoChore, kept.queue, beats.landed, beats.taken)
      BY <1>2, NoChoreSound
    <2>2. chores'[d] = NoChore /\ kept'.queue = kept.queue /\ beats'.landed = beats.landed
          /\ beats'.taken = beats.taken
      BY <1>1, <1>6
    <2> QED
      BY <2>1, <2>2, Zenon
  <1> QED
    BY <1>7, <1>8, <1>9 DEF QueueInv

(* The steps that leave the handlers and the queue alone.                        *)
LEMMA QuietSteps ==
  ASSUME QueueInv, Pause \/ CloseStale \/ UNCHANGED queueVars
  PROVE  QueueInv'
  <1>1. kept \in Kept /\ activity \in Activity
    BY DEF QueueInv, QueueTypeOK, Activity
  <1>2. /\ kept' \in Kept /\ kept'.queue = kept.queue /\ activity' \in Activity
        /\ chores' = chores /\ beats' = beats
    BY <1>1 DEF Pause, CloseStale, queueVars, Kept, Activity
  <1>3. QueueTypeOK'
    BY <1>2 DEF QueueInv, QueueTypeOK, Activity
  <1>4. QueueKeepsBeats'
    BY <1>2 DEF QueueInv, QueueKeepsBeats
  <1>5. (\A c \in Chores : ChoreSound(chores[c], kept.queue, beats.landed, beats.taken))'
    BY <1>2 DEF QueueInv
  <1> QED
    BY <1>3, <1>4, <1>5 DEF QueueInv

(* The invariant of the extension: beside the account of the heartbeats, what every  *)
(* handler has in its own hands agrees with the queue and with the server, which is   *)
(* what makes the entries that DropSent takes off the ones it may take.              *)
THEOREM QueueAlwaysSound == QueueSpec => []QueueInv
  <1>1. QueueInv /\ [QueueNext]_queueVars => QueueInv'
    <2> SUFFICES ASSUME QueueInv, [QueueNext]_queueVars PROVE QueueInv'
      OBVIOUS
    <2>1. ASSUME NEW c \in Chores, TakeBeat(c) PROVE QueueInv'
      BY <2>1, TakeStep
    <2>2. ASSUME NEW c \in Chores, FlushQueue(c) \/ AnswerBatch(c) \/ SendHeartbeat(c) PROVE QueueInv'
      BY <2>2, WaySteps
    <2>3. ASSUME NEW c \in Chores,
                 EnsureActiveSession(c) \/ AnswerStart(c) \/ KeepSession(c) \/ EndKeptSession(c)
          PROVE  QueueInv'
      BY <2>3, SessionSteps
    <2>4. ASSUME NEW c \in Chores, RecordEntry(c) PROVE QueueInv'
      BY <2>4, EntrySteps
    <2>5. ASSUME NEW c \in Chores, DropSent(c) PROVE QueueInv'
      BY <2>5, DropStep
    <2>6. ASSUME NEW c \in Chores, AnswerHeartbeat(c) \/ ReadAnswer(c) PROVE QueueInv'
      BY <2>6, AnswerSteps
    <2>7. ASSUME NEW c \in Chores, QueueEntry(c) PROVE QueueInv'
      BY <2>7, EntryStep
    <2>8. ASSUME NEW c \in Chores, Resume(c) \/ StopTracking(c) \/ RevokeInPopup(c) \/ GrantConsent(c)
                                   \/ RefreshConsent(c) \/ Suspend(c)
          PROVE  QueueInv'
      BY <2>8, MessageSteps
    <2>9. ASSUME NEW c \in Chores, AnswerConsent(c) \/ KeepConsent(c) PROVE QueueInv'
      BY <2>9, ConsentSteps
    <2>10. ASSUME NEW c \in Chores, LoseRequest(c) PROVE QueueInv'
      BY <2>10, LostSteps
    <2>11. CASE EndScript
      BY <2>11, EndStep
    <2>12. CASE Pause \/ CloseStale \/ UNCHANGED queueVars
      BY <2>12, QuietSteps
    <2> QED
      BY <2>1, <2>2, <2>3, <2>4, <2>5, <2>6, <2>7, <2>8, <2>9, <2>10, <2>11, <2>12 DEF QueueNext
  <1> QED
    BY <1>1, QueueInitSound, PTL DEF QueueSpec

(* Whatever ticks, messages, losses and restarts overlap, a heartbeat that was taken   *)
(* has landed, waits in the queue, is in a handler's hands or has one of the excuses     *)
(* (background.js: flushHeartbeatQueue and queueHeartbeat).                           *)
THEOREM NoBeatIsLost == QueueSpec => []QueueKeepsBeats
  <1>1. QueueInv => QueueKeepsBeats
    BY DEF QueueInv
  <1> QED
    BY <1>1, QueueAlwaysSound, PTL

=============================================================================
