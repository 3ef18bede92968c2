---------------------------- MODULE ActivityTracker ----------------------------
(***************************************************************************)
(* The tracked time of one user (service/operational/tracker.go and         *)
(* repository/operational/tracker.go): consent, sessions, heartbeats that   *)
(* are credited to a session, replayed batches and the sweep of abandoned   *)
(* sessions.  Users share no row, so one is enough.                         *)
(*                                                                         *)
(* A transaction takes less than a tick (QueryContext ends it after five    *)
(* seconds), so NOW() is the clock at its step; requireConsent is a step of  *)
(* its own before it.  The client may send any timestamp and any session    *)
(* id it was given, late, twice or out of order: that covers the offline    *)
(* queue of the browser extension.  Idle time is counted like active time,   *)
(* in another column: one total stands for both.  end_time decides nothing,  *)
(* nor does updated_at of a closed session, nor start_time but for its date  *)
(* (updated_at is never before it): they are left out.  The time zone of a   *)
(* user is fixed (shouldRotateTrackerSession pins it to the session's).       *)
(***************************************************************************)
EXTENDS Integers, FiniteSets, Sequences

CONSTANTS
    Cap,           \* trackerMaxHeartbeatGapSeconds, in ticks
    StaleGap,      \* trackerStaleSessionGapSeconds and trackerStaleSessionThreshold
    DayLength,     \* ticks of a calendar day
    MaxClock,      \* bound: ticks of a behaviour
    MaxSessions,   \* bound: rows of activity_sessions
    Calls,         \* requests in flight, reused one after another
    MaxReplay      \* bound: entries of a batch

ASSUME TrackerTimeAssumption ==
    Cap \in Nat \ {0} /\ StaleGap \in Nat /\ Cap <= StaleGap /\ DayLength \in Nat \ {0}
ASSUME TrackerBoundsAssumption ==
    MaxClock \in Nat /\ MaxSessions \in Nat /\ MaxReplay \in Nat \ {0}

VARIABLES
    clock,
    consented,  \* activity_consents
    closing,    \* a revocation is between its two statements
    sessions,   \* activity_sessions, in the order they were created
    calls,      \* what each request in flight still has to do
    slipped,    \* history: a revocation was overtaken by a start or lost its second half
    denied      \* history: ticks that passed without consent

trackerVars == <<clock, consented, closing, sessions, calls, slipped, denied>>

-----------------------------------------------------------------------------

(* Tick t is the time from t - 1 to t. *)
Ticks == 1..MaxClock

Instants == 0..MaxClock

DayOf(t) == t \div DayLength

Midnight(t) == DayOf(t) * DayLength

(* seen is updated_at, total is total_active_seconds; credited, a history, says *)
(* which ticks it is for.                                                      *)
Session == [active : BOOLEAN, day : 0..DayOf(MaxClock), seen : Instants,
            total : Nat, credited : SUBSET Ticks]

SessionIds == 1..Len(sessions)

(* "arrived": requireConsent is next; "checked": the transaction is.  Of a     *)
(* batch, routed is currentSessionID (0: none).                                *)
Call == [step : {"none", "arrived", "checked"}, op : {"start", "beat"}, at : Instants,
         sid : 0..MaxSessions, routed : 0..MaxSessions,
         todo : UNION {[1..n -> Instants] : n \in 0..MaxReplay}]

NoCall == [step |-> "none", op |-> "start", at |-> 0, sid |-> 0, routed |-> 0,
           todo |-> <<>>]

NewSession_AtStart(t) ==
    [active |-> TRUE, day |-> DayOf(t), seen |-> t, total |-> 0, credited |-> {}]

(* INSERT leaves updated_at at its default, NOW(), whatever the session's start. *)
NewSession(t) ==
    [active |-> TRUE, day |-> DayOf(t), seen |-> clock, total |-> 0, credited |-> {}]

TrackerInit ==
    /\ clock = 0
    /\ consented = TRUE
    /\ closing = FALSE
    /\ sessions = <<>>
    /\ calls = [c \in Calls |-> NoCall]
    /\ slipped = FALSE
    /\ denied = {}

HasRoomForSession == Len(sessions) < MaxSessions

Earlier(t, u) == IF t < u THEN t ELSE u
Later(t, u) == IF t < u THEN u ELSE t

-----------------------------------------------------------------------------
(* Consent *)

GiveConsent ==
    /\ ~consented
    /\ consented' = TRUE
    /\ UNCHANGED <<clock, closing, sessions, calls, slipped, denied>>

RevokeConsent ==
    /\ consented
    /\ consented' = FALSE
    /\ closing' = TRUE
    /\ UNCHANGED <<clock, sessions, calls, slipped, denied>>

Closed(s) == [s EXCEPT !.active = FALSE, !.seen = 0]

EndActiveSessions_Dropped ==
    /\ closing
    /\ closing' = FALSE
    /\ UNCHANGED <<clock, consented, sessions, calls, slipped, denied>>

EndActiveSessions ==
    /\ closing
    /\ closing' = FALSE
    /\ sessions' = [i \in SessionIds |-> Closed(sessions[i])]
    /\ UNCHANGED <<clock, consented, calls, slipped, denied>>

(* The second statement of a revocation fails, or the server stops before it. *)
LoseRevocation ==
    /\ closing
    /\ closing' = FALSE
    /\ slipped' = TRUE
    /\ UNCHANGED <<clock, consented, sessions, calls, denied>>

-----------------------------------------------------------------------------
(* Requests *)

Arrive(c) ==
    /\ calls[c].step = "none"
    /\ \/ \E t \in Instants :
            calls' = [calls EXCEPT ![c] = [NoCall EXCEPT !.step = "arrived", !.at = clock,
                                                         !.todo = <<t>>]]
       \/ \E i \in SessionIds : \E n \in 1..MaxReplay : \E ts \in [1..n -> Instants] :
            /\ \A k \in 1..(n - 1) : ts[k] <= ts[k + 1]     \* sortHeartbeats
            /\ calls' = [calls EXCEPT ![c] = [NoCall EXCEPT !.step = "arrived", !.op = "beat",
                                                            !.at = clock, !.sid = i, !.todo = ts]]
    /\ UNCHANGED <<clock, consented, closing, sessions, slipped, denied>>

(* A refused entry of a batch is skipped, and so are all after it. *)
RequireConsent(c) ==
    /\ calls[c].step = "arrived"
    /\ calls' = [calls EXCEPT ![c] = IF consented THEN [@ EXCEPT !.step = "checked"] ELSE NoCall]
    /\ UNCHANGED <<clock, consented, closing, sessions, slipped, denied>>

StartSession(c) ==
    /\ calls[c].step = "checked" /\ calls[c].op = "start"
    /\ LET t == Earlier(calls[c].todo[1], calls[c].at) IN
       IF \E i \in SessionIds : sessions[i].active
         THEN sessions' = sessions
         ELSE HasRoomForSession /\ sessions' = Append(sessions, NewSession(t))
    /\ calls' = [calls EXCEPT ![c] = NoCall]
    /\ slipped' = (slipped \/ ~consented)
    /\ UNCHANGED <<clock, consented, closing, denied>>

(* An UPDATE of its own, without the lock of the other two. *)
EndSession(i) ==
    /\ sessions[i].active
    /\ sessions' = [sessions EXCEPT ![i] = Closed(@)]
    /\ UNCHANGED <<clock, consented, closing, calls, slipped, denied>>

CappedDelta_Signed(from, to) == Earlier(to - from, Cap)

CappedDelta(from, to) == Earlier(Later(to - from, 0), Cap)

(* upsertActivityEntry and updateSessionAfterHeartbeat. *)
Credit(s, t) ==
    LET delta == CappedDelta(s.seen, t) IN
    [s EXCEPT !.total = @ + delta, !.credited = @ \cup ((t - delta + 1)..t),
              !.seen = Later(@, t)]

(* Not in the future and not before the last beat. *)
Clamp(s, t, at) == Later(Earlier(t, at), s.seen)

IsAbandoned(s, t) == t - s.seen > StaleGap

(* Midnight, or the beat itself when the session began its day before midnight. *)
Boundary(s, t) ==
    IF Midnight(t) < s.seen \/ t < Midnight(t) THEN t ELSE Midnight(t)

(* The beat of an active session: its last rows, one or two of them. *)
Recorded(s, t) ==
    CASE IsAbandoned(s, t) -> <<Closed(s), NewSession(t)>>
      [] ~IsAbandoned(s, t) /\ DayOf(t) # s.day ->
            LET b == Boundary(s, t) IN
            <<Closed(Credit(s, b)), Credit(NewSession(b), t)>>
      [] OTHER -> <<Credit(s, t)>>

(* The next entry of a batch; the last one ends the request. *)
NextEntry(call) ==
    IF Len(call.todo) = 1 THEN NoCall
    ELSE [call EXCEPT !.step = "arrived", !.todo = Tail(@)]

RecordHeartbeat(c) ==
    /\ calls[c].step = "checked" /\ calls[c].op = "beat"
    /\ LET call == calls[c]
           i == IF call.routed # 0 THEN call.routed ELSE call.sid
           s == sessions[i]
           rows == Recorded(s, Clamp(s, Head(call.todo), call.at))
           last == IF Len(rows) = 1 THEN i ELSE Len(sessions) + 1
       IN \/ /\ ~s.active                                   \* TRACKER_SESSION_NOT_FOUND
             /\ calls' = [calls EXCEPT ![c] = NextEntry(call)]
             /\ UNCHANGED sessions
          \/ /\ s.active
             /\ Len(rows) = 1 \/ HasRoomForSession
             /\ sessions' = [sessions EXCEPT ![i] = rows[1]] \o Tail(rows)
             /\ calls' = [calls EXCEPT ![c] = NextEntry([call EXCEPT !.routed = last])]
    /\ UNCHANGED <<clock, consented, closing, slipped, denied>>

(* The connection is lost or the server stops: committed entries stay. *)
Disconnect(c) ==
    /\ calls[c].step # "none"
    /\ calls' = [calls EXCEPT ![c] = NoCall]
    /\ UNCHANGED <<clock, consented, closing, sessions, slipped, denied>>

-----------------------------------------------------------------------------
(* The background job and the clock *)

IsStale(s) == s.active /\ s.seen < clock - StaleGap

EndStaleSessions ==
    /\ \E i \in SessionIds : IsStale(sessions[i])
    /\ sessions' = [i \in SessionIds |->
            IF IsStale(sessions[i]) THEN Closed(sessions[i]) ELSE sessions[i]]
    /\ UNCHANGED <<clock, consented, closing, calls, slipped, denied>>

(* The two statements of a revocation take less than a tick. *)
PassTime ==
    /\ clock < MaxClock /\ ~closing
    /\ clock' = clock + 1
    /\ denied' = IF consented THEN denied ELSE denied \cup {clock + 1}
    /\ UNCHANGED <<consented, closing, sessions, calls, slipped>>

-----------------------------------------------------------------------------

TrackerNext ==
    \/ GiveConsent \/ RevokeConsent \/ EndActiveSessions \/ LoseRevocation
    \/ EndStaleSessions \/ PassTime
    \/ \E i \in SessionIds : EndSession(i)
    \/ \E c \in Calls : \/ Arrive(c) \/ RequireConsent(c) \/ StartSession(c)
                        \/ RecordHeartbeat(c) \/ Disconnect(c)

TrackerSpec == TrackerInit /\ [][TrackerNext]_trackerVars

-----------------------------------------------------------------------------
(* Properties *)

(* Types of the tracker's rows and requests.                               *)
TrackerTypeOK ==
    /\ clock \in Instants /\ consented \in BOOLEAN /\ closing \in BOOLEAN
    /\ sessions \in Seq(Session) /\ Len(sessions) <= MaxSessions
    /\ calls \in [Calls -> Call]
    /\ slipped \in BOOLEAN /\ denied \subseteq Ticks

(* No second is counted twice: at most one session is open, its total is    *)
(* the number of ticks it was credited for, and no tick is credited to two, *)
(* whatever was replayed, resent or rotated (the clamps of RecordHeartbeat). *)
NoDoubleCredit ==
    /\ Cardinality({i \in SessionIds : sessions[i].active}) <= 1
    /\ \A i \in SessionIds : sessions[i].total = Cardinality(sessions[i].credited)
    /\ \A i, j \in SessionIds : i # j => sessions[i].credited \cap sessions[j].credited = {}

(* No second without consent is counted, before or after a new grant, but   *)
(* for a session that survived a revocation: one whose start had passed its *)
(* check before, or whose revocation failed between its two statements.     *)
NothingWithoutConsent ==
    ~slipped => \A i \in SessionIds : sessions[i].credited \cap denied = {}
=============================================================================
