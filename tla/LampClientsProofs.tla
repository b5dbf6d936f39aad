------------------------- MODULE LampClientsProofs -------------------------
(***************************************************************************)
(* For any lamps, bounds and session ids: the thread of the lamp clients   *)
(* never sleeps on work, every join in progress will be heard of, and      *)
(* until the service stops leading a lamp that has started at most twice   *)
(* counts as connected only through a session, and no session with it is   *)
(* forgotten.                                                              *)
(***************************************************************************)
EXTENDS LampClients, TLAPS

-----------------------------------------------------------------------------
(* The inductive invariants.                                               *)

\* The thread's pass over the lists while it is connected, list by list.
Pass == {"lost", "ids", "abouts", "join", "results", "retry"}

\* With no post left, work waits only in lists that this pass has still to take.
Work ==
  connectToLamps /\ wakeUp = 0 /\ isRunning =>
    /\ pc \in Pass \cup {"wait"}
    /\ lostSessionList # {} => pc = "lost"
    /\ getAllLampIDsRequests # 0 => pc \in {"lost", "ids"}
    /\ alarmTriggered => pc \in {"lost", "ids", "abouts", "join"}
    /\ \A l \in Lamp :
         /\ aboutsList[l] # 0 => pc \in {"lost", "ids", "abouts"}
         /\ joinSessionCBList[l] # NoResult =>
              pc \in {"lost", "ids", "abouts", "join", "results"}
         /\ connectionState[l] = "DISCONNECTED" =>
              \/ pc \in {"lost", "ids", "abouts"}
              \/ pc = "join" /\ l \in toJoin

\* With no post left, a service that led and leads no more has cleaned up or is
\* doing so.
CleanUp ==
  ~connectToLamps /\ wakeUp = 0 /\ isRunning =>
    toggles = 0 \/ cleanupDone \/ pc \in {"leave", "clear"}

WorkInv == TypeOK /\ Work /\ CleanUp

InProgress(l) == connectionState[l] = "JOIN_SESSION_IN_PROGRESS"

\* As long as the service has neither ceased to lead nor been stopped.
First == toggles = 0 /\ isRunning

\* Nothing is in progress once the clean-up has gone over the lamps, or before
\* the service has ever been connected; so the joins in progress are of now.
JoinInv ==
  ~Hasty \/ First =>
    /\ JoinAccounted
    /\ pc \in Pass => ~cleanupDone
    /\ First /\ ~connectToLamps => pc \notin Pass
    /\ (\/ cleanupDone
        \/ pc = "clear"
        \/ First /\ (~connectToLamps \/ pc \in {"leave", "record"}))
       => \A l \in Lamp : ~InProgress(l)

\* No join, session or loss is about.
Nothing ==
  /\ callbacks = {} /\ live = {} /\ lostSessionList = {}
  /\ \A l \in Lamp :
       /\ joinSessionCBList[l] = NoResult
       /\ connectionState[l] \in {Unknown, "DISCONNECTED"}
       /\ sessionID[l] = 0 /\ ~replaced[l]

\* That is so until the service leads for the first time.
NotYet ==
  ~connectToLamps \/ pc \in {"leave", "clear", "record"} =>
     Nothing /\ pc \notin Pass

\* Bus names only go up, from the map of lamps over the announcements to the bus.
Buses ==
  /\ \A l \in Lamp :
       /\ busName[l] <= lampBus[l]
       /\ aboutsList[l] # 0 =>
            busName[l] <= aboutsList[l] /\ aboutsList[l] <= lampBus[l]
       /\ connectionState[l] # Unknown <=> busName[l] # 0
  /\ \A s \in live : s.bus <= lampBus[s.lamp]

\* An id is that of one session, with one lamp, wherever it is noted.
Ids ==
  /\ \A s \in live : s.id \notin lostSessionList
  /\ \A s, t \in live : s.id = t.id => s = t
  /\ \A s \in live, l \in Lamp : sessionID[l] = s.id => s.lamp = l
  /\ \A s \in live, c \in callbacks :
       c.id = s.id => c.lamp = s.lamp /\ c.bus = s.bus
  /\ \A c \in callbacks, l \in Lamp :
       sessionID[l] = c.id /\ c.id # 0 => c.lamp = l
  /\ \A c, d \in callbacks : c.id = d.id /\ c.id # 0 => c.lamp = d.lamp
  /\ \A c \in callbacks : c.at = "asked" <=> c.id = 0

Of(l) == {c \in callbacks : c.lamp = l}

Sessions(l) == {s \in live : s.lamp = l}

LiveSession(l) == \E s \in Sessions(l) : s.id = sessionID[l] /\ s.bus = busName[l]

\* A lamp has one join under way, either asked for or answered.  Only a lamp
\* that is joined again under its second name may be blacklisted meanwhile, by
\* the loss of the session it had under its first.
OneJoin(l) ==
  /\ \A c, d \in Of(l) : c = d
  /\ \A c \in Of(l) :
       /\ joinSessionCBList[l] = NoResult
       /\ ~replaced[l] => c.bus = busName[l]
  /\ (Of(l) # {} \/ joinSessionCBList[l] # NoResult) =>
       InProgress(l) \/ (connectionState[l] = "BLACKLISTED" /\ busName[l] = 2)

\* How far the join has come, what the lamp has of a session.
Held(l) ==
  /\ \A c \in Of(l) : c.at = "setUp" =>
       /\ sessionID[l] # c.id
       /\ \E s \in Sessions(l) : s.id = c.id
       /\ \A s \in Sessions(l) : s.id # c.id => s.bus # lampBus[l]
  /\ \A c \in Of(l) : c.at = "introspecting" /\ ~replaced[l] =>
       sessionID[l] = c.id /\ LiveSession(l)
  /\ joinSessionCBList[l] = "OK" /\ ~replaced[l] => LiveSession(l)
  /\ connectionState[l] = "CONNECTED" =>
       sessionID[l] \in lostSessionList \/ LiveSession(l)
  /\ \A s \in Sessions(l) :
       \/ sessionID[l] = s.id
       \/ \E c \in Of(l) : c.id = s.id /\ c.at = "setUp"
       \/ s.bus # lampBus[l]

\* A lamp under its first name has no id of a session but that of its join.
FirstName(l) ==
  busName[l] < 2 =>
    /\ ~replaced[l]
    /\ connectionState[l] \notin {"JOIN_SESSION_IN_PROGRESS", "CONNECTED"}
         => sessionID[l] = 0
    /\ \A c \in Of(l) : c.at \in {"asked", "setUp"} => sessionID[l] = 0
    /\ joinSessionCBList[l] = "ALREADY_JOINED" => sessionID[l] = 0
    /\ joinSessionCBList[l] # NoResult => sessionID[l] = 0 \/ LiveSession(l)

LampInv(l) == OneJoin(l) /\ Held(l) /\ FirstName(l)

Good ==
  NotYet /\ Buses /\ Ids /\ \A l \in Lamp : lampBus[l] <= 2 => LampInv(l)

SessionInv == First => Good

-----------------------------------------------------------------------------
(* Types.                                                                  *)

LEMMA InitTypes == Init => TypeOK
<1> SUFFICES ASSUME Init PROVE TypeOK
  OBVIOUS
<1>1. 0 \in BusName /\ 0 \in 0..MaxRequests /\ 0 \in 0..MaxToggles /\ 0 \in 0..2
  BY LampClientsAssumption DEF BusName
<1> QED
  BY <1>1 DEF Init, TypeOK

LEMMA PostTypes ==
  ASSUME TypeOK, Post
  PROVE  wakeUp' \in 0..2 /\ wakeUp' # 0
<1>1. wakeUp \in 0..2
  BY DEF TypeOK
<1> QED
  BY <1>1 DEF Post

LEMMA LeaveTypes ==
  ASSUME TypeOK, NEW ids, Leave(ids)
  PROVE  live' \subseteq Session /\ remains' \in [Lamp -> BOOLEAN]
BY DEF TypeOK, Leave

LEMMA CallbackTypes ==
  ASSUME TypeOK, NEW c \in callbacks
  PROVE  /\ c \in Callback
         /\ c.lamp \in Lamp /\ c.bus \in BusName /\ c.id \in SessionId \cup {0}
         /\ c.at \in {"asked", "setUp", "introspecting"}
         /\ \A at \in {"asked", "setUp", "introspecting"}, id \in SessionId :
              Move(c, at, id) => callbacks' \subseteq Callback
BY DEF TypeOK, Callback, Move

LEMMA JoinTypes ==
  ASSUME TypeOK, NEW c \in callbacks, NEW r \in Result, FinishJoin(c, r)
  PROVE  /\ joinSessionCBList' \in [Lamp -> Result \cup {NoResult}]
         /\ callbacks' \subseteq Callback
         /\ wakeUp' \in 0..2
<1>1. wakeUp' \in 0..2
  BY PostTypes DEF FinishJoin
<1> QED
  BY <1>1 DEF TypeOK, FinishJoin, AddResult

LEMMA TypeStep == TypeOK /\ [Next]_vars => TypeOK'
<1> SUFFICES ASSUME TypeOK, [Next]_vars PROVE TypeOK'
  OBVIOUS
<1> USE LampClientsAssumption
<1>1. CASE UNCHANGED vars
  BY <1>1 DEF TypeOK, vars, connVars, listVars, threadVars, alarmVars,
              roleVars, busVars
<1>2. CASE Wake
  <2>1. wakeUp' \in 0..2
    BY <1>2 DEF TypeOK, Wake
  <2> QED
    BY <1>2, <2>1 DEF TypeOK, Wake, connVars, listVars, alarmVars, roleVars, busVars
<1>3. CASE HandleLostSessions
  BY <1>3 DEF TypeOK, HandleLostSessions, ConnectionState, alarmVars,
              roleVars, busVars
<1>4. CASE SendLampIDs
  BY <1>4 DEF TypeOK, SendLampIDs, connVars, alarmVars, roleVars, busVars
<1>5. CASE HandleAnnouncements
  <2>1. live' \subseteq Session /\ remains' \in [Lamp -> BOOLEAN]
    BY <1>5, LeaveTypes DEF HandleAnnouncements
  <2>2. connectionState' \in [Lamp -> ConnectionState \cup {Unknown}]
        /\ replaced' \in [Lamp -> BOOLEAN]
    BY <1>5 DEF TypeOK, HandleAnnouncements, Renamed, ConnectionState
  <2> QED
    BY <1>5, <2>1, <2>2 DEF TypeOK, HandleAnnouncements, BusName, alarmVars, roleVars
<1>6. CASE \E l \in Lamp : JoinLamp(l)
  <2> PICK l \in Lamp : JoinLamp(l)
    BY <1>6
  <2>1. callbacks' \subseteq Callback
    BY DEF TypeOK, JoinLamp, Callback
  <2> QED
    BY <2>1 DEF TypeOK, JoinLamp, ConnectionState, listVars, alarmVars, roleVars
<1>7. CASE ClearAlarm
  BY <1>7 DEF TypeOK, ClearAlarm, connVars, listVars, roleVars, busVars
<1>8. CASE HandleJoinResults
  <2>1. live' \subseteq Session /\ remains' \in [Lamp -> BOOLEAN]
    BY <1>8, LeaveTypes DEF HandleJoinResults
  <2>2. \A l \in Lamp : Outcome(l) \in ConnectionState
    BY DEF Outcome, OutcomeOfAny, ConnectionState
  <2>3. wakeUp' \in 0..2
    BY <1>8 DEF TypeOK, HandleJoinResults, Post
  <2>4. connectionState' \in [Lamp -> ConnectionState \cup {Unknown}]
        /\ sessionID' \in [Lamp -> SessionId \cup {0}]
        /\ retryJoinSession' \in BOOLEAN
    BY <1>8, <2>2 DEF TypeOK, HandleJoinResults
  <2> QED
    BY <1>8, <2>1, <2>3, <2>4 DEF TypeOK, HandleJoinResults, alarmVars, roleVars
<1>9. CASE ScheduleRetry
  <2>1. wakeUp' \in 0..2
    BY <1>9, PostTypes DEF TypeOK, ScheduleRetry, alarmVars
  <2>2. alarmSet' \in BOOLEAN /\ alarmArmed' \in BOOLEAN
          /\ alarmTriggered' \in BOOLEAN
    BY <1>9, Zenon DEF TypeOK, ScheduleRetry, alarmVars
  <2> QED
    BY <1>9, <2>1, <2>2 DEF TypeOK, ScheduleRetry, connVars, listVars, roleVars,
                            busVars
<1>10. CASE LeaveSessions
  <2>1. live' \subseteq Session /\ remains' \in [Lamp -> BOOLEAN]
    BY <1>10, LeaveTypes DEF LeaveSessions
  <2> QED
    BY <1>10, <2>1 DEF TypeOK, LeaveSessions, ConnectionState, listVars,
                       alarmVars, roleVars
<1>11. CASE ClearLists
  BY <1>11 DEF TypeOK, ClearLists, connVars, alarmVars, roleVars, busVars
<1>12. CASE RecordAnnouncements
  BY <1>12 DEF TypeOK, RecordAnnouncements, ConnectionState, BusName,
               alarmVars, roleVars, busVars
<1>13. CASE ExitAndJoin
  <2>1. live' \subseteq Session /\ remains' \in [Lamp -> BOOLEAN]
    BY <1>13, LeaveTypes DEF ExitAndJoin
  <2> QED
    BY <1>13, <2>1 DEF TypeOK, ExitAndJoin, listVars, alarmVars, roleVars
<1>14. CASE \E c \in callbacks : BusAnswers(c)
  <2> PICK c \in callbacks : BusAnswers(c)
    BY <1>14
  <2>1. CASE \E status \in {"FAIL", "ALREADY_JOINED"} : JoinSessionFails(c, status)
    <3> PICK status \in {"FAIL", "ALREADY_JOINED"} : JoinSessionFails(c, status)
      BY <2>1
    <3>1. (IF connectToLamps THEN status ELSE "OK") \in Result
      BY DEF Result
    <3> QED
      BY <3>1, JoinTypes
         DEF TypeOK, JoinSessionFails, connVars, threadVars, alarmVars, roleVars
  <2>2. CASE JoinSessionSucceeds(c)
    <3>1. CASE connectToLamps
      <4> PICK id \in SessionId :
              /\ live' = live \cup {[id |-> id, lamp |-> c.lamp, bus |-> c.bus]}
              /\ Move(c, "setUp", id)
              /\ UNCHANGED <<joinSessionCBList, wakeUp, remains>>
        BY <2>2, <3>1 DEF JoinSessionSucceeds
      <4>1. live' \subseteq Session /\ callbacks' \subseteq Callback
        BY CallbackTypes DEF TypeOK, Session
      <4> QED
        BY <2>2, <4>1 DEF TypeOK, JoinSessionSucceeds, connVars, threadVars,
                          alarmVars, roleVars
    <3>2. CASE ~connectToLamps
      <4>1. "OK" \in Result
        BY DEF Result
      <4>2. remains' \in [Lamp -> BOOLEAN]
        BY <2>2, <3>2, Zenon DEF TypeOK, JoinSessionSucceeds
      <4> QED
        BY <2>2, <3>2, <4>1, <4>2, JoinTypes
           DEF TypeOK, JoinSessionSucceeds, connVars, threadVars, alarmVars,
               roleVars
    <3> QED
      BY <3>1, <3>2
  <2>3. CASE SetUpSession(c)
    <3>1. sessionID' \in [Lamp -> SessionId \cup {0}]
      BY <2>3, CallbackTypes DEF TypeOK, SetUpSession
    <3>2. CASE Move(c, "introspecting", c.id)
               /\ UNCHANGED <<joinSessionCBList, wakeUp, live, remains>>
      <4>1. callbacks' \subseteq Callback
        BY <3>2, CallbackTypes DEF Move, Callback
      <4> QED
        BY <2>3, <3>1, <3>2, <4>1
           DEF TypeOK, SetUpSession, threadVars, alarmVars, roleVars
    <3>3. CASE Leave({c.id}) /\ FinishJoin(c, "OK")
      <4>1. live' \subseteq Session /\ remains' \in [Lamp -> BOOLEAN]
        BY <3>3, LeaveTypes
      <4>2. "OK" \in Result
        BY DEF Result
      <4> QED
        BY <2>3, <3>1, <3>3, <4>1, <4>2, JoinTypes
           DEF TypeOK, SetUpSession, threadVars, alarmVars, roleVars
    <3> QED
      BY <2>3, <3>2, <3>3 DEF SetUpSession
  <2>4. CASE IntrospectCB(c)
    <3>1. "OK" \in Result /\ "FAIL" \in Result
      BY DEF Result
    <3>2. /\ joinSessionCBList' \in [Lamp -> Result \cup {NoResult}]
          /\ callbacks' \subseteq Callback
          /\ wakeUp' \in 0..2
      BY <2>4, <3>1, JoinTypes DEF TypeOK, IntrospectCB
    <3>3. live' \subseteq Session /\ remains' \in [Lamp -> BOOLEAN]
      BY <2>4, LeaveTypes DEF TypeOK, IntrospectCB
    <3> QED
      BY <2>4, <3>2, <3>3 DEF TypeOK, IntrospectCB, connVars, threadVars,
                              alarmVars, roleVars
  <2> QED
    BY <2>1, <2>2, <2>3, <2>4 DEF BusAnswers
<1>15. CASE \E s \in live : SessionLost(s)
  <2> PICK s \in live : SessionLost(s)
    BY <1>15
  <2>1. s.id \in SessionId
    BY DEF TypeOK, Session
  <2>2. lostSessionList' \subseteq SessionId
    BY <2>1 DEF TypeOK, SessionLost
  <2>3. wakeUp' \in 0..2
    BY PostTypes DEF TypeOK, SessionLost
  <2> QED
    BY <2>2, <2>3 DEF TypeOK, SessionLost, connVars, threadVars, alarmVars, roleVars
<1>16. CASE \E l \in Lamp : LampStarts(l) \/ Announced(l) \/ RemoteCleans(l)
  <2> PICK l \in Lamp : LampStarts(l) \/ Announced(l) \/ RemoteCleans(l)
    BY <1>16
  <2>1. CASE LampStarts(l)
    BY <2>1 DEF TypeOK, LampStarts, BusName, connVars, listVars, threadVars,
                alarmVars, roleVars
  <2>2. CASE Announced(l)
    BY <2>2 DEF TypeOK, Announced, BusName, Post, connVars, threadVars,
                alarmVars, roleVars, busVars
  <2>3. CASE RemoteCleans(l)
    BY <2>3 DEF TypeOK, RemoteCleans, connVars, listVars, threadVars,
                alarmVars, roleVars
  <2> QED
    BY <2>1, <2>2, <2>3
<1>17. CASE RequestAllLampIDs
  BY <1>17 DEF TypeOK, RequestAllLampIDs, Post, connVars, threadVars,
               alarmVars, roleVars, busVars
<1>18. CASE ConnectToLamps
  <2>1. wakeUp' \in 0..2
    BY <1>18, PostTypes DEF ConnectToLamps
  <2> QED
    BY <1>18, <2>1 DEF TypeOK, ConnectToLamps, connVars, listVars, threadVars,
                       alarmVars, busVars
<1>19. CASE DisconnectFromLamps
  <2>1. wakeUp' \in 0..2
    BY <1>19, PostTypes DEF DisconnectFromLamps
  <2>2. toggles' \in 0..MaxToggles
    BY <1>19 DEF TypeOK, DisconnectFromLamps
  <2> QED
    BY <1>19, <2>1, <2>2 DEF TypeOK, DisconnectFromLamps, connVars, listVars,
                             threadVars, alarmVars, busVars
<1>20. CASE Stop
  <2>1. wakeUp' \in 0..2
    BY <1>20 DEF Stop
  <2>2. lampBus' = lampBus /\ callbacks' = callbacks /\ live' = live
          /\ remains' = remains
    BY <1>20 DEF Stop, busVars
  <2> QED
    BY <1>20, <2>1, <2>2 DEF TypeOK, Stop, connVars, listVars, threadVars
<1>21. CASE LinkTimeoutPasses
  BY <1>21 DEF TypeOK, LinkTimeoutPasses, connVars, listVars, threadVars,
               alarmVars, busVars
<1>22. CASE AlarmTriggered
  <2>1. wakeUp' \in 0..2
    BY <1>22, PostTypes DEF AlarmTriggered
  <2> QED
    BY <1>22, <2>1 DEF TypeOK, AlarmTriggered, connVars, listVars, threadVars,
                       roleVars, busVars
<1> QED
  BY <1>1, <1>2, <1>3, <1>4, <1>5, <1>6, <1>7, <1>8, <1>9, <1>10, <1>11, <1>12,
     <1>13, <1>14, <1>15, <1>16, <1>17, <1>18, <1>19, <1>20, <1>21, <1>22
  DEF Next, Thread

\* Every variable of the lamps' side keeps to its type, whatever fails.
THEOREM TypeCorrect == Spec => []TypeOK
<1> QED
  BY InitTypes, TypeStep, PTL DEF Spec

-----------------------------------------------------------------------------
(* The thread never sleeps on work.                                        *)

workVars == <<connectToLamps, wakeUp, isRunning, pc, lostSessionList,
              getAllLampIDsRequests, alarmTriggered, aboutsList,
              joinSessionCBList, connectionState, toJoin, toggles, cleanupDone>>

LEMMA WorkKept ==
  ASSUME Work, CleanUp, UNCHANGED workVars
  PROVE  Work' /\ CleanUp'
BY DEF Work, CleanUp, workVars

LEMMA WorkSignalled ==
  ASSUME wakeUp' # 0
  PROVE  Work' /\ CleanUp'
BY DEF Work, CleanUp

LEMMA InitWork == Init => Work /\ CleanUp
BY DEF Init, Work, CleanUp

\* The thread takes one list after the other.
LEMMA WorkOfThread ==
  ASSUME WorkInv, Thread
  PROVE  Work' /\ CleanUp'
<1> USE DEF Pass
<1>1. CASE Wake
  BY <1>1 DEF WorkInv, Work, CleanUp, Wake, connVars, listVars, alarmVars,
              roleVars
<1>2. CASE HandleLostSessions
  BY <1>2 DEF WorkInv, Work, CleanUp, HandleLostSessions, alarmVars, roleVars
<1>3. CASE SendLampIDs
  BY <1>3 DEF WorkInv, Work, CleanUp, SendLampIDs, connVars, alarmVars, roleVars
<1>4. CASE HandleAnnouncements
  <2>1. \A l \in Lamp : connectionState'[l] = "DISCONNECTED" => l \in toJoin'
    BY <1>4 DEF HandleAnnouncements, Unknown
  <2> QED
    BY <1>4, <2>1 DEF WorkInv, Work, CleanUp, HandleAnnouncements, alarmVars,
                      roleVars
<1>5. CASE \E l \in Lamp : JoinLamp(l)
  <2> PICK l \in Lamp : JoinLamp(l)
    BY <1>5
  <2>1. \A k \in Lamp : connectionState'[k] = "DISCONNECTED" =>
           connectionState[k] = "DISCONNECTED" /\ k # l
    BY DEF JoinLamp, WorkInv, TypeOK
  <2> QED
    BY <2>1 DEF WorkInv, Work, CleanUp, JoinLamp, listVars, alarmVars, roleVars
<1>6. CASE ClearAlarm
  BY <1>6 DEF WorkInv, Work, CleanUp, ClearAlarm, connVars, listVars, roleVars
<1>7. CASE HandleJoinResults
  <2>1. CASE wakeUp' # 0
    BY <2>1, WorkSignalled
  <2>2. CASE wakeUp' = 0
    <3>1. ~\E l \in Lamp : /\ connectionState[l] # Unknown
                           /\ joinSessionCBList[l] # NoResult
                           /\ replaced[l]
      BY <1>7, <2>2, PostTypes DEF HandleJoinResults, ActiveLamps, WorkInv
    <3>2. wakeUp = 0
      BY <1>7, <2>2, PostTypes DEF HandleJoinResults, WorkInv
    <3>3. \A l \in Lamp : connectionState'[l] = "DISCONNECTED" =>
             connectionState[l] = "DISCONNECTED"
      BY <1>7, <3>1 DEF HandleJoinResults, ActiveLamps, Outcome, OutcomeOfAny
    <3> QED
      BY <1>7, <3>2, <3>3 DEF WorkInv, Work, CleanUp, HandleJoinResults,
                              alarmVars, roleVars
  <2> QED
    BY <2>1, <2>2
<1>8. CASE ScheduleRetry
  <2>1. CASE wakeUp' # 0
    BY <2>1, WorkSignalled
  <2>2. CASE wakeUp' = 0
    <3>1. wakeUp = 0 /\ (alarmTriggered' => alarmTriggered)
      BY <1>8, <2>2, PostTypes DEF ScheduleRetry, WorkInv, alarmVars
    <3> QED
      BY <1>8, <3>1 DEF WorkInv, Work, CleanUp, ScheduleRetry, connVars,
                        listVars, roleVars
  <2> QED
    BY <2>1, <2>2
<1>9. CASE LeaveSessions
  BY <1>9 DEF WorkInv, Work, CleanUp, LeaveSessions, listVars, alarmVars,
              roleVars
<1>10. CASE ClearLists
  BY <1>10 DEF WorkInv, Work, CleanUp, ClearLists, connVars, alarmVars, roleVars
<1>11. CASE RecordAnnouncements
  BY <1>11 DEF WorkInv, Work, CleanUp, RecordAnnouncements, alarmVars, roleVars
<1>12. CASE ExitAndJoin
  BY <1>12 DEF Work, CleanUp, ExitAndJoin, roleVars
<1> QED
  BY <1>1, <1>2, <1>3, <1>4, <1>5, <1>6, <1>7, <1>8, <1>9, <1>10, <1>11, <1>12
  DEF Thread

\* Whoever adds work posts the semaphore.
LEMMA WorkOfOthers ==
  ASSUME WorkInv, [Next]_vars, ~Thread
  PROVE  Work' /\ CleanUp'
<1> USE WorkKept, WorkSignalled, PostTypes DEF WorkInv, workVars
<1>1. CASE UNCHANGED vars
  BY <1>1 DEF vars, connVars, listVars, threadVars, alarmVars, roleVars
<1>2. CASE \E c \in callbacks : BusAnswers(c)
  <2> PICK c \in callbacks : BusAnswers(c)
    BY <1>2
  <2>1. CASE \E status \in {"FAIL", "ALREADY_JOINED"} : JoinSessionFails(c, status)
    BY <2>1 DEF JoinSessionFails, FinishJoin
  <2>2. CASE JoinSessionSucceeds(c)
    BY <2>2 DEF JoinSessionSucceeds, FinishJoin, connVars, threadVars,
                alarmVars, roleVars
  <2>3. CASE SetUpSession(c)
    BY <2>3 DEF SetUpSession, FinishJoin, threadVars, alarmVars, roleVars
  <2>4. CASE IntrospectCB(c)
    BY <2>4 DEF IntrospectCB, FinishJoin, connVars, threadVars, alarmVars,
                roleVars
  <2> QED
    BY <2>1, <2>2, <2>3, <2>4 DEF BusAnswers
<1>3. CASE \E s \in live : SessionLost(s)
  BY <1>3 DEF SessionLost, connVars, threadVars, alarmVars, roleVars
<1>4. CASE \E l \in Lamp : LampStarts(l) \/ Announced(l) \/ RemoteCleans(l)
  BY <1>4 DEF LampStarts, Announced, RemoteCleans, connVars, listVars,
              threadVars, alarmVars, roleVars
<1>5. CASE RequestAllLampIDs
  BY <1>5 DEF RequestAllLampIDs
<1>6. CASE ConnectToLamps \/ DisconnectFromLamps
  BY <1>6 DEF ConnectToLamps, DisconnectFromLamps
<1>7. CASE Stop
  BY <1>7 DEF Stop
<1>8. CASE LinkTimeoutPasses
  BY <1>8 DEF LinkTimeoutPasses, connVars, listVars, threadVars, alarmVars
<1>9. CASE AlarmTriggered
  BY <1>9 DEF AlarmTriggered
<1> QED
  BY <1>1, <1>2, <1>3, <1>4, <1>5, <1>6, <1>7, <1>8, <1>9 DEF Next

THEOREM WorkSpec == Spec => []WorkInv
<1>1. Init => WorkInv
  BY InitTypes, InitWork DEF WorkInv
<1>2. WorkInv /\ [Next]_vars => WorkInv'
  BY TypeStep, WorkOfThread, WorkOfOthers DEF WorkInv
<1> QED
  BY <1>1, <1>2, PTL DEF Spec

\* The thread never goes to sleep on work that is in one of its lists, nor on
\* a lamp that waits to be joined, whatever the callbacks add while it goes
\* from one list to the next.
THEOREM NoWorkForgotten == Spec => []NoLostWork
<1>1. WorkInv => NoLostWork
  BY DEF WorkInv, Work, CleanUp, NoLostWork
<1> QED
  BY <1>1, WorkSpec, PTL

-----------------------------------------------------------------------------
(* Every join in progress will be heard of.                                *)

Accounted(l) ==
  joinSessionCBList[l] # NoResult \/ \E c \in callbacks : c.lamp = l

\* A callback of the bus comes again or leaves a result.
LEMMA FinishedAccounted ==
  ASSUME TypeOK, NEW c \in callbacks, NEW r \in Result, FinishJoin(c, r)
  PROVE  \A l \in Lamp : Accounted(l) => Accounted(l)'
<1> SUFFICES ASSUME NEW l \in Lamp, Accounted(l)
             PROVE  Accounted(l)'
  OBVIOUS
<1>1. joinSessionCBList[l] # NoResult => joinSessionCBList'[l] # NoResult
  BY DEF FinishJoin, AddResult, TypeOK
<1>2. CASE c.lamp = l
  <2>1. joinSessionCBList'[l] # NoResult
    BY <1>2 DEF FinishJoin, AddResult, TypeOK, Result, NoResult
  <2> QED
    BY <2>1 DEF Accounted
<1>3. CASE c.lamp # l
  BY <1>1, <1>3 DEF Accounted, FinishJoin
<1> QED
  BY <1>2, <1>3

LEMMA MovedAccounted ==
  ASSUME NEW c \in callbacks, NEW at, NEW id, Move(c, at, id),
         UNCHANGED joinSessionCBList
  PROVE  \A l \in Lamp : Accounted(l) => Accounted(l)'
<1> DEFINE next == [lamp |-> c.lamp, bus |-> c.bus, n |-> c.n, at |-> at, id |-> id]
<1>1. next \in callbacks' /\ next.lamp = c.lamp
  BY DEF Move
<1> HIDE DEF next
<1>2. \A d \in callbacks : d # c => d \in callbacks'
  BY DEF Move
<1> QED
  BY <1>1, <1>2 DEF Accounted

LEMMA AnswersAccounted ==
  ASSUME TypeOK, NEW c \in callbacks, BusAnswers(c)
  PROVE  connectToLamps => \A l \in Lamp : Accounted(l) => Accounted(l)'
<1> USE FinishedAccounted, MovedAccounted
<1>1. {"OK", "FAIL", "ALREADY_JOINED"} \subseteq Result
  BY DEF Result
<1>2. CASE \E status \in {"FAIL", "ALREADY_JOINED"} : JoinSessionFails(c, status)
  BY <1>1, <1>2 DEF JoinSessionFails
<1>3. CASE JoinSessionSucceeds(c)
  BY <1>1, <1>3 DEF JoinSessionSucceeds
<1>4. CASE SetUpSession(c)
  BY <1>1, <1>4 DEF SetUpSession
<1>5. CASE IntrospectCB(c)
  BY <1>1, <1>5 DEF IntrospectCB
<1> QED
  BY <1>2, <1>3, <1>4, <1>5 DEF BusAnswers

LEMMA InitJoin == Init => JoinInv
BY DEF Init, JoinInv, First, JoinAccounted, InProgress, Pass, Unknown

LEMMA JoinOfThread ==
  ASSUME TypeOK, JoinInv, Thread
  PROVE  JoinInv'
<1> USE DEF Pass, First, JoinInv, JoinAccounted, InProgress
<1>1. CASE Wake
  BY <1>1 DEF Wake, connVars, listVars, alarmVars, roleVars, busVars
<1>2. CASE HandleLostSessions
  BY <1>2 DEF HandleLostSessions, alarmVars, roleVars, busVars
<1>3. CASE SendLampIDs
  BY <1>3 DEF SendLampIDs, connVars, alarmVars, roleVars, busVars
<1>4. CASE HandleAnnouncements
  <2>1. \A l \in Lamp : InProgress(l)' => InProgress(l)
    BY <1>4 DEF HandleAnnouncements, Renamed
  <2> QED
    BY <1>4, <2>1 DEF HandleAnnouncements, alarmVars, roleVars
<1>5. CASE \E l \in Lamp : JoinLamp(l)
  <2> PICK l \in Lamp : JoinLamp(l)
    BY <1>5
  <2>1. \A k \in Lamp : InProgress(k)' =>
           InProgress(k) \/ \E c \in callbacks' : c.lamp = k
    <3> SUFFICES ASSUME NEW k \in Lamp, InProgress(k)', ~InProgress(k)
                 PROVE  \E c \in callbacks' : c.lamp = k
      OBVIOUS
    <3> DEFINE asked(n) == [lamp |-> l, bus |-> busName[l], n |-> n,
                            at |-> "asked", id |-> 0]
    <3>1. PICK n : callbacks' = callbacks \cup {asked(n)} /\ k = l
      BY DEF JoinLamp, TypeOK
    <3>2. asked(n) \in callbacks' /\ asked(n).lamp = k
      BY <3>1
    <3> QED
      BY <3>2
  <2>2. callbacks \subseteq callbacks' /\ joinSessionCBList' = joinSessionCBList
    BY DEF JoinLamp, listVars
  <2> QED
    BY <2>1, <2>2 DEF JoinLamp, alarmVars, roleVars
<1>6. CASE ClearAlarm
  BY <1>6 DEF ClearAlarm, connVars, listVars, roleVars, busVars
<1>7. CASE HandleJoinResults
  <2>1. \A l \in Lamp : Outcome(l) # "JOIN_SESSION_IN_PROGRESS"
    BY DEF Outcome, OutcomeOfAny
  <2>2. \A l \in Lamp : InProgress(l)' =>
           InProgress(l) /\ joinSessionCBList[l] = NoResult
    BY <1>7, <2>1 DEF HandleJoinResults, ActiveLamps, Unknown
  <2> QED
    BY <1>7, <2>2 DEF HandleJoinResults, alarmVars, roleVars
<1>8. CASE ScheduleRetry
  BY <1>8 DEF ScheduleRetry, connVars, listVars, roleVars, busVars
<1>9. CASE LeaveSessions
  <2>1. \A l \in Lamp : ~InProgress(l)'
    BY <1>9 DEF LeaveSessions, Unknown
  <2> QED
    BY <1>9, <2>1 DEF LeaveSessions, listVars, alarmVars, roleVars
<1>10. CASE ClearLists
  BY <1>10 DEF ClearLists, connVars, alarmVars, roleVars, busVars
<1>11. CASE RecordAnnouncements
  <2>1. \A l \in Lamp : InProgress(l)' => InProgress(l)
    BY <1>11 DEF RecordAnnouncements
  <2> QED
    BY <1>11, <2>1 DEF RecordAnnouncements, alarmVars, roleVars, busVars
<1>12. CASE ExitAndJoin
  <2>1. \A l \in Lamp : ~InProgress(l)'
    BY <1>12 DEF ExitAndJoin, Unknown
  <2> QED
    BY <1>12, <2>1 DEF ExitAndJoin, listVars, alarmVars, roleVars
<1> QED
  BY <1>1, <1>2, <1>3, <1>4, <1>5, <1>6, <1>7, <1>8, <1>9, <1>10, <1>11, <1>12
  DEF Thread

LEMMA JoinOfOthers ==
  ASSUME TypeOK, JoinInv, [Next]_vars, ~Thread
  PROVE  JoinInv'
<1> USE DEF Pass, First, JoinInv, JoinAccounted, InProgress
<1>1. CASE UNCHANGED vars
  BY <1>1 DEF vars, connVars, listVars, threadVars, alarmVars, roleVars, busVars
<1>2. CASE \E c \in callbacks : BusAnswers(c)
  <2> PICK c \in callbacks : BusAnswers(c)
    BY <1>2
  <2>1. UNCHANGED <<connectionState, connectToLamps, isRunning, toggles, pc,
                    cleanupDone>>
    BY DEF BusAnswers, JoinSessionFails, JoinSessionSucceeds, SetUpSession,
           IntrospectCB, connVars, threadVars, roleVars
  <2>2. connectToLamps => \A l \in Lamp : Accounted(l) => Accounted(l)'
    BY AnswersAccounted
  <2> QED
    BY <2>1, <2>2 DEF Accounted
<1>3. CASE \E s \in live : SessionLost(s)
  BY <1>3 DEF SessionLost, connVars, threadVars, alarmVars, roleVars
<1>4. CASE \E l \in Lamp : LampStarts(l) \/ Announced(l) \/ RemoteCleans(l)
  BY <1>4 DEF LampStarts, Announced, RemoteCleans, connVars, listVars,
              threadVars, alarmVars, roleVars, busVars
<1>5. CASE RequestAllLampIDs
  BY <1>5 DEF RequestAllLampIDs, connVars, threadVars, roleVars, busVars
<1>6. CASE ConnectToLamps
  BY <1>6 DEF ConnectToLamps, connVars, listVars, threadVars, busVars
<1>7. CASE DisconnectFromLamps
  BY <1>7 DEF DisconnectFromLamps, TypeOK, connVars, listVars, threadVars, busVars
<1>8. CASE Stop
  BY <1>8 DEF Stop, connVars, listVars, threadVars, busVars
<1>9. CASE LinkTimeoutPasses
  BY <1>9 DEF LinkTimeoutPasses, connVars, listVars, threadVars, busVars
<1>10. CASE AlarmTriggered
  BY <1>10 DEF AlarmTriggered, connVars, listVars, threadVars, roleVars, busVars
<1> QED
  BY <1>1, <1>2, <1>3, <1>4, <1>5, <1>6, <1>7, <1>8, <1>9, <1>10 DEF Next

THEOREM JoinSpec == Spec => [](TypeOK /\ JoinInv)
<1>1. Init => TypeOK /\ JoinInv
  BY InitTypes, InitJoin
<1>2. TypeOK /\ JoinInv /\ [Next]_vars => (TypeOK /\ JoinInv)'
  BY TypeStep, JoinOfThread, JoinOfOthers
<1> QED
  BY <1>1, <1>2, PTL DEF Spec

-----------------------------------------------------------------------------
(* Sessions: what leaves a lamp as it is.                                  *)

\* No field of the lamp, none of its joins and none of its sessions changes.
LEMMA LampKept ==
  ASSUME NEW l \in Lamp, LampInv(l),
         connectionState'[l] = connectionState[l], busName'[l] = busName[l],
         sessionID'[l] = sessionID[l], replaced'[l] = replaced[l],
         joinSessionCBList'[l] = joinSessionCBList[l],
         lampBus'[l] = lampBus[l],
         Of(l)' = Of(l), Sessions(l)' = Sessions(l),
         sessionID[l] \in lostSessionList =>
           sessionID[l] \in lostSessionList' \/ LiveSession(l)
  PROVE  LampInv(l)'
<1>1. LiveSession(l)' = LiveSession(l)
  BY DEF LiveSession
<1>2. InProgress(l)' = InProgress(l)
  BY DEF InProgress
<1>3. OneJoin(l)'
  BY <1>2 DEF LampInv, OneJoin
<1>4. Held(l)'
  BY <1>1 DEF LampInv, Held
<1>5. FirstName(l)'
  BY <1>1 DEF LampInv, FirstName
<1> QED
  BY <1>3, <1>4, <1>5 DEF LampInv

sessionVars == <<connectionState, busName, sessionID, replaced, aboutsList,
                 joinSessionCBList, lostSessionList, lampBus, callbacks, live>>

LEMMA AllKept ==
  ASSUME UNCHANGED sessionVars, Good, NotYet'
  PROVE  Good'
<1>1. Buses' /\ Ids'
  BY DEF Good, Buses, Ids, sessionVars
<1>2. ASSUME NEW l \in Lamp, lampBus'[l] <= 2
      PROVE  LampInv(l)'
  BY <1>2, LampKept DEF Good, sessionVars, Of, Sessions
<1> QED
  BY <1>1, <1>2 DEF Good

\* Before the first join there is nothing to be accounted for.
LEMMA NothingGood ==
  ASSUME Nothing
  PROVE  Ids /\ \A l \in Lamp : LampInv(l)
<1>1. Ids
  BY DEF Nothing, Ids
<1>2. ASSUME NEW l \in Lamp
      PROVE  LampInv(l)
  <2>1. Of(l) = {} /\ Sessions(l) = {} /\ joinSessionCBList[l] = NoResult
        /\ connectionState[l] \in {Unknown, "DISCONNECTED"} /\ sessionID[l] = 0
        /\ ~replaced[l]
    BY DEF Nothing, Of, Sessions
  <2>2. OneJoin(l)
    BY <2>1 DEF OneJoin
  <2>3. Held(l)
    BY <2>1 DEF Held, NoResult, Unknown
  <2>4. FirstName(l)
    BY <2>1 DEF FirstName, NoResult, Unknown
  <2> QED
    BY <2>2, <2>3, <2>4 DEF LampInv
<1> QED
  BY <1>1, <1>2

\* While joins, sessions or losses are about, the service is connected, and the
\* thread in its pass.
LEMMA Connected ==
  ASSUME NotYet
  PROVE  /\ pc \in Pass => connectToLamps
         /\ callbacks # {} \/ live # {} =>
              connectToLamps /\ pc \notin {"leave", "clear", "record"}
BY DEF NotYet, Nothing

LEMMA IdTypes ==
  ASSUME TypeOK
  PROVE  /\ \A s \in live : s.id \in SessionId /\ s.id # 0 /\ s.lamp \in Lamp
                            /\ s.bus \in Nat
         /\ \A c \in callbacks : c.lamp \in Lamp /\ c.bus \in Nat
         /\ \A l \in Lamp : /\ busName[l] \in Nat /\ lampBus[l] \in Nat
                            /\ aboutsList[l] \in Nat
         /\ 0 \notin lostSessionList
BY LampClientsAssumption DEF TypeOK, Session, Callback, BusName

-----------------------------------------------------------------------------
(* Sessions: the bus and the callers.                                      *)

LEMMA LampStartsGood ==
  ASSUME TypeOK, Good, NEW k \in Lamp, LampStarts(k)
  PROVE  Good'
<1>1. UNCHANGED <<connectionState, busName, sessionID, replaced, aboutsList,
                  joinSessionCBList, lostSessionList, callbacks, live,
                  connectToLamps, pc>>
  BY DEF LampStarts, connVars, listVars, threadVars, roleVars
<1>2. \A l \in Lamp : lampBus'[l] = IF l = k THEN lampBus[l] + 1 ELSE lampBus[l]
  BY DEF LampStarts, TypeOK
<1>3. NotYet' /\ Ids'
  BY <1>1 DEF Good, NotYet, Nothing, Ids
<1>4. Buses'
  BY <1>1, <1>2, IdTypes DEF Good, Buses
<1>5. ASSUME NEW l \in Lamp, lampBus'[l] <= 2
      PROVE  LampInv(l)'
  <2>1. LampInv(l)
    BY <1>2, <1>5, IdTypes DEF Good
  <2>2. Of(l)' = Of(l) /\ Sessions(l)' = Sessions(l) /\ LiveSession(l)' = LiveSession(l)
    BY <1>1 DEF Of, Sessions, LiveSession
  <2>3. \A s \in Sessions(l) : s.bus # lampBus[l] => s.bus # lampBus'[l]
    BY <1>2, IdTypes DEF Good, Buses, Sessions
  <2>4. Held(l)'
    BY <1>1, <2>1, <2>2, <2>3 DEF LampInv, Held
  <2>5. OneJoin(l)' /\ FirstName(l)'
    BY <1>1, <2>1, <2>2 DEF LampInv, OneJoin, InProgress, FirstName
  <2> QED
    BY <2>4, <2>5 DEF LampInv
<1> QED
  BY <1>3, <1>4, <1>5 DEF Good

LEMMA AnnouncedGood ==
  ASSUME TypeOK, Good, NEW k \in Lamp, Announced(k)
  PROVE  Good'
<1>1. UNCHANGED <<connectionState, busName, sessionID, replaced, lampBus,
                  joinSessionCBList, lostSessionList, callbacks, live,
                  connectToLamps, pc>>
  BY DEF Announced, connVars, threadVars, roleVars, busVars
<1>2. \A l \in Lamp : aboutsList'[l] \in {aboutsList[l], lampBus[l]}
  BY DEF Announced, TypeOK
<1>3. NotYet' /\ Ids'
  BY <1>1 DEF Good, NotYet, Nothing, Ids
<1>4. Buses'
  BY <1>1, <1>2, IdTypes DEF Good, Buses
<1>5. ASSUME NEW l \in Lamp, lampBus'[l] <= 2
      PROVE  LampInv(l)'
  BY <1>1, <1>5, LampKept DEF Good, Of, Sessions
<1> QED
  BY <1>3, <1>4, <1>5 DEF Good

LEMMA SessionLostGood ==
  ASSUME TypeOK, Good, "lostJoining" \notin Faults, NEW x \in live, SessionLost(x)
  PROVE  Good'
<1>1. UNCHANGED <<connectionState, busName, sessionID, replaced, lampBus,
                  joinSessionCBList, aboutsList, callbacks, connectToLamps, pc>>
      /\ live' = live \ {x}
      /\ joinSessionCBList[x.lamp] = NoResult
      /\ \A c \in callbacks : c.id # x.id
  BY DEF SessionLost, connVars, threadVars, roleVars
<1>2. connectToLamps /\ lostSessionList' = lostSessionList \cup {x.id}
  BY Connected DEF Good, SessionLost
<1>3. NotYet'
  BY <1>1, <1>2, Connected DEF Good, NotYet
<1>4. Buses'
  BY <1>1 DEF Good, Buses
<1>5. Ids'
  BY <1>1, <1>2 DEF Good, Ids
<1>6. ASSUME NEW l \in Lamp, lampBus'[l] <= 2
      PROVE  LampInv(l)'
  <2>1. LampInv(l) /\ Of(l)' = Of(l)
    BY <1>1, <1>6 DEF Good, Of
  <2>2. CASE l # x.lamp
    <3>1. Sessions(l)' = Sessions(l)
      BY <1>1, <2>2 DEF Sessions
    <3> QED
      BY <1>1, <1>2, <2>1, <3>1, LampKept
  <2>3. CASE l = x.lamp
    <3>1. Sessions(l)' = Sessions(l) \ {x}
      BY <1>1, <2>3 DEF Sessions
    <3>2. \A s \in Sessions(l) : s # x => s \in Sessions(l)'
      BY <3>1
    <3>3. joinSessionCBList'[l] = NoResult
      BY <1>1, <2>3
    <3>4. \A c \in Of(l) : sessionID[l] = c.id /\ LiveSession(l) => LiveSession(l)'
      BY <1>1, <3>2 DEF Of, LiveSession
    <3>5. LiveSession(l) => LiveSession(l)' \/ sessionID'[l] \in lostSessionList'
      BY <1>1, <1>2, <3>2 DEF LiveSession
    <3>6. OneJoin(l)' /\ FirstName(l)'
      BY <1>1, <2>1, <3>3 DEF LampInv, OneJoin, InProgress, FirstName, NoResult
    <3>7. \A c \in Of(l)' : c.at = "setUp" =>
             /\ sessionID'[l] # c.id
             /\ \E s \in Sessions(l)' : s.id = c.id
             /\ \A s \in Sessions(l)' : s.id # c.id => s.bus # lampBus'[l]
      BY <1>1, <2>1, <3>1, <3>2 DEF LampInv, Held, Of
    <3>8. \A s \in Sessions(l)' :
             \/ sessionID'[l] = s.id
             \/ \E c \in Of(l)' : c.id = s.id /\ c.at = "setUp"
             \/ s.bus # lampBus'[l]
      BY <1>1, <2>1, <3>1 DEF LampInv, Held
    <3>9. Held(l)'
      BY <1>1, <1>2, <2>1, <3>3, <3>4, <3>5, <3>7, <3>8 DEF LampInv, Held, NoResult
    <3> QED
      BY <3>6, <3>9 DEF LampInv
  <2> QED
    BY <2>2, <2>3
<1> QED
  BY <1>3, <1>4, <1>5, <1>6 DEF Good

\* The callers and the alarm; DisconnectFromLamps and Stop end what is claimed.
LEMMA CallersGood ==
  ASSUME TypeOK, Good, First',
         \/ UNCHANGED vars \/ RequestAllLampIDs \/ ConnectToLamps
         \/ DisconnectFromLamps \/ Stop \/ LinkTimeoutPasses \/ AlarmTriggered
         \/ \E l \in Lamp : RemoteCleans(l)
  PROVE  Good'
<1>1. UNCHANGED sessionVars /\ pc' = pc /\ (connectToLamps => connectToLamps')
  <2>1. toggles \in Nat /\ toggles' = 0 /\ isRunning'
    BY LampClientsAssumption DEF First, TypeOK
  <2>2. ~DisconnectFromLamps
    <3>1. DisconnectFromLamps => toggles' = toggles + 1
      BY DEF DisconnectFromLamps
    <3> QED
      BY <2>1, <3>1
  <2>3. ~Stop
    BY <2>1, Zenon DEF Stop
  <2> QED
    BY <2>2, <2>3 DEF vars, connVars, listVars, threadVars, roleVars, busVars,
        sessionVars, RequestAllLampIDs, ConnectToLamps, LinkTimeoutPasses,
        AlarmTriggered, RemoteCleans
<1>2. NotYet'
  BY <1>1 DEF sessionVars, Good, NotYet, Nothing
<1> QED
  BY <1>1, <1>2, AllKept

-----------------------------------------------------------------------------
(* Sessions: the answers of the bus.                                       *)

\* A callback x ends: what holds of its lamp afterwards is left to show.
LEMMA AnswerGood ==
  ASSUME TypeOK, Good, NEW x \in callbacks, NEW r \in Result, FinishJoin(x, r),
         UNCHANGED <<connectionState, busName, sessionID, replaced, aboutsList,
                     lostSessionList, lampBus, live, connectToLamps, pc>>,
         x.at = "setUp" => FALSE,
         LampInv(x.lamp) =>
           /\ r = "OK" /\ ~replaced[x.lamp] => LiveSession(x.lamp)
           /\ busName[x.lamp] < 2 =>
                /\ r = "ALREADY_JOINED" => sessionID[x.lamp] = 0
                /\ sessionID[x.lamp] = 0 \/ LiveSession(x.lamp)
  PROVE  Good'
<1>1. callbacks' = callbacks \ {x} /\ x.lamp \in Lamp /\ r # NoResult
  BY CallbackTypes DEF FinishJoin, Result, NoResult
<1>2. \A l \in Lamp : joinSessionCBList'[l] =
         IF l = x.lamp /\ joinSessionCBList[l] = NoResult THEN r
         ELSE joinSessionCBList[l]
  BY <1>1 DEF FinishJoin, AddResult, TypeOK
<1>3. NotYet'
  BY Connected DEF Good, NotYet
<1>4. Buses' /\ Ids'
  BY <1>1 DEF Good, Buses, Ids
<1>5. ASSUME NEW l \in Lamp, lampBus'[l] <= 2
      PROVE  LampInv(l)'
  <2>1. LampInv(l) /\ Sessions(l)' = Sessions(l) /\ LiveSession(l)' = LiveSession(l)
    BY <1>5 DEF Good, Sessions, LiveSession
  <2>2. CASE l # x.lamp
    <3>1. Of(l)' = Of(l) /\ joinSessionCBList'[l] = joinSessionCBList[l]
      BY <1>1, <1>2, <2>2 DEF Of
    <3> QED
      BY <2>1, <3>1, LampKept
  <2>3. CASE l = x.lamp
    <3>1. x \in Of(l) /\ joinSessionCBList[l] = NoResult /\ Of(l)' = {}
          /\ \A c \in Of(l) : c = x
      BY <1>1, <2>1, <2>3 DEF LampInv, OneJoin, Of
    <3>2. joinSessionCBList'[l] = r
      BY <1>2, <2>3, <3>1
    <3>3. OneJoin(l)'
      BY <2>1, <3>1 DEF LampInv, OneJoin, InProgress
    <3>4. Held(l)'
      BY <2>1, <2>3, <3>1, <3>2 DEF LampInv, Held
    <3>5. FirstName(l)'
      BY <2>1, <2>3, <3>1, <3>2 DEF LampInv, FirstName
    <3> QED
      BY <3>3, <3>4, <3>5 DEF LampInv
  <2> QED
    BY <2>2, <2>3
<1> QED
  BY <1>3, <1>4, <1>5 DEF Good

LEMMA JoinSessionFailsGood ==
  ASSUME TypeOK, Good, NEW x \in callbacks,
         NEW status \in {"FAIL", "ALREADY_JOINED"}, JoinSessionFails(x, status)
  PROVE  Good'
<1>1. connectToLamps
  BY Connected DEF Good
<1>2. FinishJoin(x, status) /\ status \in Result /\ x.at = "asked"
  BY <1>1 DEF JoinSessionFails, Result
<1>3. UNCHANGED <<connectionState, busName, sessionID, replaced, aboutsList,
                  lostSessionList, lampBus, live, connectToLamps, pc>>
  BY DEF JoinSessionFails, connVars, threadVars, roleVars
<1>4. LampInv(x.lamp) /\ busName[x.lamp] < 2 => sessionID[x.lamp] = 0
  BY <1>2 DEF LampInv, FirstName, Of
<1> QED
  BY <1>2, <1>3, <1>4, AnswerGood

LEMMA IntrospectCBGood ==
  ASSUME TypeOK, Good, "setup" \notin Faults, NEW x \in callbacks, IntrospectCB(x)
  PROVE  Good'
<1>1. connectToLamps
  BY Connected DEF Good
<1>2. PICK r \in {"OK", "FAIL"} : FinishJoin(x, r) /\ UNCHANGED live
  BY <1>1 DEF IntrospectCB
<1>3. r \in Result /\ x.at = "introspecting"
  BY DEF IntrospectCB, Result
<1>4. UNCHANGED <<connectionState, busName, sessionID, replaced, aboutsList,
                  lostSessionList, lampBus, live, connectToLamps, pc>>
  BY <1>2 DEF IntrospectCB, connVars, threadVars, roleVars
<1>5. LampInv(x.lamp) /\ ~replaced[x.lamp] => LiveSession(x.lamp)
  BY <1>3 DEF LampInv, Held, Of
<1>6. LampInv(x.lamp) /\ busName[x.lamp] < 2 => ~replaced[x.lamp]
  BY DEF LampInv, FirstName
<1> QED
  BY <1>2, <1>3, <1>4, <1>5, <1>6, AnswerGood

\* A callback moves on: x becomes y.
LEMMA MovedCallbacks ==
  ASSUME TypeOK, NEW x \in callbacks, NEW at, NEW id, Move(x, at, id)
  PROVE  \E y : /\ y.lamp = x.lamp /\ y.bus = x.bus /\ y.at = at /\ y.id = id
               /\ callbacks' = (callbacks \ {x}) \cup {y}
<1> DEFINE next == [lamp |-> x.lamp, bus |-> x.bus, n |-> x.n, at |-> at, id |-> id]
<1>1. callbacks' = (callbacks \ {x}) \cup {next}
  BY DEF Move
<1>2. next.lamp = x.lamp /\ next.bus = x.bus /\ next.at = at /\ next.id = id
  OBVIOUS
<1> QED
  BY <1>1, <1>2

LEMMA SetUpSessionGood ==
  ASSUME TypeOK, Good, "setup" \notin Faults, NEW x \in callbacks, SetUpSession(x)
  PROVE  Good'
<1>1. /\ UNCHANGED <<connectionState, busName, replaced, aboutsList, live,
                     joinSessionCBList, lostSessionList, lampBus,
                     connectToLamps, pc>>
      /\ Move(x, "introspecting", x.id) /\ x.at = "setUp"
      /\ sessionID' = [sessionID EXCEPT ![x.lamp] = x.id]
  BY DEF SetUpSession, threadVars, roleVars
<1>2. PICK y : /\ y.lamp = x.lamp /\ y.bus = x.bus /\ y.at = "introspecting"
               /\ y.id = x.id
               /\ callbacks' = (callbacks \ {x}) \cup {y}
  BY <1>1, MovedCallbacks
<1>3. \A l \in Lamp : sessionID'[l] = IF l = x.lamp THEN x.id ELSE sessionID[l]
  BY <1>1 DEF TypeOK
<1>4. x.lamp \in Lamp
  BY CallbackTypes
<1>5. NotYet'
  BY <1>1, Connected DEF Good, NotYet
<1>6. Buses'
  BY <1>1 DEF Good, Buses
<1>7. Ids'
  <2>1. /\ \A s \in live' : s.id \notin lostSessionList'
        /\ \A s, t \in live' : s.id = t.id => s = t
    BY <1>1 DEF Good, Ids
  <2>2. \A s \in live', l \in Lamp : sessionID'[l] = s.id => s.lamp = l
    BY <1>1, <1>3 DEF Good, Ids
  <2>3. \A s \in live', c \in callbacks' :
           c.id = s.id => c.lamp = s.lamp /\ c.bus = s.bus
    BY <1>1, <1>2 DEF Good, Ids
  <2>4. \A c \in callbacks', l \in Lamp :
           sessionID'[l] = c.id /\ c.id # 0 => c.lamp = l
    BY <1>1, <1>2, <1>3 DEF Good, Ids
  <2>5. \A c, d \in callbacks' : c.id = d.id /\ c.id # 0 => c.lamp = d.lamp
    BY <1>1, <1>2 DEF Good, Ids
  <2>6. \A c \in callbacks' : c.at = "asked" <=> c.id = 0
    BY <1>1, <1>2 DEF Good, Ids
  <2> QED
    BY <2>1, <2>2, <2>3, <2>4, <2>5, <2>6 DEF Ids
<1>8. ASSUME NEW l \in Lamp, lampBus'[l] <= 2
      PROVE  LampInv(l)'
  <2>1. LampInv(l) /\ Sessions(l)' = Sessions(l)
    BY <1>1, <1>8 DEF Good, Sessions
  <2>2. CASE l # x.lamp
    <3>1. Of(l)' = Of(l)
      BY <1>2, <2>2 DEF Of
    <3> QED
      BY <1>1, <1>3, <2>1, <2>2, <3>1, LampKept
  <2>3. CASE l = x.lamp
    <3>1. x \in Of(l) /\ joinSessionCBList'[l] = NoResult /\ Of(l)' = {y}
          /\ \A c \in Of(l) : c = x
      BY <1>1, <1>2, <2>1, <2>3 DEF LampInv, OneJoin, Of
    <3>2. OneJoin(l)'
      BY <1>1, <1>2, <2>1, <2>3, <3>1 DEF LampInv, OneJoin, InProgress
    <3>3. PICK s \in Sessions(l) : s.id = x.id
      BY <1>1, <2>1, <3>1 DEF LampInv, Held
    <3>4. s.bus = x.bus
      BY <3>3 DEF Good, Ids, Sessions
    <3>5. ~replaced[l] => LiveSession(l)'
      BY <1>1, <1>3, <2>1, <2>3, <3>1, <3>3, <3>4
      DEF LampInv, OneJoin, LiveSession
    <3>6. InProgress(l) \/ (connectionState[l] = "BLACKLISTED" /\ busName[l] = 2)
      BY <2>1, <3>1 DEF LampInv, OneJoin
    <3>7. \A t \in Sessions(l)' : sessionID'[l] = t.id \/ t.bus # lampBus'[l]
      BY <1>1, <1>3, <2>1, <2>3, <3>1 DEF LampInv, Held
    <3>8. Held(l)'
      BY <1>1, <1>2, <1>3, <2>3, <3>1, <3>5, <3>6, <3>7
      DEF Held, InProgress, NoResult
    <3>9. FirstName(l)'
      BY <1>1, <1>2, <2>1, <3>1, <3>6 DEF LampInv, FirstName, InProgress, NoResult
    <3> QED
      BY <3>2, <3>8, <3>9 DEF LampInv
  <2> QED
    BY <2>2, <2>3
<1> QED
  BY <1>5, <1>6, <1>7, <1>8 DEF Good

LEMMA JoinSessionSucceedsGood ==
  ASSUME TypeOK, Good, NEW x \in callbacks, JoinSessionSucceeds(x)
  PROVE  Good'
<1>1. /\ UNCHANGED <<connectionState, busName, sessionID, replaced, aboutsList,
                     joinSessionCBList, lostSessionList, lampBus,
                     connectToLamps, pc>>
      /\ connectToLamps /\ x.at = "asked" /\ x.bus = lampBus[x.lamp]
      /\ ~\E s \in live : s.lamp = x.lamp /\ s.bus = x.bus
  BY Connected DEF Good, JoinSessionSucceeds, connVars, threadVars, roleVars
<1>2. PICK id \in SessionId \ UsedIds :
        /\ live' = live \cup {[id |-> id, lamp |-> x.lamp, bus |-> x.bus]}
        /\ Move(x, "setUp", id)
  BY <1>1 DEF JoinSessionSucceeds
<1>3. PICK y : /\ y.lamp = x.lamp /\ y.bus = x.bus /\ y.at = "setUp" /\ y.id = id
               /\ callbacks' = (callbacks \ {x}) \cup {y}
  BY <1>2, MovedCallbacks
<1>4. \E z : /\ z.lamp = x.lamp /\ z.bus = x.bus /\ z.id = id
             /\ live' = live \cup {z}
  <2> DEFINE new == [id |-> id, lamp |-> x.lamp, bus |-> x.bus]
  <2>1. live' = live \cup {new} /\ new.lamp = x.lamp /\ new.bus = x.bus /\ new.id = id
    BY <1>2
  <2> QED
    BY <2>1
<1>5. PICK z : /\ z.lamp = x.lamp /\ z.bus = x.bus /\ z.id = id
               /\ live' = live \cup {z}
  BY <1>4
<1>6. /\ \A s \in live : s.id # id
      /\ id \notin lostSessionList
      /\ \A l \in Lamp : sessionID[l] # id
      /\ \A c \in callbacks : c.id # id
      /\ id # 0
  BY LampClientsAssumption DEF UsedIds
<1>7. x.lamp \in Lamp /\ lampBus[x.lamp] \in Nat
  BY CallbackTypes, IdTypes
<1>8. NotYet'
  BY <1>1, Connected DEF Good, NotYet
<1>9. Buses'
  BY <1>1, <1>5, <1>7 DEF Good, Buses
<1>10. Ids'
  <2>1. \A s \in live' : s.id \notin lostSessionList'
    BY <1>1, <1>5, <1>6 DEF Good, Ids
  <2>2. \A s, t \in live' : s.id = t.id => s = t
    BY <1>1, <1>5, <1>6 DEF Good, Ids
  <2>3. \A s \in live', l \in Lamp : sessionID'[l] = s.id => s.lamp = l
    BY <1>1, <1>5, <1>6 DEF Good, Ids
  <2>4. \A s \in live', c \in callbacks' :
           c.id = s.id => c.lamp = s.lamp /\ c.bus = s.bus
    BY <1>3, <1>5, <1>6 DEF Good, Ids
  <2>5. \A c \in callbacks', l \in Lamp :
           sessionID'[l] = c.id /\ c.id # 0 => c.lamp = l
    BY <1>1, <1>3, <1>6 DEF Good, Ids
  <2>6. \A c, d \in callbacks' : c.id = d.id /\ c.id # 0 => c.lamp = d.lamp
    BY <1>3, <1>6 DEF Good, Ids
  <2>7. \A c \in callbacks' : c.at = "asked" <=> c.id = 0
    BY <1>3, <1>6 DEF Good, Ids
  <2> QED
    BY <2>1, <2>2, <2>3, <2>4, <2>5, <2>6, <2>7 DEF Ids
<1>11. ASSUME NEW l \in Lamp, lampBus'[l] <= 2
       PROVE  LampInv(l)'
  <2>1. LampInv(l)
    BY <1>1, <1>11 DEF Good
  <2>2. CASE l # x.lamp
    <3>1. Of(l)' = Of(l) /\ Sessions(l)' = Sessions(l)
      BY <1>3, <1>5, <2>2 DEF Of, Sessions
    <3> QED
      BY <1>1, <2>1, <3>1, LampKept
  <2>3. CASE l = x.lamp
    <3>1. x \in Of(l) /\ joinSessionCBList'[l] = NoResult /\ Of(l)' = {y}
          /\ \A c \in Of(l) : c = x
      BY <1>1, <1>3, <2>1, <2>3 DEF LampInv, OneJoin, Of
    <3>2. Sessions(l)' = Sessions(l) \cup {z}
      BY <1>5, <2>3 DEF Sessions
    <3>3. OneJoin(l)'
      BY <1>1, <1>3, <2>1, <2>3, <3>1 DEF LampInv, OneJoin, InProgress
    <3>4. InProgress(l) \/ (connectionState[l] = "BLACKLISTED" /\ busName[l] = 2)
      BY <2>1, <3>1 DEF LampInv, OneJoin
    <3>5. /\ sessionID'[l] # y.id
          /\ \E s \in Sessions(l)' : s.id = y.id
          /\ \A s \in Sessions(l)' : s.id # y.id => s.bus # lampBus'[l]
      BY <1>1, <1>3, <1>5, <1>6, <2>3, <3>2 DEF Sessions
    <3>6. \A s \in Sessions(l)' :
             \/ sessionID'[l] = s.id
             \/ \E c \in Of(l)' : c.id = s.id /\ c.at = "setUp"
             \/ s.bus # lampBus'[l]
      BY <1>3, <3>1, <3>5
    <3>7. Held(l)'
      BY <1>1, <1>3, <3>1, <3>4, <3>5, <3>6 DEF Held, InProgress, NoResult
    <3>8. FirstName(l)'
      BY <1>1, <1>3, <2>1, <3>1, <3>4 DEF LampInv, FirstName, InProgress, NoResult
    <3> QED
      BY <3>3, <3>7, <3>8 DEF LampInv
  <2> QED
    BY <2>2, <2>3
<1> QED
  BY <1>8, <1>9, <1>10, <1>11 DEF Good

-----------------------------------------------------------------------------
(* Sessions: the thread.                                                   *)

LEMMA WakeGood ==
  ASSUME TypeOK, Good, Wake \/ SendLampIDs \/ ClearAlarm \/ ScheduleRetry
  PROVE  Good'
<1>1. UNCHANGED sessionVars /\ UNCHANGED connectToLamps
  BY DEF Wake, SendLampIDs, ClearAlarm, ScheduleRetry, sessionVars, connVars,
         listVars, roleVars, busVars
<1>2. NotYet'
  <2>1. (~connectToLamps \/ pc' \in {"leave", "clear", "record"}) =>
          ~connectToLamps /\ pc' \notin Pass
    BY DEF Wake, SendLampIDs, ClearAlarm, ScheduleRetry, Good, NotYet, Pass
  <2> QED
    BY <1>1, <2>1 DEF sessionVars, Good, NotYet, Nothing
<1> QED
  BY <1>1, <1>2, AllKept

LEMMA HandleLostSessionsGood ==
  ASSUME TypeOK, Good, HandleLostSessions
  PROVE  Good'
<1> DEFINE lost == {l \in ActiveLamps : sessionID[l] \in lostSessionList}
<1>1. UNCHANGED <<busName, replaced, aboutsList, joinSessionCBList, lampBus,
                  callbacks, live, connectToLamps>>
      /\ lostSessionList' = {} /\ pc' = "ids" /\ pc = "lost"
  BY DEF HandleLostSessions, roleVars, busVars
<1>2. \A l \in Lamp :
        IF l \in lost THEN connectionState'[l] = "BLACKLISTED" /\ sessionID'[l] = 0
        ELSE connectionState'[l] = connectionState[l] /\ sessionID'[l] = sessionID[l]
  BY DEF HandleLostSessions
<1>3. connectToLamps
  BY <1>1, Connected DEF Good, Pass
<1>4. NotYet'
  BY <1>1, <1>3 DEF NotYet
<1>5. Buses'
  BY <1>1, <1>2 DEF Good, Buses, ActiveLamps, Unknown
<1>6. Ids'
  BY <1>1, <1>2, IdTypes DEF Good, Ids
<1>7. ASSUME NEW l \in Lamp, lampBus'[l] <= 2
      PROVE  LampInv(l)'
  <2>1. LampInv(l) /\ Of(l)' = Of(l) /\ Sessions(l)' = Sessions(l)
    BY <1>1, <1>7 DEF Good, Of, Sessions
  <2>2. CASE l \notin lost
    <3>1. connectionState[l] # "CONNECTED" \/ LiveSession(l)
      BY <2>1, <2>2 DEF LampInv, Held, ActiveLamps, Unknown
    <3>2. LiveSession(l)' = LiveSession(l)
      BY <1>1, <1>2, <2>1, <2>2 DEF LiveSession
    <3>3. OneJoin(l)'
      BY <1>1, <1>2, <2>1, <2>2 DEF LampInv, OneJoin, InProgress
    <3>4. FirstName(l)'
      BY <1>1, <1>2, <2>1, <2>2, <3>2 DEF LampInv, FirstName
    <3>5. Held(l)'
      BY <1>1, <1>2, <2>1, <2>2, <3>1, <3>2 DEF LampInv, Held
    <3> QED
      BY <3>3, <3>4, <3>5 DEF LampInv
  <2>3. CASE l \in lost
      <3>1. sessionID[l] \in lostSessionList /\ sessionID[l] # 0 /\ ~LiveSession(l)
          /\ \A s \in Sessions(l) : s.id # sessionID[l]
      BY <2>3, IdTypes DEF Good, Ids, LiveSession, Sessions
    <3>2. connectionState'[l] = "BLACKLISTED" /\ sessionID'[l] = 0
      BY <1>2, <2>3
    <3>3. \A c \in Of(l) : c.at \in {"asked", "setUp", "introspecting"}
      BY CallbackTypes DEF Of
    <3>4. busName[l] < 2 => Of(l) = {} /\ joinSessionCBList[l] = NoResult
      <4>1. busName[l] < 2 => joinSessionCBList[l] = NoResult
        BY <2>1, <3>1 DEF LampInv, FirstName
      <4>2. ASSUME busName[l] < 2, NEW c \in Of(l) PROVE FALSE
        <5>1. c.at = "introspecting" /\ ~replaced[l]
          BY <2>1, <3>1, <3>3, <4>2 DEF LampInv, FirstName
        <5> QED
          BY <2>1, <3>1, <5>1 DEF LampInv, Held
      <4> QED
        BY <4>1, <4>2
    <3>5. busName[l] < 2 \/ busName[l] = 2
      BY <1>1, <1>7, IdTypes DEF Good, Buses
    <3>6. OneJoin(l)'
      BY <1>1, <2>1, <3>2, <3>4, <3>5 DEF LampInv, OneJoin
    <3>7. FirstName(l)'
      BY <1>1, <2>1, <3>2 DEF LampInv, FirstName
    <3>8. /\ \A c \in Of(l) : ~(c.at = "introspecting" /\ ~replaced[l])
          /\ ~(joinSessionCBList[l] = "OK" /\ ~replaced[l])
      BY <2>1, <3>1 DEF LampInv, Held
    <3>9. \A c \in Of(l) : c.at = "setUp" => c.id # 0
      BY DEF Good, Ids, Of
    <3>10. Held(l)'
      BY <1>1, <2>1, <3>1, <3>2, <3>8, <3>9 DEF LampInv, Held
    <3> QED
      BY <3>6, <3>7, <3>10 DEF LampInv
  <2> QED
    BY <2>2, <2>3
<1> QED
  BY <1>4, <1>5, <1>6, <1>7 DEF Good

LEMMA HandleAnnouncementsGood ==
  ASSUME TypeOK, Good, HandleAnnouncements
  PROVE  Good'
<1> DEFINE renamed == {l \in ActiveLamps : aboutsList[l] \notin {0, busName[l]}}
           ids == {sessionID[l] : l \in renamed} \ {0}
<1>1. PICK admitted \in SUBSET Lamp :
        /\ Admitted(admitted)
        /\ Leave(ids)
        /\ Renamed(renamed, admitted)
        /\ sessionID' = [l \in Lamp |-> IF l \in renamed THEN 0 ELSE sessionID[l]]
        /\ busName' = [l \in Lamp |-> IF l \in renamed \cup admitted
                                      THEN aboutsList[l] ELSE busName[l]]
  BY DEF HandleAnnouncements
<1>2. /\ UNCHANGED <<joinSessionCBList, lostSessionList, lampBus, callbacks,
                     connectToLamps>>
      /\ aboutsList' = [l \in Lamp |-> 0] /\ pc = "abouts" /\ pc' = "join"
  BY DEF HandleAnnouncements, roleVars
<1>3. /\ \A l \in admitted : connectionState[l] = Unknown /\ aboutsList[l] # 0
      /\ \A l \in renamed : /\ connectionState[l] # Unknown
                            /\ aboutsList[l] # 0 /\ aboutsList[l] # busName[l]
  BY <1>1 DEF Admitted, ActiveLamps
<1>4. /\ \A l \in Lamp : l \notin renamed \cup admitted =>
           UNCHANGED <<connectionState[l], busName[l], sessionID[l], replaced[l]>>
      /\ \A l \in admitted :
           /\ connectionState'[l] = "DISCONNECTED" /\ busName'[l] = aboutsList[l]
           /\ sessionID'[l] = sessionID[l] /\ replaced'[l] = replaced[l]
      /\ \A l \in renamed :
           /\ busName'[l] = aboutsList[l] /\ sessionID'[l] = 0
           /\ replaced'[l] = InProgress(l)
           /\ connectionState'[l] = IF InProgress(l) THEN connectionState[l]
                                                    ELSE "DISCONNECTED"
  BY <1>1, <1>3 DEF Renamed, InProgress, ActiveLamps
<1>5. /\ live' \subseteq live
      /\ \A l \in Lamp : Sessions(l)' = {s \in Sessions(l) : s.id \notin ids}
  BY <1>1 DEF Leave, Sessions
<1>6. \A l \in Lamp : \A s \in Sessions(l) :
        s.id \in ids => l \in renamed /\ s.id = sessionID[l]
  BY DEF Good, Ids, Sessions, ActiveLamps
<1> HIDE DEF renamed, ids
<1>7. NotYet'
  BY <1>2, Connected DEF Good, NotYet, Pass
<1>8. Buses'
  <2>1. \A l \in Lamp : busName'[l] <= lampBus'[l]
    BY <1>2, <1>3, <1>4, IdTypes DEF Good, Buses
  <2>2. \A l \in Lamp : connectionState'[l] # Unknown <=> busName'[l] # 0
    BY <1>3, <1>4 DEF Good, Buses, Unknown
  <2> QED
    BY <1>2, <1>5, <2>1, <2>2 DEF Good, Buses
<1>9. Ids'
  <2>1. \A l \in Lamp : sessionID'[l] \in {0, sessionID[l]}
    BY <1>4
  <2> QED
    BY <1>2, <1>5, <2>1, IdTypes DEF Good, Ids
<1>10. ASSUME NEW l \in Lamp, lampBus'[l] <= 2
       PROVE  LampInv(l)'
  <2>1. LampInv(l) /\ Of(l)' = Of(l)
    BY <1>2, <1>10 DEF Good, Of
  <2>2. joinSessionCBList'[l] = joinSessionCBList[l] /\ lampBus'[l] = lampBus[l]
        /\ lostSessionList' = lostSessionList
    BY <1>2
  <2>3. CASE l \notin renamed
    <3>1. Sessions(l)' = Sessions(l)
      BY <1>5, <1>6, <2>3
    <3>2. CASE l \notin admitted
      BY <1>4, <2>1, <2>2, <2>3, <3>1, <3>2, LampKept
    <3>3. CASE l \in admitted
      <4>1. connectionState[l] = Unknown /\ busName[l] = 0
        BY <1>3, <3>3 DEF Good, Buses
      <4>2. Of(l) = {} /\ joinSessionCBList[l] = NoResult
        BY <2>1, <4>1 DEF LampInv, OneJoin, InProgress, Unknown
      <4>3. sessionID[l] = 0 /\ ~replaced[l]
        BY <2>1, <4>1 DEF LampInv, FirstName, Unknown
      <4>4. connectionState'[l] = "DISCONNECTED" /\ sessionID'[l] = 0 /\ ~replaced'[l]
        BY <1>4, <3>3, <4>3
      <4>5. OneJoin(l)' /\ FirstName(l)'
        BY <2>1, <2>2, <4>2, <4>4 DEF OneJoin, FirstName, NoResult
      <4>6. Held(l)'
        BY <2>1, <2>2, <3>1, <4>2, <4>3, <4>4 DEF LampInv, Held, NoResult
      <4> QED
        BY <4>5, <4>6 DEF LampInv
    <3> QED
      BY <3>2, <3>3
  <2>4. CASE l \in renamed
    <3>1. busName[l] = 1 /\ busName'[l] = 2
      BY <1>3, <1>4, <1>10, <2>2, <2>4, IdTypes DEF Good, Buses
    <3>2. FirstName(l)'
      BY <3>1 DEF FirstName
    <3>3. sessionID'[l] = 0
      BY <1>4, <2>4
    <3>4. \A s \in Sessions(l) : s.id # sessionID[l] => s \in Sessions(l)'
      BY <1>5, <1>6
    <3>5. \A s \in Sessions(l)' : s \in Sessions(l) /\ s.id # sessionID[l]
      <4>1. \A s \in Sessions(l) : s.id = sessionID[l] => s.id \in ids
        BY <2>4, IdTypes DEF ids, Sessions
      <4> QED
        BY <1>5, <4>1
    <3>6. CASE InProgress(l)
      <4>1. connectionState'[l] = "JOIN_SESSION_IN_PROGRESS" /\ replaced'[l]
        BY <1>4, <2>4, <3>6 DEF InProgress
      <4>2. OneJoin(l)'
        BY <2>1, <2>2, <4>1 DEF LampInv, OneJoin, InProgress
      <4>3. \A c \in Of(l)' : c.at = "setUp" =>
               /\ sessionID'[l] # c.id
               /\ \E s \in Sessions(l)' : s.id = c.id
               /\ \A s \in Sessions(l)' : s.id # c.id => s.bus # lampBus'[l]
        <5> SUFFICES ASSUME NEW c \in Of(l), c.at = "setUp"
                     PROVE  /\ sessionID'[l] # c.id
                            /\ \E s \in Sessions(l)' : s.id = c.id
                            /\ \A s \in Sessions(l)' : s.id # c.id =>
                                 s.bus # lampBus'[l]
          BY <2>1
        <5>1. c.id # 0
          BY DEF Good, Ids, Of
        <5> QED
          BY <2>1, <2>2, <3>3, <3>4, <3>5, <5>1 DEF LampInv, Held
      <4>4. \A s \in Sessions(l)' :
               \/ sessionID'[l] = s.id
               \/ \E c \in Of(l)' : c.id = s.id /\ c.at = "setUp"
               \/ s.bus # lampBus'[l]
        BY <2>1, <2>2, <3>5 DEF LampInv, Held
      <4> QED
        BY <3>2, <4>1, <4>2, <4>3, <4>4 DEF LampInv, Held
    <3>7. CASE ~InProgress(l)
      <4>1. Of(l) = {} /\ joinSessionCBList[l] = NoResult
        BY <2>1, <3>1, <3>7 DEF LampInv, OneJoin
      <4>2. connectionState'[l] = "DISCONNECTED"
        BY <1>4, <2>4, <3>7
      <4>3. OneJoin(l)'
        BY <2>1, <2>2, <4>1 DEF OneJoin
      <4>4. Held(l)'
        BY <2>1, <2>2, <3>5, <4>1, <4>2 DEF LampInv, Held, NoResult
      <4> QED
        BY <3>2, <4>3, <4>4 DEF LampInv
    <3> QED
      BY <3>6, <3>7
  <2> QED
    BY <2>3, <2>4
<1> QED
  BY <1>7, <1>8, <1>9, <1>10 DEF Good

LEMMA JoinLampGood ==
  ASSUME TypeOK, Good, NEW k \in Lamp, JoinLamp(k)
  PROVE  Good'
<1>1. /\ UNCHANGED <<busName, sessionID, aboutsList, joinSessionCBList,
                     lostSessionList, lampBus, live, connectToLamps, pc>>
      /\ pc = "join"
  BY DEF JoinLamp, listVars, roleVars
<1>2. CASE UNCHANGED <<connectionState, replaced, callbacks>>
  <2>1. NotYet'
    BY <1>1, <1>2 DEF Good, NotYet, Pass
  <2> QED
    BY <1>1, <1>2, <2>1, AllKept DEF sessionVars
<1>3. CASE ~UNCHANGED <<connectionState, replaced, callbacks>>
  <2>1. /\ connectionState[k] \in {"DISCONNECTED", "RETRY_JOIN_SESSION"}
        /\ replaced' = [replaced EXCEPT ![k] = FALSE]
    BY <1>3 DEF JoinLamp
  <2>2. \A l \in Lamp : replaced'[l] = IF l = k THEN FALSE ELSE replaced[l]
    BY <2>1 DEF TypeOK
  <2>3. NotYet'
    BY <1>1, Connected DEF Good, NotYet, Pass
  <2>4. CASE connectionState' = [connectionState EXCEPT ![k] = "BLACKLISTED"]
               /\ UNCHANGED callbacks
    <3>1. \A l \in Lamp : connectionState'[l] =
             IF l = k THEN "BLACKLISTED" ELSE connectionState[l]
      BY <2>4 DEF TypeOK
    <3>2. Buses' /\ Ids'
      BY <1>1, <2>1, <2>4, <3>1 DEF Good, Buses, Ids, Unknown
    <3>3. ASSUME NEW l \in Lamp, lampBus'[l] <= 2
          PROVE  LampInv(l)'
      <4>1. LampInv(l) /\ Of(l)' = Of(l) /\ Sessions(l)' = Sessions(l)
            /\ LiveSession(l)' = LiveSession(l)
        BY <1>1, <2>4, <3>3 DEF Good, Of, Sessions, LiveSession
      <4>2. CASE l # k
        BY <1>1, <2>2, <3>1, <4>1, <4>2, LampKept
      <4>3. CASE l = k
        <5>1. Of(l) = {} /\ joinSessionCBList[l] = NoResult
          BY <2>1, <4>1, <4>3 DEF LampInv, OneJoin, InProgress
        <5>2. OneJoin(l)'
          BY <1>1, <4>1, <5>1 DEF OneJoin
        <5>3. Held(l)'
          BY <1>1, <3>1, <4>1, <4>3, <5>1 DEF LampInv, Held, NoResult
        <5>4. FirstName(l)'
          BY <1>1, <2>1, <2>2, <4>1, <4>3, <5>1 DEF LampInv, FirstName, NoResult
        <5> QED
          BY <5>2, <5>3, <5>4 DEF LampInv
      <4> QED
        BY <4>2, <4>3
    <3> QED
      BY <2>3, <3>2, <3>3 DEF Good
  <2>5. CASE connectionState' =
               [connectionState EXCEPT ![k] = "JOIN_SESSION_IN_PROGRESS"]
             /\ \E y : /\ y.lamp = k /\ y.bus = busName[k] /\ y.at = "asked"
                       /\ y.id = 0 /\ callbacks' = callbacks \cup {y}
    <3>1. \A l \in Lamp : connectionState'[l] =
             IF l = k THEN "JOIN_SESSION_IN_PROGRESS" ELSE connectionState[l]
      BY <2>5 DEF TypeOK
    <3>2. PICK y : /\ y.lamp = k /\ y.bus = busName[k] /\ y.at = "asked"
                   /\ y.id = 0 /\ callbacks' = callbacks \cup {y}
      BY <2>5
    <3>3. Buses'
      BY <1>1, <2>1, <3>1 DEF Good, Buses, Unknown
    <3>4. Ids'
      <4>1. \A s \in live', c \in callbacks' :
               c.id = s.id => c.lamp = s.lamp /\ c.bus = s.bus
        BY <1>1, <3>2, IdTypes DEF Good, Ids
      <4>2. /\ \A c \in callbacks', l \in Lamp :
                 sessionID'[l] = c.id /\ c.id # 0 => c.lamp = l
            /\ \A c, d \in callbacks' : c.id = d.id /\ c.id # 0 => c.lamp = d.lamp
            /\ \A c \in callbacks' : c.at = "asked" <=> c.id = 0
        BY <1>1, <3>2 DEF Good, Ids
      <4> QED
        BY <1>1, <4>1, <4>2 DEF Good, Ids
    <3>5. ASSUME NEW l \in Lamp, lampBus'[l] <= 2
          PROVE  LampInv(l)'
      <4>1. LampInv(l) /\ Sessions(l)' = Sessions(l)
            /\ LiveSession(l)' = LiveSession(l)
        BY <1>1, <3>5 DEF Good, Sessions, LiveSession
      <4>2. CASE l # k
        <5>1. Of(l)' = Of(l)
          BY <3>2, <4>2 DEF Of
        <5> QED
          BY <1>1, <2>2, <3>1, <4>1, <4>2, <5>1, LampKept
      <4>3. CASE l = k
        <5>1. Of(l) = {} /\ Of(l)' = {y} /\ joinSessionCBList[l] = NoResult
          BY <2>1, <3>2, <4>1, <4>3 DEF LampInv, OneJoin, InProgress, Of
        <5>2. OneJoin(l)'
          BY <1>1, <3>1, <3>2, <4>3, <5>1 DEF OneJoin, InProgress
        <5>3. Held(l)'
          BY <1>1, <3>1, <3>2, <4>1, <4>3, <5>1 DEF LampInv, Held, NoResult
        <5>4. FirstName(l)'
          BY <1>1, <2>1, <2>2, <3>1, <4>1, <4>3, <5>1
          DEF LampInv, FirstName, NoResult
        <5> QED
          BY <5>2, <5>3, <5>4 DEF LampInv
      <4> QED
        BY <4>2, <4>3
    <3> QED
      BY <2>3, <3>3, <3>4, <3>5 DEF Good
  <2>6. QED
    <3>1. CASE connectionState' =
                 [connectionState EXCEPT ![k] = "JOIN_SESSION_IN_PROGRESS"]
      <4> DEFINE asked(n) == [lamp |-> k, bus |-> busName[k], n |-> n,
                              at |-> "asked", id |-> 0]
      <4>1. PICK n : callbacks' = callbacks \cup {asked(n)}
        BY <1>3, <2>1, <3>1 DEF JoinLamp, TypeOK
      <4>2. /\ asked(n).lamp = k /\ asked(n).bus = busName[k]
            /\ asked(n).at = "asked" /\ asked(n).id = 0
        OBVIOUS
      <4> QED
        BY <2>5, <3>1, <4>1, <4>2
    <3> QED
      BY <1>3, <2>4, <3>1 DEF JoinLamp
<1> QED
  BY <1>2, <1>3

LEMMA HandleJoinResultsGood ==
  ASSUME TypeOK, Good, HandleJoinResults
  PROVE  Good'
<1> DEFINE done == {l \in ActiveLamps : joinSessionCBList[l] # NoResult}
           failed == {l \in done : Outcome(l) = "BLACKLISTED"}
           ids == LeftAfter(failed)
<1>1. /\ UNCHANGED <<busName, replaced, aboutsList, lostSessionList, lampBus,
                     callbacks, connectToLamps>>
      /\ joinSessionCBList' = [l \in Lamp |-> NoResult]
      /\ pc = "results" /\ pc' = "retry"
      /\ Leave(ids)
  BY DEF HandleJoinResults, roleVars
<1>2. \A l \in Lamp :
        /\ connectionState'[l] = IF l \in done THEN Outcome(l) ELSE connectionState[l]
        /\ sessionID'[l] = IF l \in failed THEN 0 ELSE sessionID[l]
  BY DEF HandleJoinResults
<1> HIDE DEF ids
<1>3. /\ live' \subseteq live
      /\ \A l \in Lamp : Sessions(l)' = {s \in Sessions(l) : s.id \notin ids}
  BY <1>1 DEF Leave, Sessions
<1>4. \A l \in Lamp : \A s \in Sessions(l) :
        s.id \in ids <=> l \in failed /\ s.id = sessionID[l]
  BY IdTypes DEF Good, Ids, Sessions, ids, LeftAfter, ActiveLamps
<1>5. \A l \in Lamp : l \in done <=>
        connectionState[l] # Unknown /\ joinSessionCBList[l] # NoResult
  BY DEF ActiveLamps
<1>6. \A l \in Lamp : l \in failed <=> l \in done /\ Outcome(l) = "BLACKLISTED"
  OBVIOUS
<1>7. \A l \in Lamp : Outcome(l) # Unknown
  BY DEF Outcome, OutcomeOfAny, Unknown
<1> HIDE DEF done, failed
<1>8. NotYet'
  BY <1>1, Connected DEF Good, NotYet, Pass
<1>9. Buses'
  BY <1>1, <1>2, <1>3, <1>5, <1>7 DEF Good, Buses
<1>10. Ids'
  <2>1. \A l \in Lamp : sessionID'[l] \in {0, sessionID[l]}
    BY <1>2
  <2> QED
    BY <1>1, <1>3, <2>1, IdTypes DEF Good, Ids
<1>11. ASSUME NEW l \in Lamp, lampBus'[l] <= 2
       PROVE  LampInv(l)'
  <2>1. LampInv(l) /\ Of(l)' = Of(l) /\ joinSessionCBList'[l] = NoResult
    BY <1>1, <1>11 DEF Good, Of
  <2>2. CASE l \notin done
    <3>1. Sessions(l)' = Sessions(l)
      BY <1>3, <1>4, <1>6, <2>2
    <3>2. joinSessionCBList[l] = NoResult
      BY <1>5, <2>1, <2>2 DEF LampInv, OneJoin, InProgress, Unknown
    <3> QED
      BY <1>1, <1>2, <1>6, <2>1, <2>2, <3>1, <3>2, LampKept
  <2>3. CASE l \in done
    <3>1. Of(l) = {} /\ joinSessionCBList[l] # NoResult
      BY <1>5, <2>1, <2>3 DEF LampInv, OneJoin
    <3>2. OneJoin(l)'
      BY <2>1, <3>1 DEF OneJoin
    <3>3. connectionState'[l] = Outcome(l)
      BY <1>2, <2>3
    <3>4. \A s \in Sessions(l)' : sessionID'[l] = s.id \/ s.bus # lampBus'[l]
      BY <1>1, <1>2, <1>3, <1>4, <2>1, <3>1 DEF LampInv, Held
    <3>5. CASE replaced[l]
      <4>1. connectionState'[l] = "DISCONNECTED" /\ l \notin failed
        BY <1>6, <3>3, <3>5 DEF Outcome, OutcomeOfAny, OutcomeOfAny
      <4>2. Held(l)'
        BY <2>1, <3>1, <3>4, <4>1 DEF Held, NoResult
      <4>3. FirstName(l)'
        BY <1>1, <2>1, <3>5 DEF LampInv, FirstName
      <4> QED
        BY <3>2, <4>2, <4>3 DEF LampInv
    <3>6. CASE ~replaced[l] /\ joinSessionCBList[l] = "OK"
      <4>1. connectionState'[l] = "CONNECTED" /\ l \notin failed
        BY <1>6, <3>3, <3>6 DEF Outcome, OutcomeOfAny, OutcomeOfAny
      <4>2. sessionID'[l] = sessionID[l] /\ Sessions(l)' = Sessions(l)
        BY <1>2, <1>3, <1>4, <4>1
      <4>3. LiveSession(l)'
        BY <1>1, <2>1, <3>6, <4>2 DEF LampInv, Held, LiveSession
      <4>4. Held(l)'
        BY <2>1, <3>1, <3>4, <4>3 DEF Held, NoResult
      <4>5. FirstName(l)'
        BY <1>1, <2>1, <3>1, <3>6, <4>1 DEF FirstName, NoResult
      <4> QED
        BY <3>2, <4>4, <4>5 DEF LampInv
    <3>7. CASE ~replaced[l] /\ joinSessionCBList[l] = "ALREADY_JOINED"
      <4>1. connectionState'[l] = "RETRY_JOIN_SESSION" /\ l \notin failed
        BY <1>6, <3>3, <3>7 DEF Outcome, OutcomeOfAny, OutcomeOfAny
      <4>2. Held(l)'
        BY <2>1, <3>1, <3>4, <4>1 DEF Held, NoResult
      <4>3. FirstName(l)'
        BY <1>1, <1>2, <2>1, <3>1, <3>7, <4>1 DEF LampInv, FirstName, NoResult
      <4> QED
        BY <3>2, <4>2, <4>3 DEF LampInv
    <3>8. CASE /\ ~replaced[l]
               /\ joinSessionCBList[l] \notin {"OK", "ALREADY_JOINED"}
      <4>1. connectionState'[l] = "BLACKLISTED" /\ sessionID'[l] = 0
        BY <1>2, <1>6, <2>3, <3>3, <3>8 DEF Outcome, OutcomeOfAny, OutcomeOfAny
      <4>2. Held(l)'
        BY <2>1, <3>1, <3>4, <4>1 DEF Held, NoResult
      <4>3. FirstName(l)'
        BY <1>1, <2>1, <3>1, <3>8, <4>1 DEF FirstName, NoResult
      <4> QED
        BY <3>2, <4>2, <4>3 DEF LampInv
    <3> QED
      BY <3>5, <3>6, <3>7, <3>8
  <2> QED
    BY <2>2, <2>3
<1> QED
  BY <1>8, <1>9, <1>10, <1>11 DEF Good

\* The passes of a thread that has never been connected.
LEMMA CleanUpGood ==
  ASSUME TypeOK, Good, LeaveSessions \/ ClearLists \/ RecordAnnouncements
  PROVE  Good'
<1>1. Nothing
  BY DEF Good, NotYet, LeaveSessions, ClearLists, RecordAnnouncements
<1>2. callbacks' = callbacks /\ lampBus' = lampBus /\ connectToLamps' = connectToLamps
      /\ pc' \in {"clear", "wait"}
  BY DEF LeaveSessions, ClearLists, RecordAnnouncements, busVars, roleVars
<1>3. live' = {}
  BY <1>1 DEF Nothing, LeaveSessions, Leave, ClearLists, RecordAnnouncements,
              busVars
<1>4. lostSessionList' = {} /\ \A l \in Lamp : joinSessionCBList'[l] = NoResult
  BY <1>1 DEF Nothing, LeaveSessions, ClearLists, RecordAnnouncements, listVars
<1>5. \A l \in Lamp : sessionID'[l] = 0 /\ ~replaced'[l]
  BY <1>1 DEF Nothing, LeaveSessions, ClearLists, RecordAnnouncements, connVars
<1>6. \A l \in Lamp :
        /\ connectionState'[l] \in {Unknown, "DISCONNECTED"}
        /\ connectionState'[l] # Unknown <=> busName'[l] # 0
        /\ busName'[l] <= lampBus'[l]
        /\ aboutsList'[l] # 0 =>
             busName'[l] <= aboutsList'[l] /\ aboutsList'[l] <= lampBus'[l]
  <2>1. CASE LeaveSessions
    BY <1>1, <2>1 DEF Good, Buses, Nothing, LeaveSessions, ActiveLamps, Unknown,
                      listVars
  <2>2. CASE ClearLists
    BY <1>1, <2>2 DEF Good, Buses, Nothing, ClearLists, connVars, busVars
  <2>3. CASE RecordAnnouncements
    BY <1>1, <1>2, <2>3
    DEF Good, Buses, Nothing, RecordAnnouncements, Admitted, ActiveLamps, Unknown
  <2> QED
    BY <1>2, <2>1, <2>2, <2>3
<1>7. Nothing'
  BY <1>1, <1>2, <1>3, <1>4, <1>5, <1>6 DEF Nothing
<1>8. NotYet'
  BY <1>2, <1>7 DEF NotYet, Pass
<1>9. Buses'
  BY <1>3, <1>6 DEF Buses
<1>10. Nothing' => (Ids /\ \A l \in Lamp : LampInv(l))'
  BY NothingGood, PTL
<1> QED
  BY <1>7, <1>8, <1>9, <1>10 DEF Good

-----------------------------------------------------------------------------
(* Sessions: the theorems.                                                 *)

LEMMA InitSession == Init => SessionInv
<1> SUFFICES ASSUME Init PROVE Good
  BY DEF SessionInv
<1>1. Nothing
  BY DEF Init, Nothing
<1>2. NotYet
  BY <1>1 DEF Init, NotYet, Pass
<1>3. Buses
  BY DEF Init, Buses
<1> QED
  BY <1>1, <1>2, <1>3, NothingGood DEF Good

\* What sets up a session's objects does not fail, and no session is lost
\* while its lamp is still being connected.
BusOnly == "setup" \notin Faults /\ "lostJoining" \notin Faults

LEMMA FirstStays ==
  ASSUME TypeOK, [Next]_vars, First'
  PROVE  First
<1>1. toggles \in Nat /\ isRunning \in BOOLEAN
  BY LampClientsAssumption DEF TypeOK
<1>2. UNCHANGED <<toggles, isRunning>> => First
  BY DEF First
<1>3. DisconnectFromLamps => FALSE
  BY <1>1 DEF DisconnectFromLamps, First
<1>4. Stop => FALSE
  BY Zenon DEF Stop, First
<1>5. ConnectToLamps => UNCHANGED <<toggles, isRunning>>
  BY DEF ConnectToLamps
<1>6. Thread => UNCHANGED <<toggles, isRunning>>
  BY DEF Thread, Wake, HandleLostSessions, SendLampIDs, HandleAnnouncements,
         JoinLamp, ClearAlarm, HandleJoinResults, ScheduleRetry, LeaveSessions,
         ClearLists, RecordAnnouncements, ExitAndJoin, roleVars
<1>7. (\E c \in callbacks : BusAnswers(c)) => UNCHANGED <<toggles, isRunning>>
  BY DEF BusAnswers, JoinSessionFails, JoinSessionSucceeds, SetUpSession,
         IntrospectCB, roleVars
<1>8. (\E s \in live : SessionLost(s)) => UNCHANGED <<toggles, isRunning>>
  BY DEF SessionLost, roleVars
<1>9. (\E l \in Lamp : LampStarts(l) \/ Announced(l) \/ RemoteCleans(l)) =>
        UNCHANGED <<toggles, isRunning>>
  BY DEF LampStarts, Announced, RemoteCleans, roleVars
<1>10. UNCHANGED vars \/ RequestAllLampIDs \/ LinkTimeoutPasses \/ AlarmTriggered
        => UNCHANGED <<toggles, isRunning>>
  BY DEF vars, roleVars, RequestAllLampIDs, LinkTimeoutPasses, AlarmTriggered
<1> QED
  BY <1>2, <1>3, <1>4, <1>5, <1>6, <1>7, <1>8, <1>9, <1>10, Zenon DEF Next

LEMMA SessionStep ==
  ASSUME BusOnly, TypeOK, SessionInv, [Next]_vars
  PROVE  SessionInv'
<1> SUFFICES ASSUME First' PROVE Good'
  BY DEF SessionInv
<1>1. Good
  BY FirstStays DEF SessionInv
<1>2. CASE Thread
  <2>1. ~ExitAndJoin
    BY FirstStays DEF First, ExitAndJoin
  <2> QED
    BY <1>1, <1>2, <2>1, WakeGood, HandleLostSessionsGood,
       HandleAnnouncementsGood, JoinLampGood, HandleJoinResultsGood, CleanUpGood
    DEF Thread
<1>3. CASE \E c \in callbacks : BusAnswers(c)
  BY <1>1, <1>3, JoinSessionFailsGood, JoinSessionSucceedsGood,
     SetUpSessionGood, IntrospectCBGood DEF BusAnswers, BusOnly
<1>4. CASE \E s \in live : SessionLost(s)
  BY <1>1, <1>4, SessionLostGood DEF BusOnly
<1>5. CASE \E l \in Lamp : LampStarts(l) \/ Announced(l)
  BY <1>1, <1>5, LampStartsGood, AnnouncedGood
<1> QED
  BY <1>1, <1>2, <1>3, <1>4, <1>5, CallersGood DEF Next

THEOREM SessionSpec ==
  ASSUME BusOnly
  PROVE  Spec => [](TypeOK /\ SessionInv)
<1>1. Init => TypeOK /\ SessionInv
  BY InitTypes, InitSession
<1>2. TypeOK /\ SessionInv /\ [Next]_vars => (TypeOK /\ SessionInv)'
  BY TypeStep, SessionStep
<1> QED
  BY <1>1, <1>2, PTL DEF Spec

\* However announcements under a new name, losses and results cross each other,
\* a lamp that has started at most twice counts as connected only through a
\* session to the bus name that it has, until the service stops leading.
THEOREM ConnectedThroughSession ==
  ASSUME BusOnly
  PROVE  Spec => []FirstConnectedHasSession
<1>1. TypeOK /\ SessionInv => FirstConnectedHasSession
  BY DEF SessionInv, First, Good, LampInv, Held, LiveSession, Sessions,
         FirstConnectedHasSession, HasSession
<1> QED
  BY <1>1, SessionSpec, PTL

\* Every join in progress will be heard of, and no session is forgotten.
THEOREM SessionsStayAccounted ==
  ASSUME BusOnly, ~Hasty
  PROVE  Spec => []SessionsAccounted
<1>1. (TypeOK /\ JoinInv) /\ (TypeOK /\ SessionInv) => SessionsAccounted
  <2> SUFFICES ASSUME TypeOK, JoinInv, SessionInv PROVE SessionsAccounted
    OBVIOUS
  <2>1. JoinAccounted
    BY DEF JoinInv
  <2>2. ASSUME First, NEW s \in live, lampBus[s.lamp] <= 2
        PROVE  SessionKnown(s)
    <3>1. s.lamp \in Lamp
      BY IdTypes
    <3> QED
      BY <2>2, <3>1
      DEF SessionInv, Good, LampInv, Held, Sessions, Of, SessionKnown
  <2> QED
    BY <2>1, <2>2 DEF SessionsAccounted, First
<1> QED
  BY <1>1, JoinSpec, SessionSpec, PTL

=============================================================================
