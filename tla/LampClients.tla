---------------------------- MODULE LampClients ----------------------------
(***************************************************************************)
(* The lamps of the Controller Service: announcements of lamps, sessions   *)
(* joined and lost, and the thread that keeps the map of active lamps.     *)
(* Bus callbacks write lists and post the thread's semaphore; the thread   *)
(* takes one list after the other.  Leadership (LeaderElection) connects   *)
(* to the lamps and disconnects from them.  Method calls to the lamps are  *)
(* in LampCalls.                                                           *)
(***************************************************************************)
EXTENDS Naturals, FiniteSets

CONSTANTS
  Lamp,        \* the lamps
  MaxLamps,    \* OEM_CS_MAX_SUPPORTED_LAMPS
  MaxBus,      \* bound: how often a lamp starts, each time with a new bus name
  SessionId,   \* the ids the bus gives to sessions, without 0
  MaxToggles,  \* bound: how often leadership is lost
  Hasty,       \* TRUE: it may come back before the thread has seen it go
  MaxRequests, \* bound: GetAllLampIDs requests that wait
  Stoppable,   \* TRUE: the service may be stopped
  Faults       \* what goes wrong, among FaultKinds

FaultKinds ==
  {"joinCall",     \* JoinSessionAsync returns an error
   "join",         \* a session cannot be joined, or not be introspected
   "already",      \* the lamp's side keeps a session the service has left
   "setup",        \* the objects of a session cannot be set up
   "lost",         \* a session is lost
   "lostJoining"}  \* ... while the lamp is still being connected

ASSUME LampClientsAssumption ==
  /\ MaxLamps \in Nat /\ MaxBus \in Nat /\ MaxToggles \in Nat
  /\ MaxRequests \in Nat
  /\ Hasty \in BOOLEAN /\ Stoppable \in BOOLEAN
  /\ SessionId \subseteq Nat \ {0}
  /\ Faults \subseteq FaultKinds

VARIABLES
  \* the map of active lamps
  connectionState, busName, sessionID, replaced,
  \* the lists the callbacks write
  aboutsList, joinSessionCBList, lostSessionList, getAllLampIDsRequests,
  \* the thread
  isRunning, connectToLamps, wakeUp, pc, toJoin, cleanupDone,
  retryJoinSession, alarmSet,
  \* the retry alarm
  alarmArmed, alarmTriggered,
  \* the bus and the lamps
  lampBus, callbacks, live, remains, recent, toggles

connVars   == <<connectionState, busName, sessionID, replaced>>
listVars   == <<aboutsList, joinSessionCBList, lostSessionList,
                getAllLampIDsRequests>>
threadVars == <<pc, toJoin, cleanupDone, retryJoinSession>>
alarmVars  == <<alarmSet, alarmArmed, alarmTriggered>>
roleVars   == <<isRunning, connectToLamps, recent, toggles>>
busVars    == <<lampBus, callbacks, live, remains>>

vars == <<connVars, listVars, threadVars, wakeUp, alarmVars, roleVars, busVars>>

-----------------------------------------------------------------------------
(* Data.  A lamp's bus name is the number of its start.                    *)

Unknown == "unknown"    \* not in activeLamps
ConnectionState ==
  {"DISCONNECTED", "JOIN_SESSION_IN_PROGRESS", "RETRY_JOIN_SESSION",
   "CONNECTED", "BLACKLISTED"}

NoResult == "none"
Result   == {"OK", "ALREADY_JOINED", "FAIL"}

BusName == 0..MaxBus
Session == [id : SessionId, lamp : Lamp, bus : BusName]

\* A JoinSessionAsync, from the call to its last callback; n tells two calls
\* for the same lamp apart.
Callback == [lamp : Lamp, bus : BusName, n : 1..(MaxToggles + 1),
             at : {"asked", "setUp", "introspecting"}, id : SessionId \cup {0}]

ActiveLamps == {l \in Lamp : connectionState[l] # Unknown}

\* The ids under which the bus or the service still knows a session.
UsedIds == {s.id : s \in live} \cup lostSessionList
             \cup {sessionID[l] : l \in Lamp} \cup {c.id : c \in callbacks}

Init ==
  /\ connectionState = [l \in Lamp |-> Unknown]
  /\ busName = [l \in Lamp |-> 0]
  /\ sessionID = [l \in Lamp |-> 0]
  /\ replaced = [l \in Lamp |-> FALSE]
  /\ aboutsList = [l \in Lamp |-> 0]
  /\ joinSessionCBList = [l \in Lamp |-> NoResult]
  /\ lostSessionList = {}
  /\ getAllLampIDsRequests = 0
  /\ isRunning = TRUE
  /\ connectToLamps = FALSE
  /\ wakeUp = 0
  /\ pc = "wait"
  /\ toJoin = {}
  /\ cleanupDone = FALSE
  /\ retryJoinSession = FALSE
  /\ alarmSet = FALSE
  /\ alarmArmed = FALSE
  /\ alarmTriggered = FALSE
  /\ lampBus = [l \in Lamp |-> 0]
  /\ callbacks = {}
  /\ live = {}
  /\ remains = [l \in Lamp |-> FALSE]
  /\ recent = FALSE
  /\ toggles = 0

-----------------------------------------------------------------------------
(* The semaphore.  Two posts are all the passes that work can need: when   *)
(* disconnected, the first cleans up and the second reads announcements.   *)

Post == wakeUp' = IF wakeUp < 2 THEN wakeUp + 1 ELSE wakeUp

\* DoLeaveSessionAsync; the lamp's side may take its time to forget it.
Leave(ids) ==
  /\ live' = {s \in live : s.id \notin ids}
  /\ remains' = [l \in Lamp |->
       remains[l] \/ ( /\ "already" \in Faults
                       /\ \E s \in live : s.lamp = l /\ s.id \in ids)]

\* Mutation: only the joins that succeeded are listed.
AddSuccess(l, r) ==
  joinSessionCBList' = [joinSessionCBList EXCEPT ![l] =
    IF r = "OK" THEN r ELSE joinSessionCBList[l]]

\* std::map::insert: a result that waits is not overwritten.
AddResult(l, r) ==
  joinSessionCBList' = [joinSessionCBList EXCEPT ![l] =
    IF joinSessionCBList[l] = NoResult THEN r ELSE joinSessionCBList[l]]

\* Mutation: the result is added and the thread is not woken.
FinishJoinQuietly(c, r) ==
  /\ AddResult(c.lamp, r)
  /\ callbacks' = callbacks \ {c}
  /\ UNCHANGED wakeUp

FinishJoin(c, r) ==
  /\ AddResult(c.lamp, r)
  /\ callbacks' = callbacks \ {c}
  /\ Post

Move(c, at, id) ==
  callbacks' = (callbacks \ {c}) \cup
    {[lamp |-> c.lamp, bus |-> c.bus, n |-> c.n, at |-> at, id |-> id]}

-----------------------------------------------------------------------------
(* Lamps, and what the bus reports of them.                                *)

\* A lamp starts, again with another name on the bus; its sessions are dead.
LampStarts(l) ==
  /\ lampBus[l] < MaxBus
  /\ lampBus' = [lampBus EXCEPT ![l] = @ + 1]
  /\ remains' = [remains EXCEPT ![l] = FALSE]
  /\ UNCHANGED <<connVars, listVars, threadVars, wakeUp, alarmVars, roleVars,
                 callbacks, live>>

\* HandleAboutAnnounce: the latest announcement of each lamp, as far as there
\* is room.
Announced(l) ==
  /\ lampBus[l] # 0
  /\ IF \/ aboutsList[l] # 0
        \/ Cardinality({k \in Lamp : aboutsList[k] # 0}) < MaxLamps
     THEN aboutsList' = [aboutsList EXCEPT ![l] = lampBus[l]] /\ Post
     ELSE UNCHANGED <<aboutsList, wakeUp>>
  /\ UNCHANGED <<connVars, joinSessionCBList, lostSessionList,
                 getAllLampIDsRequests, threadVars, alarmVars, roleVars, busVars>>

\* The bus answers a join with an error.  One for a bus name that is gone
\* fails; a session that is still there is ALREADY_JOINED.
JoinSessionFails(c, status) ==
  /\ c \in callbacks /\ c.at = "asked"
  /\ \/ status = "FAIL" /\ ("join" \in Faults \/ c.bus # lampBus[c.lamp])
     \/ /\ status = "ALREADY_JOINED" /\ c.bus = lampBus[c.lamp]
        /\ \/ remains[c.lamp]
           \/ \E s \in live : s.lamp = c.lamp /\ s.bus = c.bus
  /\ FinishJoin(c, IF connectToLamps THEN status ELSE "OK")
  /\ UNCHANGED <<connVars, aboutsList, lostSessionList, getAllLampIDsRequests,
                 threadVars, alarmVars, roleVars, lampBus, live, remains>>

\* The bus joins the session, and JoinSessionCB finds the service disconnected
\* from the lamps or goes on to set up the objects.
JoinSessionSucceeds(c) ==
  /\ c \in callbacks /\ c.at = "asked"
  /\ c.bus = lampBus[c.lamp]
  /\ ~\E s \in live : s.lamp = c.lamp /\ s.bus = c.bus
  /\ IF connectToLamps
     THEN \E id \in SessionId \ UsedIds :
            /\ \A i \in SessionId \ UsedIds : id <= i
            /\ live' = live \cup {[id |-> id, lamp |-> c.lamp, bus |-> c.bus]}
            /\ Move(c, "setUp", id)
            /\ UNCHANGED <<joinSessionCBList, wakeUp, remains>>
     ELSE /\ FinishJoin(c, "OK")
          /\ remains' = [remains EXCEPT ![c.lamp] = @ \/ "already" \in Faults]
          /\ UNCHANGED live
  /\ UNCHANGED <<connVars, aboutsList, lostSessionList, getAllLampIDsRequests,
                 threadVars, alarmVars, roleVars, lampBus>>

\* InitializeSessionAndObjects and IntrospectRemoteObjectAsync.  An error of
\* either is overwritten by the status of the lock that guards the list.
SetUpSession(c) ==
  /\ c \in callbacks /\ c.at = "setUp"
  /\ sessionID' = [sessionID EXCEPT ![c.lamp] = c.id]
  /\ \/ /\ Move(c, "introspecting", c.id)
        /\ UNCHANGED <<joinSessionCBList, wakeUp, live, remains>>
     \/ /\ "setup" \in Faults
        /\ Leave({c.id})
        /\ FinishJoin(c, "OK")
  /\ UNCHANGED <<connectionState, busName, replaced, aboutsList,
                 lostSessionList, getAllLampIDsRequests, threadVars, alarmVars,
                 roleVars, lampBus>>

IntrospectCB(c) ==
  /\ c \in callbacks /\ c.at = "introspecting"
  /\ \/ /\ ~connectToLamps
        /\ callbacks' = callbacks \ {c}
        /\ UNCHANGED <<joinSessionCBList, wakeUp, live, remains>>
     \/ /\ connectToLamps
        /\ \/ FinishJoin(c, "OK")
           \/ /\ "join" \in Faults \/ c.bus # lampBus[c.lamp]
              /\ FinishJoin(c, "FAIL")
        /\ UNCHANGED <<live, remains>>
     \/ /\ connectToLamps /\ "setup" \in Faults
        /\ Leave({sessionID[c.lamp]})
        /\ FinishJoin(c, "OK")
  /\ UNCHANGED <<connVars, aboutsList, lostSessionList, getAllLampIDsRequests,
                 threadVars, alarmVars, roleVars, lampBus>>

\* A session of a lamp that is gone will be lost, any other may be.
SessionLost(s) ==
  /\ s \in live
  /\ s.bus # lampBus[s.lamp] \/ "lost" \in Faults
  /\ \/ "lostJoining" \in Faults
     \/ /\ joinSessionCBList[s.lamp] = NoResult
        /\ \A c \in callbacks : c.id # s.id
  /\ live' = live \ {s}
  /\ IF connectToLamps
     THEN lostSessionList' = lostSessionList \cup {s.id} /\ Post
     ELSE UNCHANGED <<lostSessionList, wakeUp>>
  /\ UNCHANGED <<connVars, aboutsList, joinSessionCBList, getAllLampIDsRequests,
                 threadVars, alarmVars, roleVars, lampBus, callbacks, remains>>

\* The lamp's side forgets the sessions that were left.
RemoteCleans(l) ==
  /\ remains[l]
  /\ remains' = [remains EXCEPT ![l] = FALSE]
  /\ UNCHANGED <<connVars, listVars, threadVars, wakeUp, alarmVars, roleVars,
                 lampBus, callbacks, live>>

-----------------------------------------------------------------------------
(* Calls of the Controller Service, and the retry alarm.                   *)

\* The answer to a request that is rejected needs no state.
RequestAllLampIDs ==
  /\ connectToLamps /\ getAllLampIDsRequests < MaxRequests
  /\ getAllLampIDsRequests' = getAllLampIDsRequests + 1
  /\ Post
  /\ UNCHANGED <<connVars, aboutsList, joinSessionCBList, lostSessionList,
                 threadVars, alarmVars, roleVars, busVars>>

ConnectToLamps ==
  /\ isRunning /\ ~connectToLamps
  /\ Hasty \/ cleanupDone \/ toggles = 0
  /\ connectToLamps' = TRUE
  /\ Post
  /\ UNCHANGED <<connVars, listVars, threadVars, alarmVars, isRunning, recent,
                 toggles, busVars>>

DisconnectFromLamps ==
  /\ isRunning /\ connectToLamps /\ toggles < MaxToggles
  /\ recent' = TRUE
  /\ connectToLamps' = FALSE
  /\ toggles' = toggles + 1
  /\ Post
  /\ UNCHANGED <<connVars, listVars, threadVars, alarmVars, isRunning, busVars>>

\* The posts of DisconnectFromLamps and of Stop itself.
Stop ==
  /\ Stoppable /\ isRunning
  /\ isRunning' = FALSE
  /\ connectToLamps' = FALSE
  /\ recent' = TRUE
  /\ alarmArmed' = FALSE
  /\ wakeUp' = 2
  /\ UNCHANGED <<connVars, listVars, threadVars, alarmSet, alarmTriggered,
                 toggles, busVars>>

\* LSF_MIN_LINK_TIMEOUT_IN_SECONDS have passed since the disconnection.
LinkTimeoutPasses ==
  /\ recent
  /\ recent' = FALSE
  /\ UNCHANGED <<connVars, listVars, threadVars, wakeUp, alarmVars, isRunning,
                 connectToLamps, toggles, busVars>>

AlarmTriggered ==
  /\ alarmArmed
  /\ alarmArmed' = FALSE
  /\ alarmTriggered' = TRUE
  /\ Post
  /\ UNCHANGED <<connVars, listVars, threadVars, alarmSet, roleVars, busVars>>

-----------------------------------------------------------------------------
(* The thread (Run).                                                       *)

\* wakeUp.Wait, and the test of connectToLamps.
Wake ==
  /\ pc = "wait" /\ isRunning /\ wakeUp > 0
  /\ wakeUp' = wakeUp - 1
  /\ IF connectToLamps
     THEN pc' = "lost" /\ cleanupDone' = FALSE
     ELSE /\ pc' = IF cleanupDone THEN "record" ELSE "leave"
          /\ UNCHANGED cleanupDone
  /\ UNCHANGED <<connVars, listVars, toJoin, retryJoinSession, alarmVars,
                 roleVars, busVars>>

\* The lamps whose session is lost are not tried again until they announce
\* themselves under another name.
HandleLostSessions ==
  /\ pc = "lost"
  /\ LET lost == {l \in ActiveLamps : sessionID[l] \in lostSessionList}
     IN  /\ connectionState' = [l \in Lamp |->
              IF l \in lost THEN "BLACKLISTED" ELSE connectionState[l]]
         /\ sessionID' = [l \in Lamp |-> IF l \in lost THEN 0 ELSE sessionID[l]]
  /\ lostSessionList' = {}
  /\ pc' = "ids"
  /\ UNCHANGED <<busName, replaced, aboutsList, joinSessionCBList,
                 getAllLampIDsRequests, wakeUp, toJoin, cleanupDone,
                 retryJoinSession, alarmVars, roleVars, busVars>>

SendLampIDs ==
  /\ pc = "ids"
  /\ getAllLampIDsRequests' = 0
  /\ pc' = "abouts"
  /\ UNCHANGED <<connVars, aboutsList, joinSessionCBList, lostSessionList,
                 wakeUp, toJoin, cleanupDone, retryJoinSession, alarmVars,
                 roleVars, busVars>>

\* New lamps among the announced ones, as far as there is room.
Admitted(lamps) ==
  /\ lamps \subseteq {l \in Lamp : aboutsList[l] # 0} \ ActiveLamps
  /\ Cardinality(lamps) + Cardinality(ActiveLamps) <= MaxLamps
  /\ \/ Cardinality(lamps) + Cardinality(ActiveLamps) = MaxLamps
     \/ lamps = {l \in Lamp : aboutsList[l] # 0} \ ActiveLamps

\* *conn = *newConn, except that a join under way goes on, marked replaced.
Renamed(renamed, admitted) ==
  /\ connectionState' = [l \in Lamp |->
       IF \/ l \in renamed /\ connectionState[l] # "JOIN_SESSION_IN_PROGRESS"
          \/ l \in admitted
       THEN "DISCONNECTED" ELSE connectionState[l]]
  /\ replaced' = [l \in Lamp |->
       IF l \in renamed THEN connectionState[l] = "JOIN_SESSION_IN_PROGRESS"
                        ELSE replaced[l]]

HandleAnnouncements ==
  /\ pc = "abouts"
  /\ LET renamed == {l \in ActiveLamps : aboutsList[l] \notin {0, busName[l]}}
     IN  \E admitted \in SUBSET Lamp :
           /\ Admitted(admitted)
           /\ Leave({sessionID[l] : l \in renamed} \ {0})
           /\ Renamed(renamed, admitted)
           /\ sessionID' = [l \in Lamp |->
                IF l \in renamed THEN 0 ELSE sessionID[l]]
           /\ busName' = [l \in Lamp |->
                IF l \in renamed \cup admitted THEN aboutsList[l]
                                               ELSE busName[l]]
  /\ aboutsList' = [l \in Lamp |-> 0]
  /\ toJoin' = {l \in Lamp : connectionState'[l] # Unknown}
  /\ pc' = "join"
  /\ UNCHANGED <<joinSessionCBList, lostSessionList, getAllLampIDsRequests,
                 wakeUp, cleanupDone, retryJoinSession, alarmVars, roleVars,
                 lampBus, callbacks>>

\* One round of the loop over the active lamps.
JoinLamp(l) ==
  /\ pc = "join" /\ l \in toJoin
  /\ toJoin' = toJoin \ {l}
  /\ IF \/ connectionState[l] = "DISCONNECTED"
        \/ alarmTriggered /\ connectionState[l] = "RETRY_JOIN_SESSION"
     THEN /\ replaced' = [replaced EXCEPT ![l] = FALSE]
          /\ \/ /\ "joinCall" \in Faults
                /\ connectionState' =
                     [connectionState EXCEPT ![l] = "BLACKLISTED"]
                /\ UNCHANGED callbacks
             \/ /\ connectionState' =
                     [connectionState EXCEPT ![l] = "JOIN_SESSION_IN_PROGRESS"]
                /\ \E n \in 1..(MaxToggles + 1) :
                     /\ \A c \in callbacks : c.lamp = l => c.n # n
                     /\ \A k \in 1..(n - 1) :
                          \E c \in callbacks : c.lamp = l /\ c.n = k
                     /\ callbacks' = callbacks \cup
                          {[lamp |-> l, bus |-> busName[l], n |-> n,
                            at |-> "asked", id |-> 0]}
     ELSE UNCHANGED <<connectionState, replaced, callbacks>>
  /\ UNCHANGED <<busName, sessionID, listVars, pc, cleanupDone,
                 retryJoinSession, wakeUp, alarmVars, roleVars, lampBus, live,
                 remains>>

\* The end of the loop, where an alarm that came meanwhile is forgotten, too.
ClearAlarm ==
  /\ pc = "join" /\ toJoin = {}
  /\ alarmSet' = (alarmSet /\ ~alarmTriggered)
  /\ alarmTriggered' = FALSE
  /\ pc' = "results"
  /\ UNCHANGED <<connVars, listVars, wakeUp, toJoin, cleanupDone,
                 retryJoinSession, alarmArmed, roleVars, busVars>>

\* What a result makes of a lamp; mutation: whatever was asked.
OutcomeOfAny(l) ==
  CASE joinSessionCBList[l] = "OK" -> "CONNECTED"
    [] joinSessionCBList[l] = "ALREADY_JOINED" -> "RETRY_JOIN_SESSION"
    [] OTHER -> "BLACKLISTED"

Outcome(l) ==
  IF replaced[l] THEN "DISCONNECTED" ELSE OutcomeOfAny(l)

\* Mutation: the session of a lamp that could not be set up is kept.
KeptAfter(failed) == {}

LeftAfter(failed) == {sessionID[l] : l \in failed} \ {0}

HandleJoinResults ==
  /\ pc = "results"
  /\ LET done   == {l \in ActiveLamps : joinSessionCBList[l] # NoResult}
         failed == {l \in done : Outcome(l) = "BLACKLISTED"}
     IN  /\ connectionState' = [l \in Lamp |->
              IF l \in done THEN Outcome(l) ELSE connectionState[l]]
         /\ Leave(LeftAfter(failed))
         /\ sessionID' = [l \in Lamp |->
              IF l \in failed THEN 0 ELSE sessionID[l]]
         /\ IF \E l \in done : replaced[l] THEN Post ELSE UNCHANGED wakeUp
         /\ retryJoinSession' =
              (\E l \in done : Outcome(l) = "RETRY_JOIN_SESSION")
  /\ joinSessionCBList' = [l \in Lamp |-> NoResult]
  /\ pc' = "retry"
  /\ UNCHANGED <<busName, replaced, aboutsList, lostSessionList,
                 getAllLampIDsRequests, toJoin, cleanupDone, alarmVars,
                 roleVars, lampBus, callbacks>>

ScheduleRetry ==
  /\ pc = "retry"
  /\ IF retryJoinSession
     THEN IF recent
          THEN /\ alarmSet' = TRUE
               /\ alarmArmed' = (alarmArmed \/ ~alarmSet)
               /\ UNCHANGED <<alarmTriggered, wakeUp>>
          ELSE /\ alarmTriggered' = TRUE
               /\ Post
               /\ UNCHANGED <<alarmSet, alarmArmed>>
     ELSE UNCHANGED <<alarmVars, wakeUp>>
  /\ retryJoinSession' = FALSE
  /\ pc' = "wait"
  /\ UNCHANGED <<connVars, listVars, toJoin, cleanupDone, roleVars, busVars>>

\* The clean-up when disconnected: the sessions, then the lists.
LeaveSessions ==
  /\ pc = "leave"
  /\ Leave({sessionID[l] : l \in ActiveLamps} \ {0})
  /\ connectionState' = [l \in Lamp |->
       IF l \in ActiveLamps THEN "DISCONNECTED" ELSE Unknown]
  /\ sessionID' = [l \in Lamp |-> 0]
  /\ replaced' = [l \in Lamp |-> FALSE]
  /\ pc' = "clear"
  /\ UNCHANGED <<busName, listVars, toJoin, cleanupDone, retryJoinSession,
                 wakeUp, alarmVars, roleVars, lampBus, callbacks>>

ClearLists ==
  /\ pc = "clear"
  /\ joinSessionCBList' = [l \in Lamp |-> NoResult]
  /\ lostSessionList' = {}
  /\ getAllLampIDsRequests' = 0
  /\ cleanupDone' = TRUE
  /\ pc' = "wait"
  /\ UNCHANGED <<connVars, aboutsList, toJoin, retryJoinSession, wakeUp,
                 alarmVars, roleVars, busVars>>

\* While disconnected, announcements make lamps known; the bus name of a lamp
\* known already stays as it was.
RecordAnnouncements ==
  /\ pc = "record"
  /\ \E admitted \in SUBSET Lamp :
       /\ Admitted(admitted)
       /\ connectionState' = [l \in Lamp |->
            IF l \in admitted THEN "DISCONNECTED" ELSE connectionState[l]]
       /\ busName' = [l \in Lamp |->
            IF l \in admitted THEN aboutsList[l] ELSE busName[l]]
  /\ aboutsList' = [l \in Lamp |-> 0]
  /\ pc' = "wait"
  /\ UNCHANGED <<sessionID, replaced, joinSessionCBList, lostSessionList,
                 getAllLampIDsRequests, toJoin, cleanupDone, retryJoinSession,
                 wakeUp, alarmVars, roleVars, busVars>>

\* The thread ends, and Join leaves what it finds and frees the lamps.
ExitAndJoin ==
  /\ pc = "wait" /\ ~isRunning
  /\ pc' = "joined"
  /\ Leave({sessionID[l] : l \in ActiveLamps} \ {0})
  /\ connectionState' = [l \in Lamp |-> Unknown]
  /\ sessionID' = [l \in Lamp |-> 0]
  /\ UNCHANGED <<busName, replaced, listVars, toJoin, cleanupDone,
                 retryJoinSession, wakeUp, alarmVars, roleVars, lampBus,
                 callbacks>>

-----------------------------------------------------------------------------
Thread ==
  \/ Wake \/ HandleLostSessions \/ SendLampIDs \/ HandleAnnouncements
  \/ \E l \in Lamp : JoinLamp(l)
  \/ ClearAlarm \/ HandleJoinResults \/ ScheduleRetry
  \/ LeaveSessions \/ ClearLists \/ RecordAnnouncements \/ ExitAndJoin

BusAnswers(c) ==
  \/ \E status \in {"FAIL", "ALREADY_JOINED"} : JoinSessionFails(c, status)
  \/ JoinSessionSucceeds(c) \/ SetUpSession(c) \/ IntrospectCB(c)

Next ==
  \/ Thread
  \/ \E c \in callbacks : BusAnswers(c)
  \/ \E s \in live : SessionLost(s)
  \/ \E l \in Lamp : LampStarts(l) \/ Announced(l) \/ RemoteCleans(l)
  \/ RequestAllLampIDs \/ ConnectToLamps \/ DisconnectFromLamps \/ Stop
  \/ LinkTimeoutPasses \/ AlarmTriggered

Spec == Init /\ [][Next]_vars

\* The thread runs, the bus answers every call within its timeout, reports
\* the sessions of lamps that are gone, and the alarm goes off.
FairSpec ==
  /\ Spec
  /\ WF_vars(Thread)
  /\ \A l \in Lamp : WF_vars(\E c \in callbacks : c.lamp = l /\ BusAnswers(c))
  /\ WF_vars(AlarmTriggered)

-----------------------------------------------------------------------------
TypeOK ==
  /\ connectionState \in [Lamp -> ConnectionState \cup {Unknown}]
  /\ busName \in [Lamp -> BusName]
  /\ sessionID \in [Lamp -> SessionId \cup {0}]
  /\ replaced \in [Lamp -> BOOLEAN]
  /\ aboutsList \in [Lamp -> BusName]
  /\ joinSessionCBList \in [Lamp -> Result \cup {NoResult}]
  /\ lostSessionList \subseteq SessionId
  /\ getAllLampIDsRequests \in 0..MaxRequests
  /\ wakeUp \in 0..2
  /\ pc \in {"wait", "lost", "ids", "abouts", "join", "results", "retry",
             "leave", "clear", "record", "joined"}
  /\ toJoin \subseteq Lamp
  /\ isRunning \in BOOLEAN /\ connectToLamps \in BOOLEAN
  /\ cleanupDone \in BOOLEAN /\ retryJoinSession \in BOOLEAN
  /\ alarmSet \in BOOLEAN /\ alarmArmed \in BOOLEAN /\ alarmTriggered \in BOOLEAN
  /\ lampBus \in [Lamp -> BusName]
  /\ callbacks \subseteq Callback
  /\ live \subseteq Session
  /\ remains \in [Lamp -> BOOLEAN]
  /\ recent \in BOOLEAN
  /\ toggles \in 0..MaxToggles

\* When the thread sleeps with no post to wake it, no list holds work that it
\* would take, and no lamp waits to be joined: the lists are taken one by one
\* while callbacks go on adding to them.
NoLostWork ==
  pc = "wait" /\ wakeUp = 0 /\ isRunning =>
    /\ connectToLamps =>
         /\ \A l \in Lamp : /\ joinSessionCBList[l] = NoResult
                            /\ aboutsList[l] = 0
                            /\ connectionState[l] # "DISCONNECTED"
         /\ lostSessionList = {} /\ getAllLampIDsRequests = 0
         /\ ~alarmTriggered
    /\ ~connectToLamps => toggles = 0 \/ cleanupDone

\* A lamp whose join is in progress will be heard of: a callback is under way
\* or its result waits in the list.  Otherwise the lamp would stay in progress
\* until the service loses its leadership.
JoinAccounted ==
  \A l \in Lamp : connectionState[l] = "JOIN_SESSION_IN_PROGRESS" =>
    \/ joinSessionCBList[l] # NoResult
    \/ \E c \in callbacks : c.lamp = l
    \/ ~connectToLamps

\* A lamp that counts as connected has a session to the bus name it has, or
\* one whose loss is yet to be handled.
HasSession(l) ==
  \/ sessionID[l] \in lostSessionList
  \/ \E s \in live : s.id = sessionID[l] /\ s.lamp = l /\ s.bus = busName[l]

\* The comment at LampClients.cc:354, "Tear down the session if the object setup
\* was unsuccessful", taken with what the thread makes of the result: a join
\* that was torn down does not make its lamp a connected one.
ConnectedHasSession ==
  \A l \in Lamp :
    connectionState[l] = "CONNECTED" /\ connectToLamps => HasSession(l)

\* The same while the service has not lost its leadership yet, the lamp has
\* not started for a third time, and with no error but those the bus reports:
\* announcements under new names, losses and results cross each other, and
\* never leave the lamp connected to nothing.  A lamp that starts a third time
\* can have two joins under way, and their results are taken for one.
FirstConnectedHasSession ==
  toggles = 0 /\ isRunning =>
    \A l \in Lamp :
      connectionState[l] = "CONNECTED" /\ lampBus[l] <= 2 => HasSession(l)

\* Every session the service is in is one that it knows of and will leave, or
\* is about to set up, or the lamp at its other end is gone.
SessionKnown(s) ==
  \/ sessionID[s.lamp] = s.id
  \/ \E c \in callbacks : c.id = s.id /\ c.at = "setUp"
  \/ s.bus # lampBus[s.lamp]

\* Every join in progress will be heard of, and, as long as the leadership has
\* not been lost, every session with a lamp that started at most twice is
\* accounted for.
SessionsAccounted ==
  /\ JoinAccounted
  /\ toggles = 0 /\ isRunning =>
       \A s \in live : lampBus[s.lamp] <= 2 => SessionKnown(s)

\* A lamp that is to be tried again has something that will make the thread
\* try: the alarm, its trigger, or the pass that has still to set it.
RetryScheduled ==
  \A l \in Lamp : connectionState[l] = "RETRY_JOIN_SESSION" =>
    \/ alarmArmed \/ alarmTriggered \/ pc # "wait" \/ wakeUp > 0
    \/ ~connectToLamps

\* Every lamp that is to be joined is connected, put aside or put back for a
\* retry, unless the service disconnects.
JoinsSettle ==
  \A l \in Lamp :
    connectionState[l] \in {"DISCONNECTED", "JOIN_SESSION_IN_PROGRESS"} ~>
      \/ connectionState[l] \in {"CONNECTED", "BLACKLISTED",
                                 "RETRY_JOIN_SESSION", Unknown}
      \/ ~connectToLamps

=============================================================================
