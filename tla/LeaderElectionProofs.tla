------------------------ MODULE LeaderElectionProofs ------------------------
(***************************************************************************)
(* The safety of LeaderElection, for any number of controllers: its types, *)
(* the roles, links and coups of ElectionInv, and that the election        *)
(* implements Leadership.  Each part of the invariant has a lemma with one *)
(* step per action that can disturb it.                                    *)
(***************************************************************************)
EXTENDS LeaderElection, TLAPS

USE ConstantsAssumption

-----------------------------------------------------------------------------
(* Types: the data and the helpers. *)

\* A cleared map and a cleared entry are in their types.
LEMMA DataTypes ==
  /\ NoEntry \in Entry
  /\ [r \in Node |-> NoEntry] \in [Node -> Entry]
BY DEF Entry, NoEntry

\* What a step leaves alone keeps its type.
LEMMA UnchangedTypes ==
  ASSUME TypeOK
  PROVE  /\ UNCHANGED threadVars => ThreadTypes'
         /\ UNCHANGED alarmVars => AlarmTypes'
         /\ UNCHANGED roleVars => RoleTypes'
         /\ UNCHANGED flagVars => FlagTypes'
         /\ UNCHANGED linkVars => LinkTypes'
         /\ UNCHANGED eventVars => EventTypes'
         /\ UNCHANGED hostVars => HostTypes'
         /\ UNCHANGED netVars => NetTypes'
         /\ UNCHANGED controllersMap =>
              controllersMap' \in [Node -> [Node -> Entry]]
         /\ UNCHANGED upComingLeader =>
              upComingLeader' \in [Node -> Ctl \cup {NoCtl}]
         /\ UNCHANGED overThrowList => overThrowList' \in [Node -> SUBSET Node]
BY DEF TypeOK, ThreadTypes, AlarmTypes, RoleTypes, FlagTypes, LinkTypes,
  EventTypes, HostTypes, NetTypes, threadVars, alarmVars, roleVars, flagVars,
  linkVars, eventVars, hostVars, netVars

\* Erasing the entry of a controller, or of none, leaves a map.
LEMMA EraseLeaderType ==
  ASSUME NEW map \in [Node -> Entry], NEW c \in Ctl \cup {NoCtl}
  PROVE  EraseLeader(map, c) \in [Node -> Entry]
BY DataTypes DEF EraseLeader, Ctl, NoCtl

\* A known controller has a timestamp, so its entry names a controller.
LEMMA CtlOfType ==
  ASSUME TypeOK, NEW n \in Node, NEW r \in Known(n)
  PROVE  CtlOf(n, r) \in Ctl
BY DEF TypeOK, CtlOf, Known, Ctl, Entry

\* Posting stays below the bound of the semaphore.
LEMMA PostType ==
  ASSUME TypeOK, NEW n \in Node, Post(n)
  PROVE  wakeSem' \in [Node -> 0 .. MaxWake]
BY DEF TypeOK, ThreadTypes, Post, ConstantsAssumption

\* Turning the alarm on or off.
LEMMA SetAlarmType ==
  ASSUME TypeOK, NEW n \in Node, NEW on \in BOOLEAN, SetAlarm(n, on)
  PROVE  alarmOn' \in [Node -> BOOLEAN]
BY DEF TypeOK, AlarmTypes, SetAlarm

\* The end of a pass puts the thread in one of its places.
LEMMA EndPassType ==
  ASSUME TypeOK, NEW n \in Node, NEW loopBack, EndPass(n, loopBack)
  PROVE  pc' \in [Node -> {"off", "wait", "loop", "alarm"}]
BY DEF TypeOK, ThreadTypes, EndPass

\* Announcing a value of the leader flag.
LEMMA SetIsLeaderType ==
  ASSUME TypeOK, NEW n \in Node, NEW val \in BOOLEAN, SetIsLeader(n, val)
  PROVE  /\ about' \in [Node -> BOOLEAN]
         /\ undelivered' \in [Node -> SUBSET Node]
<1>1. about' \in [Node -> BOOLEAN]
  BY DEF TypeOK, RoleTypes, SetIsLeader
<1>2. undelivered' \in [Node -> SUBSET Node]
  BY DEF TypeOK, RoleTypes, SetIsLeader
<1> QED BY <1>1, <1>2

\* Taking over keeps the types of the roles it changes.
LEMMA TakeOverType ==
  ASSUME TypeOK, NEW n \in Node, TakeOver(n)
  PROVE  /\ RoleTypes'
         /\ okToSetAlarm' \in [Node -> BOOLEAN]
         /\ alarmOn' \in [Node -> BOOLEAN]
<1>1. SetIsLeader(n, TRUE) /\ SetAlarm(n, FALSE)
  BY DEF TakeOver
<1> QED
  BY <1>1, SetIsLeaderType, SetAlarmType
  DEF TypeOK, RoleTypes, FlagTypes, TakeOver

\* The sessions a host ends, and the events that tell its members.
LEMMA HostLeavesType ==
  ASSUME TypeOK, NEW n \in Node, NEW old \in [Node -> SUBSET Sid],
         HostLeaves(n, old)
  PROVE  /\ sessions' \in [Node -> SUBSET Sid]
         /\ ending' \in [Node -> SUBSET Ending]
<1> DEFINE members == {m \in Node : \E s \in old[m] : s.host = n}
           kind == IF ~ Apps /\ Cardinality(members) = 1
                   THEN "lost" ELSE "removed"
<1>1. sessions' \in [Node -> SUBSET Sid]
  BY DEF HostLeaves
<1>2. kind \in {"lost", "removed"}
  OBVIOUS
<1>3. ending' = [m \in Node |-> ending[m] \cup
          {[sid |-> s, kind |-> kind] : s \in {q \in old[m] : q.host = n}}]
  BY DEF HostLeaves
<1> HIDE DEF kind
<1>4. ending' \in [Node -> SUBSET Ending]
  BY <1>2, <1>3 DEF TypeOK, NetTypes, Ending
<1> QED BY <1>1, <1>4

\* Stepping down ends the sessions and clears the role.
LEMMA StepDownType ==
  ASSUME TypeOK, NEW n \in Node, StepDown(n)
  PROVE  /\ sessions' \in [Node -> SUBSET Sid]
         /\ ending' \in [Node -> SUBSET Ending]
         /\ RoleTypes'
         /\ upComingLeader' \in [Node -> Ctl \cup {NoCtl}]
         /\ alarmOn' \in [Node -> BOOLEAN]
<1>1. HostLeaves(n, sessions) /\ SetIsLeader(n, FALSE) /\ SetAlarm(n, FALSE)
  BY DEF StepDown
<1>2. sessions \in [Node -> SUBSET Sid]
  BY DEF TypeOK, NetTypes
<1>3. /\ sessions' \in [Node -> SUBSET Sid]
      /\ ending' \in [Node -> SUBSET Ending]
  BY <1>1, <1>2, HostLeavesType
<1>4. RoleTypes'
  BY <1>1, SetIsLeaderType DEF TypeOK, RoleTypes, StepDown
<1>5. upComingLeader' \in [Node -> Ctl \cup {NoCtl}]
  BY DEF TypeOK, StepDown
<1>6. alarmOn' \in [Node -> BOOLEAN]
  BY <1>1, SetAlarmType
<1> QED BY <1>3, <1>4, <1>5, <1>6

\* Leaving sessions, or failing to, adds none.
LEMMA LeaveSessionsType ==
  ASSUME TypeOK, NEW n \in Node, NEW sids, LeaveSessions(n, sids)
  PROVE  sessions' \in [Node -> SUBSET Sid]
BY DEF TypeOK, NetTypes, LeaveSessions

\* The state an elector forgets when it stops.
LEMMA ClearStateType ==
  ASSUME TypeOK, NEW n \in Node, ClearState(n)
  PROVE  /\ AlarmTypes' /\ FlagTypes' /\ LinkTypes' /\ EventTypes'
         /\ controllersMap' \in [Node -> [Node -> Entry]]
         /\ upComingLeader' \in [Node -> Ctl \cup {NoCtl}]
         /\ overThrowList' \in [Node -> SUBSET Node]
BY DataTypes DEF TypeOK, AlarmTypes, FlagTypes, LinkTypes, EventTypes,
  ClearState, SetAlarm

\* Answering calls keeps them calls.
LEMMA AnsweredType ==
  ASSUME TypeOK, NEW n \in Node, NEW granted, Answered(n, granted)
  PROVE  calls' \subseteq Call
<1> SUFFICES ASSUME NEW c \in calls
             PROVE  (IF c.to = n /\ c.st = "queued"
                     THEN [c EXCEPT !.st = IF c.from \in granted THEN "granted"
                                           ELSE "refused"]
                     ELSE c) \in Call
  BY DEF Answered
<1>1. c \in Call
  BY DEF TypeOK, NetTypes
<1> QED BY <1>1 DEF Call

\* The calls of a controller go to the host of the session it joined.
LEMMA NextCallType ==
  ASSUME TypeOK, NEW n \in Node, proxyObj[n] # NoSid,
         NEW kind \in {"checksum", "blob", "overthrow"}
  PROVE  [from |-> n, to |-> proxyObj[n].host, kind |-> kind, st |-> "sent"]
           \in Call
BY DEF TypeOK, LinkTypes, Sid, Call

\* What a reply that ends a handshake, or goes on with it, does to the calls.
LEMMA GotOverthrowReplyType ==
  ASSUME TypeOK, NEW n \in Node, GotOverthrowReply(n)
  PROVE  /\ wakeSem' \in [Node -> 0 .. MaxWake]
         /\ gotOverthrowReply' \in [Node -> BOOLEAN]
BY PostType DEF TypeOK, FlagTypes, GotOverthrowReply

\* What follows the last blob: no call, or an Overthrow.
LEMMA SyncFinishedType ==
  ASSUME TypeOK, NEW c \in calls, SyncFinished(c)
  PROVE  /\ calls' \subseteq Call
         /\ wakeSem' \in [Node -> 0 .. MaxWake]
         /\ gotOverthrowReply' \in [Node -> BOOLEAN]
<1>1. c.from \in Node /\ calls \subseteq Call
  BY DEF TypeOK, NetTypes, Call
<1>2. calls' \subseteq Call
  <2>1. ASSUME proxyObj[c.from] # NoSid
        PROVE  [from |-> c.from, to |-> proxyObj[c.from].host,
                kind |-> "overthrow", st |-> "sent"] \in Call
    BY <1>1, <2>1, NextCallType
  <2> QED BY <1>1, <2>1 DEF SyncFinished
<1>3. /\ wakeSem \in [Node -> 0 .. MaxWake]
      /\ gotOverthrowReply \in [Node -> BOOLEAN]
  BY DEF TypeOK, ThreadTypes, FlagTypes
<1>4. \/ UNCHANGED <<gotOverthrowReply, wakeSem>>
      \/ GotOverthrowReply(c.from)
  BY DEF SyncFinished
<1> QED BY <1>1, <1>2, <1>3, <1>4, GotOverthrowReplyType

-----------------------------------------------------------------------------
(* Types: the actions. *)

\* The elector is started.  Types are kept.
LEMMA ConnectedType ==
  ASSUME TypeOK, NEW n \in Node, Connected(n)
  PROVE  TypeOK'
BY UnchangedTypes, PostType
DEF TypeOK, ThreadTypes, RoleTypes, Connected, threadVars, roleVars

\* The elector is told to stop.  Types are kept.
LEMMA StopType ==
  ASSUME TypeOK, NEW n \in Node, Stop(n)
  PROVE  TypeOK'
BY UnchangedTypes, PostType
DEF TypeOK, ThreadTypes, RoleTypes, HostTypes, Stop, threadVars, roleVars,
  hostVars

\* The thread wakes up.  Types are kept.
LEMMA WakeUpType ==
  ASSUME TypeOK, NEW n \in Node, WakeUp(n)
  PROVE  TypeOK'
BY UnchangedTypes DEF TypeOK, ThreadTypes, WakeUp, threadVars

\* The stopped thread clears the state.  Types are kept.
LEMMA ShutDownType ==
  ASSUME TypeOK, NEW n \in Node, ShutDown(n)
  PROVE  TypeOK'
<1>1. ClearState(n) /\ ThreadTypes'
  BY DEF TypeOK, ThreadTypes, ShutDown, ConstantsAssumption
<1>2. /\ sessions' \in [Node -> SUBSET Sid]
      /\ ending' \in [Node -> SUBSET Ending]
      /\ RoleTypes'
  <2>1. CASE isLeader[n]
    <3>1. /\ HostLeaves(n, sessions)
          /\ SetIsLeader(n, FALSE)
          /\ updatesAllowed' = [updatesAllowed EXCEPT ![n] = FALSE]
          /\ isLeader' = [isLeader EXCEPT ![n] = FALSE]
      BY <2>1 DEF ShutDown
    <3>2. sessions \in [Node -> SUBSET Sid]
      BY DEF TypeOK, NetTypes
    <3>3. /\ sessions' \in [Node -> SUBSET Sid]
          /\ ending' \in [Node -> SUBSET Ending]
      BY <3>1, <3>2, HostLeavesType
    <3>4. RoleTypes'
      BY <3>1, SetIsLeaderType DEF TypeOK, RoleTypes
    <3> QED BY <3>3, <3>4
  <2>2. CASE ~ isLeader[n]
    <3>1. LeaveSessions(n, {proxyObj[n]}) /\ UNCHANGED <<roleVars, ending>>
      BY <2>2 DEF ShutDown
    <3> QED
      BY <3>1, LeaveSessionsType, UnchangedTypes DEF TypeOK, NetTypes
  <2> QED BY <2>1, <2>2
<1> QED
  BY <1>1, <1>2, ClearStateType, UnchangedTypes DEF TypeOK, NetTypes, ShutDown

\* The leader grants an Overthrow.  Types are kept.
LEMMA OverthrownType ==
  ASSUME TypeOK, NEW n \in Node, Overthrown(n)
  PROVE  TypeOK'
BY UnchangedTypes, AnsweredType, StepDownType, EndPassType
DEF TypeOK, ThreadTypes, AlarmTypes, RoleTypes, NetTypes, Overthrown,
  threadVars, alarmVars, roleVars, netVars

\* The leader yields to a higher one.  Types are kept.
LEMMA OutrankedType ==
  ASSUME TypeOK, NEW n \in Node, Outranked(n)
  PROVE  TypeOK'
BY UnchangedTypes, AnsweredType, StepDownType, EndPassType
DEF TypeOK, ThreadTypes, AlarmTypes, RoleTypes, NetTypes, Outranked,
  threadVars, alarmVars, roleVars, netVars

\* The leader looks for challengers.  Types are kept.
LEMMA CheckChallengersType ==
  ASSUME TypeOK, NEW n \in Node, CheckChallengers(n)
  PROVE  TypeOK'
<1>1. upComingLeader' \in [Node -> Ctl \cup {NoCtl}]
  <2>1. ASSUME NEW r \in Node, Highest(r, Challengers(n)),
               upComingLeader' = [upComingLeader EXCEPT ![n] = CtlOf(n, r)]
        PROVE  upComingLeader' \in [Node -> Ctl \cup {NoCtl}]
    BY <2>1, CtlOfType DEF TypeOK, Highest, Challengers
  <2> QED
    BY <2>1 DEF TypeOK, CheckChallengers
<1>2. RoleTypes'
  BY DEF TypeOK, RoleTypes, CheckChallengers
<1>3. AlarmTypes'
  BY DEF TypeOK, AlarmTypes, SetAlarm, CheckChallengers
<1>4. ThreadTypes'
  <2>1. CASE EndPass(n, FALSE)
    BY <2>1, EndPassType DEF TypeOK, ThreadTypes, CheckChallengers
  <2>2. CASE pc' = [pc EXCEPT ![n] = "alarm"]
    BY <2>2 DEF TypeOK, ThreadTypes, CheckChallengers
  <2> QED BY <2>1, <2>2 DEF CheckChallengers
<1>5. calls' \subseteq Call
  BY AnsweredType DEF CheckChallengers
<1> QED
  BY <1>1, <1>2, <1>3, <1>4, <1>5, UnchangedTypes
  DEF TypeOK, NetTypes, CheckChallengers

\* The leader looks at its alarm.  Types are kept.
LEMMA CheckAlarmType ==
  ASSUME TypeOK, NEW n \in Node, CheckAlarm(n)
  PROVE  TypeOK'
<1> DEFINE up == upComingLeader[n]
           givesUp == /\ alarmTriggered[n]
                      /\ up.rank \in Known(n)
                      /\ ~ controllersMap[n][up.rank].leader
<1>1. /\ controllersMap' \in [Node -> [Node -> Entry]]
      /\ upComingLeader' \in [Node -> Ctl \cup {NoCtl}]
      /\ RoleTypes'
  <2>1. CASE givesUp
    <3>1. up.rank \in Node
      BY <2>1 DEF Known
    <3>2. /\ controllersMap' = [controllersMap EXCEPT ![n][up.rank] =
                                  IF @.ts = up.ts THEN NoEntry ELSE @]
          /\ upComingLeader' = [upComingLeader EXCEPT ![n] = NoCtl]
          /\ updatesAllowed' = [updatesAllowed EXCEPT ![n] = TRUE]
      BY <2>1 DEF CheckAlarm
    <3>3. controllersMap' \in [Node -> [Node -> Entry]]
      BY <3>1, <3>2, DataTypes DEF TypeOK
    <3> QED
      BY <3>2, <3>3 DEF TypeOK, RoleTypes, CheckAlarm
  <2>2. CASE ~ givesUp
    <3>1. UNCHANGED <<controllersMap, upComingLeader, updatesAllowed>>
      BY <2>2 DEF CheckAlarm
    <3> QED
      BY <3>1, UnchangedTypes DEF TypeOK, RoleTypes, CheckAlarm
  <2> QED BY <2>1, <2>2
<1>2. AlarmTypes'
  BY DEF TypeOK, AlarmTypes, CheckAlarm
<1>3. ThreadTypes'
  BY EndPassType DEF TypeOK, ThreadTypes, CheckAlarm
<1> QED
  BY <1>1, <1>2, <1>3, UnchangedTypes DEF TypeOK, CheckAlarm

\* The challenger takes over.  Types are kept.
LEMMA TakeOverAfterReplyType ==
  ASSUME TypeOK, NEW n \in Node, TakeOverAfterReply(n)
  PROVE  TypeOK'
BY UnchangedTypes, LeaveSessionsType, EraseLeaderType, TakeOverType,
  EndPassType
DEF TypeOK, ThreadTypes, AlarmTypes, FlagTypes, LinkTypes, NetTypes,
  TakeOverAfterReply, threadVars, alarmVars, flagVars, linkVars, netVars

\* The election starts.  Types are kept.
LEMMA StartElectionType ==
  ASSUME TypeOK, NEW n \in Node, StartElection(n)
  PROVE  TypeOK'
BY UnchangedTypes, SetIsLeaderType, SetAlarmType, EndPassType
DEF TypeOK, ThreadTypes, AlarmTypes, RoleTypes, FlagTypes, StartElection,
  threadVars, alarmVars, roleVars, flagVars

\* A follower joins a leader.  Types are kept.
LEMMA JoinLeaderType ==
  ASSUME TypeOK, NEW n \in Node, JoinLeader(n)
  PROVE  TypeOK'
<1>1. PICK r \in Node : JoinLeader(n)!2!(r)
  BY DEF JoinLeader
<1>2. CtlOf(n, r) \in Ctl
  BY <1>1, CtlOfType DEF Highest, Leaders
<1> UNCHANGED <<proxyObj, alarmTriggered, sessions, ending, calls>>
  BY DEF JoinLeader
<1>3. LinkTypes'
  <2>1. currentLeader' \in [Node -> Ctl \cup {NoCtl}]
    BY <1>1, <1>2 DEF TypeOK, LinkTypes
  <2>2. outGoingLeader' \in [Node -> Ctl \cup {NoCtl}]
    BY <1>1, <1>2 DEF TypeOK, LinkTypes
  <2> QED BY <2>1, <2>2 DEF TypeOK, LinkTypes
<1>4. NetTypes'
  <2>1. \/ joining' = [joining EXCEPT ![n] = @ \cup {CtlOf(n, r)}]
        \/ UNCHANGED joining
    BY <1>1
  <2>2. joining' \in [Node -> SUBSET Ctl]
    BY <1>2, <2>1 DEF TypeOK, NetTypes
  <2> QED BY <2>2 DEF TypeOK, NetTypes
<1>5. AlarmTypes'
  BY <1>1, SetAlarmType DEF TypeOK, AlarmTypes
<1>6. controllersMap' \in [Node -> [Node -> Entry]]
  <2>1. \/ controllersMap' = [controllersMap EXCEPT ![n][r] = NoEntry]
        \/ UNCHANGED controllersMap
    BY <1>1
  <2> QED BY <2>1, DataTypes DEF TypeOK
<1>7. FlagTypes' /\ ThreadTypes'
  BY EndPassType DEF TypeOK, FlagTypes, ThreadTypes, JoinLeader
<1> QED
  BY <1>3, <1>4, <1>5, <1>6, <1>7, UnchangedTypes DEF TypeOK, JoinLeader

\* A controller takes over, knowing no leader.  Types are kept.
LEMMA TakeOverUnopposedType ==
  ASSUME TypeOK, NEW n \in Node, TakeOverUnopposed(n)
  PROVE  TypeOK'
BY UnchangedTypes, TakeOverType, EndPassType, DataTypes
DEF TypeOK, ThreadTypes, AlarmTypes, FlagTypes, TakeOverUnopposed,
  threadVars, alarmVars, flagVars

\* A controller goes on waiting for a leader.  Types are kept.
LEMMA KeepLookingType ==
  ASSUME TypeOK, NEW n \in Node, KeepLooking(n)
  PROVE  TypeOK'
BY UnchangedTypes, EndPassType
DEF TypeOK, ThreadTypes, KeepLooking, threadVars

\* The leader could not be joined.  Types are kept.
LEMMA ConnectFailedType ==
  ASSUME TypeOK, NEW n \in Node, ConnectFailed(n)
  PROVE  TypeOK'
<1>1. ThreadTypes' /\ EventTypes'
  BY EndPassType DEF TypeOK, ThreadTypes, EventTypes, ConnectFailed
<1>2. controllersMap' \in [Node -> [Node -> Entry]]
  <2>1. /\ EraseLeader(controllersMap[n], currentLeader[n]) \in [Node -> Entry]
        /\ EraseLeader(EraseLeader(controllersMap[n], outGoingLeader[n]),
                       currentLeader[n]) \in [Node -> Entry]
    BY EraseLeaderType DEF TypeOK, LinkTypes
  <2> QED
    BY <2>1 DEF TypeOK, ConnectFailed
<1>3. LinkTypes'
  BY DEF TypeOK, LinkTypes, ConnectFailed
<1>4. RoleTypes' /\ FlagTypes' /\ AlarmTypes'
  <2>1. CASE TakeOver(n)
    BY <2>1, TakeOverType DEF TypeOK, FlagTypes, AlarmTypes, ConnectFailed
  <2>2. CASE UNCHANGED <<roleVars, okToSetAlarm, alarmOn>>
    BY <2>2, UnchangedTypes DEF TypeOK, FlagTypes, AlarmTypes, ConnectFailed
  <2> QED BY <2>1, <2>2 DEF ConnectFailed
<1> QED
  BY <1>1, <1>2, <1>3, <1>4, UnchangedTypes DEF TypeOK, ConnectFailed

\* The bus says the session is joined.  Types are kept.
LEMMA ConnectAlreadyJoinedType ==
  ASSUME TypeOK, NEW n \in Node, ConnectAlreadyJoined(n)
  PROVE  TypeOK'
BY UnchangedTypes, EndPassType
DEF TypeOK, ThreadTypes, EventTypes, ConnectAlreadyJoined, threadVars,
  eventVars

\* The leader was joined.  Types are kept.
LEMMA ConnectSucceededType ==
  ASSUME TypeOK, NEW n \in Node, ConnectSucceeded(n)
  PROVE  TypeOK'
<1>1. PICK j \in RepliesOf(n, "ok") : ConnectSucceeded(n)!5!(j)
  BY DEF ConnectSucceeded
<1>2. j.sid \in Sid
  BY DEF TypeOK, EventTypes, RepliesOf, JoinReply
<1>3. [from |-> n, to |-> j.sid.host, kind |-> "checksum", st |-> "sent"]
        \in Call
  BY <1>2 DEF Sid, Call
<1>4. ThreadTypes' /\ EventTypes'
  BY EndPassType DEF TypeOK, ThreadTypes, EventTypes, ConnectSucceeded
<1>5. NetTypes'
  BY <1>1, <1>3, LeaveSessionsType DEF TypeOK, NetTypes, ConnectSucceeded
<1>6. LinkTypes'
  BY <1>1, <1>2 DEF TypeOK, LinkTypes
<1>7. controllersMap' \in [Node -> [Node -> Entry]]
  <2>1. EraseLeader(controllersMap[n], outGoingLeader[n]) \in [Node -> Entry]
    BY EraseLeaderType DEF TypeOK, LinkTypes
  <2> QED BY <1>1, <2>1 DEF TypeOK
<1>8. RoleTypes' /\ FlagTypes' /\ AlarmTypes'
  <2>1. CASE TakeOver(n)
    BY <2>1, TakeOverType DEF TypeOK, FlagTypes, AlarmTypes, ConnectSucceeded
  <2>2. CASE UNCHANGED <<roleVars, okToSetAlarm, alarmOn>>
    BY <2>2, UnchangedTypes DEF TypeOK, FlagTypes, AlarmTypes, ConnectSucceeded
  <2> QED BY <1>1, <2>1, <2>2
<1> QED
  BY <1>4, <1>5, <1>6, <1>7, <1>8, UnchangedTypes DEF TypeOK, ConnectSucceeded

\* No reply is about the leader.  Types are kept.
LEMMA ConnectPendingType ==
  ASSUME TypeOK, NEW n \in Node, ConnectPending(n)
  PROVE  TypeOK'
BY UnchangedTypes, EndPassType, LeaveSessionsType
DEF TypeOK, ThreadTypes, EventTypes, NetTypes, ConnectPending, threadVars,
  eventVars, netVars

\* The leader is gone.  Types are kept.
LEMMA LeaderLostType ==
  ASSUME TypeOK, NEW n \in Node, LeaderLost(n)
  PROVE  TypeOK'
BY UnchangedTypes, EraseLeaderType, EndPassType, LeaveSessionsType
DEF TypeOK, ThreadTypes, LinkTypes, EventTypes, NetTypes, LeaderLost,
  DropLeader, TakeSessionEvents, threadVars, linkVars, eventVars, netVars

\* A higher leader came up.  Types are kept.
LEMMA SwitchLeaderType ==
  ASSUME TypeOK, NEW n \in Node, SwitchLeader(n)
  PROVE  TypeOK'
BY UnchangedTypes, EraseLeaderType, EndPassType, LeaveSessionsType
DEF TypeOK, ThreadTypes, LinkTypes, EventTypes, NetTypes, SwitchLeader,
  DropLeader, TakeSessionEvents, threadVars, linkVars, eventVars, netVars

\* The leader stays.  Types are kept.
LEMMA StayWithLeaderType ==
  ASSUME TypeOK, NEW n \in Node, StayWithLeader(n)
  PROVE  TypeOK'
BY UnchangedTypes, EndPassType
DEF TypeOK, ThreadTypes, EventTypes, StayWithLeader, TakeSessionEvents,
  threadVars, eventVars

\* An announcement arrives.  Types are kept.
LEMMA AnnouncedType ==
  ASSUME TypeOK, NEW n \in Node, NEW r \in undelivered[n], Announced(n, r)
  PROVE  TypeOK'
<1>1. r \in Node /\ about[r] \in BOOLEAN
  BY DEF TypeOK, RoleTypes
<1>2. controllersMap' \in [Node -> [Node -> Entry]]
  <2>1. PICK t \in Stamps :
          controllersMap' = [controllersMap EXCEPT ![n][r] =
                               [leader |-> about[r], ts |-> t]]
    BY DEF Announced
  <2>2. [leader |-> about[r], ts |-> t] \in Entry
    BY <1>1 DEF Entry
  <2> QED BY <1>1, <2>1, <2>2 DEF TypeOK
<1>3. AlarmTypes'
  BY DEF TypeOK, AlarmTypes, Announced
<1>4. ThreadTypes'
  BY PostType DEF TypeOK, ThreadTypes, Announced
<1>5. RoleTypes'
  BY DEF TypeOK, RoleTypes, Announced
<1> QED
  BY <1>2, <1>3, <1>4, <1>5, UnchangedTypes DEF TypeOK, Announced

\* The alarm expires.  Types are kept.
LEMMA AlarmTriggeredType ==
  ASSUME TypeOK, NEW n \in Node, AlarmTriggered(n)
  PROVE  TypeOK'
BY UnchangedTypes, PostType, SetAlarmType
DEF TypeOK, ThreadTypes, AlarmTypes, AlarmTriggered, threadVars, alarmVars

\* A JoinSession reply arrives.  Types are kept.
LEMMA OnSessionJoinedType ==
  ASSUME TypeOK, NEW n \in Node, NEW c \in joining[n], OnSessionJoined(n, c)
  PROVE  TypeOK'
BY UnchangedTypes, PostType
DEF TypeOK, ThreadTypes, EventTypes, NetTypes, OnSessionJoined, JoinOutcome,
  JoinReply, Ctl, Sid, RepliesOf, threadVars, eventVars, netVars

\* A session is lost.  Types are kept.
LEMMA OnSessionLostType ==
  ASSUME TypeOK, NEW n \in Node, NEW e \in ending[n], OnSessionLost(n, e)
  PROVE  TypeOK'
BY UnchangedTypes, PostType
DEF TypeOK, ThreadTypes, EventTypes, NetTypes, OnSessionLost, Ending,
  threadVars, eventVars, netVars

\* A member left a session.  Types are kept.
LEMMA OnSessionMemberRemovedType ==
  ASSUME TypeOK, NEW n \in Node, NEW e \in ending[n], OnSessionMemberRemoved(n, e)
  PROVE  TypeOK'
BY UnchangedTypes, PostType
DEF TypeOK, ThreadTypes, EventTypes, NetTypes, OnSessionMemberRemoved,
  Ending, Removed, Removal, Sid, threadVars, eventVars, netVars

\* A client application leaves.  Types are kept.
LEMMA AppLeavesType ==
  ASSUME TypeOK, NEW n \in Node, AppLeaves(n)
  PROVE  TypeOK'
BY UnchangedTypes, PostType
DEF TypeOK, ThreadTypes, EventTypes, NetTypes, AppLeaves, Removed, Removal,
  threadVars, eventVars, netVars

\* A controller announces itself again.  Types are kept.
LEMMA ReAnnounceType ==
  ASSUME TypeOK, NEW n \in Node, ReAnnounce(n)
  PROVE  TypeOK'
BY UnchangedTypes, SetIsLeaderType
DEF TypeOK, RoleTypes, ReAnnounce, roleVars

\* A controller dies.  Types are kept.
LEMMA CrashType ==
  ASSUME TypeOK, NEW n \in Node, Crash(n)
  PROVE  TypeOK'
<1>1. [sessions EXCEPT ![n] = {}] \in [Node -> SUBSET Sid]
  BY DEF TypeOK, NetTypes
<1>2. NetTypes'
  BY <1>1, HostLeavesType DEF TypeOK, NetTypes, Crash
<1>3. ThreadTypes' /\ HostTypes'
  BY DEF TypeOK, ThreadTypes, HostTypes, Crash, ConstantsAssumption
<1>4. RoleTypes'
  BY DEF TypeOK, RoleTypes, Crash
<1> QED
  BY <1>2, <1>3, <1>4, ClearStateType DEF TypeOK, Crash

\* The leader answers a synchronisation call.  Types are kept.
LEMMA ServeStateSyncType ==
  ASSUME TypeOK, NEW c \in calls, ServeStateSync(c)
  PROVE  TypeOK'
BY UnchangedTypes
DEF TypeOK, AlarmTypes, NetTypes, ServeStateSync, Call, alarmVars, netVars

\* The leader queues an Overthrow.  Types are kept.
LEMMA OverthrowType ==
  ASSUME TypeOK, NEW c \in calls, Overthrow(c)
  PROVE  TypeOK'
<1>1. c \in Call /\ c.to \in Node /\ c.from \in Node
  BY DEF TypeOK, NetTypes, Call
<1>2. NetTypes'
  BY <1>1 DEF TypeOK, NetTypes, Overthrow, Call
<1>3. ThreadTypes'
  BY <1>1, PostType DEF TypeOK, ThreadTypes, Overthrow
<1>4. AlarmTypes'
  BY <1>1 DEF TypeOK, AlarmTypes, Overthrow
<1>5. overThrowList' \in [Node -> SUBSET Node]
  BY <1>1 DEF TypeOK, Overthrow
<1> QED
  BY <1>2, <1>3, <1>4, <1>5, UnchangedTypes DEF TypeOK, Overthrow

\* The checksums arrive.  Types are kept.
LEMMA OnGetChecksumAndModificationTimestampReplyType ==
  ASSUME TypeOK, NEW c \in calls, OnGetChecksumAndModificationTimestampReply(c)
  PROVE  TypeOK'
<1>1. c.from \in Node /\ calls \subseteq Call
  BY DEF TypeOK, NetTypes, Call
<1>2. calls' \subseteq Call
  <2>1. ASSUME proxyObj[c.from] # NoSid
        PROVE  [from |-> c.from, to |-> proxyObj[c.from].host,
                kind |-> "blob", st |-> "sent"] \in Call
    BY <1>1, <2>1, NextCallType
  <2> QED
    BY <1>1, <2>1 DEF OnGetChecksumAndModificationTimestampReply
<1>3. ThreadTypes' /\ FlagTypes'
  <2>1. CASE GotOverthrowReply(c.from)
    BY <1>1, <2>1, GotOverthrowReplyType
    DEF TypeOK, ThreadTypes, FlagTypes,
      OnGetChecksumAndModificationTimestampReply
  <2>2. CASE UNCHANGED <<gotOverthrowReply, wakeSem>>
    BY <2>2 DEF TypeOK, ThreadTypes, FlagTypes,
      OnGetChecksumAndModificationTimestampReply
  <2> QED BY <2>1, <2>2 DEF OnGetChecksumAndModificationTimestampReply
<1> QED
  BY <1>2, <1>3, UnchangedTypes
  DEF TypeOK, NetTypes, OnGetChecksumAndModificationTimestampReply

\* The blobs arrive.  Types are kept.
LEMMA OnGetBlobReplyType ==
  ASSUME TypeOK, NEW c \in calls, OnGetBlobReply(c)
  PROVE  TypeOK'
BY UnchangedTypes, SyncFinishedType
DEF TypeOK, ThreadTypes, FlagTypes, NetTypes, OnGetBlobReply, threadVars,
  flagVars, netVars

\* The answer to an Overthrow arrives.  Types are kept.
LEMMA OnOverthrowReplyType ==
  ASSUME TypeOK, NEW c \in calls, OnOverthrowReply(c)
  PROVE  TypeOK'
BY UnchangedTypes, GotOverthrowReplyType
DEF TypeOK, ThreadTypes, FlagTypes, NetTypes, OnOverthrowReply, Call,
  threadVars, flagVars, netVars

\* A call fails.  Types are kept.
LEMMA OnErrorReplyType ==
  ASSUME TypeOK, NEW c \in calls, OnErrorReply(c)
  PROVE  TypeOK'
<1>1. c.from \in Node /\ calls \subseteq Call
  BY DEF TypeOK, NetTypes, Call
<1>2. /\ calls' \subseteq Call
      /\ wakeSem' \in [Node -> 0 .. MaxWake]
      /\ gotOverthrowReply' \in [Node -> BOOLEAN]
  <2>1. CASE c.kind = "blob"
    BY <2>1, SyncFinishedType DEF OnErrorReply
  <2>2. CASE c.kind # "blob"
    BY <1>1, <2>2, GotOverthrowReplyType DEF OnErrorReply
  <2> QED BY <2>1, <2>2
<1> QED
  BY <1>2, UnchangedTypes
  DEF TypeOK, ThreadTypes, FlagTypes, NetTypes, OnErrorReply

-----------------------------------------------------------------------------
(* Types: the specification. *)

\* The actions of Next, one by one, for the case distinctions below.
Step ==
  \/ \E n \in Node :
       \/ Connected(n) \/ Stop(n)
       \/ WakeUp(n) \/ ShutDown(n)
       \/ Overthrown(n) \/ Outranked(n) \/ CheckChallengers(n)
       \/ CheckAlarm(n) \/ TakeOverAfterReply(n) \/ StartElection(n)
       \/ JoinLeader(n) \/ TakeOverUnopposed(n) \/ KeepLooking(n)
       \/ ConnectFailed(n) \/ ConnectAlreadyJoined(n)
       \/ ConnectSucceeded(n) \/ ConnectPending(n)
       \/ LeaderLost(n) \/ SwitchLeader(n) \/ StayWithLeader(n)
       \/ AlarmTriggered(n) \/ AppLeaves(n) \/ ReAnnounce(n) \/ Crash(n)
       \/ \E r \in undelivered[n] : Announced(n, r)
       \/ \E c \in joining[n] : OnSessionJoined(n, c)
       \/ \E e \in ending[n] : OnSessionLost(n, e)
       \/ \E e \in ending[n] : OnSessionMemberRemoved(n, e)
  \/ \E c \in calls :
       \/ ServeStateSync(c) \/ Overthrow(c)
       \/ OnGetChecksumAndModificationTimestampReply(c)
       \/ OnGetBlobReply(c) \/ OnOverthrowReply(c) \/ OnErrorReply(c)

\* Next, with Run opened.
LEMMA NextIsStep == Next => Step
BY DEF Next, Step, Run

\* Initially every variable has its type.
LEMMA InitType == Init => TypeOK
BY DataTypes DEF Init, TypeOK, ThreadTypes, AlarmTypes, RoleTypes, FlagTypes,
  LinkTypes, EventTypes, HostTypes, NetTypes, ConstantsAssumption

\* Every action keeps the types.
LEMMA StepType ==
  ASSUME TypeOK, Step
  PROVE  TypeOK'
<1>1. ASSUME NEW n \in Node,
             \/ WakeUp(n) \/ ShutDown(n) \/ Overthrown(n) \/ Outranked(n)
             \/ CheckChallengers(n) \/ CheckAlarm(n)
             \/ TakeOverAfterReply(n) \/ StartElection(n) \/ JoinLeader(n)
             \/ TakeOverUnopposed(n) \/ KeepLooking(n) \/ ConnectFailed(n)
             \/ ConnectAlreadyJoined(n) \/ ConnectSucceeded(n)
             \/ ConnectPending(n) \/ LeaderLost(n) \/ SwitchLeader(n)
             \/ StayWithLeader(n)
      PROVE  TypeOK'
  BY <1>1,
    WakeUpType, ShutDownType, OverthrownType, OutrankedType,
    CheckChallengersType, CheckAlarmType, TakeOverAfterReplyType,
    StartElectionType, JoinLeaderType, TakeOverUnopposedType,
    KeepLookingType, ConnectFailedType, ConnectAlreadyJoinedType,
    ConnectSucceededType, ConnectPendingType, LeaderLostType,
    SwitchLeaderType, StayWithLeaderType
<1>2. ASSUME NEW n \in Node,
             \/ Connected(n) \/ Stop(n) \/ AlarmTriggered(n) \/ AppLeaves(n)
             \/ ReAnnounce(n) \/ Crash(n)
             \/ \E r \in undelivered[n] : Announced(n, r)
             \/ \E c \in joining[n] : OnSessionJoined(n, c)
             \/ \E e \in ending[n] : OnSessionLost(n, e)
             \/ \E e \in ending[n] : OnSessionMemberRemoved(n, e)
      PROVE  TypeOK'
  BY <1>2,
    ConnectedType, StopType, AlarmTriggeredType, AppLeavesType,
    ReAnnounceType, CrashType, AnnouncedType, OnSessionJoinedType,
    OnSessionLostType, OnSessionMemberRemovedType
<1>3. ASSUME NEW c \in calls,
             \/ ServeStateSync(c) \/ Overthrow(c)
             \/ OnGetChecksumAndModificationTimestampReply(c)
             \/ OnGetBlobReply(c) \/ OnOverthrowReply(c) \/ OnErrorReply(c)
      PROVE  TypeOK'
  BY <1>3,
    ServeStateSyncType, OverthrowType,
    OnGetChecksumAndModificationTimestampReplyType, OnGetBlobReplyType,
    OnOverthrowReplyType, OnErrorReplyType
<1> QED BY <1>1, <1>2, <1>3 DEF Step

\* The election keeps its state in its types: the coordination of callbacks
\* and the Run thread never leaves an entry, a session or a call malformed,
\* whatever the number of controllers and whichever calls fail.
THEOREM TypeInvariant == Spec => []TypeOK
<1>1. TypeOK /\ [Next]_vars => TypeOK'
  <2> SUFFICES ASSUME TypeOK, [Next]_vars PROVE TypeOK'
    OBVIOUS
  <2>1. CASE Next
    BY <2>1, NextIsStep, StepType
  <2>2. CASE UNCHANGED vars
    BY <2>2, UnchangedTypes DEF vars, TypeOK
  <2> QED BY <2>1, <2>2
<1> QED BY InitType, <1>1, PTL DEF Spec

-----------------------------------------------------------------------------
(* The inductive invariant.  FollowerIsPassive survives the alarm branch   *)
(* because only a leader gets there; LeaderFollowsNobody survives a take-  *)
(* over from Looking because a controller that knows no leader has no      *)
(* session with one.                                                       *)

AlarmBranchLeads == \A n \in Node : pc[n] = "alarm" => isLeader[n]

ProxyOfLeader ==
  \A n \in Node : currentLeader[n].rank = 0 => proxyObj[n] = NoSid

ElectionInv ==
  /\ TypeOK
  /\ UpdatesBlockedByChallengeOnly
  /\ FollowerIsPassive
  /\ LeaderFollowsNobody
  /\ CoupsGoUp
  /\ AlarmBranchLeads
  /\ ProxyOfLeader

RolesFit  == UpdatesBlockedByChallengeOnly /\ FollowerIsPassive
LinksFit  == LeaderFollowsNobody /\ ProxyOfLeader

-----------------------------------------------------------------------------
(* Roles: updatesAllowed, the challenger and the about data fit isLeader.  *)

\* A step that leaves the role of every controller alone.
LEMMA RolesKept ==
  ASSUME RolesFit, UNCHANGED <<isLeader, updatesAllowed, about, upComingLeader>>
  PROVE  RolesFit'
BY DEF RolesFit, UpdatesBlockedByChallengeOnly, FollowerIsPassive

\* A follower, which has no challenger, becomes a leader open to updates.
LEMMA TakeOverRoles ==
  ASSUME TypeOK, RolesFit, NEW n \in Node, ~ isLeader[n], TakeOver(n),
         UNCHANGED upComingLeader
  PROVE  RolesFit'
<1>1. UpdatesBlockedByChallengeOnly'
  BY DEF TypeOK, RoleTypes, TakeOver, RolesFit, FollowerIsPassive,
    UpdatesBlockedByChallengeOnly
<1>2. FollowerIsPassive'
  BY DEF TypeOK, RoleTypes, TakeOver, SetIsLeader, RolesFit, FollowerIsPassive
<1> QED BY <1>1, <1>2 DEF RolesFit

\* A leader becomes a follower and forgets its challenger.
LEMMA StepDownRoles ==
  ASSUME TypeOK, RolesFit, NEW n \in Node,
         updatesAllowed' = [updatesAllowed EXCEPT ![n] = FALSE],
         about' = [about EXCEPT ![n] = FALSE],
         isLeader' = [isLeader EXCEPT ![n] = FALSE],
         upComingLeader' = [upComingLeader EXCEPT ![n] = NoCtl]
  PROVE  RolesFit'
<1>1. UpdatesBlockedByChallengeOnly'
  BY DEF TypeOK, RoleTypes, RolesFit, UpdatesBlockedByChallengeOnly
<1>2. FollowerIsPassive'
  BY DEF TypeOK, RoleTypes, RolesFit, FollowerIsPassive, NoCtl
<1> QED BY <1>1, <1>2 DEF RolesFit

\* Noting a challenger closes the stores; it has a rank.
LEMMA CheckChallengersRoles ==
  ASSUME TypeOK, RolesFit, NEW n \in Node, CheckChallengers(n)
  PROVE  RolesFit'
<1>1. isLeader[n] /\ UNCHANGED <<isLeader, about>>
  BY DEF CheckChallengers
<1>2. CASE Challengers(n) # {}
  <2>1. PICK r \in Challengers(n) :
          /\ upComingLeader' = [upComingLeader EXCEPT ![n] = CtlOf(n, r)]
          /\ updatesAllowed' = [updatesAllowed EXCEPT ![n] = FALSE]
    BY <1>2 DEF CheckChallengers, Highest
  <2>2. CtlOf(n, r).rank # 0
    BY DEF CtlOf, Challengers, Known, ConstantsAssumption
  <2>3. UpdatesBlockedByChallengeOnly'
    BY <1>1, <2>1, <2>2
    DEF TypeOK, RoleTypes, RolesFit, UpdatesBlockedByChallengeOnly
  <2>4. FollowerIsPassive'
    BY <1>1, <2>1 DEF TypeOK, RoleTypes, RolesFit, FollowerIsPassive
  <2> QED BY <2>3, <2>4 DEF RolesFit
<1>3. CASE Challengers(n) = {}
  <2>1. UNCHANGED <<upComingLeader, updatesAllowed>>
    BY <1>3 DEF CheckChallengers, Highest
  <2> QED BY <1>1, <2>1, RolesKept
<1> QED BY <1>2, <1>3

\* Giving up on the challenger opens the stores.
LEMMA CheckAlarmRoles ==
  ASSUME TypeOK, RolesFit, AlarmBranchLeads, NEW n \in Node, CheckAlarm(n)
  PROVE  RolesFit'
<1>1. isLeader[n] /\ UNCHANGED <<isLeader, about>>
  BY DEF CheckAlarm, AlarmBranchLeads
<1>2. CASE UNCHANGED <<upComingLeader, updatesAllowed>>
  BY <1>1, <1>2, RolesKept
<1>3. CASE /\ upComingLeader' = [upComingLeader EXCEPT ![n] = NoCtl]
           /\ updatesAllowed' = [updatesAllowed EXCEPT ![n] = TRUE]
  <2>1. UpdatesBlockedByChallengeOnly'
    BY <1>1, <1>3
    DEF TypeOK, RoleTypes, RolesFit, UpdatesBlockedByChallengeOnly, NoCtl
  <2>2. FollowerIsPassive'
    BY <1>1, <1>3 DEF TypeOK, RoleTypes, RolesFit, FollowerIsPassive
  <2> QED BY <2>1, <2>2 DEF RolesFit
<1> QED BY <1>2, <1>3 DEF CheckAlarm

\* One step per action that changes a role; the others keep all of them.
LEMMA RolesStep ==
  ASSUME TypeOK, RolesFit, AlarmBranchLeads, Step
  PROVE  RolesFit'
<1>1. ASSUME NEW n \in Node, ShutDown(n) PROVE RolesFit'
  <2>1. CASE isLeader[n]
    BY <1>1, <2>1, StepDownRoles DEF ShutDown, SetIsLeader, ClearState
  <2>2. CASE ~ isLeader[n]
    <3>1. UNCHANGED roleVars
      BY <1>1, <2>2 DEF ShutDown
    <3>2. upComingLeader' = [upComingLeader EXCEPT ![n] = NoCtl]
      BY <1>1 DEF ShutDown, ClearState
    <3> QED
      BY <2>2, <3>1, <3>2 DEF TypeOK, RoleTypes, roleVars, RolesFit,
        UpdatesBlockedByChallengeOnly, FollowerIsPassive, NoCtl
  <2> QED BY <2>1, <2>2
<1>2. ASSUME NEW n \in Node, Overthrown(n) \/ Outranked(n) PROVE RolesFit'
  BY <1>2, StepDownRoles DEF Overthrown, Outranked, StepDown, SetIsLeader
<1>3. ASSUME NEW n \in Node, CheckChallengers(n) PROVE RolesFit'
  BY <1>3, CheckChallengersRoles
<1>4. ASSUME NEW n \in Node, CheckAlarm(n) PROVE RolesFit'
  BY <1>4, CheckAlarmRoles
<1>5. ASSUME NEW n \in Node, TakeOverAfterReply(n) \/ TakeOverUnopposed(n)
      PROVE RolesFit'
  BY <1>5, TakeOverRoles
  DEF TakeOverAfterReply, TakeOverUnopposed, Looking, Following
<1>6. ASSUME NEW n \in Node, StartElection(n) PROVE RolesFit'
  BY <1>6 DEF StartElection, SetIsLeader, TypeOK, RoleTypes, RolesFit,
    UpdatesBlockedByChallengeOnly, FollowerIsPassive
<1>7. ASSUME NEW n \in Node, ConnectFailed(n) \/ ConnectSucceeded(n)
      PROVE RolesFit'
  <2>1. ~ isLeader[n] /\ UNCHANGED upComingLeader
    BY <1>7 DEF ConnectFailed, ConnectSucceeded, Connecting, Following
  <2>2. TakeOver(n) \/ UNCHANGED roleVars
    BY <1>7 DEF ConnectFailed, ConnectSucceeded
  <2> QED BY <2>1, <2>2, TakeOverRoles, RolesKept DEF roleVars
<1>8. ASSUME NEW n \in Node, ReAnnounce(n) PROVE RolesFit'
  BY <1>8, RolesKept DEF ReAnnounce, SetIsLeader, TypeOK, RoleTypes
<1>9. ASSUME NEW n \in Node, Crash(n) PROVE RolesFit'
  BY <1>9, StepDownRoles DEF Crash, ClearState
<1>10. ASSUME NEW n \in Node,
              \/ Connected(n) \/ Stop(n) \/ WakeUp(n) \/ JoinLeader(n)
              \/ KeepLooking(n) \/ ConnectAlreadyJoined(n)
              \/ ConnectPending(n) \/ LeaderLost(n) \/ SwitchLeader(n)
              \/ StayWithLeader(n) \/ AlarmTriggered(n) \/ AppLeaves(n)
       PROVE RolesFit'
  BY <1>10, RolesKept DEF Connected, Stop, WakeUp, JoinLeader, KeepLooking,
    ConnectAlreadyJoined, ConnectPending, LeaderLost, SwitchLeader,
    StayWithLeader, AlarmTriggered, AppLeaves, roleVars
<1>11. ASSUME NEW n \in Node,
              \/ \E r \in undelivered[n] : Announced(n, r)
              \/ \E c \in joining[n] : OnSessionJoined(n, c)
              \/ \E e \in ending[n] : OnSessionLost(n, e)
              \/ \E e \in ending[n] : OnSessionMemberRemoved(n, e)
       PROVE RolesFit'
  BY <1>11, RolesKept DEF Announced, OnSessionJoined, JoinOutcome,
    OnSessionLost, OnSessionMemberRemoved, roleVars
<1>12. ASSUME NEW c \in calls,
              \/ ServeStateSync(c) \/ Overthrow(c)
              \/ OnGetChecksumAndModificationTimestampReply(c)
              \/ OnGetBlobReply(c) \/ OnOverthrowReply(c) \/ OnErrorReply(c)
       PROVE RolesFit'
  BY <1>12, RolesKept DEF ServeStateSync, Overthrow,
    OnGetChecksumAndModificationTimestampReply, OnGetBlobReply,
    OnOverthrowReply, OnErrorReply, roleVars
<1> QED
  BY <1>1, <1>2, <1>3, <1>4, <1>5, <1>6, <1>7, <1>8, <1>9, <1>10, <1>11,
    <1>12 DEF Step

-----------------------------------------------------------------------------
(* Links: a leader waits for no other leader and is in no session of one.  *)

\* A step that leaves the roles and the links alone.
LEMMA LinksKept ==
  ASSUME LinksFit, UNCHANGED <<isLeader, currentLeader, proxyObj>>
  PROVE  LinksFit'
BY DEF LinksFit, LeaderFollowsNobody, ProxyOfLeader

\* A controller that takes over has let go of its links, or had none.
LEMMA TakeOverLinks ==
  ASSUME TypeOK, LinksFit, NEW n \in Node, TakeOver(n),
         \/ /\ currentLeader' = [currentLeader EXCEPT ![n] = NoCtl]
            /\ proxyObj' = [proxyObj EXCEPT ![n] = NoSid]
         \/ /\ currentLeader' = [currentLeader EXCEPT ![n] = NoCtl]
            /\ proxyObj[n] = NoSid /\ UNCHANGED proxyObj
         \/ /\ currentLeader[n].rank = 0
            /\ UNCHANGED <<currentLeader, proxyObj>>
  PROVE  LinksFit'
BY DEF TypeOK, RoleTypes, LinkTypes, LinksFit, LeaderFollowsNobody,
  ProxyOfLeader, TakeOver, NoCtl

\* A controller that stops leading may keep what it has.
LEMMA StepDownLinks ==
  ASSUME TypeOK, LinksFit, NEW n \in Node,
         isLeader' = [isLeader EXCEPT ![n] = FALSE],
         UNCHANGED <<currentLeader, proxyObj>>
  PROVE  LinksFit'
BY DEF TypeOK, RoleTypes, LinksFit, LeaderFollowsNobody, ProxyOfLeader

\* A controller loses its links, whether it stops leading or not.
LEMMA DropLinks ==
  ASSUME TypeOK, LinksFit, NEW n \in Node,
         isLeader' = [isLeader EXCEPT ![n] = FALSE] \/ UNCHANGED isLeader,
         currentLeader' = [currentLeader EXCEPT ![n] = NoCtl],
         \/ proxyObj' = [proxyObj EXCEPT ![n] = NoSid]
         \/ proxyObj[n] = NoSid /\ UNCHANGED proxyObj
  PROVE  LinksFit'
BY DEF TypeOK, RoleTypes, LinkTypes, LinksFit, LeaderFollowsNobody,
  ProxyOfLeader, NoCtl

\* One step per action that changes a link or a role.
LEMMA LinksStep ==
  ASSUME TypeOK, LinksFit, Step
  PROVE  LinksFit'
<1>1. ASSUME NEW n \in Node, ShutDown(n) PROVE LinksFit'
  <2>1. isLeader' = [isLeader EXCEPT ![n] = FALSE] \/ UNCHANGED isLeader
    BY <1>1 DEF ShutDown, roleVars
  <2> QED BY <1>1, <2>1, DropLinks DEF ShutDown, ClearState
<1>2. ASSUME NEW n \in Node, Overthrown(n) \/ Outranked(n) PROVE LinksFit'
  BY <1>2, StepDownLinks DEF Overthrown, Outranked, StepDown, linkVars
<1>3. ASSUME NEW n \in Node, TakeOverAfterReply(n) PROVE LinksFit'
  BY <1>3, TakeOverLinks DEF TakeOverAfterReply
<1>4. ASSUME NEW n \in Node, TakeOverUnopposed(n) PROVE LinksFit'
  BY <1>4, TakeOverLinks DEF TakeOverUnopposed, Looking, linkVars
<1>5. ASSUME NEW n \in Node, JoinLeader(n) PROVE LinksFit'
  <2>1. ~ isLeader[n] /\ currentLeader[n].rank = 0
    BY <1>5 DEF JoinLeader, Looking, Following
  <2>2. PICK r \in Node :
          /\ Highest(r, Leaders(n))
          /\ \/ currentLeader' = [currentLeader EXCEPT ![n] = CtlOf(n, r)]
             \/ UNCHANGED currentLeader
    BY <1>5 DEF JoinLeader
  <2>3. CtlOf(n, r).rank # 0
    BY DEF CtlOf, ConstantsAssumption
  <2>4. UNCHANGED <<isLeader, proxyObj>>
    BY <1>5 DEF JoinLeader, roleVars
  <2> QED
    BY <2>1, <2>2, <2>3, <2>4
    DEF TypeOK, LinkTypes, LinksFit, LeaderFollowsNobody, ProxyOfLeader
<1>6. ASSUME NEW n \in Node, ConnectFailed(n) PROVE LinksFit'
  <2>1. /\ proxyObj[n] = NoSid /\ UNCHANGED proxyObj
        /\ currentLeader' = [currentLeader EXCEPT ![n] = NoCtl]
    BY <1>6 DEF ConnectFailed, Connecting
  <2>2. TakeOver(n) \/ UNCHANGED isLeader
    BY <1>6 DEF ConnectFailed, roleVars
  <2> QED BY <2>1, <2>2, TakeOverLinks, DropLinks
<1>7. ASSUME NEW n \in Node, ConnectSucceeded(n) PROVE LinksFit'
  <2>1. ~ isLeader[n] /\ currentLeader[n].rank # 0 /\ proxyObj[n] = NoSid
    BY <1>7 DEF ConnectSucceeded, Connecting, Following
  <2>2. CASE TakeOver(n) /\ UNCHANGED proxyObj
             /\ currentLeader' = [currentLeader EXCEPT ![n] = NoCtl]
    BY <2>1, <2>2, TakeOverLinks
  <2>3. CASE UNCHANGED <<isLeader, currentLeader>>
             /\ \E s : proxyObj' = [proxyObj EXCEPT ![n] = s]
    BY <2>1, <2>3
    DEF TypeOK, LinkTypes, LinksFit, LeaderFollowsNobody, ProxyOfLeader
  <2> QED BY <1>7, <2>2, <2>3 DEF ConnectSucceeded, roleVars
<1>8. ASSUME NEW n \in Node, LeaderLost(n) \/ SwitchLeader(n)
      PROVE LinksFit'
  BY <1>8, DropLinks DEF LeaderLost, SwitchLeader, DropLeader, roleVars
<1>9. ASSUME NEW n \in Node, Crash(n) PROVE LinksFit'
  BY <1>9, DropLinks DEF Crash, ClearState
<1>10. ASSUME NEW n \in Node,
              \/ Connected(n) \/ Stop(n) \/ WakeUp(n) \/ CheckChallengers(n)
              \/ CheckAlarm(n) \/ StartElection(n) \/ KeepLooking(n)
              \/ ConnectAlreadyJoined(n) \/ ConnectPending(n)
              \/ StayWithLeader(n) \/ AlarmTriggered(n) \/ AppLeaves(n)
              \/ ReAnnounce(n)
       PROVE LinksFit'
  BY <1>10, LinksKept DEF Connected, Stop, WakeUp, CheckChallengers,
    CheckAlarm, StartElection, KeepLooking, ConnectAlreadyJoined,
    ConnectPending, StayWithLeader, AlarmTriggered, AppLeaves, ReAnnounce,
    roleVars, linkVars
<1>11. ASSUME NEW n \in Node,
              \/ \E r \in undelivered[n] : Announced(n, r)
              \/ \E c \in joining[n] : OnSessionJoined(n, c)
              \/ \E e \in ending[n] : OnSessionLost(n, e)
              \/ \E e \in ending[n] : OnSessionMemberRemoved(n, e)
       PROVE LinksFit'
  BY <1>11, LinksKept DEF Announced, OnSessionJoined, JoinOutcome,
    OnSessionLost, OnSessionMemberRemoved, roleVars, linkVars
<1>12. ASSUME NEW c \in calls,
              \/ ServeStateSync(c) \/ Overthrow(c)
              \/ OnGetChecksumAndModificationTimestampReply(c)
              \/ OnGetBlobReply(c) \/ OnOverthrowReply(c) \/ OnErrorReply(c)
       PROVE LinksFit'
  BY <1>12, LinksKept DEF ServeStateSync, Overthrow,
    OnGetChecksumAndModificationTimestampReply, OnGetBlobReply,
    OnOverthrowReply, OnErrorReply, roleVars, linkVars
<1> QED
  BY <1>1, <1>2, <1>3, <1>4, <1>5, <1>6, <1>7, <1>8, <1>9, <1>10, <1>11,
    <1>12 DEF Step

-----------------------------------------------------------------------------
(* The thread: only a leader is between its two checks.                    *)

\* A step that leaves isLeader alone, or lets it go outside of the branch,
\* and does not enter the branch.
LEMMA AlarmBranchKept ==
  ASSUME TypeOK, AlarmBranchLeads, NEW n \in Node,
         \/ UNCHANGED isLeader
         \/ \E b \in BOOLEAN : isLeader' = [isLeader EXCEPT ![n] = b],
         \/ UNCHANGED <<isLeader, pc>>
         \/ \E p \in {"off", "wait", "loop"} : pc' = [pc EXCEPT ![n] = p]
  PROVE  AlarmBranchLeads'
BY DEF TypeOK, RoleTypes, ThreadTypes, AlarmBranchLeads

\* The end of a pass never leads into the alarm branch.
LEMMA EndPassBranch ==
  ASSUME NEW n \in Node, NEW loopBack, EndPass(n, loopBack)
  PROVE  \E p \in {"off", "wait", "loop"} : pc' = [pc EXCEPT ![n] = p]
BY DEF EndPass

\* One step per action that moves the thread or changes a role.
LEMMA AlarmBranchStep ==
  ASSUME TypeOK, AlarmBranchLeads, Step
  PROVE  AlarmBranchLeads'
<1>1. ASSUME NEW n \in Node, CheckChallengers(n) PROVE AlarmBranchLeads'
  BY <1>1, EndPassBranch, AlarmBranchKept
  DEF CheckChallengers, TypeOK, ThreadTypes, AlarmBranchLeads
<1>2. ASSUME NEW n \in Node, ShutDown(n) \/ Crash(n) PROVE AlarmBranchLeads'
  BY <1>2, AlarmBranchKept DEF ShutDown, Crash, roleVars
<1>3. ASSUME NEW n \in Node, Overthrown(n) \/ Outranked(n)
      PROVE AlarmBranchLeads'
  BY <1>3, EndPassBranch, AlarmBranchKept DEF Overthrown, Outranked, StepDown
<1>4. ASSUME NEW n \in Node,
             \/ TakeOverAfterReply(n) \/ TakeOverUnopposed(n)
             \/ ConnectFailed(n) \/ ConnectSucceeded(n)
      PROVE AlarmBranchLeads'
  <2>1. TakeOver(n) \/ UNCHANGED isLeader
    BY <1>4 DEF TakeOverAfterReply, TakeOverUnopposed, ConnectFailed,
      ConnectSucceeded, roleVars
  <2>2. EndPass(n, TRUE) \/ EndPass(n, FALSE)
    BY <1>4 DEF TakeOverAfterReply, TakeOverUnopposed, ConnectFailed,
      ConnectSucceeded
  <2> QED BY <2>1, <2>2, EndPassBranch, AlarmBranchKept DEF TakeOver
<1>5. ASSUME NEW n \in Node,
             \/ CheckAlarm(n) \/ StartElection(n) \/ JoinLeader(n)
             \/ KeepLooking(n) \/ ConnectAlreadyJoined(n) \/ ConnectPending(n)
             \/ LeaderLost(n) \/ SwitchLeader(n) \/ StayWithLeader(n)
      PROVE AlarmBranchLeads'
  <2>1. UNCHANGED isLeader
    BY <1>5 DEF CheckAlarm, StartElection, JoinLeader, KeepLooking,
      ConnectAlreadyJoined, ConnectPending, LeaderLost, SwitchLeader,
      StayWithLeader, roleVars
  <2>2. \E loopBack : EndPass(n, loopBack)
    BY <1>5 DEF CheckAlarm, StartElection, JoinLeader, KeepLooking,
      ConnectAlreadyJoined, ConnectPending, LeaderLost, SwitchLeader,
      StayWithLeader
  <2> QED BY <2>1, <2>2, EndPassBranch, AlarmBranchKept
<1>6. ASSUME NEW n \in Node, Connected(n) \/ WakeUp(n)
      PROVE AlarmBranchLeads'
  BY <1>6, AlarmBranchKept DEF Connected, WakeUp, roleVars
<1>7. ASSUME NEW n \in Node,
             \/ Stop(n) \/ AlarmTriggered(n) \/ AppLeaves(n) \/ ReAnnounce(n)
             \/ \E r \in undelivered[n] : Announced(n, r)
             \/ \E c \in joining[n] : OnSessionJoined(n, c)
             \/ \E e \in ending[n] : OnSessionLost(n, e)
             \/ \E e \in ending[n] : OnSessionMemberRemoved(n, e)
      PROVE AlarmBranchLeads'
  BY <1>7, AlarmBranchKept DEF Stop, AlarmTriggered, AppLeaves, ReAnnounce,
    Announced, OnSessionJoined, JoinOutcome, OnSessionLost,
    OnSessionMemberRemoved, roleVars, threadVars
<1>8. ASSUME NEW c \in calls,
             \/ ServeStateSync(c) \/ Overthrow(c)
             \/ OnGetChecksumAndModificationTimestampReply(c)
             \/ OnGetBlobReply(c) \/ OnOverthrowReply(c) \/ OnErrorReply(c)
      PROVE AlarmBranchLeads'
  <2>1. UNCHANGED <<isLeader, pc>>
    BY <1>8 DEF ServeStateSync, Overthrow,
      OnGetChecksumAndModificationTimestampReply, OnGetBlobReply,
      OnOverthrowReply, OnErrorReply, roleVars, threadVars
  <2> QED BY <2>1 DEF AlarmBranchLeads
<1> QED
  BY <1>1, <1>2, <1>3, <1>4, <1>5, <1>6, <1>7, <1>8 DEF Step

-----------------------------------------------------------------------------
(* Coups: challengers rank above, outgoing leaders below, grants go up.    *)

ChallengersAbove ==
  \A n \in Node : upComingLeader[n].rank # 0 => upComingLeader[n].rank > n
OutgoingBelow == \A n \in Node : outGoingLeader[n].rank < n
GrantsGoUp == \A c \in calls : c.st = "granted" => c.from > c.to

\* CoupsGoUp, part by part.
LEMMA CoupsGoUpParts == CoupsGoUp <=> ChallengersAbove /\ OutgoingBelow /\ GrantsGoUp
BY DEF CoupsGoUp, ChallengersAbove, OutgoingBelow, GrantsGoUp

\* The challenger of a leader is noted, forgotten or kept.
LEMMA ChallengersAboveStep ==
  ASSUME TypeOK, ChallengersAbove, Step
  PROVE  ChallengersAbove'
<1>1. ASSUME NEW n \in Node, CheckChallengers(n) PROVE ChallengersAbove'
  <2>1. ASSUME NEW r \in Challengers(n),
               upComingLeader' = [upComingLeader EXCEPT ![n] = CtlOf(n, r)]
        PROVE  ChallengersAbove'
    <3>1. CtlOf(n, r).rank > n
      BY DEF CtlOf, Challengers
    <3> QED BY <2>1, <3>1 DEF TypeOK, ChallengersAbove
  <2> QED
    BY <1>1, <2>1 DEF CheckChallengers, Highest, ChallengersAbove
<1>2. ASSUME NEW n \in Node,
             \/ UNCHANGED upComingLeader
             \/ upComingLeader' = [upComingLeader EXCEPT ![n] = NoCtl]
      PROVE ChallengersAbove'
  BY <1>2 DEF TypeOK, ChallengersAbove, NoCtl
<1>3. ASSUME NEW n \in Node,
             \/ Connected(n) \/ Stop(n) \/ WakeUp(n) \/ ShutDown(n)
             \/ Overthrown(n) \/ Outranked(n) \/ CheckAlarm(n)
             \/ TakeOverAfterReply(n) \/ StartElection(n) \/ JoinLeader(n)
             \/ TakeOverUnopposed(n) \/ KeepLooking(n)
      PROVE ChallengersAbove'
  BY <1>2, <1>3 DEF Connected, Stop, WakeUp, ShutDown, ClearState, Overthrown,
    Outranked, StepDown, CheckAlarm, TakeOverAfterReply, StartElection,
    JoinLeader, TakeOverUnopposed, KeepLooking
<1>4. ASSUME NEW n \in Node,
             \/ ConnectFailed(n) \/ ConnectAlreadyJoined(n)
             \/ ConnectSucceeded(n) \/ ConnectPending(n) \/ LeaderLost(n)
             \/ SwitchLeader(n) \/ StayWithLeader(n) \/ AlarmTriggered(n)
             \/ AppLeaves(n) \/ ReAnnounce(n) \/ Crash(n)
      PROVE ChallengersAbove'
  BY <1>2, <1>4 DEF ConnectFailed, ConnectAlreadyJoined, ConnectSucceeded,
    ConnectPending, LeaderLost, SwitchLeader, StayWithLeader, AlarmTriggered,
    AppLeaves, ReAnnounce, Crash, ClearState
<1>5. ASSUME NEW n \in Node,
             \/ \E r \in undelivered[n] : Announced(n, r)
             \/ \E c \in joining[n] : OnSessionJoined(n, c)
             \/ \E e \in ending[n] : OnSessionLost(n, e)
             \/ \E e \in ending[n] : OnSessionMemberRemoved(n, e)
      PROVE ChallengersAbove'
  BY <1>2, <1>5 DEF Announced, OnSessionJoined, JoinOutcome, OnSessionLost,
    OnSessionMemberRemoved
<1>6. ASSUME NEW c \in calls,
             \/ ServeStateSync(c) \/ Overthrow(c)
             \/ OnGetChecksumAndModificationTimestampReply(c)
             \/ OnGetBlobReply(c) \/ OnOverthrowReply(c) \/ OnErrorReply(c)
      PROVE ChallengersAbove'
  <2>1. UNCHANGED upComingLeader
    BY <1>6 DEF ServeStateSync, Overthrow,
      OnGetChecksumAndModificationTimestampReply, OnGetBlobReply,
      OnOverthrowReply, OnErrorReply
  <2> QED BY <2>1 DEF ChallengersAbove
<1> QED BY <1>1, <1>3, <1>4, <1>5, <1>6 DEF Step

\* The leader to be overthrown is noted when it is joined.
LEMMA OutgoingBelowStep ==
  ASSUME TypeOK, OutgoingBelow, Step
  PROVE  OutgoingBelow'
<1>1. ASSUME NEW n \in Node, JoinLeader(n) PROVE OutgoingBelow'
  <2>1. PICK r \in Node :
          outGoingLeader' = [outGoingLeader EXCEPT ![n] =
                               IF r < n THEN CtlOf(n, r) ELSE @]
    BY <1>1 DEF JoinLeader
  <2>2. r < n => CtlOf(n, r).rank < n
    BY DEF CtlOf
  <2> QED BY <2>1, <2>2 DEF TypeOK, LinkTypes, OutgoingBelow
<1>2. ASSUME NEW n \in Node,
             \/ UNCHANGED outGoingLeader
             \/ outGoingLeader' = [outGoingLeader EXCEPT ![n] = NoCtl]
      PROVE OutgoingBelow'
  <2>1. NoCtl.rank < n
    BY DEF NoCtl, ConstantsAssumption
  <2> QED BY <1>2, <2>1 DEF TypeOK, LinkTypes, OutgoingBelow
<1>3. ASSUME NEW n \in Node,
             \/ Connected(n) \/ Stop(n) \/ WakeUp(n) \/ ShutDown(n)
             \/ Overthrown(n) \/ Outranked(n) \/ CheckChallengers(n)
             \/ CheckAlarm(n) \/ TakeOverAfterReply(n) \/ StartElection(n)
             \/ TakeOverUnopposed(n) \/ KeepLooking(n)
      PROVE OutgoingBelow'
  BY <1>2, <1>3 DEF Connected, Stop, WakeUp, ShutDown, ClearState, Overthrown,
    Outranked, CheckChallengers, CheckAlarm, TakeOverAfterReply,
    StartElection, TakeOverUnopposed, KeepLooking, linkVars
<1>4. ASSUME NEW n \in Node,
             \/ ConnectFailed(n) \/ ConnectAlreadyJoined(n)
             \/ ConnectSucceeded(n) \/ ConnectPending(n) \/ LeaderLost(n)
             \/ SwitchLeader(n) \/ StayWithLeader(n) \/ AlarmTriggered(n)
             \/ AppLeaves(n) \/ ReAnnounce(n) \/ Crash(n)
      PROVE OutgoingBelow'
  BY <1>2, <1>4 DEF ConnectFailed, ConnectAlreadyJoined, ConnectSucceeded,
    ConnectPending, LeaderLost, SwitchLeader, StayWithLeader, AlarmTriggered,
    AppLeaves, ReAnnounce, Crash, ClearState, linkVars
<1>5. ASSUME NEW n \in Node,
             \/ \E r \in undelivered[n] : Announced(n, r)
             \/ \E c \in joining[n] : OnSessionJoined(n, c)
             \/ \E e \in ending[n] : OnSessionLost(n, e)
             \/ \E e \in ending[n] : OnSessionMemberRemoved(n, e)
      PROVE OutgoingBelow'
  BY <1>2, <1>5 DEF Announced, OnSessionJoined, JoinOutcome, OnSessionLost,
    OnSessionMemberRemoved, linkVars
<1>6. ASSUME NEW c \in calls,
             \/ ServeStateSync(c) \/ Overthrow(c)
             \/ OnGetChecksumAndModificationTimestampReply(c)
             \/ OnGetBlobReply(c) \/ OnOverthrowReply(c) \/ OnErrorReply(c)
      PROVE OutgoingBelow'
  <2>1. UNCHANGED outGoingLeader
    BY <1>6 DEF ServeStateSync, Overthrow,
      OnGetChecksumAndModificationTimestampReply, OnGetBlobReply,
      OnOverthrowReply, OnErrorReply, linkVars
  <2> QED BY <2>1 DEF OutgoingBelow
<1> QED BY <1>1, <1>3, <1>4, <1>5, <1>6 DEF Step

\* A step without a new grant.
LEMMA GrantsKept ==
  ASSUME GrantsGoUp, \A c \in calls' : c \in calls \/ c.st # "granted"
  PROVE  GrantsGoUp'
BY DEF GrantsGoUp

\* The leader answers: granted, if at all, to its challenger.
LEMMA AnsweredGrants ==
  ASSUME TypeOK, ChallengersAbove, GrantsGoUp, NEW n \in Node, NEW granted,
         Answered(n, granted),
         granted \subseteq {upComingLeader[n].rank} \cap Node
  PROVE  GrantsGoUp'
<1> SUFFICES ASSUME NEW c \in calls',  c.st = "granted"
             PROVE  c.from > c.to
  BY DEF GrantsGoUp
<1>1. PICK d \in calls :
        c = IF d.to = n /\ d.st = "queued"
            THEN [d EXCEPT !.st = IF d.from \in granted THEN "granted"
                                                        ELSE "refused"]
            ELSE d
  BY DEF Answered
<1>2. d \in Call
  BY DEF TypeOK, NetTypes
<1>3. CASE d.to = n /\ d.st = "queued"
  <2>1. c.from = d.from /\ c.to = d.to /\ d.from \in granted
    BY <1>1, <1>2, <1>3 DEF Call
  <2>2. d.from = upComingLeader[n].rank /\ d.from \in Node
    BY <2>1
  <2>3. d.from # 0
    BY <2>2 DEF ConstantsAssumption
  <2> QED BY <1>3, <2>1, <2>2, <2>3 DEF ChallengersAbove
<1>4. CASE ~ (d.to = n /\ d.st = "queued")
  BY <1>1, <1>4 DEF GrantsGoUp
<1> QED BY <1>3, <1>4

\* Only Overthrown grants, and only to the challenger it noted.
LEMMA GrantsGoUpStep ==
  ASSUME TypeOK, ChallengersAbove, GrantsGoUp, Step
  PROVE  GrantsGoUp'
<1>1. ASSUME NEW n \in Node, Overthrown(n) PROVE GrantsGoUp'
  <2>1. Answered(n, {upComingLeader[n].rank})
    BY <1>1 DEF Overthrown
  <2>2. upComingLeader[n].rank \in Node
    BY <1>1 DEF Overthrown, TypeOK
  <2> QED BY <2>1, <2>2, AnsweredGrants
<1>2. ASSUME NEW n \in Node, Outranked(n) \/ CheckChallengers(n)
      PROVE GrantsGoUp'
  <2>1. Answered(n, {})
    BY <1>2 DEF Outranked, CheckChallengers
  <2> QED BY <2>1, AnsweredGrants
<1>3. ASSUME NEW n \in Node, ConnectSucceeded(n) PROVE GrantsGoUp'
  <2>1. PICK j :
          \/ calls' = calls \cup
               {[from |-> n, to |-> j.sid.host, kind |-> "checksum",
                 st |-> "sent"]}
          \/ UNCHANGED calls
    BY <1>3 DEF ConnectSucceeded
  <2> QED BY <2>1, GrantsKept
<1>4. ASSUME NEW n \in Node, Crash(n) PROVE GrantsGoUp'
  BY <1>4, GrantsKept DEF Crash
<1>5. ASSUME NEW n \in Node,
             \/ Connected(n) \/ Stop(n) \/ WakeUp(n) \/ ShutDown(n)
             \/ CheckAlarm(n) \/ TakeOverAfterReply(n) \/ StartElection(n)
             \/ JoinLeader(n) \/ TakeOverUnopposed(n) \/ KeepLooking(n)
             \/ ConnectFailed(n) \/ ConnectAlreadyJoined(n)
             \/ ConnectPending(n) \/ LeaderLost(n) \/ SwitchLeader(n)
             \/ StayWithLeader(n) \/ AlarmTriggered(n) \/ AppLeaves(n)
             \/ ReAnnounce(n)
             \/ \E r \in undelivered[n] : Announced(n, r)
             \/ \E c \in joining[n] : OnSessionJoined(n, c)
             \/ \E e \in ending[n] : OnSessionLost(n, e)
             \/ \E e \in ending[n] : OnSessionMemberRemoved(n, e)
      PROVE GrantsGoUp'
  <2>1. UNCHANGED calls
    BY <1>5 DEF Connected, Stop, WakeUp, ShutDown, CheckAlarm,
      TakeOverAfterReply, StartElection, JoinLeader, TakeOverUnopposed,
      KeepLooking, ConnectFailed, ConnectAlreadyJoined, ConnectPending,
      LeaderLost, SwitchLeader, StayWithLeader, AlarmTriggered, AppLeaves,
      ReAnnounce, Announced, OnSessionJoined, JoinOutcome, OnSessionLost,
      OnSessionMemberRemoved, netVars
  <2> QED BY <2>1, GrantsKept
<1>6. ASSUME NEW c \in calls, ServeStateSync(c) \/ Overthrow(c)
      PROVE GrantsGoUp'
  <2>1. c \in Call
    BY DEF TypeOK, NetTypes
  <2>2. \/ calls' = (calls \ {c}) \cup {[c EXCEPT !.st = "replied"]}
        \/ calls' = (calls \ {c}) \cup {[c EXCEPT !.st = "queued"]}
    BY <1>6 DEF ServeStateSync, Overthrow
  <2>3. /\ [c EXCEPT !.st = "replied"].st # "granted"
        /\ [c EXCEPT !.st = "queued"].st # "granted"
    BY <2>1 DEF Call
  <2> QED BY <2>2, <2>3, GrantsKept
<1>7. ASSUME NEW c \in calls,
             \/ OnGetChecksumAndModificationTimestampReply(c)
             \/ OnGetBlobReply(c) \/ OnOverthrowReply(c) \/ OnErrorReply(c)
      PROVE GrantsGoUp'
  <2>1. \/ calls' = calls \ {c}
        \/ \E d : calls' = (calls \ {c}) \cup {d} /\ d.st = "sent"
    BY <1>7 DEF OnGetChecksumAndModificationTimestampReply, OnGetBlobReply,
      OnOverthrowReply, OnErrorReply, SyncFinished
  <2> QED BY <2>1, GrantsKept
<1> QED BY <1>1, <1>2, <1>3, <1>4, <1>5, <1>6, <1>7 DEF Step

-----------------------------------------------------------------------------
(* The elector implements Leadership.                                      *)

\* A step that changes nothing Leadership speaks of.
LEMMA HandoverKept ==
  ASSUME UNCHANGED <<isLeader, updatesAllowed, upComingLeader>>,
         UNCHANGED Grants
  PROVE  UNCHANGED Handover!hvars
BY DEF Handover!hvars, Role, Challenger

\* A grant disappears with its call, if no other call carries it.
LEMMA GrantsDelivered ==
  ASSUME NEW c \in calls,
         calls \ {c} \subseteq calls',
         \A d \in calls' : d \in calls \ {c} \/ d.st # "granted"
  PROVE  \/ UNCHANGED Grants
         \/ \E g \in Grants : Grants' = Grants \ {g}
<1> DEFINE g == <<c.from, c.to>>
<1>1. CASE c.st # "granted"
  BY <1>1 DEF Grants
<1>2. CASE c.st = "granted"
  <2>1. g \in Grants
    BY <1>2 DEF Grants
  <2>2. CASE g \in Grants'
    <3>1. Grants' = Grants
      BY <1>2, <2>1, <2>2 DEF Grants
    <3> QED BY <3>1
  <2>3. CASE g \notin Grants'
    <3>1. Grants' = Grants \ {g}
      BY <1>2, <2>1, <2>3 DEF Grants
    <3> QED BY <2>1, <3>1
  <2> QED BY <2>2, <2>3
<1> QED BY <1>1, <1>2

\* Answering the Overthrow requests of a leader adds the grants given.
LEMMA AnsweredGrant ==
  ASSUME TypeOK, NEW n \in Node, NEW granted, Answered(n, granted)
  PROVE  /\ Grants \subseteq Grants'
         /\ \A g \in Grants' : g \in Grants \/ g \in granted \X {n}
<1>0. \A d \in calls : d \in Call
  BY DEF TypeOK, NetTypes
<1>1. ASSUME NEW g \in Grants PROVE g \in Grants'
  <2>1. PICK d \in calls : d.st = "granted" /\ g = <<d.from, d.to>>
    BY <1>1 DEF Grants
  <2>2. d \in calls'
    BY <2>1 DEF Answered
  <2> QED BY <2>1, <2>2 DEF Grants
<1>2. ASSUME NEW g \in Grants' PROVE g \in Grants \/ g \in granted \X {n}
  <2>1. PICK c \in calls' : c.st = "granted" /\ g = <<c.from, c.to>>
    BY <1>2 DEF Grants
  <2>2. PICK d \in calls :
          c = IF d.to = n /\ d.st = "queued"
              THEN [d EXCEPT !.st = IF d.from \in granted THEN "granted"
                                                          ELSE "refused"]
              ELSE d
    BY <2>1 DEF Answered
  <2>3. CASE d.to = n /\ d.st = "queued"
    <3>1. d.from \in granted /\ c.from = d.from /\ c.to = n
      BY <1>0, <2>1, <2>2, <2>3 DEF Call
    <3> QED BY <2>1, <3>1
  <2>4. CASE ~ (d.to = n /\ d.st = "queued")
    BY <2>1, <2>2, <2>4 DEF Grants
  <2> QED BY <2>3, <2>4
<1> QED BY <1>1, <1>2

\* A follower that takes over leads, open to updates.
LEMMA TakeOverHandover ==
  ASSUME TypeOK, NEW n \in Node, ~ isLeader[n], TakeOver(n),
         UNCHANGED <<upComingLeader, calls>>
  PROVE  Handover!Lead(n)
<1>1. Role[n] = "follower"
  BY DEF Role
<1>2. Role' = [Role EXCEPT ![n] = "open"]
  BY DEF TypeOK, RoleTypes, Role, TakeOver
<1>3. UNCHANGED <<Challenger, Grants>>
  BY DEF Challenger, Grants
<1> QED BY <1>1, <1>2, <1>3 DEF Handover!Lead

\* A leader that stops leading becomes a follower without a challenger.
LEMMA StepDownHandover ==
  ASSUME TypeOK, NEW n \in Node, isLeader[n],
         updatesAllowed' = [updatesAllowed EXCEPT ![n] = FALSE],
         isLeader' = [isLeader EXCEPT ![n] = FALSE],
         upComingLeader' = [upComingLeader EXCEPT ![n] = NoCtl]
  PROVE  Handover!BecomeFollower(n)
<1>1. Role[n] # "follower"
  BY DEF Role
<1>2. Role' = [Role EXCEPT ![n] = "follower"]
  BY DEF TypeOK, RoleTypes, Role
<1>3. Challenger' = [Challenger EXCEPT ![n] = 0]
  BY DEF TypeOK, Challenger, NoCtl
<1> QED BY <1>1, <1>2, <1>3 DEF Handover!BecomeFollower

\* A granted Overthrow is a Grant; without a call, a StepDown.
LEMMA OverthrownHandover ==
  ASSUME TypeOK, RolesFit, NEW n \in Node, Overthrown(n)
  PROVE  Handover!Grant(n) \/ Handover!StepDown(n)
<1>1. /\ isLeader[n]
      /\ upComingLeader[n].rank \in Node
      /\ Answered(n, {upComingLeader[n].rank})
      /\ StepDown(n)
  BY DEF Overthrown, TypeOK
<1>2. Handover!BecomeFollower(n)
  BY <1>1, StepDownHandover DEF StepDown
<1>3. Role[n] = "blocked"
  BY <1>1 DEF RolesFit, UpdatesBlockedByChallengeOnly, Role,
    ConstantsAssumption
<1>4. Challenger[n] = upComingLeader[n].rank
  BY DEF Challenger
<1>5. Grants' = Grants \/ Grants' = Grants \cup {<<Challenger[n], n>>}
  <2>1. /\ Grants \subseteq Grants'
        /\ \A g \in Grants' : g \in Grants \/ g = <<Challenger[n], n>>
    BY <1>1, <1>4, AnsweredGrant
  <2> QED BY <2>1
<1> QED BY <1>2, <1>3, <1>5 DEF Handover!Grant, Handover!StepDown

\* Yielding to a higher leader is a StepDown.
LEMMA OutrankedHandover ==
  ASSUME TypeOK, NEW n \in Node, Outranked(n)
  PROVE  Handover!StepDown(n)
<1>1. isLeader[n] /\ Answered(n, {}) /\ StepDown(n)
  BY DEF Outranked
<1>2. Handover!BecomeFollower(n)
  BY <1>1, StepDownHandover DEF StepDown
<1>3. UNCHANGED Grants
  BY <1>1, AnsweredGrant
<1> QED BY <1>2, <1>3 DEF Handover!StepDown

\* Noting a challenger is a Challenge.
LEMMA CheckChallengersHandover ==
  ASSUME TypeOK, NEW n \in Node, CheckChallengers(n)
  PROVE  (\E c \in Node : Handover!Challenge(n, c)) \/ UNCHANGED Handover!hvars
<1>1. isLeader[n] /\ UNCHANGED isLeader
  BY DEF CheckChallengers
<1>2. UNCHANGED Grants
  <2>1. Answered(n, {})
    BY DEF CheckChallengers
  <2> QED BY <2>1, AnsweredGrant
<1>3. CASE Challengers(n) = {}
  <2>1. UNCHANGED <<upComingLeader, updatesAllowed>>
    BY <1>3 DEF CheckChallengers, Highest
  <2> QED BY <1>1, <1>2, <2>1, HandoverKept
<1>4. CASE Challengers(n) # {}
  <2>1. PICK r \in Challengers(n) :
          /\ upComingLeader' = [upComingLeader EXCEPT ![n] = CtlOf(n, r)]
          /\ updatesAllowed' = [updatesAllowed EXCEPT ![n] = FALSE]
    BY <1>4 DEF CheckChallengers, Highest
  <2>2. r \in Node /\ r > n /\ r # Challenger[n]
    BY DEF Challengers, Known, Challenger
  <2>3. Role[n] # "follower" /\ Role' = [Role EXCEPT ![n] = "blocked"]
    BY <1>1, <2>1 DEF TypeOK, RoleTypes, Role
  <2>4. Challenger' = [Challenger EXCEPT ![n] = r]
    BY <2>1 DEF TypeOK, Challenger, CtlOf
  <2> QED BY <1>2, <2>2, <2>3, <2>4 DEF Handover!Challenge
<1> QED BY <1>3, <1>4

\* Giving up on the challenger is a Resume.
LEMMA CheckAlarmHandover ==
  ASSUME TypeOK, RolesFit, AlarmBranchLeads, NEW n \in Node, CheckAlarm(n)
  PROVE  Handover!Resume(n) \/ UNCHANGED Handover!hvars
<1>1. isLeader[n] /\ UNCHANGED <<isLeader, calls>>
  BY DEF CheckAlarm, AlarmBranchLeads, netVars
<1>2. UNCHANGED Grants
  BY <1>1 DEF Grants
<1>3. CASE UNCHANGED <<upComingLeader, updatesAllowed>>
  BY <1>1, <1>2, <1>3, HandoverKept
<1>4. CASE /\ upComingLeader[n].rank \in Known(n)
           /\ upComingLeader' = [upComingLeader EXCEPT ![n] = NoCtl]
           /\ updatesAllowed' = [updatesAllowed EXCEPT ![n] = TRUE]
  <2>1. upComingLeader[n].rank # 0
    BY <1>4 DEF Known, ConstantsAssumption
  <2>2. Role[n] = "blocked"
    BY <1>1, <2>1 DEF RolesFit, UpdatesBlockedByChallengeOnly, Role
  <2>3. Role' = [Role EXCEPT ![n] = "open"]
    BY <1>1, <1>4 DEF TypeOK, RoleTypes, Role
  <2>4. Challenger' = [Challenger EXCEPT ![n] = 0]
    BY <1>4 DEF TypeOK, Challenger, NoCtl
  <2> QED BY <1>2, <2>2, <2>3, <2>4 DEF Handover!Resume
<1> QED BY <1>3, <1>4 DEF CheckAlarm

\* Shutting down is a StepDown of a leader.
LEMMA ShutDownHandover ==
  ASSUME TypeOK, RolesFit, NEW n \in Node, ShutDown(n)
  PROVE  Handover!StepDown(n) \/ UNCHANGED Handover!hvars
<1>1. /\ upComingLeader' = [upComingLeader EXCEPT ![n] = NoCtl]
      /\ UNCHANGED Grants
  BY DEF ShutDown, ClearState, Grants
<1>2. CASE isLeader[n]
  <2>1. Handover!BecomeFollower(n)
    BY <1>1, <1>2, StepDownHandover DEF ShutDown
  <2> QED BY <1>1, <2>1 DEF Handover!StepDown
<1>3. CASE ~ isLeader[n]
  <2>1. UNCHANGED <<isLeader, updatesAllowed>>
    BY <1>3 DEF ShutDown, roleVars
  <2>2. upComingLeader[n].rank = 0
    BY <1>3 DEF RolesFit, FollowerIsPassive
  <2>3. UNCHANGED Role
    BY <2>1 DEF Role
  <2>4. UNCHANGED Challenger
    BY <1>1, <2>2 DEF TypeOK, Challenger, NoCtl
  <2> QED BY <1>1, <2>3, <2>4 DEF Handover!hvars
<1> QED BY <1>2, <1>3

\* A crash is a Crash.
LEMMA CrashHandover ==
  ASSUME TypeOK, NEW n \in Node, Crash(n)
  PROVE  Handover!Crash(n)
<1>1. Role' = [Role EXCEPT ![n] = "follower"]
  BY DEF TypeOK, RoleTypes, Role, Crash
<1>2. Challenger' = [Challenger EXCEPT ![n] = 0]
  BY DEF TypeOK, Challenger, NoCtl, Crash, ClearState
<1>3. Grants' = {g \in Grants : g[1] # n}
  <2>1. calls' = {c \in calls : c.from # n}
    BY DEF Crash
  <2> QED BY <2>1 DEF Grants
<1> QED BY <1>1, <1>2, <1>3 DEF Handover!Crash

\* Every step of the election is a step of Leadership, or none.
LEMMA HandoverStep ==
  ASSUME TypeOK, RolesFit, AlarmBranchLeads, Step
  PROVE  Handover!Next \/ UNCHANGED Handover!hvars
<1>1. ASSUME NEW n \in Node,
             \/ Handover!Lead(n) \/ (\E c \in Node : Handover!Challenge(n, c))
             \/ Handover!Resume(n) \/ Handover!Grant(n)
             \/ Handover!StepDown(n) \/ Handover!Crash(n)
      PROVE  Handover!Next
  BY <1>1 DEF Handover!Next
<1>2. ASSUME NEW n \in Node,
             \/ ShutDown(n) \/ Overthrown(n) \/ Outranked(n)
             \/ CheckChallengers(n) \/ CheckAlarm(n) \/ Crash(n)
      PROVE  Handover!Next \/ UNCHANGED Handover!hvars
  BY <1>1, <1>2, ShutDownHandover, OverthrownHandover, OutrankedHandover,
    CheckChallengersHandover, CheckAlarmHandover, CrashHandover
<1>3. ASSUME NEW n \in Node,
             \/ TakeOverAfterReply(n) \/ TakeOverUnopposed(n)
             \/ ConnectFailed(n) \/ ConnectSucceeded(n)
      PROVE  Handover!Next \/ UNCHANGED Handover!hvars
  <2>1. ~ isLeader[n] /\ UNCHANGED upComingLeader
    BY <1>3 DEF TakeOverAfterReply, TakeOverUnopposed, ConnectFailed,
      ConnectSucceeded, Looking, Connecting, Following
  <2>2. CASE TakeOver(n) /\ UNCHANGED calls
    BY <1>1, <2>1, <2>2, TakeOverHandover
  <2>3. CASE /\ UNCHANGED roleVars
             /\ \/ UNCHANGED calls
                \/ \E c : calls' = calls \cup {c} /\ c.st = "sent"
    <3>1. UNCHANGED Grants
      BY <2>3 DEF Grants
    <3> QED BY <2>1, <2>3, <3>1, HandoverKept DEF roleVars
  <2>4. CASE TakeOverAfterReply(n) \/ TakeOverUnopposed(n) \/ ConnectFailed(n)
    <3>1. UNCHANGED calls /\ (TakeOver(n) \/ UNCHANGED roleVars)
      BY <2>4 DEF TakeOverAfterReply, TakeOverUnopposed, ConnectFailed, netVars
    <3> QED BY <2>2, <2>3, <3>1
  <2>5. CASE ConnectSucceeded(n)
    <3>1. PICK j \in RepliesOf(n, "ok") : ConnectSucceeded(n)!5!(j)
      BY <2>5 DEF ConnectSucceeded
    <3>2. CASE TakeOver(n) /\ UNCHANGED calls
      BY <2>2, <3>2
    <3>3. CASE UNCHANGED roleVars /\ UNCHANGED calls
      BY <2>3, <3>3
    <3>4. CASE /\ UNCHANGED roleVars
               /\ calls' = calls \cup
                    {[from |-> n, to |-> j.sid.host, kind |-> "checksum",
                      st |-> "sent"]}
      BY <2>3, <3>4
    <3> QED BY <3>1, <3>2, <3>3, <3>4
  <2> QED BY <1>3, <2>4, <2>5
<1>4. ASSUME NEW n \in Node, StartElection(n)
      PROVE  UNCHANGED Handover!hvars
  <2>1. /\ ~ isLeader[n] /\ UNCHANGED <<isLeader, upComingLeader, calls>>
        /\ updatesAllowed' = [updatesAllowed EXCEPT ![n] = FALSE]
    BY <1>4 DEF StartElection, netVars
  <2>2. UNCHANGED Role
    BY <2>1 DEF TypeOK, RoleTypes, Role
  <2> QED BY <2>1, <2>2 DEF Handover!hvars, Challenger, Grants
<1>5. ASSUME NEW n \in Node,
             \/ Connected(n) \/ Stop(n) \/ WakeUp(n) \/ JoinLeader(n)
             \/ KeepLooking(n) \/ ConnectAlreadyJoined(n)
             \/ ConnectPending(n) \/ LeaderLost(n) \/ SwitchLeader(n)
             \/ StayWithLeader(n) \/ AlarmTriggered(n) \/ AppLeaves(n)
             \/ ReAnnounce(n)
             \/ \E r \in undelivered[n] : Announced(n, r)
             \/ \E c \in joining[n] : OnSessionJoined(n, c)
             \/ \E e \in ending[n] : OnSessionLost(n, e)
             \/ \E e \in ending[n] : OnSessionMemberRemoved(n, e)
      PROVE  UNCHANGED Handover!hvars
  <2>1. UNCHANGED <<isLeader, updatesAllowed, upComingLeader, calls>>
    BY <1>5 DEF Connected, Stop, WakeUp, JoinLeader, KeepLooking,
      ConnectAlreadyJoined, ConnectPending, LeaderLost, SwitchLeader,
      StayWithLeader, AlarmTriggered, AppLeaves, ReAnnounce, Announced,
      OnSessionJoined, JoinOutcome, OnSessionLost, OnSessionMemberRemoved,
      roleVars, netVars
  <2> QED BY <2>1, HandoverKept DEF Grants
<1>6. ASSUME NEW c \in calls,
             \/ ServeStateSync(c) \/ Overthrow(c)
             \/ OnGetChecksumAndModificationTimestampReply(c)
             \/ OnGetBlobReply(c) \/ OnOverthrowReply(c) \/ OnErrorReply(c)
      PROVE  Handover!Next \/ UNCHANGED Handover!hvars
  <2>1. UNCHANGED <<isLeader, updatesAllowed, upComingLeader>>
    BY <1>6 DEF ServeStateSync, Overthrow,
      OnGetChecksumAndModificationTimestampReply, OnGetBlobReply,
      OnOverthrowReply, OnErrorReply, roleVars
  <2>2. c \in Call
    BY DEF TypeOK, NetTypes
  <2>3. ASSUME NEW d, calls' = (calls \ {c}) \cup {d}, d.st # "granted"
        PROVE  UNCHANGED Grants \/ \E g \in Grants : Grants' = Grants \ {g}
    BY <2>3, GrantsDelivered
  <2>4. UNCHANGED Grants \/ \E g \in Grants : Grants' = Grants \ {g}
    <3>1. CASE ServeStateSync(c)
      <4>1. [c EXCEPT !.st = "replied"].st # "granted"
        BY <2>2 DEF Call
      <4> QED BY <2>3, <3>1, <4>1 DEF ServeStateSync
    <3>2. CASE Overthrow(c)
      <4>1. [c EXCEPT !.st = "queued"].st # "granted"
        BY <2>2 DEF Call
      <4> QED BY <2>3, <3>2, <4>1 DEF Overthrow
    <3>3. CASE calls' = calls \ {c}
      BY <3>3, GrantsDelivered
    <3>4. CASE \E d : calls' = (calls \ {c}) \cup {d} /\ d.st = "sent"
      BY <2>3, <3>4
    <3>5. \/ ServeStateSync(c) \/ Overthrow(c)
          \/ calls' = calls \ {c}
          \/ \E d : calls' = (calls \ {c}) \cup {d} /\ d.st = "sent"
      BY <1>6
      DEF OnGetChecksumAndModificationTimestampReply, OnGetBlobReply,
        OnOverthrowReply, OnErrorReply, SyncFinished
    <3> QED BY <3>1, <3>2, <3>3, <3>4, <3>5
  <2>5. CASE UNCHANGED Grants
    BY <2>1, <2>5, HandoverKept
  <2>6. ASSUME NEW g \in Grants, Grants' = Grants \ {g}
        PROVE  Handover!Next
    <3>1. UNCHANGED <<Role, Challenger>>
      BY <2>1 DEF Role, Challenger
    <3> QED BY <2>6, <3>1 DEF Handover!Next, Handover!Deliver
  <2> QED BY <2>4, <2>5, <2>6
<1> QED BY <1>2, <1>3, <1>4, <1>5, <1>6 DEF Step

-----------------------------------------------------------------------------
(* The theorems. *)

\* Initially nobody leads, follows or challenges, and nothing is granted.
LEMMA InitElection == Init => ElectionInv
<1> SUFFICES ASSUME Init PROVE ElectionInv
  OBVIOUS
<1>1. TypeOK
  BY InitType
<1>2. UpdatesBlockedByChallengeOnly /\ FollowerIsPassive
  BY DEF Init, UpdatesBlockedByChallengeOnly, FollowerIsPassive, NoCtl
<1>3. LeaderFollowsNobody /\ ProxyOfLeader /\ AlarmBranchLeads
  BY DEF Init, LeaderFollowsNobody, ProxyOfLeader, AlarmBranchLeads
<1>4. CoupsGoUp
  BY DEF Init, CoupsGoUp, NoCtl, ConstantsAssumption
<1> QED BY <1>1, <1>2, <1>3, <1>4 DEF ElectionInv

\* Every step keeps the inductive invariant.
LEMMA ElectionStep == ElectionInv /\ [Next]_vars => ElectionInv'
<1> SUFFICES ASSUME ElectionInv, [Next]_vars PROVE ElectionInv'
  OBVIOUS
<1>1. CASE Next
  <2>1. Step /\ TypeOK /\ RolesFit /\ LinksFit /\ AlarmBranchLeads
    BY <1>1, NextIsStep DEF ElectionInv, RolesFit, LinksFit
  <2>2. ChallengersAbove /\ OutgoingBelow /\ GrantsGoUp
    BY CoupsGoUpParts DEF ElectionInv
  <2>3. TypeOK' /\ AlarmBranchLeads'
    BY <2>1, StepType, AlarmBranchStep
  <2>4. RolesFit' /\ LinksFit'
    BY <2>1, RolesStep, LinksStep
  <2>5. CoupsGoUp'
    <3>1. ChallengersAbove' /\ OutgoingBelow' /\ GrantsGoUp'
      BY <2>1, <2>2, ChallengersAboveStep, OutgoingBelowStep, GrantsGoUpStep
    <3> QED
      BY <3>1 DEF CoupsGoUp, ChallengersAbove, OutgoingBelow, GrantsGoUp
  <2> QED BY <2>3, <2>4, <2>5 DEF ElectionInv, RolesFit, LinksFit
<1>2. CASE UNCHANGED vars
  <2>1. TypeOK'
    BY <1>2, UnchangedTypes DEF vars, TypeOK, ElectionInv
  <2>2. (UpdatesBlockedByChallengeOnly /\ FollowerIsPassive)'
    BY <1>2 DEF vars, roleVars, ElectionInv, UpdatesBlockedByChallengeOnly,
      FollowerIsPassive
  <2>3. (LeaderFollowsNobody /\ ProxyOfLeader /\ AlarmBranchLeads)'
    BY <1>2 DEF vars, roleVars, linkVars, threadVars, ElectionInv,
      LeaderFollowsNobody, ProxyOfLeader, AlarmBranchLeads
  <2>4. CoupsGoUp'
    BY <1>2 DEF vars, linkVars, netVars, ElectionInv, CoupsGoUp
  <2> QED BY <2>1, <2>2, <2>3, <2>4 DEF ElectionInv
<1> QED BY <1>1, <1>2

\* The inductive invariant holds in every state of the election.
THEOREM ElectionInvariant == Spec => []ElectionInv
BY InitElection, ElectionStep, PTL DEF Spec

\* Whatever the interleaving of callbacks, alarm and Run thread, a leader's
\* stores are closed to clients exactly while it has a challenger: the code
\* calls SetAllowUpdates and clears upComingLeader in different places.
THEOREM UpdatesAreBlockedByChallengeOnly ==
  Spec => []UpdatesBlockedByChallengeOnly
<1>1. ElectionInv => UpdatesBlockedByChallengeOnly
  BY DEF ElectionInv
<1> QED BY ElectionInvariant, <1>1, PTL

\* A controller that does not lead takes no client updates and does not
\* announce that it leads, also after a lost coup, a shutdown or a crash.
THEOREM FollowersArePassive == Spec => []FollowerIsPassive
<1>1. ElectionInv => FollowerIsPassive
  BY DEF ElectionInv
<1> QED BY ElectionInvariant, <1>1, PTL

\* However leadership was gained, by a coup that was answered, a join that
\* failed or an election nobody else won, the leader has let go of the leader
\* it followed.
THEOREM LeadersFollowNobody == Spec => []LeaderFollowsNobody
<1>1. ElectionInv => LeaderFollowsNobody
  BY DEF ElectionInv
<1> QED BY ElectionInvariant, <1>1, PTL

\* No controller overthrows, or is granted the place of, one of a higher rank.
THEOREM CoupsOnlyGoUp == Spec => []CoupsGoUp
<1>1. ElectionInv => CoupsGoUp
  BY DEF ElectionInv
<1> QED BY ElectionInvariant, <1>1, PTL

\* The initial states are initial states of Leadership.
LEMMA HandoverInit == Init => Handover!Init
BY DEF Init, Handover!Init, Role, Challenger, Grants, NoCtl

\* The election hands leadership over as Leadership says, for any number of
\* controllers: a leader only yields to the challenger it blocked updates for,
\* to a higher leader or by going away, and resumes only what it blocked.
THEOREM ElectionImplementsHandover == Spec => ImplementsHandover
<1>1. ElectionInv /\ [Next]_vars => [Handover!Next]_(Handover!hvars)
  <2> SUFFICES ASSUME ElectionInv, [Next]_vars
               PROVE  [Handover!Next]_(Handover!hvars)
    OBVIOUS
  <2>1. CASE Next
    BY <2>1, NextIsStep, HandoverStep DEF ElectionInv, RolesFit
  <2>2. CASE UNCHANGED vars
    BY <2>2, HandoverKept DEF vars, roleVars, netVars, Grants
  <2> QED BY <2>1, <2>2
<1> QED
  BY ElectionInvariant, HandoverInit, <1>1, PTL
  DEF Spec, ImplementsHandover, Handover!Spec

=============================================================================
