--------------------------- MODULE LeaderElection ---------------------------
(***************************************************************************)
(* The leader election of the Controller Service: every controller runs a  *)
(* LeaderElectionObject whose Run thread is woken by announcements,        *)
(* session callbacks, method replies and the election alarm.  A controller *)
(* is named by its rank.  The AllJoyn bus (announcements, sessions, method *)
(* calls) is the environment, modelled from how the elector uses it.       *)
(***************************************************************************)
EXTENDS Naturals, FiniteSets

CONSTANTS
  Node,        \* the controllers, each named by its rank
  Stamps,      \* announcement timestamps and session ids, reused when free
  MaxWake,     \* bound: posts of wakeSem beyond this many are not counted
  Mortal,      \* the controllers that may crash
  Stoppable,   \* the controllers that may be stopped and restarted
  MaxStops,    \* bound: how often each of them is stopped
  Announcers,  \* the controllers that announce themselves at other times too
  Apps,        \* TRUE: client applications share the multipoint sessions
  Faults       \* which calls may misbehave

FaultKinds == {"joinCall", "methodCall", "timeout", "leave", "danglingName"}

ASSUME ConstantsAssumption ==
  /\ Node \subseteq Nat \ {0}
  /\ IsFiniteSet(Node)
  /\ Stamps \subseteq Nat \ {0}
  /\ MaxWake \in Nat \ {0}
  /\ Mortal \subseteq Node
  /\ Stoppable \subseteq Node
  /\ MaxStops \in Nat
  /\ Announcers \subseteq Node
  /\ Apps \in BOOLEAN
  /\ Faults \subseteq FaultKinds

VARIABLES
  \* the elector object of each controller
  isRunning, pc, wakeSem,
  alarmOn, alarmTriggered,
  isLeader, updatesAllowed,
  startElection, okToSetAlarm, gotOverthrowReply,
  controllersMap, currentLeader, proxyObj, outGoingLeader, upComingLeader,
  overThrowList, joinReplies, sessionLostList, sessionMemberRemoved,
  \* the bus
  alive, stops, about, undelivered, joining, sessions, ending, calls

threadVars == <<isRunning, pc, wakeSem>>
alarmVars  == <<alarmOn, alarmTriggered>>
roleVars   == <<isLeader, updatesAllowed, about, undelivered>>
flagVars   == <<startElection, okToSetAlarm, gotOverthrowReply>>
linkVars   == <<currentLeader, proxyObj, outGoingLeader>>
eventVars  == <<joinReplies, sessionLostList, sessionMemberRemoved>>
netVars    == <<joining, sessions, ending, calls>>
hostVars   == <<alive, stops>>

vars == <<threadVars, alarmVars, roleVars, flagVars, controllersMap, linkVars,
          upComingLeader, overThrowList, eventVars, hostVars, netVars>>

-----------------------------------------------------------------------------
(* Data.  A ControllerEntry is its rank and announcement timestamp; rank 0 *)
(* is the rank of a cleared entry, timestamp 0 a rank absent from the map. *)

Ctl     == [rank : Node, ts : Stamps]
NoCtl   == [rank |-> 0, ts |-> 0]
Entry   == [leader : BOOLEAN, ts : Stamps \cup {0}]
NoEntry == [leader |-> FALSE, ts |-> 0]
Sid     == [host : Node, ep : Stamps]
NoSid   == [host |-> 0, ep |-> 0]

JoinReply == [ctl : Ctl, status : {"ok"}, sid : Sid] \cup
             [ctl : Ctl, status : {"already", "failed"}, sid : {NoSid}]
Removal   == [sid : Sid, who : Node \cup {0}]      \* who = 0: a client app
Ending    == [sid : Sid, kind : {"lost", "removed"}]
Call      == [from : Node, to : Node,
              kind : {"checksum", "blob", "overthrow"},
              st : {"sent", "queued", "replied", "granted", "refused"}]

ThreadTypes ==
  /\ isRunning \in [Node -> BOOLEAN]
  /\ pc \in [Node -> {"off", "wait", "loop", "alarm"}]
  /\ wakeSem \in [Node -> 0 .. MaxWake]

AlarmTypes ==
  /\ alarmOn \in [Node -> BOOLEAN]
  /\ alarmTriggered \in [Node -> BOOLEAN]

RoleTypes ==
  /\ isLeader \in [Node -> BOOLEAN]
  /\ updatesAllowed \in [Node -> BOOLEAN]
  /\ about \in [Node -> BOOLEAN]
  /\ undelivered \in [Node -> SUBSET Node]

FlagTypes ==
  /\ startElection \in [Node -> BOOLEAN]
  /\ okToSetAlarm \in [Node -> BOOLEAN]
  /\ gotOverthrowReply \in [Node -> BOOLEAN]

LinkTypes ==
  /\ currentLeader \in [Node -> Ctl \cup {NoCtl}]
  /\ proxyObj \in [Node -> Sid \cup {NoSid}]
  /\ outGoingLeader \in [Node -> Ctl \cup {NoCtl}]

EventTypes ==
  /\ joinReplies \in [Node -> SUBSET JoinReply]
  /\ sessionLostList \in [Node -> SUBSET Sid]
  /\ sessionMemberRemoved \in [Node -> SUBSET Removal]

HostTypes ==
  /\ alive \in [Node -> BOOLEAN]
  /\ stops \in [Node -> 0 .. MaxStops]

NetTypes ==
  /\ joining \in [Node -> SUBSET Ctl]
  /\ sessions \in [Node -> SUBSET Sid]
  /\ ending \in [Node -> SUBSET Ending]
  /\ calls \subseteq Call

TypeOK ==
  /\ ThreadTypes /\ AlarmTypes /\ RoleTypes /\ FlagTypes
  /\ LinkTypes /\ EventTypes /\ HostTypes /\ NetTypes
  /\ controllersMap \in [Node -> [Node -> Entry]]
  /\ upComingLeader \in [Node -> Ctl \cup {NoCtl}]
  /\ overThrowList \in [Node -> SUBSET Node]

Init ==
  /\ isRunning = [n \in Node |-> FALSE]
  /\ pc = [n \in Node |-> "off"]
  /\ wakeSem = [n \in Node |-> 0]
  /\ alarmOn = [n \in Node |-> FALSE]
  /\ alarmTriggered = [n \in Node |-> FALSE]
  /\ isLeader = [n \in Node |-> FALSE]
  /\ updatesAllowed = [n \in Node |-> FALSE]
  /\ startElection = [n \in Node |-> TRUE]
  /\ okToSetAlarm = [n \in Node |-> TRUE]
  /\ gotOverthrowReply = [n \in Node |-> FALSE]
  /\ controllersMap = [n \in Node |-> [r \in Node |-> NoEntry]]
  /\ currentLeader = [n \in Node |-> NoCtl]
  /\ proxyObj = [n \in Node |-> NoSid]
  /\ outGoingLeader = [n \in Node |-> NoCtl]
  /\ upComingLeader = [n \in Node |-> NoCtl]
  /\ overThrowList = [n \in Node |-> {}]
  /\ joinReplies = [n \in Node |-> {}]
  /\ sessionLostList = [n \in Node |-> {}]
  /\ sessionMemberRemoved = [n \in Node |-> {}]
  /\ alive = [n \in Node |-> TRUE]
  /\ stops = [n \in Node |-> 0]
  /\ about = [n \in Node |-> FALSE]
  /\ undelivered = [n \in Node |-> {}]
  /\ joining = [n \in Node |-> {}]
  /\ sessions = [n \in Node |-> {}]
  /\ ending = [n \in Node |-> {}]
  /\ calls = {}

-----------------------------------------------------------------------------
(* Helpers. *)

Known(n)   == {r \in Node : controllersMap[n][r].ts # 0}
Leaders(n) == {r \in Known(n) : controllersMap[n][r].leader}
Highest(r, S) == r \in S /\ \A q \in S : q <= r

CtlOf(n, r) == [rank |-> r, ts |-> controllersMap[n][r].ts]

\* The timestamps that entry r has in any copy n still holds.
StampsInUse(n, r) ==
  {controllersMap[n][r].ts} \cup
  {c.ts : c \in {d \in {currentLeader[n], outGoingLeader[n], upComingLeader[n]}
                       \cup joining[n] \cup {j.ctl : j \in joinReplies[n]} :
                  d.rank = r}}

\* The session ids of host h that member n still holds.
IdsInUse(n, h) ==
  {s.ep : s \in {d \in {proxyObj[n]} \cup sessions[n] \cup sessionLostList[n]
                       \cup {j.sid : j \in joinReplies[n]}
                       \cup {x.sid : x \in sessionMemberRemoved[n]}
                       \cup {e.sid : e \in ending[n]} : d.host = h}}

\* Only equality of stamps matters, so the least free one will do.
IsFresh(t, used) == t \notin used /\ \A k \in Stamps \ used : t <= k

Post(n) == wakeSem' = [wakeSem EXCEPT ![n] = IF @ < MaxWake THEN @ + 1 ELSE @]

SetAlarm(n, on) == alarmOn' = [alarmOn EXCEPT ![n] = on]

\* Handler::Announced cares for a potential leader or an existent one.
Cares(m, r, leads) == r > m \/ leads

\* Mutation: the about data changes without an announcement.
SetIsLeaderUnannounced(n, val) ==
  /\ about' = [about EXCEPT ![n] = val]
  /\ UNCHANGED undelivered

\* SetIsLeader: the new value goes out as an announcement, which replaces an
\* older one of the same controller that was not delivered yet.
SetIsLeader(n, val) ==
  /\ about' = [about EXCEPT ![n] = val]
  /\ undelivered' = [m \in Node |->
       IF m # n /\ isRunning[m] /\ Cares(m, n, val)
       THEN undelivered[m] \cup {n} ELSE undelivered[m] \ {n}]

\* Mutation: the new leader does not allow updates.
TakeOverClosed(n) ==
  /\ UNCHANGED updatesAllowed
  /\ SetIsLeader(n, TRUE)
  /\ isLeader' = [isLeader EXCEPT ![n] = TRUE]
  /\ okToSetAlarm' = [okToSetAlarm EXCEPT ![n] = FALSE]
  /\ SetAlarm(n, FALSE)

\* The flags and announcements of a controller that takes over.
TakeOver(n) ==
  /\ updatesAllowed' = [updatesAllowed EXCEPT ![n] = TRUE]
  /\ SetIsLeader(n, TRUE)
  /\ isLeader' = [isLeader EXCEPT ![n] = TRUE]
  /\ okToSetAlarm' = [okToSetAlarm EXCEPT ![n] = FALSE]
  /\ SetAlarm(n, FALSE)

\* ControllerService::LeaveSession of host n, or its disappearance: every
\* member sees the session end, or only the host leave when others remain.
HostLeaves(n, old) ==
  LET members == {m \in Node : \E s \in old[m] : s.host = n}
      kind == IF ~ Apps /\ Cardinality(members) = 1 THEN "lost" ELSE "removed"
  IN  /\ sessions' = [m \in Node |-> {s \in old[m] : s.host # n}]
      /\ ending' = [m \in Node |-> ending[m] \cup
                      {[sid |-> s, kind |-> kind] :
                          s \in {q \in old[m] : q.host = n}}]

\* Mutation: the challenger outlives the leadership.
StepDownKeepsChallenger(n) ==
  /\ HostLeaves(n, sessions)
  /\ updatesAllowed' = [updatesAllowed EXCEPT ![n] = FALSE]
  /\ SetIsLeader(n, FALSE)
  /\ isLeader' = [isLeader EXCEPT ![n] = FALSE]
  /\ UNCHANGED upComingLeader
  /\ SetAlarm(n, FALSE)

\* The leader tears its sessions down and says that it leads no longer.
StepDown(n) ==
  /\ HostLeaves(n, sessions)
  /\ updatesAllowed' = [updatesAllowed EXCEPT ![n] = FALSE]
  /\ SetIsLeader(n, FALSE)
  /\ isLeader' = [isLeader EXCEPT ![n] = FALSE]
  /\ upComingLeader' = [upComingLeader EXCEPT ![n] = NoCtl]
  /\ SetAlarm(n, FALSE)

\* Mutation: sessions are forgotten rather than left.
LeaveNoSession(n, sids) == UNCHANGED sessions

\* DoLeaveSessionAsync: the routing node may answer that leaving failed,
\* which LeaveSessionAsyncReplyHandler ignores.
LeaveSessions(n, sids) ==
  \/ sessions' = [sessions EXCEPT ![n] = @ \ sids]
  \/ "leave" \in Faults /\ UNCHANGED sessions

\* The entry of c leaves the map unless it was announced anew or demoted.
EraseLeader(map, c) ==
  IF c.rank # 0 /\ map[c.rank].leader /\ map[c.rank].ts = c.ts
  THEN [map EXCEPT ![c.rank] = NoEntry] ELSE map

\* The end of an inner iteration: loop back, wait, or leave the thread.
EndPass(n, loopBack) ==
  pc' = [pc EXCEPT ![n] = IF loopBack THEN "loop"
                          ELSE IF isRunning[n] THEN "wait" ELSE "off"]

InLoop(n) == alive[n] /\ pc[n] = "loop"

\* The follower branch that looks for, joins or watches a leader.
Following(n) ==
  /\ InLoop(n)
  /\ ~ isLeader[n]
  /\ ~ (gotOverthrowReply[n] /\ outGoingLeader[n].rank # 0)
  /\ ~ startElection[n]

-----------------------------------------------------------------------------
(* The thread: start, wake up, stop. *)

\* LeaderElectionObject::Connected, from Start or from the OEM network
\* callback: WhoImplements has every live controller announce itself again.
Connected(n) ==
  /\ alive[n]
  /\ pc[n] = "off"
  /\ ~ isRunning[n]
  /\ isRunning' = [isRunning EXCEPT ![n] = TRUE]
  /\ pc' = [pc EXCEPT ![n] = "wait"]
  /\ Post(n)
  /\ undelivered' = [undelivered EXCEPT ![n] =
                       {m \in Node \ {n} : /\ alive[m]
                                           /\ isRunning[m] \/ about[m]
                                           /\ Cares(n, m, about[m])}]
  /\ UNCHANGED <<alarmVars, isLeader, updatesAllowed, about, flagVars,
                 controllersMap, linkVars, upComingLeader, overThrowList,
                 eventVars, hostVars, netVars>>

\* Stop, called by Disconnected and by ControllerService::Stop; Disconnected
\* then joins the thread, so Connected has to wait until it is off.
Stop(n) ==
  /\ n \in Stoppable
  /\ alive[n]
  /\ isRunning[n]
  /\ stops[n] < MaxStops
  /\ stops' = [stops EXCEPT ![n] = @ + 1]
  /\ isRunning' = [isRunning EXCEPT ![n] = FALSE]
  /\ undelivered' = [undelivered EXCEPT ![n] = {}]
  /\ Post(n)
  /\ UNCHANGED <<pc, alarmVars, isLeader, updatesAllowed, about, flagVars,
                 controllersMap, linkVars, upComingLeader, overThrowList,
                 eventVars, alive, netVars>>

\* wakeSem.Wait() returns in a running elector.
WakeUp(n) ==
  /\ alive[n]
  /\ pc[n] = "wait"
  /\ isRunning[n]
  /\ wakeSem[n] > 0
  /\ wakeSem' = [wakeSem EXCEPT ![n] = @ - 1]
  /\ pc' = [pc EXCEPT ![n] = "loop"]
  /\ UNCHANGED <<isRunning, alarmVars, roleVars, flagVars, controllersMap,
                 linkVars, upComingLeader, overThrowList, eventVars, hostVars,
                 netVars>>

ClearState(n) ==
  /\ overThrowList' = [overThrowList EXCEPT ![n] = {}]
  /\ upComingLeader' = [upComingLeader EXCEPT ![n] = NoCtl]
  /\ SetAlarm(n, FALSE)
  /\ controllersMap' = [controllersMap EXCEPT ![n] = [r \in Node |-> NoEntry]]
  /\ alarmTriggered' = [alarmTriggered EXCEPT ![n] = FALSE]
  /\ gotOverthrowReply' = [gotOverthrowReply EXCEPT ![n] = FALSE]
  /\ okToSetAlarm' = [okToSetAlarm EXCEPT ![n] = TRUE]
  /\ startElection' = [startElection EXCEPT ![n] = TRUE]
  /\ currentLeader' = [currentLeader EXCEPT ![n] = NoCtl]
  /\ proxyObj' = [proxyObj EXCEPT ![n] = NoSid]
  /\ outGoingLeader' = [outGoingLeader EXCEPT ![n] = NoCtl]
  /\ joinReplies' = [joinReplies EXCEPT ![n] = {}]
  /\ sessionLostList' = [sessionLostList EXCEPT ![n] = {}]
  /\ sessionMemberRemoved' = [sessionMemberRemoved EXCEPT ![n] = {}]

\* wakeSem.Wait() returns in a stopped elector: announce self as non-leader
\* or leave the leader's session, clear the state and go away.
ShutDown(n) ==
  /\ alive[n]
  /\ pc[n] = "wait"
  /\ ~ isRunning[n]
  /\ wakeSem[n] > 0
  /\ wakeSem' = [wakeSem EXCEPT ![n] = @ - 1]
  /\ IF isLeader[n]
     THEN /\ HostLeaves(n, sessions)
          /\ updatesAllowed' = [updatesAllowed EXCEPT ![n] = FALSE]
          /\ SetIsLeader(n, FALSE)
          /\ isLeader' = [isLeader EXCEPT ![n] = FALSE]
     ELSE /\ LeaveSessions(n, {proxyObj[n]})
          /\ UNCHANGED <<roleVars, ending>>
  /\ ClearState(n)
  /\ pc' = [pc EXCEPT ![n] = "off"]
  /\ UNCHANGED <<isRunning, hostVars, joining, calls>>

-----------------------------------------------------------------------------
(* Run, as the leader. *)

\* Mutation: every Overthrow is granted.
AnsweredAll(n, granted) ==
  calls' = {IF c.to = n /\ c.st = "queued"
            THEN [c EXCEPT !.st = "granted"] ELSE c : c \in calls}

\* The first part of the leader's iteration, its Overthrow requests: the one
\* of the announced challenger is granted and ends the leadership, the others
\* are refused.  A reply to a call that timed out is dropped by the bus.
Answered(n, granted) ==
  calls' = {IF c.to = n /\ c.st = "queued"
            THEN [c EXCEPT !.st = IF c.from \in granted THEN "granted"
                                                         ELSE "refused"]
            ELSE c : c \in calls}

Overthrown(n) ==
  /\ InLoop(n)
  /\ isLeader[n]
  /\ upComingLeader[n].rank \in overThrowList[n]
  /\ Answered(n, {upComingLeader[n].rank})
  /\ overThrowList' = [overThrowList EXCEPT ![n] = {}]
  /\ StepDown(n)
  /\ EndPass(n, TRUE)
  /\ UNCHANGED <<isRunning, wakeSem, alarmTriggered, flagVars, controllersMap,
                 linkVars, eventVars, hostVars, joining>>

\* Another leader of a higher rank was announced: tear down and follow it.
Outranked(n) ==
  /\ InLoop(n)
  /\ isLeader[n]
  /\ upComingLeader[n].rank \notin overThrowList[n]
  /\ \E r \in Leaders(n) : r > n
  /\ Answered(n, {})
  /\ overThrowList' = [overThrowList EXCEPT ![n] = {}]
  /\ alarmTriggered' = [alarmTriggered EXCEPT ![n] = FALSE]
  /\ StepDown(n)
  /\ EndPass(n, TRUE)
  /\ UNCHANGED <<isRunning, wakeSem, flagVars, controllersMap, linkVars,
                 eventVars, hostVars, joining>>

\* Mutation: the rank of a challenger is not compared.
ChallengersOfAnyRank(n) == {r \in Known(n) : r # upComingLeader[n].rank}

\* Controllers of a higher rank other than the challenger already noted.
Challengers(n) == {r \in Known(n) : r > n /\ r # upComingLeader[n].rank}

\* No higher leader: note the highest challenger, block updates and set the
\* alarm.  A leader found in the map, though of a lower rank, also consumes
\* alarmTriggered and keeps the alarm branch from doing anything.
CheckChallengers(n) ==
  /\ InLoop(n)
  /\ isLeader[n]
  /\ upComingLeader[n].rank \notin overThrowList[n]
  /\ \A r \in Leaders(n) : r <= n
  /\ Answered(n, {})
  /\ overThrowList' = [overThrowList EXCEPT ![n] = {}]
  /\ \/ \E r \in Node :
          /\ Highest(r, Challengers(n))
          /\ upComingLeader' = [upComingLeader EXCEPT ![n] = CtlOf(n, r)]
          /\ updatesAllowed' = [updatesAllowed EXCEPT ![n] = FALSE]
          /\ SetAlarm(n, TRUE)
     \/ /\ Challengers(n) = {}
        /\ UNCHANGED <<upComingLeader, updatesAllowed, alarmOn>>
  /\ IF Leaders(n) # {}
     THEN /\ alarmTriggered' = [alarmTriggered EXCEPT ![n] = FALSE]
          /\ EndPass(n, FALSE)
     ELSE /\ pc' = [pc EXCEPT ![n] = "alarm"]
          /\ UNCHANGED alarmTriggered
  /\ UNCHANGED <<isRunning, wakeSem, isLeader, about, undelivered, flagVars,
                 controllersMap, linkVars, eventVars, hostVars, joining, sessions,
                 ending>>

\* The alarm branch: the coup did not go through, so forget the challenger
\* and allow updates, unless it was announced as leader in the meantime.
CheckAlarm(n) ==
  LET up == upComingLeader[n]
      found == up.rank \in Known(n)
  IN  /\ alive[n]
      /\ pc[n] = "alarm"
      /\ alarmTriggered' = [alarmTriggered EXCEPT ![n] = FALSE]
      /\ IF alarmTriggered[n] /\ found /\ ~ controllersMap[n][up.rank].leader
         THEN /\ controllersMap' = [controllersMap EXCEPT ![n][up.rank] =
                                      IF @.ts = up.ts THEN NoEntry ELSE @]
              /\ upComingLeader' = [upComingLeader EXCEPT ![n] = NoCtl]
              /\ updatesAllowed' = [updatesAllowed EXCEPT ![n] = TRUE]
         ELSE UNCHANGED <<controllersMap, upComingLeader, updatesAllowed>>
      /\ EndPass(n, /\ alarmTriggered[n]
                    /\ found
                    /\ controllersMap[n][up.rank].leader)
      /\ UNCHANGED <<isRunning, wakeSem, alarmOn, isLeader, about, undelivered,
                     flagVars, linkVars, overThrowList, eventVars, hostVars,
                     netVars>>

-----------------------------------------------------------------------------
(* Run, as a follower. *)

\* gotOverthrowReply while a coup is under way: the coup was successful.
TakeOverAfterReply(n) ==
  /\ InLoop(n)
  /\ ~ isLeader[n]
  /\ gotOverthrowReply[n]
  /\ outGoingLeader[n].rank # 0
  /\ gotOverthrowReply' = [gotOverthrowReply EXCEPT ![n] = FALSE]
  /\ LeaveSessions(n, {proxyObj[n]})
  /\ currentLeader' = [currentLeader EXCEPT ![n] = NoCtl]
  /\ proxyObj' = [proxyObj EXCEPT ![n] = NoSid]
  /\ controllersMap' = [controllersMap EXCEPT ![n] =
                          EraseLeader(@, outGoingLeader[n])]
  /\ outGoingLeader' = [outGoingLeader EXCEPT ![n] = NoCtl]
  /\ TakeOver(n)
  /\ EndPass(n, FALSE)
  /\ UNCHANGED <<isRunning, wakeSem, alarmTriggered, startElection,
                 upComingLeader, overThrowList, eventVars, hostVars, joining,
                 ending, calls>>

StartElection(n) ==
  /\ InLoop(n)
  /\ ~ isLeader[n]
  /\ ~ (gotOverthrowReply[n] /\ outGoingLeader[n].rank # 0)
  /\ startElection[n]
  /\ startElection' = [startElection EXCEPT ![n] = FALSE]
  /\ updatesAllowed' = [updatesAllowed EXCEPT ![n] = FALSE]
  /\ SetIsLeader(n, FALSE)
  /\ SetAlarm(n, TRUE)
  /\ EndPass(n, FALSE)
  /\ UNCHANGED <<isRunning, wakeSem, alarmTriggered, isLeader, okToSetAlarm,
                 gotOverthrowReply, controllersMap, linkVars, upComingLeader,
                 overThrowList, eventVars, hostVars, netVars>>

Looking(n) == Following(n) /\ currentLeader[n].rank = 0

\* A leader is known: join its session; a leader of a lower rank is to be
\* overthrown.  JoinSessionAsync itself may fail.
JoinLeader(n) ==
  /\ Looking(n)
  /\ \E r \in Node :
       /\ Highest(r, Leaders(n))
       /\ outGoingLeader' = [outGoingLeader EXCEPT ![n] =
                               IF r < n THEN CtlOf(n, r) ELSE @]
       /\ \/ /\ joining' = [joining EXCEPT ![n] = @ \cup {CtlOf(n, r)}]
             /\ currentLeader' = [currentLeader EXCEPT ![n] = CtlOf(n, r)]
             /\ SetAlarm(n, FALSE)
             /\ UNCHANGED controllersMap
          \/ /\ "joinCall" \in Faults
             /\ controllersMap' = [controllersMap EXCEPT ![n][r] = NoEntry]
             /\ UNCHANGED <<joining, currentLeader, alarmOn>>
  /\ okToSetAlarm' = [okToSetAlarm EXCEPT ![n] = FALSE]
  /\ EndPass(n, FALSE)
  /\ UNCHANGED <<isRunning, wakeSem, alarmTriggered, roleVars, startElection,
                 gotOverthrowReply, proxyObj, upComingLeader, overThrowList,
                 eventVars, hostVars, sessions, ending, calls>>

\* No leader is known and at most one other controller: take over, whether
\* or not it was the alarm that woke the thread.
TakeOverUnopposed(n) ==
  /\ Looking(n)
  /\ Leaders(n) = {}
  /\ Cardinality(Known(n)) <= 1
  /\ controllersMap' = [controllersMap EXCEPT ![n] = [r \in Node |-> NoEntry]]
  /\ alarmTriggered' = [alarmTriggered EXCEPT ![n] = FALSE]
  /\ TakeOver(n)
  /\ EndPass(n, FALSE)
  /\ UNCHANGED <<isRunning, wakeSem, startElection, gotOverthrowReply, linkVars,
                 upComingLeader, overThrowList, eventVars, hostVars, netVars>>

\* Several controllers are known and none leads: wait for an announcement.
KeepLooking(n) ==
  /\ Looking(n)
  /\ Leaders(n) = {}
  /\ Cardinality(Known(n)) > 1
  /\ EndPass(n, FALSE)
  /\ UNCHANGED <<isRunning, wakeSem, alarmVars, roleVars, flagVars,
                 controllersMap, linkVars, upComingLeader, overThrowList,
                 eventVars, hostVars, netVars>>

\* The JoinSession replies of the leader being joined, by status.
Connecting(n) ==
  /\ Following(n)
  /\ currentLeader[n].rank # 0
  /\ proxyObj[n] = NoSid

RepliesOf(n, status) == {j \in joinReplies[n] : j.status = status}

JoinFailed(n) ==
  \E j \in RepliesOf(n, "failed") : j.ctl = currentLeader[n]

\* The leader could not be joined.  In a coup, forcefully take over; either
\* way drop its entry and loop back.
ConnectFailed(n) ==
  /\ Connecting(n)
  /\ JoinFailed(n)
  /\ joinReplies' = [joinReplies EXCEPT ![n] = {}]
  /\ currentLeader' = [currentLeader EXCEPT ![n] = NoCtl]
  /\ IF outGoingLeader[n].rank # 0
     THEN /\ controllersMap' = [controllersMap EXCEPT ![n] =
               EraseLeader(EraseLeader(@, outGoingLeader[n]), currentLeader[n])]
          /\ outGoingLeader' = [outGoingLeader EXCEPT ![n] = NoCtl]
          /\ TakeOver(n)
     ELSE /\ controllersMap' = [controllersMap EXCEPT ![n] =
               EraseLeader(@, currentLeader[n])]
          /\ UNCHANGED <<outGoingLeader, roleVars, okToSetAlarm, alarmOn>>
  /\ EndPass(n, TRUE)
  /\ UNCHANGED <<isRunning, wakeSem, alarmTriggered, startElection,
                 gotOverthrowReply, proxyObj, upComingLeader, overThrowList,
                 sessionLostList, sessionMemberRemoved, hostVars, netVars>>

\* The bus says the session is already joined: the thread loops back, and
\* the replies are gone, so nothing is attempted anew.
ConnectAlreadyJoined(n) ==
  /\ Connecting(n)
  /\ ~ JoinFailed(n)
  /\ RepliesOf(n, "already") # {}
  /\ joinReplies' = [joinReplies EXCEPT ![n] = {}]
  /\ EndPass(n, TRUE)
  /\ UNCHANGED <<isRunning, wakeSem, alarmVars, roleVars, flagVars,
                 controllersMap, linkVars, upComingLeader, overThrowList,
                 sessionLostList, sessionMemberRemoved, hostVars, netVars>>

\* The leader was joined: ask it for its checksums, as the first step of the
\* coup or to synchronise.  Sessions joined for older attempts are left.
ConnectSucceeded(n) ==
  /\ Connecting(n)
  /\ ~ JoinFailed(n)
  /\ RepliesOf(n, "already") = {}
  /\ joinReplies' = [joinReplies EXCEPT ![n] = {}]
  /\ \E j \in RepliesOf(n, "ok") :
       LET strays == {i.sid : i \in RepliesOf(n, "ok")} \ {j.sid}
           coup == outGoingLeader[n].rank # 0
       IN  /\ j.ctl = currentLeader[n]
           /\ \/ /\ proxyObj' = [proxyObj EXCEPT ![n] = j.sid]
                 /\ \/ calls' = calls \cup
                         {[from |-> n, to |-> j.sid.host, kind |-> "checksum",
                           st |-> "sent"]}
                    \/ ~ coup /\ "methodCall" \in Faults /\ UNCHANGED calls
                 /\ LeaveSessions(n, strays)
                 /\ UNCHANGED <<currentLeader, outGoingLeader, controllersMap,
                                roleVars, okToSetAlarm, alarmOn>>
              \/ /\ coup /\ "methodCall" \in Faults
                 /\ LeaveSessions(n, strays \cup {j.sid})
                 /\ currentLeader' = [currentLeader EXCEPT ![n] = NoCtl]
                 /\ controllersMap' = [controllersMap EXCEPT ![n] =
                                         EraseLeader(@, outGoingLeader[n])]
                 /\ outGoingLeader' = [outGoingLeader EXCEPT ![n] = NoCtl]
                 /\ TakeOver(n)
                 /\ UNCHANGED <<proxyObj, calls>>
  /\ EndPass(n, FALSE)
  /\ UNCHANGED <<isRunning, wakeSem, alarmTriggered, startElection,
                 gotOverthrowReply, upComingLeader, overThrowList,
                 sessionLostList, sessionMemberRemoved, hostVars, joining, ending>>

\* No reply is about the leader being joined.
ConnectPending(n) ==
  /\ Connecting(n)
  /\ ~ JoinFailed(n)
  /\ RepliesOf(n, "already") = {}
  /\ \A j \in RepliesOf(n, "ok") : j.ctl # currentLeader[n]
  /\ joinReplies' = [joinReplies EXCEPT ![n] = {}]
  /\ LeaveSessions(n, {j.sid : j \in RepliesOf(n, "ok")})
  /\ EndPass(n, FALSE)
  /\ UNCHANGED <<isRunning, wakeSem, alarmVars, roleVars, flagVars,
                 controllersMap, linkVars, upComingLeader, overThrowList,
                 sessionLostList, sessionMemberRemoved, hostVars, joining, ending,
                 calls>>

ConnectedToLeader(n) == Following(n) /\ proxyObj[n] # NoSid

\* The session events collected since the last pass are consumed.
TakeSessionEvents(n) ==
  /\ sessionLostList' = [sessionLostList EXCEPT ![n] = {}]
  /\ sessionMemberRemoved' = [sessionMemberRemoved EXCEPT ![n] = {}]

SessionLost(n) == proxyObj[n] \in sessionLostList[n]
LeaderRemoved(n) ==
  [sid |-> proxyObj[n], who |-> currentLeader[n].rank]
    \in sessionMemberRemoved[n]

\* Let go of the current leader: its entry is erased unless newer.
DropLeader(n) ==
  /\ controllersMap' = [controllersMap EXCEPT ![n] =
                          EraseLeader(@, currentLeader[n])]
  /\ currentLeader' = [currentLeader EXCEPT ![n] = NoCtl]
  /\ proxyObj' = [proxyObj EXCEPT ![n] = NoSid]

LeaderLost(n) ==
  /\ ConnectedToLeader(n)
  /\ SessionLost(n) \/ LeaderRemoved(n)
  /\ TakeSessionEvents(n)
  /\ IF SessionLost(n) THEN UNCHANGED sessions
                       ELSE LeaveSessions(n, {proxyObj[n]})
  /\ DropLeader(n)
  /\ EndPass(n, TRUE)
  /\ UNCHANGED <<isRunning, wakeSem, alarmVars, roleVars, flagVars,
                 outGoingLeader, upComingLeader, overThrowList, joinReplies,
                 hostVars, joining, ending, calls>>

\* The name kept in sessionMemberRemoved belonged to the callback's message,
\* so the comparison may also read something else than the leader's name.
LeaderPresent(n) ==
  /\ ~ SessionLost(n)
  /\ LeaderRemoved(n) => "danglingName" \in Faults

HigherLeader(n) ==
  /\ currentLeader[n].rank \in Known(n)
  /\ \E r \in Leaders(n) : r > currentLeader[n].rank

\* A leader of a higher rank came up: leave for it.
SwitchLeader(n) ==
  /\ ConnectedToLeader(n)
  /\ LeaderPresent(n)
  /\ HigherLeader(n)
  /\ TakeSessionEvents(n)
  /\ LeaveSessions(n, {proxyObj[n]})
  /\ DropLeader(n)
  /\ EndPass(n, TRUE)
  /\ UNCHANGED <<isRunning, wakeSem, alarmVars, roleVars, flagVars,
                 outGoingLeader, upComingLeader, overThrowList, joinReplies,
                 hostVars, joining, ending, calls>>

StayWithLeader(n) ==
  /\ ConnectedToLeader(n)
  /\ LeaderPresent(n)
  /\ ~ HigherLeader(n)
  /\ TakeSessionEvents(n)
  /\ EndPass(n, FALSE)
  /\ UNCHANGED <<isRunning, wakeSem, alarmVars, roleVars, flagVars,
                 controllersMap, linkVars, upComingLeader, overThrowList,
                 joinReplies, hostVars, netVars>>

Run(n) ==
  \/ WakeUp(n) \/ ShutDown(n)
  \/ Overthrown(n) \/ Outranked(n) \/ CheckChallengers(n) \/ CheckAlarm(n)
  \/ TakeOverAfterReply(n) \/ StartElection(n)
  \/ JoinLeader(n) \/ TakeOverUnopposed(n) \/ KeepLooking(n)
  \/ ConnectFailed(n) \/ ConnectAlreadyJoined(n) \/ ConnectSucceeded(n)
  \/ ConnectPending(n)
  \/ LeaderLost(n) \/ SwitchLeader(n) \/ StayWithLeader(n)

-----------------------------------------------------------------------------
(* Callbacks. *)

\* The rank of the last entry of the map, or the own one of an empty map.
AtLeastLastTracked(n, r) ==
  /\ Known(n) = {} => r >= n
  /\ \A k \in Known(n) : r >= k

\* OnAnnounced: the entry is inserted or replaced; a
\* possible leader reloads the alarm, anything else wakes the thread.
Announced(n, r) ==
  /\ alive[n]
  /\ r \in undelivered[n]
  /\ undelivered' = [undelivered EXCEPT ![n] = @ \ {r}]
  /\ \E t \in Stamps :
       /\ IsFresh(t, StampsInUse(n, r))
       /\ controllersMap' = [controllersMap EXCEPT ![n][r] =
                               [leader |-> about[r], ts |-> t]]
  /\ IF okToSetAlarm[n] /\ ~ about[r]
     THEN /\ alarmOn' = [alarmOn EXCEPT ![n] = @ \/ AtLeastLastTracked(n, r)]
          /\ UNCHANGED wakeSem
     ELSE /\ Post(n)
          /\ UNCHANGED alarmOn
  /\ UNCHANGED <<isRunning, pc, alarmTriggered, isLeader, updatesAllowed, about,
                 flagVars, linkVars, upComingLeader, overThrowList, eventVars,
                 hostVars, netVars>>

AlarmTriggered(n) ==
  /\ alive[n]
  /\ alarmOn[n]
  /\ SetAlarm(n, FALSE)
  /\ alarmTriggered' = [alarmTriggered EXCEPT ![n] = TRUE]
  /\ Post(n)
  /\ UNCHANGED <<isRunning, pc, roleVars, flagVars, controllersMap, linkVars,
                 upComingLeader, overThrowList, eventVars, hostVars, netVars>>

\* The outcome of a JoinSessionAsync.  A host accepts while its about data
\* says it leads; a second success for the same rank is not recorded.
JoinOutcome(n, c, status, sid) ==
  /\ alive[n]
  /\ c \in joining[n]
  /\ joining' = [joining EXCEPT ![n] = @ \ {c}]
  /\ joinReplies' = [joinReplies EXCEPT ![n] =
       IF status = "ok" /\ \E j \in RepliesOf(n, "ok") : j.ctl.rank = c.rank
       THEN @ ELSE @ \cup {[ctl |-> c, status |-> status, sid |-> sid]}]
  /\ Post(n)
  /\ UNCHANGED <<isRunning, pc, alarmVars, roleVars, flagVars, controllersMap,
                 linkVars, upComingLeader, overThrowList, sessionLostList,
                 sessionMemberRemoved, hostVars, ending, calls>>

IsMember(n, h) == \E s \in sessions[n] : s.host = h

OnSessionJoined(n, c) ==
  \/ /\ alive[c.rank] /\ about[c.rank] /\ ~ IsMember(n, c.rank)
     /\ \E t \in Stamps :
          LET sid == [host |-> c.rank, ep |-> t]
          IN  /\ IsFresh(t, IdsInUse(n, c.rank))
              /\ sessions' = [sessions EXCEPT ![n] = @ \cup {sid}]
              /\ JoinOutcome(n, c, "ok", sid)
  \/ /\ alive[c.rank] /\ IsMember(n, c.rank)
     /\ JoinOutcome(n, c, "already", NoSid)
     /\ UNCHANGED sessions
  \/ /\ ~ IsMember(n, c.rank)
     /\ ~ alive[c.rank] \/ ~ about[c.rank] \/ "joinCall" \in Faults
     /\ JoinOutcome(n, c, "failed", NoSid)
     /\ UNCHANGED sessions

\* SessionLost and SessionMemberRemoved; the map of removed members keeps the
\* first name of a session only.
Removed(n, sid, who) ==
  sessionMemberRemoved' = [sessionMemberRemoved EXCEPT ![n] =
    IF \E x \in @ : x.sid = sid THEN @ ELSE @ \cup {[sid |-> sid, who |-> who]}]

OnSessionLost(n, e) ==
  /\ alive[n]
  /\ e \in ending[n] /\ e.kind = "lost"
  /\ ending' = [ending EXCEPT ![n] = @ \ {e}]
  /\ sessionLostList' = [sessionLostList EXCEPT ![n] = @ \cup {e.sid}]
  /\ Post(n)
  /\ UNCHANGED <<isRunning, pc, alarmVars, roleVars, flagVars, controllersMap,
                 linkVars, upComingLeader, overThrowList, joinReplies,
                 sessionMemberRemoved, hostVars, joining, sessions, calls>>

OnSessionMemberRemoved(n, e) ==
  /\ alive[n]
  /\ e \in ending[n] /\ e.kind = "removed"
  /\ ending' = [ending EXCEPT ![n] = @ \ {e}]
  /\ Removed(n, e.sid, e.sid.host)
  /\ Post(n)
  /\ UNCHANGED <<isRunning, pc, alarmVars, roleVars, flagVars, controllersMap,
                 linkVars, upComingLeader, overThrowList, joinReplies,
                 sessionLostList, hostVars, joining, sessions, calls>>

\* A client application leaves a session that n is a member of.
AppLeaves(n) ==
  /\ Apps
  /\ alive[n]
  /\ \E s \in sessions[n] : Removed(n, s, 0)
  /\ Post(n)
  /\ UNCHANGED <<isRunning, pc, alarmVars, roleVars, flagVars, controllersMap,
                 linkVars, upComingLeader, overThrowList, joinReplies,
                 sessionLostList, hostVars, netVars>>

-----------------------------------------------------------------------------
(* Method calls of a controller that synchronises with, or overthrows, the *)
(* leader whose session it joined.                                         *)

\* GetChecksumAndModificationTimestamp and GetBlob at the leader: a call of
\* the challenger extends the alarm of its coup.
ServeStateSync(c) ==
  /\ c \in calls
  /\ c.kind \in {"checksum", "blob"} /\ c.st = "sent"
  /\ alive[c.to] /\ IsMember(c.from, c.to)
  /\ calls' = (calls \ {c}) \cup {[c EXCEPT !.st = "replied"]}
  /\ alarmOn' = [alarmOn EXCEPT ![c.to] = @ \/ c.from = upComingLeader[c.to].rank]
  /\ UNCHANGED <<threadVars, alarmTriggered, roleVars, flagVars, controllersMap,
                 linkVars, upComingLeader, overThrowList, eventVars, hostVars,
                 joining, sessions, ending>>

\* Overthrow at the leader: queued for the Run thread, which answers.
Overthrow(c) ==
  /\ c \in calls
  /\ c.kind = "overthrow" /\ c.st = "sent"
  /\ alive[c.to] /\ IsMember(c.from, c.to)
  /\ calls' = (calls \ {c}) \cup {[c EXCEPT !.st = "queued"]}
  /\ alarmOn' = [alarmOn EXCEPT ![c.to] = @ \/ c.from = upComingLeader[c.to].rank]
  /\ overThrowList' = [overThrowList EXCEPT ![c.to] = @ \cup {c.from}]
  /\ Post(c.to)
  /\ UNCHANGED <<isRunning, pc, alarmTriggered, roleVars, flagVars,
                 controllersMap, linkVars, upComingLeader, eventVars, hostVars,
                 joining, sessions, ending>>

\* Mutation: the Run thread is not woken for the answer.
GotOverthrowReplyQuietly(n) ==
  /\ gotOverthrowReply' = [gotOverthrowReply EXCEPT ![n] = TRUE]
  /\ UNCHANGED wakeSem

\* The handshake of a coup is over, or there was none: the caller does not
\* look at what the answer was.
GotOverthrowReply(n) ==
  /\ gotOverthrowReply' = [gotOverthrowReply EXCEPT ![n] = TRUE]
  /\ Post(n)

\* The reply with the checksums: nothing to fetch counts as the answer to the
\* Overthrow; otherwise the stale stores are fetched, as one batch of GetBlob.
OnGetChecksumAndModificationTimestampReply(c) ==
  /\ c \in calls
  /\ c.kind = "checksum" /\ c.st = "replied"
  /\ alive[c.from]
  /\ \/ /\ GotOverthrowReply(c.from)
        /\ calls' = calls \ {c}
     \/ /\ proxyObj[c.from] # NoSid
        /\ calls' = (calls \ {c}) \cup
              {[from |-> c.from, to |-> proxyObj[c.from].host, kind |-> "blob",
                st |-> "sent"]}
        /\ UNCHANGED <<gotOverthrowReply, wakeSem>>
  /\ UNCHANGED <<isRunning, pc, alarmVars, roleVars, startElection,
                 okToSetAlarm, controllersMap, linkVars, upComingLeader,
                 overThrowList, eventVars, hostVars, joining, sessions, ending>>

\* What follows the last GetBlob of the batch: a coup sends Overthrow, and a
\* call that cannot be sent counts as answered.
SyncFinished(c) ==
  LET n == c.from
      coup == outGoingLeader[n].rank # 0
  IN  \/ /\ ~ coup
         /\ calls' = calls \ {c}
         /\ UNCHANGED <<gotOverthrowReply, wakeSem>>
      \/ /\ coup /\ proxyObj[n] # NoSid
         /\ calls' = (calls \ {c}) \cup
               {[from |-> n, to |-> proxyObj[n].host, kind |-> "overthrow",
                 st |-> "sent"]}
         /\ UNCHANGED <<gotOverthrowReply, wakeSem>>
      \/ /\ coup
         /\ proxyObj[n] = NoSid \/ "methodCall" \in Faults
         /\ calls' = calls \ {c}
         /\ GotOverthrowReply(n)

OnGetBlobReply(c) ==
  /\ c \in calls
  /\ c.kind = "blob" /\ c.st = "replied"
  /\ alive[c.from]
  /\ SyncFinished(c)
  /\ UNCHANGED <<isRunning, pc, alarmVars, roleVars, startElection,
                 okToSetAlarm, controllersMap, linkVars, upComingLeader,
                 overThrowList, eventVars, hostVars, joining, sessions, ending>>

OnOverthrowReply(c) ==
  /\ c \in calls
  /\ c.kind = "overthrow" /\ c.st \in {"granted", "refused"}
  /\ alive[c.from]
  /\ calls' = calls \ {c}
  /\ GotOverthrowReply(c.from)
  /\ UNCHANGED <<isRunning, pc, alarmVars, roleVars, startElection,
                 okToSetAlarm, controllersMap, linkVars, upComingLeader,
                 overThrowList, eventVars, hostVars, joining, sessions, ending>>

\* The bus answers with an error: the callee or the session is gone, the Run
\* thread of the callee will not answer, or the call timed out.
Unanswerable(c) ==
  \/ ~ alive[c.to]
  \/ ~ IsMember(c.from, c.to)
  \/ c.st = "queued" /\ (~ isLeader[c.to] \/ pc[c.to] = "off")
  \/ "timeout" \in Faults

\* An error reply is handled like the answer it stands for.
OnErrorReply(c) ==
  /\ c \in calls
  /\ Unanswerable(c)
  /\ alive[c.from]
  /\ IF c.kind = "blob"
     THEN SyncFinished(c)
     ELSE /\ calls' = calls \ {c}
          /\ GotOverthrowReply(c.from)
  /\ UNCHANGED <<isRunning, pc, alarmVars, roleVars, startElection,
                 okToSetAlarm, controllersMap, linkVars, upComingLeader,
                 overThrowList, eventVars, hostVars, joining, sessions, ending>>

-----------------------------------------------------------------------------
(* The environment. *)

\* A scene object is registered and ControllerService::Announce runs again.
ReAnnounce(n) ==
  /\ n \in Announcers
  /\ alive[n]
  /\ isRunning[n]
  /\ SetIsLeader(n, about[n])
  /\ UNCHANGED <<threadVars, alarmVars, isLeader, updatesAllowed, flagVars,
                 controllersMap, linkVars, upComingLeader, overThrowList,
                 eventVars, hostVars, netVars>>

\* The process dies: the sessions it hosts end, its calls are forgotten.
Crash(n) ==
  /\ n \in Mortal
  /\ alive[n]
  /\ alive' = [alive EXCEPT ![n] = FALSE]
  /\ isRunning' = [isRunning EXCEPT ![n] = FALSE]
  /\ pc' = [pc EXCEPT ![n] = "off"]
  /\ wakeSem' = [wakeSem EXCEPT ![n] = 0]
  /\ isLeader' = [isLeader EXCEPT ![n] = FALSE]
  /\ updatesAllowed' = [updatesAllowed EXCEPT ![n] = FALSE]
  /\ about' = [about EXCEPT ![n] = FALSE]
  /\ undelivered' = [m \in Node |-> IF m = n THEN {} ELSE undelivered[m] \ {n}]
  /\ ClearState(n)
  /\ HostLeaves(n, [sessions EXCEPT ![n] = {}])
  /\ joining' = [joining EXCEPT ![n] = {}]
  /\ calls' = {c \in calls : c.from # n}
  /\ UNCHANGED stops

Next ==
  \/ \E n \in Node :
       \/ Connected(n) \/ Stop(n) \/ Run(n)
       \/ AlarmTriggered(n) \/ AppLeaves(n) \/ ReAnnounce(n) \/ Crash(n)
       \/ \E r \in undelivered[n] : Announced(n, r)
       \/ \E c \in joining[n] : OnSessionJoined(n, c)
       \/ \E e \in ending[n] : OnSessionLost(n, e)
                               \/ OnSessionMemberRemoved(n, e)
  \/ \E c \in calls :
       \/ ServeStateSync(c) \/ Overthrow(c)
       \/ OnGetChecksumAndModificationTimestampReply(c)
       \/ OnGetBlobReply(c) \/ OnOverthrowReply(c) \/ OnErrorReply(c)

Spec == Init /\ [][Next]_vars

\* Threads are scheduled, alarms expire, the bus delivers what is under way
\* and answers what was asked.  Nobody is obliged to stop, crash or announce.
Fairness ==
  /\ \A n \in Node :
       /\ WF_vars(Run(n))
       /\ WF_vars(Connected(n))
       /\ WF_vars(AlarmTriggered(n))
       /\ \A r \in Node : WF_vars(Announced(n, r))
       /\ WF_vars(\E c \in joining[n] : OnSessionJoined(n, c))
       /\ WF_vars(\E e \in ending[n] : OnSessionLost(n, e)
                                       \/ OnSessionMemberRemoved(n, e))
       /\ WF_vars(\E c \in calls :
            /\ c.from = n
            /\ \/ ServeStateSync(c) \/ Overthrow(c)
               \/ OnGetChecksumAndModificationTimestampReply(c)
               \/ OnGetBlobReply(c) \/ OnOverthrowReply(c) \/ OnErrorReply(c))

FairSpec == Spec /\ Fairness

-----------------------------------------------------------------------------
(* Properties. *)

\* While a challenger is noted the leader's stores are closed to clients, and
\* that is the only thing that closes them: SetAllowUpdates is called from six
\* places, upComingLeader is cleared in four.
UpdatesBlockedByChallengeOnly ==
  \A n \in Node : isLeader[n] =>
    (updatesAllowed[n] <=> upComingLeader[n].rank = 0)

\* A controller that does not lead takes no client updates, has no challenger
\* and does not say in its about data that it leads.
FollowerIsPassive ==
  \A n \in Node : ~ isLeader[n] =>
    ~ updatesAllowed[n] /\ upComingLeader[n].rank = 0 /\ ~ about[n]

\* A leader follows nobody: it neither waits for nor holds a session with
\* another leader in its election state, and no coup of its own is open.
LeaderFollowsNobody ==
  \A n \in Node : isLeader[n] =>
    currentLeader[n].rank = 0 /\ proxyObj[n] = NoSid

\* Coups go up the ranks: the leader to be overthrown ranks below, the
\* challenger above, and an Overthrow is only granted to a higher rank.
CoupsGoUp ==
  /\ \A n \in Node :
       /\ outGoingLeader[n].rank < n
       /\ upComingLeader[n].rank # 0 => upComingLeader[n].rank > n
  /\ \A c \in calls : c.st = "granted" => c.from > c.to

\* An elector that sleeps has nothing left to do: every callback that leaves
\* work for the Run thread posts wakeSem after it did, and a pass that was
\* woken for one event takes no other event without handling it.
NoLostWakeup ==
  \A n \in Node : (alive[n] /\ pc[n] = "wait" /\ wakeSem[n] = 0) =>
    /\ isLeader[n] => overThrowList[n] = {}
    /\ (~ isLeader[n] /\ gotOverthrowReply[n]) => outGoingLeader[n].rank = 0
    /\ (~ isLeader[n] /\ currentLeader[n].rank # 0) =>
         IF proxyObj[n] = NoSid
         THEN \A j \in joinReplies[n] : j.ctl # currentLeader[n]
         ELSE ~ SessionLost(n)

\* Nothing is left to be delivered, to expire or to be done.
Quiet ==
  /\ \A n \in Node :
       /\ alive[n] => pc[n] = "wait" /\ wakeSem[n] = 0 /\ ~ alarmOn[n]
       /\ undelivered[n] = {} /\ joining[n] = {} /\ ending[n] = {}
  /\ calls = {}

\* One controller leads and every other live one is connected to it.
Settled ==
  \E n \in Node :
    /\ alive[n] /\ isLeader[n] /\ updatesAllowed[n]
    /\ \A m \in Node \ {n} : alive[m] =>
         /\ ~ isLeader[m]
         /\ currentLeader[m].rank = n
         /\ proxyObj[m] # NoSid /\ proxyObj[m] \in sessions[m]

\* When nothing is left to happen the controllers have settled: there is no
\* split brain, nobody waits for a leader that is gone or never comes, and
\* the leader is not closed to its clients.
QuietIsSettled == (Quiet /\ \E n \in Node : alive[n]) => Settled

\* Every session a controller is a member of is its leader's or the outcome of
\* a JoinSession that the Run thread has not looked at: no session of a leader
\* it gave up or overthrew, or of an attempt it abandoned, is forgotten.
NoSessionForgotten ==
  \A n \in Node :
    sessions[n] \subseteq {proxyObj[n]} \cup {j.sid : j \in joinReplies[n]}

\* Controllers that keep running end up with one leader that all others
\* follow, and that takes client updates.
EventuallySettled == <>[]Settled

\* What the other controllers and the clients see of an elector.
Role == [n \in Node |-> IF ~ isLeader[n] THEN "follower"
                        ELSE IF updatesAllowed[n] THEN "open" ELSE "blocked"]
Challenger == [n \in Node |-> upComingLeader[n].rank]
Grants == {<<c.from, c.to>> : c \in {d \in calls : d.st = "granted"}}

Handover == INSTANCE Leadership WITH
              role <- Role, challenger <- Challenger, grants <- Grants

\* Seen from outside, the elector implements the handover of Leadership.
ImplementsHandover == Handover!Spec

-----------------------------------------------------------------------------
(* What comments of the code say and the code does not do. *)

\* "Coup was successful": an answer can only be there once the challenger has
\* joined the session of the outgoing leader.
NoAnswerBeforeSession ==
  \A n \in Node :
    gotOverthrowReply[n] => outGoingLeader[n].rank = 0
                            \/ outGoingLeader[n] \notin joining[n]

\* "We are shutting down. So announce self as non-leader before going away."
StoppedNotLeader ==
  \A n \in Node : pc[n] = "off" => ~ isLeader[n] /\ ~ about[n]

\* "Check if we have lost our session with the leader or if the leader has
\* left the session": a follower at rest is in a session its leader hosts.
DepartureNoticed ==
  Quiet => \A n \in Node :
    (~ isLeader[n] /\ proxyObj[n] # NoSid) => proxyObj[n] \in sessions[n]

\* "Loop back to re-attempt a connect to the leader that returned
\* session_already_joined error": nobody rests in an attempt to connect.
AlreadyJoinedReattempted ==
  Quiet => \A n \in Node :
    (~ isLeader[n] /\ currentLeader[n].rank # 0) => proxyObj[n] # NoSid

\* "Set an alarm to take necessary action if the coup does not go through": a
\* leader does not rest with its stores closed.
LeaderResumes ==
  Quiet => \A n \in Node : isLeader[n] => updatesAllowed[n]

=============================================================================
