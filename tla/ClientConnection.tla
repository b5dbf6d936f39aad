-------------------------- MODULE ClientConnection --------------------------
(***************************************************************************)
(* How the Controller Client finds, joins and loses the leader             *)
(* (ControllerClient.cc).  Announcements, join results, lost sessions and  *)
(* departures are callbacks that run concurrently, since each of them      *)
(* calls EnableConcurrentCallbacks; the application starts and stops the   *)
(* client from a thread of its own.  The callbacks share currentLeader and *)
(* leadersMap, each under a lock that is never held from one step of this  *)
(* model to the next.                                                      *)
(*                                                                         *)
(* The rank of a controller is its number.  life tells the bus names of a  *)
(* controller before and after a crash apart.                              *)
(***************************************************************************)
EXTENDS Integers, FiniteSets

CONSTANTS
  Controller,    \* ranks, positive numbers
  Task,          \* callbacks that run at the same time
  MaxChances,    \* bound: controllers begin to lead, cease to or crash,
                 \* announcements repeated, calls that fail, calls of Stop
  Races          \* the races, see Race, that a run goes on from

ASSUME ClientConnectionAssumption ==
  /\ Controller \subseteq Nat \ {0}
  /\ IsFiniteSet(Controller) /\ IsFiniteSet(Task)
  /\ Races \subseteq {"joiners", "stale", "early", "cleared", "late", "lost",
                     "stopped"}
  /\ MaxChances \in Nat

VARIABLES
  stopped,        \* volatile sig_atomic_t
  currentLeader,  \* controllerDetails (rank 0: cleared) and sessionId
  leadersMap,     \* the announced leaders, at most one entry per rank
  tasks,          \* the callbacks: [Task -> program counter and locals]
  app,            \* Stop: [pc, sid]
  view,           \* the controller the application was told it is connected to
  \* The bus.
  leading, life,  \* of every controller
  owed,           \* controllers whose announcement is under way
  joins,          \* JoinSessionAsync calls under way
  sessions,       \* the sessions the client's attachment is in
  events,         \* SessionLost and SessionMemberRemoved under way
  leaving,        \* LeaveSession calls under way
  \* History.
  raced,          \* the races that have happened, see Race
  now,            \* announcements so far, the time
  chances         \* taken so far, see MaxChances

clientVars == <<stopped, currentLeader, leadersMap>>
busVars == <<leading, life, owed, sessions, events>>
vars == <<clientVars, tasks, app, view, busVars, joins, leaving, raced, now,
          chances>>

NoEntry == [rank |-> 0, ts |-> 0, life |-> 0]
NoLeader == [entry |-> NoEntry, sid |-> 0]
Idle == [pc |-> "idle", entry |-> NoEntry, old |-> NoEntry, sid |-> 0,
         status |-> "OK"]

Init ==
  /\ stopped = FALSE
  /\ currentLeader = NoLeader
  /\ leadersMap = {}
  /\ tasks = [t \in Task |-> Idle]
  /\ app = [pc |-> "idle", sid |-> 0]
  /\ view = 0
  /\ leading \in [Controller -> BOOLEAN]
  /\ life = [c \in Controller |-> 0]
  /\ owed = {c \in Controller : leading[c]}
  /\ joins = {} /\ sessions = {} /\ events = {} /\ leaving = {}
  /\ raced = {}
  /\ now = 0
  /\ chances = 0

-----------------------------------------------------------------------------
(* Helpers.                                                                *)

Chance == chances < MaxChances /\ chances' = chances + 1

Task_(t, pc, entry, old, sid, status) ==
  tasks' = [tasks EXCEPT ![t] =
              [pc |-> pc, entry |-> entry, old |-> old, sid |-> sid,
               status |-> status]]
Goto(t, pc) == tasks' = [tasks EXCEPT ![t].pc = pc]
Done(t) == tasks' = [tasks EXCEPT ![t] = Idle]

\* A number not in use names what is new.
Fresh(used) == CHOOSE n \in 1..(Cardinality(used) + 1) : n \notin used
SidsInUse ==
  {currentLeader.sid, app.sid} \cup leaving \cup {s.sid : s \in sessions}
  \cup {e.sid : e \in events} \cup {tasks[t].sid : t \in Task}

DoLeaveSessionAsync(sid) == leaving' = leaving \cup {sid}

Ranks == {e.rank : e \in leadersMap}
OfRank(r) == {e \in leadersMap : e.rank = r}

\* Steps of two callbacks, or of one and the application, that cross: a
\* callback looks for a leader while another one has picked one and not yet
\* noted it ("joiners"); an announcement acts on a current leader that has
\* changed since ("stale"); a join's result is handled before the leader is
\* noted ("early"); one callback clears the leader that another noted, or the
\* session that another joined ("cleared"); the application hears of a session
\* that is gone ("late"); a callback picks a leader while another one, that has
\* just lost it, tells the application and has not struck it out ("lost"); a
\* callback that began before Stop acts after it ("stopped").
Race == {"joiners", "stale", "early", "cleared", "late", "lost", "stopped"}

If(race, happens) == IF happens THEN {race} ELSE {}

Joiners(t) ==
  If("joiners", \E u \in Task \ {t} : tasks[u].pc \in {"pick", "join", "note"})

-----------------------------------------------------------------------------
(* Announcements.                                                          *)

\* A leader's announcement reaches the client, the first one after it began
\* to lead or after Start for sure; currentLeader is read under its lock.
Announced(t, c) ==
  /\ tasks[t] = Idle /\ ~stopped /\ leading[c]
  /\ \/ c \in owed /\ owed' = owed \ {c} /\ UNCHANGED chances
     \/ c \notin owed /\ Chance
        /\ UNCHANGED owed
  /\ now' = now + 1
  /\ Task_(t, "insert", [rank |-> c, ts |-> now', life |-> life[c]],
           currentLeader.entry, currentLeader.sid, "OK")
  /\ UNCHANGED <<clientVars, app, view, leading, life, joins, sessions, events,
                 leaving, raced>>

\* An entry replaces the controller's old one.
Known(entry) == (leadersMap \ OfRank(entry.rank)) \cup {entry}

Insert(t) ==
  LET k == tasks[t] IN
  /\ k.pc = "insert"
  /\ leadersMap' = Known(k.entry)
  /\ raced' = raced \cup If("stopped", stopped) \cup Joiners(t)
                    \cup If("stale", currentLeader # [entry |-> k.old, sid |-> k.sid])
  /\ \/ k.old.rank = 0 /\ Goto(t, "pick") /\ UNCHANGED leaving
     \/ /\ k.old.rank \in 1..(k.entry.rank - 1) /\ k.sid # 0
        /\ DoLeaveSessionAsync(k.sid) /\ Goto(t, "lost")
     \/ /\ k.old.rank \in 1..(k.entry.rank - 1) /\ k.sid = 0
        /\ Goto(t, "forget") /\ UNCHANGED leaving
     \/ k.old.rank >= k.entry.rank /\ Done(t) /\ UNCHANGED leaving
  /\ UNCHANGED <<stopped, currentLeader, app, view, busVars, joins, now,
                 chances>>

\* A leader of a lower rank that is still being joined is given up.
Forget(t) ==
  /\ tasks[t].pc = "forget"
  /\ currentLeader' = NoLeader
  /\ Goto(t, "pick")
  /\ raced' = raced \cup Joiners(t)
       \cup If("cleared", currentLeader # [entry |-> tasks[t].old, sid |-> 0])
  /\ UNCHANGED <<stopped, leadersMap, app, view, busVars, joins, leaving, now,
                 chances>>

-----------------------------------------------------------------------------
(* JoinSessionWithAnotherLeader: repeated until it returns true.           *)

\* Mutation: the leader that was lost or failed stays in leadersMap.
Lost_Kept(old) == {}

\* The announcement of the leader that was lost or failed: a newer one of the
\* same controller is another entry.
Lost(old) == {e \in leadersMap : e.rank = old.rank /\ e.ts = old.ts}

Pick(t) ==
  LET k == tasks[t]
      left == leadersMap \ Lost(k.old)
  IN
  /\ k.pc = "pick"
  /\ \/ stopped /\ Done(t) /\ UNCHANGED leadersMap
     \/ ~stopped /\ left = {} /\ Done(t) /\ leadersMap' = {}
     \/ /\ ~stopped /\ leadersMap' = left
        /\ \E e \in left : /\ \A f \in left : f.rank <= e.rank
                          /\ Task_(t, "join", e, k.old, k.sid, k.status)
  /\ raced' = raced \cup If("joiners", ~stopped /\ currentLeader # NoLeader)
                    \cup If("lost", ~stopped /\ \E u \in Task \ {t} :
                                      tasks[u].pc = "disconnected")
  /\ UNCHANGED <<stopped, currentLeader, app, view, busVars, joins, leaving,
                 now,
                 chances>>

JoinSessionAsync(t) ==
  /\ tasks[t].pc = "join"
  /\ joins' = joins \cup {[id |-> Fresh({j.id : j \in joins}),
                           entry |-> tasks[t].entry]}
  /\ Goto(t, "note")
  /\ UNCHANGED <<clientVars, app, view, busVars, leaving, raced, now, chances>>

JoinSessionAsyncFails(t) ==
  /\ tasks[t].pc = "join" /\ Chance
  /\ leadersMap' = leadersMap \ OfRank(tasks[t].entry.rank)
  /\ IF leadersMap' = {} THEN Done(t) ELSE Goto(t, "pick")
  /\ UNCHANGED <<stopped, currentLeader, app, view, busVars, joins, leaving,
                 raced, now>>

Note(t) ==
  /\ tasks[t].pc = "note"
  /\ currentLeader' = [currentLeader EXCEPT !.entry = tasks[t].entry]
  /\ raced' = raced \cup If("stopped", stopped)
  /\ Done(t)
  /\ UNCHANGED <<stopped, leadersMap, app, view, busVars, joins, leaving, now,
                 chances>>

-----------------------------------------------------------------------------
(* Results of joins.                                                       *)

\* The bus answers: a controller that leads accepts one session with the
\* client.
JoinSessionCB(t, j) ==
  LET c == j.entry.rank
      same == {s \in sessions : s.rank = c /\ s.life = j.entry.life}
      there == leading[c] /\ life[c] = j.entry.life
      new == Fresh(SidsInUse)
  IN
  /\ tasks[t] = Idle /\ j \in joins
  /\ joins' = joins \ {j}
  /\ \/ /\ there /\ same = {}
        /\ sessions' = sessions \cup
             {[sid |-> new, rank |-> c, life |-> j.entry.life, open |-> TRUE]}
        /\ Task_(t, "joined", j.entry, NoEntry, new, "OK")
        /\ UNCHANGED chances
     \/ /\ same # {}
        /\ Task_(t, "joined", j.entry, NoEntry, 0, "ALREADY_JOINED")
        /\ UNCHANGED <<sessions, chances>>
     \/ /\ ~there /\ same = {}
        /\ Task_(t, "joined", j.entry, NoEntry, 0, "FAIL")
        /\ UNCHANGED <<sessions, chances>>
     \/ /\ there /\ Chance
        /\ Task_(t, "joined", j.entry, NoEntry, 0, "FAIL")
        /\ UNCHANGED sessions
  /\ UNCHANGED <<clientVars, app, view, leading, life, owed, events, leaving,
                 raced, now>>

Open(sid) == \E s \in sessions : s.sid = sid /\ s.open

\* Mutation: the session is kept.
NotCurrent_Stays(t) == Done(t) /\ UNCHANGED <<currentLeader, leaving, chances>>

\* A result from a leader that is not the current one any more.
NotCurrent(t) ==
  /\ IF tasks[t].status = "OK" THEN DoLeaveSessionAsync(tasks[t].sid)
     ELSE UNCHANGED leaving
  /\ Done(t) /\ UNCHANGED <<currentLeader, chances>>

\* Under currentLeaderLock, introspection of the remote object included.
OnSessionJoined(t) ==
  LET k == tasks[t]
      matches == currentLeader.entry.rank = k.entry.rank
                 /\ currentLeader.entry.ts = k.entry.ts
  IN
  /\ k.pc = "joined"
  /\ \/ ~matches /\ NotCurrent(t)
     \/ /\ matches /\ k.status = "OK" /\ Open(k.sid)
        /\ currentLeader' = [currentLeader EXCEPT !.sid = k.sid]
        /\ Goto(t, "link")
        /\ UNCHANGED <<chances, leaving>>
     \/ /\ matches /\ k.status = "OK"
        /\ \/ ~Open(k.sid) /\ UNCHANGED chances
           \/ Open(k.sid) /\ Chance
        /\ Task_(t, "failed", k.entry, k.old, k.sid, "LEAVE")
        /\ UNCHANGED <<currentLeader, leaving>>
     \/ /\ matches /\ k.status # "OK"
        /\ Goto(t, "failed")
        /\ UNCHANGED <<currentLeader, chances, leaving>>
  /\ raced' = raced \cup If("early",
       \E u \in Task : tasks[u].pc = "note" /\ tasks[u].entry = k.entry)
  /\ UNCHANGED <<stopped, leadersMap, app, view, busVars, joins, now>>

SetLinkTimeout(t) ==
  /\ tasks[t].pc = "link" /\ Open(tasks[t].sid)
  /\ Goto(t, "connected")
  /\ UNCHANGED <<clientVars, app, view, busVars, joins, leaving, raced, now,
                 chances>>

SetLinkTimeoutFails(t) ==
  /\ tasks[t].pc = "link"
  /\ \/ ~Open(tasks[t].sid) /\ UNCHANGED chances
     \/ Chance
  /\ sessions' = {s \in sessions : s.sid # tasks[t].sid}
  /\ Goto(t, "unlink")
  /\ UNCHANGED <<clientVars, app, view, leading, life, owed, events, joins,
                 leaving, raced, now>>

\* Mutation: the failed leader stays the current one.
Cleared_Forgotten(t) == UNCHANGED currentLeader /\ raced' = raced \cup Joiners(t)

\* The leader is given up.
Cleared(t) ==
  /\ currentLeader' = NoLeader
  /\ raced' = raced \cup Joiners(t) \cup
       If("cleared", \/ currentLeader.entry \notin {tasks[t].entry, NoEntry}
                     \/ currentLeader.sid \notin {tasks[t].sid, 0})

Unlink(t) ==
  /\ tasks[t].pc = "unlink"
  /\ Cleared(t)
  /\ Goto(t, "pick")
  /\ UNCHANGED <<stopped, leadersMap, app, view, busVars, joins, leaving, now,
                 chances>>

ConnectedToControllerServiceCB(t) ==
  /\ tasks[t].pc = "connected"
  /\ view' = tasks[t].entry.rank
  /\ raced' = raced \cup If("late", currentLeader.sid # tasks[t].sid)
  /\ Done(t)
  /\ UNCHANGED <<clientVars, app, busVars, joins, leaving, now,
                 chances>>

\* A leader that said ALREADY_JOINED is tried again, any other forgotten.
Failed(t) ==
  LET k == tasks[t] IN
  /\ k.pc = "failed"
  /\ Cleared(t)
  /\ leaving' = leaving \cup IF k.status = "LEAVE" THEN {k.sid} ELSE {}
  /\ Task_(t, "pick", NoEntry,
           IF k.status = "ALREADY_JOINED" THEN NoEntry ELSE k.entry, 0, "OK")
  /\ UNCHANGED <<stopped, leadersMap, app, view, busVars, joins, now,
                 chances>>

-----------------------------------------------------------------------------
(* Losing a session.                                                       *)

SessionLost(t, sid) ==
  /\ tasks[t] = Idle /\ [kind |-> "lost", sid |-> sid] \in events
  /\ events' = events \ {[kind |-> "lost", sid |-> sid]}
  /\ Task_(t, "lost", NoEntry, NoEntry, sid, "OK")
  /\ UNCHANGED <<clientVars, app, view, leading, life, owed, sessions, joins,
                 leaving, raced, now,
                 chances>>

\* The member that left is the host.
OnSessionMemberRemoved(t, sid) ==
  /\ tasks[t] = Idle /\ [kind |-> "removed", sid |-> sid] \in events
  /\ events' = events \ {[kind |-> "removed", sid |-> sid]}
  /\ IF currentLeader.sid = sid
     THEN DoLeaveSessionAsync(sid) /\ Task_(t, "lost", NoEntry, NoEntry, sid, "OK")
     ELSE UNCHANGED <<leaving, tasks>>
  /\ UNCHANGED <<clientVars, app, view, leading, life, owed, sessions, joins,
                 raced, now,
                 chances>>

OnSessionLost(t) ==
  /\ tasks[t].pc = "lost"
  /\ IF currentLeader.sid = tasks[t].sid
     THEN /\ Task_(t, "disconnected", NoEntry, currentLeader.entry, 0, "OK")
          /\ currentLeader' = NoLeader
     ELSE Done(t) /\ UNCHANGED currentLeader
  /\ UNCHANGED <<stopped, leadersMap, app, view, busVars, joins, leaving, raced,
                 now,
                 chances>>

DisconnectedFromControllerServiceCB(t) ==
  /\ tasks[t].pc = "disconnected"
  /\ view' = 0
  /\ raced' = raced \cup Joiners(t)
  /\ Goto(t, "pick")
  /\ UNCHANGED <<clientVars, app, busVars, joins, leaving, now,
                 chances>>

-----------------------------------------------------------------------------
(* The application.                                                        *)

Stop ==
  /\ app.pc = "idle" /\ ~stopped /\ Chance
  /\ stopped' = TRUE
  /\ app' = [pc |-> "stop", sid |-> 0]
  /\ UNCHANGED <<currentLeader, leadersMap, tasks, view, busVars, joins, leaving,
                 raced, now>>

\* Mutation: Stop reads the session after it cleared the leader.
StopForgetsLeader_First ==
  /\ app.pc = "stop"
  /\ app' = [pc |-> "leave", sid |-> 0]
  /\ currentLeader' = NoLeader
  /\ UNCHANGED <<stopped, leadersMap, tasks, view, busVars, joins, leaving,
                 raced, now, chances>>

StopForgetsLeader ==
  /\ app.pc = "stop"
  /\ app' = [pc |-> "leave", sid |-> currentLeader.sid]
  /\ currentLeader' = NoLeader
  /\ UNCHANGED <<stopped, leadersMap, tasks, view, busVars, joins, leaving,
                 raced, now,
                 chances>>

StopLeaves ==
  /\ app.pc = "leave"
  /\ app' = [pc |-> "clear", sid |-> 0]
  /\ IF app.sid # 0 THEN DoLeaveSessionAsync(app.sid) /\ view' = 0
     ELSE UNCHANGED <<leaving, view>>
  /\ UNCHANGED <<clientVars, tasks, busVars, joins, raced, now,
                 chances>>

StopClears ==
  /\ app.pc = "clear"
  /\ app' = [pc |-> "idle", sid |-> 0]
  /\ leadersMap' = {}
  /\ owed' = {}
  /\ UNCHANGED <<stopped, currentLeader, tasks, view, leading, life, sessions,
                 events, joins, leaving, raced, now,
                 chances>>

\* Start refuses for 40 seconds after Stop, in which what is under way ends;
\* then it asks for announcements.
Start ==
  /\ app.pc = "idle" /\ stopped
  /\ joins = {} /\ leaving = {} /\ \A t \in Task : tasks[t] = Idle
  /\ stopped' = FALSE
  /\ owed' = {c \in Controller : leading[c]}
  /\ UNCHANGED <<currentLeader, leadersMap, tasks, app, view, leading, life,
                 sessions, events, joins, leaving, raced, now,
                 chances>>

-----------------------------------------------------------------------------
(* The bus and the controllers.                                            *)

LeaveSession(sid) ==
  /\ sid \in leaving
  /\ leaving' = leaving \ {sid}
  /\ sessions' = {s \in sessions : s.sid # sid}
  /\ UNCHANGED <<clientVars, tasks, app, view, leading, life, owed, events,
                 joins, raced, now,
                 chances>>

Lead(c) ==
  /\ Chance
  /\ ~leading[c]
  /\ leading' = [leading EXCEPT ![c] = TRUE]
  /\ owed' = owed \cup IF stopped THEN {} ELSE {c}
  /\ UNCHANGED <<clientVars, tasks, app, view, life, sessions, events, joins,
                 leaving, raced, now>>

\* The host of a session goes: the client is told that the session is lost,
\* or that the host left it.
Leaves(c, kind) ==
  LET of == {s \in sessions : s.rank = c /\ s.open} IN
  /\ Chance
  /\ leading[c]
  /\ leading' = [leading EXCEPT ![c] = FALSE]
  /\ owed' = owed \ {c}
  /\ events' = events \cup {[kind |-> kind, sid |-> s.sid] : s \in of}
  /\ sessions' = (sessions \ of) \cup
       IF kind = "lost" THEN {} ELSE {[s EXCEPT !.open = FALSE] : s \in of}
  /\ UNCHANGED <<clientVars, tasks, app, view, joins, leaving, raced, now>>

StepDown(c, kind) == Leaves(c, kind) /\ UNCHANGED life

Crash(c, kind) ==
  Leaves(c, kind) /\ life' = [life EXCEPT ![c] = life[c] + 1]

-----------------------------------------------------------------------------
Callback(t) ==
  \/ Insert(t) \/ Forget(t)
  \/ Pick(t) \/ JoinSessionAsync(t) \/ JoinSessionAsyncFails(t) \/ Note(t)
  \/ OnSessionJoined(t) \/ SetLinkTimeout(t) \/ SetLinkTimeoutFails(t)
  \/ Unlink(t) \/ ConnectedToControllerServiceCB(t) \/ Failed(t)
  \/ OnSessionLost(t) \/ DisconnectedFromControllerServiceCB(t)

Begins(t) ==
  \/ \E c \in Controller : Announced(t, c)
  \/ \E j \in joins : JoinSessionCB(t, j)
  \/ \E e \in events : SessionLost(t, e.sid) \/ OnSessionMemberRemoved(t, e.sid)

Application ==
  Stop \/ StopForgetsLeader \/ StopLeaves \/ StopClears \/ Start

World ==
  \/ \E c \in Controller : Lead(c)
  \/ \E c \in Controller, kind \in {"lost", "removed"} :
       StepDown(c, kind) \/ Crash(c, kind)

Step ==
  \/ \E t \in Task : Callback(t) \/ Begins(t)
  \/ \E sid \in leaving : LeaveSession(sid)
  \/ Application \/ World

Next == Step /\ raced' \subseteq Races

Spec == Init /\ [][Next]_vars

-----------------------------------------------------------------------------
(* Properties.                                                             *)

Entry == [rank : Controller, ts : Nat, life : Nat] \cup {NoEntry}

\* Type invariant.
TypeOK ==
  /\ stopped \in BOOLEAN
  /\ currentLeader \in [entry : Entry, sid : Nat]
  /\ leadersMap \subseteq Entry \ {NoEntry}
  /\ \A e, f \in leadersMap : e.rank = f.rank => e = f
  /\ tasks \in [Task -> [pc : {"idle", "insert", "forget", "pick", "join",
                               "note", "joined", "link", "unlink", "connected",
                               "failed", "lost", "disconnected"},
                         entry : Entry, old : Entry, sid : Nat,
                         status : {"OK", "FAIL", "ALREADY_JOINED", "LEAVE"}]]
  /\ app \in [pc : {"idle", "stop", "leave", "clear"}, sid : Nat]
  /\ view \in Controller \cup {0}
  /\ leading \in [Controller -> BOOLEAN] /\ life \in [Controller -> Nat]
  /\ owed \subseteq Controller
  /\ joins \subseteq [id : Nat, entry : Entry \ {NoEntry}]
  /\ sessions \subseteq
       [sid : Nat \ {0}, rank : Controller, life : Nat, open : BOOLEAN]
  /\ events \subseteq [kind : {"lost", "removed"}, sid : Nat \ {0}]
  /\ leaving \subseteq Nat
  /\ raced \subseteq Race /\ now \in Nat /\ chances \in Nat

Rest ==
  /\ \A t \in Task : tasks[t] = Idle
  /\ joins = {} /\ events = {} /\ leaving = {} /\ app.pc = "idle"
  /\ stopped \/ owed = {}

\* Without the race: no two callbacks looked for a leader at the same time, or
\* none cleared the leader of the other, and so on.
Without(races) == raced \cap races = {}

\* A leader noted as the current one without a session has its join, or the
\* handling of the result, under way: the client never waits for an answer
\* that has come and gone, unless it came before the leader was noted.
LeaderComing ==
  Without({"early"}) /\ currentLeader.entry # NoEntry /\ currentLeader.sid = 0 =>
    \/ \E j \in joins : j.entry = currentLeader.entry
    \/ \E t \in Task : /\ tasks[t].entry = currentLeader.entry
                      /\ tasks[t].pc \in {"joined", "failed"}

\* No join is forgotten and no session leaked: whatever the callbacks do, a
\* session the client is in is the current leader's, or somebody is about to
\* use, leave or lose it.  Only a callback that clears another one's leader, or that joins beside
\* another one, leaks it (OnSessionJoined, OnSessionLost, OnAnnounced).
SessionsAccounted ==
  /\ LeaderComing
  /\ Without({"joiners", "cleared"}) => \A s \in sessions :
       \/ s.sid \in {currentLeader.sid, app.sid} \cup leaving
       \/ \E t \in Task : /\ tasks[t].sid = s.sid
                         /\ tasks[t].pc \in {"joined", "failed"}

\* When nothing is left to happen, the client is connected to the highest
\* leader it knows of, the session is open, and the application was told last
\* of that connection: none of the ways a session fails or ends leaves the
\* client alone beside a leader that has announced itself.
RestIsConnected ==
  Without(Race) /\ Rest /\ ~stopped =>
    /\ currentLeader.entry.rank =
         IF leadersMap = {} THEN 0 ELSE CHOOSE r \in Ranks : \A q \in Ranks : q <= r
    /\ currentLeader = NoLeader \/ Open(currentLeader.sid)
    /\ view = currentLeader.entry.rank

\* When Stop and what was under way before it have ended, the client has no
\* leader and no session and the application knows, unless a callback crossed
\* Stop or another callback.
StoppedHoldsNothing ==
  Without({"joiners", "cleared", "late", "lost", "stopped"}) /\ Rest /\ stopped =>
    currentLeader = NoLeader /\ sessions = {} /\ view = 0

\* ControllerClient.h says that Stop tears down any existent session with a
\* Controller Service.  It does not for a session that a callback begun before
\* Stop is about to join: the leader is noted after Stop has cleared it, and
\* the join's result then finds the leader it was sent to.
StopTearsDown == Rest /\ stopped => sessions = {}

=============================================================================
