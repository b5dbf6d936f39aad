----------------------- MODULE ClientConnectionProofs -----------------------
(***************************************************************************)
(* For any controllers, any number of callbacks that run at once and any   *)
(* calls that fail: the Controller Client forgets no join and leaks no     *)
(* session; it rests connected to the highest leader it knows of, with the *)
(* application told so; and Stop ends everything.                          *)
(***************************************************************************)
EXTENDS ClientConnection, FiniteSetTheorems, TLAPS

-----------------------------------------------------------------------------
(* The inductive invariant.                                                *)

Records ==
  [pc : {"idle", "insert", "forget", "pick", "join", "note", "joined", "link",
         "unlink", "connected", "failed", "lost", "disconnected"},
   entry : Entry, old : Entry, sid : Nat,
   status : {"OK", "FAIL", "ALREADY_JOINED", "LEAVE"}]

\* What the locals of a callback are at the steps that use them: only a join
\* that succeeded has a session, and one handed over as failed is to be left.
TaskForm ==
  \A t \in Task :
    /\ tasks[t].pc \in {"insert", "join", "note", "joined"} =>
         tasks[t].entry # NoEntry
    /\ tasks[t].pc = "joined" => (tasks[t].status = "OK" <=> tasks[t].sid # 0)
    /\ tasks[t].pc = "failed" /\ tasks[t].sid # 0 => tasks[t].status = "LEAVE"
    /\ tasks[t].pc = "lost" => tasks[t].sid # 0

\* Stop has a session to leave only between reading and leaving it.
AppForm == app.pc # "leave" => app.sid = 0

AllFinite ==
  /\ IsFiniteSet(joins) /\ IsFiniteSet(sessions) /\ IsFiniteSet(events)
  /\ IsFiniteSet(leaving)

\* The announcements noted anywhere: each is known by its rank and time.
Entries ==
  {currentLeader.entry} \cup leadersMap \cup {j.entry : j \in joins}
  \cup {tasks[t].entry : t \in Task} \cup {tasks[t].old : t \in Task}

EntryNames ==
  /\ \A e \in Entries : e.ts <= now
  /\ \A e, f \in Entries : e.rank = f.rank /\ e.ts = f.ts => e = f

\* A session is known by its id, and by the life of the controller at the
\* other end.
SessionNames ==
  \A s, r \in sessions :
    s.sid = r.sid \/ (s.rank = r.rank /\ s.life = r.life) => s = r

Gone(sid) == \A s \in sessions : s.sid # sid

\* A session that is told to be lost, or whose link failed, is gone or will be
\* left.
SessionEnds ==
  /\ \A e \in events : e.kind = "lost" => Gone(e.sid)
  /\ \A t \in Task :
       /\ tasks[t].pc = "lost" => tasks[t].sid \in leaving \/ Gone(tasks[t].sid)
       /\ tasks[t].pc = "unlink" => Gone(tasks[t].sid)

\* If the session is there, it is with the controller that the entry announced.
With(sid, entry) ==
  \A s \in sessions : s.sid = sid => s.rank = entry.rank /\ s.life = entry.life

JoinedWith ==
  \A t \in Task : tasks[t].pc = "joined" => With(tasks[t].sid, tasks[t].entry)

\* The condition of SessionsAccounted.
Calm == Without({"joiners", "cleared"})

Seeks(t) == tasks[t].pc \in {"pick", "join", "note"}

\* One callback at a time looks for a leader, while there is none.
OneSeeks ==
  Calm =>
    /\ \A t, u \in Task : Seeks(t) /\ Seeks(u) => t = u
    /\ \A t \in Task : tasks[t].pc \in {"join", "note"} => currentLeader = NoLeader

\* The session noted for the leader is with that leader: a second session that
\* replaces it can only be with the same controller, so the first is gone.
LeaderWith == Calm => With(currentLeader.sid, currentLeader.entry)

Accounted ==
  Calm => \A s \in sessions :
    \/ s.sid \in {currentLeader.sid, app.sid} \cup leaving
    \/ \E t \in Task : tasks[t].sid = s.sid /\ tasks[t].pc \in {"joined", "failed"}

\* The join that a callback is about to note is under way.
NoteComing ==
  Without({"early"}) => \A t \in Task : tasks[t].pc = "note" =>
    \/ \E j \in joins : j.entry = tasks[t].entry
    \/ \E u \in Task : tasks[u].pc = "joined" /\ tasks[u].entry = tasks[t].entry

\* The application takes its steps of Stop while the client is stopped.
AppStops == app.pc # "idle" => stopped

\* An announcement under way names an entry that nobody has yet.
FirstSeen ==
  \A t \in Task : tasks[t].pc = "insert" =>
    /\ tasks[t].entry # currentLeader.entry /\ tasks[t].entry \notin leadersMap
    /\ \A j \in joins : tasks[t].entry # j.entry
    /\ \A u \in Task \ {t} : tasks[t].entry # tasks[u].entry

\* A callback that has joined a session owns it until it has told the
\* application, and the leader's session is not one that is still to be noted.
SidOwned ==
  /\ \A t, u \in Task :
       /\ tasks[t].pc \in {"joined", "failed", "link", "unlink", "connected"}
       /\ tasks[u].pc \in {"joined", "failed", "link", "unlink", "connected"}
       /\ tasks[t].sid = tasks[u].sid /\ tasks[t].sid # 0
       => t = u
  /\ \A t \in Task :
       /\ tasks[t].pc \in {"joined", "failed"} /\ tasks[t].sid # 0
            => currentLeader.sid # tasks[t].sid
       /\ tasks[t].pc \in {"link", "unlink", "connected"} => tasks[t].sid # 0

\* The condition of StoppedHoldsNothing.
Orderly == Without({"joiners", "cleared", "late", "lost", "stopped"})

\* A join of the entry is under way, or its result is being handled.
Flies(t) == tasks[t].pc \in {"joined", "failed", "link", "unlink"}
InFlight(e) ==
  \/ \E j \in joins : j.entry = e
  \/ \E t \in Task : Flies(t) /\ tasks[t].entry = e

\* An entry is joined once at a time.
FliesOnce ==
  Orderly =>
    /\ \A i, j \in joins : i.entry = j.entry => i = j
    /\ \A j \in joins, t \in Task : Flies(t) => tasks[t].entry # j.entry
    /\ \A t, u \in Task :
         Flies(t) /\ Flies(u) /\ tasks[t].entry = tasks[u].entry => t = u
    /\ \A t \in Task : tasks[t].pc = "join" => ~InFlight(tasks[t].entry)

\* An announced leader with a join under way is the current one, about to be
\* noted, or about to be struck out: nobody picks it again.
FlightKnown ==
  Orderly /\ ~stopped => \A e \in leadersMap : InFlight(e) =>
    \/ currentLeader.entry = e
    \/ \E t \in Task : /\ tasks[t].pc \in {"disconnected", "pick"}
                      /\ tasks[t].old = e
    \/ \E t \in Task : tasks[t].pc = "note" /\ tasks[t].entry = e

\* A leader with a session has no other answer coming.
OneAnswer ==
  Orderly /\ currentLeader.sid # 0 =>
    /\ \A j \in joins : j.entry # currentLeader.entry
    /\ \A t \in Task : tasks[t].pc = "joined" =>
         tasks[t].entry # currentLeader.entry

\* An application that believes in a connection is about to hear that it is
\* lost, or has the current leader's session, which nobody is setting up.
BelievesRightly ==
  Orderly /\ view # 0 =>
    \/ \E t \in Task : tasks[t].pc = "disconnected"
    \/ app.pc = "leave" /\ app.sid # 0
    \/ /\ currentLeader.sid # 0
       /\ \A t \in Task : tasks[t].pc \in {"link", "unlink"} =>
            tasks[t].sid # currentLeader.sid

\* Once Stop has cleared the leader there is none.
LeaderGone ==
  Orderly /\ stopped /\ app.pc # "stop" => currentLeader = NoLeader

\* The condition of RestIsConnected.
Clean == Without(Race)

\* A session is noted for a leader.
LeaderNamed == currentLeader.entry = NoEntry => currentLeader.sid = 0

\* The session of an event has ended.
EventEnds == \A e \in events : ~Open(e.sid)

\* A session that is still to be noted is not being left.
NotLeft ==
  Clean => \A t \in Task :
    tasks[t].pc \in {"joined", "failed"} /\ tasks[t].sid # 0 =>
      tasks[t].sid \notin leaving \cup {app.sid}

\* A callback handles the loss of the leader's session.
Loses(t) == tasks[t].pc = "lost" /\ tasks[t].sid = currentLeader.sid

\* A callback sets the leader's session up, or tells the application of it.
SetsUp(t) ==
  tasks[t].pc \in {"link", "unlink", "connected"} /\ tasks[t].sid = currentLeader.sid

\* The leader's session is left only by whoever gives the leader up next.
LeaderLeft ==
  Clean /\ currentLeader.sid # 0 /\ currentLeader.sid \in leaving =>
    \E t \in Task : Loses(t)

\* The leader's session is open, or its end is about to be noticed.
LeaderOpen ==
  Clean /\ currentLeader.sid # 0 =>
    \/ Open(currentLeader.sid)
    \/ \E e \in events : e.sid = currentLeader.sid
    \/ \E t \in Task :
         Loses(t) \/ (tasks[t].pc = "unlink" /\ tasks[t].sid = currentLeader.sid)

\* Whoever sets the leader's session up knows the leader by its entry.
LinksLeader ==
  Clean => \A t \in Task : SetsUp(t) => tasks[t].entry = currentLeader.entry

\* The application has been told of the leader's session, or will be.
ToldOfLeader ==
  Clean /\ currentLeader.sid # 0 =>
    view = currentLeader.entry.rank \/ \E t \in Task : SetsUp(t)

\* There is no leader, and none is being joined, until the application has been
\* told that the last one is lost.
Losing ==
  Clean => \A u \in Task : tasks[u].pc = "disconnected" =>
    /\ currentLeader = NoLeader
    /\ \A t \in Task : tasks[t].pc \notin {"join", "note"}

\* What is picked is the highest leader announced, until it is noted.
PicksHighest ==
  Clean /\ ~stopped => \A t \in Task : tasks[t].pc \in {"join", "note"} =>
    /\ tasks[t].entry.rank \in Ranks
    /\ \A f \in leadersMap : f.rank <= tasks[t].entry.rank

\* The current leader is among the leaders announced.
LeaderKnown ==
  Clean /\ ~stopped /\ currentLeader.entry # NoEntry =>
    currentLeader.entry.rank \in Ranks

\* No announced leader is higher, unless somebody is about to give it up.
LeaderHighest ==
  Clean /\ ~stopped /\ currentLeader.entry # NoEntry =>
    \/ \A f \in leadersMap : f.rank <= currentLeader.entry.rank
    \/ \E t \in Task : Loses(t)
    \/ \E t \in Task : tasks[t].pc = "forget" /\ tasks[t].old = currentLeader.entry

\* While there is no leader but one announced, somebody looks for it.
Sought ==
  Clean /\ ~stopped /\ currentLeader = NoLeader /\ leadersMap # {} =>
    \E t \in Task : Seeks(t) \/ tasks[t].pc = "disconnected"

\* What was announced before Stop is forgotten.
StopEmpties == Clean /\ stopped /\ app.pc = "idle" => leadersMap = {}

IInv ==
  /\ TypeOK /\ TaskForm /\ AppForm /\ AllFinite
  /\ EntryNames /\ SessionNames /\ SessionEnds /\ JoinedWith
  /\ OneSeeks /\ LeaderWith /\ Accounted
  /\ NoteComing /\ LeaderComing
  /\ AppStops /\ FirstSeen /\ SidOwned /\ FliesOnce /\ FlightKnown
  /\ OneAnswer /\ BelievesRightly /\ LeaderGone
  /\ LeaderNamed /\ EventEnds /\ NotLeft /\ LeaderLeft /\ LeaderOpen
  /\ LinksLeader /\ ToldOfLeader /\ Losing
  /\ PicksHighest /\ LeaderKnown /\ LeaderHighest /\ Sought /\ StopEmpties

-----------------------------------------------------------------------------
(* Numbers that are not in use, and sets that stay finite.                 *)

\* Fresh names what no number in use names.
LEMMA FreshIsNew ==
  ASSUME NEW used, IsFiniteSet(used)
  PROVE  Fresh(used) \in Nat \ {0} /\ Fresh(used) \notin used
<1> DEFINE n == Cardinality(used)
<1>1. n \in Nat
  BY FS_CardinalityType
<1>2. Cardinality(1..(n + 1)) = n + 1
  BY <1>1, FS_Interval
<1>3. \E m \in 1..(n + 1) : m \notin used
  <2>1. SUFFICES ASSUME 1..(n + 1) \subseteq used PROVE FALSE
    OBVIOUS
  <2>2. Cardinality(1..(n + 1)) <= n
    BY <2>1, FS_Subset
  <2> QED
    BY <1>1, <1>2, <2>2
<1> QED
  BY <1>1, <1>3 DEF Fresh

\* What a function yields on a finite set is finite.
LEMMA ImageIsFinite ==
  ASSUME NEW S, IsFiniteSet(S), NEW f, DOMAIN f = S,
         NEW T, \A y \in T : \E x \in S : y = f[x]
  PROVE  IsFiniteSet(T)
<1> DEFINE image == {f[x] : x \in S}
           onto == [x \in S |-> f[x]]
<1>1. onto \in Surjection(S, image)
  BY DEF Surjection
<1>2. T \subseteq image
  OBVIOUS
<1> QED
  BY <1>1, <1>2, FS_Surjection, FS_Subset

\* The id of a new join.
LEMMA JoinIdIsNew ==
  ASSUME AllFinite
  PROVE  Fresh({j.id : j \in joins}) \in Nat
<1> DEFINE id == [j \in joins |-> j.id]
           ids == {j.id : j \in joins}
<1>1. DOMAIN id = joins /\ \A i \in ids : \E j \in joins : i = id[j]
  OBVIOUS
<1>2. IsFiniteSet(joins)
  BY DEF AllFinite
<1> HIDE DEF id, ids
<1>3. IsFiniteSet(ids)
  BY <1>1, <1>2, ImageIsFinite
<1> QED
  BY <1>3, FreshIsNew DEF ids

\* The id of a new session: no callback, event or call has it.
LEMMA SidIsNew ==
  ASSUME AllFinite
  PROVE  Fresh(SidsInUse) \in Nat \ {0} /\ Fresh(SidsInUse) \notin SidsInUse
<1> DEFINE ofSession == [s \in sessions |-> s.sid]
           ofEvent == [e \in events |-> e.sid]
           ofTask == [t \in Task |-> tasks[t].sid]
           sessionSids == {s.sid : s \in sessions}
           eventSids == {e.sid : e \in events}
           taskSids == {tasks[t].sid : t \in Task}
<1>1. IsFiniteSet(sessionSids) /\ IsFiniteSet(eventSids) /\ IsFiniteSet(taskSids)
  <2>1. /\ DOMAIN ofSession = sessions
        /\ \A n \in sessionSids : \E s \in sessions : n = ofSession[s]
        /\ DOMAIN ofEvent = events
        /\ \A n \in eventSids : \E e \in events : n = ofEvent[e]
        /\ DOMAIN ofTask = Task
        /\ \A n \in taskSids : \E t \in Task : n = ofTask[t]
    OBVIOUS
  <2> HIDE DEF ofSession, ofEvent, ofTask, sessionSids, eventSids, taskSids
  <2> QED
    BY <2>1, ImageIsFinite, ClientConnectionAssumption DEF AllFinite
<1>2. IsFiniteSet({currentLeader.sid, app.sid})
  <2>1. {currentLeader.sid, app.sid} = {currentLeader.sid} \cup {app.sid}
    OBVIOUS
  <2>2. IsFiniteSet({currentLeader.sid})
    BY FS_Singleton
  <2> QED
    BY <2>1, <2>2, FS_AddElement
<1>3. SidsInUse = {currentLeader.sid, app.sid} \cup leaving
        \cup sessionSids \cup eventSids \cup taskSids
  BY DEF SidsInUse
<1> HIDE DEF sessionSids, eventSids, taskSids
<1>4. IsFiniteSet(SidsInUse)
  BY <1>1, <1>2, <1>3, FS_Union DEF AllFinite
<1> QED
  BY <1>4, FreshIsNew

-----------------------------------------------------------------------------
(* What the bus does.                                                      *)

\* The answer to a join: a session that succeeds is the only one with the
\* controller.
LEMMA JoinAnswered ==
  ASSUME TypeOK, AllFinite, NEW t \in Task, NEW j \in joins, JoinSessionCB(t, j)
  PROVE  /\ tasks'[t].pc = "joined" /\ tasks'[t].entry = j.entry
         /\ \A u \in Task \ {t} : tasks'[u] = tasks[u]
         /\ \/ sessions' = sessions /\ tasks'[t].sid = 0
            \/ \E s : /\ sessions' = sessions \cup {s}
                     /\ s.sid = tasks'[t].sid
                     /\ s.sid \notin SidsInUse
                     /\ s.rank = j.entry.rank /\ s.life = j.entry.life
                     /\ \A r \in sessions : ~(r.rank = s.rank /\ r.life = s.life)
<1> DEFINE s == [sid |-> Fresh(SidsInUse), rank |-> j.entry.rank,
                 life |-> j.entry.life, open |-> TRUE]
<1>1. /\ tasks'[t].pc = "joined" /\ tasks'[t].entry = j.entry
      /\ \A u \in Task \ {t} : tasks'[u] = tasks[u]
  BY DEF TypeOK, JoinSessionCB, Task_
<1>2. \/ sessions' = sessions /\ tasks'[t].sid = 0
      \/ /\ sessions' = sessions \cup {s} /\ tasks'[t].sid = s.sid
         /\ \A r \in sessions : ~(r.rank = j.entry.rank /\ r.life = j.entry.life)
  BY DEF TypeOK, JoinSessionCB, Task_
<1>3. s.sid = Fresh(SidsInUse) /\ s.rank = j.entry.rank /\ s.life = j.entry.life
  OBVIOUS
<1> HIDE DEF s
<1> QED
  BY <1>1, <1>2, <1>3, SidIsNew

\* A host that goes ends its sessions or shuts them: none is new.
LEMMA HostLeaves ==
  ASSUME TypeOK, NEW c \in Controller, NEW kind \in {"lost", "removed"},
         StepDown(c, kind) \/ Crash(c, kind)
  PROVE  \A r \in sessions' : \E s \in sessions :
           /\ r.sid = s.sid /\ r.rank = s.rank /\ r.life = s.life
           /\ IF s.rank = c /\ s.open THEN r = [s EXCEPT !.open = FALSE] ELSE r = s
<1> SUFFICES ASSUME NEW r \in sessions'
             PROVE  \E s \in sessions :
                      /\ r.sid = s.sid /\ r.rank = s.rank /\ r.life = s.life
                      /\ IF s.rank = c /\ s.open THEN r = [s EXCEPT !.open = FALSE]
                         ELSE r = s
  OBVIOUS
<1>1. \/ r \in sessions /\ ~(r.rank = c /\ r.open)
      \/ \E s \in sessions : s.rank = c /\ s.open /\ r = [s EXCEPT !.open = FALSE]
  BY DEF Leaves, StepDown, Crash
<1> QED
  BY <1>1 DEF TypeOK

-----------------------------------------------------------------------------
(* Types.                                                                  *)

\* Every step keeps the types.
LEMMA TypeStep == TypeOK /\ TaskForm /\ AllFinite /\ [Next]_vars => TypeOK'
<1> SUFFICES ASSUME TypeOK, TaskForm, AllFinite, [Next]_vars PROVE TypeOK'
  OBVIOUS
<1> USE ClientConnectionAssumption
<1> USE DEF TypeOK, Race, If, Entry, NoEntry, NoLeader, Chance, busVars,
        clientVars
<1>1. ASSUME NEW t \in Task, Insert(t) PROVE TypeOK'
  <2>1. leadersMap' \subseteq Entry \ {NoEntry}
    BY <1>1 DEF TypeOK, TaskForm, Insert, Known
  <2>2. \A e, f \in leadersMap' : e.rank = f.rank => e = f
    BY <1>1 DEF TypeOK, Insert, Known, OfRank
  <2>3. leaving' \subseteq Nat
    <3>1. tasks[t].sid \in Nat
      BY DEF TypeOK
    <3>2. leaving' \subseteq leaving \cup {tasks[t].sid}
      BY <1>1 DEF Insert, DoLeaveSessionAsync
    <3> QED
      BY <3>1, <3>2 DEF TypeOK
  <2>4. tasks' \in [Task -> Records]
    BY <1>1 DEF TypeOK, Insert, Goto, Done, Idle, Entry, Records
  <2> QED
    BY <1>1, <2>1, <2>2, <2>3, <2>4 DEF TypeOK, Records, Insert, Joiners, If, Race,
       busVars
<1>2. ASSUME NEW t \in Task, Forget(t) PROVE TypeOK'
  BY <1>2 DEF Forget, Goto, Joiners
<1>3. ASSUME NEW t \in Task, Pick(t) PROVE TypeOK'
  BY <1>3 DEF Pick, Done, Idle, Task_
<1>4. ASSUME NEW t \in Task, JoinSessionAsync(t) PROVE TypeOK'
  <2>1. joins' \subseteq [id : Nat, entry : Entry \ {NoEntry}]
    BY <1>4, JoinIdIsNew DEF TypeOK, TaskForm, JoinSessionAsync
  <2> QED
    BY <1>4, <2>1 DEF TypeOK, JoinSessionAsync, Goto, clientVars, busVars
<1>5. ASSUME NEW t \in Task, JoinSessionAsyncFails(t) PROVE TypeOK'
  BY <1>5 DEF JoinSessionAsyncFails, Goto, Done, Idle
<1>6. ASSUME NEW t \in Task, Note(t) PROVE TypeOK'
  BY <1>6 DEF Note, Done, Idle
<1>7. ASSUME NEW t \in Task, OnSessionJoined(t) PROVE TypeOK'
  BY <1>7 DEF OnSessionJoined, NotCurrent, Done, Idle, Goto, Task_,
     DoLeaveSessionAsync
<1>8. ASSUME NEW t \in Task, SetLinkTimeout(t) PROVE TypeOK'
  BY <1>8 DEF SetLinkTimeout, Goto
<1>9. ASSUME NEW t \in Task, SetLinkTimeoutFails(t) PROVE TypeOK'
  <2>1. tasks' \in [Task -> Records]
    BY <1>9 DEF TypeOK, SetLinkTimeoutFails, Goto, Entry, Records
  <2>2. sessions' \subseteq sessions
    BY <1>9 DEF SetLinkTimeoutFails
  <2>3. chances' \in Nat
    BY <1>9 DEF TypeOK, SetLinkTimeoutFails, Chance
  <2> QED
    BY <1>9, <2>1, <2>2, <2>3 DEF TypeOK, Records, SetLinkTimeoutFails, clientVars
<1>10. ASSUME NEW t \in Task, Unlink(t) PROVE TypeOK'
  BY <1>10 DEF Unlink, Cleared, Joiners, Goto
<1>11. ASSUME NEW t \in Task, ConnectedToControllerServiceCB(t) PROVE TypeOK'
  BY <1>11 DEF ConnectedToControllerServiceCB, Done, Idle
<1>12. ASSUME NEW t \in Task, Failed(t) PROVE TypeOK'
  <2>1. leaving' \subseteq Nat
    <3>1. tasks[t].sid \in Nat
      BY DEF TypeOK
    <3>2. leaving' \subseteq leaving \cup {tasks[t].sid}
      BY <1>12 DEF Failed
    <3> QED
      BY <3>1, <3>2 DEF TypeOK
  <2>2. tasks' \in [Task -> Records]
    BY <1>12 DEF TypeOK, Failed, Task_, Entry, Records
  <2> QED
    BY <1>12, <2>1, <2>2 DEF TypeOK, Records, Failed, Cleared, Joiners, If, Race,
       NoLeader, NoEntry, Entry, busVars
<1>13. ASSUME NEW t \in Task, OnSessionLost(t) PROVE TypeOK'
  <2>1. tasks' \in [Task -> Records]
    <3>1. currentLeader.entry \in Entry /\ NoEntry \in Entry
      BY DEF TypeOK, Entry, NoEntry
    <3> HIDE DEF Entry
    <3>2. \/ tasks' = [tasks EXCEPT ![t] =
                [pc |-> "disconnected", entry |-> NoEntry,
                 old |-> currentLeader.entry, sid |-> 0, status |-> "OK"]]
          \/ tasks' = [tasks EXCEPT ![t] = Idle]
      BY <1>13 DEF OnSessionLost, Task_, Done
    <3>3. Idle \in Records
      BY <3>1 DEF Idle, Records
    <3> HIDE DEF NoEntry
    <3>4. [pc |-> "disconnected", entry |-> NoEntry, old |-> currentLeader.entry,
           sid |-> 0, status |-> "OK"] \in Records
      BY <3>1 DEF Records
    <3>5. tasks \in [Task -> Records]
      BY DEF TypeOK, Records
    <3> QED
      BY <3>2, <3>3, <3>4, <3>5
  <2>2. currentLeader' \in [entry : Entry, sid : Nat]
    BY <1>13 DEF TypeOK, OnSessionLost, NoLeader, NoEntry, Entry
  <2> QED
    BY <1>13, <2>1, <2>2 DEF TypeOK, Records, OnSessionLost, busVars
<1>14. ASSUME NEW t \in Task, DisconnectedFromControllerServiceCB(t)
       PROVE  TypeOK'
  BY <1>14 DEF DisconnectedFromControllerServiceCB, Joiners, Goto
<1>15. ASSUME NEW t \in Task, NEW c \in Controller, Announced(t, c)
       PROVE  TypeOK'
  <2>1. tasks' \in [Task -> Records]
    BY <1>15 DEF TypeOK, Announced, Task_, Entry, Records
  <2>2. now' \in Nat
    BY <1>15 DEF TypeOK, Announced
  <2>3. chances' \in Nat
    BY <1>15 DEF TypeOK, Announced, Chance
  <2>4. owed' \subseteq Controller
    BY <1>15 DEF TypeOK, Announced, Chance, Task_
  <2> QED
    BY <1>15, <2>1, <2>2, <2>3, <2>4 DEF TypeOK, Records, Announced, clientVars
<1>16. ASSUME NEW t \in Task, NEW j \in joins, JoinSessionCB(t, j)
       PROVE  TypeOK'
  <2>1. tasks' \in [Task -> Records]
    <3>1. j.entry \in Entry /\ NoEntry \in Entry /\ Fresh(SidsInUse) \in Nat
      BY SidIsNew DEF TypeOK, Entry, NoEntry
    <3>2. \E sid \in Nat, status \in {"OK", "FAIL", "ALREADY_JOINED"} :
            tasks' = [tasks EXCEPT ![t] =
              [pc |-> "joined", entry |-> j.entry, old |-> NoEntry, sid |-> sid,
               status |-> status]]
      BY <1>16, <3>1 DEF JoinSessionCB, Task_
    <3>3. tasks \in [Task -> Records]
      BY DEF TypeOK, Records
    <3> HIDE DEF TypeOK, Entry, NoEntry
    <3>4. \A sid \in Nat, status \in {"OK", "FAIL", "ALREADY_JOINED"} :
            [pc |-> "joined", entry |-> j.entry, old |-> NoEntry, sid |-> sid,
             status |-> status] \in Records
      BY <3>1 DEF Records
    <3> HIDE DEF Records
    <3>5. PICK sid \in Nat, status \in {"OK", "FAIL", "ALREADY_JOINED"} :
            tasks' = [tasks EXCEPT ![t] =
              [pc |-> "joined", entry |-> j.entry, old |-> NoEntry, sid |-> sid,
               status |-> status]]
      BY <3>2
    <3> QED
      BY <3>3, <3>4, <3>5
  <2>2. sessions' \subseteq
          [sid : Nat \ {0}, rank : Controller, life : Nat, open : BOOLEAN]
    <3>1. j.entry.rank \in Controller /\ j.entry.life \in Nat
      BY DEF TypeOK, Entry
    <3> DEFINE s == [sid |-> Fresh(SidsInUse), rank |-> j.entry.rank,
                       life |-> j.entry.life, open |-> TRUE]
    <3>2. sessions' \subseteq sessions \cup {s}
      BY <1>16 DEF JoinSessionCB
    <3>3. s \in [sid : Nat \ {0}, rank : Controller, life : Nat, open : BOOLEAN]
      BY <3>1, SidIsNew
    <3> QED
      BY <3>2, <3>3 DEF TypeOK
  <2> QED
    BY <1>16, <2>1, <2>2 DEF TypeOK, Records, JoinSessionCB, Chance, clientVars
<1>17. ASSUME NEW t \in Task, NEW e \in events, SessionLost(t, e.sid)
       PROVE  TypeOK'
  BY <1>17 DEF SessionLost, Task_, Idle
<1>18. ASSUME NEW t \in Task, NEW e \in events, OnSessionMemberRemoved(t,
            e.sid)
       PROVE  TypeOK'
  <2>1. leaving' \subseteq Nat
    <3>1. e.sid \in Nat
      BY DEF TypeOK
    <3>2. leaving' \subseteq leaving \cup {e.sid}
      BY <1>18 DEF OnSessionMemberRemoved, DoLeaveSessionAsync
    <3> QED
      BY <3>1, <3>2 DEF TypeOK
  <2> QED
    BY <1>18, <2>1 DEF TypeOK, OnSessionMemberRemoved, Task_, Entry, NoEntry, clientVars
<1>19. ASSUME NEW sid \in leaving, LeaveSession(sid) PROVE TypeOK'
  BY <1>19 DEF LeaveSession
<1>20. CASE Stop
  BY <1>20 DEF Stop
<1>21. CASE StopForgetsLeader
  BY <1>21 DEF StopForgetsLeader
<1>22. CASE StopLeaves
  <2>1. app.sid \in Nat /\ leaving' \subseteq leaving \cup {app.sid}
    BY <1>22 DEF TypeOK, StopLeaves, DoLeaveSessionAsync
  <2>2. leaving' \subseteq Nat
    BY <2>1 DEF TypeOK
  <2>3. app' \in [pc : {"idle", "stop", "leave", "clear"}, sid : Nat]
    BY <1>22 DEF StopLeaves
  <2>4. view' \in Controller \cup {0}
    BY <1>22 DEF TypeOK, StopLeaves
  <2> QED
    BY <1>22, <2>2, <2>3, <2>4 DEF TypeOK, StopLeaves, clientVars, busVars
<1>23. CASE StopClears
  BY <1>23 DEF StopClears
<1>24. CASE Start
  BY <1>24 DEF Start
<1>25. ASSUME NEW c \in Controller, Lead(c) PROVE TypeOK'
  BY <1>25 DEF Lead
<1>26. ASSUME NEW c \in Controller, NEW kind \in {"lost", "removed"},
            StepDown(c, kind) \/ Crash(c, kind)
       PROVE  TypeOK'
  <2>1. sessions' \subseteq
          [sid : Nat \ {0}, rank : Controller, life : Nat, open : BOOLEAN]
    <3>1. \A s \in [sid : Nat \ {0}, rank : Controller, life : Nat, open : BOOLEAN] :
            [s EXCEPT !.open = FALSE]
              \in [sid : Nat \ {0}, rank : Controller, life : Nat, open : BOOLEAN]
      OBVIOUS
    <3>2. sessions' \subseteq sessions \cup {[s EXCEPT !.open = FALSE] : s \in sessions}
      BY <1>26 DEF Leaves, StepDown, Crash
    <3> QED
      BY <3>1, <3>2 DEF TypeOK
  <2>2. events' \subseteq [kind : {"lost", "removed"}, sid : Nat \ {0}]
    BY <1>26 DEF TypeOK, Leaves, StepDown, Crash
  <2>3. /\ leading' \in [Controller -> BOOLEAN]
        /\ owed' \subseteq Controller
    BY <1>26 DEF TypeOK, Leaves, StepDown, Crash
  <2>5. chances' \in Nat
    BY <1>26 DEF TypeOK, Leaves, Chance, StepDown, Crash
  <2>4. life' \in [Controller -> Nat]
    BY <1>26 DEF TypeOK, Leaves, StepDown, Crash
  <2> QED
    BY <1>26, <2>1, <2>2, <2>3, <2>4, <2>5 DEF TypeOK, Leaves, StepDown, Crash, clientVars
<1>27. CASE UNCHANGED vars
  BY <1>27 DEF vars
<1> HIDE DEF TypeOK, Race, If, Entry, NoEntry, NoLeader, Chance, busVars,
         clientVars
<1> QED
  BY <1>1, <1>2, <1>3, <1>4, <1>5, <1>6, <1>7, <1>8, <1>9, <1>10, <1>11, <1>12,
     <1>13, <1>14, <1>15, <1>16, <1>17, <1>18, <1>19, <1>20, <1>21, <1>22,
     <1>23, <1>24, <1>25, <1>26, <1>27 DEF Next, Step, Callback, Begins,
     Application, World

\* Every step keeps the forms of the locals.
LEMMA FormStep ==
  TypeOK /\ TaskForm /\ AppForm /\ AllFinite /\ [Next]_vars => (TaskForm /\ AppForm)'
<1> SUFFICES ASSUME TypeOK, TaskForm, AppForm, AllFinite, [Next]_vars
             PROVE  (TaskForm /\ AppForm)'
  OBVIOUS
<1> USE ClientConnectionAssumption
<1> USE DEF TypeOK, TaskForm, AppForm, clientVars, busVars
<1>1. ASSUME NEW t \in Task, Insert(t) PROVE (TaskForm /\ AppForm)'
  BY <1>1 DEF Insert, Goto, Done, Idle, Joiners, DoLeaveSessionAsync
<1>2. ASSUME NEW t \in Task, Forget(t) PROVE (TaskForm /\ AppForm)'
  BY <1>2 DEF Forget, Goto, Joiners
<1>3. ASSUME NEW t \in Task, Pick(t) PROVE (TaskForm /\ AppForm)'
  BY <1>3 DEF Lost, Pick, Done, Idle, Task_
<1>4. ASSUME NEW t \in Task, JoinSessionAsync(t) PROVE (TaskForm /\ AppForm)'
  BY <1>4 DEF JoinSessionAsync, Goto
<1>5. ASSUME NEW t \in Task, JoinSessionAsyncFails(t)
      PROVE  (TaskForm /\ AppForm)'
  BY <1>5 DEF JoinSessionAsyncFails, Goto, Done, Idle
<1>6. ASSUME NEW t \in Task, Note(t) PROVE (TaskForm /\ AppForm)'
  BY <1>6 DEF Note, Done, Idle
<1>7. ASSUME NEW t \in Task, OnSessionJoined(t) PROVE (TaskForm /\ AppForm)'
  BY <1>7 DEF OnSessionJoined, NotCurrent, Done, Idle, Goto, Task_,
     DoLeaveSessionAsync
<1>8. ASSUME NEW t \in Task, SetLinkTimeout(t) PROVE (TaskForm /\ AppForm)'
  BY <1>8 DEF SetLinkTimeout, Goto
<1>9. ASSUME NEW t \in Task, SetLinkTimeoutFails(t)
      PROVE  (TaskForm /\ AppForm)'
  BY <1>9 DEF SetLinkTimeoutFails, Goto
<1>10. ASSUME NEW t \in Task, Unlink(t) PROVE (TaskForm /\ AppForm)'
  BY <1>10 DEF Unlink, Cleared, Joiners, Goto
<1>11. ASSUME NEW t \in Task, ConnectedToControllerServiceCB(t)
       PROVE  (TaskForm /\ AppForm)'
  BY <1>11 DEF ConnectedToControllerServiceCB, Done, Idle
<1>12. ASSUME NEW t \in Task, Failed(t) PROVE (TaskForm /\ AppForm)'
  BY <1>12 DEF Failed, Cleared, Joiners, Task_
<1>13. ASSUME NEW t \in Task, OnSessionLost(t) PROVE (TaskForm /\ AppForm)'
  BY <1>13 DEF OnSessionLost, Task_, Done, Idle
<1>14. ASSUME NEW t \in Task, DisconnectedFromControllerServiceCB(t)
       PROVE  (TaskForm /\ AppForm)'
  BY <1>14 DEF DisconnectedFromControllerServiceCB, Joiners, Goto
<1>15. ASSUME NEW t \in Task, NEW c \in Controller, Announced(t, c)
       PROVE  (TaskForm /\ AppForm)'
  BY <1>15 DEF NoEntry, Announced, Task_, Idle
<1>16. ASSUME NEW t \in Task, NEW j \in joins, JoinSessionCB(t, j)
       PROVE  (TaskForm /\ AppForm)'
  BY <1>16, SidIsNew DEF JoinSessionCB, Task_, Idle
<1>17. ASSUME NEW t \in Task, NEW e \in events, SessionLost(t, e.sid)
       PROVE  (TaskForm /\ AppForm)'
  BY <1>17 DEF SessionLost, Task_, Idle
<1>18. ASSUME NEW t \in Task, NEW e \in events, OnSessionMemberRemoved(t,
            e.sid)
       PROVE  (TaskForm /\ AppForm)'
  BY <1>18 DEF OnSessionMemberRemoved, Task_, Idle, DoLeaveSessionAsync
<1>19. ASSUME NEW sid \in leaving, LeaveSession(sid)
       PROVE  (TaskForm /\ AppForm)'
  BY <1>19 DEF LeaveSession
<1>20. CASE Stop
  BY <1>20 DEF Stop
<1>21. CASE StopForgetsLeader
  BY <1>21 DEF StopForgetsLeader
<1>22. CASE StopLeaves
  BY <1>22 DEF StopLeaves, DoLeaveSessionAsync
<1>23. CASE StopClears
  BY <1>23 DEF StopClears
<1>24. CASE Start
  BY <1>24 DEF Start
<1>25. ASSUME NEW c \in Controller, Lead(c) PROVE (TaskForm /\ AppForm)'
  BY <1>25 DEF Lead
<1>26. ASSUME NEW c \in Controller, NEW kind \in {"lost", "removed"},
            StepDown(c, kind) \/ Crash(c, kind)
       PROVE  (TaskForm /\ AppForm)'
  BY <1>26 DEF Leaves, StepDown, Crash
<1>27. CASE UNCHANGED vars
  BY <1>27 DEF vars
<1> HIDE DEF TypeOK, TaskForm, AppForm, clientVars, busVars
<1> QED
  BY <1>1, <1>2, <1>3, <1>4, <1>5, <1>6, <1>7, <1>8, <1>9, <1>10, <1>11, <1>12,
     <1>13, <1>14, <1>15, <1>16, <1>17, <1>18, <1>19, <1>20, <1>21, <1>22,
     <1>23, <1>24, <1>25, <1>26, <1>27 DEF Next, Step, Callback, Begins,
     Application, World

\* Every step keeps the sets finite.
LEMMA FiniteStep == TypeOK /\ AllFinite /\ [Next]_vars => AllFinite'
<1> SUFFICES ASSUME TypeOK, AllFinite, [Next]_vars PROVE AllFinite'
  OBVIOUS
<1> USE FS_AddElement, FS_RemoveElement, FS_Subset
<1> USE DEF AllFinite, clientVars, busVars
<1>1. ASSUME NEW t \in Task, Insert(t) PROVE AllFinite'
  BY <1>1 DEF Insert, Goto, Done, Idle, Joiners, DoLeaveSessionAsync
<1>2. ASSUME NEW t \in Task, Forget(t) PROVE AllFinite'
  BY <1>2 DEF Forget, Goto, Joiners
<1>3. ASSUME NEW t \in Task, Pick(t) PROVE AllFinite'
  BY <1>3 DEF Pick, Done, Idle, Task_
<1>4. ASSUME NEW t \in Task, JoinSessionAsync(t) PROVE AllFinite'
  <2> DEFINE j == [id |-> Fresh({i.id : i \in joins}), entry |-> tasks[t].entry]
  <2>1. joins' = joins \cup {j}
    BY <1>4 DEF JoinSessionAsync
  <2>2. IsFiniteSet(joins')
    BY <2>1, FS_AddElement DEF AllFinite
  <2> QED
    BY <1>4, <2>2 DEF AllFinite, JoinSessionAsync, busVars
<1>5. ASSUME NEW t \in Task, JoinSessionAsyncFails(t) PROVE AllFinite'
  BY <1>5 DEF JoinSessionAsyncFails, Goto, Done, Idle
<1>6. ASSUME NEW t \in Task, Note(t) PROVE AllFinite'
  BY <1>6 DEF Note, Done, Idle
<1>7. ASSUME NEW t \in Task, OnSessionJoined(t) PROVE AllFinite'
  BY <1>7 DEF OnSessionJoined, NotCurrent, Done, Idle, Goto, Task_,
     DoLeaveSessionAsync
<1>8. ASSUME NEW t \in Task, SetLinkTimeout(t) PROVE AllFinite'
  BY <1>8 DEF SetLinkTimeout, Goto
<1>9. ASSUME NEW t \in Task, SetLinkTimeoutFails(t) PROVE AllFinite'
  BY <1>9 DEF SetLinkTimeoutFails, Goto
<1>10. ASSUME NEW t \in Task, Unlink(t) PROVE AllFinite'
  BY <1>10 DEF Unlink, Cleared, Joiners, Goto
<1>11. ASSUME NEW t \in Task, ConnectedToControllerServiceCB(t)
       PROVE  AllFinite'
  BY <1>11 DEF ConnectedToControllerServiceCB, Done, Idle
<1>12. ASSUME NEW t \in Task, Failed(t) PROVE AllFinite'
  BY <1>12 DEF Failed, Cleared, Joiners, Task_
<1>13. ASSUME NEW t \in Task, OnSessionLost(t) PROVE AllFinite'
  BY <1>13 DEF OnSessionLost, Task_, Done, Idle
<1>14. ASSUME NEW t \in Task, DisconnectedFromControllerServiceCB(t)
       PROVE  AllFinite'
  BY <1>14 DEF DisconnectedFromControllerServiceCB, Joiners, Goto
<1>15. ASSUME NEW t \in Task, NEW c \in Controller, Announced(t, c)
       PROVE  AllFinite'
  BY <1>15 DEF Announced, Task_, Idle
<1>16. ASSUME NEW t \in Task, NEW j \in joins, JoinSessionCB(t, j)
       PROVE  AllFinite'
  <2>1. IsFiniteSet(joins')
    BY <1>16, FS_RemoveElement DEF AllFinite, JoinSessionCB
  <2>2. IsFiniteSet(sessions')
    BY <1>16, JoinAnswered, FS_AddElement DEF AllFinite
  <2> QED
    BY <1>16, <2>1, <2>2 DEF AllFinite, JoinSessionCB
<1>17. ASSUME NEW t \in Task, NEW e \in events, SessionLost(t, e.sid)
       PROVE  AllFinite'
  BY <1>17 DEF SessionLost, Task_, Idle
<1>18. ASSUME NEW t \in Task, NEW e \in events, OnSessionMemberRemoved(t,
            e.sid)
       PROVE  AllFinite'
  BY <1>18 DEF OnSessionMemberRemoved, Task_, Idle, DoLeaveSessionAsync
<1>19. ASSUME NEW sid \in leaving, LeaveSession(sid) PROVE AllFinite'
  BY <1>19 DEF LeaveSession
<1>20. CASE Stop
  BY <1>20 DEF Stop
<1>21. CASE StopForgetsLeader
  BY <1>21 DEF StopForgetsLeader
<1>22. CASE StopLeaves
  BY <1>22 DEF StopLeaves, DoLeaveSessionAsync
<1>23. CASE StopClears
  BY <1>23 DEF StopClears
<1>24. CASE Start
  BY <1>24 DEF Start
<1>25. ASSUME NEW c \in Controller, Lead(c) PROVE AllFinite'
  BY <1>25 DEF Lead
<1>26. ASSUME NEW c \in Controller, NEW kind \in {"lost", "removed"},
            StepDown(c, kind) \/ Crash(c, kind)
       PROVE  AllFinite'
  <2> DEFINE of == {s \in sessions : s.rank = c /\ s.open}
             told == [s \in of |-> [kind |-> kind, sid |-> s.sid]]
             shut == [s \in of |-> [s EXCEPT !.open = FALSE]]
             news == events' \ events
             kept == sessions' \ sessions
  <2>1. IsFiniteSet(of)
    BY FS_Subset DEF AllFinite
  <2>2. \A e \in news : \E s \in of : e = told[s]
    BY <1>26 DEF Leaves, StepDown, Crash
  <2>3. \A r \in kept : \E s \in of : r = shut[s]
    BY <1>26 DEF Leaves, StepDown, Crash
  <2>4. DOMAIN told = of /\ DOMAIN shut = of
    OBVIOUS
  <2> HIDE DEF told, shut, of
  <2>5. IsFiniteSet(news) /\ IsFiniteSet(kept)
    BY <2>1, <2>2, <2>3, <2>4, ImageIsFinite
  <2>6. events' \subseteq events \cup news /\ sessions' \subseteq sessions \cup kept
    OBVIOUS
  <2> HIDE DEF news, kept
  <2>7. IsFiniteSet(events') /\ IsFiniteSet(sessions')
    BY <2>5, <2>6, FS_Union, FS_Subset DEF AllFinite
  <2> QED
    BY <1>26, <2>7 DEF AllFinite, Leaves, StepDown, Crash
<1>27. CASE UNCHANGED vars
  BY <1>27 DEF vars
<1> QED
  BY <1>1, <1>2, <1>3, <1>4, <1>5, <1>6, <1>7, <1>8, <1>9, <1>10, <1>11, <1>12,
     <1>13, <1>14, <1>15, <1>16, <1>17, <1>18, <1>19, <1>20, <1>21, <1>22,
     <1>23, <1>24, <1>25, <1>26, <1>27 DEF Next, Step, Callback, Begins,
     Application, World
-----------------------------------------------------------------------------
(* Entries and sessions.                                                   *)

\* Only an announcement makes an entry.
LEMMA EntriesStep ==
  ASSUME TypeOK, [Next]_vars, ~\E t \in Task, c \in Controller : Announced(t, c)
  PROVE  Entries' \subseteq Entries \cup {NoEntry} /\ now' = now
<1> DEFINE P == Entries' \subseteq Entries \cup {NoEntry} /\ now' = now
<1> USE DEF TypeOK, Entries, NoLeader, clientVars, busVars
<1>1. ASSUME NEW t \in Task, Insert(t) PROVE P
  BY <1>1 DEF Known, OfRank, Insert, Goto, Done, Idle, Joiners, DoLeaveSessionAsync
<1>2. ASSUME NEW t \in Task, Forget(t) PROVE P
  BY <1>2 DEF Forget, Goto, Joiners
<1>3. ASSUME NEW t \in Task, Pick(t) PROVE P
  BY <1>3 DEF Pick, Done, Idle, Task_
<1>4. ASSUME NEW t \in Task, JoinSessionAsync(t) PROVE P
  <2> DEFINE i == Fresh({j.id : j \in joins})
  <2>1. joins' = joins \cup {[id |-> i, entry |-> tasks[t].entry]}
    BY <1>4 DEF JoinSessionAsync
  <2> HIDE DEF i
  <2>2. {j.entry : j \in joins'} \subseteq {j.entry : j \in joins} \cup {tasks[t].entry}
    BY <2>1
  <2>3. \A u \in Task : tasks'[u].entry = tasks[u].entry /\ tasks'[u].old = tasks[u].old
    BY <1>4 DEF TypeOK, JoinSessionAsync, Goto
  <2> HIDE DEF TypeOK
  <2> QED
    BY <1>4, <2>2, <2>3 DEF JoinSessionAsync
<1>5. ASSUME NEW t \in Task, JoinSessionAsyncFails(t) PROVE P
  BY <1>5 DEF JoinSessionAsyncFails, Goto, Done, Idle
<1>6. ASSUME NEW t \in Task, Note(t) PROVE P
  BY <1>6 DEF Note, Done, Idle
<1>7. ASSUME NEW t \in Task, OnSessionJoined(t) PROVE P
  BY <1>7 DEF OnSessionJoined, NotCurrent, Done, Idle, Goto, Task_,
     DoLeaveSessionAsync
<1>8. ASSUME NEW t \in Task, SetLinkTimeout(t) PROVE P
  BY <1>8 DEF SetLinkTimeout, Goto
<1>9. ASSUME NEW t \in Task, SetLinkTimeoutFails(t) PROVE P
  BY <1>9 DEF SetLinkTimeoutFails, Goto
<1>10. ASSUME NEW t \in Task, Unlink(t) PROVE P
  BY <1>10 DEF Unlink, Cleared, Joiners, Goto
<1>11. ASSUME NEW t \in Task, ConnectedToControllerServiceCB(t) PROVE P
  BY <1>11 DEF ConnectedToControllerServiceCB, Done, Idle
<1>12. ASSUME NEW t \in Task, Failed(t) PROVE P
  BY <1>12 DEF Failed, Cleared, Joiners, Task_
<1>13. ASSUME NEW t \in Task, OnSessionLost(t) PROVE P
  BY <1>13 DEF OnSessionLost, Task_, Done, Idle
<1>14. ASSUME NEW t \in Task, DisconnectedFromControllerServiceCB(t) PROVE P
  BY <1>14 DEF DisconnectedFromControllerServiceCB, Joiners, Goto
<1>15. ASSUME NEW t \in Task, NEW c \in Controller, Announced(t, c) PROVE P
  BY <1>15
<1>16. ASSUME NEW t \in Task, NEW j \in joins, JoinSessionCB(t, j) PROVE P
  BY <1>16 DEF JoinSessionCB, Task_, Idle
<1>17. ASSUME NEW t \in Task, NEW e \in events, SessionLost(t, e.sid) PROVE P
  BY <1>17 DEF SessionLost, Task_, Idle
<1>18. ASSUME NEW t \in Task, NEW e \in events, OnSessionMemberRemoved(t,
            e.sid)
       PROVE  P
  BY <1>18 DEF OnSessionMemberRemoved, Task_, Idle, DoLeaveSessionAsync
<1>19. ASSUME NEW sid \in leaving, LeaveSession(sid) PROVE P
  BY <1>19 DEF LeaveSession
<1>20. CASE Stop
  BY <1>20 DEF Stop
<1>21. CASE StopForgetsLeader
  BY <1>21 DEF StopForgetsLeader
<1>22. CASE StopLeaves
  BY <1>22 DEF StopLeaves, DoLeaveSessionAsync
<1>23. CASE StopClears
  BY <1>23 DEF StopClears
<1>24. CASE Start
  BY <1>24 DEF Start
<1>25. ASSUME NEW c \in Controller, Lead(c) PROVE P
  BY <1>25 DEF Lead
<1>26. ASSUME NEW c \in Controller, NEW kind \in {"lost", "removed"},
            StepDown(c, kind) \/ Crash(c, kind)
       PROVE  P
  BY <1>26 DEF Leaves, StepDown, Crash
<1>27. CASE UNCHANGED vars
  BY <1>27 DEF vars
<1> QED
  BY <1>1, <1>2, <1>3, <1>4, <1>5, <1>6, <1>7, <1>8, <1>9, <1>10, <1>11, <1>12,
     <1>13, <1>14, <1>15, <1>16, <1>17, <1>18, <1>19, <1>20, <1>21, <1>22,
     <1>23, <1>24, <1>25, <1>26, <1>27 DEF Next, Step, Callback, Begins,
     Application, World

\* An announcement is later than all before it.
LEMMA EntryNamesStep ==
  ASSUME TypeOK, EntryNames, [Next]_vars
  PROVE  EntryNames'
<1>1. Entries \subseteq Entry /\ now \in Nat
  BY DEF TypeOK, Entries
<1>2. NoEntry.rank = 0 /\ NoEntry.ts = 0 /\ \A e \in Entry : e.rank = 0 => e = NoEntry
  BY ClientConnectionAssumption DEF Entry, NoEntry
<1>3. CASE \E t \in Task, c \in Controller : Announced(t, c)
  <2> PICK t \in Task, c \in Controller : Announced(t, c)
    BY <1>3
  <2> DEFINE new == [rank |-> c, ts |-> now + 1, life |-> life[c]]
  <2>1. new.ts = now + 1
    OBVIOUS
  <2>2. Entries' \subseteq Entries \cup {new}
    BY DEF TypeOK, Entries, Announced, Task_, clientVars
  <2>3. now' = now + 1
    BY DEF Announced
  <2> HIDE DEF new
  <2> QED
    <3>1. \A e \in Entries : e.ts \in Nat /\ e.ts <= now
      BY <1>1 DEF EntryNames, Entry, NoEntry
    <3>2. \A e \in Entries' : e.ts <= now'
      BY <1>1, <2>1, <2>2, <2>3, <3>1
    <3>3. \A e, f \in Entries' : e.rank = f.rank /\ e.ts = f.ts => e = f
      BY <1>1, <2>1, <2>2, <3>1 DEF EntryNames
    <3> QED
      BY <3>2, <3>3 DEF EntryNames
<1>4. CASE ~\E t \in Task, c \in Controller : Announced(t, c)
  <2>1. Entries' \subseteq Entries \cup {NoEntry} /\ now' = now
    BY <1>4, EntriesStep
  <2> QED
    BY <1>1, <1>2, <2>1 DEF EntryNames
<1> QED
  BY <1>3, <1>4

\* Every step keeps the names of sessions apart.
LEMMA SessionNamesStep ==
  ASSUME TypeOK, AllFinite, SessionNames, [Next]_vars
  PROVE  SessionNames'
<1> USE DEF TypeOK, SessionNames, clientVars, busVars
<1>1. ASSUME NEW t \in Task, Insert(t) PROVE SessionNames'
  BY <1>1 DEF Insert, Goto, Done, Idle, Joiners, DoLeaveSessionAsync
<1>2. ASSUME NEW t \in Task, Forget(t) PROVE SessionNames'
  BY <1>2 DEF Forget, Goto, Joiners
<1>3. ASSUME NEW t \in Task, Pick(t) PROVE SessionNames'
  BY <1>3 DEF Pick, Done, Idle, Task_
<1>4. ASSUME NEW t \in Task, JoinSessionAsync(t) PROVE SessionNames'
  BY <1>4 DEF JoinSessionAsync, Goto
<1>5. ASSUME NEW t \in Task, JoinSessionAsyncFails(t) PROVE SessionNames'
  BY <1>5 DEF JoinSessionAsyncFails, Goto, Done, Idle
<1>6. ASSUME NEW t \in Task, Note(t) PROVE SessionNames'
  BY <1>6 DEF Note, Done, Idle
<1>7. ASSUME NEW t \in Task, OnSessionJoined(t) PROVE SessionNames'
  BY <1>7 DEF OnSessionJoined, NotCurrent, Done, Idle, Goto, Task_,
     DoLeaveSessionAsync
<1>8. ASSUME NEW t \in Task, SetLinkTimeout(t) PROVE SessionNames'
  BY <1>8 DEF SetLinkTimeout, Goto
<1>9. ASSUME NEW t \in Task, SetLinkTimeoutFails(t) PROVE SessionNames'
  BY <1>9 DEF SetLinkTimeoutFails, Goto
<1>10. ASSUME NEW t \in Task, Unlink(t) PROVE SessionNames'
  BY <1>10 DEF Unlink, Cleared, Joiners, Goto
<1>11. ASSUME NEW t \in Task, ConnectedToControllerServiceCB(t)
       PROVE  SessionNames'
  BY <1>11 DEF ConnectedToControllerServiceCB, Done, Idle
<1>12. ASSUME NEW t \in Task, Failed(t) PROVE SessionNames'
  BY <1>12 DEF Failed, Cleared, Joiners, Task_
<1>13. ASSUME NEW t \in Task, OnSessionLost(t) PROVE SessionNames'
  BY <1>13 DEF OnSessionLost, Task_, Done, Idle
<1>14. ASSUME NEW t \in Task, DisconnectedFromControllerServiceCB(t)
       PROVE  SessionNames'
  BY <1>14 DEF DisconnectedFromControllerServiceCB, Joiners, Goto
<1>15. ASSUME NEW t \in Task, NEW c \in Controller, Announced(t, c)
       PROVE  SessionNames'
  BY <1>15 DEF Announced, Task_, Idle
<1>16. ASSUME NEW t \in Task, NEW j \in joins, JoinSessionCB(t, j)
       PROVE  SessionNames'
  BY <1>16, JoinAnswered DEF SidsInUse, SessionNames
<1>17. ASSUME NEW t \in Task, NEW e \in events, SessionLost(t, e.sid)
       PROVE  SessionNames'
  BY <1>17 DEF SessionLost, Task_, Idle
<1>18. ASSUME NEW t \in Task, NEW e \in events, OnSessionMemberRemoved(t,
            e.sid)
       PROVE  SessionNames'
  BY <1>18 DEF OnSessionMemberRemoved, Task_, Idle, DoLeaveSessionAsync
<1>19. ASSUME NEW sid \in leaving, LeaveSession(sid) PROVE SessionNames'
  BY <1>19 DEF LeaveSession
<1>20. CASE Stop
  BY <1>20 DEF Stop
<1>21. CASE StopForgetsLeader
  BY <1>21 DEF StopForgetsLeader
<1>22. CASE StopLeaves
  BY <1>22 DEF StopLeaves, DoLeaveSessionAsync
<1>23. CASE StopClears
  BY <1>23 DEF StopClears
<1>24. CASE Start
  BY <1>24 DEF Start
<1>25. ASSUME NEW c \in Controller, Lead(c) PROVE SessionNames'
  BY <1>25 DEF Lead
<1>26. ASSUME NEW c \in Controller, NEW kind \in {"lost", "removed"},
            StepDown(c, kind) \/ Crash(c, kind)
       PROVE  SessionNames'
  <2> SUFFICES ASSUME NEW r1 \in sessions', NEW r2 \in sessions',
                      r1.sid = r2.sid \/ (r1.rank = r2.rank /\ r1.life = r2.life)
               PROVE  r1 = r2
    BY DEF SessionNames
  <2>1. PICK s1 \in sessions :
          /\ r1.sid = s1.sid /\ r1.rank = s1.rank /\ r1.life = s1.life
          /\ IF s1.rank = c /\ s1.open THEN r1 = [s1 EXCEPT !.open = FALSE] ELSE r1 = s1
    BY <1>26, HostLeaves
  <2>2. PICK s2 \in sessions :
          /\ r2.sid = s2.sid /\ r2.rank = s2.rank /\ r2.life = s2.life
          /\ IF s2.rank = c /\ s2.open THEN r2 = [s2 EXCEPT !.open = FALSE] ELSE r2 = s2
    BY <1>26, HostLeaves
  <2>3. s1 = s2
    BY <2>1, <2>2 DEF SessionNames
  <2>4. CASE s1.rank = c /\ s1.open
    BY <2>1, <2>2, <2>3, <2>4, Zenon
  <2>5. CASE ~(s1.rank = c /\ s1.open)
    BY <2>1, <2>2, <2>3, <2>5, Zenon
  <2> QED
    BY <2>4, <2>5
<1>27. CASE UNCHANGED vars
  BY <1>27 DEF vars
<1> QED
  BY <1>1, <1>2, <1>3, <1>4, <1>5, <1>6, <1>7, <1>8, <1>9, <1>10, <1>11, <1>12,
     <1>13, <1>14, <1>15, <1>16, <1>17, <1>18, <1>19, <1>20, <1>21, <1>22,
     <1>23, <1>24, <1>25, <1>26, <1>27 DEF Next, Step, Callback, Begins,
     Application, World

\* A session that ended, or is being left, does not come back.
LEMMA SessionEndsStep ==
  ASSUME TypeOK, AllFinite, SessionNames, SessionEnds, [Next]_vars
  PROVE  SessionEnds'
<1> USE DEF TypeOK, SessionEnds, Gone, clientVars, busVars
<1>1. ASSUME NEW t \in Task, Insert(t) PROVE SessionEnds'
  BY <1>1 DEF Insert, Goto, Done, Idle, Joiners, DoLeaveSessionAsync
<1>2. ASSUME NEW t \in Task, Forget(t) PROVE SessionEnds'
  BY <1>2 DEF Forget, Goto, Joiners
<1>3. ASSUME NEW t \in Task, Pick(t) PROVE SessionEnds'
  BY <1>3 DEF Pick, Done, Idle, Task_
<1>4. ASSUME NEW t \in Task, JoinSessionAsync(t) PROVE SessionEnds'
  BY <1>4 DEF JoinSessionAsync, Goto
<1>5. ASSUME NEW t \in Task, JoinSessionAsyncFails(t) PROVE SessionEnds'
  BY <1>5 DEF JoinSessionAsyncFails, Goto, Done, Idle
<1>6. ASSUME NEW t \in Task, Note(t) PROVE SessionEnds'
  BY <1>6 DEF Note, Done, Idle
<1>7. ASSUME NEW t \in Task, OnSessionJoined(t) PROVE SessionEnds'
  BY <1>7 DEF OnSessionJoined, NotCurrent, Done, Idle, Goto, Task_,
     DoLeaveSessionAsync
<1>8. ASSUME NEW t \in Task, SetLinkTimeout(t) PROVE SessionEnds'
  BY <1>8 DEF SetLinkTimeout, Goto
<1>9. ASSUME NEW t \in Task, SetLinkTimeoutFails(t) PROVE SessionEnds'
  BY <1>9 DEF SetLinkTimeoutFails, Goto
<1>10. ASSUME NEW t \in Task, Unlink(t) PROVE SessionEnds'
  BY <1>10 DEF Unlink, Cleared, Joiners, Goto
<1>11. ASSUME NEW t \in Task, ConnectedToControllerServiceCB(t)
       PROVE  SessionEnds'
  BY <1>11 DEF ConnectedToControllerServiceCB, Done, Idle
<1>12. ASSUME NEW t \in Task, Failed(t) PROVE SessionEnds'
  BY <1>12 DEF Failed, Cleared, Joiners, Task_
<1>13. ASSUME NEW t \in Task, OnSessionLost(t) PROVE SessionEnds'
  BY <1>13 DEF OnSessionLost, Task_, Done, Idle
<1>14. ASSUME NEW t \in Task, DisconnectedFromControllerServiceCB(t)
       PROVE  SessionEnds'
  BY <1>14 DEF DisconnectedFromControllerServiceCB, Joiners, Goto
<1>15. ASSUME NEW t \in Task, NEW c \in Controller, Announced(t, c)
       PROVE  SessionEnds'
  BY <1>15 DEF Announced, Task_, Idle
<1>16. ASSUME NEW t \in Task, NEW j \in joins, JoinSessionCB(t, j)
       PROVE  SessionEnds'
  <2>1. events' = events /\ leaving' = leaving
    BY <1>16 DEF JoinSessionCB
  <2> QED
    BY <1>16, <2>1, JoinAnswered DEF SidsInUse, SessionEnds, Gone
<1>17. ASSUME NEW t \in Task, NEW e \in events, SessionLost(t, e.sid)
       PROVE  SessionEnds'
  BY <1>17 DEF SessionLost, Task_, Idle
<1>18. ASSUME NEW t \in Task, NEW e \in events, OnSessionMemberRemoved(t,
            e.sid)
       PROVE  SessionEnds'
  BY <1>18 DEF OnSessionMemberRemoved, Task_, Idle, DoLeaveSessionAsync
<1>19. ASSUME NEW sid \in leaving, LeaveSession(sid) PROVE SessionEnds'
  BY <1>19 DEF LeaveSession
<1>20. CASE Stop
  BY <1>20 DEF Stop
<1>21. CASE StopForgetsLeader
  BY <1>21 DEF StopForgetsLeader
<1>22. CASE StopLeaves
  BY <1>22 DEF StopLeaves, DoLeaveSessionAsync
<1>23. CASE StopClears
  BY <1>23 DEF StopClears
<1>24. CASE Start
  BY <1>24 DEF Start
<1>25. ASSUME NEW c \in Controller, Lead(c) PROVE SessionEnds'
  BY <1>25 DEF Lead
<1>26. ASSUME NEW c \in Controller, NEW kind \in {"lost", "removed"},
            StepDown(c, kind) \/ Crash(c, kind)
       PROVE  SessionEnds'
  BY <1>26 DEF SessionNames, Leaves, StepDown, Crash
<1>27. CASE UNCHANGED vars
  BY <1>27 DEF vars
<1> QED
  BY <1>1, <1>2, <1>3, <1>4, <1>5, <1>6, <1>7, <1>8, <1>9, <1>10, <1>11, <1>12,
     <1>13, <1>14, <1>15, <1>16, <1>17, <1>18, <1>19, <1>20, <1>21, <1>22,
     <1>23, <1>24, <1>25, <1>26, <1>27 DEF Next, Step, Callback, Begins,
     Application, World

\* A join handed over keeps its session with its controller.
LEMMA JoinedWithStep ==
  ASSUME TypeOK, AllFinite, SessionNames, JoinedWith, [Next]_vars
  PROVE  JoinedWith'
<1> USE DEF TypeOK, JoinedWith, With, clientVars, busVars
<1>1. ASSUME NEW t \in Task, Insert(t) PROVE JoinedWith'
  BY <1>1 DEF Insert, Goto, Done, Idle, Joiners, DoLeaveSessionAsync
<1>2. ASSUME NEW t \in Task, Forget(t) PROVE JoinedWith'
  BY <1>2 DEF Forget, Goto, Joiners
<1>3. ASSUME NEW t \in Task, Pick(t) PROVE JoinedWith'
  BY <1>3 DEF Pick, Done, Idle, Task_
<1>4. ASSUME NEW t \in Task, JoinSessionAsync(t) PROVE JoinedWith'
  BY <1>4 DEF JoinSessionAsync, Goto
<1>5. ASSUME NEW t \in Task, JoinSessionAsyncFails(t) PROVE JoinedWith'
  BY <1>5 DEF JoinSessionAsyncFails, Goto, Done, Idle
<1>6. ASSUME NEW t \in Task, Note(t) PROVE JoinedWith'
  BY <1>6 DEF Note, Done, Idle
<1>7. ASSUME NEW t \in Task, OnSessionJoined(t) PROVE JoinedWith'
  BY <1>7 DEF OnSessionJoined, NotCurrent, Done, Idle, Goto, Task_,
     DoLeaveSessionAsync
<1>8. ASSUME NEW t \in Task, SetLinkTimeout(t) PROVE JoinedWith'
  BY <1>8 DEF SetLinkTimeout, Goto
<1>9. ASSUME NEW t \in Task, SetLinkTimeoutFails(t) PROVE JoinedWith'
  BY <1>9 DEF SetLinkTimeoutFails, Goto
<1>10. ASSUME NEW t \in Task, Unlink(t) PROVE JoinedWith'
  BY <1>10 DEF Unlink, Cleared, Joiners, Goto
<1>11. ASSUME NEW t \in Task, ConnectedToControllerServiceCB(t)
       PROVE  JoinedWith'
  BY <1>11 DEF ConnectedToControllerServiceCB, Done, Idle
<1>12. ASSUME NEW t \in Task, Failed(t) PROVE JoinedWith'
  BY <1>12 DEF Failed, Cleared, Joiners, Task_
<1>13. ASSUME NEW t \in Task, OnSessionLost(t) PROVE JoinedWith'
  BY <1>13 DEF OnSessionLost, Task_, Done, Idle
<1>14. ASSUME NEW t \in Task, DisconnectedFromControllerServiceCB(t)
       PROVE  JoinedWith'
  BY <1>14 DEF DisconnectedFromControllerServiceCB, Joiners, Goto
<1>15. ASSUME NEW t \in Task, NEW c \in Controller, Announced(t, c)
       PROVE  JoinedWith'
  BY <1>15 DEF Announced, Task_, Idle
<1>16. ASSUME NEW t \in Task, NEW j \in joins, JoinSessionCB(t, j)
       PROVE  JoinedWith'
  BY <1>16, JoinAnswered DEF TypeOK, SidsInUse, JoinedWith, With
<1>17. ASSUME NEW t \in Task, NEW e \in events, SessionLost(t, e.sid)
       PROVE  JoinedWith'
  BY <1>17 DEF SessionLost, Task_, Idle
<1>18. ASSUME NEW t \in Task, NEW e \in events, OnSessionMemberRemoved(t,
            e.sid)
       PROVE  JoinedWith'
  BY SMTT(30), <1>18 DEF OnSessionMemberRemoved, Task_, Idle,
     DoLeaveSessionAsync
<1>19. ASSUME NEW sid \in leaving, LeaveSession(sid) PROVE JoinedWith'
  BY <1>19 DEF LeaveSession
<1>20. CASE Stop
  BY <1>20 DEF Stop
<1>21. CASE StopForgetsLeader
  BY <1>21 DEF StopForgetsLeader
<1>22. CASE StopLeaves
  BY <1>22 DEF StopLeaves, DoLeaveSessionAsync
<1>23. CASE StopClears
  BY <1>23 DEF StopClears
<1>24. CASE Start
  BY <1>24 DEF Start
<1>25. ASSUME NEW c \in Controller, Lead(c) PROVE JoinedWith'
  BY <1>25 DEF Lead
<1>26. ASSUME NEW c \in Controller, NEW kind \in {"lost", "removed"},
            StepDown(c, kind) \/ Crash(c, kind)
       PROVE  JoinedWith'
  BY <1>26 DEF SessionNames, Leaves, StepDown, Crash
<1>27. CASE UNCHANGED vars
  BY <1>27 DEF vars
<1> QED
  BY <1>1, <1>2, <1>3, <1>4, <1>5, <1>6, <1>7, <1>8, <1>9, <1>10, <1>11, <1>12,
     <1>13, <1>14, <1>15, <1>16, <1>17, <1>18, <1>19, <1>20, <1>21, <1>22,
     <1>23, <1>24, <1>25, <1>26, <1>27 DEF Next, Step, Callback, Begins,
     Application, World

-----------------------------------------------------------------------------
(* The leader and who looks for one.                                       *)

\* A race that has not happened by now had not happened before.
LEMMA RacesStay == \A races : [Next]_vars /\ Without(races)' => Without(races)
<1> SUFFICES ASSUME NEW races, [Next]_vars, Without(races)' PROVE Without(races)
  OBVIOUS
<1> USE DEF Without, Cleared, busVars, clientVars
<1>1. ASSUME NEW t \in Task, Insert(t) PROVE Without(races)
  BY <1>1 DEF Insert, Goto, Done, Idle, Joiners, DoLeaveSessionAsync
<1>2. ASSUME NEW t \in Task, Forget(t) PROVE Without(races)
  BY <1>2 DEF Forget, Goto, Joiners
<1>3. ASSUME NEW t \in Task, Pick(t) PROVE Without(races)
  BY <1>3 DEF Pick, Done, Idle, Task_
<1>4. ASSUME NEW t \in Task, JoinSessionAsync(t) PROVE Without(races)
  BY <1>4 DEF JoinSessionAsync, Goto
<1>5. ASSUME NEW t \in Task, JoinSessionAsyncFails(t) PROVE Without(races)
  BY <1>5 DEF JoinSessionAsyncFails, Goto, Done, Idle
<1>6. ASSUME NEW t \in Task, Note(t) PROVE Without(races)
  BY <1>6 DEF Note, Done, Idle
<1>7. ASSUME NEW t \in Task, OnSessionJoined(t) PROVE Without(races)
  BY <1>7 DEF OnSessionJoined, NotCurrent, Done, Idle, Goto, Task_,
     DoLeaveSessionAsync
<1>8. ASSUME NEW t \in Task, SetLinkTimeout(t) PROVE Without(races)
  BY <1>8 DEF SetLinkTimeout, Goto
<1>9. ASSUME NEW t \in Task, SetLinkTimeoutFails(t) PROVE Without(races)
  BY <1>9 DEF SetLinkTimeoutFails, Goto
<1>10. ASSUME NEW t \in Task, Unlink(t) PROVE Without(races)
  BY <1>10 DEF Unlink, Joiners, Goto
<1>11. ASSUME NEW t \in Task, ConnectedToControllerServiceCB(t)
       PROVE  Without(races)
  BY <1>11 DEF ConnectedToControllerServiceCB, Done, Idle
<1>12. ASSUME NEW t \in Task, Failed(t) PROVE Without(races)
  BY <1>12 DEF Failed, Joiners, Task_
<1>13. ASSUME NEW t \in Task, OnSessionLost(t) PROVE Without(races)
  BY <1>13 DEF OnSessionLost, Task_, Done, Idle
<1>14. ASSUME NEW t \in Task, DisconnectedFromControllerServiceCB(t)
       PROVE  Without(races)
  BY <1>14 DEF DisconnectedFromControllerServiceCB, Joiners, Goto
<1>15. ASSUME NEW t \in Task, NEW c \in Controller, Announced(t, c)
       PROVE  Without(races)
  BY <1>15 DEF Announced, Task_, Idle
<1>16. ASSUME NEW t \in Task, NEW j \in joins, JoinSessionCB(t, j)
       PROVE  Without(races)
  BY <1>16 DEF JoinSessionCB, Task_, Idle
<1>17. ASSUME NEW t \in Task, NEW e \in events, SessionLost(t, e.sid)
       PROVE  Without(races)
  BY <1>17 DEF SessionLost, Task_, Idle
<1>18. ASSUME NEW t \in Task, NEW e \in events, OnSessionMemberRemoved(t,
            e.sid)
       PROVE  Without(races)
  BY <1>18 DEF OnSessionMemberRemoved, Task_, Idle, DoLeaveSessionAsync
<1>19. ASSUME NEW sid \in leaving, LeaveSession(sid) PROVE Without(races)
  BY <1>19 DEF LeaveSession
<1>20. CASE Stop
  BY <1>20 DEF Stop
<1>21. CASE StopForgetsLeader
  BY <1>21 DEF StopForgetsLeader
<1>22. CASE StopLeaves
  BY <1>22 DEF StopLeaves, DoLeaveSessionAsync
<1>23. CASE StopClears
  BY <1>23 DEF StopClears
<1>24. CASE Start
  BY <1>24 DEF Start
<1>25. ASSUME NEW c \in Controller, Lead(c) PROVE Without(races)
  BY <1>25 DEF Lead
<1>26. ASSUME NEW c \in Controller, NEW kind \in {"lost", "removed"},
            StepDown(c, kind) \/ Crash(c, kind)
       PROVE  Without(races)
  BY <1>26 DEF Leaves, StepDown, Crash
<1>27. CASE UNCHANGED vars
  BY <1>27 DEF vars
<1> QED
  BY <1>1, <1>2, <1>3, <1>4, <1>5, <1>6, <1>7, <1>8, <1>9, <1>10, <1>11, <1>12,
     <1>13, <1>14, <1>15, <1>16, <1>17, <1>18, <1>19, <1>20, <1>21, <1>22,
     <1>23, <1>24, <1>25, <1>26, <1>27 DEF Next, Step, Callback, Begins,
     Application, World

\* A step that notes the race of joiners finds no other one.
LEMMA NobodyElseSeeks ==
  ASSUME NEW t \in Task, Calm', Joiners(t) \subseteq raced'
  PROVE  \A u \in Task \ {t} : ~Seeks(u)
BY DEF Calm, Without, Joiners, If, Seeks

\* The result of a join never matches a leader that was cleared.
LEMMA MatchesNotNone ==
  ASSUME TypeOK, TaskForm, NEW t \in Task, OnSessionJoined(t)
  PROVE  currentLeader = NoLeader => currentLeader' = NoLeader
<1> SUFFICES ASSUME currentLeader = NoLeader PROVE currentLeader' = NoLeader
  OBVIOUS
<1>1. tasks[t].pc = "joined" /\ tasks[t].entry \in Entry \ {NoEntry}
  BY DEF OnSessionJoined, TypeOK, TaskForm
<1>2. tasks[t].entry.rank # 0
  BY <1>1, ClientConnectionAssumption DEF Entry
<1>3. currentLeader.entry.rank = 0
  BY DEF NoLeader, NoEntry
<1> QED
  BY <1>2, <1>3 DEF OnSessionJoined, NotCurrent

\* Every step keeps OneSeeks.
LEMMA OneSeeksStep ==
  ASSUME TypeOK, TaskForm, OneSeeks, [Next]_vars
  PROVE  OneSeeks'
<1> SUFFICES ASSUME Calm' PROVE OneSeeks'
  BY DEF OneSeeks
<1>0. Calm
  BY RacesStay DEF Calm
<1> USE DEF TypeOK, OneSeeks, Calm, Without, Seeks, If, NoLeader, clientVars,
        busVars
<1>1. ASSUME NEW t \in Task, Insert(t) PROVE OneSeeks'
  <2>1. \A u \in Task \ {t} : ~Seeks(u)
    BY <1>1, NobodyElseSeeks DEF Insert
  <2>2. /\ tasks'[t].pc \notin {"join", "note"}
        /\ \A u \in Task \ {t} : tasks'[u] = tasks[u]
    BY <1>1 DEF TypeOK, Insert, Goto, Done, Idle
  <2> QED
    BY <2>1, <2>2 DEF OneSeeks, Seeks
<1>2. ASSUME NEW t \in Task, Forget(t) PROVE OneSeeks'
  <2>1. \A u \in Task \ {t} : ~Seeks(u)
    BY <1>2, NobodyElseSeeks DEF Forget
  <2>2. /\ tasks'[t].pc \notin {"join", "note"}
        /\ \A u \in Task \ {t} : tasks'[u] = tasks[u]
    BY <1>2 DEF TypeOK, Forget, Goto
  <2> QED
    BY <2>1, <2>2 DEF OneSeeks, Seeks
<1>3. ASSUME NEW t \in Task, Pick(t) PROVE OneSeeks'
  <2>1. stopped \/ currentLeader = NoLeader
    BY <1>3 DEF Pick, Calm, Without, If
  <2>2. /\ \A u \in Task \ {t} : tasks'[u] = tasks[u]
        /\ Seeks(t) /\ tasks'[t].pc \in {"idle", "join"}
        /\ tasks'[t].pc = "join" => ~stopped
        /\ currentLeader' = currentLeader
    BY <1>3 DEF TypeOK, Pick, Done, Idle, Task_, Seeks
  <2> QED
    BY <1>0, <2>1, <2>2 DEF OneSeeks, Seeks
<1>4. ASSUME NEW t \in Task, JoinSessionAsync(t) PROVE OneSeeks'
  BY <1>4, <1>0 DEF JoinSessionAsync, Goto
<1>5. ASSUME NEW t \in Task, JoinSessionAsyncFails(t) PROVE OneSeeks'
  BY <1>5, <1>0 DEF JoinSessionAsyncFails, Goto, Done, Idle
<1>6. ASSUME NEW t \in Task, Note(t) PROVE OneSeeks'
  BY <1>6, <1>0 DEF Note, Done, Idle
<1>7. ASSUME NEW t \in Task, OnSessionJoined(t) PROVE OneSeeks'
  <2>1. /\ \A u \in Task \ {t} : tasks'[u] = tasks[u]
        /\ tasks'[t].pc \in {"idle", "link", "failed"}
    BY <1>7 DEF TypeOK, OnSessionJoined, NotCurrent, Done, Idle, Goto, Task_
  <2> QED
    BY <1>0, <1>7, <2>1, MatchesNotNone DEF OneSeeks, Seeks
<1>8. ASSUME NEW t \in Task, SetLinkTimeout(t) PROVE OneSeeks'
  BY <1>8, <1>0 DEF SetLinkTimeout, Goto
<1>9. ASSUME NEW t \in Task, SetLinkTimeoutFails(t) PROVE OneSeeks'
  BY <1>9, <1>0 DEF SetLinkTimeoutFails, Goto
<1>10. ASSUME NEW t \in Task, Unlink(t) PROVE OneSeeks'
  BY <1>10, <1>0 DEF Unlink, Cleared, Joiners, Goto
<1>11. ASSUME NEW t \in Task, ConnectedToControllerServiceCB(t) PROVE OneSeeks'
  BY <1>11, <1>0 DEF ConnectedToControllerServiceCB, Done, Idle
<1>12. ASSUME NEW t \in Task, Failed(t) PROVE OneSeeks'
  <2>1. \A u \in Task \ {t} : ~Seeks(u)
    BY <1>12, NobodyElseSeeks DEF Failed, Cleared
  <2>2. /\ tasks'[t].pc \notin {"join", "note"}
        /\ \A u \in Task \ {t} : tasks'[u] = tasks[u]
    BY <1>12 DEF TypeOK, Failed, Cleared, Task_
  <2> QED
    BY <2>1, <2>2 DEF OneSeeks, Seeks
<1>13. ASSUME NEW t \in Task, OnSessionLost(t) PROVE OneSeeks'
  BY <1>13, <1>0 DEF OnSessionLost, Task_, Done, Idle
<1>14. ASSUME NEW t \in Task, DisconnectedFromControllerServiceCB(t)
       PROVE  OneSeeks'
  <2>1. \A u \in Task \ {t} : ~Seeks(u)
    BY <1>14, NobodyElseSeeks DEF DisconnectedFromControllerServiceCB
  <2>2. /\ tasks'[t].pc \notin {"join", "note"}
        /\ \A u \in Task \ {t} : tasks'[u] = tasks[u]
    BY <1>14 DEF TypeOK, DisconnectedFromControllerServiceCB, Goto
  <2> QED
    BY <2>1, <2>2 DEF OneSeeks, Seeks
<1>15. ASSUME NEW t \in Task, NEW c \in Controller, Announced(t, c)
       PROVE  OneSeeks'
  BY <1>15, <1>0 DEF Announced, Task_, Idle
<1>16. ASSUME NEW t \in Task, NEW j \in joins, JoinSessionCB(t, j)
       PROVE  OneSeeks'
  BY <1>16, <1>0 DEF JoinSessionCB, Task_, Idle
<1>17. ASSUME NEW t \in Task, NEW e \in events, SessionLost(t, e.sid)
       PROVE  OneSeeks'
  BY <1>17, <1>0 DEF SessionLost, Task_, Idle
<1>18. ASSUME NEW t \in Task, NEW e \in events, OnSessionMemberRemoved(t,
            e.sid)
       PROVE  OneSeeks'
  <2>1. /\ \A u \in Task \ {t} : tasks'[u] = tasks[u]
        /\ tasks'[t].pc \in {"idle", "lost"}
        /\ currentLeader' = currentLeader
    BY <1>18 DEF TypeOK, OnSessionMemberRemoved, Task_, Idle, clientVars
  <2> QED
    BY <1>0, <2>1 DEF OneSeeks, Seeks
<1>19. ASSUME NEW sid \in leaving, LeaveSession(sid) PROVE OneSeeks'
  BY <1>19, <1>0 DEF LeaveSession
<1>20. CASE Stop
  BY <1>20, <1>0 DEF Stop
<1>21. CASE StopForgetsLeader
  BY <1>21, <1>0 DEF StopForgetsLeader
<1>22. CASE StopLeaves
  BY <1>22, <1>0 DEF StopLeaves, DoLeaveSessionAsync
<1>23. CASE StopClears
  BY <1>23, <1>0 DEF StopClears
<1>24. CASE Start
  BY <1>24, <1>0 DEF Start
<1>25. ASSUME NEW c \in Controller, Lead(c) PROVE OneSeeks'
  BY <1>25, <1>0 DEF Lead
<1>26. ASSUME NEW c \in Controller, NEW kind \in {"lost", "removed"},
            StepDown(c, kind) \/ Crash(c, kind)
       PROVE  OneSeeks'
  BY <1>26, <1>0 DEF Leaves, StepDown, Crash
<1>27. CASE UNCHANGED vars
  BY <1>27, <1>0 DEF vars
<1> QED
  BY <1>1, <1>2, <1>3, <1>4, <1>5, <1>6, <1>7, <1>8, <1>9, <1>10, <1>11, <1>12,
     <1>13, <1>14, <1>15, <1>16, <1>17, <1>18, <1>19, <1>20, <1>21, <1>22,
     <1>23, <1>24, <1>25, <1>26, <1>27 DEF Next, Step, Callback, Begins,
     Application, World

\* Every step keeps LeaderWith.
LEMMA LeaderWithStep ==
  ASSUME TypeOK, AllFinite, EntryNames, SessionNames, JoinedWith, OneSeeks, LeaderWith,
         [Next]_vars
  PROVE  LeaderWith'
<1> SUFFICES ASSUME Calm' PROVE LeaderWith'
  BY DEF LeaderWith
<1>0. Calm
  BY RacesStay DEF Calm
<1> USE DEF TypeOK, LeaderWith, With, NoLeader, clientVars, busVars
<1>1. ASSUME NEW t \in Task, Insert(t) PROVE LeaderWith'
  BY <1>1, <1>0 DEF Insert, Goto, Done, Idle, Joiners, DoLeaveSessionAsync
<1>2. ASSUME NEW t \in Task, Forget(t) PROVE LeaderWith'
  BY <1>2, <1>0 DEF Forget, Goto, Joiners
<1>3. ASSUME NEW t \in Task, Pick(t) PROVE LeaderWith'
  BY <1>3, <1>0 DEF Pick, Done, Idle, Task_
<1>4. ASSUME NEW t \in Task, JoinSessionAsync(t) PROVE LeaderWith'
  BY <1>4, <1>0 DEF JoinSessionAsync, Goto
<1>5. ASSUME NEW t \in Task, JoinSessionAsyncFails(t) PROVE LeaderWith'
  BY <1>5, <1>0 DEF JoinSessionAsyncFails, Goto, Done, Idle
<1>6. ASSUME NEW t \in Task, Note(t) PROVE LeaderWith'
  <2>1. currentLeader.sid = 0
    BY <1>0, <1>6 DEF OneSeeks, Note, NoLeader
  <2>2. currentLeader'.sid = 0
    BY <1>6, <2>1 DEF TypeOK, Note
  <2> QED
    BY <1>6, <2>2 DEF TypeOK, Note, LeaderWith, With, busVars
<1>7. ASSUME NEW t \in Task, OnSessionJoined(t) PROVE LeaderWith'
  <2>1. CASE currentLeader' = currentLeader
    BY <1>0, <1>7, <2>1 DEF OnSessionJoined, LeaderWith, With, busVars
  <2>2. CASE currentLeader' # currentLeader
    <3>1. /\ tasks[t].pc = "joined"
          /\ currentLeader.entry.rank = tasks[t].entry.rank
          /\ currentLeader.entry.ts = tasks[t].entry.ts
          /\ currentLeader' = [currentLeader EXCEPT !.sid = tasks[t].sid]
      BY <1>7, <2>2 DEF OnSessionJoined, NotCurrent
    <3>2. currentLeader.entry = tasks[t].entry
      BY <3>1 DEF EntryNames, Entries
    <3>3. currentLeader'.sid = tasks[t].sid /\ currentLeader'.entry = tasks[t].entry
      BY <3>1, <3>2 DEF TypeOK
    <3>4. sessions' = sessions
      BY <1>7 DEF OnSessionJoined, busVars
    <3> QED
      BY <3>1, <3>3, <3>4 DEF JoinedWith, LeaderWith, With
  <2> QED
    BY <2>1, <2>2
<1>8. ASSUME NEW t \in Task, SetLinkTimeout(t) PROVE LeaderWith'
  BY <1>8, <1>0 DEF SetLinkTimeout, Goto
<1>9. ASSUME NEW t \in Task, SetLinkTimeoutFails(t) PROVE LeaderWith'
  BY <1>9, <1>0 DEF SetLinkTimeoutFails, Goto
<1>10. ASSUME NEW t \in Task, Unlink(t) PROVE LeaderWith'
  BY <1>10, <1>0 DEF Unlink, Cleared, Joiners, Goto
<1>11. ASSUME NEW t \in Task, ConnectedToControllerServiceCB(t)
       PROVE  LeaderWith'
  BY <1>11, <1>0 DEF ConnectedToControllerServiceCB, Done, Idle
<1>12. ASSUME NEW t \in Task, Failed(t) PROVE LeaderWith'
  BY <1>12, <1>0 DEF Failed, Cleared, Joiners, Task_
<1>13. ASSUME NEW t \in Task, OnSessionLost(t) PROVE LeaderWith'
  BY <1>13, <1>0 DEF OnSessionLost, Task_, Done, Idle
<1>14. ASSUME NEW t \in Task, DisconnectedFromControllerServiceCB(t)
       PROVE  LeaderWith'
  BY <1>14, <1>0 DEF DisconnectedFromControllerServiceCB, Joiners, Goto
<1>15. ASSUME NEW t \in Task, NEW c \in Controller, Announced(t, c)
       PROVE  LeaderWith'
  BY <1>15, <1>0 DEF Announced, Task_, Idle
<1>16. ASSUME NEW t \in Task, NEW j \in joins, JoinSessionCB(t, j)
       PROVE  LeaderWith'
  <2>1. currentLeader' = currentLeader
    BY <1>16 DEF JoinSessionCB, clientVars
  <2> QED
    BY <1>0, <1>16, <2>1, JoinAnswered DEF SidsInUse, LeaderWith, With
<1>17. ASSUME NEW t \in Task, NEW e \in events, SessionLost(t, e.sid)
       PROVE  LeaderWith'
  BY <1>17, <1>0 DEF SessionLost, Task_, Idle
<1>18. ASSUME NEW t \in Task, NEW e \in events, OnSessionMemberRemoved(t,
            e.sid)
       PROVE  LeaderWith'
  BY <1>18, <1>0 DEF OnSessionMemberRemoved, Task_, Idle, DoLeaveSessionAsync
<1>19. ASSUME NEW sid \in leaving, LeaveSession(sid) PROVE LeaderWith'
  BY <1>19, <1>0 DEF LeaveSession
<1>20. CASE Stop
  BY <1>20, <1>0 DEF Stop
<1>21. CASE StopForgetsLeader
  BY <1>21, <1>0 DEF StopForgetsLeader
<1>22. CASE StopLeaves
  BY <1>22, <1>0 DEF StopLeaves, DoLeaveSessionAsync
<1>23. CASE StopClears
  BY <1>23, <1>0 DEF StopClears
<1>24. CASE Start
  BY <1>24, <1>0 DEF Start
<1>25. ASSUME NEW c \in Controller, Lead(c) PROVE LeaderWith'
  BY <1>25, <1>0 DEF Lead
<1>26. ASSUME NEW c \in Controller, NEW kind \in {"lost", "removed"},
            StepDown(c, kind) \/ Crash(c, kind)
       PROVE  LeaderWith'
  <2>1. currentLeader' = currentLeader
    BY <1>26 DEF StepDown, Crash, Leaves, clientVars
  <2> QED
    BY <1>0, <1>26, <2>1, HostLeaves DEF LeaderWith, With
<1>27. CASE UNCHANGED vars
  BY <1>27, <1>0 DEF vars
<1> QED
  BY <1>1, <1>2, <1>3, <1>4, <1>5, <1>6, <1>7, <1>8, <1>9, <1>10, <1>11, <1>12,
     <1>13, <1>14, <1>15, <1>16, <1>17, <1>18, <1>19, <1>20, <1>21, <1>22,
     <1>23, <1>24, <1>25, <1>26, <1>27 DEF Next, Step, Callback, Begins,
     Application, World

-----------------------------------------------------------------------------
(* Sessions and joins accounted for.                                       *)

\* Every step keeps the sessions accounted for: whoever clears a leader leaves
\* its session, or finds it gone.
LEMMA AccountedStep ==
  ASSUME TypeOK, TaskForm, AppForm, AllFinite, EntryNames, SessionNames,
         SessionEnds, JoinedWith, OneSeeks,
         LeaderWith, Accounted, [Next]_vars
  PROVE  Accounted'
<1> SUFFICES ASSUME Calm' PROVE Accounted'
  BY DEF Accounted
<1>0. Calm
  BY RacesStay DEF Calm
<1> USE DEF TypeOK, Accounted, NoLeader, clientVars, busVars
<1>1. ASSUME NEW t \in Task, Insert(t) PROVE Accounted'
  BY <1>1, <1>0 DEF Insert, Goto, Done, Idle, Joiners, DoLeaveSessionAsync
<1>2. ASSUME NEW t \in Task, Forget(t) PROVE Accounted'
  <2>1. currentLeader = [entry |-> tasks[t].old, sid |-> 0]
    BY <1>2 DEF Forget, Calm, Without, If
  <2>2. \A s \in sessions : s.sid # currentLeader.sid
    BY <2>1 DEF TypeOK
  <2>3. /\ \A u \in Task \ {t} : tasks'[u] = tasks[u]
        /\ tasks[t].pc = "forget"
        /\ sessions' = sessions /\ app' = app /\ leaving' = leaving
    BY <1>2 DEF TypeOK, Forget, Goto, busVars
  <2> QED
    BY <1>0, <2>2, <2>3 DEF Accounted
<1>3. ASSUME NEW t \in Task, Pick(t) PROVE Accounted'
  BY <1>3, <1>0 DEF Pick, Done, Idle, Task_
<1>4. ASSUME NEW t \in Task, JoinSessionAsync(t) PROVE Accounted'
  BY <1>4, <1>0 DEF JoinSessionAsync, Goto
<1>5. ASSUME NEW t \in Task, JoinSessionAsyncFails(t) PROVE Accounted'
  BY <1>5, <1>0 DEF JoinSessionAsyncFails, Goto, Done, Idle
<1>6. ASSUME NEW t \in Task, Note(t) PROVE Accounted'
  BY <1>6, <1>0 DEF Note, Done, Idle
<1>7. ASSUME NEW t \in Task, OnSessionJoined(t) PROVE Accounted'
  <2>1. \A s \in sessions : tasks[t].status # "OK" => s.sid # tasks[t].sid
    BY <1>7 DEF TypeOK, OnSessionJoined, TaskForm
  <2>2. /\ \A u \in Task \ {t} : tasks'[u] = tasks[u]
        /\ tasks[t].pc = "joined"
        /\ sessions' = sessions /\ app' = app /\ leaving \subseteq leaving'
    BY <1>7 DEF TypeOK, OnSessionJoined, NotCurrent, Done, Goto, Task_,
       DoLeaveSessionAsync, busVars
  <2>3. CASE currentLeader' = currentLeader
    <3>1. \/ tasks[t].sid \in leaving' \cup {currentLeader.sid} \/ tasks[t].status # "OK"
          \/ tasks'[t].sid = tasks[t].sid /\ tasks'[t].pc = "failed"
      BY <1>7, <2>3 DEF TypeOK, OnSessionJoined, NotCurrent, Goto, Task_, DoLeaveSessionAsync
    <3> QED
      BY <1>0, <2>1, <2>2, <2>3, <3>1 DEF Accounted
  <2>4. CASE currentLeader' # currentLeader
    <3>1. /\ currentLeader.entry.rank = tasks[t].entry.rank
          /\ currentLeader.entry.ts = tasks[t].entry.ts
          /\ currentLeader' = [currentLeader EXCEPT !.sid = tasks[t].sid]
          /\ Open(tasks[t].sid)
      BY <1>7, <2>4 DEF OnSessionJoined, NotCurrent
    <3>2. currentLeader.entry = tasks[t].entry
      BY <3>1 DEF EntryNames, Entries
    <3>3. currentLeader'.sid = tasks[t].sid
      BY <3>1 DEF TypeOK
    <3>4. PICK r \in sessions : r.sid = tasks[t].sid
      BY <3>1 DEF Open
    <3>5. r.rank = currentLeader.entry.rank /\ r.life = currentLeader.entry.life
      BY <2>2, <3>2, <3>4 DEF JoinedWith, With
    <3>6. \A s \in sessions : s.sid = currentLeader.sid => s = r
      BY <1>0, <3>5 DEF LeaderWith, With, SessionNames
    <3> QED
      BY <1>0, <2>2, <3>3, <3>4, <3>6 DEF Accounted
  <2> QED
    BY <2>3, <2>4
<1>8. ASSUME NEW t \in Task, SetLinkTimeout(t) PROVE Accounted'
  BY <1>8, <1>0 DEF SetLinkTimeout, Goto
<1>9. ASSUME NEW t \in Task, SetLinkTimeoutFails(t) PROVE Accounted'
  BY <1>9, <1>0 DEF SetLinkTimeoutFails, Goto
<1>10. ASSUME NEW t \in Task, Unlink(t) PROVE Accounted'
  <2>1. currentLeader.sid \in {tasks[t].sid, 0}
    BY <1>10 DEF Unlink, Cleared, Calm, Without, If
  <2>2. \A s \in sessions : s.sid # currentLeader.sid
    BY <1>10, <2>1 DEF TypeOK, Unlink, SessionEnds, Gone
  <2>3. /\ \A u \in Task \ {t} : tasks'[u] = tasks[u]
        /\ tasks[t].pc = "unlink"
        /\ sessions' = sessions /\ app' = app /\ leaving' = leaving
    BY <1>10 DEF TypeOK, Unlink, Goto, busVars
  <2> QED
    BY <1>0, <2>2, <2>3 DEF Accounted
<1>11. ASSUME NEW t \in Task, ConnectedToControllerServiceCB(t)
       PROVE  Accounted'
  BY <1>11, <1>0 DEF ConnectedToControllerServiceCB, Done, Idle
<1>12. ASSUME NEW t \in Task, Failed(t) PROVE Accounted'
  <2>1. currentLeader.sid \in {tasks[t].sid, 0}
    BY <1>12 DEF Failed, Cleared, Calm, Without, If
  <2>2. \A s \in sessions : s.sid = tasks[t].sid => s.sid \in leaving'
    BY <1>12 DEF TypeOK, Failed, TaskForm
  <2>3. \A s \in sessions : s.sid = currentLeader.sid => s.sid \in leaving'
    BY <2>1, <2>2 DEF TypeOK
  <2>4. /\ \A u \in Task \ {t} : tasks'[u] = tasks[u]
        /\ sessions' = sessions /\ app' = app /\ leaving \subseteq leaving'
    BY <1>12 DEF TypeOK, Failed, Task_, busVars
  <2> QED
    BY <1>0, <2>2, <2>3, <2>4 DEF Accounted
<1>13. ASSUME NEW t \in Task, OnSessionLost(t) PROVE Accounted'
  <2>1. CASE currentLeader.sid = tasks[t].sid
    <3>1. \A s \in sessions : s.sid = currentLeader.sid => s.sid \in leaving
      BY <1>13, <2>1 DEF OnSessionLost, SessionEnds, Gone
    <3>2. /\ \A u \in Task \ {t} : tasks'[u] = tasks[u]
          /\ tasks[t].pc = "lost"
          /\ sessions' = sessions /\ app' = app /\ leaving' = leaving
      BY <1>13 DEF TypeOK, OnSessionLost, Task_, Done, busVars
    <3> QED
      BY <1>0, <3>1, <3>2 DEF Accounted
  <2>2. CASE currentLeader.sid # tasks[t].sid
    BY <1>0, <1>13, <2>2 DEF TypeOK, Accounted, OnSessionLost, Done, busVars
  <2> QED
    BY <2>1, <2>2
<1>14. ASSUME NEW t \in Task, DisconnectedFromControllerServiceCB(t)
       PROVE  Accounted'
  BY <1>14, <1>0 DEF DisconnectedFromControllerServiceCB, Joiners, Goto
<1>15. ASSUME NEW t \in Task, NEW c \in Controller, Announced(t, c)
       PROVE  Accounted'
  BY <1>15, <1>0 DEF Announced, Task_, Idle
<1>16. ASSUME NEW t \in Task, NEW j \in joins, JoinSessionCB(t, j)
       PROVE  Accounted'
  BY <1>16, <1>0 DEF JoinSessionCB, Task_, Idle
<1>17. ASSUME NEW t \in Task, NEW e \in events, SessionLost(t, e.sid)
       PROVE  Accounted'
  BY <1>17, <1>0 DEF SessionLost, Task_, Idle
<1>18. ASSUME NEW t \in Task, NEW e \in events, OnSessionMemberRemoved(t,
            e.sid)
       PROVE  Accounted'
  BY <1>18, <1>0 DEF OnSessionMemberRemoved, Task_, Idle, DoLeaveSessionAsync
<1>19. ASSUME NEW sid \in leaving, LeaveSession(sid) PROVE Accounted'
  BY <1>19, <1>0 DEF LeaveSession
<1>20. CASE Stop
  <2>1. /\ sessions' = sessions /\ tasks' = tasks /\ leaving' = leaving
        /\ currentLeader' = currentLeader /\ app'.sid = 0
    BY <1>20 DEF Stop, busVars
  <2>2. app.sid = 0
    BY <1>20 DEF Stop, AppForm
  <2> QED
    BY <1>0, <2>1, <2>2 DEF Accounted
<1>21. CASE StopForgetsLeader
  <2>1. /\ sessions' = sessions /\ tasks' = tasks /\ leaving' = leaving
        /\ app'.sid = currentLeader.sid
    BY <1>21 DEF StopForgetsLeader, busVars
  <2>2. app.sid = 0
    BY <1>21 DEF StopForgetsLeader, AppForm
  <2> QED
    BY <1>0, <2>1, <2>2 DEF Accounted, TypeOK
<1>22. CASE StopLeaves
  BY <1>22, <1>0 DEF StopLeaves, DoLeaveSessionAsync
<1>23. CASE StopClears
  <2>1. /\ sessions' = sessions /\ tasks' = tasks /\ leaving' = leaving
        /\ currentLeader' = currentLeader
    BY <1>23 DEF StopClears
  <2>2. app.sid = 0
    BY <1>23 DEF StopClears, AppForm
  <2> QED
    BY <1>0, <2>1, <2>2 DEF Accounted, TypeOK
<1>24. CASE Start
  BY <1>24, <1>0 DEF Start
<1>25. ASSUME NEW c \in Controller, Lead(c) PROVE Accounted'
  BY <1>25, <1>0 DEF Lead
<1>26. ASSUME NEW c \in Controller, NEW kind \in {"lost", "removed"},
            StepDown(c, kind) \/ Crash(c, kind)
       PROVE  Accounted'
  BY SMTT(30), <1>26, <1>0 DEF Leaves, StepDown, Crash
<1>27. CASE UNCHANGED vars
  BY <1>27, <1>0 DEF vars
<1> QED
  BY <1>1, <1>2, <1>3, <1>4, <1>5, <1>6, <1>7, <1>8, <1>9, <1>10, <1>11, <1>12,
     <1>13, <1>14, <1>15, <1>16, <1>17, <1>18, <1>19, <1>20, <1>21, <1>22,
     <1>23, <1>24, <1>25, <1>26, <1>27 DEF Next, Step, Callback, Begins,
     Application, World

\* Every step keeps NoteComing.
LEMMA NoteComingStep ==
  ASSUME TypeOK, AllFinite, NoteComing, [Next]_vars
  PROVE  NoteComing'
<1> SUFFICES ASSUME Without({"early"})' PROVE NoteComing'
  BY DEF NoteComing
<1>0. Without({"early"})
  BY RacesStay
<1> USE DEF TypeOK, NoteComing, clientVars, busVars
<1>1. ASSUME NEW t \in Task, Insert(t) PROVE NoteComing'
  BY SMTT(30), <1>1, <1>0 DEF Insert, Goto, Done, Idle, Joiners,
     DoLeaveSessionAsync
<1>2. ASSUME NEW t \in Task, Forget(t) PROVE NoteComing'
  BY <1>2, <1>0 DEF Forget, Goto, Joiners
<1>3. ASSUME NEW t \in Task, Pick(t) PROVE NoteComing'
  BY <1>3, <1>0 DEF Pick, Done, Idle, Task_
<1>4. ASSUME NEW t \in Task, JoinSessionAsync(t) PROVE NoteComing'
  <2>1. /\ \A u \in Task \ {t} : tasks'[u] = tasks[u]
        /\ tasks[t].pc = "join" /\ tasks'[t].entry = tasks[t].entry
    BY <1>4 DEF TypeOK, JoinSessionAsync, Goto
  <2> DEFINE j == [id |-> Fresh({i.id : i \in joins}), entry |-> tasks[t].entry]
  <2>2. joins' = joins \cup {j} /\ j.entry = tasks[t].entry
    BY <1>4 DEF JoinSessionAsync
  <2> HIDE DEF j
  <2> QED
    BY <1>0, <2>1, <2>2 DEF NoteComing
<1>5. ASSUME NEW t \in Task, JoinSessionAsyncFails(t) PROVE NoteComing'
  BY <1>5, <1>0 DEF JoinSessionAsyncFails, Goto, Done, Idle
<1>6. ASSUME NEW t \in Task, Note(t) PROVE NoteComing'
  BY <1>6, <1>0 DEF Note, Done, Idle
<1>7. ASSUME NEW t \in Task, OnSessionJoined(t) PROVE NoteComing'
  <2>1. \A u \in Task : tasks[u].pc = "note" => tasks[u].entry # tasks[t].entry
    BY <1>7 DEF OnSessionJoined, Without, If
  <2>2. /\ \A u \in Task \ {t} : tasks'[u] = tasks[u]
        /\ tasks'[t].pc # "note" /\ joins' = joins
    BY <1>7 DEF TypeOK, OnSessionJoined, NotCurrent, Done, Idle, Goto, Task_
  <2> QED
    BY <1>0, <2>1, <2>2 DEF NoteComing
<1>8. ASSUME NEW t \in Task, SetLinkTimeout(t) PROVE NoteComing'
  BY <1>8, <1>0 DEF SetLinkTimeout, Goto
<1>9. ASSUME NEW t \in Task, SetLinkTimeoutFails(t) PROVE NoteComing'
  BY <1>9, <1>0 DEF SetLinkTimeoutFails, Goto
<1>10. ASSUME NEW t \in Task, Unlink(t) PROVE NoteComing'
  BY <1>10, <1>0 DEF Unlink, Cleared, Joiners, Goto
<1>11. ASSUME NEW t \in Task, ConnectedToControllerServiceCB(t)
       PROVE  NoteComing'
  BY <1>11, <1>0 DEF ConnectedToControllerServiceCB, Done, Idle
<1>12. ASSUME NEW t \in Task, Failed(t) PROVE NoteComing'
  BY <1>12, <1>0 DEF Failed, Cleared, Joiners, Task_
<1>13. ASSUME NEW t \in Task, OnSessionLost(t) PROVE NoteComing'
  BY SMTT(30), <1>13, <1>0 DEF OnSessionLost, Task_, Done, Idle
<1>14. ASSUME NEW t \in Task, DisconnectedFromControllerServiceCB(t)
       PROVE  NoteComing'
  BY <1>14, <1>0 DEF DisconnectedFromControllerServiceCB, Joiners, Goto
<1>15. ASSUME NEW t \in Task, NEW c \in Controller, Announced(t, c)
       PROVE  NoteComing'
  <2>1. /\ \A u \in Task \ {t} : tasks'[u] = tasks[u]
        /\ tasks[t].pc = "idle" /\ tasks'[t].pc = "insert" /\ joins' = joins
    BY <1>15 DEF TypeOK, Announced, Idle, Task_
  <2> QED
    BY <1>0, <2>1 DEF NoteComing
<1>16. ASSUME NEW t \in Task, NEW j \in joins, JoinSessionCB(t, j)
       PROVE  NoteComing'
  <2>1. tasks[t].pc = "idle" /\ joins' = joins \ {j}
    BY <1>16 DEF JoinSessionCB, Idle
  <2>2. /\ \A u \in Task \ {t} : tasks'[u] = tasks[u]
        /\ tasks'[t].pc = "joined" /\ tasks'[t].entry = j.entry
    BY <1>16, JoinAnswered
  <2>3. SUFFICES ASSUME NEW u \in Task, tasks'[u].pc = "note"
                 PROVE  \/ \E i \in joins' : i.entry = tasks'[u].entry
                        \/ \E v \in Task : /\ tasks'[v].pc = "joined"
                                          /\ tasks'[v].entry = tasks'[u].entry
    BY DEF NoteComing
  <2>4. u # t
    BY <2>2, <2>3
  <2>5. \/ \E i \in joins : i.entry = tasks[u].entry
        \/ \E v \in Task : tasks[v].pc = "joined" /\ tasks[v].entry = tasks[u].entry
    BY <1>0, <2>2, <2>3, <2>4 DEF NoteComing
  <2> QED
    BY <2>1, <2>2, <2>4, <2>5
<1>17. ASSUME NEW t \in Task, NEW e \in events, SessionLost(t, e.sid)
       PROVE  NoteComing'
  BY <1>17, <1>0 DEF SessionLost, Task_, Idle
<1>18. ASSUME NEW t \in Task, NEW e \in events, OnSessionMemberRemoved(t,
            e.sid)
       PROVE  NoteComing'
  BY SMTT(30), <1>18, <1>0 DEF OnSessionMemberRemoved, Task_, Idle,
     DoLeaveSessionAsync
<1>19. ASSUME NEW sid \in leaving, LeaveSession(sid) PROVE NoteComing'
  BY <1>19, <1>0 DEF LeaveSession
<1>20. CASE Stop
  BY <1>20, <1>0 DEF Stop
<1>21. CASE StopForgetsLeader
  BY <1>21, <1>0 DEF StopForgetsLeader
<1>22. CASE StopLeaves
  BY <1>22, <1>0 DEF StopLeaves, DoLeaveSessionAsync
<1>23. CASE StopClears
  BY <1>23, <1>0 DEF StopClears
<1>24. CASE Start
  BY <1>24, <1>0 DEF Start
<1>25. ASSUME NEW c \in Controller, Lead(c) PROVE NoteComing'
  BY <1>25, <1>0 DEF Lead
<1>26. ASSUME NEW c \in Controller, NEW kind \in {"lost", "removed"},
            StepDown(c, kind) \/ Crash(c, kind)
       PROVE  NoteComing'
  BY <1>26, <1>0 DEF Leaves, StepDown, Crash
<1>27. CASE UNCHANGED vars
  BY <1>27, <1>0 DEF vars
<1> QED
  BY <1>1, <1>2, <1>3, <1>4, <1>5, <1>6, <1>7, <1>8, <1>9, <1>10, <1>11, <1>12,
     <1>13, <1>14, <1>15, <1>16, <1>17, <1>18, <1>19, <1>20, <1>21, <1>22,
     <1>23, <1>24, <1>25, <1>26, <1>27 DEF Next, Step, Callback, Begins,
     Application, World

\* Every step keeps LeaderComing.
LEMMA LeaderComingStep ==
  ASSUME TypeOK, TaskForm, NoteComing, LeaderComing, [Next]_vars
  PROVE  LeaderComing'
<1> SUFFICES ASSUME Without({"early"})' PROVE LeaderComing'
  BY DEF LeaderComing
<1>0. Without({"early"})
  BY RacesStay
<1> USE DEF TypeOK, LeaderComing, NoLeader, clientVars, busVars
<1>1. ASSUME NEW t \in Task, Insert(t) PROVE LeaderComing'
  BY <1>1, <1>0 DEF Insert, Goto, Done, Idle, Joiners, DoLeaveSessionAsync
<1>2. ASSUME NEW t \in Task, Forget(t) PROVE LeaderComing'
  BY <1>2, <1>0 DEF Forget, Goto, Joiners
<1>3. ASSUME NEW t \in Task, Pick(t) PROVE LeaderComing'
  BY <1>3, <1>0 DEF Pick, Done, Idle, Task_
<1>4. ASSUME NEW t \in Task, JoinSessionAsync(t) PROVE LeaderComing'
  BY <1>4, <1>0 DEF JoinSessionAsync, Goto
<1>5. ASSUME NEW t \in Task, JoinSessionAsyncFails(t) PROVE LeaderComing'
  BY <1>5, <1>0 DEF JoinSessionAsyncFails, Goto, Done, Idle
<1>6. ASSUME NEW t \in Task, Note(t) PROVE LeaderComing'
  <2>1. /\ \A u \in Task \ {t} : tasks'[u] = tasks[u]
        /\ tasks[t].pc = "note" /\ joins' = joins
        /\ currentLeader'.entry = tasks[t].entry
    BY <1>6 DEF TypeOK, Note, Done
  <2> QED
    BY <1>0, <2>1 DEF NoteComing, LeaderComing
<1>7. ASSUME NEW t \in Task, OnSessionJoined(t) PROVE LeaderComing'
  <2>1. /\ \A u \in Task \ {t} : tasks'[u] = tasks[u]
        /\ tasks[t].pc = "joined" /\ joins' = joins
    BY <1>7 DEF TypeOK, OnSessionJoined, NotCurrent, Done, Goto, Task_
  <2>2. CASE currentLeader' # currentLeader
    <3>1. currentLeader'.sid # 0
      BY <1>7, <2>2 DEF TypeOK, OnSessionJoined, NotCurrent, TaskForm
    <3> QED
      BY <3>1 DEF LeaderComing
  <2>3. CASE currentLeader' = currentLeader
    <3>1. \/ tasks[t].entry # currentLeader.entry
          \/ tasks'[t].pc = "failed" /\ tasks'[t].entry = tasks[t].entry
          \/ currentLeader.sid # 0
      BY <1>7, <2>3 DEF TypeOK, OnSessionJoined, NotCurrent, TaskForm, Goto, Task_
    <3> QED
      BY <1>0, <2>1, <2>3, <3>1 DEF LeaderComing
  <2> QED
    BY <2>2, <2>3
<1>8. ASSUME NEW t \in Task, SetLinkTimeout(t) PROVE LeaderComing'
  BY <1>8, <1>0 DEF SetLinkTimeout, Goto
<1>9. ASSUME NEW t \in Task, SetLinkTimeoutFails(t) PROVE LeaderComing'
  BY <1>9, <1>0 DEF SetLinkTimeoutFails, Goto
<1>10. ASSUME NEW t \in Task, Unlink(t) PROVE LeaderComing'
  BY <1>10, <1>0 DEF Unlink, Cleared, Joiners, Goto
<1>11. ASSUME NEW t \in Task, ConnectedToControllerServiceCB(t)
       PROVE  LeaderComing'
  BY <1>11, <1>0 DEF ConnectedToControllerServiceCB, Done, Idle
<1>12. ASSUME NEW t \in Task, Failed(t) PROVE LeaderComing'
  BY <1>12, <1>0 DEF Failed, Cleared, Joiners, Task_
<1>13. ASSUME NEW t \in Task, OnSessionLost(t) PROVE LeaderComing'
  BY <1>13, <1>0 DEF OnSessionLost, Task_, Done, Idle
<1>14. ASSUME NEW t \in Task, DisconnectedFromControllerServiceCB(t)
       PROVE  LeaderComing'
  BY <1>14, <1>0 DEF DisconnectedFromControllerServiceCB, Joiners, Goto
<1>15. ASSUME NEW t \in Task, NEW c \in Controller, Announced(t, c)
       PROVE  LeaderComing'
  BY <1>15, <1>0 DEF Announced, Task_, Idle
<1>16. ASSUME NEW t \in Task, NEW j \in joins, JoinSessionCB(t, j)
       PROVE  LeaderComing'
  BY <1>16, <1>0 DEF JoinSessionCB, Task_, Idle
<1>17. ASSUME NEW t \in Task, NEW e \in events, SessionLost(t, e.sid)
       PROVE  LeaderComing'
  BY <1>17, <1>0 DEF SessionLost, Task_, Idle
<1>18. ASSUME NEW t \in Task, NEW e \in events, OnSessionMemberRemoved(t,
            e.sid)
       PROVE  LeaderComing'
  BY <1>18, <1>0 DEF OnSessionMemberRemoved, Task_, Idle, DoLeaveSessionAsync
<1>19. ASSUME NEW sid \in leaving, LeaveSession(sid) PROVE LeaderComing'
  BY <1>19, <1>0 DEF LeaveSession
<1>20. CASE Stop
  BY <1>20, <1>0 DEF Stop
<1>21. CASE StopForgetsLeader
  BY <1>21, <1>0 DEF StopForgetsLeader
<1>22. CASE StopLeaves
  BY <1>22, <1>0 DEF StopLeaves, DoLeaveSessionAsync
<1>23. CASE StopClears
  BY <1>23, <1>0 DEF StopClears
<1>24. CASE Start
  BY <1>24, <1>0 DEF Start
<1>25. ASSUME NEW c \in Controller, Lead(c) PROVE LeaderComing'
  BY <1>25, <1>0 DEF Lead
<1>26. ASSUME NEW c \in Controller, NEW kind \in {"lost", "removed"},
            StepDown(c, kind) \/ Crash(c, kind)
       PROVE  LeaderComing'
  BY <1>26, <1>0 DEF Leaves, StepDown, Crash
<1>27. CASE UNCHANGED vars
  BY <1>27, <1>0 DEF vars
<1> QED
  BY <1>1, <1>2, <1>3, <1>4, <1>5, <1>6, <1>7, <1>8, <1>9, <1>10, <1>11, <1>12,
     <1>13, <1>14, <1>15, <1>16, <1>17, <1>18, <1>19, <1>20, <1>21, <1>22,
     <1>23, <1>24, <1>25, <1>26, <1>27 DEF Next, Step, Callback, Begins,
     Application, World

-----------------------------------------------------------------------------
(* What callbacks do to entries, joins and sessions, and what else does.    *)

\* The application and the bus leave callbacks and joins alone.
LEMMA Elsewhere ==
  ASSUME TypeOK, AppStops, [Next]_vars,
         ~\E t \in Task : Callback(t) \/ Begins(t)
  PROVE  /\ tasks' = tasks /\ joins' = joins
         /\ leadersMap' \subseteq leadersMap
         /\ currentLeader' \in {currentLeader, NoLeader}
         /\ \/ stopped' \/ Start
            \/ /\ stopped' = stopped /\ currentLeader' = currentLeader
               /\ leadersMap' = leadersMap
<1> USE DEF AppStops, clientVars, busVars
<1>1. ASSUME NEW sid \in leaving, LeaveSession(sid)
      PROVE  clientVars' = clientVars /\ tasks' = tasks /\ joins' = joins
  BY <1>1 DEF LeaveSession
<1>2. CASE Stop
  BY <1>2 DEF Stop
<1>3. CASE StopForgetsLeader
  BY <1>3 DEF StopForgetsLeader
<1>4. CASE StopLeaves
  BY <1>4 DEF StopLeaves
<1>5. CASE StopClears
  BY <1>5 DEF StopClears
<1>6. CASE Start
  BY <1>6 DEF Start
<1>7. ASSUME World
      PROVE  clientVars' = clientVars /\ tasks' = tasks /\ joins' = joins
  BY <1>7 DEF World, Lead, Leaves, StepDown, Crash
<1>8. CASE UNCHANGED vars
  BY <1>8 DEF vars
<1> QED
  BY <1>1, <1>2, <1>3, <1>4, <1>5, <1>6, <1>7, <1>8 DEF Next, Step, Application

\* A callback moves on alone.
LEMMA OneMoves ==
  ASSUME TypeOK, NEW t \in Task, Callback(t) \/ Begins(t)
  PROVE  /\ \A u \in Task \ {t} : tasks'[u] = tasks[u]
         /\ app' = app /\ stopped' = stopped
<1> DEFINE P == /\ \A u \in Task \ {t} : tasks'[u] = tasks[u]
                /\ app' = app /\ stopped' = stopped
<1> USE DEF TypeOK, clientVars
<1>1. CASE Insert(t)
  BY <1>1 DEF Insert, Goto, Done, Idle, DoLeaveSessionAsync
<1>2. CASE Forget(t)
  BY <1>2 DEF Forget, Goto
<1>3. CASE Pick(t)
  BY <1>3 DEF Pick, Done, Idle, Task_
<1>4. CASE JoinSessionAsync(t)
  BY <1>4 DEF JoinSessionAsync, Goto
<1>5. CASE JoinSessionAsyncFails(t)
  BY <1>5 DEF JoinSessionAsyncFails, Goto, Done, Idle
<1>6. CASE Note(t)
  BY <1>6 DEF Note, Done, Idle
<1>7. CASE OnSessionJoined(t)
  BY <1>7 DEF OnSessionJoined, NotCurrent, Done, Idle, Goto, Task_
<1>8. CASE SetLinkTimeout(t)
  BY <1>8 DEF SetLinkTimeout, Goto
<1>9. CASE SetLinkTimeoutFails(t)
  BY <1>9 DEF SetLinkTimeoutFails, Goto
<1>10. CASE Unlink(t)
  BY <1>10 DEF Unlink, Cleared, Goto
<1>11. CASE ConnectedToControllerServiceCB(t)
  BY <1>11 DEF ConnectedToControllerServiceCB, Done, Idle
<1>12. CASE Failed(t)
  BY <1>12 DEF Failed, Cleared, Task_
<1>13. CASE OnSessionLost(t)
  BY <1>13 DEF OnSessionLost, Task_, Done, Idle
<1>14. CASE DisconnectedFromControllerServiceCB(t)
  BY <1>14 DEF DisconnectedFromControllerServiceCB, Goto
<1>15. ASSUME NEW c \in Controller, Announced(t, c) PROVE P
  BY <1>15 DEF Announced, Task_, Idle
<1>16. ASSUME NEW j \in joins, JoinSessionCB(t, j) PROVE P
  BY <1>16 DEF JoinSessionCB, Task_, Idle
<1>17. ASSUME NEW e \in events, SessionLost(t, e.sid) PROVE P
  BY <1>17 DEF SessionLost, Task_, Idle
<1>18. ASSUME NEW e \in events, OnSessionMemberRemoved(t, e.sid) PROVE P
  BY <1>18 DEF OnSessionMemberRemoved, Task_, Idle
<1> QED
  BY <1>1, <1>2, <1>3, <1>4, <1>5, <1>6, <1>7, <1>8, <1>9, <1>10, <1>11,
     <1>12, <1>13, <1>14, <1>15, <1>16, <1>17, <1>18 DEF Callback, Begins

\* Where the entries are that a callback passes on.
LEMMA EntriesMove ==
  ASSUME TypeOK, NEW t \in Task, Callback(t) \/ Begins(t),
         ~\E c \in Controller : Announced(t, c)
  PROVE  /\ tasks'[t].pc # "insert"
         /\ currentLeader'.entry \in {NoEntry, currentLeader.entry, tasks[t].entry}
         /\ leadersMap' \subseteq leadersMap \cup {tasks[t].entry}
         /\ \A j \in joins' : j \in joins \/ j.entry = tasks[t].entry
         /\ \/ tasks'[t].entry \in {NoEntry, tasks[t].entry} \cup leadersMap
            \/ \E j \in joins : tasks'[t].entry = j.entry
<1> DEFINE P ==
         /\ tasks'[t].pc # "insert"
         /\ currentLeader'.entry \in {NoEntry, currentLeader.entry, tasks[t].entry}
         /\ leadersMap' \subseteq leadersMap \cup {tasks[t].entry}
         /\ \A j \in joins' : j \in joins \/ j.entry = tasks[t].entry
         /\ \/ tasks'[t].entry \in {NoEntry, tasks[t].entry} \cup leadersMap
            \/ \E j \in joins : tasks'[t].entry = j.entry
<1> USE DEF TypeOK, NoLeader, clientVars, busVars
<1>1. CASE Insert(t)
  BY <1>1 DEF Insert, Goto, Done, Idle, DoLeaveSessionAsync, Known
<1>2. CASE Forget(t)
  BY <1>2 DEF Forget, Goto
<1>3. CASE Pick(t)
  BY <1>3 DEF Pick, Done, Idle, Task_
<1>4. CASE JoinSessionAsync(t)
  <2> DEFINE i == Fresh({j.id : j \in joins})
  <2>1. joins' = joins \cup {[id |-> i, entry |-> tasks[t].entry]}
    BY <1>4 DEF JoinSessionAsync
  <2> HIDE DEF i
  <2>2. \A j \in joins' : j \in joins \/ j.entry = tasks[t].entry
    BY <2>1
  <2> QED
    BY <1>4, <2>2 DEF JoinSessionAsync, Goto
<1>5. CASE JoinSessionAsyncFails(t)
  BY <1>5 DEF JoinSessionAsyncFails, Goto, Done, Idle
<1>6. CASE Note(t)
  BY <1>6 DEF Note, Done, Idle
<1>7. CASE OnSessionJoined(t)
  BY <1>7 DEF OnSessionJoined, NotCurrent, Done, Idle, Goto, Task_
<1>8. CASE SetLinkTimeout(t)
  BY <1>8 DEF SetLinkTimeout, Goto
<1>9. CASE SetLinkTimeoutFails(t)
  BY <1>9 DEF SetLinkTimeoutFails, Goto
<1>10. CASE Unlink(t)
  BY <1>10 DEF Unlink, Cleared, Goto
<1>11. CASE ConnectedToControllerServiceCB(t)
  BY <1>11 DEF ConnectedToControllerServiceCB, Done, Idle
<1>12. CASE Failed(t)
  BY <1>12 DEF Failed, Cleared, Task_
<1>13. CASE OnSessionLost(t)
  BY <1>13 DEF OnSessionLost, Task_, Done, Idle
<1>14. CASE DisconnectedFromControllerServiceCB(t)
  BY <1>14 DEF DisconnectedFromControllerServiceCB, Goto
<1>15. ASSUME NEW c \in Controller, Announced(t, c) PROVE P
  BY <1>15
<1>16. ASSUME NEW j \in joins, JoinSessionCB(t, j) PROVE P
  BY <1>16 DEF JoinSessionCB, Task_, Idle
<1>17. ASSUME NEW e \in events, SessionLost(t, e.sid) PROVE P
  BY <1>17 DEF SessionLost, Task_, Idle
<1>18. ASSUME NEW e \in events, OnSessionMemberRemoved(t, e.sid) PROVE P
  BY <1>18 DEF OnSessionMemberRemoved, Task_, Idle
<1> QED
  BY <1>1, <1>2, <1>3, <1>4, <1>5, <1>6, <1>7, <1>8, <1>9, <1>10, <1>11,
     <1>12, <1>13, <1>14, <1>15, <1>16, <1>17, <1>18 DEF Callback, Begins

\* How a join under way moves from hand to hand.
LEMMA FlightsMove ==
  ASSUME TypeOK, AllFinite, NEW t \in Task, Callback(t) \/ Begins(t)
  PROVE  \/ /\ tasks'[t].pc \notin {"join", "joined", "failed", "link", "unlink"}
            /\ joins' \subseteq joins
         \/ /\ tasks[t].pc \in {"joined", "link"}
            /\ tasks'[t].pc \in {"failed", "link", "unlink"}
            /\ tasks'[t].entry = tasks[t].entry /\ joins' = joins
         \/ \E j \in joins :
              /\ tasks'[t].pc = "joined" /\ tasks'[t].entry = j.entry
              /\ tasks[t].pc = "idle" /\ joins' = joins \ {j}
         \/ Pick(t) /\ tasks'[t].pc = "join" /\ joins' = joins
         \/ /\ JoinSessionAsync(t) /\ tasks'[t].pc = "note"
            /\ \E i : joins' = joins \cup {[id |-> i, entry |-> tasks[t].entry]}
<1> DEFINE P ==
         \/ /\ tasks'[t].pc \notin {"join", "joined", "failed", "link", "unlink"}
            /\ joins' \subseteq joins
         \/ /\ tasks[t].pc \in {"joined", "link"}
            /\ tasks'[t].pc \in {"failed", "link", "unlink"}
            /\ tasks'[t].entry = tasks[t].entry /\ joins' = joins
         \/ \E j \in joins :
              /\ tasks'[t].pc = "joined" /\ tasks'[t].entry = j.entry
              /\ tasks[t].pc = "idle" /\ joins' = joins \ {j}
         \/ Pick(t) /\ tasks'[t].pc = "join" /\ joins' = joins
         \/ /\ JoinSessionAsync(t) /\ tasks'[t].pc = "note"
            /\ \E i : joins' = joins \cup {[id |-> i, entry |-> tasks[t].entry]}
<1> USE DEF TypeOK, busVars
<1>1. CASE Insert(t)
  BY <1>1 DEF Insert, Goto, Done, Idle, DoLeaveSessionAsync
<1>2. CASE Forget(t)
  BY <1>2 DEF Forget, Goto
<1>3. CASE Pick(t)
  BY <1>3 DEF Pick, Done, Idle, Task_
<1>4. CASE JoinSessionAsync(t)
  <2>1. tasks'[t].pc = "note"
    BY <1>4 DEF JoinSessionAsync, Goto
  <2>2. \E i : joins' = joins \cup {[id |-> i, entry |-> tasks[t].entry]}
    BY <1>4 DEF JoinSessionAsync
  <2> QED
    BY <1>4, <2>1, <2>2
<1>5. CASE JoinSessionAsyncFails(t)
  BY <1>5 DEF JoinSessionAsyncFails, Goto, Done, Idle
<1>6. CASE Note(t)
  BY <1>6 DEF Note, Done, Idle
<1>7. CASE OnSessionJoined(t)
  BY <1>7 DEF OnSessionJoined, NotCurrent, Done, Idle, Goto, Task_
<1>8. CASE SetLinkTimeout(t)
  BY <1>8 DEF SetLinkTimeout, Goto
<1>9. CASE SetLinkTimeoutFails(t)
  BY <1>9 DEF SetLinkTimeoutFails, Goto
<1>10. CASE Unlink(t)
  BY <1>10 DEF Unlink, Cleared, Goto
<1>11. CASE ConnectedToControllerServiceCB(t)
  BY <1>11 DEF ConnectedToControllerServiceCB, Done, Idle
<1>12. CASE Failed(t)
  BY <1>12 DEF Failed, Cleared, Task_
<1>13. CASE OnSessionLost(t)
  BY <1>13 DEF OnSessionLost, Task_, Done, Idle
<1>14. CASE DisconnectedFromControllerServiceCB(t)
  BY <1>14 DEF DisconnectedFromControllerServiceCB, Goto
<1>15. ASSUME NEW c \in Controller, Announced(t, c) PROVE P
  BY <1>15 DEF Announced, Task_, Idle
<1>16. ASSUME NEW j \in joins, JoinSessionCB(t, j) PROVE P
  <2>1. tasks'[t].pc = "joined" /\ tasks'[t].entry = j.entry
    BY <1>16, JoinAnswered
  <2> QED
    BY <1>16, <2>1 DEF JoinSessionCB, Idle
<1>17. ASSUME NEW e \in events, SessionLost(t, e.sid) PROVE P
  BY <1>17 DEF SessionLost, Task_, Idle
<1>18. ASSUME NEW e \in events, OnSessionMemberRemoved(t, e.sid) PROVE P
  BY <1>18 DEF OnSessionMemberRemoved, Task_, Idle
<1> QED
  BY <1>1, <1>2, <1>3, <1>4, <1>5, <1>6, <1>7, <1>8, <1>9, <1>10, <1>11,
     <1>12, <1>13, <1>14, <1>15, <1>16, <1>17, <1>18 DEF Callback, Begins

\* How a session moves from hand to hand.
LEMMA SidsMove ==
  ASSUME TypeOK, TaskForm, AllFinite, NEW t \in Task, Callback(t) \/ Begins(t)
  PROVE  /\ \/ tasks'[t].pc \notin {"joined", "failed", "link", "unlink", "connected"}
            \/ /\ tasks[t].pc = "joined" /\ tasks'[t].pc = "failed"
               /\ tasks'[t].sid = tasks[t].sid
            \/ /\ tasks[t].pc = "joined" /\ tasks'[t].pc = "link"
               /\ tasks'[t].sid = tasks[t].sid /\ tasks[t].sid # 0
               /\ tasks'[t].entry = tasks[t].entry
            \/ /\ tasks[t].pc = "link" /\ tasks'[t].pc \in {"unlink", "connected"}
               /\ tasks'[t].sid = tasks[t].sid /\ tasks'[t].entry = tasks[t].entry
            \/ /\ tasks'[t].pc = "joined" /\ currentLeader' = currentLeader
               /\ tasks'[t].sid = 0 \/ tasks'[t].sid \notin SidsInUse
         /\ \/ currentLeader'.sid \in {0, currentLeader.sid}
            \/ /\ tasks[t].pc = "joined" /\ tasks'[t].pc = "link"
               /\ tasks[t].sid = currentLeader'.sid
<1> DEFINE P ==
         /\ \/ tasks'[t].pc \notin {"joined", "failed", "link", "unlink", "connected"}
            \/ /\ tasks[t].pc = "joined" /\ tasks'[t].pc = "failed"
               /\ tasks'[t].sid = tasks[t].sid
            \/ /\ tasks[t].pc = "joined" /\ tasks'[t].pc = "link"
               /\ tasks'[t].sid = tasks[t].sid /\ tasks[t].sid # 0
               /\ tasks'[t].entry = tasks[t].entry
            \/ /\ tasks[t].pc = "link" /\ tasks'[t].pc \in {"unlink", "connected"}
               /\ tasks'[t].sid = tasks[t].sid /\ tasks'[t].entry = tasks[t].entry
            \/ /\ tasks'[t].pc = "joined" /\ currentLeader' = currentLeader
               /\ tasks'[t].sid = 0 \/ tasks'[t].sid \notin SidsInUse
         /\ \/ currentLeader'.sid \in {0, currentLeader.sid}
            \/ /\ tasks[t].pc = "joined" /\ tasks'[t].pc = "link"
               /\ tasks[t].sid = currentLeader'.sid
<1> USE DEF TypeOK, NoLeader, clientVars, busVars
<1>1. CASE Insert(t)
  BY <1>1 DEF Insert, Goto, Done, Idle, DoLeaveSessionAsync
<1>2. CASE Forget(t)
  BY <1>2 DEF Forget, Goto
<1>3. CASE Pick(t)
  BY <1>3 DEF Pick, Done, Idle, Task_
<1>4. CASE JoinSessionAsync(t)
  BY <1>4 DEF JoinSessionAsync, Goto
<1>5. CASE JoinSessionAsyncFails(t)
  BY <1>5 DEF JoinSessionAsyncFails, Goto, Done, Idle
<1>6. CASE Note(t)
  BY <1>6 DEF Note, Done, Idle
<1>7. CASE OnSessionJoined(t)
  BY <1>7 DEF OnSessionJoined, NotCurrent, Done, Idle, Goto, Task_, TaskForm
<1>8. CASE SetLinkTimeout(t)
  BY <1>8 DEF SetLinkTimeout, Goto
<1>9. CASE SetLinkTimeoutFails(t)
  BY <1>9 DEF SetLinkTimeoutFails, Goto
<1>10. CASE Unlink(t)
  BY <1>10 DEF Unlink, Cleared, Goto
<1>11. CASE ConnectedToControllerServiceCB(t)
  BY <1>11 DEF ConnectedToControllerServiceCB, Done, Idle
<1>12. CASE Failed(t)
  BY <1>12 DEF Failed, Cleared, Task_
<1>13. CASE OnSessionLost(t)
  BY <1>13 DEF OnSessionLost, Task_, Done, Idle
<1>14. CASE DisconnectedFromControllerServiceCB(t)
  BY <1>14 DEF DisconnectedFromControllerServiceCB, Goto
<1>15. ASSUME NEW c \in Controller, Announced(t, c) PROVE P
  BY <1>15 DEF Announced, Task_, Idle
<1>16. ASSUME NEW j \in joins, JoinSessionCB(t, j) PROVE P
  <2>1. /\ tasks'[t].pc = "joined"
        /\ tasks'[t].sid = 0 \/ tasks'[t].sid \notin SidsInUse
    BY <1>16, JoinAnswered
  <2> QED
    BY <1>16, <2>1 DEF JoinSessionCB
<1>17. ASSUME NEW e \in events, SessionLost(t, e.sid) PROVE P
  BY <1>17 DEF SessionLost, Task_, Idle
<1>18. ASSUME NEW e \in events, OnSessionMemberRemoved(t, e.sid) PROVE P
  BY <1>18 DEF OnSessionMemberRemoved, Task_, Idle
<1> QED
  BY <1>1, <1>2, <1>3, <1>4, <1>5, <1>6, <1>7, <1>8, <1>9, <1>10, <1>11,
     <1>12, <1>13, <1>14, <1>15, <1>16, <1>17, <1>18 DEF Callback, Begins

\* What a callback does next.
LEMMA NextOf ==
  ASSUME TypeOK, NEW t \in Task, Callback(t) \/ Begins(t)
  PROVE  /\ tasks[t].pc = "forget" => Forget(t)
         /\ tasks[t].pc = "pick" => Pick(t)
         /\ tasks[t].pc = "link" => SetLinkTimeout(t) \/ SetLinkTimeoutFails(t)
         /\ tasks[t].pc = "unlink" => Unlink(t)
         /\ tasks[t].pc = "connected" => ConnectedToControllerServiceCB(t)
         /\ tasks[t].pc = "lost" => OnSessionLost(t)
         /\ tasks[t].pc = "disconnected" => DisconnectedFromControllerServiceCB(t)
<1>1. tasks[t].pc # "idle" => ~Begins(t)
  <2>1. tasks[t].pc # "idle" => tasks[t] # Idle
    BY DEF Idle
  <2> QED
    BY <2>1 DEF Begins, Announced, JoinSessionCB, SessionLost,
       OnSessionMemberRemoved
<1>2. /\ Insert(t) => tasks[t].pc = "insert"
      /\ Forget(t) => tasks[t].pc = "forget"
      /\ Pick(t) => tasks[t].pc = "pick"
      /\ JoinSessionAsync(t) \/ JoinSessionAsyncFails(t) => tasks[t].pc = "join"
      /\ Note(t) => tasks[t].pc = "note"
      /\ OnSessionJoined(t) => tasks[t].pc = "joined"
  BY DEF Insert, Forget, Pick, JoinSessionAsync, JoinSessionAsyncFails, Note,
     OnSessionJoined
<1>3. /\ SetLinkTimeout(t) \/ SetLinkTimeoutFails(t) => tasks[t].pc = "link"
      /\ Unlink(t) => tasks[t].pc = "unlink"
      /\ ConnectedToControllerServiceCB(t) => tasks[t].pc = "connected"
      /\ Failed(t) => tasks[t].pc = "failed"
      /\ OnSessionLost(t) => tasks[t].pc = "lost"
      /\ DisconnectedFromControllerServiceCB(t) => tasks[t].pc = "disconnected"
  BY DEF SetLinkTimeout, SetLinkTimeoutFails, Unlink,
     ConnectedToControllerServiceCB, Failed, OnSessionLost,
     DisconnectedFromControllerServiceCB
<1> QED
  BY <1>1, <1>2, <1>3 DEF Callback

\* How a callback comes to look for a leader.
LEMMA ComesTo ==
  ASSUME TypeOK, NEW t \in Task, Callback(t) \/ Begins(t)
  PROVE  /\ tasks'[t].pc = "join" => /\ Pick(t) /\ ~stopped
                                    /\ tasks'[t].entry \in leadersMap'
         /\ tasks'[t].pc = "note" => /\ JoinSessionAsync(t)
                                    /\ tasks'[t].entry = tasks[t].entry
         /\ tasks'[t].pc = "disconnected" => OnSessionLost(t)
<1> DEFINE P ==
         /\ tasks'[t].pc = "join" => /\ Pick(t) /\ ~stopped
                                    /\ tasks'[t].entry \in leadersMap'
         /\ tasks'[t].pc = "note" => /\ JoinSessionAsync(t)
                                    /\ tasks'[t].entry = tasks[t].entry
         /\ tasks'[t].pc = "disconnected" => OnSessionLost(t)
<1> USE DEF TypeOK
<1>1. CASE Insert(t)
  BY <1>1 DEF Insert, Goto, Done, Idle, DoLeaveSessionAsync
<1>2. CASE Forget(t)
  BY <1>2 DEF Forget, Goto
<1>3. CASE Pick(t)
  BY <1>3 DEF Pick, Done, Idle, Task_
<1>4. CASE JoinSessionAsync(t)
  BY <1>4 DEF JoinSessionAsync, Goto
<1>5. CASE JoinSessionAsyncFails(t)
  BY <1>5 DEF JoinSessionAsyncFails, Goto, Done, Idle
<1>6. CASE Note(t)
  BY <1>6 DEF Note, Done, Idle
<1>7. CASE OnSessionJoined(t)
  BY <1>7 DEF OnSessionJoined, NotCurrent, Done, Idle, Goto, Task_
<1>8. CASE SetLinkTimeout(t)
  BY <1>8 DEF SetLinkTimeout, Goto
<1>9. CASE SetLinkTimeoutFails(t)
  BY <1>9 DEF SetLinkTimeoutFails, Goto
<1>10. CASE Unlink(t)
  BY <1>10 DEF Unlink, Cleared, Goto
<1>11. CASE ConnectedToControllerServiceCB(t)
  BY <1>11 DEF ConnectedToControllerServiceCB, Done, Idle
<1>12. CASE Failed(t)
  BY <1>12 DEF Failed, Cleared, Task_
<1>13. CASE OnSessionLost(t)
  BY <1>13 DEF OnSessionLost, Task_, Done, Idle
<1>14. CASE DisconnectedFromControllerServiceCB(t)
  BY <1>14 DEF DisconnectedFromControllerServiceCB, Goto
<1>15. ASSUME NEW c \in Controller, Announced(t, c) PROVE P
  BY <1>15 DEF Announced, Task_, Idle
<1>16. ASSUME NEW j \in joins, JoinSessionCB(t, j) PROVE P
  BY <1>16 DEF JoinSessionCB, Task_, Idle
<1>17. ASSUME NEW e \in events, SessionLost(t, e.sid) PROVE P
  BY <1>17 DEF SessionLost, Task_, Idle
<1>18. ASSUME NEW e \in events, OnSessionMemberRemoved(t, e.sid) PROVE P
  BY <1>18 DEF OnSessionMemberRemoved, Task_, Idle
<1> QED
  BY <1>1, <1>2, <1>3, <1>4, <1>5, <1>6, <1>7, <1>8, <1>9, <1>10, <1>11,
     <1>12, <1>13, <1>14, <1>15, <1>16, <1>17, <1>18 DEF Callback, Begins

\* Who changes the announced leaders.
LEMMA MapMoves ==
  ASSUME TypeOK, NEW t \in Task, Callback(t) \/ Begins(t)
  PROVE  \/ leadersMap' = leadersMap
         \/ Insert(t)
         \/ Pick(t) /\ ~stopped
         \/ JoinSessionAsyncFails(t) /\ leadersMap' \subseteq leadersMap
BY DEF Callback, Begins, Forget, Pick, JoinSessionAsync, JoinSessionAsyncFails,
   Note, OnSessionJoined, SetLinkTimeout, SetLinkTimeoutFails, Unlink,
   ConnectedToControllerServiceCB, Failed, OnSessionLost,
   DisconnectedFromControllerServiceCB, Announced, JoinSessionCB,
   SessionLost, OnSessionMemberRemoved, clientVars

-----------------------------------------------------------------------------
(* Stop.                                                                   *)

\* Every step keeps AppStops.
LEMMA AppStopsStep ==
  ASSUME TypeOK, AppStops, [Next]_vars
  PROVE  AppStops'
<1> USE DEF AppStops, clientVars
<1>1. ASSUME NEW t \in Task, Callback(t) \/ Begins(t)
      PROVE  app' = app /\ stopped' = stopped
  BY <1>1, OneMoves
<1>2. ASSUME NEW sid \in leaving, LeaveSession(sid)
      PROVE  app' = app /\ stopped' = stopped
  BY <1>2 DEF LeaveSession
<1>3. ASSUME World PROVE app' = app /\ stopped' = stopped
  BY <1>3 DEF World, Lead, Leaves, StepDown, Crash
<1>4. CASE Stop \/ StopForgetsLeader \/ StopLeaves \/ StopClears \/ Start
  BY <1>4 DEF Stop, StopForgetsLeader, StopLeaves, StopClears, Start
<1>5. CASE UNCHANGED vars
  BY <1>5 DEF vars
<1> QED
  BY <1>1, <1>2, <1>3, <1>4, <1>5 DEF Next, Step, Application

\* Every step keeps FirstSeen: the time of an announcement is new.
LEMMA FirstSeenStep ==
  ASSUME TypeOK, TaskForm, AppStops, EntryNames, FirstSeen, [Next]_vars
  PROVE  FirstSeen'
<1>1. ASSUME NEW t \in Task, NEW c \in Controller, Announced(t, c)
      PROVE  FirstSeen'
  <2>1. /\ \A u \in Task \ {t} : tasks'[u] = tasks[u]
        /\ tasks'[t].entry.ts = now + 1
        /\ currentLeader' = currentLeader /\ leadersMap' = leadersMap
        /\ joins' = joins
    BY <1>1 DEF TypeOK, Announced, Task_, clientVars
  <2>2. \A e \in Entries : e.ts # now + 1
    <3>1. \A e \in Entries : e.ts \in Nat /\ e.ts <= now
      BY DEF TypeOK, EntryNames, Entries, Entry, NoEntry
    <3> QED
      BY <3>1 DEF TypeOK
  <2>3. /\ tasks'[t].entry # currentLeader.entry
        /\ tasks'[t].entry \notin leadersMap
        /\ \A j \in joins : tasks'[t].entry # j.entry
        /\ \A u \in Task \ {t} : tasks'[t].entry # tasks[u].entry
    BY <2>1, <2>2 DEF Entries
  <2> QED
    BY <2>1, <2>3 DEF FirstSeen
<1>2. ASSUME NEW t \in Task, Callback(t) \/ Begins(t),
             ~\E c \in Controller : Announced(t, c)
      PROVE  FirstSeen'
  <2>1. \A u \in Task \ {t} : tasks'[u] = tasks[u]
    BY <1>2, OneMoves
  <2>2. /\ tasks'[t].pc # "insert"
        /\ currentLeader'.entry \in {NoEntry, currentLeader.entry, tasks[t].entry}
        /\ leadersMap' \subseteq leadersMap \cup {tasks[t].entry}
        /\ \A j \in joins' : j \in joins \/ j.entry = tasks[t].entry
        /\ \/ tasks'[t].entry \in {NoEntry, tasks[t].entry} \cup leadersMap
           \/ \E j \in joins : tasks'[t].entry = j.entry
    BY <1>2, EntriesMove
  <2>3. \A u \in Task : tasks[u].pc = "insert" => tasks[u].entry # NoEntry
    BY DEF TaskForm
  <2> QED
    BY <2>1, <2>2, <2>3 DEF FirstSeen
<1>3. CASE ~\E t \in Task : Callback(t) \/ Begins(t)
  <2>1. /\ tasks' = tasks /\ joins' = joins /\ leadersMap' \subseteq leadersMap
        /\ currentLeader' \in {currentLeader, NoLeader}
    BY <1>3, Elsewhere
  <2> QED
    BY <2>1 DEF FirstSeen, TaskForm, NoLeader
<1> QED
  BY <1>1, <1>2, <1>3

\* Every step keeps SidOwned: the id of a session that is joined is new.
LEMMA SidOwnedStep ==
  ASSUME TypeOK, TaskForm, AllFinite, AppStops, SidOwned, [Next]_vars
  PROVE  SidOwned'
<1>1. ASSUME NEW t \in Task, Callback(t) \/ Begins(t) PROVE SidOwned'
  <2>1. \A u \in Task \ {t} : tasks'[u] = tasks[u]
    BY <1>1, OneMoves
  <2>2. /\ \/ tasks'[t].pc \notin {"joined", "failed", "link", "unlink", "connected"}
           \/ /\ tasks[t].pc = "joined" /\ tasks'[t].pc = "failed"
              /\ tasks'[t].sid = tasks[t].sid
           \/ /\ tasks[t].pc = "joined" /\ tasks'[t].pc = "link"
              /\ tasks'[t].sid = tasks[t].sid /\ tasks[t].sid # 0
           \/ /\ tasks[t].pc = "link" /\ tasks'[t].pc \in {"unlink", "connected"}
              /\ tasks'[t].sid = tasks[t].sid
           \/ /\ tasks'[t].pc = "joined" /\ currentLeader' = currentLeader
              /\ tasks'[t].sid = 0 \/ tasks'[t].sid \notin SidsInUse
        /\ \/ currentLeader'.sid \in {0, currentLeader.sid}
           \/ /\ tasks[t].pc = "joined" /\ tasks'[t].pc = "link"
              /\ tasks[t].sid = currentLeader'.sid
    BY <1>1, SidsMove
  <2>3. /\ currentLeader.sid \in SidsInUse
        /\ \A u \in Task : tasks[u].sid \in SidsInUse
    BY DEF SidsInUse
  <2> QED
    BY <2>1, <2>2, <2>3 DEF SidOwned
<1>2. CASE ~\E t \in Task : Callback(t) \/ Begins(t)
  <2>1. tasks' = tasks /\ currentLeader' \in {currentLeader, NoLeader}
    BY <1>2, Elsewhere
  <2> QED
    BY <2>1 DEF SidOwned, NoLeader
<1> QED
  BY <1>1, <1>2

\* Whoever picks a leader, while none looks beside it, finds that none of those
\* it has not struck out is being joined.
LEMMA PickedIsFree ==
  ASSUME TypeOK, OneSeeks, FlightKnown, EntryNames, Calm, Orderly, Orderly',
         NEW t \in Task, Pick(t), ~stopped
  PROVE  \A e \in leadersMap' : ~InFlight(e)
<1>1. currentLeader = NoLeader
  BY DEF Pick, Orderly, Without, If
<1>2. \A u \in Task \ {t} : tasks[u].pc \notin {"disconnected", "pick", "note"}
  BY DEF Pick, Orderly, Without, If, OneSeeks, Seeks
<1>3. tasks[t].pc = "pick"
  BY DEF Pick
<1>4. leadersMap' \subseteq leadersMap \ Lost(tasks[t].old)
  BY DEF Pick
<1>5. \A e \in leadersMap' : e \in leadersMap /\ e # tasks[t].old /\ e # NoEntry
  BY <1>4 DEF TypeOK, Lost
<1> QED
  BY <1>1, <1>2, <1>3, <1>5 DEF FlightKnown, NoLeader

\* Every step keeps FliesOnce.
LEMMA FliesOnceStep ==
  ASSUME TypeOK, TaskForm, AllFinite, AppStops, EntryNames, OneSeeks,
         FliesOnce, FlightKnown, [Next]_vars
  PROVE  FliesOnce'
<1> SUFFICES ASSUME Orderly' PROVE FliesOnce'
  BY DEF FliesOnce
<1>0. Orderly /\ Calm
  BY RacesStay DEF Orderly, Calm, Without
<1>1. ASSUME NEW t \in Task, Callback(t) \/ Begins(t) PROVE FliesOnce'
  <2>1. \A u \in Task \ {t} : tasks'[u] = tasks[u]
    BY <1>1, OneMoves
  <2>2. CASE /\ tasks'[t].pc \notin {"join", "joined", "failed", "link", "unlink"}
             /\ joins' \subseteq joins
    BY <1>0, <2>1, <2>2 DEF FliesOnce, Flies, InFlight
  <2>3. CASE /\ tasks[t].pc \in {"joined", "link"}
             /\ tasks'[t].pc \in {"failed", "link", "unlink"}
             /\ tasks'[t].entry = tasks[t].entry /\ joins' = joins
    BY <1>0, <2>1, <2>3 DEF FliesOnce, Flies, InFlight
  <2>4. ASSUME NEW j \in joins, tasks'[t].pc = "joined",
               tasks'[t].entry = j.entry, tasks[t].pc = "idle",
               joins' = joins \ {j}
        PROVE  FliesOnce'
    BY <1>0, <2>1, <2>4 DEF FliesOnce, Flies, InFlight
  <2>5. CASE Pick(t) /\ tasks'[t].pc = "join" /\ joins' = joins
    <3>1. tasks[t].pc = "pick" /\ ~stopped /\ tasks'[t].entry \in leadersMap'
      BY <2>5 DEF TypeOK, Pick, Task_, Done, Idle
    <3>2. ~InFlight(tasks'[t].entry)
      BY <1>0, <2>5, <3>1, PickedIsFree
    <3> QED
      BY <1>0, <2>1, <2>5, <3>1, <3>2 DEF FliesOnce, Flies, InFlight
  <2>6. CASE /\ JoinSessionAsync(t) /\ tasks'[t].pc = "note"
             /\ \E i : joins' = joins \cup {[id |-> i, entry |-> tasks[t].entry]}
    <3>1. PICK i : joins' = joins \cup {[id |-> i, entry |-> tasks[t].entry]}
      BY <2>6
    <3> DEFINE j == [id |-> i, entry |-> tasks[t].entry]
    <3>2. joins' = joins \cup {j} /\ j.entry = tasks[t].entry
      BY <3>1
    <3> HIDE DEF j
    <3>3. tasks[t].pc = "join" /\ ~InFlight(tasks[t].entry)
      BY <1>0, <2>6 DEF JoinSessionAsync, FliesOnce
    <3>4. \A u \in Task \ {t} : tasks[u].pc # "join"
      BY <1>0, <3>3 DEF OneSeeks, Seeks
    <3> QED
      BY <1>0, <2>1, <2>6, <3>2, <3>3, <3>4 DEF FliesOnce, Flies, InFlight
  <2> QED
    BY <1>1, <2>2, <2>3, <2>4, <2>5, <2>6, FlightsMove
<1>2. CASE ~\E t \in Task : Callback(t) \/ Begins(t)
  <2>1. tasks' = tasks /\ joins' = joins
    BY <1>2, Elsewhere
  <2> QED
    BY <1>0, <2>1 DEF FliesOnce, Flies, InFlight
<1> QED
  BY <1>1, <1>2

\* Only the join itself puts an entry in flight.
LEMMA TakesOff ==
  ASSUME TypeOK, AllFinite, NEW t \in Task, Callback(t) \/ Begins(t),
         NEW e, InFlight(e)'
  PROVE  InFlight(e) \/ (JoinSessionAsync(t) /\ e = tasks[t].entry)
<1>1. \A u \in Task \ {t} : tasks'[u] = tasks[u]
  BY OneMoves
<1>2. CASE /\ tasks'[t].pc \notin {"join", "joined", "failed", "link", "unlink"}
           /\ joins' \subseteq joins
  BY <1>1, <1>2 DEF InFlight, Flies
<1>3. CASE /\ tasks[t].pc \in {"joined", "link"}
           /\ tasks'[t].pc \in {"failed", "link", "unlink"}
           /\ tasks'[t].entry = tasks[t].entry /\ joins' = joins
  BY <1>1, <1>3 DEF InFlight, Flies
<1>4. ASSUME NEW j \in joins, tasks'[t].pc = "joined",
             tasks'[t].entry = j.entry, joins' = joins \ {j}
      PROVE  InFlight(e)
  BY <1>1, <1>4 DEF InFlight, Flies
<1>5. CASE Pick(t) /\ tasks'[t].pc = "join" /\ joins' = joins
  BY <1>1, <1>5 DEF InFlight, Flies
<1>6. CASE /\ JoinSessionAsync(t) /\ tasks'[t].pc = "note"
           /\ \E i : joins' = joins \cup {[id |-> i, entry |-> tasks[t].entry]}
  BY <1>1, <1>6 DEF InFlight, Flies
<1> QED
  BY <1>2, <1>3, <1>4, <1>5, <1>6, FlightsMove

\* A callback keeps FlightKnown, of any entry.
LEMMA FlightStaysKnown ==
  ASSUME TypeOK, TaskForm, AllFinite, EntryNames, FirstSeen, OneSeeks, FliesOnce,
         FlightKnown, Orderly, Orderly', Calm, ~stopped,
         NEW t \in Task, Callback(t) \/ Begins(t),
         NEW e \in leadersMap', InFlight(e)'
  PROVE  \/ currentLeader'.entry = e
         \/ \E u \in Task : /\ tasks'[u].pc \in {"disconnected", "pick"}
                           /\ tasks'[u].old = e
         \/ \E u \in Task : tasks'[u].pc = "note" /\ tasks'[u].entry = e
<1> DEFINE P == \/ currentLeader'.entry = e
                \/ \E u \in Task : /\ tasks'[u].pc \in {"disconnected", "pick"}
                                  /\ tasks'[u].old = e
                \/ \E u \in Task : tasks'[u].pc = "note" /\ tasks'[u].entry = e
<1>a. \A u \in Task \ {t} : tasks'[u] = tasks[u]
  BY OneMoves
<1>b. tasks[t].pc # "join" => InFlight(e)
  BY TakesOff DEF JoinSessionAsync
<1>c. e \in leadersMap /\ InFlight(e) =>
        \/ currentLeader.entry = e
        \/ \E u \in Task : /\ tasks[u].pc \in {"disconnected", "pick"}
                          /\ tasks[u].old = e
        \/ \E u \in Task : tasks[u].pc = "note" /\ tasks[u].entry = e
  BY DEF FlightKnown
<1>d. e \in leadersMap => e # NoEntry
  BY DEF TypeOK
<1> USE DEF TypeOK, clientVars
<1>1. CASE Insert(t)
  <2>1. /\ tasks[t].pc = "insert" /\ currentLeader' = currentLeader
        /\ leadersMap' \subseteq leadersMap \cup {tasks[t].entry}
    BY <1>1 DEF Insert, Known
  <2>2. e # tasks[t].entry
    BY <1>b, <2>1 DEF FirstSeen, InFlight, Flies
  <2> QED
    BY <1>a, <1>b, <1>c, <2>1, <2>2
<1>2. CASE Forget(t)
  <2>1. currentLeader = [entry |-> tasks[t].old, sid |-> 0]
    BY <1>2 DEF Forget, Orderly, Without, If
  <2>2. /\ tasks[t].pc = "forget" /\ leadersMap' = leadersMap
        /\ tasks'[t].pc = "pick" /\ tasks'[t].old = tasks[t].old
    BY <1>2 DEF Forget, Goto
  <2> QED
    BY <1>a, <1>b, <1>c, <2>1, <2>2
<1>3. CASE Pick(t)
  <2>1. tasks[t].pc = "pick" /\ ~InFlight(e)
    BY <1>3, PickedIsFree DEF Pick
  <2> QED
    BY <1>b, <2>1
<1>4. CASE JoinSessionAsync(t)
  <2>1. /\ tasks'[t].pc = "note" /\ tasks'[t].entry = tasks[t].entry
        /\ tasks[t].pc = "join"
        /\ currentLeader' = currentLeader /\ leadersMap' = leadersMap
    BY <1>4 DEF JoinSessionAsync, Goto
  <2>2. CASE e = tasks[t].entry
    BY <2>1, <2>2
  <2>3. CASE e # tasks[t].entry
    BY <1>a, <1>c, <2>1, <2>3, TakesOff
  <2> QED
    BY <2>2, <2>3
<1>5. CASE JoinSessionAsyncFails(t)
  <2>1. /\ tasks[t].pc = "join" /\ leadersMap' \subseteq leadersMap
        /\ currentLeader' = currentLeader
    BY <1>5 DEF JoinSessionAsyncFails
  <2>2. InFlight(e)
    BY <1>5, <2>1, TakesOff DEF JoinSessionAsync, JoinSessionAsyncFails, Chance
  <2> QED
    BY <1>a, <1>c, <2>1, <2>2
<1>6. CASE Note(t)
  <2>1. /\ tasks[t].pc = "note" /\ leadersMap' = leadersMap
        /\ currentLeader'.entry = tasks[t].entry
    BY <1>6 DEF Note
  <2>2. currentLeader = NoLeader
    BY <2>1 DEF OneSeeks
  <2> QED
    BY <1>a, <1>b, <1>c, <1>d, <2>1, <2>2 DEF NoLeader
<1>7. CASE OnSessionJoined(t)
  <2>1. /\ tasks[t].pc = "joined" /\ leadersMap' = leadersMap
        /\ currentLeader'.entry = currentLeader.entry
    BY <1>7 DEF OnSessionJoined, NotCurrent
  <2> QED
    BY <1>a, <1>b, <1>c, <2>1
<1>8. CASE SetLinkTimeout(t)
  BY <1>8, <1>a, <1>b, <1>c DEF SetLinkTimeout, Goto
<1>9. CASE SetLinkTimeoutFails(t)
  BY <1>9, <1>a, <1>b, <1>c DEF SetLinkTimeoutFails, Goto
<1>10. CASE Unlink(t)
  <2>1. currentLeader.entry \in {tasks[t].entry, NoEntry}
    BY <1>10 DEF Unlink, Cleared, Orderly, Without, If
  <2>2. /\ tasks[t].pc = "unlink" /\ tasks'[t].pc = "pick"
        /\ leadersMap' = leadersMap /\ joins' = joins
    BY <1>10 DEF Unlink, Goto, Task_
  <2>3. e # tasks[t].entry
    BY <1>a, <2>2 DEF FliesOnce, InFlight, Flies
  <2> QED
    BY <1>a, <1>b, <1>c, <1>d, <2>1, <2>2, <2>3
<1>11. CASE ConnectedToControllerServiceCB(t)
  BY <1>11, <1>a, <1>b, <1>c DEF ConnectedToControllerServiceCB, Done, Idle
<1>12. CASE Failed(t)
  <2>1. currentLeader.entry \in {tasks[t].entry, NoEntry}
    BY <1>12 DEF Failed, Cleared, Orderly, Without, If
  <2>2. /\ tasks[t].pc = "failed" /\ tasks'[t].pc = "pick"
        /\ leadersMap' = leadersMap /\ joins' = joins
    BY <1>12 DEF Failed, Goto, Task_
  <2>3. e # tasks[t].entry
    BY <1>a, <2>2 DEF FliesOnce, InFlight, Flies
  <2> QED
    BY <1>a, <1>b, <1>c, <1>d, <2>1, <2>2, <2>3
<1>13. CASE OnSessionLost(t)
  <2>1. tasks[t].pc = "lost" /\ leadersMap' = leadersMap
    BY <1>13 DEF OnSessionLost
  <2>2. \/ currentLeader' = currentLeader
        \/ /\ tasks'[t].pc = "disconnected"
           /\ tasks'[t].old = currentLeader.entry
    BY <1>13 DEF OnSessionLost, Task_
  <2> QED
    BY <1>a, <1>b, <1>c, <2>1, <2>2
<1>14. CASE DisconnectedFromControllerServiceCB(t)
  <2>1. /\ tasks[t].pc = "disconnected" /\ tasks'[t].pc = "pick"
        /\ tasks'[t].old = tasks[t].old
        /\ leadersMap' = leadersMap /\ currentLeader' = currentLeader
    BY <1>14 DEF DisconnectedFromControllerServiceCB, Goto
  <2> QED
    BY <1>a, <1>b, <1>c, <2>1
<1>15. ASSUME NEW c \in Controller, Announced(t, c) PROVE P
  BY <1>15, <1>a, <1>b, <1>c DEF Announced, Task_, Idle
<1>16. ASSUME NEW j \in joins, JoinSessionCB(t, j) PROVE P
  BY <1>16, <1>a, <1>b, <1>c DEF JoinSessionCB, Task_, Idle
<1>17. ASSUME NEW f \in events, SessionLost(t, f.sid) PROVE P
  BY <1>17, <1>a, <1>b, <1>c DEF SessionLost, Task_, Idle
<1>18. ASSUME NEW f \in events, OnSessionMemberRemoved(t, f.sid) PROVE P
  BY <1>18, <1>a, <1>b, <1>c DEF OnSessionMemberRemoved, Task_, Idle
<1> QED
  BY <1>1, <1>2, <1>3, <1>4, <1>5, <1>6, <1>7, <1>8, <1>9, <1>10, <1>11,
     <1>12, <1>13, <1>14, <1>15, <1>16, <1>17, <1>18 DEF Callback, Begins

\* Every step keeps FlightKnown.
LEMMA FlightKnownStep ==
  ASSUME TypeOK, TaskForm, AllFinite, AppStops, EntryNames, FirstSeen, OneSeeks,
         FliesOnce, FlightKnown, [Next]_vars
  PROVE  FlightKnown'
<1> SUFFICES ASSUME Orderly', ~stopped' PROVE FlightKnown'
  BY DEF FlightKnown
<1>0. Orderly /\ Calm
  BY RacesStay DEF Orderly, Calm, Without
<1>1. ASSUME NEW t \in Task, Callback(t) \/ Begins(t) PROVE FlightKnown'
  <2>1. ~stopped
    BY <1>1, OneMoves
  <2> QED
    BY <1>0, <1>1, <2>1, FlightStaysKnown DEF FlightKnown
<1>2. CASE ~\E t \in Task : Callback(t) \/ Begins(t)
  <2>1. /\ tasks' = tasks /\ joins' = joins
        /\ \/ stopped' \/ Start
           \/ /\ stopped' = stopped /\ currentLeader' = currentLeader
              /\ leadersMap' = leadersMap
    BY <1>2, Elsewhere
  <2>2. CASE Start
    BY <2>1, <2>2 DEF Start, FlightKnown, InFlight, Flies, Idle
  <2>3. CASE ~Start
    BY <1>0, <2>1, <2>3 DEF FlightKnown, InFlight, Flies
  <2> QED
    BY <2>2, <2>3
<1> QED
  BY <1>1, <1>2

\* A session that a callback notes is the first one of its leader.
LEMMA FirstAnswer ==
  ASSUME TypeOK, TaskForm, EntryNames, FliesOnce, OneAnswer, Orderly,
         NEW t \in Task, OnSessionJoined(t), currentLeader' # currentLeader
  PROVE  /\ currentLeader.entry = tasks[t].entry /\ currentLeader.sid = 0
         /\ currentLeader'.entry = currentLeader.entry
         /\ currentLeader'.sid = tasks[t].sid
         /\ tasks[t].pc = "joined" /\ tasks'[t].pc = "link"
         /\ tasks'[t].sid = tasks[t].sid /\ joins' = joins
<1>1. /\ currentLeader.entry.rank = tasks[t].entry.rank
      /\ currentLeader.entry.ts = tasks[t].entry.ts
      /\ currentLeader' = [currentLeader EXCEPT !.sid = tasks[t].sid]
      /\ tasks[t].pc = "joined" /\ Goto(t, "link") /\ joins' = joins
  BY DEF OnSessionJoined, NotCurrent
<1>2. currentLeader.entry = tasks[t].entry
  BY <1>1 DEF EntryNames, Entries
<1>3. currentLeader.sid = 0
  BY <1>1, <1>2 DEF OneAnswer
<1> QED
  BY <1>1, <1>2, <1>3 DEF TypeOK, Goto

\* Every step keeps OneAnswer.
LEMMA OneAnswerStep ==
  ASSUME TypeOK, TaskForm, AllFinite, AppStops, EntryNames, OneSeeks, FliesOnce,
         OneAnswer, [Next]_vars
  PROVE  OneAnswer'
<1> SUFFICES ASSUME Orderly' PROVE OneAnswer'
  BY DEF OneAnswer
<1>0. Orderly /\ Calm
  BY RacesStay DEF Orderly, Calm, Without
<1>1. ASSUME NEW t \in Task, Callback(t) \/ Begins(t) PROVE OneAnswer'
  <2>1. \A u \in Task \ {t} : tasks'[u] = tasks[u]
    BY <1>1, OneMoves
  <2>2. CASE JoinSessionAsync(t) \/ Note(t)
    <3>1. currentLeader.sid = 0
      BY <1>0, <2>2 DEF JoinSessionAsync, Note, OneSeeks, NoLeader
    <3>2. currentLeader'.sid = 0
      BY <2>2, <3>1 DEF TypeOK, JoinSessionAsync, Note, clientVars
    <3> QED
      BY <3>2 DEF OneAnswer
  <2>3. CASE OnSessionJoined(t)
    <3>1. CASE currentLeader' = currentLeader
      <4>1. tasks'[t].pc # "joined" /\ joins' = joins
        BY <2>3 DEF TypeOK, OnSessionJoined, NotCurrent, Done, Idle, Goto, Task_
      <4> QED
        BY <1>0, <2>1, <3>1, <4>1 DEF OneAnswer
    <3>2. CASE currentLeader' # currentLeader
      <4>1. /\ currentLeader'.entry = tasks[t].entry
            /\ tasks[t].pc = "joined" /\ tasks'[t].pc = "link"
            /\ joins' = joins
        BY <1>0, <2>3, <3>2, FirstAnswer
      <4> QED
        BY <1>0, <2>1, <4>1 DEF OneAnswer, FliesOnce, Flies
    <3> QED
      BY <3>1, <3>2
  <2>4. CASE ~(JoinSessionAsync(t) \/ Note(t) \/ OnSessionJoined(t))
    <3>1. currentLeader' \in {currentLeader, NoLeader}
      BY <1>1, <2>4 DEF Callback, Begins, Insert, Forget, Pick,
         JoinSessionAsyncFails, SetLinkTimeout, SetLinkTimeoutFails, Unlink,
         ConnectedToControllerServiceCB, Failed, Cleared, OnSessionLost,
         DisconnectedFromControllerServiceCB, Announced, JoinSessionCB,
         SessionLost, OnSessionMemberRemoved, clientVars
    <3>2. \/ tasks'[t].pc # "joined" /\ joins' \subseteq joins
          \/ \E j \in joins : /\ tasks'[t].pc = "joined"
                             /\ tasks'[t].entry = j.entry
                             /\ joins' = joins \ {j}
      BY <1>1, <2>4, FlightsMove
    <3> QED
      BY <1>0, <2>1, <3>1, <3>2 DEF OneAnswer, NoLeader
  <2> QED
    BY <2>2, <2>3, <2>4
<1>2. CASE ~\E t \in Task : Callback(t) \/ Begins(t)
  <2>1. /\ tasks' = tasks /\ joins' = joins
        /\ currentLeader' \in {currentLeader, NoLeader}
    BY <1>2, Elsewhere
  <2> QED
    BY <1>0, <2>1 DEF OneAnswer, NoLeader
<1> QED
  BY <1>1, <1>2

\* Every step keeps LeaderGone: only a callback begun before Stop would note a
\* leader after it.
LEMMA LeaderGoneStep ==
  ASSUME TypeOK, TaskForm, AppStops, LeaderGone, [Next]_vars
  PROVE  LeaderGone'
<1> SUFFICES ASSUME Orderly', stopped', app'.pc # "stop"
             PROVE  currentLeader' = NoLeader
  BY DEF LeaderGone
<1>0. Orderly
  BY RacesStay DEF Orderly
<1>1. ASSUME NEW t \in Task, Callback(t) \/ Begins(t)
      PROVE  currentLeader' = NoLeader
  <2>1. currentLeader = NoLeader /\ stopped
    BY <1>0, <1>1, OneMoves DEF LeaderGone
  <2>2. ~Note(t)
    BY <2>1 DEF Note, Orderly, Without, If
  <2>3. CASE OnSessionJoined(t)
    BY <2>1, <2>3, MatchesNotNone
  <2>4. CASE ~OnSessionJoined(t)
    BY <1>1, <2>1, <2>2, <2>4 DEF Callback, Begins, Insert, Forget, Pick,
       JoinSessionAsync, JoinSessionAsyncFails, SetLinkTimeout,
       SetLinkTimeoutFails, Unlink, ConnectedToControllerServiceCB, Failed,
       Cleared, OnSessionLost, DisconnectedFromControllerServiceCB, Announced,
       JoinSessionCB, SessionLost, OnSessionMemberRemoved, clientVars
  <2> QED
    BY <2>3, <2>4
<1>2. ASSUME NEW sid \in leaving, LeaveSession(sid)
      PROVE  currentLeader' = NoLeader
  BY <1>0, <1>2 DEF LeaveSession, LeaderGone, clientVars
<1>3. CASE World
  BY <1>0, <1>3 DEF World, Lead, Leaves, StepDown, Crash, LeaderGone, clientVars
<1>4. CASE Stop
  BY <1>4 DEF Stop
<1>5. CASE StopForgetsLeader
  BY <1>5 DEF StopForgetsLeader
<1>6. CASE StopLeaves
  BY <1>0, <1>6 DEF StopLeaves, LeaderGone, clientVars
<1>7. CASE StopClears
  BY <1>0, <1>7 DEF StopClears, LeaderGone
<1>8. CASE Start
  BY <1>8 DEF Start
<1>9. CASE UNCHANGED vars
  BY <1>0, <1>9 DEF vars, LeaderGone, clientVars
<1> QED
  BY <1>1, <1>2, <1>3, <1>4, <1>5, <1>6, <1>7, <1>8, <1>9 DEF Next, Step,
     Application

\* A callback keeps BelievesRightly: whoever tells the application of a
\* connection owns the leader's session, and whoever gives the leader up has
\* not told of it.
LEMMA StillBelieves ==
  ASSUME TypeOK, TaskForm, AllFinite, EntryNames, SidOwned, FliesOnce, OneAnswer,
         OneSeeks, BelievesRightly, Orderly, Orderly', Calm,
         NEW t \in Task, Callback(t) \/ Begins(t)
  PROVE  BelievesRightly'
<1>a. (\A u \in Task \ {t} : tasks'[u] = tasks[u]) /\ app' = app
  BY OneMoves
<1> USE DEF TypeOK, BelievesRightly, clientVars
<1>1. CASE Insert(t)
  BY <1>1, <1>a DEF Insert, Goto, Done, Idle, DoLeaveSessionAsync
<1>2. CASE Forget(t)
  <2>1. currentLeader.sid = 0
    BY <1>2 DEF Forget, Orderly, Without, If
  <2>2. tasks[t].pc = "forget" /\ view' = view
    BY <1>2 DEF Forget
  <2> QED
    BY <1>a, <2>1, <2>2
<1>3. CASE Pick(t)
  BY <1>3, <1>a DEF Pick, Done, Idle, Task_
<1>4. CASE JoinSessionAsync(t)
  BY <1>4, <1>a DEF JoinSessionAsync, Goto
<1>5. CASE JoinSessionAsyncFails(t)
  BY <1>5, <1>a DEF JoinSessionAsyncFails, Goto, Done, Idle
<1>6. CASE Note(t)
  <2>1. tasks[t].pc = "note" /\ view' = view
    BY <1>6 DEF Note
  <2>2. currentLeader.sid = 0
    BY <2>1 DEF OneSeeks, NoLeader
  <2> QED
    BY <1>a, <2>1, <2>2
<1>7. CASE OnSessionJoined(t)
  <2>1. /\ tasks[t].pc = "joined" /\ view' = view
        /\ tasks'[t].pc \in {"idle", "link", "failed"}
    BY <1>7 DEF OnSessionJoined, NotCurrent, Done, Idle, Goto, Task_
  <2>2. CASE currentLeader' = currentLeader
    <3>1. tasks'[t].pc # "link" \/ tasks'[t].sid # currentLeader.sid
      BY <1>7, <2>1, <2>2, SidsMove DEF SidOwned
    <3> QED
      BY <1>a, <2>1, <2>2, <3>1
  <2>3. CASE currentLeader' # currentLeader
    <3>1. currentLeader.sid = 0
      BY <1>7, <2>3, FirstAnswer
    <3> QED
      BY <1>a, <2>1, <3>1
  <2> QED
    BY <2>2, <2>3
<1>8. CASE SetLinkTimeout(t)
  BY <1>8, <1>a DEF SetLinkTimeout, Goto
<1>9. CASE SetLinkTimeoutFails(t)
  BY <1>9, <1>a DEF SetLinkTimeoutFails, Goto
<1>10. CASE Unlink(t)
  <2>1. tasks[t].pc = "unlink" /\ view' = view
    BY <1>10 DEF Unlink
  <2>2. currentLeader.sid \in {tasks[t].sid, 0}
    BY <1>10 DEF Unlink, Cleared, Orderly, Without, If
  <2> QED
    BY <1>a, <2>1, <2>2
<1>11. CASE ConnectedToControllerServiceCB(t)
  <2>1. /\ tasks[t].pc = "connected" /\ tasks'[t].pc = "idle"
        /\ currentLeader' = currentLeader
    BY <1>11 DEF ConnectedToControllerServiceCB, Done, Idle
  <2>2. currentLeader.sid = tasks[t].sid
    BY <1>11 DEF ConnectedToControllerServiceCB, Orderly, Without, If
  <2>3. \A u \in Task \ {t} : tasks[u].pc \in {"link", "unlink"} =>
          tasks[u].sid # currentLeader.sid
    BY <2>1, <2>2 DEF SidOwned
  <2>4. currentLeader.sid # 0
    BY <2>1, <2>2 DEF SidOwned
  <2> QED
    BY <1>a, <2>1, <2>3, <2>4
<1>12. CASE Failed(t)
  <2>1. tasks[t].pc = "failed" /\ view' = view
    BY <1>12 DEF Failed
  <2>2. currentLeader.sid \in {tasks[t].sid, 0}
    BY <1>12 DEF Failed, Cleared, Orderly, Without, If
  <2>3. currentLeader.sid = 0
    BY <2>1, <2>2 DEF SidOwned
  <2> QED
    BY <1>a, <2>1, <2>3
<1>13. CASE OnSessionLost(t)
  BY <1>13, <1>a DEF OnSessionLost, Task_, Done, Idle
<1>14. CASE DisconnectedFromControllerServiceCB(t)
  BY <1>14, <1>a DEF DisconnectedFromControllerServiceCB, Goto
<1>15. ASSUME NEW c \in Controller, Announced(t, c) PROVE BelievesRightly'
  BY <1>15, <1>a DEF Announced, Task_, Idle
<1>16. ASSUME NEW j \in joins, JoinSessionCB(t, j) PROVE BelievesRightly'
  BY <1>16, <1>a DEF JoinSessionCB, Task_, Idle
<1>17. ASSUME NEW e \in events, SessionLost(t, e.sid) PROVE BelievesRightly'
  BY <1>17, <1>a DEF SessionLost, Task_, Idle
<1>18. ASSUME NEW e \in events, OnSessionMemberRemoved(t, e.sid)
       PROVE  BelievesRightly'
  BY <1>18, <1>a DEF OnSessionMemberRemoved, Task_, Idle
<1> QED
  BY <1>1, <1>2, <1>3, <1>4, <1>5, <1>6, <1>7, <1>8, <1>9, <1>10, <1>11,
     <1>12, <1>13, <1>14, <1>15, <1>16, <1>17, <1>18 DEF Callback, Begins

\* Every step keeps BelievesRightly.
LEMMA BelievesRightlyStep ==
  ASSUME TypeOK, TaskForm, AllFinite, AppStops, EntryNames, SidOwned, FliesOnce,
         OneAnswer, OneSeeks, BelievesRightly, [Next]_vars
  PROVE  BelievesRightly'
<1> SUFFICES ASSUME Orderly' PROVE BelievesRightly'
  BY DEF BelievesRightly
<1>0. Orderly /\ Calm
  BY RacesStay DEF Orderly, Calm, Without
<1>1. ASSUME NEW t \in Task, Callback(t) \/ Begins(t) PROVE BelievesRightly'
  BY <1>0, <1>1, StillBelieves
<1> USE DEF BelievesRightly, clientVars
<1>2. ASSUME NEW sid \in leaving, LeaveSession(sid) PROVE BelievesRightly'
  BY <1>0, <1>2 DEF LeaveSession
<1>3. CASE World
  BY <1>0, <1>3 DEF World, Lead, Leaves, StepDown, Crash
<1>4. CASE Stop
  BY <1>0, <1>4 DEF Stop, AppStops
<1>5. CASE StopForgetsLeader
  BY <1>0, <1>5 DEF StopForgetsLeader
<1>6. CASE StopLeaves
  BY <1>0, <1>6 DEF StopLeaves
<1>7. CASE StopClears
  BY <1>0, <1>7 DEF StopClears
<1>8. CASE Start
  BY <1>0, <1>8 DEF Start
<1>9. CASE UNCHANGED vars
  BY <1>0, <1>9 DEF vars
<1> QED
  BY <1>1, <1>2, <1>3, <1>4, <1>5, <1>6, <1>7, <1>8, <1>9 DEF Next, Step,
     Application

-----------------------------------------------------------------------------
(* The leader at rest.                                                     *)

\* Without any race, or any of the fewer that other properties go by.
LEMMA CleanIsCalm ==
  /\ Clean => Orderly /\ Calm
  /\ [Next]_vars /\ Clean' => Clean /\ Orderly' /\ Calm'
BY RacesStay DEF Clean, Orderly, Calm, Without, Race

\* Who changes the current leader.
LEMMA LeaderMoves ==
  ASSUME TypeOK, TaskForm, NEW t \in Task, Callback(t) \/ Begins(t)
  PROVE  \/ currentLeader' \in {currentLeader, NoLeader}
         \/ /\ Note(t) /\ currentLeader'.sid = currentLeader.sid
            /\ currentLeader'.entry = tasks[t].entry
            /\ tasks[t].pc = "note" /\ tasks[t].entry # NoEntry
         \/ /\ OnSessionJoined(t) /\ currentLeader'.entry = currentLeader.entry
            /\ currentLeader # NoLeader
<1>1. CASE Note(t)
  BY <1>1 DEF TypeOK, TaskForm, Note
<1>2. CASE OnSessionJoined(t)
  <2>1. \/ currentLeader' = currentLeader
        \/ currentLeader' = [currentLeader EXCEPT !.sid = tasks[t].sid]
    BY <1>2 DEF OnSessionJoined, NotCurrent
  <2> QED
    BY <1>2, <2>1, MatchesNotNone DEF TypeOK
<1>3. CASE ~(Note(t) \/ OnSessionJoined(t))
  BY <1>3 DEF Callback, Begins, Insert, Forget, Pick, JoinSessionAsync,
     JoinSessionAsyncFails, SetLinkTimeout, SetLinkTimeoutFails, Unlink,
     ConnectedToControllerServiceCB, Failed, Cleared, OnSessionLost,
     DisconnectedFromControllerServiceCB, Announced, JoinSessionCB,
     SessionLost, OnSessionMemberRemoved, clientVars
<1> QED
  BY <1>1, <1>2, <1>3

\* Every step keeps LeaderNamed.
LEMMA LeaderNamedStep ==
  ASSUME TypeOK, TaskForm, AppStops, LeaderNamed, [Next]_vars
  PROVE  LeaderNamed'
<1>1. ASSUME NEW t \in Task, Callback(t) \/ Begins(t) PROVE LeaderNamed'
  <2>1. CASE /\ OnSessionJoined(t) /\ currentLeader'.entry = currentLeader.entry
             /\ currentLeader # NoLeader
    <3>1. currentLeader.entry # NoEntry
      BY <2>1 DEF LeaderNamed, TypeOK, NoLeader
    <3> QED
      BY <2>1, <3>1 DEF LeaderNamed
  <2> QED
    BY <1>1, <2>1, LeaderMoves DEF LeaderNamed, NoLeader
<1>2. CASE ~\E t \in Task : Callback(t) \/ Begins(t)
  BY <1>2, Elsewhere DEF LeaderNamed, NoLeader
<1> QED
  BY <1>1, <1>2

\* What callbacks do to the sessions the client is in.
LEMMA SessionsMove ==
  ASSUME TypeOK, AllFinite, NEW t \in Task, Callback(t) \/ Begins(t)
  PROVE  /\ events' \subseteq events
         /\ \/ sessions' \subseteq sessions
            \/ \E s : sessions' = sessions \cup {s} /\ s.sid \notin SidsInUse
<1> DEFINE P ==
         /\ events' \subseteq events
         /\ \/ sessions' \subseteq sessions
            \/ \E s : sessions' = sessions \cup {s} /\ s.sid \notin SidsInUse
<1> USE DEF busVars
<1>1. CASE Insert(t)
  BY <1>1 DEF Insert, Goto, Done, Idle, DoLeaveSessionAsync
<1>2. CASE Forget(t)
  BY <1>2 DEF Forget, Goto
<1>3. CASE Pick(t)
  BY <1>3 DEF Pick, Done, Idle, Task_
<1>4. CASE JoinSessionAsync(t)
  BY <1>4 DEF JoinSessionAsync, Goto
<1>5. CASE JoinSessionAsyncFails(t)
  BY <1>5 DEF JoinSessionAsyncFails, Goto, Done, Idle
<1>6. CASE Note(t)
  BY <1>6 DEF Note, Done, Idle
<1>7. CASE OnSessionJoined(t)
  BY <1>7 DEF OnSessionJoined, NotCurrent, Done, Idle, Goto, Task_
<1>8. CASE SetLinkTimeout(t)
  BY <1>8 DEF SetLinkTimeout, Goto
<1>9. CASE SetLinkTimeoutFails(t)
  BY <1>9 DEF SetLinkTimeoutFails, Goto
<1>10. CASE Unlink(t)
  BY <1>10 DEF Unlink, Cleared, Goto
<1>11. CASE ConnectedToControllerServiceCB(t)
  BY <1>11 DEF ConnectedToControllerServiceCB, Done, Idle
<1>12. CASE Failed(t)
  BY <1>12 DEF Failed, Cleared, Task_
<1>13. CASE OnSessionLost(t)
  BY <1>13 DEF OnSessionLost, Task_, Done, Idle
<1>14. CASE DisconnectedFromControllerServiceCB(t)
  BY <1>14 DEF DisconnectedFromControllerServiceCB, Goto
<1>15. ASSUME NEW c \in Controller, Announced(t, c) PROVE P
  BY <1>15 DEF Announced, Task_, Idle
<1>16. ASSUME NEW j \in joins, JoinSessionCB(t, j) PROVE P
  <2>1. events' = events
    BY <1>16 DEF JoinSessionCB
  <2>2. \/ sessions' = sessions
        \/ \E s : sessions' = sessions \cup {s} /\ s.sid \notin SidsInUse
    BY <1>16, JoinAnswered
  <2> QED
    BY <2>1, <2>2
<1>17. ASSUME NEW e \in events, SessionLost(t, e.sid) PROVE P
  BY <1>17 DEF SessionLost, Task_, Idle
<1>18. ASSUME NEW e \in events, OnSessionMemberRemoved(t, e.sid) PROVE P
  BY <1>18 DEF OnSessionMemberRemoved, Task_, Idle
<1> QED
  BY <1>1, <1>2, <1>3, <1>4, <1>5, <1>6, <1>7, <1>8, <1>9, <1>10, <1>11,
     <1>12, <1>13, <1>14, <1>15, <1>16, <1>17, <1>18 DEF Callback, Begins

\* Every step keeps EventEnds.
LEMMA EventEndsStep ==
  ASSUME TypeOK, AllFinite, SessionNames, EventEnds, [Next]_vars
  PROVE  EventEnds'
<1> USE DEF EventEnds, Open
<1>1. ASSUME NEW t \in Task, Callback(t) \/ Begins(t) PROVE EventEnds'
  <2>1. /\ events' \subseteq events
        /\ \/ sessions' \subseteq sessions
           \/ \E s : sessions' = sessions \cup {s} /\ s.sid \notin SidsInUse
    BY <1>1, SessionsMove
  <2>2. \A e \in events : e.sid \in SidsInUse
    BY DEF SidsInUse
  <2> QED
    BY <2>1, <2>2
<1>2. ASSUME NEW sid \in leaving, LeaveSession(sid) PROVE EventEnds'
  BY <1>2 DEF LeaveSession
<1>3. CASE Application
  BY <1>3 DEF Application, Stop, StopForgetsLeader, StopLeaves, StopClears,
     Start, busVars
<1>4. ASSUME NEW c \in Controller, Lead(c) PROVE EventEnds'
  BY <1>4 DEF Lead
<1>5. ASSUME NEW c \in Controller, NEW kind \in {"lost", "removed"},
             StepDown(c, kind) \/ Crash(c, kind)
      PROVE  EventEnds'
  <2> SUFFICES ASSUME NEW e \in events', NEW r \in sessions', r.sid = e.sid, r.open
               PROVE  FALSE
    OBVIOUS
  <2>1. PICK s \in sessions :
          /\ r.sid = s.sid
          /\ IF s.rank = c /\ s.open THEN r = [s EXCEPT !.open = FALSE] ELSE r = s
    BY <1>5, HostLeaves
  <2>2. s.open /\ s.rank # c
    BY <2>1 DEF TypeOK
  <2>3. e \in events \/ \E q \in sessions : q.rank = c /\ q.sid = e.sid
    BY <1>5 DEF StepDown, Crash, Leaves
  <2> QED
    BY <2>1, <2>2, <2>3 DEF SessionNames
<1>6. CASE UNCHANGED vars
  BY <1>6 DEF vars, busVars
<1> QED
  BY <1>1, <1>2, <1>3, <1>4, <1>5, <1>6 DEF Next, Step, World

\* An announcement in time finds the leader it was made beside.
LEMMA InsertFinds ==
  ASSUME TypeOK, Clean', NEW t \in Task, Insert(t)
  PROVE  /\ currentLeader' = currentLeader
         /\ currentLeader.entry = tasks[t].old /\ currentLeader.sid = tasks[t].sid
         /\ tasks[t].entry \in leadersMap'
         /\ leadersMap' \subseteq leadersMap \cup {tasks[t].entry}
         /\ Ranks \subseteq Ranks'
         /\ ~stopped
<1>1. currentLeader = [entry |-> tasks[t].old, sid |-> tasks[t].sid] /\ ~stopped
  BY DEF Insert, Clean, Without, Race, If
<1>2. currentLeader' = currentLeader /\ leadersMap' = Known(tasks[t].entry)
  BY DEF Insert
<1>3. Ranks \subseteq Ranks'
  BY <1>2 DEF Ranks, Known, OfRank
<1> QED
  BY <1>1, <1>2, <1>3 DEF Known

\* Which sessions callbacks leave.
LEMMA LeavingMoves ==
  ASSUME TypeOK, Clean', NEW t \in Task, Callback(t) \/ Begins(t)
  PROVE  \/ leaving' = leaving
         \/ /\ leaving' = leaving \cup {currentLeader.sid}
            /\ currentLeader' = currentLeader /\ Loses(t)'
         \/ /\ leaving' \subseteq leaving \cup {tasks[t].sid}
            /\ tasks[t].pc \in {"joined", "failed"}
            /\ tasks'[t].pc \in {"idle", "pick"}
<1> DEFINE P ==
         \/ leaving' = leaving
         \/ /\ leaving' = leaving \cup {currentLeader.sid}
            /\ currentLeader' = currentLeader /\ Loses(t)'
         \/ /\ leaving' \subseteq leaving \cup {tasks[t].sid}
            /\ tasks[t].pc \in {"joined", "failed"}
            /\ tasks'[t].pc \in {"idle", "pick"}
<1> USE DEF TypeOK, DoLeaveSessionAsync, Loses, clientVars
<1>1. CASE Insert(t)
  <2>1. currentLeader.sid = tasks[t].sid /\ currentLeader' = currentLeader
    BY <1>1, InsertFinds
  <2>2. \/ leaving' = leaving
        \/ /\ leaving' = leaving \cup {tasks[t].sid}
           /\ tasks'[t].pc = "lost" /\ tasks'[t].sid = tasks[t].sid
    BY <1>1 DEF Insert, Goto
  <2> QED
    BY <2>1, <2>2
<1>2. CASE Forget(t)
  BY <1>2 DEF Forget, Goto
<1>3. CASE Pick(t)
  BY <1>3 DEF Pick, Done, Idle, Task_
<1>4. CASE JoinSessionAsync(t)
  BY <1>4 DEF JoinSessionAsync, Goto
<1>5. CASE JoinSessionAsyncFails(t)
  BY <1>5 DEF JoinSessionAsyncFails, Goto, Done, Idle
<1>6. CASE Note(t)
  BY <1>6 DEF Note, Done, Idle
<1>7. CASE OnSessionJoined(t)
  BY <1>7 DEF OnSessionJoined, NotCurrent, Done, Idle, Goto, Task_
<1>8. CASE SetLinkTimeout(t)
  BY <1>8 DEF SetLinkTimeout, Goto
<1>9. CASE SetLinkTimeoutFails(t)
  BY <1>9 DEF SetLinkTimeoutFails, Goto
<1>10. CASE Unlink(t)
  BY <1>10 DEF Unlink, Cleared, Goto
<1>11. CASE ConnectedToControllerServiceCB(t)
  BY <1>11 DEF ConnectedToControllerServiceCB, Done, Idle
<1>12. CASE Failed(t)
  BY <1>12 DEF Failed, Cleared, Task_
<1>13. CASE OnSessionLost(t)
  BY <1>13 DEF OnSessionLost, Task_, Done, Idle
<1>14. CASE DisconnectedFromControllerServiceCB(t)
  BY <1>14 DEF DisconnectedFromControllerServiceCB, Goto
<1>15. ASSUME NEW c \in Controller, Announced(t, c) PROVE P
  BY <1>15 DEF Announced, Task_, Idle
<1>16. ASSUME NEW j \in joins, JoinSessionCB(t, j) PROVE P
  BY <1>16 DEF JoinSessionCB, Task_, Idle
<1>17. ASSUME NEW e \in events, SessionLost(t, e.sid) PROVE P
  BY <1>17 DEF SessionLost, Task_, Idle
<1>18. ASSUME NEW e \in events, OnSessionMemberRemoved(t, e.sid) PROVE P
  BY <1>18 DEF OnSessionMemberRemoved, Task_, Idle
<1> QED
  BY <1>1, <1>2, <1>3, <1>4, <1>5, <1>6, <1>7, <1>8, <1>9, <1>10, <1>11,
     <1>12, <1>13, <1>14, <1>15, <1>16, <1>17, <1>18 DEF Callback, Begins

\* Every step keeps NotLeft.
LEMMA NotLeftStep ==
  ASSUME TypeOK, TaskForm, AppForm, AllFinite, AppStops, SidOwned, NotLeft,
         [Next]_vars
  PROVE  NotLeft'
<1> SUFFICES ASSUME Clean' PROVE NotLeft'
  BY DEF NotLeft
<1>0. Clean
  BY CleanIsCalm
<1>1. ASSUME NEW t \in Task, Callback(t) \/ Begins(t) PROVE NotLeft'
  <2>1. (\A u \in Task \ {t} : tasks'[u] = tasks[u]) /\ app' = app
    BY <1>1, OneMoves
  <2>2. \/ tasks'[t].pc \notin {"joined", "failed"}
        \/ /\ tasks[t].pc = "joined" /\ tasks'[t].pc = "failed"
           /\ tasks'[t].sid = tasks[t].sid
        \/ /\ tasks'[t].pc = "joined"
           /\ tasks'[t].sid = 0 \/ tasks'[t].sid \notin SidsInUse
    BY <1>1, SidsMove
  <2>3. leaving \subseteq SidsInUse /\ app.sid \in SidsInUse
    BY DEF SidsInUse
  <2>4. CASE leaving' = leaving
    BY <1>0, <2>1, <2>2, <2>3, <2>4 DEF NotLeft
  <2>5. CASE leaving' = leaving \cup {currentLeader.sid} /\ Loses(t)'
    BY <1>0, <2>1, <2>5 DEF NotLeft, SidOwned, Loses
  <2>6. CASE /\ leaving' \subseteq leaving \cup {tasks[t].sid}
             /\ tasks[t].pc \in {"joined", "failed"}
             /\ tasks'[t].pc \in {"idle", "pick"}
    BY <1>0, <2>1, <2>6 DEF NotLeft, SidOwned
  <2> QED
    BY <1>1, <2>4, <2>5, <2>6, LeavingMoves
<1> USE DEF NotLeft
<1>2. ASSUME NEW sid \in leaving, LeaveSession(sid) PROVE NotLeft'
  BY <1>0, <1>2 DEF LeaveSession
<1>3. CASE World
  BY <1>0, <1>3 DEF World, Lead, Leaves, StepDown, Crash
<1>4. CASE Stop
  BY <1>0, <1>4 DEF Stop
<1>5. CASE StopForgetsLeader
  BY <1>0, <1>5 DEF StopForgetsLeader, SidOwned
<1>6. CASE StopLeaves
  BY <1>0, <1>6 DEF StopLeaves, DoLeaveSessionAsync
<1>7. CASE StopClears
  BY <1>0, <1>7 DEF StopClears
<1>8. CASE Start
  BY <1>0, <1>8 DEF Start
<1>9. CASE UNCHANGED vars
  BY <1>0, <1>9 DEF vars
<1> QED
  BY <1>1, <1>2, <1>3, <1>4, <1>5, <1>6, <1>7, <1>8, <1>9 DEF Next, Step,
     Application

\* Whoever loses the leader's session gives the leader up.
LEMMA LosesIt ==
  ASSUME TypeOK, NEW t \in Task, Callback(t) \/ Begins(t), Loses(t)
  PROVE  currentLeader' = NoLeader
<1>1. tasks[t].pc = "lost" /\ tasks[t].sid = currentLeader.sid
  BY DEF Loses
<1> QED
  BY <1>1, NextOf DEF OnSessionLost

\* While the leader stays the same, whoever loses it still does.
LEMMA StillLoses ==
  ASSUME TypeOK, NEW t \in Task, Callback(t) \/ Begins(t),
         currentLeader'.sid = currentLeader.sid, currentLeader' # NoLeader,
         \E u \in Task : Loses(u)
  PROVE  \E u \in Task : Loses(u)'
<1>1. PICK u \in Task : Loses(u)
  OBVIOUS
<1>2. u # t
  BY <1>1, LosesIt
<1>3. tasks'[u] = tasks[u]
  BY <1>2, OneMoves
<1> QED
  BY <1>1, <1>3 DEF Loses

\* Every step keeps LeaderLeft.
LEMMA LeaderLeftStep ==
  ASSUME TypeOK, TaskForm, AllFinite, AppStops, AppForm, EntryNames, OneSeeks,
         SidOwned, FliesOnce, OneAnswer, LeaderGone, NotLeft, LeaderLeft,
         [Next]_vars
  PROVE  LeaderLeft'
<1> SUFFICES ASSUME Clean', currentLeader'.sid # 0, currentLeader'.sid \in leaving'
             PROVE  \E t \in Task : Loses(t)'
  BY DEF LeaderLeft
<1>0. Clean /\ Orderly /\ Calm
  BY CleanIsCalm
<1>1. ASSUME NEW t \in Task, Callback(t) \/ Begins(t)
      PROVE  \E u \in Task : Loses(u)'
  <2>1. CASE currentLeader' = currentLeader
    <3>1. CASE currentLeader.sid \in leaving
      BY <1>0, <1>1, <2>1, <3>1, StillLoses DEF LeaderLeft, NoLeader
    <3>2. CASE currentLeader.sid \notin leaving
      BY <1>1, <2>1, <3>2, LeavingMoves DEF SidOwned
    <3> QED
      BY <3>1, <3>2
  <2>2. CASE OnSessionJoined(t) /\ currentLeader' # currentLeader
    <3>1. /\ currentLeader'.sid = tasks[t].sid /\ tasks[t].pc = "joined"
          /\ tasks'[t].pc = "link"
      BY <1>0, <2>2, FirstAnswer
    <3>2. leaving' = leaving
      BY <1>1, <3>1, LeavingMoves DEF Loses
    <3> QED
      BY <1>0, <3>1, <3>2 DEF NotLeft
  <2>3. CASE Note(t) /\ currentLeader'.sid = currentLeader.sid
    <3>1. currentLeader.sid = 0
      BY <1>0, <2>3 DEF Note, OneSeeks, NoLeader
    <3> QED
      BY <2>3, <3>1
  <2> QED
    BY <1>1, <2>1, <2>2, <2>3, LeaderMoves DEF NoLeader
<1>2. CASE ~\E t \in Task : Callback(t) \/ Begins(t)
  <2>1. tasks' = tasks /\ currentLeader' = currentLeader
    BY <1>2, Elsewhere DEF NoLeader
  <2>2. currentLeader.sid \in leaving
    <3>1. ASSUME NEW sid \in leaving, LeaveSession(sid) PROVE leaving' \subseteq leaving
      BY <3>1 DEF LeaveSession
    <3>2. CASE World
      BY <2>1, <3>2 DEF World, Lead, Leaves, StepDown, Crash
    <3>3. CASE Stop \/ StopForgetsLeader \/ StopClears \/ Start
      BY <2>1, <3>3 DEF Stop, StopForgetsLeader, StopClears, Start
    <3>4. CASE StopLeaves
      <4>1. currentLeader.sid = 0
        BY <1>0, <3>4 DEF StopLeaves, LeaderGone, AppStops, NoLeader
      <4> QED
        BY <2>1, <4>1
    <3>5. CASE UNCHANGED vars
      BY <2>1, <3>5 DEF vars
    <3> QED
      BY <1>2, <2>1, <3>1, <3>2, <3>3, <3>4, <3>5 DEF Next, Step, Application
  <2> QED
    BY <1>0, <2>1, <2>2 DEF LeaderLeft, Loses
<1> QED
  BY <1>1, <1>2

\* Every step keeps LeaderOpen.
LEMMA LeaderOpenStep ==
  ASSUME TypeOK, TaskForm, AllFinite, AppStops, EntryNames, OneSeeks, SidOwned,
         FliesOnce, OneAnswer, LeaderLeft, LeaderOpen, [Next]_vars
  PROVE  LeaderOpen'
<1> DEFINE P == \/ Open(currentLeader.sid)'
                \/ \E e \in events' : e.sid = currentLeader'.sid
                \/ \E u \in Task :
                     \/ Loses(u)'
                     \/ /\ tasks'[u].pc = "unlink"
                        /\ tasks'[u].sid = currentLeader'.sid
<1> SUFFICES ASSUME Clean', currentLeader'.sid # 0 PROVE P
  BY DEF LeaderOpen
<1>0. Clean /\ Orderly /\ Calm
  BY CleanIsCalm
<1>1. ASSUME NEW t \in Task, Callback(t) \/ Begins(t) PROVE P
  <2>0. \A u \in Task \ {t} : tasks'[u] = tasks[u]
    BY <1>1, OneMoves
  <2>1. CASE currentLeader' = currentLeader
    <3>1. CASE Open(currentLeader.sid)
      <4>1. sessions \subseteq sessions' \/ SetLinkTimeoutFails(t)
        BY <1>1 DEF Callback, Begins, Insert, Forget, Pick, JoinSessionAsync,
           JoinSessionAsyncFails, Note, OnSessionJoined, SetLinkTimeout, Unlink,
           ConnectedToControllerServiceCB, Failed, OnSessionLost,
           DisconnectedFromControllerServiceCB, Announced, JoinSessionCB,
           SessionLost, OnSessionMemberRemoved, busVars
      <4>2. CASE sessions \subseteq sessions'
        BY <2>1, <3>1, <4>2 DEF Open
      <4>3. CASE SetLinkTimeoutFails(t) /\ tasks[t].sid = currentLeader.sid
        <5>1. /\ tasks'[t].pc = "unlink" /\ tasks'[t].sid = tasks[t].sid
          BY <4>3 DEF TypeOK, SetLinkTimeoutFails, Goto
        <5> QED
          BY <2>1, <4>3, <5>1
      <4>4. CASE SetLinkTimeoutFails(t) /\ tasks[t].sid # currentLeader.sid
        BY <2>1, <3>1, <4>4 DEF Open, SetLinkTimeoutFails
      <4> QED
        BY <4>1, <4>2, <4>3, <4>4
    <3>2. ASSUME NEW e \in events, e.sid = currentLeader.sid PROVE P
      <4>1. \/ events' = events
            \/ \E f \in events : SessionLost(t, f.sid) \/ OnSessionMemberRemoved(t, f.sid)
        BY <1>1 DEF Callback, Begins, Insert, Forget, Pick, JoinSessionAsync,
           JoinSessionAsyncFails, Note, OnSessionJoined, SetLinkTimeout,
           SetLinkTimeoutFails, Unlink,
           ConnectedToControllerServiceCB, Failed, OnSessionLost,
           DisconnectedFromControllerServiceCB, Announced, JoinSessionCB, busVars
      <4>2. ASSUME NEW f \in events, SessionLost(t, f.sid), e \notin events'
            PROVE  tasks'[t].pc = "lost" /\ tasks'[t].sid = e.sid
        BY <4>2 DEF TypeOK, SessionLost, Task_
      <4>3. ASSUME NEW f \in events, OnSessionMemberRemoved(t, f.sid), e \notin events'
            PROVE  tasks'[t].pc = "lost" /\ tasks'[t].sid = e.sid
        BY <3>2, <4>3 DEF TypeOK, OnSessionMemberRemoved, Task_
      <4> QED
        BY <2>1, <3>2, <4>1, <4>2, <4>3 DEF Loses
    <3>3. CASE \E u \in Task : Loses(u)
      BY <1>1, <2>1, <3>3, StillLoses DEF NoLeader
    <3>4. ASSUME NEW u \in Task, tasks[u].pc = "unlink",
                 tasks[u].sid = currentLeader.sid
          PROVE  P
      <4>1. currentLeader' # NoLeader
        BY DEF NoLeader
      <4>2. ~Unlink(t)
        BY <4>1 DEF Unlink, Cleared
      <4>3. u # t
        BY <1>1, <3>4, <4>2, NextOf
      <4> QED
        BY <2>0, <2>1, <3>4, <4>3
    <3> HIDE DEF P
    <3> QED
      BY <1>0, <2>1, <3>1, <3>2, <3>3, <3>4 DEF LeaderOpen
  <2>2. CASE OnSessionJoined(t) /\ currentLeader' # currentLeader
    <3>1. currentLeader'.sid = tasks[t].sid
      BY <1>0, <2>2, FirstAnswer
    <3>2. Open(tasks[t].sid) /\ sessions' = sessions
      BY <2>2 DEF OnSessionJoined, NotCurrent, busVars
    <3> QED
      BY <3>1, <3>2 DEF Open
  <2>3. CASE Note(t) /\ currentLeader'.sid = currentLeader.sid
    BY <1>0, <2>3 DEF Note, OneSeeks, NoLeader
  <2> QED
    BY <1>1, <2>1, <2>2, <2>3, LeaderMoves DEF NoLeader
<1>2. CASE ~\E t \in Task : Callback(t) \/ Begins(t)
  <2>1. tasks' = tasks /\ currentLeader' = currentLeader
    BY <1>2, Elsewhere DEF NoLeader
  <2>2. CASE \E t \in Task : \/ Loses(t)
                             \/ /\ tasks[t].pc = "unlink"
                                /\ tasks[t].sid = currentLeader.sid
    BY <2>1, <2>2 DEF Loses
  <2>3. CASE ~\E t \in Task : \/ Loses(t)
                              \/ /\ tasks[t].pc = "unlink"
                                 /\ tasks[t].sid = currentLeader.sid
    <3>1. Open(currentLeader.sid) \/ \E e \in events : e.sid = currentLeader.sid
      BY <1>0, <2>1, <2>3 DEF LeaderOpen
    <3>2. currentLeader.sid \notin leaving
      BY <1>0, <2>1, <2>3 DEF LeaderLeft
    <3>3. ASSUME NEW sid \in leaving, LeaveSession(sid) PROVE P
      BY <2>1, <3>1, <3>2, <3>3 DEF LeaveSession, Open
    <3>4. CASE Application
      <4>1. sessions' = sessions /\ events' = events
        BY <3>4 DEF Application, Stop, StopForgetsLeader, StopLeaves, StopClears,
           Start, busVars
      <4> QED
        BY <2>1, <3>1, <4>1 DEF Open
    <3>5. ASSUME NEW c \in Controller, Lead(c) PROVE P
      BY <2>1, <3>1, <3>5 DEF Lead, Open
    <3>6. ASSUME NEW c \in Controller, NEW kind \in {"lost", "removed"},
                 StepDown(c, kind) \/ Crash(c, kind)
          PROVE  P
      <4> DEFINE of == {s \in sessions : s.rank = c /\ s.open}
      <4>1. /\ events' = events \cup {[kind |-> kind, sid |-> s.sid] : s \in of}
            /\ sessions \ of \subseteq sessions'
        BY <3>6 DEF StepDown, Crash, Leaves
      <4>2. CASE \E e \in events : e.sid = currentLeader.sid
        BY <2>1, <4>1, <4>2
      <4>3. CASE \E s \in of : s.sid = currentLeader.sid
        <5>1. PICK s \in of : s.sid = currentLeader.sid
          BY <4>3
        <5>2. [kind |-> kind, sid |-> s.sid] \in events'
          BY <4>1
        <5> QED
          BY <2>1, <5>1, <5>2
      <4>4. CASE \E s \in sessions \ of : s.sid = currentLeader.sid /\ s.open
        BY <2>1, <4>1, <4>4 DEF Open
      <4> QED
        BY <3>1, <4>2, <4>3, <4>4 DEF Open
    <3>7. CASE UNCHANGED vars
      BY <2>1, <3>1, <3>7 DEF vars, busVars, Open
    <3> QED
      BY <1>2, <3>3, <3>4, <3>5, <3>6, <3>7 DEF Next, Step, World
  <2> QED
    BY <2>2, <2>3
<1> QED
  BY <1>1, <1>2

\* Every step keeps LinksLeader.
LEMMA LinksLeaderStep ==
  ASSUME TypeOK, TaskForm, AllFinite, AppStops, EntryNames, OneSeeks, SidOwned,
         SidOwned', FliesOnce, OneAnswer, LinksLeader, [Next]_vars
  PROVE  LinksLeader'
<1> SUFFICES ASSUME Clean', NEW u \in Task, SetsUp(u)'
             PROVE  tasks'[u].entry = currentLeader'.entry
  BY DEF LinksLeader
<1>0. Clean /\ Orderly /\ Calm
  BY CleanIsCalm
<1>1. currentLeader'.sid # 0
  BY DEF SidOwned, SetsUp
<1>2. ASSUME NEW t \in Task, Callback(t) \/ Begins(t)
      PROVE  tasks'[u].entry = currentLeader'.entry
  <2>0. \A v \in Task \ {t} : tasks'[v] = tasks[v]
    BY <1>2, OneMoves
  <2>a. \/ tasks'[t].pc \notin {"link", "unlink", "connected"}
        \/ /\ tasks[t].pc = "joined" /\ tasks'[t].pc = "link"
           /\ tasks'[t].sid = tasks[t].sid /\ tasks[t].sid # 0
           /\ tasks'[t].entry = tasks[t].entry
        \/ /\ tasks[t].pc = "link" /\ tasks'[t].pc \in {"unlink", "connected"}
           /\ tasks'[t].sid = tasks[t].sid /\ tasks'[t].entry = tasks[t].entry
    BY <1>2, SidsMove
  <2>1. CASE currentLeader' = currentLeader
    <3>1. CASE u # t
      BY <1>0, <2>0, <2>1, <3>1 DEF LinksLeader, SetsUp
    <3>2. CASE u = t
      <4>1. tasks[t].pc = "link"
        BY <2>a, <2>1, <3>2 DEF SidOwned, SetsUp
      <4> QED
        BY <1>0, <2>a, <2>1, <3>2, <4>1 DEF LinksLeader, SetsUp
    <3> QED
      BY <3>1, <3>2
  <2>2. CASE OnSessionJoined(t) /\ currentLeader' # currentLeader
    <3>1. /\ currentLeader.entry = tasks[t].entry
          /\ currentLeader'.entry = currentLeader.entry
          /\ currentLeader'.sid = tasks[t].sid
          /\ tasks[t].pc = "joined" /\ tasks'[t].pc = "link"
      BY <1>0, <2>2, FirstAnswer
    <3>2. u = t
      BY <2>0, <2>a, <3>1 DEF SetsUp, SidOwned
    <3> QED
      BY <2>a, <3>1, <3>2
  <2>3. CASE Note(t) /\ currentLeader'.sid = currentLeader.sid
    BY <1>0, <1>1, <2>3 DEF Note, OneSeeks, NoLeader
  <2> QED
    BY <1>1, <1>2, <2>1, <2>2, <2>3, LeaderMoves DEF NoLeader
<1>3. CASE ~\E t \in Task : Callback(t) \/ Begins(t)
  <2>1. tasks' = tasks /\ currentLeader' = currentLeader
    BY <1>1, <1>3, Elsewhere DEF NoLeader
  <2> QED
    BY <1>0, <2>1 DEF LinksLeader, SetsUp
<1> QED
  BY <1>2, <1>3

\* Every step keeps Losing.
LEMMA LosingStep ==
  ASSUME TypeOK, TaskForm, AppStops, OneSeeks, Losing, [Next]_vars
  PROVE  Losing'
<1> DEFINE P == /\ currentLeader' = NoLeader
                /\ \A v \in Task : tasks'[v].pc \notin {"join", "note"}
<1> SUFFICES ASSUME Clean', NEW u \in Task, tasks'[u].pc = "disconnected"
             PROVE  P
  BY DEF Losing
<1>0. Clean /\ Orderly /\ Calm
  BY CleanIsCalm
<1>1. ASSUME NEW t \in Task, Callback(t) \/ Begins(t) PROVE P
  <2>0. \A v \in Task \ {t} : tasks'[v] = tasks[v]
    BY <1>1, OneMoves
  <2>1. CASE u # t
    <3>1. /\ tasks[u].pc = "disconnected" /\ currentLeader = NoLeader
          /\ \A v \in Task : tasks[v].pc \notin {"join", "note"}
      BY <1>0, <2>0, <2>1 DEF Losing
    <3>2. currentLeader' = NoLeader
      BY <1>1, <3>1, LeaderMoves
    <3>3. ~(Pick(t) /\ ~stopped)
      BY <2>1, <3>1 DEF Pick, Clean, Without, Race, If
    <3>4. tasks'[t].pc \notin {"join", "note"}
      BY <1>1, <3>1, <3>3, ComesTo DEF JoinSessionAsync
    <3> QED
      BY <2>0, <3>1, <3>2, <3>4
  <2>2. CASE u = t
    <3>1. OnSessionLost(t)
      BY <1>1, <2>2, ComesTo
    <3>2. /\ currentLeader' = NoLeader /\ tasks[t].pc = "lost"
          /\ currentLeader.sid = tasks[t].sid
      BY <2>2, <3>1 DEF TypeOK, OnSessionLost, Done, Idle
    <3>3. currentLeader # NoLeader
      BY <3>2 DEF TaskForm, NoLeader
    <3>4. \A v \in Task : tasks[v].pc \notin {"join", "note"}
      BY <1>0, <3>3 DEF OneSeeks
    <3> QED
      BY <2>0, <2>2, <3>2, <3>4
  <2> QED
    BY <2>1, <2>2
<1>2. CASE ~\E t \in Task : Callback(t) \/ Begins(t)
  <2>1. tasks' = tasks /\ currentLeader' \in {currentLeader, NoLeader}
    BY <1>2, Elsewhere
  <2> QED
    BY <1>0, <2>1 DEF Losing
<1> QED
  BY <1>1, <1>2

\* Every step keeps ToldOfLeader.
LEMMA ToldOfLeaderStep ==
  ASSUME TypeOK, TaskForm, AllFinite, AppStops, EntryNames, OneSeeks, SidOwned,
         FliesOnce, OneAnswer, LeaderGone, LinksLeader, Losing, ToldOfLeader,
         [Next]_vars
  PROVE  ToldOfLeader'
<1> DEFINE P == view' = currentLeader'.entry.rank \/ \E u \in Task : SetsUp(u)'
<1> SUFFICES ASSUME Clean', currentLeader'.sid # 0 PROVE P
  BY DEF ToldOfLeader
<1>0. Clean /\ Orderly /\ Calm
  BY CleanIsCalm
<1>1. ASSUME NEW t \in Task, Callback(t) \/ Begins(t) PROVE P
  <2>0. \A u \in Task \ {t} : tasks'[u] = tasks[u]
    BY <1>1, OneMoves
  <2>1. CASE currentLeader' = currentLeader
    <3>1. CASE ConnectedToControllerServiceCB(t)
      <4>1. SetsUp(t) /\ view' = tasks[t].entry.rank
        BY <3>1 DEF ConnectedToControllerServiceCB, SetsUp, Clean, Without, Race, If
      <4> QED
        BY <1>0, <2>1, <4>1 DEF LinksLeader
    <3>2. CASE DisconnectedFromControllerServiceCB(t)
      <4>1. currentLeader = NoLeader
        BY <1>0, <3>2 DEF DisconnectedFromControllerServiceCB, Losing
      <4> QED
        BY <2>1, <4>1 DEF NoLeader
    <3>3. CASE ~(\/ ConnectedToControllerServiceCB(t)
                 \/ DisconnectedFromControllerServiceCB(t))
      <4>1. view' = view
        BY <1>1, <3>3 DEF Callback, Begins, Insert, Forget, Pick, JoinSessionAsync,
           JoinSessionAsyncFails, Note, OnSessionJoined, SetLinkTimeout,
           SetLinkTimeoutFails, Unlink, Failed, OnSessionLost, Announced,
           JoinSessionCB, SessionLost, OnSessionMemberRemoved
      <4>2. ASSUME SetsUp(t) PROVE SetsUp(t)'
        <5>1. ~Unlink(t)
          <6>1. currentLeader' # NoLeader
            BY DEF NoLeader
          <6> QED
            BY <6>1 DEF Unlink, Cleared
        <5>2. tasks[t].pc = "link"
          BY <1>1, <3>3, <4>2, <5>1, NextOf DEF SetsUp
        <5>3. SetLinkTimeout(t) \/ SetLinkTimeoutFails(t)
          BY <1>1, <5>2, NextOf
        <5>4. /\ tasks'[t].pc \in {"unlink", "connected"}
              /\ tasks'[t].sid = tasks[t].sid
          BY <5>3 DEF TypeOK, SetLinkTimeout, SetLinkTimeoutFails, Goto
        <5> QED
          BY <2>1, <4>2, <5>4 DEF SetsUp
      <4>3. ASSUME NEW u \in Task, SetsUp(u) PROVE SetsUp(u)'
        BY <2>0, <2>1, <4>2, <4>3 DEF SetsUp
      <4> QED
        BY <1>0, <2>1, <4>1, <4>3 DEF ToldOfLeader
    <3> QED
      BY <3>1, <3>2, <3>3
  <2>2. CASE OnSessionJoined(t) /\ currentLeader' # currentLeader
    <3>1. /\ currentLeader'.sid = tasks[t].sid /\ tasks'[t].pc = "link"
          /\ tasks'[t].sid = tasks[t].sid
      BY <1>0, <2>2, FirstAnswer
    <3> QED
      BY <3>1 DEF SetsUp
  <2>3. CASE Note(t) /\ currentLeader'.sid = currentLeader.sid
    BY <1>0, <2>3 DEF Note, OneSeeks, NoLeader
  <2> QED
    BY <1>1, <2>1, <2>2, <2>3, LeaderMoves DEF NoLeader
<1>2. CASE ~\E t \in Task : Callback(t) \/ Begins(t)
  <2>1. tasks' = tasks /\ currentLeader' = currentLeader
    BY <1>2, Elsewhere DEF NoLeader
  <2>2. view' = view
    <3>1. ~StopLeaves
      BY <1>0, <2>1 DEF StopLeaves, LeaderGone, AppStops, NoLeader
    <3>2. ASSUME NEW sid \in leaving, LeaveSession(sid) PROVE view' = view
      BY <3>2 DEF LeaveSession
    <3> QED
      BY <1>2, <3>1, <3>2 DEF Next, Step, Application, Stop, StopForgetsLeader,
         StopClears, Start, World, Lead, Leaves, StepDown, Crash, vars
  <2> QED
    BY <1>0, <2>1, <2>2 DEF ToldOfLeader, SetsUp
<1> QED
  BY <1>1, <1>2

\* Every step keeps PicksHighest.
LEMMA PicksHighestStep ==
  ASSUME TypeOK, AppStops, OneSeeks, PicksHighest, [Next]_vars
  PROVE  PicksHighest'
<1> DEFINE P(u) == /\ tasks'[u].entry.rank \in Ranks'
                   /\ \A f \in leadersMap' : f.rank <= tasks'[u].entry.rank
<1> SUFFICES ASSUME Clean', ~stopped', NEW u \in Task,
                    tasks'[u].pc \in {"join", "note"}
             PROVE  P(u)
  BY DEF PicksHighest
<1>0. Clean /\ Orderly /\ Calm
  BY CleanIsCalm
<1>1. ASSUME NEW t \in Task, Callback(t) \/ Begins(t) PROVE P(u)
  <2>0. (\A v \in Task \ {t} : tasks'[v] = tasks[v]) /\ ~stopped
    BY <1>1, OneMoves
  <2>1. CASE u # t
    <3>1. tasks[u].pc \in {"join", "note"} /\ tasks'[u] = tasks[u]
      BY <2>0, <2>1
    <3>2. ~Seeks(t)
      BY <1>0, <2>1, <3>1 DEF OneSeeks, Seeks
    <3>3. ~Insert(t)
      BY <2>1, <3>1 DEF Insert, Joiners, Clean, Without, Race, If
    <3>4. leadersMap' = leadersMap
      BY <1>1, <3>2, <3>3, MapMoves DEF Seeks, Pick, JoinSessionAsyncFails
    <3> QED
      BY <1>0, <2>0, <3>1, <3>4 DEF PicksHighest, Ranks
  <2>2. CASE u = t /\ tasks'[t].pc = "join"
    <3>1. Pick(t) /\ ~stopped
      BY <1>1, <2>2, ComesTo
    <3>2. /\ tasks'[t].entry \in leadersMap'
          /\ \A f \in leadersMap' : f.rank <= tasks'[t].entry.rank
      BY <2>2, <3>1 DEF TypeOK, Pick, Task_, Done, Idle
    <3> QED
      BY <2>2, <3>2 DEF Ranks
  <2>3. CASE u = t /\ tasks'[t].pc = "note"
    <3>1. JoinSessionAsync(t) /\ tasks'[t].entry = tasks[t].entry
      BY <1>1, <2>3, ComesTo
    <3>2. tasks[t].pc = "join" /\ leadersMap' = leadersMap
      BY <3>1 DEF JoinSessionAsync, clientVars
    <3> QED
      BY <1>0, <2>0, <2>3, <3>1, <3>2 DEF PicksHighest, Ranks
  <2> QED
    BY <2>1, <2>2, <2>3
<1>2. CASE ~\E t \in Task : Callback(t) \/ Begins(t)
  <2>1. /\ tasks' = tasks
        /\ Start \/ (stopped' = stopped /\ leadersMap' = leadersMap)
    BY <1>2, Elsewhere
  <2>2. ~Start
    BY <2>1 DEF Start, Idle
  <2> QED
    BY <1>0, <2>1, <2>2 DEF PicksHighest, Ranks
<1> QED
  BY <1>1, <1>2

\* While there is a leader, no entry is struck out.
LEMMA KeptWithLeader ==
  ASSUME TypeOK, OneSeeks, Clean, Clean', NEW t \in Task, Callback(t) \/ Begins(t),
         currentLeader # NoLeader
  PROVE  leadersMap' = leadersMap \/ Insert(t)
<1>1. ~(Pick(t) /\ ~stopped)
  BY DEF Pick, Clean, Without, Race, If
<1>2. ~JoinSessionAsyncFails(t)
  BY CleanIsCalm DEF JoinSessionAsyncFails, OneSeeks
<1> QED
  BY <1>1, <1>2, MapMoves

\* Every step keeps LeaderKnown.
LEMMA LeaderKnownStep ==
  ASSUME TypeOK, TaskForm, AppStops, OneSeeks, LeaderGone, LeaderNamed,
         PicksHighest, LeaderKnown, [Next]_vars
  PROVE  LeaderKnown'
<1> SUFFICES ASSUME Clean', ~stopped', currentLeader'.entry # NoEntry
             PROVE  currentLeader'.entry.rank \in Ranks'
  BY DEF LeaderKnown
<1>0. Clean /\ Orderly /\ Calm
  BY CleanIsCalm
<1>1. ASSUME NEW t \in Task, Callback(t) \/ Begins(t)
      PROVE  currentLeader'.entry.rank \in Ranks'
  <2>0. ~stopped
    BY <1>1, OneMoves
  <2>1. CASE Note(t) /\ currentLeader'.entry = tasks[t].entry
    BY <1>0, <2>0, <2>1 DEF Note, PicksHighest, Ranks
  <2>2. CASE currentLeader'.entry = currentLeader.entry
    <3>1. currentLeader # NoLeader
      BY <2>2 DEF NoLeader
    <3>2. Ranks \subseteq Ranks'
      BY <1>0, <1>1, <3>1, KeptWithLeader, InsertFinds DEF Ranks
    <3> QED
      BY <1>0, <2>0, <2>2, <3>2 DEF LeaderKnown
  <2> QED
    BY <1>1, <2>1, <2>2, LeaderMoves DEF NoLeader
<1>2. CASE ~\E t \in Task : Callback(t) \/ Begins(t)
  <2>1. /\ currentLeader' = currentLeader
        /\ Start \/ (stopped' = stopped /\ leadersMap' = leadersMap)
    BY <1>2, Elsewhere DEF NoLeader
  <2>2. ~Start
    BY <1>0, <2>1 DEF Start, LeaderGone, NoLeader
  <2> QED
    BY <1>0, <2>1, <2>2 DEF LeaderKnown, Ranks
<1> QED
  BY <1>1, <1>2

\* Every step keeps LeaderHighest: a higher announcement sends its callback to
\* give the leader up.
LEMMA LeaderHighestStep ==
  ASSUME TypeOK, TaskForm, AllFinite, AppStops, EntryNames, OneSeeks, FliesOnce,
         OneAnswer, LeaderGone, PicksHighest, LeaderHighest, [Next]_vars
  PROVE  LeaderHighest'
<1> DEFINE P == \/ \A f \in leadersMap' : f.rank <= currentLeader'.entry.rank
                \/ \E u \in Task : Loses(u)'
                \/ \E u \in Task : /\ tasks'[u].pc = "forget"
                                  /\ tasks'[u].old = currentLeader'.entry
<1> SUFFICES ASSUME Clean', ~stopped', currentLeader'.entry # NoEntry PROVE P
  BY DEF LeaderHighest
<1>0. Clean /\ Orderly /\ Calm
  BY CleanIsCalm
<1>1. ASSUME NEW t \in Task, Callback(t) \/ Begins(t) PROVE P
  <2>0. (\A u \in Task \ {t} : tasks'[u] = tasks[u]) /\ ~stopped
    BY <1>1, OneMoves
  <2>1. CASE Note(t) /\ currentLeader'.entry = tasks[t].entry
    BY <1>0, <2>0, <2>1 DEF Note, PicksHighest
  <2>2. CASE OnSessionJoined(t) /\ currentLeader' # currentLeader
    <3>1. /\ currentLeader'.entry = currentLeader.entry
          /\ currentLeader.sid = 0 /\ tasks[t].pc = "joined"
      BY <1>0, <2>2, FirstAnswer
    <3>2. leadersMap' = leadersMap
      BY <2>2 DEF OnSessionJoined
    <3>3. ~\E u \in Task : Loses(u)
      BY <3>1 DEF Loses, TaskForm
    <3> QED
      BY <1>0, <2>0, <3>1, <3>2, <3>3 DEF LeaderHighest
  <2>3. CASE currentLeader' = currentLeader
    <3>1. currentLeader # NoLeader
      BY <2>3 DEF NoLeader
    <3>2. CASE \E u \in Task : Loses(u)
      BY <1>1, <2>3, <3>1, <3>2, StillLoses
    <3>3. ASSUME NEW u \in Task, tasks[u].pc = "forget",
                 tasks[u].old = currentLeader.entry
          PROVE  P
      <4>1. u # t
        BY <1>1, <2>3, <3>1, <3>3, NextOf DEF Forget
      <4> QED
        BY <2>0, <2>3, <3>3, <4>1
    <3>4. CASE \A f \in leadersMap : f.rank <= currentLeader.entry.rank
      <4>1. CASE leadersMap' = leadersMap
        BY <2>3, <3>4, <4>1
      <4>2. CASE Insert(t)
        <5>1. /\ currentLeader.entry = tasks[t].old
              /\ currentLeader.sid = tasks[t].sid
              /\ leadersMap' \subseteq leadersMap \cup {tasks[t].entry}
          BY <4>2, InsertFinds
        <5>2. CASE tasks[t].entry.rank <= tasks[t].old.rank
          BY <2>3, <3>4, <5>1, <5>2
        <5>3. CASE /\ tasks[t].old.rank \in 1..(tasks[t].entry.rank - 1)
                   /\ tasks[t].sid # 0 /\ Goto(t, "lost")
          <6>1. Loses(t)'
            BY <2>3, <5>1, <5>3 DEF TypeOK, Goto, Loses
          <6> QED
            BY <6>1
        <5>4. CASE /\ tasks[t].old.rank \in 1..(tasks[t].entry.rank - 1)
                   /\ tasks[t].sid = 0 /\ Goto(t, "forget")
          <6>1. tasks'[t].pc = "forget" /\ tasks'[t].old = tasks[t].old
            BY <5>4 DEF TypeOK, Goto
          <6> QED
            BY <2>3, <5>1, <6>1
        <5>5. tasks[t].old.rank # 0
          BY <2>3, <5>1, ClientConnectionAssumption DEF TypeOK, Entry, NoEntry
        <5> HIDE DEF P
        <5> QED
          BY <4>2, <5>2, <5>3, <5>4, <5>5 DEF Insert
      <4> QED
        BY <1>0, <1>1, <3>1, <4>1, <4>2, KeptWithLeader
    <3> HIDE DEF P
    <3> QED
      BY <1>0, <2>0, <2>3, <3>2, <3>3, <3>4 DEF LeaderHighest
  <2> QED
    BY <1>1, <2>1, <2>2, <2>3, LeaderMoves DEF NoLeader
<1>2. CASE ~\E t \in Task : Callback(t) \/ Begins(t)
  <2>1. /\ currentLeader' = currentLeader /\ tasks' = tasks
        /\ Start \/ (stopped' = stopped /\ leadersMap' = leadersMap)
    BY <1>2, Elsewhere DEF NoLeader
  <2>2. ~Start
    BY <1>0, <2>1 DEF Start, LeaderGone, NoLeader
  <2> QED
    BY <1>0, <2>1, <2>2 DEF LeaderHighest, Loses
<1> QED
  BY <1>1, <1>2

\* Every step keeps Sought.
LEMMA SoughtStep ==
  ASSUME TypeOK, TaskForm, AppStops, LeaderNamed, StopEmpties, Sought, [Next]_vars
  PROVE  Sought'
<1> DEFINE P == \E u \in Task : Seeks(u)' \/ tasks'[u].pc = "disconnected"
<1> SUFFICES ASSUME Clean', ~stopped', currentLeader' = NoLeader,
                    leadersMap' # {}
             PROVE  P
  BY DEF Sought
<1>0. Clean
  BY CleanIsCalm
<1>1. ASSUME NEW t \in Task, Callback(t) \/ Begins(t) PROVE P
  <2>0. (\A u \in Task \ {t} : tasks'[u] = tasks[u]) /\ ~stopped
    BY <1>1, OneMoves
  <2>1. CASE Insert(t)
    <3>1. tasks[t].old = NoEntry
      BY <2>1, InsertFinds DEF NoLeader
    <3>2. tasks[t].entry.rank \in Nat \ {0}
      <4>1. tasks[t].entry \in Entry \ {NoEntry}
        BY <2>1 DEF TypeOK, TaskForm, Insert
      <4> QED
        BY <4>1, ClientConnectionAssumption DEF Entry
    <3>3. tasks[t].old.rank = 0
      BY <3>1 DEF NoEntry
    <3>4. Goto(t, "pick")
      BY <2>1, <3>2, <3>3 DEF Insert
    <3> QED
      BY <3>4 DEF TypeOK, Goto, Seeks
  <2>2. CASE Forget(t) \/ Unlink(t) \/ DisconnectedFromControllerServiceCB(t)
    BY <2>2 DEF TypeOK, Forget, Unlink, DisconnectedFromControllerServiceCB, Goto,
       Seeks
  <2>3. CASE Failed(t)
    BY <2>3 DEF TypeOK, Failed, Task_, Seeks
  <2>4. CASE JoinSessionAsync(t)
    BY <2>4 DEF TypeOK, JoinSessionAsync, Goto, Seeks
  <2>5. CASE JoinSessionAsyncFails(t)
    BY <2>5 DEF TypeOK, JoinSessionAsyncFails, Goto, Seeks
  <2>6. CASE Pick(t)
    BY <2>0, <2>6 DEF TypeOK, Pick, Task_, Seeks
  <2>7. CASE OnSessionLost(t) /\ tasks'[t].pc = "disconnected"
    BY <2>7
  <2>8. CASE ~(\/ Insert(t) \/ Forget(t) \/ Unlink(t) \/ Failed(t) \/ Pick(t)
               \/ DisconnectedFromControllerServiceCB(t)
               \/ JoinSessionAsync(t) \/ JoinSessionAsyncFails(t)
               \/ (OnSessionLost(t) /\ tasks'[t].pc = "disconnected"))
    <3>1. leadersMap' = leadersMap
      BY <1>1, <2>8, MapMoves
    <3>2. currentLeader = NoLeader
      <4>1. CASE OnSessionLost(t)
        <5>1. \/ tasks'[t].pc = "disconnected"
              \/ currentLeader' = currentLeader
          BY <4>1 DEF TypeOK, OnSessionLost, Task_
        <5> QED
          BY <2>8, <4>1, <5>1
      <4>2. CASE OnSessionJoined(t)
        <5>1. currentLeader'.entry = currentLeader.entry
          BY <4>2 DEF TypeOK, OnSessionJoined, NotCurrent
        <5> QED
          BY <5>1 DEF LeaderNamed, TypeOK, NoLeader
      <4>3. CASE Note(t)
        BY <4>3 DEF TypeOK, TaskForm, Note, NoLeader
      <4>4. CASE ~(OnSessionLost(t) \/ OnSessionJoined(t) \/ Note(t))
        BY <1>1, <2>8, <4>4 DEF Callback, Begins, SetLinkTimeout,
           SetLinkTimeoutFails, ConnectedToControllerServiceCB, Announced,
           JoinSessionCB, SessionLost, OnSessionMemberRemoved, clientVars
      <4> QED
        BY <4>1, <4>2, <4>3, <4>4
    <3>3. ~Note(t)
      BY DEF TypeOK, TaskForm, Note, NoLeader
    <3>4. tasks[t].pc \notin {"pick", "join", "note", "disconnected"}
      <4>1. tasks[t].pc \notin {"pick", "disconnected"}
        BY <1>1, <2>8, NextOf
      <4>2. tasks[t].pc # "idle" => ~Begins(t)
        <5>1. tasks[t].pc # "idle" => tasks[t] # Idle
          BY DEF Idle
        <5> QED
          BY <5>1 DEF Begins, Announced, JoinSessionCB, SessionLost,
             OnSessionMemberRemoved
      <4> QED
        BY <1>1, <2>8, <3>3, <4>1, <4>2 DEF Callback, OnSessionJoined,
           SetLinkTimeout, SetLinkTimeoutFails, ConnectedToControllerServiceCB,
           OnSessionLost
    <3>5. PICK u \in Task : Seeks(u) \/ tasks[u].pc = "disconnected"
      BY <1>0, <2>0, <3>1, <3>2 DEF Sought
    <3> QED
      BY <2>0, <3>4, <3>5 DEF Seeks
  <2> HIDE DEF P
  <2> QED
    BY <2>1, <2>2, <2>3, <2>4, <2>5, <2>6, <2>7, <2>8
<1>2. CASE ~\E t \in Task : Callback(t) \/ Begins(t)
  <2>1. /\ tasks' = tasks
        /\ \/ Start
           \/ /\ stopped' = stopped /\ leadersMap' = leadersMap
              /\ currentLeader' = currentLeader
    BY <1>2, Elsewhere
  <2>2. ~Start
    BY <1>0 DEF Start, StopEmpties
  <2> QED
    BY <1>0, <2>1, <2>2 DEF Sought, Seeks
<1> QED
  BY <1>1, <1>2

\* Every step keeps StopEmpties.
LEMMA StopEmptiesStep ==
  ASSUME TypeOK, StopEmpties, [Next]_vars
  PROVE  StopEmpties'
<1> SUFFICES ASSUME Clean', stopped', app'.pc = "idle" PROVE leadersMap' = {}
  BY DEF StopEmpties
<1>0. Clean
  BY CleanIsCalm
<1> USE DEF clientVars
<1>1. ASSUME NEW t \in Task, Callback(t) \/ Begins(t) PROVE leadersMap' = {}
  <2>1. leadersMap = {} /\ stopped
    BY <1>0, <1>1, OneMoves DEF StopEmpties
  <2>2. ~Insert(t)
    BY <2>1, InsertFinds
  <2> QED
    BY <1>1, <2>1, <2>2, MapMoves
<1>2. ASSUME NEW sid \in leaving, LeaveSession(sid) PROVE leadersMap' = {}
  BY <1>0, <1>2 DEF LeaveSession, StopEmpties
<1>3. CASE World
  BY <1>0, <1>3 DEF World, Lead, Leaves, StepDown, Crash, StopEmpties
<1>4. CASE Stop
  BY <1>4 DEF Stop
<1>5. CASE StopForgetsLeader
  BY <1>5 DEF StopForgetsLeader
<1>6. CASE StopLeaves
  BY <1>6 DEF StopLeaves
<1>7. CASE StopClears
  BY <1>7 DEF StopClears
<1>8. CASE Start
  BY <1>8 DEF Start
<1>9. CASE UNCHANGED vars
  BY <1>0, <1>9 DEF vars, StopEmpties
<1> QED
  BY <1>1, <1>2, <1>3, <1>4, <1>5, <1>6, <1>7, <1>8, <1>9 DEF Next, Step,
     Application

-----------------------------------------------------------------------------
(* The theorems.                                                           *)

\* The client starts in the invariant.
LEMMA InitInv == Init => IInv
<1> SUFFICES ASSUME Init PROVE IInv
  OBVIOUS
<1>1. TypeOK
  BY ClientConnectionAssumption DEF Init, TypeOK, NoLeader, NoEntry, Idle, Entry
<1>2. TaskForm /\ AppForm /\ JoinedWith /\ NoteComing /\ LeaderComing
  BY DEF Init, TaskForm, AppForm, JoinedWith, NoteComing, LeaderComing, Idle, NoLeader
<1>3. AllFinite
  BY FS_EmptySet DEF Init, AllFinite
<1>4. EntryNames
  <2>1. Entries \subseteq {NoEntry} /\ now = 0
    BY DEF Init, Entries, NoLeader, Idle
  <2> QED
    BY <2>1 DEF EntryNames, NoEntry
<1>5. SessionNames /\ SessionEnds /\ Accounted /\ LeaderWith
  BY DEF Init, SessionNames, SessionEnds, Accounted, LeaderWith, With, Gone
<1>6. OneSeeks
  BY DEF Init, OneSeeks, Seeks, Idle
<1>7. AppStops /\ FirstSeen /\ SidOwned /\ OneAnswer /\ BelievesRightly /\ LeaderGone
  BY DEF Init, AppStops, FirstSeen, SidOwned, OneAnswer, BelievesRightly,
     LeaderGone, Idle, NoLeader
<1>8. FliesOnce /\ FlightKnown
  BY DEF Init, FliesOnce, FlightKnown, Flies, InFlight, Idle
<1>9. /\ LeaderNamed /\ EventEnds /\ NotLeft /\ LeaderLeft /\ LeaderOpen
      /\ LinksLeader /\ ToldOfLeader /\ Losing
  BY DEF Init, LeaderNamed, EventEnds, NotLeft, LeaderLeft, LeaderOpen,
     LinksLeader, ToldOfLeader, Losing, SetsUp, NoLeader, Idle
<1>10. PicksHighest /\ LeaderKnown /\ LeaderHighest /\ Sought /\ StopEmpties
  BY DEF Init, PicksHighest, LeaderKnown, LeaderHighest, Sought, StopEmpties,
     NoLeader, Idle
<1> QED
  BY <1>1, <1>2, <1>3, <1>4, <1>5, <1>6, <1>7, <1>8, <1>9, <1>10 DEF IInv

\* Every step keeps the invariant.
LEMMA InvStep == IInv /\ [Next]_vars => IInv'
<1> SUFFICES ASSUME IInv, [Next]_vars PROVE IInv'
  OBVIOUS
<1> USE DEF IInv
<1>1. TypeOK' /\ TaskForm' /\ AppForm' /\ AllFinite'
  BY TypeStep, FormStep, FiniteStep
<1>2. EntryNames' /\ SessionNames' /\ SessionEnds' /\ JoinedWith'
  BY EntryNamesStep, SessionNamesStep, SessionEndsStep, JoinedWithStep
<1>3. OneSeeks' /\ LeaderWith'
  BY OneSeeksStep, LeaderWithStep
<1>4. Accounted'
  BY AccountedStep
<1>5. NoteComing' /\ LeaderComing'
  BY NoteComingStep, LeaderComingStep
<1>6. AppStops' /\ FirstSeen' /\ SidOwned'
  BY AppStopsStep, FirstSeenStep, SidOwnedStep
<1>7. FliesOnce' /\ FlightKnown'
  BY FliesOnceStep, FlightKnownStep
<1>8. OneAnswer' /\ BelievesRightly' /\ LeaderGone'
  BY OneAnswerStep, BelievesRightlyStep, LeaderGoneStep
<1>9. LeaderNamed' /\ EventEnds' /\ NotLeft' /\ LeaderLeft' /\ LeaderOpen'
  BY LeaderNamedStep, EventEndsStep, NotLeftStep, LeaderLeftStep, LeaderOpenStep
<1>10. LinksLeader' /\ ToldOfLeader' /\ Losing'
  BY <1>6, LinksLeaderStep, ToldOfLeaderStep, LosingStep
<1>11. PicksHighest' /\ LeaderKnown' /\ LeaderHighest'
  BY PicksHighestStep, LeaderKnownStep, LeaderHighestStep
<1>12. Sought' /\ StopEmpties'
  BY SoughtStep, StopEmptiesStep
<1> QED
  BY <1>1, <1>2, <1>3, <1>4, <1>5, <1>6, <1>7, <1>8, <1>9, <1>10, <1>11, <1>12

\* The invariant holds in every state of the client.
THEOREM InvHolds == Spec => []IInv
BY InitInv, InvStep, PTL DEF Spec

\* The variables keep their types, whichever callbacks cross.
THEOREM TypeCorrect == Spec => []TypeOK
<1>1. IInv => TypeOK
  BY DEF IInv
<1> QED
  BY <1>1, InvHolds, PTL

\* However callbacks cross, no join is forgotten unless its result came before
\* the leader was noted, and no session is leaked unless one callback cleared
\* the leader of another or looked for one beside it.
THEOREM NoSessionLeaks == Spec => []SessionsAccounted
<1>1. IInv => SessionsAccounted
  BY DEF IInv, SessionsAccounted, Accounted, Calm
<1> QED
  BY <1>1, InvHolds, PTL

\* Once Stop and what was under way before it have ended, the client has no
\* leader and no session, and the application knows it: unless two callbacks
\* looked for a leader at once, one cleared what another had noted, the
\* application heard of a session that was gone, a leader was picked while
\* another callback was losing it, or a callback begun before Stop acted after.
THEOREM StopEndsEverything == Spec => []StoppedHoldsNothing
<1>1. IInv => StoppedHoldsNothing
  <2> SUFFICES ASSUME IInv, Orderly, Rest, stopped
               PROVE  currentLeader = NoLeader /\ sessions = {} /\ view = 0
    BY DEF StoppedHoldsNothing, Orderly
  <2>1. currentLeader = NoLeader
    BY DEF IInv, LeaderGone, Rest
  <2>2. currentLeader.sid = 0 /\ app.sid = 0 /\ leaving = {}
    BY <2>1 DEF IInv, AppForm, Rest, NoLeader
  <2>3. \A t \in Task : tasks[t].pc = "idle"
    BY DEF Rest, Idle
  <2>4. \A s \in sessions : s.sid # 0
    BY DEF IInv, TypeOK
  <2>5. Calm
    BY DEF Orderly, Calm, Without
  <2>6. sessions = {}
    BY <2>2, <2>3, <2>4, <2>5 DEF IInv, Accounted
  <2>7. view = 0
    BY <2>2, <2>3 DEF IInv, BelievesRightly, Rest
  <2> QED
    BY <2>1, <2>6, <2>7
<1> QED
  BY <1>1, InvHolds, PTL

\* Without any of the races: when nothing is left to happen, the client is
\* connected to the highest leader it knows of, the session is open, and the
\* application was told last of that connection.
THEOREM RestsConnected == Spec => []RestIsConnected
<1>1. IInv => RestIsConnected
  <2> SUFFICES ASSUME IInv, Clean, Rest, ~stopped
               PROVE  /\ currentLeader.entry.rank =
                           IF leadersMap = {} THEN 0
                           ELSE CHOOSE r \in Ranks : \A q \in Ranks : q <= r
                      /\ currentLeader = NoLeader \/ Open(currentLeader.sid)
                      /\ view = currentLeader.entry.rank
    BY DEF RestIsConnected, Clean
  <2>0. Orderly /\ Calm /\ Without({"early"})
    BY CleanIsCalm DEF Clean, Without, Race
  <2>1. \A t \in Task : tasks[t].pc = "idle"
    BY DEF Rest, Idle
  <2>2. CASE currentLeader.entry = NoEntry
    <3>1. currentLeader.sid = 0
      BY <2>2 DEF IInv, LeaderNamed
    <3>2. currentLeader = NoLeader
      BY <2>2, <3>1 DEF IInv, TypeOK, NoLeader
    <3>3. leadersMap = {}
      BY <2>1, <3>2 DEF IInv, Sought, Seeks
    <3>4. view = 0
      BY <2>0, <2>1, <3>1 DEF IInv, BelievesRightly, Rest
    <3> QED
      BY <2>2, <3>2, <3>3, <3>4 DEF NoEntry
  <2>3. CASE currentLeader.entry # NoEntry
    <3>1. currentLeader.sid # 0
      BY <2>0, <2>1, <2>3 DEF IInv, LeaderComing, Rest
    <3>2. Open(currentLeader.sid)
      BY <2>1, <3>1 DEF IInv, LeaderOpen, Loses, Rest
    <3>3. view = currentLeader.entry.rank
      BY <2>1, <3>1 DEF IInv, ToldOfLeader, SetsUp
    <3>4. currentLeader.entry.rank \in Ranks
      BY <2>3 DEF IInv, LeaderKnown
    <3>5. \A q \in Ranks : q <= currentLeader.entry.rank
      BY <2>1, <2>3 DEF IInv, LeaderHighest, Loses, Ranks
    <3>6. Ranks \subseteq Nat
      BY ClientConnectionAssumption DEF IInv, TypeOK, Ranks, Entry
    <3>7. \A r \in Ranks : (\A q \in Ranks : q <= r) => r = currentLeader.entry.rank
      <4> SUFFICES ASSUME NEW m \in Ranks, \A q \in Ranks : q <= m,
                          NEW r \in Ranks, \A q \in Ranks : q <= r
                   PROVE  r = m
        BY <3>4, <3>5
      <4>1. m \in Nat /\ r \in Nat /\ m <= r /\ r <= m
        BY <3>6
      <4> QED
        BY <4>1
    <3>8. currentLeader.entry.rank = CHOOSE r \in Ranks : \A q \in Ranks : q <= r
      BY <3>4, <3>5, <3>7
    <3>9. leadersMap # {}
      BY <3>4 DEF Ranks
    <3> QED
      BY <3>2, <3>3, <3>8, <3>9
  <2> QED
    BY <2>2, <2>3
<1> QED
  BY <1>1, InvHolds, PTL

=============================================================================
