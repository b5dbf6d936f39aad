----------------------------- MODULE LampCalls -----------------------------
(***************************************************************************)
(* Commands of clients to the lamps.  A command becomes a queued call with *)
(* one element per lamp method and the lamps it goes to; the thread of     *)
(* LampClients takes the queue and calls each lamp; the lamps' replies are *)
(* counted, and the last one sends the client its answer and frees the     *)
(* call.  Client callbacks, the thread and the replies run concurrently.   *)
(* Which lamps are known and connected (LampClients) is settled before a   *)
(* pass of the thread takes the queue, and stays so during the pass.       *)
(***************************************************************************)
EXTENDS Integers, Sequences, FiniteSets, FiniteSetsExt

CONSTANTS
  Call,         \* the commands clients send
  Lamp,         \* the ids of lamps
  Queries,      \* bound: the commands that only ask one lamp something
  MaxElements,  \* bound: elements of a command
  MaxQueue,     \* OEM_CS_MAX_LAMP_CLIENTS_METHOD_QUEUE_SIZE
  MaxToggles,   \* bound: how often leadership is lost
  None          \* no call

ASSUME LampCallsAssumption ==
  /\ MaxElements \in Nat \ {0} /\ MaxQueue \in Nat /\ MaxToggles \in Nat
  /\ Queries \subseteq Call /\ None \notin Call /\ IsFiniteSet(Lamp)

VARIABLES
  \* the client callbacks, one per command
  stage, request, counter,
  \* shared: under queueLock, under responseLock, under getLampStateListLock
  methodQueue, responseMap, getLampStateList,
  \* the thread
  pc, wakeUp, taken, current, todo, notFound, failures,
  activeLamps, connected, connectToLamps, cleanupDone, toggles,
  \* calls to lamps whose reply is to come
  contexts,
  \* what has become of each command and of each of its lamp calls
  freed, answers, fate

clientVars == <<stage, request, counter>>
queueVars  == <<methodQueue, responseMap, getLampStateList>>
passVars   == <<taken, current, todo, notFound, failures,
                activeLamps, connected>>
roleVars   == <<connectToLamps, cleanupDone, toggles>>
historyVars == <<freed, answers, fate>>

vars == <<clientVars, queueVars, pc, wakeUp, passVars, roleVars, contexts,
          historyVars>>

-----------------------------------------------------------------------------
(* Data.                                                                   *)

\* A lamp call of a command: the element that asks for it, and the lamp.
Target == (1..MaxElements) \X Lamp

\* A reply handler is modelled by what it may make of a reply, an error or a
\* timeout, by the element that was called for.
Result == {"ok", "failed", "uncounted"}
HandleReplyWithLampResponseCode == [i \in 1..MaxElements |-> {"ok", "failed"}]
HandleGetReply == [i \in 1..MaxElements |-> {"ok", "failed"}]
HandleReplyWithVariant == [i \in 1..MaxElements |-> {"ok", "failed"}]

\* These two look for the keys they want, and a reply with none of them is not
\* counted: the second only in the reply to GetConfigurations.
HandleReplyWithKeyValuePairs == [i \in 1..MaxElements |-> Result]
HandleDataSetReply == [HandleGetReply EXCEPT ![1] = @ \cup {"uncounted"}]

Handler == {HandleReplyWithLampResponseCode, HandleGetReply,
            HandleReplyWithVariant, HandleReplyWithKeyValuePairs,
            HandleDataSetReply}

Elements == UNION {[1..n -> SUBSET Lamp] : n \in 0..MaxElements}

Request ==
  [elements : Elements, allLamps : BOOLEAN, replyFunc : Handler]
NoRequest ==
  [elements |-> <<>>, allLamps |-> FALSE, replyFunc |-> HandleGetReply]

\* ResponseCounter.  The numbers of an entry, and whether there is one.
Counter ==
  [listed : BOOLEAN, numWaiting : Int, total : Nat,
   successCount : Nat, failCount : Nat, notFoundCount : Nat]
NoEntry ==
  [listed |-> FALSE, numWaiting |-> 0, total |-> 0,
   successCount |-> 0, failCount |-> 0, notFoundCount |-> 0]

\* AddLamps, for all elements of a command
NewCounter(n) ==
  [listed |-> TRUE, numWaiting |-> n, total |-> n,
   successCount |-> 0, failCount |-> 0, notFoundCount |-> 0]

Answer == {"OK", "NOT_FOUND", "FAILURE", "PARTIAL", "UNEXPECTED", "REJECTED",
           "NO_SLOT", "INVALID"}
Fate == {"waiting", "ok", "failed", "unknown", "uncounted"}

Targets(els) == {t \in Target : t[1] <= Len(els) /\ t[2] \in els[t[1]]}

\* What an all-lamps command goes to is only known to the thread.
Aimed(c) ==
  IF request[c].allLamps THEN {1} \X activeLamps
                         ELSE Targets(request[c].elements)

-----------------------------------------------------------------------------
Init ==
  /\ stage = [c \in Call |-> "new"]
  /\ request = [c \in Call |-> NoRequest]
  /\ counter = [c \in Call |-> 0]
  /\ methodQueue = {}
  /\ responseMap = [c \in Call |-> NoEntry]
  /\ getLampStateList = {}
  /\ pc = "wait" /\ wakeUp = FALSE
  /\ taken = {} /\ current = None /\ todo = {}
  /\ notFound = 0 /\ failures = 0
  /\ activeLamps = {} /\ connected = {}
  /\ connectToLamps = FALSE /\ cleanupDone = FALSE /\ toggles = 0
  /\ contexts = {}
  /\ freed = {}
  /\ answers = [c \in Call |-> <<>>]
  /\ fate = [c \in Call |-> [t \in Target |-> "waiting"]]

-----------------------------------------------------------------------------
(* The client's callback: LampManager and the operations of LampClients.   *)

\* An answer that needs no lamp.
Refuse(c, code) ==
  /\ stage' = [stage EXCEPT ![c] = "done"]
  /\ answers' = [answers EXCEPT ![c] = Append(@, code)]
  /\ UNCHANGED <<request, counter, freed>>

\* A call that is never answered.
Forget(c) ==
  /\ stage' = [stage EXCEPT ![c] = "done"]
  /\ UNCHANGED <<request, counter, answers, freed>>

\* AddMethodCallElement counts the lamps of each element; QueueLampMethod looks
\* whether lamps are served before it takes a lock.
Submit(c, els, all, replyFunc) ==
  IF connectToLamps
  THEN /\ stage' = [stage EXCEPT ![c] = "queueing"]
       /\ counter' = [counter EXCEPT ![c] = Cardinality(Targets(els))]
       /\ request' = [request EXCEPT ![c] =
            [elements |-> els, allLamps |-> all, replyFunc |-> replyFunc]]
       /\ UNCHANGED <<answers, freed>>
  ELSE Refuse(c, "REJECTED")

One(c, l, replyFunc) == Submit(c, <<{l}>>, FALSE, replyFunc)

GetLampState(c, l)              == One(c, l, HandleGetReply)
GetLampStateField(c, l)         == One(c, l, HandleGetReply)
GetLampDetails(c, l)            == One(c, l, HandleGetReply)
GetLampParameters(c, l)         == One(c, l, HandleGetReply)
GetLampParametersField(c, l)    == One(c, l, HandleGetReply)
GetLampFaults(c, l)             == One(c, l, HandleReplyWithVariant)
GetLampVersion(c, l)            == One(c, l, HandleReplyWithVariant)
ClearLampFault(c, l)            == One(c, l, HandleReplyWithLampResponseCode)
GetLampSupportedLanguages(c, l) == One(c, l, HandleReplyWithKeyValuePairs)
GetLampName(c, l)               == One(c, l, HandleReplyWithKeyValuePairs)
GetLampManufacturer(c, l)       == One(c, l, HandleReplyWithKeyValuePairs)
SetLampName(c, l)               == One(c, l, HandleGetReply)

\* The name, the details, the state and the parameters of a lamp.
GetLampDataSet(c, l) ==
  Submit(c, [i \in 1..MaxElements |-> {l}], FALSE, HandleDataSetReply)

\* ChangeLampState, of LampManager's parameters: a component that is a pulse
\* between two presets is dropped when only the second is missing.  A command
\* whose other presets are missing is answered at once, unless it is for lamp
\* groups: its number of arguments is none that LampManager answers.
Component == [lamps : SUBSET Lamp \ {{}},
              preset : {"none", "found", "missing", "secondMissing"}]

ChangeLampStateAndField(c, components, all, groups) ==
  IF \E i \in 1..Len(components) : components[i].preset = "missing"
  THEN IF groups THEN Forget(c) ELSE Refuse(c, "NOT_FOUND")
  ELSE LET kept == SelectSeq(components,
                             LAMBDA comp : comp.preset # "secondMissing")
       IN  Submit(c, [i \in 1..Len(kept) |-> kept[i].lamps], all,
                  HandleReplyWithLampResponseCode)

State(lamps)  == [lamps |-> lamps, preset |-> "none"]
Preset(lamps, p) == [lamps |-> lamps, preset |-> p]

\* A state, or a preset, that is the null state is refused.
TransitionLampState(c, l) ==
  \/ Refuse(c, "INVALID")
  \/ ChangeLampStateAndField(c, <<State({l})>>, FALSE, FALSE)
TransitionLampStateToPreset(c, l) ==
  \/ Refuse(c, "INVALID")
  \/ \E p \in {"found", "missing"} :
       ChangeLampStateAndField(c, <<Preset({l}, p)>>, FALSE, FALSE)
TransitionLampStateField(c, l) ==
  ChangeLampStateAndField(c, <<State({l})>>, FALSE, FALSE)
PulseLampWithState(c, l) ==
  \/ Refuse(c, "INVALID")
  \/ ChangeLampStateAndField(c, <<State({l})>>, FALSE, FALSE)
PulseLampWithPreset(c, l) ==
  \/ Refuse(c, "INVALID")
  \/ \E p \in {"found", "missing", "secondMissing"} :
       ChangeLampStateAndField(c, <<Preset({l}, p)>>, FALSE, FALSE)
ResetLampState(c, l) ==
  ChangeLampStateAndField(c, <<State({l})>>, FALSE, FALSE)
ResetLampStateField(c, l) ==
  ChangeLampStateAndField(c, <<State({l})>>, FALSE, FALSE)

\* What LampGroupManager hands on, for groups, scene elements and scenes: no
\* component is empty, but the one of the group of all lamps.
ChangeLampGroupStateAndField(c) ==
  \/ \E components \in UNION {[1..n -> Component] : n \in 1..MaxElements},
        groups \in BOOLEAN :
       ChangeLampStateAndField(c, components, FALSE, groups)
  \/ ChangeLampStateAndField(c, <<State({})>>, TRUE, TRUE)

\* LampManager's method calls.
QueryLamp(c, l) ==
  \/ GetLampFaults(c, l) \/ ClearLampFault(c, l) \/ GetLampVersion(c, l)
  \/ GetLampSupportedLanguages(c, l) \/ GetLampManufacturer(c, l)
  \/ GetLampName(c, l) \/ SetLampName(c, l)
QueryLampState(c, l) ==
  \/ GetLampDetails(c, l) \/ GetLampParameters(c, l) \/ GetLampState(c, l)
  \/ GetLampParametersField(c, l) \/ GetLampStateField(c, l)
ChangeLamp(c, l) ==
  \/ TransitionLampStateToPreset(c, l) \/ TransitionLampStateField(c, l)
  \/ ResetLampState(c, l) \/ ResetLampStateField(c, l) \/ GetLampDataSet(c, l)
  \/ TransitionLampState(c, l) \/ PulseLampWithState(c, l)
  \/ PulseLampWithPreset(c, l)

MethodCall(c) ==
  /\ stage[c] = "new"
  /\ \/ \E l \in Lamp : QueryLampState(c, l)
     \/ \E l \in Lamp : c \notin Queries /\ (QueryLamp(c, l) \/ ChangeLamp(c, l))
     \/ c \notin Queries /\ ChangeLampGroupStateAndField(c)
  /\ UNCHANGED <<queueVars, pc, wakeUp, passVars, roleVars, contexts, fate>>

\* QueueLampMethod puts the call into the queue if there is room ...
Push(c) ==
  /\ stage[c] = "queueing"
  /\ IF Cardinality(methodQueue) < MaxQueue
     THEN /\ methodQueue' = methodQueue \cup {c}
          /\ stage' = [stage EXCEPT ![c] = "pushed"]
          /\ UNCHANGED <<request, counter, freed, answers>>
     ELSE Refuse(c, "NO_SLOT") /\ UNCHANGED methodQueue
  /\ UNCHANGED <<responseMap, getLampStateList, pc, wakeUp, passVars, roleVars,
                 contexts, fate>>

\* ... and only then, under another lock, its counter into the response map.
\* Of a call that has been freed by then, the id read may be any.
Register(c) ==
  /\ stage[c] = "pushed"
  /\ stage' = [stage EXCEPT ![c] = "done"]
  /\ \/ responseMap' = [responseMap EXCEPT ![c] = NewCounter(counter[c])]
     \/ c \in freed /\ UNCHANGED responseMap
  /\ wakeUp' = TRUE
  /\ UNCHANGED <<request, counter, methodQueue, getLampStateList, pc, passVars,
                 roleVars, contexts, historyVars>>

-----------------------------------------------------------------------------
(* Counting replies.                                                       *)

\* Mutation: a lamp that failed does not spoil the answer.
ResponseCodeLenient(e) ==
  IF e.notFoundCount = e.total THEN "NOT_FOUND"
  ELSE IF e.successCount + e.failCount = e.total THEN "OK"
  ELSE IF e.notFoundCount + e.successCount + e.failCount = e.total THEN "PARTIAL"
  ELSE "UNEXPECTED"

ResponseCode(e) ==
  IF e.notFoundCount = e.total THEN "NOT_FOUND"
  ELSE IF e.successCount = e.total THEN "OK"
  ELSE IF e.failCount = e.total THEN "FAILURE"
  ELSE IF e.notFoundCount + e.successCount + e.failCount = e.total THEN "PARTIAL"
  ELSE "UNEXPECTED"

\* Mutation: a lamp that is not known is not waited for in the first place.
CountedKnown(e, success, failure, nf) ==
  [e EXCEPT !.successCount = @ + success, !.failCount = @ + failure,
            !.notFoundCount = @ + nf,
            !.numWaiting = @ - (success + failure)]

\* numWaiting is signed; it goes below zero only if more is counted than was
\* registered, which CountersCover excludes.
Counted(e, success, failure, nf) ==
  [listed |-> e.listed, total |-> e.total,
   numWaiting |-> e.numWaiting - (success + failure + nf),
   successCount |-> e.successCount + success,
   failCount |-> e.failCount + failure,
   notFoundCount |-> e.notFoundCount + nf]

\* Mutation: the test for the last reply is off by one.
SendResponseBeforeLast(c, success, failure, nf) ==
  LET e == Counted(responseMap[c], success, failure, nf)
  IN  IF ~responseMap[c].listed
      THEN UNCHANGED <<responseMap, answers, freed>>
      ELSE IF e.numWaiting > 1
      THEN /\ responseMap' = [responseMap EXCEPT ![c] = e]
           /\ UNCHANGED <<answers, freed>>
      ELSE /\ responseMap' = [responseMap EXCEPT ![c] = NoEntry]
           /\ answers' = [answers EXCEPT ![c] = Append(@, ResponseCode(e))]
           /\ freed' = freed \cup {c}

\* Mutation: the entry stays in the map when the answer goes out.
SendResponseKeepEntry(c, success, failure, nf) ==
  LET e == Counted(responseMap[c], success, failure, nf)
  IN  IF ~responseMap[c].listed
      THEN UNCHANGED <<responseMap, answers, freed>>
      ELSE /\ responseMap' = [responseMap EXCEPT ![c] = e]
           /\ IF e.numWaiting # 0
              THEN UNCHANGED <<answers, freed>>
              ELSE /\ answers' = [answers EXCEPT ![c] =
                                    Append(@, ResponseCode(e))]
                   /\ freed' = freed \cup {c}

\* DecrementWaitingAndSendResponse: without an entry nothing is counted; the
\* one who counts to zero answers and frees the call.
DecrementWaitingAndSendResponse(c, success, failure, nf) ==
  LET e == Counted(responseMap[c], success, failure, nf)
  IN  IF ~responseMap[c].listed
      THEN UNCHANGED <<responseMap, answers, freed>>
      ELSE IF e.numWaiting # 0
      THEN /\ responseMap' = [responseMap EXCEPT ![c] = e]
           /\ UNCHANGED <<answers, freed>>
      ELSE /\ responseMap' = [responseMap EXCEPT ![c] = NoEntry]
           /\ answers' = [answers EXCEPT ![c] = Append(@, ResponseCode(e))]
           /\ freed' = freed \cup {c}

\* A reply, an error or a timeout of one lamp call.  A reply that holds none of
\* the keys its handler looks for is not counted.
HandleReply(c, t, result) ==
  /\ <<c, t>> \in contexts
  /\ result \in request[c].replyFunc[t[1]]
  /\ contexts' = contexts \ {<<c, t>>}
  /\ CASE result = "ok" -> DecrementWaitingAndSendResponse(c, 1, 0, 0)
       [] result = "failed" -> DecrementWaitingAndSendResponse(c, 0, 1, 0)
       [] OTHER -> UNCHANGED <<responseMap, answers, freed>>
  /\ fate' = [fate EXCEPT ![c][t] = result]
  /\ UNCHANGED <<clientVars, methodQueue, getLampStateList, pc, wakeUp,
                 passVars, roleVars>>

-----------------------------------------------------------------------------
(* The thread.                                                             *)

\* A pass up to the method calls, which settles what is connected and takes the
\* list of lamps that reported a change, to ask for their state (DoGetLampState).
Wake ==
  /\ pc = "wait" /\ wakeUp
  /\ wakeUp' = FALSE
  /\ IF connectToLamps
     THEN /\ pc' = "take"
          /\ cleanupDone' = FALSE
          /\ activeLamps' \in SUBSET Lamp
          /\ connected' \in SUBSET activeLamps'
          /\ getLampStateList' = {}
     ELSE /\ pc' = IF cleanupDone THEN "wait" ELSE "cleanup"
          /\ UNCHANGED <<cleanupDone, activeLamps, connected, getLampStateList>>
  /\ UNCHANGED <<clientVars, methodQueue, responseMap, taken, current, todo,
                 notFound, failures, connectToLamps, toggles, contexts,
                 historyVars>>

TakeQueue ==
  /\ pc = "take"
  /\ taken' = methodQueue
  /\ methodQueue' = {}
  /\ pc' = "calls"
  /\ UNCHANGED <<clientVars, responseMap, getLampStateList, wakeUp, current,
                 todo, notFound, failures, activeLamps, connected,
                 roleVars, contexts, historyVars>>

EndOfPass ==
  /\ pc = "calls" /\ taken = {}
  /\ pc' = "wait"
  /\ activeLamps' = {} /\ connected' = {}
  /\ UNCHANGED <<clientVars, queueVars, wakeUp, taken, current,
                 todo, notFound, failures, roleVars, contexts, historyVars>>

\* DoMethodCallAsync begins: an all-lamps command learns its lamps, and its
\* counter is put into the entry, if there is one.
StartCall(c) ==
  /\ pc = "calls" /\ c \in taken
  /\ taken' = taken \ {c}
  /\ current' = c
  /\ todo' = Aimed(c)
  /\ IF request[c].allLamps
     THEN /\ counter' = [counter EXCEPT ![c] = @ + Cardinality(activeLamps)]
          /\ responseMap' = IF responseMap[c].listed
                            THEN [responseMap EXCEPT ![c] = NewCounter(counter'[c])]
                            ELSE responseMap
     ELSE UNCHANGED <<counter, responseMap>>
  /\ notFound' = 0 /\ failures' = 0
  /\ pc' = "send"
  /\ UNCHANGED <<stage, request, methodQueue, getLampStateList, wakeUp,
                 activeLamps, connected, roleVars, contexts, historyVars>>

\* One lamp of the loop: unknown, not connected or not to be called, or called.
SendToLamp(t) ==
  /\ pc = "send" /\ t \in todo
  /\ todo' = todo \ {t}
  /\ \/ /\ t[2] \notin activeLamps
        /\ notFound' = notFound + 1
        /\ fate' = [fate EXCEPT ![current][t] = "unknown"]
        /\ UNCHANGED <<failures, contexts>>
     \/ /\ t[2] \in activeLamps
        /\ failures' = failures + 1
        /\ fate' = [fate EXCEPT ![current][t] = "failed"]
        /\ UNCHANGED <<notFound, contexts>>
     \/ /\ t[2] \in connected
        /\ contexts' = contexts \cup {<<current, t>>}
        /\ UNCHANGED <<notFound, failures, fate>>
  /\ UNCHANGED <<clientVars, queueVars, pc, wakeUp, taken, current,
                 activeLamps, connected, roleVars, freed, answers>>

\* Mutation: only what is not known at all is counted.
CountNotFound(c) ==
  IF notFound > 0
  THEN DecrementWaitingAndSendResponse(c, 0, 0, notFound)
  ELSE UNCHANGED <<responseMap, answers, freed>>

\* What was not sent is counted at once, after the loop.
CountUnsent(c) ==
  IF notFound + failures > 0
  THEN DecrementWaitingAndSendResponse(c, 0, failures, notFound)
  ELSE UNCHANGED <<responseMap, answers, freed>>

FinishCall ==
  /\ pc = "send" /\ todo = {}
  /\ CountUnsent(current)
  /\ current' = None
  /\ notFound' = 0 /\ failures' = 0
  /\ pc' = "calls"
  /\ UNCHANGED <<clientVars, methodQueue, getLampStateList, wakeUp, taken,
                 todo, activeLamps, connected, roleVars, contexts,
                 fate>>

\* The cleanup after DisconnectFromLamps deletes what is in the queue, its
\* clients get no answer and its counters stay.
Cleanup ==
  /\ pc = "cleanup"
  /\ freed' = freed \cup methodQueue
  /\ methodQueue' = {}
  /\ cleanupDone' = TRUE
  /\ pc' = "wait"
  /\ UNCHANGED <<clientVars, responseMap, getLampStateList, wakeUp, passVars,
                 connectToLamps, toggles, contexts, answers, fate>>

Thread ==
  \/ Wake \/ TakeQueue \/ EndOfPass
  \/ \E c \in Call : StartCall(c)
  \/ \E t \in Target : SendToLamp(t)
  \/ FinishCall \/ Cleanup

-----------------------------------------------------------------------------
(* Leadership, and the lamps' own reports.                                 *)

ConnectToLamps ==
  /\ ~connectToLamps
  /\ connectToLamps' = TRUE
  /\ wakeUp' = TRUE
  /\ UNCHANGED <<clientVars, queueVars, pc, passVars, cleanupDone, toggles,
                 contexts, historyVars>>

DisconnectFromLamps ==
  /\ connectToLamps /\ toggles < MaxToggles
  /\ toggles' = toggles + 1
  /\ connectToLamps' = FALSE
  /\ wakeUp' = TRUE
  /\ UNCHANGED <<clientVars, queueVars, pc, passVars, cleanupDone, contexts,
                 historyVars>>

LampStateChangedSignalHandler(l) ==
  /\ getLampStateList' = getLampStateList \cup {l}
  /\ wakeUp' = TRUE
  /\ UNCHANGED <<clientVars, methodQueue, responseMap, pc, passVars, roleVars,
                 contexts, historyVars>>

ClientCallback(c) == Push(c) \/ Register(c)
Reply(c) == \E t \in Target, result \in Result :
              HandleReply(c, t, result)

Next ==
  \/ \E c \in Call : MethodCall(c) \/ ClientCallback(c) \/ Reply(c)
  \/ Thread
  \/ ConnectToLamps \/ DisconnectFromLamps
  \/ \E l \in Lamp : LampStateChangedSignalHandler(l)

Spec == Init /\ [][Next]_vars

\* The thread and a callback that has begun are scheduled, and a lamp call is
\* answered or times out.
FairSpec ==
  /\ Spec
  /\ WF_vars(Thread)
  /\ \A c \in Call : WF_vars(ClientCallback(c)) /\ WF_vars(Reply(c))

-----------------------------------------------------------------------------
(* Properties.                                                             *)

TypeOK ==
  /\ stage \in [Call -> {"new", "queueing", "pushed", "done"}]
  /\ request \in [Call -> Request] /\ counter \in [Call -> Nat]
  /\ methodQueue \subseteq Call /\ Cardinality(methodQueue) <= MaxQueue
  /\ taken \subseteq Call
  /\ responseMap \in [Call -> Counter]
  /\ getLampStateList \subseteq Lamp
  /\ pc \in {"wait", "take", "calls", "send", "cleanup"}
  /\ current \in Call \cup {None} /\ todo \subseteq Target
  /\ notFound \in Nat /\ failures \in Nat
  /\ connected \subseteq activeLamps /\ activeLamps \subseteq Lamp
  /\ wakeUp \in BOOLEAN /\ connectToLamps \in BOOLEAN
  /\ cleanupDone \in BOOLEAN /\ toggles \in 0..MaxToggles
  /\ contexts \subseteq Call \X Target
  /\ freed \subseteq Call /\ answers \in [Call -> Seq(Answer)]
  /\ fate \in [Call -> [Target -> Fate]]

\* No lamp call is left to answer, and no step of the loop to do, for a command
\* that has been freed: the pointer that the contexts and the thread hold to
\* the queued call is good whenever it is used.
FreedLast ==
  /\ \A p \in contexts : p[1] \notin freed
  /\ current \in freed => todo = {} /\ notFound + failures = 0
  /\ freed \cap (methodQueue \cup taken) = {}

\* A client never gets a second answer, and a command of which it has one
\* leaves nothing behind in the response map.
AnsweredOnce ==
  \A c \in Call : /\ Len(answers[c]) <= 1
                  /\ answers[c] # <<>> => ~responseMap[c].listed

\* However pushing, registering, taking, sending and replies interleave, an
\* entry waits for at least the lamp calls that are still to be counted, so
\* the answer never goes out before the last of them.
CountersCover ==
  \A c \in Call : responseMap[c].listed =>
    LET e == responseMap[c]
        open == Cardinality({t \in Target : <<c, t>> \in contexts})
    IN  /\ e.numWaiting = e.total - e.successCount - e.failCount - e.notFoundCount
        /\ e.numWaiting >=
             IF c = current THEN open + Cardinality(todo) + notFound + failures
                            ELSE open

\* The code a client is told is what became of the lamp calls: OK and FAILURE
\* and NOT_FOUND of each of them, PARTIAL of lamps that fared differently, and
\* UNEXPECTED never; and it is told once.
AnswersTell ==
  /\ AnsweredOnce
  /\ \A c \in Call : answers[c] # <<>> /\ request[c] # NoRequest =>
       LET fates == {fate[c][t] : t \in {u \in Target : fate[c][u] # "waiting"}}
       IN  CASE answers[c][1] = "OK"        -> fates = {"ok"}
             [] answers[c][1] = "FAILURE"   -> fates = {"failed"}
             [] answers[c][1] = "NOT_FOUND" -> fates = {"unknown"}
             [] answers[c][1] = "PARTIAL"   -> Cardinality(fates) > 1
             [] OTHER -> fates = {} /\ answers[c][1] # "UNEXPECTED"

\* While lamps are served and no cleanup has begun, a command in the queue whose
\* counter is registered, that names lamps and whose replies are all counted, is
\* answered; and a lamp that reported a change is asked for its state.
CallsAnswered ==
  /\ \A c \in Call :
       /\ c \in methodQueue /\ pc # "cleanup"
       /\ responseMap[c].listed /\ responseMap[c].total > 0
       /\ \A i \in 1..MaxElements : "uncounted" \notin request[c].replyFunc[i]
       ~> answers[c] # <<>> \/ ~connectToLamps
  /\ \A l \in Lamp :
       l \in getLampStateList ~> l \notin getLampStateList \/ ~connectToLamps

\* PARTIAL tells that some of the lamps did what was asked.
PartialMeansSome ==
  \A c \in Call : answers[c] = <<"PARTIAL">> =>
    \E t \in Target : fate[c][t] = "ok"
=============================================================================
