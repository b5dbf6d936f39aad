---------------------------- MODULE ClientCalls ----------------------------
(***************************************************************************)
(* An application's calls through the Controller Client, from the call of  *)
(* a manager's method to the callback that tells the application           *)
(* (ControllerClient.cc, ControllerClient.h and the client's managers).    *)
(* Each call goes out to the leader of the day; its reply runs through a   *)
(* handler in a thread of the bus, beside the threads that report a new    *)
(* session or its loss, and beside the application's, which may stop the   *)
(* client.  A signal of the leader runs through the same handlers, and is  *)
(* modelled as a call that is answered from the start.                     *)
(*                                                                         *)
(* The connection is that of ClientConnection, reduced to having a session *)
(* or not.                                                                 *)
(***************************************************************************)
EXTENDS ClientMethods, ServiceDescription, FiniteSets

CONSTANTS
  Slot      \* numbers of the calls under way, from 1

ASSUME ClientCallsAssumption == Slot = 1..3

VARIABLES
  stopped,     \* volatile sig_atomic_t
  stopping,    \* how far Stop has come
  session,     \* currentLeader.sessionId is not zero
  effects,     \* the leader implements effects and scene elements
  joining,     \* how far OnSessionJoined has come, under currentLeaderLock
  registered,  \* the signals the bus hands to the client
  todo,        \* the methods of a data set that are still to be called
  calls        \* [Slot -> a call, or a signal, see Idle]

connectionVars == <<stopped, stopping, session, effects, joining, registered>>
vars == <<connectionVars, todo, calls>>

\* known: the field asked for is one the manager knows.  freed: the handler
\* found has been deleted.  disturbed: while the call was under way the client
\* was stopped or a session began.  told: what the application was told.
Idle == [pc |-> "idle", op |-> [method |-> "", style |-> "", sends |-> 0,
                                takes |-> 0],
         args |-> 0, known |-> TRUE, freed |-> FALSE, disturbed |-> FALSE,
         told |-> <<>>]

Init ==
  /\ stopped = FALSE /\ stopping = "no"
  /\ session = FALSE /\ effects = FALSE /\ joining = "no"
  /\ registered = {}
  /\ todo = <<>>
  /\ calls = [s \in Slot |-> Idle]

Settled(s) == calls[s].pc \in {"idle", "settled"}
Quiet == todo = <<>> /\ \A s \in Slot : Settled(s)
Fresh == todo = <<>> /\ \A s \in Slot : calls[s] = Idle

Settle(s, told) ==
  calls' = [calls EXCEPT ![s].pc = "settled", ![s].told = @ \o told]

-----------------------------------------------------------------------------
(* Calling.                                                                *)

\* The application calls a method, or one that calls several.
Begin ==
  /\ Fresh /\ stopping = "no"
  /\ todo' \in {<<c>> : c \in Calls}
       \cup {[i \in DOMAIN set |-> CHOOSE c \in Calls : c.method = set[i]] :
               set \in DataSets}
  /\ UNCHANGED <<connectionVars, calls>>

\* MethodCallAsyncHelper, under currentLeaderLock: without a session, or if the
\* call cannot be sent, the method fails, and with it the rest of a data set.
\* The bus refuses a call that is not as the leader describes it.
MethodCallAsyncHelper ==
  /\ todo # <<>> /\ joining = "no"
  /\ \/ /\ session /\ (Head(todo) \notin EffectAndElementCalls \/ effects)
        /\ LET s == CHOOSE s \in Slot : calls[s].pc = "idle"
           IN  \E known \in {TRUE, Head(todo).method \notin FieldReplies} :
                 calls' = [calls EXCEPT
                   ![s] = IF CallDescribed(Head(todo).method, Head(todo).sends)
                          THEN [Idle EXCEPT !.pc = "sent", !.op = Head(todo),
                                  !.known = known, !.disturbed = stopped]
                          ELSE [Idle EXCEPT !.pc = "settled",
                                  !.op = Head(todo), !.told = <<"refused">>]]
        /\ todo' = Tail(todo)
     \/ todo' = <<>> /\ UNCHANGED calls
  /\ UNCHANGED connectionVars

\* MethodCallDispatcher of the service and the method's handler: a call with the
\* wrong arguments, or of no method known, is not answered.  Whether the bus lets
\* a reply through that is not as described is left open.
MethodCallDispatcher(s) ==
  /\ calls[s].pc = "sent" /\ session
  /\ \E h \in MessageHandlers :
       /\ h.method = calls[s].op.method
       /\ h.expects = calls[s].op.sends
       /\ \E n \in h.replies :
          \E sent \in {TRUE, ReplyDescribed(h.method, n)} :
            calls' = [calls EXCEPT ![s].pc = IF sent THEN "answered"
                                             ELSE "unsent",
                                   ![s].args = n]
  /\ UNCHANGED <<connectionVars, todo>>

\* The bus gives the call up, with an error for a reply.
TimeOut(s) ==
  /\ calls[s].pc \in {"sent", "unsent"}
  /\ calls' = [calls EXCEPT ![s].pc = "failed"]
  /\ UNCHANGED <<connectionVars, todo>>

\* The leader sends a signal, if it is as described.
SendSignal ==
  /\ Fresh /\ session
  /\ \E signal \in Signals \ (IF effects THEN {} ELSE AdditionalSignals) :
       calls' = [calls EXCEPT
         ![1] = [Idle EXCEPT
                   !.pc = IF SignalDescribed(signal.method, signal.sends)
                          THEN "answered" ELSE "settled",
                   !.op = signal, !.args = signal.sends,
                   !.disturbed = stopped \/ joining # "no"]]
  /\ UNCHANGED <<connectionVars, todo>>

\* What the application was told is done with.
Forget ==
  /\ Quiet /\ ~Fresh
  /\ calls' = [s \in Slot |-> Idle]
  /\ UNCHANGED <<connectionVars, todo>>

-----------------------------------------------------------------------------
(* Answers and signals.                                                    *)

IsSignal(s) == \E d \in Dispatchers : d.style = calls[s].op.style

\* CheckNumArgsInMessage.
Fits(s) == IF IsSignal(s) THEN calls[s].args \in calls[s].op.takes
           ELSE calls[s].args = calls[s].op.takes

\* Mutation: an answer that does not fit is handled all the same, and reported.
ManagerReplyAnyway(s) ==
  IF Fits(s) THEN IF calls[s].known THEN <<"reply">> ELSE <<>>
  ELSE <<"invalid", "reply">>

\* What a manager tells the application of an answer: that it does not fit, or
\* the answer, but not that of a field it does not know.
ManagerReply(s) ==
  IF ~Fits(s) THEN <<"invalid">>
  ELSE IF calls[s].known THEN <<"reply">> ELSE <<>>

\* A call's own handler, TypeHandler.
TypeHandler(s) ==
  /\ calls[s].op.style = "Own"
  /\ Settle(s, IF stopped THEN <<>>
               ELSE IF calls[s].pc = "failed" THEN <<"error">>
               ELSE ManagerReply(s))

\* A shared handler: its map is read without a lock.  After that its thread
\* may be overtaken.
HandlerForMethodReply(s) ==
  /\ calls[s].op.style # "Own" /\ ~IsSignal(s)
  /\ IF stopped \/ calls[s].pc = "failed"
     THEN Settle(s, IF stopped THEN <<>> ELSE <<"error">>)
     ELSE IF <<calls[s].op.style, calls[s].op.method>> \notin MethodHandlers
     THEN Settle(s, <<>>)
     ELSE IF ~Fits(s) THEN Settle(s, <<"invalid">>)
     ELSE calls' = [calls EXCEPT ![s].pc = "handling"]

\* The dispatchers of signals.
SignalDispatcher(s) ==
  /\ IsSignal(s)
  /\ LET entry == <<calls[s].op.style, calls[s].op.method>>
     IN  IF entry \notin registered \/ stopped \/ entry \notin MethodHandlers
         THEN Settle(s, <<>>)
         ELSE IF ~Fits(s) THEN Settle(s, <<"invalid">>)
         ELSE calls' = [calls EXCEPT ![s].pc = "handling"]

\* Mutation: what comes in after Stop is put off until the client is started.
DispatchLater(s) ==
  /\ calls[s].pc \in {"answered", "failed"} /\ ~stopped
  /\ TypeHandler(s) \/ HandlerForMethodReply(s) \/ SignalDispatcher(s)
  /\ UNCHANGED <<connectionVars, todo>>

Dispatch(s) ==
  /\ calls[s].pc \in {"answered", "failed"}
  /\ TypeHandler(s) \/ HandlerForMethodReply(s) \/ SignalDispatcher(s)
  /\ UNCHANGED <<connectionVars, todo>>

\* The handler found calls the manager; of one deleted nothing is certain.
Handle(s) ==
  /\ calls[s].pc = "handling"
  /\ \/ Settle(s, ManagerReply(s))
     \/ calls[s].freed /\ Settle(s, <<>>)
  /\ UNCHANGED <<connectionVars, todo>>

-----------------------------------------------------------------------------
(* The connection.                                                         *)

UnderWay(s) == ~Settled(s)

\* bus.UnregisterAllHandlers(this): the replies the client itself waits for are
\* no longer delivered; of those that have arrived some may be under way to it.
UnregisterAllHandlers ==
  \E late \in SUBSET {s \in Slot : calls[s].pc \in {"answered", "failed"}} :
    calls' = [s \in Slot |->
      IF /\ calls[s].op.style # "Own"
         /\ calls[s].pc \in {"sent", "unsent"} \/ s \in late
      THEN [calls[s] EXCEPT !.pc = "settled"] ELSE calls[s]]

\* OnSessionJoined has a session ...
OnSessionJoined ==
  /\ ~session /\ joining = "no" /\ stopping \in {"no", "flag"}
  /\ session' = TRUE
  /\ effects' \in BOOLEAN
  /\ joining' = "handlers"
  /\ calls' = [s \in Slot |->
                 [calls[s] EXCEPT !.disturbed = @ \/ UnderWay(s)]]
  /\ UNCHANGED <<stopped, stopping, registered, todo>>

\* ... puts a new handler in the place of every one there was ...
AddMethodHandlers ==
  /\ joining = "handlers"
  /\ joining' = "signals"
  /\ calls' = [s \in Slot |->
                 [calls[s] EXCEPT !.freed = @ \/ calls[s].pc = "handling"]]
  /\ UNCHANGED <<stopped, stopping, session, effects, registered, todo>>

\* ... and registers for the signals the leader has.
AddSignalHandlers ==
  /\ joining = "signals"
  /\ joining' = "no"
  /\ UnregisterAllHandlers
  /\ registered' = SignalEntries
                     \cup (IF effects THEN AdditionalSignalEntries ELSE {})
  /\ UNCHANGED <<stopped, stopping, session, effects, todo>>

\* The session is lost, or its leader leaves it.
LoseSession ==
  /\ session /\ joining = "no"
  /\ session' = FALSE
  /\ UNCHANGED <<stopped, stopping, effects, joining, registered, todo, calls>>

\* Stop sets stopped, then clears the leader, and only then drops the handlers.
Stop ==
  /\ stopping = "no"
  /\ stopped' = TRUE /\ stopping' = "flag"
  /\ calls' = [s \in Slot |->
                 [calls[s] EXCEPT !.disturbed = @ \/ UnderWay(s)]]
  /\ UNCHANGED <<session, effects, joining, registered, todo>>

StopClears ==
  /\ stopping = "flag" /\ joining = "no"
  /\ session' = FALSE /\ stopping' = "cleared"
  /\ UNCHANGED <<stopped, effects, joining, registered, todo, calls>>

StopUnregisters ==
  /\ stopping = "cleared"
  /\ stopping' = "done"
  /\ UnregisterAllHandlers
  /\ registered' = {}
  /\ UNCHANGED <<stopped, session, effects, joining, todo>>

\* Start, which refuses for 40 seconds: the calls of before have timed out.
Start ==
  /\ stopping = "done" /\ Quiet
  /\ stopped' = FALSE /\ stopping' = "no"
  /\ UNCHANGED <<session, effects, joining, registered, todo, calls>>

-----------------------------------------------------------------------------
Next ==
  \/ Begin \/ MethodCallAsyncHelper \/ SendSignal \/ Forget
  \/ \E s \in Slot : \/ MethodCallDispatcher(s) \/ TimeOut(s)
                     \/ Dispatch(s) \/ Handle(s)
  \/ OnSessionJoined \/ AddMethodHandlers \/ AddSignalHandlers
  \/ LoseSession \/ Stop \/ StopClears \/ StopUnregisters \/ Start

\* Threads go on, and the bus gives a call up in the end.
Fairness ==
  /\ WF_vars(MethodCallAsyncHelper)
  /\ WF_vars(AddMethodHandlers) /\ WF_vars(AddSignalHandlers)
  /\ WF_vars(StopClears) /\ WF_vars(StopUnregisters)
  /\ \A s \in Slot : WF_vars(TimeOut(s)) /\ WF_vars(Dispatch(s) \/ Handle(s))

Spec == Init /\ [][Next]_vars /\ Fairness

-----------------------------------------------------------------------------
(* Properties.                                                             *)

TypeOK ==
  /\ {stopped, session, effects} \subseteq BOOLEAN
  /\ stopping \in {"no", "flag", "cleared", "done"}
  /\ joining \in {"no", "handlers", "signals"}
  /\ registered \subseteq MethodHandlers
  /\ \A i \in DOMAIN todo : todo[i] \in Calls
  /\ \A s \in Slot :
       /\ calls[s].pc \in {"idle", "sent", "unsent", "answered",
                           "failed", "handling", "settled"}
       /\ calls[s].op \in Calls \cup Signals \cup {Idle.op}
       /\ calls[s].args \in 0..9
       /\ calls[s].told \in UNION {[1..n -> {"reply", "error", "invalid",
                                             "refused"}] : n \in 0..2}

\* The application is told of a call once at most, however replies, new
\* sessions and Stop cross (the reply handlers of ControllerClient.cc).
ToldOnce == \A s \in Slot : Len(calls[s].told) <= 1

\* Unless the client was stopped or got a new session meanwhile, the application
\* is told of every call that was sent, and of every signal of the leader; the
\* one exception is the reply of a field its manager does not know.  It is never
\* told twice.
UndisturbedTold ==
  /\ ToldOnce
  /\ \A s \in Slot :
       calls[s].pc = "settled" /\ ~calls[s].disturbed /\ calls[s].known =>
         calls[s].told # <<>>

Told(s) == {calls[s].told[i] : i \in DOMAIN calls[s].told}
ApplyEffect(op) == op \in ApplyTransitionEffectCalls \cup ApplyPulseEffectCalls

\* Client, service and description agree: what the client asks is delivered and
\* handled, and what the service answers the client takes; the exception is an
\* effect that is not found.
AnswersFit ==
  \A s \in Slot :
    /\ "refused" \notin Told(s)
    /\ calls[s].args # 0 /\ ~ApplyEffect(calls[s].op) =>
         Told(s) \cap {"invalid", "error"} = {}
    /\ calls[s].pc = "sent" =>
         \E h \in MessageHandlers : /\ h.method = calls[s].op.method
                                    /\ h.expects = calls[s].op.sends

\* No call stays open for ever, whatever becomes of the leader and the client.
CallsSettle == \A s \in Slot : calls[s].pc # "idle" ~> Settled(s)

\* A client that asks for an effect to be applied is told LSF_ERR_NOT_FOUND when
\* there is none, rather than of a message with invalid arguments.
EffectAnswered ==
  \A s \in Slot :
    /\ ApplyEffect(calls[s].op) /\ calls[s].args # 0
    /\ calls[s].pc = "settled" /\ ~calls[s].disturbed
    => calls[s].told = <<"reply">>
=============================================================================
