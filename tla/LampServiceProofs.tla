------------------------- MODULE LampServiceProofs -------------------------
(***************************************************************************)
(* For every set of sessions, of values and of dictionaries: the NVRAM     *)
(* mirrors the state, a factory reset forgets it, the newest controller is *)
(* told of every change, and what the lamp answers is true.                *)
(***************************************************************************)
EXTENDS LampService, TLAPS

-----------------------------------------------------------------------------
(* The state in NVRAM.                                                     *)

\* Nothing the loop does comes between the state and its copy: Durable is
\* inductive as it stands.
LEMMA SetStateDurable ==
  ASSUME Durable, NEW s, LAMP_SetState(s), cleared' = cleared
  PROVE  Durable'
BY DEF Durable, LAMP_SetState

LEMMA BootDurable ==
  ASSUME Boot
  PROVE  Durable'
BY DEF Durable, Boot

\* As long as nothing is set after the NVRAM was cleared, it stays empty.
Empty == cleared /\ ~touched => nvram = NoState

LEMMA SetStateEmpty ==
  ASSUME Empty, NEW s, LAMP_SetState(s), cleared' = cleared
  PROVE  Empty'
BY DEF Empty, LAMP_SetState

\* The loop's own steps that leave the state, its copy and the reset alone.
Apart == <<TheLampState, nvram, unwritten, touched, cleared>>

LEMMA ApartKeeps ==
  ASSUME Durable, Empty, UNCHANGED Apart
  PROVE  Durable' /\ Empty'
BY DEF Durable, Empty, Apart

LEMMA HandleKeeps ==
  ASSUME Durable, Empty, Handle
  PROVE  Durable' /\ Empty'
<1>1. CASE LAMP_HandleMessage
  <2>1. cleared' = cleared
    BY <1>1 DEF LAMP_HandleMessage
  <2>2. CASE TransitionLampState
    <3>1. CASE \E s : LAMP_SetState(s)
      BY <2>1, <3>1, SetStateDurable, SetStateEmpty
    <3>2. CASE Quiet
      BY <2>1, <3>2, ApartKeeps DEF Quiet, state, Apart
    <3> QED
      BY <2>2, <3>1, <3>2 DEF TransitionLampState
  <2>3. CASE PropSetHandler
    <3>1. CASE \E s : LAMP_SetState(s)
      BY <2>1, <3>1, SetStateDurable, SetStateEmpty
    <3>2. CASE Quiet
      BY <2>1, <3>2, ApartKeeps DEF Quiet, state, Apart
    <3> QED
      BY <2>3, <3>1, <3>2 DEF PropSetHandler, OEM_LS_Set
  <2>4. CASE ClearLampFault \/ ApplyPulseEffect \/ Get \/ GetAll
    BY <2>1, <2>4, ApartKeeps
       DEF ClearLampFault, ApplyPulseEffect, Get, GetAll, Quiet, state, Apart
  <2> QED
    BY <1>1, <2>2, <2>3, <2>4 DEF LAMP_HandleMessage
<1>2. CASE FactoryReset
  BY <1>2 DEF FactoryReset, Durable, Empty, AJ_NVRAM_Clear
<1>3. CASE AcceptSession \/ SessionLost \/ OtherMessage \/ Configured
  BY <1>3, ApartKeeps DEF AcceptSession, SessionLost, OtherMessage, Configured,
       state, Apart
<1> QED
  BY <1>1, <1>2, <1>3 DEF Handle

LEMMA NextKeeps ==
  ASSUME Durable, Empty, [Next]_vars
  PROVE  Durable' /\ Empty'
<1>1. CASE Handle
  BY <1>1, HandleKeeps
<1>2. CASE Callback
  <2>1. cleared' = cleared
    BY <1>2 DEF Callback
  <2>2. CASE \E s : LAMP_SetState(s)
    BY <2>1, <2>2, SetStateDurable, SetStateEmpty
  <2>3. CASE UNCHANGED state
    BY <2>1, <2>3, ApartKeeps DEF state, Apart
  <2> QED
    BY <1>2, <2>2, <2>3 DEF Callback, OEM_LS_Set
<1>3. CASE Pending
  BY <1>3 DEF Pending, Durable, Empty, AJ_NVRAM_Clear
<1>4. CASE Boot
  <2>1. Empty'
    BY <1>4 DEF Boot, Empty
  <2> QED
    BY <1>4, <2>1, BootDurable
<1>5. CASE Disconnect
  <2>1. CASE UNCHANGED Apart
    BY <2>1, ApartKeeps
  <2> QED
    BY <1>4, <1>5, <2>1 DEF Disconnect, Apart
<1>6. CASE Connect \/ Receive \/ NoMessage \/ Send \/ Join \/ Leave
           \/ Interrupt \/ UNCHANGED vars
  BY <1>6, ApartKeeps DEF Connect, Receive, NoMessage, Send, Join, Leave,
       Interrupt, vars, state, Apart
<1> QED
  BY <1>1, <1>2, <1>3, <1>4, <1>5, <1>6 DEF Next, PowerCycle

\* The state in NVRAM is the state of the lamp (LampState.c), except after a
\* write that failed and while a reset is waiting for the restart.
THEOREM StateIsDurable == Spec => []Durable
<1>1. Init => Durable /\ Empty
  BY DEF Init, Durable, Empty
<1>2. (Durable /\ Empty) /\ [Next]_vars => (Durable /\ Empty)'
  BY NextKeeps
<1> QED
  BY <1>1, <1>2, PTL DEF Spec

LEMMA OnlyBootEndsReset ==
  ASSUME [Next]_vars, cleared, ~cleared'
  PROVE  Boot
<1>1. CASE Handle
  BY <1>1 DEF Handle, LAMP_HandleMessage, FactoryReset, AcceptSession,
       SessionLost, OtherMessage, Configured
<1>2. CASE Callback \/ Pending \/ Connect \/ Receive \/ NoMessage \/ Send
           \/ Join \/ Leave \/ Interrupt \/ UNCHANGED vars
  BY <1>2 DEF Callback, Pending, Connect, Receive, NoMessage, Send, Join,
       Leave, Interrupt, vars
<1>3. CASE Disconnect
  BY <1>3 DEF Disconnect
<1> QED
  BY <1>1, <1>2, <1>3 DEF Next, PowerCycle

\* A factory reset (LampAboutData.c) ends with the lamp in the factory state,
\* unless the vendor's callback sets the state before the restart.
THEOREM ResetsForget == Spec => ResetForgets
<1>1. Init => Durable /\ Empty
  BY DEF Init, Durable, Empty
<1>2. (Durable /\ Empty) /\ [Next]_vars => (Durable /\ Empty)'
  BY NextKeeps
<1>3. Empty /\ [Next]_vars =>
        [cleared /\ ~cleared' /\ ~touched
           => TheLampState' = OEM_LS_SetFactoryState]_vars
  BY OnlyBootEndsReset DEF Empty, Boot, LAMP_InitializeState
<1> QED
  BY <1>1, <1>2, <1>3, PTL DEF Spec, ResetForgets

-----------------------------------------------------------------------------
(* What the newest controller knows.                                       *)

\* The session the lamp sends its signals in is the last multipoint one it
\* accepted, as long as that one is there.
Named == newest # 0 => ControllerSessionID = newest

Sessions ==
  /\ newest \in Session \cup {0}
  /\ joining \subseteq Session /\ live \subseteq Session
  /\ stale \subseteq live

\* A session that is about to be accepted has nobody in it yet.
Coming ==
  pc = "handle" /\ msg.type = "accept" =>
    msg.session \in Session \ (joining \cup live)

Told == newest \in stale => SendStateChanged

SessionInv == Named /\ Sessions /\ Coming /\ Told

LEMMA Received ==
  ASSUME NEW m \in Messages, m.type = "accept"
  PROVE  m.session \in Unused
<1>1. CASE m \in [type : {"accept"}, session : Unused, port : {42, 43},
                  multi : BOOLEAN]
  BY <1>1
<1>2. CASE m \in [type : {"lost"}, session : lost]
  BY <1>2
<1>3. CASE m \in [type : {"other", "restart", "reset", "passcode",
                          "ClearLampFault"}]
  BY <1>3
<1>4. CASE m \in [type : {"TransitionLampState"}, state : Dictionary]
  BY <1>4
<1>5. CASE m \in [type : {"ApplyPulseEffect"}, from : Dictionary,
                  to : Dictionary]
  BY <1>5
<1>6. CASE m \in [type : {"Set"}, field : {"OnOff", "Hue", "Version"},
                  value : Value]
  BY <1>6
<1>7. CASE m \in [type : {"Get", "GetAll"}, iface : Interface]
  BY <1>7
<1> QED
  BY <1>1, <1>2, <1>3, <1>4, <1>5, <1>6, <1>7 DEF Messages

LEMMA SetStateTold ==
  ASSUME SessionInv, NEW s, LAMP_SetState(s), pc' # "handle",
         UNCHANGED <<ControllerSessionID, newest, joining, live>>
  PROVE  SessionInv'
BY DEF SessionInv, Named, Sessions, Coming, Told, LAMP_SetState

\* What no signal and no session is part of.
LEMMA SessionsKeep ==
  ASSUME SessionInv, pc' # "handle",
         UNCHANGED <<ControllerSessionID, newest, joining, live, stale,
                     SendStateChanged>>
  PROVE  SessionInv'
BY DEF SessionInv, Named, Sessions, Coming, Told

LEMMA HandleTold ==
  ASSUME SessionInv, Handle
  PROVE  SessionInv'
<1>1. pc' # "handle" /\ pc = "handle"
  BY DEF Handle
<1>2. CASE LAMP_HandleMessage
  <2>1. UNCHANGED <<ControllerSessionID, newest, joining, live>>
    BY <1>2 DEF LAMP_HandleMessage, bus
  <2>2. CASE \E s : LAMP_SetState(s)
    BY <1>1, <2>1, <2>2, SetStateTold
  <2>3. CASE Quiet
    BY <1>1, <2>1, <2>3, SessionsKeep DEF Quiet, state
  <2> QED
    BY <1>2, <2>2, <2>3 DEF LAMP_HandleMessage, ClearLampFault,
         TransitionLampState, ApplyPulseEffect, PropSetHandler, OEM_LS_Set,
         Get, GetAll
<1>3. CASE AcceptSession
  <2>1. UNCHANGED <<SendStateChanged, stale, live>>
    BY <1>3 DEF AcceptSession, state
  <2>2. msg.session \in Session \ (joining \cup live)
    BY <1>1, <1>3 DEF AcceptSession, SessionInv, Coming
  <2>3. \/ newest' = msg.session /\ ControllerSessionID' = msg.session
        \/ newest' = newest /\ ControllerSessionID' = ControllerSessionID
    BY <1>3 DEF AcceptSession, ParseOptions
  <2>4. joining' \subseteq joining \cup {msg.session}
    BY <1>3 DEF AcceptSession
  <2> QED
    BY <1>1, <2>1, <2>2, <2>3, <2>4
       DEF SessionInv, Named, Sessions, Coming, Told
<1>4. CASE SessionLost
  <2>1. UNCHANGED <<joining, live, stale>>
    BY <1>4 DEF SessionLost, state
  <2>2. Named' /\ newest' \in {newest, 0}
    BY <1>4 DEF SessionLost, Ours, signal, SessionInv, Named
  <2>3. newest' \in stale => SendStateChanged'
    BY <1>4, <2>2, LampServiceAssumption DEF SessionLost, Ours, signal,
         SessionInv, Named, Sessions, Told
  <2> QED
    BY <1>1, <2>1, <2>2, <2>3 DEF SessionInv, Sessions, Coming, Told
<1>5. CASE OtherMessage \/ FactoryReset \/ Configured
  BY <1>1, <1>5, SessionsKeep DEF OtherMessage, FactoryReset, Configured, signal,
       state, bus
<1> QED
  BY <1>2, <1>3, <1>4, <1>5 DEF Handle

LEMMA SendTold ==
  ASSUME SessionInv, Send
  PROVE  SessionInv'
<1>1. UNCHANGED <<ControllerSessionID, newest, joining, live>> /\ pc' # "handle"
  BY DEF Send, bus
<1>2. stale' \subseteq stale
  BY DEF Send, CheckForStateChanged
<1>3. newest \in stale' => SendStateChanged'
  BY LampServiceAssumption DEF Send, CheckForStateChanged, SessionInv, Named,
       Sessions, Told
<1> QED
  BY <1>1, <1>2, <1>3 DEF SessionInv, Named, Sessions, Coming, Told

LEMMA NoSessionsTold ==
  ASSUME NoSessions, stale' = {}, pc' # "handle"
  PROVE  SessionInv'
BY DEF NoSessions, SessionInv, Named, Sessions, Coming, Told

LEMMA NextTold ==
  ASSUME SessionInv, [Next]_vars
  PROVE  SessionInv'
<1>1. CASE Handle
  BY <1>1, HandleTold
<1>2. CASE Send
  BY <1>2, SendTold
<1>3. CASE Callback
  <2>1. UNCHANGED <<ControllerSessionID, newest, joining, live>> /\ pc' # "handle"
    BY <1>3 DEF Callback, bus
  <2>2. CASE \E s : LAMP_SetState(s)
    BY <2>1, <2>2, SetStateTold
  <2>3. CASE UNCHANGED <<state, SendStateChanged>>
    BY <2>1, <2>3, SessionsKeep DEF state
  <2> QED
    BY <1>3, <2>2, <2>3 DEF Callback, OEM_LS_Set
<1>4. CASE Boot
  BY <1>4, NoSessionsTold DEF Boot
<1>5. CASE Disconnect
  BY <1>4, <1>5, NoSessionsTold DEF Disconnect
<1>6. CASE Receive
  <2>1. UNCHANGED <<ControllerSessionID, newest, joining, live, stale,
                    SendStateChanged>>
    BY <1>6 DEF Receive, signal, state, bus
  <2>2. msg' \in Messages
    BY <1>6 DEF Receive
  <2>3. Coming'
    BY <2>1, <2>2, Received DEF Coming, Unused
  <2> QED
    BY <2>1, <2>3 DEF SessionInv, Named, Sessions, Told
<1>7. CASE Connect \/ NoMessage \/ Pending
  BY <1>7, SessionsKeep DEF Connect, NoMessage, Pending, signal, state, bus
<1>8. CASE Interrupt
  <2>1. pc' # "handle" /\ UNCHANGED <<signal, state, bus>>
    BY <1>8 DEF Interrupt, loop
  <2> QED
    BY <2>1, SessionsKeep DEF signal, state, bus
<1>9. CASE Join
  <2>1. UNCHANGED <<pc, msg, ControllerSessionID, SendStateChanged, stale, newest>>
    BY <1>9 DEF Join, loop, signal, state
  <2>2. joining' \cup live' \subseteq joining \cup live /\ live \subseteq live'
    BY <1>9 DEF Join
  <2> QED
    BY <2>1, <2>2 DEF SessionInv, Named, Sessions, Coming, Told
<1>10. CASE Leave
  <2>1. UNCHANGED <<pc, msg, ControllerSessionID, SendStateChanged, newest, joining>>
    BY <1>10 DEF Leave, loop, signal
  <2>2. live' \subseteq live /\ stale' \subseteq stale /\ stale' \subseteq live'
    BY <1>10 DEF Leave, SessionInv, Sessions
  <2> QED
    BY <2>1, <2>2 DEF SessionInv, Named, Sessions, Coming, Told
<1>11. CASE UNCHANGED vars
  BY <1>11 DEF vars, loop, signal, state, bus, SessionInv, Named, Sessions,
       Coming, Told
<1> QED
  BY <1>1, <1>2, <1>3, <1>4, <1>5, <1>6, <1>7, <1>8, <1>9, <1>10, <1>11
     DEF Next, PowerCycle

\* The peers of the last multipoint session accepted never miss a change of
\* the state for good (LampService.c): the signal is still to be sent, and in
\* their session.
THEOREM NewestIsTold == Spec => []NewestTold
<1>1. Init => SessionInv
  BY DEF Init, SessionInv, Named, Sessions, Coming, Told
<1>2. SessionInv /\ [Next]_vars => SessionInv'
  BY NextTold
<1>3. SessionInv => NewestTold
  BY LampServiceAssumption DEF SessionInv, Named, Sessions, Told, NewestTold
<1> QED
  BY <1>1, <1>2, <1>3, PTL DEF Spec

-----------------------------------------------------------------------------
(* What the lamp answers.                                                  *)

StateTypes == TheLampState \in State /\ nvram \in State \cup {NoState}

\* What a message that is being handled holds, and that the state is still the
\* one it met.
Handling ==
  pc = "handle" =>
    /\ was = TheLampState
    /\ msg.type = "TransitionLampState" => msg.state \in Dictionary
    /\ msg.type = "Set" => msg.value \in Value
    /\ msg.type = "ApplyPulseEffect" => {msg.from, msg.to} \subseteq Dictionary
    /\ msg.type \in {"Get", "GetAll"} => msg.iface \in Interface

\* An answer belongs to the message that is there, and only then is there one.
OneAtATime ==
  /\ pc \notin {"handle", "send"} => msg.type = "none"
  /\ pc # "send" => reply = "none"

AnswerInv == StateTypes /\ Handling /\ OneAtATime /\ AnswerTrue

LEMMA DictionaryFields ==
  ASSUME NEW d \in Dictionary
  PROVE  \E F \in SUBSET Field : d.fields \in [F -> Value]
BY LampServiceAssumption

LEMMA OverIsState ==
  ASSUME NEW s \in State, NEW F \in SUBSET Field, NEW known \in [F -> Value]
  PROVE  /\ Over(s, known) \in State
         /\ F = Field => Over(s, known) = known
BY DEF Over, State

LEMMA FactoryIsState == OEM_LS_SetFactoryState \in State
BY LampServiceAssumption DEF OEM_LS_SetFactoryState, State

LEMMA SetStateTypes ==
  ASSUME StateTypes, NEW s \in State, LAMP_SetState(s)
  PROVE  StateTypes' /\ TheLampState' = s
BY DEF StateTypes, LAMP_SetState

LEMMA AllListed ==
  ASSUME NEW i \in Interface
  PROVE  /\ Described(i) \cup AskedOf(i) \subseteq PropGetHandler(i)
         /\ Described(i) \cup ReadOf(i) \subseteq GetAllProps(i)
<1>1. CASE i = "LampService"
  BY <1>1 DEF Described, AskedOf, ReadOf, PropGetHandler, GetAllProps,
       ServiceProperties
<1>2. CASE i = "LampParameters"
  BY <1>2 DEF Described, AskedOf, ReadOf, PropGetHandler, GetAllProps,
       ParameterProperties, LampParameters, OEM_LS_PopulateParameters
<1>3. CASE i = "LampDetails"
  BY <1>3 DEF Described, AskedOf, ReadOf, PropGetHandler, GetAllProps,
       Details, LampDetails, OEM_LS_PopulateDetails
<1>4. CASE i = "LampState"
  BY <1>4 DEF Described, AskedOf, ReadOf, PropGetHandler, GetAllProps,
       Field, MarshalStateField, LAMP_MarshalState, StateRead
<1> QED
  BY <1>1, <1>2, <1>3, <1>4 DEF Interface

LEMMA ReceivedTypes ==
  ASSUME NEW m \in Messages
  PROVE  /\ m.type = "TransitionLampState" => m.state \in Dictionary
         /\ m.type = "Set" => m.value \in Value
         /\ m.type = "ApplyPulseEffect" => {m.from, m.to} \subseteq Dictionary
         /\ m.type \in {"Get", "GetAll"} => m.iface \in Interface
<1>1. CASE m \in [type : {"accept"}, session : Unused, port : {42, 43},
                  multi : BOOLEAN]
  BY <1>1
<1>2. CASE m \in [type : {"lost"}, session : lost]
  BY <1>2
<1>3. CASE m \in [type : {"other", "restart", "reset", "passcode",
                          "ClearLampFault"}]
  BY <1>3
<1>4. CASE m \in [type : {"TransitionLampState"}, state : Dictionary]
  BY <1>4
<1>5. CASE m \in [type : {"ApplyPulseEffect"}, from : Dictionary,
                  to : Dictionary]
  BY <1>5
<1>6. CASE m \in [type : {"Set"}, field : {"OnOff", "Hue", "Version"},
                  value : Value]
  BY <1>6
<1>7. CASE m \in [type : {"Get", "GetAll"}, iface : Interface]
  BY <1>7
<1> QED
  BY <1>1, <1>2, <1>3, <1>4, <1>5, <1>6, <1>7 DEF Messages

\* Where there is no answer there is nothing to keep.
LEMMA NoAnswer ==
  ASSUME StateTypes', OneAtATime', pc' # "handle",
         reply' = "none", msg'.type \notin {"Get", "GetAll"}
  PROVE  AnswerInv'
BY DEF AnswerInv, Handling, AnswerTrue, CarriedOut, PropertiesKnown

LEMMA TransitionAnswers ==
  ASSUME AnswerInv, Handle, TransitionLampState
  PROVE  StateTypes' /\ CarriedOut'
<1> DEFINE known == msg.state.fields
<1>1. pc = "handle" /\ was = TheLampState /\ msg.state \in Dictionary
  BY DEF Handle, TransitionLampState, AnswerInv, Handling
<1>2. PICK F \in SUBSET Field : known \in [F -> Value]
  BY <1>1, DictionaryFields
<1>3. TheLampState \in State /\ DOMAIN known = F
  BY <1>2 DEF AnswerInv, StateTypes
<1>4. UNCHANGED <<msg, was>> /\ msg.type = "TransitionLampState"
  BY DEF Handle, TransitionLampState
<1>5. CASE reply' = "LAMP_OK"
  <2>1. LAMP_SetState(Over(was, known))
    BY <1>1, <1>2, <1>3, <1>5, OverIsState DEF TransitionLampState,
         LAMP_UnmarshalState, All, OEM_LS_TransitionStateFields
  <2>2. Over(was, known) \in State
    BY <1>1, <1>2, <1>3, OverIsState
  <2>3. StateTypes' /\ TheLampState' = Over(was, known)
    BY <2>1, <2>2, SetStateTypes DEF AnswerInv
  <2> QED
    BY <1>4, <1>5, <2>3 DEF CarriedOut
<1>6. CASE reply' # "LAMP_OK"
  <2>1. UNCHANGED state
    BY <1>6 DEF TransitionLampState, Quiet
  <2> QED
    BY <1>1, <1>4, <1>6, <2>1 DEF state, AnswerInv, StateTypes, CarriedOut
<1> QED
  BY <1>5, <1>6

LEMMA SetAnswers ==
  ASSUME AnswerInv, Handle, PropSetHandler
  PROVE  StateTypes' /\ CarriedOut'
<1>1. pc = "handle" /\ was = TheLampState /\ msg.value \in Value
  BY DEF Handle, PropSetHandler, AnswerInv, Handling
<1>2. TheLampState \in [Field -> Value]
  BY DEF AnswerInv, StateTypes, State
<1>3. UNCHANGED <<msg, was>> /\ msg.type = "Set"
  BY DEF Handle, PropSetHandler
<1>4. CASE msg.field \in Field
  <2> DEFINE new == [TheLampState EXCEPT ![msg.field] = msg.value]
  <2>1. LAMP_SetState(new) /\ reply' = "LAMP_OK"
    BY <1>4 DEF PropSetHandler, OEM_LS_Set
  <2>2. new \in State /\ new = Over(was, [f \in {msg.field} |-> msg.value])
    BY <1>1, <1>2, <1>4 DEF State, Over
  <2>3. StateTypes' /\ TheLampState' = new
    <3> HIDE DEF new
    <3> QED BY <2>1, <2>2, SetStateTypes DEF AnswerInv
  <2> QED
    BY <1>3, <2>1, <2>2, <2>3 DEF CarriedOut
<1>5. CASE msg.field \notin Field
  <2>1. UNCHANGED state /\ reply' = "DISALLOWED"
    BY <1>5 DEF PropSetHandler, Quiet
  <2> QED
    BY <1>1, <1>3, <2>1 DEF state, AnswerInv, StateTypes, CarriedOut
<1> QED
  BY <1>4, <1>5

LEMMA PulseAnswers ==
  ASSUME AnswerInv, Handle, ApplyPulseEffect
  PROVE  StateTypes' /\ CarriedOut'
<1>1. pc = "handle" /\ was = TheLampState
  BY DEF Handle, AnswerInv, Handling
<1>2. UNCHANGED <<msg, was, state>> /\ msg.type = "ApplyPulseEffect"
  BY DEF Handle, ApplyPulseEffect, Quiet
<1> DEFINE from == msg.from.fields
           to == msg.to.fields
<1>3. msg.from \in Dictionary /\ msg.to \in Dictionary
  BY <1>1, <1>2 DEF AnswerInv, Handling
<1>4. PICK F \in SUBSET Field : from \in [F -> Value]
  BY <1>3, DictionaryFields
<1>5. PICK G \in SUBSET Field : to \in [G -> Value]
  BY <1>3, DictionaryFields
<1>6. was \in State
  BY <1>1 DEF AnswerInv, StateTypes
<1>7. DOMAIN from = F /\ DOMAIN to = G
  BY <1>4, <1>5
<1>8. /\ All(from) => Over(was, from) = from
      /\ All(to) => Over(was, to) = to
  <2> HIDE DEF from, to
  <2> QED BY <1>4, <1>5, <1>6, <1>7, OverIsState DEF All
<1>9. reply' = "LAMP_OK" =>
        pulse' = [from |-> Over(was, from), to |-> Over(was, to)]
  <2>1. CASE All(from) /\ All(to)
    BY <1>8, <2>1 DEF ApplyPulseEffect, LAMP_UnmarshalState
  <2>2. CASE ~(All(from) /\ All(to))
    BY <1>1, <2>2 DEF ApplyPulseEffect, LAMP_UnmarshalState,
         OEM_LS_ApplyPulseEffectOnStateFields
  <2> QED
    BY <2>1, <2>2
<1> QED
  BY <1>1, <1>2, <1>9 DEF state, AnswerInv, StateTypes, CarriedOut

LEMMA HandleAnswers ==
  ASSUME AnswerInv, Handle
  PROVE  AnswerInv'
<1>1. pc = "handle" /\ pc' = "send" /\ UNCHANGED <<msg, was>>
  BY DEF Handle
<1>2. Handling' /\ OneAtATime'
  BY <1>1 DEF Handling, OneAtATime
<1>3. was = TheLampState /\ reply = "none"
  BY <1>1 DEF AnswerInv, Handling, OneAtATime
<1>4. CASE TransitionLampState \/ PropSetHandler \/ ApplyPulseEffect
  <2>1. msg.type \notin {"Get", "GetAll"}
    BY <1>4 DEF TransitionLampState, PropSetHandler, ApplyPulseEffect
  <2> QED
    BY <1>1, <1>2, <1>4, <2>1, TransitionAnswers, SetAnswers, PulseAnswers
       DEF AnswerInv, AnswerTrue, PropertiesKnown
<1>5. CASE ClearLampFault \/ Get \/ GetAll
  <2>1. UNCHANGED state
    BY <1>5 DEF ClearLampFault, Get, GetAll, Quiet
  <2>2. msg.type \in {"Get", "GetAll"} => msg.iface \in Interface
    BY <1>1 DEF AnswerInv, Handling
  <2>3. PropertiesKnown'
    BY <1>1, <1>5, <2>2, AllListed
       DEF ClearLampFault, Get, GetAll, PropertiesKnown
  <2>4. StateTypes' /\ CarriedOut'
    BY <1>1, <1>3, <1>5, <2>1 DEF ClearLampFault, Get, GetAll, state, AnswerInv,
         StateTypes, CarriedOut
  <2> QED
    BY <1>2, <2>3, <2>4 DEF AnswerInv, AnswerTrue
<1>6. CASE AcceptSession \/ SessionLost \/ OtherMessage \/ FactoryReset
           \/ Configured
  <2>1. reply' = "none" /\ msg'.type \notin {"Get", "GetAll"}
    BY <1>1, <1>3, <1>6 DEF AcceptSession, SessionLost, OtherMessage,
         FactoryReset, Configured
  <2>2. StateTypes'
    BY <1>6 DEF AcceptSession, SessionLost, OtherMessage, FactoryReset,
         Configured, state, AnswerInv, StateTypes, AJ_NVRAM_Clear
  <2> QED
    BY <1>1, <1>2, <2>1, <2>2, NoAnswer
<1> QED
  BY <1>4, <1>5, <1>6 DEF Handle, LAMP_HandleMessage

LEMMA BootAnswers ==
  ASSUME AnswerInv, Boot
  PROVE  AnswerInv'
<1>1. LAMP_InitializeState \in State
  BY FactoryIsState DEF LAMP_InitializeState, AnswerInv, StateTypes
<1>2. StateTypes'
  BY <1>1 DEF Boot, StateTypes
<1>3. pc' = "connect" /\ msg' = NoMsg /\ reply' = "none"
  BY DEF Boot
<1>4. msg'.type = "none" /\ OneAtATime'
  BY <1>3 DEF NoMsg, OneAtATime
<1> QED
  BY <1>2, <1>3, <1>4, NoAnswer

LEMMA NextAnswers ==
  ASSUME AnswerInv, [Next]_vars
  PROVE  AnswerInv'
<1>1. CASE Handle
  BY <1>1, HandleAnswers
<1>2. CASE Boot
  BY <1>2, BootAnswers
<1>3. CASE Receive
  <2>1. pc' = "handle" /\ msg' \in Messages /\ was' = TheLampState
        /\ UNCHANGED <<reply, TheLampState, nvram>> /\ pc = "receive"
    BY <1>3 DEF Receive, state
  <2>2. Handling'
    BY <2>1, ReceivedTypes DEF Handling
  <2>3. AnswerTrue'
    BY <2>1 DEF AnswerTrue, CarriedOut, PropertiesKnown
  <2> QED
    BY <2>1, <2>2, <2>3 DEF AnswerInv, StateTypes, OneAtATime
<1>4. CASE Send
  <2>1. pc' = "callback" /\ msg' = NoMsg /\ reply' = "none"
        /\ UNCHANGED <<TheLampState, nvram>>
    BY <1>4 DEF Send
  <2>2. msg'.type = "none" /\ OneAtATime' /\ StateTypes'
    BY <2>1 DEF NoMsg, OneAtATime, AnswerInv, StateTypes
  <2> QED
    BY <2>1, <2>2, NoAnswer
<1>5. CASE NoMessage \/ Connect \/ Callback \/ Pending
           \/ (Disconnect /\ ~Boot)
  <2>1. pc \notin {"handle", "send"} /\ pc' # "handle" /\ UNCHANGED <<msg, reply>>
    BY <1>5 DEF NoMessage, Connect, Callback, Pending, Disconnect
  <2>2. msg'.type = "none" /\ reply' = "none"
    BY <2>1 DEF AnswerInv, OneAtATime
  <2>3. StateTypes'
    <3>1. CASE \E v \in Value : OEM_LS_Set("OnOff", v)
      <4>1. PICK v \in Value :
              LAMP_SetState([TheLampState EXCEPT !["OnOff"] = v])
        BY <3>1 DEF OEM_LS_Set
      <4>2. [TheLampState EXCEPT !["OnOff"] = v] \in State
        BY DEF AnswerInv, StateTypes, State
      <4> QED
        BY <4>1, <4>2, SetStateTypes DEF AnswerInv
    <3>2. CASE UNCHANGED TheLampState /\ nvram' \in {nvram, NoState}
      BY <3>2 DEF AnswerInv, StateTypes
    <3> QED
      BY <1>5, <3>1, <3>2 DEF NoMessage, Connect, Callback, Pending, Disconnect,
           state, AJ_NVRAM_Clear
  <2> QED
    BY <2>1, <2>2, <2>3, NoAnswer DEF OneAtATime
<1>6. CASE Join \/ Leave \/ Interrupt \/ UNCHANGED vars
  <2>1. UNCHANGED <<loop, TheLampState, nvram, pulse, was>>
    BY <1>6 DEF Join, Leave, Interrupt, vars, state
  <2> QED
    BY <2>1 DEF loop, AnswerInv, StateTypes, Handling, OneAtATime, AnswerTrue,
         CarriedOut, PropertiesKnown
<1> QED
  BY <1>1, <1>2, <1>3, <1>4, <1>5, <1>6 DEF Next, PowerCycle, Disconnect

\* What the lamp answers is so (LAMP_HandleMessage of LampService.c): a request
\* that is answered LAMP_OK has been carried out, one that is not has changed
\* nothing, and every property that is described or asked for is listed.
THEOREM AnswersAreTrue == Spec => []AnswerTrue
<1>1. Init => AnswerInv
  BY FactoryIsState DEF Init, AnswerInv, StateTypes, Handling, OneAtATime,
       NoMsg, AnswerTrue, CarriedOut, PropertiesKnown
<1>2. AnswerInv /\ [Next]_vars => AnswerInv'
  BY NextAnswers
<1>3. AnswerInv => AnswerTrue
  BY DEF AnswerInv
<1> QED
  BY <1>1, <1>2, <1>3, PTL DEF Spec

=============================================================================
