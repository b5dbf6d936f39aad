----------------------------- MODULE LampService -----------------------------
(***************************************************************************)
(* The lamp itself: the service of the thin core library that a lamp runs  *)
(* (LampService.c, LampState.c, LampAboutData.c and the sample OEM layer,  *)
(* OEM_LS_Code.c), and what a Controller Service or a client reads of it   *)
(* (LampParameters, LampDetails and LampState of LSFTypes.cc).             *)
(*                                                                         *)
(* The service is one loop: connect, receive one message, handle it, send  *)
(* what is pending, call the vendor's callback, disconnect if asked to.    *)
(* Beside it run the bus, whose sessions begin and end at any moment, the  *)
(* vendor's interrupts, which set flags, and the mains switch.             *)
(***************************************************************************)
EXTENDS Integers, FiniteSets

CONSTANTS
  Session,      \* identifiers the bus gives to sessions
  Value,        \* values of a field of the lamp's state
  Dictionary,   \* the a{sv} arguments controllers send: sets of fields with
                \* their values, and whether an unknown field follows them
  Vendor        \* whether the vendor's code uses the callback and the flags

Field == {"Hue", "Saturation", "ColorTemp", "Brightness", "OnOff"}

ASSUME LampServiceAssumption ==
  /\ 0 \notin Session
  /\ {0, 1} \subseteq Value
  /\ \A d \in Dictionary :
       /\ DOMAIN d = {"fields", "unknown"}
       /\ d.unknown \in BOOLEAN
       /\ \E F \in SUBSET Field : d.fields \in [F -> Value]
  /\ Vendor \in BOOLEAN

State == [Field -> Value]
NoState == [f \in {} |-> 0]

VARIABLES
  pc,           \* where the loop is
  msg,          \* the message being handled
  reply,        \* the answer to it
  listed,       \* the properties it holds
  status,       \* what the loop goes by
  ControllerSessionID,
  SendStateChanged,
  PendingFaultNotification,
  PendingRestartRequest,
  PendingFactoryResetRequest,
  TheLampState,
  pulse,        \* the pulse effect last given to the vendor's layer
  nvram,        \* the dataset LAMP_STATE_FD
  joining,      \* sessions accepted, the joiner not yet in them
  live,         \* sessions of this lamp with a peer in them
  lost,         \* sessions that ended, the lamp not yet told
  newest,       \* the last multipoint session accepted, 0 if none
  stale,        \* sessions whose peers miss a change of the state
  was,          \* the state when the message arrived
  unwritten,    \* the last write of a state failed
  cleared,      \* the NVRAM was cleared for a factory reset
  touched       \* the state was set after that

loop == <<pc, msg, reply, listed, status>>
flags == <<PendingFaultNotification, PendingRestartRequest,
           PendingFactoryResetRequest>>
signal == <<ControllerSessionID, SendStateChanged>>
state == <<TheLampState, nvram, stale, unwritten, touched>>
bus == <<joining, live, lost, newest>>
vars == <<loop, flags, signal, state, pulse, bus, was, cleared>>

NoMsg == [type |-> "none"]
NoPulse == [from |-> NoState, to |-> NoState]

-----------------------------------------------------------------------------
(* The interfaces of the lamp, and what others read through them.          *)

Interface == {"LampService", "LampParameters", "LampDetails", "LampState"}

\* The properties each interface describes.
Details == {"Make", "Model", "Type", "LampType", "LampBaseType",
            "LampBeamAngle", "Dimmable", "Color", "VariableColorTemp",
            "HasEffects", "MinVoltage", "MaxVoltage", "Wattage",
            "IncandescentEquivalent", "MaxLumens", "MinTemperature",
            "MaxTemperature", "ColorRenderingIndex", "LampID"}

Described(i) ==
  {"Version"} \cup
  CASE i = "LampService" -> {"LampServiceVersion", "LampFaults"}
    [] i = "LampParameters" -> {"Energy_Usage_Milliwatts",
                                "Brightness_Lumens"}
    [] i = "LampDetails" -> Details
    [] i = "LampState" -> Field

\* What Get answers: with PropGetHandler, or MarshalStateField for the fields
\* of the state.
ServiceProperties == {"Version", "LampServiceVersion", "LampFaults"}
ParameterProperties == {"Version", "Energy_Usage_Milliwatts",
                        "Brightness_Lumens"}
MarshalStateField == {"OnOff", "Hue", "Saturation", "ColorTemp", "Brightness"}
PropGetHandler(i) ==
  CASE i = "LampService" -> ServiceProperties
    [] i = "LampParameters" -> ParameterProperties
    [] i = "LampDetails" -> {"Version"} \cup Details
    [] i = "LampState" -> {"Version"} \cup MarshalStateField

\* What GetAll answers, from what the vendor lists.
OEM_LS_PopulateParameters == {"Energy_Usage_Milliwatts", "Brightness_Lumens"}
OEM_LS_PopulateDetails ==
  {"LampVersion", "Make", "Model", "Type", "LampType", "LampBaseType",
   "LampBeamAngle", "Dimmable", "Color", "VariableColorTemp", "HasEffects",
   "MinVoltage", "MaxVoltage", "Wattage", "IncandescentEquivalent",
   "MaxLumens", "MinTemperature", "MaxTemperature", "ColorRenderingIndex",
   "LampID"}
LAMP_MarshalState == {"Hue", "Saturation", "ColorTemp", "Brightness", "OnOff"}

\* Mutation: the details are those of the sample lamp, which has no name.
GetAllPropsNameless(i) ==
  {"Version"} \cup (Described(i) \ {"LampID"})

GetAllProps(i) ==
  {"Version"} \cup
  CASE i = "LampService" -> {"LampServiceVersion", "LampFaults"}
    [] i = "LampParameters" -> OEM_LS_PopulateParameters
    [] i = "LampDetails" -> OEM_LS_PopulateDetails
    [] i = "LampState" -> LAMP_MarshalState

\* What the Controller Service and the Controller Client look for in the
\* dictionaries they receive, and ask for one by one.
LampParameters == {"Energy_Usage_Milliwatts", "Brightness_Lumens"}
LampDetails ==
  {"Make", "Model", "Type", "LampType", "LampBaseType", "LampBeamAngle",
   "Dimmable", "Color", "VariableColorTemp", "HasEffects", "MaxVoltage",
   "MinVoltage", "Wattage", "IncandescentEquivalent", "MaxLumens",
   "MinTemperature", "MaxTemperature", "ColorRenderingIndex", "LampID"}
StateRead == {"OnOff", "Hue", "Saturation", "ColorTemp", "Brightness"}
ReadOf(i) ==
  CASE i = "LampService" -> {}
    [] i = "LampParameters" -> LampParameters
    [] i = "LampDetails" -> LampDetails
    [] i = "LampState" -> StateRead
AskedOf(i) ==
  CASE i = "LampService" -> {"LampFaults", "LampServiceVersion"}
    [] i = "LampParameters" -> LampParameters
    [] i = "LampDetails" -> {}
    [] i = "LampState" -> StateRead

-----------------------------------------------------------------------------
(* The state of the lamp and its copy in NVRAM.                            *)

OEM_LS_SetFactoryState == [f \in Field |-> IF f = "OnOff" THEN 1 ELSE 0]

\* What the NVRAM holds, or the factory state the first time.
LAMP_InitializeState ==
  IF nvram # NoState THEN nvram ELSE OEM_LS_SetFactoryState

\* Mutation: written whenever it is set, and only then changed: the old state
\* is what the NVRAM keeps.
SetStateLate(s) ==
  /\ TheLampState' = s
  /\ nvram' = TheLampState /\ unwritten' = FALSE
  /\ stale' = live
  /\ SendStateChanged' = TRUE
  /\ touched' = cleared

\* Opening the dataset for writing may fail, the copy in memory is changed
\* all the same.
LAMP_SetState(s) ==
  /\ TheLampState' = s
  /\ \/ /\ s = TheLampState
        /\ UNCHANGED <<nvram, unwritten>>
     \/ /\ s # TheLampState
        /\ nvram' = s /\ unwritten' = FALSE
     \/ /\ s # TheLampState
        /\ UNCHANGED nvram /\ unwritten' = TRUE
  /\ stale' = IF s # TheLampState THEN live ELSE stale
  /\ SendStateChanged' = TRUE
  /\ touched' = (touched \/ (cleared /\ s # TheLampState))

\* The fields of a dictionary up to the first that is not known.  The result
\* LAMP_ERR_MESSAGE is looked at by nobody.
LAMP_UnmarshalState(d) == d.fields
All(s) == DOMAIN s = Field

Over(s, known) == [f \in Field |-> IF f \in DOMAIN known THEN known[f]
                                   ELSE s[f]]

-----------------------------------------------------------------------------
(* The methods and properties: LAMP_HandleMessage.                         *)

Quiet == UNCHANGED <<state, SendStateChanged>>

ClearLampFault ==
  /\ msg.type = "ClearLampFault"
  /\ reply' = "LAMP_OK"
  /\ Quiet /\ UNCHANGED pulse

OEM_LS_TransitionStateFields(known) == Over(TheLampState, known)

TransitionLampState ==
  LET known == LAMP_UnmarshalState(msg.state)
  IN /\ msg.type = "TransitionLampState"
     /\ \/ /\ All(known)
           /\ LAMP_SetState(known)
           /\ reply' = "LAMP_OK"
        \/ /\ ~All(known) /\ DOMAIN known # {}
           /\ LAMP_SetState(OEM_LS_TransitionStateFields(known))
           /\ reply' = "LAMP_OK"
        \/ /\ DOMAIN known = {}
           /\ reply' = "LAMP_ERR_INVALID_ARGS"
           /\ Quiet
     /\ UNCHANGED pulse

\* Mutation: the target starts from where the pulse starts.
PulseFromThere(from, to) ==
  [from |-> Over(TheLampState, from),
   to |-> Over(Over(TheLampState, from), to)]

\* The states a pulse runs between; the fields not given are the lamp's own.
OEM_LS_ApplyPulseEffectOnStateFields(from, to) ==
  [from |-> Over(TheLampState, from), to |-> Over(TheLampState, to)]

ApplyPulseEffect ==
  LET from == LAMP_UnmarshalState(msg.from)
      to == LAMP_UnmarshalState(msg.to)
  IN /\ msg.type = "ApplyPulseEffect"
     /\ \/ /\ All(from) /\ All(to)
           /\ pulse' = [from |-> from, to |-> to]
           /\ reply' = "LAMP_OK"
        \/ /\ ~(All(from) /\ All(to)) /\ DOMAIN to # {}
           /\ pulse' = OEM_LS_ApplyPulseEffectOnStateFields(from, to)
           /\ reply' = "LAMP_OK"
        \/ /\ DOMAIN to = {}
           /\ reply' = "LAMP_ERR_INVALID_ARGS"
           /\ UNCHANGED pulse
     /\ Quiet

\* OEM_LS_SetOnOff, OEM_LS_SetHue and the others: the state with one field
\* replaced.
OEM_LS_Set(f, v) == LAMP_SetState([TheLampState EXCEPT ![f] = v])

PropSetHandler ==
  /\ msg.type = "Set"
  /\ \/ /\ msg.field \in Field
        /\ OEM_LS_Set(msg.field, msg.value)
        /\ reply' = "LAMP_OK"
     \/ /\ msg.field \notin Field
        /\ reply' = "DISALLOWED"
        /\ Quiet
  /\ UNCHANGED pulse

Get ==
  /\ msg.type = "Get"
  /\ reply' = "LAMP_OK" /\ listed' = PropGetHandler(msg.iface)
  /\ Quiet /\ UNCHANGED pulse

GetAll ==
  /\ msg.type = "GetAll"
  /\ reply' = "LAMP_OK" /\ listed' = GetAllProps(msg.iface)
  /\ Quiet /\ UNCHANGED pulse

LAMP_HandleMessage ==
  /\ status' = "OK"
  /\ \/ /\ \/ ClearLampFault \/ TransitionLampState \/ ApplyPulseEffect
           \/ PropSetHandler
        /\ UNCHANGED listed
     \/ Get \/ GetAll
  /\ UNCHANGED <<flags, ControllerSessionID, bus, cleared>>

-----------------------------------------------------------------------------
(* The messages of the bus and of the Config service.                      *)

\* A joiner asks for a session.  Only the port of the lamp is open; of the
\* options only the multipoint one counts.
ParseOptions(m) == m.multi
AcceptSession ==
  /\ msg.type = "accept"
  /\ \/ /\ msg.port = 42
        /\ IF ParseOptions(msg)
             THEN ControllerSessionID' = msg.session
             ELSE UNCHANGED ControllerSessionID
        /\ newest' = IF msg.multi THEN msg.session ELSE newest
        /\ joining' = joining \cup {msg.session}
     \/ /\ msg.port # 42
        /\ UNCHANGED <<ControllerSessionID, newest, joining>>
  /\ status' = "OK"
  /\ UNCHANGED <<flags, SendStateChanged, state, pulse, reply, listed, live,
                 lost, cleared>>

\* Mutation: whatever session was lost.
OursAny == TRUE

Ours == msg.session = ControllerSessionID

\* AJ_SIGNAL_SESSION_LOST_WITH_REASON.
SessionLost ==
  /\ msg.type = "lost"
  /\ lost' = lost \ {msg.session}
  /\ \/ /\ Ours
        /\ ControllerSessionID' = 0
        /\ SendStateChanged' = FALSE
        /\ status' = "SESSION_LOST"
     \/ /\ ~Ours
        /\ UNCHANGED signal
        /\ status' = "OK"
  /\ newest' = IF msg.session = newest THEN 0 ELSE newest
  /\ UNCHANGED <<flags, state, pulse, reply, listed, joining, live, cleared>>

\* Replies to the lamp's own calls, SESSION_JOINED (which only sets the link
\* timeout of the session) and what the other services handle.
OtherMessage ==
  /\ msg.type = "other"
  /\ status' \in {"OK", "FAILURE"}
  /\ UNCHANGED <<flags, signal, state, pulse, reply, listed, bus, cleared>>

\* Mutation: the reset forgets the NVRAM.
NVRAMKept == nvram

AJ_NVRAM_Clear == NoState

\* The Config service calls FactoryReset, Restart or SetPasscode.
FactoryReset ==
  /\ msg.type = "reset"
  /\ nvram' = AJ_NVRAM_Clear
  /\ cleared' = TRUE /\ touched' = FALSE
  /\ status' = "RESTART_APP"
  /\ UNCHANGED <<flags, signal, TheLampState, stale, unwritten, pulse, reply,
                 listed, bus>>

Configured ==
  /\ \/ msg.type = "restart" /\ status' = "RESTART_APP"
     \/ msg.type = "passcode" /\ status' \in {"OK", "READ"}
  /\ UNCHANGED <<flags, signal, state, pulse, reply, listed, bus, cleared>>

-----------------------------------------------------------------------------
(* The loop.                                                               *)

\* AJSVC_RoutingNodeConnect has come back connected.
Connect ==
  /\ pc = "connect"
  /\ pc' = "receive"
  /\ UNCHANGED <<msg, reply, listed, status, flags, signal, state, pulse, bus,
                 was, cleared>>

\* A session is a new one when neither the lamp nor the bus knows of it.
Unused == Session \ (joining \cup live \cup lost \cup {ControllerSessionID})

Messages ==
  [type : {"accept"}, session : Unused, port : {42, 43}, multi : BOOLEAN]
  \cup [type : {"lost"}, session : lost]
  \cup [type : {"other", "restart", "reset", "passcode", "ClearLampFault"}]
  \cup [type : {"TransitionLampState"}, state : Dictionary]
  \cup [type : {"ApplyPulseEffect"}, from : Dictionary, to : Dictionary]
  \cup [type : {"Set"}, field : {"OnOff", "Hue", "Version"}, value : Value]
  \cup [type : {"Get", "GetAll"}, iface : Interface]

Receive ==
  /\ pc = "receive"
  /\ msg' \in Messages
  /\ pc' = "handle"
  /\ was' = TheLampState
  /\ UNCHANGED <<reply, listed, status, flags, signal, state, pulse, bus,
                 cleared>>

\* AJ_UnmarshalMsg returns without a message: the time is up, or the link is
\* found dead.
NoMessage ==
  /\ pc = "receive"
  /\ status' \in {"TIMEOUT", "READ"}
  /\ pc' = "send"
  /\ UNCHANGED <<msg, reply, listed, flags, signal, state, pulse, bus, was,
                 cleared>>

Handle ==
  /\ pc = "handle"
  /\ pc' = "send"
  /\ \/ LAMP_HandleMessage
     \/ AcceptSession
     \/ SessionLost
     \/ OtherMessage
     \/ FactoryReset
     \/ Configured
  /\ UNCHANGED <<msg, was>>

\* AJ_CloseMsg, CheckForFaults and CheckForStateChanged.  A signal reaches the
\* peers of the session it is sent in, if there are any.
CheckForStateChanged ==
  \/ /\ ControllerSessionID # 0 /\ SendStateChanged
     /\ stale' = stale \ {ControllerSessionID}
     /\ SendStateChanged' = FALSE
  \/ /\ ~(ControllerSessionID # 0 /\ SendStateChanged)
     /\ UNCHANGED <<stale, SendStateChanged>>

CheckForFaults == PendingFaultNotification' = FALSE

Send ==
  /\ pc = "send"
  /\ CheckForFaults
  /\ CheckForStateChanged
  /\ msg' = NoMsg /\ reply' = "none" /\ listed' = {}
  /\ was' = NoState /\ pulse' = NoPulse
  /\ pc' = "callback"
  /\ UNCHANGED <<status, PendingRestartRequest, PendingFactoryResetRequest,
                 ControllerSessionID, TheLampState, nvram, unwritten, touched,
                 bus, cleared>>

\* The timer of the callback has elapsed, or has not.  The vendor's callback
\* may set the state, as a switch on the lamp does.
Callback ==
  /\ pc = "callback"
  /\ pc' = "pending"
  /\ \/ /\ Vendor
        /\ \E v \in Value : OEM_LS_Set("OnOff", v)
     \/ UNCHANGED <<state, SendStateChanged>>
  /\ UNCHANGED <<msg, reply, listed, status, flags, ControllerSessionID,
                 pulse, bus, was, cleared>>

\* The requests set by LAMP_Restart and LAMP_FactoryReset.
Pending ==
  LET next == IF PendingFactoryResetRequest THEN "RESTART_APP"
              ELSE IF PendingRestartRequest THEN "RESTART" ELSE status
  IN /\ pc = "pending"
     /\ PendingRestartRequest' = FALSE
     /\ PendingFactoryResetRequest' = FALSE
     /\ IF PendingFactoryResetRequest
          THEN nvram' = AJ_NVRAM_Clear /\ cleared' = TRUE /\ touched' = FALSE
          ELSE UNCHANGED <<nvram, cleared, touched>>
     /\ IF next \in {"READ", "RESTART", "RESTART_APP"}
          THEN pc' = "disconnect" /\ status' = next
          ELSE pc' = "receive" /\ status' = "OK"
     /\ UNCHANGED <<msg, reply, listed, PendingFaultNotification, signal,
                    TheLampState, stale, unwritten, pulse, bus, was>>

NoSessions == joining' = {} /\ live' = {} /\ lost' = {} /\ newest' = 0

\* The memory of the lamp after AJ_Reboot or a power cycle: LampService.c's
\* static variables, then LAMP_InitializeState, which writes the state if it
\* found none.
Boot ==
  /\ pc' = "connect" /\ msg' = NoMsg /\ reply' = "none" /\ listed' = {}
  /\ status' = "OK"
  /\ ControllerSessionID' = 0 /\ SendStateChanged' = FALSE
  /\ PendingFaultNotification' = FALSE
  /\ PendingRestartRequest' = FALSE
  /\ PendingFactoryResetRequest' = FALSE
  /\ TheLampState' = LAMP_InitializeState
  /\ \/ nvram' = LAMP_InitializeState /\ unwritten' = FALSE
     \/ nvram = NoState /\ nvram' = NoState /\ unwritten' = TRUE
  /\ pulse' = NoPulse
  /\ NoSessions
  /\ stale' = {} /\ was' = NoState
  /\ cleared' = FALSE /\ touched' = FALSE

\* LSF_DisconnectHandler and AJSVC_RoutingNodeDisconnect.  Neither
\* ControllerSessionID nor SendStateChanged is touched.
Disconnect ==
  /\ pc = "disconnect"
  /\ \/ /\ status = "RESTART_APP"
        /\ Boot
     \/ /\ status # "RESTART_APP"
        /\ pc' = "connect"
        /\ NoSessions /\ stale' = {}
        /\ status' = "OK"
        /\ UNCHANGED <<msg, reply, listed, flags, signal, TheLampState, nvram,
                       unwritten, touched, pulse, was, cleared>>

-----------------------------------------------------------------------------
(* Beside the loop.                                                        *)

\* The joiner of an accepted session gets into it and reads the state, or
\* does not get into it.
Join ==
  /\ pc \notin {"connect", "disconnect"}
  /\ \E s \in joining :
       /\ joining' = joining \ {s}
       /\ live' \in {live, live \cup {s}}
  /\ UNCHANGED <<loop, flags, signal, state, pulse, lost, newest, was,
                 cleared>>

\* The last peer leaves a session, or is lost.
Leave ==
  /\ pc \notin {"connect", "disconnect"}
  /\ \E s \in live :
       /\ live' = live \ {s} /\ lost' = lost \cup {s}
       /\ stale' = stale \ {s}
  /\ UNCHANGED <<loop, flags, signal, TheLampState, nvram, unwritten, touched,
                 pulse, joining, newest, was, cleared>>

\* The vendor's code, at any moment: the flags are read once in a turn of the
\* loop, so the moments that differ are those between two turns.
LAMP_SetFaults == PendingFaultNotification' = TRUE
LAMP_ClearFaults == PendingFaultNotification' = FALSE
LAMP_Restart == PendingRestartRequest' = TRUE
LAMP_FactoryReset == PendingFactoryResetRequest' = TRUE

Interrupt ==
  /\ Vendor /\ pc = "receive"
  /\ \/ /\ LAMP_SetFaults \/ LAMP_ClearFaults
        /\ UNCHANGED <<PendingRestartRequest, PendingFactoryResetRequest>>
     \/ /\ LAMP_Restart
        /\ UNCHANGED <<PendingFaultNotification, PendingFactoryResetRequest>>
     \/ /\ LAMP_FactoryReset
        /\ UNCHANGED <<PendingFaultNotification, PendingRestartRequest>>
  /\ UNCHANGED <<loop, signal, state, pulse, bus, was, cleared>>

PowerCycle == Boot

Init ==
  /\ pc = "connect" /\ msg = NoMsg /\ reply = "none" /\ listed = {}
  /\ status = "OK"
  /\ ControllerSessionID = 0 /\ SendStateChanged = FALSE
  /\ PendingFaultNotification = FALSE
  /\ PendingRestartRequest = FALSE
  /\ PendingFactoryResetRequest = FALSE
  /\ TheLampState = OEM_LS_SetFactoryState
  /\ pulse = NoPulse
  /\ \/ nvram = OEM_LS_SetFactoryState /\ unwritten = FALSE
     \/ nvram = NoState /\ unwritten = TRUE
  /\ joining = {} /\ live = {} /\ lost = {} /\ newest = 0
  /\ stale = {} /\ was = NoState
  /\ cleared = FALSE /\ touched = FALSE

Next ==
  \/ Connect \/ Receive \/ NoMessage \/ Handle \/ Send \/ Callback \/ Pending
  \/ Disconnect \/ Join \/ Leave \/ Interrupt \/ PowerCycle

Spec == Init /\ [][Next]_vars

-----------------------------------------------------------------------------
(* Properties.                                                             *)

\* The variables hold what their C types and the bus allow.
TypeOK ==
  /\ pc \in {"connect", "receive", "handle", "send", "callback", "pending",
             "disconnect"}
  /\ ControllerSessionID \in Session \cup {0}
  /\ newest \in Session \cup {0}
  /\ SendStateChanged \in BOOLEAN
  /\ TheLampState \in State
  /\ nvram \in State \cup {NoState}
  /\ joining \subseteq Session /\ live \subseteq Session
  /\ lost \subseteq Session /\ stale \subseteq live

\* The state in NVRAM is the state of the lamp, whatever moment the power
\* goes: "mirrored in NVRAM and preserved across power cycles"
\* (LampState.c:53).  Excepted are a write that failed, which nothing repeats
\* as long as the state is not changed, and the lamp that is being reset.
Durable == ~unwritten /\ ~cleared => nvram = TheLampState

\* The controllers in the last multipoint session accepted have been told of
\* every change of the state, or will be before the lamp receives again: the
\* end of an older session, a joiner that goes away and a reconnection in
\* between do not keep it from them.  (Of an older session that is still
\* alive this is not so.)
NewestTold ==
  newest \in live /\ newest \in stale =>
    /\ ControllerSessionID = newest
    /\ SendStateChanged

\* A controller that is answered LAMP_OK finds its request carried out, field
\* by field, and nothing else changed; one that is answered otherwise finds
\* the lamp as it was.  A pulse leaves the state as it is and runs from and to
\* the fields given, the lamp's own for the others ("When the From State is
\* specified as NULL, the Lamp Service sets the state to the current state of
\* the Lamp", LampService.c:698-700).
CarriedOut ==
  pc = "send" /\ reply # "none" =>
    CASE msg.type = "TransitionLampState" ->
           TheLampState = IF reply = "LAMP_OK"
                            THEN Over(was, msg.state.fields) ELSE was
      [] msg.type = "Set" ->
           TheLampState = IF reply = "LAMP_OK"
                            THEN Over(was, [f \in {msg.field} |-> msg.value])
                            ELSE was
      [] msg.type = "ApplyPulseEffect" ->
           /\ TheLampState = was
           /\ reply = "LAMP_OK" =>
                pulse = [from |-> Over(was, msg.from.fields),
                         to |-> Over(was, msg.to.fields)]
      [] OTHER -> TheLampState = was

\* Every property that an interface of the lamp describes is answered by Get
\* and by GetAll, and so is every one that the Controller Service and its
\* clients look for by name.
PropertiesKnown ==
  pc = "send" =>
    /\ msg.type = "Get" => Described(msg.iface) \cup AskedOf(msg.iface)
                             \subseteq listed
    /\ msg.type = "GetAll" => Described(msg.iface) \cup ReadOf(msg.iface)
                                \subseteq listed

\* What the lamp answers is true: the request is carried out, and nothing that
\* is asked for is left out of the answer.
AnswerTrue == CarriedOut /\ PropertiesKnown

\* After a factory reset the lamp starts in the factory state ("this will
\* clear onboarding data, state, and credentials", LampAboutData.c:90),
\* unless the vendor's callback sets the state between the reset and the
\* restart, which writes it again.
ResetForgets ==
  [][cleared /\ ~cleared' /\ ~touched
       => TheLampState' = OEM_LS_SetFactoryState]_vars

\* A dictionary with a field the lamp does not know is refused as a whole:
\* "if field invalid, throw the whole thing out and return the error"
\* (LampState.c:153).
ThrownOut ==
  pc = "send" /\ msg.type = "TransitionLampState" =>
    (msg.state.unknown => TheLampState = was)
=============================================================================
