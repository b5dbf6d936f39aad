--------------------------- MODULE ClientMethods ---------------------------
(***************************************************************************)
(* What the Controller Client and the Controller Service have to agree on: *)
(* the methods an application can call through the client's managers, with *)
(* the arguments sent and those the reply must have; the handlers the      *)
(* client registers for replies and for signals; the methods the service   *)
(* handles, with the arguments it expects and answers with; and the        *)
(* signals it sends.  Client, handlers and service each have a table of    *)
(* their own in the code, and so here.                                     *)
(***************************************************************************)
EXTENDS Integers, Sequences

\* The shared handlers of replies, and the arguments each insists on ...
ListOfIDs         == [style |-> "ListOfIDs", takes |-> 2]
IDAndName         == [style |-> "IDAndName", takes |-> 3]
ID                == [style |-> "ID", takes |-> 2]
IDAndTrackingID   == [style |-> "IDAndTrackingID", takes |-> 2]
Uint32Value       == [style |-> "Uint32Value", takes |-> 1]
IDLanguageAndName == [style |-> "IDLanguageAndName", takes |-> 4]

\* ... the methods whose replies they handle, found by name ...
Shared(s, sends, names) ==
  {[method |-> m, style |-> s.style, sends |-> sends, takes |-> s.takes] :
     m \in names}

\* ... and one whose reply goes to a manager by a handler of its own.
Own(takes, sends, names) ==
  {[method |-> m, style |-> "Own", sends |-> sends, takes |-> takes] :
     m \in names}

-----------------------------------------------------------------------------
(* The client's managers.                                                  *)

ControllerServiceCalls == Shared(Uint32Value, 0,
  {"GetControllerServiceVersion", "LightingResetControllerService"})

LampNameCalls ==
  UNION {Shared(ListOfIDs, 0, {"GetAllLampIDs"}),
         Shared(IDLanguageAndName, 2, {"GetLampManufacturer", "GetLampName"}),
         Shared(IDAndName, 3, {"SetLampName"})}
LampQueryCalls ==
  Own(3, 1, {"GetLampDetails", "GetLampParameters", "GetLampState"})
LampChangeCalls ==
  UNION {Shared(ID, 1, {"ResetLampState"}),
         Shared(ID, 3, {"TransitionLampState", "TransitionLampStateToPreset"}),
         Shared(ID, 6, {"PulseLampWithState", "PulseLampWithPreset"})}
LampFaultCalls ==
  Own(3, 1, {"GetLampFaults", "GetLampServiceVersion"})
    \cup Own(3, 2, {"ClearLampFault"})
LampFieldCalls ==
  UNION {Own(4, 2, {"GetLampStateField"}),
         Shared(IDAndName, 2, {"ResetLampStateField"}),
         Shared(IDAndName, 4, {"TransitionLampStateField"})}
LampParameterCalls ==
  UNION {Own(4, 2, {"GetLampParametersField"}),
         Own(3, 1, {"GetLampSupportedLanguages"}),
         Own(7, 2, {"GetLampDataSet"})}

LampGroupCalls ==
  UNION {Shared(ListOfIDs, 0, {"GetAllLampGroupIDs"}),
         Shared(IDLanguageAndName, 2, {"GetLampGroupName"}),
         Shared(IDAndName, 3, {"SetLampGroupName"}),
         Shared(ID, 4, {"CreateLampGroup"}),
         Shared(IDAndTrackingID, 4, {"CreateLampGroup"}),
         Shared(ID, 3, {"UpdateLampGroup"}),
         Shared(ID, 1, {"DeleteLampGroup"}),
         Own(4, 1, {"GetLampGroup"})}
LampGroupChangeCalls ==
  UNION {Shared(ID, 1, {"ResetLampGroupState"}),
         Shared(IDAndName, 2, {"ResetLampGroupStateField"}),
         Shared(IDAndName, 4, {"TransitionLampGroupStateField"}),
         Shared(ID, 3, {"TransitionLampGroupState",
                          "TransitionLampGroupStateToPreset"}),
         Shared(ID, 6, {"PulseLampGroupWithState", "PulseLampGroupWithPreset"})}

PresetCalls ==
  UNION {Shared(ListOfIDs, 0, {"GetAllPresetIDs"}), Own(3, 1, {"GetPreset"}),
         Shared(IDLanguageAndName, 2, {"GetPresetName"}),
         Shared(IDAndName, 3, {"SetPresetName"}),
         Shared(ID, 3, {"CreatePreset"}),
         Shared(IDAndTrackingID, 3, {"CreatePreset"}),
         Shared(ID, 2, {"UpdatePreset"}), Shared(ID, 1, {"DeletePreset"})}
DefaultLampStateCalls ==
  Own(2, 0, {"GetDefaultLampState"})
    \cup Shared(Uint32Value, 1, {"SetDefaultLampState"})

TransitionEffectCalls ==
  UNION {Shared(ListOfIDs, 0, {"GetAllTransitionEffectIDs"}),
         Shared(IDLanguageAndName, 2, {"GetTransitionEffectName"}),
         Shared(IDAndName, 3, {"SetTransitionEffectName"}),
         Shared(IDAndTrackingID, 5, {"CreateTransitionEffect"}),
         Shared(ID, 4, {"UpdateTransitionEffect"}),
         Shared(ID, 1, {"DeleteTransitionEffect"})}
ApplyTransitionEffectCalls ==
  Own(5, 1, {"GetTransitionEffect"})
    \cup Own(3, 2, {"ApplyTransitionEffectOnLamps",
                    "ApplyTransitionEffectOnLampGroups"})

PulseEffectCalls ==
  UNION {Shared(ListOfIDs, 0, {"GetAllPulseEffectIDs"}),
         Shared(IDLanguageAndName, 2, {"GetPulseEffectName"}),
         Shared(IDAndName, 3, {"SetPulseEffectName"}),
         Shared(IDAndTrackingID, 9, {"CreatePulseEffect"}),
         Shared(ID, 8, {"UpdatePulseEffect"}),
         Shared(ID, 1, {"DeletePulseEffect"})}
ApplyPulseEffectCalls ==
  Own(9, 1, {"GetPulseEffect"})
    \cup Own(3, 2, {"ApplyPulseEffectOnLamps", "ApplyPulseEffectOnLampGroups"})

SceneElementCalls ==
  UNION {Shared(ListOfIDs, 0, {"GetAllSceneElementIDs"}),
         Shared(IDLanguageAndName, 2, {"GetSceneElementName"}),
         Shared(IDAndName, 3, {"SetSceneElementName"}),
         Shared(IDAndTrackingID, 5, {"CreateSceneElement"}),
         Shared(ID, 4, {"UpdateSceneElement"}), Own(5, 1, {"GetSceneElement"}),
         Shared(ID, 1, {"ApplySceneElement", "DeleteSceneElement"})}

SceneCalls ==
  UNION {Shared(ListOfIDs, 0, {"GetAllSceneIDs"}),
         Shared(IDLanguageAndName, 2, {"GetSceneName"}),
         Shared(IDAndName, 3, {"SetSceneName"}),
         Shared(ID, 6, {"CreateScene"}),
         Shared(IDAndTrackingID, 6, {"CreateScene"}),
         Shared(IDAndTrackingID, 3, {"CreateSceneWithSceneElements"}),
         Shared(ID, 5, {"UpdateScene"}),
         Shared(ID, 2, {"UpdateSceneWithSceneElements"})}
SceneQueryCalls ==
  UNION {Own(6, 1, {"GetScene"}), Own(3, 1, {"GetSceneWithSceneElements"}),
         Shared(ID, 1, {"ApplyScene", "DeleteScene"})}

MasterSceneCalls ==
  UNION {Shared(ListOfIDs, 0, {"GetAllMasterSceneIDs"}),
         Shared(IDLanguageAndName, 2, {"GetMasterSceneName"}),
         Shared(IDAndName, 3, {"SetMasterSceneName"}),
         Shared(ID, 3, {"CreateMasterScene"}),
         Shared(IDAndTrackingID, 3, {"CreateMasterScene"}),
         Shared(ID, 2, {"UpdateMasterScene"}), Own(3, 1, {"GetMasterScene"}),
         Shared(ID, 1, {"ApplyMasterScene", "DeleteMasterScene"})}

EffectAndElementCalls ==
  UNION {TransitionEffectCalls, ApplyTransitionEffectCalls, PulseEffectCalls,
         ApplyPulseEffectCalls, SceneElementCalls}

Calls ==
  UNION {ControllerServiceCalls, LampNameCalls, LampQueryCalls,
         LampChangeCalls, LampFaultCalls, LampFieldCalls, LampParameterCalls,
         LampGroupCalls, LampGroupChangeCalls, PresetCalls,
         DefaultLampStateCalls, EffectAndElementCalls, SceneCalls,
         SceneQueryCalls, MasterSceneCalls}

\* The data sets: the calls of each are made one after the other.
LampDataSet == <<"GetLampDetails", "GetLampName", "GetLampState">>
LampGroupDataSet == <<"GetLampGroup", "GetLampGroupName">>
PresetDataSet == <<"GetPreset", "GetPresetName">>
TransitionEffectDataSet == <<"GetTransitionEffect", "GetTransitionEffectName">>
PulseEffectDataSet == <<"GetPulseEffect", "GetPulseEffectName">>
SceneElementDataSet == <<"GetSceneElement", "GetSceneElementName">>
SceneDataSets == {<<"GetScene", "GetSceneName">>,
                  <<"GetSceneWithSceneElements", "GetSceneName">>}
MasterSceneDataSet == <<"GetMasterScene", "GetMasterSceneName">>

DataSets ==
  SceneDataSets \cup
    {LampDataSet, LampGroupDataSet, PresetDataSet, TransitionEffectDataSet,
     PulseEffectDataSet, SceneElementDataSet, MasterSceneDataSet}

\* The reply of a field goes on to the callback of that field, of those the
\* manager knows by name.
LampFieldReplies == {"GetLampStateField", "ResetLampStateField",
                     "TransitionLampStateField"}
LampParameterFieldReplies == {"GetLampParametersField"}
LampGroupFieldReplies == {"ResetLampGroupStateField",
                          "TransitionLampGroupStateField"}
FieldReplies ==
  LampFieldReplies \cup LampParameterFieldReplies \cup LampGroupFieldReplies

-----------------------------------------------------------------------------
(* AddMethodHandlers: the handlers by style and name.                      *)

Handlers(s, names) == {s.style} \X names

\* The dispatchers of signals, and the arguments each insists on; one does not
\* look.
WithArg      == [style |-> "WithArg", takes |-> {1}]
NameChanged  == [style |-> "NameChanged", takes |-> {2}]
StateChanged == [style |-> "StateChanged", takes |-> {2}]
WithoutArg   == [style |-> "WithoutArg", takes |-> 0..2]
Dispatchers  == {WithArg, NameChanged, StateChanged, WithoutArg}

ControllerServiceHandlers ==
  Handlers(WithoutArg, {"ControllerServiceLightingReset"})
    \cup Handlers(Uint32Value, {"GetControllerServiceVersion",
                                  "LightingResetControllerService"})
LampHandlers ==
  UNION {Handlers(NameChanged, {"LampNameChanged"}),
         Handlers(StateChanged, {"LampStateChanged"}),
         Handlers(WithArg, {"LampsFound", "LampsLost"}),
         Handlers(ListOfIDs, {"GetAllLampIDs"}),
         Handlers(IDAndName, {"TransitionLampStateField",
                                "ResetLampStateField", "SetLampName"}),
         Handlers(IDLanguageAndName, {"GetLampName", "GetLampManufacturer"}),
         Handlers(ID, {"ResetLampState", "TransitionLampState",
                         "TransitionLampStateToPreset", "PulseLampWithState",
                         "PulseLampWithPreset"})}
LampGroupHandlers ==
  UNION {Handlers(WithArg, {"LampGroupsNameChanged", "LampGroupsCreated",
                              "LampGroupsUpdated", "LampGroupsDeleted"}),
         Handlers(ListOfIDs, {"GetAllLampGroupIDs"}),
         Handlers(IDLanguageAndName, {"GetLampGroupName"}),
         Handlers(IDAndName, {"TransitionLampGroupStateField",
                                "ResetLampGroupStateField", "SetLampGroupName"}),
         Handlers(ID, {"ResetLampGroupState", "TransitionLampGroupState",
                         "TransitionLampGroupStateToPreset", "CreateLampGroup",
                         "UpdateLampGroup", "DeleteLampGroup",
                         "PulseLampGroupWithState", "PulseLampGroupWithPreset"}),
         Handlers(IDAndTrackingID, {"CreateLampGroup"})}
PresetHandlers ==
  UNION {Handlers(WithoutArg, {"DefaultLampStateChanged"}),
         Handlers(WithArg, {"PresetsNameChanged", "PresetsCreated",
                              "PresetsUpdated", "PresetsDeleted"}),
         Handlers(ListOfIDs, {"GetAllPresetIDs"}),
         Handlers(IDLanguageAndName, {"GetPresetName"}),
         Handlers(IDAndName, {"SetPresetName"}),
         Handlers(ID, {"CreatePreset", "UpdatePreset", "DeletePreset"}),
         Handlers(IDAndTrackingID, {"CreatePreset"}),
         Handlers(Uint32Value, {"SetDefaultLampState"})}
TransitionEffectHandlers ==
  UNION {Handlers(WithArg, {"TransitionEffectsNameChanged",
                              "TransitionEffectsCreated",
                              "TransitionEffectsUpdated",
                              "TransitionEffectsDeleted"}),
         Handlers(ListOfIDs, {"GetAllTransitionEffectIDs"}),
         Handlers(IDLanguageAndName, {"GetTransitionEffectName"}),
         Handlers(IDAndName, {"SetTransitionEffectName"}),
         Handlers(IDAndTrackingID, {"CreateTransitionEffect"}),
         Handlers(ID, {"UpdateTransitionEffect", "DeleteTransitionEffect"})}
PulseEffectHandlers ==
  UNION {Handlers(WithArg, {"PulseEffectsNameChanged", "PulseEffectsCreated",
                              "PulseEffectsUpdated", "PulseEffectsDeleted"}),
         Handlers(ListOfIDs, {"GetAllPulseEffectIDs"}),
         Handlers(IDLanguageAndName, {"GetPulseEffectName"}),
         Handlers(IDAndName, {"SetPulseEffectName"}),
         Handlers(IDAndTrackingID, {"CreatePulseEffect"}),
         Handlers(ID, {"UpdatePulseEffect", "DeletePulseEffect"})}
SceneHandlers ==
  UNION {Handlers(WithArg, {"ScenesNameChanged", "ScenesCreated",
                              "ScenesUpdated", "ScenesDeleted", "ScenesApplied"}),
         Handlers(ListOfIDs, {"GetAllSceneIDs"}),
         Handlers(IDLanguageAndName, {"GetSceneName"}),
         Handlers(IDAndName, {"SetSceneName"}),
         Handlers(ID, {"CreateScene", "UpdateScene",
                         "UpdateSceneWithSceneElements", "DeleteScene",
                         "ApplyScene"}),
         Handlers(IDAndTrackingID, {"CreateScene",
                                      "CreateSceneWithSceneElements"})}
SceneElementHandlers ==
  UNION {Handlers(WithArg, {"SceneElementsNameChanged",
                              "SceneElementsCreated", "SceneElementsUpdated",
                              "SceneElementsDeleted", "SceneElementsApplied"}),
         Handlers(ListOfIDs, {"GetAllSceneElementIDs"}),
         Handlers(IDLanguageAndName, {"GetSceneElementName"}),
         Handlers(IDAndName, {"SetSceneElementName"}),
         Handlers(IDAndTrackingID, {"CreateSceneElement"}),
         Handlers(ID, {"UpdateSceneElement", "DeleteSceneElement",
                         "ApplySceneElement"})}
MasterSceneHandlers ==
  UNION {Handlers(WithArg, {"MasterScenesNameChanged", "MasterScenesCreated",
                              "MasterScenesUpdated", "MasterScenesDeleted",
                              "MasterScenesApplied"}),
         Handlers(ListOfIDs, {"GetAllMasterSceneIDs"}),
         Handlers(IDLanguageAndName, {"GetMasterSceneName"}),
         Handlers(IDAndName, {"SetMasterSceneName"}),
         Handlers(ID, {"CreateMasterScene", "UpdateMasterScene",
                         "DeleteMasterScene", "ApplyMasterScene"}),
         Handlers(IDAndTrackingID, {"CreateMasterScene"})}

\* Mutation: the tracked creation of a lamp group is registered as the plain
\* one is.
UntrackedHandlers ==
  UNION {ControllerServiceHandlers, LampHandlers, PresetHandlers,
         LampGroupHandlers \ Handlers(IDAndTrackingID, {"CreateLampGroup"}),
         TransitionEffectHandlers, PulseEffectHandlers, SceneHandlers,
         SceneElementHandlers, MasterSceneHandlers}

MethodHandlers ==
  UNION {ControllerServiceHandlers, LampHandlers, LampGroupHandlers,
         PresetHandlers, TransitionEffectHandlers, PulseEffectHandlers,
         SceneHandlers, SceneElementHandlers, MasterSceneHandlers}

\* AddSignalHandlers: the signals registered for, with their dispatchers, and
\* those registered for if the leader implements the interfaces of effects and
\* scene elements.
SignalEntries ==
  UNION {Handlers(WithoutArg, {"ControllerServiceLightingReset",
                                 "DefaultLampStateChanged"}),
         Handlers(NameChanged, {"LampNameChanged"}),
         Handlers(StateChanged, {"LampStateChanged"}),
         Handlers(WithArg, {"LampsFound", "LampsLost",
           "LampGroupsNameChanged", "LampGroupsCreated", "LampGroupsUpdated",
           "LampGroupsDeleted", "PresetsNameChanged", "PresetsCreated",
           "PresetsUpdated", "PresetsDeleted", "ScenesNameChanged",
           "ScenesCreated", "ScenesUpdated", "ScenesDeleted", "ScenesApplied",
           "MasterScenesNameChanged", "MasterScenesCreated",
           "MasterScenesUpdated", "MasterScenesDeleted",
           "MasterScenesApplied"})}
AdditionalSignalEntries ==
  Handlers(WithArg, {"TransitionEffectsNameChanged",
    "TransitionEffectsCreated", "TransitionEffectsUpdated",
    "TransitionEffectsDeleted", "PulseEffectsNameChanged",
    "PulseEffectsCreated", "PulseEffectsUpdated", "PulseEffectsDeleted",
    "SceneElementsNameChanged", "SceneElementsCreated", "SceneElementsUpdated",
    "SceneElementsDeleted", "SceneElementsApplied"})

-----------------------------------------------------------------------------
(* The service: AddMethodHandler, and what each handler expects and        *)
(* answers with.                                                           *)

Serves(expects, replies, names) ==
  {[method |-> m, expects |-> expects, replies |-> replies] : m \in names}

ServiceMethods ==
  Serves(0, {1}, {"LightingResetControllerService",
                  "GetControllerServiceVersion"})
LampQueryMethods ==
  UNION {Serves(0, {2}, {"GetAllLampIDs"}),
         Serves(1, {3}, {"GetLampSupportedLanguages", "GetLampDetails",
                         "GetLampParameters", "GetLampState", "GetLampFaults",
                         "GetLampServiceVersion"}),
         Serves(2, {4}, {"GetLampManufacturer", "GetLampName",
                         "GetLampParametersField", "GetLampStateField"}),
         Serves(3, {3}, {"SetLampName"}), Serves(2, {3}, {"ClearLampFault"})}
LampStateMethods ==
  UNION {Serves(3, {2}, {"TransitionLampStateToPreset"}),
         Serves(4, {3}, {"TransitionLampStateField"}),
         Serves(1, {2}, {"ResetLampState"}),
         Serves(2, {3}, {"ResetLampStateField"}),
         Serves(2, {7}, {"GetLampDataSet"})}
LampChangeMethods ==
  Serves(3, {2}, {"TransitionLampState"})
    \cup Serves(6, {2}, {"PulseLampWithState", "PulseLampWithPreset"})
LampGroupMethods ==
  UNION {Serves(0, {2}, {"GetAllLampGroupIDs"}),
         Serves(2, {4}, {"GetLampGroupName"}),
         Serves(3, {3}, {"SetLampGroupName"}),
         Serves(4, {2}, {"CreateLampGroup"}), Serves(3, {2}, {"UpdateLampGroup"}),
         Serves(1, {2}, {"DeleteLampGroup"}), Serves(1, {4}, {"GetLampGroup"})}
LampGroupChangeMethods ==
  UNION {Serves(1, {2}, {"ResetLampGroupState"}),
         Serves(2, {3}, {"ResetLampGroupStateField"}),
         Serves(3, {2}, {"TransitionLampGroupState",
                         "TransitionLampGroupStateToPreset"}),
         Serves(4, {3}, {"TransitionLampGroupStateField"}),
         Serves(6, {2}, {"PulseLampGroupWithState", "PulseLampGroupWithPreset"})}

\* Mutation: GetPreset answers without the state.
PresetMethodsShort ==
  UNION {Serves(0, {2}, {"GetAllPresetIDs", "GetDefaultLampState"}),
         Serves(2, {4}, {"GetPresetName"}), Serves(3, {3}, {"SetPresetName"}),
         Serves(3, {2}, {"CreatePreset"}), Serves(2, {2}, {"UpdatePreset"}),
         Serves(1, {2}, {"DeletePreset", "GetPreset"}),
         Serves(1, {1}, {"SetDefaultLampState"})}
PresetMethods ==
  UNION {Serves(0, {2}, {"GetAllPresetIDs", "GetDefaultLampState"}),
         Serves(2, {4}, {"GetPresetName"}), Serves(3, {3}, {"SetPresetName"}),
         Serves(3, {2}, {"CreatePreset"}), Serves(2, {2}, {"UpdatePreset"}),
         Serves(1, {2}, {"DeletePreset"}), Serves(1, {3}, {"GetPreset"}),
         Serves(1, {1}, {"SetDefaultLampState"})}

\* An effect that is not found is answered without the list of the lamps.
TransitionEffectMethods ==
  UNION {Serves(0, {2}, {"GetAllTransitionEffectIDs"}),
         Serves(2, {4}, {"GetTransitionEffectName"}),
         Serves(3, {3}, {"SetTransitionEffectName"}),
         Serves(5, {2}, {"CreateTransitionEffect"}),
         Serves(4, {2}, {"UpdateTransitionEffect"}),
         Serves(1, {2}, {"DeleteTransitionEffect"}),
         Serves(1, {5}, {"GetTransitionEffect"}),
         Serves(2, {2, 3}, {"ApplyTransitionEffectOnLamps",
                            "ApplyTransitionEffectOnLampGroups"})}
PulseEffectMethods ==
  UNION {Serves(0, {2}, {"GetAllPulseEffectIDs"}),
         Serves(2, {4}, {"GetPulseEffectName"}),
         Serves(3, {3}, {"SetPulseEffectName"}),
         Serves(9, {2}, {"CreatePulseEffect"}),
         Serves(8, {2}, {"UpdatePulseEffect"}),
         Serves(1, {2}, {"DeletePulseEffect"}),
         Serves(1, {9}, {"GetPulseEffect"}),
         Serves(2, {2, 3}, {"ApplyPulseEffectOnLamps",
                            "ApplyPulseEffectOnLampGroups"})}
SceneMethods ==
  UNION {Serves(0, {2}, {"GetAllSceneIDs"}), Serves(2, {4}, {"GetSceneName"}),
         Serves(3, {3}, {"SetSceneName"}), Serves(6, {2}, {"CreateScene"}),
         Serves(3, {2}, {"CreateSceneWithSceneElements"}),
         Serves(5, {2}, {"UpdateScene"}),
         Serves(2, {2}, {"UpdateSceneWithSceneElements"}),
         Serves(1, {2}, {"DeleteScene", "ApplyScene"}),
         Serves(1, {6}, {"GetScene"}),
         Serves(1, {3}, {"GetSceneWithSceneElements"})}
SceneElementMethods ==
  UNION {Serves(0, {2}, {"GetAllSceneElementIDs"}),
         Serves(2, {4}, {"GetSceneElementName"}),
         Serves(3, {3}, {"SetSceneElementName"}),
         Serves(5, {2}, {"CreateSceneElement"}),
         Serves(4, {2}, {"UpdateSceneElement"}),
         Serves(1, {2}, {"DeleteSceneElement", "ApplySceneElement"}),
         Serves(1, {5}, {"GetSceneElement"})}
MasterSceneMethods ==
  UNION {Serves(0, {2}, {"GetAllMasterSceneIDs"}),
         Serves(2, {4}, {"GetMasterSceneName"}),
         Serves(3, {3}, {"SetMasterSceneName"}),
         Serves(3, {2}, {"CreateMasterScene"}),
         Serves(2, {2}, {"UpdateMasterScene"}),
         Serves(1, {2}, {"DeleteMasterScene", "ApplyMasterScene"}),
         Serves(1, {3}, {"GetMasterScene"})}

\* RegisterMethodHandlers and AddMethodHandler.
MessageHandlers ==
  UNION {ServiceMethods, LampQueryMethods, LampStateMethods, LampChangeMethods,
         LampGroupMethods, LampGroupChangeMethods, PresetMethods,
         TransitionEffectMethods, PulseEffectMethods, SceneMethods,
         SceneElementMethods, MasterSceneMethods}

\* The signals the service sends, with their arguments.
Sends(dispatcher, args, names) ==
  {[method |-> m, style |-> dispatcher.style, sends |-> args,
    takes |-> dispatcher.takes] : m \in names}

Signals ==
  UNION {Sends(WithArg, 1,
           {"LampsFound", "LampsLost"}
             \cup {objects \o change :
                     objects \in {"LampGroups", "Presets", "TransitionEffects",
                                 "PulseEffects", "Scenes", "SceneElements",
                                 "MasterScenes"},
                     change \in {"NameChanged", "Created", "Updated", "Deleted"}}
             \cup {"ScenesApplied", "SceneElementsApplied",
                   "MasterScenesApplied"}),
         Sends(NameChanged, 2, {"LampNameChanged"}),
         Sends(StateChanged, 2, {"LampStateChanged"}),
         Sends(WithoutArg, 0, {"ControllerServiceLightingReset",
                                 "DefaultLampStateChanged"})}
AdditionalSignals ==
  {s \in Signals : <<s.style, s.method>> \in AdditionalSignalEntries}
=============================================================================
