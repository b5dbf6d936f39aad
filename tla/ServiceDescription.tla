-------------------------- MODULE ServiceDescription --------------------------
(***************************************************************************)
(* The interfaces the Controller Service describes to its clients          *)
(* (ServiceDescription.cc): each method with the number of arguments it    *)
(* takes and returns, each signal with its own.  The bus delivers a call   *)
(* or a signal only as described.                                          *)
(***************************************************************************)
EXTENDS Integers

Methods(takes, returns, names) ==
  {[method |-> m, takes |-> takes, returns |-> returns] : m \in names}
SignalsOf(carries, names) == {[signal |-> m, carries |-> carries] : m \in names}

ControllerServiceDescription ==
  [methods |-> Methods(0, 1, {"LightingResetControllerService",
                              "GetControllerServiceVersion"}),
   signals |-> SignalsOf(0, {"ControllerServiceLightingReset"})]

LampQueriesDescribed ==
  UNION {Methods(0, 2, {"GetAllLampIDs"}),
         Methods(1, 3, {"GetLampSupportedLanguages", "GetLampDetails",
                        "GetLampParameters", "GetLampState"}),
         Methods(2, 4, {"GetLampManufacturer", "GetLampName",
                        "GetLampParametersField", "GetLampStateField"}),
         Methods(3, 3, {"SetLampName"})}
ControllerServiceLampDescription ==
  [methods |->
     UNION {LampQueriesDescribed,
            Methods(3, 2, {"TransitionLampState",
                           "TransitionLampStateToPreset"}),
            Methods(6, 2, {"PulseLampWithState", "PulseLampWithPreset"}),
            Methods(4, 3, {"TransitionLampStateField"}),
            Methods(1, 2, {"ResetLampState"}),
            Methods(2, 3, {"ResetLampStateField", "ClearLampFault"}),
            Methods(1, 3, {"GetLampFaults", "GetLampServiceVersion"})},
   signals |-> SignalsOf(2, {"LampNameChanged", "LampStateChanged"})
                 \cup SignalsOf(1, {"LampsFound", "LampsLost"})]

ControllerServiceLampGroupDescription ==
  [methods |->
     UNION {Methods(0, 2, {"GetAllLampGroupIDs"}),
            Methods(2, 4, {"GetLampGroupName"}),
            Methods(3, 3, {"SetLampGroupName"}),
            Methods(4, 2, {"CreateLampGroup"}),
            Methods(3, 2, {"UpdateLampGroup", "TransitionLampGroupState",
                           "TransitionLampGroupStateToPreset"}),
            Methods(1, 2, {"DeleteLampGroup", "ResetLampGroupState"}),
            Methods(1, 4, {"GetLampGroup"}),
            Methods(6, 2, {"PulseLampGroupWithState",
                           "PulseLampGroupWithPreset"}),
            Methods(4, 3, {"TransitionLampGroupStateField"}),
            Methods(2, 3, {"ResetLampGroupStateField"})},
   signals |-> SignalsOf(1, {"LampGroupsNameChanged", "LampGroupsCreated",
                             "LampGroupsUpdated", "LampGroupsDeleted"})]

ControllerServicePresetDescription ==
  [methods |->
     UNION {Methods(0, 2, {"GetDefaultLampState", "GetAllPresetIDs"}),
            Methods(1, 1, {"SetDefaultLampState"}),
            Methods(2, 4, {"GetPresetName"}), Methods(3, 3, {"SetPresetName"}),
            Methods(3, 2, {"CreatePreset"}), Methods(2, 2, {"UpdatePreset"}),
            Methods(1, 2, {"DeletePreset"}), Methods(1, 3, {"GetPreset"})},
   signals |-> SignalsOf(0, {"DefaultLampStateChanged"})
                 \cup SignalsOf(1, {"PresetsNameChanged", "PresetsCreated",
                                    "PresetsUpdated", "PresetsDeleted"})]

ControllerServiceTransitionEffectDescription ==
  [methods |->
     UNION {Methods(0, 2, {"GetAllTransitionEffectIDs"}),
            Methods(2, 4, {"GetTransitionEffectName"}),
            Methods(3, 3, {"SetTransitionEffectName"}),
            Methods(5, 2, {"CreateTransitionEffect"}),
            Methods(4, 2, {"UpdateTransitionEffect"}),
            Methods(1, 2, {"DeleteTransitionEffect"}),
            Methods(1, 5, {"GetTransitionEffect"}),
            Methods(2, 3, {"ApplyTransitionEffectOnLamps",
                           "ApplyTransitionEffectOnLampGroups"})},
   signals |-> SignalsOf(1, {"TransitionEffectsNameChanged",
                 "TransitionEffectsCreated", "TransitionEffectsUpdated",
                 "TransitionEffectsDeleted"})]

ControllerServicePulseEffectDescription ==
  [methods |->
     UNION {Methods(0, 2, {"GetAllPulseEffectIDs"}),
            Methods(2, 4, {"GetPulseEffectName"}),
            Methods(3, 3, {"SetPulseEffectName"}),
            Methods(9, 2, {"CreatePulseEffect"}),
            Methods(8, 2, {"UpdatePulseEffect"}),
            Methods(1, 2, {"DeletePulseEffect"}),
            Methods(1, 9, {"GetPulseEffect"}),
            Methods(2, 3, {"ApplyPulseEffectOnLamps",
                           "ApplyPulseEffectOnLampGroups"})},
   signals |-> SignalsOf(1, {"PulseEffectsNameChanged", "PulseEffectsCreated",
                             "PulseEffectsUpdated", "PulseEffectsDeleted"})]

ControllerServiceSceneDescription ==
  [methods |->
     UNION {Methods(0, 2, {"GetAllSceneIDs"}), Methods(2, 4, {"GetSceneName"}),
            Methods(3, 3, {"SetSceneName"}), Methods(6, 2, {"CreateScene"}),
            Methods(5, 2, {"UpdateScene"}), Methods(1, 6, {"GetScene"}),
            Methods(1, 2, {"DeleteScene", "ApplyScene"})},
   signals |-> SignalsOf(1, {"ScenesNameChanged", "ScenesCreated",
                             "ScenesUpdated", "ScenesDeleted",
                             "ScenesApplied"})]

ControllerServiceSceneWithSceneElementsDescription ==
  [methods |->
     UNION {Methods(3, 2, {"CreateSceneWithSceneElements"}),
            Methods(2, 2, {"UpdateSceneWithSceneElements"}),
            Methods(1, 3, {"GetSceneWithSceneElements"})},
   signals |-> {}]

ControllerServiceSceneElementDescription ==
  [methods |->
     UNION {Methods(0, 2, {"GetAllSceneElementIDs"}),
            Methods(2, 4, {"GetSceneElementName"}),
            Methods(3, 3, {"SetSceneElementName"}),
            Methods(5, 2, {"CreateSceneElement"}),
            Methods(4, 2, {"UpdateSceneElement"}),
            Methods(1, 2, {"DeleteSceneElement", "ApplySceneElement"}),
            Methods(1, 5, {"GetSceneElement"})},
   signals |-> SignalsOf(1, {"SceneElementsNameChanged",
                 "SceneElementsCreated", "SceneElementsUpdated",
                 "SceneElementsDeleted", "SceneElementsApplied"})]

ControllerServiceMasterSceneDescription ==
  [methods |->
     UNION {Methods(0, 2, {"GetAllMasterSceneIDs"}),
            Methods(2, 4, {"GetMasterSceneName"}),
            Methods(3, 3, {"SetMasterSceneName"}),
            Methods(3, 2, {"CreateMasterScene"}),
            Methods(2, 2, {"UpdateMasterScene"}),
            Methods(1, 2, {"DeleteMasterScene", "ApplyMasterScene"}),
            Methods(1, 3, {"GetMasterScene"})},
   signals |-> SignalsOf(1, {"MasterScenesNameChanged", "MasterScenesCreated",
                             "MasterScenesUpdated", "MasterScenesDeleted",
                             "MasterScenesApplied"})]

ControllerServiceDataSetDescription ==
  [methods |-> Methods(2, 7, {"GetLampDataSet"}), signals |-> {}]

-----------------------------------------------------------------------------
\* The interfaces Start adds to the object; every method of theirs is handed to
\* MethodCallDispatcher by RegisterMethodHandlers.
Interfaces ==
  {ControllerServiceDescription, ControllerServiceLampDescription,
   ControllerServiceLampGroupDescription, ControllerServicePresetDescription,
   ControllerServiceTransitionEffectDescription,
   ControllerServicePulseEffectDescription, ControllerServiceSceneDescription,
   ControllerServiceSceneWithSceneElementsDescription,
   ControllerServiceSceneElementDescription,
   ControllerServiceMasterSceneDescription,
   ControllerServiceDataSetDescription}

MethodEntries == UNION {i.methods : i \in Interfaces}

\* Who sends the arguments described gets the message through ...
CallDescribed(method, args) ==
  \E d \in MethodEntries : d.method = method /\ d.takes = args
ReplyDescribed(method, args) ==
  \E d \in MethodEntries : d.method = method /\ d.returns = args
SignalDescribed(signal, args) ==
  [signal |-> signal, carries |-> args] \in UNION {i.signals : i \in Interfaces}
=============================================================================
