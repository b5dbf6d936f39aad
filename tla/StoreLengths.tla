---------------------------- MODULE StoreLengths ----------------------------
(***************************************************************************)
(* blobLength: each manager of the Controller Service keeps a running      *)
(* count of how long the text of its objects is, and refuses what would    *)
(* take it to MAX_FILE_LEN, so that a blob always fits a message.  Texts   *)
(* are written to a file, read again when the service starts, and received *)
(* from a leader.  kind says whose store a behaviour is about.             *)
(***************************************************************************)
EXTENDS Integers, FiniteSets, FiniteSetsExt

CONSTANTS
  Kinds,         \* the managers considered
  Id,            \* the IDs of objects
  Default,       \* the ID of the preset that holds the default lamp state
  Lens,          \* lengths of names, and of what follows a name
  IdLen,         \* the length of an ID
  SentinelLen,   \* the length of the text of an empty store
  MaxEntities,   \* OEM_CS_MAX_SUPPORTED_NUM_LSF_ENTITY
  MaxFileLen,    \* MAX_FILE_LEN
  Wrap,          \* 2^64 in the code: lengths are unsigned
  Blobs,         \* the stores that a leader may send
  MaxOps         \* bound: calls, blobs and restarts

Kind == {"lampGroup", "preset", "transitionEffect", "pulseEffect",
         "sceneElement", "scene", "masterScene"}
Ids == Id \cup {Default}
Object == [name : Lens \cup {IdLen}, body : Lens]

ASSUME StoreLengthsAssumption ==
  /\ Kinds \subseteq Kind /\ Default \notin Id
  /\ Lens \subseteq Nat /\ IdLen \in Nat /\ SentinelLen \in Nat
  /\ MaxFileLen \in Nat /\ Wrap \in Nat /\ Wrap > MaxFileLen

VARIABLES
  kind,        \* whose store this is
  objects,     \* the objects, by ID: the lengths of name and body
  blobLength,
  updated,     \* a write of the file is due
  pc,          \* "down", "up", or "write": a copy has been made for the file
  copy, file,  \* the objects of that copy, and those of the file, or NoFile
  followed,    \* when a leader's blob was received last: "never", "earlier"
               \* (before a restart) or "now" (history)
  answer,      \* the last call's code, and how long the text would have got
  ops

vars == <<kind, objects, blobLength, updated, pc, copy, file, followed,
          answer, ops>>

Empty == [id \in {} |-> 0]
NoFile == [written |-> FALSE, objects |-> Empty]
None == [code |-> "OK", need |-> 0]

Minus(a, b) == (a + Wrap - b) % Wrap
Plus(a, b) == (a + b) % Wrap

Init ==
  /\ kind \in Kinds
  /\ objects = Empty
  /\ blobLength = 0
  /\ updated = FALSE
  /\ pc = "down"
  /\ copy = Empty
  /\ file = NoFile
  /\ followed = "never"
  /\ answer = None
  /\ ops = 0

-----------------------------------------------------------------------------
(* Texts.                                                                  *)

\* GetString of one object: a scene is written to two files.
GetString(x) ==
  IF kind = "scene" THEN 2 * (IdLen + x.name) + x.body
                    ELSE IdLen + x.name + x.body

TextOf(objs) == MapThenSumSet(LAMBDA id : GetString(objs[id]), DOMAIN objs)

GetStringOfAll(objs) ==
  IF objs = Empty THEN IF kind = "scene" THEN 2 * SentinelLen ELSE SentinelLen
  ELSE TextOf(objs)

IdsOf(objs) == IdLen * Cardinality(DOMAIN objs)

-----------------------------------------------------------------------------
(* Calls.                                                                  *)

Step == ops < MaxOps /\ ops' = ops + 1
Call == Step /\ pc # "down"

Store(objs, len) ==
  /\ objects' = objs
  /\ blobLength' = len
  /\ updated' = TRUE
  /\ UNCHANGED <<kind, pc, copy, file, followed>>

\* What would be stored, and the length it would be counted with.
Checked(objs, newlen, stored) ==
  /\ answer' = [code |-> IF newlen < MaxFileLen THEN "OK" ELSE "RESOURCES",
                need |-> TextOf(objs) + IdsOf(objs)]
  /\ IF newlen < MaxFileLen THEN Store(objs, stored)
     ELSE UNCHANGED <<kind, objects, blobLength, updated, pc, copy, file,
                      followed>>

With(id, x) == [i \in DOMAIN objects \cup {id} |-> IF i = id THEN x ELSE objects[i]]
Without(id) == [i \in DOMAIN objects \ {id} |-> objects[i]]

FreshId == CHOOSE id \in Id : id \notin DOMAIN objects

\* A scene element's ID is counted once, in its text; all others are counted
\* again.
CountedIds == IF kind = "sceneElement" THEN 0 ELSE IdLen

\* Mutation: the new text is not counted.
CreateUncounted(x) ==
  /\ Call /\ Cardinality(DOMAIN objects) < MaxEntities
  /\ LET newlen == Plus(blobLength, CountedIds)
     IN Checked(With(FreshId, x), newlen, newlen)

Create(x) ==
  /\ Call /\ Cardinality(DOMAIN objects) < MaxEntities
  /\ LET newlen == Plus(blobLength, GetString(x) + CountedIds)
     IN Checked(With(FreshId, x), newlen, newlen)

\* With the maximal number of objects, LSF_ERR_NO_SLOT.
CreateNoSlot ==
  /\ Call /\ Cardinality(DOMAIN objects) >= MaxEntities
  /\ answer' = [code |-> "NO_SLOT", need |-> 0]
  /\ UNCHANGED <<kind, objects, blobLength, updated, pc, copy, file, followed>>

\* Mutation: the old text stays counted.
UpdateAdding(id, b) ==
  /\ Call /\ id \in DOMAIN objects
  /\ LET x == [objects[id] EXCEPT !.body = b]
         newlen == Plus(blobLength, GetString(x))
     IN Checked(With(id, x), newlen, newlen)

Update(id, b) ==
  /\ Call /\ id \in DOMAIN objects
  /\ LET x == [objects[id] EXCEPT !.body = b]
         newlen == Plus(Minus(blobLength, GetString(objects[id])), GetString(x))
     IN Checked(With(id, x), newlen, newlen)

Delete(id, counted) ==
  /\ Call /\ id \in DOMAIN objects
  /\ Store(Without(id), Minus(blobLength, counted))
  /\ answer' = None

DeleteWithId(id) == Delete(id, GetString(objects[id]) + IdLen)

DeleteLampGroup(id) == kind = "lampGroup" /\ DeleteWithId(id)
DeletePreset(id) == kind = "preset" /\ DeleteWithId(id)
DeleteTransitionEffect(id) == kind = "transitionEffect" /\ DeleteWithId(id)
DeletePulseEffect(id) == kind = "pulseEffect" /\ DeleteWithId(id)
DeleteSceneElement(id) ==
  kind = "sceneElement" /\ Delete(id, GetString(objects[id]))
DeleteScene(id) == kind = "scene" /\ Delete(id, GetString(objects[id]))
\* The text is taken off twice.
DeleteMasterScene(id) ==
  kind = "masterScene" /\ Delete(id, 2 * GetString(objects[id]) + IdLen)

SetName(id, n, newlen, stored) ==
  /\ Call /\ id \in DOMAIN objects
  /\ Checked(With(id, [objects[id] EXCEPT !.name = n]), newlen, stored)

Renamed(id, n) == Plus(Minus(blobLength, objects[id].name), n)
SetCountedName(id, n) == SetName(id, n, Renamed(id, n), Renamed(id, n))

SetLampGroupName(id, n) == kind = "lampGroup" /\ SetCountedName(id, n)
SetPresetName(id, n) == kind = "preset" /\ SetCountedName(id, n)
SetTransitionEffectName(id, n) ==
  kind = "transitionEffect" /\ SetCountedName(id, n)
SetPulseEffectName(id, n) == kind = "pulseEffect" /\ SetCountedName(id, n)
SetSceneElementName(id, n) == kind = "sceneElement" /\ SetCountedName(id, n)
\* Computed, and not stored.
SetMasterSceneName(id, n) ==
  kind = "masterScene" /\ SetName(id, n, Renamed(id, n), blobLength)
\* Both names are taken off, and the difference is not stored.
SetSceneName(id, n) ==
  /\ kind = "scene"
  /\ SetName(id, n, Minus(blobLength, 2 * (objects[id].name + n)), blobLength)

\* The default lamp state is a preset, named by its own ID, that is counted
\* without another ID.
SetDefaultLampState(b) ==
  /\ kind = "preset"
  /\ \/ Update(Default, b)
     \/ /\ Call /\ Default \notin DOMAIN objects
        /\ LET x == [name |-> IdLen, body |-> b]
               newlen == Plus(blobLength, GetString(x))
           IN Checked(With(Default, x), newlen, newlen)

\* No write is scheduled.
ResetDefaultState ==
  /\ kind = "preset" /\ Call /\ Default \in DOMAIN objects
  /\ objects' = Without(Default)
  /\ blobLength' = Minus(blobLength, GetString(objects[Default]))
  /\ answer' = None
  /\ UNCHANGED <<kind, updated, pc, copy, file, followed>>

Reset == Call /\ Store(Empty, 0) /\ answer' = None

-----------------------------------------------------------------------------
(* Blobs and files.                                                        *)

\* ReplaceMap adds the IDs it reads to what has been counted so far.
ReplaceMap(objs) == IF kind = "sceneElement" THEN 0 ELSE IdsOf(objs)

HandleReceivedBlob(objs) ==
  /\ Call /\ objs # objects
  /\ objects' = objs
  /\ blobLength' = Plus(blobLength, ReplaceMap(objs))
  /\ updated' = TRUE
  /\ followed' = "now"
  /\ answer' = None
  /\ UNCHANGED <<kind, pc, copy, file>>

ReceiveLampGroups(b) == kind = "lampGroup" /\ HandleReceivedBlob(b)
ReceivePresets(b) == kind = "preset" /\ HandleReceivedBlob(b)
ReceiveTransitionEffects(b) == kind = "transitionEffect" /\ HandleReceivedBlob(b)
ReceivePulseEffects(b) == kind = "pulseEffect" /\ HandleReceivedBlob(b)
ReceiveSceneElements(b) == kind = "sceneElement" /\ HandleReceivedBlob(b)
ReceiveMasterScenes(b) == kind = "masterScene" /\ HandleReceivedBlob(b)

\* After every derivation of the scenes their texts are counted anew.
SyncSceneData ==
  /\ kind = "scene" /\ Call
  /\ blobLength' = GetStringOfAll(objects)
  /\ updated' = TRUE
  /\ answer' = None
  /\ UNCHANGED <<kind, objects, pc, copy, file, followed>>

\* When the service starts: the text's length, and the IDs again; a store
\* whose file is missing is written as empty.
ReadSavedData ==
  /\ pc = "down" /\ pc' = "up"
  /\ followed' = IF followed = "never" THEN "never" ELSE "earlier"
  /\ answer' = None
  /\ IF file = NoFile
     THEN /\ objects' = Empty
          /\ blobLength' = IF kind = "scene" THEN 2 * SentinelLen ELSE 0
          /\ updated' = (kind # "scene")
     ELSE /\ objects' = file.objects
          /\ blobLength' =
               IF kind = "scene" THEN GetStringOfAll(file.objects)
               ELSE Plus(GetStringOfAll(file.objects), ReplaceMap(file.objects))
          /\ updated' = FALSE
  /\ UNCHANGED <<kind, copy, file, ops>>

ReadSavedLampGroups == kind = "lampGroup" /\ ReadSavedData
ReadSavedPresets == kind = "preset" /\ ReadSavedData
ReadSavedTransitionEffects == kind = "transitionEffect" /\ ReadSavedData
ReadSavedPulseEffects == kind = "pulseEffect" /\ ReadSavedData
ReadSavedSceneElements == kind = "sceneElement" /\ ReadSavedData
ReadSavedScenes == kind = "scene" /\ ReadSavedData
ReadSavedMasterScenes == kind = "masterScene" /\ ReadSavedData

\* The persistence thread: a copy under the lock, and then the file.
CopyForFile ==
  /\ pc = "up" /\ updated
  /\ pc' = "write" /\ copy' = objects /\ updated' = FALSE
  /\ UNCHANGED <<kind, objects, blobLength, file, followed, answer, ops>>

WriteFile ==
  /\ pc = "write"
  /\ pc' = "up" /\ file' = [written |-> TRUE, objects |-> copy] /\ copy' = Empty
  /\ UNCHANGED <<kind, objects, blobLength, updated, followed, answer, ops>>

\* The process ends.
Stop ==
  /\ Call
  /\ pc' = "down" /\ objects' = Empty /\ blobLength' = 0 /\ copy' = Empty
  /\ updated' = FALSE /\ answer' = None
  /\ UNCHANGED <<kind, file, followed>>

-----------------------------------------------------------------------------
Deleted(id) ==
  \/ DeleteLampGroup(id) \/ DeletePreset(id) \/ DeleteTransitionEffect(id)
  \/ DeletePulseEffect(id) \/ DeleteSceneElement(id) \/ DeleteScene(id)
  \/ DeleteMasterScene(id)

Named(id, n) ==
  \/ SetLampGroupName(id, n) \/ SetPresetName(id, n)
  \/ SetTransitionEffectName(id, n) \/ SetPulseEffectName(id, n)
  \/ SetSceneElementName(id, n) \/ SetSceneName(id, n)
  \/ SetMasterSceneName(id, n)

Received(b) ==
  \/ ReceiveLampGroups(b) \/ ReceivePresets(b) \/ ReceiveTransitionEffects(b)
  \/ ReceivePulseEffects(b) \/ ReceiveSceneElements(b) \/ ReceiveMasterScenes(b)

Started ==
  \/ ReadSavedLampGroups \/ ReadSavedPresets \/ ReadSavedTransitionEffects
  \/ ReadSavedPulseEffects \/ ReadSavedSceneElements \/ ReadSavedScenes
  \/ ReadSavedMasterScenes

Next ==
  \/ \E n, b \in Lens : Create([name |-> n, body |-> b])
  \/ CreateNoSlot
  \/ \E id \in Ids, b \in Lens : Update(id, b)
  \/ \E id \in Ids : Deleted(id)
  \/ \E id \in Id, n \in Lens : Named(id, n)
  \/ \E b \in Lens : SetDefaultLampState(b)
  \/ ResetDefaultState \/ Reset
  \/ \E b \in Blobs : Received(b)
  \/ SyncSceneData
  \/ Started \/ CopyForFile \/ WriteFile \/ Stop

Spec == Init /\ [][Next]_vars

-----------------------------------------------------------------------------
(* Properties.                                                             *)

\* Type invariant.
TypeOK ==
  /\ kind \in Kinds
  /\ DOMAIN objects \subseteq Ids
  /\ \A id \in DOMAIN objects : objects[id] \in Object
  /\ blobLength \in 0..(Wrap - 1) /\ updated \in BOOLEAN
  /\ pc \in {"down", "up", "write"}
  /\ followed \in {"never", "earlier", "now"}
  /\ answer.code \in {"OK", "RESOURCES", "NO_SLOT"} /\ answer.need \in Nat
  /\ ops \in 0..MaxOps

\* The managers whose calls keep the count.
Counting == {"lampGroup", "transitionEffect", "pulseEffect", "sceneElement"}

\* What is written, and sent to the others, fits MAX_FILE_LEN.
FileFits ==
  kind \in Counting /\ followed = "never" =>
    TextOf(file.objects) < MaxFileLen

\* Through calls, refusals and restarts, the count covers the text and
\* exceeds it by the IDs and the text of an empty file at most; a store that
\* has been replaced by a leader's since it was read is not counted.  So what
\* is written fits.
LengthCovers ==
  /\ FileFits
  /\ kind \in Counting /\ pc # "down" /\ followed # "now" =>
       /\ TextOf(objects) <= blobLength
       /\ blobLength <= TextOf(objects) + IdsOf(objects) + SentinelLen

\* SceneManager.h: "LSF_ERR_RESOURCES - blob length is longer than
\* MAX_FILE_LEN": a call is refused for room only if what it would store, with
\* its IDs and the texts of empty files, does not fit.
RefusedMeansFull ==
  answer.code = "RESOURCES" => answer.need + 2 * SentinelLen >= MaxFileLen
=============================================================================
