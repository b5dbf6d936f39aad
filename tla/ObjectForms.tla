---------------------------- MODULE ObjectForms ----------------------------
(***************************************************************************)
(* The forms an object takes on its way: what a client composes, the       *)
(* arguments of the method call that carries it, what the manager of the   *)
(* Controller Service holds, the text that it writes to its file and sends *)
(* to the other controllers, and what is read back from that text.         *)
(*                                                                         *)
(* A text is a sequence of words.  A name is one word: what a name does    *)
(* that holds a quotation mark or several blanks in a row is left out.     *)
(***************************************************************************)
EXTENDS Naturals, Sequences, FiniteSets, SequencesExt, TLC

CONSTANTS
  Kinds,      \* the kinds of object looked at
  Bodies,     \* of each kind: what clients compose
  Names,      \* the names they give
  IdOrder,    \* the IDs, in the order of a std::map
  CurrentState,  \* CurrentStateIdentifier: the preset that is none
  MaxCalls    \* bound: the calls that change an object

Digits == {"0", "1", "2", "3", "4", "5"}
Ids == ToSet(IdOrder)
Empty == [i \in {} |-> 0]

ASSUME ObjectFormsAssumption ==
  /\ Kinds \subseteq DOMAIN Bodies
  /\ IsInjective(IdOrder)
  /\ Ids \cap (Digits \cup {"Reset", "InitialState"}) = {}
  /\ MaxCalls \in Nat

VARIABLES
  kind,      \* the manager looked at
  held,      \* its map: of every ID the name and the object
  initial,   \* initialState: nothing has been created since the store is new
  text,      \* what it wrote last, and what clients meant by it (history)
  copy,      \* the map of a controller that follows
  mine,      \* what clients composed (history)
  copyMine,  \*   and of that, what the follower was sent (history)
  spoiled,   \* a text was read that cannot carry its objects (history)
  broken,    \* a reader never comes to its end
  calls

vars == <<kind, held, initial, text, copy, mine, copyMine, spoiled, broken,
          calls>>

-----------------------------------------------------------------------------
(* Lamp states, as objects, as dictionaries of a message, and as words.    *)

NullState == [null |-> TRUE, onOff |-> "0", hue |-> "0", saturation |-> "0",
              colorTemp |-> "0", brightness |-> "0"]

LampState(n) == [null |-> FALSE, onOff |-> n[1], hue |-> n[2],
                 saturation |-> n[3], colorTemp |-> n[4], brightness |-> n[5]]

GetState(s) ==
  IF s.null THEN Empty
  ELSE [OnOff |-> s.onOff, Hue |-> s.hue, Saturation |-> s.saturation,
        Brightness |-> s.brightness, ColorTemp |-> s.colorTemp]

SetState(d) ==
  IF DOMAIN d = {} THEN NullState
  ELSE LampState(<<d.OnOff, d.Hue, d.Saturation, d.ColorTemp, d.Brightness>>)

\* All six numbers, as effects and the lists of scenes write them
AllNumbers(s) ==
  <<IF s.null THEN "1" ELSE "0", s.onOff, s.hue, s.saturation, s.colorTemp,
    s.brightness>>

\* OutputState; presets write their state so, too.
StateText(s) == IF s.null THEN <<"1">> ELSE AllNumbers(s)
PresetText(s) == StateText(s)

-----------------------------------------------------------------------------
(* Reading words.  Stuck is a text that no reader gets beyond.             *)

Stuck == <<"stuck">>
Result(v, rest) == [v |-> v, rest |-> rest]

\* operator>> of a word; at the end of the text an empty one
Word(t) ==
  IF t \in {<<>>, Stuck} THEN Result("", t) ELSE Result(Head(t), Tail(t))

\* ParseValue, n times: a failed one fails every later read of the stream.
Numbers(t, n) ==
  IF n <= Len(t) /\ \A i \in 1..n : t[i] \in Digits
  THEN Result(SubSeq(t, 1, n), SubSeq(t, n + 1, Len(t)))
  ELSE Result([i \in 1..n |-> "0"], Stuck)

Flag(n) == IF n = "0" THEN "0" ELSE "1"

\* Mutation: saturation and colour temperature are read in the other order.
ParseLampStateCrossed(t) ==
  LET null == Numbers(t, 1)
      n == Numbers(null.rest, 5)
  IN IF null.v[1] = "0"
     THEN Result(LampState(<<Flag(n.v[1]), n.v[2], n.v[4], n.v[3], n.v[5]>>),
                 n.rest)
     ELSE Result(NullState, null.rest)

ParseLampState(t) ==
  LET null == Numbers(t, 1)
      n == Numbers(null.rest, 5)
  IN IF null.v[1] = "0"
     THEN Result(LampState(<<Flag(n.v[1]), n.v[2], n.v[3], n.v[4], n.v[5]>>),
                 n.rest)
     ELSE Result(NullState, null.rest)

ReadPreset(t) == ParseLampState(t)

\* An ID that is empty leaves no word behind.
IdText(id) == IF id = "" THEN <<>> ELSE <<id>>
Keyed(key, list) == FlattenSeq([i \in DOMAIN list |-> <<key, list[i]>>])

\* Mutation: a list is taken over as it comes.
CreateListAsIs(list) == list

CreateUniqueList(list) ==
  FoldLeft(LAMBDA l, x : IF Contains(l, x) THEN l ELSE Append(l, x),
           <<>>, list)

-----------------------------------------------------------------------------
(* Effects.                                                                *)

GetTransition(e) == <<GetState(e.state), e.preset, e.period>>
SetTransition(m) == [state |-> SetState(m[1]), preset |-> m[2],
                     period |-> m[3]]
TransitionValid(e) == {~(e.state.null /\ e.preset = "")}

TransitionText(e) ==
  IF e.state.null THEN <<"0">> \o IdText(e.preset) \o <<e.period>>
  ELSE <<"1">> \o AllNumbers(e.state) \o <<e.period>>

ReadTransition(t) ==
  LET contains == Numbers(t, 1)
      state == ParseLampState(contains.rest)
      preset == Word(contains.rest)
      inState == contains.v[1] = "1"
      period == Numbers(IF inState THEN state.rest ELSE preset.rest, 1)
  IN Result([state |-> IF inState THEN state.v ELSE NullState,
             preset |-> IF inState THEN "" ELSE preset.v,
             period |-> period.v[1]], period.rest)

GetPulse(e) ==
  <<GetState(e.to), e.period, e.duration, e.pulses, GetState(e.from),
    e.toPreset, e.fromPreset>>
SetPulse(m) ==
  [to |-> SetState(m[1]), period |-> m[2], duration |-> m[3],
   pulses |-> m[4], from |-> SetState(m[5]), toPreset |-> m[6],
   fromPreset |-> m[7]]

\* What is not right leaves invalidArgs as the memory had it.
PulseValid(e) ==
  IF \/ ~e.to.null /\ e.fromPreset = "" /\ e.toPreset = ""
     \/ e.to.null /\ e.fromPreset # "" /\ e.toPreset # ""
  THEN {TRUE}
  ELSE BOOLEAN

PulseText(e) ==
  (IF e.to.null THEN <<"0">> \o IdText(e.fromPreset) \o IdText(e.toPreset)
   ELSE <<"1">> \o AllNumbers(e.from) \o AllNumbers(e.to))
  \o <<e.period, e.duration, e.pulses>>

ReadPulse(t) ==
  LET contains == Numbers(t, 1)
      inState == contains.v[1] = "1"
      from == ParseLampState(contains.rest)
      to == ParseLampState(from.rest)
      fromPreset == Word(contains.rest)
      toPreset == Word(fromPreset.rest)
      n == Numbers(IF inState THEN to.rest ELSE toPreset.rest, 3)
  IN Result([to |-> IF inState THEN to.v ELSE NullState,
             from |-> IF inState THEN from.v ELSE NullState,
             toPreset |-> IF inState THEN "" ELSE toPreset.v,
             fromPreset |-> IF inState THEN "" ELSE fromPreset.v,
             period |-> n.v[1], duration |-> n.v[2], pulses |-> n.v[3]],
            n.rest)

-----------------------------------------------------------------------------
(* Lamp groups, scene elements, master scenes, scenes of elements.         *)

GetGroup(g) == <<g.lamps, g.groups>>
SetGroup(m) == [lamps |-> CreateUniqueList(m[1]),
                groups |-> CreateUniqueList(m[2])]
Members(o) == o.lamps # <<>> \/ o.groups # <<>>
GroupText(g) ==
  Keyed("Lamp", g.lamps) \o Keyed("LampGroup", g.groups) \o <<"EndLampGroup">>

GetElement(e) == <<e.lamps, e.groups, e.effect>>
SetElement(m) == [lamps |-> CreateUniqueList(m[1]),
                  groups |-> CreateUniqueList(m[2]), effect |-> m[3]]
ElementText(e) ==
  Keyed("Lamp", e.lamps) \o Keyed("LampGroup", e.groups) \o <<"Effect">>
  \o IdText(e.effect) \o <<"EndSceneElement">>

\* The members of a group or an element, until a word that is no key
RECURSIVE ReadMembers(_, _)
ReadMembers(t, o) ==
  LET key == Word(t)
      m == Word(key.rest)
  IN CASE key.v = "Lamp" ->
            ReadMembers(m.rest, [o EXCEPT !.lamps = Append(@, m.v)])
       [] key.v = "LampGroup" ->
            ReadMembers(m.rest, [o EXCEPT !.groups = Append(@, m.v)])
       [] key.v = "Effect" /\ "effect" \in DOMAIN o ->
            ReadMembers(m.rest, [o EXCEPT !.effect = m.v])
       [] OTHER -> Result(o, key.rest)

ReadGroup(t) == ReadMembers(t, [lamps |-> <<>>, groups |-> <<>>])
ReadElement(t) ==
  ReadMembers(t, [lamps |-> <<>>, groups |-> <<>>, effect |-> ""])

GetMaster(m) == <<m.scenes>>
SetMaster(m) == [scenes |-> CreateUniqueList(m[1])]

\* Mutation: nothing says where a master scene ends.
MasterTextOpen(m) == Keyed("Scene", m.scenes)

MasterText(m) == Keyed("Scene", m.scenes) \o <<"EndMasterScene">>

RECURSIVE ReadScenes(_, _)
ReadScenes(t, list) ==
  LET key == Word(t)
      scene == Word(key.rest)
  IN CASE t \in {<<>>, Stuck} -> Result(list, Stuck)
       [] key.v = "Scene" -> ReadScenes(scene.rest, Append(list, scene.v))
       [] key.v = "EndMasterScene" -> Result(list, key.rest)
       [] OTHER -> ReadScenes(key.rest, list)
ReadMaster(t) == LET r == ReadScenes(t, <<>>) IN Result([scenes |-> r.v], r.rest)

GetElements(s) == <<s.elements>>
SetElements(m) == [elements |-> CreateUniqueList(m[1])]
ElementsText(s) ==
  (IF s.elements = <<>> THEN <<>>
   ELSE <<"SceneElements">> \o s.elements \o <<"EndSceneElements">>)
  \o <<"EndScene">>

\* Within the list every word is an element.
RECURSIVE ReadElementList(_, _, _)
ReadElementList(t, list, within) ==
  LET w == Word(t)
  IN CASE t \in {<<>>, Stuck} -> Result(list, Stuck)
       [] within /\ w.v # "EndSceneElements" ->
            ReadElementList(w.rest, Append(list, w.v), TRUE)
       [] ~within /\ w.v = "SceneElements" ->
            ReadElementList(w.rest, list, TRUE)
       [] ~within /\ w.v = "EndScene" -> Result(list, w.rest)
       [] OTHER -> ReadElementList(w.rest, list, FALSE)
ReadElements(t) ==
  LET r == ReadElementList(t, <<>>, FALSE)
  IN Result([elements |-> r.v], r.rest)

-----------------------------------------------------------------------------
(* Scenes of the older interface: four lists of components.                *)

Sections == <<"toState", "toPreset", "withState", "withPreset">>
InStates == {"toState", "withState"}
SectionKey(n) ==
  [toState |-> "TransitionLampsLampGroupsToState",
   toPreset |-> "TransitionLampsLampGroupsToPreset",
   withState |-> "PulseLampsLampGroupsWithState",
   withPreset |-> "PulseLampsLampGroupsWithPreset"][n]
SectionEnd(n) ==
  [toState |-> "EndTransitionLampsLampGroupsToState",
   toPreset |-> "EndTransitionLampsLampGroupsToPreset",
   withState |-> "EndPulseLampsLampGroupsWithState",
   withPreset |-> "EndPulseLampsLampGroupsWithPreset"][n]

\* A component names a state or a preset (an ID), by the same members.
GetToState(c) == <<c.lamps, c.groups, GetState(c.state), c.period>>
SetToState(m) ==
  [lamps |-> CreateUniqueList(m[1]), groups |-> CreateUniqueList(m[2]),
   state |-> SetState(m[3]), period |-> m[4]]
GetToPreset(c) == <<c.lamps, c.groups, c.state, c.period>>
SetToPreset(m) ==
  [lamps |-> CreateUniqueList(m[1]), groups |-> CreateUniqueList(m[2]),
   state |-> m[3], period |-> m[4]]
GetWithState(c) ==
  <<c.lamps, c.groups, GetState(c.from), GetState(c.to), c.period,
    c.duration, c.pulses>>
SetWithState(m) ==
  [lamps |-> CreateUniqueList(m[1]), groups |-> CreateUniqueList(m[2]),
   from |-> SetState(m[3]), to |-> SetState(m[4]), period |-> m[5],
   duration |-> m[6], pulses |-> m[7]]
GetWithPreset(c) ==
  <<c.lamps, c.groups, c.from, c.to, c.period, c.duration, c.pulses>>
SetWithPreset(m) ==
  [lamps |-> CreateUniqueList(m[1]), groups |-> CreateUniqueList(m[2]),
   from |-> m[3], to |-> m[4], period |-> m[5], duration |-> m[6],
   pulses |-> m[7]]

GetComponent(n, c) ==
  CASE n = "toState" -> GetToState(c)
    [] n = "toPreset" -> GetToPreset(c)
    [] n = "withState" -> GetWithState(c)
    [] n = "withPreset" -> GetWithPreset(c)
SetComponent(n, m) ==
  CASE n = "toState" -> SetToState(m)
    [] n = "toPreset" -> SetToPreset(m)
    [] n = "withState" -> SetWithState(m)
    [] n = "withPreset" -> SetWithPreset(m)

Target(c) == IF "to" \in DOMAIN c THEN c.to ELSE c.state
ComponentValid(n, c) ==
  /\ Members(c)
  /\ IF n \in InStates THEN ~Target(c).null ELSE Target(c) # CurrentState

GetScene(s) ==
  [k \in 1..4 |-> [i \in DOMAIN s[Sections[k]] |->
                     GetComponent(Sections[k], s[Sections[k]][i])]]
SetScene(m) ==
  [n \in ToSet(Sections) |->
     LET k == CHOOSE k \in 1..4 : Sections[k] = n
     IN [i \in DOMAIN m[k] |-> SetComponent(n, m[k][i])]]
SceneValid(s) ==
  {\A n \in DOMAIN s : \A i \in DOMAIN s[n] : ComponentValid(n, s[n][i])}

StateOrId(n, s) == IF n \in InStates THEN StateText(s) ELSE IdText(s)
ComponentText(n, c) ==
  Keyed("Lamp", c.lamps) \o Keyed("LampGroup", c.groups)
  \o IF "to" \in DOMAIN c
     THEN <<"FromState">> \o StateOrId(n, c.from)
          \o <<"ToState">> \o StateOrId(n, c.to)
          \o <<"Period", c.period, "Duration", c.duration,
               "Pulses", c.pulses>>
     ELSE <<"LampState">> \o StateOrId(n, c.state) \o <<"Period", c.period>>
SectionText(n, list) ==
  IF list = <<>> THEN <<>>
  ELSE <<SectionKey(n)>>
       \o FlattenSeq([i \in DOMAIN list |-> ComponentText(n, list[i])])
       \o <<SectionEnd(n)>>
SceneText(s) ==
  FlattenSeq([k \in 1..4 |-> SectionText(Sections[k], s[Sections[k]])])
  \o <<"EndScene">>

\* What a section's reader starts a component from, and what each key sets
BlankComponent(n) ==
  LET none == IF n \in InStates THEN NullState ELSE ""
      to == [lamps |-> <<>>, groups |-> <<>>, state |-> none, period |-> "0"]
      with == [lamps |-> <<>>, groups |-> <<>>, from |-> none, to |-> none,
               period |-> "0", duration |-> "0", pulses |-> "0"]
  IN IF n \in {"toState", "toPreset"} THEN to ELSE with
Slot == [Lamp |-> "lamps", LampGroup |-> "groups", LampState |-> "state",
         FromState |-> "from", ToState |-> "to", Period |-> "period",
         Duration |-> "duration", Pulses |-> "pulses"]
LastKey(n) == IF n \in {"toState", "toPreset"} THEN "Period" ELSE "Pulses"

RECURSIVE ReadSection(_, _, _, _)
ReadSection(t, n, c, list) ==
  LET key == Word(t)
      known == key.v \in DOMAIN Slot /\ Slot[key.v] \in DOMAIN c
      slot == Slot[key.v]
      word == Word(key.rest)
      number == Numbers(key.rest, 1)
      value == IF slot \in {"lamps", "groups"}
               THEN Result(Append(c[slot], word.v), word.rest)
               ELSE IF slot \in {"period", "duration", "pulses"}
               THEN Result(number.v[1], number.rest)
               ELSE IF n \in InStates THEN ParseLampState(key.rest)
               ELSE word
      next == [c EXCEPT ![slot] = value.v]
  IN CASE t \in {<<>>, Stuck} -> Result(list, Stuck)
       [] key.v = SectionEnd(n) -> Result(list, key.rest)
       [] known /\ key.v = LastKey(n) ->
            ReadSection(value.rest, n, BlankComponent(n), Append(list, next))
       [] known /\ key.v # LastKey(n) ->
            ReadSection(value.rest, n, next, list)
       [] OTHER -> ReadSection(key.rest, n, c, list)

RECURSIVE ReadSections(_, _)
ReadSections(t, s) ==
  LET key == Word(t)
      named == {n \in DOMAIN s : SectionKey(n) = key.v}
  IN CASE t \in {<<>>, Stuck} -> Result(s, Stuck)
       [] key.v = "EndScene" -> Result(s, key.rest)
       [] named # {} ->
            LET n == CHOOSE n \in named : TRUE
                r == ReadSection(key.rest, n, BlankComponent(n), s[n])
            IN ReadSections(r.rest, [s EXCEPT ![n] = r.v])
       [] OTHER -> ReadSections(key.rest, s)
ReadScene(t) == ReadSections(t, [n \in ToSet(Sections) |-> <<>>])

-----------------------------------------------------------------------------
(* Whole texts.                                                            *)

Keyword(k) ==
  CASE k = "preset" -> "Preset"
    [] k = "transition" -> "TransitionEffect"
    [] k = "pulse" -> "PulseEffect"
    [] k = "group" -> "LampGroup"
    [] k = "element" -> "SceneElement"
    [] k = "master" -> "MasterScene"
    [] k \in {"scene", "elements"} -> "Scene"

BodyText(k, o) ==
  CASE k = "preset" -> PresetText(o)
    [] k = "transition" -> TransitionText(o)
    [] k = "pulse" -> PulseText(o)
    [] k = "group" -> GroupText(o)
    [] k = "element" -> ElementText(o)
    [] k = "master" -> MasterText(o)
    [] k = "scene" -> SceneText(o)
    [] k = "elements" -> ElementsText(o)

ReadBody(k, t) ==
  CASE k = "preset" -> ReadPreset(t)
    [] k = "transition" -> ReadTransition(t)
    [] k = "pulse" -> ReadPulse(t)
    [] k = "group" -> ReadGroup(t)
    [] k = "element" -> ReadElement(t)
    [] k = "master" -> ReadMaster(t)
    [] k = "scene" -> ReadScene(t)
    [] k = "elements" -> ReadElements(t)

\* What ends the entry of a text that holds no object
EmptyEntryEnd(k) ==
  CASE k \in {"preset", "transition", "pulse"} -> <<>>
    [] k = "group" -> <<"EndLampGroup">>
    [] k = "element" -> <<"EndSceneElement">>
    [] k = "master" -> <<"EndMasterScene">>
    [] k \in {"scene", "elements"} -> <<"EndScene">>

EmptyId(new) == IF new THEN "InitialState" ELSE "Reset"

InOrder(ids) == SelectSeq(IdOrder, LAMBDA i : i \in ids)

\* GetString of a map
MapText(k, map, new) ==
  IF DOMAIN map = {}
  THEN LET id == EmptyId(new)
       IN <<Keyword(k), id, id>> \o EmptyEntryEnd(k)
  ELSE LET ids == InOrder(DOMAIN map)
       IN FlattenSeq([i \in DOMAIN ids |->
            <<Keyword(k), ids[i], map[ids[i]].name>>
            \o BodyText(k, map[ids[i]].body)])

\* ReplaceMap, and ReplaceScene2List.  The first object clears the map.  An
\* object that cannot be read to its end leaves the reader in its loop (or,
\* at the end of the text, with a number that was never set).
RECURSIVE ReplaceMap(_, _, _, _)
ReplaceMap(k, t, map, first) ==
  LET id == Word(Tail(t))
      name == Word(id.rest)
      body == ReadBody(k, name.rest)
  IN CASE t \in {<<>>, Stuck} -> [map |-> map, stuck |-> t = Stuck]
       [] Head(t) = "Reset" -> ReplaceMap(k, Tail(t), Empty, first)
       [] Head(t) = Keyword(k) /\ id.v = "Reset" ->
            ReplaceMap(k, name.rest, Empty, first)
       [] Head(t) = Keyword(k) /\ id.v = "InitialState" ->
            ReplaceMap(k, name.rest, map, first)
       [] Head(t) = Keyword(k) /\ id.v \notin {"Reset", "InitialState"} ->
            ReplaceMap(k, body.rest,
              id.v :> [name |-> name.v, body |-> body.v]
                @@ (IF first THEN Empty ELSE map), FALSE)
       [] OTHER -> ReplaceMap(k, Tail(t), map, first)

\* The list of updated objects is a map without objects.  GetUpdatesString:
UpdatesText(map, new) ==
  IF DOMAIN map = {} THEN <<EmptyId(new)>>
  ELSE InOrder(DOMAIN map)

\* ReplaceUpdatesList.  The read that meets the end of the text gets an empty
\* word, which clears the list, too, when it is the first that is no key.
Updated == [name |-> "", body |-> Empty]
RECURSIVE ReplaceUpdatesList(_, _, _)
ReplaceUpdatesList(t, map, first) ==
  LET id == Word(t)
      cleared == IF first THEN Empty ELSE map
  IN CASE id.v = "" -> cleared
       [] id.v = "Reset" -> ReplaceUpdatesList(id.rest, Empty, first)
       [] id.v = "InitialState" -> ReplaceUpdatesList(id.rest, map, first)
       [] id.v \notin {"", "Reset", "InitialState"} ->
            ReplaceUpdatesList(id.rest, id.v :> Updated @@ cleared, FALSE)

Write(k, map, new) ==
  IF k = "updates" THEN UpdatesText(map, new) ELSE MapText(k, map, new)
Read(k, t, map) ==
  IF k = "updates"
  THEN [map |-> ReplaceUpdatesList(t, map, TRUE), stuck |-> FALSE]
  ELSE ReplaceMap(k, t, map, TRUE)

-----------------------------------------------------------------------------
(* The manager, a client and a controller that follows.                    *)

\* The method call of a client, and the object the manager makes of it
Sent(k, o) ==
  CASE k = "preset" -> GetState(o)
    [] k = "transition" -> GetTransition(o)
    [] k = "pulse" -> GetPulse(o)
    [] k = "group" -> GetGroup(o)
    [] k = "element" -> GetElement(o)
    [] k = "master" -> GetMaster(o)
    [] k = "scene" -> GetScene(o)
    [] k = "elements" -> GetElements(o)
    [] k = "updates" -> o
Received(k, m) ==
  CASE k = "preset" -> SetState(m)
    [] k = "transition" -> SetTransition(m)
    [] k = "pulse" -> SetPulse(m)
    [] k = "group" -> SetGroup(m)
    [] k = "element" -> SetElement(m)
    [] k = "master" -> SetMaster(m)
    [] k = "scene" -> SetScene(m)
    [] k = "elements" -> SetElements(m)
    [] k = "updates" -> m

\* Which objects the manager takes, when one is created or updated
Accepts(k, o, creating) ==
  TRUE \in
    CASE k = "preset" -> {~o.null}
      [] k = "transition" -> TransitionValid(o)
      [] k = "pulse" -> PulseValid(o)
      [] k = "group" -> {Members(o)}
      [] k = "element" -> {Members(o) /\ (creating => o.effect # "")}
      [] k = "master" -> {o.scenes # <<>>}
      [] k = "scene" -> SceneValid(o)
      [] k \in {"elements", "updates"} -> {TRUE}

\* The objects whose text cannot be read back: every state of a pulse is
\* written in full and read as far as it is not null, and an ID that is empty
\* leaves no word.  A transition to a state loses the preset beside it.
Spoils(k, o) ==
  CASE k = "transition" -> ~o.state.null /\ o.preset # ""
    [] k = "pulse" -> IF o.to.null THEN "" \in {o.fromPreset, o.toPreset}
                      ELSE o.from.null
    [] k = "element" -> o.effect = ""
    [] k = "scene" ->
         \/ \E i \in DOMAIN o.toPreset : o.toPreset[i].state = ""
         \/ \E i \in DOMAIN o.withPreset :
              "" \in {o.withPreset[i].from, o.withPreset[i].to}
    [] OTHER -> FALSE

\* A store that is new.  Scenes write their initial entry at once, and no
\* other one later.
NoText == [words |-> <<>>, mine |-> Empty, initial |-> FALSE]
Fresh(k) ==
  /\ held' = Empty
  /\ mine' = Empty
  /\ initial' = (k \notin {"scene", "elements"})
  /\ text' = IF initial' THEN NoText
             ELSE [words |-> MapText(k, Empty, TRUE), mine |-> Empty,
                   initial |-> TRUE]

Init ==
  /\ kind \in Kinds
  /\ held = Empty /\ mine = Empty
  /\ copy = Empty /\ copyMine = Empty
  /\ initial = (kind \notin {"scene", "elements"})
  /\ text = IF initial THEN NoText
            ELSE [words |-> MapText(kind, Empty, TRUE), mine |-> Empty,
                  initial |-> TRUE]
  /\ spoiled = FALSE /\ broken = FALSE
  /\ calls = 0

\* A client creates an object, the manager gives it an ID.
Create(id, name, o) ==
  LET body == Received(kind, Sent(kind, o))
  IN /\ calls < MaxCalls /\ kind # "updates"
     /\ id \notin DOMAIN held
     /\ Accepts(kind, body, TRUE)
     /\ held' = id :> [name |-> name, body |-> body] @@ held
     /\ mine' = id :> [name |-> name, body |-> o] @@ mine
     /\ calls' = calls + 1
     /\ UNCHANGED <<kind, initial, text, copy, copyMine, spoiled, broken>>

\* An update keeps the name; in the list of updates the object is entered.
Update(id, o) ==
  LET body == Received(kind, Sent(kind, o))
  IN /\ calls < MaxCalls
     /\ IF kind = "updates"
        THEN /\ held' = id :> Updated @@ held
             /\ mine' = id :> Updated @@ mine
        ELSE /\ id \in DOMAIN held
             /\ Accepts(kind, body, FALSE)
             /\ held' = [held EXCEPT ![id].body = body]
             /\ mine' = [mine EXCEPT ![id].body = o]
     /\ calls' = calls + 1
     /\ UNCHANGED <<kind, initial, text, copy, copyMine, spoiled, broken>>

Delete(id) ==
  /\ calls < MaxCalls
  /\ id \in DOMAIN held
  /\ held' = Restrict(held, DOMAIN held \ {id})
  /\ mine' = Restrict(mine, DOMAIN held \ {id})
  /\ calls' = calls + 1
  /\ UNCHANGED <<kind, initial, text, copy, copyMine, spoiled, broken>>

\* GetString of the manager: for the file and for the blob
WriteText ==
  /\ text' = [words |-> Write(kind, held, initial), mine |-> mine,
              initial |-> initial /\ DOMAIN held = {}]
  /\ initial' = FALSE
  /\ UNCHANGED <<kind, held, copy, mine, copyMine, spoiled, broken, calls>>

Spoilt == \E i \in DOMAIN text.mine : Spoils(kind, text.mine[i].body)
ReadText(map) ==
  LET r == Read(kind, text.words, map)
  IN /\ text # NoText /\ ~broken
     /\ broken' = r.stuck
     /\ spoiled' = (spoiled \/ Spoilt)

\* HandleReceivedBlob of a controller that follows
Follow ==
  /\ ReadText(copy)
  /\ copy' = Read(kind, text.words, copy).map
  /\ copyMine' = IF text.initial /\ kind # "updates" THEN copyMine
                 ELSE text.mine
  /\ UNCHANGED <<kind, held, initial, text, mine, calls>>

\* ReadSavedData: the controller starts again with its file.
Restart ==
  /\ ReadText(Empty)
  /\ held' = Read(kind, text.words, Empty).map
  /\ mine' = text.mine
  /\ initial' = FALSE
  /\ UNCHANGED <<kind, text, copy, copyMine, calls>>

\* Another controller, with a store that is new, takes over.
Replace ==
  /\ DOMAIN held # {}
  /\ Fresh(kind)
  /\ UNCHANGED <<kind, copy, copyMine, spoiled, broken, calls>>

Next ==
  \/ \E id \in Ids, name \in Names, o \in Bodies[kind] : Create(id, name, o)
  \/ \E id \in Ids, o \in Bodies[kind] : Update(id, o)
  \/ \E id \in Ids : Delete(id)
  \/ WriteText \/ Follow \/ Restart \/ Replace

Spec == Init /\ [][Next]_vars

-----------------------------------------------------------------------------
(* Properties.                                                             *)

\* The same, but for what a list names more than once
Lists == {"lamps", "groups", "scenes", "elements"}
SameFields(kept, composed) ==
  /\ DOMAIN kept = DOMAIN composed
  /\ \A f \in DOMAIN kept :
       IF f \in Lists
       THEN ToSet(kept[f]) = ToSet(composed[f]) /\ IsInjective(kept[f])
       ELSE kept[f] = composed[f]
Same(k, kept, composed) ==
  IF k = "scene"
  THEN \A n \in ToSet(Sections) :
         /\ Len(kept[n]) = Len(composed[n])
         /\ \A i \in DOMAIN kept[n] : SameFields(kept[n][i], composed[n][i])
  ELSE SameFields(kept, composed)
SameMap(k, map, composed) ==
  /\ DOMAIN map = DOMAIN composed
  /\ \A i \in DOMAIN map :
       /\ map[i].name = composed[i].name
       /\ Same(k, map[i].body, composed[i].body)

\* A reader comes to the end of every text of objects that can be written:
\* the loops that wait for EndScene or EndMasterScene find it, and no number
\* is looked for where there is none.  (MasterSceneManager.cc:680,
\* SceneManager.cc:1463, FileParser.h:65)
ReadEnds == broken => spoiled

\* What clients have composed is what the manager holds, and what the last
\* text said is what a follower holds, however often the objects have been
\* written, read again and passed on: no field is lost, crossed with another
\* or taken from the object before, an initial entry takes nothing away and
\* an emptied store empties the others, and no reader misses the end.
\* (SceneManager.cc:1311, LampGroupManager.cc:1030, FileParser.cc:49 and
\* LSFTypes.cc)
Kept ==
  /\ ReadEnds
  /\ ~spoiled => /\ SameMap(kind, held, mine)
                 /\ SameMap(kind, copy, copyMine)

\* A client that asks for an object composes from the answer what was
\* composed at first, by whatever controller the answer comes.  (Get and Set
\* of the classes in LSFTypes.cc)
Answered ==
  LET Answer(o) == Received(kind, Sent(kind, o))
  IN ~spoiled =>
       /\ \A i \in DOMAIN held : Same(kind, Answer(held[i].body), mine[i].body)
       /\ \A i \in DOMAIN copy :
            Same(kind, Answer(copy[i].body), copyMine[i].body)

\* A pulse of one lamp state, from what the lamp shows: LSFTypes.h:1235 makes
\* the state it starts from optional.  A controller that starts again should
\* hold it as it was.
PulsesKept == kind = "pulse" => ~broken /\ SameMap(kind, held, mine)
=============================================================================
