-------------------------- MODULE LightingObjects --------------------------
(***************************************************************************)
(* What clients build in the Controller Service: lamp groups, presets,     *)
(* effects, scene elements, scenes and master scenes, each kept by its     *)
(* manager under a lock of its own, each naming others by their IDs.       *)
(*                                                                         *)
(* Method calls run concurrently (EnableConcurrentCallbacks): a call is    *)
(* the sequence of its lock sections, so what one manager has said of its  *)
(* objects may be out of date when another one acts on it.                 *)
(***************************************************************************)
EXTENDS Naturals, Sequences, FiniteSets

CONSTANTS
  Lamp,            \* the lamps that groups and scene elements name
  Group, Preset, Transition, Pulse, Element, Scene, Master,  \* the IDs
  AllLamps,        \* the ID that stands for the group of all lamps
  DefaultState,    \* the preset that holds the default lamp state
  GroupBodies,     \* what clients store: lamp groups,
  EffectBodies,    \*   effects of either kind,
  ElementBodies,   \*   scene elements,
  SceneBodies,     \*   the components of a scene of the older interface,
  ElementLists,    \*   the scene elements of a scene of the newer one,
  MasterBodies,    \*   and the scenes of a master scene
  State,           \* the lamp states a preset may hold
  Stored,          \* the objects the controller may start with
  MaxEntities,     \* how many objects of a kind a manager keeps
  NumLamps,        \* 2^8 in the code: what numLamps counts modulo
  Call,            \* the method calls in progress at a time
  MaxCalls,        \* bound: the calls that may change something
  None             \* no object

\* The objects, by their managers.
Ids == [lampGroup |-> Group, preset |-> Preset \cup {DefaultState},
        transitionEffect |-> Transition, pulseEffect |-> Pulse,
        sceneElement |-> Element, scene |-> Scene, masterScene |-> Master]
Kind == DOMAIN Ids
AllIds == UNION {Ids[k] : k \in Kind}
Effects == Transition \cup Pulse

ASSUME LightingObjectsAssumption ==
  /\ \A k, l \in Kind : k # l => Ids[k] \cap Ids[l] = {}
  /\ None \notin AllIds /\ AllLamps \notin AllIds
  /\ MaxEntities \in Nat /\ MaxCalls \in Nat /\ NumLamps \in Nat \ {0}

\* What may be stored of each kind, and what clients store.
GroupForm == [lamps : SUBSET Lamp, groups : Seq(Group \cup {AllLamps})]
ElementForm == [lamps : SUBSET Lamp, groups : Seq(Group \cup {AllLamps}),
                effect : Ids.preset \cup Effects]
ComponentForm == [lamps : SUBSET Lamp, groups : Seq(Group \cup {AllLamps}),
                  what : {"transitionEffect", "pulseEffect"} \X EffectBodies]

ASSUME BodiesAssumption ==
  /\ GroupBodies \subseteq GroupForm /\ ElementBodies \subseteq ElementForm
  /\ SceneBodies \subseteq Seq(ComponentForm)
  /\ ElementLists \subseteq SUBSET Element

ASSUME StoredAssumption ==
  \A o \in Stored :
    /\ DOMAIN o = Kind /\ \A k \in Kind : DOMAIN o[k] \subseteq Ids[k]
    /\ \A g \in DOMAIN o.lampGroup : o.lampGroup[g] \in GroupForm
    /\ \A e \in DOMAIN o.sceneElement : o.sceneElement[e] \in ElementForm
    /\ \A s \in DOMAIN o.scene : o.scene[s].elements \subseteq Element

VARIABLES
  objects,   \* of each kind: the objects that exist, by their IDs
  given,     \* the IDs that GenerateUniqueID has given to an object
  call,      \* the calls in progress
  known,     \* the objects that exist according to the signals sent
  calls,     \* how many calls have begun that may change something
  serial     \* no two calls have overlapped (history)

vars == <<objects, given, call, known, calls, serial>>

Has(k, id) == id \in DOMAIN objects[k]
Existing == UNION {DOMAIN objects[k] : k \in Kind}
KindOf(id) == CHOOSE k \in Kind : id \in Ids[k]

\* A call as it begins: what its other fields are when it needs them not.
Called(pc, op, kind, id) ==
  [pc |-> pc, op |-> op, kind |-> kind, id |-> id, body |-> None,
   todo |-> <<>>, made |-> <<>>, code |-> "OK", lamps |-> {}]
Blank == Called("idle", "none", "none", None)
ReadOps == {"get", "list", "default", "refused", "apply", "group", "effect"}
Rest == \A c \in Call : call[c].pc = "idle"

-----------------------------------------------------------------------------
(* Who depends on whom.                                                    *)

\* LampGroup::IsDependentLampGroup, of any group
GroupsUse(g) ==
  \E h \in DOMAIN objects.lampGroup :
    \E i \in DOMAIN objects.lampGroup[h].groups :
      objects.lampGroup[h].groups[i] = g

IsDependentOnLampGroup(g) ==
  \E e \in DOMAIN objects.sceneElement :
    \E i \in DOMAIN objects.sceneElement[e].groups :
      objects.sceneElement[e].groups[i] = g

IsDependentOnEffect(x) ==
  \E e \in DOMAIN objects.sceneElement : objects.sceneElement[e].effect = x

IsDependentOnSceneElement(e) ==
  \E s \in DOMAIN objects.scene : e \in objects.scene[s].elements

IsDependentOnScene(s) ==
  \E m \in DOMAIN objects.masterScene : s \in objects.masterScene[m]

\* What a manager asks of another one before it deletes.
Dependents(id) ==
  \/ id \in Group /\ IsDependentOnLampGroup(id)
  \/ id \in Ids.preset \cup Effects /\ IsDependentOnEffect(id)
  \/ id \in Element /\ IsDependentOnSceneElement(id)
  \/ id \in Scene /\ IsDependentOnScene(id)

\* An effect that sets a preset names it, and no manager asks for that.
EffectsUse(p) ==
  \/ \E t \in DOMAIN objects.transitionEffect :
       p \in objects.transitionEffect[t].presets
  \/ \E u \in DOMAIN objects.pulseEffect : p \in objects.pulseEffect[u].presets

-----------------------------------------------------------------------------
(* The parts of a call.                                                    *)

\* A record with some of its fields replaced.
Over(fields, r) ==
  [f \in DOMAIN r |-> IF f \in DOMAIN fields THEN fields[f] ELSE r[f]]

Set(c, fields) == call' = [call EXCEPT ![c] = Over(fields, @)]

Reading == \E c \in Call : call[c].pc = "answer" /\ call[c].op \in ReadOps

Begin(c, r) ==
  /\ call[c].pc = "idle" /\ ~Reading
  /\ call' = [call EXCEPT ![c] = r]
  /\ serial' = (serial /\ Rest)

\* A call that may change something; while the controller does not lead, or
\* is being challenged, all of these are answered BUSY and change nothing.
BeginChange(c, r) ==
  /\ calls < MaxCalls
  /\ calls' = calls + 1
  /\ Begin(c, r)

\* One that only reads is answered from one lock section.  Bound: it is
\* followed only when it overlaps no other call, on which it has no effect.
BeginRead(c, op, kind, id, fields) ==
  /\ Rest
  /\ Begin(c, Over(fields, Called("answer", op, kind, id)))
  /\ UNCHANGED <<objects, given, known, calls>>

Put(k, id, b) ==
  objects' = [objects EXCEPT
    ![k] = [x \in DOMAIN objects[k] \cup {id} |->
              IF x = id THEN b ELSE objects[k][x]]]
Drop(k, ids) ==
  objects' = [objects EXCEPT
    ![k] = [x \in DOMAIN objects[k] \ ids |-> objects[k][x]]]

SeqSet(s) == {s[i] : i \in DOMAIN s}

\* IDs are made up by the controllers: a client names only what one of them
\* has given.
Names(k, b) ==
  CASE k = "lampGroup" -> SeqSet(b.groups)
    [] k \in {"transitionEffect", "pulseEffect"} -> b.presets
    [] k = "sceneElement" -> SeqSet(b.groups) \cup {b.effect}
    [] k = "scene" -> b.elements
    [] k = "masterScene" -> b
    [] k = "preset" -> {}
Named == UNION {UNION {Names(k, objects[k][id]) : id \in DOMAIN objects[k]} :
                k \in Kind}

Full(k) == Cardinality(DOMAIN objects[k]) >= MaxEntities
Fresh(k) == {id \in Ids[k] \ given : id # DefaultState}

GenerateUniqueID(k) == CHOOSE x \in Fresh(k) : TRUE

\* Mutation: no slot is found, and the response code is not set.
CreateUnsaid(c, k, b) ==
  /\ Fresh(k) # {} /\ Names(k, b) \subseteq given
  /\ LET id == GenerateUniqueID(k)
     IN IF Full(k)
        THEN /\ BeginChange(c, Called("answer", "create", k, None))
             /\ UNCHANGED <<objects, given, known>>
        ELSE /\ BeginChange(c, Called("answer", "create", k, id))
             /\ Put(k, id, b)
             /\ given' = given \cup {id}
             /\ UNCHANGED known

\* The object under a new ID if there is a slot.
Create(c, k, b) ==
  /\ Fresh(k) # {} /\ Names(k, b) \subseteq given
  /\ LET id == GenerateUniqueID(k)
     IN IF Full(k)
        THEN /\ BeginChange(c, Over([code |-> "NO_SLOT"],
                                    Called("answer", "create", k, None)))
             /\ UNCHANGED <<objects, given, known>>
        ELSE /\ BeginChange(c, Called("answer", "create", k, id))
             /\ Put(k, id, b)
             /\ given' = given \cup {id}
             /\ UNCHANGED known

\* Mutation: the object is stored whether or not it is still there.
UpdateAnyway(c, k, id, b) ==
  /\ {id} \cup Names(k, b) \subseteq given \cup {DefaultState}
  /\ BeginChange(c, Called("answer", "update", k, id))
  /\ Put(k, id, b)
  /\ UNCHANGED <<given, known>>

Update(c, k, id, b) ==
  /\ {id} \cup Names(k, b) \subseteq given \cup {DefaultState}
  /\ LET r == Called("answer", "update", k, id)
     IN IF Has(k, id)
        THEN BeginChange(c, r) /\ Put(k, id, b)
        ELSE /\ BeginChange(c, Over([code |-> "NOT_FOUND"], r))
             /\ UNCHANGED objects
  /\ UNCHANGED <<given, known>>

\* A deletion asks for dependents first: pc is the first question.
Delete(c, k, pc) ==
  \E id \in Ids[k] :
    /\ id \in given \cup {DefaultState}
    /\ BeginChange(c, Called(pc, "delete", k, id))
    /\ UNCHANGED <<objects, given, known>>

Get(c, k) ==
  \E id \in Ids[k] \cap given :
    BeginRead(c, "get", k, id,
              [code |-> IF Has(k, id) THEN "OK" ELSE "NOT_FOUND"])

\* The default state is not among the presets listed.
Listed(k) == DOMAIN objects[k] \ {DefaultState}
List(c, k) == BeginRead(c, "list", k, None, [body |-> Listed(k)])

-----------------------------------------------------------------------------
(* Later lock sections of the calls that have several.                     *)

\* Mutation: the lamp groups are not asked.
CheckGroupsNever(c) ==
  /\ call[c].pc = "checkGroups"
  /\ Set(c, [pc |-> "check"])
  /\ UNCHANGED <<objects, given, known, calls, serial>>

\* DeleteLampGroup asks the lamp groups first, and the scene elements in a
\* lock section of their own.
CheckGroups(c) ==
  /\ call[c].pc = "checkGroups"
  /\ Set(c, IF GroupsUse(call[c].id)
            THEN [pc |-> "answer", code |-> "DEPENDENCY"] ELSE [pc |-> "check"])
  /\ UNCHANGED <<objects, given, known, calls, serial>>

CheckDependents(c) ==
  /\ call[c].pc = "check"
  /\ Set(c, IF Dependents(call[c].id)
            THEN [pc |-> "answer", code |-> "DEPENDENCY"] ELSE [pc |-> "erase"])
  /\ UNCHANGED <<objects, given, known, calls, serial>>

Erase(c) ==
  /\ call[c].pc = "erase"
  /\ Drop(call[c].kind, {call[c].id})
  /\ Set(c, [pc |-> "answer",
             code |-> IF Has(call[c].kind, call[c].id) THEN "OK"
                                                       ELSE "NOT_FOUND"])
  /\ UNCHANGED <<given, known, calls, serial>>

\* Mutation: no signal of what has been deleted.
DeletesUnsaid(r) ==
  IF r.code = "OK" /\ r.op = "create" THEN known \cup {r.id} ELSE known

Signalled(r) ==
  IF r.code # "OK" THEN known
  ELSE IF r.op = "create" THEN known \cup {r.id}
  ELSE IF r.op = "delete" THEN known \ {r.id}
  ELSE known

\* The reply and the signal; after an update of what scenes are made of, these
\* may have to be derived again.
Parts == {"preset", "transitionEffect", "pulseEffect", "sceneElement"}
Answer(c) ==
  /\ call[c].pc = "answer"
  /\ known' = Signalled(call[c])
  /\ call' = [call EXCEPT ![c] =
                IF /\ @.op = "update" /\ @.code = "OK" /\ @.kind \in Parts
                THEN Over([pc |-> "depends"], @) ELSE Blank]
  /\ UNCHANGED <<objects, given, calls, serial>>

\* Mutation: the manager of scene elements is not asked.
DependsNever(c) ==
  /\ call[c].pc = "depends"
  /\ call' = [call EXCEPT ![c] = Blank]
  /\ UNCHANGED <<objects, given, known, calls, serial>>

Depends(c) ==
  /\ call[c].pc = "depends"
  /\ call' = [call EXCEPT ![c] = IF Dependents(@.id)
                                 THEN Over([pc |-> "refresh"], @) ELSE Blank]
  /\ UNCHANGED <<objects, given, known, calls, serial>>

-----------------------------------------------------------------------------
(* Scenes.  A scene is kept in two forms: the list of its scene elements,  *)
(* and the components of the older interface derived from them.            *)

Component(e) ==
  LET x == objects.sceneElement[e]
  IN [lamps |-> x.lamps, groups |-> x.groups,
      what |-> IF x.effect \in Effects
               THEN <<KindOf(x.effect), objects[KindOf(x.effect)][x.effect]>>
               ELSE <<"preset", x.effect>>]

\* CreateScene(scene, sceneWithSceneElements) finds every element it needs.
Derivable(es) ==
  \A e \in es :
    /\ Has("sceneElement", e)
    /\ LET x == objects.sceneElement[e].effect
       IN x \in Effects => Has(KindOf(x), x)

CreateSceneOf(es) == {Component(e) : e \in es}

\* RefreshSceneData holds the scenes' lock while it derives them all; a
\* scene it cannot derive stays as it is.
Refreshed(x) ==
  IF Derivable(x.elements)
  THEN [elements |-> x.elements, scene |-> CreateSceneOf(x.elements),
        raced |-> FALSE]
  ELSE x

RefreshSceneData(c) ==
  /\ call[c].pc = "refresh"
  /\ objects' = [objects EXCEPT !.scene =
                   [s \in DOMAIN objects.scene |-> Refreshed(objects.scene[s])]]
  /\ call' = [call EXCEPT ![c] = Blank]
  /\ UNCHANGED <<given, known, calls, serial>>

SceneCall(c, pc, op, id, fields) ==
  /\ BeginChange(c, Over(fields, Called(pc, op, "scene", id)))
  /\ UNCHANGED <<objects, given, known>>

\* The older interface: each component becomes an effect and an element.
\* valid: whether CreateSceneInternal and UpdateSceneInternal will find the
\* name, the language and the components in order.
CreateScene(c) ==
  \E b \in SceneBodies, valid \in BOOLEAN :
    SceneCall(c, "makeEffect", "create", None,
              [todo |-> b, body |-> [elements |-> {}, scene |-> SeqSet(b),
                                     valid |-> valid]])

UpdateScene(c) ==
  \E b \in SceneBodies, valid \in BOOLEAN, s \in Scene \cap given :
    SceneCall(c, "makeEffect", "update", s,
              [todo |-> b, body |-> [elements |-> {}, scene |-> SeqSet(b),
                                     valid |-> valid]])

\* The newer one names the elements; the components are derived.
CreateSceneWithSceneElements(c) ==
  \E es \in ElementLists \cap SUBSET given, valid \in BOOLEAN :
    SceneCall(c, "derive", "create", None,
              [body |-> [elements |-> es, scene |-> {}, valid |-> valid]])

UpdateSceneWithSceneElements(c) ==
  \E es \in ElementLists \cap SUBSET given, s \in Scene \cap given :
    SceneCall(c, "derive", "update", s,
              [body |-> [elements |-> es, scene |-> {}, valid |-> TRUE]])

\* CreateScene(Scene&, SceneWithSceneElements&)
Derive(c) ==
  /\ call[c].pc = "derive"
  /\ LET es == call[c].body.elements
     IN Set(c, IF Derivable(es)
               THEN [pc |-> "store",
                     body |-> Over([scene |-> CreateSceneOf(es)],
                                   call[c].body)]
               ELSE [pc |-> "answer", code |-> "NOT_FOUND"])
  /\ UNCHANGED <<objects, given, known, calls, serial>>

\* CreateTransitionEffectInternal or CreatePulseEffectInternal, under the
\* name "AutoGenerated".
MakeEffect(c) ==
  /\ call[c].pc = "makeEffect" /\ call[c].todo # <<>>
  /\ LET k == Head(call[c].todo).what[1]
         x == GenerateUniqueID(k)
     IN IF Full(k)
        THEN /\ Set(c, [pc |-> "undo", code |-> "NO_SLOT"])
             /\ UNCHANGED <<objects, given>>
        ELSE /\ Fresh(k) # {}
             /\ Put(k, x, Head(call[c].todo).what[2])
             /\ given' = given \cup {x}
             /\ Set(c, [pc |-> "makeElement", made |-> Append(call[c].made, x)])
  /\ UNCHANGED <<known, calls, serial>>

MakeElement(c) ==
  /\ call[c].pc = "makeElement"
  /\ LET b == Head(call[c].todo)
         n == Len(call[c].made)
         e == GenerateUniqueID("sceneElement")
     IN IF Full("sceneElement")
        THEN /\ Set(c, [pc |-> "undo", code |-> "NO_SLOT"])
             /\ UNCHANGED <<objects, given>>
        ELSE /\ Fresh("sceneElement") # {}
             /\ Put("sceneElement", e, [lamps |-> b.lamps, groups |-> b.groups,
                                        effect |-> call[c].made[n]])
             /\ given' = given \cup {e}
             /\ Set(c, [pc |-> "makeEffect", todo |-> Tail(call[c].todo),
                        made |-> Append(call[c].made, e),
                        body |-> Over([elements |->
                                         call[c].body.elements \cup {e}],
                                      call[c].body)])
  /\ UNCHANGED <<known, calls, serial>>

\* All made: the signals of the effects and of the scene elements.
AllMade(c) ==
  /\ call[c].pc = "makeEffect" /\ call[c].todo = <<>>
  /\ known' = known \cup SeqSet(call[c].made)
  /\ Set(c, [pc |-> "store", made |-> <<>>])
  /\ UNCHANGED <<objects, given, calls, serial>>

\* A component failed.  The effects go first, then the scene elements, each
\* as DeleteTransitionEffectInternal and the like would: not while another
\* object depends on it, and a scene element still depends on its effect.
EffectsFirst(made, i) ==
  LET turn(x) == CASE x \in Transition -> 1 [] x \in Pulse -> 2
                   [] x \in Element -> 3
  IN \A j \in DOMAIN made : \/ turn(made[i]) < turn(made[j])
                            \/ turn(made[i]) = turn(made[j]) /\ i <= j
AllBut(made, i) ==
  [n \in 1..(Len(made) - 1) |-> IF n < i THEN made[n] ELSE made[n + 1]]

UndoCheck(c) ==
  /\ call[c].pc = "undo"
  /\ LET made == call[c].made
     IN \/ made = <<>> /\ Set(c, [pc |-> "answer"])
        \/ \E i \in DOMAIN made :
             /\ EffectsFirst(made, i)
             /\ Set(c, IF Dependents(made[i]) THEN [made |-> AllBut(made, i)]
                       ELSE [pc |-> "undoErase",
                             made |-> <<made[i]>> \o AllBut(made, i)])
  /\ UNCHANGED <<objects, given, known, calls, serial>>

UndoErase(c) ==
  /\ call[c].pc = "undoErase"
  /\ Drop(KindOf(Head(call[c].made)), {Head(call[c].made)})
  /\ Set(c, [pc |-> "undo", made |-> Tail(call[c].made)])
  /\ UNCHANGED <<given, known, calls, serial>>

StoredScene(b) ==
  [elements |-> b.elements, scene |-> b.scene,
   raced |-> ~(Derivable(b.elements) /\ b.scene = CreateSceneOf(b.elements))]

CreateSceneInternal(c) ==
  /\ call[c].pc = "store" /\ call[c].op = "create"
  /\ LET b == call[c].body
         s == GenerateUniqueID("scene")
     IN IF b.valid /\ ~Full("scene")
        THEN /\ Fresh("scene") # {}
             /\ Put("scene", s, StoredScene(b))
             /\ given' = given \cup {s}
             /\ Set(c, [pc |-> "answer", id |-> s, body |-> None])
        ELSE /\ Set(c, [pc |-> "answer", body |-> None,
                        code |-> IF b.valid THEN "NO_SLOT"
                                 ELSE "INVALID_ARGS"])
             /\ UNCHANGED <<objects, given>>
  /\ UNCHANGED <<known, calls, serial>>

\* A scene that is not there is passed over.
UpdateSceneInternal(c) ==
  /\ call[c].pc = "store" /\ call[c].op = "update"
  /\ LET b == call[c].body
     IN /\ IF b.valid /\ Has("scene", call[c].id)
           THEN Put("scene", call[c].id, StoredScene(b))
           ELSE UNCHANGED objects
        /\ Set(c, [pc |-> "answer", body |-> None,
                   code |-> IF b.valid THEN "OK" ELSE "INVALID_ARGS"])
  /\ UNCHANGED <<given, known, calls, serial>>

-----------------------------------------------------------------------------
(* Applying: which lamps a command reaches.                                *)

\* GetAllGroupLampsInternal: acc holds the lamps, the groups already seen
\* and the response code.
Expand(list, acc) ==
  LET expand[l \in Seq(Group \cup {AllLamps}),
             a \in [lamps : SUBSET Lamp, refs : SUBSET (Group \cup {AllLamps}),
                    code : {"OK", "NOT_FOUND", "PARTIAL"}]] ==
        IF l = <<>> THEN a
        ELSE LET g == Head(l)
                 b == objects.lampGroup[g]
                 seen == [a EXCEPT !.refs = @ \cup {g}, !.lamps = @ \cup b.lamps]
                 sub == expand[b.groups, [seen EXCEPT !.code = "OK"]]
                 next == IF g \in a.refs THEN a
                         ELSE IF ~Has("lampGroup", g)
                         THEN [a EXCEPT !.code = "NOT_FOUND"]
                         ELSE IF b.groups = <<>> THEN seen
                         ELSE [sub EXCEPT !.code = IF @ = "NOT_FOUND"
                                                   THEN "PARTIAL" ELSE @]
             IN expand[Tail(l), next]
  IN expand[list, acc]

\* Mutation: the groups within a group are passed over.
OwnLamps(list, lamps) ==
  [lamps |-> lamps \cup UNION {objects.lampGroup[g].lamps :
                               g \in SeqSet(list) \cap DOMAIN objects.lampGroup},
   refs |-> {}, code |-> "OK"]

GetAllGroupLamps(list, lamps) ==
  Expand(list, [lamps |-> lamps, refs |-> {}, code |-> "OK"])

SumOf(seq) ==
  LET sum[i \in 0..Len(seq)] ==
        IF i = 0 THEN 0 ELSE sum[i - 1] + Cardinality(seq[i])
  IN sum[Len(seq)]

\* ChangeLampGroupStateAndField, of a sequence of components: a count of 0,
\* in 8 bits, is taken for no lamps at all.
ChangeLampGroupStateAndField(comps, allLamps) ==
  LET lamps == [i \in DOMAIN comps |->
                  GetAllGroupLamps(comps[i].groups, comps[i].lamps).lamps]
  IN IF SumOf(lamps) % NumLamps = 0 /\ ~allLamps
     THEN [code |-> "NOT_FOUND", lamps |-> {}]
     ELSE [code |-> "handed",
           lamps |-> IF allLamps THEN Lamp ELSE UNION SeqSet(lamps)]

SetToSeqOf(S) ==
  CHOOSE s \in [1..Cardinality(S) -> S] : SeqSet(s) = S

\* ApplySceneElementInternal
ApplySceneElementInternal(list) ==
  LET found == SelectSeq(list, LAMBDA e : Has("sceneElement", e))
      Gone(e) == LET x == objects.sceneElement[e].effect IN ~Has(KindOf(x), x)
      comps == SelectSeq(found, LAMBDA e : ~Gone(e))
      r == ChangeLampGroupStateAndField(
             [i \in DOMAIN comps |-> objects.sceneElement[comps[i]]], FALSE)
  IN IF found = <<>> THEN [code |-> "NOT_FOUND", lamps |-> {}]
     ELSE IF comps = <<>> \/ r.code = "NOT_FOUND"
     THEN [code |-> "FAILURE", lamps |-> {}]
     ELSE r

Flatten(seqs) ==
  LET f[i \in 0..Len(seqs)] == IF i = 0 THEN <<>> ELSE f[i - 1] \o seqs[i]
  IN f[Len(seqs)]

\* A scene without scene elements is neither handed on nor answered.
ApplySceneNestedInternal(list) ==
  LET found == SelectSeq(list, LAMBDA s : Has("scene", s))
      elements == Flatten([i \in DOMAIN found |->
                             SetToSeqOf(objects.scene[found[i]].elements)])
      r == ApplySceneElementInternal(elements)
  IN IF found = <<>> THEN [code |-> "NOT_FOUND", lamps |-> {}]
     ELSE IF elements = <<>> THEN [code |-> "nothing", lamps |-> {}]
     ELSE IF r.code = "NOT_FOUND" THEN [code |-> "FAILURE", lamps |-> {}]
     ELSE r

Apply(c, op, kind, id, r) ==
  BeginRead(c, op, kind, id, [code |-> r.code, lamps |-> r.lamps])

ApplySceneElement(c) ==
  \E e \in Element \cap given :
    Apply(c, "apply", "sceneElement", e, ApplySceneElementInternal(<<e>>))

ApplyScene(c) ==
  \E s \in Scene \cap given :
    Apply(c, "apply", "scene", s, ApplySceneNestedInternal(<<s>>))

ApplyMasterScene(c) ==
  \E m \in Master \cap given :
    Apply(c, "apply", "masterScene", m,
          IF Has("masterScene", m)
          THEN ApplySceneNestedInternal(SetToSeqOf(objects.masterScene[m]))
          ELSE [code |-> "NOT_FOUND", lamps |-> {}])

\* An effect on lamps, or on lamp groups of which the first may be the one
\* of all lamps.
ApplyEffect(c, k, comp) ==
  \E x \in Ids[k] \cap given :
    Apply(c, "effect", k, x,
          IF Has(k, x)
          THEN ChangeLampGroupStateAndField(
                 <<comp>>, comp.groups # <<>> /\ Head(comp.groups) = AllLamps)
          ELSE [code |-> "NOT_FOUND", lamps |-> {}])

OfLamps(S) == [lamps |-> S, groups |-> <<>>]
OfGroup(g) == [lamps |-> {}, groups |-> <<g>>]

ApplyTransitionEffectOnLamps(c) ==
  \E S \in SUBSET Lamp : ApplyEffect(c, "transitionEffect", OfLamps(S))
ApplyTransitionEffectOnLampGroups(c) ==
  \E g \in (Group \cap given) \cup {AllLamps} :
    ApplyEffect(c, "transitionEffect", OfGroup(g))
ApplyPulseEffectOnLamps(c) ==
  \E S \in SUBSET Lamp : ApplyEffect(c, "pulseEffect", OfLamps(S))
ApplyPulseEffectOnLampGroups(c) ==
  \E g \in (Group \cap given) \cup {AllLamps} : ApplyEffect(c, "pulseEffect", OfGroup(g))

\* The commands of LampGroupManager itself, which go to the lamps of one
\* group: to a state or a preset, which may be the null state or the current
\* one.
GroupCommand(c) ==
  \E g \in (Group \cap given) \cup {AllLamps} :
    \/ Apply(c, "group", "lampGroup", g, [code |-> "INVALID_ARGS", lamps |-> {}])
    \/ Apply(c, "group", "lampGroup", g,
             ChangeLampGroupStateAndField(<<OfGroup(g)>>, g = AllLamps))

TransitionLampGroupState(c) == GroupCommand(c)
TransitionLampGroupStateToPreset(c) == GroupCommand(c)
PulseLampGroupWithState(c) == GroupCommand(c)
PulseLampGroupWithPreset(c) == GroupCommand(c)

\* The resets and the change of a field expand the group themselves, and
\* answer with the code of the expansion when it yields no lamp.
ExpandedCommand(c) ==
  \E g \in (Group \cap given) \cup {AllLamps} :
    LET r == GetAllGroupLamps(<<g>>, {})
    IN Apply(c, "group", "lampGroup", g,
             IF g = AllLamps THEN [code |-> "handed", lamps |-> Lamp]
             ELSE IF r.lamps = {} THEN [code |-> r.code, lamps |-> {}]
             ELSE [code |-> "handed", lamps |-> r.lamps])

TransitionLampGroupStateField(c) == ExpandedCommand(c)
ResetLampGroupState(c) == ExpandedCommand(c)
ResetLampGroupStateField(c) == ExpandedCommand(c)

-----------------------------------------------------------------------------
(* The methods of each manager.                                            *)

GetAllLampGroupIDs(c) == List(c, "lampGroup")
GetLampGroup(c) == Get(c, "lampGroup")
CreateLampGroup(c) == \E b \in GroupBodies : Create(c, "lampGroup", b)
UpdateLampGroup(c) ==
  \E g \in Group, b \in GroupBodies : Update(c, "lampGroup", g, b)
DeleteLampGroup(c) == Delete(c, "lampGroup", "checkGroups")

GetAllPresetIDs(c) == List(c, "preset")
GetPreset(c) == Get(c, "preset")
CreatePreset(c) == \E v \in State : Create(c, "preset", v)
UpdatePreset(c) ==
  \E p \in Ids.preset, v \in State : Update(c, "preset", p, v)
DeletePreset(c) == Delete(c, "preset", "check")

\* The default lamp state is stored as a preset of its own, or not at all.
SetDefaultLampState(c) ==
  \E v \in State :
    /\ BeginChange(c, Called("answer", "set", "preset", DefaultState))
    /\ Put("preset", DefaultState, v)
    /\ UNCHANGED <<given, known>>
GetDefaultLampState(c) ==
  BeginRead(c, "default", "preset", DefaultState, << >>)

GetAllTransitionEffectIDs(c) == List(c, "transitionEffect")
GetTransitionEffect(c) == Get(c, "transitionEffect")
CreateTransitionEffect(c) ==
  \E b \in EffectBodies : Create(c, "transitionEffect", b)
UpdateTransitionEffect(c) ==
  \E x \in Transition, b \in EffectBodies : Update(c, "transitionEffect", x, b)
DeleteTransitionEffect(c) == Delete(c, "transitionEffect", "check")

GetAllPulseEffectIDs(c) == List(c, "pulseEffect")
GetPulseEffect(c) == Get(c, "pulseEffect")
CreatePulseEffect(c) == \E b \in EffectBodies : Create(c, "pulseEffect", b)
UpdatePulseEffect(c) ==
  \E x \in Pulse, b \in EffectBodies : Update(c, "pulseEffect", x, b)
DeletePulseEffect(c) == Delete(c, "pulseEffect", "check")

GetAllSceneElementIDs(c) == List(c, "sceneElement")
GetSceneElement(c) == Get(c, "sceneElement")
CreateSceneElement(c) ==
  \E b \in ElementBodies : Create(c, "sceneElement", b)
UpdateSceneElement(c) ==
  \E e \in Element, b \in ElementBodies : Update(c, "sceneElement", e, b)
DeleteSceneElement(c) == Delete(c, "sceneElement", "check")

GetAllSceneIDs(c) == List(c, "scene")
GetScene(c) == Get(c, "scene")
GetSceneWithSceneElements(c) == Get(c, "scene")
DeleteScene(c) == Delete(c, "scene", "check")

GetAllMasterSceneIDs(c) == List(c, "masterScene")
GetMasterScene(c) == Get(c, "masterScene")
CreateMasterScene(c) ==
  \E b \in MasterBodies : Create(c, "masterScene", b)
UpdateMasterScene(c) ==
  \E m \in Master, b \in MasterBodies : Update(c, "masterScene", m, b)
DeleteMasterScene(c) == Delete(c, "masterScene", "erase")

\* The early returns: a controller that may not update, arguments out of
\* order.
Refuse(c) == BeginRead(c, "refused", "none", None, [code |-> "BUSY"])

-----------------------------------------------------------------------------
(* LightingReset: the managers are emptied one after the other, without a  *)
(* question to the others.  A manager refuses while updates are not        *)
(* allowed, and the rest goes on.                                          *)

LightingResetControllerService(c) ==
  /\ BeginChange(c, Over([todo |-> <<"preset", DefaultState, "lampGroup",
                                     "sceneElement", "scene", "masterScene",
                                     "transitionEffect", "pulseEffect">>],
                         Called("reset", "reset", "none", None)))
  /\ UNCHANGED <<objects, given, known>>

ResetManager(c, k) ==
  /\ call[c].pc = "reset" /\ call[c].todo # <<>> /\ Head(call[c].todo) = k
  /\ \/ /\ Drop(k, Ids[k])
        /\ known' = known \ Ids[k]
        /\ Set(c, [todo |-> Tail(call[c].todo)])
     \/ /\ UNCHANGED <<objects, known>>
        /\ Set(c, [todo |-> Tail(call[c].todo), code |-> "PARTIAL"])
  /\ UNCHANGED <<given, calls, serial>>

ResetPresets(c) == ResetManager(c, "preset")
ResetLampGroups(c) == ResetManager(c, "lampGroup")
ResetSceneElements(c) == ResetManager(c, "sceneElement")
ResetScenes(c) == ResetManager(c, "scene")
ResetMasterScenes(c) == ResetManager(c, "masterScene")
ResetTransitionEffects(c) == ResetManager(c, "transitionEffect")
ResetPulseEffects(c) == ResetManager(c, "pulseEffect")

\* After the presets: this one never refuses.
ResetDefaultState(c) ==
  /\ call[c].pc = "reset" /\ call[c].todo # <<>>
  /\ Head(call[c].todo) = DefaultState
  /\ Drop("preset", {DefaultState})
  /\ Set(c, [todo |-> Tail(call[c].todo)])
  /\ UNCHANGED <<given, known, calls, serial>>

ResetDone(c) ==
  /\ call[c].pc = "reset" /\ call[c].todo = <<>>
  /\ Set(c, [pc |-> "answer"])
  /\ UNCHANGED <<objects, given, known, calls, serial>>

-----------------------------------------------------------------------------
\* A scene stored in a form of old is one that was stored from parts that had
\* changed.  What is named once existed.
Init ==
  /\ objects \in Stored
  /\ \A s \in DOMAIN objects.scene :
       objects.scene[s] = StoredScene(objects.scene[s])
  /\ given = Existing \cup (Named \cap AllIds)
  /\ call = [c \in Call |-> Blank]
  /\ known = Existing \ {DefaultState}
  /\ calls = 0
  /\ serial = TRUE

Read(c) ==
  \/ GetAllLampGroupIDs(c) \/ GetLampGroup(c)
  \/ GetAllPresetIDs(c) \/ GetPreset(c) \/ GetDefaultLampState(c)
  \/ GetAllTransitionEffectIDs(c) \/ GetTransitionEffect(c)
  \/ GetAllPulseEffectIDs(c) \/ GetPulseEffect(c)
  \/ GetAllSceneElementIDs(c) \/ GetSceneElement(c)
  \/ GetAllSceneIDs(c) \/ GetScene(c) \/ GetSceneWithSceneElements(c)
  \/ GetAllMasterSceneIDs(c) \/ GetMasterScene(c)
  \/ Refuse(c)

Command(c) ==
  \/ TransitionLampGroupState(c) \/ TransitionLampGroupStateToPreset(c)
  \/ TransitionLampGroupStateField(c)
  \/ PulseLampGroupWithState(c) \/ PulseLampGroupWithPreset(c)
  \/ ResetLampGroupState(c) \/ ResetLampGroupStateField(c)
  \/ ApplyTransitionEffectOnLamps(c) \/ ApplyTransitionEffectOnLampGroups(c)
  \/ ApplyPulseEffectOnLamps(c) \/ ApplyPulseEffectOnLampGroups(c)
  \/ ApplySceneElement(c) \/ ApplyScene(c) \/ ApplyMasterScene(c)

Change(c) ==
  \/ CreateLampGroup(c) \/ UpdateLampGroup(c) \/ DeleteLampGroup(c)
  \/ CreatePreset(c) \/ UpdatePreset(c) \/ DeletePreset(c)
  \/ SetDefaultLampState(c)
  \/ CreateTransitionEffect(c) \/ UpdateTransitionEffect(c)
  \/ DeleteTransitionEffect(c)
  \/ CreatePulseEffect(c) \/ UpdatePulseEffect(c) \/ DeletePulseEffect(c)
  \/ CreateSceneElement(c) \/ UpdateSceneElement(c) \/ DeleteSceneElement(c)
  \/ CreateScene(c) \/ UpdateScene(c) \/ DeleteScene(c)
  \/ CreateSceneWithSceneElements(c) \/ UpdateSceneWithSceneElements(c)
  \/ CreateMasterScene(c) \/ UpdateMasterScene(c) \/ DeleteMasterScene(c)
  \/ LightingResetControllerService(c)

Continue(c) ==
  \/ CheckGroups(c) \/ CheckDependents(c) \/ Erase(c)
  \/ Depends(c) \/ RefreshSceneData(c)
  \/ MakeEffect(c) \/ MakeElement(c) \/ AllMade(c)
  \/ UndoCheck(c) \/ UndoErase(c)
  \/ Derive(c) \/ CreateSceneInternal(c) \/ UpdateSceneInternal(c)
  \/ ResetPresets(c) \/ ResetDefaultState(c) \/ ResetLampGroups(c)
  \/ ResetSceneElements(c) \/ ResetScenes(c) \/ ResetMasterScenes(c)
  \/ ResetTransitionEffects(c) \/ ResetPulseEffects(c) \/ ResetDone(c)
  \/ Answer(c)

Next == \E c \in Call : Read(c) \/ Command(c) \/ Change(c) \/ Continue(c)

Spec == Init /\ [][Next]_vars

-----------------------------------------------------------------------------
(* Properties.                                                             *)

\* Type invariant.
TypeOK ==
  /\ \A k \in Kind : DOMAIN objects[k] \subseteq Ids[k]
  /\ \A s \in DOMAIN objects.scene :
       /\ objects.scene[s].elements \subseteq Element
       /\ objects.scene[s].raced \in BOOLEAN
  /\ Existing \ {DefaultState} \subseteq given /\ given \subseteq AllIds
  /\ known \subseteq given
  /\ calls \in 0..MaxCalls /\ serial \in BOOLEAN
  /\ \A c \in Call : DOMAIN call[c] = DOMAIN Blank

Deletes == \E c \in Call : call[c].pc \in {"erase", "undoErase"}

\* The promise of LSF_ERR_DEPENDENCY, kept by the questions the managers ask
\* one another before they erase: what goes is named by no lamp group, scene
\* element, scene or master scene.  Only while calls come one at a time: the
\* questions and the erasing are lock sections of their own.
NoReferenceBroken ==
  [][serial /\ Deletes =>
       \A id \in Existing \ Existing' : ~GroupsUse(id) /\ ~Dependents(id)]_vars

\* An object that has gone never comes back, in whatever order the lock
\* sections of updates, derivations and deletions fall.
NothingReturns ==
  [][Existing' \cap given \subseteq Existing \cup {DefaultState}]_vars

\* When no call is in progress, the older form of each scene is what its
\* scene elements and effects say now, unless the scene was stored from
\* parts that had changed since they were read.
SceneCacheFresh ==
  Rest => \A s \in DOMAIN objects.scene :
            LET x == objects.scene[s] IN
            Derivable(x.elements) /\ ~x.raced => x.scene = CreateSceneOf(x.elements)

\* A client that follows the signals believes in no object that is not
\* there, as long as calls come one at a time.
KnownExist == serial /\ Rest => known \subseteq Existing

\* The code a call is answered with tells what became of the object.
CodesTell ==
  \A c \in Call : LET r == call[c] IN serial /\ r.pc = "answer" =>
    /\ /\ r.code = "NOT_FOUND"
       /\ \/ r.op \in {"get", "delete"}
          \/ r.op = "update" /\ r.kind # "scene"
       => ~Has(r.kind, r.id)
    /\ r.code = "OK" /\ r.op = "delete" => ~Has(r.kind, r.id)
    /\ r.code = "OK" /\ r.op \in {"get", "create"} => Has(r.kind, r.id)
    /\ r.op = "list" => r.body = Listed(r.kind)

ReachedGroups(S) ==
  LET reach[n \in Nat] ==
        IF n = 0 THEN S
        ELSE reach[n - 1] \cup
               UNION {SeqSet(objects.lampGroup[g].groups) :
                      g \in reach[n - 1] \cap DOMAIN objects.lampGroup}
  IN reach[Cardinality(Group)]

LampsOf(lamps, groups) ==
  lamps \cup UNION {objects.lampGroup[g].lamps :
                     g \in ReachedGroups(groups) \cap DOMAIN objects.lampGroup}

ElementLamps(e) ==
  LET x == objects.sceneElement[e]
  IN IF Has(KindOf(x.effect), x.effect) THEN LampsOf(x.lamps, SeqSet(x.groups))
     ELSE {}

SceneLamps(s) ==
  UNION {ElementLamps(e) :
         e \in objects.scene[s].elements \cap DOMAIN objects.sceneElement}

\* The lamps that an object stands for.
Reached(kind, id) ==
  CASE id = AllLamps -> Lamp
    [] id # AllLamps /\ ~Has(kind, id) -> {}
    [] kind = "lampGroup" /\ Has(kind, id) -> LampsOf({}, {id})
    [] kind = "sceneElement" /\ Has(kind, id) -> ElementLamps(id)
    [] kind = "scene" /\ Has(kind, id) -> SceneLamps(id)
    [] kind = "masterScene" /\ Has(kind, id) ->
         UNION {SceneLamps(s) : s \in objects.masterScene[id]
                                       \cap DOMAIN objects.scene}

\* A command goes to just the lamps that the object stands for, through any
\* nesting of lamp groups, cycles included, and is refused only when there
\* are none, or for a state or preset that is none.
ApplyReaches ==
  \A c \in Call : LET r == call[c] IN
    /\ serial /\ r.pc = "answer" /\ r.op \in {"apply", "group"}
    /\ r.code # "INVALID_ARGS"
    =>
      /\ r.lamps = Reached(r.kind, r.id)
      /\ r.code # "handed" => Reached(r.kind, r.id) = {}

\* What the client is told, and what the lamps are told, is so.
AnswersTell == CodesTell /\ ApplyReaches

\* TransitionEffectManager.h:141 of the client, of the signal that carries the
\* IDs: "A TransitionEffect has been created".
NothingLeftBehind == serial /\ Rest => Existing \ {DefaultState} \subseteq known

\* SceneManager.h: "Modify an existing scene and then sending signal
\* 'ScenesUpdated'".
UpdatedExists ==
  \A c \in Call : LET r == call[c] IN
    serial /\ r.pc = "answer" /\ r.op = "update" /\ r.code = "OK"
      => Has(r.kind, r.id)

\* LSFResponseCodes.h: LSF_ERR_DEPENDENCY, "There is a dependency of the
\* entity for which a delete request was received".
PresetsInUseStay ==
  [][serial /\ Deletes =>
       \A p \in (Existing \ Existing') \cap Preset : ~EffectsUse(p)]_vars
=============================================================================
