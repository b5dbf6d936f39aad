----------------------- MODULE LightingObjectsProofs -----------------------
(***************************************************************************)
(* What holds of the objects clients build, whatever their number and that *)
(* of the calls: nothing that has gone comes back, the older form of a     *)
(* scene follows its parts, and, while calls come one at a time, what is   *)
(* in use stays, clients believe in nothing that has gone and are told     *)
(* what became of the objects.                                             *)
(***************************************************************************)
EXTENDS LightingObjects, TLAPS

-----------------------------------------------------------------------------
(* The inductive invariant.                                                *)

PCs == {"idle", "answer", "checkGroups", "check", "erase", "depends",
        "refresh", "makeEffect", "makeElement", "derive", "store", "undo",
        "undoErase", "reset"}

\* Where a scene of the older interface is being made, or unmade.
Makes == {"makeEffect", "makeElement"}
Undoes == {"undo", "undoErase"}

\* The objects: everything named has been given.
ObjectsInv ==
  /\ DOMAIN objects = Kind
  /\ \A k \in Kind : DOMAIN objects[k] \subseteq Ids[k]
  /\ \A g \in DOMAIN objects.lampGroup : objects.lampGroup[g] \in GroupForm
  /\ \A e \in DOMAIN objects.sceneElement :
       /\ objects.sceneElement[e] \in ElementForm
       /\ objects.sceneElement[e].effect \in given \cup {DefaultState}
  /\ \A s \in DOMAIN objects.scene :
       /\ objects.scene[s].elements \subseteq Element \cap given
       /\ objects.scene[s].raced \in BOOLEAN
  /\ Existing \ {DefaultState} \subseteq given /\ given \subseteq AllIds

\* A call that has come to r, when the IDs in G have been given.
CallOK(r, G) ==
  /\ DOMAIN r = DOMAIN Blank
  /\ r.pc \in PCs
  /\ r.op \in {"update", "delete"} => r.kind \in Kind /\ r.id \in Ids[r.kind]
  /\ r.pc \in {"checkGroups", "check", "erase"} => r.op = "delete"
  /\ r.pc = "reset" => r.op = "reset"
  /\ r.pc = "answer" /\ r.op = "create" /\ r.code = "OK" =>
       r.kind \in Kind /\ r.id \in (Ids[r.kind] \cap G) \ {DefaultState}
  /\ r.pc \in Makes => r.todo \in Seq(ComponentForm)
  /\ r.pc = "makeElement" =>
       r.todo # <<>> /\ r.made # <<>> /\ r.made[Len(r.made)] \in Effects
  /\ r.pc \in Makes \cup Undoes =>
       r.made \in Seq((Effects \cup Element) \cap G)
  /\ r.pc \in Undoes => r.code = "NO_SLOT"
  /\ r.pc = "undoErase" => r.made # <<>>
  /\ r.pc \in Makes \cup Undoes \cup {"derive", "store"} =>
       r.op \in {"create", "update"} /\ r.kind = "scene"
  /\ r.pc \in Makes \cup {"derive", "store"} =>
       /\ DOMAIN r.body = {"elements", "scene", "valid"}
       /\ r.body.elements \subseteq Element \cap G
       /\ r.body.valid \in BOOLEAN

CallsInv == DOMAIN call = Call /\ \A c \in Call : CallOK(call[c], given)

TypeInv ==
  /\ ObjectsInv /\ CallsInv
  /\ known \subseteq given \ {DefaultState}
  /\ calls \in 0..MaxCalls /\ serial \in BOOLEAN

\* The call r has updated something that scenes may be made of, and goes on
\* to ask whether they are.
Asks(r) ==
  \/ r.pc = "depends"
  \/ r.pc = "answer" /\ r.op = "update" /\ r.code = "OK" /\ r.kind \in Parts

\* The call r goes on to derive the scenes of scene elements es again.
Refreshes(r, es) ==
  \/ r.pc = "refresh"
  \/ Asks(r) /\ \/ r.id \in es
                \/ \E e \in es : objects.sceneElement[e].effect = r.id

Stale(x) ==
  Derivable(x.elements) /\ ~x.raced /\ x.scene # CreateSceneOf(x.elements)

CacheInv ==
  \A s \in DOMAIN objects.scene :
    Stale(objects.scene[s]) =>
      \E c \in Call : Refreshes(call[c], objects.scene[s].elements)

\* What is so of the one call in progress, r, while calls have not overlapped.
Busy(c) == call[c].pc # "idle"

AloneInv == serial => \A c, d \in Call : Busy(c) /\ Busy(d) => c = d

Deleted(r) == r.pc = "answer" /\ r.op = "delete" /\ r.code = "OK"

KnownInv ==
  serial =>
    /\ \A x \in known :
         x \in Existing \/ \E c \in Call : Deleted(call[c]) /\ call[c].id = x
    /\ \A c \in Call :
         /\ call[c].pc \in Makes \cup Undoes => SeqSet(call[c].made) \cap known = {}
         /\ call[c].pc \in Makes => SeqSet(call[c].made) \subseteq Existing

AskedOK(r) ==
  /\ r.pc \in {"check", "erase"} => ~GroupsUse(r.id)
  /\ r.pc = "erase" => ~Dependents(r.id)
  /\ r.pc = "undoErase" => ~Dependents(r.made[1])

AskedInv == serial => \A c \in Call : AskedOK(call[c])

IInv ==
  TypeInv /\ CacheInv /\ AloneInv /\ KnownInv /\ AskedInv /\ CodesTell

-----------------------------------------------------------------------------
(* Data.                                                                   *)

LEMMA KindFacts ==
  /\ Kind = {"lampGroup", "preset", "transitionEffect", "pulseEffect",
             "sceneElement", "scene", "masterScene"}
  /\ Parts \subseteq Kind
BY DEF Kind, Ids, Parts

LEMMA IdFacts ==
  /\ Ids["lampGroup"] = Group /\ Ids["preset"] = Preset \cup {DefaultState}
  /\ Ids["transitionEffect"] = Transition /\ Ids["pulseEffect"] = Pulse
  /\ Ids["sceneElement"] = Element /\ Ids["scene"] = Scene
  /\ Ids["masterScene"] = Master
BY DEF Ids

LEMMA IdsApart ==
  /\ \A k, l \in Kind : k # l => Ids[k] \cap Ids[l] = {}
  /\ \A k \in Kind : Ids[k] \subseteq AllIds /\ AllLamps \notin Ids[k]
BY LightingObjectsAssumption DEF AllIds

LEMMA KindOfId ==
  \A k \in Kind : \A id \in Ids[k] : KindOf(id) = k
BY IdsApart DEF KindOf

LEMMA CalledFacts ==
  \A pc, op, kind, id :
    LET r == Called(pc, op, kind, id)
    IN /\ DOMAIN r = DOMAIN Blank
       /\ r.pc = pc /\ r.op = op /\ r.kind = kind /\ r.id = id
       /\ r.body = None /\ r.todo = <<>> /\ r.made = <<>>
       /\ r.code = "OK" /\ r.lamps = {}
BY DEF Called, Blank

LEMMA BlankFacts ==
  /\ DOMAIN Blank = {"pc", "op", "kind", "id", "body", "todo", "made", "code",
                     "lamps"}
  /\ Blank.pc = "idle" /\ Blank.op = "none"
BY DEF Called, Blank

LEMMA OverFacts ==
  \A s, r : /\ DOMAIN Over(s, r) = DOMAIN r
            /\ \A f \in DOMAIN r :
                 Over(s, r)[f] = IF f \in DOMAIN s THEN s[f] ELSE r[f]
BY DEF Over

LEMMA BlankOK == \A G : CallOK(Blank, G)
BY BlankFacts DEF CallOK, PCs, Makes, Undoes

\* What has been given stays given.
LEMMA CallStaysOK ==
  \A r, G, H : CallOK(r, G) /\ G \subseteq H => CallOK(r, H)
<1> SUFFICES ASSUME NEW r, NEW G, NEW H, CallOK(r, G), G \subseteq H
             PROVE  CallOK(r, H)
  OBVIOUS
<1>1. r.made \in Seq((Effects \cup Element) \cap G) =>
        r.made \in Seq((Effects \cup Element) \cap H)
  <2> SUFFICES ASSUME r.made \in Seq((Effects \cup Element) \cap G)
               PROVE  r.made \in Seq((Effects \cup Element) \cap H)
    OBVIOUS
  <2> DEFINE m == r.made
             A == (Effects \cup Element) \cap G
             B == (Effects \cup Element) \cap H
  <2>1. A \subseteq B /\ m \in Seq(A)
    OBVIOUS
  <2> HIDE DEF m, A, B
  <2>2. m \in Seq(B)
    BY <2>1
  <2> QED
    BY <2>2 DEF m, B
<1> QED
  BY <1>1 DEF CallOK

\* A step of one call, c, that comes to r.
LEMMA CallsStep ==
  ASSUME NEW c \in Call, NEW r, CallsInv, given \subseteq given',
         call' = [call EXCEPT ![c] = r], CallOK(r, given')
  PROVE  CallsInv'
<1>1. DOMAIN call' = Call /\ call'[c] = r
      /\ \A d \in Call \ {c} : call'[d] = call[d]
  BY DEF CallsInv
<1>2. \A d \in Call : CallOK(call'[d], given')
  BY <1>1, CallStaysOK DEF CallsInv
<1> QED
  BY <1>1, <1>2 DEF CallsInv

\* A new ID.
LEMMA NewId ==
  \A k \in Kind : Fresh(k) # {} =>
    /\ GenerateUniqueID(k) \in Ids[k]
    /\ GenerateUniqueID(k) \notin given \cup {DefaultState}
<1> TAKE k \in Kind
<1> HAVE Fresh(k) # {}
<1>1. GenerateUniqueID(k) \in Fresh(k)
  BY DEF GenerateUniqueID
<1> QED
  BY <1>1 DEF Fresh

LEMMA ExistingOfKind ==
  ASSUME ObjectsInv
  PROVE  \A k \in Kind : \A id \in Ids[k] : id \in Existing <=> Has(k, id)
BY IdsApart DEF ObjectsInv, Existing, Has

LEMMA PutStep ==
  ASSUME NEW k \in Kind, NEW id \in Ids[k], NEW b, ObjectsInv, Put(k, id, b)
  PROVE  /\ DOMAIN objects' = Kind
         /\ \A l \in Kind \ {k} : objects'[l] = objects[l]
         /\ DOMAIN objects'[k] = DOMAIN objects[k] \cup {id}
         /\ objects'[k][id] = b
         /\ \A x \in DOMAIN objects[k] \ {id} : objects'[k][x] = objects[k][x]
         /\ Existing' = Existing \cup {id}
<1>1. /\ DOMAIN objects' = Kind
      /\ \A l \in Kind \ {k} : objects'[l] = objects[l]
      /\ objects'[k] = [x \in DOMAIN objects[k] \cup {id} |->
                          IF x = id THEN b ELSE objects[k][x]]
  BY DEF Put, ObjectsInv
<1>2. /\ DOMAIN objects'[k] = DOMAIN objects[k] \cup {id}
      /\ objects'[k][id] = b
      /\ \A x \in DOMAIN objects[k] \ {id} : objects'[k][x] = objects[k][x]
  BY <1>1
<1>3. Existing' = Existing \cup {id}
  BY <1>1, <1>2 DEF Existing
<1> QED
  BY <1>1, <1>2, <1>3

LEMMA DropStep ==
  ASSUME NEW k \in Kind, NEW ids, ObjectsInv, Drop(k, ids)
  PROVE  /\ DOMAIN objects' = Kind
         /\ \A l \in Kind \ {k} : objects'[l] = objects[l]
         /\ DOMAIN objects'[k] = DOMAIN objects[k] \ ids
         /\ \A x \in DOMAIN objects[k] \ ids : objects'[k][x] = objects[k][x]
         /\ Existing' \subseteq Existing /\ Existing \ ids \subseteq Existing'
         /\ \A x \in ids \cap Ids[k] : x \notin Existing'
<1>1. /\ DOMAIN objects' = Kind
      /\ \A l \in Kind \ {k} : objects'[l] = objects[l]
      /\ objects'[k] = [x \in DOMAIN objects[k] \ ids |-> objects[k][x]]
  BY DEF Drop, ObjectsInv
<1>2. /\ DOMAIN objects'[k] = DOMAIN objects[k] \ ids
      /\ \A x \in DOMAIN objects[k] \ ids : objects'[k][x] = objects[k][x]
  BY <1>1
<1>3. Existing' \subseteq Existing /\ Existing \ ids \subseteq Existing'
  BY <1>1, <1>2 DEF Existing
<1>4. \A x \in ids \cap Ids[k] : x \notin Existing'
  BY <1>1, <1>2, IdsApart DEF Existing, ObjectsInv
<1> QED
  BY <1>1, <1>2, <1>3, <1>4

-----------------------------------------------------------------------------
(* A call with some of its fields replaced.                                *)

LEMMA SetPc ==
  \A x, v1 : DOMAIN x = DOMAIN Blank =>
            LET r == Over([pc |-> v1], x)
            IN /\ DOMAIN r = DOMAIN Blank /\ r.pc = v1 /\ r.op = x.op
               /\ r.kind = x.kind /\ r.id = x.id /\ r.body = x.body
               /\ r.todo = x.todo /\ r.made = x.made /\ r.code = x.code
               /\ r.lamps = x.lamps
BY BlankFacts DEF Over

LEMMA SetPcCode ==
  \A x, v1, v2 : DOMAIN x = DOMAIN Blank =>
            LET r == Over([pc |-> v1, code |-> v2], x)
            IN /\ DOMAIN r = DOMAIN Blank /\ r.pc = v1 /\ r.code = v2
               /\ r.op = x.op /\ r.kind = x.kind /\ r.id = x.id
               /\ r.body = x.body /\ r.todo = x.todo /\ r.made = x.made
               /\ r.lamps = x.lamps
BY BlankFacts DEF Over

LEMMA SetPcMade ==
  \A x, v1, v2 : DOMAIN x = DOMAIN Blank =>
            LET r == Over([pc |-> v1, made |-> v2], x)
            IN /\ DOMAIN r = DOMAIN Blank /\ r.pc = v1 /\ r.made = v2
               /\ r.op = x.op /\ r.kind = x.kind /\ r.id = x.id
               /\ r.body = x.body /\ r.todo = x.todo /\ r.code = x.code
               /\ r.lamps = x.lamps
BY BlankFacts DEF Over

LEMMA SetMade ==
  \A x, v1 : DOMAIN x = DOMAIN Blank =>
            LET r == Over([made |-> v1], x)
            IN /\ DOMAIN r = DOMAIN Blank /\ r.made = v1 /\ r.pc = x.pc
               /\ r.op = x.op /\ r.kind = x.kind /\ r.id = x.id
               /\ r.body = x.body /\ r.todo = x.todo /\ r.code = x.code
               /\ r.lamps = x.lamps
BY BlankFacts DEF Over

LEMMA SetPcBody ==
  \A x, v1, v2 : DOMAIN x = DOMAIN Blank =>
            LET r == Over([pc |-> v1, body |-> v2], x)
            IN /\ DOMAIN r = DOMAIN Blank /\ r.pc = v1 /\ r.body = v2
               /\ r.op = x.op /\ r.kind = x.kind /\ r.id = x.id
               /\ r.todo = x.todo /\ r.made = x.made /\ r.code = x.code
               /\ r.lamps = x.lamps
BY BlankFacts DEF Over

LEMMA SetTodo ==
  \A x, v1 : DOMAIN x = DOMAIN Blank =>
            LET r == Over([todo |-> v1], x)
            IN /\ DOMAIN r = DOMAIN Blank /\ r.todo = v1 /\ r.pc = x.pc
               /\ r.op = x.op /\ r.kind = x.kind /\ r.id = x.id
               /\ r.body = x.body /\ r.made = x.made /\ r.code = x.code
               /\ r.lamps = x.lamps
BY BlankFacts DEF Over

LEMMA SetTodoCode ==
  \A x, v1, v2 : DOMAIN x = DOMAIN Blank =>
            LET r == Over([todo |-> v1, code |-> v2], x)
            IN /\ DOMAIN r = DOMAIN Blank /\ r.todo = v1 /\ r.code = v2
               /\ r.pc = x.pc /\ r.op = x.op /\ r.kind = x.kind
               /\ r.id = x.id /\ r.body = x.body /\ r.made = x.made
               /\ r.lamps = x.lamps
BY BlankFacts DEF Over

LEMMA SetPcIdBody ==
  \A x, v1, v2, v3 : DOMAIN x = DOMAIN Blank =>
            LET r == Over([pc |-> v1, id |-> v2, body |-> v3], x)
            IN /\ DOMAIN r = DOMAIN Blank /\ r.pc = v1 /\ r.id = v2
               /\ r.body = v3 /\ r.op = x.op /\ r.kind = x.kind
               /\ r.todo = x.todo /\ r.made = x.made /\ r.code = x.code
               /\ r.lamps = x.lamps
BY BlankFacts DEF Over

LEMMA SetPcBodyCode ==
  \A x, v1, v2, v3 : DOMAIN x = DOMAIN Blank =>
            LET r == Over([pc |-> v1, body |-> v2, code |-> v3], x)
            IN /\ DOMAIN r = DOMAIN Blank /\ r.pc = v1 /\ r.body = v2
               /\ r.code = v3 /\ r.op = x.op /\ r.kind = x.kind
               /\ r.id = x.id /\ r.todo = x.todo /\ r.made = x.made
               /\ r.lamps = x.lamps
BY BlankFacts DEF Over

LEMMA SetElement ==
  \A x, v1, v2, v3, v4 : DOMAIN x = DOMAIN Blank =>
            LET r == Over([pc |-> v1, todo |-> v2, made |-> v3, body |-> v4], x)
            IN /\ DOMAIN r = DOMAIN Blank /\ r.pc = v1 /\ r.todo = v2
               /\ r.made = v3 /\ r.body = v4 /\ r.op = x.op
               /\ r.kind = x.kind /\ r.id = x.id /\ r.code = x.code
               /\ r.lamps = x.lamps
BY BlankFacts DEF Over


\* What may be stored of kind k.
FormOK(k, b, G) ==
  /\ k = "lampGroup" => b \in GroupForm
  /\ k = "sceneElement" => b \in ElementForm /\ b.effect \in G \cup {DefaultState}
  /\ k = "scene" => b.elements \subseteq Element \cap G /\ b.raced \in BOOLEAN

LEMMA ObjectsPut ==
  ASSUME NEW k \in Kind, NEW id \in Ids[k], NEW b, ObjectsInv, Put(k, id, b),
         given \subseteq given', given' \subseteq AllIds,
         id \in given' \cup {DefaultState}, FormOK(k, b, given')
  PROVE  ObjectsInv'
<1> USE PutStep, KindFacts
<1>1. DOMAIN objects' = Kind /\ \A l \in Kind : DOMAIN objects'[l] \subseteq Ids[l]
  BY DEF ObjectsInv
<1>2. \A g \in DOMAIN objects'["lampGroup"] : objects'["lampGroup"][g] \in GroupForm
  <2>1. CASE k = "lampGroup"
    BY <2>1 DEF ObjectsInv, FormOK
  <2>2. CASE k # "lampGroup"
    BY <2>2 DEF ObjectsInv
  <2> QED
    BY <2>1, <2>2
<1>3. \A e \in DOMAIN objects'["sceneElement"] :
        /\ objects'["sceneElement"][e] \in ElementForm
        /\ objects'["sceneElement"][e].effect \in given' \cup {DefaultState}
  <2>1. CASE k = "sceneElement"
    BY <2>1 DEF ObjectsInv, FormOK
  <2>2. CASE k # "sceneElement"
    BY <2>2 DEF ObjectsInv
  <2> QED
    BY <2>1, <2>2
<1>4. \A s \in DOMAIN objects'["scene"] :
        /\ objects'["scene"][s].elements \subseteq Element \cap given'
        /\ objects'["scene"][s].raced \in BOOLEAN
  <2>1. CASE k = "scene"
    BY <2>1 DEF ObjectsInv, FormOK
  <2>2. CASE k # "scene"
    BY <2>2 DEF ObjectsInv
  <2> QED
    BY <2>1, <2>2
<1>5. Existing' \ {DefaultState} \subseteq given'
  BY DEF ObjectsInv
<1> QED
  BY <1>1, <1>2, <1>3, <1>4, <1>5 DEF ObjectsInv

LEMMA ObjectsDrop ==
  ASSUME NEW k \in Kind, NEW ids, ObjectsInv, Drop(k, ids), given' = given
  PROVE  ObjectsInv'
<1> USE DropStep, KindFacts
<1>1. DOMAIN objects' = Kind /\ \A l \in Kind : DOMAIN objects'[l] \subseteq Ids[l]
  BY DEF ObjectsInv
<1>2. \A l \in Kind : \A x \in DOMAIN objects'[l] :
        x \in DOMAIN objects[l] /\ objects'[l][x] = objects[l][x]
  BY DEF ObjectsInv
<1>3. \A g \in DOMAIN objects'["lampGroup"] : objects'["lampGroup"][g] \in GroupForm
  BY <1>2 DEF ObjectsInv
<1>4. \A e \in DOMAIN objects'["sceneElement"] :
        /\ objects'["sceneElement"][e] \in ElementForm
        /\ objects'["sceneElement"][e].effect \in given' \cup {DefaultState}
  BY <1>2 DEF ObjectsInv
<1>5. \A s \in DOMAIN objects'["scene"] :
        /\ objects'["scene"][s].elements \subseteq Element \cap given'
        /\ objects'["scene"][s].raced \in BOOLEAN
  BY <1>2 DEF ObjectsInv
<1>6. Existing' \ {DefaultState} \subseteq given' /\ given' \subseteq AllIds
  BY DEF ObjectsInv
<1> QED
  BY <1>1, <1>3, <1>4, <1>5, <1>6 DEF ObjectsInv

LEMMA ObjectsSame ==
  ASSUME ObjectsInv, objects' = objects, given' = given
  PROVE  ObjectsInv' /\ Existing' = Existing
BY DEF ObjectsInv, Existing

\* RefreshSceneData, of the objects.
Refreshing ==
  objects' = [objects EXCEPT !.scene =
               [s \in DOMAIN objects.scene |-> Refreshed(objects.scene[s])]]

LEMMA RefreshStep ==
  ASSUME ObjectsInv, Refreshing
  PROVE  /\ DOMAIN objects' = Kind
         /\ \A l \in Kind \ {"scene"} : objects'[l] = objects[l]
         /\ DOMAIN objects'["scene"] = DOMAIN objects["scene"]
         /\ \A s \in DOMAIN objects["scene"] :
              objects'["scene"][s] = Refreshed(objects["scene"][s])
         /\ Existing' = Existing
<1>1. /\ DOMAIN objects' = Kind
      /\ \A l \in Kind \ {"scene"} : objects'[l] = objects[l]
      /\ objects'["scene"] = [s \in DOMAIN objects["scene"] |->
                                Refreshed(objects["scene"][s])]
  BY KindFacts DEF Refreshing, ObjectsInv
<1>2. /\ DOMAIN objects'["scene"] = DOMAIN objects["scene"]
      /\ \A s \in DOMAIN objects["scene"] :
           objects'["scene"][s] = Refreshed(objects["scene"][s])
  BY <1>1
<1>3. \A l \in Kind : DOMAIN objects'[l] = DOMAIN objects[l]
  BY <1>1, <1>2
<1>4. Existing' = Existing
  BY <1>1, <1>3 DEF Existing, ObjectsInv
<1> QED
  BY <1>1, <1>2, <1>4

LEMMA RefreshedForm ==
  \A x : /\ Refreshed(x).elements = x.elements
         /\ x.raced \in BOOLEAN => Refreshed(x).raced \in BOOLEAN
BY DEF Refreshed

LEMMA ObjectsRefresh ==
  ASSUME ObjectsInv, Refreshing, given' = given
  PROVE  ObjectsInv'
<1> USE RefreshStep, KindFacts
<1>1. \A l \in Kind : DOMAIN objects'[l] \subseteq Ids[l]
  BY DEF ObjectsInv
<1>2. \A g \in DOMAIN objects'["lampGroup"] : objects'["lampGroup"][g] \in GroupForm
  BY DEF ObjectsInv
<1>3. \A e \in DOMAIN objects'["sceneElement"] :
        /\ objects'["sceneElement"][e] \in ElementForm
        /\ objects'["sceneElement"][e].effect \in given' \cup {DefaultState}
  BY DEF ObjectsInv
<1>4. \A s \in DOMAIN objects'["scene"] :
        /\ objects'["scene"][s].elements \subseteq Element \cap given'
        /\ objects'["scene"][s].raced \in BOOLEAN
  BY RefreshedForm DEF ObjectsInv
<1>5. Existing' \ {DefaultState} \subseteq given' /\ given' \subseteq AllIds
  BY DEF ObjectsInv
<1> QED
  BY <1>1, <1>2, <1>3, <1>4, <1>5 DEF ObjectsInv

-----------------------------------------------------------------------------
(* The steps of a call that begins.                                        *)

\* Any call that only reads.
Reads(c) ==
  \E op \in ReadOps : \E kind, id, fields :
    /\ BeginRead(c, op, kind, id, fields)
    /\ DOMAIN fields \subseteq {"code", "body", "lamps"}
    /\ op = "get" =>
         fields = [code |-> IF Has(kind, id) THEN "OK" ELSE "NOT_FOUND"]
    /\ op = "list" => fields = [body |-> Listed(kind)]

LEMMA ApplyReads ==
  \A c, op, kind, id, r :
    op \in {"apply", "group", "effect"} /\ Apply(c, op, kind, id, r) => Reads(c)
<1> TAKE c, op, kind, id, r
<1> HAVE op \in {"apply", "group", "effect"} /\ Apply(c, op, kind, id, r)
<1>1. DOMAIN [code |-> r.code, lamps |-> r.lamps] \subseteq {"code", "body", "lamps"}
  OBVIOUS
<1>2. BeginRead(c, op, kind, id, [code |-> r.code, lamps |-> r.lamps])
  BY DEF Apply
<1> QED
  BY <1>1, <1>2 DEF Reads, ReadOps

LEMMA CommandReads == \A c : Command(c) => Reads(c)
<1> TAKE c
<1> HAVE Command(c)
<1>1. ASSUME GroupCommand(c)
      PROVE  Reads(c)
  BY <1>1, ApplyReads DEF GroupCommand, ReadOps
<1>2. ASSUME ExpandedCommand(c)
      PROVE  Reads(c)
  BY <1>2, ApplyReads DEF ExpandedCommand, ReadOps
<1>3. ASSUME NEW k, NEW comp, ApplyEffect(c, k, comp)
      PROVE  Reads(c)
  BY <1>3, ApplyReads DEF ApplyEffect, ReadOps
<1>4. ASSUME ApplySceneElement(c) \/ ApplyScene(c) \/ ApplyMasterScene(c)
      PROVE  Reads(c)
  BY <1>4, ApplyReads
     DEF ApplySceneElement, ApplyScene, ApplyMasterScene, ReadOps
<1> QED
  BY <1>1, <1>2, <1>3, <1>4
     DEF Command, TransitionLampGroupState, TransitionLampGroupStateToPreset,
         TransitionLampGroupStateField, PulseLampGroupWithState,
         PulseLampGroupWithPreset, ResetLampGroupState,
         ResetLampGroupStateField, ApplyTransitionEffectOnLamps,
         ApplyTransitionEffectOnLampGroups, ApplyPulseEffectOnLamps,
         ApplyPulseEffectOnLampGroups

LEMMA ReadReads == \A c : Read(c) => Reads(c)
<1> TAKE c
<1> HAVE Read(c)
<1>1. ASSUME NEW k, List(c, k)
      PROVE  Reads(c)
  <2>1. DOMAIN [body |-> Listed(k)] \subseteq {"code", "body", "lamps"}
    OBVIOUS
  <2> QED
    BY <1>1, <2>1 DEF List, Reads, ReadOps
<1>2. ASSUME NEW k, Get(c, k)
      PROVE  Reads(c)
  <2>1. \A x : DOMAIN [code |-> x] \subseteq {"code", "body", "lamps"}
    OBVIOUS
  <2> QED
    BY <1>2, <2>1 DEF Get, Reads, ReadOps
<1>3. ASSUME GetDefaultLampState(c)
      PROVE  Reads(c)
  <2>1. DOMAIN << >> \subseteq {"code", "body", "lamps"}
    OBVIOUS
  <2> QED
    BY <1>3, <2>1 DEF GetDefaultLampState, Reads, ReadOps
<1>4. ASSUME Refuse(c)
      PROVE  Reads(c)
  <2>1. DOMAIN [code |-> "BUSY"] \subseteq {"code", "body", "lamps"}
    OBVIOUS
  <2> QED
    BY <1>4, <2>1 DEF Refuse, Reads, ReadOps
<1> QED
  BY <1>1, <1>2, <1>3, <1>4
     DEF Read, GetAllLampGroupIDs, GetLampGroup, GetAllPresetIDs, GetPreset,
         GetAllTransitionEffectIDs, GetTransitionEffect, GetAllPulseEffectIDs,
         GetPulseEffect, GetAllSceneElementIDs, GetSceneElement, GetAllSceneIDs,
         GetScene, GetSceneWithSceneElements, GetAllMasterSceneIDs,
         GetMasterScene

\* What clients store of kind k.
BodyOK(k, b) ==
  /\ k = "lampGroup" => b \in GroupForm
  /\ k = "sceneElement" => b \in ElementForm

CreatesOne(c) == \E k \in Kind \ {"scene"} : \E b : Create(c, k, b) /\ BodyOK(k, b)
UpdatesOne(c) ==
  \E k \in Kind \ {"scene"} : \E id \in Ids[k] : \E b :
    Update(c, k, id, b) /\ BodyOK(k, b)

\* The question a deletion begins with.
FirstAsked(k) == CASE k = "lampGroup" -> "checkGroups"
                   [] k = "masterScene" -> "erase"
                   [] OTHER -> "check"
DeletesOne(c) == \E k \in Kind : Delete(c, k, FirstAsked(k))

SceneChange(c) ==
  \/ CreateScene(c) \/ UpdateScene(c)
  \/ CreateSceneWithSceneElements(c) \/ UpdateSceneWithSceneElements(c)

LEMMA ChangeCases ==
  ASSUME NEW c \in Call, Change(c)
  PROVE  \/ CreatesOne(c) \/ UpdatesOne(c) \/ DeletesOne(c) \/ SceneChange(c)
         \/ SetDefaultLampState(c) \/ LightingResetControllerService(c)
<1> USE KindFacts
<1>1. ASSUME \/ CreateLampGroup(c) \/ CreatePreset(c) \/ CreateTransitionEffect(c)
             \/ CreatePulseEffect(c) \/ CreateSceneElement(c)
             \/ CreateMasterScene(c)
      PROVE  CreatesOne(c)
  <2>1. CASE CreateLampGroup(c)
    BY <2>1, BodiesAssumption DEF CreateLampGroup, CreatesOne, BodyOK
  <2>2. CASE CreateSceneElement(c)
    BY <2>2, BodiesAssumption DEF CreateSceneElement, CreatesOne, BodyOK
  <2>3. CASE CreatePreset(c)
    BY <2>3 DEF CreatePreset, CreatesOne, BodyOK
  <2>4. CASE CreateTransitionEffect(c)
    BY <2>4 DEF CreateTransitionEffect, CreatesOne, BodyOK
  <2>5. CASE CreatePulseEffect(c)
    BY <2>5 DEF CreatePulseEffect, CreatesOne, BodyOK
  <2>6. CASE CreateMasterScene(c)
    BY <2>6 DEF CreateMasterScene, CreatesOne, BodyOK
  <2> QED
    BY <1>1, <2>1, <2>2, <2>3, <2>4, <2>5, <2>6
<1>2. ASSUME \/ UpdateLampGroup(c) \/ UpdatePreset(c) \/ UpdateTransitionEffect(c)
             \/ UpdatePulseEffect(c) \/ UpdateSceneElement(c)
             \/ UpdateMasterScene(c)
      PROVE  UpdatesOne(c)
  <2> USE IdFacts
  <2>1. CASE UpdateLampGroup(c)
    BY <2>1, BodiesAssumption DEF UpdateLampGroup, UpdatesOne, BodyOK
  <2>2. CASE UpdateSceneElement(c)
    BY <2>2, BodiesAssumption DEF UpdateSceneElement, UpdatesOne, BodyOK
  <2>3. CASE UpdatePreset(c)
    BY <2>3 DEF UpdatePreset, UpdatesOne, BodyOK
  <2>4. CASE UpdateTransitionEffect(c)
    BY <2>4 DEF UpdateTransitionEffect, UpdatesOne, BodyOK
  <2>5. CASE UpdatePulseEffect(c)
    BY <2>5 DEF UpdatePulseEffect, UpdatesOne, BodyOK
  <2>6. CASE UpdateMasterScene(c)
    BY <2>6 DEF UpdateMasterScene, UpdatesOne, BodyOK
  <2> QED
    BY <1>2, <2>1, <2>2, <2>3, <2>4, <2>5, <2>6
<1>3. ASSUME \/ DeleteLampGroup(c) \/ DeletePreset(c) \/ DeleteTransitionEffect(c)
             \/ DeletePulseEffect(c) \/ DeleteSceneElement(c) \/ DeleteScene(c)
             \/ DeleteMasterScene(c)
      PROVE  DeletesOne(c)
  BY <1>3
     DEF DeleteLampGroup, DeletePreset, DeleteTransitionEffect,
         DeletePulseEffect, DeleteSceneElement, DeleteScene, DeleteMasterScene,
         DeletesOne, FirstAsked
<1> QED
  BY <1>1, <1>2, <1>3 DEF Change, SceneChange

\* One step of a reset.
ResetsOne(c) == \E k \in Kind : ResetManager(c, k)

LEMMA ContinueCases ==
  ASSUME NEW c \in Call, Continue(c)
  PROVE  \/ CheckGroups(c) \/ CheckDependents(c) \/ Erase(c)
         \/ Depends(c) \/ RefreshSceneData(c)
         \/ MakeEffect(c) \/ MakeElement(c) \/ AllMade(c)
         \/ UndoCheck(c) \/ UndoErase(c)
         \/ Derive(c) \/ CreateSceneInternal(c) \/ UpdateSceneInternal(c)
         \/ ResetsOne(c) \/ ResetDefaultState(c) \/ ResetDone(c) \/ Answer(c)
BY KindFacts
   DEF Continue, ResetsOne, ResetPresets, ResetLampGroups, ResetSceneElements,
       ResetScenes, ResetMasterScenes, ResetTransitionEffects, ResetPulseEffects

-----------------------------------------------------------------------------
(* The type invariant.                                                     *)

LEMMA StoredFacts ==
  \A b : /\ StoredScene(b).elements = b.elements
         /\ StoredScene(b).scene = b.scene
         /\ StoredScene(b).raced \in BOOLEAN
         /\ StoredScene(b).raced <=>
              ~(Derivable(b.elements) /\ b.scene = CreateSceneOf(b.elements))
<1>1. \A b : /\ StoredScene(b).elements = b.elements
             /\ StoredScene(b).scene = b.scene
  BY Zenon DEF StoredScene
<1>2. \A b : StoredScene(b).raced \in BOOLEAN
  BY Zenon DEF StoredScene
<1>3. \A b : StoredScene(b).raced <=>
               ~(Derivable(b.elements) /\ b.scene = CreateSceneOf(b.elements))
  BY Zenon DEF StoredScene
<1> QED
  BY <1>1, <1>2, <1>3

LEMMA InitType == Init => TypeInv
<1> SUFFICES ASSUME Init
             PROVE  TypeInv
  OBVIOUS
<1> USE KindFacts, StoredAssumption
<1>1. DOMAIN objects = Kind /\ \A k \in Kind : DOMAIN objects[k] \subseteq Ids[k]
  BY DEF Init
<1>2. Existing \subseteq AllIds /\ AllIds \cap Named \subseteq given
      /\ Existing \subseteq given /\ given \subseteq AllIds
  BY <1>1 DEF Init, Existing, AllIds
<1>3. \A k \in Kind : \A id \in DOMAIN objects[k] :
        Names(k, objects[k][id]) \subseteq Named
  BY DEF Named
<1>4. \A e \in DOMAIN objects["sceneElement"] :
        /\ objects["sceneElement"][e] \in ElementForm
        /\ objects["sceneElement"][e].effect \in given
  <2> TAKE e \in DOMAIN objects["sceneElement"]
  <2>1. objects["sceneElement"][e] \in ElementForm
    BY DEF Init
  <2>2. objects["sceneElement"][e].effect \in AllIds
    BY <2>1, IdsApart, IdFacts DEF ElementForm, Effects
  <2>3. objects["sceneElement"][e].effect
          \in Names("sceneElement", objects["sceneElement"][e])
    BY DEF Names
  <2> QED
    BY <1>2, <1>3, <2>1, <2>2, <2>3
<1>5. \A s \in DOMAIN objects["scene"] :
        /\ objects["scene"][s].elements \subseteq Element \cap given
        /\ objects["scene"][s].raced \in BOOLEAN
  <2> TAKE s \in DOMAIN objects["scene"]
  <2>1. objects["scene"][s].elements \subseteq Element
    BY DEF Init
  <2>2. Element \subseteq AllIds
    BY IdsApart, IdFacts
  <2>3. objects["scene"][s].elements = Names("scene", objects["scene"][s])
    BY DEF Names
  <2>4. objects["scene"][s] = StoredScene(objects["scene"][s])
    BY DEF Init
  <2>5. objects["scene"][s].raced \in BOOLEAN
    BY <2>4, StoredFacts
  <2> QED
    BY <1>2, <1>3, <2>1, <2>2, <2>3, <2>5
<1>6. ObjectsInv
  BY <1>1, <1>2, <1>4, <1>5 DEF Init, ObjectsInv
<1>7. CallsInv
  BY BlankOK DEF Init, CallsInv
<1> QED
  BY <1>2, <1>6, <1>7, LightingObjectsAssumption DEF Init, TypeInv

LEMMA CountStep ==
  ASSUME NEW c, NEW r, BeginChange(c, r), calls \in 0..MaxCalls,
         serial \in BOOLEAN
  PROVE  calls' \in 0..MaxCalls /\ serial' \in BOOLEAN
<1>1. calls' \in 0..MaxCalls
  BY LightingObjectsAssumption DEF BeginChange
<1>2. serial' \in BOOLEAN
  BY DEF BeginChange, Begin, Rest
<1> QED
  BY <1>1, <1>2

\* A call that begins with r and leaves the objects as they are.
LEMMA TypeBegin ==
  ASSUME TypeInv, NEW c \in Call, NEW r, BeginChange(c, r), CallOK(r, given),
         UNCHANGED <<objects, given, known>>
  PROVE  TypeInv'
<1>1. CallsInv'
  BY CallsStep DEF TypeInv, BeginChange, Begin
<1>2. ObjectsInv'
  BY ObjectsSame DEF TypeInv
<1> QED
  BY <1>1, <1>2, CountStep DEF TypeInv

LEMMA TypeReads ==
  ASSUME TypeInv, NEW c \in Call, Reads(c)
  PROVE  TypeInv'
<1> PICK op \in ReadOps : \E kind, id, fields :
           /\ BeginRead(c, op, kind, id, fields)
           /\ DOMAIN fields \subseteq {"code", "body", "lamps"}
  BY DEF Reads
<1> PICK kind, id, fields :
           /\ BeginRead(c, op, kind, id, fields)
           /\ DOMAIN fields \subseteq {"code", "body", "lamps"}
  OBVIOUS
<1> DEFINE r == Over(fields, Called("answer", op, kind, id))
<1>1. /\ DOMAIN r = DOMAIN Blank
      /\ r.pc = "answer" /\ r.op = op
  BY CalledFacts, OverFacts, BlankFacts
<1>2. call' = [call EXCEPT ![c] = r]
      /\ UNCHANGED <<objects, given, known, calls>>
      /\ serial' = (serial /\ Rest)
  BY DEF BeginRead, Begin
<1> HIDE DEF r
<1>3. CallOK(r, given')
  BY <1>1 DEF CallOK, PCs, Makes, Undoes, ReadOps
<1>4. CallsInv'
  BY <1>2, <1>3, CallsStep DEF TypeInv
<1>5. ObjectsInv'
  BY <1>2, ObjectsSame DEF TypeInv
<1>6. serial' \in BOOLEAN
  BY <1>2 DEF Rest
<1> QED
  BY <1>2, <1>4, <1>5, <1>6 DEF TypeInv

LEMMA TypeCreates ==
  ASSUME TypeInv, NEW c \in Call, CreatesOne(c)
  PROVE  TypeInv'
<1> PICK k \in Kind \ {"scene"} : \E b : Create(c, k, b) /\ BodyOK(k, b)
  BY DEF CreatesOne
<1> PICK b : Create(c, k, b) /\ BodyOK(k, b)
  OBVIOUS
<1> DEFINE id == GenerateUniqueID(k)
<1>1. CASE Full(k)
  <2> DEFINE r == Over([code |-> "NO_SLOT"], Called("answer", "create", k, None))
  <2>1. /\ DOMAIN r = DOMAIN Blank
        /\ r.pc = "answer" /\ r.op = "create" /\ r.code = "NO_SLOT"
    BY CalledFacts, OverFacts, BlankFacts
  <2>2. BeginChange(c, r) /\ UNCHANGED <<objects, given, known>>
    BY <1>1 DEF Create
  <2> HIDE DEF r
  <2>3. CallOK(r, given)
    BY <2>1 DEF CallOK, PCs, Makes, Undoes
  <2> QED
    BY <2>2, <2>3, TypeBegin
<1>2. CASE ~Full(k)
  <2>1. id \in Ids[k] /\ id \notin given \cup {DefaultState}
    BY NewId DEF Create
  <2> DEFINE r == Called("answer", "create", k, id)
  <2>2. /\ BeginChange(c, r) /\ Put(k, id, b)
        /\ given' = given \cup {id} /\ known' = known
        /\ Names(k, b) \subseteq given
    BY <1>2 DEF Create
  <2>3. /\ DOMAIN r = DOMAIN Blank /\ r.pc = "answer" /\ r.op = "create"
        /\ r.kind = k /\ r.id = id
    BY CalledFacts
  <2> HIDE DEF r, id
  <2>4. CallOK(r, given')
    BY <2>1, <2>2, <2>3 DEF CallOK, PCs, Makes, Undoes
  <2>5. CallsInv'
    BY <2>2, <2>4, CallsStep DEF TypeInv, BeginChange, Begin
  <2>6. given' \subseteq AllIds
    BY <2>1, <2>2, IdsApart DEF TypeInv, ObjectsInv
  <2>7. FormOK(k, b, given')
    BY <2>2 DEF FormOK, BodyOK, Names
  <2>8. ObjectsInv'
    BY <2>1, <2>2, <2>6, <2>7, ObjectsPut DEF TypeInv
  <2> QED
    BY <2>2, <2>5, <2>8, CountStep DEF TypeInv
<1> QED
  BY <1>1, <1>2

LEMMA TypeUpdates ==
  ASSUME TypeInv, NEW c \in Call, UpdatesOne(c)
  PROVE  TypeInv'
<1> PICK k \in Kind \ {"scene"} :
           \E id \in Ids[k] : \E b : Update(c, k, id, b) /\ BodyOK(k, b)
  BY DEF UpdatesOne
<1> PICK id \in Ids[k] : \E b : Update(c, k, id, b) /\ BodyOK(k, b)
  OBVIOUS
<1> PICK b : Update(c, k, id, b) /\ BodyOK(k, b)
  OBVIOUS
<1>1. CASE ~Has(k, id)
  <2> DEFINE r == Over([code |-> "NOT_FOUND"], Called("answer", "update", k, id))
  <2>1. /\ DOMAIN r = DOMAIN Blank /\ r.pc = "answer" /\ r.op = "update"
        /\ r.kind = k /\ r.id = id
    BY CalledFacts, OverFacts, BlankFacts
  <2>2. BeginChange(c, r) /\ UNCHANGED <<objects, given, known>>
    BY <1>1 DEF Update
  <2> HIDE DEF r
  <2>3. CallOK(r, given)
    BY <2>1 DEF CallOK, PCs, Makes, Undoes
  <2> QED
    BY <2>2, <2>3, TypeBegin
<1>2. CASE Has(k, id)
  <2> DEFINE r == Called("answer", "update", k, id)
  <2>1. /\ BeginChange(c, r) /\ Put(k, id, b)
        /\ given' = given /\ known' = known
        /\ {id} \cup Names(k, b) \subseteq given \cup {DefaultState}
    BY <1>2 DEF Update
  <2>2. /\ DOMAIN r = DOMAIN Blank /\ r.pc = "answer" /\ r.op = "update"
        /\ r.kind = k /\ r.id = id
    BY CalledFacts
  <2> HIDE DEF r
  <2>3. CallOK(r, given')
    BY <2>2 DEF CallOK, PCs, Makes, Undoes
  <2>4. CallsInv'
    BY <2>1, <2>3, CallsStep DEF TypeInv, BeginChange, Begin
  <2>5. FormOK(k, b, given')
    BY <2>1 DEF FormOK, BodyOK, Names
  <2>6. ObjectsInv'
    BY <2>1, <2>5, ObjectsPut DEF TypeInv, ObjectsInv
  <2> QED
    BY <2>1, <2>4, <2>6, CountStep DEF TypeInv
<1> QED
  BY <1>1, <1>2

LEMMA TypeDeletes ==
  ASSUME TypeInv, NEW c \in Call, DeletesOne(c)
  PROVE  TypeInv'
<1> PICK k \in Kind : Delete(c, k, FirstAsked(k))
  BY DEF DeletesOne
<1> PICK id \in Ids[k] :
           /\ BeginChange(c, Called(FirstAsked(k), "delete", k, id))
           /\ UNCHANGED <<objects, given, known>>
  BY DEF Delete
<1>1. FirstAsked(k) \in {"checkGroups", "check", "erase"}
  BY DEF FirstAsked
<1>2. CallOK(Called(FirstAsked(k), "delete", k, id), given)
  BY <1>1, CalledFacts DEF CallOK, PCs, Makes, Undoes
<1> QED
  BY <1>2, TypeBegin

LEMMA TypeSceneChange ==
  ASSUME TypeInv, NEW c \in Call, SceneChange(c)
  PROVE  TypeInv'
<1>1. ASSUME NEW b \in SceneBodies, NEW valid \in BOOLEAN,
             NEW op \in {"create", "update"}, NEW id,
             op = "update" => id \in Scene,
             SceneCall(c, "makeEffect", op, id,
               [todo |-> b, body |-> [elements |-> {}, scene |-> SeqSet(b),
                                      valid |-> valid]])
      PROVE  TypeInv'
  <2> DEFINE body == [elements |-> {}, scene |-> SeqSet(b), valid |-> valid]
             r == Over([todo |-> b, body |-> body],
                       Called("makeEffect", op, "scene", id))
  <2>0. BeginChange(c, r) /\ UNCHANGED <<objects, given, known>>
    BY <1>1 DEF SceneCall
  <2>3. DOMAIN body = {"elements", "scene", "valid"} /\ body.elements = {}
        /\ body.valid = valid
    OBVIOUS
  <2> HIDE DEF body
  <2>1. /\ DOMAIN r = DOMAIN Blank /\ r.pc = "makeEffect" /\ r.op = op
        /\ r.kind = "scene" /\ r.id = id /\ r.todo = b /\ r.body = body
        /\ r.made = <<>>
    BY CalledFacts, OverFacts, BlankFacts
  <2>4. b \in Seq(ComponentForm)
    BY BodiesAssumption
  <2> HIDE DEF r
  <2>5. CallOK(r, given)
    BY <1>1, <2>1, <2>3, <2>4, KindFacts, IdFacts DEF CallOK, PCs, Makes, Undoes
  <2> QED
    BY <2>0, <2>5, TypeBegin
<1>2. ASSUME NEW es \in ElementLists \cap SUBSET given, NEW valid \in BOOLEAN,
             NEW op \in {"create", "update"}, NEW id,
             op = "update" => id \in Scene,
             SceneCall(c, "derive", op, id,
               [body |-> [elements |-> es, scene |-> {}, valid |-> valid]])
      PROVE  TypeInv'
  <2> DEFINE body == [elements |-> es, scene |-> {}, valid |-> valid]
             r == Over([body |-> body], Called("derive", op, "scene", id))
  <2>0. BeginChange(c, r) /\ UNCHANGED <<objects, given, known>>
    BY <1>2 DEF SceneCall
  <2>3. DOMAIN body = {"elements", "scene", "valid"} /\ body.elements = es
        /\ body.valid = valid
    OBVIOUS
  <2> HIDE DEF body
  <2>1. /\ DOMAIN r = DOMAIN Blank /\ r.pc = "derive" /\ r.op = op
        /\ r.kind = "scene" /\ r.id = id /\ r.body = body
    BY CalledFacts, OverFacts, BlankFacts
  <2>4. es \subseteq Element \cap given
    BY BodiesAssumption
  <2> HIDE DEF r
  <2>5. CallOK(r, given)
    BY <1>2, <2>1, <2>3, <2>4, KindFacts, IdFacts DEF CallOK, PCs, Makes, Undoes
  <2> QED
    BY <2>0, <2>5, TypeBegin
<1>3. CASE CreateScene(c)
  BY <1>1, <1>3 DEF CreateScene
<1>4. CASE UpdateScene(c)
  BY <1>1, <1>4 DEF UpdateScene
<1>5. CASE CreateSceneWithSceneElements(c)
  BY <1>2, <1>5 DEF CreateSceneWithSceneElements
<1>6. CASE UpdateSceneWithSceneElements(c)
  BY <1>2, <1>6 DEF UpdateSceneWithSceneElements
<1> QED
  BY <1>3, <1>4, <1>5, <1>6 DEF SceneChange

LEMMA TypeSetDefault ==
  ASSUME TypeInv, NEW c \in Call, SetDefaultLampState(c)
  PROVE  TypeInv'
<1> DEFINE r == Called("answer", "set", "preset", DefaultState)
<1> PICK v \in State : BeginChange(c, r) /\ Put("preset", DefaultState, v)
                       /\ UNCHANGED <<given, known>>
  BY DEF SetDefaultLampState
<1>1. CallOK(r, given)
  BY CalledFacts DEF CallOK, PCs, Makes, Undoes
<1> HIDE DEF r
<1>2. CallsInv'
  BY <1>1, CallsStep DEF TypeInv, BeginChange, Begin
<1>3. FormOK("preset", v, given')
  BY DEF FormOK
<1>4. ObjectsInv'
  BY <1>3, ObjectsPut, KindFacts, IdFacts DEF TypeInv, ObjectsInv
<1> QED
  BY <1>2, <1>4, CountStep DEF TypeInv

LEMMA TypeReset ==
  ASSUME TypeInv, NEW c \in Call, LightingResetControllerService(c)
  PROVE  TypeInv'
<1> DEFINE t == <<"preset", DefaultState, "lampGroup", "sceneElement", "scene",
                  "masterScene", "transitionEffect", "pulseEffect">>
           r == Over([todo |-> t], Called("reset", "reset", "none", None))
<1>1. BeginChange(c, r) /\ UNCHANGED <<objects, given, known>>
  BY DEF LightingResetControllerService
<1> HIDE DEF t
<1>2. DOMAIN r = DOMAIN Blank /\ r.pc = "reset" /\ r.op = "reset"
  BY CalledFacts, OverFacts, BlankFacts
<1> HIDE DEF r
<1>3. CallOK(r, given)
  BY <1>2 DEF CallOK, PCs, Makes, Undoes
<1> QED
  BY <1>1, <1>3, TypeBegin

-----------------------------------------------------------------------------
(* The steps of a call in progress.                                        *)

LEMMA CallHere ==
  ASSUME TypeInv, NEW c \in Call
  PROVE  CallOK(call[c], given) /\ DOMAIN call[c] = DOMAIN Blank
BY DEF TypeInv, CallsInv, CallOK

\* What is being taken back.
LEMMA UndoHere ==
  ASSUME TypeInv, NEW c \in Call, call[c].pc = "undoErase"
  PROVE  LET x == Head(call[c].made)
         IN /\ x \in (Effects \cup Element) \cap given
            /\ KindOf(x) \in {"transitionEffect", "pulseEffect", "sceneElement"}
            /\ x \in Ids[KindOf(x)] /\ x = call[c].made[1]
<1> DEFINE m == call[c].made
           S == (Effects \cup Element) \cap given
<1>1. m \in Seq(S) /\ m # <<>>
  BY CallHere DEF CallOK, Undoes
<1>2. Head(m) \in S /\ Head(m) = m[1]
  <2> HIDE DEF S, m
  <2> QED
    BY <1>1
<1> DEFINE x == Head(m)
<1> HIDE DEF x
<1>3. x \in S
  BY <1>2 DEF x
<1>4. /\ KindOf(x) \in {"transitionEffect", "pulseEffect", "sceneElement"}
      /\ x \in Ids[KindOf(x)]
  BY <1>3, KindOfId, KindFacts, IdFacts DEF Effects
<1> QED
  BY <1>2, <1>3, <1>4 DEF x

\* The effect of a component of a scene of the older interface.
LEMMA ComponentHere ==
  ASSUME TypeInv, NEW c \in Call, MakeEffect(c)
  PROVE  Head(call[c].todo).what[1] \in {"transitionEffect", "pulseEffect"}
<1> DEFINE t == call[c].todo
<1>1. t # <<>> /\ t \in Seq(ComponentForm)
  BY CallHere DEF MakeEffect, CallOK, Makes
<1> HIDE DEF t
<1>2. Head(t) \in ComponentForm
  BY <1>1
<1> QED
  BY <1>2 DEF t, ComponentForm

\* A call that goes on, while the objects stay.
LEMMA TypeGoesOn ==
  ASSUME TypeInv, NEW c \in Call, NEW r, call' = [call EXCEPT ![c] = r],
         CallOK(r, given), UNCHANGED <<objects, given, calls, serial>>,
         known' \subseteq given \ {DefaultState}
  PROVE  TypeInv'
<1>1. CallsInv'
  BY CallsStep DEF TypeInv
<1>2. ObjectsInv'
  BY ObjectsSame DEF TypeInv
<1> QED
  BY <1>1, <1>2 DEF TypeInv

LEMMA TypeChecks ==
  ASSUME TypeInv, NEW c \in Call,
         CheckGroups(c) \/ CheckDependents(c) \/ Depends(c)
  PROVE  TypeInv'
<1> USE CallHere
<1>1. CASE CheckGroups(c)
  <2> DEFINE s == IF GroupsUse(call[c].id)
                  THEN [pc |-> "answer", code |-> "DEPENDENCY"]
                  ELSE [pc |-> "check"]
             r == Over(s, call[c])
  <2>1. /\ r.op = "delete" /\ r.pc \in {"answer", "check"}
        /\ r.kind = call[c].kind /\ r.id = call[c].id
        /\ DOMAIN r = DOMAIN Blank
    <3>1. call[c].op = "delete"
      BY <1>1 DEF CheckGroups, CallOK
    <3>2. r = Over([pc |-> "answer", code |-> "DEPENDENCY"], call[c])
          \/ r = Over([pc |-> "check"], call[c])
      OBVIOUS
    <3> HIDE DEF s, r
    <3> QED
      BY <3>1, <3>2, SetPc, SetPcCode
  <2>2. call' = [call EXCEPT ![c] = r]
    BY <1>1 DEF CheckGroups, Set
  <2> HIDE DEF s, r
  <2>3. CallOK(r, given)
    BY <1>1, <2>1 DEF CheckGroups, CallOK, PCs, Makes, Undoes
  <2> QED
    BY <1>1, <2>2, <2>3, TypeGoesOn DEF CheckGroups, TypeInv
<1>2. CASE CheckDependents(c)
  <2> DEFINE s == IF Dependents(call[c].id)
                  THEN [pc |-> "answer", code |-> "DEPENDENCY"]
                  ELSE [pc |-> "erase"]
             r == Over(s, call[c])
  <2>1. /\ r.op = "delete" /\ r.pc \in {"answer", "erase"}
        /\ r.kind = call[c].kind /\ r.id = call[c].id
        /\ DOMAIN r = DOMAIN Blank
    <3>1. call[c].op = "delete"
      BY <1>2 DEF CheckDependents, CallOK
    <3>2. r = Over([pc |-> "answer", code |-> "DEPENDENCY"], call[c])
          \/ r = Over([pc |-> "erase"], call[c])
      OBVIOUS
    <3> HIDE DEF s, r
    <3> QED
      BY <3>1, <3>2, SetPc, SetPcCode
  <2>2. call' = [call EXCEPT ![c] = r]
    BY <1>2 DEF CheckDependents, Set
  <2> HIDE DEF s, r
  <2>3. CallOK(r, given)
    BY <1>2, <2>1 DEF CheckDependents, CallOK, PCs, Makes, Undoes
  <2> QED
    BY <1>2, <2>2, <2>3, TypeGoesOn DEF CheckDependents, TypeInv
<1>3. CASE Depends(c)
  <2> DEFINE s == [pc |-> "refresh"]
             r == Over(s, call[c])
  <2>1. /\ r.op = call[c].op /\ r.pc = "refresh"
        /\ r.kind = call[c].kind /\ r.id = call[c].id
        /\ DOMAIN r = DOMAIN Blank
    BY SetPc
  <2>2. call' = [call EXCEPT ![c] = IF Dependents(call[c].id) THEN r ELSE Blank]
    BY <1>3 DEF Depends
  <2> HIDE DEF s, r
  <2>3. CallOK(r, given)
    BY <1>3, <2>1 DEF Depends, CallOK, PCs, Makes, Undoes
  <2>4. CallOK(IF Dependents(call[c].id) THEN r ELSE Blank, given)
    BY <2>3, BlankOK
  <2> QED
    BY <1>3, <2>2, <2>4, TypeGoesOn DEF Depends, TypeInv
<1> QED
  BY <1>1, <1>2, <1>3

\* Erasing, and what a reset erases.
LEMMA TypeDrops ==
  ASSUME TypeInv, NEW c \in Call, NEW k \in Kind, NEW ids, NEW r,
         Drop(k, ids), call' = [call EXCEPT ![c] = r], CallOK(r, given),
         UNCHANGED <<given, calls, serial>>, known' \subseteq known
  PROVE  TypeInv'
<1>1. CallsInv'
  BY CallsStep DEF TypeInv
<1>2. ObjectsInv'
  BY ObjectsDrop DEF TypeInv
<1> QED
  BY <1>1, <1>2 DEF TypeInv

LEMMA TypeErase ==
  ASSUME TypeInv, NEW c \in Call, Erase(c)
  PROVE  TypeInv'
<1> DEFINE r == Over([pc |-> "answer",
                      code |-> IF Has(call[c].kind, call[c].id) THEN "OK"
                               ELSE "NOT_FOUND"], call[c])
<1>1. /\ DOMAIN r = DOMAIN Blank /\ r.pc = "answer" /\ r.op = "delete"
      /\ r.kind = call[c].kind /\ r.id = call[c].id
  BY CallHere, SetPcCode DEF Erase, CallOK
<1>2. call' = [call EXCEPT ![c] = r] /\ Drop(call[c].kind, {call[c].id})
      /\ UNCHANGED <<given, known, calls, serial>>
  BY DEF Erase, Set
<1> HIDE DEF r
<1>3. call[c].kind \in Kind /\ call[c].id \in Ids[call[c].kind]
  BY CallHere DEF Erase, CallOK
<1>4. CallOK(r, given)
  BY <1>1, <1>3 DEF CallOK, PCs, Makes, Undoes
<1> QED
  BY <1>2, <1>3, <1>4, TypeDrops

LEMMA TypeUndoErase ==
  ASSUME TypeInv, NEW c \in Call, UndoErase(c)
  PROVE  TypeInv'
<1> DEFINE m == call[c].made
           t == Tail(m)
           r == Over([pc |-> "undo", made |-> t], call[c])
           S == (Effects \cup Element) \cap given
<1>1. call' = [call EXCEPT ![c] = r] /\ Drop(KindOf(Head(m)), {Head(m)})
      /\ UNCHANGED <<given, known, calls, serial>> /\ call[c].pc = "undoErase"
  BY DEF UndoErase, Set
<1> HIDE DEF t
<1>2. /\ DOMAIN r = DOMAIN Blank /\ r.pc = "undo" /\ r.op = call[c].op
      /\ r.kind = call[c].kind /\ r.id = call[c].id /\ r.made = t
      /\ r.code = call[c].code
  BY CallHere, SetPcMade
<1>3. m \in Seq(S) /\ m # <<>>
  BY <1>1, CallHere DEF CallOK, Undoes
<1> HIDE DEF r, m
<1>4. t \in Seq(S)
  <2> HIDE DEF S
  <2> QED
    BY <1>3 DEF t
<1>5. KindOf(Head(m)) \in Kind
  BY <1>1, UndoHere, KindFacts DEF m
<1>6. CallOK(r, given)
  BY <1>2, <1>1, <1>4, CallHere DEF CallOK, PCs, Makes, Undoes
<1> QED
  BY <1>1, <1>5, <1>6, TypeDrops

LEMMA TypeResets ==
  ASSUME TypeInv, NEW c \in Call,
         ResetsOne(c) \/ ResetDefaultState(c) \/ ResetDone(c)
  PROVE  TypeInv'
<1>1. DOMAIN call[c] = DOMAIN Blank /\ call[c].pc = "reset" /\ call[c].op = "reset"
  BY CallHere DEF ResetsOne, ResetManager, ResetDefaultState, ResetDone, CallOK
<1>2. \A r : /\ DOMAIN r = DOMAIN Blank /\ r.pc \in {"reset", "answer"}
             /\ r.op = "reset"
             => CallOK(r, given)
  BY DEF CallOK, PCs, Makes, Undoes
<1> DEFINE t == Tail(call[c].todo)
<1>3. ASSUME ResetsOne(c)
      PROVE  TypeInv'
  <2> PICK k \in Kind : ResetManager(c, k)
    BY <1>3 DEF ResetsOne
  <2>1. CASE Drop(k, Ids[k]) /\ known' = known \ Ids[k] /\ Set(c, [todo |-> t])
    <3> DEFINE r == Over([todo |-> t], call[c])
    <3>1. call' = [call EXCEPT ![c] = r]
      BY <2>1 DEF Set
    <3> HIDE DEF t
    <3>2. CallOK(r, given)
      BY <1>1, <1>2, SetTodo
    <3> HIDE DEF r
    <3> QED
      BY <2>1, <3>1, <3>2, TypeDrops DEF ResetManager
  <2>2. CASE /\ UNCHANGED <<objects, known>>
             /\ Set(c, [todo |-> t, code |-> "PARTIAL"])
    <3> DEFINE r == Over([todo |-> t, code |-> "PARTIAL"], call[c])
    <3>1. call' = [call EXCEPT ![c] = r]
      BY <2>2 DEF Set
    <3> HIDE DEF t
    <3>2. CallOK(r, given)
      BY <1>1, <1>2, SetTodoCode
    <3> HIDE DEF r
    <3> QED
      BY <2>2, <3>1, <3>2, TypeGoesOn DEF ResetManager, TypeInv
  <2> QED
    BY <2>1, <2>2 DEF ResetManager
<1>4. ASSUME ResetDefaultState(c)
      PROVE  TypeInv'
  <2> DEFINE r == Over([todo |-> t], call[c])
  <2>1. call' = [call EXCEPT ![c] = r] /\ Drop("preset", {DefaultState})
        /\ UNCHANGED <<given, known, calls, serial>>
    BY <1>4 DEF ResetDefaultState, Set
  <2> HIDE DEF t
  <2>2. CallOK(r, given)
    BY <1>1, <1>2, SetTodo
  <2> HIDE DEF r
  <2> QED
    BY <2>1, <2>2, TypeDrops, KindFacts
<1>5. ASSUME ResetDone(c)
      PROVE  TypeInv'
  <2> DEFINE r == Over([pc |-> "answer"], call[c])
  <2>1. call' = [call EXCEPT ![c] = r]
        /\ UNCHANGED <<objects, given, known, calls, serial>>
    BY <1>5 DEF ResetDone, Set
  <2>2. CallOK(r, given)
    BY <1>1, <1>2, SetPc
  <2> HIDE DEF r
  <2> QED
    BY <2>1, <2>2, TypeGoesOn DEF TypeInv
<1> QED
  BY <1>3, <1>4, <1>5

LEMMA TypeRefresh ==
  ASSUME TypeInv, NEW c \in Call, RefreshSceneData(c)
  PROVE  TypeInv'
<1>1. Refreshing /\ call' = [call EXCEPT ![c] = Blank]
      /\ UNCHANGED <<given, known, calls, serial>>
  BY DEF RefreshSceneData, Refreshing
<1>2. CallsInv'
  BY <1>1, BlankOK, CallsStep DEF TypeInv
<1>3. ObjectsInv'
  BY <1>1, ObjectsRefresh DEF TypeInv
<1> QED
  BY <1>1, <1>2, <1>3 DEF TypeInv

\* A new object b of kind k, made by a call in progress.
Makes_(k, b) ==
  /\ Fresh(k) # {} /\ Put(k, GenerateUniqueID(k), b)
  /\ given' = given \cup {GenerateUniqueID(k)}

LEMMA TypeMakes ==
  ASSUME TypeInv, NEW c \in Call, NEW k \in Kind, NEW b, NEW r,
         Makes_(k, b), FormOK(k, b, given), call' = [call EXCEPT ![c] = r],
         CallOK(r, given'), UNCHANGED <<known, calls, serial>>
  PROVE  TypeInv'
<1> DEFINE id == GenerateUniqueID(k)
<1>1. id \in Ids[k] /\ id \notin given \cup {DefaultState}
  BY NewId DEF Makes_
<1>2. Put(k, id, b) /\ given' = given \cup {id}
  BY DEF Makes_
<1> HIDE DEF id
<1>3. CallsInv'
  BY <1>2, CallsStep DEF TypeInv
<1>4. given' \subseteq AllIds
  BY <1>1, <1>2, IdsApart DEF TypeInv, ObjectsInv
<1>5. FormOK(k, b, given')
  BY <1>2 DEF FormOK
<1>6. ObjectsInv'
  BY <1>1, <1>2, <1>4, <1>5, ObjectsPut DEF TypeInv
<1> QED
  BY <1>2, <1>3, <1>6 DEF TypeInv

\* A component fails: what has been made is taken back.
LEMMA TypeFails ==
  ASSUME TypeInv, NEW c \in Call, call[c].pc \in Makes,
         Set(c, [pc |-> "undo", code |-> "NO_SLOT"]),
         UNCHANGED <<objects, given, known, calls, serial>>
  PROVE  TypeInv'
<1> DEFINE r == Over([pc |-> "undo", code |-> "NO_SLOT"], call[c])
<1>1. call' = [call EXCEPT ![c] = r]
  BY DEF Set
<1>2. /\ DOMAIN r = DOMAIN Blank /\ r.pc = "undo" /\ r.code = "NO_SLOT"
      /\ r.op = call[c].op /\ r.kind = call[c].kind /\ r.id = call[c].id
      /\ r.made = call[c].made
  BY CallHere, SetPcCode
<1> HIDE DEF r
<1>3. CallOK(r, given)
  BY <1>2, CallHere DEF CallOK, PCs, Makes, Undoes
<1> QED
  BY <1>1, <1>3, TypeGoesOn DEF TypeInv

LEMMA AppendStays ==
  \A S, T : S \subseteq T =>
    \A s \in Seq(S) : \A x \in T :
      /\ Append(s, x) \in Seq(T) /\ Append(s, x) # <<>>
      /\ Append(s, x)[Len(Append(s, x))] = x
OBVIOUS

LEMMA TypeMakeEffect ==
  ASSUME TypeInv, NEW c \in Call, MakeEffect(c)
  PROVE  TypeInv'
<1> DEFINE h == Head(call[c].todo)
           k == h.what[1]
           x == GenerateUniqueID(k)
<1>1. call[c].pc = "makeEffect" /\ call[c].todo # <<>>
      /\ call[c].todo \in Seq(ComponentForm)
  BY CallHere DEF MakeEffect, CallOK, Makes
<1>2. k \in {"transitionEffect", "pulseEffect"}
  BY ComponentHere
<1>3. CASE Full(k)
  BY <1>1, <1>3, TypeFails DEF MakeEffect, Makes
<1>4. CASE ~Full(k)
  <2> DEFINE m == Append(call[c].made, x)
             r == Over([pc |-> "makeElement", made |-> m], call[c])
             S == (Effects \cup Element) \cap given
             T == (Effects \cup Element) \cap given'
  <2>1. Makes_(k, h.what[2]) /\ call' = [call EXCEPT ![c] = r]
        /\ UNCHANGED <<known, calls, serial>>
    BY <1>4 DEF MakeEffect, Makes_, Set
  <2>2. x \in Effects /\ given' = given \cup {x}
    BY <1>2, <2>1, NewId, KindFacts, IdFacts DEF Makes_, Effects
  <2>3. m \in Seq(T) /\ m # <<>> /\ m[Len(m)] = x
    <3>1. call[c].made \in Seq(S) /\ S \subseteq T /\ x \in T
      BY <1>1, <2>2, CallHere DEF CallOK, Makes
    <3> HIDE DEF S, T, x
    <3> QED
      BY <3>1, AppendStays
  <2> HIDE DEF m
  <2>4. /\ DOMAIN r = DOMAIN Blank /\ r.pc = "makeElement" /\ r.made = m
        /\ r.op = call[c].op /\ r.kind = call[c].kind /\ r.id = call[c].id
        /\ r.todo = call[c].todo /\ r.body = call[c].body
    BY CallHere, SetPcMade
  <2> HIDE DEF r
  <2>5. CallOK(r, given')
    BY <1>1, <2>2, <2>3, <2>4, CallHere DEF CallOK, PCs, Makes, Undoes
  <2>6. FormOK(k, h.what[2], given)
    BY <1>2 DEF FormOK
  <2> QED
    BY <1>2, <2>1, <2>5, <2>6, TypeMakes, KindFacts
<1> QED
  BY <1>3, <1>4

LEMMA TypeMakeElement ==
  ASSUME TypeInv, NEW c \in Call, MakeElement(c)
  PROVE  TypeInv'
<1> DEFINE h == Head(call[c].todo)
           t == Tail(call[c].todo)
           n == Len(call[c].made)
           e == GenerateUniqueID("sceneElement")
           b == [lamps |-> h.lamps, groups |-> h.groups,
                 effect |-> call[c].made[n]]
           S == (Effects \cup Element) \cap given
<1>1. /\ call[c].pc = "makeElement" /\ call[c].todo # <<>>
      /\ call[c].todo \in Seq(ComponentForm)
      /\ call[c].made # <<>> /\ call[c].made \in Seq(S)
      /\ call[c].made[n] \in Effects
  BY CallHere DEF MakeElement, CallOK, Makes
<1>2. h \in ComponentForm /\ t \in Seq(ComponentForm)
  <2> DEFINE td == call[c].todo
  <2> HIDE DEF td
  <2>1. td # <<>> /\ td \in Seq(ComponentForm) =>
          Head(td) \in ComponentForm /\ Tail(td) \in Seq(ComponentForm)
    OBVIOUS
  <2> QED
    BY <1>1, <2>1 DEF td
<1>3. CASE Full("sceneElement")
  BY <1>1, <1>3, TypeFails DEF MakeElement, Makes
<1>4. CASE ~Full("sceneElement")
  <2> DEFINE m == Append(call[c].made, e)
             body == Over([elements |-> call[c].body.elements \cup {e}],
                          call[c].body)
             r == Over([pc |-> "makeEffect", todo |-> t, made |-> m,
                        body |-> body], call[c])
             T == (Effects \cup Element) \cap given'
  <2>1. Makes_("sceneElement", b) /\ call' = [call EXCEPT ![c] = r]
        /\ UNCHANGED <<known, calls, serial>>
    BY <1>4 DEF MakeElement, Makes_, Set
  <2>2. e \in Element /\ given' = given \cup {e}
    BY <2>1, NewId, KindFacts, IdFacts DEF Makes_
  <2>3. m \in Seq(T) /\ m # <<>>
    <3>1. call[c].made \in Seq(S) /\ S \subseteq T /\ e \in T
      BY <1>1, <2>2
    <3> DEFINE md == call[c].made
    <3> HIDE DEF S, T, e, md
    <3>2. md \in Seq(S) /\ S \subseteq T /\ e \in T
      BY <3>1 DEF md
    <3>3. Append(md, e) \in Seq(T) /\ Append(md, e) # <<>>
      BY <3>2, AppendStays
    <3> QED
      BY <3>3 DEF md
  <2>4. /\ DOMAIN body = {"elements", "scene", "valid"}
        /\ body.elements \subseteq Element \cap given'
        /\ body.valid \in BOOLEAN
    <3>1. /\ DOMAIN call[c].body = {"elements", "scene", "valid"}
          /\ call[c].body.elements \subseteq Element \cap given
          /\ call[c].body.valid \in BOOLEAN
      BY <1>1, CallHere DEF CallOK, Makes
    <3>2. /\ DOMAIN body = {"elements", "scene", "valid"}
          /\ body.elements = call[c].body.elements \cup {e}
          /\ body.valid = call[c].body.valid
      BY <3>1 DEF Over
    <3> QED
      BY <2>2, <3>1, <3>2
  <2>5. FormOK("sceneElement", b, given)
    <3>1. call[c].made[n] \in S
      <4> DEFINE md == call[c].made
      <4> HIDE DEF S, md
      <4>1. md # <<>> /\ md \in Seq(S) => md[Len(md)] \in S
        OBVIOUS
      <4> QED
        BY <1>1, <4>1 DEF md
    <3> DEFINE x == call[c].made[n]
    <3> HIDE DEF x
    <3>2. x \in Effects /\ x \in given
      BY <1>1, <3>1 DEF x
    <3> QED
      BY <1>2, <3>2 DEF FormOK, ElementForm, ComponentForm, x
  <2> HIDE DEF m, body, t
  <2>6. /\ DOMAIN r = DOMAIN Blank /\ r.pc = "makeEffect" /\ r.made = m
        /\ r.op = call[c].op /\ r.kind = call[c].kind /\ r.id = call[c].id
        /\ r.todo = t /\ r.body = body
    BY CallHere, SetElement
  <2> HIDE DEF r, b
  <2>7. CallOK(r, given')
    BY <1>1, <1>2, <2>2, <2>3, <2>4, <2>6, CallHere DEF CallOK, PCs, Makes, Undoes
  <2> QED
    BY <2>1, <2>5, <2>7, TypeMakes, KindFacts
<1> QED
  BY <1>3, <1>4


LEMMA TypeAllMade ==
  ASSUME TypeInv, NEW c \in Call, AllMade(c)
  PROVE  TypeInv'
<1> DEFINE m == call[c].made
           r == Over([pc |-> "store", made |-> <<>>], call[c])
<1>1. call[c].pc = "makeEffect" /\ call' = [call EXCEPT ![c] = r]
      /\ known' = known \cup SeqSet(m)
      /\ UNCHANGED <<objects, given, calls, serial>>
  BY DEF AllMade, Set
<1>2. m \in Seq((Effects \cup Element) \cap given)
  BY <1>1, CallHere DEF CallOK, Makes
<1>3. /\ DOMAIN r = DOMAIN Blank /\ r.pc = "store" /\ r.op = call[c].op
      /\ r.kind = call[c].kind /\ r.id = call[c].id /\ r.body = call[c].body
  BY CallHere, SetPcMade
<1> HIDE DEF r
<1>4. CallOK(r, given)
  BY <1>1, <1>3, CallHere DEF CallOK, PCs, Makes, Undoes
<1>5. SeqSet(m) \subseteq (Effects \cup Element) \cap given
  <2> HIDE DEF m
  <2> QED
    BY <1>2 DEF SeqSet
<1>6. DefaultState \notin Effects \cup Element
  BY IdsApart, IdFacts, KindFacts DEF Effects
<1>7. known' \subseteq given \ {DefaultState}
  BY <1>1, <1>5, <1>6 DEF TypeInv
<1> QED
  BY <1>1, <1>4, <1>7, TypeGoesOn

LEMMA AllButIn ==
  \A S : \A m \in Seq(S) : \A i \in DOMAIN m :
    /\ AllBut(m, i) \in Seq(S)
    /\ <<m[i]>> \o AllBut(m, i) \in Seq(S) /\ <<m[i]>> \o AllBut(m, i) # <<>>
    /\ (<<m[i]>> \o AllBut(m, i))[1] = m[i]
<1> TAKE S
<1> TAKE m \in Seq(S)
<1> TAKE i \in DOMAIN m
<1> DEFINE n == Len(m) - 1
           t == AllBut(m, i)
<1>1. Len(m) \in Nat /\ DOMAIN m = 1..Len(m) /\ \A j \in 1..Len(m) : m[j] \in S
  OBVIOUS
<1>2. n \in Nat
  BY <1>1
<1>3. \A j \in 1..n : (IF j < i THEN m[j] ELSE m[j + 1]) \in S
  BY <1>1
<1>4. t = [j \in 1..n |-> IF j < i THEN m[j] ELSE m[j + 1]]
  BY DEF AllBut
<1> HIDE DEF n, t
<1>5. t \in [1..n -> S]
  BY <1>3, <1>4
<1>6. t \in Seq(S)
  BY <1>2, <1>5
<1>7. m[i] \in S
  BY <1>1
<1> DEFINE x == m[i]
<1> HIDE DEF x
<1>8. <<x>> \o t \in Seq(S) /\ <<x>> \o t # <<>> /\ (<<x>> \o t)[1] = x
  BY <1>6, <1>7 DEF x
<1> QED
  BY <1>6, <1>8 DEF t, x

LEMMA TypeUndoCheck ==
  ASSUME TypeInv, NEW c \in Call, UndoCheck(c)
  PROVE  TypeInv'
<1> DEFINE m == call[c].made
           S == (Effects \cup Element) \cap given
<1>1. call[c].pc = "undo" /\ UNCHANGED <<objects, given, known, calls, serial>>
  BY DEF UndoCheck
<1>2. m \in Seq(S) /\ call[c].code = "NO_SLOT"
  BY <1>1, CallHere DEF CallOK, Undoes
<1>3. known' \subseteq given \ {DefaultState}
  BY <1>1 DEF TypeInv
<1>4. CASE Set(c, [pc |-> "answer"])
  <2> DEFINE r == Over([pc |-> "answer"], call[c])
  <2>1. call' = [call EXCEPT ![c] = r]
    BY <1>4 DEF Set
  <2>2. /\ DOMAIN r = DOMAIN Blank /\ r.pc = "answer" /\ r.code = "NO_SLOT"
        /\ r.op = call[c].op /\ r.kind = call[c].kind /\ r.id = call[c].id
    BY <1>2, CallHere, SetPc
  <2> HIDE DEF r
  <2>3. CallOK(r, given)
    BY <2>2, CallHere DEF CallOK, PCs, Makes, Undoes
  <2> QED
    BY <1>1, <1>3, <2>1, <2>3, TypeGoesOn
<1>5. ASSUME NEW i \in DOMAIN m,
             Set(c, IF Dependents(m[i]) THEN [made |-> AllBut(m, i)]
                    ELSE [pc |-> "undoErase",
                          made |-> <<m[i]>> \o AllBut(m, i)])
      PROVE  TypeInv'
  <2> DEFINE t == AllBut(m, i)
             u == <<m[i]>> \o AllBut(m, i)
  <2>1. t \in Seq(S) /\ u \in Seq(S) /\ u # <<>>
    <3> HIDE DEF S, m
    <3> QED
      BY <1>2, <1>5, AllButIn
  <2>2. CASE Dependents(m[i])
    <3> DEFINE r == Over([made |-> t], call[c])
    <3>1. call' = [call EXCEPT ![c] = r]
      BY <1>5, <2>2 DEF Set
    <3> HIDE DEF t
    <3>2. /\ DOMAIN r = DOMAIN Blank /\ r.pc = "undo" /\ r.code = "NO_SLOT"
          /\ r.op = call[c].op /\ r.kind = call[c].kind /\ r.id = call[c].id
          /\ r.made = t
      BY <1>1, <1>2, CallHere, SetMade
    <3> HIDE DEF r
    <3>3. CallOK(r, given)
      BY <1>1, <2>1, <3>2, CallHere DEF CallOK, PCs, Makes, Undoes
    <3> QED
      BY <1>1, <1>3, <3>1, <3>3, TypeGoesOn
  <2>3. CASE ~Dependents(m[i])
    <3> DEFINE r == Over([pc |-> "undoErase", made |-> u], call[c])
    <3>1. call' = [call EXCEPT ![c] = r]
      BY <1>5, <2>3 DEF Set
    <3> HIDE DEF u
    <3>2. /\ DOMAIN r = DOMAIN Blank /\ r.pc = "undoErase" /\ r.code = "NO_SLOT"
          /\ r.op = call[c].op /\ r.kind = call[c].kind /\ r.id = call[c].id
          /\ r.made = u
      BY <1>1, <1>2, CallHere, SetPcMade
    <3> HIDE DEF r
    <3>3. CallOK(r, given)
      BY <1>1, <2>1, <3>2, CallHere DEF CallOK, PCs, Makes, Undoes
    <3> QED
      BY <1>1, <1>3, <3>1, <3>3, TypeGoesOn
  <2> QED
    BY <2>2, <2>3
<1> QED
  BY <1>4, <1>5 DEF UndoCheck

LEMMA TypeDerive ==
  ASSUME TypeInv, NEW c \in Call, Derive(c)
  PROVE  TypeInv'
<1> DEFINE es == call[c].body.elements
           body == Over([scene |-> CreateSceneOf(es)], call[c].body)
<1>1. call[c].pc = "derive" /\ UNCHANGED <<objects, given, known, calls, serial>>
  BY DEF Derive
<1>2. known' \subseteq given \ {DefaultState}
  BY <1>1 DEF TypeInv
<1>3. CASE Derivable(es)
  <2> DEFINE r == Over([pc |-> "store", body |-> body], call[c])
  <2>1. call' = [call EXCEPT ![c] = r]
    BY <1>3 DEF Derive, Set
  <2>2. /\ DOMAIN body = {"elements", "scene", "valid"}
        /\ body.elements \subseteq Element \cap given
        /\ body.valid \in BOOLEAN
    <3>1. /\ DOMAIN call[c].body = {"elements", "scene", "valid"}
          /\ call[c].body.elements \subseteq Element \cap given
          /\ call[c].body.valid \in BOOLEAN
      BY <1>1, CallHere DEF CallOK
    <3>2. /\ DOMAIN body = {"elements", "scene", "valid"}
          /\ body.elements = call[c].body.elements
          /\ body.valid = call[c].body.valid
      BY <3>1 DEF Over
    <3> QED
      BY <3>1, <3>2
  <2> HIDE DEF body
  <2>3. /\ DOMAIN r = DOMAIN Blank /\ r.pc = "store" /\ r.op = call[c].op
        /\ r.kind = call[c].kind /\ r.id = call[c].id /\ r.body = body
    BY CallHere, SetPcBody
  <2> HIDE DEF r
  <2>4. CallOK(r, given)
    BY <1>1, <2>2, <2>3, CallHere DEF CallOK, PCs, Makes, Undoes
  <2> QED
    BY <1>1, <1>2, <2>1, <2>4, TypeGoesOn
<1>4. CASE ~Derivable(es)
  <2> DEFINE r == Over([pc |-> "answer", code |-> "NOT_FOUND"], call[c])
  <2>1. call' = [call EXCEPT ![c] = r]
    BY <1>4 DEF Derive, Set
  <2>2. /\ DOMAIN r = DOMAIN Blank /\ r.pc = "answer" /\ r.code = "NOT_FOUND"
        /\ r.op = call[c].op /\ r.kind = call[c].kind /\ r.id = call[c].id
    BY CallHere, SetPcCode
  <2> HIDE DEF r
  <2>3. CallOK(r, given)
    BY <2>2, CallHere DEF CallOK, PCs, Makes, Undoes
  <2> QED
    BY <1>1, <1>2, <2>1, <2>3, TypeGoesOn
<1> QED
  BY <1>3, <1>4

\* What a call has when a scene is to be stored.
LEMMA BodyHere ==
  ASSUME TypeInv, NEW c \in Call, call[c].pc = "store"
  PROVE  /\ FormOK("scene", StoredScene(call[c].body), given)
         /\ call[c].body.valid \in BOOLEAN
         /\ call[c].kind = "scene" /\ call[c].op \in {"create", "update"}
<1>1. /\ call[c].body.elements \subseteq Element \cap given
      /\ call[c].body.valid \in BOOLEAN /\ call[c].kind = "scene"
      /\ call[c].op \in {"create", "update"}
  BY CallHere DEF CallOK
<1>2. FormOK("scene", StoredScene(call[c].body), given)
  BY <1>1, StoredFacts DEF FormOK
<1> QED
  BY <1>1, <1>2

LEMMA TypeSceneCreated ==
  ASSUME TypeInv, NEW c \in Call, CreateSceneInternal(c)
  PROVE  TypeInv'
<1> DEFINE s == GenerateUniqueID("scene")
           b == StoredScene(call[c].body)
<1>1. call[c].pc = "store" /\ call[c].op = "create"
      /\ UNCHANGED <<known, calls, serial>>
  BY DEF CreateSceneInternal
<1>2. CASE call[c].body.valid /\ ~Full("scene")
  <2> DEFINE r == Over([pc |-> "answer", id |-> s, body |-> None], call[c])
  <2>1. Makes_("scene", b) /\ call' = [call EXCEPT ![c] = r]
    BY <1>2 DEF CreateSceneInternal, Makes_, Set
  <2>2. s \in Scene /\ s # DefaultState /\ given' = given \cup {s}
    BY <2>1, NewId, KindFacts, IdFacts DEF Makes_
  <2>3. FormOK("scene", b, given)
    BY <1>1, BodyHere
  <2> HIDE DEF s, b
  <2>4. /\ DOMAIN r = DOMAIN Blank /\ r.pc = "answer" /\ r.op = call[c].op
        /\ r.kind = call[c].kind /\ r.id = s
    BY CallHere, SetPcIdBody
  <2> HIDE DEF r
  <2>5. CallOK(r, given')
    BY <1>1, <2>2, <2>4, BodyHere, KindFacts, IdFacts
       DEF CallOK, PCs, Makes, Undoes
  <2> QED
    BY <1>1, <2>1, <2>3, <2>5, TypeMakes, KindFacts
<1>3. CASE ~(call[c].body.valid /\ ~Full("scene"))
  <2> DEFINE code == IF call[c].body.valid THEN "NO_SLOT" ELSE "INVALID_ARGS"
             r == Over([pc |-> "answer", body |-> None, code |-> code], call[c])
  <2>1. call' = [call EXCEPT ![c] = r] /\ UNCHANGED <<objects, given>>
    BY <1>3 DEF CreateSceneInternal, Set
  <2>2. code \in {"NO_SLOT", "INVALID_ARGS"}
    OBVIOUS
  <2> HIDE DEF code
  <2>3. /\ DOMAIN r = DOMAIN Blank /\ r.pc = "answer" /\ r.op = call[c].op
        /\ r.kind = call[c].kind /\ r.id = call[c].id /\ r.code = code
    BY CallHere, SetPcBodyCode
  <2> HIDE DEF r
  <2>4. CallOK(r, given)
    BY <1>1, <2>2, <2>3 DEF CallOK, PCs, Makes, Undoes
  <2> QED
    BY <1>1, <2>1, <2>4, TypeGoesOn DEF TypeInv
<1> QED
  BY <1>2, <1>3

LEMMA TypeSceneUpdated ==
  ASSUME TypeInv, NEW c \in Call, UpdateSceneInternal(c)
  PROVE  TypeInv'
<1> DEFINE b == StoredScene(call[c].body)
           s == call[c].id
           code == IF call[c].body.valid THEN "OK" ELSE "INVALID_ARGS"
           r == Over([pc |-> "answer", body |-> None, code |-> code], call[c])
<1>1. call[c].pc = "store" /\ call[c].op = "update"
      /\ UNCHANGED <<given, known, calls, serial>>
      /\ call' = [call EXCEPT ![c] = r]
  BY DEF UpdateSceneInternal, Set
<1> HIDE DEF code
<1>2. /\ DOMAIN r = DOMAIN Blank /\ r.pc = "answer" /\ r.op = call[c].op
      /\ r.kind = call[c].kind /\ r.id = s
  BY CallHere, SetPcBodyCode
<1> HIDE DEF r
<1>3. CallOK(r, given)
  BY <1>1, <1>2, CallHere DEF CallOK, PCs, Makes, Undoes
<1>4. s \in Ids["scene"]
  BY <1>1, BodyHere, CallHere DEF CallOK
<1>5. CASE UNCHANGED objects
  BY <1>1, <1>3, <1>5, TypeGoesOn DEF TypeInv
<1>6. CASE Put("scene", s, b) /\ Has("scene", s)
  <2>1. s \in given \cup {DefaultState}
    BY <1>4, <1>6, ExistingOfKind, KindFacts DEF TypeInv, ObjectsInv
  <2>2. ObjectsInv'
    BY <1>1, <1>4, <1>6, <2>1, BodyHere, ObjectsPut, KindFacts
       DEF TypeInv, ObjectsInv
  <2>3. CallsInv'
    BY <1>1, <1>3, CallsStep DEF TypeInv
  <2> QED
    BY <1>1, <2>2, <2>3 DEF TypeInv
<1> QED
  BY <1>5, <1>6 DEF UpdateSceneInternal

LEMMA TypeAnswer ==
  ASSUME TypeInv, NEW c \in Call, Answer(c)
  PROVE  TypeInv'
<1> DEFINE r == Over([pc |-> "depends"], call[c])
           go == call[c].op = "update" /\ call[c].code = "OK"
                 /\ call[c].kind \in Parts
<1>1. call[c].pc = "answer" /\ known' = Signalled(call[c])
      /\ UNCHANGED <<objects, given, calls, serial>>
      /\ call' = [call EXCEPT ![c] = IF go THEN r ELSE Blank]
  BY DEF Answer
<1>2. known' \subseteq given \ {DefaultState}
  BY <1>1, CallHere DEF TypeInv, Signalled, CallOK
<1>3. go => CallOK(r, given)
  <2>1. /\ DOMAIN r = DOMAIN Blank /\ r.pc = "depends" /\ r.op = call[c].op
        /\ r.kind = call[c].kind /\ r.id = call[c].id
    BY CallHere, SetPc
  <2> HIDE DEF r
  <2> QED
    BY <1>1, <2>1, CallHere DEF CallOK, PCs, Makes, Undoes
<1> HIDE DEF r
<1>4. CallOK(IF go THEN r ELSE Blank, given)
  BY <1>3, BlankOK
<1> HIDE DEF go
<1> QED
  BY <1>1, <1>2, <1>4, TypeGoesOn

LEMMA TypeContinue ==
  ASSUME TypeInv, NEW c \in Call, Continue(c)
  PROVE  TypeInv'
<1>1. ASSUME CheckGroups(c) \/ CheckDependents(c) \/ Depends(c)
      PROVE  TypeInv'
  BY <1>1, TypeChecks
<1>2. ASSUME ResetsOne(c) \/ ResetDefaultState(c) \/ ResetDone(c)
      PROVE  TypeInv'
  BY <1>2, TypeResets
<1> QED
  BY <1>1, <1>2, ContinueCases, TypeErase, TypeRefresh, TypeMakeEffect,
     TypeMakeElement, TypeAllMade, TypeUndoCheck, TypeUndoErase, TypeDerive,
     TypeSceneCreated, TypeSceneUpdated, TypeAnswer

LEMMA TypeStep == TypeInv /\ [Next]_vars => TypeInv'
<1> SUFFICES ASSUME TypeInv, [Next]_vars
             PROVE  TypeInv'
  OBVIOUS
<1>1. CASE UNCHANGED vars
  BY <1>1, ObjectsSame DEF vars, TypeInv, CallsInv
<1>2. ASSUME NEW c \in Call, Read(c) \/ Command(c)
      PROVE  TypeInv'
  BY <1>2, ReadReads, CommandReads, TypeReads
<1>3. ASSUME NEW c \in Call, Change(c)
      PROVE  TypeInv'
  BY <1>3, ChangeCases, TypeCreates, TypeUpdates, TypeDeletes, TypeSceneChange,
     TypeSetDefault, TypeReset
<1>4. ASSUME NEW c \in Call, Continue(c)
      PROVE  TypeInv'
  BY <1>4, TypeContinue
<1> QED
  BY <1>1, <1>2, <1>3, <1>4 DEF Next

LEMMA TypeAlways == Spec => []TypeInv
BY InitType, TypeStep, PTL DEF Spec

\* The type invariant holds, of any number of calls.
THEOREM TypeCorrect == Spec => []TypeOK
<1>1. TypeInv => TypeOK
  BY KindFacts DEF TypeInv, ObjectsInv, CallsInv, CallOK, TypeOK
<1> QED
  BY <1>1, TypeAlways, PTL

-----------------------------------------------------------------------------
(* How the objects change.                                                 *)

\* An object of kind k put where one is, or under a new ID; the default
\* state has an ID of its own.
PutsOne(k, id, b) ==
  Put(k, id, b) /\ (Has(k, id) \/ id = DefaultState \/ id \notin given)

Grows ==
  \/ UNCHANGED objects
  \/ \E k \in Kind : \E id \in Ids[k] : \E b : PutsOne(k, id, b)

Moves ==
  \/ Grows
  \/ \E k \in Kind : \E ids : Drop(k, ids)
  \/ Refreshing

LEMMA MakesGrow ==
  ASSUME NEW k \in Kind, NEW b, Makes_(k, b)
  PROVE  Grows
<1>1. PutsOne(k, GenerateUniqueID(k), b)
  BY NewId DEF Makes_, PutsOne
<1> QED
  BY <1>1, NewId DEF Makes_, Grows

LEMMA ChangeGrows ==
  ASSUME TypeInv, NEW c \in Call, Change(c)
  PROVE  Grows
<1>1. ASSUME CreatesOne(c)
      PROVE  Grows
  <2> PICK k \in Kind \ {"scene"} : \E b : Create(c, k, b) /\ BodyOK(k, b)
    BY <1>1 DEF CreatesOne
  <2> PICK b : Create(c, k, b)
    OBVIOUS
  <2>1. CASE Full(k)
    BY <2>1 DEF Create, Grows
  <2>2. CASE ~Full(k)
    BY <2>2, MakesGrow DEF Create, Makes_
  <2> QED
    BY <2>1, <2>2
<1>2. ASSUME UpdatesOne(c)
      PROVE  Grows
  <2> PICK k \in Kind \ {"scene"} :
             \E id \in Ids[k] : \E b : Update(c, k, id, b) /\ BodyOK(k, b)
    BY <1>2 DEF UpdatesOne
  <2> PICK id \in Ids[k] : \E b : Update(c, k, id, b)
    OBVIOUS
  <2> QED
    BY DEF Update, PutsOne, Grows
<1>3. ASSUME SetDefaultLampState(c)
      PROVE  Grows
  BY <1>3, KindFacts, IdFacts DEF SetDefaultLampState, PutsOne, Grows
<1>4. ASSUME DeletesOne(c)
      PROVE  Grows
  BY <1>4 DEF DeletesOne, Delete, Grows
<1>5. ASSUME SceneChange(c) \/ LightingResetControllerService(c)
      PROVE  Grows
  BY <1>5 DEF SceneChange, CreateScene, UpdateScene,
              CreateSceneWithSceneElements, UpdateSceneWithSceneElements,
              SceneCall, LightingResetControllerService, Grows
<1> QED
  BY <1>1, <1>2, <1>3, <1>4, <1>5, ChangeCases

\* No call takes anything away as it begins.
LEMMA ChangeKeeps ==
  ASSUME TypeInv, NEW c \in Call, Change(c)
  PROVE  Existing \subseteq Existing'
BY ChangeGrows, PutStep DEF Grows, PutsOne, TypeInv, Existing

LEMMA ContinueMoves ==
  ASSUME TypeInv, NEW c \in Call, Continue(c)
  PROVE  Moves
<1>1. ASSUME \/ CheckGroups(c) \/ CheckDependents(c) \/ Depends(c) \/ AllMade(c)
             \/ UndoCheck(c) \/ Derive(c) \/ ResetDone(c) \/ Answer(c)
      PROVE  Moves
  BY <1>1 DEF CheckGroups, CheckDependents, Depends, AllMade, UndoCheck,
              Derive, ResetDone, Answer, Grows, Moves
<1>2. ASSUME Erase(c)
      PROVE  Moves
  BY <1>2, CallHere DEF Erase, CallOK, Grows, Moves
<1>3. ASSUME RefreshSceneData(c)
      PROVE  Moves
  BY <1>3 DEF RefreshSceneData, Refreshing, Grows, Moves
<1>4. ASSUME UndoErase(c)
      PROVE  Moves
  BY <1>4, UndoHere, KindFacts DEF UndoErase, Grows, Moves
<1>5. ASSUME MakeEffect(c)
      PROVE  Moves
  BY <1>5, ComponentHere, MakesGrow, KindFacts DEF MakeEffect, Makes_, Grows, Moves
<1>6. ASSUME MakeElement(c)
      PROVE  Moves
  BY <1>6, MakesGrow, KindFacts DEF MakeElement, Makes_, Grows, Moves
<1>7. ASSUME CreateSceneInternal(c)
      PROVE  Moves
  BY <1>7, MakesGrow, KindFacts DEF CreateSceneInternal, Makes_, Grows, Moves
<1>8. ASSUME UpdateSceneInternal(c)
      PROVE  Moves
  BY <1>8, CallHere, BodyHere DEF UpdateSceneInternal, CallOK, PutsOne, Grows, Moves
<1>9. ASSUME ResetsOne(c)
      PROVE  Moves
  BY <1>9 DEF ResetsOne, ResetManager, Grows, Moves
<1>10. ASSUME ResetDefaultState(c)
       PROVE  Moves
  BY <1>10, KindFacts DEF ResetDefaultState, Grows, Moves
<1> QED
  BY <1>1, <1>2, <1>3, <1>4, <1>5, <1>6, <1>7, <1>8, <1>9, <1>10, ContinueCases

LEMMA StepMoves == TypeInv /\ [Next]_vars => Moves
<1> SUFFICES ASSUME TypeInv, [Next]_vars
             PROVE  Moves
  OBVIOUS
<1>1. CASE UNCHANGED vars
  BY <1>1 DEF vars, Grows, Moves
<1>2. ASSUME NEW c \in Call, Read(c) \/ Command(c)
      PROVE  Moves
  BY <1>2, ReadReads, CommandReads DEF Reads, BeginRead, Grows, Moves
<1> QED
  BY <1>1, <1>2, ChangeGrows, ContinueMoves DEF Next, Moves

\* What has gone never comes back: an ID is given once, an update and a
\* derived scene are stored only where the object is, all else only takes
\* away.  The default state alone may be deleted and set anew.
THEOREM NothingComesBack == Spec => NothingReturns
<1> DEFINE Gone == Existing' \cap given \subseteq Existing \cup {DefaultState}
<1>1. TypeInv /\ [Next]_vars => [Gone]_vars
  <2> SUFFICES ASSUME TypeInv, [Next]_vars
               PROVE  Gone
    OBVIOUS
  <2>1. CASE UNCHANGED objects
    BY <2>1 DEF Existing
  <2>2. ASSUME NEW k \in Kind, NEW id \in Ids[k], NEW b, PutsOne(k, id, b)
        PROVE  Gone
    <3>1. Existing' = Existing \cup {id}
      BY <2>2, PutStep DEF PutsOne, TypeInv
    <3>2. id \in Existing \/ id = DefaultState \/ id \notin given
      BY <2>2, ExistingOfKind DEF PutsOne, TypeInv
    <3> QED
      BY <3>1, <3>2
  <2>3. ASSUME NEW k \in Kind, NEW ids, Drop(k, ids)
        PROVE  Gone
    BY <2>3, DropStep DEF TypeInv
  <2>4. CASE Refreshing
    BY <2>4, RefreshStep DEF TypeInv
  <2> QED
    BY <2>1, <2>2, <2>3, <2>4, StepMoves DEF Grows, Moves
<1> QED
  BY <1>1, TypeAlways, PTL DEF Spec, NothingReturns

-----------------------------------------------------------------------------
(* The older form of the scenes.                                           *)

\* What scene elements es are made of has only gone, or stays as it was.
Frame(es) ==
  \A e \in es :
    e \in DOMAIN objects'["sceneElement"] =>
      /\ e \in DOMAIN objects["sceneElement"]
      /\ objects'["sceneElement"][e] = objects["sceneElement"][e]
      /\ LET x == objects["sceneElement"][e].effect
             k == KindOf(x)
         IN x \in Effects /\ x \in DOMAIN objects'[k] =>
              x \in DOMAIN objects[k] /\ objects'[k][x] = objects[k][x]

Framed ==
  \A s \in DOMAIN objects'["scene"] :
    Stale(objects["scene"][s])' =>
      /\ s \in DOMAIN objects["scene"]
      /\ objects'["scene"][s] = objects["scene"][s]
      /\ Frame(objects["scene"][s].elements)

LEMMA FrameDerives ==
  ASSUME NEW es, Frame(es), Derivable(es)'
  PROVE  /\ Derivable(es) /\ CreateSceneOf(es)' = CreateSceneOf(es)
         /\ \A e \in es : objects'["sceneElement"][e] = objects["sceneElement"][e]
<1>1. \A e \in es :
        /\ e \in DOMAIN objects'["sceneElement"]
        /\ LET x == objects'["sceneElement"][e].effect
           IN x \in Effects => x \in DOMAIN objects'[KindOf(x)]
  BY DEF Derivable, Has
<1>2. \A e \in es :
        /\ e \in DOMAIN objects["sceneElement"]
        /\ objects'["sceneElement"][e] = objects["sceneElement"][e]
        /\ LET x == objects["sceneElement"][e].effect
               k == KindOf(x)
           IN x \in Effects =>
                x \in DOMAIN objects[k] /\ objects'[k][x] = objects[k][x]
  BY <1>1 DEF Frame
<1>3. Derivable(es)
  BY <1>2 DEF Derivable, Has
<1>4. \A e \in es : Component(e)' = Component(e)
  BY <1>2 DEF Component
<1>5. CreateSceneOf(es)' = CreateSceneOf(es)
  BY <1>4 DEF CreateSceneOf
<1> QED
  BY <1>2, <1>3, <1>5

\* Call d loses nothing of what it goes on to do.
Keeps(d) ==
  /\ call[d].pc = "refresh" => call'[d].pc = "refresh"
  /\ Asks(call[d]) => Asks(call'[d]) /\ call'[d].id = call[d].id

LEMMA KeepsAll ==
  ASSUME DOMAIN call = Call, NEW c \in Call, NEW r,
         call' = [call EXCEPT ![c] = r],
         call[c].pc \notin {"answer", "depends", "refresh"}
  PROVE  \A d \in Call : Keeps(d)
<1>1. \A d \in Call \ {c} : call'[d] = call[d]
  OBVIOUS
<1> QED
  BY <1>1 DEF Keeps, Asks

\* A scene that is stale now was so before, and is derived again.
LEMMA StaleBefore ==
  ASSUME CacheInv, \A d \in Call : Keeps(d),
         NEW s \in DOMAIN objects["scene"],
         Stale(objects["scene"][s])', objects'["scene"][s] = objects["scene"][s],
         Frame(objects["scene"][s].elements)
  PROVE  \E d \in Call : Refreshes(call[d], objects["scene"][s].elements)'
<1> PICK x : x = objects["scene"][s]
  OBVIOUS
<1>1. s \in DOMAIN objects["scene"] /\ objects'["scene"][s] = x
      /\ Frame(x.elements)
  OBVIOUS
<1>2. Derivable(x.elements)' /\ ~x.raced /\ x.scene # CreateSceneOf(x.elements)'
  BY <1>1 DEF Stale
<1>3. /\ Derivable(x.elements) /\ CreateSceneOf(x.elements)' = CreateSceneOf(x.elements)
      /\ \A e \in x.elements :
           objects'["sceneElement"][e] = objects["sceneElement"][e]
  BY <1>1, <1>2, FrameDerives
<1>4. Stale(x)
  BY <1>2, <1>3 DEF Stale
<1>5. PICK d \in Call : Refreshes(call[d], x.elements)
  BY <1>1, <1>4 DEF CacheInv
<1>6. Refreshes(call[d], x.elements)'
  BY <1>3, <1>5 DEF Refreshes, Keeps
<1> QED
  BY <1>1, <1>6 DEF Refreshes

LEMMA CacheKept ==
  ASSUME CacheInv, Framed, \A d \in Call : Keeps(d)
  PROVE  CacheInv'
BY StaleBefore DEF CacheInv, Framed

LEMMA FramedSame ==
  ASSUME UNCHANGED objects
  PROVE  Framed
BY DEF Framed, Frame, Stale

\* What of scenes stays.
LEMMA FramedBy ==
  ASSUME TypeInv,
         \A s \in DOMAIN objects'["scene"] :
           /\ s \in DOMAIN objects["scene"]
           /\ objects'["scene"][s] = objects["scene"][s],
         \A es \in SUBSET (Element \cap given) : Frame(es)
  PROVE  Framed
BY DEF Framed, TypeInv, ObjectsInv

\* The effect of an element that is there.
LEMMA EffectHere ==
  ASSUME TypeInv, NEW e \in DOMAIN objects["sceneElement"]
  PROVE  LET x == objects["sceneElement"][e].effect
         IN /\ x \in Ids["preset"] \cup Effects /\ x \in given \cup {DefaultState}
            /\ x \in Effects =>
                 /\ KindOf(x) \in {"transitionEffect", "pulseEffect"}
                 /\ x \in Ids[KindOf(x)] /\ x \in given
<1>1. LET x == objects["sceneElement"][e].effect
      IN x \in Ids["preset"] \cup Effects /\ x \in given \cup {DefaultState}
  BY IdFacts DEF TypeInv, ObjectsInv, ElementForm
<1>2. DefaultState \notin Effects
  BY IdsApart, IdFacts, KindFacts DEF Effects
<1> QED
  BY <1>1, <1>2, KindOfId, IdFacts, KindFacts DEF Effects

LEMMA FramedNew ==
  ASSUME TypeInv, NEW k \in Kind \ {"scene"}, NEW id \in Ids[k], NEW b,
         Put(k, id, b), id \notin given \cup {DefaultState}
  PROVE  Framed
<1> USE PutStep, KindFacts DEF TypeInv
<1>1. ASSUME NEW es \in SUBSET (Element \cap given)
      PROVE  Frame(es)
  <2> SUFFICES ASSUME NEW e \in es, e \in DOMAIN objects'["sceneElement"]
               PROVE  /\ e \in DOMAIN objects["sceneElement"]
                      /\ objects'["sceneElement"][e] = objects["sceneElement"][e]
                      /\ LET x == objects["sceneElement"][e].effect
                             l == KindOf(x)
                         IN x \in Effects /\ x \in DOMAIN objects'[l] =>
                              /\ x \in DOMAIN objects[l]
                              /\ objects'[l][x] = objects[l][x]
    BY DEF Frame
  <2>1. e # id
    OBVIOUS
  <2>2. e \in DOMAIN objects["sceneElement"]
        /\ objects'["sceneElement"][e] = objects["sceneElement"][e]
    BY <2>1
  <2> DEFINE x == objects["sceneElement"][e].effect
             l == KindOf(x)
  <2>3. x \in Effects => x \in given /\ l \in Kind
    BY <2>2, EffectHere
  <2> HIDE DEF x, l
  <2>4. x \in Effects /\ x \in DOMAIN objects'[l] =>
          x \in DOMAIN objects[l] /\ objects'[l][x] = objects[l][x]
    BY <2>3
  <2> QED
    BY <2>2, <2>4 DEF x, l
<1> QED
  BY <1>1, FramedBy

LEMMA FramedDrop ==
  ASSUME TypeInv, NEW k \in Kind, NEW ids, Drop(k, ids)
  PROVE  Framed
<1> USE DropStep, KindFacts DEF TypeInv
<1>1. \A l \in Kind : \A x \in DOMAIN objects'[l] :
        x \in DOMAIN objects[l] /\ objects'[l][x] = objects[l][x]
  OBVIOUS
<1>2. ASSUME NEW es \in SUBSET (Element \cap given)
      PROVE  Frame(es)
  BY <1>1, EffectHere DEF Frame
<1> QED
  BY <1>1, <1>2, FramedBy

\* Where none of the parts of scenes changes.
LEMMA PartsStay ==
  ASSUME TypeInv,
         \A l \in {"sceneElement", "transitionEffect", "pulseEffect"} :
           objects'[l] = objects[l]
  PROVE  /\ \A es : Frame(es)
         /\ \A es \in SUBSET Element : Derivable(es)' <=> Derivable(es)
         /\ \A es \in SUBSET Element :
              Derivable(es) => CreateSceneOf(es)' = CreateSceneOf(es)
<1>1. \A e \in DOMAIN objects["sceneElement"] :
        /\ e \in DOMAIN objects'["sceneElement"]
        /\ objects'["sceneElement"][e] = objects["sceneElement"][e]
        /\ LET x == objects["sceneElement"][e].effect
           IN x \in Effects => objects'[KindOf(x)] = objects[KindOf(x)]
  BY EffectHere
<1>2. \A es : Frame(es)
  BY <1>1 DEF Frame
<1>3. \A es \in SUBSET Element : Derivable(es)' <=> Derivable(es)
  BY <1>1 DEF Derivable, Has
<1>4. \A es \in SUBSET Element :
        Derivable(es) => CreateSceneOf(es)' = CreateSceneOf(es)
  BY <1>2, <1>3, FrameDerives
<1> QED
  BY <1>2, <1>3, <1>4

LEMMA FramedAside ==
  ASSUME TypeInv, NEW k \in {"lampGroup", "preset", "masterScene"},
         NEW id \in Ids[k], NEW b, Put(k, id, b)
  PROVE  Framed
<1> USE KindFacts, PutStep DEF TypeInv
<1>1. \A l \in {"sceneElement", "transitionEffect", "pulseEffect"} :
        objects'[l] = objects[l]
  OBVIOUS
<1>2. objects'["scene"] = objects["scene"]
  OBVIOUS
<1> QED
  BY <1>1, <1>2, PartsStay, FramedBy

LEMMA FramedScene ==
  ASSUME TypeInv, NEW id \in Scene, NEW b, Put("scene", id, StoredScene(b)),
         b.elements \subseteq Element
  PROVE  Framed
<1> DEFINE x == StoredScene(b)
<1>1. /\ \A l \in {"sceneElement", "transitionEffect", "pulseEffect"} :
           objects'[l] = objects[l]
      /\ DOMAIN objects'["scene"] = DOMAIN objects["scene"] \cup {id}
      /\ objects'["scene"][id] = x
      /\ \A s \in DOMAIN objects["scene"] \ {id} :
           objects'["scene"][s] = objects["scene"][s]
  BY PutStep, KindFacts, IdFacts DEF TypeInv
<1>2. ~Stale(objects["scene"][id])'
  <2> PICK y : y = x
    OBVIOUS
  <2>1. ~y.raced => Derivable(y.elements) /\ y.scene = CreateSceneOf(y.elements)
    BY StoredFacts
  <2>2. y.elements \subseteq Element
    BY StoredFacts
  <2>3. ~Stale(y)'
    BY <1>1, <2>1, <2>2, PartsStay DEF Stale
  <2> QED
    BY <1>1, <2>3 DEF Stale
<1> HIDE DEF x
<1> SUFFICES ASSUME NEW s \in DOMAIN objects'["scene"],
                    Stale(objects["scene"][s])'
             PROVE  /\ s \in DOMAIN objects["scene"]
                    /\ objects'["scene"][s] = objects["scene"][s]
                    /\ Frame(objects["scene"][s].elements)
  BY DEF Framed
<1>3. s # id
  BY <1>2
<1> QED
  BY <1>1, <1>3, PartsStay

LEMMA CacheUpdates ==
  ASSUME TypeInv, CacheInv, NEW c \in Call, UpdatesOne(c)
  PROVE  CacheInv'
<1> PICK k \in Kind \ {"scene"} :
           \E id \in Ids[k] : \E b : Update(c, k, id, b) /\ BodyOK(k, b)
  BY DEF UpdatesOne
<1> PICK id \in Ids[k] : \E b : Update(c, k, id, b)
  OBVIOUS
<1> PICK b : Update(c, k, id, b)
  OBVIOUS
<1>1. DOMAIN call = Call /\ call[c].pc = "idle"
  BY DEF TypeInv, CallsInv, Update, BeginChange, Begin
<1>2. \A d \in Call : Keeps(d)
  BY <1>1, KeepsAll DEF Update, BeginChange, Begin
<1>3. CASE UNCHANGED objects
  BY <1>2, <1>3, FramedSame, CacheKept
<1>4. CASE Put(k, id, b) /\ k \in {"lampGroup", "preset", "masterScene"}
  BY <1>2, <1>4, FramedAside, CacheKept
<1>5. CASE /\ Put(k, id, b) /\ Has(k, id)
           /\ k \in {"sceneElement", "transitionEffect", "pulseEffect"}
  <2> DEFINE r == Called("answer", "update", k, id)
  <2>1. call'[c] = r
    BY <1>1, <1>5 DEF Update, BeginChange, Begin
  <2>2. Asks(r) /\ r.id = id
    BY <1>5, CalledFacts DEF Asks, Parts
  <2> HIDE DEF r
  <2>3. /\ DOMAIN objects' = Kind
        /\ \A l \in Kind \ {k} : objects'[l] = objects[l]
        /\ DOMAIN objects'[k] = DOMAIN objects[k]
        /\ \A x \in DOMAIN objects[k] \ {id} : objects'[k][x] = objects[k][x]
    <3>1. ObjectsInv /\ k \in Kind /\ Put(k, id, b) /\ id \in DOMAIN objects[k]
      BY <1>5 DEF TypeInv, Has
    <3> QED
      BY <3>1, PutStep
  <2> SUFFICES ASSUME NEW s \in DOMAIN objects'["scene"],
                      Stale(objects["scene"][s])'
               PROVE  \E d \in Call :
                        Refreshes(call[d], objects["scene"][s].elements)'
    BY DEF CacheInv
  <2>4. s \in DOMAIN objects["scene"]
        /\ objects'["scene"][s] = objects["scene"][s]
    BY <1>5, <2>3, KindFacts
  <2> DEFINE es == objects["scene"][s].elements
  <2>5. CASE \/ id \in es
             \/ \E e \in es : objects'["sceneElement"][e].effect = id
    <3>1. Refreshes(call[c], objects["scene"][s].elements)'
      BY <2>1, <2>2, <2>4, <2>5 DEF Refreshes, Asks
    <3> QED
      BY <3>1
  <2>6. CASE /\ id \notin es
             /\ \A e \in es : objects'["sceneElement"][e].effect # id
    <3>1. \A e \in es : e \in DOMAIN objects'["sceneElement"] =>
            /\ e \in DOMAIN objects["sceneElement"]
            /\ objects'["sceneElement"][e] = objects["sceneElement"][e]
      BY <2>3, <2>6, KindFacts
    <3>2. \A l \in Kind : \A x \in DOMAIN objects'[l] : x # id =>
            x \in DOMAIN objects[l] /\ objects'[l][x] = objects[l][x]
      BY <2>3
    <3>3. Frame(es)
      BY <2>6, <3>1, <3>2, EffectHere, KindFacts DEF Frame
    <3> QED
      BY <1>2, <2>4, <3>3, StaleBefore
  <2> QED
    BY <2>5, <2>6
<1> QED
  BY <1>3, <1>4, <1>5, KindFacts DEF Update

LEMMA CacheReads ==
  ASSUME TypeInv, CacheInv, NEW c \in Call, Reads(c)
  PROVE  CacheInv'
<1>1. DOMAIN call = Call /\ call[c].pc = "idle" /\ UNCHANGED objects
  BY DEF TypeInv, CallsInv, Reads, BeginRead, Begin
<1>2. \A d \in Call : Keeps(d)
  BY <1>1, KeepsAll DEF Reads, BeginRead, Begin
<1> QED
  BY <1>1, <1>2, FramedSame, CacheKept

LEMMA CacheChanges ==
  ASSUME TypeInv, CacheInv, NEW c \in Call, Change(c)
  PROVE  CacheInv'
<1>0. DOMAIN call = Call
  BY DEF TypeInv, CallsInv
<1>1. ASSUME CreatesOne(c)
      PROVE  CacheInv'
  <2> PICK k \in Kind \ {"scene"} : \E b : Create(c, k, b) /\ BodyOK(k, b)
    BY <1>1 DEF CreatesOne
  <2> PICK b : Create(c, k, b)
    OBVIOUS
  <2>1. \A d \in Call : Keeps(d)
    BY <1>0, KeepsAll DEF Create, BeginChange, Begin
  <2>2. Framed
    BY NewId, FramedSame, FramedNew DEF Create
  <2> QED
    BY <2>1, <2>2, CacheKept
<1>2. ASSUME SetDefaultLampState(c)
      PROVE  CacheInv'
  <2>1. \A d \in Call : Keeps(d)
    BY <1>0, <1>2, KeepsAll DEF SetDefaultLampState, BeginChange, Begin
  <2>2. Framed
    BY <1>2, FramedAside, IdFacts DEF SetDefaultLampState
  <2> QED
    BY <2>1, <2>2, CacheKept
<1>3. ASSUME UNCHANGED objects, NEW r, BeginChange(c, r)
      PROVE  CacheInv'
  <2>1. \A d \in Call : Keeps(d)
    BY <1>0, <1>3, KeepsAll DEF BeginChange, Begin
  <2> QED
    BY <1>3, <2>1, FramedSame, CacheKept
<1>4. ASSUME DeletesOne(c)
      PROVE  CacheInv'
  BY <1>3, <1>4 DEF DeletesOne, Delete
<1>5. ASSUME LightingResetControllerService(c)
      PROVE  CacheInv'
  BY <1>3, <1>5 DEF LightingResetControllerService
<1>6. ASSUME SceneChange(c)
      PROVE  CacheInv'
  BY <1>3, <1>6 DEF SceneChange, CreateScene, UpdateScene,
              CreateSceneWithSceneElements, UpdateSceneWithSceneElements,
              SceneCall
<1> QED
  BY <1>1, <1>2, <1>4, <1>5, <1>6, CacheUpdates, ChangeCases

\* A stale scene could be derived, and so all that is asked about it is so.
LEMMA CacheDepends ==
  ASSUME TypeInv, CacheInv, NEW c \in Call, Depends(c)
  PROVE  CacheInv'
<1> DEFINE r == Over([pc |-> "refresh"], call[c])
<1>1. /\ UNCHANGED objects /\ DOMAIN call = Call /\ call[c].pc = "depends"
      /\ call' = [call EXCEPT ![c] = IF Dependents(call[c].id) THEN r ELSE Blank]
  BY DEF Depends, TypeInv, CallsInv
<1>2. r.pc = "refresh"
  BY CallHere, SetPc
<1> HIDE DEF r
<1>6. ASSUME NEW s \in DOMAIN objects["scene"], Stale(objects["scene"][s])'
      PROVE  Stale(objects["scene"][s])
  BY <1>1, <1>6 DEF Stale, Derivable, Has, CreateSceneOf, Component
<1>7. ASSUME NEW s, NEW d,
             Refreshes(call'[d], objects["scene"][s].elements)
      PROVE  Refreshes(call[d], objects["scene"][s].elements)'
  BY <1>1, <1>7 DEF Refreshes
<1> SUFFICES ASSUME NEW s \in DOMAIN objects["scene"], Stale(objects["scene"][s])
             PROVE  \E d \in Call :
                      Refreshes(call'[d], objects["scene"][s].elements)
  BY <1>1, <1>6, <1>7 DEF CacheInv
<1> DEFINE es == objects["scene"][s].elements
<1>3. PICK d \in Call : Refreshes(call[d], es)
  BY DEF CacheInv
<1>4. CASE d # c
  BY <1>1, <1>3, <1>4
<1>5. CASE d = c
  <2>1. \/ call[c].id \in es
        \/ \E e \in es : objects["sceneElement"][e].effect = call[c].id
    BY <1>1, <1>3, <1>5 DEF Refreshes
  <2>2. \A e \in es : e \in DOMAIN objects["sceneElement"] /\ e \in Element
    BY DEF Stale, Derivable, Has, TypeInv, ObjectsInv
  <2>3. Dependents(call[c].id)
    <3>1. CASE call[c].id \in es
      BY <2>2, <3>1 DEF Dependents, IsDependentOnSceneElement
    <3>2. CASE \E e \in es : objects["sceneElement"][e].effect = call[c].id
      BY <2>2, <3>2, EffectHere DEF Dependents, IsDependentOnEffect
    <3> QED
      BY <2>1, <3>1, <3>2
  <2> QED
    BY <1>1, <1>2, <2>3 DEF Refreshes
<1> QED
  BY <1>4, <1>5

\* After RefreshSceneData no scene is stale.
LEMMA CacheRefresh ==
  ASSUME TypeInv, CacheInv, NEW c \in Call, RefreshSceneData(c)
  PROVE  CacheInv'
<1> SUFFICES ASSUME NEW s \in DOMAIN objects'["scene"]
             PROVE  ~Stale(objects["scene"][s])'
  BY DEF CacheInv
<1> PICK x : x = objects["scene"][s]
  OBVIOUS
<1>1. Refreshing
  BY DEF RefreshSceneData, Refreshing
<1>2. /\ \A l \in {"sceneElement", "transitionEffect", "pulseEffect"} :
           objects'[l] = objects[l]
      /\ s \in DOMAIN objects["scene"] /\ objects'["scene"][s] = Refreshed(x)
  BY <1>1, RefreshStep, KindFacts DEF TypeInv
<1>3. x.elements \subseteq Element
  BY <1>2 DEF TypeInv, ObjectsInv
<1> PICK y : y = Refreshed(x)
  OBVIOUS
<1>4. /\ y.elements = x.elements
      /\ Derivable(x.elements) => y.scene = CreateSceneOf(x.elements)
  BY DEF Refreshed
<1>5. ~Stale(y)'
  BY <1>2, <1>3, <1>4, PartsStay DEF Stale
<1> QED
  BY <1>2, <1>5 DEF Stale

LEMMA CacheAnswers ==
  ASSUME TypeInv, CacheInv, NEW c \in Call, Answer(c)
  PROVE  CacheInv'
<1> DEFINE r == Over([pc |-> "depends"], call[c])
<1>1. DOMAIN call = Call /\ call[c].pc = "answer" /\ UNCHANGED objects
      /\ call' = [call EXCEPT ![c] =
                    IF /\ call[c].op = "update" /\ call[c].code = "OK"
                       /\ call[c].kind \in Parts
                    THEN r ELSE Blank]
  BY DEF Answer, TypeInv, CallsInv
<1>2. r.pc = "depends" /\ r.id = call[c].id
  BY CallHere, SetPc
<1> HIDE DEF r
<1>3. \A d \in Call : Keeps(d)
  BY <1>1, <1>2 DEF Keeps, Asks
<1> QED
  BY <1>1, <1>3, FramedSame, CacheKept

LEMMA CacheContinues ==
  ASSUME TypeInv, CacheInv, NEW c \in Call, Continue(c)
  PROVE  CacheInv'
<1>1. \A r : /\ call' = [call EXCEPT ![c] = r]
             /\ call[c].pc \notin {"answer", "depends", "refresh"}
             => \A d \in Call : Keeps(d)
  BY KeepsAll DEF TypeInv, CallsInv
<1>2. ASSUME \/ CheckGroups(c) \/ CheckDependents(c) \/ Erase(c)
             \/ MakeEffect(c) \/ MakeElement(c) \/ AllMade(c) \/ UndoCheck(c)
             \/ UndoErase(c) \/ Derive(c) \/ CreateSceneInternal(c)
             \/ UpdateSceneInternal(c) \/ ResetsOne(c) \/ ResetDefaultState(c)
             \/ ResetDone(c)
      PROVE  \A d \in Call : Keeps(d)
  <2>1. /\ call[c].pc \notin {"answer", "depends", "refresh"}
        /\ \E r : call' = [call EXCEPT ![c] = r]
    BY <1>2 DEF CheckGroups, CheckDependents, Erase, MakeEffect, MakeElement,
                AllMade, UndoCheck, UndoErase, Derive, CreateSceneInternal,
                UpdateSceneInternal, ResetsOne, ResetManager,
                ResetDefaultState, ResetDone, Set
  <2> QED
    BY <1>1, <2>1
<1>3. ASSUME \/ CheckGroups(c) \/ CheckDependents(c) \/ AllMade(c)
             \/ UndoCheck(c) \/ Derive(c) \/ ResetDone(c)
      PROVE  Framed
  BY <1>3, FramedSame
     DEF CheckGroups, CheckDependents, AllMade, UndoCheck, Derive, ResetDone
<1>4. ASSUME Erase(c)
      PROVE  Framed
  BY <1>4, CallHere, FramedDrop DEF Erase, CallOK
<1>5. ASSUME UndoErase(c)
      PROVE  Framed
  BY <1>5, UndoHere, FramedDrop, KindFacts DEF UndoErase
<1>6. ASSUME ResetsOne(c)
      PROVE  Framed
  BY <1>6, FramedDrop, FramedSame DEF ResetsOne, ResetManager
<1>7. ASSUME ResetDefaultState(c)
      PROVE  Framed
  BY <1>7, FramedDrop, KindFacts DEF ResetDefaultState
<1>8. ASSUME NEW k \in Kind \ {"scene"}, NEW b, Makes_(k, b)
      PROVE  Framed
  BY <1>8, NewId, FramedNew DEF Makes_
<1>9. ASSUME MakeEffect(c)
      PROVE  Framed
  BY <1>8, <1>9, ComponentHere, FramedSame, KindFacts DEF MakeEffect, Makes_
<1>10. ASSUME MakeElement(c)
       PROVE  Framed
  BY <1>8, <1>10, FramedSame, KindFacts DEF MakeElement, Makes_
<1>11. call[c].pc = "store" => call[c].body.elements \subseteq Element
  BY CallHere DEF CallOK
<1>12. ASSUME CreateSceneInternal(c)
       PROVE  Framed
  BY <1>11, <1>12, NewId, FramedSame, FramedScene, KindFacts, IdFacts
     DEF CreateSceneInternal
<1>13. ASSUME UpdateSceneInternal(c)
       PROVE  Framed
  <2>1. call[c].pc = "store" /\ call[c].op = "update" /\ call[c].id \in Scene
    BY <1>13, BodyHere, CallHere, IdFacts DEF UpdateSceneInternal, CallOK
  <2> QED
    BY <1>11, <1>13, <2>1, FramedSame, FramedScene DEF UpdateSceneInternal
<1> QED
  BY <1>2, <1>3, <1>4, <1>5, <1>6, <1>7, <1>9, <1>10, <1>12, <1>13, CacheKept,
     CacheDepends, CacheRefresh, CacheAnswers, ContinueCases

LEMMA CacheStep == TypeInv /\ CacheInv /\ [Next]_vars => CacheInv'
<1> SUFFICES ASSUME TypeInv, CacheInv, [Next]_vars
             PROVE  CacheInv'
  OBVIOUS
<1>1. CASE UNCHANGED vars
  <2>1. UNCHANGED <<objects, call>>
    BY <1>1 DEF vars
  <2>2. \A d \in Call : Keeps(d)
    BY <2>1 DEF Keeps
  <2> QED
    BY <2>1, <2>2, FramedSame, CacheKept
<1>2. ASSUME NEW c \in Call, Read(c) \/ Command(c)
      PROVE  CacheInv'
  BY <1>2, ReadReads, CommandReads, CacheReads
<1> QED
  BY <1>1, <1>2, CacheChanges, CacheContinues DEF Next

LEMMA InitCache == Init => CacheInv
<1> SUFFICES ASSUME Init, NEW s \in DOMAIN objects["scene"]
             PROVE  ~Stale(objects["scene"][s])
  BY DEF CacheInv
<1>1. objects["scene"][s] = StoredScene(objects["scene"][s])
  BY DEF Init
<1> QED
  BY <1>1, StoredFacts DEF Stale

\* Once no call is in progress the older form of a scene says what its parts
\* say: whoever updates a part goes on to ask whether a scene is made of it,
\* and to derive all of them again, in whatever order calls take their turns.
THEOREM CacheFollows == Spec => []SceneCacheFresh
<1>1. CacheInv => SceneCacheFresh
  BY DEF CacheInv, SceneCacheFresh, Rest, Stale, Refreshes, Asks
<1> QED
  BY <1>1, InitCache, CacheStep, TypeAlways, PTL DEF Spec

-----------------------------------------------------------------------------
(* Calls that come one at a time.                                          *)

Begins(c) == \E r : Begin(c, r)
GoesOn(c) == /\ call[c].pc # "idle" /\ serial' = serial
             /\ \E r : call' = [call EXCEPT ![c] = r]

LEMMA StepOfOne ==
  ASSUME NEW c \in Call
  PROVE  /\ Read(c) \/ Command(c) \/ Change(c) => Begins(c)
         /\ Continue(c) => GoesOn(c)
<1>1. Read(c) \/ Command(c) => Begins(c)
  BY ReadReads, CommandReads DEF Reads, BeginRead, Begins
<1>2. ASSUME Change(c)
      PROVE  Begins(c)
  <2>1. ASSUME NEW r, BeginChange(c, r)
        PROVE  Begins(c)
    BY <2>1 DEF BeginChange, Begins
  <2>2. CASE CreatesOne(c)
    BY <2>1, <2>2 DEF CreatesOne, Create
  <2>3. CASE UpdatesOne(c)
    BY <2>1, <2>3 DEF UpdatesOne, Update
  <2>4. CASE DeletesOne(c)
    BY <2>1, <2>4 DEF DeletesOne, Delete
  <2>5. CASE SceneChange(c)
    BY <2>1, <2>5 DEF SceneChange, CreateScene, UpdateScene,
                      CreateSceneWithSceneElements,
                      UpdateSceneWithSceneElements, SceneCall
  <2>6. CASE SetDefaultLampState(c) \/ LightingResetControllerService(c)
    BY <2>1, <2>6 DEF SetDefaultLampState, LightingResetControllerService
  <2> QED
    BY <1>2, <2>2, <2>3, <2>4, <2>5, <2>6, ChangeCases
<1>3. ASSUME Continue(c)
      PROVE  GoesOn(c)
  BY <1>3, ContinueCases
     DEF GoesOn, CheckGroups, CheckDependents, Erase, Depends,
         RefreshSceneData, MakeEffect, MakeElement, AllMade, UndoCheck,
         UndoErase, Derive, CreateSceneInternal, UpdateSceneInternal,
         ResetsOne, ResetManager, ResetDefaultState, ResetDone, Answer, Set
<1> QED
  BY <1>1, <1>2, <1>3

\* While calls have not overlapped, a step is one of the only call there is.
Lone(c) ==
  /\ serial
  /\ \A d \in Call \ {c} : call[d].pc = "idle" /\ call'[d] = call[d]

LEMMA LoneStep ==
  ASSUME TypeInv, AloneInv, NEW c \in Call, Begins(c) \/ GoesOn(c), serial'
  PROVE  Lone(c) /\ (Begins(c) => Rest)
<1>1. \A d \in Call \ {c} : call'[d] = call[d]
  BY DEF Begins, Begin, GoesOn, TypeInv, CallsInv
<1>2. CASE Begins(c)
  BY <1>1, <1>2 DEF Begins, Begin, Rest, Lone
<1>3. CASE GoesOn(c) /\ ~Begins(c)
  BY <1>1, <1>3 DEF GoesOn, Lone, AloneInv, Busy
<1> QED
  BY <1>2, <1>3

LEMMA AloneStep == TypeInv /\ AloneInv /\ [Next]_vars => AloneInv'
<1> SUFFICES ASSUME TypeInv, AloneInv, [Next]_vars
             PROVE  AloneInv'
  OBVIOUS
<1>1. CASE UNCHANGED vars
  BY <1>1 DEF vars, AloneInv, Busy
<1>2. ASSUME NEW c \in Call, Begins(c) \/ GoesOn(c)
      PROVE  AloneInv'
  BY <1>2, LoneStep DEF Lone, AloneInv, Busy
<1> QED
  BY <1>1, <1>2, StepOfOne DEF Next

\* What the answer of a call r says is so.
Told(r) ==
  /\ /\ r.code = "NOT_FOUND"
     /\ r.op \in {"get", "delete"} \/ (r.op = "update" /\ r.kind # "scene")
     => ~Has(r.kind, r.id)
  /\ r.code = "OK" /\ r.op = "delete" => ~Has(r.kind, r.id)
  /\ r.code = "OK" /\ r.op \in {"get", "create"} => Has(r.kind, r.id)
  /\ r.op = "list" => r.body = Listed(r.kind)

\* What is so of the only call there is.
Sound(c) ==
  /\ \A x \in known : x \in Existing \/ (Deleted(call[c]) /\ call[c].id = x)
  /\ call[c].pc \in Makes \cup Undoes => SeqSet(call[c].made) \cap known = {}
  /\ call[c].pc \in Makes => SeqSet(call[c].made) \subseteq Existing
  /\ AskedOK(call[c])
  /\ call[c].pc = "answer" => Told(call[c])

SerialInv == KnownInv /\ AskedInv /\ CodesTell

LEMMA SoundNow ==
  ASSUME SerialInv, NEW c \in Call, Lone(c)
  PROVE  Sound(c) /\ (call[c].pc = "idle" => known \subseteq Existing)
<1>1. \A d \in Call \ {c} : ~Deleted(call[d])
  BY DEF Lone, Deleted
<1>2. \A x \in known : x \in Existing \/ (Deleted(call[c]) /\ call[c].id = x)
  BY <1>1 DEF SerialInv, KnownInv, Lone
<1>3. call[c].pc = "answer" => Told(call[c])
  BY DEF SerialInv, CodesTell, Told, Lone
<1> QED
  BY <1>2, <1>3 DEF Sound, SerialInv, KnownInv, AskedInv, Lone, Deleted

LEMMA SoundThen ==
  ASSUME NEW c \in Call, Lone(c), Sound(c)'
  PROVE  SerialInv'
<1>1. \A d \in Call \ {c} : call'[d].pc = "idle"
  BY DEF Lone
<1>2. KnownInv'
  BY <1>1 DEF KnownInv, Sound, Makes, Undoes
<1>3. AskedInv'
  BY <1>1 DEF AskedInv, AskedOK, Sound
<1>4. CodesTell'
  <2> SUFFICES ASSUME NEW d \in Call, call'[d].pc = "answer"
               PROVE  Told(call[d])'
    BY DEF CodesTell, Told
  <2> QED
    BY <1>1 DEF Sound
<1> QED
  BY <1>2, <1>3, <1>4 DEF SerialInv

\* A call that comes to where nothing more is asked of it.
LEMMA SoundPlain ==
  ASSUME NEW c \in Call, known' \subseteq Existing',
         call'[c].pc \notin Makes \cup Undoes \cup {"check", "erase"},
         call'[c].pc = "answer" => Told(call[c])'
  PROVE  Sound(c)'
BY DEF Sound, AskedOK, Undoes

\* Lamp groups name lamp groups only.
LEMMA OnlyGroups ==
  ASSUME TypeInv
  PROVE  \A k \in Kind \ {"lampGroup"} : \A x \in Ids[k] : ~GroupsUse(x)
<1> SUFFICES ASSUME NEW k \in Kind \ {"lampGroup"}, NEW x \in Ids[k],
                    NEW h \in DOMAIN objects["lampGroup"],
                    NEW i \in DOMAIN objects["lampGroup"][h].groups,
                    objects["lampGroup"][h].groups[i] = x
             PROVE  FALSE
  BY DEF GroupsUse
<1> DEFINE gs == objects["lampGroup"][h].groups
<1>1. gs \in Seq(Group \cup {AllLamps})
  BY DEF TypeInv, ObjectsInv, GroupForm
<1>2. gs[i] = x /\ i \in DOMAIN gs
  OBVIOUS
<1> HIDE DEF gs
<1>3. x \in Group \cup {AllLamps}
  BY <1>1, <1>2
<1> QED
  BY <1>3, IdsApart, IdFacts, KindFacts

\* Nothing that lasts names a master scene.
LEMMA NoDependents == \A m \in Master : ~Dependents(m)
BY IdsApart, IdFacts, KindFacts DEF Dependents, Effects

LEMMA CallSet ==
  ASSUME TypeInv, NEW c \in Call, NEW r, call' = [call EXCEPT ![c] = r]
  PROVE  call'[c] = r
BY DEF TypeInv, CallsInv

LEMMA SoundReads ==
  ASSUME TypeInv, known \subseteq Existing, NEW c \in Call, Reads(c)
  PROVE  Sound(c)'
<1> PICK op \in ReadOps : \E kind, id, fields :
           /\ BeginRead(c, op, kind, id, fields)
           /\ DOMAIN fields \subseteq {"code", "body", "lamps"}
           /\ op = "get" =>
                fields = [code |-> IF Has(kind, id) THEN "OK" ELSE "NOT_FOUND"]
           /\ op = "list" => fields = [body |-> Listed(kind)]
  BY DEF Reads
<1> PICK kind, id, fields :
           /\ BeginRead(c, op, kind, id, fields)
           /\ DOMAIN fields \subseteq {"code", "body", "lamps"}
           /\ op = "get" =>
                fields = [code |-> IF Has(kind, id) THEN "OK" ELSE "NOT_FOUND"]
           /\ op = "list" => fields = [body |-> Listed(kind)]
  OBVIOUS
<1>1. /\ call'[c] = Over(fields, Called("answer", op, kind, id))
      /\ UNCHANGED <<objects, given, known, calls>>
  BY CallSet DEF BeginRead, Begin
<1>2. /\ call'[c].pc = "answer" /\ call'[c].op = op
      /\ call'[c].kind = kind /\ call'[c].id = id
      /\ op = "get" =>
           call'[c].code = IF Has(kind, id) THEN "OK" ELSE "NOT_FOUND"
      /\ op = "list" => call'[c].body = Listed(kind)
  BY <1>1, CalledFacts, OverFacts, BlankFacts
<1>3. Told(call[c])'
  BY <1>1, <1>2 DEF Told, ReadOps, Has, Listed
<1> QED
  BY <1>1, <1>2, <1>3, SoundPlain DEF Existing, Makes, Undoes

LEMMA SoundCreates ==
  ASSUME TypeInv, known \subseteq Existing, NEW c \in Call, CreatesOne(c)
  PROVE  Sound(c)'
<1> PICK k \in Kind \ {"scene"} : \E b : Create(c, k, b) /\ BodyOK(k, b)
  BY DEF CreatesOne
<1> PICK b : Create(c, k, b)
  OBVIOUS
<1> DEFINE id == GenerateUniqueID(k)
<1>1. CASE Full(k)
  <2>1. /\ call'[c] = Over([code |-> "NO_SLOT"],
                           Called("answer", "create", k, None))
        /\ UNCHANGED <<objects, known>>
    BY <1>1, CallSet DEF Create, BeginChange, Begin
  <2>2. /\ call'[c].pc = "answer" /\ call'[c].op = "create"
        /\ call'[c].code = "NO_SLOT"
    BY <2>1, CalledFacts, OverFacts, BlankFacts
  <2>3. Told(call[c])'
    BY <2>2 DEF Told
  <2> QED
    BY <2>1, <2>2, <2>3, SoundPlain DEF Existing, Makes, Undoes
<1>2. CASE ~Full(k)
  <2>1. /\ call'[c] = Called("answer", "create", k, id)
        /\ Put(k, id, b) /\ known' = known /\ id \in Ids[k]
    BY <1>2, CallSet, NewId DEF Create, BeginChange, Begin
  <2> HIDE DEF id
  <2>2. /\ call'[c].pc = "answer" /\ call'[c].op = "create"
        /\ call'[c].kind = k /\ call'[c].id = id
    BY <2>1, CalledFacts
  <2>3. id \in DOMAIN objects'[k] /\ Existing \subseteq Existing'
    BY <2>1, PutStep DEF TypeInv
  <2>4. Told(call[c])'
    BY <2>2, <2>3 DEF Told, Has
  <2> QED
    BY <2>1, <2>2, <2>3, <2>4, SoundPlain DEF Makes, Undoes
<1> QED
  BY <1>1, <1>2

LEMMA SoundUpdates ==
  ASSUME TypeInv, known \subseteq Existing, NEW c \in Call, UpdatesOne(c)
  PROVE  Sound(c)'
<1> PICK k \in Kind \ {"scene"} :
           \E id \in Ids[k] : \E b : Update(c, k, id, b) /\ BodyOK(k, b)
  BY DEF UpdatesOne
<1> PICK id \in Ids[k] : \E b : Update(c, k, id, b)
  OBVIOUS
<1> PICK b : Update(c, k, id, b)
  OBVIOUS
<1>1. CASE ~Has(k, id)
  <2>1. /\ call'[c] = Over([code |-> "NOT_FOUND"],
                           Called("answer", "update", k, id))
        /\ UNCHANGED <<objects, known>>
    BY <1>1, CallSet DEF Update, BeginChange, Begin
  <2>2. /\ call'[c].pc = "answer" /\ call'[c].op = "update"
        /\ call'[c].kind = k /\ call'[c].id = id /\ call'[c].code = "NOT_FOUND"
    BY <2>1, CalledFacts, OverFacts, BlankFacts
  <2>3. Told(call[c])'
    BY <1>1, <2>1, <2>2 DEF Told, Has
  <2> QED
    BY <2>1, <2>2, <2>3, SoundPlain DEF Existing, Makes, Undoes
<1>2. CASE Has(k, id)
  <2>1. /\ call'[c] = Called("answer", "update", k, id)
        /\ Put(k, id, b) /\ known' = known
    BY <1>2, CallSet DEF Update, BeginChange, Begin
  <2>2. /\ call'[c].pc = "answer" /\ call'[c].op = "update"
        /\ call'[c].code = "OK"
    BY <2>1, CalledFacts
  <2>3. Existing \subseteq Existing'
    BY <2>1, PutStep DEF TypeInv
  <2>4. Told(call[c])'
    BY <2>2 DEF Told
  <2> QED
    BY <2>1, <2>2, <2>3, <2>4, SoundPlain DEF Makes, Undoes
<1> QED
  BY <1>1, <1>2

LEMMA SoundDeletes ==
  ASSUME TypeInv, known \subseteq Existing, NEW c \in Call, DeletesOne(c)
  PROVE  Sound(c)'
<1> PICK k \in Kind : Delete(c, k, FirstAsked(k))
  BY DEF DeletesOne
<1> PICK id \in Ids[k] :
           /\ BeginChange(c, Called(FirstAsked(k), "delete", k, id))
           /\ UNCHANGED <<objects, given, known>>
  BY DEF Delete
<1>1. call'[c] = Called(FirstAsked(k), "delete", k, id)
  BY CallSet DEF BeginChange, Begin
<1>2. call'[c].pc = FirstAsked(k) /\ call'[c].id = id
  BY <1>1, CalledFacts
<1>3. \/ k = "lampGroup" /\ FirstAsked(k) = "checkGroups"
      \/ k = "masterScene" /\ FirstAsked(k) = "erase"
      \/ k \notin {"lampGroup", "masterScene"} /\ FirstAsked(k) = "check"
  BY DEF FirstAsked
<1>4. /\ k # "lampGroup" => ~GroupsUse(id)
      /\ k = "masterScene" => ~Dependents(id)
  BY OnlyGroups, NoDependents, IdFacts
<1>5. AskedOK(call[c])'
  BY <1>2, <1>3, <1>4
     DEF AskedOK, GroupsUse, Dependents, IsDependentOnLampGroup,
         IsDependentOnEffect, IsDependentOnSceneElement, IsDependentOnScene
<1> QED
  BY <1>2, <1>3, <1>5 DEF Sound, Existing, Makes, Undoes

LEMMA SoundChanges ==
  ASSUME TypeInv, known \subseteq Existing, NEW c \in Call, Change(c)
  PROVE  Sound(c)'
<1>1. ASSUME SetDefaultLampState(c)
      PROVE  Sound(c)'
  <2> PICK v \in State : Put("preset", DefaultState, v)
    BY <1>1 DEF SetDefaultLampState
  <2>1. /\ call'[c] = Called("answer", "set", "preset", DefaultState)
        /\ known' = known
    BY <1>1, CallSet DEF SetDefaultLampState, BeginChange, Begin
  <2>2. Existing \subseteq Existing'
    BY PutStep, KindFacts, IdFacts DEF TypeInv
  <2>3. call'[c].pc = "answer" /\ call'[c].op = "set"
    BY <2>1, CalledFacts
  <2>4. Told(call[c])'
    BY <2>3 DEF Told
  <2> QED
    BY <2>1, <2>2, <2>3, <2>4, SoundPlain DEF Makes, Undoes
<1>2. ASSUME LightingResetControllerService(c)
      PROVE  Sound(c)'
  <2> DEFINE t == <<"preset", DefaultState, "lampGroup", "sceneElement", "scene",
                    "masterScene", "transitionEffect", "pulseEffect">>
  <2>1. /\ call'[c] = Over([todo |-> t], Called("reset", "reset", "none", None))
        /\ UNCHANGED <<objects, known>>
    BY <1>2, CallSet DEF LightingResetControllerService, BeginChange, Begin
  <2> HIDE DEF t
  <2>2. call'[c].pc = "reset"
    BY <2>1, CalledFacts, OverFacts, BlankFacts
  <2> QED
    BY <2>1, <2>2, SoundPlain DEF Existing, Makes, Undoes
<1>3. ASSUME NEW pc \in {"makeEffect", "derive"}, NEW op, NEW id, NEW fields,
             DOMAIN fields \subseteq {"todo", "body"},
             SceneCall(c, pc, op, id, fields)
      PROVE  Sound(c)'
  <2>1. call'[c] = Over(fields, Called(pc, op, "scene", id))
        /\ UNCHANGED <<objects, known>>
    BY <1>3, CallSet DEF SceneCall, BeginChange, Begin
  <2>2. call'[c].pc = pc /\ call'[c].made = <<>>
    BY <1>3, <2>1, CalledFacts, OverFacts, BlankFacts
  <2>3. SeqSet(<<>>) = {}
    BY DEF SeqSet
  <2> QED
    BY <2>1, <2>2, <2>3 DEF Sound, AskedOK, Existing, Makes, Undoes
<1>4. ASSUME SceneChange(c)
      PROVE  Sound(c)'
  <2>1. \A t, b : /\ DOMAIN [todo |-> t, body |-> b] \subseteq {"todo", "body"}
                  /\ DOMAIN [body |-> b] \subseteq {"todo", "body"}
    OBVIOUS
  <2> QED
    BY <1>3, <1>4, <2>1
       DEF SceneChange, CreateScene, UpdateScene,
           CreateSceneWithSceneElements, UpdateSceneWithSceneElements
<1> QED
  BY <1>1, <1>2, <1>4, SoundCreates, SoundUpdates, SoundDeletes, ChangeCases

\* The questions, and where they lead.
LEMMA SoundChecks ==
  ASSUME TypeInv, NEW c \in Call, Sound(c),
         CheckGroups(c) \/ CheckDependents(c) \/ Depends(c)
  PROVE  Sound(c)'
<1>1. known \subseteq Existing
  BY DEF Sound, Deleted, CheckGroups, CheckDependents, Depends
<1>2. ASSUME CheckGroups(c)
      PROVE  Sound(c)'
  <2>1. /\ UNCHANGED <<objects, known>>
        /\ call'[c] = IF GroupsUse(call[c].id)
                      THEN Over([pc |-> "answer", code |-> "DEPENDENCY"], call[c])
                      ELSE Over([pc |-> "check"], call[c])
    BY <1>2, CallSet DEF CheckGroups, Set
  <2>2. CASE GroupsUse(call[c].id)
    <3>1. /\ call'[c].pc = "answer" /\ call'[c].code = "DEPENDENCY"
          /\ call'[c].op = call[c].op
      BY <2>1, <2>2, CallHere, SetPcCode
    <3>2. call'[c].op = "delete"
      BY <1>2, <3>1, CallHere DEF CheckGroups, CallOK
    <3>3. Told(call[c])'
      BY <3>1, <3>2 DEF Told
    <3> QED
      BY <1>1, <2>1, <3>1, <3>3, SoundPlain DEF Existing, Makes, Undoes
  <2>3. CASE ~GroupsUse(call[c].id)
    <3>1. call'[c].pc = "check" /\ call'[c].id = call[c].id
      BY <2>1, <2>3, CallHere, SetPc
    <3>2. AskedOK(call[c])'
      BY <2>1, <2>3, <3>1 DEF AskedOK, GroupsUse
    <3> QED
      BY <1>1, <2>1, <3>1, <3>2 DEF Sound, Existing, Makes, Undoes
  <2> QED
    BY <2>2, <2>3
<1>3. ASSUME CheckDependents(c)
      PROVE  Sound(c)'
  <2>1. /\ UNCHANGED <<objects, known>>
        /\ call'[c] = IF Dependents(call[c].id)
                      THEN Over([pc |-> "answer", code |-> "DEPENDENCY"], call[c])
                      ELSE Over([pc |-> "erase"], call[c])
    BY <1>3, CallSet DEF CheckDependents, Set
  <2>2. CASE Dependents(call[c].id)
    <3>1. /\ call'[c].pc = "answer" /\ call'[c].code = "DEPENDENCY"
          /\ call'[c].op = call[c].op
      BY <2>1, <2>2, CallHere, SetPcCode
    <3>2. call'[c].op = "delete"
      BY <1>3, <3>1, CallHere DEF CheckDependents, CallOK
    <3>3. Told(call[c])'
      BY <3>1, <3>2 DEF Told
    <3> QED
      BY <1>1, <2>1, <3>1, <3>3, SoundPlain DEF Existing, Makes, Undoes
  <2>3. CASE ~Dependents(call[c].id)
    <3>1. call'[c].pc = "erase" /\ call'[c].id = call[c].id
      BY <2>1, <2>3, CallHere, SetPc
    <3>2. ~GroupsUse(call[c].id)
      BY <1>3 DEF Sound, AskedOK, CheckDependents
    <3>3. AskedOK(call[c])'
      BY <2>1, <2>3, <3>1, <3>2
         DEF AskedOK, GroupsUse, Dependents, IsDependentOnLampGroup,
             IsDependentOnEffect, IsDependentOnSceneElement, IsDependentOnScene
    <3> QED
      BY <1>1, <2>1, <3>1, <3>3 DEF Sound, Existing, Makes, Undoes
  <2> QED
    BY <2>2, <2>3
<1>4. ASSUME Depends(c)
      PROVE  Sound(c)'
  <2>1. /\ UNCHANGED <<objects, known>>
        /\ call'[c] = IF Dependents(call[c].id)
                      THEN Over([pc |-> "refresh"], call[c]) ELSE Blank
    BY <1>4, CallSet DEF Depends
  <2>2. call'[c].pc \in {"refresh", "idle"}
    BY <2>1, CallHere, SetPc, BlankFacts
  <2> QED
    BY <1>1, <2>1, <2>2, SoundPlain DEF Existing, Makes, Undoes
<1> QED
  BY <1>2, <1>3, <1>4

LEMMA SoundErase ==
  ASSUME TypeInv, NEW c \in Call, Sound(c), Erase(c)
  PROVE  Sound(c)'
<1> DEFINE k == call[c].kind
           id == call[c].id
<1>1. known \subseteq Existing
  BY DEF Sound, Deleted, Erase
<1>2. call[c].op = "delete" /\ k \in Kind /\ id \in Ids[k]
  BY CallHere DEF Erase, CallOK
<1>3. /\ call'[c] = Over([pc |-> "answer",
                          code |-> IF Has(k, id) THEN "OK" ELSE "NOT_FOUND"],
                         call[c])
      /\ Drop(k, {id}) /\ known' = known
  BY CallSet DEF Erase, Set
<1>4. /\ call'[c].pc = "answer" /\ call'[c].op = "delete"
      /\ call'[c].kind = k /\ call'[c].id = id
      /\ call'[c].code = IF Has(k, id) THEN "OK" ELSE "NOT_FOUND"
  BY <1>2, <1>3, CallHere, SetPcCode
<1> HIDE DEF k, id
<1>5. Existing \ {id} \subseteq Existing' /\ id \notin DOMAIN objects'[k]
  BY <1>2, <1>3, DropStep DEF TypeInv
<1>6. id \in Existing => Has(k, id)
  BY <1>2, ExistingOfKind DEF TypeInv
<1>7. Told(call[c])'
  BY <1>4, <1>5 DEF Told, Has
<1>8. \A x \in known' : x \in Existing' \/ (Deleted(call[c])' /\ call'[c].id = x)
  BY <1>1, <1>3, <1>4, <1>5, <1>6 DEF Deleted
<1> QED
  BY <1>4, <1>7, <1>8 DEF Sound, AskedOK, Makes, Undoes

LEMMA SoundRefresh ==
  ASSUME TypeInv, NEW c \in Call, Sound(c), RefreshSceneData(c)
  PROVE  Sound(c)'
<1>1. known \subseteq Existing
  BY DEF Sound, Deleted, RefreshSceneData
<1>2. Refreshing /\ known' = known /\ call'[c] = Blank
  BY CallSet DEF RefreshSceneData, Refreshing
<1>3. Existing' = Existing
  BY <1>2, RefreshStep DEF TypeInv
<1> QED
  BY <1>1, <1>2, <1>3, SoundPlain, BlankFacts DEF Makes, Undoes

\* A component fails.
LEMMA SoundFails ==
  ASSUME TypeInv, NEW c \in Call, Sound(c), call[c].pc \in Makes,
         Set(c, [pc |-> "undo", code |-> "NO_SLOT"]), UNCHANGED <<objects, known>>
  PROVE  Sound(c)'
<1>1. call'[c] = Over([pc |-> "undo", code |-> "NO_SLOT"], call[c])
  BY CallSet DEF Set
<1>2. call'[c].pc = "undo" /\ call'[c].made = call[c].made
  BY <1>1, CallHere, SetPcCode
<1>3. \A x \in known' : x \in Existing'
  BY DEF Sound, Deleted, Makes, Existing
<1>4. SeqSet(call[c].made) \cap known = {}
  BY DEF Sound
<1> QED
  BY <1>2, <1>3, <1>4 DEF Sound, AskedOK, Makes, Undoes

LEMMA AppendSet ==
  \A S : \A s \in Seq(S) : \A x : SeqSet(Append(s, x)) = SeqSet(s) \cup {x}
<1> TAKE S
<1> TAKE s \in Seq(S)
<1> TAKE x
<1>1. DOMAIN s = 1..Len(s) /\ Len(s) \in Nat
      /\ DOMAIN Append(s, x) = 1..(Len(s) + 1)
      /\ Append(s, x)[Len(s) + 1] = x
      /\ \A i \in 1..Len(s) : Append(s, x)[i] = s[i]
  OBVIOUS
<1> QED
  BY <1>1 DEF SeqSet

\* One more object made, which no client knows of yet.
LEMMA SoundMakes ==
  ASSUME TypeInv, NEW c \in Call, Sound(c), call[c].pc \in Makes,
         NEW k \in Kind, NEW b, Makes_(k, b), known' = known,
         call'[c].pc \in Makes,
         call'[c].made = Append(call[c].made, GenerateUniqueID(k))
  PROVE  Sound(c)'
<1> DEFINE x == GenerateUniqueID(k)
           m == call[c].made
<1>1. x \in Ids[k] /\ x \notin given /\ Put(k, x, b)
  BY NewId DEF Makes_
<1>2. m \in Seq((Effects \cup Element) \cap given) /\ call'[c].made = Append(m, x)
  BY CallHere DEF CallOK
<1>3. /\ known \subseteq Existing /\ SeqSet(m) \cap known = {}
      /\ SeqSet(m) \subseteq Existing
  BY DEF Sound, Deleted, Makes
<1> HIDE DEF x, m
<1>4. Existing' = Existing \cup {x}
  BY <1>1, PutStep DEF TypeInv
<1>5. SeqSet(call'[c].made) = SeqSet(m) \cup {x}
  BY <1>2, AppendSet
<1>6. x \notin known
  BY <1>1 DEF TypeInv
<1> QED
  BY <1>3, <1>4, <1>5, <1>6 DEF Sound, AskedOK, Makes

LEMMA SoundMakeEffect ==
  ASSUME TypeInv, NEW c \in Call, Sound(c), MakeEffect(c)
  PROVE  Sound(c)'
<1> DEFINE h == Head(call[c].todo)
           k == h.what[1]
           m == Append(call[c].made, GenerateUniqueID(k))
<1>1. CASE Full(k)
  BY <1>1, SoundFails DEF MakeEffect, Makes
<1>2. CASE ~Full(k)
  <2>1. Makes_(k, h.what[2]) /\ known' = known
        /\ call'[c] = Over([pc |-> "makeElement", made |-> m], call[c])
    BY <1>2, CallSet DEF MakeEffect, Makes_, Set
  <2>2. call[c].pc \in Makes /\ k \in Kind
    BY ComponentHere, KindFacts DEF MakeEffect, Makes
  <2> HIDE DEF m
  <2>3. call'[c].pc = "makeElement" /\ call'[c].made = m
    BY <2>1, CallHere, SetPcMade
  <2> QED
    BY <2>1, <2>2, <2>3, SoundMakes DEF m, Makes
<1> QED
  BY <1>1, <1>2

LEMMA SoundMakeElement ==
  ASSUME TypeInv, NEW c \in Call, Sound(c), MakeElement(c)
  PROVE  Sound(c)'
<1> DEFINE h == Head(call[c].todo)
           e == GenerateUniqueID("sceneElement")
           b == [lamps |-> h.lamps, groups |-> h.groups,
                 effect |-> call[c].made[Len(call[c].made)]]
           t == Tail(call[c].todo)
           m == Append(call[c].made, e)
           body == Over([elements |-> call[c].body.elements \cup {e}],
                        call[c].body)
<1>1. CASE Full("sceneElement")
  BY <1>1, SoundFails DEF MakeElement, Makes
<1>2. CASE ~Full("sceneElement")
  <2>1. Makes_("sceneElement", b) /\ known' = known
        /\ call'[c] = Over([pc |-> "makeEffect", todo |-> t, made |-> m,
                            body |-> body], call[c])
    BY <1>2, CallSet DEF MakeElement, Makes_, Set
  <2>2. call[c].pc \in Makes
    BY DEF MakeElement, Makes
  <2> HIDE DEF m, t, body
  <2>3. call'[c].pc = "makeEffect" /\ call'[c].made = m
    BY <2>1, CallHere, SetElement
  <2> QED
    BY <2>1, <2>2, <2>3, SoundMakes, KindFacts DEF m, Makes
<1> QED
  BY <1>1, <1>2

LEMMA SoundAllMade ==
  ASSUME TypeInv, NEW c \in Call, Sound(c), AllMade(c)
  PROVE  Sound(c)'
<1>1. /\ known' = known \cup SeqSet(call[c].made) /\ objects' = objects
      /\ call'[c] = Over([pc |-> "store", made |-> <<>>], call[c])
  BY CallSet DEF AllMade, Set
<1>2. call'[c].pc = "store"
  BY <1>1, CallHere, SetPcMade
<1>3. known \subseteq Existing /\ SeqSet(call[c].made) \subseteq Existing
  BY DEF Sound, Deleted, AllMade, Makes
<1> QED
  BY <1>1, <1>2, <1>3, SoundPlain DEF Existing, Makes, Undoes

LEMMA AllButSet ==
  \A S : \A m \in Seq(S) : \A i \in DOMAIN m :
    /\ SeqSet(AllBut(m, i)) \subseteq SeqSet(m)
    /\ SeqSet(<<m[i]>> \o AllBut(m, i)) \subseteq SeqSet(m)
<1> TAKE S
<1> TAKE m \in Seq(S)
<1> TAKE i \in DOMAIN m
<1> DEFINE x == m[i]
           t == AllBut(m, i)
<1>1. DOMAIN m = 1..Len(m) /\ Len(m) \in Nat /\ t \in Seq(S) /\ x \in SeqSet(m)
  BY AllButIn DEF SeqSet
<1>2. DOMAIN t = 1..(Len(m) - 1)
      /\ \A n \in 1..(Len(m) - 1) : t[n] = IF n < i THEN m[n] ELSE m[n + 1]
  BY DEF AllBut
<1> HIDE DEF x, t
<1>3. ASSUME NEW n \in DOMAIN t PROVE t[n] \in SeqSet(m)
  <2>1. \E j \in 1..Len(m) : t[n] = m[j]
    BY <1>1, <1>2
  <2> QED
    BY <1>1, <2>1 DEF SeqSet
<1>4. \A n \in DOMAIN (<<x>> \o t) :
        (<<x>> \o t)[n] = x \/ \E j \in DOMAIN t : (<<x>> \o t)[n] = t[j]
  BY <1>1
<1>5. SeqSet(t) \subseteq SeqSet(m) /\ SeqSet(<<x>> \o t) \subseteq SeqSet(m)
  BY <1>1, <1>3, <1>4 DEF SeqSet
<1> QED
  BY <1>5 DEF x, t

LEMMA SoundUndoCheck ==
  ASSUME TypeInv, NEW c \in Call, Sound(c), UndoCheck(c)
  PROVE  Sound(c)'
<1> DEFINE m == call[c].made
           S == (Effects \cup Element) \cap given
<1>1. call[c].pc = "undo" /\ UNCHANGED <<objects, known>>
  BY DEF UndoCheck
<1>2. m \in Seq(S) /\ call[c].code = "NO_SLOT"
  BY <1>1, CallHere DEF CallOK, Undoes
<1>3. /\ \A x \in known' : x \in Existing'
      /\ SeqSet(m) \cap known' = {}
  BY <1>1 DEF Sound, Deleted, Existing, Undoes
<1>4. CASE Set(c, [pc |-> "answer"])
  <2>1. call'[c] = Over([pc |-> "answer"], call[c])
    BY <1>4, CallSet DEF Set
  <2>2. call'[c].pc = "answer" /\ call'[c].code = "NO_SLOT"
        /\ call'[c].op = call[c].op
    BY <1>2, <2>1, CallHere, SetPc
  <2>3. call[c].op # "list"
    BY <1>1, CallHere DEF CallOK, Undoes
  <2>4. Told(call[c])'
    BY <2>2, <2>3 DEF Told
  <2> QED
    BY <1>3, <2>2, <2>4, SoundPlain DEF Makes, Undoes
<1>5. ASSUME NEW i \in DOMAIN m,
             Set(c, IF Dependents(m[i]) THEN [made |-> AllBut(m, i)]
                    ELSE [pc |-> "undoErase",
                          made |-> <<m[i]>> \o AllBut(m, i)])
      PROVE  Sound(c)'
  <2> DEFINE t == AllBut(m, i)
             u == <<m[i]>> \o AllBut(m, i)
  <2>1. SeqSet(t) \subseteq SeqSet(m) /\ SeqSet(u) \subseteq SeqSet(m)
        /\ u[1] = m[i]
    <3> HIDE DEF S, m
    <3> QED
      BY <1>2, <1>5, AllButIn, AllButSet
  <2>2. CASE Dependents(m[i])
    <3>1. call'[c] = Over([made |-> t], call[c])
      BY <1>5, <2>2, CallSet DEF Set
    <3> HIDE DEF t
    <3>2. call'[c].pc = "undo" /\ call'[c].made = t
      BY <1>1, <3>1, CallHere, SetMade
    <3> QED
      BY <1>3, <2>1, <3>2 DEF Sound, AskedOK, Makes
  <2>3. CASE ~Dependents(m[i])
    <3>1. call'[c] = Over([pc |-> "undoErase", made |-> u], call[c])
      BY <1>5, <2>3, CallSet DEF Set
    <3> HIDE DEF u
    <3>2. call'[c].pc = "undoErase" /\ call'[c].made = u
      BY <1>1, <3>1, CallHere, SetPcMade
    <3>3. AskedOK(call[c])'
      BY <1>1, <2>1, <2>3, <3>2
         DEF AskedOK, Dependents, IsDependentOnLampGroup,
             IsDependentOnEffect, IsDependentOnSceneElement, IsDependentOnScene
    <3> QED
      BY <1>3, <2>1, <3>2, <3>3 DEF Sound, Makes
  <2> QED
    BY <2>2, <2>3
<1> QED
  BY <1>4, <1>5 DEF UndoCheck

LEMMA SoundUndoErase ==
  ASSUME TypeInv, NEW c \in Call, Sound(c), UndoErase(c)
  PROVE  Sound(c)'
<1> DEFINE m == call[c].made
           x == Head(m)
           t == Tail(m)
           S == (Effects \cup Element) \cap given
<1>1. /\ call[c].pc = "undoErase" /\ known' = known /\ Drop(KindOf(x), {x})
      /\ call'[c] = Over([pc |-> "undo", made |-> t], call[c])
  BY CallSet DEF UndoErase, Set
<1>2. m \in Seq(S) /\ m # <<>>
  BY <1>1, CallHere DEF CallOK, Undoes
<1>3. KindOf(x) \in Kind
  BY <1>1, UndoHere, KindFacts
<1>4. /\ \A y \in known : y \in Existing
      /\ SeqSet(m) \cap known = {}
  BY <1>1 DEF Sound, Deleted, Undoes
<1> HIDE DEF t
<1>5. call'[c].pc = "undo" /\ call'[c].made = t
  BY <1>1, CallHere, SetPcMade
<1>6. x \in SeqSet(m) /\ SeqSet(t) \subseteq SeqSet(m)
  <2> HIDE DEF m, S
  <2>1. /\ DOMAIN m = 1..Len(m) /\ 1 \in 1..Len(m) /\ Head(m) = m[1]
        /\ DOMAIN t = 1..(Len(m) - 1)
        /\ \A i \in 1..(Len(m) - 1) : t[i] = m[i + 1] /\ i + 1 \in 1..Len(m)
    BY <1>2 DEF t
  <2>2. x \in SeqSet(m)
    BY <2>1 DEF SeqSet
  <2>3. ASSUME NEW y \in SeqSet(t) PROVE y \in SeqSet(m)
    <3>1. PICK i \in 1..(Len(m) - 1) : y = t[i]
      BY <2>1 DEF SeqSet
    <3>2. y = m[i + 1] /\ i + 1 \in 1..Len(m)
      BY <2>1, <3>1
    <3> QED
      BY <2>1, <3>2 DEF SeqSet
  <2> QED
    BY <2>2, <2>3
<1> HIDE DEF m, x
<1>7. Existing \ {x} \subseteq Existing'
  BY <1>1, <1>3, DropStep DEF TypeInv
<1> QED
  BY <1>1, <1>4, <1>5, <1>6, <1>7 DEF Sound, AskedOK, Makes

LEMMA SoundDerive ==
  ASSUME TypeInv, NEW c \in Call, Sound(c), Derive(c)
  PROVE  Sound(c)'
<1> DEFINE es == call[c].body.elements
           body == Over([scene |-> CreateSceneOf(es)], call[c].body)
<1>1. known' \subseteq Existing'
  BY DEF Derive, Sound, Deleted, Existing
<1>2. call'[c] = IF Derivable(es) THEN Over([pc |-> "store", body |-> body], call[c])
                 ELSE Over([pc |-> "answer", code |-> "NOT_FOUND"], call[c])
  BY CallSet DEF Derive, Set
<1> HIDE DEF es, body
<1>3. CASE Derivable(es)
  <2>1. call'[c].pc = "store"
    BY <1>2, <1>3, CallHere, SetPcBody
  <2> QED
    BY <1>1, <2>1, SoundPlain DEF Makes, Undoes
<1>4. CASE ~Derivable(es)
  <2>1. /\ call'[c].pc = "answer" /\ call'[c].code = "NOT_FOUND"
        /\ call'[c].op = call[c].op /\ call'[c].kind = call[c].kind
    BY <1>2, <1>4, CallHere, SetPcCode
  <2>2. call[c].op \in {"create", "update"} /\ call[c].kind = "scene"
    BY CallHere DEF Derive, CallOK
  <2>3. Told(call[c])'
    BY <2>1, <2>2 DEF Told
  <2> QED
    BY <1>1, <2>1, <2>3, SoundPlain DEF Makes, Undoes
<1> QED
  BY <1>3, <1>4

LEMMA SoundSceneCreated ==
  ASSUME TypeInv, NEW c \in Call, Sound(c), CreateSceneInternal(c)
  PROVE  Sound(c)'
<1> DEFINE s == GenerateUniqueID("scene")
           b == StoredScene(call[c].body)
<1>1. /\ call[c].pc = "store" /\ call[c].op = "create" /\ known' = known
      /\ known \subseteq Existing
  BY DEF CreateSceneInternal, Sound, Deleted
<1>2. call[c].kind = "scene" /\ call[c].body.valid \in BOOLEAN
  BY <1>1, BodyHere
<1>3. CASE call[c].body.valid /\ ~Full("scene")
  <2>1. /\ Put("scene", s, b) /\ s \in Ids["scene"]
        /\ call'[c] = Over([pc |-> "answer", id |-> s, body |-> None], call[c])
    BY <1>3, CallSet, NewId, KindFacts DEF CreateSceneInternal, Set
  <2> HIDE DEF s, b
  <2>2. /\ call'[c].pc = "answer" /\ call'[c].op = "create"
        /\ call'[c].kind = "scene" /\ call'[c].id = s
    BY <1>1, <1>2, <2>1, CallHere, SetPcIdBody
  <2>3. s \in DOMAIN objects'["scene"] /\ Existing \subseteq Existing'
    BY <2>1, PutStep, KindFacts DEF TypeInv
  <2>4. Told(call[c])'
    BY <2>2, <2>3 DEF Told, Has
  <2> QED
    BY <1>1, <2>2, <2>3, <2>4, SoundPlain DEF Makes, Undoes
<1>4. CASE ~(call[c].body.valid /\ ~Full("scene"))
  <2> DEFINE code == IF call[c].body.valid THEN "NO_SLOT" ELSE "INVALID_ARGS"
  <2>1. /\ objects' = objects
        /\ call'[c] = Over([pc |-> "answer", body |-> None, code |-> code], call[c])
    BY <1>4, CallSet DEF CreateSceneInternal, Set
  <2>2. code \in {"NO_SLOT", "INVALID_ARGS"}
    OBVIOUS
  <2> HIDE DEF code
  <2>3. /\ call'[c].pc = "answer" /\ call'[c].op = "create"
        /\ call'[c].code = code
    BY <1>1, <2>1, CallHere, SetPcBodyCode
  <2>4. Told(call[c])'
    BY <2>2, <2>3 DEF Told
  <2> QED
    BY <1>1, <2>1, <2>3, <2>4, SoundPlain DEF Existing, Makes, Undoes
<1> QED
  BY <1>3, <1>4

LEMMA SoundSceneUpdated ==
  ASSUME TypeInv, NEW c \in Call, Sound(c), UpdateSceneInternal(c)
  PROVE  Sound(c)'
<1> DEFINE b == StoredScene(call[c].body)
           code == IF call[c].body.valid THEN "OK" ELSE "INVALID_ARGS"
<1>1. /\ call[c].pc = "store" /\ call[c].op = "update" /\ known' = known
      /\ known \subseteq Existing
      /\ call'[c] = Over([pc |-> "answer", body |-> None, code |-> code], call[c])
  BY CallSet DEF UpdateSceneInternal, Sound, Deleted, Set
<1>2. call[c].kind = "scene" /\ call[c].id \in Ids["scene"]
  BY <1>1, BodyHere, CallHere DEF CallOK
<1>3. Existing \subseteq Existing'
  <2>1. CASE UNCHANGED objects
    BY <2>1 DEF Existing
  <2>2. CASE Put("scene", call[c].id, b)
    BY <1>2, <2>2, PutStep, KindFacts DEF TypeInv
  <2> QED
    BY <2>1, <2>2 DEF UpdateSceneInternal
<1> HIDE DEF code
<1>4. /\ call'[c].pc = "answer" /\ call'[c].op = "update"
      /\ call'[c].kind = "scene"
  BY <1>1, <1>2, CallHere, SetPcBodyCode
<1>5. Told(call[c])'
  BY <1>4 DEF Told
<1> QED
  BY <1>1, <1>3, <1>4, <1>5, SoundPlain DEF Makes, Undoes

LEMMA SoundResets ==
  ASSUME TypeInv, NEW c \in Call, Sound(c),
         ResetsOne(c) \/ ResetDefaultState(c) \/ ResetDone(c)
  PROVE  Sound(c)'
<1> DEFINE t == Tail(call[c].todo)
<1>1. /\ call[c].pc = "reset" /\ call[c].op = "reset"
      /\ DOMAIN call[c] = DOMAIN Blank
      /\ known \subseteq Existing /\ DefaultState \notin known
  BY CallHere DEF ResetsOne, ResetManager, ResetDefaultState, ResetDone, CallOK,
                  Sound, Deleted, TypeInv
<1>2. ASSUME ResetsOne(c)
      PROVE  Sound(c)'
  <2> PICK k \in Kind : ResetManager(c, k)
    BY <1>2 DEF ResetsOne
  <2>1. \/ /\ Drop(k, Ids[k]) /\ known' = known \ Ids[k]
           /\ call'[c] = Over([todo |-> t], call[c])
        \/ /\ UNCHANGED <<objects, known>>
           /\ call'[c] = Over([todo |-> t, code |-> "PARTIAL"], call[c])
    BY CallSet DEF ResetManager, Set
  <2> HIDE DEF t
  <2>2. call'[c].pc = "reset"
    BY <1>1, <2>1, SetTodo, SetTodoCode
  <2>3. known' \subseteq Existing'
    <3>1. CASE Drop(k, Ids[k]) /\ known' = known \ Ids[k]
      BY <1>1, <3>1, DropStep DEF TypeInv
    <3> QED
      BY <1>1, <2>1, <3>1 DEF Existing
  <2> QED
    BY <2>2, <2>3, SoundPlain DEF Makes, Undoes
<1>3. ASSUME ResetDefaultState(c)
      PROVE  Sound(c)'
  <2>1. /\ Drop("preset", {DefaultState}) /\ known' = known
        /\ call'[c] = Over([todo |-> t], call[c])
    BY <1>3, CallSet DEF ResetDefaultState, Set
  <2> HIDE DEF t
  <2>2. call'[c].pc = "reset"
    BY <1>1, <2>1, SetTodo
  <2>3. known' \subseteq Existing'
    BY <1>1, <2>1, DropStep, KindFacts DEF TypeInv
  <2> QED
    BY <2>2, <2>3, SoundPlain DEF Makes, Undoes
<1>4. ASSUME ResetDone(c)
      PROVE  Sound(c)'
  <2>1. /\ UNCHANGED <<objects, known>>
        /\ call'[c] = Over([pc |-> "answer"], call[c])
    BY <1>4, CallSet DEF ResetDone, Set
  <2>2. call'[c].pc = "answer" /\ call'[c].op = "reset"
    BY <1>1, <2>1, SetPc
  <2>3. Told(call[c])'
    BY <2>2 DEF Told
  <2> QED
    BY <1>1, <2>1, <2>2, <2>3, SoundPlain DEF Existing, Makes, Undoes
<1> QED
  BY <1>2, <1>3, <1>4

LEMMA SoundAnswers ==
  ASSUME TypeInv, NEW c \in Call, Sound(c), Answer(c)
  PROVE  Sound(c)'
<1>1. /\ call[c].pc = "answer" /\ known' = Signalled(call[c]) /\ objects' = objects
      /\ call'[c] = IF /\ call[c].op = "update" /\ call[c].code = "OK"
                       /\ call[c].kind \in Parts
                    THEN Over([pc |-> "depends"], call[c]) ELSE Blank
  BY CallSet DEF Answer
<1>2. call'[c].pc \in {"depends", "idle"}
  BY <1>1, CallHere, SetPc, BlankFacts
<1>3. known' \subseteq Existing
  <2>1. CASE call[c].op = "create" /\ call[c].code = "OK"
    <3>1. call[c].kind \in Kind /\ Has(call[c].kind, call[c].id)
      BY <1>1, <2>1, CallHere DEF Sound, Told, CallOK
    <3> QED
      BY <1>1, <2>1, <3>1 DEF Sound, Deleted, Signalled, Existing, Has
  <2>2. CASE ~(call[c].op = "create" /\ call[c].code = "OK")
    BY <1>1, <2>2 DEF Sound, Deleted, Signalled
  <2> QED
    BY <2>1, <2>2
<1> QED
  BY <1>1, <1>2, <1>3, SoundPlain DEF Existing, Makes, Undoes

LEMMA SoundContinues ==
  ASSUME TypeInv, NEW c \in Call, Sound(c), Continue(c)
  PROVE  Sound(c)'
<1>1. ASSUME CheckGroups(c) \/ CheckDependents(c) \/ Depends(c)
      PROVE  Sound(c)'
  BY <1>1, SoundChecks
<1>2. ASSUME ResetsOne(c) \/ ResetDefaultState(c) \/ ResetDone(c)
      PROVE  Sound(c)'
  BY <1>2, SoundResets
<1> QED
  BY <1>1, <1>2, ContinueCases, SoundErase, SoundRefresh, SoundMakeEffect,
     SoundMakeElement, SoundAllMade, SoundUndoCheck, SoundUndoErase,
     SoundDerive, SoundSceneCreated, SoundSceneUpdated, SoundAnswers

LEMMA SerialStep ==
  TypeInv /\ AloneInv /\ SerialInv /\ [Next]_vars => SerialInv'
<1> SUFFICES ASSUME TypeInv, AloneInv, SerialInv, [Next]_vars
             PROVE  SerialInv'
  OBVIOUS
<1>1. CASE UNCHANGED vars
  BY <1>1 DEF vars, SerialInv, KnownInv, AskedInv, AskedOK, CodesTell, Existing,
              Deleted, GroupsUse, Dependents, IsDependentOnLampGroup,
              IsDependentOnEffect, IsDependentOnSceneElement,
              IsDependentOnScene, Has, Listed
<1>2. CASE ~serial'
  BY <1>2 DEF SerialInv, KnownInv, AskedInv, CodesTell
<1>3. ASSUME serial', NEW c \in Call, Read(c) \/ Command(c) \/ Change(c)
      PROVE  SerialInv'
  <2>1. Lone(c) /\ Begins(c) /\ call[c].pc = "idle"
    BY <1>3, StepOfOne, LoneStep DEF Begins, Begin
  <2>2. known \subseteq Existing
    BY <2>1, SoundNow
  <2>3. Sound(c)'
    BY <1>3, <2>2, ReadReads, CommandReads, SoundReads, SoundChanges
  <2> QED
    BY <2>1, <2>3, SoundThen
<1>4. ASSUME serial', NEW c \in Call, Continue(c)
      PROVE  SerialInv'
  <2>1. Lone(c)
    BY <1>4, StepOfOne, LoneStep
  <2>2. Sound(c)
    BY <2>1, SoundNow
  <2>3. Sound(c)'
    BY <1>4, <2>2, SoundContinues
  <2> QED
    BY <2>1, <2>3, SoundThen
<1> QED
  BY <1>1, <1>2, <1>3, <1>4 DEF Next

LEMMA IInvAlways == Spec => []IInv
<1>1. Init => IInv
  <2> SUFFICES ASSUME Init
               PROVE  IInv
    OBVIOUS
  <2>1. \A c \in Call : call[c].pc = "idle"
    BY BlankFacts DEF Init
  <2>2. AloneInv /\ AskedInv /\ CodesTell
    BY <2>1 DEF AloneInv, Busy, AskedInv, AskedOK, CodesTell
  <2>3. KnownInv
    BY <2>1 DEF Init, KnownInv, Makes, Undoes
  <2>4. CacheInv
    BY InitCache
  <2> QED
    BY <2>2, <2>3, <2>4, InitType DEF IInv
<1>2. IInv /\ [Next]_vars => IInv'
  BY TypeStep, CacheStep, AloneStep, SerialStep DEF IInv, SerialInv
<1> QED
  BY <1>1, <1>2, PTL DEF Spec

\* While calls come one at a time, a client that follows the signals believes
\* in no object that is not there: every deletion is told, and what is taken
\* back when a scene cannot be made was never told of.
THEOREM KnownIsThere == Spec => []KnownExist
<1>1. IInv => KnownExist
  BY DEF IInv, KnownInv, KnownExist, Rest, Deleted
<1> QED
  BY <1>1, IInvAlways, PTL

\* While calls come one at a time, the code that a call is answered with tells
\* what became of the object.
THEOREM CodesAreTrue == Spec => []CodesTell
<1>1. IInv => CodesTell
  BY DEF IInv
<1> QED
  BY <1>1, IInvAlways, PTL

\* While calls come one at a time, nothing is deleted that a lamp group, a
\* scene element, a scene or a master scene names: the answers to the
\* questions still hold when the object goes.
THEOREM ReferencesKept == Spec => NoReferenceBroken
<1> DEFINE Kept == serial /\ Deletes =>
             \A id \in Existing \ Existing' : ~GroupsUse(id) /\ ~Dependents(id)
<1>1. IInv /\ [Next]_vars => [Kept]_vars
  <2> SUFFICES ASSUME IInv, [Next]_vars, serial,
                      NEW d \in Call, call[d].pc \in {"erase", "undoErase"},
                      NEW id \in Existing \ Existing'
               PROVE  ~GroupsUse(id) /\ ~Dependents(id)
    BY DEF Deletes
  <2> USE DEF IInv
  <2>1. ~UNCHANGED objects
    BY DEF Existing
  <2>2. ASSUME NEW c \in Call, Begins(c)
        PROVE  call[c].pc = "idle"
    BY <2>2 DEF Begins, Begin
  <2>3. ASSUME NEW c \in Call, Change(c)
        PROVE  Existing \subseteq Existing'
    BY <2>3, ChangeKeeps
  <2>4. PICK c \in Call : Continue(c)
    BY <2>1, <2>3, ReadReads, CommandReads DEF Next, vars, Reads, BeginRead
  <2>5. c = d
    BY <2>4, StepOfOne DEF GoesOn, AloneInv, Busy
  <2>6. Erase(d) \/ UndoErase(d)
    BY <2>4, <2>5, ContinueCases
       DEF CheckGroups, CheckDependents, Erase, Depends, RefreshSceneData,
           MakeEffect, MakeElement, AllMade, UndoCheck, UndoErase, Derive,
           CreateSceneInternal, UpdateSceneInternal, ResetsOne, ResetManager,
           ResetDefaultState, ResetDone, Answer
  <2>7. AskedOK(call[d])
    BY DEF AskedInv
  <2>8. CASE Erase(d)
    <3>1. Existing \ {call[d].id} \subseteq Existing'
      BY <2>8, CallHere, DropStep DEF Erase, CallOK, TypeInv
    <3> QED
      BY <2>7, <2>8, <3>1 DEF AskedOK, Erase
  <2>9. CASE UndoErase(d)
    <3> DEFINE x == Head(call[d].made)
    <3>1. /\ KindOf(x) \in {"transitionEffect", "pulseEffect", "sceneElement"}
          /\ x \in Ids[KindOf(x)] /\ x = call[d].made[1]
      BY <2>9, UndoHere DEF UndoErase
    <3>2. Drop(KindOf(x), {x})
      BY <2>9 DEF UndoErase
    <3>3. ~Dependents(x)
      BY <2>7, <2>9, <3>1 DEF AskedOK, UndoErase
    <3> HIDE DEF x
    <3>4. ~GroupsUse(x)
      BY <3>1, OnlyGroups, KindFacts
    <3>5. Existing \ {x} \subseteq Existing'
      BY <3>1, <3>2, DropStep, KindFacts DEF TypeInv
    <3> QED
      BY <3>3, <3>4, <3>5
  <2> QED
    BY <2>6, <2>8, <2>9
<1> QED
  BY <1>1, IInvAlways, PTL DEF Spec, NoReferenceBroken
=============================================================================
