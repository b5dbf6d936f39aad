-------------------------- MODULE LampCallsProofs --------------------------
(***************************************************************************)
(* For any commands, lamps and bounds: the counter of a command covers     *)
(* what is still to be counted, so that a command is freed last and        *)
(* answered once, with what became of its lamp calls.                      *)
(***************************************************************************)
EXTENDS LampCalls, FiniteSetTheorems, TLAPS

-----------------------------------------------------------------------------
(* Sets of targets.                                                        *)

LEMMA TargetFinite == IsFiniteSet(Target)
<1>1. IsFiniteSet(1..MaxElements)
  BY LampCallsAssumption, FS_Interval
<1> QED
  BY <1>1, LampCallsAssumption, FS_Product DEF Target

LEMMA TargetsCounted ==
  ASSUME NEW S \in SUBSET Target
  PROVE  IsFiniteSet(S) /\ Cardinality(S) \in Nat
BY TargetFinite, FS_Subset, FS_CardinalityType

LEMMA TargetAdded ==
  ASSUME NEW S \in SUBSET Target, NEW t
  PROVE  Cardinality(S \cup {t}) <= Cardinality(S) + 1
<1>1. IsFiniteSet(S) /\ Cardinality(S) \in Nat
  BY TargetsCounted
<1>2. Cardinality(S \cup {t}) = IF t \in S THEN Cardinality(S)
                                          ELSE Cardinality(S) + 1
  BY <1>1, FS_AddElement
<1> QED
  BY <1>1, <1>2

LEMMA TargetRemoved ==
  ASSUME NEW S \in SUBSET Target, NEW t \in S
  PROVE  Cardinality(S \ {t}) = Cardinality(S) - 1
<1>1. IsFiniteSet(S)
  BY TargetsCounted
<1> QED
  BY <1>1, FS_RemoveElement

LEMMA NoTargets ==
  /\ Cardinality({}) = 0
  /\ \A S \in SUBSET Target : Cardinality(S) = 0 => S = {}
BY TargetsCounted, FS_EmptySet

\* An all-lamps command goes to as many targets as there are lamps.
LEMMA AllLampsCounted ==
  ASSUME NEW S \in SUBSET Lamp
  PROVE  /\ {1} \X S \subseteq Target
         /\ Cardinality(S) \in Nat
         /\ Cardinality({1} \X S) = Cardinality(S)
<1>1. IsFiniteSet(S) /\ Cardinality(S) \in Nat
  BY LampCallsAssumption, FS_Subset, FS_CardinalityType
<1>2. IsFiniteSet({1}) /\ Cardinality({1}) = 1
  BY FS_Singleton
<1>3. Cardinality({1} \X S) = 1 * Cardinality(S)
  BY <1>1, <1>2, FS_Product
<1>4. 1 \in 1..MaxElements
  BY LampCallsAssumption
<1> QED
  BY <1>1, <1>3, <1>4 DEF Target

LEMMA TargetsOfCommand == \A els : Targets(els) \in SUBSET Target
BY DEF Targets

-----------------------------------------------------------------------------
(* The inductive invariant.                                                *)

Open(c) == {t \in Target : <<c, t>> \in contexts}

\* What is still to be counted for a command: its calls without a reply, and
\* what the thread has not come to or has not counted yet.
Due(c) ==
  IF c = current THEN Cardinality(Open(c)) + Cardinality(todo) + notFound + failures
                 ELSE Cardinality(Open(c))

Shapes ==
  /\ stage = [c \in Call |-> stage[c]] /\ request = [c \in Call |-> request[c]]
  /\ counter \in [Call -> Nat] /\ responseMap \in [Call -> Counter]
  /\ answers \in [Call -> Seq(Answer)]
  /\ methodQueue \subseteq Call /\ taken \subseteq Call /\ freed \subseteq Call
  /\ current \in Call \cup {None} /\ todo \subseteq Target
  /\ notFound \in Nat /\ failures \in Nat
  /\ activeLamps \subseteq Lamp /\ contexts \subseteq Call \X Target

\* The thread works on one command at a time.
Loop ==
  /\ pc = "send" <=> current # None
  /\ pc # "send" => todo = {} /\ notFound = 0 /\ failures = 0

\* A command that has not reached the thread has nothing under way.
Untouched(c) ==
  /\ c \notin freed /\ c # current /\ Open(c) = {}

\* Where a command is: in one place at a time, and registered and answered
\* only after it was pushed.
Placed(c) ==
  /\ stage[c] \in {"new", "queueing"} =>
       Untouched(c) /\ c \notin methodQueue \cup taken
  /\ c \in methodQueue => Untouched(c) /\ c \notin taken
  /\ c \in taken => Untouched(c)
  /\ responseMap[c].listed => stage[c] = "done"
  /\ answers[c] # <<>> => stage[c] = "done" /\ ~responseMap[c].listed
  /\ Len(answers[c]) <= 1

\* A counter is as large as what is still to be counted, before it is entered
\* in the response map and afterwards.
Covered(c) ==
  /\ counter[c] >= Due(c)
  /\ counter[c] >= Cardinality(Targets(request[c].elements))
  /\ LET e == responseMap[c] IN e.listed =>
       /\ e.numWaiting = e.total - e.successCount - e.failCount - e.notFoundCount
       /\ e.numWaiting >= Due(c)
       /\ c \in methodQueue \cup taken => e.numWaiting >= counter[c]

FreedDone(c) == c \in freed => Due(c) = 0

CallInv(c) == Placed(c) /\ Covered(c) /\ FreedDone(c)

CallsInv == Shapes /\ Loop /\ \A c \in Call : CallInv(c)

LEMMA DueCounted ==
  ASSUME Shapes, NEW c \in Call
  PROVE  /\ Due(c) \in Nat
         /\ Open(c) \in SUBSET Target /\ Cardinality(Open(c)) \in Nat
         /\ Cardinality(todo) \in Nat
<1>1. Open(c) \in SUBSET Target /\ todo \in SUBSET Target
  BY DEF Open, Shapes
<1>2. Cardinality(Open(c)) \in Nat /\ Cardinality(todo) \in Nat
  BY <1>1, TargetsCounted
<1> QED
  BY <1>1, <1>2 DEF Due, Shapes

\* A command of which an action changes nothing.
LEMMA CallKept ==
  ASSUME NEW c \in Call, CallInv(c),
         UNCHANGED <<stage[c], request[c], counter[c], responseMap[c],
                     answers[c]>>,
         c \in methodQueue' => c \in methodQueue,
         c \in taken' => c \in taken,
         c \in freed' => c \in freed,
         c \in {current, current'} => UNCHANGED <<current, todo, notFound, failures>>,
         UNCHANGED Open(c)
  PROVE  CallInv(c)'
<1>1. Due(c)' = Due(c)
  BY DEF Due
<1>2. (c # current)' => c # current
  OBVIOUS
<1>3. c # current => (c # current)'
  OBVIOUS
<1>4. Untouched(c) => Untouched(c)'
  BY <1>3 DEF Untouched
<1>5. Placed(c)'
  BY <1>4 DEF CallInv, Placed
<1>6. Covered(c)'
  BY <1>1 DEF CallInv, Covered, Targets
<1> QED
  BY <1>1, <1>5, <1>6 DEF CallInv, FreedDone

-----------------------------------------------------------------------------
(* The client's callback.                                                  *)

\* Whatever a client asks for is submitted, refused or forgotten.
LEMMA MethodCallEffect ==
  ASSUME NEW c \in Call, MethodCall(c)
  PROVE  /\ stage[c] = "new"
         /\ UNCHANGED <<queueVars, pc, wakeUp, passVars, roleVars, contexts, fate>>
         /\ \/ \E els, all, replyFunc : Submit(c, els, all, replyFunc)
            \/ \E code \in Answer : Refuse(c, code)
            \/ Forget(c)
<1> DEFINE Effect == \/ \E els, all, replyFunc : Submit(c, els, all, replyFunc)
                     \/ \E code \in Answer : Refuse(c, code)
                     \/ Forget(c)
<1>1. "NOT_FOUND" \in Answer /\ "INVALID" \in Answer
  BY DEF Answer
<1>2. ASSUME NEW l, NEW replyFunc, One(c, l, replyFunc)
      PROVE  Effect
  BY <1>2 DEF One
<1>3. ASSUME NEW comps, NEW all, NEW groups,
             ChangeLampStateAndField(c, comps, all, groups)
      PROVE  Effect
  BY <1>1, <1>3 DEF ChangeLampStateAndField
<1>4. ASSUME NEW l, QueryLampState(c, l) \/ QueryLamp(c, l)
      PROVE  Effect
  <2> HIDE DEF Effect
  <2> QED
    BY <1>2, <1>4 DEF QueryLampState, QueryLamp, GetLampFaults, ClearLampFault,
         GetLampVersion, GetLampSupportedLanguages, GetLampManufacturer,
         GetLampName, SetLampName, GetLampDetails, GetLampParameters,
         GetLampState, GetLampParametersField, GetLampStateField
<1>5. ASSUME NEW l, ChangeLamp(c, l)
      PROVE  Effect
  <2>1. CASE Refuse(c, "INVALID")
    BY <1>1, <2>1
  <2>2. CASE GetLampDataSet(c, l)
    BY <2>2 DEF GetLampDataSet
  <2>3. CASE \E comps, all, groups : ChangeLampStateAndField(c, comps, all, groups)
    BY <1>3, <2>3
  <2> HIDE DEF Effect
  <2> QED
    BY <1>5, <2>1, <2>2, <2>3 DEF ChangeLamp, TransitionLampStateToPreset,
         TransitionLampStateField, ResetLampState, ResetLampStateField,
         TransitionLampState, PulseLampWithState, PulseLampWithPreset
<1>6. ASSUME ChangeLampGroupStateAndField(c)
      PROVE  Effect
  <2> HIDE DEF Effect
  <2> QED
    BY <1>3, <1>6 DEF ChangeLampGroupStateAndField
<1> QED
  <2> HIDE DEF Effect
  <2>1. Effect
    BY <1>4, <1>5, <1>6 DEF MethodCall
  <2>2. stage[c] = "new" /\ UNCHANGED <<queueVars, pc, wakeUp, passVars, roleVars,
                                        contexts, fate>>
    BY DEF MethodCall
  <2> QED
    BY <2>1, <2>2 DEF Effect

\* An answer that needs no lamp goes to a command that has none.
LEMMA Refused ==
  ASSUME Shapes, NEW c \in Call, CallInv(c), stage[c] \in {"new", "queueing"},
         NEW code \in Answer, Refuse(c, code),
         UNCHANGED <<queueVars, passVars, contexts>>
  PROVE  Shapes' /\ CallInv(c)'
<1>1. /\ stage' = [d \in Call |-> IF d = c THEN "done" ELSE stage[d]]
      /\ UNCHANGED <<request, counter, freed>>
  BY DEF Refuse, Shapes
<1>2. answers[c] = <<>> /\ ~responseMap[c].listed /\ Untouched(c)
      /\ c \notin methodQueue \cup taken
  BY DEF CallInv, Placed
<1>3. answers' = [answers EXCEPT ![c] = <<code>>]
  BY <1>2 DEF Refuse
<1>4. answers' \in [Call -> Seq(Answer)] /\ Len(answers'[c]) = 1
  BY <1>3 DEF Shapes
<1>5. Shapes'
  BY <1>1, <1>4 DEF Shapes, queueVars, passVars
<1>6. Untouched(c)' /\ Due(c)' = Due(c)
  BY <1>1, <1>2 DEF Untouched, Open, Due, passVars
<1>7. Placed(c)'
  BY <1>1, <1>2, <1>4, <1>6 DEF Placed, queueVars, passVars
<1>8. Covered(c)' /\ FreedDone(c)'
  BY <1>1, <1>6 DEF CallInv, Covered, FreedDone, Targets, queueVars, passVars
<1> QED
  BY <1>5, <1>7, <1>8 DEF CallInv

LEMMA Others ==
  ASSUME CallsInv, NEW c \in Call, NEW d \in Call, d # c,
         UNCHANGED <<stage[d], request[d], counter[d], responseMap[d], answers[d]>>,
         d \in methodQueue' => d \in methodQueue,
         d \in freed' => d \in freed,
         UNCHANGED <<passVars, contexts>>
  PROVE  CallInv(d)'
<1>1. CallInv(d) /\ UNCHANGED Open(d)
  BY DEF CallsInv, Open
<1> QED
  BY <1>1, CallKept DEF passVars

LEMMA MethodCallKeeps ==
  ASSUME CallsInv, NEW c \in Call, MethodCall(c)
  PROVE  CallsInv'
<1>1. stage[c] = "new" /\ UNCHANGED <<queueVars, pc, passVars, contexts>>
  BY MethodCallEffect
<1>2. Shapes /\ CallInv(c)
  BY DEF CallsInv
<1>3. Loop'
  BY <1>1 DEF CallsInv, Loop, passVars
<1>4. CASE \E els, all, replyFunc : Submit(c, els, all, replyFunc) /\ connectToLamps
  <2>1. PICK els, all, replyFunc : Submit(c, els, all, replyFunc)
    BY <1>4
  <2> DEFINE req == [elements |-> els, allLamps |-> all, replyFunc |-> replyFunc]
  <2>2. /\ stage' = [stage EXCEPT ![c] = "queueing"]
        /\ counter' = [counter EXCEPT ![c] = Cardinality(Targets(els))]
        /\ request' = [request EXCEPT ![c] = req]
        /\ UNCHANGED <<answers, freed>>
    BY <1>4, <2>1 DEF Submit
  <2>3. Cardinality(Targets(els)) \in Nat
    BY TargetsOfCommand, TargetsCounted
  <2>4. /\ stage'[c] = "queueing" /\ request'[c].elements = els
        /\ counter'[c] = Cardinality(Targets(els))
    BY <1>2, <2>2 DEF Shapes
  <2>5. Shapes'
    BY <1>1, <1>2, <2>2, <2>3 DEF Shapes, queueVars, passVars
  <2>6. Untouched(c) /\ c \notin methodQueue \cup taken /\ answers[c] = <<>>
        /\ ~responseMap[c].listed
    BY <1>1, <1>2 DEF CallInv, Placed
  <2>7. Untouched(c)' /\ Due(c)' = 0
    BY <1>1, <2>2, <2>6, NoTargets DEF Untouched, Open, Due, passVars
  <2>8. Placed(c)'
    BY <1>1, <2>2, <2>4, <2>6, <2>7 DEF Placed, queueVars, passVars
  <2>9. Covered(c)'
    BY <1>1, <2>3, <2>4, <2>6, <2>7 DEF Covered, queueVars, Targets
  <2>10. CallInv(c)'
    BY <2>7, <2>8, <2>9 DEF CallInv, FreedDone
  <2>11. ASSUME NEW d \in Call, d # c PROVE CallInv(d)'
    BY <1>1, <1>2, <2>2, <2>11, Others DEF queueVars, Shapes
  <2> QED
    BY <1>3, <2>5, <2>10, <2>11 DEF CallsInv
<1>5. CASE \E code \in Answer : Refuse(c, code)
  <2>1. Shapes' /\ CallInv(c)'
    BY <1>1, <1>2, <1>5, Refused
  <2>2. ASSUME NEW d \in Call, d # c PROVE CallInv(d)'
    BY <1>1, <1>2, <1>5, <2>2, Others DEF Refuse, queueVars, Shapes
  <2> QED
    BY <1>3, <2>1, <2>2 DEF CallsInv
<1>6. CASE Forget(c)
  <2>1. stage' = [stage EXCEPT ![c] = "done"]
        /\ UNCHANGED <<request, counter, answers, freed>>
    BY <1>6 DEF Forget
  <2>2. Shapes'
    BY <1>1, <1>2, <2>1 DEF Shapes, queueVars, passVars
  <2>3. Placed(c)'
    BY <1>1, <1>2, <2>1 DEF CallInv, Placed, Untouched, Open, queueVars, passVars, Shapes
  <2>4. Due(c)' = Due(c)
    BY <1>1 DEF Due, Open, passVars
  <2>5. Covered(c)' /\ FreedDone(c)'
    BY <1>1, <1>2, <2>1, <2>4 DEF CallInv, Covered, FreedDone, Targets, queueVars,
         passVars
  <2>6. ASSUME NEW d \in Call, d # c PROVE CallInv(d)'
    BY <1>1, <1>2, <2>1, <2>6, Others DEF queueVars, Shapes
  <2> QED
    BY <1>3, <2>2, <2>3, <2>5, <2>6 DEF CallsInv, CallInv
<1>7. "REJECTED" \in Answer
  BY DEF Answer
<1> QED
  BY <1>4, <1>5, <1>6, <1>7, MethodCallEffect DEF Submit

LEMMA PushKeeps ==
  ASSUME CallsInv, NEW c \in Call, Push(c)
  PROVE  CallsInv'
<1>1. stage[c] = "queueing" /\ UNCHANGED <<responseMap, pc, passVars, contexts>>
  BY DEF Push
<1>2. Shapes /\ CallInv(c)
  BY DEF CallsInv
<1>3. Loop'
  BY <1>1 DEF CallsInv, Loop, passVars
<1>4. CASE /\ methodQueue' = methodQueue \cup {c}
           /\ stage' = [stage EXCEPT ![c] = "pushed"]
           /\ UNCHANGED <<request, counter, freed, answers>>
  <2>1. Shapes'
    BY <1>1, <1>2, <1>4 DEF Shapes, passVars
  <2>2. Untouched(c)' /\ Due(c)' = Due(c)
    BY <1>1, <1>2, <1>4 DEF CallInv, Placed, Untouched, Open, Due, passVars
  <2>3. Placed(c)'
    BY <1>1, <1>2, <1>4, <2>2 DEF CallInv, Placed, passVars, Shapes
  <2>4. Covered(c)' /\ FreedDone(c)'
    BY <1>1, <1>2, <1>4, <2>2 DEF CallInv, Placed, Covered, FreedDone, Targets, passVars
  <2>5. ASSUME NEW d \in Call, d # c PROVE CallInv(d)'
    BY <1>1, <1>2, <1>4, <2>5, Others DEF Shapes
  <2> QED
    BY <1>3, <2>1, <2>3, <2>4, <2>5 DEF CallsInv, CallInv
<1>5. CASE Refuse(c, "NO_SLOT") /\ UNCHANGED methodQueue
  <2>1. "NO_SLOT" \in Answer /\ UNCHANGED queueVars
    BY <1>5 DEF Answer, Push, queueVars
  <2>2. Shapes' /\ CallInv(c)'
    BY <1>1, <1>2, <1>5, <2>1, Refused
  <2>3. ASSUME NEW d \in Call, d # c PROVE CallInv(d)'
    BY <1>1, <1>2, <1>5, <2>3, Others DEF Refuse, Shapes
  <2> QED
    BY <1>3, <2>2, <2>3 DEF CallsInv
<1> QED
  BY <1>4, <1>5 DEF Push

LEMMA NewCounterType ==
  ASSUME NEW n \in Nat
  PROVE  LET e == NewCounter(n) IN
         /\ e \in Counter /\ e.listed /\ e.total = n /\ e.numWaiting = n
         /\ e.successCount = 0 /\ e.failCount = 0 /\ e.notFoundCount = 0
BY DEF NewCounter, Counter

LEMMA RegisterKeeps ==
  ASSUME CallsInv, NEW c \in Call, Register(c)
  PROVE  CallsInv'
<1>1. stage[c] = "pushed" /\ stage' = [stage EXCEPT ![c] = "done"]
      /\ UNCHANGED <<request, counter, methodQueue, pc, passVars, contexts,
                     freed, answers>>
  BY DEF Register, historyVars
<1>2. Shapes /\ CallInv(c) /\ counter[c] \in Nat
  BY DEF CallsInv, Shapes
<1>3. NewCounter(counter[c]) \in Counter
  BY <1>2, NewCounterType
<1>4. CASE responseMap' = [responseMap EXCEPT ![c] = NewCounter(counter[c])]
  <2>1. Shapes' /\ responseMap'[c] = NewCounter(counter[c])
    BY <1>1, <1>2, <1>3, <1>4 DEF Shapes, passVars
  <2>2. answers[c] = <<>> /\ Due(c)' = Due(c)
    BY <1>1, <1>2 DEF CallInv, Placed, Due, Open, passVars
  <2>3. Placed(c)'
    BY <1>1, <1>2, <2>1, <2>2
       DEF CallInv, Placed, Untouched, Open, passVars, Shapes
  <2>4. Covered(c)'
    BY <1>1, <1>2, <2>1, <2>2, NewCounterType DEF CallInv, Covered, Targets
  <2>5. FreedDone(c)'
    BY <1>1, <1>2, <2>2 DEF CallInv, FreedDone
  <2>6. ASSUME NEW d \in Call, d # c PROVE CallInv(d)'
    BY <1>1, <1>2, <1>4, <2>6, Others DEF Shapes
  <2> QED
    BY <1>1, <2>1, <2>3, <2>4, <2>5, <2>6 DEF CallsInv, CallInv, Loop, passVars
<1>5. CASE UNCHANGED responseMap
  <2>1. Shapes' /\ stage'[c] = "done"
    BY <1>1, <1>2, <1>5 DEF Shapes, passVars
  <2>2. Due(c)' = Due(c)
    BY <1>1 DEF Due, Open, passVars
  <2>3. Placed(c)'
    BY <1>1, <1>2, <1>5, <2>1 DEF CallInv, Placed, Untouched, Open, passVars
  <2>4. Covered(c)' /\ FreedDone(c)'
    BY <1>1, <1>2, <1>5, <2>2 DEF CallInv, Covered, FreedDone, Targets, passVars
  <2>5. ASSUME NEW d \in Call, d # c PROVE CallInv(d)'
    BY <1>1, <1>2, <1>5, <2>5, Others DEF Shapes
  <2> QED
    BY <1>1, <2>1, <2>3, <2>4, <2>5 DEF CallsInv, CallInv, Loop, passVars
<1> QED
  BY <1>4, <1>5 DEF Register

-----------------------------------------------------------------------------
(* Counting.                                                               *)

\* Only the numbers of c have changed: they cover due, and the command is only
\* answered and freed when nothing is due.
CountedTo(c, due) ==
  /\ responseMap' \in [Call -> Counter] /\ answers' \in [Call -> Seq(Answer)]
  /\ \A d \in Call \ {c} :
       /\ responseMap'[d] = responseMap[d] /\ answers'[d] = answers[d]
       /\ d \in freed' => d \in freed
  /\ responseMap'[c].listed =>
       LET e == responseMap'[c] IN
       /\ responseMap[c].listed
       /\ e.numWaiting = e.total - e.successCount - e.failCount - e.notFoundCount
       /\ e.numWaiting >= due
  /\ answers'[c] # <<>> => stage[c] = "done" /\ ~responseMap'[c].listed
  /\ Len(answers'[c]) <= 1
  /\ c \in freed' => c \in freed \/ due = 0
  /\ freed' \subseteq freed \cup {c}

\* What is counted is taken from what is due; the last one to count leaves
\* nothing due, answers, and frees the command.
LEMMA Decremented ==
  ASSUME Shapes, NEW c \in Call, Placed(c), Covered(c),
         NEW success \in Nat, NEW failure \in Nat, NEW nf \in Nat,
         NEW due \in Nat, due + success + failure + nf <= Due(c),
         DecrementWaitingAndSendResponse(c, success, failure, nf)
  PROVE  CountedTo(c, due)
<1> DEFINE e == Counted(responseMap[c], success, failure, nf)
<1>1. CASE ~responseMap[c].listed
  <2>1. UNCHANGED <<responseMap, answers, freed>>
    BY <1>1 DEF DecrementWaitingAndSendResponse
  <2> QED
    BY <1>1, <2>1 DEF Shapes, Placed, CountedTo
<1>2. CASE responseMap[c].listed
  <2>1. /\ responseMap[c] \in Counter /\ responseMap[c].total \in Nat
        /\ stage[c] = "done" /\ answers[c] = <<>>
    BY <1>2 DEF Placed, Shapes, Counter
  <2> DEFINE r == responseMap[c]
  <2>2. /\ e \in Counter /\ e.total = r.total
        /\ e.successCount = r.successCount + success
        /\ e.failCount = r.failCount + failure
        /\ e.notFoundCount = r.notFoundCount + nf
        /\ e.numWaiting = r.numWaiting - (success + failure + nf)
    <3>1. responseMap[c] \in Counter
      BY <2>1
    <3> QED
      BY <3>1 DEF Counted, Counter
  <2>3. /\ e.listed
        /\ e.numWaiting = e.total - e.successCount - e.failCount - e.notFoundCount
        /\ e.numWaiting = responseMap[c].numWaiting - (success + failure + nf)
    <3>1. /\ r.numWaiting = r.total - r.successCount - r.failCount - r.notFoundCount
          /\ r.numWaiting \in Int /\ r.successCount \in Nat
          /\ r.failCount \in Nat /\ r.notFoundCount \in Nat
      BY <1>2, <2>1 DEF Covered, Counter
    <3>2. e.listed
      BY <1>2 DEF Counted
    <3>3. e.total \in Nat
      BY <2>1, <2>2
    <3> HIDE DEF e, r
    <3> QED
      BY <2>2, <3>1, <3>2, <3>3 DEF r
  <2>4. e.numWaiting \in Int /\ e.numWaiting >= due
    <3>1. responseMap[c].numWaiting \in Int /\ Due(c) \in Nat
      BY <2>1, DueCounted DEF Counter
    <3>2. responseMap[c].numWaiting >= Due(c)
      BY <1>2 DEF Covered
    <3> QED
      BY <2>3, <3>1, <3>2
  <2> HIDE DEF e
  <2>5. CASE e.numWaiting # 0
    <3>1. responseMap' = [responseMap EXCEPT ![c] = e] /\ UNCHANGED <<answers, freed>>
      BY <1>2, <2>5 DEF DecrementWaitingAndSendResponse, e
    <3> QED
      BY <1>2, <2>1, <2>2, <2>3, <2>4, <3>1 DEF Shapes, CountedTo
  <2>6. CASE e.numWaiting = 0
    <3>1. /\ responseMap' = [responseMap EXCEPT ![c] = NoEntry]
          /\ answers' = [answers EXCEPT ![c] = <<ResponseCode(e)>>]
          /\ freed' = freed \cup {c}
      BY <1>2, <2>1, <2>6 DEF DecrementWaitingAndSendResponse, e
    <3>2. NoEntry \in Counter /\ ~NoEntry.listed /\ ResponseCode(e) \in Answer
      BY DEF NoEntry, Counter, ResponseCode, Answer
    <3>3. due = 0
      BY <2>4, <2>6
    <3> QED
      BY <2>1, <3>1, <3>2, <3>3 DEF Shapes, CountedTo
  <2> QED
    BY <2>4, <2>5, <2>6
<1> QED
  BY <1>1, <1>2

LEMMA HandleReplyKeeps ==
  ASSUME CallsInv, NEW c \in Call, NEW t \in Target, NEW result \in Result,
         HandleReply(c, t, result)
  PROVE  CallsInv'
<1>1. /\ <<c, t>> \in contexts /\ contexts' = contexts \ {<<c, t>>}
      /\ UNCHANGED <<stage, request, counter, methodQueue, pc, passVars>>
  BY DEF HandleReply, clientVars
<1>2. Shapes /\ CallInv(c)
  BY DEF CallsInv
<1>3. t \in Open(c) /\ Open(c)' = Open(c) \ {t} /\ Open(c) \in SUBSET Target
  BY <1>1 DEF Open
<1>4. Due(c)' \in Nat /\ Due(c) \in Nat /\ Due(c)' + 1 = Due(c)
  <2> DEFINE n == Cardinality(Open(c))
             k == Cardinality(Open(c) \ {t})
             rest == Cardinality(todo) + notFound + failures
  <2>1. n \in Nat /\ k \in Nat /\ k + 1 = n
    BY <1>3, TargetRemoved, TargetsCounted
  <2>2. rest \in Nat
    BY <1>2, DueCounted DEF Shapes
  <2>3. Due(c) = IF c = current THEN n + rest ELSE n
    BY <1>2, <2>1, DueCounted DEF Due, Shapes
  <2>4. Due(c)' = IF c = current THEN k + rest ELSE k
    BY <1>1, <1>2, <1>3, <2>1, DueCounted DEF Due, Shapes, passVars
  <2> HIDE DEF n, k, rest
  <2> QED
    BY <2>1, <2>2, <2>3, <2>4
<1>5. Placed(c) /\ Covered(c) /\ c \notin freed /\ ~Untouched(c)
      /\ stage[c] \notin {"new", "queueing"}
      /\ c \notin methodQueue \cup taken
  BY <1>2, <1>3, <1>4 DEF CallInv, FreedDone, Placed, Untouched
<1>6. CountedTo(c, Due(c)')
  <2>1. CASE result = "ok" /\ DecrementWaitingAndSendResponse(c, 1, 0, 0)
    <3>1. Due(c)' + 1 + 0 + 0 <= Due(c)
      BY <1>4
    <3> QED
      BY <1>2, <1>4, <1>5, <2>1, <3>1, Decremented
  <2>2. CASE result = "failed" /\ DecrementWaitingAndSendResponse(c, 0, 1, 0)
    <3>1. Due(c)' + 0 + 1 + 0 <= Due(c)
      BY <1>4
    <3> QED
      BY <1>2, <1>4, <1>5, <2>2, <3>1, Decremented
  <2>3. CASE UNCHANGED <<responseMap, answers, freed>>
    <3>1. responseMap[c].numWaiting \in Int
      BY <1>2 DEF Shapes, Counter
    <3> QED
      BY <1>2, <1>4, <1>5, <2>3, <3>1 DEF Shapes, Placed, Covered, CountedTo
  <2> QED
    BY <2>1, <2>2, <2>3 DEF HandleReply, Result
<1>7. Shapes'
  BY <1>1, <1>2, <1>6 DEF Shapes, passVars, CountedTo
<1>8. Placed(c)'
  BY <1>1, <1>5, <1>6 DEF Placed, CountedTo, passVars
<1>9. Covered(c)'
  BY <1>1, <1>2, <1>4, <1>5, <1>6 DEF Covered, CountedTo, Targets, Shapes, passVars
<1>10. FreedDone(c)'
  BY <1>5, <1>6 DEF FreedDone, CountedTo
<1>11. ASSUME NEW d \in Call, d # c PROVE CallInv(d)'
  <2>1. CallInv(d) /\ UNCHANGED Open(d)
    BY <1>1, <1>11 DEF CallsInv, Open
  <2> QED
    BY <1>1, <1>6, <1>11, <2>1, CallKept DEF CountedTo, passVars
<1> QED
  BY <1>1, <1>7, <1>8, <1>9, <1>10, <1>11 DEF CallsInv, CallInv, Loop, passVars

-----------------------------------------------------------------------------
(* The thread.                                                             *)

\* An action that leaves the commands and what the thread does for them alone.
LEMMA Idling ==
  ASSUME CallsInv, activeLamps' \subseteq Lamp, (pc = "send") <=> (pc' = "send"),
         UNCHANGED <<clientVars, methodQueue, responseMap, taken, current, todo,
                     notFound, failures, contexts, freed, answers>>
  PROVE  CallsInv'
<1>1. Shapes' /\ Loop'
  BY DEF CallsInv, Shapes, Loop, clientVars
<1>2. ASSUME NEW c \in Call PROVE CallInv(c)'
  BY CallKept DEF CallsInv, Open, clientVars
<1> QED
  BY <1>1, <1>2 DEF CallsInv

LEMMA TakeQueueKeeps ==
  ASSUME CallsInv, TakeQueue
  PROVE  CallsInv'
<1>1. /\ taken' = methodQueue /\ methodQueue' = {}
      /\ pc = "take" /\ pc' = "calls"
      /\ UNCHANGED <<clientVars, responseMap, current, todo, notFound, failures,
                     activeLamps, contexts, freed, answers>>
  BY DEF TakeQueue, historyVars
<1>2. Shapes' /\ Loop'
  BY <1>1 DEF CallsInv, Shapes, Loop, clientVars
<1>3. ASSUME NEW c \in Call PROVE CallInv(c)'
  <2>1. CallInv(c) /\ Due(c)' = Due(c) /\ (Untouched(c) => Untouched(c)')
    BY <1>1 DEF CallsInv, Due, Open, Untouched
  <2>2. Placed(c)'
    BY <1>1, <2>1 DEF CallInv, Placed, clientVars
  <2>3. Covered(c)' /\ FreedDone(c)'
    BY <1>1, <2>1 DEF CallInv, Covered, FreedDone, Targets, clientVars
  <2> QED
    BY <2>2, <2>3 DEF CallInv
<1> QED
  BY <1>2, <1>3 DEF CallsInv

LEMMA StartCallKeeps ==
  ASSUME CallsInv, NEW c \in Call, StartCall(c)
  PROVE  CallsInv'
<1>1. /\ pc = "calls" /\ pc' = "send" /\ c \in taken /\ taken' = taken \ {c}
      /\ current' = c /\ todo' = Aimed(c) /\ notFound' = 0 /\ failures' = 0
      /\ UNCHANGED <<stage, request, methodQueue, activeLamps, contexts, freed,
                     answers>>
  BY DEF StartCall, historyVars
<1>2. Shapes /\ CallInv(c) /\ current = None
  BY <1>1 DEF CallsInv, Loop
<1>3. /\ Untouched(c) /\ c \notin methodQueue /\ Due(c) = 0
      /\ counter[c] \in Nat /\ responseMap[c] \in Counter
  BY <1>1, <1>2, NoTargets DEF CallInv, Placed, Untouched, Due, Shapes
<1> DEFINE aims == Cardinality(Aimed(c))
           ask  == Cardinality(Targets(request[c].elements))
           all  == Cardinality(activeLamps)
<1>4. /\ Aimed(c) \in SUBSET Target /\ aims \in Nat /\ ask \in Nat /\ all \in Nat
      /\ request[c].allLamps => aims = all
      /\ ~request[c].allLamps => aims = ask
  BY <1>2, AllLampsCounted, TargetsOfCommand, TargetsCounted DEF Aimed, Shapes
<1>5. counter[c] >= ask
  BY <1>2 DEF CallInv, Covered
<1>6. Due(c)' = aims
  BY <1>1, <1>3, <1>4, NoTargets DEF Due, Open, Untouched
<1> HIDE DEF aims, ask, all
<1>7. /\ counter' \in [Call -> Nat] /\ responseMap' \in [Call -> Counter]
      /\ counter'[c] >= aims /\ counter'[c] >= ask
      /\ responseMap'[c].listed =>
           LET e == responseMap'[c] IN
           /\ responseMap[c].listed
           /\ e.numWaiting = e.total - e.successCount - e.failCount
                                     - e.notFoundCount
           /\ e.numWaiting >= aims
      /\ \A d \in Call \ {c} : /\ counter'[d] = counter[d]
                              /\ responseMap'[d] = responseMap[d]
  <2>1. CASE request[c].allLamps
    <3>1. counter' = [counter EXCEPT ![c] = @ + all]
      BY <2>1 DEF StartCall, all
    <3>2. counter' \in [Call -> Nat] /\ counter'[c] = counter[c] + all
          /\ \A d \in Call \ {c} : counter'[d] = counter[d]
      BY <1>2, <1>3, <1>4, <3>1 DEF Shapes
    <3>3. counter'[c] >= aims /\ counter'[c] >= ask /\ counter'[c] \in Nat
      BY <1>3, <1>4, <1>5, <2>1, <3>2
    <3>4. CASE responseMap[c].listed
      <4>1. responseMap' = [responseMap EXCEPT ![c] = NewCounter(counter'[c])]
        BY <2>1, <3>4 DEF StartCall
      <4>2. LET e == NewCounter(counter'[c]) IN
            /\ e \in Counter /\ e.total = counter'[c] /\ e.numWaiting = counter'[c]
            /\ e.successCount = 0 /\ e.failCount = 0 /\ e.notFoundCount = 0
        BY <3>3, NewCounterType
      <4> QED
        BY <1>2, <3>2, <3>3, <3>4, <4>1, <4>2 DEF Shapes
    <3>5. CASE ~responseMap[c].listed
      BY <1>2, <2>1, <3>2, <3>3, <3>5 DEF StartCall, Shapes
    <3> QED
      BY <3>4, <3>5
  <2>2. CASE ~request[c].allLamps
    <3>1. UNCHANGED <<counter, responseMap>>
      BY <2>2 DEF StartCall
    <3>2. responseMap[c].listed =>
            LET e == responseMap[c] IN
            /\ e.numWaiting = e.total - e.successCount - e.failCount
                                      - e.notFoundCount
            /\ e.numWaiting >= counter[c] /\ e.numWaiting \in Int
      BY <1>1, <1>2, <1>3 DEF CallInv, Covered, Counter
    <3> QED
      BY <1>2, <1>3, <1>4, <1>5, <2>2, <3>1, <3>2 DEF Shapes
  <2> QED
    BY <2>1, <2>2
<1>8. Shapes' /\ Loop'
  BY <1>1, <1>2, <1>4, <1>7, LampCallsAssumption DEF Shapes, Loop
<1>9. Placed(c)'
  BY <1>1, <1>2, <1>3, <1>7 DEF CallInv, Placed
<1>10. Covered(c)'
  BY <1>1, <1>3, <1>6, <1>7 DEF Covered, Targets, ask
<1>11. FreedDone(c)'
  BY <1>1, <1>3 DEF FreedDone, Untouched
<1>12. ASSUME NEW d \in Call, d # c PROVE CallInv(d)'
  BY <1>1, <1>2, <1>7, <1>12, LampCallsAssumption, CallKept DEF CallsInv, Open
<1> QED
  BY <1>8, <1>9, <1>10, <1>11, <1>12 DEF CallsInv, CallInv

\* A lamp is taken from what is to do when it is called, or noted as not found
\* or failed: what is due does not grow.
LEMMA SendToLampKeeps ==
  ASSUME CallsInv, NEW t \in Target, SendToLamp(t)
  PROVE  CallsInv'
<1>1. /\ pc = "send" /\ pc' = "send" /\ t \in todo /\ todo' = todo \ {t}
      /\ UNCHANGED <<clientVars, queueVars, taken, current, activeLamps, freed,
                     answers>>
  BY DEF SendToLamp
<1>2. Shapes /\ Loop /\ current \in Call /\ CallInv(current)
  BY <1>1 DEF CallsInv, Loop, Shapes
<1>3. PICK c \in Call : c = current
  BY <1>2
<1>4. todo \in SUBSET Target /\ Open(c) \in SUBSET Target
  BY <1>2 DEF Shapes, Open
<1> DEFINE n == Cardinality(Open(c))
           m == Cardinality(todo)
           k == Cardinality(Open(c) \cup {t})
<1>5. /\ n \in Nat /\ m \in Nat /\ k \in Nat /\ m >= 1 /\ k <= n + 1
      /\ Cardinality(todo \ {t}) = m - 1
  <2>1. n \in Nat /\ m \in Nat /\ k \in Nat /\ Cardinality(todo \ {t}) \in Nat
    BY <1>4, TargetsCounted
  <2>2. Cardinality(todo \ {t}) = m - 1
    BY <1>1, <1>4, TargetRemoved
  <2>3. k <= n + 1
    BY <1>4, TargetAdded
  <2> QED
    BY <2>1, <2>2, <2>3
<1>6. Due(c) = n + m + notFound + failures
  BY <1>3 DEF Due
<1>7. /\ notFound' \in Nat /\ failures' \in Nat
      /\ Due(c)' \in Nat /\ Due(c)' <= Due(c) /\ Due(c) > 0
      /\ contexts' \subseteq Call \X Target
      /\ \A d \in Call \ {c} : Open(d)' = Open(d)
  <2>1. notFound \in Nat /\ failures \in Nat /\ contexts \subseteq Call \X Target
    BY <1>2 DEF Shapes
  <2>2. CASE notFound' = notFound + 1 /\ UNCHANGED <<failures, contexts>>
    <3>1. Due(c)' = n + (m - 1) + (notFound + 1) + failures
      BY <1>1, <1>3, <1>5, <2>2 DEF Due, Open
    <3>2. \A d \in Call \ {c} : Open(d)' = Open(d)
      BY <2>2 DEF Open
    <3> HIDE DEF n, m, k
    <3> QED
      BY <1>5, <1>6, <2>1, <2>2, <3>1, <3>2
  <2>3. CASE failures' = failures + 1 /\ UNCHANGED <<notFound, contexts>>
    <3>1. Due(c)' = n + (m - 1) + notFound + (failures + 1)
      BY <1>1, <1>3, <1>5, <2>3 DEF Due, Open
    <3>2. \A d \in Call \ {c} : Open(d)' = Open(d)
      BY <2>3 DEF Open
    <3> HIDE DEF n, m, k
    <3> QED
      BY <1>5, <1>6, <2>1, <2>3, <3>1, <3>2
  <2>4. CASE contexts' = contexts \cup {<<current, t>>} /\ UNCHANGED <<notFound, failures>>
    <3>1. Open(c)' = Open(c) \cup {t} /\ \A d \in Call \ {c} : Open(d)' = Open(d)
      BY <1>3, <2>4 DEF Open
    <3>2. Due(c)' = k + (m - 1) + notFound + failures
      BY <1>1, <1>3, <1>5, <2>4, <3>1 DEF Due
    <3>3. contexts' \subseteq Call \X Target
      BY <1>3, <2>1, <2>4
    <3> HIDE DEF n, m, k
    <3> QED
      BY <1>5, <1>6, <2>1, <2>4, <3>1, <3>2, <3>3
  <2> QED
    BY <2>2, <2>3, <2>4 DEF SendToLamp
<1> HIDE DEF n, m, k
<1>8. CallInv(c) /\ ~Untouched(c)
  BY <1>2, <1>3 DEF Untouched
<1>9. c \notin freed
  BY <1>7, <1>8 DEF CallInv, FreedDone
<1>10. Shapes' /\ Loop'
  BY <1>1, <1>2, <1>7 DEF Shapes, Loop, clientVars, queueVars
<1>11. Placed(c)'
  BY <1>1, <1>8 DEF CallInv, Placed, clientVars, queueVars
<1>12. Covered(c)'
  <2>1. Due(c) \in Nat /\ counter[c] \in Nat /\ responseMap[c].numWaiting \in Int
    BY <1>2, DueCounted DEF Shapes, Counter
  <2>2. UNCHANGED <<request, counter, responseMap, methodQueue, taken>>
    BY <1>1 DEF clientVars, queueVars
  <2> QED
    BY <1>7, <1>8, <2>1, <2>2 DEF CallInv, Covered, Targets
<1>13. FreedDone(c)'
  BY <1>1, <1>9 DEF FreedDone
<1>14. ASSUME NEW d \in Call, d # c PROVE CallInv(d)'
  BY <1>1, <1>3, <1>7, <1>14, CallKept DEF CallsInv, clientVars, queueVars
<1> QED
  BY <1>10, <1>11, <1>12, <1>13, <1>14 DEF CallsInv, CallInv

LEMMA FinishCallKeeps ==
  ASSUME CallsInv, FinishCall
  PROVE  CallsInv'
<1>1. /\ pc = "send" /\ pc' = "calls" /\ todo = {} /\ todo' = {}
      /\ current' = None /\ notFound' = 0 /\ failures' = 0
      /\ UNCHANGED <<clientVars, methodQueue, taken, activeLamps, contexts>>
  BY DEF FinishCall
<1>2. Shapes /\ Loop /\ current \in Call /\ CallInv(current)
  BY <1>1 DEF CallsInv, Loop, Shapes
<1>3. PICK c \in Call : c = current
  BY <1>2
<1>4. CallInv(c) /\ ~Untouched(c) /\ c # current'
  BY <1>1, <1>2, <1>3, LampCallsAssumption DEF Untouched
<1> DEFINE due == Cardinality(Open(c))
<1>5. /\ due \in Nat /\ notFound \in Nat /\ failures \in Nat
      /\ Due(c) = due + notFound + failures /\ Due(c)' = due
      /\ Due(c) \in Nat
  <2>1. due \in Nat /\ Due(c) \in Nat /\ notFound \in Nat /\ failures \in Nat
    BY <1>2, DueCounted DEF Shapes
  <2>2. Due(c) = due + notFound + failures
    BY <1>1, <1>3, <2>1, NoTargets DEF Due
  <2>3. Due(c)' = due
    BY <1>1, <1>4 DEF Due, Open
  <2> QED
    BY <2>1, <2>2, <2>3
<1> HIDE DEF due
<1>6. c \in freed => due = 0
  BY <1>4, <1>5 DEF CallInv, FreedDone
<1>7. CountedTo(c, due)
  <2>1. CASE DecrementWaitingAndSendResponse(c, 0, failures, notFound)
    <3>1. PICK k \in Nat, f \in Nat, u \in Nat : k = due /\ f = failures /\ u = notFound
      BY <1>5
    <3>2. k + 0 + f + u <= Due(c)
      BY <1>5, <3>1
    <3>3. DecrementWaitingAndSendResponse(c, 0, f, u) /\ Placed(c) /\ Covered(c)
      BY <1>4, <2>1, <3>1 DEF CallInv
    <3>4. CountedTo(c, k)
      BY <1>2, <3>2, <3>3, Decremented
    <3> QED
      BY <3>1, <3>4
  <2>2. CASE UNCHANGED <<responseMap, answers, freed>>
    <3>1. responseMap[c].numWaiting \in Int
      BY <1>2 DEF Shapes, Counter
    <3>2. responseMap[c].listed => responseMap[c].numWaiting >= due
      BY <1>4, <1>5, <3>1 DEF CallInv, Covered
    <3> QED
      BY <1>2, <1>4, <2>2, <3>2 DEF Shapes, CallInv, Placed, Covered, CountedTo
  <2> QED
    BY <1>3, <2>1, <2>2 DEF FinishCall, CountUnsent
<1>8. Shapes' /\ Loop'
  BY <1>1, <1>2, <1>7 DEF Shapes, Loop, clientVars, CountedTo
<1>9. Placed(c)'
  BY <1>1, <1>4, <1>7 DEF CallInv, Placed, CountedTo, clientVars
<1>10. Covered(c)'
  <2>1. counter[c] \in Nat
    BY <1>2 DEF Shapes
  <2>2. c \notin methodQueue \cup taken
    BY <1>4 DEF CallInv, Placed
  <2>3. counter[c] >= due /\ counter[c] >= Cardinality(Targets(request[c].elements))
    BY <1>4, <1>5, <2>1 DEF CallInv, Covered
  <2> QED
    BY <1>1, <1>5, <1>7, <2>2, <2>3 DEF Covered, CountedTo, Targets, clientVars
<1>11. FreedDone(c)'
  BY <1>5, <1>6, <1>7 DEF FreedDone, CountedTo
<1>12. ASSUME NEW d \in Call, d # c PROVE CallInv(d)'
  <2>1. CallInv(d) /\ UNCHANGED Open(d) /\ d # current'
    BY <1>1, <1>12, LampCallsAssumption DEF CallsInv, Open
  <2> QED
    BY <1>1, <1>3, <1>7, <1>12, <2>1, CallKept DEF CountedTo, clientVars
<1> QED
  BY <1>8, <1>9, <1>10, <1>11, <1>12 DEF CallsInv, CallInv

\* What the cleanup frees has not reached the thread.
LEMMA CleanupKeeps ==
  ASSUME CallsInv, Cleanup
  PROVE  CallsInv'
<1>1. /\ freed' = freed \cup methodQueue /\ methodQueue' = {}
      /\ pc = "cleanup" /\ pc' = "wait"
      /\ UNCHANGED <<clientVars, responseMap, passVars, contexts, answers>>
  BY DEF Cleanup
<1>2. Shapes' /\ Loop'
  BY <1>1 DEF CallsInv, Shapes, Loop, clientVars, passVars
<1>3. ASSUME NEW c \in Call PROVE CallInv(c)'
  <2>1. CallInv(c) /\ Due(c)' = Due(c)
    BY <1>1 DEF CallsInv, Due, Open, passVars
  <2>2. Untouched(c) /\ c \notin methodQueue => Untouched(c)'
    BY <1>1 DEF Untouched, Open, passVars
  <2>3. Placed(c)'
    BY <1>1, <2>1, <2>2 DEF CallInv, Placed, clientVars, passVars
  <2>4. Covered(c)'
    BY <1>1, <2>1 DEF CallInv, Covered, Targets, clientVars, passVars
  <2>5. c \in methodQueue => Due(c) = 0
    BY <2>1, NoTargets DEF CallInv, Placed, Untouched, Due
  <2> QED
    BY <1>1, <2>1, <2>3, <2>4, <2>5 DEF CallInv, FreedDone
<1> QED
  BY <1>2, <1>3 DEF CallsInv

LEMMA IdleStepsKeep ==
  ASSUME CallsInv,
         \/ Wake \/ EndOfPass \/ ConnectToLamps \/ DisconnectFromLamps
         \/ \E l \in Lamp : LampStateChangedSignalHandler(l)
  PROVE  CallsInv'
<1>1. activeLamps \subseteq Lamp
  BY DEF CallsInv, Shapes
<1>2. CASE Wake
  <2>1. /\ pc = "wait" /\ pc' # "send" /\ activeLamps' \subseteq Lamp
        /\ UNCHANGED <<clientVars, methodQueue, responseMap, taken, current, todo,
                       notFound, failures, contexts, freed, answers>>
    BY <1>1, <1>2 DEF Wake, historyVars
  <2> QED
    BY <2>1, Idling
<1>3. CASE EndOfPass
  BY <1>3, Idling DEF EndOfPass, queueVars, historyVars
<1>4. CASE ConnectToLamps
  BY <1>1, <1>4, Idling DEF ConnectToLamps, queueVars, passVars, historyVars
<1>5. CASE DisconnectFromLamps
  BY <1>1, <1>5, Idling DEF DisconnectFromLamps, queueVars, passVars, historyVars
<1>6. CASE \E l \in Lamp : LampStateChangedSignalHandler(l)
  BY <1>1, <1>6, Idling DEF LampStateChangedSignalHandler, passVars, historyVars
<1> QED
  BY <1>2, <1>3, <1>4, <1>5, <1>6

-----------------------------------------------------------------------------
LEMMA CallsStep ==
  ASSUME CallsInv, [Next]_vars
  PROVE  CallsInv'
<1>1. CASE \E c \in Call : MethodCall(c)
  BY <1>1, MethodCallKeeps
<1>2. CASE \E c \in Call : ClientCallback(c)
  BY <1>2, PushKeeps, RegisterKeeps DEF ClientCallback
<1>3. CASE \E c \in Call : Reply(c)
  BY <1>3, HandleReplyKeeps DEF Reply
<1>4. CASE Thread
  BY <1>4, IdleStepsKeep, TakeQueueKeeps, StartCallKeeps, SendToLampKeeps,
     FinishCallKeeps, CleanupKeeps DEF Thread
<1>5. CASE ConnectToLamps \/ DisconnectFromLamps
           \/ \E l \in Lamp : LampStateChangedSignalHandler(l)
  BY <1>5, IdleStepsKeep
<1>6. CASE UNCHANGED vars
  BY <1>6, Idling DEF CallsInv, Shapes, vars, clientVars, queueVars, passVars,
     historyVars
<1> QED
  BY <1>1, <1>2, <1>3, <1>4, <1>5, <1>6 DEF Next

LEMMA CallsInvHolds == Spec => []CallsInv
<1>1. Init => CallsInv
  <2> SUFFICES ASSUME Init PROVE CallsInv
    OBVIOUS
  <2>1. NoEntry \in Counter /\ ~NoEntry.listed
    BY DEF NoEntry, Counter
  <2>2. Shapes /\ Loop
    BY <2>1 DEF Init, Shapes, Loop
  <2>3. ASSUME NEW c \in Call PROVE CallInv(c)
    <3>1. Untouched(c) /\ Due(c) = 0
      BY LampCallsAssumption, NoTargets DEF Init, Untouched, Due, Open
    <3>2. Placed(c)
      BY <2>1, <3>1 DEF Init, Placed
    <3>3. Targets(request[c].elements) = {}
      BY LampCallsAssumption DEF Init, NoRequest, Targets, Target
    <3>4. counter[c] = 0 /\ ~responseMap[c].listed
          /\ Cardinality(Targets(request[c].elements)) = 0
      BY <2>1, <3>3, NoTargets DEF Init
    <3>5. Covered(c)
      BY <3>1, <3>4 DEF Covered
    <3> QED
      BY <3>1, <3>2, <3>5 DEF CallInv, FreedDone
  <2> QED
    BY <2>2, <2>3 DEF CallsInv
<1> QED
  BY <1>1, CallsStep, PTL DEF Spec

\* Nothing touches a command after it was freed (LampClients.cc): no call to a
\* lamp is open, and the thread has nothing left to do or to count for it.
THEOREM CommandsFreedLast == Spec => []FreedLast
<1>1. CallsInv => FreedLast
  <2> SUFFICES ASSUME CallsInv PROVE FreedLast
    OBVIOUS
  <2>1. ASSUME NEW c \in Call, c \in freed
        PROVE  /\ Open(c) = {} /\ c \notin methodQueue \cup taken
               /\ c = current => todo = {} /\ notFound + failures = 0
    <3>1. Shapes /\ CallInv(c) /\ ~Untouched(c) /\ Due(c) = 0
      BY <2>1 DEF CallsInv, CallInv, FreedDone, Untouched
    <3>2. /\ Cardinality(Open(c)) \in Nat /\ Cardinality(todo) \in Nat
          /\ notFound \in Nat /\ failures \in Nat
          /\ todo \in SUBSET Target /\ Open(c) \in SUBSET Target
      BY <3>1, DueCounted DEF Shapes
    <3>3. /\ Cardinality(Open(c)) = 0
          /\ c = current => Cardinality(todo) = 0 /\ notFound + failures = 0
      <4> DEFINE n == Cardinality(Open(c))
                 m == Cardinality(todo)
      <4>1. n \in Nat /\ m \in Nat
        BY <3>2
      <4>2. IF c = current THEN n + m + notFound + failures = 0 ELSE n = 0
        BY <3>1 DEF Due
      <4> HIDE DEF n, m
      <4>3. n = 0 /\ (c = current => m = 0 /\ notFound + failures = 0)
        BY <3>2, <4>1, <4>2
      <4> QED
        BY <4>3 DEF n, m
    <3> QED
      BY <3>1, <3>2, <3>3, NoTargets DEF CallInv, Placed
  <2>2. contexts \subseteq Call \X Target /\ methodQueue \cup taken \subseteq Call
        /\ current \in Call \cup {None}
    BY DEF CallsInv, Shapes
  <2>3. ASSUME NEW p \in contexts, p[1] \in freed PROVE FALSE
    BY <2>1, <2>2, <2>3 DEF Open
  <2>4. current \in freed => current \in Call
    BY DEF CallsInv, Shapes
  <2> QED
    BY <2>1, <2>2, <2>3, <2>4 DEF FreedLast
<1> QED
  BY <1>1, CallsInvHolds, PTL

\* However the pushes, the registrations, the passes of the thread and the
\* replies interleave, an entry of responseMap waits for at least what is still
\* to be counted, so the last lamp is the last.
THEOREM CountersAlwaysCover == Spec => []CountersCover
<1>1. CallsInv => CountersCover
  BY DEF CallsInv, CallInv, Covered, CountersCover, Due, Open
<1> QED
  BY <1>1, CallsInvHolds, PTL

\* No client gets a second answer to a command (SendResponse and the refusals
\* of QueueLampMethod), and an answered command leaves no entry behind.
THEOREM CommandsAnsweredOnce == Spec => []AnsweredOnce
<1>1. CallsInv => AnsweredOnce
  BY DEF CallsInv, CallInv, Placed, AnsweredOnce
<1> QED
  BY <1>1, CallsInvHolds, PTL

-----------------------------------------------------------------------------
(* What a client is told.                                                  *)

\* The lamp calls of a command with one fate; g is the fate of a command.
Fated(g, f) == {t \in Target : g[t] = f}

Number(g, f) == Cardinality(Fated(g, f))

Settled(g) ==
  Number(g, "ok") + Number(g, "failed") + Number(g, "unknown") + Number(g, "uncounted")

\* The lamp calls of a command that are settled, open, or still to be made.
Load(c) ==
  IF c = current THEN Settled(fate[c]) + Cardinality(Open(c)) + Cardinality(todo)
                 ELSE Settled(fate[c]) + Cardinality(Open(c))

Fates == fate \in [Call -> [Target -> Fate]]

Waiting(c) == \A t \in Target : fate[c][t] = "waiting"

\* A lamp call is settled once: what is open or still to be made is not.
SettledOnce(c) ==
  /\ stage[c] \in {"new", "queueing"} \/ c \in methodQueue \cup taken => Waiting(c)
  /\ stage[c] = "new" => request[c] = NoRequest
  /\ \A t \in Open(c) : fate[c][t] = "waiting"
  /\ c = current => \A t \in todo : fate[c][t] = "waiting" /\ t \notin Open(c)

\* A counter was made for all lamp calls, before and after it is registered.
Registered(c) ==
  /\ counter[c] >= Load(c)
  /\ responseMap[c].listed => responseMap[c].total >= Load(c)

\* What is counted has happened, and what the thread has noted and not counted
\* yet has happened besides.
Happened(c) ==
  LET e == responseMap[c]
  IN  /\ e.successCount <= Number(fate[c], "ok")
      /\ e.failCount + (IF c = current THEN failures ELSE 0)
           <= Number(fate[c], "failed")
      /\ e.notFoundCount + (IF c = current THEN notFound ELSE 0)
           <= Number(fate[c], "unknown")

FatesOf(g) == {g[t] : t \in {u \in Target : g[u] # "waiting"}}

Tells(g, code) ==
  CASE code = "OK"        -> FatesOf(g) = {"ok"}
    [] code = "FAILURE"   -> FatesOf(g) = {"failed"}
    [] code = "NOT_FOUND" -> FatesOf(g) = {"unknown"}
    [] code = "PARTIAL"   -> Cardinality(FatesOf(g)) > 1
    [] OTHER -> FatesOf(g) = {} /\ code # "UNEXPECTED"

\* An answered command has nothing under way, and its answer is true.
Told(c) == answers[c] # <<>> =>
  /\ stage[c] = "done" /\ c \notin methodQueue \cup taken
  /\ Open(c) = {} /\ (c = current => todo = {})
  /\ request[c] # NoRequest => Tells(fate[c], answers[c][1])

TellInv(c) == SettledOnce(c) /\ Registered(c) /\ Happened(c) /\ Told(c)

AnswersInv == Fates /\ \A c \in Call : TellInv(c)

LEMMA Numbers ==
  ASSUME NEW g \in [Target -> Fate]
  PROVE  /\ \A f \in Fate : Number(g, f) \in Nat
         /\ Settled(g) \in Nat
         /\ (\A t \in Target : g[t] = "waiting") =>
              Settled(g) = 0 /\ \A f \in Fate \ {"waiting"} : Number(g, f) = 0
<1>1. \A f \in Fate : Fated(g, f) \in SUBSET Target
  BY DEF Fated
<1>2. \A f \in Fate : Number(g, f) \in Nat
  BY <1>1, TargetsCounted DEF Number
<1>3. Settled(g) \in Nat
  BY <1>2 DEF Settled, Fate
<1>4. ASSUME \A t \in Target : g[t] = "waiting", NEW f \in Fate \ {"waiting"}
      PROVE  Number(g, f) = 0
  BY <1>4, NoTargets DEF Fated, Number
<1>5. (\A t \in Target : g[t] = "waiting") => Settled(g) = 0
  BY <1>4 DEF Settled, Fate
<1> QED
  BY <1>2, <1>3, <1>4, <1>5

\* One more lamp call of a command is settled.
LEMMA OneMore ==
  \A g, h \in [Target -> Fate] : \A t \in Target : \A f \in Fate \ {"waiting"} :
    g[t] = "waiting" /\ h = [g EXCEPT ![t] = f] =>
      /\ Settled(h) = Settled(g) + 1
      /\ \A q \in Fate \ {"waiting"} : Number(h, q) >= Number(g, q)
      /\ Number(h, f) = Number(g, f) + 1
<1> SUFFICES ASSUME NEW g \in [Target -> Fate], NEW h \in [Target -> Fate],
                    NEW t \in Target, NEW f \in Fate \ {"waiting"},
                    g[t] = "waiting", h = [g EXCEPT ![t] = f]
             PROVE  /\ Settled(h) = Settled(g) + 1
                    /\ \A q \in Fate \ {"waiting"} : Number(h, q) >= Number(g, q)
                    /\ Number(h, f) = Number(g, f) + 1
  OBVIOUS
<1>1. \A q \in Fate : Number(g, q) \in Nat /\ Number(h, q) \in Nat
  BY Numbers
<1>2. Number(h, f) = Number(g, f) + 1
  <2>1. Fated(g, f) \in SUBSET Target /\ t \notin Fated(g, f)
        /\ Fated(h, f) = Fated(g, f) \cup {t}
    BY DEF Fated
  <2>2. IsFiniteSet(Fated(g, f))
    BY <2>1, TargetsCounted
  <2>3. Cardinality(Fated(g, f) \cup {t}) = Cardinality(Fated(g, f)) + 1
    BY <2>1, <2>2, FS_AddElement
  <2> QED
    BY <2>1, <2>3 DEF Number
<1>3. ASSUME NEW q \in Fate, q # f, q # "waiting"
      PROVE  Number(h, q) = Number(g, q)
  <2>1. Fated(h, q) = Fated(g, q)
    BY <1>3 DEF Fated
  <2> QED
    BY <2>1 DEF Number
<1>4. Settled(h) = Settled(g) + 1
  <2>1. f \in {"ok", "failed", "unknown", "uncounted"}
    BY DEF Fate
  <2>2. \A q \in {"ok", "failed", "unknown", "uncounted"} :
          Number(g, q) \in Nat /\ (q # f => Number(h, q) = Number(g, q))
    BY <1>1, <1>3 DEF Fate
  <2>3. CASE f = "ok"
    BY <1>2, <2>2, <2>3 DEF Settled
  <2>4. CASE f = "failed"
    BY <1>2, <2>2, <2>4 DEF Settled
  <2>5. CASE f = "unknown"
    BY <1>2, <2>2, <2>5 DEF Settled
  <2>6. CASE f = "uncounted"
    BY <1>2, <2>2, <2>6 DEF Settled
  <2> QED
    BY <2>1, <2>3, <2>4, <2>5, <2>6
<1>5. ASSUME NEW q \in Fate, q # "waiting"
      PROVE  Number(h, q) >= Number(g, q)
  <2>1. CASE q = f
    BY <1>1, <1>2, <2>1
  <2>2. CASE q # f
    <3>1. Number(h, q) = Number(g, q)
      BY <1>3, <1>5, <2>2
    <3>2. Number(g, q) \in Nat
      BY <1>1, <1>5
    <3> QED
      BY <3>1, <3>2
  <2> QED
    BY <2>1, <2>2
<1> QED
  BY <1>2, <1>4, <1>5

\* Two fates are more than one.
LEMMA TwoFates ==
  ASSUME NEW g \in [Target -> Fate], NEW p \in FatesOf(g), NEW q \in FatesOf(g), p # q
  PROVE  Cardinality(FatesOf(g)) > 1
<1>1. Fate = {"waiting", "ok", "failed", "unknown", "uncounted"} /\ FatesOf(g) \subseteq Fate
  BY DEF Fate, FatesOf
<1>2. IsFiniteSet({}) /\ Cardinality({}) = 0
  BY FS_EmptySet
<1>3. IsFiniteSet(Fate)
  <2>1. Fate = (((({} \cup {"waiting"}) \cup {"ok"}) \cup {"failed"})
                 \cup {"unknown"}) \cup {"uncounted"}
    BY <1>1
  <2> QED
    BY <1>2, <2>1, FS_AddElement
<1>4. IsFiniteSet(FatesOf(g)) /\ Cardinality(FatesOf(g)) \in Nat
  BY <1>1, <1>3, FS_Subset, FS_CardinalityType
<1>5. IsFiniteSet({p}) /\ Cardinality({p}) = 1
  BY FS_Singleton
<1>6. Cardinality({p} \cup {q}) = 2
  <2>1. q \notin {p}
    OBVIOUS
  <2>2. Cardinality({p} \cup {q}) = Cardinality({p}) + 1
    BY <1>5, <2>1, FS_AddElement
  <2> QED
    BY <1>5, <2>2
<1>7. Cardinality({p} \cup {q}) <= Cardinality(FatesOf(g))
  <2>1. {p} \cup {q} \subseteq FatesOf(g)
    OBVIOUS
  <2> QED
    BY <1>4, <2>1, FS_Subset
<1> QED
  BY <1>4, <1>6, <1>7

\* When all that was to be counted has been, the code is that of the fates.
LEMMA CodeTells ==
  ASSUME NEW g \in [Target -> Fate], NEW e \in Counter, e.total > 0,
         e.successCount + e.failCount + e.notFoundCount = e.total,
         e.total >= Settled(g),
         e.successCount <= Number(g, "ok"), e.failCount <= Number(g, "failed"),
         e.notFoundCount <= Number(g, "unknown")
  PROVE  Settled(g) = e.total /\ Tells(g, ResponseCode(e))
<1> DEFINE s == e.successCount
           f == e.failCount
           n == e.notFoundCount
           a == Number(g, "ok")
           b == Number(g, "failed")
           u == Number(g, "unknown")
           w == Number(g, "uncounted")
<1>1. /\ s \in Nat /\ f \in Nat /\ n \in Nat /\ e.total \in Nat
      /\ a \in Nat /\ b \in Nat /\ u \in Nat /\ w \in Nat
  BY Numbers DEF Counter, Fate
<1>2. Settled(g) = a + b + u + w
  BY DEF Settled
<1>3. s = a /\ f = b /\ n = u /\ w = 0 /\ Settled(g) = e.total
  <2> HIDE DEF s, f, n, a, b, u, w
  <2>1. s + f + n = e.total /\ e.total >= a + b + u + w /\ s <= a /\ f <= b /\ n <= u
    BY <1>2 DEF s, f, n, a, b, u, w
  <2> QED
    BY <1>1, <1>2, <2>1
<1>4. \A q \in Fate \ {"waiting"} :
        /\ q \in FatesOf(g) <=> Fated(g, q) # {}
        /\ Fated(g, q) \in SUBSET Target
  BY DEF FatesOf, Fated
<1>5. \A q \in Fate \ {"waiting"} : q \in FatesOf(g) <=> Number(g, q) # 0
  BY <1>4, NoTargets DEF Number
<1>6. FatesOf(g) \subseteq {"ok", "failed", "unknown", "uncounted"}
  BY DEF FatesOf, Fate
<1>7. /\ "ok" \in FatesOf(g) <=> s # 0
      /\ "failed" \in FatesOf(g) <=> f # 0
      /\ "unknown" \in FatesOf(g) <=> n # 0
      /\ "uncounted" \notin FatesOf(g)
  BY <1>3, <1>5 DEF Fate
<1>8. s + f + n = e.total /\ e.total > 0
  OBVIOUS
<1> HIDE DEF s, f, n, a, b, u, w
<1>9. CASE n = e.total
  <2>1. s = 0 /\ f = 0 /\ n # 0
    BY <1>1, <1>8, <1>9
  <2>2. ResponseCode(e) = "NOT_FOUND"
    BY <1>9 DEF ResponseCode, n
  <2>3. FatesOf(g) = {"unknown"}
    BY <1>6, <1>7, <2>1
  <2> QED
    BY <1>3, <2>2, <2>3 DEF Tells
<1>10. CASE n # e.total /\ s = e.total
  <2>1. n = 0 /\ f = 0 /\ s # 0
    BY <1>1, <1>8, <1>10
  <2>2. ResponseCode(e) = "OK"
    BY <1>10 DEF ResponseCode, n, s
  <2>3. FatesOf(g) = {"ok"}
    BY <1>6, <1>7, <2>1
  <2> QED
    BY <1>3, <2>2, <2>3 DEF Tells
<1>11. CASE n # e.total /\ s # e.total /\ f = e.total
  <2>1. n = 0 /\ s = 0 /\ f # 0
    BY <1>1, <1>8, <1>11
  <2>2. ResponseCode(e) = "FAILURE"
    BY <1>11 DEF ResponseCode, n, s, f
  <2>3. FatesOf(g) = {"failed"}
    BY <1>6, <1>7, <2>1
  <2> QED
    BY <1>3, <2>2, <2>3 DEF Tells
<1>12. CASE n # e.total /\ s # e.total /\ f # e.total
  <2>1. (s # 0 /\ f # 0) \/ (s # 0 /\ n # 0) \/ (f # 0 /\ n # 0)
    BY <1>1, <1>8, <1>12
  <2>2. n + s + f = e.total
    BY <1>1, <1>8
  <2>3. ResponseCode(e) = "PARTIAL"
    BY <1>12, <2>2 DEF ResponseCode, n, s, f
  <2>4. Cardinality(FatesOf(g)) > 1
    BY <1>7, <2>1, TwoFates
  <2> QED
    BY <1>3, <2>3, <2>4 DEF Tells
<1> QED
  BY <1>9, <1>10, <1>11, <1>12

\* A command of which an action changes nothing.
LEMMA TellKept ==
  ASSUME NEW c \in Call, TellInv(c),
         UNCHANGED <<stage[c], request[c], counter[c], responseMap[c],
                     answers[c], fate[c]>>,
         c \in (methodQueue \cup taken)' => c \in methodQueue \cup taken,
         c \in {current, current'} => UNCHANGED <<current, todo, notFound, failures>>,
         UNCHANGED Open(c)
  PROVE  TellInv(c)'
<1>1. Load(c)' = Load(c)
  BY DEF Load
<1>2. (c = current) <=> (c = current)'
  OBVIOUS
<1>3. SettledOnce(c)'
  BY <1>2 DEF TellInv, SettledOnce, Waiting
<1>4. Registered(c)'
  BY <1>1 DEF TellInv, Registered
<1>5. Happened(c)'
  BY <1>2 DEF TellInv, Happened
<1>6. Told(c)'
  BY <1>2 DEF TellInv, Told
<1> QED
  BY <1>3, <1>4, <1>5, <1>6 DEF TellInv

\* A command for which nothing has been settled, called or begun.
LEMMA NothingDone ==
  ASSUME Fates, NEW c \in Call, Waiting(c), Open(c) = {}, c # current
  PROVE  Load(c) = 0 /\ Settled(fate[c]) = 0
         /\ \A f \in {"ok", "failed", "unknown"} : Number(fate[c], f) = 0
<1>1. fate[c] \in [Target -> Fate]
  BY DEF Fates
<1>2. Settled(fate[c]) = 0 /\ \A f \in Fate \ {"waiting"} : Number(fate[c], f) = 0
  BY <1>1, Numbers DEF Waiting
<1>3. Load(c) = 0
  BY <1>2, NoTargets DEF Load
<1> QED
  BY <1>2, <1>3 DEF Fate

\* An answer without lamps.
LEMMA RefusedTells ==
  ASSUME CallsInv, AnswersInv, NEW c \in Call, stage[c] \in {"new", "queueing"},
         NEW code \in Answer, Refuse(c, code),
         stage[c] = "queueing" => code = "NO_SLOT",
         UNCHANGED <<queueVars, passVars, contexts, fate>>
  PROVE  TellInv(c)'
<1>1. /\ Shapes /\ TellInv(c) /\ answers[c] = <<>> /\ Untouched(c)
      /\ c \notin methodQueue \cup taken
  BY DEF CallsInv, AnswersInv, CallInv, Placed
<1>2. /\ stage'[c] = "done" /\ answers'[c] = <<code>>
      /\ UNCHANGED <<request, counter, freed>>
  BY <1>1 DEF Refuse, Shapes
<1>3. /\ UNCHANGED <<responseMap, methodQueue, taken, current, todo, notFound,
                     failures, fate, Open(c)>>
  BY DEF queueVars, passVars, Open
<1>4. Waiting(c) /\ Waiting(c)' /\ Open(c)' = {} /\ (c # current)'
  BY <1>1, <1>3 DEF TellInv, SettledOnce, Untouched, Waiting
<1>5. SettledOnce(c)'
  BY <1>2, <1>4 DEF SettledOnce
<1>6. Load(c)' = Load(c)
  BY <1>3 DEF Load
<1>7. Registered(c)' /\ Happened(c)'
  BY <1>1, <1>2, <1>3, <1>6 DEF TellInv, Registered, Happened
<1>8. FatesOf(fate[c]) = {}
  BY <1>4 DEF FatesOf, Waiting
<1>9. request[c] # NoRequest => code = "NO_SLOT"
  BY <1>1 DEF TellInv, SettledOnce
<1>10. request[c] # NoRequest => Tells(fate'[c], answers'[c][1])
  BY <1>2, <1>3, <1>8, <1>9 DEF Tells
<1>11. Told(c)'
  BY <1>1, <1>2, <1>3, <1>4, <1>10 DEF Told
<1> QED
  BY <1>5, <1>7, <1>11 DEF TellInv

LEMMA OthersTell ==
  ASSUME AnswersInv, NEW c \in Call, NEW d \in Call, d # c,
         UNCHANGED <<stage[d], request[d], counter[d], responseMap[d],
                     answers[d], fate[d]>>,
         d \in methodQueue' => d \in methodQueue,
         UNCHANGED <<passVars, contexts>>
  PROVE  TellInv(d)'
<1>1. TellInv(d) /\ UNCHANGED Open(d)
  BY DEF AnswersInv, Open
<1> QED
  BY <1>1, TellKept DEF passVars

LEMMA MethodCallTells ==
  ASSUME CallsInv, AnswersInv, NEW c \in Call, MethodCall(c)
  PROVE  AnswersInv'
<1>1. stage[c] = "new" /\ UNCHANGED <<queueVars, pc, passVars, contexts, fate>>
  BY MethodCallEffect
<1>2. /\ Shapes /\ Fates /\ TellInv(c) /\ Untouched(c) /\ answers[c] = <<>>
      /\ c \notin methodQueue \cup taken /\ ~responseMap[c].listed
  BY <1>1 DEF CallsInv, AnswersInv, CallInv, Placed
<1>3. Fates' /\ Waiting(c) /\ Open(c)' = {} /\ Waiting(c)' /\ (c # current)'
      /\ UNCHANGED Open(c)
  BY <1>1, <1>2 DEF Fates, TellInv, SettledOnce, Waiting, Untouched, Open, passVars
<1>4. Load(c)' = Load(c) /\ Load(c) = 0
  BY <1>1, <1>2, <1>3, NothingDone DEF Load, Untouched, passVars
<1>5. CASE \E els, all, replyFunc : Submit(c, els, all, replyFunc) /\ connectToLamps
  <2>1. PICK els, all, replyFunc : Submit(c, els, all, replyFunc)
    BY <1>5
  <2>2. /\ stage' = [stage EXCEPT ![c] = "queueing"]
        /\ counter' = [counter EXCEPT ![c] = Cardinality(Targets(els))]
        /\ UNCHANGED <<answers, freed>>
        /\ \A d \in Call \ {c} : request'[d] = request[d]
    BY <1>2, <1>5, <2>1 DEF Submit, Shapes
  <2>3. Cardinality(Targets(els)) \in Nat
    BY TargetsOfCommand, TargetsCounted
  <2>4. /\ stage'[c] = "queueing" /\ counter'[c] \in Nat /\ UNCHANGED responseMap
    BY <1>1, <1>2, <2>2, <2>3 DEF Shapes, queueVars
  <2>5. SettledOnce(c)'
    BY <1>3, <2>4 DEF SettledOnce
  <2>6. Registered(c)' /\ Happened(c)'
    BY <1>1, <1>2, <1>3, <1>4, <2>4 DEF TellInv, Registered, Happened, passVars
  <2>7. Told(c)'
    BY <1>2, <2>2 DEF Told
  <2>8. ASSUME NEW d \in Call, d # c PROVE TellInv(d)'
    BY <1>1, <1>2, <2>2, <2>8, OthersTell DEF queueVars, Shapes
  <2> QED
    BY <1>3, <2>5, <2>6, <2>7, <2>8 DEF AnswersInv, TellInv
<1>6. CASE \E code \in Answer : Refuse(c, code)
  <2>1. TellInv(c)'
    BY <1>1, <1>6, RefusedTells
  <2>2. ASSUME NEW d \in Call, d # c PROVE TellInv(d)'
    BY <1>1, <1>2, <1>6, <2>2, OthersTell DEF Refuse, queueVars, Shapes
  <2> QED
    BY <1>3, <2>1, <2>2 DEF AnswersInv
<1>7. CASE Forget(c)
  <2>1. stage' = [stage EXCEPT ![c] = "done"] /\ stage'[c] = "done"
        /\ UNCHANGED <<request, counter, answers, freed>>
    BY <1>2, <1>7 DEF Forget, Shapes
  <2>2. SettledOnce(c)'
    BY <1>3, <2>1 DEF SettledOnce
  <2>3. Registered(c)' /\ Happened(c)' /\ Told(c)'
    BY <1>1, <1>2, <1>4, <2>1 DEF TellInv, Registered, Happened, Told,
       queueVars, passVars
  <2>4. ASSUME NEW d \in Call, d # c PROVE TellInv(d)'
    BY <1>1, <1>2, <2>1, <2>4, OthersTell DEF queueVars, Shapes
  <2> QED
    BY <1>3, <2>2, <2>3, <2>4 DEF AnswersInv, TellInv
<1>8. "REJECTED" \in Answer
  BY DEF Answer
<1> QED
  BY <1>5, <1>6, <1>7, <1>8, MethodCallEffect DEF Submit

LEMMA PushTells ==
  ASSUME CallsInv, AnswersInv, NEW c \in Call, Push(c)
  PROVE  AnswersInv'
<1>1. stage[c] = "queueing" /\ UNCHANGED <<responseMap, pc, passVars, contexts, fate>>
  BY DEF Push
<1>2. Shapes /\ Fates /\ TellInv(c) /\ answers[c] = <<>>
  BY <1>1 DEF CallsInv, AnswersInv, CallInv, Placed
<1>3. Fates' /\ Waiting(c)' /\ UNCHANGED Open(c) /\ UNCHANGED Load(c)
  BY <1>1, <1>2 DEF Fates, TellInv, SettledOnce, Waiting, Open, Load, passVars
<1>4. CASE /\ methodQueue' = methodQueue \cup {c}
           /\ stage' = [stage EXCEPT ![c] = "pushed"]
           /\ UNCHANGED <<request, counter, freed, answers>>
  <2>1. stage'[c] = "pushed"
    BY <1>2, <1>4 DEF Shapes
  <2>2. SettledOnce(c)'
    BY <1>1, <1>2, <1>3, <2>1 DEF TellInv, SettledOnce, Waiting, passVars
  <2>3. Registered(c)' /\ Happened(c)' /\ Told(c)'
    BY <1>1, <1>2, <1>3, <1>4 DEF TellInv, Registered, Happened, Told, passVars
  <2>4. ASSUME NEW d \in Call, d # c PROVE TellInv(d)'
    BY <1>1, <1>2, <1>4, <2>4, OthersTell DEF Shapes
  <2> QED
    BY <1>3, <2>2, <2>3, <2>4 DEF AnswersInv, TellInv
<1>5. CASE Refuse(c, "NO_SLOT") /\ UNCHANGED methodQueue
  <2>1. "NO_SLOT" \in Answer /\ UNCHANGED queueVars
    BY <1>5 DEF Answer, Push, queueVars
  <2>2. TellInv(c)'
    BY <1>1, <1>5, <2>1, RefusedTells
  <2>3. ASSUME NEW d \in Call, d # c PROVE TellInv(d)'
    BY <1>1, <1>2, <1>5, <2>3, OthersTell DEF Refuse, Shapes
  <2> QED
    BY <1>3, <2>2, <2>3 DEF AnswersInv
<1> QED
  BY <1>4, <1>5 DEF Push

LEMMA RegisterTells ==
  ASSUME CallsInv, AnswersInv, NEW c \in Call, Register(c)
  PROVE  AnswersInv'
<1>1. stage[c] = "pushed" /\ stage' = [stage EXCEPT ![c] = "done"]
      /\ UNCHANGED <<request, counter, methodQueue, pc, passVars, contexts,
                     freed, answers, fate>>
  BY DEF Register, historyVars
<1>2. Shapes /\ Fates /\ TellInv(c) /\ counter[c] \in Nat /\ answers[c] = <<>>
  BY <1>1 DEF CallsInv, AnswersInv, CallInv, Placed, Shapes
<1>3. Fates' /\ UNCHANGED Open(c) /\ UNCHANGED Load(c) /\ stage'[c] = "done"
  BY <1>1, <1>2 DEF Fates, Open, Load, passVars, Shapes
<1>4. SettledOnce(c)' /\ Told(c)'
  BY <1>1, <1>2, <1>3 DEF TellInv, SettledOnce, Waiting, Told, passVars
<1>5. \/ UNCHANGED responseMap
      \/ responseMap' = [responseMap EXCEPT ![c] = NewCounter(counter[c])]
  BY DEF Register
<1>6. Registered(c)' /\ Happened(c)'
  <2>1. CASE UNCHANGED responseMap
    BY <1>1, <1>2, <1>3, <2>1 DEF TellInv, Registered, Happened, passVars
  <2>2. CASE responseMap' = [responseMap EXCEPT ![c] = NewCounter(counter[c])]
    <3>1. /\ responseMap'[c].total = counter[c] /\ responseMap'[c].successCount = 0
          /\ responseMap'[c].failCount = 0 /\ responseMap'[c].notFoundCount = 0
      BY <1>2, <2>2, NewCounterType DEF Shapes
    <3>2. responseMap[c] \in Counter /\ notFound \in Nat /\ failures \in Nat
      BY <1>2 DEF Shapes
    <3>3. /\ Number(fate[c], "ok") \in Nat /\ Number(fate[c], "failed") \in Nat
          /\ Number(fate[c], "unknown") \in Nat
      BY <1>2, Numbers DEF Fates, Fate
    <3>4. Registered(c)'
      BY <1>1, <1>2, <1>3, <3>1 DEF TellInv, Registered
    <3>5. Happened(c)'
      BY <1>1, <1>2, <3>1, <3>2, <3>3 DEF TellInv, Happened, passVars, Counter
    <3> QED
      BY <3>4, <3>5
  <2> QED
    BY <1>5, <2>1, <2>2
<1>7. ASSUME NEW d \in Call, d # c PROVE TellInv(d)'
  BY <1>1, <1>2, <1>5, <1>7, OthersTell DEF Shapes
<1> QED
  BY <1>3, <1>4, <1>6, <1>7 DEF AnswersInv, TellInv

\* What counting makes of the entry of c, and when it answers: when as much
\* has been counted as was registered.
Tallied(c, success, failure, nf) ==
  LET r == responseMap[c]
      e == responseMap'[c]
  IN  /\ e.listed => r.listed /\ e.total = r.total
      /\ e.successCount <= r.successCount + success
      /\ e.failCount <= r.failCount + failure
      /\ e.notFoundCount <= r.notFoundCount + nf
      /\ \/ answers'[c] = answers[c]
         \/ \E k \in Counter :
              /\ r.listed /\ answers'[c] = <<ResponseCode(k)>>
              /\ k.total = r.total /\ k.successCount = r.successCount + success
              /\ k.failCount = r.failCount + failure
              /\ k.notFoundCount = r.notFoundCount + nf
              /\ k.successCount + k.failCount + k.notFoundCount = k.total
      /\ \A d \in Call \ {c} :
           responseMap'[d] = responseMap[d] /\ answers'[d] = answers[d]

LEMMA Tally ==
  ASSUME Shapes, NEW c \in Call, Placed(c), Covered(c),
         NEW success \in Nat, NEW failure \in Nat, NEW nf \in Nat,
         \/ DecrementWaitingAndSendResponse(c, success, failure, nf)
         \/ UNCHANGED <<responseMap, answers, freed>>
  PROVE  Tallied(c, success, failure, nf)
<1> DEFINE r == responseMap[c]
           e == Counted(r, success, failure, nf)
<1>1. /\ r \in Counter /\ r.successCount \in Nat /\ r.failCount \in Nat
      /\ r.notFoundCount \in Nat /\ r.total \in Nat /\ r.numWaiting \in Int
  BY DEF Shapes, Counter
<1>2. CASE UNCHANGED <<responseMap, answers, freed>>
  <2>1. responseMap'[c] = r /\ answers'[c] = answers[c]
        /\ \A d \in Call \ {c} :
             responseMap'[d] = responseMap[d] /\ answers'[d] = answers[d]
    BY <1>2
  <2> HIDE DEF r
  <2> QED
    BY <1>1, <2>1 DEF Tallied, r
<1>3. CASE r.listed /\ DecrementWaitingAndSendResponse(c, success, failure, nf)
  <2>1. /\ e \in Counter /\ e.total = r.total
        /\ e.successCount = r.successCount + success
        /\ e.failCount = r.failCount + failure
        /\ e.notFoundCount = r.notFoundCount + nf
        /\ e.numWaiting = r.numWaiting - (success + failure + nf)
    <3> HIDE DEF r
    <3> QED
      BY <1>1 DEF Counted, Counter
  <2>2. r.numWaiting = r.total - r.successCount - r.failCount - r.notFoundCount
    BY <1>3 DEF Covered
  <2>3. answers[c] = <<>>
    BY <1>3 DEF Placed
  <2> HIDE DEF r
  <2>4. e.numWaiting = 0 => e.successCount + e.failCount + e.notFoundCount = e.total
    <3> DEFINE a == r.successCount
               b == r.failCount
               u == r.notFoundCount
               all == r.total
    <3>1. a \in Nat /\ b \in Nat /\ u \in Nat /\ all \in Nat
      BY <1>1
    <3>2. e.numWaiting = (all - a - b - u) - (success + failure + nf)
      BY <2>1, <2>2
    <3>3. e.successCount = a + success /\ e.failCount = b + failure
          /\ e.notFoundCount = u + nf /\ e.total = all
      BY <2>1
    <3> HIDE DEF e, a, b, u, all
    <3>4. ASSUME e.numWaiting = 0
          PROVE  (a + success) + (b + failure) + (u + nf) = all
      BY <3>1, <3>2, <3>4
    <3> QED
      BY <3>3, <3>4
  <2> HIDE DEF e
  <2>5. CASE e.numWaiting # 0
    <3>1. responseMap' = [responseMap EXCEPT ![c] = e] /\ UNCHANGED answers
      BY <1>3, <2>5 DEF DecrementWaitingAndSendResponse, e, r
    <3>2. responseMap'[c] = e
          /\ \A d \in Call \ {c} : responseMap'[d] = responseMap[d]
      BY <3>1 DEF Shapes
    <3> QED
      BY <1>1, <1>3, <2>1, <3>1, <3>2 DEF Tallied, r
  <2>6. CASE e.numWaiting = 0
    <3>1. /\ responseMap' = [responseMap EXCEPT ![c] = NoEntry]
          /\ answers' = [answers EXCEPT ![c] = Append(@, ResponseCode(e))]
      BY <1>3, <2>6 DEF DecrementWaitingAndSendResponse, e, r
    <3>2. /\ responseMap'[c] = NoEntry /\ answers'[c] = <<ResponseCode(e)>>
          /\ \A d \in Call \ {c} :
               responseMap'[d] = responseMap[d] /\ answers'[d] = answers[d]
      BY <2>3, <3>1 DEF Shapes
    <3>3. /\ ~responseMap'[c].listed /\ responseMap'[c].successCount = 0
          /\ responseMap'[c].failCount = 0 /\ responseMap'[c].notFoundCount = 0
      BY <3>2 DEF NoEntry
    <3>4. /\ 0 <= r.successCount + success /\ 0 <= r.failCount + failure
          /\ 0 <= r.notFoundCount + nf
      BY <1>1
    <3>5. \E k \in Counter :
            /\ r.listed /\ answers'[c] = <<ResponseCode(k)>>
            /\ k.total = r.total /\ k.successCount = r.successCount + success
            /\ k.failCount = r.failCount + failure
            /\ k.notFoundCount = r.notFoundCount + nf
            /\ k.successCount + k.failCount + k.notFoundCount = k.total
      BY <1>3, <2>1, <2>4, <2>6, <3>2
    <3> QED
      BY <3>2, <3>3, <3>4, <3>5 DEF Tallied, r
  <2> QED
    BY <2>5, <2>6
<1>4. CASE ~r.listed /\ DecrementWaitingAndSendResponse(c, success, failure, nf)
  <2>1. UNCHANGED <<responseMap, answers, freed>>
    BY <1>4 DEF DecrementWaitingAndSendResponse
  <2> QED
    BY <1>2, <2>1
<1> QED
  BY <1>2, <1>3, <1>4

\* What was counted has happened and is no longer due, so a command that is
\* answered has nothing under way and is answered truly.
LEMMA TalliedTells ==
  ASSUME Shapes, NEW c \in Call, Fates', TellInv(c),
         NEW success \in Nat, NEW failure \in Nat, NEW nf \in Nat,
         Tallied(c, success, failure, nf),
         success + failure + nf > 0,
         NEW open \in Nat, NEW rest \in Nat,
         responseMap[c].listed =>
           responseMap[c].total >= Settled(fate'[c]) + open + rest,
         responseMap[c].successCount + success <= Number(fate'[c], "ok"),
         responseMap[c].failCount + failure <= Number(fate'[c], "failed"),
         responseMap[c].notFoundCount + nf <= Number(fate'[c], "unknown")
  PROVE  answers'[c] # answers[c] =>
           /\ responseMap[c].listed /\ open = 0 /\ rest = 0
           /\ Tells(fate'[c], answers'[c][1])
<1> SUFFICES ASSUME answers'[c] # answers[c]
             PROVE  /\ responseMap[c].listed /\ open = 0 /\ rest = 0
                    /\ Tells(fate'[c], answers'[c][1])
  OBVIOUS
<1> DEFINE r == responseMap[c]
<1>1. PICK k \in Counter :
        /\ r.listed /\ answers'[c] = <<ResponseCode(k)>>
        /\ k.total = r.total /\ k.successCount = r.successCount + success
        /\ k.failCount = r.failCount + failure
        /\ k.notFoundCount = r.notFoundCount + nf
        /\ k.successCount + k.failCount + k.notFoundCount = k.total
  BY DEF Tallied
<1>2. fate'[c] \in [Target -> Fate]
  BY DEF Fates
<1>3. PICK g \in [Target -> Fate] : g = fate'[c]
  BY <1>2
<1>4. Settled(g) \in Nat
  BY Numbers
<1>5. /\ r.successCount \in Nat /\ r.failCount \in Nat /\ r.notFoundCount \in Nat
      /\ k.successCount \in Nat /\ k.failCount \in Nat /\ k.notFoundCount \in Nat
      /\ k.total \in Nat
  BY DEF Shapes, Counter
<1>6. /\ k.total > 0 /\ k.total >= Settled(g) + open + rest
      /\ k.successCount <= Number(g, "ok") /\ k.failCount <= Number(g, "failed")
      /\ k.notFoundCount <= Number(g, "unknown")
  <2>1. k.total >= Settled(g) + open + rest
    BY <1>1, <1>3
  <2>2. /\ k.successCount <= Number(g, "ok") /\ k.failCount <= Number(g, "failed")
        /\ k.notFoundCount <= Number(g, "unknown")
    BY <1>1, <1>3
  <2>3. k.successCount >= success /\ k.failCount >= failure /\ k.notFoundCount >= nf
    BY <1>1, <1>5
  <2>4. k.total >= success + failure + nf
    BY <1>1, <1>5, <2>3
  <2>5. k.total > 0
    BY <1>5, <2>4
  <2> QED
    BY <2>1, <2>2, <2>5
<1>7. k.total >= Settled(g)
  BY <1>4, <1>5, <1>6
<1>8. Settled(g) = k.total /\ Tells(g, ResponseCode(k))
  BY <1>1, <1>6, <1>7, CodeTells
<1>9. open = 0 /\ rest = 0
  BY <1>5, <1>6, <1>8
<1> QED
  BY <1>1, <1>3, <1>8, <1>9

\* A lamp call gets a fate.
LEMMA FateGiven ==
  ASSUME Fates, NEW c \in Call, NEW t \in Target, fate[c][t] = "waiting",
         NEW f \in Fate, f # "waiting", fate' = [fate EXCEPT ![c][t] = f]
  PROVE  /\ Fates'
         /\ fate'[c] = [fate[c] EXCEPT ![t] = f]
         /\ \A d \in Call \ {c} : fate'[d] = fate[d]
         /\ Settled(fate[c]) \in Nat
         /\ Settled(fate'[c]) = Settled(fate[c]) + 1
         /\ \A q \in {"ok", "failed", "unknown"} :
              /\ Number(fate[c], q) \in Nat
              /\ Number(fate'[c], q) >= Number(fate[c], q)
              /\ q = f => Number(fate'[c], q) = Number(fate[c], q) + 1
<1>1. fate[c] \in [Target -> Fate]
  BY DEF Fates
<1>2. Fates' /\ fate'[c] = [fate[c] EXCEPT ![t] = f]
      /\ \A d \in Call \ {c} : fate'[d] = fate[d]
  BY DEF Fates
<1>3. PICK g \in [Target -> Fate], h \in [Target -> Fate] :
        g = fate[c] /\ h = fate'[c]
  BY <1>1, <1>2
<1>4. g[t] = "waiting" /\ h = [g EXCEPT ![t] = f]
  BY <1>2, <1>3
<1>5. /\ Settled(h) = Settled(g) + 1
      /\ \A q \in Fate \ {"waiting"} : Number(h, q) >= Number(g, q)
      /\ Number(h, f) = Number(g, f) + 1
  BY <1>4, OneMore
<1>6. Settled(g) \in Nat /\ \A q \in Fate : Number(g, q) \in Nat
  BY Numbers
<1>7. {"ok", "failed", "unknown"} \subseteq Fate \ {"waiting"}
  BY DEF Fate
<1> QED
  BY <1>2, <1>3, <1>5, <1>6, <1>7

LEMMA HandleReplyTells ==
  ASSUME CallsInv, AnswersInv, NEW c \in Call, NEW t \in Target,
         NEW result \in Result, HandleReply(c, t, result)
  PROVE  AnswersInv'
<1>1. /\ <<c, t>> \in contexts /\ contexts' = contexts \ {<<c, t>>}
      /\ fate' = [fate EXCEPT ![c][t] = result]
      /\ UNCHANGED <<stage, request, counter, methodQueue, pc, passVars>>
  BY DEF HandleReply, clientVars
<1>2. Shapes /\ Fates /\ CallInv(c) /\ TellInv(c) /\ result \in Fate
      /\ result # "waiting"
  BY DEF CallsInv, AnswersInv, Result, Fate
<1>3. t \in Open(c) /\ Open(c)' = Open(c) \ {t} /\ Open(c) \in SUBSET Target
  BY <1>1 DEF Open
<1>4. fate[c][t] = "waiting"
  BY <1>2, <1>3 DEF TellInv, SettledOnce
<1>5. /\ Fates' /\ fate'[c] = [fate[c] EXCEPT ![t] = result]
      /\ \A d \in Call \ {c} : fate'[d] = fate[d]
      /\ Settled(fate[c]) \in Nat
      /\ Settled(fate'[c]) = Settled(fate[c]) + 1
      /\ \A q \in {"ok", "failed", "unknown"} :
           /\ Number(fate[c], q) \in Nat
           /\ Number(fate'[c], q) >= Number(fate[c], q)
           /\ q = result => Number(fate'[c], q) = Number(fate[c], q) + 1
  BY <1>1, <1>2, <1>4, FateGiven
<1> DEFINE open == Cardinality(Open(c) \ {t})
           rest == IF c = current THEN Cardinality(todo) ELSE 0
<1>6. open \in Nat /\ rest \in Nat /\ Cardinality(Open(c)) = open + 1
  <2>1. Cardinality(Open(c)) \in Nat /\ open \in Nat
    BY <1>3, TargetsCounted
  <2>2. open = Cardinality(Open(c)) - 1
    BY <1>3, TargetRemoved
  <2>3. rest \in Nat
    BY <1>2, DueCounted
  <2> HIDE DEF open, rest
  <2> QED
    BY <2>1, <2>2, <2>3
<1>7. /\ Load(c) = Settled(fate'[c]) + open + rest
      /\ Load(c)' = Settled(fate'[c]) + open + rest
      /\ Load(c) \in Nat
  <2>1. Load(c) = Settled(fate[c]) + Cardinality(Open(c)) + rest
    BY <1>5, <1>6 DEF Load
  <2>2. Load(c)' = Settled(fate'[c]) + open + rest
    <3>1. UNCHANGED <<current, todo>>
      BY <1>1 DEF passVars
    <3>2. Settled(fate'[c]) \in Nat
      BY <1>5
    <3> QED
      BY <1>3, <1>6, <3>1, <3>2 DEF Load
  <2> HIDE DEF open, rest
  <2> QED
    BY <1>5, <1>6, <2>1, <2>2
<1>8. open = 0 => Open(c)' = {}
  BY <1>3, NoTargets
<1>9. c = current /\ rest = 0 => todo = {}
  BY <1>2, NoTargets DEF Shapes
<1> HIDE DEF open, rest
<1>10. answers[c] = <<>> /\ Placed(c) /\ Covered(c)
  BY <1>2, <1>3 DEF TellInv, Told, CallInv
<1>11. /\ stage[c] \notin {"new", "queueing"} /\ c \notin methodQueue \cup taken
       /\ responseMap[c].listed => stage[c] = "done"
  BY <1>3, <1>10 DEF Placed, Untouched
<1>12. /\ responseMap'[c].listed =>
            responseMap[c].listed /\ responseMap'[c].total = responseMap[c].total
       /\ Happened(c)'
       /\ answers'[c] # answers[c] =>
            /\ responseMap[c].listed /\ open = 0 /\ rest = 0
            /\ Tells(fate'[c], answers'[c][1])
       /\ \A d \in Call \ {c} :
            responseMap'[d] = responseMap[d] /\ answers'[d] = answers[d]
  <2> DEFINE r == responseMap[c]
             e == responseMap'[c]
             fails == IF c = current THEN failures ELSE 0
             misses == IF c = current THEN notFound ELSE 0
  <2>1. /\ r.successCount \in Nat /\ r.failCount \in Nat /\ r.notFoundCount \in Nat
        /\ fails \in Nat /\ misses \in Nat
    BY <1>2 DEF Shapes, Counter
  <2>2. /\ r.successCount <= Number(fate[c], "ok")
        /\ r.failCount + fails <= Number(fate[c], "failed")
        /\ r.notFoundCount + misses <= Number(fate[c], "unknown")
    BY <1>2, <2>1 DEF TellInv, Happened
  <2>3. Happened(c)' <=> /\ e.successCount <= Number(fate'[c], "ok")
                         /\ e.failCount + fails <= Number(fate'[c], "failed")
                         /\ e.notFoundCount + misses <= Number(fate'[c], "unknown")
    BY <1>1 DEF Happened, passVars
  <2>4. r.listed => r.total >= Settled(fate'[c]) + open + rest
    BY <1>2, <1>7 DEF TellInv, Registered
  <2>5. \A q \in {"ok", "failed", "unknown"} :
          Number(fate[c], q) \in Nat /\ Number(fate'[c], q) \in Nat
    BY <1>5, Numbers DEF Fates, Fate
  <2>6. e.successCount \in Nat /\ e.failCount \in Nat /\ e.notFoundCount \in Nat
    <3>1. Shapes'
      BY HandleReplyKeeps DEF CallsInv
    <3> QED
      BY <3>1 DEF Shapes, Counter
  <2>7. CASE result = "ok" /\ DecrementWaitingAndSendResponse(c, 1, 0, 0)
    <3>1. Tallied(c, 1, 0, 0)
      BY <1>2, <1>10, <2>7, Tally
    <3>2. /\ r.successCount + 1 <= Number(fate'[c], "ok")
          /\ r.failCount + 0 <= Number(fate'[c], "failed")
          /\ r.notFoundCount + 0 <= Number(fate'[c], "unknown")
          /\ r.failCount + fails <= Number(fate'[c], "failed")
          /\ r.notFoundCount + misses <= Number(fate'[c], "unknown")
      <4>1. Number(fate'[c], "ok") = Number(fate[c], "ok") + 1
            /\ Number(fate'[c], "failed") >= Number(fate[c], "failed")
            /\ Number(fate'[c], "unknown") >= Number(fate[c], "unknown")
        BY <1>5, <2>7
      <4> HIDE DEF r, e, fails, misses
      <4> QED
        BY <2>1, <2>2, <2>5, <4>1
    <3>3. answers'[c] # answers[c] =>
            /\ responseMap[c].listed /\ open = 0 /\ rest = 0
            /\ Tells(fate'[c], answers'[c][1])
      BY <1>2, <1>5, <1>6, <2>4, <3>1, <3>2, TalliedTells
    <3>4. e.successCount <= r.successCount + 1 /\ e.failCount <= r.failCount + 0
          /\ e.notFoundCount <= r.notFoundCount + 0
      BY <3>1 DEF Tallied
    <3>5. Happened(c)'
      <4> HIDE DEF r, e, fails, misses
      <4> QED
        BY <2>1, <2>3, <2>5, <2>6, <3>2, <3>4
    <3> QED
      BY <3>1, <3>3, <3>5 DEF Tallied
  <2>8. CASE result = "failed" /\ DecrementWaitingAndSendResponse(c, 0, 1, 0)
    <3>1. Tallied(c, 0, 1, 0)
      BY <1>2, <1>10, <2>8, Tally
    <3>2. /\ r.successCount + 0 <= Number(fate'[c], "ok")
          /\ r.failCount + 1 <= Number(fate'[c], "failed")
          /\ r.notFoundCount + 0 <= Number(fate'[c], "unknown")
          /\ r.failCount + 1 + fails <= Number(fate'[c], "failed")
          /\ r.notFoundCount + misses <= Number(fate'[c], "unknown")
      <4>1. Number(fate'[c], "failed") = Number(fate[c], "failed") + 1
            /\ Number(fate'[c], "ok") >= Number(fate[c], "ok")
            /\ Number(fate'[c], "unknown") >= Number(fate[c], "unknown")
        BY <1>5, <2>8
      <4> HIDE DEF r, e, fails, misses
      <4> QED
        BY <2>1, <2>2, <2>5, <4>1
    <3>3. answers'[c] # answers[c] =>
            /\ responseMap[c].listed /\ open = 0 /\ rest = 0
            /\ Tells(fate'[c], answers'[c][1])
      BY <1>2, <1>5, <1>6, <2>4, <3>1, <3>2, TalliedTells
    <3>4. e.successCount <= r.successCount + 0 /\ e.failCount <= r.failCount + 1
          /\ e.notFoundCount <= r.notFoundCount + 0
      BY <3>1 DEF Tallied
    <3>5. Happened(c)'
      <4> HIDE DEF r, e, fails, misses
      <4> QED
        BY <2>1, <2>3, <2>5, <2>6, <3>2, <3>4
    <3> QED
      BY <3>1, <3>3, <3>5 DEF Tallied
  <2>9. CASE UNCHANGED <<responseMap, answers, freed>>
    <3>1. e = r
      BY <2>9
    <3>2. Happened(c)'
      <4>1. \A q \in {"ok", "failed", "unknown"} :
              Number(fate'[c], q) >= Number(fate[c], q)
        BY <1>5
      <4> HIDE DEF r, e, fails, misses
      <4> QED
        BY <2>1, <2>2, <2>3, <2>5, <3>1, <4>1
    <3> QED
      BY <2>9, <3>2
  <2> QED
    BY <2>7, <2>8, <2>9 DEF HandleReply, Result
<1>13. SettledOnce(c)'
  <2>1. \A u \in Open(c)' : fate'[c][u] = "waiting"
    BY <1>2, <1>3, <1>5 DEF TellInv, SettledOnce, Fates
  <2>2. c = current => \A u \in todo : fate'[c][u] = "waiting" /\ u \notin Open(c)'
    BY <1>2, <1>3, <1>5 DEF TellInv, SettledOnce, Fates
  <2> QED
    BY <1>1, <1>11, <2>1, <2>2 DEF SettledOnce, passVars
<1>14. Registered(c)'
  BY <1>1, <1>2, <1>7, <1>12 DEF TellInv, Registered
<1>15. Told(c)'
  BY <1>1, <1>8, <1>9, <1>10, <1>11, <1>12 DEF Told, passVars
<1>16. ASSUME NEW d \in Call, d # c PROVE TellInv(d)'
  <2>1. TellInv(d) /\ UNCHANGED Open(d)
    BY <1>1, <1>16 DEF AnswersInv, Open
  <2> QED
    BY <1>1, <1>5, <1>12, <1>16, <2>1, TellKept DEF passVars
<1> QED
  BY <1>5, <1>12, <1>13, <1>14, <1>15, <1>16 DEF AnswersInv, TellInv

LEMMA StartCallTells ==
  ASSUME CallsInv, AnswersInv, NEW c \in Call, StartCall(c)
  PROVE  AnswersInv'
<1>1. /\ pc = "calls" /\ c \in taken /\ taken' = taken \ {c}
      /\ current' = c /\ todo' = Aimed(c) /\ notFound' = 0 /\ failures' = 0
      /\ UNCHANGED <<stage, request, methodQueue, activeLamps, contexts, freed,
                     answers, fate>>
  BY DEF StartCall, historyVars
<1>2. Shapes /\ Fates /\ CallInv(c) /\ TellInv(c) /\ current = None
  BY <1>1 DEF CallsInv, AnswersInv, Loop
<1>3. /\ Untouched(c) /\ c \notin methodQueue /\ Waiting(c) /\ answers[c] = <<>>
      /\ stage[c] \notin {"new", "queueing"} /\ Open(c) = {} /\ Open(c)' = {}
      /\ counter[c] \in Nat /\ responseMap[c] \in Counter
  BY <1>1, <1>2 DEF CallInv, Placed, Untouched, TellInv, SettledOnce, Told, Open, Shapes
<1>4. Fates' /\ Waiting(c)' /\ UNCHANGED fate[c]
  BY <1>1, <1>2, <1>3 DEF Fates, Waiting
<1> DEFINE aims == Cardinality(Aimed(c))
           ask  == Cardinality(Targets(request[c].elements))
           all  == Cardinality(activeLamps)
<1>5. /\ Aimed(c) \in SUBSET Target /\ aims \in Nat /\ ask \in Nat /\ all \in Nat
      /\ request[c].allLamps => aims = all
      /\ ~request[c].allLamps => aims = ask
  BY <1>2, AllLampsCounted, TargetsOfCommand, TargetsCounted DEF Aimed, Shapes
<1>6. Settled(fate[c]) = 0
      /\ \A q \in {"ok", "failed", "unknown"} : Number(fate[c], q) = 0
  BY <1>2, <1>3, NothingDone DEF Untouched
<1>7. Load(c)' = aims
  BY <1>1, <1>3, <1>4, <1>5, <1>6, NoTargets DEF Load
<1>8. counter[c] >= ask
  BY <1>2 DEF CallInv, Covered
<1>9. /\ responseMap[c].successCount = 0 /\ responseMap[c].failCount = 0
      /\ responseMap[c].notFoundCount = 0
      /\ responseMap[c].listed => responseMap[c].total >= counter[c]
  <2>1. /\ responseMap[c].successCount \in Nat /\ responseMap[c].failCount \in Nat
        /\ responseMap[c].notFoundCount \in Nat
    BY <1>3 DEF Counter
  <2>2. /\ responseMap[c].successCount = 0 /\ responseMap[c].failCount = 0
        /\ responseMap[c].notFoundCount = 0
    <3>1. c # current
      BY <1>3 DEF Untouched
    <3>2. /\ responseMap[c].successCount <= 0 /\ responseMap[c].failCount + 0 <= 0
          /\ responseMap[c].notFoundCount + 0 <= 0
      BY <1>2, <1>6, <3>1 DEF TellInv, Happened
    <3> QED
      BY <2>1, <3>2
  <2>3. responseMap[c].listed =>
          LET e == responseMap[c] IN
          /\ e.numWaiting = e.total - e.successCount - e.failCount - e.notFoundCount
          /\ e.numWaiting >= counter[c] /\ e.total \in Nat
    BY <1>1, <1>2, <1>3 DEF CallInv, Covered, Counter
  <2> QED
    BY <1>3, <2>2, <2>3
<1> HIDE DEF aims, ask, all
<1>10. /\ counter'[c] >= aims
       /\ responseMap'[c].listed => responseMap'[c].total >= aims
       /\ responseMap'[c].successCount = 0 /\ responseMap'[c].failCount = 0
       /\ responseMap'[c].notFoundCount = 0
       /\ \A d \in Call \ {c} : /\ counter'[d] = counter[d]
                               /\ responseMap'[d] = responseMap[d]
  <2>1. CASE request[c].allLamps
    <3>1. counter' = [counter EXCEPT ![c] = @ + all]
      BY <2>1 DEF StartCall, all
    <3>2. counter'[c] = counter[c] + all /\ counter'[c] \in Nat
          /\ \A d \in Call \ {c} : counter'[d] = counter[d]
      BY <1>2, <1>3, <1>5, <3>1 DEF Shapes
    <3>3. counter'[c] >= aims
      BY <1>3, <1>5, <2>1, <3>2
    <3>4. CASE responseMap[c].listed
      <4>1. responseMap' = [responseMap EXCEPT ![c] = NewCounter(counter'[c])]
        BY <2>1, <3>4 DEF StartCall
      <4>2. LET e == NewCounter(counter'[c]) IN
            /\ e.total = counter'[c]
            /\ e.successCount = 0 /\ e.failCount = 0 /\ e.notFoundCount = 0
        BY <3>2, NewCounterType
      <4> QED
        BY <1>2, <3>2, <3>3, <4>1, <4>2 DEF Shapes
    <3>5. CASE ~responseMap[c].listed
      BY <1>9, <2>1, <3>2, <3>3, <3>5 DEF StartCall
    <3> QED
      BY <3>4, <3>5
  <2>2. CASE ~request[c].allLamps
    <3>1. UNCHANGED <<counter, responseMap>>
      BY <2>2 DEF StartCall
    <3>2. counter[c] >= aims
      BY <1>5, <1>8, <2>2
    <3>3. responseMap[c].listed => responseMap[c].total >= aims
      <4>1. responseMap[c].total \in Nat
        BY <1>3 DEF Counter
      <4> QED
        BY <1>3, <1>5, <1>9, <3>2, <4>1
    <3> QED
      BY <1>9, <3>1, <3>2, <3>3
  <2> QED
    BY <2>1, <2>2
<1>11. SettledOnce(c)'
  BY <1>1, <1>3, <1>4, <1>5 DEF SettledOnce, Waiting
<1>12. Registered(c)' /\ Told(c)'
  BY <1>1, <1>3, <1>7, <1>10 DEF Registered, Told
<1>13. Happened(c)'
  BY <1>1, <1>4, <1>6, <1>10 DEF Happened
<1>14. ASSUME NEW d \in Call, d # c PROVE TellInv(d)'
  <2>1. TellInv(d) /\ UNCHANGED Open(d) /\ d # current /\ d # current'
    BY <1>1, <1>2, <1>14, LampCallsAssumption DEF AnswersInv, Open
  <2> QED
    BY <1>1, <1>10, <1>14, <2>1, TellKept
<1> QED
  BY <1>4, <1>11, <1>12, <1>13, <1>14 DEF AnswersInv, TellInv

LEMMA SendToLampTells ==
  ASSUME CallsInv, AnswersInv, NEW t \in Target, SendToLamp(t)
  PROVE  AnswersInv'
<1>1. /\ t \in todo /\ todo' = todo \ {t} /\ pc = "send"
      /\ UNCHANGED <<clientVars, queueVars, taken, current, activeLamps, freed,
                     answers>>
  BY DEF SendToLamp
<1>2. PICK c \in Call : c = current
  BY <1>1 DEF CallsInv, Loop, Shapes
<1>3. /\ Shapes /\ Fates /\ CallInv(c) /\ TellInv(c)
      /\ fate[c][t] = "waiting" /\ t \notin Open(c)
      /\ answers[c] = <<>>
  BY <1>1, <1>2 DEF CallsInv, AnswersInv, TellInv, SettledOnce, Told
<1>4. todo \in SUBSET Target /\ Open(c) \in SUBSET Target
  BY <1>3 DEF Shapes, Open
<1> DEFINE n == Cardinality(Open(c))
           m == Cardinality(todo)
           st == Settled(fate[c])
<1>5. /\ n \in Nat /\ m \in Nat /\ st \in Nat /\ Cardinality(todo \ {t}) = m - 1
      /\ Cardinality(Open(c) \cup {t}) = n + 1
  <2>1. n \in Nat /\ m \in Nat /\ IsFiniteSet(Open(c))
    BY <1>4, TargetsCounted
  <2>2. Cardinality(todo \ {t}) = m - 1
    BY <1>1, <1>4, TargetRemoved
  <2>3. Cardinality(Open(c) \cup {t}) = n + 1
    BY <1>3, <2>1, FS_AddElement
  <2>4. st \in Nat
    BY <1>3, Numbers DEF Fates
  <2> QED
    BY <2>1, <2>2, <2>3, <2>4
<1>6. Load(c) = st + n + m
  BY <1>2 DEF Load
<1>7. /\ responseMap[c].successCount \in Nat /\ responseMap[c].failCount \in Nat
      /\ responseMap[c].notFoundCount \in Nat /\ notFound \in Nat /\ failures \in Nat
      /\ \A q \in {"ok", "failed", "unknown"} : Number(fate[c], q) \in Nat
  BY <1>3, Numbers DEF Shapes, Counter, Fates, Fate
<1>8. /\ responseMap[c].successCount <= Number(fate[c], "ok")
      /\ responseMap[c].failCount + failures <= Number(fate[c], "failed")
      /\ responseMap[c].notFoundCount + notFound <= Number(fate[c], "unknown")
  BY <1>2, <1>3 DEF TellInv, Happened
<1>9. Happened(c)' <=>
        /\ responseMap[c].successCount <= Number(fate'[c], "ok")
        /\ responseMap[c].failCount + failures' <= Number(fate'[c], "failed")
        /\ responseMap[c].notFoundCount + notFound' <= Number(fate'[c], "unknown")
  BY <1>1, <1>2 DEF Happened, queueVars
<1>10. /\ Fates' /\ Load(c)' = Load(c) /\ Happened(c)'
       /\ \A d \in Call \ {c} : fate'[d] = fate[d] /\ Open(d)' = Open(d)
       /\ \A u \in Open(c)' : fate'[c][u] = "waiting" /\ u \notin todo'
       /\ \A u \in todo' : fate'[c][u] = "waiting"
  <2>1. \A u \in Open(c) : fate[c][u] = "waiting" /\ u \notin todo
    BY <1>2, <1>3 DEF TellInv, SettledOnce
  <2>2. \A u \in todo : fate[c][u] = "waiting"
    BY <1>2, <1>3 DEF TellInv, SettledOnce
  <2>3. ASSUME NEW f \in {"failed", "unknown"}, UNCHANGED contexts,
               fate' = [fate EXCEPT ![current][t] = f],
               \/ f = "failed" /\ failures' = failures + 1 /\ notFound' = notFound
               \/ f = "unknown" /\ notFound' = notFound + 1 /\ failures' = failures
        PROVE  /\ Fates' /\ Load(c)' = Load(c) /\ Happened(c)'
               /\ \A d \in Call \ {c} : fate'[d] = fate[d] /\ Open(d)' = Open(d)
               /\ \A u \in Open(c)' : fate'[c][u] = "waiting" /\ u \notin todo'
               /\ \A u \in todo' : fate'[c][u] = "waiting"
    <3>1. f \in Fate /\ f # "waiting" /\ fate' = [fate EXCEPT ![c][t] = f]
      BY <1>2, <2>3 DEF Fate
    <3>2. /\ Fates' /\ fate'[c] = [fate[c] EXCEPT ![t] = f]
          /\ \A d \in Call \ {c} : fate'[d] = fate[d]
          /\ Settled(fate'[c]) = st + 1
          /\ \A q \in {"ok", "failed", "unknown"} :
               /\ Number(fate[c], q) \in Nat
               /\ Number(fate'[c], q) >= Number(fate[c], q)
               /\ q = f => Number(fate'[c], q) = Number(fate[c], q) + 1
      BY <1>3, <3>1, FateGiven
    <3>3. \A d \in Call : Open(d)' = Open(d)
      BY <2>3 DEF Open
    <3>4. Load(c)' = (st + 1) + n + (m - 1)
      BY <1>1, <1>2, <1>5, <3>2, <3>3 DEF Load
    <3>5. Load(c)' = Load(c)
      <4> HIDE DEF st, n, m
      <4> QED
        BY <1>5, <1>6, <3>4
    <3>6. \A q \in {"ok", "failed", "unknown"} : Number(fate'[c], q) \in Nat
      BY <3>2, Numbers DEF Fates, Fate
    <3>7. Happened(c)'
      <4>1. CASE f = "failed"
        <5>1. Number(fate'[c], "failed") = Number(fate[c], "failed") + 1
              /\ failures' = failures + 1 /\ notFound' = notFound
          BY <2>3, <3>2, <4>1
        <5> QED
          BY <1>7, <1>8, <1>9, <3>2, <3>6, <5>1
      <4>2. CASE f = "unknown"
        <5>1. Number(fate'[c], "unknown") = Number(fate[c], "unknown") + 1
              /\ notFound' = notFound + 1 /\ failures' = failures
          BY <2>3, <3>2, <4>2
        <5> QED
          BY <1>7, <1>8, <1>9, <3>2, <3>6, <5>1
      <4> QED
        BY <4>1, <4>2
    <3>8. fate[c] \in [Target -> Fate]
      BY <1>3 DEF Fates
    <3>9. \A u \in Open(c)' : fate'[c][u] = "waiting" /\ u \notin todo'
      BY <1>1, <1>3, <1>4, <2>1, <3>2, <3>3, <3>8
    <3>10. \A u \in todo' : fate'[c][u] = "waiting"
      BY <1>1, <1>4, <2>2, <3>2, <3>8
    <3> QED
      BY <3>2, <3>3, <3>5, <3>7, <3>9, <3>10
  <2>4. CASE /\ contexts' = contexts \cup {<<current, t>>}
             /\ UNCHANGED <<notFound, failures, fate>>
    <3>1. Open(c)' = Open(c) \cup {t} /\ \A d \in Call \ {c} : Open(d)' = Open(d)
      BY <1>2, <2>4 DEF Open
    <3>2. Load(c)' = st + (n + 1) + (m - 1)
      BY <1>1, <1>2, <1>5, <2>4, <3>1 DEF Load
    <3>3. Load(c)' = Load(c)
      <4> HIDE DEF st, n, m
      <4> QED
        BY <1>5, <1>6, <3>2
    <3>4. Happened(c)' /\ Fates'
      BY <1>3, <1>8, <1>9, <2>4 DEF Fates
    <3> QED
      BY <1>1, <1>3, <2>1, <2>2, <2>4, <3>1, <3>3, <3>4
  <2> QED
    BY <2>3, <2>4 DEF SendToLamp
<1> HIDE DEF n, m, st
<1>11. ~Untouched(c)
  BY <1>2 DEF Untouched
<1>12. stage[c] \notin {"new", "queueing"} /\ c \notin methodQueue \cup taken
  BY <1>3, <1>11 DEF CallInv, Placed
<1>13. SettledOnce(c)'
  BY <1>1, <1>10, <1>12 DEF SettledOnce, clientVars, queueVars
<1>14. Registered(c)' /\ Told(c)'
  BY <1>1, <1>3, <1>10 DEF TellInv, Registered, Told, clientVars, queueVars
<1>15. ASSUME NEW d \in Call, d # c PROVE TellInv(d)'
  BY <1>1, <1>2, <1>10, <1>15, TellKept DEF AnswersInv, clientVars, queueVars
<1> QED
  BY <1>10, <1>13, <1>14, <1>15 DEF AnswersInv, TellInv

LEMMA FinishCallTells ==
  ASSUME CallsInv, AnswersInv, FinishCall
  PROVE  AnswersInv'
<1>1. /\ pc = "send" /\ todo = {} /\ todo' = {}
      /\ current' = None /\ notFound' = 0 /\ failures' = 0
      /\ UNCHANGED <<clientVars, methodQueue, taken, activeLamps, contexts, fate>>
  BY DEF FinishCall
<1>2. PICK c \in Call : c = current
  BY <1>1 DEF CallsInv, Loop, Shapes
<1>3. /\ Shapes /\ Fates /\ Fates' /\ CallInv(c) /\ TellInv(c) /\ c # current'
      /\ UNCHANGED Open(c)
  BY <1>1, <1>2, LampCallsAssumption DEF CallsInv, AnswersInv, Fates, Open
<1> DEFINE open == Cardinality(Open(c))
           r == responseMap[c]
           e == responseMap'[c]
<1>4. /\ open \in Nat /\ notFound \in Nat /\ failures \in Nat
      /\ Settled(fate[c]) \in Nat
      /\ \A q \in {"ok", "failed", "unknown"} : Number(fate[c], q) \in Nat
      /\ r.successCount \in Nat /\ r.failCount \in Nat /\ r.notFoundCount \in Nat
  BY <1>3, DueCounted, Numbers DEF Shapes, Fates, Fate, Counter
<1>5. /\ Load(c) = Settled(fate[c]) + open + 0
      /\ Load(c)' = Settled(fate[c]) + open
  <2>1. Cardinality(todo) = 0
    BY <1>1, NoTargets
  <2>2. Load(c) = Settled(fate[c]) + open + 0
    BY <1>2, <2>1 DEF Load
  <2>3. Load(c)' = Settled(fate[c]) + open
    BY <1>1, <1>3 DEF Load
  <2> QED
    BY <2>2, <2>3
<1>6. /\ r.successCount <= Number(fate[c], "ok")
      /\ r.failCount + failures <= Number(fate[c], "failed")
      /\ r.notFoundCount + notFound <= Number(fate[c], "unknown")
  BY <1>2, <1>3 DEF TellInv, Happened
<1>7. r.listed => r.total >= Settled(fate'[c]) + open + 0
  BY <1>1, <1>3, <1>5 DEF TellInv, Registered
<1>8. ~Untouched(c) /\ stage[c] \notin {"new", "queueing"}
      /\ c \notin methodQueue \cup taken /\ (r.listed => stage[c] = "done")
  BY <1>2, <1>3 DEF CallInv, Placed, Untouched
<1>9. Happened(c)' <=> /\ e.successCount <= Number(fate[c], "ok")
                       /\ e.failCount + 0 <= Number(fate[c], "failed")
                       /\ e.notFoundCount + 0 <= Number(fate[c], "unknown")
  BY <1>1, <1>3 DEF Happened
<1>10. e.successCount \in Nat /\ e.failCount \in Nat /\ e.notFoundCount \in Nat
  <2>1. Shapes'
    BY FinishCallKeeps DEF CallsInv
  <2> QED
    BY <2>1 DEF Shapes, Counter
<1>11. PICK f \in Nat, u \in Nat : f = failures /\ u = notFound
  BY <1>4
<1>12. Placed(c) /\ Covered(c)
  BY <1>3 DEF CallInv
<1>13. Tallied(c, 0, f, u)
  BY <1>2, <1>3, <1>11, <1>12, Tally DEF FinishCall, CountUnsent
<1> HIDE DEF open
<1>14. answers'[c] # answers[c] =>
         /\ r.listed /\ open = 0 /\ Tells(fate'[c], answers'[c][1])
  <2>1. CASE f + u > 0
    <3>1. 0 + f + u > 0
      BY <2>1
    <3>2. /\ r.successCount + 0 <= Number(fate'[c], "ok")
          /\ r.failCount + f <= Number(fate'[c], "failed")
          /\ r.notFoundCount + u <= Number(fate'[c], "unknown")
      BY <1>1, <1>4, <1>6, <1>11
    <3> QED
      BY <1>3, <1>4, <1>7, <1>13, <3>1, <3>2, TalliedTells
  <2>2. CASE ~(f + u > 0)
    <3>1. ~(notFound + failures > 0)
      BY <1>4, <1>11, <2>2
    <3> QED
      BY <3>1 DEF FinishCall, CountUnsent
  <2> QED
    BY <2>1, <2>2
<1>15. Happened(c)'
  <2>1. e.successCount <= r.successCount + 0 /\ e.failCount <= r.failCount + f
        /\ e.notFoundCount <= r.notFoundCount + u
    BY <1>13 DEF Tallied
  <2> HIDE DEF r, e
  <2> QED
    BY <1>4, <1>6, <1>9, <1>10, <1>11, <2>1
<1>16. SettledOnce(c)'
  BY <1>1, <1>3, <1>8 DEF TellInv, SettledOnce, clientVars
<1>17. Registered(c)'
  BY <1>1, <1>3, <1>4, <1>5, <1>13 DEF TellInv, Registered, Tallied, clientVars
<1>18. Told(c)'
  <2>1. open = 0 => Open(c)' = {}
    BY <1>3, NoTargets DEF open, Open
  <2>2. CASE answers'[c] # answers[c]
    BY <1>1, <1>3, <1>8, <1>14, <2>1, <2>2 DEF Told, clientVars
  <2>3. CASE answers'[c] = answers[c]
    BY <1>1, <1>3, <2>3 DEF TellInv, Told, clientVars
  <2> QED
    BY <2>2, <2>3
<1>19. ASSUME NEW d \in Call, d # c PROVE TellInv(d)'
  <2>1. TellInv(d) /\ UNCHANGED Open(d) /\ d # current'
    BY <1>1, <1>19, LampCallsAssumption DEF AnswersInv, Open
  <2> QED
    BY <1>1, <1>2, <1>13, <1>19, <2>1, TellKept DEF Tallied, clientVars
<1> QED
  BY <1>3, <1>15, <1>16, <1>17, <1>18, <1>19 DEF AnswersInv, TellInv

\* Steps that leave the commands, their counters and their lamp calls alone.
LEMMA IdlingTells ==
  ASSUME AnswersInv,
         UNCHANGED <<clientVars, responseMap, current, todo, notFound, failures,
                     contexts, answers, fate>>,
         (methodQueue \cup taken)' \subseteq methodQueue \cup taken
  PROVE  AnswersInv'
<1>1. Fates'
  BY DEF AnswersInv, Fates
<1>2. ASSUME NEW c \in Call PROVE TellInv(c)'
  BY TellKept DEF AnswersInv, Open, clientVars
<1> QED
  BY <1>1, <1>2 DEF AnswersInv

LEMMA ThreadTells ==
  ASSUME CallsInv, AnswersInv, Thread
  PROVE  AnswersInv'
<1>1. CASE Wake
  BY <1>1, IdlingTells DEF Wake, historyVars
<1>2. CASE TakeQueue
  BY <1>2, IdlingTells DEF TakeQueue, historyVars
<1>3. CASE EndOfPass
  BY <1>3, IdlingTells DEF EndOfPass, queueVars, historyVars
<1>4. CASE Cleanup
  BY <1>4, IdlingTells DEF Cleanup, passVars
<1> QED
  BY <1>1, <1>2, <1>3, <1>4, StartCallTells, SendToLampTells, FinishCallTells
     DEF Thread

LEMMA AnswersStep ==
  ASSUME CallsInv, AnswersInv, [Next]_vars
  PROVE  AnswersInv'
<1>1. CASE \E c \in Call : MethodCall(c)
  BY <1>1, MethodCallTells
<1>2. CASE \E c \in Call : ClientCallback(c)
  BY <1>2, PushTells, RegisterTells DEF ClientCallback
<1>3. CASE \E c \in Call : Reply(c)
  BY <1>3, HandleReplyTells DEF Reply
<1>4. CASE Thread
  BY <1>4, ThreadTells
<1>5. CASE ConnectToLamps \/ DisconnectFromLamps
  BY <1>5, IdlingTells DEF ConnectToLamps, DisconnectFromLamps, queueVars, passVars,
     historyVars
<1>6. CASE \E l \in Lamp : LampStateChangedSignalHandler(l)
  BY <1>6, IdlingTells DEF LampStateChangedSignalHandler, passVars, historyVars
<1>7. CASE UNCHANGED vars
  BY <1>7, IdlingTells DEF vars, clientVars, queueVars, passVars, historyVars
<1> QED
  BY <1>1, <1>2, <1>3, <1>4, <1>5, <1>6, <1>7 DEF Next

LEMMA InitAnswers == Init => AnswersInv
<1> SUFFICES ASSUME Init PROVE AnswersInv
  OBVIOUS
<1>1. "waiting" \in Fate
  BY DEF Fate
<1>2. Fates
  BY <1>1 DEF Init, Fates
<1>3. ASSUME NEW c \in Call PROVE TellInv(c)
  <2>1. Waiting(c) /\ Open(c) = {} /\ c # current
    BY LampCallsAssumption DEF Init, Waiting, Open
  <2>2. Load(c) = 0 /\ \A f \in {"ok", "failed", "unknown"} : Number(fate[c], f) = 0
    BY <1>2, <2>1, NothingDone
  <2>3. SettledOnce(c)
    BY <2>1 DEF Init, SettledOnce
  <2>4. Registered(c) /\ Happened(c) /\ Told(c)
    BY <2>1, <2>2 DEF Init, Registered, Happened, Told, NoEntry
  <2> QED
    BY <2>3, <2>4 DEF TellInv
<1> QED
  BY <1>2, <1>3 DEF AnswersInv

\* The code a client is told by SendMethodReply is what became of the calls to
\* its lamps, whichever of them were known, connected, reached or failed, and
\* in whatever order the replies and the thread's own counting came.
THEOREM AnswersAreTrue == Spec => []AnswersTell
<1>1. CallsInv /\ AnswersInv => AnswersTell
  BY DEF CallsInv, CallInv, Placed, AnswersInv, TellInv, Told, Tells, FatesOf,
         AnswersTell, AnsweredOnce
<1> QED
  BY <1>1, CallsInvHolds, InitAnswers, AnswersStep, PTL DEF Spec

=============================================================================
