-------------------------- MODULE BlobStoreProofs --------------------------
(***************************************************************************)
(* What is proved of the blob store, for any number of controllers,        *)
(* updates, crashes and messages: nothing changed in memory is missed by   *)
(* the thread that writes it, and no request is dropped.                   *)
(***************************************************************************)
EXTENDS BlobStore, TLAPS

-----------------------------------------------------------------------------
(* Data.                                                                   *)

\* The age of any time fits the type, whatever the clock did.
LEMMA AgeIsAge ==
  ASSUME TypeOK, NEW n \in Node, NEW ts \in Times
  PROVE  Age(n, ts) \in Ages
<1>1. clock[n] + Wrap - ts \in Nat
  BY BlobStoreAssumption DEF TypeOK, Times
<1>2. Wrap \in Nat \ {0}
  BY BlobStoreAssumption
<1>3. \A x \in Nat : x % Wrap \in 0..(Wrap - 1)
  BY <1>2
<1>. QED BY <1>1, <1>3 DEF Age, Ages

\* Blob messages of a stamped text are messages.
LEMMA BlobMsgsAreMsgs ==
  ASSUME TypeOK, NEW n \in Node, NEW to \in SUBSET Node,
         NEW f \in [blob : Blob, ts : Times], NEW sum \in Sums
  PROVE  BlobMsgs(n, to, f, sum) \subseteq Msg
<1>1. Age(n, f.ts) \in Ages
  BY AgeIsAge
<1>. QED BY <1>1 DEF BlobMsgs, Msg

LEMMA DataTypes ==
  /\ Empty \in 0..MaxUpdates
  /\ NoFile \in [blob : Blob, ts : Times]
  /\ \A b \in Blob : GetChecksum(b) \in Sums
  /\ \A b \in Blob, items \in 0..MaxUpdates : ReplaceMap(items, b) \in 0..MaxUpdates
  /\ \A items \in 0..MaxUpdates, i \in BOOLEAN :
       /\ GetString(items, i) \in Blob \ {Nothing}
       /\ ReplaceMap(Empty, GetString(items, i)) = items
  /\ 0 \in Times /\ 0 \in Sums /\ Nothing \in Blob
BY BlobStoreAssumption
   DEF Empty, NoFile, Blob, Times, GetChecksum, Sums, ReplaceMap, GetString,
       Nothing, ResetEntry, InitialEntry, Update

-----------------------------------------------------------------------------
(* Every variable keeps its type.                                          *)

\* Only a leader has followers.
FollowersHaveLeader == followers # {} => leader \in Node

TypeInv == TypeOK /\ FollowersHaveLeader

LEMMA InitType == Init => TypeInv
BY DataTypes, BlobStoreAssumption
   DEF Init, TypeInv, TypeOK, FollowersHaveLeader, Times, Blob

LEMMA PassType ==
  ASSUME TypeInv, NEW n \in Node, Pass(n)
  PROVE  TypeInv'
<1> USE DEF TypeInv, FollowersHaveLeader, storeVars, writeVars, readVars,
            hostVars, netVars
<1>1. output[n] \in [blob : Blob, ts : Times] /\ output[n].blob \in Blob
        /\ output[n].ts \in Times
  BY DEF TypeOK
<1>2. CASE CopyMap(n)
  <2>1. sceneElements[n] \in Blob
    BY BlobStoreAssumption DEF TypeOK, Blob, Nothing
  <2>2. NoFile \in [blob : Blob, ts : Times]
    BY DataTypes
  <2>3. output' \in [Node -> [blob : Blob, ts : Times]]
    <3>1. CASE updated[n]
      <4>1. output' = [output EXCEPT ![n].blob = sceneElements[n]]
        BY <1>2, <3>1 DEF CopyMap
      <4>2. output \in [Node -> [blob : Blob, ts : Times]]
        BY DEF TypeOK
      <4>. QED BY <4>1, <4>2, <2>1
    <3>2. CASE ~updated[n]
      BY <1>2, <2>2, <3>2 DEF TypeOK, CopyMap
    <3>. QED BY <3>1, <3>2
  <2>. QED BY <1>2, <2>3 DEF TypeOK, CopyMap
<1>3. CASE Format(n)
  <2>1. output[n].blob \in 0..MaxUpdates => GetString(output[n].blob, initialState[n]) \in Blob
    BY DataTypes DEF TypeOK
  <2>2. GetString(output[n].blob, initialState[n]) \in Blob
    BY <1>1, BlobStoreAssumption DEF GetString, Blob, Empty, ResetEntry, InitialEntry, Nothing
  <2>. QED BY <1>3, <1>1, <2>2 DEF TypeOK, Format
<1>4. CASE Stamp(n)
  <2>1. timeStamp[n] \in Times /\ clock[n] \in Times /\ 0 \in Times
          /\ GetChecksum(output[n].blob) \in Sums
    BY <1>1, DataTypes DEF TypeOK
  <2>2. (blobUpdateCycle[n] /\ initialState[n]) \in BOOLEAN
    BY DEF TypeOK
  <2>. QED BY <1>4, <1>1, <2>1, <2>2 DEF TypeOK, Stamp
<1>5. CASE WriteFile(n)
  <2>1. GetChecksum(output[n].blob) \in Sums
    BY <1>1, DataTypes
  <2>2. \A to \in SUBSET Node :
          BlobMsgs(n, to, output[n], GetChecksum(output[n].blob)) \subseteq Msg
    BY <1>1, <2>1, BlobMsgsAreMsgs
  <2>3. followers \in SUBSET Node /\ {} \in SUBSET Node
    BY DEF TypeOK
  <2>4. msgs' \subseteq Msg
    BY <1>5, <2>2, <2>3 DEF WriteFile, TypeOK
  <2>. QED BY <1>5, <1>1, <2>4 DEF TypeOK, WriteFile
<1>6. CASE Answer(n)
  <2> DEFINE readFile == ~Valid(output[n]) /\ (readBlobMessages[n] # {} \/ sendUpdate[n])
             answer == IF readFile THEN file[n] ELSE output[n]
             to == IF Valid(answer) THEN readBlobMessages[n] ELSE {}
  <2>1. answer \in [blob : Blob, ts : Times] /\ answer.blob \in Blob
    BY <1>1 DEF TypeOK
  <2>2. to \in SUBSET Node
    BY DEF TypeOK
  <2>3. GetChecksum(answer.blob) \in Sums
    BY <2>1, DataTypes
  <2>4. BlobMsgs(n, to, answer, GetChecksum(answer.blob)) \subseteq Msg
    BY <2>1, <2>2, <2>3, BlobMsgsAreMsgs
  <2>5. /\ msgs' = msgs \cup BlobMsgs(n, to, answer, GetChecksum(answer.blob))
        /\ output' = [output EXCEPT ![n] = answer]
    BY <1>6 DEF Answer
  <2>6. msgs' \subseteq Msg
    BY <2>4, <2>5 DEF TypeOK
  <2>7. output' \in [Node -> [blob : Blob, ts : Times]]
    BY <2>1, <2>5 DEF TypeOK
  <2> HIDE DEF answer, to, readFile
  <2>. QED BY <1>6, <2>6, <2>7 DEF TypeOK, Answer
<1>7. CASE Push(n)
  <2> DEFINE to == IF n \in followers THEN {leader} ELSE {}
  <2>1. to \in SUBSET Node
    BY DEF FollowersHaveLeader
  <2>2. BlobMsgs(n, to, output[n], GetChecksum(output[n].blob)) \subseteq Msg
    BY <1>1, <2>1, DataTypes, BlobMsgsAreMsgs
  <2>3. ASSUME NEW sum \in {checkSum[n], GetChecksum(Nothing)},
               NEW ts \in {0, timeStamp[n]}
        PROVE  BlobMsgs(n, to, [blob |-> Nothing, ts |-> ts], sum) \subseteq Msg
    <3>1. GetChecksum(Nothing) \in Sums
      BY DataTypes
    <3>2. sum \in Sums
      BY <3>1 DEF TypeOK
    <3>3. [blob |-> Nothing, ts |-> ts] \in [blob : Blob, ts : Times]
      BY DataTypes DEF TypeOK
    <3>. QED BY <3>2, <3>3, <2>1, BlobMsgsAreMsgs
  <2>4. msgs' \subseteq Msg
    BY <1>7, <2>2, <2>3 DEF Push, TypeOK
  <2>. QED BY <1>7, <2>4, DataTypes DEF TypeOK, Push
<1>. QED BY <1>2, <1>3, <1>4, <1>5, <1>6, <1>7 DEF Pass

LEMMA ManagerType ==
  ASSUME TypeInv, NEW n \in Node,
         \/ PostOfOtherStore(n)
         \/ ReadSavedData(n)
         \/ CreateOrChange(n)
         \/ Reset(n)
  PROVE  TypeInv'
<1> USE DEF TypeInv, FollowersHaveLeader, storeVars, writeVars, readVars, passVars,
            hostVars, netVars, ScheduleFileWrite, ScheduleFileReadWrite
<1>1. CASE PostOfOtherStore(n)
  BY <1>1 DEF PostOfOtherStore, TypeOK
<1>2. CASE ReadSavedData(n)
  <2>1. file[n].blob \in Blob /\ file[n].ts \in Times
    BY DEF TypeOK
  <2>2. /\ ReplaceMap(Empty, file[n].blob) \in 0..MaxUpdates
        /\ GetChecksum(file[n].blob) \in Sums
    BY <2>1, DataTypes
  <2>. QED BY <1>2, <2>1, <2>2 DEF ReadSavedData, TypeOK
<1>3. ASSUME NEW to \in 0..MaxUpdates, ClientUpdate(n, to)
      PROVE  TypeInv'
  <2>1. updates + 1 \in 0..MaxUpdates
    BY <1>3, BlobStoreAssumption DEF ClientUpdate, TypeOK
  <2>. QED BY <1>3, <2>1 DEF ClientUpdate, TypeOK
<1>4. CASE CreateOrChange(n)
  <2>1. updates + 1 \in 0..MaxUpdates
    BY <1>4, BlobStoreAssumption DEF CreateOrChange, ClientUpdate, TypeOK
  <2>. QED BY <1>3, <1>4, <2>1 DEF CreateOrChange
<1>5. CASE Reset(n)
  BY <1>3, <1>5, DataTypes DEF Reset
<1>. QED BY <1>1, <1>2, <1>4, <1>5

LEMMA MessageType ==
  ASSUME TypeInv, NEW m \in msgs,
         \/ HandleReceivedBlob(m.to, m)
         \/ GetChecksumAndModificationTimestamp(m.to, m)
         \/ OnGetChecksumAndModificationTimestampReply(m.to, m)
         \/ GetBlob(m.to, m)
         \/ Lose(m)
  PROVE  TypeInv'
<1> USE DEF TypeInv, FollowersHaveLeader, storeVars, writeVars, readVars, passVars,
            hostVars, netVars, ScheduleFileWrite, ScheduleFileReadWrite
<1>1. m \in Msg /\ msgs \subseteq Msg
  BY DEF TypeOK
<1>2. m.to \in Node /\ m.from \in Node
  BY <1>1 DEF Msg
<1>3. CASE HandleReceivedBlob(m.to, m)
  <2>1. m.blob \in Blob /\ m.sum \in Sums
    BY <1>1, <1>3 DEF HandleReceivedBlob, Msg
  <2>2. ReplaceMap(sceneElements[m.to], m.blob) \in 0..MaxUpdates
    BY <2>1, <1>2, DataTypes DEF TypeOK
  <2>3. CASE IsNewer(m.to, m)
    <3>1. clock[m.to] \in Times
      BY <1>2 DEF TypeOK
    <3>2. /\ sceneElements' = [sceneElements EXCEPT ![m.to] = ReplaceMap(@, m.blob)]
          /\ timeStamp' = [timeStamp EXCEPT ![m.to] = clock[m.to]]
          /\ checkSum' = [checkSum EXCEPT ![m.to] = m.sum]
          /\ updated' = [updated EXCEPT ![m.to] = TRUE]
          /\ blobUpdateCycle' = [blobUpdateCycle EXCEPT ![m.to] = TRUE]
          /\ initialState' = [initialState EXCEPT ![m.to] = FALSE]
          /\ semaphore' = [semaphore EXCEPT ![m.to] = TRUE]
          /\ msgs' = msgs \ {m}
          /\ UNCHANGED <<readVars, passVars, hostVars, leader, followers, updates>>
      BY <1>3, <2>3 DEF HandleReceivedBlob
    <3>3. /\ sceneElements' \in [Node -> 0..MaxUpdates]
          /\ timeStamp' \in [Node -> Times]
          /\ checkSum' \in [Node -> Sums]
      BY <2>1, <2>2, <3>1, <3>2 DEF TypeOK
    <3>. QED BY <3>2, <3>3 DEF TypeOK
  <2>4. CASE ~IsNewer(m.to, m)
    BY <1>3, <2>4 DEF HandleReceivedBlob, TypeOK
  <2>. QED BY <2>3, <2>4
<1>4. CASE GetChecksumAndModificationTimestamp(m.to, m)
  <2> DEFINE age == IF timeStamp[m.to] = 0 THEN 0 ELSE Age(m.to, timeStamp[m.to])
  <2>1. Age(m.to, timeStamp[m.to]) \in Ages
    BY <1>2, AgeIsAge DEF TypeOK
  <2>2. 0 \in Ages
    BY BlobStoreAssumption DEF Ages
  <2>3. age \in Ages /\ checkSum[m.to] \in Sums
    BY <2>1, <2>2, <1>2 DEF TypeOK
  <2>4. msgs' = (msgs \ {m}) \cup
          [type : {"checksumReply"}, from : {m.to}, to : {m.from},
           sum : {checkSum[m.to]}, age : {age}]
    BY <1>4 DEF GetChecksumAndModificationTimestamp
  <2> HIDE DEF age
  <2>5. msgs' \subseteq Msg
    BY <2>3, <2>4, <1>1, <1>2 DEF Msg
  <2>. QED BY <1>4, <2>5 DEF GetChecksumAndModificationTimestamp, TypeOK
<1>5. CASE OnGetChecksumAndModificationTimestampReply(m.to, m)
  <2> DEFINE to == IF NeedToFetch(m.to, m) /\ m.to \in followers THEN {leader} ELSE {}
  <2>1. to \in SUBSET Node
    OBVIOUS
  <2>2. msgs' = (msgs \ {m}) \cup [type : {"getBlob"}, from : {m.to}, to : to]
    BY <1>5 DEF OnGetChecksumAndModificationTimestampReply
  <2> HIDE DEF to
  <2>3. msgs' \subseteq Msg
    BY <2>1, <2>2, <1>1, <1>2 DEF Msg
  <2>. QED BY <1>2, <1>5, <2>3 DEF OnGetChecksumAndModificationTimestampReply, TypeOK
<1>6. CASE GetBlob(m.to, m)
  BY <1>2, <1>6 DEF GetBlob, TypeOK
<1>7. CASE Lose(m)
  BY <1>7 DEF Lose, TypeOK
<1>. QED BY <1>3, <1>4, <1>5, <1>6, <1>7

LEMMA EnvironmentType ==
  ASSUME TypeInv,
         \/ \E n \in Node : Join(n) \/ TakeOver(n) \/ Down(n) \/ HostRestart(n)
         \/ Tick
  PROVE  TypeInv'
<1> USE DEF TypeInv, FollowersHaveLeader, storeVars, writeVars, readVars, passVars,
            hostVars, netVars
<1>1. ASSUME NEW n \in Node, Join(n) PROVE TypeInv'
  BY <1>1 DEF Join, TypeOK, Msg
<1>2. ASSUME NEW n \in Node, TakeOver(n) PROVE TypeInv'
  BY <1>2 DEF TakeOver, TypeOK
<1>3. ASSUME NEW n \in Node, Down(n) PROVE TypeInv'
  <2>1. downs + 1 \in 0..MaxDowns
    BY <1>3, BlobStoreAssumption DEF Down, TypeOK
  <2>2. file' \in [Node -> [blob : Blob, ts : Times]]
    BY <1>3, DataTypes DEF Down, TypeOK
  <2>3. output' \in [Node -> [blob : Blob, ts : Times]]
    BY <1>3, DataTypes DEF Down, TypeOK
  <2>4. /\ timeStamp' \in [Node -> Times]
        /\ checkSum' \in [Node -> Sums]
        /\ sceneElements' \in [Node -> 0..MaxUpdates]
    BY <1>3, DataTypes DEF Down, TypeOK
  <2>5. /\ leader' \in Node \cup {NoLeader}
        /\ followers' \subseteq Node
        /\ followers' # {} => leader' \in Node
    BY <1>3 DEF Down, TypeOK
  <2>. QED BY <1>3, <2>1, <2>2, <2>3, <2>4, <2>5 DEF Down, TypeOK
<1>4. ASSUME NEW n \in Node, HostRestart(n) PROVE TypeInv'
  <2>1. 1 \in Times
    BY BlobStoreAssumption DEF Times
  <2>. QED BY <1>4, <2>1 DEF HostRestart, TypeOK
<1>5. CASE Tick
  <2>1. \A n \in Node : clock[n] + 1 \in Times
    BY <1>5, BlobStoreAssumption DEF Tick, TypeOK, Times
  <2>. QED BY <1>5, <2>1 DEF Tick, TypeOK
<1>. QED BY <1>1, <1>2, <1>3, <1>4, <1>5

LEMMA TypeStep == TypeInv /\ [Next]_vars => TypeInv'
<1>1. ASSUME TypeInv, Next PROVE TypeInv'
  BY <1>1, PassType, ManagerType, MessageType, EnvironmentType DEF Next
<1>2. TypeInv /\ UNCHANGED vars => TypeInv'
  BY DEF TypeInv, FollowersHaveLeader, TypeOK, vars, storeVars, writeVars, readVars,
         passVars, hostVars, netVars
<1>. QED BY <1>1, <1>2

\* Every variable of the store keeps its type, for any number of controllers
\* and any bounds.
THEOREM StoreTypeInvariant == Spec => []TypeOK
<1>1. Spec => []TypeInv
  BY InitType, TypeStep, PTL DEF Spec
<1>2. TypeInv => TypeOK
  BY DEF TypeInv
<1>. QED BY <1>1, <1>2, PTL

-----------------------------------------------------------------------------
(* The inductive invariant.                                                *)

\* What f says of the store is what the Manager holds.
Holds(n, f) ==
  /\ sceneElements[n] = ReplaceMap(Empty, f.blob)
  /\ timeStamp[n] = f.ts
  /\ checkSum[n] = GetChecksum(f.blob)

\* What the thread of n has in hand is fit for its next step.
PassInv(n) ==
  /\ pc[n] = "copied" => output[n].blob \in 0..MaxUpdates
  /\ pc[n] \in {"formatted", "stamped"} => Valid(output[n])
  /\ pc[n] \in {"answer", "push"} => Valid(file[n])

\* As long as no change is noted, the memory is what this pass or an earlier
\* one has copied, formatted, stamped or written.
UpToDate(n) ==
  ~updated[n] =>
    /\ pc[n] = "copied" => sceneElements[n] = output[n].blob
    /\ pc[n] = "formatted" => sceneElements[n] = ReplaceMap(Empty, output[n].blob)
    /\ pc[n] = "stamped" => Holds(n, output[n])
    /\ pc[n] \in {"wait", "answer", "push"} => Valid(file[n]) /\ Holds(n, file[n])

\* A thread that is up has a post for what it has not taken up in this pass,
\* and one that is down has nothing to do.
Signalled(n) ==
  /\ updated[n] => semaphore[n] /\ Up(n)
  /\ readBlobMessages[n] # {} => Up(n) /\ (pc[n] \in {"wait", "push"} => semaphore[n])
  /\ sendUpdate[n] => Up(n) /\ (pc[n] = "wait" => semaphore[n])

NodeInv(n) == PassInv(n) /\ UpToDate(n) /\ Signalled(n)

StoreInv == TypeInv /\ \A n \in Node : NodeInv(n)

\* What NodeInv says of p depends on these only.
View(p) == <<sceneElements[p], timeStamp[p], checkSum[p], updated[p],
             readBlobMessages[p], sendUpdate[p], semaphore[p], pc[p], output[p],
             file[p]>>

LEMMA Frame ==
  ASSUME NEW p \in Node, NodeInv(p), View(p)' = View(p)
  PROVE  NodeInv(p)'
BY DEF NodeInv, PassInv, UpToDate, Signalled, Holds, View, Up, Valid

LEMMA InitStore == Init => StoreInv
<1>1. ASSUME Init, NEW n \in Node PROVE NodeInv(n)
  BY <1>1 DEF Init, NodeInv, PassInv, UpToDate, Signalled, Up
<1>. QED BY <1>1, InitType DEF StoreInv

\* A step of the thread of n, by the place it leaves.
LEMMA PassStep ==
  ASSUME StoreInv, NEW n \in Node, Pass(n), NEW p \in Node
  PROVE  NodeInv(p)'
<1> USE DEF storeVars, writeVars, readVars, hostVars, netVars
<1>1. NodeInv(p) /\ NodeInv(n) /\ TypeOK
  BY DEF StoreInv, TypeInv
<1>2. CASE p # n
  <2>1. View(p)' = View(p)
    BY <1>1, <1>2
       DEF Pass, CopyMap, Format, Stamp, WriteFile, Answer, Push, View, TypeOK
  <2>. QED BY <1>1, <2>1, Frame
<1>3. CASE p = n
  <2> USE <1>1 DEF NodeInv, PassInv, UpToDate, Signalled, Holds, Up, Valid
  <2>1. CASE CopyMap(n)
    <3>1. sceneElements[n] \in 0..MaxUpdates
      BY DEF TypeOK
    <3>2. CASE updated[n]
      <4>1. output'[n].blob = sceneElements[n]
        BY <2>1, <3>2 DEF CopyMap, TypeOK
      <4>. QED BY <2>1, <3>1, <3>2, <4>1, <1>3 DEF CopyMap, TypeOK
    <3>3. CASE ~updated[n]
      BY <2>1, <3>3, <1>3 DEF CopyMap, TypeOK
    <3>. QED BY <3>2, <3>3
  <2>2. CASE Format(n)
    <3>1. output'[n].blob = GetString(output[n].blob, initialState[n])
      BY <2>2 DEF Format, TypeOK
    <3>2. /\ GetString(output[n].blob, initialState[n]) # Nothing
          /\ ReplaceMap(Empty, GetString(output[n].blob, initialState[n])) = output[n].blob
      BY <2>2, DataTypes DEF Format, TypeOK
    <3>. QED BY <2>2, <3>1, <3>2, <1>3 DEF Format, TypeOK
  <2>3. CASE Stamp(n)
    <3>1. /\ output'[n].blob = output[n].blob
          /\ timeStamp'[n] = output'[n].ts
          /\ checkSum'[n] = GetChecksum(output[n].blob)
      BY <2>3 DEF Stamp, TypeOK
    <3>. QED BY <2>3, <3>1, <1>3 DEF Stamp, TypeOK
  <2>4. CASE WriteFile(n)
    <3>1. file'[n] = output[n]
      BY <2>4 DEF WriteFile, TypeOK
    <3>. QED BY <2>4, <3>1, <1>3 DEF WriteFile, TypeOK
  <2>5. CASE Answer(n)
    BY <2>5, <1>3 DEF Answer, TypeOK
  <2>6. CASE Push(n)
    BY <2>6, <1>3 DEF Push, TypeOK
  <2>. QED BY <2>1, <2>2, <2>3, <2>4, <2>5, <2>6 DEF Pass
<1>. QED BY <1>2, <1>3

LEMMA ManagerStep ==
  ASSUME StoreInv, NEW n \in Node, NEW p \in Node,
         \/ PostOfOtherStore(n)
         \/ ReadSavedData(n)
         \/ CreateOrChange(n)
         \/ Reset(n)
  PROVE  NodeInv(p)'
<1> USE DEF storeVars, writeVars, readVars, passVars, hostVars, netVars,
            ScheduleFileWrite, ScheduleFileReadWrite, CreateOrChange, Reset
<1>1. NodeInv(p) /\ NodeInv(n) /\ TypeOK
  BY DEF StoreInv, TypeInv
<1>2. CASE p # n
  <2>1. View(p)' = View(p)
    BY <1>1, <1>2 DEF PostOfOtherStore, ReadSavedData, ClientUpdate, View, TypeOK
  <2>. QED BY <1>1, <2>1, Frame
<1>3. CASE p = n
  <2> USE <1>1 DEF NodeInv, PassInv, UpToDate, Signalled, Holds, Up, Valid
  <2>1. CASE PostOfOtherStore(n)
    BY <2>1, <1>3 DEF PostOfOtherStore, TypeOK
  <2>2. CASE ReadSavedData(n)
    BY <2>2, <1>3 DEF ReadSavedData, TypeOK
  <2>3. ASSUME NEW to \in Nat, ClientUpdate(n, to) PROVE NodeInv(n)'
    BY <2>3 DEF ClientUpdate, TypeOK
  <2>4. Empty \in Nat /\ updates + 1 \in Nat
    BY BlobStoreAssumption DEF Empty, TypeOK
  <2>. QED BY <2>1, <2>2, <2>3, <2>4, <1>3
<1>. QED BY <1>2, <1>3

LEMMA MessageStep ==
  ASSUME StoreInv, NEW m \in msgs, NEW p \in Node,
         \/ HandleReceivedBlob(m.to, m)
         \/ GetChecksumAndModificationTimestamp(m.to, m)
         \/ OnGetChecksumAndModificationTimestampReply(m.to, m)
         \/ GetBlob(m.to, m)
         \/ Lose(m)
  PROVE  NodeInv(p)'
<1> DEFINE n == m.to
<1> USE DEF storeVars, writeVars, readVars, passVars, hostVars, netVars,
            ScheduleFileWrite, ScheduleFileReadWrite
<1>1. n \in Node
  BY DEF StoreInv, TypeInv, TypeOK, Msg
<1>2. NodeInv(p) /\ NodeInv(n) /\ TypeOK
  BY <1>1 DEF StoreInv, TypeInv
<1> HIDE DEF n
<1>3. \/ HandleReceivedBlob(n, m)
      \/ GetChecksumAndModificationTimestamp(n, m)
      \/ OnGetChecksumAndModificationTimestampReply(n, m)
      \/ GetBlob(n, m)
      \/ Lose(m)
  BY DEF n
<1>4. CASE p # n
  <2>1. View(p)' = View(p)
    BY <1>1, <1>2, <1>3, <1>4
       DEF HandleReceivedBlob, GetChecksumAndModificationTimestamp,
           OnGetChecksumAndModificationTimestampReply, GetBlob, Lose, View, TypeOK
  <2>. QED BY <1>2, <2>1, Frame
<1>5. CASE p = n
  <2> USE <1>1, <1>2 DEF NodeInv, PassInv, UpToDate, Signalled, Holds, Up, Valid
  <2>1. CASE HandleReceivedBlob(n, m) /\ IsNewer(n, m)
    BY <2>1, <1>5 DEF HandleReceivedBlob, TypeOK
  <2>2. CASE HandleReceivedBlob(n, m) /\ ~IsNewer(n, m)
    BY <2>2, <1>5 DEF HandleReceivedBlob, TypeOK
  <2>3. CASE GetChecksumAndModificationTimestamp(n, m)
    BY <2>3, <1>5 DEF GetChecksumAndModificationTimestamp, TypeOK
  <2>4. CASE OnGetChecksumAndModificationTimestampReply(n, m)
    BY <2>4, <1>5 DEF OnGetChecksumAndModificationTimestampReply, TypeOK
  <2>5. CASE GetBlob(n, m)
    BY <2>5, <1>5 DEF GetBlob, TypeOK
  <2>6. CASE Lose(m)
    BY <2>6, <1>5 DEF Lose, TypeOK
  <2>. QED BY <1>3, <2>1, <2>2, <2>3, <2>4, <2>5, <2>6
<1>. QED BY <1>4, <1>5

LEMMA EnvironmentStep ==
  ASSUME StoreInv, NEW p \in Node,
         \/ \E n \in Node : Join(n) \/ TakeOver(n) \/ Down(n) \/ HostRestart(n)
         \/ Tick
  PROVE  NodeInv(p)'
<1> USE DEF storeVars, writeVars, readVars, passVars, hostVars, netVars
<1>1. NodeInv(p) /\ TypeOK
  BY DEF StoreInv, TypeInv
<1>2. ASSUME NEW n \in Node, Down(n) PROVE NodeInv(p)'
  <2>1. CASE p # n
    <3>1. View(p)' = View(p)
      BY <1>1, <1>2, <2>1 DEF Down, View, TypeOK
    <3>. QED BY <1>1, <3>1, Frame
  <2>2. CASE p = n
    BY <1>1, <1>2, <2>2 DEF Down, NodeInv, PassInv, UpToDate, Signalled, TypeOK
  <2>. QED BY <2>1, <2>2
<1>3. ASSUME NEW n \in Node, Join(n) \/ TakeOver(n) \/ HostRestart(n) PROVE NodeInv(p)'
  <2>1. View(p)' = View(p)
    BY <1>3 DEF Join, TakeOver, HostRestart, View
  <2>. QED BY <1>1, <2>1, Frame
<1>4. CASE Tick
  <2>1. View(p)' = View(p)
    BY <1>4 DEF Tick, View
  <2>. QED BY <1>1, <2>1, Frame
<1>. QED BY <1>2, <1>3, <1>4

LEMMA StoreStep == StoreInv /\ [Next]_vars => StoreInv'
<1>1. ASSUME StoreInv, Next, NEW p \in Node PROVE NodeInv(p)'
  BY <1>1, PassStep, ManagerStep, MessageStep, EnvironmentStep DEF Next
<1>2. ASSUME StoreInv, UNCHANGED vars, NEW p \in Node PROVE NodeInv(p)'
  <2>1. View(p)' = View(p)
    BY <1>2 DEF View, vars, storeVars, writeVars, readVars, passVars, hostVars
  <2>. QED BY <1>2, <2>1, Frame DEF StoreInv
<1>. QED BY <1>1, <1>2, TypeStep DEF StoreInv

LEMMA StoreInvariant == Spec => []StoreInv
BY InitStore, StoreStep, PTL DEF Spec

-----------------------------------------------------------------------------
(* The properties.                                                         *)

\* A thread that waits with nothing noted has the memory on disk, with the
\* time and checksum that synchronization compares: no change made while a
\* pass of ReadWriteFile runs is missed.
THEOREM MemoryIsOnDisk == Spec => []MemoryOnDisk
<1>1. StoreInv => MemoryOnDisk
  BY DEF StoreInv, NodeInv, UpToDate, Holds, MemoryOnDisk
<1>. QED BY <1>1, StoreInvariant, PTL

\* The persistence thread never sleeps on noted work without a post.
THEOREM NoWorkWithoutPost == Spec => []WorkIsSignalled
<1>1. StoreInv => WorkIsSignalled
  BY DEF StoreInv, NodeInv, Signalled, WorkIsSignalled
<1>. QED BY <1>1, StoreInvariant, PTL

\* Only a step of the thread, or the end of the process, takes a request off
\* the list.
LEMMA RequestsAreKept ==
  ASSUME StoreInv, [Next]_vars, NEW n \in Node, NEW f \in Node,
         f \in readBlobMessages[n], pc'[n] # "down", f \notin readBlobMessages'[n]
  PROVE  Answer(n)
<1> USE DEF storeVars, writeVars, readVars, passVars, hostVars, netVars
<1>1. TypeOK /\ Up(n)
  BY DEF StoreInv, TypeInv, NodeInv, Signalled
<1>2. ASSUME NEW q \in Node, Pass(q) PROVE Answer(n)
  BY <1>1, <1>2 DEF Pass, CopyMap, Format, Stamp, WriteFile, Answer, Push, TypeOK
<1>3. ASSUME NEW q \in Node,
             \/ PostOfOtherStore(q) \/ ReadSavedData(q) \/ CreateOrChange(q)
             \/ Reset(q) \/ Join(q) \/ TakeOver(q) \/ HostRestart(q)
      PROVE  FALSE
  BY <1>3 DEF PostOfOtherStore, ReadSavedData, CreateOrChange, Reset, ClientUpdate,
              Join, TakeOver, HostRestart
<1>4. ASSUME NEW q \in Node, Down(q) PROVE FALSE
  BY <1>1, <1>4 DEF Down, TypeOK
<1>5. ASSUME NEW m \in msgs, GetBlob(m.to, m) PROVE FALSE
  BY <1>1, <1>5 DEF GetBlob, TypeOK
<1>6. ASSUME NEW m \in msgs,
             \/ HandleReceivedBlob(m.to, m)
             \/ GetChecksumAndModificationTimestamp(m.to, m)
             \/ OnGetChecksumAndModificationTimestampReply(m.to, m)
             \/ Lose(m)
      PROVE  FALSE
  BY <1>6 DEF HandleReceivedBlob, GetChecksumAndModificationTimestamp,
              OnGetChecksumAndModificationTimestampReply, Lose
<1>7. CASE Tick
  BY <1>7 DEF Tick
<1>8. CASE UNCHANGED vars
  BY <1>8 DEF vars
<1>. QED BY <1>2, <1>3, <1>4, <1>5, <1>6, <1>7, <1>8 DEF Next

\* A GetBlob request leaves the list of a running process with its answer.
THEOREM NoRequestIsDropped == Spec => NoRequestDropped
<1>1. ASSUME StoreInv, [Next]_vars, NEW n \in Node, NEW f \in Node,
             f \in readBlobMessages[n], pc'[n] # "down", f \notin readBlobMessages'[n]
      PROVE  \E m \in msgs' : m.type = "blob" /\ m.from = n /\ m.to = f
  <2> DEFINE readFile == ~Valid(output[n]) /\ (readBlobMessages[n] # {} \/ sendUpdate[n])
             answer == IF readFile THEN file[n] ELSE output[n]
             m == [type |-> "blob", from |-> n, to |-> f, blob |-> answer.blob,
                   sum |-> GetChecksum(answer.blob), age |-> Age(n, answer.ts)]
  <2>1. Answer(n)
    BY <1>1, RequestsAreKept
  <2>2. Valid(file[n])
    BY <1>1, <2>1 DEF StoreInv, NodeInv, PassInv, Answer
  <2>3. Valid(answer)
    BY <1>1, <2>2
  <2>4. m \in BlobMsgs(n, readBlobMessages[n], answer, GetChecksum(answer.blob))
    BY <1>1 DEF BlobMsgs
  <2>5. BlobMsgs(n, readBlobMessages[n], answer, GetChecksum(answer.blob)) \subseteq msgs'
    BY <2>1, <2>3 DEF Answer
  <2>. QED BY <2>4, <2>5
<1>2. StoreInv /\ [Next]_vars =>
        [\A n, f \in Node :
           f \in readBlobMessages[n] /\ pc'[n] # "down" /\ f \notin readBlobMessages'[n]
             => \E m \in msgs' : m.type = "blob" /\ m.from = n /\ m.to = f]_vars
  BY <1>1
<1>. QED BY <1>2, StoreInvariant, PTL DEF Spec, NoRequestDropped

=============================================================================
