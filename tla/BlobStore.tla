----------------------------- MODULE BlobStore -----------------------------
(***************************************************************************)
(* One store of the Controller Service (the scene elements), kept in       *)
(* memory by a Manager, written to its file by the PersistenceThread, and  *)
(* copied between the controllers as a blob with a checksum and an age.    *)
(* Who leads and who follows is settled elsewhere (LeaderElection): here   *)
(* leadership and the followers' sessions change as that module allows.    *)
(***************************************************************************)
EXTENDS Naturals, FiniteSets

CONSTANTS
  Node,        \* the controllers
  MaxUpdates,  \* bound: operations of clients that change the store
  Resets,      \* TRUE: among them are those that leave the store empty
  MaxClock,    \* bound: what a clock counts to
  Wrap,        \* 2^64 in the code: times are unsigned
  Candidates,  \* the controllers that may lead
  Busy,        \* the controllers whose other stores have work, too
  Mortal,      \* the controllers whose process may end at any moment
  Unplugged,   \* the controllers whose host may restart while they are down
  MaxDowns,    \* bound: how many processes end
  NoLeader     \* nobody leads

ASSUME BlobStoreAssumption ==
  /\ MaxUpdates \in Nat /\ MaxClock \in Nat \ {0} /\ MaxDowns \in Nat
  /\ Resets \in BOOLEAN
  /\ Wrap \in Nat /\ Wrap > MaxClock
  /\ Candidates \cup Busy \cup Mortal \cup Unplugged \subseteq Node
  /\ NoLeader \notin Node

VARIABLES
  \* the Manager of each controller
  sceneElements, timeStamp, checkSum,
  updated, blobUpdateCycle, initialState, readBlobMessages, sendUpdate,
  \* the PersistenceThread of each controller, and its pass
  semaphore, pc, output,
  \* what outlives the process
  file, clock,
  \* the other controllers, the network and the clients
  leader, followers, msgs, updates, downs

storeVars == <<sceneElements, timeStamp, checkSum>>
writeVars == <<updated, blobUpdateCycle, initialState>>
readVars  == <<readBlobMessages, sendUpdate>>
passVars  == <<pc, output>>
hostVars  == <<file, clock, downs>>
netVars   == <<leader, followers, msgs>>

vars == <<storeVars, writeVars, readVars, semaphore, passVars, hostVars,
          netVars, updates>>

-----------------------------------------------------------------------------
(* Data.  A map is 0 when empty and otherwise the number of the client     *)
(* operation that left it so.  A blob is the text of a map, or the entry   *)
(* that stands for an empty one; checksums do not collide, and 0 is none.  *)

Empty        == 0
Update       == 1..MaxUpdates
ResetEntry   == 0
InitialEntry == MaxUpdates + 1
Nothing      == MaxUpdates + 2    \* no text at all, or a torn file
Blob         == 0..Nothing

GetChecksum(b) == b + 1
Sums == 0..(Nothing + 1)

Times == 0..MaxClock
Ages  == 0..(Wrap - 1)

GetString(items, initial) ==
  IF items # Empty THEN items ELSE IF initial THEN InitialEntry ELSE ResetEntry

ReplaceMap(items, b) ==
  IF b = ResetEntry THEN Empty ELSE IF b \in Update THEN b ELSE items

NoFile == [blob |-> Nothing, ts |-> 0]
Valid(f) == f.blob # Nothing

\* currentTime - ts, unsigned
Age(n, ts) == (clock[n] + Wrap - ts) % Wrap

Msg ==
  [type : {"checksumCall", "getBlob"}, from : Node, to : Node]
    \cup [type : {"checksumReply"}, from : Node, to : Node,
          sum : Sums, age : Ages]
    \cup [type : {"blob"}, from : Node, to : Node,
          blob : Blob, sum : Sums, age : Ages]

BlobMsgs(n, to, f, sum) ==
  [type : {"blob"}, from : {n}, to : to,
   blob : {f.blob}, sum : {sum}, age : {Age(n, f.ts)}]

Up(n) == pc[n] # "down"

-----------------------------------------------------------------------------
Init ==
  /\ sceneElements = [n \in Node |-> Empty]
  /\ timeStamp = [n \in Node |-> 0]
  /\ checkSum = [n \in Node |-> 0]
  /\ updated = [n \in Node |-> FALSE]
  /\ blobUpdateCycle = [n \in Node |-> FALSE]
  /\ initialState = [n \in Node |-> FALSE]
  /\ readBlobMessages = [n \in Node |-> {}]
  /\ sendUpdate = [n \in Node |-> FALSE]
  /\ semaphore = [n \in Node |-> FALSE]
  /\ pc = [n \in Node |-> "down"]
  /\ output = [n \in Node |-> NoFile]
  /\ file = [n \in Node |-> NoFile]
  /\ clock = [n \in Node |-> 1]
  /\ leader = NoLeader
  /\ followers = {}
  /\ msgs = {}
  /\ updates = 0
  /\ downs = 0

-----------------------------------------------------------------------------
(* The Manager.                                                            *)

\* A post of the thread's semaphore; posts that find it posted add no pass.
ScheduleFileReadWrite(n) == semaphore' = [semaphore EXCEPT ![n] = TRUE]

\* Mutation: the flags are set and the thread is not woken.
ScheduleFileWriteQuietly(n, blobUpdate, initState) ==
  /\ updated' = [updated EXCEPT ![n] = TRUE]
  /\ blobUpdateCycle' = [blobUpdateCycle EXCEPT ![n] = blobUpdate]
  /\ initialState' = [initialState EXCEPT ![n] = initState]
  /\ UNCHANGED semaphore

ScheduleFileWrite(n, blobUpdate, initState) ==
  /\ updated' = [updated EXCEPT ![n] = TRUE]
  /\ blobUpdateCycle' = [blobUpdateCycle EXCEPT ![n] = blobUpdate]
  /\ initialState' = [initialState EXCEPT ![n] = initState]
  /\ ScheduleFileReadWrite(n)

\* The thread serves all stores, and another one has posted its semaphore.
PostOfOtherStore(n) ==
  /\ n \in Busy /\ pc[n] = "wait" /\ ~semaphore[n]
  /\ ScheduleFileReadWrite(n)
  /\ UNCHANGED <<storeVars, writeVars, readVars, passVars, hostVars, netVars,
                 updates>>

\* The process starts, and reads its file; one that is missing or corrupted
\* is to be created.
ReadSavedData(n) ==
  /\ pc[n] = "down"
  /\ pc' = [pc EXCEPT ![n] = "wait"]
  /\ IF Valid(file[n])
     THEN /\ sceneElements' = [sceneElements EXCEPT ![n] =
               ReplaceMap(Empty, file[n].blob)]
          /\ timeStamp' = [timeStamp EXCEPT ![n] = file[n].ts]
          /\ checkSum' = [checkSum EXCEPT ![n] = GetChecksum(file[n].blob)]
          /\ UNCHANGED <<writeVars, semaphore>>
     ELSE /\ ScheduleFileWrite(n, FALSE, TRUE)
          /\ UNCHANGED storeVars
  /\ UNCHANGED <<readVars, output, hostVars, netVars, updates>>

\* A client creates, renames, updates or deletes a scene element (to) or
\* deletes the last one or all of them (Empty).  Only the leader allows it.
ClientUpdate(n, to) ==
  /\ Up(n) /\ leader = n
  /\ updates < MaxUpdates
  /\ updates' = updates + 1
  /\ sceneElements' = [sceneElements EXCEPT ![n] = to]
  /\ ScheduleFileWrite(n, FALSE, FALSE)
  /\ UNCHANGED <<timeStamp, checkSum, readVars, passVars, hostVars, netVars>>

CreateOrChange(n) == ClientUpdate(n, updates + 1)
Reset(n) == Resets /\ ClientUpdate(n, Empty)

IsNewer(n, m) ==
  /\ timeStamp[n] = 0 \/ Age(n, timeStamp[n]) > m.age
  /\ checkSum[n] # m.sum

\* OnBlobChanged and OnGetBlobReply
HandleReceivedBlob(n, m) ==
  /\ Up(n) /\ m.type = "blob" /\ m.to = n
  /\ msgs' = msgs \ {m}
  /\ IF IsNewer(n, m)
     THEN /\ sceneElements' = [sceneElements EXCEPT ![n] =
               ReplaceMap(@, m.blob)]
          /\ timeStamp' = [timeStamp EXCEPT ![n] = clock[n]]
          /\ checkSum' = [checkSum EXCEPT ![n] = m.sum]
          /\ ScheduleFileWrite(n, TRUE, FALSE)
     ELSE UNCHANGED <<storeVars, writeVars, semaphore>>
  /\ UNCHANGED <<readVars, passVars, hostVars, leader, followers, updates>>

-----------------------------------------------------------------------------
(* The PersistenceThread: one pass of ReadWriteFile.                       *)

\* The semaphore wakes the thread, and GetString copies the map under the
\* lock if there is something to write.
CopyMap(n) ==
  /\ pc[n] = "wait" /\ semaphore[n]
  /\ semaphore' = [semaphore EXCEPT ![n] = FALSE]
  /\ updated' = [updated EXCEPT ![n] = FALSE]
  /\ IF updated[n]
     THEN /\ pc' = [pc EXCEPT ![n] = "copied"]
          /\ output' = [output EXCEPT ![n].blob = sceneElements[n]]
     ELSE /\ pc' = [pc EXCEPT ![n] = "answer"]
          /\ output' = [output EXCEPT ![n] = NoFile]
  /\ UNCHANGED <<storeVars, blobUpdateCycle, initialState, readVars, hostVars,
                 netVars, updates>>

\* The copy is turned into text without the lock.
Format(n) ==
  /\ pc[n] = "copied"
  /\ pc' = [pc EXCEPT ![n] = "formatted"]
  /\ output' = [output EXCEPT ![n].blob = GetString(@, initialState[n])]
  /\ UNCHANGED <<storeVars, writeVars, readVars, semaphore, hostVars, netVars,
                 updates>>

\* Mutation: the flag is taken back where the time is set, not where the map
\* is copied.
StampClearsUpdated(n) ==
  /\ pc[n] = "formatted"
  /\ pc' = [pc EXCEPT ![n] = "stamped"]
  /\ output' = [output EXCEPT ![n].ts = clock[n]]
  /\ timeStamp' = [timeStamp EXCEPT ![n] = clock[n]]
  /\ checkSum' = [checkSum EXCEPT ![n] = GetChecksum(output[n].blob)]
  /\ updated' = [updated EXCEPT ![n] = FALSE]
  /\ blobUpdateCycle' = [blobUpdateCycle EXCEPT ![n] = FALSE]
  /\ initialState' = [initialState EXCEPT ![n] = FALSE]
  /\ UNCHANGED <<sceneElements, readVars, semaphore, hostVars, netVars, updates>>

\* The text is given its time and checksum under the lock.
Stamp(n) ==
  LET ts == IF blobUpdateCycle[n] THEN timeStamp[n]
            ELSE IF initialState[n] THEN 0 ELSE clock[n]
  IN
  /\ pc[n] = "formatted"
  /\ pc' = [pc EXCEPT ![n] = "stamped"]
  /\ output' = [output EXCEPT ![n].ts = ts]
  /\ timeStamp' = [timeStamp EXCEPT ![n] = ts]
  /\ checkSum' = [checkSum EXCEPT ![n] = GetChecksum(output[n].blob)]
  /\ blobUpdateCycle' = [blobUpdateCycle EXCEPT ![n] = FALSE]
  /\ initialState' = [initialState EXCEPT ![n] = blobUpdateCycle[n] /\ @]
  /\ UNCHANGED <<sceneElements, updated, readVars, semaphore, hostVars,
                 netVars, updates>>

\* The file is written; a leader sends the blob to those in its session.
WriteFile(n) ==
  /\ pc[n] = "stamped"
  /\ pc' = [pc EXCEPT ![n] = "answer"]
  /\ file' = [file EXCEPT ![n] = output[n]]
  /\ msgs' = msgs \cup
       BlobMsgs(n, IF leader = n /\ output[n].ts # 0 THEN followers ELSE {},
                output[n], GetChecksum(output[n].blob))
  /\ UNCHANGED <<storeVars, writeVars, readVars, semaphore, output, clock,
                 downs, leader, followers, updates>>

\* Mutation: the requests are answered only when nothing was written.
AnswerUnlessWritten(n) ==
  LET wrote == Valid(output[n])
      answer == IF ~wrote /\ readBlobMessages[n] # {} THEN file[n] ELSE output[n]
  IN
  /\ pc[n] = "answer"
  /\ pc' = [pc EXCEPT ![n] = "push"]
  /\ output' = [output EXCEPT ![n] = answer]
  /\ readBlobMessages' = [readBlobMessages EXCEPT ![n] = {}]
  /\ msgs' = msgs \cup
       BlobMsgs(n, IF Valid(answer) /\ ~wrote THEN readBlobMessages[n] ELSE {},
                answer, GetChecksum(answer.blob))
  /\ UNCHANGED <<storeVars, writeVars, sendUpdate, semaphore, hostVars, leader,
                 followers, updates>>

\* The requests are answered with what was written, or with the file.
Answer(n) ==
  LET readFile == ~Valid(output[n]) /\ (readBlobMessages[n] # {} \/ sendUpdate[n])
      answer == IF readFile THEN file[n] ELSE output[n]
  IN
  /\ pc[n] = "answer"
  /\ pc' = [pc EXCEPT ![n] = "push"]
  /\ output' = [output EXCEPT ![n] = answer]
  /\ readBlobMessages' = [readBlobMessages EXCEPT ![n] = {}]
  /\ msgs' = msgs \cup
       BlobMsgs(n, IF Valid(answer) THEN readBlobMessages[n] ELSE {},
                answer, GetChecksum(answer.blob))
  /\ UNCHANGED <<storeVars, writeVars, sendUpdate, semaphore, hostVars, leader,
                 followers, updates>>

\* A blob for the leader is sent; one that was asked for since Answer looked
\* is sent from variables that this pass has not set: an empty text, with the
\* time and checksum an earlier pass left behind, or others.
Push(n) ==
  LET to == IF n \in followers THEN {leader} ELSE {} IN
  /\ pc[n] = "push"
  /\ pc' = [pc EXCEPT ![n] = "wait"]
  /\ output' = [output EXCEPT ![n] = NoFile]
  /\ sendUpdate' = [sendUpdate EXCEPT ![n] = FALSE]
  /\ \/ ~sendUpdate[n] /\ UNCHANGED msgs
     \/ /\ sendUpdate[n] /\ Valid(output[n])
        /\ msgs' = msgs \cup
             BlobMsgs(n, to, output[n], GetChecksum(output[n].blob))
     \/ /\ sendUpdate[n] /\ ~Valid(output[n])
        /\ \E sum \in {checkSum[n], GetChecksum(Nothing)},
              ts \in {0, timeStamp[n]} :
             msgs' = msgs \cup
               BlobMsgs(n, to, [blob |-> Nothing, ts |-> ts], sum)
  /\ UNCHANGED <<storeVars, writeVars, readBlobMessages, semaphore, hostVars,
                 leader, followers, updates>>

Pass(n) ==
  CopyMap(n) \/ Format(n) \/ Stamp(n) \/ WriteFile(n) \/ Answer(n) \/ Push(n)

-----------------------------------------------------------------------------
(* Synchronization: a follower compares its store with the leader's.       *)

\* A follower has joined the leader's session and asks what it holds.
Join(n) ==
  /\ Up(n) /\ leader \in Node \ {n} /\ n \notin followers
  /\ followers' = followers \cup {n}
  /\ msgs' = msgs \cup
       [type : {"checksumCall"}, from : {n}, to : {leader}]
  /\ UNCHANGED <<storeVars, writeVars, readVars, semaphore, passVars, hostVars,
                 leader, updates>>

GetChecksumAndModificationTimestamp(n, m) ==
  LET age == IF timeStamp[n] = 0 THEN 0 ELSE Age(n, timeStamp[n]) IN
  /\ Up(n) /\ m.type = "checksumCall" /\ m.to = n
  /\ msgs' = (msgs \ {m}) \cup
       [type : {"checksumReply"}, from : {n}, to : {m.from},
        sum : {checkSum[n]}, age : {age}]
  /\ UNCHANGED <<storeVars, writeVars, readVars, semaphore, passVars, hostVars,
                 leader, followers, updates>>

\* The leader's store is older, or holds nothing yet.
NeedToSend(n, m) ==
  /\ timeStamp[n] # 0 /\ checkSum[n] # 0
  /\ m.age = 0 \/ Age(n, timeStamp[n]) < m.age

NeedToFetch(n, m) ==
  /\ m.age # 0 /\ m.sum # 0
  /\ Age(n, timeStamp[n]) > m.age

OnGetChecksumAndModificationTimestampReply(n, m) ==
  /\ Up(n) /\ m.type = "checksumReply" /\ m.to = n
  /\ msgs' = (msgs \ {m}) \cup
       [type : {"getBlob"}, from : {n},
        to : IF NeedToFetch(n, m) /\ n \in followers THEN {leader} ELSE {}]
  /\ IF NeedToSend(n, m)
     THEN /\ sendUpdate' = [sendUpdate EXCEPT ![n] = TRUE]
          /\ ScheduleFileReadWrite(n)
     ELSE UNCHANGED <<sendUpdate, semaphore>>
  /\ UNCHANGED <<storeVars, writeVars, readBlobMessages, passVars, hostVars,
                 leader, followers, updates>>

\* Mutation: the request is listed and the thread is not woken.
GetBlobQuietly(n, m) ==
  /\ Up(n) /\ m.type = "getBlob" /\ m.to = n
  /\ msgs' = msgs \ {m}
  /\ readBlobMessages' = [readBlobMessages EXCEPT ![n] = @ \cup {m.from}]
  /\ UNCHANGED <<storeVars, writeVars, sendUpdate, semaphore, passVars, hostVars,
                 leader, followers, updates>>

\* ScheduleFileRead: the request waits for the next pass.
GetBlob(n, m) ==
  /\ Up(n) /\ m.type = "getBlob" /\ m.to = n
  /\ msgs' = msgs \ {m}
  /\ readBlobMessages' = [readBlobMessages EXCEPT ![n] = @ \cup {m.from}]
  /\ ScheduleFileReadWrite(n)
  /\ UNCHANGED <<storeVars, writeVars, sendUpdate, passVars, hostVars, leader,
                 followers, updates>>

-----------------------------------------------------------------------------
(* The rest of the system, as this store sees it.                          *)

\* A controller takes over where nobody leads, or overthrows the leader.
TakeOver(n) ==
  /\ n \in Candidates /\ Up(n)
  /\ leader = NoLeader \/ n \in followers
  /\ leader' = n
  /\ followers' = {}
  /\ UNCHANGED <<storeVars, writeVars, readVars, semaphore, passVars, hostVars,
                 msgs, updates>>

Connected(a, b) == (a = leader /\ b \in followers) \/ (b = leader /\ a \in followers)

\* A message outside a session, or to a controller that is down, is lost.
Lose(m) ==
  /\ ~Connected(m.from, m.to) \/ ~Up(m.to)
  /\ msgs' = msgs \ {m}
  /\ UNCHANGED <<storeVars, writeVars, readVars, semaphore, passVars, hostVars,
                 leader, followers, updates>>

\* The process ends, killed or stopped: the thread does not finish what was
\* scheduled, and a file that is being written may be left torn.
Down(n) ==
  /\ n \in Mortal /\ Up(n)
  /\ downs < MaxDowns
  /\ downs' = downs + 1
  /\ pc' = [pc EXCEPT ![n] = "down"]
  /\ \/ UNCHANGED file
     \/ pc[n] = "stamped" /\ file' = [file EXCEPT ![n] = NoFile]
  /\ leader' = IF leader = n THEN NoLeader ELSE leader
  /\ followers' = IF leader = n THEN {} ELSE followers \ {n}
  /\ sceneElements' = [sceneElements EXCEPT ![n] = Empty]
  /\ timeStamp' = [timeStamp EXCEPT ![n] = 0]
  /\ checkSum' = [checkSum EXCEPT ![n] = 0]
  /\ updated' = [updated EXCEPT ![n] = FALSE]
  /\ blobUpdateCycle' = [blobUpdateCycle EXCEPT ![n] = FALSE]
  /\ initialState' = [initialState EXCEPT ![n] = FALSE]
  /\ readBlobMessages' = [readBlobMessages EXCEPT ![n] = {}]
  /\ sendUpdate' = [sendUpdate EXCEPT ![n] = FALSE]
  /\ semaphore' = [semaphore EXCEPT ![n] = FALSE]
  /\ output' = [output EXCEPT ![n] = NoFile]
  /\ UNCHANGED <<clock, msgs, updates>>

\* The host of a controller restarts, and with it its monotonic clock.
HostRestart(n) ==
  /\ n \in Unplugged /\ ~Up(n) /\ clock[n] > 1
  /\ clock' = [clock EXCEPT ![n] = 1]
  /\ UNCHANGED <<storeVars, writeVars, readVars, semaphore, passVars, file,
                 downs, netVars, updates>>

Tick ==
  /\ \A n \in Node : clock[n] < MaxClock
  /\ clock' = [n \in Node |-> clock[n] + 1]
  /\ UNCHANGED <<storeVars, writeVars, readVars, semaphore, passVars, file,
                 downs, netVars, updates>>

Next ==
  \/ \E n \in Node :
       \/ ReadSavedData(n) \/ CreateOrChange(n) \/ Reset(n)
       \/ PostOfOtherStore(n)
       \/ Pass(n)
       \/ Join(n) \/ TakeOver(n)
       \/ Down(n) \/ HostRestart(n)
  \/ \E m \in msgs :
       \/ HandleReceivedBlob(m.to, m)
       \/ GetChecksumAndModificationTimestamp(m.to, m)
       \/ OnGetChecksumAndModificationTimestampReply(m.to, m)
       \/ GetBlob(m.to, m)
       \/ Lose(m)
  \/ Tick

Spec == Init /\ [][Next]_vars

\* The thread runs as long as its process does.
Fairness == \A n \in Node : WF_vars(Pass(n))

FairSpec == Spec /\ Fairness

-----------------------------------------------------------------------------
(* Properties.                                                             *)

\* Type invariant.
TypeOK ==
  /\ sceneElements \in [Node -> 0..MaxUpdates]
  /\ timeStamp \in [Node -> Times]
  /\ checkSum \in [Node -> Sums]
  /\ updated \in [Node -> BOOLEAN]
  /\ blobUpdateCycle \in [Node -> BOOLEAN]
  /\ initialState \in [Node -> BOOLEAN]
  /\ readBlobMessages \in [Node -> SUBSET Node]
  /\ sendUpdate \in [Node -> BOOLEAN]
  /\ semaphore \in [Node -> BOOLEAN]
  /\ pc \in [Node -> {"down", "wait", "copied", "formatted", "stamped",
                      "answer", "push"}]
  /\ output \in [Node -> [blob : Blob, ts : Times]]
  /\ file \in [Node -> [blob : Blob, ts : Times]]
  /\ clock \in [Node -> Times]
  /\ leader \in Node \cup {NoLeader}
  /\ followers \subseteq Node
  /\ msgs \subseteq Msg
  /\ updates \in 0..MaxUpdates
  /\ downs \in 0..MaxDowns

\* When the thread waits with nothing to write, the file holds the map, with
\* the time and the checksum that the Manager reports to other controllers:
\* no change made during a pass, by a client or by a blob, is missed.
MemoryOnDisk ==
  \A n \in Node : pc[n] = "wait" /\ ~updated[n] =>
    /\ Valid(file[n])
    /\ sceneElements[n] = ReplaceMap(Empty, file[n].blob)
    /\ timeStamp[n] = file[n].ts
    /\ checkSum[n] = GetChecksum(file[n].blob)

\* The thread never waits without a post while there is something to write,
\* to answer or to send.
WorkIsSignalled ==
  \A n \in Node :
    pc[n] = "wait" /\ (updated[n] \/ sendUpdate[n] \/ readBlobMessages[n] # {})
      => semaphore[n]

\* A GetBlob request leaves the list only with its answer, unless the process
\* ends: the follower that waits for it is never left to its timeout.
NoRequestDropped ==
  [][\A n, f \in Node :
       f \in readBlobMessages[n] /\ pc'[n] # "down" /\ f \notin readBlobMessages'[n]
         => \E m \in msgs' : m.type = "blob" /\ m.from = n /\ m.to = f]_vars

\* What a client or a blob changes is written, unless the process ends: in
\* the end the thread waits with nothing left to write.
ChangesAreSaved ==
  \A n \in Node :
    updated[n] ~> ~updated[n] /\ pc[n] \in {"wait", "down"}

\* What the comment in ReadSavedData says of a missing or corrupted file: a
\* new one is created with the initialState entry.  A reset entry, which
\* empties the store of whoever receives it, is for a client's reset.
NewFileIsInitial ==
  ~Resets => \A n \in Node : file[n].blob # ResetEntry

=============================================================================
