----------------------------- MODULE AlarmProofs -----------------------------
(***************************************************************************)
(* The type invariant of Alarm, that its count never passes the time it is *)
(* compared with, and that it never expires early, for every set of times  *)
(* and every ceiling.                                                      *)
(***************************************************************************)
EXTENDS Alarm, TLAPS

USE TimesAssumption

-----------------------------------------------------------------------------
(* The inductive invariant of a running alarm. *)

\* The thread only reloads when a SetAlarm asked for it.
ReloadIsAsked == (isRunning /\ pc = "reload") => alarmReset

\* The count is 0 where the thread has just cleared it.
ClearedCount == (isRunning /\ pc \in {"clear", "disarm"}) => progressInTime = 0

\* While no SetAlarm is under way or unseen, the count is below the time,
\* and not above it when it was just counted up.
CountBelow ==
  (isRunning /\ caller = "idle" /\ ~ alarmReset /\ timeToTrack # 0) =>
    /\ pc \in {"sleep", "test", "notify"} => progressInTime < timeToTrack
    /\ pc = "compare" => progressInTime <= timeToTrack

AlarmInv ==
  /\ TypeOK
  /\ caller = "stopping" => ~ isRunning
  /\ ReloadIsAsked
  /\ ClearedCount
  /\ CountBelow

\* The time is that of the last SetAlarm, unless the expiry before it has
\* switched that one off or answered it.
TimeIsRequested ==
  /\ (isRunning /\ caller = "idle") =>
       timeToTrack = 0 \/ requested = 0 \/ timeToTrack = requested
  /\ (isRunning /\ caller = "setting") =>
       timeToTrack = 0 \/ timeToTrack = timeInSecs

\* While no SetAlarm is under way or unseen, the thread has slept as often as
\* it has counted, once more when it is about to count, and often enough when
\* it expires.
SleptEnough ==
  (isRunning /\ caller = "idle" /\ ~ alarmReset) =>
    /\ pc \in {"sleep", "compare"} =>
         slept >= progressInTime \/ slept >= requested
    /\ pc = "test" => slept > progressInTime \/ slept >= requested
    /\ pc = "compare" => timeToTrack # 0
    /\ pc = "expire" => slept >= requested

SleepInv == TimeIsRequested /\ SleptEnough

\* Every step of the alarm thread or its caller keeps the types.
LEMMA AlarmTypeStep == TypeOK /\ [Next]_vars => TypeOK'
<1> SUFFICES ASSUME TypeOK, [Next]_vars PROVE TypeOK'
  OBVIOUS
<1>1. CASE Run
  <2> USE DEF TypeOK, ThreadPC, CallerPC
  <2>1. CASE Wake
    BY <2>1 DEF Wake
  <2>2. CASE Reload
    BY <2>2 DEF Reload
  <2>3. CASE ClearReset
    <3>1. alarmReset' \in BOOLEAN
      BY <2>3 DEF ClearReset
    <3> QED BY <2>3, <3>1 DEF ClearReset, EndOfIteration
  <2>4. CASE Count
    BY <2>4 DEF Count
  <2>5. CASE SkipOff \/ Compare
    BY <2>5 DEF SkipOff, Compare, EndOfIteration
  <2>6. CASE Expire \/ Disarm \/ Notify
    BY <2>6 DEF Expire, Disarm, Notify, EndOfIteration
  <2> QED BY <1>1, <2>1, <2>2, <2>3, <2>4, <2>5, <2>6 DEF Run
<1>2. CASE Caller
  <2>1. \A t \in Times : t \in Nat
    BY DEF TimesAssumption
  <2>2. CASE \E t \in Times : SetAlarmTime(t)
    BY <2>1, <2>2 DEF SetAlarmTime, TypeOK, CallerPC
  <2>3. CASE SetAlarmReset \/ Stop \/ StopClears
    <3>1. alarmReset' \in BOOLEAN /\ isRunning' \in BOOLEAN
      BY <2>3 DEF SetAlarmReset, Stop, StopClears, TypeOK
    <3> QED
      BY <2>3, <3>1 DEF SetAlarmReset, Stop, StopClears, TypeOK, CallerPC
  <2> QED BY <1>2, <2>2, <2>3 DEF Caller
<1>3. CASE UNCHANGED vars
  BY <1>3 DEF vars, TypeOK
<1> QED BY <1>1, <1>2, <1>3 DEF Next

\* Every step keeps the inductive invariant.
LEMMA AlarmStep == AlarmInv /\ [Next]_vars => AlarmInv'
<1> SUFFICES ASSUME AlarmInv, [Next]_vars PROVE AlarmInv'
  OBVIOUS
<1> USE DEF AlarmInv, ReloadIsAsked, ClearedCount, CountBelow
<1>1. TypeOK'
  BY AlarmTypeStep
<1>2. CASE Wake
  BY <1>1, <1>2 DEF Wake, TypeOK
<1>3. CASE Reload
  BY <1>1, <1>3 DEF Reload, TypeOK
<1>4. CASE ClearReset
  BY <1>1, <1>4 DEF ClearReset, EndOfIteration, TypeOK
<1>5. CASE Count
  BY <1>1, <1>5 DEF Count, TypeOK, TimesAssumption
<1>6. CASE SkipOff
  BY <1>1, <1>6 DEF SkipOff, EndOfIteration, TypeOK
<1>7. CASE Compare
  BY <1>1, <1>7 DEF Compare, EndOfIteration, TypeOK
<1>8. CASE Expire
  BY <1>1, <1>8 DEF Expire, TypeOK
<1>9. CASE Disarm
  BY <1>1, <1>9 DEF Disarm, TypeOK
<1>10. CASE Notify
  BY <1>1, <1>10 DEF Notify, EndOfIteration, TypeOK
<1>11. CASE Caller
  <2>1. CASE \E t \in Times : SetAlarmTime(t)
    BY <1>1, <2>1 DEF SetAlarmTime
  <2>2. CASE SetAlarmReset
    BY <1>1, <2>2 DEF SetAlarmReset
  <2>3. CASE Stop \/ StopClears
    BY <1>1, <2>3 DEF Stop, StopClears
  <2> QED BY <1>11, <2>1, <2>2, <2>3 DEF Caller
<1>12. CASE UNCHANGED vars
  BY <1>1, <1>12 DEF vars
<1> QED
  BY <1>2, <1>3, <1>4, <1>5, <1>6, <1>7, <1>8, <1>9, <1>10, <1>11, <1>12
  DEF Next, Run

\* The inductive invariant holds of every behaviour of the alarm.
LEMMA AlarmInvariant == Spec => []AlarmInv
<1>1. Init => AlarmInv
  <2> SUFFICES ASSUME Init PROVE AlarmInv
    OBVIOUS
  <2>1. isRunning \in BOOLEAN /\ alarmReset \in BOOLEAN
    BY DEF Init
  <2>2. TypeOK
    BY <2>1 DEF Init, TypeOK, ThreadPC, CallerPC
  <2>3. ReloadIsAsked /\ ClearedCount /\ CountBelow
    BY DEF Init, ReloadIsAsked, ClearedCount, CountBelow
  <2> QED BY <2>2, <2>3 DEF AlarmInv, Init
<1> QED BY <1>1, AlarmStep, PTL DEF Spec

\* The alarm keeps its fields in their types, whatever the interleaving of
\* SetAlarm and Stop with the alarm thread.
THEOREM AlarmTypeInvariant == Spec => []TypeOK
<1>1. AlarmInv => TypeOK
  BY DEF AlarmInv
<1> QED BY AlarmInvariant, <1>1, PTL

\* The count of Alarm::Run, which is compared for equality, never passes the
\* time to track: a SetAlarm that lands anywhere in an iteration cannot leave
\* an alarm that counts past its time and never triggers.
THEOREM CountNeverOverruns == Spec => []NoOverrun
<1>1. AlarmInv => NoOverrun
  BY DEF AlarmInv, CountBelow, NoOverrun
<1> QED BY AlarmInvariant, <1>1, PTL

\* Every step keeps the count of sleeps.
LEMMA SleepStep == AlarmInv /\ SleepInv /\ [Next]_vars => SleepInv'
<1> SUFFICES ASSUME AlarmInv, SleepInv, [Next]_vars PROVE SleepInv'
  OBVIOUS
<1> USE DEF SleepInv, TimeIsRequested, SleptEnough
<1>1. TypeOK /\ ReloadIsAsked /\ ClearedCount /\ (caller = "stopping" => ~ isRunning)
  BY DEF AlarmInv
<1>2. CASE Wake
  BY <1>1, <1>2 DEF Wake, TypeOK
<1>3. CASE Reload
  BY <1>1, <1>3 DEF Reload, TypeOK, ReloadIsAsked
<1>4. CASE ClearReset
  BY <1>1, <1>4 DEF ClearReset, EndOfIteration, TypeOK, ClearedCount
<1>5. CASE Count
  BY <1>1, <1>5 DEF Count, TypeOK, TimesAssumption
<1>6. CASE SkipOff
  BY <1>1, <1>6 DEF SkipOff, EndOfIteration, TypeOK
<1>7. CASE Compare
  BY <1>1, <1>7 DEF Compare, EndOfIteration, TypeOK
<1>8. CASE Expire \/ Disarm
  BY <1>1, <1>8 DEF Expire, Disarm, TypeOK
<1>9. CASE Notify
  BY <1>1, <1>9 DEF Notify, EndOfIteration, TypeOK
<1>10. CASE Caller
  <2>1. CASE \E t \in Times : SetAlarmTime(t)
    BY <1>1, <2>1 DEF SetAlarmTime, TypeOK
  <2>2. CASE SetAlarmReset
    BY <1>1, <2>2 DEF SetAlarmReset, TypeOK
  <2>3. CASE Stop \/ StopClears
    BY <1>1, <2>3 DEF Stop, StopClears, TypeOK
  <2> QED BY <1>10, <2>1, <2>2, <2>3 DEF Caller
<1>11. CASE UNCHANGED vars
  BY <1>11 DEF vars
<1> QED
  BY <1>2, <1>3, <1>4, <1>5, <1>6, <1>7, <1>8, <1>9, <1>10, <1>11
  DEF Next, Run

\* When the count reaches the time of a SetAlarm that the thread has seen, at
\* least that many seconds have gone by since, wherever in an iteration the
\* call landed and whatever the alarm was doing before.
THEOREM AlarmNeverEarly == Spec => []NotEarly
<1>1. Init => SleepInv
  BY DEF Init, SleepInv, TimeIsRequested, SleptEnough
<1>2. SleepInv => NotEarly
  BY DEF SleepInv, SleptEnough, NotEarly
<1> QED BY <1>1, <1>2, SleepStep, AlarmInvariant, PTL DEF Spec

=============================================================================
