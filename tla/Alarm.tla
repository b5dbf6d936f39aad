------------------------------- MODULE Alarm -------------------------------
(***************************************************************************)
(* The one-shot alarm of the LSF common library: a thread that wakes once  *)
(* a second and counts up to the time a caller asked for.  The fields are  *)
(* volatile but guarded by no lock, so every access of the alarm thread    *)
(* and of the caller is a step of its own.                                 *)
(***************************************************************************)
EXTENDS Integers

CONSTANTS
  Times,                \* the values callers pass to SetAlarm, 0 cancels
  Ceiling               \* where the model stops counting, above every time

ASSUME TimesAssumption ==
  /\ Ceiling \in Nat
  /\ Times \subseteq 0 .. (Ceiling - 1)

VARIABLES
  isRunning,            \* cleared by Stop
  timeToTrack,          \* seconds to count, 0 when the alarm is off
  progressInTime,       \* seconds counted so far
  alarmReset,           \* SetAlarm was called, start counting anew
  pc,                   \* next access of the alarm thread
  caller,               \* next access of the thread that uses the alarm
  timeInSecs,           \* argument of the SetAlarm call under way
  requested,            \* history: last completed SetAlarm not yet answered
  slept                 \* history: sleeps completed since that SetAlarm

vars == <<isRunning, timeToTrack, progressInTime, alarmReset, pc, caller,
          timeInSecs, requested, slept>>

ThreadPC == {"sleep", "reload", "clear", "test", "compare", "expire",
             "disarm", "notify", "done"}
CallerPC == {"idle", "setting", "stopping"}

TypeOK ==
  /\ isRunning \in BOOLEAN
  /\ timeToTrack \in Nat
  /\ progressInTime \in Nat
  /\ alarmReset \in BOOLEAN
  /\ pc \in ThreadPC
  /\ caller \in CallerPC
  /\ timeInSecs \in Nat
  /\ requested \in Nat
  /\ slept \in Nat

Init ==
  /\ isRunning = TRUE
  /\ timeToTrack = 0
  /\ progressInTime = 0
  /\ alarmReset = FALSE
  /\ pc = "sleep"
  /\ caller = "idle"
  /\ timeInSecs = 0
  /\ requested = 0
  /\ slept = 0

-----------------------------------------------------------------------------
(* The alarm thread. *)

\* What the thread does once an iteration is over: while (isRunning).
EndOfIteration == pc' = IF isRunning THEN "sleep" ELSE "done"

\* usleep returns and alarmReset is read; slept is only kept while an alarm
\* is outstanding, and saturates at the time asked for.
Wake ==
  /\ pc = "sleep"
  /\ pc' = IF alarmReset THEN "reload" ELSE "test"
  /\ slept' = IF slept < requested THEN slept + 1 ELSE slept
  /\ UNCHANGED <<isRunning, timeToTrack, progressInTime, alarmReset, caller,
                 timeInSecs, requested>>

\* Mutation: a new time goes on with the old count.
ReloadKeepsCount ==
  /\ pc = "reload"
  /\ pc' = "clear"
  /\ UNCHANGED <<isRunning, timeToTrack, progressInTime, alarmReset, caller,
                 timeInSecs, requested, slept>>

\* progressInTime = 0, the first assignment of the reset.
Reload ==
  /\ pc = "reload"
  /\ progressInTime' = 0
  /\ pc' = "clear"
  /\ UNCHANGED <<isRunning, timeToTrack, alarmReset, caller, timeInSecs,
                 requested, slept>>

\* Mutation: the reset is not consumed.
ClearResetNever ==
  /\ pc = "clear"
  /\ EndOfIteration
  /\ UNCHANGED <<isRunning, timeToTrack, progressInTime, alarmReset, caller,
                 timeInSecs, requested, slept>>

\* alarmReset = false, the second one.
ClearReset ==
  /\ pc = "clear"
  /\ alarmReset' = FALSE
  /\ EndOfIteration
  /\ UNCHANGED <<isRunning, timeToTrack, progressInTime, caller, timeInSecs,
                 requested, slept>>

\* One more second of an alarm that is on.  The count only matters through
\* its equality with a time, so it may saturate at Ceiling.
Count ==
  /\ pc = "test"
  /\ timeToTrack # 0
  /\ progressInTime' = IF progressInTime < Ceiling
                       THEN progressInTime + 1 ELSE progressInTime
  /\ pc' = "compare"
  /\ UNCHANGED <<isRunning, timeToTrack, alarmReset, caller, timeInSecs,
                 requested, slept>>

SkipOff ==
  /\ pc = "test"
  /\ timeToTrack = 0
  /\ EndOfIteration
  /\ UNCHANGED <<isRunning, timeToTrack, progressInTime, alarmReset, caller,
                 timeInSecs, requested, slept>>

Compare ==
  /\ pc = "compare"
  /\ IF progressInTime = timeToTrack THEN pc' = "expire" ELSE EndOfIteration
  /\ UNCHANGED <<isRunning, timeToTrack, progressInTime, alarmReset, caller,
                 timeInSecs, requested, slept>>

\* The count is cleared, then the time.
Expire ==
  /\ pc = "expire"
  /\ progressInTime' = 0
  /\ pc' = "disarm"
  /\ UNCHANGED <<isRunning, timeToTrack, alarmReset, caller, timeInSecs,
                 requested, slept>>

Disarm ==
  /\ pc = "disarm"
  /\ timeToTrack' = 0
  /\ pc' = "notify"
  /\ UNCHANGED <<isRunning, progressInTime, alarmReset, caller, timeInSecs,
                 requested, slept>>

\* alarmListener->AlarmTriggered().
Notify ==
  /\ pc = "notify"
  /\ EndOfIteration
  /\ requested' = 0
  /\ slept' = 0
  /\ UNCHANGED <<isRunning, timeToTrack, progressInTime, alarmReset, caller,
                 timeInSecs>>

Run == \/ Wake \/ Reload \/ ClearReset \/ Count \/ SkipOff
       \/ Compare \/ Expire \/ Disarm \/ Notify

-----------------------------------------------------------------------------
(* The caller: callers take a lock around SetAlarm, so one at a time. *)

SetAlarmTime(t) ==
  /\ caller = "idle"
  /\ isRunning
  /\ timeToTrack' = t
  /\ timeInSecs' = t
  /\ caller' = "setting"
  /\ UNCHANGED <<isRunning, progressInTime, alarmReset, pc, requested, slept>>

\* The second assignment of SetAlarm; the call is over.
SetAlarmReset ==
  /\ caller = "setting"
  /\ alarmReset' = TRUE
  /\ caller' = "idle"
  /\ timeInSecs' = 0
  /\ requested' = timeInSecs
  /\ slept' = 0
  /\ UNCHANGED <<isRunning, timeToTrack, progressInTime, pc>>

Stop ==
  /\ caller = "idle"
  /\ isRunning
  /\ isRunning' = FALSE
  /\ caller' = "stopping"
  /\ UNCHANGED <<timeToTrack, progressInTime, alarmReset, pc, timeInSecs,
                 requested, slept>>

StopClears ==
  /\ caller = "stopping"
  /\ progressInTime' = 0
  /\ timeToTrack' = 0
  /\ alarmReset' = FALSE
  /\ requested' = 0
  /\ slept' = 0
  /\ caller' = "idle"
  /\ UNCHANGED <<isRunning, pc, timeInSecs>>

Caller == \/ \E t \in Times : SetAlarmTime(t)
          \/ SetAlarmReset
          \/ Stop
          \/ StopClears

Next == Run \/ Caller

\* The operating system runs the alarm thread, and a caller that is inside
\* SetAlarm finishes it; nobody is obliged to call SetAlarm or Stop.
Fairness == WF_vars(Run) /\ WF_vars(SetAlarmReset) /\ WF_vars(StopClears)

Spec == Init /\ [][Next]_vars

FairSpec == Spec /\ Fairness

-----------------------------------------------------------------------------
(* Properties. *)

\* Between two iterations of an alarm that runs, whose reset was consumed,
\* the count is still below the time to track.  Alarm::Run tests for
\* equality, so a count that ever passes the target would never fire again.
NoOverrun ==
  (/\ pc = "sleep"
   /\ caller = "idle"
   /\ isRunning
   /\ ~ alarmReset
   /\ timeToTrack # 0) => progressInTime < timeToTrack

\* When the count reaches the target of a SetAlarm that completed before the
\* thread looked at alarmReset, at least that many sleeps have gone by.
NotEarly ==
  (/\ pc = "expire"
   /\ caller = "idle"
   /\ isRunning
   /\ ~ alarmReset) => slept >= requested

\* An alarm that is armed and left alone is disarmed by its expiry.
ArmedAlarmExpires ==
  timeToTrack # 0 ~> (timeToTrack = 0 \/ caller # "idle" \/ ~ isRunning)

=============================================================================
