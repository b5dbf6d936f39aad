-------------------------- MODULE MCLeaderElection --------------------------
(***************************************************************************)
(* A start for TLC further into the run: the controller of the highest     *)
(* rank is about to connect while all others follow the one below it.  It  *)
(* saves the first election of three controllers, and it is a state that   *)
(* the election reaches: the followers' checksum calls have been answered, *)
(* which leaves their gotOverthrowReply set.                               *)
(***************************************************************************)
EXTENDS LeaderElection, FiniteSetsExt, Functions

CONSTANTS
  MaxInFlight,      \* bound: announcements, events and calls under way
  MaxDepartures     \* bound: controllers and applications that leave

Newcomer == Max(Node)
Incumbent == Max(Node \ {Newcomer})
Followers == Node \ {Newcomer, Incumbent}

FirstSession == [host |-> Incumbent, ep |-> 1]

SettledInit ==
  /\ isRunning = [n \in Node |-> n # Newcomer]
  /\ pc = [n \in Node |-> IF n = Newcomer THEN "off" ELSE "wait"]
  /\ wakeSem = [n \in Node |-> 0]
  /\ alarmOn = [n \in Node |-> FALSE]
  /\ alarmTriggered = [n \in Node |-> FALSE]
  /\ isLeader = [n \in Node |-> n = Incumbent]
  /\ updatesAllowed = isLeader
  /\ startElection = [n \in Node |-> n = Newcomer]
  /\ okToSetAlarm = startElection
  /\ gotOverthrowReply = [n \in Node |-> n \in Followers]
  /\ controllersMap = [n \in Node |-> [r \in Node |->
       IF n \in Followers /\ r = Incumbent THEN [leader |-> TRUE, ts |-> 1]
                                           ELSE NoEntry]]
  /\ currentLeader = [n \in Node |->
       IF n \in Followers THEN [rank |-> Incumbent, ts |-> 1] ELSE NoCtl]
  /\ proxyObj = [n \in Node |->
       IF n \in Followers THEN FirstSession ELSE NoSid]
  /\ outGoingLeader = [n \in Node |-> NoCtl]
  /\ upComingLeader = [n \in Node |-> NoCtl]
  /\ overThrowList = [n \in Node |-> {}]
  /\ joinReplies = [n \in Node |-> {}]
  /\ sessionLostList = [n \in Node |-> {}]
  /\ sessionMemberRemoved = [n \in Node |-> {}]
  /\ alive = [n \in Node |-> TRUE]
  /\ stops = [n \in Node |-> 0]
  /\ about = isLeader
  /\ undelivered = [n \in Node |-> {}]
  /\ joining = [n \in Node |-> {}]
  /\ sessions = [n \in Node |-> IF n \in Followers THEN {FirstSession} ELSE {}]
  /\ ending = [n \in Node |-> {}]
  /\ calls = {}

\* TLC does not go on from a state with more than MaxInFlight of them.
InFlight ==
  Cardinality(calls)
    + Cardinality({p \in Node \X Node : p[2] \in undelivered[p[1]]})
    + FoldFunction(LAMBDA x, y : Cardinality(x) + y, 0, joining)
    + FoldFunction(LAMBDA x, y : Cardinality(x) + y, 0, ending)

FewInFlight == InFlight <= MaxInFlight

\* ... nor from one where more than MaxDepartures have left: controllers that
\* stopped or crashed, and client applications whose leaving is not handled.
Departures ==
  FoldFunction(+, 0, stops)
    + Cardinality({n \in Node : ~ alive[n]})
    + FoldFunction(LAMBDA x, y : Cardinality({g \in x : g.who = 0}) + y,
                   0, sessionMemberRemoved)

FewDepartures == Departures <= MaxDepartures

SettledSpec == SettledInit /\ [][Next]_vars

-----------------------------------------------------------------------------
\* The steps of ImplementsHandover, from a state that is not its initial one:
\* no step of the election hands leadership over in another way.
HandoverSteps == [][Handover!Next]_(Handover!hvars)

=============================================================================
