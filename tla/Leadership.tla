----------------------------- MODULE Leadership -----------------------------
(***************************************************************************)
(* What an elector promises to the rest of the Controller Service and to   *)
(* the other controllers: leadership is open to client updates, or blocked *)
(* because a controller of a higher rank announced itself, and it is       *)
(* handed over only to that controller, together with the loss of it.      *)
(* LeaderElection implements this module.                                  *)
(***************************************************************************)
EXTENDS Naturals

CONSTANT Node           \* the controllers, each named by its rank

VARIABLES
  role,                 \* "follower", or a leader "open" or "blocked"
  challenger,           \* who the leader blocks updates for, 0 if none
  grants                \* answers on their way: <<new leader, old leader>>

hvars == <<role, challenger, grants>>

Init ==
  /\ role = [n \in Node |-> "follower"]
  /\ challenger = [n \in Node |-> 0]
  /\ grants = {}

Lead(n) ==
  /\ role[n] = "follower"
  /\ role' = [role EXCEPT ![n] = "open"]
  /\ UNCHANGED <<challenger, grants>>

\* A challenger, or a better one, closes the stores of the leader.
Challenge(n, c) ==
  /\ role[n] # "follower"
  /\ c > n
  /\ c # challenger[n]
  /\ role' = [role EXCEPT ![n] = "blocked"]
  /\ challenger' = [challenger EXCEPT ![n] = c]
  /\ UNCHANGED grants

\* The coup did not go through.
Resume(n) ==
  /\ role[n] = "blocked"
  /\ role' = [role EXCEPT ![n] = "open"]
  /\ challenger' = [challenger EXCEPT ![n] = 0]
  /\ UNCHANGED grants

BecomeFollower(n) ==
  /\ role[n] # "follower"
  /\ role' = [role EXCEPT ![n] = "follower"]
  /\ challenger' = [challenger EXCEPT ![n] = 0]

\* Leadership is granted to the challenger, by a leader closed to updates.
Grant(n) ==
  /\ role[n] = "blocked"
  /\ BecomeFollower(n)
  /\ grants' = grants \cup {<<challenger[n], n>>}

\* Leadership is given up to a leader of a higher rank, or by shutting down.
StepDown(n) == BecomeFollower(n) /\ UNCHANGED grants

\* Answers arrive or get lost, one or, with their addressee, all.
Deliver(g) == grants' = grants \ {g} /\ UNCHANGED <<role, challenger>>

Crash(n) ==
  /\ role' = [role EXCEPT ![n] = "follower"]
  /\ challenger' = [challenger EXCEPT ![n] = 0]
  /\ grants' = {g \in grants : g[1] # n}

Next ==
  \/ \E n \in Node :
       \/ Lead(n)
       \/ \E c \in Node : Challenge(n, c)
       \/ Resume(n)
       \/ Grant(n)
       \/ StepDown(n)
       \/ Crash(n)
  \/ \E g \in grants : Deliver(g)

Spec == Init /\ [][Next]_hvars

=============================================================================
