--------------------------- MODULE MCObjectForms ---------------------------
(***************************************************************************)
(* What clients compose, for TLC: of every kind the objects whose forms    *)
(* differ, with numbers that tell the fields apart.                        *)
(***************************************************************************)
EXTENDS ObjectForms

S == LampState(<<"1", "2", "3", "4", "5">>)
Dark == LampState(<<"0", "5", "4", "0", "1">>)

NoComponents == [n \in ToSet(Sections) |-> <<>>]
Component(lamps, groups, state) ==
  [lamps |-> lamps, groups |-> groups, state |-> state, period |-> "3"]
PulseOf(lamps, groups, from, to) ==
  [lamps |-> lamps, groups |-> groups, from |-> from, to |-> to,
   period |-> "1", duration |-> "2", pulses |-> "5"]
Pulse(to, from, toPreset, fromPreset) ==
  [to |-> to, from |-> from, toPreset |-> toPreset,
   fromPreset |-> fromPreset, period |-> "1", duration |-> "2",
   pulses |-> "3"]

MCBodies ==
  [preset |-> {S, Dark, NullState},
   transition |->
     {[state |-> S, preset |-> "", period |-> "4"],
      [state |-> NullState, preset |-> "x", period |-> "0"],
      [state |-> NullState, preset |-> "", period |-> "0"],
      [state |-> Dark, preset |-> "x", period |-> "1"]},
   pulse |->
     {Pulse(S, Dark, "", ""), Pulse(S, NullState, "", ""),
      Pulse(NullState, NullState, "x", CurrentState),
      Pulse(NullState, NullState, "", "")},
   group |->
     {[lamps |-> <<"l", "m", "l">>, groups |-> <<>>],
      [lamps |-> <<"m">>, groups |-> <<"g", "h">>],
      [lamps |-> <<>>, groups |-> <<>>]},
   element |->
     {[lamps |-> <<"l">>, groups |-> <<"g">>, effect |-> "e"],
      [lamps |-> <<>>, groups |-> <<"g", "g", "h">>, effect |-> "f"],
      [lamps |-> <<"l">>, groups |-> <<>>, effect |-> ""]},
   master |->
     {[scenes |-> <<"s">>], [scenes |-> <<"s", "t", "s">>],
      [scenes |-> <<>>]},
   elements |->
     {[elements |-> <<>>], [elements |-> <<"e">>],
      [elements |-> <<"e", "f", "e">>]},
   scene |->
     {[NoComponents EXCEPT
         !.toState = <<Component(<<"l">>, <<>>, S),
                       Component(<<>>, <<"g", "g">>, Dark)>>,
         !.withPreset = <<PulseOf(<<"l">>, <<>>, CurrentState, "x")>>],
      [NoComponents EXCEPT
         !.toPreset = <<Component(<<"l", "m", "l">>, <<"g">>, "x")>>,
         !.withState = <<PulseOf(<<"l">>, <<>>, NullState, S),
                         PulseOf(<<>>, <<"g">>, Dark, S)>>],
      [NoComponents EXCEPT !.toPreset = <<Component(<<"l">>, <<>>, "")>>],
      [NoComponents EXCEPT !.toState = <<Component(<<"l">>, <<>>, NullState)>>],
      NoComponents},
   updates |-> {Updated.body}]
\* The pulses that the constructors of PulseEffect compose
MCPulses == [pulse |-> {p \in MCBodies.pulse : ~p.to.null \/ p.toPreset # ""}]
MCIdOrder == <<"a", "b">>
=============================================================================
