------------------------- MODULE MCLightingObjects -------------------------
(* Small stores and small arguments for LightingObjects.                   *)
EXTENDS LightingObjects, TLC

CONSTANTS l1, l2, g1, g2, p1, t1, u1, e1, e2, s1, m1

\* A group of its own, one within another, and one that contains itself.
MCGroupBodies == {[lamps |-> {l1}, groups |-> <<>>],
                  [lamps |-> {}, groups |-> <<g1, g2>>]}
MCEffectBodies == {[presets |-> {}, value |-> 1],
                   [presets |-> {p1}, value |-> 0]}
MCElementBodies == {[lamps |-> {}, groups |-> <<g2>>, effect |-> t1],
                    [lamps |-> {l2}, groups |-> <<>>, effect |-> u1],
                    [lamps |-> {l1}, groups |-> <<>>, effect |-> p1]}
MCComponent(k, x) == [lamps |-> {l1}, groups |-> <<>>, what |-> <<k, x>>]
MCEffect == [presets |-> {p1}, value |-> 0]
MCSceneBodies ==
  {<<MCComponent("transitionEffect", MCEffect)>>,
   <<MCComponent("pulseEffect", MCEffect),
     MCComponent("transitionEffect", MCEffect)>>}
MCElementLists == {{}, {e1}}
MCMasterBodies == {{s1}}

\* One object of each kind but one, that names the next; there is room for
\* one more of each, and none for another lamp group.
MCChain ==
  [lampGroup |-> (g1 :> [lamps |-> {l1}, groups |-> <<>>]
                   @@ g2 :> [lamps |-> {l2}, groups |-> <<g1>>]),
   preset |-> (p1 :> 0),
   transitionEffect |-> (t1 :> [presets |-> {p1}, value |-> 0]),
   pulseEffect |-> << >>,
   sceneElement |->
     (e1 :> [lamps |-> {}, groups |-> <<g2>>, effect |-> t1]),
   scene |->
     (s1 :> [elements |-> {e1}, raced |-> FALSE,
             scene |-> {[lamps |-> {}, groups |-> <<g2>>,
                         what |-> <<"transitionEffect",
                                    [presets |-> {p1}, value |-> 0]>>]}]),
   masterScene |-> (m1 :> {s1})]
MCStored == {MCChain}

\* The calls are alike.
MCSymmetry == Permutations(Call)
=============================================================================
