--------------------------- MODULE MCLampService ---------------------------
(* LampService with the dictionaries that tell its branches apart: none,   *)
(* some and all of the fields, and one that ends in an unknown field.      *)
EXTENDS LampService

Known(F, v) == [fields |-> [f \in F |-> v], unknown |-> FALSE]

MCDictionary ==
  {Known({}, 0), Known({"OnOff"}, 0), Known(Field, 0),
   [fields |-> [f \in {"Hue"} |-> 1], unknown |-> TRUE]}
=============================================================================
