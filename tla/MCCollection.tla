---------------------------- MODULE MCCollection -----------------------------
(* Owners are numbered in the order of the walk, so the aliases are a line   *)
(* that ends or runs back into itself: no other shape can be reached.        *)
EXTENDS Collection
MCOwners == 0..(MaxHops + 2)
Line(last, back) == [o \in MCOwners |-> IF o < last THEN o + 1 ELSE IF o = last THEN back ELSE End]
MCZones == {Line(last, End) : last \in MCOwners} \union UNION {{Line(last, back) : back \in 0..last} : last \in MCOwners}
==============================================================================
