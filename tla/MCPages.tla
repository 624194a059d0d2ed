-------------------------------- MODULE MCPages --------------------------------
(* The editor with one wall to draw, one stored sheet and a few sizes; the   *)
(* chat with three files, two texts and two submissions; two reset links and *)
(* two new passwords, from one tab for links and the profile page.           *)
EXTENDS Pages
CONSTANT Walls
WallKind == [o \in Walls |-> "wall"]
EmptySheets == {EmptySheet}
SomeDrafts == {NotANumber, 0, 1, 300}
SomePresets == {[w |-> 30, d |-> 20]}
SomeStored == {[w |-> 2, d |-> 200, step |-> s] : s \in {1, 10}}
Symmetry == Permutations(Submissions) \cup Permutations(Links)
=============================================================================
