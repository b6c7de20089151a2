----------------------------- MODULE MCShmOpen -----------------------------
(***************************************************************************)
(* Instances of the opening of shared memory for TLC.                      *)
(***************************************************************************)
EXTENDS ShmOpen

CONSTANTS p1, p2, p3

(* Everybody asks for one size and two may die; or everybody lives and asks*)
(* for what he likes.                                                      *)
CrashesOrSizes ==
  {[openers |-> {p1, p2, p3}, requests |-> {6},       crashes |-> 2],
   [openers |-> {p1, p2},     requests |-> {0, 6, 8}, crashes |-> 0]}

ZeroOrSize == {[openers |-> {p1, p2}, requests |-> {0, 6}, crashes |-> 0]}

=============================================================================
