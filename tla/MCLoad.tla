------------------------------- MODULE MCLoad -------------------------------
(* NhvrLoad over a few GeoPackage contents. *)
EXTENDS NhvrLoad, TLC

A(code) == [segment |-> "a", code |-> code]
B(code) == [segment |-> "b", code |-> code]
\* disjoint files, files in conflict, a code nobody knows
SomeContents ==
    {{A("approved"), B("unknown")}, {A("restricted"), A("conditional")},
     {B("approved")}}
TwoSegments == {"a", "b"}
Symmetric == Permutations(Loaders) \cup Permutations(Files)
=============================================================================
