----------------------------- MODULE MCDirections -----------------------------
(* The directions page opened with no stops, with two and with four.          *)
EXTENDS Directions

NewOrShared == {0, 2, 4}
OneNetwork  == {"B-double"}
===============================================================================
