---------------------------- MODULE MCNavigation ----------------------------
(* Navigation started from a page opened with two stops.                    *)
EXTENDS Navigation

Shared     == {2}
OneNetwork == {"B-double"}
=============================================================================
