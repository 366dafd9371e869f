----------------------------- MODULE MCVehicles -----------------------------
(* Two profiles that share a template with two configurations, as the rigid    *)
(* trucks of the seed file do: one without group masses, one with.             *)
EXTENDS VehiclesInvariant, TLC

TwoSchemes == <<"GML", "HML">>

At(l, n) == [s \in {"GML", "HML"} |-> IF s = "GML" THEN l ELSE n]

C(id, length, masses, limits) ==
    [id |-> id, length |-> length, masses |-> masses, limits |-> limits]

Seeded ==
    ( Category("truck") :> [kept |-> TRUE]
   @@ Template("RIGID") :> [kept |-> TRUE]
   @@ Profile("LR") :> [template |-> "RIGID", category |-> "truck", default |-> 2]
   @@ Profile("HR") :> [template |-> "RIGID", category |-> "truck", default |-> 2]
   @@ Range_("RIGID", "seed") :> [min |-> 1, max |-> 3]
   @@ Config("bare") :> [template |-> "RIGID", length |-> 2]
   @@ Limit("bare", "GML") :> [limit |-> 1]
   @@ Limit("bare", "HML") :> [limit |-> 1]
   @@ Config("full") :> [template |-> "RIGID", length |-> 2]
   @@ Mass("full", 1) :> [mass |-> 1]
   @@ Mass("full", 2) :> [mass |-> 1]
   @@ Limit("full", "GML") :> [limit |-> 1]
   @@ Limit("full", "HML") :> [limit |-> 1] )

CategoryOf(template) == IF template = "RIGID" THEN "truck" ELSE "tanker"

Request(op, profile, template, min, max, default, configs) ==
    [op |-> op, profile |-> profile, template |-> template, category |-> CategoryOf(template),
     min |-> min, max |-> max, default |-> default, configs |-> configs]

(* Two edits that leave the range as it is and take the configurations in      *)
(* opposite orders; one that narrows the range and then is refused, or not,    *)
(* for a configuration that an addition may own; an edit of an added vehicle.  *)
Edits ==
    { Request("update", "LR", "RIGID", 1, 3, 1,
              <<C("bare", 2, <<2>>, At(3, 1)), C("full", 1, <<3>>, At(3, 1))>>),
      Request("update", "HR", "RIGID", 1, 3, 3,
              <<C("full", 2, <<1, 3>>, At(1, 3)), C("bare", 3, <<1, 3>>, At(1, 3))>>),
      Request("update", "LR", "RIGID", 2, 3, 2,
              <<C("full", 3, <<2, 2>>, At(2, 2)), C("own", 3, <<1>>, At(1, 1))>>),
      Request("update", "A", "TANKER", 1, 2, 1, <<C("own", 1, <<3>>, At(1, 3))>>) }

Additions ==
    { Request("add", "A", "TANKER", 1, 3, 2,
              <<C("own", 2, <<1>>, At(1, 2)), C("plain", 2, <<>>, At(0, 0))>>),
      Request("add", "B", "TANKER", 1, 3, 1, <<C("other", 1, <<2>>, At(2, 2))>>) }

Requests == Edits \union Additions
=============================================================================
