----------------------------- MODULE NhvrImport -----------------------------
(***************************************************************************)
(* import-nhvr.py: the conflict rule by which the features of all files    *)
(* become one access status per road segment and network, the status       *)
(* written into the nhvr_networks tag of the way.  A feature is its key    *)
(* and access code, as in NhvrLoad.                                         *)
(***************************************************************************)
EXTENDS Integers, Sequences

CONSTANT Segments

(* access_status; Skipped stands for None *)
Skipped == -1
AccessStatus(code) ==
    CASE code = "approved" -> 0
      [] code = "conditional" -> 1
      [] code = "restricted" -> 2
      [] OTHER -> Skipped

(* variant of Kept: the last status wins *)
LastOne(prev, status) == status

(* one feature of the loop in read_gpkgs; prev_status None is Skipped too *)
Kept(prev, status) ==
    IF prev # Skipped /\ prev # status
    THEN IF prev < status THEN status ELSE prev
    ELSE status
ReadFeature(networks, feature) ==
    LET status == AccessStatus(feature.code)
    IN IF status = Skipped THEN networks
       ELSE [networks EXCEPT ![feature.segment] = Kept(@, status)]

(* read_gpkgs, over the features of all files in the order they are read *)
ReadGpkgs(features) ==
    LET networks[k \in 0..Len(features)] ==
            IF k = 0 THEN [segment \in Segments |-> Skipped]
            ELSE ReadFeature(networks[k - 1], features[k])
    IN networks[Len(features)]
=============================================================================
