------------------------------ MODULE MCBeacons ------------------------------
(***************************************************************************)
(* The instance of Beacons that TLC checks.  What crowds it is chosen at   *)
(* the start: creates that overlap while the matcher rests (it neither     *)
(* counts nor takes slots), or matcher runs that overlap while the creates *)
(* come one at a time.                                                     *)
(***************************************************************************)
EXTENDS Beacons, TLC

VARIABLE crowd

MCInit == Init /\ crowd \in {"creates", "runs"}

\* The slot whose creates go on while the matcher runs overlap.
LoneSlot == CHOOSE r \in Requests : TRUE

MCNext ==
    /\ \/ \E r \in Requests :
            /\ crowd = "runs" => r = LoneSlot
            /\ RequestStep(r)
       \/ crowd = "runs" /\ \E k \in Runs : RunStep(k)
       \/ Others
    /\ UNCHANGED crowd

MCSpec == MCInit /\ [][MCNext]_<<vars, crowd>>

Symmetry == Permutations(BeaconIds) \cup Permutations(Users)
                \cup Permutations(Runs)
=============================================================================
