--------------------------- MODULE MCJointTargets ---------------------------
(***************************************************************************)
(* Values for the vectors of JointTargets: a default posture other than    *)
(* zero, outputs beyond both position limits and some between.             *)
(***************************************************************************)
EXTENDS JointTargets

HomePosture == [j \in Joints |-> 1]
PolicyOutputs == {-5, -1, 3}
=============================================================================
