---------------------------- MODULE MCTrainLoop ----------------------------
(* Instances of TrainLoop for TLC; the values are in the .cfg files.        *)
EXTENDS TrainLoop
=============================================================================
