---------------------------- MODULE MCSequential ----------------------------
(* The sequential algorithms: each behaviour follows one of them, the others *)
(* rest in their initial states.                                             *)
EXTENDS IntSeries, SafTransfer, SafPaths, PiecesTracker

AllVars == <<seriesVars, transferVars, pathVars, trackerVars>>

AllInit == SeriesInit /\ TransferInit /\ PathsInit /\ TrackerInit

SeriesRests == size = 0 /\ UNCHANGED seriesVars
TransferRests == phase = "idle" /\ UNCHANGED transferVars
PathsRest == step = "idle" /\ UNCHANGED pathVars
TrackerRests == layout = <<>> /\ UNCHANGED trackerVars

AllNext ==
    \/ TransferRests /\ PathsRest /\ TrackerRests /\ SeriesNext
    \/ SeriesRests /\ PathsRest /\ TrackerRests /\ TransferNext
    \/ SeriesRests /\ TransferRests /\ TrackerRests /\ PathsNext
    \/ SeriesRests /\ TransferRests /\ PathsRest /\ TrackerNext

AllSpec == AllInit /\ [][AllNext]_AllVars
=============================================================================
