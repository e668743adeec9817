------------------------- MODULE MCDailyProfitJobs -------------------------
(***************************************************************************)
(* Instances of DailyProfitJobs for TLC.                                   *)
(***************************************************************************)
EXTENDS DailyProfitJobs

TwoRanges == {{1}, {1, 2}}
OneRange  == {{1}}
=============================================================================
