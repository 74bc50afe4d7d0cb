------------------------ MODULE MC_CronJobService ------------------------
(* Small instances of CronJobService for TLC.                              *)
EXTENDS CronJobService

CONSTANTS c1, c2, uOk, uSpace, uGone, uEmpty

\* "*", "1,7" (valid), "8" (out of range), "x" (int() raises)
MC_Dayweeks == {Star, <<1, 7>>, <<8>>, <<NotInt>>}
\* "*", "13" (out of range)
MC_Months == {Star, <<13>>}
MC_Users == {uOk, uSpace, uGone, uEmpty}
MC_Clients == {c1, c2}
=============================================================================
