----------------------------- MODULE MCScoring -----------------------------
(***************************************************************************)
(* Small inputs of ScoringCases for TLC.                                   *)
(***************************************************************************)
EXTENDS ScoringCases

(* From long enough before the start for the bonus not to fit the small    *)
(* int of this instance, to past every limit.                              *)
ReportedTimes == {-9, -4, -2} \cup -1..4
=============================================================================
