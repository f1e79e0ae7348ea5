----------------------------- MODULE MCLearner ------------------------------
(***************************************************************************)
(* Instances of Learner for TLC. Three iterations are enough for a prompt  *)
(* to be adopted, measured as the next baseline, and met again by a run    *)
(* that reuses those measurements. The two pre-flight numbers are one that *)
(* only pre-flights use and the number of an iteration's first reject.     *)
(***************************************************************************)
EXTENDS Learner

MCPreflightVersions == {10100, 10500}
=============================================================================
