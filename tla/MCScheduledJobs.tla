--------------------------- MODULE MCScheduledJobs ---------------------------
(***************************************************************************)
(* A small instance of ScheduledJobs for TLC.                              *)
(***************************************************************************)
EXTENDS ScheduledJobs

=============================================================================
