------------------------------- MODULE MCOutbox -------------------------------
(***************************************************************************)
(* Small instances of Outbox for TLC.  A tick is 15 to 30 seconds: the     *)
(* first backoff is two, a run lasts two and a lease four.                 *)
(***************************************************************************)
EXTENDS Outbox, TLC

\* Threads, and runs of the retry job, are interchangeable.
Interchangeable == Permutations(Workers) \cup Permutations(Runs)

=============================================================================
