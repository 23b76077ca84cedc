----------------------------- MODULE MCPrintQueue -----------------------------
(***************************************************************************)
(* PrintQueue for TLC: every batch up to the limit of jobs, invalid and    *)
(* duplicated ones among them, and batches of one job more.                *)
(***************************************************************************)
EXTENDS PrintQueue

Upto(n) == UNION {[1..k -> PrintJobInput] : k \in 0..n}

\* What a batch over the limit holds makes no difference, except that a job of it
\* is known or is not.
TooLong == {[i \in 1..(MaxBatchJobs + 1) |-> job] : job \in PrintJobInput}

MCSubmissions == Upto(MaxBatchJobs) \cup TooLong
=============================================================================
