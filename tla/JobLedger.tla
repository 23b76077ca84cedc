------------------------------ MODULE JobLedger ------------------------------
(***************************************************************************)
(* What the print queue promises its clients, without locks, wake-ups or   *)
(* a worker loop: jobs are entered in a ledger, each job id at most once   *)
(* and each batch as one uninterrupted group; they are started in the      *)
(* order in which they were entered, one at a time.                        *)
(***************************************************************************)
EXTENDS Integers, Sequences

CONSTANTS JobId,    \* identifiers clients give to jobs
          BatchId,  \* identifiers clients give to batches
          NoBatch   \* the batch of a job that was submitted alone

VARIABLES ledger,   \* every job ever admitted, in admission order
          started,  \* how many of them have been started
          running   \* whether the last one started is still in progress

ledgerVars == <<ledger, started, running>>

Entry == [job_id : JobId, batch_id : BatchId \cup {NoBatch}]

LedgerInit ==
    /\ ledger = << >>
    /\ started = 0
    /\ running = FALSE

\* The entries of one submission are new, distinct, and all of one batch that
\* has no entry yet; a job outside a batch is a submission of its own.
Fresh(group) ==
    /\ \A i, k \in DOMAIN group :
          group[i].job_id = group[k].job_id => i = k
    /\ \A i \in DOMAIN group, k \in DOMAIN ledger :
          group[i].job_id # ledger[k].job_id
    /\ \/ Len(group) = 1 /\ group[1].batch_id = NoBatch
       \/ \E b \in BatchId :
             /\ \A i \in DOMAIN group : group[i].batch_id = b
             /\ \A k \in DOMAIN ledger : ledger[k].batch_id # b

Admit(group) ==
    /\ Fresh(group)
    /\ ledger' = ledger \o group
    /\ UNCHANGED <<started, running>>

Start ==
    /\ ~running
    /\ started < Len(ledger)
    /\ started' = started + 1
    /\ running' = TRUE
    /\ UNCHANGED ledger

Finish ==
    /\ running
    /\ running' = FALSE
    /\ UNCHANGED <<ledger, started>>

\* A submission is recognised by the suffix it adds to the ledger.
AdmitSome ==
    Admit(SubSeq(ledger', Len(ledger) + 1, Len(ledger')))

LedgerNext == AdmitSome \/ Start \/ Finish

LedgerSpec == LedgerInit /\ [][LedgerNext]_ledgerVars
=============================================================================
