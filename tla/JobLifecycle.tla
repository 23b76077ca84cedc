---------------------------- MODULE JobLifecycle -----------------------------
(***************************************************************************)
(* What the worker promises about the statuses it reports: the order in    *)
(* which a job's statuses follow one another, and one job at a time. The   *)
(* pipeline is shown to implement this specification; the task history and *)
(* the delivery of statuses to clients are built on it.                    *)
(***************************************************************************)
EXTENDS Integers

CONSTANTS JobId,  \* job ids that clients may use
          NoJob   \* no job has been started

VARIABLES status,  \* the status last reported of each job
          active   \* the job last started

lifecycleVars == <<status, active>>

\* JobStatus, without cancelled, which nothing reports.
JobStatus == {"queued", "downloading", "printing", "submitted", "completed",
              "failed", "unknown"}

Outcome == {"submitted", "completed", "unknown", "failed"}

\* The statuses that may follow one another.
Follows ==
    [queued |-> {"downloading", "printing", "failed"},
     downloading |-> {"printing", "failed"},
     printing |-> {"printing", "submitted", "failed"},
     submitted |-> {"completed", "unknown"},
     completed |-> {}, unknown |-> {}, failed |-> {}]

LifecycleInit ==
    /\ status = [j \in JobId |-> "none"]
    /\ active = NoJob

\* A job starts when the previous one has its outcome.
Start(j) ==
    /\ active # NoJob => status[active] \in Outcome
    /\ status[j] = "none"
    /\ active' = j
    /\ status' = [status EXCEPT ![j] = "queued"]

Advance(s) ==
    /\ active # NoJob
    /\ s \in Follows[status[active]]
    /\ status' = [status EXCEPT ![active] = s]
    /\ UNCHANGED active

\* A restarted agent has forgotten its jobs; clients may use their ids again.
Restart ==
    /\ status' = [j \in JobId |-> "none"]
    /\ active' = NoJob

LifecycleNext ==
    \/ \E j \in JobId : Start(j)
    \/ \E s \in JobStatus : Advance(s)
    \/ Restart

LifecycleSpec == LifecycleInit /\ [][LifecycleNext]_lifecycleVars
=============================================================================
