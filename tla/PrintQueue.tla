----------------------------- MODULE PrintQueue ------------------------------
(***************************************************************************)
(* The agent's in-memory print queue and the tasks that share it:          *)
(*  - WebSocket connection tasks that admit single jobs and batches under  *)
(*    the queue mutex and then signal the worker                           *)
(*    (crates/runtime/src/server.rs, crates/core/src/queue.rs);            *)
(*  - the one worker task that pops jobs and sleeps on the Notify          *)
(*    (crates/runtime/src/queue.rs);                                       *)
(*  - AgentHandle::shutdown, which cancels the worker's token              *)
(*    (crates/runtime/src/agent.rs).                                       *)
(* A job is reduced to its id and its batch; whether its fields pass the   *)
(* acceptance checks is the Boolean "valid" of the submitted input.        *)
(***************************************************************************)
EXTENDS Integers, Sequences

CONSTANTS Conn,          \* WebSocket connection tasks
          JobId,         \* job ids that clients may use
          BatchId,       \* batch ids that clients may use
          NoBatch,       \* batch_id = None
          NoJob,         \* the worker holds no job
          MaxBatchJobs,  \* config.limits.max_batch_jobs
          Submissions    \* the lists of jobs a client may send as one batch

QueuedJob == [job_id : JobId, batch_id : BatchId \cup {NoBatch}]
NoQueuedJob == [job_id |-> NoJob, batch_id |-> NoBatch]
PrintJobInput == [job_id : JobId, valid : BOOLEAN]

ASSUME QueueAssumption ==
    /\ NoBatch \notin BatchId
    /\ MaxBatchJobs \in Nat
    /\ Submissions \subseteq Seq(PrintJobInput)

IdsOf(s) == {s[i].job_id : i \in DOMAIN s}
DistinctIds(s) == \A i, k \in DOMAIN s : s[i].job_id = s[k].job_id => i = k

\* INVALID_MESSAGE stands for every code of a failed validation, FILE_TOO_LARGE
\* included.
Replies == {"none", "queued", "INVALID_MESSAGE", "JOB_DUPLICATED",
            "BATCH_DUPLICATED", "BATCH_TOO_LARGE"}

VARIABLES pending,          \* QueueState.pending, front first
          seen_job_ids,     \* QueueState.seen_job_ids
          seen_batch_ids,   \* QueueState.seen_batch_ids
          handler,          \* where each connection's handle_client_text is
          reply,            \* the last response each connection computed
          notify,           \* state of tokio's Notify: EMPTY, WAITING, NOTIFIED
          worker,           \* where the worker loop is
          current,          \* the job the worker holds
          taken,            \* history: every job popped, in order
          shutdown          \* the CancellationToken has been cancelled

queueVars == <<pending, seen_job_ids, seen_batch_ids>>
connVars == <<handler, reply>>
workerVars == <<worker, current, taken>>
vars == <<pending, seen_job_ids, seen_batch_ids, handler, reply, notify,
          worker, current, taken, shutdown>>

Init ==
    /\ pending = << >>
    /\ seen_job_ids = {}
    /\ seen_batch_ids = {}
    /\ handler = [c \in Conn |-> "idle"]
    /\ reply = [c \in Conn |-> "none"]
    /\ notify = "EMPTY"
    /\ worker = "check"
    /\ current = NoQueuedJob
    /\ taken = << >>
    /\ shutdown = FALSE
-----------------------------------------------------------------------------
(* Admission: handle_client_text for print and print_batch.                *)

Refuse(c, code) ==
    /\ reply' = [reply EXCEPT ![c] = code]
    /\ UNCHANGED <<pending, seen_job_ids, seen_batch_ids, handler>>

\* Mutant: a handler that forgets to signal the worker.
AdmitSilently(c) ==
    /\ reply' = [reply EXCEPT ![c] = "queued"]
    /\ UNCHANGED handler

\* After the queue lock is released the handler still has to call notify_one.
Admit(c) ==
    /\ reply' = [reply EXCEPT ![c] = "queued"]
    /\ handler' = [handler EXCEPT ![c] = "notifying"]

accept_queued_job(job) ==
    /\ job.job_id \notin seen_job_ids
    /\ seen_job_ids' = seen_job_ids \cup {job.job_id}
    /\ pending' = Append(pending, job)

PrintJob(c, job) ==
    /\ handler[c] = "idle"
    /\ \/ ~job.valid /\ Refuse(c, "INVALID_MESSAGE")
       \/ /\ job.valid
          /\ job.job_id \in seen_job_ids
          /\ Refuse(c, "JOB_DUPLICATED")
       \/ /\ job.valid
          /\ accept_queued_job([job_id |-> job.job_id, batch_id |-> NoBatch])
          /\ UNCHANGED seen_batch_ids
          /\ Admit(c)
    /\ UNCHANGED <<notify, workerVars, shutdown>>

\* Mutant: a batch is compared with the queue but not with itself.
HasSeenDuplicate(jobs) == IdsOf(jobs) \cap seen_job_ids # {}

\* A job id of the batch is already known, or occurs twice in the batch.
HasDuplicate(jobs) ==
    \/ IdsOf(jobs) \cap seen_job_ids # {}
    \/ ~DistinctIds(jobs)

BatchError(batch_id, jobs) ==
    IF Len(jobs) > MaxBatchJobs THEN "BATCH_TOO_LARGE"
    ELSE IF \E i \in DOMAIN jobs : ~jobs[i].valid THEN "INVALID_MESSAGE"
    ELSE IF batch_id \in seen_batch_ids THEN "BATCH_DUPLICATED"
    ELSE IF HasDuplicate(jobs) THEN "JOB_DUPLICATED"
    ELSE "none"

InBatch(batch_id, jobs) ==
    [i \in 1..Len(jobs) |-> [job_id |-> jobs[i].job_id, batch_id |-> batch_id]]

\* Mutant: the batch id is not remembered.
AcceptForgottenBatch(batch_id, jobs) ==
    /\ UNCHANGED seen_batch_ids
    /\ seen_job_ids' = seen_job_ids \cup IdsOf(jobs)
    /\ pending' = pending \o InBatch(batch_id, jobs)

accept_batch(batch_id, jobs) ==
    /\ seen_batch_ids' = seen_batch_ids \cup {batch_id}
    /\ seen_job_ids' = seen_job_ids \cup IdsOf(jobs)
    /\ pending' = pending \o InBatch(batch_id, jobs)

PrintBatch(c, batch_id, jobs) ==
    /\ handler[c] = "idle"
    /\ LET error == BatchError(batch_id, jobs)
       IN  \/ error # "none" /\ Refuse(c, error)
           \/ error = "none" /\ accept_batch(batch_id, jobs) /\ Admit(c)
    /\ UNCHANGED <<notify, workerVars, shutdown>>

\* Mutant: a condition variable, which forgets a signal nobody waits for.
NotifyWithoutPermit ==
    IF notify = "WAITING"
    THEN notify' = "EMPTY" /\ worker' = "woken"
    ELSE UNCHANGED <<notify, worker>>

\* tokio's Notify: wake the registered waiter, or leave one permit.
notify_one ==
    IF notify = "WAITING"
    THEN notify' = "EMPTY" /\ worker' = "woken"
    ELSE notify' = "NOTIFIED" /\ UNCHANGED worker

NotifyWorker(c) ==
    /\ handler[c] = "notifying"
    /\ notify_one
    /\ handler' = [handler EXCEPT ![c] = "idle"]
    /\ UNCHANGED <<queueVars, reply, current, taken, shutdown>>
-----------------------------------------------------------------------------
(* The worker: run_worker_until.                                           *)

WorkerCheck ==
    /\ worker = "check"
    /\ worker' = IF shutdown THEN "stopped" ELSE "pop"
    /\ UNCHANGED <<queueVars, connVars, notify, current, taken, shutdown>>

\* Mutant: the queue is used as a stack.
PopLast ==
    /\ pending # << >>
    /\ current' = pending[Len(pending)]
    /\ pending' = SubSeq(pending, 1, Len(pending) - 1)
    /\ taken' = Append(taken, pending[Len(pending)])

pop_next ==
    /\ pending # << >>
    /\ current' = Head(pending)
    /\ pending' = Tail(pending)
    /\ taken' = Append(taken, Head(pending))

WorkerPop ==
    /\ worker = "pop"
    /\ \/ pop_next /\ worker' = "processing"
       \/ pending = << >> /\ worker' = "select" /\ UNCHANGED <<pending, current, taken>>
    /\ UNCHANGED <<seen_job_ids, seen_batch_ids, connVars, notify, shutdown>>

\* process_job returns whatever the outcome of the job was.
WorkerFinish ==
    /\ worker = "processing"
    /\ worker' = "check"
    /\ current' = NoQueuedJob
    /\ UNCHANGED <<queueVars, connVars, notify, taken, shutdown>>

\* First poll of the select: cancelled() and notified() are polled in random
\* order; a stored permit is consumed, otherwise the worker registers.
WorkerSelect ==
    /\ worker = "select"
    /\ \/ shutdown /\ worker' = "stopped" /\ UNCHANGED notify
       \/ notify = "NOTIFIED" /\ notify' = "EMPTY" /\ worker' = "check"
       \/ /\ ~shutdown
          /\ notify = "EMPTY"
          /\ notify' = "WAITING"
          /\ worker' = "waiting"
    /\ UNCHANGED <<queueVars, connVars, current, taken, shutdown>>

\* Mutant: the parked worker waits for a notification only.
WakeOnNotifyOnly ==
    /\ worker = "woken" /\ worker' = "check" /\ UNCHANGED notify
    /\ UNCHANGED <<queueVars, connVars, current, taken, shutdown>>

\* A later poll, after a wake-up or a cancellation. Dropping a Notified that
\* was woken but not polled passes the permit on; one not woken unregisters.
WorkerWake ==
    /\ \/ worker = "woken" /\ worker' = "check" /\ UNCHANGED notify
       \/ worker = "woken" /\ shutdown /\ worker' = "stopped" /\ notify' = "NOTIFIED"
       \/ worker = "waiting" /\ shutdown /\ worker' = "stopped" /\ notify' = "EMPTY"
    /\ UNCHANGED <<queueVars, connVars, current, taken, shutdown>>

\* AgentHandle::shutdown; connections that are open stay open.
Shutdown ==
    /\ ~shutdown
    /\ shutdown' = TRUE
    /\ UNCHANGED <<queueVars, connVars, notify, workerVars>>
-----------------------------------------------------------------------------
WorkerStep ==
    WorkerCheck \/ WorkerPop \/ WorkerFinish \/ WorkerSelect \/ WorkerWake

Next ==
    \/ \E c \in Conn, job \in PrintJobInput : PrintJob(c, job)
    \/ \E c \in Conn, b \in BatchId, jobs \in Submissions : PrintBatch(c, b, jobs)
    \/ \E c \in Conn : NotifyWorker(c)
    \/ WorkerStep
    \/ Shutdown

Spec == Init /\ [][Next]_vars

\* tokio keeps polling tasks that are ready, and process_job is assumed to
\* return: downloads, conversions, rendering and tracking have deadlines, the
\* operating system's own print command has none and is trusted to end.
\* Nothing obliges clients to submit or the operator to shut down.
FairSpec ==
    Spec /\ WF_vars(WorkerStep) /\ \A c \in Conn : WF_vars(NotifyWorker(c))
-----------------------------------------------------------------------------
TypeOK ==
    /\ pending \in Seq(QueuedJob)
    /\ seen_job_ids \subseteq JobId
    /\ seen_batch_ids \subseteq BatchId
    /\ handler \in [Conn -> {"idle", "notifying"}]
    /\ reply \in [Conn -> Replies]
    /\ notify \in {"EMPTY", "WAITING", "NOTIFIED"}
    /\ worker \in {"check", "pop", "processing", "select", "waiting", "woken", "stopped"}
    /\ current \in QueuedJob \cup {NoQueuedJob}
    /\ taken \in Seq(QueuedJob)
    /\ shutdown \in BOOLEAN

\* Every job admitted so far, in the order the worker takes or will take them.
Admitted == taken \o pending

\* No lost wake-up: the worker never sleeps on a non-empty queue unless a
\* connection that has just admitted a job is about to call notify_one
\* (server.rs releases the queue lock before it notifies).
NoLostWakeup ==
    worker = "waiting" /\ pending # << >> => \E c \in Conn : handler[c] = "notifying"

\* A job id is admitted at most once, even when two connections submit it
\* concurrently or a batch repeats it, and every id the queue remembers is one
\* it admitted: a refused request leaves its ids free to be used again.
EachJobOnce ==
    /\ DistinctIds(Admitted)
    /\ seen_job_ids = IdsOf(Admitted)

Contiguous(s) ==
    \A i, k \in DOMAIN s :
        i < k /\ s[i].batch_id # NoBatch /\ s[i].batch_id = s[k].batch_id
            => \A m \in i..k : s[m].batch_id = s[i].batch_id

\* The jobs of a batch are adjacent in the order of execution: no job of
\* another connection is printed between them.
BatchContiguous == Contiguous(Admitted)

(* The inductive invariant behind these properties.                        *)

\* The worker is parked exactly while the Notify has a registered waiter.
NotifyMatchesWorker == (worker = "waiting") = (notify = "WAITING")

\* Between finding the queue empty and being woken, a job that arrives leaves
\* a permit or a connection that has yet to notify.
WakeupOwed ==
    worker \in {"select", "waiting"} /\ pending # << >>
        => notify = "NOTIFIED" \/ \E c \in Conn : handler[c] = "notifying"

\* Every batch with an admitted job is remembered.
BatchesSeen ==
    \A i \in DOMAIN Admitted : Admitted[i].batch_id \in seen_batch_ids \cup {NoBatch}

QueueInv ==
    /\ TypeOK
    /\ NotifyMatchesWorker
    /\ WakeupOwed
    /\ EachJobOnce
    /\ BatchesSeen
    /\ BatchContiguous

\* The queue implements the ledger of jobs.
Ledger == INSTANCE JobLedger WITH
              ledger <- Admitted,
              started <- Len(taken),
              running <- worker = "processing"

ImplementsLedger == Ledger!LedgerSpec

\* Every admitted job is eventually taken by the worker, unless the agent is
\* shut down.
AdmittedIsTaken ==
    \A j \in JobId :
        (\E i \in DOMAIN pending : pending[i].job_id = j)
            ~> (shutdown \/ \E i \in DOMAIN taken : taken[i].job_id = j)

\* After a shutdown request the worker stops, whatever it was doing or waiting
\* for: the join in AgentHandle::shutdown returns.
ShutdownStopsWorker == shutdown ~> worker = "stopped"
=============================================================================
