--------------------------- MODULE StatusDelivery ----------------------------
(***************************************************************************)
(* How a client learns what becomes of its jobs: the WebSocket connection  *)
(* tasks of crates/runtime/src/server.rs, the broadcast channel that       *)
(* carries the worker's reports (crates/runtime/src/state.rs), and the     *)
(* set accepted_job_ids by which each connection filters it.               *)
(*                                                                         *)
(* The module composes what the other parts promise: jobs are admitted     *)
(* and started as in JobLedger, which PrintQueue implements, and reported  *)
(* as in JobLifecycle, which JobPipeline implements.                       *)
(***************************************************************************)
EXTENDS JobLifecycle, Sequences, FiniteSets

CONSTANTS Conn,         \* WebSocket connections, each opened once
          BatchId,      \* batch ids that clients may use
          NoBatch,      \* batch_id = None
          Capacity,     \* STATUS_EVENT_CAPACITY
          MaxRequests,  \* bound: print requests per connection
          MaxEvents     \* bound: broadcast status events

ASSUME DeliveryAssumption ==
    /\ NoJob \notin JobId
    /\ NoBatch \notin BatchId
    /\ Capacity \in Nat \ {0}
    /\ {MaxRequests, MaxEvents} \subseteq Nat

VARIABLES ledger, started, running,  \* the queue, as in JobLedger
          channel,    \* every status event broadcast; the ring keeps the last
          phase,      \* where each handle_socket is
          cursor,     \* events each receiver has consumed or skipped
          accepted,   \* accepted_job_ids of each connection
          outgoing,   \* the message each connection is sending
          received,   \* what each client has received, in order
          submitted,  \* history: the jobs each connection had admitted
          lagged      \* history: the receiver skipped events

Queue == INSTANCE JobLedger

queueVars == <<ledger, started, running>>
workerVars == <<status, active, channel>>
socketVars == <<phase, cursor, accepted, outgoing, received, submitted, lagged>>
vars == <<queueVars, workerVars, socketVars>>

\* Messages to a client: the answer to a print request, or a status event,
\* named by its position among all events.
Answer(jobs) == [type |-> "queued", jobs |-> jobs, event |-> 0]
Error == [type |-> "error", jobs |-> {}, event |-> 0]
Nothing == [type |-> "none", jobs |-> {}, event |-> 0]
Status(n) == [type |-> "job_status", jobs |-> {channel[n].job}, event |-> n]

StatusIn(s) == {i \in DOMAIN s : s[i].type = "job_status"}

Init ==
    /\ LifecycleInit
    /\ Queue!LedgerInit
    /\ channel = << >>
    /\ phase = [c \in Conn |-> "new"]
    /\ cursor = [c \in Conn |-> 0]
    /\ accepted = [c \in Conn |-> {}]
    /\ outgoing = [c \in Conn |-> Nothing]
    /\ received = [c \in Conn |-> << >>]
    /\ submitted = [c \in Conn |-> {}]
    /\ lagged = [c \in Conn |-> FALSE]
-----------------------------------------------------------------------------
(* A connection: handle_socket.                                            *)

Goto(c, p) == phase' = [phase EXCEPT ![c] = p]

\* Subscribing starts after the events broadcast so far.
Open(c) ==
    /\ phase[c] = "new"
    /\ Goto(c, "select")
    /\ cursor' = [cursor EXCEPT ![c] = Len(channel)]
    /\ UNCHANGED <<queueVars, workerVars, accepted, outgoing, received, submitted, lagged>>

IdsOf(group) == {group[i].job_id : i \in DOMAIN group}

\* Mutant: job ids are bound to the connection whatever the queue answers.
SubmitBindsRefused(c, group) ==
    /\ phase[c] = "select"
    /\ Cardinality(DOMAIN received[c] \ StatusIn(received[c])) < MaxRequests
    /\ outgoing' = [outgoing EXCEPT ![c] = Answer(IdsOf(group))]
    /\ Goto(c, "admitted")
    /\ \/ /\ Queue!Admit(group)
          /\ submitted' = [submitted EXCEPT ![c] = @ \cup IdsOf(group)]
       \/ ~Queue!Fresh(group) /\ UNCHANGED <<queueVars, submitted>>
    /\ UNCHANGED <<workerVars, cursor, accepted, received, lagged>>

\* A print or print_batch message: admitted by the queue as a whole, or refused.
\* The jobs are in the queue, and the worker may report on them, before the
\* connection knows that they are its own.
Submit(c, group) ==
    /\ phase[c] = "select"
    /\ Cardinality(DOMAIN received[c] \ StatusIn(received[c])) < MaxRequests
    /\ \/ /\ Queue!Admit(group)
          /\ submitted' = [submitted EXCEPT ![c] = @ \cup IdsOf(group)]
          /\ outgoing' = [outgoing EXCEPT ![c] = Answer(IdsOf(group))]
          /\ Goto(c, "admitted")
       \/ /\ ~Queue!Fresh(group)
          /\ outgoing' = [outgoing EXCEPT ![c] = Error]
          /\ Goto(c, "send")
          /\ UNCHANGED <<queueVars, submitted>>
    /\ UNCHANGED <<workerVars, cursor, accepted, received, lagged>>

\* Mutant: the answer is left to somebody else, and the task polls on.
ExtendWithoutAnswer(c) ==
    /\ phase[c] = "admitted"
    /\ accepted' = [accepted EXCEPT ![c] = @ \cup outgoing[c].jobs]
    /\ Goto(c, "select")
    /\ UNCHANGED <<queueVars, workerVars, cursor, outgoing, received, submitted, lagged>>

\* accepted_job_ids.extend, once handle_client_text has returned.
Extend(c) ==
    /\ phase[c] = "admitted"
    /\ accepted' = [accepted EXCEPT ![c] = @ \cup outgoing[c].jobs]
    /\ Goto(c, "send")
    /\ UNCHANGED <<queueVars, workerVars, cursor, outgoing, received, submitted, lagged>>

Behind(c) == Len(channel) - cursor[c]

\* Mutant: events are consumed while a request is being handled.
RecvConcurrently(c) ==
    /\ phase[c] \in {"select", "admitted"}
    /\ Behind(c) \in 1..Capacity
    /\ cursor' = [cursor EXCEPT ![c] = @ + 1]
    /\ IF phase[c] = "select" /\ channel[cursor[c] + 1].job \in accepted[c]
       THEN outgoing' = [outgoing EXCEPT ![c] = Status(cursor[c] + 1)] /\ Goto(c, "send")
       ELSE UNCHANGED <<outgoing, phase>>
    /\ UNCHANGED <<queueVars, workerVars, accepted, received, submitted, lagged>>

\* status_events.recv: the next event is sent to the client if it is about one
\* of the connection's jobs.
Recv(c) ==
    /\ phase[c] = "select"
    /\ Behind(c) \in 1..Capacity
    /\ cursor' = [cursor EXCEPT ![c] = @ + 1]
    /\ IF channel[cursor[c] + 1].job \in accepted[c]
       THEN outgoing' = [outgoing EXCEPT ![c] = Status(cursor[c] + 1)] /\ Goto(c, "send")
       ELSE UNCHANGED <<outgoing, phase>>
    /\ UNCHANGED <<queueVars, workerVars, accepted, received, submitted, lagged>>

\* RecvError::Lagged: the receiver continues with the oldest retained event.
Lag(c) ==
    /\ phase[c] = "select"
    /\ Behind(c) > Capacity
    /\ cursor' = [cursor EXCEPT ![c] = Len(channel) - Capacity]
    /\ lagged' = [lagged EXCEPT ![c] = TRUE]
    /\ UNCHANGED <<queueVars, workerVars, phase, accepted, outgoing, received, submitted>>

\* sender.send completes when the client reads; the task waits for it.
Send(c) ==
    /\ phase[c] = "send"
    /\ received' = [received EXCEPT ![c] = Append(@, outgoing[c])]
    /\ outgoing' = [outgoing EXCEPT ![c] = Nothing]
    /\ Goto(c, "select")
    /\ UNCHANGED <<queueVars, workerVars, cursor, accepted, submitted, lagged>>

\* The client closes, or sending to it fails.
Close(c) ==
    /\ phase[c] \in {"select", "send"}
    /\ outgoing' = [outgoing EXCEPT ![c] = Nothing]
    /\ Goto(c, "closed")
    /\ UNCHANGED <<queueVars, workerVars, cursor, accepted, received, submitted, lagged>>
-----------------------------------------------------------------------------
(* The worker: reports are broadcast as they are made.                     *)

broadcast_status(j, s) ==
    /\ Len(channel) < MaxEvents
    /\ channel' = Append(channel, [job |-> j, status |-> s])

WorkerStart ==
    /\ Queue!Start
    /\ Start(ledger[started + 1].job_id)
    /\ broadcast_status(ledger[started + 1].job_id, "queued")
    /\ UNCHANGED socketVars

WorkerReport ==
    /\ running
    /\ \E s \in JobStatus : Advance(s) /\ broadcast_status(active, s)
    /\ UNCHANGED <<queueVars, socketVars>>

WorkerFinish ==
    /\ Queue!Finish
    /\ status[active] \in Outcome
    /\ UNCHANGED <<workerVars, socketVars>>

WorkerStep == WorkerStart \/ WorkerReport \/ WorkerFinish

\* The requests clients may send: one job, or a batch of two.
Single(j) == <<[job_id |-> j, batch_id |-> NoBatch]>>
Pair(j, k, b) == <<[job_id |-> j, batch_id |-> b], [job_id |-> k, batch_id |-> b]>>
Groups ==
    {Single(j) : j \in JobId} \cup {Pair(j, k, b) : j, k \in JobId, b \in BatchId}

SocketStep(c) == Extend(c) \/ Recv(c) \/ Lag(c) \/ Send(c)

Next ==
    \/ \E c \in Conn : Open(c) \/ SocketStep(c) \/ Close(c)
    \/ \E c \in Conn, group \in Groups : Submit(c, group)
    \/ WorkerStep

Spec == Init /\ [][Next]_vars

\* Connection tasks are polled while they can continue, and clients are assumed
\* to keep reading: a send ends, or the connection does. The worker goes on with
\* its job (JobIsAnswered of JobPipeline).
FairSpec == Spec /\ WF_vars(WorkerStep) /\ \A c \in Conn : WF_vars(SocketStep(c))
-----------------------------------------------------------------------------
Message == [type : {"none", "queued", "error", "job_status"}, jobs : SUBSET JobId, event : Nat]

TypeOK ==
    /\ status \in [JobId -> JobStatus \cup {"none"}]
    /\ active \in JobId \cup {NoJob}
    /\ ledger \in Seq(Queue!Entry)
    /\ started \in Nat
    /\ running \in BOOLEAN
    /\ channel \in Seq([job : JobId, status : JobStatus])
    /\ phase \in [Conn -> {"new", "select", "admitted", "send", "closed"}]
    /\ cursor \in [Conn -> Nat]
    /\ accepted \in [Conn -> SUBSET JobId]
    /\ outgoing \in [Conn -> Message]
    /\ received \in [Conn -> Seq(Message)]
    /\ submitted \in [Conn -> SUBSET JobId]
    /\ lagged \in [Conn -> BOOLEAN]

\* A client receives status events of the jobs that it submitted itself, and of
\* no others, even if it tried to submit a job of somebody else's again.
OwnJobsOnly ==
    \A c \in Conn : \A i \in StatusIn(received[c]) : received[c][i].jobs \subseteq submitted[c]

\* The answer that a job is queued reaches the client before any status event
\* of the job, although the worker may report before the answer is sent.
AnswerFirst ==
    \A c \in Conn : \A i \in StatusIn(received[c]) :
        \E k \in 1..i - 1 :
            received[c][k].type = "queued" /\ received[c][i].jobs \subseteq received[c][k].jobs

\* The events a client has received, or is being sent.
Delivered(c) ==
    {received[c][i].event : i \in StatusIn(received[c])} \cup
    (IF outgoing[c].type = "job_status" THEN {outgoing[c].event} ELSE {})

\* Events reach a client in the order of the reports, none twice; and none is
\* missing up to where its receiver has read, unless that receiver lagged.
DeliveredInOrder ==
    \A c \in Conn :
        /\ \A i, k \in StatusIn(received[c]) :
              i < k => received[c][i].event < received[c][k].event
        /\ phase[c] \notin {"new", "closed"} /\ ~lagged[c] =>
              Delivered(c) = {n \in 1..cursor[c] : channel[n].job \in submitted[c]}

\* Every event of a connection's job is delivered, unless the connection ends or
\* its receiver lags.
EventsArrive ==
    \A c \in Conn, n \in 1..MaxEvents :
        n \in DOMAIN channel /\ channel[n].job \in submitted[c]
            ~> \/ phase[c] = "closed"
               \/ lagged[c]
               \/ \E i \in StatusIn(received[c]) : received[c][i].event = n

\* README.md: failed arrives as job_status.
FailedArrives ==
    \A c \in Conn, j \in JobId :
        status[j] = "failed" /\ j \in submitted[c]
            ~> \/ phase[c] = "closed"
               \/ \E i \in StatusIn(received[c]) :
                     channel[received[c][i].event] = [job |-> j, status |-> "failed"]
=============================================================================
