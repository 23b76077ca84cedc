----------------------------- MODULE TaskHistory -----------------------------
(***************************************************************************)
(* Where the reports of the worker go: the bounded in-memory log (logs.rs) *)
(* and the SQLite task history with its events and one summary row per job *)
(* (task_history.rs). Three parties touch them: the worker's push_log      *)
(* (queue.rs), test prints (test_print.rs) and the clear command           *)
(* (command_executor.rs), which empties the log first and the store after. *)
(* The process may die between the two halves of push_log; the database    *)
(* survives, the job ids are forgotten and may be used again.              *)
(* The worker reports along JobLifecycle, which JobPipeline implements.    *)
(***************************************************************************)
EXTENDS JobLifecycle, Sequences

CONSTANTS Tester,       \* test prints, each with its own fresh job id
          NoRow,        \* the history has no row for a job
          LogCapacity,  \* capacity of the in-memory log
          MaxReports,   \* bound: reports of the worker
          MaxClears,    \* bound: clear commands
          MaxRestarts   \* bound: crashes of the agent

Owner == JobId \cup Tester

ASSUME HistoryAssumption ==
    /\ JobId \cap Tester = {}
    /\ NoJob \notin JobId
    /\ LogCapacity \in Nat
    /\ {MaxReports, MaxClears, MaxRestarts} \subseteq Nat

\* TaskHistoryStatus::is_terminal
is_terminal(s) == s \in {"submitted", "completed", "failed", "unknown"}

NeverFinished == 0  \* finished_at = NULL
NothingToRecord == [job |-> NoJob, status |-> "none", at |-> 0]

Entry == [job : JobId, status : JobStatus]
Event == [status : JobStatus, occurred_at : Nat \ {0}]
Row == [current_status : JobStatus, created_at : Nat \ {0},
        updated_at : Nat \ {0}, finished_at : Nat]

ASSUME NoRowAssumption == NoRow \notin Row

VARIABLES reports,     \* every entry ever logged and broadcast
          logs,        \* LogStore.entries
          unrecorded,  \* the entry push_log has not yet written to the history
          events,      \* task_history_events, per job id
          rows,        \* task_history_jobs, per job id
          test,        \* "idle", or "done" once the test print has ended
          clearing,    \* where the clear command is
          clears,      \* clear commands so far
          life         \* restarts so far

history == <<events, rows>>
historyVars == <<status, active, reports, logs, unrecorded, events, rows, test,
                 clearing, clears, life>>

HistoryInit ==
    /\ LifecycleInit
    /\ reports = << >>
    /\ logs = << >>
    /\ unrecorded = NothingToRecord
    /\ events = [o \in Owner |-> << >>]
    /\ rows = [o \in Owner |-> NoRow]
    /\ test = [t \in Tester |-> "idle"]
    /\ clearing = "idle"
    /\ clears = 0
    /\ life = 0
-----------------------------------------------------------------------------
\* LogStore::push: the oldest entries beyond the capacity are dropped.
push(entries, entry) ==
    LET longer == Append(entries, entry)
        excess == Len(longer) - LogCapacity
    IN  IF excess > 0 THEN SubSeq(longer, excess + 1, Len(longer)) ELSE longer

\* push_log: the entry is logged and broadcast; its timestamp is its position
\* among all reports. Writing it to the history is the step Record.
Report ==
    /\ unrecorded = NothingToRecord
    /\ Len(reports) < MaxReports
    /\ (\E j \in JobId : Start(j)) \/ (\E s \in JobStatus : Advance(s))
    /\ LET entry == [job |-> active', status |-> status'[active']]
       IN  /\ reports' = Append(reports, entry)
           /\ logs' = push(logs, entry)
           /\ unrecorded' = [job |-> entry.job, status |-> entry.status,
                             at |-> Len(reports) + 1]
    /\ UNCHANGED <<history, test, clearing, clears, life>>

\* Mutant: finished_at is set from every event.
UpsertOverwrites(row, s, at) ==
    LET finished_at == IF is_terminal(s) THEN at ELSE NeverFinished
    IN  [current_status |-> s,
         created_at |-> IF row = NoRow THEN at ELSE row.created_at,
         updated_at |-> at,
         finished_at |-> finished_at]

\* INSERT ... ON CONFLICT(job_id) DO UPDATE of task_history_jobs.
upsert(row, s, at) ==
    LET finished_at == IF is_terminal(s) THEN at ELSE NeverFinished
    IN  IF row = NoRow
        THEN [current_status |-> s, created_at |-> at, updated_at |-> at,
              finished_at |-> finished_at]
        ELSE [row EXCEPT !.current_status = s,
                         !.updated_at = at,
                         !.finished_at = IF finished_at # NeverFinished
                                         THEN finished_at ELSE @]

\* One transaction: the event, and the summary of its job.
record_event(o, s, at) ==
    /\ events' = [events EXCEPT ![o] = Append(@, [status |-> s, occurred_at |-> at])]
    /\ rows' = [rows EXCEPT ![o] = upsert(@, s, at)]

\* Mutant: an event is recorded again although its transaction succeeded.
RecordAgain ==
    /\ unrecorded # NothingToRecord
    /\ record_event(unrecorded.job, unrecorded.status, unrecorded.at)
    /\ unrecorded' \in {unrecorded, NothingToRecord}
    /\ UNCHANGED <<status, active, reports, logs, test, clearing, clears, life>>

\* The end of push_log; a transaction that fails is only written to the log file.
Record ==
    /\ unrecorded # NothingToRecord
    /\ \/ record_event(unrecorded.job, unrecorded.status, unrecorded.at)
       \/ UNCHANGED history
    /\ unrecorded' = NothingToRecord
    /\ UNCHANGED <<status, active, reports, logs, test, clearing, clears, life>>

\* print_test_page_with_config has printed, or failed to, and records it now.
\* A test page of an offline printer is not recorded.
TestEnds(t) ==
    /\ test[t] = "idle"
    /\ test' = [test EXCEPT ![t] = "done"]
    /\ \/ \E s \in {"submitted", "failed"} : record_event(t, s, Len(reports) + 1)
       \/ UNCHANGED history
    /\ UNCHANGED <<status, active, reports, logs, unrecorded, clearing, clears, life>>

\* Command::ClearTaskHistory empties the log, then the store, which may fail.
ClearLogs ==
    /\ clearing = "idle"
    /\ clears < MaxClears
    /\ logs' = << >>
    /\ clears' = clears + 1
    /\ clearing' = "store"
    /\ UNCHANGED <<status, active, reports, unrecorded, history, test, life>>

ClearStore ==
    /\ clearing = "store"
    /\ clearing' = "idle"
    /\ \/ /\ events' = [o \in Owner |-> << >>]
          /\ rows' = [o \in Owner |-> NoRow]
       \/ UNCHANGED history
    /\ UNCHANGED <<status, active, reports, logs, unrecorded, test, clears, life>>

\* The process dies and is started again over the same database.
Crash ==
    /\ life < MaxRestarts
    /\ life' = life + 1
    /\ Restart
    /\ logs' = << >>
    /\ unrecorded' = NothingToRecord
    /\ clearing' = "idle"
    /\ UNCHANGED <<reports, history, test, clears>>

HistoryNext ==
    \/ Report
    \/ Record
    \/ \E t \in Tester : TestEnds(t)
    \/ ClearLogs
    \/ ClearStore
    \/ Crash

HistorySpec == HistoryInit /\ [][HistoryNext]_historyVars
-----------------------------------------------------------------------------
HistoryTypeOK ==
    /\ status \in [JobId -> JobStatus \cup {"none"}]
    /\ active \in JobId \cup {NoJob}
    /\ reports \in Seq(Entry)
    /\ logs \in Seq(Entry)
    /\ unrecorded \in [job : JobId, status : JobStatus, at : Nat \ {0}]
                        \cup {NothingToRecord}
    /\ events \in [Owner -> Seq(Event)]
    /\ rows \in [Owner -> Row \cup {NoRow}]
    /\ test \in [Tester -> {"idle", "done"}]
    /\ clearing \in {"idle", "store"}
    /\ clears \in Nat
    /\ life \in Nat

\* What a row must say, given the events of its job.
Summarises(row, e) ==
    LET terminal == {i \in DOMAIN e : is_terminal(e[i].status)}
    IN  /\ row.created_at = e[1].occurred_at
        /\ row.updated_at = e[Len(e)].occurred_at
        /\ row.current_status = e[Len(e)].status
        /\ terminal = {} => row.finished_at = NeverFinished
        /\ \A i \in terminal : (\A k \in terminal : k <= i)
                                   => row.finished_at = e[i].occurred_at

\* The summary row of a job agrees with its events, across clears, failed
\* transactions, crashes and the reuse of a job id after a restart: created by
\* the first event, updated by the last, finished by the last terminal one.
RowSummarisesEvents ==
    \A o \in Owner :
        IF events[o] = << >> THEN rows[o] = NoRow ELSE Summarises(rows[o], events[o])

\* The history never knows more than clients were told: each event of a job was
\* reported before, and events keep the order of the reports.
HistoryFollowsReports ==
    \A j \in JobId :
        /\ \A i \in DOMAIN events[j] :
              LET at == events[j][i].occurred_at
              IN  at <= Len(reports) /\ reports[at] = [job |-> j, status |-> events[j][i].status]
        /\ \A i, k \in DOMAIN events[j] :
              i < k => events[j][i].occurred_at < events[j][k].occurred_at
=============================================================================
