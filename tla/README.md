# Yinshu print agent: TLA+ models and proofs

Yinshu is a local print agent. Web pages connect to it over a WebSocket, submit
print jobs one by one or in batches, and are told what becomes of them; a single
worker downloads, converts or renders each job and hands it to CUPS or Windows.
A desktop application and a headless server wrap the same Rust runtime; a CLI
talks to it over a local socket. This directory models the runtime: what its
concurrent tasks do to the state they share, what clients and users can rely on,
and what happens when a step fails or the process dies.

## Inventory

| Component (source) | State it keeps | Operations | Correct when |
|---|---|---|---|
| Print queue (`crates/core/src/queue.rs`) | `pending`, `seen_job_ids`, `seen_batch_ids` | accept job, accept batch, pop | ids admitted once; batches all or nothing and adjacent; FIFO |
| Worker loop (`crates/runtime/src/queue.rs`, `agent.rs`) | loop position, `Notify`, cancellation token | check, pop, park, wake, stop | no job is left behind while the worker sleeps; shutdown ends it |
| Job pipeline (`queue.rs`, `printing/*`, `download.rs`, `document.rs`, `office.rs`) | current job, temporary files, `print_lock`, what the OS holds | report, download, render, convert, print, finalize, track, clean up | one outcome per job, agreeing with the OS queue; files removed; lock released |
| Test pages (`test_print.rs`) | temporary page, history record | print, record | exclusive with the worker; ends |
| Task log and history (`logs.rs`, `task_history.rs`) | ring of entries; SQLite events and one row per job | push, record, clear, reopen | row = summary of events; events = reports, in order |
| WebSocket sessions (`server.rs`, `state.rs`) | broadcast cursor, `accepted_job_ids`, message being sent | subscribe, submit, bind ids, forward, lag, close | own jobs only, answer first, in order, complete unless lagging |
| Configuration (`state.rs`, `config.rs`, `command_executor.rs`, desktop `commands.rs`) | memory copy, file, autostart entry | save, import, load | file, memory and entry agree as long as commands do not meet; an import is what was previewed |
| HTML renderer (`html/*`) | launch gate, deadline, proxy, rejected resources | launch, render, cancel, shut down | one launch at a time; no output after the deadline; a rejected resource fails the job |
| Agent lifecycle, IPC (`agent.rs`, `ipc/*`, `cli/src/client.rs`) | port, socket file, task handles | start, serve, shut down, exchange | one agent; a command is not repeated silently |
| Admission of requests (`server.rs`, `protocol.rs`, `ip_whitelist.rs`) | session, configuration of the moment | check address, check Origin, validate fields, attach local origin | only allowed pages print; what is accepted can be processed |
| Print options and backends (`queue.rs`, `printing/*`) | options, printers as the system knows them | resolve, find, check, match paper, print | printer, paper and copies of one configuration; the sheet asked for |
| Office conversion (`office.rs`, `office/*`) | work directory, child process, instance record | stage, try converters, time out, clean up, validate | spares applications that were open before; one converter opens the file; ends unless its output pipe is kept open |
| Settings window (`App.vue`) | shown settings, last saved ones, chain of saves | load, fill in, edit, save, adopt, relaunch, import | stores only what was saved; what the agent has never differs from the window while Save is disabled |

How they meet: connection tasks and the worker share the queue under one mutex
and the `Notify`; the worker's `push_log` feeds the log, the broadcast channel and
the database, in this order; test pages and the clear command, issued over IPC or
from the desktop, touch the print lock, the log and the database at the same time
as the worker. Everything in memory is lost in a crash; the database, the
configuration file, temporary files and what the operating system accepted stay.

The hazards this gives rise to, each at its line of code and with the properties
that cover it, are listed in `PROJECT.json`.

## Modules

| Module | Models | Built on |
|---|---|---|
| `JobLedger` | abstract: what the queue promises (each id once, whole batches, FIFO, one at a time) | |
| `PrintQueue` | the queue, connections admitting jobs, the worker loop, `Notify`, shutdown | implements `JobLedger` |
| `PrintQueue_proofs` | its theorems | `PrintQueue` |
| `JobLifecycle` | abstract: the order of a job's statuses, one job after the other | |
| `JobPipeline` | `process_job`, print backends, test pages, crash and restart | implements `JobLifecycle` |
| `JobPipeline_proofs` | its theorems, the refinement among them | `JobPipeline` |
| `TaskHistory` | log, SQLite history, clear command, restart | reports along `JobLifecycle` |
| `StatusDelivery` | connections, broadcast channel, filtering by accepted ids | admits along `JobLedger`, reports along `JobLifecycle` |
| `JobReports_proofs` | theorems of both, what becomes of a job's reports | `StatusDelivery`, `TaskHistory` |
| `BrowserLaunch` | launch gate, launch thread, bounded wait, fallback to the next browser | |
| `HtmlRender` | renderer with its deadline, blocking driver, cleanup, doctor commands | extends `BrowserLaunch` |
| `FilteringProxy` | proxy of a rendering: requests, address policy, rejected resources | |
| `Html_proofs` | theorems of the renderer, of the launch gate and of the proxy | `HtmlRender`, `FilteringProxy` |
| `ConfigStore` | configuration file, copies in memory, saving, import and export | |
| `LocalAgent` | start, listeners, socket path, shutdown and sudden end of agents | extends `ConfigStore` |
| `LocalCommands` | commands from the command line and from windows | extends `LocalAgent` |
| `LocalCommands_proofs` | its theorems | `LocalCommands` |
| `OfficeConversion` | staging, converters, PowerShell script, timeouts, files and processes | |
| `OfficeConversion_proofs` | its theorems | `OfficeConversion` |
| `Admission` | rules for addresses, Origins, fields of a job, local pages (no state) | |
| `PrintBackend` | what printers, papers and files are taken for, and the options of the print command (no state) | |
| `PrintRequests` | a request from its handshake to the print command while configuration and printers change | extends `Admission`, `PrintBackend` |
| `PrintRequests_proofs` | its theorems, and lemmas on papers | `PrintRequests` |
| `DesktopWindow` | the settings window: edits, chain of saves, import, relaunch | |
| `DesktopWindow_proofs` | its theorems | `DesktopWindow` |
| `MCPrintQueue`, `MCTaskHistory`, `MCLocalCommands`, `MCPrintRequests` | symmetry sets, and the sets of batches, commands, requests, configurations and printers for TLC | |

The two abstract specifications are the joints of the project: each is shown to
be implemented by the detailed module, and the modules behind it use the abstract
one as their environment. So `StatusDelivery` composes the queue and the pipeline
without repeating either. `HtmlRender` and `FilteringProxy` meet in the rejected
resources: `Reject` is what `Forward` does to the tracker, `Navigate` and `Collect` are
`OpenPage` and `Read`. `PrintRequests` and `JobPipeline` are two views of the worker: what
it decides, and what it does. `OfficeConversion` is what `JobPipeline` has as the one
step `office_to_pdf`; `DesktopWindow` is the user's side of a save that `LocalCommands` has
in its steps.

### PrintQueue

A connection is a task in `handle_client_text`. `PrintJob` and `PrintBatch` are the
whole of the handler up to the release of the queue mutex, with the code's order of
checks; `NotifyWorker` is the `notify_one` after it, a step of its own because the
worker may run in between. The worker's steps are the lines of `run_worker_until`:
`WorkerCheck` (token), `WorkerPop`, `WorkerFinish`, and for the `select!` its first
poll `WorkerSelect` and later polls `WorkerWake`. Tokio's `Notify` is external and has
three states: empty, a registered waiter, a stored permit. `taken` is a history
variable.

### JobPipeline

`stage` is the position in `process_job_inner` and the functions it calls; every `?`
is a disjunct to `failing` or, once files exist, to `cleanup_err`. A report is the
status it tells (`told`). `print_lock` is the FIFO of Tokio's mutex. On CUPS a
submission takes two steps, `lp` and `finalize_cups_submission`, because the
document is in the spooler in between; on Windows it is one. `platform` is chosen
initially and never changes. `handed` and `torn` are what the operating system
holds of the jobs of this life. CUPS tracking yields completed or unknown only; the
failed arm of the match in `submit_pdf_and_track` is taken by no backend and left
out. Removing a file is assumed to succeed when it is attempted.

### TaskHistory

`push_log` takes two steps: `Report` (log and broadcast) and `Record` (database), so
that clears, test prints and crashes fall in between. A timestamp is the position
of a report among all reports; `upsert` is the `ON CONFLICT` clause. `JobLifecycle`
decides which report may come next. Reports are bounded by `MaxReports`.

### StatusDelivery

`phase` is the position of `handle_socket` in its loop. The jobs of a request are in
the queue from `Submit` on; the connection binds them in `Extend`. `Send` is the await
on the socket and ends when the client reads. A receiver more than `Capacity` events
behind takes `Lag`, as Tokio's broadcast receiver does.

### BrowserLaunch and HtmlRender

A user of the launch gate is the renderer of an HTML job or a doctor command. `gate`
is `BROWSER_LAUNCH_GATE`; `stage[u]` is the position of a user in
`launch_headless_browser` and, for the renderer, in `InstalledBrowserDriver::render`;
`thread[u]` is the launch thread, which keeps the guard after its user has given up;
`mailbox[u]` is the channel of capacity one between them. `profile[u]` is the set of
owners of the temporary directory, which disappears with the last of them.

`outer` is the position of the asynchronous `render` and of `print_html_job` around it;
`result` and `output` are what the driver left. Time is a countdown of ticks to each
deadline, and `Tick` may fall between any two statements. A CDP call ends within the time
of its requests (`budget`): that is the promise of the library, and `CallsEndByDeadline`
is what the code makes of it. Two things the model keeps as the code has them: a
doctor command drops its profile directory before its browser
(`html/browser.rs` 530-544), and a renderer that stalls past its deadline between
`spawn_blocking` and the question for the remaining time leaves its driver to itself
(668-670); `late` marks that case, and `NoLateOutput` and `BrowserIsEquipped` except it.

### FilteringProxy

A request is handled by a task of its own, which outlives the accept loop. `Forward` is
the resolution of the target with the verdict of the policy, `Connect` the connection to
the address that was approved. Addresses are classes; a name may resolve differently
each time. `refused` is a history variable.

### ConfigStore, LocalAgent and LocalCommands

`file` is the configuration file, `memory[p]` the copy in each process, `task[c]` the
execution of a client's command: for an import `ReadCurrent` and `Merge`, then for every
change `Open` (which empties the file), `WriteFile` and `Apply` (memory), the steps of
`save_config` between which other threads and processes run. A task that writes over what
another has written since it opened the file may leave a torn one (`clash`). The port
stands for all settings that a transfer file may carry; autostart is the one that has a
second copy, the `entry` in the desktop session.

`LocalAgent` has the steps of `RuntimeBuilder::build` and `AgentRuntime::start`, the
shutdown with its two listeners closing in any order, and the sudden end of a process.
The socket is a path owned by whoever bound it last: it is removed by an agent that
binds it or stops in order, whoever it belongs to, and stays behind otherwise. The
desktop quits with `app.exit(0)`, without `AgentHandle::shutdown`, so its end is sudden.
The Windows pipe disappears with its process and is not modelled.

A client is a command line process or a window, with one command each. `Route` is
`CommandService::execute`; `Timeout` ends the client and leaves the task to the agent.
`ideal`, `disturbed` and `halfway` are history variables: the settings with all completed
changes; a command, a start or an end of an agent that fell into another command, or a
write that failed; a command that failed after changing the entry.

What the models contain and no property promises, because the code does not: two saves
at once may leave the file and the memory different, or the file torn; two agents may
run after the port was changed, and the first one takes the socket path away from the
second when it stops.

### OfficeConversion

`pc` is the position of `office_to_pdf_with_converter` in the current conversion, `tried`
the place in the chain of converters, `script` the position of the child process: for
Microsoft Office and WPS the statements of the PowerShell script, for LibreOffice a
process that exports or not. A process is its id, its start time, its application and who
started it; ids are used again, and the user starts and ends the same applications at any
moment. The script gets the id of its application's window (`Own`), then looks the process up
by this id, compares it with the snapshot taken before activation and records it
(`Identify`); the clean-up after a timeout compares the record with the process that has its
id (`Cleanup`) and stops the process that has it then (`StopProcess`). Between each two of
these steps a process may end and its id may pass to another one. `survivors` are processes
that outlive the kill and may still write, `piped` a descendant that keeps the output pipe
open. `excused` marks conversions that could not remove a file or were outlived by a process.

`SparesExisting` is what the look-ups achieve: no process that was running at the snapshot is
ever ended. They do not achieve more. A process that a user started between the snapshot and
the activation counts as the script's own, and an id may change hands between check and stop;
the documentation promises more (finding 3). When time runs out between
activation and the record, the application stays open.

### Admission, PrintBackend and PrintRequests

`Admission` and `PrintBackend` hold the rules, `PrintRequests` applies each at the moment at
which the code does. A connection passes `CheckAddress`, `CheckOrigin`, `Send` and `Validate`;
its jobs wait in `queue`; the worker takes one (`Take`, which resolves the options from the
configuration of that moment), recognises its file (`Prepare`) and asks the backend in up
to three look-ups before the print command (`FindPrinter`, `CheckAvailability`,
`ResolvePaper`, `Lp`). Meanwhile the configuration may be saved and printers may come, stop
and go. `saved` keeps all configurations, so that a property can say which of them a print
command was made of. Texts are classes (absent, empty, garbled, good), URLs are their
origins, addresses numbers of `Width` bits, entries of the allow list such a number alone or
with a prefix of any length. A page of this machine is one of two under 127.0.0.1 or one under
::1, which `is_exact_loopback_url` does not recognise (finding 6). Lengths are integers
in thousandths of a millimetre, with the roundings of the code. A driver's paper whose token
begins with `Custom.` is passed on to `lp` as it is: `token` is the size the token says before
`round_mm`, read as the agent reads it (numbers without a unit as inches or millimetres; what
CUPS makes of such a token is not modelled). The size in inches and the matching tolerance add
up, which is why `MediaFits` allows 0.015 mm and not 0.01. `windows` is chosen initially;
where CUPS and Windows have the same helper in two files, the map names one of them.

### DesktopWindow

`lock` is the promise chain of `withPersistLock`, `phase` the position of the save that has its
turn, between the awaits of which the user goes on editing. Printing and pages are saved
at once, port and preferences wait for Save; `savedKey` is what the Save button is compared
with. `approved` is a history variable. What the model contains and no property promises:

* a page that is added or removed while a printing save is in flight is undone when the
  answer is adopted, and its own save then stores the undone list (`App.vue:655`);
* a failed printing save restores the value that was already edited;
* an import does not take turns: it can be overwritten by a save that read before it, and
  one whose second save fails leaves the window with the old settings;
* a save of pages that fails after another save carried its edit leaves the agent with a
  page that the window does not show.

The agent may have no default printer or paper, as a fresh configuration has none.
`loadConfig` then fills in the default paper and a printer of the system, and remembers both as
saved; the button beside the printers fills in a printer later, which makes Save available.
So a disabled Save button does not mean that window and agent are equal (finding 7), only what
`UnsavedIsKnown` says: equal settings, and the printer and paper that the agent has.

## Runs

| Run | Shows | Bounds |
|---|---|---|
| `queue` | no lost wake-up, ids once, contiguous batches, refinement of `JobLedger`, admitted jobs are taken, shutdown stops the worker | 2 connections, 3 jobs, 1 batch id, all batches of up to 2 jobs, the limit, and batches of 3 equal jobs, which are over it |
| `pipeline` | refinement of `JobLifecycle`, OS queue = reports, lock, files, answers | 2 jobs of all kinds, 1 test page, 1 crash, both platforms |
| `history` | rows = events = reports | 2 jobs, 5 reports, log of 2, 1 test page, 1 clear, 1 restart |
| `delivery` | own jobs, answer first, order, completeness, arrival | 2 connections, 2 jobs, capacity 1, 3 events |
| `delivery_lag` | finding: a failure that is never delivered | 1 connection, 2 jobs, capacity 2, 5 events |
| `html_render` | one launch at a time, no lost wake-up at the gate, calls end by the deadline, no late output, a rejection fails the job, everything is released | the renderer and 1 doctor command, deadline of 3 ticks, 1 tick per CDP request, up to 2 browsers |
| `commands` | changes are executed at most once, imports are what was confirmed, commands that do not meet add up | 1 agent started twice, 2 clients with 5 commands, 2 ports, transfer file replaced once, clients symmetric |
| `commands_offline` | finding: offline commands refused without an agent | 1 agent, 1 client |
| `filtering_proxy` | connections to approved addresses only, the first rejection counts | 2 requests of every kind |
| `office` | no application that was open before is closed, a document is opened by one converter, files agree with the result, conversions end unless a pipe is kept open | 2 conversions, 2 process ids, 2 starts of Office applications, both platforms |
| `requests` | accepted jobs can be processed, printer, paper and copies of one configuration, the sheet asked for, allowed pages only | 2 connections, 12 requests of all formats, 3 configurations of which one is refused, 1 save, 2 printers in 4 states, 4 kinds of file, addresses of 3 bits, both platforms |
| `desktop` | only saved settings are stored; while Save is disabled the settings, and the printer and paper the agent has, are shown | 2 printers or none, 2 papers or none, 2 values of the settings, 1 page, 4 clicks |

Why these bounds are enough to make the interesting cases happen: two connections
race for one id and for the notification; three jobs put a stranger between two
jobs of a batch; one test page contends with the worker at every stage; one crash
falls at every stage and lets an id be used again; five reports finish a job and
start it again after a restart, with a log of two overflowing; a capacity of one is
exceeded by the second event, after which delivery resumes with the third. A doctor
command contends for the gate with a rendering at every stage; three ticks suffice to
finish a rendering (two requests at a time, then one more step) and to run out of time
in each of its calls; two browsers give one fallback. Two requests of a page race for the
first rejection. Two clients meet in every pair of steps, one agent ends and starts
again around each of them; setting a port back while the agent listens on it is refused.
Two conversions let the processes of the first survive into the second; two starts with two
ids give the person an application beside the script's, and an id that is used again between
two look-ups. One
save between any two steps of a request separates admission, worker and handshake;
the batches pair a page of this machine with another, and exceed one of the two limits;
one request is for a page under ::1, one entry of the allow list is the unspecified address
written as a network, and a driver lists a choice of no width and one that is no size.
Four clicks put a second and a third edit behind a save in flight and press Save once.

The type invariants (`TypeOK`, `FilterTypeOK`, `HistoryTypeOK`) are proved; that of `PrintRequests` is
the part `Typed` of its inductive invariant. The runs leave them to the proofs and check the
properties that take several steps to break.

Deadlock checking is off in all runs: clients may stop submitting, and a bounded
run ends when its bounds are reached. That nobody waits for ever is stated by the
liveness properties instead.

Fairness. Tokio polls a task that is ready, hence weak fairness of the worker, of a
connection's `notify_one` and of the connection loop. A job is assumed to end:
downloads and HTML rendering have deadlines in the code; the platform's print command has none,
and is trusted. Of an Office conversion the code bounds everything but the reading of its
output, so `JobIsAnswered` rests on the assumption that no descendant of a converter keeps the
pipe open for ever: finding 4 is what happens otherwise. For delivery, clients are assumed
to read what they are sent. The mutex is FIFO in Tokio and in the model, so weak
fairness of its holder suffices. For rendering, the renderer,
its driver, doctor commands and launch threads run, the clock ticks, and `Browser::new`
returns at last, because the library bounds its own start-up. For Office conversion only the
agent's own steps and timers are fair; the script, the applications, what survives of them and
the user may stop anywhere. `PrintRequests` and `DesktopWindow` state safety only. Submissions,
shutdown, crash, clear and close are never assumed to happen.

## Findings

Shown by a run that TLC refutes:

1. A lagging connection never learns of a failure (`delivery_lag`). `DeliveredInOrder`
   and `EventsArrive` state the guarantee without lag.
2. After a desktop agent is quit, or any agent crashes, its socket path refuses
   connections, and commands that may run offline fail although no agent runs
   (`commands_offline`).

Visible in the models, with the property that states what does hold. In 3 to 7 the exception in
this property is the disagreement; TLC refutes the property without it.

3. The clean-up after a timeout may end an Office application that a person has started after the
   script took its snapshot, or a process that has got the id since the check
   (`office/windows.rs:86`, `169-172`). `docs/technical_en.md:150` says that YinShu "terminates only
   the Office instance started for that task". `SparesExisting`: those that were open before are
   safe.
4. A conversion waits without a limit for the output of a LibreOffice process that has ended,
   while a descendant keeps the pipe open (`office.rs:387`), and the worker waits with it;
   `docs/technical_en.md:150` says "Each conversion is limited to 120 seconds". `EndsUnlessPiped`:
   nothing else holds it up.
5. `docs/technical_en.md:457` says that a page may use only public addresses and that "local, and
   private-network addresses are rejected"; `docs/technical.md:457`,
   `openwiki/architecture/protocol.md:112`, `openwiki/source-map.md:136` and
   `openwiki/workflows/printing-pipeline.md:106` say the same. A page may load from its own loopback
   origin (`html/resource_policy.rs:229`, `278`), as the test at `resource_policy.rs:106` asks for.
   `OnlyApprovedAddresses`: from no other.
6. A page under ::1 is queued whatever the Origin of its connection, and then fails to render:
   `is_exact_loopback_url` (`server.rs:523-525`) compares `[::1]` with `::1`, so its second arm
   never matches, although the comment at `server.rs:488` accepts only the origin of the connection.
   `SentByAllowedPages` states the rule for pages under 127.0.0.1, for which it holds.
7. A default printer and paper that loading fills in are shown as saved and not stored
   (`App.vue:326`, `591-596`, `575`), although the comment at `App.vue:167` says that changes of
   printing are written at once. On a fresh configuration a job without a printer fails with
   `PRINTER_NOT_CONFIGURED` while the window shows one. `UnsavedIsKnown`: what the agent has is
   shown.
8. `run_worker_until` checks the token before it awaits the queue lock; one more job can be
   taken after the shutdown request, against its doc comment (`runtime/src/queue.rs:80`).
   `ShutdownStopsWorker`: the worker stops all the same.
9. A partial PDF, or a raw temporary file, stays on disk when writing it fails
   (`runtime/src/queue.rs:265`, `printing/cups.rs:206`). `FilesAreOwned`: nothing else is
   left behind.
10. A job id used again after a restart keeps the old `finished_at` while it is queued
    (`task_history.rs:94`). `RowSummarisesEvents`: it is the time of the last terminal event
    ever recorded.

## Proofs

`PrintQueue_proofs` proves, for any sets of connections, jobs and batches and any
limit, from `QueueAssumption` (the marker for no batch is not a batch id, the limit is a
natural number, a batch is a sequence of jobs):

* `TypeCorrect`: the type invariant.
* `QueueInvariant`: the inductive invariant `QueueInv`. `NoLostWakeup` is not inductive:
  the job may arrive while the worker has found the queue empty and is not yet
  registered. `WakeupOwed` extends it to that window, where a stored permit counts as
  well, and `NotifyMatchesWorker` ties the waiter to the worker's position. `EachJobOnce`
  and `BatchContiguous` speak of `taken \o pending`, which only an admission extends;
  `BatchesSeen` is what makes a batch id that passes the check new to that sequence.
* `NoWakeupIsLost`, `JobsAreAdmittedOnce`, `BatchesStayTogether`: consequences.
* `QueueImplementsLedger`: refinement of `JobLedger` under `ledger = taken \o pending`.
  An admission maps to `Admit` of the suffix it appends, `WorkerPop` to `Start`,
  `WorkerFinish` to `Finish`, everything else to a stutter.

The argument in each case: a step either extends the sequence of admitted jobs by a
fresh group (lemma `StepExtends`) or leaves it alone; lemmas on sequences say that a
fresh group keeps ids distinct and batches contiguous.

`Html_proofs` proves, for any number of users of the launch gate, any number of browsers to try
and any timeouts, `RenderTypeCorrect`, `OneLaunchAtATime` (`LaunchGate`), `CallsFitTheDeadline`
(`CallsEndByDeadline`), `FailedLeavesNoOutput` (`NoLateOutput`), `BrowserKeepsEquipment`
(`BrowserIsEquipped`) and `LeavesNothing`: who is through, with its launch thread, has no browser
and no profile directory any more. This last one is the safety part of `EverythingReleased`. From
`LaunchAssumption` and `RenderAssumption`: there is a renderer, timeouts are positive. The
invariant joins the renderer to the driver it cannot stop: unless it was late, it leaves only
after its driver (`DriverEndsFirst`), which is what keeps output and cleanup apart.
`GateIsPassedOn` says that a user who holds the gate has no earlier thread that still runs.
`BrowserIsOwned` and `ProfileIsOwned` name, for every browser and every handle of a profile
directory, the one who will drop it: the launch thread, the channel, the launching user, the
driver or the renderer. `LeavesNothing` and `BrowserIsEquipped` are two consequences. One lemma
each covers the steps of the launch (`LaunchHolds`), of the renderer, of the driver and of the
others; `NotifyWakes` is what `notify_one` does to those who wait.

The second part of `Html_proofs` proves, for any set of requests, `ProxyTypes` (`FilterTypeOK`),
`ProxyConnectsToApproved` (`OnlyApprovedAddresses`) and `ProxyReportsFirst`
(`FirstRejectionCounts`). The inductive invariant of `ProxyInvariant` adds two facts:
`ApprovalHolds`, that an address is fit from its approval on and not only once it is
connected to, and `PageComesLater`, that nothing of the page was refused before the
tracker was cleared.

`JobPipeline_proofs` proves, for any jobs, test pages and number of crashes, `TypeCorrect`,
`SpoolMatches` (`SpoolMatchesReports`), `PrintsUnderLock` (`PrintingHoldsLock`),
`TemporaryFilesAreOwned` (`FilesAreOwned`) and `ImplementsLifecycle` (`FollowsLifecycle`). None of
these is inductive: they speak of outcomes, and what leads to an outcome is the stage the
worker is in. The invariant says for every stage what has been reported of the job
(`ReportsFollowStage`), what the operating system holds of it (`SpoolFollowsStage`), who stands in
the line for the lock (`LockFollowsStage`) and which files exist (`FilesFollowStage`). The
refinement follows from the first of them: a report is a step of `JobLifecycle` because the
stage determines the previous one; every other step stutters. A crash maps to the restart of the
abstract specification.

`JobReports_proofs` proves of `StatusDelivery`, for any connections, jobs and capacity, `TypeCorrect`,
`ReceivesOwnJobs` (`OwnJobsOnly`), `AnswerComesFirst` (`AnswerFirst`) and `DeliversInOrder`
(`DeliveredInOrder`). The invariant is one per connection, plus that only admitted jobs are
reported: the connection knows its jobs before it reads their events, what it sends is the event
it read last, everything received was read before, and the answer stands before it.
One lemma per action says what it does to its own connection; `OthersKeep` disposes of the others.

Of `TaskHistory` the same module proves `HistoryTypes` (`HistoryTypeOK`), `RowsSummarise`
(`RowSummarisesEvents`) and `HistoryFollows` (`HistoryFollowsReports`). Needed besides: a job with
events has a row (`RowsExist`), and the entry that is reported and not yet recorded is the last
report and younger than all events of its job (`UnrecordedIsLast`), which holds across clears and
restarts. `UpsertSummarises` is the argument about the `ON CONFLICT` clause.

`OfficeConversion_proofs` proves, for any number of conversions, process ids and starts,
`TypeCorrect`, `OneConverterOpens` (`OpenedOnce`), `DiskMatches` (`DiskMatchesResult`) and the action
property `ExistingAreSpared` (`SparesExisting`). `OpenedOnce` needs that exit code 2, which leads to the
next converter, is never the code of a script that opened the document (`OpenedByCurrent`), and
that the child is over when the chain goes on (`ChildRuns`). `SparesExisting` needs
that running processes have different ids and start times of the past (`ProcessIds`), and that
what the script has in hand, and what is recorded, is not of the snapshot, nor can any process
of the snapshot still run under its id (`OwnsNewProcess`): that is why a second look-up by id
cannot find one. `DiskMatchesResult` needs that whatever is written after a
conversion has ended belongs to an excused one (`DiskFollows`). From `OfficeAssumption`: bounds are
natural numbers, and the marker for no process is not a process.

`PrintRequests_proofs` proves, for any connections, addresses, requests, configurations,
printers and papers, `AcceptedAreComplete` (`AcceptedIsComplete`), `OneConfigPrints`
(`PrintedByOneConfig`), `SheetFits` (`MediaFits`) and `AllowedPagesSend` (`SentByAllowedPages`). The invariant follows a request: what the handshake has
seen of the configurations between arrival and opening (`HandshakeHolds`), what validation grants
each entry of the queue (`QueueHolds`), what the worker knows of its job at each stage (`JobHolds`),
and that a printed entry belongs to an answered connection (`PrintedHolds`), whose handshake does
not change any more. A save only extends the sequence of configurations (`MoreConfigs`). For
the sheet: listed papers are whole hundredths of a millimetre, so that matching and formatting
move a length by less than the tolerance, and a token by half a hundredth more (`RoundMm`,
`FormatMm`, `ChoiceListed`, `LabelsListed`, `SettingsFit`). Assumed of the constants is what their
types are in the code, and that the markers for absent values are not values.

`DesktopWindow_proofs` proves, for any values, pages and number of clicks, `TypeCorrect`,
`SettingsAreSavedOnRequest` (`OnlySavedSettings`) and `WindowKnowsUnsaved` (`UnsavedIsKnown`). Needed
besides: settings that are on their way to the agent, in a turn of the chain or in an import, are
approved (`OnItsWayIsApproved`), and as long as nothing is imported the window's key of what is saved
agrees with the agent's settings, its printer and its paper where it has them, except between the agent's answer to a save and the window's next
step (`RemembersStored`).

`LocalCommands_proofs` proves, for any agents, clients, commands, ports and numbers of starts and
exports, `CommandTypes`, `ExecutedAtMostOnce` (`AtMostOnce`), `ImportsAsConfirmed`
(`ConfirmedImport`) and `ChangesAddUp` (`CommandsAccumulate`). `AtMostOnce` and `ConfirmedImport`
need `InOrder`, one statement per client: the step of its task fits its phase, nobody executes
before the change is sent, and the hash of a preview is that of what was shown or of no file that
still exists (`PreviewHolds`). `CommandsAccumulate` speaks of rest only; the invariant follows the
one command that is under way. `AskingInStep` and `TaskInStep` say for each of its steps what
file, memory and entry are: the settings before the change until it is written, the file after it
from then on, and the entry ahead of both for a window or `set_autostart` (`EntryOf`).
`ExecutorRight` says that the process that executes is the one whose memory counts, which needs
that an undisturbed agent is alone and has the socket path (`AgentsAlone`): without that, a
command would be executed offline beside an agent. Steps that could meet a command set
`disturbed`, so that what remains is one command at a time (`OneAtATime`) and, at rest, settled
(`AtRest`).

Only model-checked: all liveness (`AdmittedIsTaken`, `ShutdownStopsWorker`, `JobIsAnswered`,
`EventsArrive`, `RejectionFailsRender`, `RenderEnds`, `EverythingReleased`, `EndsUnlessPiped`),
which needs fairness and is out of the prover's reach. Every invariant, action property and
refinement of the passing runs is also a theorem.

TLC also finds each inductive invariant to hold on the instance of its run.

## Plan

Every invariant, action property and refinement that a run checks is proved. What could follow,
in this order: connections that stay open across a shutdown (`server.rs:394`) as a composition of
`PrintQueue` and `StatusDelivery`; the named pipe of Windows beside the socket path in `LocalAgent`;
the chunks of a download against the size limit.

## Not modelled

* Diagnostics and doctor (`doctor.rs`, `diagnostics.rs`): read-only probes. The one thing a
  doctor command shares with a job, the launch gate, is in `BrowserLaunch`.
* Queries (ping, printers, printer details, queue snapshot, task history pages): they
  change no state. Together with submissions and status events in one model they exceed what
  TLC finishes in minutes; resolution, trays and media types are returned by them only.
* The layout of test pages and of images on a page, command-line parsing and output, the
  tray menu and the views of the window other than its settings.
* The cryptography of exported configurations: a file is told from every other by its
  version, a wrong password is a failing request.
* The Windows named pipe, which disappears with its process: the hazards of the socket path
  do not exist there.
* The chunks of a download: it ends with one file or with none, and whether it kept to the
  limit is part of that. The networks behind `is_public_ip` are classes of addresses.
* `purge_removed_sources`, a migration of rows that no version writes any more.
