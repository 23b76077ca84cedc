----------------------------- MODULE JobPipeline -----------------------------
(***************************************************************************)
(* What happens to a job once the worker has popped it, and everything     *)
(* that happens next to it:                                                *)
(*  - process_job with its four paths (downloaded document, Office file,   *)
(*    HTML page, raw commands), its reports, its temporary files and the   *)
(*    print lock (crates/runtime/src/queue.rs);                            *)
(*  - the print backends (printing/cups.rs, printing/windows.rs);          *)
(*  - test pages, which share the print lock (test_print.rs);              *)
(*  - a crash of the agent and its restart over the same temporary         *)
(*    directory.                                                           *)
(* A report (push_log) is reduced here to the status it tells; the log and *)
(* the task history it feeds are TaskHistory, its way to the clients is    *)
(* StatusDelivery. That a job id is popped at most once in a life of the   *)
(* agent is EachJobOnce of PrintQueue. Removing a temporary file is        *)
(* assumed to succeed when it is attempted.                                *)
(***************************************************************************)
EXTENDS Integers, Sequences

CONSTANTS JobId,        \* job ids that clients may use
          Tester,       \* test-print commands, each with its own fresh job id
          Worker,       \* the worker task, as a holder of the print lock
          NoJob,        \* the worker holds no job
          MaxRestarts   \* bound: crashes of the agent

Owner == JobId \cup Tester

ASSUME PipelineAssumption ==
    /\ JobId \cap Tester = {}
    /\ Worker \notin Owner
    /\ NoJob \notin Owner
    /\ MaxRestarts \in Nat

Kind == {"document", "office", "html", "raw"}  \* document: PDF, PNG or JPEG
Downloaded == {"document", "office"}

JobStatus == {"queued", "downloading", "printing", "submitted", "completed",
              "failed", "unknown"}

VARIABLES
    platform,    \* "cups" or "windows": the backend compiled in
    seen,        \* job ids popped in this life of the agent
    job, kind,   \* the job last popped and its path
    stage,       \* where process_job is
    tracking,    \* PrintSubmission.tracking_supported
    told,        \* the status last reported of each job in this life
    print_lock,  \* FIFO of print_lock: the head holds it, the others wait
    test,        \* where each test print is
    files,       \* temporary files on disk: <<owner, name>>
    handed,      \* documents the operating system holds, per owner, this life
    torn,        \* jobs of which the spooler received a part, this life
    life         \* restarts so far

worker == <<seen, job, kind, stage, tracking, told>>
spooler == <<handed, torn>>
vars == <<platform, seen, job, kind, stage, tracking, told, print_lock, test,
          files, handed, torn, life>>

Init ==
    /\ platform \in {"cups", "windows"}
    /\ seen = {}
    /\ job = NoJob
    /\ kind = "document"
    /\ stage = "idle"
    /\ tracking = FALSE
    /\ told = [j \in JobId |-> "none"]
    /\ print_lock = << >>
    /\ test = [t \in Tester |-> "idle"]
    /\ files = {}
    /\ handed = [o \in Owner |-> 0]
    /\ torn = {}
    /\ life = 0
-----------------------------------------------------------------------------
(* process_job.                                                            *)

push_log(j, status) == told' = [told EXCEPT ![j] = status]

Silent == UNCHANGED told

SameJob == UNCHANGED <<platform, seen, job, kind, test, life>>

\* Popping a job reports it as queued.
Take(j, k) ==
    /\ stage = "idle"
    /\ j \notin seen
    /\ seen' = seen \cup {j}
    /\ job' = j
    /\ kind' = k
    /\ stage' = "begin"
    /\ push_log(j, "queued")
    /\ UNCHANGED <<platform, tracking, print_lock, test, files, spooler, life>>

\* No printer, no paper, or copies out of range: read from the job and from the
\* configuration as it was when the job was started.
ResolveFails == stage' = "failing" /\ UNCHANGED files /\ Silent

\* raw jobs decode their data and compare its size with the limit.
print_raw_job ==
    \/ stage' = "failing" /\ Silent
    \/ stage' = "lock" /\ push_log(job, "printing")

\* process_job_inner: HTML and raw jobs resolve their options first, a document
\* is reported as downloading before.
Begin ==
    /\ stage = "begin"
    /\ \/ kind \in {"html", "raw"} /\ ResolveFails
       \/ kind = "html" /\ stage' = "render" /\ Silent
       \/ kind = "raw" /\ print_raw_job
       \/ kind \in Downloaded /\ stage' = "download" /\ push_log(job, "downloading")
    /\ SameJob
    /\ UNCHANGED <<tracking, print_lock, files, spooler>>

\* print_html_job up to the submission: a failed rendering removes its output.
Render ==
    /\ stage = "render"
    /\ \/ stage' = "failing" /\ Silent /\ UNCHANGED files
       \/ /\ stage' = "submit"
          /\ files' = files \cup {<<job, "html">>}
          /\ push_log(job, "printing")
    /\ SameJob
    /\ UNCHANGED <<tracking, print_lock, spooler>>

\* Mutant: a download that fails half-way is not removed.
DownloadLeavesPart ==
    /\ stage = "download"
    /\ stage' \in {"failing", "prepare"}
    /\ files' = files \cup {<<job, "download">>}
    /\ Silent
    /\ SameJob
    /\ UNCHANGED <<tracking, print_lock, spooler>>

\* A download that fails, or grows past the size limit, leaves no file.
download_to_temp ==
    \/ stage' = "failing" /\ UNCHANGED files
    \/ stage' = "prepare" /\ files' = files \cup {<<job, "download">>}

Download ==
    /\ stage = "download"
    /\ ResolveFails \/ (download_to_temp /\ Silent)
    /\ SameJob
    /\ UNCHANGED <<tracking, print_lock, spooler>>

WithoutDownload == files \ {<<job, "download">>}

\* Copying a PDF to its new name, or drawing an image on a page. A write that
\* fails half-way leaves a part of the output, which nobody removes.
image_to_pdf ==
    \/ stage' = "submit" /\ files' = files \cup {<<job, "printable">>} /\ Silent
    \/ /\ stage' = "failing"
       /\ files' \in {WithoutDownload, WithoutDownload \cup {<<job, "printable">>}}
       /\ Silent

\* The conversion removes its work directory, and its output when it fails; its
\* success is reported.
office_to_pdf ==
    \/ /\ stage' = "submit"
       /\ files' = files \cup {<<job, "printable">>}
       /\ push_log(job, "printing")
    \/ stage' = "failing" /\ files' = WithoutDownload /\ Silent

\* prepare_printable_pdf: a file of another format than declared is an error.
Prepare ==
    /\ stage = "prepare"
    /\ \/ stage' = "failing" /\ files' = WithoutDownload /\ Silent
       \/ kind = "document" /\ image_to_pdf
       \/ kind = "office" /\ office_to_pdf
    /\ SameJob
    /\ UNCHANGED <<tracking, print_lock, spooler>>

\* submit_pdf_and_track
Submit ==
    /\ stage = "submit"
    /\ stage' = "lock"
    /\ push_log(job, "printing")
    /\ SameJob
    /\ UNCHANGED <<tracking, print_lock, files, spooler>>

WorkerLock ==
    /\ stage = "lock"
    /\ print_lock' = Append(print_lock, Worker)
    /\ stage' = "locking"
    /\ Silent /\ SameJob
    /\ UNCHANGED <<tracking, files, spooler>>

Holds(owner) == print_lock # << >> /\ Head(print_lock) = owner

WorkerAcquire ==
    /\ stage = "locking"
    /\ Holds(Worker)
    /\ stage' = "printing"
    /\ Silent /\ SameJob
    /\ UNCHANGED <<tracking, print_lock, files, spooler>>

\* The guard lives in the block around the backend call only.
Unlock == print_lock' = Tail(print_lock)

HandOver(owner) == handed' = [handed EXCEPT ![owner] = @ + 1]

\* print_pdf and print_raw up to the answer of lp, SumatraPDF or the spooler.
\* A missing or offline printer, an unknown paper or a failing command hands
\* nothing over; a raw temporary file that cannot be written stays behind; the
\* Windows spooler may keep the part of a raw job it received.
WorkerPrint ==
    /\ stage = "printing"
    /\ \/ /\ platform = "cups"
          /\ stage' = "finalize"
          /\ HandOver(job)
          /\ UNCHANGED <<torn, files, print_lock>>
       \/ /\ platform = "windows"
          /\ stage' = "submitted"
          /\ HandOver(job)
          /\ Unlock
          /\ UNCHANGED <<torn, files>>
       \/ /\ stage' = "cleanup_err"
          /\ Unlock
          /\ UNCHANGED <<spooler, files>>
       \/ /\ platform = "cups" /\ kind = "raw"
          /\ stage' = "cleanup_err"
          /\ files' = files \cup {<<job, "raw">>}
          /\ Unlock
          /\ UNCHANGED spooler
       \/ /\ platform = "windows" /\ kind = "raw"
          /\ stage' = "cleanup_err"
          /\ torn' = torn \cup {job}
          /\ Unlock
          /\ UNCHANGED <<handed, files>>
    /\ tracking' = FALSE
    /\ Silent /\ SameJob

\* Mutant: a printer found offline fails the job even if the cancel failed.
FinalizeIgnoresCancel ==
    /\ stage = "finalize"
    /\ stage' = "cleanup_err"
    /\ Unlock
    /\ Silent /\ SameJob
    /\ UNCHANGED <<tracking, handed, files, torn>>

\* finalize_cups_submission: a printer found offline after lp accepted the
\* document has it cancelled; the submission stands if it has no job id or
\* cannot be cancelled any more.
WorkerFinalize ==
    /\ stage = "finalize"
    /\ \/ /\ stage' = "submitted"
          /\ tracking' \in BOOLEAN  \* lp printed a request id, or not
          /\ UNCHANGED handed
       \/ /\ stage' = "cleanup_err"
          /\ handed' = [handed EXCEPT ![job] = @ - 1]
          /\ UNCHANGED tracking
    /\ Unlock
    /\ Silent /\ SameJob
    /\ UNCHANGED <<files, torn>>

ReportSubmitted ==
    /\ stage = "submitted"
    /\ push_log(job, "submitted")
    /\ stage' = IF tracking THEN "track" ELSE "cleanup_ok"
    /\ SameJob
    /\ UNCHANGED <<tracking, print_lock, files, spooler>>

\* track_cups_submission asks lpstat once for the completed jobs.
TrackingOutcome == {"completed", "unknown"}

Track ==
    /\ stage = "track"
    /\ \E status \in TrackingOutcome : push_log(job, status)
    /\ stage' = "cleanup_ok"
    /\ SameJob
    /\ UNCHANGED <<tracking, print_lock, files, spooler>>

\* The temporary files that the callers of submit_pdf_and_track remove.
Removable == {<<job, name>> : name \in {"html", "download", "printable"}}

\* Mutant: the error of the submission is lost behind the cleanup.
CleanupSwallowsError ==
    /\ stage \in {"cleanup_ok", "cleanup_err"}
    /\ files' = files \ Removable
    /\ stage' = "idle"
    /\ Silent
    /\ SameJob
    /\ UNCHANGED <<tracking, print_lock, spooler>>

Cleanup ==
    /\ stage \in {"cleanup_ok", "cleanup_err"}
    /\ files' = files \ Removable
    /\ stage' = IF stage = "cleanup_ok" THEN "idle" ELSE "failing"
    /\ Silent
    /\ SameJob
    /\ UNCHANGED <<tracking, print_lock, spooler>>

\* process_job turns every error into one report.
ReportFailed ==
    /\ stage = "failing"
    /\ push_log(job, "failed")
    /\ stage' = "idle"
    /\ SameJob
    /\ UNCHANGED <<tracking, print_lock, files, spooler>>

WorkerStep ==
    \/ Begin \/ Render \/ Download \/ Prepare \/ Submit \/ WorkerLock
    \/ WorkerAcquire \/ WorkerPrint \/ WorkerFinalize \/ ReportSubmitted
    \/ Track \/ Cleanup \/ ReportFailed
-----------------------------------------------------------------------------
(* Test pages: print_test_page_with_config.                                *)

TestOnly == UNCHANGED <<platform, worker, torn, life>>

\* A page that cannot be written ends the command; what was written is removed.
TestStart(t) ==
    /\ test[t] = "idle"
    /\ \/ /\ test' = [test EXCEPT ![t] = "failed"]
          /\ UNCHANGED <<files, print_lock>>
       \/ /\ test' = [test EXCEPT ![t] = "locking"]
          /\ files' = files \cup {<<t, "page">>}
          /\ print_lock' = Append(print_lock, t)
    /\ TestOnly
    /\ UNCHANGED handed

\* Mutant: the test page does not wait for the lock.
TestDoesNotWait(t) ==
    /\ test[t] = "locking"
    /\ test' = [test EXCEPT ![t] = "printing"]
    /\ TestOnly
    /\ UNCHANGED <<files, print_lock, handed>>

TestAcquire(t) ==
    /\ test[t] = "locking"
    /\ Holds(t)
    /\ test' = [test EXCEPT ![t] = "printing"]
    /\ TestOnly
    /\ UNCHANGED <<files, print_lock, handed>>

\* Mutant: a failing test page keeps the lock.
TestKeepsLock(t) ==
    /\ test[t] = "printing"
    /\ test' = [test EXCEPT ![t] = "failed"]
    /\ files' = files \ {<<t, "page">>}
    /\ TestOnly
    /\ UNCHANGED <<print_lock, handed>>

\* The lock is released when print_test_page_inner returns, on every path, and
\* the page is removed after it.
TestPrint(t) ==
    /\ test[t] = "printing"
    /\ \/ test' = [test EXCEPT ![t] = "submitted"] /\ HandOver(t)
       \/ test' = [test EXCEPT ![t] = "failed"] /\ UNCHANGED handed
    /\ Unlock
    /\ files' = files \ {<<t, "page">>}
    /\ TestOnly

TestStep(t) == TestAcquire(t) \/ TestPrint(t)
-----------------------------------------------------------------------------
\* The process dies; its memory and locks are lost, its files and what the
\* operating system already holds remain.
Crash ==
    /\ life < MaxRestarts
    /\ life' = life + 1
    /\ seen' = {}
    /\ job' = NoJob
    /\ stage' = "idle"
    /\ tracking' = FALSE
    /\ told' = [j \in JobId |-> "none"]
    /\ print_lock' = << >>
    /\ test' = [t \in Tester |-> IF test[t] = "idle" THEN "idle" ELSE "failed"]
    /\ handed' = [o \in Owner |-> 0]
    /\ torn' = {}
    /\ UNCHANGED <<platform, kind, files>>

Next ==
    \/ \E j \in JobId, k \in Kind : Take(j, k)
    \/ WorkerStep
    \/ \E t \in Tester : TestStart(t) \/ TestStep(t)
    \/ Crash

Spec == Init /\ [][Next]_vars

\* The tasks are polled until they return. Downloads, conversions and rendering
\* have deadlines; the platform's print command has none and is trusted to end.
FairSpec ==
    Spec /\ WF_vars(WorkerStep) /\ \A t \in Tester : WF_vars(TestStep(t))
-----------------------------------------------------------------------------
TypeOK ==
    /\ platform \in {"cups", "windows"}
    /\ seen \subseteq JobId
    /\ job \in JobId \cup {NoJob}
    /\ kind \in Kind
    /\ stage \in {"idle", "begin", "render", "download", "prepare", "submit",
                  "lock", "locking", "printing", "finalize", "submitted",
                  "track", "cleanup_ok", "cleanup_err", "failing"}
    /\ tracking \in BOOLEAN
    /\ told \in [JobId -> JobStatus \cup {"none"}]
    /\ print_lock \in Seq(Tester \cup {Worker})
    /\ test \in [Tester -> {"idle", "locking", "printing", "submitted", "failed"}]
    /\ files \subseteq Owner \X {"download", "printable", "html", "raw", "page"}
    /\ handed \in [Owner -> Nat]
    /\ torn \subseteq JobId
    /\ life \in Nat

\* Every job is reported along the documented lifecycle, one job after the
\* other: queued first, at most one submission, nothing after a final status,
\* and no next job before this one has its outcome, whichever error path it took.
Lifecycle == INSTANCE JobLifecycle WITH status <- told, active <- job

FollowsLifecycle == Lifecycle!LifecycleSpec

\* The operating system holds exactly the documents that clients were told
\* about: one per submitted job, none for a job that failed, never two. Only the
\* Windows raw spooler may keep a part of a job, and that job is not submitted.
SpoolMatchesReports ==
    \A j \in JobId :
        /\ handed[j] \in {0, 1}
        /\ told[j] \in {"submitted", "completed", "unknown"} => handed[j] = 1
        /\ told[j] \in {"none", "failed"} => handed[j] = 0
        /\ j \in torn => platform = "windows" /\ handed[j] = 0

\* Whoever is inside a print backend holds the lock: two platform print
\* commands never run at the same time.
PrintingHoldsLock ==
    /\ stage \in {"printing", "finalize"} => Holds(Worker)
    /\ \A t \in Tester : test[t] = "printing" => Holds(t)

\* As long as the agent has not crashed, a temporary file belongs to the job or
\* the test page in progress; the only ones left behind are the partial output
\* of a failed conversion and of a failed raw job.
FilesAreOwned ==
    life = 0 =>
        \A f \in files :
            \/ f[1] = job /\ stage # "idle"
            \/ f[1] \in Tester /\ test[f[1]] \in {"locking", "printing"}
            \/ f[1] \in seen /\ f[2] \in {"printable", "raw"} /\ told[f[1]] = "failed"

\* Every job that the worker takes gets an outcome, unless the agent crashes: no
\* path of process_job is left without a report or with the print lock held.
JobIsAnswered ==
    \A j \in JobId, n \in 0..MaxRestarts :
        job = j /\ life = n ~> life # n \/ told[j] \in Lifecycle!Outcome
=============================================================================
