------------------------- MODULE JobPipeline_proofs -------------------------
(***************************************************************************)
(* For any number of jobs, test pages and crashes: reports and spooler     *)
(* agree, the print lock protects the backends, temporary files are owned, *)
(* and the worker implements JobLifecycle.                                 *)
(***************************************************************************)
EXTENDS JobPipeline, SequenceTheorems, TLAPS

Submitted == {"submitted", "completed", "unknown"}

\* What was reported of the job in progress, by where the worker is with it.
ReportedAt(s) ==
    CASE s = "idle" -> Submitted \cup {"failed"}
      [] s \in {"begin", "render"} -> {"queued"}
      [] s \in {"download", "prepare"} -> {"downloading"}
      [] s = "submit" -> {"downloading", "printing"}
      [] s \in {"lock", "locking", "printing", "finalize", "submitted", "cleanup_err"}
            -> {"printing"}
      [] s = "track" -> {"submitted"}
      [] s = "cleanup_ok" -> Submitted
      [] s = "failing" -> {"queued", "downloading", "printing"}

\* The worker has a job while it is not idle; jobs it has not seen have no
\* report, and those before the last one have their outcome.
ReportsFollowStage ==
    /\ stage # "idle" => job \in JobId
    /\ job \in JobId => job \in seen /\ told[job] \in ReportedAt(stage)
    /\ \A j \in JobId : j \notin seen => told[j] = "none"
    /\ \A j \in seen : j # job => told[j] \in Submitted \cup {"failed"}

\* The operating system has a document from the moment it is handed over,
\* which is before its submission is reported.
SpoolFollowsStage ==
    /\ \A j \in JobId :
          handed[j] = IF \/ j = job /\ stage \in {"finalize", "submitted"}
                         \/ told[j] \in Submitted
                      THEN 1 ELSE 0
    /\ \A j \in torn :
          /\ platform = "windows"
          /\ told[j] \in {"printing", "failed"}
          /\ j = job => stage \in {"cleanup_err", "failing", "idle"}

InLine(line, o) == \E i \in DOMAIN line : line[i] = o

Distinct(line) == \A i, k \in DOMAIN line : line[i] = line[k] => i = k

\* In the line of the print lock is who is between asking for the lock and
\* leaving the backend, once.
LockFollowsStage ==
    /\ Distinct(print_lock)
    /\ InLine(print_lock, Worker) <=> stage \in {"locking", "printing", "finalize"}
    /\ \A t \in Tester : InLine(print_lock, t) <=> test[t] \in {"locking", "printing"}

\* The files a job may have at a stage. A part of a raw job's file or of a
\* conversion is left to a job that fails.
FilesAt(s) ==
    CASE s \in {"begin", "render", "download"} -> {}
      [] s = "prepare" -> {"download"}
      [] s \in {"failing", "idle"} -> {"printable", "raw"}
      [] s = "cleanup_err" -> {"html", "download", "printable", "raw"}
      [] OTHER -> {"html", "download", "printable"}

FileIsOwned(f) ==
    \/ f[1] \in Tester /\ f[2] = "page" /\ test[f[1]] \in {"locking", "printing"}
    \/ /\ f[1] \in seen /\ f[1] = job
       /\ f[2] \in FilesAt(stage)
       /\ stage = "idle" => told[job] = "failed"
    \/ /\ f[1] \in seen /\ f[1] # job
       /\ f[2] \in {"printable", "raw"}
       /\ told[f[1]] = "failed"

FilesFollowStage == life = 0 => \A f \in files : FileIsOwned(f)

IInv ==
    /\ TypeOK
    /\ ReportsFollowStage
    /\ SpoolFollowsStage
    /\ LockFollowsStage /\ PrintingHoldsLock
    /\ FilesFollowStage

\* The invariant holds when the agent starts.
LEMMA InitHolds == Init => IInv
<1> SUFFICES ASSUME Init PROVE IInv
  OBVIOUS
<1>1. TypeOK
  <2>1. /\ told \in [JobId -> JobStatus \cup {"none"}]
        /\ test \in [Tester -> {"idle", "locking", "printing", "submitted", "failed"}]
        /\ handed \in [Owner -> Nat]
    BY DEF Init
  <2>2. /\ print_lock \in Seq(Tester \cup {Worker})
        /\ files \subseteq Owner \X {"download", "printable", "html", "raw", "page"}
    BY DEF Init
  <2> QED BY <2>1, <2>2 DEF Init, TypeOK, Kind
<1>2. ReportsFollowStage /\ SpoolFollowsStage
  BY PipelineAssumption DEF Init, ReportsFollowStage, SpoolFollowsStage, Submitted, Owner
<1>3. LockFollowsStage /\ PrintingHoldsLock
  BY DEF Init, LockFollowsStage, PrintingHoldsLock, Distinct, InLine
<1>4. FilesFollowStage
  BY DEF Init, FilesFollowStage
<1> QED BY <1>1, <1>2, <1>3, <1>4 DEF IInv

\* Who asks for the lock is the last in the line and changes no holder.
LEMMA JoinsLine ==
    ASSUME NEW S, NEW line \in Seq(S), NEW o \in S, Distinct(line), ~InLine(line, o)
    PROVE  /\ Append(line, o) \in Seq(S)
           /\ Distinct(Append(line, o))
           /\ \A p : InLine(Append(line, o), p) <=> InLine(line, p) \/ p = o
           /\ line # << >> => Append(line, o) # << >> /\ Head(Append(line, o)) = Head(line)
<1> DEFINE longer == Append(line, o)
           n == Len(line)
<1>1. /\ n \in Nat /\ DOMAIN line = 1..n /\ (line = << >> <=> n = 0)
  BY LenProperties, EmptySeq
<1>2. /\ longer \in Seq(S) /\ Len(longer) = n + 1 /\ DOMAIN longer = 1..(n + 1)
      /\ longer[n + 1] = o /\ \A i \in 1..n : longer[i] = line[i]
  BY <1>1, AppendProperties, LenProperties
<1> HIDE DEF longer, n
<1>3. Distinct(longer)
  BY <1>1, <1>2 DEF Distinct, InLine
<1>4. ASSUME NEW p PROVE InLine(longer, p) <=> InLine(line, p) \/ p = o
  BY <1>1, <1>2 DEF InLine
<1>5. line # << >> => longer # << >> /\ Head(longer) = Head(line)
  <2> SUFFICES ASSUME line # << >> PROVE longer # << >> /\ Head(longer) = Head(line)
    OBVIOUS
  <2>1. 1 \in 1..n /\ longer # << >>
    BY <1>1, <1>2, EmptySeq
  <2> QED BY <1>2, <2>1
<1> QED BY <1>2, <1>3, <1>4, <1>5 DEF longer

\* Who releases the lock leaves the line, and nobody else does.
LEMMA LeavesLine ==
    ASSUME NEW S, NEW line \in Seq(S), Distinct(line), line # << >>
    PROVE  /\ Tail(line) \in Seq(S)
           /\ Distinct(Tail(line))
           /\ \A p : InLine(Tail(line), p) <=> InLine(line, p) /\ p # Head(line)
<1> DEFINE rest == Tail(line)
           n == Len(line)
<1>1. /\ n \in Nat /\ DOMAIN line = 1..n /\ n # 0 /\ Head(line) = line[1]
  BY LenProperties, EmptySeq
<1>2. /\ rest \in Seq(S) /\ Len(rest) = n - 1 /\ DOMAIN rest = 1..(n - 1)
      /\ \A i \in 1..(n - 1) : rest[i] = line[i + 1]
  BY <1>1, HeadTailProperties, LenProperties
<1> HIDE DEF rest, n
<1>3. Distinct(rest)
  <2> SUFFICES ASSUME NEW i \in 1..(n - 1), NEW k \in 1..(n - 1), rest[i] = rest[k]
               PROVE  i = k
    BY <1>2 DEF Distinct
  <2>1. i + 1 \in 1..n /\ k + 1 \in 1..n /\ line[i + 1] = line[k + 1]
    BY <1>1, <1>2
  <2> QED BY <2>1, <1>1 DEF Distinct
<1>4. ASSUME NEW p PROVE InLine(rest, p) <=> InLine(line, p) /\ p # Head(line)
  <2>1. ASSUME InLine(rest, p) PROVE InLine(line, p) /\ p # Head(line)
    <3>1. PICK i \in 1..(n - 1) : rest[i] = p
      BY <2>1, <1>2 DEF InLine
    <3>2. i + 1 \in 1..n /\ line[i + 1] = p /\ i + 1 # 1
      BY <3>1, <1>1, <1>2
    <3> QED BY <3>2, <1>1 DEF InLine, Distinct
  <2>2. ASSUME InLine(line, p), p # Head(line) PROVE InLine(rest, p)
    <3>1. PICK i \in 1..n : line[i] = p
      BY <2>2, <1>1 DEF InLine
    <3>2. i # 1
      BY <3>1, <2>2, <1>1
    <3>3. i - 1 \in 1..(n - 1) /\ (i - 1) + 1 = i
      BY <3>1, <3>2, <1>1
    <3>4. rest[i - 1] = p
      BY <3>1, <3>3, <1>2
    <3> QED BY <3>3, <3>4, <1>2 DEF InLine
  <2> QED BY <2>1, <2>2
<1> QED BY <1>2, <1>3, <1>4 DEF rest

\* Every step keeps the types; a cancelled document was one that was handed over.
LEMMA StepTyped == IInv /\ [Next]_vars => TypeOK'
<1> SUFFICES ASSUME IInv, [Next]_vars PROVE TypeOK'
  OBVIOUS
<1> USE DEF IInv
<1>a. stage # "idle" => job \in JobId /\ job \in Owner
  BY DEF ReportsFollowStage, Owner
<1>b. Worker \in Tester \cup {Worker} /\ \A t \in Tester : t \in Owner
  BY DEF Owner
<1>c. \A line \in Seq(Tester \cup {Worker}), o \in Tester \cup {Worker} :
          Append(line, o) \in Seq(Tester \cup {Worker})
  BY AppendProperties
<1>d. ASSUME NEW o \in Tester \cup {Worker}, Holds(o)
      PROVE  Tail(print_lock) \in Seq(Tester \cup {Worker})
  BY <1>d, HeadTailProperties DEF Holds, TypeOK
<1>1. ASSUME NEW j \in JobId, NEW k \in Kind, Take(j, k) PROVE TypeOK'
  BY <1>1 DEF Take, push_log, spooler, TypeOK, JobStatus
<1>2. ASSUME Begin PROVE TypeOK'
  BY <1>2, <1>a DEF Begin, ResolveFails, print_raw_job, push_log, Silent, SameJob, spooler,
     TypeOK, JobStatus
<1>3. ASSUME Render PROVE TypeOK'
  BY <1>3, <1>a DEF Render, push_log, Silent, SameJob, spooler, TypeOK, JobStatus
<1>4. ASSUME Download PROVE TypeOK'
  BY <1>4, <1>a DEF Download, ResolveFails, download_to_temp, Silent, SameJob, spooler, TypeOK
<1>5. ASSUME Prepare PROVE TypeOK'
  BY <1>5, <1>a DEF Prepare, image_to_pdf, office_to_pdf, WithoutDownload, push_log, Silent,
     SameJob, spooler, TypeOK, JobStatus
<1>6. ASSUME Submit \/ ReportSubmitted \/ Track \/ ReportFailed PROVE TypeOK'
  BY <1>6, <1>a DEF Submit, ReportSubmitted, Track, TrackingOutcome, ReportFailed, push_log,
     SameJob, spooler, TypeOK, JobStatus
<1>7. ASSUME WorkerLock PROVE TypeOK'
  BY <1>7, <1>b, <1>c DEF WorkerLock, Silent, SameJob, spooler, TypeOK
<1>8. ASSUME WorkerAcquire PROVE TypeOK'
  BY <1>8 DEF WorkerAcquire, Silent, SameJob, spooler, TypeOK
<1>9. ASSUME WorkerPrint PROVE TypeOK'
  <2>1. job \in JobId /\ job \in Owner /\ Holds(Worker)
    BY <1>9, <1>a DEF WorkerPrint, PrintingHoldsLock
  <2>2. Tail(print_lock) \in Seq(Tester \cup {Worker})
    BY <2>1, <1>b, <1>d
  <2>3. handed' \in [Owner -> Nat]
    BY <1>9, <2>1 DEF WorkerPrint, HandOver, spooler, TypeOK
  <2>4. /\ files' \subseteq Owner \X {"download", "printable", "html", "raw", "page"}
        /\ torn' \subseteq JobId
    <3>1. <<job, "raw">> \in Owner \X {"download", "printable", "html", "raw", "page"}
      BY <2>1
    <3>2. files' = files \/ files' = files \cup {<<job, "raw">>}
      BY <1>9 DEF WorkerPrint
    <3>3. torn' = torn \/ torn' = torn \cup {job}
      BY <1>9 DEF WorkerPrint, spooler
    <3> QED BY <2>1, <3>1, <3>2, <3>3 DEF TypeOK
  <2>6. print_lock' \in Seq(Tester \cup {Worker})
    BY <1>9, <2>2 DEF WorkerPrint, Unlock, TypeOK
  <2>5. /\ stage' \in {"finalize", "submitted", "cleanup_err"}
        /\ tracking' = FALSE
        /\ UNCHANGED <<platform, seen, job, kind, told, test, life>>
    BY <1>9 DEF WorkerPrint, Silent, SameJob
  <2> QED BY <2>3, <2>4, <2>5, <2>6 DEF TypeOK
<1>10. ASSUME WorkerFinalize PROVE TypeOK'
  <2>1. job \in JobId /\ job \in Owner /\ Holds(Worker) /\ handed[job] = 1
    BY <1>10, <1>a DEF WorkerFinalize, PrintingHoldsLock, SpoolFollowsStage
  <2>2. Tail(print_lock) \in Seq(Tester \cup {Worker})
    BY <2>1, <1>b, <1>d
  <2> QED BY <1>10, <2>1, <2>2 DEF WorkerFinalize, Unlock, Silent, SameJob, TypeOK
<1>11. ASSUME Cleanup PROVE TypeOK'
  BY <1>11 DEF Cleanup, Silent, SameJob, spooler, TypeOK
<1>12. ASSUME NEW t \in Tester, TestStart(t) PROVE TypeOK'
  <2>1. UNCHANGED <<platform, seen, job, kind, stage, tracking, told, handed, torn, life>>
    BY <1>12 DEF TestStart, TestOnly, worker
  <2>2. test' \in [Tester -> {"idle", "locking", "printing", "submitted", "failed"}]
    BY <1>12 DEF TestStart, TypeOK
  <2>3. files' \subseteq Owner \X {"download", "printable", "html", "raw", "page"}
    <3>1. <<t, "page">> \in Owner \X {"download", "printable", "html", "raw", "page"}
      BY <1>b
    <3> QED BY <1>12, <3>1 DEF TestStart, TypeOK
  <2>4. print_lock' \in Seq(Tester \cup {Worker})
    <3>1. print_lock' = print_lock \/ print_lock' = Append(print_lock, t)
      BY <1>12 DEF TestStart
    <3>2. print_lock \in Seq(Tester \cup {Worker}) /\ t \in Tester \cup {Worker}
      BY DEF TypeOK
    <3> QED BY <1>c, <3>1, <3>2
  <2> QED BY <2>1, <2>2, <2>3, <2>4 DEF TypeOK
<1>13. ASSUME NEW t \in Tester, TestAcquire(t) PROVE TypeOK'
  BY <1>13 DEF TestAcquire, TestOnly, worker, TypeOK
<1>14. ASSUME NEW t \in Tester, TestPrint(t) PROVE TypeOK'
  <2>1. Tail(print_lock) \in Seq(Tester \cup {Worker})
    BY <1>14, <1>d DEF TestPrint, PrintingHoldsLock
  <2>2. UNCHANGED <<platform, seen, job, kind, stage, tracking, told, torn, life>>
    BY <1>14 DEF TestPrint, TestOnly, worker
  <2>3. test' \in [Tester -> {"idle", "locking", "printing", "submitted", "failed"}]
    BY <1>14 DEF TestPrint, TypeOK
  <2>5. handed' \in [Owner -> Nat]
    <3>1. handed' = handed \/ handed' = [handed EXCEPT ![t] = handed[t] + 1]
      BY <1>14 DEF TestPrint, HandOver
    <3>2. handed \in [Owner -> Nat] /\ handed[t] + 1 \in Nat
      BY <1>b DEF TypeOK
    <3> QED BY <3>1, <3>2
  <2>4. /\ files' \subseteq Owner \X {"download", "printable", "html", "raw", "page"}
        /\ print_lock' \in Seq(Tester \cup {Worker})
    BY <1>14, <2>1 DEF TestPrint, Unlock, TypeOK
  <2> QED BY <2>2, <2>3, <2>4, <2>5 DEF TypeOK
<1>15. ASSUME Crash PROVE TypeOK'
  <2>1. /\ told' \in [JobId -> JobStatus \cup {"none"}]
        /\ handed' \in [Owner -> Nat]
        /\ test' \in [Tester -> {"idle", "locking", "printing", "submitted", "failed"}]
    BY <1>15 DEF Crash
  <2>2. life' \in Nat
    BY <1>15 DEF Crash, TypeOK
  <2>3. /\ seen' = {} /\ job' = NoJob /\ stage' = "idle" /\ tracking' = FALSE
        /\ print_lock' = << >> /\ torn' = {}
        /\ UNCHANGED <<platform, kind, files>>
    BY <1>15 DEF Crash
  <2>4. print_lock' \in Seq(Tester \cup {Worker})
    BY <2>3
  <2> QED BY <2>1, <2>2, <2>3, <2>4 DEF TypeOK
<1>16. ASSUME UNCHANGED vars PROVE TypeOK'
  BY <1>16 DEF vars, TypeOK
<1> QED BY <1>1, <1>2, <1>3, <1>4, <1>5, <1>6, <1>7, <1>8, <1>9, <1>10, <1>11, <1>12, <1>13,
          <1>14, <1>15, <1>16 DEF Next, WorkerStep, TestStep

\* The statuses that may follow the ones a job has while it is in progress.
LEMMA FollowsTable ==
    /\ Lifecycle!Follows["queued"] = {"downloading", "printing", "failed"}
    /\ Lifecycle!Follows["downloading"] = {"printing", "failed"}
    /\ Lifecycle!Follows["printing"] = {"printing", "submitted", "failed"}
    /\ Lifecycle!Follows["submitted"] = {"completed", "unknown"}
BY DEF Lifecycle!Follows

\* What every step of the worker leaves alone.
LEMMA WorkerOnJob ==
    ASSUME IInv, WorkerStep
    PROVE  /\ stage # "idle" /\ job \in JobId /\ job \in seen /\ job # NoJob
           /\ told[job] \in ReportedAt(stage)
           /\ UNCHANGED <<platform, seen, job, kind, test, life>>
<1>1. stage # "idle" /\ UNCHANGED <<platform, seen, job, kind, test, life>>
  BY DEF WorkerStep, Begin, Render, Download, Prepare, Submit, WorkerLock, WorkerAcquire,
     WorkerPrint, WorkerFinalize, ReportSubmitted, Track, Cleanup, ReportFailed, SameJob
<1> QED BY <1>1, PipelineAssumption DEF IInv, ReportsFollowStage, Owner

\* A step of the worker says nothing of its job, or what may follow the status
\* it said last; either way the job is reported as far as its stage asks for.
LEMMA WorkerReports ==
    ASSUME IInv, WorkerStep
    PROVE  /\ told'[job] \in ReportedAt(stage')
           /\ \/ told' = told
              \/ \E s \in Lifecycle!Follows[told[job]] \cap JobStatus :
                    told' = [told EXCEPT ![job] = s]
<1> USE FollowsTable, WorkerOnJob DEF IInv, JobStatus
<1>a. told \in [JobId -> JobStatus \cup {"none"}]
  BY DEF TypeOK
<1> DEFINE Says(s) == told' = [told EXCEPT ![job] = s]
<1>b. \A s : Says(s) => told'[job] = s
  BY <1>a
<1> HIDE DEF Says
<1>1. CASE Begin
  BY <1>1, <1>b DEF Begin, ResolveFails, print_raw_job, push_log, Silent, ReportedAt, Says
<1>2. CASE Render
  BY <1>2, <1>b DEF Render, push_log, Silent, ReportedAt, Says
<1>3. CASE Download
  BY <1>3 DEF Download, ResolveFails, download_to_temp, Silent, ReportedAt
<1>4. CASE Prepare
  <2>1. /\ stage = "prepare" /\ stage' \in {"failing", "submit"}
        /\ told' = told \/ (stage' = "submit" /\ Says("printing"))
    BY <1>4 DEF Prepare, image_to_pdf, office_to_pdf, push_log, Silent, Says
  <2>2. told[job] = "downloading"
    BY <2>1 DEF ReportedAt
  <2>3. "downloading" \in ReportedAt(stage') /\ (stage' = "submit" => "printing" \in ReportedAt(stage'))
    BY <2>1 DEF ReportedAt
  <2> QED BY <2>1, <2>2, <2>3, <1>b DEF Says
<1>5. CASE Submit
  <2>1. stage = "submit" /\ stage' = "lock" /\ Says("printing")
    BY <1>5 DEF Submit, push_log, Says
  <2>2. told[job] \in {"downloading", "printing"}
    BY <2>1 DEF ReportedAt
  <2>3. "printing" \in Lifecycle!Follows[told[job]] \cap JobStatus
    BY <2>2
  <2>4. "printing" \in ReportedAt(stage')
    BY <2>1 DEF ReportedAt
  <2> QED BY <2>1, <2>3, <2>4, <1>b DEF Says
<1>6. CASE WorkerLock \/ WorkerAcquire \/ WorkerPrint \/ WorkerFinalize
  <2>1. /\ stage \in {"lock", "locking", "printing", "finalize"}
        /\ stage' \in {"locking", "printing", "finalize", "submitted", "cleanup_err"}
        /\ told' = told
    BY <1>6 DEF WorkerLock, WorkerAcquire, WorkerPrint, WorkerFinalize, Silent
  <2>2. told[job] = "printing"
    BY <2>1 DEF ReportedAt
  <2> QED BY <2>1, <2>2 DEF ReportedAt
<1>7. CASE ReportSubmitted
  <2>1. stage = "submitted" /\ stage' \in {"track", "cleanup_ok"} /\ Says("submitted")
    BY <1>7 DEF ReportSubmitted, push_log, Says
  <2>2. told[job] = "printing"
    BY <2>1 DEF ReportedAt
  <2>3. "submitted" \in ReportedAt(stage')
    BY <2>1 DEF ReportedAt, Submitted
  <2> QED BY <2>1, <2>2, <2>3, <1>b DEF Says
<1>8. CASE Track
  BY <1>8, <1>b DEF Track, TrackingOutcome, push_log, ReportedAt, Submitted, Says
<1>9. CASE Cleanup
  <2>1. told' = told
    BY <1>9 DEF Cleanup, Silent
  <2>2. CASE stage = "cleanup_ok"
    BY <1>9, <2>1, <2>2 DEF Cleanup, ReportedAt
  <2>3. CASE stage = "cleanup_err"
    BY <1>9, <2>1, <2>3 DEF Cleanup, ReportedAt
  <2> QED BY <1>9, <2>2, <2>3 DEF Cleanup
<1>10. CASE ReportFailed
  <2>1. stage = "failing" /\ stage' = "idle" /\ Says("failed")
    BY <1>10 DEF ReportFailed, push_log, Says
  <2>2. told[job] \in {"queued", "downloading", "printing"}
    BY <2>1 DEF ReportedAt
  <2>3. "failed" \in Lifecycle!Follows[told[job]] \cap JobStatus
    BY <2>2
  <2>4. "failed" \in ReportedAt(stage')
    BY <2>1 DEF ReportedAt
  <2> QED BY <2>1, <2>3, <2>4, <1>b DEF Says
<1> QED BY <1>1, <1>2, <1>3, <1>4, <1>5, <1>6, <1>7, <1>8, <1>9, <1>10 DEF WorkerStep

\* A step of the worker leaves the reports of the other jobs alone.
LEMMA OthersAsTold ==
    ASSUME IInv, WorkerStep
    PROVE  \A j \in JobId : j # job => told'[j] = told[j]
BY WorkerReports, WorkerOnJob DEF IInv, TypeOK

\* Reports keep following the stage.
LEMMA StepReports == IInv /\ [Next]_vars => ReportsFollowStage'
<1> SUFFICES ASSUME IInv, [Next]_vars PROVE ReportsFollowStage'
  OBVIOUS
<1> USE DEF IInv
<1>1. ASSUME NEW j \in JobId, NEW k \in Kind, Take(j, k) PROVE ReportsFollowStage'
  <2>1. /\ stage = "idle" /\ stage' = "begin" /\ job' = j /\ j \notin seen
        /\ seen' = seen \cup {j}
        /\ told' = [told EXCEPT ![j] = "queued"]
        /\ told \in [JobId -> JobStatus \cup {"none"}] /\ seen \subseteq JobId
    BY <1>1 DEF Take, push_log, TypeOK
  <2>2. told'[j] = "queued" /\ \A i \in JobId : i # j => told'[i] = told[i]
    BY <2>1
  <2>3. "queued" \in ReportedAt("begin") /\ ReportedAt("idle") = Submitted \cup {"failed"}
    BY DEF ReportedAt
  <2> QED BY <2>1, <2>2, <2>3 DEF ReportsFollowStage
<1>2. CASE WorkerStep
  <2>1. /\ told'[job] \in ReportedAt(stage')
        /\ \A j \in JobId : j # job => told'[j] = told[j]
        /\ job \in JobId /\ job \in seen
        /\ UNCHANGED <<seen, job>>
    BY <1>2, WorkerReports, WorkerOnJob, OthersAsTold
  <2> QED BY <2>1 DEF ReportsFollowStage, TypeOK
<1>3. CASE \E t \in Tester : TestStart(t) \/ TestStep(t)
  BY <1>3 DEF TestStart, TestStep, TestAcquire, TestPrint, TestOnly, worker, ReportsFollowStage
<1>4. CASE Crash
  BY <1>4, PipelineAssumption DEF Crash, ReportsFollowStage, Owner
<1>5. CASE UNCHANGED vars
  BY <1>5 DEF vars, ReportsFollowStage
<1> QED BY <1>1, <1>2, <1>3, <1>4, <1>5 DEF Next

Stage == {"idle", "begin", "render", "download", "prepare", "submit", "lock", "locking",
          "printing", "finalize", "submitted", "track", "cleanup_ok", "cleanup_err", "failing"}

\* Only after its submission was reported has a job in progress such a status.
LEMMA ReportedSubmission ==
    ASSUME NEW s \in Stage, NEW x \in ReportedAt(s)
    PROVE  /\ s \in {"track", "cleanup_ok"} => x \in Submitted
           /\ s \notin {"track", "cleanup_ok", "idle"} => x \notin Submitted
<1>1. s \in {"track", "cleanup_ok"} => x \in Submitted
  BY DEF ReportedAt, Submitted
<1>2. s \notin {"track", "cleanup_ok", "idle"} => x \in {"queued", "downloading", "printing"}
  <2>1. CASE s \in {"begin", "render", "download", "prepare", "submit"}
    BY <2>1 DEF ReportedAt
  <2>2. CASE s \in {"lock", "locking", "printing", "finalize", "submitted", "cleanup_err"}
    BY <2>2 DEF ReportedAt
  <2>3. CASE s = "failing"
    BY <2>3 DEF ReportedAt
  <2> QED BY <2>1, <2>2, <2>3 DEF Stage
<1> QED BY <1>1, <1>2 DEF Submitted

\* A worker's step changes the spooler in step with the reports of its job.
LEMMA WorkerSpools ==
    ASSUME IInv, WorkerStep
    PROVE  SpoolFollowsStage'
<1> USE DEF IInv
<1> DEFINE Held(s) == s \in {"finalize", "submitted", "track", "cleanup_ok"}
<1>1. /\ stage # "idle" /\ job \in JobId /\ job \in Owner
      /\ UNCHANGED <<platform, job>>
      /\ \A j \in JobId : j # job => told'[j] = told[j]
      /\ handed \in [Owner -> Nat] /\ stage \in Stage /\ stage' \in Stage
      /\ torn \subseteq JobId
      /\ told[job] \in ReportedAt(stage)
  BY WorkerOnJob, OthersAsTold, StepTyped DEF TypeOK, Owner, Next, Stage
<1>2. told'[job] \in ReportedAt(stage')
  BY WorkerReports
<1>3. handed[job] = IF Held(stage) THEN 1 ELSE 0
  BY <1>1, ReportedSubmission DEF SpoolFollowsStage
<1>4. /\ stage' \in {"track", "cleanup_ok"} => told'[job] \in Submitted
      /\ stage' \notin {"track", "cleanup_ok", "idle"} => told'[job] \notin Submitted
  BY <1>1, <1>2, ReportedSubmission
<1>5. /\ handed'[job] = IF \/ stage' \in {"finalize", "submitted"}
                           \/ told'[job] \in Submitted
                        THEN 1 ELSE 0
      /\ \A j \in JobId : j # job => handed'[j] = handed[j]
  <2>1. CASE Begin \/ Render \/ Download \/ Prepare \/ Submit \/ WorkerLock \/ WorkerAcquire
    <3>1. /\ stage' \notin {"finalize", "submitted", "track", "cleanup_ok", "idle"}
          /\ ~Held(stage) /\ handed' = handed
      BY <2>1 DEF Begin, ResolveFails, print_raw_job, Render, Download, download_to_temp,
         Prepare, image_to_pdf, office_to_pdf, Submit, WorkerLock, WorkerAcquire, spooler
    <3> QED BY <3>1, <1>3, <1>4
  <2>2. CASE WorkerPrint
    <3>1. /\ ~Held(stage)
          /\ \/ stage' \in {"finalize", "submitted"} /\ HandOver(job)
             \/ stage' = "cleanup_err" /\ handed' = handed
      BY <2>2 DEF WorkerPrint, spooler
    <3>2. CASE stage' \in {"finalize", "submitted"} /\ HandOver(job)
      BY <3>1, <3>2, <1>1, <1>3 DEF HandOver, Owner
    <3>3. CASE stage' = "cleanup_err" /\ handed' = handed
      BY <3>1, <3>3, <1>3, <1>4
    <3> QED BY <3>1, <3>2, <3>3
  <2>3. CASE WorkerFinalize
    <3>1. /\ stage = "finalize"
          /\ \/ stage' = "submitted" /\ handed' = handed
             \/ stage' = "cleanup_err" /\ handed' = [handed EXCEPT ![job] = @ - 1]
      BY <2>3 DEF WorkerFinalize
    <3>2. CASE stage' = "submitted" /\ handed' = handed
      BY <3>1, <3>2, <1>3
    <3>3. CASE stage' = "cleanup_err" /\ handed' = [handed EXCEPT ![job] = @ - 1]
      BY <3>1, <3>3, <1>1, <1>3, <1>4 DEF Owner
    <3> QED BY <3>1, <3>2, <3>3
  <2>4. CASE ReportSubmitted \/ Track
    <3>1. /\ Held(stage) /\ stage' \in {"track", "cleanup_ok"} /\ handed' = handed
      BY <2>4 DEF ReportSubmitted, Track, spooler
    <3> QED BY <3>1, <1>3, <1>4
  <2>5. CASE Cleanup
    <3>1. handed' = handed /\ told' = told
      BY <2>5 DEF Cleanup, spooler, Silent
    <3>2. CASE stage = "cleanup_ok"
      BY <2>5, <3>1, <3>2, <1>1, <1>3, ReportedSubmission DEF Cleanup
    <3>3. CASE stage = "cleanup_err"
      BY <2>5, <3>1, <3>3, <1>3, <1>4 DEF Cleanup
    <3> QED BY <2>5, <3>2, <3>3 DEF Cleanup
  <2>6. CASE ReportFailed
    <3>1. /\ stage = "failing" /\ stage' = "idle" /\ handed' = handed
          /\ told'[job] = "failed"
      BY <2>6, <1>1 DEF ReportFailed, spooler, push_log, TypeOK
    <3> QED BY <3>1, <1>3 DEF Submitted
  <2> QED BY <2>1, <2>2, <2>3, <2>4, <2>5, <2>6 DEF WorkerStep
<1>6. ASSUME NEW j \in torn'
      PROVE  /\ platform' = "windows"
             /\ told'[j] \in {"printing", "failed"}
             /\ j = job' => stage' \in {"cleanup_err", "failing", "idle"}
  <2>1. CASE j \in torn /\ j # job
    BY <2>1, <1>1 DEF SpoolFollowsStage
  <2>2. CASE j \in torn /\ j = job
    <3>1. /\ stage \in {"cleanup_err", "failing"} /\ platform = "windows"
          /\ told[job] \in {"printing", "failed"}
      BY <2>2, <1>1 DEF SpoolFollowsStage
    <3>2. \/ stage' \in {"idle", "failing"} /\ told' = told
          \/ stage' = "idle" /\ told' = [told EXCEPT ![job] = "failed"]
      BY <3>1 DEF WorkerStep, Begin, Render, Download, Prepare, Submit, WorkerLock,
         WorkerAcquire, WorkerPrint, WorkerFinalize, ReportSubmitted, Track, Cleanup,
         ReportFailed, push_log, Silent
    <3> QED BY <2>2, <3>1, <3>2, <1>1 DEF TypeOK
  <2>3. CASE j \notin torn
    <3>1. WorkerPrint
      BY <2>3 DEF WorkerStep, Begin, Render, Download, Prepare, Submit, WorkerLock,
         WorkerAcquire, WorkerFinalize, ReportSubmitted, Track, Cleanup,
         ReportFailed, spooler
    <3>2. /\ j = job /\ platform = "windows" /\ stage = "printing" /\ stage' = "cleanup_err"
          /\ told' = told
      BY <2>3, <3>1 DEF WorkerPrint, Silent, spooler
    <3>3. told[job] = "printing"
      BY <3>2, WorkerOnJob DEF ReportedAt
    <3> QED BY <3>2, <3>3, <1>1
  <2> QED BY <2>1, <2>2, <2>3
<1> QED BY <1>1, <1>5, <1>6 DEF SpoolFollowsStage

\* The spooler keeps following the reports.
LEMMA StepSpools == IInv /\ [Next]_vars => SpoolFollowsStage'
<1> SUFFICES ASSUME IInv, [Next]_vars PROVE SpoolFollowsStage'
  OBVIOUS
<1> USE DEF IInv
<1>a. /\ JobId \subseteq Owner /\ torn \subseteq JobId
      /\ \A t \in Tester : t \notin JobId
      /\ handed \in [Owner -> Nat]
      /\ told \in [JobId -> JobStatus \cup {"none"}]
  BY PipelineAssumption DEF Owner, TypeOK
<1>1. ASSUME NEW j \in JobId, NEW k \in Kind, Take(j, k) PROVE SpoolFollowsStage'
  <2>1. /\ stage = "idle" /\ stage' = "begin" /\ job' = j
        /\ told' = [told EXCEPT ![j] = "queued"]
        /\ UNCHANGED <<platform, handed, torn>>
        /\ told[j] = "none"
    BY <1>1 DEF Take, push_log, spooler, ReportsFollowStage
  <2>2. j \notin torn /\ handed[j] = 0
    BY <2>1 DEF SpoolFollowsStage, Submitted
  <2>3. told'[j] = "queued" /\ \A i \in JobId : i # j => told'[i] = told[i]
    BY <2>1, <1>a
  <2>4. \A i \in JobId : handed'[i] = IF \/ i = job' /\ stage' \in {"finalize", "submitted"}
                                         \/ told'[i] \in Submitted
                                      THEN 1 ELSE 0
    BY <2>1, <2>2, <2>3 DEF SpoolFollowsStage, Submitted
  <2>5. \A i \in torn' : /\ platform' = "windows"
                         /\ told'[i] \in {"printing", "failed"}
                         /\ i # job'
    BY <2>1, <2>2, <2>3, <1>a DEF SpoolFollowsStage
  <2> QED BY <2>4, <2>5 DEF SpoolFollowsStage
<1>2. CASE WorkerStep
  BY <1>2, WorkerSpools
<1>3. ASSUME NEW t \in Tester, TestStart(t) \/ TestStep(t) PROVE SpoolFollowsStage'
  <2>1. /\ UNCHANGED <<platform, job, stage, told, torn>>
        /\ handed' = handed \/ handed' = [handed EXCEPT ![t] = @ + 1]
    BY <1>3 DEF TestStart, TestStep, TestAcquire, TestPrint, HandOver, TestOnly, worker
  <2>2. \A j \in JobId : handed'[j] = handed[j]
    BY <2>1, <1>a
  <2> QED BY <2>1, <2>2 DEF SpoolFollowsStage
<1>4. CASE Crash
  <2>1. /\ stage' = "idle" /\ torn' = {}
        /\ \A j \in JobId : handed'[j] = 0 /\ told'[j] = "none"
    BY <1>4, <1>a DEF Crash
  <2> QED BY <2>1 DEF SpoolFollowsStage, Submitted
<1>5. CASE UNCHANGED vars
  BY <1>5 DEF vars, SpoolFollowsStage
<1> QED BY <1>1, <1>2, <1>3, <1>4, <1>5 DEF Next

\* The line of the print lock keeps following the stages of the worker and of
\* the test pages, and its head is who prints.
LEMMA StepLocks == IInv /\ [Next]_vars => LockFollowsStage' /\ PrintingHoldsLock'
<1> SUFFICES ASSUME IInv, [Next]_vars PROVE LockFollowsStage' /\ PrintingHoldsLock'
  OBVIOUS
<1> USE DEF IInv
<1> DEFINE Line == Tester \cup {Worker}
<1>a. /\ print_lock \in Seq(Line) /\ Distinct(print_lock)
      /\ Worker \in Line /\ \A t \in Tester : t \in Line /\ t # Worker
      /\ test \in [Tester -> {"idle", "locking", "printing", "submitted", "failed"}]
  BY PipelineAssumption DEF TypeOK, LockFollowsStage, Owner
<1>b. ASSUME UNCHANGED <<print_lock, test>>,
             stage \notin {"locking", "printing", "finalize"},
             stage' \notin {"locking", "printing", "finalize"}
      PROVE  LockFollowsStage' /\ PrintingHoldsLock'
  BY <1>b DEF LockFollowsStage, PrintingHoldsLock, Holds
<1>1. CASE \E j \in JobId, k \in Kind : Take(j, k)
  BY <1>1, <1>b DEF Take
<1>2. CASE Begin \/ Render \/ Download \/ Prepare \/ Submit \/ ReportSubmitted \/ Track
           \/ Cleanup \/ ReportFailed
  <2>1. /\ UNCHANGED <<print_lock, test>>
        /\ stage \notin {"locking", "printing", "finalize"}
        /\ stage' \notin {"locking", "printing", "finalize"}
    BY <1>2 DEF Begin, ResolveFails, print_raw_job, Render, Download, download_to_temp, Prepare,
       image_to_pdf, office_to_pdf, Submit, ReportSubmitted, Track, Cleanup, ReportFailed, SameJob
  <2> QED BY <2>1, <1>b
<1>3. CASE WorkerLock
  <2>1. /\ stage = "lock" /\ stage' = "locking"
        /\ print_lock' = Append(print_lock, Worker) /\ test' = test
    BY <1>3 DEF WorkerLock, SameJob
  <2>2. ~InLine(print_lock, Worker)
    BY <2>1 DEF LockFollowsStage
  <2> HIDE DEF Line
  <2>3. /\ Distinct(print_lock')
        /\ \A p : InLine(print_lock', p) <=> InLine(print_lock, p) \/ p = Worker
        /\ print_lock # << >> => print_lock' # << >> /\ Head(print_lock') = Head(print_lock)
    BY <2>1, <2>2, <1>a, JoinsLine
  <2>4. LockFollowsStage'
    BY <2>1, <2>3, <1>a DEF LockFollowsStage
  <2>5. PrintingHoldsLock'
    BY <2>1, <2>3 DEF PrintingHoldsLock, Holds
  <2> QED BY <2>4, <2>5
<1>4. CASE WorkerAcquire
  <2>1. /\ stage = "locking" /\ stage' = "printing" /\ Holds(Worker)
        /\ UNCHANGED <<print_lock, test>>
    BY <1>4 DEF WorkerAcquire, SameJob
  <2> QED BY <2>1 DEF LockFollowsStage, PrintingHoldsLock, Holds
<1>5. CASE WorkerPrint \/ WorkerFinalize
  <2>1. /\ stage \in {"printing", "finalize"} /\ Holds(Worker) /\ test' = test
        /\ \/ stage' = "finalize" /\ print_lock' = print_lock
           \/ stage' \in {"submitted", "cleanup_err"} /\ print_lock' = Tail(print_lock)
    BY <1>5 DEF WorkerPrint, WorkerFinalize, SameJob, Unlock, PrintingHoldsLock
  <2>2. CASE stage' = "finalize" /\ print_lock' = print_lock
    BY <2>1, <2>2 DEF LockFollowsStage, PrintingHoldsLock, Holds
  <2>3. CASE stage' \in {"submitted", "cleanup_err"} /\ print_lock' = Tail(print_lock)
    <3> HIDE DEF Line
    <3>1. /\ Distinct(print_lock')
          /\ \A p : InLine(print_lock', p) <=> InLine(print_lock, p) /\ p # Worker
      BY <2>1, <2>3, <1>a, LeavesLine DEF Holds
    <3>2. LockFollowsStage'
      BY <2>1, <2>3, <3>1, <1>a DEF LockFollowsStage
    <3>3. \A t \in Tester : test[t] # "printing"
      BY <2>1, <1>a DEF PrintingHoldsLock, Holds
    <3> QED BY <2>1, <2>3, <3>2, <3>3 DEF PrintingHoldsLock
  <2> QED BY <2>1, <2>2, <2>3
<1>6. ASSUME NEW t \in Tester, TestStart(t) PROVE LockFollowsStage' /\ PrintingHoldsLock'
  <2>1. /\ test[t] = "idle" /\ stage' = stage
        /\ \/ /\ test' = [test EXCEPT ![t] = "failed"]
              /\ print_lock' = print_lock
           \/ /\ test' = [test EXCEPT ![t] = "locking"]
              /\ print_lock' = Append(print_lock, t)
    BY <1>6 DEF TestStart, TestOnly, worker
  <2>2. CASE test' = [test EXCEPT ![t] = "failed"] /\ print_lock' = print_lock
    <3>1. test'[t] = "failed" /\ \A u \in Tester : u # t => test'[u] = test[u]
      BY <2>2, <1>a
    <3> QED BY <2>1, <2>2, <3>1 DEF LockFollowsStage, PrintingHoldsLock, Holds
  <2>3. CASE test' = [test EXCEPT ![t] = "locking"] /\ print_lock' = Append(print_lock, t)
    <3>1. test'[t] = "locking" /\ \A u \in Tester : u # t => test'[u] = test[u]
      BY <2>3, <1>a
    <3>2. ~InLine(print_lock, t)
      BY <2>1 DEF LockFollowsStage
    <3> HIDE DEF Line
    <3>3. /\ Distinct(print_lock')
          /\ \A p : InLine(print_lock', p) <=> InLine(print_lock, p) \/ p = t
          /\ print_lock # << >> => print_lock' # << >> /\ Head(print_lock') = Head(print_lock)
      BY <2>3, <3>2, <1>a, JoinsLine
    <3>4. LockFollowsStage'
      BY <2>1, <3>1, <3>3, <1>a DEF LockFollowsStage
    <3>5. PrintingHoldsLock'
      BY <2>1, <3>1, <3>3 DEF PrintingHoldsLock, Holds
    <3> QED BY <3>4, <3>5
  <2> QED BY <2>1, <2>2, <2>3
<1>7. ASSUME NEW t \in Tester, TestAcquire(t) PROVE LockFollowsStage' /\ PrintingHoldsLock'
  <2>1. /\ test[t] = "locking" /\ Holds(t)
        /\ test' = [test EXCEPT ![t] = "printing"]
        /\ UNCHANGED <<stage, print_lock>>
    BY <1>7 DEF TestAcquire, TestOnly, worker
  <2>2. test'[t] = "printing" /\ \A u \in Tester : u # t => test'[u] = test[u]
    BY <2>1, <1>a
  <2> QED BY <2>1, <2>2 DEF LockFollowsStage, PrintingHoldsLock, Holds
<1>8. ASSUME NEW t \in Tester, TestPrint(t) PROVE LockFollowsStage' /\ PrintingHoldsLock'
  <2>1. /\ test[t] = "printing" /\ Holds(t)
        /\ test' \in {[test EXCEPT ![t] = "submitted"], [test EXCEPT ![t] = "failed"]}
        /\ print_lock' = Tail(print_lock) /\ stage' = stage
    BY <1>8 DEF TestPrint, TestOnly, worker, Unlock, PrintingHoldsLock
  <2>2. test'[t] \in {"submitted", "failed"} /\ \A u \in Tester : u # t => test'[u] = test[u]
    BY <2>1, <1>a
  <2> HIDE DEF Line
  <2>3. /\ Distinct(print_lock')
        /\ \A p : InLine(print_lock', p) <=> InLine(print_lock, p) /\ p # t
    BY <2>1, <1>a, LeavesLine DEF Holds
  <2>4. LockFollowsStage'
    BY <2>1, <2>2, <2>3, <1>a DEF LockFollowsStage
  <2>5. /\ stage \notin {"printing", "finalize"}
        /\ \A u \in Tester : u # t => test[u] # "printing"
    BY <2>1, <1>a DEF PrintingHoldsLock, Holds
  <2> QED BY <2>1, <2>2, <2>4, <2>5 DEF PrintingHoldsLock
<1>9. CASE Crash
  <2>1. /\ print_lock' = << >> /\ stage' = "idle"
        /\ \A t \in Tester : test'[t] \in {"idle", "failed"}
    BY <1>9 DEF Crash
  <2> QED BY <2>1 DEF LockFollowsStage, PrintingHoldsLock, Distinct, InLine
<1>10. CASE UNCHANGED vars
  BY <1>10 DEF vars, LockFollowsStage, PrintingHoldsLock, Holds
<1> QED BY <1>1, <1>2, <1>3, <1>4, <1>5, <1>6, <1>7, <1>8, <1>9, <1>10
       DEF Next, WorkerStep, TestStep

FileSet == Owner \X {"download", "printable", "html", "raw", "page"}

\* A file is known by its owner and its name.
LEMMA FileByParts ==
    ASSUME NEW f \in FileSet, NEW o, NEW n
    PROVE  f = <<o, n>> <=> f[1] = o /\ f[2] = n
BY DEF FileSet

\* After a step of the worker its job has only files that its new stage allows,
\* and the other files are those that were there.
LEMMA WorkerFiles ==
    ASSUME IInv, WorkerStep, \A f \in files : FileIsOwned(f),
           NEW f \in files'
    PROVE  /\ f[1] # job => f \in files
           /\ f[1] = job => /\ f[2] \in FilesAt(stage')
                            /\ stage' = "idle" => told'[job] = "failed"
<1> USE DEF IInv
<1>a. /\ job \in JobId /\ job \in seen /\ job \notin Tester /\ stage # "idle"
      /\ told \in [JobId -> JobStatus \cup {"none"}]
      /\ files \subseteq FileSet
  BY WorkerOnJob, PipelineAssumption DEF TypeOK, FileSet, Owner
<1>b. ASSUME f \in files, f[1] = job PROVE f[2] \in FilesAt(stage)
  BY <1>a, <1>b DEF FileIsOwned
<1>c. f \in FileSet
  BY StepTyped DEF TypeOK, Next, FileSet
<1>d. ASSUME NEW n, f = <<job, n>> PROVE f[1] = job /\ f[2] = n
  BY <1>d
<1>1. CASE Begin
  BY <1>1, <1>b DEF Begin, FilesAt
<1>2. CASE Render
  <2>1. /\ stage = "render"
        /\ f \in files \/ (stage' = "submit" /\ f = <<job, "html">>)
        /\ stage' \in {"failing", "submit"}
    BY <1>2 DEF Render
  <2> QED BY <2>1, <1>b, <1>d DEF FilesAt
<1>3. CASE Download
  <2>1. /\ stage = "download"
        /\ f \in files \/ (stage' = "prepare" /\ f = <<job, "download">>)
        /\ stage' \in {"failing", "prepare"}
    BY <1>3 DEF Download, ResolveFails, download_to_temp
  <2> QED BY <2>1, <1>b, <1>d DEF FilesAt
<1>4. CASE Prepare
  <2>1. /\ stage = "prepare"
        /\ f \in files \/ f = <<job, "printable">>
        /\ \/ stage' = "submit"
           \/ stage' = "failing" /\ f # <<job, "download">>
    BY <1>4 DEF Prepare, image_to_pdf, office_to_pdf, WithoutDownload
  <2>2. f # <<job, "download">> /\ f[1] = job => f[2] # "download"
    BY <1>c, FileByParts
  <2>3. f \in files /\ f[1] = job => f[2] = "download"
    BY <2>1, <1>b DEF FilesAt
  <2> QED BY <2>1, <2>2, <2>3, <1>d DEF FilesAt
<1>5. CASE Submit \/ WorkerLock \/ WorkerAcquire \/ WorkerFinalize \/ ReportSubmitted \/ Track
  <2>1. /\ f \in files
        /\ stage \in {"submit", "lock", "locking", "finalize", "submitted", "track"}
        /\ stage' \in {"lock", "locking", "printing", "submitted", "track", "cleanup_ok",
                       "cleanup_err"}
    BY <1>5 DEF Submit, WorkerLock, WorkerAcquire, WorkerFinalize, ReportSubmitted, Track
  <2>2. FilesAt(stage) = {"html", "download", "printable"}
    BY <2>1 DEF FilesAt
  <2>3. {"html", "download", "printable"} \subseteq FilesAt(stage')
    BY <2>1 DEF FilesAt
  <2> QED BY <2>1, <2>2, <2>3, <1>b
<1>6. CASE WorkerPrint
  <2>1. /\ stage = "printing"
        /\ f \in files \/ (stage' = "cleanup_err" /\ f = <<job, "raw">>)
        /\ stage' \in {"finalize", "submitted", "cleanup_err"}
    BY <1>6 DEF WorkerPrint
  <2>2. f \in files /\ f[1] = job => f[2] \in {"html", "download", "printable"}
    BY <2>1, <1>b DEF FilesAt
  <2> QED BY <2>1, <2>2, <1>d DEF FilesAt
<1>7. CASE Cleanup
  <2>1. /\ f \in files /\ f \notin Removable
        /\ \/ stage = "cleanup_ok" /\ stage' = "idle"
           \/ stage = "cleanup_err" /\ stage' = "failing"
    BY <1>7 DEF Cleanup
  <2>2. f[1] = job => f[2] \notin {"html", "download", "printable"}
    BY <2>1, <1>c, FileByParts DEF Removable
  <2> QED BY <2>1, <2>2, <1>b DEF FilesAt
<1>8. CASE ReportFailed
  <2>1. /\ f \in files /\ stage = "failing" /\ stage' = "idle"
        /\ told'[job] = "failed"
    BY <1>8, <1>a DEF ReportFailed, push_log
  <2>2. FilesAt("failing") = FilesAt("idle")
    BY DEF FilesAt
  <2> QED BY <2>1, <2>2, <1>b
<1> QED BY <1>1, <1>2, <1>3, <1>4, <1>5, <1>6, <1>7, <1>8 DEF WorkerStep

\* The files keep following the stages of their owners.
LEMMA StepFiles == IInv /\ [Next]_vars => FilesFollowStage'
<1> SUFFICES ASSUME IInv, [Next]_vars, life' = 0, NEW f \in files'
             PROVE  FileIsOwned(f)'
  BY DEF FilesFollowStage
<1> USE DEF IInv
<1>a. /\ JobId \subseteq Owner /\ Tester \subseteq Owner /\ seen \subseteq JobId
      /\ \A t \in Tester : t \notin JobId
      /\ job \in JobId => job \in seen
      /\ told \in [JobId -> JobStatus \cup {"none"}]
      /\ test \in [Tester -> {"idle", "locking", "printing", "submitted", "failed"}]
      /\ files \subseteq FileSet /\ life \in Nat
  BY PipelineAssumption DEF Owner, TypeOK, ReportsFollowStage, FileSet
<1>b. life = 0 => \A g \in files : FileIsOwned(g)
  BY DEF FilesFollowStage
<1>1. ASSUME NEW j \in JobId, NEW k \in Kind, Take(j, k) PROVE FileIsOwned(f)'
  <2>1. /\ stage = "idle" /\ stage' = "begin" /\ job' = j /\ j \notin seen
        /\ seen' = seen \cup {j}
        /\ told' = [told EXCEPT ![j] = "queued"]
        /\ UNCHANGED <<files, test, life>>
    BY <1>1 DEF Take, push_log
  <2>2. \A i \in seen : i # j /\ told'[i] = told[i]
    BY <2>1, <1>a
  <2>3. FileIsOwned(f) /\ FilesAt(stage) = {"printable", "raw"}
    BY <2>1, <1>b DEF FilesAt
  <2> QED BY <2>1, <2>2, <2>3 DEF FileIsOwned
<1>2. CASE WorkerStep
  <2>1. /\ UNCHANGED <<seen, job, test, life>>
        /\ job \in JobId /\ job \in seen /\ job \notin Tester
        /\ \A i \in JobId : i # job => told'[i] = told[i]
    BY <1>2, <1>a, WorkerOnJob, OthersAsTold
  <2>2. \A g \in files : FileIsOwned(g)
    BY <2>1, <1>b
  <2>3. /\ f[1] # job => f \in files
        /\ f[1] = job => /\ f[2] \in FilesAt(stage')
                         /\ stage' = "idle" => told'[job] = "failed"
    BY <1>2, <2>2, WorkerFiles
  <2>4. CASE f[1] = job
    BY <2>1, <2>3, <2>4 DEF FileIsOwned
  <2>5. CASE f[1] # job
    BY <2>1, <2>2, <2>3, <2>5, <1>a DEF FileIsOwned
  <2> QED BY <2>4, <2>5
<1>3. ASSUME NEW t \in Tester, TestStart(t) PROVE FileIsOwned(f)'
  <2>1. /\ UNCHANGED <<seen, job, stage, told, life>>
        /\ test[t] = "idle"
        /\ \/ test' = [test EXCEPT ![t] = "failed"] /\ f \in files
           \/ test' = [test EXCEPT ![t] = "locking"] /\ (f \in files \/ f = <<t, "page">>)
    BY <1>3 DEF TestStart, TestOnly, worker
  <2>2. \A u \in Tester : u # t => test'[u] = test[u]
    BY <2>1, <1>a
  <2>3. CASE f \in files
    <3>1. FileIsOwned(f) /\ (f[1] \in Tester => f[1] # t \/ f[1] \in seen)
      BY <2>1, <2>3, <1>b DEF FileIsOwned
    <3> QED BY <2>1, <2>2, <3>1, <1>a DEF FileIsOwned
  <2>4. CASE f \notin files
    <3>1. test'[t] = "locking" /\ f[1] = t /\ f[2] = "page"
      BY <2>1, <2>4, <1>a
    <3> QED BY <3>1 DEF FileIsOwned
  <2> QED BY <2>3, <2>4
<1>4. ASSUME NEW t \in Tester, TestAcquire(t) PROVE FileIsOwned(f)'
  <2>1. /\ UNCHANGED <<seen, job, stage, told, files, life>>
        /\ test' = [test EXCEPT ![t] = "printing"]
    BY <1>4 DEF TestAcquire, TestOnly, worker
  <2>2. test'[t] = "printing" /\ \A u \in Tester : u # t => test'[u] = test[u]
    BY <2>1, <1>a
  <2> QED BY <2>1, <2>2, <1>b DEF FileIsOwned
<1>5. ASSUME NEW t \in Tester, TestPrint(t) PROVE FileIsOwned(f)'
  <2>1. /\ UNCHANGED <<seen, job, stage, told, life>>
        /\ test' \in {[test EXCEPT ![t] = "submitted"], [test EXCEPT ![t] = "failed"]}
        /\ f \in files /\ f # <<t, "page">>
    BY <1>5 DEF TestPrint, TestOnly, worker
  <2>2. \A u \in Tester : u # t => test'[u] = test[u]
    BY <2>1, <1>a
  <2>3. ~(f[1] = t /\ f[2] = "page")
    BY <2>1, <1>a, FileByParts
  <2> QED BY <2>1, <2>2, <2>3, <1>a, <1>b DEF FileIsOwned
<1>6. CASE Crash
  BY <1>6, <1>a DEF Crash
<1>7. CASE UNCHANGED vars
  BY <1>7, <1>b DEF vars, FileIsOwned
<1> QED BY <1>1, <1>2, <1>3, <1>4, <1>5, <1>6, <1>7 DEF Next, TestStep

\* Every step preserves the invariant.
LEMMA StepHolds == IInv /\ [Next]_vars => IInv'
BY StepTyped, StepReports, StepSpools, StepLocks, StepFiles DEF IInv

\* The inductive invariant holds in every state of the worker.
THEOREM Invariance == Spec => []IInv
BY InitHolds, StepHolds, PTL DEF Spec

\* The variables of worker, test pages and spooler keep their types.
THEOREM TypeCorrect == Spec => []TypeOK
<1>1. IInv => TypeOK
  BY DEF IInv
<1> QED BY <1>1, Invariance, PTL

\* The operating system holds a document for each job that was reported as
\* submitted and for no other, on every path of process_job.
THEOREM SpoolMatches == Spec => []SpoolMatchesReports
<1>1. IInv => SpoolMatchesReports
  <2> SUFFICES ASSUME IInv, NEW j \in JobId
               PROVE  /\ handed[j] \in {0, 1}
                      /\ told[j] \in {"submitted", "completed", "unknown"} => handed[j] = 1
                      /\ told[j] \in {"none", "failed"} => handed[j] = 0
                      /\ j \in torn => platform = "windows" /\ handed[j] = 0
    BY DEF SpoolMatchesReports
  <2>1. handed[j] = IF \/ j = job /\ stage \in {"finalize", "submitted"}
                       \/ told[j] \in Submitted
                    THEN 1 ELSE 0
    BY DEF IInv, SpoolFollowsStage
  <2>2. ASSUME j = job, stage \in {"finalize", "submitted"} PROVE told[j] = "printing"
    BY <2>2 DEF IInv, ReportsFollowStage, ReportedAt
  <2>3. j \in torn => /\ platform = "windows" /\ told[j] \in {"printing", "failed"}
                      /\ j = job => stage \notin {"finalize", "submitted"}
    BY DEF IInv, SpoolFollowsStage
  <2> QED BY <2>1, <2>2, <2>3 DEF Submitted
<1> QED BY <1>1, Invariance, PTL

\* Two print commands of the platform never run at the same time: jobs and
\* test pages print under print_lock.
THEOREM PrintsUnderLock == Spec => []PrintingHoldsLock
<1>1. IInv => PrintingHoldsLock
  BY DEF IInv
<1> QED BY <1>1, Invariance, PTL

\* Before a crash the temporary files are those of the job and the test pages in
\* progress, and the parts that failed jobs left.
THEOREM TemporaryFilesAreOwned == Spec => []FilesAreOwned
<1>1. IInv => FilesAreOwned
  <2> SUFFICES ASSUME IInv, life = 0, NEW f \in files
               PROVE  \/ f[1] = job /\ stage # "idle"
                      \/ f[1] \in Tester /\ test[f[1]] \in {"locking", "printing"}
                      \/ /\ f[1] \in seen /\ f[2] \in {"printable", "raw"}
                         /\ told[f[1]] = "failed"
    BY DEF FilesAreOwned
  <2>1. FileIsOwned(f)
    BY DEF IInv, FilesFollowStage
  <2> QED BY <2>1 DEF FileIsOwned, FilesAt
<1> QED BY <1>1, Invariance, PTL

\* The worker starts with no job reported.
LEMMA InitFollows == Init => Lifecycle!LifecycleInit
BY DEF Init, Lifecycle!LifecycleInit

\* Every step is one of the lifecycle, or says nothing.
LEMMA StepFollows ==
    IInv /\ [Next]_vars => [Lifecycle!LifecycleNext]_(Lifecycle!lifecycleVars)
<1> SUFFICES ASSUME IInv, [Next]_vars
             PROVE  Lifecycle!LifecycleNext \/ UNCHANGED <<told, job>>
  BY DEF Lifecycle!lifecycleVars
<1> USE DEF Lifecycle!LifecycleNext
<1>1. ASSUME NEW j \in JobId, NEW k \in Kind, Take(j, k) PROVE Lifecycle!LifecycleNext
  <2>1. /\ stage = "idle" /\ told[j] = "none" /\ job' = j
        /\ told' = [told EXCEPT ![j] = "queued"]
    BY <1>1 DEF Take, push_log, IInv, ReportsFollowStage
  <2>2. job # NoJob => told[job] \in Submitted \cup {"failed"}
    BY <2>1 DEF IInv, TypeOK, ReportsFollowStage, ReportedAt
  <2>3. Lifecycle!Start(j)
    BY <2>1, <2>2 DEF Lifecycle!Start, Lifecycle!Outcome, Submitted
  <2> QED BY <2>3
<1>2. CASE WorkerStep
  <2>1. job \in JobId /\ job # NoJob /\ job' = job
    BY <1>2, WorkerOnJob
  <2>2. CASE told' = told
    BY <2>1, <2>2
  <2>3. CASE told' # told
    <3>1. PICK s \in Lifecycle!Follows[told[job]] \cap JobStatus :
              told' = [told EXCEPT ![job] = s]
      BY <1>2, <2>3, WorkerReports
    <3>2. Lifecycle!Advance(s) /\ s \in Lifecycle!JobStatus
      BY <2>1, <3>1 DEF Lifecycle!Advance, Lifecycle!JobStatus, JobStatus
    <3> QED BY <3>2
  <2> QED BY <2>2, <2>3
<1>3. CASE \E t \in Tester : TestStart(t) \/ TestStep(t)
  BY <1>3 DEF TestStart, TestStep, TestAcquire, TestPrint, TestOnly, worker
<1>4. CASE Crash
  BY <1>4 DEF Crash, Lifecycle!Restart
<1>5. CASE UNCHANGED vars
  BY <1>5 DEF vars
<1> QED BY <1>1, <1>2, <1>3, <1>4, <1>5 DEF Next

\* process_job implements the lifecycle of jobs: whichever path a job takes and
\* whatever fails, its reports follow one another as JobLifecycle says.
THEOREM ImplementsLifecycle == Spec => FollowsLifecycle
<1>1. Spec => [][Lifecycle!LifecycleNext]_(Lifecycle!lifecycleVars)
  BY Invariance, StepFollows, PTL DEF Spec
<1> QED BY InitFollows, <1>1, PTL DEF Spec, FollowsLifecycle, Lifecycle!LifecycleSpec
=============================================================================
