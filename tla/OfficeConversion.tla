--------------------------- MODULE OfficeConversion ---------------------------
(***************************************************************************)
(* Conversion of Office files to PDF (crates/runtime/src/office.rs and the *)
(* converters in office/windows.rs and office/libreoffice.rs): the work    *)
(* directory of office_to_pdf, the chain Microsoft Office, WPS,            *)
(* LibreOffice, the PowerShell script that drives an Office application    *)
(* over COM and proves that the process is its own, the time limit with    *)
(* the clean-up command, the grace period and the kill, and what all of    *)
(* them leave on disk and running. The worker converts one file at a time. *)
(*                                                                         *)
(* A process is known by its id and its start time; ids are used again, at *)
(* any moment between two commands of a script (field "by" is history).    *)
(* Office applications are external: they start, answer, hang, crash and   *)
(* are used by the person at the machine at the same time.                 *)
(***************************************************************************)
EXTENDS Integers, Sequences

CONSTANTS Conversions,   \* bound: files converted one after the other
          Pids,          \* process ids
          MaxStarts,     \* bound: starts of Office processes
          None

ComProvider == {"microsoft", "wps"}
Converter == ComProvider \cup {"libreoffice"}
Conversion == 1..Conversions
Starter == {"script", "user"}
Process == [pid : Pids, start : 1..MaxStarts, app : ComProvider, by : Starter]

ASSUME OfficeAssumption == Conversions \in Nat /\ MaxStarts \in Nat /\ None \notin Process

VARIABLES
    windows,    \* the platform
    n,          \* number of the current or last conversion
    pc,         \* where office_to_pdf is in it
    tried,      \* place in the chain of the current attempt
    script,     \* where the child process of the attempt is
    exit,       \* the code it is going to exit with, or has exited with
    existing,   \* $existingInstances: the processes at the snapshot
    app,        \* $app: the process that COM activation gave to the script
    owns,       \* $ownsApp
    record,     \* the instance record file of each COM provider
    procs,      \* Office processes that are running
    starts,     \* how many have been started
    workDir,    \* conversions whose work directory exists
    output,     \* what is at the output path of each conversion
    result,     \* what each conversion returned
    survivors,  \* conversions a process of which still exports after a kill
    piped,      \* a descendant of the child keeps its output pipe open
    opened,     \* history: converters that have opened the current document
    excused     \* history: conversions that could not remove something, or
                \* were survived by a process of theirs

scriptVars == <<script, exit, existing, app, owns, record>>
diskVars == <<workDir, output, survivors, piped, opened, excused>>
vars == <<windows, n, pc, tried, scriptVars, procs, starts, diskVars, result>>

Init ==
    /\ windows \in BOOLEAN
    /\ n = 0 /\ pc = "idle" /\ tried = 1
    /\ script = "over" /\ exit = 0
    /\ existing = {} /\ app = None /\ owns = FALSE
    /\ record = [p \in ComProvider |-> None]
    /\ procs = {} /\ starts = 0
    /\ workDir = {}
    /\ output = [k \in Conversion |-> "none"]
    /\ result = [k \in Conversion |-> "none"]
    /\ survivors = {} /\ piped = FALSE
    /\ opened = {}
    /\ excused = {}
-----------------------------------------------------------------------------
\* windows::convert and convert_with_current_backend: the order of preference.
Chain == IF windows THEN <<"microsoft", "wps", "libreoffice">> ELSE <<"libreoffice">>
Current == Chain[tried]

\* Where the conversion is told its outcome and cleans up.
Settle(outcome) ==
    /\ pc' = "validate"
    /\ result' = [result EXCEPT ![n] = outcome]

Stay == UNCHANGED <<windows, procs, starts>>

\* office_to_pdf_with_converter, up to the work directory. Its path and the
\* output's come from the random name of the download: nothing is there yet.
Prepare ==
    /\ pc = "idle"
    /\ n < Conversions
    /\ n' = n + 1
    /\ \/ workDir' = workDir \cup {n'} /\ pc' = "stage" /\ UNCHANGED result
       \/ result' = [result EXCEPT ![n'] = "failed"] /\ UNCHANGED <<workDir, pc>>
    /\ opened' = {}
    /\ Stay /\ UNCHANGED <<tried, scriptVars, output, survivors, piped, excused>>

\* The input is copied under the name of the output; a failure removes the
\* work directory and ignores whether that succeeds.
Stage ==
    /\ pc = "stage"
    /\ \/ pc' = "attempt" /\ UNCHANGED <<result, workDir, excused>>
       \/ /\ pc' = "idle"
          /\ result' = [result EXCEPT ![n] = "failed"]
          /\ \/ workDir' = workDir \ {n} /\ UNCHANGED excused
             \/ excused' = excused \cup {n} /\ UNCHANGED workDir
    /\ Stay /\ UNCHANGED <<n, tried, scriptVars, output, survivors, piped, opened>>

\* The next converter of the chain, or ConvertersUnavailable at its end.
Unavailable ==
    IF tried < Len(Chain)
    THEN pc' = "attempt" /\ tried' = tried + 1 /\ UNCHANGED result
    ELSE Settle("failed") /\ UNCHANGED tried

\* No soffice in its places or on the search path, or no powershell.exe: nothing
\* is started. A COM provider that is not installed is noticed by the script.
NotFound ==
    /\ pc = "attempt"
    /\ Unavailable
    /\ Stay /\ UNCHANGED <<n, scriptVars, diskVars>>

\* The LibreOffice profile cannot be written, or spawning fails otherwise.
StartFails ==
    /\ pc = "attempt"
    /\ Settle("failed")
    /\ Stay /\ UNCHANGED <<n, tried, scriptVars, diskVars>>

\* A child has variables and pipes of its own.
Fresh == app' = None /\ owns' = FALSE /\ existing' = {} /\ piped' = FALSE

\* build_command of the script and of its clean-up, with the record's path.
StartScript ==
    /\ pc = "attempt"
    /\ Current \in ComProvider
    /\ pc' = "wait"
    /\ script' = "snapshot"
    /\ Fresh
    /\ Stay
    /\ UNCHANGED <<n, tried, exit, record, result, workDir, output, survivors, opened, excused>>

\* libreoffice::convert: soffice with a profile of its own in the work directory.
StartLibreOffice ==
    /\ pc = "attempt"
    /\ Current = "libreoffice"
    /\ pc' = "wait"
    /\ script' = "open"
    /\ Fresh
    /\ Stay
    /\ UNCHANGED <<n, tried, exit, record, result, workDir, output, survivors, opened, excused>>
-----------------------------------------------------------------------------
(* POWERSHELL_SCRIPT; its steps need nothing of the agent. *)

Agent == <<windows, n, pc, tried, result>>
Exits(code) == script' = "finally" /\ exit' = code

Snapshot ==
    /\ script = "snapshot"
    /\ existing' = procs
    /\ script' = "activate"
    /\ UNCHANGED <<Agent, exit, app, owns, record, procs, starts, diskVars>>

\* An Office process with an id that is free.
Begin(p, a, who) ==
    /\ starts < MaxStarts
    /\ starts' = starts + 1
    /\ \A q \in procs : q.pid /= p
    /\ procs' = procs \cup {[pid |-> p, start |-> starts + 1, app |-> a, by |-> who]}

\* New-Object -ComObject: a new process or, for some applications, one that is
\* running already.
Activate ==
    /\ script = "activate"
    /\ \/ /\ script' = "own"
          /\ \/ \E p \in Pids : Begin(p, Current, "script") /\ app' \in procs' \ procs
             \/ \E q \in procs : q.app = Current /\ app' = q /\ UNCHANGED <<procs, starts>>
          /\ UNCHANGED exit
       \/ Exits(2) /\ UNCHANGED <<app, procs, starts>>
    /\ UNCHANGED <<Agent, existing, owns, record, diskVars>>

\* GetWindowThreadProcessId: the id of the process behind the window of $app,
\* which must be there to be asked. It is kept as a number. Every failure of
\* this step and of the next is "cannot prove ownership".
Own ==
    /\ script = "own"
    /\ \/ app \in procs /\ script' = "identify" /\ UNCHANGED exit
       \/ Exits(2)
    /\ UNCHANGED <<Agent, existing, app, owns, record, procs, starts, diskVars>>

\* Get-Process -Id: whoever has that id by now.
HasWindowPid(q) == q \in procs /\ q.pid = app.pid

\* The record file is written and moved to its place.
Recorded(q) ==
    /\ record' = [record EXCEPT ![Current] = q]
    /\ owns' = TRUE
    /\ script' = "secure"
    /\ UNCHANGED exit

\* Mutant: the snapshot is not looked at.
IdentifyAny ==
    /\ script = "identify"
    /\ \/ \E q \in procs : HasWindowPid(q) /\ Recorded(q)
       \/ Exits(2) /\ UNCHANGED <<record, owns>>
    /\ UNCHANGED <<Agent, existing, app, procs, starts, diskVars>>

\* The process with that id must not be in the snapshot.
Identify ==
    /\ script = "identify"
    /\ \/ \E q \in procs \ existing : HasWindowPid(q) /\ Recorded(q)
       \/ Exits(2) /\ UNCHANGED <<record, owns>>
    /\ UNCHANGED <<Agent, existing, app, procs, starts, diskVars>>

\* AutomationSecurity and the prompts of the application.
Secure ==
    /\ script = "secure"
    /\ \/ app \in procs /\ script' = "open" /\ UNCHANGED exit
       \/ Exits(2)
    /\ UNCHANGED <<Agent, existing, app, owns, record, procs, starts, diskVars>>

Working == Current = "libreoffice" \/ app \in procs

Open ==
    /\ script = "open"
    /\ \/ /\ Working
          /\ opened' = opened \cup {Current}
          /\ script' = "export"
          /\ UNCHANGED exit
       \/ Exits(1) /\ UNCHANGED opened
    /\ UNCHANGED <<Agent, existing, app, owns, record, procs, starts, workDir, output,
                   survivors, piped, excused>>

\* The converter writes the output, well or badly, and may fail after that.
\* LibreOffice's front process can die while the one it started goes on.
Export ==
    /\ script = "export"
    /\ \/ Working /\ output' \in {[output EXCEPT ![n] = f] : f \in {Current, "bad"}}
       \/ UNCHANGED output
    /\ \/ Working /\ Exits(0) /\ UNCHANGED <<piped, survivors, excused>>
       \/ Exits(1) /\ UNCHANGED <<piped, survivors, excused>>
       \/ /\ Current = "libreoffice"
          /\ Exits(1)
          /\ piped' = TRUE
          /\ survivors' = survivors \cup {n}
          /\ excused' = excused \cup {n}
    /\ UNCHANGED <<Agent, existing, app, owns, record, procs, starts, workDir, opened>>

\* The finally block quits an application of its own; a Quit that fails is
\* ignored.
Finally ==
    /\ script = "finally"
    /\ script' = "over"
    /\ \/ owns /\ procs' = procs \ {app}
       \/ UNCHANGED procs
    /\ UNCHANGED <<Agent, exit, existing, app, owns, record, starts, diskVars>>

\* The people at the machine start applications and close them; applications
\* crash.
UserStarts ==
    /\ windows
    /\ \E p \in Pids, a \in ComProvider : Begin(p, a, "user")
    /\ UNCHANGED <<Agent, scriptVars, diskVars>>

ProcessEnds ==
    /\ \E q \in procs : procs' = procs \ {q}
    /\ UNCHANGED <<Agent, scriptVars, starts, diskVars>>

\* What was left exporting finishes its file, or ends without it.
SurvivorEnds ==
    /\ \E k \in survivors :
          /\ survivors' = survivors \ {k}
          /\ piped' = (piped /\ k /= n)
          /\ output' \in {[output EXCEPT ![k] = f] : f \in {output[k], "bad"}}
    /\ UNCHANGED <<Agent, scriptVars, procs, starts, workDir, opened, excused>>
-----------------------------------------------------------------------------
(* execute_converter_command_with_optional_cleanup *)

ChildExits ==
    /\ pc = "wait"
    /\ script = "over"
    /\ pc' = "read"
    /\ Stay /\ UNCHANGED <<n, tried, scriptVars, result, diskVars>>

\* validate_pdf: a file of more than five bytes that begins like a PDF.
IsPdf(f) == f \in Converter

\* The two readers end when every process has closed the pipe: this wait has no
\* limit.
PipesClosed == pc = "read" /\ ~piped

\* Mutant: every failure falls back to the next converter.
ReadAlwaysFallsBack ==
    /\ PipesClosed
    /\ IF exit = 0 /\ (~windows \/ IsPdf(output[n]))
       THEN Settle(Current) /\ UNCHANGED tried
       ELSE Unavailable
    /\ Stay /\ UNCHANGED <<n, scriptVars, diskVars>>

\* The exit code decides; on Windows the output is looked at as well.
Read ==
    /\ PipesClosed
    /\ \/ exit = 0 /\ (~windows \/ IsPdf(output[n])) /\ Settle(Current) /\ UNCHANGED tried
       \/ exit = 2 /\ Current \in ComProvider /\ Unavailable
       \/ /\ exit = 1 \/ (exit = 2 /\ Current \notin ComProvider)
             \/ (exit = 0 /\ windows /\ ~IsPdf(output[n]))
          /\ Settle("failed")
          /\ UNCHANGED tried
    /\ Stay /\ UNCHANGED <<n, scriptVars, diskVars>>

TimesOut ==
    /\ pc = "wait"
    /\ script /= "over"
    /\ pc' = IF Current \in ComProvider THEN "cleanup" ELSE "grace"
    /\ Stay /\ UNCHANGED <<n, tried, scriptVars, result, diskVars>>

\* TIMEOUT_CLEANUP_SCRIPT, which has five seconds and may fail at any point: it
\* looks for a process with the id, start time and name of the record, if there
\* is a record by now.
Cleanup ==
    /\ pc = "cleanup"
    /\ pc' = IF record[Current] \in procs THEN "stop" ELSE "grace"
    /\ Stay /\ UNCHANGED <<n, tried, scriptVars, result, diskVars>>

\* Its Stop-Process -Id looks the id up again.
StopProcess ==
    /\ pc = "stop"
    /\ pc' = "grace"
    /\ \E q \in procs : q.pid = record[Current].pid /\ procs' = procs \ {q}
    /\ UNCHANGED <<windows, n, tried, scriptVars, starts, result, diskVars>>

CleanupFails ==
    /\ pc \in {"cleanup", "stop"}
    /\ pc' = "grace"
    /\ Stay /\ UNCHANGED <<n, tried, scriptVars, result, diskVars>>

\* Mutant: nobody is killed, the child is waited for.
GraceWaits ==
    /\ pc = "grace"
    /\ script = "over"
    /\ Settle("failed")
    /\ Stay /\ UNCHANGED <<n, tried, scriptVars, diskVars>>

\* After the grace period the child is killed, before or after it has ended by
\* itself. A killed script does not reach its finally block; the application
\* or the process behind soffice goes on.
Grace ==
    /\ pc = "grace"
    /\ Settle("failed")
    /\ script' = "over"
    /\ \/ /\ script = "export" \/ (script = "open" /\ Current = "libreoffice")
          /\ Working
          /\ survivors' = survivors \cup {n}
          /\ excused' = excused \cup {n}
       \/ UNCHANGED <<survivors, excused>>
    /\ Stay
    /\ UNCHANGED <<n, tried, exit, existing, app, owns, record, workDir, output, piped, opened>>
-----------------------------------------------------------------------------
(* office_to_pdf_with_converter, after the converter *)

\* Nothing of the last attempt is left: its process and its pipes are gone, its
\* record files were in the work directory.
NoAttempt ==
    /\ tried' = 1 /\ exit' = 0
    /\ Fresh
    /\ record' = [p \in ComProvider |-> None]

\* validate_pdf once more, and the removal of the work directory.
Validate ==
    /\ pc = "validate"
    /\ \/ /\ workDir' = workDir \ {n}
          /\ result' = [result EXCEPT ![n] = IF IsPdf(output[n]) THEN @ ELSE "failed"]
          /\ UNCHANGED excused
       \/ /\ result' = [result EXCEPT ![n] = "failed"]
          /\ excused' = excused \cup {n}
          /\ UNCHANGED workDir
    /\ pc' = "report"
    /\ Stay /\ UNCHANGED <<n, tried, scriptVars, output, survivors, piped, opened>>

\* Mutant: only a conversion that failed early removes what was written.
ReportKeepsOutput ==
    /\ pc = "report"
    /\ pc' = "idle"
    /\ \/ /\ output' = [output EXCEPT ![n] = IF result[n] = "failed" /\ opened = {} THEN "none" ELSE @]
          /\ UNCHANGED excused
       \/ result[n] = "failed" /\ excused' = excused \cup {n} /\ UNCHANGED output
    /\ NoAttempt
    /\ Stay /\ UNCHANGED <<n, script, result, workDir, survivors, opened>>

\* A conversion that fails removes the output; whether it could is not asked.
Report ==
    /\ pc = "report"
    /\ pc' = "idle"
    /\ \/ /\ output' = [output EXCEPT ![n] = IF result[n] = "failed" THEN "none" ELSE @]
          /\ UNCHANGED excused
       \/ result[n] = "failed" /\ excused' = excused \cup {n} /\ UNCHANGED output
    /\ NoAttempt
    /\ Stay /\ UNCHANGED <<n, script, result, workDir, survivors, opened>>
-----------------------------------------------------------------------------
Script == Snapshot \/ Activate \/ Own \/ Identify \/ Secure \/ Open \/ Export \/ Finally
World == UserStarts \/ ProcessEnds \/ SurvivorEnds
Code == Stage \/ NotFound \/ StartFails \/ StartScript \/ StartLibreOffice \/ ChildExits \/ Read \/ TimesOut
            \/ Cleanup \/ StopProcess \/ CleanupFails \/ Grace \/ Validate \/ Report
Next == Prepare \/ Code \/ Script \/ World

Spec == Init /\ [][Next]_vars

\* The agent goes on and its timers fire. Nothing is asked of the script, of
\* Office applications and of what outlives a dead front process of LibreOffice:
\* it may keep the pipe open for ever.
FairSpec == Spec /\ WF_vars(Code)
-----------------------------------------------------------------------------
\* Processes, files and results are of their kinds.
TypeOK ==
    /\ procs \subseteq Process
    /\ existing \subseteq Process
    /\ app \in Process \cup {None}
    /\ record \in [ComProvider -> Process \cup {None}]
    /\ n \in 0..Conversions
    /\ tried \in 1..3
    /\ output \in [Conversion -> Converter \cup {"none", "bad"}]
    /\ result \in [Conversion -> Converter \cup {"none", "failed"}]
    /\ workDir \subseteq Conversion

\* Neither the script's finally block nor the clean-up after a timeout ever ends
\* a process that was running when the script took its snapshot: not when COM
\* activation joins it, and not when ids are used again between
\* GetWindowThreadProcessId and Get-Process, or between the check of the record
\* and Stop-Process, which look the id up twice (windows.rs:77-88, 169-172).
\* docs/technical_en.md:150 says more, "terminates only the Office instance
\* started for that task", and that does not hold: an application that the user
\* started after the snapshot counts as new when COM activation joins it.
SparesExisting ==
    [][ script' /= script \/ pc' /= pc => procs \ procs' \subseteq procs \ existing ]_vars

\* A document is opened by one converter only: after it was opened no failure,
\* timeout or invalid PDF leads to the next one (windows.rs:176).
OpenedOnce == \A c, d \in opened : c = d

\* A conversion that has returned a converter has left the PDF that this
\* converter wrote and nothing else; one that has failed has left nothing,
\* unless a removal failed or a process outlived the kill (office.rs:166-187).
DiskMatchesResult ==
    \A k \in Conversion :
        (k < n \/ (k = n /\ pc = "idle")) /\ k \notin excused =>
            /\ k \notin workDir
            /\ output[k] = IF result[k] \in Converter THEN result[k] ELSE "none"
            /\ k = n /\ result[k] \in Converter => result[k] \in opened

\* Every conversion ends, whatever the script, Office and LibreOffice do, unless
\* it waits for output of a child that is gone, in a pipe that a descendant keeps
\* open: the wait for the child, its clean-up command and its grace period have
\* limits (office.rs:353-384), the two reads have none (office.rs:387-392). So
\* "Each conversion is limited to 120 seconds" (docs/technical_en.md:150) does
\* not hold without the exception.
EndsUnlessPiped == pc /= "idle" ~> (pc = "idle" \/ (pc = "read" /\ piped))
=============================================================================
