---------------------- MODULE OfficeConversion_proofs ----------------------
(***************************************************************************)
(* For any number of conversions, process ids and starts of Office         *)
(* applications: a document is opened by one converter, no process of the  *)
(* snapshot is ended, and the files agree with the results.                *)
(***************************************************************************)
EXTENDS OfficeConversion, TLAPS

\* The places in office_to_pdf and in the child process, and the variables
\* that TypeOK leaves out.
Typed ==
    /\ TypeOK
    /\ windows \in BOOLEAN /\ owns \in BOOLEAN /\ piped \in BOOLEAN
    /\ pc \in {"idle", "stage", "attempt", "wait", "read", "cleanup", "stop", "grace",
              "validate", "report"}
    /\ script \in {"snapshot", "activate", "own", "identify", "secure", "open", "export", "finally", "over"}
    /\ exit \in {0, 1, 2}
    /\ starts \in 0..MaxStarts
    /\ tried <= Len(Chain)
    /\ opened \subseteq Converter

\* The child runs while the conversion waits for it or ends it; the script and
\* its clean-up run for COM providers only.
ChildRuns ==
    /\ pc # "idle" => n \in Conversion
    /\ pc \in {"idle", "stage", "attempt", "read", "validate", "report"} => script = "over"
    /\ script \in {"snapshot", "activate", "own", "identify", "secure"} => Current \in ComProvider
    /\ pc \in {"cleanup", "stop"} => Current \in ComProvider

\* The exit code 2, which leads to the next converter, means that the document
\* was not opened.
OpenedByCurrent ==
    /\ pc # "idle" => opened \subseteq {Current}
    /\ pc \in {"stage", "attempt"} => opened = {}
    /\ script \in {"snapshot", "activate", "own", "identify", "secure", "open"} => opened = {}
    /\ script = "export" => Current \in opened
    /\ pc \in {"wait", "cleanup", "stop", "grace", "read"} /\ script \in {"finally", "over"} /\ exit = 2
          => opened = {}

\* No two running processes have one id, and start times grow: a process that
\* starts now is in no snapshot taken before.
ProcessIds ==
    /\ \A q, r \in procs : q.pid = r.pid => q = r
    /\ \A q \in procs \cup existing : q.start <= starts

\* An application that the script may quit is not a process of the snapshot that
\* is still running, and no such process has the id in the record. Records
\* belong to providers that were tried.
OwnsNewProcess ==
    /\ script \in {"snapshot", "activate", "own", "identify"} => ~owns
    /\ owns => app \notin existing \cap procs
    /\ tried = 1 => record["wps"] = None
    /\ Current \in ComProvider =>
          /\ pc \in {"idle", "stage", "attempt"} \/ script \in {"snapshot", "activate", "own", "identify"}
                => record[Current] = None
          /\ record[Current] # None => \A q \in existing \cap procs : q.pid # record[Current].pid
          /\ pc = "stop" => record[Current] # None

\* Files of conversions to come do not exist; the output of the current one is
\* what the converter that opened the document has written. What is written
\* later is written by survivors of excused conversions.
DiskFollows ==
    /\ workDir \subseteq 1..n
    /\ survivors \subseteq excused \cap (1..n)
    /\ \A k \in Conversion : k > n => output[k] = "none"
    /\ pc = "stage" => output[n] = "none" /\ n \notin survivors
    /\ pc # "idle" /\ n \notin excused => output[n] \in {"none", "bad"} \cup opened
    /\ pc = "validate" => result[n] \in {"failed", Current}
    /\ pc = "report" /\ n \notin excused =>
          /\ n \notin workDir
          /\ result[n] # "failed" => result[n] \in opened /\ output[n] = result[n]

IInv ==
    /\ Typed
    /\ ChildRuns
    /\ OpenedByCurrent
    /\ OpenedOnce
    /\ ProcessIds
    /\ OwnsNewProcess
    /\ DiskFollows
    /\ DiskMatchesResult

-----------------------------------------------------------------------------
\* The invariant holds before the first conversion.
LEMMA InitHolds == Init => IInv
<1> SUFFICES ASSUME Init PROVE IInv
  OBVIOUS
<1> USE OfficeAssumption DEF Init, Chain, Current, Conversion
<1>1. Typed
  <2>1. tried <= Len(Chain) /\ tried \in 1..3
    OBVIOUS
  <2>2. record \in [ComProvider -> Process \cup {None}]
    OBVIOUS
  <2>3. TypeOK
    BY <2>1, <2>2 DEF TypeOK
  <2>4. windows \in BOOLEAN /\ owns \in BOOLEAN /\ piped \in BOOLEAN
    OBVIOUS
  <2>5. starts \in 0..MaxStarts
    OBVIOUS
  <2> QED BY <2>1, <2>3, <2>4, <2>5 DEF Typed
<1>2. ChildRuns /\ OpenedByCurrent /\ OpenedOnce
  BY DEF ChildRuns, OpenedByCurrent, OpenedOnce
<1>3. ProcessIds /\ OwnsNewProcess
  BY DEF ProcessIds, OwnsNewProcess, ComProvider
<1>4. DiskFollows /\ DiskMatchesResult
  BY DEF DiskFollows, DiskMatchesResult, Converter
<1> QED BY <1>1, <1>2, <1>3, <1>4 DEF IInv

\* The attempt is made with a converter of the chain.
LEMMA CurrentInChain == Typed => Current \in Converter
BY DEF Typed, TypeOK, Chain, Current, Converter, ComProvider

\* Every step keeps the variables in their sets.
LEMMA StepTyped ==
    ASSUME IInv, [Next]_vars
    PROVE  Typed'
<1> USE OfficeAssumption DEF IInv, Conversion, Chain, Current, scriptVars, diskVars, Converter
<1>1. CASE Prepare
  <2>1. n' \in Conversion /\ n' \in 0..Conversions
    BY <1>1 DEF Prepare, Typed, TypeOK
  <2>2. result' \in [Conversion -> Converter \cup {"none", "failed"}]
    BY <1>1, <2>1 DEF Prepare, Typed, TypeOK
  <2>3. workDir' \subseteq Conversion
    BY <1>1, <2>1 DEF Prepare, Typed, TypeOK
  <2> QED BY <1>1, <2>1, <2>2, <2>3 DEF Prepare, Stay, Typed, TypeOK
<1>2. CASE Stage
  BY <1>2 DEF Stage, Stay, Typed, TypeOK
<1>3. CASE NotFound
  BY <1>3 DEF NotFound, Unavailable, Settle, Stay, Typed, TypeOK
<1>4. CASE StartFails
  BY <1>4 DEF StartFails, Settle, Stay, Typed, TypeOK
<1>5. CASE StartScript
  BY <1>5 DEF StartScript, Fresh, Stay, Typed, TypeOK
<1>6. CASE StartLibreOffice
  BY <1>6 DEF StartLibreOffice, Fresh, Stay, Typed, TypeOK
<1>7. CASE ChildExits
  BY <1>7 DEF ChildExits, Stay, Typed, TypeOK
<1>8. CASE Read
  <2>1. Current \in Converter
    BY CurrentInChain
  <2> QED BY <1>8, <2>1 DEF Read, PipesClosed, Unavailable, Settle, Stay, Typed, TypeOK, ChildRuns
<1>9. CASE TimesOut
  BY <1>9 DEF TimesOut, Stay, Typed, TypeOK
<1>10. CASE Cleanup
  BY <1>10 DEF Cleanup, Stay, Typed, TypeOK
<1>11. CASE Grace
  BY <1>11 DEF Grace, Settle, Stay, Typed, TypeOK
<1>12. CASE Validate
  <2>1. \E r \in Converter \cup {"none", "failed"} : result' = [result EXCEPT ![n] = r]
    BY <1>12 DEF Validate, Typed, TypeOK, ChildRuns
  <2>2. result' \in [Conversion -> Converter \cup {"none", "failed"}]
    BY <2>1 DEF Typed, TypeOK
  <2> QED BY <1>12, <2>2 DEF Validate, Stay, Typed, TypeOK
<1>13. CASE Report
  <2>1. \E f \in Converter \cup {"none", "bad"} : output' = [output EXCEPT ![n] = f]
    BY <1>13 DEF Report, Typed, TypeOK, ChildRuns
  <2>2. output' \in [Conversion -> Converter \cup {"none", "bad"}]
    BY <2>1 DEF Typed, TypeOK
  <2>3. record' \in [ComProvider -> Process \cup {None}]
    BY <1>13 DEF Report, NoAttempt
  <2>4. tried' \in 1..3 /\ tried' <= Len(Chain')
    BY <1>13 DEF Report, NoAttempt, Stay, Typed
  <2> QED BY <1>13, <2>2, <2>3, <2>4 DEF Report, NoAttempt, Fresh, Stay, Typed, TypeOK
<1>14. CASE Snapshot
  BY <1>14 DEF Snapshot, Agent, Typed, TypeOK
<1>15. CASE Activate
  <2>1. Current \in ComProvider
    BY <1>15 DEF Activate, ChildRuns
  <2>2. procs' \subseteq Process /\ starts' \in 0..MaxStarts /\ app' \in Process \cup {None}
    <3>1. ASSUME NEW p \in Pids, Begin(p, Current, "script"), app' \in procs' \ procs
          PROVE  procs' \subseteq Process /\ starts' \in 0..MaxStarts /\ app' \in Process
      BY <2>1, <3>1 DEF Begin, Process, Starter, Typed, TypeOK
    <3> QED BY <1>15, <3>1 DEF Activate, Typed, TypeOK
  <2> QED BY <1>15, <2>2 DEF Activate, Agent, Exits, Typed, TypeOK
<1>16. CASE Own
  BY <1>16 DEF Own, Agent, Exits, Typed, TypeOK
<1>17. CASE Secure
  BY <1>17 DEF Secure, Agent, Exits, Typed, TypeOK
<1>18. CASE Open
  <2>1. opened' \subseteq Converter
    BY <1>18, CurrentInChain DEF Open, Typed
  <2> QED BY <1>18, <2>1 DEF Open, Agent, Exits, Typed, TypeOK
<1>19. CASE Export
  <2>1. \/ output' = output
        \/ \E f \in Converter \cup {"bad"} : output' = [output EXCEPT ![n] = f]
    BY <1>19, CurrentInChain DEF Export
  <2>2. output' \in [Conversion -> Converter \cup {"none", "bad"}]
    BY <2>1 DEF Typed, TypeOK
  <2> QED BY <1>19, <2>2 DEF Export, Agent, Exits, Typed, TypeOK
<1>20. CASE Finally
  BY <1>20 DEF Finally, Agent, Typed, TypeOK
<1>21. CASE UserStarts
  <2>1. procs' \subseteq Process /\ starts' \in 0..MaxStarts
    BY <1>21 DEF UserStarts, Begin, Process, Starter, Typed, TypeOK
  <2> QED BY <1>21, <2>1 DEF UserStarts, Agent, Typed, TypeOK
<1>22. CASE ProcessEnds
  BY <1>22 DEF ProcessEnds, Agent, Typed, TypeOK
<1>23. CASE SurvivorEnds
  BY <1>23 DEF SurvivorEnds, Agent, Typed, TypeOK
<1>24. CASE UNCHANGED vars
  BY <1>24 DEF vars, Typed, TypeOK
<1>25. CASE Identify
  <2>1. Current \in ComProvider
    BY <1>25 DEF Identify, ChildRuns
  <2>2. record' \in [ComProvider -> Process \cup {None}]
    BY <1>25, <2>1 DEF Identify, Recorded, Typed, TypeOK
  <2> QED BY <1>25, <2>2 DEF Identify, Recorded, Agent, Exits, Typed, TypeOK
<1>26. CASE StopProcess
  BY <1>26 DEF StopProcess, Typed, TypeOK
<1>27. CASE CleanupFails
  BY <1>27 DEF CleanupFails, Stay, Typed, TypeOK
<1> QED BY <1>1, <1>2, <1>3, <1>4, <1>5, <1>6, <1>7, <1>8, <1>9, <1>10, <1>11, <1>12, <1>13,
          <1>14, <1>15, <1>16, <1>17, <1>18, <1>19, <1>20, <1>21, <1>22, <1>23, <1>24, <1>25, <1>26, <1>27
          DEF Next, Code, Script, World

\* The child is started by the attempt and over when the conversion goes on.
LEMMA StepChildRuns ==
    ASSUME IInv, [Next]_vars
    PROVE  ChildRuns'
<1> USE OfficeAssumption DEF IInv, Conversion, Chain, Current, scriptVars, diskVars, ComProvider
<1>1. CASE Prepare
  BY <1>1 DEF Prepare, Typed, TypeOK, ChildRuns
<1>2. CASE Stage
  BY <1>2 DEF Stage, ChildRuns
<1>3. CASE NotFound
  BY <1>3 DEF NotFound, Unavailable, Settle, ChildRuns
<1>4. CASE StartFails
  BY <1>4 DEF StartFails, Settle, ChildRuns
<1>5. CASE StartScript
  BY <1>5 DEF StartScript, Stay, ChildRuns
<1>6. CASE StartLibreOffice
  BY <1>6 DEF StartLibreOffice, ChildRuns
<1>7. CASE ChildExits
  BY <1>7 DEF ChildExits, ChildRuns
<1>8. CASE Read
  BY <1>8 DEF Read, PipesClosed, Unavailable, Settle, ChildRuns
<1>9. CASE TimesOut
  BY <1>9 DEF TimesOut, Stay, ChildRuns
<1>10. CASE Cleanup
  BY <1>10 DEF Cleanup, Stay, ChildRuns
<1>11. CASE Grace
  BY <1>11 DEF Grace, Settle, ChildRuns
<1>12. CASE Validate
  BY <1>12 DEF Validate, ChildRuns
<1>13. CASE Report
  BY <1>13 DEF Report, ChildRuns
<1>14. CASE Snapshot
  BY <1>14 DEF Snapshot, Agent, ChildRuns
<1>15. CASE Activate
  BY <1>15 DEF Activate, Agent, ChildRuns
<1>16. CASE Own
  BY <1>16 DEF Own, Agent, ChildRuns
<1>17. CASE Secure
  BY <1>17 DEF Secure, Agent, ChildRuns
<1>18. CASE Open
  BY <1>18 DEF Open, Agent, Exits, ChildRuns
<1>19. CASE Export
  BY <1>19 DEF Export, Agent, Exits, ChildRuns
<1>20. CASE Finally
  BY <1>20 DEF Finally, Agent, ChildRuns
<1>21. CASE UserStarts
  BY <1>21 DEF UserStarts, Agent, ChildRuns
<1>22. CASE ProcessEnds
  BY <1>22 DEF ProcessEnds, Agent, ChildRuns
<1>23. CASE SurvivorEnds
  BY <1>23 DEF SurvivorEnds, Agent, ChildRuns
<1>24. CASE UNCHANGED vars
  BY <1>24 DEF vars, ChildRuns
<1>25. CASE Identify
  BY <1>25 DEF Identify, Recorded, Exits, Agent, ChildRuns
<1>26. CASE StopProcess
  BY <1>26 DEF StopProcess, ChildRuns
<1>27. CASE CleanupFails
  BY <1>27 DEF CleanupFails, Stay, ChildRuns
<1> QED BY <1>1, <1>2, <1>3, <1>4, <1>5, <1>6, <1>7, <1>8, <1>9, <1>10, <1>11, <1>12, <1>13,
          <1>14, <1>15, <1>16, <1>17, <1>18, <1>19, <1>20, <1>21, <1>22, <1>23, <1>24, <1>25, <1>26, <1>27
          DEF Next, Code, Script, World

\* The chain goes on to another converter only from places, and with exit codes,
\* at which the document was not opened.
LEMMA StepOpenedByCurrent ==
    ASSUME IInv, [Next]_vars
    PROVE  OpenedByCurrent' /\ OpenedOnce'
<1> USE OfficeAssumption DEF IInv, Conversion, Chain, Current, scriptVars, diskVars
<1>1. CASE Prepare
  BY <1>1 DEF Prepare, ChildRuns, OpenedByCurrent, OpenedOnce
<1>2. CASE Stage
  BY <1>2 DEF Stage, OpenedByCurrent, OpenedOnce
<1>3. CASE NotFound
  BY <1>3 DEF NotFound, OpenedByCurrent, OpenedOnce
<1>4. CASE StartFails
  BY <1>4 DEF StartFails, OpenedByCurrent, OpenedOnce
<1>5. CASE StartScript
  BY <1>5 DEF StartScript, OpenedByCurrent, OpenedOnce
<1>6. CASE StartLibreOffice
  BY <1>6 DEF StartLibreOffice, OpenedByCurrent, OpenedOnce
<1>7. CASE ChildExits
  BY <1>7 DEF ChildExits, Stay, OpenedByCurrent, OpenedOnce
<1>8. CASE Read
  BY <1>8 DEF Read, PipesClosed, Settle, Stay, ChildRuns, OpenedByCurrent, OpenedOnce
<1>9. CASE TimesOut
  BY <1>9 DEF TimesOut, Stay, OpenedByCurrent, OpenedOnce
<1>10. CASE Cleanup
  BY <1>10 DEF Cleanup, Stay, OpenedByCurrent, OpenedOnce
<1>11. CASE Grace
  BY <1>11 DEF Grace, Settle, Stay, OpenedByCurrent, OpenedOnce
<1>12. CASE Validate
  BY <1>12 DEF Validate, Stay, OpenedByCurrent, OpenedOnce
<1>13. CASE Report
  BY <1>13 DEF Report, ChildRuns, OpenedByCurrent, OpenedOnce
<1>14. CASE Snapshot
  BY <1>14 DEF Snapshot, OpenedByCurrent, OpenedOnce
<1>15. CASE Activate
  BY <1>15 DEF Activate, Exits, OpenedByCurrent, OpenedOnce
<1>16. CASE Own
  BY <1>16 DEF Own, Exits, OpenedByCurrent, OpenedOnce
<1>17. CASE Secure
  BY <1>17 DEF Secure, Exits, OpenedByCurrent, OpenedOnce
<1>18. CASE Open
  BY <1>18 DEF Open, Agent, Exits, ChildRuns, OpenedByCurrent, OpenedOnce
<1>19. CASE Export
  BY <1>19 DEF Export, Agent, Exits, OpenedByCurrent, OpenedOnce
<1>20. CASE Finally
  BY <1>20 DEF Finally, Agent, OpenedByCurrent, OpenedOnce
<1>21. CASE UserStarts
  BY <1>21 DEF UserStarts, Agent, OpenedByCurrent, OpenedOnce
<1>22. CASE ProcessEnds
  BY <1>22 DEF ProcessEnds, Agent, OpenedByCurrent, OpenedOnce
<1>23. CASE SurvivorEnds
  BY <1>23 DEF SurvivorEnds, Agent, OpenedByCurrent, OpenedOnce
<1>24. CASE UNCHANGED vars
  BY <1>24 DEF vars, OpenedByCurrent, OpenedOnce
<1>25. CASE Identify
  BY <1>25 DEF Identify, Recorded, Agent, Exits, OpenedByCurrent, OpenedOnce
<1>26. CASE StopProcess
  BY <1>26 DEF StopProcess, OpenedByCurrent, OpenedOnce
<1>27. CASE CleanupFails
  BY <1>27 DEF CleanupFails, Stay, OpenedByCurrent, OpenedOnce
<1> QED BY <1>1, <1>2, <1>3, <1>4, <1>5, <1>6, <1>7, <1>8, <1>9, <1>10, <1>11, <1>12, <1>13,
          <1>14, <1>15, <1>16, <1>17, <1>18, <1>19, <1>20, <1>21, <1>22, <1>23, <1>24, <1>25, <1>26, <1>27
          DEF Next, Code, Script, World

\* A process that starts has an id of its own and is not in the snapshot.
LEMMA BeginIsNew ==
    ASSUME IInv, NEW p, NEW a, NEW who, Begin(p, a, who), UNCHANGED existing
    PROVE  ProcessIds' /\ existing' \cap procs' = existing \cap procs
<1>1. PICK new : /\ procs' = procs \cup {new} /\ starts' = starts + 1
                 /\ new.pid = p /\ new.start = starts + 1
  <2>1. [pid |-> p, start |-> starts + 1, app |-> a, by |-> who].pid = p
    OBVIOUS
  <2>2. [pid |-> p, start |-> starts + 1, app |-> a, by |-> who].start = starts + 1
    OBVIOUS
  <2> QED BY <2>1, <2>2, Zenon DEF Begin
<1>2. starts \in Int /\ \A q \in procs \cup existing : q.start \in Int /\ q.start <= starts
  BY OfficeAssumption DEF IInv, Typed, TypeOK, Process, ProcessIds
<1>3. new \notin existing
  BY <1>1, <1>2
<1>4. \A q \in procs : q.pid # new.pid
  BY <1>1 DEF Begin
<1>5. \A q, r \in procs' : q.pid = r.pid => q = r
  BY <1>1, <1>4 DEF IInv, ProcessIds
<1>6. \A q \in procs' \cup existing' : q.start <= starts'
  BY <1>1, <1>2
<1> QED BY <1>1, <1>3, <1>5, <1>6 DEF ProcessIds

\* Ids stay unique, and snapshots older than what starts later.
LEMMA StepProcessIds ==
    ASSUME IInv, [Next]_vars
    PROVE  ProcessIds'
<1> USE OfficeAssumption DEF IInv
<1>1. CASE Activate
  <2>1. CASE \E p \in Pids : Begin(p, Current, "script")
    BY <1>1, <2>1, BeginIsNew DEF Activate
  <2>2. CASE UNCHANGED <<procs, starts>>
    BY <1>1, <2>2 DEF Activate, ProcessIds
  <2> QED BY <1>1, <2>1, <2>2 DEF Activate
<1>2. CASE UserStarts
  BY <1>2, BeginIsNew DEF UserStarts, scriptVars
<1>3. CASE Snapshot
  BY <1>3 DEF Snapshot, ProcessIds
<1>4. ASSUME procs' \subseteq procs, starts' = starts, existing' \in {existing, {}}
      PROVE  ProcessIds'
  BY <1>4 DEF ProcessIds
<1>5. CASE Prepare \/ Code
  BY <1>4, <1>5 DEF Prepare, Code, Stage, NotFound, StartFails, StartScript, StartLibreOffice, ChildExits,
              Read, TimesOut, Cleanup, StopProcess, CleanupFails, Grace, Validate, Report, Stay,
              NoAttempt, Fresh, scriptVars
<1>6. CASE Own \/ Identify \/ Secure \/ Open \/ Export \/ Finally
  BY <1>4, <1>6 DEF Own, Identify, Secure, Open, Export, Finally
<1>7. CASE ProcessEnds \/ SurvivorEnds
  BY <1>4, <1>7 DEF ProcessEnds, SurvivorEnds, scriptVars
<1>8. CASE UNCHANGED vars
  BY <1>4, <1>8 DEF vars, scriptVars
<1> QED BY <1>1, <1>2, <1>3, <1>5, <1>6, <1>7, <1>8 DEF Next, Script, World

\* The proof of ownership in the script carries over to the record.
LEMMA StepOwnsNewProcess ==
    ASSUME IInv, [Next]_vars
    PROVE  OwnsNewProcess'
<1> USE OfficeAssumption DEF IInv, Conversion, Chain, Current, scriptVars, diskVars, ComProvider
<1>1. CASE Prepare
  BY <1>1 DEF Prepare, Stay, OwnsNewProcess
<1>2. CASE Stage
  BY <1>2 DEF Stage, Stay, OwnsNewProcess
<1>3. CASE NotFound
  BY <1>3 DEF NotFound, Unavailable, Settle, Stay, Typed, TypeOK, OwnsNewProcess
<1>4. CASE StartFails
  BY <1>4 DEF StartFails, Settle, Stay, OwnsNewProcess
<1>5. CASE StartScript
  BY <1>5 DEF StartScript, Fresh, Stay, OwnsNewProcess
<1>6. CASE StartLibreOffice
  BY <1>6 DEF StartLibreOffice, Fresh, Stay, OwnsNewProcess
<1>7. CASE ChildExits
  BY <1>7 DEF ChildExits, Stay, OwnsNewProcess
<1>8. CASE Read
  BY <1>8 DEF Read, PipesClosed, Unavailable, Settle, Stay, Typed, TypeOK, ChildRuns, OwnsNewProcess
<1>9. CASE TimesOut
  BY <1>9 DEF TimesOut, Stay, OwnsNewProcess
<1>10. CASE Cleanup
  BY <1>10 DEF Cleanup, Stay, Typed, TypeOK, OwnsNewProcess
<1>11. CASE Grace
  BY <1>11 DEF Grace, Settle, Stay, OwnsNewProcess
<1>12. CASE Validate
  BY <1>12 DEF Validate, Stay, OwnsNewProcess
<1>13. CASE Report
  BY <1>13 DEF Report, NoAttempt, Fresh, OwnsNewProcess
<1>14. CASE Snapshot
  BY <1>14 DEF Snapshot, Agent, Typed, TypeOK, ChildRuns, OwnsNewProcess
<1>15. CASE Activate
  BY <1>15 DEF Activate, Agent, Exits, ChildRuns, OwnsNewProcess
<1>16. CASE Own
  BY <1>16 DEF Own, Agent, Exits, OwnsNewProcess
<1>17. CASE Secure
  BY <1>17 DEF Secure, Agent, Exits, OwnsNewProcess
<1>18. CASE Open
  BY <1>18 DEF Open, Agent, Exits, OwnsNewProcess
<1>19. CASE Export
  BY <1>19 DEF Export, Agent, Exits, OwnsNewProcess
<1>20. CASE Finally
  BY <1>20 DEF Finally, Agent, OwnsNewProcess
<1>21. CASE UserStarts
  <2>1. existing' \cap procs' = existing \cap procs
    BY <1>21, BeginIsNew DEF UserStarts
  <2> QED BY <1>21, <2>1 DEF UserStarts, Agent, OwnsNewProcess
<1>22. CASE ProcessEnds
  BY <1>22 DEF ProcessEnds, Agent, OwnsNewProcess
<1>23. CASE SurvivorEnds
  BY <1>23 DEF SurvivorEnds, Agent, OwnsNewProcess
<1>24. CASE UNCHANGED vars
  BY <1>24 DEF vars, OwnsNewProcess
<1>25. CASE Identify
  <2>1. Current \in ComProvider /\ Current' = Current
    BY <1>25 DEF Identify, Agent, ChildRuns
  <2>2. ASSUME NEW q \in procs \ existing, HasWindowPid(q), Recorded(q)
        PROVE  OwnsNewProcess'
    <3>1. app \notin existing \cap procs /\ \A r \in existing \cap procs : r.pid # q.pid
      BY <2>2 DEF HasWindowPid, ProcessIds
    <3>2. record'[Current] = q /\ \A p \in ComProvider : p # Current => record'[p] = record[p]
      BY <2>1, <2>2 DEF Recorded, Typed, TypeOK
    <3> QED BY <1>25, <2>1, <2>2, <3>1, <3>2 DEF Identify, Recorded, Agent, ChildRuns, OwnsNewProcess
  <2>3. ASSUME Exits(2), UNCHANGED <<record, owns>>
        PROVE  OwnsNewProcess'
    BY <1>25, <2>3 DEF Identify, Exits, Agent, OwnsNewProcess
  <2> QED BY <1>25, <2>2, <2>3 DEF Identify
<1>26. CASE StopProcess
  BY <1>26 DEF StopProcess, OwnsNewProcess
<1>27. CASE CleanupFails
  BY <1>27 DEF CleanupFails, Stay, OwnsNewProcess
<1> QED BY <1>1, <1>2, <1>3, <1>4, <1>5, <1>6, <1>7, <1>8, <1>9, <1>10, <1>11, <1>12, <1>13,
          <1>14, <1>15, <1>16, <1>17, <1>18, <1>19, <1>20, <1>21, <1>22, <1>23, <1>24, <1>25, <1>26, <1>27
          DEF Next, Code, Script, World

\* Each conversion writes and removes its own files, and returns what is there.
LEMMA StepDisk ==
    ASSUME IInv, [Next]_vars
    PROVE  DiskFollows' /\ DiskMatchesResult'
<1> USE OfficeAssumption DEF IInv, Conversion, Chain, Current, scriptVars, diskVars, Converter, ComProvider
<1>1. CASE Prepare
  <2>1. /\ pc = "idle" /\ n' = n + 1 /\ n' \in Conversion
        /\ UNCHANGED <<output, survivors, excused>>
        /\ \A k \in Conversion : k # n' => result'[k] = result[k]
        /\ \/ workDir' = workDir \cup {n'} /\ pc' = "stage"
           \/ workDir' = workDir /\ pc' = "idle" /\ result'[n'] = "failed"
    BY <1>1 DEF Prepare, Typed, TypeOK
  <2>2. /\ workDir' \subseteq 1..n'
        /\ survivors' \subseteq excused' \cap (1..n')
    <3>1. n \in Nat /\ n' = n + 1
      BY <2>1 DEF Typed, TypeOK
    <3>2. 1..n' = (1..n) \cup {n'}
      BY <3>1
    <3> QED BY <2>1, <3>2 DEF DiskFollows
  <2>3. \A k \in Conversion : k >= n' => output'[k] = "none"
    BY <2>1 DEF Typed, TypeOK, DiskFollows
  <2>4. DiskFollows'
    BY <2>1, <2>2, <2>3 DEF Typed, TypeOK, DiskFollows
  <2>5. DiskMatchesResult'
    BY <2>1, <2>3 DEF Typed, TypeOK, DiskFollows, DiskMatchesResult
  <2> QED BY <2>4, <2>5
<1>2. CASE Stage
  BY <1>2 DEF Stage, Stay, Typed, TypeOK, DiskFollows, DiskMatchesResult
<1>3. CASE NotFound
  BY <1>3 DEF NotFound, Unavailable, Settle, Typed, TypeOK, ChildRuns, DiskFollows, DiskMatchesResult
<1>4. CASE StartFails
  BY <1>4 DEF StartFails, Settle, Typed, TypeOK, ChildRuns, DiskFollows, DiskMatchesResult
<1>5. CASE StartScript
  BY <1>5 DEF StartScript, DiskFollows, DiskMatchesResult
<1>6. CASE StartLibreOffice
  BY <1>6 DEF StartLibreOffice, DiskFollows, DiskMatchesResult
<1>7. CASE ChildExits
  BY <1>7 DEF ChildExits, DiskFollows, DiskMatchesResult
<1>8. CASE Read
  BY <1>8 DEF Read, PipesClosed, Unavailable, Settle, Stay, Typed, TypeOK, ChildRuns, DiskFollows, DiskMatchesResult
<1>9. CASE TimesOut
  BY <1>9 DEF TimesOut, DiskFollows, DiskMatchesResult
<1>10. CASE Cleanup
  BY <1>10 DEF Cleanup, Stay, DiskFollows, DiskMatchesResult
<1>11. CASE Grace
  BY <1>11 DEF Grace, Settle, Typed, TypeOK, ChildRuns, DiskFollows, DiskMatchesResult
<1>12. CASE Validate
  <2>1. /\ pc = "validate" /\ pc' = "report" /\ n \in Conversion
        /\ UNCHANGED <<windows, n, tried, output, survivors, opened>>
        /\ \A k \in Conversion : k # n => result'[k] = result[k]
        /\ \/ /\ workDir' = workDir \ {n} /\ excused' = excused
              /\ result'[n] = IF IsPdf(output[n]) THEN result[n] ELSE "failed"
           \/ /\ workDir' = workDir /\ excused' = excused \cup {n}
              /\ result'[n] = "failed"
    BY <1>12 DEF Validate, Stay, Typed, TypeOK, ChildRuns
  <2>2. n \notin excused /\ IsPdf(output[n]) => output[n] = Current /\ Current \in opened
    BY <2>1 DEF IsPdf, Converter, ComProvider, DiskFollows, OpenedByCurrent
  <2>3. DiskFollows'
    BY <2>1, <2>2 DEF Typed, TypeOK, DiskFollows
  <2>4. DiskMatchesResult'
    BY <2>1 DEF Typed, TypeOK, DiskFollows, DiskMatchesResult
  <2> QED BY <2>3, <2>4
<1>13. CASE Report
  BY <1>13 DEF Report, Typed, TypeOK, DiskFollows, DiskMatchesResult
<1>14. CASE Snapshot
  BY <1>14 DEF Snapshot, Agent, DiskFollows, DiskMatchesResult
<1>15. CASE Activate
  BY <1>15 DEF Activate, Agent, DiskFollows, DiskMatchesResult
<1>16. CASE Own
  BY <1>16 DEF Own, Agent, DiskFollows, DiskMatchesResult
<1>17. CASE Secure
  BY <1>17 DEF Secure, Agent, DiskFollows, DiskMatchesResult
<1>18. CASE Open
  BY <1>18 DEF Open, Agent, DiskFollows, DiskMatchesResult
<1>19. CASE Export
  BY <1>19 DEF Export, Agent, Typed, TypeOK, ChildRuns, OpenedByCurrent, DiskFollows, DiskMatchesResult
<1>20. CASE Finally
  BY <1>20 DEF Finally, Agent, DiskFollows, DiskMatchesResult
<1>21. CASE UserStarts
  BY <1>21 DEF UserStarts, Agent, DiskFollows, DiskMatchesResult
<1>22. CASE ProcessEnds
  BY <1>22 DEF ProcessEnds, Agent, DiskFollows, DiskMatchesResult
<1>23. CASE SurvivorEnds
  <2>1. /\ UNCHANGED <<windows, n, pc, tried, result, workDir, opened, excused>>
        /\ survivors' \subseteq survivors
        /\ \A k \in Conversion : k \notin survivors => output'[k] = output[k]
    BY <1>23 DEF SurvivorEnds, Agent, Typed, TypeOK
  <2>2. \A k \in Conversion : k \notin excused \/ k > n \/ (pc = "stage" /\ k = n) => output'[k] = output[k]
    BY <2>1 DEF DiskFollows, Typed, TypeOK
  <2>3. DiskFollows'
    BY <2>1, <2>2 DEF DiskFollows, ChildRuns, Typed, TypeOK
  <2>4. DiskMatchesResult'
    BY <2>1, <2>2 DEF DiskMatchesResult
  <2> QED BY <2>3, <2>4
<1>24. CASE UNCHANGED vars
  BY <1>24 DEF vars, DiskFollows, DiskMatchesResult
<1>25. CASE Identify
  BY <1>25 DEF Identify, Recorded, Agent, DiskFollows, DiskMatchesResult
<1>26. CASE StopProcess
  BY <1>26 DEF StopProcess, DiskFollows, DiskMatchesResult
<1>27. CASE CleanupFails
  BY <1>27 DEF CleanupFails, Stay, DiskFollows, DiskMatchesResult
<1> QED BY <1>1, <1>2, <1>3, <1>4, <1>5, <1>6, <1>7, <1>8, <1>9, <1>10, <1>11, <1>12, <1>13,
          <1>14, <1>15, <1>16, <1>17, <1>18, <1>19, <1>20, <1>21, <1>22, <1>23, <1>24, <1>25, <1>26, <1>27
          DEF Next, Code, Script, World

\* Every step keeps the invariant.
LEMMA StepHolds == IInv /\ [Next]_vars => IInv'
BY StepTyped, StepChildRuns, StepOpenedByCurrent, StepProcessIds, StepOwnsNewProcess, StepDisk DEF IInv

\* The invariant holds in all reachable states, whatever the script, the
\* applications and the person at the machine do.
THEOREM Invariance == Spec => []IInv
<1>1. Init => IInv
  BY InitHolds
<1>2. IInv /\ [Next]_vars => IInv'
  BY StepHolds
<1> QED BY <1>1, <1>2, PTL DEF Spec

\* Processes, files, results and places of conversions are of their kinds.
THEOREM TypeCorrect == Spec => []TypeOK
<1>1. IInv => TypeOK
  BY DEF IInv, Typed
<1> QED BY <1>1, Invariance, PTL

\* A document is opened by one converter only: the fallback of convert in
\* windows.rs never follows an attempt that opened it.
THEOREM OneConverterOpens == Spec => []OpenedOnce
<1>1. IInv => OpenedOnce
  BY DEF IInv
<1> QED BY <1>1, Invariance, PTL

\* office_to_pdf_with_converter leaves the PDF of the converter that it returns,
\* or nothing, unless a removal failed or a process outlived the kill.
THEOREM DiskMatches == Spec => []DiskMatchesResult
<1>1. IInv => DiskMatchesResult
  BY DEF IInv
<1> QED BY <1>1, Invariance, PTL

\* A step of the agent or of the script ends no process of the snapshot.
LEMMA StepSpares ==
    ASSUME IInv, Next, script' # script \/ pc' # pc
    PROVE  procs \ procs' \subseteq procs \ existing
<1>1. CASE Finally
  BY <1>1 DEF Finally, IInv, OwnsNewProcess
<1>2. CASE StopProcess
  <2>1. Current \in ComProvider /\ record[Current] # None
    BY <1>2 DEF StopProcess, IInv, ChildRuns, OwnsNewProcess
  <2>2. \A q \in procs \ procs' : q.pid = record[Current].pid
    BY <1>2 DEF StopProcess
  <2> QED BY <2>1, <2>2 DEF IInv, OwnsNewProcess
<1>3. CASE World
  BY <1>3 DEF World, UserStarts, ProcessEnds, SurvivorEnds, Agent, scriptVars
<1>4. CASE Prepare \/ (Code /\ ~StopProcess)
  BY <1>4 DEF Prepare, Code, Stage, NotFound, StartFails, StartScript, StartLibreOffice,
              ChildExits, Read, TimesOut, Cleanup, CleanupFails, Grace, Validate, Report, Stay
<1>5. CASE Script /\ ~Finally
  BY <1>5 DEF Script, Snapshot, Activate, Own, Identify, Secure, Open, Export, Begin
<1> QED BY <1>1, <1>2, <1>3, <1>4, <1>5 DEF Next

\* Neither the finally block of the script nor the clean-up after a timeout ever
\* ends a process that was running at the snapshot, for any reuse of process ids
\* between the commands of the two scripts.
THEOREM ExistingAreSpared == Spec => SparesExisting
<1>1. IInv /\ [Next]_vars
        => [script' # script \/ pc' # pc => procs \ procs' \subseteq procs \ existing]_vars
  BY StepSpares
<1> QED BY <1>1, Invariance, PTL DEF Spec, SparesExisting
=============================================================================
