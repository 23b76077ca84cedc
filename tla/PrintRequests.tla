----------------------------- MODULE PrintRequests -----------------------------
(***************************************************************************)
(* A print request from the handshake of its connection to the lp command: *)
(* the checks of address and Origin, the validation of print and           *)
(* print_batch, the resolution of printer, paper and copies by the worker  *)
(* and the look-ups of the CUPS or Windows backend, while configurations   *)
(* are saved again and printers come, stop and go. Every check reads the   *)
(* configuration or the printers of its own moment; the definitions of the *)
(* checks are in Admission and PrintBackend.                               *)
(*                                                                         *)
(* How the queue and the worker are woken is in PrintQueue, rendering,     *)
(* downloads, files and reports are in JobPipeline.                        *)
(***************************************************************************)
EXTENDS Admission, PrintBackend

CONSTANTS Client, Ip, PageOrigin,  \* connections, their addresses and Origins
          Requests,                \* requests a client may send
          Configs,                 \* configurations that may be saved
          MaxSaves,                \* bound: how often one is saved
          PrinterStates,           \* what the system may say of a printer
          Contents                 \* files that may be downloaded

ASSUME RequestsAssumption ==
    /\ Ip \in [Client -> Address]
    /\ PageOrigin \in [Client -> Origin \cup {None}]
    /\ MaxSaves \in Nat
    /\ Contents \subseteq Content
    /\ Requests \subseteq [batch : BOOLEAN, jobs : Seq(Job)]
    /\ Configs \subseteq [allowed_ips : SUBSET Entry, allowed_origins : SUBSET STRING,
                           default_printer : Printer \cup {None}, default_paper : Paper \cup {None},
                           max_copies : Nat, max_file_size : Nat, max_batch_jobs : Nat]
    /\ \A s \in PrinterStates : s.choices \in Seq(Choice)
    /\ None \notin Paper

VARIABLES
    windows,   \* whether the backend is that of Windows
    saved,     \* the configurations so far; the last one is in force
    session,   \* where each connection is
    arrived,   \* history: the configuration each connection arrived under
    opened,    \* history: the one under which it was opened
    request,   \* the request of each connection
    queue,     \* jobs with their connection and local page origin
    job,       \* the job the worker has in hand
    stage,     \* where the worker is
    options,   \* PrintOptions: printer, paper, copies
    media,     \* the media option for lp or the settings for SumatraPDF
    printers,  \* what the system knows
    printed    \* the print commands that were executed

vars == <<windows, saved, session, arrived, opened, request, queue, job, stage, options,
          media, printers, printed>>
sessionVars == <<session, arrived, opened, request>>
workerVars == <<job, stage, options, media, printed>>

config == saved[Len(saved)]
now == Len(saved)

Init ==
    /\ windows \in BOOLEAN
    /\ saved \in {<<Normalized(c)>> : c \in {d \in Configs : Acceptable(d)}}
    /\ session = [c \in Client |-> "closed"]
    /\ arrived = [c \in Client |-> 0]
    /\ opened = [c \in Client |-> 0]
    /\ request = [c \in Client |-> None]
    /\ queue = <<>>
    /\ job = None /\ stage = "idle" /\ options = None /\ media = None
    /\ printers \in [Printer -> PrinterStates]
    /\ printed = {}
-----------------------------------------------------------------------------
SaveConfig(c) ==
    /\ now <= MaxSaves
    /\ Acceptable(c)
    /\ saved' = Append(saved, Normalized(c))
    /\ UNCHANGED <<windows, sessionVars, queue, workerVars, printers>>

PrinterChanges(p) ==
    /\ printers' \in {[printers EXCEPT ![p] = s] : s \in PrinterStates \ {printers[p]}}
    /\ UNCHANGED <<windows, saved, sessionVars, queue, workerVars>>

Arrive(c) ==
    /\ session[c] = "closed"
    /\ session' = [session EXCEPT ![c] = "address"]
    /\ arrived' = [arrived EXCEPT ![c] = now]
    /\ UNCHANGED <<windows, saved, opened, request, queue, workerVars, printers>>

\* ip_whitelist_middleware
CheckAddress(c) ==
    /\ session[c] = "address"
    /\ session' = [session EXCEPT ![c] =
                      IF is_client_ip_allowed(Ip[c], config.allowed_ips) THEN "origin" ELSE "refused"]
    /\ UNCHANGED <<windows, saved, arrived, opened, request, queue, workerVars, printers>>

\* Mutant: a connection without an allowed Origin is opened as well.
OpenAnyOrigin(c) ==
    /\ session[c] = "origin"
    /\ session' = [session EXCEPT ![c] = "open"]
    /\ opened' = [opened EXCEPT ![c] = now]
    /\ UNCHANGED <<windows, saved, arrived, request, queue, workerVars, printers>>

\* ws_handler
CheckOrigin(c) ==
    /\ session[c] = "origin"
    /\ IF is_allowed_origin(PageOrigin[c], config.allowed_origins)
       THEN /\ session' = [session EXCEPT ![c] = "open"]
            /\ opened' = [opened EXCEPT ![c] = now]
       ELSE session' = [session EXCEPT ![c] = "refused"] /\ UNCHANGED opened
    /\ UNCHANGED <<windows, saved, arrived, request, queue, workerVars, printers>>

\* A print_batch of more jobs than allowed is refused at once; the sizes are
\* checked against the configuration as it is read again.
Send(c, r) ==
    /\ session[c] = "open"
    /\ request' = [request EXCEPT ![c] = r]
    /\ session' = [session EXCEPT ![c] =
                      IF r.batch /\ Len(r.jobs) > config.max_batch_jobs THEN "refused" ELSE "validate"]
    /\ UNCHANGED <<windows, saved, arrived, opened, queue, workerVars, printers>>

\* The queue entries of a request; at is a history field, the configuration
\* under which it was admitted.
Entries(c, jobs) ==
    [i \in DOMAIN jobs |->
        [job |-> jobs[i], client |-> c, at |-> now,
         html_local_origin |->
             html_local_origin_for_job(jobs[i], html_local_origin(jobs, PageOrigin[c]))]]

Valid(c, jobs) ==
    /\ \A i \in DOMAIN jobs : validate_for_acceptance(jobs[i], config.max_file_size)
    /\ HtmlOriginMatches(jobs, PageOrigin[c])
    /\ \A i \in DOMAIN jobs : validate_html_source(jobs[i])

Validate(c) ==
    /\ session[c] = "validate"
    /\ session' = [session EXCEPT ![c] = "answered"]
    /\ queue' = IF Valid(c, request[c].jobs) THEN queue \o Entries(c, request[c].jobs) ELSE queue
    /\ UNCHANGED <<windows, saved, arrived, opened, request, workerVars, printers>>
-----------------------------------------------------------------------------
(* process_job_inner *)

Or(field, default) == IF field /= None THEN field ELSE default

resolve_printer_name(j, c) == Or(j.printer_name, c.default_printer)

resolve_print_options(j, c) ==
    [printer |-> resolve_printer_name(j, c),
     paper   |-> IF j.format = "raw" THEN None ELSE Or(j.paper, c.default_paper),
     copies  |-> Or(j.copies, 1)]

\* PrinterNotConfigured, PaperNotConfigured, CopiesOutOfRange
Resolves(j, c) ==
    LET o == resolve_print_options(j, c)
    IN  /\ o.printer /= None
        /\ j.format /= "raw" => o.paper /= None /\ o.copies \in 1..c.max_copies

\* The InvalidMessage errors of the worker: fields its path cannot do without.
Complete(j) ==
    CASE j.format = "raw" -> j.data_base64 \notin {None, "garbled"}
      [] j.format \in FileFormat -> j.file_url /= None
      [] j.format = "html" -> j.file_url /= None /\ validate_html_file_url(j.file_url)
      [] j.format = "raw_html" -> j.html /= None

\* Options come from the configuration of this moment; the data of a raw job
\* are measured again.
Take ==
    /\ stage = "idle"
    /\ queue /= <<>>
    /\ queue' = Tail(queue)
    /\ LET j == Head(queue).job
       IN  IF /\ Resolves(j, config)
              /\ Complete(j)
              /\ j.format = "raw" => j.size <= config.max_file_size
           THEN /\ job' = Head(queue)
                /\ options' = resolve_print_options(j, config)
                /\ stage' = IF j.format \in FileFormat THEN "download" ELSE "exists"
           ELSE UNCHANGED <<job, options, stage>>
    /\ UNCHANGED <<windows, saved, sessionVars, media, printed, printers>>

Fail == stage' = "idle" /\ job' = None /\ options' = None /\ media' = None

\* download_to_temp and prepare_printable_pdf; either may fail.
Prepare ==
    /\ stage = "download"
    /\ \/ /\ \E content \in Contents : Printable(job.job.format, content)
          /\ stage' = "exists"
          /\ UNCHANGED <<job, options, media>>
       \/ Fail
    /\ UNCHANGED <<windows, saved, sessionVars, queue, printed, printers>>

\* ensure_printer_exists; the list may fail as well. Windows does not look at
\* the state of the printer.
FindPrinter ==
    /\ stage = "exists"
    /\ \/ /\ ensure_printer_exists(windows, printers, options.printer)
          /\ stage' = IF windows THEN "paper" ELSE "available"
          /\ UNCHANGED <<job, options, media>>
       \/ Fail
    /\ UNCHANGED <<windows, saved, sessionVars, queue, printed, printers>>

\* reject_unavailable_printer
CheckAvailability ==
    /\ stage = "available"
    /\ IF current_printer_availability(printers[options.printer].attributes) = "available"
       THEN stage' = "paper" /\ UNCHANGED <<job, options, media>>
       ELSE Fail
    /\ UNCHANGED <<windows, saved, sessionVars, queue, printed, printers>>

\* resolve_print_paper, which looks for the printer again. Raw data have no paper.
ResolvePaper ==
    /\ stage = "paper"
    /\ \/ /\ options.paper = None
          /\ stage' = "lp"
          /\ UNCHANGED <<job, options, media>>
       \/ /\ options.paper /= None
          /\ ensure_printer_exists(windows, printers, options.printer)
          /\ media' = PrintSettings(windows, resolve_paper_for_print(
                          list_papers(windows, printers[options.printer].choices), options.paper))
          /\ stage' = "lp"
          /\ UNCHANGED <<job, options>>
       \/ options.paper /= None /\ Fail
    /\ UNCHANGED <<windows, saved, sessionVars, queue, printed, printers>>

\* Mutant: the default printer is asked for when the document is sent.
LpToCurrentDefault ==
    /\ stage = "lp"
    /\ printed' = printed \cup
           {[entry |-> job, until |-> now, copies |-> options.copies, media |-> media,
             paper |-> options.paper, printer |-> resolve_printer_name(job.job, config)]}
    /\ Fail
    /\ UNCHANGED <<windows, saved, sessionVars, queue, printers>>

\* lp, SumatraPDF or the raw spooler; it fails when the printer is gone, and
\* may fail otherwise.
Lp ==
    /\ stage = "lp"
    /\ \/ /\ printers[options.printer].present
          /\ printed' = printed \cup
               {[entry |-> job, until |-> now, copies |-> options.copies, media |-> media,
                 paper |-> options.paper, printer |-> options.printer]}
       \/ UNCHANGED printed
    /\ Fail
    /\ UNCHANGED <<windows, saved, sessionVars, queue, printers>>
-----------------------------------------------------------------------------
Next ==
    \/ \E c \in Configs : SaveConfig(c)
    \/ \E p \in Printer : PrinterChanges(p)
    \/ \E c \in Client : Arrive(c) \/ CheckAddress(c) \/ CheckOrigin(c) \/ Validate(c)
                            \/ \E r \in Requests : Send(c, r)
    \/ Take \/ Prepare \/ FindPrinter \/ CheckAvailability \/ ResolvePaper \/ Lp

Spec == Init /\ [][Next]_vars
-----------------------------------------------------------------------------
\* What was validated can be processed: no job in the queue lacks a field that
\* the worker's path for it needs, whichever of the formats it has
\* (queue.rs:120, 141, 203).
AcceptedIsComplete == \A i \in DOMAIN queue : Complete(queue[i].job)

\* Printer, paper and copies of a print command are those of one configuration
\* that was in force between the admission of the job and the command, however
\* often it was saved meanwhile: never the printer of one with the paper or
\* the limit of another (queue.rs:107).
PrintedByOneConfig ==
    \A p \in printed : \E i \in p.entry.at..p.until :
        /\ Resolves(p.entry.job, saved[i])
        /\ [printer |-> p.printer, paper |-> p.paper, copies |-> p.copies]
              = resolve_print_options(p.entry.job, saved[i])

\* Whatever papers the driver lists, the sheet that lp or SumatraPDF is asked
\* for, read as the agent reads a driver's sizes, is the one of the job: less
\* than a hundredth of a millimetre apart, and half of one more where a size in
\* inches was rounded (mod.rs:185).
MediaFits ==
    \A p \in printed : p.paper /= None =>
        Abs(p.media.w - p.paper.w) < 15 /\ Abs(p.media.h - p.paper.h) < 15

\* What is queued or printed was sent by a connection whose address and Origin
\* were allowed during its handshake; a job is granted the use of a page of this
\* machine only if the page is its own and has this Origin, whatever else is in its
\* batch, and no page under 127.0.0.1 is queued without this grant
\* (server.rs:137, 503, queue.rs:141). Pages under ::1 are excepted: server.rs:525
\* means to cover them, but host_str() writes the address in brackets and the arm
\* never matches, so that one is queued whatever the Origin of its connection.
SentByAllowedPages ==
    \A e \in {queue[i] : i \in DOMAIN queue} \cup {p.entry : p \in printed} :
        LET handshake == arrived[e.client]..opened[e.client]
        IN  /\ \E i \in handshake : is_client_ip_allowed(Ip[e.client], saved[i].allowed_ips)
            /\ \E i \in handshake : PageOrigin[e.client] \in saved[i].allowed_origins
            /\ e.html_local_origin /= None
                  => e.html_local_origin = e.job.file_url /\ e.job.file_url = PageOrigin[e.client]
            /\ e.job.format = "html" /\ e.job.file_url \in LocalPage \ {"local6"}
                  => e.html_local_origin = e.job.file_url
=============================================================================
