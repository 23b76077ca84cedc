------------------------------- MODULE Admission -------------------------------
(***************************************************************************)
(* Who may print what: the address whitelist (core/src/ip_whitelist.rs),   *)
(* the Origin check of the WebSocket handshake and the page origins an     *)
(* HTML job may use (runtime/src/server.rs), the rules for the fields of a *)
(* job (core/src/protocol.rs), and the check of a configuration before it  *)
(* is applied (runtime/src/state.rs). No state: PrintRequests uses these   *)
(* definitions in the order the agent does.                                *)
(***************************************************************************)
EXTENDS Integers, Sequences

CONSTANTS Width,   \* bits of an address
          Printer, \* names of printers
          None     \* an optional field that is absent

ASSUME WidthAssumption == Width \in Nat \ {0}

Address == 0..(2^Width - 1)

\* An entry is written as a network (cidr) or as an address alone.
Entry == {e \in [net : Address, len : 0..Width, cidr : BOOLEAN] : e.cidr \/ e.len = Width}

\* The last address stands for 127.0.0.0/8.
is_loopback(a) == a = 2^Width - 1
RequiredLoopback == [net |-> 2^Width - 1, len |-> Width, cidr |-> FALSE]

\* An address matches an entry if they agree in the first len bits.
entry_matches_client_ip(e, a) == e.net \div 2^(Width - e.len) = a \div 2^(Width - e.len)

is_client_ip_allowed(a, entries) ==
    is_loopback(a) \/ \E e \in entries : entry_matches_client_ip(e, a)

\* Neither the network of every address nor the unspecified address, unless it
\* is written as a network.
validate_allowed_ip_entry(e) == IF e.cidr THEN e.len > 0 ELSE e.net /= 0

normalize_allowed_ips(entries) == entries \cup {RequiredLoopback}

\* An Origin is what a browser sends: scheme, host and port. Two of them are
\* pages of this machine under 127.0.0.1; one is under ::1.
Origin == {"site", "local1", "local2", "local6"}
LocalPage == {"local1", "local2", "local6"}

is_allowed_origin(origin, allowed) == origin /= None /\ origin \in allowed
validate_origin(origin) == origin \in Origin

\* AgentState::save_config: all entries must be valid, then the configuration
\* is normalised.
Acceptable(c) ==
    /\ \A origin \in c.allowed_origins : validate_origin(origin)
    /\ \A e \in c.allowed_ips : validate_allowed_ip_entry(e)
Normalized(c) == [c EXCEPT !.allowed_ips = normalize_allowed_ips(@)]
-----------------------------------------------------------------------------
(* The fields of a job, each told apart as far as the rules do. *)

\* EffectivePaper: lengths in thousandths of a millimetre, of any sign.
Paper == [w : Int, h : Int]

FileFormat == {"pdf", "image", "png", "jpg", "jpeg", "docx", "xlsx", "pptx"}

Job == [format : FileFormat \cup {"raw", "html", "raw_html"},
        file_url : Origin \cup {None, "empty", "garbled"},
        data_base64 : {None, "empty", "garbled", "bytes"},
        html : {None, "blank", "text"},
        wait_ms : {None, "short", "long"},
        size : Nat,    \* bytes that data_base64 or html stand for
        printer_name : Printer \cup {None},
        paper : Paper \cup {None},
        copies : Nat \cup {None}]

ASSUME NoneAssumption ==
    None \notin Origin \cup {"empty", "garbled", "bytes", "blank", "text", "short", "long"}

validate_html_file_url(url) == url \in Origin
validate_non_html_fields(job) == job.html = None /\ job.wait_ms = None
validate_html_wait(job) == job.wait_ms /= "long"

\* Mutant: data are asked for, and not decoded.
AnyRaw(job, max_file_size) ==
    /\ job.file_url = None
    /\ job.paper = None
    /\ job.copies = None
    /\ validate_non_html_fields(job)
    /\ job.data_base64 \notin {None, "empty"}
    /\ job.size <= max_file_size

validate_raw(job, max_file_size) ==
    /\ job.file_url = None
    /\ job.paper = None
    /\ job.copies = None
    /\ validate_non_html_fields(job)
    /\ job.data_base64 = "bytes"
    /\ job.size <= max_file_size

\* The address is looked at by the download only.
validate_file_job(job) ==
    /\ job.file_url \notin {None, "empty"}
    /\ job.data_base64 = None
    /\ validate_non_html_fields(job)

validate_html_file_job(job) ==
    /\ job.file_url \notin {None, "empty"}
    /\ validate_html_file_url(job.file_url)
    /\ job.html = None
    /\ job.data_base64 = None
    /\ validate_html_wait(job)

validate_raw_html(job, max_file_size) ==
    /\ job.file_url = None
    /\ job.data_base64 = None
    /\ job.html = "text"
    /\ job.size <= max_file_size
    /\ validate_html_wait(job)

validate_for_acceptance(job, max_file_size) ==
    CASE job.format = "raw" -> validate_raw(job, max_file_size)
      [] job.format \in FileFormat -> validate_file_job(job)
      [] job.format = "html" -> validate_html_file_job(job)
      [] job.format = "raw_html" -> validate_raw_html(job, max_file_size)
-----------------------------------------------------------------------------
\* host_str() of a page under ::1 is written with brackets, and is not among
\* the two strings that are compared: only 127.0.0.1 counts.
is_exact_loopback_url(url) == url \in {"local1", "local2"}

LoopbackUrls(jobs) ==
    {jobs[i].file_url : i \in {k \in DOMAIN jobs : /\ jobs[k].format = "html"
                                                   /\ is_exact_loopback_url(jobs[k].file_url)}}

\* Pages of this machine are for the page itself: all of a request's must have
\* the Origin of the connection.
HtmlOriginMatches(jobs, origin) ==
    LoopbackUrls(jobs) /= {} =>
        is_exact_loopback_url(origin) /\ LoopbackUrls(jobs) = {origin}

html_local_origin(jobs, origin) == IF LoopbackUrls(jobs) = {} THEN None ELSE origin

\* What the queue keeps of it: only for a job whose own page has this origin.
html_local_origin_for_job(job, origin) ==
    IF validate_html_file_url(job.file_url) /\ job.file_url = origin THEN origin ELSE None

\* The queue's own look at a page's address, whoever submits the job.
validate_html_source(job) == job.format = "html" => validate_html_file_url(job.file_url)
=============================================================================
