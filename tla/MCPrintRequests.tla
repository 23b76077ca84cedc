---------------------------- MODULE MCPrintRequests ----------------------------
(***************************************************************************)
(* PrintRequests for TLC: a client of the local network and a page of this *)
(* machine, three configurations that differ in every field, two printers  *)
(* and requests of every format.                                           *)
(***************************************************************************)
EXTENDS PrintRequests, TLC

CONSTANTS c1, c2, p1, p2

MCIp == c1 :> 5 @@ c2 :> 7
MCOrigin == c1 :> "site" @@ c2 :> "local1"

Label == [w |-> 60004, h |-> 40000]
Sheet == [w |-> 216142, h |-> 279400]

\* Configurations: one for the network, one for this machine, one that is refused.
MCConfigs ==
    { [allowed_ips |-> {[net |-> 4, len |-> 2, cidr |-> TRUE]}, allowed_origins |-> {"site"},
       default_printer |-> p1, default_paper |-> Label, max_copies |-> 1,
       max_file_size |-> 1, max_batch_jobs |-> 1],
      [allowed_ips |-> {[net |-> 0, len |-> 3, cidr |-> TRUE]}, allowed_origins |-> {"site", "local1"},
       default_printer |-> p2, default_paper |-> Sheet, max_copies |-> 2,
       max_file_size |-> 2, max_batch_jobs |-> 2],
      [allowed_ips |-> {[net |-> 0, len |-> 0, cidr |-> TRUE]}, allowed_origins |-> {"site"},
       default_printer |-> None, default_paper |-> None, max_copies |-> 1,
       max_file_size |-> 1, max_batch_jobs |-> 1] }

Blank == [format |-> "png", file_url |-> None, data_base64 |-> None, html |-> None,
          wait_ms |-> None, size |-> 0, printer_name |-> None, paper |-> None, copies |-> None]

File == [Blank EXCEPT !.file_url = "garbled"]
Copies == [Blank EXCEPT !.file_url = "site", !.copies = 2, !.printer_name = p1]
Raw == [Blank EXCEPT !.format = "raw", !.data_base64 = "bytes", !.size = 2]
Page == [Blank EXCEPT !.format = "html", !.file_url = "local1", !.wait_ms = "short"]
Web == [Blank EXCEPT !.format = "html", !.file_url = "site"]
Other == [Blank EXCEPT !.format = "html", !.file_url = "local2", !.paper = Label]
Six == [Blank EXCEPT !.format = "html", !.file_url = "local6"]
Broken == [Blank EXCEPT !.format = "html", !.file_url = "garbled"]
Text == [Blank EXCEPT !.format = "raw_html", !.html = "text", !.size = 1, !.copies = 2]
Office == [Blank EXCEPT !.format = "xlsx", !.file_url = "site"]
Empty == [Blank EXCEPT !.format = "raw", !.data_base64 = "garbled"]

Single(j) == [batch |-> FALSE, jobs |-> <<j>>]
MCRequests ==
    {Single(j) : j \in {File, Copies, Raw, Page, Other, Six, Broken, Text, Empty, Office}}
        \cup {[batch |-> TRUE, jobs |-> <<Page, Web>>], [batch |-> TRUE, jobs |-> <<File, Other>>]}

Ready == [accepting |-> "true", state |-> "3", reasons |-> {"none"}]
Named(n) == [name |-> n, sized |-> FALSE, w |-> 0, h |-> 0, unit |-> "none", custom |-> FALSE]
Custom(w, h, unit) ==
    [name |-> "-", sized |-> TRUE, w |-> w, h |-> h, unit |-> unit, custom |-> TRUE]
MCPrinterStates ==
    { [present |-> FALSE, attributes |-> Absent, choices |-> <<>>],
      [present |-> TRUE, attributes |-> Ready,
       choices |-> <<Named("A4"), Named("Roll"), Custom(0, 0, "mm"), Custom(6000, 9000, "mm"),
                     Custom(851, 1100, "in")>>],
      [present |-> TRUE, attributes |-> [Ready EXCEPT !.reasons = {"offline-report"}],
       choices |-> <<>>],
      [present |-> TRUE, attributes |-> Absent, choices |-> <<>>] }

MCContents ==
    { [head |-> "png", parts |-> {}], [head |-> "jpeg", parts |-> {}],
      [head |-> "pdf", parts |-> {"xl"}], [head |-> Absent, parts |-> {"word", "xl"}] }
=============================================================================
