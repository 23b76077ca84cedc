----------------------------- MODULE PrintBackend -----------------------------
(***************************************************************************)
(* What the print backends make of the answers of lpstat, lpoptions and    *)
(* PowerShell (crates/runtime/src/printing/cups.rs, windows.rs), how a     *)
(* paper becomes the media option of lp or the settings of SumatraPDF      *)
(* (printing/mod.rs), and how a downloaded file is recognised (queue.rs,   *)
(* document.rs, office.rs). The text of the answers is abstracted to the   *)
(* attributes and choices it names. Lengths are integers in thousandths of *)
(* a millimetre; a driver's choice gives hundredths of its unit.           *)
(***************************************************************************)
EXTENDS Integers, Sequences

CONSTANT Absent   \* what an answer or a file does not contain

ASSUME AbsentAssumption == Absent \notin {"pdf", "png", "jpeg", "docx", "xlsx", "pptx"}

reasons_block_submission(reasons) == reasons \cap {"offline", "offline-report", "paused"} /= {}

\* lpoptions -p: the attributes that decide whether a job can be sent.
parse_cups_printer_availability(attributes) ==
    IF \/ attributes.accepting = "false"
       \/ attributes.state = "5"
       \/ reasons_block_submission(attributes.reasons)
    THEN "unavailable"
    ELSE "available"

\* A printer whose attributes cannot be read is not refused.
current_printer_availability(attributes) ==
    IF attributes = Absent THEN "available" ELSE parse_cups_printer_availability(attributes)

\* lpstat -e names the destinations that exist.
parse_lpstat_destinations(printers) == {p \in DOMAIN printers : printers[p].present}

\* Get-Printer | ConvertTo-Json answers with nothing, one object or an array.
GetPrinter(printers) ==
    LET names == {p \in DOMAIN printers : printers[p].present}
    IN  IF names = {} THEN [shape |-> "empty"]
        ELSE IF \E p \in names : names = {p}
             THEN [shape |-> "one", printer |-> CHOOSE p \in names : TRUE]
             ELSE [shape |-> "many", printers |-> names]

parse_printers_json(json) ==
    CASE json.shape = "empty" -> {}
      [] json.shape = "one" -> {json.printer}
      [] json.shape = "many" -> json.printers

list_printers(windows, printers) ==
    IF windows THEN parse_printers_json(GetPrinter(printers))
    ELSE parse_lpstat_destinations(printers)

ensure_printer_exists(windows, printers, name) == name \in list_printers(windows, printers)
-----------------------------------------------------------------------------
Abs(x) == IF x < 0 THEN -x ELSE x

\* To hundredths of a millimetre.
round_mm(v) == ((v + 5) \div 10) * 10

\* A choice of lpoptions -l: a name that may be known, and if it is sized two
\* numbers with or without a unit; custom says that the token begins with
\* "Custom.".
Choice == [name : STRING, sized : BOOLEAN, w : Nat, h : Nat,
           unit : {"mm", "in", "none"}, custom : BOOLEAN]

known_paper_size ==
    [A3 |-> <<297000, 420000>>, A4 |-> <<210000, 297000>>, A5 |-> <<148000, 210000>>,
     A6 |-> <<105000, 148000>>, B4 |-> <<257000, 364000>>, B5 |-> <<182000, 257000>>,
     B6 |-> <<128000, 182000>>, Letter |-> <<215900, 279400>>, Legal |-> <<215900, 355600>>,
     Tabloid |-> <<279400, 431800>>, Ledger |-> <<431800, 279400>>,
     Executive |-> <<184150, 266700>>]

\* Numbers without a unit are inches if both are at most 20.
UsesInches(choice) ==
    choice.unit = "in" \/ (choice.unit = "none" /\ choice.w <= 2000 /\ choice.h <= 2000)
Millimetres(choice, v) == IF UsesInches(choice) THEN v * 254 ELSE v * 10

\* token is what the choice itself says, if it can be passed on to lp.
parse_paper_choice(choice) ==
    LET size == IF choice.name \in DOMAIN known_paper_size THEN known_paper_size[choice.name]
                ELSE <<Millimetres(choice, choice.w), Millimetres(choice, choice.h)>>
    IN  [w |-> round_mm(size[1]), h |-> round_mm(size[2]),
         token |-> IF choice.custom THEN [w |-> size[1], h |-> size[2]] ELSE Absent]

\* Choices that are neither known nor numbers are left out; the others keep
\* their places.
parse_lpoptions_papers(choices) ==
    [i \in {k \in DOMAIN choices : choices[k].name \in DOMAIN known_paper_size \/ choices[k].sized}
        |-> parse_paper_choice(choices[i])]

common_label_papers ==
    LET sizes == <<<<40, 30>>, <<50, 30>>, <<60, 40>>, <<80, 50>>, <<100, 150>>>>
    IN  [i \in DOMAIN sizes |-> [w |-> sizes[i][1] * 1000, h |-> sizes[i][2] * 1000,
                                 token |-> Absent]]
        \o [i \in 1..6 |->
                LET size == known_paper_size[<<"A6", "A5", "A4", "A3", "Letter", "Legal">>[i]]
                IN  [w |-> size[1], h |-> size[2], token |-> Absent]]

\* Windows is not asked for the papers of a printer.
list_papers(windows, choices) ==
    IF windows \/ DOMAIN parse_lpoptions_papers(choices) = {} THEN common_label_papers
    ELSE parse_lpoptions_papers(choices)

\* Mutant: a paper is recognised by its width alone.
MatchesWidth(p, paper) == Abs(p.w - paper.w) < 10

\* Less than a hundredth of a millimetre apart.
Matches(p, paper) == Abs(p.w - paper.w) < 10 /\ Abs(p.h - paper.h) < 10

\* The first paper of the driver that matches, or the request itself.
resolve_paper_for_print(papers, paper) ==
    LET fits == {i \in DOMAIN papers : Matches(papers[i], paper)}
    IN  IF fits = {} THEN [w |-> paper.w, h |-> paper.h, token |-> Absent]
        ELSE papers[CHOOSE i \in fits : \A k \in fits : i <= k]

\* Numbers are written with two decimals at most.
format_mm(v) == ((v + 5) \div 10) * 10

custom_media_option(paper) == [w |-> format_mm(paper.w), h |-> format_mm(paper.h)]

\* A token that begins with "Custom." is passed on as it is; everything else
\* becomes such a token.
cups_media_option(paper) ==
    IF paper.token /= Absent THEN paper.token ELSE custom_media_option(paper)

\* SumatraPDF is told the orientation as well.
sumatra_print_settings(paper) ==
    [w |-> format_mm(paper.w), h |-> format_mm(paper.h),
     orientation |-> IF paper.w > paper.h THEN "landscape"
                     ELSE IF paper.w < paper.h THEN "portrait" ELSE "none"]

PrintSettings(windows, paper) ==
    IF windows THEN sumatra_print_settings(paper) ELSE cups_media_option(paper)
-----------------------------------------------------------------------------
\* A file, by the signature it begins with and the OOXML parts of the archive
\* that it may be as well.
Content == [head : {"pdf", "png", "jpeg", Absent}, parts : SUBSET {"word", "xl", "ppt"}]

detect_format(content) == content.head

detect_office_format(content) ==
    IF "word" \in content.parts THEN "docx"
    ELSE IF "xl" \in content.parts THEN "xlsx"
    ELSE IF "ppt" \in content.parts THEN "pptx" ELSE Absent

office_format_from_supported(format) ==
    IF format \in {"docx", "xlsx", "pptx"} THEN format ELSE Absent

format_matches(expected, actual) ==
    \/ expected = "pdf" /\ actual = "pdf"
    \/ expected \in {"image", "png"} /\ actual = "png"
    \/ expected \in {"image", "jpg", "jpeg"} /\ actual = "jpeg"

\* prepare_printable_pdf up to the conversion; Office files are told by
\* their parts, whatever they begin with.
Printable(expected, content) ==
    IF office_format_from_supported(expected) /= Absent
    THEN detect_office_format(content) = office_format_from_supported(expected)
    ELSE format_matches(expected, detect_format(content))
=============================================================================
