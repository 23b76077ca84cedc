------------------------ MODULE PrintRequests_proofs ------------------------
(***************************************************************************)
(* For any connections, addresses, requests, configurations, printers and  *)
(* papers: what is queued was sent by an allowed page and can be           *)
(* processed, and a print command has the options of one configuration and *)
(* the sheet that was asked for.                                           *)
(***************************************************************************)
EXTENDS PrintRequests, SequenceTheorems, WellFoundedInduction, TLAPS

\* Within the distance that MediaFits allows.
Near(x, y) == x \in Int /\ Abs(x - y) < 15

\* A whole number of hundredths of a millimetre.
Rounded(x) == x \in Int /\ \E k \in Int : x = 10 * k

\* A paper as the backends list it: its size is rounded, and its token says the
\* same size before it was rounded.
Listed(p) ==
    /\ Rounded(p.w) /\ Rounded(p.h)
    /\ p.token # Absent =>
          /\ p.token.w \in Int /\ Abs(p.token.w - p.w) <= 5
          /\ p.token.h \in Int /\ Abs(p.token.h - p.h) <= 5

QueueEntry == [job : Job, client : Client, at : Nat, html_local_origin : Origin \cup {None}]
SavedConfig == {Normalized(c) : c \in Configs}

\* The variables are of their kinds, as far as the proofs ask for it.
Typed ==
    /\ windows \in BOOLEAN
    /\ saved \in Seq(SavedConfig) /\ saved # << >>
    /\ session \in [Client -> {"closed", "address", "origin", "open", "validate", "answered", "refused"}]
    /\ arrived \in [Client -> Nat] /\ opened \in [Client -> Nat]
    /\ request \in [Client -> Requests \cup {None}]
    /\ queue \in Seq(QueueEntry)
    /\ stage \in {"idle", "download", "exists", "available", "paper", "lp"}
    /\ printers \in [Printer -> PrinterStates]

\* The address of a connection, and its Origin, were allowed by one of these
\* configurations each.
AddressAllowed(c, range, configs) ==
    \E i \in range : is_client_ip_allowed(Ip[c], configs[i].allowed_ips)
OriginAllowed(c, range, configs) == \E i \in range : PageOrigin[c] \in configs[i].allowed_origins

\* What the handshake has checked so far.
HandshakeHolds ==
    \A c \in Client :
        /\ session[c] # "closed" => arrived[c] \in 1..now
        /\ session[c] = "origin" => AddressAllowed(c, arrived[c]..now, saved)
        /\ session[c] \in {"open", "validate", "answered"} =>
              /\ opened[c] \in 1..now
              /\ AddressAllowed(c, arrived[c]..opened[c], saved)
              /\ OriginAllowed(c, arrived[c]..opened[c], saved)
        /\ session[c] = "validate" => request[c] \in Requests

\* A job is granted its own page of this machine only, and a page under 127.0.0.1
\* needs the grant.
OwnPage(e) ==
    /\ e.html_local_origin # None
          => e.html_local_origin = e.job.file_url /\ e.job.file_url = PageOrigin[e.client]
    /\ e.job.format = "html" /\ e.job.file_url \in LocalPage \ {"local6"}
          => e.html_local_origin = e.job.file_url

\* What validation grants an entry of the queue, and where it comes from.
Validated(e) == e \in QueueEntry /\ Complete(e.job) /\ OwnPage(e)
Placed(e, ses, len) == ses[e.client] = "answered" /\ e.at \in 1..len

\* The options are those of one of the configurations.
FromOneConfig(j, o, range, configs) ==
    \E i \in range : Resolves(j, configs[i]) /\ o = resolve_print_options(j, configs[i])

MediaFor(m, paper) == paper # None => Near(m.w, paper.w) /\ Near(m.h, paper.h)

QueueHolds == \A i \in DOMAIN queue : Validated(queue[i]) /\ Placed(queue[i], session, now)

\* What the worker knows of the job in hand at each stage.
JobHolds ==
    stage # "idle" =>
        /\ Validated(job) /\ Placed(job, session, now)
        /\ FromOneConfig(job.job, options, job.at..now, saved)
        /\ stage = "lp" => MediaFor(media, options.paper)

PrintedHolds ==
    \A p \in printed : Validated(p.entry) /\ Placed(p.entry, session, now) /\ p.until \in 1..now

IInv ==
    /\ Typed
    /\ HandshakeHolds
    /\ QueueHolds
    /\ JobHolds
    /\ PrintedHolds
    /\ PrintedByOneConfig
    /\ MediaFits
-----------------------------------------------------------------------------
\* round_mm is the nearest hundredth of a millimetre.
LEMMA RoundMm ==
    ASSUME NEW v \in Int
    PROVE  Rounded(round_mm(v)) /\ Abs(v - round_mm(v)) <= 5
<1> DEFINE k == (v + 5) \div 10
<1>1. k \in Int /\ round_mm(v) = k * 10
  BY DEF round_mm
<1>2. 10 * k <= v + 5 /\ v + 5 < 10 * k + 10
  OBVIOUS
<1> QED BY <1>1, <1>2 DEF Rounded, Abs

\* Two decimals change a length by half of a hundredth at most, and one that is
\* rounded already not at all.
LEMMA FormatMm ==
    ASSUME NEW v \in Int
    PROVE  /\ format_mm(v) \in Int /\ Abs(format_mm(v) - v) <= 5
           /\ Rounded(v) => format_mm(v) = v
<1> DEFINE k == (v + 5) \div 10
<1>1. k \in Int /\ format_mm(v) = k * 10
  BY DEF format_mm
<1>2. 10 * k <= v + 5 /\ v + 5 < 10 * k + 10
  OBVIOUS
<1>3. Rounded(v) => format_mm(v) = v
  BY <1>1, <1>2 DEF Rounded
<1> QED BY <1>1, <1>2, <1>3 DEF Abs

\* What parse_paper_choice makes of a choice, known by name or by its numbers.
LEMMA ChoiceListed ==
    ASSUME NEW choice \in Choice
    PROVE  Listed(parse_paper_choice(choice))
<1> DEFINE size == IF choice.name \in DOMAIN known_paper_size THEN known_paper_size[choice.name]
                   ELSE <<Millimetres(choice, choice.w), Millimetres(choice, choice.h)>>
           p == parse_paper_choice(choice)
<1>1. size[1] \in Int /\ size[2] \in Int
  <2>1. CASE choice.name \in DOMAIN known_paper_size
    BY <2>1 DEF known_paper_size
  <2>2. CASE choice.name \notin DOMAIN known_paper_size
    BY <2>2 DEF Millimetres, Choice
  <2> QED BY <2>1, <2>2
<1>2. /\ p.w = round_mm(size[1]) /\ p.h = round_mm(size[2])
      /\ p.token # Absent => p.token = [w |-> size[1], h |-> size[2]]
  BY DEF parse_paper_choice
<1> HIDE DEF size, p
<1>3. Rounded(p.w) /\ Abs(size[1] - p.w) <= 5
  BY <1>1, <1>2, RoundMm
<1>4. Rounded(p.h) /\ Abs(size[2] - p.h) <= 5
  BY <1>1, <1>2, RoundMm
<1>5. p.token # Absent => p.token.w = size[1] /\ p.token.h = size[2]
  BY <1>2
<1> QED BY <1>1, <1>3, <1>4, <1>5 DEF Listed, p

\* The papers of common_label_papers.
LEMMA LabelsListed ==
    /\ DOMAIN common_label_papers \subseteq Nat
    /\ \A i \in DOMAIN common_label_papers : Listed(common_label_papers[i])
<1> DEFINE sizes == <<<<40, 30>>, <<50, 30>>, <<60, 40>>, <<80, 50>>, <<100, 150>>>>
           names == <<"A6", "A5", "A4", "A3", "Letter", "Legal">>
           labels == [i \in DOMAIN sizes |-> [w |-> sizes[i][1] * 1000, h |-> sizes[i][2] * 1000,
                                              token |-> Absent]]
           sheets == [i \in 1..6 |-> [w |-> known_paper_size[names[i]][1],
                                      h |-> known_paper_size[names[i]][2], token |-> Absent]]
           S == {[w |-> 10 * x, h |-> 10 * y, token |-> Absent] : x, y \in Int}
<1>1. common_label_papers = labels \o sheets
  BY DEF common_label_papers
<1>2. DOMAIN sizes = 1..5 /\ \A i \in 1..5 : sizes[i][1] \in Int /\ sizes[i][2] \in Int
  OBVIOUS
<1>3. \A i \in 1..6 : \E x, y \in Int :
         known_paper_size[names[i]][1] = 10 * x /\ known_paper_size[names[i]][2] = 10 * y
  <2>1. /\ known_paper_size["A6"] = <<10 * 10500, 10 * 14800>>
        /\ known_paper_size["A5"] = <<10 * 14800, 10 * 21000>>
        /\ known_paper_size["A4"] = <<10 * 21000, 10 * 29700>>
        /\ known_paper_size["A3"] = <<10 * 29700, 10 * 42000>>
        /\ known_paper_size["Letter"] = <<10 * 21590, 10 * 27940>>
        /\ known_paper_size["Legal"] = <<10 * 21590, 10 * 35560>>
    BY DEF known_paper_size
  <2>2. \A i \in 1..6 : names[i] \in {"A6", "A5", "A4", "A3", "Letter", "Legal"}
    OBVIOUS
  <2> HIDE DEF names
  <2> QED BY <2>1, <2>2
<1> HIDE DEF sizes, names
<1>4. ASSUME NEW i \in 1..5 PROVE labels[i] \in S
  <2>1. \E x, y \in Int : sizes[i][1] * 1000 = 10 * x /\ sizes[i][2] * 1000 = 10 * y
    <3>1. sizes[i][1] \in Int /\ sizes[i][2] \in Int
      BY <1>2
    <3> sizes[i][1] * 100 \in Int /\ sizes[i][2] * 100 \in Int
      BY <3>1
    <3> WITNESS sizes[i][1] * 100 \in Int, sizes[i][2] * 100 \in Int
    <3> QED BY <3>1
  <2> QED BY <1>2, <2>1
<1>5. \A i \in 1..6 : sheets[i] \in S
  BY <1>3
<1> HIDE DEF S
<1>6. labels \in [1..5 -> S] /\ sheets \in [1..6 -> S]
  BY <1>2, <1>4, <1>5
<1>7. labels \in Seq(S) /\ sheets \in Seq(S)
  <2> HIDE DEF labels, sheets
  <2>1. \A n \in Nat : [1..n -> S] \subseteq Seq(S)
    BY SeqDef
  <2>2. [1..5 -> S] \subseteq Seq(S) /\ [1..6 -> S] \subseteq Seq(S)
    BY <2>1
  <2> QED BY <1>6, <2>2
<1> HIDE DEF labels, sheets
<1>8. common_label_papers \in Seq(S)
  BY <1>1, <1>7
<1>9. \A p \in S : Listed(p)
  BY DEF Listed, Rounded, S
<1> QED BY <1>8, <1>9

\* The papers that list_papers returns on either platform.
LEMMA PapersListed ==
    ASSUME NEW win \in BOOLEAN, NEW choices, win \/ choices \in Seq(Choice)
    PROVE  /\ DOMAIN list_papers(win, choices) \subseteq Nat
           /\ \A i \in DOMAIN list_papers(win, choices) : Listed(list_papers(win, choices)[i])
<1> DEFINE parsed == parse_lpoptions_papers(choices)
<1>1. CASE list_papers(win, choices) = common_label_papers
  BY <1>1, LabelsListed
<1>2. CASE ~win /\ list_papers(win, choices) = parsed
  <2>1. choices \in Seq(Choice)
    BY <1>2
  <2>2. DOMAIN parsed \subseteq DOMAIN choices
    BY DEF parse_lpoptions_papers
  <2>3. \A i \in DOMAIN parsed : parsed[i] = parse_paper_choice(choices[i])
    BY DEF parse_lpoptions_papers
  <2>4. \A i \in DOMAIN choices : i \in Nat /\ choices[i] \in Choice
    BY <2>1
  <2> HIDE DEF parsed
  <2>5. \A i \in DOMAIN parsed : Listed(parsed[i])
    BY <2>2, <2>3, <2>4, ChoiceListed
  <2> QED BY <1>2, <2>2, <2>4, <2>5
<1> QED BY <1>1, <1>2 DEF list_papers

\* A set of natural numbers that is not empty has a least element.
LEMMA LeastExists ==
    ASSUME NEW N, N \subseteq Nat, N # {}
    PROVE  \E i \in N : \A k \in N : i <= k
<1> DEFINE R == OpToRel(<, Nat)
<1>1. \E i \in N : \A k \in N : ~(<<k, i>> \in R)
  <2>1. IsWellFoundedOn(R, Nat)
    BY NatLessThanWellFounded
  <2> HIDE DEF R
  <2> QED BY <2>1, WFMin
<1>2. \A i, k \in Nat : ~(<<k, i>> \in R) => i <= k
  <2>1. \A i, k \in Nat : k < i => <<k, i>> \in R
    BY DEF OpToRel
  <2> HIDE DEF R
  <2> QED BY <2>1
<1> HIDE DEF R
<1> QED BY <1>1, <1>2

\* Matching, passing on a token and formatting together stay near the paper that
\* was asked for.
LEMMA SettingsFit ==
    ASSUME NEW win \in BOOLEAN, NEW papers, NEW paper \in Paper,
           DOMAIN papers \subseteq Nat,
           \A i \in DOMAIN papers : Listed(papers[i])
    PROVE  LET sheet == PrintSettings(win, resolve_paper_for_print(papers, paper))
           IN  Near(sheet.w, paper.w) /\ Near(sheet.h, paper.h)
<1> DEFINE fits == {i \in DOMAIN papers : Matches(papers[i], paper)}
           chosen == resolve_paper_for_print(papers, paper)
           sheet == PrintSettings(win, chosen)
<1> SUFFICES Near(sheet.w, paper.w) /\ Near(sheet.h, paper.h)
  OBVIOUS
<1>1. paper.w \in Int /\ paper.h \in Int
  BY DEF Paper
<1>2. CASE fits = {}
  <2>1. chosen = [w |-> paper.w, h |-> paper.h, token |-> Absent]
    BY <1>2 DEF resolve_paper_for_print
  <2>2. chosen.w = paper.w /\ chosen.h = paper.h /\ chosen.token = Absent
    BY <2>1
  <2> HIDE DEF chosen
  <2>3. sheet.w = format_mm(paper.w) /\ sheet.h = format_mm(paper.h)
    BY <2>2 DEF PrintSettings, sumatra_print_settings, cups_media_option, custom_media_option
  <2>4. /\ format_mm(paper.w) \in Int /\ Abs(format_mm(paper.w) - paper.w) <= 5
        /\ format_mm(paper.h) \in Int /\ Abs(format_mm(paper.h) - paper.h) <= 5
    BY <1>1, FormatMm
  <2> HIDE DEF sheet
  <2> QED BY <1>1, <2>3, <2>4 DEF Near, Abs
<1>3. CASE fits # {}
  <2>1. \E i \in fits : chosen = papers[i]
    BY <1>3, LeastExists DEF resolve_paper_for_print
  <2>2. Listed(chosen) /\ Matches(chosen, paper)
    BY <2>1
  <2> HIDE DEF chosen
  <2>3. /\ chosen.w \in Int /\ format_mm(chosen.w) = chosen.w
        /\ chosen.h \in Int /\ format_mm(chosen.h) = chosen.h
    BY <2>2, FormatMm DEF Listed, Rounded
  <2>4. \/ sheet.w = chosen.w /\ sheet.h = chosen.h
        \/ chosen.token # Absent /\ sheet = chosen.token
    BY <2>3 DEF PrintSettings, sumatra_print_settings, cups_media_option, custom_media_option
  <2> HIDE DEF sheet
  <2> QED BY <1>1, <2>2, <2>3, <2>4 DEF Near, Abs, Listed, Matches
<1> QED BY <1>2, <1>3

-----------------------------------------------------------------------------
\* What validate_for_acceptance lets pass has the fields the worker needs.
LEMMA AcceptanceCompletes ==
    ASSUME NEW j \in Job, NEW limit, validate_for_acceptance(j, limit)
    PROVE  Complete(j)
<1> USE NoneAssumption DEF validate_for_acceptance, Complete
<1>1. CASE j.format = "raw"
  BY <1>1 DEF validate_raw, FileFormat
<1>2. CASE j.format \in FileFormat
  BY <1>2 DEF validate_file_job, FileFormat
<1>3. CASE j.format = "html"
  BY <1>3 DEF validate_html_file_job, FileFormat
<1>4. CASE j.format = "raw_html"
  BY <1>4 DEF validate_raw_html, FileFormat
<1>5. j.format \in FileFormat \cup {"raw", "html", "raw_html"}
  BY DEF Job
<1> QED BY <1>1, <1>2, <1>3, <1>4, <1>5

\* The entries of a valid request are complete, and use pages of this machine
\* as the rules of validate_html_local_origin allow.
LEMMA EntriesValidated ==
    ASSUME Typed, NEW c \in Client, NEW jobs \in Seq(Job), Valid(c, jobs)
    PROVE  /\ Entries(c, jobs) \in Seq(QueueEntry)
           /\ \A i \in DOMAIN Entries(c, jobs) :
                 /\ Validated(Entries(c, jobs)[i])
                 /\ Entries(c, jobs)[i].client = c
                 /\ Entries(c, jobs)[i].at = now
<1> DEFINE es == Entries(c, jobs)
           origin == html_local_origin(jobs, PageOrigin[c])
           local == [i \in DOMAIN jobs |-> html_local_origin_for_job(jobs[i], origin)]
<1>1. DOMAIN es = DOMAIN jobs /\ DOMAIN jobs = 1..Len(jobs) /\ Len(jobs) \in Nat
  BY DEF Entries
<1>2. \A i \in DOMAIN jobs : jobs[i] \in Job
  OBVIOUS
<1>3. now \in Nat
  BY DEF Typed, now
<1>4. PageOrigin[c] \in Origin \cup {None} /\ origin \in {None, PageOrigin[c]}
  BY RequestsAssumption DEF html_local_origin
<1>5. ASSUME NEW i \in DOMAIN jobs
      PROVE  local[i] \in {None, origin} /\ (local[i] # None => jobs[i].file_url = origin)
  BY DEF html_local_origin_for_job
<1>6. ASSUME NEW i \in DOMAIN jobs
      PROVE  es[i] = [job |-> jobs[i], client |-> c, at |-> now, html_local_origin |-> local[i]]
  BY DEF Entries
<1> HIDE DEF es, origin, local
<1>7. ASSUME NEW i \in DOMAIN jobs
      PROVE  /\ es[i] \in QueueEntry
             /\ es[i].job = jobs[i] /\ es[i].client = c /\ es[i].at = now
             /\ es[i].html_local_origin = local[i]
  <2>1. es[i] = [job |-> jobs[i], client |-> c, at |-> now, html_local_origin |-> local[i]]
    BY <1>6
  <2>2. local[i] \in Origin \cup {None}
    BY <1>4, <1>5
  <2> QED BY <1>2, <1>3, <2>1, <2>2 DEF QueueEntry
<1>8. es \in Seq(QueueEntry)
  <2>1. es \in [1..Len(jobs) -> QueueEntry]
    BY <1>1, <1>7 DEF es, Entries
  <2> QED BY <1>1, <2>1, SeqDef
<1>9. ASSUME NEW i \in DOMAIN jobs PROVE Complete(jobs[i])
  BY <1>2, AcceptanceCompletes DEF Valid
<1>10. ASSUME NEW i \in DOMAIN jobs PROVE OwnPage(es[i])
  <2>1. es[i].job = jobs[i] /\ es[i].client = c /\ es[i].html_local_origin = local[i]
    BY <1>7
  <2>2. local[i] # None => local[i] = jobs[i].file_url /\ jobs[i].file_url = PageOrigin[c]
    BY <1>4, <1>5
  <2>3. ASSUME jobs[i].format = "html", jobs[i].file_url \in LocalPage \ {"local6"}
        PROVE  local[i] = jobs[i].file_url
    <3>1. jobs[i].file_url \in LoopbackUrls(jobs)
      BY <2>3 DEF LoopbackUrls, LocalPage, is_exact_loopback_url
    <3>2. jobs[i].file_url = PageOrigin[c] /\ origin = PageOrigin[c]
      BY <3>1 DEF Valid, HtmlOriginMatches, origin, html_local_origin
    <3>3. validate_html_file_url(jobs[i].file_url)
      BY <2>3 DEF LocalPage, validate_html_file_url, Origin
    <3> QED BY <3>2, <3>3 DEF local, html_local_origin_for_job
  <2> QED BY <2>1, <2>2, <2>3 DEF OwnPage
<1>11. \A i \in DOMAIN es : Validated(es[i]) /\ es[i].client = c /\ es[i].at = now
  BY <1>1, <1>7, <1>9, <1>10 DEF Validated
<1> QED BY <1>8, <1>11 DEF es

-----------------------------------------------------------------------------
\* The invariant holds when the agent has loaded its configuration.
LEMMA InitHolds == Init => IInv
<1> SUFFICES ASSUME Init PROVE IInv
  OBVIOUS
<1>1. saved \in Seq(SavedConfig) /\ Len(saved) = 1 /\ saved # << >>
  <2>1. PICK c \in Configs : saved = <<Normalized(c)>>
    BY DEF Init
  <2>2. Normalized(c) \in SavedConfig
    BY DEF SavedConfig
  <2> QED BY <2>1, <2>2
<1>2. Typed
  BY <1>1 DEF Init, Typed
<1>3. HandshakeHolds
  BY DEF Init, HandshakeHolds
<1>4. QueueHolds /\ JobHolds /\ PrintedHolds /\ PrintedByOneConfig /\ MediaFits
  BY DEF Init, QueueHolds, JobHolds, PrintedHolds, PrintedByOneConfig, MediaFits
<1> QED BY <1>2, <1>3, <1>4 DEF IInv

\* What one of the configurations allows or yields, it does so among more.
LEMMA MoreConfigs ==
    ASSUME NEW range, NEW wider, range \subseteq wider,
           NEW configs, NEW more, \A i \in range : more[i] = configs[i]
    PROVE  /\ \A c : AddressAllowed(c, range, configs) => AddressAllowed(c, wider, more)
           /\ \A c : OriginAllowed(c, range, configs) => OriginAllowed(c, wider, more)
           /\ \A j, o : FromOneConfig(j, o, range, configs) => FromOneConfig(j, o, wider, more)
<1>1. \A c : AddressAllowed(c, range, configs) => AddressAllowed(c, wider, more)
  BY DEF AddressAllowed
<1>2. \A c : OriginAllowed(c, range, configs) => OriginAllowed(c, wider, more)
  BY DEF OriginAllowed
<1>3. \A j, o : FromOneConfig(j, o, range, configs) => FromOneConfig(j, o, wider, more)
  BY DEF FromOneConfig
<1> QED BY <1>1, <1>2, <1>3

\* A saved configuration is added to the ones that sessions, jobs and prints
\* refer to, and changes none of them.
LEMMA SaveKeeps ==
    ASSUME IInv, NEW c \in Configs, SaveConfig(c)
    PROVE  IInv'
<1> USE DEF IInv
<1>1. /\ saved' \in Seq(SavedConfig) /\ saved' # << >>
      /\ now \in Nat \ {0} /\ now' = now + 1
      /\ \A i \in 1..now : saved'[i] = saved[i]
  BY DEF SaveConfig, Typed, now, SavedConfig
<1>2. UNCHANGED <<windows, session, arrived, opened, request, queue, job, stage, options,
                  media, printers, printed>>
  BY DEF SaveConfig, sessionVars, workerVars
<1>3. Typed'
  BY <1>1, <1>2 DEF Typed
<1>4. HandshakeHolds'
  <2> SUFFICES ASSUME NEW d \in Client
               PROVE  /\ session[d] # "closed" => arrived[d] \in 1..now'
                      /\ session[d] = "origin" => AddressAllowed(d, arrived[d]..now', saved')
                      /\ session[d] \in {"open", "validate", "answered"} =>
                            /\ opened[d] \in 1..now'
                            /\ AddressAllowed(d, arrived[d]..opened[d], saved')
                            /\ OriginAllowed(d, arrived[d]..opened[d], saved')
                      /\ session[d] = "validate" => request[d] \in Requests
    BY <1>2 DEF HandshakeHolds
  <2>1. CASE session[d] = "closed"
    BY <2>1
  <2>2. CASE session[d] # "closed"
    <3>1. arrived[d] \in 1..now
      BY <2>2 DEF HandshakeHolds
    <3>2. /\ arrived[d]..now \subseteq arrived[d]..now'
          /\ \A i \in arrived[d]..now : saved'[i] = saved[i]
      BY <1>1, <3>1
    <3>3. session[d] = "origin" => AddressAllowed(d, arrived[d]..now', saved')
      BY <3>2, MoreConfigs DEF HandshakeHolds
    <3>4. ASSUME session[d] \in {"open", "validate", "answered"}
          PROVE  /\ opened[d] \in 1..now'
                 /\ AddressAllowed(d, arrived[d]..opened[d], saved')
                 /\ OriginAllowed(d, arrived[d]..opened[d], saved')
      <4>1. opened[d] \in 1..now
        BY <3>4 DEF HandshakeHolds
      <4>2. \A i \in arrived[d]..opened[d] : saved'[i] = saved[i]
        BY <1>1, <3>1, <4>1
      <4>3. opened[d] \in 1..now'
        BY <1>1, <4>1
      <4>4. /\ AddressAllowed(d, arrived[d]..opened[d], saved)
            /\ OriginAllowed(d, arrived[d]..opened[d], saved)
        BY <3>4 DEF HandshakeHolds
      <4>5. AddressAllowed(d, arrived[d]..opened[d], saved')
        BY <4>2, <4>4 DEF AddressAllowed
      <4>6. OriginAllowed(d, arrived[d]..opened[d], saved')
        BY <4>2, <4>4 DEF OriginAllowed
      <4> QED BY <4>3, <4>5, <4>6
    <3> QED BY <1>1, <3>1, <3>3, <3>4 DEF HandshakeHolds
  <2> QED BY <2>1, <2>2
<1>5. QueueHolds'
  BY <1>1, <1>2 DEF QueueHolds, Placed
<1>6. JobHolds'
  <2> SUFFICES ASSUME stage # "idle"
               PROVE  /\ Validated(job) /\ Placed(job, session, now')
                      /\ FromOneConfig(job.job, options, job.at..now', saved')
                      /\ stage = "lp" => MediaFor(media, options.paper)
    BY <1>2 DEF JobHolds
  <2>1. job.at \in 1..now
    BY DEF JobHolds, Placed
  <2>2. job.at..now \subseteq job.at..now' /\ \A i \in job.at..now : saved'[i] = saved[i]
    BY <1>1, <2>1
  <2>3. FromOneConfig(job.job, options, job.at..now', saved')
    BY <2>2, MoreConfigs DEF JobHolds
  <2> QED BY <1>1, <2>3 DEF JobHolds, Placed
<1>7. PrintedHolds'
  BY <1>1, <1>2 DEF PrintedHolds, Placed
<1>8. PrintedByOneConfig'
  <2>1. ASSUME NEW p \in printed PROVE \A i \in p.entry.at..p.until : saved'[i] = saved[i]
    <3>1. p.entry.at \in 1..now /\ p.until \in 1..now
      BY DEF PrintedHolds, Placed
    <3> QED BY <1>1, <3>1
  <2> QED BY <1>2, <2>1 DEF PrintedByOneConfig
<1>9. MediaFits'
  BY <1>2 DEF MediaFits
<1> QED BY <1>3, <1>4, <1>5, <1>6, <1>7, <1>8, <1>9

\* The jobs of connections that were answered are not touched by what the
\* others do.
LEMMA JobsKept ==
    ASSUME IInv, UNCHANGED <<saved, queue, workerVars>>,
           \A d \in Client : session[d] = "answered" => session'[d] = "answered"
    PROVE  QueueHolds' /\ JobHolds' /\ PrintedHolds' /\ PrintedByOneConfig' /\ MediaFits'
<1> USE DEF IInv, workerVars
<1>1. now' = now
  BY DEF now
<1>2. ASSUME NEW e, Validated(e), Placed(e, session, now) PROVE Placed(e, session', now')
  <2>1. e.client \in Client
    BY <1>2 DEF Validated, QueueEntry
  <2> QED BY <1>1, <1>2, <2>1 DEF Placed
<1>3. QueueHolds'
  BY <1>2 DEF QueueHolds
<1>4. JobHolds'
  BY <1>1, <1>2 DEF JobHolds
<1>5. PrintedHolds'
  BY <1>1, <1>2 DEF PrintedHolds
<1>6. PrintedByOneConfig' /\ MediaFits'
  BY DEF PrintedByOneConfig, MediaFits
<1> QED BY <1>3, <1>4, <1>5, <1>6

\* The steps of a connection up to its request: only its own place changes, and
\* each check adds what it has seen of the configuration of its moment.
LEMMA ConnectionKeeps ==
    ASSUME IInv, NEW c \in Client,
           Arrive(c) \/ CheckAddress(c) \/ CheckOrigin(c) \/ \E r \in Requests : Send(c, r)
    PROVE  IInv'
<1> USE DEF IInv
<1>1. /\ UNCHANGED <<windows, saved, queue, workerVars, printers>>
      /\ now' = now /\ now \in Nat \ {0}
  BY DEF Arrive, CheckAddress, CheckOrigin, Send, Typed, now
<1>2. \A d \in Client \ {c} : /\ session'[d] = session[d] /\ arrived'[d] = arrived[d]
                              /\ opened'[d] = opened[d] /\ request'[d] = request[d]
  BY DEF Arrive, CheckAddress, CheckOrigin, Send, Typed
<1>3. session[c] # "answered"
  BY DEF Arrive, CheckAddress, CheckOrigin, Send
<1>4. Typed'
  <2>1. CASE Arrive(c)
    BY <1>1, <2>1 DEF Arrive, Typed, workerVars
  <2>2. CASE CheckAddress(c)
    BY <1>1, <2>2 DEF CheckAddress, Typed, workerVars
  <2>3. CASE CheckOrigin(c)
    BY <1>1, <2>3 DEF CheckOrigin, Typed, workerVars
  <2>4. ASSUME NEW r \in Requests, Send(c, r) PROVE Typed'
    BY <1>1, <2>4 DEF Send, Typed, workerVars
  <2> QED BY <2>1, <2>2, <2>3, <2>4
<1>5. HandshakeHolds'
  <2> DEFINE Holds(s, a, o, r) ==
                 /\ s # "closed" => a \in 1..now
                 /\ s = "origin" => AddressAllowed(c, a..now, saved)
                 /\ s \in {"open", "validate", "answered"} =>
                       /\ o \in 1..now
                       /\ AddressAllowed(c, a..o, saved)
                       /\ OriginAllowed(c, a..o, saved)
                 /\ s = "validate" => r \in Requests
  <2>1. Holds(session[c], arrived[c], opened[c], request[c])
    BY DEF HandshakeHolds
  <2>2. Holds(session'[c], arrived'[c], opened'[c], request'[c])
    <3>1. CASE Arrive(c)
      BY <1>1, <3>1 DEF Arrive, Typed
    <3>2. CASE CheckAddress(c)
      <4>1. /\ session[c] = "address" /\ UNCHANGED <<arrived, opened, request>>
            /\ session'[c] \in {"origin", "refused"}
            /\ session'[c] = "origin" => is_client_ip_allowed(Ip[c], saved[now].allowed_ips)
        BY <3>2 DEF CheckAddress, Typed, config, now
      <4>2. arrived[c] \in 1..now /\ now \in arrived[c]..now
        BY <1>1, <2>1, <4>1
      <4> QED BY <4>1, <4>2 DEF AddressAllowed
    <3>3. CASE CheckOrigin(c)
      <4>1. /\ session[c] = "origin" /\ UNCHANGED <<arrived, request>>
            /\ session'[c] \in {"open", "refused"}
            /\ session'[c] = "open" => opened'[c] = now /\ PageOrigin[c] \in saved[now].allowed_origins
        BY <3>3 DEF CheckOrigin, is_allowed_origin, Typed, config, now
      <4>2. arrived[c] \in 1..now /\ now \in arrived[c]..now
        BY <1>1, <2>1, <4>1
      <4> QED BY <1>1, <2>1, <4>1, <4>2 DEF OriginAllowed
    <3>4. ASSUME NEW r \in Requests, Send(c, r)
          PROVE  Holds(session'[c], arrived'[c], opened'[c], request'[c])
      <4>1. /\ session[c] = "open" /\ UNCHANGED <<arrived, opened>>
            /\ session'[c] \in {"refused", "validate"} /\ request'[c] = r
        BY <3>4 DEF Send, Typed
      <4> QED BY <2>1, <4>1
    <3> QED BY <3>1, <3>2, <3>3, <3>4
  <2> QED BY <1>1, <1>2, <2>2 DEF HandshakeHolds
<1>6. \A d \in Client : session[d] = "answered" => session'[d] = "answered"
  BY <1>2, <1>3
<1> QED BY <1>1, <1>4, <1>5, <1>6, JobsKept

\* A request is queued as a whole or not at all, by the connection that is then
\* answered.
LEMMA ValidateKeeps ==
    ASSUME IInv, NEW c \in Client, Validate(c)
    PROVE  IInv'
<1> USE DEF IInv
<1> DEFINE jobs == request[c].jobs
           es == Entries(c, jobs)
<1>1. /\ session[c] = "validate" /\ session' = [session EXCEPT ![c] = "answered"]
      /\ queue' = IF Valid(c, jobs) THEN queue \o es ELSE queue
      /\ UNCHANGED <<windows, saved, arrived, opened, request, workerVars, printers>>
      /\ now' = now /\ now \in Nat \ {0}
  BY DEF Validate, Typed, now
<1>2. jobs \in Seq(Job)
  BY <1>1, RequestsAssumption DEF HandshakeHolds
<1>3. Valid(c, jobs) => /\ es \in Seq(QueueEntry)
                        /\ \A i \in DOMAIN es : Validated(es[i]) /\ es[i].client = c /\ es[i].at = now
  BY <1>2, EntriesValidated
<1> HIDE DEF jobs, es
<1>4. /\ session' \in [Client -> {"closed", "address", "origin", "open", "validate", "answered", "refused"}]
      /\ session'[c] = "answered" /\ \A d \in Client \ {c} : session'[d] = session[d]
  BY <1>1 DEF Typed
<1>5. queue' \in Seq(QueueEntry)
  BY <1>1, <1>3 DEF Typed
<1>6. Typed'
  BY <1>1, <1>4, <1>5 DEF Typed, workerVars
<1>7. HandshakeHolds'
  BY <1>1, <1>4 DEF HandshakeHolds
<1>8. ASSUME NEW e, Validated(e), Placed(e, session, now) PROVE Placed(e, session', now')
  <2>1. e.client \in Client
    BY <1>8 DEF Validated, QueueEntry
  <2> QED BY <1>1, <1>4, <1>8, <2>1 DEF Placed
<1>9. QueueHolds'
  <2>1. CASE ~Valid(c, jobs)
    BY <1>1, <1>8, <2>1 DEF QueueHolds
  <2>2. CASE Valid(c, jobs)
    <3>1. queue' = queue \o es /\ es \in Seq(QueueEntry) /\ queue \in Seq(QueueEntry)
      BY <1>1, <1>3, <2>2 DEF Typed
    <3>2. \A i \in DOMAIN es : Validated(es[i]) /\ Placed(es[i], session', now')
      BY <1>1, <1>3, <1>4, <2>2 DEF Placed
    <3>3. \A i \in DOMAIN queue : Validated(queue[i]) /\ Placed(queue[i], session', now')
      BY <1>8 DEF QueueHolds
    <3>4. \A i \in DOMAIN (queue \o es) :
             \/ i \in DOMAIN queue /\ (queue \o es)[i] = queue[i]
             \/ \E k \in DOMAIN es : (queue \o es)[i] = es[k]
      BY <3>1
    <3> QED BY <3>1, <3>2, <3>3, <3>4 DEF QueueHolds
  <2> QED BY <2>1, <2>2
<1>10. JobHolds'
  BY <1>1, <1>8 DEF JobHolds, workerVars
<1>11. PrintedHolds'
  BY <1>1, <1>8 DEF PrintedHolds, workerVars
<1>12. PrintedByOneConfig' /\ MediaFits'
  BY <1>1 DEF PrintedByOneConfig, MediaFits, workerVars
<1> QED BY <1>6, <1>7, <1>9, <1>10, <1>11, <1>12

\* A step of the worker on the job in hand leaves everything else alone.
LEMMA WorkerSteps ==
    ASSUME IInv, UNCHANGED <<windows, saved, sessionVars, queue, printed, printers>>,
           stage' \in {"idle", "download", "exists", "available", "paper", "lp"},
           JobHolds'
    PROVE  IInv'
<1> USE DEF IInv, sessionVars
<1>1. now' = now
  BY DEF now
<1>2. Typed'
  BY DEF Typed
<1>3. HandshakeHolds' /\ QueueHolds' /\ PrintedHolds'
  BY <1>1 DEF HandshakeHolds, QueueHolds, PrintedHolds
<1>4. PrintedByOneConfig' /\ MediaFits'
  BY DEF PrintedByOneConfig, MediaFits
<1> QED BY <1>2, <1>3, <1>4

\* The options of a job are taken from the configuration of this moment.
LEMMA TakeKeeps ==
    ASSUME IInv, Take
    PROVE  IInv'
<1> USE DEF IInv
<1> DEFINE e == Head(queue)
<1>1. /\ stage = "idle" /\ queue # << >> /\ queue' = Tail(queue)
      /\ UNCHANGED <<windows, saved, session, arrived, opened, request, media, printed, printers>>
      /\ now' = now /\ now \in Nat \ {0}
  BY DEF Take, sessionVars, Typed, now
<1>2. e \in QueueEntry /\ Validated(e) /\ Placed(e, session, now)
  BY <1>1 DEF Typed, QueueHolds
<1>3. /\ Tail(queue) \in Seq(QueueEntry)
      /\ \A i \in DOMAIN Tail(queue) : i + 1 \in DOMAIN queue /\ Tail(queue)[i] = queue[i + 1]
  BY <1>1 DEF Typed
<1>4. QueueHolds'
  BY <1>1, <1>3 DEF QueueHolds
<1>5. HandshakeHolds' /\ PrintedHolds'
  BY <1>1 DEF HandshakeHolds, PrintedHolds
<1>6. PrintedByOneConfig' /\ MediaFits'
  BY <1>1 DEF PrintedByOneConfig, MediaFits
<1>7. \/ /\ Resolves(e.job, config) /\ job' = e
         /\ options' = resolve_print_options(e.job, config)
         /\ stage' = IF e.job.format \in FileFormat THEN "download" ELSE "exists"
      \/ stage' = stage
  BY DEF Take
<1>8. stage' \in {"idle", "download", "exists"}
  BY <1>1, <1>7
<1>9. Typed'
  BY <1>1, <1>3, <1>8 DEF Typed
<1> HIDE DEF e
<1>10. JobHolds'
  <2>1. CASE stage' = "idle"
    BY <2>1 DEF JobHolds
  <2>2. CASE stage' # "idle"
    <3>1. /\ Resolves(e.job, saved[now]) /\ job' = e
          /\ options' = resolve_print_options(e.job, saved[now])
          /\ e.job.format \in FileFormat => stage' = "download"
          /\ stage' # "lp"
      BY <1>1, <1>7, <2>2 DEF config, now
    <3>2. now \in e.at..now
      BY <1>1, <1>2 DEF Placed
    <3>3. FromOneConfig(e.job, options', e.at..now, saved)
      BY <3>1, <3>2 DEF FromOneConfig
    <3> QED BY <1>1, <1>2, <3>1, <3>3 DEF JobHolds
  <2> QED BY <2>1, <2>2
<1> QED BY <1>4, <1>5, <1>6, <1>9, <1>10

\* The look-ups before the print command, and the failures of each.
LEMMA LookUpsKeep ==
    ASSUME IInv, Prepare \/ FindPrinter \/ CheckAvailability
    PROVE  IInv'
<1> USE DEF IInv
<1>1. UNCHANGED <<windows, saved, sessionVars, queue, printed, printers>> /\ now' = now
  BY DEF Prepare, FindPrinter, CheckAvailability, now
<1>2. CASE Fail
  <2>1. stage' = "idle" /\ JobHolds'
    BY <1>2 DEF Fail, JobHolds
  <2> QED BY <1>1, <2>1, WorkerSteps
<1>3. CASE Prepare /\ ~Fail
  <2>1. /\ stage = "download" /\ stage' = "exists" /\ UNCHANGED <<job, options, media>>
    BY <1>3 DEF Prepare
  <2>2. JobHolds'
    BY <1>1, <2>1 DEF JobHolds, sessionVars
  <2> QED BY <1>1, <2>1, <2>2, WorkerSteps
<1>4. CASE (FindPrinter \/ CheckAvailability) /\ ~Fail
  <2>1. /\ stage \in {"exists", "available"} /\ stage' \in {"available", "paper"}
        /\ UNCHANGED <<job, options, media>>
    BY <1>4 DEF FindPrinter, CheckAvailability
  <2>2. JobHolds'
    BY <1>1, <2>1 DEF JobHolds, sessionVars
  <2> QED BY <1>1, <2>1, <2>2, WorkerSteps
<1> QED BY <1>2, <1>3, <1>4

\* The paper of the options is one of the job or of a configuration.
LEMMA OptionsPaper ==
    ASSUME IInv, stage # "idle", options.paper # None
    PROVE  options.paper \in Paper
<1> USE DEF IInv
<1>1. PICK i \in job.at..now : options = resolve_print_options(job.job, saved[i])
  BY DEF JobHolds, FromOneConfig
<1>2. job.job \in Job /\ job.at \in 1..now
  BY DEF JobHolds, Validated, QueueEntry, Placed
<1>3. now \in Nat /\ i \in 1..now
  BY <1>2 DEF Typed, now
<1>4. saved[i] \in SavedConfig
  BY <1>3 DEF Typed, now
<1>5. PICK c \in Configs : saved[i] = Normalized(c)
  BY <1>4 DEF SavedConfig
<1>6. saved[i].default_paper \in Paper \cup {None}
  BY <1>5, RequestsAssumption DEF Normalized
<1>7. job.job.paper \in Paper \cup {None}
  BY <1>2 DEF Job
<1> QED BY <1>1, <1>6, <1>7 DEF resolve_print_options, Or

\* The sheet is looked up among the papers of a printer that exists.
LEMMA ResolvePaperKeeps ==
    ASSUME IInv, ResolvePaper
    PROVE  IInv'
<1> USE DEF IInv
<1>1. /\ UNCHANGED <<windows, saved, sessionVars, queue, printed, printers>> /\ now' = now
      /\ stage = "paper"
  BY DEF ResolvePaper, now
<1>2. CASE Fail
  <2>1. stage' = "idle" /\ JobHolds'
    BY <1>2 DEF Fail, JobHolds
  <2> QED BY <1>1, <2>1, WorkerSteps
<1>3. CASE ~Fail
  <2>1. stage' = "lp" /\ UNCHANGED <<job, options>>
    BY <1>3 DEF ResolvePaper
  <2>2. MediaFor(media', options.paper)
    <3> SUFFICES ASSUME options.paper # None
                 PROVE  Near(media'.w, options.paper.w) /\ Near(media'.h, options.paper.h)
      BY DEF MediaFor
    <3> DEFINE choices == printers[options.printer].choices
               papers == list_papers(windows, choices)
    <3>1. /\ ensure_printer_exists(windows, printers, options.printer)
          /\ media' = PrintSettings(windows, resolve_paper_for_print(papers, options.paper))
      BY <1>3 DEF ResolvePaper
    <3>2. options.paper \in Paper
      BY <1>1, OptionsPaper
    <3>3. windows \/ choices \in Seq(Choice)
      BY <3>1, RequestsAssumption
      DEF ensure_printer_exists, list_printers, parse_lpstat_destinations, Typed
    <3>4. windows \in BOOLEAN
      BY DEF Typed
    <3> HIDE DEF choices
    <3>5. DOMAIN papers \subseteq Nat /\ \A k \in DOMAIN papers : Listed(papers[k])
      BY <3>3, <3>4, PapersListed
    <3> HIDE DEF papers
    <3> QED BY <3>1, <3>2, <3>4, <3>5, SettingsFit
  <2>3. JobHolds'
    BY <1>1, <2>1, <2>2 DEF JobHolds, sessionVars
  <2> QED BY <1>1, <2>1, <2>3, WorkerSteps
<1> QED BY <1>2, <1>3

\* The print command is made of what the worker has in hand.
LEMMA LpKeeps ==
    ASSUME IInv, Lp
    PROVE  IInv'
<1> USE DEF IInv
<1> DEFINE command == [entry |-> job, until |-> now, copies |-> options.copies, media |-> media,
                       paper |-> options.paper, printer |-> options.printer]
<1>1. /\ UNCHANGED <<windows, saved, session, arrived, opened, request, queue, printers>>
      /\ now' = now /\ now \in Nat \ {0} /\ stage = "lp" /\ stage' = "idle"
      /\ printed' \subseteq printed \cup {command}
  BY DEF Lp, Fail, sessionVars, Typed, now
<1>2. /\ command.entry = job /\ command.until = now /\ command.copies = options.copies
      /\ command.media = media /\ command.paper = options.paper
      /\ command.printer = options.printer
  OBVIOUS
<1> HIDE DEF command
<1>3. Typed' /\ HandshakeHolds' /\ QueueHolds' /\ JobHolds'
  BY <1>1 DEF Typed, HandshakeHolds, QueueHolds, JobHolds
<1>4. PrintedHolds'
  BY <1>1, <1>2 DEF PrintedHolds, JobHolds
<1>5. PrintedByOneConfig'
  <2>1. PICK i \in job.at..now :
           Resolves(job.job, saved[i]) /\ options = resolve_print_options(job.job, saved[i])
    BY <1>1 DEF JobHolds, FromOneConfig
  <2>2. [printer |-> options.printer, paper |-> options.paper, copies |-> options.copies] = options
    BY <2>1 DEF resolve_print_options
  <2> QED BY <1>1, <1>2, <2>1, <2>2 DEF PrintedByOneConfig
<1>6. MediaFits'
  BY <1>1, <1>2 DEF MediaFits, JobHolds, MediaFor, Near
<1> QED BY <1>3, <1>4, <1>5, <1>6

\* Every step keeps the invariant.
LEMMA StepHolds == IInv /\ [Next]_vars => IInv'
<1> SUFFICES ASSUME IInv, [Next]_vars PROVE IInv'
  OBVIOUS
<1>1. ASSUME NEW p \in Printer, PrinterChanges(p) PROVE IInv'
  <2>1. printers' \in [Printer -> PrinterStates]
    BY <1>1 DEF PrinterChanges, IInv, Typed
  <2>2. UNCHANGED <<windows, saved, session, arrived, opened, request, queue, job, stage,
                    options, media, printed>> /\ now' = now
    BY <1>1 DEF PrinterChanges, sessionVars, workerVars, now
  <2>3. Typed' /\ HandshakeHolds'
    BY <2>1, <2>2 DEF IInv, Typed, HandshakeHolds
  <2> QED BY <2>2, <2>3, JobsKept DEF IInv, workerVars
<1>2. CASE UNCHANGED vars
  <2>1. UNCHANGED <<windows, saved, session, arrived, opened, request, queue, job, stage,
                    options, media, printers, printed>> /\ now' = now
    BY <1>2 DEF vars, now
  <2>2. Typed' /\ HandshakeHolds'
    BY <2>1 DEF IInv, Typed, HandshakeHolds
  <2> QED BY <2>1, <2>2, JobsKept DEF IInv, workerVars
<1> QED BY <1>1, <1>2, SaveKeeps, ConnectionKeeps, ValidateKeeps, TakeKeeps, LookUpsKeep,
           ResolvePaperKeeps, LpKeeps DEF Next

\* The invariant holds in all reachable states, however often the configuration
\* is saved and whatever becomes of the printers.
THEOREM Invariance == Spec => []IInv
<1>1. Init => IInv
  BY InitHolds
<1>2. IInv /\ [Next]_vars => IInv'
  BY StepHolds
<1> QED BY <1>1, <1>2, PTL DEF Spec

\* What validate_for_acceptance lets into the queue has all the fields that
\* process_job_inner needs.
THEOREM AcceptedAreComplete == Spec => []AcceptedIsComplete
<1>1. IInv => AcceptedIsComplete
  BY DEF IInv, QueueHolds, Validated, AcceptedIsComplete
<1> QED BY <1>1, Invariance, PTL

\* Printer, paper and copies of a print command come from one configuration in
\* force between the admission of the job and the command: resolve_print_options
\* reads it once.
THEOREM OneConfigPrints == Spec => []PrintedByOneConfig
<1>1. IInv => PrintedByOneConfig
  BY DEF IInv
<1> QED BY <1>1, Invariance, PTL

\* For any papers of the driver and any paper of the job, the media option of lp
\* and the settings of SumatraPDF ask for the sheet of the job.
THEOREM SheetFits == Spec => []MediaFits
<1>1. IInv => MediaFits
  BY DEF IInv
<1> QED BY <1>1, Invariance, PTL

\* What is queued or printed passed ip_whitelist_middleware and ws_handler, and
\* uses a page of this machine only as its own.
THEOREM AllowedPagesSend == Spec => []SentByAllowedPages
<1>1. ASSUME IInv PROVE SentByAllowedPages
  <2> SUFFICES ASSUME NEW e \in {queue[i] : i \in DOMAIN queue} \cup {p.entry : p \in printed}
               PROVE  /\ AddressAllowed(e.client, arrived[e.client]..opened[e.client], saved)
                      /\ OriginAllowed(e.client, arrived[e.client]..opened[e.client], saved)
                      /\ OwnPage(e)
    BY DEF SentByAllowedPages, AddressAllowed, OriginAllowed, OwnPage
  <2>1. Validated(e) /\ Placed(e, session, now)
    BY <1>1 DEF IInv, QueueHolds, PrintedHolds
  <2>2. e.client \in Client /\ session[e.client] = "answered" /\ OwnPage(e)
    BY <2>1 DEF Validated, QueueEntry, Placed
  <2> QED BY <1>1, <2>2 DEF IInv, HandshakeHolds
<1> QED BY <1>1, Invariance, PTL
=============================================================================
