----------------------------- MODULE DesktopWindow -----------------------------
(***************************************************************************)
(* The settings window of the desktop application (apps/desktop/src/       *)
(* App.vue) and the agent's configuration behind it. Printing and the list *)
(* of allowed pages are saved as soon as they are edited; port and         *)
(* preferences ("settings") wait for the Save button. Saves take turns     *)
(* with a promise chain, withPersistLock; an import does not. Between any  *)
(* two of their awaits the user may go on editing.                         *)
(*                                                                         *)
(* A save is atomic here and may fail; its steps in the agent, the         *)
(* autostart entry and other processes are in LocalCommands. The agent may *)
(* have no default printer and no default paper yet: loading fills both in *)
(* before the window is shown, without saving them.                        *)
(***************************************************************************)
EXTENDS Naturals, Sequences

CONSTANTS Printer, Paper,    \* default_printer and default_paper, or None
          DefaultPaper,      \* DEFAULT_PAPER
          Origin, Settings,  \* allowed pages; port and preferences
          MaxEdits,          \* bound: clicks and edits of the user
          None

ASSUME WindowAssumption ==
    MaxEdits \in Nat /\ DefaultPaper \in Paper /\ None \notin Printer /\ None \notin Paper

Printing == [printer : Printer \cup {None}, paper : Paper \cup {None}]

Config == [printing : Printing, origins : SUBSET Origin, settings : Settings]

VARIABLES
    window,    \* config: what the window shows
    savedKey,  \* savedSettingsKey
    lock,      \* persistLock: the saves, the first one has its turn
    phase,     \* where that save is, or "loading"
    request,   \* the configuration that was read, sent or answered
    papers,    \* printer changes that wait for the printer's papers
    import,    \* where handleImportConfig is, with the configuration it got
    imports,   \* history: whether an import was ever confirmed
    stored,    \* the agent's configuration
    approved,  \* history: settings that were saved or imported on request
    edits

saveVars == <<lock, phase, request>>
importVars == <<import, imports>>
vars == <<window, savedKey, saveVars, papers, importVars, stored, approved, edits>>

\* The variables are of their kinds, and a save is under way while one waits.
TypeOK ==
    /\ window \in Config /\ stored \in Config
    /\ savedKey \in [printing : Printing, settings : Settings]
    /\ phase \in {"loading", "idle", "read", "base", "send", "ok", "failed"}
    /\ phase \in {"loading", "idle"} <=> lock = <<>>
    /\ request \in Config \cup {None}
    /\ papers \in 0..MaxEdits /\ edits \in 0..MaxEdits

settingsKey(c) == [printing |-> c.printing, settings |-> c.settings]
rememberPrintingSaved(printing) == [savedKey EXCEPT !.printing = printing]
hasUnsavedSettings == settingsKey(window) /= savedKey

\* A paper is filled in where there is none.
normalizeConfig(c) ==
    [c EXCEPT !.printing.paper = IF @ = None THEN DefaultPaper ELSE @]

\* A printer too, if the system has one and can list it; which one is the
\* system's business.
refreshPrinters(c) ==
    {[c EXCEPT !.printing.printer = q] :
        q \in IF c.printing.printer = None THEN Printer \cup {None} ELSE {c.printing.printer}}

NoImport == [at |-> "no", config |-> None]

\* Nothing is shown before the configuration is loaded.
Init ==
    /\ stored \in Config
    /\ window = stored /\ savedKey = settingsKey(stored)
    /\ lock = <<>> /\ phase = "loading" /\ request = None
    /\ papers = 0
    /\ import = NoImport /\ imports = FALSE
    /\ approved = {stored.settings}
    /\ edits = 0

\* What has been filled in is remembered as if it were saved.
loadConfig ==
    /\ phase = "loading"
    /\ phase' = "idle"
    /\ window' \in refreshPrinters(normalizeConfig(stored))
    /\ savedKey' = settingsKey(window')
    /\ UNCHANGED <<lock, request, papers, importVars, stored, approved, edits>>
-----------------------------------------------------------------------------
(* withPersistLock *)

saving == lock /= <<>> /\ Head(lock).kind \in {"printing", "settings"}
savingOrigins == lock /= <<>> /\ Head(lock).kind = "security"

\* The first step of a save that has its turn, on the window w: a save of the
\* settings sends it whole, the others ask the agent for its configuration.
Begin(queue, w) ==
    /\ IF queue = <<>> THEN phase' = "idle" /\ lock' = <<>> /\ request' = None
       ELSE LET save == Head(queue)
            IN  /\ lock' = <<IF save.kind = "printing" THEN [save EXCEPT !.previous = w.printing]
                             ELSE save>> \o Tail(queue)
                /\ phase' = IF save.kind = "settings" THEN "send" ELSE "read"
                /\ request' = IF save.kind = "settings" THEN w ELSE None
    /\ approved' = IF queue /= <<>> /\ Head(queue).kind = "settings"
                   THEN approved \cup {w.settings} ELSE approved

Enqueue(save, w) ==
    IF lock = <<>> THEN Begin(<<save>>, w)
    ELSE lock' = Append(lock, save) /\ UNCHANGED <<phase, request, approved>>

\* The user does something in the window.
Click == phase /= "loading" /\ edits < MaxEdits /\ edits' = edits + 1

\* Papers are saved at once; a printer, when its papers are known.
ChangePaper(v) ==
    /\ Click
    /\ window' = [window EXCEPT !.printing.paper = v]
    /\ Enqueue([kind |-> "printing", previous |-> None], window')
    /\ UNCHANGED <<savedKey, papers, importVars, stored>>

handlePrinterChange(v) ==
    /\ Click
    /\ window' = [window EXCEPT !.printing.printer = v]
    /\ papers' = papers + 1
    /\ UNCHANGED <<savedKey, saveVars, importVars, stored, approved>>

refreshPapers ==
    /\ papers > 0
    /\ papers' = papers - 1
    /\ Enqueue([kind |-> "printing", previous |-> None], window)
    /\ UNCHANGED <<window, savedKey, importVars, stored, edits>>

\* The refresh button looks for a printer again and saves nothing.
RefreshButton ==
    /\ Click
    /\ window' \in refreshPrinters(window)
    /\ UNCHANGED <<savedKey, saveVars, papers, importVars, stored, approved>>

\* setPort, setLanguage, autostart
EditSettings(v) ==
    /\ Click
    /\ window' = [window EXCEPT !.settings = v]
    /\ UNCHANGED <<savedKey, saveVars, papers, importVars, stored, approved>>

\* addOrigin and removeOrigin
EditOrigins(o) ==
    /\ Click
    /\ ~savingOrigins
    /\ window' = [window EXCEPT !.origins = IF o \in @ THEN @ \ {o} ELSE @ \cup {o}]
    /\ Enqueue([kind |-> "security", previous |-> window.origins], window')
    /\ UNCHANGED <<savedKey, papers, importVars, stored>>

SaveSettings ==
    /\ Click
    /\ ~saving /\ hasUnsavedSettings
    /\ Enqueue([kind |-> "settings", previous |-> None], window)
    /\ UNCHANGED <<window, savedKey, papers, importVars, stored>>
-----------------------------------------------------------------------------
(* persistPrinting, persistSecurityChanges, persistConfig *)

\* The agent answers get_config, or fails to.
GetConfig ==
    /\ phase = "read"
    /\ \/ phase' = "base" /\ request' = stored
       \/ phase' = "failed" /\ UNCHANGED request
    /\ UNCHANGED <<window, savedKey, lock, papers, importVars, stored, approved, edits>>

\* Mutant: the whole window is sent.
BuildWholeWindow ==
    /\ phase = "base"
    /\ phase' = "send"
    /\ request' = window
    /\ UNCHANGED <<window, savedKey, lock, papers, importVars, stored, approved, edits>>

\* What is saved at once is taken from the window of this moment.
Build ==
    /\ phase = "base"
    /\ phase' = "send"
    /\ request' = [request EXCEPT !.printing = window.printing, !.origins = window.origins]
    /\ UNCHANGED <<window, savedKey, lock, papers, importVars, stored, approved, edits>>

\* save_config in the agent.
Save ==
    /\ phase = "send"
    /\ \/ phase' = "ok" /\ stored' = request
       \/ phase' = "failed" /\ UNCHANGED stored
    /\ UNCHANGED <<window, savedKey, lock, request, papers, importVars, approved, edits>>

\* Mutant: the settings the window shows are remembered as saved.
AdoptRemembersWindow ==
    /\ phase = "ok"
    /\ Head(lock).kind \in {"printing", "security"}
    /\ LET saved == normalizeConfig(request)
       IN  window' = [window EXCEPT !.printing = saved.printing, !.origins = saved.origins]
    /\ savedKey' = settingsKey(window')
    /\ Begin(Tail(lock), window')
    /\ UNCHANGED <<papers, importVars, stored, edits>>

\* Printing and pages are replaced by the answer, edits since then included.
Adopt ==
    /\ phase = "ok"
    /\ Head(lock).kind \in {"printing", "security"}
    /\ LET saved == normalizeConfig(request)
       IN  /\ window' = [window EXCEPT !.printing = saved.printing, !.origins = saved.origins]
           /\ savedKey' = rememberPrintingSaved(saved.printing)
    /\ Begin(Tail(lock), window')
    /\ UNCHANGED <<papers, importVars, stored, edits>>

AdoptSettings ==
    /\ phase = "ok"
    /\ Head(lock).kind = "settings"
    /\ window' = normalizeConfig(request)
    /\ savedKey' = settingsKey(window')
    /\ Begin(Tail(lock), window')
    /\ UNCHANGED <<papers, importVars, stored, edits>>

\* After a change of the port the application starts again.
Relaunch ==
    /\ phase = "ok"
    /\ Head(lock).kind = "settings"
    /\ phase' = "loading" /\ lock' = <<>> /\ request' = None
    /\ papers' = 0
    /\ import' = NoImport
    /\ UNCHANGED <<window, savedKey, imports, stored, approved, edits>>

\* What a failed save restores: printing as it was when the save began.
Restored(save) ==
    CASE save.kind = "printing" -> [window EXCEPT !.printing = save.previous]
      [] save.kind = "security" -> [window EXCEPT !.origins = save.previous]
      [] save.kind = "settings" -> window

SaveFailed ==
    /\ phase = "failed"
    /\ window' = Restored(Head(lock))
    /\ Begin(Tail(lock), window')
    /\ UNCHANGED <<savedKey, papers, importVars, stored, edits>>
-----------------------------------------------------------------------------
(* handleImportConfig, which does not wait for its turn *)

Import ==
    /\ Click
    /\ import.at = "no"
    /\ import' = [import EXCEPT !.at = "import"]
    /\ imports' = TRUE
    /\ UNCHANGED <<window, savedKey, saveVars, papers, stored, approved>>

\* import_config_file: the agent merges settings and pages of the file.
ImportConfigFile(settings, origins) ==
    /\ import.at = "import"
    /\ stored' = [stored EXCEPT !.settings = settings, !.origins = origins]
    /\ approved' = approved \cup {settings}
    /\ import' = [at |-> "send", config |-> normalizeConfig(stored')]
    /\ UNCHANGED <<window, savedKey, saveVars, papers, imports, edits>>

\* The window saves what it got once more.
SaveImported ==
    /\ import.at = "send"
    /\ stored' = import.config
    /\ import' = [import EXCEPT !.at = "ok"]
    /\ UNCHANGED <<window, savedKey, saveVars, papers, imports, approved, edits>>

AdoptImported ==
    /\ import.at = "ok"
    /\ window' = normalizeConfig(import.config)
    /\ savedKey' = settingsKey(window')
    /\ import' = NoImport
    /\ UNCHANGED <<saveVars, papers, imports, stored, approved, edits>>

ImportFails ==
    /\ import.at \in {"import", "send"}
    /\ import' = NoImport
    /\ UNCHANGED <<window, savedKey, saveVars, papers, imports, stored, approved, edits>>
-----------------------------------------------------------------------------
SaveStep == GetConfig \/ Build \/ Save \/ Adopt \/ AdoptSettings \/ Relaunch \/ SaveFailed

ImportStep ==
    \/ \E s \in Settings, os \in SUBSET Origin : ImportConfigFile(s, os)
    \/ SaveImported \/ AdoptImported \/ ImportFails

User ==
    \/ \E v \in Paper : ChangePaper(v)
    \/ \E v \in Printer : handlePrinterChange(v)
    \/ RefreshButton
    \/ \E v \in Settings : EditSettings(v)
    \/ \E o \in Origin : EditOrigins(o)
    \/ SaveSettings \/ Import

Next == loadConfig \/ User \/ refreshPapers \/ SaveStep \/ ImportStep

Spec == Init /\ [][Next]_vars
-----------------------------------------------------------------------------
\* The agent's port and preferences are values that somebody asked to save or
\* import: the saves that follow an edit of printing or pages, also one that
\* waited while the settings were edited, never carry what is not yet saved
\* (App.vue:638, 861).
OnlySavedSettings == stored.settings \in approved

\* The window has been loaded, all saves have ended, and Save cannot be pressed.
NothingToSave == phase = "idle" /\ papers = 0 /\ ~hasUnsavedSettings

\* When Save cannot be pressed the window shows the agent's port and preferences
\* and the printer and the paper that the agent has, whichever of the saves
\* failed and whatever was edited meanwhile (App.vue:167). What the agent has
\* not got is left open: the printer and the paper that loading fills in
\* (App.vue:326, 591-596) are remembered as saved and not written, although the
\* comment there says "打印改动会立即写入" (changes of printing are written at
\* once). Imports, which do not take turns, are left out.
UnsavedIsKnown ==
    NothingToSave /\ ~imports =>
        /\ window.settings = stored.settings
        /\ stored.printing.printer \in {None, window.printing.printer}
        /\ stored.printing.paper \in {None, window.printing.paper}
=============================================================================
