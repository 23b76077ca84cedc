------------------------ MODULE DesktopWindow_proofs ------------------------
(***************************************************************************)
(* For any values, pages and number of edits: the agent keeps no settings  *)
(* that nobody saved, and the window shows what the agent has when it says *)
(* that there is nothing to save.                                          *)
(***************************************************************************)
EXTENDS DesktopWindow, SequenceTheorems, TLAPS

\* A save in the chain, with what it restores when it fails: printing notes it
\* when its turn comes, pages when they are edited.
QueuedSave ==
    [kind : {"printing"}, previous : Printing \cup {None}]
        \cup [kind : {"security"}, previous : SUBSET Origin]
        \cup [kind : {"settings"}, previous : {None}]

\* What the first save of the chain has noted and holds.
TurnTyped ==
    /\ lock \in Seq(QueuedSave)
    /\ lock # << >> /\ Head(lock).kind = "printing" => Head(lock).previous \in Printing
    /\ phase \in {"base", "send", "ok"} => request \in Config
    /\ phase \in {"read", "base"} => Head(lock).kind # "settings"

ImportTyped ==
    /\ import \in [at : {"no", "import", "send", "ok"}, config : Config \cup {None}]
    /\ import.at \in {"send", "ok"} => import.config \in Config
    /\ imports \in BOOLEAN

\* A configuration that is on its way to the agent has settings that were
\* saved or imported on request.
OnItsWayIsApproved ==
    /\ phase \in {"base", "send", "ok"} => request.settings \in approved
    /\ import.at \in {"send", "ok"} => import.config.settings \in approved

\* The configuration c shows what the agent has: what c has more is a printer or
\* a paper that the agent has not got.
Shows(c) ==
    /\ c.settings = stored.settings
    /\ stored.printing.printer \in {None, c.printing.printer}
    /\ stored.printing.paper \in {None, c.printing.paper}

\* Without imports the window remembers what the agent has, but for the time
\* between the agent's answer to a save and the window's step that follows it.
RemembersStored ==
    ~imports =>
        /\ import.at = "no"
        /\ phase \notin {"loading", "ok"} => Shows(savedKey)
        /\ phase = "ok" => stored = request
        /\ phase = "ok" /\ Head(lock).kind # "settings" => savedKey.settings = stored.settings
        /\ phase \in {"base", "send"} /\ Head(lock).kind # "settings"
               => request.settings = stored.settings

Typed ==
    /\ TypeOK
    /\ papers <= edits
    /\ phase = "loading" => papers = 0 /\ import.at = "no"
    /\ TurnTyped
    /\ ImportTyped

IInv == Typed /\ OnlySavedSettings /\ OnItsWayIsApproved /\ RemembersStored

\* Filling in a paper and a printer keeps what there is.
LEMMA NormalizeKeeps ==
    ASSUME NEW c \in Config
    PROVE  /\ normalizeConfig(c) \in Config
           /\ normalizeConfig(c).settings = c.settings
           /\ normalizeConfig(c).printing.printer = c.printing.printer
           /\ c.printing.paper \in {None, normalizeConfig(c).printing.paper}
BY WindowAssumption DEF normalizeConfig, Config, Printing

LEMMA RefreshKeeps ==
    ASSUME NEW c \in Config, NEW w \in refreshPrinters(c)
    PROVE  /\ w \in Config
           /\ w.settings = c.settings
           /\ w.printing.paper = c.printing.paper
           /\ c.printing.printer \in {None, w.printing.printer}
BY DEF refreshPrinters, Config, Printing

\* What the window remembers of a configuration has its type.
LEMMA KeyTyped ==
    ASSUME NEW c \in Config
    PROVE  /\ settingsKey(c) \in [printing : Printing, settings : Settings]
           /\ settingsKey(c).settings = c.settings
           /\ settingsKey(c).printing = c.printing
BY DEF settingsKey, Config

\* The invariant holds before the window is shown.
LEMMA InitHolds == Init => IInv
<1> SUFFICES ASSUME Init PROVE IInv
  OBVIOUS
<1>1. /\ TypeOK /\ papers <= edits
      /\ phase = "loading" => papers = 0 /\ import.at = "no"
  BY WindowAssumption DEF Init, NoImport, TypeOK, Config, settingsKey
<1>2. TurnTyped
  BY DEF Init, TurnTyped
<1>3. ImportTyped
  BY DEF Init, NoImport, ImportTyped
<1>4. OnlySavedSettings /\ OnItsWayIsApproved /\ RemembersStored
  BY DEF Init, NoImport, OnlySavedSettings, OnItsWayIsApproved, RemembersStored
<1> QED BY <1>1, <1>2, <1>3, <1>4 DEF IInv, Typed

\* Whatever waits, the next save starts from a typed turn: the settings are
\* sent from the window, on request; the others read the agent's first.
LEMMA BeginsTurn ==
    ASSUME NEW queue \in Seq(QueuedSave), NEW w \in Config, Begin(queue, w)
    PROVE  /\ TurnTyped'
           /\ phase' \in {"idle", "read", "send"}
           /\ phase' = "idle" <=> lock' = << >>
           /\ request' \in Config \cup {None}
           /\ phase' = "send" => /\ Head(lock').kind = "settings"
                                 /\ request' = w
                                 /\ w.settings \in approved'
           /\ approved \subseteq approved'
<1>1. CASE queue = << >>
  BY <1>1 DEF Begin, TurnTyped
<1>2. CASE queue # << >>
  <2> DEFINE save == Head(queue)
             turn == IF save.kind = "printing" THEN [save EXCEPT !.previous = w.printing]
                     ELSE save
  <2>1. /\ save \in QueuedSave /\ Tail(queue) \in Seq(QueuedSave)
    BY <1>2, HeadTailProperties
  <2>2. /\ lock' = <<turn>> \o Tail(queue)
        /\ phase' = IF save.kind = "settings" THEN "send" ELSE "read"
        /\ request' = IF save.kind = "settings" THEN w ELSE None
        /\ approved' = IF save.kind = "settings" THEN approved \cup {w.settings} ELSE approved
    BY <1>2 DEF Begin
  <2>3. /\ turn \in QueuedSave
        /\ turn.kind = save.kind
        /\ turn.kind = "printing" => turn.previous \in Printing
    BY <2>1 DEF QueuedSave, Config
  <2> HIDE DEF save, turn
  <2>4. /\ <<turn>> \in Seq(QueuedSave) /\ Len(<<turn>>) = 1 /\ <<turn>>[1] = turn
    BY <2>3
  <2>5. /\ lock' \in Seq(QueuedSave)
        /\ Len(lock') = 1 + Len(Tail(queue))
        /\ lock'[1] = turn
    BY <2>1, <2>2, <2>4, ConcatProperties, LenProperties
  <2>6. lock' # << >> /\ Head(lock') = turn
    BY <2>1, <2>5, LenProperties, EmptySeq
  <2> QED BY <2>2, <2>3, <2>5, <2>6 DEF TurnTyped
<1> QED BY <1>1, <1>2

\* A save that is started from the window takes its turn or waits behind the
\* others, whose turn it leaves alone.
LEMMA EnqueueHolds ==
    ASSUME Typed, OnItsWayIsApproved, RemembersStored, OnlySavedSettings,
           NEW save \in QueuedSave, NEW w \in Config, Enqueue(save, w), phase # "loading",
           UNCHANGED <<savedKey, importVars, stored>>
    PROVE  /\ TurnTyped' /\ phase' \in {"idle", "read", "base", "send", "ok", "failed"}
           /\ phase' = "idle" <=> lock' = << >>
           /\ request' \in Config \cup {None}
           /\ OnlySavedSettings' /\ OnItsWayIsApproved' /\ RemembersStored'
<1>1. CASE lock = << >>
  <2>1. <<save>> \in Seq(QueuedSave) /\ Begin(<<save>>, w)
    BY <1>1 DEF Enqueue
  <2>2. phase = "idle"
    BY <1>1 DEF Typed, TypeOK
  <2> QED BY <2>1, <2>2, BeginsTurn DEF OnlySavedSettings, OnItsWayIsApproved,
             RemembersStored, Shows, importVars
<1>2. CASE lock # << >>
  <2>1. lock' = Append(lock, save) /\ UNCHANGED <<phase, request, approved>>
    BY <1>2 DEF Enqueue
  <2>2. /\ lock \in Seq(QueuedSave) /\ Len(lock) \in Nat /\ Len(lock) # 0
    BY <1>2, EmptySeq, LenProperties DEF Typed, TurnTyped
  <2>3. /\ lock' \in Seq(QueuedSave) /\ Len(lock') = Len(lock) + 1
        /\ lock'[1] = lock[1]
    BY <2>1, <2>2, AppendProperties
  <2>4. lock' # << >> /\ Head(lock') = Head(lock)
    BY <2>2, <2>3
  <2>5. TurnTyped'
    BY <1>2, <2>1, <2>3, <2>4 DEF Typed, TurnTyped
  <2> QED BY <1>2, <2>1, <2>4, <2>5 DEF Typed, TypeOK, OnlySavedSettings, OnItsWayIsApproved,
             RemembersStored, Shows, importVars
<1> QED BY <1>1, <1>2

\* What follows the end of a save: the next one has its turn.
LEMMA TurnPasses ==
    ASSUME IInv, lock # << >>, NEW w \in Config, Begin(Tail(lock), w),
           window' = w, UNCHANGED <<papers, importVars, stored, edits>>,
           savedKey' \in [printing : Printing, settings : Settings],
           ~imports => Shows(savedKey')
    PROVE  IInv'
<1>1. Tail(lock) \in Seq(QueuedSave)
  BY HeadTailProperties DEF IInv, Typed, TurnTyped
<1> HIDE DEF Begin
<1>2. /\ TurnTyped'
      /\ phase' \in {"idle", "read", "send"}
      /\ phase' = "idle" <=> lock' = << >>
      /\ request' \in Config \cup {None}
      /\ phase' = "send" => /\ Head(lock').kind = "settings"
                            /\ request' = w
                            /\ w.settings \in approved'
      /\ approved \subseteq approved'
  BY <1>1, BeginsTurn
<1>3. Typed'
  BY <1>2 DEF IInv, Typed, TypeOK, ImportTyped, importVars
<1>4. OnlySavedSettings' /\ OnItsWayIsApproved' /\ RemembersStored'
  BY <1>2 DEF IInv, OnlySavedSettings, OnItsWayIsApproved, RemembersStored, Shows, importVars
<1> QED BY <1>3, <1>4 DEF IInv

\* What a failed save restores is a configuration.
LEMMA RestoredTyped ==
    ASSUME Typed, lock # << >>
    PROVE  Restored(Head(lock)) \in Config
<1>1. Head(lock) \in QueuedSave /\ window \in Config
  BY HeadTailProperties DEF Typed, TurnTyped, TypeOK
<1>2. Head(lock).kind \in {"printing", "security", "settings"}
  BY <1>1 DEF QueuedSave
<1>3. CASE Head(lock).kind = "printing"
  BY <1>1, <1>3 DEF Restored, Config, Typed, TurnTyped
<1>4. CASE Head(lock).kind = "security"
  <2>1. Head(lock).previous \in SUBSET Origin
    BY <1>1, <1>4 DEF QueuedSave
  <2> QED BY <1>1, <1>4, <2>1 DEF Restored, Config
<1>5. CASE Head(lock).kind = "settings"
  BY <1>1, <1>5 DEF Restored
<1> QED BY <1>2, <1>3, <1>4, <1>5

\* Every step of the user, of a save and of an import preserves the invariant.
LEMMA StepHolds == IInv /\ [Next]_vars => IInv'
<1> SUFFICES ASSUME IInv, [Next]_vars PROVE IInv'
  OBVIOUS
<1> USE WindowAssumption DEF IInv
<1>a. /\ window \in Config /\ stored \in Config
      /\ lock \in Seq(QueuedSave)
  BY DEF Typed, TypeOK, TurnTyped
<1>b. phase \notin {"loading", "idle"} => lock # << >>
  BY DEF Typed, TypeOK
<1>1. ASSUME NEW v \in Paper, ChangePaper(v) PROVE IInv'
  <2>1. /\ window' \in Config
        /\ [kind |-> "printing", previous |-> None] \in QueuedSave
        /\ Enqueue([kind |-> "printing", previous |-> None], window')
        /\ UNCHANGED <<savedKey, papers, importVars, stored>>
        /\ Click /\ phase # "loading"
    BY <1>1, <1>a DEF ChangePaper, Click, Config, Printing, QueuedSave
  <2>2. /\ TurnTyped' /\ phase' \in {"idle", "read", "base", "send", "ok", "failed"}
        /\ phase' = "idle" <=> lock' = << >>
        /\ request' \in Config \cup {None}
        /\ OnlySavedSettings' /\ OnItsWayIsApproved' /\ RemembersStored'
    BY <2>1, EnqueueHolds
  <2> QED BY <2>1, <2>2 DEF Typed, TypeOK, ImportTyped, importVars, Click
<1>2. ASSUME NEW v \in Printer, handlePrinterChange(v) PROVE IInv'
  <2>1. window' \in Config
    BY <1>2, <1>a DEF handlePrinterChange, Config, Printing
  <2>2. UNCHANGED <<savedKey, lock, phase, request, import, imports, stored, approved>>
    BY <1>2 DEF handlePrinterChange, saveVars, importVars
  <2>3. Typed'
    BY <1>2, <2>1, <2>2 DEF handlePrinterChange, Click, Typed, TypeOK, TurnTyped, ImportTyped
  <2> QED BY <2>2, <2>3 DEF OnlySavedSettings, OnItsWayIsApproved, RemembersStored, Shows
<1>3. ASSUME NEW v \in Settings, EditSettings(v) PROVE IInv'
  <2>1. window' \in Config
    BY <1>3, <1>a DEF EditSettings, Config
  <2>2. UNCHANGED <<savedKey, lock, phase, request, import, imports, stored, approved>>
    BY <1>3 DEF EditSettings, saveVars, importVars
  <2>3. Typed'
    BY <1>3, <2>1, <2>2 DEF EditSettings, Click, Typed, TypeOK, TurnTyped, ImportTyped
  <2> QED BY <2>2, <2>3 DEF OnlySavedSettings, OnItsWayIsApproved, RemembersStored, Shows
<1>4. ASSUME NEW o \in Origin, EditOrigins(o) PROVE IInv'
  <2> DEFINE save == [kind |-> "security", previous |-> window.origins]
  <2>1. /\ window' \in Config
        /\ save \in QueuedSave
        /\ Enqueue(save, window')
        /\ UNCHANGED <<savedKey, papers, importVars, stored>>
        /\ Click /\ phase # "loading"
    BY <1>4, <1>a DEF EditOrigins, Click, Config, QueuedSave
  <2> HIDE DEF save
  <2>2. /\ TurnTyped' /\ phase' \in {"idle", "read", "base", "send", "ok", "failed"}
        /\ phase' = "idle" <=> lock' = << >>
        /\ request' \in Config \cup {None}
        /\ OnlySavedSettings' /\ OnItsWayIsApproved' /\ RemembersStored'
    BY <2>1, EnqueueHolds
  <2> QED BY <2>1, <2>2 DEF Typed, TypeOK, ImportTyped, importVars, Click
<1>5. ASSUME SaveSettings PROVE IInv'
  <2> DEFINE save == [kind |-> "settings", previous |-> None]
  <2>1. /\ save \in QueuedSave
        /\ Enqueue(save, window)
        /\ UNCHANGED <<window, savedKey, papers, importVars, stored>>
        /\ Click /\ phase # "loading"
    BY <1>5 DEF SaveSettings, Click, QueuedSave
  <2> HIDE DEF save
  <2>2. /\ TurnTyped' /\ phase' \in {"idle", "read", "base", "send", "ok", "failed"}
        /\ phase' = "idle" <=> lock' = << >>
        /\ request' \in Config \cup {None}
        /\ OnlySavedSettings' /\ OnItsWayIsApproved' /\ RemembersStored'
    BY <2>1, <1>a, EnqueueHolds
  <2> QED BY <2>1, <2>2 DEF Typed, TypeOK, ImportTyped, importVars, Click
<1>6. ASSUME refreshPapers PROVE IInv'
  <2> DEFINE save == [kind |-> "printing", previous |-> None]
  <2>1. /\ save \in QueuedSave
        /\ Enqueue(save, window)
        /\ papers > 0 /\ papers' = papers - 1 /\ phase # "loading"
        /\ UNCHANGED <<window, savedKey, importVars, stored, edits>>
    BY <1>6 DEF refreshPapers, QueuedSave, Typed
  <2> HIDE DEF save
  <2>2. /\ TurnTyped' /\ phase' \in {"idle", "read", "base", "send", "ok", "failed"}
        /\ phase' = "idle" <=> lock' = << >>
        /\ request' \in Config \cup {None}
        /\ OnlySavedSettings' /\ OnItsWayIsApproved' /\ RemembersStored'
    BY <2>1, <1>a, EnqueueHolds
  <2> QED BY <2>1, <2>2 DEF Typed, TypeOK, ImportTyped, importVars
<1>7. ASSUME GetConfig PROVE IInv'
  <2>1. Typed'
    BY <1>7 DEF GetConfig, Typed, TypeOK, TurnTyped, ImportTyped, importVars
  <2> QED BY <1>7, <2>1 DEF GetConfig, OnlySavedSettings, OnItsWayIsApproved, RemembersStored,
             Shows, importVars
<1>8. ASSUME Build PROVE IInv'
  <2>1. /\ request \in Config
        /\ request' \in Config /\ request'.settings = request.settings
    BY <1>8, <1>a DEF Build, Config, Typed, TurnTyped
  <2>2. Typed'
    BY <1>8, <2>1 DEF Build, Typed, TypeOK, TurnTyped, ImportTyped, importVars
  <2> QED BY <1>8, <2>1, <2>2 DEF Build, OnlySavedSettings, OnItsWayIsApproved,
             RemembersStored, Shows, importVars
<1>9. ASSUME Save PROVE IInv'
  <2>1. Typed'
    BY <1>9 DEF Save, Typed, TypeOK, TurnTyped, ImportTyped, importVars
  <2>2. OnlySavedSettings' /\ OnItsWayIsApproved'
    BY <1>9 DEF Save, OnlySavedSettings, OnItsWayIsApproved, importVars
  <2>3. RemembersStored'
    BY <1>9 DEF Save, RemembersStored, Shows, importVars
  <2> QED BY <2>1, <2>2, <2>3
<1>10. ASSUME Adopt PROVE IInv'
  <2> DEFINE saved == normalizeConfig(request)
  <2>1. request \in Config /\ savedKey \in [printing : Printing, settings : Settings]
    BY <1>10 DEF Adopt, Typed, TypeOK, TurnTyped
  <2>2. /\ saved \in Config /\ saved.printing.printer = request.printing.printer
        /\ request.printing.paper \in {None, saved.printing.paper}
    BY <2>1, NormalizeKeeps
  <2>3. /\ window' = [window EXCEPT !.printing = saved.printing, !.origins = saved.origins]
        /\ savedKey' = [savedKey EXCEPT !.printing = saved.printing]
        /\ Begin(Tail(lock), window') /\ lock # << >>
        /\ UNCHANGED <<papers, importVars, stored, edits>>
    BY <1>10, <1>b DEF Adopt, rememberPrintingSaved
  <2> HIDE DEF saved
  <2>4. /\ window' \in Config
        /\ savedKey' \in [printing : Printing, settings : Settings]
        /\ savedKey'.settings = savedKey.settings /\ savedKey'.printing = saved.printing
    BY <1>a, <2>1, <2>2, <2>3 DEF Config
  <2>5. ~imports => Shows(savedKey')
    BY <1>10, <2>2, <2>4 DEF Adopt, RemembersStored, Shows
  <2> QED BY <2>3, <2>4, <2>5, TurnPasses DEF IInv
<1>11. ASSUME AdoptSettings PROVE IInv'
  <2>1. request \in Config
    BY <1>11 DEF AdoptSettings, Typed, TurnTyped
  <2>2. /\ window' \in Config /\ window'.settings = request.settings
        /\ window'.printing.printer = request.printing.printer
        /\ request.printing.paper \in {None, window'.printing.paper}
    BY <1>11, <2>1, NormalizeKeeps DEF AdoptSettings
  <2>3. /\ savedKey' \in [printing : Printing, settings : Settings]
        /\ savedKey'.settings = window'.settings /\ savedKey'.printing = window'.printing
    BY <1>11, <2>2, KeyTyped DEF AdoptSettings
  <2>4. ~imports => Shows(savedKey')
    BY <1>11, <2>2, <2>3 DEF AdoptSettings, RemembersStored, Shows
  <2>5. /\ Begin(Tail(lock), window') /\ lock # << >>
        /\ UNCHANGED <<papers, importVars, stored, edits>>
    BY <1>11, <1>b DEF AdoptSettings
  <2> QED BY <2>2, <2>3, <2>4, <2>5, TurnPasses DEF IInv
<1>12. ASSUME Relaunch PROVE IInv'
  <2>1. Typed'
    BY <1>12 DEF Relaunch, NoImport, Typed, TypeOK, TurnTyped, ImportTyped
  <2> QED BY <1>12, <2>1 DEF Relaunch, NoImport, OnlySavedSettings, OnItsWayIsApproved,
             RemembersStored
<1>20. ASSUME loadConfig PROVE IInv'
  <2>1. normalizeConfig(stored) \in Config
    BY <1>a, NormalizeKeeps
  <2>2. /\ window' \in Config /\ window'.settings = stored.settings
        /\ stored.printing.printer \in {None, window'.printing.printer}
        /\ stored.printing.paper \in {None, window'.printing.paper}
    BY <1>20, <1>a, <2>1, NormalizeKeeps, RefreshKeeps DEF loadConfig
  <2>3. /\ savedKey' \in [printing : Printing, settings : Settings]
        /\ savedKey'.settings = window'.settings /\ savedKey'.printing = window'.printing
    BY <1>20, <2>2, KeyTyped DEF loadConfig
  <2>4. Typed'
    BY <1>20, <2>2, <2>3 DEF loadConfig, importVars, Typed, TypeOK, TurnTyped, ImportTyped
  <2> QED BY <1>20, <2>2, <2>3, <2>4 DEF loadConfig, importVars, OnlySavedSettings,
             OnItsWayIsApproved, RemembersStored, Shows
<1>21. ASSUME RefreshButton PROVE IInv'
  <2>1. window' \in Config
    BY <1>21, <1>a, RefreshKeeps DEF RefreshButton
  <2>2. UNCHANGED <<savedKey, lock, phase, request, papers, import, imports, stored, approved>>
    BY <1>21 DEF RefreshButton, saveVars, importVars
  <2>3. Typed'
    BY <1>21, <2>1, <2>2 DEF RefreshButton, Click, Typed, TypeOK, TurnTyped, ImportTyped
  <2> QED BY <2>2, <2>3 DEF OnlySavedSettings, OnItsWayIsApproved, RemembersStored, Shows
<1>13. ASSUME SaveFailed PROVE IInv'
  <2>1. /\ phase = "failed" /\ lock # << >>
        /\ window' \in Config
        /\ Begin(Tail(lock), window')
        /\ UNCHANGED <<savedKey, papers, importVars, stored, edits>>
    BY <1>13, <1>b, RestoredTyped DEF SaveFailed
  <2>2. /\ savedKey' \in [printing : Printing, settings : Settings]
        /\ ~imports => Shows(savedKey')
    BY <2>1 DEF Typed, TypeOK, RemembersStored, Shows
  <2> QED BY <2>1, <2>2, TurnPasses
<1>14. ASSUME Import PROVE IInv'
  <2>1. Typed'
    BY <1>14 DEF Import, Click, Typed, TypeOK, TurnTyped, ImportTyped, saveVars
  <2> QED BY <1>14, <2>1 DEF Import, OnlySavedSettings, OnItsWayIsApproved, RemembersStored,
             ImportTyped, Typed, saveVars
<1>15. ASSUME NEW s \in Settings, NEW os \in SUBSET Origin, ImportConfigFile(s, os)
       PROVE  IInv'
  <2>1. /\ stored' \in Config /\ stored'.settings = s
        /\ import' = [at |-> "send", config |-> normalizeConfig(stored')]
        /\ approved' = approved \cup {s}
        /\ UNCHANGED <<window, savedKey, lock, phase, request, papers, imports, edits>>
    BY <1>15, <1>a DEF ImportConfigFile, Config, saveVars
  <2>2. imports /\ phase # "loading"
    BY <1>15 DEF ImportConfigFile, Typed, ImportTyped, RemembersStored
  <2>4. /\ normalizeConfig(stored') \in Config
        /\ normalizeConfig(stored').settings = s
    BY <2>1, NormalizeKeeps
  <2>3. Typed'
    BY <2>1, <2>2, <2>4 DEF Typed, TypeOK, TurnTyped, ImportTyped
  <2> QED BY <2>1, <2>2, <2>3, <2>4 DEF OnlySavedSettings, OnItsWayIsApproved, RemembersStored, Shows
<1>16. ASSUME SaveImported PROVE IInv'
  <2>1. imports /\ import.config \in Config
    BY <1>16 DEF SaveImported, Typed, ImportTyped, RemembersStored
  <2>2. Typed'
    BY <1>16, <2>1 DEF SaveImported, Typed, TypeOK, TurnTyped, ImportTyped, saveVars
  <2> QED BY <1>16, <2>1, <2>2 DEF SaveImported, OnlySavedSettings, OnItsWayIsApproved,
             RemembersStored, Typed, ImportTyped, saveVars
<1>17. ASSUME AdoptImported PROVE IInv'
  <2>1. imports /\ import.config \in Config
    BY <1>17 DEF AdoptImported, Typed, ImportTyped, RemembersStored
  <2>2. /\ window' \in Config
        /\ savedKey' \in [printing : Printing, settings : Settings]
    BY <1>17, <2>1, NormalizeKeeps, KeyTyped DEF AdoptImported
  <2>3. Typed'
    BY <1>17, <2>1, <2>2 DEF AdoptImported, NoImport, Typed, TypeOK, TurnTyped, ImportTyped, saveVars
  <2> QED BY <1>17, <2>1, <2>3 DEF AdoptImported, NoImport, OnlySavedSettings, OnItsWayIsApproved,
             RemembersStored, saveVars
<1>18. ASSUME ImportFails PROVE IInv'
  <2>1. Typed'
    BY <1>18 DEF ImportFails, NoImport, Typed, TypeOK, TurnTyped, ImportTyped, saveVars
  <2> QED BY <1>18, <2>1 DEF ImportFails, NoImport, OnlySavedSettings, OnItsWayIsApproved,
             RemembersStored, saveVars
<1>19. ASSUME UNCHANGED vars PROVE IInv'
  BY <1>19 DEF vars, saveVars, importVars, Typed, TypeOK, TurnTyped, ImportTyped,
     OnlySavedSettings, OnItsWayIsApproved, RemembersStored, Shows
<1> QED BY <1>1, <1>2, <1>3, <1>4, <1>5, <1>6, <1>7, <1>8, <1>9, <1>10, <1>11, <1>12,
          <1>13, <1>14, <1>15, <1>16, <1>17, <1>18, <1>19, <1>20, <1>21
       DEF Next, User, SaveStep, ImportStep

\* The inductive invariant holds in every state of the window and the agent.
THEOREM Invariance == Spec => []IInv
BY InitHolds, StepHolds, PTL DEF Spec

\* The variables of the window, the chain of saves and the agent keep their
\* types (App.vue).
THEOREM TypeCorrect == Spec => []TypeOK
<1>1. IInv => TypeOK
  BY DEF IInv, Typed
<1> QED BY <1>1, Invariance, PTL

\* No save of printing or pages carries settings nobody asked to save
\* (App.vue:638, 861), for any number of edits, saves and imports.
THEOREM SettingsAreSavedOnRequest == Spec => []OnlySavedSettings
<1>1. IInv => OnlySavedSettings
  BY DEF IInv
<1> QED BY <1>1, Invariance, PTL

\* Without imports, and when Save cannot be pressed (App.vue:167), the window
\* shows everything the agent has, whatever failed and was edited meanwhile and
\* whatever was filled in when it was loaded.
THEOREM WindowKnowsUnsaved == Spec => []UnsavedIsKnown
<1>1. IInv => UnsavedIsKnown
  <2> SUFFICES ASSUME IInv, NothingToSave, ~imports
               PROVE  Shows(window)
    BY DEF UnsavedIsKnown, Shows
  <2>1. Shows(savedKey) /\ savedKey = settingsKey(window) /\ window \in Config
    BY DEF IInv, Typed, TypeOK, RemembersStored, NothingToSave, hasUnsavedSettings
  <2> QED BY <2>1, KeyTyped DEF Shows
<1> QED BY <1>1, Invariance, PTL
=============================================================================
