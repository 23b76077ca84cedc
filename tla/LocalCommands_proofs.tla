------------------------ MODULE LocalCommands_proofs ------------------------
(***************************************************************************)
(* For any agents, clients, commands and ports: a change is executed once  *)
(* at most, an import writes what its user has seen, and changes that do   *)
(* not meet add up, in the file, in the memory of the agent and in the     *)
(* autostart entry.                                                        *)
(***************************************************************************)
EXTENDS LocalCommands, FiniteSetTheorems, TLAPS

\* An agent that commands reach, or that is on its way to that.
Serving(a) == life[a] \in {"loaded", "bound", "up"} \/ "socket" \in listening[a]

\* An agent listens on the socket while it is up and until it closes it.
AgentsInOrder ==
    \A a \in Agent :
        /\ life[a] = "up" => "socket" \in listening[a]
        /\ "socket" \in listening[a] => life[a] \in {"up", "stopping"}

\* Undisturbed agents are alone, and whoever listens has the path.
AgentsAlone ==
    ~disturbed =>
        /\ \A a, b \in Agent : life[a] # "down" /\ life[b] # "down" => a = b
        /\ \A a \in Agent : "socket" \in listening[a] => socket = a

\* What a command is executed for, and by whom, fits where its client is.
TaskFits(c) ==
    /\ Phase(c) \notin {"save", "wait", "failed"} => task[c].step = "none"
    /\ Phase(c) = "save" => Kind(c) = "window" /\ task[c].step \in {"none", "edit"}
    /\ task[c].step = "edit" =>
           Phase(c) = "save" /\ task[c].at \in Agent /\ task[c].config = client[c].config
    /\ task[c].step # "none" => task[c].at \in Agent \cup {c}
    /\ Kind(c) = "window" => Phase(c) \in {"save", "wait"}
    /\ Phase(c) = "entry" => Kind(c) = "autostart"
    /\ task[c].step \in {"read", "merge"} => Kind(c) = "import"

\* The executors are there once the change has been sent, or saved.
ExecutedOnce(c) ==
    /\ Phase(c) \in {"off", "entry", "ask", "send", "save"} => client[c].executors = {}
    /\ \A p, q \in client[c].executors : p = q

\* The hash of a preview belongs to what was shown, ...
PreviewHolds(c) ==
    Kind(c) = "import" /\ (Phase(c) = "send" \/ task[c].step \in {"read", "merge"}) =>
        /\ client[c].version <= transfer.version
        /\ client[c].version = transfer.version => client[c].port = transfer.port

\* ... and what was shown is written.
WritesShown(c) ==
    Kind(c) = "import" /\ task[c].step \in {"open", "write", "apply"} =>
        client[c].port \in {task[c].config.port, None}

InOrder(c) == TaskFits(c) /\ ExecutedOnce(c) /\ PreviewHolds(c) /\ WritesShown(c)

\* Undisturbed commands do not overlap each other or the start of an agent.
OneAtATime ==
    ~disturbed =>
        /\ \A c, d \in Client : Active(c) /\ Active(d) => c = d
        /\ AnyActive => ~AgentStarting

FileIs(config) == Loadable /\ Loaded = config
MemoryIs(config) == \A a \in Agent : Serving(a) => memory[a] = config
Settled == FileIs(ideal) /\ MemoryIs(ideal)
EntryRight == halfway \/ entry = ideal.autostart

\* The entry while the command of c is under way: changed already, or right.
EntryOf(c) ==
    IF Kind(c) \in {"autostart", "window"}
    THEN /\ entry = client[c].config.autostart
         /\ Kind(c) = "window" => client[c].restore = ideal.autostart
         /\ Kind(c) = "autostart" /\ Phase(c) = "failed" => halfway
    ELSE EntryRight

\* A command is executed by the agent that serves, or by its own process if none
\* does.
ExecutorRight(c) ==
    IF task[c].at \in Agent THEN Serving(task[c].at) ELSE \A a \in Agent : ~Serving(a)

\* How far the change of an undisturbed command has come.
AskingInStep(c) ==
    /\ Phase(c) \in {"entry", "ask", "send"} => Settled /\ memory[c] = ideal
    /\ Phase(c) = "entry" => EntryRight
    /\ Phase(c) \in {"ask", "send"} => EntryOf(c)
    /\ Phase(c) = "send" /\ Kind(c) # "import" => client[c].told = ideal
    /\ Phase(c) = "save" => Settled /\ EntryRight /\ task[c].step = "edit" /\ Serving(task[c].at)
    /\ Phase(c) = "wait" => task[c].step \notin {"none", "edit"}

TaskInStep(c) ==
    /\ Executing(c) => EntryOf(c) /\ ExecutorRight(c) /\ MemoryIs(ideal)
    /\ task[c].step \in {"read", "merge", "open", "ok", "error"} => Settled
    /\ task[c].step = "read" => memory[task[c].at] = ideal
    /\ task[c].step = "merge" => task[c].config = ideal
    /\ task[c].step \in {"open", "write", "apply"} => task[c].config = Changed(c, ideal)
    /\ task[c].step = "write" => ~clash[c]
    /\ task[c].step = "apply" => FileIs(task[c].config)
    /\ task[c].step = "ok" => EntryRight
    /\ task[c].step = "error" => EntryOf(c)

InStep == ~disturbed => \A c \in Client : Active(c) => AskingInStep(c) /\ TaskInStep(c)
AtRest == ~disturbed /\ ~AnyActive => Settled /\ EntryRight

Undisturbed == OneAtATime /\ InStep /\ AtRest

IInv ==
    /\ TypeOK
    /\ AgentsInOrder
    /\ AgentsAlone
    /\ \A c \in Client : InOrder(c)
    /\ Undisturbed
-----------------------------------------------------------------------------
ClientRecord ==
    [phase : {"off", "entry", "ask", "send", "save", "wait"} \cup Ended,
     kind : {"port", "autostart", "import", "window"},
     config : Config, told : Config, version : 0..MaxExports,
     port : Port \cup {None}, restore : BOOLEAN, executors : SUBSET Proc]

TaskRecord ==
    [step : {"none", "edit", "read", "merge", "open", "write", "apply", "ok", "error"},
     at : Proc \cup {None}, config : Config]

\* The initial values have their types.
LEMMA Defaults ==
    /\ Default \in Config
    /\ Idle \in ClientRecord
    /\ NoTask \in TaskRecord
    /\ \A o \in Ended : [Idle EXCEPT !.phase = o] \in ClientRecord
<1>1. Default \in Config
  BY StoreAssumption DEF Default, Config
<1>2. Idle \in ClientRecord
  BY <1>1, StoreAssumption DEF Idle, ClientRecord
<1>3. NoTask \in TaskRecord
  BY <1>1 DEF NoTask, TaskRecord
<1>4. \A o \in Ended : [Idle EXCEPT !.phase = o] \in ClientRecord
  BY <1>2 DEF ClientRecord
<1> QED BY <1>1, <1>2, <1>3, <1>4

\* Updates of a client's record.
LEMMA RecordTyped ==
    ASSUME NEW r \in ClientRecord,
           NEW p \in {"off", "entry", "ask", "send", "save", "wait"} \cup Ended
    PROVE  /\ [r EXCEPT !.phase = p] \in ClientRecord
           /\ \A t \in Config : [r EXCEPT !.phase = p, !.told = t] \in ClientRecord
           /\ \A v \in 0..MaxExports, q \in Port \cup {None} :
                  [r EXCEPT !.phase = p, !.version = v, !.port = q] \in ClientRecord
           /\ \A e \in SUBSET Proc : [r EXCEPT !.phase = p, !.executors = e] \in ClientRecord
           /\ \A b \in BOOLEAN, e \in SUBSET Proc :
                  [r EXCEPT !.phase = p, !.restore = b, !.executors = e] \in ClientRecord
  BY DEF ClientRecord

\* A command makes a configuration of a configuration.
LEMMA ChangedTyped ==
    ASSUME NEW c \in Client, client[c] \in ClientRecord, NEW config \in Config
    PROVE  /\ Changed(c, config) \in Config
           /\ Kind(c) \in {"autostart", "window"} =>
                  Changed(c, config).autostart = client[c].config.autostart
           /\ Kind(c) \notin {"autostart", "window"} =>
                  Changed(c, config).autostart = config.autostart
<1>1. CASE Kind(c) = "port"
  BY <1>1 DEF Changed, ClientRecord, Config, Kind
<1>2. CASE Kind(c) = "autostart"
  BY <1>2 DEF Changed, ClientRecord, Config, Kind
<1>3. CASE Kind(c) = "window"
  BY <1>3 DEF Changed, ClientRecord, Config, Kind
<1>4. CASE Kind(c) = "import"
  BY <1>4 DEF Changed, ClientRecord, Config, Kind
<1> QED BY <1>1, <1>2, <1>3, <1>4 DEF Kind, ClientRecord

\* A process or window that is through.
LEMMA FinishTyped ==
    ASSUME TypeOK, NEW c \in Client, NEW o \in Ended, Finish(c, o)
    PROVE  /\ client' \in [Client -> ClientRecord] /\ memory' \in [Proc -> Config]
           /\ task' \in [Client -> TaskRecord]
           /\ client'[c] = [Idle EXCEPT !.phase = o] /\ task'[c] = NoTask
           /\ \A d \in Client \ {c} : client'[d] = client[d] /\ task'[d] = task[d]
           /\ \A a \in Agent : memory'[a] = memory[a]
<1>1. /\ client \in [Client -> ClientRecord] /\ memory \in [Proc -> Config]
      /\ task \in [Client -> TaskRecord]
  BY DEF TypeOK, StoreTypeOK, ClientRecord, TaskRecord
<1>2. c \in Proc /\ c \notin Agent /\ Agent \subseteq Proc
  BY StoreAssumption DEF Proc
<1> QED BY <1>1, <1>2, Defaults DEF Finish

\* The variables keep their types when a client moves.
LEMMA ClientTyped ==
    ASSUME TypeOK, NEW c \in Client, TaskFits(c), ClientStep(c) \/ Unread(c)
    PROVE  /\ client' \in [Client -> ClientRecord] /\ memory' \in [Proc -> Config]
           /\ task' \in [Client -> TaskRecord] /\ entry' \in BOOLEAN /\ halfway' \in BOOLEAN
<1> USE DEF TypeOK, StoreTypeOK, AgentTypeOK
<1>1. /\ client \in [Client -> ClientRecord] /\ memory \in [Proc -> Config]
      /\ task \in [Client -> TaskRecord] /\ transfer \in [version : 0..MaxExports, port : Port \cup {None}]
      /\ c \in Proc /\ Agent \subseteq Proc
  BY DEF ClientRecord, TaskRecord, Proc
<1>2. client[c] \in ClientRecord /\ task[c] \in TaskRecord
  BY <1>1
<1>3. CASE SetEntry(c)
  <2>1. client[c].config.autostart \in BOOLEAN
    BY <1>2 DEF ClientRecord, Config
  <2>2. CASE Finish(c, "failed") /\ UNCHANGED entry
    BY <1>3, <2>2, FinishTyped DEF SetEntry, history, Ended
  <2>3. CASE entry' = client[c].config.autostart /\ To(c, "ask") /\ UNCHANGED <<memory, task>>
    <3>1. client' = [client EXCEPT ![c] = [client[c] EXCEPT !.phase = "ask"]]
      BY <1>1, <2>3 DEF To
    <3> QED BY <1>1, <1>2, <1>3, <2>1, <2>3, <3>1, RecordTyped DEF SetEntry, history
  <2> QED BY <1>3, <2>2, <2>3 DEF SetEntry
<1>4. CASE RequestRefused(c) \/ RequestFails(c)
  <2>1. \E o \in Ended : Finish(c, o)
    BY <1>4 DEF RequestRefused, RequestFails, Ended
  <2>2. UNCHANGED entry /\ halfway' \in BOOLEAN
    BY <1>4 DEF RequestRefused, RequestFails, EntryAlone, agentVars
  <2> QED BY <2>1, <2>2, FinishTyped
<1>5. CASE Preview(c)
  <2>1. client' = [client EXCEPT ![c] = [client[c] EXCEPT !.phase = "send",
                                            !.version = transfer.version, !.port = transfer.port]]
    BY <1>1, <1>5 DEF Preview
  <2>2. transfer.version \in 0..MaxExports /\ transfer.port \in Port \cup {None}
    BY <1>1
  <2>3. [client[c] EXCEPT !.phase = "send", !.version = transfer.version, !.port = transfer.port]
            \in ClientRecord
    BY <1>2, <2>2, RecordTyped
  <2>4. UNCHANGED <<memory, task, entry, halfway>>
    BY <1>5 DEF Preview, storeVars, agentVars, history
  <2> QED BY <1>1, <2>1, <2>3, <2>4
<1>6. CASE GetConfig(c)
  <2>1. CASE Finish(c, "failed")
    <3>1. UNCHANGED <<entry, halfway>>
      BY <1>6 DEF GetConfig, agentVars, history
    <3> QED BY <2>1, <3>1, FinishTyped DEF Ended
  <2>2. CASE ~Finish(c, "failed")
    <3>1. PICK p \in Route(c) :
             /\ client' = [client EXCEPT ![c].phase = "send", ![c].told = memory[p]]
             /\ UNCHANGED <<memory, task>>
      BY <1>6, <2>2 DEF GetConfig
    <3>2. memory[p] \in Config
      BY <1>1, <3>1 DEF Route
    <3>3. client' = [client EXCEPT ![c] = [client[c] EXCEPT !.phase = "send", !.told = memory[p]]]
      BY <1>1, <3>1
    <3>4. [client[c] EXCEPT !.phase = "send", !.told = memory[p]] \in ClientRecord
      BY <1>2, <3>2, RecordTyped
    <3>5. UNCHANGED <<entry, halfway>>
      BY <1>6 DEF GetConfig, agentVars, history
    <3> QED BY <1>1, <3>1, <3>3, <3>4, <3>5
  <2> QED BY <2>1, <2>2
<1>7. CASE Send(c)
  <2>1. PICK p \in Route(c) :
         /\ task' = [task EXCEPT ![c] =
               IF Kind(c) = "import"
               THEN [step |-> "read", at |-> p, config |-> Default]
               ELSE [step |-> "open", at |-> p, config |-> Changed(c, client[c].told)]]
         /\ client' = [client EXCEPT ![c].phase = "wait", ![c].executors = @ \cup {p}]
    BY <1>7 DEF Send
  <2>2. p \in Proc
    BY <1>1 DEF Route
  <2>3. client[c].told \in Config /\ Changed(c, client[c].told) \in Config
    BY <1>2, ChangedTyped DEF ClientRecord
  <2>4. client' \in [Client -> ClientRecord]
    <3>1. client[c].executors \cup {p} \in SUBSET Proc
      BY <1>2, <2>2 DEF ClientRecord
    <3>2. client' = [client EXCEPT ![c] = [client[c] EXCEPT !.phase = "wait",
                                              !.executors = client[c].executors \cup {p}]]
      BY <1>1, <2>1
    <3> QED BY <1>1, <1>2, <3>1, <3>2, RecordTyped
  <2>5. task' \in [Client -> TaskRecord]
    BY <1>1, <2>1, <2>2, <2>3, Defaults DEF TaskRecord
  <2> QED BY <1>1, <1>7, <2>4, <2>5 DEF Send, agentVars, history
<1>8. CASE Save(c)
  <2>1. /\ entry' = client[c].config.autostart
        /\ task' = [task EXCEPT ![c].step = "open"]
        /\ client' = [client EXCEPT ![c].phase = "wait",
                          ![c].restore = memory[task[c].at].autostart,
                          ![c].executors = @ \cup {task[c].at}]
        /\ UNCHANGED <<memory, halfway>>
    BY <1>8 DEF Save, history
  <2>2. task[c].at \in Proc
    BY <1>1, <1>8 DEF Save, TaskFits
  <2>3. client' \in [Client -> ClientRecord]
    <3>1. client[c].executors \cup {task[c].at} \in SUBSET Proc
      BY <1>2, <2>2 DEF ClientRecord
    <3>2. memory[task[c].at].autostart \in BOOLEAN
      BY <1>1, <2>2 DEF Config
    <3>3. client' = [client EXCEPT ![c] = [client[c] EXCEPT !.phase = "wait",
                          !.restore = memory[task[c].at].autostart,
                          !.executors = client[c].executors \cup {task[c].at}]]
      BY <1>1, <2>1
    <3> QED BY <1>1, <1>2, <3>1, <3>2, <3>3, RecordTyped
  <2>4. task' \in [Client -> TaskRecord]
    BY <1>1, <2>1 DEF TaskRecord
  <2>5. client[c].config.autostart \in BOOLEAN
    BY <1>2 DEF ClientRecord, Config
  <2> QED BY <1>1, <2>1, <2>3, <2>4, <2>5
<1>9. CASE SaveFails(c) \/ Unread(c)
  BY <1>9, FinishTyped DEF SaveFails, Unread, agentVars, history, Ended
<1>10. CASE Receive(c)
  <2>1. entry' \in BOOLEAN /\ halfway' \in BOOLEAN
    BY <1>2, <1>10 DEF Receive, RestoreEntry, ClientRecord
  <2> QED BY <1>10, <2>1, FinishTyped DEF Receive, Ended
<1>11. CASE Lost(c)
  BY <1>11, FinishTyped DEF Lost, agentVars, Ended
<1>12. CASE Timeout(c)
  <2>1. client' = [client EXCEPT ![c] = [client[c] EXCEPT !.phase = "failed"]]
    BY <1>1, <1>12 DEF Timeout, To
  <2> QED BY <1>1, <1>2, <1>12, <2>1, RecordTyped
          DEF Timeout, EntryAlone, storeVars, agentVars, Ended
<1> QED BY <1>3, <1>4, <1>5, <1>6, <1>7, <1>8, <1>9, <1>10, <1>11, <1>12 DEF ClientStep

\* A command line process starts, or the user edits in a window.
LEMMA BeginTyped ==
    ASSUME TypeOK, NEW c \in Client, NEW command \in Command,
           Begin(c, command) \/ \E a \in Agent : Edit(c, a, command)
    PROVE  /\ client' \in [Client -> ClientRecord] /\ memory' \in [Proc -> Config]
           /\ task' \in [Client -> TaskRecord] /\ disturbed' \in BOOLEAN
<1>1. /\ client \in [Client -> ClientRecord] /\ memory \in [Proc -> Config]
      /\ task \in [Client -> TaskRecord] /\ Loaded \in Config /\ disturbed \in BOOLEAN
      /\ c \in Proc /\ Agent \subseteq Proc
  BY DEF TypeOK, StoreTypeOK, ClientRecord, TaskRecord, Proc, Loaded
<1>2. command.kind \in {"port", "autostart", "import", "window"} /\ command.config \in Config
  BY CommandAssumption
<1>3. disturbed' \in BOOLEAN
  BY <1>1 DEF Begin, Edit
<1>4. CASE Begin(c, command)
  <2>1. CASE Loadable
    <3>1. [Idle EXCEPT !.kind = command.kind, !.config = command.config,
                       !.phase = IF command.kind = "autostart" THEN "entry" ELSE "ask"]
              \in ClientRecord
      BY <1>2, Defaults DEF ClientRecord
    <3> QED BY <1>1, <1>3, <1>4, <2>1, <3>1 DEF Begin
  <2>2. CASE ~Loadable
    <3>1. Finish(c, "failed")
      BY <1>4, <2>2 DEF Begin
    <3> QED BY <1>3, <3>1, FinishTyped DEF Ended
  <2> QED BY <2>1, <2>2
<1>5. ASSUME NEW a \in Agent, Edit(c, a, command)
      PROVE  /\ client' \in [Client -> ClientRecord] /\ memory' = memory
             /\ task' \in [Client -> TaskRecord]
  <2>1. [Idle EXCEPT !.phase = "save", !.kind = "window", !.config = command.config]
            \in ClientRecord
    BY <1>2, Defaults DEF ClientRecord
  <2>2. [step |-> "edit", at |-> a, config |-> command.config] \in TaskRecord
    BY <1>1, <1>2 DEF TaskRecord
  <2> QED BY <1>1, <1>5, <2>1, <2>2 DEF Edit
<1> QED BY <1>1, <1>3, <1>4, <1>5

\* save_config and ImportConfig.
LEMMA ExecuteTyped ==
    ASSUME TypeOK, NEW c \in Client, TaskFits(c), Execute(c)
    PROVE  TypeOK'
<1> USE DEF TypeOK, StoreTypeOK, AgentTypeOK
<1>1. /\ task \in [Client -> TaskRecord] /\ task[c] \in TaskRecord
      /\ client[c] \in ClientRecord /\ Agent \subseteq Proc /\ c \in Proc
  BY DEF TaskRecord, ClientRecord, Proc
<1>2. UNCHANGED <<client, halfway, life, listening, port, socket, entry, starts>>
  BY DEF Execute, agentVars
<1>3. task[c].step # "none" => task[c].at \in Proc
  BY <1>1 DEF TaskFits
<1>4. /\ file' \in [kind : {"missing", "torn", "whole"}, config : Config]
      /\ memory' \in [Proc -> Config]
      /\ task' \in [Client -> TaskRecord]
      /\ clash' \in [Client -> BOOLEAN]
      /\ transfer' = transfer
  <2>1. CASE ReadCurrent(c)
    <3>1. memory[task[c].at] \in Config
      BY <1>3, <2>1 DEF ReadCurrent
    <3> QED BY <1>1, <2>1, <3>1 DEF ReadCurrent, TaskRecord
  <2>2. CASE Merge(c, client[c].version)
    <3>1. transfer.port \in Port \cup {None}
      OBVIOUS
    <3>2. task' \in [Client -> TaskRecord]
      BY <1>1, <2>2, <3>1 DEF Merge, TaskRecord, Config
    <3> QED BY <2>2, <3>2 DEF Merge
  <2>3. CASE Open(c)
    <3>1. PICK step \in {"error", "write"} : task' = [task EXCEPT ![c].step = step]
      BY <2>3 DEF Open
    <3>2. task' \in [Client -> TaskRecord]
      BY <1>1, <3>1 DEF TaskRecord
    <3>3. UNCHANGED <<memory, transfer>>
      BY <2>3 DEF Open
    <3>4. file' = file \/ file' = [kind |-> "torn", config |-> Default]
      BY <2>3 DEF Open
    <3>5. clash' = clash \/ clash' = [clash EXCEPT ![c] = FALSE]
      BY <2>3 DEF Open
    <3>6. file' \in [kind : {"missing", "torn", "whole"}, config : Config]
      BY <3>4, Defaults
    <3>7. clash' \in [Client -> BOOLEAN]
      BY <3>5
    <3> QED BY <3>2, <3>3, <3>6, <3>7
  <2>4. CASE WriteFile(c) \/ WriteFails(c)
    <3>1. task[c].config \in Config
      BY <1>1 DEF TaskRecord
    <3>2. file' \in [kind : {"missing", "torn", "whole"}, config : Config]
      BY <2>4, <3>1, Defaults DEF WriteFile, WriteFails
    <3>3. clash' \in [Client -> BOOLEAN]
      BY <2>4 DEF WriteFile, WriteFails, Disturb
    <3>4. task' \in [Client -> TaskRecord] /\ UNCHANGED <<memory, transfer>>
      BY <1>1, <2>4 DEF WriteFile, WriteFails, TaskRecord
    <3> QED BY <3>2, <3>3, <3>4
  <2>5. CASE Apply(c)
    <3>1. task[c].config \in Config
      BY <1>1 DEF TaskRecord
    <3> QED BY <1>1, <1>3, <2>5, <3>1 DEF Apply, TaskRecord
  <2> QED BY <2>1, <2>2, <2>3, <2>4, <2>5 DEF Execute
<1>5. ideal' \in Config /\ disturbed' \in BOOLEAN
  <2>1. Changed(c, ideal) \in Config
    BY <1>1, ChangedTyped
  <2> QED BY <2>1 DEF Execute
<1> QED BY <1>2, <1>4, <1>5 DEF TaskRecord

\* Starts and ends of agents.
LEMMA AgentTyped ==
    ASSUME TypeOK, NEW a \in Agent, AgentStep(a)
    PROVE  TypeOK'
<1> USE AgentAssumption DEF TypeOK, StoreTypeOK, AgentTypeOK
<1>1. /\ a \in Proc /\ Loaded \in Config /\ NoTask \in TaskRecord /\ Default \in Config
      /\ task \in [Client -> TaskRecord]
  BY Defaults DEF Proc, Loaded, TaskRecord
<1>2. UNCHANGED <<client, ideal, halfway>> /\ disturbed' \in BOOLEAN
  BY DEF AgentStep
<1>3. CASE Build(a)
  <2>1. /\ life' \in [Agent -> {"down", "loaded", "bound", "up", "stopping"}]
        /\ memory' \in [Proc -> Config]
    BY <1>1, <1>3 DEF Build
  <2>2. starts' \in 0..MaxStarts
    BY <1>3 DEF Build
  <2> QED BY <1>2, <1>3, <2>1, <2>2 DEF Build, StoreIdle
<1>4. CASE Listen(a)
  <2>1. memory[a].port \in Port
    BY <1>1 DEF Config
  <2>2. UNCHANGED <<file, memory, task, clash, transfer, socket, entry, starts>>
    BY <1>4 DEF Listen, storeVars
  <2>3. life' \in [Agent -> {"down", "loaded", "bound", "up", "stopping"}]
    BY <1>4 DEF Listen
  <2>4. /\ listening' = listening \/ listening' = [listening EXCEPT ![a] = {"port"}]
        /\ port' = port \/ port' = [port EXCEPT ![a] = memory[a].port]
    BY <1>4 DEF Listen
  <2>5. listening' \in [Agent -> SUBSET {"port", "socket"}] /\ port' \in [Agent -> Port]
    BY <2>1, <2>4
  <2> QED BY <1>2, <2>2, <2>3, <2>5
<1>5. CASE BindSocket(a)
  <2>1. entry' \in BOOLEAN
    BY <1>1, <1>5 DEF BindSocket, SyncEntry, Config
  <2> QED BY <1>2, <1>5, <2>1 DEF BindSocket, storeVars
<1>6. CASE Cancel(a) \/ ClosePort(a)
  BY <1>2, <1>6 DEF Cancel, ClosePort, storeVars
<1>7. CASE CloseSocket(a)
  BY <1>2, <1>7 DEF CloseSocket, storeVars
<1>8. CASE End(a)
  <2>1. task' \in [Client -> TaskRecord]
    BY <1>1, <1>8 DEF End, Abandon
  <2> QED BY <1>1, <1>2, <1>8, <2>1 DEF End, TaskRecord
<1> QED BY <1>3, <1>4, <1>5, <1>6, <1>7, <1>8 DEF AgentStep, Starting, Stopping, Exit, Die
-----------------------------------------------------------------------------
(* The order of each command.                                              *)

\* Others, and agents that end, do not disturb the order of a command.
LEMMA OthersInOrder ==
    ASSUME NEW d \in Client, InOrder(d), client'[d] = client[d],
           task'[d] = task[d] \/ task'[d] = NoTask, transfer' = transfer
    PROVE  InOrder(d)'
<1> USE DEF InOrder, Kind, Phase
<1>1. CASE task'[d] = task[d]
  BY <1>1 DEF TaskFits, ExecutedOnce, PreviewHolds, WritesShown
<1>2. CASE task'[d] = NoTask
  BY <1>2 DEF TaskFits, ExecutedOnce, PreviewHolds, WritesShown, NoTask
<1> QED BY <1>1, <1>2

\* A command that has ended is in order.
LEMMA EndedInOrder ==
    ASSUME NEW c \in Client, NEW o \in Ended, TypeOK, Finish(c, o), transfer' = transfer,
           \A d \in Client : InOrder(d)
    PROVE  \A d \in Client : InOrder(d)'
<1>1. /\ client'[c] = [Idle EXCEPT !.phase = o] /\ task'[c] = NoTask
      /\ \A d \in Client \ {c} : client'[d] = client[d] /\ task'[d] = task[d]
  BY FinishTyped
<1>2. /\ client'[c].phase = o /\ client'[c].kind = "import" /\ client'[c].executors = {}
      /\ task'[c].step = "none"
  BY <1>1 DEF Idle, NoTask
<1>3. InOrder(c)'
  BY <1>2 DEF InOrder, TaskFits, ExecutedOnce, PreviewHolds, WritesShown, Kind, Phase, Ended
<1> QED BY <1>1, <1>3, OthersInOrder

\* What a client does keeps every command in order.
LEMMA ClientInOrder ==
    ASSUME TypeOK, \A d \in Client : InOrder(d), NEW c \in Client, ClientStep(c) \/ Unread(c)
    PROVE  \A d \in Client : InOrder(d)'
<1>1. /\ client \in [Client -> ClientRecord] /\ task \in [Client -> TaskRecord]
      /\ client[c] \in ClientRecord /\ task[c] \in TaskRecord
      /\ c \notin Agent /\ transfer.version \in Nat
  BY StoreAssumption DEF TypeOK, StoreTypeOK, ClientRecord, TaskRecord
<1>2. transfer' = transfer
  BY DEF ClientStep, SetEntry, RequestRefused, RequestFails, Preview, GetConfig, Send, Save,
         SaveFails, Receive, Lost, Timeout, Unread, storeVars
<1>3. CASE \E o \in Ended : Finish(c, o)
  BY <1>2, <1>3, EndedInOrder
<1>4. CASE ~\E o \in Ended : Finish(c, o)
  <2>1. /\ \A d \in Client \ {c} : client'[d] = client[d] /\ task'[d] = task[d]
        /\ \/ SetEntry(c) /\ To(c, "ask") /\ task' = task
           \/ Preview(c)
           \/ \E p \in Route(c) :
                 /\ client' = [client EXCEPT ![c].phase = "send", ![c].told = memory[p]]
                 /\ task' = task /\ Phase(c) = "ask" /\ Kind(c) # "import"
           \/ Send(c) \/ Save(c) \/ Timeout(c)
    BY <1>1, <1>4
       DEF ClientStep, SetEntry, RequestRefused, RequestFails, Preview, GetConfig, Send, Save,
           SaveFails, Receive, Lost, Timeout, Unread, Ended, To, storeVars
  <2> USE DEF InOrder, TaskFits, ExecutedOnce, PreviewHolds, WritesShown, Kind, Phase
  <2>2. CASE SetEntry(c) /\ To(c, "ask") /\ task' = task
    <3>1. InOrder(c)'
      BY <1>1, <1>2, <2>2 DEF SetEntry, To, ClientRecord, Ended
    <3> QED BY <1>2, <2>1, <3>1, OthersInOrder
  <2>3. CASE Preview(c)
    <3>1. InOrder(c)'
      BY <1>1, <1>2, <2>3 DEF Preview, storeVars, ClientRecord, Ended
    <3> QED BY <1>2, <2>1, <3>1, OthersInOrder
  <2>4. CASE \E p \in Route(c) :
                 /\ client' = [client EXCEPT ![c].phase = "send", ![c].told = memory[p]]
                 /\ task' = task /\ Phase(c) = "ask" /\ Kind(c) # "import"
    <3>1. InOrder(c)'
      BY <1>1, <1>2, <2>4 DEF ClientRecord, Ended
    <3> QED BY <1>2, <2>1, <3>1, OthersInOrder
  <2>5. CASE Send(c)
    <3>1. PICK p \in Route(c) :
         /\ task' = [task EXCEPT ![c] =
               IF Kind(c) = "import"
               THEN [step |-> "read", at |-> p, config |-> Default]
               ELSE [step |-> "open", at |-> p, config |-> Changed(c, client[c].told)]]
         /\ client' = [client EXCEPT ![c].phase = "wait", ![c].executors = @ \cup {p}]
      BY <2>5 DEF Send
    <3>2. p \in Agent \cup {c}
      BY DEF Route
    <3>3. /\ task'[c].at = p /\ task'[c].step = IF Kind(c) = "import" THEN "read" ELSE "open"
          /\ client'[c].phase = "wait" /\ client'[c].kind = client[c].kind
          /\ client'[c].version = client[c].version /\ client'[c].port = client[c].port
          /\ client'[c].executors = client[c].executors \cup {p}
      BY <1>1, <3>1 DEF ClientRecord
    <3>4. client[c].phase = "send" /\ client[c].executors = {}
      BY <2>5 DEF Send
    <3>5. InOrder(c)'
      BY <1>1, <1>2, <3>2, <3>3, <3>4
    <3> QED BY <1>2, <2>1, <3>5, OthersInOrder
  <2>6. CASE Save(c)
    <3>1. /\ client[c].phase = "save" /\ task[c].step = "edit"
          /\ task' = [task EXCEPT ![c].step = "open"]
          /\ client' = [client EXCEPT ![c].phase = "wait",
                            ![c].restore = memory[task[c].at].autostart,
                            ![c].executors = @ \cup {task[c].at}]
      BY <2>6 DEF Save
    <3>2. /\ task'[c].step = "open" /\ task'[c].at = task[c].at
          /\ client'[c].phase = "wait" /\ client'[c].kind = client[c].kind
          /\ client'[c].executors = client[c].executors \cup {task[c].at}
      BY <1>1, <3>1 DEF ClientRecord, TaskRecord
    <3>3. InOrder(c)'
      BY <1>1, <1>2, <3>1, <3>2
    <3> QED BY <1>2, <2>1, <3>3, OthersInOrder
  <2>7. CASE Timeout(c)
    <3>1. InOrder(c)'
      BY <1>1, <1>2, <2>7 DEF Timeout, To, storeVars, ClientRecord, Ended
    <3> QED BY <1>2, <2>1, <3>1, OthersInOrder
  <2> QED BY <2>1, <2>2, <2>3, <2>4, <2>5, <2>6, <2>7
<1> QED BY <1>3, <1>4

\* So does the start of a command, ...
LEMMA BeginInOrder ==
    ASSUME TypeOK, \A d \in Client : InOrder(d), NEW c \in Client, NEW command \in Command,
           Begin(c, command) \/ \E a \in Agent : Edit(c, a, command)
    PROVE  \A d \in Client : InOrder(d)'
<1>1. /\ client \in [Client -> ClientRecord] /\ task \in [Client -> TaskRecord]
      /\ transfer' = transfer
  BY DEF TypeOK, StoreTypeOK, ClientRecord, TaskRecord, Begin, Edit
<1>2. CASE Finish(c, "failed")
  BY <1>1, <1>2, EndedInOrder DEF Ended
<1>3. CASE Begin(c, command) /\ ~Finish(c, "failed")
  <2>1. /\ client' = [client EXCEPT
                   ![c] = [Idle EXCEPT !.kind = command.kind, !.config = command.config,
                              !.phase = IF command.kind = "autostart" THEN "entry" ELSE "ask"]]
        /\ task' = task /\ client[c].phase = "off" /\ command.kind # "window"
    BY <1>3 DEF Begin, Phase
  <2>2. /\ client'[c].kind = command.kind /\ client'[c].executors = {}
        /\ client'[c].phase = IF command.kind = "autostart" THEN "entry" ELSE "ask"
        /\ task'[c].step = "none"
    BY <1>1, <2>1 DEF Idle, InOrder, TaskFits, Phase
  <2>3. InOrder(c)'
    BY <2>1, <2>2 DEF InOrder, TaskFits, ExecutedOnce, PreviewHolds, WritesShown, Kind, Phase
  <2> QED BY <1>1, <2>1, <2>3, OthersInOrder
<1>4. ASSUME NEW a \in Agent, Edit(c, a, command) PROVE \A d \in Client : InOrder(d)'
  <2>1. /\ client' = [client EXCEPT ![c] = [Idle EXCEPT !.phase = "save", !.kind = "window",
                                                        !.config = command.config]]
        /\ task' = [task EXCEPT ![c] = [step |-> "edit", at |-> a, config |-> command.config]]
    BY <1>4 DEF Edit
  <2>2. /\ client'[c].kind = "window" /\ client'[c].executors = {} /\ client'[c].phase = "save"
        /\ task'[c].step = "edit" /\ task'[c].at = a
        /\ task'[c].config = client'[c].config
    BY <1>1, <2>1 DEF Idle
  <2>3. InOrder(c)'
    BY <2>2 DEF InOrder, TaskFits, ExecutedOnce, PreviewHolds, WritesShown, Kind, Phase
  <2> QED BY <1>1, <2>1, <2>3, OthersInOrder
<1> QED BY <1>2, <1>3, <1>4

\* ... its execution, which writes what was shown, ...
LEMMA ExecuteInOrder ==
    ASSUME TypeOK, \A d \in Client : InOrder(d), NEW c \in Client, Execute(c)
    PROVE  \A d \in Client : InOrder(d)'
<1>1. /\ client \in [Client -> ClientRecord] /\ task \in [Client -> TaskRecord]
      /\ task[c] \in TaskRecord /\ transfer' = transfer /\ client' = client
  BY DEF TypeOK, StoreTypeOK, ClientRecord, TaskRecord, Execute, ReadCurrent, Merge, Open,
         WriteFile, WriteFails, Apply
<1>2. \A d \in Client \ {c} : task'[d] = task[d]
  BY <1>1 DEF Execute, ReadCurrent, Merge, Open, WriteFile, WriteFails, Apply
<1>3. InOrder(c)'
  <2> USE DEF InOrder, TaskFits, ExecutedOnce, PreviewHolds, WritesShown, Kind, Phase
  <2>1. CASE ReadCurrent(c)
    BY <1>1, <2>1 DEF ReadCurrent, TaskRecord
  <2>2. CASE Merge(c, client[c].version)
    BY <1>1, <2>2 DEF Merge, TaskRecord, Config
  <2>3. CASE Open(c)
    BY <1>1, <2>3 DEF Open, TaskRecord
  <2>4. CASE WriteFile(c) \/ WriteFails(c)
    BY <1>1, <2>4 DEF WriteFile, WriteFails, TaskRecord
  <2>5. CASE Apply(c)
    BY <1>1, <2>5 DEF Apply, TaskRecord
  <2> QED BY <2>1, <2>2, <2>3, <2>4, <2>5 DEF Execute
<1> QED BY <1>1, <1>2, <1>3, OthersInOrder

\* ... and a new transfer file, which no preview has shown.
LEMMA ExportInOrder ==
    ASSUME TypeOK, \A d \in Client : InOrder(d), ExportStep
    PROVE  TypeOK' /\ \A d \in Client : InOrder(d)'
<1>1. PICK p \in Port \cup {None} :
          /\ transfer.version < MaxExports
          /\ transfer' = [version |-> transfer.version + 1, port |-> p]
  BY DEF ExportStep, Export
<1>2. UNCHANGED <<file, memory, task, clash, agentVars, client, history>>
  BY DEF ExportStep, Export
<1>3. transfer'.version = transfer.version + 1 /\ transfer.version \in Nat
  BY <1>1, StoreAssumption DEF TypeOK, StoreTypeOK
<1>4. transfer' \in [version : 0..MaxExports, port : Port \cup {None}]
  BY <1>1, StoreAssumption DEF TypeOK, StoreTypeOK
<1>5. TypeOK'
  BY <1>2, <1>4 DEF TypeOK, StoreTypeOK, AgentTypeOK, agentVars, history
<1>6. ASSUME NEW d \in Client PROVE InOrder(d)'
  <2>1. client[d].version \in Nat
    BY StoreAssumption DEF TypeOK
  <2> QED BY <1>2, <1>3, <2>1
          DEF InOrder, TaskFits, ExecutedOnce, PreviewHolds, WritesShown, Kind, Phase
<1> QED BY <1>5, <1>6
-----------------------------------------------------------------------------
(* Undisturbed commands.                                                   *)

\* The file and the memory of agents are what they were.
LEMMA SettledKept ==
    ASSUME UNCHANGED <<file, life, listening, ideal>>, \A a \in Agent : memory'[a] = memory[a]
    PROVE  /\ Settled => Settled'
           /\ MemoryIs(ideal) => MemoryIs(ideal)'
           /\ \A a \in Agent : Serving(a)' <=> Serving(a)
<1>1. \A a \in Agent : Serving(a)' <=> Serving(a)
  BY DEF Serving
<1> QED BY <1>1 DEF Settled, FileIs, MemoryIs, Loadable, Loaded

\* A step that leaves a command and what it works on alone.
LEMMA InStepKept ==
    ASSUME NEW d \in Client, TaskFits(d),
           UNCHANGED <<file, life, listening, ideal, entry, halfway, clash>>,
           client'[d] = client[d], task'[d] = task[d],
           memory'[d] = memory[d], \A a \in Agent : memory'[a] = memory[a],
           AskingInStep(d), TaskInStep(d)
    PROVE  AskingInStep(d)' /\ TaskInStep(d)'
<1>1. /\ Settled => Settled'
      /\ MemoryIs(ideal) => MemoryIs(ideal)'
      /\ \A a \in Agent : Serving(a)' <=> Serving(a)
  BY SettledKept
<1>2. Phase(d)' = Phase(d) /\ Kind(d)' = Kind(d)
  BY DEF Phase, Kind
<1>3. (EntryOf(d) => EntryOf(d)') /\ (EntryRight => EntryRight')
  BY <1>2 DEF EntryOf, EntryRight
<1>4. Changed(d, ideal)' = Changed(d, ideal)
  BY <1>2 DEF Changed
<1>5. task[d].step \in {"edit", "read"} => memory'[task[d].at] = memory[task[d].at]
  BY DEF TaskFits
<1>6. AskingInStep(d)'
  <2>1. Phase(d) \in {"entry", "ask", "send"} => Settled' /\ memory'[d] = ideal'
    BY <1>1 DEF AskingInStep
  <2>2. Phase(d) \in {"ask", "send"} => EntryOf(d)'
    BY <1>3 DEF AskingInStep
  <2>3. Phase(d) = "save" => Settled' /\ EntryRight' /\ task'[d].step = "edit"
                             /\ Serving(task[d].at)'
    BY <1>1, <1>3 DEF AskingInStep, TaskFits, Serving
  <2> QED BY <1>2, <1>3, <2>1, <2>2, <2>3 DEF AskingInStep, Serving, Phase, Kind
<1>7. TaskInStep(d)'
  <2>1. Executing(d)' => EntryOf(d)' /\ ExecutorRight(d)' /\ MemoryIs(ideal)'
    BY <1>1, <1>3 DEF TaskInStep, ExecutorRight, Serving, Executing
  <2>2. task'[d].step \in {"read", "merge", "open", "ok", "error"} => Settled'
    BY <1>1 DEF TaskInStep
  <2>3. task'[d].step = "apply" => FileIs(task[d].config)'
    BY DEF TaskInStep, FileIs, Loadable, Loaded
  <2>4. /\ task'[d].step \in {"open", "write", "apply"} => task'[d].config = Changed(d, ideal)'
        /\ task'[d].step = "read" => memory'[task'[d].at] = ideal'
        /\ task'[d].step = "merge" => task'[d].config = ideal'
        /\ task'[d].step = "write" => ~clash'[d]
        /\ task'[d].step = "ok" => EntryRight'
        /\ task'[d].step = "error" => EntryOf(d)'
    BY <1>3, <1>4, <1>5 DEF TaskInStep
  <2> QED BY <2>1, <2>2, <2>3, <2>4 DEF TaskInStep
<1> QED BY <1>6, <1>7

\* The only active command moves on, or ends.
LEMMA ActiveMoves ==
    ASSUME OneAtATime, ~disturbed, NEW c \in Client, Active(c), life' = life,
           \A d \in Client \ {c} : client'[d] = client[d] /\ task'[d] = task[d],
           Active(c)' => AskingInStep(c)' /\ TaskInStep(c)',
           ~Active(c)' => Settled' /\ EntryRight'
    PROVE  Undisturbed'
<1>1. \A d \in Client \ {c} : ~Active(d)'
  BY DEF OneAtATime, Active, Phase, Executing
<1>2. AnyActive /\ (AgentStarting' <=> AgentStarting)
  BY DEF AnyActive, AgentStarting
<1>3. OneAtATime'
  BY <1>1, <1>2 DEF OneAtATime
<1>4. InStep' /\ AtRest'
  BY <1>1 DEF InStep, AtRest, AnyActive
<1> QED BY <1>3, <1>4 DEF Undisturbed

\* The only active command ends.
LEMMA ActiveEnds ==
    ASSUME TypeOK, OneAtATime, ~disturbed, NEW c \in Client, Active(c),
           UNCHANGED <<file, life, listening, ideal>>, NEW o \in Ended, Finish(c, o),
           Settled, EntryRight'
    PROVE  Undisturbed'
<1>1. /\ client'[c] = [Idle EXCEPT !.phase = o] /\ task'[c] = NoTask
      /\ \A d \in Client \ {c} : client'[d] = client[d] /\ task'[d] = task[d]
      /\ \A a \in Agent : memory'[a] = memory[a]
  BY FinishTyped
<1>2. ~Active(c)'
  BY <1>1 DEF Active, Phase, Executing, Idle, NoTask
<1>3. Settled'
  BY <1>1, SettledKept
<1> QED BY <1>1, <1>2, <1>3, ActiveMoves

\* What a client does when its command is undisturbed keeps it in step.
LEMMA ClientUndisturbed ==
    ASSUME IInv, NEW c \in Client, ClientStep(c)
    PROVE  Undisturbed'
<1>1. /\ client \in [Client -> ClientRecord] /\ task \in [Client -> TaskRecord]
      /\ client[c] \in ClientRecord /\ task[c] \in TaskRecord
      /\ c \notin Agent /\ memory \in [Proc -> Config] /\ disturbed \in BOOLEAN
  BY StoreAssumption DEF IInv, TypeOK, StoreTypeOK, ClientRecord, TaskRecord
<1>2. /\ UNCHANGED <<file, life, listening, ideal, disturbed, clash>>
      /\ Phase(c) \in {"entry", "ask", "send", "save", "wait"}
  BY DEF ClientStep, SetEntry, RequestRefused, RequestFails, Preview, GetConfig, Send, Save,
         SaveFails, Receive, Lost, Timeout, storeVars, agentVars, history
<1>3. CASE disturbed
  BY <1>2, <1>3 DEF Undisturbed, OneAtATime, InStep, AtRest
<1>4. CASE ~disturbed
  <2>1. Active(c) /\ OneAtATime /\ TypeOK
    BY <1>2 DEF Active, IInv, Undisturbed, Ended
  <2>2. AskingInStep(c) /\ TaskInStep(c) /\ TaskFits(c)
    BY <1>4, <2>1 DEF IInv, Undisturbed, InStep, InOrder
  <2>3. ASSUME \E o \in Ended : Finish(c, o), Settled, EntryRight' PROVE Undisturbed'
    BY <1>2, <1>4, <2>1, <2>3, ActiveEnds
  <2>4. CASE SetEntry(c)
    <3>1. Phase(c) = "entry" /\ Settled /\ EntryRight /\ Kind(c) = "autostart"
          /\ memory[c] = ideal /\ task[c].step = "none" /\ halfway' = halfway
      BY <2>2, <2>4 DEF SetEntry, AskingInStep, TaskFits, history
    <3>2. CASE Finish(c, "failed") /\ UNCHANGED entry
      BY <1>2, <2>3, <3>1, <3>2 DEF EntryRight, Ended
    <3>3. CASE entry' = client[c].config.autostart /\ To(c, "ask") /\ UNCHANGED <<memory, task>>
      <4>1. /\ client'[c].phase = "ask" /\ client'[c].kind = "autostart"
            /\ client'[c].config = client[c].config
            /\ \A d \in Client \ {c} : client'[d] = client[d] /\ task'[d] = task[d]
        BY <1>1, <3>1, <3>3 DEF To, ClientRecord, Kind
      <4>2. Settled' /\ EntryOf(c)'
        BY <1>2, <3>1, <3>3, <4>1, SettledKept DEF EntryOf, Kind, Phase
      <4>3. AskingInStep(c)' /\ TaskInStep(c)'
        BY <1>2, <3>1, <3>3, <4>1, <4>2 DEF AskingInStep, TaskInStep, Executing, Kind, Phase
      <4>4. Active(c)'
        BY <4>1 DEF Active, Phase, Ended
      <4> QED BY <1>2, <1>4, <2>1, <4>1, <4>3, <4>4, ActiveMoves
    <3> QED BY <2>4, <3>2, <3>3 DEF SetEntry
  <2>5. CASE RequestRefused(c) \/ RequestFails(c)
    <3>1. /\ Phase(c) \in {"ask", "send"} /\ EntryAlone(c) /\ entry' = entry
          /\ \E o \in Ended : Finish(c, o)
      BY <2>5 DEF RequestRefused, RequestFails, Ended, agentVars
    <3>2. Settled /\ EntryOf(c) /\ Kind(c) # "window"
      BY <2>2, <3>1 DEF AskingInStep, TaskFits
    <3>3. EntryRight'
      BY <1>2, <3>1, <3>2 DEF EntryAlone, EntryOf, EntryRight
    <3> QED BY <2>3, <3>1, <3>2, <3>3
  <2>6. CASE Preview(c)
    <3>1. /\ Phase(c) = "ask" /\ Settled /\ EntryOf(c) /\ memory[c] = ideal
          /\ task[c].step = "none" /\ UNCHANGED <<memory, task, entry, halfway>>
          /\ Kind(c) = "import"
      BY <2>2, <2>6 DEF Preview, AskingInStep, TaskFits, history, storeVars, agentVars
    <3>2. /\ client'[c].phase = "send" /\ client'[c].kind = "import"
          /\ \A d \in Client \ {c} : client'[d] = client[d] /\ task'[d] = task[d]
      BY <1>1, <2>6, <3>1 DEF Preview, ClientRecord, Kind
    <3>3. Settled' /\ EntryOf(c)'
      BY <1>2, <3>1, <3>2, SettledKept DEF EntryOf, EntryRight, Kind, Phase
    <3>4. AskingInStep(c)' /\ TaskInStep(c)'
      BY <1>2, <3>1, <3>2, <3>3 DEF AskingInStep, TaskInStep, Executing, Kind, Phase
    <3>5. Active(c)'
      BY <3>2 DEF Active, Phase, Ended
    <3> QED BY <1>2, <1>4, <2>1, <3>2, <3>4, <3>5, ActiveMoves
  <2>7. ASSUME Settled, memory[c] = ideal, NEW p \in Route(c)
        PROVE  /\ p \in Agent \cup {c} /\ memory[p] = ideal
               /\ p \in Agent => Serving(p)
               /\ p \notin Agent => \A a \in Agent : ~Serving(a)
    <3>1. CASE socket = None
      <4>1. p = c
        BY <3>1 DEF Route
      <4>2. ASSUME NEW a \in Agent PROVE ~Serving(a)
        <5>1. "socket" \notin listening[a]
          BY <1>4, <3>1, StoreAssumption DEF IInv, AgentsAlone
        <5>2. life[a] \notin {"loaded", "bound"}
          BY <1>4, <2>1 DEF OneAtATime, AnyActive, AgentStarting
        <5> QED BY <5>1, <5>2 DEF IInv, AgentsInOrder, Serving
      <4> QED BY <1>1, <2>7, <4>1, <4>2
    <3>2. CASE socket # None
      <4>1. p \in Agent /\ Serving(p)
        BY <3>2 DEF Route, Reachable, Serving
      <4> QED BY <2>7, <4>1 DEF Settled, MemoryIs
    <3> QED BY <3>1, <3>2
  <2>8. CASE GetConfig(c)
    <3>1. /\ Phase(c) = "ask" /\ Settled /\ EntryOf(c) /\ memory[c] = ideal
          /\ task[c].step = "none" /\ UNCHANGED <<entry, halfway>>
          /\ Kind(c) # "import" /\ Kind(c) # "window"
      BY <2>2, <2>8 DEF GetConfig, AskingInStep, TaskFits, history, agentVars
    <3>2. CASE Finish(c, "failed") /\ Kind(c) = "port"
      <4>1. EntryRight'
        BY <1>2, <3>1, <3>2 DEF EntryOf, EntryRight
      <4> QED BY <2>3, <3>1, <3>2, <4>1 DEF Ended
    <3>3. ASSUME NEW p \in Route(c),
                 client' = [client EXCEPT ![c].phase = "send", ![c].told = memory[p]],
                 UNCHANGED <<memory, task>>
          PROVE  Undisturbed'
      <4>1. memory[p] = ideal
        BY <2>7, <3>1
      <4>2. /\ client'[c].phase = "send" /\ client'[c].kind = client[c].kind
            /\ client'[c].config = client[c].config /\ client'[c].told = ideal
            /\ client'[c].restore = client[c].restore
            /\ \A d \in Client \ {c} : client'[d] = client[d] /\ task'[d] = task[d]
        BY <1>1, <3>3, <4>1 DEF ClientRecord
      <4>3. Settled' /\ EntryOf(c)'
        BY <1>2, <3>1, <3>3, <4>2, SettledKept DEF EntryOf, EntryRight, Kind, Phase
      <4>4. AskingInStep(c)' /\ TaskInStep(c)'
        BY <1>2, <3>1, <3>3, <4>2, <4>3 DEF AskingInStep, TaskInStep, Executing, Kind, Phase
      <4>5. Active(c)'
        BY <4>2 DEF Active, Phase, Ended
      <4> QED BY <1>2, <1>4, <2>1, <4>2, <4>4, <4>5, ActiveMoves
    <3> QED BY <2>8, <3>2, <3>3 DEF GetConfig
  <2>9. CASE Send(c)
    <3>1. /\ Phase(c) = "send" /\ Settled /\ EntryOf(c) /\ memory[c] = ideal
          /\ UNCHANGED <<memory, entry, halfway>> /\ Kind(c) # "window"
          /\ Kind(c) # "import" => client[c].told = ideal
      BY <2>2, <2>9 DEF Send, AskingInStep, TaskFits, history, agentVars
    <3>2. PICK p \in Route(c) :
         /\ task' = [task EXCEPT ![c] =
               IF Kind(c) = "import"
               THEN [step |-> "read", at |-> p, config |-> Default]
               ELSE [step |-> "open", at |-> p, config |-> Changed(c, client[c].told)]]
         /\ client' = [client EXCEPT ![c].phase = "wait", ![c].executors = @ \cup {p}]
      BY <2>9 DEF Send
    <3>3. /\ p \in Agent \cup {c} /\ memory[p] = ideal
          /\ p \in Agent => Serving(p)
          /\ p \notin Agent => \A a \in Agent : ~Serving(a)
      BY <2>7, <3>1
    <3>4. /\ task'[c].at = p /\ task'[c].step = IF Kind(c) = "import" THEN "read" ELSE "open"
          /\ Kind(c) # "import" => task'[c].config = Changed(c, ideal)
          /\ client'[c].phase = "wait" /\ client'[c].kind = client[c].kind
          /\ client'[c].config = client[c].config /\ client'[c].port = client[c].port
          /\ client'[c].restore = client[c].restore
          /\ \A d \in Client \ {c} : client'[d] = client[d] /\ task'[d] = task[d]
      BY <1>1, <3>1, <3>2 DEF ClientRecord
    <3>5. /\ Settled' /\ MemoryIs(ideal)'
          /\ \A a \in Agent : Serving(a)' <=> Serving(a)
      BY <1>2, <3>1, SettledKept DEF Settled
    <3>6. EntryOf(c)' /\ Changed(c, ideal)' = Changed(c, ideal)
      BY <1>2, <3>1, <3>4 DEF EntryOf, EntryRight, Changed, Kind, Phase
    <3>7. ExecutorRight(c)'
      BY <3>3, <3>4, <3>5 DEF ExecutorRight
    <3>8. AskingInStep(c)' /\ TaskInStep(c)'
      BY <1>2, <3>1, <3>3, <3>4, <3>5, <3>6, <3>7
         DEF AskingInStep, TaskInStep, Executing, Kind, Phase
    <3>9. Active(c)'
      BY <3>4 DEF Active, Phase, Ended
    <3> QED BY <1>2, <1>4, <2>1, <3>4, <3>8, <3>9, ActiveMoves
  <2>10. CASE Save(c)
    <3>1. /\ Phase(c) = "save" /\ Settled /\ task[c].step = "edit" /\ task[c].at \in Agent
          /\ Serving(task[c].at) /\ UNCHANGED <<memory, halfway>> /\ Kind(c) = "window"
          /\ task[c].config = client[c].config /\ entry' = client[c].config.autostart
      BY <2>2, <2>10 DEF Save, AskingInStep, TaskFits, history
    <3>2. memory[task[c].at] = ideal
      BY <3>1 DEF Settled, MemoryIs
    <3>3. /\ task'[c].step = "open" /\ task'[c].at = task[c].at
          /\ task'[c].config = client[c].config
          /\ client'[c].phase = "wait" /\ client'[c].kind = client[c].kind
          /\ client'[c].config = client[c].config
          /\ client'[c].restore = ideal.autostart
          /\ \A d \in Client \ {c} : client'[d] = client[d] /\ task'[d] = task[d]
      BY <1>1, <2>10, <3>1, <3>2 DEF Save, ClientRecord, TaskRecord
    <3>4. /\ Settled' /\ MemoryIs(ideal)'
          /\ \A a \in Agent : Serving(a)' <=> Serving(a)
      BY <1>2, <3>1, SettledKept DEF Settled
    <3>5. EntryOf(c)' /\ Changed(c, ideal)' = client[c].config
      BY <1>2, <3>1, <3>3 DEF EntryOf, Changed, Kind, Phase
    <3>6. ExecutorRight(c)'
      BY <3>1, <3>3, <3>4 DEF ExecutorRight
    <3>7. AskingInStep(c)' /\ TaskInStep(c)'
      BY <3>3, <3>4, <3>5, <3>6 DEF AskingInStep, TaskInStep, Executing, Kind, Phase
    <3>8. Active(c)'
      BY <3>3 DEF Active, Phase, Ended
    <3> QED BY <1>2, <1>4, <2>1, <3>3, <3>7, <3>8, ActiveMoves
  <2>11. CASE SaveFails(c)
    <3>1. Settled /\ EntryRight /\ UNCHANGED <<entry, halfway>> /\ Finish(c, "failed")
      BY <2>2, <2>11 DEF SaveFails, AskingInStep, history, agentVars
    <3>2. EntryRight'
      BY <1>2, <3>1 DEF EntryRight
    <3> QED BY <2>3, <3>1, <3>2 DEF Ended
  <2>12. CASE Receive(c)
    <3>1. CASE task[c].step = "ok" /\ Finish(c, "done") /\ UNCHANGED <<entry, halfway>>
      <4>1. Settled /\ EntryRight'
        BY <1>2, <2>2, <3>1 DEF TaskInStep, EntryRight
      <4> QED BY <2>3, <3>1, <4>1 DEF Ended
    <3>2. CASE task[c].step = "error" /\ Finish(c, "failed") /\ RestoreEntry(c)
      <4>1. Settled /\ EntryOf(c)
        BY <2>2, <3>2 DEF TaskInStep
      <4>2. EntryRight'
        BY <1>2, <3>2, <4>1 DEF RestoreEntry, EntryOf, EntryRight
      <4> QED BY <2>3, <3>2, <4>1, <4>2 DEF Ended
    <3> QED BY <2>12, <3>1, <3>2 DEF Receive
  <2>13. CASE Lost(c)
    BY <2>2, <2>13 DEF Lost, AskingInStep
  <2>14. CASE Timeout(c)
    <3>1. /\ Phase(c) = "wait" /\ Kind(c) # "window" /\ UNCHANGED <<memory, task, entry>>
          /\ halfway' = (halfway \/ Kind(c) = "autostart")
          /\ task[c].step \notin {"none", "edit"}
      BY <2>2, <2>14 DEF Timeout, EntryAlone, AskingInStep, history, storeVars, agentVars
    <3>2. /\ client'[c].phase = "failed" /\ client'[c].kind = client[c].kind
          /\ client'[c].config = client[c].config /\ client'[c].port = client[c].port
          /\ client'[c].restore = client[c].restore
          /\ \A d \in Client \ {c} : client'[d] = client[d] /\ task'[d] = task[d]
      BY <1>1, <2>14, <3>1 DEF Timeout, To, ClientRecord
    <3>3. /\ Settled => Settled'
          /\ MemoryIs(ideal) => MemoryIs(ideal)'
          /\ \A a \in Agent : Serving(a)' <=> Serving(a)
      BY <1>2, <3>1, SettledKept
    <3>4. EntryOf(c) => EntryOf(c)' /\ EntryRight'
      BY <1>2, <3>1, <3>2 DEF EntryOf, EntryRight, Kind, Phase
    <3>5. EntryRight => EntryRight'
      BY <1>2, <3>1 DEF EntryRight
    <3>6. Changed(c, ideal)' = Changed(c, ideal)
      BY <1>2, <3>2 DEF Changed, Kind
    <3>7. AskingInStep(c)'
      BY <3>2 DEF AskingInStep, Phase
    <3>8. TaskInStep(c)'
      <4>1. Executing(c)' => EntryOf(c)' /\ ExecutorRight(c)' /\ MemoryIs(ideal)'
        BY <2>2, <3>1, <3>3, <3>4 DEF TaskInStep, ExecutorRight, Executing
      <4>2. task'[c].step = "apply" => FileIs(task[c].config)'
        BY <1>2, <2>2, <3>1 DEF TaskInStep, FileIs, Loadable, Loaded
      <4> QED BY <1>2, <2>2, <3>1, <3>3, <3>4, <3>5, <3>6, <4>1, <4>2 DEF TaskInStep
    <3>9. ~Active(c)' => Settled' /\ EntryRight'
      <4>1. ~Active(c)' => task[c].step \in {"ok", "error"}
        BY <1>1, <3>1, <3>2 DEF Active, Executing, TaskRecord
      <4> QED BY <2>2, <3>3, <3>4, <3>5, <4>1 DEF TaskInStep
    <3> QED BY <1>2, <1>4, <2>1, <3>2, <3>7, <3>8, <3>9, ActiveMoves
  <2> QED BY <2>4, <2>5, <2>6, <2>8, <2>9, <2>10, <2>11, <2>12, <2>13, <2>14 DEF ClientStep
<1> QED BY <1>1, <1>3, <1>4

\* Steps that concern no active command.
LEMMA QuietStep ==
    ASSUME IInv, UNCHANGED <<file, life, listening, ideal, entry, halfway, clash, disturbed>>,
           \A a \in Agent : memory'[a] = memory[a],
           \A d \in Client :
               \/ client'[d] = client[d] /\ task'[d] = task[d] /\ memory'[d] = memory[d]
               \/ ~Active(d) /\ ~Active(d)'
    PROVE  Undisturbed'
<1>1. /\ \A d \in Client : Active(d)' <=> Active(d)
      /\ \A d \in Client : Active(d) => client'[d] = client[d] /\ task'[d] = task[d]
                                         /\ memory'[d] = memory[d]
  BY DEF Active, Phase, Executing
<1>2. (AnyActive' <=> AnyActive) /\ (AgentStarting' <=> AgentStarting)
  BY <1>1 DEF AnyActive, AgentStarting
<1>3. OneAtATime'
  BY <1>1, <1>2 DEF IInv, Undisturbed, OneAtATime
<1>4. ASSUME NEW d \in Client, ~disturbed, Active(d) PROVE AskingInStep(d)' /\ TaskInStep(d)'
  <2>1. AskingInStep(d) /\ TaskInStep(d) /\ TaskFits(d)
    BY <1>4 DEF IInv, Undisturbed, InStep, InOrder
  <2> QED BY <1>1, <1>4, <2>1, InStepKept
<1>5. InStep'
  BY <1>1, <1>4 DEF InStep
<1>6. (Settled => Settled') /\ (EntryRight => EntryRight')
  BY SettledKept DEF EntryRight
<1>7. AtRest'
  BY <1>2, <1>6 DEF IInv, Undisturbed, AtRest
<1> QED BY <1>3, <1>5, <1>7 DEF Undisturbed

\* An answer that nobody reads, and a new transfer file.
LEMMA UnreadUndisturbed ==
    ASSUME IInv, NEW c \in Client, Unread(c)
    PROVE  Undisturbed'
<1>1. TypeOK /\ "failed" \in Ended /\ Finish(c, "failed")
  BY DEF IInv, Ended, Unread
<1>2. /\ client'[c] = [Idle EXCEPT !.phase = "failed"] /\ task'[c] = NoTask
      /\ \A d \in Client \ {c} : client'[d] = client[d] /\ task'[d] = task[d]
      /\ \A a \in Agent : memory'[a] = memory[a]
  BY <1>1, FinishTyped
<1>3. \A d \in Client \ {c} : memory'[d] = memory[d]
  BY <1>1 DEF Finish, TypeOK, StoreTypeOK, Proc
<1>4. ~Active(c) /\ ~Active(c)'
  BY <1>2 DEF Unread, Active, Phase, Executing, Ended, Idle, NoTask
<1>5. UNCHANGED <<file, life, listening, ideal, entry, halfway, clash, disturbed>>
  BY DEF Unread, agentVars, history
<1> QED BY <1>2, <1>3, <1>4, <1>5, QuietStep

\* A command starts when all is settled.
LEMMA BeginUndisturbed ==
    ASSUME IInv, NEW c \in Client, NEW command \in Command,
           Begin(c, command) \/ \E a \in Agent : Edit(c, a, command)
    PROVE  Undisturbed'
<1>1. /\ disturbed' = (disturbed \/ AnyActive \/ AgentStarting) /\ Phase(c) = "off"
      /\ UNCHANGED <<file, life, listening, ideal, entry, halfway>>
  BY DEF Begin, Edit, agentVars
<1>2. CASE disturbed'
  BY <1>2 DEF Undisturbed, OneAtATime, InStep, AtRest
<1>3. CASE ~disturbed'
  <2>1. ~disturbed /\ ~AnyActive /\ ~AgentStarting
    BY <1>1, <1>3
  <2>2. Settled /\ EntryRight /\ TypeOK /\ TaskFits(c)
    BY <2>1 DEF IInv, Undisturbed, AtRest, InOrder
  <2>3. /\ client \in [Client -> ClientRecord] /\ task \in [Client -> TaskRecord]
        /\ memory \in [Proc -> Config] /\ c \in Proc /\ c \notin Agent
    BY <2>2, StoreAssumption DEF TypeOK, StoreTypeOK, ClientRecord, TaskRecord, Proc
  <2>4. ASSUME \A d \in Client \ {c} : client'[d] = client[d] /\ task'[d] = task[d],
               AskingInStep(c)', TaskInStep(c)', Active(c)'
        PROVE  Undisturbed'
    <3>1. \A d \in Client \ {c} : ~Active(d)'
      BY <2>1, <2>4 DEF AnyActive, Active, Phase, Executing
    <3>2. ~AgentStarting'
      BY <1>1, <2>1 DEF AgentStarting
    <3>3. OneAtATime'
      BY <3>1, <3>2 DEF OneAtATime
    <3>4. InStep' /\ AtRest'
      BY <2>4, <3>1 DEF InStep, AtRest, AnyActive
    <3> QED BY <3>3, <3>4 DEF Undisturbed
  <2>5. EntryRight'
    BY <1>1, <2>2 DEF EntryRight
  <2>6. CASE Begin(c, command)
    <3>1. /\ memory' = [memory EXCEPT ![c] = ideal] /\ task' = task
          /\ client' = [client EXCEPT
                   ![c] = [Idle EXCEPT !.kind = command.kind, !.config = command.config,
                              !.phase = IF command.kind = "autostart" THEN "entry" ELSE "ask"]]
          /\ command.kind # "window"
      BY <2>2, <2>6 DEF Begin, Settled, FileIs
    <3>2. /\ memory'[c] = ideal /\ \A a \in Agent : memory'[a] = memory[a]
          /\ client'[c].kind = command.kind
          /\ client'[c].phase = IF command.kind = "autostart" THEN "entry" ELSE "ask"
          /\ task'[c].step = "none"
          /\ \A d \in Client \ {c} : client'[d] = client[d] /\ task'[d] = task[d]
      BY <1>1, <2>2, <2>3, <3>1 DEF Idle, TaskFits, Proc
    <3>3. Settled'
      BY <1>1, <2>2, <3>2, SettledKept
    <3>4. Phase(c)' = "ask" => EntryOf(c)'
      BY <2>5, <3>1, <3>2 DEF EntryOf, Kind, Phase
    <3>5. AskingInStep(c)' /\ TaskInStep(c)'
      BY <1>1, <2>5, <3>2, <3>3, <3>4 DEF AskingInStep, TaskInStep, Executing, Phase
    <3>6. Active(c)'
      BY <3>2 DEF Active, Phase, Ended
    <3> QED BY <2>4, <3>2, <3>5, <3>6
  <2>7. ASSUME NEW a \in Agent, Edit(c, a, command) PROVE Undisturbed'
    <3>1. /\ client'[c].phase = "save" /\ task'[c].step = "edit" /\ task'[c].at = a
          /\ memory' = memory /\ life[a] = "up"
          /\ \A d \in Client \ {c} : client'[d] = client[d] /\ task'[d] = task[d]
      BY <2>3, <2>7 DEF Edit, Idle
    <3>2. Settled' /\ Serving(a)'
      BY <1>1, <2>2, <3>1, SettledKept DEF Serving
    <3>3. AskingInStep(c)'
      BY <2>5, <3>1, <3>2 DEF AskingInStep, Phase
    <3>4. TaskInStep(c)' /\ Active(c)'
      BY <3>1 DEF TaskInStep, Executing, Active, Phase, Ended
    <3> QED BY <2>4, <3>1, <3>3, <3>4
  <2> QED BY <2>6, <2>7
<1> QED BY <1>2, <1>3

\* The execution of an undisturbed command keeps in step: what it writes and
\* applies is its change to the settings as they are.
LEMMA ExecuteUndisturbed ==
    ASSUME IInv, NEW c \in Client, Execute(c)
    PROVE  Undisturbed'
<1>1. /\ client \in [Client -> ClientRecord] /\ task \in [Client -> TaskRecord]
      /\ client[c] \in ClientRecord /\ task[c] \in TaskRecord /\ ideal \in Config
      /\ c \notin Agent /\ memory \in [Proc -> Config] /\ clash \in [Client -> BOOLEAN]
  BY StoreAssumption DEF IInv, TypeOK, StoreTypeOK, ClientRecord, TaskRecord
<1>2. /\ UNCHANGED <<life, listening, entry, halfway, client>>
      /\ Executing(c) /\ \A d \in Client \ {c} : task'[d] = task[d]
  BY <1>1 DEF Execute, ReadCurrent, Merge, Open, WriteFile, WriteFails, Apply, Executing,
              agentVars
<1>3. CASE disturbed'
  BY <1>3 DEF Undisturbed, OneAtATime, InStep, AtRest
<1>4. CASE ~disturbed'
  <2>1. /\ ~disturbed /\ Active(c)
        /\ \/ ReadCurrent(c) /\ ideal' = ideal
           \/ Merge(c, client[c].version) /\ ideal' = ideal
           \/ Open(c) /\ ideal' = ideal
           \/ WriteFile(c) /\ ideal' = ideal
           \/ Apply(c) /\ ideal' = Changed(c, ideal)
    BY <1>2, <1>4 DEF Execute, Active
  <2>2. /\ AskingInStep(c) /\ TaskInStep(c) /\ TaskFits(c) /\ PreviewHolds(c) /\ OneAtATime
        /\ EntryOf(c) /\ ExecutorRight(c) /\ MemoryIs(ideal)
    BY <1>2, <2>1 DEF IInv, Undisturbed, InStep, InOrder, TaskInStep
  <2>3. Phase(c) \in {"wait", "failed"} /\ (Phase(c) = "failed" => EntryRight)
    BY <1>2, <2>2 DEF Executing, TaskFits, EntryOf, EntryRight
  <2>4. ASSUME task'[c].step \notin {"none", "edit"}, TaskInStep(c)',
               task'[c].step \notin {"ok", "error"} => Executing(c)',
               Phase(c) = "failed" /\ task'[c].step \in {"ok", "error"} => Settled' /\ EntryRight'
        PROVE  Undisturbed'
    <3>1. AskingInStep(c)'
      BY <1>2, <2>3, <2>4 DEF AskingInStep, Phase
    <3>2. ~Active(c)' => Settled' /\ EntryRight'
      BY <1>2, <2>3, <2>4 DEF Active, Phase, Ended
    <3> QED BY <1>2, <2>1, <2>2, <2>4, <3>1, <3>2, ActiveMoves
  <2>5. \A a \in Agent : Serving(a)' <=> Serving(a)
    BY <1>2 DEF Serving
  <2>6. ideal' = ideal => EntryOf(c)' /\ (EntryRight => EntryRight')
    BY <1>2, <2>2 DEF EntryOf, EntryRight, Kind, Phase
  <2>7. task'[c].at = task[c].at => ExecutorRight(c)'
    BY <2>2, <2>5 DEF ExecutorRight
  <2>8. ASSUME UNCHANGED <<file, ideal, memory>>, Settled, task'[c].step = "error"
        PROVE  Undisturbed'
    <3>1. Settled'
      BY <1>2, <2>8, SettledKept
    <3>2. TaskInStep(c)'
      BY <2>6, <2>8, <3>1 DEF TaskInStep, Executing
    <3> QED BY <2>3, <2>4, <2>6, <2>8, <3>1, <3>2
  <2>9. CASE ReadCurrent(c) /\ ideal' = ideal
    <3>1. /\ task'[c].step = "merge" /\ task'[c].at = task[c].at /\ task'[c].config = ideal
          /\ UNCHANGED <<file, ideal, memory>> /\ Settled
      BY <1>1, <2>2, <2>9 DEF ReadCurrent, TaskInStep, TaskRecord
    <3>2. Settled' /\ MemoryIs(ideal)'
      BY <1>2, <2>2, <3>1, SettledKept
    <3>3. TaskInStep(c)' /\ Executing(c)'
      BY <2>6, <2>7, <3>1, <3>2 DEF TaskInStep, Executing
    <3> QED BY <2>4, <3>1, <3>3
  <2>10. CASE Merge(c, client[c].version) /\ ideal' = ideal
    <3>1. /\ task[c].step = "merge" /\ task[c].config = ideal /\ Kind(c) = "import"
          /\ UNCHANGED <<file, ideal, memory>> /\ Settled
      BY <1>1, <2>2, <2>10 DEF Merge, TaskInStep, TaskFits
    <3>2. CASE transfer.version # client[c].version
      <4>1. task'[c].step = "error"
        BY <1>1, <2>10, <3>2 DEF Merge, TaskRecord
      <4> QED BY <2>8, <3>1, <4>1
    <3>3. CASE transfer.version = client[c].version
      <4>1. client[c].port = transfer.port
        BY <2>2, <3>1, <3>3 DEF PreviewHolds
      <4>2. /\ task'[c].step = "open" /\ task'[c].at = task[c].at
            /\ task'[c].config = [ideal EXCEPT !.port = IF client[c].port = None THEN @
                                                        ELSE client[c].port]
        BY <1>1, <2>10, <3>1, <3>3, <4>1 DEF Merge, TaskRecord, Config
      <4>3. task'[c].config = Changed(c, ideal)'
        BY <1>2, <3>1, <4>2 DEF Changed, Kind
      <4>4. Settled' /\ MemoryIs(ideal)'
        BY <1>2, <2>2, <3>1, SettledKept
      <4>5. TaskInStep(c)' /\ Executing(c)'
        BY <2>6, <2>7, <3>1, <4>2, <4>3, <4>4 DEF TaskInStep, Executing
      <4> QED BY <2>4, <4>2, <4>5
    <3> QED BY <3>2, <3>3
  <2>11. CASE Open(c) /\ ideal' = ideal
    <3>1. /\ UNCHANGED <<ideal, memory>> /\ Settled /\ task[c].config = Changed(c, ideal)
          /\ task[c].step = "open"
      BY <1>1, <2>2, <2>11 DEF Open, TaskInStep
    <3>2. CASE task' = [task EXCEPT ![c].step = "error"] /\ UNCHANGED file
      BY <1>1, <2>8, <3>1, <3>2 DEF TaskRecord
    <3>3. CASE task' = [task EXCEPT ![c].step = "write"] /\ clash' = [clash EXCEPT ![c] = FALSE]
      <4>1. /\ task'[c].step = "write" /\ task'[c].at = task[c].at
            /\ task'[c].config = task[c].config /\ ~clash'[c]
        BY <1>1, <3>3 DEF TaskRecord
      <4>2. MemoryIs(ideal)'
        BY <2>2, <2>5, <3>1 DEF MemoryIs
      <4>3. task'[c].config = Changed(c, ideal)'
        BY <1>2, <3>1, <4>1 DEF Changed, Kind
      <4>4. TaskInStep(c)' /\ Executing(c)'
        BY <2>6, <2>7, <3>1, <4>1, <4>2, <4>3 DEF TaskInStep, Executing
      <4> QED BY <2>4, <4>1, <4>4
    <3> QED BY <2>11, <3>2, <3>3 DEF Open
  <2>12. CASE WriteFile(c) /\ ideal' = ideal
    <3>1. /\ UNCHANGED <<ideal, memory>> /\ task[c].config = Changed(c, ideal)
          /\ task[c].step = "write" /\ ~clash[c]
      BY <1>1, <2>1, <2>2, <2>12 DEF WriteFile, TaskInStep
    <3>2. /\ task'[c].step = "apply" /\ task'[c].at = task[c].at
          /\ task'[c].config = task[c].config
          /\ file' = [kind |-> "whole", config |-> task[c].config]
      BY <1>1, <2>12, <3>1 DEF WriteFile, TaskRecord
    <3>3. MemoryIs(ideal)'
      BY <2>2, <2>5, <3>1 DEF MemoryIs
    <3>4. task'[c].config = Changed(c, ideal)'
      BY <1>2, <3>1, <3>2 DEF Changed, Kind
    <3>5. FileIs(task[c].config)'
      BY <3>2 DEF FileIs, Loadable, Loaded
    <3>6. TaskInStep(c)' /\ Executing(c)'
      BY <2>6, <2>7, <3>1, <3>2, <3>3, <3>4, <3>5 DEF TaskInStep, Executing
    <3> QED BY <2>4, <3>2, <3>6
  <2>13. CASE Apply(c) /\ ideal' = Changed(c, ideal)
    <3>1. /\ ideal' = task[c].config /\ task[c].config = Changed(c, ideal) /\ file' = file
          /\ task[c].step = "apply" /\ FileIs(task[c].config)
          /\ memory' = [memory EXCEPT ![task[c].at] = task[c].config]
          /\ task'[c].step = "ok"
      BY <1>1, <2>1, <2>2, <2>13 DEF Apply, TaskInStep, TaskRecord
    <3>2. FileIs(ideal)'
      BY <3>1 DEF FileIs, Loadable, Loaded
    <3>3. ASSUME NEW a \in Agent, Serving(a) PROVE memory'[a] = ideal'
      <4>1. task[c].at \in Agent /\ Serving(task[c].at)
        BY <2>2, <3>3 DEF ExecutorRight
      <4>2. life[a] # "down" /\ life[task[c].at] # "down"
        BY <3>3, <4>1 DEF IInv, AgentsInOrder, Serving
      <4>3. a = task[c].at
        BY <2>1, <4>1, <4>2 DEF IInv, AgentsAlone
      <4> QED BY <1>1, <3>1, <4>3 DEF Proc
    <3>4. Settled'
      BY <2>5, <3>2, <3>3 DEF Settled, MemoryIs
    <3>5. EntryRight'
      BY <1>1, <1>2, <2>2, <3>1, ChangedTyped DEF EntryOf, EntryRight
    <3>6. TaskInStep(c)'
      BY <3>1, <3>4, <3>5 DEF TaskInStep, Executing
    <3> QED BY <2>4, <3>1, <3>4, <3>5, <3>6
  <2> QED BY <2>1, <2>9, <2>10, <2>11, <2>12, <2>13
<1> QED BY <1>3, <1>4

\* Agents that start and end, undisturbed, do so alone and when all is settled.
LEMMA AgentHolds ==
    ASSUME IInv, NEW a \in Agent, AgentStep(a)
    PROVE  AgentsInOrder' /\ AgentsAlone' /\ (\A c \in Client : InOrder(c)') /\ Undisturbed'
<1>1. /\ life \in [Agent -> {"down", "loaded", "bound", "up", "stopping"}]
      /\ listening \in [Agent -> SUBSET {"port", "socket"}]
      /\ memory \in [Proc -> Config] /\ task \in [Client -> TaskRecord] /\ a \in Proc
  BY DEF IInv, TypeOK, StoreTypeOK, AgentTypeOK, TaskRecord, Proc
<1>2. /\ \A c \in Client : task'[c] = task[c] \/ task'[c] = NoTask
      /\ \A b \in Agent \ {a} : life'[b] = life[b] /\ listening'[b] = listening[b]
                                 /\ memory'[b] = memory[b]
      /\ UNCHANGED <<file, transfer, client, ideal, halfway>>
  BY <1>1 DEF AgentStep, Starting, Stopping, Build, Listen, BindSocket, Cancel, ClosePort,
              CloseSocket, Exit, Die, End, Abandon, StoreIdle, storeVars, Proc
<1>3. \A c \in Client : InOrder(c)'
  BY <1>2, OthersInOrder DEF IInv
<1>4. /\ life[a] = "up" => "socket" \in listening[a]
      /\ "socket" \in listening[a] => life[a] \in {"up", "stopping"}
  BY DEF IInv, AgentsInOrder
<1>5. AgentsInOrder'
  <2>1. /\ life'[a] = "up" => "socket" \in listening'[a]
        /\ "socket" \in listening'[a] => life'[a] \in {"up", "stopping"}
    BY <1>1, <1>4 DEF AgentStep, Starting, Stopping, Build, Listen, BindSocket, Cancel,
                      ClosePort, CloseSocket, Exit, Die, End
  <2> QED BY <1>2, <2>1 DEF IInv, AgentsInOrder
<1>6. CASE disturbed'
  BY <1>3, <1>5, <1>6 DEF AgentsAlone, Undisturbed, OneAtATime, InStep, AtRest
<1>7. CASE ~disturbed'
  <2>1. ~disturbed /\ ~AnyActive /\ (life[a] = "down" => \A b \in Agent : life[b] = "down")
    BY <1>7 DEF AgentStep
  <2>2. \A b \in Agent \ {a} : life[b] = "down" /\ "socket" \notin listening[b]
    BY <2>1 DEF IInv, AgentsInOrder, AgentsAlone
  <2>3. "socket" \in listening'[a] => socket' = a
    BY <1>1, <1>4, <2>1 DEF AgentStep, Starting, Stopping, Build, Listen, BindSocket, Cancel,
              ClosePort, CloseSocket, Exit, Die, End, IInv, AgentsAlone
  <2>4. AgentsAlone'
    BY <1>2, <2>2, <2>3 DEF AgentsAlone
  <2>5. ~AnyActive'
    BY <1>2, <2>1 DEF AnyActive, Active, Executing, Phase, NoTask
  <2>6. Settled /\ EntryRight
    BY <2>1 DEF IInv, Undisturbed, AtRest
  <2>7. Serving(a)' => memory'[a] = ideal
    BY <1>1, <1>4, <2>6 DEF AgentStep, Starting, Stopping, Build, Listen, BindSocket, Cancel,
              ClosePort, CloseSocket, Exit, Die, End, storeVars, Serving, Settled, MemoryIs,
              FileIs
  <2>8. Settled'
    <3>1. MemoryIs(ideal)'
      BY <1>2, <2>2, <2>7 DEF MemoryIs, Serving
    <3> QED BY <1>2, <2>6, <3>1 DEF Settled, FileIs, Loadable, Loaded
  <2>9. EntryRight'
    <3>1. CASE BindSocket(a)
      <4>1. memory[a] = ideal
        BY <2>6, <3>1 DEF BindSocket, Settled, MemoryIs, Serving
      <4> QED BY <1>2, <2>6, <3>1, <4>1 DEF BindSocket, SyncEntry, EntryRight
    <3>2. CASE ~BindSocket(a)
      BY <1>2, <2>6, <3>2 DEF AgentStep, Starting, Stopping, Build, Listen, Cancel, ClosePort,
              CloseSocket, Exit, Die, End, EntryRight
    <3> QED BY <3>1, <3>2
  <2>10. Undisturbed'
    BY <2>5, <2>8, <2>9 DEF Undisturbed, OneAtATime, InStep, AtRest, AnyActive
  <2> QED BY <1>3, <1>5, <2>4, <2>10
<1> QED BY <1>6, <1>7

\* Commands leave the agents' lives and listeners alone.
LEMMA AgentsKept ==
    ASSUME AgentsInOrder, AgentsAlone, UNCHANGED <<life, listening, socket>>,
           ~disturbed' => ~disturbed
    PROVE  AgentsInOrder' /\ AgentsAlone'
  BY DEF AgentsInOrder, AgentsAlone
-----------------------------------------------------------------------------
\* Nothing runs, and nothing has been changed, in the beginning.
LEMMA InitHolds == Init => IInv
<1> SUFFICES ASSUME Init PROVE IInv
  OBVIOUS
<1>1. /\ \A c \in Client : client[c] = Idle /\ task[c] = NoTask
      /\ \A a \in Agent : life[a] = "down" /\ listening[a] = {}
      /\ file = [kind |-> "missing", config |-> Default] /\ ideal = Default
      /\ entry = FALSE
  BY DEF Init, StoreInit, AgentInit
<1>2. TypeOK
  <2>1. StoreTypeOK
    BY Defaults, StoreAssumption DEF Init, StoreInit, StoreTypeOK, TaskRecord
  <2>2. AgentTypeOK
    <3>1. 0 \in 0..MaxStarts /\ DefaultPort \in Port
      BY StoreAssumption, AgentAssumption
    <3> QED BY <3>1 DEF Init, AgentInit, AgentTypeOK
  <2>3. client \in [Client -> ClientRecord]
    BY Defaults DEF Init
  <2> QED BY <2>1, <2>2, <2>3, Defaults DEF TypeOK, Init, ClientRecord
<1>3. AgentsInOrder /\ AgentsAlone
  BY <1>1 DEF AgentsInOrder, AgentsAlone
<1>4. ASSUME NEW c \in Client PROVE InOrder(c) /\ ~Active(c)
  BY <1>1 DEF InOrder, TaskFits, ExecutedOnce, PreviewHolds, WritesShown, Kind, Phase, Idle,
              NoTask, Active, Executing, Ended
<1>5. Settled /\ EntryRight
  BY <1>1 DEF Settled, FileIs, MemoryIs, Serving, Loadable, Loaded, EntryRight, Default
<1> QED BY <1>2, <1>3, <1>4, <1>5
        DEF IInv, Undisturbed, OneAtATime, InStep, AtRest, AnyActive

\* Every step of a client, an execution or an agent keeps the invariant.
LEMMA StepHolds == IInv /\ [Next]_vars => IInv'
<1> SUFFICES ASSUME IInv, [Next]_vars PROVE IInv'
  OBVIOUS
<1>1. TypeOK /\ AgentsInOrder /\ AgentsAlone /\ \A c \in Client : InOrder(c)
  BY DEF IInv
<1>2. ASSUME NEW c \in Client, NEW command \in Command,
             Begin(c, command) \/ \E a \in Agent : Edit(c, a, command)
      PROVE  IInv'
  <2>1. UNCHANGED <<life, listening, socket>> /\ (~disturbed' => ~disturbed)
    BY <1>2 DEF Begin, Edit, agentVars
  <2>2. /\ client' \in [Client -> ClientRecord] /\ memory' \in [Proc -> Config]
        /\ task' \in [Client -> TaskRecord]
    BY <1>1, <1>2, BeginTyped
  <2>3. /\ UNCHANGED <<file, clash, transfer, life, listening, port, socket, entry, starts,
                       ideal, halfway>>
        /\ disturbed' \in BOOLEAN
    BY <1>2 DEF Begin, Edit, agentVars
  <2>4. TypeOK'
    BY <1>1, <2>2, <2>3 DEF TypeOK, StoreTypeOK, AgentTypeOK, ClientRecord, TaskRecord
  <2> QED BY <1>1, <1>2, <2>1, <2>4, AgentsKept, BeginInOrder, BeginUndisturbed DEF IInv
<1>3. ASSUME NEW c \in Client, ClientStep(c) \/ Unread(c) PROVE IInv'
  <2>1. UNCHANGED <<life, listening, socket, disturbed>>
    BY <1>3 DEF ClientStep, SetEntry, RequestRefused, RequestFails, Preview, GetConfig, Send,
                Save, SaveFails, Receive, Lost, Timeout, Unread, agentVars, history
  <2>2. UNCHANGED <<file, clash, transfer, port, starts, ideal>>
    BY <1>3 DEF ClientStep, SetEntry, RequestRefused, RequestFails, Preview, GetConfig, Send,
                Save, SaveFails, Receive, Lost, Timeout, Unread, storeVars, agentVars, history
  <2>3. /\ client' \in [Client -> ClientRecord] /\ memory' \in [Proc -> Config]
        /\ task' \in [Client -> TaskRecord] /\ entry' \in BOOLEAN /\ halfway' \in BOOLEAN
    BY <1>1, <1>3, ClientTyped DEF InOrder
  <2>4. TypeOK'
    BY <1>1, <2>1, <2>2, <2>3 DEF TypeOK, StoreTypeOK, AgentTypeOK, ClientRecord, TaskRecord
  <2>5. Undisturbed'
    BY <1>3, ClientUndisturbed, UnreadUndisturbed
  <2>6. \A d \in Client : InOrder(d)'
    BY <1>1, <1>3, ClientInOrder
  <2> QED BY <1>1, <2>1, <2>4, <2>5, <2>6, AgentsKept DEF IInv
<1>4. ASSUME NEW c \in Client, Execute(c) PROVE IInv'
  <2>1. UNCHANGED <<life, listening, socket>> /\ (~disturbed' => ~disturbed)
    BY <1>4 DEF Execute, agentVars
  <2>2. TypeOK'
    BY <1>1, <1>4, ExecuteTyped DEF InOrder
  <2> QED BY <1>1, <1>4, <2>1, <2>2, AgentsKept, ExecuteInOrder, ExecuteUndisturbed DEF IInv
<1>5. ASSUME NEW a \in Agent, AgentStep(a) PROVE IInv'
  BY <1>1, <1>5, AgentTyped, AgentHolds DEF IInv
<1>6. CASE ExportStep
  <2>1. /\ UNCHANGED <<life, listening, socket>>
        /\ UNCHANGED <<file, ideal, entry, halfway, clash, disturbed, memory, client, task>>
    BY <1>6 DEF ExportStep, Export, agentVars, history
  <2>2. Undisturbed'
    BY <2>1, QuietStep
  <2> QED BY <1>1, <1>6, <2>1, <2>2, AgentsKept, ExportInOrder DEF IInv
<1>7. CASE UNCHANGED vars
  <2>1. UNCHANGED <<file, memory, task, clash, transfer, life, listening, port, socket, entry,
                    starts, client, ideal, disturbed, halfway>>
    BY <1>7 DEF vars, storeVars, agentVars, history
  <2>2. TypeOK'
    BY <1>1, <2>1 DEF TypeOK, StoreTypeOK, AgentTypeOK
  <2>3. Undisturbed'
    BY <2>1, QuietStep
  <2> QED BY <1>1, <2>1, <2>2, <2>3, AgentsKept, OthersInOrder DEF IInv
<1> QED BY <1>2, <1>3, <1>4, <1>5, <1>6, <1>7 DEF Next

\* The inductive invariant holds in every state, for any agents, clients,
\* commands and ports.
THEOREM CommandInvariance == Spec => []IInv
  BY InitHolds, StepHolds, PTL DEF Spec

\* Store, agents and clients keep their types (state.rs, agent.rs, client.rs).
THEOREM CommandTypes == Spec => []TypeOK
<1>1. IInv => TypeOK
  BY DEF IInv
<1> QED BY <1>1, CommandInvariance, PTL

\* A change is executed by one process at most, whatever ends, restarts or does
\* not answer in time (CommandService::execute, exchange).
THEOREM ExecutedAtMostOnce == Spec => []AtMostOnce
<1>1. IInv => AtMostOnce
  <2> SUFFICES ASSUME IInv, NEW c \in Client PROVE Cardinality(client[c].executors) <= 1
    BY DEF AtMostOnce
  <2>1. \A p, q \in client[c].executors : p = q
    BY DEF IInv, InOrder, ExecutedOnce
  <2>2. CASE client[c].executors = {}
    <3>1. Cardinality({}) = 0
      BY FS_EmptySet
    <3> QED BY <2>2, <3>1
  <2>3. ASSUME NEW p \in client[c].executors PROVE Cardinality(client[c].executors) <= 1
    <3>1. client[c].executors = {p}
      BY <2>1, <2>3
    <3>2. Cardinality({p}) = 1
      BY FS_Singleton
    <3> QED BY <3>1, <3>2
  <2> QED BY <2>2, <2>3
<1> QED BY <1>1, CommandInvariance, PTL

\* An import writes what was previewed: a file that was replaced meanwhile has
\* another hash and is refused (ImportConfig).
THEOREM ImportsAsConfirmed == Spec => []ConfirmedImport
<1>1. IInv => ConfirmedImport
  BY DEF IInv, InOrder, WritesShown, ConfirmedImport
<1> QED BY <1>1, CommandInvariance, PTL

\* Changes that do not meet add up, in the file, in the agent's memory and in the
\* autostart entry, made with an agent or without (save_config, build_service).
THEOREM ChangesAddUp == Spec => []CommandsAccumulate
<1>1. IInv => CommandsAccumulate
  <2> SUFFICES ASSUME IInv, ~disturbed, ~AnyActive
               PROVE  /\ Loadable /\ Loaded = ideal
                      /\ \A a \in Agent : life[a] = "up" => memory[a] = ideal
                      /\ halfway \/ entry = ideal.autostart
    BY DEF CommandsAccumulate
  <2>1. Settled /\ EntryRight
    BY DEF IInv, Undisturbed, AtRest
  <2> QED BY <2>1 DEF Settled, FileIs, MemoryIs, Serving, EntryRight
<1> QED BY <1>1, CommandInvariance, PTL
=============================================================================
