---------------------------- MODULE LocalCommands ----------------------------
(***************************************************************************)
(* Commands that change the configuration, issued from the command line or *)
(* from the window of a desktop agent, with the agents and the store they  *)
(* work on. A command line process loads the configuration for itself,     *)
(* asks for the present one (or for a preview of a transfer file), and     *)
(* sends the change (crates/cli/src/parser.rs, service.rs, client.rs;      *)
(* apps/desktop/src-tauri/src/cli.rs; apps/server/src/main.rs). Each of    *)
(* the two requests goes to the running agent or, if the socket path is    *)
(* missing, is executed by the process itself. A window belongs to its     *)
(* agent's process and saves all settings it shows                         *)
(* (apps/desktop/src-tauri/src/commands.rs).                               *)
(***************************************************************************)
EXTENDS LocalAgent, FiniteSets

CONSTANT Command   \* commands that clients may issue

\* One setting from the command line, an import, or all settings of a window.
ASSUME CommandAssumption ==
    Command \subseteq [kind : {"port", "autostart", "import", "window"}, config : Config]

VARIABLES
    client,     \* the clients, see Client record below
    ideal,      \* history: the settings, with all completed changes
    disturbed,  \* history: something happened at the same time, or half
    halfway     \* history: a command that failed had set the entry already

history == <<ideal, disturbed, halfway>>
vars == <<storeVars, agentVars, client, history>>

\* phase: where the client is; kind and config: its command; told: the
\* configuration it was told; version and port: the transfer file it was shown;
\* restore: the entry a window puts back if saving fails; executors (history):
\* the processes that began to execute the change.
Idle == [phase |-> "off", kind |-> "import", config |-> Default, told |-> Default,
         version |-> 0, port |-> None, restore |-> FALSE, executors |-> {}]

Init ==
    /\ StoreInit
    /\ AgentInit
    /\ client = [c \in Client |-> Idle]
    /\ ideal = Default
    /\ disturbed = FALSE
    /\ halfway = FALSE

Phase(c) == client[c].phase
Kind(c) == client[c].kind
Ended == {"done", "failed", "refused"}

\* What a command makes of a configuration.
Changed(c, config) ==
    CASE Kind(c) = "port" -> [config EXCEPT !.port = client[c].config.port]
      [] Kind(c) = "autostart" -> [config EXCEPT !.autostart = client[c].config.autostart]
      [] Kind(c) = "window" -> client[c].config
      [] Kind(c) = "import" ->
             [config EXCEPT !.port = IF client[c].port = None THEN @ ELSE client[c].port]

Active(c) == Phase(c) \notin Ended \cup {"off"} \/ Executing(c)
AnyActive == \E c \in Client : Active(c)
AgentStarting == \E a \in Agent : life[a] \in {"loaded", "bound"}
-----------------------------------------------------------------------------
(* The command line.                                                       *)

To(c, p) == client' = [client EXCEPT ![c].phase = p]

\* The process or the window is through, and gone.
Finish(c, outcome) ==
    /\ client' = [client EXCEPT ![c] = [Idle EXCEPT !.phase = outcome]]
    /\ memory' = [memory EXCEPT ![c] = Default]
    /\ task' = [task EXCEPT ![c] = NoTask]

\* set_autostart has changed the entry and fails afterwards.
EntryAlone(c) == halfway' = (halfway \/ (Kind(c) = "autostart" /\ Phase(c) # "entry"))

\* build_service: the process loads the configuration for its offline executor.
Begin(c, command) ==
    /\ Phase(c) = "off"
    /\ command.kind # "window"
    /\ IF Loadable
       THEN /\ memory' = [memory EXCEPT ![c] = Loaded]
            /\ client' = [client EXCEPT
                   ![c] = [Idle EXCEPT !.kind = command.kind, !.config = command.config,
                              !.phase = IF command.kind = "autostart" THEN "entry" ELSE "ask"]]
            /\ UNCHANGED task
       ELSE Finish(c, "failed")
    /\ disturbed' = (disturbed \/ AnyActive \/ AgentStarting)
    /\ UNCHANGED <<file, clash, transfer, agentVars, ideal, halfway>>

\* set_autostart changes the entry before anything else.
SetEntry(c) ==
    /\ Phase(c) = "entry"
    /\ \/ entry' = client[c].config.autostart /\ To(c, "ask") /\ UNCHANGED <<memory, task>>
       \/ Finish(c, "failed") /\ UNCHANGED entry
    /\ UNCHANGED <<file, clash, transfer, life, listening, port, socket, starts, history>>

\* CommandService::execute, OnlinePreferred: the processes that may get a
\* request of c. There is no fallback when the connection is refused.
Route(c) == IF socket = None THEN {c} ELSE {a \in Agent : Reachable(a)}

RequestRefused(c) ==
    /\ Phase(c) \in {"ask", "send"}
    /\ Refused
    /\ Finish(c, "refused")
    /\ EntryAlone(c)
    /\ UNCHANGED <<file, clash, transfer, agentVars, ideal, disturbed>>

\* A request to an agent may also fail: it does not answer in time, or ends. A
\* transfer file may not be readable with the password, or the user declines
\* what it would change.
RequestFails(c) ==
    /\ Phase(c) \in {"ask", "send"}
    /\ Kind(c) = "import" \/ \E a \in Agent : Reachable(a)
    /\ Finish(c, "failed")
    /\ EntryAlone(c)
    /\ UNCHANGED <<file, clash, transfer, agentVars, ideal, disturbed>>

\* PreviewConfigImport answers with the hash of the file.
Preview(c) ==
    /\ Phase(c) = "ask"
    /\ Kind(c) = "import"
    /\ Route(c) # {}
    /\ client' = [client EXCEPT ![c].phase = "send", ![c].version = transfer.version,
                                ![c].port = transfer.port]
    /\ UNCHANGED <<storeVars, agentVars, history>>

\* GetConfig. A new port is tried before it is saved.
GetConfig(c) ==
    /\ Phase(c) = "ask"
    /\ Kind(c) # "import"
    /\ \E p \in Route(c) :
         IF Kind(c) = "port" /\ client[c].config.port # memory[p].port
               /\ Occupied(client[c].config.port)
         THEN Finish(c, "failed")
         ELSE /\ client' = [client EXCEPT ![c].phase = "send", ![c].told = memory[p]]
              /\ UNCHANGED <<memory, task>>
    /\ UNCHANGED <<file, clash, transfer, agentVars, history>>

\* SaveConfig with all settings, or ImportConfig, begins to be executed.
Send(c) ==
    /\ Phase(c) = "send"
    /\ \E p \in Route(c) :
         /\ task' = [task EXCEPT ![c] =
               IF Kind(c) = "import"
               THEN [step |-> "read", at |-> p, config |-> Default]
               ELSE [step |-> "open", at |-> p, config |-> Changed(c, client[c].told)]]
         /\ client' = [client EXCEPT ![c].phase = "wait", ![c].executors = @ \cup {p}]
    /\ UNCHANGED <<file, memory, clash, transfer, agentVars, history>>
-----------------------------------------------------------------------------
(* The window.                                                             *)

\* The window shows the settings of its agent; the user edits them.
Edit(c, a, command) ==
    /\ Phase(c) = "off"
    /\ command.kind = "window"
    /\ life[a] = "up"
    /\ client' = [client EXCEPT ![c] = [Idle EXCEPT !.phase = "save", !.kind = "window",
                                                    !.config = command.config]]
    /\ task' = [task EXCEPT ![c] = [step |-> "edit", at |-> a, config |-> command.config]]
    /\ disturbed' = (disturbed \/ AnyActive \/ AgentStarting)
    /\ UNCHANGED <<file, memory, clash, transfer, agentVars, ideal, halfway>>

\* save_config of the desktop: a new port is tried, the entry is changed, then
\* the settings are saved.
Save(c) ==
    LET current == memory[task[c].at] IN
    /\ Phase(c) = "save"
    /\ task[c].step = "edit"
    /\ client[c].config.port # current.port => ~Occupied(client[c].config.port)
    /\ entry' = client[c].config.autostart
    /\ task' = [task EXCEPT ![c].step = "open"]
    /\ client' = [client EXCEPT ![c].phase = "wait", ![c].restore = current.autostart,
                                ![c].executors = @ \cup {task[c].at}]
    /\ UNCHANGED <<file, memory, clash, transfer, life, listening, port, socket, starts,
                   history>>

\* The port is taken, or the entry cannot be changed.
SaveFails(c) ==
    /\ Phase(c) = "save"
    /\ task[c].step = "edit"
    /\ Finish(c, "failed")
    /\ UNCHANGED <<file, clash, transfer, agentVars, history>>

\* Mutant: a window does not put the entry back.
KeepEntry(c) == UNCHANGED <<entry, halfway>>

\* Saving failed: the window puts the entry back, if it can; the command line
\* does not.
RestoreEntry(c) ==
    \/ Kind(c) = "window" /\ entry' = client[c].restore /\ UNCHANGED halfway
    \/ /\ UNCHANGED entry
       /\ halfway' = (halfway \/ Kind(c) \in {"window", "autostart"})
-----------------------------------------------------------------------------
(* The answer.                                                             *)

Receive(c) ==
    /\ Phase(c) = "wait"
    /\ \/ task[c].step = "ok" /\ Finish(c, "done") /\ UNCHANGED <<entry, halfway>>
       \/ task[c].step = "error" /\ Finish(c, "failed") /\ RestoreEntry(c)
    /\ UNCHANGED <<file, clash, transfer, life, listening, port, socket, starts, ideal,
                   disturbed>>

\* The agent, or the process of the window, ended before it answered.
Lost(c) ==
    /\ Phase(c) \in {"wait", "save"}
    /\ task[c].step = "none"
    /\ Finish(c, "failed")
    /\ halfway' = (halfway \/ Kind(c) \in {"autostart", "window"})
    /\ UNCHANGED <<file, clash, transfer, agentVars, ideal, disturbed>>

\* Mutant: no answer in time is taken for an agent that is not running.
TimeoutFallsBack(c) ==
    /\ Phase(c) = "wait"
    /\ task[c].at \in Agent
    /\ Kind(c) # "window"
    /\ task' = [task EXCEPT ![c].at = c, ![c].step = "open"]
    /\ client' = [client EXCEPT ![c].executors = @ \cup {c}]
    /\ UNCHANGED <<file, memory, clash, transfer, agentVars, history>>

\* exchange: the process gives up, the agent goes on.
Timeout(c) ==
    /\ Phase(c) = "wait"
    /\ task[c].at \in Agent
    /\ Kind(c) # "window"
    /\ To(c, "failed")
    /\ EntryAlone(c)
    /\ UNCHANGED <<storeVars, agentVars, ideal, disturbed>>

\* The answer to a process that gave up is dropped.
Unread(c) ==
    /\ Phase(c) = "failed"
    /\ task[c].step \in {"ok", "error"}
    /\ Finish(c, "failed")
    /\ UNCHANGED <<file, clash, transfer, agentVars, history>>

ClientStep(c) ==
    \/ SetEntry(c) \/ RequestRefused(c) \/ RequestFails(c) \/ Preview(c) \/ GetConfig(c)
    \/ Send(c) \/ Save(c) \/ SaveFails(c) \/ Receive(c) \/ Lost(c) \/ Timeout(c)
-----------------------------------------------------------------------------
\* The execution of a command. A change is complete when it is applied.
Execute(c) ==
    /\ \/ /\ ReadCurrent(c) \/ Merge(c, client[c].version) \/ Open(c) \/ WriteFile(c)
          /\ UNCHANGED <<ideal, disturbed>>
       \/ WriteFails(c) /\ disturbed' = TRUE /\ UNCHANGED ideal
       \/ Apply(c) /\ ideal' = Changed(c, ideal) /\ UNCHANGED disturbed
    /\ UNCHANGED <<agentVars, client, halfway>>

\* Starts and ends of agents that fall into a command, or two agents at once,
\* count as disturbances.
AgentStep(a) ==
    /\ Starting(a) \/ Stopping(a)
    /\ disturbed' = (disturbed \/ AnyActive
                        \/ (life[a] = "down" /\ \E b \in Agent : life[b] # "down"))
    /\ UNCHANGED <<client, ideal, halfway>>

ExportStep ==
    /\ \E a \in Agent, p \in Port \cup {None} : life[a] = "up" /\ Export(a, p)
    /\ UNCHANGED <<agentVars, client, history>>

Next ==
    \/ \E c \in Client :
          \/ \E command \in Command :
                Begin(c, command) \/ \E a \in Agent : Edit(c, a, command)
          \/ ClientStep(c)
          \/ Unread(c)
          \/ Execute(c)
    \/ \E a \in Agent : AgentStep(a)
    \/ ExportStep

Spec == Init /\ [][Next]_vars

\* Clients run and their timeouts expire. What a process executes for itself, or
\* an agent for its own window, goes on; an agent may be stuck for all others.
FairSpec ==
    /\ Spec
    /\ \A c \in Client :
          /\ WF_vars(ClientStep(c))
          /\ WF_vars(Execute(c) /\ (task[c].at = c \/ Kind(c) = "window"))
-----------------------------------------------------------------------------
TypeOK ==
    /\ StoreTypeOK
    /\ AgentTypeOK
    /\ client \in [Client -> [phase : {"off", "entry", "ask", "send", "save", "wait"} \cup Ended,
                              kind : {"port", "autostart", "import", "window"},
                              config : Config, told : Config, version : 0..MaxExports,
                              port : Port \cup {None}, restore : BOOLEAN,
                              executors : SUBSET Proc]]
    /\ ideal \in Config
    /\ disturbed \in BOOLEAN /\ halfway \in BOOLEAN

\* A change is executed by one process at most: a command that an agent may have
\* received is never repeated by the client or at another agent, whatever ends,
\* restarts or fails to answer meanwhile.
AtMostOnce == \A c \in Client : Cardinality(client[c].executors) <= 1

\* What an import writes is what its user has confirmed, even if the transfer
\* file is replaced between the preview and the import.
ConfirmedImport ==
    \A c \in Client :
        Kind(c) = "import" /\ task[c].step \in {"open", "write", "apply"} =>
            client[c].port \in {task[c].config.port, None}

\* Commands that do not meet add up: as long as no command, start or end of an
\* agent falls into another command and no write fails, the file, the memory of
\* the running agent and (unless a command failed after changing it) the
\* autostart entry have all completed changes, made with an agent or without.
CommandsAccumulate ==
    ~disturbed /\ ~AnyActive =>
        /\ Loadable /\ Loaded = ideal
        /\ \A a \in Agent : life[a] = "up" => memory[a] = ideal
        /\ halfway \/ entry = ideal.autostart

\* docs/technical.md: commands that may run offline can be executed while no
\* agent runs; they are not refused then.
OfflineWithoutAgent ==
    [][\A c \in Client : Phase(c) # "refused" /\ client'[c].phase = "refused" =>
           \E a \in Agent : life[a] # "down"]_vars
=============================================================================
