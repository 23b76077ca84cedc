----------------------------- MODULE LocalAgent ------------------------------
(***************************************************************************)
(* The life of agent processes on one machine: loading the configuration   *)
(* (crates/runtime/src/builder.rs), the port guard and the two listeners   *)
(* (agent.rs, agent_guard.rs, ipc/unix.rs), orderly shutdown and sudden    *)
(* end. Nothing but the port keeps two agents from running at once; the    *)
(* socket is a path that belongs to whoever bound it last. The desktop     *)
(* application quits without shutting its agent down, so that its end is   *)
(* as sudden as a crash (apps/desktop/src-tauri/src/tray.rs).              *)
(***************************************************************************)
EXTENDS ConfigStore

CONSTANT MaxStarts   \* bound: agents started

ASSUME AgentAssumption == MaxStarts \in Nat

VARIABLES
    life,       \* where each agent is
    listening,  \* which of its two listeners are open
    port,       \* the port it was started with
    socket,     \* the agent that bound the socket path last, None without the path
    entry,      \* the autostart entry of the desktop
    starts

agentVars == <<life, listening, port, socket, entry, starts>>

AgentInit ==
    /\ life = [a \in Agent |-> "down"]
    /\ listening = [a \in Agent |-> {}]
    /\ port = [a \in Agent |-> DefaultPort]
    /\ socket = None
    /\ entry = FALSE
    /\ starts = 0
-----------------------------------------------------------------------------
StoreIdle == UNCHANGED <<file, task, clash, transfer>>

\* RuntimeBuilder::build
Build(a) ==
    /\ life[a] = "down"
    /\ starts < MaxStarts
    /\ starts' = starts + 1
    /\ IF Loadable
       THEN /\ life' = [life EXCEPT ![a] = "loaded"]
            /\ memory' = [memory EXCEPT ![a] = Loaded]
       ELSE UNCHANGED <<life, memory>>
    /\ StoreIdle
    /\ UNCHANGED <<listening, port, socket, entry>>

Occupied(p) == \E a \in Agent : "port" \in listening[a] /\ port[a] = p

\* AgentRuntime::start: check_agent_port and bind_listener. The port is that of
\* the configuration as it was loaded; one that is taken ends the process.
Listen(a) ==
    /\ life[a] = "loaded"
    /\ IF Occupied(memory[a].port)
       THEN life' = [life EXCEPT ![a] = "down"] /\ UNCHANGED <<listening, port>>
       ELSE /\ life' = [life EXCEPT ![a] = "bound"]
            /\ listening' = [listening EXCEPT ![a] = {"port"}]
            /\ port' = [port EXCEPT ![a] = memory[a].port]
    /\ UNCHANGED <<storeVars, socket, entry, starts>>

\* setup_desktop: once the agent has started, the desktop brings the autostart
\* entry in line, if it can; the server has none.
SyncEntry(a) == entry' \in {entry, memory[a].autostart}

\* ipc::bind_and_spawn removes the path, whoever bound it.
BindSocket(a) ==
    /\ life[a] = "bound"
    /\ life' = [life EXCEPT ![a] = "up"]
    /\ listening' = [listening EXCEPT ![a] = @ \cup {"socket"}]
    /\ socket' = a
    /\ SyncEntry(a)
    /\ UNCHANGED <<storeVars, port, starts>>

\* AgentHandle::shutdown cancels; each listener closes in its own time.
Cancel(a) ==
    /\ life[a] = "up"
    /\ life' = [life EXCEPT ![a] = "stopping"]
    /\ UNCHANGED <<storeVars, listening, port, socket, entry, starts>>

ClosePort(a) ==
    /\ life[a] = "stopping"
    /\ "port" \in listening[a]
    /\ listening' = [listening EXCEPT ![a] = @ \ {"port"}]
    /\ UNCHANGED <<storeVars, life, port, socket, entry, starts>>

\* serve_listener_until removes the path at its end, whoever bound it.
CloseSocket(a) ==
    /\ life[a] = "stopping"
    /\ "socket" \in listening[a]
    /\ listening' = [listening EXCEPT ![a] = @ \ {"socket"}]
    /\ socket' = None
    /\ UNCHANGED <<storeVars, life, port, entry, starts>>

\* The process ends: a listener that was open is closed, the path stays.
End(a) ==
    /\ life' = [life EXCEPT ![a] = "down"]
    /\ listening' = [listening EXCEPT ![a] = {}]
    /\ memory' = [memory EXCEPT ![a] = Default]
    /\ Abandon(a)
    /\ UNCHANGED <<file, clash, transfer, port, socket, entry, starts>>

\* All tasks of the agent have ended; the handlers of commands are not among
\* them.
Exit(a) ==
    /\ life[a] = "stopping"
    /\ listening[a] = {}
    /\ End(a)

\* Quitting the desktop application, or a crash.
Die(a) ==
    /\ life[a] # "down"
    /\ End(a)

Starting(a) == Build(a) \/ Listen(a) \/ BindSocket(a)
Stopping(a) == Cancel(a) \/ ClosePort(a) \/ CloseSocket(a) \/ Exit(a) \/ Die(a)

\* Where a connection to the socket path goes.
Reachable(a) == socket = a /\ "socket" \in listening[a]
Refused == socket # None /\ \A a \in Agent : ~Reachable(a)
-----------------------------------------------------------------------------
AgentTypeOK ==
    /\ life \in [Agent -> {"down", "loaded", "bound", "up", "stopping"}]
    /\ listening \in [Agent -> SUBSET {"port", "socket"}]
    /\ port \in [Agent -> Port]
    /\ socket \in Agent \cup {None}
    /\ entry \in BOOLEAN
    /\ starts \in 0..MaxStarts
=============================================================================
