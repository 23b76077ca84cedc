----------------------------- MODULE ConfigStore -----------------------------
(***************************************************************************)
(* The configuration: one file, and a copy in the memory of every process  *)
(* that works with it. save_config writes the file and then the copy of    *)
(* its own process (crates/runtime/src/state.rs, crates/core/src/config.rs)*)
(* without a lock around the two; ImportConfig reads the copy, merges a    *)
(* transfer file into it and saves the result                              *)
(* (crates/runtime/src/command_executor.rs, crates/cli/src/                *)
(* config_transfer.rs). A task is the execution of one such command, in    *)
(* the process at; LocalCommands says who starts it and who reads its      *)
(* answer.                                                                 *)
(***************************************************************************)
EXTENDS Integers

CONSTANTS Agent,        \* processes that serve commands
          Client,       \* processes or windows that issue one command each
          Port,         \* service ports; stands for all settings but one
          DefaultPort,
          MaxExports,   \* bound: times the transfer file is written anew
          None

ASSUME StoreAssumption ==
    /\ Agent \cap Client = {}
    /\ None \notin Agent \cup Client \cup Port
    /\ DefaultPort \in Port
    /\ MaxExports \in Nat

Proc == Agent \cup Client
Config == [port : Port, autostart : BOOLEAN]
Default == [port |-> DefaultPort, autostart |-> FALSE]

VARIABLES
    file,      \* the configuration file: missing, torn or whole
    memory,    \* AgentState.config of each process
    task,      \* the execution of each client's command
    clash,     \* another task wrote the file since this one truncated it
    transfer   \* the transfer file; a port is optional in it

storeVars == <<file, memory, task, clash, transfer>>

NoTask == [step |-> "none", at |-> None, config |-> Default]

StoreInit ==
    /\ file = [kind |-> "missing", config |-> Default]
    /\ memory = [p \in Proc |-> Default]
    /\ task = [c \in Client |-> NoTask]
    /\ clash = [c \in Client |-> FALSE]
    /\ transfer \in [version : {0}, port : Port]
-----------------------------------------------------------------------------
\* AgentConfig::load; a torn file is an error.
Loadable == file.kind # "torn"
Loaded == file.config

\* The steps in which a command is being executed.
Executing(c) == task[c].step \in {"read", "merge", "open", "write", "apply"}

\* Mutant: the hash of the previewed file is not compared.
MergeAnything(c, seen) ==
    /\ task[c].step = "merge"
    /\ task' = [task EXCEPT ![c].step = "open",
                            ![c].config.port = IF transfer.port = None THEN @ ELSE transfer.port]
    /\ UNCHANGED <<file, memory, clash, transfer>>

\* ImportConfig: the current configuration is copied first, ...
ReadCurrent(c) ==
    /\ task[c].step = "read"
    /\ task' = [task EXCEPT ![c].step = "merge", ![c].config = memory[task[c].at]]
    /\ UNCHANGED <<file, memory, clash, transfer>>

\* ... then the transfer file is read; it must be the one that was previewed.
\* merge_payload takes from it what it has.
Merge(c, seen) ==
    /\ task[c].step = "merge"
    /\ task' = IF transfer.version = seen
               THEN [task EXCEPT ![c].step = "open",
                         ![c].config.port = IF transfer.port = None THEN @ ELSE transfer.port]
               ELSE [task EXCEPT ![c].step = "error"]
    /\ UNCHANGED <<file, memory, clash, transfer>>

\* save_config: an entry is not valid or the file cannot be opened; or fs::write
\* opens the file, which empties it.
Open(c) ==
    /\ task[c].step = "open"
    /\ \/ task' = [task EXCEPT ![c].step = "error"] /\ UNCHANGED <<file, clash>>
       \/ /\ task' = [task EXCEPT ![c].step = "write"]
          /\ file' = [kind |-> "torn", config |-> Default]
          /\ clash' = [clash EXCEPT ![c] = FALSE]
    /\ UNCHANGED <<memory, transfer>>

\* Others that have the file open will write over what is there now.
Disturb(c) == clash' = [d \in Client |-> clash[d] \/ (d # c /\ task[d].step = "write")]

\* A shorter text over a longer one leaves the tail of the latter.
WriteFile(c) ==
    /\ task[c].step = "write"
    /\ task' = [task EXCEPT ![c].step = "apply"]
    /\ \/ file' = [kind |-> "whole", config |-> task[c].config]
       \/ clash[c] /\ file' = [kind |-> "torn", config |-> Default]
    /\ Disturb(c)
    /\ UNCHANGED <<memory, transfer>>

WriteFails(c) ==
    /\ task[c].step = "write"
    /\ task' = [task EXCEPT ![c].step = "error"]
    /\ file' = [kind |-> "torn", config |-> Default]
    /\ Disturb(c)
    /\ UNCHANGED <<memory, transfer>>

Apply(c) ==
    /\ task[c].step = "apply"
    /\ memory' = [memory EXCEPT ![task[c].at] = task[c].config]
    /\ task' = [task EXCEPT ![c].step = "ok"]
    /\ UNCHANGED <<file, clash, transfer>>

\* The process p is gone, and what it was executing with it. An answer that was
\* on its way counts as read before.
Abandon(p) ==
    task' = [c \in Client |-> IF task[c].at = p THEN NoTask ELSE task[c]]

\* ExportConfig by some process p, over an earlier file or not: each file has
\* a salt of its own and is told from every other by its hash.
Export(p, port) ==
    /\ transfer.version < MaxExports
    /\ port \in {memory[p].port, None}
    /\ transfer' = [version |-> transfer.version + 1, port |-> port]
    /\ UNCHANGED <<file, memory, task, clash>>
-----------------------------------------------------------------------------
StoreTypeOK ==
    /\ file \in [kind : {"missing", "torn", "whole"}, config : Config]
    /\ memory \in [Proc -> Config]
    /\ task \in [Client -> [step : {"none", "edit", "read", "merge", "open", "write", "apply",
                                    "ok", "error"},
                            at : Proc \cup {None}, config : Config]]
    /\ clash \in [Client -> BOOLEAN]
    /\ transfer \in [version : 0..MaxExports, port : Port \cup {None}]
=============================================================================
