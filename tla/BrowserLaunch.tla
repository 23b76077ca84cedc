---------------------------- MODULE BrowserLaunch ----------------------------
(***************************************************************************)
(* Starting a headless browser: the process-wide launch gate, the launch   *)
(* thread, the bounded wait for its answer and the fallback to the next    *)
(* installed browser (crates/runtime/src/html/browser.rs). The callers are *)
(* the renderer of HTML jobs and every doctor command; HtmlRender composes *)
(* them. A caller gives up when its time is over, its launch thread does   *)
(* not: it keeps the gate until Browser::new has returned.                 *)
(***************************************************************************)
EXTENDS Integers

CONSTANTS User,           \* who launches a browser, each of them once
          Timeout,        \* RENDER_TIMEOUT, in ticks of the clock
          MaxCandidates   \* bound: browsers found on the machine

ASSUME LaunchAssumption == Timeout \in Nat \ {0} /\ MaxCandidates \in Nat

VARIABLES
    left,        \* ticks until the deadline of each user
    stage,       \* where each user is
    candidates,  \* browsers each user has not tried yet
    gate,        \* BROWSER_LAUNCH_GATE: a launch is in progress
    thread,      \* the launch thread of each user
    mailbox,     \* the sync_channel(1) between thread and user
    browser,     \* a browser process of the user is running
    profile      \* who keeps the user's temporary profile directory

launchVars == <<left, stage, candidates, gate, thread, mailbox, browser, profile>>

LaunchInit ==
    /\ left = [u \in User |-> 0]
    /\ stage = [u \in User |-> "off"]
    /\ candidates = [u \in User |-> 0]
    /\ gate = FALSE
    /\ thread = [u \in User |-> "none"]
    /\ mailbox = [u \in User |-> "empty"]
    /\ browser = [u \in User |-> FALSE]
    /\ profile = [u \in User |-> {}]
-----------------------------------------------------------------------------
\* The browsers that answer on this machine, in the order of preference.
Locate(u) ==
    /\ stage[u] = "locate"
    /\ stage' = [stage EXCEPT ![u] = "next"]
    /\ candidates' \in {[candidates EXCEPT ![u] = n] : n \in 0..MaxCandidates}
    /\ profile' = [profile EXCEPT ![u] = @ \cup {"launcher"}]
    /\ UNCHANGED <<left, gate, thread, mailbox, browser>>

\* launch_headless_browser returns: its own handle of the profile and the list
\* of candidates are dropped, the browser goes to the caller.
Return(u, answer) ==
    /\ stage' = [stage EXCEPT ![u] = answer]
    /\ profile' = [profile EXCEPT ![u] = @ \ {"launcher"}]
    /\ candidates' = [candidates EXCEPT ![u] = 0]

Unavailable(u) ==
    /\ stage[u] = "next"
    /\ candidates[u] = 0
    /\ Return(u, "lost")
    /\ UNCHANGED <<left, gate, thread, mailbox, browser>>

\* Mutant: an attempt without time is taken for one that failed.
AbortRetries(u) ==
    /\ stage[u] = "next"
    /\ candidates[u] > 0
    /\ UNCHANGED launchVars

\* launch_first_available asks for the time of each attempt; the callers say
\* when there is none left.
Abort(u) ==
    /\ stage[u] = "next"
    /\ candidates[u] > 0
    /\ Return(u, "lost")
    /\ UNCHANGED <<left, gate, thread, mailbox, browser>>

Attempt(u) ==
    /\ stage[u] = "next"
    /\ candidates[u] > 0
    /\ stage' = [stage EXCEPT ![u] = "gate"]
    /\ candidates' = [candidates EXCEPT ![u] = @ - 1]
    /\ UNCHANGED <<left, gate, thread, mailbox, browser, profile>>

\* Mutant: whoever finds no launch in progress goes on without marking his own.
PassesGate(u) ==
    /\ stage[u] = "gate"
    /\ ~gate
    /\ stage' = [stage EXCEPT ![u] = "spawn"]
    /\ UNCHANGED <<left, candidates, gate, thread, mailbox, browser, profile>>

\* BrowserLaunchGuard::acquire: taking the gate does not look at the clock.
TakeGate(u) ==
    /\ stage[u] = "gate"
    /\ ~gate
    /\ gate' = TRUE
    /\ stage' = [stage EXCEPT ![u] = "spawn"]
    /\ UNCHANGED <<left, candidates, thread, mailbox, browser, profile>>

WaitForGate(u) ==
    /\ stage[u] = "gate"
    /\ gate
    /\ IF left[u] > 0
       THEN stage' = [stage EXCEPT ![u] = "wait"] /\ UNCHANGED <<profile, candidates>>
       ELSE Return(u, "lost")
    /\ UNCHANGED <<left, gate, thread, mailbox, browser>>

\* wait_timeout ends; the gate is looked at once more.
WaitTimesOut(u) ==
    /\ stage[u] = "wait"
    /\ left[u] = 0
    /\ stage' = [stage EXCEPT ![u] = "gate"]
    /\ UNCHANGED <<left, candidates, gate, thread, mailbox, browser, profile>>

Waiting == {u \in User : stage[u] = "wait"}

\* condvar.notify_one after the gate was reset: s is the stages without the
\* wake-up.
Notify(s) ==
    stage' \in IF Waiting = {} THEN {s} ELSE {[s EXCEPT ![w] = "gate"] : w \in Waiting}

\* BrowserLaunchGuard::drop
OpenGate(s) == gate' = FALSE /\ Notify(s)

\* With the gate held: no time is left, ...
SpawnTooLate(u) ==
    /\ stage[u] = "spawn"
    /\ left[u] = 0
    /\ OpenGate([stage EXCEPT ![u] = "lost"])
    /\ profile' = [profile EXCEPT ![u] = @ \ {"launcher"}]
    /\ candidates' = [candidates EXCEPT ![u] = 0]
    /\ UNCHANGED <<left, thread, mailbox, browser>>

\* ... the thread cannot be created, ...
SpawnFails(u) ==
    /\ stage[u] = "spawn"
    /\ left[u] > 0
    /\ OpenGate([stage EXCEPT ![u] = "next"])
    /\ UNCHANGED <<left, candidates, thread, mailbox, browser, profile>>

\* ... or it starts and takes the guard with it.
SpawnThread(u) ==
    /\ stage[u] = "spawn"
    /\ left[u] > 0
    /\ stage' = [stage EXCEPT ![u] = "recv"]
    /\ thread' = [thread EXCEPT ![u] = "launching"]
    /\ profile' = [profile EXCEPT ![u] = @ \cup {"thread"}]
    /\ UNCHANGED <<left, candidates, gate, mailbox, browser>>

\* recv_timeout: an error makes launch_first_available try the next candidate.
Recv(u) ==
    /\ stage[u] = "recv"
    /\ \/ mailbox[u] = "browser" /\ Return(u, "got")
       \/ /\ mailbox[u] = "error"
          /\ stage' = [stage EXCEPT ![u] = "next"]
          /\ UNCHANGED <<profile, candidates>>
    /\ mailbox' = [mailbox EXCEPT ![u] = "empty"]
    /\ UNCHANGED <<left, gate, thread, browser>>

\* A launch that timed out ends the search: no further candidate is tried.
RecvTimesOut(u) ==
    /\ stage[u] = "recv"
    /\ mailbox[u] = "empty"
    /\ left[u] = 0
    /\ Return(u, "lost")
    /\ UNCHANGED <<left, gate, thread, mailbox, browser>>

LaunchStep(u) ==
    \/ Locate(u) \/ Unavailable(u) \/ TakeGate(u) \/ WaitForGate(u) \/ WaitTimesOut(u)
    \/ SpawnTooLate(u) \/ SpawnFails(u) \/ SpawnThread(u) \/ Recv(u) \/ RecvTimesOut(u)
-----------------------------------------------------------------------------
(* The browser-launch thread.                                              *)

\* Browser::new returns and the launch closure lets go of the profile.
LaunchEnds(u) ==
    /\ thread[u] = "launching"
    /\ \/ thread' = [thread EXCEPT ![u] = "launched"] /\ browser' = [browser EXCEPT ![u] = TRUE]
       \/ thread' = [thread EXCEPT ![u] = "failed"] /\ UNCHANGED browser
    /\ profile' = [profile EXCEPT ![u] = @ \ {"thread"}]
    /\ UNCHANGED <<left, stage, candidates, gate, mailbox>>

\* Mutant: a browser that nobody waits for any more is not dropped.
SendForgetsBrowser(u) ==
    /\ thread[u] \in {"launched", "failed"}
    /\ thread' = [thread EXCEPT ![u] = "sent"]
    /\ IF stage[u] = "recv"
       THEN mailbox' = [mailbox EXCEPT ![u] =
                            IF thread[u] = "launched" THEN "browser" ELSE "error"]
       ELSE UNCHANGED mailbox
    /\ UNCHANGED <<left, stage, candidates, gate, browser, profile>>

\* Sending to a user who gave up returns the browser, which is dropped.
Send(u) ==
    /\ thread[u] \in {"launched", "failed"}
    /\ thread' = [thread EXCEPT ![u] = "sent"]
    /\ IF stage[u] = "recv"
       THEN /\ mailbox' = [mailbox EXCEPT ![u] =
                               IF thread[u] = "launched" THEN "browser" ELSE "error"]
            /\ UNCHANGED browser
       ELSE /\ browser' = [browser EXCEPT ![u] = FALSE]
            /\ UNCHANGED mailbox
    /\ UNCHANGED <<left, stage, candidates, gate, profile>>

DropGuard(u) ==
    /\ thread[u] = "sent"
    /\ thread' = [thread EXCEPT ![u] = "none"]
    /\ OpenGate(stage)
    /\ UNCHANGED <<left, candidates, mailbox, browser, profile>>

ThreadStep(u) == LaunchEnds(u) \/ Send(u) \/ DropGuard(u)
-----------------------------------------------------------------------------
InLaunch(u) == stage[u] = "spawn" \/ thread[u] # "none"

\* At most one browser is being launched in the process, also when callers give
\* up while their launch goes on; the gate is closed exactly while one is, so
\* that no caller finds it closed forever; and a caller asleep at an open gate
\* has somebody to wake it: one who was woken for it is on the way to the gate,
\* and will wake the next one when it leaves (browser.rs:409).
LaunchGate ==
    /\ \A u, v \in User : InLaunch(u) /\ InLaunch(v) => u = v
    /\ gate <=> \E u \in User : InLaunch(u)
    /\ ~gate /\ Waiting # {} => \E u \in User : stage[u] = "gate"
=============================================================================
