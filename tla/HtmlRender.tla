----------------------------- MODULE HtmlRender ------------------------------
(***************************************************************************)
(* Rendering an HTML job to PDF: the asynchronous renderer with its        *)
(* deadline, the blocking driver it spawns, the cleanup in print_html_job, *)
(* and next to them the doctor commands, which compete for the launch gate *)
(* (crates/runtime/src/html/browser.rs). The requests that the browser     *)
(* sends meanwhile are FilteringProxy.                                     *)
(*                                                                         *)
(* Time is a countdown to each user's deadline. A call of the browser's    *)
(* CDP interface ends, with a result or an error, within the time that     *)
(* its requests are allowed: that is the library's promise. Any time may   *)
(* pass between two statements. JobPipeline has the rest of the job.       *)
(***************************************************************************)
EXTENDS BrowserLaunch

CONSTANTS Render,      \* the renderer, as a user of the launch gate
          CdpTimeout   \* cdp_operation_timeout, in ticks

ASSUME RenderAssumption ==
    /\ Render \in User
    /\ CdpTimeout \in Nat \ {0}

Doctor == User \ {Render}

VARIABLES
    outer,      \* where print_html_job and BrowserHtmlRenderer::render are
    cancelled,  \* BrowserRenderControl.cancelled
    budget,     \* ticks that the browser call in progress may still last
    result,     \* what the driver returned
    output,     \* the output file exists
    proxy,      \* the accept loop of the proxy: "none", "open" or "closed"
    rejected,   \* RejectedResourceTracker holds a resource
    blocked,    \* the rejection as the renderer read it
    late        \* history: the renderer left without waiting for its driver

control == <<cancelled, budget, result, output>>
proxyVars == <<proxy, rejected>>
vars == <<launchVars, outer, control, proxyVars, blocked, late>>

Init ==
    /\ LaunchInit
    /\ outer = "idle"
    /\ cancelled = FALSE
    /\ budget = 0
    /\ result = "none"
    /\ output = FALSE
    /\ proxy = "none"
    /\ rejected = FALSE
    /\ blocked = FALSE
    /\ late = FALSE
-----------------------------------------------------------------------------
(* The renderer.                                                           *)

\* BrowserRenderControl: at least so much time is left. A check that fails
\* cancels the rendering for everybody.
Active(ticks) == ~cancelled /\ left[Render] >= ticks

LaunchIdle == UNCHANGED <<candidates, gate, thread, mailbox, browser>>

\* The future of render ends: its profile handle and its proxy are dropped.
Leave(to) ==
    /\ outer' = to
    /\ proxy' = "closed"
    /\ profile' = [profile EXCEPT ![Render] = @ \ {"renderer"}]

\* The deadline starts before the proxy does.
StartRender ==
    /\ outer = "idle"
    /\ left' = [left EXCEPT ![Render] = Timeout]
    /\ \/ outer' = "failing" /\ UNCHANGED proxy
       \/ outer' = "prepare" /\ proxy' = "open"
    /\ LaunchIdle
    /\ UNCHANGED <<stage, profile, control, rejected, blocked, late>>

\* The profile is created; the driver is spawned if one CDP call has its time.
SpawnDriver ==
    /\ outer = "prepare"
    /\ \/ Leave("failing") /\ UNCHANGED <<stage, cancelled>>  \* no directory
       \/ ~Active(CdpTimeout) /\ Leave("failing") /\ cancelled' = TRUE /\ UNCHANGED stage
       \/ /\ Active(CdpTimeout)
          /\ outer' = "spawned"
          /\ stage' = [stage EXCEPT ![Render] = "locate"]
          /\ profile' = [profile EXCEPT ![Render] = {"renderer", "driver"}]
          /\ UNCHANGED <<proxy, cancelled>>
    /\ LaunchIdle
    /\ UNCHANGED <<left, budget, result, output, rejected, blocked, late>>

\* The remaining time is asked for a second time, after the driver has started.
BeginWait ==
    /\ outer = "spawned"
    /\ IF Active(1)
       THEN outer' = "waiting" /\ UNCHANGED <<proxy, profile, cancelled, late>>
       ELSE Leave("failing") /\ cancelled' = TRUE /\ late' = TRUE
    /\ LaunchIdle
    /\ UNCHANGED <<left, stage, budget, result, output, rejected, blocked>>

DriverOver == stage[Render] = "over"

DriverReturned ==
    /\ outer = "waiting"
    /\ DriverOver
    /\ IF result = "ok"
       THEN outer' = "collect" /\ UNCHANGED <<proxy, profile>>
       ELSE Leave("failing")
    /\ LaunchIdle
    /\ UNCHANGED <<left, stage, control, rejected, blocked, late>>

\* Mutant: the proxy is shut down before the driver has ended.
DeadlineClosesProxy ==
    /\ outer = "waiting"
    /\ ~DriverOver
    /\ left[Render] = 0
    /\ outer' = "joining"
    /\ cancelled' = TRUE
    /\ proxy' = "closed"
    /\ UNCHANGED <<launchVars, budget, result, output, rejected, blocked, late>>

DeadlinePasses ==
    /\ outer = "waiting"
    /\ ~DriverOver
    /\ left[Render] = 0
    /\ outer' = "joining"
    /\ cancelled' = TRUE
    /\ UNCHANGED <<launchVars, budget, result, output, proxyVars, blocked, late>>

\* Mutant: after the deadline the renderer does not wait for its driver.
JoinAtOnce ==
    /\ outer = "joining"
    /\ Leave("failing")
    /\ LaunchIdle
    /\ UNCHANGED <<left, stage, control, rejected, blocked, late>>

Join ==
    /\ outer = "joining"
    /\ DriverOver
    /\ Leave("failing")
    /\ LaunchIdle
    /\ UNCHANGED <<left, stage, control, rejected, blocked, late>>

\* Mutant: the rejection is looked at only after the page has been accepted.
CollectNothing ==
    /\ outer = "collect"
    /\ outer' = "shutdown"
    /\ UNCHANGED <<launchVars, control, proxyVars, blocked, late>>

Collect ==
    /\ outer = "collect"
    /\ blocked' = rejected
    /\ outer' = "shutdown"
    /\ UNCHANGED <<launchVars, control, proxyVars, late>>

\* proxy.shutdown, then the verdict: a page that is finished after the deadline
\* has failed too.
Shutdown ==
    /\ outer = "shutdown"
    /\ IF blocked
       THEN Leave("failing") /\ UNCHANGED cancelled
       ELSE IF Active(1)
            THEN Leave("rendered") /\ UNCHANGED cancelled
            ELSE Leave("failing") /\ cancelled' = TRUE
    /\ LaunchIdle
    /\ UNCHANGED <<left, stage, budget, result, output, rejected,
                   blocked, late>>

\* print_html_job removes the output of a rendering that failed.
CleanupFailed ==
    /\ outer = "failing"
    /\ outer' = "failed"
    /\ output' = FALSE
    /\ UNCHANGED <<launchVars, cancelled, budget, result, proxyVars, blocked, late>>

RendererStep ==
    \/ SpawnDriver \/ BeginWait \/ DriverReturned \/ DeadlinePasses \/ Join
    \/ Collect \/ Shutdown \/ CleanupFailed
-----------------------------------------------------------------------------
(* The driver: InstalledBrowserDriver::render on a blocking thread.        *)

DriverOnly == UNCHANGED <<outer, proxy, blocked, late>>
OnlyStage == UNCHANGED <<left, candidates, gate, thread, mailbox, browser, profile>>

Go(to) == stage' = [stage EXCEPT ![Render] = to]

DriverLaunches ==
    /\ \/ LaunchStep(Render) /\ UNCHANGED cancelled
       \/ Active(1) /\ Attempt(Render) /\ UNCHANGED cancelled
       \/ ~Active(1) /\ Abort(Render) /\ cancelled' = TRUE
    /\ DriverOnly
    /\ UNCHANGED <<budget, result, output, rejected>>

\* The calls of the browser and what the driver does after each of them.
Call == {"new_tab", "navigate", "loading", "printing"}
After(call) ==
    CASE call = "new_tab" -> "tab"
      [] call = "navigate" -> "navigated"
      [] call = "loading" -> "pausing"
      [] call = "printing" -> "printed"

\* A call is started only with time for its requests, and is given that time.
StartCall(at, call, needed, time) ==
    /\ stage[Render] = at
    /\ IF Active(needed)
       THEN Go(call) /\ budget' = time /\ UNCHANGED cancelled
       ELSE Go("closing") /\ cancelled' = TRUE /\ UNCHANGED budget
    /\ DriverOnly /\ OnlyStage
    /\ UNCHANGED <<result, output>>

NewTab == StartCall("got", "new_tab", CdpTimeout, left[Render]) /\ UNCHANGED rejected

\* Mutant: the page is opened with time for one request, it needs two.
NavigateInHaste ==
    /\ StartCall("tab", "navigate", CdpTimeout, 2 * CdpTimeout)
    /\ rejected' = FALSE

\* Rejections of what the browser loads by itself are forgotten.
Navigate ==
    /\ StartCall("tab", "navigate", 2 * CdpTimeout, 2 * CdpTimeout)
    /\ rejected' = (rejected /\ stage'[Render] = "closing")

Load == StartCall("navigated", "loading", 1, left[Render]) /\ UNCHANGED rejected

PrintToPdf ==
    /\ StartCall("paused", "printing", 2 * CdpTimeout, 2 * CdpTimeout)
    /\ UNCHANGED rejected

CallEnds ==
    /\ stage[Render] \in Call
    /\ Go(After(stage[Render])) \/ Go("closing")
    /\ budget' = 0
    /\ DriverOnly /\ OnlyStage
    /\ UNCHANGED <<cancelled, result, output, rejected>>

\* control.wait: wait_ms pass, or the rendering ends before.
Pause ==
    /\ stage[Render] = "pausing"
    /\ \/ Active(1) /\ Go("paused") /\ UNCHANGED cancelled
       \/ ~Active(1) /\ Go("closing") /\ cancelled' = TRUE
    /\ DriverOnly /\ OnlyStage
    /\ UNCHANGED <<budget, result, output, rejected>>

CheckBeforeWrite ==
    /\ stage[Render] = "printed"
    /\ IF Active(1)
       THEN Go("write") /\ UNCHANGED cancelled
       ELSE Go("closing") /\ cancelled' = TRUE
    /\ DriverOnly /\ OnlyStage
    /\ UNCHANGED <<budget, result, output, rejected>>

\* A write that fails may leave a part of the file.
Write ==
    /\ stage[Render] = "write"
    /\ Go("closing")
    /\ \/ output' = TRUE /\ result' = "ok"
       \/ output' \in {output, TRUE} /\ UNCHANGED result
    /\ DriverOnly /\ OnlyStage
    /\ UNCHANGED <<cancelled, budget, rejected>>

\* The driver returns: the browser is dropped, then the request with its profile.
Close ==
    /\ stage[Render] \in {"lost", "closing"}
    /\ Go("over")
    /\ browser' = [browser EXCEPT ![Render] = @ /\ stage[Render] = "lost"]
    /\ profile' = [profile EXCEPT ![Render] = @ \ {"driver"}]
    /\ DriverOnly
    /\ UNCHANGED <<left, candidates, gate, thread, mailbox, control, rejected>>

DriverStep ==
    \/ DriverLaunches \/ NewTab \/ Navigate \/ Load \/ PrintToPdf \/ CallEnds
    \/ Pause \/ CheckBeforeWrite \/ Write \/ Close
-----------------------------------------------------------------------------
\* A request of the page is rejected and recorded, as in FilteringProxy: while
\* the page is open, or later by a handler that was still at work.
PageIsOpen == stage[Render] \in {"navigate", "navigated", "loading", "pausing",
                                 "paused", "printing", "printed", "write"}

Reject ==
    /\ PageIsOpen \/ (result = "ok" /\ outer # "rendered")
    /\ rejected' = TRUE
    /\ UNCHANGED <<launchVars, outer, control, proxy, blocked, late>>
-----------------------------------------------------------------------------
(* Doctor commands: check_browser_launch.                                  *)

DoctorOnly == UNCHANGED <<outer, control, proxyVars, blocked, late>>

StartDoctor(d) ==
    /\ stage[d] = "off"
    /\ stage' = [stage EXCEPT ![d] = "locate"]
    /\ left' = [left EXCEPT ![d] = Timeout]
    /\ LaunchIdle
    /\ UNCHANGED profile
    /\ DoctorOnly

\* The browser is dropped at once, after launch_headless_browser has returned.
DoctorStep(d) ==
    /\ \/ LaunchStep(d)
       \/ left[d] > 0 /\ Attempt(d)
       \/ left[d] = 0 /\ Abort(d)
       \/ /\ stage[d] \in {"got", "lost"}
          /\ stage' = [stage EXCEPT ![d] = "over"]
          /\ browser' = [browser EXCEPT ![d] = @ /\ stage[d] = "lost"]
          /\ UNCHANGED <<left, candidates, gate, thread, mailbox, profile>>
    /\ DoctorOnly
-----------------------------------------------------------------------------
\* The clock; it does not pass the end of a browser call.
Tick ==
    /\ \E u \in User : left[u] > 0
    /\ stage[Render] \in Call => budget > 0
    /\ left' = [u \in User |-> IF left[u] > 0 THEN left[u] - 1 ELSE 0]
    /\ budget' = IF stage[Render] \in Call THEN budget - 1 ELSE 0
    /\ UNCHANGED <<stage, candidates, gate, thread, mailbox, browser, profile, outer,
                   cancelled, result, output, proxyVars, blocked, late>>

Threads(u) == ThreadStep(u) /\ DoctorOnly

Next ==
    \/ StartRender \/ RendererStep \/ DriverStep
    \/ Reject
    \/ \E d \in Doctor : StartDoctor(d) \/ DoctorStep(d)
    \/ \E u \in User : Threads(u)
    \/ Tick

Spec == Init /\ [][Next]_vars

\* Tasks and threads run, time passes, and Browser::new returns at last: the
\* library bounds its own start-up.
FairSpec ==
    /\ Spec
    /\ WF_vars(RendererStep) /\ WF_vars(DriverStep) /\ WF_vars(Tick)
    /\ \A d \in Doctor : WF_vars(DoctorStep(d))
    /\ \A u \in User : WF_vars(Threads(u))
-----------------------------------------------------------------------------
TypeOK ==
    /\ left \in [User -> 0..Timeout]
    /\ stage \in [User -> {"off", "locate", "next", "gate", "wait", "spawn", "recv",
                           "got", "lost", "tab", "navigated", "pausing", "paused",
                           "printed", "write", "closing", "over"} \cup Call]
    /\ candidates \in [User -> 0..MaxCandidates]
    /\ thread \in [User -> {"none", "launching", "launched", "failed", "sent"}]
    /\ mailbox \in [User -> {"empty", "browser", "error"}]
    /\ browser \in [User -> BOOLEAN]
    /\ profile \in [User -> SUBSET {"renderer", "driver", "launcher", "thread"}]
    /\ outer \in {"idle", "prepare", "spawned", "waiting", "joining", "collect",
                  "shutdown", "failing", "failed", "rendered"}
    /\ result \in {"none", "ok"}
    /\ proxy \in {"none", "open", "closed"}
    /\ budget \in 0..Timeout
    /\ gate \in BOOLEAN /\ cancelled \in BOOLEAN /\ output \in BOOLEAN
    /\ rejected \in BOOLEAN /\ blocked \in BOOLEAN /\ late \in BOOLEAN

\* A browser call that has been started ends before the deadline: the driver
\* counts the requests of each call right, so that the renderer, which waits for
\* its driver after the deadline, is not kept from answering.
CallsEndByDeadline == stage[Render] \in Call => budget <= left[Render]

\* A rendering that failed leaves no output behind, even if its driver was just
\* about to write when the time ran out. (The exception is a renderer that was
\* itself stalled past the deadline before it began to wait for the driver.)
NoLateOutput ==
    /\ outer = "failed" /\ output => late
    /\ outer = "rendered" => output

\* A browser that renders a page has its profile and, as long as the renderer
\* waits, its proxy: neither is taken away while it runs.
BrowserIsEquipped ==
    browser[Render] /\ stage[Render] \notin {"lost", "over"} =>
        /\ profile[Render] # {}
        /\ proxy = "open" \/ late

\* A rejected resource of the page that is known before the PDF is exported fails
\* the job; it is never printed without the resource.
RejectionFailsRender ==
    rejected /\ stage[Render] = "paused" ~> outer = "failed"

\* Every rendering ends.
RenderEnds == outer = "prepare" ~> outer \in {"failed", "rendered"}

\* Every browser is closed, every profile removed and the gate reopened at last,
\* whoever gave up in between.
EverythingReleased ==
    \A u \in User :
        stage[u] = "locate" ~> /\ stage[u] = "over"
                               /\ ~browser[u] /\ profile[u] = {} /\ thread[u] = "none"
=============================================================================
