---------------------------- MODULE Html_proofs -----------------------------
(***************************************************************************)
(* For any number of users of the browser, candidates and any timeout: one *)
(* launch at a time, no call beyond the deadline, no output of a failed    *)
(* rendering, and nothing that a rendering, or one that gave up, leaves    *)
(* behind. For any number of concurrent requests: the filtering proxy      *)
(* connects to approved addresses only, and the renderer reads the page's  *)
(* first rejection.                                                        *)
(***************************************************************************)
EXTENDS HtmlRender, FilteringProxy, SequenceTheorems, TLAPS

(* The renderer: the invariant.                                            *)

\* The stages in which the driver, or a doctor command, has a browser.
Using == {"got", "tab", "navigated", "pausing", "paused", "printed", "write", "closing"}
             \cup Call

\* Where the gate is asked for again, it has been given back.
GateIsPassedOn == \A u \in User : stage[u] = "spawn" => thread[u] = "none"

\* The driver is started by the renderer.
DriverStartsLater ==
    /\ outer \in {"idle", "prepare"} => stage[Render] = "off"
    /\ stage[Render] = "off" => thread[Render] = "none" /\ ~browser[Render]

\* Outside of these the renderer does not wait for its driver.
Watching == {"spawned", "waiting", "joining"}

\* Unless the renderer was late, it leaves after its driver.
DriverEndsFirst ==
    /\ outer \notin Watching /\ ~late => stage[Render] \in {"off", "over"}
    /\ outer \in Watching \cup {"prepare", "collect", "shutdown"} => proxy = "open"
    /\ result = "ok" /\ outer # "failed" => output
    /\ outer \in {"collect", "shutdown", "rendered"} => result = "ok"

\* Every browser has somebody who will drop it.
BrowserIsOwned ==
    \A u \in User :
        /\ mailbox[u] # "empty" => stage[u] = "recv" /\ thread[u] \in {"sent", "none"}
        /\ browser[u] => \/ thread[u] = "launched"
                         \/ mailbox[u] = "browser"
                         \/ stage[u] \in Using

\* Every handle of a profile has somebody who will drop it.
ProfileIsOwned ==
    /\ stage[Render] \notin {"off", "over"} => "driver" \in profile[Render]
    /\ \A u \in User :
        /\ "launcher" \in profile[u] => stage[u] \in {"next", "gate", "wait", "spawn", "recv"}
        /\ "thread" \in profile[u] => thread[u] = "launching"
        /\ "driver" \in profile[u] => u = Render /\ stage[u] \notin {"off", "over"}
        /\ "renderer" \in profile[u] =>
               u = Render /\ outer \in Watching \cup {"collect", "shutdown"}

IInv ==
    /\ TypeOK
    /\ LaunchGate
    /\ GateIsPassedOn
    /\ DriverStartsLater
    /\ CallsEndByDeadline
    /\ DriverEndsFirst
    /\ NoLateOutput
    /\ BrowserIsOwned
    /\ ProfileIsOwned
-----------------------------------------------------------------------------
(* The launch.                                                             *)

Stage == {"off", "locate", "next", "gate", "wait", "spawn", "recv",
          "got", "lost", "tab", "navigated", "pausing", "paused",
          "printed", "write", "closing", "over"} \cup Call

\* The stages of launch_headless_browser.
Asking == {"locate", "next", "gate", "wait", "spawn", "recv"}

\* A step of launch_headless_browser or of a launch thread.
LaunchMove(u) == LaunchStep(u) \/ Attempt(u) \/ Abort(u) \/ ThreadStep(u)

\* The types of the launch variables.
LaunchTypeOK ==
    /\ left \in [User -> 0..Timeout]
    /\ stage \in [User -> Stage]
    /\ candidates \in [User -> 0..MaxCandidates]
    /\ thread \in [User -> {"none", "launching", "launched", "failed", "sent"}]
    /\ mailbox \in [User -> {"empty", "browser", "error"}]
    /\ browser \in [User -> BOOLEAN]
    /\ profile \in [User -> SUBSET {"renderer", "driver", "launcher", "thread"}]
    /\ gate \in BOOLEAN

\* condvar.notify_one wakes one of those who wait, if any does, and nobody else.
LEMMA NotifyWakes ==
    ASSUME NEW s \in [User -> Stage], Notify(s)
    PROVE  /\ stage' \in [User -> Stage]
           /\ \A v \in User : stage'[v] = s[v] \/ (v \in Waiting /\ stage'[v] = "gate")
           /\ Waiting = {} => stage' = s
           /\ Waiting # {} => \E w \in Waiting : stage'[w] = "gate"
<1>1. CASE Waiting = {}
  BY <1>1 DEF Notify
<1>2. CASE Waiting # {}
  <2>1. PICK w \in Waiting : stage' = [s EXCEPT ![w] = "gate"]
    BY <1>2 DEF Notify
  <2>2. w \in User
    BY DEF Waiting
  <2> QED BY <1>2, <2>1, <2>2 DEF Stage
<1> QED BY <1>1, <1>2

\* The launch variables keep their types.
LEMMA LaunchTyped ==
    ASSUME LaunchTypeOK, NEW u \in User, LaunchMove(u)
    PROVE  LaunchTypeOK'
<1> USE LaunchAssumption DEF LaunchTypeOK, Stage
<1>1. CASE Locate(u)
  BY <1>1 DEF Locate
<1>2. CASE Unavailable(u) \/ Abort(u)
  BY <1>2 DEF Unavailable, Abort, Return
<1>3. CASE Attempt(u)
  BY <1>3 DEF Attempt
<1>4. CASE TakeGate(u) \/ WaitTimesOut(u)
  BY <1>4 DEF TakeGate, WaitTimesOut
<1>5. CASE WaitForGate(u)
  BY <1>5 DEF WaitForGate, Return
<1>6. CASE SpawnTooLate(u) \/ SpawnFails(u)
  <2>1. stage' \in [User -> Stage] /\ gate' = FALSE
    BY <1>6, NotifyWakes DEF SpawnTooLate, SpawnFails, OpenGate
  <2>2. CASE SpawnTooLate(u)
    <3>1. profile' = [profile EXCEPT ![u] = @ \ {"launcher"}]
      BY <2>2 DEF SpawnTooLate
    <3>2. profile' \in [User -> SUBSET {"renderer", "driver", "launcher", "thread"}]
      BY <3>1
    <3>3. candidates' = [candidates EXCEPT ![u] = 0]
      BY <2>2 DEF SpawnTooLate
    <3>4. candidates' \in [User -> 0..MaxCandidates]
      BY <3>3
    <3>5. UNCHANGED <<left, thread, mailbox, browser>>
      BY <2>2 DEF SpawnTooLate
    <3> QED BY <2>1, <3>2, <3>4, <3>5
  <2>3. CASE SpawnFails(u)
    BY <2>1, <2>3 DEF SpawnFails
  <2> QED BY <1>6, <2>2, <2>3
<1>11. CASE SpawnThread(u)
  BY <1>11 DEF SpawnThread
<1>7. CASE Recv(u) \/ RecvTimesOut(u)
  BY <1>7 DEF Recv, RecvTimesOut, Return
<1>8. CASE LaunchEnds(u)
  BY <1>8 DEF LaunchEnds
<1>9. CASE Send(u)
  BY <1>9 DEF Send
<1>10. CASE DropGuard(u)
  <2>1. stage' \in [User -> Stage] /\ gate' = FALSE
    BY <1>10, NotifyWakes DEF DropGuard, OpenGate
  <2> QED BY <1>10, <2>1 DEF DropGuard
<1> QED BY <1>1, <1>2, <1>3, <1>4, <1>5, <1>6, <1>7, <1>8, <1>9, <1>10, <1>11
        DEF LaunchMove, LaunchStep, ThreadStep

\* The steps that open the gate.
Opening(u) == SpawnTooLate(u) \/ SpawnFails(u) \/ DropGuard(u)

\* A launch step moves its user, within launch_headless_browser or out of it; and
\* if it opens the gate, it wakes one who waits.
LEMMA LaunchMoves ==
    ASSUME LaunchTypeOK, NEW u \in User, LaunchMove(u)
    PROVE  /\ \A v \in User : \/ stage'[v] = stage[v]
                              \/ stage[v] \in Asking /\ stage'[v] \in Asking \cup {"got", "lost"}
           /\ \A v \in User \ {u} : \/ stage'[v] = stage[v]
                                    \/ stage[v] = "wait" /\ stage'[v] = "gate"
           /\ left' = left
           /\ \A v \in User, h \in {"driver", "renderer"} : h \in profile'[v] <=> h \in profile[v]
<1> USE DEF LaunchTypeOK, Asking
<1>1. CASE Opening(u)
  <2>1. PICK s \in [User -> Stage] :
            /\ s \in {stage, [stage EXCEPT ![u] = "lost"], [stage EXCEPT ![u] = "next"]}
            /\ s # stage => stage[u] = "spawn"
            /\ Notify(s)
    BY <1>1 DEF Opening, SpawnTooLate, SpawnFails, DropGuard, OpenGate, Stage
  <2>2. \A v \in User : stage'[v] = s[v] \/ (v \in Waiting /\ stage'[v] = "gate")
    BY <2>1, NotifyWakes
  <2>3. left' = left /\ (profile' = profile \/ profile' = [profile EXCEPT ![u] = @ \ {"launcher"}])
    BY <1>1 DEF Opening, SpawnTooLate, SpawnFails, DropGuard
  <2> QED BY <2>1, <2>2, <2>3 DEF Waiting
<1>2. CASE ~Opening(u)
  <2>1. left' = left /\ \/ profile' = profile
                        \/ \E h \in {"launcher", "thread"} :
                              \/ profile' = [profile EXCEPT ![u] = @ \ {h}]
                              \/ profile' = [profile EXCEPT ![u] = @ \cup {h}]
    BY <1>2 DEF LaunchMove, LaunchStep, ThreadStep, Locate, Unavailable, Abort, Attempt, TakeGate,
           WaitForGate, WaitTimesOut, SpawnThread, Recv, RecvTimesOut, LaunchEnds, Send,
           Return, Opening
  <2>2. \/ stage' = stage
        \/ stage[u] \in Asking /\ \E to \in Asking \cup {"got", "lost"} :
                                     stage' = [stage EXCEPT ![u] = to]
    BY <1>2 DEF LaunchMove, LaunchStep, ThreadStep, Locate, Unavailable, Abort, Attempt, TakeGate,
           WaitForGate, WaitTimesOut, SpawnThread, Recv, RecvTimesOut, LaunchEnds, Send,
           Return, Opening
  <2> QED BY <2>1, <2>2
<1> QED BY <1>1, <1>2

\* A launch step leaves one launch at most, and the gate closed for its time.
LEMMA GateHolds ==
    ASSUME LaunchTypeOK, LaunchGate, GateIsPassedOn, NEW u \in User, LaunchMove(u)
    PROVE  LaunchGate' /\ GateIsPassedOn'
<1> USE DEF LaunchTypeOK
<1>1. LaunchTypeOK'
  BY LaunchTyped
<1>2. CASE Opening(u)
  <2>1. InLaunch(u) /\ \A v \in User \ {u} : ~InLaunch(v)
    BY <1>2 DEF Opening, SpawnTooLate, SpawnFails, DropGuard, LaunchGate, InLaunch
  <2>2. thread'[u] = "none" /\ \A v \in User \ {u} : thread'[v] = thread[v]
    BY <1>2 DEF Opening, SpawnTooLate, SpawnFails, DropGuard, GateIsPassedOn
  <2>3. PICK s \in [User -> Stage] :
            /\ \/ s = stage /\ stage[u] # "spawn"
               \/ s = [stage EXCEPT ![u] = "lost"] /\ stage[u] = "spawn"
               \/ s = [stage EXCEPT ![u] = "next"] /\ stage[u] = "spawn"
            /\ Notify(s) /\ gate' = FALSE
    BY <1>2 DEF Opening, SpawnTooLate, SpawnFails, DropGuard, OpenGate, GateIsPassedOn, Stage
  <2>4. /\ \A v \in User : stage'[v] = s[v] \/ (v \in Waiting /\ stage'[v] = "gate")
        /\ Waiting = {} => stage' = s
        /\ Waiting # {} => \E w \in Waiting : stage'[w] = "gate"
    BY <2>3, NotifyWakes
  <2>5. \A v \in User : ~InLaunch(v)' /\ stage'[v] # "spawn"
    BY <2>1, <2>2, <2>3, <2>4 DEF InLaunch
  <2>6. Waiting' # {} => \E v \in User : stage'[v] = "gate"
    <3>1. Waiting = {} => Waiting' = {}
      BY <2>3, <2>4 DEF Waiting
    <3> QED BY <2>4, <3>1 DEF Waiting
  <2> QED BY <2>3, <2>5, <2>6 DEF LaunchGate, GateIsPassedOn
<1>3. CASE TakeGate(u)
  BY <1>3 DEF TakeGate, LaunchGate, GateIsPassedOn, InLaunch
<1>4. CASE WaitForGate(u)
  BY <1>4 DEF WaitForGate, Return, LaunchGate, GateIsPassedOn, InLaunch
<1>5. CASE WaitTimesOut(u)
  BY <1>5 DEF WaitTimesOut, LaunchGate, GateIsPassedOn, InLaunch
<1>6. CASE SpawnThread(u)
  <2>1. \A v \in User : InLaunch(v)' <=> InLaunch(v)
    BY <1>6 DEF SpawnThread, InLaunch
  <2> QED BY <1>6, <2>1 DEF SpawnThread, LaunchGate, GateIsPassedOn, InLaunch
<1>7. CASE LaunchEnds(u) \/ Send(u)
  <2>1. \A v \in User : InLaunch(v)' <=> InLaunch(v)
    BY <1>7 DEF LaunchEnds, Send, InLaunch
  <2> QED BY <1>7, <2>1 DEF LaunchEnds, Send, LaunchGate, GateIsPassedOn, InLaunch, Waiting
<1>8. CASE Locate(u) \/ Unavailable(u) \/ Abort(u) \/ Attempt(u) \/ Recv(u) \/ RecvTimesOut(u)
  <2>1. /\ stage[u] \notin {"spawn", "wait", "gate"} /\ thread' = thread /\ gate' = gate
        /\ \E to \in {"next", "lost", "gate", "got"} : stage' = [stage EXCEPT ![u] = to]
    BY <1>8 DEF Locate, Unavailable, Abort, Attempt, Recv, RecvTimesOut, Return
  <2>2. \A v \in User : InLaunch(v)' <=> InLaunch(v)
    BY <2>1 DEF InLaunch
  <2> QED BY <2>1, <2>2 DEF LaunchGate, GateIsPassedOn, Waiting
<1> QED BY <1>2, <1>3, <1>4, <1>5, <1>6, <1>7, <1>8
        DEF LaunchMove, LaunchStep, ThreadStep, Opening

\* A launch step leaves every browser with somebody who will drop it.
LEMMA BrowserHolds ==
    ASSUME LaunchTypeOK, GateIsPassedOn, BrowserIsOwned, NEW u \in User, LaunchMove(u)
    PROVE  BrowserIsOwned'
<1> USE DEF LaunchTypeOK, BrowserIsOwned, Using, Call
<1>1. \A v \in User \ {u} : stage'[v] = stage[v] \/ (stage[v] = "wait" /\ stage'[v] = "gate")
  BY LaunchMoves
<1>2. \A v \in User \ {u} : /\ thread'[v] = thread[v] /\ mailbox'[v] = mailbox[v]
                            /\ browser'[v] = browser[v]
  BY DEF LaunchMove, LaunchStep, ThreadStep, Locate, Unavailable, Abort, Attempt, TakeGate,
         WaitForGate, WaitTimesOut, SpawnTooLate, SpawnFails, SpawnThread, Recv, RecvTimesOut,
         LaunchEnds, Send, DropGuard
<1>3. /\ mailbox'[u] # "empty" => stage'[u] = "recv" /\ thread'[u] \in {"sent", "none"}
      /\ browser'[u] => \/ thread'[u] = "launched"
                        \/ mailbox'[u] = "browser"
                        \/ stage'[u] \in Using
  <2>1. CASE LaunchEnds(u) \/ Send(u)
    BY <2>1 DEF LaunchEnds, Send
  <2>2. CASE DropGuard(u)
    <3>1. stage'[u] = stage[u] \/ (stage[u] = "wait" /\ stage'[u] = "gate")
      <4>1. Notify(stage)
        BY <2>2 DEF DropGuard, OpenGate
      <4> QED BY <4>1, NotifyWakes DEF Waiting
    <3> QED BY <2>2, <3>1 DEF DropGuard
  <2>3. CASE SpawnTooLate(u) \/ SpawnFails(u)
    <3>1. stage[u] = "spawn" /\ UNCHANGED <<mailbox, browser, thread>>
      BY <2>3 DEF SpawnTooLate, SpawnFails
    <3> QED BY <3>1
  <2>4. CASE Recv(u) \/ RecvTimesOut(u)
    BY <2>4 DEF Recv, RecvTimesOut, Return
  <2>5. CASE \/ Locate(u) \/ Unavailable(u) \/ Abort(u) \/ Attempt(u)
             \/ TakeGate(u) \/ WaitForGate(u) \/ WaitTimesOut(u) \/ SpawnThread(u)
    <3>1. /\ stage[u] \in {"locate", "next", "gate", "wait", "spawn"}
          /\ UNCHANGED <<mailbox, browser>>
          /\ thread'[u] = thread[u] \/ thread[u] = "none"
      BY <2>5 DEF Locate, Unavailable, Abort, Attempt, TakeGate, WaitForGate, WaitTimesOut,
                  SpawnThread, GateIsPassedOn
    <3> QED BY <3>1
  <2> QED BY <2>1, <2>2, <2>3, <2>4, <2>5 DEF LaunchMove, LaunchStep, ThreadStep
<1> QED BY <1>1, <1>2, <1>3

\* A launch step leaves every handle of a profile with somebody who will drop it.
LEMMA ProfileHolds ==
    ASSUME LaunchTypeOK, ProfileIsOwned, outer' = outer, NEW u \in User, LaunchMove(u)
    PROVE  ProfileIsOwned'
<1> USE RenderAssumption DEF LaunchTypeOK, ProfileIsOwned
<1>1. /\ \A v \in User : \/ stage'[v] = stage[v]
                         \/ stage[v] \in Asking /\ stage'[v] \in Asking \cup {"got", "lost"}
      /\ \A v \in User, h \in {"driver", "renderer"} : h \in profile'[v] <=> h \in profile[v]
  BY LaunchMoves
<1>5. \A v \in User \ {u} : stage'[v] = stage[v] \/ (stage[v] = "wait" /\ stage'[v] = "gate")
  BY LaunchMoves
<1>2. \A v \in User \ {u} : profile'[v] = profile[v] /\ thread'[v] = thread[v]
  BY DEF LaunchMove, LaunchStep, ThreadStep, Locate, Unavailable, Abort, Attempt, TakeGate,
         WaitForGate, WaitTimesOut, SpawnTooLate, SpawnFails, SpawnThread, Recv, RecvTimesOut,
         LaunchEnds, Send, DropGuard, Return
<1>3. "thread" \in profile'[u] => thread'[u] = "launching"
  BY DEF LaunchMove, LaunchStep, ThreadStep, Locate, Unavailable, Abort, Attempt, TakeGate,
         WaitForGate, WaitTimesOut, SpawnTooLate, SpawnFails, SpawnThread, Recv, RecvTimesOut,
         LaunchEnds, Send, DropGuard, Return
<1>4. "launcher" \in profile'[u] => stage'[u] \in {"next", "gate", "wait", "spawn", "recv"}
  <2>1. CASE LaunchEnds(u) \/ Send(u)
    BY <2>1 DEF LaunchEnds, Send
  <2>2. CASE DropGuard(u)
    <3>1. stage'[u] = stage[u] \/ stage'[u] = "gate"
      <4>1. Notify(stage)
        BY <2>2 DEF DropGuard, OpenGate
      <4> QED BY <4>1, NotifyWakes
    <3> QED BY <2>2, <3>1 DEF DropGuard
  <2>3. CASE SpawnTooLate(u)
    BY <2>3 DEF SpawnTooLate
  <2>4. CASE SpawnFails(u)
    <3>1. stage'[u] \in {"next", "gate"}
      <4>1. Notify([stage EXCEPT ![u] = "next"]) /\ [stage EXCEPT ![u] = "next"] \in [User -> Stage]
        BY <2>4 DEF SpawnFails, OpenGate, Stage
      <4> QED BY <4>1, NotifyWakes
    <3> QED BY <3>1
  <2>5. CASE \/ Locate(u) \/ Unavailable(u) \/ Abort(u) \/ Attempt(u) \/ TakeGate(u)
             \/ WaitForGate(u) \/ WaitTimesOut(u) \/ SpawnThread(u) \/ Recv(u) \/ RecvTimesOut(u)
    BY <2>5 DEF Locate, Unavailable, Abort, Attempt, TakeGate, WaitForGate, WaitTimesOut,
                SpawnThread, Recv, RecvTimesOut, Return
  <2> QED BY <2>1, <2>2, <2>3, <2>4, <2>5 DEF LaunchMove, LaunchStep, ThreadStep
<1> QED BY <1>1, <1>2, <1>3, <1>4, <1>5 DEF Asking

\* Of the launch, the rest of the rendering needs its stages and its handles only.
LEMMA LaunchHolds ==
    ASSUME IInv, NEW u \in User, LaunchMove(u), cancelled' \in BOOLEAN,
           UNCHANGED <<outer, budget, result, output, proxyVars, blocked, late>>
    PROVE  IInv'
<1> USE RenderAssumption DEF IInv
<1>1. LaunchTypeOK
  BY DEF TypeOK, LaunchTypeOK, Stage
<1>2. TypeOK'
  <2>1. LaunchTypeOK'
    BY <1>1, LaunchTyped
  <2> QED BY <2>1 DEF TypeOK, LaunchTypeOK, Stage, proxyVars
<1>3. LaunchGate' /\ GateIsPassedOn'
  BY <1>1, GateHolds
<1>4. /\ \A v \in User : \/ stage'[v] = stage[v]
                         \/ stage[v] \in Asking /\ stage'[v] \in Asking \cup {"got", "lost"}
      /\ left' = left
  BY <1>1, LaunchMoves
<1>5. DriverStartsLater'
  <2>1. stage[Render] = "off" => thread'[Render] = "none" /\ ~browser'[Render]
    BY <1>1 DEF LaunchTypeOK, DriverStartsLater,
         LaunchMove, LaunchStep, ThreadStep, Locate, Unavailable, Abort, Attempt, TakeGate,
         WaitForGate, WaitTimesOut, SpawnTooLate, SpawnFails, SpawnThread, Recv, RecvTimesOut,
         LaunchEnds, Send, DropGuard
  <2> QED BY <1>4, <2>1 DEF DriverStartsLater, Asking
<1>6. CallsEndByDeadline'
  BY <1>4 DEF CallsEndByDeadline, Call, Asking
<1>7. DriverEndsFirst' /\ NoLateOutput'
  BY <1>4 DEF DriverEndsFirst, NoLateOutput, Watching, Asking, proxyVars
<1>8. BrowserIsOwned'
  BY <1>1, BrowserHolds
<1>9. ProfileIsOwned'
  BY <1>1, ProfileHolds
<1> QED BY <1>2, <1>3, <1>5, <1>6, <1>7, <1>8, <1>9

\* The gate is not touched by those who are not at it.
LEMMA GateUntouched ==
    ASSUME LaunchGate, GateIsPassedOn, UNCHANGED <<gate, thread>>,
           \A v \in User : \/ stage'[v] = stage[v]
                           \/ /\ stage[v] \notin {"gate", "spawn"}
                              /\ stage'[v] \notin {"wait", "spawn"}
    PROVE  LaunchGate' /\ GateIsPassedOn'
<1>1. \A v \in User : InLaunch(v)' <=> InLaunch(v)
  BY DEF InLaunch
<1>2. \A v \in User : v \in Waiting' => v \in Waiting
  BY DEF Waiting
<1> QED BY <1>1, <1>2 DEF LaunchGate, GateIsPassedOn, Waiting

\* Who may hold a handle of a profile directory.
Handles == [User -> SUBSET {"renderer", "driver", "launcher", "thread"}]

\* The renderer's future ends.
LEMMA LeaveTyped ==
    ASSUME TypeOK, NEW to, Leave(to)
    PROVE  outer' = to /\ proxy' = "closed" /\ profile' \in Handles
  BY DEF Leave, TypeOK, Handles

\* BrowserHtmlRenderer::render and print_html_job keep the invariant.
LEMMA RendererHolds ==
    ASSUME IInv, StartRender \/ RendererStep
    PROVE  IInv'
<1> USE RenderAssumption, LaunchAssumption DEF IInv
<1>1. TypeOK'
  <2>1. CASE StartRender
    BY <2>1 DEF StartRender, TypeOK, LaunchIdle, control, proxyVars
  <2>2. CASE SpawnDriver
    <3>1. CASE outer' = "failing"
      BY <2>2, <3>1, LeaveTyped DEF SpawnDriver, TypeOK, LaunchIdle, Handles
    <3>2. CASE outer' = "spawned"
      BY <2>2, <3>2 DEF SpawnDriver, Leave, TypeOK, LaunchIdle
    <3> QED BY <2>2, <3>1, <3>2 DEF SpawnDriver, Leave
  <2>3. CASE BeginWait
    BY <2>3, LeaveTyped DEF BeginWait, TypeOK, LaunchIdle, Handles
  <2>4. CASE DriverReturned
    BY <2>4, LeaveTyped DEF DriverReturned, TypeOK, LaunchIdle, control, Handles
  <2>5. CASE DeadlinePasses
    BY <2>5 DEF DeadlinePasses, TypeOK, launchVars, proxyVars
  <2>6. CASE Join
    BY <2>6, LeaveTyped DEF Join, TypeOK, LaunchIdle, control, Handles
  <2>7. CASE Collect
    BY <2>7 DEF Collect, TypeOK, launchVars, control, proxyVars
  <2>8. CASE Shutdown
    BY <2>8, LeaveTyped DEF Shutdown, TypeOK, LaunchIdle, Handles
  <2>9. CASE CleanupFailed
    BY <2>9 DEF CleanupFailed, TypeOK, launchVars, proxyVars
  <2> QED BY <2>1, <2>2, <2>3, <2>4, <2>5, <2>6, <2>7, <2>8, <2>9 DEF RendererStep
<1>2. \/ stage' = stage
      \/ /\ SpawnDriver /\ outer = "prepare" /\ outer' = "spawned"
         /\ stage[Render] = "off"
         /\ stage' = [stage EXCEPT ![Render] = "locate"]
  BY DEF RendererStep, StartRender, SpawnDriver, BeginWait, DriverReturned, DeadlinePasses, Join,
         Collect, Shutdown, CleanupFailed, launchVars, DriverStartsLater
<1>3. UNCHANGED <<candidates, gate, thread, mailbox, browser>>
  BY DEF RendererStep, StartRender, SpawnDriver, BeginWait, DriverReturned, DeadlinePasses, Join,
         Collect, Shutdown, CleanupFailed, launchVars, LaunchIdle
<1>4. LaunchGate' /\ GateIsPassedOn'
  BY <1>2, <1>3, GateUntouched DEF TypeOK
<1>5. DriverStartsLater'
  BY <1>2, <1>3
     DEF RendererStep, StartRender, SpawnDriver, BeginWait, DriverReturned, DeadlinePasses, Join,
         Collect, Shutdown, CleanupFailed, Leave, DriverStartsLater, TypeOK
<1>6. CallsEndByDeadline'
  BY <1>2
     DEF RendererStep, StartRender, SpawnDriver, BeginWait, DriverReturned, DeadlinePasses, Join,
         Collect, Shutdown, CleanupFailed, launchVars, control, CallsEndByDeadline,
         DriverStartsLater, TypeOK, Call
<1>7. DriverEndsFirst'
  BY <1>2
     DEF RendererStep, StartRender, SpawnDriver, BeginWait, DriverReturned, DeadlinePasses, Join,
         Collect, Shutdown, CleanupFailed, Leave, control, proxyVars, DriverEndsFirst, DriverOver,
         DriverStartsLater, TypeOK, Watching
<1>8. NoLateOutput'
  BY DEF RendererStep, StartRender, SpawnDriver, BeginWait, DriverReturned, DeadlinePasses, Join,
         Collect, Shutdown, CleanupFailed, Leave, control, DriverEndsFirst, NoLateOutput
<1>9. BrowserIsOwned'
  BY <1>2, <1>3 DEF BrowserIsOwned, TypeOK, DriverStartsLater, Using, Call
<1>10. ProfileIsOwned'
  <2>1. CASE SpawnDriver /\ outer' = "spawned"
    BY <1>2, <1>3, <2>1 DEF SpawnDriver, Leave, ProfileIsOwned, Watching, TypeOK
  <2>2. CASE outer' # "spawned"
    <3>1. /\ stage' = stage
          /\ \/ profile' = [profile EXCEPT ![Render] = @ \ {"renderer"}]
             \/ /\ profile' = profile
                /\ outer' \in Watching \cup {"collect", "shutdown"} \/ outer \in {"idle", "failing"}
      BY <1>2, <2>2
         DEF RendererStep, StartRender, SpawnDriver, BeginWait, DriverReturned, DeadlinePasses,
             Join, Collect, Shutdown, CleanupFailed, Leave, launchVars, Watching
    <3> QED BY <1>3, <3>1 DEF ProfileIsOwned, Watching, TypeOK
  <2> QED BY <2>1, <2>2
          DEF RendererStep, StartRender, SpawnDriver, BeginWait, DriverReturned, DeadlinePasses,
              Join, Collect, Shutdown, CleanupFailed, Leave
<1> QED BY <1>1, <1>4, <1>5, <1>6, <1>7, <1>8, <1>9, <1>10

\* A call that is started has a budget within its user's time.
LEMMA CallTyped ==
    ASSUME IInv, NEW at \in Stage, NEW call \in Call, NEW needed \in Nat, NEW time \in Nat,
           StartCall(at, call, needed, time), time <= left[Render] \/ time <= needed
    PROVE  /\ stage' \in [User -> Stage] /\ cancelled' \in BOOLEAN /\ budget' \in 0..Timeout
           /\ CallsEndByDeadline'
<1> USE RenderAssumption, LaunchAssumption DEF IInv, TypeOK, CallsEndByDeadline
<1>1. CASE Active(needed)
  <2>1. stage' = [stage EXCEPT ![Render] = call] /\ budget' = time /\ cancelled' = cancelled
        /\ left' = left
    BY <1>1 DEF StartCall, Go, OnlyStage
  <2>2. left[Render] \in 0..Timeout /\ time <= left[Render]
    BY <1>1 DEF Active
  <2> QED BY <2>1, <2>2 DEF Stage
<1>2. CASE ~Active(needed)
  <2>1. stage' = [stage EXCEPT ![Render] = "closing"] /\ budget' = budget /\ cancelled' = TRUE
    BY <1>2 DEF StartCall, Go
  <2> QED BY <2>1 DEF Stage, Call
<1> QED BY <1>1, <1>2

\* The steps of the driver once it has its browser, or has lost it.
CallMove ==
    \/ NewTab \/ Navigate \/ Load \/ PrintToPdf \/ CallEnds
    \/ Pause \/ CheckBeforeWrite \/ Write \/ Close

\* InstalledBrowserDriver::render keeps the invariant after the launch.
LEMMA DriverHolds ==
    ASSUME IInv, CallMove
    PROVE  IInv'
<1> USE RenderAssumption, LaunchAssumption DEF IInv
<1>1. /\ UNCHANGED <<left, candidates, gate, thread, mailbox, outer, proxy, blocked, late>>
      /\ stage[Render] \in Using \cup {"lost"}
      /\ \E to \in Using \cup {"over"} : stage' = [stage EXCEPT ![Render] = to]
      /\ Close \/ UNCHANGED <<browser, profile>>
  BY DEF CallMove, NewTab, Navigate, Load, PrintToPdf, StartCall, CallEnds, After, Pause,
         CheckBeforeWrite, Write, Close, Go, DriverOnly, OnlyStage, Using, Call, control
<1>2. TypeOK' /\ CallsEndByDeadline'
  <2>1. CASE NewTab
    <3>1. /\ stage' \in [User -> Stage] /\ cancelled' \in BOOLEAN /\ budget' \in 0..Timeout
          /\ CallsEndByDeadline'
      BY <2>1, CallTyped DEF NewTab, TypeOK, Stage, Call
    <3>2. UNCHANGED <<result, output, rejected>>
      BY <2>1 DEF NewTab, StartCall
    <3> QED BY <1>1, <2>1, <3>1, <3>2 DEF TypeOK, Stage, Close, NewTab, StartCall, OnlyStage
  <2>2. CASE Navigate
    <3>1. /\ stage' \in [User -> Stage] /\ cancelled' \in BOOLEAN /\ budget' \in 0..Timeout
          /\ CallsEndByDeadline'
      BY <2>2, CallTyped DEF Navigate, TypeOK, Stage, Call
    <3>2. UNCHANGED <<result, output>> /\ rejected' \in BOOLEAN
      BY <2>2 DEF Navigate, StartCall, TypeOK
    <3> QED BY <1>1, <2>2, <3>1, <3>2 DEF TypeOK, Stage, Navigate, StartCall, OnlyStage
  <2>3. CASE Load
    <3>1. /\ stage' \in [User -> Stage] /\ cancelled' \in BOOLEAN /\ budget' \in 0..Timeout
          /\ CallsEndByDeadline'
      BY <2>3, CallTyped DEF Load, TypeOK, Stage, Call
    <3>2. UNCHANGED <<result, output, rejected>>
      BY <2>3 DEF Load, StartCall
    <3> QED BY <1>1, <2>3, <3>1, <3>2 DEF TypeOK, Stage, Load, StartCall, OnlyStage
  <2>4. CASE PrintToPdf
    <3>1. /\ stage' \in [User -> Stage] /\ cancelled' \in BOOLEAN /\ budget' \in 0..Timeout
          /\ CallsEndByDeadline'
      BY <2>4, CallTyped DEF PrintToPdf, TypeOK, Stage, Call
    <3>2. UNCHANGED <<result, output, rejected>>
      BY <2>4 DEF PrintToPdf, StartCall
    <3> QED BY <1>1, <2>4, <3>1, <3>2 DEF TypeOK, Stage, PrintToPdf, StartCall, OnlyStage
  <2>5. CASE CallEnds
    BY <1>1, <2>5 DEF CallEnds, Go, After, OnlyStage, TypeOK, CallsEndByDeadline, Call, Using
  <2>6. CASE Pause \/ CheckBeforeWrite
    <3>1. /\ \E to \in {"paused", "write", "closing"} : stage' = [stage EXCEPT ![Render] = to]
          /\ cancelled' \in BOOLEAN
          /\ UNCHANGED <<left, candidates, gate, thread, mailbox, browser, profile>>
          /\ UNCHANGED <<outer, proxy, blocked, late, budget, result, output, rejected>>
      BY <2>6 DEF Pause, CheckBeforeWrite, Go, OnlyStage, DriverOnly, TypeOK
    <3>2. stage' \in [User -> Stage] /\ stage'[Render] \notin Call
      BY <3>1 DEF TypeOK, Stage, Call
    <3> QED BY <3>1, <3>2 DEF TypeOK, CallsEndByDeadline, Stage
  <2>7. CASE Write
    <3>1. /\ stage' = [stage EXCEPT ![Render] = "closing"]
          /\ output' \in BOOLEAN /\ result' \in {"none", "ok"}
          /\ UNCHANGED <<left, candidates, gate, thread, mailbox, browser, profile>>
          /\ UNCHANGED <<outer, proxy, blocked, late, cancelled, budget, rejected>>
      BY <2>7 DEF Write, Go, OnlyStage, DriverOnly, TypeOK
    <3> QED BY <3>1 DEF TypeOK, CallsEndByDeadline, Call
  <2>8. CASE Close
    BY <1>1, <2>8 DEF Close, Go, control, TypeOK, CallsEndByDeadline, Call
  <2> QED BY <2>1, <2>2, <2>3, <2>4, <2>5, <2>6, <2>7, <2>8 DEF CallMove
<1>3. LaunchGate' /\ GateIsPassedOn'
  BY <1>1, GateUntouched DEF TypeOK, Using, Call
<1>4. DriverStartsLater'
  BY <1>1 DEF DriverStartsLater, TypeOK, Using, Call
<1>5. stage[Render] \notin {"off", "over"}
  BY <1>1 DEF Using, Call
<1>6. DriverEndsFirst'
  <2>1. /\ result' = result \/ (result' = "ok" /\ output')
        /\ output => output'
    BY DEF CallMove, NewTab, Navigate, Load, PrintToPdf, StartCall, CallEnds, Pause,
           CheckBeforeWrite, Write, Close, control, TypeOK
  <2> QED BY <1>1, <1>5, <2>1 DEF DriverEndsFirst, Watching
<1>7. NoLateOutput'
  <2>1. outer \in {"failed", "rendered"} => late
    BY <1>5 DEF DriverEndsFirst, Watching
  <2>2. output => output'
    BY DEF CallMove, NewTab, Navigate, Load, PrintToPdf, StartCall, CallEnds, Pause,
           CheckBeforeWrite, Write, Close, control, TypeOK
  <2> QED BY <1>1, <2>1, <2>2 DEF NoLateOutput
<1>8. BrowserIsOwned'
  <2>1. /\ \A v \in User \ {Render} : stage'[v] = stage[v] /\ browser'[v] = browser[v]
        /\ browser'[Render] => browser[Render] /\ (Close => stage[Render] = "lost")
    BY <1>1 DEF Close, TypeOK
  <2>3. ~Close => stage'[Render] \in Using
    BY <1>1
       DEF CallMove, NewTab, Navigate, Load, PrintToPdf, StartCall, CallEnds, After, Pause,
           CheckBeforeWrite, Write, Go, Using, Call, TypeOK
  <2>2. mailbox[Render] = "empty"
    BY <1>1 DEF BrowserIsOwned, Using, Call
  <2> QED BY <1>1, <2>1, <2>2, <2>3 DEF BrowserIsOwned, Using, Call
<1>9. ProfileIsOwned'
  <2>1. CASE Close
    BY <1>1, <2>1 DEF Close, Go, ProfileIsOwned, TypeOK, Using, Call
  <2>2. CASE ~Close
    <3>1. stage'[Render] \in Using /\ \A v \in User \ {Render} : stage'[v] = stage[v]
      BY <1>1, <2>2
         DEF CallMove, NewTab, Navigate, Load, PrintToPdf, StartCall, CallEnds, After, Pause,
             CheckBeforeWrite, Write, Go, Using, Call, TypeOK
    <3> QED BY <1>1, <2>2, <3>1 DEF ProfileIsOwned, TypeOK, Using, Call
  <2> QED BY <2>1, <2>2
<1> QED BY <1>2, <1>3, <1>4, <1>6, <1>7, <1>8, <1>9

\* The doctor commands, the requests of the page and the clock keep the invariant.
LEMMA OthersHold ==
    ASSUME IInv,
           \/ \E d \in Doctor : StartDoctor(d) \/ (DoctorStep(d) /\ stage[d] \in {"got", "lost"})
           \/ Reject
           \/ Tick
    PROVE  IInv'
<1> USE RenderAssumption, LaunchAssumption DEF IInv
<1>1. ASSUME NEW d \in Doctor, StartDoctor(d) PROVE IInv'
  <2>1. d \in User /\ d # Render
    BY DEF Doctor
  <2>2. /\ stage[d] = "off" /\ stage' = [stage EXCEPT ![d] = "locate"]
        /\ left' = [left EXCEPT ![d] = Timeout]
        /\ UNCHANGED <<candidates, gate, thread, mailbox, browser, profile>>
        /\ UNCHANGED <<outer, cancelled, budget, result, output, proxy, rejected, blocked, late>>
    BY <1>1 DEF StartDoctor, LaunchIdle, DoctorOnly, control, proxyVars
  <2>3. TypeOK'
    BY <2>1, <2>2 DEF TypeOK
  <2>4. LaunchGate' /\ GateIsPassedOn'
    BY <2>1, <2>2, GateUntouched DEF TypeOK
  <2>5. DriverStartsLater' /\ CallsEndByDeadline' /\ DriverEndsFirst' /\ NoLateOutput'
    BY <2>1, <2>2
       DEF TypeOK, DriverStartsLater, CallsEndByDeadline, DriverEndsFirst, NoLateOutput
  <2>6. BrowserIsOwned' /\ ProfileIsOwned'
    BY <2>1, <2>2 DEF TypeOK, BrowserIsOwned, ProfileIsOwned, Using, Call
  <2> QED BY <2>3, <2>4, <2>5, <2>6
<1>2. ASSUME NEW d \in Doctor, DoctorStep(d), stage[d] \in {"got", "lost"} PROVE IInv'
  <2>1. d \in User /\ d # Render
    BY DEF Doctor
  <2>2. /\ stage' = [stage EXCEPT ![d] = "over"]
        /\ browser' = [browser EXCEPT ![d] = @ /\ stage[d] = "lost"]
        /\ UNCHANGED <<left, candidates, gate, thread, mailbox, profile>>
        /\ UNCHANGED <<outer, cancelled, budget, result, output, proxy, rejected, blocked, late>>
    BY <1>2 DEF DoctorStep, LaunchStep, Locate, Unavailable, Abort, Attempt, TakeGate, WaitForGate,
                WaitTimesOut, SpawnTooLate, SpawnFails, SpawnThread, Recv, RecvTimesOut,
                DoctorOnly, control, proxyVars
  <2>3. TypeOK'
    BY <2>1, <2>2 DEF TypeOK
  <2>4. LaunchGate' /\ GateIsPassedOn'
    BY <1>2, <2>1, <2>2, GateUntouched DEF TypeOK
  <2>5. DriverStartsLater' /\ CallsEndByDeadline' /\ DriverEndsFirst' /\ NoLateOutput'
    BY <2>1, <2>2
       DEF TypeOK, DriverStartsLater, CallsEndByDeadline, DriverEndsFirst, NoLateOutput
  <2>6. BrowserIsOwned' /\ ProfileIsOwned'
    <3>1. /\ \A v \in User : v # d => stage'[v] = stage[v] /\ browser'[v] = browser[v]
          /\ stage'[d] = "over" /\ (browser'[d] => browser[d] /\ stage[d] = "lost")
      BY <2>1, <2>2 DEF TypeOK
    <3>2. stage[d] \in {"got", "lost"} /\ stage[d] # "recv"
      BY <1>2
    <3>3. BrowserIsOwned'
      BY <2>1, <2>2, <3>1, <3>2 DEF BrowserIsOwned, Using, Call
    <3>4. ProfileIsOwned'
      BY <2>1, <2>2, <3>1, <3>2 DEF ProfileIsOwned
    <3> QED BY <3>3, <3>4
  <2> QED BY <2>3, <2>4, <2>5, <2>6
<1>3. CASE Reject
  <2>1. /\ UNCHANGED <<left, stage, candidates, gate, thread, mailbox, browser, profile>>
        /\ UNCHANGED <<outer, cancelled, budget, result, output, proxy, blocked, late>>
        /\ rejected' = TRUE
    BY <1>3 DEF Reject, launchVars, control
  <2>2. LaunchGate' /\ GateIsPassedOn'
    BY <2>1, GateUntouched
  <2> QED BY <2>1, <2>2
          DEF TypeOK, DriverStartsLater, CallsEndByDeadline, DriverEndsFirst, NoLateOutput,
              BrowserIsOwned, ProfileIsOwned
<1>4. CASE Tick
  <2>1. /\ UNCHANGED <<stage, candidates, gate, thread, mailbox, browser, profile>>
        /\ UNCHANGED <<outer, cancelled, result, output, proxy, rejected, blocked, late>>
    BY <1>4 DEF Tick, proxyVars
  <2>2. left' \in [User -> 0..Timeout] /\ budget' \in 0..Timeout
    BY <1>4 DEF Tick, TypeOK
  <2>3. CallsEndByDeadline'
    BY <1>4, <2>1 DEF Tick, CallsEndByDeadline, TypeOK
  <2>4. LaunchGate' /\ GateIsPassedOn'
    BY <2>1, GateUntouched
  <2> QED BY <2>1, <2>2, <2>3, <2>4
          DEF TypeOK, DriverStartsLater, DriverEndsFirst, NoLateOutput,
              BrowserIsOwned, ProfileIsOwned
<1> QED BY <1>1, <1>2, <1>3, <1>4

\* Everything is at rest in the beginning.
LEMMA InitHolds == Init => IInv
<1> SUFFICES ASSUME Init PROVE IInv
  OBVIOUS
<1> USE RenderAssumption, LaunchAssumption DEF Init, LaunchInit
<1>1. TypeOK
  <2>1. 0 \in 0..Timeout /\ 0 \in 0..MaxCandidates
    OBVIOUS
  <2>2. /\ left \in [User -> 0..Timeout] /\ candidates \in [User -> 0..MaxCandidates]
        /\ budget \in 0..Timeout
    BY <2>1
  <2>3. profile \in [User -> SUBSET {"renderer", "driver", "launcher", "thread"}]
    OBVIOUS
  <2> QED BY <2>2, <2>3 DEF TypeOK
<1>2. LaunchGate /\ GateIsPassedOn
  BY DEF LaunchGate, GateIsPassedOn, InLaunch, Waiting
<1>3. DriverStartsLater /\ CallsEndByDeadline /\ DriverEndsFirst /\ NoLateOutput
  BY DEF DriverStartsLater, CallsEndByDeadline, DriverEndsFirst, NoLateOutput, Watching, Call
<1>4. BrowserIsOwned /\ ProfileIsOwned
  BY DEF BrowserIsOwned, ProfileIsOwned
<1> QED BY <1>1, <1>2, <1>3, <1>4 DEF IInv

\* Every step of a user, a thread, the page or the clock keeps the invariant.
LEMMA StepHolds == IInv /\ [Next]_vars => IInv'
<1> SUFFICES ASSUME IInv, [Next]_vars PROVE IInv'
  OBVIOUS
<1>1. CASE StartRender \/ RendererStep
  BY <1>1, RendererHolds
<1>2. CASE DriverLaunches
  <2>1. /\ LaunchMove(Render) /\ cancelled' \in BOOLEAN
        /\ UNCHANGED <<outer, budget, result, output, proxyVars, blocked, late>>
    BY <1>2 DEF DriverLaunches, LaunchMove, DriverOnly, proxyVars, IInv, TypeOK
  <2> QED BY <2>1, LaunchHolds, RenderAssumption
<1>3. CASE CallMove
  BY <1>3, DriverHolds
<1>4. CASE Reject \/ Tick \/ \E d \in Doctor : StartDoctor(d)
  BY <1>4, OthersHold
<1>5. ASSUME NEW d \in Doctor, DoctorStep(d) PROVE IInv'
  <2>1. CASE stage[d] \in {"got", "lost"}
    BY <1>5, <2>1, OthersHold
  <2>2. CASE stage[d] \notin {"got", "lost"}
    <3>1. /\ LaunchMove(d) /\ d \in User /\ cancelled' = cancelled
          /\ UNCHANGED <<outer, budget, result, output, proxyVars, blocked, late>>
      BY <1>5, <2>2 DEF DoctorStep, LaunchMove, DoctorOnly, control, Doctor
    <3> QED BY <3>1, LaunchHolds DEF IInv, TypeOK
  <2> QED BY <2>1, <2>2
<1>6. ASSUME NEW u \in User, Threads(u) PROVE IInv'
  <2>1. /\ LaunchMove(u) /\ cancelled' = cancelled
        /\ UNCHANGED <<outer, budget, result, output, proxyVars, blocked, late>>
    BY <1>6 DEF Threads, LaunchMove, DoctorOnly, control
  <2> QED BY <2>1, LaunchHolds DEF IInv, TypeOK
<1>7. CASE UNCHANGED vars
  <2>1. LaunchGate' /\ GateIsPassedOn'
    BY <1>7, GateUntouched DEF IInv, vars, launchVars
  <2> QED BY <1>7, <2>1
          DEF vars, launchVars, control, proxyVars, IInv, TypeOK, DriverStartsLater,
              CallsEndByDeadline, DriverEndsFirst, NoLateOutput, BrowserIsOwned, ProfileIsOwned
<1> QED BY <1>1, <1>2, <1>3, <1>4, <1>5, <1>6, <1>7 DEF Next, DriverStep, CallMove

\* The inductive invariant holds in every state, with any number of users and
\* candidates and any timeout.
THEOREM RenderInvariance == Spec => []IInv
  BY InitHolds, StepHolds, PTL DEF Spec

\* Renderer, driver, launches and threads keep their types (browser.rs).
THEOREM RenderTypeCorrect == Spec => []TypeOK
<1>1. IInv => TypeOK
  BY DEF IInv
<1> QED BY RenderInvariance, <1>1, PTL

\* One launch at a time, and who waits for the gate finds it closed or is woken
\* (acquire and drop of the launch guard).
THEOREM OneLaunchAtATime == Spec => []LaunchGate
<1>1. IInv => LaunchGate
  BY DEF IInv
<1> QED BY RenderInvariance, <1>1, PTL

\* Whatever the launch took of the time, every call to the browser has its
\* requests within the rest of it (before_cdp_operations).
THEOREM CallsFitTheDeadline == Spec => []CallsEndByDeadline
<1>1. IInv => CallsEndByDeadline
  BY DEF IInv
<1> QED BY RenderInvariance, <1>1, PTL

\* A failed rendering has no output unless the renderer itself was late, a
\* successful one has (InstalledBrowserDriver::render, before fs::write).
THEOREM FailedLeavesNoOutput == Spec => []NoLateOutput
<1>1. IInv => NoLateOutput
  BY DEF IInv
<1> QED BY RenderInvariance, <1>1, PTL

\* A running browser keeps its profile and its proxy
\* (BrowserHtmlRenderer::render, which drops both).
THEOREM BrowserKeepsEquipment == Spec => []BrowserIsEquipped
<1>1. IInv => BrowserIsEquipped
  <2> SUFFICES ASSUME IInv, browser[Render], stage[Render] \notin {"lost", "over"}
               PROVE  profile[Render] # {} /\ (proxy = "open" \/ late)
    BY DEF BrowserIsEquipped
  <2>1. stage[Render] \notin {"off", "over"}
    BY DEF IInv, DriverStartsLater
  <2>2. "driver" \in profile[Render]
    BY <2>1 DEF IInv, ProfileIsOwned
  <2>3. proxy = "open" \/ late
    BY <2>1 DEF IInv, DriverEndsFirst
  <2> QED BY <2>2, <2>3
<1> QED BY RenderInvariance, <1>1, PTL

\* The user is through and its launch thread has ended.
Through(u) ==
    /\ stage[u] = "over" /\ thread[u] = "none"
    /\ u = Render => outer \in {"failed", "rendered"}

\* Who is through leaves no browser and no profile directory behind: a browser
\* that is launched for somebody who gave up meanwhile is dropped, and the
\* directory has lost the last of its handles (browser.rs:460).
NothingLeftBehind == \A u \in User : Through(u) => ~browser[u] /\ profile[u] = {}

\* Nothing stays behind of those who are through, whoever gave up in between
\* (launch_with_timeout: the thread that finds nobody receiving).
THEOREM LeavesNothing == Spec => []NothingLeftBehind
<1>1. IInv => NothingLeftBehind
  <2> SUFFICES ASSUME IInv, NEW u \in User, Through(u)
               PROVE  ~browser[u] /\ profile[u] = {}
    BY DEF NothingLeftBehind
  <2>1. ~browser[u]
    BY DEF IInv, BrowserIsOwned, Through, Using, Call
  <2>2. \A h \in {"renderer", "driver", "launcher", "thread"} : h \notin profile[u]
    BY DEF IInv, ProfileIsOwned, Through, Watching
  <2>3. profile[u] \subseteq {"renderer", "driver", "launcher", "thread"}
    BY DEF IInv, TypeOK
  <2> QED BY <2>1, <2>2, <2>3
<1> QED BY RenderInvariance, <1>1, PTL
-----------------------------------------------------------------------------
(* The filtering proxy.                                                    *)

\* An address is approved before it is used, and stays what was approved.
ApprovalHolds ==
    \A r \in Resource : request[r].at \in {"approved", "connected"} =>
        \/ request[r].address = "public"
        \/ request[r].address = "loopback" /\ request[r].target = "own_loopback" /\ local

\* Nothing of the page is rejected before the tracker has been cleared.
PageComesLater ==
    /\ \A r \in Resource : request[r].page => opened
    /\ ~opened => refused = << >>

FilterInv == FilterTypeOK /\ ApprovalHolds /\ PageComesLater /\ FirstRejectionCounts

\* An address that the policy approves is public or the approved origin.
LEMMA PolicyIsSound ==
    ASSUME NEW target \in Target, NEW answer \in Answer,
           resolve_target(target, answer) # Blocked
    PROVE  /\ resolve_target(target, answer) \in Address
           /\ \/ resolve_target(target, answer) = "public"
              \/ /\ resolve_target(target, answer) = "loopback"
                 /\ target = "own_loopback" /\ local
<1>1. CASE target = "public"
  BY <1>1 DEF resolve_target, Address
<1>2. CASE target = "own_loopback"
  <2>1. CASE local
    BY <1>2, <2>1 DEF resolve_target, Address
  <2>2. CASE ~local
    BY <1>2, <2>2 DEF resolve_target, Blocked
  <2> QED BY <2>1, <2>2
<1>3. CASE target = "name" /\ answer # << >> /\ \A i \in DOMAIN answer : answer[i] = "public"
  <2>1. resolve_target(target, answer) = Head(answer)
    BY <1>3 DEF resolve_target
  <2>2. PICK address \in {"public", "private"} :
            answer \in {<<address>>, <<address, "public">>, <<address, "private">>}
    BY <1>3 DEF Answer
  <2>3. Head(answer) = address /\ 1 \in DOMAIN answer /\ answer[1] = address
    BY <2>2
  <2>4. Head(answer) = "public"
    BY <1>3, <2>3
  <2> QED BY <2>1, <2>4 DEF Address
<1>4. CASE /\ target \notin {"public", "own_loopback"}
           /\ ~(target = "name" /\ answer # << >> /\ \A i \in DOMAIN answer : answer[i] = "public")
  BY <1>4 DEF resolve_target, Blocked
<1> QED BY <1>1, <1>2, <1>3, <1>4

\* The invariant holds when the proxy has started (start_with).
LEMMA FilterInitHolds == FilterInit => FilterInv
<1> SUFFICES ASSUME FilterInit PROVE FilterInv
  OBVIOUS
<1>1. FilterTypeOK
  <2>1. NoRequest \in [at : {"none", "handling", "answered", "rejected", "approved",
                            "connected"},
                      target : Target, page : BOOLEAN, address : Address]
    BY DEF NoRequest, Target, Address
  <2>2. << >> \in Seq(Resource)
    OBVIOUS
  <2> HIDE DEF NoRequest
  <2> QED BY <2>1, <2>2 DEF FilterInit, FilterTypeOK
<1>2. ApprovalHolds /\ PageComesLater
  BY DEF FilterInit, ApprovalHolds, PageComesLater, NoRequest
<1>3. FirstRejectionCounts
  BY DEF FilterInit, FirstRejectionCounts
<1> QED BY <1>1, <1>2, <1>3 DEF FilterInv

\* The first rejection stays the first when another one follows.
LEMMA AppendKeepsHead ==
    ASSUME NEW s \in Seq(Resource), NEW r \in Resource
    PROVE  /\ Append(s, r) \in Seq(Resource)
           /\ Append(s, r) # << >>
           /\ Head(Append(s, r)) = IF s = << >> THEN r ELSE Head(s)
<1>1. /\ Append(s, r) \in Seq(Resource)
      /\ Len(Append(s, r)) = Len(s) + 1
      /\ Append(s, r)[Len(s) + 1] = r
      /\ \A i \in 1..Len(s) : Append(s, r)[i] = s[i]
  BY AppendProperties
<1>2. Len(s) \in Nat /\ (s = << >> <=> Len(s) = 0)
  BY EmptySeq, LenProperties
<1>3. Append(s, r) # << >> /\ Head(Append(s, r)) = Append(s, r)[1]
  BY <1>1, <1>2
<1>4. CASE s = << >>
  BY <1>1, <1>2, <1>3, <1>4
<1>5. CASE s # << >>
  <2>1. 1 \in 1..Len(s) /\ Head(s) = s[1]
    BY <1>2, <1>5
  <2> QED BY <1>1, <1>3, <1>5, <2>1
<1> QED BY <1>1, <1>3, <1>4, <1>5

\* Every step of a handler, of the driver and of the renderer preserves it.
LEMMA FilterStepHolds == FilterInv /\ [FilterNext]_filterVars => FilterInv'
<1> SUFFICES ASSUME FilterInv, [FilterNext]_filterVars PROVE FilterInv'
  OBVIOUS
<1> USE DEF FilterInv
<1>1. ASSUME NEW r \in Resource, NEW target \in Target, NEW page \in BOOLEAN,
             Arrive(r, target, page)
      PROVE  FilterInv'
  <2>1. /\ request' = [request EXCEPT ![r].at = "handling", ![r].target = target,
                                      ![r].page = page]
        /\ page => opened
        /\ UNCHANGED <<accepting, local, inline, opened, verdict, tracker, refused>>
    BY <1>1 DEF Arrive, Renderer
  <2>2. FilterTypeOK'
    <3>1. request' \in [Resource -> [at : {"none", "handling", "answered", "rejected",
                                           "approved", "connected"},
                                     target : Target, page : BOOLEAN, address : Address]]
      BY <2>1 DEF FilterTypeOK
    <3> QED BY <2>1, <3>1 DEF FilterTypeOK
  <2>3. ApprovalHolds'
    BY <2>1 DEF FilterTypeOK, ApprovalHolds
  <2>4. PageComesLater'
    BY <2>1 DEF FilterTypeOK, PageComesLater
  <2>5. FirstRejectionCounts'
    BY <2>1 DEF FirstRejectionCounts
  <2> QED BY <2>2, <2>3, <2>4, <2>5
<1>2. ASSUME NEW r \in Resource, AnswerLocally(r)
      PROVE  FilterInv'
  BY <1>2 DEF AnswerLocally, FilterTypeOK, ApprovalHolds, PageComesLater, FirstRejectionCounts,
     Renderer
<1>3. ASSUME NEW r \in Resource, NEW answer \in Answer, Forward(r, answer)
      PROVE  FilterInv'
  <2> DEFINE target == request[r].target
             address == resolve_target(target, answer)
  <2>1. target \in Target /\ request[r].page \in BOOLEAN
    BY DEF FilterTypeOK
  <2>2. CASE address = Blocked
    <3>1. /\ request' = [request EXCEPT ![r].at = "rejected"]
          /\ record(r)
          /\ refused' = IF request[r].page THEN Append(refused, r) ELSE refused
          /\ UNCHANGED Renderer
      BY <1>3, <2>2 DEF Forward
    <3>2. CASE request[r].page
      <4>1. /\ opened
            /\ refused' \in Seq(Resource)
            /\ refused' # << >>
            /\ Head(refused') = IF refused = << >> THEN r ELSE Head(refused)
        BY <3>1, <3>2, AppendKeepsHead DEF FilterTypeOK, PageComesLater
      <4>2. tracker' = Head(refused')
        BY <3>1, <3>2, <4>1, ProxyAssumption DEF record, FirstRejectionCounts, FilterTypeOK
      <4>3. FilterTypeOK'
        BY <3>1, <4>1, <3>2 DEF FilterTypeOK, record, Renderer
      <4>4. ApprovalHolds' /\ PageComesLater'
        BY <3>1, <4>1 DEF FilterTypeOK, ApprovalHolds, PageComesLater, Renderer
      <4>5. FirstRejectionCounts'
        BY <3>1, <4>1, <4>2 DEF FirstRejectionCounts, Renderer
      <4> QED BY <4>3, <4>4, <4>5
    <3>3. CASE ~request[r].page
      BY <3>1, <3>3 DEF record, FilterTypeOK, ApprovalHolds, PageComesLater, FirstRejectionCounts,
         Renderer
    <3> QED BY <3>2, <3>3
  <2>3. CASE address # Blocked
    <3>1. /\ address \in Address
          /\ \/ address = "public"
             \/ address = "loopback" /\ target = "own_loopback" /\ local
      BY <2>1, <2>3, PolicyIsSound
    <3>2. /\ request' = [request EXCEPT ![r].at = "approved", ![r].address = address]
          /\ UNCHANGED <<Renderer, tracker, refused>>
      BY <1>3, <2>3 DEF Forward
    <3> HIDE DEF address
    <3> QED
      BY <3>1, <3>2 DEF FilterTypeOK, ApprovalHolds, PageComesLater, FirstRejectionCounts, Renderer
  <2> QED BY <2>2, <2>3
<1>4. ASSUME NEW r \in Resource, Connect(r)
      PROVE  FilterInv'
  BY <1>4 DEF Connect, FilterTypeOK, ApprovalHolds, PageComesLater, FirstRejectionCounts, Renderer
<1>5. ASSUME OpenPage PROVE FilterInv'
  BY <1>5 DEF OpenPage, FilterTypeOK, ApprovalHolds, PageComesLater, FirstRejectionCounts
<1>6. ASSUME Read PROVE FilterInv'
  BY <1>6 DEF Read, FilterTypeOK, ApprovalHolds, PageComesLater, FirstRejectionCounts
<1>7. ASSUME Stop PROVE FilterInv'
  BY <1>7 DEF Stop, FilterTypeOK, ApprovalHolds, PageComesLater, FirstRejectionCounts
<1>8. CASE UNCHANGED filterVars
  BY <1>8 DEF filterVars, FilterTypeOK, ApprovalHolds, PageComesLater, FirstRejectionCounts
<1> QED BY <1>1, <1>2, <1>3, <1>4, <1>5, <1>6, <1>7, <1>8 DEF FilterNext, Handle

\* The strengthened invariant: approval precedes use, and nothing of the page is
\* refused before the tracker is cleared.
THEOREM ProxyInvariant == FilterSpec => []FilterInv
BY FilterInitHolds, FilterStepHolds, PTL DEF FilterSpec

\* The requests, the tracker and the verdict keep their types.
THEOREM ProxyTypes == FilterSpec => []FilterTypeOK
<1>1. FilterInv => FilterTypeOK
  BY DEF FilterInv
<1> QED BY <1>1, ProxyInvariant, PTL

\* Connections go to approved addresses only.
THEOREM ProxyConnectsToApproved == FilterSpec => []OnlyApprovedAddresses
<1>1. FilterInv => OnlyApprovedAddresses
  BY DEF FilterInv, ApprovalHolds, OnlyApprovedAddresses
<1> QED BY <1>1, ProxyInvariant, PTL

\* The job fails with the page's first rejected resource.
THEOREM ProxyReportsFirst == FilterSpec => []FirstRejectionCounts
<1>1. FilterInv => FirstRejectionCounts
  BY DEF FilterInv
<1> QED BY <1>1, ProxyInvariant, PTL
=============================================================================
