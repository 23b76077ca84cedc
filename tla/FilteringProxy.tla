--------------------------- MODULE FilteringProxy ----------------------------
(***************************************************************************)
(* The proxy between the browser and the network while an HTML job is      *)
(* rendered (crates/runtime/src/html/proxy.rs, resource_policy.rs): its    *)
(* accept loop, the detached tasks that serve the requests, the policy     *)
(* that approves an address, and the tracker in which the first rejected   *)
(* resource of the page is kept for the renderer. The renderer and its     *)
(* driver appear with what they do to the proxy: clear before the page is  *)
(* opened, read once, shut down or drop.                                   *)
(***************************************************************************)
EXTENDS Sequences

CONSTANTS Resource,  \* requests of the browser, each sent once
          None       \* no resource

ASSUME ProxyAssumption == None \notin Resource

Address == {"public", "private", "loopback"}

\* What a request asks for: the page of an inline job or its icon, a host to look
\* up, a public address, the loopback origin of the client's page, another
\* address that is not public (localhost too), or something that is no request
\* for a proxy.
Target == {"inline", "name", "public", "own_loopback", "private", "malformed"}

\* What a name may resolve to, differently each time it is asked.
Answer == {<< >>, <<"public">>, <<"private">>, <<"public", "private">>,
           <<"private", "public">>}

VARIABLES
    accepting,  \* the accept loop runs
    local,      \* allowed_loopback_origin is given
    inline,     \* the job is inline HTML
    opened,     \* the driver has cleared the tracker and opened the page
    request,    \* the requests at the proxy
    tracker,    \* RejectedResourceTracker.rejected_resource
    verdict,    \* what the renderer read: a resource, None or "unread"
    refused     \* history: the page's resources in the order of their rejection

filterVars == <<accepting, local, inline, opened, request, tracker, verdict, refused>>

NoRequest == [at |-> "none", target |-> "name", page |-> FALSE, address |-> "public"]

FilterInit ==
    /\ accepting = TRUE
    /\ local \in BOOLEAN
    /\ inline \in BOOLEAN
    /\ opened = FALSE
    /\ request = [r \in Resource |-> NoRequest]
    /\ tracker = None
    /\ verdict = "unread"
    /\ refused = << >>
-----------------------------------------------------------------------------
(* Serving a request.                                                      *)

Renderer == <<accepting, local, inline, opened, verdict>>

\* A request arrives, on a new connection or on one that is open; connections
\* outlive the accept loop. A request that carries the page's Referer or Origin
\* belongs to the page.
Arrive(r, target, page) ==
    /\ request[r].at = "none"
    /\ accepting \/ \E s \in Resource : request[s].at # "none"
    /\ page => opened
    /\ request' = [request EXCEPT ![r].at = "handling", ![r].target = target,
                                  ![r].page = page]
    /\ UNCHANGED <<Renderer, tracker, refused>>

Blocked == "blocked"

\* ResourcePolicy::resolve_target: every address of a name must be public.
resolve_target(target, answer) ==
    CASE target = "public" -> "public"
      [] target = "own_loopback" /\ local -> "loopback"
      [] target = "name" /\ answer # << >> /\ \A i \in DOMAIN answer : answer[i] = "public"
             -> Head(answer)
      [] OTHER -> Blocked

\* Mutant: the last rejected resource is kept.
RecordLast(r) == tracker' = IF request[r].page THEN r ELSE tracker

\* The first rejected resource of the page is kept.
record(r) == tracker' = IF request[r].page /\ tracker = None THEN r ELSE tracker

\* Served by the proxy itself, or refused without being recorded.
AnswerLocally(r) ==
    /\ request[r].at = "handling"
    /\ request[r].target = "malformed" \/ (request[r].target = "inline" /\ inline)
    /\ request' = [request EXCEPT ![r].at = "answered"]
    /\ UNCHANGED <<Renderer, tracker, refused>>

\* An inline address without an inline job is a name that nobody knows.
Forward(r, answer) ==
    LET target == request[r].target
        address == resolve_target(target, answer)
    IN  /\ request[r].at = "handling"
        /\ target # "malformed" /\ ~(target = "inline" /\ inline)
        /\ target # "name" => answer = << >>
        /\ IF address = Blocked
           THEN /\ request' = [request EXCEPT ![r].at = "rejected"]
                /\ record(r)
                /\ refused' = IF request[r].page THEN Append(refused, r) ELSE refused
           ELSE /\ request' = [request EXCEPT ![r].at = "approved", ![r].address = address]
                /\ UNCHANGED <<tracker, refused>>
        /\ UNCHANGED Renderer

\* Mutant: the connection looks the name up again.
ConnectByName(r) ==
    /\ request[r].at = "approved"
    /\ \E address \in Address :
           request' = [request EXCEPT ![r].at = "connected",
                           ![r].address = IF request[r].target = "name" THEN address ELSE @]
    /\ UNCHANGED <<Renderer, tracker, refused>>

\* The connector is given the approved address; it may fail, which is no
\* rejection.
Connect(r) ==
    /\ request[r].at = "approved"
    /\ \E outcome \in {"connected", "answered"} :
           request' = [request EXCEPT ![r].at = outcome]
    /\ UNCHANGED <<Renderer, tracker, refused>>

Handle(r) ==
    \/ AnswerLocally(r)
    \/ \E answer \in Answer : Forward(r, answer)
    \/ Connect(r)
-----------------------------------------------------------------------------
(* The renderer and its driver.                                            *)

OpenPage ==
    /\ ~opened
    /\ verdict = "unread"
    /\ opened' = TRUE
    /\ tracker' = None
    /\ UNCHANGED <<accepting, local, inline, request, verdict, refused>>

Read ==
    /\ opened
    /\ accepting
    /\ verdict = "unread"
    /\ verdict' = tracker
    /\ UNCHANGED <<accepting, local, inline, opened, request, tracker, refused>>

\* shutdown after the reading, or the drop of a renderer that failed before.
Stop ==
    /\ accepting
    /\ accepting' = FALSE
    /\ UNCHANGED <<local, inline, opened, request, tracker, verdict, refused>>

FilterNext ==
    \/ \E r \in Resource :
          \/ \E target \in Target, page \in BOOLEAN : Arrive(r, target, page)
          \/ Handle(r)
    \/ OpenPage \/ Read \/ Stop

FilterSpec == FilterInit /\ [][FilterNext]_filterVars
-----------------------------------------------------------------------------
FilterTypeOK ==
    /\ accepting \in BOOLEAN /\ local \in BOOLEAN
    /\ inline \in BOOLEAN /\ opened \in BOOLEAN
    /\ request \in [Resource -> [at : {"none", "handling", "answered", "rejected",
                                       "approved", "connected"},
                                 target : Target, page : BOOLEAN, address : Address]]
    /\ tracker \in Resource \cup {None}
    /\ verdict \in Resource \cup {None, "unread"}
    /\ refused \in Seq(Resource)

\* No connection leaves the proxy except to an address that was checked: public,
\* or the loopback origin of the client's page if that was approved, whatever the
\* resolver answers and however often. docs/technical_en.md:457 has no such
\* exception ("local, and private-network addresses are rejected"); the code has
\* it for the page's own origin (resource_policy.rs:229, 278).
OnlyApprovedAddresses ==
    \A r \in Resource : request[r].at = "connected" =>
        \/ request[r].address = "public"
        \/ request[r].address = "loopback" /\ request[r].target = "own_loopback" /\ local

\* What fails the job is the first of the page's resources that was rejected: not
\* a later one, not a request that the browser makes by itself, and it is not
\* forgotten until the renderer reads it, with any number of handlers at work.
FirstRejectionCounts ==
    /\ refused = << >> => tracker = None
    /\ refused # << >> => tracker = Head(refused)
    /\ verdict \notin {"unread", None} => refused # << >> /\ verdict = Head(refused)
=============================================================================
