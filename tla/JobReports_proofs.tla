------------------------- MODULE JobReports_proofs --------------------------
(***************************************************************************)
(* What becomes of the reports of a job. For any number of connections and *)
(* jobs and any capacity of the channel: a client hears of its own jobs    *)
(* only, after the answer to its request, in order, and of everything      *)
(* unless its receiver lagged. For any job ids, capacity and number of     *)
(* reports, clears and crashes: the history's rows agree with its events,  *)
(* and its events with what was reported.                                  *)
(***************************************************************************)
EXTENDS StatusDelivery, TaskHistory, SequenceTheorems, TLAPS

(* The way to the clients.                                                 *)

Admitted == IdsOf(ledger)

\* What is started, reported or submitted has been admitted: the worker cannot
\* have reported on a job id that the queue still takes for new.
OnlyAdmitted ==
    /\ active \in JobId => active \in Admitted
    /\ \A n \in DOMAIN channel : channel[n].job \in Admitted
    /\ \A c \in Conn : submitted[c] \subseteq Admitted

\* A connection knows its jobs but for the moment between the queue's answer
\* and accepted_job_ids.extend, while the answer is still to be sent.
KnowsItsJobs(c) ==
    /\ phase[c] = "new" => received[c] = << >> /\ submitted[c] = {}
    /\ phase[c] \in {"new", "select", "closed"} => outgoing[c] = Nothing
    /\ phase[c] = "admitted" => /\ outgoing[c].type = "queued"
                                /\ submitted[c] = accepted[c] \cup outgoing[c].jobs
    /\ phase[c] # "admitted" => accepted[c] = submitted[c]

\* A status event that is being sent is the last one that was read.
SendsLastRead(c) ==
    outgoing[c].type = "job_status" =>
        /\ phase[c] = "send"
        /\ outgoing[c].event = cursor[c]
        /\ \E j \in accepted[c] : outgoing[c].jobs = {j}

HasAnswer(c, j) ==
    \E k \in DOMAIN received[c] : received[c][k].type = "queued" /\ j \in received[c][k].jobs

\* A job that the connection knows was answered, or its answer comes next.
IsAnswered(c) ==
    phase[c] # "closed" =>
        \A j \in accepted[c] :
            \/ HasAnswer(c, j)
            \/ phase[c] = "send" /\ outgoing[c].type = "queued" /\ j \in outgoing[c].jobs

\* No event is received that was not read from the channel.
ReceivesWhatWasRead(c) ==
    /\ cursor[c] <= Len(channel)
    /\ \A i \in StatusIn(received[c]) :
          /\ received[c][i].event <= cursor[c]
          /\ outgoing[c].type = "job_status" => received[c][i].event < cursor[c]

OwnJobs(c) == \A i \in StatusIn(received[c]) : received[c][i].jobs \subseteq submitted[c]

AnswerBefore(c) ==
    \A i \in StatusIn(received[c]) :
        \E k \in 1..i - 1 :
            received[c][k].type = "queued" /\ received[c][i].jobs \subseteq received[c][k].jobs

InOrder(c) ==
    \A i, k \in StatusIn(received[c]) : i < k => received[c][i].event < received[c][k].event

Complete(c) ==
    phase[c] \notin {"new", "closed"} /\ ~lagged[c] =>
        Delivered(c) = {n \in 1..cursor[c] : channel[n].job \in submitted[c]}

ConnInv(c) ==
    /\ KnowsItsJobs(c) /\ SendsLastRead(c) /\ IsAnswered(c) /\ ReceivesWhatWasRead(c)
    /\ OwnJobs(c) /\ AnswerBefore(c) /\ InOrder(c) /\ Complete(c)

IInv ==
    /\ TypeOK
    /\ OnlyAdmitted
    /\ \A c \in Conn : ConnInv(c)

\* The invariant holds when the agent starts.
LEMMA InitHolds == Init => IInv
<1> SUFFICES ASSUME Init PROVE IInv
  OBVIOUS
<1>1. TypeOK
  <2>1. /\ Nothing \in Message
        /\ << >> \in Seq(Queue!Entry) /\ << >> \in Seq(Message)
        /\ << >> \in Seq([job : JobId, status : JobStatus])
    BY DEF Nothing, Message
  <2> HIDE DEF Nothing
  <2>2. /\ status \in [JobId -> JobStatus \cup {"none"}] /\ active \in JobId \cup {NoJob}
        /\ ledger \in Seq(Queue!Entry) /\ started \in Nat /\ running \in BOOLEAN
        /\ channel \in Seq([job : JobId, status : JobStatus])
    BY <2>1 DEF Init, LifecycleInit, Queue!LedgerInit
  <2>3. /\ phase \in [Conn -> {"new", "select", "admitted", "send", "closed"}]
        /\ cursor \in [Conn -> Nat]
        /\ accepted \in [Conn -> SUBSET JobId]
        /\ outgoing \in [Conn -> Message]
        /\ received \in [Conn -> Seq(Message)]
        /\ submitted \in [Conn -> SUBSET JobId]
    BY <2>1 DEF Init
  <2>4. lagged \in [Conn -> BOOLEAN]
    BY DEF Init
  <2> QED BY <2>2, <2>3, <2>4 DEF TypeOK
<1>2. OnlyAdmitted
  BY DeliveryAssumption DEF Init, LifecycleInit, OnlyAdmitted
<1>3. ASSUME NEW c \in Conn PROVE ConnInv(c)
  <2>1. /\ phase[c] = "new" /\ cursor[c] = 0 /\ accepted[c] = {} /\ outgoing[c] = Nothing
        /\ received[c] = << >> /\ submitted[c] = {} /\ Len(channel) = 0
    BY DEF Init
  <2>2. StatusIn(received[c]) = {}
    BY <2>1 DEF StatusIn
  <2> QED BY <2>1, <2>2 DEF ConnInv, KnowsItsJobs, SendsLastRead, IsAnswered,
             ReceivesWhatWasRead, OwnJobs, AnswerBefore, InOrder, Complete, Nothing
<1> QED BY <1>1, <1>2, <1>3 DEF IInv

\* What a message that is received adds to the status events received.
LEMMA AppendMessage ==
    ASSUME NEW s \in Seq(Message), NEW m \in Message
    PROVE  /\ Append(s, m) \in Seq(Message)
           /\ Len(s) \in Nat
           /\ DOMAIN s = 1..Len(s) /\ DOMAIN Append(s, m) = 1..(Len(s) + 1)
           /\ Append(s, m)[Len(s) + 1] = m
           /\ \A i \in 1..Len(s) : Append(s, m)[i] = s[i]
           /\ StatusIn(s) \subseteq 1..Len(s)
           /\ StatusIn(Append(s, m)) =
                 StatusIn(s) \cup (IF m.type = "job_status" THEN {Len(s) + 1} ELSE {})
<1> DEFINE t == Append(s, m)
           n == Len(s)
<1>1. /\ n \in Nat /\ DOMAIN s = 1..n
  BY LenProperties
<1>2. /\ t \in Seq(Message) /\ DOMAIN t = 1..(n + 1)
      /\ t[n + 1] = m /\ \A i \in 1..n : t[i] = s[i]
  BY <1>1, AppendProperties, LenProperties
<1> HIDE DEF t, n
<1>3. StatusIn(t) = StatusIn(s) \cup (IF m.type = "job_status" THEN {n + 1} ELSE {})
  <2>1. CASE m.type = "job_status"
    BY <1>1, <1>2, <2>1 DEF StatusIn
  <2>2. CASE m.type # "job_status"
    BY <1>1, <1>2, <2>2 DEF StatusIn
  <2> QED BY <2>1, <2>2
<1>4. StatusIn(s) \subseteq 1..n
  BY <1>1 DEF StatusIn
<1> QED BY <1>1, <1>2, <1>3, <1>4 DEF t, n

\* Status events that were received are messages, and numbered.
LEMMA StatusTyped ==
    ASSUME NEW s \in Seq(Message), NEW i \in StatusIn(s)
    PROVE  i \in 1..Len(s) /\ s[i] \in Message /\ s[i].event \in Nat
<1>1. i \in 1..Len(s)
  BY LenProperties DEF StatusIn
<1>2. s[i] \in Message
  BY <1>1, ElementOfSeq
<1> QED BY <1>1, <1>2 DEF Message

\* A request names jobs of clients.
LEMMA GroupsTyped ==
    ASSUME NEW group \in Groups
    PROVE  group \in Seq(Queue!Entry) /\ IdsOf(group) \subseteq JobId
<1>1. group \in Seq(Queue!Entry)
  <2>1. CASE \E j \in JobId : group = Single(j)
    BY <2>1 DEF Single, Queue!Entry
  <2>2. CASE \E j, k \in JobId, b \in BatchId : group = Pair(j, k, b)
    BY <2>2 DEF Pair, Queue!Entry
  <2> QED BY <2>1, <2>2 DEF Groups
<1>2. \A i \in DOMAIN group : group[i] \in Queue!Entry
  BY <1>1, ElementOfSeq, LenProperties
<1> QED BY <1>1, <1>2 DEF IdsOf, Queue!Entry

\* Admitting a group adds its jobs to those admitted.
LEMMA AdmitsAll ==
    ASSUME NEW a \in Seq(Queue!Entry), NEW b \in Seq(Queue!Entry)
    PROVE  a \o b \in Seq(Queue!Entry) /\ IdsOf(a \o b) = IdsOf(a) \cup IdsOf(b)
<1> DEFINE ab == a \o b
<1>1. /\ Len(a) \in Nat /\ Len(b) \in Nat /\ DOMAIN a = 1..Len(a) /\ DOMAIN b = 1..Len(b)
      /\ ab \in Seq(Queue!Entry) /\ DOMAIN ab = 1..(Len(a) + Len(b))
      /\ \A i \in 1..(Len(a) + Len(b)) :
            ab[i] = IF i <= Len(a) THEN a[i] ELSE b[i - Len(a)]
  BY ConcatProperties, LenProperties
<1> HIDE DEF ab
<1>2. IdsOf(ab) \subseteq IdsOf(a) \cup IdsOf(b)
  <2> SUFFICES ASSUME NEW i \in DOMAIN ab PROVE ab[i].job_id \in IdsOf(a) \cup IdsOf(b)
    BY DEF IdsOf
  <2>1. CASE i <= Len(a)
    BY <1>1, <2>1 DEF IdsOf
  <2>2. CASE ~(i <= Len(a))
    <3>1. i - Len(a) \in DOMAIN b /\ ab[i] = b[i - Len(a)]
      BY <1>1, <2>2
    <3> QED BY <3>1 DEF IdsOf
  <2> QED BY <2>1, <2>2
<1>3. IdsOf(a) \subseteq IdsOf(ab)
  BY <1>1 DEF IdsOf
<1>4. IdsOf(b) \subseteq IdsOf(ab)
  <2> SUFFICES ASSUME NEW i \in DOMAIN b PROVE b[i].job_id \in IdsOf(ab)
    BY DEF IdsOf
  <2>1. Len(a) + i \in DOMAIN ab /\ ~(Len(a) + i <= Len(a)) /\ (Len(a) + i) - Len(a) = i
    BY <1>1
  <2>2. ab[Len(a) + i] = b[i]
    BY <1>1, <2>1
  <2> QED BY <2>1, <2>2 DEF IdsOf
<1> QED BY <1>1, <1>2, <1>3, <1>4 DEF ab

\* What others do, reports included, disturbs no connection.
LEMMA OthersKeep ==
    ASSUME NEW c \in Conn, ConnInv(c),
           phase'[c] = phase[c], cursor'[c] = cursor[c], accepted'[c] = accepted[c],
           outgoing'[c] = outgoing[c], received'[c] = received[c],
           submitted'[c] = submitted[c], lagged'[c] = lagged[c],
           cursor[c] \in Nat, Len(channel) \in Nat, Len(channel') \in Nat,
           Len(channel) <= Len(channel'),
           \A n \in 1..Len(channel) : channel'[n] = channel[n]
    PROVE  ConnInv(c)'
<1>1. /\ KnowsItsJobs(c)' /\ SendsLastRead(c)' /\ OwnJobs(c)' /\ AnswerBefore(c)' /\ InOrder(c)'
  BY DEF ConnInv, KnowsItsJobs, SendsLastRead, OwnJobs, AnswerBefore, InOrder
<1>2. IsAnswered(c)'
  BY DEF ConnInv, IsAnswered, HasAnswer
<1>3. cursor[c] <= Len(channel) /\ ReceivesWhatWasRead(c)'
  BY DEF ConnInv, ReceivesWhatWasRead
<1>4. Complete(c)'
  <2>1. \A n \in 1..cursor[c] : channel'[n] = channel[n]
    BY <1>3
  <2>2. {n \in 1..cursor[c] : channel'[n].job \in submitted[c]}
           = {n \in 1..cursor[c] : channel[n].job \in submitted[c]}
    BY <2>1
  <2>3. Delivered(c)' = Delivered(c)
    BY DEF Delivered
  <2> QED BY <2>2, <2>3 DEF ConnInv, Complete
<1> QED BY <1>1, <1>2, <1>3, <1>4 DEF ConnInv

\* A new connection has submitted nothing and starts behind the last event.
LEMMA OpenKeeps ==
    ASSUME IInv, NEW c \in Conn, Open(c)
    PROVE  ConnInv(c)'
<1> USE DEF IInv, TypeOK
<1>1. /\ phase[c] = "new" /\ phase'[c] = "select" /\ cursor'[c] = Len(channel)
      /\ UNCHANGED <<channel, accepted, outgoing, received, submitted, lagged>>
  BY DEF Open, Goto, queueVars, workerVars
<1>2. /\ received[c] = << >> /\ submitted[c] = {} /\ outgoing[c] = Nothing /\ accepted[c] = {}
      /\ ConnInv(c)
  BY <1>1 DEF ConnInv, KnowsItsJobs
<1>3. StatusIn(received[c]) = {} /\ Len(channel) \in Nat
  BY <1>2, LenProperties DEF StatusIn
<1>4. Delivered(c)' = {}
  BY <1>1, <1>2, <1>3 DEF Delivered, Nothing
<1> QED BY <1>1, <1>2, <1>3, <1>4 DEF ConnInv, KnowsItsJobs, SendsLastRead, IsAnswered,
           ReceivesWhatWasRead, OwnJobs, AnswerBefore, InOrder, Complete, Nothing

\* The jobs of a request that the queue admits are new: no event so far is
\* about them.
LEMMA SubmitKeeps ==
    ASSUME IInv, NEW c \in Conn, NEW group \in Groups, Submit(c, group)
    PROVE  ConnInv(c)'
<1> USE DEF IInv
<1>1. /\ phase[c] = "select"
      /\ UNCHANGED <<channel, cursor, accepted, received, lagged>>
      /\ ConnInv(c)
      /\ phase \in [Conn -> {"new", "select", "admitted", "send", "closed"}]
      /\ outgoing \in [Conn -> Message] /\ submitted \in [Conn -> SUBSET JobId]
      /\ Len(channel) \in Nat /\ DOMAIN channel = 1..Len(channel) /\ cursor[c] \in Nat
  BY LenProperties DEF Submit, workerVars, TypeOK
<1>2. outgoing[c] = Nothing /\ accepted[c] = submitted[c]
  BY <1>1 DEF ConnInv, KnowsItsJobs
<1>3. outgoing[c].type = "none"
  BY <1>2 DEF Nothing
<1>4. ASSUME Queue!Admit(group),
             submitted' = [submitted EXCEPT ![c] = @ \cup IdsOf(group)],
             outgoing' = [outgoing EXCEPT ![c] = Answer(IdsOf(group))],
             Goto(c, "admitted")
      PROVE  ConnInv(c)'
  <2>1. /\ submitted'[c] = submitted[c] \cup IdsOf(group)
        /\ outgoing'[c] = Answer(IdsOf(group))
        /\ phase'[c] = "admitted"
    BY <1>1, <1>4 DEF Goto
  <2>2. outgoing'[c].type = "queued" /\ outgoing'[c].jobs = IdsOf(group)
    BY <2>1 DEF Answer
  <2>3. \A n \in DOMAIN channel : channel[n].job \notin IdsOf(group)
    <3>1. \A j \in IdsOf(group) : j \notin Admitted
      BY <1>4 DEF Queue!Admit, Queue!Fresh, Admitted, IdsOf
    <3> QED BY <3>1 DEF OnlyAdmitted
  <2>4. KnowsItsJobs(c)' /\ SendsLastRead(c)'
    BY <1>1, <1>2, <2>1, <2>2 DEF KnowsItsJobs, SendsLastRead
  <2>5. IsAnswered(c)'
    BY <1>1, <2>1, <2>2 DEF ConnInv, IsAnswered, HasAnswer
  <2>6. ReceivesWhatWasRead(c)' /\ cursor[c] <= Len(channel)
    BY <1>1, <2>2 DEF ConnInv, ReceivesWhatWasRead
  <2>7. OwnJobs(c)'
    BY <1>1, <2>1 DEF ConnInv, OwnJobs
  <2>8. AnswerBefore(c)' /\ InOrder(c)'
    BY <1>1 DEF ConnInv, AnswerBefore, InOrder
  <2>9. Complete(c)'
    <3>1. Delivered(c)' = Delivered(c)
      BY <1>1, <1>3, <2>2 DEF Delivered
    <3>2. {n \in 1..cursor[c] : channel[n].job \in submitted'[c]}
             = {n \in 1..cursor[c] : channel[n].job \in submitted[c]}
      <4>1. \A n \in 1..cursor[c] : channel[n].job \notin IdsOf(group)
        BY <1>1, <2>3, <2>6
      <4> QED BY <2>1, <4>1
    <3> QED BY <1>1, <2>1, <3>1, <3>2 DEF ConnInv, Complete
  <2> QED BY <2>4, <2>5, <2>6, <2>7, <2>8, <2>9 DEF ConnInv
<1>5. ASSUME outgoing' = [outgoing EXCEPT ![c] = Error], Goto(c, "send"),
             UNCHANGED submitted
      PROVE  ConnInv(c)'
  <2>1. outgoing'[c] = Error /\ phase'[c] = "send" /\ outgoing'[c].type = "error"
    BY <1>1, <1>5 DEF Goto, Error
  <2>2. KnowsItsJobs(c)' /\ SendsLastRead(c)' /\ OwnJobs(c)' /\ AnswerBefore(c)' /\ InOrder(c)'
    BY <1>1, <1>2, <1>5, <2>1 DEF ConnInv, KnowsItsJobs, SendsLastRead, OwnJobs, AnswerBefore,
       InOrder
  <2>3. IsAnswered(c)' /\ ReceivesWhatWasRead(c)'
    BY <1>1, <1>3, <2>1 DEF ConnInv, IsAnswered, HasAnswer, ReceivesWhatWasRead
  <2>4. Delivered(c)' = Delivered(c)
    BY <1>1, <1>3, <2>1 DEF Delivered
  <2>5. Complete(c)'
    BY <1>1, <1>5, <2>1, <2>4 DEF ConnInv, Complete
  <2> QED BY <2>2, <2>3, <2>5 DEF ConnInv
<1> QED BY <1>4, <1>5 DEF Submit

\* With accepted_job_ids.extend the connection knows what it has submitted.
LEMMA ExtendKeeps ==
    ASSUME IInv, NEW c \in Conn, Extend(c)
    PROVE  ConnInv(c)'
<1> USE DEF IInv
<1>1. /\ phase[c] = "admitted" /\ phase'[c] = "send"
      /\ accepted'[c] = accepted[c] \cup outgoing[c].jobs
      /\ UNCHANGED <<channel, cursor, outgoing, received, submitted, lagged>>
      /\ ConnInv(c)
  BY DEF Extend, Goto, workerVars, TypeOK
<1>2. outgoing[c].type = "queued" /\ submitted[c] = accepted[c] \cup outgoing[c].jobs
  BY <1>1 DEF ConnInv, KnowsItsJobs
<1>3. KnowsItsJobs(c)' /\ SendsLastRead(c)'
  BY <1>1, <1>2 DEF KnowsItsJobs, SendsLastRead
<1>4. IsAnswered(c)'
  BY <1>1, <1>2 DEF ConnInv, IsAnswered, HasAnswer
<1>5. ReceivesWhatWasRead(c)' /\ OwnJobs(c)' /\ AnswerBefore(c)' /\ InOrder(c)'
  BY <1>1 DEF ConnInv, ReceivesWhatWasRead, OwnJobs, AnswerBefore, InOrder
<1>6. Complete(c)'
  BY <1>1 DEF ConnInv, Complete, Delivered
<1> QED BY <1>3, <1>4, <1>5, <1>6 DEF ConnInv

\* An event that is read is skipped if it is about another's job, and is the
\* next to be sent if it is the connection's own.
LEMMA RecvKeeps ==
    ASSUME IInv, NEW c \in Conn, Recv(c)
    PROVE  ConnInv(c)'
<1> USE DEF IInv
<1> DEFINE n == cursor[c] + 1
<1>1. /\ phase[c] = "select" /\ cursor'[c] = n
      /\ UNCHANGED <<channel, accepted, received, submitted, lagged>>
      /\ ConnInv(c)
      /\ cursor[c] \in Nat /\ Len(channel) \in Nat
      /\ Behind(c) \in 1..Capacity
  BY LenProperties DEF Recv, workerVars, TypeOK
<1>2. n \in 1..Len(channel) /\ n \in Nat
  BY <1>1, DeliveryAssumption DEF Behind
<1>3. outgoing[c] = Nothing /\ accepted[c] = submitted[c] /\ outgoing[c].type = "none"
  BY <1>1 DEF ConnInv, KnowsItsJobs, Nothing
<1>4. CASE channel[n].job \in accepted[c]
  <2>1. outgoing'[c] = Status(n) /\ phase'[c] = "send"
    BY <1>4 DEF Recv, Goto, TypeOK
  <2>2. /\ outgoing'[c].type = "job_status" /\ outgoing'[c].event = n
        /\ outgoing'[c].jobs = {channel[n].job}
    BY <2>1 DEF Status
  <2>3. KnowsItsJobs(c)' /\ SendsLastRead(c)'
    BY <1>1, <1>3, <1>4, <2>1, <2>2 DEF KnowsItsJobs, SendsLastRead
  <2>4. IsAnswered(c)'
    BY <1>1, <1>3, <2>1, <2>2 DEF ConnInv, IsAnswered, HasAnswer
  <2>5. ReceivesWhatWasRead(c)'
    <3>1. \A i \in StatusIn(received[c]) : received[c][i].event <= cursor[c]
      BY <1>1 DEF ConnInv, ReceivesWhatWasRead
    <3>2. \A i \in StatusIn(received[c]) : received[c][i].event \in Nat
      BY StatusTyped DEF TypeOK
    <3>3. \A i \in StatusIn(received[c]) : received[c][i].event < n
      BY <1>1, <3>1, <3>2
    <3> QED BY <1>1, <1>2, <3>3, <3>2 DEF ReceivesWhatWasRead
  <2>6. OwnJobs(c)' /\ AnswerBefore(c)' /\ InOrder(c)'
    BY <1>1 DEF ConnInv, OwnJobs, AnswerBefore, InOrder
  <2>7. Complete(c)'
    <3>1. Delivered(c)' = Delivered(c) \cup {n}
      BY <1>1, <1>3, <2>2 DEF Delivered
    <3>2. {k \in 1..n : channel[k].job \in submitted[c]}
             = {k \in 1..cursor[c] : channel[k].job \in submitted[c]} \cup {n}
      BY <1>1, <1>2, <1>3, <1>4
    <3> QED BY <1>1, <3>1, <3>2 DEF ConnInv, Complete
  <2> QED BY <2>3, <2>4, <2>5, <2>6, <2>7 DEF ConnInv
<1>5. CASE channel[n].job \notin accepted[c]
  <2>1. outgoing' = outgoing /\ phase' = phase
    BY <1>5 DEF Recv
  <2>2. KnowsItsJobs(c)' /\ SendsLastRead(c)' /\ OwnJobs(c)' /\ AnswerBefore(c)' /\ InOrder(c)'
    BY <1>1, <1>3, <2>1 DEF ConnInv, KnowsItsJobs, SendsLastRead, OwnJobs, AnswerBefore, InOrder
  <2>3. IsAnswered(c)'
    BY <1>1, <2>1 DEF ConnInv, IsAnswered, HasAnswer
  <2>4. ReceivesWhatWasRead(c)'
    <3>1. \A i \in StatusIn(received[c]) : received[c][i].event <= cursor[c]
      BY <1>1 DEF ConnInv, ReceivesWhatWasRead
    <3>2. \A i \in StatusIn(received[c]) : received[c][i].event \in Nat
      BY StatusTyped DEF TypeOK
    <3> QED BY <1>1, <1>2, <1>3, <2>1, <3>1, <3>2 DEF ReceivesWhatWasRead
  <2>5. Complete(c)'
    <3>1. Delivered(c)' = Delivered(c)
      BY <1>1, <2>1 DEF Delivered
    <3>2. {k \in 1..n : channel[k].job \in submitted[c]}
             = {k \in 1..cursor[c] : channel[k].job \in submitted[c]}
      BY <1>1, <1>2, <1>3, <1>5
    <3> QED BY <1>1, <2>1, <3>1, <3>2 DEF ConnInv, Complete
  <2> QED BY <2>2, <2>3, <2>4, <2>5 DEF ConnInv
<1> QED BY <1>4, <1>5

\* A receiver that lags skips to the oldest event the channel keeps.
LEMMA LagKeeps ==
    ASSUME IInv, NEW c \in Conn, Lag(c)
    PROVE  ConnInv(c)'
<1> USE DEF IInv
<1>1. /\ phase[c] = "select" /\ cursor'[c] = Len(channel) - Capacity /\ lagged'[c] = TRUE
      /\ UNCHANGED <<channel, phase, accepted, outgoing, received, submitted>>
      /\ ConnInv(c)
      /\ cursor[c] \in Nat /\ Len(channel) \in Nat /\ Behind(c) > Capacity
  BY LenProperties DEF Lag, workerVars, TypeOK
<1>2. cursor[c] < cursor'[c] /\ cursor'[c] <= Len(channel) /\ cursor'[c] \in Nat
  BY <1>1, DeliveryAssumption DEF Behind
<1>3. outgoing[c].type = "none"
  BY <1>1 DEF ConnInv, KnowsItsJobs, Nothing
<1>4. KnowsItsJobs(c)' /\ SendsLastRead(c)' /\ OwnJobs(c)' /\ AnswerBefore(c)' /\ InOrder(c)'
  BY <1>1, <1>3 DEF ConnInv, KnowsItsJobs, SendsLastRead, OwnJobs, AnswerBefore, InOrder
<1>5. IsAnswered(c)'
  BY <1>1 DEF ConnInv, IsAnswered, HasAnswer
<1>6. ReceivesWhatWasRead(c)'
  <2>1. \A i \in StatusIn(received[c]) : received[c][i].event <= cursor[c]
    BY <1>1 DEF ConnInv, ReceivesWhatWasRead
  <2>2. \A i \in StatusIn(received[c]) : received[c][i].event \in Nat
    BY StatusTyped DEF TypeOK
  <2> QED BY <1>1, <1>2, <1>3, <2>1, <2>2 DEF ReceivesWhatWasRead
<1>7. Complete(c)'
  BY <1>1 DEF Complete
<1> QED BY <1>4, <1>5, <1>6, <1>7 DEF ConnInv

\* A status event that is sent is younger than those before it, about a job of
\* the connection, and its answer has been sent before.
LEMMA SendKeeps ==
    ASSUME IInv, NEW c \in Conn, Send(c)
    PROVE  ConnInv(c)'
<1> USE DEF IInv
<1> DEFINE m == outgoing[c]
           s == received[c]
           n == Len(received[c]) + 1
<1>1. /\ phase[c] = "send" /\ phase'[c] = "select"
      /\ received'[c] = Append(s, m) /\ outgoing'[c] = Nothing
      /\ UNCHANGED <<channel, cursor, accepted, submitted, lagged>>
      /\ ConnInv(c)
      /\ s \in Seq(Message) /\ m \in Message /\ cursor[c] \in Nat
  BY DEF Send, Goto, workerVars, TypeOK
<1>2. /\ n \in Nat /\ n > 0
      /\ DOMAIN s = 1..(n - 1) /\ DOMAIN received'[c] = 1..n
      /\ received'[c][n] = m
      /\ \A i \in 1..(n - 1) : received'[c][i] = s[i]
      /\ StatusIn(s) \subseteq 1..(n - 1)
      /\ StatusIn(received'[c])
            = StatusIn(s) \cup (IF m.type = "job_status" THEN {n} ELSE {})
  BY <1>1, AppendMessage
<1>3. /\ outgoing'[c].type = "none"
      /\ accepted[c] = submitted[c]
  BY <1>1 DEF ConnInv, KnowsItsJobs, Nothing
<1>4. \A i \in StatusIn(s) : s[i].event \in Nat /\ s[i].event <= cursor[c]
  BY <1>1, StatusTyped DEF ConnInv, ReceivesWhatWasRead
<1>5. m.type = "job_status" => /\ m.event = cursor[c]
                               /\ \E j \in accepted[c] : m.jobs = {j}
                               /\ \A i \in StatusIn(s) : s[i].event < m.event
  BY <1>1 DEF ConnInv, SendsLastRead, ReceivesWhatWasRead
<1>6. \A j \in accepted[c] : HasAnswer(c, j) \/ (m.type = "queued" /\ j \in m.jobs)
  BY <1>1 DEF ConnInv, IsAnswered
<1> HIDE DEF m, s, n
<1>7. KnowsItsJobs(c)' /\ SendsLastRead(c)'
  BY <1>1, <1>3 DEF KnowsItsJobs, SendsLastRead, Nothing
<1>8. \A j \in accepted[c] : HasAnswer(c, j)'
  <2> SUFFICES ASSUME NEW j \in accepted[c] PROVE HasAnswer(c, j)'
    OBVIOUS
  <2>1. CASE HasAnswer(c, j)
    BY <1>2, <2>1 DEF HasAnswer, s
  <2>2. CASE m.type = "queued" /\ j \in m.jobs
    <3>1. n \in DOMAIN received'[c] /\ received'[c][n].type = "queued"
          /\ j \in received'[c][n].jobs
      BY <1>2, <2>2
    <3> QED BY <3>1 DEF HasAnswer
  <2> QED BY <1>6, <2>1, <2>2
<1>9. IsAnswered(c)'
  BY <1>1, <1>8 DEF IsAnswered
<1>10. ReceivesWhatWasRead(c)'
  BY <1>1, <1>2, <1>3, <1>4, <1>5 DEF ConnInv, ReceivesWhatWasRead
<1>11. OwnJobs(c)'
  <2>1. \A i \in StatusIn(s) : s[i].jobs \subseteq submitted[c]
    BY <1>1 DEF ConnInv, OwnJobs, s
  <2> QED BY <1>1, <1>2, <1>3, <1>5, <2>1 DEF OwnJobs
<1>12. AnswerBefore(c)'
  <2> SUFFICES ASSUME NEW i \in StatusIn(received'[c])
      PROVE \E k \in 1..i - 1 : /\ received'[c][k].type = "queued"
                                /\ received'[c][i].jobs \subseteq received'[c][k].jobs
    BY DEF AnswerBefore
  <2>1. CASE i \in StatusIn(s)
    <3>1. PICK k \in 1..i - 1 : s[k].type = "queued" /\ s[i].jobs \subseteq s[k].jobs
      BY <1>1, <2>1 DEF ConnInv, AnswerBefore, s
    <3>2. i \in 1..(n - 1) /\ k \in 1..(n - 1)
      BY <1>2, <2>1, <3>1
    <3> QED BY <1>2, <3>1, <3>2
  <2>2. CASE i \notin StatusIn(s)
    <3>1. m.type = "job_status" /\ i = n
      BY <1>2, <2>2
    <3>2. PICK j \in accepted[c] : m.jobs = {j}
      BY <1>5, <3>1
    <3>3. HasAnswer(c, j)
      BY <1>6, <3>1
    <3>4. PICK k \in 1..(n - 1) : s[k].type = "queued" /\ j \in s[k].jobs
      BY <1>2, <3>3 DEF HasAnswer, s
    <3> QED BY <1>2, <3>1, <3>2, <3>4
  <2> QED BY <2>1, <2>2
<1>13. InOrder(c)'
  <2> SUFFICES ASSUME NEW i \in StatusIn(received'[c]), NEW k \in StatusIn(received'[c]), i < k
      PROVE  received'[c][i].event < received'[c][k].event
    BY DEF InOrder
  <2>1. i \in StatusIn(s) /\ received'[c][i] = s[i]
    BY <1>2
  <2>2. CASE k \in StatusIn(s)
    BY <1>1, <1>2, <2>1, <2>2 DEF ConnInv, InOrder, s
  <2>3. CASE k \notin StatusIn(s)
    BY <1>2, <1>5, <2>1, <2>3
  <2> QED BY <2>2, <2>3
<1>14. Complete(c)'
  <2>1. Delivered(c)' = Delivered(c)
    <3>1. CASE m.type = "job_status"
      <4>1. {received'[c][i].event : i \in StatusIn(received'[c])}
               = {s[i].event : i \in StatusIn(s)} \cup {m.event}
        BY <1>2, <3>1
      <4> QED BY <1>3, <3>1, <4>1 DEF Delivered, s, m
    <3>2. CASE m.type # "job_status"
      <4>1. {received'[c][i].event : i \in StatusIn(received'[c])}
               = {s[i].event : i \in StatusIn(s)}
        BY <1>2, <3>2
      <4> QED BY <1>3, <3>2, <4>1 DEF Delivered, s, m
    <3> QED BY <3>1, <3>2
  <2> QED BY <1>1, <2>1 DEF ConnInv, Complete
<1> QED BY <1>7, <1>9, <1>10, <1>11, <1>12, <1>13, <1>14 DEF ConnInv

\* A connection that ends receives nothing any more.
LEMMA CloseKeeps ==
    ASSUME IInv, NEW c \in Conn, Close(c)
    PROVE  ConnInv(c)'
<1> USE DEF IInv
<1>1. /\ phase[c] \in {"select", "send"} /\ phase'[c] = "closed"
      /\ outgoing'[c] = Nothing
      /\ UNCHANGED <<channel, cursor, accepted, received, submitted, lagged>>
      /\ ConnInv(c)
  BY DEF Close, Goto, workerVars, TypeOK
<1>2. outgoing'[c].type = "none"
  BY <1>1 DEF Nothing
<1>3. accepted[c] = submitted[c]
  BY <1>1 DEF ConnInv, KnowsItsJobs
<1>4. KnowsItsJobs(c)' /\ SendsLastRead(c)' /\ IsAnswered(c)' /\ Complete(c)'
  BY <1>1, <1>2, <1>3 DEF KnowsItsJobs, SendsLastRead, IsAnswered, Complete
<1>5. ReceivesWhatWasRead(c)' /\ OwnJobs(c)' /\ AnswerBefore(c)' /\ InOrder(c)'
  BY <1>1, <1>2 DEF ConnInv, ReceivesWhatWasRead, OwnJobs, AnswerBefore, InOrder
<1> QED BY <1>4, <1>5 DEF ConnInv

\* The types of the queue's and the worker's variables.
QueueTyped ==
    /\ status \in [JobId -> JobStatus \cup {"none"}]
    /\ active \in JobId \cup {NoJob}
    /\ ledger \in Seq(Queue!Entry)
    /\ started \in Nat
    /\ running \in BOOLEAN
    /\ channel \in Seq([job : JobId, status : JobStatus])

\* The types of the connections' variables.
SocketTyped ==
    /\ phase \in [Conn -> {"new", "select", "admitted", "send", "closed"}]
    /\ cursor \in [Conn -> Nat]
    /\ accepted \in [Conn -> SUBSET JobId]
    /\ outgoing \in [Conn -> Message]
    /\ received \in [Conn -> Seq(Message)]
    /\ submitted \in [Conn -> SUBSET JobId]
    /\ lagged \in [Conn -> BOOLEAN]

\* A broadcast adds one event, about a job that was admitted, behind the others.
LEMMA BroadcastExtends ==
    ASSUME IInv, NEW j \in JobId, NEW s \in JobStatus, broadcast_status(j, s),
           j \in Admitted, UNCHANGED <<ledger, socketVars>>, active' = j
    PROVE  /\ channel' \in Seq([job : JobId, status : JobStatus])
           /\ OnlyAdmitted'
           /\ \A c \in Conn : ConnInv(c)'
<1> USE DEF IInv
<1> DEFINE event == [job |-> j, status |-> s]
<1>1. /\ channel \in Seq([job : JobId, status : JobStatus])
      /\ channel' = Append(channel, event)
      /\ event \in [job : JobId, status : JobStatus] /\ event.job = j
  BY DEF TypeOK, broadcast_status
<1> HIDE DEF event
<1>2. /\ channel' \in Seq([job : JobId, status : JobStatus])
      /\ Len(channel) \in Nat /\ Len(channel') = Len(channel) + 1
      /\ DOMAIN channel = 1..Len(channel) /\ DOMAIN channel' = 1..(Len(channel) + 1)
      /\ channel'[Len(channel) + 1] = event
      /\ \A n \in 1..Len(channel) : channel'[n] = channel[n]
  BY <1>1, AppendProperties, LenProperties
<1>3. UNCHANGED <<phase, cursor, accepted, outgoing, received, submitted, lagged>>
  BY DEF socketVars
<1>4. Admitted' = Admitted
  BY DEF Admitted, IdsOf
<1>5. OnlyAdmitted'
  BY <1>1, <1>2, <1>3, <1>4 DEF OnlyAdmitted
<1>6. \A c \in Conn : cursor[c] \in Nat
  BY DEF TypeOK
<1>7. ASSUME NEW c \in Conn PROVE ConnInv(c)'
  BY <1>2, <1>3, <1>6, OthersKeep
<1> QED BY <1>2, <1>5, <1>7

\* Every step of the worker preserves the invariant.
LEMMA WorkerHolds ==
    ASSUME IInv, WorkerStep
    PROVE  IInv'
<1> USE DEF IInv
<1>0. ASSUME QueueTyped', UNCHANGED socketVars PROVE TypeOK'
  BY <1>0 DEF QueueTyped, socketVars, TypeOK
<1>1. CASE WorkerStart
  <2> DEFINE j == ledger[started + 1].job_id
  <2>1. /\ started < Len(ledger) /\ started' = started + 1 /\ running' = TRUE
        /\ UNCHANGED <<ledger, socketVars>>
        /\ active' = j /\ status' = [status EXCEPT ![j] = "queued"]
        /\ broadcast_status(j, "queued")
    BY <1>1 DEF WorkerStart, Queue!Start, Start
  <2>2. /\ started \in Nat /\ ledger \in Seq(Queue!Entry) /\ Len(ledger) \in Nat
        /\ started + 1 \in 1..Len(ledger) /\ DOMAIN ledger = 1..Len(ledger)
    BY <2>1, LenProperties DEF TypeOK
  <2>3. ledger[started + 1] \in Queue!Entry
    BY <2>2, ElementOfSeq
  <2>4. j \in JobId /\ j \in Admitted /\ "queued" \in JobStatus
    BY <2>2, <2>3 DEF Queue!Entry, Admitted, IdsOf, JobStatus
  <2> HIDE DEF j
  <2>5. /\ channel' \in Seq([job : JobId, status : JobStatus])
        /\ OnlyAdmitted' /\ \A c \in Conn : ConnInv(c)'
    BY <2>1, <2>4, BroadcastExtends
  <2>6. QueueTyped'
    BY <2>1, <2>2, <2>4, <2>5 DEF QueueTyped, TypeOK
  <2> QED BY <1>0, <2>1, <2>5, <2>6
<1>2. CASE WorkerReport
  <2>1. PICK s \in JobStatus : Advance(s) /\ broadcast_status(active, s)
    BY <1>2 DEF WorkerReport
  <2>2. /\ active \in JobId /\ active \in Admitted /\ active' = active
        /\ status' = [status EXCEPT ![active] = s]
        /\ UNCHANGED <<ledger, started, running, socketVars>>
    BY <1>2, <2>1 DEF WorkerReport, Advance, TypeOK, OnlyAdmitted, queueVars
  <2>3. /\ channel' \in Seq([job : JobId, status : JobStatus])
        /\ OnlyAdmitted' /\ \A c \in Conn : ConnInv(c)'
    BY <2>1, <2>2, BroadcastExtends
  <2>4. QueueTyped'
    BY <2>2, <2>3 DEF QueueTyped, TypeOK
  <2> QED BY <1>0, <2>2, <2>3, <2>4
<1>3. CASE WorkerFinish
  <2>1. /\ running' = FALSE
        /\ UNCHANGED <<ledger, started, status, active, channel, phase, cursor, accepted,
                       outgoing, received, submitted, lagged>>
    BY <1>3 DEF WorkerFinish, Queue!Finish, workerVars, socketVars
  <2>2. TypeOK' /\ OnlyAdmitted'
    BY <2>1 DEF TypeOK, OnlyAdmitted, Admitted, IdsOf
  <2>3. /\ Len(channel) \in Nat /\ \A c \in Conn : cursor[c] \in Nat
    BY LenProperties DEF TypeOK
  <2>4. ASSUME NEW c \in Conn PROVE ConnInv(c)'
    BY <2>1, <2>3, OthersKeep
  <2> QED BY <2>2, <2>4
<1> QED BY <1>1, <1>2, <1>3 DEF WorkerStep

\* What a step of a connection leaves alone.
OnlyChanges(c) ==
    \A d \in Conn \ {c} :
        /\ phase'[d] = phase[d] /\ cursor'[d] = cursor[d] /\ accepted'[d] = accepted[d]
        /\ outgoing'[d] = outgoing[d] /\ received'[d] = received[d]
        /\ submitted'[d] = submitted[d] /\ lagged'[d] = lagged[d]

\* A step of a connection disturbs no other connection.
LEMMA OneConnection ==
    ASSUME IInv, NEW c \in Conn, ConnInv(c)', UNCHANGED channel, OnlyChanges(c)
    PROVE  \A d \in Conn : ConnInv(d)'
<1>1. /\ Len(channel) \in Nat /\ \A d \in Conn : cursor[d] \in Nat /\ ConnInv(d)
  BY LenProperties DEF IInv, TypeOK
<1>2. ASSUME NEW d \in Conn, d # c PROVE ConnInv(d)'
  BY <1>1, <1>2, OthersKeep DEF OnlyChanges
<1> QED BY <1>2

\* Every step of a connection preserves the invariant.
LEMMA SocketHolds ==
    ASSUME IInv, NEW c \in Conn, Open(c) \/ SocketStep(c) \/ Close(c)
    PROVE  IInv'
<1> USE DEF IInv
<1>1. UNCHANGED <<ledger, started, running, status, active, channel, submitted>>
  BY DEF Open, SocketStep, Extend, Recv, Lag, Send, Close, queueVars, workerVars
<1>2. OnlyAdmitted'
  BY <1>1 DEF OnlyAdmitted, Admitted, IdsOf
<1>3. ASSUME SocketTyped' PROVE TypeOK'
  BY <1>1, <1>3 DEF SocketTyped, TypeOK
<1>4. SocketTyped
  BY DEF SocketTyped, TypeOK
<1>5. Len(channel) \in Nat /\ Nothing \in Message
  BY LenProperties DEF TypeOK, Nothing, Message
<1>6. ConnInv(c)'
  BY OpenKeeps, ExtendKeeps, RecvKeeps, LagKeeps, SendKeeps, CloseKeeps DEF SocketStep
<1> HIDE DEF Nothing
<1>7. CASE Open(c)
  <2>1. SocketTyped' /\ OnlyChanges(c)
    BY <1>4, <1>5, <1>7 DEF Open, Goto, SocketTyped, OnlyChanges
  <2> QED BY <1>1, <1>2, <1>3, <1>6, <2>1, OneConnection
<1>8. CASE Extend(c)
  <2>1. accepted[c] \cup outgoing[c].jobs \in SUBSET JobId
    BY <1>4 DEF SocketTyped, Message
  <2>2. SocketTyped' /\ OnlyChanges(c)
    BY <1>4, <1>8, <2>1 DEF Extend, Goto, SocketTyped, OnlyChanges
  <2> QED BY <1>1, <1>2, <1>3, <1>6, <2>2, OneConnection
<1>9. CASE Recv(c)
  <2>1. cursor[c] + 1 \in 1..Len(channel)
    BY <1>4, <1>5, <1>9, DeliveryAssumption DEF Recv, Behind, SocketTyped
  <2>2. channel[cursor[c] + 1].job \in JobId
    <3>1. channel[cursor[c] + 1] \in [job : JobId, status : JobStatus]
      BY <2>1, ElementOfSeq DEF TypeOK
    <3> QED BY <3>1
  <2>3. Status(cursor[c] + 1) \in Message
    BY <1>4, <2>2 DEF Status, Message, SocketTyped
  <2>4. /\ \/ outgoing' = outgoing /\ phase' = phase
           \/ /\ outgoing' = [outgoing EXCEPT ![c] = Status(cursor[c] + 1)]
              /\ phase' = [phase EXCEPT ![c] = "send"]
        /\ cursor' = [cursor EXCEPT ![c] = cursor[c] + 1]
        /\ UNCHANGED <<accepted, received, submitted, lagged>>
    BY <1>9 DEF Recv, Goto
  <2> HIDE DEF Status
  <2>5. SocketTyped' /\ OnlyChanges(c)
    <3>1. outgoing' \in [Conn -> Message] /\ \A d \in Conn \ {c} : outgoing'[d] = outgoing[d]
      BY <1>4, <2>3, <2>4 DEF SocketTyped
    <3>2. /\ phase' \in [Conn -> {"new", "select", "admitted", "send", "closed"}]
          /\ \A d \in Conn \ {c} : phase'[d] = phase[d]
      BY <1>4, <2>4 DEF SocketTyped
    <3>3. cursor' \in [Conn -> Nat] /\ \A d \in Conn \ {c} : cursor'[d] = cursor[d]
      BY <1>4, <2>4 DEF SocketTyped
    <3> QED BY <1>4, <2>4, <3>1, <3>2, <3>3 DEF SocketTyped, OnlyChanges
  <2> QED BY <1>1, <1>2, <1>3, <1>6, <2>5, OneConnection
<1>10. CASE Lag(c)
  <2>1. Len(channel) - Capacity \in Nat
    BY <1>4, <1>5, <1>10, DeliveryAssumption DEF Lag, Behind, SocketTyped
  <2>2. SocketTyped' /\ OnlyChanges(c)
    <3>1. /\ cursor' = [cursor EXCEPT ![c] = Len(channel) - Capacity]
          /\ lagged' = [lagged EXCEPT ![c] = TRUE]
          /\ UNCHANGED <<phase, accepted, outgoing, received, submitted>>
      BY <1>10 DEF Lag
    <3>2. lagged' \in [Conn -> BOOLEAN] /\ \A d \in Conn \ {c} : lagged'[d] = lagged[d]
      BY <1>4, <3>1 DEF SocketTyped
    <3>3. cursor' \in [Conn -> Nat] /\ \A d \in Conn \ {c} : cursor'[d] = cursor[d]
      BY <1>4, <2>1, <3>1 DEF SocketTyped
    <3> QED BY <1>4, <3>1, <3>2, <3>3 DEF SocketTyped, OnlyChanges
  <2> QED BY <1>1, <1>2, <1>3, <1>6, <2>2, OneConnection
<1>11. CASE Send(c)
  <2>1. Append(received[c], outgoing[c]) \in Seq(Message)
    BY <1>4, AppendMessage DEF SocketTyped
  <2>2. SocketTyped' /\ OnlyChanges(c)
    BY <1>4, <1>5, <1>11, <2>1 DEF Send, Goto, SocketTyped, OnlyChanges
  <2> QED BY <1>1, <1>2, <1>3, <1>6, <2>2, OneConnection
<1>12. CASE Close(c)
  <2>1. SocketTyped' /\ OnlyChanges(c)
    BY <1>4, <1>5, <1>12 DEF Close, Goto, SocketTyped, OnlyChanges
  <2> QED BY <1>1, <1>2, <1>3, <1>6, <2>1, OneConnection
<1> QED BY <1>7, <1>8, <1>9, <1>10, <1>11, <1>12 DEF SocketStep

\* A request, admitted or refused, preserves the invariant.
LEMMA SubmitHolds ==
    ASSUME IInv, NEW c \in Conn, NEW group \in Groups, Submit(c, group)
    PROVE  IInv'
<1> USE DEF IInv
<1>1. group \in Seq(Queue!Entry) /\ IdsOf(group) \subseteq JobId
  BY GroupsTyped
<1>2. SocketTyped /\ ledger \in Seq(Queue!Entry)
  BY DEF SocketTyped, TypeOK
<1>3. /\ UNCHANGED <<status, active, channel, started, running, cursor, accepted, received,
                     lagged>>
      /\ \/ /\ ledger' = ledger \o group
            /\ submitted' = [submitted EXCEPT ![c] = @ \cup IdsOf(group)]
            /\ outgoing' = [outgoing EXCEPT ![c] = Answer(IdsOf(group))]
            /\ phase' = [phase EXCEPT ![c] = "admitted"]
         \/ /\ ledger' = ledger /\ submitted' = submitted
            /\ outgoing' = [outgoing EXCEPT ![c] = Error]
            /\ phase' = [phase EXCEPT ![c] = "send"]
  BY DEF Submit, Queue!Admit, Goto, queueVars, workerVars
<1>4. Answer(IdsOf(group)) \in Message /\ Error \in Message
  BY <1>1 DEF Answer, Error, Message
<1>5. ledger' \in Seq(Queue!Entry) /\ Admitted \subseteq Admitted'
      /\ (ledger' = ledger \o group => Admitted' = Admitted \cup IdsOf(group))
  BY <1>1, <1>2, <1>3, AdmitsAll DEF Admitted
<1> HIDE DEF Answer, Error
<1>6. SocketTyped' /\ OnlyChanges(c)
  BY <1>1, <1>2, <1>3, <1>4 DEF SocketTyped, OnlyChanges
<1>7. TypeOK'
  BY <1>3, <1>5, <1>6 DEF TypeOK, SocketTyped
<1>8. OnlyAdmitted'
  <2>1. \A d \in Conn : submitted'[d] \subseteq Admitted'
    <3>1. CASE submitted' = submitted
      BY <1>5, <3>1 DEF OnlyAdmitted
    <3>2. CASE /\ ledger' = ledger \o group
               /\ submitted' = [submitted EXCEPT ![c] = @ \cup IdsOf(group)]
      BY <1>2, <1>5, <3>2 DEF OnlyAdmitted, SocketTyped
    <3> QED BY <1>3, <3>1, <3>2
  <2> QED BY <1>3, <1>5, <2>1 DEF OnlyAdmitted
<1>9. \A d \in Conn : ConnInv(d)'
  BY <1>3, <1>6, SubmitKeeps, OneConnection
<1> QED BY <1>7, <1>8, <1>9

\* Every step preserves the invariant.
LEMMA StepHolds == IInv /\ [Next]_vars => IInv'
<1> SUFFICES ASSUME IInv, [Next]_vars PROVE IInv'
  OBVIOUS
<1>1. CASE UNCHANGED vars
  <2>1. UNCHANGED <<ledger, started, running, status, active, channel, phase, cursor, accepted,
                    outgoing, received, submitted, lagged>>
    BY <1>1 DEF vars, queueVars, workerVars, socketVars
  <2>2. TypeOK' /\ OnlyAdmitted'
    BY <2>1 DEF IInv, TypeOK, OnlyAdmitted, Admitted, IdsOf
  <2>3. /\ Len(channel) \in Nat /\ \A c \in Conn : cursor[c] \in Nat /\ ConnInv(c)
    BY LenProperties DEF IInv, TypeOK
  <2>4. ASSUME NEW c \in Conn PROVE ConnInv(c)'
    BY <2>1, <2>3, OthersKeep
  <2> QED BY <2>2, <2>4 DEF IInv
<1>2. CASE Next
  BY <1>2, WorkerHolds, SocketHolds, SubmitHolds DEF Next
<1> QED BY <1>1, <1>2

\* The inductive invariant holds in every state.
THEOREM Invariance == Spec => []IInv
BY InitHolds, StepHolds, PTL DEF Spec

\* Queue, channel and connections keep their types (server.rs, state.rs).
THEOREM TypeCorrect == Spec => []TypeOK
<1>1. IInv => TypeOK
  BY DEF IInv
<1> QED BY <1>1, Invariance, PTL

\* A client receives status events of its own jobs only (accepted_job_ids).
THEOREM ReceivesOwnJobs == Spec => []OwnJobsOnly
<1>1. IInv => OwnJobsOnly
  BY DEF IInv, ConnInv, OwnJobs, OwnJobsOnly
<1> QED BY <1>1, Invariance, PTL

\* The answer to a request comes before the events of its jobs, although they
\* may be broadcast earlier (handle_socket).
THEOREM AnswerComesFirst == Spec => []AnswerFirst
<1>1. IInv => AnswerFirst
  BY DEF IInv, ConnInv, AnswerBefore, AnswerFirst
<1> QED BY <1>1, Invariance, PTL

\* Events arrive in their order, once, and completely up to where the receiver
\* has read, unless it lagged (status_events.recv).
THEOREM DeliversInOrder == Spec => []DeliveredInOrder
<1>1. IInv => DeliveredInOrder
  BY DEF IInv, ConnInv, InOrder, Complete, DeliveredInOrder
<1> QED BY <1>1, Invariance, PTL
-----------------------------------------------------------------------------
(* The history.                                                            *)

\* A job that has events has a row.
RowsExist == \A o \in Owner : events[o] # << >> => rows[o] \in Row

\* The entry that is not recorded yet is the last one reported, and younger
\* than every event of its job.
UnrecordedIsLast ==
    unrecorded # NothingToRecord =>
        /\ unrecorded.at = Len(reports)
        /\ reports[unrecorded.at] = [job |-> unrecorded.job, status |-> unrecorded.status]
        /\ \A i \in DOMAIN events[unrecorded.job] :
              events[unrecorded.job][i].occurred_at < unrecorded.at

HistoryInv ==
    /\ HistoryTypeOK
    /\ RowsExist
    /\ RowSummarisesEvents
    /\ UnrecordedIsLast
    /\ HistoryFollowsReports

\* The invariant holds over an empty database.
LEMMA HistoryInitHolds == HistoryInit => HistoryInv
<1> SUFFICES ASSUME HistoryInit PROVE HistoryInv
  OBVIOUS
<1>1. HistoryTypeOK
  BY DEF HistoryInit, LifecycleInit, HistoryTypeOK
<1>2. RowsExist /\ RowSummarisesEvents
  BY DEF HistoryInit, RowsExist, RowSummarisesEvents
<1>3. UnrecordedIsLast
  BY DEF HistoryInit, UnrecordedIsLast
<1>4. HistoryFollowsReports
  BY DEF HistoryInit, HistoryFollowsReports, Owner
<1> QED BY <1>1, <1>2, <1>3, <1>4 DEF HistoryInv

\* The upsert of task_history_jobs keeps a row the summary of its job's events
\* when an event is added, terminal or not, the first or a later one.
LEMMA UpsertSummarises ==
    ASSUME NEW e \in Seq(Event), NEW row \in Row \cup {NoRow},
           e = << >> => row = NoRow,
           e # << >> => row \in Row /\ Summarises(row, e),
           NEW s \in JobStatus, NEW at \in Nat \ {0}
    PROVE  /\ upsert(row, s, at) \in Row
           /\ Append(e, [status |-> s, occurred_at |-> at]) \in Seq(Event)
           /\ Append(e, [status |-> s, occurred_at |-> at]) # << >>
           /\ Summarises(upsert(row, s, at), Append(e, [status |-> s, occurred_at |-> at]))
<1> DEFINE event == [status |-> s, occurred_at |-> at]
           e2 == Append(e, event)
           new == upsert(row, s, at)
           n == Len(e)
           Terminal(q) == {i \in DOMAIN q : is_terminal(q[i].status)}
<1> SUFFICES new \in Row /\ e2 \in Seq(Event) /\ e2 # << >> /\ Summarises(new, e2)
  OBVIOUS
<1>1. event \in Event /\ event.status = s /\ event.occurred_at = at
  BY DEF Event
<1> HIDE DEF event
<1>2. /\ n \in Nat /\ DOMAIN e = 1..n /\ (e = << >> <=> n = 0)
  BY LenProperties, EmptySeq
<1>3. /\ e2 \in Seq(Event) /\ Len(e2) = n + 1 /\ DOMAIN e2 = 1..(n + 1)
      /\ e2[n + 1] = event /\ \A i \in 1..n : e2[i] = e[i]
  BY <1>1, <1>2, AppendProperties, LenProperties
<1> HIDE DEF e2, n
<1>4. e2 # << >>
  BY <1>2, <1>3, EmptySeq
<1>5. /\ new \in Row
      /\ new.current_status = s /\ new.updated_at = at
      /\ row = NoRow => new.created_at = at
      /\ row = NoRow => new.finished_at = IF is_terminal(s) THEN at ELSE NeverFinished
      /\ row # NoRow => new.created_at = row.created_at
      /\ row # NoRow => new.finished_at = IF is_terminal(s) THEN at ELSE row.finished_at
  <2>1. CASE row = NoRow
    BY <2>1, NoRowAssumption DEF upsert, Row, NeverFinished
  <2>2. CASE row # NoRow
    <3>1. row \in Row
      BY <2>2
    <3> QED BY <2>2, <3>1, NoRowAssumption DEF upsert, Row, NeverFinished
  <2> QED BY <2>1, <2>2
<1> HIDE DEF new
<1>6. new.created_at = e2[1].occurred_at
  <2>1. CASE e = << >>
    BY <2>1, <1>1, <1>2, <1>3, <1>5
  <2>2. CASE e # << >>
    BY <2>2, <1>2, <1>3, <1>5, NoRowAssumption DEF Summarises
  <2> QED BY <2>1, <2>2
<1>7. CASE is_terminal(s)
  <2>1. /\ n + 1 \in Terminal(e2)
        /\ \A i \in Terminal(e2) : i <= n + 1 /\ i \in Nat
    BY <1>1, <1>2, <1>3, <1>7
  <2>2. \A i \in Terminal(e2) : (\A k \in Terminal(e2) : k <= i)
                                    => new.finished_at = e2[i].occurred_at
    <3> SUFFICES ASSUME NEW i \in Terminal(e2), \A k \in Terminal(e2) : k <= i
                 PROVE  new.finished_at = e2[i].occurred_at
      OBVIOUS
    <3>1. i = n + 1
      <4> HIDE DEF Terminal
      <4> QED BY <2>1, <1>2
    <3> QED BY <3>1, <1>1, <1>3, <1>5, <1>7
  <2>3. Terminal(e2) # {}
    BY <2>1
  <2> QED BY <2>2, <2>3, <1>1, <1>3, <1>4, <1>5, <1>6 DEF Summarises
<1>8. CASE ~is_terminal(s)
  <2>1. Terminal(e2) = Terminal(e)
    BY <1>1, <1>2, <1>3, <1>8
  <2>2. CASE e = << >>
    <3>1. Terminal(e2) = {}
      BY <2>1, <2>2, <1>2
    <3> QED BY <2>2, <3>1, <1>1, <1>3, <1>4, <1>5, <1>6, <1>8 DEF Summarises
  <2>3. CASE e # << >>
    <3>1. /\ Terminal(e) = {} => row.finished_at = NeverFinished
          /\ \A i \in Terminal(e) : (\A k \in Terminal(e) : k <= i)
                                        => row.finished_at = e[i].occurred_at
      BY <2>3 DEF Summarises
    <3>2. new.finished_at = row.finished_at
      BY <2>3, <1>5, <1>8, NoRowAssumption
    <3>3. \A i \in Terminal(e) : e2[i] = e[i]
      BY <1>2, <1>3
    <3>4. /\ Terminal(e2) = {} => new.finished_at = NeverFinished
          /\ \A i \in Terminal(e2) : (\A k \in Terminal(e2) : k <= i)
                                        => new.finished_at = e2[i].occurred_at
      <4> HIDE DEF Terminal
      <4> QED BY <2>1, <3>1, <3>2, <3>3
    <3> QED BY <3>4, <1>1, <1>3, <1>4, <1>5, <1>6 DEF Summarises
  <2> QED BY <2>2, <2>3
<1> QED BY <1>3, <1>4, <1>5, <1>7, <1>8

\* A transaction keeps the rows in agreement with the events.
LEMMA RecordEventHolds ==
    ASSUME HistoryTypeOK, RowsExist, RowSummarisesEvents,
           NEW o \in Owner, NEW s \in JobStatus, NEW at \in Nat \ {0}, record_event(o, s, at)
    PROVE  /\ events' \in [Owner -> Seq(Event)]
           /\ rows' \in [Owner -> Row \cup {NoRow}]
           /\ RowsExist' /\ RowSummarisesEvents'
           /\ events'[o] = Append(events[o], [status |-> s, occurred_at |-> at])
           /\ \A p \in Owner \ {o} : events'[p] = events[p]
<1> DEFINE e2 == Append(events[o], [status |-> s, occurred_at |-> at])
           new == upsert(rows[o], s, at)
<1>1. /\ events[o] \in Seq(Event)
      /\ rows[o] \in Row \cup {NoRow}
      /\ events[o] = << >> => rows[o] = NoRow
      /\ events[o] # << >> => rows[o] \in Row /\ Summarises(rows[o], events[o])
  BY DEF HistoryTypeOK, RowsExist, RowSummarisesEvents
<1>2. new \in Row /\ e2 \in Seq(Event) /\ e2 # << >> /\ Summarises(new, e2)
  BY <1>1, UpsertSummarises
<1>3. /\ events' = [events EXCEPT ![o] = e2]
      /\ rows' = [rows EXCEPT ![o] = new]
  BY DEF record_event
<1> HIDE DEF e2, new
<1>4. /\ events' \in [Owner -> Seq(Event)] /\ rows' \in [Owner -> Row \cup {NoRow}]
      /\ events'[o] = e2 /\ rows'[o] = new
      /\ \A p \in Owner \ {o} : events'[p] = events[p] /\ rows'[p] = rows[p]
  BY <1>2, <1>3 DEF HistoryTypeOK
<1>5. RowsExist'
  BY <1>2, <1>4 DEF RowsExist
<1>6. RowSummarisesEvents'
  BY <1>2, <1>4 DEF RowSummarisesEvents
<1> QED BY <1>4, <1>5, <1>6 DEF e2

\* The log keeps entries only.
LEMMA PushTyped ==
    ASSUME NEW entries \in Seq(Entry), NEW entry \in Entry
    PROVE  push(entries, entry) \in Seq(Entry)
<1> DEFINE longer == Append(entries, entry)
           excess == Len(longer) - LogCapacity
<1>1. longer \in Seq(Entry) /\ Len(longer) \in Nat
  BY AppendProperties, LenProperties
<1>2. CASE excess > 0
  <2>1. excess + 1 \in 1..(Len(longer) + 1)
    BY <1>1, <1>2, HistoryAssumption
  <2>2. SubSeq(longer, excess + 1, Len(longer)) \in Seq(Entry)
    BY <1>1, <2>1, SubSeqProperties
  <2> QED BY <1>2, <2>2 DEF push
<1>3. CASE ~(excess > 0)
  BY <1>1, <1>3 DEF push
<1> QED BY <1>2, <1>3

\* Every step of the worker, a test print, the clear command and a crash
\* preserves the invariant.
LEMMA HistoryStepHolds == HistoryInv /\ [HistoryNext]_historyVars => HistoryInv'
<1> SUFFICES ASSUME HistoryInv, [HistoryNext]_historyVars PROVE HistoryInv'
  OBVIOUS
<1> USE DEF HistoryInv
<1>a. /\ JobId \subseteq Owner /\ Tester \subseteq Owner
      /\ \A t \in Tester : t \notin JobId
  BY HistoryAssumption DEF Owner
<1>1. ASSUME Report PROVE HistoryInv'
  <2> DEFINE entry == [job |-> active', status |-> status'[active']]
  <2>1. /\ status' \in [JobId -> JobStatus \cup {"none"}]
        /\ active' \in JobId
        /\ status'[active'] \in JobStatus
    <3>1. (\E j \in JobId : Start(j)) \/ (\E s \in JobStatus : Advance(s))
      BY <1>1 DEF Report
    <3>2. CASE \E j \in JobId : Start(j)
      BY <3>2 DEF Start, HistoryTypeOK, JobStatus
    <3>3. CASE \E s \in JobStatus : Advance(s)
      <4>1. PICK s \in JobStatus : Advance(s)
        BY <3>3
      <4> QED BY <4>1 DEF Advance, HistoryTypeOK
    <3> QED BY <3>1, <3>2, <3>3
  <2>2. /\ unrecorded = NothingToRecord
        /\ reports' = Append(reports, entry)
        /\ logs' = push(logs, entry)
        /\ unrecorded' = [job |-> entry.job, status |-> entry.status, at |-> Len(reports) + 1]
        /\ UNCHANGED <<events, rows, test, clearing, clears, life>>
    BY <1>1 DEF Report, history
  <2>3. entry \in Entry /\ entry.job \in JobId /\ entry.status \in JobStatus
        /\ entry = [job |-> entry.job, status |-> entry.status]
    BY <2>1 DEF Entry
  <2> HIDE DEF entry
  <2>4. /\ reports \in Seq(Entry) /\ Len(reports) \in Nat /\ DOMAIN reports = 1..Len(reports)
    BY LenProperties DEF HistoryTypeOK
  <2>5. /\ reports' \in Seq(Entry) /\ Len(reports') = Len(reports) + 1
        /\ reports'[Len(reports) + 1] = entry
        /\ \A i \in 1..Len(reports) : reports'[i] = reports[i]
    BY <2>2, <2>3, <2>4, AppendProperties
  <2>6. logs' \in Seq(Entry)
    BY <2>2, <2>3, PushTyped DEF HistoryTypeOK
  <2>7. unrecorded' \in [job : JobId, status : JobStatus, at : Nat \ {0}]
    BY <2>2, <2>3, <2>4
  <2>8. HistoryTypeOK'
    BY <2>1, <2>2, <2>5, <2>6, <2>7 DEF HistoryTypeOK
  <2>9. RowsExist' /\ RowSummarisesEvents'
    BY <2>2 DEF RowsExist, RowSummarisesEvents
  <2>10. ASSUME NEW j \in JobId, NEW i \in DOMAIN events[j]
         PROVE  /\ events[j][i].occurred_at \in 1..Len(reports)
                /\ reports[events[j][i].occurred_at]
                      = [job |-> j, status |-> events[j][i].status]
    <3>1. events[j][i] \in Event
      BY <1>a, ElementOfSeq, LenProperties DEF HistoryTypeOK
    <3>2. events[j][i].occurred_at \in Nat \ {0}
      BY <3>1 DEF Event
    <3>3. /\ events[j][i].occurred_at <= Len(reports)
          /\ reports[events[j][i].occurred_at] = [job |-> j, status |-> events[j][i].status]
      BY DEF HistoryFollowsReports
    <3> QED BY <2>4, <3>2, <3>3
  <2>11. UnrecordedIsLast'
    <3>1. \A i \in DOMAIN events[entry.job] : events[entry.job][i].occurred_at < Len(reports) + 1
      <4>1. \A i \in DOMAIN events[entry.job] :
                events[entry.job][i].occurred_at \in 1..Len(reports)
        BY <2>3, <2>10
      <4>2. \A n \in 1..Len(reports) : n < Len(reports) + 1
        BY <2>4
      <4> QED BY <4>1, <4>2
    <3>2. unrecorded'.job = entry.job
      BY <2>2
    <3> QED BY <3>1, <3>2, <2>2, <2>3, <2>5 DEF UnrecordedIsLast
  <2>12. HistoryFollowsReports'
    <3>1. ASSUME NEW j \in JobId, NEW i \in DOMAIN events'[j]
          PROVE  /\ events'[j][i].occurred_at <= Len(reports')
                 /\ reports'[events'[j][i].occurred_at]
                       = [job |-> j, status |-> events'[j][i].status]
      BY <2>2, <2>4, <2>5, <2>10
    <3> QED BY <2>2, <3>1 DEF HistoryFollowsReports
  <2> QED BY <2>8, <2>9, <2>11, <2>12
<1>2. ASSUME Record PROVE HistoryInv'
  <2>1. /\ unrecorded # NothingToRecord
        /\ unrecorded' = NothingToRecord
        /\ UNCHANGED <<status, active, reports, logs, test, clearing, clears, life>>
    BY <1>2 DEF Record
  <2> DEFINE j == unrecorded.job
             s == unrecorded.status
             at == unrecorded.at
  <2>2. j \in JobId /\ j \in Owner /\ s \in JobStatus /\ at \in Nat \ {0}
    BY <1>a, <2>1 DEF HistoryTypeOK
  <2>3. UnrecordedIsLast'
    BY <2>1 DEF UnrecordedIsLast
  <2>4. CASE record_event(j, s, at)
    <3> DEFINE event == [status |-> s, occurred_at |-> at]
    <3>1. /\ events' \in [Owner -> Seq(Event)]
          /\ rows' \in [Owner -> Row \cup {NoRow}]
          /\ RowsExist' /\ RowSummarisesEvents'
          /\ events'[j] = Append(events[j], event)
          /\ \A p \in Owner \ {j} : events'[p] = events[p]
      BY <2>2, <2>4, RecordEventHolds
    <3>2. HistoryTypeOK'
      BY <2>1, <3>1 DEF HistoryTypeOK
    <3>3. /\ at = Len(reports) /\ reports[at] = [job |-> j, status |-> s]
          /\ \A i \in DOMAIN events[j] : events[j][i].occurred_at < at
      BY <2>1 DEF UnrecordedIsLast
    <3>4. events[j] \in Seq(Event) /\ event \in Event
          /\ event.status = s /\ event.occurred_at = at
      BY <2>2 DEF HistoryTypeOK, Event
    <3> HIDE DEF event, j, s, at
    <3>5. /\ Len(events[j]) \in Nat
          /\ DOMAIN events[j] = 1..Len(events[j])
          /\ DOMAIN events'[j] = 1..(Len(events[j]) + 1)
          /\ events'[j][Len(events[j]) + 1] = event
          /\ \A i \in 1..Len(events[j]) : events'[j][i] = events[j][i]
      BY <3>1, <3>4, AppendProperties, LenProperties
    <3>6. HistoryFollowsReports'
      <4> SUFFICES ASSUME NEW k \in JobId
          PROVE
            /\ \A i \in DOMAIN events'[k] :
                  /\ events'[k][i].occurred_at <= Len(reports)
                  /\ reports[events'[k][i].occurred_at]
                        = [job |-> k, status |-> events'[k][i].status]
            /\ \A i, m \in DOMAIN events'[k] :
                  i < m => events'[k][i].occurred_at < events'[k][m].occurred_at
        BY <2>1 DEF HistoryFollowsReports
      <4>1. CASE k # j
        <5>1. events'[k] = events[k]
          BY <3>1, <4>1, <1>a
        <5> QED BY <5>1 DEF HistoryFollowsReports
      <4>2. CASE k = j
        <5>1. \A i \in DOMAIN events'[k] :
                  /\ events'[k][i].occurred_at <= Len(reports)
                  /\ reports[events'[k][i].occurred_at]
                        = [job |-> k, status |-> events'[k][i].status]
          <6> SUFFICES ASSUME NEW i \in DOMAIN events'[j]
              PROVE  /\ events'[j][i].occurred_at <= Len(reports)
                     /\ reports[events'[j][i].occurred_at]
                           = [job |-> j, status |-> events'[j][i].status]
            BY <4>2
          <6>1. CASE i = Len(events[j]) + 1
            BY <6>1, <2>2, <3>3, <3>4, <3>5
          <6>2. CASE i # Len(events[j]) + 1
            <7>1. i \in DOMAIN events[j] /\ events'[j][i] = events[j][i]
              BY <3>5, <6>2
            <7> QED BY <7>1, <2>2 DEF HistoryFollowsReports
          <6> QED BY <6>1, <6>2
        <5>2. \A i, m \in DOMAIN events'[k] :
                  i < m => events'[k][i].occurred_at < events'[k][m].occurred_at
          <6> SUFFICES ASSUME NEW i \in DOMAIN events'[j], NEW m \in DOMAIN events'[j], i < m
              PROVE  events'[j][i].occurred_at < events'[j][m].occurred_at
            BY <4>2
          <6>1. i \in DOMAIN events[j] /\ events'[j][i] = events[j][i]
            BY <3>5
          <6>2. CASE m = Len(events[j]) + 1
            BY <6>1, <6>2, <3>3, <3>4, <3>5
          <6>3. CASE m # Len(events[j]) + 1
            <7>1. m \in DOMAIN events[j] /\ events'[j][m] = events[j][m]
              BY <3>5, <6>3
            <7> QED BY <6>1, <7>1, <2>2 DEF HistoryFollowsReports
          <6> QED BY <6>2, <6>3
        <5> QED BY <5>1, <5>2
      <4> QED BY <4>1, <4>2
    <3> QED BY <2>3, <3>1, <3>2, <3>6
  <2>5. CASE UNCHANGED history
    BY <2>1, <2>3, <2>5 DEF history, HistoryTypeOK, RowsExist, RowSummarisesEvents,
       HistoryFollowsReports
  <2> QED BY <1>2, <2>4, <2>5 DEF Record
<1>3. ASSUME NEW t \in Tester, TestEnds(t) PROVE HistoryInv'
  <2>1. /\ test' = [test EXCEPT ![t] = "done"]
        /\ UNCHANGED <<status, active, reports, logs, unrecorded, clearing, clears, life>>
    BY <1>3 DEF TestEnds
  <2>2. test' \in [Tester -> {"idle", "done"}]
    BY <2>1 DEF HistoryTypeOK
  <2>3. ASSUME NEW s \in {"submitted", "failed"}, record_event(t, s, Len(reports) + 1)
        PROVE  HistoryInv'
    <3>1. s \in JobStatus /\ Len(reports) + 1 \in Nat \ {0} /\ t \in Owner
      BY <1>a, LenProperties DEF JobStatus, HistoryTypeOK
    <3>2. /\ events' \in [Owner -> Seq(Event)]
          /\ rows' \in [Owner -> Row \cup {NoRow}]
          /\ RowsExist' /\ RowSummarisesEvents'
          /\ \A p \in Owner \ {t} : events'[p] = events[p]
      BY <2>3, <3>1, RecordEventHolds
    <3>3. HistoryTypeOK'
      BY <2>1, <2>2, <3>2 DEF HistoryTypeOK
    <3>4. \A j \in JobId : events'[j] = events[j]
      BY <1>a, <3>2
    <3>5. UnrecordedIsLast'
      <4>1. unrecorded # NothingToRecord => unrecorded.job \in JobId
        BY DEF HistoryTypeOK
      <4> QED BY <2>1, <3>4, <4>1 DEF UnrecordedIsLast
    <3>6. HistoryFollowsReports'
      BY <2>1, <3>4 DEF HistoryFollowsReports
    <3> QED BY <3>2, <3>3, <3>5, <3>6
  <2>4. CASE UNCHANGED history
    BY <2>1, <2>2, <2>4 DEF history, HistoryTypeOK, RowsExist, RowSummarisesEvents,
       UnrecordedIsLast, HistoryFollowsReports
  <2> QED BY <1>3, <2>3, <2>4 DEF TestEnds
<1>4. ASSUME ClearLogs PROVE HistoryInv'
  <2>1. HistoryTypeOK'
    BY <1>4 DEF ClearLogs, HistoryTypeOK, history
  <2> QED BY <1>4, <2>1 DEF ClearLogs, history, RowsExist, RowSummarisesEvents,
             UnrecordedIsLast, HistoryFollowsReports
<1>5. ASSUME ClearStore PROVE HistoryInv'
  <2>1. /\ clearing' = "idle"
        /\ UNCHANGED <<status, active, reports, logs, unrecorded, test, clears, life>>
    BY <1>5 DEF ClearStore
  <2>2. CASE /\ events' = [o \in Owner |-> << >>]
             /\ rows' = [o \in Owner |-> NoRow]
    <3>1. HistoryTypeOK' /\ RowsExist' /\ RowSummarisesEvents'
      BY <2>1, <2>2 DEF HistoryTypeOK, RowsExist, RowSummarisesEvents
    <3>2. \A j \in JobId : DOMAIN events'[j] = {}
      BY <1>a, <2>2
    <3>3. UnrecordedIsLast'
      <4>1. unrecorded # NothingToRecord => unrecorded.job \in JobId
        BY DEF HistoryTypeOK
      <4> QED BY <2>1, <3>2, <4>1 DEF UnrecordedIsLast
    <3>4. HistoryFollowsReports'
      BY <3>2 DEF HistoryFollowsReports
    <3> QED BY <3>1, <3>3, <3>4
  <2>3. CASE UNCHANGED history
    BY <2>1, <2>3 DEF history, HistoryTypeOK, RowsExist, RowSummarisesEvents,
       UnrecordedIsLast, HistoryFollowsReports
  <2> QED BY <1>5, <2>2, <2>3 DEF ClearStore
<1>6. ASSUME Crash PROVE HistoryInv'
  <2>1. HistoryTypeOK'
    BY <1>6 DEF Crash, Restart, HistoryTypeOK, history
  <2> QED BY <1>6, <2>1 DEF Crash, history, RowsExist, RowSummarisesEvents,
             UnrecordedIsLast, HistoryFollowsReports
<1>7. ASSUME UNCHANGED historyVars PROVE HistoryInv'
  BY <1>7 DEF historyVars, HistoryTypeOK, RowsExist, RowSummarisesEvents, UnrecordedIsLast,
     HistoryFollowsReports
<1> QED BY <1>1, <1>2, <1>3, <1>4, <1>5, <1>6, <1>7 DEF HistoryNext

\* The inductive invariant holds in every state.
THEOREM HistoryInvariance == HistorySpec => []HistoryInv
BY HistoryInitHolds, HistoryStepHolds, PTL DEF HistorySpec

\* Log, events, rows and the pending entry keep their types (logs.rs,
\* task_history.rs).
THEOREM HistoryTypes == HistorySpec => []HistoryTypeOK
<1>1. HistoryInv => HistoryTypeOK
  BY DEF HistoryInv
<1> QED BY <1>1, HistoryInvariance, PTL

\* After any interleaving of reports, test prints, clears, failed transactions
\* and crashes a row is the summary of its job's events (record_event).
THEOREM RowsSummarise == HistorySpec => []RowSummarisesEvents
<1>1. HistoryInv => RowSummarisesEvents
  BY DEF HistoryInv
<1> QED BY <1>1, HistoryInvariance, PTL

\* The history holds only what was reported before, in the order of the
\* reports (push_log), also for a job id that is used again after a restart.
THEOREM HistoryFollows == HistorySpec => []HistoryFollowsReports
<1>1. HistoryInv => HistoryFollowsReports
  BY DEF HistoryInv
<1> QED BY <1>1, HistoryInvariance, PTL
=============================================================================
