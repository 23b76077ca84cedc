-------------------------- MODULE PrintQueue_proofs --------------------------
(***************************************************************************)
(* Proofs that the print queue's invariants hold for every set of          *)
(* connections, job ids and batch ids and every limit, and that the queue  *)
(* implements JobLedger. The argument follows the job sequence Admitted:   *)
(* every step either extends it by one fresh group or leaves it alone.     *)
(***************************************************************************)
EXTENDS PrintQueue, SequenceTheorems, TLAPS

-----------------------------------------------------------------------------
(* Sequence facts.                                                         *)

\* Moving the head of the second sequence to the end of the first does not
\* change their concatenation (pop_next moves a job from pending to taken).
LEMMA MoveHead ==
    ASSUME NEW S, NEW s \in Seq(S), NEW t \in Seq(S), t # << >>
    PROVE  Append(s, Head(t)) \o Tail(t) = s \o t
<1>1. Head(t) \in S /\ Tail(t) \in Seq(S) /\ Len(Tail(t)) = Len(t) - 1
      /\ (\A i \in 1 .. Len(Tail(t)) : Tail(t)[i] = t[i + 1])
  BY HeadTailProperties
<1>2. Append(s, Head(t)) \in Seq(S) /\ Len(Append(s, Head(t))) = Len(s) + 1
      /\ (\A i \in 1 .. Len(s) : Append(s, Head(t))[i] = s[i])
      /\ Append(s, Head(t))[Len(s) + 1] = Head(t)
  BY <1>1, AppendProperties
<1>3. Head(t) = t[1]
  OBVIOUS
<1> DEFINE a == Append(s, Head(t))
           u == Tail(t)
<1>4. a \o u \in Seq(S) /\ Len(a \o u) = Len(a) + Len(u)
      /\ (\A i \in 1 .. Len(a) + Len(u) :
             (a \o u)[i] = IF i <= Len(a) THEN a[i] ELSE u[i - Len(a)])
  BY <1>1, <1>2, ConcatProperties
<1>5. s \o t \in Seq(S) /\ Len(s \o t) = Len(s) + Len(t)
      /\ (\A i \in 1 .. Len(s) + Len(t) :
             (s \o t)[i] = IF i <= Len(s) THEN s[i] ELSE t[i - Len(s)])
  BY ConcatProperties
<1>6. Len(s) \in Nat /\ Len(t) \in Nat
  BY LenProperties
<1> HIDE DEF a, u
<1>7. Len(a) = Len(s) + 1 /\ Len(u) = Len(t) - 1
  BY <1>1, <1>2 DEF a, u
<1>8. Len(a \o u) = Len(s \o t)
  BY <1>4, <1>5, <1>6, <1>7
<1>9. \A i \in 1 .. Len(a) : a[i] = IF i <= Len(s) THEN s[i] ELSE t[1]
  BY <1>2, <1>3, <1>6, <1>7 DEF a
<1>10. \A i \in 1 .. Len(u) : u[i] = t[i + 1]
  BY <1>1 DEF u
<1>11. ASSUME NEW i \in 1 .. Len(s \o t)
       PROVE  (a \o u)[i] = (s \o t)[i]
  <2>4. i \in Nat /\ i <= Len(s) + Len(t)
    BY <1>5, <1>6
  <2>1. CASE i <= Len(s)
    BY <2>1, <1>4, <1>5, <1>6, <1>7, <1>9
  <2>2. CASE i = Len(s) + 1
    BY <2>2, <1>4, <1>5, <1>6, <1>7, <1>9
  <2>3. CASE i > Len(s) + 1
    <3>1. i - (Len(s) + 1) \in 1 .. Len(u)
      BY <2>3, <1>5, <1>6, <1>7
    <3>2. u[i - (Len(s) + 1)] = t[i - (Len(s) + 1) + 1]
      BY <3>1, <1>10
    <3>3. i - (Len(s) + 1) + 1 = i - Len(s)
      BY <1>6
    <3>4. (a \o u)[i] = u[i - (Len(s) + 1)]
      BY <2>3, <1>4, <1>5, <1>6, <1>7
    <3>5. (s \o t)[i] = t[i - Len(s)]
      BY <2>3, <1>5, <1>6
    <3> QED BY <3>2, <3>3, <3>4, <3>5
  <2>5. i <= Len(s) \/ i = Len(s) + 1 \/ i > Len(s) + 1
    BY <2>4, <1>6
  <2> QED BY <2>1, <2>2, <2>3, <2>5
<1>12. a \o u = s \o t
  BY <1>4, <1>5, <1>8, <1>11, SeqEqual
<1> QED BY <1>12 DEF a, u

\* A group appended to a sequence is the part of the result after the old end.
LEMMA AppendedSuffix ==
    ASSUME NEW S, NEW s \in Seq(S), NEW g \in Seq(S)
    PROVE  SubSeq(s \o g, Len(s) + 1, Len(s \o g)) = g
<1>1. s \o g \in Seq(S) /\ Len(s \o g) = Len(s) + Len(g)
      /\ (\A i \in 1 .. Len(s) + Len(g) :
             (s \o g)[i] = IF i <= Len(s) THEN s[i] ELSE g[i - Len(s)])
  BY ConcatProperties
<1>2. Len(s) \in Nat /\ Len(g) \in Nat
  BY LenProperties
<1>3. \A i \in Len(s) + 1 .. Len(s \o g) : (s \o g)[i] \in S
  BY <1>1, <1>2, ElementOfSeq
<1> DEFINE w == SubSeq(s \o g, Len(s) + 1, Len(s \o g))
<1>4. /\ w \in Seq(S)
      /\ Len(w) = IF Len(s) + 1 <= Len(s \o g) THEN Len(s \o g) - (Len(s) + 1) + 1 ELSE 0
      /\ \A i \in 1 .. Len(s \o g) - (Len(s) + 1) + 1 : w[i] = (s \o g)[Len(s) + 1 + i - 1]
  <2>1. Len(s) + 1 \in Int /\ Len(s \o g) \in Int
    BY <1>1, <1>2
  <2> QED BY <1>3, <2>1, SubSeqProperties
<1> HIDE DEF w
<1>5. Len(w) = Len(g)
  BY <1>1, <1>2, <1>4
<1>6. ASSUME NEW i \in 1 .. Len(g) PROVE w[i] = g[i]
  <2>1. w[i] = (s \o g)[Len(s) + 1 + i - 1]
    BY <1>1, <1>2, <1>4
  <2>2. Len(s) + 1 + i - 1 = Len(s) + i /\ Len(s) + i - Len(s) = i
    BY <1>2
  <2>3. (s \o g)[Len(s) + i] = g[i]
    BY <1>1, <1>2, <2>2
  <2> QED BY <2>1, <2>2, <2>3
<1>7. w = g
  BY <1>4, <1>5, <1>6, SeqEqual
<1> QED BY <1>7 DEF w

\* Appending a group of new, distinct ids keeps ids distinct.
LEMMA DistinctGrowth ==
    ASSUME NEW l \in Seq(QueuedJob), NEW g \in Seq(QueuedJob),
           DistinctIds(l), DistinctIds(g), IdsOf(l) \cap IdsOf(g) = {}
    PROVE  DistinctIds(l \o g) /\ IdsOf(l \o g) = IdsOf(l) \cup IdsOf(g)
<1>1. l \o g \in Seq(QueuedJob) /\ Len(l \o g) = Len(l) + Len(g)
      /\ (\A i \in 1 .. Len(l) + Len(g) :
             (l \o g)[i] = IF i <= Len(l) THEN l[i] ELSE g[i - Len(l)])
  BY ConcatProperties
<1>2. /\ Len(l) \in Nat /\ DOMAIN l = 1 .. Len(l)
      /\ Len(g) \in Nat /\ DOMAIN g = 1 .. Len(g)
      /\ DOMAIN (l \o g) = 1 .. Len(l) + Len(g)
  BY <1>1, LenProperties
<1>3. \A i \in DOMAIN (l \o g) :
          \/ i \in DOMAIN l /\ (l \o g)[i] = l[i]
          \/ i - Len(l) \in DOMAIN g /\ i > Len(l) /\ (l \o g)[i] = g[i - Len(l)]
  BY <1>1, <1>2
<1>4. \A i \in DOMAIN l, k \in DOMAIN g : l[i].job_id # g[k].job_id
  BY DEF IdsOf
<1>5. DistinctIds(l \o g)
  <2> SUFFICES ASSUME NEW i \in DOMAIN (l \o g), NEW k \in DOMAIN (l \o g),
                      (l \o g)[i].job_id = (l \o g)[k].job_id
               PROVE  i = k
    BY DEF DistinctIds
  <2>1. CASE i \in DOMAIN l /\ (l \o g)[i] = l[i]
    <3>1. k \in DOMAIN l /\ (l \o g)[k] = l[k]
      BY <2>1, <1>3, <1>4
    <3> QED BY <2>1, <3>1 DEF DistinctIds
  <2>2. CASE i - Len(l) \in DOMAIN g /\ i > Len(l) /\ (l \o g)[i] = g[i - Len(l)]
    <3>1. k - Len(l) \in DOMAIN g /\ (l \o g)[k] = g[k - Len(l)]
      BY <2>2, <1>3, <1>4
    <3>2. i - Len(l) = k - Len(l)
      BY <2>2, <3>1 DEF DistinctIds
    <3> QED BY <3>2, <1>2
  <2> QED BY <2>1, <2>2, <1>3
<1>6. IdsOf(l \o g) \subseteq IdsOf(l) \cup IdsOf(g)
  BY <1>3 DEF IdsOf
<1>7. IdsOf(l) \subseteq IdsOf(l \o g)
  BY <1>1, <1>2 DEF IdsOf
<1>8. IdsOf(g) \subseteq IdsOf(l \o g)
  <2> SUFFICES ASSUME NEW i \in DOMAIN g PROVE g[i].job_id \in IdsOf(l \o g)
    BY DEF IdsOf
  <2>1. Len(l) + i \in DOMAIN (l \o g) /\ Len(l) + i > Len(l) /\ Len(l) + i - Len(l) = i
    BY <1>2
  <2>2. (l \o g)[Len(l) + i] = g[i]
    BY <1>1, <1>2, <2>1
  <2> QED BY <2>1, <2>2 DEF IdsOf
<1> QED BY <1>5, <1>6, <1>7, <1>8

\* Appending a single unbatched job, or the jobs of a batch that has none yet,
\* keeps batches contiguous.
LEMMA ContiguousGrowth ==
    ASSUME NEW l \in Seq(QueuedJob), NEW g \in Seq(QueuedJob),
           Contiguous(l),
           \/ \A i \in DOMAIN g : g[i].batch_id = NoBatch
           \/ \E b \in BatchId :
                 /\ \A i \in DOMAIN g : g[i].batch_id = b
                 /\ \A i \in DOMAIN l : l[i].batch_id # b
    PROVE  Contiguous(l \o g)
<1>1. l \o g \in Seq(QueuedJob) /\ Len(l \o g) = Len(l) + Len(g)
      /\ (\A i \in 1 .. Len(l) + Len(g) :
             (l \o g)[i] = IF i <= Len(l) THEN l[i] ELSE g[i - Len(l)])
  BY ConcatProperties
<1>2. /\ Len(l) \in Nat /\ DOMAIN l = 1 .. Len(l)
      /\ Len(g) \in Nat /\ DOMAIN g = 1 .. Len(g)
      /\ DOMAIN (l \o g) = 1 .. Len(l) + Len(g)
  BY <1>1, LenProperties
<1>3. \A i \in DOMAIN (l \o g) :
          /\ i <= Len(l) => i \in DOMAIN l /\ (l \o g)[i] = l[i]
          /\ i > Len(l) => i - Len(l) \in DOMAIN g /\ (l \o g)[i] = g[i - Len(l)]
  BY <1>1, <1>2
<1> SUFFICES ASSUME NEW i \in DOMAIN (l \o g), NEW k \in DOMAIN (l \o g),
                    i < k, (l \o g)[i].batch_id # NoBatch,
                    (l \o g)[i].batch_id = (l \o g)[k].batch_id,
                    NEW m \in i .. k
             PROVE  (l \o g)[m].batch_id = (l \o g)[i].batch_id
  BY DEF Contiguous
<1>4. m \in DOMAIN (l \o g) /\ i \in Nat /\ k \in Nat /\ m \in Nat
  BY <1>2
<1>5. CASE k <= Len(l)
  <2>1. i <= Len(l) /\ m <= Len(l)
    BY <1>5, <1>4, <1>2
  <2>2. i \in DOMAIN l /\ k \in DOMAIN l /\ m \in DOMAIN l
        /\ (l \o g)[i] = l[i] /\ (l \o g)[k] = l[k] /\ (l \o g)[m] = l[m]
    BY <2>1, <1>3, <1>4, <1>5
  <2> QED BY <2>2 DEF Contiguous
<1>6. CASE k > Len(l) /\ i <= Len(l)
  \* k lies in the group and i before it: they cannot be of one batch.
  <2>1. k - Len(l) \in DOMAIN g /\ (l \o g)[k] = g[k - Len(l)]
    BY <1>3, <1>6
  <2>2. i \in DOMAIN l /\ (l \o g)[i] = l[i]
    BY <1>3, <1>6
  <2> QED BY <2>1, <2>2
<1>7. CASE i > Len(l)
  <2>1. m > Len(l)
    BY <1>4, <1>7, <1>2
  <2>2. /\ i - Len(l) \in DOMAIN g /\ (l \o g)[i] = g[i - Len(l)]
        /\ m - Len(l) \in DOMAIN g /\ (l \o g)[m] = g[m - Len(l)]
    BY <1>3, <1>4, <1>7, <2>1
  <2> QED BY <2>2
<1>8. k <= Len(l) \/ (k > Len(l) /\ i <= Len(l)) \/ i > Len(l)
  BY <1>4, <1>2
<1> QED BY <1>5, <1>6, <1>7, <1>8
-----------------------------------------------------------------------------
(* What a batch contributes to the queue.                                  *)

\* The entries made for a batch are its jobs, in order, under its batch id.
LEMMA BatchGroup ==
    ASSUME NEW b \in BatchId, NEW jobs \in Submissions
    PROVE  /\ InBatch(b, jobs) \in Seq(QueuedJob)
           /\ DOMAIN InBatch(b, jobs) = DOMAIN jobs
           /\ \A i \in DOMAIN jobs : /\ InBatch(b, jobs)[i].job_id = jobs[i].job_id
                                     /\ InBatch(b, jobs)[i].batch_id = b
           /\ IdsOf(InBatch(b, jobs)) = IdsOf(jobs)
           /\ IdsOf(jobs) \subseteq JobId
<1>1. PICK n \in Nat : jobs \in [1 .. n -> PrintJobInput]
  BY QueueAssumption, SeqDef
<1>2. n \in Nat /\ DOMAIN jobs = 1 .. n /\ Len(jobs) = n
  BY <1>1, QueueAssumption DEF QueueAssumption
<1>3. \A i \in 1 .. n : jobs[i].job_id \in JobId
  BY <1>1 DEF PrintJobInput
<1>4. InBatch(b, jobs) \in [1 .. n -> QueuedJob]
  BY <1>2, <1>3 DEF InBatch, QueuedJob
<1>5. InBatch(b, jobs) \in Seq(QueuedJob)
  BY <1>2, <1>4, SeqDef
<1>6. DOMAIN InBatch(b, jobs) = DOMAIN jobs
  BY <1>2 DEF InBatch
<1>7. \A i \in DOMAIN jobs : /\ InBatch(b, jobs)[i].job_id = jobs[i].job_id
                            /\ InBatch(b, jobs)[i].batch_id = b
  BY <1>2 DEF InBatch
<1>8. IdsOf(InBatch(b, jobs)) = IdsOf(jobs)
  BY <1>6, <1>7 DEF IdsOf
<1>9. IdsOf(jobs) \subseteq JobId
  BY <1>2, <1>3 DEF IdsOf
<1> QED BY <1>5, <1>6, <1>7, <1>8, <1>9

\* A step keeps every variable of its type.
LEMMA TypeStep == ASSUME TypeOK, [Next]_vars PROVE TypeOK'
<1> USE DEF TypeOK
<1>1. ASSUME NEW c \in Conn, NEW job \in PrintJobInput, PrintJob(c, job)
      PROVE  TypeOK'
  <2>1. job.job_id \in JobId /\ [job_id |-> job.job_id, batch_id |-> NoBatch] \in QueuedJob
    BY DEF PrintJobInput, QueuedJob
  <2>4. Append(pending, [job_id |-> job.job_id, batch_id |-> NoBatch]) \in Seq(QueuedJob)
    BY <2>1, AppendProperties
  <2>2. pending' \in Seq(QueuedJob) /\ seen_job_ids' \subseteq JobId
        /\ seen_batch_ids' \subseteq BatchId
    BY <1>1, <2>1, <2>4 DEF PrintJob, Refuse, accept_queued_job
  <2>3. handler' \in [Conn -> {"idle", "notifying"}] /\ reply' \in [Conn -> Replies]
    BY <1>1 DEF PrintJob, Refuse, Admit, Replies
  <2> QED BY <1>1, <2>2, <2>3 DEF PrintJob, workerVars
<1>2. ASSUME NEW c \in Conn, NEW b \in BatchId, NEW jobs \in Submissions,
             PrintBatch(c, b, jobs)
      PROVE  TypeOK'
  <2>3. InBatch(b, jobs) \in Seq(QueuedJob) /\ IdsOf(jobs) \subseteq JobId
    BY BatchGroup
  <2>4. pending \o InBatch(b, jobs) \in Seq(QueuedJob)
    BY <2>3, ConcatProperties
  <2>1. pending' \in Seq(QueuedJob) /\ seen_job_ids' \subseteq JobId
        /\ seen_batch_ids' \subseteq BatchId
    BY <1>2, <2>3, <2>4 DEF PrintBatch, Refuse, accept_batch
  <2>2. handler' \in [Conn -> {"idle", "notifying"}] /\ reply' \in [Conn -> Replies]
    BY <1>2 DEF PrintBatch, BatchError, Refuse, Admit, Replies
  <2> QED BY <1>2, <2>1, <2>2 DEF PrintBatch, workerVars
<1>3. ASSUME NEW c \in Conn, NotifyWorker(c)
      PROVE  TypeOK'
  BY <1>3 DEF NotifyWorker, notify_one, queueVars
<1>4. CASE WorkerCheck
  BY <1>4 DEF WorkerCheck, queueVars, connVars
<1>5. CASE WorkerPop
  <2>1. CASE pop_next
    <3>1. Head(pending) \in QueuedJob /\ Tail(pending) \in Seq(QueuedJob)
      BY <2>1, HeadTailProperties DEF pop_next
    <3> QED BY <1>5, <2>1, <3>1, AppendProperties DEF WorkerPop, pop_next, connVars
  <2>2. CASE ~pop_next
    BY <1>5, <2>2 DEF WorkerPop, connVars
  <2> QED BY <2>1, <2>2
<1>6. CASE WorkerFinish
  BY <1>6 DEF WorkerFinish, queueVars, connVars
<1>7. CASE WorkerSelect
  BY <1>7 DEF WorkerSelect, queueVars, connVars
<1>8. CASE WorkerWake
  BY <1>8 DEF WorkerWake, queueVars, connVars
<1>9. CASE Shutdown
  BY <1>9 DEF Shutdown, queueVars, connVars, workerVars
<1>10. CASE UNCHANGED vars
  BY <1>10 DEF vars
<1> QED
  BY <1>1, <1>2, <1>3, <1>4, <1>5, <1>6, <1>7, <1>8, <1>9, <1>10
  DEF Next, WorkerStep

\* Type correctness: the queue holds well-formed jobs and every task is at one
\* of its program points.
THEOREM TypeCorrect == Spec => []TypeOK
<1>1. Init => TypeOK
  BY EmptySeq DEF Init, TypeOK, Replies
<1>2. TypeOK /\ [Next]_vars => TypeOK'
  BY TypeStep
<1> QED BY <1>1, <1>2, PTL DEF Spec
-----------------------------------------------------------------------------
(* Every step extends Admitted by one fresh group, or leaves it alone.     *)

Extends(g) ==
    /\ Admitted' = Admitted \o g
    /\ DistinctIds(g)
    /\ IdsOf(g) \cap seen_job_ids = {}
    /\ seen_job_ids' = seen_job_ids \cup IdsOf(g)
    /\ \/ Len(g) = 1 /\ g[1].batch_id = NoBatch /\ UNCHANGED seen_batch_ids
       \/ \E b \in BatchId : /\ b \notin seen_batch_ids
                             /\ seen_batch_ids' = seen_batch_ids \cup {b}
                             /\ \A i \in DOMAIN g : g[i].batch_id = b

Unextended == UNCHANGED <<Admitted, seen_job_ids, seen_batch_ids>>

\* A print request enters its job at the end, or is refused without a trace.
LEMMA PrintJobExtends ==
    ASSUME TypeOK, NEW c \in Conn, NEW job \in PrintJobInput, PrintJob(c, job)
    PROVE  (\E g \in Seq(QueuedJob) : Extends(g)) \/ Unextended
<1> DEFINE e == [job_id |-> job.job_id, batch_id |-> NoBatch]
<1>1. taken \in Seq(QueuedJob) /\ pending \in Seq(QueuedJob)
  BY DEF TypeOK
<1>2. e \in QueuedJob
  BY DEF PrintJobInput, QueuedJob
<1>6. e.job_id = job.job_id /\ e.batch_id = NoBatch
  OBVIOUS
<1>7. PrintJob(c, job) =>
        \/ Refuse(c, "INVALID_MESSAGE") \/ Refuse(c, "JOB_DUPLICATED")
        \/ accept_queued_job(e) /\ UNCHANGED seen_batch_ids
  BY DEF PrintJob
<1> HIDE DEF e
<1>3. <<e>> \in Seq(QueuedJob) /\ Len(<<e>>) = 1 /\ DOMAIN <<e>> = {1} /\ <<e>>[1] = e
  BY <1>2
<1>4. CASE Refuse(c, "INVALID_MESSAGE") \/ Refuse(c, "JOB_DUPLICATED")
  BY <1>4 DEF PrintJob, Refuse, Unextended, Admitted, workerVars
<1>5. CASE accept_queued_job(e) /\ UNCHANGED seen_batch_ids
  <2>1. /\ job.job_id \notin seen_job_ids
        /\ seen_job_ids' = seen_job_ids \cup {job.job_id}
        /\ pending' = Append(pending, e)
        /\ UNCHANGED seen_batch_ids
        /\ taken' = taken
    BY <1>5, <1>6 DEF PrintJob, accept_queued_job, workerVars
  <2>2. Append(pending, e) = pending \o <<e>>
    BY <1>1, <1>2, AppendIsConcat
  <2>3. Admitted' = Admitted \o <<e>>
    BY <1>1, <1>3, <2>1, <2>2, ConcatAssociative DEF Admitted
  <2>5. IdsOf(<<e>>) = {job.job_id} /\ DistinctIds(<<e>>)
    BY <1>3, <1>6 DEF IdsOf, DistinctIds
  <2>6. Extends(<<e>>)
    BY <1>3, <1>6, <2>1, <2>3, <2>5 DEF Extends
  <2> QED BY <1>3, <2>6
<1> QED BY <1>4, <1>5, <1>7

\* A batch is entered at the end as a whole, or is refused without a trace.
LEMMA PrintBatchExtends ==
    ASSUME TypeOK, NEW c \in Conn, NEW b \in BatchId, NEW jobs \in Submissions,
           PrintBatch(c, b, jobs)
    PROVE  (\E g \in Seq(QueuedJob) : Extends(g)) \/ Unextended
<1> DEFINE g == InBatch(b, jobs)
<1>1. taken \in Seq(QueuedJob) /\ pending \in Seq(QueuedJob)
  BY DEF TypeOK
<1>2. /\ g \in Seq(QueuedJob)
      /\ DOMAIN g = DOMAIN jobs
      /\ \A i \in DOMAIN jobs : g[i].job_id = jobs[i].job_id /\ g[i].batch_id = b
      /\ IdsOf(g) = IdsOf(jobs)
  BY BatchGroup
<1> HIDE DEF g
<1>3. CASE BatchError(b, jobs) # "none"
  BY <1>3 DEF PrintBatch, Refuse, Unextended, Admitted, workerVars
<1>4. CASE BatchError(b, jobs) = "none"
  <2>1. b \notin seen_batch_ids /\ ~HasDuplicate(jobs)
    BY <1>4 DEF BatchError
  <2>2. /\ seen_batch_ids' = seen_batch_ids \cup {b}
        /\ seen_job_ids' = seen_job_ids \cup IdsOf(jobs)
        /\ pending' = pending \o g
        /\ taken' = taken
    BY <1>4 DEF PrintBatch, accept_batch, workerVars, g
  <2>3. Admitted' = Admitted \o g
    BY <1>1, <1>2, <2>2, ConcatAssociative DEF Admitted
  <2>4. IdsOf(jobs) \cap seen_job_ids = {} /\ DistinctIds(jobs)
    BY <2>1 DEF HasDuplicate
  <2>5. DistinctIds(g)
    BY <1>2, <2>4 DEF DistinctIds
  <2>6. Extends(g)
    BY <1>2, <2>1, <2>2, <2>3, <2>4, <2>5 DEF Extends
  <2> QED BY <1>2, <2>6
<1> QED BY <1>3, <1>4

\* Taking a job moves it from pending to taken.
LEMMA PopKeepsAdmitted ==
    ASSUME TypeOK, WorkerPop PROVE Unextended
<1>1. CASE pop_next
  <2>1. Append(taken, Head(pending)) \o Tail(pending) = taken \o pending
    BY <1>1, MoveHead DEF TypeOK, pop_next
  <2> QED BY <1>1, <2>1 DEF WorkerPop, pop_next, Unextended, Admitted
<1>2. CASE ~pop_next
  BY <1>2 DEF WorkerPop, Unextended, Admitted
<1> QED BY <1>1, <1>2

\* Every step enters one fresh group of jobs at the end, or leaves what has been
\* admitted as it was.
LEMMA StepExtends ==
    ASSUME TypeOK, [Next]_vars
    PROVE  (\E g \in Seq(QueuedJob) : Extends(g)) \/ Unextended
<1>1. ASSUME NEW c \in Conn, NEW job \in PrintJobInput, PrintJob(c, job)
      PROVE  (\E g \in Seq(QueuedJob) : Extends(g)) \/ Unextended
  BY <1>1, PrintJobExtends
<1>2. ASSUME NEW c \in Conn, NEW b \in BatchId, NEW jobs \in Submissions,
             PrintBatch(c, b, jobs)
      PROVE  (\E g \in Seq(QueuedJob) : Extends(g)) \/ Unextended
  BY <1>2, PrintBatchExtends
<1>3. CASE WorkerPop
  BY <1>3, PopKeepsAdmitted
<1>4. ASSUME UNCHANGED <<queueVars, taken>>
      PROVE  Unextended
  BY <1>4 DEF Unextended, Admitted, queueVars
<1>5. ASSUME NEW c \in Conn, NotifyWorker(c) PROVE Unextended
  BY <1>4, <1>5 DEF NotifyWorker
<1>6. CASE WorkerCheck \/ WorkerFinish \/ WorkerSelect \/ WorkerWake \/ Shutdown
  BY <1>4, <1>6 DEF WorkerCheck, WorkerFinish, WorkerSelect, WorkerWake, Shutdown, workerVars
<1>7. CASE UNCHANGED vars
  BY <1>4, <1>7 DEF vars, queueVars
<1> QED BY <1>1, <1>2, <1>3, <1>5, <1>6, <1>7 DEF Next, WorkerStep
-----------------------------------------------------------------------------
(* The inductive invariant.                                                *)

\* Ids stay distinct and batches contiguous when a fresh group is entered.
LEMMA HistoryStep ==
    ASSUME QueueInv, [Next]_vars
    PROVE  EachJobOnce' /\ BatchesSeen' /\ BatchContiguous'
<1> USE DEF QueueInv
<1>1. Admitted \in Seq(QueuedJob)
  BY ConcatProperties DEF TypeOK, Admitted
<1>2. CASE Unextended
  BY <1>2 DEF Unextended, EachJobOnce, BatchesSeen, BatchContiguous
<1>3. ASSUME NEW g \in Seq(QueuedJob), Extends(g)
      PROVE  EachJobOnce' /\ BatchesSeen' /\ BatchContiguous'
  <2>1. /\ DistinctIds(Admitted) /\ DistinctIds(g)
        /\ IdsOf(Admitted) \cap IdsOf(g) = {}
        /\ seen_job_ids = IdsOf(Admitted)
        /\ seen_job_ids' = seen_job_ids \cup IdsOf(g)
        /\ Admitted' = Admitted \o g
    BY <1>3 DEF Extends, EachJobOnce
  <2>2. DistinctIds(Admitted \o g) /\ IdsOf(Admitted \o g) = IdsOf(Admitted) \cup IdsOf(g)
    BY <1>1, <2>1, DistinctGrowth
  <2>3. EachJobOnce'
    BY <2>1, <2>2 DEF EachJobOnce
  <2>4. /\ Len(Admitted) \in Nat /\ DOMAIN Admitted = 1 .. Len(Admitted)
        /\ Len(g) \in Nat /\ DOMAIN g = 1 .. Len(g)
    BY <1>1, LenProperties
  <2>5. \/ /\ \A i \in DOMAIN g : g[i].batch_id = NoBatch
           /\ seen_batch_ids' = seen_batch_ids
        \/ \E b \in BatchId : /\ b \notin seen_batch_ids
                              /\ seen_batch_ids' = seen_batch_ids \cup {b}
                              /\ \A i \in DOMAIN g : g[i].batch_id = b
    BY <1>3, <2>4 DEF Extends
  <2>6. /\ seen_batch_ids \subseteq seen_batch_ids'
        /\ \A i \in DOMAIN g : g[i].batch_id \in seen_batch_ids' \cup {NoBatch}
    BY <2>5
  <2>7. BatchesSeen'
    <3>1. /\ Len(Admitted \o g) = Len(Admitted) + Len(g)
          /\ DOMAIN (Admitted \o g) = 1 .. Len(Admitted) + Len(g)
          /\ \A i \in 1 .. Len(Admitted) + Len(g) :
                (Admitted \o g)[i] = IF i <= Len(Admitted) THEN Admitted[i]
                                     ELSE g[i - Len(Admitted)]
      BY <1>1, ConcatProperties, LenProperties
    <3>2. ASSUME NEW i \in DOMAIN (Admitted \o g)
          PROVE  (Admitted \o g)[i].batch_id \in seen_batch_ids' \cup {NoBatch}
      <4>1. CASE i <= Len(Admitted)
        BY <4>1, <3>1, <2>4, <2>6 DEF BatchesSeen
      <4>2. CASE i > Len(Admitted)
        <5>1. i - Len(Admitted) \in DOMAIN g /\ (Admitted \o g)[i] = g[i - Len(Admitted)]
          BY <4>2, <3>1, <2>4
        <5> QED BY <5>1, <2>6
      <4>3. i <= Len(Admitted) \/ i > Len(Admitted)
        BY <3>1, <2>4
      <4> QED BY <4>1, <4>2, <4>3
    <3> QED BY <2>1, <3>2 DEF BatchesSeen
  <2>8. BatchContiguous'
    <3>1. \A i \in DOMAIN Admitted : \A b \in BatchId :
              b \notin seen_batch_ids => Admitted[i].batch_id # b
      BY QueueAssumption DEF BatchesSeen, QueueAssumption
    <3>2. Contiguous(Admitted \o g)
      BY <1>1, <2>5, <3>1, ContiguousGrowth DEF BatchContiguous
    <3> QED BY <2>1, <3>2 DEF BatchContiguous
  <2> QED BY <2>3, <2>7, <2>8
<1> QED BY <1>2, <1>3, StepExtends

\* Parking and waking: a permit or an outstanding notify_one covers every job
\* that arrives while the worker is on its way to sleep.
LEMMA WakeupStep ==
    ASSUME QueueInv, [Next]_vars
    PROVE  NotifyMatchesWorker' /\ WakeupOwed'
<1> USE DEF QueueInv, NotifyMatchesWorker, WakeupOwed, TypeOK
<1>1. ASSUME NEW c \in Conn, NEW job \in PrintJobInput, PrintJob(c, job)
      PROVE  NotifyMatchesWorker' /\ WakeupOwed'
  <2>1. notify' = notify /\ worker' = worker
    BY <1>1 DEF PrintJob, workerVars
  <2>2. \/ pending' = pending /\ handler' = handler
        \/ handler' = [handler EXCEPT ![c] = "notifying"]
    BY <1>1 DEF PrintJob, Refuse, Admit
  <2> QED BY <2>1, <2>2
<1>2. ASSUME NEW c \in Conn, NEW b \in BatchId, NEW jobs \in Submissions,
             PrintBatch(c, b, jobs)
      PROVE  NotifyMatchesWorker' /\ WakeupOwed'
  <2>1. notify' = notify /\ worker' = worker
    BY <1>2 DEF PrintBatch, workerVars
  <2>2. \/ pending' = pending /\ handler' = handler
        \/ handler' = [handler EXCEPT ![c] = "notifying"]
    BY <1>2 DEF PrintBatch, Refuse, Admit
  <2> QED BY <2>1, <2>2
<1>3. ASSUME NEW c \in Conn, NotifyWorker(c)
      PROVE  NotifyMatchesWorker' /\ WakeupOwed'
  BY <1>3 DEF NotifyWorker, notify_one, queueVars
<1>4. CASE WorkerCheck
  BY <1>4 DEF WorkerCheck, queueVars, connVars
<1>5. CASE WorkerPop
  BY <1>5 DEF WorkerPop, pop_next, connVars
<1>6. CASE WorkerFinish
  BY <1>6 DEF WorkerFinish, queueVars, connVars
<1>7. CASE WorkerSelect
  BY <1>7 DEF WorkerSelect, queueVars, connVars
<1>8. CASE WorkerWake
  BY <1>8 DEF WorkerWake, queueVars, connVars
<1>9. CASE Shutdown
  BY <1>9 DEF Shutdown, queueVars, connVars, workerVars
<1>10. CASE UNCHANGED vars
  BY <1>10 DEF vars
<1> QED
  BY <1>1, <1>2, <1>3, <1>4, <1>5, <1>6, <1>7, <1>8, <1>9, <1>10
  DEF Next, WorkerStep

\* The inductive invariant holds in every reachable state.
THEOREM QueueInvariant == Spec => []QueueInv
<1>1. Init => QueueInv
  <2> SUFFICES ASSUME Init PROVE QueueInv
    OBVIOUS
  <2>1. TypeOK
    BY EmptySeq DEF Init, TypeOK, Replies
  <2>2. Admitted = << >> /\ DOMAIN Admitted = {}
    BY ConcatEmptySeq, EmptySeq DEF Init, Admitted
  <2>3. EachJobOnce /\ BatchesSeen /\ BatchContiguous
    BY <2>2 DEF Init, EachJobOnce, DistinctIds, IdsOf, BatchesSeen, BatchContiguous, Contiguous
  <2>4. NotifyMatchesWorker /\ WakeupOwed
    BY DEF Init, NotifyMatchesWorker, WakeupOwed
  <2> QED BY <2>1, <2>3, <2>4 DEF QueueInv
<1>2. QueueInv /\ [Next]_vars => QueueInv'
  <2> SUFFICES ASSUME QueueInv, [Next]_vars PROVE QueueInv'
    OBVIOUS
  <2>1. TypeOK'
    BY TypeStep DEF QueueInv
  <2> QED BY <2>1, HistoryStep, WakeupStep DEF QueueInv
<1> QED BY <1>1, <1>2, PTL DEF Spec

\* No wake-up is ever lost (run_worker_until, Notify): the worker sleeps on a
\* non-empty queue only while some connection still owes its notify_one.
THEOREM NoWakeupIsLost == Spec => []NoLostWakeup
<1>1. QueueInv => NoLostWakeup
  BY DEF QueueInv, NotifyMatchesWorker, WakeupOwed, NoLostWakeup, TypeOK
<1> QED BY <1>1, QueueInvariant, PTL

\* No job id is ever admitted twice, and ids of refused requests stay free
\* (accept_queued_job, accept_batch_with_html_origin).
THEOREM JobsAreAdmittedOnce == Spec => []EachJobOnce
<1>1. QueueInv => EachJobOnce
  BY DEF QueueInv
<1> QED BY <1>1, QueueInvariant, PTL

\* The jobs of a batch are executed next to each other, whatever other
\* connections submit meanwhile (accept_batch_with_html_origin).
THEOREM BatchesStayTogether == Spec => []BatchContiguous
<1>1. QueueInv => BatchContiguous
  BY DEF QueueInv
<1> QED BY <1>1, QueueInvariant, PTL
-----------------------------------------------------------------------------
(* Refinement: the queue implements the ledger.                            *)

\* An admission is one Admit step of the ledger, or is invisible to it.
LEMMA AdmissionIsAdmit ==
    ASSUME QueueInv, taken' = taken, worker' = worker,
           (\E g \in Seq(QueuedJob) : Extends(g)) \/ Unextended
    PROVE  [Ledger!LedgerNext]_(Ledger!ledgerVars)
<1> USE DEF QueueInv
<1>1. CASE Unextended
  BY <1>1 DEF Unextended, Ledger!ledgerVars
<1>2. ASSUME NEW g \in Seq(QueuedJob), Extends(g)
      PROVE  Ledger!AdmitSome
  <2>1. Admitted \in Seq(QueuedJob)
    BY ConcatProperties DEF TypeOK, Admitted
  <2>2. Admitted' = Admitted \o g
    BY <1>2 DEF Extends
  <2>3. SubSeq(Admitted', Len(Admitted) + 1, Len(Admitted')) = g
    BY <2>1, <2>2, AppendedSuffix
  <2>4. \A i, k \in DOMAIN g : g[i].job_id = g[k].job_id => i = k
    BY <1>2 DEF Extends, DistinctIds
  <2>5. \A i \in DOMAIN g, k \in DOMAIN Admitted : g[i].job_id # Admitted[k].job_id
    BY <1>2 DEF Extends, EachJobOnce, IdsOf
  <2>6. \/ Len(g) = 1 /\ g[1].batch_id = NoBatch
        \/ \E b \in BatchId :
             /\ \A i \in DOMAIN g : g[i].batch_id = b
             /\ \A k \in DOMAIN Admitted : Admitted[k].batch_id # b
    BY <1>2, QueueAssumption DEF Extends, BatchesSeen, QueueAssumption
  <2>7. Ledger!Fresh(g)
    BY <2>4, <2>5, <2>6 DEF Ledger!Fresh
  <2>8. Ledger!Admit(g)
    BY <2>2, <2>7 DEF Ledger!Admit
  <2> QED BY <2>3, <2>8 DEF Ledger!AdmitSome
<1> QED BY <1>1, <1>2 DEF Ledger!LedgerNext

\* Every step of the queue is a step of the ledger or a stutter.
LEMMA LedgerStep ==
    ASSUME QueueInv, [Next]_vars
    PROVE  [Ledger!LedgerNext]_(Ledger!ledgerVars)
<1> USE DEF QueueInv
<1>1. ASSUME NEW c \in Conn, NEW job \in PrintJobInput, PrintJob(c, job)
      PROVE  [Ledger!LedgerNext]_(Ledger!ledgerVars)
  <2>1. taken' = taken /\ worker' = worker
    BY <1>1 DEF PrintJob, workerVars
  <2> QED BY <1>1, <2>1, PrintJobExtends, AdmissionIsAdmit
<1>2. ASSUME NEW c \in Conn, NEW b \in BatchId, NEW jobs \in Submissions,
             PrintBatch(c, b, jobs)
      PROVE  [Ledger!LedgerNext]_(Ledger!ledgerVars)
  <2>1. taken' = taken /\ worker' = worker
    BY <1>2 DEF PrintBatch, workerVars
  <2> QED BY <1>2, <2>1, PrintBatchExtends, AdmissionIsAdmit
<1>3. ASSUME pending' = pending, taken' = taken,
             (worker' = "processing") = (worker = "processing")
      PROVE  UNCHANGED Ledger!ledgerVars
  BY <1>3 DEF Ledger!ledgerVars, Admitted
<1>4. ASSUME NEW c \in Conn, NotifyWorker(c)
      PROVE  UNCHANGED Ledger!ledgerVars
  <2>1. (worker' = "processing") = (worker = "processing")
    BY <1>4 DEF NotifyWorker, notify_one, NotifyMatchesWorker, TypeOK
  <2> QED BY <1>3, <1>4, <2>1 DEF NotifyWorker, queueVars
<1>5. CASE WorkerPop
  <2>1. Unextended
    BY <1>5, PopKeepsAdmitted
  <2>2. CASE pop_next
    <3>1. worker = "pop" /\ worker' = "processing"
      BY <1>5, <2>2 DEF WorkerPop, pop_next
    <3>2. taken \in Seq(QueuedJob) /\ pending \in Seq(QueuedJob) /\ pending # << >>
      BY <2>2 DEF TypeOK, pop_next
    <3>3. Head(pending) \in QueuedJob
      BY <3>2, HeadTailProperties
    <3>4. Len(taken') = Len(taken) + 1
      BY <2>2, <3>2, <3>3, AppendProperties DEF pop_next
    <3>5. Len(Admitted) = Len(taken) + Len(pending) /\ Len(taken) \in Nat
          /\ Len(pending) \in Nat \ {0}
      BY <3>2, ConcatProperties, LenProperties, EmptySeq DEF Admitted
    <3>6. Len(taken) < Len(Admitted)
      BY <3>5
    <3>7. Ledger!Start
      BY <2>1, <3>1, <3>4, <3>6 DEF Ledger!Start, Unextended
    <3> QED BY <3>7 DEF Ledger!LedgerNext
  <2>3. CASE ~pop_next
    BY <1>3, <1>5, <2>3 DEF WorkerPop
  <2> QED BY <2>2, <2>3
<1>6. CASE WorkerFinish
  <2>1. Ledger!Finish
    BY <1>6 DEF WorkerFinish, Ledger!Finish, queueVars, Admitted
  <2> QED BY <2>1 DEF Ledger!LedgerNext
<1>7. CASE WorkerCheck
  BY <1>3, <1>7 DEF WorkerCheck, queueVars
<1>8. CASE WorkerSelect
  BY <1>3, <1>8 DEF WorkerSelect, queueVars
<1>9. CASE WorkerWake
  BY <1>3, <1>9 DEF WorkerWake, queueVars
<1>10. CASE Shutdown
  BY <1>3, <1>10 DEF Shutdown, queueVars, workerVars
<1>11. CASE UNCHANGED vars
  BY <1>3, <1>11 DEF vars
<1> QED
  BY <1>1, <1>2, <1>4, <1>5, <1>6, <1>7, <1>8, <1>9, <1>10, <1>11
  DEF Next, WorkerStep

\* The queue, its connections and its worker implement the ledger: jobs start
\* in admission order, one at a time, each once, batches as a whole.
THEOREM QueueImplementsLedger == Spec => ImplementsLedger
<1>1. Init => Ledger!LedgerInit
  <2> SUFFICES ASSUME Init PROVE Ledger!LedgerInit
    OBVIOUS
  <2>1. Admitted = << >> /\ Len(taken) = 0
    BY ConcatEmptySeq, EmptySeq DEF Init, Admitted
  <2> QED BY <2>1 DEF Init, Ledger!LedgerInit
<1>2. QueueInv /\ [Next]_vars => [Ledger!LedgerNext]_(Ledger!ledgerVars)
  BY LedgerStep
<1> QED BY <1>1, <1>2, QueueInvariant, PTL DEF Spec, ImplementsLedger, Ledger!LedgerSpec
=============================================================================
