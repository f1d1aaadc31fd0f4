--------------------------- MODULE Downloads_proofs ---------------------------
(***************************************************************************)
(* For any number of files, guilds, tasks and pool threads: whoever waits  *)
(* for a download waits for one that is still to end, the counter counts   *)
(* the downloads there are, and nothing but a full pool can make all tasks *)
(* stand.                                                                  *)
(***************************************************************************)
EXTENDS Downloads, SequenceTheorems, FiniteSetTheorems, TLAPS

\* A task has a file, and all but a download a guild.
Proper(t) == t.pc # "free" => t.file \in Files /\ (t.kind # "dl" => t.guild \in Guilds)

HasFile == \A j \in Jobs : Proper(job[j])

IInv == TypeOK /\ HasFile /\ WaitingIsServed /\ DownloadsBounded

\* The rest of the state has its type.
OthersOK ==
    /\ disk \subseteq Files
    /\ failed \in [Files -> 0..Retries]
    /\ holder \in [Guilds -> Jobs \cup {None}]
    /\ queue \in [Guilds -> SUBSET Files]
    /\ playing \in [Guilds -> Files \cup {None}]
    /\ requests \in 0..MaxRequests
    /\ losses \in 0..MaxLosses

others == <<disk, failed, holder, queue, playing, requests, losses>>

----------------------------------------------------------------------------
\* What is known of one task.
LEMMA JobFacts ==
    ASSUME IInv, NEW j \in Jobs
    PROVE  /\ job[j] \in Tasks /\ Proper(job[j])
           /\ job \in [Jobs -> Tasks]
           /\ OthersOK
  BY DEF IInv, TypeOK, HasFile, OthersOK

\* The fields of a changed task.
LEMMA TaskFields ==
    ASSUME NEW t \in Tasks, NEW p \in Steps
    PROVE  /\ [t EXCEPT !.pc = p] \in Tasks
           /\ [t EXCEPT !.pc = p].pc = p
           /\ [t EXCEPT !.pc = p].kind = t.kind
           /\ [t EXCEPT !.pc = p].file = t.file
           /\ [t EXCEPT !.pc = p].guild = t.guild
  BY DEF Tasks

\* A job that ended.
LEMMA NoJobFacts ==
    NoJob \in Tasks /\ NoJob.pc = "free" /\ NoJob.kind = None /\ Proper(NoJob)
  BY DEF NoJob, Task, Tasks, Kinds, Steps, Retries, None, Proper

\* A new or deferred task.
LEMMA NewTask ==
    ASSUME NEW kind \in Kinds, NEW f \in Files, NEW g \in Guilds \cup {None}, NEW p \in Steps,
           NEW b \in BOOLEAN
    PROVE  /\ Task(kind, f, g, p, b) \in Tasks
           /\ Task(kind, f, g, p, b).kind = kind
           /\ Task(kind, f, g, p, b).file = f
           /\ Task(kind, f, g, p, b).guild = g
           /\ Task(kind, f, g, p, b).pc = p
  BY DEF Task, Tasks, Retries

\* A step of one task that is no download's first or last and pushes nothing.
LEMMA QuietStep ==
    ASSUME IInv, NEW j \in Jobs, NEW t \in Tasks,
           job' = [job EXCEPT ![j] = t],
           Proper(t),
           t.kind = "dl" <=> job[j].kind = "dl",
           t.kind = "dl" => t.file = job[j].file,
           job[j].pc # "push",
           UNCHANGED <<waiting, downloadQ, running>>,
           OthersOK'
    PROVE  IInv'
<1>1. job \in [Jobs -> Tasks]
  BY DEF IInv, TypeOK
<1>2. \A k \in Jobs : job'[k] = IF k = j THEN t ELSE job[k]
  BY <1>1
<1>3. TypeOK'
  BY <1>1 DEF IInv, TypeOK, OthersOK
<1>4. HasFile'
  BY <1>2 DEF IInv, HasFile, Proper
<1>5. WaitingIsServed'
  <2> SUFFICES ASSUME NEW f \in waiting, f \notin Range(downloadQ)
               PROVE  \E k \in Jobs : job'[k].file = f /\ (job'[k].kind = "dl" \/ job'[k].pc = "push")
    BY DEF WaitingIsServed
  <2>1. PICK k \in Jobs : job[k].file = f /\ (job[k].kind = "dl" \/ job[k].pc = "push")
    BY DEF IInv, WaitingIsServed
  <2> QED
    BY <1>2, <2>1
<1>6. DownloadsBounded'
  <2>1. Downloading' = Downloading
    BY <1>2 DEF Downloading
  <2> QED
    BY <2>1 DEF IInv, DownloadsBounded
<1> QED
  BY <1>3, <1>4, <1>5, <1>6 DEF IInv

\* A task that goes to another place of its run.
LEMMA GotoStep ==
    ASSUME IInv, NEW j \in Jobs, NEW p \in Steps \ {"free"}, Goto(j, p),
           job[j].pc \notin {"push", "free"},
           UNCHANGED <<waiting, downloadQ, running>>, OthersOK'
    PROVE  IInv'
<1> DEFINE t == [job[j] EXCEPT !.pc = p]
<1>1. job[j] \in Tasks /\ Proper(job[j]) /\ p \in Steps
  BY JobFacts
<1>2. t \in Tasks /\ t.pc = p /\ t.kind = job[j].kind /\ t.file = job[j].file /\ t.guild = job[j].guild
  BY <1>1, TaskFields
<1>3. job' = [job EXCEPT ![j] = t]
  BY DEF Goto
<1> HIDE DEF t
<1>4. Proper(t)
  BY <1>1, <1>2 DEF Proper
<1> QED
  BY <1>2, <1>3, <1>4, QuietStep

\* A task that ends and is no download.
LEMMA FinishStep ==
    ASSUME IInv, NEW j \in Jobs, Finish(j),
           job[j].pc # "push", job[j].kind # "dl",
           UNCHANGED <<waiting, downloadQ, running>>, OthersOK'
    PROVE  IInv'
<1>1. NoJob.kind # "dl"
  BY NoJobFacts DEF None
<1> QED
  BY <1>1, NoJobFacts, QuietStep DEF Finish

\* A new task that is no download.
LEMMA EnqueueStep ==
    ASSUME IInv, NEW j \in Jobs, NEW kind \in Kinds \ {"dl"}, NEW f \in Files, NEW g \in Guilds,
           Enqueue(j, kind, f, g),
           UNCHANGED <<waiting, downloadQ, running>>, OthersOK'
    PROVE  IInv'
<1> DEFINE t == Task(kind, f, g, "queued", FALSE)
<1>1. g \in Guilds \cup {None} /\ kind \in Kinds /\ "queued" \in Steps
  BY DEF Steps
<1>2. t \in Tasks /\ t.kind = kind /\ t.file = f /\ t.guild = g
  BY <1>1 DEF Task, Tasks, Retries
<1>3. job[j] = NoJob /\ job' = [job EXCEPT ![j] = t]
  BY DEF Enqueue
<1>4. job[j].kind # "dl" /\ job[j].pc # "push"
  BY <1>3, NoJobFacts DEF None
<1> HIDE DEF t
<1>5. Proper(t)
  BY <1>2 DEF Proper
<1> QED
  BY <1>2, <1>3, <1>4, <1>5, QuietStep

\* The task that takes the place of a job when it is deferred.
LEMMA DeferredFacts ==
    ASSUME IInv, NEW j \in Jobs, NEW kind \in Kinds \ {"dl"}, NEW b \in BOOLEAN,
           job[j].pc # "free", job[j].kind # "dl", job' = Deferred(j, kind, b)
    PROVE  \E t \in Tasks : /\ job' = [job EXCEPT ![j] = t]
                            /\ t.kind = kind /\ Proper(t)
<1> DEFINE t == Task(kind, job[j].file, job[j].guild, "deferred", b)
<1>1. /\ job[j].file \in Files /\ job[j].guild \in Guilds /\ job[j].guild \in Guilds \cup {None}
      /\ kind \in Kinds /\ "deferred" \in Steps
  BY JobFacts DEF Proper, Steps
<1>2. t \in Tasks /\ t.kind = kind /\ t.file = job[j].file /\ t.guild = job[j].guild
  BY <1>1, NewTask
<1>3. job' = [job EXCEPT ![j] = t]
  BY DEF Deferred
<1> HIDE DEF t
<1>4. Proper(t)
  BY <1>1, <1>2 DEF Proper
<1> QED
  BY <1>2, <1>3, <1>4

----------------------------------------------------------------------------
(***************************************************************************)
(* Every step keeps the invariant.                                         *)
(***************************************************************************)

\* The steps that only take a task on.
LEMMA OnStep ==
    ASSUME IInv, NEW j \in Jobs,
           \/ Begin(j) \/ Unblock(j) \/ DownloadLooks(j) \/ DownloadFetches(j)
           \/ WorkerLocks(j) \/ WorkerWaits(j) \/ WorkerLooks(j) \/ RedoWaits(j)
    PROVE  IInv'
<1>1. /\ job[j].pc \notin {"push", "free"} /\ UNCHANGED <<waiting, downloadQ, running>>
      /\ \E p \in Steps \ {"free"} : Goto(j, p)
  BY DEF Begin, Unblock, DownloadLooks, DownloadFetches, WorkerLocks, WorkerWaits, WorkerLooks,
         RedoWaits, At, Steps
<1>2. OthersOK'
  <2>1. CASE DownloadFetches(j)
    <3>1. job[j].file \in Files
      BY <1>1, JobFacts DEF Proper
    <3> QED
      BY <2>1, <3>1, JobFacts DEF DownloadFetches, OthersOK
  <2>2. CASE WorkerLocks(j)
    BY <2>2, JobFacts DEF WorkerLocks, OthersOK
  <2>3. CASE UNCHANGED others
    BY <2>3, JobFacts DEF others, OthersOK
  <2> QED
    BY <2>1, <2>2, <2>3 DEF Begin, Unblock, DownloadLooks, WorkerWaits, WorkerLooks, RedoWaits, others
<1> QED
  BY <1>1, <1>2, GotoStep

\* download, first half: the file is waited for and its task pushes it next.
LEMMA AnnounceStep ==
    ASSUME IInv, NEW j \in Jobs, AddOrders(j) \/ WorkerOrders(j)
    PROVE  IInv'
<1> DEFINE t == [job[j] EXCEPT !.pc = "push"]
<1>1. /\ waiting' = waiting \cup {job[j].file} /\ job' = [job EXCEPT ![j] = t]
      /\ job[j].pc = "order" /\ job[j].kind \in {"add", "worker"}
      /\ UNCHANGED others /\ UNCHANGED <<downloadQ, running>>
  BY DEF AddOrders, WorkerOrders, Announce, At, Goto, others
<1>2. job[j] \in Tasks /\ job[j].file \in Files /\ job[j].guild \in Guilds /\ "push" \in Steps
  BY <1>1, JobFacts DEF Proper, Steps
<1>3. t \in Tasks /\ t.pc = "push" /\ t.kind = job[j].kind /\ t.file = job[j].file /\ t.guild = job[j].guild
  BY <1>2, TaskFields
<1> HIDE DEF t
<1>4. job \in [Jobs -> Tasks] /\ \A k \in Jobs : job'[k] = IF k = j THEN t ELSE job[k]
  BY <1>1, JobFacts
<1>5. TypeOK'
  BY <1>1, <1>2, <1>3, <1>4 DEF IInv, TypeOK, others
<1>6. HasFile'
  BY <1>2, <1>3, <1>4 DEF IInv, HasFile, Proper
<1>7. WaitingIsServed'
  <2> SUFFICES ASSUME NEW f \in waiting', f \notin Range(downloadQ)
               PROVE  \E k \in Jobs : job'[k].file = f /\ (job'[k].kind = "dl" \/ job'[k].pc = "push")
    BY <1>1 DEF WaitingIsServed
  <2>1. CASE f = job[j].file
    BY <1>3, <1>4, <2>1
  <2>2. CASE f \in waiting
    <3>1. PICK k \in Jobs : job[k].file = f /\ (job[k].kind = "dl" \/ job[k].pc = "push")
      BY <2>2 DEF IInv, WaitingIsServed
    <3> QED
      BY <1>1, <1>4, <3>1
  <2> QED
    BY <1>1, <2>1, <2>2
<1>8. DownloadsBounded'
  <2>1. Downloading' = Downloading
    BY <1>1, <1>3, <1>4 DEF Downloading
  <2> QED
    BY <1>1, <2>1 DEF IInv, DownloadsBounded
<1> QED
  BY <1>5, <1>6, <1>7, <1>8 DEF IInv

\* download, second half: the file is in the queue from now on.
LEMMA PushStep ==
    ASSUME IInv, NEW j \in Jobs, AddPushes(j) \/ WorkerPushes(j)
    PROVE  IInv'
<1>1. /\ downloadQ' = Append(downloadQ, job[j].file)
      /\ job[j].pc = "push" /\ job[j].kind \in {"add", "worker"}
      /\ UNCHANGED <<disk, waiting, running, failed, queue, playing, requests, losses>>
      /\ \E kind \in {"tail", "redo"} : job' = Deferred(j, kind, TRUE)
  BY DEF AddPushes, WorkerPushes, At
<1>2. job[j].file \in Files /\ downloadQ \in Seq(Files)
  BY <1>1, JobFacts DEF Proper, IInv, TypeOK
<1>3. PICK t \in Tasks : job' = [job EXCEPT ![j] = t] /\ t.kind # "dl" /\ Proper(t)
  <2>1. PICK kind \in {"tail", "redo"} : job' = Deferred(j, kind, TRUE)
    BY <1>1
  <2>2. kind \in Kinds \ {"dl"} /\ TRUE \in BOOLEAN /\ job[j].pc # "free" /\ job[j].kind # "dl"
    BY <1>1 DEF Kinds
  <2> QED
    BY <2>1, <2>2, DeferredFacts
<1>4. job \in [Jobs -> Tasks] /\ \A k \in Jobs : job'[k] = IF k = j THEN t ELSE job[k]
  BY <1>3, JobFacts
<1>5. /\ downloadQ' \in Seq(Files)
      /\ Range(downloadQ) \subseteq Range(downloadQ') /\ job[j].file \in Range(downloadQ')
  <2> DEFINE q == Append(downloadQ, job[j].file)
  <2>1. q \in Seq(Files) /\ Len(q) = Len(downloadQ) + 1
        /\ q[Len(downloadQ) + 1] = job[j].file
        /\ \A i \in 1..Len(downloadQ) : q[i] = downloadQ[i]
    BY <1>2, AppendProperties
  <2>2. downloadQ' = q
    BY <1>1
  <2> HIDE DEF q
  <2>3. DOMAIN q = 1..(Len(downloadQ) + 1) /\ DOMAIN downloadQ = 1..Len(downloadQ)
        /\ Len(downloadQ) \in Nat
    BY <1>2, <2>1, LenProperties
  <2> QED
    BY <2>1, <2>2, <2>3 DEF Range
<1>6. TypeOK'
  <2>1. holder' \in [Guilds -> Jobs \cup {None}]
    BY DEF AddPushes, WorkerPushes, IInv, TypeOK
  <2> QED
    BY <1>1, <1>3, <1>4, <1>5, <2>1 DEF IInv, TypeOK
<1>7. HasFile'
  BY <1>3, <1>4 DEF IInv, HasFile
<1>8. WaitingIsServed'
  <2> SUFFICES ASSUME NEW f \in waiting, f \notin Range(downloadQ')
               PROVE  \E k \in Jobs : job'[k].file = f /\ (job'[k].kind = "dl" \/ job'[k].pc = "push")
    BY <1>1 DEF WaitingIsServed
  <2>1. PICK k \in Jobs : job[k].file = f /\ (job[k].kind = "dl" \/ job[k].pc = "push")
    BY <1>5 DEF IInv, WaitingIsServed
  <2> QED
    BY <1>4, <1>5, <2>1
<1>9. DownloadsBounded'
  <2>1. Downloading' = Downloading
    BY <1>1, <1>3, <1>4 DEF Downloading
  <2> QED
    BY <1>1, <2>1 DEF IInv, DownloadsBounded
<1> QED
  BY <1>6, <1>7, <1>8, <1>9 DEF IInv

\* track_exist: the file is there, is waited for already, or is to be ordered.
LEMMA AddStep ==
    ASSUME IInv, NEW j \in Jobs, AddLooks(j) \/ AddChecks(j)
    PROVE  IInv'
<1>1. /\ job[j].pc \notin {"push", "free"} /\ job[j].kind = "add"
      /\ UNCHANGED <<waiting, downloadQ, running>> /\ UNCHANGED others
  BY DEF AddLooks, AddChecks, At, others
<1>2. OthersOK'
  BY <1>1, JobFacts DEF others, OthersOK
<1>3. CASE \E b \in BOOLEAN : job' = Deferred(j, "tail", b)
  <2>1. "tail" \in Kinds \ {"dl"} /\ job[j].pc # "free" /\ job[j].kind # "dl"
    BY <1>1 DEF Kinds
  <2>2. PICK t \in Tasks : job' = [job EXCEPT ![j] = t] /\ t.kind = "tail" /\ Proper(t)
    BY <1>3, <2>1, DeferredFacts
  <2> QED
    BY <1>1, <1>2, <2>1, <2>2, QuietStep
<1>4. CASE \E p \in {"check", "order"} : Goto(j, p)
  <2>1. {"check", "order"} \subseteq Steps \ {"free"}
    BY DEF Steps
  <2> QED
    BY <1>1, <1>2, <1>4, <2>1, GotoStep
<1> QED
  BY <1>3, <1>4 DEF AddLooks, AddChecks, Goto

\* The runs that end: a track is added, or played.
LEMMA EndStep ==
    ASSUME IInv, NEW j \in Jobs, TailAdds(j) \/ RedoAdds(j) \/ WorkerPlays(j)
    PROVE  IInv'
<1>1. /\ job[j].pc \notin {"push", "free"} /\ job[j].kind # "dl" /\ Finish(j)
      /\ UNCHANGED <<waiting, downloadQ, running>>
  BY DEF TailAdds, RedoAdds, WorkerPlays, At
<1>2. job[j].file \in Files /\ job[j].guild \in Guilds
  BY <1>1, JobFacts DEF Proper
<1>3. OthersOK'
  <2>1. CASE TailAdds(j) \/ RedoAdds(j)
    <3>1. queue' = [queue EXCEPT ![job[j].guild] = @ \cup {job[j].file}]
          /\ UNCHANGED <<disk, failed, holder, playing, requests, losses>>
      BY <2>1 DEF TailAdds, RedoAdds
    <3> QED
      BY <1>2, <3>1, JobFacts DEF OthersOK
  <2>2. CASE WorkerPlays(j)
    <3>1. 0 \in 0..Retries
      BY DEF Retries
    <3>2. failed' \in [Files -> 0..Retries] /\ playing' \in [Guilds -> Files \cup {None}]
          /\ holder' \in [Guilds -> Jobs \cup {None}]
      BY <1>2, <2>2, <3>1, JobFacts DEF WorkerPlays, OthersOK
    <3> QED
      BY <2>2, <3>2, JobFacts DEF WorkerPlays, OthersOK
  <2> QED
    BY <2>1, <2>2
<1> QED
  BY <1>1, <1>3, FinishStep

\* The worker counts the failures of the missing file.
LEMMA MissStep ==
    ASSUME IInv, NEW j \in Jobs, WorkerMisses(j)
    PROVE  IInv'
<1> DEFINE t == [job[j] EXCEPT !.pc = "drop", !.flag = job[j].file \in waiting,
                               !.seen = failed[job[j].file]]
<1>1. /\ At(j, "worker", "missing") /\ job' = [job EXCEPT ![j] = t]
      /\ UNCHANGED <<waiting, downloadQ, running>> /\ UNCHANGED others
  BY DEF WorkerMisses, others
<1>2. job[j] \in Tasks /\ job[j].file \in Files /\ job[j].guild \in Guilds
  BY <1>1, JobFacts DEF Proper, At
<1>3. failed[job[j].file] \in 0..Retries
  BY <1>2, JobFacts DEF OthersOK
<1>4. (job[j].file \in waiting) \in BOOLEAN
  OBVIOUS
<1>5. t \in Tasks /\ t.pc = "drop" /\ t.kind = job[j].kind /\ t.file = job[j].file
      /\ t.guild = job[j].guild
  BY <1>2, <1>3, <1>4 DEF Tasks, Steps
<1>6. OthersOK'
  BY <1>1, JobFacts DEF others, OthersOK
<1> HIDE DEF t
<1>7. Proper(t)
  BY <1>2, <1>5 DEF Proper
<1> QED
  BY <1>1, <1>5, <1>6, <1>7, QuietStep DEF At

\* The worker drops the track and may have it downloaded again.
LEMMA DropStep ==
    ASSUME IInv, NEW j \in Jobs, WorkerDrops(j)
    PROVE  IInv'
<1>1. /\ At(j, "worker", "drop")
      /\ Goto(j, "order") \/ Finish(j)
      /\ UNCHANGED <<waiting, downloadQ, running>>
      /\ UNCHANGED <<disk, playing, requests, losses>>
  BY DEF WorkerDrops
<1>2. job[j] \in Tasks /\ job[j].file \in Files /\ job[j].guild \in Guilds
  BY <1>1, JobFacts DEF Proper, At
<1>3. failed' \in [Files -> 0..Retries]
  <2>1. CASE GivesUp(j)
    BY <2>1, JobFacts DEF WorkerDrops, OthersOK
  <2>2. CASE ~GivesUp(j)
    <3>1. job[j].seen + 1 \in 0..Retries
      BY <1>2, <2>2 DEF GivesUp, Retries, Tasks
    <3> QED
      BY <1>2, <2>2, <3>1, JobFacts DEF WorkerDrops, OthersOK
  <2> QED
    BY <2>1, <2>2
<1>4. holder' \in [Guilds -> Jobs \cup {None}]
  BY <1>2, JobFacts DEF WorkerDrops, OthersOK
<1>5. queue' \in [Guilds -> SUBSET Files]
  BY <1>2, JobFacts DEF WorkerDrops, OthersOK
<1>6. OthersOK'
  BY <1>1, <1>3, <1>4, <1>5, JobFacts DEF OthersOK
<1>7. "order" \in Steps \ {"free"} /\ job[j].pc \notin {"push", "free"} /\ job[j].kind # "dl"
  BY <1>1 DEF Steps, At
<1> QED
  BY <1>1, <1>6, <1>7, GotoStep, FinishStep

\* A request or a marker makes a task.
LEMMA NewStep ==
    ASSUME IInv, NEW j \in Jobs, NEW g \in Guilds, NEW f \in Files, Request(j, g, f) \/ Marker(j, g, f)
    PROVE  IInv'
<1>1. /\ UNCHANGED <<waiting, downloadQ, running>>
      /\ \E kind \in {"add", "worker"} : Enqueue(j, kind, f, g)
  BY DEF Request, Marker
<1>2. {"add", "worker"} \subseteq Kinds \ {"dl"}
  BY DEF Kinds
<1>3. requests' \in 0..MaxRequests
  BY ConstantsAssumption, JobFacts DEF Request, Marker, OthersOK, ConstantsAssumption
<1>4. OthersOK'
  BY <1>3, JobFacts DEF Request, Marker, OthersOK
<1> QED
  BY <1>1, <1>2, <1>4, EnqueueStep

\* What changes no task, no wait and no download.
LEMMA WorldStep ==
    ASSUME IInv, UNCHANGED <<waiting, downloadQ, running, job>>, OthersOK'
    PROVE  IInv'
<1>1. TypeOK'
  BY DEF IInv, TypeOK, OthersOK
<1>2. HasFile' /\ WaitingIsServed'
  BY DEF IInv, HasFile, Proper, WaitingIsServed
<1>3. Downloading' = Downloading
  BY DEF Downloading
<1> QED
  BY <1>1, <1>2, <1>3 DEF IInv, DownloadsBounded

\* A queued download becomes a task.
LEMMA StartStep ==
    ASSUME IInv, NEW j \in Jobs, StartDownload(j)
    PROVE  IInv'
<1> DEFINE f0 == Head(downloadQ)
           t  == Task("dl", f0, None, "queued", FALSE)
<1>1. /\ running < MaxConcurrent /\ downloadQ # <<>> /\ running' = running + 1
      /\ downloadQ' = Tail(downloadQ) /\ job[j] = NoJob /\ job' = [job EXCEPT ![j] = t]
      /\ waiting' = waiting /\ UNCHANGED others
  BY DEF StartDownload, Enqueue, others
<1>2. /\ downloadQ \in Seq(Files) /\ f0 \in Files /\ Tail(downloadQ) \in Seq(Files)
      /\ \A f \in Range(downloadQ) : f = f0 \/ f \in Range(Tail(downloadQ))
  <2> DEFINE q == Tail(downloadQ)
  <2>1. downloadQ \in Seq(Files)
    BY DEF IInv, TypeOK
  <2>2. /\ f0 \in Files /\ q \in Seq(Files) /\ Len(q) = Len(downloadQ) - 1
        /\ \A i \in 1..Len(q) : q[i] = downloadQ[i + 1]
    BY <1>1, <2>1, HeadTailProperties
  <2>3. DOMAIN q = 1..Len(q) /\ DOMAIN downloadQ = 1..Len(downloadQ) /\ Len(downloadQ) \in Nat
    BY <2>1, <2>2, LenProperties
  <2>4. f0 = downloadQ[1]
    OBVIOUS
  <2> HIDE DEF q, f0
  <2>5. ASSUME NEW f \in Range(downloadQ)
        PROVE  f = f0 \/ f \in Range(q)
    <3>1. PICK i \in 1..Len(downloadQ) : downloadQ[i] = f
      BY <2>3 DEF Range
    <3>2. CASE i = 1
      BY <2>4, <3>1, <3>2
    <3>3. CASE i # 1
      <4>1. i - 1 \in 1..Len(q) /\ q[i - 1] = downloadQ[i - 1 + 1] /\ i - 1 + 1 = i
        BY <2>2, <2>3, <3>3
      <4> QED
        BY <2>3, <3>1, <4>1 DEF Range
    <3> QED
      BY <3>2, <3>3
  <2> QED
    BY <2>1, <2>2, <2>5 DEF q
<1> HIDE DEF f0
<1>3. t \in Tasks /\ t.kind = "dl" /\ t.file = f0 /\ Proper(t)
  BY <1>2 DEF Task, Tasks, Kinds, Steps, Retries, Proper
<1> HIDE DEF t
<1>4. job \in [Jobs -> Tasks] /\ \A k \in Jobs : job'[k] = IF k = j THEN t ELSE job[k]
  BY <1>1, JobFacts
<1>5. job[j].kind # "dl" /\ job[j].pc # "push"
  BY <1>1, NoJobFacts DEF None
<1>6. TypeOK'
  BY <1>1, <1>2, <1>3, <1>4 DEF IInv, TypeOK, others
<1>7. HasFile'
  BY <1>3, <1>4 DEF IInv, HasFile
<1>8. WaitingIsServed'
  <2> SUFFICES ASSUME NEW f \in waiting, f \notin Range(downloadQ')
               PROVE  \E k \in Jobs : job'[k].file = f /\ (job'[k].kind = "dl" \/ job'[k].pc = "push")
    BY <1>1 DEF WaitingIsServed
  <2>1. CASE f = f0
    BY <1>3, <1>4, <2>1
  <2>2. CASE \E k \in Jobs : job[k].file = f /\ (job[k].kind = "dl" \/ job[k].pc = "push")
    BY <1>4, <1>5, <2>2
  <2> QED
    BY <1>1, <1>2, <2>1, <2>2 DEF IInv, WaitingIsServed
<1>9. DownloadsBounded'
  <2>1. Downloading' = Downloading \cup {j} /\ j \notin Downloading
    BY <1>3, <1>4, <1>5 DEF Downloading
  <2>2. IsFiniteSet(Downloading)
    BY ConstantsAssumption, FS_Subset DEF ConstantsAssumption, Downloading
  <2>3. Cardinality(Downloading') = Cardinality(Downloading) + 1
    BY <2>1, <2>2, FS_AddElement
  <2> QED
    BY <1>1, <2>3, ConstantsAssumption DEF IInv, TypeOK, DownloadsBounded, ConstantsAssumption
<1> QED
  BY <1>6, <1>7, <1>8, <1>9 DEF IInv

\* A download ends, and with it the wait for its file.
LEMMA EndDownloadStep ==
    ASSUME IInv, NEW j \in Jobs, DownloadEnds(j)
    PROVE  IInv'
<1>1. /\ At(j, "dl", "erase") /\ waiting' = waiting \ {job[j].file} /\ running' = running - 1
      /\ job' = [job EXCEPT ![j] = NoJob] /\ UNCHANGED downloadQ /\ UNCHANGED others
  BY DEF DownloadEnds, Finish, others
<1>2. job \in [Jobs -> Tasks] /\ \A k \in Jobs : job'[k] = IF k = j THEN NoJob ELSE job[k]
  BY <1>1, JobFacts
<1>3. running' = Cardinality(Downloading') /\ running' \in Nat /\ running' <= MaxConcurrent
  <2>1. Downloading' = Downloading \ {j} /\ j \in Downloading
    BY <1>1, <1>2, NoJobFacts DEF Downloading, At, None
  <2>2. IsFiniteSet(Downloading)
    BY ConstantsAssumption, FS_Subset DEF ConstantsAssumption, Downloading
  <2>3. Cardinality(Downloading') = Cardinality(Downloading) - 1 /\ IsFiniteSet(Downloading')
    BY <2>1, <2>2, FS_RemoveElement
  <2>4. Cardinality(Downloading') \in Nat
    BY <2>3, FS_CardinalityType
  <2> QED
    BY <1>1, <2>3, <2>4, ConstantsAssumption DEF IInv, TypeOK, DownloadsBounded, ConstantsAssumption
<1>4. TypeOK'
  BY <1>1, <1>2, <1>3, NoJobFacts DEF IInv, TypeOK, others
<1>5. HasFile'
  BY <1>2, NoJobFacts DEF IInv, HasFile
<1>6. WaitingIsServed'
  <2> SUFFICES ASSUME NEW f \in waiting \ {job[j].file}, f \notin Range(downloadQ)
               PROVE  \E k \in Jobs : job'[k].file = f /\ (job'[k].kind = "dl" \/ job'[k].pc = "push")
    BY <1>1 DEF WaitingIsServed
  <2>1. PICK k \in Jobs : job[k].file = f /\ (job[k].kind = "dl" \/ job[k].pc = "push")
    BY DEF IInv, WaitingIsServed
  <2> QED
    BY <1>2, <2>1
<1> QED
  BY <1>3, <1>4, <1>5, <1>6 DEF IInv, DownloadsBounded

----------------------------------------------------------------------------
\* The bot starts with no task and no wait.
LEMMA InitIInv == Init => IInv
<1> SUFFICES ASSUME Init PROVE IInv
  OBVIOUS
<1>1. TypeOK
  BY NoJobFacts, ConstantsAssumption DEF Init, TypeOK, ConstantsAssumption, Retries
<1>2. \A j \in Jobs : job[j] = NoJob
  BY DEF Init
<1>3. HasFile /\ WaitingIsServed
  BY <1>2, NoJobFacts DEF Init, HasFile, WaitingIsServed
<1>4. Downloading = {}
  BY <1>2, NoJobFacts DEF Downloading, None
<1>5. DownloadsBounded
  BY <1>4, FS_EmptySet, ConstantsAssumption DEF Init, DownloadsBounded, ConstantsAssumption
<1> QED
  BY <1>1, <1>3, <1>5 DEF IInv

\* Every step keeps the invariant.
LEMMA NextIInv == IInv /\ [Next]_vars => IInv'
<1> SUFFICES ASSUME IInv, [Next]_vars PROVE IInv'
  OBVIOUS
<1>1. ASSUME NEW j \in Jobs, Step(j) PROVE IInv'
  BY <1>1, OnStep, AnnounceStep, PushStep, AddStep, EndStep, MissStep, DropStep, EndDownloadStep
     DEF Step, Work, Locks
<1>2. ASSUME NEW j \in Jobs, StartDownload(j) PROVE IInv'
  BY <1>2, StartStep
<1>3. ASSUME NEW j \in Jobs, NEW g \in Guilds, NEW f \in Files, Request(j, g, f) \/ Marker(j, g, f)
      PROVE  IInv'
  BY <1>3, NewStep
<1>4. ASSUME NEW g \in Guilds, TrackEnds(g) PROVE IInv'
  <2>1. OthersOK'
    BY <1>4 DEF TrackEnds, IInv, TypeOK, OthersOK
  <2> QED
    BY <1>4, <2>1, WorldStep DEF TrackEnds
<1>5. ASSUME NEW f \in Files, Lose(f) PROVE IInv'
  <2>1. OthersOK'
    BY <1>5, ConstantsAssumption DEF Lose, IInv, TypeOK, OthersOK, ConstantsAssumption
  <2> QED
    BY <1>5, <2>1, WorldStep DEF Lose
<1>6. CASE UNCHANGED vars
  <2>1. UNCHANGED <<waiting, downloadQ, running, job>> /\ OthersOK'
    BY <1>6 DEF vars, IInv, TypeOK, OthersOK
  <2> QED
    BY <2>1, WorldStep
<1> QED
  BY <1>1, <1>2, <1>3, <1>4, <1>5, <1>6 DEF Next

\* The inductive invariant of the downloads and the tasks that wait for them.
THEOREM Invariant == Spec => []IInv
<1> QED
  BY InitIInv, NextIInv, PTL DEF Spec

\* Every variable keeps its type; no failure is counted past the retries.
THEOREM TypeCorrect == Spec => []TypeOK
<1>1. IInv => TypeOK
  BY DEF IInv
<1> QED
  BY <1>1, Invariant, PTL

\* wait_for_download: whoever waits for a file waits for a download that is in
\* the queue, a task, or about to be pushed, however the threads interleave.
THEOREM WaitingCorrect == Spec => []WaitingIsServed
<1>1. IInv => WaitingIsServed
  BY DEF IInv
<1> QED
  BY <1>1, Invariant, PTL

\* running_download counts the download tasks and keeps to the limit.
THEOREM BoundedCorrect == Spec => []DownloadsBounded
<1>1. IInv => DownloadsBounded
  BY DEF IInv
<1> QED
  BY <1>1, Invariant, PTL

----------------------------------------------------------------------------
(***************************************************************************)
(* What may stop all of them: a pool whose threads all wait.               *)
(***************************************************************************)

\* Where a worker holds its player's mutex.
Locked == {"wait", "look", "play", "missing", "drop", "order", "push"}

\* The steps of each kind of task.
StepsOf(kind) ==
    CASE kind = "add"    -> {"queued", "begin", "check", "order", "push"}
      [] kind = "tail"   -> {"deferred", "queued", "begin"}
      [] kind = "worker" -> {"queued", "begin"} \cup Locked
      [] kind = "redo"   -> {"deferred", "queued", "begin", "lock"}
      [] kind = "dl"     -> {"queued", "begin", "fetch", "erase"}
      [] OTHER           -> {"free"}

InPlace == \A j \in Jobs : job[j].pc \in StepsOf(job[j].kind)

\* Who holds a player's mutex is a worker of that player, and never waits for one.
HolderWorks ==
    \A g \in Guilds : holder[g] # None =>
        /\ holder[g] \in Jobs
        /\ job[holder[g]].kind = "worker"
        /\ job[holder[g]].guild = g
        /\ job[holder[g]].pc \in Locked

\* There are no more threads than the pool has.
ThreadsBounded == Cardinality(OnThread) <= PoolSize

PoolInv == IInv /\ InPlace /\ HolderWorks /\ ThreadsBounded

\* The guards of a task's steps.
Moves(j) ==
    \/ job[j].pc = "queued" /\ Cardinality(OnThread) < PoolSize
    \/ job[j].pc = "deferred" /\ job[j].file \notin waiting
    \/ job[j].kind = "add" /\ job[j].pc \in {"begin", "check", "order", "push"}
    \/ job[j].kind = "dl" /\ job[j].pc \in {"begin", "fetch", "erase"}
    \/ At(j, "tail", "begin") /\ (job[j].flag => job[j].file \notin waiting)
    \/ At(j, "redo", "begin") /\ job[j].file \notin waiting
    \/ At(j, "redo", "lock") /\ holder[job[j].guild] = None
    \/ At(j, "worker", "begin") /\ holder[job[j].guild] = None
    \/ At(j, "worker", "wait") /\ job[j].file \notin waiting
    \/ job[j].kind = "worker" /\ job[j].pc \in Locked \ {"wait"}

\* The guard of check_download_queue.
Starts == running < MaxConcurrent /\ downloadQ # <<>>

\* If nobody moves although there are tasks, every thread of the pool is taken, and
\* a download waits for one: waits end unless the pool is full of them.
OnlyFullPoolStops ==
    /\ \E j \in Jobs : job[j].pc # "free"
    /\ \A j \in Jobs : ~Moves(j)
    /\ ~Starts
    => /\ Cardinality(OnThread) = PoolSize
       /\ \E j \in Jobs : At(j, "dl", "queued")

----------------------------------------------------------------------------
\* The step that each kind of task takes after its first ones.
LEMMA FirstSteps ==
    \A kind \in Kinds : /\ "queued" \in StepsOf(kind) => "begin" \in StepsOf(kind)
                        /\ "deferred" \in StepsOf(kind) => "queued" \in StepsOf(kind)
  BY DEF Kinds, StepsOf, Locked, None

\* The task of a job that goes to another place.
LEMMA GotoTask ==
    ASSUME PoolInv, NEW j \in Jobs, NEW p \in Steps, Goto(j, p)
    PROVE  \E t \in Tasks : /\ job' = [job EXCEPT ![j] = t]
                            /\ t.pc = p /\ t.kind = job[j].kind /\ t.guild = job[j].guild
<1>1. job[j] \in Tasks
  BY JobFacts DEF PoolInv
<1> QED
  BY <1>1, TaskFields DEF Goto

\* The task of a job that is deferred.
LEMMA DeferredTask ==
    ASSUME PoolInv, NEW j \in Jobs, NEW kind \in Kinds \ {"dl"}, NEW b \in BOOLEAN,
           job[j].pc # "free", job[j].kind # "dl", job' = Deferred(j, kind, b)
    PROVE  \E t \in Tasks : /\ job' = [job EXCEPT ![j] = t]
                            /\ t.pc = "deferred" /\ t.kind = kind
<1>1. /\ job[j].file \in Files /\ job[j].guild \in Guilds \cup {None}
      /\ kind \in Kinds /\ "deferred" \in Steps
  BY JobFacts DEF PoolInv, Proper, Steps
<1> DEFINE t == Task(kind, job[j].file, job[j].guild, "deferred", b)
<1>2. t \in Tasks /\ t.kind = kind /\ t.pc = "deferred"
  BY <1>1 DEF Task, Tasks, Retries
<1>3. job' = [job EXCEPT ![j] = t]
  BY DEF Deferred
<1> HIDE DEF t
<1> QED
  BY <1>2, <1>3

\* A job that changes its task stays among the steps of its kind.
LEMMA PlaceKept ==
    ASSUME PoolInv, NEW j \in Jobs, NEW t \in Tasks, job' = [job EXCEPT ![j] = t],
           t.pc \in StepsOf(t.kind)
    PROVE  InPlace'
<1>1. \A k \in Jobs : job'[k] = IF k = j THEN t ELSE job[k]
  BY DEF PoolInv, IInv, TypeOK
<1> QED
  BY <1>1 DEF PoolInv, InPlace, StepsOf, Locked

\* It takes no thread that it did not have.
LEMMA ThreadsKept ==
    ASSUME PoolInv, NEW j \in Jobs, NEW t \in Tasks, job' = [job EXCEPT ![j] = t],
           t.pc \in {"free", "deferred", "queued"} \/ j \in OnThread
    PROVE  ThreadsBounded'
<1>1. \A k \in Jobs : job'[k] = IF k = j THEN t ELSE job[k]
  BY DEF PoolInv, IInv, TypeOK
<1>2. OnThread' \subseteq OnThread
  BY <1>1 DEF OnThread
<1>3. IsFiniteSet(OnThread)
  BY ConstantsAssumption, FS_Subset DEF ConstantsAssumption, OnThread
<1>4. /\ IsFiniteSet(OnThread')
      /\ Cardinality(OnThread') <= Cardinality(OnThread)
  BY <1>2, <1>3, FS_Subset
<1>5. Cardinality(OnThread') \in Nat /\ Cardinality(OnThread) \in Nat
  BY <1>3, <1>4, FS_CardinalityType
<1> QED
  BY <1>4, <1>5, ConstantsAssumption DEF PoolInv, ThreadsBounded, ConstantsAssumption

\* A step of a job that holds no mutex.
LEMMA OutsideStep ==
    ASSUME PoolInv, IInv', NEW j \in Jobs, NEW t \in Tasks, job' = [job EXCEPT ![j] = t],
           t.pc \in StepsOf(t.kind),
           t.pc \in {"free", "deferred", "queued"} \/ j \in OnThread,
           job[j].kind # "worker" \/ job[j].pc \notin Locked,
           UNCHANGED holder
    PROVE  PoolInv'
<1>1. \A k \in Jobs : job'[k] = IF k = j THEN t ELSE job[k]
  BY DEF PoolInv, IInv, TypeOK
<1>2. \A g \in Guilds : holder[g] # None => holder[g] # j
  BY DEF PoolInv, HolderWorks
<1>3. HolderWorks'
  BY <1>1, <1>2 DEF PoolInv, HolderWorks, Locked
<1> QED
  BY <1>3, PlaceKept, ThreadsKept DEF PoolInv

\* A step of a worker that keeps the mutex.
LEMMA InsideStep ==
    ASSUME PoolInv, IInv', NEW j \in Jobs, NEW p \in Locked, NEW t \in Tasks,
           job' = [job EXCEPT ![j] = t],
           t.pc = p, t.kind = "worker", t.guild = job[j].guild, j \in OnThread,
           UNCHANGED holder
    PROVE  PoolInv'
<1>1. \A k \in Jobs : job'[k] = IF k = j THEN t ELSE job[k]
  BY DEF PoolInv, IInv, TypeOK
<1>2. HolderWorks'
  BY <1>1 DEF PoolInv, HolderWorks, Locked
<1>3. t.pc \in StepsOf(t.kind)
  BY DEF StepsOf, Locked
<1> QED
  BY <1>2, <1>3, PlaceKept, ThreadsKept DEF PoolInv

\* A step of a worker that gives the mutex back.
LEMMA ReleaseStep ==
    ASSUME PoolInv, IInv', NEW j \in Jobs, NEW t \in Tasks, job' = [job EXCEPT ![j] = t],
           t.pc \in StepsOf(t.kind), t.pc \in {"free", "deferred"},
           holder' = [holder EXCEPT ![job[j].guild] = None]
    PROVE  PoolInv'
<1>1. /\ \A k \in Jobs : job'[k] = IF k = j THEN t ELSE job[k]
      /\ holder \in [Guilds -> Jobs \cup {None}]
  BY DEF PoolInv, IInv, TypeOK
<1>2. ASSUME NEW g \in Guilds, holder'[g] # None
      PROVE  holder'[g] = holder[g] /\ holder[g] # j
  BY <1>1, <1>2 DEF PoolInv, HolderWorks
<1>3. HolderWorks'
  BY <1>1, <1>2 DEF PoolInv, HolderWorks, Locked
<1> QED
  BY <1>3, PlaceKept, ThreadsKept DEF PoolInv

\* A thread takes a task: there was one to spare.
LEMMA BeginPool ==
    ASSUME PoolInv, IInv', NEW j \in Jobs, Begin(j)
    PROVE  PoolInv'
<1>1. /\ job[j].pc = "queued" /\ Cardinality(OnThread) < PoolSize /\ Goto(j, "begin")
      /\ UNCHANGED holder /\ "begin" \in Steps
  BY DEF Begin, Steps
<1>2. PICK t \in Tasks : /\ job' = [job EXCEPT ![j] = t]
                         /\ t.pc = "begin" /\ t.kind = job[j].kind /\ t.guild = job[j].guild
  BY <1>1, GotoTask
<1>3. \A k \in Jobs : job'[k] = IF k = j THEN t ELSE job[k]
  BY <1>2 DEF PoolInv, IInv, TypeOK
<1>4. InPlace'
  <2>1. t.kind \in Kinds
    BY DEF Tasks
  <2>2. "queued" \in StepsOf(t.kind)
    BY <1>1, <1>2 DEF PoolInv, InPlace
  <2>3. t.pc \in StepsOf(t.kind)
    BY <1>2, <2>1, <2>2, FirstSteps
  <2> QED
    BY <1>2, <2>3, PlaceKept
<1>5. HolderWorks'
  <2>1. job[j].pc \notin Locked
    BY <1>1 DEF Locked
  <2>2. \A g \in Guilds : holder[g] # None => holder[g] # j
    BY <2>1 DEF PoolInv, HolderWorks
  <2> QED
    BY <1>1, <1>3, <2>2 DEF PoolInv, HolderWorks, Locked
<1>6. ThreadsBounded'
  <2>1. OnThread' = OnThread \cup {j} /\ j \notin OnThread
    BY <1>1, <1>2, <1>3 DEF OnThread
  <2>2. IsFiniteSet(OnThread)
    BY ConstantsAssumption, FS_Subset DEF ConstantsAssumption, OnThread
  <2>3. Cardinality(OnThread') = Cardinality(OnThread) + 1 /\ Cardinality(OnThread) \in Nat
    BY <2>1, <2>2, FS_AddElement, FS_CardinalityType
  <2> QED
    BY <1>1, <2>3, ConstantsAssumption DEF ThreadsBounded, ConstantsAssumption
<1> QED
  BY <1>4, <1>5, <1>6 DEF PoolInv

\* A job that enters the pool's queue, or is let go on.
LEMMA QueuePool ==
    ASSUME PoolInv, IInv', NEW j \in Jobs, UNCHANGED holder,
           \/ Unblock(j)
           \/ \E kind \in {"add", "worker", "dl"}, f \in Files, g \in Guilds \cup {None} :
                  Enqueue(j, kind, f, g)
    PROVE  PoolInv'
<1>1. "queued" \in Steps /\ "queued" \notin Locked /\ "free" \notin Locked /\ "deferred" \notin Locked
  BY DEF Steps, Locked
<1>2. CASE Unblock(j)
  <2>1. job[j].pc = "deferred" /\ Goto(j, "queued")
    BY <1>2 DEF Unblock
  <2>2. PICK t \in Tasks : job' = [job EXCEPT ![j] = t] /\ t.pc = "queued" /\ t.kind = job[j].kind
    BY <1>1, <2>1, GotoTask
  <2>3. t.kind \in Kinds /\ "deferred" \in StepsOf(t.kind)
    BY <2>1, <2>2 DEF PoolInv, InPlace, Tasks
  <2>4. t.pc \in StepsOf(t.kind)
    BY <2>2, <2>3, FirstSteps
  <2> QED
    BY <1>1, <2>1, <2>2, <2>4, OutsideStep
<1>3. ASSUME NEW kind \in {"add", "worker", "dl"}, NEW f \in Files, NEW g \in Guilds \cup {None},
             Enqueue(j, kind, f, g)
      PROVE  PoolInv'
  <2> DEFINE t == Task(kind, f, g, "queued", FALSE)
  <2>1. kind \in Kinds /\ "queued" \in StepsOf(kind)
    BY DEF Kinds, StepsOf
  <2>2. t \in Tasks /\ t.kind = kind /\ t.pc = "queued"
    BY <1>1, <2>1 DEF Task, Tasks, Retries
  <2>3. job[j].pc = "free" /\ job' = [job EXCEPT ![j] = t]
    BY <1>3, NoJobFacts DEF Enqueue
  <2> HIDE DEF t
  <2> QED
    BY <1>1, <2>1, <2>2, <2>3, OutsideStep
<1> QED
  BY <1>2, <1>3

\* A download, a request or a deferred task goes on.
LEMMA OtherPool ==
    ASSUME PoolInv, IInv', NEW j \in Jobs,
           \/ DownloadLooks(j) \/ DownloadFetches(j) \/ AddLooks(j) \/ AddChecks(j)
           \/ AddOrders(j) \/ RedoWaits(j)
    PROVE  PoolInv'
<1>1. /\ UNCHANGED holder /\ job[j].kind \in {"dl", "add", "redo"}
      /\ job[j].pc \in {"begin", "fetch", "check", "order"}
  BY DEF DownloadLooks, DownloadFetches, AddLooks, AddChecks, AddOrders, Announce, RedoWaits, At
<1>2. j \in OnThread /\ job[j].kind # "worker"
  BY <1>1 DEF OnThread
<1>3. CASE \E b \in BOOLEAN : job[j].kind = "add" /\ job' = Deferred(j, "tail", b)
  <2>1. "tail" \in Kinds \ {"dl"} /\ "deferred" \in StepsOf("tail")
    BY DEF Kinds, StepsOf
  <2>2. PICK t \in Tasks : job' = [job EXCEPT ![j] = t] /\ t.pc = "deferred" /\ t.kind = "tail"
    BY <1>1, <1>3, <2>1, DeferredTask
  <2> QED
    BY <1>1, <1>2, <2>1, <2>2, OutsideStep
<1>4. CASE \E p \in {"fetch", "erase", "check", "order", "push", "lock"} :
              Goto(j, p) /\ p \in StepsOf(job[j].kind)
  <2>1. PICK p \in {"fetch", "erase", "check", "order", "push", "lock"} :
            Goto(j, p) /\ p \in StepsOf(job[j].kind)
    BY <1>4
  <2>2. p \in Steps
    BY DEF Steps
  <2>3. PICK t \in Tasks : job' = [job EXCEPT ![j] = t] /\ t.pc = p /\ t.kind = job[j].kind
    BY <2>1, <2>2, GotoTask
  <2>4. t.pc \in StepsOf(t.kind)
    BY <2>1, <2>3
  <2> QED
    BY <1>1, <1>2, <2>3, <2>4, OutsideStep
<1>5. CASE DownloadLooks(j) \/ DownloadFetches(j)
  <2>1. job[j].kind = "dl" /\ \E p \in {"fetch", "erase"} : Goto(j, p)
    BY <1>5 DEF DownloadLooks, DownloadFetches, At
  <2>2. {"fetch", "erase"} \subseteq StepsOf("dl")
    BY DEF StepsOf
  <2> QED
    BY <1>4, <2>1, <2>2
<1>6. CASE AddLooks(j) \/ AddChecks(j)
  <2>1. /\ job[j].kind = "add"
        /\ \/ \E b \in BOOLEAN : job' = Deferred(j, "tail", b)
           \/ \E p \in {"check", "order"} : Goto(j, p)
    BY <1>6 DEF AddLooks, AddChecks, At, Goto
  <2>2. {"check", "order"} \subseteq StepsOf("add")
    BY DEF StepsOf
  <2> QED
    BY <1>3, <1>4, <2>1, <2>2
<1>7. CASE AddOrders(j)
  BY <1>4, <1>7 DEF AddOrders, Announce, At, StepsOf
<1>8. CASE RedoWaits(j)
  BY <1>4, <1>8 DEF RedoWaits, At, StepsOf
<1> QED
  BY <1>5, <1>6, <1>7, <1>8

\* A job that ends or is deferred without a mutex.
LEMMA EndPool ==
    ASSUME PoolInv, IInv', NEW j \in Jobs,
           DownloadEnds(j) \/ AddPushes(j) \/ TailAdds(j) \/ RedoAdds(j)
    PROVE  PoolInv'
<1>1. /\ UNCHANGED holder /\ job[j].kind # "worker"
  BY DEF DownloadEnds, AddPushes, TailAdds, RedoAdds, At
<1>2. CASE Finish(j)
  <2>1. NoJob.pc \in StepsOf(NoJob.kind)
    BY NoJobFacts DEF StepsOf, None
  <2> QED
    BY <1>1, <1>2, <2>1, NoJobFacts, OutsideStep DEF Finish
<1>3. CASE AddPushes(j)
  <2>1. /\ "tail" \in Kinds \ {"dl"} /\ "deferred" \in StepsOf("tail")
    BY DEF Kinds, StepsOf
  <2>2. /\ job[j].pc # "free" /\ job[j].kind # "dl"
        /\ \E b \in BOOLEAN : job' = Deferred(j, "tail", b)
    BY <1>3 DEF AddPushes, At
  <2>3. PICK t \in Tasks : job' = [job EXCEPT ![j] = t] /\ t.pc = "deferred" /\ t.kind = "tail"
    BY <2>1, <2>2, DeferredTask
  <2> QED
    BY <1>1, <2>1, <2>3, OutsideStep
<1> QED
  BY <1>2, <1>3 DEF DownloadEnds, TailAdds, RedoAdds

\* A worker goes on with the mutex, or takes it.
LEMMA WorkerPool ==
    ASSUME PoolInv, IInv', NEW j \in Jobs,
           \/ WorkerLocks(j) \/ WorkerWaits(j) \/ WorkerLooks(j) \/ WorkerMisses(j)
           \/ WorkerDrops(j) /\ UNCHANGED holder /\ Goto(j, "order")
           \/ WorkerOrders(j)
    PROVE  PoolInv'
<1>1. job[j].kind = "worker" /\ job[j].pc \notin {"free", "deferred", "queued"}
  BY DEF WorkerLocks, WorkerWaits, WorkerLooks, WorkerMisses, WorkerDrops, WorkerOrders, At
<1>2. j \in OnThread /\ Locked \subseteq Steps
  BY <1>1 DEF OnThread, Locked, Steps
<1>3. CASE UNCHANGED holder /\ \E p \in Locked : Goto(j, p)
  <2>1. PICK p \in Locked : Goto(j, p)
    BY <1>3
  <2>2. PICK t \in Tasks : /\ job' = [job EXCEPT ![j] = t] /\ t.pc = p /\ t.kind = job[j].kind
                           /\ t.guild = job[j].guild
    BY <1>2, <2>1, GotoTask
  <2> QED
    BY <1>1, <1>2, <1>3, <2>2, InsideStep
<1>4. CASE WorkerMisses(j)
  <2> DEFINE t == [job[j] EXCEPT !.pc = "drop", !.flag = job[j].file \in waiting,
                                 !.seen = failed[job[j].file]]
  <2>1. job' = [job EXCEPT ![j] = t] /\ UNCHANGED holder /\ "drop" \in Locked
    BY <1>4 DEF WorkerMisses, Locked
  <2>2. job[j] \in Tasks /\ job[j].file \in Files
    BY <1>1, JobFacts DEF PoolInv, Proper
  <2>3. failed[job[j].file] \in 0..Retries
    BY <2>2, JobFacts DEF PoolInv, OthersOK
  <2>4. (job[j].file \in waiting) \in BOOLEAN
    OBVIOUS
  <2>5. t \in Tasks /\ t.pc = "drop" /\ t.kind = job[j].kind /\ t.guild = job[j].guild
    BY <2>2, <2>3, <2>4 DEF Tasks, Steps
  <2> HIDE DEF t
  <2> QED
    BY <1>1, <1>2, <2>1, <2>5, InsideStep
<1>5. CASE WorkerLocks(j)
  <2>1. /\ holder[job[j].guild] = None /\ holder' = [holder EXCEPT ![job[j].guild] = j]
        /\ Goto(j, "wait") /\ job[j].pc = "begin"
    BY <1>5 DEF WorkerLocks, At
  <2>2. "wait" \in Locked /\ "begin" \notin Locked
    BY DEF Locked
  <2>3. PICK t \in Tasks : /\ job' = [job EXCEPT ![j] = t] /\ t.pc = "wait" /\ t.kind = "worker"
                           /\ t.guild = job[j].guild
    BY <1>1, <1>2, <2>1, <2>2, GotoTask
  <2>4. /\ \A k \in Jobs : job'[k] = IF k = j THEN t ELSE job[k]
        /\ holder \in [Guilds -> Jobs \cup {None}]
    BY <2>3 DEF PoolInv, IInv, TypeOK
  <2>5. HolderWorks'
    <3> SUFFICES ASSUME NEW g \in Guilds, holder'[g] # None
                 PROVE  /\ holder'[g] \in Jobs
                        /\ job'[holder'[g]].kind = "worker"
                        /\ job'[holder'[g]].guild = g
                        /\ job'[holder'[g]].pc \in Locked
      BY DEF HolderWorks, Locked
    <3>1. CASE g = job[j].guild
      BY <2>1, <2>2, <2>3, <2>4, <3>1
    <3>2. CASE g # job[j].guild
      <4>1. holder'[g] = holder[g]
        BY <2>1, <2>4, <3>2
      <4>2. /\ holder[g] \in Jobs /\ job[holder[g]].kind = "worker"
            /\ job[holder[g]].guild = g /\ job[holder[g]].pc \in Locked
        BY <4>1 DEF PoolInv, HolderWorks
      <4> QED
        BY <2>4, <3>2, <4>1, <4>2
    <3> QED
      BY <3>1, <3>2
  <2>6. t.pc \in StepsOf(t.kind)
    BY <2>3 DEF StepsOf, Locked
  <2> QED
    BY <1>2, <2>3, <2>5, <2>6, PlaceKept, ThreadsKept DEF PoolInv
<1> QED
  BY <1>3, <1>4, <1>5
     DEF WorkerWaits, WorkerLooks, WorkerDrops, WorkerOrders, Announce, Locked

\* A worker ends, or is deferred, and gives the mutex back.
LEMMA LeavePool ==
    ASSUME PoolInv, IInv', NEW j \in Jobs,
           \/ WorkerPlays(j) \/ WorkerPushes(j)
           \/ WorkerDrops(j) /\ holder' = [holder EXCEPT ![job[j].guild] = None] /\ Finish(j)
    PROVE  PoolInv'
<1>1. holder' = [holder EXCEPT ![job[j].guild] = None]
  BY DEF WorkerPlays, WorkerPushes
<1>2. CASE Finish(j)
  <2>1. NoJob.pc \in StepsOf(NoJob.kind)
    BY NoJobFacts DEF StepsOf, None
  <2> QED
    BY <1>1, <1>2, <2>1, NoJobFacts, ReleaseStep DEF Finish
<1>3. CASE WorkerPushes(j)
  <2>1. /\ "redo" \in Kinds \ {"dl"} /\ "deferred" \in StepsOf("redo")
    BY DEF Kinds, StepsOf
  <2>2. /\ job[j].pc # "free" /\ job[j].kind # "dl"
        /\ \E b \in BOOLEAN : job' = Deferred(j, "redo", b)
    BY <1>3 DEF WorkerPushes, At
  <2>3. PICK t \in Tasks : job' = [job EXCEPT ![j] = t] /\ t.pc = "deferred" /\ t.kind = "redo"
    BY <2>1, <2>2, DeferredTask
  <2> QED
    BY <1>1, <2>1, <2>3, ReleaseStep
<1> QED
  BY <1>2, <1>3 DEF WorkerPlays

\* The bot starts with an empty pool and no mutex held.
LEMMA InitPool == Init => PoolInv
<1> SUFFICES ASSUME Init PROVE PoolInv
  OBVIOUS
<1>1. \A j \in Jobs : job[j] = NoJob
  BY DEF Init
<1>2. InPlace
  BY <1>1, NoJobFacts DEF InPlace, StepsOf, None
<1>3. HolderWorks
  BY DEF Init, HolderWorks
<1>4. OnThread = {}
  BY <1>1, NoJobFacts DEF OnThread
<1>5. ThreadsBounded
  BY <1>4, FS_EmptySet, ConstantsAssumption DEF ThreadsBounded, ConstantsAssumption
<1> QED
  BY <1>2, <1>3, <1>5, InitIInv DEF PoolInv

\* Every step keeps the invariant of the pool.
LEMMA NextPool == PoolInv /\ [Next]_vars => PoolInv'
<1> SUFFICES ASSUME PoolInv, [Next]_vars PROVE PoolInv'
  OBVIOUS
<1>1. IInv'
  BY NextIInv DEF PoolInv
<1>2. ASSUME NEW j \in Jobs, Step(j) PROVE PoolInv'
  <2>1. CASE Begin(j)
    BY <1>1, <2>1, BeginPool
  <2>2. CASE Unblock(j)
    BY <1>1, <2>2, QueuePool DEF Unblock
  <2>3. CASE WorkerDrops(j)
    <3>1. \/ UNCHANGED holder /\ Goto(j, "order")
          \/ holder' = [holder EXCEPT ![job[j].guild] = None] /\ Finish(j)
      BY <2>3 DEF WorkerDrops
    <3> QED
      BY <1>1, <2>3, <3>1, WorkerPool, LeavePool
  <2> QED
    BY <1>1, <1>2, <2>1, <2>2, <2>3, OtherPool, EndPool, WorkerPool, LeavePool
       DEF Step, Work, Locks
<1>3. ASSUME NEW j \in Jobs, StartDownload(j) PROVE PoolInv'
  <2>1. Head(downloadQ) \in Files
    <3>1. downloadQ \in Seq(Files) /\ downloadQ # <<>>
      BY <1>3 DEF StartDownload, PoolInv, IInv, TypeOK
    <3> QED
      BY <3>1, HeadTailProperties
  <2>2. UNCHANGED holder /\ Enqueue(j, "dl", Head(downloadQ), None)
    BY <1>3 DEF StartDownload
  <2> QED
    BY <1>1, <2>1, <2>2, QueuePool
<1>4. ASSUME NEW j \in Jobs, NEW g \in Guilds, NEW f \in Files, Request(j, g, f) \/ Marker(j, g, f)
      PROVE  PoolInv'
  <2>1. UNCHANGED holder /\ \E kind \in {"add", "worker"} : Enqueue(j, kind, f, g)
    BY <1>4 DEF Request, Marker
  <2> QED
    BY <1>1, <2>1, QueuePool
<1>5. CASE UNCHANGED <<job, holder>>
  BY <1>1, <1>5 DEF PoolInv, InPlace, StepsOf, Locked, HolderWorks, ThreadsBounded, OnThread
<1> QED
  BY <1>2, <1>3, <1>4, <1>5 DEF Next, TrackEnds, Lose, vars

\* The inductive invariant of the pool.
THEOREM PoolInvariant == Spec => []PoolInv
<1> QED
  BY InitPool, NextPool, PTL DEF Spec

----------------------------------------------------------------------------
(***************************************************************************)
(* If nobody moves, the pool is full.                                      *)
(***************************************************************************)

\* A download stands only before it has a thread, and only if there is none left.
LEMMA DownloadStands ==
    ASSUME PoolInv, NEW j \in Jobs, job[j].kind = "dl", ~Moves(j)
    PROVE  Cardinality(OnThread) = PoolSize /\ At(j, "dl", "queued")
<1>1. job[j].pc \in {"queued", "begin", "fetch", "erase"}
  BY DEF PoolInv, InPlace, StepsOf
<1>2. job[j].pc = "queued" /\ ~(Cardinality(OnThread) < PoolSize)
  BY <1>1 DEF Moves
<1>3. IsFiniteSet(OnThread)
  BY ConstantsAssumption, FS_Subset DEF ConstantsAssumption, OnThread
<1>4. Cardinality(OnThread) \in Nat
  BY <1>3, FS_CardinalityType
<1> QED
  BY <1>2, <1>4, ConstantsAssumption DEF PoolInv, ThreadsBounded, ConstantsAssumption, At

\* If somebody waits for a file and nobody moves, there is a download.
LEMMA WaitedStands ==
    ASSUME PoolInv, \A j \in Jobs : ~Moves(j), ~Starts, waiting # {}
    PROVE  \E j \in Jobs : job[j].kind = "dl"
<1>1. PICK f \in waiting : TRUE
  OBVIOUS
<1>2. CASE f \in Range(downloadQ)
  <2>1. downloadQ # <<>>
    BY <1>2 DEF Range
  <2>2. ~(running < MaxConcurrent)
    BY <2>1 DEF Starts
  <2>3. Cardinality(Downloading) >= 1
    BY <2>2, ConstantsAssumption
       DEF PoolInv, IInv, TypeOK, DownloadsBounded, ConstantsAssumption
  <2>4. Downloading # {}
    BY <2>3, FS_EmptySet
  <2> QED
    BY <2>4 DEF Downloading
<1>3. ASSUME NEW j \in Jobs, job[j].pc = "push"
      PROVE  FALSE
  <2>1. job[j].kind \in Kinds
    BY JobFacts DEF PoolInv, Tasks
  <2>2. job[j].kind \in {"add", "worker"}
    BY <1>3, <2>1 DEF PoolInv, InPlace, StepsOf, Kinds, None
  <2>3. Moves(j)
    BY <1>3, <2>2 DEF Moves, Locked
  <2> QED
    BY <2>3
<1> QED
  BY <1>1, <1>2, <1>3 DEF PoolInv, IInv, WaitingIsServed

\* If nobody moves, who holds a player's mutex waits for a file.
LEMMA HolderStands ==
    ASSUME PoolInv, \A j \in Jobs : ~Moves(j), NEW g \in Guilds, holder[g] # None
    PROVE  waiting # {}
<1>1. /\ holder[g] \in Jobs /\ job[holder[g]].kind = "worker"
      /\ job[holder[g]].pc \in Locked
  BY DEF PoolInv, HolderWorks
<1>2. ~Moves(holder[g])
  BY <1>1
<1>3. At(holder[g], "worker", "wait")
  BY <1>1, <1>2 DEF Moves, At
<1> QED
  BY <1>2, <1>3 DEF Moves

\* A task on a thread that does not move waits for a file, or for one who does.
LEMMA ThreadStands ==
    ASSUME PoolInv, \A j \in Jobs : ~Moves(j), NEW j \in OnThread
    PROVE  waiting # {}
<1>1. /\ j \in Jobs /\ ~Moves(j) /\ job[j].pc \notin {"free", "deferred", "queued"}
      /\ job[j].pc \in StepsOf(job[j].kind)
  BY DEF OnThread, PoolInv, InPlace
<1>2. job[j].kind \in Kinds /\ (job[j].kind # "dl" => job[j].guild \in Guilds)
  BY <1>1, JobFacts DEF PoolInv, Tasks, Proper
<1>3. CASE job[j].kind \in {"add", "dl", None}
  BY <1>1, <1>3 DEF StepsOf, Moves, None
<1>4. CASE job[j].kind = "tail"
  <2>1. At(j, "tail", "begin")
    BY <1>1, <1>4 DEF StepsOf, At
  <2> QED
    BY <1>1, <2>1 DEF Moves
<1>5. CASE job[j].kind \in {"redo", "worker"}
  <2>1. CASE job[j].pc \in {"lock", "wait"} \/ job[j].pc = "begin"
    <3>1. CASE holder[job[j].guild] # None
      BY <1>2, <1>5, <3>1, HolderStands
    <3>2. CASE holder[job[j].guild] = None
      <4>1. job[j].file \in waiting
        BY <1>1, <1>5, <2>1, <3>2 DEF Moves, At, StepsOf, Locked
      <4> QED
        BY <4>1
    <3> QED
      BY <3>1, <3>2
  <2>2. CASE job[j].pc \in Locked \ {"wait"}
    <3>1. job[j].kind = "worker"
      BY <1>1, <1>5, <2>2 DEF StepsOf, Locked
    <3> QED
      BY <1>1, <2>2, <3>1 DEF Moves
  <2>3. job[j].pc \in {"lock", "begin"} \cup Locked
    BY <1>1, <1>5 DEF StepsOf
  <2> QED
    BY <2>1, <2>2, <2>3
<1> QED
  BY <1>2, <1>3, <1>4, <1>5 DEF Kinds

\* Whatever the tasks are, only a full pool makes all of them stand.
LEMMA PoolStands == PoolInv => OnlyFullPoolStops
<1> SUFFICES ASSUME PoolInv, NEW i \in Jobs, job[i].pc # "free",
                    \A j \in Jobs : ~Moves(j), ~Starts
             PROVE  /\ Cardinality(OnThread) = PoolSize
                    /\ \E j \in Jobs : At(j, "dl", "queued")
  BY DEF OnlyFullPoolStops
<1>1. waiting # {}
  <2>1. CASE i \in OnThread
    BY <2>1, ThreadStands
  <2>2. CASE job[i].pc = "deferred"
    BY <2>2 DEF Moves
  <2>3. CASE job[i].pc = "queued"
    <3>1. ~(Cardinality(OnThread) < PoolSize)
      BY <2>3 DEF Moves
    <3>2. Cardinality(OnThread) # 0
      BY <3>1, ConstantsAssumption DEF ConstantsAssumption
    <3>3. OnThread # {}
      BY <3>2, FS_EmptySet
    <3> QED
      BY <3>3, ThreadStands
  <2> QED
    BY <2>1, <2>2, <2>3 DEF OnThread
<1>2. PICK j \in Jobs : job[j].kind = "dl"
  BY <1>1, WaitedStands
<1> QED
  BY <1>2, DownloadStands

\* wait_for_download inside a task, with a player's mutex: whatever the tasks
\* wait for, some task or the main loop can go on, unless the waiting tasks have
\* every thread of the pool and the download they wait for is behind them.
THEOREM FullPoolCorrect == Spec => []OnlyFullPoolStops
<1> QED
  BY PoolInvariant, PoolStands, PTL
=============================================================================
