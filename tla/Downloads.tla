------------------------------ MODULE Downloads ------------------------------
(***************************************************************************)
(* Downloads (player_manager_util.cpp, player_manager_events.cpp) and the  *)
(* tasks they run in (task.cpp): a requested track whose file is missing   *)
(* is put in waiting_file_download and in download_q; the main loop starts *)
(* a few downloads at a time; whoever needs the file waits, either as a    *)
(* deferred task (run_may_block) that the main loop holds back, or inside  *)
(* a task, which keeps a thread of DPP's pool.                             *)
(*                                                                         *)
(* A job is a task wherever it is: deferred, queued in the pool or at a    *)
(* step of its run; a task that defers another and ends is one job.  The   *)
(* queue of a player is the set of its files: module TrackQueue has its    *)
(* order.  Left out: the throttlers, which only hold a deferred task back  *)
(* for longer; waiting for the voice connection; a voice client that is    *)
(* being destroyed.                                                        *)
(*                                                                         *)
(* Definitions named X_<what> are X with a plausible mistake; no           *)
(* specification uses them.                                                *)
(***************************************************************************)
EXTENDS Integers, Sequences, FiniteSets, Functions

CONSTANTS
    Files,          \* audio files
    Guilds,         \* guilds with a player
    Jobs,           \* bound: tasks that exist at one time
    PoolSize,       \* threads of DPP's pool
    MaxConcurrent,  \* get_max_concurrent_download ()
    MaxRequests,    \* bound: tracks requested
    MaxLosses,      \* bound: files deleted from the music cache
    MayFail         \* whether a download may fail

ASSUME ConstantsAssumption ==
    /\ IsFiniteSet(Jobs)
    /\ PoolSize \in Nat \ {0}
    /\ MaxConcurrent \in Nat \ {0}
    /\ MaxRequests \in Nat
    /\ MaxLosses \in Nat
    /\ MayFail \in BOOLEAN

VARIABLES
    disk,       \* the files in the music folder
    waiting,    \* waiting_file_download
    downloadQ,  \* download_q
    running,    \* running_download
    failed,     \* track_failed_playback_counts
    job,        \* the tasks
    holder,     \* the job that holds a player's mutex
    queue,      \* the files of a player's queue
    playing,    \* the file a player streams
    requests,   \* tracks requested so far
    losses      \* files deleted so far

vars == <<disk, waiting, downloadQ, running, failed, job, holder, queue, playing, requests, losses>>

None    == "none"
Retries == 3

\* A task: what it does, for which file and player, and where it is; flag says
\* that the file was missing, seen how often it had failed.
Task(kind, f, g, pc, flag) ==
    [kind |-> kind, file |-> f, guild |-> g, pc |-> pc, flag |-> flag, seen |-> 0]

NoJob == Task(None, None, None, "free", FALSE)

Init ==
    /\ disk \in SUBSET Files
    /\ waiting = {}
    /\ downloadQ = <<>>
    /\ running = 0
    /\ failed = [f \in Files |-> 0]
    /\ job = [j \in Jobs |-> NoJob]
    /\ holder = [g \in Guilds |-> None]
    /\ queue = [g \in Guilds |-> {}]
    /\ playing = [g \in Guilds |-> None]
    /\ requests = 0
    /\ losses = 0

----------------------------------------------------------------------------
(***************************************************************************)
(* Tasks.                                                                  *)
(***************************************************************************)

At(j, kind, pc) == job[j].kind = kind /\ job[j].pc = pc
Goto(j, pc)     == job' = [job EXCEPT ![j].pc = pc]
Finish(j)       == job' = [job EXCEPT ![j] = NoJob]

\* task::run: a free job enters the pool's queue.
Enqueue(j, kind, f, g) ==
    /\ job[j] = NoJob
    /\ job' = [job EXCEPT ![j] = Task(kind, f, g, "queued", FALSE)]

\* The bound on jobs leaves one for a download.
Spare(j) == \E k \in Jobs \ {j} : job[k] = NoJob

\* task::run_may_block, as the last thing that job j does.
Deferred(j, kind, flag) ==
    [job EXCEPT ![j] = Task(kind, job[j].file, job[j].guild, "deferred", flag)]

OnThread == {j \in Jobs : job[j].pc \notin {"free", "deferred", "queued"}}

\* A thread of the pool takes a task; all tasks have one priority.
Begin(j) ==
    /\ job[j].pc = "queued"
    /\ Cardinality(OnThread) < PoolSize
    /\ Goto(j, "begin")
    /\ UNCHANGED <<disk, waiting, downloadQ, running, failed, holder, queue, playing, requests, losses>>

\* check_blocking_task: a deferred task whose file is not waited for goes on.
Unblock(j) ==
    /\ job[j].pc = "deferred"
    /\ job[j].file \notin waiting
    /\ Goto(j, "queued")
    /\ UNCHANGED <<disk, waiting, downloadQ, running, failed, holder, queue, playing, requests, losses>>

----------------------------------------------------------------------------
(***************************************************************************)
(* A download.                                                             *)
(***************************************************************************)

\* download: first the map, then the queue.
Announce(j) ==
    /\ waiting' = waiting \cup {job[j].file}
    /\ Goto(j, "push")
    /\ UNCHANGED <<disk, downloadQ, running, failed, holder, queue, playing, requests, losses>>

StartDownload_Unbounded(j) ==
    /\ downloadQ # <<>>
    /\ running' = running + 1
    /\ downloadQ' = Tail(downloadQ)
    /\ Enqueue(j, "dl", Head(downloadQ), None)
    /\ UNCHANGED <<disk, waiting, failed, holder, queue, playing, requests, losses>>

\* check_download_queue.
StartDownload(j) ==
    /\ running < MaxConcurrent
    /\ downloadQ # <<>>
    /\ running' = running + 1
    /\ downloadQ' = Tail(downloadQ)
    /\ Enqueue(j, "dl", Head(downloadQ), None)
    /\ UNCHANGED <<disk, waiting, failed, holder, queue, playing, requests, losses>>

\* The file may have come meanwhile.
DownloadLooks(j) ==
    /\ At(j, "dl", "begin")
    /\ Goto(j, IF job[j].file \in disk THEN "erase" ELSE "fetch")
    /\ UNCHANGED <<disk, waiting, downloadQ, running, failed, holder, queue, playing, requests, losses>>

\* do_download.
DownloadFetches(j) ==
    /\ At(j, "dl", "fetch")
    /\ \E ok \in BOOLEAN :
        /\ ok \/ MayFail
        /\ disk' = IF ok THEN disk \cup {job[j].file} ELSE disk
    /\ Goto(j, "erase")
    /\ UNCHANGED <<waiting, downloadQ, running, failed, holder, queue, playing, requests, losses>>

DownloadEnds_IfFetched(j) ==
    /\ At(j, "dl", "erase")
    /\ waiting' = IF job[j].file \in disk THEN waiting \ {job[j].file} ELSE waiting
    /\ running' = running - 1
    /\ Finish(j)
    /\ UNCHANGED <<disk, downloadQ, failed, holder, queue, playing, requests, losses>>

\* Whether it succeeded or not, nobody waits any longer.
DownloadEnds(j) ==
    /\ At(j, "dl", "erase")
    /\ waiting' = waiting \ {job[j].file}
    /\ running' = running - 1
    /\ Finish(j)
    /\ UNCHANGED <<disk, downloadQ, failed, holder, queue, playing, requests, losses>>

----------------------------------------------------------------------------
(***************************************************************************)
(* A requested track: run_add_track_thread and run_download_thread.        *)
(***************************************************************************)

Request(j, g, f) ==
    /\ requests < MaxRequests
    /\ Spare(j)
    /\ requests' = requests + 1
    /\ Enqueue(j, "add", f, g)
    /\ UNCHANGED <<disk, waiting, downloadQ, running, failed, holder, queue, playing, losses>>

\* track_exist looks for the file ...
AddLooks(j) ==
    /\ At(j, "add", "begin")
    /\ job' = IF job[j].file \in disk THEN Deferred(j, "tail", FALSE)
              ELSE [job EXCEPT ![j].pc = "check"]
    /\ UNCHANGED <<disk, waiting, downloadQ, running, failed, holder, queue, playing, requests, losses>>

\* ... and whether it is waited for, without the lock ...
AddChecks(j) ==
    /\ At(j, "add", "check")
    /\ job' = IF job[j].file \in waiting THEN Deferred(j, "tail", TRUE)
              ELSE [job EXCEPT ![j].pc = "order"]
    /\ UNCHANGED <<disk, waiting, downloadQ, running, failed, holder, queue, playing, requests, losses>>

\* ... and then has it downloaded.
AddOrders(j) == At(j, "add", "order") /\ Announce(j)

AddPushes(j) ==
    /\ At(j, "add", "push")
    /\ downloadQ' = Append(downloadQ, job[j].file)
    /\ job' = Deferred(j, "tail", TRUE)
    /\ UNCHANGED <<disk, waiting, running, failed, holder, queue, playing, requests, losses>>

\* wait_for_download, when the file was missing, and add_track.
TailAdds(j) ==
    /\ At(j, "tail", "begin")
    /\ job[j].flag => job[j].file \notin waiting
    /\ queue' = [queue EXCEPT ![job[j].guild] = @ \cup {job[j].file}]
    /\ Finish(j)
    /\ UNCHANGED <<disk, waiting, downloadQ, running, failed, holder, playing, requests, losses>>

----------------------------------------------------------------------------
(***************************************************************************)
(* Playing a track: the track marker worker.                               *)
(***************************************************************************)

\* A marker for a player that is not processing audio.
Marker(j, g, f) ==
    /\ Spare(j)
    /\ f \in queue[g]
    /\ playing[g] = None
    /\ Enqueue(j, "worker", f, g)
    /\ UNCHANGED <<disk, waiting, downloadQ, running, failed, holder, queue, playing, requests, losses>>

\* Waits for the player's mutex, which it keeps to its end.
WorkerLocks(j) ==
    /\ At(j, "worker", "begin")
    /\ holder[job[j].guild] = None
    /\ holder' = [holder EXCEPT ![job[j].guild] = j]
    /\ Goto(j, "wait")
    /\ UNCHANGED <<disk, waiting, downloadQ, running, failed, queue, playing, requests, losses>>

\* wait_for_download ...
WorkerWaits(j) ==
    /\ At(j, "worker", "wait")
    /\ job[j].file \notin waiting
    /\ Goto(j, "look")
    /\ UNCHANGED <<disk, waiting, downloadQ, running, failed, holder, queue, playing, requests, losses>>

\* ... and then whether the file is there.
WorkerLooks(j) ==
    /\ At(j, "worker", "look")
    /\ Goto(j, IF job[j].file \in disk THEN "play" ELSE "missing")
    /\ UNCHANGED <<disk, waiting, downloadQ, running, failed, holder, queue, playing, requests, losses>>

WorkerPlays(j) ==
    /\ At(j, "worker", "play")
    /\ failed' = [failed EXCEPT ![job[j].file] = 0]
    /\ playing' = [playing EXCEPT ![job[j].guild] = job[j].file]
    /\ holder' = [holder EXCEPT ![job[j].guild] = None]
    /\ Finish(j)
    /\ UNCHANGED <<disk, waiting, downloadQ, running, queue, requests, losses>>

WorkerMisses_Uncounted(j) ==
    /\ At(j, "worker", "missing")
    /\ job' = [job EXCEPT ![j].pc = "drop", ![j].flag = job[j].file \in waiting]
    /\ UNCHANGED <<disk, waiting, downloadQ, running, failed, holder, queue, playing, requests, losses>>

\* Is it being downloaded already?  How often has it failed?
WorkerMisses(j) ==
    /\ At(j, "worker", "missing")
    /\ job' = [job EXCEPT ![j].pc = "drop", ![j].flag = job[j].file \in waiting,
                          ![j].seen = failed[job[j].file]]
    /\ UNCHANGED <<disk, waiting, downloadQ, running, failed, holder, queue, playing, requests, losses>>

GivesUp_Late(j) == job[j].seen > Retries

GivesUp(j) == job[j].seen >= Retries

\* The track is taken from the queue; it is downloaded again unless it failed
\* too often or somebody else has it downloaded.
WorkerDrops(j) ==
    LET f == job[j].file
        g == job[j].guild
        again == ~GivesUp(j) /\ ~job[j].flag
    IN  /\ At(j, "worker", "drop")
        /\ queue' = [queue EXCEPT ![g] = @ \ {f}]
        /\ failed' = IF GivesUp(j) THEN failed ELSE [failed EXCEPT ![f] = job[j].seen + 1]
        /\ holder' = IF again THEN holder ELSE [holder EXCEPT ![g] = None]
        /\ IF again THEN Goto(j, "order") ELSE Finish(j)
        /\ UNCHANGED <<disk, waiting, downloadQ, running, playing, requests, losses>>

WorkerOrders(j) == At(j, "worker", "order") /\ Announce(j)

WorkerPushes(j) ==
    /\ At(j, "worker", "push")
    /\ downloadQ' = Append(downloadQ, job[j].file)
    /\ job' = Deferred(j, "redo", TRUE)
    /\ holder' = [holder EXCEPT ![job[j].guild] = None]
    /\ UNCHANGED <<disk, waiting, running, failed, queue, playing, requests, losses>>

\* The redownloaded track comes back: wait_for_download ...
RedoWaits(j) ==
    /\ At(j, "redo", "begin")
    /\ job[j].file \notin waiting
    /\ Goto(j, "lock")
    /\ UNCHANGED <<disk, waiting, downloadQ, running, failed, holder, queue, playing, requests, losses>>

\* ... and add_track, with the player's mutex.
RedoAdds(j) ==
    /\ At(j, "redo", "lock")
    /\ holder[job[j].guild] = None
    /\ queue' = [queue EXCEPT ![job[j].guild] = @ \cup {job[j].file}]
    /\ Finish(j)
    /\ UNCHANGED <<disk, waiting, downloadQ, running, failed, holder, playing, requests, losses>>

----------------------------------------------------------------------------
(***************************************************************************)
(* The surroundings.                                                       *)
(***************************************************************************)

\* The track ends and leaves the queue.
TrackEnds(g) ==
    /\ playing[g] # None
    /\ queue' = [queue EXCEPT ![g] = @ \ {playing[g]}]
    /\ playing' = [playing EXCEPT ![g] = None]
    /\ UNCHANGED <<disk, waiting, downloadQ, running, failed, job, holder, requests, losses>>

\* control_music_cache deletes a file that was not used for long.
Lose(f) ==
    /\ f \in disk
    /\ losses < MaxLosses
    /\ losses' = losses + 1
    /\ disk' = disk \ {f}
    /\ UNCHANGED <<waiting, downloadQ, running, failed, job, holder, queue, playing, requests>>

Work(j) ==
    \/ DownloadLooks(j) \/ DownloadFetches(j) \/ DownloadEnds(j)
    \/ AddLooks(j) \/ AddChecks(j) \/ AddOrders(j) \/ AddPushes(j) \/ TailAdds(j)
    \/ WorkerWaits(j) \/ WorkerLooks(j) \/ WorkerPlays(j) \/ WorkerMisses(j) \/ WorkerDrops(j)
    \/ WorkerOrders(j) \/ WorkerPushes(j) \/ RedoWaits(j)

Locks(j) == WorkerLocks(j) \/ RedoAdds(j)

Step(j) == Begin(j) \/ Unblock(j) \/ Work(j) \/ Locks(j)

Next ==
    \/ \E j \in Jobs :
        \/ Step(j)
        \/ StartDownload(j)
        \/ \E g \in Guilds, f \in Files : Request(j, g, f) \/ Marker(j, g, f)
    \/ \E g \in Guilds : TrackEnds(g)
    \/ \E f \in Files : Lose(f)

Spec == Init /\ [][Next]_vars

\* The pool's threads and the main loop run on.
Fairness ==
    /\ WF_vars(\E j \in Jobs : StartDownload(j))
    /\ \A j \in Jobs : WF_vars(Step(j))

FairSpec == Spec /\ Fairness
----------------------------------------------------------------------------
(***************************************************************************)
(* Properties.                                                             *)
(***************************************************************************)

Kinds == {None, "add", "tail", "worker", "redo", "dl"}
Steps == {"free", "deferred", "queued", "begin", "check", "order", "push", "fetch", "erase",
          "wait", "look", "play", "missing", "drop", "lock"}
Tasks == [kind : Kinds, file : Files \cup {None}, guild : Guilds \cup {None}, pc : Steps,
          flag : BOOLEAN, seen : 0..Retries]

TypeOK ==
    /\ disk \subseteq Files
    /\ waiting \subseteq Files
    /\ downloadQ \in Seq(Files)
    /\ running \in Nat
    /\ failed \in [Files -> 0..Retries]
    /\ job \in [Jobs -> Tasks]
    /\ holder \in [Guilds -> Jobs \cup {None}]
    /\ queue \in [Guilds -> SUBSET Files]
    /\ playing \in [Guilds -> Files \cup {None}]
    /\ requests \in 0..MaxRequests
    /\ losses \in 0..MaxLosses

Downloading == {j \in Jobs : job[j].kind = "dl"}

\* Whoever waits for a file waits for a download that is still to come, or to
\* end: it is in the queue, a task, or about to be pushed.
WaitingIsServed ==
    \A f \in waiting :
        \/ f \in Range(downloadQ)
        \/ \E j \in Jobs : job[j].file = f /\ (job[j].kind = "dl" \/ job[j].pc = "push")

\* The counter counts the downloads there are, which are never more than
\* configured, even while download tasks wait for a thread.
DownloadsBounded ==
    running = Cardinality(Downloading) /\ running <= MaxConcurrent

\* Every wait for a download ends.
WaitEnds == \A f \in Files : f \in waiting ~> f \notin waiting
\* A file that cannot be had is not tried for ever.
RetriesEnd == <>[](\A j \in Jobs : job[j].kind \notin {"dl", "worker", "redo"})
=============================================================================
