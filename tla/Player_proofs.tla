----------------------------- MODULE Player_proofs -----------------------------
(***************************************************************************)
(* What is proved of two parts of the player around its queue.             *)
(*                                                                         *)
(* Autopause, for any number of users, threads and events: every variable  *)
(* has its type, a pause by hand holds (HandKept), and nothing is played   *)
(* to an empty channel when all has come to rest (AloneInv).               *)
(*                                                                         *)
(* InfoEmbed, for any number of threads, changes and messages: every       *)
(* variable has its type, the message the player remembers shows what the  *)
(* player does, and there is no other (EmbedInv).                          *)
(***************************************************************************)
EXTENDS Autopause, InfoEmbed, SequenceTheorems, TLAPS

Everyone == Users \cup {Bot}

----------------------------------------------------------------------------
\* The events of the library behind one another.
LEMMA Reporting ==
    ASSUME NEW S, NEW s \in Seq(S), NEW e \in S
    PROVE  /\ Append(s, e) \in Seq(S)
           /\ Len(s) \in Nat /\ Len(Append(s, e)) = Len(s) + 1
           /\ \A k \in 1..Len(s) : Append(s, e)[k] = s[k]
           /\ Append(s, e)[Len(s) + 1] = e
           /\ DOMAIN s = 1..Len(s) /\ DOMAIN Append(s, e) = 1..(Len(s) + 1)
<1> DEFINE r == Append(s, e)
<1>1. r \in Seq(S) /\ Len(r) = Len(s) + 1 /\ \A k \in 1..Len(s) : r[k] = s[k]
  BY AppendProperties
<1>2. r[Len(s) + 1] = e
  BY AppendProperties
<1>3. Len(s) \in Nat /\ DOMAIN s = 1..Len(s) /\ DOMAIN r = 1..Len(r)
  BY <1>1, LenProperties
<1> QED
  BY <1>1, <1>2, <1>3

\* Any event may be taken out; those behind it move up.
LEMMA Taking ==
    ASSUME NEW S, NEW s \in Seq(S), NEW i \in DOMAIN s
    PROVE  /\ RemoveAt(s, i) \in Seq(S)
           /\ s[i] \in S /\ Len(s) \in Nat /\ i \in 1..Len(s)
           /\ DOMAIN s = 1..Len(s) /\ DOMAIN RemoveAt(s, i) = 1..(Len(s) - 1)
           /\ \A k \in 1..(Len(s) - 1) : RemoveAt(s, i)[k] = IF k < i THEN s[k] ELSE s[k + 1]
<1> DEFINE a == SubSeq(s, 1, i - 1)
           b == SubSeq(s, i + 1, Len(s))
           n == Len(s)
           r == RemoveAt(s, i)
<1>1. n \in Nat /\ i \in 1..n /\ DOMAIN s = 1..n
  BY LenProperties
<1>2. \A j \in 1..n : s[j] \in S
  BY ElementOfSeq
<1>3. /\ a \in Seq(S) /\ Len(a) = i - 1
      /\ \A k \in 1..(i - 1) : a[k] = s[k]
  <2>1. \A k \in 1..(i - 1) : s[k] \in S
    BY <1>1, <1>2
  <2>2. Len(a) = i - 1 /\ a \in Seq(S)
    BY <1>1, <2>1, SubSeqProperties
  <2>3. \A k \in 1..(i - 1) : a[k] = s[1 + k - 1]
    BY <1>1, SubSeqProperties
  <2> QED
    BY <1>1, <2>2, <2>3
<1>4. /\ b \in Seq(S) /\ Len(b) = n - i
      /\ \A k \in 1..(n - i) : b[k] = s[i + k]
  <2>1. \A k \in (i + 1)..n : s[k] \in S
    BY <1>1, <1>2
  <2>2. Len(b) = n - i /\ b \in Seq(S)
    BY <1>1, <2>1, SubSeqProperties
  <2>3. \A k \in 1..(n - i) : b[k] = s[(i + 1) + k - 1]
    BY <1>1, SubSeqProperties
  <2> QED
    BY <1>1, <2>2, <2>3
<1>5. r = a \o b
  BY DEF RemoveAt
<1> HIDE DEF a, b, r, n
<1>6. r \in Seq(S) /\ Len(r) = (i - 1) + (n - i)
  <2>1. a \o b \in Seq(S) /\ Len(a \o b) = Len(a) + Len(b)
    BY <1>3, <1>4, ConcatProperties
  <2> QED
    BY <1>3, <1>4, <1>5, <2>1
<1>7. \A k \in 1..Len(r) : r[k] = IF k <= i - 1 THEN a[k] ELSE b[k - (i - 1)]
  <2>1. \A k \in 1..(Len(a) + Len(b)) : (a \o b)[k] = IF k <= Len(a) THEN a[k] ELSE b[k - Len(a)]
    BY <1>3, <1>4, ConcatProperties
  <2> QED
    BY <1>1, <1>3, <1>4, <1>5, <1>6, <2>1
<1>8. \A k \in 1..(n - 1) : r[k] = IF k < i THEN s[k] ELSE s[k + 1]
  <2>1. ASSUME NEW k \in 1..(n - 1), k < i
        PROVE  r[k] = s[k]
    BY <1>1, <1>3, <1>6, <1>7, <2>1
  <2>2. ASSUME NEW k \in 1..(n - 1), ~(k < i)
        PROVE  r[k] = s[k + 1]
    <3>1. k - (i - 1) \in 1..(n - i) /\ i + (k - (i - 1)) = k + 1 /\ ~(k <= i - 1)
      BY <1>1, <2>2
    <3>2. b[k - (i - 1)] = s[i + (k - (i - 1))]
      BY <1>4, <3>1
    <3>3. r[k] = b[k - (i - 1)]
      BY <1>1, <1>6, <1>7, <3>1
    <3> QED
      BY <3>1, <3>2, <3>3
  <2> QED
    BY <2>1, <2>2
<1>9. DOMAIN r = 1..(n - 1)
  BY <1>1, <1>6, LenProperties
<1> QED
  BY <1>1, <1>2, <1>6, <1>8, <1>9 DEF r, n

----------------------------------------------------------------------------
(***************************************************************************)
(* The types.                                                              *)
(***************************************************************************)
TypeInv == TypeOK /\ main \in [at : {"idle", "clear", "resume"}, user : Everyone]

\* Each flag is one of two values.
Flags == /\ paused \in BOOLEAN /\ manually \in BOOLEAN /\ muted \in BOOLEAN /\ cached \in BOOLEAN
         /\ byHand \in BOOLEAN /\ raced \in BOOLEAN /\ mixed \in BOOLEAN

JobsTyped ==
    /\ jobs \in Seq(JobType)
    /\ \A i \in DOMAIN jobs : IsMute(jobs[i]) => jobs[i].user = Bot
    /\ job \in [Threads -> JobType \cup {NoJob}]

MainTyped ==
    /\ timers \subseteq Everyone
    /\ main \in [at : {"idle", "clear", "resume"}, user : Everyone]
    /\ main = Resting \/ (main.at \in {"clear", "resume"} /\ main.user \in timers)

RestTyped ==
    /\ audio \in {"track", "marker", "none"}
    /\ heard \subseteq Users
    /\ pc \in [Threads -> Places]
    /\ events \in 0 .. MaxEvents

\* TypeInv in parts.
LEMMA Typed == TypeInv <=> Flags /\ JobsTyped /\ MainTyped /\ RestTyped
  BY DEF TypeInv, TypeOK, Flags, JobsTyped, MainTyped, RestTyped, Everyone

\* And after a step.
LEMMA TypedNext ==
    ASSUME Flags', JobsTyped', MainTyped', RestTyped'
    PROVE  TypeInv'
  BY DEF TypeInv, TypeOK, Flags, JobsTyped, MainTyped, RestTyped, Everyone

\* A flag that is set as well.
LEMMA Either ==
    ASSUME NEW a, NEW b
    PROVE  (a \/ b) \in BOOLEAN
  OBVIOUS

\* raced is a flag whatever is looked at.
LEMMA RacesTyped ==
    ASSUME NEW b, Races(b)
    PROVE  raced' \in BOOLEAN
  BY Either DEF Races

\* A thread goes to a place.
LEMMA GotoTyped ==
    ASSUME pc \in [Threads -> Places], NEW t \in Threads, NEW p \in Places, Goto(t, p)
    PROVE  pc' \in [Threads -> Places]
  BY DEF Goto

\* An event behind the others.
LEMMA ReportedTyped ==
    ASSUME JobsTyped, UNCHANGED job,
           NEW kind \in Kinds, NEW u \in Everyone, kind \in {"mute", "unmute"} => u = Bot,
           Reported(kind, u)
    PROVE  JobsTyped'
<1> DEFINE e == Job(kind, u)
<1>1. e \in JobType /\ e.user = u /\ e.kind = kind
  BY DEF Job, JobType, Everyone
<1> HIDE DEF e
<1>2. jobs \in Seq(JobType) /\ jobs' = Append(jobs, e)
  BY DEF JobsTyped, Reported, e
<1>3. /\ jobs' \in Seq(JobType)
      /\ Len(jobs) \in Nat
      /\ \A k \in 1..Len(jobs) : jobs'[k] = jobs[k]
      /\ jobs'[Len(jobs) + 1] = e
      /\ DOMAIN jobs = 1..Len(jobs) /\ DOMAIN jobs' = 1..(Len(jobs) + 1)
  BY <1>1, <1>2, Reporting
<1>4. ASSUME NEW i \in DOMAIN jobs', IsMute(jobs'[i])
      PROVE  jobs'[i].user = Bot
  <2>1. CASE i \in 1..Len(jobs)
    <3>1. jobs'[i] = jobs[i] /\ i \in DOMAIN jobs
      BY <1>3, <2>1
    <3> QED
      BY <1>4, <3>1 DEF JobsTyped
  <2>2. CASE i = Len(jobs) + 1
    BY <1>1, <1>3, <1>4, <2>2 DEF IsMute
  <2> QED
    BY <1>3, <1>4, <2>1, <2>2
<1> QED
  BY <1>3, <1>4 DEF JobsTyped

\* Init: a track plays and somebody listens.
LEMMA InitTyped == Init => TypeInv
<1> SUFFICES ASSUME Init PROVE TypeInv
  OBVIOUS
<1>1. Flags
  BY DEF Init, Flags
<1>2. JobsTyped
  <2>1. jobs \in Seq(JobType) /\ DOMAIN jobs = {}
    BY DEF Init
  <2>2. job \in [Threads -> JobType \cup {NoJob}]
    BY DEF Init
  <2> QED
    BY <2>1, <2>2 DEF JobsTyped
<1>3. MainTyped
  BY DEF Init, MainTyped, Resting, Everyone
<1>4. RestTyped
  BY ConstantsAssumption DEF Init, RestTyped, Places
<1> QED
  BY <1>1, <1>2, <1>3, <1>4, Typed

\* Commands.
LEMMA CommandsTyped ==
    ASSUME TypeInv, NEW t \in Threads, Command(t) \/ CommandProceeds(t)
    PROVE  TypeInv'
<1>1. Flags /\ JobsTyped /\ MainTyped /\ RestTyped
  BY Typed
<1>2. UNCHANGED <<jobs, job, timers, main, heard, muted, cached, mixed>>
  BY DEF Command, CommandProceeds, Pause, Play, Skip, Stop, set_manually_paused, Unpause, StopPauses,
         client, cache, threads, history
<1>3. Flags'
  <2>1. paused' \in BOOLEAN /\ manually' \in BOOLEAN /\ byHand' \in BOOLEAN
    BY <1>1 DEF Flags, Command, CommandProceeds, Pause, Play, Skip, Stop, set_manually_paused, Unpause,
                StopPauses, skip_playback, client, history
  <2>2. raced' \in BOOLEAN
    <3>1. raced' = raced \/ raced' \in BOOLEAN
      BY RacesTyped DEF Command, CommandProceeds, Pause, Play, Skip, Stop, set_manually_paused, Unpause,
                        StopPauses, history
    <3> QED
      BY <1>1, <3>1 DEF Flags
  <2> QED
    BY <1>1, <1>2, <2>1, <2>2 DEF Flags
<1>4. JobsTyped' /\ MainTyped'
  BY <1>1, <1>2 DEF JobsTyped, MainTyped
<1>5. RestTyped'
  <2>1. audio' \in {"track", "marker", "none"}
    BY <1>1 DEF RestTyped, Command, CommandProceeds, Pause, Play, Skip, Stop, set_manually_paused, Unpause,
                StopPauses, skip_playback, client
  <2>2. pc' \in [Threads -> Places]
    BY <1>1 DEF RestTyped, Command, CommandProceeds, Pause, Play, Skip, Stop, set_manually_paused, Unpause,
                StopPauses, threads, Goto, Places
  <2>3. events' \in 0..MaxEvents
    BY <1>1, ConstantsAssumption
       DEF RestTyped, Command, CommandProceeds, Pause, Play, Skip, Stop, set_manually_paused, Unpause,
           StopPauses, Calling, Bounded
  <2> QED
    BY <1>1, <1>2, <2>1, <2>2, <2>3 DEF RestTyped
<1> QED
  BY <1>3, <1>4, <1>5, TypedNext

\* What happens outside of the program.
LEMMA OutsideTyped ==
    ASSUME TypeInv, Outside
    PROVE  TypeInv'
<1>1. Flags /\ JobsTyped /\ MainTyped /\ RestTyped
  BY Typed
<1>2. UNCHANGED <<paused, manually, timers, cached, pc, job, main, byHand>>
  BY DEF Outside, Come, Go, Mute, TrackEnds, MarkerReached, client, threads, cache, history
<1>3. Flags'
  <2>1. muted' \in BOOLEAN
    BY <1>1 DEF Flags, Outside, Come, Go, Mute, TrackEnds, MarkerReached, cache
  <2>2. raced' \in BOOLEAN
    <3>1. raced' = raced \/ raced' \in BOOLEAN
      BY RacesTyped DEF Outside, Come, Go, Mute, TrackEnds, MarkerReached, history
    <3> QED
      BY <1>1, <3>1 DEF Flags
  <2>3. mixed' \in BOOLEAN
    <3>1. mixed' = mixed \/ mixed' \in BOOLEAN
      BY Either DEF Outside, Come, Go, Mute, TrackEnds, MarkerReached, history
    <3> QED
      BY <1>1, <3>1 DEF Flags
  <2> QED
    BY <1>1, <1>2, <2>1, <2>2, <2>3 DEF Flags
<1>4. JobsTyped'
  <2>1. jobs' = jobs \/ \E kind \in Kinds, u \in Everyone :
                            (kind \in {"mute", "unmute"} => u = Bot) /\ Reported(kind, u)
    <3>1. ASSUME NEW u \in Users, Come(u) \/ Go(u)
          PROVE  \E kind \in {"come", "go"} : Reported(kind, u)
      BY <3>1 DEF Come, Go
    <3>2. ASSUME Mute \/ MarkerReached
          PROVE  \E kind \in Kinds : Reported(kind, Bot)
      BY <3>2 DEF Mute, MarkerReached, Kinds
    <3>3. ASSUME TrackEnds
          PROVE  jobs' = jobs
      BY <3>3 DEF TrackEnds
    <3> QED
      BY <3>1, <3>2, <3>3 DEF Outside, Everyone, Kinds
  <2>2. CASE jobs' = jobs
    BY <1>1, <1>2, <2>2 DEF JobsTyped
  <2> QED
    BY <1>1, <1>2, <2>1, <2>2, ReportedTyped
<1>5. MainTyped'
  BY <1>1, <1>2 DEF MainTyped
<1>6. RestTyped'
  <2>1. audio' \in {"track", "marker", "none"} /\ heard' \subseteq Users
    BY <1>1 DEF RestTyped, Outside, Come, Go, Mute, TrackEnds, MarkerReached, client, cache
  <2>2. events' \in 0..MaxEvents
    BY <1>1, ConstantsAssumption
       DEF RestTyped, Outside, Come, Go, Mute, TrackEnds, MarkerReached, Bounded
  <2> QED
    BY <1>1, <1>2, <2>1, <2>2 DEF RestTyped
<1> QED
  BY <1>3, <1>4, <1>5, <1>6, TypedNext

\* A handler goes on or ends.
LEMMA ContinuesTyped ==
    ASSUME TypeInv, NEW t \in Threads,
           \/ Ends(t) \/ Returns(t)
           \/ \E p \in Places : Continues(t, p)
           \/ \E p \in Places, j \in JobType : Starts(t, j, p)
    PROVE  pc' \in [Threads -> Places] /\ job' \in [Threads -> JobType \cup {NoJob}]
<1>1. pc \in [Threads -> Places] /\ job \in [Threads -> JobType \cup {NoJob}]
  BY DEF TypeInv, TypeOK
<1>2. "idle" \in Places /\ "cache" \in Places
  BY DEF Places
<1>3. pc' \in [Threads -> Places]
  <2>1. \E p \in Places : Goto(t, p)
    BY <1>2 DEF Ends, Returns, Continues, Starts
  <2> QED
    BY <1>1, <2>1, GotoTyped
<1>4. job' \in [Threads -> JobType \cup {NoJob}]
  <2>1. job' = job \/ \E j \in JobType \cup {NoJob} : job' = [job EXCEPT ![t] = j]
    BY DEF Ends, Returns, Continues, Starts
  <2> QED
    BY <1>1, <2>1
<1> QED
  BY <1>3, <1>4

\* A handler begins with one of the events.
LEMMA BeginTyped ==
    ASSUME TypeInv, NEW t \in Threads, Begin(t)
    PROVE  TypeInv'
<1>1. Flags /\ JobsTyped /\ MainTyped /\ RestTyped
  BY Typed
<1>2. UNCHANGED <<client, timers, cache, main, byHand, mixed, events>>
  BY DEF Begin
<1>3. PICK i \in DOMAIN jobs :
          /\ jobs' = RemoveAt(jobs, i)
          /\ BeginMove(t, jobs[i]) \/ BeginMute(t, jobs[i], i) \/ BeginMarker(t, jobs[i])
  BY DEF Begin
<1>4. jobs \in Seq(JobType)
  BY <1>1 DEF JobsTyped
<1>5. /\ jobs' \in Seq(JobType) /\ jobs[i] \in JobType /\ Len(jobs) \in Nat
      /\ DOMAIN jobs = 1..Len(jobs) /\ DOMAIN jobs' = 1..(Len(jobs) - 1)
      /\ \A k \in 1..(Len(jobs) - 1) : jobs'[k] = IF k < i THEN jobs[k] ELSE jobs[k + 1]
  BY <1>3, <1>4, Taking
<1>6. pc' \in [Threads -> Places] /\ job' \in [Threads -> JobType \cup {NoJob}]
  <2>1. UNCHANGED threads \/ \E p \in Places : Starts(t, jobs[i], p)
    BY <1>3 DEF BeginMove, BeginMute, BeginMarker, Places
  <2>2. CASE UNCHANGED threads
    BY <1>1, <2>2 DEF threads, RestTyped, JobsTyped
  <2> QED
    BY <1>5, <2>1, <2>2, ContinuesTyped
<1>7. JobsTyped'
  <2>1. ASSUME NEW k \in DOMAIN jobs', IsMute(jobs'[k])
        PROVE  jobs'[k].user = Bot
    <3>1. \E m \in DOMAIN jobs : jobs'[k] = jobs[m]
      <4>1. k \in DOMAIN jobs /\ k + 1 \in DOMAIN jobs
        BY <1>5, <2>1
      <4>2. jobs'[k] = jobs[k] \/ jobs'[k] = jobs[k + 1]
        BY <1>5, <2>1
      <4> QED
        BY <4>1, <4>2
    <3> QED
      BY <1>1, <2>1, <3>1 DEF JobsTyped
  <2> QED
    BY <1>5, <1>6, <2>1 DEF JobsTyped
<1>8. Flags'
  <2>1. manually' \in BOOLEAN
    BY <1>1, <1>3 DEF BeginMove, BeginMute, BeginMarker, Flags
  <2>2. raced' \in BOOLEAN
    <3>1. raced' = raced \/ raced' \in BOOLEAN
      BY <1>3, RacesTyped DEF BeginMove, BeginMute, BeginMarker
    <3> QED
      BY <1>1, <3>1 DEF Flags
  <2> QED
    BY <1>1, <1>2, <2>1, <2>2 DEF Flags, client, cache
<1>9. MainTyped' /\ RestTyped'
  BY <1>1, <1>2, <1>6 DEF MainTyped, RestTyped, client, cache
<1> QED
  BY <1>7, <1>8, <1>9, TypedNext

\* It goes on.
LEMMA HandleTyped ==
    ASSUME TypeInv, NEW t \in Threads, Handle(t)
    PROVE  TypeInv'
<1>1. Flags /\ JobsTyped /\ MainTyped /\ RestTyped
  BY Typed
<1>2. CASE ~Begin(t)
  <2> USE <1>2
  <2>1. UNCHANGED <<manually, heard, muted, jobs, main, byHand, mixed, events>>
    BY DEF Handle, Look, check_autopause, set_autopause, AutoPauses, create_resume_timer, PushesTimer,
           vcs_setting_handle_connected, StartsTrack, Streams, client, cache, history
  <2>2. pc' \in [Threads -> Places] /\ job' \in [Threads -> JobType \cup {NoJob}]
    <3>1. CASE check_autopause(t)
      <4>1. UNCHANGED job /\ \E p \in {"set_autopause", "create_resume_timer", "cache"} : Goto(t, p)
        BY <3>1 DEF check_autopause
      <4>2. \E p \in Places : Continues(t, p)
        BY <4>1 DEF Continues, Places
      <4> QED
        BY <4>2, ContinuesTyped
    <3>2. CASE ~check_autopause(t)
      <4>1. \/ Ends(t) \/ Returns(t)
            \/ \E p \in Places : Continues(t, p)
        BY <3>2 DEF Handle, Look, set_autopause, AutoPauses, create_resume_timer, PushesTimer,
                    vcs_setting_handle_connected, StartsTrack, Streams, Places
      <4> QED
        BY <4>1, ContinuesTyped
    <3> QED
      BY <3>1, <3>2
  <2>3. JobsTyped'
    BY <1>1, <2>1, <2>2 DEF JobsTyped
  <2>4. Flags'
    <3>1. paused' \in BOOLEAN
      BY <1>1 DEF Flags, Handle, Look, check_autopause, set_autopause, AutoPauses, create_resume_timer,
                  PushesTimer, vcs_setting_handle_connected, StartsTrack, Streams, client
    <3>2. cached' \in BOOLEAN
      <4>1. cached' = cached \/ cached' = (job[t].kind = "mute")
        BY DEF Handle, Look, check_autopause, set_autopause, AutoPauses, create_resume_timer,
               PushesTimer, vcs_setting_handle_connected, StartsTrack, Streams, cache
      <4> QED
        BY <1>1, <4>1 DEF Flags
    <3>3. raced' \in BOOLEAN
      <4>1. raced' = raced \/ raced' \in BOOLEAN
        BY RacesTyped DEF Handle, Look, check_autopause, set_autopause, AutoPauses, create_resume_timer,
                          PushesTimer, vcs_setting_handle_connected, StartsTrack, Streams, history
      <4> QED
        BY <1>1, <4>1 DEF Flags
    <3> QED
      BY <1>1, <2>1, <3>1, <3>2, <3>3 DEF Flags
  <2>5. MainTyped'
    <3>1. timers \subseteq timers' /\ timers' \subseteq timers \cup {job[t].user}
      BY DEF Handle, Look, check_autopause, set_autopause, AutoPauses, create_resume_timer,
             PushesTimer, vcs_setting_handle_connected, StartsTrack, Streams
    <3>2. job[t].user \in Everyone
      BY <1>1 DEF JobsTyped, JobType, NoJob, Everyone
    <3> QED
      BY <1>1, <2>1, <3>1, <3>2 DEF MainTyped
  <2>6. RestTyped'
    <3>1. audio' \in {"track", "marker", "none"}
      BY <1>1 DEF RestTyped, Handle, Look, check_autopause, set_autopause, AutoPauses, create_resume_timer,
                  PushesTimer, vcs_setting_handle_connected, StartsTrack, Streams, client
    <3> QED
      BY <1>1, <2>1, <2>2, <3>1 DEF RestTyped
  <2> QED
    BY <2>3, <2>4, <2>5, <2>6, TypedNext
<1> QED
  BY <1>2, BeginTyped

\* The main loop looks at a timer.
LEMMA TimersTyped ==
    ASSUME TypeInv, check_resume_timers
    PROVE  TypeInv'
<1>1. Flags /\ JobsTyped /\ MainTyped /\ RestTyped
  BY Typed
<1>2. UNCHANGED <<audio, cache, jobs, threads, history, events>>
  BY DEF check_resume_timers, Expires, clear_manually_paused, Resumes, client
<1>3. paused' \in BOOLEAN /\ manually' \in BOOLEAN
  BY <1>1 DEF Flags, check_resume_timers, Expires, clear_manually_paused, Resumes, client
<1>4. Flags' /\ JobsTyped' /\ RestTyped'
  BY <1>1, <1>2, <1>3 DEF Flags, JobsTyped, RestTyped, cache, threads, history
<1>5. MainTyped'
  <2>1. ASSUME NEW u \in Everyone, Expires(u)
        PROVE  MainTyped'
    BY <1>1, <2>1 DEF MainTyped, Expires, Resting
  <2>2. CASE clear_manually_paused
    BY <1>1, <2>2 DEF MainTyped, clear_manually_paused, Resting
  <2>3. CASE Resumes
    <3>1. timers' \subseteq timers /\ main' = Resting
      BY <2>3 DEF Resumes
    <3>2. Resting \in [at : {"idle", "clear", "resume"}, user : Everyone]
      BY DEF Resting, Everyone
    <3> QED
      BY <1>1, <3>1, <3>2 DEF MainTyped, Resting
  <2> QED
    BY <2>1, <2>2, <2>3 DEF check_resume_timers, Everyone
<1> QED
  BY <1>4, <1>5, TypedNext

\* Every step keeps the types.
LEMMA StepTyped == TypeInv /\ [Next]_vars => TypeInv'
<1> SUFFICES ASSUME TypeInv, [Next]_vars
             PROVE  TypeInv'
  OBVIOUS
<1>1. CASE UNCHANGED vars
  BY <1>1 DEF TypeInv, TypeOK, vars, client, cache, threads, history
<1>2. ASSUME NEW t \in Threads, Command(t) \/ Proceed(t)
      PROVE  TypeInv'
  BY <1>2, CommandsTyped, HandleTyped DEF Proceed
<1> QED
  BY <1>1, <1>2, OutsideTyped, TimersTyped DEF Next

\* The types hold throughout.
LEMMA TypeInvHolds == Spec => []TypeInv
  BY InitTyped, StepTyped, PTL DEF Spec

\* Every variable has its type, and the timer that the main loop is at stays in the
\* list until it is done with (check_resume_timers): nobody else takes one out.
THEOREM TypeCorrect == Spec => []TypeOK
<1>1. TypeInv => TypeOK
  BY DEF TypeInv
<1> QED
  BY <1>1, TypeInvHolds, PTL

----------------------------------------------------------------------------
(***************************************************************************)
(* A pause by hand holds: it is in the table, and neither a timer nor the  *)
(* handler of a marker that could end it is there.                         *)
(***************************************************************************)
HandKept == byHand /\ ~raced => paused /\ manually /\ timers = {} /\ ~Pending({"marker"})

\* An event behind the others.
LEMMA JobsBehind ==
    ASSUME TypeInv, NEW kind \in Kinds, NEW u \in Everyone, Reported(kind, u)
    PROVE  /\ Len(jobs) \in Nat
           /\ DOMAIN jobs = 1..Len(jobs) /\ DOMAIN jobs' = 1..(Len(jobs) + 1)
           /\ \A k \in 1..Len(jobs) : jobs'[k] = jobs[k]
           /\ jobs'[Len(jobs) + 1].kind = kind /\ jobs'[Len(jobs) + 1].user = u
<1> DEFINE e == Job(kind, u)
<1>1. e.kind = kind /\ e.user = u /\ e \in JobType
  BY DEF Job, JobType, Everyone
<1> HIDE DEF e
<1>2. jobs \in Seq(JobType) /\ jobs' = Append(jobs, e)
  BY DEF TypeInv, TypeOK, Reported, e
<1> QED
  BY <1>1, <1>2, Reporting

\* An event is taken out.
LEMMA JobsTaken ==
    ASSUME TypeInv, NEW i \in DOMAIN jobs, jobs' = RemoveAt(jobs, i)
    PROVE  /\ Len(jobs) \in Nat /\ i \in 1..Len(jobs) /\ jobs[i] \in JobType
           /\ DOMAIN jobs = 1..Len(jobs) /\ DOMAIN jobs' = 1..(Len(jobs) - 1)
           /\ \A k \in 1..(Len(jobs) - 1) : jobs'[k] = IF k < i THEN jobs[k] ELSE jobs[k + 1]
<1>1. jobs \in Seq(JobType)
  BY DEF TypeInv, TypeOK
<1> QED
  BY <1>1, Taking

\* An event of another kind behind the others.
LEMMA NotReported ==
    ASSUME TypeInv, NEW kinds, NEW kind \in Kinds, NEW u \in Everyone, kind \notin kinds,
           Reported(kind, u), ~Pending(kinds)
    PROVE  ~Pending(kinds)'
<1>1. ASSUME NEW i \in DOMAIN jobs'
      PROVE  jobs'[i].kind \notin kinds
  <2>1. CASE i \in 1..Len(jobs)
    BY <2>1, JobsBehind DEF Pending
  <2>2. CASE i = Len(jobs) + 1
    BY <2>2, JobsBehind
  <2> QED
    BY <1>1, <2>1, <2>2, JobsBehind
<1> QED
  BY <1>1 DEF Pending

\* An event that is taken out leaves no new one.
LEMMA NotBegun ==
    ASSUME TypeInv, NEW kinds, NEW i \in DOMAIN jobs, jobs' = RemoveAt(jobs, i), ~Pending(kinds)
    PROVE  ~Pending(kinds)'
<1>1. ASSUME NEW k \in DOMAIN jobs'
      PROVE  jobs'[k].kind \notin kinds
  <2>1. k \in DOMAIN jobs /\ k + 1 \in DOMAIN jobs
    BY <1>1, JobsTaken
  <2>2. jobs'[k] = jobs[k] \/ jobs'[k] = jobs[k + 1]
    BY <1>1, JobsTaken
  <2> QED
    BY <2>1, <2>2 DEF Pending
<1> QED
  BY <1>1 DEF Pending

\* Both histories stay.
LEMMA RacesStays ==
    ASSUME NEW b, Races(b)
    PROVE  raced => raced'
  BY DEF Races

\* What once happened stays in the history.
LEMMA MixedStays ==
    ASSUME NEW b, mixed' = (mixed \/ b)
    PROVE  mixed => mixed'
  OBVIOUS

\* What was raced stays so.
LEMMA RacedStays ==
    ASSUME [Next]_vars
    PROVE  (raced => raced') /\ (mixed => mixed')
<1>1. ASSUME NEW t \in Threads, Command(t) \/ CommandProceeds(t)
      PROVE  (UNCHANGED raced \/ \E b : Races(b)) /\ UNCHANGED mixed
  BY <1>1 DEF Command, CommandProceeds, Pause, Play, Skip, Stop, set_manually_paused, Unpause, StopPauses,
              history
<1>2. ASSUME NEW t \in Threads, Handle(t)
      PROVE  (UNCHANGED raced \/ \E b : Races(b)) /\ UNCHANGED mixed
  BY <1>2 DEF Handle, Begin, BeginMove, BeginMute, BeginMarker, Look, check_autopause, set_autopause,
              AutoPauses, create_resume_timer, PushesTimer, vcs_setting_handle_connected, StartsTrack,
              Streams, history
<1>3. ASSUME Outside \/ check_resume_timers \/ UNCHANGED vars
      PROVE  UNCHANGED raced \/ \E b : Races(b)
  BY <1>3 DEF Outside, Come, Go, Mute, TrackEnds, MarkerReached, check_resume_timers, Expires,
              clear_manually_paused, Resumes, history, vars
<1>4. ASSUME Outside \/ check_resume_timers \/ UNCHANGED vars
      PROVE  UNCHANGED mixed \/ \E b : mixed' = (mixed \/ b)
  BY <1>4 DEF Outside, Come, Go, Mute, TrackEnds, MarkerReached, check_resume_timers, Expires,
              clear_manually_paused, Resumes, history, vars
<1>5. /\ UNCHANGED raced \/ \E b : Races(b)
      /\ UNCHANGED mixed \/ \E b : mixed' = (mixed \/ b)
  BY <1>1, <1>2, <1>3, <1>4 DEF Next, Proceed
<1> QED
  BY <1>5, RacesStays, MixedStays

\* Commands: whoever ends the pause by hand says so.
LEMMA HandCommands ==
    ASSUME TypeInv, HandKept, NEW t \in Threads, Command(t) \/ CommandProceeds(t), byHand', ~raced'
    PROVE  paused' /\ manually' /\ timers' = {} /\ ~Pending({"marker"})'
<1>1. UNCHANGED <<jobs, timers>>
  BY DEF Command, CommandProceeds, Pause, Play, Skip, Stop, set_manually_paused, Unpause, StopPauses
<1>2. CASE set_manually_paused(t)
  BY <1>1, <1>2 DEF set_manually_paused, Races, client, Pending
<1>3. CASE Pause(t) \/ StopPauses(t) \/ Unpause(t)
  BY <1>1, <1>3 DEF Pause, StopPauses, Unpause, HandKept, Races, history, Pending
<1>4. CASE Play(t) \/ Skip(t) \/ Stop(t)
  BY <1>4 DEF Play, Skip, Stop
<1> QED
  BY <1>2, <1>3, <1>4 DEF Command, CommandProceeds

\* Handlers: whoever has looked at the table before says so.
LEMMA HandHandlers ==
    ASSUME TypeInv, HandKept, NEW t \in Threads, Handle(t), byHand', ~raced'
    PROVE  paused' /\ manually' /\ timers' = {} /\ ~Pending({"marker"})'
<1>1. byHand /\ (~raced => paused /\ manually /\ timers = {} /\ ~Pending({"marker"}))
  BY DEF HandKept, Handle, Begin, Look, check_autopause, set_autopause, AutoPauses,
         create_resume_timer, PushesTimer, vcs_setting_handle_connected, StartsTrack, Streams, history
<1>2. ~raced
  BY RacedStays DEF Next, Proceed
<1>3. CASE Begin(t)
  <2>1. PICK i \in DOMAIN jobs :
            /\ jobs' = RemoveAt(jobs, i)
            /\ BeginMove(t, jobs[i]) \/ BeginMute(t, jobs[i], i) \/ BeginMarker(t, jobs[i])
    BY <1>3 DEF Begin
  <2>2. UNCHANGED <<paused, timers>>
    BY <1>3 DEF Begin, client
  <2>3. ~Pending({"marker"})'
    BY <1>1, <1>2, <2>1, NotBegun
  <2>4. manually'
    BY <1>1, <1>2, <2>1 DEF BeginMove, BeginMute, BeginMarker, Pending
  <2> QED
    BY <1>1, <1>2, <2>2, <2>3, <2>4
<1>4. CASE ~Begin(t)
  <2>1. UNCHANGED <<manually, jobs>>
    BY <1>4 DEF Handle, Look, check_autopause, set_autopause, AutoPauses, create_resume_timer,
                PushesTimer, vcs_setting_handle_connected, StartsTrack, Streams
  <2>2. paused' = paused \/ paused' = TRUE
    BY <1>4 DEF Handle, Look, check_autopause, set_autopause, AutoPauses, create_resume_timer,
                PushesTimer, vcs_setting_handle_connected, StartsTrack, Streams, client
  <2>3. timers' = timers
    BY <1>1, <1>2, <1>4
       DEF Handle, Look, check_autopause, set_autopause, AutoPauses, create_resume_timer,
           PushesTimer, vcs_setting_handle_connected, StartsTrack, Streams, Races
  <2> QED
    BY <1>1, <1>2, <2>1, <2>2, <2>3 DEF Pending
<1> QED
  BY <1>3, <1>4

\* What happens outside, and the main loop, which is at no timer.
LEMMA HandOutside ==
    ASSUME TypeInv, HandKept, Outside \/ check_resume_timers, byHand', ~raced'
    PROVE  paused' /\ manually' /\ timers' = {} /\ ~Pending({"marker"})'
<1>1. byHand /\ ~raced
  BY RacedStays
     DEF Next, Outside, Come, Go, Mute, TrackEnds, MarkerReached, check_resume_timers, Expires,
         clear_manually_paused, Resumes, history
<1>2. paused /\ manually /\ timers = {} /\ ~Pending({"marker"})
  BY <1>1 DEF HandKept
<1>3. main = Resting
  BY <1>2 DEF TypeInv, TypeOK
<1>4. ~check_resume_timers
  BY <1>2, <1>3 DEF check_resume_timers, Expires, clear_manually_paused, Resumes, Resting
<1>5. UNCHANGED <<paused, manually, timers>>
  BY <1>4 DEF Outside, Come, Go, Mute, TrackEnds, MarkerReached, client
<1>6. ~Pending({"marker"})'
  <2>1. CASE jobs' = jobs
    BY <1>2, <2>1 DEF Pending
  <2>2. CASE jobs' # jobs
    <3>1. \E kind \in {"come", "go", "mute", "unmute"}, u \in Everyone : Reported(kind, u)
      BY <1>2, <1>4, <2>2 DEF Outside, Come, Go, Mute, TrackEnds, MarkerReached, Everyone
    <3>2. PICK kind \in {"come", "go", "mute", "unmute"}, u \in Everyone : Reported(kind, u)
      BY <3>1
    <3>3. kind \in Kinds /\ kind \notin {"marker"}
      BY DEF Kinds
    <3> QED
      BY <1>2, <3>2, <3>3, NotReported
  <2> QED
    BY <2>1, <2>2
<1> QED
  BY <1>2, <1>5, <1>6

\* A pause by hand is kept throughout.
LEMMA HandKeptHolds == Spec => []HandKept
<1>1. Init => HandKept
  BY DEF Init, HandKept
<1>2. ASSUME TypeInv, HandKept, [Next]_vars
      PROVE  HandKept'
  <2>1. CASE UNCHANGED vars
    BY <1>2, <2>1 DEF HandKept, vars, client, history, Pending
  <2>2. CASE Next
    <3>1. ASSUME byHand', ~raced'
          PROVE  paused' /\ manually' /\ timers' = {} /\ ~Pending({"marker"})'
      BY <1>2, <2>2, <3>1, HandCommands, HandHandlers, HandOutside DEF Next, Proceed
    <3> QED
      BY <3>1 DEF HandKept
  <2> QED
    BY <1>2, <2>1, <2>2
<1> QED
  BY <1>1, <1>2, TypeInvHolds, PTL DEF Spec

\* What was paused by hand is not resumed by those who come, by the end of a mute or
\* by the main loop: while it holds the guild is in manually_paused and no timer,
\* and no handler of a marker, is there that would take it out; whoever begins one
\* looks at the table first (handle_non_sha_voice_state_update, set_autopause,
\* create_resume_timer).
THEOREM HandCorrect == Spec => HandHolds
<1>1. HandKept' => (paused /\ byHand /\ ~paused' => ~byHand' \/ raced')
  BY DEF HandKept
<1> QED
  BY <1>1, HandKeptHolds, PTL DEF HandHolds

----------------------------------------------------------------------------
(***************************************************************************)
(* Nothing is played to an empty channel: somebody is about to pause.      *)
(***************************************************************************)
\* What a handler is about, by the place it is at.
KindAt(t) ==
    /\ job[t].kind \in {"come", "go"} => job[t].user \in Users
    /\ pc[t] \in {"create_resume_timer", "push"} => job[t].kind = "come" \/ IsMute(job[t])
    /\ pc[t] \in {"cache", "compare"} => IsMute(job[t])
    /\ pc[t] = "look" => job[t].kind \in {"come", "go"}
    /\ pc[t] \in {"set_autopause", "pause"} => job[t].kind = "go" \/ IsMute(job[t])

KindsOK ==
    /\ \A i \in DOMAIN jobs : jobs[i].kind \in {"come", "go"} => jobs[i].user \in Users
    /\ \A t \in Threads : KindAt(t)

\* A thread is to start the next track.
Streaming(t) == pc[t] \in {"start", "play"}
NobodyStarts == \A t \in Threads : ~Streaming(t)

\* The marker is in the voice client, on its way, or with one handler.
OneMarker ==
    /\ audio # "none" => ~Pending({"marker"}) /\ NobodyStarts
    /\ Pending({"marker"}) => NobodyStarts
    /\ \A i, k \in DOMAIN jobs : jobs[i].kind = "marker" /\ jobs[k].kind = "marker" => i = k
    /\ \A s, t \in Threads : Streaming(s) /\ Streaming(t) => s = t

\* A guild in manually_paused is paused, or is about to be, or has nothing to play.
Stopping == \E t \in Threads : At(t, "stop")
TableMeansPaused ==
    ~raced /\ manually /\ ~paused => Stopping \/ (audio # "track" /\ NobodyStarts)

\* The main loop resumes for somebody who is there, and for nobody who paused by hand.
ResumeClears  == ~raced /\ main.at = "resume" => ~manually
ResumeIsHeard == ~raced /\ main # Resting => main.user \in heard \cup {Bot}

NotMuted == ~mixed /\ heard = {} => ~MutesPending

\* The last one's leaving is to be handled, or is being handled, or the bot stops.
Leaving(t) == job[t].kind = "go" /\ pc[t] \in {"look", "set_autopause", "pause"}
PauseComes ==
    ~raced /\ ~mixed /\ heard = {} /\ ~paused /\ audio = "track" =>
        Pending({"go"}) \/ Stopping \/ \E t \in Threads : Leaving(t)

\* The inductive invariant of PausedWhenAlone.
AloneInv ==
    /\ TypeInv /\ KindsOK /\ OneMarker
    /\ TableMeansPaused /\ ResumeClears /\ ResumeIsHeard
    /\ NotMuted /\ PauseComes

\* A step of a thread leaves the others where they are.
LEMMA OthersStay ==
    ASSUME TypeInv, NEW t \in Threads, Command(t) \/ Proceed(t)
    PROVE  /\ \A s \in Threads \ {t} : pc'[s] = pc[s] /\ job'[s] = job[s]
           /\ UNCHANGED <<heard, muted, mixed>>
<1>1. pc \in [Threads -> Places] /\ job \in [Threads -> JobType \cup {NoJob}]
  BY DEF TypeInv, TypeOK
<1>2. (pc' = pc \/ \E p : Goto(t, p)) /\ (job' = job \/ \E j : job' = [job EXCEPT ![t] = j])
  <2>1. CASE Command(t) \/ CommandProceeds(t)
    BY <2>1 DEF Command, CommandProceeds, Pause, Play, Skip, Stop, set_manually_paused, Unpause,
                StopPauses, threads
  <2>2. CASE Begin(t)
    BY <2>2 DEF Begin, BeginMove, BeginMute, BeginMarker, Starts, threads
  <2>3. CASE Handle(t) /\ ~Begin(t)
    BY <2>3 DEF Handle, Look, check_autopause, set_autopause, AutoPauses, create_resume_timer,
                PushesTimer, vcs_setting_handle_connected, StartsTrack, Streams,
                Ends, Returns, Continues
  <2> QED
    BY <2>1, <2>2, <2>3 DEF Proceed
<1>3. \A s \in Threads \ {t} : pc'[s] = pc[s]
  BY <1>1, <1>2 DEF Goto
<1>4. \A s \in Threads \ {t} : job'[s] = job[s]
  BY <1>1, <1>2
<1>5. UNCHANGED <<heard, muted, mixed>>
  BY DEF Proceed, Command, CommandProceeds, Pause, Play, Skip, Stop, set_manually_paused, Unpause,
         StopPauses, Handle, Begin, Look, check_autopause, set_autopause, AutoPauses,
         create_resume_timer, PushesTimer, vcs_setting_handle_connected, StartsTrack, Streams,
         cache, history
<1> QED
  BY <1>3, <1>4, <1>5

\* Where a command goes.
LEMMA CommandGoes ==
    ASSUME TypeInv, NEW t \in Threads, Command(t) \/ CommandProceeds(t)
    PROVE  /\ UNCHANGED <<jobs, job, timers, main, cached>>
           /\ pc[t] \in {"idle", "set_manually_paused", "unpause", "stop"}
           /\ pc'[t] \in {"idle", "set_manually_paused", "unpause", "stop"}
<1>1. pc \in [Threads -> Places]
  BY DEF TypeInv, TypeOK
<1>2. /\ UNCHANGED <<jobs, job, timers, main, cached>>
      /\ pc[t] \in {"idle", "set_manually_paused", "unpause", "stop"}
      /\ pc' = pc \/ \E p \in {"idle", "set_manually_paused", "unpause", "stop"} : Goto(t, p)
  BY DEF Command, CommandProceeds, Pause, Play, Skip, Stop, set_manually_paused, Unpause,
         StopPauses, Calling, At, threads, cache
<1> QED
  BY <1>1, <1>2 DEF Goto

\* Where a handler begins.
LEMMA BeginGoes ==
    ASSUME TypeInv, NEW t \in Threads, Begin(t)
    PROVE  \E i \in DOMAIN jobs :
              /\ jobs' = RemoveAt(jobs, i)
              /\ pc[t] = "idle"
              /\ \/ /\ jobs[i].kind \in {"come", "go"} /\ manually /\ manually'
                    /\ pc' = pc /\ job' = job
                 \/ /\ jobs[i].kind \in {"come", "go"} /\ ~manually /\ manually' = manually
                    /\ pc'[t] = "look" /\ job'[t] = jobs[i]
                 \/ /\ IsMute(jobs[i]) /\ manually' = manually
                    /\ pc'[t] \in {"cache", "compare"} /\ job'[t] = jobs[i]
                 \/ /\ jobs[i].kind = "marker" /\ manually' = FALSE
                    /\ pc'[t] = "start" /\ job'[t] = jobs[i]
<1>1. pc \in [Threads -> Places] /\ job \in [Threads -> JobType \cup {NoJob}]
  BY DEF TypeInv, TypeOK
<1>2. PICK i \in DOMAIN jobs :
          /\ jobs' = RemoveAt(jobs, i)
          /\ BeginMove(t, jobs[i]) \/ BeginMute(t, jobs[i], i) \/ BeginMarker(t, jobs[i])
  BY DEF Begin
<1>3. \A p : Starts(t, jobs[i], p) => pc'[t] = p /\ job'[t] = jobs[i]
  BY <1>1 DEF Starts, Goto
<1>4. pc[t] = "idle"
  BY DEF Begin, At
<1>5. CASE BeginMove(t, jobs[i])
  BY <1>2, <1>3, <1>4, <1>5 DEF BeginMove, threads
<1>6. CASE BeginMute(t, jobs[i], i)
  BY <1>2, <1>3, <1>4, <1>6 DEF BeginMute
<1>7. CASE BeginMarker(t, jobs[i])
  BY <1>2, <1>3, <1>4, <1>7 DEF BeginMarker
<1> QED
  BY <1>2, <1>5, <1>6, <1>7

\* A handler is over, or remembers the bot's own state first; or goes on.
Back(t) == pc'[t] = "idle" /\ job'[t] = NoJob
On(t, where) == pc'[t] = where /\ job'[t] = job[t]
BackOrCache(t) == IF IsMute(job[t]) THEN On(t, "cache") ELSE Back(t)

\* What Ends, Returns and Continues do.
LEMMA Goes ==
    ASSUME TypeInv, NEW t \in Threads
    PROVE  /\ Returns(t) => Back(t)
           /\ Ends(t) => BackOrCache(t)
           /\ \A p \in Places : Continues(t, p) => On(t, p)
<1>1. pc \in [Threads -> Places] /\ job \in [Threads -> JobType \cup {NoJob}]
  BY DEF TypeInv, TypeOK
<1>2. Returns(t) => Back(t)
  BY <1>1 DEF Returns, Back, Goto
<1>3. ASSUME NEW p, Goto(t, p), UNCHANGED job
      PROVE  On(t, p)
  BY <1>1, <1>3 DEF Goto, On
<1> QED
  BY <1>2, <1>3 DEF Ends, BackOrCache, Continues

\* Where a handler goes on, and what it changes there.
LEMMA HandleGoes ==
    ASSUME TypeInv, NEW t \in Threads, Handle(t), ~Begin(t)
    PROVE  /\ UNCHANGED <<jobs, manually, main>>
           /\ \/ /\ pc[t] = "look" /\ UNCHANGED <<client, timers, cached>>
                 /\ audio = "track" /\ (job[t].kind = "come" <=> paused)
                 /\ On(t, IF paused THEN "create_resume_timer" ELSE "set_autopause")
              \/ /\ pc[t] = "look" /\ UNCHANGED <<client, timers, cached>>
                 /\ ~(audio = "track" /\ (job[t].kind = "come" <=> paused))
                 /\ Back(t)
              \/ /\ pc[t] = "compare" /\ UNCHANGED <<client, timers, cached>>
                 /\ \E p \in {"set_autopause", "create_resume_timer", "cache"} : On(t, p)
              \/ /\ pc[t] = "set_autopause" /\ UNCHANGED <<client, timers, cached>>
                 /\ ~manually /\ (IsMute(job[t]) \/ heard = {}) /\ On(t, "pause")
              \/ /\ pc[t] = "set_autopause" /\ UNCHANGED <<client, timers, cached>>
                 /\ ~(~manually /\ (IsMute(job[t]) \/ heard = {})) /\ BackOrCache(t)
              \/ /\ pc[t] = "pause" /\ paused' /\ UNCHANGED <<audio, timers, cached>>
                 /\ BackOrCache(t)
              \/ /\ pc[t] = "create_resume_timer" /\ UNCHANGED <<client, timers, cached>>
                 /\ BackOrCache(t) \/ On(t, "push")
              \/ /\ pc[t] = "push" /\ UNCHANGED <<client, cached>>
                 /\ timers' = timers \cup {job[t].user} /\ main = Resting /\ BackOrCache(t)
              \/ /\ pc[t] = "cache" /\ UNCHANGED <<client, timers>> /\ Back(t)
              \/ /\ pc[t] = "start" /\ UNCHANGED <<client, timers, cached>>
                 /\ Back(t) \/ On(t, "play")
              \/ /\ pc[t] = "play" /\ UNCHANGED <<paused, timers, cached>>
                 /\ audio' = "track" /\ Races(heard = {}) /\ Back(t)
<1>1. pc \in [Threads -> Places] /\ job \in [Threads -> JobType \cup {NoJob}]
  BY DEF TypeInv, TypeOK
<1>2. CASE Look(t)
  BY <1>2, Goes DEF Look, At, cache, Places
<1>3. CASE check_autopause(t)
  <2>1. UNCHANGED job /\ \E p \in {"set_autopause", "create_resume_timer", "cache"} : Goto(t, p)
    BY <1>3 DEF check_autopause
  <2>2. \E p \in {"set_autopause", "create_resume_timer", "cache"} : On(t, p)
    BY <1>1, <2>1 DEF Goto, On
  <2> QED
    BY <1>3, <2>2 DEF check_autopause, At, cache
<1>4. CASE set_autopause(t)
  BY <1>4, Goes DEF set_autopause, At, cache, Places
<1>5. CASE AutoPauses(t)
  BY <1>5, Goes DEF AutoPauses, At, cache
<1>6. CASE create_resume_timer(t)
  BY <1>6, Goes DEF create_resume_timer, At, cache, Places
<1>7. CASE PushesTimer(t)
  BY <1>7, Goes DEF PushesTimer, At, cache
<1>8. CASE vcs_setting_handle_connected(t)
  BY <1>8, Goes DEF vcs_setting_handle_connected, At
<1>9. CASE StartsTrack(t)
  BY <1>9, Goes DEF StartsTrack, At, cache, Places
<1>10. CASE Streams(t)
  BY <1>10, Goes DEF Streams, At, cache
<1> QED
  BY <1>2, <1>3, <1>4, <1>5, <1>6, <1>7, <1>8, <1>9, <1>10 DEF Handle

\* Every step of a thread keeps KindsOK.
LEMMA KindsThread ==
    ASSUME TypeInv, KindsOK, NEW t \in Threads, Command(t) \/ Proceed(t)
    PROVE  KindsOK'
<1>1. /\ \A i \in DOMAIN jobs : jobs[i].kind \in {"come", "go"} => jobs[i].user \in Users
      /\ \A s \in Threads : KindAt(s)
  BY DEF KindsOK, KindAt
<1>2. \A s \in Threads \ {t} : KindAt(s)'
  BY <1>1, OthersStay DEF KindAt, IsMute
<1>3. /\ \A i \in DOMAIN jobs' : jobs'[i].kind \in {"come", "go"} => jobs'[i].user \in Users
      /\ KindAt(t)'
  <2>1. CASE Command(t) \/ CommandProceeds(t)
    BY <1>1, <2>1, CommandGoes DEF KindAt, IsMute
  <2>2. CASE Begin(t)
    <3>1. PICK i \in DOMAIN jobs :
              /\ jobs' = RemoveAt(jobs, i)
              /\ pc[t] = "idle"
              /\ \/ pc' = pc /\ job' = job
                 \/ /\ jobs[i].kind \in {"come", "go"} /\ pc'[t] = "look" /\ job'[t] = jobs[i]
                 \/ /\ IsMute(jobs[i]) /\ pc'[t] \in {"cache", "compare"} /\ job'[t] = jobs[i]
                 \/ /\ jobs[i].kind = "marker" /\ pc'[t] = "start" /\ job'[t] = jobs[i]
      BY <2>2, BeginGoes
    <3>2. KindAt(t)'
      BY <1>1, <3>1 DEF KindAt, IsMute
    <3>3. ASSUME NEW k \in DOMAIN jobs', jobs'[k].kind \in {"come", "go"}
          PROVE  jobs'[k].user \in Users
      <4>1. k \in DOMAIN jobs /\ k + 1 \in DOMAIN jobs
        BY <3>1, <3>3, JobsTaken
      <4>2. jobs'[k] = jobs[k] \/ jobs'[k] = jobs[k + 1]
        BY <3>1, <3>3, JobsTaken
      <4> QED
        BY <1>1, <3>3, <4>1, <4>2
    <3> QED
      BY <3>2, <3>3
  <2>3. CASE Handle(t) /\ ~Begin(t)
    <3>1. KindAt(t) /\ jobs' = jobs
      BY <1>1, <2>3, HandleGoes
    <3>2. \/ Back(t)
          \/ BackOrCache(t)
          \/ \E p \in {"set_autopause", "create_resume_timer", "cache"} : IsMute(job[t]) /\ On(t, p)
          \/ pc[t] = "look" /\ job[t].kind = "come" /\ On(t, "create_resume_timer")
          \/ pc[t] = "look" /\ job[t].kind = "go" /\ On(t, "set_autopause")
          \/ pc[t] = "set_autopause" /\ On(t, "pause")
          \/ pc[t] = "create_resume_timer" /\ On(t, "push")
          \/ On(t, "play")
      BY <2>3, <3>1, HandleGoes DEF KindAt
    <3>3. KindAt(t)'
      BY <3>1, <3>2 DEF KindAt, Back, BackOrCache, On, IsMute, NoJob
    <3> QED
      BY <1>1, <3>1, <3>3
  <2> QED
    BY <2>1, <2>2, <2>3 DEF Proceed
<1> QED
  BY <1>2, <1>3 DEF KindsOK, KindAt

\* So does everything else.
LEMMA KindsOutside ==
    ASSUME TypeInv, KindsOK, Outside \/ check_resume_timers \/ UNCHANGED vars
    PROVE  KindsOK'
<1>1. UNCHANGED <<pc, job>>
  BY DEF Outside, Come, Go, Mute, TrackEnds, MarkerReached, check_resume_timers, Expires,
         clear_manually_paused, Resumes, threads, vars
<1>2. \/ jobs' = jobs
      \/ \E kind \in Kinds, u \in Everyone : (kind \in {"come", "go"} => u \in Users) /\ Reported(kind, u)
  <2>1. ASSUME NEW u \in Users, Come(u) \/ Go(u)
        PROVE  \E kind \in {"come", "go"} : Reported(kind, u)
    BY <2>1 DEF Come, Go
  <2>2. ASSUME Mute \/ MarkerReached
        PROVE  \E kind \in {"mute", "unmute", "marker"} : Reported(kind, Bot)
    BY <2>2 DEF Mute, MarkerReached
  <2>3. ASSUME TrackEnds \/ check_resume_timers \/ UNCHANGED vars
        PROVE  jobs' = jobs
    BY <2>3 DEF TrackEnds, check_resume_timers, Expires, clear_manually_paused, Resumes, vars
  <2> QED
    BY <2>1, <2>2, <2>3 DEF Outside, Everyone, Kinds
<1>3. ASSUME NEW i \in DOMAIN jobs', jobs'[i].kind \in {"come", "go"}
      PROVE  jobs'[i].user \in Users
  <2>1. CASE jobs' = jobs
    BY <1>3, <2>1 DEF KindsOK
  <2>2. CASE jobs' # jobs
    <3>1. PICK kind \in Kinds, u \in Everyone : (kind \in {"come", "go"} => u \in Users) /\ Reported(kind, u)
      BY <1>2, <2>2
    <3>2. CASE i = Len(jobs) + 1
      BY <1>3, <3>1, <3>2, JobsBehind
    <3>3. CASE i \in 1..Len(jobs)
      BY <1>3, <3>1, <3>3, JobsBehind DEF KindsOK
    <3> QED
      BY <1>3, <3>1, <3>2, <3>3, JobsBehind
  <2> QED
    BY <2>1, <2>2
<1> QED
  BY <1>1, <1>3 DEF KindsOK, KindAt, IsMute

\* Events that move up stay one of a kind.
LEMMA OneTaken ==
    ASSUME TypeInv, NEW i \in DOMAIN jobs, jobs' = RemoveAt(jobs, i),
           \A j, k \in DOMAIN jobs : jobs[j].kind = "marker" /\ jobs[k].kind = "marker" => j = k
    PROVE  /\ \A j, k \in DOMAIN jobs' : jobs'[j].kind = "marker" /\ jobs'[k].kind = "marker" => j = k
           /\ jobs[i].kind = "marker" => ~Pending({"marker"})'
<1> DEFINE From(k) == IF k < i THEN k ELSE k + 1
<1>1. ASSUME NEW k \in DOMAIN jobs'
      PROVE  /\ k \in Int /\ i \in Int
             /\ From(k) \in DOMAIN jobs /\ jobs'[k] = jobs[From(k)] /\ From(k) # i
  BY <1>1, JobsTaken
<1>2. ASSUME NEW j \in DOMAIN jobs', NEW k \in DOMAIN jobs',
             jobs'[j].kind = "marker", jobs'[k].kind = "marker"
      PROVE  j = k
  <2>1. From(j) = From(k)
    <3> HIDE DEF From
    <3> QED
      BY <1>1, <1>2
  <2> QED
    BY <1>1, <2>1
<1>3. ASSUME jobs[i].kind = "marker", NEW k \in DOMAIN jobs'
      PROVE  jobs'[k].kind \notin {"marker"}
  <2> HIDE DEF From
  <2> QED
    BY <1>1, <1>3
<1> QED
  BY <1>2, <1>3 DEF Pending

\* A step of a thread hands the marker on to one thread, or drops it.
LEMMA MarkerThread ==
    ASSUME TypeInv, OneMarker, NEW t \in Threads, Command(t) \/ Proceed(t)
    PROVE  OneMarker'
<1>1. \A s \in Threads \ {t} : Streaming(s)' <=> Streaming(s)
  BY OthersStay DEF Streaming
<1>2. CASE ~Begin(t)
  <2>1. jobs' = jobs /\ (Streaming(t)' => Streaming(t))
    <3>1. CASE Command(t) \/ CommandProceeds(t)
      BY <3>1, CommandGoes DEF Streaming
    <3>2. CASE Handle(t)
      BY <1>2, <3>2, HandleGoes DEF Streaming, Back, BackOrCache, On
    <3> QED
      BY <3>1, <3>2 DEF Proceed
  <2>2. audio' # "none" => audio # "none" \/ (Streaming(t) /\ ~Streaming(t)')
    <3>1. CASE Command(t) \/ CommandProceeds(t)
      BY <3>1 DEF Command, CommandProceeds, Pause, Play, Skip, Stop, set_manually_paused, Unpause,
                  StopPauses, skip_playback, client
    <3>2. CASE Handle(t)
      BY <1>2, <3>2, HandleGoes DEF Streaming, Back, client
    <3> QED
      BY <3>1, <3>2 DEF Proceed
  <2>3. audio' # "none" => ~Pending({"marker"}) /\ NobodyStarts'
    BY <1>1, <2>1, <2>2 DEF OneMarker, NobodyStarts
  <2>4. Pending({"marker"}) => NobodyStarts'
    BY <1>1, <2>1 DEF OneMarker, NobodyStarts
  <2>5. \A r, s \in Threads : Streaming(r)' /\ Streaming(s)' => r = s
    BY <1>1, <2>1 DEF OneMarker
  <2> QED
    BY <2>1, <2>3, <2>4, <2>5 DEF OneMarker, Pending
<1>3. CASE Begin(t)
  <2>1. audio' = audio
    BY <1>3 DEF Begin, client
  <2>2. PICK i \in DOMAIN jobs :
            /\ jobs' = RemoveAt(jobs, i)
            /\ pc[t] = "idle"
            /\ IF jobs[i].kind = "marker" THEN pc'[t] = "start"
                                          ELSE pc'[t] \in {"idle", "look", "cache", "compare"}
    BY <1>3, BeginGoes DEF IsMute
  <2>3. /\ \A j, k \in DOMAIN jobs' : jobs'[j].kind = "marker" /\ jobs'[k].kind = "marker" => j = k
        /\ jobs[i].kind = "marker" => ~Pending({"marker"})'
        /\ Pending({"marker"})' => Pending({"marker"})
    BY <2>2, OneTaken, NotBegun DEF OneMarker
  <2>4. CASE jobs[i].kind = "marker"
    <3>1. audio = "none" /\ NobodyStarts
      BY <2>2, <2>4 DEF OneMarker, Pending
    <3>2. \A s \in Threads : Streaming(s)' => s = t
      BY <1>1, <3>1 DEF NobodyStarts
    <3> QED
      BY <2>1, <2>3, <2>4, <3>1, <3>2 DEF OneMarker
  <2>5. CASE jobs[i].kind # "marker"
    <3>1. ~Streaming(t) /\ ~Streaming(t)'
      BY <2>2, <2>5 DEF Streaming
    <3>2. (NobodyStarts => NobodyStarts') /\ \A r, s \in Threads : Streaming(r)' /\ Streaming(s)' => r = s
      BY <1>1, <3>1 DEF OneMarker, NobodyStarts
    <3> QED
      BY <2>1, <2>3, <3>2 DEF OneMarker
  <2> QED
    BY <2>4, <2>5
<1> QED
  BY <1>2, <1>3

\* The voice client comes to a marker, and another event is behind the others.
LEMMA MarkerOutside ==
    ASSUME TypeInv, OneMarker, Outside \/ check_resume_timers \/ UNCHANGED vars
    PROVE  OneMarker'
<1>1. pc' = pc /\ (NobodyStarts' <=> NobodyStarts) /\ \A s \in Threads : Streaming(s)' <=> Streaming(s)
  <2>1. pc' = pc
    BY DEF Outside, Come, Go, Mute, TrackEnds, MarkerReached, check_resume_timers, Expires,
           clear_manually_paused, Resumes, threads, vars
  <2> QED
    BY <2>1 DEF Streaming, NobodyStarts
<1>2. CASE jobs' = jobs
  <2>1. audio' # "none" => audio # "none"
    <3>1. ~MarkerReached \/ audio' = "none"
      BY DEF MarkerReached
    <3> QED
      BY <3>1 DEF Outside, Come, Go, Mute, TrackEnds, check_resume_timers, Expires,
                  clear_manually_paused, Resumes, client, vars
  <2> QED
    BY <1>1, <1>2, <2>1 DEF OneMarker, Pending
<1>3. CASE jobs' # jobs
  <2>1. \E kind \in Kinds, u \in Everyone :
            /\ Reported(kind, u)
            /\ IF kind = "marker" THEN audio = "marker" /\ audio' = "none" ELSE audio' = audio
    <3>1. ASSUME NEW u \in Users, Come(u) \/ Go(u)
          PROVE  audio' = audio /\ \E kind \in {"come", "go"} : Reported(kind, u)
      BY <3>1 DEF Come, Go, client
    <3>2. ASSUME Mute
          PROVE  audio' = audio /\ \E kind \in {"mute", "unmute"} : Reported(kind, Bot)
      BY <3>2 DEF Mute, client
    <3>3. ASSUME MarkerReached
          PROVE  audio = "marker" /\ audio' = "none" /\ Reported("marker", Bot)
      BY <3>3 DEF MarkerReached
    <3>4. ~TrackEnds /\ ~check_resume_timers /\ ~UNCHANGED vars
      BY <1>3 DEF TrackEnds, check_resume_timers, Expires, clear_manually_paused, Resumes, vars
    <3> QED
      BY <3>1, <3>2, <3>3, <3>4 DEF Outside, Everyone, Kinds
  <2>2. PICK kind \in Kinds, u \in Everyone :
            /\ Reported(kind, u)
            /\ IF kind = "marker" THEN audio = "marker" /\ audio' = "none" ELSE audio' = audio
    BY <2>1
  <2>3. /\ Len(jobs) \in Nat
        /\ DOMAIN jobs = 1..Len(jobs) /\ DOMAIN jobs' = 1..(Len(jobs) + 1)
        /\ \A k \in 1..Len(jobs) : jobs'[k] = jobs[k]
        /\ jobs'[Len(jobs) + 1].kind = kind
    BY <2>2, JobsBehind
  <2>4. CASE kind = "marker"
    <3>1. ~Pending({"marker"}) /\ NobodyStarts /\ audio' = "none"
      BY <2>2, <2>4 DEF OneMarker
    <3>2. ASSUME NEW j \in DOMAIN jobs', jobs'[j].kind = "marker"
          PROVE  j = Len(jobs) + 1
      BY <2>3, <3>1, <3>2 DEF Pending
    <3> QED
      BY <1>1, <3>1, <3>2 DEF OneMarker
  <2>5. CASE kind # "marker"
    <3>1. Pending({"marker"})' => Pending({"marker"})
      BY <2>2, <2>5, NotReported
    <3>2. ASSUME NEW j \in DOMAIN jobs', jobs'[j].kind = "marker"
          PROVE  j \in DOMAIN jobs /\ jobs[j].kind = "marker"
      BY <2>3, <2>5, <3>2
    <3>3. audio' = audio
      BY <2>2, <2>5
    <3> QED
      BY <1>1, <3>1, <3>2, <3>3 DEF OneMarker
  <2> QED
    BY <2>4, <2>5
<1> QED
  BY <1>2, <1>3

\* The guild is taken out of manually_paused before it plays.
LEMMA TableThread ==
    ASSUME TypeInv, OneMarker, TableMeansPaused, NEW t \in Threads, Command(t) \/ Proceed(t)
    PROVE  TableMeansPaused'
<1> SUFFICES ASSUME ~raced', manually', ~paused'
             PROVE  Stopping' \/ (audio' # "track" /\ NobodyStarts')
  BY DEF TableMeansPaused
<1>1. ~raced
  BY RacedStays DEF Next
<1>2. \A s \in Threads \ {t} : pc'[s] = pc[s]
  BY OthersStay
<1>3. ASSUME UNCHANGED <<manually, paused>>, pc[t] # "stop",
             audio' = audio \/ pc[t] = "play", Streaming(t)' => Streaming(t)
      PROVE  Stopping' \/ (audio' # "track" /\ NobodyStarts')
  <2>1. Stopping \/ (audio # "track" /\ NobodyStarts)
    BY <1>1, <1>3 DEF TableMeansPaused
  <2>2. CASE Stopping
    BY <1>2, <1>3, <2>2 DEF Stopping, At
  <2>3. CASE audio # "track" /\ NobodyStarts
    BY <1>2, <1>3, <2>3 DEF NobodyStarts, Streaming
  <2> QED
    BY <2>1, <2>2, <2>3
<1>4. CASE Command(t) \/ CommandProceeds(t)
  <2>1. CASE Pause(t) \/ StopPauses(t) \/ Play(t)
    BY <2>1 DEF Pause, StopPauses, Play
  <2>2. CASE set_manually_paused(t) \/ Unpause(t)
    <3>1. ~Unpause(t)
      BY <1>1, <2>2 DEF Unpause, Races
    <3>2. CASE set_manually_paused(t)
      <4>1. paused' = paused /\ Races(timers # {} \/ ~paused \/ Pending({"marker"}))
        BY <3>2 DEF set_manually_paused, client
      <4>2. ~paused => raced'
        BY <4>1 DEF Races
      <4> QED
        BY <4>1, <4>2
    <3> QED
      BY <2>2, <3>1, <3>2
  <2>3. CASE Skip(t)
    <3>1. audio # "none" /\ audio' = "marker" /\ pc' = pc
      BY <1>1, <2>3 DEF Skip, skip_playback, Races, threads
    <3> QED
      BY <3>1 DEF OneMarker, NobodyStarts, Streaming
  <2>4. CASE Stop(t)
    <3>1. pc'[t] = "stop"
      BY <2>4 DEF Stop, Goto, TypeInv, TypeOK
    <3> QED
      BY <3>1 DEF Stopping, At
  <2> QED
    BY <1>4, <2>1, <2>2, <2>3, <2>4 DEF Command, CommandProceeds
<1>5. CASE Handle(t) /\ ~Begin(t)
  <2>1. UNCHANGED <<manually, paused>>
    BY <1>5, HandleGoes DEF client
  <2>2. pc[t] # "stop" /\ (audio' = audio \/ pc[t] = "play") /\ (Streaming(t)' => Streaming(t))
    BY <1>5, HandleGoes DEF client, Streaming, Back, BackOrCache, On
  <2> QED
    BY <1>3, <2>1, <2>2
<1>6. CASE Begin(t)
  <2>1. audio' = audio /\ paused' = paused
    BY <1>6 DEF Begin, client
  <2>2. pc[t] = "idle" /\ manually' = manually /\ pc'[t] \in {"idle", "look", "cache", "compare"}
    BY <1>6, BeginGoes
  <2> QED
    BY <1>3, <2>1, <2>2 DEF Streaming
<1> QED
  BY <1>4, <1>5, <1>6 DEF Proceed

\* So it is by what happens outside, and by the main loop.
LEMMA TableOutside ==
    ASSUME TypeInv, TableMeansPaused, ResumeClears, Outside \/ check_resume_timers \/ UNCHANGED vars
    PROVE  TableMeansPaused'
<1> SUFFICES ASSUME ~raced', manually', ~paused'
             PROVE  Stopping' \/ (audio' # "track" /\ NobodyStarts')
  BY DEF TableMeansPaused
<1>1. ~raced
  BY RacedStays DEF Next
<1>2. pc' = pc
  BY DEF Outside, Come, Go, Mute, TrackEnds, MarkerReached, check_resume_timers, Expires,
         clear_manually_paused, Resumes, threads, vars
<1>3. manually' = manually /\ paused' = paused
  <2>1. ~clear_manually_paused
    BY DEF clear_manually_paused
  <2>2. ~Resumes
    BY <1>1 DEF Resumes, ResumeClears
  <2> QED
    BY <2>1, <2>2 DEF Outside, Come, Go, Mute, TrackEnds, MarkerReached, check_resume_timers, Expires,
                      client, vars
<1>4. Stopping \/ (audio # "track" /\ NobodyStarts)
  BY <1>1, <1>3 DEF TableMeansPaused
<1>5. audio' # "track" \/ audio' = audio
  BY DEF Outside, Come, Go, Mute, TrackEnds, MarkerReached, check_resume_timers, Expires,
         clear_manually_paused, Resumes, client, vars
<1> QED
  BY <1>2, <1>4, <1>5 DEF Stopping, NobodyStarts, Streaming, At

\* A thread neither moves the main loop on nor puts in what it has erased.
LEMMA ResumeThread ==
    ASSUME TypeInv, ResumeClears, ResumeIsHeard, NEW t \in Threads, Command(t) \/ Proceed(t)
    PROVE  ResumeClears' /\ ResumeIsHeard'
<1>1. main' = main /\ heard' = heard
  BY OthersStay, CommandGoes, HandleGoes DEF Proceed, Begin
<1>2. raced => raced'
  BY RacedStays DEF Next
<1>3. ResumeClears'
  <2>1. ASSUME ~raced', main.at = "resume", manually'
        PROVE  manually
    <3>1. main # Resting
      BY <2>1 DEF Resting
    <3>2. timers # {}
      BY <3>1 DEF TypeInv, TypeOK
    <3>3. ~set_manually_paused(t)
      BY <2>1, <3>2 DEF set_manually_paused, Races
    <3>4. CASE Command(t) \/ CommandProceeds(t)
      BY <2>1, <3>3, <3>4 DEF Command, CommandProceeds, Pause, Play, Skip, Stop, Unpause, StopPauses
    <3>5. CASE Handle(t)
      BY <2>1, <3>5, BeginGoes, HandleGoes
    <3> QED
      BY <3>4, <3>5 DEF Proceed
  <2> QED
    BY <1>1, <1>2, <2>1 DEF ResumeClears
<1> QED
  BY <1>1, <1>2, <1>3 DEF ResumeIsHeard

\* The main loop looks at who is there and erases the entry before it resumes.
LEMMA ResumeOutside ==
    ASSUME TypeInv, ResumeClears, ResumeIsHeard, Outside \/ check_resume_timers \/ UNCHANGED vars
    PROVE  ResumeClears' /\ ResumeIsHeard'
<1>1. raced => raced'
  BY RacedStays DEF Next
<1>2. main \in [at : {"idle", "clear", "resume"}, user : Everyone]
  BY DEF TypeInv
<1>3. CASE Outside \/ UNCHANGED vars
  <2>1. main' = main /\ manually' = manually
    BY <1>3 DEF Outside, Come, Go, Mute, TrackEnds, MarkerReached, vars
  <2>2. \A u : u \in heard => u \in heard' \/ (\E b : Races(b) /\ (main.user = u => b))
    <3>1. ASSUME NEW v \in Users, Go(v), NEW u \in heard, u \notin heard'
          PROVE  Races(main.user = u)
      BY <3>1 DEF Go
    <3>2. ASSUME ~\E v \in Users : Go(v)
          PROVE  heard \subseteq heard'
      BY <1>3, <3>2 DEF Outside, Come, Mute, TrackEnds, MarkerReached, cache, vars
    <3> QED
      BY <3>1, <3>2
  <2>3. ~raced' => (main.user \in heard => main.user \in heard')
    BY <2>2 DEF Races
  <2> QED
    BY <1>1, <2>1, <2>3 DEF ResumeClears, ResumeIsHeard
<1>4. CASE check_resume_timers
  <2>1. UNCHANGED <<heard, raced>>
    BY <1>4 DEF check_resume_timers, Expires, clear_manually_paused, Resumes, cache, history
  <2>2. ASSUME NEW u \in Everyone, Expires(u)
        PROVE  ResumeClears' /\ ResumeIsHeard'
    <3>1. CASE u \in heard \cup {Bot}
      <4>1. main' = [at |-> "clear", user |-> u]
        BY <2>2, <3>1 DEF Expires
      <4> QED
        BY <2>1, <3>1, <4>1 DEF ResumeClears, ResumeIsHeard
    <3>2. CASE u \notin heard \cup {Bot}
      <4>1. main' = main /\ manually' = manually
        BY <2>2, <3>2 DEF Expires
      <4> QED
        BY <2>1, <4>1 DEF ResumeClears, ResumeIsHeard
    <3> QED
      BY <3>1, <3>2
  <2>3. CASE clear_manually_paused
    <3>1. main # Resting /\ main'.user = main.user /\ ~manually'
      BY <1>2, <2>3 DEF clear_manually_paused, Resting
    <3> QED
      BY <2>1, <3>1 DEF ResumeClears, ResumeIsHeard
  <2>4. CASE Resumes
    BY <2>4 DEF Resumes, Resting, ResumeClears, ResumeIsHeard
  <2> QED
    BY <1>4, <2>2, <2>3, <2>4 DEF check_resume_timers, Everyone
<1> QED
  BY <1>3, <1>4

\* A thread starts nothing about a mute that was not reported.
LEMMA MuteThread ==
    ASSUME TypeInv, KindsOK, NotMuted, NEW t \in Threads, Command(t) \/ Proceed(t)
    PROVE  NotMuted'
<1> SUFFICES ASSUME ~mixed', heard' = {}
             PROVE  ~MutesPending'
  BY DEF NotMuted
<1>1. UNCHANGED <<heard, muted, mixed>>
  BY OthersStay
<1>2. ~MutesPending
  BY <1>1 DEF NotMuted
<1>3. ~muted /\ ~cached /\ Bot \notin timers /\ ~Pending({"mute", "unmute"}) /\ \A s \in Threads : ~IsMute(job[s])
  BY <1>2 DEF MutesPending
<1>4. KindAt(t) /\ Bot \notin Users
  BY ConstantsAssumption DEF KindsOK
<1>5. ~Pending({"mute", "unmute"})'
  <2>1. jobs' = jobs \/ \E i \in DOMAIN jobs : jobs' = RemoveAt(jobs, i)
    BY CommandGoes, BeginGoes, HandleGoes DEF Proceed
  <2>2. CASE jobs' = jobs
    BY <1>3, <2>2 DEF Pending
  <2> QED
    BY <1>3, <2>1, <2>2, NotBegun
<1>6. ~cached' /\ Bot \notin timers'
  <2>1. CASE Command(t) \/ CommandProceeds(t)
    BY <1>3, <2>1, CommandGoes
  <2>2. CASE Begin(t)
    BY <1>3, <2>2 DEF Begin, cache
  <2>3. CASE Handle(t) /\ ~Begin(t)
    <3>1. pc[t] # "cache"
      BY <1>3, <1>4 DEF KindAt
    <3>2. cached' = cached
      BY <2>3, <3>1, HandleGoes
    <3>3. timers' = timers \/ (pc[t] = "push" /\ timers' = timers \cup {job[t].user})
      BY <2>3, HandleGoes
    <3>4. pc[t] = "push" => job[t].user \in Users
      BY <1>3, <1>4 DEF KindAt
    <3> QED
      BY <1>3, <1>4, <3>2, <3>3, <3>4
  <2> QED
    BY <2>1, <2>2, <2>3 DEF Proceed
<1>7. \A s \in Threads : ~IsMute(job'[s])
  <2>1. \A s \in Threads \ {t} : ~IsMute(job'[s])
    BY <1>3, OthersStay
  <2>2. ~IsMute(job'[t])
    <3>1. CASE Begin(t)
      <4>1. PICK i \in DOMAIN jobs : job' = job \/ job'[t] = jobs[i]
        BY <3>1, BeginGoes
      <4>2. ~IsMute(jobs[i])
        BY <1>3 DEF Pending, IsMute
      <4> QED
        BY <1>3, <4>1, <4>2
    <3>2. CASE ~Begin(t)
      <4>1. job' = job \/ job'[t] = job[t] \/ job'[t] = NoJob
        BY <3>2, CommandGoes, HandleGoes DEF Proceed, Back, BackOrCache, On
      <4> QED
        BY <1>3, <4>1 DEF IsMute, NoJob
    <3> QED
      BY <3>1, <3>2
  <2> QED
    BY <2>1, <2>2
<1> QED
  BY <1>1, <1>3, <1>5, <1>6, <1>7 DEF MutesPending, IsMute

\* The last one leaves, or a moderator mutes the bot: either says so.
LEMMA MuteOutside ==
    ASSUME TypeInv, NotMuted, Outside \/ check_resume_timers \/ UNCHANGED vars
    PROVE  NotMuted'
<1> SUFFICES ASSUME ~mixed', heard' = {}
             PROVE  ~MutesPending'
  BY DEF NotMuted
<1>1. ~mixed
  BY RacedStays DEF Next
<1>2. UNCHANGED <<cached, pc, job>> /\ timers' \subseteq timers
  BY DEF Outside, Come, Go, Mute, TrackEnds, MarkerReached, check_resume_timers, Expires,
         clear_manually_paused, Resumes, threads, cache, vars
<1>3. ASSUME muted' = muted, ~MutesPending,
             jobs' = jobs \/ \E kind \in {"come", "go", "marker"}, u \in Everyone : Reported(kind, u)
      PROVE  ~MutesPending'
  <2>1. ~Pending({"mute", "unmute"})
    BY <1>3 DEF MutesPending
  <2>2. ~Pending({"mute", "unmute"})'
    <3>1. CASE jobs' = jobs
      BY <2>1, <3>1 DEF Pending
    <3>2. ASSUME NEW kind \in {"come", "go", "marker"}, NEW u \in Everyone, Reported(kind, u)
          PROVE  ~Pending({"mute", "unmute"})'
      <4>1. kind \in Kinds /\ kind \notin {"mute", "unmute"}
        BY DEF Kinds
      <4> QED
        BY <2>1, <3>2, <4>1, NotReported
    <3> QED
      BY <1>3, <3>1, <3>2
  <2> QED
    BY <1>2, <1>3, <2>2 DEF MutesPending, IsMute
<1>4. ASSUME NEW u \in Users, Go(u)
      PROVE  ~MutesPending'
  <2>1. ~MutesPending
    BY <1>4 DEF Go
  <2>2. muted' = muted /\ Reported("go", u) /\ u \in Everyone
    BY <1>4 DEF Go, Everyone
  <2> QED
    BY <1>3, <2>1, <2>2
<1>5. ASSUME ~\E u \in Users : Go(u)
      PROVE  ~MutesPending'
  <2>1. ~(\E u \in Users : Come(u)) /\ ~Mute
    <3>1. ~Mute
      BY DEF Mute
    <3> QED
      BY <3>1 DEF Come
  <2>2. TrackEnds \/ MarkerReached \/ check_resume_timers \/ UNCHANGED vars
    BY <1>5, <2>1 DEF Outside
  <2>3. UNCHANGED <<muted, heard>>
    BY <2>2 DEF TrackEnds, MarkerReached, check_resume_timers, Expires, clear_manually_paused,
                Resumes, cache, vars
  <2>4. jobs' = jobs \/ Reported("marker", Bot)
    BY <2>2 DEF TrackEnds, MarkerReached, check_resume_timers, Expires, clear_manually_paused,
                Resumes, vars
  <2>5. ~MutesPending
    BY <1>1, <2>3 DEF NotMuted
  <2> QED
    BY <1>3, <2>3, <2>4, <2>5 DEF Everyone
<1> QED
  BY <1>4, <1>5

\* Commands: nobody is there to use one.
LEMMA PauseCommands ==
    ASSUME TypeInv, PauseComes, NEW t \in Threads, Command(t) \/ CommandProceeds(t)
    PROVE  PauseComes'
<1> SUFFICES ASSUME ~raced', ~mixed', heard' = {}, ~paused', audio' = "track"
             PROVE  Pending({"go"})' \/ Stopping' \/ \E s \in Threads : Leaving(s)'
  BY DEF PauseComes
<1>1. ~raced /\ ~mixed /\ heard = {} /\ \A s \in Threads \ {t} : pc'[s] = pc[s] /\ job'[s] = job[s]
  BY RacedStays, OthersStay DEF Next, Proceed
<1>2. set_manually_paused(t)
  <2>1. ~Command(t)
    BY <1>1 DEF Command, Pause, Play, Skip, Stop, Calling
  <2>2. ~StopPauses(t)
    BY DEF StopPauses
  <2>3. ~Unpause(t)
    BY <1>1 DEF Unpause, Races
  <2> QED
    BY <2>1, <2>2, <2>3 DEF CommandProceeds
<1>3. UNCHANGED <<paused, audio, jobs>> /\ pc[t] = "set_manually_paused"
  BY <1>2 DEF set_manually_paused, client, At
<1>4. Pending({"go"}) \/ Stopping \/ \E s \in Threads : Leaving(s)
  BY <1>1, <1>3 DEF PauseComes
<1>5. (Stopping => Stopping') /\ \A s \in Threads : Leaving(s) => Leaving(s)'
  BY <1>1, <1>3 DEF Stopping, At, Leaving
<1> QED
  BY <1>3, <1>4, <1>5 DEF Pending

\* Handlers: the leaving is handled, or left alone because the bot stops.
LEMMA PauseHandlers ==
    ASSUME TypeInv, KindsOK, TableMeansPaused, PauseComes, NEW t \in Threads, Handle(t)
    PROVE  PauseComes'
<1> SUFFICES ASSUME ~raced', ~mixed', heard' = {}, ~paused', audio' = "track"
             PROVE  Pending({"go"})' \/ Stopping' \/ \E s \in Threads : Leaving(s)'
  BY DEF PauseComes
<1>1. ~raced /\ ~mixed /\ heard = {} /\ \A s \in Threads \ {t} : pc'[s] = pc[s] /\ job'[s] = job[s]
  BY RacedStays, OthersStay DEF Next, Proceed
<1>2. paused' = paused /\ audio' = audio /\ pc[t] # "stop"
  <2>1. CASE Begin(t)
    BY <2>1 DEF Begin, client, At
  <2>2. CASE ~Begin(t)
    <3>1. pc[t] # "play"
      <4>1. CASE pc[t] = "play"
        <5>1. Races(heard = {})
          BY <2>2, <4>1, HandleGoes
        <5> QED
          BY <1>1, <5>1 DEF Races
      <4> QED
        BY <4>1
    <3>2. pc[t] # "pause"
      BY <2>2, HandleGoes
    <3> QED
      BY <2>2, <3>1, <3>2, HandleGoes DEF client
  <2> QED
    BY <2>1, <2>2
<1>3. Pending({"go"}) \/ Stopping \/ \E s \in Threads : Leaving(s)
  BY <1>1, <1>2 DEF PauseComes
<1>4. Stopping => Stopping'
  BY <1>1, <1>2 DEF Stopping, At
<1>5. manually => Stopping
  BY <1>1, <1>2 DEF TableMeansPaused
<1>6. \A s \in Threads \ {t} : Leaving(s) => Leaving(s)'
  BY <1>1 DEF Leaving
<1>7. CASE Begin(t)
  <2>1. PICK i \in DOMAIN jobs :
            /\ jobs' = RemoveAt(jobs, i)
            /\ pc[t] = "idle"
            /\ jobs[i].kind = "go" => manually \/ (pc'[t] = "look" /\ job'[t] = jobs[i])
    BY <1>7, BeginGoes DEF IsMute
  <2>2. ~Leaving(t)
    BY <2>1 DEF Leaving
  <2>3. CASE jobs[i].kind = "go"
    BY <1>4, <1>5, <2>1, <2>3 DEF Leaving
  <2>4. CASE jobs[i].kind # "go" /\ Pending({"go"})
    <3>1. PICK k \in DOMAIN jobs : jobs[k].kind = "go"
      BY <2>4 DEF Pending
    <3>2. PICK m \in DOMAIN jobs' : jobs'[m] = jobs[k]
      <4> DEFINE m == IF k < i THEN k ELSE k - 1
      <4>1. /\ Len(jobs) \in Nat /\ i \in 1..Len(jobs) /\ k \in 1..Len(jobs) /\ k # i
            /\ DOMAIN jobs' = 1..(Len(jobs) - 1)
        BY <2>1, <2>4, <3>1, JobsTaken
      <4>2. m \in 1..(Len(jobs) - 1) /\ (IF m < i THEN m ELSE m + 1) = k
        BY <4>1
      <4>3. \A n \in 1..(Len(jobs) - 1) : jobs'[n] = IF n < i THEN jobs[n] ELSE jobs[n + 1]
        BY <2>1, JobsTaken
      <4> HIDE DEF m
      <4>4. jobs'[m] = jobs[IF m < i THEN m ELSE m + 1]
        BY <4>2, <4>3
      <4> QED
        BY <4>1, <4>2, <4>4
    <3> QED
      BY <3>1, <3>2 DEF Pending
  <2> QED
    BY <1>3, <1>4, <1>6, <2>2, <2>3, <2>4
<1>8. CASE ~Begin(t)
  <2>1. jobs' = jobs
    BY <1>8, HandleGoes
  <2>2. KindAt(t)
    BY DEF KindsOK
  <2>3. Leaving(t) => Leaving(t)' \/ Stopping
    <3>1. CASE pc[t] = "look" /\ job[t].kind = "go"
      <4>1. On(t, "set_autopause")
        BY <1>2, <1>8, <3>1, HandleGoes
      <4> QED
        BY <3>1, <4>1 DEF Leaving, On
    <3>2. CASE pc[t] = "set_autopause" /\ job[t].kind = "go"
      <4>1. manually \/ On(t, "pause")
        BY <1>1, <1>8, <3>2, HandleGoes
      <4> QED
        BY <1>5, <3>2, <4>1 DEF Leaving, On
    <3>3. pc[t] # "pause"
      BY <1>8, HandleGoes
    <3> QED
      BY <3>1, <3>2, <3>3 DEF Leaving
  <2> QED
    BY <1>3, <1>4, <1>6, <2>1, <2>3 DEF Pending
<1> QED
  BY <1>7, <1>8

\* Outside: the last one's leaving is reported.  The main loop resumes for nobody.
LEMMA PauseOutside ==
    ASSUME TypeInv, ResumeIsHeard, NotMuted, PauseComes, Outside \/ check_resume_timers \/ UNCHANGED vars
    PROVE  PauseComes'
<1> SUFFICES ASSUME ~raced', ~mixed', heard' = {}, ~paused', audio' = "track"
             PROVE  Pending({"go"})' \/ Stopping' \/ \E s \in Threads : Leaving(s)'
  BY DEF PauseComes
<1>1. ~raced /\ ~mixed
  BY RacedStays DEF Next
<1>2. ASSUME NEW u \in Users, Go(u)
      PROVE  Pending({"go"})'
  <2>1. Reported("go", u) /\ "go" \in Kinds /\ u \in Everyone
    BY <1>2 DEF Go, Kinds, Everyone
  <2> DEFINE end == Len(jobs) + 1
  <2>2. end \in DOMAIN jobs' /\ jobs'[end].kind = "go"
    <3>1. Len(jobs) \in Nat /\ DOMAIN jobs' = 1..(Len(jobs) + 1) /\ jobs'[Len(jobs) + 1].kind = "go"
      BY <2>1, JobsBehind
    <3> QED
      BY <3>1
  <2> QED
    BY <2>2 DEF Pending
<1>3. ASSUME ~\E u \in Users : Go(u)
      PROVE  Pending({"go"})' \/ Stopping' \/ \E s \in Threads : Leaving(s)'
  <2>1. heard = {} /\ ~MutesPending
    <3>1. heard \subseteq heard'
      BY <1>3 DEF Outside, Come, Mute, TrackEnds, MarkerReached, check_resume_timers, Expires,
                  clear_manually_paused, Resumes, cache, vars
    <3> QED
      BY <1>1, <3>1 DEF NotMuted
  <2>2. ~Resumes
    <3>1. ASSUME Resumes
          PROVE  Bot \in timers
      <4>1. main # Resting
        BY <3>1 DEF Resumes, Resting
      <4>2. main.user = Bot /\ main.user \in timers
        BY <1>1, <2>1, <4>1 DEF ResumeIsHeard, TypeInv, TypeOK
      <4> QED
        BY <4>2
    <3> QED
      BY <2>1, <3>1 DEF MutesPending
  <2>3. UNCHANGED <<paused, audio, pc, job>>
    BY <2>2 DEF Outside, Come, Go, Mute, TrackEnds, MarkerReached, check_resume_timers, Expires,
                clear_manually_paused, client, threads, vars
  <2>4. Pending({"go"}) \/ Stopping \/ \E s \in Threads : Leaving(s)
    BY <1>1, <2>1, <2>3 DEF PauseComes
  <2>5. Pending({"go"}) => Pending({"go"})'
    <3>1. jobs' = jobs \/ \E kind \in Kinds, u \in Everyone : Reported(kind, u)
      BY <2>2 DEF Outside, Come, Go, Mute, TrackEnds, MarkerReached, check_resume_timers, Expires,
                  clear_manually_paused, vars, Kinds, Everyone
    <3>2. ASSUME NEW kind \in Kinds, NEW u \in Everyone, Reported(kind, u), NEW k \in DOMAIN jobs
          PROVE  k \in DOMAIN jobs' /\ jobs'[k] = jobs[k]
      BY <3>2, JobsBehind
    <3> QED
      BY <3>1, <3>2 DEF Pending
  <2> QED
    BY <2>3, <2>4, <2>5 DEF Stopping, At, Leaving
<1> QED
  BY <1>2, <1>3

\* AloneInv holds initially and every step keeps it.
LEMMA AloneInvHolds == Spec => []AloneInv
<1>1. Init => AloneInv
  <2> SUFFICES ASSUME Init PROVE AloneInv
    OBVIOUS
  <2>1. TypeInv
    BY InitTyped
  <2>2. DOMAIN jobs = {} /\ heard # {} /\ ~manually /\ main = Resting
    BY DEF Init
  <2>3. \A t \in Threads : pc[t] = "idle" /\ job[t].kind = "none"
    BY DEF Init, NoJob
  <2>4. KindsOK /\ OneMarker
    BY <2>2, <2>3 DEF KindsOK, KindAt, OneMarker, NobodyStarts, Streaming, Pending
  <2>5. TableMeansPaused /\ ResumeClears /\ ResumeIsHeard /\ NotMuted /\ PauseComes
    BY <2>2 DEF TableMeansPaused, ResumeClears, ResumeIsHeard, NotMuted, PauseComes, Resting
  <2> QED
    BY <2>1, <2>4, <2>5 DEF AloneInv
<1>2. ASSUME AloneInv, [Next]_vars
      PROVE  AloneInv'
  <2>1. TypeInv'
    BY <1>2, StepTyped DEF AloneInv
  <2>2. ASSUME NEW t \in Threads, Command(t) \/ Proceed(t)
        PROVE  /\ KindsOK' /\ OneMarker' /\ TableMeansPaused'
               /\ ResumeClears' /\ ResumeIsHeard' /\ NotMuted' /\ PauseComes'
    <3>1. KindsOK' /\ OneMarker' /\ TableMeansPaused'
      BY <1>2, <2>2, KindsThread, MarkerThread, TableThread DEF AloneInv
    <3>2. ResumeClears' /\ ResumeIsHeard' /\ NotMuted'
      BY <1>2, <2>2, ResumeThread, MuteThread DEF AloneInv
    <3>3. PauseComes'
      BY <1>2, <2>2, PauseCommands, PauseHandlers DEF AloneInv, Proceed
    <3> QED
      BY <3>1, <3>2, <3>3
  <2>3. ASSUME Outside \/ check_resume_timers \/ UNCHANGED vars
        PROVE  /\ KindsOK' /\ OneMarker' /\ TableMeansPaused'
               /\ ResumeClears' /\ ResumeIsHeard' /\ NotMuted' /\ PauseComes'
    <3>1. KindsOK' /\ OneMarker' /\ TableMeansPaused'
      BY <1>2, <2>3, KindsOutside, MarkerOutside, TableOutside DEF AloneInv
    <3>2. ResumeClears' /\ ResumeIsHeard' /\ NotMuted'
      BY <1>2, <2>3, ResumeOutside, MuteOutside DEF AloneInv
    <3>3. PauseComes'
      BY <1>2, <2>3, PauseOutside DEF AloneInv
    <3> QED
      BY <3>1, <3>2, <3>3
  <2> QED
    BY <1>2, <2>1, <2>2, <2>3 DEF AloneInv, Next
<1> QED
  BY <1>1, <1>2, PTL DEF Spec

\* At rest nothing is played to an empty channel (handle_non_sha_voice_state_update,
\* set_autopause, check_resume_timers): from the last one's departure on its event,
\* its handler or a stopping command is there until the bot is paused, and nobody
\* is left for whom the main loop would resume; unless steps came between a look
\* and an act, or the bot was muted as well.
THEOREM AloneCorrect == Spec => []PausedWhenAlone
<1>1. AloneInv => PausedWhenAlone
  <2> SUFFICES ASSUME AloneInv, AtRest, heard = {}, audio = "track", ~raced, ~mixed
               PROVE  paused
    BY DEF PausedWhenAlone
  <2>1. ~Pending({"go"})
    <3>1. DOMAIN jobs = {}
      BY DEF AtRest
    <3> QED
      BY <3>1 DEF Pending
  <2>2. ~Stopping /\ ~\E t \in Threads : Leaving(t)
    BY DEF AtRest, At, Stopping, Leaving
  <2> QED
    BY <2>1, <2>2 DEF AloneInv, PauseComes
<1> QED
  BY <1>1, AloneInvHolds, PTL

----------------------------------------------------------------------------
(***************************************************************************)
(* The now-playing message, InfoEmbed: its types.                          *)
(***************************************************************************)
RequestKinds == {"create", "edit", "respond", "delete"}
Request == [kind : RequestKinds, message : 0..MaxMessages, shows : 0..MaxChanges]
Operation == [kind : {"none", "create", "edit", "respond"}, message : 0..MaxMessages]

\* Only the absent operation is of no kind, and what the player remembers and
\* what answers name was posted.
EmbedTyped ==
    /\ EmbedTypeOK
    /\ op.kind = "none" => op = NoOp
    /\ info <= Len(posted)
    /\ \A m \in answers : m <= Len(posted)

CallersTyped ==
    /\ now \in 0..MaxChanges
    /\ place \in [Callers -> {"idle", "update", "button", "started", "send"}]
    /\ pressed \in [Callers -> 0..MaxMessages]

PlayerTyped ==
    /\ info \in 0..MaxMessages
    /\ op \in Operation
    /\ op.kind = "none" => op = NoOp
    /\ requests \in Seq(Request)

DiscordTyped ==
    /\ answers \subseteq Messages
    /\ posted \in Seq(Gone..MaxChanges)
    /\ Len(posted) <= MaxMessages
    /\ info <= Len(posted)
    /\ \A m \in answers : m <= Len(posted)

OthersTyped ==
    /\ last \in 0..MaxMessages
    /\ readable \in BOOLEAN
    /\ disturbed \in BOOLEAN
    /\ faults \subseteq Faults

\* EmbedTyped in parts.
LEMMA EmbedParts == EmbedTyped <=> CallersTyped /\ PlayerTyped /\ DiscordTyped /\ OthersTyped
  BY DEF EmbedTyped, EmbedTypeOK, CallersTyped, PlayerTyped, DiscordTyped, OthersTyped, RequestKinds, Request,
         Operation

\* And after a step.
LEMMA EmbedPartsNext ==
    ASSUME CallersTyped', PlayerTyped', DiscordTyped', OthersTyped'
    PROVE  EmbedTyped'
  BY DEF EmbedTyped, EmbedTypeOK, CallersTyped, PlayerTyped, DiscordTyped, OthersTyped, RequestKinds, Request,
         Operation

\* The operations and requests.
LEMMA OperationsTyped ==
    ASSUME NEW m \in 0..MaxMessages
    PROVE  /\ NoOp \in Operation /\ Create \in Operation
           /\ Edit(m) \in Operation /\ Respond(m) \in Operation
           /\ Create.kind = "create" /\ Edit(m).kind = "edit" /\ Respond(m).kind = "respond"
           /\ NoOp.kind = "none"
           /\ Delete(m) \in Request
           /\ Edit(m).message = m /\ Respond(m).message = m
           /\ Delete(m).message = m /\ Delete(m).kind = "delete"
  BY EmbedConstants DEF NoOp, Create, Edit, Respond, Delete, Operation, Request, RequestKinds, NoMessage

\* The request of an operation.
LEMMA ShowingTyped ==
    ASSUME NEW o \in Operation, o.kind # "none", NEW v \in 0..MaxChanges
    PROVE  /\ Showing(o, v) \in Request
           /\ Showing(o, v).kind = o.kind /\ Showing(o, v).message = o.message
           /\ Showing(o, v).shows = v
  BY DEF Showing, Operation, Request, RequestKinds

\* delete_info_embed asks for at most one more deletion.
LEMMA DeletesType ==
    ASSUME PlayerTyped, DeletesInfo
    PROVE  requests' \in Seq(Request)
  BY OperationsTyped, AppendProperties DEF PlayerTyped, DeletesInfo

\* An update changes the operation and the requests.
LEMMA UpdatesType ==
    ASSUME PlayerTyped, info' = info,
           UpdatesInfo \/ (\E m \in 0..MaxMessages : UpdatesPressed(m)) \/ (op' = op /\ DeletesInfo)
    PROVE  PlayerTyped'
<1>1. requests' \in Seq(Request)
  <2>1. CASE DeletesInfo
    BY <2>1, DeletesType
  <2>2. CASE requests' = requests
    BY <2>2 DEF PlayerTyped
  <2> QED
    BY <2>1, <2>2 DEF UpdatesInfo, UpdatesPressed
<1>2. op' = op \/ op' = Create \/ \E m \in 0..MaxMessages : op' = Edit(m) \/ op' = Respond(m)
  BY DEF UpdatesInfo, UpdatesPressed, queue_embed_op, PlayerTyped
<1>3. info \in 0..MaxMessages
  BY DEF PlayerTyped
<1>4. op' \in Operation /\ (op'.kind = "none" => op' = NoOp)
  BY <1>2, <1>3, OperationsTyped DEF PlayerTyped
<1> QED
  BY <1>1, <1>3, <1>4 DEF PlayerTyped

\* A caller goes on.
LEMMA GotoType ==
    ASSUME CallersTyped, NEW c \in Callers,
           NEW where \in {"idle", "update", "button", "started", "send"}, GoesTo(c, where),
           now' = now, pressed' = pressed
    PROVE  CallersTyped'
  BY DEF CallersTyped, GoesTo

\* What a callers does.
LEMMA ProceedType ==
    ASSUME EmbedTyped, NEW c \in Callers, CallerProceeds(c)
    PROVE  EmbedTyped'
<1> USE EmbedParts
<1>1. CallersTyped /\ PlayerTyped /\ DiscordTyped /\ OthersTyped
  OBVIOUS
<1>2. DiscordTyped' /\ OthersTyped'
  BY <1>1 DEF CallerProceeds, update_info_embed, button_update, Started, send_info_embed, embedHistory,
              discordVars, DiscordTyped, OthersTyped
<1>3. CallersTyped'
  <2>1. CASE button_update(c)
    BY <1>1, <2>1, EmbedConstants DEF button_update, GoesTo, CallersTyped, NoMessage
  <2>2. CASE update_info_embed(c) \/ Started(c) \/ send_info_embed(c)
    BY <1>1, <2>2, GotoType DEF update_info_embed, Started, send_info_embed
  <2> QED
    BY <2>1, <2>2 DEF CallerProceeds
<1>4. PlayerTyped'
  <2>1. CASE button_update(c)
    BY <1>1, <2>1, UpdatesType DEF button_update, CallersTyped
  <2>2. CASE update_info_embed(c) \/ Started(c)
    BY <1>1, <2>2, UpdatesType DEF update_info_embed, Started
  <2>3. CASE send_info_embed(c)
    BY <1>1, <2>3, OperationsTyped DEF send_info_embed, queue_embed_op, discordVars, PlayerTyped
  <2> QED
    BY <2>1, <2>2, <2>3 DEF CallerProceeds
<1> QED
  BY <1>2, <1>3, <1>4, EmbedPartsNext

\* A caller changes what the player is doing.
LEMMA ChangesType ==
    ASSUME EmbedTyped, NEW c \in Callers,
           CommandChanges(c) \/ (\E m \in Messages : Button(c, m)) \/ TrackStarts(c)
    PROVE  EmbedTyped'
<1>1. CallersTyped /\ PlayerTyped /\ DiscordTyped /\ OthersTyped
  BY EmbedParts
<1>2. PICK o \in {"command", "button", "start"} : Changes(c, o)
  BY DEF CommandChanges, Button, TrackStarts
<1>3. PlayerTyped' /\ DiscordTyped' /\ OthersTyped'
  BY <1>1, <1>2 DEF Changes, discordVars, PlayerTyped, DiscordTyped, OthersTyped
<1>4. CallersTyped'
  <2>1. now' \in 0..MaxChanges
    BY <1>1, <1>2, EmbedConstants DEF Changes, CallersTyped
  <2>2. pressed' \in [Callers -> 0..MaxMessages]
    <3>1. \A m \in Messages : m \in 0..MaxMessages
      BY EmbedConstants DEF Messages
    <3> QED
      BY <1>1, <3>1 DEF CommandChanges, Button, TrackStarts, CallersTyped
  <2>3. place' \in [Callers -> {"idle", "update", "button", "started", "send"}]
    BY <1>1 DEF CommandChanges, Button, TrackStarts, GoesTo, CallersTyped
  <2> QED
    BY <2>1, <2>2, <2>3 DEF CallersTyped
<1> QED
  BY <1>3, <1>4, EmbedPartsNext

\* Discord carries out a request.
LEMMA ServeType ==
    ASSUME EmbedTyped, NEW i \in DOMAIN requests, Serve(i)
    PROVE  EmbedTyped'
<1> DEFINE r == requests[i]
           n == Len(posted)
           M == 0..MaxMessages
           V == Gone..MaxChanges
<1>1. CallersTyped /\ PlayerTyped /\ DiscordTyped /\ OthersTyped
  BY EmbedParts
<1>2. RemoveAt(requests, i) \in Seq(Request) /\ r \in Request
  BY <1>1, Taking DEF PlayerTyped, RemoveAt, RemoveAt
<1>3. /\ requests' = RemoveAt(requests, i) /\ faults' \subseteq faults \cup Faults
      /\ UNCHANGED <<now, place, pressed, info, op, readable, disturbed>>
  BY DEF Serve, callerVars, Fault
<1>4. CallersTyped' /\ PlayerTyped'
  BY <1>1, <1>2, <1>3 DEF CallersTyped, PlayerTyped
<1>5. n \in Nat /\ n <= MaxMessages /\ posted \in Seq(V) /\ r.shows \in V /\ Gone \in V
  BY <1>1, <1>2, LenProperties, EmbedConstants DEF DiscordTyped, Request, Gone
<1>6. CASE /\ r.kind = "create" /\ n + 1 <= MaxMessages
           /\ posted' = Append(posted, r.shows)
           /\ last' = n + 1
           /\ answers' = answers \cup {n + 1}
  <2> HIDE DEF V, r
  <2>1. posted' \in Seq(V) /\ Len(posted') = n + 1
    BY <1>5, <1>6, AppendProperties
  <2>2. info \in Int /\ \A m \in answers : m \in Int
    BY <1>1, EmbedConstants DEF DiscordTyped, PlayerTyped, Messages
  <2>3. n + 1 \in Messages /\ n + 1 \in M
    BY <1>5, <1>6, EmbedConstants DEF Messages
  <2>4. DiscordTyped'
    BY <1>1, <1>3, <1>5, <1>6, <2>1, <2>2, <2>3 DEF DiscordTyped, V
  <2>5. OthersTyped'
    BY <1>1, <1>3, <1>6, <2>3 DEF OthersTyped
  <2> QED
    BY <1>4, <2>4, <2>5, EmbedPartsNext
<1>7. CASE /\ r.message \in Live
           /\ posted' = [posted EXCEPT ![r.message] = IF r.kind = "delete" THEN Gone ELSE r.shows]
           /\ answers' = IF r.kind = "edit" THEN answers \cup {r.message} ELSE answers
           /\ UNCHANGED last
  <2> DEFINE v == IF r.kind = "delete" THEN Gone ELSE r.shows
             k == r.message
  <2>1. v \in V /\ k \in 1..n /\ posted' = [posted EXCEPT ![k] = v]
    BY <1>5, <1>7, LenProperties DEF Live
  <2> HIDE DEF v, k, V
  <2>2. posted' \in Seq(V) /\ Len(posted') = n
    BY <1>5, <2>1, ExceptSeq
  <2>3. k \in Messages
    BY <1>5, <2>1, EmbedConstants DEF Messages
  <2>4. answers' \subseteq answers \cup {k}
    BY <1>7 DEF k
  <2>5. OthersTyped'
    BY <1>1, <1>3, <1>7 DEF OthersTyped
  <2>6. k <= n
    BY <1>5, <2>1
  <2>7. DiscordTyped'
    BY <1>1, <1>3, <1>5, <2>2, <2>3, <2>4, <2>6 DEF DiscordTyped, V
  <2> QED
    BY <1>4, <2>5, <2>7, EmbedPartsNext
<1>8. CASE UNCHANGED <<posted, last, answers>>
  <2>1. DiscordTyped' /\ OthersTyped'
    BY <1>1, <1>3, <1>8 DEF DiscordTyped, OthersTyped
  <2> QED
    BY <1>4, <2>1, EmbedPartsNext
<1> QED
  BY <1>6, <1>7, <1>8 DEF Serve

\* The rest of the main loop, the users and Discord.
LEMMA OthersType ==
    ASSUME EmbedTyped,
           \/ check_embed_op_queue
           \/ \E m \in Messages : send_info_embed_cb(m)
           \/ Chat
           \/ Permit
           \/ \E m \in Messages : UserDeletes(m)
           \/ UNCHANGED embedVars
    PROVE  EmbedTyped'
<1>1. CallersTyped /\ PlayerTyped /\ DiscordTyped /\ OthersTyped
  BY EmbedParts
<1>2. CASE check_embed_op_queue
  <2> DEFINE r == Showing(op, now)
  <2>1. r \in Request
    BY <1>1, <1>2, ShowingTyped DEF check_embed_op_queue, PlayerTyped, CallersTyped
  <2>2. NoOp \in Operation
    BY EmbedConstants DEF NoOp, Operation, NoMessage
  <2> HIDE DEF r
  <2>3. Append(requests, r) \in Seq(Request)
    BY <1>1, <2>1, AppendProperties DEF PlayerTyped
  <2>4. PlayerTyped'
    BY <1>1, <1>2, <2>2, <2>3 DEF check_embed_op_queue, PlayerTyped, r
  <2>5. CallersTyped' /\ DiscordTyped' /\ OthersTyped'
    BY <1>1, <1>2 DEF check_embed_op_queue, callerVars, embedHistory, CallersTyped, DiscordTyped,
                      OthersTyped
  <2> QED
    BY <2>4, <2>5, EmbedPartsNext
<1>3. CASE \E m \in Messages : send_info_embed_cb(m)
  <2>1. PICK m \in Messages : send_info_embed_cb(m)
    BY <1>3
  <2>2. m \in 0..MaxMessages /\ m <= Len(posted)
    BY <1>1, <2>1, EmbedConstants DEF Messages, send_info_embed_cb, DiscordTyped
  <2>3. CallersTyped' /\ PlayerTyped' /\ OthersTyped'
    BY <1>1, <2>1, <2>2 DEF send_info_embed_cb, callerVars, embedHistory, CallersTyped, PlayerTyped,
                            OthersTyped
  <2>4. DiscordTyped'
    BY <1>1, <2>1, <2>2 DEF send_info_embed_cb, DiscordTyped
  <2> QED
    BY <2>3, <2>4, EmbedPartsNext
<1>4. CASE Chat \/ Permit \/ UNCHANGED embedVars
  <2>1. CallersTyped' /\ PlayerTyped' /\ DiscordTyped'
    BY <1>1, <1>4 DEF Chat, Permit, embedVars, discordVars, callerVars, embedHistory, CallersTyped,
                      PlayerTyped, DiscordTyped
  <2>2. OthersTyped'
    <3>1. NoMessage \in 0..MaxMessages
      BY EmbedConstants DEF NoMessage
    <3> QED
      BY <1>1, <1>4, <3>1 DEF Chat, Permit, embedVars, discordVars, embedHistory, OthersTyped
  <2> QED
    BY <2>1, <2>2, EmbedPartsNext
<1>5. CASE \E m \in Messages : UserDeletes(m)
  <2> DEFINE V == Gone..MaxChanges
  <2>1. PICK m \in Live : posted' = [posted EXCEPT ![m] = Gone] /\ UserDeletes(m)
    BY <1>5 DEF UserDeletes
  <2>2. posted \in Seq(V) /\ Gone \in V /\ m \in 1..Len(posted)
    BY <1>1, <2>1, LenProperties, EmbedConstants DEF Live, DiscordTyped, Gone
  <2> HIDE DEF V
  <2>3. posted' \in Seq(V) /\ Len(posted') = Len(posted)
    BY <2>1, <2>2, ExceptSeq
  <2>4. CallersTyped' /\ PlayerTyped' /\ OthersTyped'
    BY <1>1, <2>1 DEF UserDeletes, Fault, callerVars, embedHistory, CallersTyped, PlayerTyped,
                      OthersTyped
  <2>5. DiscordTyped'
    BY <1>1, <2>1, <2>3 DEF UserDeletes, DiscordTyped, V
  <2> QED
    BY <2>4, <2>5, EmbedPartsNext
<1> QED
  BY <1>2, <1>3, <1>4, <1>5

\* Every step keeps the types.
LEMMA EmbedTypedNext ==
    ASSUME EmbedTyped, [EmbedNext]_embedVars
    PROVE  EmbedTyped'
  BY OthersType, ServeType, ChangesType, ProceedType DEF EmbedNext

\* And the program starts with them.
LEMMA EmbedTypedInit == EmbedInit => EmbedTyped
<1> SUFFICES ASSUME EmbedInit PROVE EmbedTyped
  OBVIOUS
<1>0. 0 \in 0..MaxChanges /\ NoMessage \in 0..MaxMessages
  BY EmbedConstants DEF NoMessage
<1>1. CallersTyped
  BY <1>0 DEF EmbedInit, CallersTyped
<1>4. OthersTyped
  BY <1>0 DEF EmbedInit, OthersTyped
<1>2. PlayerTyped
  BY OperationsTyped, EmbedConstants DEF EmbedInit, PlayerTyped, NoMessage
<1>3. DiscordTyped
  BY EmbedConstants DEF EmbedInit, DiscordTyped, NoMessage
<1> QED
  BY <1>1, <1>2, <1>3, <1>4, EmbedParts

\* The types hold throughout.
LEMMA EmbedTypeHolds == EmbedSpec => []EmbedTyped
<1>1. EmbedInit => EmbedTyped
  BY EmbedTypedInit
<1>2. EmbedTyped /\ [EmbedNext]_embedVars => EmbedTyped'
  BY EmbedTypedNext
<1> QED
  BY <1>1, <1>2, PTL DEF EmbedSpec

\* Every variable of the now-playing message keeps its type: what the player
\* remembers, what operations name and what answers carry are messages.
THEOREM EmbedTypeCorrect == EmbedSpec => []EmbedTypeOK
<1>1. EmbedTyped => EmbedTypeOK
  BY DEF EmbedTyped
<1> QED
  BY <1>1, EmbedTypeHolds, PTL

----------------------------------------------------------------------------
(***************************************************************************)
(* Where the message is, while no two changes overlap with its replacement *)
(* and Discord serves requests in order: it is updated, or replaced step by*)
(* step by one caller.                                                     *)
(***************************************************************************)
Idle == \A c \in Callers : IsAt(c, "idle")

\* Only caller c is busy.
Alone(c, where) == IsAt(c, where) /\ \A d \in Callers \ {c} : IsAt(d, "idle")

\* m is the only message, unless somebody deleted it.
Only(m) == Live \subseteq {m} /\ (faults = {} => Live = {m} \ {NoMessage})

\* The message is updated: every operation and request is about it, and the
\* last of them will show what the player does by then.
Updating ==
    /\ \A c \in Callers : place[c] \in {"idle", "update", "button"}
    /\ \A c \in Callers : IsAt(c, "button") => pressed[c] = info /\ info # NoMessage
    /\ op = NoOp \/ (info # NoMessage /\ op \in {Edit(info), Respond(info)})
    /\ \A i \in 1..Len(requests) : /\ requests[i].kind \in {"edit", "respond"}
                                   /\ requests[i].message = info
    /\ requests # <<>> => info # NoMessage
    /\ answers \subseteq {info}
    /\ Only(info)
    /\ ~readable => /\ op = NoOp /\ requests = <<>> /\ answers = {}
                    /\ Idle \/ \E c \in Callers : Alone(c, "update") \/ Alone(c, "button")
    /\ \/ ~Idle
       \/ op # NoOp
       \/ requests # <<>> /\ requests[Len(requests)].shows = now
       \/ requests = <<>> /\ (info \in Live => posted[info] = now)

\* A track starts and nothing else goes on.
Starting ==
    /\ \E c \in Callers : Alone(c, "started")
    /\ op = NoOp /\ requests = <<>> /\ answers = {}
    /\ Only(info)

\* The old message is to be deleted, or is gone.
Deleting == requests # <<>> /\ requests[1] = Delete(info) /\ info # NoMessage /\ Live \subseteq {info}

Removing ==
    \/ Deleting /\ Len(requests) = 1
    \/ requests = <<>> /\ Live = {}

\* The caller that starts the track is about to ask for a new message; the new
\* message is asked for; it is on its way; it is there.
Sending ==
    /\ \E c \in Callers : Alone(c, "send")
    /\ op = NoOp /\ answers = {}
    /\ Removing

Asking == Idle /\ op = Create /\ answers = {} /\ Removing

Creating ==
    /\ Idle /\ op = NoOp /\ answers = {}
    /\ \/ Deleting /\ Len(requests) = 2 /\ requests[2] = Showing(Create, now)
       \/ Len(requests) = 1 /\ requests[1] = Showing(Create, now) /\ Live = {}

Created ==
    /\ Idle /\ op = NoOp /\ requests = <<>>
    /\ \E m \in Messages : /\ answers = {m} /\ m # info /\ Only(m)
                           /\ m \in Live => posted[m] = now

Clean == ~disturbed /\ "overtaken" \notin faults

Replaced == Sending \/ Asking \/ Creating \/ Created

EmbedInv == Clean => Updating \/ Starting \/ Replaced

\* A caller goes on, the others stay.
LEMMA Going ==
    ASSUME EmbedTyped, NEW c \in Callers, NEW where, GoesTo(c, where)
    PROVE  /\ place'[c] = where
           /\ \A d \in Callers : d # c => place'[d] = place[d]
           /\ (\A d \in Callers : d # c => place[d] = "idle") /\ where # "idle" => Alone(c, where)'
           /\ (\A d \in Callers : d # c => place[d] = "idle") /\ where = "idle" => Idle'
           /\ where # "idle" => ~Idle'
  BY DEF EmbedTyped, EmbedTypeOK, GoesTo, Alone, Idle, IsAt

\* The messages that are there were posted.
LEMMA LiveFacts ==
    ASSUME EmbedTyped
    PROVE  /\ DOMAIN posted = 1..Len(posted) /\ Len(posted) \in Nat
           /\ Live = {m \in 1..Len(posted) : posted[m] # Gone}
           /\ NoMessage \notin Live
           /\ DOMAIN requests = 1..Len(requests) /\ Len(requests) \in Nat
           /\ requests # <<>> <=> Len(requests) > 0
           /\ info \in Int /\ info <= Len(posted)
  BY LenProperties, EmptySeq DEF EmbedTyped, EmbedTypeOK, Live, NoMessage

\* Nothing is being replaced while a change disturbs nothing.
LEMMA Calm ==
    ASSUME EmbedTyped, EmbedInv, Clean, ~Replacing
    PROVE  Updating
<1>1. ~Starting /\ ~Sending
  BY DEF Starting, Sending, Replacing, Alone, IsAt
<1>2. ~Asking
  BY DEF Asking, Replacing, Create
<1>3. ~Creating
  <2>1. ASSUME Creating PROVE \E i \in 1..Len(requests) : requests[i].kind = "create"
    <3>1. Showing(Create, now).kind = "create"
      BY DEF Showing, Create
    <3> QED
      BY <2>1, <3>1 DEF Creating
  <2> QED
    BY <2>1, LiveFacts DEF Replacing
<1>4. ~Created
  BY DEF Created, Replacing
<1> QED
  BY <1>1, <1>2, <1>3, <1>4 DEF EmbedInv, Replaced

\* A caller changes what the player does: an update is due.
LEMMA ChangesKeep ==
    ASSUME EmbedTyped, EmbedInv, Clean', NEW c \in Callers,
           CommandChanges(c) \/ (\E m \in Messages : Button(c, m)) \/ TrackStarts(c)
    PROVE  Updating' \/ Starting'
<1>1. PICK o \in {"command", "button", "start"} :
          /\ Changes(c, o)
          /\ \/ o = "command" /\ GoesTo(c, "update") /\ pressed' = pressed
             \/ /\ o = "button" /\ GoesTo(c, "button")
                /\ \E m \in Live : pressed' = [pressed EXCEPT ![c] = m]
             \/ o = "start" /\ GoesTo(c, "started") /\ pressed' = pressed
  BY DEF CommandChanges, Button, TrackStarts
<1>2. /\ Clean /\ ~Replacing /\ (o = "start" \/ ~readable => Quiet) /\ IsAt(c, "idle")
      /\ UNCHANGED <<info, op, requests, answers, posted, readable, faults>>
  BY <1>1 DEF Changes, Clean, discordVars
<1>3. Updating
  BY <1>2, Calm
<1>4. Only(info)'
  BY <1>2, <1>3 DEF Updating, Only, Live
<1>5. CASE o = "start"
  <2>1. Alone(c, "started")' /\ op' = NoOp /\ requests' = <<>> /\ answers' = {}
    <3>1. GoesTo(c, "started")
      BY <1>1, <1>5
    <3>2. Quiet /\ (\A d \in Callers : d # c => place[d] = "idle")
      BY <1>2, <1>5 DEF Quiet, IsAt
    <3>3. Alone(c, "started")'
      BY <3>1, <3>2, Going
    <3> QED
      BY <1>2, <3>2, <3>3 DEF Quiet
  <2> QED
    BY <1>4, <2>1 DEF Starting
<1>6. CASE o # "start"
  <2>1. PICK where \in {"update", "button"} :
            /\ GoesTo(c, where)
            /\ \/ where = "update" /\ pressed' = pressed
               \/ where = "button" /\ \E m \in Live : pressed' = [pressed EXCEPT ![c] = m]
    BY <1>1, <1>6
  <2>2. \A d \in Callers : place'[d] \in {"idle", "update", "button"}
    BY <1>3, <2>1, Going DEF Updating
  <2>3. \A d \in Callers : IsAt(d, "button")' => pressed'[d] = info' /\ info' # NoMessage
    <3> SUFFICES ASSUME NEW d \in Callers, place'[d] = "button"
                 PROVE  pressed'[d] = info' /\ info' # NoMessage
      BY DEF IsAt
    <3>1. CASE d # c
      <4>1. pressed'[d] = pressed[d]
        BY <2>1, <3>1 DEF EmbedTyped, EmbedTypeOK
      <4>2. place[d] = "button"
        BY <2>1, <3>1, Going
      <4> QED
        BY <1>2, <1>3, <4>1, <4>2 DEF Updating, IsAt
    <3>2. CASE d = c
      <4>1. PICK m \in Live : pressed' = [pressed EXCEPT ![c] = m]
        BY <2>1, <3>2, Going
      <4>2. pressed'[d] = m
        BY <3>2, <4>1 DEF EmbedTyped, EmbedTypeOK
      <4> QED
        BY <1>2, <1>3, <4>1, <4>2, LiveFacts DEF Updating, Only
    <3> QED
      BY <3>1, <3>2
  <2>4. ~Idle'
    BY <2>1, Going
  <2>5. ~readable' => /\ op' = NoOp /\ requests' = <<>> /\ answers' = {}
                      /\ \E d \in Callers : Alone(d, "update")' \/ Alone(d, "button")'
    <3> SUFFICES ASSUME ~readable' 
                 PROVE  /\ op' = NoOp /\ requests' = <<>> /\ answers' = {}
                        /\ Alone(c, "update")' \/ Alone(c, "button")'
      OBVIOUS
    <3>1. Quiet /\ \A d \in Callers : d # c => place[d] = "idle"
      BY <1>2 DEF Quiet, IsAt
    <3>2. Alone(c, where)'
      BY <2>1, <3>1, Going
    <3> QED
      BY <1>2, <2>1, <3>1, <3>2 DEF Quiet
  <2> QED
    BY <1>2, <1>3, <1>4, <2>2, <2>3, <2>4, <2>5 DEF Updating
<1> QED
  BY <1>5, <1>6

\* The deletion of the message is asked for, when nothing else is.
LEMMA DeletingStarts ==
    ASSUME EmbedTyped, DeletesInfo, requests = <<>>, Only(info),
           UNCHANGED <<info, posted>>
    PROVE  Removing'
<1>1. CASE info = NoMessage
  BY <1>1, LiveFacts DEF DeletesInfo, Removing, Only, Live
<1>2. CASE info # NoMessage
  <2>1. requests' = <<Delete(info)>>
    BY <1>2 DEF DeletesInfo
  <2>2. Len(requests') = 1 /\ requests'[1] = Delete(info) /\ requests' # <<>>
    BY <2>1
  <2> QED
    BY <1>2, <2>2 DEF Removing, Deleting, Only, Live, Delete
<1> QED
  BY <1>1, <1>2

\* An update: the message will be edited, or replaced by a new one.
LEMMA UpdateKeeps ==
    ASSUME EmbedTyped, Updating, NEW c \in Callers, GoesTo(c, "idle"), ~IsAt(c, "idle"),
           UNCHANGED <<now, info, answers, posted, readable, faults>>,
           \A d \in Callers : d # c => pressed'[d] = pressed[d],
           \/ IsAt(c, "update") /\ UpdatesInfo
           \/ IsAt(c, "button") /\ UpdatesPressed(pressed[c])
    PROVE  Updating' \/ Asking'
<1>1. Only(info)'
  BY DEF Updating, Only, Live
<1>2. \A d \in Callers : d # c => place'[d] = place[d]
  BY Going
<1>3. place'[c] = "idle"
  BY Going
<1>4. /\ \A d \in Callers : place'[d] \in {"idle", "update", "button"}
      /\ \A d \in Callers : IsAt(d, "button")' => pressed'[d] = info' /\ info' # NoMessage
  BY <1>2, <1>3 DEF Updating, IsAt
<1>5. ~readable => Idle' /\ op = NoOp /\ requests = <<>> /\ answers = {}
  <2> SUFFICES ASSUME ~readable PROVE Idle' /\ op = NoOp /\ requests = <<>> /\ answers = {}
    OBVIOUS
  <2>1. op = NoOp /\ requests = <<>> /\ answers = {}
    BY DEF Updating
  <2>2. \A d \in Callers : d # c => place[d] = "idle"
    BY DEF Updating, Idle, Alone, IsAt
  <2> QED
    BY <2>1, <2>2, Going
<1>6. CASE info = NoMessage
  <2>1. IsAt(c, "update") /\ UNCHANGED <<op, requests>>
    BY <1>6 DEF UpdatesInfo, Updating
  <2>2. requests = <<>> /\ op = NoOp
    BY <1>6 DEF Updating
  <2>3. info' \notin Live'
    BY <1>6, LiveFacts DEF Live
  <2> QED
    BY <1>1, <1>4, <1>5, <2>1, <2>2, <2>3 DEF Updating
<1>7. CASE info # NoMessage /\ readable
  <2>1. op' \in {Edit(info), Respond(info)} /\ UNCHANGED requests
    BY <1>7 DEF UpdatesInfo, UpdatesPressed, queue_embed_op, Updating
  <2>2. op' # NoOp
    BY <2>1 DEF Edit, Respond, NoOp
  <2> QED
    BY <1>1, <1>4, <1>7, <2>1, <2>2 DEF Updating
<1>8. CASE info # NoMessage /\ ~readable
  <2>1. op' = Create /\ DeletesInfo
    BY <1>8 DEF UpdatesInfo, UpdatesPressed, queue_embed_op
  <2>2. Removing'
    BY <1>5, <1>8, <2>1, DeletingStarts DEF Updating
  <2> QED
    BY <1>5, <1>8, <2>1, <2>2 DEF Asking
<1> QED
  BY <1>6, <1>7, <1>8

\* A caller goes on.
LEMMA ProceedKeeps ==
    ASSUME EmbedTyped, EmbedInv, Clean', NEW c \in Callers, CallerProceeds(c)
    PROVE  Updating' \/ Replaced'
<1>1. Clean /\ UNCHANGED <<now, info, answers, posted, readable, faults>>
  BY DEF Clean, CallerProceeds, update_info_embed, button_update, Started, send_info_embed, embedHistory,
         discordVars
<1>2. CASE update_info_embed(c) \/ button_update(c)
  <2>1. Updating
    BY <1>1, <1>2 DEF update_info_embed, button_update, EmbedInv, Replaced, Starting, Sending,
       Asking, Creating, Created, Alone, Idle, IsAt
  <2>2. /\ GoesTo(c, "idle") /\ ~IsAt(c, "idle")
        /\ \A d \in Callers : d # c => pressed'[d] = pressed[d]
        /\ \/ IsAt(c, "update") /\ UpdatesInfo
           \/ IsAt(c, "button") /\ UpdatesPressed(pressed[c])
    BY <1>2 DEF update_info_embed, button_update, IsAt, EmbedTyped, EmbedTypeOK
  <2> QED
    BY <1>1, <2>1, <2>2, UpdateKeeps DEF Replaced
<1>3. CASE Started(c)
  <2>1. Starting /\ \A d \in Callers : d # c => place[d] = "idle"
    BY <1>1, <1>3 DEF Started, EmbedInv, Replaced, Updating, Starting, Sending,
       Asking, Creating, Created, Alone, Idle, IsAt
  <2>2. CASE last = info /\ info # NoMessage /\ UpdatesInfo /\ GoesTo(c, "idle")
    <3>1. Idle'
      BY <2>1, <2>2, Going
    <3>2. CASE readable
      <4>1. op' = Edit(info) /\ UNCHANGED requests
        BY <2>2, <3>2 DEF UpdatesInfo, queue_embed_op
      <4>2. op' # NoOp
        BY <4>1 DEF Edit, NoOp
      <4>3. Only(info)'
        BY <1>1, <2>1 DEF Starting, Only, Live
      <4>4. requests' = <<>> /\ answers' = {}
        BY <1>1, <2>1, <4>1 DEF Starting
      <4>5. Len(requests') = 0
        BY <4>4, EmptySeq
      <4> QED
        BY <1>1, <2>2, <3>1, <3>2, <4>1, <4>2, <4>3, <4>4, <4>5 DEF Updating, Idle, IsAt
    <3>3. CASE ~readable
      <4>1. op' = Create /\ DeletesInfo
        BY <2>2, <3>3 DEF UpdatesInfo, queue_embed_op
      <4>2. Removing'
        BY <1>1, <2>1, <4>1, DeletingStarts DEF Starting
      <4> QED
        BY <1>1, <2>1, <3>1, <4>1, <4>2 DEF Asking, Starting, Replaced
    <3> QED
      BY <3>2, <3>3
  <2>3. CASE DeletesInfo /\ GoesTo(c, "send") /\ UNCHANGED op
    <3>1. Alone(c, "send")'
      BY <2>1, <2>3, Going
    <3>2. Removing'
      BY <1>1, <2>1, <2>3, DeletingStarts DEF Starting
    <3> QED
      BY <1>1, <2>1, <2>3, <3>1, <3>2 DEF Starting, Sending, Replaced
  <2> QED
    BY <1>3, <2>2, <2>3 DEF Started
<1>4. CASE send_info_embed(c)
  <2>1. Sending /\ \A d \in Callers : d # c => place[d] = "idle"
    BY <1>1, <1>4 DEF send_info_embed, EmbedInv, Replaced, Updating, Starting, Sending,
       Asking, Creating, Created, Alone, Idle, IsAt
  <2>2. Idle' /\ op' = Create /\ requests' = requests
    BY <1>4, <2>1, Going DEF send_info_embed, queue_embed_op, discordVars
  <2>3. Removing'
    BY <1>1, <2>1, <2>2 DEF Sending, Removing, Deleting, Live, Delete
  <2> QED
    BY <1>1, <2>1, <2>2, <2>3 DEF Sending, Asking, Replaced
<1> QED
  BY <1>2, <1>3, <1>4 DEF CallerProceeds

\* A request is added behind the others.
LEMMA Adding ==
    ASSUME EmbedTyped, NEW r, requests' = Append(requests, r)
    PROVE  /\ requests' # <<>> /\ Len(requests') = Len(requests) + 1
           /\ requests'[Len(requests) + 1] = r
           /\ \A k \in 1..Len(requests) : requests'[k] = requests[k]
<1> DEFINE S == [kind : {"create", "edit", "respond", "delete"}, message : 0..MaxMessages,
                 shows : 0..MaxChanges] \cup {r}
<1>1. requests \in Seq(S)
  <2>1. \A k \in 1..Len(requests) : requests[k] \in S
    BY ElementOfSeq DEF EmbedTyped, EmbedTypeOK
  <2> HIDE DEF S
  <2>2. Len(requests) \in Nat /\ \E T : requests \in [1..Len(requests) -> T]
    BY LenProperties DEF EmbedTyped, EmbedTypeOK
  <2>3. requests \in [1..Len(requests) -> S]
    BY <2>1, <2>2
  <2> QED
    BY <2>2, <2>3
<1> HIDE DEF S
<1>2. r \in S
  BY DEF S
<1>3. requests' \in Seq(S) /\ Len(requests') = Len(requests) + 1
  BY <1>1, <1>2, AppendProperties
<1>4. requests'[Len(requests) + 1] = r /\ \A k \in 1..Len(requests) : requests'[k] = requests[k]
  BY <1>1, <1>2, AppendProperties
<1>5. requests' # <<>>
  BY <1>1, <1>3, EmptySeq, LenProperties
<1> QED
  BY <1>3, <1>4, <1>5

\* The main loop runs the operation: its request shows what the player does.
LEMMA RunKeeps ==
    ASSUME EmbedTyped, EmbedInv, Clean', check_embed_op_queue
    PROVE  Updating' \/ Creating'
<1> DEFINE r == Showing(op, now)
           n == Len(requests)
<1>1. /\ Clean /\ op # NoOp /\ op' = NoOp /\ requests' = Append(requests, r)
      /\ UNCHANGED <<now, place, pressed, info, answers, posted, readable, faults>>
  BY DEF Clean, check_embed_op_queue, callerVars, embedHistory
<1>2. r.shows = now /\ r.kind = op.kind /\ r.message = op.message
  BY DEF Showing
<1> HIDE DEF r
<1>3. /\ requests' # <<>> /\ Len(requests') = n + 1 /\ requests'[n + 1] = r
      /\ \A k \in 1..n : requests'[k] = requests[k]
  BY <1>1, Adding
<1>4. n \in Nat /\ (requests # <<>> <=> n > 0)
  BY LiveFacts
<1>5. Updating \/ Asking
  BY <1>1 DEF EmbedInv, Replaced, Starting, Sending, Creating, Created
<1>6. CASE Updating
  <2>1. info # NoMessage /\ op \in {Edit(info), Respond(info)} /\ readable
    BY <1>1, <1>6 DEF Updating
  <2>2. r.kind \in {"edit", "respond"} /\ r.message = info
    BY <1>2, <2>1 DEF Edit, Respond
  <2>3. \A k \in 1..n : requests[k].kind \in {"edit", "respond"} /\ requests[k].message = info
    BY <1>6 DEF Updating
  <2>4. \A k \in 1..(n + 1) : /\ requests'[k].kind \in {"edit", "respond"}
                              /\ requests'[k].message = info
    <3> SUFFICES ASSUME NEW k \in 1..(n + 1)
                 PROVE  requests'[k].kind \in {"edit", "respond"} /\ requests'[k].message = info
      OBVIOUS
    <3>1. k \in 1..n \/ k = n + 1
      BY <1>4
    <3> QED
      BY <1>3, <2>2, <2>3, <3>1
  <2>5. Only(info)'
    BY <1>1, <1>6 DEF Updating, Only, Live
  <2>6. requests'[Len(requests')].shows = now'
    BY <1>1, <1>2, <1>3
  <2>7. /\ \A c \in Callers : place'[c] \in {"idle", "update", "button"}
        /\ \A c \in Callers : IsAt(c, "button")' => pressed'[c] = info' /\ info' # NoMessage
        /\ answers' \subseteq {info'}
    BY <1>1, <1>6 DEF Updating, IsAt
  <2> QED
    BY <1>1, <1>3, <2>1, <2>4, <2>5, <2>6, <2>7 DEF Updating
<1>7. CASE Asking
  <2>1. r = Showing(Create, now')
    BY <1>1, <1>7 DEF Asking, r
  <2>2. Idle' /\ answers' = {}
    BY <1>1, <1>7 DEF Asking, Idle, IsAt
  <2>3. CASE Deleting /\ n = 1
    <3>1. Deleting' /\ Len(requests') = 2 /\ requests'[2] = r
      BY <1>1, <1>3, <2>3 DEF Deleting, Live, Delete
    <3> QED
      BY <1>1, <2>1, <2>2, <3>1 DEF Creating
  <2>4. CASE requests = <<>> /\ Live = {}
    <3>1. Live' = {} /\ Len(requests') = 1 /\ requests'[1] = r
      BY <1>1, <1>3, <1>4, <2>4 DEF Live
    <3> QED
      BY <1>1, <2>1, <2>2, <3>1 DEF Creating
  <2> QED
    BY <1>7, <2>3, <2>4 DEF Asking, Removing
<1> QED
  BY <1>5, <1>6, <1>7

\* Discord carries out the first request: the others move up.
LEMMA First ==
    ASSUME EmbedTyped, NEW i \in DOMAIN requests, Serve(i), Clean'
    PROVE  /\ i = 1 /\ Clean
           /\ Len(requests') = Len(requests) - 1 /\ Len(requests) > 0
           /\ requests' = <<>> <=> Len(requests) = 1
           /\ \A k \in 1..Len(requests') : requests'[k] = requests[k + 1]
           /\ UNCHANGED <<now, place, pressed, info, op, readable, faults>>
<1> DEFINE S == [kind : {"create", "edit", "respond", "delete"}, message : 0..MaxMessages,
                 shows : 0..MaxChanges]
           q == RemoveAt(requests, i)
<1>1. requests \in Seq(S)
  BY DEF EmbedTyped, EmbedTypeOK
<1> HIDE DEF S
<1>2. i = 1 /\ Clean /\ UNCHANGED <<now, place, pressed, info, op, readable, faults>>
  BY DEF Serve, Clean, Fault, callerVars
<1>3. /\ q \in Seq(S) /\ Len(requests) \in Nat /\ i \in 1..Len(requests)
      /\ DOMAIN q = 1..(Len(requests) - 1)
      /\ \A k \in 1..(Len(requests) - 1) : q[k] = IF k < i THEN requests[k] ELSE requests[k + 1]
  BY <1>1, Taking
<1>4. requests' = q
  BY DEF Serve, RemoveAt, RemoveAt
<1> HIDE DEF q
<1>5. Len(q) = Len(requests) - 1 /\ (q = <<>> <=> Len(q) = 0)
  BY <1>3, LenProperties, EmptySeq
<1>6. \A k \in 1..(Len(requests) - 1) : q[k] = requests[k + 1]
  BY <1>2, <1>3
<1> QED
  BY <1>2, <1>3, <1>4, <1>5, <1>6

\* What is shown and what is gone, when a request on a message is carried out.
LEMMA PostedChanges ==
    ASSUME EmbedTyped, NEW m \in Live, NEW v, posted' = [posted EXCEPT ![m] = v]
    PROVE  /\ v = Gone => Live' = Live \ {m}
           /\ v # Gone => Live' = Live
           /\ posted'[m] = v
           /\ \A k \in Live : k # m => posted'[k] = posted[k]
  BY LiveFacts DEF Live

\* Discord carries out a request.
LEMMA ServeKeeps ==
    ASSUME EmbedTyped, EmbedInv, Clean', NEW i \in DOMAIN requests, Serve(i)
    PROVE  Updating' \/ Replaced'
<1> DEFINE r == requests[1]
           n == Len(requests)
           new == Len(posted) + 1
<1>1. /\ i = 1 /\ Clean /\ Len(requests') = n - 1 /\ n > 0 /\ n \in Nat
      /\ requests' = <<>> <=> n = 1
      /\ \A k \in 1..(n - 1) : requests'[k] = requests[k + 1]
      /\ UNCHANGED <<now, place, pressed, info, op, readable, faults>>
  BY First, LiveFacts
<1>2. r.shows \in 0..MaxChanges /\ requests # <<>>
  <2> DEFINE S == [kind : {"create", "edit", "respond", "delete"}, message : 0..MaxMessages,
                   shows : 0..MaxChanges]
  <2>1. requests \in Seq(S) /\ 1 \in 1..Len(requests)
    BY <1>1 DEF EmbedTyped, EmbedTypeOK
  <2>2. \A x \in S : x.shows \in 0..MaxChanges
    OBVIOUS
  <2> HIDE DEF S
  <2>3. r \in S
    BY <2>1, ElementOfSeq
  <2> QED
    BY <1>1, <2>2, <2>3, EmptySeq
<1>3. \/ /\ r.kind = "create" /\ new <= MaxMessages
         /\ posted' = Append(posted, r.shows) /\ answers' = answers \cup {new}
      \/ /\ r.message \in Live
         /\ posted' = [posted EXCEPT ![r.message] = IF r.kind = "delete" THEN Gone ELSE r.shows]
         /\ answers' = IF r.kind = "edit" THEN answers \cup {r.message} ELSE answers
      \/ /\ r.kind # "create" /\ r.message \notin Live
         /\ UNCHANGED <<posted, answers>>
  BY <1>1 DEF Serve
<1>4. r.shows # Gone
  BY <1>2, EmbedConstants DEF Gone
<1>5. CASE Updating
  <2>1. r.kind \in {"edit", "respond"} /\ r.message = info /\ readable /\ info # NoMessage
    BY <1>1, <1>2, <1>5 DEF Updating
  <2>2. answers' \subseteq {info}
    BY <1>3, <1>5, <2>1 DEF Updating
  <2>3. Live' = Live /\ (info \in Live => posted'[info] = r.shows)
    <3>1. CASE info \in Live
      <4>1. posted' = [posted EXCEPT ![info] = r.shows]
        BY <1>3, <2>1, <3>1
      <4> QED
        BY <1>4, <3>1, <4>1, PostedChanges
    <3>2. CASE info \notin Live
      BY <1>3, <2>1, <3>2 DEF Live
    <3> QED
      BY <3>1, <3>2
  <2>4. \A k \in 1..Len(requests') : /\ requests'[k].kind \in {"edit", "respond"}
                                     /\ requests'[k].message = info
    BY <1>1, <1>5 DEF Updating
  <2>5. Only(info)'
    BY <1>1, <1>5, <2>3 DEF Updating, Only
  <2>6. \/ ~Idle'
        \/ op' # NoOp
        \/ requests' # <<>> /\ requests'[Len(requests')].shows = now'
        \/ requests' = <<>> /\ (info' \in Live' => posted'[info'] = now')
    <3> SUFFICES ASSUME Idle, op = NoOp
                 PROVE  \/ requests' # <<>> /\ requests'[Len(requests')].shows = now
                        \/ requests' = <<>> /\ (info \in Live' => posted'[info] = now)
      BY <1>1 DEF Idle, IsAt
    <3>1. requests[n].shows = now
      BY <1>2, <1>5 DEF Updating
    <3>2. CASE n = 1
      BY <1>1, <2>3, <3>1, <3>2
    <3>3. CASE n # 1
      <4>1. requests'[n - 1] = requests[n - 1 + 1] /\ n - 1 + 1 = n
        BY <1>1, <3>3
      <4> QED
        BY <1>1, <3>1, <3>3, <4>1
    <3> QED
      BY <3>2, <3>3
  <2>7. /\ \A c \in Callers : place'[c] \in {"idle", "update", "button"}
        /\ \A c \in Callers : IsAt(c, "button")' => pressed'[c] = info' /\ info' # NoMessage
        /\ op' = NoOp \/ (info' # NoMessage /\ op' \in {Edit(info'), Respond(info')})
    BY <1>1, <1>5 DEF Updating, IsAt
  <2> QED
    BY <1>1, <2>1, <2>2, <2>4, <2>5, <2>6, <2>7 DEF Updating
<1>6. ASSUME Deleting, answers = {}
      PROVE  Live' = {} /\ answers' = {}
  <2>1. r.kind = "delete" /\ r.message = info /\ Live \subseteq {info}
    BY <1>6 DEF Deleting, Delete
  <2>2. CASE info \in Live
    <3>1. posted' = [posted EXCEPT ![info] = Gone] /\ answers' = answers
      BY <1>3, <2>1, <2>2
    <3>2. Live' = Live \ {info}
      BY <2>2, <3>1, PostedChanges
    <3> QED
      BY <1>6, <2>1, <3>1, <3>2
  <2>3. CASE info \notin Live
    BY <1>3, <1>6, <2>1, <2>3 DEF Live
  <2> QED
    BY <2>2, <2>3
<1>7. CASE Sending \/ Asking
  <2>1. Deleting /\ n = 1 /\ answers = {}
    BY <1>2, <1>7 DEF Sending, Asking, Removing
  <2>2. Removing' /\ answers' = {}
    BY <1>1, <1>6, <2>1 DEF Removing
  <2>3. CASE Sending
    BY <1>1, <2>2, <2>3 DEF Sending, Alone, IsAt, Replaced
  <2>4. CASE Asking
    BY <1>1, <2>2, <2>4 DEF Asking, Idle, IsAt, Replaced
  <2> QED
    BY <1>7, <2>3, <2>4
<1>8. CASE Creating
  <2>1. Idle' /\ op' = NoOp /\ answers = {}
    BY <1>1, <1>8 DEF Creating, Idle, IsAt
  <2>2. CASE Deleting /\ n = 2 /\ requests[2] = Showing(Create, now)
    <3>1. Live' = {} /\ answers' = {}
      BY <1>6, <2>1, <2>2
    <3>2. Len(requests') = 1 /\ requests'[1] = requests[1 + 1]
      BY <1>1, <2>2
    <3>3. requests'[1] = Showing(Create, now')
      BY <1>1, <2>2, <3>2
    <3> QED
      BY <2>1, <3>1, <3>2, <3>3 DEF Creating, Replaced
  <2>3. CASE n = 1 /\ r = Showing(Create, now) /\ Live = {}
    <3>1. r.kind = "create" /\ r.shows = now /\ r.message = NoMessage
      BY <2>3 DEF Showing, Create
    <3>2. /\ new <= MaxMessages /\ posted' = Append(posted, now) /\ answers' = {new}
      BY <1>3, <2>1, <2>3, <3>1
    <3>3. Live' = {new} /\ posted'[new] = now
      <4> DEFINE V == Gone..MaxChanges
      <4>1. posted \in Seq(V) /\ now \in V /\ now # Gone
        BY EmbedConstants DEF EmbedTyped, EmbedTypeOK, Gone
      <4> HIDE DEF V
      <4>2. Len(posted') = new /\ posted' \in Seq(V)
        BY <3>2, <4>1, AppendProperties
      <4>3. posted'[new] = now
        BY <3>2, <4>1, AppendProperties
      <4>4. \A k \in 1..Len(posted) : posted'[k] = posted[k]
        BY <3>2, <4>1, AppendProperties
      <4>5. DOMAIN posted' = 1..new /\ DOMAIN posted = 1..Len(posted) /\ Len(posted) \in Nat
        BY <4>1, <4>2, LenProperties
      <4>6. \A k \in DOMAIN posted' : k = new \/ k \in 1..Len(posted)
        BY <4>5
      <4>7. \A k \in 1..Len(posted) : posted[k] = Gone
        BY <2>3, <4>5 DEF Live
      <4>8. \A k \in DOMAIN posted' : posted'[k] # Gone <=> k = new
        BY <4>1, <4>3, <4>4, <4>6, <4>7
      <4>9. new \in DOMAIN posted'
        BY <4>5
      <4> QED
        BY <4>3, <4>8, <4>9 DEF Live
    <3>4. new \in Messages /\ new # info /\ new # NoMessage
      BY <3>2, LiveFacts DEF Messages, NoMessage
    <3>5. requests' = <<>>
      BY <1>1, <2>3
    <3>6. PICK m \in Messages : m = new
      BY <3>4
    <3>7. Only(m)' /\ answers' = {m} /\ m # info' /\ posted'[m] = now'
      BY <1>1, <3>2, <3>3, <3>4, <3>6 DEF Only
    <3> QED
      BY <1>1, <2>1, <3>5, <3>7 DEF Created, Replaced
  <2> QED
    BY <1>8, <2>2, <2>3 DEF Creating
<1>9. ~Starting /\ ~Created
  BY <1>2 DEF Starting, Created
<1> QED
  BY <1>1, <1>5, <1>7, <1>8, <1>9 DEF EmbedInv, Replaced

\* The player remembers the message of an answer.
LEMMA AnswerKeeps ==
    ASSUME EmbedTyped, EmbedInv, Clean', NEW m \in Messages, send_info_embed_cb(m)
    PROVE  Updating'
<1>1. /\ Clean /\ m \in answers /\ info' = m /\ answers' = answers \ {m}
      /\ UNCHANGED <<now, place, pressed, op, requests, posted, readable, faults>>
  BY DEF send_info_embed_cb, callerVars, embedHistory, Clean
<1>2. CASE Updating
  <2>1. info' = info /\ answers' = {}
    BY <1>1, <1>2 DEF Updating
  <2>2. Only(info)'
    BY <1>1, <1>2, <2>1 DEF Updating, Only, Live
  <2>3. readable
    BY <1>1, <1>2 DEF Updating
  <2>4. /\ \A c \in Callers : place'[c] \in {"idle", "update", "button"}
        /\ \A c \in Callers : IsAt(c, "button")' => pressed'[c] = info' /\ info' # NoMessage
    BY <1>1, <1>2, <2>1 DEF Updating, IsAt
  <2>5. \/ ~Idle'
        \/ op' # NoOp
        \/ requests' # <<>> /\ requests'[Len(requests')].shows = now'
        \/ requests' = <<>> /\ (info' \in Live' => posted'[info'] = now')
    BY <1>1, <1>2, <2>1 DEF Updating, Idle, IsAt, Live
  <2> QED
    BY <1>1, <1>2, <2>1, <2>2, <2>3, <2>4, <2>5 DEF Updating
<1>3. CASE Created
  <2>1. /\ answers = {m} /\ Only(m) /\ (m \in Live => posted[m] = now)
        /\ Idle /\ op = NoOp /\ requests = <<>>
    BY <1>1, <1>3 DEF Created
  <2>2. Only(info)' /\ Idle' /\ (info' \in Live' => posted'[info'] = now')
    BY <1>1, <2>1 DEF Only, Live, Idle, IsAt
  <2>3. Len(requests') = 0 /\ answers' = {}
    BY <1>1, <2>1, EmptySeq
  <2> QED
    BY <1>1, <2>1, <2>2, <2>3 DEF Updating, Idle, IsAt
<1> QED
  BY <1>1, <1>2, <1>3 DEF EmbedInv, Replaced, Starting, Sending, Asking, Creating

\* Somebody deletes the message.
LEMMA DeletedKeeps ==
    ASSUME EmbedTyped, EmbedInv, Clean', NEW m \in Messages, UserDeletes(m)
    PROVE  Updating' \/ Starting' \/ Replaced'
<1>1. /\ Clean /\ m \in Live /\ posted' = [posted EXCEPT ![m] = Gone]
      /\ UNCHANGED <<now, place, pressed, info, op, requests, answers, readable>>
      /\ faults' # {}
  BY DEF UserDeletes, Fault, callerVars, Clean
<1>2. Live' = Live \ {m} /\ \A k \in Live' : posted'[k] = posted[k]
  BY <1>1, PostedChanges
<1>3. \A k \in Messages \cup {info} : Only(k) => Only(k)'
  BY <1>1, <1>2 DEF Only
<1>4. CASE Updating
  <2>1. Only(info)'
    BY <1>1, <1>3, <1>4 DEF Updating
  <2>2. \/ ~Idle'
        \/ op' # NoOp
        \/ requests' # <<>> /\ requests'[Len(requests')].shows = now'
        \/ requests' = <<>> /\ (info' \in Live' => posted'[info'] = now')
    BY <1>1, <1>2, <1>4 DEF Updating, Idle, IsAt
  <2>3. ~readable' => Idle' \/ \E c \in Callers : Alone(c, "update")' \/ Alone(c, "button")'
    BY <1>1, <1>4 DEF Updating, Idle, Alone, IsAt
  <2>4. /\ \A c \in Callers : place'[c] \in {"idle", "update", "button"}
        /\ \A c \in Callers : IsAt(c, "button")' => pressed'[c] = info' /\ info' # NoMessage
    BY <1>1, <1>4 DEF Updating, IsAt
  <2> QED
    BY <1>1, <1>4, <2>1, <2>2, <2>3, <2>4 DEF Updating
<1>5. CASE Starting
  <2>1. Only(info)'
    BY <1>1, <1>3, <1>5 DEF Starting
  <2> QED
    BY <1>1, <1>5, <2>1 DEF Starting, Alone, IsAt
<1>6. Deleting => Deleting'
  BY <1>1, <1>2 DEF Deleting, Delete
<1>7. Removing => Removing'
  BY <1>1, <1>2, <1>6 DEF Removing
<1>8. CASE Sending \/ Asking
  BY <1>1, <1>7, <1>8 DEF Sending, Asking, Alone, Idle, IsAt, Replaced
<1>9. CASE Creating
  BY <1>1, <1>2, <1>6, <1>9 DEF Creating, Idle, IsAt, Replaced, Showing, Create
<1>10. CASE Created
  <2>1. PICK k \in Messages : answers = {k} /\ k # info /\ Only(k) /\ (k \in Live => posted[k] = now)
    BY <1>10 DEF Created
  <2>2. Only(k)' /\ (k \in Live' => posted'[k] = now')
    BY <1>1, <1>2, <1>3, <2>1
  <2> QED
    BY <1>1, <1>10, <2>1, <2>2 DEF Created, Idle, IsAt, Replaced
<1> QED
  BY <1>1, <1>4, <1>5, <1>8, <1>9, <1>10 DEF EmbedInv, Replaced

\* What matters of the state is the same.
LEMMA SameKeeps ==
    ASSUME EmbedInv, Clean',
           UNCHANGED <<now, place, pressed, info, op, requests, answers, posted, faults, disturbed>>,
           readable' = readable \/ Quiet
    PROVE  Updating' \/ Starting' \/ Replaced'
<1>1. Clean
  BY DEF Clean
<1>2. /\ Idle' <=> Idle
      /\ Live' = Live
      /\ Only(info)' <=> Only(info)
      /\ \A k \in Messages : Only(k)' <=> Only(k)
      /\ Deleting' <=> Deleting
      /\ \A c \in Callers : /\ Alone(c, "update")' <=> Alone(c, "update")
                            /\ Alone(c, "button")' <=> Alone(c, "button")
                            /\ Alone(c, "started")' <=> Alone(c, "started")
                            /\ Alone(c, "send")' <=> Alone(c, "send")
  BY DEF Idle, IsAt, Live, Only, Deleting, Delete, Alone
<1>3. Removing' <=> Removing
  BY <1>2 DEF Removing
<1>4. CASE Updating
  <2>1. Quiet => Idle /\ op = NoOp /\ requests = <<>> /\ answers = {}
    BY DEF Quiet, Idle
  <2>2. ~readable' => /\ op' = NoOp /\ requests' = <<>> /\ answers' = {}
                      /\ Idle' \/ \E c \in Callers : Alone(c, "update")' \/ Alone(c, "button")'
    BY <1>2, <1>4, <2>1 DEF Updating
  <2>3. /\ \A c \in Callers : place'[c] \in {"idle", "update", "button"}
        /\ \A c \in Callers : IsAt(c, "button")' => pressed'[c] = info' /\ info' # NoMessage
    BY <1>4 DEF Updating, IsAt
  <2> QED
    BY <1>2, <1>4, <2>2, <2>3 DEF Updating
<1>5. CASE Starting
  BY <1>2, <1>5 DEF Starting
<1>6. CASE Sending \/ Asking
  BY <1>2, <1>3, <1>6 DEF Sending, Asking, Replaced
<1>7. CASE Creating
  BY <1>2, <1>7 DEF Creating, Showing, Create, Replaced
<1>8. CASE Created
  BY <1>2, <1>8 DEF Created, Replaced
<1> QED
  BY <1>1, <1>4, <1>5, <1>6, <1>7, <1>8 DEF EmbedInv, Replaced

\* Every step keeps the message in one of these places.
LEMMA NextEmbedInv ==
    ASSUME EmbedTyped, EmbedInv, [EmbedNext]_embedVars
    PROVE  EmbedInv'
<1> SUFFICES ASSUME Clean' PROVE Updating' \/ Starting' \/ Replaced'
  BY DEF EmbedInv
<1>1. CASE \E c \in Callers : CommandChanges(c) \/ (\E m \in Messages : Button(c, m)) \/ TrackStarts(c)
  BY <1>1, ChangesKeep
<1>2. CASE \E c \in Callers : CallerProceeds(c)
  BY <1>2, ProceedKeeps
<1>3. CASE check_embed_op_queue
  BY <1>3, RunKeeps DEF Replaced
<1>4. CASE \E i \in DOMAIN requests : Serve(i)
  BY <1>4, ServeKeeps
<1>5. CASE \E m \in Messages : send_info_embed_cb(m)
  BY <1>5, AnswerKeeps
<1>6. CASE Chat \/ Permit \/ UNCHANGED embedVars
  BY <1>6, SameKeeps DEF Chat, Permit, embedVars, callerVars, discordVars, embedHistory
<1>7. CASE \E m \in Messages : UserDeletes(m)
  BY <1>7, DeletedKeeps
<1> QED
  BY <1>1, <1>2, <1>3, <1>4, <1>5, <1>6, <1>7 DEF EmbedNext

\* Whatever the commands, buttons and tracks, and whether somebody deletes the
\* message or not: each change is followed by an operation on the message, or is
\* made before the one that is due reads what the player does.
LEMMA EmbedHolds == EmbedSpec => []EmbedInv
<1>1. EmbedInit => EmbedInv
  <2> SUFFICES ASSUME EmbedInit PROVE Updating
    BY DEF EmbedInv
  <2>1. Live = {} /\ Len(requests) = 0 /\ Idle
    BY EmptySeq DEF EmbedInit, Live, Idle, IsAt
  <2> QED
    BY <2>1 DEF EmbedInit, Updating, Only, Idle, IsAt, NoMessage
<1>2. EmbedTyped /\ EmbedInv /\ [EmbedNext]_embedVars => EmbedInv'
  BY NextEmbedInv
<1>3. EmbedSpec => []EmbedTyped
  BY EmbedTypeHolds
<1> QED
  BY <1>1, <1>2, <1>3, PTL DEF EmbedSpec

\* Nothing goes on.
LEMMA QuietIsUpdating ==
    ASSUME EmbedInv, Quiet, Clean
    PROVE  Updating /\ Only(info) /\ (info \in Live => posted[info] = now)
<1>1. Idle /\ op = NoOp /\ requests = <<>> /\ answers = {}
  BY DEF Quiet, Idle
<1>2. Updating
  BY <1>1, EmptySeq DEF EmbedInv, Replaced, Starting, Sending, Asking, Creating, Created, Idle,
     Alone, IsAt, Create, NoOp
<1> QED
  BY <1>1, <1>2 DEF Updating

\* When nothing is on its way the message the player remembers shows what the
\* player does: no change is lost, although operations replace one another.
THEOREM FreshCorrect == EmbedSpec => []KnownIsFresh
<1>1. EmbedInv => KnownIsFresh
  BY QuietIsUpdating DEF KnownIsFresh, Clean
<1> QED
  BY <1>1, EmbedHolds, PTL

\* Every message that was replaced is gone: there is one, which the player
\* remembers.
THEOREM OneCorrect == EmbedSpec => []OneEmbed
<1>1. EmbedInv => OneEmbed
  BY QuietIsUpdating DEF OneEmbed, Clean, Only
<1> QED
  BY <1>1, EmbedHolds, PTL
================================================================================
