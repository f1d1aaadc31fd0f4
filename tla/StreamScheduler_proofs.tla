----------------------- MODULE StreamScheduler_proofs -----------------------
(***************************************************************************)
(* For every number of stream threads and guilds: a stream context is in   *)
(* one place of one thread's lists at most, and what a thread holds exists *)
(* and is not handed out again.  For every number of threads and no more   *)
(* than two guilds: a context marked as handled is held by a thread.       *)
(***************************************************************************)
EXTENDS StreamScheduler, SequenceTheorems, FiniteSetTheorems, TLAPS

\* While notify_work runs, under stream_ctxs' lock, its context is live and
\* nobody's; so is what the pass still has to look at, but for the latter half.
TargetFree ==
    /\ mpc # "sleep" => todo \subseteq live
    /\ mpc \in {"first", "second"} => target \in live /\ ~handled[target]

\* A thread at work on a context has it at the head of its batch.
AtWork == \A t \in Threads : wpc[t] \in {"run", "release", "erase"} => batch[t] # <<>>

IInv == TypeOK /\ OneOwner /\ HeldIsLive /\ TargetFree /\ AtWork

----------------------------------------------------------------------------
\* The lists of a thread are sequences of guilds.
LEMMA ListFacts ==
    ASSUME TypeOK, NEW t \in Threads, NEW l \in Lists
    PROVE  List(t, l) \in Seq(Guilds) /\ Len(List(t, l)) \in Nat
<1>1. List(t, l) \in Seq(Guilds)
  BY DEF TypeOK, List, Lists
<1> QED
  BY <1>1, LenProperties

\* An entry of a list is held.
LEMMA EntryHeld ==
    ASSUME NEW t \in Threads, NEW l \in Lists, NEW i \in 1..Len(List(t, l))
    PROVE  Held(List(t, l)[i])
  BY DEF Held

\* The lists as they are after a step.
LEMMA ListNext ==
    ASSUME NEW t \in Threads, NEW l \in Lists
    PROVE  /\ l = "pending" => List(t, l)' = pending'[t]
           /\ l = "batch" => List(t, l)' = batch'[t]
  BY DEF List, Lists

\* The thread takes its pending list: every entry stays in one place.
LEMMA TakeKeeps ==
    ASSUME TypeOK, OneOwner, NEW t \in Threads,
           batch' = [batch EXCEPT ![t] = pending[t]],
           pending' = [pending EXCEPT ![t] = <<>>]
    PROVE  /\ OneOwner'
           /\ \A g : Held(g)' => Held(g)
<1> DEFINE Old(u, l) == IF u = t /\ l = "batch" THEN "pending" ELSE l
<1>1. ASSUME NEW u \in Threads, NEW l \in Lists, NEW i \in 1..Len(List(u, l)')
      PROVE  /\ Old(u, l) \in Lists
             /\ i \in 1..Len(List(u, Old(u, l)))
             /\ List(u, l)'[i] = List(u, Old(u, l))[i]
             /\ ~(u = t /\ l = "pending")
  <2>1. pending \in [Threads -> Seq(Guilds)] /\ batch \in [Threads -> Seq(Guilds)]
    BY DEF TypeOK
  <2>2. ~(u = t /\ l = "pending")
    <3> SUFFICES ASSUME u = t, l = "pending" PROVE FALSE
      OBVIOUS
    <3>1. List(u, l)' = <<>>
      BY <2>1 DEF List
    <3> QED
      BY <3>1
  <2>3. List(u, l)' = List(u, Old(u, l)) /\ Old(u, l) \in Lists
    BY <2>1, <2>2 DEF List, Lists
  <2> QED
    BY <2>2, <2>3
<1>2. OneOwner'
  <2> SUFFICES ASSUME NEW u \in Threads, NEW v \in Threads, NEW l \in Lists, NEW m \in Lists,
                      NEW i \in 1..Len(List(u, l)'), NEW j \in 1..Len(List(v, m)'),
                      List(u, l)'[i] = List(v, m)'[j]
               PROVE  u = v /\ l = m /\ i = j
    BY DEF OneOwner, Threads, Lists
  <2>1. List(u, Old(u, l))[i] = List(v, Old(v, m))[j]
    BY <1>1
  <2>2. u = v /\ Old(u, l) = Old(v, m) /\ i = j
    BY <1>1, <2>1 DEF OneOwner
  <2> QED
    BY <1>1, <2>2 DEF Lists
<1>3. ASSUME NEW g, Held(g)' PROVE Held(g)
  <2>1. PICK u \in Threads, l \in Lists : \E i \in 1..Len(List(u, l)') : List(u, l)'[i] = g
    BY <1>3 DEF Held, Threads, Lists
  <2>2. PICK i \in 1..Len(List(u, l)') : List(u, l)'[i] = g
    BY <2>1
  <2> QED
    BY <1>1, <2>2 DEF Held
<1> QED
  BY <1>2, <1>3

\* The thread leaves the first context of its batch: the others stay in one
\* place, and nobody holds that one.
LEMMA AdvanceKeeps ==
    ASSUME TypeOK, OneOwner, NEW t \in Threads, batch[t] # <<>>,
           batch' = [batch EXCEPT ![t] = Tail(@)], pending' = pending
    PROVE  /\ OneOwner'
           /\ \A g : Held(g)' => Held(g) /\ g # Head(batch[t])
<1> DEFINE Old(u, l, i) == IF u = t /\ l = "batch" THEN i + 1 ELSE i
<1>1. /\ pending \in [Threads -> Seq(Guilds)] /\ batch \in [Threads -> Seq(Guilds)]
      /\ batch[t] \in Seq(Guilds)
  BY DEF TypeOK
<1>2. /\ Len(batch[t]) \in Nat \ {0} /\ Len(Tail(batch[t])) = Len(batch[t]) - 1
      /\ \A i \in 1..Len(Tail(batch[t])) : Tail(batch[t])[i] = batch[t][i + 1]
      /\ Head(batch[t]) = batch[t][1]
  BY <1>1, HeadTailProperties, EmptySeq, LenProperties
<1>3. ASSUME NEW u \in Threads, NEW l \in Lists, NEW i \in 1..Len(List(u, l)')
      PROVE  /\ Old(u, l, i) \in 1..Len(List(u, l))
             /\ List(u, l)'[i] = List(u, l)[Old(u, l, i)]
             /\ ~(u = t /\ l = "batch" /\ Old(u, l, i) = 1)
  <2>1. CASE u = t /\ l = "batch"
    <3>1. List(u, l)' = Tail(batch[t]) /\ List(u, l) = batch[t]
      BY <1>1, <2>1 DEF List
    <3> QED
      BY <1>2, <2>1, <3>1
  <2>2. CASE ~(u = t /\ l = "batch")
    <3>1. List(u, l)' = List(u, l)
      BY <1>1, <2>2 DEF List, Lists
    <3> QED
      BY <2>2, <3>1
  <2> QED
    BY <2>1, <2>2
<1>4. OneOwner'
  <2> SUFFICES ASSUME NEW u \in Threads, NEW v \in Threads, NEW l \in Lists, NEW m \in Lists,
                      NEW i \in 1..Len(List(u, l)'), NEW j \in 1..Len(List(v, m)'),
                      List(u, l)'[i] = List(v, m)'[j]
               PROVE  u = v /\ l = m /\ i = j
    BY DEF OneOwner, Threads, Lists
  <2>1. List(u, l)[Old(u, l, i)] = List(v, m)[Old(v, m, j)]
    BY <1>3
  <2>2. u = v /\ l = m /\ Old(u, l, i) = Old(v, m, j)
    BY <1>3, <2>1 DEF OneOwner
  <2> QED
    BY <2>2
<1>5. ASSUME NEW g, Held(g)' PROVE Held(g) /\ g # Head(batch[t])
  <2>1. PICK u \in Threads, l \in Lists : \E i \in 1..Len(List(u, l)') : List(u, l)'[i] = g
    BY <1>5 DEF Held, Threads, Lists
  <2>2. PICK i \in 1..Len(List(u, l)') : List(u, l)'[i] = g
    BY <2>1
  <2>3. Held(g)
    BY <1>3, <2>2 DEF Held
  <2>4. g # Head(batch[t])
    <3>1. List(t, "batch") = batch[t] /\ "batch" \in Lists /\ 1 \in 1..Len(List(t, "batch"))
      BY <1>2 DEF List, Lists
    <3>2. List(u, l)[Old(u, l, i)] = g /\ Old(u, l, i) \in 1..Len(List(u, l))
      BY <1>3, <2>2
    <3>3. g = List(t, "batch")[1] => u = t /\ l = "batch" /\ Old(u, l, i) = 1
      BY <3>1, <3>2 DEF OneOwner
    <3> QED
      BY <1>2, <1>3, <3>1, <3>3
  <2> QED
    BY <2>3, <2>4
<1> QED
  BY <1>4, <1>5

\* notify_work gives a thread a context that nobody holds.
LEMMA GiveKeeps ==
    ASSUME TypeOK, OneOwner, NEW t \in Threads, target \in Guilds, ~Held(target),
           pending' = [pending EXCEPT ![t] = Append(@, target)], batch' = batch
    PROVE  /\ OneOwner'
           /\ \A g : Held(g)' => Held(g) \/ g = target
<1> DEFINE New(u, l, i) == u = t /\ l = "pending" /\ i = Len(pending[t]) + 1
<1>1. /\ pending \in [Threads -> Seq(Guilds)] /\ pending[t] \in Seq(Guilds)
      /\ Len(pending[t]) \in Nat
  BY LenProperties DEF TypeOK
<1>2. /\ Len(Append(pending[t], target)) = Len(pending[t]) + 1
      /\ \A i \in 1..Len(pending[t]) : Append(pending[t], target)[i] = pending[t][i]
      /\ Append(pending[t], target)[Len(pending[t]) + 1] = target
  BY <1>1, AppendProperties
<1>3. ASSUME NEW u \in Threads, NEW l \in Lists, NEW i \in 1..Len(List(u, l)')
      PROVE  \/ New(u, l, i) /\ List(u, l)'[i] = target
             \/ /\ ~New(u, l, i)
                /\ i \in 1..Len(List(u, l))
                /\ List(u, l)'[i] = List(u, l)[i]
  <2>1. CASE u = t /\ l = "pending"
    <3>1. List(u, l)' = Append(pending[t], target) /\ List(u, l) = pending[t]
      BY <1>1, <2>1 DEF List
    <3> QED
      BY <1>1, <1>2, <2>1, <3>1
  <2>2. CASE ~(u = t /\ l = "pending")
    <3>1. List(u, l)' = List(u, l)
      BY <1>1, <2>2 DEF List, Lists
    <3> QED
      BY <2>2, <3>1
  <2> QED
    BY <2>1, <2>2
<1>4. OneOwner'
  <2> SUFFICES ASSUME NEW u \in Threads, NEW v \in Threads, NEW l \in Lists, NEW m \in Lists,
                      NEW i \in 1..Len(List(u, l)'), NEW j \in 1..Len(List(v, m)'),
                      List(u, l)'[i] = List(v, m)'[j]
               PROVE  u = v /\ l = m /\ i = j
    BY DEF OneOwner, Threads, Lists
  <2>1. CASE New(u, l, i)
    <3>1. List(v, m)'[j] = target
      BY <1>3, <2>1
    <3>2. New(v, m, j)
      BY <1>3, <3>1, EntryHeld
    <3> QED
      BY <2>1, <3>2
  <2>2. CASE ~New(u, l, i)
    <3>1. List(u, l)'[i] = List(u, l)[i] /\ i \in 1..Len(List(u, l))
      BY <1>3, <2>2
    <3>2. ~New(v, m, j)
      <4>1. Held(List(u, l)[i])
        BY <3>1, EntryHeld
      <4>2. List(v, m)'[j] # target
        BY <3>1, <4>1
      <4> QED
        BY <1>3, <4>2
    <3>3. List(v, m)'[j] = List(v, m)[j] /\ j \in 1..Len(List(v, m))
      BY <1>3, <3>2
    <3>4. List(u, l)[i] = List(v, m)[j]
      BY <3>1, <3>3
    <3> QED
      BY <3>1, <3>3, <3>4 DEF OneOwner
  <2> QED
    BY <2>1, <2>2
<1>5. ASSUME NEW g, Held(g)' PROVE Held(g) \/ g = target
  <2>1. PICK u \in Threads, l \in Lists : \E i \in 1..Len(List(u, l)') : List(u, l)'[i] = g
    BY <1>5 DEF Held, Threads, Lists
  <2>2. PICK i \in 1..Len(List(u, l)') : List(u, l)'[i] = g
    BY <2>1
  <2> QED
    BY <1>3, <2>2 DEF Held
<1> QED
  BY <1>4, <1>5

\* The steps that leave the lists alone.
LEMMA SameLists ==
    ASSUME UNCHANGED <<pending, batch>>
    PROVE  /\ OneOwner <=> OneOwner'
           /\ \A g : Held(g)' <=> Held(g)
  BY DEF OneOwner, Held, List, Lists, Threads

----------------------------------------------------------------------------
(***************************************************************************)
(* Every step keeps the invariant.                                         *)
(***************************************************************************)

\* The player's steps but submit_stream_ctx.
LEMMA PlayerStep ==
    ASSUME IInv, NEW g \in Guilds,
           Marker(g) \/ PlayInit(g) \/ StopBegin(g) \/ StopEnd(g)
    PROVE  IInv'
<1>1. UNCHANGED <<ctxVars, listVars, mainVars>>
  BY DEF Marker, PlayInit, StopBegin, StopEnd
<1>2. /\ processing' \in [Guilds -> BOOLEAN] /\ stopping' \in [Guilds -> BOOLEAN]
      /\ starting' \in [Guilds -> 0..MaxStarts]
      /\ opening' \in [Guilds -> BOOLEAN] /\ stopper' \in [Guilds -> BOOLEAN]
  <2>1. /\ processing \in [Guilds -> BOOLEAN] /\ stopping \in [Guilds -> BOOLEAN]
        /\ starting \in [Guilds -> 0..MaxStarts] /\ MaxStarts \in Nat
        /\ opening \in [Guilds -> BOOLEAN] /\ stopper \in [Guilds -> BOOLEAN]
        /\ starting[g] \in 0..MaxStarts
    BY ConstantsAssumption DEF IInv, TypeOK
  <2>2. CASE Marker(g)
    <3>1. starting[g] + 1 \in 0..MaxStarts
      BY <2>1, <2>2 DEF Marker
    <3> QED
      BY <2>1, <2>2, <3>1 DEF Marker
  <2>3. CASE PlayInit(g)
    <3>1. starting[g] - 1 \in 0..MaxStarts
      BY <2>1, <2>3 DEF PlayInit
    <3> QED
      BY <2>1, <2>3, <3>1 DEF PlayInit
  <2>4. CASE StopBegin(g) \/ StopEnd(g)
    BY <2>1, <2>4 DEF StopBegin, StopEnd
  <2> QED
    BY <2>2, <2>3, <2>4
<1>3. TypeOK'
  BY <1>1, <1>2 DEF IInv, TypeOK, ctxVars, listVars, mainVars
<1>4. OneOwner' /\ HeldIsLive'
  BY <1>1, SameLists DEF IInv, HeldIsLive, ctxVars, listVars
<1>5. TargetFree' /\ AtWork'
  BY <1>1 DEF IInv, TargetFree, AtWork, ctxVars, listVars, mainVars
<1> QED
  BY <1>3, <1>4, <1>5 DEF IInv

\* submit_stream_ctx.
LEMMA SubmitStep ==
    ASSUME IInv, NEW g \in Guilds, NEW opens \in BOOLEAN, Submit(g, opens)
    PROVE  IInv'
<1>1. /\ UNCHANGED <<listVars, mainVars, processing, stopping, starting, stopper>>
      /\ mpc = "sleep" /\ live \subseteq live' /\ live' \subseteq live \cup {g}
  BY DEF Submit
<1>2. /\ handled' \in [Guilds -> BOOLEAN]
      /\ \A h \in live : h \in Guilds /\ handled'[h] = handled[h]
  BY DEF Submit, IInv, TypeOK
<1>3. TypeOK'
  <2>1. live' \subseteq Guilds /\ opening' \in [Guilds -> BOOLEAN]
    BY <1>1 DEF Submit, IInv, TypeOK
  <2> QED
    BY <1>1, <1>2, <2>1 DEF IInv, TypeOK, listVars, mainVars
<1>4. OneOwner' /\ HeldIsLive'
  BY <1>1, <1>2, SameLists DEF IInv, HeldIsLive, listVars
<1>5. TargetFree' /\ AtWork'
  BY <1>1 DEF IInv, TargetFree, AtWork, listVars, mainVars
<1> QED
  BY <1>3, <1>4, <1>5 DEF IInv

\* The steps of a pass that hand out no context.
LEMMA PassStep ==
    ASSUME IInv,
           \/ PassBegin \/ PassEnd \/ AllBusy
           \/ \E g \in Guilds : Leave(g) \/ Notify(g)
    PROVE  IInv'
<1>1. UNCHANGED <<ctxVars, listVars, playerVars>>
  BY DEF PassBegin, PassEnd, AllBusy, Leave, Notify
<1>2. /\ mpc' \in Positions /\ todo' \subseteq Guilds /\ target' \in Guilds \cup {NoGuild}
      /\ at' \in 1..(NThreads + 1) /\ most' \in Nat /\ least' \in Nat
  <2>1. Huge \in Nat
    BY ConstantsAssumption, FS_CardinalityType DEF Huge
  <2>2. NThreads \in Nat \ {0}
    BY ConstantsAssumption
  <2> QED
    BY <2>1, <2>2 DEF PassBegin, PassEnd, AllBusy, Leave, Notify, IInv, TypeOK, Positions
<1>3. TypeOK'
  BY <1>1, <1>2 DEF IInv, TypeOK, ctxVars, listVars, playerVars
<1>4. OneOwner' /\ HeldIsLive'
  BY <1>1, SameLists DEF IInv, HeldIsLive, ctxVars, listVars
<1>5. TargetFree'
  BY <1>1 DEF PassBegin, PassEnd, AllBusy, Leave, Notify, IInv, TargetFree, ctxVars
<1>6. AtWork'
  BY <1>1 DEF IInv, AtWork, listVars
<1> QED
  BY <1>3, <1>4, <1>5, <1>6 DEF IInv

\* A context is marked as handled once notify_work has returned.
LEMMA MarkedFacts ==
    ASSUME IInv, mpc \in {"first", "second"}, Marked
    PROVE  /\ live' = live /\ handled' = [handled EXCEPT ![target] = TRUE]
           /\ target \in live /\ target \in Guilds /\ ~handled[target] /\ ~Held(target)
           /\ mpc' = "scan" /\ target' \in Guilds \cup {NoGuild}
           /\ UNCHANGED <<todo, at, most, least, playerVars>>
           /\ TargetFree'
  BY DEF Marked, IInv, TargetFree, HeldIsLive, TypeOK

\* notify_work: a thread gets the context.
LEMMA GiveStep ==
    ASSUME IInv, NEW t \in Threads, mpc \in {"first", "second"}, Give(t)
    PROVE  IInv'
<1>1. Marked /\ UNCHANGED <<batch, size>>
      /\ pending' = [pending EXCEPT ![t] = Append(@, target)]
      /\ wpc' = [wpc EXCEPT ![t] = IF @ = "wait" THEN "top" ELSE @]
  BY DEF Give
<1>2. OneOwner' /\ \A g : Held(g)' => Held(g) \/ g = target
  BY <1>1, MarkedFacts, GiveKeeps DEF IInv
<1>3. HeldIsLive'
  <2> SUFFICES ASSUME NEW g \in Guilds, Held(g)' PROVE g \in live' /\ handled'[g]
    BY DEF HeldIsLive
  <2>1. live' = live /\ handled' = [handled EXCEPT ![target] = TRUE] /\ target \in live
    BY <1>1, MarkedFacts
  <2>2. handled \in [Guilds -> BOOLEAN]
    BY DEF IInv, TypeOK
  <2>3. Held(g) \/ g = target
    BY <1>2
  <2>4. CASE Held(g)
    BY <2>1, <2>2, <2>4 DEF IInv, HeldIsLive
  <2>5. CASE g = target
    BY <2>1, <2>2, <2>5
  <2> QED
    BY <2>3, <2>4, <2>5
<1>4. TypeOK'
  <2>1. pending' \in [Threads -> Seq(Guilds)]
    <3>1. Append(pending[t], target) \in Seq(Guilds)
      BY <1>1, MarkedFacts, AppendProperties DEF IInv, TypeOK
    <3> QED
      BY <1>1, <3>1 DEF IInv, TypeOK
  <2>2. handled' \in [Guilds -> BOOLEAN]
        /\ wpc' \in [Threads -> {"top", "wait", "run", "release", "erase"}]
    BY <1>1, MarkedFacts DEF IInv, TypeOK
  <2> QED
    BY <1>1, <2>1, <2>2, MarkedFacts DEF IInv, TypeOK, Positions, playerVars
<1>5. AtWork'
  BY <1>1 DEF IInv, AtWork, TypeOK
<1> QED
  BY <1>1, <1>2, <1>3, <1>4, <1>5, MarkedFacts DEF IInv

\* notify_work: the two passes over the threads.
LEMMA NotifyStep ==
    ASSUME IInv, FirstPass \/ SecondPass \/ NobodyLess
    PROVE  IInv'
<1>1. at <= NThreads => at \in Threads
  BY ConstantsAssumption DEF IInv, TypeOK, Threads
<1>2. CASE (FirstPass /\ size[at] = 0) \/ (SecondPass /\ size[at] # most)
  BY <1>1, <1>2, GiveStep DEF FirstPass, SecondPass
<1>3. CASE (FirstPass /\ size[at] # 0) \/ (SecondPass /\ size[at] = most)
  <2>1. UNCHANGED <<ctxVars, listVars, mpc, todo, target, playerVars>> /\ at' = at + 1
    BY <1>3 DEF FirstPass, SecondPass
  <2>2. at' \in 1..(NThreads + 1) /\ most' \in Nat /\ least' \in Nat
    <3>1. size[at] \in Nat /\ at \in 1..NThreads
      BY <1>1, <1>3 DEF FirstPass, SecondPass, IInv, TypeOK, Threads
    <3>2. most \in Nat /\ least \in Nat /\ NThreads \in Nat
      BY ConstantsAssumption DEF IInv, TypeOK
    <3> QED
      BY <1>3, <2>1, <3>1, <3>2 DEF FirstPass, SecondPass, Larger, Smaller
  <2>3. TypeOK'
    BY <2>1, <2>2 DEF IInv, TypeOK, ctxVars, listVars, playerVars
  <2>4. OneOwner' /\ HeldIsLive'
    BY <2>1, SameLists DEF IInv, HeldIsLive, ctxVars, listVars
  <2>5. TargetFree' /\ AtWork'
    BY <2>1 DEF IInv, TargetFree, AtWork, ctxVars, listVars
  <2> QED
    BY <2>3, <2>4, <2>5 DEF IInv
<1>4. CASE NobodyLess
  <2>1. mpc \in {"first", "second"} /\ Marked /\ UNCHANGED listVars
    BY <1>4 DEF NobodyLess
  <2>2. TypeOK'
    <3>1. handled' \in [Guilds -> BOOLEAN]
      BY <2>1, MarkedFacts DEF IInv, TypeOK
    <3> QED
      BY <2>1, <3>1, MarkedFacts DEF IInv, TypeOK, Positions, listVars, playerVars
  <2>3. OneOwner' /\ HeldIsLive'
    BY <2>1, SameLists, MarkedFacts DEF IInv, HeldIsLive, TypeOK, listVars
  <2>4. AtWork'
    BY <2>1 DEF IInv, AtWork, listVars
  <2> QED
    BY <2>1, <2>2, <2>3, <2>4, MarkedFacts DEF IInv
<1> QED
  BY <1>2, <1>3, <1>4

\* A stream thread takes what it was given, or waits.
LEMMA TopStep ==
    ASSUME IInv, NEW t \in Threads, Top(t)
    PROVE  IInv'
<1>1. /\ batch' = [batch EXCEPT ![t] = pending[t]]
      /\ pending' = [pending EXCEPT ![t] = <<>>]
      /\ size' = [size EXCEPT ![t] = Len(pending[t])]
      /\ wpc' = [wpc EXCEPT ![t] = IF pending[t] = <<>> THEN "wait" ELSE "run"]
      /\ UNCHANGED <<ctxVars, mainVars, playerVars>>
  BY DEF Top
<1>2. OneOwner' /\ \A g : Held(g)' => Held(g)
  BY <1>1, TakeKeeps DEF IInv
<1>3. HeldIsLive'
  BY <1>1, <1>2 DEF IInv, HeldIsLive, ctxVars
<1>4. TypeOK'
  <2>1. pending[t] \in Seq(Guilds) /\ Len(pending[t]) \in Nat /\ <<>> \in Seq(Guilds)
    BY LenProperties, EmptySeq DEF IInv, TypeOK
  <2>2. /\ batch' \in [Threads -> Seq(Guilds)] /\ pending' \in [Threads -> Seq(Guilds)]
        /\ size' \in [Threads -> Nat]
        /\ wpc' \in [Threads -> {"top", "wait", "run", "release", "erase"}]
    BY <1>1, <2>1 DEF IInv, TypeOK
  <2> QED
    BY <1>1, <2>2 DEF IInv, TypeOK, ctxVars, mainVars, playerVars
<1>5. TargetFree'
  BY <1>1 DEF IInv, TargetFree, ctxVars, mainVars
<1>6. AtWork'
  BY <1>1 DEF IInv, AtWork, TypeOK
<1> QED
  BY <1>2, <1>3, <1>4, <1>5, <1>6 DEF IInv

\* A stream thread runs a context.
LEMMA RunStep ==
    ASSUME IInv, NEW t \in Threads, Filled(t) \/ RunEnds(t)
    PROVE  IInv'
<1>1. /\ UNCHANGED <<ctxVars, pending, batch, size, mainVars, playerVars>>
      /\ wpc[t] = "run"
      /\ wpc' \in {[wpc EXCEPT ![t] = "release"], [wpc EXCEPT ![t] = "erase"]}
  BY DEF Filled, RunEnds
<1>2. TypeOK'
  BY <1>1 DEF IInv, TypeOK, ctxVars, mainVars, playerVars
<1>3. OneOwner' /\ HeldIsLive'
  BY <1>1, SameLists DEF IInv, HeldIsLive, ctxVars
<1>4. TargetFree' /\ AtWork'
  BY <1>1 DEF IInv, TargetFree, AtWork, TypeOK, ctxVars, mainVars
<1> QED
  BY <1>2, <1>3, <1>4 DEF IInv

\* A stream thread is done with a context, which is released or erased.
LEMMA DoneStep ==
    ASSUME IInv, NEW t \in Threads, Release(t) \/ Erase(t)
    PROVE  IInv'
<1> DEFINE h == Head(batch[t])
<1>1. /\ wpc[t] \in {"release", "erase"} /\ mpc = "sleep" /\ mainVars' = mainVars
      /\ batch' = [batch EXCEPT ![t] = Tail(@)] /\ UNCHANGED <<pending, size>>
      /\ wpc' = [wpc EXCEPT ![t] = IF Len(batch[t]) = 1 THEN "top" ELSE "run"]
      /\ handled' = [handled EXCEPT ![h] = FALSE]
      /\ live' \in {live, live \ {h}}
      /\ processing' \in {processing, [processing EXCEPT ![h] = FALSE]}
      /\ stopping' \in {stopping, [stopping EXCEPT ![h] = FALSE]}
      /\ UNCHANGED <<starting, opening, stopper>>
  BY DEF Release, Erase, Advance, playerVars
<1>2. batch[t] # <<>> /\ batch[t] \in Seq(Guilds)
  BY <1>1 DEF IInv, AtWork, TypeOK
<1>3. h \in Guilds /\ Tail(batch[t]) \in Seq(Guilds)
      /\ (Tail(batch[t]) # <<>> <=> Len(batch[t]) # 1)
  <2> DEFINE s == batch[t]
             rest == Tail(s)
  <2>1. s \in Seq(Guilds) /\ s # <<>> /\ h = Head(s)
    BY <1>2
  <2> HIDE DEF s
  <2>2. Head(s) \in Guilds /\ rest \in Seq(Guilds) /\ Len(rest) = Len(s) - 1
    BY <2>1, HeadTailProperties
  <2>3. Len(s) \in Nat
    BY <2>1, LenProperties
  <2> HIDE DEF rest
  <2>4. rest # <<>> <=> Len(rest) # 0
    BY <2>2, EmptySeq
  <2>5. Len(rest) # 0 <=> Len(s) # 1
    BY <2>2, <2>3
  <2> QED
    BY <2>1, <2>2, <2>4, <2>5 DEF s, rest
<1> HIDE DEF h
<1>4. OneOwner' /\ \A g : Held(g)' => Held(g) /\ g # h
  BY <1>1, <1>2, AdvanceKeeps DEF IInv, h
<1>5. HeldIsLive'
  BY <1>1, <1>4 DEF IInv, HeldIsLive, TypeOK
<1>6. TypeOK'
  <2>1. /\ batch' \in [Threads -> Seq(Guilds)]
        /\ wpc' \in [Threads -> {"top", "wait", "run", "release", "erase"}]
    BY <1>1, <1>3 DEF IInv, TypeOK
  <2>2. /\ live' \subseteq Guilds /\ handled' \in [Guilds -> BOOLEAN]
        /\ processing' \in [Guilds -> BOOLEAN] /\ stopping' \in [Guilds -> BOOLEAN]
    BY <1>1 DEF IInv, TypeOK
  <2> QED
    BY <1>1, <2>1, <2>2 DEF IInv, TypeOK, mainVars
<1>7. TargetFree'
  BY <1>1 DEF IInv, TargetFree, mainVars
<1>8. AtWork'
  BY <1>1, <1>3 DEF IInv, AtWork, TypeOK
<1> QED
  BY <1>4, <1>5, <1>6, <1>7, <1>8 DEF IInv

----------------------------------------------------------------------------
\* Nothing is open and no thread holds anything at the start.
LEMMA InitIInv == Init => IInv
<1> SUFFICES ASSUME Init PROVE IInv
  OBVIOUS
<1>1. Huge \in Nat /\ 1 \in 1..(NThreads + 1) /\ 0 \in 0..MaxStarts
  BY ConstantsAssumption, FS_CardinalityType DEF Huge
<1>2. TypeOK
  <2>1. <<>> \in Seq(Guilds)
    BY EmptySeq
  <2> QED
    BY <1>1, <2>1 DEF Init, TypeOK, Positions
<1>3. \A t \in Threads, l \in Lists : List(t, l) = <<>>
  BY DEF Init, List, Lists
<1>4. OneOwner /\ HeldIsLive
  BY <1>3 DEF OneOwner, HeldIsLive, Held
<1>5. TargetFree /\ AtWork
  BY DEF Init, TargetFree, AtWork
<1> QED
  BY <1>2, <1>4, <1>5 DEF IInv

\* Every step keeps the invariant.
LEMMA NextIInv ==
    ASSUME IInv, [Next]_vars
    PROVE  IInv'
<1>1. CASE Player
  BY <1>1, PlayerStep, SubmitStep DEF Player
<1>2. CASE Main
  BY <1>2, PassStep, NotifyStep DEF Main
<1>3. CASE \E t \in Threads : Worker(t)
  BY <1>3, TopStep, RunStep, DoneStep DEF Worker
<1>4. CASE UNCHANGED vars
  <2>1. UNCHANGED <<ctxVars, listVars, mainVars, playerVars>>
    BY <1>4 DEF vars
  <2>2. TypeOK'
    BY <2>1 DEF IInv, TypeOK, ctxVars, listVars, mainVars, playerVars
  <2>3. OneOwner' /\ HeldIsLive'
    BY <2>1, SameLists DEF IInv, HeldIsLive, ctxVars, listVars
  <2>4. TargetFree' /\ AtWork'
    BY <2>1 DEF IInv, TargetFree, AtWork, ctxVars, listVars, mainVars
  <2> QED
    BY <2>2, <2>3, <2>4 DEF IInv
<1> QED
  BY <1>1, <1>2, <1>3, <1>4 DEF Next

\* The inductive invariant holds in every reachable state.
THEOREM Invariant == Spec => []IInv
  BY InitIInv, NextIInv, PTL DEF Spec

\* The lists, sizes and positions keep their types.
THEOREM TypeCorrect == Spec => []TypeOK
<1>1. IInv => TypeOK
  BY DEF IInv
<1> QED
  BY <1>1, Invariant, PTL

\* notify_work never gives a context to a second thread, nor to the same one
\* twice, however the two passes interleave with the threads.
THEOREM OneOwnerCorrect == Spec => []OneOwner
<1>1. IInv => OneOwner
  BY DEF IInv
<1> QED
  BY <1>1, Invariant, PTL

\* erase_ctx deletes no context that a thread's lists still point to.
THEOREM HeldIsLiveCorrect == Spec => []HeldIsLive
<1>1. IInv => HeldIsLive
  BY DEF IInv
<1> QED
  BY <1>1, Invariant, PTL

----------------------------------------------------------------------------
(***************************************************************************)
(* The threads implement the life of a stream.                             *)
(***************************************************************************)

Busy == {"run", "release", "erase"}

\* The guilds whose stream a thread runs, as the refinement mapping has them.
Runs == {g \in Guilds : Running(g)}

\* What a busy thread runs is held, at the head of its batch.
LEMMA BusyHolds ==
    ASSUME IInv, NEW t \in Threads, wpc[t] \in Busy
    PROVE  /\ batch[t] \in Seq(Guilds) /\ Len(batch[t]) \in Nat \ {0} /\ Head(batch[t]) = batch[t][1]
           /\ List(t, "batch") = batch[t] /\ "batch" \in Lists
           /\ Head(batch[t]) \in Runs /\ Head(batch[t]) \in live
<1>1. batch[t] \in Seq(Guilds) /\ batch[t] # <<>>
  BY DEF IInv, TypeOK, AtWork, Busy
<1>2. /\ Len(batch[t]) \in Nat \ {0} /\ Head(batch[t]) = batch[t][1]
      /\ Head(batch[t]) \in Guilds
  BY <1>1, HeadTailProperties, LenProperties, EmptySeq
<1>3. List(t, "batch") = batch[t] /\ "batch" \in Lists
  BY DEF List, Lists
<1>4. Held(Head(batch[t]))
  BY <1>2, <1>3 DEF Held
<1>5. Head(batch[t]) \in live
  BY <1>2, <1>4 DEF IInv, HeldIsLive
<1>6. Running(Head(batch[t]))
  BY DEF Running, Busy
<1> QED
  BY <1>1, <1>2, <1>3, <1>5, <1>6 DEF Runs

\* An entry of a thread's lists that is not at the head of its batch is run by
\* nobody.
LEMMA OthersWait ==
    ASSUME IInv, NEW t \in Threads, NEW l \in Lists, NEW i \in 1..Len(List(t, l)),
           l = "batch" => i # 1
    PROVE  List(t, l)[i] \in live \ Runs /\ List(t, l)[i] \in Guilds
<1> DEFINE g == List(t, l)[i]
<1>1. g \in Guilds
  BY ListFacts, ElementOfSeq DEF IInv
<1>2. Held(g)
  BY DEF Held
<1>3. g \in live
  BY <1>1, <1>2 DEF IInv, HeldIsLive
<1>4. ASSUME Running(g)
      PROVE  FALSE
  <2>1. PICK u \in Threads : wpc[u] \in Busy /\ Head(batch[u]) = g
    BY <1>4 DEF Running, Busy
  <2>2. /\ List(u, "batch")[1] = g /\ "batch" \in Lists /\ 1 \in 1..Len(List(u, "batch"))
    BY <2>1, BusyHolds
  <2>3. u = t /\ l = "batch" /\ i = 1
    BY <2>2 DEF IInv, OneOwner
  <2> QED
    BY <2>3
<1> QED
  BY <1>1, <1>3, <1>4 DEF Runs

\* Two threads do not run one stream.
LEMMA OneRunner ==
    ASSUME IInv, NEW t \in Threads, NEW u \in Threads, wpc[t] \in Busy, wpc[u] \in Busy,
           Head(batch[t]) = Head(batch[u])
    PROVE  t = u
<1>1. /\ List(t, "batch")[1] = List(u, "batch")[1] /\ "batch" \in Lists
      /\ 1 \in 1..Len(List(t, "batch")) /\ 1 \in 1..Len(List(u, "batch"))
  BY BusyHolds
<1> QED
  BY <1>1 DEF IInv, OneOwner

\* The threads are busy with what they were busy with.
LEMMA SameRuns ==
    ASSUME UNCHANGED batch, \A t \in Threads : wpc'[t] \in Busy <=> wpc[t] \in Busy
    PROVE  Runs' = Runs
<1>1. \A g : Running(g) <=> \E t \in Threads : wpc[t] \in Busy /\ Head(batch[t]) = g
  BY DEF Running, Busy
<1>2. \A g : Running(g)' <=> \E t \in Threads : wpc'[t] \in Busy /\ Head(batch'[t]) = g
  BY DEF Running, Busy, Threads
<1>3. \A g : Running(g)' <=> Running(g)
  BY <1>1, <1>2
<1> QED
  BY <1>3 DEF Runs

\* A thread begins to run a stream that nobody runs.
LEMMA TopTakes ==
    ASSUME IInv, NEW t \in Threads, Top(t)
    PROVE  live' = live /\ \E next \in {{}} \cup {{g} : g \in live \ Runs} : Runs' = Runs \cup next
<1>1. /\ live' = live /\ wpc[t] \notin Busy
      /\ batch' = [batch EXCEPT ![t] = pending[t]]
      /\ wpc' = [wpc EXCEPT ![t] = IF pending[t] = <<>> THEN "wait" ELSE "run"]
  BY DEF Top, ctxVars, Busy
<1>2. /\ batch'[t] = pending[t] /\ (wpc'[t] \in Busy <=> pending[t] # <<>>)
      /\ \A u \in Threads : u # t => wpc'[u] = wpc[u] /\ batch'[u] = batch[u]
  BY <1>1 DEF IInv, TypeOK, Busy
<1>3. \A g : Running(g) <=> \E u \in Threads : wpc[u] \in Busy /\ Head(batch[u]) = g
  BY DEF Running, Busy
<1>4. \A g : Running(g)' <=> \E u \in Threads : wpc'[u] \in Busy /\ Head(batch'[u]) = g
  BY DEF Running, Busy, Threads
<1>5. CASE pending[t] = <<>>
  <2>1. \A g : Running(g)' <=> Running(g)
    BY <1>1, <1>2, <1>3, <1>4, <1>5
  <2>2. Runs' = Runs \cup {}
    BY <2>1 DEF Runs
  <2> QED
    BY <1>1, <2>2
<1>6. CASE pending[t] # <<>>
  <2> DEFINE h == Head(pending[t])
  <2>1. h \in live \ Runs /\ h \in Guilds
    <3>1. List(t, "pending") = pending[t] /\ "pending" \in Lists
      BY DEF List, Lists
    <3>2. pending[t] \in Seq(Guilds)
      BY DEF IInv, TypeOK
    <3>3. h = pending[t][1] /\ 1 \in 1..Len(pending[t])
      BY <1>6, <3>2, HeadTailProperties, LenProperties, EmptySeq
    <3> QED
      BY <3>1, <3>3, OthersWait
  <2>2. \A g : Running(g)' <=> Running(g) \/ g = h
    BY <1>1, <1>2, <1>3, <1>4, <1>6
  <2>3. Runs' = Runs \cup {h}
    BY <2>1, <2>2 DEF Runs
  <2> QED
    BY <1>1, <2>1, <2>3
<1> QED
  BY <1>5, <1>6

\* The second entry of a list is the first of its rest.
LEMMA SecondOf ==
    ASSUME NEW S, NEW q \in Seq(S), q # <<>>, Len(q) # 1
    PROVE  Head(Tail(q)) = q[2] /\ 2 \in 1..Len(q)
<1>1. Len(q) \in Nat \ {0, 1}
  BY LenProperties, EmptySeq
<1>2. /\ Tail(q) \in Seq(S) /\ Len(Tail(q)) = Len(q) - 1
      /\ \A i \in 1..(Len(q) - 1) : Tail(q)[i] = q[i + 1]
  BY HeadTailProperties
<1>3. 1 \in 1..(Len(q) - 1) /\ 2 \in 1..Len(q) /\ Len(q) - 1 # 0
  <2>1. \A n \in Nat : n # 0 /\ n # 1 => n >= 2
    OBVIOUS
  <2>2. Len(q) \in Nat /\ Len(q) >= 2
    BY <1>1, <2>1
  <2> QED
    BY <2>2
<1>4. Tail(q) # <<>>
  BY <1>2, <1>3, EmptySeq
<1>5. Head(Tail(q)) = Tail(q)[1]
  BY <1>2, <1>4, HeadTailProperties
<1>6. Tail(q)[1] = q[2]
  BY <1>2, <1>3
<1> QED
  BY <1>3, <1>5, <1>6

\* A thread goes on with the next of its batch, which nobody runs, or with none.
LEMMA AdvanceTakes ==
    ASSUME IInv, NEW t \in Threads, wpc[t] \in Busy, Advance(t)
    PROVE  \E next \in {{}} \cup {{g} : g \in live \ Runs} :
             Runs' = (Runs \ {Head(batch[t])}) \cup next
<1> DEFINE h == Head(batch[t])
<1>1. /\ batch' = [batch EXCEPT ![t] = Tail(@)]
      /\ wpc' = [wpc EXCEPT ![t] = IF Len(batch[t]) = 1 THEN "top" ELSE "run"]
  BY DEF Advance
<1>2. /\ batch'[t] = Tail(batch[t]) /\ (wpc'[t] \in Busy <=> Len(batch[t]) # 1)
      /\ \A u \in Threads : u # t => wpc'[u] = wpc[u] /\ batch'[u] = batch[u]
  BY <1>1 DEF IInv, TypeOK, Busy
<1>3. \A g : Running(g) <=> \E u \in Threads : wpc[u] \in Busy /\ Head(batch[u]) = g
  BY DEF Running, Busy
<1>4. \A g : Running(g)' <=> \E u \in Threads : wpc'[u] \in Busy /\ Head(batch'[u]) = g
  BY DEF Running, Busy, Threads
<1>5. \A u \in Threads : u # t /\ wpc[u] \in Busy => Head(batch[u]) # h
  BY OneRunner
<1>6. CASE Len(batch[t]) = 1
  <2>1. \A g : Running(g)' <=> Running(g) /\ g # h
    BY <1>2, <1>3, <1>4, <1>5, <1>6
  <2>2. Runs' = (Runs \ {h}) \cup {}
    BY <2>1 DEF Runs
  <2> QED
    BY <2>2
<1>7. CASE Len(batch[t]) # 1
  <2> DEFINE n == Head(Tail(batch[t]))
  <2>1. /\ batch[t] \in Seq(Guilds) /\ batch[t] # <<>> /\ Len(batch[t]) \in Nat \ {0, 1}
    BY <1>7, BusyHolds DEF IInv, AtWork, Busy
  <2>2. n = batch[t][2] /\ 2 \in 1..Len(batch[t])
    BY <1>7, <2>1, SecondOf
  <2>3. n \in live \ Runs /\ n \in Guilds
    <3>1. List(t, "batch") = batch[t] /\ "batch" \in Lists
      BY DEF List, Lists
    <3> QED
      BY <2>2, <3>1, OthersWait
  <2>4. \A g : Running(g)' <=> (Running(g) /\ g # h) \/ g = n
    BY <1>2, <1>3, <1>4, <1>5, <1>7
  <2>5. Runs' = (Runs \ {h}) \cup {n}
    BY <2>3, <2>4 DEF Runs
  <2> QED
    BY <2>3, <2>5
<1> QED
  BY <1>6, <1>7

\* Every step is one of the life of a stream, or none.
LEMMA StepImplements ==
    ASSUME IInv, [Next]_vars
    PROVE  [SL!Next]_(SL!vars)
<1>1. SL!vars = <<live, Runs>> /\ SL!Waiting = {{}} \cup {{g} : g \in live \ Runs}
  BY DEF SL!vars, SL!Waiting, Runs
<1>2. SUFFICES \/ live' = live /\ Runs' = Runs
               \/ live' = live /\ \E next \in SL!Waiting : Runs' = Runs \cup next
               \/ \E g \in Guilds : g \notin live /\ live' = live \cup {g} /\ Runs' = Runs
               \/ \E g \in Guilds : /\ g \in Runs /\ live' \in {live, live \ {g}}
                                    /\ \E next \in SL!Waiting : Runs' = (Runs \ {g}) \cup next
  BY DEF SL!vars, SL!Next, SL!Take, SL!Open, SL!Yield, SL!Close, Runs
<1>3. CASE Player
  <2>1. UNCHANGED <<batch, wpc>>
    BY <1>3 DEF Player, Marker, PlayInit, Submit, StopBegin, StopEnd, listVars
  <2>2. Runs' = Runs
    BY <2>1, SameRuns
  <2>3. live' = live \/ \E g \in Guilds : live' = live \cup {g}
    BY <1>3 DEF Player, Marker, PlayInit, Submit, StopBegin, StopEnd, ctxVars
  <2>4. \A g \in live : live \cup {g} = live
    OBVIOUS
  <2> QED
    BY <2>2, <2>3, <2>4
<1>4. CASE Main
  <2>1. UNCHANGED <<live, batch>>
    BY <1>4 DEF Main, PassBegin, PassEnd, Leave, Notify, FirstPass, AllBusy, SecondPass, NobodyLess,
                Give, Marked, ctxVars, listVars
  <2>2. wpc' = wpc \/ \E t \in Threads : wpc[t] = "wait" /\ wpc' = [wpc EXCEPT ![t] = "top"]
    <3>1. at <= NThreads => at \in Threads
      BY ConstantsAssumption DEF IInv, TypeOK, Threads
    <3>2. ASSUME NEW t \in Threads, Give(t)
          PROVE  wpc' = wpc \/ (wpc[t] = "wait" /\ wpc' = [wpc EXCEPT ![t] = "top"])
      BY <3>2 DEF Give, IInv, TypeOK
    <3> QED
      BY <1>4, <3>1, <3>2 DEF Main, PassBegin, PassEnd, Leave, Notify, FirstPass, AllBusy, SecondPass,
                              NobodyLess, listVars
  <2>3. \A t \in Threads : wpc'[t] \in Busy <=> wpc[t] \in Busy
    BY <2>2 DEF Busy, IInv, TypeOK
  <2> QED
    BY <2>1, <2>3, SameRuns
<1>5. ASSUME NEW t \in Threads, Worker(t)
      PROVE  \/ live' = live /\ Runs' = Runs
             \/ live' = live /\ \E next \in SL!Waiting : Runs' = Runs \cup next
             \/ \E g \in Guilds : /\ g \in Runs /\ live' \in {live, live \ {g}}
                                  /\ \E next \in SL!Waiting : Runs' = (Runs \ {g}) \cup next
  <2>1. CASE Top(t)
    BY <1>1, <2>1, TopTakes
  <2>2. CASE Filled(t) \/ RunEnds(t)
    <3>1. /\ UNCHANGED <<live, batch>> /\ wpc[t] = "run"
          /\ wpc' \in {[wpc EXCEPT ![t] = "release"], [wpc EXCEPT ![t] = "erase"]}
      BY <2>2 DEF Filled, RunEnds, ctxVars
    <3>2. \A u \in Threads : wpc'[u] \in Busy <=> wpc[u] \in Busy
      BY <3>1 DEF Busy, IInv, TypeOK
    <3> QED
      BY <3>1, <3>2, SameRuns
  <2>3. CASE Release(t) \/ Erase(t)
    <3>1. wpc[t] \in Busy /\ Advance(t) /\ live' \in {live, live \ {Head(batch[t])}}
      BY <2>3 DEF Release, Erase, Busy
    <3>2. Head(batch[t]) \in Runs /\ Head(batch[t]) \in Guilds
      BY <3>1, BusyHolds DEF Runs
    <3>3. \E next \in SL!Waiting : Runs' = (Runs \ {Head(batch[t])}) \cup next
      BY <1>1, <3>1, AdvanceTakes
    <3> QED
      BY <3>1, <3>2, <3>3
  <2> QED
    BY <1>5, <2>1, <2>2, <2>3 DEF Worker
<1>6. CASE UNCHANGED vars
  <2>1. UNCHANGED <<live, batch, wpc>>
    BY <1>6 DEF vars, ctxVars, listVars
  <2> QED
    BY <2>1, SameRuns
<1> QED
  BY <1>3, <1>4, <1>5, <1>6 DEF Next

\* Nothing is open and nothing runs at the start.
LEMMA InitImplements == Init => SL!Init
<1>1. ASSUME Init, NEW g \in Guilds
      PROVE  ~Running(g)
  BY <1>1 DEF Init, Running
<1> QED
  BY <1>1 DEF Init, SL!Init

\* The stream threads implement the life of a stream: play () opens it once, one
\* thread runs it at a time, and only the thread that runs it closes it, for any
\* number of threads and guilds and however starts and stops come.
THEOREM StreamLifeImplemented == Spec => ImplementsStreamLife
  BY Invariant, InitImplements, StepImplements, PTL DEF Spec, ImplementsStreamLife, SL!Spec

----------------------------------------------------------------------------
(***************************************************************************)
(* Up to two guilds, what is marked as handled is handled.                 *)
(***************************************************************************)

\* What is an entry of a list after a step is held then.
LEMMA EntryHeldNext ==
    ASSUME NEW t \in Threads, NEW l \in Lists, NEW i \in 1..Len(List(t, l)'),
           NEW g, List(t, l)'[i] = g
    PROVE  Held(g)'
  BY DEF Held, Threads, Lists

\* A context that is handed out is held, and so is what was.
LEMMA GiveHolds ==
    ASSUME TypeOK, NEW t \in Threads, target \in Guilds,
           pending' = [pending EXCEPT ![t] = Append(@, target)], batch' = batch
    PROVE  \A g : Held(g) \/ g = target => Held(g)'
<1>1. /\ pending \in [Threads -> Seq(Guilds)] /\ pending[t] \in Seq(Guilds)
      /\ Len(pending[t]) \in Nat
  BY LenProperties DEF TypeOK
<1>2. /\ Len(Append(pending[t], target)) = Len(pending[t]) + 1
      /\ \A i \in 1..Len(pending[t]) : Append(pending[t], target)[i] = pending[t][i]
      /\ Append(pending[t], target)[Len(pending[t]) + 1] = target
  BY <1>1, AppendProperties
<1>3. List(t, "pending")' = Append(pending[t], target) /\ "pending" \in Lists
  BY <1>1 DEF List, Lists
<1>4. ASSUME NEW g, g = target
      PROVE  Held(g)'
  <2>1. Len(pending[t]) + 1 \in 1..Len(List(t, "pending")')
    BY <1>1, <1>2, <1>3
  <2> QED
    BY <1>2, <1>3, <1>4, <2>1, EntryHeldNext
<1>5. ASSUME NEW g, Held(g)
      PROVE  Held(g)'
  <2>1. PICK u \in Threads, l \in Lists : \E i \in 1..Len(List(u, l)) : List(u, l)[i] = g
    BY <1>5 DEF Held
  <2>2. PICK i \in 1..Len(List(u, l)) : List(u, l)[i] = g
    BY <2>1
  <2>3. CASE u = t /\ l = "pending"
    <3>1. i \in 1..Len(pending[t]) /\ pending[t][i] = g
      BY <2>2, <2>3 DEF List
    <3>2. i \in 1..Len(Append(pending[t], target)) /\ Append(pending[t], target)[i] = g
      BY <1>1, <1>2, <3>1
    <3>3. i \in 1..Len(List(t, "pending")') /\ List(t, "pending")'[i] = g
      BY <1>3, <3>2
    <3> QED
      BY <1>3, <3>3, EntryHeldNext
  <2>4. CASE ~(u = t /\ l = "pending")
    <3>1. List(u, l)' = List(u, l)
      BY <1>1, <2>4 DEF List, Lists
    <3>2. i \in 1..Len(List(u, l)') /\ List(u, l)'[i] = g
      BY <2>2, <3>1
    <3> QED
      BY <3>2, EntryHeldNext
  <2> QED
    BY <2>3, <2>4
<1> QED
  BY <1>4, <1>5

\* A thread with an empty batch that takes its pending list drops nothing.
LEMMA TakeHolds ==
    ASSUME TypeOK, NEW t \in Threads, batch[t] = <<>>,
           batch' = [batch EXCEPT ![t] = pending[t]],
           pending' = [pending EXCEPT ![t] = <<>>]
    PROVE  \A g : Held(g) => Held(g)'
<1>1. pending \in [Threads -> Seq(Guilds)] /\ batch \in [Threads -> Seq(Guilds)]
  BY DEF TypeOK
<1> SUFFICES ASSUME NEW g, Held(g) PROVE Held(g)'
  OBVIOUS
<1>2. PICK u \in Threads, l \in Lists : \E i \in 1..Len(List(u, l)) : List(u, l)[i] = g
  BY DEF Held
<1>3. PICK i \in 1..Len(List(u, l)) : List(u, l)[i] = g
  BY <1>2
<1>4. CASE u = t
  <2>1. l = "pending"
    <3> SUFFICES ASSUME l = "batch" PROVE FALSE
      BY DEF Lists
    <3>1. List(u, l) = <<>>
      BY <1>4 DEF List
    <3> QED
      BY <1>3, <3>1
  <2>2. List(t, "batch")' = List(u, l) /\ "batch" \in Lists
    BY <1>1, <1>4, <2>1 DEF List, Lists
  <2>3. i \in 1..Len(List(t, "batch")') /\ List(t, "batch")'[i] = g
    BY <1>3, <2>2
  <2> QED
    BY <2>2, <2>3, EntryHeldNext
<1>5. CASE u # t
  <2>1. List(u, l)' = List(u, l)
    BY <1>1, <1>5 DEF List, Lists
  <2>2. i \in 1..Len(List(u, l)') /\ List(u, l)'[i] = g
    BY <1>3, <2>1
  <2> QED
    BY <2>2, EntryHeldNext
<1> QED
  BY <1>4, <1>5

\* A thread that is done with the first of its batch drops only that.
LEMMA AdvanceHolds ==
    ASSUME TypeOK, NEW t \in Threads, batch[t] # <<>>,
           batch' = [batch EXCEPT ![t] = Tail(@)], pending' = pending
    PROVE  \A g : Held(g) /\ g # Head(batch[t]) => Held(g)'
<1>1. /\ pending \in [Threads -> Seq(Guilds)] /\ batch \in [Threads -> Seq(Guilds)]
      /\ batch[t] \in Seq(Guilds)
  BY DEF TypeOK
<1>2. /\ Len(batch[t]) \in Nat \ {0} /\ Len(Tail(batch[t])) = Len(batch[t]) - 1
      /\ \A i \in 1..Len(Tail(batch[t])) : Tail(batch[t])[i] = batch[t][i + 1]
      /\ Head(batch[t]) = batch[t][1]
  BY <1>1, HeadTailProperties, EmptySeq, LenProperties
<1> SUFFICES ASSUME NEW g, Held(g), g # Head(batch[t]) PROVE Held(g)'
  OBVIOUS
<1>3. PICK u \in Threads, l \in Lists : \E i \in 1..Len(List(u, l)) : List(u, l)[i] = g
  BY DEF Held
<1>4. PICK i \in 1..Len(List(u, l)) : List(u, l)[i] = g
  BY <1>3
<1>5. CASE u = t /\ l = "batch"
  <2>1. i \in 1..Len(batch[t]) /\ batch[t][i] = g
    BY <1>4, <1>5 DEF List
  <2>2. List(t, "batch")' = Tail(batch[t]) /\ "batch" \in Lists
    BY <1>1 DEF List, Lists
  <2>3. i - 1 \in 1..Len(Tail(batch[t])) /\ (i - 1) + 1 = i
    BY <1>2, <2>1
  <2>4. i - 1 \in 1..Len(List(t, "batch")') /\ List(t, "batch")'[i - 1] = g
    BY <1>2, <2>1, <2>2, <2>3
  <2> QED
    BY <2>2, <2>4, EntryHeldNext
<1>6. CASE ~(u = t /\ l = "batch")
  <2>1. List(u, l)' = List(u, l)
    BY <1>1, <1>6 DEF List, Lists
  <2>2. i \in 1..Len(List(u, l)') /\ List(u, l)'[i] = g
    BY <1>4, <2>1
  <2> QED
    BY <2>2, EntryHeldNext
<1> QED
  BY <1>5, <1>6

\* There are not three guilds.
FewGuilds == \A f, g, h \in Guilds : f = g \/ f = h \/ g = h

LEMMA TwoAreFew == Cardinality(Guilds) <= 2 => FewGuilds
<1> SUFFICES ASSUME Cardinality(Guilds) <= 2, NEW f \in Guilds, NEW g \in Guilds, NEW h \in Guilds,
                    f # g, f # h, g # h
             PROVE  FALSE
  BY DEF FewGuilds
<1>1. IsFiniteSet(Guilds) /\ Cardinality(Guilds) \in Nat
  BY ConstantsAssumption, FS_CardinalityType
<1>2. IsFiniteSet({f}) /\ Cardinality({f}) = 1
  BY FS_Singleton
<1>3. IsFiniteSet({f} \cup {g}) /\ Cardinality({f} \cup {g}) = 2
  BY <1>2, FS_AddElement
<1> DEFINE two   == {f} \cup {g}
           three == two \cup {h}
<1>4. h \notin two /\ three \subseteq Guilds
  OBVIOUS
<1> HIDE DEF two, three
<1>5. Cardinality(three) = 3
  <2>1. IsFiniteSet(two) /\ Cardinality(two) = 2
    BY <1>3 DEF two
  <2>2. Cardinality(two \cup {h}) = Cardinality(two) + 1
    BY <1>4, <2>1, FS_AddElement
  <2> QED
    BY <2>1, <2>2 DEF three
<1>6. Cardinality(three) <= Cardinality(Guilds)
  BY <1>1, <1>4, FS_Subset
<1> QED
  BY <1>1, <1>5, <1>6

----------------------------------------------------------------------------
\* A thread that takes its pending list has done its batch.
Idle == \A t \in Threads : wpc[t] \in {"top", "wait"} => batch[t] = <<>>

\* No thread has more contexts than there are.
SizesFew == \A t \in Threads : size[t] <= 2

\* While notify_work runs, some thread has no more than the least size it saw,
\* and in its second pass a thread it has yet to look at has less than `max'.
SomeLess ==
    /\ mpc = "first" =>
        /\ least >= 1
        /\ at > 1 => least <= most
        /\ \E u \in Threads : size[u] <= least
    /\ mpc = "second" =>
        /\ most >= 2
        /\ \E u \in Threads : u >= at /\ size[u] < most

HInv == IInv /\ Idle /\ SizesFew /\ SomeLess /\ HandledIsHeld

\* Of two guilds a pending list has two contexts at most, and one while
\* notify_work has another in hand.
LEMMA PendingFew ==
    ASSUME IInv, FewGuilds, NEW t \in Threads
    PROVE  /\ Len(pending[t]) \in Nat /\ Len(pending[t]) <= 2
           /\ mpc \in {"first", "second"} => Len(pending[t]) <= 1
<1>1. pending[t] \in Seq(Guilds) /\ Len(pending[t]) \in Nat
      /\ \A i \in 1..Len(pending[t]) : pending[t][i] \in Guilds
  BY LenProperties, ElementOfSeq DEF IInv, TypeOK
<1>2. List(t, "pending") = pending[t] /\ "pending" \in Lists
  BY DEF List, Lists
<1>3. \A i, j \in 1..Len(pending[t]) : pending[t][i] = pending[t][j] => i = j
  BY <1>2 DEF IInv, OneOwner
<1>4. Len(pending[t]) <= 2
  <2> SUFFICES ASSUME Len(pending[t]) > 2 PROVE FALSE
    BY <1>1
  <2>1. 1 \in 1..Len(pending[t]) /\ 2 \in 1..Len(pending[t]) /\ 3 \in 1..Len(pending[t])
    BY <1>1
  <2>2. /\ pending[t][1] # pending[t][2] /\ pending[t][1] # pending[t][3]
        /\ pending[t][2] # pending[t][3]
    BY <1>3, <2>1
  <2>3. pending[t][1] \in Guilds /\ pending[t][2] \in Guilds /\ pending[t][3] \in Guilds
    BY <1>1, <2>1
  <2> QED
    BY <2>2, <2>3 DEF FewGuilds
<1>5. ASSUME mpc \in {"first", "second"}, Len(pending[t]) > 1
      PROVE  FALSE
  <2>1. 1 \in 1..Len(pending[t]) /\ 2 \in 1..Len(pending[t])
    BY <1>1, <1>5
  <2>2. pending[t][1] # pending[t][2] /\ pending[t][1] \in Guilds /\ pending[t][2] \in Guilds
    BY <1>1, <1>3, <2>1
  <2>3. target \in Guilds /\ ~Held(target)
    BY <1>5 DEF IInv, TypeOK, TargetFree, HeldIsLive
  <2>4. Held(pending[t][1]) /\ Held(pending[t][2])
    BY <1>2, <2>1, EntryHeld
  <2>5. target # pending[t][1] /\ target # pending[t][2]
    BY <2>3, <2>4
  <2> QED
    BY <2>2, <2>3, <2>5 DEF FewGuilds
<1> QED
  BY <1>1, <1>4, <1>5

\* A step that leaves the lists and the marks alone.
LEMMA SameHandled ==
    ASSUME HandledIsHeld, UNCHANGED <<live, handled, pending, batch>>
    PROVE  HandledIsHeld'
  BY SameLists DEF HandledIsHeld

\* The player's steps.
LEMMA PlayerHolds ==
    ASSUME HInv, Player
    PROVE  Idle' /\ SizesFew' /\ SomeLess' /\ HandledIsHeld'
<1>1. UNCHANGED <<listVars, mainVars>>
  BY DEF Player, Marker, PlayInit, Submit, StopBegin, StopEnd
<1>2. Idle' /\ SizesFew' /\ SomeLess'
  BY <1>1 DEF HInv, Idle, SizesFew, SomeLess, listVars, mainVars, Threads
<1>3. HandledIsHeld'
  <2>1. CASE \E g \in Guilds : Marker(g) \/ PlayInit(g) \/ StopBegin(g) \/ StopEnd(g)
    <3>1. UNCHANGED <<live, handled, pending, batch>>
      BY <1>1, <2>1 DEF Marker, PlayInit, StopBegin, StopEnd, ctxVars, listVars
    <3> QED
      BY <3>1, SameHandled DEF HInv
  <2>2. CASE \E g \in Guilds, opens \in BOOLEAN : Submit(g, opens)
    <3>1. PICK g \in Guilds, opens \in BOOLEAN : Submit(g, opens)
      BY <2>2
    <3>2. live' \subseteq live \cup {g} /\ handled' = [handled EXCEPT ![g] = @ /\ g \in live]
      BY <3>1 DEF Submit
    <3>3. live \subseteq Guilds /\ handled \in [Guilds -> BOOLEAN]
      BY DEF HInv, IInv, TypeOK
    <3>4. \A h \in live' : handled'[h] => h \in live /\ handled[h]
      BY <3>2, <3>3
    <3>5. \A h : Held(h)' <=> Held(h)
      BY <1>1, SameLists DEF listVars
    <3> QED
      BY <3>4, <3>5 DEF HInv, HandledIsHeld
  <2> QED
    BY <2>1, <2>2 DEF Player
<1> QED
  BY <1>2, <1>3

\* The steps of a pass that hand out no context.
LEMMA PassHolds ==
    ASSUME HInv,
           \/ PassBegin \/ PassEnd \/ AllBusy
           \/ \E g \in Guilds : Leave(g) \/ Notify(g)
    PROVE  Idle' /\ SizesFew' /\ SomeLess' /\ HandledIsHeld'
<1>1. UNCHANGED <<ctxVars, listVars>>
  BY DEF PassBegin, PassEnd, AllBusy, Leave, Notify
<1>2. Idle' /\ SizesFew'
  BY <1>1 DEF HInv, Idle, SizesFew, listVars, Threads
<1>3. HandledIsHeld'
  BY <1>1, SameHandled DEF HInv, ctxVars, listVars
<1>4. NThreads \in Nat \ {0} /\ at \in 1..(NThreads + 1) /\ most \in Nat /\ least \in Nat
      /\ \A t \in Threads : size[t] \in Nat /\ t \in 1..NThreads
  BY ConstantsAssumption DEF HInv, IInv, TypeOK, Threads
<1>5. SomeLess'
  <2>1. CASE PassBegin \/ PassEnd \/ \E g \in Guilds : Leave(g)
    BY <2>1 DEF PassBegin, PassEnd, Leave, SomeLess
  <2>2. CASE \E g \in Guilds : Notify(g)
    <3>1. mpc' = "first" /\ at' = 1 /\ least' = Huge /\ size' = size
      BY <1>1, <2>2 DEF Notify, listVars
    <3>2. Cardinality(Guilds) \in Nat
      BY ConstantsAssumption, FS_CardinalityType
    <3>3. 1 \in Threads /\ size[1] <= 2
      BY <1>4 DEF HInv, SizesFew, Threads
    <3>4. Huge >= 2 /\ Huge \in Nat
      BY <3>2 DEF Huge
    <3>5. size[1] <= Huge
      BY <1>4, <3>3, <3>4
    <3>6. least' >= 1 /\ ~(at' > 1)
      BY <3>1, <3>4
    <3> QED
      BY <3>1, <3>3, <3>5, <3>6 DEF SomeLess, Threads
  <2>3. CASE AllBusy
    <3>1. /\ mpc = "first" /\ at > NThreads /\ mpc' = "second" /\ at' = 1
          /\ most' = IF most = least THEN most + 1 ELSE most
          /\ size' = size
      BY <1>1, <2>3 DEF AllBusy, listVars
    <3>2. least >= 1 /\ least <= most
      BY <1>4, <3>1 DEF HInv, SomeLess
    <3>3. PICK u \in Threads : size[u] <= least
      BY <3>1 DEF HInv, SomeLess
    <3>4. most' >= 2 /\ least < most'
      BY <1>4, <3>1, <3>2
    <3>5. most' \in Nat
      BY <1>4, <3>1
    <3>6. size'[u] < most' /\ u >= at'
      BY <1>4, <3>1, <3>3, <3>4, <3>5
    <3> QED
      BY <3>1, <3>4, <3>6 DEF SomeLess, Threads
  <2> QED
    BY <2>1, <2>2, <2>3
<1> QED
  BY <1>2, <1>3, <1>5

\* notify_work: a thread gets the context.
LEMMA GiveHeld ==
    ASSUME HInv, NEW t \in Threads, mpc \in {"first", "second"}, Give(t)
    PROVE  Idle' /\ SizesFew' /\ SomeLess' /\ HandledIsHeld'
<1>1. Marked /\ UNCHANGED <<batch, size>>
      /\ pending' = [pending EXCEPT ![t] = Append(@, target)]
      /\ wpc' = [wpc EXCEPT ![t] = IF @ = "wait" THEN "top" ELSE @]
  BY DEF Give
<1>2. /\ live' = live /\ handled' = [handled EXCEPT ![target] = TRUE]
      /\ target \in Guilds /\ mpc' = "scan"
  BY <1>1, MarkedFacts DEF HInv
<1>3. HandledIsHeld'
  <2> SUFFICES ASSUME NEW g \in live', handled'[g] PROVE Held(g)'
    BY DEF HandledIsHeld
  <2>1. handled[g] \/ g = target
    BY <1>2 DEF HInv, IInv, TypeOK
  <2>2. Held(g) \/ g = target
    BY <1>2, <2>1 DEF HInv, HandledIsHeld
  <2> QED
    BY <1>1, <1>2, <2>2, GiveHolds DEF HInv, IInv
<1>4. Idle' /\ SizesFew' /\ SomeLess'
  <2>1. wpc \in [Threads -> {"top", "wait", "run", "release", "erase"}]
    BY DEF HInv, IInv, TypeOK
  <2>2. \A u \in Threads : wpc'[u] \in {"top", "wait"} => wpc[u] \in {"top", "wait"}
    BY <1>1, <2>1
  <2>3. Idle'
    BY <1>1, <2>2 DEF HInv, Idle, Threads
  <2>4. SizesFew' /\ SomeLess'
    BY <1>1, <1>2 DEF HInv, SizesFew, SomeLess, Threads
  <2> QED
    BY <2>3, <2>4
<1> QED
  BY <1>3, <1>4

\* notify_work: it never ends without a thread for the context.
LEMMA NotifyHolds ==
    ASSUME HInv, FirstPass \/ SecondPass \/ NobodyLess
    PROVE  Idle' /\ SizesFew' /\ SomeLess' /\ HandledIsHeld'
<1>1. NThreads \in Nat \ {0} /\ at \in 1..(NThreads + 1) /\ most \in Nat /\ least \in Nat
      /\ (\A t \in Threads : size[t] \in Nat /\ t \in 1..NThreads)
      /\ (at <= NThreads => at \in Threads)
  BY ConstantsAssumption DEF HInv, IInv, TypeOK, Threads
<1>2. CASE (FirstPass /\ size[at] = 0) \/ (SecondPass /\ size[at] # most)
  BY <1>1, <1>2, GiveHeld DEF FirstPass, SecondPass
<1>3. CASE (FirstPass /\ size[at] # 0) \/ (SecondPass /\ size[at] = most)
  <2>1. UNCHANGED <<ctxVars, listVars, mpc>> /\ at' = at + 1 /\ at \in Threads
    BY <1>1, <1>3 DEF FirstPass, SecondPass
  <2>2. Idle' /\ SizesFew' /\ HandledIsHeld'
    BY <2>1, SameHandled DEF HInv, Idle, SizesFew, ctxVars, listVars, Threads
  <2>3. SomeLess'
    <3>1. CASE FirstPass /\ size[at] # 0
      <4>1. /\ mpc = "first" /\ mpc' = "first" /\ size' = size
            /\ most' = Larger(most, size[at]) /\ least' = Smaller(least, size[at])
        BY <2>1, <3>1 DEF FirstPass, listVars
      <4>2. size[at] \in Nat /\ size[at] >= 1 /\ least >= 1
        BY <1>1, <2>1, <3>1, <4>1 DEF HInv, SomeLess
      <4>3. least' >= 1 /\ least' <= most'
        BY <1>1, <4>1, <4>2 DEF Larger, Smaller
      <4>4. PICK u \in Threads : size[u] <= least
        BY <4>1 DEF HInv, SomeLess
      <4>5. \E v \in Threads : size'[v] <= least'
        <5>1. CASE least' = least
          BY <4>1, <4>4, <5>1
        <5>2. CASE least' = size[at]
          BY <1>1, <2>1, <4>1, <4>2, <5>2
        <5> QED
          BY <4>1, <5>1, <5>2 DEF Smaller
      <4> QED
        BY <4>1, <4>3, <4>5 DEF SomeLess, Threads
    <3>2. CASE SecondPass /\ size[at] = most
      <4>1. mpc = "second" /\ mpc' = "second" /\ size' = size /\ most' = most
        BY <2>1, <3>2 DEF SecondPass, listVars
      <4>2. most >= 2
        BY <4>1 DEF HInv, SomeLess
      <4>3. PICK u \in Threads : u >= at /\ size[u] < most
        BY <4>1 DEF HInv, SomeLess
      <4>4. u # at
        BY <1>1, <3>2, <4>3
      <4>5. u >= at' /\ size'[u] < most'
        BY <1>1, <2>1, <4>1, <4>3, <4>4
      <4> QED
        BY <4>1, <4>2, <4>5 DEF SomeLess, Threads
    <3> QED
      BY <1>3, <3>1, <3>2
  <2> QED
    BY <2>2, <2>3
<1>4. ASSUME NobodyLess PROVE FALSE
  <2>1. mpc = "second" /\ at > NThreads
    BY <1>4 DEF NobodyLess
  <2>2. PICK u \in Threads : u >= at
    BY <2>1 DEF HInv, SomeLess
  <2> QED
    BY <1>1, <2>1, <2>2
<1> QED
  BY <1>2, <1>3, <1>4

\* A stream thread takes what it was given, or waits.
LEMMA TopHolds ==
    ASSUME HInv, FewGuilds, NEW t \in Threads, Top(t)
    PROVE  Idle' /\ SizesFew' /\ SomeLess' /\ HandledIsHeld'
<1>1. /\ wpc[t] = "top"
      /\ batch' = [batch EXCEPT ![t] = pending[t]]
      /\ pending' = [pending EXCEPT ![t] = <<>>]
      /\ size' = [size EXCEPT ![t] = Len(pending[t])]
      /\ wpc' = [wpc EXCEPT ![t] = IF pending[t] = <<>> THEN "wait" ELSE "run"]
      /\ UNCHANGED <<ctxVars, mainVars>>
  BY DEF Top
<1>2. batch[t] = <<>>
  BY <1>1 DEF HInv, Idle
<1>3. /\ Len(pending[t]) \in Nat /\ Len(pending[t]) <= 2
      /\ mpc \in {"first", "second"} => Len(pending[t]) <= 1
  BY PendingFew DEF HInv
<1>4. HandledIsHeld'
  <2>1. \A g : Held(g) => Held(g)'
    BY <1>1, <1>2, TakeHolds DEF HInv, IInv
  <2> QED
    BY <1>1, <2>1 DEF HInv, HandledIsHeld, ctxVars
<1>5. Idle'
  BY <1>1 DEF HInv, IInv, TypeOK, Idle, Threads
<1>6. \A u \in Threads : size'[u] = IF u = t THEN Len(pending[t]) ELSE size[u]
  BY <1>1 DEF HInv, IInv, TypeOK
<1>7. SizesFew'
  BY <1>3, <1>6 DEF HInv, SizesFew, Threads
<1>8. SomeLess'
  <2>1. UNCHANGED <<mpc, at, most, least>>
    BY <1>1 DEF mainVars
  <2>2. most \in Nat /\ least \in Nat
    BY DEF HInv, IInv, TypeOK
  <2>3. CASE mpc = "first"
    <3>1. least >= 1 /\ (at > 1 => least <= most)
      BY <2>3 DEF HInv, SomeLess
    <3>2. PICK u \in Threads : size[u] <= least
      BY <2>3 DEF HInv, SomeLess
    <3>3. size'[u] <= least
      BY <1>3, <1>6, <2>2, <2>3, <3>1, <3>2
    <3> QED
      BY <2>1, <2>3, <3>1, <3>3 DEF SomeLess, Threads
  <2>4. CASE mpc = "second"
    <3>1. most >= 2
      BY <2>4 DEF HInv, SomeLess
    <3>2. PICK u \in Threads : u >= at /\ size[u] < most
      BY <2>4 DEF HInv, SomeLess
    <3>3. size'[u] < most
      BY <1>3, <1>6, <2>2, <2>4, <3>1, <3>2
    <3> QED
      BY <2>1, <2>4, <3>1, <3>2, <3>3 DEF SomeLess, Threads
  <2> QED
    BY <2>1, <2>3, <2>4 DEF SomeLess
<1> QED
  BY <1>4, <1>5, <1>7, <1>8

\* A stream thread runs a context.
LEMMA RunHolds ==
    ASSUME HInv, NEW t \in Threads, Filled(t) \/ RunEnds(t)
    PROVE  Idle' /\ SizesFew' /\ SomeLess' /\ HandledIsHeld'
<1>1. /\ UNCHANGED <<ctxVars, pending, batch, size, mainVars>>
      /\ wpc' \in {[wpc EXCEPT ![t] = "release"], [wpc EXCEPT ![t] = "erase"]}
  BY DEF Filled, RunEnds
<1>2. Idle'
  BY <1>1 DEF HInv, IInv, TypeOK, Idle, Threads
<1>3. SizesFew' /\ SomeLess'
  BY <1>1 DEF HInv, SizesFew, SomeLess, mainVars, Threads
<1>4. HandledIsHeld'
  BY <1>1, SameHandled DEF HInv, ctxVars
<1> QED
  BY <1>2, <1>3, <1>4

\* A stream thread is done with a context: it keeps every other one.
LEMMA DoneHolds ==
    ASSUME HInv, NEW t \in Threads, Release(t) \/ Erase(t)
    PROVE  Idle' /\ SizesFew' /\ SomeLess' /\ HandledIsHeld'
<1>1. /\ wpc[t] \in {"release", "erase"} /\ mainVars' = mainVars
      /\ batch' = [batch EXCEPT ![t] = Tail(@)] /\ UNCHANGED <<pending, size>>
      /\ wpc' = [wpc EXCEPT ![t] = IF Len(batch[t]) = 1 THEN "top" ELSE "run"]
      /\ handled' = [handled EXCEPT ![Head(batch[t])] = FALSE]
      /\ live' \subseteq live
  BY DEF Release, Erase, Advance, playerVars
<1>2. batch[t] # <<>> /\ batch[t] \in Seq(Guilds)
  BY <1>1 DEF HInv, IInv, AtWork, TypeOK
<1>3. HandledIsHeld'
  <2>1. \A g : Held(g) /\ g # Head(batch[t]) => Held(g)'
    BY <1>1, <1>2, AdvanceHolds DEF HInv, IInv
  <2> SUFFICES ASSUME NEW g \in live', handled'[g] PROVE Held(g)'
    BY DEF HandledIsHeld
  <2>2. g \in live /\ g \in Guilds /\ handled \in [Guilds -> BOOLEAN]
    BY <1>1 DEF HInv, IInv, TypeOK
  <2>3. g # Head(batch[t]) /\ handled[g]
    BY <1>1, <2>2
  <2> QED
    BY <2>1, <2>2, <2>3 DEF HInv, HandledIsHeld
<1>4. Len(batch[t]) = 1 => Tail(batch[t]) = <<>>
  <2> SUFFICES ASSUME Len(batch[t]) = 1 PROVE Tail(batch[t]) = <<>>
    OBVIOUS
  <2>1. Tail(batch[t]) \in Seq(Guilds) /\ Len(Tail(batch[t])) = 0
    BY <1>2, HeadTailProperties
  <2> QED
    BY <2>1, EmptySeq
<1>5. Idle'
  BY <1>1, <1>4 DEF HInv, IInv, TypeOK, Idle, Threads
<1>6. SizesFew' /\ SomeLess'
  BY <1>1 DEF HInv, SizesFew, SomeLess, mainVars, Threads
<1> QED
  BY <1>3, <1>5, <1>6

\* Every step keeps what is handled held.
LEMMA NextHInv ==
    ASSUME HInv, FewGuilds, [Next]_vars
    PROVE  HInv'
<1>1. IInv'
  BY NextIInv DEF HInv
<1>2. Idle' /\ SizesFew' /\ SomeLess' /\ HandledIsHeld'
  <2>1. CASE Player
    BY <2>1, PlayerHolds
  <2>2. CASE Main
    BY <2>2, PassHolds, NotifyHolds DEF Main
  <2>3. CASE \E t \in Threads : Worker(t)
    BY <2>3, TopHolds, RunHolds, DoneHolds DEF Worker
  <2>4. CASE UNCHANGED vars
    <3>1. UNCHANGED <<ctxVars, listVars, mainVars>>
      BY <2>4 DEF vars
    <3>2. Idle' /\ SizesFew' /\ SomeLess'
      BY <3>1 DEF HInv, Idle, SizesFew, SomeLess, listVars, mainVars, Threads
    <3>3. HandledIsHeld'
      BY <3>1, SameHandled DEF HInv, ctxVars, listVars
    <3> QED
      BY <3>2, <3>3
  <2> QED
    BY <2>1, <2>2, <2>3, <2>4 DEF Next
<1> QED
  BY <1>1, <1>2 DEF HInv

\* Nothing is handled at the start.
LEMMA InitHInv == Init => HInv
<1> SUFFICES ASSUME Init PROVE HInv
  OBVIOUS
<1>1. IInv
  BY InitIInv
<1>2. Idle /\ SizesFew /\ SomeLess
  BY DEF Init, Idle, SizesFew, SomeLess
<1>3. HandledIsHeld
  BY DEF Init, HandledIsHeld
<1> QED
  BY <1>1, <1>2, <1>3 DEF HInv

\* With no more than two streams at a time notify_work always finds a thread:
\* a context that is marked as handled is in the lists of a thread, whatever
\* the number of threads.  With three it may not.
THEOREM HandledCorrect == Cardinality(Guilds) <= 2 => (Spec => []HandledIsHeld)
<1> SUFFICES ASSUME Cardinality(Guilds) <= 2
             PROVE  Spec => []HandledIsHeld
  OBVIOUS
<1>1. FewGuilds
  BY TwoAreFew
<1>2. HInv /\ [Next]_vars => HInv'
  BY <1>1, NextHInv
<1>3. HInv => HandledIsHeld
  BY DEF HInv
<1> QED
  BY <1>2, <1>3, InitHInv, PTL DEF Spec
==============================================================================
