-------------------------- MODULE ServerTables_proofs --------------------------
(***************************************************************************)
(* For any number of states, users, tasks and handlers: the mutexes are    *)
(* held where the threads are, neither a state nor an entry stays without  *)
(* its timer, and threads wait for each other in pairs only, for ever.     *)
(***************************************************************************)
EXTENDS ServerTables, SequenceTheorems, WellFoundedInduction, TLAPS

\* A task that puts an entry in, and a handler at work, have a user; a state
\* that is about to get its timer was made.
HaveUsers ==
    /\ \A t \in Tasks : tasks[t].at # "idle" => tasks[t].user \in Users
    /\ \A h \in Handlers : handlers[h].at # "idle" => handlers[h].owner \in Users
    /\ server.at = "register" => server.state \in States

\* Where the main loop holds the mutex of the states' timers.
LoopHolds == loop.at \in {"break?", "over?", "remove"}

\* The server's thread and the main loop are not both at the states' timers.
OneAtTimers == server.at = "remove all" => ~LoopHolds

IInv == TypeOK /\ HaveUsers /\ OneAtTimers /\ StateIsTimed /\ EntryIsTimed

----------------------------------------------------------------------------
\* What the operators on the lists of timers do.

\* A set of natural numbers that is not empty has a least element.
LEMMA LeastOf ==
    ASSUME NEW I \in SUBSET Nat, I # {}
    PROVE  \E x \in I : \A y \in I : x <= y
<1> DEFINE R == {p \in Nat \X Nat : p[1] < p[2]}
<1>1. IsWellFoundedOn(R, Nat)
  BY NatLessThanWellFounded DEF OpToRel
<1>2. PICK x \in I : \A y \in I : <<y, x>> \notin R
  BY <1>1, WFMin
<1>3. ASSUME NEW y \in I
      PROVE  x <= y
  <2>1. <<y, x>> \in Nat \X Nat /\ <<y, x>>[1] = y /\ <<y, x>>[2] = x
    OBVIOUS
  <2>2. ~(y < x)
    BY <1>2, <2>1
  <2> QED
    BY <2>2
<1> QED
  BY <1>3

\* A new timer behind the others.
LEMMA AppendedTimer ==
    ASSUME NEW S, NEW q \in Seq(S), NEW e \in S
    PROVE  /\ Append(q, e) \in Seq(S)
           /\ Len(Append(q, e)) = Len(q) + 1
           /\ Contains(Append(q, e), e)
           /\ \A x : Contains(q, x) => Contains(Append(q, e), x)
<1>1. /\ Append(q, e) \in Seq(S) /\ Len(Append(q, e)) = Len(q) + 1 /\ Len(q) \in Nat
      /\ \A i \in 1..Len(q) : Append(q, e)[i] = q[i]
      /\ Append(q, e)[Len(q) + 1] = e
  BY AppendProperties, LenProperties
<1>2. \A i \in 1..Len(q) : i \in 1..(Len(q) + 1)
  BY <1>1
<1>3. Len(q) + 1 \in 1..(Len(q) + 1)
  BY <1>1
<1> QED
  BY <1>1, <1>2, <1>3 DEF Contains

\* Taking the timer at a position out keeps the others.
LEMMA TimerTakenOut ==
    ASSUME NEW S, NEW q \in Seq(S), NEW i \in 1..Len(q)
    PROVE  /\ q[i] \in S
           /\ RemoveAt(q, i) \in Seq(S)
           /\ \A x : x # q[i] /\ Contains(q, x) => Contains(RemoveAt(q, i), x)
<1> DEFINE a == SubSeq(q, 1, i - 1)
           b == SubSeq(q, i + 1, Len(q))
<1>1. Len(q) \in Nat /\ \A j \in 1..Len(q) : q[j] \in S
  BY LenProperties, ElementOfSeq
<1>2. a \in Seq(S) /\ Len(a) = i - 1 /\ \A j \in 1..(i - 1) : a[j] = q[j]
  BY <1>1, SubSeqProperties
<1>3. b \in Seq(S) /\ Len(b) = Len(q) - i /\ \A j \in 1..(Len(q) - i) : b[j] = q[i + j]
  <2>1. CASE i < Len(q)
    BY <1>1, <2>1, SubSeqProperties
  <2>2. CASE i = Len(q)
    BY <1>1, <2>2, SubSeqProperties
  <2> QED
    BY <1>1, <2>1, <2>2
<1>4. RemoveAt(q, i) = a \o b
  BY DEF RemoveAt
<1> HIDE DEF a, b
<1>5. /\ a \o b \in Seq(S) /\ Len(a \o b) = Len(q) - 1
      /\ \A j \in 1..(Len(q) - 1) : (a \o b)[j] = IF j <= i - 1 THEN a[j] ELSE b[j - (i - 1)]
  <2>1. /\ a \o b \in Seq(S) /\ Len(a \o b) = Len(a) + Len(b)
        /\ \A j \in 1..(Len(a) + Len(b)) : (a \o b)[j] = IF j <= Len(a) THEN a[j] ELSE b[j - Len(a)]
    BY <1>2, <1>3, ConcatProperties
  <2>2. Len(a) = i - 1 /\ Len(a) + Len(b) = Len(q) - 1
    BY <1>1, <1>2, <1>3
  <2> QED
    BY <2>1, <2>2
<1>6. ASSUME NEW x, x # q[i], Contains(q, x)
      PROVE  Contains(a \o b, x)
  <2>1. PICK j \in 1..Len(q) : q[j] = x
    BY <1>6 DEF Contains
  <2>2. CASE j < i
    <3>1. j \in 1..(Len(q) - 1) /\ (a \o b)[j] = x
      BY <1>1, <1>2, <1>5, <2>1, <2>2
    <3> QED
      BY <3>1, <1>5 DEF Contains
  <2>3. CASE j > i
    <3> DEFINE k == j - 1
    <3>1. k \in 1..(Len(q) - 1) /\ ~(k <= i - 1) /\ k - (i - 1) \in 1..(Len(q) - i) /\ i + (k - (i - 1)) = j
      BY <1>1, <2>3
    <3>2. (a \o b)[k] = b[k - (i - 1)] /\ b[k - (i - 1)] = q[j]
      BY <3>1, <1>3, <1>5
    <3> QED
      BY <3>1, <3>2, <2>1, <1>5 DEF Contains
  <2> QED
    BY <1>6, <2>1, <2>2, <2>3
<1> QED
  BY <1>1, <1>4, <1>5, <1>6

\* remove_invalidate_timer keeps the timers of other keys, and without a timer of
\* the key all of them.
LEMMA WithoutTimerOK ==
    ASSUME NEW S, NEW q \in Seq(S), NEW k
    PROVE  /\ WithoutTimer(q, k) \in Seq(S)
           /\ \A x : x # k /\ Contains(q, x) => Contains(WithoutTimer(q, k), x)
           /\ ~Contains(q, k) => WithoutTimer(q, k) = q
<1>1. CASE Contains(q, k)
  <2> DEFINE I == {i \in 1..Len(q) : q[i] = k}
  <2>1. I \in SUBSET Nat /\ I # {}
    BY <1>1, LenProperties DEF Contains
  <2>2. Min(I) \in I
    BY <2>1, LeastOf DEF Min
  <2>3. WithoutTimer(q, k) = RemoveAt(q, Min(I))
    BY <2>1 DEF WithoutTimer, RemoveFirst, SelectInSeq
  <2> QED
    BY <1>1, <2>2, <2>3, TimerTakenOut
<1>2. CASE ~Contains(q, k)
  <2>1. WithoutTimer(q, k) = q
    BY <1>2 DEF Contains, WithoutTimer, RemoveFirst
  <2> QED
    BY <1>2, <2>1
<1> QED
  BY <1>1, <1>2

\* The first timer, and those behind it.
LEMMA FirstTimer ==
    ASSUME NEW S, NEW q \in Seq(S), q # <<>>
    PROVE  /\ Head(q) \in S /\ Tail(q) \in Seq(S)
           /\ \A x : x # Head(q) /\ Contains(q, x) => Contains(Tail(q), x)
<1>1. /\ Head(q) \in S /\ Tail(q) \in Seq(S) /\ Len(q) \in Nat \ {0} /\ Head(q) = q[1]
      /\ Len(Tail(q)) = Len(q) - 1 /\ \A i \in 1..(Len(q) - 1) : Tail(q)[i] = q[i + 1]
  BY HeadTailProperties, LenProperties, EmptySeq
<1>2. ASSUME NEW x, x # Head(q), Contains(q, x)
      PROVE  Contains(Tail(q), x)
  <2>1. PICK j \in 1..Len(q) : q[j] = x
    BY <1>2 DEF Contains
  <2>2. j - 1 \in 1..(Len(q) - 1) /\ (j - 1) + 1 = j
    BY <1>1, <1>2, <2>1
  <2>3. Tail(q)[j - 1] = x
    BY <1>1, <2>1, <2>2
  <2> QED
    BY <1>1, <2>2, <2>3 DEF Contains
<1> QED
  BY <1>1, <1>2

----------------------------------------------------------------------------
\* Init: nobody asked for anything.
LEMMA InitOK == Init => IInv
<1> SUFFICES ASSUME Init PROVE IInv
  OBVIOUS
<1>1. calls \in 0..MaxCalls
  <2>1. MaxCalls \in Nat
    BY ConstantsAssumption
  <2> QED
    BY <2>1 DEF Init
<1>2. HoldersOK
  BY ConstantsAssumption DEF Init, HoldersOK, HandlerAt, Mutexes, Nobody
<1>3. TypeOK
  <2>1. /\ loop \in [at : {"idle", "break?", "over?", "remove", "service", "cache", "remove entry"}, i : Nat \ {0}]
        /\ server \in [at : {"idle", "register", "remove all", "closed"}, state : States \cup {NoState}]
        /\ loop.at = "idle"
    BY DEF Init
  <2>2. /\ tasks \in [Tasks -> [at : {"idle", "auth", "fetch", "set", "untime", "time"},
                                user : Users \cup {NoUser}, key : {"auth", "guilds"}]]
        /\ handlers \in [Handlers -> [at : {"idle", "untime", "lock", "scan"},
                                      owner : Users \cup {NoUser}, members : SUBSET Users]]
    BY DEF Init
  <2>3. /\ holder \in [Mutexes -> Threads \cup {Nobody}]
        /\ states = {} /\ unmade = States /\ cached = {} /\ overtaken = {}
        /\ stateTimers \in Seq(States) /\ cacheTimers \in Seq(Keys)
    BY DEF Init
  <2> QED
    BY <1>1, <1>2, <2>1, <2>2, <2>3 DEF TypeOK
<1>4. HaveUsers /\ OneAtTimers /\ StateIsTimed /\ EntryIsTimed
  BY DEF Init, HaveUsers, OneAtTimers, LoopHolds, StateIsTimed, EntryIsTimed
<1> QED
  BY <1>3, <1>4 DEF IInv

----------------------------------------------------------------------------
\* Who keeps what: an invariant about tables a step leaves alone goes on.

\* A step that leaves the states, their timers, and the server's thread.
LEMMA StatesKept ==
    ASSUME IInv, UNCHANGED <<states, stateTimers, server>>,
           holder'["_oauth_states_m"] = holder["_oauth_states_m"]
    PROVE  StateIsTimed'
  BY DEF IInv, StateIsTimed

\* A step that puts no entry in and no timer out.
LEMMA EntriesKept ==
    ASSUME IInv, UNCHANGED <<cacheTimers, overtaken, tasks>>, cached' \subseteq cached
    PROVE  EntryIsTimed'
  BY DEF IInv, EntryIsTimed, KeyOf

----------------------------------------------------------------------------
\* The server's thread.

\* generate_oauth_state: the state is listed before it gets its timer.
LEMMA GenerateOK ==
    ASSUME IInv, generate_oauth_state
    PROVE  IInv'
<1>1. PICK s \in unmade : MakesState(s)
  BY DEF generate_oauth_state
<1>2. /\ server.at = "idle" /\ server' = [at |-> "register", state |-> s] /\ s \in States
      /\ holder["_oauth_states_m"] = Nobody
      /\ holder' = [holder EXCEPT !["_oauth_states_m"] = "server"]
      /\ states' = states \cup {s} /\ unmade' = unmade \ {s}
      /\ UNCHANGED <<stateTimers, cacheVars, loop, callVars>>
  BY <1>1 DEF generate_oauth_state, MakesState, Locks, Free, IInv, TypeOK
<1>3. holder' \in [Mutexes -> Threads \cup {Nobody}] /\ holder'["_oauth_states_m"] = "server"
      /\ \A m \in Mutexes : m # "_oauth_states_m" => holder'[m] = holder[m]
  BY <1>2 DEF IInv, TypeOK, Threads, Mutexes
<1>4. HoldersOK'
  BY <1>2, <1>3 DEF IInv, TypeOK, HoldersOK, HandlerAt, Mutexes, callVars
<1>5. TypeOK'
  BY <1>2, <1>3, <1>4 DEF IInv, TypeOK, cacheVars, callVars
<1>6. StateIsTimed'
  BY <1>2, <1>3 DEF IInv, StateIsTimed
<1>7. HaveUsers' /\ OneAtTimers' /\ EntryIsTimed'
  BY <1>2, EntriesKept DEF IInv, HaveUsers, OneAtTimers, LoopHolds, callVars, cacheVars
<1> QED
  BY <1>5, <1>6, <1>7 DEF IInv

\* register_timer, with both mutexes.
LEMMA RegisterOK ==
    ASSUME IInv, register_timer
    PROVE  IInv'
<1>1. /\ server.at = "register" /\ server' = [at |-> "idle", state |-> NoState]
      /\ holder["oauth_timers_m"] = Nobody
      /\ holder' = [holder EXCEPT !["_oauth_states_m"] = Nobody]
      /\ stateTimers' = Registered(stateTimers, server.state)
      /\ UNCHANGED <<states, unmade, cacheVars, loop, callVars>>
  BY DEF register_timer, Unlocks, Free
<1>2. holder' \in [Mutexes -> Threads \cup {Nobody}] /\ holder'["_oauth_states_m"] = Nobody
      /\ \A m \in Mutexes : m # "_oauth_states_m" => holder'[m] = holder[m]
  BY <1>1 DEF IInv, TypeOK, Threads, Mutexes
<1>3. HoldersOK'
  <2>1. HoldersOK /\ UNCHANGED <<loop, handlers>> /\ server.at = "register" /\ server'.at = "idle"
    BY <1>1 DEF IInv, TypeOK, callVars
  <2>2. \A m \in {"oauth_timers_m", "_timers_m", "cache_m"} : holder'[m] = holder[m]
    BY <1>2 DEF Mutexes
  <2>3. /\ holder'["cache_m"] \in Handlers \cup {Nobody}
        /\ \A h \in Handlers : handlers'[h].at = "scan" <=> holder'["cache_m"] = h
    BY <2>1, <2>2 DEF HoldersOK, HandlerAt
  <2>4. holder'["_timers_m"] = IF loop'.at \in {"cache", "remove entry"} THEN "loop" ELSE Nobody
    BY <2>1, <2>2 DEF HoldersOK
  <2>5. holder'["oauth_timers_m"] = IF loop'.at \in {"break?", "over?", "remove"} THEN "loop"
                                    ELSE IF server'.at = "remove all" THEN "server" ELSE Nobody
    BY <2>1, <2>2 DEF HoldersOK
  <2>6. holder'["_oauth_states_m"] = IF server'.at = "register" THEN "server" ELSE Nobody
    BY <1>2, <2>1
  <2> QED
    BY <2>3, <2>4, <2>5, <2>6 DEF HoldersOK, HandlerAt
<1>4. /\ stateTimers' \in Seq(States) /\ Contains(stateTimers', server.state)
      /\ \A x : Contains(stateTimers, x) => Contains(stateTimers', x)
  <2>1. stateTimers \in Seq(States) /\ server.state \in States
    BY <1>1 DEF IInv, TypeOK, HaveUsers
  <2>2. CASE Contains(stateTimers, server.state)
    BY <1>1, <2>1, <2>2 DEF Registered
  <2>3. CASE ~Contains(stateTimers, server.state)
    <3>1. stateTimers' = Append(stateTimers, server.state)
      BY <1>1, <2>3 DEF Registered
    <3> QED
      BY <2>1, <3>1, AppendedTimer
  <2> QED
    BY <2>2, <2>3
<1>5. loop.at \notin {"break?", "over?", "remove"}
  BY <1>1 DEF IInv, TypeOK, HoldersOK, Nobody
<1>6. TypeOK'
  BY <1>1, <1>2, <1>3, <1>4, <1>5 DEF IInv, TypeOK, cacheVars, callVars
<1>7. StateIsTimed'
  BY <1>1, <1>4 DEF IInv, StateIsTimed
<1>8. HaveUsers' /\ OneAtTimers' /\ EntryIsTimed'
  BY <1>1, EntriesKept DEF IInv, HaveUsers, OneAtTimers, LoopHolds, callVars, cacheVars
<1> QED
  BY <1>6, <1>7, <1>8 DEF IInv

----------------------------------------------------------------------------
\* Tasks.

TaskRecords == [at : {"idle", "auth", "fetch", "set", "untime", "time"},
                user : Users \cup {NoUser}, key : {"auth", "guilds"}]

\* A step of a task that has not put its entry in, to a place with a user.
LEMMA TaskMoves ==
    ASSUME IInv, NEW t \in Tasks, \A u \in Tasks : u # t => tasks'[u] = tasks[u],
           tasks[t].at \notin {"untime", "time"},
           tasks'[t].at # "idle" => tasks'[t].user \in Users,
           cached' \subseteq cached, UNCHANGED <<cacheTimers, overtaken>>
    PROVE  /\ \A u \in Tasks : tasks'[u].at # "idle" => tasks'[u].user \in Users
           /\ EntryIsTimed'
<1>1. \A u \in Tasks : tasks'[u].at # "idle" => tasks'[u].user \in Users
  BY DEF IInv, HaveUsers
<1>2. EntryIsTimed'
  BY DEF IInv, EntryIsTimed, KeyOf
<1> QED
  BY <1>1, <1>2

\* A request that the server hands over.
LEMMA StartsTaskOK ==
    ASSUME IInv, NEW t \in Tasks, NEW u \in Users, NEW k \in {"auth", "guilds"},
           NEW where \in {"auth", "set"}, StartsTask(t, where, u, k),
           cached' \subseteq cached, UNCHANGED <<cacheTimers, overtaken>>
    PROVE  /\ tasks' \in [Tasks -> TaskRecords]
           /\ \A v \in Tasks : tasks'[v].at # "idle" => tasks'[v].user \in Users
           /\ EntryIsTimed'
           /\ calls' \in 0..MaxCalls
<1>1. [at |-> where, user |-> u, key |-> k] \in TaskRecords
  BY DEF TaskRecords
<1>2. tasks[t].at = "idle" /\ tasks' = [tasks EXCEPT ![t] = [at |-> where, user |-> u, key |-> k]]
  BY DEF StartsTask, At
<1>3. calls' \in 0..MaxCalls
  <2>1. MaxCalls \in Nat /\ calls \in 0..MaxCalls /\ calls < MaxCalls /\ calls' = calls + 1
    BY ConstantsAssumption DEF StartsTask, Called, IInv, TypeOK
  <2> QED
    BY <2>1
<1>4. /\ tasks' \in [Tasks -> TaskRecords] /\ tasks'[t].user = u
      /\ \A v \in Tasks : v # t => tasks'[v] = tasks[v]
  BY <1>1, <1>2 DEF IInv, TypeOK, TaskRecords
<1> QED
  BY <1>2, <1>3, <1>4, TaskMoves

\* The server's other requests take states away, or entries.
LEMMA ServeOK ==
    ASSUME IInv,
           \/ \E s \in States \ unmade : PostLogin(s)
           \/ \E u \in Users : PostLogout(u) \/ GetGuilds(u)
    PROVE  IInv'
<1>1. /\ server.at = "idle"
      /\ UNCHANGED <<holder, unmade, stateTimers, cacheTimers, overtaken, loop, server, handlers>>
      /\ states' \subseteq states /\ cached' \subseteq cached
  BY DEF PostLogin, PostLogout, GetGuilds, remove_oauth_state, oauthVars, cacheVars, callVars
<1>2. \/ UNCHANGED <<tasks, calls>>
      \/ \E t \in Tasks, u \in Users, k \in {"auth", "guilds"}, where \in {"auth", "set"} :
           StartsTask(t, where, u, k)
  BY DEF PostLogin, PostLogout, GetGuilds, callVars
<1>3. /\ tasks' \in [Tasks -> TaskRecords]
      /\ \A v \in Tasks : tasks'[v].at # "idle" => tasks'[v].user \in Users
      /\ EntryIsTimed'
      /\ calls' \in 0..MaxCalls
  <2>1. CASE UNCHANGED <<tasks, calls>>
    BY <1>1, <2>1, EntriesKept DEF IInv, TypeOK, HaveUsers, TaskRecords
  <2> QED
    BY <1>1, <1>2, <2>1, StartsTaskOK
<1>4. HoldersOK'
  BY <1>1 DEF IInv, TypeOK, HoldersOK, HandlerAt
<1>5. TypeOK'
  BY <1>1, <1>3, <1>4 DEF IInv, TypeOK, TaskRecords
<1>6. StateIsTimed'
  BY <1>1 DEF IInv, StateIsTimed
<1>7. HaveUsers' /\ OneAtTimers'
  BY <1>1, <1>3 DEF IInv, HaveUsers, OneAtTimers, LoopHolds
<1> QED
  BY <1>3, <1>5, <1>6, <1>7 DEF IInv

\* server::shutdown's removal of all timers, with their states.
LEMMA RemoveAllOK ==
    ASSUME IInv, remove_all_timers \/ RemovesTimer
    PROVE  IInv'
<1>1. UNCHANGED <<unmade, cacheVars, loop, callVars>> /\ server.at \in {"idle", "remove all"}
  BY DEF remove_all_timers, RemovesTimer, oauthVars
<1>2. \A x : server # [at |-> "register", state |-> x]
  <2>1. \A x : [at |-> "register", state |-> x].at = "register"
    OBVIOUS
  <2> QED
    BY <1>1, <2>1
<1>3. CASE remove_all_timers
  <2>1. /\ holder["oauth_timers_m"] = Nobody /\ holder' = [holder EXCEPT !["oauth_timers_m"] = "server"]
        /\ server' = [server EXCEPT !.at = "remove all"] /\ server.at = "idle"
        /\ UNCHANGED <<states, stateTimers>>
    BY <1>3 DEF remove_all_timers, Locks, Free, oauthVars
  <2>2. holder' \in [Mutexes -> Threads \cup {Nobody}] /\ holder'["oauth_timers_m"] = "server"
        /\ \A m \in Mutexes : m # "oauth_timers_m" => holder'[m] = holder[m]
    BY <2>1 DEF IInv, TypeOK, Threads, Mutexes
  <2>3. server' \in [at : {"idle", "register", "remove all", "closed"}, state : States \cup {NoState}]
        /\ server'.at = "remove all"
    BY <2>1 DEF IInv, TypeOK
  <2>4. loop.at \notin {"break?", "over?", "remove"}
    BY <2>1 DEF IInv, TypeOK, HoldersOK, Nobody
  <2>5. HoldersOK'
    BY <1>1, <2>1, <2>2, <2>3, <2>4 DEF IInv, TypeOK, HoldersOK, HandlerAt, Mutexes, callVars
  <2>6. TypeOK'
    BY <1>1, <2>1, <2>2, <2>3, <2>5 DEF IInv, TypeOK, cacheVars, callVars
  <2>7. StateIsTimed'
    BY <1>2, <2>1 DEF IInv, StateIsTimed
  <2>8. HaveUsers' /\ OneAtTimers' /\ EntryIsTimed'
    BY <1>1, <2>3, <2>4, EntriesKept DEF IInv, HaveUsers, OneAtTimers, LoopHolds, callVars, cacheVars
  <2> QED
    BY <2>6, <2>7, <2>8 DEF IInv
<1>4. CASE RemovesTimer /\ stateTimers = <<>>
  <2>1. /\ holder' = [holder EXCEPT !["oauth_timers_m"] = Nobody]
        /\ server' = [server EXCEPT !.at = "closed"] /\ server.at = "remove all"
        /\ UNCHANGED <<states, stateTimers>>
    BY <1>4 DEF RemovesTimer, Unlocks
  <2>2. holder' \in [Mutexes -> Threads \cup {Nobody}] /\ holder'["oauth_timers_m"] = Nobody
        /\ \A m \in Mutexes : m # "oauth_timers_m" => holder'[m] = holder[m]
    BY <2>1 DEF IInv, TypeOK, Threads, Mutexes
  <2>3. server' \in [at : {"idle", "register", "remove all", "closed"}, state : States \cup {NoState}]
        /\ server'.at = "closed"
    BY <2>1 DEF IInv, TypeOK
  <2>4. loop.at \notin {"break?", "over?", "remove"}
    BY <2>1 DEF IInv, OneAtTimers, LoopHolds
  <2>5. HoldersOK'
    BY <1>1, <2>1, <2>2, <2>3, <2>4 DEF IInv, TypeOK, HoldersOK, HandlerAt, Mutexes, callVars
  <2>6. TypeOK'
    BY <1>1, <2>1, <2>2, <2>3, <2>5 DEF IInv, TypeOK, cacheVars, callVars
  <2>7. StateIsTimed'
    BY <1>2, <2>1 DEF IInv, StateIsTimed
  <2>8. HaveUsers' /\ OneAtTimers' /\ EntryIsTimed'
    BY <1>1, <2>3, <2>4, EntriesKept DEF IInv, HaveUsers, OneAtTimers, LoopHolds, callVars, cacheVars
  <2> QED
    BY <2>6, <2>7, <2>8 DEF IInv
<1>5. CASE RemovesTimer /\ stateTimers # <<>>
  <2>1. /\ states' = states \ {Head(stateTimers)} /\ stateTimers' = Tail(stateTimers)
        /\ UNCHANGED <<holder, server>> /\ server.at = "remove all"
    BY <1>5 DEF RemovesTimer, remove_oauth_state
  <2>2. /\ stateTimers' \in Seq(States)
        /\ \A x : x # Head(stateTimers) /\ Contains(stateTimers, x) => Contains(stateTimers', x)
    BY <1>5, <2>1, FirstTimer DEF IInv, TypeOK
  <2>3. loop.at \notin {"break?", "over?", "remove"}
    BY <2>1 DEF IInv, OneAtTimers, LoopHolds
  <2>4. HoldersOK'
    BY <1>1, <2>1 DEF IInv, TypeOK, HoldersOK, HandlerAt, callVars
  <2>5. TypeOK'
    BY <1>1, <2>1, <2>2, <2>3, <2>4 DEF IInv, TypeOK, cacheVars, callVars
  <2>6. StateIsTimed'
    BY <1>2, <2>1, <2>2 DEF IInv, StateIsTimed
  <2>7. HaveUsers' /\ OneAtTimers' /\ EntryIsTimed'
    BY <1>1, <2>1, EntriesKept DEF IInv, HaveUsers, OneAtTimers, LoopHolds, callVars, cacheVars
  <2> QED
    BY <2>5, <2>6, <2>7 DEF IInv
<1> QED
  BY <1>3, <1>4, <1>5

\* The steps of a task.
LEMMA TaskOK ==
    ASSUME IInv, NEW t \in Tasks, Task(t)
    PROVE  IInv'
<1>1. UNCHANGED <<holder, states, unmade, stateTimers, loop, server, handlers, calls>>
  BY DEF Task, get_cached_user_auth, Fetched, set, remove_invalidate_timer,
         create_invalidate_timer, oauthVars
<1>2. tasks \in [Tasks -> TaskRecords] /\ tasks[t] \in TaskRecords
  BY DEF IInv, TypeOK, TaskRecords
<1>3. tasks[t].user \in Users /\ tasks[t].key \in {"auth", "guilds"}
  BY <1>2 DEF Task, get_cached_user_auth, Fetched, set, remove_invalidate_timer,
         create_invalidate_timer, At, IInv, HaveUsers, TaskRecords
<1>4. KeyOf(t) \in Keys
  BY <1>3 DEF KeyOf, Keys
<1> DEFINE Kept == /\ tasks' \in [Tasks -> TaskRecords]
                   /\ \A u \in Tasks : tasks'[u].at # "idle" => tasks'[u].user \in Users
                   /\ EntryIsTimed'
                   /\ cached' \subseteq Keys /\ overtaken' \subseteq Keys
                   /\ cacheTimers' \in Seq(Keys)
                   /\ loop.at = "remove entry" => cacheTimers' = cacheTimers
<1>5. cached \subseteq Keys /\ overtaken \subseteq Keys /\ cacheTimers \in Seq(Keys)
  BY DEF IInv, TypeOK
<1>6. ASSUME get_cached_user_auth(t) \/ Fetched(t)
      PROVE  Kept
  <2>1. tasks[t].at \notin {"untime", "time"} /\ UNCHANGED cacheVars
    BY <1>6 DEF get_cached_user_auth, Fetched, At
  <2>2. /\ tasks' \in [Tasks -> TaskRecords] /\ tasks'[t].user = tasks[t].user
        /\ \A u \in Tasks : u # t => tasks'[u] = tasks[u]
    <3>1. CASE get_cached_user_auth(t)
      BY <1>2, <3>1 DEF get_cached_user_auth, TaskRecords
    <3>2. CASE Fetched(t)
      BY <1>2, <3>2 DEF Fetched, Goes, TaskRecords
    <3> QED
      BY <1>6, <3>1, <3>2
  <2> QED
    BY <1>3, <1>5, <2>1, <2>2, TaskMoves DEF cacheVars
<1>7. ASSUME set(t)
      PROVE  Kept
  <2>1. /\ tasks' = [tasks EXCEPT ![t].at = "untime"] /\ cached' = cached \cup {KeyOf(t)}
        /\ overtaken' = overtaken \ {KeyOf(t)} /\ cacheTimers' = cacheTimers /\ tasks[t].at = "set"
    BY <1>7 DEF set, Goes, At
  <2>2. /\ tasks' \in [Tasks -> TaskRecords]
        /\ tasks'[t].at = "untime" /\ tasks'[t].user = tasks[t].user /\ tasks'[t].key = tasks[t].key
        /\ \A u \in Tasks : u # t => tasks'[u] = tasks[u]
    BY <1>2, <2>1 DEF TaskRecords
  <2>3. EntryIsTimed'
    BY <2>1, <2>2 DEF IInv, EntryIsTimed, KeyOf
  <2>4. \A u \in Tasks : tasks'[u].at # "idle" => tasks'[u].user \in Users
    BY <1>3, <2>2 DEF IInv, HaveUsers
  <2> QED
    BY <1>4, <1>5, <2>1, <2>2, <2>3, <2>4
<1>8. ASSUME remove_invalidate_timer(t)
      PROVE  Kept
  <2>1. /\ tasks' = [tasks EXCEPT ![t].at = "time"] /\ UNCHANGED <<cached, overtaken>>
        /\ cacheTimers' = WithoutTimer(cacheTimers, KeyOf(t)) /\ holder["_timers_m"] = Nobody
    BY <1>8 DEF remove_invalidate_timer, Goes, Free
  <2>2. /\ tasks' \in [Tasks -> TaskRecords]
        /\ tasks'[t].at = "time" /\ tasks'[t].user = tasks[t].user /\ tasks'[t].key = tasks[t].key
        /\ \A u \in Tasks : u # t => tasks'[u] = tasks[u]
    BY <1>2, <2>1 DEF TaskRecords
  <2>3. /\ cacheTimers' \in Seq(Keys)
        /\ \A x : x # KeyOf(t) /\ Contains(cacheTimers, x) => Contains(cacheTimers', x)
    BY <1>5, <2>1, WithoutTimerOK
  <2>4. EntryIsTimed'
    BY <2>1, <2>2, <2>3 DEF IInv, EntryIsTimed, KeyOf
  <2>5. \A u \in Tasks : tasks'[u].at # "idle" => tasks'[u].user \in Users
    BY <1>3, <2>2 DEF IInv, HaveUsers
  <2>6. loop.at # "remove entry"
    BY <2>1 DEF IInv, TypeOK, HoldersOK, Nobody
  <2> QED
    BY <1>5, <2>1, <2>2, <2>3, <2>4, <2>5, <2>6
<1>9. ASSUME create_invalidate_timer(t)
      PROVE  Kept
  <2>1. /\ UNCHANGED <<cached, overtaken>> /\ holder["_timers_m"] = Nobody
        /\ cacheTimers' = Append(cacheTimers, KeyOf(t))
    BY <1>9 DEF create_invalidate_timer, WithTimer, Free
  <2>2. /\ tasks' \in [Tasks -> TaskRecords]
        /\ tasks'[t].user = tasks[t].user
        /\ \A u \in Tasks : u # t => tasks'[u] = tasks[u]
    BY <1>2, <1>9 DEF create_invalidate_timer, Goes, TaskRecords
  <2>3. /\ cacheTimers' \in Seq(Keys) /\ Contains(cacheTimers', KeyOf(t))
        /\ \A x : Contains(cacheTimers, x) => Contains(cacheTimers', x)
    BY <1>4, <1>5, <2>1, AppendedTimer
  <2>4. EntryIsTimed'
    BY <2>1, <2>2, <2>3 DEF IInv, EntryIsTimed, KeyOf
  <2>5. \A u \in Tasks : tasks'[u].at # "idle" => tasks'[u].user \in Users
    BY <1>3, <2>2 DEF IInv, HaveUsers
  <2>6. loop.at # "remove entry"
    BY <2>1 DEF IInv, TypeOK, HoldersOK, Nobody
  <2> QED
    BY <1>5, <2>1, <2>2, <2>3, <2>4, <2>5, <2>6
<1>10. Kept
  BY <1>6, <1>7, <1>8, <1>9 DEF Task
<1>11. HoldersOK'
  BY <1>1 DEF IInv, TypeOK, HoldersOK, HandlerAt
<1>12. TypeOK'
  BY <1>1, <1>10, <1>11 DEF IInv, TypeOK, TaskRecords
<1>13. HaveUsers' /\ OneAtTimers'
  BY <1>1, <1>10 DEF IInv, HaveUsers, OneAtTimers, LoopHolds
<1> QED
  BY <1>1, <1>10, <1>12, <1>13, StatesKept DEF IInv

----------------------------------------------------------------------------
\* Guild events.

HandlerRecords == [at : {"idle", "untime", "lock", "scan"},
                   owner : Users \cup {NoUser}, members : SUBSET Users]

\* What a handler's steps leave alone.
LEMMA HandlersKeep ==
    ASSUME IInv, UNCHANGED <<oauthVars, loop, server, tasks>>,
           handlers' \in [Handlers -> HandlerRecords],
           \A h \in Handlers : handlers'[h].at # "idle" => handlers'[h].owner \in Users,
           HoldersOK', holder' \in [Mutexes -> Threads \cup {Nobody}],
           holder'["_oauth_states_m"] = holder["_oauth_states_m"],
           calls' \in 0..MaxCalls, cached' \subseteq cached, overtaken' \subseteq Keys,
           cacheTimers' \in Seq(Keys), loop.at = "remove entry" => cacheTimers' = cacheTimers,
           EntryIsTimed'
    PROVE  IInv'
<1>1. TypeOK'
  BY DEF IInv, TypeOK, oauthVars, HandlerRecords
<1>2. HaveUsers' /\ OneAtTimers'
  BY DEF IInv, HaveUsers, OneAtTimers, LoopHolds
<1>3. StateIsTimed'
  BY StatesKept DEF oauthVars
<1> QED
  BY <1>1, <1>2, <1>3 DEF IInv

\* A guild event finds whose entries it makes stale.
LEMMA GuildEventOK ==
    ASSUME IInv, NEW h \in Handlers, NEW u \in Users, NEW members \in SUBSET Users,
           GuildEvent(h, u, members)
    PROVE  IInv'
<1>1. /\ UNCHANGED <<holder, oauthVars, cacheTimers, overtaken, loop, server, tasks>>
      /\ cached' \subseteq cached /\ handlers[h].at = "idle"
      /\ handlers' = [handlers EXCEPT ![h] = [at |-> "untime", owner |-> u, members |-> members]]
  BY DEF GuildEvent, HandlerAt
<1>2. calls' \in 0..MaxCalls
  <2>1. MaxCalls \in Nat /\ calls \in 0..MaxCalls /\ calls < MaxCalls /\ calls' = calls + 1
    BY ConstantsAssumption DEF GuildEvent, Called, IInv, TypeOK
  <2> QED
    BY <2>1
<1>3. /\ handlers' \in [Handlers -> HandlerRecords]
      /\ handlers'[h].at = "untime" /\ handlers'[h].owner = u
      /\ \A g \in Handlers : g # h => handlers'[g] = handlers[g]
  BY <1>1 DEF IInv, TypeOK, HandlerRecords
<1>4. HoldersOK'
  <2>1. HoldersOK /\ UNCHANGED <<holder, loop, server>>
    BY <1>1 DEF IInv, TypeOK
  <2>2. \A g \in Handlers : handlers'[g].at = "scan" <=> handlers[g].at = "scan"
    BY <1>1, <1>3
  <2> QED
    BY <2>1, <2>2 DEF HoldersOK, HandlerAt
<1>5. \A g \in Handlers : handlers'[g].at # "idle" => handlers'[g].owner \in Users
  BY <1>3 DEF IInv, HaveUsers
<1>6. EntryIsTimed'
  BY <1>1, EntriesKept
<1> QED
  BY <1>1, <1>2, <1>3, <1>4, <1>5, <1>6, HandlersKeep DEF IInv, TypeOK

\* A handler's step to another place, with the cache's mutex or without.
LEMMA HandlerMoves ==
    ASSUME IInv, NEW h \in Handlers, NEW r \in HandlerRecords, handlers' = [handlers EXCEPT ![h] = r],
           r.at # "idle" => r.owner \in Users,
           UNCHANGED <<loop, server>>,
           \/ r.at # "scan" /\ handlers[h].at # "scan" /\ UNCHANGED holder
           \/ r.at = "scan" /\ holder["cache_m"] = Nobody /\ holder' = [holder EXCEPT !["cache_m"] = h]
           \/ r.at # "scan" /\ handlers[h].at = "scan" /\ holder' = [holder EXCEPT !["cache_m"] = Nobody]
    PROVE  /\ handlers' \in [Handlers -> HandlerRecords]
           /\ \A g \in Handlers : handlers'[g].at # "idle" => handlers'[g].owner \in Users
           /\ holder' \in [Mutexes -> Threads \cup {Nobody}]
           /\ holder'["_oauth_states_m"] = holder["_oauth_states_m"]
           /\ HoldersOK'
<1>1. /\ handlers' \in [Handlers -> HandlerRecords] /\ handlers'[h] = r
      /\ \A g \in Handlers : g # h => handlers'[g] = handlers[g]
  BY DEF IInv, TypeOK, HandlerRecords
<1>2. \A g \in Handlers : handlers'[g].at # "idle" => handlers'[g].owner \in Users
  BY <1>1 DEF IInv, HaveUsers
<1>3. /\ holder' \in [Mutexes -> Threads \cup {Nobody}]
      /\ \A m \in Mutexes : m # "cache_m" => holder'[m] = holder[m]
  <2>1. holder \in [Mutexes -> Threads \cup {Nobody}] /\ h \in Threads
    BY DEF IInv, TypeOK, Threads
  <2>2. holder' = holder \/ \E x \in Threads \cup {Nobody} : holder' = [holder EXCEPT !["cache_m"] = x]
    BY <2>1
  <2> QED
    BY <2>1, <2>2
<1>4. Nobody \notin Handlers
  BY ConstantsAssumption DEF Nobody
<1>5. /\ \A g \in Handlers : handlers[g].at = "scan" <=> holder["cache_m"] = g
      /\ holder["cache_m"] \in Handlers \cup {Nobody} /\ "cache_m" \in Mutexes
      /\ holder \in [Mutexes -> Threads \cup {Nobody}]
  BY DEF IInv, TypeOK, HoldersOK, HandlerAt, Mutexes
<1>6. /\ \A g \in Handlers : handlers'[g].at = "scan" <=> holder'["cache_m"] = g
      /\ holder'["cache_m"] \in Handlers \cup {Nobody}
  BY <1>1, <1>4, <1>5
<1>7. HoldersOK'
  <2>1. HoldersOK /\ UNCHANGED <<loop, server>>
    BY DEF IInv, TypeOK
  <2>2. \A m \in {"_oauth_states_m", "oauth_timers_m", "_timers_m"} : holder'[m] = holder[m]
    BY <1>3 DEF Mutexes
  <2> QED
    BY <1>6, <2>1, <2>2 DEF HoldersOK, HandlerAt
<1> QED
  BY <1>1, <1>2, <1>3, <1>7 DEF Mutexes

\* The rest of a gateway handler, entry by entry.
LEMMA HandlerOK ==
    ASSUME IInv, NEW h \in Handlers, HandlerGoesOn(h)
    PROVE  IInv'
<1>1. handlers \in [Handlers -> HandlerRecords] /\ handlers[h] \in HandlerRecords
  BY DEF IInv, TypeOK, HandlerRecords
<1>2. cached \subseteq Keys /\ overtaken \subseteq Keys /\ cacheTimers \in Seq(Keys) /\ calls \in 0..MaxCalls
  BY DEF IInv, TypeOK
<1>3. CASE UntimesOwner(h)
  <2> DEFINE k == Guilds(handlers[h].owner)
             r == [handlers[h] EXCEPT !.at = "lock"]
  <2>1. /\ UNCHANGED <<holder, oauthVars, cached, loop, server, tasks, calls>>
        /\ handlers[h].at = "untime" /\ handlers' = [handlers EXCEPT ![h] = r]
        /\ holder["_timers_m"] = Nobody /\ cacheTimers' = WithoutTimer(cacheTimers, k)
        /\ overtaken' = IF k \in cached /\ Contains(cacheTimers, k) THEN overtaken \cup {k} ELSE overtaken
    BY <1>3 DEF UntimesOwner, HandlerAt, Free
  <2>2. r \in HandlerRecords /\ r.at = "lock" /\ r.owner \in Users
    BY <1>1, <2>1 DEF HandlerRecords, IInv, HaveUsers
  <2>3. k \in Keys
    BY <2>2 DEF Keys, Guilds
  <2> HIDE DEF k, r
  <2>4. /\ cacheTimers' \in Seq(Keys)
        /\ \A x : x # k /\ Contains(cacheTimers, x) => Contains(cacheTimers', x)
        /\ ~Contains(cacheTimers, k) => cacheTimers' = cacheTimers
    BY <1>2, <2>1, WithoutTimerOK
  <2>5. EntryIsTimed'
    BY <2>1, <2>4 DEF IInv, EntryIsTimed, KeyOf
  <2>6. loop.at # "remove entry"
    BY <2>1 DEF IInv, TypeOK, HoldersOK, Nobody
  <2>7. overtaken' \subseteq Keys
    BY <1>2, <2>1, <2>3
  <2>8. /\ handlers' \in [Handlers -> HandlerRecords]
        /\ \A g \in Handlers : handlers'[g].at # "idle" => handlers'[g].owner \in Users
        /\ holder' \in [Mutexes -> Threads \cup {Nobody}]
        /\ holder'["_oauth_states_m"] = holder["_oauth_states_m"]
        /\ HoldersOK'
    BY <2>1, <2>2, HandlerMoves
  <2> QED
    BY <1>2, <2>1, <2>4, <2>5, <2>6, <2>7, <2>8, HandlersKeep
<1>4. CASE LocksCache(h) \/ UnlocksCache(h)
  <2>1. UNCHANGED <<oauthVars, cacheVars, loop, server, tasks, calls>>
    BY <1>4 DEF LocksCache, UnlocksCache
  <2>2. CASE LocksCache(h)
    <3> DEFINE r == [handlers[h] EXCEPT !.at = "scan"]
    <3>1. r \in HandlerRecords /\ r.at = "scan" /\ r.owner \in Users /\ handlers' = [handlers EXCEPT ![h] = r]
      BY <1>1, <2>2 DEF LocksCache, HandlerAt, HandlerRecords, IInv, HaveUsers
    <3>2. holder["cache_m"] = Nobody /\ holder' = [holder EXCEPT !["cache_m"] = h]
      BY <2>2 DEF LocksCache, Locks, Free
    <3> HIDE DEF r
    <3>3. /\ handlers' \in [Handlers -> HandlerRecords]
          /\ \A g \in Handlers : handlers'[g].at # "idle" => handlers'[g].owner \in Users
          /\ holder' \in [Mutexes -> Threads \cup {Nobody}]
          /\ holder'["_oauth_states_m"] = holder["_oauth_states_m"]
          /\ HoldersOK'
      BY <2>1, <3>1, <3>2, HandlerMoves
    <3>4. EntryIsTimed'
      BY <2>1, EntriesKept DEF cacheVars
    <3> QED
      BY <1>2, <2>1, <3>3, <3>4, HandlersKeep DEF cacheVars
  <2>3. CASE UnlocksCache(h)
    <3> DEFINE r == [at |-> "idle", owner |-> NoUser, members |-> {}]
    <3>1. r \in HandlerRecords /\ r.at = "idle" /\ handlers' = [handlers EXCEPT ![h] = r]
      BY <2>3 DEF UnlocksCache, HandlerRecords
    <3>2. handlers[h].at = "scan" /\ holder' = [holder EXCEPT !["cache_m"] = Nobody]
      BY <2>3 DEF UnlocksCache, Unlocks, HandlerAt
    <3> HIDE DEF r
    <3>3. /\ handlers' \in [Handlers -> HandlerRecords]
          /\ \A g \in Handlers : handlers'[g].at # "idle" => handlers'[g].owner \in Users
          /\ holder' \in [Mutexes -> Threads \cup {Nobody}]
          /\ holder'["_oauth_states_m"] = holder["_oauth_states_m"]
          /\ HoldersOK'
      BY <2>1, <3>1, <3>2, HandlerMoves
    <3>4. EntryIsTimed'
      BY <2>1, EntriesKept DEF cacheVars
    <3> QED
      BY <1>2, <2>1, <3>3, <3>4, HandlersKeep DEF cacheVars
  <2> QED
    BY <1>4, <2>2, <2>3
<1>5. ASSUME NEW u \in Users, ClearsMember(h, u)
      PROVE  IInv'
  <2>1. /\ UNCHANGED <<holder, oauthVars, overtaken, loop, server, tasks, handlers, calls>>
        /\ holder["_timers_m"] = Nobody /\ cacheTimers' = WithoutTimer(cacheTimers, Guilds(u))
        /\ cached' = cached \ {Guilds(u)}
    BY <1>5 DEF ClearsMember, callVars, Free
  <2>2. /\ cacheTimers' \in Seq(Keys)
        /\ \A x : x # Guilds(u) /\ Contains(cacheTimers, x) => Contains(cacheTimers', x)
    BY <1>2, <2>1, WithoutTimerOK
  <2>3. EntryIsTimed'
    BY <2>1, <2>2 DEF IInv, EntryIsTimed, KeyOf
  <2>4. loop.at # "remove entry"
    BY <2>1 DEF IInv, TypeOK, HoldersOK, Nobody
  <2>5. HoldersOK' /\ holder' \in [Mutexes -> Threads \cup {Nobody}]
    BY <2>1 DEF IInv, TypeOK, HoldersOK, HandlerAt
  <2>6. \A g \in Handlers : handlers'[g].at # "idle" => handlers'[g].owner \in Users
    BY <2>1 DEF IInv, HaveUsers
  <2> QED
    BY <1>1, <1>2, <2>1, <2>2, <2>3, <2>4, <2>5, <2>6, HandlersKeep
<1> QED
  BY <1>3, <1>4, <1>5 DEF HandlerGoesOn

----------------------------------------------------------------------------
\* The main loop.

LoopRecords == [at : {"idle", "break?", "over?", "remove", "service", "cache", "remove entry"}, i : Nat \ {0}]

\* Positions of the main loop's iterator.
LEMMA Positions == 1 \in Nat \ {0} /\ \A n \in Nat \ {0} : n + 1 \in Nat \ {0}
  OBVIOUS

\* Changing one field of the main loop's place.
LEMMA LoopFields ==
    ASSUME loop \in LoopRecords,
           NEW a \in {"idle", "break?", "over?", "remove", "service", "cache", "remove entry"}
    PROVE  /\ [loop EXCEPT !.at = a] \in LoopRecords
           /\ [loop EXCEPT !.at = a].at = a /\ [loop EXCEPT !.at = a].i = loop.i
           /\ [at |-> a, i |-> 1] \in LoopRecords /\ [at |-> a, i |-> 1].at = a
           /\ [at |-> a, i |-> loop.i + 1] \in LoopRecords /\ [at |-> a, i |-> loop.i + 1].at = a
           /\ [loop EXCEPT !.i = loop.i + 1] \in LoopRecords
           /\ [loop EXCEPT !.i = loop.i + 1].at = loop.at
<1>1. [loop EXCEPT !.at = a] \in LoopRecords /\ [loop EXCEPT !.at = a].at = a /\ [loop EXCEPT !.at = a].i = loop.i
  BY DEF LoopRecords
<1>2. loop.i \in Nat \ {0}
  BY DEF LoopRecords
<1>3. \A n \in Nat \ {0} : [at |-> a, i |-> n] \in LoopRecords /\ [at |-> a, i |-> n].at = a
  BY DEF LoopRecords
<1>4. \A n \in Nat \ {0} : [loop EXCEPT !.i = n] \in LoopRecords /\ [loop EXCEPT !.i = n].at = loop.at
  BY DEF LoopRecords
<1>5. 1 \in Nat \ {0} /\ loop.i + 1 \in Nat \ {0}
  BY <1>2, Positions
<1> QED
  BY <1>1, <1>3, <1>4, <1>5

\* Where each step of the main loop comes from and goes to.
LEMMA LoopPlaces ==
    ASSUME loop \in LoopRecords, main_loop_routine
    PROVE  /\ loop' \in LoopRecords
           /\ check_timers => loop.at = "idle" /\ loop'.at = "break?"
           /\ should_break_oauth_states => loop.at = "break?" /\ loop'.at \in {"break?", "over?"} /\ loop'.i = loop.i
           /\ StateTimeRuns => loop.at = "over?" /\ loop'.at = "break?"
           /\ EndsState => loop.at = "remove" /\ loop'.at = "break?" /\ loop'.i = loop.i
           /\ StatesChecked => loop.at = "break?" /\ loop'.at = "service"
           /\ (\E s \in States : StateTimeOver(s)) => loop.at = "over?" /\ loop'.at = "remove" /\ loop'.i = loop.i
           /\ check_cache_timers => loop.at = "service" /\ loop'.at = "cache"
           /\ CacheTimeOver => loop.at = "cache" /\ loop'.at \in {"cache", "remove entry"}
                              /\ (loop'.at = "remove entry" => loop'.i = loop.i)
           /\ EndsEntry => loop.at = "remove entry" /\ loop'.at = "cache"
           /\ CacheChecked => loop.at = "cache" /\ loop'.at = "idle"
<1> DEFINE K == loop' \in LoopRecords
<1>1. ASSUME check_timers
      PROVE  K /\ loop.at = "idle" /\ loop'.at = "break?"
  <2>1. loop.at = "idle" /\ loop' = [at |-> "break?", i |-> 1]
    BY <1>1 DEF check_timers
  <2>2. [at |-> "break?", i |-> 1] \in LoopRecords /\ [at |-> "break?", i |-> 1].at = "break?"
    BY LoopFields
  <2> QED
    BY <2>1, <2>2
<1>2. ASSUME should_break_oauth_states
      PROVE  K /\ loop.at = "break?" /\ loop'.at \in {"break?", "over?"} /\ loop'.i = loop.i
  <2>1. loop.at = "break?" /\ loop' \in {loop, [loop EXCEPT !.at = "over?"]}
    BY <1>2 DEF should_break_oauth_states
  <2>2. [loop EXCEPT !.at = "over?"] \in LoopRecords /\ [loop EXCEPT !.at = "over?"].at = "over?" /\ [loop EXCEPT !.at = "over?"].i = loop.i
    BY LoopFields
  <2> QED
    BY <2>1, <2>2
<1>3. ASSUME StateTimeRuns
      PROVE  K /\ loop.at = "over?" /\ loop'.at = "break?"
  <2>1. loop.at = "over?" /\ loop' = [at |-> "break?", i |-> loop.i + 1]
    BY <1>3 DEF StateTimeRuns
  <2>2. [at |-> "break?", i |-> loop.i + 1] \in LoopRecords /\ [at |-> "break?", i |-> loop.i + 1].at = "break?"
    BY LoopFields
  <2> QED
    BY <2>1, <2>2
<1>4. ASSUME EndsState
      PROVE  K /\ loop.at = "remove" /\ loop'.at = "break?" /\ loop'.i = loop.i
  <2>1. loop.at = "remove" /\ loop' = [loop EXCEPT !.at = "break?"]
    BY <1>4 DEF EndsState
  <2>2. [loop EXCEPT !.at = "break?"] \in LoopRecords /\ [loop EXCEPT !.at = "break?"].at = "break?" /\ [loop EXCEPT !.at = "break?"].i = loop.i
    BY LoopFields
  <2> QED
    BY <2>1, <2>2
<1>5. StatesChecked => K /\ loop.at = "break?" /\ loop'.at = "service"
  <2>1. StatesChecked => loop.at = "break?" /\ loop' = [at |-> "service", i |-> 1]
    BY DEF StatesChecked
  <2> QED
    BY <2>1, LoopFields
<1>6. ASSUME NEW s \in States, StateTimeOver(s)
      PROVE  K /\ loop.at = "over?" /\ loop'.at = "remove" /\ loop'.i = loop.i
  BY <1>6, LoopFields DEF StateTimeOver
<1>7. check_cache_timers => K /\ loop.at = "service" /\ loop'.at = "cache"
  BY LoopFields DEF check_cache_timers
<1>8. CacheTimeOver => K /\ loop.at = "cache" /\ loop'.at \in {"cache", "remove entry"}
                      /\ (loop'.at = "remove entry" => loop'.i = loop.i)
  <2>1. CASE CacheTimeOver /\ loop' = [loop EXCEPT !.at = "remove entry"]
    BY <2>1, LoopFields DEF CacheTimeOver
  <2>2. CASE CacheTimeOver /\ loop' = [loop EXCEPT !.i = loop.i + 1]
    BY <2>2, LoopFields DEF CacheTimeOver
  <2> QED
    BY <2>1, <2>2 DEF CacheTimeOver
<1>9. EndsEntry => K /\ loop.at = "remove entry" /\ loop'.at = "cache"
  <2>1. EndsEntry => loop.at = "remove entry" /\ loop' = [loop EXCEPT !.at = "cache"]
    BY DEF EndsEntry
  <2> QED
    BY <2>1, LoopFields
<1>10. ASSUME CacheChecked
      PROVE  K /\ loop.at = "cache" /\ loop'.at = "idle"
  <2>1. loop.at = "cache" /\ loop' = [at |-> "idle", i |-> 1]
    BY <1>10 DEF CacheChecked
  <2>2. [at |-> "idle", i |-> 1] \in LoopRecords /\ [at |-> "idle", i |-> 1].at = "idle"
    BY LoopFields
  <2> QED
    BY <2>1, <2>2
<1> QED
  BY <1>1, <1>2, <1>3, <1>4, <1>5, <1>6, <1>7, <1>8, <1>9, <1>10 DEF main_loop_routine

\* What the main loop's steps leave alone.
LEMMA LoopKeeps ==
    ASSUME IInv, UNCHANGED <<unmade, overtaken, server, callVars>>,
           loop' \in LoopRecords,
           loop'.at \in {"over?", "remove"} => loop'.i <= Len(stateTimers'),
           loop'.at = "remove entry" => loop'.i <= Len(cacheTimers'),
           stateTimers' \in Seq(States), cacheTimers' \in Seq(Keys),
           states' \subseteq states, cached' \subseteq cached,
           holder' \in [Mutexes -> Threads \cup {Nobody}], HoldersOK',
           OneAtTimers', StateIsTimed', EntryIsTimed'
    PROVE  IInv'
<1>1. TypeOK'
  BY DEF IInv, TypeOK, callVars, LoopRecords
<1>2. HaveUsers'
  BY DEF IInv, HaveUsers, callVars
<1> QED
  BY <1>1, <1>2 DEF IInv

\* The loop takes a mutex, gives it up, or goes on with what it has.
LEMMA LoopMoves ==
    ASSUME IInv, UNCHANGED <<server, handlers>>,
           \/ /\ UNCHANGED holder
              /\ loop.at \in {"break?", "over?", "remove"} <=> loop'.at \in {"break?", "over?", "remove"}
              /\ loop.at \in {"cache", "remove entry"} <=> loop'.at \in {"cache", "remove entry"}
           \/ /\ loop.at = "idle" /\ loop'.at = "break?" /\ holder["oauth_timers_m"] = Nobody
              /\ holder' = [holder EXCEPT !["oauth_timers_m"] = "loop"]
           \/ /\ loop.at = "break?" /\ loop'.at = "service"
              /\ holder' = [holder EXCEPT !["oauth_timers_m"] = Nobody]
           \/ /\ loop.at = "service" /\ loop'.at = "cache"
              /\ holder' = [holder EXCEPT !["_timers_m"] = "loop"]
           \/ /\ loop.at = "cache" /\ loop'.at = "idle"
              /\ holder' = [holder EXCEPT !["_timers_m"] = Nobody]
    PROVE  /\ holder' \in [Mutexes -> Threads \cup {Nobody}]
           /\ holder'["_oauth_states_m"] = holder["_oauth_states_m"]
           /\ HoldersOK' /\ OneAtTimers'
<1>1. holder \in [Mutexes -> Threads \cup {Nobody}] /\ HoldersOK /\ OneAtTimers
  BY DEF IInv, TypeOK
<1>2. /\ holder' \in [Mutexes -> Threads \cup {Nobody}]
      /\ \A m \in Mutexes : m \notin {"oauth_timers_m", "_timers_m"} => holder'[m] = holder[m]
  <2>1. \/ holder' = holder
        \/ \E m \in {"oauth_timers_m", "_timers_m"}, x \in Threads \cup {Nobody} :
             holder' = [holder EXCEPT ![m] = x]
    BY DEF Threads
  <2> QED
    BY <1>1, <2>1
<1>3. OneAtTimers'
  BY <1>1 DEF OneAtTimers, LoopHolds, HoldersOK, Nobody
<1>4. holder'["oauth_timers_m"] = IF loop'.at \in {"break?", "over?", "remove"} THEN "loop"
                                  ELSE IF server'.at = "remove all" THEN "server" ELSE Nobody
  BY <1>1 DEF HoldersOK, OneAtTimers, LoopHolds, Mutexes, Nobody
<1>5. holder'["_timers_m"] = IF loop'.at \in {"cache", "remove entry"} THEN "loop" ELSE Nobody
  BY <1>1 DEF HoldersOK, Mutexes
<1>6. HoldersOK'
  BY <1>1, <1>2, <1>4, <1>5 DEF HoldersOK, HandlerAt, Mutexes
<1> QED
  BY <1>2, <1>3, <1>6 DEF Mutexes

\* The timers of the states: what is dropped has no state, or takes it along.
LEMMA StateTimersOK ==
    ASSUME IInv,
           \/ check_timers \/ should_break_oauth_states \/ StateTimeRuns \/ EndsState \/ StatesChecked
           \/ \E s \in States : StateTimeOver(s)
    PROVE  IInv'
<1>1. /\ UNCHANGED <<unmade, cacheVars, server, callVars>>
      /\ states' \subseteq states
  BY DEF check_timers, should_break_oauth_states, StateTimeRuns, EndsState, StatesChecked,
         StateTimeOver, oauthVars, remove_oauth_state
<1>2. loop \in LoopRecords
      /\ stateTimers \in Seq(States) /\ cacheTimers \in Seq(Keys) /\ Len(stateTimers) \in Nat
  BY LenProperties DEF IInv, TypeOK, LoopRecords
<1>3. /\ loop' \in LoopRecords
      /\ check_timers => loop.at = "idle" /\ loop'.at = "break?"
      /\ should_break_oauth_states => loop.at = "break?" /\ loop'.at \in {"break?", "over?"} /\ loop'.i = loop.i
      /\ StateTimeRuns => loop.at = "over?" /\ loop'.at = "break?"
      /\ EndsState => loop.at = "remove" /\ loop'.at = "break?" /\ loop'.i = loop.i
      /\ StatesChecked => loop.at = "break?" /\ loop'.at = "service"
      /\ (\E s \in States : StateTimeOver(s)) => loop.at = "over?" /\ loop'.at = "remove" /\ loop'.i = loop.i
  BY <1>2, LoopPlaces DEF main_loop_routine
<1>4. loop'.at # "remove entry"
  BY <1>3
<1>5. EntryIsTimed'
  BY <1>1, EntriesKept DEF cacheVars, callVars
<1>6. /\ holder' \in [Mutexes -> Threads \cup {Nobody}]
      /\ holder'["_oauth_states_m"] = holder["_oauth_states_m"]
      /\ HoldersOK' /\ OneAtTimers'
  <2>1. UNCHANGED <<server, handlers>>
    BY <1>1 DEF callVars
  <2>2. \/ /\ check_timers /\ holder["oauth_timers_m"] = Nobody
           /\ holder' = [holder EXCEPT !["oauth_timers_m"] = "loop"]
        \/ StatesChecked /\ holder' = [holder EXCEPT !["oauth_timers_m"] = Nobody]
        \/ /\ should_break_oauth_states \/ StateTimeRuns \/ EndsState \/ \E s \in States : StateTimeOver(s)
           /\ holder' = holder
    BY DEF check_timers, should_break_oauth_states, StateTimeRuns, EndsState, StatesChecked,
           StateTimeOver, Locks, Unlocks, Free
  <2> QED
    BY <1>3, <2>1, <2>2, LoopMoves
<1>7. CASE UNCHANGED <<states, stateTimers>>
  <2>1. loop'.at \in {"over?", "remove"} => loop'.i <= Len(stateTimers)
    <3>1. should_break_oauth_states => loop.i <= Len(stateTimers)
      BY DEF should_break_oauth_states
    <3>2. loop.at = "over?" => loop.i <= Len(stateTimers)
      BY DEF IInv, TypeOK
    <3> QED
      BY <1>3, <3>1, <3>2
  <2>2. StateIsTimed'
    BY <1>1, <1>6, <1>7, StatesKept
  <2> QED
    BY <1>1, <1>2, <1>3, <1>4, <1>5, <1>6, <1>7, <2>1, <2>2, LoopKeeps DEF cacheVars
<1>8. CASE ~UNCHANGED <<states, stateTimers>>
  <2>1. /\ stateTimers' = RemoveAt(stateTimers, loop.i) /\ loop.i \in 1..Len(stateTimers)
        /\ stateTimers[loop.i] \notin states' /\ loop'.at = "break?"
        /\ \A s \in states : s # stateTimers[loop.i] => s \in states'
    <3> loop.i \in Nat \ {0}
      BY <1>2 DEF LoopRecords
    <3>1. CASE should_break_oauth_states
      <4>1. /\ loop.i <= Len(stateTimers) /\ states' = states
            /\ stateTimers' = RemoveAt(stateTimers, loop.i) /\ stateTimers[loop.i] \notin states
            /\ loop' = loop
        BY <1>8, <3>1 DEF should_break_oauth_states
      <4> QED
        BY <1>2, <1>3, <3>1, <4>1
    <3>2. CASE EndsState
      <4>1. /\ loop.at = "remove" /\ states' = states \ {stateTimers[loop.i]}
            /\ stateTimers' = RemoveAt(stateTimers, loop.i)
        BY <3>2 DEF EndsState, remove_oauth_state
      <4>2. loop.i <= Len(stateTimers)
        BY <4>1 DEF IInv, TypeOK
      <4> QED
        BY <1>2, <1>3, <3>2, <4>1, <4>2
    <3>3. CASE ~should_break_oauth_states /\ ~EndsState
      BY <1>8, <3>3 DEF check_timers, StateTimeRuns, StatesChecked, StateTimeOver, oauthVars
    <3> QED
      BY <3>1, <3>2, <3>3
  <2>2. /\ stateTimers' \in Seq(States)
        /\ \A x : x # stateTimers[loop.i] /\ Contains(stateTimers, x) => Contains(stateTimers', x)
    BY <1>2, <2>1, TimerTakenOut
  <2>3. StateIsTimed'
    BY <1>1, <1>6, <2>1, <2>2 DEF IInv, StateIsTimed
  <2> QED
    BY <1>1, <1>2, <1>3, <1>4, <1>5, <1>6, <2>1, <2>2, <2>3, LoopKeeps DEF cacheVars
<1> QED
  BY <1>7, <1>8

\* The timers of the cache: what is dropped takes its key's entry along.
LEMMA CacheTimersOK ==
    ASSUME IInv, check_cache_timers \/ CacheTimeOver \/ EndsEntry \/ CacheChecked
    PROVE  IInv'
<1>1. UNCHANGED <<oauthVars, overtaken, server, callVars>> /\ cached' \subseteq cached
  BY DEF check_cache_timers, CacheTimeOver, EndsEntry, CacheChecked, cacheVars
<1>2. loop \in LoopRecords
      /\ stateTimers \in Seq(States) /\ cacheTimers \in Seq(Keys) /\ Len(cacheTimers) \in Nat
  BY LenProperties DEF IInv, TypeOK, LoopRecords
<1>3. /\ loop' \in LoopRecords
      /\ check_cache_timers => loop.at = "service" /\ loop'.at = "cache"
      /\ CacheTimeOver => loop.at = "cache" /\ loop'.at \in {"cache", "remove entry"}
                         /\ (loop'.at = "remove entry" => loop'.i = loop.i)
      /\ EndsEntry => loop.at = "remove entry" /\ loop'.at = "cache"
      /\ CacheChecked => loop.at = "cache" /\ loop'.at = "idle"
      /\ loop'.at \notin {"over?", "remove"}
  BY <1>2, LoopPlaces DEF main_loop_routine
<1>4. /\ holder' \in [Mutexes -> Threads \cup {Nobody}]
      /\ holder'["_oauth_states_m"] = holder["_oauth_states_m"]
      /\ HoldersOK' /\ OneAtTimers'
  <2>1. UNCHANGED <<server, handlers>>
    BY <1>1 DEF callVars
  <2>2. \/ check_cache_timers /\ holder' = [holder EXCEPT !["_timers_m"] = "loop"]
        \/ CacheChecked /\ holder' = [holder EXCEPT !["_timers_m"] = Nobody]
        \/ (CacheTimeOver \/ EndsEntry) /\ holder' = holder
    BY DEF check_cache_timers, CacheTimeOver, EndsEntry, CacheChecked, Locks, Unlocks, Free
  <2> QED
    BY <1>3, <2>1, <2>2, LoopMoves
<1>5. StateIsTimed'
  BY <1>1, <1>4, StatesKept DEF oauthVars
<1>6. CASE EndsEntry
  <2>1. /\ cacheTimers' = RemoveAt(cacheTimers, loop.i) /\ loop.i \in 1..Len(cacheTimers)
        /\ cached' = cached \ {cacheTimers[loop.i]} /\ loop'.at = "cache"
    <3>1. /\ loop.at = "remove entry" /\ cached' = cached \ {cacheTimers[loop.i]}
          /\ cacheTimers' = RemoveAt(cacheTimers, loop.i)
      BY <1>6 DEF EndsEntry
    <3>2. loop.i <= Len(cacheTimers) /\ loop.i \in Nat \ {0}
      BY <1>2, <3>1 DEF IInv, TypeOK, LoopRecords
    <3>3. loop.i \in 1..Len(cacheTimers)
      BY <1>2, <3>2
    <3> QED
      BY <1>3, <1>6, <3>1, <3>3
  <2>2. /\ cacheTimers' \in Seq(Keys)
        /\ \A x : x # cacheTimers[loop.i] /\ Contains(cacheTimers, x) => Contains(cacheTimers', x)
    BY <1>2, <2>1, TimerTakenOut
  <2>3. EntryIsTimed'
    BY <1>1, <2>1, <2>2 DEF IInv, EntryIsTimed, KeyOf, callVars
  <2> QED
    BY <1>1, <1>2, <1>3, <1>4, <1>5, <2>1, <2>2, <2>3, LoopKeeps DEF oauthVars
<1>7. CASE ~EndsEntry
  <2>1. UNCHANGED <<cached, cacheTimers>>
    BY <1>7 DEF check_cache_timers, CacheTimeOver, CacheChecked, cacheVars
  <2>2. loop'.at = "remove entry" => loop'.i <= Len(cacheTimers)
    <3>1. CacheTimeOver => loop.i <= Len(cacheTimers)
      BY DEF CacheTimeOver
    <3> QED
      BY <1>3, <1>7, <3>1
  <2>3. EntryIsTimed'
    BY <1>1, <2>1, EntriesKept DEF callVars
  <2> QED
    BY <1>1, <1>2, <1>3, <1>4, <1>5, <2>1, <2>2, <2>3, LoopKeeps DEF oauthVars
<1> QED
  BY <1>6, <1>7

----------------------------------------------------------------------------
\* Every step keeps the invariant.
LEMMA StepOK == IInv /\ [Next]_vars => IInv'
<1> SUFFICES ASSUME IInv, [Next]_vars PROVE IInv'
  OBVIOUS
<1>1. CASE Serve
  BY <1>1, GenerateOK, ServeOK, RemoveAllOK DEF Serve
<1>2. CASE ServerGoesOn
  BY <1>2, RegisterOK, RemoveAllOK DEF ServerGoesOn
<1>3. CASE \E t \in Tasks : Task(t)
  BY <1>3, TaskOK
<1>4. CASE \E h \in Handlers, u \in Users, members \in SUBSET Users : GuildEvent(h, u, members)
  BY <1>4, GuildEventOK
<1>5. CASE \E h \in Handlers : HandlerGoesOn(h)
  BY <1>5, HandlerOK
<1>6. CASE main_loop_routine
  BY <1>6, StateTimersOK, CacheTimersOK DEF main_loop_routine
<1>7. CASE UNCHANGED vars
  <2>1. UNCHANGED <<holder, states, unmade, stateTimers, cached, cacheTimers, overtaken, loop, server,
                    tasks, handlers, calls>>
    BY <1>7 DEF vars, oauthVars, cacheVars, callVars
  <2>2. TypeOK'
    BY <2>1 DEF IInv, TypeOK, HoldersOK, HandlerAt
  <2>3. HaveUsers' /\ OneAtTimers'
    BY <2>1 DEF IInv, HaveUsers, OneAtTimers, LoopHolds
  <2> QED
    BY <2>1, <2>2, <2>3, StatesKept, EntriesKept DEF IInv
<1> QED
  BY <1>1, <1>2, <1>3, <1>4, <1>5, <1>6, <1>7 DEF Next

\* The invariant holds of every behaviour.
LEMMA IInvHolds == Spec => []IInv
  BY InitOK, StepOK, PTL DEF Spec

\* Each mutex is held by the thread that is where it holds it, the main loop's
\* iterator points into its list, and every table keeps its type.
THEOREM TypeCorrect == Spec => []TypeOK
<1>1. IInv => TypeOK
  BY DEF IInv
<1> QED
  BY <1>1, IInvHolds, PTL

\* Every OAuth state that was given out has a timer (states.cpp:61), in whatever
\* order the server, the logins and the main loop come.
THEOREM StatesCorrect == Spec => []StateIsTimed
<1>1. IInv => StateIsTimed
  BY DEF IInv
<1> QED
  BY <1>1, IInvHolds, PTL

\* Every cached answer has a timer or is about to get one (service_cache.cpp:62),
\* but for those a guild event overtook.
THEOREM EntriesCorrect == Spec => []EntryIsTimed
<1>1. IInv => EntryIsTimed
  BY DEF IInv
<1> QED
  BY <1>1, IInvHolds, PTL

----------------------------------------------------------------------------
\* Who waits for whom.  StatesEnd lets the states stay when two threads hold what
\* the other needs; that is as far as the exception goes.

\* Thread a holds a mutex and needs another, which thread b holds.
Waits(a, b) == \E m \in Mutexes : Needs(a, m) /\ holder[m] = b

\* The thread that makes a state and the main loop, at the states' timers.
StatesRing ==
    /\ server.at = "register"
    /\ loop.at = "remove" \/ (loop.at = "break?" /\ loop.i <= Len(stateTimers))

\* The main loop, at the cache's timers, and the handler h, in the cache.
CacheRing(h) ==
    /\ loop.at = "remove entry"
    /\ HandlerAt(h, "scan")
    /\ \E u \in handlers[h].members : Guilds(u) \in cached

\* Whom the server's thread waits for, and where it is then.
LEMMA ServerWaits ==
    ASSUME IInv, NEW b \in Threads, Waits("server", b)
    PROVE  /\ server.at = "register" /\ b = "loop"
           /\ loop.at \in {"break?", "over?", "remove"}
<1>1. PICK m \in Mutexes : Needs("server", m) /\ holder[m] = b
  BY DEF Waits
<1>2. \/ server.at = "register" /\ m = "oauth_timers_m"
      \/ server.at = "remove all" /\ m = "_oauth_states_m"
  BY <1>1 DEF Needs
<1>3. b # Nobody
  BY ConstantsAssumption DEF Threads, Nobody
<1>4. HoldersOK
  BY DEF IInv, TypeOK
<1> QED
  BY <1>1, <1>2, <1>3, <1>4 DEF HoldersOK

\* Whom the main loop waits for.
LEMMA LoopWaits ==
    ASSUME IInv, NEW b \in Threads, Waits("loop", b)
    PROVE  \/ b = "server" /\ StatesRing
           \/ b \in Handlers /\ HandlerAt(b, "scan") /\ loop.at = "remove entry"
<1>1. PICK m \in Mutexes : Needs("loop", m) /\ holder[m] = b
  BY DEF Waits
<1>2. \/ /\ loop.at = "remove" \/ (loop.at = "break?" /\ loop.i <= Len(stateTimers))
         /\ m = "_oauth_states_m"
      \/ loop.at = "remove entry" /\ m = "cache_m"
  BY <1>1 DEF Needs
<1>3. b # Nobody
  BY ConstantsAssumption DEF Threads, Nobody
<1>4. HoldersOK
  BY DEF IInv, TypeOK
<1>5. CASE m = "_oauth_states_m"
  BY <1>1, <1>2, <1>3, <1>4, <1>5 DEF HoldersOK, StatesRing
<1>6. CASE m = "cache_m"
  BY <1>1, <1>2, <1>3, <1>4, <1>6 DEF HoldersOK
<1> QED
  BY <1>2, <1>5, <1>6

\* Whom a handler waits for.
LEMMA HandlerWaits ==
    ASSUME IInv, NEW h \in Handlers, NEW b \in Threads, Waits(h, b)
    PROVE  /\ b = "loop" /\ loop.at \in {"cache", "remove entry"}
           /\ HandlerAt(h, "scan") /\ holder["cache_m"] = h
           /\ \E u \in handlers[h].members : Guilds(u) \in cached
<1>1. PICK m \in Mutexes : Needs(h, m) /\ holder[m] = b
  BY DEF Waits
<1>2. h # "loop" /\ h # "server"
  BY ConstantsAssumption
<1>3. /\ HandlerAt(h, "scan") /\ m = "_timers_m"
      /\ \E u \in handlers[h].members : Guilds(u) \in cached
  BY <1>1, <1>2 DEF Needs
<1>4. b # Nobody
  BY ConstantsAssumption DEF Threads, Nobody
<1>5. HoldersOK
  BY DEF IInv, TypeOK
<1> QED
  BY <1>1, <1>3, <1>4, <1>5 DEF HoldersOK

\* Two threads that wait for each other are deadlocked, and the other way round.
LEMMA DeadlockedPair ==
    Deadlocked <=> \E a, b \in Threads : a # b /\ Waits(a, b) /\ Waits(b, a)
  BY DEF Deadlocked, Waits

\* The two rings are the deadlocks.
LEMMA RingsAreDeadlocks ==
    ASSUME IInv
    PROVE  Deadlocked <=> StatesRing \/ \E h \in Handlers : CacheRing(h)
<1>1. HoldersOK
  BY DEF IInv, TypeOK
<1>2. /\ "server" \in Threads /\ "loop" \in Threads /\ Handlers \subseteq Threads
      /\ \A b \in Threads : b \in {"server", "loop"} \cup Handlers
      /\ \A h \in Handlers : h # "loop" /\ h # "server"
  BY ConstantsAssumption DEF Threads
<1>3. ASSUME StatesRing
      PROVE  Deadlocked
  <2>1. holder["_oauth_states_m"] = "server" /\ holder["oauth_timers_m"] = "loop"
    BY <1>1, <1>3 DEF HoldersOK, StatesRing
  <2>2. Needs("server", "oauth_timers_m") /\ Needs("loop", "_oauth_states_m")
    BY <1>3 DEF StatesRing, Needs
  <2>3. Waits("server", "loop") /\ Waits("loop", "server")
    BY <2>1, <2>2 DEF Waits, Mutexes
  <2> QED
    BY <1>2, <2>3, DeadlockedPair
<1>4. ASSUME NEW h \in Handlers, CacheRing(h)
      PROVE  Deadlocked
  <2>1. holder["cache_m"] = h /\ holder["_timers_m"] = "loop"
    BY <1>1, <1>4 DEF HoldersOK, CacheRing
  <2>2. Needs("loop", "cache_m")
    BY <1>4 DEF CacheRing, Needs
  <2>3. Needs(h, "_timers_m")
    BY <1>2, <1>4 DEF CacheRing, Needs
  <2>4. Waits("loop", h) /\ Waits(h, "loop")
    BY <2>1, <2>2, <2>3 DEF Waits, Mutexes
  <2> QED
    BY <1>2, <2>4, DeadlockedPair
<1>5. ASSUME NEW a \in Threads, NEW b \in Threads, Waits(a, b), Waits(b, a)
      PROVE  StatesRing \/ \E h \in Handlers : CacheRing(h)
  <2>1. CASE a = "server"
    <3>1. b = "loop"
      BY <1>5, <2>1, ServerWaits
    <3> QED
      BY <1>2, <1>5, <2>1, <3>1, LoopWaits
  <2>2. CASE b = "server"
    <3>1. a = "loop"
      BY <1>5, <2>2, ServerWaits
    <3> QED
      BY <1>2, <1>5, <2>2, <3>1, LoopWaits
  <2>3. CASE a \in Handlers
    <3>1. b = "loop" /\ HandlerAt(a, "scan") /\ \E u \in handlers[a].members : Guilds(u) \in cached
      BY <1>5, <2>3, HandlerWaits
    <3>2. loop.at = "remove entry"
      BY <1>2, <1>5, <2>3, <3>1, LoopWaits
    <3> QED
      BY <2>3, <3>1, <3>2 DEF CacheRing
  <2>4. CASE b \in Handlers
    <3>1. a = "loop" /\ HandlerAt(b, "scan") /\ \E u \in handlers[b].members : Guilds(u) \in cached
      BY <1>5, <2>4, HandlerWaits
    <3>2. loop.at = "remove entry"
      BY <1>2, <1>5, <2>4, <3>1, LoopWaits
    <3> QED
      BY <2>4, <3>1, <3>2 DEF CacheRing
  <2>5. CASE a = "loop" /\ b = "loop"
    BY <1>2, <1>5, <2>5, LoopWaits
  <2> QED
    BY <1>2, <2>1, <2>2, <2>3, <2>4, <2>5
<1> QED
  BY <1>3, <1>4, <1>5, DeadlockedPair

\* No thread waits behind another that waits, but for the two that wait for each
\* other.
OnlyPairsWait == \A a, b \in Threads : Waits(a, b) => Deadlocked \/ \A c \in Threads : ~Waits(b, c)

LEMMA ChainsAreRings == IInv => OnlyPairsWait
<1> SUFFICES ASSUME IInv, NEW a \in Threads, NEW b \in Threads, NEW c \in Threads,
                    Waits(a, b), Waits(b, c)
             PROVE  Deadlocked
  BY DEF OnlyPairsWait
<1>1. \A x \in Threads : x \in {"server", "loop"} \cup Handlers
  BY DEF Threads
<1>2. \A h \in Handlers : h # "loop" /\ h # "server"
  BY ConstantsAssumption
<1>3. CASE a = "server"
  <2>1. b = "loop" /\ server.at = "register" /\ loop.at # "remove entry"
    BY <1>3, ServerWaits
  <2>2. StatesRing
    BY <2>1, LoopWaits
  <2> QED
    BY <2>2, RingsAreDeadlocks
<1>4. CASE a = "loop" /\ b = "server"
  <2>1. StatesRing
    BY <1>2, <1>4, LoopWaits
  <2> QED
    BY <2>1, RingsAreDeadlocks
<1>5. CASE a = "loop" /\ b \in Handlers
  <2>1. loop.at = "remove entry"
    BY <1>2, <1>5, LoopWaits
  <2>2. HandlerAt(b, "scan") /\ \E u \in handlers[b].members : Guilds(u) \in cached
    BY <1>5, HandlerWaits
  <2> QED
    BY <1>5, <2>1, <2>2, RingsAreDeadlocks DEF CacheRing
<1>6. CASE a = "loop" /\ b = "loop"
  BY <1>2, <1>6, LoopWaits
<1>7. CASE a \in Handlers
  <2>1. /\ b = "loop" /\ loop.at \in {"cache", "remove entry"} /\ HandlerAt(a, "scan")
        /\ \E u \in handlers[a].members : Guilds(u) \in cached
    BY <1>7, HandlerWaits
  <2>2. ~StatesRing
    BY <2>1 DEF StatesRing
  <2>3. loop.at = "remove entry"
    BY <2>1, <2>2, LoopWaits
  <2> QED
    BY <1>7, <2>1, <2>3, RingsAreDeadlocks DEF CacheRing
<1> QED
  BY <1>1, <1>3, <1>4, <1>5, <1>6, <1>7

\* Whoever holds a mutex that another thread needs (the server's thread, the main
\* loop, the handlers of guild events; states.cpp:22, service_cache.cpp:157) is not
\* itself waiting for one, unless two of them wait for each other: there is no
\* longer chain and no longer ring of threads, however many handlers run.
THEOREM OnlyPairsCorrect == Spec => []OnlyPairsWait
  BY IInvHolds, ChainsAreRings, PTL

----------------------------------------------------------------------------
\* The ring at the states' timers stays: neither thread gives its mutex up, and
\* nobody else touches the timers without it.
LEMMA StatesRingStays ==
    ASSUME IInv, Next, StatesRing
    PROVE  StatesRing'
<1>1. /\ holder["_oauth_states_m"] # Nobody /\ holder["oauth_timers_m"] # Nobody
      /\ server.at = "register" /\ loop.at \in {"break?", "remove"}
      /\ loop.at = "break?" => loop.i <= Len(stateTimers)
  BY DEF IInv, TypeOK, HoldersOK, StatesRing, Nobody
<1>2. loop.i \in Nat /\ Len(stateTimers) \in Nat
  BY LenProperties DEF IInv, TypeOK
<1>3. ~(Serve \/ ServerGoesOn)
  BY <1>1 DEF Serve, ServerGoesOn, generate_oauth_state, PostLogin, PostLogout, GetGuilds,
              remove_all_timers, register_timer, RemovesTimer, Free
<1>4. ~main_loop_routine
  <2>1. ~(check_timers \/ should_break_oauth_states \/ StateTimeRuns \/ EndsState)
    BY <1>1 DEF check_timers, should_break_oauth_states, StateTimeRuns, EndsState,
                remove_oauth_state, Free
  <2>2. ~StatesChecked
    BY <1>1, <1>2 DEF StatesChecked
  <2>3. ~(\/ \E s \in States : StateTimeOver(s)
          \/ check_cache_timers \/ CacheTimeOver \/ EndsEntry \/ CacheChecked)
    BY <1>1 DEF StateTimeOver, check_cache_timers, CacheTimeOver, EndsEntry, CacheChecked
  <2> QED
    BY <2>1, <2>2, <2>3 DEF main_loop_routine
<1>5. UNCHANGED <<stateTimers, loop, server>>
  <2>1. CASE \E t \in Tasks : Task(t)
    BY <2>1 DEF Task, get_cached_user_auth, Fetched, set, remove_invalidate_timer,
                create_invalidate_timer, oauthVars
  <2>2. CASE \E h \in Handlers, u \in Users, members \in SUBSET Users : GuildEvent(h, u, members)
    BY <2>2 DEF GuildEvent, oauthVars
  <2>3. CASE \E h \in Handlers : HandlerGoesOn(h)
    BY <2>3 DEF HandlerGoesOn, UntimesOwner, LocksCache, ClearsMember, UnlocksCache, oauthVars
  <2> QED
    BY <1>3, <1>4, <2>1, <2>2, <2>3 DEF Next
<1> QED
  BY <1>5 DEF StatesRing

\* The ring at the cache stays: nobody else puts an entry in or takes one out, and
\* the handler does not leave the cache while there is one to clear.
LEMMA CacheRingStays ==
    ASSUME IInv, Next, NEW h \in Handlers, CacheRing(h)
    PROVE  CacheRing(h)'
<1>1. HoldersOK /\ handlers \in [Handlers -> [at : {"idle", "untime", "lock", "scan"},
                                              owner : Users \cup {NoUser}, members : SUBSET Users]]
  BY DEF IInv, TypeOK
<1>2. h # Nobody
  BY ConstantsAssumption DEF Nobody
<1>3. /\ holder["cache_m"] = h /\ ~Free("cache_m") /\ ~Free("_timers_m")
      /\ loop.at = "remove entry" /\ HandlerAt(h, "scan")
  BY <1>1, <1>2 DEF HoldersOK, CacheRing, Free, Nobody
<1>4. ~main_loop_routine
  BY <1>3 DEF main_loop_routine, check_timers, should_break_oauth_states, StateTimeRuns, EndsState,
              StatesChecked, StateTimeOver, check_cache_timers, CacheTimeOver, EndsEntry, CacheChecked
<1>5. ~(\E k \in Handlers : HandlerGoesOn(k))
  <2>1. ASSUME NEW k \in Handlers, UnlocksCache(k)
        PROVE  FALSE
    <3>1. k = h
      BY <1>1, <1>3, <2>1 DEF UnlocksCache, HoldersOK
    <3> QED
      BY <2>1, <3>1 DEF UnlocksCache, CacheRing
  <2>2. ASSUME NEW k \in Handlers
        PROVE  ~(UntimesOwner(k) \/ LocksCache(k) \/ \E u \in Users : ClearsMember(k, u))
    BY <1>3 DEF UntimesOwner, LocksCache, Locks, ClearsMember
  <2> QED
    BY <2>1, <2>2 DEF HandlerGoesOn
<1>6. ~(\E k \in Handlers, u \in Users, members \in SUBSET Users : GuildEvent(k, u, members))
  BY <1>3 DEF GuildEvent
<1>7. UNCHANGED <<cached, loop, handlers>>
  <2>1. CASE Serve
    BY <1>3, <2>1 DEF Serve, generate_oauth_state, MakesState, PostLogin, PostLogout, GetGuilds,
                      remove_all_timers, cacheVars, callVars
  <2>2. CASE ServerGoesOn
    BY <2>2 DEF ServerGoesOn, register_timer, RemovesTimer, cacheVars, callVars
  <2>3. CASE \E t \in Tasks : Task(t)
    BY <1>3, <2>3 DEF Task, get_cached_user_auth, Fetched, set, remove_invalidate_timer,
                      create_invalidate_timer, cacheVars
  <2> QED
    BY <1>4, <1>5, <1>6, <2>1, <2>2, <2>3 DEF Next
<1> QED
  BY <1>7 DEF CacheRing, HandlerAt

\* Two threads of the server's tables that are deadlocked (states.cpp:22 takes the
\* states' mutex and then the timers', the main loop takes them the other way round;
\* service_cache.cpp:157 and the main loop likewise) stay so: no step of any other
\* thread frees them.
THEOREM DeadlockIsFinal == Spec => [][Deadlocked => Deadlocked']_vars
<1> DEFINE Ring == StatesRing \/ \E h \in Handlers : CacheRing(h)
<1>1. IInv => (Deadlocked <=> Ring)
  BY RingsAreDeadlocks
<1>2. IInv /\ [Next]_vars => [Ring => Ring']_vars
  <2> SUFFICES ASSUME IInv, Next, Ring PROVE Ring'
    OBVIOUS
  <2>1. CASE StatesRing
    BY <2>1, StatesRingStays
  <2>2. CASE \E h \in Handlers : CacheRing(h)
    <3>1. PICK h \in Handlers : CacheRing(h)
      BY <2>2
    <3>2. CacheRing(h)'
      BY <3>1, CacheRingStays
    <3> QED
      BY <3>2
  <2> QED
    BY <2>1, <2>2
<1> HIDE DEF Ring
<1> QED
  BY <1>1, <1>2, IInvHolds, PTL DEF Spec
=============================================================================
