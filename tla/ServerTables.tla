---------------------------- MODULE ServerTables ----------------------------
(***************************************************************************)
(* The tables of the dashboard server that several threads share: the      *)
(* OAuth states with the timers that end them, and the cached answers of   *)
(* Discord with theirs.  Each table and each list of timers has a mutex.   *)
(* The server's thread, the tasks it starts, the handlers of guild events  *)
(* and the main loop take them, some of them one inside another and not    *)
(* always in the same order.                                               *)
(*                                                                         *)
(* A critical section that takes one mutex is one step; one that takes a   *)
(* second mutex inside it is a sequence of steps, and `holder' says who    *)
(* has the outer one.                                                      *)
(*                                                                         *)
(* Definitions named X_<what> are X with a plausible mistake; no           *)
(* specification uses them.                                                *)
(***************************************************************************)
EXTENDS Integers, Sequences, SequencesExt, FiniteSets

CONSTANTS
    States,     \* the random strings that generate_oauth_state may make
    Users,
    Tasks,      \* threads of the pool, for requests that the server hands over
    Handlers,   \* threads of the pool, for guild events
    MaxCalls    \* bound: requests handed to tasks, and guild events

ASSUME ConstantsAssumption ==
    /\ MaxCalls \in Nat
    /\ "loop" \notin Handlers /\ "server" \notin Handlers /\ "nobody" \notin Handlers
    /\ "no state" \notin States

VARIABLES
    holder,     \* who holds each mutex across steps
    states,     \* _oauth_states
    unmade,     \* the strings not made yet: they never come twice
    stateTimers,    \* _oauth_timers: what each of them ends
    cached,     \* _cache: the keys with an entry
    cacheTimers,    \* service_cache's _timers
    loop,       \* the thread in main_loop: where it is, and its iterator
    server,     \* the server's thread: where it is, and the state it makes
    tasks,      \* each task: where it is, for whom, and the key it puts in
    handlers,   \* each handler: where it is, the owner and the members
    calls,      \* the number of requests handed over and of events so far
    overtaken   \* history: keys whose timer a guild event removed from under
                \* an entry put in since that event removed the former one

oauthVars == <<states, unmade, stateTimers>>
cacheVars == <<cached, cacheTimers, overtaken>>
callVars  == <<tasks, handlers, calls>>
vars == <<holder, oauthVars, cacheVars, loop, server, callVars>>

Mutexes == {"_oauth_states_m", "oauth_timers_m", "cache_m", "_timers_m"}
Threads == {"loop", "server"} \cup Handlers
Nobody == "nobody"
NoState == "no state"
NoUser == "no user"

\* The keys "<user>/auth" and "<user>/get_user_guilds".
Keys == Users \X {"auth", "guilds"}
Auth(u) == <<u, "auth">>
Guilds(u) == <<u, "guilds">>

At(t, where) == tasks[t].at = where

Init ==
    /\ holder = [m \in Mutexes |-> Nobody]
    /\ states = {}
    /\ unmade = States
    /\ stateTimers = <<>>
    /\ cached = {}
    /\ cacheTimers = <<>>
    /\ loop = [at |-> "idle", i |-> 1]
    /\ server = [at |-> "idle", state |-> NoState]
    /\ tasks = [t \in Tasks |-> [at |-> "idle", user |-> NoUser, key |-> "auth"]]
    /\ handlers = [h \in Handlers |-> [at |-> "idle", owner |-> NoUser, members |-> {}]]
    /\ calls = 0
    /\ overtaken = {}

Free(m) == holder[m] = Nobody
Locks(th, m) == Free(m) /\ holder' = [holder EXCEPT ![m] = th]
Unlocks(m) == holder' = [holder EXCEPT ![m] = Nobody]

----------------------------------------------------------------------------
(***************************************************************************)
(* The server's thread.                                                    *)
(***************************************************************************)

\* generate_oauth_state, up to register_timer, with the mutex of the states held.
MakesState(s) ==
    /\ Locks("server", "_oauth_states_m")
    /\ states' = states \cup {s}
    /\ unmade' = unmade \ {s}
    /\ server' = [at |-> "register", state |-> s]
    /\ UNCHANGED <<stateTimers, cacheVars, loop, callVars>>

generate_oauth_state ==
    /\ server.at = "idle"
    /\ \E s \in unmade : MakesState(s)

\* The timers with one more, unless it is there.
Registered(timers, t) == IF Contains(timers, t) THEN timers ELSE Append(timers, t)

\* register_timer, for the state just made, and the end of generate_oauth_state.
register_timer ==
    /\ server.at = "register"
    /\ Free("oauth_timers_m")
    /\ stateTimers' = Registered(stateTimers, server.state)
    /\ Unlocks("_oauth_states_m")
    /\ server' = [at |-> "idle", state |-> NoState]
    /\ UNCHANGED <<states, unmade, cacheVars, loop, callVars>>

\* remove_oauth_state: whether the state was known.
remove_oauth_state(s) ==
    /\ Free("_oauth_states_m")
    /\ states' = states \ {s}

Called == calls < MaxCalls /\ calls' = calls + 1

StartsTask(t, where, u, k) ==
    /\ At(t, "idle")
    /\ Called
    /\ tasks' = [tasks EXCEPT ![t] = [at |-> where, user |-> u, key |-> k]]

\* handle_post_login_body, for a state that was given out.  A wrong body may end
\* the request after the state is taken.
PostLogin(s) ==
    /\ server.at = "idle"
    /\ remove_oauth_state(s)
    /\ \/ s \in states /\ \E t \in Tasks, u \in Users : StartsTask(t, "set", u, "auth")
       \/ UNCHANGED <<tasks, calls>>
    /\ UNCHANGED <<holder, unmade, stateTimers, cacheVars, loop, server, handlers>>

\* post_logout: the entry goes, its timer stays.
PostLogout(u) ==
    /\ server.at = "idle"
    /\ Free("cache_m")
    /\ cached' = cached \ {Auth(u)}
    /\ UNCHANGED <<holder, oauthVars, cacheTimers, overtaken, loop, server, callVars>>

\* get_guilds: answered from the cache, or by a task.
GetGuilds(u) ==
    /\ server.at = "idle"
    /\ Free("cache_m")
    /\ Guilds(u) \notin cached
    /\ \E t \in Tasks : StartsTask(t, "auth", u, "guilds")
    /\ UNCHANGED <<holder, oauthVars, cacheVars, loop, server, handlers>>

\* remove_all_timers, which server::shutdown has the server's thread run before it
\* closes.
remove_all_timers ==
    /\ server.at = "idle"
    /\ Locks("server", "oauth_timers_m")
    /\ server' = [server EXCEPT !.at = "remove all"]
    /\ UNCHANGED <<oauthVars, cacheVars, loop, callVars>>

RemovesTimer ==
    /\ server.at = "remove all"
    /\ IF stateTimers = <<>>
         THEN /\ Unlocks("oauth_timers_m")
              /\ server' = [server EXCEPT !.at = "closed"]
              /\ UNCHANGED <<states, stateTimers>>
         ELSE /\ remove_oauth_state(Head(stateTimers))
              /\ stateTimers' = Tail(stateTimers)
              /\ UNCHANGED <<holder, server>>
    /\ UNCHANGED <<unmade, cacheVars, loop, callVars>>

----------------------------------------------------------------------------
(***************************************************************************)
(* The cache.  A setter puts its entry in, removes the key's timer and     *)
(* starts another, each under a mutex of its own.                          *)
(***************************************************************************)

\* remove_invalidate_timer: the first timer of the key.
WithoutTimer(timers, k) == RemoveFirst(timers, k)

Goes(t, where) == tasks' = [tasks EXCEPT ![t].at = where]
KeyOf(t) == <<tasks[t].user, tasks[t].key>>

\* A task of get_guilds reads the authorisation: found in the cache, or read from
\* the database and put there.
get_cached_user_auth(t) ==
    /\ At(t, "auth")
    /\ Free("cache_m")
    /\ tasks' = [tasks EXCEPT ![t].at = IF Auth(tasks[t].user) \in cached THEN "fetch" ELSE "set",
                              ![t].key = IF Auth(tasks[t].user) \in cached THEN "guilds" ELSE "auth",
                              ![t].user = tasks[t].user]
    /\ UNCHANGED <<holder, oauthVars, cacheVars, loop, server, handlers, calls>>

\* The answer of discord_get_user_guilds, or its failure.
Fetched(t) ==
    /\ At(t, "fetch")
    /\ Goes(t, "set") \/ Goes(t, "idle")
    /\ UNCHANGED <<holder, oauthVars, cacheVars, loop, server, handlers, calls>>

\* set, called by set_cached_user_auth and set_cached_user_guilds.
set(t) ==
    /\ At(t, "set")
    /\ Free("cache_m")
    /\ cached' = cached \cup {KeyOf(t)}
    /\ overtaken' = overtaken \ {KeyOf(t)}
    /\ Goes(t, "untime")
    /\ UNCHANGED <<holder, oauthVars, cacheTimers, loop, server, handlers, calls>>

\* create_invalidate_timer, up to its lock.
remove_invalidate_timer(t) ==
    /\ At(t, "untime")
    /\ Free("_timers_m")
    /\ cacheTimers' = WithoutTimer(cacheTimers, KeyOf(t))
    /\ Goes(t, "time")
    /\ UNCHANGED <<holder, oauthVars, cached, overtaken, loop, server, handlers, calls>>

\* A new timer, and then the removal of the key's former one.
WithTimer_Swapped(timers, k) == WithoutTimer(Append(timers, k), k)

\* The list with a new timer for the key.
WithTimer(timers, k) == Append(timers, k)

\* The end of create_invalidate_timer.  The task of get_guilds that put the
\* authorisation in goes on when there is one.
create_invalidate_timer(t) ==
    /\ At(t, "time")
    /\ Free("_timers_m")
    /\ cacheTimers' = WithTimer(cacheTimers, KeyOf(t))
    /\ \/ Goes(t, "idle")
       \/ /\ tasks[t].key = "auth"
          /\ tasks' = [tasks EXCEPT ![t].at = "fetch", ![t].key = "guilds"]
    /\ UNCHANGED <<holder, oauthVars, cached, overtaken, loop, server, handlers, calls>>

----------------------------------------------------------------------------
(***************************************************************************)
(* handle_guild_create and handle_guild_delete.                            *)
(***************************************************************************)

HandlerAt(h, where) == handlers[h].at = where

\* remove_cached_user_guilds of the owner: the entry.
GuildEvent(h, owner, members) ==
    /\ HandlerAt(h, "idle")
    /\ Called
    /\ Free("cache_m")
    /\ cached' = cached \ {Guilds(owner)}
    /\ handlers' = [handlers EXCEPT ![h] = [at |-> "untime", owner |-> owner, members |-> members]]
    /\ UNCHANGED <<holder, oauthVars, cacheTimers, overtaken, loop, server, tasks>>

\* remove_cached_user_guilds: the timer.
UntimesOwner(h) ==
    LET k == Guilds(handlers[h].owner) IN
    /\ HandlerAt(h, "untime")
    /\ Free("_timers_m")
    /\ cacheTimers' = WithoutTimer(cacheTimers, k)
    /\ overtaken' = IF k \in cached /\ Contains(cacheTimers, k) THEN overtaken \cup {k} ELSE overtaken
    /\ handlers' = [handlers EXCEPT ![h].at = "lock"]
    /\ UNCHANGED <<holder, oauthVars, cached, loop, server, tasks, calls>>

LocksCache(h) ==
    /\ HandlerAt(h, "lock")
    /\ Locks(h, "cache_m")
    /\ handlers' = [handlers EXCEPT ![h].at = "scan"]
    /\ UNCHANGED <<oauthVars, cacheVars, loop, server, tasks, calls>>

\* The loop over the cache, which holds its mutex: the entries of the members.
ClearsMember(h, u) ==
    /\ HandlerAt(h, "scan")
    /\ u \in handlers[h].members
    /\ Guilds(u) \in cached
    /\ Free("_timers_m")
    /\ cacheTimers' = WithoutTimer(cacheTimers, Guilds(u))
    /\ cached' = cached \ {Guilds(u)}
    /\ UNCHANGED <<holder, oauthVars, overtaken, loop, server, callVars>>

\* The loop's end when it forgets the mutex.
UnlocksCache_Forgets(h) ==
    /\ HandlerAt(h, "scan")
    /\ \A u \in handlers[h].members : Guilds(u) \notin cached
    /\ handlers' = [handlers EXCEPT ![h] = [at |-> "idle", owner |-> NoUser, members |-> {}]]
    /\ UNCHANGED <<holder, oauthVars, cacheVars, loop, server, tasks, calls>>

UnlocksCache(h) ==
    /\ HandlerAt(h, "scan")
    /\ \A u \in handlers[h].members : Guilds(u) \notin cached
    /\ Unlocks("cache_m")
    /\ handlers' = [handlers EXCEPT ![h] = [at |-> "idle", owner |-> NoUser, members |-> {}]]
    /\ UNCHANGED <<oauthVars, cacheVars, loop, server, tasks, calls>>

----------------------------------------------------------------------------
(***************************************************************************)
(* main_loop_routine: states::check_timers, then service_cache's.          *)
(***************************************************************************)

\* states::check_timers takes the timers' mutex.
check_timers ==
    /\ loop.at = "idle"
    /\ Locks("loop", "oauth_timers_m")
    /\ loop' = [at |-> "break?", i |-> 1]
    /\ UNCHANGED <<oauthVars, cacheVars, server, callVars>>

\* should_break: a timer whose state is gone is dropped.
should_break_oauth_states ==
    /\ loop.at = "break?"
    /\ loop.i <= Len(stateTimers)
    /\ Free("_oauth_states_m")
    /\ IF stateTimers[loop.i] \notin states
         THEN stateTimers' = RemoveAt(stateTimers, loop.i) /\ UNCHANGED loop
         ELSE loop' = [loop EXCEPT !.at = "over?"] /\ UNCHANGED stateTimers
    /\ UNCHANGED <<holder, states, unmade, cacheVars, server, callVars>>

\* The time of the timer of state s is over, or runs.
StateTimeOver(s) ==
    /\ loop.at = "over?"
    /\ stateTimers[loop.i] = s
    /\ loop' = [loop EXCEPT !.at = "remove"]
    /\ UNCHANGED <<holder, oauthVars, cacheVars, server, callVars>>

StateTimeRuns ==
    /\ loop.at = "over?"
    /\ loop' = [at |-> "break?", i |-> loop.i + 1]
    /\ UNCHANGED <<holder, oauthVars, cacheVars, server, callVars>>

\* A timer whose time is over is dropped, and its state stays.
EndsState_TimerOnly ==
    /\ loop.at = "remove"
    /\ stateTimers' = RemoveAt(stateTimers, loop.i)
    /\ loop' = [loop EXCEPT !.at = "break?"]
    /\ UNCHANGED <<holder, states, unmade, cacheVars, server, callVars>>

\* A timer whose time is over is left where it is, and so is its state.
EndsState_Skips ==
    /\ loop.at = "remove"
    /\ loop' = [at |-> "break?", i |-> loop.i + 1]
    /\ UNCHANGED <<holder, oauthVars, cacheVars, server, callVars>>

\* A timer whose time is over ends its state.
EndsState ==
    /\ loop.at = "remove"
    /\ remove_oauth_state(stateTimers[loop.i])
    /\ stateTimers' = RemoveAt(stateTimers, loop.i)
    /\ loop' = [loop EXCEPT !.at = "break?"]
    /\ UNCHANGED <<holder, unmade, cacheVars, server, callVars>>

StatesChecked ==
    /\ loop.at = "break?"
    /\ loop.i > Len(stateTimers)
    /\ Unlocks("oauth_timers_m")
    /\ loop' = [at |-> "service", i |-> 1]
    /\ UNCHANGED <<oauthVars, cacheVars, server, callVars>>

\* service_cache::check_timers takes the timers' mutex.
check_cache_timers ==
    /\ loop.at = "service"
    /\ Locks("loop", "_timers_m")
    /\ loop' = [loop EXCEPT !.at = "cache"]
    /\ UNCHANGED <<oauthVars, cacheVars, server, callVars>>

\* The time of a timer is over, or runs.
CacheTimeOver ==
    /\ loop.at = "cache"
    /\ loop.i <= Len(cacheTimers)
    /\ \/ loop' = [loop EXCEPT !.at = "remove entry"]
       \/ loop' = [loop EXCEPT !.i = @ + 1]
    /\ UNCHANGED <<holder, oauthVars, cacheVars, server, callVars>>

\* A timer whose time is over removes its key's entry, which may be a later one.
EndsEntry ==
    /\ loop.at = "remove entry"
    /\ Free("cache_m")
    /\ cached' = cached \ {cacheTimers[loop.i]}
    /\ cacheTimers' = RemoveAt(cacheTimers, loop.i)
    /\ loop' = [loop EXCEPT !.at = "cache"]
    /\ UNCHANGED <<holder, oauthVars, overtaken, server, callVars>>

CacheChecked ==
    /\ loop.at = "cache"
    /\ loop.i > Len(cacheTimers)
    /\ Unlocks("_timers_m")
    /\ loop' = [at |-> "idle", i |-> 1]
    /\ UNCHANGED <<oauthVars, cacheVars, server, callVars>>

----------------------------------------------------------------------------
Serve ==
    \/ generate_oauth_state
    \/ \E s \in States \ unmade : PostLogin(s)
    \/ \E u \in Users : PostLogout(u) \/ GetGuilds(u)
    \/ remove_all_timers

ServerGoesOn == register_timer \/ RemovesTimer

Task(t) ==
    \/ get_cached_user_auth(t) \/ Fetched(t)
    \/ set(t) \/ remove_invalidate_timer(t) \/ create_invalidate_timer(t)

HandlerGoesOn(h) ==
    \/ UntimesOwner(h) \/ LocksCache(h)
    \/ \E u \in Users : ClearsMember(h, u)
    \/ UnlocksCache(h)

main_loop_routine ==
    \/ check_timers \/ should_break_oauth_states
    \/ StateTimeRuns \/ EndsState \/ StatesChecked
    \/ \E s \in States : StateTimeOver(s)
    \/ check_cache_timers \/ CacheTimeOver \/ EndsEntry \/ CacheChecked

Next ==
    \/ Serve \/ ServerGoesOn
    \/ \E t \in Tasks : Task(t)
    \/ \E h \in Handlers, u \in Users, members \in SUBSET Users : GuildEvent(h, u, members)
    \/ \E h \in Handlers : HandlerGoesOn(h)
    \/ main_loop_routine

\* Threads go on, the loop goes round, the time of a timer is over one day; the
\* server gets a mutex that is given up again and again.
Fairness ==
    /\ SF_vars(ServerGoesOn)
    /\ WF_vars(main_loop_routine)
    /\ \A h \in Handlers : WF_vars(HandlerGoesOn(h))
    /\ \A s \in States : SF_vars(StateTimeOver(s))

Spec == Init /\ [][Next]_vars /\ Fairness

----------------------------------------------------------------------------
\* Each mutex is held by the thread that is where it holds it, and by no other.
HoldersOK ==
    /\ holder["_oauth_states_m"] = IF server.at = "register" THEN "server" ELSE Nobody
    /\ holder["oauth_timers_m"] = IF loop.at \in {"break?", "over?", "remove"} THEN "loop"
                                  ELSE IF server.at = "remove all" THEN "server" ELSE Nobody
    /\ holder["_timers_m"] = IF loop.at \in {"cache", "remove entry"} THEN "loop" ELSE Nobody
    /\ \A h \in Handlers : HandlerAt(h, "scan") <=> holder["cache_m"] = h
    /\ holder["cache_m"] \in Handlers \cup {Nobody}

\* What every table holds is of its type, the strings in use were made, the main
\* loop's iterator points into its list, and the mutexes are where the threads are.
TypeOK ==
    /\ HoldersOK
    /\ loop.at \in {"over?", "remove"} => loop.i <= Len(stateTimers)
    /\ loop.at = "remove entry" => loop.i <= Len(cacheTimers)
    /\ holder \in [Mutexes -> Threads \cup {Nobody}]
    /\ states \subseteq States
    /\ unmade \subseteq States
    /\ states \cap unmade = {}
    /\ stateTimers \in Seq(States)
    /\ cached \subseteq Keys
    /\ cacheTimers \in Seq(Keys)
    /\ loop \in [at : {"idle", "break?", "over?", "remove", "service", "cache", "remove entry"}, i : Nat \ {0}]
    /\ server \in [at : {"idle", "register", "remove all", "closed"}, state : States \cup {NoState}]
    /\ tasks \in [Tasks -> [at : {"idle", "auth", "fetch", "set", "untime", "time"},
                            user : Users \cup {NoUser}, key : {"auth", "guilds"}]]
    /\ handlers \in [Handlers -> [at : {"idle", "untime", "lock", "scan"},
                                  owner : Users \cup {NoUser}, members : SUBSET Users]]
    /\ calls \in 0..MaxCalls
    /\ overtaken \subseteq Keys

\* Every OAuth state that is given out has a timer (states.cpp:61 generates it,
\* the main loop and the login take it away): none stays for ever because its timer
\* was dropped or never started.  Only the server's thread, which holds the mutex
\* of the states until then, knows one without.
StateIsTimed ==
    \A s \in states :
        \/ Contains(stateTimers, s)
        \/ server = [at |-> "register", state |-> s] /\ holder["_oauth_states_m"] = "server"

\* A cached answer has a timer, or the task that put it in is about to start one:
\* setters, guild events, logouts and the main loop take the cache's mutex and the
\* timers' one after the other (service_cache.cpp:62).  The exception is an entry
\* put in between the two removals for a guild's owner, which stays without.
EntryIsTimed ==
    \A k \in cached \ overtaken :
        \/ Contains(cacheTimers, k)
        \/ \E t \in Tasks : tasks[t].at \in {"untime", "time"} /\ KeyOf(t) = k

\* The mutex that a thread needs next while it holds another.
Needs(th, m) ==
    CASE th = "server" -> \/ server.at = "register" /\ m = "oauth_timers_m"
                          \/ server.at = "remove all" /\ stateTimers # <<>> /\ m = "_oauth_states_m"
      [] th = "loop" ->   \/ /\ loop.at = "break?" /\ loop.i <= Len(stateTimers)
                             /\ m = "_oauth_states_m"
                          \/ loop.at = "remove" /\ m = "_oauth_states_m"
                          \/ loop.at = "remove entry" /\ m = "cache_m"
      [] OTHER -> /\ HandlerAt(th, "scan")
                  /\ \E u \in handlers[th].members : Guilds(u) \in cached
                  /\ m = "_timers_m"

\* Two threads that hold what the other needs: the main loop and the thread that
\* makes a state, or the main loop and a guild event.
Deadlocked ==
    \E a, b \in Threads, m, n \in Mutexes :
        /\ a # b
        /\ holder[m] = b /\ Needs(a, m)
        /\ holder[n] = a /\ Needs(b, n)

\* An OAuth state ends ten minutes after it was made at the latest (states.cpp:8),
\* unless the main loop is deadlocked with the thread that makes one, or with a
\* guild event.
StatesEnd == <>[]Deadlocked \/ \A s \in States : s \in states ~> s \notin states

=============================================================================
