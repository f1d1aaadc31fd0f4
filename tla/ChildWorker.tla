----------------------------- MODULE ChildWorker -----------------------------
(***************************************************************************)
(* The child worker: callers in the main process (searches, downloads, the *)
(* owner's system command) send commands through a pipe to the worker      *)
(* process, which forks a slave for each, answers through another pipe and *)
(* reaps the slaves it is told to.  A reader thread of the main process    *)
(* puts the answers into the ready table, where the callers wait for them. *)
(* A caller that was answered 0 reads its slave's output from a FIFO named *)
(* by the slave's id, which both ends block to open.                       *)
(*                                                                         *)
(* A slave is named by its id.  Search ids encode the query and come again;*)
(* the system command makes a new one from the time.  What a slave does    *)
(* and the text of commands are left out.                                  *)
(*                                                                         *)
(* Definitions named X_<what> are X with a plausible mistake; no           *)
(* specification uses them.                                                *)
(***************************************************************************)
EXTENDS Integers, Sequences

CONSTANTS
    Clients,    \* threads that call the worker
    QueryIds,   \* ids made from a query or a file name
    FreshIds,   \* ids made from the time
    Bailing,    \* clients that use send_command_wr, with fresh ids
    MayTimeout, \* clients whose wait may reach its timeout
    OneCaller,  \* whether callers with one query id come one after the other
    MayFail,    \* whether starting a slave may fail
    MaxCalls    \* bound: number of calls

ASSUME ConstantsAssumption ==
    /\ QueryIds \cap FreshIds = {}
    /\ Bailing \subseteq Clients
    /\ MayTimeout \subseteq Clients
    /\ OneCaller \in BOOLEAN
    /\ MayFail \in BOOLEAN
    /\ MaxCalls \in Nat

VARIABLES
    toWorker,   \* commands sent and not yet handled: command_queue and the pipe
    toMain,     \* answers in the other pipe
    ready,      \* slave_ready_queue
    slave,      \* slave_list, with what the slave's process is doing
    shutting,   \* shutdown_queue: the number of its entries, by id
    pc,         \* where each client is
    id,         \* the id of its call
    used,       \* fresh ids used so far
    calls       \* calls so far

pipeVars   == <<toWorker, toMain>>
workerVars == <<slave, shutting>>
clientVars == <<pc, id, used, calls>>
vars       == <<pipeVars, ready, workerVars, clientVars>>

Ids == QueryIds \cup FreshIds
NoId == "none"

\* ready_status_t
TIMEOUT         == -1
SUCCESS         == 0
ERR_SLAVE_EXIST == 875

NoEntry == [done |-> FALSE, status |-> SUCCESS]
Waiting == [done |-> FALSE, status |-> TIMEOUT]
Marked(s) == [done |-> TRUE, status |-> s]

\* The force flag of the exit command only brings Kill forward, which may come
\* at any time here.
CreateCommand(i) == [command |-> "create", id |-> i]
ExitCommand(i)   == [command |-> "shutdown", id |-> i]

Init ==
    /\ toWorker = <<>>
    /\ toMain = <<>>
    /\ ready = [i \in Ids |-> NoEntry]
    /\ slave = [i \in Ids |-> "none"]
    /\ shutting = [i \in Ids |-> 0]
    /\ pc = [c \in Clients |-> "idle"]
    /\ id = [c \in Clients |-> NoId]
    /\ used = {}
    /\ calls = 0

At(c, where) == pc[c] = where
Goto(c, where) == pc' = [pc EXCEPT ![c] = where]
Send(m) == toWorker' = Append(toWorker, m)

----------------------------------------------------------------------------
(***************************************************************************)
(* The callers.                                                            *)
(***************************************************************************)

\* Ids client c may call with.
OwnIds(c) ==
    IF c \in Bailing THEN FreshIds \ used
    ELSE IF OneCaller THEN QueryIds \ {id[d] : d \in {d \in Clients : ~At(d, "idle")}}
    ELSE QueryIds

\* send_command.
Call(c, i) ==
    /\ At(c, "idle")
    /\ calls < MaxCalls
    /\ i \in OwnIds(c)
    /\ id' = [id EXCEPT ![c] = i]
    /\ used' = used \cup (FreshIds \cap {i})
    /\ calls' = calls + 1
    /\ Send(CreateCommand(i))
    /\ Goto(c, "sent")
    /\ UNCHANGED <<toMain, ready, workerVars>>

should_bail_out_afayc_Never(s) == FALSE

should_bail_out_afayc(s) == s \in {TIMEOUT, ERR_SLAVE_EXIST}

\* Where wait_slave_ready's caller goes on with status s.
AfterStatus(c, s) ==
    IF s = SUCCESS THEN "open"
    ELSE IF c \in Bailing /\ should_bail_out_afayc(s) THEN "bail"
    ELSE "idle"

\* Take the entry of the id, or -1 when there is none.
Take(c) ==
    LET e == ready[id[c]]
    IN  /\ Goto(c, AfterStatus(c, IF e = NoEntry THEN TIMEOUT ELSE e.status))
        /\ ready' = [ready EXCEPT ![id[c]] = NoEntry]

\* The first part of wait_slave_ready: an entry that is there already is
\* taken, whether it is marked or another caller's; else one is made.
Look(c) ==
    /\ At(c, "sent")
    /\ \/ /\ ready[id[c]] # NoEntry
          /\ Take(c)
       \/ /\ ready[id[c]] = NoEntry
          /\ ready' = [ready EXCEPT ![id[c]] = Waiting]
          /\ Goto(c, "waiting")
    /\ UNCHANGED <<pipeVars, workerVars, id, used, calls>>

\* The wait ends: the entry is marked or gone (which an answer to anybody
\* makes it notice), or time is up.
Wake(c) ==
    /\ At(c, "waiting")
    /\ ready[id[c]] # Waiting \/ c \in MayTimeout
    /\ Goto(c, "woken")
    /\ UNCHANGED <<pipeVars, ready, workerVars, id, used, calls>>

\* The last part of wait_slave_ready.
Resume(c) ==
    /\ At(c, "woken")
    /\ Take(c)
    /\ UNCHANGED <<pipeVars, workerVars, id, used, calls>>

\* bail_out_afayc: a slave that is not waited for is to end.
Bail(c) ==
    /\ At(c, "bail")
    /\ Send(ExitCommand(id[c]))
    /\ Goto(c, "idle")
    /\ UNCHANGED <<toMain, ready, workerVars, id, used, calls>>

\* open () of the FIFO: it fails when the FIFO was removed, and blocks until
\* a slave has it open for writing.
Open(c) ==
    /\ At(c, "open")
    /\ Goto(c, CASE slave[id[c]] = "none" -> "exit"
                 [] slave[id[c]] \in {"running", "wrote"} -> "reading"
                 [] OTHER -> "opening")
    /\ UNCHANGED <<pipeVars, ready, workerVars, id, used, calls>>

\* read () returns the output, or its end when the slave ended.
Read(c) ==
    /\ At(c, "reading")
    /\ slave[id[c]] # "running"
    /\ Goto(c, "exit")
    /\ UNCHANGED <<pipeVars, ready, workerVars, id, used, calls>>

\* The exit command, which every caller that was answered 0 sends.
Exit(c) ==
    /\ At(c, "exit")
    /\ Send(ExitCommand(id[c]))
    /\ Goto(c, "idle")
    /\ UNCHANGED <<toMain, ready, workerVars, id, used, calls>>

mark_slave_ready_Inserts ==
    /\ toMain # <<>>
    /\ LET i == Head(toMain).id
       IN  ready' = [ready EXCEPT ![i] = IF @ = NoEntry THEN Marked(Head(toMain).status) ELSE @]
    /\ toMain' = Tail(toMain)
    /\ UNCHANGED <<toWorker, workerVars, clientVars>>

\* mark_slave_ready, in the thread that reads the worker's answers.
mark_slave_ready ==
    /\ toMain # <<>>
    /\ ready' = [ready EXCEPT ![Head(toMain).id] = Marked(Head(toMain).status)]
    /\ toMain' = Tail(toMain)
    /\ UNCHANGED <<toWorker, workerVars, clientVars>>

----------------------------------------------------------------------------
(***************************************************************************)
(* The worker process.  Commands that are sent may still be in             *)
(* command_queue, so that it may find its pipe empty, and look after       *)
(* its slaves, whatever toWorker holds.                                    *)
(***************************************************************************)

\* The answer is the status; the slave's pid stays with the worker.
Answer(i, s) == toMain' = Append(toMain, [id |-> i, status |-> s])

ExecuteCreate_Replaces ==
    /\ toWorker # <<>> /\ Head(toWorker).command = "create"
    /\ toWorker' = Tail(toWorker)
    /\ LET i == Head(toWorker).id
       IN  /\ slave' = [slave EXCEPT ![i] = "blocked"]
           /\ Answer(i, SUCCESS)
    /\ UNCHANGED <<ready, shutting, clientVars>>

\* execute () of a command that creates a slave.
ExecuteCreate ==
    /\ toWorker # <<>> /\ Head(toWorker).command = "create"
    /\ toWorker' = Tail(toWorker)
    /\ LET i == Head(toWorker).id
       IN  \/ /\ slave[i] # "none"
              /\ Answer(i, ERR_SLAVE_EXIST)
              /\ UNCHANGED slave
           \/ /\ slave[i] = "none"
              /\ slave' = [slave EXCEPT ![i] = "blocked"]
              /\ Answer(i, SUCCESS)
           \/ /\ slave[i] = "none" /\ MayFail
              /\ Answer(i, -1)
              /\ UNCHANGED slave
    /\ UNCHANGED <<ready, shutting, clientVars>>

\* execute () of the exit command.
ExecuteShutdown ==
    /\ toWorker # <<>> /\ Head(toWorker).command = "shutdown"
    /\ toWorker' = Tail(toWorker)
    /\ LET i == Head(toWorker).id
       IN  shutting' = IF slave[i] = "none" THEN shutting
                       ELSE [shutting EXCEPT ![i] = @ + 1]
    /\ UNCHANGED <<toMain, ready, slave, clientVars>>

\* A pass over shutdown_queue finds at the k-th entry of an id that its slave
\* ended, or is no longer listed: wait () and clean_up (), which removes the FIFO
\* under those who wait to open it.  The entries of that id behind it go in
\* the same pass.
Reap(i, k) ==
    /\ slave[i] \in {"exited", "none"}
    /\ slave' = [slave EXCEPT ![i] = "none"]
    /\ pc' = [c \in Clients |-> IF At(c, "opening") /\ id[c] = i THEN "stuck" ELSE pc[c]]
    /\ shutting' = [shutting EXCEPT ![i] = k - 1]
    /\ UNCHANGED <<pipeVars, ready, id, used, calls>>

\* It finds that it must kill the slave: by force, or after thirty seconds.
Kill(i) ==
    /\ slave[i] \notin {"exited", "none"}
    /\ slave' = [slave EXCEPT ![i] = "exited"]
    /\ UNCHANGED <<pipeVars, ready, shutting, clientVars>>

----------------------------------------------------------------------------
(***************************************************************************)
(* The slaves.                                                             *)
(***************************************************************************)

\* Both ends of the FIFO are open.
Meet(i) ==
    /\ slave[i] = "blocked"
    /\ \E c \in Clients : At(c, "opening") /\ id[c] = i
    /\ slave' = [slave EXCEPT ![i] = "running"]
    /\ pc' = [c \in Clients |-> IF At(c, "opening") /\ id[c] = i THEN "reading" ELSE pc[c]]
    /\ UNCHANGED <<pipeVars, ready, shutting, id, used, calls>>

\* It writes its output, or fails and ends.
Write(i) ==
    /\ slave[i] = "running"
    /\ \/ slave' = [slave EXCEPT ![i] = "wrote"]
       \/ MayFail /\ slave' = [slave EXCEPT ![i] = "exited"]
    /\ UNCHANGED <<pipeVars, ready, shutting, clientVars>>

End(i) ==
    /\ slave[i] = "wrote"
    /\ slave' = [slave EXCEPT ![i] = "exited"]
    /\ UNCHANGED <<pipeVars, ready, shutting, clientVars>>

----------------------------------------------------------------------------
\* What a caller does on its own; Wake may need the worker.
Proceed(c) ==
    Look(c) \/ Resume(c) \/ Bail(c) \/ Open(c) \/ Read(c) \/ Exit(c)

Client(c) == (\E i \in Ids : Call(c, i)) \/ Wake(c) \/ Proceed(c)

Execute == ExecuteCreate \/ ExecuteShutdown

Pass == \E i \in Ids : \E k \in 1..shutting[i] : Reap(i, k) \/ Kill(i)

Slave(i) == Meet(i) \/ Write(i) \/ End(i)

Next ==
    \/ \E c \in Clients : Client(c)
    \/ mark_slave_ready
    \/ Execute
    \/ Pass
    \/ \E i \in Ids : Slave(i)

Spec == Init /\ [][Next]_vars

\* The callers, the worker, the reader thread and the slaves run on; nobody
\* need call.
Fairness ==
    /\ \A c \in Clients : WF_vars(Wake(c)) /\ WF_vars(Proceed(c))
    /\ WF_vars(mark_slave_ready)
    /\ WF_vars(Execute)
    /\ WF_vars(Pass)
    /\ \A i \in Ids : WF_vars(Slave(i))

FairSpec == Spec /\ Fairness
----------------------------------------------------------------------------
(***************************************************************************)
(* Properties.                                                             *)
(***************************************************************************)

Statuses == {TIMEOUT, SUCCESS, ERR_SLAVE_EXIST}

TypeOK ==
    /\ toWorker \in Seq([command : {"create", "shutdown"}, id : Ids])
    /\ toMain \in Seq([id : Ids, status : Statuses])
    /\ ready \in [Ids -> [done : BOOLEAN, status : Statuses]]
    /\ slave \in [Ids -> {"none", "blocked", "running", "wrote", "exited"}]
    /\ shutting \in [Ids -> Nat]
    /\ pc \in [Clients -> {"idle", "sent", "waiting", "woken", "bail", "open", "opening",
                           "stuck", "reading", "exit"}]
    /\ id \in [Clients -> Ids \cup {NoId}]
    /\ used \subseteq FreshIds
    /\ calls \in 0..MaxCalls

\* A caller that was told 0 has a slave of its own that nobody shuts down
\* before its output was read, also when the id was used before.
SlaveIsServed ==
    \A c \in Clients : pc[c] \in {"open", "opening", "reading"} =>
        /\ slave[id[c]] # "none"
        /\ shutting[id[c]] = 0
        /\ \A d \in Clients \ {c} : id[d] = id[c] => pc[d] \notin {"open", "opening", "reading"}

\* Every caller is answered and returns.
CallReturns == \A c \in Clients : pc[c] # "idle" ~> pc[c] = "idle"

\* Every slave that was started ends and is reaped, also when its caller gave
\* up waiting for it.
EverySlaveEnds == \A i \in Ids : slave[i] # "none" ~> slave[i] = "none"
=============================================================================
