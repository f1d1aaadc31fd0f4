-------------------------- MODULE ChildWorker_proofs --------------------------
(***************************************************************************)
(* For any number of callers, ids and calls: the pipes, the ready table    *)
(* and the list of slaves keep their types.  And whoever is told 0 is      *)
(* served, what a caller waits for is on its way to it, and no slave is    *)
(* left behind, where callers with one query come after each other and     *)
(* only those give up whose ids come once (Ordered).                       *)
(***************************************************************************)
EXTENDS ChildWorker, SequenceTheorems, TLAPS

\* A caller has an id from its first call on.
HasId == \A c \in Clients : pc[c] # "idle" => id[c] \in Ids

IInv == TypeOK /\ HasId

Commands == [command : {"create", "shutdown"}, id : Ids]
Answers  == [id : Ids, status : Statuses]

----------------------------------------------------------------------------
\* The first message of a pipe, and what is left behind it.
LEMMA FirstOf ==
    ASSUME NEW S, NEW s \in Seq(S), s # <<>>
    PROVE  Head(s) \in S /\ Tail(s) \in Seq(S)
  BY HeadTailProperties

\* A message behind the others.
LEMMA Appended ==
    ASSUME NEW S, NEW s \in Seq(S), NEW m \in S
    PROVE  Append(s, m) \in Seq(S)
  OBVIOUS

\* What is sent is a command, what is answered an answer.
LEMMA Messages ==
    ASSUME NEW i \in Ids, NEW s \in Statuses
    PROVE  /\ CreateCommand(i) \in Commands /\ ExitCommand(i) \in Commands
           /\ [id |-> i, status |-> s] \in Answers
           /\ Marked(s) \in [done : BOOLEAN, status : Statuses]
           /\ NoEntry \in [done : BOOLEAN, status : Statuses]
           /\ Waiting \in [done : BOOLEAN, status : Statuses]
  BY DEF CreateCommand, ExitCommand, Commands, Answers, Marked, NoEntry, Waiting, Statuses,
         TIMEOUT, SUCCESS

----------------------------------------------------------------------------
\* Init: nothing was sent and nobody called.
LEMMA InitOK == Init => IInv
  BY ConstantsAssumption
     DEF Init, IInv, TypeOK, HasId, NoEntry, Statuses, SUCCESS, TIMEOUT

\* A caller that takes its status goes on where one may be.
LEMMA TakeOK ==
    ASSUME IInv, NEW c \in Clients, id[c] \in Ids, Take(c),
           UNCHANGED <<pipeVars, workerVars, id, used, calls>>
    PROVE  IInv'
<1>1. AfterStatus(c, IF ready[id[c]] = NoEntry THEN TIMEOUT ELSE ready[id[c]].status)
        \in {"open", "bail", "idle"}
  BY DEF AfterStatus
<1>2. pc' \in [Clients -> {"idle", "sent", "waiting", "woken", "bail", "open", "opening",
                           "stuck", "reading", "exit"}]
  BY <1>1 DEF IInv, TypeOK, Take, Goto
<1>3. ready' \in [Ids -> [done : BOOLEAN, status : Statuses]]
  BY DEF IInv, TypeOK, Take, NoEntry, Statuses, SUCCESS
<1>4. TypeOK'
  BY <1>2, <1>3 DEF IInv, TypeOK, pipeVars, workerVars
<1>5. HasId'
  BY DEF IInv, TypeOK, HasId, Take, Goto
<1> QED
  BY <1>4, <1>5 DEF IInv

\* A step of a caller other than a call.
LEMMA ProceedOK ==
    ASSUME IInv, NEW c \in Clients, Wake(c) \/ Proceed(c)
    PROVE  IInv'
<1>1. id[c] \in Ids
  BY DEF IInv, HasId, Wake, Proceed, Look, Resume, Bail, Open, Read, Exit, At
<1>2. CASE Look(c)
  <2>1. CASE ready[id[c]] # NoEntry
    BY <1>1, <1>2, <2>1, TakeOK DEF Look
  <2>2. CASE ready[id[c]] = NoEntry
    <3>1. ready' \in [Ids -> [done : BOOLEAN, status : Statuses]]
      BY <1>2, <2>2, Messages DEF Look, IInv, TypeOK, Waiting, Statuses
    <3> QED
      BY <1>1, <1>2, <2>2, <3>1 DEF Look, IInv, TypeOK, HasId, Goto, pipeVars, workerVars
  <2> QED
    BY <2>1, <2>2
<1>3. CASE Wake(c)
  BY <1>1, <1>3 DEF Wake, IInv, TypeOK, HasId, Goto, pipeVars, workerVars
<1>4. CASE Resume(c)
  BY <1>1, <1>4, TakeOK DEF Resume
<1>5. CASE Open(c)
  BY <1>1, <1>5 DEF Open, IInv, TypeOK, HasId, Goto, pipeVars, workerVars
<1>6. CASE Read(c)
  BY <1>1, <1>6 DEF Read, IInv, TypeOK, HasId, Goto, pipeVars, workerVars
<1>7. CASE Bail(c) \/ Exit(c)
  <2>1. toWorker \in Seq(Commands) /\ ExitCommand(id[c]) \in Commands
    BY <1>1 DEF IInv, TypeOK, Commands, ExitCommand
  <2>2. toWorker' \in Seq(Commands)
    BY <1>7, <2>1, Appended DEF Bail, Exit, Send
  <2> QED
    BY <1>1, <1>7, <2>2 DEF Bail, Exit, IInv, TypeOK, HasId, Goto, Commands, workerVars
<1> QED
  BY <1>2, <1>3, <1>4, <1>5, <1>6, <1>7 DEF Proceed

\* A call.
LEMMA CallOK ==
    ASSUME IInv, NEW c \in Clients, NEW i \in Ids, Call(c, i)
    PROVE  IInv'
<1>1. toWorker \in Seq(Commands) /\ CreateCommand(i) \in Commands
  BY DEF IInv, TypeOK, Commands, CreateCommand
<1>2. toWorker' \in Seq(Commands)
  BY <1>1, Appended DEF Call, Send
<1>3. calls' \in 0..MaxCalls
  BY ConstantsAssumption DEF Call, IInv, TypeOK
<1> QED
  BY <1>2, <1>3 DEF Call, IInv, TypeOK, HasId, Goto, Commands, workerVars

\* An answer reaches the ready table.
LEMMA MarkOK ==
    ASSUME IInv, mark_slave_ready
    PROVE  IInv'
<1>1. Head(toMain) \in Answers /\ Tail(toMain) \in Seq(Answers)
  BY FirstOf DEF IInv, TypeOK, mark_slave_ready, Answers
<1>2. Marked(Head(toMain).status) \in [done : BOOLEAN, status : Statuses]
  BY <1>1 DEF Marked, Answers
<1> QED
  BY <1>1, <1>2 DEF mark_slave_ready, IInv, TypeOK, HasId, Answers, workerVars, clientVars

\* The worker handles a command.
LEMMA ExecuteOK ==
    ASSUME IInv, Execute
    PROVE  IInv'
<1>1. toWorker # <<>> /\ toWorker' = Tail(toWorker)
  BY DEF Execute, ExecuteCreate, ExecuteShutdown
<1>2. Head(toWorker) \in Commands /\ toWorker' \in Seq(Commands)
  BY <1>1, FirstOf DEF IInv, TypeOK, Commands
<1>3. Head(toWorker).id \in Ids
  BY <1>2 DEF Commands
<1>4. CASE ExecuteCreate
  <2>1. \E s \in Statuses : Answer(Head(toWorker).id, s)
    BY <1>4 DEF ExecuteCreate, Statuses, SUCCESS, TIMEOUT
  <2>2. toMain' \in Seq(Answers)
    <3>1. PICK s \in Statuses : Answer(Head(toWorker).id, s)
      BY <2>1
    <3>2. [id |-> Head(toWorker).id, status |-> s] \in Answers /\ toMain \in Seq(Answers)
      BY <1>3 DEF Answers, IInv, TypeOK
    <3> QED
      BY <3>1, <3>2, Appended DEF Answer
  <2>3. slave' \in [Ids -> {"none", "blocked", "running", "wrote", "exited"}]
    BY <1>3, <1>4 DEF ExecuteCreate, IInv, TypeOK
  <2> QED
    BY <1>2, <1>4, <2>2, <2>3 DEF ExecuteCreate, IInv, TypeOK, HasId, Commands, Answers, clientVars
<1>5. CASE ExecuteShutdown
  <2>1. shutting' \in [Ids -> Nat]
    BY <1>3, <1>5 DEF ExecuteShutdown, IInv, TypeOK
  <2> QED
    BY <1>2, <1>5, <2>1 DEF ExecuteShutdown, IInv, TypeOK, HasId, Commands, clientVars
<1> QED
  BY <1>4, <1>5 DEF Execute

\* A pass over the shutdown queue.
LEMMA PassOK ==
    ASSUME IInv, Pass
    PROVE  IInv'
<1>1. PICK i \in Ids : \E k \in 1..shutting[i] : Reap(i, k) \/ Kill(i)
  BY DEF Pass
<1>2. PICK k \in 1..shutting[i] : Reap(i, k) \/ Kill(i)
  BY <1>1
<1>3. CASE Reap(i, k)
  <2>1. k - 1 \in Nat
    OBVIOUS
  <2> QED
    BY <1>3, <2>1 DEF Reap, IInv, TypeOK, HasId, At, pipeVars
<1>4. CASE Kill(i)
  BY <1>4 DEF Kill, IInv, TypeOK, HasId, pipeVars, clientVars
<1> QED
  BY <1>2, <1>3, <1>4

\* A step of a slave.
LEMMA SlaveOK ==
    ASSUME IInv, NEW i \in Ids, Slave(i)
    PROVE  IInv'
<1>1. CASE Meet(i)
  BY <1>1 DEF Meet, IInv, TypeOK, HasId, At, pipeVars
<1>2. CASE Write(i) \/ End(i)
  BY <1>2 DEF Write, End, IInv, TypeOK, HasId, pipeVars, clientVars
<1> QED
  BY <1>1, <1>2 DEF Slave

\* The invariant, by the steps above.
THEOREM Invariant == Spec => []IInv
<1>1. IInv /\ [Next]_vars => IInv'
  <2> SUFFICES ASSUME IInv, [Next]_vars PROVE IInv'
    OBVIOUS
  <2>1. CASE \E c \in Clients : Client(c)
    BY <2>1, CallOK, ProceedOK DEF Client
  <2>2. CASE mark_slave_ready \/ Execute \/ Pass
    BY <2>2, MarkOK, ExecuteOK, PassOK
  <2>3. CASE \E i \in Ids : Slave(i)
    BY <2>3, SlaveOK
  <2>4. CASE UNCHANGED vars
    BY <2>4 DEF vars, pipeVars, workerVars, clientVars, IInv, TypeOK, HasId
  <2> QED
    BY <2>1, <2>2, <2>3, <2>4 DEF Next
<1> QED
  BY <1>1, InitOK, PTL DEF Spec

\* The pipes hold commands and answers, the ready table statuses, and every
\* caller and slave is where one may be, for any number of calls at once,
\* also with one id.
THEOREM TypeCorrect == Spec => []TypeOK
<1>1. IInv => TypeOK
  BY DEF IInv
<1> QED
  BY <1>1, Invariant, PTL

----------------------------------------------------------------------------
(***************************************************************************)
(* Who is told 0 is served, where callers with one query come after each   *)
(* other and only those give up whose ids come once.                       *)
(***************************************************************************)
Ordered == OneCaller /\ MayTimeout \subseteq Bailing

Among(s, M) == \E j \in DOMAIN s : s[j] \in M
Once(s, M)  == \A j, k \in DOMAIN s : s[j] \in M /\ s[k] \in M => j = k

\* What is on its way about id i: the command that creates its slave, the one that
\* ends it, an answer, an answer of 0; and that there is one at most.
Creating(i)  == Among(toWorker, {CreateCommand(i)})
Ending(i)    == Among(toWorker, {ExitCommand(i)})
Replies(i)   == {a \in Answers : a.id = i}
Replied(i)   == Among(toMain, Replies(i))
Told(i)      == Among(toMain, {[id |-> i, status |-> SUCCESS]})
OneCreate(i) == Once(toWorker, {CreateCommand(i)})
OneEnding(i) == Once(toWorker, {ExitCommand(i)})
OneReply(i)  == Once(toMain, Replies(i))

Busy(c)   == pc[c] # "idle"
Asking(c) == pc[c] \in {"sent", "waiting", "woken"}
Served(c) == pc[c] \in {"open", "opening", "reading", "exit"}

\* No command that ends the slave was sent, or taken.
Quiet(i) == ~Ending(i) /\ shutting[i] = 0

\* A 0 is on its way to the caller.
Won(i) == Told(i) \/ ready[i] = Marked(SUCCESS)

\* Ids are not shared, and only bailing clients have fresh ones.
OwnId ==
    /\ \A c, d \in Clients : Busy(c) /\ Busy(d) /\ id[c] = id[d] => c = d
    /\ \A c \in Clients : Busy(c) => IF c \in Bailing THEN id[c] \in used ELSE id[c] \in QueryIds
    /\ \A c \in Clients : pc[c] = "bail" => c \in Bailing

\* A call is one command, then one answer, then one marked entry.
OneToken ==
    \A i \in Ids :
        /\ OneCreate(i)
        /\ OneReply(i)
        /\ Creating(i) => ~Replied(i) /\ ~ready[i].done
        /\ Replied(i) => ~ready[i].done

\* It is there for somebody who asks, or with an id that is not used again.
TokenIsAsked ==
    \A i \in Ids :
        Creating(i) \/ Replied(i) \/ ready[i].done
        => i \in used \/ \E c \in Clients : Asking(c) /\ id[c] = i

\* Entries that are not marked have somebody who waits, and who waits has one.
EntryIsAwaited ==
    /\ \A i \in Ids :
         \/ ready[i] = NoEntry
         \/ ready[i].done
         \/ \E c \in Clients : pc[c] \in {"waiting", "woken"} /\ id[c] = i
    /\ \A c \in Clients : pc[c] = "waiting" => ready[id[c]] = Waiting \/ ready[id[c]].done
    /\ \A c \in Clients : pc[c] = "woken" => c \in Bailing \/ ready[id[c]].done

\* Who is served, or is to be told 0, has a slave that nobody ends.
SlaveIsKept ==
    \A c \in Clients : Served(c) \/ (Asking(c) /\ Won(id[c])) =>
        slave[id[c]] # "none" /\ Quiet(id[c])

\* The slave of a query is told to end once, and is there until then; that of a
\* fresh id is not told to before its call is over.
EndsOnce ==
    /\ \A i \in QueryIds :
         /\ OneEnding(i)
         /\ shutting[i] \in {0, 1}
         /\ Ending(i) => shutting[i] = 0
         /\ slave[i] = "none" => Quiet(i)
    /\ \A i \in FreshIds : i \notin used => Quiet(i)
    /\ \A c \in Clients : c \in Bailing /\ Busy(c) => Quiet(id[c])

Calls == OwnId /\ OneToken /\ TokenIsAsked /\ EntryIsAwaited
Inv   == IInv /\ Calls /\ SlaveIsKept /\ EndsOnce

----------------------------------------------------------------------------
\* Messages behind and in front of others.

LEMMA AmongAppended ==
    ASSUME NEW S, NEW s \in Seq(S), NEW m \in S, NEW M
    PROVE  /\ Among(Append(s, m), M) <=> Among(s, M) \/ m \in M
           /\ Once(s, M) /\ (m \in M => ~Among(s, M)) => Once(Append(s, m), M)
<1>1. /\ DOMAIN Append(s, m) = 1..(Len(s) + 1) /\ DOMAIN s = 1..Len(s) /\ Len(s) \in Nat
      /\ \A j \in 1..Len(s) : Append(s, m)[j] = s[j]
      /\ Append(s, m)[Len(s) + 1] = m
  OBVIOUS
<1>2. \A j \in 1..(Len(s) + 1) : j \in 1..Len(s) \/ j = Len(s) + 1
  BY <1>1
<1>3. Len(s) + 1 \in 1..(Len(s) + 1) /\ \A j \in 1..Len(s) : j \in 1..(Len(s) + 1)
  BY <1>1
<1> QED
  BY <1>1, <1>2, <1>3 DEF Among, Once

LEMMA AmongTail ==
    ASSUME NEW S, NEW s \in Seq(S), s # <<>>, NEW M
    PROVE  /\ Head(s) \in M => Among(s, M)
           /\ Among(Tail(s), M) => Among(s, M)
           /\ Once(s, M) => Once(Tail(s), M)
           /\ Once(s, M) /\ Head(s) \in M => ~Among(Tail(s), M)
<1>1. /\ Len(s) \in Nat \ {0} /\ DOMAIN s = 1..Len(s) /\ Head(s) = s[1]
      /\ Tail(s) \in Seq(S) /\ Len(Tail(s)) = Len(s) - 1
      /\ \A j \in 1..(Len(s) - 1) : Tail(s)[j] = s[j + 1]
  BY HeadTailProperties
<1>2. DOMAIN Tail(s) = 1..(Len(s) - 1)
  BY <1>1
<1>3. \A j \in 1..(Len(s) - 1) : j + 1 \in 1..Len(s) /\ j + 1 # 1
  BY <1>1
<1>4. 1 \in 1..Len(s) /\ \A j, k \in 1..(Len(s) - 1) : j + 1 = k + 1 => j = k
  BY <1>1
<1> QED
  BY <1>1, <1>2, <1>3, <1>4 DEF Among, Once

\* Commands and answers tell ids apart.
LEMMA Apart ==
    ASSUME NEW i \in Ids, NEW j \in Ids, NEW s \in Statuses
    PROVE  /\ CreateCommand(i) \in {CreateCommand(j)} <=> i = j
           /\ ExitCommand(i) \in {ExitCommand(j)} <=> i = j
           /\ CreateCommand(i) \notin {ExitCommand(j)}
           /\ ExitCommand(i) \notin {CreateCommand(j)}
           /\ [id |-> i, status |-> s] \in Replies(j) <=> i = j
           /\ [id |-> i, status |-> s] \in {[id |-> j, status |-> SUCCESS]} <=> i = j /\ s = SUCCESS
<1>1. CreateCommand(i).id = i /\ CreateCommand(j).id = j /\ CreateCommand(i).command = "create"
  BY DEF CreateCommand
<1>2. ExitCommand(i).id = i /\ ExitCommand(j).id = j /\ ExitCommand(j).command = "shutdown"
  BY DEF ExitCommand
<1>3. CreateCommand(j).command = "create" /\ ExitCommand(i).command = "shutdown"
  BY DEF CreateCommand, ExitCommand
<1>4. [id |-> i, status |-> s] \in Answers /\ [id |-> i, status |-> s].id = i
  BY DEF Answers
<1>5. [id |-> i, status |-> s].status = s /\ [id |-> j, status |-> SUCCESS].status = SUCCESS
      /\ [id |-> j, status |-> SUCCESS].id = j
  OBVIOUS
<1> QED
  BY <1>1, <1>2, <1>3, <1>4, <1>5 DEF Replies

LEMMA ToldIsReplied ==
    ASSUME IInv, NEW i \in Ids, Told(i)
    PROVE  Replied(i)
<1>1. SUCCESS \in Statuses
  BY DEF Statuses
<1>2. [id |-> i, status |-> SUCCESS] \in Replies(i)
  BY <1>1, Apart
<1> QED
  BY <1>2 DEF Told, Replied, Among

\* A command that creates a slave is sent.
LEMMA CreateSent ==
    ASSUME IInv, NEW i \in Ids, Send(CreateCommand(i)), NEW j \in Ids
    PROVE  /\ Creating(j)' <=> Creating(j) \/ j = i
           /\ Ending(j)' <=> Ending(j)
           /\ OneCreate(j) /\ (j = i => ~Creating(j)) => OneCreate(j)'
           /\ OneEnding(j) => OneEnding(j)'
<1>1. toWorker \in Seq(Commands) /\ CreateCommand(i) \in Commands
  BY Messages DEF IInv, TypeOK, Commands, Statuses
<1>2. toWorker' = Append(toWorker, CreateCommand(i))
  BY DEF Send
<1>3. /\ CreateCommand(i) \in {CreateCommand(j)} <=> i = j
      /\ CreateCommand(i) \notin {ExitCommand(j)}
  BY Apart DEF Statuses
<1> QED
  BY <1>1, <1>2, <1>3, AmongAppended DEF Creating, Ending, OneCreate, OneEnding

\* A command that ends one is sent.
LEMMA ExitSent ==
    ASSUME IInv, NEW i \in Ids, Send(ExitCommand(i)), NEW j \in Ids
    PROVE  /\ Creating(j)' <=> Creating(j)
           /\ Ending(j)' <=> Ending(j) \/ j = i
           /\ OneCreate(j) => OneCreate(j)'
           /\ OneEnding(j) /\ (j = i => ~Ending(j)) => OneEnding(j)'
<1>1. toWorker \in Seq(Commands) /\ ExitCommand(i) \in Commands
  BY Messages DEF IInv, TypeOK, Commands, Statuses
<1>2. toWorker' = Append(toWorker, ExitCommand(i))
  BY DEF Send
<1>3. /\ ExitCommand(i) \in {ExitCommand(j)} <=> i = j
      /\ ExitCommand(i) \notin {CreateCommand(j)}
  BY Apart DEF Statuses
<1> QED
  BY <1>1, <1>2, <1>3, AmongAppended DEF Creating, Ending, OneCreate, OneEnding

\* The worker takes a command.
LEMMA CommandTaken ==
    ASSUME IInv, toWorker # <<>>, toWorker' = Tail(toWorker), NEW j \in Ids
    PROVE  /\ Creating(j)' => Creating(j)
           /\ Ending(j)' => Ending(j)
           /\ OneCreate(j) => OneCreate(j)'
           /\ OneEnding(j) => OneEnding(j)'
           /\ Head(toWorker) = CreateCommand(j) => Creating(j) /\ (OneCreate(j) => ~Creating(j)')
           /\ Head(toWorker) = ExitCommand(j) => Ending(j) /\ (OneEnding(j) => ~Ending(j)')
<1>1. toWorker \in Seq(Commands)
  BY DEF IInv, TypeOK, Commands
<1> QED
  BY <1>1, AmongTail DEF Creating, Ending, OneCreate, OneEnding

\* What the worker takes is one of the two commands.
LEMMA CommandIs ==
    ASSUME IInv, toWorker # <<>>
    PROVE  /\ Head(toWorker).id \in Ids
           /\ Head(toWorker).command = "create" => Head(toWorker) = CreateCommand(Head(toWorker).id)
           /\ Head(toWorker).command = "shutdown" => Head(toWorker) = ExitCommand(Head(toWorker).id)
<1>1. Head(toWorker) \in Commands
  BY FirstOf DEF IInv, TypeOK, Commands
<1> QED
  BY <1>1 DEF Commands, CreateCommand, ExitCommand

\* The worker answers.
LEMMA ReplySent ==
    ASSUME IInv, NEW i \in Ids, NEW s \in Statuses, Answer(i, s), NEW j \in Ids
    PROVE  /\ Replied(j)' <=> Replied(j) \/ j = i
           /\ Told(j)' <=> Told(j) \/ (j = i /\ s = SUCCESS)
           /\ OneReply(j) /\ (j = i => ~Replied(j)) => OneReply(j)'
<1>1. toMain \in Seq(Answers) /\ [id |-> i, status |-> s] \in Answers
  BY DEF IInv, TypeOK, Answers
<1>2. toMain' = Append(toMain, [id |-> i, status |-> s])
  BY DEF Answer
<1>3. /\ [id |-> i, status |-> s] \in Replies(j) <=> i = j
      /\ [id |-> i, status |-> s] \in {[id |-> j, status |-> SUCCESS]} <=> i = j /\ s = SUCCESS
  BY Apart
<1> QED
  BY <1>1, <1>2, <1>3, AmongAppended DEF Replied, Told, OneReply

\* The reader takes an answer.
LEMMA ReplyTaken ==
    ASSUME IInv, toMain # <<>>, toMain' = Tail(toMain)
    PROVE  /\ Head(toMain).id \in Ids /\ Head(toMain).status \in Statuses
           /\ Replied(Head(toMain).id)
           /\ Head(toMain).status = SUCCESS => Told(Head(toMain).id)
           /\ \A j \in Ids : /\ j = Head(toMain).id /\ OneReply(j) => ~Replied(j)'
                             /\ Replied(j)' => Replied(j)
                             /\ Told(j)' => Told(j)
                             /\ OneReply(j) => OneReply(j)'
<1>1. toMain \in Seq(Answers) /\ Head(toMain) \in Answers
  BY FirstOf DEF IInv, TypeOK, Answers
<1>2. Head(toMain).id \in Ids /\ Head(toMain).status \in Statuses
  BY <1>1 DEF Answers
<1>3. Head(toMain) \in Replies(Head(toMain).id)
  BY <1>1 DEF Replies
<1>4. Head(toMain).status = SUCCESS => Head(toMain) \in {[id |-> Head(toMain).id, status |-> SUCCESS]}
  BY <1>1 DEF Answers
<1>5. \A j \in Ids : /\ Replied(j)' => Replied(j)
                     /\ Told(j)' => Told(j)
                     /\ OneReply(j) => OneReply(j)'
  BY <1>1, AmongTail DEF Replied, Told, OneReply
<1>6. /\ Among(toMain, Replies(Head(toMain).id))
      /\ Once(toMain, Replies(Head(toMain).id)) => ~Among(Tail(toMain), Replies(Head(toMain).id))
  BY <1>1, <1>3, AmongTail
<1>7. Head(toMain).status = SUCCESS => Told(Head(toMain).id)
  BY <1>1, <1>4, AmongTail DEF Told
<1>8. \A j \in Ids : j = Head(toMain).id /\ OneReply(j) => ~Replied(j)'
  BY <1>6 DEF OneReply, Replied, Replies
<1>9. Replied(Head(toMain).id)
  BY <1>6 DEF Replied
<1> QED
  BY <1>2, <1>5, <1>7, <1>8, <1>9

\* What a step that leaves a pipe alone leaves alone.
LEMMA PipesKept ==
    ASSUME NEW i
    PROVE  /\ UNCHANGED toWorker => /\ Creating(i)' <=> Creating(i)
                                    /\ Ending(i)' <=> Ending(i)
                                    /\ OneCreate(i)' <=> OneCreate(i)
                                    /\ OneEnding(i)' <=> OneEnding(i)
           /\ UNCHANGED toMain => /\ Replied(i)' <=> Replied(i)
                                  /\ Told(i)' <=> Told(i)
                                  /\ OneReply(i)' <=> OneReply(i)
  BY DEF Creating, Ending, OneCreate, OneEnding, Replied, Told, OneReply

----------------------------------------------------------------------------
\* The steps.

\* Init: nothing is on its way.
LEMMA InitInv == Init => Inv
<1> SUFFICES ASSUME Init PROVE Inv
  OBVIOUS
<1>1. IInv
  BY InitOK
<1>2. \A i : ~Creating(i) /\ ~Ending(i) /\ ~Replied(i) /\ OneCreate(i) /\ OneEnding(i) /\ OneReply(i)
  BY DEF Init, Creating, Ending, Replied, OneCreate, OneEnding, OneReply, Among, Once
<1>3. \A i \in Ids : ready[i] = NoEntry /\ ~ready[i].done /\ shutting[i] = 0
  BY DEF Init, NoEntry
<1>4. Calls
  BY <1>2, <1>3 DEF Init, Calls, OwnId, OneToken, TokenIsAsked, EntryIsAwaited, Busy
<1>5. SlaveIsKept /\ EndsOnce
  BY <1>2, <1>3 DEF Init, SlaveIsKept, EndsOnce, Served, Asking, Quiet, Busy, Ids
<1> QED
  BY <1>1, <1>4, <1>5 DEF Inv

\* A step that moves callers on without a message or an entry, and no slave away.
LEMMA MovesKeep ==
    ASSUME Inv, UNCHANGED <<pipeVars, ready, shutting, id, used>>,
           \A c \in Clients : \/ pc'[c] = pc[c]
                              \/ Served(c) /\ Served(c)'
                              \/ /\ pc[c] = "waiting" /\ pc'[c] = "woken"
                                 /\ c \in Bailing \/ ready[id[c]].done,
           \A i \in Ids : slave'[i] = "none" <=> slave[i] = "none"
    PROVE  (Calls /\ SlaveIsKept /\ EndsOnce)'
<1>1. \A c \in Clients : /\ Busy(c)' <=> Busy(c)
                         /\ Asking(c)' <=> Asking(c)
                         /\ Served(c)' => Served(c)
                         /\ pc'[c] = "bail" => pc[c] = "bail"
  BY DEF Busy, Asking, Served
<1>2. \A i \in Ids : /\ Creating(i)' <=> Creating(i)
                     /\ Ending(i)' <=> Ending(i)
                     /\ OneCreate(i)' <=> OneCreate(i)
                     /\ OneEnding(i)' <=> OneEnding(i)
                     /\ Replied(i)' <=> Replied(i)
                     /\ Told(i)' <=> Told(i)
                     /\ OneReply(i)' <=> OneReply(i)
                     /\ Quiet(i)' <=> Quiet(i)
                     /\ Won(i)' <=> Won(i)
  BY PipesKept DEF pipeVars, Quiet, Won
<1>3. \A c \in Clients : Busy(c) => id[c] \in Ids
  BY DEF Inv, IInv, HasId, Busy
<1>4. OwnId'
  BY <1>1 DEF Inv, Calls, OwnId
<1>5. OneToken'
  BY <1>2 DEF Inv, Calls, OneToken
<1>6. TokenIsAsked'
  BY <1>1, <1>2 DEF Inv, Calls, TokenIsAsked
<1>7. EntryIsAwaited'
  <2>1. \A c \in Clients : pc[c] \in {"waiting", "woken"} => pc'[c] \in {"waiting", "woken"}
    BY DEF Served
  <2>2. \A c \in Clients : pc'[c] = "waiting" => pc[c] = "waiting"
    BY DEF Served
  <2>3. \A c \in Clients : pc'[c] = "woken" => pc[c] = "woken" \/ c \in Bailing \/ ready[id[c]].done
    BY DEF Served
  <2> QED
    BY <2>1, <2>2, <2>3 DEF Inv, Calls, EntryIsAwaited
<1>8. SlaveIsKept'
  <2>1. \A c \in Clients : Served(c) \/ Asking(c) => Busy(c)
    BY DEF Served, Asking, Busy
  <2> QED
    BY <1>1, <1>2, <1>3, <2>1 DEF Inv, SlaveIsKept
<1>9. EndsOnce'
  BY <1>1, <1>2, <1>3 DEF Inv, EndsOnce, Ids
<1> QED
  BY <1>4, <1>5, <1>6, <1>7, <1>8, <1>9 DEF Calls

\* A call uses an id that nobody uses, and about which nothing is on its way.
LEMMA CallKeeps ==
    ASSUME Inv, Ordered, NEW c \in Clients, NEW i \in Ids, Call(c, i)
    PROVE  (Calls /\ SlaveIsKept /\ EndsOnce)'
<1>1. /\ ~Busy(c)
      /\ pc' = [pc EXCEPT ![c] = "sent"] /\ id' = [id EXCEPT ![c] = i]
      /\ UNCHANGED <<toMain, ready, slave, shutting>>
      /\ used' = used \cup (FreshIds \cap {i})
      /\ Send(CreateCommand(i))
  BY DEF Call, Goto, At, Busy, workerVars
<1>2. /\ used \subseteq FreshIds /\ QueryIds \cap FreshIds = {}
      /\ pc \in [Clients -> {"idle", "sent", "waiting", "woken", "bail", "open", "opening",
                             "stuck", "reading", "exit"}]
      /\ id \in [Clients -> Ids \cup {NoId}]
  BY ConstantsAssumption DEF Inv, IInv, TypeOK
<1>3. IF c \in Bailing THEN i \in FreshIds \ used
      ELSE i \in QueryIds /\ \A d \in Clients : Busy(d) => id[d] # i
  BY DEF Call, OwnIds, Ordered, At, Busy
<1>4. i \notin used /\ \A d \in Clients : Busy(d) => id[d] # i
  BY <1>2, <1>3 DEF Inv, Calls, OwnId
<1>5. ~Creating(i) /\ ~Replied(i) /\ ~ready[i].done
  BY <1>4 DEF Inv, Calls, TokenIsAsked, Asking, Busy
<1>6. \A j \in Ids : /\ Creating(j)' <=> Creating(j) \/ j = i
                     /\ Ending(j)' <=> Ending(j)
                     /\ OneCreate(j) /\ (j = i => ~Creating(j)) => OneCreate(j)'
                     /\ OneEnding(j) => OneEnding(j)'
                     /\ Replied(j)' <=> Replied(j)
                     /\ Told(j)' <=> Told(j)
                     /\ OneReply(j)' <=> OneReply(j)
  BY <1>1, CreateSent, PipesKept DEF Inv
<1>7. \A j \in Ids : (Won(j)' <=> Won(j)) /\ (Quiet(j)' <=> Quiet(j))
  BY <1>1, <1>6 DEF Won, Quiet
<1>8. \A d \in Clients \ {c} : pc'[d] = pc[d] /\ id'[d] = id[d]
  BY <1>1, <1>2
<1>9. pc'[c] = "sent" /\ id'[c] = i
  BY <1>1, <1>2
<1>10. \A d \in Clients : Busy(d) => id[d] \in Ids
  BY DEF Inv, IInv, HasId, Busy
<1>11. OwnId'
  <2>1. \A d \in Clients \ {c} : (Busy(d)' <=> Busy(d)) /\ (pc'[d] = "bail" <=> pc[d] = "bail")
    BY <1>8 DEF Busy
  <2>2. \A d, e \in Clients : Busy(d)' /\ Busy(e)' /\ id'[d] = id'[e] => d = e
    BY <1>4, <1>8, <1>9, <2>1 DEF Inv, Calls, OwnId
  <2>3. \A d \in Clients : Busy(d)' => IF d \in Bailing THEN id'[d] \in used' ELSE id'[d] \in QueryIds
    BY <1>1, <1>3, <1>8, <1>9, <2>1 DEF Inv, Calls, OwnId
  <2>4. \A d \in Clients : pc'[d] = "bail" => d \in Bailing
    BY <1>9, <2>1 DEF Inv, Calls, OwnId
  <2> QED
    BY <2>2, <2>3, <2>4 DEF OwnId
<1>12. OneToken'
  BY <1>1, <1>5, <1>6 DEF Inv, Calls, OneToken
<1>13. TokenIsAsked'
  <2>1. \A d \in Clients : Asking(d) => Asking(d)' /\ id'[d] = id[d]
    BY <1>1, <1>8 DEF Asking, Busy
  <2>2. Asking(c)' /\ id'[c] = i
    BY <1>9 DEF Asking
  <2> QED
    BY <1>1, <1>6, <2>1, <2>2 DEF Inv, Calls, TokenIsAsked
<1>14. EntryIsAwaited'
  <2>1. \A d \in Clients : pc[d] \in {"waiting", "woken"} => pc'[d] = pc[d] /\ id'[d] = id[d]
    BY <1>1, <1>8 DEF Busy
  <2>2. \A d \in Clients : pc'[d] \in {"waiting", "woken"} => pc'[d] = pc[d] /\ id'[d] = id[d]
    BY <1>8, <1>9
  <2> QED
    BY <1>1, <2>1, <2>2 DEF Inv, Calls, EntryIsAwaited
<1>15. SlaveIsKept'
  <2>1. ~Won(i)
    <3>1. ~Told(i)
      BY <1>5, ToldIsReplied DEF Inv
    <3> QED
      BY <1>5, <3>1 DEF Won, Marked
  <2>2. \A d \in Clients \ {c} : /\ Served(d)' => Served(d) /\ Busy(d)
                                 /\ Asking(d)' => Asking(d) /\ Busy(d)
    BY <1>8 DEF Served, Asking, Busy
  <2>3. ~Served(c)'
    BY <1>9 DEF Served
  <2> QED
    BY <1>1, <1>7, <1>8, <1>9, <1>10, <2>1, <2>2, <2>3 DEF Inv, SlaveIsKept
<1>16. EndsOnce'
  <2>1. \A j \in FreshIds : j \notin used' => Quiet(j)'
    BY <1>1, <1>7 DEF Inv, EndsOnce, Ids
  <2>2. c \in Bailing => Quiet(i)'
    BY <1>3, <1>7 DEF Inv, EndsOnce
  <2>3. \A d \in Clients : d \in Bailing /\ Busy(d)' => Quiet(id[d])'
    BY <1>7, <1>8, <1>9, <1>10, <2>2 DEF Inv, EndsOnce, Busy
  <2>4. \A j \in QueryIds : /\ OneEnding(j)'
                            /\ shutting'[j] \in {0, 1}
                            /\ Ending(j)' => shutting'[j] = 0
                            /\ slave'[j] = "none" => Quiet(j)'
    BY <1>1, <1>6, <1>7 DEF Inv, EndsOnce, Ids
  <2> QED
    BY <2>1, <2>3, <2>4 DEF EndsOnce
<1> QED
  BY <1>11, <1>12, <1>13, <1>14, <1>15, <1>16 DEF Calls

\* A caller that finds no entry makes one, and waits.
LEMMA LookKeeps ==
    ASSUME Inv, NEW c \in Clients, pc[c] = "sent", ready[id[c]] = NoEntry,
           ready' = [ready EXCEPT ![id[c]] = Waiting], pc' = [pc EXCEPT ![c] = "waiting"],
           UNCHANGED <<pipeVars, workerVars, id, used>>
    PROVE  (Calls /\ SlaveIsKept /\ EndsOnce)'
<1>1. /\ pc'[c] = "waiting" /\ \A d \in Clients \ {c} : pc'[d] = pc[d]
      /\ ready'[id[c]] = Waiting /\ \A i \in Ids \ {id[c]} : ready'[i] = ready[i]
      /\ id[c] \in Ids /\ \A d \in Clients : Busy(d) => id[d] \in Ids
  BY DEF Inv, IInv, TypeOK, HasId, Busy
<1>2. \A i \in Ids : /\ ready'[i].done <=> ready[i].done
                     /\ ready'[i] = Marked(SUCCESS) <=> ready[i] = Marked(SUCCESS)
  BY <1>1 DEF Waiting, NoEntry, Marked
<1>3. \A i \in Ids : /\ Creating(i)' <=> Creating(i)
                     /\ Ending(i)' <=> Ending(i)
                     /\ OneCreate(i)' <=> OneCreate(i)
                     /\ OneEnding(i)' <=> OneEnding(i)
                     /\ Replied(i)' <=> Replied(i)
                     /\ OneReply(i)' <=> OneReply(i)
                     /\ Quiet(i)' <=> Quiet(i)
                     /\ Won(i)' <=> Won(i)
  BY <1>2, PipesKept DEF pipeVars, workerVars, Quiet, Won
<1>4. \A d \in Clients : /\ Busy(d)' <=> Busy(d)
                         /\ Asking(d)' <=> Asking(d)
                         /\ Served(d)' <=> Served(d)
                         /\ pc'[d] = "bail" <=> pc[d] = "bail"
                         /\ Served(d) \/ Asking(d) => Busy(d)
  BY <1>1 DEF Busy, Asking, Served
<1>5. OwnId'
  BY <1>4 DEF Inv, Calls, OwnId
<1>6. OneToken'
  BY <1>2, <1>3 DEF Inv, Calls, OneToken
<1>7. TokenIsAsked'
  BY <1>2, <1>3, <1>4 DEF Inv, Calls, TokenIsAsked
<1>8. EntryIsAwaited'
  <2>1. \A i \in Ids : \/ ready'[i] = NoEntry
                       \/ ready'[i].done
                       \/ \E d \in Clients : pc'[d] \in {"waiting", "woken"} /\ id[d] = i
    <3> SUFFICES ASSUME NEW i \in Ids
                 PROVE  \/ ready'[i] = NoEntry
                        \/ ready'[i].done
                        \/ \E d \in Clients : pc'[d] \in {"waiting", "woken"} /\ id[d] = i
      OBVIOUS
    <3>1. CASE i = id[c]
      BY <1>1, <3>1
    <3>2. CASE i # id[c]
      BY <1>1, <3>2 DEF Inv, Calls, EntryIsAwaited
    <3> QED
      BY <3>1, <3>2
  <2>2. \A d \in Clients : pc'[d] = "waiting" => ready'[id[d]] = Waiting \/ ready'[id[d]].done
    BY <1>1, <1>2 DEF Inv, Calls, EntryIsAwaited, Busy
  <2>3. \A d \in Clients : pc'[d] = "woken" => d \in Bailing \/ ready'[id[d]].done
    BY <1>1, <1>2 DEF Inv, Calls, EntryIsAwaited, Busy
  <2> QED
    BY <2>1, <2>2, <2>3 DEF EntryIsAwaited
<1>9. SlaveIsKept'
  BY <1>1, <1>3, <1>4 DEF Inv, SlaveIsKept, workerVars
<1>10. EndsOnce'
  BY <1>1, <1>3, <1>4 DEF Inv, EndsOnce, workerVars, Ids
<1> QED
  BY <1>5, <1>6, <1>7, <1>8, <1>9, <1>10 DEF Calls

\* A caller takes its entry: it was answered, or its id is not used again.
LEMMA TakeKeeps ==
    ASSUME Inv, NEW c \in Clients, Take(c), UNCHANGED <<pipeVars, workerVars, id, used>>,
           \/ pc[c] = "sent" /\ ready[id[c]] # NoEntry
           \/ pc[c] = "woken"
    PROVE  (Calls /\ SlaveIsKept /\ EndsOnce)'
<1>1. /\ \A d \in Clients \ {c} : pc'[d] = pc[d]
      /\ ready'[id[c]] = NoEntry /\ \A i \in Ids \ {id[c]} : ready'[i] = ready[i]
      /\ id[c] \in Ids /\ \A d \in Clients : Busy(d) => id[d] \in Ids
      /\ pc'[c] = AfterStatus(c, IF ready[id[c]] = NoEntry THEN TIMEOUT ELSE ready[id[c]].status)
      /\ Busy(c) /\ Asking(c)
  BY DEF Take, Goto, Inv, IInv, TypeOK, HasId, Busy, Asking
<1>2. \A d \in Clients \ {c} : Busy(d) => id[d] # id[c]
  BY <1>1 DEF Inv, Calls, OwnId
<1>3. c \in Bailing \/ ready[id[c]].done
  BY <1>1, <1>2 DEF Inv, Calls, EntryIsAwaited, Busy
<1>4. /\ pc'[c] \in {"open", "bail", "idle"}
      /\ pc'[c] = "bail" => c \in Bailing
      /\ pc'[c] = "open" => Won(id[c])
  <2>1. pc'[c] \in {"open", "bail", "idle"} /\ (pc'[c] = "bail" => c \in Bailing)
    BY <1>1 DEF AfterStatus
  <2>2. ASSUME pc'[c] = "open"
        PROVE  ready[id[c]] # NoEntry /\ ready[id[c]].status = SUCCESS
    BY <1>1, <2>2 DEF AfterStatus, TIMEOUT, SUCCESS
  <2>3. ready[id[c]] \in [done : BOOLEAN, status : Statuses]
    BY <1>1 DEF Inv, IInv, TypeOK
  <2>4. ASSUME pc'[c] = "open"
        PROVE  ready[id[c]] = Marked(SUCCESS)
    BY <2>2, <2>3, <2>4 DEF Marked, NoEntry
  <2> QED
    BY <2>1, <2>4 DEF Won
<1>5. \A i \in Ids : /\ Creating(i)' <=> Creating(i)
                     /\ Ending(i)' <=> Ending(i)
                     /\ OneCreate(i)' <=> OneCreate(i)
                     /\ OneEnding(i)' <=> OneEnding(i)
                     /\ Replied(i)' <=> Replied(i)
                     /\ Told(i)' <=> Told(i)
                     /\ OneReply(i)' <=> OneReply(i)
                     /\ Quiet(i)' <=> Quiet(i)
  BY PipesKept DEF pipeVars, workerVars, Quiet
<1>6. /\ ~ready'[id[c]].done
      /\ \A i \in Ids : (ready'[i].done => ready[i].done) /\ (Won(i)' => Won(i))
  BY <1>1, <1>5 DEF NoEntry, Won, Marked
<1>7. \A d \in Clients : Busy(d)' => Busy(d)
  BY <1>1 DEF Busy
<1>8. OwnId'
  BY <1>1, <1>4, <1>7 DEF Inv, Calls, OwnId
<1>9. OneToken'
  BY <1>5, <1>6 DEF Inv, Calls, OneToken
<1>10. TokenIsAsked'
  <2> SUFFICES ASSUME NEW i \in Ids, Creating(i) \/ Replied(i) \/ ready'[i].done, i \notin used
               PROVE  \E d \in Clients : Asking(d)' /\ id[d] = i
    BY <1>5 DEF TokenIsAsked
  <2>1. i # id[c]
    <3>1. c \in Bailing => id[c] \in used
      BY <1>1 DEF Inv, Calls, OwnId
    <3> QED
      BY <1>1, <1>3, <1>6, <3>1 DEF Inv, Calls, OneToken
  <2>2. PICK d \in Clients : Asking(d) /\ id[d] = i
    BY <1>6 DEF Inv, Calls, TokenIsAsked
  <2> QED
    BY <1>1, <2>1, <2>2 DEF Asking
<1>11. EntryIsAwaited'
  <2>1. \A i \in Ids : \/ ready'[i] = NoEntry
                       \/ ready'[i].done
                       \/ \E d \in Clients : pc'[d] \in {"waiting", "woken"} /\ id[d] = i
    <3> SUFFICES ASSUME NEW i \in Ids, i # id[c]
                 PROVE  \/ ready'[i] = NoEntry
                        \/ ready'[i].done
                        \/ \E d \in Clients : pc'[d] \in {"waiting", "woken"} /\ id[d] = i
      BY <1>1
    <3> QED
      BY <1>1 DEF Inv, Calls, EntryIsAwaited
  <2>2. \A d \in Clients : pc'[d] \in {"waiting", "woken"} =>
          d # c /\ pc'[d] = pc[d] /\ ready'[id[d]] = ready[id[d]]
    BY <1>1, <1>2, <1>4 DEF Busy
  <2> QED
    BY <2>1, <2>2 DEF Inv, Calls, EntryIsAwaited
<1>12. SlaveIsKept'
  <2>1. \A d \in Clients \ {c} : /\ Served(d)' => Served(d) /\ Busy(d)
                                 /\ Asking(d)' => Asking(d) /\ Busy(d)
    BY <1>1 DEF Served, Asking, Busy
  <2>2. Served(c)' => Won(id[c])
    BY <1>4 DEF Served
  <2>3. ~Asking(c)'
    BY <1>4 DEF Asking
  <2> QED
    BY <1>1, <1>5, <1>6, <2>1, <2>2, <2>3 DEF Inv, SlaveIsKept, workerVars
<1>13. EndsOnce'
  BY <1>1, <1>5, <1>7 DEF Inv, EndsOnce, workerVars, Ids
<1> QED
  BY <1>8, <1>9, <1>10, <1>11, <1>12, <1>13 DEF Calls

\* The end of a call, or of one that was given up: the slave is told to end.
LEMMA ExitKeeps ==
    ASSUME Inv, NEW c \in Clients, pc[c] \in {"bail", "exit"}, Send(ExitCommand(id[c])),
           pc' = [pc EXCEPT ![c] = "idle"], UNCHANGED <<toMain, ready, workerVars, id, used>>
    PROVE  (Calls /\ SlaveIsKept /\ EndsOnce)'
<1>1. /\ pc'[c] = "idle" /\ \A d \in Clients \ {c} : pc'[d] = pc[d]
      /\ id[c] \in Ids /\ \A d \in Clients : Busy(d) => id[d] \in Ids
      /\ Busy(c)
  BY DEF Inv, IInv, TypeOK, HasId, Busy
<1>2. \A d \in Clients \ {c} : Busy(d) => id[d] # id[c]
  BY <1>1 DEF Inv, Calls, OwnId
<1>3. \A j \in Ids : /\ Creating(j)' <=> Creating(j)
                     /\ Ending(j)' <=> Ending(j) \/ j = id[c]
                     /\ OneCreate(j) => OneCreate(j)'
                     /\ OneEnding(j) /\ (j = id[c] => ~Ending(j)) => OneEnding(j)'
                     /\ Replied(j)' <=> Replied(j)
                     /\ Told(j)' <=> Told(j)
                     /\ OneReply(j)' <=> OneReply(j)
  BY <1>1, ExitSent, PipesKept DEF Inv
<1>4. \A j \in Ids : /\ Won(j)' <=> Won(j)
                     /\ j # id[c] => (Quiet(j)' <=> Quiet(j))
  BY <1>3 DEF Won, Quiet, workerVars
<1>5. \A d \in Clients : /\ Asking(d)' <=> Asking(d)
                         /\ Served(d)' => d # c /\ Served(d) /\ Busy(d)
                         /\ Asking(d)' => d # c /\ Busy(d)
                         /\ Busy(d)' => d # c /\ Busy(d)
                         /\ pc'[d] = "bail" => pc[d] = "bail"
                         /\ pc'[d] \in {"waiting", "woken"} <=> pc[d] \in {"waiting", "woken"}
                         /\ pc'[d] \in {"waiting", "woken"} => pc'[d] = pc[d]
  BY <1>1 DEF Asking, Served, Busy
<1>6. OwnId'
  BY <1>5 DEF Inv, Calls, OwnId
<1>7. OneToken'
  BY <1>3 DEF Inv, Calls, OneToken
<1>8. TokenIsAsked'
  BY <1>3, <1>5 DEF Inv, Calls, TokenIsAsked
<1>9. EntryIsAwaited'
  BY <1>5 DEF Inv, Calls, EntryIsAwaited
<1>10. SlaveIsKept'
  BY <1>1, <1>2, <1>4, <1>5 DEF Inv, SlaveIsKept, workerVars
<1>11. EndsOnce'
  <2>1. IF c \in Bailing THEN id[c] \in used ELSE id[c] \in QueryIds
    BY <1>1 DEF Inv, Calls, OwnId
  <2>2. used \subseteq FreshIds /\ QueryIds \cap FreshIds = {}
    BY ConstantsAssumption DEF Inv, IInv, TypeOK
  <2>3. id[c] \in QueryIds => slave[id[c]] # "none" /\ Quiet(id[c])
    <3>1. id[c] \in QueryIds => pc[c] = "exit"
      BY <2>1, <2>2 DEF Inv, Calls, OwnId
    <3> QED
      BY <3>1 DEF Inv, SlaveIsKept, Served
  <2>4. \A j \in QueryIds : /\ OneEnding(j)'
                            /\ shutting'[j] \in {0, 1}
                            /\ Ending(j)' => shutting'[j] = 0
                            /\ slave'[j] = "none" => Quiet(j)'
    <3> SUFFICES ASSUME NEW j \in QueryIds
                 PROVE  /\ OneEnding(j)'
                        /\ shutting'[j] \in {0, 1}
                        /\ Ending(j)' => shutting'[j] = 0
                        /\ slave'[j] = "none" => Quiet(j)'
      OBVIOUS
    <3>1. j \in Ids /\ shutting' = shutting /\ slave' = slave
      BY DEF Ids, workerVars
    <3>2. CASE j = id[c]
      BY <1>3, <2>3, <3>1, <3>2 DEF Inv, EndsOnce, Quiet
    <3>3. CASE j # id[c]
      BY <1>3, <1>4, <3>1, <3>3 DEF Inv, EndsOnce
    <3> QED
      BY <3>2, <3>3
  <2>5. \A j \in FreshIds : j \notin used => Quiet(j)'
    BY <1>4, <2>1, <2>2 DEF Inv, EndsOnce, Ids
  <2>6. \A d \in Clients : d \in Bailing /\ Busy(d)' => Quiet(id[d])'
    BY <1>1, <1>2, <1>4, <1>5 DEF Inv, EndsOnce
  <2> QED
    BY <2>4, <2>5, <2>6 DEF EndsOnce
<1> QED
  BY <1>6, <1>7, <1>8, <1>9, <1>10, <1>11 DEF Calls

\* The answer becomes an entry.
LEMMA MarkKeeps ==
    ASSUME Inv, mark_slave_ready
    PROVE  (Calls /\ SlaveIsKept /\ EndsOnce)'
<1> DEFINE h == Head(toMain)
<1>1. /\ toMain # <<>> /\ toMain' = Tail(toMain)
      /\ ready' = [ready EXCEPT ![h.id] = Marked(h.status)]
      /\ UNCHANGED <<toWorker, slave, shutting, pc, id, used>>
  BY DEF mark_slave_ready, workerVars, clientVars
<1>2. PICK i \in Ids : i = h.id
  BY <1>1, ReplyTaken DEF Inv
<1>3. /\ ready'[i] = Marked(h.status) /\ \A j \in Ids \ {i} : ready'[j] = ready[j]
      /\ \A d \in Clients : Busy(d) => id[d] \in Ids
  BY <1>1, <1>2 DEF Inv, IInv, TypeOK, HasId, Busy
<1>4. /\ Replied(i) /\ (h.status = SUCCESS => Told(i))
      /\ OneReply(i) => ~Replied(i)'
      /\ \A j \in Ids : /\ Replied(j)' => Replied(j)
                        /\ Told(j)' => Told(j)
                        /\ OneReply(j) => OneReply(j)'
  BY <1>1, <1>2, ReplyTaken DEF Inv
<1>5. \A j \in Ids : /\ Creating(j)' <=> Creating(j)
                     /\ Ending(j)' <=> Ending(j)
                     /\ OneCreate(j)' <=> OneCreate(j)
                     /\ OneEnding(j)' <=> OneEnding(j)
                     /\ Quiet(j)' <=> Quiet(j)
  BY <1>1, PipesKept DEF Quiet
<1>6. ready'[i].done /\ (ready'[i] = Marked(SUCCESS) => h.status = SUCCESS)
  BY <1>3 DEF Marked
<1>7. \A j \in Ids : Won(j)' => Won(j)
  BY <1>3, <1>4, <1>6 DEF Won
<1>8. \A d \in Clients : /\ Busy(d)' <=> Busy(d)
                         /\ Asking(d)' <=> Asking(d)
                         /\ Served(d)' <=> Served(d)
                         /\ Served(d) \/ Asking(d) => Busy(d)
                         /\ pc[d] \in {"waiting", "woken"} => Busy(d)
  BY <1>1 DEF Busy, Asking, Served
<1>9. OwnId'
  BY <1>1, <1>8 DEF Inv, Calls, OwnId
<1>10. OneToken'
  <2> SUFFICES ASSUME NEW j \in Ids
               PROVE  /\ OneCreate(j)'
                      /\ OneReply(j)'
                      /\ Creating(j)' => ~Replied(j)' /\ ~ready'[j].done
                      /\ Replied(j)' => ~ready'[j].done
    BY DEF OneToken
  <2>1. CASE j = i
    BY <1>4, <1>5, <2>1 DEF Inv, Calls, OneToken
  <2>2. CASE j # i
    BY <1>3, <1>4, <1>5, <2>2 DEF Inv, Calls, OneToken
  <2> QED
    BY <2>1, <2>2
<1>11. TokenIsAsked'
  <2> SUFFICES ASSUME NEW j \in Ids, Creating(j) \/ Replied(j) \/ ready'[j].done
               PROVE  j \in used \/ \E d \in Clients : Asking(d) /\ id[d] = j
    BY <1>1, <1>4, <1>5, <1>8 DEF TokenIsAsked
  <2> QED
    BY <1>3, <1>4 DEF Inv, Calls, TokenIsAsked
<1>12. EntryIsAwaited'
  BY <1>1, <1>3, <1>6, <1>8 DEF Inv, Calls, EntryIsAwaited
<1>13. SlaveIsKept'
  BY <1>1, <1>3, <1>5, <1>7, <1>8 DEF Inv, SlaveIsKept
<1>14. EndsOnce'
  BY <1>1, <1>3, <1>5, <1>8 DEF Inv, EndsOnce, Ids
<1> QED
  BY <1>9, <1>10, <1>11, <1>12, <1>13, <1>14 DEF Calls

\* The worker creates a slave, or says why not.
LEMMA CreateKeeps ==
    ASSUME Inv, ExecuteCreate
    PROVE  (Calls /\ SlaveIsKept /\ EndsOnce)'
<1>1. /\ toWorker # <<>> /\ toWorker' = Tail(toWorker) /\ Head(toWorker).command = "create"
      /\ UNCHANGED <<ready, shutting, pc, id, used>>
  BY DEF ExecuteCreate, clientVars
<1>2. PICK i \in Ids : i = Head(toWorker).id /\ Head(toWorker) = CreateCommand(i)
  BY <1>1, CommandIs DEF Inv
<1>3. \E s \in Statuses :
        /\ Answer(i, s)
        /\ \A j \in Ids : slave'[j] = "none" => slave[j] = "none"
        /\ \A j \in Ids : slave[j] # "none" => slave'[j] # "none"
        /\ s = SUCCESS => slave[i] = "none" /\ slave'[i] # "none"
  <2>1. slave \in [Ids -> {"none", "blocked", "running", "wrote", "exited"}]
    BY DEF Inv, IInv, TypeOK
  <2>2. {TIMEOUT, SUCCESS, ERR_SLAVE_EXIST, -1} \subseteq Statuses
        /\ SUCCESS # -1 /\ SUCCESS # ERR_SLAVE_EXIST
    BY DEF Statuses, TIMEOUT, SUCCESS, ERR_SLAVE_EXIST
  <2> QED
    BY <1>2, <2>1, <2>2 DEF ExecuteCreate
<1>4. PICK s \in Statuses :
        /\ Answer(i, s)
        /\ \A j \in Ids : slave'[j] = "none" => slave[j] = "none"
        /\ \A j \in Ids : slave[j] # "none" => slave'[j] # "none"
        /\ s = SUCCESS => slave[i] = "none" /\ slave'[i] # "none"
  BY <1>3
<1>5. \A j \in Ids : /\ Creating(j)' => Creating(j)
                     /\ Ending(j)' => Ending(j)
                     /\ OneCreate(j) => OneCreate(j)'
                     /\ OneEnding(j) => OneEnding(j)'
                     /\ Quiet(j) => Quiet(j)'
                     /\ Replied(j)' <=> Replied(j) \/ j = i
                     /\ Told(j)' <=> Told(j) \/ (j = i /\ s = SUCCESS)
                     /\ OneReply(j) /\ (j = i => ~Replied(j)) => OneReply(j)'
  BY <1>1, <1>4, CommandTaken, ReplySent DEF Inv, Quiet
<1>6. OneCreate(i) /\ Creating(i) /\ ~Creating(i)'
  BY <1>1, <1>2, CommandTaken DEF Inv, Calls, OneToken
<1>7. ~Replied(i) /\ ~ready[i].done
  BY <1>6 DEF Inv, Calls, OneToken
<1>8. \A d \in Clients : /\ Busy(d)' <=> Busy(d)
                         /\ Asking(d)' <=> Asking(d)
                         /\ Served(d)' <=> Served(d)
                         /\ Served(d) \/ Asking(d) => Busy(d)
                         /\ Busy(d) => id[d] \in Ids
  BY <1>1 DEF Busy, Asking, Served, Inv, IInv, HasId
<1>9. OwnId'
  BY <1>1, <1>8 DEF Inv, Calls, OwnId
<1>10. OneToken'
  <2> SUFFICES ASSUME NEW j \in Ids
               PROVE  /\ OneCreate(j)'
                      /\ OneReply(j)'
                      /\ Creating(j)' => ~Replied(j)' /\ ~ready'[j].done
                      /\ Replied(j)' => ~ready'[j].done
    BY DEF OneToken
  <2>1. CASE j = i
    BY <1>1, <1>5, <1>6, <1>7, <2>1 DEF Inv, Calls, OneToken
  <2>2. CASE j # i
    BY <1>1, <1>5, <2>2 DEF Inv, Calls, OneToken
  <2> QED
    BY <2>1, <2>2
<1>11. TokenIsAsked'
  BY <1>1, <1>5, <1>6, <1>8 DEF Inv, Calls, TokenIsAsked
<1>12. EntryIsAwaited'
  BY <1>1 DEF Inv, Calls, EntryIsAwaited
<1>13. SlaveIsKept'
  <2> SUFFICES ASSUME NEW c \in Clients, Served(c) \/ (Asking(c) /\ Won(id[c])')
               PROVE  slave'[id[c]] # "none" /\ Quiet(id[c])'
    BY <1>1, <1>8 DEF SlaveIsKept
  <2>1. CASE Served(c) \/ (Asking(c) /\ Won(id[c]))
    BY <1>1, <1>4, <1>5, <1>8, <2>1 DEF Inv, SlaveIsKept
  <2>2. CASE Asking(c) /\ ~Won(id[c]) /\ Won(id[c])'
    <3>1. id[c] = i /\ s = SUCCESS
      BY <1>1, <1>5, <1>8, <2>2 DEF Won
    <3>2. Quiet(i)
      <4>1. CASE c \in Bailing
        BY <1>8, <2>2, <3>1, <4>1 DEF Inv, EndsOnce
      <4>2. CASE c \notin Bailing
        <5>1. i \in QueryIds
          BY <1>8, <2>2, <3>1, <4>2 DEF Inv, Calls, OwnId
        <5> QED
          BY <1>4, <3>1, <5>1 DEF Inv, EndsOnce
      <4> QED
        BY <4>1, <4>2
    <3> QED
      BY <1>1, <1>4, <1>5, <3>1, <3>2
  <2> QED
    BY <2>1, <2>2
<1>14. EndsOnce'
  BY <1>1, <1>4, <1>5, <1>8 DEF Inv, EndsOnce, Ids
<1> QED
  BY <1>9, <1>10, <1>11, <1>12, <1>13, <1>14 DEF Calls

\* The worker is told to end a slave.
LEMMA ShutdownKeeps ==
    ASSUME Inv, ExecuteShutdown
    PROVE  (Calls /\ SlaveIsKept /\ EndsOnce)'
<1>1. /\ toWorker # <<>> /\ toWorker' = Tail(toWorker) /\ Head(toWorker).command = "shutdown"
      /\ UNCHANGED <<toMain, ready, slave, pc, id, used>>
  BY DEF ExecuteShutdown, clientVars
<1>2. PICK i \in Ids : i = Head(toWorker).id /\ Head(toWorker) = ExitCommand(i)
  BY <1>1, CommandIs DEF Inv
<1>3. /\ \A j \in Ids \ {i} : shutting'[j] = shutting[j]
      /\ shutting'[i] \in {shutting[i], shutting[i] + 1}
  BY <1>2 DEF ExecuteShutdown, Inv, IInv, TypeOK
<1>4. \A j \in Ids : /\ Creating(j)' => Creating(j)
                     /\ Ending(j)' => Ending(j)
                     /\ OneCreate(j) => OneCreate(j)'
                     /\ OneEnding(j) => OneEnding(j)'
                     /\ Replied(j)' <=> Replied(j)
                     /\ OneReply(j)' <=> OneReply(j)
                     /\ Won(j)' <=> Won(j)
                     /\ j # i /\ Quiet(j) => Quiet(j)'
  BY <1>1, <1>3, CommandTaken, PipesKept DEF Inv, Won, Quiet
<1>5. Ending(i) /\ ~Quiet(i) /\ (OneEnding(i) => ~Ending(i)')
  BY <1>1, <1>2, CommandTaken DEF Inv, Quiet
<1>6. \A d \in Clients : /\ Busy(d)' <=> Busy(d)
                         /\ Asking(d)' <=> Asking(d)
                         /\ Served(d)' <=> Served(d)
                         /\ Served(d) \/ Asking(d) => Busy(d)
                         /\ Busy(d) => id[d] \in Ids
  BY <1>1 DEF Busy, Asking, Served, Inv, IInv, HasId
<1>7. Calls'
  <2>1. OwnId'
    BY <1>1, <1>6 DEF Inv, Calls, OwnId
  <2>2. OneToken'
    BY <1>1, <1>4 DEF Inv, Calls, OneToken
  <2>3. TokenIsAsked'
    BY <1>1, <1>4, <1>6 DEF Inv, Calls, TokenIsAsked
  <2>4. EntryIsAwaited'
    BY <1>1 DEF Inv, Calls, EntryIsAwaited
  <2> QED
    BY <2>1, <2>2, <2>3, <2>4 DEF Calls
<1>8. SlaveIsKept'
  BY <1>1, <1>4, <1>5, <1>6 DEF Inv, SlaveIsKept
<1>9. EndsOnce'
  <2>1. \A j \in QueryIds : /\ OneEnding(j)'
                            /\ shutting'[j] \in {0, 1}
                            /\ Ending(j)' => shutting'[j] = 0
                            /\ slave'[j] = "none" => Quiet(j)'
    <3> SUFFICES ASSUME NEW j \in QueryIds
                 PROVE  /\ OneEnding(j)'
                        /\ shutting'[j] \in {0, 1}
                        /\ Ending(j)' => shutting'[j] = 0
                        /\ slave'[j] = "none" => Quiet(j)'
      OBVIOUS
    <3>1. j \in Ids
      BY DEF Ids
    <3>2. CASE j = i
      <4>1. OneEnding(i) /\ shutting[i] = 0 /\ slave[i] # "none"
        BY <1>5, <3>2 DEF Inv, EndsOnce
      <4> QED
        BY <1>1, <1>3, <1>4, <1>5, <3>1, <3>2, <4>1
    <3>3. CASE j # i
      BY <1>1, <1>3, <1>4, <3>1, <3>3 DEF Inv, EndsOnce
    <3> QED
      BY <3>2, <3>3
  <2>2. \A j \in FreshIds : j \notin used => Quiet(j)'
    BY <1>4, <1>5 DEF Inv, EndsOnce, Ids
  <2>3. \A d \in Clients : d \in Bailing /\ Busy(d) => Quiet(id[d])'
    BY <1>1, <1>4, <1>5, <1>6 DEF Inv, EndsOnce
  <2> QED
    BY <1>1, <1>6, <2>1, <2>2, <2>3 DEF EndsOnce
<1> QED
  BY <1>7, <1>8, <1>9

\* The worker waits for a slave that ended: nobody is at its FIFO.
LEMMA ReapKeeps ==
    ASSUME Inv, NEW i \in Ids, NEW k \in 1..shutting[i], Reap(i, k)
    PROVE  (Calls /\ SlaveIsKept /\ EndsOnce)'
<1>1. shutting[i] \in Nat /\ shutting[i] # 0 /\ ~Quiet(i)
  BY DEF Inv, IInv, TypeOK, Quiet
<1>2. /\ UNCHANGED <<toWorker, toMain, ready, id, used>>
      /\ \A j \in Ids \ {i} : slave'[j] = slave[j] /\ shutting'[j] = shutting[j]
      /\ shutting'[i] = k - 1
  BY DEF Reap, pipeVars, Inv, IInv, TypeOK
<1>3. \A c \in Clients : pc'[c] = pc[c]
  <2>1. \A c \in Clients : ~(At(c, "opening") /\ id[c] = i)
    BY <1>1 DEF Inv, SlaveIsKept, Served, At
  <2> QED
    BY <2>1 DEF Reap
<1>4. \A j \in Ids : /\ Creating(j)' <=> Creating(j)
                     /\ Ending(j)' <=> Ending(j)
                     /\ OneCreate(j)' <=> OneCreate(j)
                     /\ OneEnding(j)' <=> OneEnding(j)
                     /\ Replied(j)' <=> Replied(j)
                     /\ OneReply(j)' <=> OneReply(j)
                     /\ Won(j)' <=> Won(j)
                     /\ j # i => (Quiet(j)' <=> Quiet(j))
  BY <1>2, PipesKept DEF Won, Quiet
<1>5. \A d \in Clients : /\ Busy(d)' <=> Busy(d)
                         /\ Asking(d)' <=> Asking(d)
                         /\ Served(d)' <=> Served(d)
                         /\ Served(d) \/ Asking(d) => Busy(d)
                         /\ Busy(d) => id[d] \in Ids
  BY <1>3 DEF Busy, Asking, Served, Inv, IInv, HasId
<1>6. Calls'
  <2>1. OwnId'
    BY <1>2, <1>3, <1>5 DEF Inv, Calls, OwnId
  <2>2. OneToken'
    BY <1>2, <1>4 DEF Inv, Calls, OneToken
  <2>3. TokenIsAsked'
    BY <1>2, <1>4, <1>5 DEF Inv, Calls, TokenIsAsked
  <2>4. EntryIsAwaited'
    BY <1>2, <1>3 DEF Inv, Calls, EntryIsAwaited
  <2> QED
    BY <2>1, <2>2, <2>3, <2>4 DEF Calls
<1>7. SlaveIsKept'
  BY <1>1, <1>2, <1>4, <1>5 DEF Inv, SlaveIsKept
<1>8. EndsOnce'
  <2>1. \A j \in QueryIds : /\ OneEnding(j)'
                            /\ shutting'[j] \in {0, 1}
                            /\ Ending(j)' => shutting'[j] = 0
                            /\ slave'[j] = "none" => Quiet(j)'
    <3> SUFFICES ASSUME NEW j \in QueryIds
                 PROVE  /\ OneEnding(j)'
                        /\ shutting'[j] \in {0, 1}
                        /\ Ending(j)' => shutting'[j] = 0
                        /\ slave'[j] = "none" => Quiet(j)'
      OBVIOUS
    <3>1. j \in Ids
      BY DEF Ids
    <3>2. CASE j = i
      <4>1. shutting[i] = 1 /\ ~Ending(i) /\ OneEnding(i)
        BY <1>1, <3>2 DEF Inv, EndsOnce
      <4>2. shutting'[i] = 0
        BY <1>2, <4>1
      <4> QED
        BY <1>4, <3>1, <3>2, <4>1, <4>2 DEF Quiet
    <3>3. CASE j # i
      BY <1>2, <1>4, <3>1, <3>3 DEF Inv, EndsOnce
    <3> QED
      BY <3>2, <3>3
  <2>2. \A j \in FreshIds : j \notin used => Quiet(j)'
    BY <1>1, <1>4 DEF Inv, EndsOnce, Ids
  <2>3. \A d \in Clients : d \in Bailing /\ Busy(d) => Quiet(id[d])'
    BY <1>1, <1>2, <1>4, <1>5 DEF Inv, EndsOnce
  <2> QED
    BY <1>2, <1>5, <2>1, <2>2, <2>3 DEF EndsOnce
<1> QED
  BY <1>6, <1>7, <1>8

----------------------------------------------------------------------------
\* A step of a caller.
LEMMA ClientKeeps ==
    ASSUME Inv, Ordered, NEW c \in Clients, Client(c)
    PROVE  (Calls /\ SlaveIsKept /\ EndsOnce)'
<1>1. pc \in [Clients -> {"idle", "sent", "waiting", "woken", "bail", "open", "opening",
                          "stuck", "reading", "exit"}]
  BY DEF Inv, IInv, TypeOK
<1>2. CASE \E i \in Ids : Call(c, i)
  BY <1>2, CallKeeps
<1>3. CASE Wake(c)
  <2>1. pc[c] = "waiting" /\ pc'[c] = "woken" /\ \A d \in Clients \ {c} : pc'[d] = pc[d]
    BY <1>1, <1>3 DEF Wake, At, Goto
  <2>2. c \in Bailing \/ ready[id[c]].done
    BY <1>3, <2>1 DEF Wake, Inv, Calls, EntryIsAwaited, Ordered
  <2> QED
    BY <1>3, <2>1, <2>2, MovesKeep DEF Wake, workerVars
<1>4. CASE Look(c)
  BY <1>4, LookKeeps, TakeKeeps DEF Look, At, Goto
<1>5. CASE Resume(c)
  BY <1>5, TakeKeeps DEF Resume, At
<1>6. CASE Open(c)
  <2>1. Served(c) /\ Served(c)' /\ \A d \in Clients \ {c} : pc'[d] = pc[d]
    BY <1>1, <1>6 DEF Open, At, Goto, Served
  <2> QED
    BY <1>6, <2>1, MovesKeep DEF Open, workerVars
<1>7. CASE Read(c)
  <2>1. Served(c) /\ Served(c)' /\ \A d \in Clients \ {c} : pc'[d] = pc[d]
    BY <1>1, <1>7 DEF Read, At, Goto, Served
  <2> QED
    BY <1>7, <2>1, MovesKeep DEF Read, workerVars
<1>8. CASE Bail(c) \/ Exit(c)
  BY <1>8, ExitKeeps DEF Bail, Exit, At, Goto
<1> QED
  BY <1>2, <1>3, <1>4, <1>5, <1>6, <1>7, <1>8, Zenon DEF Client, Proceed

\* A step of a slave, or the worker killing one.
LEMMA SlaveKeeps ==
    ASSUME Inv, NEW i \in Ids, Slave(i) \/ Kill(i)
    PROVE  (Calls /\ SlaveIsKept /\ EndsOnce)'
<1>1. /\ pc \in [Clients -> {"idle", "sent", "waiting", "woken", "bail", "open", "opening",
                             "stuck", "reading", "exit"}]
      /\ slave \in [Ids -> {"none", "blocked", "running", "wrote", "exited"}]
  BY DEF Inv, IInv, TypeOK
<1>2. UNCHANGED <<pipeVars, ready, shutting, id, used>>
  BY DEF Slave, Meet, Write, End, Kill, clientVars
<1>3. \A c \in Clients : pc'[c] = pc[c] \/ (Served(c) /\ Served(c)')
  BY <1>1 DEF Slave, Meet, Write, End, Kill, clientVars, Served, At
<1>4. \A j \in Ids : slave'[j] = "none" <=> slave[j] = "none"
  BY <1>1 DEF Slave, Meet, Write, End, Kill
<1> QED
  BY <1>2, <1>3, <1>4, MovesKeep

\* Nothing happens.
LEMMA StutterKeeps ==
    ASSUME Inv, UNCHANGED vars
    PROVE  (Calls /\ SlaveIsKept /\ EndsOnce)'
<1>1. UNCHANGED <<pipeVars, ready, slave, shutting, pc, id, used>>
  BY DEF vars, workerVars, clientVars
<1> QED
  BY <1>1, MovesKeep

\* Every invariant above, where callers are ordered.
THEOREM OrderedInvariant == Ordered => (Spec => []Inv)
<1> SUFFICES ASSUME Ordered PROVE Spec => []Inv
  OBVIOUS
<1>1. Inv /\ IInv' /\ [Next]_vars => Inv'
  <2> SUFFICES ASSUME Inv, IInv', [Next]_vars PROVE (Calls /\ SlaveIsKept /\ EndsOnce)'
    BY DEF Inv
  <2>1. CASE \E c \in Clients : Client(c)
    BY <2>1, ClientKeeps
  <2>2. CASE mark_slave_ready
    BY <2>2, MarkKeeps
  <2>3. CASE Execute
    BY <2>3, CreateKeeps, ShutdownKeeps DEF Execute
  <2>4. CASE Pass
    BY <2>4, ReapKeeps, SlaveKeeps DEF Pass
  <2>5. CASE \E i \in Ids : Slave(i)
    BY <2>5, SlaveKeeps
  <2>6. CASE UNCHANGED vars
    BY <2>6, StutterKeeps
  <2> QED
    BY <2>1, <2>2, <2>3, <2>4, <2>5, <2>6 DEF Next
<1> QED
  BY <1>1, InitInv, Invariant, PTL DEF Spec

\* Where callers with one query come after each other, and only system commands
\* give up, whoever is told 0 has a slave that nobody else reads and nobody ends
\* before its output was read (wait_slave_ready, execute, clean_up).
THEOREM ServedCorrect == Ordered => (Spec => []SlaveIsServed)
<1> SUFFICES ASSUME Ordered PROVE Spec => []SlaveIsServed
  OBVIOUS
<1>1. Inv => SlaveIsServed
  <2> SUFFICES ASSUME Inv, NEW c \in Clients, pc[c] \in {"open", "opening", "reading"}
               PROVE  /\ slave[id[c]] # "none"
                      /\ shutting[id[c]] = 0
                      /\ \A d \in Clients \ {c} :
                           id[d] = id[c] => pc[d] \notin {"open", "opening", "reading"}
    BY DEF SlaveIsServed
  <2>1. slave[id[c]] # "none" /\ shutting[id[c]] = 0
    BY DEF Inv, SlaveIsKept, Served, Quiet
  <2>2. \A d \in Clients \ {c} : id[d] = id[c] => pc[d] \notin {"open", "opening", "reading"}
    BY DEF Inv, Calls, OwnId, Busy
  <2> QED
    BY <2>1, <2>2
<1> QED
  BY <1>1, OrderedInvariant, PTL

----------------------------------------------------------------------------
(***************************************************************************)
(* Under the same assumption: what a caller waits for is on its way, and   *)
(* every slave is told to end.                                             *)
(***************************************************************************)

\* Its answer is on its way to whoever asks, and the slave of a caller that opens
\* the FIFO waits at the other end.
AnswerComes ==
    \A c \in Clients :
        /\ Asking(c) => Creating(id[c]) \/ Replied(id[c]) \/ ready[id[c]].done
        /\ pc[c] \in {"open", "opening"} \/ (Asking(c) /\ Won(id[c])) => slave[id[c]] = "blocked"
        /\ pc[c] # "stuck"

\* The command that ends the slave was sent behind the one that creates it.
EndsBehind(i) ==
    \E j, k \in DOMAIN toWorker :
        j < k /\ toWorker[j] = CreateCommand(i) /\ toWorker[k] = ExitCommand(i)

\* A caller that will send it when it is told 0, or gives up.
WillEnd(c) == Served(c) \/ pc[c] = "bail" \/ (Asking(c) /\ (c \in Bailing \/ Won(id[c])))

\* Somebody will tell the slave to end, or did.
EndIsKnown(i) ==
    \/ shutting[i] > 0
    \/ Ending(i)
    \/ \E c \in Clients : id[c] = i /\ WillEnd(c)

\* A slave that is to be created has a caller, or was given up.
CreateIsKnown(i) ==
    \/ EndsBehind(i)
    \/ \E c \in Clients : id[c] = i /\ (Asking(c) \/ pc[c] = "bail")

EndComes ==
    \A i \in Ids : /\ slave[i] # "none" => EndIsKnown(i)
                   /\ Creating(i) => CreateIsKnown(i)

EndInv == Inv /\ AnswerComes /\ EndComes

----------------------------------------------------------------------------
\* What is left of a pipe whose first message was taken.
LEMMA AmongRest ==
    ASSUME NEW S, NEW s \in Seq(S), s # <<>>, NEW M, Among(s, M), Head(s) \notin M
    PROVE  Among(Tail(s), M)
<1>1. /\ Len(s) \in Nat \ {0} /\ DOMAIN s = 1..Len(s) /\ Head(s) = s[1]
      /\ Tail(s) \in Seq(S) /\ Len(Tail(s)) = Len(s) - 1
      /\ \A j \in 1..(Len(s) - 1) : Tail(s)[j] = s[j + 1]
  BY HeadTailProperties
<1>2. PICK j \in 1..Len(s) : s[j] \in M
  BY <1>1 DEF Among
<1>3. j - 1 \in 1..(Len(s) - 1) /\ (j - 1) + 1 = j
  BY <1>1, <1>2
<1>4. Tail(s)[j - 1] \in M /\ DOMAIN Tail(s) = 1..(Len(s) - 1)
  BY <1>1, <1>2, <1>3
<1> QED
  BY <1>3, <1>4 DEF Among

\* A command that is sent is behind the others.
LEMMA BehindSent ==
    ASSUME IInv, NEW m \in Commands, Send(m), NEW i \in Ids
    PROVE  /\ EndsBehind(i) => EndsBehind(i)'
           /\ Creating(i) /\ m = ExitCommand(i) => EndsBehind(i)'
<1>1. toWorker \in Seq(Commands) /\ toWorker' = Append(toWorker, m)
  BY DEF IInv, TypeOK, Commands, Send
<1>2. /\ DOMAIN toWorker' = 1..(Len(toWorker) + 1) /\ DOMAIN toWorker = 1..Len(toWorker)
      /\ Len(toWorker) \in Nat
      /\ \A j \in 1..Len(toWorker) : toWorker'[j] = toWorker[j]
      /\ toWorker'[Len(toWorker) + 1] = m
  BY <1>1, AppendProperties, LenProperties
<1>3. \A j \in 1..Len(toWorker) : j \in 1..(Len(toWorker) + 1) /\ j < Len(toWorker) + 1
  BY <1>2
<1>4. Len(toWorker) + 1 \in 1..(Len(toWorker) + 1)
  BY <1>2
<1>5. ASSUME EndsBehind(i) PROVE EndsBehind(i)'
  <2>1. PICK j \in 1..Len(toWorker), k \in 1..Len(toWorker) :
          j < k /\ toWorker[j] = CreateCommand(i) /\ toWorker[k] = ExitCommand(i)
    BY <1>2, <1>5 DEF EndsBehind
  <2>2. j \in DOMAIN toWorker' /\ k \in DOMAIN toWorker'
        /\ toWorker'[j] = CreateCommand(i) /\ toWorker'[k] = ExitCommand(i)
    BY <1>2, <1>3, <2>1
  <2> QED
    BY <2>1, <2>2 DEF EndsBehind
<1>6. ASSUME Creating(i), m = ExitCommand(i) PROVE EndsBehind(i)'
  <2>1. PICK j \in 1..Len(toWorker) : toWorker[j] = CreateCommand(i)
    BY <1>2, <1>6 DEF Creating, Among
  <2>2. /\ j \in DOMAIN toWorker' /\ Len(toWorker) + 1 \in DOMAIN toWorker'
        /\ j < Len(toWorker) + 1
        /\ toWorker'[j] = CreateCommand(i) /\ toWorker'[Len(toWorker) + 1] = ExitCommand(i)
    BY <1>2, <1>3, <1>4, <1>6, <2>1
  <2> QED
    BY <2>2 DEF EndsBehind
<1> QED
  BY <1>5, <1>6

\* The worker takes a command: those behind it are left.
LEMMA BehindTaken ==
    ASSUME IInv, toWorker # <<>>, toWorker' = Tail(toWorker), NEW i \in Ids
    PROVE  /\ EndsBehind(i) => Ending(i)'
           /\ EndsBehind(i) /\ Head(toWorker) # CreateCommand(i) => EndsBehind(i)'
           /\ Creating(i) /\ Head(toWorker) # CreateCommand(i) => Creating(i)'
           /\ Ending(i) /\ Head(toWorker) # ExitCommand(i) => Ending(i)'
<1>1. toWorker \in Seq(Commands)
  BY DEF IInv, TypeOK, Commands
<1>2. /\ Len(toWorker) \in Nat \ {0} /\ DOMAIN toWorker = 1..Len(toWorker)
      /\ Head(toWorker) = toWorker[1]
      /\ DOMAIN toWorker' = 1..(Len(toWorker) - 1)
      /\ \A j \in 1..(Len(toWorker) - 1) : toWorker'[j] = toWorker[j + 1]
  <2>1. /\ Len(toWorker) \in Nat \ {0} /\ DOMAIN toWorker = 1..Len(toWorker)
        /\ Head(toWorker) = toWorker[1]
    BY <1>1, HeadTailProperties
  <2>2. /\ Tail(toWorker) \in Seq(Commands) /\ Len(Tail(toWorker)) = Len(toWorker) - 1
        /\ \A j \in 1..(Len(toWorker) - 1) : Tail(toWorker)[j] = toWorker[j + 1]
    BY <1>1, HeadTailProperties
  <2> QED
    BY <2>1, <2>2
<1>3. ASSUME EndsBehind(i)
      PROVE  Ending(i)' /\ (Head(toWorker) # CreateCommand(i) => EndsBehind(i)')
  <2>1. PICK j \in 1..Len(toWorker), k \in 1..Len(toWorker) :
          j < k /\ toWorker[j] = CreateCommand(i) /\ toWorker[k] = ExitCommand(i)
    BY <1>2, <1>3 DEF EndsBehind
  <2>2. k - 1 \in 1..(Len(toWorker) - 1) /\ (k - 1) + 1 = k
    BY <1>2, <2>1
  <2>3. toWorker'[k - 1] = ExitCommand(i) /\ k - 1 \in DOMAIN toWorker'
    BY <1>2, <2>1, <2>2
  <2>4. Ending(i)'
    BY <2>3 DEF Ending, Among
  <2>5. ASSUME Head(toWorker) # CreateCommand(i) PROVE EndsBehind(i)'
    <3>1. j # 1
      BY <1>2, <2>1, <2>5
    <3>2. j - 1 \in 1..(Len(toWorker) - 1) /\ (j - 1) + 1 = j /\ j - 1 < k - 1
      BY <1>2, <2>1, <3>1
    <3>3. toWorker'[j - 1] = CreateCommand(i) /\ j - 1 \in DOMAIN toWorker'
      BY <1>2, <2>1, <3>2
    <3> QED
      BY <2>3, <3>2, <3>3 DEF EndsBehind
  <2> QED
    BY <2>4, <2>5
<1>4. /\ Creating(i) /\ Head(toWorker) # CreateCommand(i) => Creating(i)'
      /\ Ending(i) /\ Head(toWorker) # ExitCommand(i) => Ending(i)'
  BY <1>1, AmongRest DEF Creating, Ending
<1> QED
  BY <1>3, <1>4

\* The reader takes an answer: the others are left, and it is the one of its id.
LEMMA ReplyRest ==
    ASSUME IInv, toMain # <<>>, toMain' = Tail(toMain), NEW j \in Ids
    PROVE  /\ j # Head(toMain).id => (Replied(j) => Replied(j)') /\ (Told(j) => Told(j)')
           /\ j = Head(toMain).id /\ OneReply(j) /\ Told(j) => Head(toMain).status = SUCCESS
<1>1. toMain \in Seq(Answers) /\ Head(toMain) \in Answers
  BY FirstOf DEF IInv, TypeOK, Answers
<1>2. j # Head(toMain).id => Head(toMain) \notin Replies(j)
                             /\ Head(toMain) \notin {[id |-> j, status |-> SUCCESS]}
  BY DEF Replies
<1>3. j # Head(toMain).id => (Replied(j) => Replied(j)') /\ (Told(j) => Told(j)')
  BY <1>1, <1>2, AmongRest DEF Replied, Told
<1>4. ASSUME j = Head(toMain).id, OneReply(j), Told(j), Head(toMain).status # SUCCESS
      PROVE  FALSE
  <2>1. Head(toMain) \notin {[id |-> j, status |-> SUCCESS]}
    BY <1>4
  <2>2. Told(j)'
    BY <1>1, <1>4, <2>1, AmongRest DEF Told
  <2>3. [id |-> j, status |-> SUCCESS] \in Replies(j)
    BY Apart DEF Statuses
  <2>4. Replied(j)'
    BY <2>2, <2>3 DEF Told, Replied, Among, Replies
  <2> QED
    BY <1>4, <2>4, ReplyTaken
<1> QED
  BY <1>3, <1>4

----------------------------------------------------------------------------
\* A step that moves callers on without a message or an entry, and starts no slave.
LEMMA MovesEnd ==
    ASSUME EndInv, UNCHANGED <<pipeVars, ready, shutting, id>>,
           \A c \in Clients : \/ pc'[c] = pc[c]
                              \/ Served(c) /\ Served(c)'
                              \/ pc[c] = "waiting" /\ pc'[c] = "woken",
           \A i \in Ids : slave'[i] # "none" => slave[i] # "none",
           \A c \in Clients :
             pc'[c] \in {"open", "opening"} \/ (Asking(c) /\ Won(id[c])) => slave'[id[c]] = "blocked"
    PROVE  AnswerComes' /\ EndComes'
<1>1. \A c \in Clients : /\ Asking(c)' <=> Asking(c)
                         /\ Served(c)' <=> Served(c)
                         /\ pc'[c] = "bail" <=> pc[c] = "bail"
                         /\ pc'[c] = "stuck" => pc[c] = "stuck"
  BY DEF Asking, Served
<1>2. \A i \in Ids : /\ Creating(i)' <=> Creating(i)
                     /\ Ending(i)' <=> Ending(i)
                     /\ Replied(i)' <=> Replied(i)
                     /\ Won(i)' <=> Won(i)
                     /\ EndsBehind(i)' <=> EndsBehind(i)
  BY PipesKept DEF pipeVars, Won, EndsBehind
<1>3. \A c \in Clients : Asking(c) => id[c] \in Ids
  BY DEF EndInv, Inv, IInv, HasId, Asking
<1>4. AnswerComes'
  BY <1>1, <1>2, <1>3 DEF EndInv, AnswerComes
<1>5. \A c \in Clients : WillEnd(c)' <=> WillEnd(c)
  BY <1>1, <1>2, <1>3 DEF WillEnd
<1>6. EndComes'
  BY <1>1, <1>2, <1>5 DEF EndInv, EndComes, EndIsKnown, CreateIsKnown
<1> QED
  BY <1>4, <1>6

\* A call: the command is on its way, and its caller asks.
LEMMA CallEnds ==
    ASSUME EndInv, Ordered, NEW c \in Clients, NEW i \in Ids, Call(c, i)
    PROVE  AnswerComes' /\ EndComes'
<1>1. /\ pc[c] = "idle" /\ pc'[c] = "sent" /\ id'[c] = i
      /\ \A d \in Clients \ {c} : pc'[d] = pc[d] /\ id'[d] = id[d]
      /\ UNCHANGED <<toMain, ready, slave, shutting>> /\ Send(CreateCommand(i))
  BY DEF Call, Goto, At, workerVars, EndInv, Inv, IInv, TypeOK
<1>2. CreateCommand(i) \in Commands
  BY Messages DEF Statuses
<1>3. \A j \in Ids : /\ Creating(j)' <=> Creating(j) \/ j = i
                     /\ Ending(j)' <=> Ending(j)
                     /\ EndsBehind(j) => EndsBehind(j)'
                     /\ Replied(j)' <=> Replied(j)
                     /\ Won(j)' <=> Won(j)
  BY <1>1, <1>2, CreateSent, BehindSent, PipesKept DEF EndInv, Inv, Won
<1>4. \A d \in Clients \ {c} : /\ Asking(d)' <=> Asking(d)
                               /\ Served(d)' <=> Served(d)
                               /\ Asking(d) => id[d] \in Ids
  BY <1>1 DEF Asking, Served, EndInv, Inv, IInv, HasId
<1>5. Asking(c)' /\ ~Asking(c) /\ ~Served(c) /\ ~WillEnd(c)
  BY <1>1 DEF Asking, Served, WillEnd
<1>6. ~Won(i)
  <2>1. ~Creating(i) /\ ~Replied(i) /\ ~ready[i].done
    <3>1. /\ used \subseteq FreshIds /\ QueryIds \cap FreshIds = {}
      BY ConstantsAssumption DEF EndInv, Inv, IInv, TypeOK
    <3>2. IF c \in Bailing THEN i \in FreshIds \ used
          ELSE i \in QueryIds /\ \A d \in Clients : Busy(d) => id[d] # i
      BY DEF Call, OwnIds, Ordered, At, Busy
    <3>3. i \notin used /\ \A d \in Clients : Busy(d) => id[d] # i
      BY <3>1, <3>2 DEF EndInv, Inv, Calls, OwnId
    <3> QED
      BY <3>3 DEF EndInv, Inv, Calls, TokenIsAsked, Asking, Busy
  <2>2. ~Told(i)
    BY <2>1, ToldIsReplied DEF EndInv, Inv
  <2> QED
    BY <2>1, <2>2 DEF Won, Marked
<1>7. AnswerComes'
  <2> SUFFICES ASSUME NEW d \in Clients
               PROVE  (/\ Asking(d) => Creating(id[d]) \/ Replied(id[d]) \/ ready[id[d]].done
                       /\ pc[d] \in {"open", "opening"} \/ (Asking(d) /\ Won(id[d]))
                          => slave[id[d]] = "blocked"
                       /\ pc[d] # "stuck")'
    BY DEF AnswerComes
  <2>1. CASE d = c
    BY <1>1, <1>3, <1>6, <2>1
  <2>2. CASE d # c
    BY <1>1, <1>3, <1>4, <2>2 DEF EndInv, AnswerComes
  <2> QED
    BY <2>1, <2>2
<1>8. EndComes'
  <2>1. \A d \in Clients \ {c} : WillEnd(d) => WillEnd(d)' /\ id'[d] = id[d]
    BY <1>1, <1>3, <1>4 DEF WillEnd
  <2>2. \A j \in Ids : EndIsKnown(j) => EndIsKnown(j)'
    BY <1>1, <1>3, <1>5, <2>1 DEF EndIsKnown
  <2>3. \A j \in Ids : CreateIsKnown(j) \/ j = i => CreateIsKnown(j)'
    <3>1. \A d \in Clients : Asking(d) \/ pc[d] = "bail" =>
            (Asking(d)' \/ pc'[d] = "bail") /\ id'[d] = id[d]
      BY <1>1, <1>4, <1>5
    <3> QED
      BY <1>1, <1>3, <1>5, <3>1 DEF CreateIsKnown
  <2> QED
    BY <1>1, <1>3, <2>2, <2>3 DEF EndInv, EndComes
<1> QED
  BY <1>7, <1>8

\* A caller that finds no entry makes one, and waits.
LEMMA LookEnds ==
    ASSUME EndInv, NEW c \in Clients, pc[c] = "sent", ready[id[c]] = NoEntry,
           ready' = [ready EXCEPT ![id[c]] = Waiting], pc' = [pc EXCEPT ![c] = "waiting"],
           UNCHANGED <<pipeVars, workerVars, id>>
    PROVE  AnswerComes' /\ EndComes'
<1>1. /\ pc'[c] = "waiting" /\ \A d \in Clients \ {c} : pc'[d] = pc[d]
      /\ ready'[id[c]] = Waiting /\ \A i \in Ids \ {id[c]} : ready'[i] = ready[i]
      /\ id[c] \in Ids
  BY DEF EndInv, Inv, IInv, TypeOK, HasId
<1>2. \A i \in Ids : /\ ready'[i].done <=> ready[i].done
                     /\ ready'[i] = Marked(SUCCESS) <=> ready[i] = Marked(SUCCESS)
  BY <1>1 DEF Waiting, NoEntry, Marked
<1>3. \A i \in Ids : /\ Creating(i)' <=> Creating(i)
                     /\ Ending(i)' <=> Ending(i)
                     /\ EndsBehind(i)' <=> EndsBehind(i)
                     /\ Replied(i)' <=> Replied(i)
                     /\ Won(i)' <=> Won(i)
  BY <1>2, PipesKept DEF pipeVars, EndsBehind, Won
<1>4. \A d \in Clients : /\ Asking(d)' <=> Asking(d)
                         /\ Served(d)' <=> Served(d)
                         /\ pc'[d] = "bail" <=> pc[d] = "bail"
                         /\ pc'[d] \in {"open", "opening"} <=> pc[d] \in {"open", "opening"}
                         /\ pc'[d] = "stuck" <=> pc[d] = "stuck"
                         /\ Asking(d) => id[d] \in Ids
  BY <1>1 DEF Asking, Served, EndInv, Inv, IInv, HasId
<1>5. AnswerComes'
  BY <1>2, <1>3, <1>4 DEF EndInv, AnswerComes, workerVars
<1>6. \A d \in Clients : WillEnd(d)' <=> WillEnd(d)
  BY <1>3, <1>4 DEF WillEnd
<1>7. EndComes'
  BY <1>3, <1>4, <1>6 DEF EndInv, EndComes, EndIsKnown, CreateIsKnown, workerVars
<1> QED
  BY <1>5, <1>7

\* A caller takes its entry: if it was told 0, or may give up, it will end the slave.
LEMMA TakeEnds ==
    ASSUME EndInv, NEW c \in Clients, Take(c), UNCHANGED <<pipeVars, workerVars, id>>,
           \/ pc[c] = "sent" /\ ready[id[c]] # NoEntry
           \/ pc[c] = "woken"
    PROVE  AnswerComes' /\ EndComes'
<1>1. /\ \A d \in Clients \ {c} : pc'[d] = pc[d]
      /\ ready'[id[c]] = NoEntry /\ \A i \in Ids \ {id[c]} : ready'[i] = ready[i]
      /\ id[c] \in Ids
      /\ pc'[c] = AfterStatus(c, IF ready[id[c]] = NoEntry THEN TIMEOUT ELSE ready[id[c]].status)
      /\ Busy(c) /\ Asking(c)
  BY DEF Take, Goto, EndInv, Inv, IInv, TypeOK, HasId, Busy, Asking
<1>2. \A d \in Clients \ {c} : Busy(d) => id[d] # id[c] /\ id[d] \in Ids
  BY <1>1 DEF EndInv, Inv, IInv, HasId, Calls, OwnId, Busy
<1>3. c \in Bailing \/ ready[id[c]].done
  BY <1>1, <1>2 DEF EndInv, Inv, Calls, EntryIsAwaited, Busy
<1>4. ready[id[c]] \in [done : BOOLEAN, status : Statuses]
  BY <1>1 DEF EndInv, Inv, IInv, TypeOK
<1>5. /\ pc'[c] \in {"open", "bail", "idle"}
      /\ pc'[c] = "idle" => c \notin Bailing
      /\ pc'[c] = "open" => ready[id[c]] = Marked(SUCCESS)
      /\ ready[id[c]] = Marked(SUCCESS) => pc'[c] = "open"
  <2>1. pc'[c] \in {"open", "bail", "idle"}
    BY <1>1 DEF AfterStatus
  <2>2. pc'[c] = "idle" => c \notin Bailing
    BY <1>1, <1>4 DEF AfterStatus, should_bail_out_afayc, Statuses
  <2>3. pc'[c] = "open" => ready[id[c]] # NoEntry /\ ready[id[c]].status = SUCCESS
    BY <1>1 DEF AfterStatus, TIMEOUT, SUCCESS
  <2>4. ready[id[c]] # NoEntry /\ ready[id[c]].status = SUCCESS => ready[id[c]] = Marked(SUCCESS)
    BY <1>4 DEF Marked, NoEntry
  <2>5. Marked(SUCCESS) # NoEntry /\ Marked(SUCCESS).status = SUCCESS
    BY DEF Marked, NoEntry
  <2>6. ready[id[c]] = Marked(SUCCESS) => pc'[c] = "open"
    BY <1>1, <2>5 DEF AfterStatus
  <2> QED
    BY <2>1, <2>2, <2>3, <2>4, <2>6
<1>6. \A i \in Ids : /\ Creating(i)' <=> Creating(i)
                     /\ Ending(i)' <=> Ending(i)
                     /\ EndsBehind(i)' <=> EndsBehind(i)
                     /\ Replied(i)' <=> Replied(i)
                     /\ i # id[c] => (Won(i)' <=> Won(i))
  BY <1>1, PipesKept DEF pipeVars, EndsBehind, Won
<1>7. \A d \in Clients \ {c} : /\ Asking(d)' <=> Asking(d)
                               /\ Served(d)' <=> Served(d)
                               /\ Asking(d) \/ Served(d) \/ pc[d] = "bail" => Busy(d)
  BY <1>1 DEF Asking, Served, Busy
<1>8. ~Asking(c)' /\ (pc'[c] = "open" => Served(c)')
  BY <1>5 DEF Asking, Served
<1>9. AnswerComes'
  <2> SUFFICES ASSUME NEW d \in Clients
               PROVE  /\ Asking(d)' => Creating(id[d])' \/ Replied(id[d])' \/ ready'[id[d]].done
                      /\ pc'[d] \in {"open", "opening"} \/ (Asking(d)' /\ Won(id[d])')
                         => slave[id[d]] = "blocked"
                      /\ pc'[d] # "stuck"
    BY DEF AnswerComes, workerVars
  <2>1. CASE d = c
    <3>1. pc'[c] = "open" => Won(id[c])
      BY <1>5 DEF Won
    <3>2. pc'[c] = "open" => slave[id[c]] = "blocked"
      BY <1>1, <3>1 DEF EndInv, AnswerComes
    <3> QED
      BY <1>5, <1>8, <2>1, <3>2
  <2>2. CASE d # c
    <3>1. pc'[d] = pc[d] /\ (Asking(d)' <=> Asking(d))
      BY <1>1, <1>7, <2>2
    <3>2. Asking(d) => ready'[id[d]] = ready[id[d]] /\ (Won(id[d])' <=> Won(id[d])) /\ id[d] \in Ids
      BY <1>1, <1>2, <1>6, <1>7, <2>2
    <3> QED
      BY <1>6, <3>1, <3>2 DEF EndInv, AnswerComes
  <2> QED
    BY <2>1, <2>2
<1>10. \A d \in Clients \ {c} : WillEnd(d) => WillEnd(d)'
  BY <1>1, <1>2, <1>6, <1>7 DEF WillEnd
<1>11. WillEnd(c) => WillEnd(c)'
  <2>1. CASE c \in Bailing
    BY <1>5, <1>8, <2>1 DEF WillEnd
  <2>2. CASE c \notin Bailing
    <3>1. ready[id[c]].done
      BY <1>3, <2>2
    <3>2. ~Replied(id[c])
      BY <1>1, <3>1 DEF EndInv, Inv, Calls, OneToken
    <3>3. ~Told(id[c])
      BY <1>1, <3>2, ToldIsReplied DEF EndInv, Inv
    <3>4. WillEnd(c) => Won(id[c])
      BY <1>1, <2>2 DEF WillEnd, Served, Asking
    <3> QED
      BY <1>5, <1>8, <3>3, <3>4 DEF Won, WillEnd
  <2> QED
    BY <2>1, <2>2
<1>12. \A i \in Ids : Creating(i) /\ CreateIsKnown(i) => CreateIsKnown(i)'
  <2> SUFFICES ASSUME NEW i \in Ids, Creating(i), CreateIsKnown(i)
               PROVE  CreateIsKnown(i)'
    OBVIOUS
  <2>1. CASE EndsBehind(i)
    BY <1>6, <2>1 DEF CreateIsKnown
  <2>2. CASE \E d \in Clients : id[d] = i /\ (Asking(d) \/ pc[d] = "bail")
    <3>1. PICK d \in Clients : id[d] = i /\ (Asking(d) \/ pc[d] = "bail")
      BY <2>2
    <3>2. CASE d # c
      <4>1. Asking(d)' \/ pc'[d] = "bail"
        BY <1>1, <1>7, <3>1, <3>2
      <4> QED
        BY <3>1, <4>1 DEF CreateIsKnown
    <3>3. CASE d = c
      <4>1. ~ready[i].done
        BY DEF EndInv, Inv, Calls, OneToken
      <4>2. c \in Bailing
        BY <1>3, <3>1, <3>3, <4>1
      <4>3. pc'[c] # "open"
        BY <1>5, <3>1, <3>3, <4>1 DEF Marked
      <4>4. pc'[c] = "bail"
        BY <1>5, <4>2, <4>3
      <4> QED
        BY <3>1, <3>3, <4>4 DEF CreateIsKnown
    <3> QED
      BY <3>2, <3>3
  <2> QED
    BY <2>1, <2>2 DEF CreateIsKnown
<1>13. EndComes'
  BY <1>6, <1>10, <1>11, <1>12 DEF EndInv, EndComes, EndIsKnown, workerVars
<1> QED
  BY <1>9, <1>13

\* The end of a call, or of one that was given up: the command is sent.
LEMMA ExitEnds ==
    ASSUME EndInv, NEW c \in Clients, pc[c] \in {"bail", "exit"}, Send(ExitCommand(id[c])),
           pc' = [pc EXCEPT ![c] = "idle"], UNCHANGED <<toMain, ready, workerVars, id>>
    PROVE  AnswerComes' /\ EndComes'
<1>1. /\ pc'[c] = "idle" /\ \A d \in Clients \ {c} : pc'[d] = pc[d]
      /\ id[c] \in Ids /\ ExitCommand(id[c]) \in Commands
      /\ \A d \in Clients : Asking(d) => id[d] \in Ids
  BY Messages DEF EndInv, Inv, IInv, TypeOK, HasId, Asking, Statuses
<1>2. \A j \in Ids : /\ Creating(j)' <=> Creating(j)
                     /\ Ending(j)' <=> Ending(j) \/ j = id[c]
                     /\ EndsBehind(j) => EndsBehind(j)'
                     /\ j = id[c] /\ Creating(j) => EndsBehind(j)'
                     /\ Replied(j)' <=> Replied(j)
                     /\ Won(j)' <=> Won(j)
  BY <1>1, ExitSent, BehindSent, PipesKept DEF EndInv, Inv, Won
<1>3. \A d \in Clients \ {c} : /\ Asking(d)' <=> Asking(d)
                               /\ Served(d)' <=> Served(d)
  BY <1>1 DEF Asking, Served
<1>4. ~Asking(c) /\ ~Asking(c)' /\ ~Served(c)'
  BY <1>1 DEF Asking, Served
<1>5. AnswerComes'
  BY <1>1, <1>2, <1>3, <1>4 DEF EndInv, AnswerComes, workerVars
<1>6. \A d \in Clients \ {c} : WillEnd(d) => WillEnd(d)'
  BY <1>1, <1>2, <1>3 DEF WillEnd
<1>7. \A j \in Ids : EndIsKnown(j) => EndIsKnown(j)'
  BY <1>2, <1>6 DEF EndIsKnown, workerVars
<1>8. \A j \in Ids : Creating(j) /\ CreateIsKnown(j) => CreateIsKnown(j)'
  BY <1>1, <1>2, <1>3 DEF CreateIsKnown
<1>9. EndComes'
  BY <1>2, <1>7, <1>8 DEF EndInv, EndComes, workerVars
<1> QED
  BY <1>5, <1>9

\* The answer becomes an entry.
LEMMA MarkEnds ==
    ASSUME EndInv, mark_slave_ready
    PROVE  AnswerComes' /\ EndComes'
<1> DEFINE h == Head(toMain)
<1>1. /\ toMain # <<>> /\ toMain' = Tail(toMain)
      /\ ready' = [ready EXCEPT ![h.id] = Marked(h.status)]
      /\ UNCHANGED <<toWorker, slave, shutting, pc, id>>
  BY DEF mark_slave_ready, workerVars, clientVars
<1>2. PICK i \in Ids : i = h.id
  BY <1>1, ReplyTaken DEF EndInv, Inv
<1>3. /\ ready'[i] = Marked(h.status) /\ \A j \in Ids \ {i} : ready'[j] = ready[j]
      /\ \A d \in Clients : Asking(d) => id[d] \in Ids
  BY <1>1, <1>2 DEF EndInv, Inv, IInv, TypeOK, HasId, Asking
<1>4. /\ Replied(i) /\ (h.status = SUCCESS => Told(i))
      /\ \A j \in Ids : /\ Told(j)' => Told(j)
                        /\ OneReply(j)
                        /\ j # i /\ Replied(j) => Replied(j)'
                        /\ j # i /\ Told(j) => Told(j)'
                        /\ j = i /\ Told(j) => h.status = SUCCESS
  BY <1>1, <1>2, ReplyTaken, ReplyRest DEF EndInv, Inv, Calls, OneToken
<1>5. \A j \in Ids : /\ Creating(j)' <=> Creating(j)
                     /\ Ending(j)' <=> Ending(j)
                     /\ EndsBehind(j)' <=> EndsBehind(j)
  BY <1>1, PipesKept DEF EndsBehind
<1>6. ready'[i].done /\ ~ready[i].done /\ (ready'[i] = Marked(SUCCESS) => h.status = SUCCESS)
  BY <1>3, <1>4 DEF Marked, EndInv, Inv, Calls, OneToken
<1>7. \A j \in Ids : Won(j)' <=> Won(j)
  <2> SUFFICES ASSUME NEW j \in Ids PROVE Won(j)' <=> Won(j)
    OBVIOUS
  <2>1. CASE j = i
    <3>1. ready[i] # Marked(SUCCESS)
      BY <1>6 DEF Marked
    <3> QED
      BY <1>3, <1>4, <1>6, <2>1, <3>1 DEF Won
  <2>2. CASE j # i
    BY <1>3, <1>4, <2>2 DEF Won
  <2> QED
    BY <2>1, <2>2
<1>8. \A d \in Clients : (Asking(d)' <=> Asking(d)) /\ (Served(d)' <=> Served(d))
  BY <1>1 DEF Asking, Served
<1>9. \A j \in Ids : Creating(j) \/ Replied(j) \/ ready[j].done
                     => Creating(j)' \/ Replied(j)' \/ ready'[j].done
  BY <1>3, <1>4, <1>5, <1>6
<1>10. AnswerComes'
  BY <1>1, <1>3, <1>7, <1>8, <1>9 DEF EndInv, AnswerComes
<1>11. \A d \in Clients : WillEnd(d)' <=> WillEnd(d)
  BY <1>1, <1>3, <1>7, <1>8 DEF WillEnd
<1>12. EndComes'
  BY <1>1, <1>5, <1>8, <1>11 DEF EndInv, EndComes, EndIsKnown, CreateIsKnown
<1> QED
  BY <1>10, <1>12

\* The worker creates a slave, or says why not.
LEMMA CreateEnds ==
    ASSUME EndInv, ExecuteCreate
    PROVE  AnswerComes' /\ EndComes'
<1>1. /\ toWorker # <<>> /\ toWorker' = Tail(toWorker) /\ Head(toWorker).command = "create"
      /\ UNCHANGED <<ready, shutting, pc, id>>
  BY DEF ExecuteCreate, clientVars
<1>2. PICK i \in Ids : i = Head(toWorker).id /\ Head(toWorker) = CreateCommand(i)
  BY <1>1, CommandIs DEF EndInv, Inv
<1>3. \E s \in Statuses :
        /\ Answer(i, s)
        /\ \A j \in Ids \ {i} : slave'[j] = slave[j]
        /\ IF s = SUCCESS THEN slave[i] = "none" /\ slave'[i] = "blocked" ELSE slave'[i] = slave[i]
  <2>1. slave \in [Ids -> {"none", "blocked", "running", "wrote", "exited"}]
    BY DEF EndInv, Inv, IInv, TypeOK
  <2>2. {TIMEOUT, SUCCESS, ERR_SLAVE_EXIST, -1} \subseteq Statuses
        /\ SUCCESS # -1 /\ SUCCESS # ERR_SLAVE_EXIST
    BY DEF Statuses, TIMEOUT, SUCCESS, ERR_SLAVE_EXIST
  <2> QED
    BY <1>2, <2>1, <2>2 DEF ExecuteCreate
<1>4. PICK s \in Statuses :
        /\ Answer(i, s)
        /\ \A j \in Ids \ {i} : slave'[j] = slave[j]
        /\ IF s = SUCCESS THEN slave[i] = "none" /\ slave'[i] = "blocked" ELSE slave'[i] = slave[i]
  BY <1>3
<1>5. \A j \in Ids : /\ CreateCommand(j) = CreateCommand(i) <=> j = i
                     /\ CreateCommand(i) # ExitCommand(j)
  BY DEF CreateCommand, ExitCommand
<1>6. \A j \in Ids : /\ Creating(j)' => Creating(j)
                     /\ j # i /\ Creating(j) => Creating(j)'
                     /\ Ending(j) => Ending(j)'
                     /\ EndsBehind(j) => Ending(j)'
                     /\ j # i /\ EndsBehind(j) => EndsBehind(j)'
                     /\ Replied(j)' <=> Replied(j) \/ j = i
                     /\ Told(j)' <=> Told(j) \/ (j = i /\ s = SUCCESS)
  BY <1>1, <1>2, <1>4, <1>5, CommandTaken, BehindTaken, ReplySent DEF EndInv, Inv
<1>7. Creating(i) /\ ~Creating(i)'
  BY <1>1, <1>2, CommandTaken DEF EndInv, Inv, Calls, OneToken
<1>8. \A j \in Ids : Won(j)' <=> Won(j) \/ (j = i /\ s = SUCCESS)
  BY <1>1, <1>6 DEF Won
<1>9. \A d \in Clients : /\ Asking(d)' <=> Asking(d)
                         /\ Served(d)' <=> Served(d)
                         /\ Asking(d) \/ pc[d] \in {"open", "opening"} => id[d] \in Ids
  BY <1>1 DEF Asking, Served, EndInv, Inv, IInv, HasId
<1>10. AnswerComes'
  <2> SUFFICES ASSUME NEW d \in Clients
               PROVE  /\ Asking(d) => Creating(id[d])' \/ Replied(id[d])' \/ ready[id[d]].done
                      /\ pc[d] \in {"open", "opening"} \/ (Asking(d) /\ Won(id[d])')
                         => slave'[id[d]] = "blocked"
                      /\ pc[d] # "stuck"
    BY <1>1, <1>9 DEF AnswerComes
  <2>1. Asking(d) => Creating(id[d])' \/ Replied(id[d])' \/ ready[id[d]].done
    BY <1>1, <1>6, <1>9 DEF EndInv, AnswerComes
  <2>2. ASSUME pc[d] \in {"open", "opening"} \/ (Asking(d) /\ Won(id[d])')
        PROVE  slave'[id[d]] = "blocked"
    <3>1. CASE pc[d] \in {"open", "opening"} \/ (Asking(d) /\ Won(id[d]))
      <4>1. slave[id[d]] = "blocked" /\ id[d] \in Ids
        BY <1>9, <3>1 DEF EndInv, AnswerComes
      <4> QED
        BY <1>4, <4>1
    <3>2. CASE id[d] = i /\ s = SUCCESS
      BY <1>4, <3>2
    <3> QED
      BY <1>1, <1>8, <1>9, <2>2, <3>1, <3>2
  <2> QED
    BY <2>1, <2>2 DEF EndInv, AnswerComes
<1>11. \A d \in Clients : WillEnd(d) => WillEnd(d)'
  BY <1>1, <1>8, <1>9 DEF WillEnd
<1>12. \A j \in Ids : EndIsKnown(j) => EndIsKnown(j)'
  BY <1>1, <1>6, <1>11 DEF EndIsKnown
<1>13. s = SUCCESS => EndIsKnown(i)'
  <2> SUFFICES ASSUME s = SUCCESS PROVE EndIsKnown(i)'
    OBVIOUS
  <2>1. CreateIsKnown(i)
    BY <1>7 DEF EndInv, EndComes
  <2>2. CASE EndsBehind(i)
    BY <1>6, <2>2 DEF EndIsKnown
  <2>3. CASE \E d \in Clients : id[d] = i /\ (Asking(d) \/ pc[d] = "bail")
    <3>1. PICK d \in Clients : id[d] = i /\ (Asking(d) \/ pc[d] = "bail")
      BY <2>3
    <3>2. WillEnd(d)'
      BY <1>1, <1>8, <1>9, <3>1 DEF WillEnd
    <3> QED
      BY <1>1, <3>1, <3>2 DEF EndIsKnown
  <2> QED
    BY <2>1, <2>2, <2>3 DEF CreateIsKnown
<1>14. \A j \in Ids : Creating(j)' /\ CreateIsKnown(j) => CreateIsKnown(j)'
  BY <1>1, <1>6, <1>7, <1>9 DEF CreateIsKnown
<1>15. EndComes'
  <2>1. \A j \in Ids : slave'[j] # "none" => slave[j] # "none" \/ (j = i /\ s = SUCCESS)
    BY <1>4
  <2> QED
    BY <1>6, <1>12, <1>13, <1>14, <2>1 DEF EndInv, EndComes
<1> QED
  BY <1>10, <1>15

\* The worker is told to end a slave.
LEMMA ShutdownEnds ==
    ASSUME EndInv, ExecuteShutdown
    PROVE  AnswerComes' /\ EndComes'
<1>1. /\ toWorker # <<>> /\ toWorker' = Tail(toWorker) /\ Head(toWorker).command = "shutdown"
      /\ UNCHANGED <<toMain, ready, slave, pc, id>>
  BY DEF ExecuteShutdown, clientVars
<1>2. PICK i \in Ids : i = Head(toWorker).id /\ Head(toWorker) = ExitCommand(i)
  BY <1>1, CommandIs DEF EndInv, Inv
<1>3. /\ \A j \in Ids : shutting[j] \in Nat
      /\ \A j \in Ids \ {i} : shutting'[j] = shutting[j]
      /\ slave[i] # "none" => shutting'[i] > 0
  BY <1>2 DEF ExecuteShutdown, EndInv, Inv, IInv, TypeOK
<1>4. \A j \in Ids : /\ ExitCommand(j) = ExitCommand(i) <=> j = i
                     /\ ExitCommand(i) # CreateCommand(j)
  BY DEF CreateCommand, ExitCommand
<1>5. \A j \in Ids : /\ Creating(j)' <=> Creating(j)
                     /\ j # i /\ Ending(j) => Ending(j)'
                     /\ EndsBehind(j) => EndsBehind(j)'
                     /\ Replied(j)' <=> Replied(j)
                     /\ Won(j)' <=> Won(j)
  BY <1>1, <1>2, <1>4, CommandTaken, BehindTaken, PipesKept DEF EndInv, Inv, Won
<1>6. \A d \in Clients : /\ Asking(d)' <=> Asking(d)
                         /\ Served(d)' <=> Served(d)
                         /\ Asking(d) => id[d] \in Ids
  BY <1>1 DEF Asking, Served, EndInv, Inv, IInv, HasId
<1>7. AnswerComes'
  BY <1>1, <1>5, <1>6 DEF EndInv, AnswerComes
<1>8. \A d \in Clients : WillEnd(d)' <=> WillEnd(d)
  BY <1>1, <1>5, <1>6 DEF WillEnd
<1>9. \A j \in Ids : slave[j] # "none" => EndIsKnown(j)'
  <2> SUFFICES ASSUME NEW j \in Ids, slave[j] # "none" PROVE EndIsKnown(j)'
    OBVIOUS
  <2>1. CASE j = i
    BY <1>3, <2>1 DEF EndIsKnown
  <2>2. CASE j # i
    <3>1. EndIsKnown(j)
      BY DEF EndInv, EndComes
    <3> QED
      BY <1>1, <1>3, <1>5, <1>8, <2>2, <3>1 DEF EndIsKnown
  <2> QED
    BY <2>1, <2>2
<1>10. \A j \in Ids : Creating(j) => CreateIsKnown(j)'
  BY <1>1, <1>5, <1>6 DEF EndInv, EndComes, CreateIsKnown
<1>11. EndComes'
  BY <1>1, <1>5, <1>9, <1>10 DEF EndComes
<1> QED
  BY <1>7, <1>11

\* The worker waits for a slave that ended: nobody is at its FIFO.
LEMMA ReapEnds ==
    ASSUME EndInv, NEW i \in Ids, NEW k \in 1..shutting[i], Reap(i, k)
    PROVE  AnswerComes' /\ EndComes'
<1>1. ~Quiet(i)
  BY DEF EndInv, Inv, IInv, TypeOK, Quiet
<1>2. /\ UNCHANGED <<toWorker, toMain, ready, id>>
      /\ \A j \in Ids \ {i} : slave'[j] = slave[j] /\ shutting'[j] = shutting[j]
      /\ slave'[i] = "none"
  BY DEF Reap, pipeVars, EndInv, Inv, IInv, TypeOK
<1>3. \A c \in Clients : Served(c) \/ (Asking(c) /\ Won(id[c])) => id[c] # i /\ id[c] \in Ids
  BY <1>1 DEF EndInv, Inv, SlaveIsKept, Served, Asking, IInv, HasId
<1>4. \A c \in Clients : pc'[c] = pc[c]
  BY <1>3 DEF Reap, Served, At
<1>5. \A j \in Ids : /\ Creating(j)' <=> Creating(j)
                     /\ Ending(j)' <=> Ending(j)
                     /\ EndsBehind(j)' <=> EndsBehind(j)
                     /\ Replied(j)' <=> Replied(j)
                     /\ Won(j)' <=> Won(j)
  BY <1>2, PipesKept DEF EndsBehind, Won
<1>6. \A d \in Clients : /\ Asking(d)' <=> Asking(d)
                         /\ Served(d)' <=> Served(d)
                         /\ pc[d] \in {"open", "opening"} => Served(d)
                         /\ Asking(d) => id[d] \in Ids
  BY <1>4 DEF Asking, Served, EndInv, Inv, IInv, HasId
<1>7. AnswerComes'
  <2>1. \A c \in Clients : pc[c] \in {"open", "opening"} \/ (Asking(c) /\ Won(id[c]))
                           => slave'[id[c]] = slave[id[c]]
    BY <1>2, <1>3, <1>6
  <2> QED
    BY <1>2, <1>4, <1>5, <1>6, <2>1 DEF EndInv, AnswerComes
<1>8. \A d \in Clients : WillEnd(d)' <=> WillEnd(d)
  BY <1>2, <1>4, <1>5, <1>6 DEF WillEnd
<1>9. \A j \in Ids : slave'[j] # "none" => EndIsKnown(j)'
  <2> SUFFICES ASSUME NEW j \in Ids, slave'[j] # "none" PROVE EndIsKnown(j)'
    OBVIOUS
  <2>1. j # i /\ slave[j] # "none" /\ shutting'[j] = shutting[j]
    BY <1>2
  <2>2. EndIsKnown(j)
    BY <2>1 DEF EndInv, EndComes
  <2> QED
    BY <1>2, <1>5, <1>8, <2>1, <2>2 DEF EndIsKnown
<1>10. \A j \in Ids : Creating(j) => CreateIsKnown(j)'
  BY <1>2, <1>4, <1>5, <1>6 DEF EndInv, EndComes, CreateIsKnown
<1>11. EndComes'
  BY <1>5, <1>9, <1>10 DEF EndComes
<1> QED
  BY <1>7, <1>11

\* A step of a caller.
LEMMA ClientEnds ==
    ASSUME EndInv, Ordered, NEW c \in Clients, Client(c)
    PROVE  AnswerComes' /\ EndComes'
<1>1. pc \in [Clients -> {"idle", "sent", "waiting", "woken", "bail", "open", "opening",
                          "stuck", "reading", "exit"}]
  BY DEF EndInv, Inv, IInv, TypeOK
<1>2. CASE \E i \in Ids : Call(c, i)
  BY <1>2, CallEnds
<1>3. CASE Wake(c)
  <2>1. /\ pc[c] = "waiting" /\ pc'[c] = "woken" /\ \A d \in Clients \ {c} : pc'[d] = pc[d]
        /\ UNCHANGED <<pipeVars, ready, slave, shutting, id>>
    BY <1>1, <1>3 DEF Wake, At, Goto, workerVars
  <2>2. \A d \in Clients :
          pc'[d] \in {"open", "opening"} \/ (Asking(d) /\ Won(id[d])) => slave'[id[d]] = "blocked"
    BY <2>1 DEF EndInv, AnswerComes
  <2> QED
    BY <2>1, <2>2, MovesEnd
<1>4. CASE Look(c)
  BY <1>4, LookEnds, TakeEnds DEF Look, At, Goto
<1>5. CASE Resume(c)
  BY <1>5, TakeEnds DEF Resume, At
<1>6. CASE Open(c) \/ Read(c)
  <2>1. /\ Served(c) /\ Served(c)' /\ \A d \in Clients \ {c} : pc'[d] = pc[d]
        /\ UNCHANGED <<pipeVars, ready, slave, shutting, id>>
    BY <1>1, <1>6 DEF Open, Read, At, Goto, Served, workerVars
  <2>2. pc'[c] \in {"open", "opening"} => pc[c] = "open"
    BY <1>1, <1>6 DEF Open, Read, At, Goto
  <2>3. \A d \in Clients :
          pc'[d] \in {"open", "opening"} \/ (Asking(d) /\ Won(id[d])) => slave'[id[d]] = "blocked"
    BY <2>1, <2>2 DEF EndInv, AnswerComes
  <2> QED
    BY <2>1, <2>3, MovesEnd
<1>7. CASE Bail(c) \/ Exit(c)
  BY <1>7, ExitEnds DEF Bail, Exit, At, Goto
<1> QED
  BY <1>2, <1>3, <1>4, <1>5, <1>6, <1>7, Zenon DEF Client, Proceed

\* A step of a slave, or the worker killing one that nobody waits for.
LEMMA SlaveEnds ==
    ASSUME EndInv, NEW i \in Ids,
           Slave(i) \/ (Kill(i) /\ shutting[i] > 0)
    PROVE  AnswerComes' /\ EndComes'
<1>1. /\ pc \in [Clients -> {"idle", "sent", "waiting", "woken", "bail", "open", "opening",
                             "stuck", "reading", "exit"}]
      /\ slave \in [Ids -> {"none", "blocked", "running", "wrote", "exited"}]
      /\ \A j \in Ids : shutting[j] \in Nat
  BY DEF EndInv, Inv, IInv, TypeOK
<1>2. UNCHANGED <<pipeVars, ready, shutting, id>>
  BY DEF Slave, Meet, Write, End, Kill, clientVars
<1>3. \A c \in Clients : pc'[c] = pc[c] \/ (Served(c) /\ Served(c)' /\ pc'[c] = "reading")
  BY <1>1 DEF Slave, Meet, Write, End, Kill, clientVars, Served, At
<1>4. /\ \A j \in Ids : slave'[j] # "none" => slave[j] # "none"
      /\ \A j \in Ids \ {i} : slave'[j] = slave[j]
  BY <1>1 DEF Slave, Meet, Write, End, Kill
<1>5. \A c \in Clients :
        pc'[c] \in {"open", "opening"} \/ (Asking(c) /\ Won(id[c])) => slave'[id[c]] = "blocked"
  <2> SUFFICES ASSUME NEW c \in Clients, pc'[c] \in {"open", "opening"} \/ (Asking(c) /\ Won(id[c]))
               PROVE  slave'[id[c]] = "blocked"
    OBVIOUS
  <2>1. /\ pc[c] \in {"open", "opening"} \/ (Asking(c) /\ Won(id[c]))
        /\ pc'[c] = pc[c]
    BY <1>3 DEF Asking, Served
  <2>2. slave[id[c]] = "blocked" /\ Quiet(id[c]) /\ id[c] \in Ids /\ Busy(c)
    BY <2>1 DEF EndInv, AnswerComes, Inv, SlaveIsKept, Served, Asking, IInv, HasId, Busy
  <2>3. CASE id[c] # i
    BY <1>4, <2>2, <2>3
  <2>4. ASSUME id[c] = i PROVE FALSE
    <3>1. CASE Meet(i)
      <4>1. PICK d \in Clients : pc[d] = "opening" /\ id[d] = i
        BY <3>1 DEF Meet, At
      <4>2. d = c
        BY <2>2, <2>4, <4>1 DEF EndInv, Inv, Calls, OwnId, Busy
      <4> QED
        BY <1>1, <2>1, <2>4, <3>1, <4>1, <4>2 DEF Meet, At
    <3>2. CASE Write(i) \/ End(i)
      BY <2>2, <2>4, <3>2 DEF Write, End
    <3>3. CASE Kill(i) /\ shutting[i] > 0
      BY <1>1, <2>2, <2>4, <3>3 DEF Quiet
    <3> QED
      BY <3>1, <3>2, <3>3 DEF Slave
  <2> QED
    BY <2>3, <2>4
<1> QED
  BY <1>2, <1>3, <1>4, <1>5, MovesEnd

\* Nobody has called at the start.
LEMMA InitEnds == Init => AnswerComes /\ EndComes
<1> SUFFICES ASSUME Init PROVE AnswerComes /\ EndComes
  OBVIOUS
<1>1. AnswerComes
  BY DEF Init, AnswerComes, Asking
<1>2. EndComes
  BY DEF Init, EndComes, Creating, Among
<1> QED
  BY <1>1, <1>2

\* Every step keeps it.
LEMMA NextEnds ==
    ASSUME EndInv, Ordered, [Next]_vars
    PROVE  AnswerComes' /\ EndComes'
<1>1. CASE \E c \in Clients : Client(c)
  BY <1>1, ClientEnds
<1>2. CASE mark_slave_ready
  BY <1>2, MarkEnds
<1>3. CASE Execute
  BY <1>3, CreateEnds, ShutdownEnds DEF Execute
<1>4. CASE Pass
  <2>1. PICK i \in Ids : \E k \in 1..shutting[i] : Reap(i, k) \/ Kill(i)
    BY <1>4 DEF Pass
  <2>2. PICK k \in 1..shutting[i] : Reap(i, k) \/ Kill(i)
    BY <2>1
  <2>3. shutting[i] > 0
    BY <2>2 DEF EndInv, Inv, IInv, TypeOK
  <2> QED
    BY <2>2, <2>3, ReapEnds, SlaveEnds
<1>5. CASE \E i \in Ids : Slave(i)
  BY <1>5, SlaveEnds
<1>6. CASE UNCHANGED vars
  <2>1. UNCHANGED <<pipeVars, ready, slave, shutting, pc, id>>
    BY <1>6 DEF vars, workerVars, clientVars
  <2>2. \A d \in Clients :
          pc'[d] \in {"open", "opening"} \/ (Asking(d) /\ Won(id[d])) => slave'[id[d]] = "blocked"
    BY <2>1 DEF EndInv, AnswerComes
  <2> QED
    BY <2>1, <2>2, MovesEnd
<1> QED
  BY <1>1, <1>2, <1>3, <1>4, <1>5, <1>6 DEF Next

THEOREM EndInvariant == Ordered => (Spec => []EndInv)
<1> SUFFICES ASSUME Ordered PROVE Spec => []EndInv
  OBVIOUS
<1>1. Inv /\ Inv' /\ AnswerComes /\ EndComes /\ [Next]_vars => (AnswerComes /\ EndComes)'
  BY NextEnds DEF EndInv
<1>2. Spec => []Inv
  BY OrderedInvariant
<1>3. EndInv <=> Inv /\ AnswerComes /\ EndComes
  BY DEF EndInv
<1> QED
  BY <1>1, <1>2, <1>3, InitEnds, PTL DEF Spec

\* Whoever asks has a command, an answer or a marked entry on its way, and whoever
\* opens the FIFO has a slave waiting at its other end: nobody waits for what will
\* not come (wait_slave_ready, open).
THEOREM AnswerCorrect == Ordered => (Spec => []AnswerComes)
<1>1. EndInv => AnswerComes
  BY DEF EndInv
<1> QED
  BY <1>1, EndInvariant, PTL

\* No slave is left behind: when nobody calls and the worker has done what it was
\* told, none is there, also if its caller gave up before it was created.
NoneLeft ==
    /\ \A c \in Clients : pc[c] = "idle"
    /\ toWorker = <<>>
    /\ \A i \in Ids : shutting[i] = 0
    => \A i \in Ids : slave[i] = "none"

THEOREM NoneLeftCorrect == Ordered => (Spec => []NoneLeft)
<1>1. EndInv => NoneLeft
  <2> SUFFICES ASSUME EndInv, \A c \in Clients : pc[c] = "idle", toWorker = <<>>,
                      NEW i \in Ids, shutting[i] = 0, slave[i] # "none"
               PROVE  FALSE
    BY DEF NoneLeft
  <2>1. ~Ending(i)
    BY DEF Ending, Among
  <2>2. \A c \in Clients : ~WillEnd(c)
    BY DEF WillEnd, Served, Asking
  <2> QED
    BY <2>1, <2>2 DEF EndInv, EndComes, EndIsKnown
<1> QED
  BY <1>1, EndInvariant, PTL
=============================================================================
