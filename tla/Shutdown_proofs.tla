---------------------------- MODULE Shutdown_proofs ----------------------------
(***************************************************************************)
(* For any number of stream threads, with and without the terminal: when   *)
(* run returns, every thread has exited, and while it waits for them, each *)
(* is on its way to its end or stuck in one of the ways that Stuck names.  *)
(***************************************************************************)
EXTENDS Shutdown, FiniteSetTheorems, SequenceTheorems, TLAPS

----------------------------------------------------------------------------
\* Lists without some of their elements.

\* The ranks of the elements of a finite set of numbers are 1, 2, and so on.
LEMMA Ranks ==
    ASSUME NEW K \in SUBSET Nat, IsFiniteSet(K)
    PROVE  LET Rank(i) == Cardinality({j \in K : j <= i})
           IN  /\ \A i \in K : Rank(i) \in 1..Cardinality(K)
               /\ \A i, j \in K : Rank(i) = Rank(j) => i = j
               /\ \A n \in 1..Cardinality(K) : \E i \in K : Rank(i) = n
<1> DEFINE Upto(i) == {j \in K : j <= i}
           Rank(i) == Cardinality(Upto(i))
           f == [i \in K |-> Rank(i)]
           T == 1..Cardinality(K)
<1>1. Cardinality(K) \in Nat
  BY FS_CardinalityType
<1>2. \A i \in K : Upto(i) \in SUBSET K /\ i \in Upto(i)
  OBVIOUS
<1>3. ASSUME NEW i \in K
      PROVE  /\ IsFiniteSet(Upto(i)) /\ Rank(i) \in Nat
             /\ Rank(i) <= Cardinality(K) /\ Rank(i) # 0
  <2>1. IsFiniteSet(Upto(i)) /\ Rank(i) <= Cardinality(K)
    BY <1>2, FS_Subset
  <2>2. Rank(i) \in Nat
    BY <2>1, FS_CardinalityType
  <2>3. Rank(i) # 0
    BY <1>2, <2>1, FS_EmptySet
  <2> QED
    BY <2>1, <2>2, <2>3
<1>4. \A i \in K : Rank(i) \in T
  BY <1>1, <1>3
<1>5. ASSUME NEW i \in K, NEW j \in K, i < j
      PROVE  Rank(i) # Rank(j)
  <2>1. Upto(i) \in SUBSET Upto(j)
    <3>1. \A k \in K : k <= i => k <= j
      BY <1>5
    <3> QED
      BY <3>1
  <2>2. j \in Upto(j) /\ j \notin Upto(i)
    BY <1>5
  <2> HIDE DEF Upto
  <2> QED
    BY <1>3, <2>1, <2>2, FS_Subset
<1>6. \A i, j \in K : Rank(i) = Rank(j) => i = j
  <2>1. \A i, j \in K : i < j \/ j < i \/ i = j
    OBVIOUS
  <2> HIDE DEF Rank
  <2> QED
    BY <1>5, <2>1
<1>7. \A n \in T : \E i \in K : Rank(i) = n
  <2>1. IsFiniteSet(T) /\ Cardinality(T) = Cardinality(K)
    BY <1>1, FS_Interval
  <2> HIDE DEF Rank, T
  <2>2. f \in Injection(K, T)
    BY <1>4, <1>6 DEF Injection, IsInjective
  <2>3. f \in Surjection(K, T)
    BY <2>1, <2>2, FS_Injection
  <2> QED
    BY <2>3 DEF Surjection
<1> QED
  BY <1>4, <1>6, <1>7

\* What Without leaves of a list that has nothing twice.
LEMMA WithoutOK ==
    ASSUME NEW S, NEW q \in Seq(S), \A i, j \in DOMAIN q : q[i] = q[j] => i = j, NEW D
    PROVE  /\ Without(q, D) \in Seq(S)
           /\ \A i, j \in DOMAIN Without(q, D) : Without(q, D)[i] = Without(q, D)[j] => i = j
           /\ \A x : Contains(Without(q, D), x) <=> Contains(q, x) /\ x \notin D
<1> DEFINE K == {i \in DOMAIN q : q[i] \notin D}
           Rank(i) == Cardinality({j \in K : j <= i})
           n == Cardinality(K)
           p(m) == CHOOSE i \in K : Rank(i) = m
           w == [m \in 1..n |-> q[p(m)]]
<1>1. Without(q, D) = w
  BY DEF Without
<1>2. DOMAIN q = 1..Len(q) /\ Len(q) \in Nat /\ \A i \in DOMAIN q : q[i] \in S
  OBVIOUS
<1>3. K \in SUBSET Nat /\ IsFiniteSet(K) /\ n \in Nat
  <2>1. IsFiniteSet(DOMAIN q)
    BY <1>2, FS_Interval
  <2> QED
    BY <1>2, <2>1, FS_Subset, FS_CardinalityType
<1>4. /\ \A i \in K : Rank(i) \in 1..n
      /\ \A i, j \in K : Rank(i) = Rank(j) => i = j
      /\ \A m \in 1..n : \E i \in K : Rank(i) = m
  BY <1>3, Ranks
<1>5. \A i \in K : i \in DOMAIN q /\ q[i] \notin D
  OBVIOUS
<1>6. \A i \in DOMAIN q : q[i] \notin D => i \in K
  OBVIOUS
<1> HIDE DEF K, Rank, n
<1>7. \A m \in 1..n : p(m) \in K /\ Rank(p(m)) = m
  BY <1>4
<1>8. \A i \in K : p(Rank(i)) = i
  BY <1>4, <1>7
<1> HIDE DEF p
<1>9. w \in Seq(S) /\ DOMAIN w = 1..n /\ Len(w) = n
  <2>1. \A m \in 1..n : q[p(m)] \in S
    BY <1>2, <1>5, <1>7
  <2>2. w \in [1..n -> S]
    BY <2>1
  <2> QED
    BY <1>3, <2>2
<1>10. \A i, j \in DOMAIN w : w[i] = w[j] => i = j
  BY <1>5, <1>7, <1>9
<1>11. ASSUME NEW x
       PROVE  Contains(w, x) <=> Contains(q, x) /\ x \notin D
  <2>1. ASSUME Contains(w, x)
        PROVE  Contains(q, x) /\ x \notin D
    <3>1. PICK m \in 1..n : w[m] = x
      BY <1>9, <2>1 DEF Contains
    <3> QED
      BY <1>2, <1>5, <1>7, <3>1 DEF Contains
  <2>2. ASSUME Contains(q, x), x \notin D
        PROVE  Contains(w, x)
    <3>1. PICK i \in 1..Len(q) : q[i] = x
      BY <2>2 DEF Contains
    <3>2. i \in K
      BY <1>2, <1>6, <2>2, <3>1
    <3>3. Rank(i) \in 1..n /\ w[Rank(i)] = x
      BY <1>4, <1>8, <3>1, <3>2
    <3> QED
      BY <1>9, <3>3 DEF Contains
  <2> QED
    BY <2>1, <2>2
<1> QED
  BY <1>1, <1>9, <1>10, <1>11

\* A list without nothing is the list.
LEMMA WithoutNothing ==
    ASSUME NEW S, NEW q \in Seq(S)
    PROVE  Without(q, {}) = q
<1> DEFINE K == {i \in DOMAIN q : q[i] \notin {}}
           Rank(i) == Cardinality({j \in K : j <= i})
<1>1. DOMAIN q = 1..Len(q) /\ Len(q) \in Nat
  OBVIOUS
<1>2. K = 1..Len(q)
  BY <1>1
<1>3. \A m \in Nat : Cardinality(1..m) = m
  <2>1. \A m \in Nat : Cardinality(1..m) = IF 1 > m THEN 0 ELSE m - 1 + 1
    BY FS_Interval
  <2> QED
    BY <2>1
<1>4. ASSUME NEW i \in 1..Len(q)
      PROVE  Rank(i) = i
  <2>1. {j \in K : j <= i} = 1..i
    BY <1>1, <1>2
  <2>2. i \in Nat
    OBVIOUS
  <2>3. Cardinality(1..i) = i
    BY <1>3, <2>2
  <2> HIDE DEF K
  <2> QED
    BY <2>1, <2>3
<1>5. Without(q, {}) = [m \in 1..Cardinality(K) |-> q[CHOOSE i \in K : Rank(i) = m]]
  BY DEF Without
<1> HIDE DEF K, Rank
<1>6. \A m \in 1..Len(q) : (CHOOSE i \in K : Rank(i) = m) = m
  BY <1>2, <1>4
<1>7. Without(q, {}) = [m \in 1..Len(q) |-> q[m]]
  BY <1>1, <1>2, <1>3, <1>5, <1>6
<1> QED
  BY <1>1, <1>7


----------------------------------------------------------------------------
\* The inductive invariant.

Places == {"new", "test", "look", "sleepy", "asleep", "read", "reading", "undefined",
           "poll", "getline", "serve", "again", "body", "exited"}

\* Where the main thread is once the dashboard server is in the list, and once the
\* shutdown thread is.
InLoop == {"loop", "body", "spawn"}
InShutdown == {"child", "waitpid", "server", "streams", "client",
               "join", "joining", "joined", "ended", "undefined", "crashed"}

\* The threads are started in order: the writer with the reader, the server when all
\* but the shutdown thread are, that one last.
Started ==
    /\ At("writer", "new") <=> At("reader", "new")
    /\ main = "start" => At("server", "new") /\ At("shutdown", "new")
    /\ main = "dispatch" =>
         \/ At("server", "new") /\ At("shutdown", "new")
         \/ /\ unlisted = {"server"} /\ At("shutdown", "new")
            /\ \A t \in Threads \ {"shutdown"} : ~At(t, "new")
         \/ unlisted = {"shutdown"} /\ \A t \in Threads : ~At(t, "new")
    /\ main \in InLoop => At("shutdown", "new") /\ \A t \in Threads \ {"shutdown"} : ~At(t, "new")
    /\ main \in InShutdown => \A t \in Threads : ~At(t, "new")

\* Whoever runs is in the list, or about to be put into it.
Listed ==
    /\ main # "dispatch" => unlisted = {}
    /\ \A t \in Threads : (t \in unlisted \/ Contains(threads, t)) => ~At(t, "new")
    /\ \A t \in unlisted : ~Contains(threads, t)
    /\ \A t \in Threads : At(t, "new") \/ At(t, "exited") \/ t \in unlisted \/ Contains(threads, t)

\* What join_all knows of the thread it waited for, and of the list in the end.
Joined ==
    /\ main = "joined" => At(joining, "exited")
    /\ main = "ended" => threads = <<>>

IInv == TypeOK /\ Started /\ Listed /\ Joined

\* The variables that have a type and nothing else to keep.
DataOK ==
    /\ running \in BOOLEAN /\ r_s \in BOOLEAN
    /\ given \subseteq Streams /\ pipes \subseteq {"write", "read"} /\ missed \subseteq Threads
    /\ child \in BOOLEAN /\ serving \in BOOLEAN /\ closes \in BOOLEAN

NoneTwice == \A i, j \in DOMAIN threads : threads[i] = threads[j] => i = j

\* Names of threads.
LEMMA Names ==
    /\ {"writer", "reader", "server", "shutdown"} \cup Streams \subseteq Threads
    /\ Cli => "stdin" \in Threads
    /\ \A t \in Streams : t \notin {"main", "writer", "reader", "stdin", "server", "shutdown"}
  BY ConstantsAssumption DEF Threads

\* No thread is the main thread.
LEMMA MainIsNone == "main" \notin Threads
  BY ConstantsAssumption DEF Threads

\* Nothing runs at the start.
LEMMA InitOK == Init => IInv
<1> SUFFICES ASSUME Init PROVE IInv
  OBVIOUS
<1>1. threads = <<>> /\ threads \in Seq(Threads) /\ DOMAIN threads = {} /\ Len(threads) = 0
  BY DEF Init
<1>2. \A t : ~Contains(threads, t)
  BY <1>1 DEF Contains
<1>3. pc \in [Threads -> Places] /\ \A t \in Threads : pc[t] = "new"
  BY DEF Init, Places
<1>4. TypeOK
  <2>1. /\ running \in BOOLEAN /\ r_s \in BOOLEAN /\ child \in BOOLEAN
        /\ serving \in BOOLEAN /\ closes \in BOOLEAN
    BY DEF Init
  <2>2. /\ main = "start" /\ unlisted = {} /\ done = {} /\ joining = "main" /\ given = {}
        /\ pipes = {"write", "read"} /\ missed = {}
    BY DEF Init
  <2> QED
    BY <1>1, <1>3, <2>1, <2>2 DEF TypeOK, Places
<1>5. Started
  BY <1>3, Names DEF Init, Started, At, InLoop, InShutdown
<1>6. Listed
  BY <1>2, <1>3 DEF Init, Listed, At
<1>7. Joined
  BY DEF Init, Joined
<1> QED
  BY <1>4, <1>5, <1>6, <1>7 DEF IInv

\* When the list is empty, and when it is not.
LEMMA Lists ==
    ASSUME NEW S, NEW q \in Seq(S)
    PROVE  /\ (\A t \in S : ~Contains(q, t)) => q = <<>>
           /\ q # <<>> => /\ Head(q) \in S /\ Contains(q, Head(q)) /\ Tail(q) \in Seq(S)
                          /\ \A t : Contains(q, t) => t = Head(q) \/ Contains(Tail(q), t)
                          /\ \A t : Contains(Tail(q), t) => Contains(q, t)
<1>1. Len(q) \in Nat /\ (q # <<>> => Len(q) # 0) /\ \A i \in 1..Len(q) : q[i] \in S
  BY EmptySeq, LenProperties, ElementOfSeq
<1>2. CASE q = <<>>
  BY <1>2
<1>3. CASE q # <<>>
  <2>1. /\ Head(q) \in S /\ Tail(q) \in Seq(S) /\ Len(q) \in Nat \ {0} /\ Head(q) = q[1]
        /\ Len(Tail(q)) = Len(q) - 1 /\ \A i \in 1..(Len(q) - 1) : Tail(q)[i] = q[i + 1]
    BY <1>1, <1>3, HeadTailProperties
  <2>2. Contains(q, Head(q))
    BY <2>1 DEF Contains
  <2>3. ASSUME NEW t, Contains(q, t), t # Head(q)
        PROVE  Contains(Tail(q), t)
    <3>1. PICK j \in 1..Len(q) : q[j] = t
      BY <2>3 DEF Contains
    <3>2. j - 1 \in 1..(Len(q) - 1) /\ (j - 1) + 1 = j
      BY <2>1, <2>3, <3>1
    <3> QED
      BY <2>1, <3>1, <3>2 DEF Contains
  <2>4. ASSUME NEW t, Contains(Tail(q), t)
        PROVE  Contains(q, t)
    <3>1. PICK j \in 1..(Len(q) - 1) : q[j + 1] = t
      BY <2>1, <2>4 DEF Contains
    <3>2. j + 1 \in 1..Len(q)
      BY <2>1
    <3> QED
      BY <3>1, <3>2 DEF Contains
  <2> QED
    BY <1>3, <2>1, <2>2, <2>3, <2>4
<1> QED
  BY <1>2, <1>3

----------------------------------------------------------------------------
\* Steps that start no thread and put none into the list.
LEMMA GoesOn ==
    ASSUME IInv, DataOK', UNCHANGED unlisted,
           pc' \in [Threads -> Places],
           \A t \in Threads : (At(t, "new")' <=> At(t, "new")) /\ (At(t, "exited") => At(t, "exited")'),
           main' = main \/ {main, main'} \subseteq InLoop \/ {main, main'} \subseteq InShutdown,
           threads' \in Seq(Threads), NoneTwice',
           \A t \in Threads : Contains(threads, t)' => Contains(threads, t),
           \A t \in Threads : Contains(threads, t) => Contains(threads, t)' \/ At(t, "exited")',
           \A t \in done' : Contains(threads, t)' /\ At(t, "exited")',
           joining' \in Threads \cup {"main"},
           main' \in {"joining", "joined"} => threads' # <<>> /\ joining' = Head(threads)',
           Joined'
    PROVE  IInv'
<1>1. /\ unlisted \subseteq Threads /\ Started /\ Listed
      /\ main \in {"start", "dispatch"} \cup InLoop \cup InShutdown
  BY DEF IInv, TypeOK, InLoop, InShutdown
<1>2. main' \in {"start", "dispatch"} \cup InLoop \cup InShutdown
  BY <1>1
<1>3. TypeOK'
  BY <1>1, <1>2 DEF TypeOK, DataOK, Places, NoneTwice, InLoop, InShutdown
<1>4. Started'
  BY <1>1, Names DEF Started, InLoop, InShutdown
<1>5. Listed'
  <2>1. main' # "dispatch" => main # "dispatch"
    BY DEF InLoop, InShutdown
  <2> QED
    BY <1>1, <2>1 DEF Listed
<1> QED
  BY <1>3, <1>4, <1>5 DEF IInv

\* A thread runs: it goes somewhere else, or marks itself and exits.
LEMMA ThreadGoes ==
    ASSUME IInv, NEW t \in Threads, NEW to \in Places \ {"new"},
           ~At(t, "new"), ~At(t, "exited"), Goto(t, to),
           UNCHANGED <<main, unlisted, joining, threads>>,
           done' = done \/ (to = "exited" /\ done' = set_done(t)),
           DataOK'
    PROVE  IInv'
<1>1. /\ pc \in [Threads -> Places] /\ threads \in Seq(Threads) /\ NoneTwice
      /\ \A x \in done : Contains(threads, x) /\ At(x, "exited")
      /\ joining \in Threads \cup {"main"}
      /\ (main \in {"joining", "joined"} => threads # <<>> /\ joining = Head(threads))
      /\ Joined
  BY DEF IInv, TypeOK, Places, NoneTwice
<1>2. /\ pc' \in [Threads -> Places] /\ pc'[t] = to
      /\ \A x \in Threads : x # t => pc'[x] = pc[x]
  BY <1>1 DEF Goto
<1>3. \A x \in Threads : (At(x, "new")' <=> At(x, "new")) /\ (At(x, "exited") => At(x, "exited")')
  BY <1>2 DEF At
<1>4. \A x \in Threads : Contains(threads, x)' <=> Contains(threads, x)
  OBVIOUS
<1>5. \A x \in done : x \in Threads
  BY <1>1, ElementOfSeq DEF Contains
<1>6. \A x \in done' : Contains(threads, x)' /\ At(x, "exited")'
  BY <1>1, <1>2, <1>3, <1>4, <1>5 DEF set_done, At
<1>7. Joined'
  BY <1>1, <1>3, EmptySeq DEF Joined
<1>8. NoneTwice'
  BY <1>1 DEF NoneTwice
<1> QED
  BY <1>1, <1>2, <1>3, <1>4, <1>6, <1>7, <1>8, GoesOn

\* The main loop joins and erases the threads marked done.
LEMMA JoinDone ==
    ASSUME IInv, DataOK', join_done,
           pc' \in [Threads -> Places],
           \A t \in Threads : (At(t, "new")' <=> At(t, "new")) /\ (At(t, "exited") => At(t, "exited")'),
           \/ {main, main'} \subseteq InLoop
           \/ main' = main /\ (main \in {"joining", "joined"} => done = {})
           \/ main' = "undefined" /\ main \in InShutdown
    PROVE  IInv'
<1>1. /\ threads \in Seq(Threads) /\ NoneTwice
      /\ \A x \in done : Contains(threads, x) /\ At(x, "exited")
      /\ joining \in Threads \cup {"main"}
      /\ (main \in {"joining", "joined"} => threads # <<>> /\ joining = Head(threads))
      /\ Joined
  BY DEF IInv, TypeOK, NoneTwice
<1>2. threads' = Without(threads, done) /\ done' = {} /\ UNCHANGED <<unlisted, joining>>
  BY DEF join_done
<1>3. threads' \in Seq(Threads) /\ NoneTwice'
  BY <1>1, <1>2, WithoutOK DEF NoneTwice
<1>4. \A x : Contains(threads, x)' <=> Contains(threads, x) /\ x \notin done
  BY <1>1, <1>2, WithoutOK DEF NoneTwice
<1>5. \A x \in Threads : Contains(threads, x) => Contains(threads, x)' \/ At(x, "exited")'
  BY <1>1, <1>4
<1>6. \A x \in done' : Contains(threads, x)' /\ At(x, "exited")'
  BY <1>2
<1>7. done = {} => threads' = threads
  BY <1>1, <1>2, WithoutNothing
<1>8. main' \in {"joining", "joined"} =>
        /\ threads' # <<>> /\ joining' = Head(threads)'
        /\ main' = main /\ joining' = joining
  BY <1>1, <1>2, <1>7 DEF InLoop
<1>9. main' = "joined" => At(joining, "exited")'
  <2> SUFFICES ASSUME main' = "joined" PROVE At(joining, "exited")'
    OBVIOUS
  <2>1. joining \in Threads /\ At(joining, "exited")
    BY <1>1, <1>8, Lists DEF Joined
  <2> QED
    BY <1>2, <2>1
<1>10. main' = "ended" => threads' = <<>>
  <2> SUFFICES ASSUME main' = "ended" PROVE threads' = <<>>
    OBVIOUS
  <2>1. threads = <<>>
    BY <1>1 DEF Joined, InLoop
  <2>2. \A x : ~Contains(threads, x)
    BY <2>1, EmptySeq DEF Contains
  <2> QED
    BY <1>3, <1>4, <2>2, Lists
<1>11. Joined'
  BY <1>9, <1>10 DEF Joined
<1>12. main' = main \/ {main, main'} \subseteq InLoop \/ {main, main'} \subseteq InShutdown
  BY DEF InShutdown
<1> QED
  BY <1>2, <1>1, <1>3, <1>4, <1>5, <1>6, <1>8, <1>11, <1>12, GoesOn

----------------------------------------------------------------------------
\* The threads' steps.

\* What the invariant says of the variables that only have a type.
LEMMA Typed == IInv => DataOK /\ pc \in [Threads -> Places]
  BY DEF IInv, TypeOK, DataOK, Places

\* A thread goes from one place to another.
LEMMA MovesOK ==
    ASSUME IInv, NEW t \in Threads, NEW from \in Places \ {"new", "exited"},
           NEW to \in Places \ {"new"}, Moves(t, from, to)
    PROVE  IInv'
<1>1. /\ ~At(t, "new") /\ ~At(t, "exited") /\ Goto(t, to)
      /\ UNCHANGED <<running, r_s, main, listVars, given, childVars, serverVars, missed>>
  BY DEF Moves, At
<1>2. DataOK'
  BY <1>1, Typed DEF DataOK, childVars, serverVars
<1> QED
  BY <1>1, <1>2, ThreadGoes DEF listVars

\* A thread marks itself and exits.
LEMMA ExitsOK ==
    ASSUME IInv, NEW t \in Threads, NEW from \in Places \ {"new", "exited"}, Exits(t, from)
    PROVE  IInv'
<1>1. /\ ~At(t, "new") /\ ~At(t, "exited") /\ Goto(t, "exited") /\ done' = set_done(t)
      /\ UNCHANGED <<running, r_s, main, unlisted, joining, threads, given, childVars, serverVars, missed>>
  BY DEF Exits, At
<1>2. DataOK'
  BY <1>1, Typed DEF DataOK, childVars, serverVars
<1>3. "exited" \in Places \ {"new"}
  BY DEF Places
<1> QED
  BY <1>1, <1>2, <1>3, ThreadGoes

\* A thread tests the running state.
LEMMA TestsOK ==
    ASSUME IInv, NEW t \in Threads, NEW next \in Places \ {"new"}, Tests(t, next)
    PROVE  IInv'
<1>1. "test" \in Places \ {"new", "exited"}
  BY DEF Places
<1> QED
  BY <1>1, MovesOK, ExitsOK DEF Tests

\* The places of the threads between their start and their end.
LEMMA PlacesOf ==
    {"test", "look", "sleepy", "asleep", "read", "reading", "undefined",
     "poll", "getline", "serve", "again", "body"} = Places \ {"new", "exited"}
  BY DEF Places

\* The writer, and a command that wakes it.
LEMMA WriterOK == ASSUME IInv, Writer \/ send_command PROVE IInv'
<1>1. "writer" \in Threads
  BY Names
<1>2. CASE Tests("writer", "look")
  BY <1>1, <1>2, PlacesOf, TestsOK
<1>3. CASE Moves("writer", "look", IF running THEN "sleepy" ELSE "test")
  BY <1>1, <1>3, PlacesOf, MovesOK
<1>4. CASE Moves("writer", "sleepy", "asleep")
  BY <1>1, <1>4, PlacesOf, MovesOK
<1>5. CASE send_command
  BY <1>1, <1>5, PlacesOf, MovesOK DEF send_command
<1> QED
  BY <1>2, <1>3, <1>4, <1>5 DEF Writer

\* The reader, and a message that it reads.
LEMMA ReaderOK == ASSUME IInv, Reader \/ Message PROVE IInv'
<1>1. "reader" \in Threads
  BY Names
<1>2. CASE Tests("reader", "read")
  BY <1>1, <1>2, PlacesOf, TestsOK
<1>3. CASE Moves("reader", "read", "reading")
  BY <1>1, <1>3, PlacesOf, MovesOK
<1>4. CASE Exits("reader", "reading")
  BY <1>1, <1>4, PlacesOf, ExitsOK
<1>5. CASE Exits("reader", "read")
  BY <1>1, <1>5, PlacesOf, ExitsOK
<1>6. CASE Moves("reader", "read", "undefined")
  BY <1>1, <1>6, PlacesOf, MovesOK
<1>7. CASE Message
  BY <1>1, <1>7, PlacesOf, MovesOK DEF Message
<1> QED
  BY <1>2, <1>3, <1>4, <1>5, <1>6, <1>7 DEF Reader

\* The terminal's listener, and a line that it reads.
LEMMA StdinOK == ASSUME IInv, Stdin \/ Enter PROVE IInv'
<1>1. "stdin" \in Threads
  BY Names DEF Stdin, Enter
<1>2. CASE Tests("stdin", "poll")
  BY <1>1, <1>2, PlacesOf, TestsOK
<1>3. CASE Moves("stdin", "poll", "test")
  BY <1>1, <1>3, PlacesOf, MovesOK
<1>4. CASE Moves("stdin", "poll", "getline")
  BY <1>1, <1>4, PlacesOf, MovesOK
<1>5. CASE Exits("stdin", "poll")
  BY <1>1, <1>5, PlacesOf, ExitsOK
<1>6. CASE Enter
  BY <1>1, <1>6, PlacesOf, MovesOK DEF Enter
<1> QED
  BY <1>2, <1>3, <1>4, <1>5, <1>6 DEF Stdin

\* A stream thread, whether it was given contexts or not.
LEMMA StreamThreadOK == ASSUME IInv, NEW t \in Streams, StreamThread(t) PROVE IInv'
<1>1. t \in Threads
  BY Names
<1>2. CASE Tests(t, "look")
  BY <1>1, <1>2, PlacesOf, TestsOK
<1>3. CASE Moves(t, "look", "sleepy")
  BY <1>1, <1>3, PlacesOf, MovesOK
<1>4. CASE Moves(t, "sleepy", "asleep")
  BY <1>1, <1>4, PlacesOf, MovesOK
<1>5. CASE /\ At(t, "look") /\ given' = given \ {t} /\ Goto(t, "test")
           /\ UNCHANGED <<running, r_s, main, listVars, childVars, serverVars, missed>>
  <2>1. ~At(t, "new") /\ ~At(t, "exited") /\ "test" \in Places \ {"new"}
    BY <1>5, PlacesOf DEF At
  <2>2. DataOK'
    BY <1>5, Typed DEF DataOK, childVars, serverVars
  <2> QED
    BY <1>1, <1>5, <2>1, <2>2, ThreadGoes DEF listVars
<1> QED
  BY <1>2, <1>3, <1>4, <1>5 DEF StreamThread

\* The dashboard server serves, and ends when asked to.
LEMMA ServerOK == ASSUME IInv, Server PROVE IInv'
<1>1. "server" \in Threads /\ "serve" \in Places \ {"new"} /\ "exited" \in Places \ {"new"}
  BY Names DEF Places
<1>2. CASE At("server", "test")
  <2>1. /\ serving' = TRUE /\ Goto("server", "serve") /\ ~At("server", "new") /\ ~At("server", "exited")
        /\ UNCHANGED <<running, r_s, main, listVars, given, childVars, closes, missed>>
    BY <1>2 DEF Server, At
  <2>2. DataOK'
    BY <2>1, Typed DEF DataOK, childVars
  <2> QED
    BY <1>1, <2>1, <2>2, ThreadGoes DEF listVars
<1>3. CASE At("server", "serve")
  <2>1. /\ serving' = FALSE /\ Goto("server", "exited") /\ done' = set_done("server")
        /\ ~At("server", "new") /\ ~At("server", "exited")
        /\ UNCHANGED <<running, r_s, main, unlisted, joining, threads, given, childVars, closes, missed>>
    BY <1>3 DEF Server, At
  <2>2. DataOK'
    BY <2>1, Typed DEF DataOK, childVars
  <2> QED
    BY <1>1, <2>1, <2>2, ThreadGoes
<1> QED
  BY <1>2, <1>3 DEF Server

\* A pass of the main loop may give a context to a stream thread, and wakes it.
LEMMA NotifyOK ==
    ASSUME IInv, NEW pcs \in [Threads -> Places], notify_work(pcs),
           \A t \in Threads : (pcs[t] = "new" <=> pc[t] = "new") /\ (pc[t] = "exited" => pcs[t] = "exited")
    PROVE  /\ given' \subseteq Streams
           /\ pc' \in [Threads -> Places]
           /\ \A t \in Threads : (At(t, "new")' <=> At(t, "new")) /\ (At(t, "exited") => At(t, "exited")')
<1>1. given \subseteq Streams
  BY DEF IInv, TypeOK
<1>2. pc' = pcs \/ \E t \in Streams : pcs[t] = "asleep" /\ pc' = [pcs EXCEPT ![t] = "test"]
  BY DEF notify_work
<1>3. given' \subseteq Streams
  BY <1>1 DEF notify_work
<1>4. pc' \in [Threads -> Places]
  BY <1>2, PlacesOf
<1>5. \A t \in Threads : (pc'[t] = "new" <=> pc[t] = "new") /\ (pc[t] = "exited" => pc'[t] = "exited")
  BY <1>2
<1> QED
  BY <1>3, <1>4, <1>5 DEF At

\* The shutdown thread goes round the main loop, also under join_all's iterator.
LEMMA ShutdownLoopOK == ASSUME IInv, ShutdownLoop PROVE IInv'
<1>1. "shutdown" \in Threads /\ {"test", "again", "body"} \subseteq Places \ {"new", "exited"}
  BY Names, PlacesOf
<1>2. CASE At("shutdown", "test")
  <2>1. Moves("shutdown", "test", "again") \/ Exits("shutdown", "test")
    BY <1>2 DEF ShutdownLoop, At
  <2> QED
    BY <1>1, <2>1, MovesOK, ExitsOK
<1>3. CASE At("shutdown", "again")
  <2>1. /\ r_s' = TRUE /\ Goto("shutdown", "body") /\ ~At("shutdown", "new") /\ ~At("shutdown", "exited")
        /\ UNCHANGED <<running, main, listVars, given, childVars, serverVars, missed>>
    BY <1>3 DEF ShutdownLoop, Moves, Exits, At
  <2>2. DataOK'
    BY <2>1, Typed DEF DataOK, childVars, serverVars
  <2> QED
    BY <1>1, <2>1, <2>2, ThreadGoes DEF listVars
<1>4. CASE At("shutdown", "body")
  <2> DEFINE pcs == [pc EXCEPT !["shutdown"] = "test"]
  <2>1. /\ notify_work(pcs) /\ join_done
        /\ main' = IF main \in {"joining", "joined"} /\ done # {} THEN "undefined" ELSE main
        /\ UNCHANGED <<running, r_s, childVars, serverVars, missed>>
    BY <1>4 DEF ShutdownLoop, Moves, Exits, At
  <2>2. /\ pcs \in [Threads -> Places]
        /\ \A t \in Threads : (pcs[t] = "new" <=> pc[t] = "new") /\ (pc[t] = "exited" => pcs[t] = "exited")
    BY <1>1, <1>4, Typed DEF At
  <2> HIDE DEF pcs
  <2>3. /\ given' \subseteq Streams
        /\ pc' \in [Threads -> Places]
        /\ \A t \in Threads : (At(t, "new")' <=> At(t, "new")) /\ (At(t, "exited") => At(t, "exited")')
    BY <2>1, <2>2, NotifyOK
  <2>4. DataOK'
    BY <2>1, <2>3, Typed DEF DataOK, childVars, serverVars
  <2>5. \/ main' = main /\ (main \in {"joining", "joined"} => done = {})
        \/ main' = "undefined" /\ main \in InShutdown
    BY <2>1 DEF InShutdown
  <2> QED
    BY <2>1, <2>3, <2>4, <2>5, JoinDone
<1> QED
  BY <1>2, <1>3, <1>4 DEF ShutdownLoop, Moves, Exits

\* Any step of a thread.
LEMMA ThreadOK == ASSUME IInv, NEW t \in Threads, Thread(t) PROVE IInv'
  BY WriterOK, ReaderOK, StdinOK, StreamThreadOK, ServerOK, ShutdownLoopOK DEF Thread

----------------------------------------------------------------------------
\* The main thread's steps.

\* A step of the main thread that leaves the list alone, and wakes threads at most.
LEMMA MainGoesOn ==
    ASSUME IInv, DataOK', UNCHANGED listVars,
           pc' \in [Threads -> Places],
           \A t \in Threads : pc'[t] = pc[t] \/ (pc[t] = "asleep" /\ pc'[t] \in {"look", "test"}),
           \/ main' = main
           \/ {main, main'} \subseteq InLoop
           \/ {main, main'} \subseteq InShutdown /\ main' \notin {"joining", "joined", "ended"}
    PROVE  IInv'
<1>1. /\ threads \in Seq(Threads) /\ NoneTwice
      /\ \A x \in done : Contains(threads, x) /\ At(x, "exited")
      /\ joining \in Threads \cup {"main"}
      /\ (main \in {"joining", "joined"} => threads # <<>> /\ joining = Head(threads))
      /\ Joined
  BY DEF IInv, TypeOK, NoneTwice
<1>2. UNCHANGED <<unlisted, joining, threads, done>>
  BY DEF listVars
<1>3. \A t \in Threads : (At(t, "new")' <=> At(t, "new")) /\ (At(t, "exited") => At(t, "exited")')
  BY DEF At
<1>4. main' \in {"joining", "joined", "ended"} => main' = main
  BY DEF InLoop
<1>5. NoneTwice'
  BY <1>1, <1>2 DEF NoneTwice
<1>6. \A t \in Threads : Contains(threads, t)' <=> Contains(threads, t)
  BY <1>2
<1>7. \A x \in done : x \in Threads
  BY <1>1, ElementOfSeq DEF Contains
<1>8. \A x \in done' : Contains(threads, x)' /\ At(x, "exited")'
  BY <1>1, <1>2, <1>3, <1>6, <1>7
<1>9. Joined'
  <2>1. main' = "joined" => joining \in Threads /\ At(joining, "exited")
    BY <1>1, <1>4, Lists DEF Joined
  <2> QED
    BY <1>1, <1>2, <1>3, <1>4, <2>1 DEF Joined
<1>10. main' \in {"joining", "joined"} => threads' # <<>> /\ joining' = Head(threads)'
  BY <1>1, <1>2, <1>4
<1>11. threads' \in Seq(Threads) /\ joining' \in Threads \cup {"main"} /\ UNCHANGED unlisted
  BY <1>1, <1>2
<1>12. main' = main \/ {main, main'} \subseteq InLoop \/ {main, main'} \subseteq InShutdown
  OBVIOUS
<1> QED
  BY <1>3, <1>5, <1>6, <1>8, <1>9, <1>10, <1>11, <1>12, GoesOn

\* Threads are started.
LEMMA StartsOK ==
    ASSUME IInv, NEW S \in SUBSET Threads, Starts(S), r_s' \in BOOLEAN,
           main \in {"start", "spawn"},
           \A t \in S : At(t, "new"),
           {"writer", "reader"} \subseteq S \/ {"writer", "reader"} \cap S = {},
           \/ main = "start" /\ {"server", "shutdown"} \cap S = {}
           \/ main = "start" /\ S = {"server"} /\ \A t \in Threads \ {"server", "shutdown"} : ~At(t, "new")
           \/ main = "spawn" /\ S = {"shutdown"}
    PROVE  IInv'
<1>1. /\ unlisted' = S /\ main' = "dispatch"
      /\ pc' = [t \in Threads |-> IF t \in S THEN "test" ELSE pc[t]]
      /\ UNCHANGED <<running, given, joining, threads, done, childVars, serverVars, missed>>
  BY DEF Starts, MainGoes
<1>2. TypeOK /\ Started /\ Listed
  BY DEF IInv
<1>3. /\ \A t \in Threads : t \notin S => (At(t, "new")' <=> At(t, "new")) /\ (At(t, "exited")' <=> At(t, "exited"))
      /\ \A t \in S : ~At(t, "new")' /\ ~At(t, "exited")'
  BY <1>1 DEF At
<1>4. \A t \in S : ~At(t, "exited")
  BY DEF At
<1>5. DataOK'
  BY <1>1, Typed DEF DataOK, childVars, serverVars
<1>6. pc' \in [Threads -> Places]
  BY <1>1, Typed, PlacesOf
<1>7. TypeOK'
  <2>1. threads \in Seq(Threads) /\ NoneTwice /\ joining \in Threads \cup {"main"}
        /\ \A x \in done : Contains(threads, x) /\ At(x, "exited")
    BY <1>2 DEF TypeOK, NoneTwice
  <2>2. \A x \in done : x \in Threads
    BY <2>1, ElementOfSeq DEF Contains
  <2>3. \A x \in done' : Contains(threads, x)' /\ At(x, "exited")'
    BY <1>1, <1>3, <1>4, <2>1, <2>2
  <2>4. threads' \in Seq(Threads) /\ NoneTwice' /\ joining' \in Threads \cup {"main"} /\ unlisted' \subseteq Threads
    BY <1>1, <2>1 DEF NoneTwice
  <2> QED
    BY <1>1, <1>5, <1>6, <2>3, <2>4 DEF TypeOK, DataOK, Places, NoneTwice
<1>8. Started'
  <2>1. main = "start" => At("server", "new") /\ At("shutdown", "new")
    BY <1>2 DEF Started
  <2>2. main = "spawn" => \A t \in Threads \ {"shutdown"} : ~At(t, "new")
    BY <1>2 DEF Started, InLoop
  <2>3. At("writer", "new")' <=> At("reader", "new")'
    BY <1>2, <1>3, Names DEF Started
  <2>4. \/ At("server", "new")' /\ At("shutdown", "new")'
        \/ /\ S = {"server"} /\ At("shutdown", "new")'
           /\ \A t \in Threads \ {"shutdown"} : ~At(t, "new")'
        \/ S = {"shutdown"} /\ \A t \in Threads : ~At(t, "new")'
    <3>1. CASE main = "start" /\ {"server", "shutdown"} \cap S = {}
      BY <1>3, <2>1, <3>1, Names
    <3>2. CASE main = "start" /\ S = {"server"} /\ \A t \in Threads \ {"server", "shutdown"} : ~At(t, "new")
      BY <1>3, <2>1, <3>2, Names
    <3>3. CASE main = "spawn" /\ S = {"shutdown"}
      BY <1>3, <2>2, <3>3, Names
    <3> QED
      BY <3>1, <3>2, <3>3
  <2> QED
    BY <1>1, <2>3, <2>4 DEF Started, InLoop, InShutdown
<1>9. Listed'
  <2>1. /\ unlisted = {}
        /\ \A t \in Threads : Contains(threads, t) => ~At(t, "new")
        /\ \A t \in Threads : At(t, "new") \/ At(t, "exited") \/ t \in unlisted \/ Contains(threads, t)
    BY <1>2 DEF Listed
  <2>2. \A t \in Threads : Contains(threads, t)' <=> Contains(threads, t)
    BY <1>1
  <2>3. main' = "dispatch" /\ unlisted' = S
    BY <1>1
  <2>4. \A t \in Threads : (t \in unlisted' \/ Contains(threads, t)') => ~At(t, "new")'
    BY <1>3, <2>1, <2>2, <2>3
  <2>5. \A t \in unlisted' : ~Contains(threads, t)'
    BY <2>1, <2>2, <2>3
  <2>6. \A t \in Threads : At(t, "new")' \/ At(t, "exited")' \/ t \in unlisted' \/ Contains(threads, t)'
    BY <1>3, <2>1, <2>2, <2>3
  <2> QED
    BY <2>3, <2>4, <2>5, <2>6 DEF Listed
<1>10. Joined'
  BY <1>1 DEF Joined
<1> QED
  BY <1>7, <1>8, <1>9, <1>10 DEF IInv

\* The main thread starts the next thread, or the writer with the reader.
LEMMA StartsThreadOK == ASSUME IInv, StartsThread PROVE IInv'
<1>1. main = "start" /\ r_s' = r_s /\ r_s' \in BOOLEAN
  BY Typed DEF StartsThread, DataOK
<1>2. /\ At("server", "new") /\ At("shutdown", "new")
      /\ (At("writer", "new") <=> At("reader", "new"))
  BY <1>1 DEF IInv, Started
<1>3. CASE At("writer", "new")
  <2>1. Starts({"writer", "reader"})
    BY <1>3 DEF StartsThread
  <2> QED
    BY <1>1, <1>2, <1>3, <2>1, Names, StartsOK
<1>4. CASE ~At("writer", "new") /\ Cli /\ At("stdin", "new")
  <2>1. Starts({"stdin"})
    BY <1>4 DEF StartsThread
  <2> QED
    BY <1>1, <1>4, <2>1, Names, StartsOK
<1>5. CASE ~At("writer", "new") /\ \E t \in Streams : At(t, "new") /\ Starts({t})
  <2>1. PICK t \in Streams : At(t, "new") /\ Starts({t})
    BY <1>5
  <2>2. {t} \in SUBSET Threads /\ t \notin {"server", "shutdown", "reader"}
    BY Names
  <2> QED
    BY <1>1, <1>5, <2>1, <2>2, StartsOK
<1>6. CASE /\ ~At("writer", "new") /\ ~(Cli /\ At("stdin", "new"))
           /\ ~\E t \in Streams : At(t, "new")
  <2>1. Starts({"server"})
    BY <1>6 DEF StartsThread
  <2>2. \A t \in Threads \ {"server", "shutdown"} : ~At(t, "new")
    BY <1>2, <1>6 DEF Threads
  <2> QED
    BY <1>1, <1>2, <2>1, <2>2, Names, StartsOK
<1> QED
  BY <1>3, <1>4, <1>5, <1>6 DEF StartsThread

\* A thread that is not in the list yet is put behind the others.
LEMMA Appended ==
    ASSUME NEW S, NEW q \in Seq(S), NEW e \in S, ~Contains(q, e),
           \A i, j \in DOMAIN q : q[i] = q[j] => i = j
    PROVE  /\ Append(q, e) \in Seq(S)
           /\ \A i, j \in DOMAIN Append(q, e) : Append(q, e)[i] = Append(q, e)[j] => i = j
           /\ \A x : Contains(Append(q, e), x) <=> Contains(q, x) \/ x = e
<1>1. /\ Append(q, e) \in Seq(S) /\ Len(Append(q, e)) = Len(q) + 1 /\ Len(q) \in Nat
      /\ \A i \in 1..Len(q) : Append(q, e)[i] = q[i]
      /\ Append(q, e)[Len(q) + 1] = e
  BY AppendProperties, LenProperties
<1>2. DOMAIN q = 1..Len(q) /\ DOMAIN Append(q, e) = 1..(Len(q) + 1)
  BY <1>1, LenProperties
<1>3. \A i \in 1..(Len(q) + 1) : i \in 1..Len(q) \/ i = Len(q) + 1
  BY <1>1
<1>4. \A i \in 1..Len(q) : q[i] # e
  BY DEF Contains
<1>5. \A i, j \in 1..(Len(q) + 1) : Append(q, e)[i] = Append(q, e)[j] => i = j
  BY <1>1, <1>2, <1>3, <1>4
<1>6. \A i \in 1..Len(q) : i \in 1..(Len(q) + 1)
  BY <1>1
<1>7. Len(q) + 1 \in 1..(Len(q) + 1)
  BY <1>1
<1>8. \A x : Contains(Append(q, e), x) <=> Contains(q, x) \/ x = e
  BY <1>1, <1>3, <1>6, <1>7 DEF Contains
<1> QED
  BY <1>1, <1>2, <1>5, <1>8

\* dispatch: the thread may be done by then.
LEMMA DispatchesThreadOK == ASSUME IInv, DispatchesThread PROVE IInv'
<1>1. /\ main = "dispatch" /\ UNCHANGED <<r_s, running, given, pc, joining, done, childVars, serverVars, missed>>
  BY DEF DispatchesThread, MainGoes
<1>2. PICK t \in unlisted :
        /\ threads' = Append(threads, t) /\ unlisted' = unlisted \ {t}
        /\ main' = CASE unlisted' # {} -> "dispatch"
                     [] t = "server"   -> "loop"
                     [] t = "shutdown" -> "child"
                     [] OTHER          -> "start"
  BY DEF DispatchesThread, Dispatched, MainGoes
<1>3. /\ threads \in Seq(Threads) /\ NoneTwice /\ t \in Threads /\ ~Contains(threads, t)
      /\ unlisted \subseteq Threads
      /\ ~At(t, "new") /\ joining \in Threads \cup {"main"}
      /\ \A x \in done : Contains(threads, x) /\ At(x, "exited")
  BY <1>2 DEF IInv, TypeOK, Listed, NoneTwice
<1>4. /\ threads' \in Seq(Threads) /\ NoneTwice'
      /\ \A x : Contains(threads, x)' <=> Contains(threads, x) \/ x = t
  BY <1>2, <1>3, Appended DEF NoneTwice
<1>5. Started /\ Listed
  BY DEF IInv
<1>6. \/ unlisted' # {} /\ main' = "dispatch" /\ At("server", "new") /\ At("shutdown", "new")
      \/ unlisted' = {} /\ main' = "start" /\ At("server", "new") /\ At("shutdown", "new")
      \/ /\ unlisted' = {} /\ main' = "loop" /\ At("shutdown", "new")
         /\ \A x \in Threads \ {"shutdown"} : ~At(x, "new")
      \/ unlisted' = {} /\ main' = "child" /\ \A x \in Threads : ~At(x, "new")
  <2>1. CASE At("server", "new") /\ At("shutdown", "new")
    BY <1>2, <1>3, <2>1
  <2>2. CASE /\ unlisted = {"server"} /\ At("shutdown", "new")
             /\ \A x \in Threads \ {"shutdown"} : ~At(x, "new")
    BY <1>2, <2>2
  <2>3. CASE unlisted = {"shutdown"} /\ \A x \in Threads : ~At(x, "new")
    BY <1>2, <2>3
  <2> QED
    BY <1>1, <1>5, <2>1, <2>2, <2>3 DEF Started
<1>7. UNCHANGED pc
  BY <1>1
<1>8. \A x, where : At(x, where)' <=> At(x, where)
  BY <1>7 DEF At
<1>9. Started'
  BY <1>5, <1>6, <1>8 DEF Started, InLoop, InShutdown
<1>10. Listed'
  <2>1. main' # "dispatch" => unlisted' = {}
    BY <1>6
  <2>2. \A x \in Threads : (x \in unlisted' \/ Contains(threads, x)') => ~At(x, "new")'
    BY <1>2, <1>3, <1>4, <1>5, <1>8 DEF Listed
  <2>3. \A x \in unlisted' : ~Contains(threads, x)'
    BY <1>2, <1>4, <1>5 DEF Listed
  <2>4. \A x \in Threads : At(x, "new")' \/ At(x, "exited")' \/ x \in unlisted' \/ Contains(threads, x)'
    BY <1>2, <1>4, <1>5, <1>8 DEF Listed
  <2> QED
    BY <2>1, <2>2, <2>3, <2>4 DEF Listed
<1>11. Joined' /\ main' \in {"dispatch", "start", "loop", "child"}
  BY <1>6 DEF Joined
<1>12. DataOK' /\ pc' \in [Threads -> Places]
  BY <1>1, Typed DEF DataOK, childVars, serverVars
<1>13. \A x \in done' : Contains(threads, x)' /\ At(x, "exited")'
  BY <1>1, <1>3, <1>4, <1>8
<1>14. TypeOK'
  BY <1>1, <1>2, <1>3, <1>4, <1>11, <1>12, <1>13 DEF TypeOK, DataOK, Places, NoneTwice
<1> QED
  BY <1>9, <1>10, <1>11, <1>14 DEF IInv

\* After a signal the shutdown thread takes the main loop over.
LEMMA StartsShutdownOK == ASSUME IInv, StartsShutdown PROVE IInv'
<1>1. main = "spawn" /\ r_s' = TRUE /\ Starts({"shutdown"})
  BY DEF StartsShutdown
<1>2. At("shutdown", "new")
  BY <1>1 DEF IInv, Started, InLoop
<1> QED
  BY <1>1, <1>2, Names, StartsOK

\* The main loop in the main thread.
LEMMA MainLoopOK == ASSUME IInv, MainLoop PROVE IInv'
<1>1. CASE main = "loop"
  <2>1. /\ r_s' = running /\ main' \in {"body", "spawn"}
        /\ UNCHANGED <<running, pc, listVars, given, childVars, serverVars, missed>>
    BY <1>1 DEF MainLoop
  <2>2. DataOK' /\ pc' \in [Threads -> Places]
    BY <2>1, Typed DEF DataOK, childVars, serverVars
  <2>3. {main, main'} \subseteq InLoop
    BY <1>1, <2>1 DEF InLoop
  <2> QED
    BY <2>1, <2>2, <2>3, MainGoesOn
<1>2. CASE main = "body"
  <2>1. /\ notify_work(pc) /\ join_done /\ main' = "loop"
        /\ UNCHANGED <<running, r_s, childVars, serverVars, missed>>
    BY <1>2 DEF MainLoop
  <2>2. /\ given' \subseteq Streams
        /\ pc' \in [Threads -> Places]
        /\ \A t \in Threads : (At(t, "new")' <=> At(t, "new")) /\ (At(t, "exited") => At(t, "exited")')
    BY <2>1, Typed, NotifyOK
  <2>3. DataOK'
    BY <2>1, <2>2, Typed DEF DataOK, childVars, serverVars
  <2>4. {main, main'} \subseteq InLoop
    BY <1>2, <2>1 DEF InLoop
  <2> QED
    BY <2>1, <2>2, <2>3, <2>4, JoinDone
<1> QED
  BY <1>1, <1>2 DEF MainLoop

\* A signal, and the end of the child worker.
LEMMA OthersOK == ASSUME IInv, on_sigint \/ ChildEnds PROVE IInv'
<1>1. UNCHANGED <<pc, main, listVars>> /\ UNCHANGED <<r_s, given, pipes, serverVars, missed>>
      /\ running' \in {running, FALSE} /\ child' \in {child, FALSE}
  BY DEF on_sigint, ChildEnds, childVars
<1>2. DataOK' /\ pc' \in [Threads -> Places]
  BY <1>1, Typed DEF DataOK, serverVars
<1> QED
  BY <1>1, <1>2, MainGoesOn

\* The parts of the program are shut down one after the other.
LEMMA ShutsOK ==
    ASSUME IInv, ShutsChild \/ ChildReaped \/ ShutsServer \/ ShutsStreams \/ EndsLoop
    PROVE  IInv'
<1>1. /\ running \in BOOLEAN /\ r_s \in BOOLEAN /\ given \subseteq Streams
      /\ pipes \subseteq {"write", "read"} /\ missed \subseteq Threads
      /\ child \in BOOLEAN /\ serving \in BOOLEAN /\ closes \in BOOLEAN
      /\ pc \in [Threads -> Places]
  BY Typed DEF DataOK
<1>2. "writer" \in Threads /\ "server" \in Threads /\ "shutdown" \in Threads /\ Streams \subseteq Threads
  BY Names
<1>3. CASE ShutsChild
  <2>1. {main, main'} \subseteq InShutdown /\ main' \notin {"joining", "joined", "ended"}
    BY <1>3 DEF ShutsChild, MainGoes, InShutdown
  <2>2. /\ UNCHANGED <<running, given, r_s, listVars, child, serving, closes>>
        /\ pipes' \subseteq pipes /\ missed' \subseteq missed \cup {"writer"}
        /\ pc' = IF At("writer", "asleep") THEN [pc EXCEPT !["writer"] = "look"] ELSE pc
    BY <1>3 DEF ShutsChild, MainGoes, serverVars
  <2>3. DataOK'
    BY <1>1, <1>2, <2>2 DEF DataOK
  <2>4. /\ pc' \in [Threads -> Places]
        /\ \A t \in Threads : pc'[t] = pc[t] \/ (pc[t] = "asleep" /\ pc'[t] \in {"look", "test"})
    BY <1>1, <1>2, <2>2, PlacesOf DEF At
  <2> QED
    BY <2>1, <2>2, <2>3, <2>4, MainGoesOn
<1>4. CASE ChildReaped \/ ShutsServer \/ EndsLoop
  <2>1. {main, main'} \subseteq InShutdown /\ main' \notin {"joining", "joined", "ended"}
    BY <1>4 DEF ChildReaped, ShutsServer, EndsLoop, MainGoes, InShutdown
  <2>2. /\ UNCHANGED <<running, given, pc, listVars, child, serving>>
        /\ r_s' \in {r_s, FALSE} /\ closes' \in {closes, serving}
        /\ pipes' \subseteq pipes /\ missed' \subseteq missed \cup {"server", "shutdown"}
    BY <1>4 DEF ChildReaped, ShutsServer, EndsLoop, MainGoes, serverVars, childVars
  <2>3. DataOK' /\ pc' \in [Threads -> Places]
    BY <1>1, <1>2, <2>2 DEF DataOK
  <2> QED
    BY <2>1, <2>2, <2>3, MainGoesOn
<1>5. CASE ShutsStreams
  <2>1. {main, main'} \subseteq InShutdown /\ main' \notin {"joining", "joined", "ended"}
    BY <1>5 DEF ShutsStreams, MainGoes, InShutdown
  <2>2. /\ UNCHANGED <<running, given, r_s, listVars, pipes, child, serving, closes>>
        /\ missed' \subseteq missed \cup Streams
        /\ pc' = [t \in Threads |-> IF t \in Streams /\ At(t, "asleep") THEN "test" ELSE pc[t]]
    BY <1>5 DEF ShutsStreams, MainGoes, serverVars, childVars
  <2>3. DataOK'
    BY <1>1, <1>2, <2>2 DEF DataOK
  <2>4. /\ pc' \in [Threads -> Places]
        /\ \A t \in Threads : pc'[t] = pc[t] \/ (pc[t] = "asleep" /\ pc'[t] \in {"look", "test"})
    BY <1>1, <2>2, PlacesOf DEF At
  <2> QED
    BY <2>1, <2>2, <2>3, <2>4, MainGoesOn
<1> QED
  BY <1>3, <1>4, <1>5

\* join_all, and what may follow when its iterator is invalid.
LEMMA JoinAllOK == ASSUME IInv, join_all \/ Undefined PROVE IInv'
<1>1. /\ threads \in Seq(Threads) /\ NoneTwice /\ main \in InShutdown
      /\ \A x \in done : Contains(threads, x) /\ At(x, "exited")
      /\ joining \in Threads \cup {"main"}
      /\ (main \in {"joining", "joined"} => threads # <<>> /\ joining = Head(threads))
      /\ (main = "joined" => At(joining, "exited"))
  BY DEF IInv, TypeOK, NoneTwice, Joined, join_all, Undefined, InShutdown
<1>2. /\ UNCHANGED <<running, given, r_s, pc, unlisted, childVars, serverVars, missed>>
      /\ main' \in InShutdown
  BY DEF join_all, Undefined, MainGoes, listVars, InShutdown
<1>3. DataOK' /\ pc' \in [Threads -> Places]
  BY <1>2, Typed DEF DataOK, childVars, serverVars
<1>4. \A x, where : At(x, where)' <=> At(x, where)
  BY <1>2 DEF At
<1>5. \A x \in done : x \in Threads
  BY <1>1, ElementOfSeq DEF Contains
<1>6. ASSUME UNCHANGED <<threads, done>>, joining' \in Threads \cup {"main"}, Joined',
             main' \in {"joining", "joined"} => threads # <<>> /\ joining' = Head(threads)
      PROVE  IInv'
  <2>1. \A x : Contains(threads, x)' <=> Contains(threads, x)
    BY <1>6
  <2>2. threads' \in Seq(Threads) /\ NoneTwice'
    BY <1>1, <1>6 DEF NoneTwice
  <2>3. \A x \in done' : Contains(threads, x)' /\ At(x, "exited")'
    BY <1>1, <1>4, <1>6, <2>1
  <2>4. main' \in {"joining", "joined"} => threads' # <<>> /\ joining' = Head(threads)'
    BY <1>6
  <2> QED
    BY <1>1, <1>2, <1>3, <1>4, <1>6, <2>1, <2>2, <2>3, <2>4, GoesOn
<1>7. CASE main = "join" /\ threads = <<>>
  <2>1. main' = "ended" /\ UNCHANGED <<joining, threads, done>>
    BY <1>7 DEF join_all, Undefined, MainGoes
  <2> QED
    BY <1>1, <1>6, <1>7, <2>1 DEF Joined
<1>8. CASE main = "join" /\ threads # <<>>
  <2>1. main' = "joining" /\ joining' = Head(threads) /\ UNCHANGED <<threads, done>>
    BY <1>8 DEF join_all, Undefined, MainGoes
  <2>2. Head(threads) \in Threads
    BY <1>1, <1>8, Lists
  <2> QED
    BY <1>6, <1>8, <2>1, <2>2 DEF Joined
<1>9. CASE main = "joining"
  <2>1. main' = "joined" /\ At(joining, "exited") /\ UNCHANGED <<joining, threads, done>>
    BY <1>9 DEF join_all, Undefined, MainGoes, listVars
  <2> QED
    BY <1>1, <1>4, <1>6, <1>9, <2>1 DEF Joined
<1>10. CASE main = "joined"
  <2>1. /\ main' = "join" /\ threads' = Tail(threads) /\ done' = done \ {joining} /\ joining' = "main"
    BY <1>10 DEF join_all, Undefined, MainGoes
  <2>2. /\ threads # <<>> /\ joining = Head(threads) /\ joining \in Threads
        /\ threads' \in Seq(Threads)
        /\ \A x : Contains(threads, x) => x = joining \/ Contains(threads, x)'
        /\ \A x : Contains(threads, x)' => Contains(threads, x)
    BY <1>1, <1>10, <2>1, Lists
  <2>3. NoneTwice'
    <3>1. /\ Len(threads) \in Nat \ {0} /\ Len(Tail(threads)) = Len(threads) - 1
          /\ \A i \in 1..(Len(threads) - 1) : Tail(threads)[i] = threads[i + 1]
      BY <1>1, <2>2, HeadTailProperties, LenProperties, EmptySeq
    <3>2. DOMAIN threads = 1..Len(threads) /\ DOMAIN threads' = 1..(Len(threads) - 1)
      BY <1>1, <2>1, <2>2, <3>1, LenProperties
    <3>3. \A i \in 1..(Len(threads) - 1) : i + 1 \in 1..Len(threads)
      BY <3>1
    <3>4. \A i, j \in 1..(Len(threads) - 1) : i + 1 = j + 1 => i = j
      BY <3>1
    <3> QED
      BY <1>1, <2>1, <3>1, <3>2, <3>3, <3>4 DEF NoneTwice
  <2>4. At(joining, "exited")
    BY <1>1, <1>10
  <2>5. \A x \in done' : Contains(threads, x)' /\ At(x, "exited")'
    BY <1>1, <1>4, <2>1, <2>2
  <2>6. \A x \in Threads : Contains(threads, x) => Contains(threads, x)' \/ At(x, "exited")'
    BY <1>4, <2>2, <2>4
  <2>7. Joined'
    BY <2>1 DEF Joined
  <2> QED
    BY <1>1, <1>2, <1>3, <1>4, <2>1, <2>2, <2>3, <2>5, <2>6, <2>7, GoesOn
<1>11. CASE Undefined
  <2>1. main' \in {"join", "crashed"} /\ joining' = "main" /\ UNCHANGED <<threads, done>>
    BY <1>11 DEF Undefined, MainGoes
  <2> QED
    BY <1>6, <2>1 DEF Joined
<1> QED
  BY <1>7, <1>8, <1>9, <1>10, <1>11 DEF join_all

\* Any step of the main thread.
LEMMA MainOK == ASSUME IInv, Main PROVE IInv'
  BY StartsThreadOK, DispatchesThreadOK, MainLoopOK, StartsShutdownOK, ShutsOK, JoinAllOK DEF Main

----------------------------------------------------------------------------
\* The theorems.

\* Every step keeps the invariant.
LEMMA NextOK == IInv /\ [Next]_vars => IInv'
<1> SUFFICES ASSUME IInv, [Next]_vars PROVE IInv'
  OBVIOUS
<1>1. CASE Next
  BY <1>1, MainOK, ThreadOK, OthersOK, WriterOK, ReaderOK, StdinOK DEF Next
<1>2. CASE UNCHANGED vars
  <2>1. UNCHANGED <<running, r_s, pc, main, unlisted, joining, threads, done, given,
                    pipes, child, serving, closes, missed>>
    BY <1>2 DEF vars, listVars, childVars, serverVars
  <2>2. TypeOK' /\ Joined'
    BY <2>1 DEF IInv, TypeOK, Joined, At
  <2>3. Started' /\ Listed'
    BY <2>1 DEF IInv, Started, Listed, At
  <2> QED
    BY <2>2, <2>3 DEF IInv
<1> QED
  BY <1>1, <1>2

\* The invariant holds of every behaviour.
THEOREM Inductive == Spec => []IInv
  BY InitOK, NextOK, PTL DEF Spec

\* Variables have their types: a thread is in _threads at most once, whatever join_done
\* and join_all take out, and join_all's iterator points to the front.
THEOREM TypeCorrect == Spec => []TypeOK
<1>1. IInv => TypeOK
  BY DEF IInv
<1> QED
  BY <1>1, Inductive, PTL

\* When run returns every thread has exited (run.cpp:958-962), for any number of stream
\* threads, with and without the terminal.
THEOREM JoinedCorrect == Spec => []AllJoined
<1>1. IInv => AllJoined
  <2> SUFFICES ASSUME IInv, main = "ended", NEW t \in Threads PROVE At(t, "exited")
    BY DEF AllJoined
  <2>1. ~At(t, "new") /\ unlisted = {} /\ threads = <<>>
    BY DEF IInv, Started, Listed, Joined, InShutdown
  <2>2. ~Contains(threads, t)
    BY <2>1, EmptySeq DEF Contains
  <2> QED
    BY <2>1, <2>2 DEF IInv, Listed
<1> QED
  BY <1>1, Inductive, PTL

----------------------------------------------------------------------------
\* The wake-ups of the shutdown.  MainEnds has it that the program ends unless it is
\* Stuck: what follows says that Stuck names every way in which a thread comes to
\* wait for somebody else.

\* Where the main thread is when it waits for the threads, and before that once it
\* has told the stream threads, the server, the child worker and the writer to end.
Joins == {"join", "joining", "joined", "ended", "undefined", "crashed"}
AfterStreams == Joins \cup {"client"}
AfterServer  == AfterStreams \cup {"streams"}
AfterWait    == AfterServer \cup {"server"}
AfterChild   == AfterWait \cup {"waitpid"}

Sleeps(t) == pc[t] \in {"sleepy", "asleep"}

\* Each thread is at a place of its own.
PlacesOK ==
    /\ pc["writer"] \in {"new", "test", "look", "sleepy", "asleep", "exited"}
    /\ pc["reader"] \in {"new", "test", "read", "reading", "undefined", "exited"}
    /\ Cli => pc["stdin"] \in {"new", "test", "poll", "getline", "exited"}
    /\ pc["server"] \in {"new", "test", "serve", "exited"}
    /\ pc["shutdown"] \in {"new", "test", "again", "body", "exited"}
    /\ \A t \in Streams : pc[t] \in {"new", "test", "look", "sleepy", "asleep", "exited"}

\* The shutdown begins with a signal.
SignalFirst == main = "spawn" \/ ~At("shutdown", "new") => ~running

\* Whoever sleeps after its wake-up missed it.
WriterTold == main \in AfterChild => (Sleeps("writer") => "writer" \in missed)
ChildGone  == main \in AfterWait => ~child
ServerTold ==
    /\ serving <=> At("server", "serve")
    /\ main \in AfterServer => "server" \in missed \/ At("server", "exited")
                                    \/ (closes /\ At("server", "serve"))
StreamsTold == main \in AfterStreams =>
    \A t \in Streams : Sleeps(t) \/ At(t, "look") => t \in missed
LoopTold == main \in Joins => (r_s \/ At("shutdown", "again") => "shutdown" \in missed)

ToldInv == PlacesOK /\ SignalFirst /\ WriterTold /\ ChildGone /\ ServerTold /\ StreamsTold /\ LoopTold

LEMMA ToldInit == Init => ToldInv
<1> SUFFICES ASSUME Init PROVE ToldInv
  OBVIOUS
<1>1. main = "start" /\ running /\ ~serving /\ \A t \in Threads : pc[t] = "new"
  BY DEF Init
<1>2. PlacesOK
  BY <1>1, Names DEF PlacesOK
<1>3. SignalFirst /\ ServerTold
  BY <1>1, Names DEF SignalFirst, ServerTold, At, AfterServer, AfterStreams, Joins
<1>4. WriterTold /\ ChildGone /\ StreamsTold /\ LoopTold
  BY <1>1 DEF WriterTold, ChildGone, StreamsTold, LoopTold, AfterChild, AfterWait, AfterServer,
              AfterStreams, Joins
<1> QED
  BY <1>2, <1>3, <1>4 DEF ToldInv

\* What the shutdown may count on: the threads run, and nobody sets the running state.
LEMMA Down ==
    ASSUME IInv, ToldInv, main \in InShutdown
    PROVE  ~running /\ \A t \in Threads : ~At(t, "new")
<1>1. \A t \in Threads : ~At(t, "new")
  BY DEF IInv, Started
<1> QED
  BY <1>1, Names DEF ToldInv, SignalFirst

LEMMA Afters ==
    /\ Joins \subseteq AfterStreams /\ AfterStreams \subseteq AfterServer /\ AfterServer \subseteq AfterWait
    /\ AfterWait \subseteq AfterChild /\ AfterChild \subseteq InShutdown
    /\ {"spawn", "loop", "body", "start", "dispatch", "child"} \cap AfterChild = {}
  BY DEF Joins, AfterStreams, AfterServer, AfterWait, AfterChild, InShutdown

\* A step after which everybody is told what they were told before.
LEMMA ToldKept ==
    ASSUME IInv, ToldInv, UNCHANGED <<running, closes>>, missed \subseteq missed', child' => child,
           main' = main \/ {main, main'} \subseteq Joins,
           At("shutdown", "new")' <=> At("shutdown", "new"),
           PlacesOK',
           serving' <=> At("server", "serve")',
           At("server", "exited") => At("server", "exited")',
           At("server", "serve") => At("server", "serve")' \/ At("server", "exited")',
           main \in AfterChild => (Sleeps("writer")' => Sleeps("writer")),
           main \in AfterStreams =>
             \A t \in Streams : Sleeps(t)' \/ At(t, "look")' => Sleeps(t) \/ At(t, "look"),
           main \in Joins => (r_s' \/ At("shutdown", "again")' => r_s \/ At("shutdown", "again"))
    PROVE  ToldInv'
<1>1. SignalFirst'
  BY Afters DEF ToldInv, SignalFirst
<1>2. WriterTold' /\ ChildGone' /\ ServerTold'
  BY Afters DEF ToldInv, WriterTold, ChildGone, ServerTold
<1>3. StreamsTold' /\ LoopTold'
  BY Afters DEF ToldInv, StreamsTold, LoopTold
<1> QED
  BY <1>1, <1>2, <1>3 DEF ToldInv

\* The places of thread t, one of each kind.
PlacesFor(t) ==
    CASE t = "writer"   -> {"test", "look", "sleepy", "asleep", "exited"}
      [] t = "reader"   -> {"test", "read", "reading", "undefined", "exited"}
      [] t = "stdin"    -> {"test", "poll", "getline", "exited"}
      [] t = "server"   -> {"test", "serve", "exited"}
      [] t = "shutdown" -> {"test", "again", "body", "exited"}
      [] OTHER          -> {"test", "look", "sleepy", "asleep", "exited"}

\* A thread goes to one of its places, and sleeps only when nobody has told it to end.
LEMMA OneGoes ==
    ASSUME IInv, ToldInv, NEW t \in Threads, NEW to \in PlacesFor(t), ~At(t, "new"), ~At(t, "exited"),
           Goto(t, to), UNCHANGED <<running, main, closes, missed, child>>,
           t = "server" => (serving' <=> to = "serve") /\ to # "test",
           t # "server" => UNCHANGED serving,
           t # "shutdown" => UNCHANGED r_s,
           t = "shutdown" /\ main \in Joins =>
             (r_s' \/ to = "again" => r_s \/ At("shutdown", "again")),
           t = "writer" /\ main \in AfterChild => (to \in {"sleepy", "asleep"} => Sleeps(t)),
           t \in Streams /\ main \in AfterStreams =>
             (to \in {"look", "sleepy", "asleep"} => Sleeps(t) \/ At(t, "look"))
    PROVE  ToldInv'
<1>1. pc' = [pc EXCEPT ![t] = to] /\ pc \in [Threads -> Places]
  BY Typed DEF Goto
<1>2. pc'[t] = to /\ \A x \in Threads : x # t => pc'[x] = pc[x]
  BY <1>1
<1>3. to # "new"
  BY DEF PlacesFor
<1>4. PlacesOK'
  <2>1. PlacesOK
    BY DEF ToldInv
  <2>2. pc'["writer"] \in {"new", "test", "look", "sleepy", "asleep", "exited"}
    BY <1>2, <2>1, Names DEF PlacesOK, PlacesFor
  <2>3. pc'["reader"] \in {"new", "test", "read", "reading", "undefined", "exited"}
    BY <1>2, <2>1, Names DEF PlacesOK, PlacesFor
  <2>4. Cli => pc'["stdin"] \in {"new", "test", "poll", "getline", "exited"}
    BY <1>2, <2>1, Names DEF PlacesOK, PlacesFor
  <2>5. pc'["server"] \in {"new", "test", "serve", "exited"}
    BY <1>2, <2>1, Names DEF PlacesOK, PlacesFor
  <2>6. pc'["shutdown"] \in {"new", "test", "again", "body", "exited"}
    BY <1>2, <2>1, Names DEF PlacesOK, PlacesFor
  <2>7. ASSUME NEW x \in Streams
        PROVE  pc'[x] \in {"new", "test", "look", "sleepy", "asleep", "exited"}
    <3>1. x \in Threads /\ x \notin {"writer", "reader", "stdin", "server", "shutdown"}
      BY Names
    <3>2. CASE x = t
      BY <1>2, <3>1, <3>2 DEF PlacesFor
    <3>3. CASE x # t
      BY <1>2, <2>1, <3>1, <3>3 DEF PlacesOK
    <3> QED
      BY <3>2, <3>3
  <2> QED
    BY <2>2, <2>3, <2>4, <2>5, <2>6, <2>7 DEF PlacesOK
<1>5. serving' <=> At("server", "serve")'
  BY <1>2, Names DEF ToldInv, ServerTold, At
<1>6. /\ At("shutdown", "new")' <=> At("shutdown", "new")
      /\ At("server", "exited") => At("server", "exited")'
      /\ At("server", "serve") => At("server", "serve")' \/ At("server", "exited")'
  BY <1>2, <1>3, Names DEF At, PlacesFor
<1>7. main \in AfterChild => (Sleeps("writer")' => Sleeps("writer"))
  BY <1>2, Names DEF Sleeps
<1>8. main \in AfterStreams =>
        \A x \in Streams : Sleeps(x)' \/ At(x, "look")' => Sleeps(x) \/ At(x, "look")
  <2>1. ASSUME main \in AfterStreams, NEW x \in Streams, x = t
        PROVE  Sleeps(x)' \/ At(x, "look")' => Sleeps(x) \/ At(x, "look")
    BY <1>2, <2>1 DEF Sleeps, At
  <2>2. ASSUME NEW x \in Streams, x # t
        PROVE  Sleeps(x)' \/ At(x, "look")' => Sleeps(x) \/ At(x, "look")
    BY <1>2, <2>2, Names DEF Sleeps, At
  <2> QED
    BY <2>1, <2>2
<1>9. main \in Joins => (r_s' \/ At("shutdown", "again")' => r_s \/ At("shutdown", "again"))
  BY <1>2, Names DEF At
<1> QED
  BY <1>4, <1>5, <1>6, <1>7, <1>8, <1>9, ToldKept

\* The same for the two ways in which most steps of threads are written.
LEMMA ToldMoves ==
    ASSUME IInv, ToldInv, NEW t \in Threads, NEW from, NEW to \in PlacesFor(t),
           from \notin {"new", "exited"}, Moves(t, from, to), t # "server", to # "again",
           t = "writer" /\ main \in AfterChild => (to \in {"sleepy", "asleep"} => from = "sleepy"),
           t \in Streams /\ main \in AfterStreams =>
             (to \in {"look", "sleepy", "asleep"} => from \in {"look", "sleepy", "asleep"})
    PROVE  ToldInv'
<1>1. /\ pc[t] = from /\ Goto(t, to)
      /\ UNCHANGED <<running, r_s, main, closes, serving, missed, child>>
  BY DEF Moves, At, childVars, serverVars
<1>2. ~At(t, "new") /\ ~At(t, "exited")
  BY <1>1 DEF At
<1>3. /\ t = "writer" /\ main \in AfterChild => (to \in {"sleepy", "asleep"} => Sleeps(t))
      /\ t \in Streams /\ main \in AfterStreams =>
             (to \in {"look", "sleepy", "asleep"} => Sleeps(t) \/ At(t, "look"))
  BY <1>1 DEF Sleeps, At
<1> QED
  BY <1>1, <1>2, <1>3, OneGoes

LEMMA ToldExits ==
    ASSUME IInv, ToldInv, NEW t \in Threads, NEW from, from \notin {"new", "exited"}, Exits(t, from),
           t # "server"
    PROVE  ToldInv'
<1>1. /\ pc[t] = from /\ Goto(t, "exited")
      /\ UNCHANGED <<running, r_s, main, closes, serving, missed, child>>
  BY DEF Exits, At, childVars, serverVars
<1>2. ~At(t, "new") /\ ~At(t, "exited") /\ "exited" \in PlacesFor(t)
  BY <1>1 DEF At, PlacesFor
<1> QED
  BY <1>1, <1>2, OneGoes

\* The steps of each thread.
LEMMA ToldWriter == ASSUME IInv, ToldInv, Writer \/ send_command PROVE ToldInv'
<1>1. "writer" \in Threads /\ "writer" \notin Streams
      /\ PlacesFor("writer") = {"test", "look", "sleepy", "asleep", "exited"}
  BY Names DEF PlacesFor
<1>2. main \in AfterChild => ~running
  BY Down, Afters
<1>3. CASE Moves("writer", "test", "look") \/ Exits("writer", "test")
  BY <1>1, <1>3, ToldMoves, ToldExits
<1>4. CASE Moves("writer", "look", IF running THEN "sleepy" ELSE "test")
  BY <1>1, <1>2, <1>4, ToldMoves
<1>5. CASE Moves("writer", "sleepy", "asleep") \/ send_command
  BY <1>1, <1>5, ToldMoves DEF send_command
<1> QED
  BY <1>3, <1>4, <1>5 DEF Writer, Tests

LEMMA ToldReader == ASSUME IInv, ToldInv, Reader \/ Message PROVE ToldInv'
<1>1. "reader" \in Threads /\ "reader" \notin Streams
      /\ PlacesFor("reader") = {"test", "read", "reading", "undefined", "exited"}
  BY Names DEF PlacesFor
<1> QED
  BY <1>1, ToldMoves, ToldExits DEF Reader, Message, Tests

LEMMA ToldStdin == ASSUME IInv, ToldInv, Stdin \/ Enter PROVE ToldInv'
<1>1. Cli /\ "stdin" \in Threads /\ "stdin" \notin Streams
      /\ PlacesFor("stdin") = {"test", "poll", "getline", "exited"}
  BY Names DEF PlacesFor, Stdin, Enter
<1> QED
  BY <1>1, ToldMoves, ToldExits DEF Stdin, Enter, Tests

LEMMA ToldStream == ASSUME IInv, ToldInv, NEW t \in Streams, StreamThread(t) PROVE ToldInv'
<1>1. /\ t \in Threads /\ t \notin {"writer", "server", "shutdown"}
      /\ PlacesFor(t) = {"test", "look", "sleepy", "asleep", "exited"}
  BY Names DEF PlacesFor
<1>2. main \in AfterStreams => ~running
  BY Down, Afters
<1>3. CASE running /\ Moves(t, "test", "look")
  BY <1>1, <1>2, <1>3, ToldMoves
<1>4. CASE Exits(t, "test")
  BY <1>1, <1>4, ToldExits
<1>5. CASE Moves(t, "look", "sleepy") \/ Moves(t, "sleepy", "asleep")
  BY <1>1, <1>5, ToldMoves
<1>6. CASE /\ At(t, "look") /\ Goto(t, "test")
           /\ UNCHANGED <<running, r_s, main, listVars, childVars, serverVars, missed>>
  <2>1. ~At(t, "new") /\ ~At(t, "exited")
    BY <1>6 DEF At
  <2>2. Goto(t, "test") /\ UNCHANGED <<running, r_s, main, closes, serving, missed, child>>
    BY <1>6 DEF childVars, serverVars
  <2> QED
    BY <1>1, <2>1, <2>2, OneGoes
<1> QED
  BY <1>3, <1>4, <1>5, <1>6 DEF StreamThread, Tests

LEMMA ToldServer == ASSUME IInv, ToldInv, Server PROVE ToldInv'
<1>1. /\ "server" \in Threads /\ "server" \notin Streams
      /\ PlacesFor("server") = {"test", "serve", "exited"}
  BY Names DEF PlacesFor
<1>2. /\ ~At("server", "new") /\ ~At("server", "exited")
      /\ UNCHANGED <<running, r_s, main, closes, missed, child>>
      /\ \/ Goto("server", "serve") /\ serving' = TRUE
         \/ Goto("server", "exited") /\ serving' = FALSE
  BY DEF Server, At, childVars, serverVars
<1> QED
  BY <1>1, <1>2, OneGoes

\* A pass of the main loop may wake a stream thread.
LEMMA ToldNotify ==
    ASSUME NEW pcs \in [Threads -> Places], notify_work(pcs)
    PROVE  \A t \in Threads :
              pc'[t] = pcs[t] \/ (t \in Streams /\ pcs[t] = "asleep" /\ pc'[t] = "test")
  BY Names DEF notify_work

LEMMA ToldLoop == ASSUME IInv, ToldInv, ShutdownLoop PROVE ToldInv'
<1>1. /\ "shutdown" \in Threads /\ "shutdown" \notin Streams
      /\ PlacesFor("shutdown") = {"test", "again", "body", "exited"}
  BY Names DEF PlacesFor
<1>2. CASE r_s /\ Moves("shutdown", "test", "again")
  <2>1. /\ ~At("shutdown", "new") /\ ~At("shutdown", "exited") /\ Goto("shutdown", "again")
        /\ UNCHANGED <<running, r_s, main, closes, serving, missed, child>>
    BY <1>2 DEF Moves, At, childVars, serverVars
  <2> QED
    BY <1>1, <1>2, <2>1, OneGoes
<1>3. CASE Exits("shutdown", "test")
  BY <1>1, <1>3, ToldExits
<1>4. CASE At("shutdown", "again") /\ ShutdownLoop
  <2>1. /\ ~At("shutdown", "new") /\ ~At("shutdown", "exited") /\ Goto("shutdown", "body")
        /\ UNCHANGED <<running, main, closes, serving, missed, child>>
    BY <1>4 DEF ShutdownLoop, Moves, Exits, At, childVars, serverVars
  <2>2. r_s \/ At("shutdown", "again")
    BY <1>4
  <2> QED
    BY <1>1, <2>1, <2>2, OneGoes
<1>5. CASE /\ At("shutdown", "body")
           /\ notify_work([pc EXCEPT !["shutdown"] = "test"])
           /\ main' = IF main \in {"joining", "joined"} /\ done # {} THEN "undefined" ELSE main
           /\ UNCHANGED <<running, r_s, childVars, serverVars, missed>>
  <2> DEFINE pcs == [pc EXCEPT !["shutdown"] = "test"]
  <2>1. pc \in [Threads -> Places] /\ "test" \in Places
    BY Typed DEF Places
  <2>2. /\ pcs \in [Threads -> Places] /\ pcs["shutdown"] = "test"
        /\ \A t \in Threads : t # "shutdown" => pcs[t] = pc[t]
    BY <1>1, <2>1
  <2>3. notify_work(pcs)
    BY <1>5
  <2> HIDE DEF pcs
  <2>4. /\ pc'["shutdown"] = "test" /\ pc["shutdown"] = "body"
        /\ pc'["writer"] = pc["writer"] /\ pc'["reader"] = pc["reader"] /\ pc'["server"] = pc["server"]
        /\ Cli => pc'["stdin"] = pc["stdin"]
        /\ \A t \in Streams : pc'[t] = pc[t] \/ pc'[t] = "test"
    BY <1>1, <1>5, <2>2, <2>3, ToldNotify, Names DEF At
  <2>5. PlacesOK'
    BY <2>4 DEF ToldInv, PlacesOK
  <2>6. main' = main \/ {main, main'} \subseteq Joins
    BY <1>5 DEF Joins
  <2>7. UNCHANGED <<running, r_s, closes, serving, missed, child>>
    BY <1>5 DEF childVars, serverVars
  <2>8. serving' <=> At("server", "serve")'
    BY <2>4, <2>7 DEF ToldInv, ServerTold, At
  <2>9. /\ At("shutdown", "new")' <=> At("shutdown", "new")
        /\ At("server", "exited") => At("server", "exited")'
        /\ At("server", "serve") => At("server", "serve")' \/ At("server", "exited")'
        /\ Sleeps("writer")' => Sleeps("writer")
        /\ \A t \in Streams : Sleeps(t)' \/ At(t, "look")' => Sleeps(t) \/ At(t, "look")
        /\ ~At("shutdown", "again")'
    BY <2>4 DEF At, Sleeps
  <2> QED
    BY <2>5, <2>6, <2>7, <2>8, <2>9, ToldKept
<1> QED
  BY <1>2, <1>3, <1>4, <1>5 DEF ShutdownLoop

LEMMA ToldThread == ASSUME IInv, ToldInv, NEW t \in Threads, Thread(t) PROVE ToldInv'
  BY ToldWriter, ToldReader, ToldStdin, ToldStream, ToldServer, ToldLoop DEF Thread

\* Before the writer is told, only the places, the signal and the server count.
LEMMA ToldBefore ==
    ASSUME main' \notin AfterChild, PlacesOK', SignalFirst', serving' <=> At("server", "serve")'
    PROVE  ToldInv'
<1>1. \A S \in {AfterWait, AfterServer, AfterStreams, Joins} : main' \notin S
  BY Afters
<1> QED
  BY <1>1 DEF ToldInv, WriterTold, ChildGone, ServerTold, StreamsTold, LoopTold

\* Threads are started.
LEMMA ToldStarts ==
    ASSUME IInv, ToldInv, StartsThread \/ StartsShutdown
    PROVE  ToldInv'
<1>1. PICK S \in SUBSET Threads :
        /\ Starts(S)
        /\ "server" \in S => At("server", "new")
        /\ main = "start" => "shutdown" \notin S
        /\ main \in {"start", "spawn"}
  <2>1. CASE StartsShutdown
    BY <2>1, Names DEF StartsShutdown
  <2>2. CASE StartsThread
    <3>1. main = "start" /\ At("server", "new")
      BY <2>2 DEF StartsThread, IInv, Started
    <3>2. \/ Starts({"writer", "reader"}) \/ (Cli /\ Starts({"stdin"})) \/ Starts({"server"})
          \/ \E t \in Streams : Starts({t})
      BY <2>2 DEF StartsThread
    <3> QED
      BY <3>1, <3>2, Names
  <2> QED
    BY <2>1, <2>2
<1>2. /\ main' = "dispatch" /\ UNCHANGED <<running, serving>>
      /\ pc' = [t \in Threads |-> IF t \in S THEN "test" ELSE pc[t]]
  BY <1>1 DEF Starts, MainGoes, serverVars
<1>3. \A t \in Threads : pc'[t] = IF t \in S THEN "test" ELSE pc[t]
  BY <1>2
<1>4. PlacesOK'
  <2>1. \A t \in Threads : pc'[t] = "test" \/ pc'[t] = pc[t]
    BY <1>3
  <2> QED
    BY <2>1, Names DEF ToldInv, PlacesOK
<1>5. SignalFirst'
  <2>1. CASE main = "spawn"
    BY <1>2, <2>1 DEF ToldInv, SignalFirst
  <2>2. CASE main = "start"
    <3>1. pc'["shutdown"] = pc["shutdown"]
      BY <1>1, <1>3, <2>2, Names
    <3> QED
      BY <1>2, <3>1 DEF ToldInv, SignalFirst, At
  <2> QED
    BY <1>1, <2>1, <2>2
<1>6. serving' <=> At("server", "serve")'
  BY <1>1, <1>2, <1>3, Names DEF ToldInv, ServerTold, At
<1>7. main' \notin AfterChild
  BY <1>2, Afters
<1> QED
  BY <1>4, <1>5, <1>6, <1>7, ToldBefore

LEMMA ToldDispatches == ASSUME IInv, ToldInv, DispatchesThread PROVE ToldInv'
<1>1. UNCHANGED <<running, pc, serving>> /\ main' \in {"dispatch", "loop", "child", "start"}
  BY DEF DispatchesThread, MainGoes, serverVars
<1>2. PlacesOK' /\ (serving' <=> At("server", "serve")')
  BY <1>1 DEF ToldInv, PlacesOK, ServerTold, At
<1>3. SignalFirst'
  BY <1>1 DEF ToldInv, SignalFirst, At
<1>4. main' \notin AfterChild
  BY <1>1, Afters
<1> QED
  BY <1>2, <1>3, <1>4, ToldBefore

LEMMA ToldMainLoop == ASSUME IInv, ToldInv, MainLoop PROVE ToldInv'
<1>1. pc \in [Threads -> Places] /\ At("shutdown", "new")
  BY Typed DEF IInv, Started, InLoop, MainLoop
<1>2. UNCHANGED <<running, serving>> /\ main' \in {"body", "spawn", "loop"} /\ (main' = "spawn" => ~running)
  BY DEF MainLoop, serverVars
<1>3. \A t \in Threads : pc'[t] = pc[t] \/ (t \in Streams /\ pc[t] = "asleep" /\ pc'[t] = "test")
  <2>1. CASE UNCHANGED pc
    BY <2>1
  <2>2. CASE notify_work(pc)
    BY <1>1, <2>2, ToldNotify
  <2> QED
    BY <2>1, <2>2 DEF MainLoop
<1>4. /\ \A t \in {"writer", "reader", "server", "shutdown"} : pc'[t] = pc[t]
      /\ Cli => pc'["stdin"] = pc["stdin"]
      /\ \A t \in Streams : pc'[t] = pc[t] \/ pc'[t] = "test"
  BY <1>3, Names
<1>5. PlacesOK' /\ (serving' <=> At("server", "serve")')
  BY <1>2, <1>4 DEF ToldInv, PlacesOK, ServerTold, At
<1>6. SignalFirst'
  BY <1>1, <1>2, <1>4 DEF SignalFirst, At
<1>7. main' \notin AfterChild
  BY <1>2, Afters
<1> QED
  BY <1>5, <1>6, <1>7, ToldBefore

\* The shutdown tells one kind of thread after the other.
LEMMA ToldShuts ==
    ASSUME IInv, ToldInv, ShutsChild \/ ChildReaped \/ ShutsServer \/ ShutsStreams \/ EndsLoop
    PROVE  ToldInv'
<1>1. pc \in [Threads -> Places] /\ main \in InShutdown /\ UNCHANGED running /\ missed \subseteq missed'
  BY Typed DEF ShutsChild, ChildReaped, ShutsServer, ShutsStreams, EndsLoop, MainGoes, InShutdown
<1>2. ~running' /\ ~At("shutdown", "new")
  BY <1>1, Down, Names
<1>3. CASE ShutsChild
  <2>1. /\ main' = "waitpid" /\ UNCHANGED <<closes, serving>>
        /\ missed' = missed \cup {t \in {"writer"} : At(t, "sleepy")}
        /\ pc' = IF At("writer", "asleep") THEN [pc EXCEPT !["writer"] = "look"] ELSE pc
    BY <1>3 DEF ShutsChild, MainGoes, serverVars
  <2>2. /\ \A t \in Threads : t # "writer" => pc'[t] = pc[t]
        /\ pc'["writer"] = pc["writer"] \/ pc'["writer"] = "look"
        /\ pc["writer"] = "asleep" => pc'["writer"] = "look"
    BY <1>1, <2>1, Names DEF At
  <2>3. PlacesOK'
    BY <2>2, Names DEF ToldInv, PlacesOK
  <2>4. SignalFirst' /\ (serving' <=> At("server", "serve")')
    BY <1>2, <2>1, <2>2, Names DEF ToldInv, ServerTold, SignalFirst, At
  <2>5. WriterTold'
    BY <2>1, <2>2 DEF WriterTold, Sleeps, At
  <2>6. \A S \in {AfterWait, AfterServer, AfterStreams, Joins} : main' \notin S
    BY <2>1 DEF AfterWait, AfterServer, AfterStreams, Joins
  <2> QED
    BY <2>3, <2>4, <2>5, <2>6 DEF ToldInv, ChildGone, ServerTold, StreamsTold, LoopTold
<1>4. CASE ChildReaped
  <2>1. main' = "server" /\ ~child' /\ UNCHANGED <<pc, closes, serving, missed>> /\ main \in AfterChild
    BY <1>4 DEF ChildReaped, MainGoes, serverVars, AfterChild
  <2>2. PlacesOK' /\ SignalFirst' /\ WriterTold' /\ ChildGone'
    BY <1>2, <2>1 DEF ToldInv, PlacesOK, SignalFirst, WriterTold, ChildGone, Sleeps, At
  <2>3. \A S \in {AfterServer, AfterStreams, Joins} : main' \notin S
    BY <2>1 DEF AfterServer, AfterStreams, Joins
  <2> QED
    BY <2>1, <2>2, <2>3 DEF ToldInv, ServerTold, StreamsTold, LoopTold, At
<1>5. CASE ShutsServer
  <2>1. /\ main' = "streams" /\ main \in AfterWait /\ main \in AfterChild
        /\ UNCHANGED <<pc, child, serving>> /\ closes' = serving
        /\ ~serving => "server" \in missed'
    BY <1>5 DEF ShutsServer, MainGoes, childVars, AfterChild, AfterWait
  <2>2. PlacesOK' /\ SignalFirst' /\ WriterTold' /\ ChildGone'
    BY <1>1, <1>2, <2>1 DEF ToldInv, PlacesOK, SignalFirst, WriterTold, ChildGone, Sleeps, At
  <2>3. ServerTold'
    BY <2>1 DEF ToldInv, ServerTold, At
  <2>4. \A S \in {AfterStreams, Joins} : main' \notin S
    BY <2>1 DEF AfterStreams, Joins
  <2> QED
    BY <2>2, <2>3, <2>4 DEF ToldInv, StreamsTold, LoopTold
<1>6. CASE ShutsStreams
  <2>1. /\ main' = "client" /\ main \in AfterServer /\ main \in AfterWait /\ main \in AfterChild
        /\ UNCHANGED <<child, serving, closes>>
        /\ missed' = missed \cup {t \in Streams : pc[t] \in {"look", "sleepy"}}
        /\ pc' = [t \in Threads |-> IF t \in Streams /\ At(t, "asleep") THEN "test" ELSE pc[t]]
    BY <1>6 DEF ShutsStreams, MainGoes, childVars, serverVars, AfterChild, AfterWait, AfterServer
  <2>2. /\ \A t \in Threads : t \notin Streams => pc'[t] = pc[t]
        /\ \A t \in Streams : pc'[t] = IF pc[t] = "asleep" THEN "test" ELSE pc[t]
    BY <2>1, Names DEF At
  <2>3. /\ \A t \in {"writer", "reader", "server", "shutdown"} : pc'[t] = pc[t]
        /\ Cli => pc'["stdin"] = pc["stdin"]
    BY <2>2, Names
  <2>4. PlacesOK'
    BY <2>2, <2>3 DEF ToldInv, PlacesOK
  <2>5. SignalFirst' /\ WriterTold' /\ ChildGone' /\ ServerTold'
    BY <1>2, <2>1, <2>3 DEF ToldInv, SignalFirst, WriterTold, ChildGone, ServerTold, Sleeps, At
  <2>6. StreamsTold'
    BY <2>1, <2>2 DEF StreamsTold, Sleeps, At
  <2>7. main' \notin Joins
    BY <2>1 DEF Joins
  <2> QED
    BY <2>4, <2>5, <2>6, <2>7 DEF ToldInv, LoopTold
<1>7. CASE EndsLoop
  <2>1. /\ main' = "join" /\ main \in AfterStreams /\ main \in AfterServer /\ main \in AfterWait
        /\ main \in AfterChild /\ UNCHANGED <<pc, child, serving, closes>> /\ ~r_s'
        /\ missed' = missed \cup {t \in {"shutdown"} : At(t, "again")}
    BY <1>7 DEF EndsLoop, MainGoes, childVars, serverVars, AfterChild, AfterWait, AfterServer, AfterStreams
  <2>2. PlacesOK' /\ SignalFirst' /\ WriterTold' /\ ChildGone'
    BY <1>1, <1>2, <2>1 DEF ToldInv, PlacesOK, SignalFirst, WriterTold, ChildGone, Sleeps, At
  <2>3. ServerTold' /\ StreamsTold'
    BY <2>1 DEF ToldInv, ServerTold, StreamsTold, Sleeps, At
  <2>4. LoopTold'
    BY <2>1 DEF LoopTold, At
  <2> QED
    BY <2>2, <2>3, <2>4 DEF ToldInv
<1> QED
  BY <1>3, <1>4, <1>5, <1>6, <1>7

\* Steps that tell nobody anything.
LEMMA ToldSame ==
    ASSUME IInv, ToldInv, UNCHANGED <<running, r_s, pc, serving, closes, missed>>, child' => child,
           main' = main \/ {main, main'} \subseteq Joins
    PROVE  ToldInv'
<1>1. PlacesOK' /\ (serving' <=> At("server", "serve")')
  BY DEF ToldInv, PlacesOK, ServerTold, At
<1>2. /\ At("shutdown", "new")' <=> At("shutdown", "new")
      /\ At("server", "exited") => At("server", "exited")'
      /\ At("server", "serve") => At("server", "serve")' \/ At("server", "exited")'
      /\ Sleeps("writer")' => Sleeps("writer")
      /\ \A t \in Streams : Sleeps(t)' \/ At(t, "look")' => Sleeps(t) \/ At(t, "look")
      /\ r_s' \/ At("shutdown", "again")' => r_s \/ At("shutdown", "again")
  BY DEF At, Sleeps
<1> QED
  BY <1>1, <1>2, ToldKept

LEMMA ToldJoins == ASSUME IInv, ToldInv, join_all \/ Undefined PROVE ToldInv'
<1>1. UNCHANGED <<running, r_s, pc, serving, closes, missed, child>> /\ {main, main'} \subseteq Joins
  BY DEF join_all, Undefined, MainGoes, childVars, serverVars, Joins
<1> QED
  BY <1>1, ToldSame

\* A signal, and the end of the child worker.
LEMMA ToldOthers == ASSUME IInv, ToldInv, on_sigint \/ ChildEnds PROVE ToldInv'
<1>1. CASE ChildEnds
  BY <1>1, ToldSame DEF ChildEnds, serverVars
<1>2. CASE on_sigint
  <2>1. running /\ ~running' /\ UNCHANGED <<r_s, pc, main, serving, closes, missed, child>>
    BY <1>2 DEF on_sigint, childVars, serverVars
  <2>2. PlacesOK' /\ SignalFirst' /\ WriterTold' /\ ChildGone'
    BY <2>1 DEF ToldInv, PlacesOK, SignalFirst, WriterTold, ChildGone, Sleeps, At
  <2>3. ServerTold' /\ StreamsTold' /\ LoopTold'
    BY <2>1 DEF ToldInv, ServerTold, StreamsTold, LoopTold, Sleeps, At
  <2> QED
    BY <2>2, <2>3 DEF ToldInv
<1> QED
  BY <1>1, <1>2

LEMMA ToldNext == IInv /\ ToldInv /\ [Next]_vars => ToldInv'
<1> SUFFICES ASSUME IInv, ToldInv, [Next]_vars PROVE ToldInv'
  OBVIOUS
<1>1. CASE Main
  BY <1>1, ToldStarts, ToldDispatches, ToldMainLoop, ToldShuts, ToldJoins DEF Main
<1>2. CASE \E t \in Threads : Thread(t)
  BY <1>2, ToldThread
<1>3. CASE ChildEnds \/ Message \/ send_command \/ Enter \/ on_sigint
  BY <1>3, ToldOthers, ToldReader, ToldWriter, ToldStdin
<1>4. CASE UNCHANGED vars
  BY <1>4, ToldSame DEF vars, serverVars, childVars
<1> QED
  BY <1>1, <1>2, <1>3, <1>4 DEF Next

LEMMA ToldHolds == Spec => []ToldInv
  BY ToldInit, ToldNext, Inductive, PTL DEF Spec

\* Thread t has exited, or is on its way to: it is where it goes on by itself, and
\* what it tests there tells it to end.
Ending(t) ==
    \/ At(t, "exited")
    \/ t = "writer" /\ pc[t] \in {"test", "look"}
    \/ t = "reader" /\ pc[t] \in {"test", "read", "reading"} /\ ~child
    \/ t = "stdin" /\ pc[t] \in {"test", "poll"}
    \/ t = "server" /\ At(t, "serve") /\ closes
    \/ t = "shutdown" /\ pc[t] \in {"test", "body"} /\ ~r_s
    \/ t \in Streams /\ At(t, "test")

\* While join_all waits, whoever has not exited is on its way to.
NobodyWaits ==
    main \in Joins /\ ~Crashed /\ ~Stuck => ~running /\ \A t \in Threads : Ending(t)

LEMMA AllEnding == IInv /\ ToldInv => NobodyWaits
<1> SUFFICES ASSUME IInv, ToldInv, main \in Joins, ~Crashed, ~Stuck
             PROVE  ~running /\ \A t \in Threads : Ending(t)
  BY DEF NobodyWaits
<1>1. /\ main \in InShutdown /\ main \in AfterChild /\ main \in AfterWait /\ main \in AfterServer
      /\ main \in AfterStreams
  BY Afters
<1>2. ~running /\ \A t \in Threads : pc[t] # "new"
  BY <1>1, Down DEF At
<1>3. \A t \in Threads : t \in missed => pc[t] = "exited"
  BY DEF Stuck, At, IInv, TypeOK
<1>4. PlacesOK
  BY DEF ToldInv
<1>5. Ending("writer")
  <2>1. ~Sleeps("writer")
    BY <1>1, <1>3, Names DEF ToldInv, WriterTold, Sleeps
  <2> QED
    BY <1>2, <1>4, <2>1, Names DEF PlacesOK, Ending, Sleeps, At
<1>6. Ending("reader")
  <2>1. ~child /\ pc["reader"] # "undefined"
    BY <1>1 DEF ToldInv, ChildGone, Crashed, At
  <2> QED
    BY <1>2, <1>4, <2>1, Names DEF PlacesOK, Ending, At
<1>7. Cli => Ending("stdin")
  <2>1. Cli => pc["stdin"] # "getline"
    BY DEF Stuck, At
  <2> QED
    BY <1>2, <1>4, <2>1, Names DEF PlacesOK, Ending, At
<1>8. Ending("server")
  <2>1. pc["server"] = "exited" \/ (closes /\ pc["server"] = "serve")
    BY <1>1, <1>3, Names DEF ToldInv, ServerTold, At
  <2> QED
    BY <2>1 DEF Ending, At
<1>9. Ending("shutdown")
  <2>1. pc["shutdown"] = "exited" \/ (~r_s /\ pc["shutdown"] # "again")
    BY <1>1, <1>3, Names DEF ToldInv, LoopTold, At
  <2> QED
    BY <1>2, <1>4, <2>1, Names DEF PlacesOK, Ending, At
<1>10. ASSUME NEW t \in Streams
       PROVE  Ending(t)
  <2>1. t \in Threads /\ pc[t] \in {"new", "test", "look", "sleepy", "asleep", "exited"}
    BY <1>4, Names DEF PlacesOK
  <2>2. pc[t] \notin {"look", "sleepy", "asleep"}
    BY <1>1, <1>3, <2>1 DEF ToldInv, StreamsTold, Sleeps, At
  <2> QED
    BY <1>2, <2>1, <2>2 DEF Ending, At
<1> QED
  BY <1>2, <1>5, <1>6, <1>7, <1>8, <1>9, <1>10 DEF Threads

\* When join_all waits (run.cpp:958, thread_manager.cpp:122), every thread has exited or
\* is on its way to by itself, unless the program is stuck as MainEnds allows: each
\* kind's wake-up has reached whoever slept, for any number of stream threads and
\* wherever the signal came.  No other way to wait for ever is left out of Stuck.
THEOREM NobodyWaitsCorrect == Spec => []NobodyWaits
  BY ToldHolds, Inductive, AllEnding, PTL

\* How many steps of its own a thread on its way to its end has left at most.
StepsLeft(t) == IF At(t, "exited") THEN 0
                ELSE IF pc[t] \in {"test", "read", "reading", "serve"} THEN 1 ELSE 2

\* Nothing but the terminal's line and the read of a closed descriptor keeps a thread
\* from its end.
OneStepLess ==
    \A t \in Threads : Ending(t) /\ pc'[t] # pc[t] =>
        StepsLeft(t)' < StepsLeft(t) \/ At(t, "getline")' \/ At(t, "undefined")'

LEMMA Steps ==
    ASSUME NEW t
    PROVE  /\ pc[t] = "exited" => StepsLeft(t) = 0
           /\ pc[t] \in {"test", "read", "reading", "serve"} => StepsLeft(t) = 1
           /\ pc[t] \in {"look", "poll", "body"} => StepsLeft(t) = 2
           /\ pc'[t] = "exited" => StepsLeft(t)' = 0
           /\ pc'[t] = "test" => StepsLeft(t)' = 1
  BY DEF StepsLeft, At

\* A step of one thread.
LEMMA OneEnds ==
    ASSUME IInv, NEW t \in Threads, NEW to, Goto(t, to),
           Ending(t) => \/ to = "exited" /\ pc[t] # "exited"
                        \/ to = "test" /\ pc[t] \in {"look", "poll", "body"}
                        \/ to \in {"getline", "undefined"}
    PROVE  OneStepLess
<1>1. pc'[t] = to /\ \A x \in Threads : x # t => pc'[x] = pc[x]
  BY Typed DEF Goto
<1>2. ASSUME Ending(t)
      PROVE  StepsLeft(t)' < StepsLeft(t) \/ At(t, "getline")' \/ At(t, "undefined")'
  <2>1. CASE to = "exited" /\ pc[t] # "exited"
    <3>1. StepsLeft(t) \in {1, 2} /\ StepsLeft(t)' = 0
      BY <1>1, <2>1 DEF StepsLeft, At
    <3> QED
      BY <3>1
  <2>2. CASE to = "test" /\ pc[t] \in {"look", "poll", "body"}
    <3>1. StepsLeft(t) = 2 /\ StepsLeft(t)' = 1
      BY <1>1, <2>2, Steps
    <3> QED
      BY <3>1
  <2>3. CASE to \in {"getline", "undefined"}
    BY <1>1, <2>3 DEF At
  <2> QED
    BY <1>2, <2>1, <2>2, <2>3
<1> QED
  BY <1>1, <1>2 DEF OneStepLess

\* Steps that leave the threads where they are.
LEMMA NoneEnds == ASSUME UNCHANGED pc PROVE OneStepLess
  BY DEF OneStepLess

\* The threads' steps, once nobody is to wait.
LEMMA ThreadsEnd ==
    ASSUME IInv, ~running, NEW t \in Threads, Thread(t)
    PROVE  OneStepLess
<1>1. pc \in [Threads -> Places]
  BY Typed
<1>2. CASE t = "writer" /\ Writer
  <2>1. \/ Goto(t, "exited") /\ pc[t] = "test"
        \/ Goto(t, "test") /\ pc[t] = "look"
        \/ Goto(t, "asleep") /\ pc[t] = "sleepy"
    BY <1>2 DEF Writer, Tests, Moves, Exits, At
  <2>2. pc[t] = "sleepy" => ~Ending(t)
    BY <1>2, Names DEF Ending, At
  <2> QED
    BY <2>1, <2>2, OneEnds
<1>3. CASE t = "reader" /\ Reader
  <2>1. \/ Goto(t, "exited") /\ pc[t] # "exited"
        \/ Goto(t, "reading") /\ child
        \/ Goto(t, "undefined")
    BY <1>3 DEF Reader, Tests, Moves, Exits, At
  <2>2. child => pc[t] = "exited" \/ ~Ending(t)
    BY <1>3, Names DEF Ending, At
  <2>3. Goto(t, "reading") => pc[t] # "exited"
    BY <1>1, <1>3 DEF Reader, Tests, Moves, Exits, At, Goto
  <2> QED
    BY <2>1, <2>2, <2>3, OneEnds
<1>4. CASE t = "stdin" /\ Stdin
  <2>1. \/ Goto(t, "exited") /\ pc[t] # "exited"
        \/ Goto(t, "test") /\ pc[t] = "poll"
        \/ Goto(t, "getline")
    BY <1>4 DEF Stdin, Tests, Moves, Exits, At
  <2> QED
    BY <2>1, OneEnds
<1>5. CASE t \in Streams /\ StreamThread(t)
  <2>1. \/ Goto(t, "exited") /\ pc[t] = "test"
        \/ Goto(t, "test") /\ pc[t] = "look"
        \/ Goto(t, "sleepy") /\ pc[t] = "look"
        \/ Goto(t, "asleep") /\ pc[t] = "sleepy"
    BY <1>5 DEF StreamThread, Tests, Moves, Exits, At
  <2>2. pc[t] \in {"look", "sleepy"} => ~Ending(t)
    BY <1>5, Names DEF Ending, At
  <2> QED
    BY <2>1, <2>2, OneEnds
<1>6. CASE t = "server" /\ Server
  <2>1. \/ Goto(t, "serve") /\ pc[t] = "test"
        \/ Goto(t, "exited") /\ pc[t] = "serve"
    BY <1>6 DEF Server, At
  <2>2. pc[t] = "test" => ~Ending(t)
    BY <1>6, Names DEF Ending, At
  <2> QED
    BY <2>1, <2>2, OneEnds
<1>7. CASE t = "shutdown" /\ ShutdownLoop
  <2>1. \/ Goto(t, "exited") /\ pc[t] = "test"
        \/ Goto(t, "again") /\ r_s /\ pc[t] = "test"
        \/ Goto(t, "body") /\ pc[t] = "again"
        \/ pc[t] = "body" /\ notify_work([pc EXCEPT !["shutdown"] = "test"])
    BY <1>7 DEF ShutdownLoop, Moves, Exits, At
  <2>2. pc[t] = "again" \/ (pc[t] = "test" /\ r_s) => ~Ending(t)
    BY <1>7, Names DEF Ending, At
  <2>3. CASE pc[t] = "body" /\ notify_work([pc EXCEPT !["shutdown"] = "test"])
    <3> DEFINE pcs == [pc EXCEPT !["shutdown"] = "test"]
    <3>1. notify_work(pcs)
      BY <2>3
    <3>2. /\ pcs \in [Threads -> Places] /\ pcs[t] = "test"
          /\ \A x \in Threads : x # t => pcs[x] = pc[x]
      BY <1>1, <1>7 DEF Places
    <3> HIDE DEF pcs
    <3>3. \A x \in Threads : pc'[x] = pcs[x] \/ (x \in Streams /\ pcs[x] = "asleep")
      BY <3>1, <3>2, ToldNotify
    <3>4. pc'[t] = "test" /\ t \notin Streams
      BY <1>7, <3>2, <3>3, Names
    <3>5. StepsLeft(t)' < StepsLeft(t)
      <4>1. StepsLeft(t)' = 1 /\ StepsLeft(t) = 2
        BY <2>3, <3>4, Steps
      <4> QED
        BY <4>1
    <3>6. ASSUME NEW x \in Threads, Ending(x), x # t
          PROVE  pc'[x] = pc[x]
      <4>1. x \in Streams => pc[x] # "asleep"
        BY <3>6, Names DEF Ending, At
      <4> QED
        BY <3>2, <3>3, <3>6, <4>1
    <3> QED
      BY <3>5, <3>6 DEF OneStepLess
  <2> QED
    BY <2>1, <2>2, <2>3, OneEnds
<1> QED
  BY <1>2, <1>3, <1>4, <1>5, <1>6, <1>7 DEF Thread

\* Steps of nobody in particular, and the main thread's while it joins.
LEMMA OthersEnd ==
    ASSUME IInv, main \in Joins, ~running,
           Main \/ ChildEnds \/ Message \/ send_command \/ Enter \/ on_sigint
    PROVE  OneStepLess
<1>1. CASE Main
  <2>1. join_all \/ Undefined
    BY <1>1 DEF Main, StartsThread, DispatchesThread, MainLoop, StartsShutdown, ShutsChild,
                ChildReaped, ShutsServer, ShutsStreams, EndsLoop, Joins
  <2>2. UNCHANGED pc
    BY <2>1 DEF join_all, Undefined
  <2> QED
    BY <2>2, NoneEnds
<1>2. CASE ChildEnds
  BY <1>2, NoneEnds DEF ChildEnds
<1>3. CASE Message
  <2>1. "reader" \in Threads /\ Goto("reader", "test") /\ ~Ending("reader")
    BY <1>3, Names DEF Message, Moves, At, Ending
  <2> QED
    BY <2>1, OneEnds
<1>4. CASE send_command
  <2>1. "writer" \in Threads /\ Goto("writer", "test") /\ ~Ending("writer")
    BY <1>4, Names DEF send_command, Moves, At, Ending
  <2> QED
    BY <2>1, OneEnds
<1>5. CASE Enter
  <2>1. "stdin" \in Threads /\ Goto("stdin", "test") /\ ~Ending("stdin")
    BY <1>5, Names DEF Enter, Moves, At, Ending
  <2> QED
    BY <2>1, OneEnds
<1>6. CASE on_sigint
  BY <1>6 DEF on_sigint
<1> QED
  BY <1>1, <1>2, <1>3, <1>4, <1>5, <1>6

\* While join_all waits (thread_manager.cpp:122), a thread on its way to its end takes
\* at most two more steps of its own to get there: the loops test what the shutdown set
\* before anything that could keep them.  Only the terminal's listener, which waits for
\* the rest of a line, and the reader, which reads a descriptor just closed, may fail to.
THEOREM EndsInTwoSteps ==
    Spec => [][(main \in Joins /\ ~Crashed /\ ~Stuck) => OneStepLess]_vars
<1>1. IInv /\ NobodyWaits /\ [Next]_vars => [(main \in Joins /\ ~Crashed /\ ~Stuck) => OneStepLess]_vars
  <2> SUFFICES ASSUME IInv, NobodyWaits, Next, main \in Joins, ~Crashed, ~Stuck
               PROVE  OneStepLess
    OBVIOUS
  <2>1. ~running
    BY DEF NobodyWaits
  <2> QED
    BY <2>1, ThreadsEnd, OthersEnd DEF Next
<1> QED
  BY <1>1, Inductive, NobodyWaitsCorrect, PTL DEF Spec

=============================================================================
