------------------------- MODULE KernelStoresProofs -------------------------
(***************************************************************************)
(* Proofs about KernelStores for every number of slots, priorities and     *)
(* ids: the pointers are relinked and the current task is replaced so      *)
(* that at the end of each call the lists hold the READY tasks and one     *)
(* task runs at most.                                                      *)
(***************************************************************************)
EXTENDS KernelStores, FiniteSetTheorems, SequenceTheorems,
        WellFoundedInduction, TLAPS

-----------------------------------------------------------------------------
(* What holds at every step.                                                *)

(* A step is its operation's name and operands; code is what a call has     *)
(* left to do.                                                              *)
Steps ==
  UNION {
    {<<op>> : op \in {"requeue", "schedule", "yield", "tick", "start",
                      "block"}},
    {<<"create", p>> : p \in Priorities},
    {<<"stop", id, st>> : id \in 1..MaxTaskId, st \in {"DELETED", "SUSPENDED"}},
    {<<"resume", id>> : id \in 1..MaxTaskId},
    {<<op, s>> : op \in {"add", "remove", "switch", "set_current", "resched"},
                 s \in Slots},
    {<<"mark", s, st>> : s \in Slots, st \in K!TaskStates},
    {<<"link", s, t>> : s \in Slots, t \in Slots \cup {NULL}},
    {<<"unlink", s, t, u>> : s \in Slots, t \in Slots \cup {NULL},
                             u \in Slots \cup {NULL}}}
Code == Seq(Steps)

DataTypeOK ==
  /\ state \in [Slots -> K!TaskStates]
  /\ priority \in [Slots -> Priorities]
  /\ task_id \in [Slots -> Nat]
  /\ next \in [Slots -> Slots \cup {NULL}]
  /\ ready_lists \in [Priorities -> Slots \cup {NULL}]
  /\ current_tcb \in Slots \cup {NULL} /\ current_task \in Slots \cup {NULL}
  /\ scheduler_running \in BOOLEAN /\ next_task_id \in Nat \ {0}

CurrentLive ==
  /\ current_tcb # NULL => scheduler_running /\ task_id[current_tcb] # 0
  /\ current_task # NULL => current_tcb # NULL

Standing == DataTypeOK /\ CurrentLive

-----------------------------------------------------------------------------
(* Lists.  q is the list that starts at h when next is nx.                  *)

Linked(nx, h, q) ==
  /\ q \in Seq(Slots)
  /\ \A i, j \in 1..Len(q) : q[i] = q[j] => i = j
  /\ h = IF Len(q) = 0 THEN NULL ELSE q[1]
  /\ \A i \in 1..Len(q) : nx[q[i]] = IF i = Len(q) THEN NULL ELSE q[i + 1]

WellLinked ==
  \A p \in Priorities :
    /\ Linked(next, ready_lists[p], List(p))
    /\ \A i \in 1..Len(List(p)) : priority[List(p)[i]] = p

Listed(s) ==
  \E i \in 1..Len(List(priority[s])) : List(priority[s])[i] = s
Ready(s) == task_id[s] # 0 /\ state[s] = "READY"

(* The lists hold the READY tasks; all of them but s; whether they hold s   *)
(* is left open.                                                            *)
Exact == WellLinked /\ \A t \in Slots : Listed(t) <=> Ready(t)
But(s) == WellLinked /\ \A t \in Slots \ {s} : Listed(t) <=> Ready(t)
Without(s) == But(s) /\ ~Listed(s)

-----------------------------------------------------------------------------
(* Who runs.                                                                *)

OneRuns ==
  /\ current_tcb = current_task
  /\ \A s \in Slots : state[s] = "RUNNING" => s = current_tcb
NoneRuns ==
  /\ current_tcb = current_task
  /\ \A s \in Slots : state[s] # "RUNNING"
OnlyRuns(n) ==
  \A s \in Slots : state[s] = "RUNNING" <=> s = n

Calm == Exact /\ OneRuns

-----------------------------------------------------------------------------
(* The points of a call, by the step to be done; w is the code left.        *)

(* Code that starts with the step a.                                        *)
Then(a, r) == <<a>> \o r

Schedule == << <<"schedule">> >>
Yield == << <<"yield">> >>
Resched(s) == << <<"resched", s>> >>
SetCurrent(n) == << <<"set_current", n>> >>
Switch(n) == Then(<<"switch", n>>, SetCurrent(n))
Run(n) == Then(<<"mark", n, "RUNNING">>, Switch(n))

OnRest(w) == w = <<>> /\ Calm

OnCreate(w) == Calm /\ \E p \in Priorities : w = task_create(p)

OnStop(w) ==
  Calm /\ \E id \in 1..MaxTaskId, st \in {"DELETED", "SUSPENDED"} :
            w = << <<"stop", id, st>> >>

OnResume(w) == Calm /\ \E id \in 1..MaxTaskId : w = task_resume(id)

OnBlock(w) == Calm /\ w = Then(<<"block">>, Yield) /\ current_task # NULL

OnStart(w) == Calm /\ w = << <<"start">> >> /\ current_tcb = NULL

OnTick(w) == Calm /\ w = << <<"tick">> >>

OnYield(w) == Calm /\ w = Yield

OnResched(w) == Calm /\ \E s \in Slots : w = Resched(s)

OnRequeue(w) == Calm /\ w = Then(<<"requeue">>, Schedule) /\ scheduler_running

OnSchedule(w) == Exact /\ NoneRuns /\ w = Schedule /\ scheduler_running

(* A dispatch of n.                                                         *)
Dispatches(n) == scheduler_running /\ task_id[n] # 0

OnSet(w) ==
  \E n \in Slots :
    /\ w = SetCurrent(n) /\ Dispatches(n)
    /\ Exact /\ OnlyRuns(n) /\ current_tcb = n

OnSwitch(w) ==
  \E n \in Slots :
    /\ w = Switch(n) /\ Dispatches(n)
    /\ Exact /\ OnlyRuns(n) /\ current_tcb = current_task

(* What is left when s has left its list.                                   *)
AfterRemove(s, e) ==
  \/ /\ e = Then(<<"mark", s, "DELETED">>, Resched(s))
     /\ OneRuns
  \/ e \in {Resched(s), Yield} /\ OneRuns /\ ~Ready(s)
  \/ \E n \in Slots \ {s} :
       /\ e = Then(<<"add", s>>, Then(<<"remove", n>>, Run(n)))
       /\ NoneRuns /\ Ready(s) /\ Ready(n) /\ Dispatches(n)
  \/ e = Run(s) /\ NoneRuns /\ Ready(s) /\ Dispatches(s)

OnRemove(w) ==
  \E s \in Slots, e \in Code :
    /\ w = Then(<<"remove", s>>, e)
    /\ But(s) /\ AfterRemove(s, e)

(* The position of s in its list.                                           *)
Before(s, prev) ==
  \E i \in 1..Len(List(priority[s])) :
    /\ List(priority[s])[i] = s
    /\ prev = IF i = 1 THEN NULL ELSE List(priority[s])[i - 1]

OnUnlink(w) ==
  \E s \in Slots, e \in Code, prev \in Slots \cup {NULL} :
    /\ w = Then(<<"unlink", s, prev, next[s]>>, e)
    /\ Before(s, prev)
    /\ But(s) /\ AfterRemove(s, e)

(* What is left when s has joined its list.                                 *)
AfterAdd(s, e) ==
  \/ e = <<>> /\ OneRuns
  \/ e = Schedule /\ NoneRuns /\ scheduler_running
  \/ \E n \in Slots \ {s} :
       /\ e = Then(<<"remove", n>>, Run(n))
       /\ NoneRuns /\ Ready(n) /\ Dispatches(n)

OnAdd(w) ==
  \E s \in Slots, e \in Code :
    /\ w = Then(<<"add", s>>, e)
    /\ Without(s) /\ Ready(s) /\ AfterAdd(s, e)

(* The last TCB of a list.                                                  *)
Last(q) == IF Len(q) = 0 THEN NULL ELSE q[Len(q)]

OnLink(w) ==
  \E s \in Slots, e \in Code :
    /\ w = Then(<<"link", s, Last(List(priority[s]))>>, e)
    /\ next[s] = NULL
    /\ Without(s) /\ Ready(s) /\ AfterAdd(s, e)

OnMark(w) ==
  \E s \in Slots :
    \/ /\ w = Then(<<"mark", s, "DELETED">>, Resched(s))
       /\ Without(s) /\ OneRuns
    \/ /\ w = Then(<<"mark", s, "SUSPENDED">>,
                Then(<<"remove", s>>, Resched(s)))
       /\ Calm
    \/ /\ w = Then(<<"mark", s, "BLOCKED">>, Then(<<"remove", s>>, Yield))
       /\ Calm
    \/ /\ w = Then(<<"mark", s, "READY">>, Then(<<"add", s>>, <<>>))
       /\ Calm /\ state[s] = "SUSPENDED" /\ task_id[s] # 0
    \/ /\ w = Then(<<"mark", s, "READY">>, Then(<<"add", s>>, Schedule))
       /\ Calm /\ scheduler_running /\ s = current_tcb /\ state[s] = "RUNNING"
    \/ /\ w = Run(s)
       /\ Without(s) /\ NoneRuns /\ Ready(s) /\ Dispatches(s)

Point(w) ==
  \/ OnRest(w) \/ OnCreate(w) \/ OnStop(w) \/ OnResume(w) \/ OnBlock(w)
  \/ OnStart(w) \/ OnTick(w) \/ OnYield(w) \/ OnResched(w) \/ OnRequeue(w)
  \/ OnSchedule(w) \/ OnSet(w) \/ OnSwitch(w) \/ OnMark(w) \/ OnRemove(w)
  \/ OnUnlink(w) \/ OnAdd(w) \/ OnLink(w)

StoresInv == Standing /\ code \in Code /\ Point(code)

-----------------------------------------------------------------------------
(* Lists.                                                                   *)

(* A set of numbers that is not empty has a least one.                      *)
LEMMA LeastNat ==
  ASSUME NEW S, S \subseteq Nat, S # {}
  PROVE  \E n \in S : \A m \in S : n <= m
<1>1. PICK n \in S : \A m \in S : <<m, n>> \notin OpToRel(<, Nat)
  BY NatLessThanWellFounded, WFMin, Zenon
<1>2. \A m \in S : ~(m < n)
  BY <1>1, Zenon DEF OpToRel
<1> QED
  BY <1>2

(* A list without repetition is no longer than the pool has slots.          *)
LEMMA ListBounded ==
  ASSUME NEW q \in Seq(Slots),
         \A i, j \in 1..Len(q) : q[i] = q[j] => i = j
  PROVE  Len(q) <= MAX_TASKS
<1>1. q \in Injection(1..Len(q), Slots)
  BY DEF Injection, IsInjective
<1>2. IsFiniteSet(Slots) /\ Cardinality(Slots) = MAX_TASKS
  BY FS_Interval, StoresAssumption DEF Slots
<1>3. Cardinality(1..Len(q)) = Len(q)
  BY FS_Interval
<1> QED
  BY <1>1, <1>2, <1>3, FS_Injection

(* The walks of at most n steps along nx.                                   *)
Walks(nx, m, f) ==
  f = [n \in 0..m |->
         [t \in Slots \cup {NULL} |->
            IF n = 0 \/ t = NULL THEN <<>> ELSE <<t>> \o f[n - 1][nx[t]]]]

(* The recursion of Chain has a solution.                                   *)
LEMMA WalksExist ==
  ASSUME NEW nx \in [Slots -> Slots \cup {NULL}], NEW m \in Nat
  PROVE  \E f : Walks(nx, m, f)
<1> DEFINE Bad == {k \in Nat : ~ \E f : Walks(nx, k, f)}
<1> SUFFICES ASSUME Bad # {} PROVE FALSE
  OBVIOUS
<1>1. PICK k \in Bad : \A j \in Bad : k <= j
  BY LeastNat, Zenon
<1>2. CASE k = 0
  <2> DEFINE f == [n \in 0..0 |-> [t \in Slots \cup {NULL} |-> <<>>]]
  <2>1. Walks(nx, 0, f)
    BY DEF Walks
  <2> QED
    BY <1>1, <1>2, <2>1
<1>3. CASE k # 0
  <2>1. k - 1 \in Nat /\ k - 1 \notin Bad
    BY <1>1, <1>3
  <2>2. PICK g : Walks(nx, k - 1, g)
    BY <2>1
  <2> DEFINE f == [n \in 0..k |->
                     IF n = k
                     THEN [t \in Slots \cup {NULL} |->
                             IF t = NULL THEN <<>> ELSE <<t>> \o g[k - 1][nx[t]]]
                     ELSE g[n]]
             h == [n \in 0..k |->
                     [t \in Slots \cup {NULL} |->
                        IF n = 0 \/ t = NULL THEN <<>>
                        ELSE <<t>> \o f[n - 1][nx[t]]]]
  <2>3. ASSUME NEW n \in 0..k PROVE f[n] = h[n]
    <3>1. n # 0 => f[n - 1] = g[n - 1]
      BY <1>1, <2>3
    <3>2. CASE n = k
      BY <1>3, <3>1, <3>2
    <3>3. CASE n # k
      <4>1. n \in 0..(k - 1)
        BY <1>1, <3>3
      <4>2. g[n] = [t \in Slots \cup {NULL} |->
                      IF n = 0 \/ t = NULL THEN <<>>
                      ELSE <<t>> \o g[n - 1][nx[t]]]
        BY <2>2, <4>1, Zenon DEF Walks
      <4> QED
        BY <3>1, <3>3, <4>2, Zenon
    <3> QED
      BY <3>2, <3>3
  <2>4. f = h
    BY <2>3, Zenon
  <2>5. Walks(nx, k, f)
    BY <2>4, Zenon DEF Walks
  <2> QED
    BY <1>1, <2>5
<1> QED
  BY <1>2, <1>3

(* Chain walks MAX_TASKS + 1 steps at most.                                 *)
LEMMA ChainWalks ==
  ASSUME NEW nx \in [Slots -> Slots \cup {NULL}]
  PROVE  \E f : /\ Walks(nx, MAX_TASKS + 1, f)
                /\ \A s \in Slots \cup {NULL} :
                     Chain(nx, s) = f[MAX_TASKS + 1][s]
<1> DEFINE f == CHOOSE f : f = [n \in 0..(MAX_TASKS + 1) |->
         [t \in Slots \cup {NULL} |->
            IF n = 0 \/ t = NULL THEN <<>> ELSE <<t>> \o f[n - 1][nx[t]]]]
<1>1. \E g : Walks(nx, MAX_TASKS + 1, g)
  BY WalksExist, StoresAssumption
<1>2. Walks(nx, MAX_TASKS + 1, f)
  BY <1>1, Zenon DEF Walks
<1>3. \A s \in Slots \cup {NULL} : Chain(nx, s) = f[MAX_TASKS + 1][s]
  BY DEF Chain
<1> QED
  BY <1>2, <1>3, Zenon

(* A list is the chain from its first TCB.                                  *)
LEMMA ChainLinked ==
  ASSUME NEW nx \in [Slots -> Slots \cup {NULL}], NEW h, NEW q,
         Linked(nx, h, q)
  PROVE  Chain(nx, h) = q
<1> DEFINE N == Len(q)
           m == MAX_TASKS + 1
           At1(i) == IF i <= N THEN q[i] ELSE NULL
<1>1. /\ q \in Seq(Slots) /\ N \in Nat /\ N <= MAX_TASKS /\ m \in Nat
      /\ \A i \in 1..N : q[i] \in Slots
      /\ \A i \in 1..N : nx[q[i]] = At1(i + 1)
      /\ h = At1(1)
  BY ListBounded, StoresAssumption DEF Linked
<1> HIDE DEF N, m
<1>2. PICK f : /\ Walks(nx, m, f)
               /\ \A s \in Slots \cup {NULL} : Chain(nx, s) = f[m][s]
  BY ChainWalks DEF m
<1>3. ASSUME NEW n \in 0..m, NEW t \in Slots \cup {NULL}
      PROVE  f[n][t] = IF n = 0 \/ t = NULL THEN <<>>
                       ELSE <<t>> \o f[n - 1][nx[t]]
  BY <1>2, ZenonT(60) DEF Walks
<1> DEFINE Suffix(i) == SubSeq(q, i, N)
           Differ(i, n) == f[n][At1(i)] # Suffix(i)
           Bad == {k \in 0..N : \E n \in k..m : Differ((N + 1) - k, n)}
<1> HIDE DEF Differ
<1>4. Bad = {}
  <2> SUFFICES ASSUME Bad # {} PROVE FALSE
    OBVIOUS
  <2>1. PICK k \in Bad : \A j \in Bad : k <= j
    <3>1. Bad \subseteq Nat
      BY <1>1
    <3> HIDE DEF Bad
    <3> QED
      BY <3>1, LeastNat, Zenon
  <2>2. PICK n \in k..m : Differ((N + 1) - k, n)
    BY <2>1
  <2>3. k \in 0..N /\ n \in 0..m
    BY <1>1, <2>1, <2>2
  <2>4. CASE k = 0
    <3>1. At1((N + 1) - k) = NULL
      BY <1>1, <2>4
    <3>2. Suffix((N + 1) - k) = <<>>
      BY <1>1, <2>4 DEF N
    <3> QED
      BY <1>3, <2>2, <2>3, <3>1, <3>2, Zenon DEF Differ
  <2>5. CASE k # 0
    <3> DEFINE i == (N + 1) - k
    <3>1. i \in 1..N /\ i + 1 = (N + 1) - (k - 1) /\ n # 0
      BY <1>1, <2>2, <2>3, <2>5
    <3>2. k - 1 \in 0..N /\ ~(k <= k - 1) /\ n - 1 \in (k - 1)..m
      BY <1>1, <2>2, <2>3, <2>5
    <3>3. ~Differ((N + 1) - (k - 1), n - 1)
      BY <2>1, <3>2
    <3> HIDE DEF i
    <3>4. f[n - 1][At1(i + 1)] = Suffix(i + 1)
      BY <3>1, <3>3, Zenon DEF Differ
    <3>5. At1(i) = q[i] /\ q[i] \in Slots /\ q[i] # NULL /\ nx[q[i]] = At1(i + 1)
      BY <1>1, <3>1 DEF Slots, NULL
    <3> HIDE DEF At1, Suffix
    <3>6. f[n][q[i]] = <<q[i]>> \o f[n - 1][nx[q[i]]]
      BY <1>3, <2>3, <3>1, <3>5, Zenon
    <3>7. <<q[i]>> \o Suffix(i + 1) = Suffix(i)
      BY <1>1, <3>1 DEF N, Suffix
    <3>8. ~Differ(i, n)
      BY <3>4, <3>5, <3>6, <3>7, Zenon DEF Differ
    <3> QED
      BY <2>2, <3>8 DEF i
  <2> QED
    BY <2>4, <2>5
<1>5. N \in 0..N /\ m \in N..m /\ (N + 1) - N = 1
  BY <1>1, StoresAssumption DEF m
<1>6. ~Differ(1, m)
  <2>1. N \notin Bad
    BY <1>4
  <2> QED
    BY <2>1, <1>5
<1>7. Suffix(1) = q
  BY <1>1 DEF N
<1>8. h \in Slots \cup {NULL} /\ h = At1(1)
  BY <1>1
<1> QED
  BY <1>2, <1>6, <1>7, <1>8, Zenon DEF Differ

(* Pointers that are not of the list may change.                            *)
LEMMA LinkedSame ==
  ASSUME NEW nx, NEW ny, NEW h, NEW q, Linked(nx, h, q),
         \A i \in 1..Len(q) : ny[q[i]] = nx[q[i]]
  PROVE  Linked(ny, h, q)
  BY DEF Linked

(* A TCB that is not in the list of its priority is in no list.             *)
LEMMA NotListed ==
  ASSUME WellLinked, NEW s, ~Listed(s), NEW p \in Priorities,
         NEW i \in 1..Len(List(p))
  PROVE  List(p)[i] # s
  BY DEF WellLinked, Listed

(* Lists do not change with the fields they do not depend on.               *)
LEMMA SameLists ==
  ASSUME next' = next, ready_lists' = ready_lists, priority' = priority
  PROVE  /\ WellLinked' <=> WellLinked
         /\ \A p \in Priorities : List(p)' = List(p)
         /\ \A s : Listed(s)' <=> Listed(s)
  BY DEF WellLinked, Listed, List

(* scheduler_add_task and create write next of a TCB that is in no list,    *)
(* create its priority too.                                                 *)
LEMMA AddLists ==
  ASSUME WellLinked, NEW s \in Slots, ~Listed(s),
         next \in [Slots -> Slots \cup {NULL}],
         priority' \in [Slots -> Priorities],
         next' = [next EXCEPT ![s] = NULL], ready_lists' = ready_lists,
         \A t \in Slots \ {s} : priority'[t] = priority[t]
  PROVE  /\ WellLinked' /\ ~Listed(s)'
         /\ \A p \in Priorities : List(p)' = List(p)
         /\ \A t \in Slots \ {s} : Listed(t)' <=> Listed(t)
<1>1. next' \in [Slots -> Slots \cup {NULL}]
  OBVIOUS
<1>2. ASSUME NEW p \in Priorities
      PROVE  /\ Linked(next', ready_lists'[p], List(p))
             /\ \A i \in 1..Len(List(p)) :
                  List(p)[i] \in Slots \ {s} /\ priority[List(p)[i]] = p
  <2>1. Linked(next, ready_lists[p], List(p))
    BY DEF WellLinked
  <2>2. \A i \in 1..Len(List(p)) : List(p)[i] \in Slots \ {s}
    BY <2>1, NotListed DEF Linked
  <2>3. \A i \in 1..Len(List(p)) : next'[List(p)[i]] = next[List(p)[i]]
    BY <2>2
  <2> QED
    BY <2>1, <2>2, <2>3, LinkedSame, Zenon DEF WellLinked
<1>3. \A p \in Priorities : List(p)' = List(p)
  BY <1>1, <1>2, ChainLinked, Zenon DEF List
<1>4. WellLinked'
  <2> SUFFICES ASSUME NEW p \in Priorities
               PROVE  /\ Linked(next', ready_lists'[p], List(p)')
                      /\ \A i \in 1..Len(List(p)') : priority'[List(p)'[i]] = p
    BY Zenon DEF WellLinked
  <2>1. List(p)' = List(p)
    BY <1>3
  <2>2. Linked(next', ready_lists'[p], List(p)')
    BY <1>2, <2>1, ZenonT(60)
  <2>3. ASSUME NEW i \in 1..Len(List(p)) PROVE priority'[List(p)[i]] = p
    BY <1>2
  <2> QED
    BY <2>1, <2>2, <2>3
<1>5. ~Listed(s)'
  BY <1>2, <1>3 DEF Listed
<1>6. ASSUME NEW t \in Slots \ {s} PROVE Listed(t)' <=> Listed(t)
  BY <1>3 DEF Listed
<1> QED
  BY <1>3, <1>4, <1>5, <1>6

(* The list ends with s once its last TCB points to it.                     *)
LEMMA AppendLinked ==
  ASSUME NEW nx \in [Slots -> Slots \cup {NULL}], NEW h, NEW q,
         Linked(nx, h, q), NEW s \in Slots, nx[s] = NULL,
         \A i \in 1..Len(q) : q[i] # s,
         NEW ny, NEW g,
         IF Len(q) = 0 THEN g = s /\ ny = nx
         ELSE g = h /\ ny = [nx EXCEPT ![q[Len(q)]] = s]
  PROVE  Linked(ny, g, Append(q, s))
<1> DEFINE r == Append(q, s)
<1>1. /\ q \in Seq(Slots) /\ Len(q) \in Nat
      /\ \A i \in 1..Len(q) : q[i] \in Slots
      /\ \A i, j \in 1..Len(q) : q[i] = q[j] => i = j
  BY DEF Linked
<1>2. /\ r \in Seq(Slots) /\ Len(r) = Len(q) + 1 /\ r[Len(q) + 1] = s
      /\ \A i \in 1..Len(q) : r[i] = q[i]
  BY <1>1
<1> HIDE DEF r
<1>3. \A i, j \in 1..Len(r) : r[i] = r[j] => i = j
  BY <1>1, <1>2
<1>4. g = r[1]
  BY <1>1, <1>2 DEF Linked
<1>5. ASSUME NEW i \in 1..Len(r)
      PROVE  ny[r[i]] = IF i = Len(r) THEN NULL ELSE r[i + 1]
  <2>1. CASE i = Len(r)
    <3>1. r[i] = s
      BY <1>2, <2>1
    <3> QED
      BY <1>1, <2>1, <3>1
  <2>2. CASE i = Len(q) /\ Len(q) # 0
    BY <1>1, <1>2, <2>2
  <2>3. CASE i < Len(q)
    <3>1. /\ i \in 1..Len(q) /\ r[i] = q[i] /\ r[i + 1] = q[i + 1]
          /\ q[i] # q[Len(q)] /\ i # Len(r)
      BY <1>1, <1>2, <2>3
    <3>2. nx[q[i]] = q[i + 1]
      BY <2>3, <3>1, <1>1 DEF Linked
    <3> QED
      BY <1>1, <2>3, <3>1, <3>2
  <2> QED
    BY <1>1, <1>2, <2>1, <2>2, <2>3
<1> QED
  BY <1>2, <1>3, <1>4, <1>5 DEF Linked, r

(* What the second store of scheduler_add_task does to the lists.           *)
Links(s, t) ==
  IF t = NULL
  THEN ready_lists' = [ready_lists EXCEPT ![priority[s]] = s] /\ next' = next
  ELSE next' = [next EXCEPT ![t] = s] /\ ready_lists' = ready_lists

(* It appends s to its list, and leaves the head of a list that has one.    *)
LEMMA LinkLists ==
  ASSUME WellLinked, NEW s \in Slots, ~Listed(s), next[s] = NULL,
         next \in [Slots -> Slots \cup {NULL}],
         ready_lists \in [Priorities -> Slots \cup {NULL}],
         priority \in [Slots -> Priorities], priority' = priority,
         Links(s, Last(List(priority[s])))
  PROVE  /\ next' \in [Slots -> Slots \cup {NULL}]
         /\ ready_lists' \in [Priorities -> Slots \cup {NULL}]
         /\ WellLinked' /\ Listed(s)'
         /\ \A t \in Slots \ {s} : Listed(t)' <=> Listed(t)
         /\ \A p \in Priorities :
              ready_lists[p] # NULL => ready_lists'[p] = ready_lists[p]
<1>0. PICK p0 \in Priorities : p0 = priority[s]
  OBVIOUS
<1>q. PICK q : q = List(p0)
  OBVIOUS
<1> DEFINE t == Last(q)
<1>1. /\ p0 \in Priorities /\ Linked(next, ready_lists[p0], q)
      /\ q \in Seq(Slots) /\ Len(q) \in Nat
      /\ \A i \in 1..Len(q) : q[i] \in Slots /\ q[i] # s /\ priority[q[i]] = p0
  BY <1>0, <1>q, NotListed DEF WellLinked, Linked
<1>2. /\ t = NULL <=> Len(q) = 0
      /\ t # NULL => t \in Slots /\ priority[t] = p0 /\ t = q[Len(q)]
  BY <1>1 DEF Last, Slots, NULL
<1>3. /\ next' \in [Slots -> Slots \cup {NULL}]
      /\ ready_lists' \in [Priorities -> Slots \cup {NULL}]
  BY <1>0, <1>q, <1>1, <1>2 DEF Links
<1>4. /\ IF Len(q) = 0 THEN ready_lists'[p0] = s /\ next' = next
         ELSE /\ ready_lists'[p0] = ready_lists[p0]
              /\ next' = [next EXCEPT ![q[Len(q)]] = s]
      /\ \A p \in Priorities \ {p0} : ready_lists'[p] = ready_lists[p]
  BY <1>0, <1>q, <1>1, <1>2 DEF Links
<1> HIDE DEF t
<1>5. Linked(next', ready_lists'[p0], Append(q, s))
  BY <1>1, <1>4, AppendLinked
<1>6. List(p0)' = Append(q, s)
  BY <1>3, <1>5, ChainLinked, Zenon DEF List
<1>7. ASSUME NEW p \in Priorities \ {p0}
      PROVE  Linked(next', ready_lists'[p], List(p)) /\ List(p)' = List(p)
  <2>1. Linked(next, ready_lists[p], List(p))
    BY DEF WellLinked
  <2>2. \A i \in 1..Len(List(p)) :
          List(p)[i] \in Slots /\ priority[List(p)[i]] = p
    BY <2>1 DEF WellLinked, Linked
  <2>3. \A i \in 1..Len(List(p)) : next'[List(p)[i]] = next[List(p)[i]]
    BY <1>1, <1>2, <1>4, <2>2
  <2>4. Linked(next', ready_lists'[p], List(p))
    BY <1>4, <2>1, <2>3, LinkedSame
  <2>5. Chain(next', ready_lists'[p]) = List(p)
    BY <1>3, <2>4, ChainLinked
  <2> QED
    BY <2>4, <2>5 DEF List
<1>8. /\ Len(Append(q, s)) = Len(q) + 1 /\ Append(q, s)[Len(q) + 1] = s
      /\ \A i \in 1..Len(q) : Append(q, s)[i] = q[i]
  BY <1>1
<1>9. WellLinked'
  <2> SUFFICES ASSUME NEW p \in Priorities
               PROVE  /\ Linked(next', ready_lists'[p], List(p)')
                      /\ \A i \in 1..Len(List(p)') : priority'[List(p)'[i]] = p
    BY DEF WellLinked
  <2>1. CASE p = p0
    <3>1. \A i \in 1..Len(Append(q, s)) : priority[Append(q, s)[i]] = p0
      BY <1>0, <1>1, <1>8
    <3> QED
      BY <1>5, <1>6, <2>1, <3>1, Zenon
  <2>2. CASE p # p0
    BY <1>7, <2>2 DEF WellLinked
  <2> QED
    BY <2>1, <2>2
<1>10. Listed(s)'
  BY <1>0, <1>1, <1>6, <1>8 DEF Listed
<1>11. ASSUME NEW u \in Slots \ {s} PROVE Listed(u)' <=> Listed(u)
  <2>1. CASE priority[u] = p0
    <3>1. Listed(u) <=> \E i \in 1..Len(q) : q[i] = u
      BY <1>q, <2>1 DEF Listed
    <3>2. Listed(u)' <=> \E i \in 1..Len(Append(q, s)) : Append(q, s)[i] = u
      BY <1>6, <2>1, Zenon DEF Listed
    <3> QED
      BY <1>1, <1>8, <3>1, <3>2
  <2>2. CASE priority[u] # p0
    <3>1. List(priority[u])' = List(priority[u])
      BY <1>7, <2>2
    <3> QED
      BY <3>1 DEF Listed
  <2> QED
    BY <2>1, <2>2
<1>12. ASSUME NEW p \in Priorities, ready_lists[p] # NULL
       PROVE  ready_lists'[p] = ready_lists[p]
  <2>1. p = p0 => Len(q) # 0
    BY <1>1, <1>12 DEF Linked
  <2> QED
    BY <1>4, <2>1
<1> QED
  BY <1>3, <1>9, <1>10, <1>11, <1>12

(* The list without its k-th TCB.                                           *)
Drop(q, k) ==
  [i \in 1..(Len(q) - 1) |-> IF i < k THEN q[i] ELSE q[i + 1]]

(* It is linked once the TCB before the k-th points behind it.              *)
LEMMA DropLinked ==
  ASSUME NEW nx \in [Slots -> Slots \cup {NULL}], NEW h, NEW q,
         Linked(nx, h, q), NEW k \in 1..Len(q), NEW ny, NEW g,
         \A i \in 1..Len(q) :
           i # k => ny[q[i]] = IF i = k - 1 THEN nx[q[k]] ELSE nx[q[i]],
         g = IF k = 1 THEN nx[q[k]] ELSE h
  PROVE  Linked(ny, g, Drop(q, k))
<1> DEFINE r == Drop(q, k)
<1>1. /\ q \in Seq(Slots) /\ Len(q) \in Nat /\ k \in Nat /\ k >= 1 /\ k <= Len(q)
      /\ \A i \in 1..Len(q) : q[i] \in Slots
      /\ \A i, j \in 1..Len(q) : q[i] = q[j] => i = j
      /\ \A i \in 1..Len(q) : nx[q[i]] = IF i = Len(q) THEN NULL ELSE q[i + 1]
      /\ h = q[1]
  BY DEF Linked
<1>2. \A i \in 1..(Len(q) - 1) : r[i] = IF i < k THEN q[i] ELSE q[i + 1]
  BY DEF Drop
<1>3. r \in Seq(Slots) /\ Len(r) = Len(q) - 1
  BY <1>1 DEF Drop
<1> HIDE DEF r
<1>4. ASSUME NEW i \in 1..Len(r), NEW j \in 1..Len(r), r[i] = r[j]
      PROVE  i = j
  <2> DEFINE f(n) == IF n < k THEN n ELSE n + 1
  <2>1. /\ f(i) \in 1..Len(q) /\ f(j) \in 1..Len(q)
        /\ r[i] = q[f(i)] /\ r[j] = q[f(j)]
    BY <1>1, <1>2, <1>3
  <2>2. f(i) = f(j)
    BY <1>1, <1>4, <2>1, ZenonT(60)
  <2> QED
    BY <1>1, <2>2
<1>5. g = IF Len(r) = 0 THEN NULL ELSE r[1]
  BY <1>1, <1>2, <1>3
<1>6. ASSUME NEW i \in 1..Len(r)
      PROVE  ny[r[i]] = IF i = Len(r) THEN NULL ELSE r[i + 1]
  <2>1. CASE i < k - 1
    <3>1. r[i] = q[i] /\ r[i + 1] = q[i + 1] /\ i \in 1..Len(q)
          /\ i # k /\ i # k - 1 /\ i # Len(q) /\ i # Len(r)
      BY <1>1, <1>2, <1>3, <2>1
    <3> QED
      BY <1>1, <3>1, Zenon
  <2>2. CASE i = k - 1
    <3>1. r[i] = q[i] /\ i \in 1..Len(q) /\ i # k
      BY <1>1, <1>2, <1>3, <2>2
    <3>2. ny[r[i]] = IF k = Len(q) THEN NULL ELSE q[k + 1]
      BY <1>1, <2>2, <3>1
    <3>3. k = Len(q) <=> i = Len(r)
      BY <1>1, <1>3, <2>2
    <3>4. i # Len(r) => r[i + 1] = q[k + 1]
      BY <1>1, <1>2, <1>3, <2>2
    <3> QED
      BY <3>2, <3>3, <3>4
  <2>3. CASE i >= k
    <3>1. r[i] = q[i + 1] /\ i + 1 \in 1..Len(q) /\ i + 1 # k /\ i + 1 # k - 1
      BY <1>1, <1>2, <1>3, <2>3
    <3>2. ny[r[i]] = IF i + 1 = Len(q) THEN NULL ELSE q[(i + 1) + 1]
      BY <1>1, <3>1
    <3>3. i # Len(r) => r[i + 1] = q[(i + 1) + 1]
      BY <1>1, <1>2, <1>3, <2>3
    <3> QED
      BY <1>3, <3>2, <3>3
  <2> QED
    BY <1>1, <1>3, <2>1, <2>2, <2>3
<1> QED
  BY <1>3, <1>4, <1>5, <1>6 DEF Linked, r

(* What the stores of scheduler_remove_task do to the lists.                *)
Unlinks(s, prev, succ) ==
  /\ next' = [t \in Slots |-> IF t = s THEN NULL
                              ELSE IF t = prev THEN succ ELSE next[t]]
  /\ ready_lists' = IF prev = NULL
                    THEN [ready_lists EXCEPT ![priority[s]] = succ]
                    ELSE ready_lists

(* They take s out of its list; a head other than s stays.                  *)
LEMMA UnlinkLists ==
  ASSUME WellLinked, NEW s \in Slots, NEW prev, Before(s, prev),
         next \in [Slots -> Slots \cup {NULL}],
         ready_lists \in [Priorities -> Slots \cup {NULL}],
         priority \in [Slots -> Priorities], priority' = priority,
         Unlinks(s, prev, next[s])
  PROVE  /\ next' \in [Slots -> Slots \cup {NULL}]
         /\ ready_lists' \in [Priorities -> Slots \cup {NULL}]
         /\ WellLinked' /\ ~Listed(s)'
         /\ \A t \in Slots \ {s} : Listed(t)' <=> Listed(t)
         /\ \A p \in Priorities :
              ready_lists[p] # s => ready_lists'[p] = ready_lists[p]
<1>0. PICK p0 \in Priorities : p0 = priority[s]
  OBVIOUS
<1>q. PICK q : q = List(p0)
  OBVIOUS
<1>k. PICK k \in 1..Len(q) :
        /\ q[k] = s
        /\ prev = IF k = 1 THEN NULL ELSE q[k - 1]
  BY <1>0, <1>q DEF Before
<1>1. /\ Linked(next, ready_lists[p0], q)
      /\ q \in Seq(Slots) /\ Len(q) \in Nat /\ Len(q) # 0
      /\ \A i \in 1..Len(q) : q[i] \in Slots /\ priority[q[i]] = p0
      /\ \A i, j \in 1..Len(q) : q[i] = q[j] => i = j
      /\ ready_lists[p0] = q[1]
  BY <1>0, <1>q, <1>k DEF WellLinked, Linked
<1>2. /\ prev = NULL <=> k = 1
      /\ k # 1 => k - 1 \in 1..Len(q) /\ prev = q[k - 1] /\ prev \in Slots
  <2>1. k # 1 => k - 1 \in 1..Len(q)
    BY <1>1, <1>k
  <2>2. k # 1 => q[k - 1] \in Slots /\ q[k - 1] # NULL
    BY <1>1, <2>1 DEF Slots, NULL
  <2> QED
    BY <1>k, <2>1, <2>2
<1>3. /\ next' \in [Slots -> Slots \cup {NULL}]
      /\ ready_lists' \in [Priorities -> Slots \cup {NULL}]
  BY <1>0 DEF Unlinks
<1>4. /\ \A i \in 1..Len(q) : i # k =>
           next'[q[i]] = IF i = k - 1 THEN next[q[k]] ELSE next[q[i]]
      /\ ready_lists'[p0] = IF k = 1 THEN next[q[k]] ELSE ready_lists[p0]
      /\ \A p \in Priorities \ {p0} : ready_lists'[p] = ready_lists[p]
  <2>1. ASSUME NEW i \in 1..Len(q), i # k
        PROVE  next'[q[i]] = IF i = k - 1 THEN next[q[k]] ELSE next[q[i]]
    <3>1. q[i] \in Slots /\ q[i] # s
      BY <1>1, <1>k, <2>1
    <3>2. q[i] = prev <=> i = k - 1
      BY <1>1, <1>2, <3>1, <1>k DEF Slots, NULL
    <3> QED
      BY <1>k, <3>1, <3>2 DEF Unlinks
  <2>2. ready_lists'[p0] = IF k = 1 THEN next[q[k]] ELSE ready_lists[p0]
    BY <1>0, <1>2, <1>k DEF Unlinks
  <2>3. \A p \in Priorities \ {p0} : ready_lists'[p] = ready_lists[p]
    BY <1>0 DEF Unlinks
  <2> QED
    BY <2>1, <2>2, <2>3
<1>5. Linked(next', ready_lists'[p0], Drop(q, k))
  BY <1>1, <1>4, DropLinked, Zenon
<1>6. List(p0)' = Drop(q, k)
  BY <1>3, <1>5, ChainLinked DEF List
<1>7. ASSUME NEW p \in Priorities \ {p0}
      PROVE  Linked(next', ready_lists'[p], List(p)) /\ List(p)' = List(p)
  <2>1. Linked(next, ready_lists[p], List(p))
    BY DEF WellLinked
  <2>2. \A i \in 1..Len(List(p)) :
          List(p)[i] \in Slots /\ priority[List(p)[i]] = p
    BY <2>1 DEF WellLinked, Linked
  <2>3. priority[s] = p0 /\ (prev \in Slots => priority[prev] = p0)
    BY <1>0, <1>1, <1>2 DEF Slots, NULL
  <2>4. \A i \in 1..Len(List(p)) : next'[List(p)[i]] = next[List(p)[i]]
    BY <2>2, <2>3 DEF Unlinks
  <2>5. Linked(next', ready_lists'[p], List(p))
    BY <1>4, <2>1, <2>4, LinkedSame
  <2>6. Chain(next', ready_lists'[p]) = List(p)
    BY <1>3, <2>5, ChainLinked
  <2> QED
    BY <2>5, <2>6 DEF List
<1> DEFINE r == Drop(q, k)
<1>8. /\ Len(r) = Len(q) - 1
      /\ \A i \in 1..Len(r) : r[i] = IF i < k THEN q[i] ELSE q[i + 1]
  BY <1>1, <1>5 DEF Drop, Linked
<1> HIDE DEF r
<1>9. \A i \in 1..Len(r) : r[i] # s /\ priority[r[i]] = p0
  <2> SUFFICES ASSUME NEW i \in 1..Len(r) PROVE r[i] # s /\ priority[r[i]] = p0
    OBVIOUS
  <2>1. CASE i < k
    BY <1>1, <1>8, <1>k, <2>1
  <2>2. CASE ~(i < k)
    <3>1. i + 1 \in 1..Len(q) /\ i + 1 # k /\ r[i] = q[i + 1]
      BY <1>1, <1>8, <1>k, <2>2
    <3> QED
      BY <1>1, <1>k, <3>1
  <2> QED
    BY <2>1, <2>2
<1>10. WellLinked'
  <2> SUFFICES ASSUME NEW p \in Priorities
               PROVE  /\ Linked(next', ready_lists'[p], List(p)')
                      /\ \A i \in 1..Len(List(p)') : priority'[List(p)'[i]] = p
    BY DEF WellLinked
  <2>1. CASE p = p0
    BY <1>5, <1>6, <1>9, <2>1 DEF r
  <2>2. CASE p # p0
    BY <1>7, <2>2 DEF WellLinked
  <2> QED
    BY <2>1, <2>2
<1>11. ~Listed(s)'
  BY <1>0, <1>6, <1>9 DEF Listed, r
<1>12. ASSUME NEW u \in Slots \ {s} PROVE Listed(u)' <=> Listed(u)
  <2>1. CASE priority[u] = p0
    <3>1. Listed(u) <=> \E i \in 1..Len(q) : q[i] = u
      BY <1>q, <2>1 DEF Listed
    <3>2. Listed(u)' <=> \E i \in 1..Len(r) : r[i] = u
      BY <1>6, <2>1 DEF Listed, r
    <3>3. ASSUME NEW i \in 1..Len(r), r[i] = u PROVE Listed(u)
      <4>1. (IF i < k THEN i ELSE i + 1) \in 1..Len(q)
        BY <1>1, <1>8
      <4> QED
        BY <1>8, <3>1, <3>3, <4>1
    <3>4. ASSUME NEW i \in 1..Len(q), q[i] = u PROVE Listed(u)'
      <4>1. CASE i < k
        <5>1. i \in 1..Len(r) /\ r[i] = u
          BY <1>1, <1>8, <1>k, <3>4, <4>1
        <5> QED
          BY <3>2, <5>1
      <4>2. CASE i > k
        <5>1. i - 1 \in 1..Len(r) /\ ~(i - 1 < k) /\ (i - 1) + 1 = i
          BY <1>1, <1>8, <1>k, <4>2
        <5>2. r[i - 1] = u
          BY <1>8, <3>4, <5>1
        <5> QED
          BY <3>2, <5>1, <5>2
      <4> QED
        BY <1>1, <1>k, <3>4, <4>1, <4>2
    <3> QED
      BY <3>1, <3>2, <3>3, <3>4
  <2>2. CASE priority[u] # p0
    <3>1. List(priority[u])' = List(priority[u])
      BY <1>7, <2>2
    <3> QED
      BY <3>1 DEF Listed
  <2> QED
    BY <2>1, <2>2
<1>13. ASSUME NEW p \in Priorities, ready_lists[p] # s
       PROVE  ready_lists'[p] = ready_lists[p]
  <2>1. p = p0 => k # 1
    BY <1>1, <1>13, <1>k
  <2> QED
    BY <1>4, <2>1
<1> QED
  BY <1>3, <1>10, <1>11, <1>12, <1>13

(* get_highest_priority_task returns a READY head, of a priority that no    *)
(* linked task exceeds, and NULL only if nothing is linked.                 *)
LEMMA HighestLinked ==
  ASSUME WellLinked, priority \in [Slots -> Priorities]
  PROVE  /\ get_highest_priority_task = NULL => \A t \in Slots : ~Listed(t)
         /\ get_highest_priority_task # NULL =>
              /\ get_highest_priority_task \in Slots
              /\ Listed(get_highest_priority_task)
              /\ ready_lists[priority[get_highest_priority_task]]
                   = get_highest_priority_task
              /\ \A t \in Slots : Listed(t) =>
                   priority[get_highest_priority_task] <= priority[t]
<1> DEFINE full == {p \in Priorities : ready_lists[p] # NULL}
           h == CHOOSE p \in full : \A q \in full : p <= q
<1>1. ASSUME NEW t \in Slots, Listed(t) PROVE priority[t] \in full
  <2>1. PICK p \in Priorities : p = priority[t]
    OBVIOUS
  <2>2. Len(List(p)) \in Nat /\ Len(List(p)) # 0
    BY <1>1, <2>1 DEF Listed, WellLinked, Linked
  <2>3. ready_lists[p] = List(p)[1] /\ List(p)[1] \in Slots
    BY <2>2 DEF WellLinked, Linked
  <2> QED
    BY <2>1, <2>3 DEF Slots, NULL
<1>2. CASE full = {}
  BY <1>1, <1>2 DEF get_highest_priority_task
<1>3. CASE full # {}
  <2>1. full \subseteq Nat
    BY StoresAssumption DEF Priorities
  <2>2. \E p \in full : \A q \in full : p <= q
    <3> HIDE DEF full
    <3> QED
      BY <1>3, <2>1, LeastNat, Zenon
  <2>3. h \in full /\ \A q \in full : h <= q
    <3> HIDE DEF full
    <3> QED
      BY <2>2
  <2>4. get_highest_priority_task = ready_lists[h]
    BY <1>3 DEF get_highest_priority_task
  <2> HIDE DEF h
  <2>5. /\ h \in Priorities /\ Len(List(h)) # 0 /\ Len(List(h)) \in Nat
        /\ ready_lists[h] = List(h)[1] /\ List(h)[1] \in Slots
        /\ priority[List(h)[1]] = h
    BY <2>3 DEF WellLinked, Linked
  <2>6. Listed(ready_lists[h])
    BY <2>5 DEF Listed
  <2> QED
    BY <1>1, <2>3, <2>4, <2>5, <2>6 DEF Slots, NULL
<1> QED
  BY <1>2, <1>3


-----------------------------------------------------------------------------
(* Code.                                                                    *)

LEMMA StepKinds ==
  /\ <<"requeue">> \in Steps /\ <<"schedule">> \in Steps
  /\ <<"yield">> \in Steps /\ <<"tick">> \in Steps
  /\ <<"start">> \in Steps /\ <<"block">> \in Steps
  /\ \A p \in Priorities : <<"create", p>> \in Steps
  /\ \A id \in 1..MaxTaskId : /\ <<"stop", id, "DELETED">> \in Steps
                              /\ <<"stop", id, "SUSPENDED">> \in Steps
                              /\ <<"resume", id>> \in Steps
  /\ \A s \in Slots : /\ <<"add", s>> \in Steps /\ <<"remove", s>> \in Steps
                      /\ <<"switch", s>> \in Steps
                      /\ <<"set_current", s>> \in Steps
                      /\ <<"resched", s>> \in Steps
  /\ \A s \in Slots, st \in K!TaskStates : <<"mark", s, st>> \in Steps
  /\ \A s \in Slots, t \in Slots \cup {NULL} : <<"link", s, t>> \in Steps
  /\ \A s \in Slots, t, u \in Slots \cup {NULL} :
       <<"unlink", s, t, u>> \in Steps
  BY DEF Steps

(* Taking a step leaves the rest.                                           *)
LEMMA ThenFacts ==
  ASSUME NEW a \in Steps, NEW r \in Code
  PROVE  /\ Then(a, r) \in Code /\ Then(a, r) # <<>>
         /\ Then(a, r)[1] = a /\ Tail(Then(a, r)) = r
  BY DEF Code, Then

(* Code written out: no step and one.                                       *)
LEMMA CodeOne ==
  /\ <<>> \in Code
  /\ \A a \in Steps : <<a>> \in Code /\ <<a>> = Then(a, <<>>)
<1>1. <<>> \in Code
  BY DEF Code
<1>2. ASSUME NEW a \in Steps PROVE <<a>> \in Code /\ <<a>> = Then(a, <<>>)
  BY DEF Code, Then
<1> QED
  BY <1>1, <1>2

(* Two steps.                                                               *)
LEMMA CodeTwo ==
  ASSUME NEW a \in Steps, NEW b \in Steps
  PROVE  <<a, b>> \in Code /\ <<a, b>> = Then(a, <<b>>)
<1>1. PICK q, r : q = <<a>> \o <<b>> /\ r = <<a, b>>
  BY Zenon
<1>2. q \in Seq(Steps) /\ Len(q) = 2 /\ q[1] = a /\ q[2] = b
  BY <1>1
<1>3. r \in Seq(Steps) /\ Len(r) = 2 /\ r[1] = a /\ r[2] = b
  BY <1>1
<1>4. \A i \in 1..2 : q[i] = r[i]
  BY <1>2, <1>3
<1>5. q = r
  BY <1>2, <1>3, <1>4, SeqEqual
<1> QED
  BY <1>1, <1>3, <1>5, Zenon DEF Then, Code

(* Three steps.                                                             *)
LEMMA CodeThree ==
  ASSUME NEW a \in Steps, NEW b \in Steps, NEW c \in Steps
  PROVE  <<a, b, c>> \in Code /\ <<a, b, c>> = Then(a, <<b, c>>)
<1>1. <<a, b, c>> = <<a>> \o <<b, c>>
  OBVIOUS
<1>2. <<b, c>> \in Code
  BY CodeTwo, Zenon
<1>3. Then(a, <<b, c>>) \in Code
  BY <1>2, ThenFacts, Zenon
<1> QED
  BY <1>1, <1>3, Zenon DEF Then

(* No step, or one, put before code.                                        *)
LEMMA Prepended ==
  ASSUME NEW r \in Code
  PROVE  /\ <<>> \o r = r
         /\ \A a \in Steps : <<a>> \o r = Then(a, r)
<1>1. <<>> \o r = r
  BY DEF Code
<1>2. \A a \in Steps : <<a>> \o r = Then(a, r)
  BY DEF Then
<1> QED
  BY <1>1, <1>2

(* Code put before code.                                                    *)
LEMMA PrependedCode ==
  ASSUME NEW a \in Steps, NEW m \in Code, NEW r \in Code
  PROVE  Then(a, m) \o r = Then(a, m \o r)
  BY DEF Code, Then

(* Two steps put before code.                                               *)
LEMMA PrependedTwo ==
  ASSUME NEW a \in Steps, NEW b \in Steps, NEW r \in Code
  PROVE  <<a, b>> \o r = Then(a, Then(b, r))
<1>1. <<a, b>> = Then(a, <<b>>)
  BY CodeTwo, Zenon
<1>2. <<b>> \in Code /\ <<b>> \o r = Then(b, r)
  BY CodeOne, Prepended
<1>3. Then(a, <<b>>) \o r = Then(a, <<b>> \o r)
  BY <1>2, PrependedCode, Zenon
<1> QED
  BY <1>1, <1>2, <1>3, Zenon

(* Proceed, for code that starts with the step taken.                       *)
LEMMA StepTaken ==
  ASSUME NEW a \in Steps, NEW r \in Code, code = Then(a, r),
         NEW more, Proceed(more)
  PROVE  code' = more \o r
<1>1. Tail(code) = r
  BY ThenFacts
<1> QED
  BY <1>1, Zenon DEF Proceed

(* The ends of calls, as code.                                              *)
LEMMA EndCodes ==
  /\ <<>> \in Code
  /\ Yield \in Code /\ Yield = Then(<<"yield">>, <<>>)
  /\ Schedule \in Code /\ Schedule = Then(<<"schedule">>, <<>>)
  /\ \A s \in Slots : Resched(s) \in Code /\ Resched(s) = Then(<<"resched", s>>, <<>>)
  /\ \A n \in Slots :
       /\ SetCurrent(n) \in Code
       /\ SetCurrent(n) = Then(<<"set_current", n>>, <<>>)
       /\ Switch(n) \in Code /\ Run(n) \in Code
  /\ Then(<<"requeue">>, Schedule) \in Code
  /\ Then(<<"block">>, Yield) \in Code
<1>1. <<>> \in Code
  BY CodeOne
<1>2. Yield \in Code /\ Yield = Then(<<"yield">>, <<>>)
  BY StepKinds, CodeOne, Zenon DEF Yield
<1>3. Schedule \in Code /\ Schedule = Then(<<"schedule">>, <<>>)
  BY StepKinds, CodeOne, Zenon DEF Schedule
<1>4. ASSUME NEW s \in Slots
      PROVE  Resched(s) \in Code /\ Resched(s) = Then(<<"resched", s>>, <<>>)
  BY StepKinds, CodeOne, Zenon DEF Resched
<1>5. ASSUME NEW n \in Slots
      PROVE  /\ SetCurrent(n) \in Code
             /\ SetCurrent(n) = Then(<<"set_current", n>>, <<>>)
             /\ Switch(n) \in Code /\ Run(n) \in Code
  <2>1. /\ SetCurrent(n) \in Code
        /\ SetCurrent(n) = Then(<<"set_current", n>>, <<>>)
    BY StepKinds, CodeOne, Zenon DEF SetCurrent
  <2>2. Switch(n) \in Code
    BY <2>1, StepKinds, ThenFacts, Zenon DEF Switch
  <2>3. <<"mark", n, "RUNNING">> \in Steps
    BY StepKinds, Zenon DEF K!TaskStates
  <2> QED
    BY <2>1, <2>2, <2>3, ThenFacts, Zenon DEF Run
<1>6. Then(<<"requeue">>, Schedule) \in Code /\ Then(<<"block">>, Yield) \in Code
  BY <1>2, <1>3, StepKinds, ThenFacts, Zenon
<1> QED
  BY <1>1, <1>2, <1>3, <1>4, <1>5, <1>6

(* The operation of the next step.                                          *)
Named(w, op) == w # <<>> /\ w[1][1] = op

(* Code that starts with a step has its name and operands.                  *)
LEMMA ThenNamed ==
  ASSUME NEW a \in Steps, NEW r \in Code
  PROVE  /\ Named(Then(a, r), a[1])
         /\ Then(a, r)[1] = a
  BY ThenFacts DEF Named

(* The last TCB of a list is a TCB or NULL.                                 *)
LEMMA LastType ==
  ASSUME WellLinked, DataTypeOK, NEW s \in Slots
  PROVE  /\ Last(List(priority[s])) \in Slots \cup {NULL}
         /\ next[s] \in Slots \cup {NULL}
  BY DEF WellLinked, DataTypeOK, Last, Linked

(* Each point is named for the step to be done.                             *)
LEMMA PointNames ==
  ASSUME DataTypeOK, NEW w
  PROVE  /\ OnRest(w) => w = <<>>
         /\ OnCreate(w) => Named(w, "create")
         /\ OnStop(w) => Named(w, "stop")
         /\ OnResume(w) => Named(w, "resume")
         /\ OnBlock(w) => Named(w, "block")
         /\ OnStart(w) => Named(w, "start")
         /\ OnTick(w) => Named(w, "tick")
         /\ OnYield(w) => Named(w, "yield")
         /\ OnResched(w) => Named(w, "resched")
         /\ OnRequeue(w) => Named(w, "requeue")
         /\ OnSchedule(w) => Named(w, "schedule")
         /\ OnSet(w) => Named(w, "set_current")
         /\ OnSwitch(w) => Named(w, "switch")
         /\ OnMark(w) => Named(w, "mark")
         /\ OnRemove(w) => Named(w, "remove")
         /\ OnUnlink(w) => Named(w, "unlink")
         /\ OnAdd(w) => Named(w, "add")
         /\ OnLink(w) => Named(w, "link")
<1>1. /\ OnRest(w) => w = <<>>
      /\ OnCreate(w) => Named(w, "create")
      /\ OnStop(w) => Named(w, "stop")
      /\ OnResume(w) => Named(w, "resume")
  BY DEF OnRest, OnCreate, OnStop, OnResume, Named, task_create, task_resume
<1>2. /\ OnStart(w) => Named(w, "start")
      /\ OnTick(w) => Named(w, "tick")
      /\ OnYield(w) => Named(w, "yield")
      /\ OnResched(w) => Named(w, "resched")
      /\ OnSchedule(w) => Named(w, "schedule")
      /\ OnSet(w) => Named(w, "set_current")
  BY DEF OnStart, OnTick, OnYield, OnResched, OnSchedule, OnSet, Named, Yield,
         Resched, Schedule, SetCurrent
<1>3. OnBlock(w) => Named(w, "block")
  BY StepKinds, EndCodes, ThenNamed, Zenon DEF OnBlock
<1>4. OnRequeue(w) => Named(w, "requeue")
  BY StepKinds, EndCodes, ThenNamed, Zenon DEF OnRequeue
<1>5. OnSwitch(w) => Named(w, "switch")
  <2>1. ASSUME NEW n \in Slots PROVE Named(Switch(n), "switch")
    <3>1. SetCurrent(n) \in Code /\ <<"switch", n>> \in Steps
      BY EndCodes, StepKinds, Zenon
    <3> QED
      BY <3>1, ThenNamed DEF Switch
  <2> QED
    BY <2>1 DEF OnSwitch
<1>10. OnMark(w) => Named(w, "mark")
  <2>1. ASSUME NEW s \in Slots, NEW st \in K!TaskStates, NEW r \in Code
        PROVE  Named(Then(<<"mark", s, st>>, r), "mark")
    BY StepKinds, ThenNamed, Zenon
  <2>2. /\ "DELETED" \in K!TaskStates /\ "SUSPENDED" \in K!TaskStates
        /\ "BLOCKED" \in K!TaskStates /\ "READY" \in K!TaskStates
        /\ "RUNNING" \in K!TaskStates
    BY DEF K!TaskStates
  <2>3. \A s \in Slots :
          /\ Then(<<"remove", s>>, Resched(s)) \in Code
          /\ Then(<<"remove", s>>, Yield) \in Code
          /\ Then(<<"add", s>>, <<>>) \in Code
          /\ Then(<<"add", s>>, Schedule) \in Code
    BY StepKinds, EndCodes, ThenFacts, Zenon
  <2>5. \A s \in Slots, st \in K!TaskStates, r \in Code :
          Named(Then(<<"mark", s, st>>, r), "mark")
    BY <2>1, Zenon
  <2>6. ASSUME NEW s \in Slots
        PROVE  /\ Named(Then(<<"mark", s, "DELETED">>, Resched(s)), "mark")
               /\ Named(Then(<<"mark", s, "SUSPENDED">>,
                             Then(<<"remove", s>>, Resched(s))), "mark")
               /\ Named(Then(<<"mark", s, "BLOCKED">>,
                             Then(<<"remove", s>>, Yield)), "mark")
               /\ Named(Then(<<"mark", s, "READY">>,
                             Then(<<"add", s>>, <<>>)), "mark")
               /\ Named(Then(<<"mark", s, "READY">>,
                             Then(<<"add", s>>, Schedule)), "mark")
               /\ Named(Run(s), "mark")
    BY <2>2, <2>3, <2>5, EndCodes, Zenon DEF Run
  <2> QED
    BY <2>6, Zenon DEF OnMark
<1>11. OnRemove(w) => Named(w, "remove")
  BY StepKinds, ThenNamed, Zenon DEF OnRemove
<1>12. OnUnlink(w) => Named(w, "unlink")
  <2> SUFFICES ASSUME OnUnlink(w) PROVE Named(w, "unlink")
    OBVIOUS
  <2>1. PICK s \in Slots, e \in Code, prev \in Slots \cup {NULL} :
          w = Then(<<"unlink", s, prev, next[s]>>, e)
    BY DEF OnUnlink
  <2>2. <<"unlink", s, prev, next[s]>> \in Steps
    BY StepKinds, Zenon DEF DataTypeOK
  <2> QED
    BY <2>1, <2>2, ThenNamed
<1>13. OnAdd(w) => Named(w, "add")
  BY StepKinds, ThenNamed, Zenon DEF OnAdd
<1>14. OnLink(w) => Named(w, "link")
  <2> SUFFICES ASSUME OnLink(w) PROVE Named(w, "link")
    OBVIOUS
  <2>1. PICK s \in Slots, e \in Code :
          w = Then(<<"link", s, Last(List(priority[s]))>>, e) /\ WellLinked
    BY DEF OnLink, Without, But
  <2>2. <<"link", s, Last(List(priority[s]))>> \in Steps
    BY <2>1, LastType, StepKinds, Zenon
  <2> QED
    BY <2>1, <2>2, ThenNamed
<1> QED
  BY <1>1, <1>2, <1>3, <1>4, <1>5, <1>10, <1>11, <1>12, <1>13, <1>14

(* Where a step can be taken: the next step determines the point.           *)
LEMMA ByOperation ==
  ASSUME StoresInv
  PROVE  /\ AtRest => OnRest(code)
         /\ At("create") => OnCreate(code)
         /\ At("stop") => OnStop(code)
         /\ At("resume") => OnResume(code)
         /\ At("block") => OnBlock(code)
         /\ At("start") => OnStart(code)
         /\ At("tick") => OnTick(code)
         /\ At("yield") => OnYield(code)
         /\ At("resched") => OnResched(code)
         /\ At("requeue") => OnRequeue(code)
         /\ At("schedule") => OnSchedule(code)
         /\ At("set_current") => OnSet(code)
         /\ At("switch") => OnSwitch(code)
         /\ At("mark") => OnMark(code)
         /\ At("remove") => OnRemove(code)
         /\ At("unlink") => OnUnlink(code)
         /\ At("add") => OnAdd(code)
         /\ At("link") => OnLink(code)
<1>1. DataTypeOK /\ Point(code)
  BY DEF StoresInv, Standing
<1>2. \A o : At(o) <=> Named(code, o)
  BY DEF At, Named
<1>3. \A o, p : Named(code, o) /\ Named(code, p) => o = p
  BY DEF Named
<1>4. \A o : AtRest => ~Named(code, o)
  BY DEF AtRest, Named
<1> QED
  BY <1>1, <1>2, <1>3, <1>4, PointNames DEF Point, AtRest

-----------------------------------------------------------------------------
(* What a step leaves alone.                                                *)

SameTasks ==
  /\ state' = state /\ priority' = priority /\ task_id' = task_id
  /\ current_tcb' = current_tcb /\ current_task' = current_task
  /\ scheduler_running' = scheduler_running /\ next_task_id' = next_task_id
SameLinks == next' = next /\ ready_lists' = ready_lists

(* What the steps of the lists do not change.                               *)
LEMMA TasksKept ==
  ASSUME SameTasks
  PROVE  /\ OneRuns' = OneRuns /\ NoneRuns' = NoneRuns
         /\ \A s : Ready(s)' = Ready(s) /\ OnlyRuns(s)' = OnlyRuns(s)
         /\ \A s : Dispatches(s)' = Dispatches(s)
         /\ CurrentLive' = CurrentLive
         /\ \A s, e : AfterAdd(s, e)' = AfterAdd(s, e)
         /\ \A s, e : AfterRemove(s, e)' = AfterRemove(s, e)
<1>1. OneRuns' = OneRuns /\ NoneRuns' = NoneRuns
  BY DEF SameTasks, OneRuns, NoneRuns
<1>2. \A s : Ready(s)' = Ready(s) /\ OnlyRuns(s)' = OnlyRuns(s)
  BY DEF SameTasks, Ready, OnlyRuns
<1>3. \A s : Dispatches(s)' = Dispatches(s)
  BY DEF SameTasks, Dispatches
<1>4. CurrentLive' = CurrentLive
  BY DEF SameTasks, CurrentLive
<1>5. \A s, e : AfterAdd(s, e)' = AfterAdd(s, e)
  BY <1>1, <1>2, <1>3 DEF SameTasks, AfterAdd
<1>6. \A s, e : AfterRemove(s, e)' = AfterRemove(s, e)
  BY <1>1, <1>2, <1>3 DEF SameTasks, AfterRemove
<1> QED
  BY <1>1, <1>2, <1>3, <1>4, <1>5, <1>6

(* And what the others do not change.                                       *)
LEMMA ListsKept ==
  ASSUME SameTasks, SameLinks
  PROVE  /\ Exact' = Exact /\ Calm' = Calm
         /\ \A s : But(s)' = But(s) /\ Without(s)' = Without(s)
<1>1. /\ WellLinked' <=> WellLinked
      /\ \A s : Listed(s)' <=> Listed(s)
  BY SameLists DEF SameTasks, SameLinks
<1>2. OneRuns' = OneRuns /\ \A s : Ready(s)' = Ready(s)
  BY TasksKept
<1>3. Exact' = Exact
  BY <1>1, <1>2 DEF Exact
<1>4. \A s : But(s)' = But(s)
  BY <1>1, <1>2 DEF But
<1>5. \A s : Without(s)' = Without(s)
  BY <1>1, <1>4 DEF Without
<1>6. Calm' = Calm
  BY <1>2, <1>3 DEF Calm
<1> QED
  BY <1>3, <1>4, <1>5, <1>6

-----------------------------------------------------------------------------
(* The steps, one lemma for each.                                           *)

(* A step keeps the invariant if what is left of the call is in place.      *)
LEMMA Lands ==
  ASSUME NEW w \in Code, code' = w, Standing', Point(w)'
  PROVE  StoresInv'
  BY DEF StoresInv

(* Once s is in its list, the call goes on at one of its points.            *)
LEMMA AfterAddNext ==
  \A s \in Slots, e \in Code : Exact /\ AfterAdd(s, e) => Point(e)
<1> SUFFICES ASSUME NEW s \in Slots, NEW e \in Code, Exact, AfterAdd(s, e)
             PROVE  Point(e)
  OBVIOUS
<1>1. CASE e = <<>> /\ OneRuns
  BY <1>1 DEF OnRest, Calm, Point
<1>2. CASE e = Schedule /\ NoneRuns /\ scheduler_running
  BY <1>2 DEF OnSchedule, Point
<1>3. ASSUME NEW n \in Slots \ {s}, e = Then(<<"remove", n>>, Run(n)),
             NoneRuns, Ready(n), Dispatches(n)
      PROVE  Point(e)
  <2>1. Run(n) \in Code
    BY EndCodes, Zenon
  <2>2. But(n)
    BY DEF Exact, But
  <2>3. AfterRemove(n, Run(n))
    BY <1>3 DEF AfterRemove
  <2>4. OnRemove(e)
    BY <1>3, <2>1, <2>2, <2>3 DEF OnRemove
  <2> QED
    BY <2>4 DEF Point
<1> QED
  BY <1>1, <1>2, <1>3, Zenon DEF AfterAdd

(* The same after the step.                                                 *)
LEMMA AfterAddNextPrimed ==
  \A s \in Slots, e \in Code : Exact' /\ AfterAdd(s, e)' => Point(e)'
<1>1. (\A s \in Slots, e \in Code : Exact /\ AfterAdd(s, e) => Point(e))'
  BY AfterAddNext, PTL
<1> QED
  BY <1>1

(* scheduler_add_task stores state and next, and link_tail completes it.    *)
LEMMA AddStep ==
  ASSUME StoresInv, scheduler_add_task
  PROVE  StoresInv'
<1>1. OnAdd(code) /\ Standing /\ DataTypeOK
  BY ByOperation DEF scheduler_add_task, StoresInv, Standing
<1>2. PICK s \in Slots, e \in Code :
        /\ code = Then(<<"add", s>>, e)
        /\ Without(s) /\ Ready(s) /\ AfterAdd(s, e)
  BY <1>1 DEF OnAdd
<1>3. Operand(1) = s
  <2>1. code[1] = <<"add", s>>
    BY <1>2, StepKinds, ThenFacts, Zenon
  <2> QED
    BY <2>1 DEF Operand
<1>4. PICK q : q = List(priority[s])
  OBVIOUS
<1>5. /\ state' = [state EXCEPT ![s] = "READY"]
      /\ next' = [next EXCEPT ![s] = NULL]
      /\ Proceed(<< <<"link", s, IF q = <<>> THEN NULL ELSE q[Len(q)]>> >>)
      /\ UNCHANGED <<priority, task_id, ready_lists, current, others>>
  BY <1>3, <1>4, Zenon DEF scheduler_add_task
<1>6. SameTasks /\ ready_lists' = ready_lists
  BY <1>1, <1>2, <1>5 DEF SameTasks, DataTypeOK, Ready, current, others
<1>7. q \in Seq(Slots) /\ Last(q) \in Slots \cup {NULL}
  <2>1. priority[s] \in Priorities
    BY <1>1 DEF DataTypeOK
  <2> QED
    BY <1>1, <1>2, <1>4, <2>1, LastType, Zenon DEF Without, But, WellLinked, Linked
<1>8. Last(q) = IF q = <<>> THEN NULL ELSE q[Len(q)]
  BY <1>7 DEF Last
<1> DEFINE w == Then(<<"link", s, Last(q)>>, e)
<1>9. w \in Code
  BY <1>7, StepKinds, ThenFacts, Zenon
<1>10. code' = w
  <2>1. <<"link", s, Last(q)>> \in Steps
    BY <1>7, StepKinds, Zenon
  <2>2. << <<"link", s, Last(q)>> >> \o e = w
    BY <2>1, Prepended, Zenon
  <2>3. <<"add", s>> \in Steps
    BY StepKinds, Zenon
  <2> QED
    BY <1>2, <1>5, <1>8, <2>2, <2>3, StepTaken, Zenon
<1>11. /\ WellLinked' /\ ~Listed(s)'
       /\ \A p \in Priorities : List(p)' = List(p)
       /\ \A t \in Slots \ {s} : Listed(t)' <=> Listed(t)
  BY <1>1, <1>2, <1>5, <1>6, AddLists, Zenon DEF Without, But, DataTypeOK, SameTasks
<1>12. Without(s)' /\ Ready(s)' /\ AfterAdd(s, e)'
  BY <1>2, <1>6, <1>11, TasksKept DEF Without, But
<1>13. Standing'
  BY <1>1, <1>5, <1>6, TasksKept DEF Standing, DataTypeOK, SameTasks
<1>14. Last(List(priority[s]))' = Last(q)
  <2>1. priority[s] \in Priorities /\ priority' = priority
    BY <1>1, <1>6 DEF DataTypeOK, SameTasks
  <2> QED
    BY <1>4, <1>11, <2>1 DEF Last
<1>15. next'[s] = NULL
  BY <1>1, <1>5 DEF DataTypeOK
<1>16. OnLink(w)'
  BY <1>12, <1>14, <1>15 DEF OnLink
<1>17. Point(w)'
  BY <1>16 DEF Point
<1> QED
  BY <1>9, <1>10, <1>13, <1>17, Lands

(* link_tail appends s to its list.                                         *)
LEMMA LinkStep ==
  ASSUME StoresInv, link_tail
  PROVE  StoresInv'
<1>1. OnLink(code) /\ Standing /\ DataTypeOK
  BY ByOperation DEF link_tail, StoresInv, Standing
<1>2. PICK s \in Slots, e \in Code :
        /\ code = Then(<<"link", s, Last(List(priority[s]))>>, e)
        /\ next[s] = NULL
        /\ Without(s) /\ Ready(s) /\ AfterAdd(s, e)
  BY <1>1 DEF OnLink
<1>3. PICK t : t = Last(List(priority[s]))
  OBVIOUS
<1>4. <<"link", s, t>> \in Steps
  BY <1>1, <1>2, <1>3, LastType, StepKinds, Zenon DEF Without, But
<1>5. Operand(1) = s /\ Operand(2) = t
  <2>1. code[1] = <<"link", s, t>>
    BY <1>2, <1>3, <1>4, ThenFacts, Zenon
  <2> QED
    BY <2>1 DEF Operand
<1>6. /\ Links(s, t) /\ Proceed(<<>>)
      /\ UNCHANGED <<tcbs, current, others>>
  BY <1>5 DEF link_tail, Links
<1>7. SameTasks
  BY <1>6 DEF SameTasks, tcbs, current, others
<1>8. /\ next' \in [Slots -> Slots \cup {NULL}]
      /\ ready_lists' \in [Priorities -> Slots \cup {NULL}]
      /\ WellLinked' /\ Listed(s)'
      /\ \A u \in Slots \ {s} : Listed(u)' <=> Listed(u)
  BY <1>1, <1>2, <1>3, <1>6, <1>7, LinkLists, Zenon
     DEF Without, But, DataTypeOK, SameTasks
<1>9. Exact' /\ AfterAdd(s, e)'
  <2>1. /\ \A u \in Slots : Ready(u)' = Ready(u)
        /\ AfterAdd(s, e)' = AfterAdd(s, e)
    BY <1>7, TasksKept
  <2> QED
    BY <1>2, <1>8, <2>1 DEF Exact, Without, But
<1>10. code' = e
  <2>1. <<>> \o e = e
    BY Prepended
  <2> QED
    BY <1>2, <1>3, <1>4, <1>6, <2>1, StepTaken, Zenon
<1>11. Point(e)'
  BY <1>9, AfterAddNextPrimed
<1>12. Standing'
  BY <1>1, <1>7, <1>8, TasksKept DEF Standing, DataTypeOK, SameTasks
<1> QED
  BY <1>10, <1>11, <1>12, Lands

(* Once s has left its list, the call goes on at one of its points.         *)
LEMMA AfterRemoveNext ==
  \A s \in Slots, e \in Code : Without(s) /\ AfterRemove(s, e) => Point(e)
<1> SUFFICES ASSUME NEW s \in Slots, NEW e \in Code,
                    Without(s), AfterRemove(s, e)
             PROVE  Point(e)
  OBVIOUS
<1>1. CASE e = Then(<<"mark", s, "DELETED">>, Resched(s)) /\ OneRuns
  <2>1. OnMark(e)
    BY <1>1 DEF OnMark
  <2> QED
    BY <2>1 DEF Point
<1>2. CASE e \in {Resched(s), Yield} /\ OneRuns /\ ~Ready(s)
  <2>1. Calm
    BY <1>2 DEF Calm, Exact, Without, But
  <2>2. OnResched(e) \/ OnYield(e)
    BY <1>2, <2>1 DEF OnResched, OnYield
  <2> QED
    BY <2>2 DEF Point
<1>3. ASSUME NEW n \in Slots \ {s},
             e = Then(<<"add", s>>, Then(<<"remove", n>>, Run(n))),
             NoneRuns, Ready(s), Ready(n), Dispatches(n)
      PROVE  Point(e)
  <2>1. Then(<<"remove", n>>, Run(n)) \in Code
    BY EndCodes, StepKinds, ThenFacts, Zenon
  <2>2. AfterAdd(s, Then(<<"remove", n>>, Run(n)))
    BY <1>3 DEF AfterAdd
  <2>3. OnAdd(e)
    BY <1>3, <2>1, <2>2 DEF OnAdd
  <2> QED
    BY <2>3 DEF Point
<1>4. CASE e = Run(s) /\ NoneRuns /\ Ready(s) /\ Dispatches(s)
  <2>1. OnMark(e)
    BY <1>4 DEF OnMark
  <2> QED
    BY <2>1 DEF Point
<1> QED
  BY <1>1, <1>2, <1>3, <1>4, Zenon DEF AfterRemove

(* The same after the step.                                                 *)
LEMMA AfterRemoveNextPrimed ==
  \A s \in Slots, e \in Code : Without(s)' /\ AfterRemove(s, e)' => Point(e)'
<1>1. (\A s \in Slots, e \in Code :
         Without(s) /\ AfterRemove(s, e) => Point(e))'
  BY AfterRemoveNext, PTL
<1> QED
  BY <1>1

(* A point stays one when only the code that is left changes.               *)
LEMMA PointKept ==
  ASSUME SameTasks, SameLinks, NEW w, Point(w)
  PROVE  Point(w)'
<1>1. /\ OneRuns' = OneRuns /\ NoneRuns' = NoneRuns
      /\ \A s : Ready(s)' = Ready(s) /\ OnlyRuns(s)' = OnlyRuns(s)
      /\ \A s : Dispatches(s)' = Dispatches(s)
      /\ \A s, e : AfterAdd(s, e)' = AfterAdd(s, e)
      /\ \A s, e : AfterRemove(s, e)' = AfterRemove(s, e)
  BY TasksKept
<1>2. /\ Exact' = Exact /\ Calm' = Calm
      /\ \A s : But(s)' = But(s) /\ Without(s)' = Without(s)
  BY ListsKept
<1>3. \A p : List(p)' = List(p)
  BY DEF SameLinks, List
<1>4. \A s, prev : Before(s, prev)' = Before(s, prev)
  BY <1>3 DEF Before, SameTasks
<1>5. \A s : Last(List(priority[s]))' = Last(List(priority[s]))
  BY <1>3 DEF SameTasks, Last
<1>6. /\ OnRest(w) => OnRest(w)'
      /\ OnCreate(w) => OnCreate(w)'
      /\ OnStop(w) => OnStop(w)'
      /\ OnResume(w) => OnResume(w)'
  BY <1>2 DEF OnRest, OnCreate, OnStop, OnResume
<1>7. /\ OnBlock(w) => OnBlock(w)'
      /\ OnStart(w) => OnStart(w)'
      /\ OnTick(w) => OnTick(w)'
      /\ OnYield(w) => OnYield(w)'
      /\ OnResched(w) => OnResched(w)'
  BY <1>2 DEF OnBlock, OnStart, OnTick, OnYield, OnResched, SameTasks
<1>8. /\ OnRequeue(w) => OnRequeue(w)'
      /\ OnSchedule(w) => OnSchedule(w)'
  BY <1>1, <1>2 DEF OnRequeue, OnSchedule, SameTasks
<1>9. OnSet(w) => OnSet(w)'
  BY <1>1, <1>2 DEF OnSet, SameTasks
<1>10. OnSwitch(w) => OnSwitch(w)'
  BY <1>1, <1>2 DEF OnSwitch, SameTasks
<1>11. OnMark(w) => OnMark(w)'
  BY <1>1, <1>2 DEF OnMark, SameTasks
<1>12. OnRemove(w) => OnRemove(w)'
  BY <1>1, <1>2 DEF OnRemove
<1>13. OnUnlink(w) => OnUnlink(w)'
  BY <1>1, <1>2, <1>4 DEF OnUnlink, SameLinks
<1>14. OnAdd(w) => OnAdd(w)'
  BY <1>1, <1>2 DEF OnAdd
<1>15. OnLink(w) => OnLink(w)'
  BY <1>1, <1>2, <1>5 DEF OnLink, SameLinks
<1> QED
  BY <1>6, <1>7, <1>8, <1>9, <1>10, <1>11, <1>12, <1>13, <1>14, <1>15 DEF Point

(* A step that only decides what comes next keeps the invariant if that is  *)
(* in place.                                                                *)
LEMMA Decided ==
  ASSUME StoresInv, NEW op, NEW more, Decide(op, more),
         NEW a \in Steps, NEW r \in Code, code = Then(a, r),
         NEW w \in Code, w = more \o r, Point(w)
  PROVE  StoresInv'
<1>1. SameTasks /\ SameLinks /\ Proceed(more)
  BY DEF Decide, SameTasks, SameLinks, tcbs, links, current, others
<1>2. code' = w
  BY <1>1, StepTaken, Zenon
<1>3. Standing'
  BY <1>1, TasksKept DEF StoresInv, Standing, DataTypeOK, SameTasks, SameLinks
<1>4. Point(w)'
  BY <1>1, PointKept
<1> QED
  BY <1>2, <1>3, <1>4, Lands

(* scheduler_remove_task finds s where Before says it is.                   *)
LEMMA RemoveStep ==
  ASSUME StoresInv, scheduler_remove_task
  PROVE  StoresInv'
<1>1. At("remove")
  BY DEF scheduler_remove_task, Decide
<1>2. OnRemove(code) /\ Standing /\ DataTypeOK
  BY <1>1, ByOperation DEF StoresInv, Standing
<1>3. PICK s \in Slots, e \in Code :
        /\ code = Then(<<"remove", s>>, e)
        /\ But(s) /\ AfterRemove(s, e)
  BY <1>2 DEF OnRemove
<1>4. Operand(1) = s /\ <<"remove", s>> \in Steps
  <2>1. code[1] = <<"remove", s>>
    BY <1>3, StepKinds, ThenFacts, Zenon
  <2>2. Operand(1) = s
    BY <2>1 DEF Operand
  <2> QED
    BY <2>2, StepKinds, Zenon
<1> DEFINE o     == Operand(1)
           list  == List(priority[o])
           found == {i \in 1..Len(list) : list[i] = o}
           least == CHOOSE i \in found : \A j \in found : i <= j
           pred  == IF least = 1 THEN NULL ELSE list[least - 1]
<1>5. Decide("remove", IF found = {} THEN <<>>
                       ELSE << <<"unlink", o, pred, next[o]>> >>)
  BY DEF scheduler_remove_task
<1>6. PICK q, here, k, prev, succ :
        <<q, here, k, prev, succ>> = <<list, found, least, pred, next[o]>>
  <2> HIDE DEF list, found, least, pred
  <2> QED
    OBVIOUS
<1>7. /\ q = List(priority[s]) /\ here = {i \in 1..Len(q) : q[i] = s}
      /\ k = CHOOSE i \in here : \A j \in here : i <= j
      /\ prev = IF k = 1 THEN NULL ELSE q[k - 1]
      /\ succ = next[s]
  BY <1>4, <1>6
<1>8. Decide("remove", IF here = {} THEN <<>>
                       ELSE << <<"unlink", s, prev, succ>> >>)
  BY <1>4, <1>5, <1>6, Zenon
<1> HIDE DEF o, list, found, least, pred
<1>10. q \in Seq(Slots)
  BY <1>2, <1>3, <1>7 DEF DataTypeOK, But, WellLinked, Linked
<1>11. CASE here = {}
  <2>1. ~Listed(s)
    BY <1>7, <1>11 DEF Listed
  <2>2. Point(e)
    BY <1>3, <2>1, AfterRemoveNext DEF Without
  <2>3. e = <<>> \o e
    BY Prepended
  <2> QED
    BY <1>3, <1>4, <1>8, <1>11, <2>2, <2>3, Decided, Zenon
<1>12. CASE here # {}
  <2>1. k \in here
    <3>1. here \subseteq Nat
      BY <1>7, <1>10
    <3>2. \E i \in here : \A j \in here : i <= j
      BY <1>12, <3>1, LeastNat, Zenon
    <3> QED
      BY <1>7, <3>2
  <2>2. k \in 1..Len(q) /\ q[k] = s
    BY <1>7, <2>1
  <2>3. prev \in Slots \cup {NULL} /\ Before(s, prev)
    <3>1. prev \in Slots \cup {NULL}
      BY <1>7, <1>10, <2>2
    <3>2. \E i \in 1..Len(q) : q[i] = s /\ prev = IF i = 1 THEN NULL ELSE q[i - 1]
      BY <1>7, <2>2, Zenon
    <3> QED
      BY <1>7, <3>1, <3>2, Zenon DEF Before
  <2>4. <<"unlink", s, prev, succ>> \in Steps
    BY <1>2, <1>7, <2>3, StepKinds, Zenon DEF DataTypeOK
  <2> DEFINE w == Then(<<"unlink", s, prev, succ>>, e)
  <2>5. w \in Code
    BY <2>4, ThenFacts
  <2>6. w = << <<"unlink", s, prev, succ>> >> \o e
    BY <2>4, Prepended
  <2>7. OnUnlink(w)
    BY <1>3, <1>7, <2>3, Zenon DEF OnUnlink
  <2>8. Point(w)
    BY <2>7 DEF Point
  <2> QED
    BY <1>3, <1>4, <1>8, <1>12, <2>5, <2>6, <2>8, Decided, Zenon
<1> QED
  BY <1>11, <1>12

(* unlink takes s out of its list.                                          *)
LEMMA UnlinkStep ==
  ASSUME StoresInv, unlink
  PROVE  StoresInv'
<1>1. OnUnlink(code) /\ Standing /\ DataTypeOK
  BY ByOperation DEF unlink, StoresInv, Standing
<1>2. PICK s \in Slots, e \in Code, prev \in Slots \cup {NULL} :
        /\ code = Then(<<"unlink", s, prev, next[s]>>, e)
        /\ Before(s, prev) /\ But(s) /\ AfterRemove(s, e)
  BY <1>1 DEF OnUnlink
<1>3. <<"unlink", s, prev, next[s]>> \in Steps
  BY <1>1, StepKinds, Zenon DEF DataTypeOK
<1>4. Operand(1) = s /\ Operand(2) = prev /\ Operand(3) = next[s]
  <2>1. code[1] = <<"unlink", s, prev, next[s]>>
    BY <1>2, <1>3, ThenFacts, Zenon
  <2> QED
    BY <2>1 DEF Operand
<1>5. /\ Unlinks(s, prev, next[s]) /\ Proceed(<<>>)
      /\ UNCHANGED <<tcbs, current, others>>
  BY <1>4, Zenon DEF unlink, Unlinks
<1>6. SameTasks
  BY <1>5 DEF SameTasks, tcbs, current, others
<1>7. /\ next' \in [Slots -> Slots \cup {NULL}]
      /\ ready_lists' \in [Priorities -> Slots \cup {NULL}]
      /\ WellLinked' /\ ~Listed(s)'
      /\ \A t \in Slots \ {s} : Listed(t)' <=> Listed(t)
      /\ \A p \in Priorities :
           ready_lists[p] # s => ready_lists'[p] = ready_lists[p]
  BY <1>1, <1>2, <1>5, <1>6, UnlinkLists, Zenon DEF But, DataTypeOK, SameTasks
<1>8. Without(s)'
  BY <1>2, <1>6, <1>7, TasksKept DEF Without, But
<1>11. code' = e
  <2>1. <<>> \o e = e
    BY Prepended
  <2> QED
    BY <1>1, <1>2, <1>3, <1>5, <2>1, StepTaken, Zenon
<1>12. AfterRemove(s, e)'
  BY <1>2, <1>6, TasksKept
<1>13. Point(e)'
  BY <1>8, <1>12, AfterRemoveNextPrimed
<1>14. Standing'
  BY <1>1, <1>6, <1>7, TasksKept DEF Standing, DataTypeOK, SameTasks
<1> QED
  BY <1>11, <1>13, <1>14, Lands

-----------------------------------------------------------------------------

-----------------------------------------------------------------------------
(* Marking a task.                                                          *)

(* What mark stores.                                                        *)
Marks(s, st) ==
  /\ state' = [state EXCEPT ![s] = st]
  /\ priority' = priority /\ task_id' = task_id /\ SameLinks
  /\ current_tcb' = current_tcb /\ current_task' = current_task
  /\ scheduler_running' = scheduler_running /\ next_task_id' = next_task_id

(* The lists stay, and so do the other tasks.                               *)
LEMMA MarkLists ==
  ASSUME DataTypeOK, NEW s \in Slots, NEW st, Marks(s, st)
  PROVE  /\ state'[s] = st /\ \A t \in Slots \ {s} : state'[t] = state[t]
         /\ Ready(s)' <=> task_id[s] # 0 /\ st = "READY"
         /\ Exact => But(s)'
         /\ Without(s) => Without(s)'
         /\ (Without(s) /\ ~Ready(s)') => Exact'
         /\ (Exact /\ ~Ready(s)) => Without(s)'
         /\ st # "RUNNING" /\ OneRuns => OneRuns'
<1>1. /\ state'[s] = st
      /\ \A t \in Slots \ {s} : state'[t] = state[t]
  BY DEF Marks, DataTypeOK
<1>2. /\ \A t \in Slots \ {s} : Ready(t)' = Ready(t)
      /\ Ready(s)' <=> task_id[s] # 0 /\ st = "READY"
  BY <1>1 DEF Ready, Marks
<1>3. /\ WellLinked' <=> WellLinked
      /\ \A t : Listed(t)' <=> Listed(t)
  BY SameLists DEF Marks, SameLinks
<1>4. But(s) => But(s)'
  BY <1>2, <1>3 DEF But
<1>5. Exact => But(s)
  BY DEF But, Exact
<1>6. Without(s) => Without(s)'
  BY <1>3, <1>4 DEF Without
<1>7. (Without(s) /\ ~Ready(s)') => Exact'
  BY <1>2, <1>3 DEF Without, But, Exact
<1>8. (Exact /\ ~Ready(s)) => Without(s)'
  BY <1>5, <1>6 DEF Exact, Without
<1>9. st # "RUNNING" /\ OneRuns => OneRuns'
  BY <1>1 DEF OneRuns, Marks
<1> QED
  BY <1>1, <1>2, <1>4, <1>5, <1>6, <1>7, <1>8, <1>9

(* mark leaves the call to go on at one of its points.                      *)
LEMMA MarkTaken ==
  ASSUME StoresInv, mark, NEW s \in Slots, NEW st \in K!TaskStates,
         NEW e \in Code, code = Then(<<"mark", s, st>>, e)
  PROVE  /\ Marks(s, st) /\ DataTypeOK
         /\ Point(e)' => StoresInv'
<1>1. DataTypeOK /\ CurrentLive
  BY DEF StoresInv, Standing
<1>2. <<"mark", s, st>> \in Steps
  BY StepKinds, Zenon
<1>3. Operand(1) = s /\ Operand(2) = st
  <2>1. code[1] = <<"mark", s, st>>
    BY <1>2, ThenFacts, Zenon
  <2> QED
    BY <2>1 DEF Operand
<1>4. Marks(s, st) /\ Proceed(<<>>)
  BY <1>3, Zenon DEF mark, Marks, SameLinks, links, current, others
<1>5. code' = e
  <2>1. <<>> \o e = e
    BY Prepended
  <2> QED
    BY <1>2, <1>4, <2>1, StepTaken, Zenon
<1>6. DataTypeOK'
  BY <1>1, <1>4 DEF Marks, DataTypeOK, SameLinks
<1>7. CurrentLive'
  BY <1>1, <1>4 DEF Marks, CurrentLive
<1>8. Point(e)' => StoresInv'
  BY <1>5, <1>6, <1>7, Lands DEF Standing
<1> QED
  BY <1>1, <1>4, <1>8

(* The six uses of mark.                                                    *)
LEMMA MarkStep ==
  ASSUME StoresInv, mark
  PROVE  StoresInv'
<1>1. OnMark(code) /\ DataTypeOK /\ CurrentLive
  BY ByOperation DEF mark, StoresInv, Standing
<1>2. /\ "DELETED" \in K!TaskStates /\ "SUSPENDED" \in K!TaskStates
      /\ "BLOCKED" \in K!TaskStates /\ "READY" \in K!TaskStates
      /\ "RUNNING" \in K!TaskStates
  BY DEF K!TaskStates
<1>3. PICK s \in Slots :
        \/ /\ code = Then(<<"mark", s, "DELETED">>, Resched(s))
           /\ Without(s) /\ OneRuns
        \/ /\ code = Then(<<"mark", s, "SUSPENDED">>,
                       Then(<<"remove", s>>, Resched(s)))
           /\ Calm
        \/ /\ code = Then(<<"mark", s, "BLOCKED">>, Then(<<"remove", s>>, Yield))
           /\ Calm
        \/ /\ code = Then(<<"mark", s, "READY">>, Then(<<"add", s>>, <<>>))
           /\ Calm /\ state[s] = "SUSPENDED" /\ task_id[s] # 0
        \/ /\ code = Then(<<"mark", s, "READY">>, Then(<<"add", s>>, Schedule))
           /\ Calm /\ scheduler_running
           /\ s = current_tcb /\ state[s] = "RUNNING"
        \/ /\ code = Run(s)
           /\ Without(s) /\ NoneRuns /\ Ready(s) /\ Dispatches(s)
  BY <1>1, Zenon DEF OnMark
<1>4. /\ Resched(s) \in Code /\ Yield \in Code /\ Schedule \in Code
      /\ <<>> \in Code /\ Switch(s) \in Code
  BY EndCodes, Zenon
<1>5. \A r \in Code :
        Then(<<"remove", s>>, r) \in Code /\ Then(<<"add", s>>, r) \in Code
  BY StepKinds, ThenFacts, Zenon
<1>6. CASE /\ code = Then(<<"mark", s, "DELETED">>, Resched(s))
           /\ Without(s) /\ OneRuns
  <2>1. Marks(s, "DELETED") /\ (Point(Resched(s))' => StoresInv')
    BY <1>2, <1>4, <1>6, MarkTaken
  <2>2. Calm'
    BY <1>1, <1>6, <2>1, MarkLists DEF Calm
  <2>3. OnResched(Resched(s))'
    BY <2>2 DEF OnResched
  <2> QED
    BY <2>1, <2>3 DEF Point
<1>7. ASSUME NEW st \in {"SUSPENDED", "BLOCKED"}, NEW r \in {Resched(s), Yield},
             code = Then(<<"mark", s, st>>, Then(<<"remove", s>>, r)), Calm
      PROVE  StoresInv'
  <2> DEFINE e == Then(<<"remove", s>>, r)
  <2>1. r \in Code /\ e \in Code /\ st \in K!TaskStates
    BY <1>2, <1>4, <1>5
  <2>2. Marks(s, st) /\ (Point(e)' => StoresInv')
    BY <1>7, <2>1, MarkTaken
  <2>3. But(s)' /\ OneRuns' /\ ~Ready(s)'
    BY <1>1, <1>7, <2>2, MarkLists DEF Calm
  <2>4. AfterRemove(s, r)'
    BY <1>7, <2>3 DEF AfterRemove
  <2>5. OnRemove(e)'
    BY <2>1, <2>3, <2>4 DEF OnRemove
  <2> QED
    BY <2>2, <2>5 DEF Point
<1>8. CASE /\ code = Then(<<"mark", s, "READY">>, Then(<<"add", s>>, <<>>))
           /\ Calm /\ state[s] = "SUSPENDED" /\ task_id[s] # 0
  <2> DEFINE e == Then(<<"add", s>>, <<>>)
  <2>1. e \in Code
    BY <1>4, <1>5
  <2>2. Marks(s, "READY") /\ (Point(e)' => StoresInv')
    BY <1>2, <1>8, <2>1, MarkTaken
  <2>3. Without(s)' /\ Ready(s)' /\ OneRuns'
    BY <1>1, <1>8, <2>2, MarkLists DEF Calm, Ready
  <2>4. AfterAdd(s, <<>>)'
    BY <2>3 DEF AfterAdd
  <2>5. OnAdd(e)'
    BY <1>4, <2>3, <2>4 DEF OnAdd
  <2> QED
    BY <2>2, <2>5 DEF Point
<1>9. CASE /\ code = Then(<<"mark", s, "READY">>, Then(<<"add", s>>, Schedule))
           /\ Calm /\ scheduler_running
           /\ s = current_tcb /\ state[s] = "RUNNING"
  <2> DEFINE e == Then(<<"add", s>>, Schedule)
  <2>1. e \in Code
    BY <1>4, <1>5
  <2>2. Marks(s, "READY") /\ (Point(e)' => StoresInv')
    BY <1>2, <1>9, <2>1, MarkTaken
  <2>3. task_id[s] # 0
    BY <1>1, <1>9 DEF CurrentLive, Slots, NULL
  <2>4. Without(s)' /\ Ready(s)'
    BY <1>1, <1>9, <2>2, <2>3, MarkLists DEF Calm, Ready
  <2>5. NoneRuns'
    <3>1. /\ state'[s] = "READY"
          /\ \A t \in Slots \ {s} : state'[t] = state[t]
      BY <1>1, <2>2, MarkLists
    <3> QED
      BY <1>9, <2>2, <3>1 DEF NoneRuns, OneRuns, Calm, Marks
  <2>6. AfterAdd(s, Schedule)'
    BY <1>9, <2>2, <2>5 DEF AfterAdd, Marks
  <2>7. OnAdd(e)'
    BY <1>4, <2>4, <2>6 DEF OnAdd
  <2> QED
    BY <2>2, <2>7 DEF Point
<1>10. CASE /\ code = Run(s)
            /\ Without(s) /\ NoneRuns /\ Ready(s) /\ Dispatches(s)
  <2>1. code = Then(<<"mark", s, "RUNNING">>, Switch(s))
    BY <1>10 DEF Run
  <2>2. Marks(s, "RUNNING") /\ (Point(Switch(s))' => StoresInv')
    BY <1>2, <1>4, <2>1, MarkTaken
  <2>3. /\ state'[s] = "RUNNING"
        /\ \A t \in Slots \ {s} : state'[t] = state[t]
        /\ Exact'
    BY <1>1, <1>10, <2>2, MarkLists
  <2>4. /\ OnlyRuns(s)' /\ current_tcb' = current_task' /\ Dispatches(s)'
    BY <1>10, <2>2, <2>3 DEF OnlyRuns, NoneRuns, Marks, Dispatches
  <2>5. OnSwitch(Switch(s))'
    BY <2>3, <2>4 DEF OnSwitch
  <2> QED
    BY <2>2, <2>5 DEF Point
<1>11. CASE \/ /\ code = Then(<<"mark", s, "SUSPENDED">>,
                            Then(<<"remove", s>>, Resched(s)))
               /\ Calm
            \/ /\ code = Then(<<"mark", s, "BLOCKED">>,
                            Then(<<"remove", s>>, Yield))
               /\ Calm
  BY <1>7, <1>11
<1> QED
  BY <1>3, <1>6, <1>8, <1>9, <1>10, <1>11, Zenon

-----------------------------------------------------------------------------
(* The current task.                                                        *)

(* The steps that set it leave the lists.                                   *)
LEMMA CurrentLists ==
  ASSUME SameLinks, UNCHANGED tcbs
  PROVE  /\ Exact' = Exact
         /\ \A s : OnlyRuns(s)' = OnlyRuns(s)
<1>1. state' = state /\ priority' = priority /\ task_id' = task_id
  BY DEF tcbs
<1>2. \A s : Ready(s)' = Ready(s) /\ OnlyRuns(s)' = OnlyRuns(s)
  BY <1>1 DEF Ready, OnlyRuns
<1>3. /\ WellLinked' <=> WellLinked
      /\ \A s : Listed(s)' <=> Listed(s)
  BY <1>1, SameLists DEF SameLinks
<1> QED
  BY <1>2, <1>3 DEF Exact

(* scheduler.c's current task.                                              *)
LEMMA SwitchStep ==
  ASSUME StoresInv, switch_tcb
  PROVE  StoresInv'
<1>1. OnSwitch(code) /\ DataTypeOK
  BY ByOperation DEF switch_tcb, StoresInv, Standing
<1>2. PICK n \in Slots :
        /\ code = Switch(n) /\ Dispatches(n)
        /\ Exact /\ OnlyRuns(n) /\ current_tcb = current_task
  BY <1>1 DEF OnSwitch
<1>3. /\ SetCurrent(n) \in Code /\ <<"switch", n>> \in Steps
      /\ code = Then(<<"switch", n>>, SetCurrent(n))
  BY <1>2, EndCodes, StepKinds, Zenon DEF Switch
<1>4. Operand(1) = n
  <2>1. code[1] = <<"switch", n>>
    BY <1>3, ThenFacts, Zenon
  <2> QED
    BY <2>1 DEF Operand
<1>5. /\ current_tcb' = n /\ Proceed(<<>>) /\ UNCHANGED tcbs /\ SameLinks
      /\ current_task' = current_task /\ scheduler_running' = scheduler_running
      /\ next_task_id' = next_task_id
      /\ state' = state /\ priority' = priority /\ task_id' = task_id
  BY <1>4 DEF switch_tcb, SameLinks, links, others, tcbs
<1>6. code' = SetCurrent(n)
  <2>1. <<>> \o SetCurrent(n) = SetCurrent(n)
    BY <1>3, Prepended
  <2> QED
    BY <1>3, <1>5, <2>1, StepTaken, Zenon
<1>7. Standing'
  <2>1. DataTypeOK'
    BY <1>1, <1>5 DEF DataTypeOK, SameLinks
  <2>2. CurrentLive'
    BY <1>2, <1>5 DEF CurrentLive, Dispatches, Slots, NULL
  <2> QED
    BY <2>1, <2>2 DEF Standing
<1>8. OnSet(SetCurrent(n))'
  BY <1>2, <1>5, CurrentLists DEF OnSet, Dispatches
<1> QED
  BY <1>3, <1>6, <1>7, <1>8, Lands DEF Point

(* task.c's: with it the dispatch is complete.                              *)
LEMMA SetStep ==
  ASSUME StoresInv, task_set_current
  PROVE  StoresInv'
<1>1. OnSet(code) /\ DataTypeOK
  BY ByOperation DEF task_set_current, StoresInv, Standing
<1>2. PICK n \in Slots :
        /\ code = SetCurrent(n) /\ Dispatches(n)
        /\ Exact /\ OnlyRuns(n) /\ current_tcb = n
  BY <1>1 DEF OnSet
<1>3. /\ <<>> \in Code /\ <<"set_current", n>> \in Steps
      /\ code = Then(<<"set_current", n>>, <<>>)
  BY <1>2, EndCodes, StepKinds, Zenon
<1>4. Operand(1) = n
  <2>1. code[1] = <<"set_current", n>>
    BY <1>3, ThenFacts, Zenon
  <2> QED
    BY <2>1 DEF Operand
<1>5. /\ current_task' = n /\ Proceed(<<>>) /\ UNCHANGED tcbs /\ SameLinks
      /\ current_tcb' = current_tcb /\ scheduler_running' = scheduler_running
      /\ next_task_id' = next_task_id
      /\ state' = state /\ priority' = priority /\ task_id' = task_id
  BY <1>4 DEF task_set_current, SameLinks, links, others, tcbs
<1>6. code' = <<>>
  <2>1. <<>> \o <<>> = <<>>
    BY <1>3, Prepended
  <2> QED
    BY <1>3, <1>5, <2>1, StepTaken, Zenon
<1>7. Standing'
  <2>1. DataTypeOK'
    BY <1>1, <1>5 DEF DataTypeOK, SameLinks
  <2>2. CurrentLive'
    BY <1>2, <1>5 DEF CurrentLive, Dispatches, Slots, NULL
  <2> QED
    BY <2>1, <2>2 DEF Standing
<1>8. OnRest(<<>>)'
  BY <1>2, <1>5, CurrentLists DEF OnRest, Calm, OneRuns, OnlyRuns
<1> QED
  BY <1>3, <1>6, <1>7, <1>8, Lands DEF Point

-----------------------------------------------------------------------------
(* Scheduling.                                                              *)

(* get_highest_priority_task finds a READY task.                            *)
LEMMA HighestReady ==
  ASSUME DataTypeOK, Exact, get_highest_priority_task # NULL
  PROVE  /\ get_highest_priority_task \in Slots
         /\ Ready(get_highest_priority_task)
<1>1. WellLinked /\ priority \in [Slots -> Priorities]
  BY DEF Exact, DataTypeOK
<1> QED
  BY <1>1, HighestLinked DEF Exact

(* schedule: the current task goes to the back of its list if it is still   *)
(* READY, and the highest is dispatched.                                    *)
LEMMA ScheduleStep ==
  ASSUME StoresInv, schedule
  PROVE  StoresInv'
<1>1. At("schedule")
  BY DEF schedule, Decide
<1>2. OnSchedule(code) /\ DataTypeOK /\ CurrentLive
  BY <1>1, ByOperation DEF StoresInv, Standing
<1>3. /\ code = Then(<<"schedule">>, <<>>) /\ Exact /\ NoneRuns
      /\ scheduler_running
  BY <1>2, EndCodes, Zenon DEF OnSchedule
<1>4. <<>> \in Code /\ <<"schedule">> \in Steps
  BY CodeOne, StepKinds, Zenon
<1>5. \A w \in Code : w = w \o <<>>
  BY DEF Code
<1>6. PICK n, c : n = get_highest_priority_task /\ c = current_tcb
  OBVIOUS
<1>7. CASE n \in {NULL, c}
  <2>1. Decide("schedule", <<>>)
    BY <1>6, <1>7 DEF schedule
  <2>2. OnRest(<<>>)
    BY <1>3 DEF OnRest, Calm, OneRuns, NoneRuns
  <2>3. Point(<<>>)
    BY <2>2 DEF Point
  <2> QED
    BY <1>3, <1>4, <1>5, <2>1, <2>3, Decided, Zenon
<1>8. CASE n \notin {NULL, c}
  <2>1. n \in Slots /\ Ready(n) /\ Dispatches(n)
    BY <1>2, <1>3, <1>6, <1>8, HighestReady DEF Dispatches, Ready
  <2> DEFINE x == << <<"remove", n>>, <<"mark", n, "RUNNING">>,
                     <<"switch", n>>, <<"set_current", n>> >>
             y == Then(<<"remove", n>>, Run(n))
  <2>2. x = y /\ y \in Code /\ Run(n) \in Code
    <3>1. /\ <<"remove", n>> \in Steps /\ <<"mark", n, "RUNNING">> \in Steps
          /\ <<"switch", n>> \in Steps /\ <<"set_current", n>> \in Steps
      BY <2>1, StepKinds, Zenon DEF K!TaskStates
    <3>2. PICK a, b, d, g :
            /\ a = <<"remove", n>> /\ b = <<"mark", n, "RUNNING">>
            /\ d = <<"switch", n>> /\ g = <<"set_current", n>>
      BY Zenon
    <3>3. a \in Steps /\ b \in Steps /\ d \in Steps /\ g \in Steps
      BY <3>1, <3>2
    <3>4. <<a, b, d, g>> = Then(a, Then(b, Then(d, <<g>>)))
      <4>1. <<d, g>> = Then(d, <<g>>)
        BY <3>3, CodeTwo
      <4>2. <<b, d, g>> = Then(b, <<d, g>>)
        BY <3>3, CodeThree
      <4>3. <<a, b, d, g>> = Then(a, <<b, d, g>>)
        BY DEF Then
      <4> QED
        BY <4>1, <4>2, <4>3, Zenon
    <3>5. x = y
      BY <3>2, <3>4, Zenon DEF Run, Switch, SetCurrent
    <3>6. Run(n) \in Code
      BY <2>1, EndCodes, Zenon
    <3> QED
      BY <3>1, <3>5, <3>6, ThenFacts, Zenon
  <2>3. CASE ~(c # NULL /\ state[c] = "READY")
    <3>1. DispatchSteps(n) = <<>> \o x
      BY <1>6, <2>3, Zenon DEF DispatchSteps
    <3>2. DispatchSteps(n) = y
      BY <2>2, <3>1, Prepended
    <3>3. Decide("schedule", y)
      BY <1>6, <1>8, <3>2 DEF schedule
    <3>4. But(n) /\ AfterRemove(n, Run(n))
      BY <1>3, <2>1 DEF But, Exact, AfterRemove
    <3>5. OnRemove(y)
      BY <2>1, <2>2, <3>4, Zenon DEF OnRemove
    <3>6. Point(y)
      BY <3>5 DEF Point
    <3> QED
      BY <1>3, <1>4, <1>5, <2>2, <3>3, <3>6, Decided, Zenon
  <2>4. CASE c # NULL /\ state[c] = "READY"
    <3> DEFINE z == << <<"remove", c>>, <<"add", c>> >>
               u == Then(<<"add", c>>, y)
               v == Then(<<"remove", c>>, u)
    <3>1. DispatchSteps(n) = z \o x
      BY <1>6, <2>4, Zenon DEF DispatchSteps
    <3>2. c \in Slots /\ Ready(c)
      BY <1>2, <1>6, <2>4 DEF DataTypeOK, Ready, CurrentLive
    <3>3. <<"remove", c>> \in Steps /\ <<"add", c>> \in Steps
      BY <3>2, StepKinds, Zenon
    <3>4. z \o y = v
      BY <2>2, <3>3, PrependedTwo, Zenon
    <3>5. DispatchSteps(n) = v
      BY <2>2, <3>1, <3>4, Zenon
    <3>6. Decide("schedule", v)
      BY <1>6, <1>8, <3>5 DEF schedule
    <3>7. u \in Code /\ v \in Code
      BY <2>2, <3>3, ThenFacts
    <3>8. But(c) /\ AfterRemove(c, u)
      BY <1>3, <1>8, <2>1, <3>2 DEF But, Exact, AfterRemove
    <3>9. OnRemove(v)
      BY <3>2, <3>7, <3>8 DEF OnRemove
    <3>10. Point(v)
      BY <3>9 DEF Point
    <3> QED
      BY <1>3, <1>4, <1>5, <3>6, <3>7, <3>10, Decided, Zenon
  <2> QED
    BY <2>3, <2>4
<1> QED
  BY <1>7, <1>8

(* scheduler_yield puts the current task, if it runs, back among the READY. *)
LEMMA RequeueStep ==
  ASSUME StoresInv, requeue
  PROVE  StoresInv'
<1>1. At("requeue")
  BY DEF requeue, Decide
<1>2. OnRequeue(code) /\ DataTypeOK
  BY <1>1, ByOperation DEF StoresInv, Standing
<1>3. code = Then(<<"requeue">>, Schedule) /\ scheduler_running /\ Calm
  BY <1>2 DEF OnRequeue
<1>4. Schedule \in Code /\ <<"requeue">> \in Steps
  BY EndCodes, StepKinds, Zenon
<1>5. PICK c : c = current_tcb
  OBVIOUS
<1>6. CASE c # NULL /\ state[c] = "RUNNING"
  <2> DEFINE z == << <<"mark", c, "READY">>, <<"add", c>> >>
             u == Then(<<"add", c>>, Schedule)
             v == Then(<<"mark", c, "READY">>, u)
  <2>1. Decide("requeue", z)
    BY <1>5, <1>6 DEF requeue
  <2>2. c \in Slots
    BY <1>2, <1>5, <1>6 DEF DataTypeOK
  <2>3. <<"mark", c, "READY">> \in Steps /\ <<"add", c>> \in Steps
    BY <2>2, StepKinds, Zenon DEF K!TaskStates
  <2>4. z \o Schedule = v
    BY <1>4, <2>3, PrependedTwo, Zenon
  <2>5. v \in Code
    BY <1>4, <2>3, ThenFacts
  <2>6. OnMark(v)
    BY <1>3, <1>5, <1>6, <2>2, Zenon DEF OnMark
  <2>7. Point(v)
    BY <2>6 DEF Point
  <2> QED
    BY <1>3, <1>4, <2>1, <2>4, <2>5, <2>7, Decided, Zenon
<1>7. CASE ~(c # NULL /\ state[c] = "RUNNING")
  <2>1. Decide("requeue", <<>>)
    BY <1>5, <1>7 DEF requeue
  <2>2. Exact /\ NoneRuns
    BY <1>3, <1>5, <1>7 DEF Calm, OneRuns, NoneRuns, Slots, NULL
  <2>3. OnSchedule(Schedule)
    BY <1>3, <2>2 DEF OnSchedule
  <2>4. Point(Schedule)
    BY <2>3 DEF Point
  <2>5. Schedule = <<>> \o Schedule
    BY <1>4, Prepended
  <2> QED
    BY <1>3, <1>4, <2>1, <2>4, <2>5, Decided, Zenon
<1> QED
  BY <1>6, <1>7

(* The test of scheduler_yield.                                             *)
LEMMA YieldStep ==
  ASSUME StoresInv, scheduler_yield
  PROVE  StoresInv'
<1>1. At("yield")
  BY DEF scheduler_yield, Decide
<1>2. OnYield(code)
  BY <1>1, ByOperation
<1>3. Calm /\ code = Then(<<"yield">>, <<>>)
  BY <1>2, EndCodes, Zenon DEF OnYield
<1>4. <<>> \in Code /\ <<"yield">> \in Steps
  BY CodeOne, StepKinds, Zenon
<1>5. \A w \in Code : w = w \o <<>>
  BY DEF Code
<1>6. CASE scheduler_running
  <2> DEFINE v == Then(<<"requeue">>, Schedule)
  <2>1. << <<"requeue">>, <<"schedule">> >> = v /\ v \in Code
    BY EndCodes, StepKinds, CodeTwo, Zenon DEF Schedule
  <2>2. Decide("yield", v)
    BY <1>6, <2>1, Zenon DEF scheduler_yield
  <2>3. OnRequeue(v)
    BY <1>3, <1>6 DEF OnRequeue
  <2>4. Point(v)
    BY <2>3 DEF Point
  <2> QED
    BY <1>3, <1>4, <1>5, <2>1, <2>2, <2>4, Decided, Zenon
<1>7. CASE ~scheduler_running
  <2>1. Decide("yield", <<>>)
    BY <1>7 DEF scheduler_yield
  <2>2. Point(<<>>)
    BY <1>3 DEF OnRest, Point
  <2> QED
    BY <1>3, <1>4, <1>5, <2>1, <2>2, Decided, Zenon
<1> QED
  BY <1>6, <1>7

(* A step of a calm call that is followed by nothing or by a yield.         *)
LEMMA CalmEnd ==
  ASSUME StoresInv, Calm, NEW op, NEW more \in {<<>>, Yield},
         Decide(op, more), NEW a \in Steps, code = Then(a, <<>>)
  PROVE  StoresInv'
<1>1. <<>> \in Code /\ more \in Code
  BY EndCodes
<1>2. more = more \o <<>>
  BY <1>1 DEF Code
<1>3. OnRest(more) \/ OnYield(more)
  BY DEF OnRest, OnYield
<1>4. Point(more)
  BY <1>3 DEF Point
<1> QED
  BY <1>1, <1>2, <1>4, Decided, Zenon

(* The end of task_delete and task_suspend.                                 *)
LEMMA ReschedStep ==
  ASSUME StoresInv, resched
  PROVE  StoresInv'
<1>1. At("resched")
  BY DEF resched, Decide
<1>2. OnResched(code)
  BY <1>1, ByOperation
<1>3. PICK s \in Slots : Calm /\ code = Then(<<"resched", s>>, <<>>)
  BY <1>2, EndCodes, Zenon DEF OnResched
<1>4. <<"resched", s>> \in Steps
  BY StepKinds, Zenon
<1>5. Decide("resched", <<>>) \/ Decide("resched", Yield)
  BY Zenon DEF resched, Yield
<1> QED
  BY <1>3, <1>4, <1>5, CalmEnd

(* The tick.                                                                *)
LEMMA TickStep ==
  ASSUME StoresInv, scheduler_tick
  PROVE  StoresInv'
<1>1. Decide("tick", <<>>) \/ Decide("tick", Yield)
  BY Zenon DEF scheduler_tick, Yield
<1>2. At("tick")
  BY <1>1 DEF Decide
<1>3. OnTick(code)
  BY <1>2, ByOperation
<1>4. <<"tick">> \in Steps
  BY StepKinds, Zenon
<1>5. Calm /\ code = Then(<<"tick">>, <<>>)
  BY <1>3, <1>4, CodeOne, Zenon DEF OnTick
<1> QED
  BY <1>1, <1>4, <1>5, CalmEnd

-----------------------------------------------------------------------------
(* The task API.                                                            *)

(* task_resume.                                                             *)
LEMMA ResumeStep ==
  ASSUME StoresInv, resume
  PROVE  StoresInv'
<1>1. At("resume")
  BY DEF resume
<1>2. OnResume(code)
  BY <1>1, ByOperation
<1>3. PICK id \in 1..MaxTaskId : Calm /\ code = << <<"resume", id>> >>
  BY <1>2 DEF OnResume, task_resume
<1>4. <<>> \in Code /\ <<"resume", id>> \in Steps
  BY EndCodes, StepKinds, Zenon
<1>5. code = Then(<<"resume", id>>, <<>>)
  BY <1>3, <1>4, CodeOne
<1>6. Operand(1) = id
  BY <1>3 DEF Operand
<1>7. ASSUME NEW s \in Slots, task_id[s] = id, state[s] = "SUSPENDED",
             Decide("resume", << <<"mark", s, "READY">>, <<"add", s>> >>)
      PROVE  StoresInv'
  <2> DEFINE u == Then(<<"add", s>>, <<>>)
             v == Then(<<"mark", s, "READY">>, u)
  <2>1. <<"mark", s, "READY">> \in Steps /\ <<"add", s>> \in Steps
    BY StepKinds, Zenon DEF K!TaskStates
  <2>2. << <<"mark", s, "READY">>, <<"add", s>> >> \o <<>> = v
    BY <1>4, <2>1, PrependedTwo, Zenon
  <2>3. v \in Code
    BY <1>4, <2>1, ThenFacts
  <2>4. task_id[s] # 0
    BY <1>7
  <2>5. OnMark(v)
    BY <1>3, <1>7, <2>4, Zenon DEF OnMark
  <2>6. Point(v)
    BY <2>5 DEF Point
  <2> QED
    BY <1>4, <1>5, <1>7, <2>2, <2>3, <2>6, Decided, Zenon
<1>8. CASE Decide("resume", <<>>)
  BY <1>3, <1>4, <1>5, <1>8, CalmEnd
<1> QED
  BY <1>6, <1>7, <1>8, Zenon DEF resume, K!task_get_tcb, K!HasId

(* task_delay.                                                              *)
LEMMA BlockStep ==
  ASSUME StoresInv, block
  PROVE  StoresInv'
<1>1. At("block")
  BY DEF block, Decide
<1>2. OnBlock(code) /\ DataTypeOK
  BY <1>1, ByOperation DEF StoresInv, Standing
<1>3. code = Then(<<"block">>, Yield) /\ Calm /\ current_task # NULL
  BY <1>2 DEF OnBlock
<1>4. PICK c : c = current_task
  OBVIOUS
<1>5. c \in Slots
  BY <1>2, <1>3, <1>4 DEF DataTypeOK
<1> DEFINE z == << <<"mark", c, "BLOCKED">>, <<"remove", c>> >>
           u == Then(<<"remove", c>>, Yield)
           v == Then(<<"mark", c, "BLOCKED">>, u)
<1>6. Decide("block", z)
  BY <1>4 DEF block
<1>7. /\ <<"mark", c, "BLOCKED">> \in Steps /\ <<"remove", c>> \in Steps
      /\ <<"block">> \in Steps /\ Yield \in Code
  BY <1>5, StepKinds, EndCodes, Zenon DEF K!TaskStates
<1>8. z \o Yield = v
  BY <1>7, PrependedTwo, Zenon
<1>9. v \in Code
  BY <1>7, ThenFacts
<1>10. OnMark(v)
  BY <1>3, <1>5, Zenon DEF OnMark
<1>11. Point(v)
  BY <1>10 DEF Point
<1> QED
  BY <1>3, <1>6, <1>7, <1>8, <1>9, <1>11, Decided, Zenon

(* task_delete and task_suspend.                                            *)
LEMMA StopStep ==
  ASSUME StoresInv, stop
  PROVE  StoresInv'
<1>1. At("stop")
  BY DEF stop
<1>2. OnStop(code)
  BY <1>1, ByOperation
<1>3. PICK id \in 1..MaxTaskId, st \in {"DELETED", "SUSPENDED"} :
        code = << <<"stop", id, st>> >> /\ Calm
  BY <1>2 DEF OnStop
<1>4. <<"stop", id, st>> \in Steps /\ <<>> \in Code
  BY StepKinds, CodeOne, Zenon
<1>5. code = Then(<<"stop", id, st>>, <<>>)
  BY <1>3, <1>4, CodeOne
<1>6. Operand(1) = id /\ Operand(2) = st
  BY <1>3 DEF Operand
<1>7. CASE Decide("stop", <<>>)
  BY <1>3, <1>4, <1>5, <1>7, CalmEnd
<1>8. ASSUME NEW s \in Slots, Decide("stop", StopSteps(s, st))
      PROVE  StoresInv'
  <2>1. Resched(s) \in Code
    BY EndCodes, Zenon
  <2>2. /\ <<"remove", s>> \in Steps /\ <<"mark", s, "DELETED">> \in Steps
        /\ <<"mark", s, "SUSPENDED">> \in Steps
    BY StepKinds, Zenon DEF K!TaskStates
  <2>3. Exact /\ But(s) /\ OneRuns
    BY <1>3 DEF Calm, Exact, But
  <2>4. CASE st = "DELETED"
    <3> DEFINE u == Then(<<"mark", s, "DELETED">>, Resched(s))
               v == Then(<<"remove", s>>, u)
    <3>1. u \in Code /\ v \in Code
      BY <2>1, <2>2, ThenFacts
    <3>2. StopSteps(s, st)
            = << <<"remove", s>>, <<"mark", s, "DELETED">> >> \o Resched(s)
      BY <2>4, Zenon DEF StopSteps, Resched
    <3>3. StopSteps(s, st) = v
      <4>1. PICK a, b : a = <<"remove", s>> /\ b = <<"mark", s, "DELETED">>
        BY Zenon
      <4>2. a \in Steps /\ b \in Steps
        BY <2>2, <4>1
      <4>3. <<a, b>> \o Resched(s) = Then(a, Then(b, Resched(s)))
        BY <2>1, <4>2, PrependedTwo
      <4> QED
        BY <3>2, <4>1, <4>3, Zenon
    <3>4. AfterRemove(s, u)
      BY <2>3 DEF AfterRemove
    <3>5. OnRemove(v)
      BY <2>3, <3>1, <3>4 DEF OnRemove
    <3>6. Point(v)
      BY <3>5 DEF Point
    <3>7. v = StopSteps(s, st) \o <<>>
      BY <3>1, <3>3 DEF Code
    <3> QED
      BY <1>4, <1>5, <1>8, <3>1, <3>6, <3>7, Decided, Zenon
  <2>5. CASE st = "SUSPENDED"
    <3> DEFINE u == Then(<<"remove", s>>, Resched(s))
               v == Then(<<"mark", s, "SUSPENDED">>, u)
    <3>1. v \in Code
      BY <2>1, <2>2, ThenFacts
    <3>2. StopSteps(s, st)
            = << <<"mark", s, "SUSPENDED">>, <<"remove", s>> >> \o Resched(s)
      BY <2>5, Zenon DEF StopSteps, Resched
    <3>3. StopSteps(s, st) = v
      <4>1. PICK a, b : a = <<"mark", s, "SUSPENDED">> /\ b = <<"remove", s>>
        BY Zenon
      <4>2. a \in Steps /\ b \in Steps
        BY <2>2, <4>1
      <4>3. <<a, b>> \o Resched(s) = Then(a, Then(b, Resched(s)))
        BY <2>1, <4>2, PrependedTwo
      <4> QED
        BY <3>2, <4>1, <4>3, Zenon
    <3>4. OnMark(v)
      BY <1>3, Zenon DEF OnMark
    <3>5. Point(v)
      BY <3>4 DEF Point
    <3>6. v = StopSteps(s, st) \o <<>>
      BY <3>1, <3>3 DEF Code
    <3> QED
      BY <1>4, <1>5, <1>8, <3>1, <3>5, <3>6, Decided, Zenon
  <2> QED
    BY <2>4, <2>5
<1> QED
  BY <1>6, <1>7, <1>8, Zenon DEF stop

(* task_create fills a TCB that is free, and so in no list and not RUNNING; *)
(* it may be the current one, deleted by itself.                            *)
LEMMA CreateStep ==
  ASSUME StoresInv, create
  PROVE  StoresInv'
<1>1. At("create")
  BY DEF create
<1>2. OnCreate(code) /\ DataTypeOK /\ CurrentLive
  BY <1>1, ByOperation DEF StoresInv, Standing
<1>3. PICK p \in Priorities : code = << <<"create", p>> >> /\ Calm
  BY <1>2 DEF OnCreate, task_create
<1>4. <<>> \in Code /\ <<"create", p>> \in Steps
  BY EndCodes, StepKinds, Zenon
<1>5. code = Then(<<"create", p>>, <<>>) /\ Operand(1) = p
  <2>1. code = Then(<<"create", p>>, <<>>)
    BY <1>3, <1>4, CodeOne
  <2> QED
    BY <1>3, <2>1 DEF Operand
<1>6. CASE Decide("create", <<>>)
  BY <1>3, <1>4, <1>5, <1>6, CalmEnd
<1>7. ASSUME NEW s \in Slots, K!FreeTcb(s), Create(s, p, next_task_id),
             next_task_id' = next_task_id + 1
      PROVE  StoresInv'
  <2>1. state[s] = "DELETED" \/ task_id[s] = 0
    BY <1>7 DEF K!FreeTcb
  <2>2. /\ task_id' = [task_id EXCEPT ![s] = next_task_id]
        /\ priority' = [priority EXCEPT ![s] = p]
        /\ state' = [state EXCEPT ![s] = "READY"]
        /\ next' = [next EXCEPT ![s] = NULL] /\ ready_lists' = ready_lists
        /\ current_tcb' = current_tcb /\ current_task' = current_task
        /\ scheduler_running' = scheduler_running
        /\ Proceed(<< <<"add", s>> >>)
    BY <1>7 DEF Create, current
  <2>3. DataTypeOK'
    BY <1>2, <1>7, <2>2 DEF DataTypeOK, K!TaskStates
  <2>4. /\ task_id'[s] = next_task_id /\ priority'[s] = p /\ state'[s] = "READY"
        /\ \A t \in Slots \ {s} : /\ task_id'[t] = task_id[t]
                                  /\ priority'[t] = priority[t]
                                  /\ state'[t] = state[t]
    BY <1>2, <2>2 DEF DataTypeOK
  <2>5. next_task_id # 0
    BY <1>2 DEF DataTypeOK
  <2>6. CurrentLive'
    BY <1>2, <2>2, <2>4, <2>5 DEF CurrentLive, DataTypeOK
  <2>7. WellLinked /\ ~Listed(s) /\ \A t \in Slots : Listed(t) <=> Ready(t)
    BY <1>3, <2>1 DEF Calm, Exact, Ready
  <2>8. /\ WellLinked' /\ ~Listed(s)'
        /\ \A t \in Slots \ {s} : Listed(t)' <=> Listed(t)
    BY <1>2, <2>2, <2>3, <2>4, <2>7, AddLists, Zenon DEF DataTypeOK
  <2>9. Without(s)' /\ Ready(s)'
    <3>1. \A t \in Slots \ {s} : Ready(t)' <=> Ready(t)
      BY <2>4 DEF Ready
    <3>2. Ready(s)'
      BY <2>4, <2>5 DEF Ready
    <3> QED
      BY <2>7, <2>8, <3>1, <3>2 DEF Without, But
  <2>10. OneRuns'
    BY <1>3, <2>2, <2>4 DEF OneRuns, Calm
  <2> DEFINE w == Then(<<"add", s>>, <<>>)
  <2>11. w \in Code /\ w = << <<"add", s>> >> \o <<>>
    BY <1>4, StepKinds, ThenFacts, Prepended, Zenon
  <2>12. code' = w
    BY <1>4, <1>5, <2>2, <2>11, StepTaken, Zenon
  <2>13. AfterAdd(s, <<>>)'
    BY <2>10 DEF AfterAdd
  <2>14. OnAdd(w)'
    BY <1>4, <2>9, <2>13 DEF OnAdd
  <2> QED
    BY <2>3, <2>6, <2>11, <2>12, <2>14, Lands DEF Point, Standing
<1>8. \/ Decide("create", <<>>)
      \/ \E s \in Slots : /\ K!FreeTcb(s) /\ Create(s, p, next_task_id)
                          /\ next_task_id' = next_task_id + 1
  BY <1>5 DEF create, Decide
<1> QED
  BY <1>6, <1>7, <1>8

(* scheduler_start goes on to its first dispatch.                           *)
LEMMA StartStep ==
  ASSUME StoresInv, scheduler_start
  PROVE  StoresInv'
<1>1. At("start")
  BY DEF scheduler_start
<1>2. OnStart(code) /\ DataTypeOK /\ CurrentLive
  BY <1>1, ByOperation DEF StoresInv, Standing
<1>3. code = << <<"start">> >> /\ Calm /\ current_tcb = NULL
  BY <1>2 DEF OnStart
<1>4. /\ scheduler_running' = TRUE /\ Proceed(<< <<"schedule">> >>)
      /\ UNCHANGED tcbs /\ SameLinks
      /\ current_tcb' = current_tcb /\ current_task' = current_task
      /\ next_task_id' = next_task_id
      /\ state' = state /\ priority' = priority /\ task_id' = task_id
  BY DEF scheduler_start, SameLinks, links, current, tcbs
<1>5. DataTypeOK' /\ CurrentLive'
  BY <1>2, <1>3, <1>4 DEF DataTypeOK, SameLinks, CurrentLive
<1>6. Schedule \in Code /\ Schedule \o <<>> = Schedule
  BY EndCodes DEF Code
<1>7. code' = Schedule
  <2>1. <<"start">> \in Steps /\ <<>> \in Code
    BY StepKinds, CodeOne
  <2>2. code = Then(<<"start">>, <<>>)
    BY <1>3, <2>1, CodeOne, Zenon
  <2>3. Proceed(Schedule)
    BY <1>4, Zenon DEF Schedule
  <2> QED
    BY <1>6, <2>1, <2>2, <2>3, StepTaken, Zenon
<1>8. OnSchedule(Schedule)'
  <2>1. Exact'
    BY <1>3, <1>4, CurrentLists DEF Calm
  <2>2. NoneRuns'
    <3>1. \A s \in Slots : s # NULL
      BY StoresAssumption DEF Slots, NULL
    <3> QED
      BY <1>3, <1>4, <3>1, Zenon DEF Calm, OneRuns, NoneRuns
  <2> QED
    BY <1>4, <2>1, <2>2 DEF OnSchedule
<1> QED
  BY <1>5, <1>6, <1>7, <1>8, Lands DEF Point, Standing

(* A call is entered between calls.                                         *)
LEMMA KernelCallStep ==
  ASSUME StoresInv, KernelCall
  PROVE  StoresInv'
<1>1. ASSUME NEW w \in Code, call(w), Point(w) PROVE StoresInv'
  <2>1. SameTasks /\ SameLinks /\ code' = w
    BY <1>1 DEF call, SameTasks, SameLinks, tcbs, links, current, others
  <2>2. Standing'
    BY <2>1, TasksKept DEF StoresInv, Standing, DataTypeOK, SameTasks, SameLinks
  <2>3. Point(w)'
    BY <1>1, <2>1, PointKept
  <2> QED
    BY <2>1, <2>2, <2>3, Lands
<1>2. ASSUME NEW w, call(w) PROVE Calm
  <2>1. AtRest
    BY <1>2 DEF call
  <2> QED
    BY <2>1, ByOperation DEF OnRest
<1>3. ASSUME NEW p \in Priorities, call(task_create(p)) PROVE StoresInv'
  <2>1. task_create(p) \in Code
    BY StepKinds, CodeOne, Zenon DEF task_create
  <2>2. OnCreate(task_create(p))
    BY <1>2, <1>3 DEF OnCreate
  <2> QED
    BY <1>1, <1>3, <2>1, <2>2 DEF Point
<1>4. ASSUME NEW id \in 1..MaxTaskId, NEW st \in {"DELETED", "SUSPENDED"},
             call(<< <<"stop", id, st>> >>)
      PROVE  StoresInv'
  <2> DEFINE w == << <<"stop", id, st>> >>
  <2>1. <<"stop", id, st>> \in Steps
    BY StepKinds, Zenon
  <2>2. w \in Code
    BY <2>1, CodeOne, Zenon
  <2>3. OnStop(w)
    BY <1>2, <1>4 DEF OnStop
  <2> QED
    BY <1>1, <1>4, <2>2, <2>3 DEF Point
<1>5. ASSUME NEW id \in 1..MaxTaskId, call(task_resume(id)) PROVE StoresInv'
  <2>1. task_resume(id) \in Code
    BY StepKinds, CodeOne, Zenon DEF task_resume
  <2>2. OnResume(task_resume(id))
    BY <1>2, <1>5 DEF OnResume
  <2> QED
    BY <1>1, <1>5, <2>1, <2>2 DEF Point
<1>6. ASSUME current_task # NULL, call(task_delay) PROVE StoresInv'
  <2>1. task_delay = Then(<<"block">>, Yield) /\ task_delay \in Code
    BY StepKinds, CodeTwo, Zenon DEF task_delay, Yield
  <2>2. OnBlock(task_delay)
    BY <1>2, <1>6, <2>1 DEF OnBlock
  <2> QED
    BY <1>1, <1>6, <2>1, <2>2 DEF Point
<1>7. ASSUME call(task_yield) PROVE StoresInv'
  <2>1. task_yield = Yield /\ task_yield \in Code
    BY EndCodes DEF task_yield, Yield
  <2>2. OnYield(task_yield)
    BY <1>2, <1>7, <2>1 DEF OnYield
  <2> QED
    BY <1>1, <1>7, <2>1, <2>2 DEF Point
<1>8. ASSUME call(<< <<"tick">> >>) PROVE StoresInv'
  <2> DEFINE w == << <<"tick">> >>
  <2>1. w \in Code
    BY StepKinds, CodeOne, Zenon
  <2>2. OnTick(w)
    BY <1>2, <1>8 DEF OnTick
  <2> QED
    BY <1>1, <1>8, <2>1, <2>2 DEF Point
<1>9. ASSUME ~scheduler_running, call(<< <<"start">> >>) PROVE StoresInv'
  <2> DEFINE w == << <<"start">> >>
  <2>1. w \in Code
    BY StepKinds, CodeOne, Zenon
  <2>2. current_tcb = NULL
    BY <1>9 DEF StoresInv, Standing, CurrentLive
  <2>3. OnStart(w)
    BY <1>2, <1>9, <2>2 DEF OnStart
  <2> QED
    BY <1>1, <1>9, <2>1, <2>3 DEF Point
<1>10. \/ \E p \in Priorities : call(task_create(p))
       \/ \E id \in 1..MaxTaskId : \/ call(<< <<"stop", id, "DELETED">> >>)
                                   \/ call(<< <<"stop", id, "SUSPENDED">> >>)
                                   \/ call(task_resume(id))
       \/ current_task # NULL /\ call(task_delay)
       \/ call(task_yield)
       \/ call(<< <<"tick">> >>)
       \/ ~scheduler_running /\ call(<< <<"start">> >>)
  BY Zenon DEF KernelCall, task_delete, task_suspend
<1> QED
  BY <1>3, <1>4, <1>5, <1>6, <1>7, <1>8, <1>9, <1>10

-----------------------------------------------------------------------------
(* The invariant and what it says between calls.                            *)

(* At the start no list has a task and nothing is to be done.               *)
LEMMA InitInv ==
  ASSUME StoresInit
  PROVE  StoresInv
<1>1. DataTypeOK
  BY StoresAssumption DEF StoresInit, DataTypeOK, K!TaskStates, Slots, Priorities, NULL
<1>2. CurrentLive
  BY DEF StoresInit, CurrentLive
<1>3. ASSUME NEW p \in Priorities
      PROVE  Linked(next, ready_lists[p], <<>>) /\ List(p) = <<>>
  <2>1. Linked(next, ready_lists[p], <<>>)
    BY <1>3 DEF StoresInit, Linked
  <2>2. next \in [Slots -> Slots \cup {NULL}]
    BY <1>1 DEF DataTypeOK
  <2> QED
    BY <2>1, <2>2, ChainLinked DEF List
<1>4. WellLinked
  BY <1>3 DEF WellLinked
<1>5. \A t \in Slots : ~Listed(t) /\ ~Ready(t)
  <2>1. \A t \in Slots : priority[t] \in Priorities /\ task_id[t] = 0
    BY <1>1 DEF DataTypeOK, StoresInit
  <2> QED
    BY <1>3, <2>1 DEF Listed, Ready
<1>6. OnRest(code)
  BY <1>4, <1>5 DEF StoresInit, OnRest, Calm, Exact, OneRuns
<1>7. code \in Code
  BY CodeOne DEF StoresInit
<1> QED
  BY <1>1, <1>2, <1>6, <1>7 DEF StoresInv, Standing, Point

(* Every step keeps it.                                                     *)
LEMMA NextInv ==
  ASSUME StoresInv, [StoresNext]_storesVars
  PROVE  StoresInv'
<1>1. CASE KernelCall
  BY <1>1, KernelCallStep
<1>2. CASE Step
  BY <1>2, AddStep, LinkStep, RemoveStep, UnlinkStep, MarkStep, ScheduleStep,
     SwitchStep, SetStep, YieldStep, RequeueStep, TickStep, StartStep,
     CreateStep, StopStep, ReschedStep, ResumeStep, BlockStep DEF Step
<1>3. CASE UNCHANGED storesVars
  <2>1. SameTasks /\ SameLinks /\ code' = code
    BY <1>3 DEF storesVars, SameTasks, SameLinks, tcbs, links, current, others
  <2>2. Standing'
    BY <2>1, TasksKept DEF StoresInv, Standing, DataTypeOK, SameTasks, SameLinks
  <2>3. PICK w \in Code : w = code /\ Point(w)
    BY DEF StoresInv
  <2>4. Point(w)'
    BY <2>1, <2>3, PointKept
  <2> QED
    BY <2>1, <2>2, <2>3, <2>4, Lands
<1> QED
  BY <1>1, <1>2, <1>3 DEF StoresNext

(* Before every store of every call of task.c and scheduler.c, the lists,   *)
(* the RUNNING task and the code the call has left fit each other.          *)
THEOREM StoresInvariant == StoresSpec => []StoresInv
<1>1. StoresInit => StoresInv
  BY InitInv
<1>2. StoresInv /\ [StoresNext]_storesVars => StoresInv'
  BY NextInv
<1> QED
  BY <1>1, <1>2, PTL DEF StoresSpec

(* For any number of tasks and priorities, when a call of task.c or         *)
(* scheduler.c has relinked its pointers the chain of each priority holds   *)
(* the READY tasks of that priority, once each, and ends.                   *)
THEOREM ListsIntactHolds == StoresSpec => []ListsIntact
<1>1. ASSUME StoresInv, AtRest PROVE K!ReadyListsExact
  <2>1. Exact /\ DataTypeOK
    BY <1>1, ByOperation DEF OnRest, Calm, StoresInv, Standing
  <2>2. \A p \in Priorities :
          /\ \A i, j \in 1..Len(List(p)) : List(p)[i] = List(p)[j] => i = j
          /\ \A i \in 1..Len(List(p)) : priority[List(p)[i]] = p
    BY <2>1 DEF Exact, WellLinked, Linked
  <2>3. \A p \in Priorities, s \in Slots :
          (\E i \in 1..Len(List(p)) : List(p)[i] = s)
            <=> task_id[s] # 0 /\ state[s] = "READY" /\ priority[s] = p
    BY <2>1, <2>2 DEF Exact, Listed, Ready
  <2> QED
    BY <2>2, <2>3 DEF K!ReadyListsExact, K!NoDuplicates, K!Contains,
                      K!Priorities, K!Slots, Priorities, Slots
<1>2. StoresInv => ListsIntact
  BY <1>1 DEF ListsIntact
<1> QED
  BY <1>2, StoresInvariant, PTL

(* The stores to state, current_tcb and current_task that a call makes one  *)
(* after another leave one RUNNING task at most, the one that task.c and    *)
(* scheduler.c both call current.                                           *)
THEOREM OneRunningHolds == StoresSpec => []OneRunningAtRest
<1>1. ASSUME StoresInv, AtRest PROVE K!OneRunning
  BY <1>1, ByOperation
     DEF OnRest, Calm, OneRuns, StoresInv, Standing, CurrentLive, K!OneRunning,
         K!Slots, K!NULL, Slots, NULL
<1>2. StoresInv => OneRunningAtRest
  BY <1>1 DEF OneRunningAtRest
<1> QED
  BY <1>2, StoresInvariant, PTL
=============================================================================
