---------------------------- MODULE ThreadProofs ----------------------------
(***************************************************************************)
(* The two protocols between the threads of a parallel search.               *)
(* The worker pool, for any finite number of workers, any set of nodes, and   *)
(* any combination of refused threads and panics.  The proof is one inductive *)
(* invariant, IInv: the properties of WorkerPool and facts about where a       *)
(* thread is when it holds nodes, when it asks for the end, and when it knows  *)
(* that the pool is stopped.                                                 *)
(* The search-wide incumbent, for any threads and any candidates, with every *)
(* stale load the memory model allows: the mirror strictly decreases, the    *)
(* best candidate survives, and the whole implements the atomic register.    *)
(* Its inductive invariant, IncumbentInv, says who may hold the lock, how far *)
(* the two atomics may be behind the incumbent, and what each thread knows.   *)
(***************************************************************************)
EXTENDS WorkerPool, SharedIncumbent, FiniteSetTheorems, SequenceTheorems, TLAPS

\* A worker holds nodes only between taking one and handing the rest back.
HoldWhere ==
  \A w \in Workers :
    hold[w] # {} =>
      pc[w] \in {"fetch", "work", "publish", "halt", "haltBell", "tail"}

\* Only a worker that asked for the end of the search halts.
HaltWanted ==
  \A w \in Workers : pc[w] \in {"halt", "haltBell"} => w \in wantStop

\* Nobody leaves its loop, nor is a spawn given up, before the pool is stopped.
LeftStopped ==
  /\ \A w \in Workers :
       pc[w] \in {"haltBell", "tail", "tailBell", "guard", "guardBell",
                  "unwindBell", "exited", "dead"} => stopped
  /\ mainPc \in {"refused", "refusedBell", "failed"} => stopped

\* The main thread joins when all workers are born and returns when all ended.
MainWhere ==
  /\ mainPc \in {"join", "returned"} => \A w \in Workers : pc[w] # "unborn"
  /\ mainPc = "returned" => \A w \in Workers : pc[w] = "exited"

Phases == HoldWhere /\ HaltWanted /\ LeftStopped /\ MainWhere

IInv ==
  /\ TypeOK
  /\ IdleIsWaiting
  /\ NoLostWakeup
  /\ QuietTermination
  /\ Phases

-----------------------------------------------------------------------------
(* The idle counter *)

\* What pop_blocking sees of the counter counts the other sleepers.
LEMMA OthersCounted ==
  ASSUME TypeOK, IdleIsWaiting, NEW w \in Workers
  PROVE  /\ Others(w) = Cardinality(waiting \ {w})
         /\ Others(w) \in Nat
         /\ Others(w) + 1 = Cardinality(waiting \cup {w})
<1>1. IsFiniteSet(waiting)
  BY WorkersAssumption, FS_Subset DEF TypeOK
<1>2. IsFiniteSet(waiting \ {w}) /\ Cardinality(waiting) \in Nat
  BY <1>1, FS_RemoveElement, FS_CardinalityType
<1>3. Cardinality(waiting \ {w}) \in Nat
  BY <1>2, FS_CardinalityType
<1>4. Cardinality(waiting \ {w}) =
        IF w \in waiting THEN Cardinality(waiting) - 1 ELSE Cardinality(waiting)
  BY <1>1, FS_RemoveElement
<1>5. Cardinality(waiting \cup {w}) =
        IF w \in waiting THEN Cardinality(waiting) ELSE Cardinality(waiting) + 1
  BY <1>1, FS_AddElement
<1> QED
  BY <1>2, <1>3, <1>4, <1>5 DEF Others, IdleIsWaiting

\* When the last worker goes idle, every other one is asleep.
LEMMA AllOthersWait ==
  ASSUME TypeOK, IdleIsWaiting, NEW w \in Workers,
         Others(w) + 1 = Cardinality(Workers)
  PROVE  \A v \in Workers \ {w} : pc[v] = "wait"
<1>1. Cardinality(Workers) = Cardinality(waiting \cup {w})
  BY OthersCounted
<1>2. waiting \cup {w} \in SUBSET Workers
  BY DEF TypeOK
<1>3. Workers = waiting \cup {w}
  BY <1>1, <1>2, WorkersAssumption, FS_Subset
<1> QED
  BY <1>3 DEF IdleIsWaiting

-----------------------------------------------------------------------------
(* Initial states *)

\* It holds before the first thread is spawned, with the root in the pool.
LEMMA InitOK == Init => IInv
<1> SUFFICES ASSUME Init PROVE IInv
  OBVIOUS
<1> USE DEF Init, PoolInit
<1>1. TypeOK
  BY NodeAssumption DEF TypeOK, MainPc, WorkerPc
<1>2. IdleIsWaiting
  BY FS_EmptySet DEF IdleIsWaiting
<1>3. NoLostWakeup /\ QuietTermination
  BY DEF NoLostWakeup, QuietTermination
<1>4. HoldWhere /\ HaltWanted /\ LeftStopped /\ MainWhere
  BY DEF HoldWhere, HaltWanted, LeftStopped, MainWhere
<1> QED
  BY <1>1, <1>2, <1>3, <1>4 DEF IInv, Phases

-----------------------------------------------------------------------------
(* Steps: each part of the invariant is preserved *)

\* The types.  Only pop_blocking touches the counter, and it never takes it
\* below zero.
LEMMA TypeStep ==
  ASSUME TypeOK, IdleIsWaiting, [Next]_vars
  PROVE  TypeOK'
<1> USE DEF TypeOK, poolVars
<1>1. ASSUME NEW w \in Workers, Spawn(w) PROVE TypeOK'
  BY <1>1 DEF Spawn, Goto, WorkerPc
<1>2. CASE Refuse
  BY <1>2 DEF Refuse, SetStopped, MainPc
<1>3. CASE RefuseBell
  BY <1>3 DEF RefuseBell, NotifyAll, MainPc
<1>4. CASE AllSpawned
  BY <1>4 DEF AllSpawned, MainPc
<1>5. CASE Join
  BY <1>5 DEF Join, MainPc
<1>6. ASSUME NEW w \in Workers, Pop(w) PROVE TypeOK'
  <2>1. Others(w) \in Nat
    BY OthersCounted
  <2>2. CASE TakeShared(w)
    BY <2>1, <2>2 DEF TakeShared, PopNode, LeaveWait, WorkerPc
  <2>3. CASE Sleep(w)
    BY <2>1, <2>3 DEF Sleep, PopWait, WorkerPc
  <2>4. CASE LeaveLoop(w)
    BY <2>1, <2>4 DEF LeaveLoop, PopStopped, PopAllIdle, LeaveWait, WorkerPc
  <2> QED
    BY <1>6, <2>2, <2>3, <2>4 DEF Pop
<1>7. ASSUME NEW w \in Workers, TakeOwn(w) PROVE TypeOK'
  BY <1>7 DEF TakeOwn, Goto, WorkerPc
<1>8. ASSUME NEW w \in Workers, NEW node \in hold[w],
             NEW children \in SUBSET Below[node], Process(w, node, children)
      PROVE  TypeOK'
  <2>1. Below[node] \subseteq Node
    BY NodeAssumption
  <2>2. (hold[w] \ {node}) \cup children \in SUBSET Node
    BY <2>1
  <2>3. pc' \in [Workers -> WorkerPc] /\ wantStop' \subseteq Workers
    BY <1>8 DEF Process, WorkerPc
  <2>4. hold' \in [Workers -> SUBSET Node]
    BY <1>8, <2>2 DEF Process
  <2> QED
    BY <1>8, <2>3, <2>4 DEF Process
<1>9. ASSUME NEW w \in Workers, Publish(w) PROVE TypeOK'
  BY <1>9 DEF Publish, Deposit, WorkerPc
<1>10. ASSUME NEW w \in Workers, PublishNothing(w) PROVE TypeOK'
  BY <1>10 DEF PublishNothing, WorkerPc
<1>11. ASSUME NEW w \in Workers, Bell(w) PROVE TypeOK'
  BY <1>11 DEF Bell, AfterBell, NotifyAll, WorkerPc
<1>12. ASSUME NEW w \in Workers, Stop(w) PROVE TypeOK'
  BY <1>12 DEF Stop, BeforeBell, SetStopped, WorkerPc
<1>13. ASSUME NEW w \in Workers, Panic(w) PROVE TypeOK'
  BY <1>13 DEF Panic, Goto, WorkerPc
<1>14. CASE UNCHANGED vars
  BY <1>14 DEF vars
<1> QED
  BY <1>1, <1>2, <1>3, <1>4, <1>5, <1>6, <1>7, <1>8, <1>9, <1>10, <1>11,
     <1>12, <1>13, <1>14 DEF Next, Main, Work, Finished

\* The counter is the number of sleepers.
LEMMA IdleStep ==
  ASSUME TypeOK, IdleIsWaiting, [Next]_vars
  PROVE  IdleIsWaiting'
<1> USE DEF TypeOK, IdleIsWaiting, poolVars
<1>1. ASSUME NEW w \in Workers, Spawn(w) PROVE IdleIsWaiting'
  BY <1>1 DEF Spawn, Goto
<1>2. CASE Main
  BY <1>2 DEF Main, Refuse, RefuseBell, AllSpawned, Join, SetStopped, NotifyAll
<1>3. ASSUME NEW w \in Workers, Pop(w) PROVE IdleIsWaiting'
  <2>1. /\ Others(w) = Cardinality(waiting \ {w})
        /\ Others(w) + 1 = Cardinality(waiting \cup {w})
    BY OthersCounted
  <2>2. CASE TakeShared(w)
    BY <2>1, <2>2 DEF TakeShared, PopNode, LeaveWait
  <2>3. CASE Sleep(w)
    BY <2>1, <2>3 DEF Sleep, PopWait
  <2>4. CASE LeaveLoop(w)
    BY <2>1, <2>4 DEF LeaveLoop, PopStopped, PopAllIdle, LeaveWait
  <2> QED
    BY <1>3, <2>2, <2>3, <2>4 DEF Pop
<1>4. ASSUME NEW w \in Workers, Work(w) PROVE IdleIsWaiting'
  <2>1. CASE TakeOwn(w)
    BY <2>1 DEF TakeOwn, Goto
  <2>2. ASSUME NEW node, NEW children, Process(w, node, children)
        PROVE  IdleIsWaiting'
    BY <2>2 DEF Process
  <2>3. CASE Publish(w)
    BY <2>3 DEF Publish, Deposit
  <2>4. CASE PublishNothing(w)
    BY <2>4 DEF PublishNothing
  <2>5. CASE Bell(w)
    BY <2>5 DEF Bell, AfterBell, NotifyAll
  <2>6. CASE Stop(w)
    BY <2>6 DEF Stop, BeforeBell, SetStopped
  <2>7. CASE Panic(w)
    BY <2>7 DEF Panic, Goto
  <2> QED
    BY <1>4, <2>1, <2>2, <2>3, <2>4, <2>5, <2>6, <2>7 DEF Work
<1>5. CASE UNCHANGED vars
  BY <1>5 DEF vars
<1> QED
  BY <1>1, <1>2, <1>3, <1>4, <1>5 DEF Next, Finished

\* Every critical section that gives a sleeper a reason to wake up is followed
\* by its notification, and no other step takes a notification back.
LEMMA WakeupStep ==
  ASSUME TypeOK, IdleIsWaiting, NoLostWakeup, [Next]_vars
  PROVE  NoLostWakeup'
<1> USE DEF TypeOK, IdleIsWaiting, NoLostWakeup, BellPending, AfterBell, poolVars
<1>1. ASSUME NEW w \in Workers, Spawn(w) PROVE NoLostWakeup'
  BY <1>1 DEF Spawn, Goto
<1>2. CASE Main
  <2>1. CASE Refuse
    BY <2>1 DEF Refuse
  <2>2. CASE RefuseBell
    BY <2>2 DEF RefuseBell, NotifyAll
  <2>3. CASE AllSpawned
    BY <2>3 DEF AllSpawned
  <2>4. CASE Join
    BY <2>4 DEF Join
  <2> QED
    BY <1>2, <2>1, <2>2, <2>3, <2>4 DEF Main
<1>3. ASSUME NEW w \in Workers, Pop(w) PROVE NoLostWakeup'
  <2>1. CASE TakeShared(w)
    BY <2>1 DEF TakeShared, AtPop, PopNode, LeaveWait
  <2>2. CASE Sleep(w)
    BY <2>2 DEF Sleep, PopWait
  <2>3. CASE LeaveLoop(w)
    BY <2>3 DEF LeaveLoop, AtPop, PopStopped, PopAllIdle, LeaveWait
  <2> QED
    BY <1>3, <2>1, <2>2, <2>3 DEF Pop
<1>4. ASSUME NEW w \in Workers, Work(w) PROVE NoLostWakeup'
  <2>1. CASE TakeOwn(w)
    BY <2>1 DEF TakeOwn, Goto
  <2>2. ASSUME NEW node, NEW children, Process(w, node, children)
        PROVE  NoLostWakeup'
    BY <2>2 DEF Process
  <2>3. CASE Publish(w)
    BY <2>3 DEF Publish, Deposit
  <2>4. CASE PublishNothing(w)
    BY <2>4 DEF PublishNothing
  <2>5. CASE Bell(w)
    BY <2>5 DEF Bell, NotifyAll
  <2>6. CASE Stop(w)
    BY <2>6 DEF Stop, BeforeBell, SetStopped
  <2>7. CASE Panic(w)
    BY <2>7 DEF Panic, Goto
  <2> QED
    BY <1>4, <2>1, <2>2, <2>3, <2>4, <2>5, <2>6, <2>7 DEF Work
<1>5. CASE UNCHANGED vars
  BY <1>5 DEF vars
<1> QED
  BY <1>1, <1>2, <1>3, <1>4, <1>5 DEF Next, Finished

\* Where a thread is says what it holds, what it asked for and what it knows.
LEMMA PhasesStep ==
  ASSUME TypeOK, Phases, [Next]_vars
  PROVE  Phases'
<1> USE DEF TypeOK, Phases, HoldWhere, HaltWanted, LeftStopped, MainWhere,
            poolVars
<1>1. ASSUME NEW w \in Workers, Spawn(w) PROVE Phases'
  BY <1>1 DEF Spawn, Goto
<1>2. CASE Main
  <2>1. CASE Refuse
    BY <2>1 DEF Refuse, SetStopped
  <2>2. CASE RefuseBell
    BY <2>2 DEF RefuseBell, NotifyAll
  <2>3. CASE AllSpawned
    BY <2>3 DEF AllSpawned
  <2>4. CASE Join
    BY <2>4 DEF Join
  <2> QED
    BY <1>2, <2>1, <2>2, <2>3, <2>4 DEF Main
<1>3. ASSUME NEW w \in Workers, Pop(w) PROVE Phases'
  <2>1. CASE TakeShared(w)
    BY <2>1 DEF TakeShared, AtPop, PopNode, LeaveWait
  <2>2. CASE Sleep(w)
    BY <2>2 DEF Sleep, AtPop, PopWait
  <2>3. CASE LeaveLoop(w)
    BY <2>3 DEF LeaveLoop, AtPop, PopStopped, PopAllIdle, LeaveWait
  <2> QED
    BY <1>3, <2>1, <2>2, <2>3 DEF Pop
<1>4. ASSUME NEW w \in Workers, Work(w) PROVE Phases'
  <2>1. CASE TakeOwn(w)
    BY <2>1 DEF TakeOwn, Goto
  <2>2. ASSUME NEW node, NEW children, Process(w, node, children)
        PROVE  Phases'
    BY <2>2 DEF Process
  <2>3. CASE Publish(w)
    BY <2>3 DEF Publish, Deposit
  <2>4. CASE PublishNothing(w)
    BY <2>4 DEF PublishNothing
  <2>5. CASE Bell(w)
    BY <2>5 DEF Bell, AfterBell, NotifyAll
  <2>6. CASE Stop(w)
    BY <2>6 DEF Stop, BeforeBell, SetStopped
  <2>7. CASE Panic(w)
    BY <2>7 DEF Panic, Goto
  <2> QED
    BY <1>4, <2>1, <2>2, <2>3, <2>4, <2>5, <2>6, <2>7 DEF Work
<1>5. CASE UNCHANGED vars
  BY <1>5 DEF vars
<1> QED
  BY <1>1, <1>2, <1>3, <1>4, <1>5 DEF Next, Finished

\* A search that was cut short stays cut short.
LEMMA CutStays ==
  ASSUME TypeOK, Cut, [Next]_vars
  PROVE  Cut'
<1> USE DEF TypeOK, Cut, poolVars
<1>1. ASSUME NEW w \in Workers, Spawn(w) PROVE Cut'
  BY <1>1 DEF Spawn, Goto
<1>2. CASE Main
  BY <1>2 DEF Main, Refuse, RefuseBell, AllSpawned, Join
<1>3. ASSUME NEW w \in Workers, Pop(w) PROVE Cut'
  BY <1>3 DEF Pop, TakeShared, Sleep, LeaveLoop, AtPop
<1>4. ASSUME NEW w \in Workers, Work(w) PROVE Cut'
  <2>1. CASE TakeOwn(w) \/ Panic(w)
    BY <2>1 DEF TakeOwn, Panic, Goto
  <2>2. ASSUME NEW node, NEW children, Process(w, node, children)
        PROVE  Cut'
    BY <2>2 DEF Process
  <2>3. CASE Publish(w) \/ PublishNothing(w)
    BY <2>3 DEF Publish, PublishNothing
  <2>4. CASE Bell(w) \/ Stop(w)
    BY <2>4 DEF Bell, AfterBell, Stop, BeforeBell
  <2> QED
    BY <1>4, <2>1, <2>2, <2>3, <2>4 DEF Work
<1>5. CASE UNCHANGED vars
  BY <1>5 DEF vars
<1> QED
  BY <1>1, <1>2, <1>3, <1>4, <1>5 DEF Next, Finished

\* The heart of the protocol.  A pool that is stopped in silence was stopped by
\* a worker that found the pool empty and saw all the others asleep; sleepers
\* hold nothing, so no node is left anywhere and none can appear again.
LEMMA QuietStep ==
  ASSUME TypeOK, IdleIsWaiting, QuietTermination, Phases, [Next]_vars
  PROVE  QuietTermination'
<1> SUFFICES ASSUME stopped', ~Cut'
             PROVE  heap' = {} /\ \A v \in Workers : hold'[v] = {}
  BY DEF QuietTermination
<1> USE DEF TypeOK, poolVars
<1>1. ~Cut
  BY CutStays
<1>2. CASE stopped
  <2>1. heap = {} /\ \A v \in Workers : hold[v] = {}
    BY <1>1, <1>2 DEF QuietTermination
  <2>2. ASSUME NEW w \in Workers, Spawn(w) PROVE heap' = heap /\ hold' = hold
    BY <2>2 DEF Spawn
  <2>3. CASE Main
    BY <2>1, <2>3 DEF Main, Refuse, RefuseBell, AllSpawned, Join, SetStopped,
                      NotifyAll
  <2>4. ASSUME NEW w \in Workers, Pop(w) PROVE heap' = heap /\ hold' = hold
    BY <1>2, <2>4 DEF Pop, TakeShared, Sleep, LeaveLoop, PopNode, PopWait,
                      PopStopped, PopAllIdle
  <2>5. ASSUME NEW w \in Workers, Work(w)
        PROVE  heap' = {} /\ \A v \in Workers : hold'[v] = {}
    <3>1. hold[w] = {}
      BY <2>1
    <3>2. CASE TakeOwn(w) \/ Publish(w)
      BY <3>1, <3>2 DEF TakeOwn, Publish
    <3>3. CASE Panic(w)
      BY <2>1, <3>3 DEF Panic
    <3>4. CASE PublishNothing(w) \/ Bell(w) \/ Stop(w)
      BY <2>1, <3>4 DEF PublishNothing, Bell, Stop, NotifyAll, SetStopped
    <3> QED
      BY <2>5, <3>1, <3>2, <3>3, <3>4 DEF Work
  <2>6. CASE UNCHANGED vars
    BY <2>1, <2>6 DEF vars
  <2> QED
    BY <2>1, <2>2, <2>3, <2>4, <2>5, <2>6 DEF Next, Finished
<1>3. CASE ~stopped
  <2>1. PICK w \in Workers : LeaveLoop(w) /\ PopAllIdle(w)
    <3>1. ~Refuse
      BY DEF Refuse, Cut
    <3>2. ASSUME NEW w \in Workers, Stop(w) PROVE FALSE
      BY <1>1, <1>3, <3>2 DEF Stop, BeforeBell, Cut, Phases, HaltWanted,
                              LeftStopped
    <3>3. ASSUME NEW w \in Workers, Work(w) PROVE stopped' = stopped
      <4>1. CASE TakeOwn(w) \/ Panic(w)
        BY <4>1 DEF TakeOwn, Panic
      <4>2. ASSUME NEW node, NEW children, Process(w, node, children)
            PROVE  stopped' = stopped
        BY <4>2 DEF Process
      <4>3. CASE Publish(w) \/ PublishNothing(w) \/ Bell(w)
        BY <4>3 DEF Publish, Deposit, PublishNothing, Bell, NotifyAll
      <4> QED
        BY <3>2, <3>3, <4>1, <4>2, <4>3 DEF Work
    <3>4. ASSUME NEW w \in Workers, Pop(w), stopped'
          PROVE  LeaveLoop(w) /\ PopAllIdle(w)
      BY <1>3, <3>4 DEF Pop, TakeShared, Sleep, LeaveLoop, PopNode, PopWait,
                        PopStopped
    <3>5. ASSUME Main \/ UNCHANGED vars PROVE stopped' = stopped
      BY <3>1, <3>5 DEF Main, RefuseBell, AllSpawned, Join, NotifyAll, vars
    <3>6. ASSUME NEW w \in Workers, Spawn(w) PROVE stopped' = stopped
      BY <3>6 DEF Spawn
    <3> QED
      BY <1>3, <3>3, <3>4, <3>5, <3>6 DEF Next, Finished
  <2>2. \A v \in Workers \ {w} : pc[v] = "wait"
    BY <2>1, AllOthersWait DEF PopAllIdle
  <2>3. AtPop(w)
    BY <2>1 DEF LeaveLoop
  <2>4. \A v \in Workers : hold[v] = {}
    BY <2>2, <2>3 DEF AtPop, Phases, HoldWhere
  <2>5. heap' = {} /\ hold' = hold
    BY <2>1 DEF LeaveLoop, PopAllIdle
  <2> QED
    BY <2>4, <2>5
<1> QED
  BY <1>2, <1>3

-----------------------------------------------------------------------------
(* The theorems *)

\* Every critical section, notification and fault preserves it.
LEMMA InvStep == IInv /\ [Next]_vars => IInv'
  BY TypeStep, IdleStep, WakeupStep, PhasesStep, QuietStep DEF IInv, Phases

\* IInv is an invariant of the worker pool.
THEOREM Invariance == Spec => []IInv
<1>1. Init => IInv
  BY InitOK
<1>2. IInv /\ [Next]_vars => IInv'
  BY InvStep
<1> QED
  BY <1>1, <1>2, PTL DEF Spec

\* The state of the pool and of the threads always has its type.
THEOREM TypeCorrect == Spec => []TypeOK
<1>1. IInv => TypeOK
  BY DEF IInv
<1> QED
  BY <1>1, Invariance, PTL

\* The idle counter of pop_blocking never drifts from the number of threads
\* inside Condvar::wait, for any number of workers.
THEOREM IdleCounterExact == Spec => []IdleIsWaiting
<1>1. IInv => IdleIsWaiting
  BY DEF IInv
<1> QED
  BY <1>1, Invariance, PTL

\* No wakeup is lost between the unlock of a critical section and its
\* notification, in drain_from, stop, and the end by "all idle".
THEOREM WakeupsReachSleepers == Spec => []NoLostWakeup
<1>1. IInv => NoLostWakeup
  BY DEF IInv
<1> QED
  BY <1>1, Invariance, PTL

\* The end by "all idle" is never premature, whatever the tree, the number of
\* workers and the interleaving: no node is open anywhere when it happens.
THEOREM TerminationIsQuiet == Spec => []QuietTermination
<1>1. IInv => QuietTermination
  BY DEF IInv
<1> QED
  BY <1>1, Invariance, PTL

\* The pool finalize_mip_result reads holds every node left unexplored.
THEOREM NodesAreHandedBack == Spec => []HandedBack
<1>1. IInv => HandedBack
  BY DEF IInv, HandedBack, Phases, MainWhere, HoldWhere
<1> QED
  BY <1>1, Invariance, PTL

-----------------------------------------------------------------------------
(* The search-wide incumbent: its inductive invariant *)

Objectives == Offers \cup {Infinity}

IncumbentTypeOK ==
  /\ inner \in Objectives
  /\ lock \in Threads \cup {Free}
  /\ bits \in Seq(Offers) /\ presents \in Nat
  /\ at \in [Threads -> {"idle", "lock", "storeBits", "storePresent", "present",
                         "bits", "clone", "left"}]
  /\ arg \in [Threads -> Objectives]
  /\ local \in [Threads -> Objectives]
  /\ knownBits \in [Threads -> Int] /\ knownPresents \in [Threads -> Int]
  /\ offered \subseteq Objectives /\ result \subseteq Objectives

\* A thread stores if and only if it holds the lock.
StoresUnderLock ==
  \A w \in Threads : at[w] \in {"storeBits", "storePresent"} <=> lock = w

\* Between the two stores, and only then, `present` is one behind.
InStep ==
  Len(bits) = presents + (IF \E w \in Threads : at[w] = "storePresent" THEN 1 ELSE 0)

\* The last value mirrored is the incumbent, unless its store is still to come;
\* it is then worse.
MirrorFollows ==
  IF \E w \in Threads : at[w] = "storeBits"
  THEN inner < Mirrored(Len(bits))
  ELSE inner = Mirrored(Len(bits))

\* A thread knows of no store that was not made, and of one of objective_bits
\* once it has read `present` as TRUE.
KnowsWhatIs ==
  \A w \in Threads :
    /\ 0 <= knownBits[w] /\ knownBits[w] <= Len(bits)
    /\ 0 <= knownPresents[w] /\ knownPresents[w] <= presents
    /\ at[w] = "bits" => 1 <= knownBits[w]

\* What a thread offers under the lock is a candidate; what it is about to
\* clone is better than what it has.
Intends ==
  \A w \in Threads :
    /\ at[w] = "lock" => arg[w] \in Offers
    /\ at[w] = "clone" => inner < local[w]

\* A candidate is not better than the incumbent, or is still to be compared.
OffersKept ==
  \A v \in offered :
    inner <= v \/ \E w \in Threads : at[w] = "lock" /\ arg[w] = v

\* The main thread finds the incumbent, and nobody is left to change it.
ResultIsInner == result # {} => Joined /\ result = {inner}

IncumbentInv ==
  /\ IncumbentTypeOK
  /\ StoresUnderLock /\ InStep /\ MirrorFollows /\ MirrorDecreases
  /\ KnowsWhatIs /\ Intends /\ OffersKept /\ ResultIsInner

-----------------------------------------------------------------------------
(* The mirror *)

\* An objective is an integer, at most Infinity.
LEMMA ObjectiveType ==
  /\ Infinity \in Int
  /\ \A v \in Offers : v \in Int /\ v < Infinity
  /\ \A v \in Objectives : v \in Int /\ v <= Infinity
  BY OffersAssumption DEF Objectives

\* What the mirror shows is an objective, and a later value is no worse.
LEMMA MirroredType ==
  ASSUME bits \in Seq(Offers), MirrorDecreases
  PROVE  /\ Len(bits) \in Nat
         /\ \A i \in 0 .. Len(bits) : Mirrored(i) \in Objectives
         /\ \A i \in 1 .. Len(bits) : Mirrored(i) \in Offers /\ Mirrored(i) = bits[i]
         /\ \A i, j \in 0 .. Len(bits) : i <= j => Mirrored(j) <= Mirrored(i)
<1>1. Len(bits) \in Nat /\ DOMAIN bits = 1 .. Len(bits)
      /\ \A i \in 1 .. Len(bits) : bits[i] \in Offers
  BY LenProperties, ElementOfSeq
<1>2. \A i \in 1 .. Len(bits) : Mirrored(i) = bits[i]
  BY <1>1 DEF Mirrored
<1>3. Mirrored(0) = Infinity
  BY DEF Mirrored
<1>4. \A i \in 0 .. Len(bits) : i = 0 \/ i \in 1 .. Len(bits)
  BY <1>1
<1>5. ASSUME NEW i \in 0 .. Len(bits), NEW j \in 0 .. Len(bits), i <= j
      PROVE  Mirrored(j) <= Mirrored(i)
  <2>1. CASE i = j
    BY <1>1, <1>2, <1>3, <1>4, <2>1, ObjectiveType
  <2>2. CASE i = 0 /\ j # 0
    BY <1>1, <1>2, <1>3, <1>4, <2>2, ObjectiveType
  <2>3. CASE i # 0 /\ i < j
    <3>1. i \in 1 .. Len(bits) /\ j \in 1 .. Len(bits)
      BY <1>1, <1>5, <2>3
    <3>2. bits[j] < bits[i]
      BY <1>1, <2>3, <3>1 DEF MirrorDecreases
    <3> QED
      BY <1>1, <1>2, <3>1, <3>2, ObjectiveType
  <2> QED
    BY <1>1, <1>5, <2>1, <2>2, <2>3
<1> QED
  BY <1>1, <1>2, <1>3, <1>4, <1>5 DEF Objectives

\* The incumbent is no worse than anything its mirror has shown.
LEMMA InnerIsBest ==
  ASSUME IncumbentInv, NEW i \in 0 .. Len(bits)
  PROVE  inner <= Mirrored(i)
<1>1. bits \in Seq(Offers) /\ inner \in Int
  BY ObjectiveType DEF IncumbentInv, IncumbentTypeOK
<1>2. Len(bits) \in Nat /\ Len(bits) \in 0 .. Len(bits)
  BY <1>1, MirroredType DEF IncumbentInv
<1>3. Mirrored(i) \in Int /\ Mirrored(Len(bits)) \in Int
      /\ Mirrored(Len(bits)) <= Mirrored(i)
  BY <1>1, <1>2, MirroredType, ObjectiveType DEF IncumbentInv
<1>4. inner <= Mirrored(Len(bits))
  BY <1>1, <1>3 DEF IncumbentInv, MirrorFollows
<1> QED
  BY <1>1, <1>3, <1>4

-----------------------------------------------------------------------------
(* Initial states *)

\* It holds when the threads are spawned, with the caller's start or without.
LEMMA IncumbentInitOK == IncumbentInit => IncumbentInv
<1> SUFFICES ASSUME IncumbentInit PROVE IncumbentInv
  OBVIOUS
<1> USE DEF IncumbentInit
<1>1. CASE inner = Infinity
  <2>1. bits = <<>> /\ Len(bits) = 0 /\ bits \in Seq(Offers) /\ presents = 0
    BY <1>1
  <2>2. IncumbentTypeOK
    BY <2>1 DEF IncumbentTypeOK, Objectives
  <2>3. StoresUnderLock /\ InStep /\ MirrorFollows /\ MirrorDecreases
    BY <1>1, <2>1, OffersAssumption
    DEF StoresUnderLock, InStep, MirrorFollows, Mirrored, MirrorDecreases
  <2>4. KnowsWhatIs /\ Intends /\ OffersKept /\ ResultIsInner
    BY <2>1, ObjectiveType DEF KnowsWhatIs, Intends, OffersKept, ResultIsInner, Objectives
  <2> QED
    BY <2>2, <2>3, <2>4 DEF IncumbentInv
<1>2. CASE inner # Infinity
  <2>1. inner \in Offers /\ bits = <<inner>> /\ Len(bits) = 1
        /\ bits \in Seq(Offers) /\ presents = 1 /\ bits[1] = inner
    BY <1>2
  <2>2. IncumbentTypeOK
    BY <2>1 DEF IncumbentTypeOK, Objectives
  <2>3. StoresUnderLock /\ InStep /\ MirrorFollows
    BY <2>1, OffersAssumption DEF StoresUnderLock, InStep, MirrorFollows, Mirrored
  <2>4. MirrorDecreases
    BY <2>1 DEF MirrorDecreases
  <2>5. KnowsWhatIs /\ Intends /\ OffersKept /\ ResultIsInner
    BY <2>1, ObjectiveType DEF KnowsWhatIs, Intends, OffersKept, ResultIsInner, Objectives
  <2> QED
    BY <2>2, <2>3, <2>4, <2>5 DEF IncumbentInv
<1> QED
  BY <1>1, <1>2

-----------------------------------------------------------------------------
(* Steps that read: the mirror, the offers and the result stay as they are *)

Reading == {"idle", "present", "bits", "clone"}

\* Nothing but the reader's own knowledge is touched by a read.
LEMMA ReadStep ==
  ASSUME IncumbentInv, NEW w \in Threads, at[w] \in Reading,
         NEW to \in Reading \cup {"left"}, at' = [at EXCEPT ![w] = to],
         UNCHANGED <<inner, lock, bits, presents, arg, offered, result>>
  PROVE  /\ StoresUnderLock' /\ InStep' /\ MirrorFollows' /\ MirrorDecreases'
         /\ OffersKept' /\ ResultIsInner'
<1>1. at \in [Threads -> {"idle", "lock", "storeBits", "storePresent", "present",
                          "bits", "clone", "left"}]
  BY DEF IncumbentInv, IncumbentTypeOK
<1>2. \A u \in Threads, place \in {"lock", "storeBits", "storePresent"} :
        at'[u] = place <=> at[u] = place
  BY <1>1 DEF Reading
<1>3. StoresUnderLock'
  BY <1>2 DEF IncumbentInv, StoresUnderLock
<1>4. InStep' /\ MirrorFollows' /\ MirrorDecreases'
  BY <1>2 DEF IncumbentInv, InStep, MirrorFollows, Mirrored, MirrorDecreases
<1>5. OffersKept'
  BY <1>2 DEF IncumbentInv, OffersKept
<1>6. ResultIsInner'
  BY DEF IncumbentInv, ResultIsInner, Joined, Reading
<1> QED
  BY <1>3, <1>4, <1>5, <1>6

\* Going back to look, and leaving the search.
LEMMA RefreshStep ==
  ASSUME IncumbentInv, NEW w \in Threads, Refresh(w) \/ Leave(w)
  PROVE  IncumbentInv'
<1>1. PICK to \in {"present", "left"} :
        at[w] = "idle" /\ at' = [at EXCEPT ![w] = to]
  BY DEF Refresh, Leave, Advance
<1>2. UNCHANGED <<inner, lock, bits, presents, arg, local, knownBits, knownPresents,
                  offered, result>>
  BY DEF Refresh, Leave
<1>3. IncumbentTypeOK'
  BY <1>1, <1>2 DEF IncumbentInv, IncumbentTypeOK
<1>4. KnowsWhatIs' /\ Intends'
  BY <1>1, <1>2 DEF IncumbentInv, IncumbentTypeOK, KnowsWhatIs, Intends
<1> QED
  BY <1>1, <1>2, <1>3, <1>4, ReadStep DEF IncumbentInv, Reading

\* `present` is at most one store behind objective_bits.
LEMMA AtMostOneBehind ==
  ASSUME IncumbentInv
  PROVE  /\ Len(bits) \in Nat /\ presents \in Nat
         /\ presents <= Len(bits) /\ Len(bits) <= presents + 1
<1>1. Len(bits) \in Nat /\ presents \in Nat
  BY LenProperties DEF IncumbentInv, IncumbentTypeOK
<1>2. Len(bits) = presents + 1 \/ Len(bits) = presents + 0
  BY DEF IncumbentInv, InStep
<1> QED
  BY <1>1, <1>2

\* A stale load of `present` is one of the stores that were made.
LEMMA LoadPresentStep ==
  ASSUME IncumbentInv, NEW w \in Threads, LoadPresent(w)
  PROVE  IncumbentInv'
<1>1. PICK j \in knownPresents[w] .. presents :
        /\ Advance(w, "present", IF j = 0 THEN "idle" ELSE "bits")
        /\ knownPresents' = [knownPresents EXCEPT ![w] = j]
        /\ knownBits' = [knownBits EXCEPT ![w] = Most(@, j)]
  BY DEF LoadPresent
<1>2. UNCHANGED <<inner, lock, bits, presents, arg, local, offered, result>>
  BY DEF LoadPresent
<1>3. /\ knownBits[w] \in Int /\ 0 <= knownBits[w] /\ knownBits[w] <= Len(bits)
      /\ knownPresents[w] \in Int /\ 0 <= knownPresents[w]
      /\ Len(bits) \in Nat /\ presents \in Nat /\ presents <= Len(bits)
  BY AtMostOneBehind DEF IncumbentInv, IncumbentTypeOK, KnowsWhatIs
<1>4. /\ j \in Nat /\ j <= presents
      /\ Most(knownBits[w], j) \in Int /\ j <= Most(knownBits[w], j)
      /\ 0 <= Most(knownBits[w], j) /\ Most(knownBits[w], j) <= Len(bits)
  BY <1>3 DEF Most
<1>5. PICK to \in {"idle", "bits"} :
        /\ at[w] = "present" /\ at' = [at EXCEPT ![w] = to]
        /\ to = "bits" => j >= 1
  <2>1. CASE j = 0
    BY <1>1, <2>1 DEF Advance
  <2>2. CASE j # 0
    BY <1>1, <1>4, <2>2 DEF Advance
  <2> QED
    BY <2>1, <2>2
<1>6. IncumbentTypeOK'
  BY <1>1, <1>2, <1>4, <1>5 DEF IncumbentInv, IncumbentTypeOK
<1>7. KnowsWhatIs'
  BY <1>1, <1>2, <1>4, <1>5 DEF IncumbentInv, IncumbentTypeOK, KnowsWhatIs
<1>8. Intends'
  BY <1>2, <1>5 DEF IncumbentInv, IncumbentTypeOK, Intends
<1> QED
  BY <1>2, <1>5, <1>6, <1>7, <1>8, ReadStep DEF IncumbentInv, Reading

\* A stale load of objective_bits shows a value that is no better than the
\* incumbent: what it promises, the clone keeps.
LEMMA LoadBitsStep ==
  ASSUME IncumbentInv, NEW w \in Threads, LoadBits(w)
  PROVE  IncumbentInv'
<1>1. PICK i \in knownBits[w] .. Len(bits) :
        /\ Advance(w, "bits", IF local[w] = Infinity \/ Mirrored(i) < local[w]
                           THEN "clone" ELSE "idle")
        /\ knownBits' = [knownBits EXCEPT ![w] = i]
        /\ knownPresents' = [knownPresents EXCEPT ![w] = Most(@, i - 1)]
  BY DEF LoadBits
<1>2. UNCHANGED <<inner, lock, bits, presents, arg, local, offered, result>>
  BY DEF LoadBits
<1>3. at[w] = "bits"
  BY <1>1 DEF Advance
<1>4. /\ knownBits[w] \in Int /\ 1 <= knownBits[w]
      /\ knownPresents[w] \in Int /\ 0 <= knownPresents[w] /\ knownPresents[w] <= presents
      /\ Len(bits) \in Nat /\ presents \in Nat /\ Len(bits) <= presents + 1
  BY <1>3, AtMostOneBehind DEF IncumbentInv, IncumbentTypeOK, KnowsWhatIs
<1>5. /\ i \in 1 .. Len(bits) /\ i \in Int /\ 1 <= i /\ i <= Len(bits)
      /\ i \in 0 .. Len(bits)
  BY <1>4
<1>6. Most(knownPresents[w], i - 1) \in Int /\ 0 <= Most(knownPresents[w], i - 1)
      /\ Most(knownPresents[w], i - 1) <= presents
  BY <1>4, <1>5 DEF Most
<1>7. inner < local[w] \/ ~(local[w] = Infinity \/ Mirrored(i) < local[w])
  <2>1. inner <= Mirrored(i) /\ inner \in Int /\ local[w] \in Int
    BY <1>5, InnerIsBest, ObjectiveType DEF IncumbentInv, IncumbentTypeOK
  <2>2. Mirrored(i) \in Int /\ Mirrored(i) < Infinity
    BY <1>5, MirroredType, ObjectiveType DEF IncumbentInv, IncumbentTypeOK
  <2> QED
    BY <2>1, <2>2, ObjectiveType
<1>8. PICK to \in {"idle", "clone"} :
        /\ at' = [at EXCEPT ![w] = to]
        /\ to = "clone" => inner < local[w]
  BY <1>1, <1>7 DEF Advance
<1>9. IncumbentTypeOK'
  BY <1>1, <1>2, <1>5, <1>6, <1>8 DEF IncumbentInv, IncumbentTypeOK
<1>10. KnowsWhatIs'
  BY <1>1, <1>2, <1>5, <1>6, <1>8 DEF IncumbentInv, IncumbentTypeOK, KnowsWhatIs
<1>11. Intends'
  BY <1>2, <1>8 DEF IncumbentInv, IncumbentTypeOK, Intends
<1> QED
  BY <1>2, <1>3, <1>8, <1>9, <1>10, <1>11, ReadStep DEF IncumbentInv, Reading

\* The clone, under the lock.
LEMMA CloneStep ==
  ASSUME IncumbentInv, NEW w \in Threads, Clone(w)
  PROVE  IncumbentInv'
<1>1. /\ at[w] = "clone" /\ at' = [at EXCEPT ![w] = "idle"]
      /\ local' = [local EXCEPT ![w] = inner]
      /\ knownBits' = [knownBits EXCEPT ![w] = Len(bits)]
      /\ knownPresents' = [knownPresents EXCEPT ![w] = presents]
      /\ UNCHANGED <<inner, lock, bits, presents, arg, offered, result>>
  BY DEF Clone, Advance, LearnAll
<1>2. Len(bits) \in Nat /\ presents \in Nat
  BY LenProperties DEF IncumbentInv, IncumbentTypeOK
<1>3. IncumbentTypeOK'
  BY <1>1, <1>2 DEF IncumbentInv, IncumbentTypeOK
<1>4. KnowsWhatIs'
  BY <1>1, <1>2 DEF IncumbentInv, IncumbentTypeOK, KnowsWhatIs
<1>5. Intends'
  BY <1>1 DEF IncumbentInv, IncumbentTypeOK, Intends
<1> QED
  BY <1>1, <1>3, <1>4, <1>5, ReadStep DEF IncumbentInv, Reading

-----------------------------------------------------------------------------
(* Steps that write *)

\* A candidate is found: it is remembered as offered.
LEMMA OfferStep ==
  ASSUME IncumbentInv, NEW w \in Threads, NEW v \in Offers, Offer(w, v)
  PROVE  IncumbentInv'
<1>1. /\ at[w] = "idle" /\ at' = [at EXCEPT ![w] = "lock"]
      /\ arg' = [arg EXCEPT ![w] = v] /\ offered' = offered \cup {v}
      /\ UNCHANGED <<inner, lock, bits, presents, local, knownBits, knownPresents,
                    result>>
  BY DEF Offer, Advance
<1>2. at \in [Threads -> {"idle", "lock", "storeBits", "storePresent", "present",
                          "bits", "clone", "left"}] /\ arg \in [Threads -> Objectives]
  BY DEF IncumbentInv, IncumbentTypeOK
<1>3. IncumbentTypeOK'
  BY <1>1 DEF IncumbentInv, IncumbentTypeOK, Objectives
<1>4. \A u \in Threads, place \in {"storeBits", "storePresent", "bits", "clone"} :
        at'[u] = place <=> at[u] = place
  BY <1>1, <1>2
<1>5. StoresUnderLock' /\ InStep' /\ MirrorFollows' /\ MirrorDecreases'
  BY <1>1, <1>4
  DEF IncumbentInv, StoresUnderLock, InStep, MirrorFollows, Mirrored, MirrorDecreases
<1>6. KnowsWhatIs'
  BY <1>1, <1>4 DEF IncumbentInv, KnowsWhatIs
<1>7. Intends'
  BY <1>1, <1>2 DEF IncumbentInv, Intends
<1>8. OffersKept'
  BY <1>1, <1>2 DEF IncumbentInv, OffersKept
<1>9. ResultIsInner'
  BY <1>1 DEF IncumbentInv, ResultIsInner, Joined
<1> QED
  BY <1>3, <1>5, <1>6, <1>7, <1>8, <1>9 DEF IncumbentInv

\* The candidate is better: the incumbent is replaced, its mirror still shows the
\* one before.
LEMMA AdoptStep ==
  ASSUME IncumbentInv, NEW w \in Threads, Adopt(w)
  PROVE  IncumbentInv'
<1>1. /\ at[w] = "lock" /\ at' = [at EXCEPT ![w] = "storeBits"]
      /\ lock = Free /\ lock' = w /\ arg[w] < inner /\ inner' = arg[w]
      /\ knownBits' = [knownBits EXCEPT ![w] = Len(bits)]
      /\ knownPresents' = [knownPresents EXCEPT ![w] = presents]
      /\ UNCHANGED <<bits, presents, arg, local, offered, result>>
  BY DEF Adopt, Advance, LearnAll, Better
<1>2. /\ at \in [Threads -> {"idle", "lock", "storeBits", "storePresent", "present",
                             "bits", "clone", "left"}]
      /\ inner \in Int /\ local \in [Threads -> Int] /\ offered \subseteq Int
      /\ arg \in [Threads -> Int] /\ arg[w] \in Offers
  BY <1>1, ObjectiveType DEF IncumbentInv, IncumbentTypeOK, Intends
<1>3. Len(bits) \in Nat /\ presents \in Nat
  BY AtMostOneBehind
<1>4. IncumbentTypeOK'
  BY <1>1, <1>2, <1>3 DEF IncumbentInv, IncumbentTypeOK, Objectives
<1>5. \A u \in Threads : at[u] \notin {"storeBits", "storePresent"}
  BY <1>1, OffersAssumption DEF IncumbentInv, StoresUnderLock
<1>6. StoresUnderLock'
  BY <1>1, <1>2, <1>5 DEF StoresUnderLock
<1>7. InStep'
  BY <1>1, <1>2, <1>5 DEF IncumbentInv, InStep
<1>8. MirrorFollows'
  <2>1. inner = Mirrored(Len(bits)) /\ Mirrored(Len(bits))' = Mirrored(Len(bits))
    BY <1>1, <1>5 DEF IncumbentInv, MirrorFollows, Mirrored
  <2>2. \E u \in Threads : at'[u] = "storeBits"
    BY <1>1, <1>2
  <2> QED
    BY <1>1, <2>1, <2>2 DEF MirrorFollows
<1>9. MirrorDecreases'
  BY <1>1 DEF IncumbentInv, MirrorDecreases
<1>10. KnowsWhatIs'
  BY <1>1, <1>2, <1>3 DEF IncumbentInv, IncumbentTypeOK, KnowsWhatIs
<1>11. Intends'
  BY <1>1, <1>2 DEF IncumbentInv, Intends
<1>12. OffersKept'
  BY <1>1, <1>2 DEF IncumbentInv, OffersKept
<1>13. ResultIsInner'
  BY <1>1 DEF IncumbentInv, ResultIsInner, Joined
<1> QED
  BY <1>4, <1>6, <1>7, <1>8, <1>9, <1>10, <1>11, <1>12, <1>13 DEF IncumbentInv

\* The candidate is not better: it is not needed.
LEMMA RejectStep ==
  ASSUME IncumbentInv, NEW w \in Threads, Reject(w)
  PROVE  IncumbentInv'
<1>1. /\ at[w] = "lock" /\ at' = [at EXCEPT ![w] = "present"]
      /\ ~(arg[w] < inner)
      /\ knownBits' = [knownBits EXCEPT ![w] = Len(bits)]
      /\ knownPresents' = [knownPresents EXCEPT ![w] = presents]
      /\ UNCHANGED <<inner, lock, bits, presents, arg, local, offered, result>>
  BY DEF Reject, Advance, LearnAll, Better
<1>2. /\ at \in [Threads -> {"idle", "lock", "storeBits", "storePresent", "present",
                             "bits", "clone", "left"}]
      /\ inner \in Int /\ arg \in [Threads -> Int]
  BY ObjectiveType DEF IncumbentInv, IncumbentTypeOK
<1>3. Len(bits) \in Nat /\ presents \in Nat
  BY AtMostOneBehind
<1>4. IncumbentTypeOK'
  BY <1>1, <1>3 DEF IncumbentInv, IncumbentTypeOK
<1>5. \A u \in Threads, place \in {"storeBits", "storePresent", "bits", "clone"} :
        at'[u] = place <=> at[u] = place
  BY <1>1, <1>2
<1>6. StoresUnderLock' /\ InStep' /\ MirrorFollows' /\ MirrorDecreases'
  BY <1>1, <1>5
  DEF IncumbentInv, StoresUnderLock, InStep, MirrorFollows, Mirrored, MirrorDecreases
<1>7. KnowsWhatIs'
  BY <1>1, <1>3, <1>5 DEF IncumbentInv, IncumbentTypeOK, KnowsWhatIs
<1>8. Intends'
  BY <1>1, <1>2, <1>5 DEF IncumbentInv, Intends
<1>9. OffersKept'
  BY <1>1, <1>2 DEF IncumbentInv, OffersKept
<1>10. ResultIsInner'
  BY <1>1 DEF IncumbentInv, ResultIsInner, Joined
<1> QED
  BY <1>4, <1>6, <1>7, <1>8, <1>9, <1>10 DEF IncumbentInv

\* The incumbent is mirrored: below everything the mirror has shown.
LEMMA StoreBitsStep ==
  ASSUME IncumbentInv, NEW w \in Threads, StoreBits(w)
  PROVE  IncumbentInv'
<1>1. /\ at[w] = "storeBits" /\ at' = [at EXCEPT ![w] = "storePresent"]
      /\ bits' = Append(bits, inner)
      /\ knownBits' = [knownBits EXCEPT ![w] = Len(bits')]
      /\ UNCHANGED <<inner, lock, presents, arg, local, knownPresents, offered, result>>
  BY DEF StoreBits, Advance
<1>2. /\ at \in [Threads -> {"idle", "lock", "storeBits", "storePresent", "present",
                             "bits", "clone", "left"}]
      /\ bits \in Seq(Offers) /\ Len(bits) \in Nat /\ presents \in Nat
      /\ inner \in Objectives
  BY AtMostOneBehind DEF IncumbentInv, IncumbentTypeOK
<1>3. \A u \in Threads \ {w} : at[u] \notin {"storeBits", "storePresent"}
  BY <1>1 DEF IncumbentInv, StoresUnderLock
<1>4. inner < Mirrored(Len(bits)) /\ Mirrored(Len(bits)) \in Objectives
      /\ \A i \in 1 .. Len(bits) :
           /\ bits[i] \in Offers /\ Mirrored(i) = bits[i]
           /\ Mirrored(Len(bits)) <= bits[i]
  <2>1. inner < Mirrored(Len(bits))
    BY <1>1 DEF IncumbentInv, MirrorFollows
  <2>2. Len(bits) \in 0 .. Len(bits) /\ \A i \in 1 .. Len(bits) : i \in 0 .. Len(bits)
        /\ i <= Len(bits)
    BY <1>2
  <2> QED
    BY <1>2, <2>1, <2>2, MirroredType DEF IncumbentInv
<1>5. inner \in Offers
  <2>1. inner # Infinity
    BY <1>4, ObjectiveType
  <2> QED
    BY <1>2, <2>1 DEF Objectives
<1>6. /\ bits' \in Seq(Offers) /\ Len(bits') = Len(bits) + 1
      /\ bits'[Len(bits) + 1] = inner
      /\ \A i \in 1 .. Len(bits) : bits'[i] = bits[i]
  BY <1>1, <1>2, <1>5, AppendProperties
<1>7. IncumbentTypeOK'
  BY <1>1, <1>2, <1>6 DEF IncumbentInv, IncumbentTypeOK
<1>8. StoresUnderLock'
  BY <1>1, <1>2, <1>3 DEF IncumbentInv, StoresUnderLock
<1>9. InStep'
  <2>1. Len(bits) = presents
    BY <1>1, <1>2, <1>3 DEF IncumbentInv, InStep
  <2>2. \E u \in Threads : at'[u] = "storePresent"
    BY <1>1, <1>2
  <2> QED
    BY <1>1, <1>6, <2>1, <2>2 DEF InStep
<1>10. MirrorFollows'
  <2>1. \A u \in Threads : at'[u] # "storeBits"
    BY <1>1, <1>2, <1>3
  <2>2. Mirrored(Len(bits))' = inner
    BY <1>2, <1>6 DEF Mirrored
  <2> QED
    BY <1>1, <2>1, <2>2 DEF MirrorFollows
<1>11. MirrorDecreases'
  <2>1. DOMAIN bits' = 1 .. Len(bits')
    BY <1>6, LenProperties
  <2>2. SUFFICES ASSUME NEW i \in 1 .. Len(bits'), NEW j \in 1 .. Len(bits'), i < j
                 PROVE  bits'[j] < bits'[i]
    BY <2>1 DEF MirrorDecreases
  <2>3. i \in 1 .. Len(bits)
    BY <1>2, <1>6, <2>2
  <2>4. CASE j \in 1 .. Len(bits)
    <3>1. bits[j] < bits[i]
      BY <1>2, <2>2, <2>3, <2>4, LenProperties DEF IncumbentInv, MirrorDecreases
    <3> QED
      BY <1>6, <2>3, <2>4, <3>1
  <2>5. CASE j = Len(bits) + 1
    <3>1. bits[i] \in Int /\ inner \in Int /\ Mirrored(Len(bits)) \in Int
      BY <1>2, <1>4, <2>3, ObjectiveType
    <3>2. inner < bits[i]
      BY <1>4, <2>3, <3>1
    <3> QED
      BY <1>6, <2>3, <2>5, <3>2
  <2> QED
    BY <1>2, <1>6, <2>2, <2>4, <2>5
<1>12. KnowsWhatIs'
  BY <1>1, <1>2, <1>6 DEF IncumbentInv, IncumbentTypeOK, KnowsWhatIs
<1>13. Intends'
  BY <1>1, <1>2 DEF IncumbentInv, Intends
<1>14. OffersKept'
  BY <1>1, <1>2 DEF IncumbentInv, OffersKept
<1>15. ResultIsInner'
  BY <1>1 DEF IncumbentInv, ResultIsInner, Joined
<1> QED
  BY <1>7, <1>8, <1>9, <1>10, <1>11, <1>12, <1>13, <1>14, <1>15 DEF IncumbentInv

\* `present` catches up and the lock is released.
LEMMA StorePresentStep ==
  ASSUME IncumbentInv, NEW w \in Threads, StorePresent(w)
  PROVE  IncumbentInv'
<1>1. /\ at[w] = "storePresent" /\ at' = [at EXCEPT ![w] = "present"]
      /\ presents' = presents + 1 /\ lock' = Free
      /\ knownPresents' = [knownPresents EXCEPT ![w] = presents']
      /\ UNCHANGED <<inner, bits, arg, local, knownBits, offered, result>>
  BY DEF StorePresent, Advance
<1>2. /\ at \in [Threads -> {"idle", "lock", "storeBits", "storePresent", "present",
                             "bits", "clone", "left"}]
      /\ Len(bits) \in Nat /\ presents \in Nat
  BY AtMostOneBehind DEF IncumbentInv, IncumbentTypeOK
<1>3. \A u \in Threads \ {w} : at[u] \notin {"storeBits", "storePresent"}
  BY <1>1 DEF IncumbentInv, StoresUnderLock
<1>4. IncumbentTypeOK'
  BY <1>1, <1>2 DEF IncumbentInv, IncumbentTypeOK
<1>5. StoresUnderLock'
  BY <1>1, <1>2, <1>3, OffersAssumption DEF StoresUnderLock
<1>6. InStep'
  <2>1. Len(bits) = presents + 1
    BY <1>1 DEF IncumbentInv, InStep
  <2>2. \A u \in Threads : at'[u] # "storePresent"
    BY <1>1, <1>2, <1>3
  <2> QED
    BY <1>1, <1>2, <2>1, <2>2 DEF InStep
<1>7. MirrorFollows'
  <2>1. \A u \in Threads : at'[u] # "storeBits" /\ at[u] # "storeBits"
    BY <1>1, <1>2, <1>3
  <2> QED
    BY <1>1, <2>1 DEF IncumbentInv, MirrorFollows, Mirrored
<1>8. MirrorDecreases'
  BY <1>1 DEF IncumbentInv, MirrorDecreases
<1>9. KnowsWhatIs'
  BY <1>1, <1>2 DEF IncumbentInv, IncumbentTypeOK, KnowsWhatIs
<1>10. Intends'
  BY <1>1, <1>2 DEF IncumbentInv, Intends
<1>11. OffersKept'
  BY <1>1, <1>2 DEF IncumbentInv, OffersKept
<1>12. ResultIsInner'
  BY <1>1 DEF IncumbentInv, ResultIsInner, Joined
<1> QED
  BY <1>4, <1>5, <1>6, <1>7, <1>8, <1>9, <1>10, <1>11, <1>12 DEF IncumbentInv

\* Nobody holds the lock once all have left: a `present` that was never stored
\* means that there is no incumbent.
LEMMA JoinStep ==
  ASSUME IncumbentInv, JoinAll
  PROVE  IncumbentInv'
<1>1. /\ \A w \in Threads : at[w] = "left"
      /\ result' = {IF presents = 0 THEN Infinity ELSE inner}
      /\ UNCHANGED <<inner, lock, bits, presents, at, arg, local, knownBits,
                    knownPresents, offered>>
  BY DEF JoinAll, Joined
<1>2. inner = Mirrored(Len(bits)) /\ Len(bits) = presents
  BY <1>1, AtMostOneBehind DEF IncumbentInv, MirrorFollows, InStep
<1>3. result' = {inner}
  BY <1>1, <1>2 DEF Mirrored
<1>4. IncumbentTypeOK'
  BY <1>1, <1>3 DEF IncumbentInv, IncumbentTypeOK
<1>5. ResultIsInner'
  BY <1>1, <1>3 DEF ResultIsInner, Joined
<1>6. StoresUnderLock' /\ InStep' /\ MirrorFollows' /\ MirrorDecreases' /\ KnowsWhatIs'
      /\ Intends' /\ OffersKept'
  BY <1>1 DEF IncumbentInv, StoresUnderLock, InStep, MirrorFollows, Mirrored, MirrorDecreases,
              KnowsWhatIs, Intends, OffersKept
<1> QED
  BY <1>4, <1>5, <1>6 DEF IncumbentInv

\* Every step of every thread preserves the invariant.
LEMMA IncumbentStepOK == IncumbentInv /\ [IncumbentNext]_incumbentVars => IncumbentInv'
<1> SUFFICES ASSUME IncumbentInv, [IncumbentNext]_incumbentVars PROVE IncumbentInv'
  OBVIOUS
<1>1. CASE UNCHANGED incumbentVars
  BY <1>1
  DEF incumbentVars, IncumbentInv, IncumbentTypeOK, StoresUnderLock, InStep, MirrorFollows,
      Mirrored, MirrorDecreases, KnowsWhatIs, Intends, OffersKept, ResultIsInner, Joined
<1> QED
  BY <1>1, OfferStep, AdoptStep, RejectStep, StoreBitsStep, StorePresentStep, RefreshStep,
     LoadPresentStep, LoadBitsStep, CloneStep, JoinStep DEF IncumbentNext

-----------------------------------------------------------------------------
(* Theorems *)

\* The inductive invariant holds of every behaviour.
LEMMA IncumbentInvariant == IncumbentSpec => []IncumbentInv
  BY IncumbentInitOK, IncumbentStepOK, PTL DEF IncumbentSpec

\* Only the holder of the lock stores, the two atomics are at most one store apart,
\* and no thread knows of a store before it is made.
THEOREM StoresInStep == IncumbentSpec => [](StoresUnderLock /\ InStep /\ KnowsWhatIs)
<1>1. IncumbentInv => StoresUnderLock /\ InStep /\ KnowsWhatIs
  BY DEF IncumbentInv
<1> QED
  BY <1>1, IncumbentInvariant, PTL

\* The mirror strictly decreases: no two threads that find the same objective
\* both count an improvement (doc of SharedIncumbent::consider).
THEOREM MirrorStrictlyDecreases == IncumbentSpec => []MirrorDecreases
<1>1. IncumbentInv => MirrorDecreases
  BY DEF IncumbentInv
<1> QED
  BY <1>1, IncumbentInvariant, PTL

\* What the main thread finalizes with is the best candidate anyone offered:
\* none is lost between the unlocked reads and the store under the lock.
THEOREM NoCandidateLost == IncumbentSpec => []BestSurvives
<1>1. IncumbentInv => BestSurvives
  BY DEF IncumbentInv, BestSurvives, ResultIsInner, OffersKept, Joined
<1> QED
  BY <1>1, IncumbentInvariant, PTL

-----------------------------------------------------------------------------
(* The register *)

\* With or without a start, every view begins at the best.
LEMMA RegisterInit == IncumbentInit => Register!Init
  BY DEF IncumbentInit, Register!Init

\* The store under the lock offers to the register, the clone refreshes a view,
\* and no other step shows.
LEMMA RegisterStep ==
  IncumbentInv /\ [IncumbentNext]_incumbentVars => [Register!Next]_<<inner, local>>
<1> SUFFICES ASSUME IncumbentInv, [IncumbentNext]_incumbentVars
             PROVE  [Register!Next]_<<inner, local>>
  OBVIOUS
<1>1. ASSUME NEW w \in Threads, Adopt(w) PROVE Register!Next
  <2>1. arg[w] \in Offers /\ arg[w] < inner /\ inner' = arg[w] /\ local' = local
    BY <1>1 DEF Adopt, Advance, Better, IncumbentInv, Intends
  <2>2. Register!Offer(arg[w])
    BY <2>1 DEF Register!Offer
  <2> QED
    BY <2>1, <2>2 DEF Register!Next
<1>2. ASSUME NEW w \in Threads, Clone(w) PROVE Register!Next
  <2>1. inner < local[w] /\ local' = [local EXCEPT ![w] = inner] /\ inner' = inner
    BY <1>2 DEF Clone, Advance, IncumbentInv, Intends
  <2>2. Register!Refresh(w)
    BY <2>1 DEF Register!Refresh
  <2> QED
    BY <2>2 DEF Register!Next
<1>3. ASSUME NEW w \in Threads,
             \/ \E v \in Offers : Offer(w, v)
             \/ Reject(w) \/ StoreBits(w) \/ StorePresent(w)
             \/ Refresh(w) \/ LoadPresent(w) \/ LoadBits(w) \/ Leave(w)
      PROVE  UNCHANGED <<inner, local>>
  BY <1>3 DEF Offer, Reject, StoreBits, StorePresent, Refresh, LoadPresent, LoadBits, Leave
<1>4. CASE JoinAll \/ UNCHANGED incumbentVars
  BY <1>4 DEF JoinAll, incumbentVars
<1> QED
  BY <1>1, <1>2, <1>3, <1>4 DEF IncumbentNext

\* The lock-free mirror, with every stale load the memory model allows,
\* implements the atomic register of the parallel search.
THEOREM MirrorImplementsRegister == IncumbentSpec => ImplementsRegister
<1>1. IncumbentInit => Register!Init
  BY RegisterInit
<1>2. IncumbentInv /\ [IncumbentNext]_incumbentVars => [Register!Next]_<<inner, local>>
  BY RegisterStep
<1> QED
  BY <1>1, <1>2, IncumbentInvariant, PTL DEF IncumbentSpec, ImplementsRegister, Register!Spec

=============================================================================
