---------------------------- MODULE ParallelProofs ----------------------------
(***************************************************************************)
(* The safety of the parallel search, for any number of workers, any problem,  *)
(* any sound relaxation, any limits, and with panics, refused threads and a     *)
(* deadline: no region is lost, a stale view is only ever conservative, only    *)
(* dives are private, the node budget is overshot by less than one node per     *)
(* worker, the answer keeps the contract of a branch and bound, and every step  *)
(* is one of the worker-and-pool protocol.                                      *)
(* The inductive invariants are ParInv and, for the protocol, PlacesInv.        *)
(***************************************************************************)
EXTENDS ParallelBnB, NodeSearchProofs, FiniteSetTheorems

\* Where a worker has a node in hand, where its queue is empty for good (or not yet
\* used), and where it may hold nodes on its private heap.
Working == {"sync", "run", "solve", "branch"}
Emptied == {"unborn", "tailBell", "guard", "guardBell", "exited"}
Private == {"count", "countHalt", "publish", "halt", "haltBell", "tail"}

\* What is true of a worker at a place, with its state s and the node n in hand, when
\* b is the incumbent of the search.
WorkerOK(place, s, n, b) ==
  /\ place \in WorkerPc
  /\ s \in States /\ n \in Nodes
  /\ Honest(s) /\ OneStore(s.q) /\ b <= s.inc
  /\ place \notin Working => n = NoNode
  /\ place \in Emptied => Held(s.q) = {}
  /\ place \notin Private => s.q.heap = {}

ParTypeOK ==
  /\ heap \in SUBSET Nodes
  /\ pc \in [Workers -> WorkerPc]
  /\ st \in [Workers -> States] /\ hand \in [Workers -> Nodes]
  /\ best \in Int /\ (best = Inf \/ IsFinite(best))
  /\ expired \in BOOLEAN

WorkersOK == \A w \in Workers : WorkerOK(pc[w], st[w], hand[w], best)

\* The result is there when the main thread is done, and then nobody works.
MainOK ==
  /\ Over <=> answer.status # "none"
  /\ Over => \A w \in Workers : pc[w] \in {"unborn", "exited", "dead"}

\* The point p is in the pool, or with a worker whose state is s and node n.
Around(H, s, n, p) == \E m \in H \cup Held(s.q) \cup {n} : p \in m.box /\ m.lb <= Value[p]

Safe(p) ==
  \/ \E w \in Workers : Around(heap, st[w], hand[w], p) \/ st[w].openLb <= Value[p]
  \/ WithinGap(best, Value[p])

PointsSafe ==
  ~Panicking /\ (\A w \in Workers : ~st[w].unbounded) => \A p \in Feasible : Safe(p)

ParInv == ParTypeOK /\ WorkersOK /\ MainOK /\ PointsSafe

-----------------------------------------------------------------------------
\* The dummy node of an empty hand covers no point.
LEMMA NoNodeIs == NoNode \in Nodes /\ NoNode.box = {}
  BY ProblemIs DEF NoNode, Nodes

\* Counting the nodes by worker.
LEMMA SafeIsNothingLost ==
  ASSUME ParTypeOK, NEW p \in Feasible
  PROVE  Safe(p) <=>
           \/ \E n \in OpenNodes : p \in n.box /\ n.lb <= Value[p]
           \/ \E w \in Workers : st[w].openLb <= Value[p]
           \/ WithinGap(best, Value[p])
<1>1. ASSUME NEW w \in Workers, Around(heap, st[w], hand[w], p)
      PROVE  \E n \in OpenNodes : p \in n.box /\ n.lb <= Value[p]
  <2>1. PICK m \in heap \cup Held(st[w].q) \cup {hand[w]} : p \in m.box /\ m.lb <= Value[p]
    BY <1>1 DEF Around
  <2>2. m # NoNode
    BY <2>1, NoNodeIs
  <2>3. m \in OpenNodes
    BY <2>1, <2>2 DEF OpenNodes, InHand
  <2> QED
    BY <2>1, <2>3
<1>2. ASSUME NEW n \in OpenNodes, p \in n.box, n.lb <= Value[p]
      PROVE  \E w \in Workers : Around(heap, st[w], hand[w], p)
  <2>1. CASE n \in heap
    <3>1. PICK w \in Workers : TRUE
      BY WorkersAssumption
    <3> QED
      BY <1>2, <2>1, <3>1 DEF Around
  <2>2. CASE n \notin heap
    <3>1. PICK w \in Workers : n \in Held(st[w].q) \cup InHand(w)
      BY <1>2, <2>2 DEF OpenNodes
    <3> QED
      BY <1>2, <3>1 DEF Around, InHand
  <2> QED
    BY <2>1, <2>2
<1> QED
  BY <1>1, <1>2 DEF Safe

\* A step of worker w to a place, with its state t and the node n then in hand.
Moves(w, to, t, n) ==
  /\ pc' = [pc EXCEPT ![w] = to] /\ st' = [st EXCEPT ![w] = t]
  /\ hand' = [hand EXCEPT ![w] = n]
  /\ mainPc' = mainPc /\ answer' = answer /\ expired' = expired
  /\ heap' \in SUBSET Nodes
  /\ best' \in Int /\ best' <= best /\ (best' = Inf \/ IsFinite(best'))

\* Those that ended do not move, those that panicked only to their end.
MayMove(w, to) ==
  /\ pc[w] \notin {"exited", "dead"}
  /\ mainPc = "spawn" \/ pc[w] # "unborn"
  /\ pc[w] \in {"unwind", "unwindBell"} => to \in {"unwindBell", "dead"}

\* What it was responsible for stays in sight.
InSight(w, t, n) ==
  \A p \in Feasible :
    Around(heap, st[w], hand[w], p) \/ st[w].openLb <= Value[p] =>
      \/ Around(heap', t, n, p) \/ t.openLb <= Value[p]
      \/ WithinGap(best', Value[p]) \/ t.unbounded

NoneDropped(w, to, t, n) ==
  /\ st[w].unbounded => t.unbounded
  /\ \A m \in heap : m \in heap' \/ m \in Held(t.q) \/ m = n
  /\ to = "unwind" \/ InSight(w, t, n)

\* One worker moves: the invariant is kept if the worker is right where it arrives and
\* dropped no point of what it held.
LEMMA WorkerStep ==
  ASSUME ParInv, NEW w \in Workers, NEW to, NEW t, NEW n,
         Moves(w, to, t, n), MayMove(w, to), NoneDropped(w, to, t, n),
         WorkerOK(to, t, n, best')
  PROVE  ParInv'
<1>0. /\ pc' = [pc EXCEPT ![w] = to] /\ st' = [st EXCEPT ![w] = t]
      /\ hand' = [hand EXCEPT ![w] = n]
      /\ mainPc' = mainPc /\ answer' = answer /\ expired' = expired
      /\ heap' \in SUBSET Nodes
      /\ best' \in Int /\ best' <= best /\ (best' = Inf \/ IsFinite(best'))
      /\ pc[w] \notin {"exited", "dead"}
      /\ mainPc = "spawn" \/ pc[w] # "unborn"
      /\ pc[w] \in {"unwind", "unwindBell"} => to \in {"unwindBell", "dead"}
      /\ st[w].unbounded => t.unbounded
      /\ \A m \in heap : m \in heap' \/ m \in Held(t.q) \/ m = n
      /\ to = "unwind" \/ InSight(w, t, n)
  BY DEF Moves, MayMove, NoneDropped
<1>1. /\ ParTypeOK /\ WorkersOK /\ MainOK
      /\ t \in States /\ n \in Nodes /\ to \in WorkerPc
  BY DEF ParInv, WorkerOK
<1>2. /\ pc \in [Workers -> WorkerPc] /\ st \in [Workers -> States]
      /\ hand \in [Workers -> Nodes] /\ best \in Int
      /\ pc'[w] = to /\ st'[w] = t /\ hand'[w] = n
      /\ \A v \in Workers : v # w => pc'[v] = pc[v] /\ st'[v] = st[v] /\ hand'[v] = hand[v]
  BY <1>0, <1>1 DEF ParTypeOK
<1>3. ParTypeOK'
  BY <1>0, <1>1, <1>2 DEF ParTypeOK
<1>4. ASSUME NEW v \in Workers PROVE WorkerOK(pc[v], st[v], hand[v], best)'
  <2>1. CASE v = w
    BY <1>0, <1>2, <2>1 DEF WorkerOK
  <2>2. CASE v # w
    <3>1. WorkerOK(pc[v], st[v], hand[v], best)
      BY <1>1 DEF WorkersOK
    <3>2. best <= st[v].inc /\ st[v].inc \in Int
      BY <1>2, <3>1 DEF WorkerOK, States
    <3>3. best' <= st[v].inc
      BY <1>0, <1>2, <3>2
    <3> QED
      BY <1>2, <2>2, <3>1, <3>3 DEF WorkerOK
  <2> QED
    BY <2>1, <2>2
<1>5. WorkersOK'
  BY <1>4 DEF WorkersOK
<1>6. MainOK'
  <2>1. ~Over
    BY <1>0, <1>1 DEF MainOK, Over
  <2> QED
    BY <1>0, <1>1, <2>1 DEF MainOK, Over
<1>7. PointsSafe'
  <2>1. SUFFICES ASSUME ~Panicking', \A v \in Workers : ~st'[v].unbounded, NEW p \in Feasible
                 PROVE  Safe(p)'
    BY DEF PointsSafe
  <2>2. to # "unwind" /\ ~Panicking /\ \A v \in Workers : ~st[v].unbounded
    BY <1>0, <1>2, <2>1 DEF Panicking
  <2>3. Safe(p)
    BY <2>2 DEF ParInv, PointsSafe
  <2>4. CASE WithinGap(best, Value[p])
    <3>1. Value[p] \in Int /\ Inf \in Int
      BY ProblemIs
    <3>2. IsFinite(best')
      BY <1>0, <1>2, <2>4, <3>1 DEF WithinGap, IsFinite
    <3>3. WithinGap(best', Value[p])
      BY <1>0, <1>2, <2>4, <3>1, <3>2, GapMonotone
    <3> QED
      BY <3>3 DEF Safe
  <2>5. CASE Around(heap, st[w], hand[w], p) \/ st[w].openLb <= Value[p]
    <3>1. \/ Around(heap', t, n, p) \/ t.openLb <= Value[p] \/ WithinGap(best', Value[p])
      BY <1>0, <1>2, <2>1, <2>2, <2>5 DEF InSight
    <3> QED
      BY <1>2, <3>1 DEF Safe, Around
  <2>6. ASSUME NEW v \in Workers, v # w,
               Around(heap, st[v], hand[v], p) \/ st[v].openLb <= Value[p]
        PROVE  Safe(p)'
    <3>1. CASE st[v].openLb <= Value[p]
      BY <1>2, <2>6, <3>1 DEF Safe
    <3>2. CASE \E m \in heap : p \in m.box /\ m.lb <= Value[p]
      <4>1. Around(heap', t, n, p)
        BY <1>0, <3>2 DEF Around
      <4> QED
        BY <1>2, <4>1 DEF Safe, Around
    <3>3. CASE \E m \in Held(st[v].q) \cup {hand[v]} : p \in m.box /\ m.lb <= Value[p]
      <4>1. Around(heap', st'[v], hand'[v], p)
        BY <1>2, <2>6, <3>3 DEF Around
      <4> QED
        BY <4>1 DEF Safe, Around
    <3> QED
      BY <2>6, <3>1, <3>2, <3>3 DEF Around
  <2> QED
    BY <2>3, <2>4, <2>5, <2>6 DEF Safe
<1> QED
  BY <1>3, <1>5, <1>6, <1>7 DEF ParInv

-----------------------------------------------------------------------------
(* Steps that leave the search state alone *)

\* What the invariant says of one worker.
LEMMA WorkerIs ==
  ASSUME ParInv, NEW w \in Workers
  PROVE  /\ ParTypeOK /\ WorkerOK(pc[w], st[w], hand[w], best)
         /\ pc \in [Workers -> WorkerPc] /\ st \in [Workers -> States]
         /\ hand \in [Workers -> Nodes] /\ heap \in SUBSET Nodes
         /\ st[w] \in States /\ st[w].q \in Queues /\ hand[w] \in Nodes
         /\ best \in Int /\ best <= best /\ (best = Inf \/ IsFinite(best))
         /\ best <= st[w].inc /\ Honest(st[w]) /\ OneStore(st[w].q) /\ expired \in BOOLEAN
<1>1. ParTypeOK /\ WorkerOK(pc[w], st[w], hand[w], best)
  BY DEF ParInv, WorkersOK
<1>2. best \in Int /\ best <= best /\ (best = Inf \/ IsFinite(best))
  BY <1>1 DEF ParTypeOK
<1> QED
  BY <1>1, <1>2 DEF ParTypeOK, WorkerOK, States

\* A step that changes nothing but where the worker is.
LEMMA PcStep ==
  ASSUME ParInv, NEW w \in Workers, NEW to,
         pc' = [pc EXCEPT ![w] = to], UNCHANGED <<heap, st, hand, best, mainPc, answer, expired>>,
         WorkerOK(to, st[w], hand[w], best), MayMove(w, to)
  PROVE  ParInv'
<1>1. Moves(w, to, st[w], hand[w])
  BY WorkerIs DEF Moves
<1>2. NoneDropped(w, to, st[w], hand[w])
  BY DEF NoneDropped, InSight
<1> QED
  BY <1>1, <1>2, WorkerStep

\* Such are the steps of the thread itself: its start, its notifications, its counter.
LEMMA PcSteps ==
  ASSUME ParInv, NEW w \in Workers, Spawn(w) \/ Bell(w) \/ Stop(w) \/ Count(w)
  PROVE  ParInv'
<1>1. /\ UNCHANGED <<heap, st, hand, best, mainPc, answer, expired>>
  BY DEF Spawn, Bell, Stop, Count, poolVars, searchVars, NotifyAll, SetStopped
<1>2. WorkerOK(pc[w], st[w], hand[w], best) /\ OneStore(st[w].q)
  BY WorkerIs
<1>3. CASE Spawn(w)
  <2>1. pc[w] = "unborn" /\ pc' = [pc EXCEPT ![w] = "fetch"]
    BY <1>3 DEF Spawn
  <2>2. WorkerOK("fetch", st[w], hand[w], best)
    BY <1>2, <2>1 DEF WorkerOK, WorkerPc, Working, Emptied, Private
  <2> QED
    BY <1>1, <1>3, <2>1, <2>2, PcStep DEF MayMove, Spawn
<1>4. CASE Bell(w)
  <2>1. pc[w] \in DOMAIN AfterBell /\ pc' = [pc EXCEPT ![w] = AfterBell[pc[w]]]
    BY <1>4 DEF Bell
  <2>2. /\ pc[w] \in {"publishBell", "haltBell", "tailBell", "guardBell", "unwindBell"}
        /\ AfterBell[pc[w]] = CASE pc[w] = "publishBell" -> "fetch"
                                [] pc[w] = "haltBell" -> "tail"
                                [] pc[w] = "tailBell" -> "guard"
                                [] pc[w] = "guardBell" -> "exited"
                                [] pc[w] = "unwindBell" -> "dead"
    BY <2>1 DEF AfterBell
  <2>3. WorkerOK(AfterBell[pc[w]], st[w], hand[w], best)
    <3>1. CASE pc[w] = "publishBell"
      BY <1>2, <2>2, <3>1 DEF WorkerOK, WorkerPc, Working, Emptied, Private
    <3>2. CASE pc[w] = "haltBell"
      BY <1>2, <2>2, <3>2 DEF WorkerOK, WorkerPc, Working, Emptied, Private
    <3>3. CASE pc[w] = "tailBell"
      BY <1>2, <2>2, <3>3 DEF WorkerOK, WorkerPc, Working, Emptied, Private
    <3>4. CASE pc[w] = "guardBell"
      BY <1>2, <2>2, <3>4 DEF WorkerOK, WorkerPc, Working, Emptied, Private
    <3>5. CASE pc[w] = "unwindBell"
      BY <1>2, <2>2, <3>5 DEF WorkerOK, WorkerPc, Working, Emptied, Private
    <3> QED
      BY <2>2, <3>1, <3>2, <3>3, <3>4, <3>5
  <2>4. MayMove(w, AfterBell[pc[w]])
    BY <2>2 DEF MayMove
  <2> QED
    BY <1>1, <2>1, <2>3, <2>4, PcStep
<1>5. CASE Stop(w)
  <2>1. /\ pc[w] \in {"halt", "guard", "unwind"}
        /\ pc' = [pc EXCEPT ![w] = BeforeBell[pc[w]]]
        /\ pc[w] = "halt" => BeforeBell[pc[w]] = "haltBell"
        /\ pc[w] = "guard" => BeforeBell[pc[w]] = "guardBell"
        /\ pc[w] = "unwind" => BeforeBell[pc[w]] = "unwindBell"
    BY <1>5 DEF Stop, BeforeBell
  <2>2. WorkerOK(BeforeBell[pc[w]], st[w], hand[w], best)
    BY <1>2, <2>1 DEF WorkerOK, WorkerPc, Working, Emptied, Private
  <2>3. MayMove(w, BeforeBell[pc[w]])
    BY <2>1 DEF MayMove
  <2> QED
    BY <1>1, <2>1, <2>2, <2>3, PcStep
<1>6. CASE Count(w)
  <2> DEFINE to == IF pc[w] = "countHalt" THEN "halt" ELSE Onward(st[w])
  <2>1. pc[w] \in {"count", "countHalt"} /\ pc' = [pc EXCEPT ![w] = to]
    BY <1>6 DEF Count
  <2>2. to \in {"halt", "publish"} \/ (to = "fetch" /\ st[w].q.diving)
    BY DEF Onward
  <2> HIDE DEF to
  <2>3. WorkerOK(to, st[w], hand[w], best)
    BY <1>2, <2>1, <2>2 DEF WorkerOK, WorkerPc, Working, Emptied, Private, OneStore
  <2>4. MayMove(w, to)
    BY <2>1, <2>2 DEF MayMove
  <2> QED
    BY <1>1, <2>1, <2>3, <2>4, PcStep
<1> QED
  BY <1>3, <1>4, <1>5, <1>6

-----------------------------------------------------------------------------
(* Steps on the queues *)

\* Where a worker is tells what it has.
LEMMA FetchingIs ==
  ASSUME ParInv, NEW w \in Workers, pc[w] \in {"fetch", "wait"}
  PROVE  hand[w] = NoNode /\ st[w].q.heap = {}
  BY WorkerIs DEF WorkerOK, Working, Private

\* A worker in a dive goes on with its own node.
LEMMA TakeOwnStep ==
  ASSUME ParInv, NEW w \in Workers, TakeOwn(w)
  PROVE  ParInv'
<1>1. PICK r \in Popped(st[w].q) :
        /\ hand' = [hand EXCEPT ![w] = r.node] /\ st' = [st EXCEPT ![w].q = r.rest]
  BY DEF TakeOwn
<1>2. /\ pc[w] = "fetch" /\ pc' = [pc EXCEPT ![w] = "sync"]
      /\ UNCHANGED <<heap, mainPc, best, expired, answer>>
  BY DEF TakeOwn, poolVars
<1> DEFINE t == [st[w] EXCEPT !.q = r.rest]
<1>3. /\ r.rest \in Queues /\ r.node \in Nodes
      /\ Held(st[w].q) = Held(r.rest) \cup {r.node}
      /\ r.rest.heap = {} /\ OneStore(r.rest)
  BY <1>2, WorkerIs, PoppedIs, FetchingIs
<1>4. /\ t \in States /\ t.q = r.rest /\ t.inc = st[w].inc /\ t.conflicts = st[w].conflicts
      /\ t.openLb = st[w].openLb /\ t.hadOpen = st[w].hadOpen /\ t.unbounded = st[w].unbounded
  BY <1>3, WorkerIs DEF States
<1>5. st' = [st EXCEPT ![w] = t]
  BY <1>1, WorkerIs
<1> HIDE DEF t
<1>6. WorkerOK("sync", t, r.node, best)
  BY <1>3, <1>4, WorkerIs DEF WorkerOK, WorkerPc, Working, Emptied, Private, Honest
<1>7. NoneDropped(w, "sync", t, r.node)
  BY <1>2, <1>3, <1>4, FetchingIs, NoNodeIs DEF Around, InSight, NoneDropped
<1>8. Moves(w, "sync", t, r.node)
  BY <1>1, <1>2, <1>5, WorkerIs DEF Moves
<1>9. MayMove(w, "sync") /\ WorkerOK("sync", t, r.node, best')
  BY <1>2, <1>6 DEF MayMove
<1> QED
  BY <1>7, <1>8, <1>9, WorkerStep

\* The pop of the own queue that found nothing.
LEMMA LeftDive ==
  ASSUME ParInv, NEW w \in Workers, AtPop(w), OwnQueueEmpty(w)
  PROVE  \E t \in States :
           /\ st' = [st EXCEPT ![w] = t]
           /\ t.inc = st[w].inc /\ t.conflicts = st[w].conflicts
           /\ t.openLb = st[w].openLb /\ t.hadOpen = st[w].hadOpen
           /\ t.unbounded = st[w].unbounded
           /\ Held(t.q) = Held(st[w].q) /\ t.q.heap = {} /\ OneStore(t.q)
           /\ pc[w] \in {"fetch", "wait"} /\ hand[w] = NoNode
<1>1. pc[w] \in {"fetch", "wait"} /\ st' = [st EXCEPT ![w].q.diving = FALSE]
  BY DEF AtPop, OwnQueueEmpty
<1>2. st[w].q.heap = {} /\ hand[w] = NoNode
  BY <1>1, FetchingIs
<1> DEFINE q == [st[w].q EXCEPT !.diving = FALSE]
           t == [st[w] EXCEPT !.q = q]
<1>3. q \in Queues /\ Held(q) = Held(st[w].q) /\ q.heap = st[w].q.heap
  BY WorkerIs DEF Queues, Held
<1>4. st' = [st EXCEPT ![w] = t]
  BY <1>1, WorkerIs
<1> HIDE DEF q
<1>5. /\ t \in States /\ t.q = q /\ t.inc = st[w].inc /\ t.conflicts = st[w].conflicts
      /\ t.openLb = st[w].openLb /\ t.hadOpen = st[w].hadOpen /\ t.unbounded = st[w].unbounded
  BY <1>3, WorkerIs DEF States
<1> HIDE DEF t
<1> QED
  BY <1>1, <1>2, <1>3, <1>4, <1>5 DEF OneStore

\* SharedPool::pop_blocking: a node of the heap goes into one hand; or the worker waits,
\* or ends.
LEMMA PopSteps ==
  ASSUME ParInv, NEW w \in Workers, Pop(w)
  PROVE  ParInv'
<1>1. /\ AtPop(w) /\ OwnQueueEmpty(w)
      /\ UNCHANGED <<mainPc, best, expired, answer>>
  BY DEF Pop, TakeShared, Sleep, LeaveLoop
<1>2. PICK t \in States :
        /\ st' = [st EXCEPT ![w] = t]
        /\ t.inc = st[w].inc /\ t.conflicts = st[w].conflicts
        /\ t.openLb = st[w].openLb /\ t.hadOpen = st[w].hadOpen
        /\ t.unbounded = st[w].unbounded
        /\ Held(t.q) = Held(st[w].q) /\ t.q.heap = {} /\ OneStore(t.q)
        /\ pc[w] \in {"fetch", "wait"} /\ hand[w] = NoNode
  BY <1>1, LeftDive
<1>3. best' = best /\ best \in Int /\ best <= best /\ (best = Inf \/ IsFinite(best))
  BY <1>1, WorkerIs
<1>4. CASE TakeShared(w)
  <2>1. PICK node \in BestNodes(heap) : PopNode(w, node) /\ hand' = [hand EXCEPT ![w] = node]
    BY <1>4 DEF TakeShared
  <2>2. /\ pc' = [pc EXCEPT ![w] = "sync"] /\ heap' = heap \ {node} /\ node \in heap
        /\ node \in Nodes /\ heap' \in SUBSET Nodes
    BY <1>4, <2>1, WorkerIs DEF TakeShared, PopNode
  <2>3. WorkerOK("sync", t, node, best)
    BY <1>2, <2>2, WorkerIs DEF WorkerOK, WorkerPc, Working, Emptied, Private, Honest
  <2>4. NoneDropped(w, "sync", t, node)
    BY <1>2, <2>2, NoNodeIs DEF Around, InSight, NoneDropped
  <2>5. Moves(w, "sync", t, node) /\ MayMove(w, "sync") /\ WorkerOK("sync", t, node, best')
    BY <1>1, <1>2, <1>3, <2>1, <2>2, <2>3 DEF Moves, MayMove
  <2> QED
    BY <2>4, <2>5, WorkerStep
<1>5. CASE Sleep(w) \/ LeaveLoop(w)
  <2>1. PICK to \in {"wait", "tail"} : pc' = [pc EXCEPT ![w] = to]
    BY <1>5 DEF Sleep, LeaveLoop
  <2>2. heap' = heap /\ hand' = hand /\ heap \in SUBSET Nodes
    BY <1>5, WorkerIs DEF Sleep, LeaveLoop, PopWait, PopStopped, PopAllIdle
  <2>3. hand' = [hand EXCEPT ![w] = NoNode]
    BY <1>2, <2>2, WorkerIs
  <2>4. WorkerOK(to, t, NoNode, best)
    BY <1>2, <2>1, NoNodeIs, WorkerIs DEF WorkerOK, WorkerPc, Working, Emptied, Private, Honest
  <2>5. NoneDropped(w, to, t, NoNode)
    BY <1>2, <2>2 DEF Around, InSight, NoneDropped
  <2>6. Moves(w, to, t, NoNode) /\ MayMove(w, to) /\ WorkerOK(to, t, NoNode, best')
    BY <1>1, <1>2, <1>3, <2>1, <2>2, <2>3, <2>4 DEF Moves, MayMove
  <2> QED
    BY <2>5, <2>6, WorkerStep
<1> QED
  BY <1>4, <1>5 DEF Pop

\* What the worker kept to itself goes into the pool.
LEMMA PublishSteps ==
  ASSUME ParInv, NEW w \in Workers, Publish(w) \/ PublishNothing(w)
  PROVE  ParInv'
<1> DEFINE t == [st[w] EXCEPT !.q = EmptyQueue]
<1>1. /\ pc[w] \in {"publish", "tail"} /\ st' = [st EXCEPT ![w].q = EmptyQueue]
      /\ UNCHANGED <<mainPc, hand, best, expired, answer>>
      /\ heap' = heap \cup Held(st[w].q)
  BY DEF Publish, PublishNothing, Deposit, poolVars
<1>2. PICK to \in {"tailBell", "publishBell", "guard", "fetch"} : pc' = [pc EXCEPT ![w] = to]
  BY DEF Publish, PublishNothing
<1>3. st' = [st EXCEPT ![w] = t]
  BY <1>1, WorkerIs
<1>4. /\ EmptyQueue \in Queues /\ Held(EmptyQueue) = {} /\ OneStore(EmptyQueue)
      /\ EmptyQueue.heap = {}
  BY EmptyQueueIs
<1> DEFINE e == EmptyQueue
           u == [st[w] EXCEPT !.q = e]
<1>5. t = u
  OBVIOUS
<1> HIDE DEF t, e
<1>6. /\ u \in States /\ u.q = e /\ u.inc = st[w].inc /\ u.conflicts = st[w].conflicts
      /\ u.openLb = st[w].openLb /\ u.hadOpen = st[w].hadOpen /\ u.unbounded = st[w].unbounded
  BY <1>4, WorkerIs DEF States, e
<1> HIDE DEF u
<1>7. hand[w] = NoNode /\ hand' = [hand EXCEPT ![w] = NoNode]
  BY <1>1, WorkerIs DEF WorkerOK, Working
<1>8. WorkerOK(to, t, NoNode, best)
  BY <1>2, <1>4, <1>5, <1>6, NoNodeIs, WorkerIs DEF WorkerOK, WorkerPc, Working, Emptied, Private, Honest, e
<1>9. heap' \in SUBSET Nodes
  BY <1>1, WorkerIs, HeldIs
<1>10. NoneDropped(w, to, t, NoNode)
  BY <1>1, <1>5, <1>6, <1>7 DEF Around, InSight, NoneDropped
<1>11. Moves(w, to, t, NoNode)
  BY <1>1, <1>2, <1>3, <1>7, <1>9, WorkerIs DEF Moves
<1>12. MayMove(w, to) /\ WorkerOK(to, t, NoNode, best')
  BY <1>1, <1>8 DEF MayMove
<1> QED
  BY <1>10, <1>11, <1>12, WorkerStep

-----------------------------------------------------------------------------
(* Steps on the node in hand *)

\* The incumbent of the search only improves.
Improved ==
  best' \in Int /\ best' <= best /\ (best' = Inf \/ IsFinite(best'))

\* The incumbent may stay.
LEMMA SameIncumbent == ASSUME ParInv, best' = best PROVE Improved
  BY DEF ParInv, ParTypeOK, Improved

\* Or be replaced by the lesser of the two.
LEMMA BetterIncumbent ==
  ASSUME ParInv, NEW v \in Int, v = Inf \/ IsFinite(v), best' = Lesser(best, v)
  PROVE  Improved /\ best' <= v
  BY DEF ParInv, ParTypeOK, Improved, Lesser

\* What the worker's state must be once the node in hand is consumed.
Settled(w, t, to) ==
  /\ t \in States /\ Follows(st[w], t) /\ OneStore(t.q) /\ best' <= t.inc
  /\ to \in Private \/ (to = "fetch" /\ t.q.heap = {})
  /\ \A p \in Feasible :
       p \in hand[w].box /\ hand[w].lb <= Value[p] =>
         Accounts(t, p) \/ WithinGap(best', Value[p]) \/ t.unbounded

\* The worker is done with its node: what is left of it accounts for it.
LEMMA ConsumeStep ==
  ASSUME ParInv, NEW w \in Workers, pc[w] \in Working, NEW t, NEW to,
         Consume(w, t, to), Settled(w, t, to), Improved,
         UNCHANGED <<heap, mainPc, expired, answer>>
  PROVE  ParInv'
<1>1. /\ t \in States /\ Held(st[w].q) \subseteq Held(t.q) /\ t.openLb <= st[w].openLb
      /\ st[w].unbounded => t.unbounded
      /\ Honest(t) /\ OneStore(t.q) /\ best' <= t.inc
      /\ to \in Private \/ (to = "fetch" /\ t.q.heap = {})
  BY WorkerIs DEF Settled, Follows
<1>2. WorkerOK(to, t, NoNode, best')
  BY <1>1, NoNodeIs DEF WorkerOK, WorkerPc, Working, Emptied, Private
<1>3. Moves(w, to, t, NoNode)
  BY WorkerIs DEF Moves, Consume, Improved
<1>4. MayMove(w, to)
  BY DEF MayMove, Working
<1>5. ASSUME NEW p \in Feasible, Around(heap, st[w], hand[w], p) \/ st[w].openLb <= Value[p]
      PROVE  \/ Around(heap', t, NoNode, p) \/ t.openLb <= Value[p]
             \/ WithinGap(best', Value[p]) \/ t.unbounded
  <2>1. t.openLb \in Int /\ st[w].openLb \in Int /\ Value[p] \in Int
    BY <1>1, WorkerIs, ProblemIs DEF States, Bounds
  <2>2. CASE st[w].openLb <= Value[p]
    BY <1>1, <2>1, <2>2
  <2>3. CASE \E m \in heap \cup Held(st[w].q) : p \in m.box /\ m.lb <= Value[p]
    BY <1>1, <2>3 DEF Around
  <2>4. CASE p \in hand[w].box /\ hand[w].lb <= Value[p]
    BY <2>4 DEF Settled, Accounts, Around
  <2> QED
    BY <1>5, <2>2, <2>3, <2>4 DEF Around
<1>6. NoneDropped(w, to, t, NoNode)
  BY <1>1, <1>5 DEF NoneDropped, InSight
<1> QED
  BY <1>2, <1>3, <1>4, <1>6, WorkerStep

\* What is pruned against the local incumbent is within the gap of the shared one.
LEMMA PrunedByGap ==
  ASSUME ParInv, NEW w \in Workers, NEW lb \in Int, ShouldPrune(lb, st[w].inc),
         NEW p \in Feasible, lb <= Value[p]
  PROVE  WithinGap(best, Value[p])
<1>1. /\ best \in Int /\ st[w].inc \in Int /\ best <= st[w].inc
      /\ best = Inf \/ IsFinite(best)
  BY WorkerIs DEF States
<1>2. Value[p] \in Int /\ Value[p] < Inf /\ Inf \in Int
  BY ProblemIs
<1>3. WithinGap(st[w].inc, lb)
  BY DEF ShouldPrune
<1>4. WithinGap(st[w].inc, Value[p])
  BY <1>1, <1>2, <1>3, GapOfHigherBound
<1>5. IsFinite(best)
  BY <1>1, <1>2, <1>3 DEF WithinGap, IsFinite
<1> QED
  BY <1>1, <1>2, <1>4, <1>5, GapMonotone

\* What is no better than the shared incumbent is within the gap of it.
LEMMA WorseIsWithinGap ==
  ASSUME ParInv, Improved, NEW p \in Feasible, best' <= Value[p]
  PROVE  WithinGap(best', Value[p])
<1>1. Value[p] \in Int /\ IsFinite(Value[p]) /\ Value[p] < Inf /\ Inf \in Int
  BY ProblemIs DEF IsFinite
<1>2. IsFinite(best') /\ best' \in Int
  BY <1>1 DEF Improved, IsFinite
<1> QED
  BY <1>1, <1>2, GapOfWorse

\* Where a worker goes on to after a node.
LEMMA OnwardIs ==
  ASSUME NEW t, OneStore(t.q)
  PROVE  Onward(t) \in Private \/ (Onward(t) = "fetch" /\ t.q.heap = {})
  BY DEF Onward, OneStore, Private

\* A step that keeps the node in hand: its state, its node or its place changes.
LEMMA KeepStep ==
  ASSUME ParInv, NEW w \in Workers, pc[w] \in Working, NEW t, NEW n, NEW to \in {"run", "solve", "branch"},
         pc' = [pc EXCEPT ![w] = to], st' = [st EXCEPT ![w] = t], hand' = [hand EXCEPT ![w] = n],
         UNCHANGED <<heap, best, mainPc, expired, answer>>,
         t \in States, Follows(st[w], t), t.q.heap = {}, best <= t.inc,
         n \in Nodes, n.box = hand[w].box,
         \A p \in Feasible : p \in hand[w].box /\ hand[w].lb <= Value[p] => n.lb <= Value[p]
  PROVE  ParInv'
<1>1. /\ Held(st[w].q) \subseteq Held(t.q) /\ t.openLb <= st[w].openLb
      /\ st[w].unbounded => t.unbounded
      /\ Honest(t)
  BY WorkerIs DEF Follows
<1>2. OneStore(t.q)
  BY DEF OneStore
<1>3. WorkerOK(to, t, n, best')
  BY <1>1, <1>2 DEF WorkerOK, WorkerPc, Working, Emptied, Private
<1>4. Moves(w, to, t, n) /\ MayMove(w, to)
  BY WorkerIs DEF Moves, MayMove, Working
<1>5. ASSUME NEW p \in Feasible, Around(heap, st[w], hand[w], p) \/ st[w].openLb <= Value[p]
      PROVE  Around(heap', t, n, p) \/ t.openLb <= Value[p]
  <2>1. t.openLb \in Int /\ st[w].openLb \in Int /\ Value[p] \in Int
    BY WorkerIs, ProblemIs DEF States, Bounds
  <2>2. CASE st[w].openLb <= Value[p]
    BY <1>1, <2>1, <2>2
  <2>3. CASE \E m \in heap \cup Held(st[w].q) : p \in m.box /\ m.lb <= Value[p]
    BY <1>1, <2>3 DEF Around
  <2>4. CASE p \in hand[w].box /\ hand[w].lb <= Value[p]
    BY <2>4 DEF Around
  <2> QED
    BY <1>5, <2>2, <2>3, <2>4 DEF Around
<1>6. NoneDropped(w, to, t, n)
  BY <1>1, <1>5 DEF NoneDropped, InSight
<1> QED
  BY <1>3, <1>4, <1>6, WorkerStep

\* sync_shared: the view becomes a value the incumbent has now, or had before.
LEMMA SyncStep ==
  ASSUME ParInv, NEW w \in Workers, Sync(w)
  PROVE  ParInv'
<1>1. PICK inc \in {best, st[w].inc} : st' = [st EXCEPT ![w].inc = Lesser(@, inc)]
  BY DEF Sync
<1>2. /\ pc[w] = "sync" /\ pc' = [pc EXCEPT ![w] = "run"]
      /\ UNCHANGED <<heap, hand, best, mainPc, expired, answer>>
  BY DEF Sync, poolVars
<1> DEFINE v == Lesser(st[w].inc, inc)
           t == [st[w] EXCEPT !.inc = v]
<1>3. v \in Int /\ best <= v
  BY WorkerIs DEF States, Lesser
<1>4. st' = [st EXCEPT ![w] = t]
  BY <1>1, WorkerIs
<1> HIDE DEF v
<1>5. t \in States /\ Follows(st[w], t) /\ t.inc = v /\ t.q = st[w].q
  BY <1>3, WorkerIs, SeesIncumbent
<1> HIDE DEF t
<1>6. t.q.heap = {}
  BY <1>2, <1>5, WorkerIs DEF WorkerOK, Private
<1>7. hand' = [hand EXCEPT ![w] = hand[w]]
  BY <1>2, WorkerIs
<1> QED
  BY <1>2, <1>3, <1>4, <1>5, <1>6, <1>7, KeepStep, WorkerIs DEF Working

\* The stop conditions at the head of run_node.
LEMMA RunStopStep ==
  ASSUME ParInv, NEW w \in Workers, RunStop(w)
  PROVE  ParInv'
<1> DEFINE t == Stopped(st[w], hand[w], expired)
<1>1. /\ pc[w] = "run" /\ Consume(w, t, "halt")
      /\ UNCHANGED <<heap, best, mainPc, expired, answer>>
  BY DEF RunStop, poolVars
<1>2. t \in States /\ Keeps(st[w], t) /\ Settles(t, hand[w]) /\ OneStore(t.q)
  BY WorkerIs, StoppedIs
<1> HIDE DEF t
<1>3. Settled(w, t, "halt")
  BY <1>1, <1>2, WorkerIs DEF Settled, Settles, Keeps, Private
<1> QED
  BY <1>1, <1>3, SameIncumbent, ConsumeStep DEF Working

\* At the head of the body, with the queue as MaybeDive leaves it.
LEMMA HeadIs ==
  ASSUME ParInv, NEW w \in Workers, pc[w] = "run", NEW s, s = MaybeDive(st[w], hand[w])
  PROVE  /\ s \in States /\ Keeps(st[w], s) /\ s.q.heap = {} /\ OneStore(s.q)
         /\ s.conflicts = st[w].conflicts /\ s.inc = st[w].inc
<1>1. st[w].q.heap = {}
  BY WorkerIs DEF WorkerOK, Private
<1>2. /\ s \in States /\ Keeps(st[w], s) /\ s.q.heap = st[w].q.heap
      /\ s.conflicts = st[w].conflicts
  BY WorkerIs, MaybeDiveIs
<1> QED
  BY <1>1, <1>2 DEF OneStore, Keeps

\* Pruning before the relaxation: by the bound, by a clause, by propagation.
LEMMA RunPruneStep ==
  ASSUME ParInv, NEW w \in Workers, RunPrune(w)
  PROVE  ParInv'
<1> DEFINE s == MaybeDive(st[w], hand[w])
           t == EndOfDive(s)
<1>1. /\ pc[w] = "run"
      /\ \/ ShouldPrune(hand[w].lb, s.inc) /\ Consume(w, t, Onward(t))
         \/ /\ Conflicted(s, hand[w]) \/ MayPropagate(hand[w].box)
            /\ Consume(w, s, Onward(s))
      /\ UNCHANGED <<heap, best, mainPc, expired, answer>>
  BY DEF RunPrune, poolVars
<1>2. /\ s \in States /\ Keeps(st[w], s) /\ OneStore(s.q)
      /\ s.conflicts = st[w].conflicts /\ s.inc = st[w].inc
  BY <1>1, HeadIs
<1> HIDE DEF s
<1>3. Keeps(s, t) /\ OneStore(t.q) /\ t \in States
  BY <1>2, EndOfDiveIs DEF Keeps, Follows
<1> HIDE DEF t
<1>4. Keeps(st[w], t)
  BY <1>2, <1>3, WorkerIs, KeepsTransitive
<1>5. CASE ShouldPrune(hand[w].lb, s.inc) /\ Consume(w, t, Onward(t))
  <2>1. hand[w].lb \in Int
    BY WorkerIs DEF Nodes, Bounds
  <2>2. \A p \in Feasible : hand[w].lb <= Value[p] => WithinGap(best', Value[p])
    BY <1>1, <1>2, <1>5, <2>1, PrunedByGap
  <2>3. Settled(w, t, Onward(t))
    BY <1>1, <1>3, <1>4, <2>2, WorkerIs, OnwardIs DEF Settled, Keeps
  <2> QED
    BY <1>1, <1>5, <2>3, SameIncumbent, ConsumeStep DEF Working
<1>6. CASE (Conflicted(s, hand[w]) \/ MayPropagate(hand[w].box)) /\ Consume(w, s, Onward(s))
  <2>1. hand[w].box \cap Feasible = {}
    <3>1. \A clause \in s.conflicts : clause \cap Feasible = {}
      BY <1>2, WorkerIs DEF Honest
    <3> QED
      BY <1>6, <3>1 DEF Conflicted, MayPropagate
  <2>2. Settled(w, s, Onward(s))
    BY <1>1, <1>2, <2>1, WorkerIs, OnwardIs DEF Settled, Keeps
  <2> QED
    BY <1>1, <1>6, <2>2, SameIncumbent, ConsumeStep DEF Working
<1> QED
  BY <1>1, <1>5, <1>6

\* The node goes to the relaxation, in a dive perhaps.
LEMMA RunSolveStep ==
  ASSUME ParInv, NEW w \in Workers, RunSolve(w)
  PROVE  ParInv'
<1> DEFINE s == MaybeDive(st[w], hand[w])
<1>1. /\ pc[w] = "run" /\ pc' = [pc EXCEPT ![w] = "solve"]
      /\ st' = [st EXCEPT ![w] = s]
      /\ UNCHANGED <<heap, hand, best, mainPc, expired, answer>>
  BY DEF RunSolve, poolVars
<1>2. s \in States /\ Keeps(st[w], s) /\ s.q.heap = {} /\ s.inc = st[w].inc
  BY <1>1, HeadIs
<1> HIDE DEF s
<1>3. hand' = [hand EXCEPT ![w] = hand[w]]
  BY <1>1, WorkerIs
<1> QED
  BY <1>1, <1>2, <1>3, KeepStep, WorkerIs DEF Working, Keeps

\* A node consumed by a state that accounts for all of it.
LEMMA SettledStep ==
  ASSUME ParInv, NEW w \in Workers, pc[w] = "solve", NEW t, NEW to \in {"count", "countHalt"},
         Consume(w, t, to), UNCHANGED <<heap, best, mainPc, expired, answer>>,
         t \in States, Keeps(st[w], t), OneStore(t.q), Settles(t, hand[w]) \/ t.unbounded
  PROVE  ParInv'
<1>1. Settled(w, t, to)
  BY WorkerIs DEF Settled, Settles, Keeps, Private
<1> QED
  BY <1>1, SameIncumbent, ConsumeStep DEF Working

\* The relaxation failed, in one of the ways the code tells apart.
LEMMA SolveFailedStep ==
  ASSUME ParInv, NEW w \in Workers, SolveFailed(w)
  PROVE  ParInv'
<1>1. /\ pc[w] = "solve"
      /\ UNCHANGED <<heap, best, mainPc, expired, answer>>
  BY DEF SolveFailed, poolVars
<1>2. PICK r \in Relaxations(hand[w].box) :
        \/ /\ r.status = "infeasible"
           /\ Consume(w, AfterInfeasible(st[w], hand[w]), "count")
        \/ /\ r.status = "unbounded"
           /\ Consume(w, AfterUnbounded(st[w]), "countHalt")
        \/ /\ r.status = "timeout"
           /\ Consume(w, AfterTimeout(st[w], hand[w]), "countHalt")
        \/ /\ r.status \in {"truncated", "untrusted"}
           /\ \E s \in AfterUntrusted(st[w], hand[w]) : Consume(w, s, "count")
        \/ /\ r.status = "corrupt"
           /\ Consume(w, GiveUp(st[w], hand[w]), "count")
  BY DEF SolveFailed
<1>3. st[w] \in States /\ hand[w] \in Nodes /\ hand[w].box \in SUBSET Points /\ OneStore(st[w].q)
  BY WorkerIs DEF Nodes
<1>4. /\ r.status \in Statuses
      /\ r.status = "infeasible" => hand[w].box \cap Feasible = {}
  BY <1>3, RelaxationIs
<1>5. CASE r.status = "infeasible" /\ Consume(w, AfterInfeasible(st[w], hand[w]), "count")
  BY <1>1, <1>3, <1>4, <1>5, InfeasibleIs, SettledStep
<1>6. CASE r.status = "unbounded" /\ Consume(w, AfterUnbounded(st[w]), "countHalt")
  BY <1>1, <1>3, <1>4, <1>6, UnboundedIs, SettledStep
<1>7. CASE r.status = "timeout" /\ Consume(w, AfterTimeout(st[w], hand[w]), "countHalt")
  BY <1>1, <1>3, <1>7, TimeoutIs, SettledStep
<1>8. ASSUME NEW s \in AfterUntrusted(st[w], hand[w]), Consume(w, s, "count")
      PROVE  ParInv'
  BY <1>1, <1>3, <1>8, UntrustedIs, SettledStep
<1>9. CASE r.status = "corrupt" /\ Consume(w, GiveUp(st[w], hand[w]), "count")
  BY <1>1, <1>3, <1>9, GiveUpIs, SettledStep
<1> QED
  BY <1>2, <1>5, <1>6, <1>7, <1>8, <1>9

\* The relaxation is pruned by its objective.
LEMMA SolvePruneStep ==
  ASSUME ParInv, NEW w \in Workers, SolvePrune(w)
  PROVE  ParInv'
<1>1. /\ pc[w] = "solve" /\ Consume(w, st[w], "count")
      /\ UNCHANGED <<heap, best, mainPc, expired, answer>>
  BY DEF SolvePrune, poolVars
<1>2. PICK r \in Relaxations(hand[w].box) :
        r.status = "optimal" /\ ShouldPrune(Tightened(hand[w], r).lb, st[w].inc)
  BY DEF SolvePrune
<1>3. /\ Tightened(hand[w], r) \in Nodes
      /\ \A p \in Feasible : p \in hand[w].box /\ hand[w].lb <= Value[p] =>
           Tightened(hand[w], r).lb <= Value[p]
  BY <1>2, WorkerIs, TightenedIs
<1>4. Tightened(hand[w], r).lb \in Int
  BY <1>3 DEF Nodes, Bounds
<1>5. \A p \in Feasible : p \in hand[w].box /\ hand[w].lb <= Value[p] => WithinGap(best', Value[p])
  BY <1>1, <1>2, <1>3, <1>4, PrunedByGap
<1>6. Keeps(st[w], st[w])
  BY WorkerIs DEF Keeps, Follows, States, Bounds
<1>7. Settled(w, st[w], "count")
  BY <1>1, <1>5, <1>6, WorkerIs DEF Settled, Keeps, Private
<1> QED
  BY <1>1, <1>7, SameIncumbent, ConsumeStep DEF Working

\* The relaxation is integral: its point is offered to the shared incumbent.
LEMMA SolveLeafStep ==
  ASSUME ParInv, NEW w \in Workers, SolveLeaf(w)
  PROVE  ParInv'
<1>1. /\ pc[w] = "solve"
      /\ UNCHANGED <<heap, mainPc, expired, answer>>
  BY DEF SolveLeaf, poolVars
<1>2. PICK r \in Relaxations(hand[w].box) :
        /\ r.status = "optimal" /\ r.integral
        /\ best' = Lesser(best, r.obj)
        /\ Consume(w, EndOfDive([st[w] EXCEPT !.inc = Lesser(@, best')]), "count")
  BY DEF SolveLeaf
<1>3. /\ r.obj \in Int /\ IsFinite(r.obj)
      /\ \A p \in Feasible : p \in hand[w].box => r.obj <= Value[p]
  BY <1>2, WorkerIs, RelaxationIs DEF Nodes, IsFinite
<1>4. Improved /\ best' <= r.obj
  BY <1>2, <1>3, BetterIncumbent
<1>5. \A p \in Feasible : p \in hand[w].box => WithinGap(best', Value[p])
  <2>1. SUFFICES ASSUME NEW p \in Feasible, p \in hand[w].box PROVE best' <= Value[p]
    BY <1>4, WorseIsWithinGap
  <2>2. Value[p] \in Int /\ best' \in Int /\ r.obj <= Value[p]
    BY <1>3, <1>4, <2>1, ProblemIs DEF Improved
  <2> QED
    BY <1>3, <1>4, <2>2
<1> DEFINE v == Lesser(st[w].inc, best')
           s == [st[w] EXCEPT !.inc = v]
           t == EndOfDive(s)
<1>6. v \in Int /\ best' <= v
  BY <1>4, WorkerIs DEF States, Lesser, Improved
<1>7. Consume(w, t, "count")
  BY <1>2
<1> HIDE DEF v
<1>8. s \in States /\ Follows(st[w], s) /\ s.inc = v
  BY <1>6, WorkerIs, SeesIncumbent
<1> HIDE DEF s
<1>9. Follows(s, t) /\ t.inc = v /\ OneStore(t.q) /\ t \in States
  BY <1>8, EndOfDiveIs DEF Keeps, Follows
<1> HIDE DEF t
<1>10. Follows(st[w], t)
  BY <1>8, <1>9, WorkerIs, FollowsTransitive
<1>11. Settled(w, t, "count")
  BY <1>5, <1>6, <1>9, <1>10 DEF Settled, Private
<1> QED
  BY <1>1, <1>4, <1>7, <1>11, ConsumeStep DEF Working

\* The relaxation is fractional: its bound is the bound of the node.
LEMMA SolveFractionalStep ==
  ASSUME ParInv, NEW w \in Workers, SolveFractional(w)
  PROVE  ParInv'
<1>1. /\ pc[w] = "solve" /\ pc' = [pc EXCEPT ![w] = "branch"]
      /\ UNCHANGED <<heap, st, best, mainPc, expired, answer>>
  BY DEF SolveFractional, poolVars
<1>2. PICK r \in Relaxations(hand[w].box) :
        r.status = "optimal" /\ hand' = [hand EXCEPT ![w] = Tightened(@, r)]
  BY DEF SolveFractional
<1> DEFINE n == Tightened(hand[w], r)
<1>3. /\ n \in Nodes /\ n.box = hand[w].box
      /\ \A p \in Feasible : p \in hand[w].box /\ hand[w].lb <= Value[p] => n.lb <= Value[p]
  BY <1>2, WorkerIs, TightenedIs
<1>4. hand' = [hand EXCEPT ![w] = n] /\ st' = [st EXCEPT ![w] = st[w]]
  BY <1>1, <1>2, WorkerIs
<1> HIDE DEF n
<1>5. Follows(st[w], st[w])
  BY WorkerIs DEF Follows, States, Bounds
<1>6. st[w].q.heap = {}
  BY <1>1, WorkerIs DEF WorkerOK, Private
<1> QED
  BY <1>1, <1>3, <1>4, <1>5, <1>6, KeepStep, WorkerIs DEF Working

\* The node is split, a heuristic may improve the incumbent before.
LEMMA BranchStep ==
  ASSUME ParInv, NEW w \in Workers, Branch(w)
  PROVE  ParInv'
<1>1. pc[w] = "branch" /\ UNCHANGED <<heap, mainPc, expired, answer>>
  BY DEF Branch, poolVars
<1>2. PICK found \in {Inf} \cup {Value[p] : p \in Feasible} :
        /\ best' = Lesser(best, found)
        /\ \E t \in AfterFractional(IF found = Inf THEN st[w]
                                    ELSE [st[w] EXCEPT !.inc = Lesser(@, best')], hand[w]) :
             Consume(w, t, "count")
  BY DEF Branch
<1>3. found \in Int /\ (found = Inf \/ IsFinite(found))
  BY <1>2, ProblemIs DEF IsFinite
<1>4. Improved /\ best' <= found
  BY <1>2, <1>3, BetterIncumbent
<1> DEFINE v == Lesser(st[w].inc, best')
           u == [st[w] EXCEPT !.inc = v]
           s == IF found = Inf THEN st[w] ELSE u
<1>5. PICK t \in AfterFractional(s, hand[w]) : Consume(w, t, "count")
  BY <1>2
<1>6. v \in Int /\ best' <= v
  BY <1>4, WorkerIs DEF States, Lesser, Improved
<1> HIDE DEF v
<1>7. u \in States /\ Follows(st[w], u) /\ u.inc = v /\ u.q = st[w].q
  BY <1>6, WorkerIs, SeesIncumbent
<1>8. s \in States /\ Follows(st[w], s) /\ s.q = st[w].q /\ best' <= s.inc
  <2>1. Follows(st[w], st[w]) /\ st[w].inc \in Int
    BY WorkerIs DEF Follows, States, Bounds
  <2>2. best' <= st[w].inc
    BY <1>4, <2>1, WorkerIs DEF Improved
  <2> HIDE DEF u
  <2> QED
    BY <1>6, <1>7, <2>1, <2>2, WorkerIs
<1> HIDE DEF s
<1>9. /\ t \in States /\ Keeps(s, t)
      /\ OneStore(s.q) => OneStore(t.q)
      /\ \A p \in Feasible : p \in hand[w].box /\ hand[w].lb <= Value[p] =>
           Accounts(t, p) \/ (s.inc # Inf /\ s.inc < Value[p])
  BY <1>5, <1>8, WorkerIs, FractionalIs
<1>10. \A p \in Feasible : s.inc < Value[p] => WithinGap(best', Value[p])
  <2>1. SUFFICES ASSUME NEW p \in Feasible, s.inc < Value[p] PROVE best' <= Value[p]
    BY <1>4, WorseIsWithinGap
  <2>2. Value[p] \in Int /\ s.inc \in Int /\ best' \in Int
    BY <1>4, <1>8, ProblemIs DEF States, Improved
  <2> QED
    BY <1>8, <2>1, <2>2
<1>11. Follows(st[w], t)
  BY <1>8, <1>9, WorkerIs, FollowsTransitive DEF Keeps
<1>12. Settled(w, t, "count")
  BY <1>8, <1>9, <1>10, <1>11, WorkerIs DEF Settled, Private, Keeps
<1> QED
  BY <1>1, <1>4, <1>5, <1>12, ConsumeStep DEF Working

\* The panic: what the worker held is gone, which PointsSafe forgives.
LEMMA PanicStep ==
  ASSUME ParInv, NEW w \in Workers, Panic(w)
  PROVE  ParInv'
<1> DEFINE e == EmptyQueue
           t == [st[w] EXCEPT !.q = e]
<1>1. /\ pc[w] \in {"solve", "branch"} /\ Consume(w, t, "unwind")
      /\ UNCHANGED <<heap, best, mainPc, expired, answer>>
  BY DEF Panic, poolVars
<1>2. e \in Queues /\ Held(e) = {} /\ OneStore(e) /\ e.heap = {}
  BY EmptyQueueIs
<1> HIDE DEF e
<1>3. /\ t \in States /\ t.q = e /\ t.inc = st[w].inc /\ t.conflicts = st[w].conflicts
      /\ t.openLb = st[w].openLb /\ t.hadOpen = st[w].hadOpen /\ t.unbounded = st[w].unbounded
  BY <1>2, WorkerIs DEF States
<1> HIDE DEF t
<1>4. WorkerOK("unwind", t, NoNode, best')
  BY <1>1, <1>2, <1>3, NoNodeIs, WorkerIs DEF WorkerOK, WorkerPc, Working, Emptied, Private, Honest
<1>5. Moves(w, "unwind", t, NoNode) /\ MayMove(w, "unwind")
  BY <1>1, WorkerIs DEF Moves, MayMove, Consume
<1>6. NoneDropped(w, "unwind", t, NoNode)
  BY <1>1, <1>3 DEF NoneDropped
<1> QED
  BY <1>4, <1>5, <1>6, WorkerStep

-----------------------------------------------------------------------------
(* The main thread *)

\* What the search may answer.
Honoured(a) ==
  \/ a.status = "Unbounded" /\ "unbounded" \in Statuses
  \/ /\ a.status = "Optimal" /\ best # Inf /\ a.obj = best
     /\ \A p \in Feasible : Tolerated(best, Value[p])
     /\ a.lb <= a.obj /\ Tolerated(a.obj, a.lb)
  \/ a.status = "Infeasible" /\ Feasible = {}
  \/ a.status = "Suboptimal" /\ best # Inf /\ a.obj = best
  \/ a.status = "Timeout" /\ a.obj = best
  \/ a.status = "MaxIterations" /\ best = Inf
  \/ a.status \in {"panic", "ResourceExhausted"}

\* When every worker left in order, what they report and what the pool still holds
\* account for every point.
LEMMA ReducedIs ==
  ASSUME ParInv, \A w \in Workers : pc[w] \in {"unborn", "exited"},
         NEW a, a = Finalize(Absorbed({st[w] : w \in Workers}), heap, best)
  PROVE  Honoured(a) /\ a.status # "none"
<1> DEFINE S == {st[w] : w \in Workers}
           out == Absorbed(S)
<1>1. \A w \in Workers : st[w] \in States
  BY WorkerIs
<1>2. S \in SUBSET States /\ S # {}
  BY <1>1, WorkersAssumption
<1>3. \A w \in Workers : /\ Honest(st[w]) /\ Held(st[w].q) = {} /\ hand[w].box = {}
                         /\ st[w] \in S
  <2>1. SUFFICES ASSUME NEW w \in Workers
                 PROVE  Honest(st[w]) /\ Held(st[w].q) = {} /\ hand[w].box = {}
    OBVIOUS
  <2> QED
    BY NoNodeIs, WorkerIs DEF WorkerOK, Working, Emptied
<1>4. \A s \in S : Honest(s)
  BY <1>3
<1>5. \A p \in Feasible : ~out.unbounded =>
        \/ \E n \in heap : p \in n.box /\ n.lb <= Value[p]
        \/ out.openLb <= Value[p]
        \/ WithinGap(best, Value[p])
  <2>1. SUFFICES ASSUME NEW p \in Feasible, ~out.unbounded
                 PROVE  \/ \E n \in heap : p \in n.box /\ n.lb <= Value[p]
                        \/ out.openLb <= Value[p]
                        \/ WithinGap(best, Value[p])
    OBVIOUS
  <2>2. /\ out.openLb \in Int /\ Value[p] \in Int
        /\ \A w \in Workers : st[w].openLb \in Int /\ out.openLb <= st[w].openLb /\ ~st[w].unbounded
    <3> HIDE DEF S
    <3>1. /\ out.openLb \in Int /\ \A s \in S : s.openLb \in Int /\ out.openLb <= s.openLb
          /\ \A s \in S : ~s.unbounded
      BY <1>2, <2>1, AbsorbedIs DEF States, Bounds
    <3> QED
      BY <1>3, <3>1, ProblemIs
  <2>3. ~Panicking
    BY DEF Panicking
  <2>4. Safe(p)
    BY <2>2, <2>3 DEF ParInv, PointsSafe
  <2>5. \A w \in Workers : st[w].openLb <= Value[p] => out.openLb <= Value[p]
    <3> HIDE DEF out
    <3> QED
      BY <2>2
  <2>6. \A w \in Workers : Around(heap, st[w], hand[w], p) =>
          \E n \in heap : p \in n.box /\ n.lb <= Value[p]
    BY <1>3 DEF Around
  <2> QED
    BY <2>4, <2>5, <2>6 DEF Safe
<1>6. /\ out.openLb \in Bounds
      /\ ~out.hadOpen => out.openLb = Inf
      /\ out.unbounded => "unbounded" \in Statuses
  <2> HIDE DEF S
  <2>1. /\ out.openLb \in Bounds /\ \E s \in S : out.openLb = s.openLb
        /\ out.hadOpen <=> \E s \in S : s.hadOpen
        /\ out.unbounded <=> \E s \in S : s.unbounded
    BY <1>2, AbsorbedIs
  <2> HIDE DEF out
  <2> QED
    BY <1>4, <2>1 DEF Honest
<1>7. best \in Int /\ best <= Inf /\ (best = Inf \/ IsFinite(best)) /\ heap \in SUBSET Nodes
  <2>1. best \in Int /\ (best = Inf \/ IsFinite(best)) /\ heap \in SUBSET Nodes
    BY DEF ParInv, ParTypeOK
  <2> QED
    BY <2>1, ProblemIs DEF IsFinite
<1>8. a = Finalize(out, heap, best)
  OBVIOUS
<1> HIDE DEF out, S
<1>9. /\ a.status # "none"
      /\ \/ a.status = "Unbounded" /\ out.unbounded
         \/ /\ a.status = "Optimal" /\ best # Inf /\ a.obj = best
            /\ \A p \in Feasible : Tolerated(best, Value[p])
            /\ a.lb <= a.obj /\ Tolerated(a.obj, a.lb)
         \/ a.status = "Infeasible" /\ Feasible = {}
         \/ a.status = "Suboptimal" /\ best # Inf /\ a.obj = best
         \/ a.status = "Timeout" /\ a.obj = best
         \/ a.status = "MaxIterations" /\ best = Inf
  BY <1>5, <1>6, <1>7, <1>8, FinalizeIs
<1> QED
  BY <1>6, <1>9 DEF Honoured

\* Every answer is given by Join, and keeps the promises.
LEMMA JoinIs ==
  ASSUME ParInv, Join
  PROVE  Honoured(answer') /\ answer'.status # "none" /\ best' = best
<1>1. best' = best
  BY DEF Join, searchVars
<1>2. CASE answer' = Answer("panic", Inf, -Inf) \/ answer' = Answer("ResourceExhausted", Inf, -Inf)
  BY <1>1, <1>2 DEF Answer, Honoured
<1>3. CASE /\ \A w \in Workers : pc[w] # "dead"
           /\ answer' = Finalize(Absorbed({st[w] : w \in Workers}), heap, best)
  <2>1. \A w \in Workers : pc[w] \in {"unborn", "exited"}
    BY <1>3 DEF Join
  <2> QED
    BY <1>1, <1>3, <2>1, ReducedIs
<1> QED
  BY <1>1, <1>2, <1>3 DEF Join

\* The steps of the main thread, the join among them, and of the clock.
LEMMA MainSteps ==
  ASSUME ParInv, Refuse \/ RefuseBell \/ AllSpawned \/ Join \/ Expire
  PROVE  ParInv'
<1>1. UNCHANGED <<heap, pc, st, hand, best>>
  BY DEF Refuse, RefuseBell, AllSpawned, Join, Expire, SetStopped, NotifyAll, poolVars, searchVars
<1>2. expired' \in BOOLEAN
  BY WorkersAssumption
     DEF Refuse, RefuseBell, AllSpawned, Join, Expire, ParInv, ParTypeOK
<1>3. ParTypeOK'
  BY <1>1, <1>2 DEF ParInv, ParTypeOK
<1>4. WorkersOK'
  BY <1>1 DEF ParInv, WorkersOK, WorkerOK
<1>5. PointsSafe'
  BY <1>1 DEF ParInv, PointsSafe, Safe, Around, Panicking
<1>6. MainOK'
  <2>1. CASE Join
    <3>1. Over' /\ answer'.status # "none"
      BY <2>1, JoinIs DEF Join, Over
    <3> QED
      BY <1>1, <2>1, <3>1 DEF MainOK, Join
  <2>2. CASE Refuse \/ RefuseBell \/ AllSpawned
    <3>1. ~Over /\ ~Over' /\ answer' = answer
      BY <2>2 DEF Refuse, RefuseBell, AllSpawned, Over
    <3> QED
      BY <3>1 DEF ParInv, MainOK
  <2>3. CASE Expire
    <3>1. mainPc' = mainPc /\ answer' = answer
      BY <2>3 DEF Expire
    <3> QED
      BY <1>1, <3>1 DEF ParInv, MainOK, Over
  <2> QED
    BY <2>1, <2>2, <2>3
<1> QED
  BY <1>3, <1>4, <1>5, <1>6 DEF ParInv

\* Nothing happens.
LEMMA StutterStep ==
  ASSUME ParInv, UNCHANGED vars
  PROVE  ParInv'
<1>1. UNCHANGED <<heap, pc, st, hand, best, mainPc, answer, expired>>
  BY DEF vars
<1> QED
  BY <1>1 DEF ParInv, ParTypeOK, WorkersOK, WorkerOK, MainOK, Over, PointsSafe, Safe, Around, Panicking

\* The invariant holds when the search begins.
LEMMA InitHolds ==
  ASSUME Init
  PROVE  ParInv
<1>1. /\ heap = {RootNode} /\ pc = [w \in Workers |-> "unborn"]
      /\ best \in {Inf} \cup {Value[p] : p \in Feasible}
      /\ st = [w \in Workers |-> NewSearch(best)]
      /\ hand = [w \in Workers |-> NoNode]
      /\ mainPc = "spawn" /\ expired = FALSE /\ answer = NoAnswer
  BY DEF Init, PoolInit
<1>2. best \in Int /\ (best = Inf \/ IsFinite(best)) /\ best <= best
  <2>1. CASE best = Inf
    BY <2>1, ProblemIs
  <2>2. ASSUME NEW p \in Feasible, best = Value[p]
        PROVE  best \in Int /\ IsFinite(best) /\ best <= best
    BY <2>2, ProblemIs DEF IsFinite
  <2> QED
    BY <1>1, <2>1, <2>2
<1>3. /\ RootNode \in Nodes /\ RootNode.box = Points /\ RootNode.lb = -Inf
  BY ProblemIs DEF RootNode, Nodes
<1> DEFINE s == NewSearch(best)
<1>4. /\ s \in States /\ Honest(s) /\ s.inc = best /\ s.q.heap = {} /\ Held(s.q) = {}
      /\ OneStore(s.q) /\ s.openLb = Inf
  BY <1>2, NewSearchIs, EmptyQueueIs
<1>5. st = [w \in Workers |-> s]
  BY <1>1
<1> HIDE DEF s
<1>6. ParTypeOK
  BY <1>1, <1>2, <1>3, <1>4, <1>5, NoNodeIs DEF ParTypeOK, WorkerPc
<1>7. WorkersOK
  BY <1>1, <1>2, <1>4, <1>5, NoNodeIs DEF WorkersOK, WorkerOK, WorkerPc, Working, Emptied, Private
<1>8. MainOK
  BY <1>1 DEF MainOK, Over, NoAnswer, Answer
<1>9. PointsSafe
  <2>1. SUFFICES ASSUME NEW p \in Feasible PROVE Safe(p)
    BY DEF PointsSafe
  <2>2. RootNode \in heap /\ p \in RootNode.box /\ RootNode.lb <= Value[p]
    <3>1. Value[p] \in Int /\ -Inf < Value[p] /\ -Inf \in Int /\ p \in Points
      BY ProblemIs DEF Bounds
    <3> QED
      BY <1>1, <1>3, <3>1
  <2>3. PICK w \in Workers : TRUE
    BY WorkersAssumption
  <2>4. Around(heap, st[w], hand[w], p)
    BY <2>2 DEF Around
  <2> QED
    BY <2>3, <2>4 DEF Safe
<1> QED
  BY <1>6, <1>7, <1>8, <1>9 DEF ParInv

\* Every step keeps it.
LEMMA NextKeeps ==
  ASSUME ParInv, [Next]_vars
  PROVE  ParInv'
<1>1. CASE Refuse \/ RefuseBell \/ AllSpawned \/ Join \/ Expire
  BY <1>1, MainSteps
<1>2. CASE Finished \/ UNCHANGED vars
  BY <1>2, StutterStep DEF Finished
<1>3. ASSUME NEW w \in Workers, Spawn(w) \/ Pop(w) \/ Work(w)
      PROVE  ParInv'
  <2>1. CASE Spawn(w) \/ Bell(w) \/ Stop(w) \/ Count(w)
    BY <2>1, PcSteps
  <2>2. CASE Pop(w) \/ TakeOwn(w) \/ Publish(w) \/ PublishNothing(w)
    BY <2>2, PopSteps, TakeOwnStep, PublishSteps
  <2>3. CASE Sync(w) \/ RunStop(w) \/ RunPrune(w) \/ RunSolve(w)
    BY <2>3, SyncStep, RunStopStep, RunPruneStep, RunSolveStep
  <2>4. CASE Solve(w)
    BY <2>4, SolveFailedStep, SolvePruneStep, SolveLeafStep, SolveFractionalStep DEF Solve
  <2>5. CASE Branch(w) \/ Panic(w)
    BY <2>5, BranchStep, PanicStep
  <2> QED
    BY <1>3, <2>1, <2>2, <2>3, <2>4, <2>5 DEF Work
<1> QED
  BY <1>1, <1>2, <1>3 DEF Next

\* The inductive invariant holds of every behaviour.
LEMMA ParInvHolds == Spec => []ParInv
<1>1. Init => ParInv
  BY InitHolds
<1>2. ParInv /\ [Next]_vars => ParInv'
  BY NextKeeps
<1> QED
  BY <1>1, <1>2, PTL DEF Spec

-----------------------------------------------------------------------------
(* Safety *)

\* No region is ever lost, whatever the interleaving: a feasible point is in a node
\* somebody holds, in a region given up with its bound, or no better than the shared
\* incumbent up to the gap.
THEOREM NoRegionEverLost == Spec => []NothingLost
<1>1. ParInv => NothingLost
  BY SafeIsNothingLost DEF ParInv, PointsSafe, NothingLost
<1> QED
  BY <1>1, ParInvHolds, PTL

\* A worker's copy of the incumbent is never better than the shared one.
THEOREM StaleCopiesAreSafe == Spec => []StaleIsConservative
<1>1. ParInv => StaleIsConservative
  BY DEF ParInv, WorkersOK, WorkerOK, StaleIsConservative
<1> QED
  BY <1>1, ParInvHolds, PTL

\* Outside a dive nobody keeps nodes from the others.
THEOREM BestNodesArePublic == Spec => []OnlyDivesArePrivate
<1>1. ParInv => OnlyDivesArePrivate
  BY DEF ParInv, WorkersOK, WorkerOK, OneStore, Private, OnlyDivesArePrivate
<1> QED
  BY <1>1, ParInvHolds, PTL

-----------------------------------------------------------------------------
(* The node budget *)

\* The workers past the check of the budget, whose node is not counted yet.
Uncounted == {w \in Workers : pc[w] \in {"solve", "branch", "count", "countHalt"}}

BudgetInv ==
  /\ processed \in Nat
  /\ processed + Cardinality(Uncounted) < MaxNodes + Cardinality(Workers)

\* They are at most all the workers.
LEMMA UncountedIs ==
  /\ IsFiniteSet(Uncounted) /\ Cardinality(Uncounted) \in Nat
  /\ Cardinality(Uncounted) <= Cardinality(Workers) /\ Cardinality(Workers) \in Nat
  BY WorkersAssumption, FS_Subset, FS_CardinalityType DEF Uncounted

\* A step that counts no node and takes none past the check.
LEMMA NoneAdmitted ==
  ASSUME BudgetInv, processed' = processed, Uncounted' \subseteq Uncounted
  PROVE  BudgetInv'
<1>1. /\ Cardinality(Uncounted') \in Nat /\ Cardinality(Uncounted') <= Cardinality(Uncounted)
      /\ Cardinality(Uncounted) \in Nat /\ Cardinality(Workers) \in Nat
  BY UncountedIs, FS_Subset, FS_CardinalityType
<1>2. MaxNodes \in Nat
  BY LimitAssumption
<1> QED
  BY <1>1, <1>2 DEF BudgetInv

\* A worker that moves among the places past the check, or out of them, keeps the budget.
LEMMA WorkersKeepBudget ==
  ASSUME BudgetInv, pc \in [Workers -> WorkerPc], NEW w \in Workers, NEW to,
         pc' = [pc EXCEPT ![w] = to], processed' = processed,
         \/ to \notin {"solve", "branch", "count", "countHalt"}
         \/ pc[w] \in {"solve", "branch", "count", "countHalt"}
  PROVE  BudgetInv'
<1>1. Uncounted' \subseteq Uncounted
  BY DEF Uncounted
<1> QED
  BY <1>1, NoneAdmitted

\* Every step keeps the budget: the check admits a worker only below the limit.
LEMMA NextKeepsBudget ==
  ASSUME BudgetInv, ParInv, [Next]_vars
  PROVE  BudgetInv'
<1>1. pc \in [Workers -> WorkerPc]
  BY DEF ParInv, ParTypeOK
<1>2. CASE \/ Refuse \/ RefuseBell \/ AllSpawned \/ Join \/ Expire \/ Finished
           \/ UNCHANGED vars
  <2>1. processed' = processed /\ pc' = pc
    BY <1>2 DEF Refuse, RefuseBell, AllSpawned, Join, Expire, Finished, vars, searchVars
  <2>2. Uncounted' \subseteq Uncounted
    BY <2>1 DEF Uncounted
  <2> QED
    BY <2>1, <2>2, NoneAdmitted
<1>3. ASSUME NEW w \in Workers, Spawn(w) \/ Pop(w) \/ Work(w)
      PROVE  BudgetInv'
  <2>1. CASE Spawn(w) \/ Pop(w) \/ TakeOwn(w) \/ Sync(w) \/ Publish(w) \/ PublishNothing(w)
    <3>1. PICK to \in {"fetch", "sync", "wait", "tail", "run", "tailBell", "publishBell", "guard"} :
            pc' = [pc EXCEPT ![w] = to]
      BY <2>1 DEF Spawn, Pop, TakeShared, Sleep, LeaveLoop, TakeOwn, Sync, Publish, PublishNothing
    <3>2. processed' = processed
      BY <2>1 DEF Spawn, Pop, TakeShared, Sleep, LeaveLoop, TakeOwn, Sync, Publish,
                  PublishNothing, searchVars
    <3> QED
      BY <1>1, <3>1, <3>2, WorkersKeepBudget
  <2>2. CASE Bell(w) \/ Stop(w)
    <3>1. PICK to \in {"fetch", "tail", "guard", "exited", "dead", "haltBell", "guardBell", "unwindBell"} :
            pc' = [pc EXCEPT ![w] = to]
      BY <2>2 DEF Bell, Stop, AfterBell, BeforeBell
    <3>2. processed' = processed
      BY <2>2 DEF Bell, Stop, searchVars
    <3> QED
      BY <1>1, <3>1, <3>2, WorkersKeepBudget
  <2>3. CASE RunStop(w) \/ RunPrune(w)
    <3>1. PICK to \in {"halt", "fetch", "publish"} : pc' = [pc EXCEPT ![w] = to]
      BY <2>3 DEF RunStop, RunPrune, Consume, Onward
    <3>2. processed' = processed
      BY <2>3 DEF RunStop, RunPrune
    <3> QED
      BY <1>1, <3>1, <3>2, WorkersKeepBudget
  <2>4. CASE Solve(w) \/ Branch(w) \/ Panic(w)
    <3>1. PICK to : pc' = [pc EXCEPT ![w] = to]
      BY <2>4 DEF Solve, SolveFailed, SolvePrune, SolveLeaf, SolveFractional, Branch, Panic, Consume
    <3>2. processed' = processed /\ pc[w] \in {"solve", "branch"}
      BY <2>4 DEF Solve, SolveFailed, SolvePrune, SolveLeaf, SolveFractional, Branch, Panic
    <3> QED
      BY <1>1, <3>1, <3>2, WorkersKeepBudget
  <2>5. CASE RunSolve(w)
    <3>1. processed' = processed /\ processed < MaxNodes
      BY <2>5, LimitAssumption DEF RunSolve, StopRequested, BudgetInv
    <3>2. /\ Cardinality(Uncounted') \in Nat /\ Cardinality(Uncounted') <= Cardinality(Workers)
          /\ Cardinality(Workers) \in Nat
      BY WorkersAssumption, FS_Subset, FS_CardinalityType DEF Uncounted
    <3> QED
      BY <3>1, <3>2, LimitAssumption DEF BudgetInv
  <2>6. CASE Count(w)
    <3>1. /\ processed' = processed + 1 /\ pc[w] \in {"count", "countHalt"}
          /\ pc' = [pc EXCEPT ![w] = IF pc[w] = "countHalt" THEN "halt" ELSE Onward(st[w])]
      BY <2>6 DEF Count
    <3>2. pc'[w] \in {"halt", "fetch", "publish"} /\ \A v \in Workers : v # w => pc'[v] = pc[v]
      BY <1>1, <3>1 DEF Onward
    <3>3. Uncounted' = Uncounted \ {w} /\ w \in Uncounted
      BY <3>1, <3>2 DEF Uncounted
    <3>4. Cardinality(Uncounted') = Cardinality(Uncounted) - 1 /\ Cardinality(Uncounted) \in Nat
      BY <3>3, UncountedIs, FS_RemoveElement
    <3> QED
      BY <3>1, <3>4 DEF BudgetInv
  <2> QED
    BY <1>3, <2>1, <2>2, <2>3, <2>4, <2>5, <2>6 DEF Work
<1> QED
  BY <1>2, <1>3 DEF Next

\* The node budget is overshot by less than one node per worker.
THEOREM BudgetIsKept == Spec => []BudgetOvershoot
<1>1. Init => BudgetInv
  <2> SUFFICES ASSUME Init PROVE BudgetInv
    OBVIOUS
  <2>1. processed = 0 /\ Uncounted = {}
    BY DEF Init, Uncounted
  <2>2. Cardinality(Uncounted) = 0
    BY <2>1, FS_EmptySet
  <2> QED
    BY <2>1, <2>2, UncountedIs, LimitAssumption DEF BudgetInv
<1>2. BudgetInv /\ ParInv /\ [Next]_vars => BudgetInv'
  BY NextKeepsBudget
<1>3. BudgetInv => BudgetOvershoot
  <2> SUFFICES ASSUME BudgetInv PROVE BudgetOvershoot
    OBVIOUS
  <2> QED
    BY UncountedIs, LimitAssumption DEF BudgetInv, BudgetOvershoot
<1> QED
  BY <1>1, <1>2, <1>3, ParInvHolds, PTL DEF Spec

-----------------------------------------------------------------------------
(* The contract of a branch and bound *)

\* An answer of the finalizer that holds is what the contract allows.
LEMMA HonouredIsSound ==
  ASSUME NEW a, Honoured(a)
  PROVE  Contract!Sound(a)
<1>1. CASE /\ a.status = "Optimal" /\ best # Inf /\ a.obj = best
           /\ \A p \in Feasible : Tolerated(best, Value[p])
           /\ a.lb <= a.obj /\ Tolerated(a.obj, a.lb)
  <2>1. Contract!ProvesOptimal(best)
    BY <1>1 DEF Contract!ProvesOptimal
  <2> QED
    BY <1>1, <2>1, Zenon DEF Contract!Sound
<1>2. CASE a.status = "Infeasible" /\ Feasible = {}
  <2>1. a.status # "Optimal"
    BY <1>2
  <2> QED
    BY <1>2, <2>1, Zenon DEF Contract!Sound
<1>3. CASE a.status = "Suboptimal" /\ best # Inf /\ a.obj = best
  <2>1. a.status # "Optimal" /\ a.status # "Infeasible"
    BY <1>3
  <2> QED
    BY <1>3, <2>1, Zenon DEF Contract!Sound
<1>4. CASE a.status = "MaxIterations" /\ best = Inf
  <2>1. a.status # "Optimal" /\ a.status # "Infeasible" /\ a.status # "Suboptimal"
    BY <1>4
  <2> QED
    BY <1>4, <2>1, Zenon DEF Contract!Sound
<1>5. CASE a.status = "Timeout" /\ a.obj = best
  <2>1. /\ a.status # "Optimal" /\ a.status # "Infeasible" /\ a.status # "Suboptimal"
        /\ a.status # "MaxIterations"
    BY <1>5
  <2> QED
    BY <1>5, <2>1, Zenon DEF Contract!Sound
<1>6. CASE a.status = "Unbounded" /\ "unbounded" \in Statuses
  <2>1. /\ a.status # "Optimal" /\ a.status # "Infeasible" /\ a.status # "Suboptimal"
        /\ a.status # "MaxIterations" /\ a.status # "Timeout"
    BY <1>6
  <2> QED
    BY <1>6, <2>1, Zenon DEF Contract!Sound
<1>7. CASE a.status \in {"panic", "ResourceExhausted"}
  <2>1. /\ a.status # "Optimal" /\ a.status # "Infeasible" /\ a.status # "Suboptimal"
        /\ a.status # "MaxIterations" /\ a.status # "Timeout" /\ a.status # "Unbounded"
        /\ a.status \in {"ResourceExhausted", "NumericalError", "NotSupported", "panic"}
    BY <1>7
  <2> QED
    BY <2>1, Zenon DEF Contract!Sound
<1> QED
  BY <1>1, <1>2, <1>3, <1>4, <1>5, <1>6, <1>7 DEF Honoured

\* The incumbent is the objective of a feasible point, and only improves.
LEMMA IncumbentsImprove ==
  ASSUME ParInv, NEW w \in Workers, SolveLeaf(w) \/ Branch(w)
  PROVE  /\ best' = best \/ (best' < best /\ \E p \in Feasible : best' = Value[p])
         /\ answer' = answer /\ answer.status = "none"
<1>1. pc[w] \in {"solve", "branch"} /\ answer' = answer
  BY DEF SolveLeaf, Branch
<1>2. answer.status = "none"
  BY <1>1 DEF ParInv, MainOK
<1>3. PICK v \in Int : best' = Lesser(best, v) /\ (v = Inf \/ \E p \in Feasible : v = Value[p])
  <2>1. CASE SolveLeaf(w)
    <3>1. PICK r \in Relaxations(hand[w].box) :
            r.status = "optimal" /\ r.integral /\ best' = Lesser(best, r.obj)
      BY <2>1 DEF SolveLeaf
    <3>2. r.obj \in Int /\ \E p \in Feasible : r.obj = Value[p]
      BY <3>1, WorkerIs, RelaxationIs DEF Nodes
    <3> QED
      BY <3>1, <3>2
  <2>2. CASE Branch(w)
    BY <2>2, ProblemIs DEF Branch
  <2> QED
    BY <2>1, <2>2
<1>4. best \in Int /\ (best = Inf \/ IsFinite(best)) /\ Inf \in Int
  BY ProblemIs DEF ParInv, ParTypeOK
<1> QED
  BY <1>1, <1>2, <1>3, <1>4 DEF Lesser, IsFinite

\* Every step is one of the contract, or none.
LEMMA StepsKeepContract ==
  ASSUME ParInv, [Next]_vars
  PROVE  [Contract!Next]_<<Feasible, "unbounded" \in Statuses, best, answer>>
<1>1. CASE Join
  <2>1. answer.status = "none"
    BY <1>1 DEF ParInv, MainOK, Over, Join
  <2>2. Contract!Sound(answer') /\ best' = best
    BY <1>1, JoinIs, HonouredIsSound
  <2>3. Contract!Conclude
    BY <2>1, <2>2, Zenon DEF Contract!Conclude
  <2> QED
    BY <2>3 DEF Contract!Next
<1>2. ASSUME NEW w \in Workers, SolveLeaf(w) \/ Branch(w)
      PROVE  [Contract!Next]_<<Feasible, "unbounded" \in Statuses, best, answer>>
  BY <1>2, IncumbentsImprove DEF Contract!Next, Contract!Improve, Contract!Objectives
<1>3. CASE Refuse \/ RefuseBell \/ AllSpawned \/ Expire \/ Finished \/ UNCHANGED vars
  BY <1>3 DEF Refuse, RefuseBell, AllSpawned, Expire, Finished, vars, searchVars
<1>4. ASSUME NEW w \in Workers, Spawn(w) \/ Pop(w) \/ Work(w), ~(SolveLeaf(w) \/ Branch(w))
      PROVE  best' = best /\ answer' = answer
  BY <1>4 DEF Spawn, Pop, TakeShared, Sleep, LeaveLoop, Work, TakeOwn, Sync, RunStop, RunPrune,
              RunSolve, Solve, SolveFailed, SolvePrune, SolveFractional, Count, Panic, Publish,
              PublishNothing, Bell, Stop, searchVars
<1> QED
  BY <1>1, <1>2, <1>3, <1>4 DEF Next

\* The parallel search keeps the contract of a branch and bound: an incumbent that is
\* a feasible point and only improves, then one answer, a proof only of what is true.
THEOREM ParallelKeepsContract == Spec => ImplementsContract
<1>1. Init => Contract!Init
  <2> SUFFICES ASSUME Init PROVE Contract!Init
    OBVIOUS
  <2>1. answer.status = "none" /\ best \in {Inf} \cup {Value[p] : p \in Feasible}
    BY DEF Init, NoAnswer, Answer
  <2> QED
    BY <2>1 DEF Contract!Init, Contract!Objectives
<1>2. ParInv /\ [Next]_vars => [Contract!Next]_<<Feasible, "unbounded" \in Statuses, best, answer>>
  BY StepsKeepContract
<1>3. Spec => Contract!Init /\ [][Contract!Next]_<<Feasible, "unbounded" \in Statuses, best, answer>>
  BY <1>1, <1>2, ParInvHolds, PTL DEF Spec
<1> QED
  BY <1>3, PTL DEF ImplementsContract, Contract!Spec

-----------------------------------------------------------------------------
(* The pool's protocol: where the open nodes are *)

\* The boxes of two nodes have no point in common, and both have some.
Apart(m, n) == m.box \cap n.box = {} /\ m.box # {} /\ n.box # {}

\* So have any two nodes of a set.
AllApart(S) == \A m, n \in S : m # n => Apart(m, n)

\* A node that is not the dummy of an empty hand, whatever becomes of its bound.
Real(n) == n.box # {} \/ n.lb # Inf

\* A queue holds no node twice.
OnePlace(q) ==
  /\ \A i, j \in DOMAIN q.stack : q.stack[i] = q.stack[j] => i = j
  /\ \A i \in DOMAIN q.stack : q.stack[i] \notin q.heap

\* What a worker has: its queue and the node in its hand.
Own(w) == Held(st[w].q) \cup InHand(w)

\* Every open node is in one place, and no two of them share a point.
PlacesInv ==
  /\ \A m \in OpenNodes : Real(m)
  /\ AllApart(OpenNodes)
  /\ \A w \in Workers : /\ OnePlace(st[w].q) /\ hand[w] \notin Held(st[w].q)
                        /\ Own(w) \cap heap = {}
                        /\ pc[w] = "wait" => Held(st[w].q) = {}
                        /\ pc[w] \in Working => hand[w] # NoNode
  /\ \A v, w \in Workers : v # w => Own(v) \cap Own(w) = {}

-----------------------------------------------------------------------------
(* What the node body does to the places *)

\* C is what is left of a node: parts of its box, smaller than it, that share no point.
Parts(C, n) ==
  /\ AllApart(C)
  /\ \A m \in C : m.box # {} /\ m.box \subseteq n.box /\ m.box # n.box

\* The queue of s and the nodes of C are the queue of t.
Gains(s, t, C) ==
  /\ Held(t.q) = Held(s.q) \cup C
  /\ OnePlace(s.q) /\ C \cap Held(s.q) = {} => OnePlace(t.q)

\* The worker does not begin, or cease, to want the end of the search.
SameWish(s, t) == WantsStop(t) = WantsStop(s)

\* A node pushed that was not there is there once.
LEMMA PushPlace ==
  ASSUME NEW q \in Queues, NEW n \in Nodes, OnePlace(q), n \notin Held(q)
  PROVE  OnePlace(Push(q, n))
<1>1. q.heap \subseteq Nodes /\ q.stack \in Seq(Nodes) /\ q.diving \in BOOLEAN
  BY DEF Queues
<1>2. n \notin q.heap /\ \A i \in DOMAIN q.stack : q.stack[i] # n
  BY DEF Held
<1>3. CASE q.diving
  <2> DEFINE t == Append(q.stack, n)
  <2>1. /\ t \in Seq(Nodes) /\ Len(t) = Len(q.stack) + 1
        /\ \A i \in 1 .. Len(q.stack) : t[i] = q.stack[i]
        /\ t[Len(q.stack) + 1] = n
    BY <1>1, AppendProperties
  <2>2. /\ Len(q.stack) \in Nat /\ DOMAIN q.stack = 1 .. Len(q.stack)
        /\ DOMAIN t = 1 .. Len(q.stack) + 1
    BY <1>1, <2>1, LenProperties
  <2>3. Push(q, n) = [heap |-> q.heap, stack |-> t, diving |-> q.diving]
    BY <1>3 DEF Push, Queues
  <2> HIDE DEF t
  <2>4. \A i \in DOMAIN t : \/ i \in DOMAIN q.stack /\ t[i] = q.stack[i]
                            \/ i = Len(q.stack) + 1 /\ t[i] = n
    BY <2>1, <2>2
  <2>5. \A i, j \in DOMAIN t : t[i] = t[j] => i = j
    BY <1>2, <2>4 DEF OnePlace
  <2>6. \A i \in DOMAIN t : t[i] \notin q.heap
    BY <1>2, <2>4 DEF OnePlace
  <2> QED
    BY <2>3, <2>5, <2>6 DEF OnePlace
<1>4. CASE ~q.diving
  <2>1. Push(q, n) = [heap |-> q.heap \cup {n}, stack |-> q.stack, diving |-> q.diving]
    BY <1>4 DEF Push, Queues
  <2> QED
    BY <1>2, <2>1 DEF OnePlace
<1> QED
  BY <1>3, <1>4

\* The end of a dive leaves every node on the heap.
LEMMA EndDivePlace ==
  ASSUME NEW q \in Queues
  PROVE  OnePlace(EndDive(q))
<1> DEFINE e == <<>>
<1>1. DOMAIN e = {}
  OBVIOUS
<1>2. EndDive(q).stack = e
  BY DEF EndDive
<1> HIDE DEF e
<1> QED
  BY <1>1, <1>2 DEF OnePlace

\* Nor does it make the search want its end.
LEMMA EndOfDivePlaces ==
  ASSUME NEW s \in States
  PROVE  /\ EndOfDive(s) \in States /\ Gains(s, EndOfDive(s), {}) /\ SameWish(s, EndOfDive(s))
<1>1. /\ s.q \in Queues /\ EndDive(s.q) \in Queues /\ Held(EndDive(s.q)) = Held(s.q)
      /\ OnePlace(EndDive(s.q))
  BY EndDiveIs, EndDivePlace DEF States
<1> DEFINE q == EndDive(s.q)
           t == [s EXCEPT !.q = q]
<1>2. EndOfDive(s) = t
  BY DEF EndOfDive
<1> HIDE DEF q
<1>3. /\ t \in States /\ t.q = q /\ t.deadlineStop = s.deadlineStop
      /\ t.maxnodesStop = s.maxnodesStop /\ t.unbounded = s.unbounded
  BY <1>1 DEF States, q
<1> HIDE DEF t
<1> QED
  BY <1>1, <1>2, <1>3 DEF Gains, SameWish, WantsStop, q

\* Nor does folding a bound before it.
LEMMA FoldedPlaces ==
  ASSUME NEW s \in States, NEW lb \in Bounds
  PROVE  /\ EndOfDive(FoldOpen(s, lb)) \in States
         /\ Gains(s, EndOfDive(FoldOpen(s, lb)), {}) /\ SameWish(s, EndOfDive(FoldOpen(s, lb)))
<1> DEFINE b == Lesser(s.openLb, lb)
           u == [s EXCEPT !.openLb = b, !.hadOpen = TRUE]
<1>1. FoldOpen(s, lb) = u
  BY DEF FoldOpen
<1>2. b \in Bounds
  BY DEF States, Bounds, Lesser
<1> HIDE DEF b
<1>3. /\ u \in States /\ u.q = s.q /\ u.deadlineStop = s.deadlineStop
      /\ u.maxnodesStop = s.maxnodesStop /\ u.unbounded = s.unbounded
  BY <1>2 DEF States
<1> HIDE DEF u
<1>4. /\ EndOfDive(u) \in States /\ Gains(u, EndOfDive(u), {}) /\ SameWish(u, EndOfDive(u))
  BY <1>3, EndOfDivePlaces
<1> QED
  BY <1>1, <1>3, <1>4 DEF Gains, SameWish, WantsStop

\* The ways to leave a node that make no other: they fold it, learn from it or stop.
LEMMA StoppedPlaces ==
  ASSUME NEW s \in States, NEW n \in Nodes, NEW e \in BOOLEAN
  PROVE  Gains(s, Stopped(s, n, e), {}) /\ WantsStop(Stopped(s, n, e))
<1> DEFINE u == EndOfDive(FoldOpen(s, n.lb))
           t == IF e THEN [u EXCEPT !.deadlineStop = TRUE] ELSE [u EXCEPT !.maxnodesStop = TRUE]
<1>1. Stopped(s, n, e) = t
  BY DEF Stopped
<1>2. u \in States /\ Gains(s, u, {})
  BY FoldedPlaces DEF Nodes
<1> HIDE DEF u
<1>3. t.q = u.q /\ (t.deadlineStop \/ t.maxnodesStop)
  BY <1>2 DEF States
<1> HIDE DEF t
<1> QED
  BY <1>1, <1>2, <1>3 DEF Gains, WantsStop

\* A node proved infeasible leaves nothing but a clause.
LEMMA InfeasiblePlaces ==
  ASSUME NEW s \in States, NEW n \in Nodes
  PROVE  Gains(s, AfterInfeasible(s, n), {}) /\ SameWish(s, AfterInfeasible(s, n))
<1> DEFINE u == EndOfDive(s)
           t == [u EXCEPT !.conflicts = Learn(u.conflicts, n.box)]
<1>1. AfterInfeasible(s, n) = t
  BY DEF AfterInfeasible
<1>2. u \in States /\ Gains(s, u, {}) /\ SameWish(s, u)
  BY EndOfDivePlaces
<1> HIDE DEF u
<1>3. /\ t.q = u.q /\ t.deadlineStop = u.deadlineStop
      /\ t.maxnodesStop = u.maxnodesStop /\ t.unbounded = u.unbounded
  BY <1>2 DEF States
<1> HIDE DEF t
<1> QED
  BY <1>1, <1>2, <1>3 DEF Gains, SameWish, WantsStop

\* An unbounded relaxation makes the search want its end.
LEMMA UnboundedPlaces ==
  ASSUME NEW s \in States
  PROVE  Gains(s, AfterUnbounded(s), {}) /\ WantsStop(AfterUnbounded(s))
<1> DEFINE u == EndOfDive(s)
           t == [u EXCEPT !.unbounded = TRUE]
<1>1. AfterUnbounded(s) = t
  BY DEF AfterUnbounded
<1>2. u \in States /\ Gains(s, u, {})
  BY EndOfDivePlaces
<1> HIDE DEF u
<1>3. t.q = u.q /\ t.unbounded
  BY <1>2 DEF States
<1> HIDE DEF t
<1> QED
  BY <1>1, <1>2, <1>3 DEF Gains, WantsStop

\* So does a relaxation that ran out of time.
LEMMA TimeoutPlaces ==
  ASSUME NEW s \in States, NEW n \in Nodes
  PROVE  Gains(s, AfterTimeout(s, n), {}) /\ WantsStop(AfterTimeout(s, n))
<1> DEFINE u == EndOfDive(FoldOpen(s, n.lb))
           t == [u EXCEPT !.deadlineStop = TRUE]
<1>1. AfterTimeout(s, n) = t
  BY DEF AfterTimeout
<1>2. u \in States /\ Gains(s, u, {})
  BY FoldedPlaces DEF Nodes
<1> HIDE DEF u
<1>3. t.q = u.q /\ t.deadlineStop
  BY <1>2 DEF States
<1> HIDE DEF t
<1> QED
  BY <1>1, <1>2, <1>3 DEF Gains, WantsStop

\* A node given up is folded, and nothing else.
LEMMA GiveUpPlaces ==
  ASSUME NEW s \in States, NEW n \in Nodes
  PROVE  Gains(s, GiveUp(s, n), {}) /\ SameWish(s, GiveUp(s, n))
<1> DEFINE u == EndOfDive(FoldOpen(s, n.lb))
           t == [u EXCEPT !.uncertain = TRUE]
<1>1. GiveUp(s, n) = t
  BY DEF GiveUp
<1>2. u \in States /\ Gains(s, u, {}) /\ SameWish(s, u)
  BY FoldedPlaces DEF Nodes
<1> HIDE DEF u
<1>3. /\ t.q = u.q /\ t.deadlineStop = u.deadlineStop
      /\ t.maxnodesStop = u.maxnodesStop /\ t.unbounded = u.unbounded
  BY <1>2 DEF States
<1> HIDE DEF t
<1> QED
  BY <1>1, <1>2, <1>3 DEF Gains, SameWish, WantsStop

\* The beginning of a dive moves no node.
LEMMA MaybeDivePlaces ==
  ASSUME NEW s \in States, NEW n \in Nodes
  PROVE  Gains(s, MaybeDive(s, n), {}) /\ SameWish(s, MaybeDive(s, n))
<1> DEFINE freq == IF s.inc = Inf THEN DiveFrequencyNoIncumbent ELSE DiveFrequency
           q == [s.q EXCEPT !.diving = TRUE]
           u == [s EXCEPT !.sinceDive = 0, !.diveStart = n.depth, !.q.diving = TRUE]
           v == [s EXCEPT !.sinceDive = @ + 1]
<1>1. q.stack = s.q.stack /\ q.heap = s.q.heap
  BY DEF States, Queues
<1>2. /\ u.q = q /\ u.deadlineStop = s.deadlineStop
      /\ u.maxnodesStop = s.maxnodesStop /\ u.unbounded = s.unbounded
  BY DEF States, Nodes
<1>3. /\ v.q = s.q /\ v.deadlineStop = s.deadlineStop
      /\ v.maxnodesStop = s.maxnodesStop /\ v.unbounded = s.unbounded
  BY DEF States
<1>4. MaybeDive(s, n) = IF s.q.diving THEN s ELSE IF s.sinceDive + 1 >= freq THEN u ELSE v
  BY DEF MaybeDive
<1> HIDE DEF freq, u, v, q
<1>5. MaybeDive(s, n) = s \/ MaybeDive(s, n) = u \/ MaybeDive(s, n) = v
  BY <1>4
<1> QED
  BY <1>1, <1>2, <1>3, <1>5 DEF Gains, SameWish, WantsStop, OnePlace, Held

\* Branching on a threshold inside a part of the box.
LEMMA ChildrenPlaces ==
  ASSUME NEW s \in States, NEW n \in Nodes, NEW box \in SUBSET Points, box \subseteq n.box,
         NEW c \in Cuts(box), NEW t, t = PushChildren(s, n, box, c)
  PROVE  \E C \in SUBSET Nodes : Parts(C, n) /\ Gains(s, t, C) /\ SameWish(s, t)
<1> DEFINE u == IF n.depth >= s.diveStart + MaxDiveDepth THEN EndOfDive(s) ELSE s
           down == Child(n, DownBox(box, c))
           up == Child(n, UpBox(box, c))
           q == Push(Push(u.q, down), up)
           x == [u EXCEPT !.q = q]
<1>1. t = x
  BY DEF PushChildren
<1>2. /\ down \in Nodes /\ down.box = DownBox(box, c)
      /\ up \in Nodes /\ up.box = UpBox(box, c)
  <2>1. DownBox(box, c) \in SUBSET Points /\ UpBox(box, c) \in SUBSET Points
    BY DEF DownBox, UpBox
  <2> QED
    BY <2>1, ChildIs
<1>3. /\ DownBox(box, c) # {} /\ UpBox(box, c) # {}
      /\ DownBox(box, c) \cap UpBox(box, c) = {}
      /\ DownBox(box, c) \subseteq n.box /\ UpBox(box, c) \subseteq n.box
  <2>1. c \in box /\ c \in Int /\ \A p \in box : p \in Int
    BY ProblemIs DEF Cuts
  <2>2. PICK p \in box : p > c
    BY DEF Cuts
  <2>3. c <= c /\ c \in DownBox(box, c) /\ p \in UpBox(box, c)
    BY <2>1, <2>2 DEF DownBox, UpBox
  <2>4. ~\E z \in box : z <= c /\ z > c
    BY <2>1
  <2>5. DownBox(box, c) \cap UpBox(box, c) = {}
    BY <2>4 DEF DownBox, UpBox
  <2>6. DownBox(box, c) \subseteq n.box /\ UpBox(box, c) \subseteq n.box
    BY DEF DownBox, UpBox
  <2> QED
    BY <2>3, <2>5, <2>6
<1>4. u \in States /\ Gains(s, u, {}) /\ SameWish(s, u)
  <2>1. Gains(s, s, {}) /\ SameWish(s, s)
    BY DEF Gains, SameWish
  <2> QED
    BY <2>1, EndOfDivePlaces
<1> HIDE DEF u, down, up
<1> DEFINE C == {down, up}
<1>5. Parts(C, n)
  BY <1>2, <1>3 DEF Parts, AllApart, Apart
<1>6. down # up
  BY <1>2, <1>3
<1>7. /\ q \in Queues /\ Held(q) = Held(u.q) \cup C
      /\ OnePlace(u.q) /\ C \cap Held(u.q) = {} => OnePlace(q)
  <2> DEFINE q1 == Push(u.q, down)
  <2>1. u.q \in Queues
    BY <1>4 DEF States
  <2>2. q1 \in Queues /\ Held(q1) = Held(u.q) \cup {down}
    BY <1>2, <2>1, PushIs
  <2>3. q = Push(q1, up)
    OBVIOUS
  <2>4. OnePlace(u.q) /\ C \cap Held(u.q) = {} => OnePlace(q1)
    BY <1>2, <2>1, PushPlace
  <2> HIDE DEF q1, q
  <2>5. Push(q1, up) \in Queues /\ Held(Push(q1, up)) = Held(q1) \cup {up}
    BY <1>2, <2>2, PushIs
  <2>6. OnePlace(q1) /\ up \notin Held(q1) => OnePlace(Push(q1, up))
    BY <1>2, <2>2, PushPlace
  <2> QED
    BY <1>6, <2>2, <2>3, <2>4, <2>5, <2>6
<1> HIDE DEF q
<1>8. /\ x.q = q /\ x.deadlineStop = u.deadlineStop
      /\ x.maxnodesStop = u.maxnodesStop /\ x.unbounded = u.unbounded
  BY <1>4 DEF States
<1> HIDE DEF x
<1>9. Gains(s, t, C) /\ SameWish(s, t)
  BY <1>1, <1>4, <1>7, <1>8 DEF Gains, SameWish, WantsStop
<1> QED
  BY <1>2, <1>5, <1>9

\* Either way the children of a node are parts of it.
LEMMA BranchedPlaces ==
  ASSUME NEW s \in States, NEW n \in Nodes, NEW t, t \in AfterUntrusted(s, n) \cup AfterFractional(s, n)
  PROVE  \E C \in SUBSET Nodes : Parts(C, n) /\ Gains(s, t, C) /\ SameWish(s, t)
<1>1. Parts({}, n) /\ {} \in SUBSET Nodes
  BY DEF Parts, AllApart
<1>2. CASE t = GiveUp(s, n) \/ t = EndOfDive(FoldOpen(s, n.lb))
  <2>1. Gains(s, t, {}) /\ SameWish(s, t)
    BY <1>2, GiveUpPlaces, FoldedPlaces DEF Nodes
  <2> QED
    BY <1>1, <2>1
<1>3. CASE \E box \in SUBSET n.box : \E c \in Cuts(box) : t = PushChildren(s, n, box, c)
  <2>1. PICK box \in SUBSET n.box : \E c \in Cuts(box) : t = PushChildren(s, n, box, c)
    BY <1>3
  <2>2. PICK c \in Cuts(box) : t = PushChildren(s, n, box, c)
    BY <2>1
  <2>3. box \in SUBSET Points /\ box \subseteq n.box
    BY DEF Nodes
  <2> QED
    BY <2>2, <2>3, ChildrenPlaces
<1>4. CASE t \in AfterUntrusted(s, n)
  <2>1. t = GiveUp(s, n) \/ \E c \in Cuts(n.box) : t = PushChildren(s, n, n.box, c)
    BY <1>4 DEF AfterUntrusted
  <2> QED
    BY <1>2, <1>3, <2>1
<1>5. CASE t \in AfterFractional(s, n)
  <2>1. \/ t = EndOfDive(FoldOpen(s, n.lb))
        \/ \E kept \in Fixings(n.box, s.inc) : \E c \in Cuts(kept) : t = PushChildren(s, n, kept, c)
    BY <1>5 DEF AfterFractional
  <2>2. Fixings(n.box, s.inc) \subseteq SUBSET n.box
    BY DEF Fixings
  <2> QED
    BY <1>2, <1>3, <2>1, <2>2
<1> QED
  BY <1>4, <1>5

-----------------------------------------------------------------------------
(* Steps of one worker *)

\* The nodes of R stand for n: they share no point, and are inside its box.
Refine(R, n) ==
  /\ AllApart(R)
  /\ \A m \in R : Real(m) /\ m.box \subseteq n.box /\ (n.box # {} => m.box # {})

\* What worker w would own with the state t and the node h in hand.
OwnOf(t, h) == Held(t.q) \cup ({h} \ {NoNode})

\* What a worker owns is open, and so is what the pool holds.
LEMMA OwnIs ==
  ASSUME NEW w \in Workers
  PROVE  Own(w) = OwnOf(st[w], hand[w]) /\ Own(w) \subseteq OpenNodes /\ heap \subseteq OpenNodes
  BY DEF Own, OwnOf, InHand, OpenNodes

\* The worker's nodes and those of the pool are the ones before, or stand for one of them.
LEMMA OpenStep ==
  ASSUME PlacesInv, NEW w \in Workers, NEW to, NEW t, NEW h, NEW n, NEW R,
         pc \in [Workers -> WorkerPc], st \in [Workers -> States], hand \in [Workers -> Nodes],
         pc' = [pc EXCEPT ![w] = to], st' = [st EXCEPT ![w] = t], hand' = [hand EXCEPT ![w] = h],
         OnePlace(t.q), h \notin Held(t.q),
         to = "wait" => Held(t.q) = {}, to \in Working => h # NoNode,
         heap' \cap OwnOf(t, h) = {},
         heap' \cup OwnOf(t, h) \subseteq ((heap \cup Own(w)) \ {n}) \cup R,
         R = {} \/ (n \in heap \cup Own(w) /\ Refine(R, n))
  PROVE  PlacesInv'
<1>1. /\ pc'[w] = to /\ st'[w] = t /\ hand'[w] = h
      /\ \A v \in Workers : v # w => pc'[v] = pc[v] /\ st'[v] = st[v] /\ hand'[v] = hand[v]
  OBVIOUS
<1>2. /\ Own(w)' = OwnOf(t, h)
      /\ \A v \in Workers : v # w => Own(v)' = Own(v)
  BY <1>1 DEF Own, OwnOf, InHand
<1>3. /\ \A m \in OpenNodes : Real(m)
      /\ \A m, k \in OpenNodes : m # k => Apart(m, k)
      /\ \A v \in Workers : /\ OnePlace(st[v].q) /\ hand[v] \notin Held(st[v].q)
                            /\ Own(v) \cap heap = {}
                            /\ pc[v] = "wait" => Held(st[v].q) = {}
                            /\ pc[v] \in Working => hand[v] # NoNode
      /\ \A v, u \in Workers : v # u => Own(v) \cap Own(u) = {}
  BY DEF PlacesInv, AllApart
<1>4. /\ heap \subseteq OpenNodes /\ \A v \in Workers : Own(v) \subseteq OpenNodes
      /\ R = {} \/ n \in OpenNodes
  BY OwnIs
<1> DEFINE mine == heap' \cup OwnOf(t, h)
           rest == (heap \cup Own(w)) \ {n}
<1>5. rest \subseteq OpenNodes /\ n \notin rest /\ mine \subseteq rest \cup R
  BY <1>4
<1>6. ASSUME NEW m \in R, NEW k \in OpenNodes, k # n
      PROVE  Apart(m, k) /\ m # k
  <2>1. n \in OpenNodes /\ m.box \subseteq n.box /\ (n.box # {} => m.box # {})
    BY <1>4 DEF Refine
  <2>2. Apart(k, n)
    BY <1>3, <1>6, <2>1
  <2> QED
    BY <2>1, <2>2 DEF Apart
<1>7. \A m \in mine : Real(m)
  BY <1>3, <1>5 DEF Refine
<1>8. ASSUME NEW m \in mine, NEW k \in mine, m # k
      PROVE  Apart(m, k)
  <2>1. CASE m \in rest /\ k \in rest
    BY <1>3, <1>5, <1>8, <2>1
  <2>2. CASE m \in R /\ k \in R
    BY <1>8, <2>2 DEF Refine, AllApart
  <2>3. CASE m \in R /\ k \in rest
    BY <1>5, <1>6, <2>3
  <2>4. CASE m \in rest /\ k \in R
    <3>1. Apart(k, m)
      BY <1>5, <1>6, <2>4
    <3> QED
      BY <3>1 DEF Apart
  <2> QED
    BY <1>5, <2>1, <2>2, <2>3, <2>4
<1>9. ASSUME NEW v \in Workers, v # w, NEW m \in mine, NEW k \in Own(v)
      PROVE  Apart(m, k) /\ m # k
  <2>1. k \in OpenNodes /\ k \notin heap \cup Own(w)
    BY <1>3, <1>4, <1>9
  <2>2. CASE m \in rest
    <3>1. m # k /\ m \in OpenNodes
      BY <1>5, <2>1, <2>2
    <3> QED
      BY <1>3, <2>1, <3>1
  <2>3. CASE m \in R
    BY <1>6, <2>1, <2>3
  <2> QED
    BY <1>5, <2>2, <2>3
<1> HIDE DEF mine, rest
<1>10. OpenNodes' = mine \cup UNION {Own(v) : v \in Workers \ {w}}
  <2>1. OpenNodes' = heap' \cup UNION {Own(v)' : v \in Workers}
    BY DEF OpenNodes, Own
  <2> QED
    BY <1>2, <2>1 DEF mine
<1>11. \A m \in OpenNodes' : m \in mine \/ \E v \in Workers : v # w /\ m \in Own(v)
  BY <1>10
<1>12. \A m \in OpenNodes' : Real(m)
  BY <1>3, <1>4, <1>7, <1>11
<1>13. ASSUME NEW m \in OpenNodes', NEW k \in OpenNodes', m # k
       PROVE  Apart(m, k)
  <2>1. CASE m \in mine /\ k \in mine
    BY <1>8, <1>13, <2>1
  <2>2. CASE m \in mine /\ k \notin mine
    BY <1>9, <1>11, <2>2
  <2>3. CASE m \notin mine /\ k \in mine
    <3>1. Apart(k, m)
      BY <1>9, <1>11, <2>3
    <3> QED
      BY <3>1 DEF Apart
  <2>4. CASE m \notin mine /\ k \notin mine
    <3>1. m \in OpenNodes /\ k \in OpenNodes
      BY <1>4, <1>11, <2>4
    <3> QED
      BY <1>3, <1>13, <3>1
  <2> QED
    BY <2>1, <2>2, <2>3, <2>4
<1>14. ASSUME NEW v \in Workers
       PROVE  /\ OnePlace(st'[v].q) /\ hand'[v] \notin Held(st'[v].q)
              /\ Own(v)' \cap heap' = {}
              /\ pc'[v] = "wait" => Held(st'[v].q) = {}
              /\ pc'[v] \in Working => hand'[v] # NoNode
  <2>1. CASE v = w
    BY <1>1, <1>2, <2>1
  <2>2. CASE v # w
    <3>1. Own(v)' \cap heap' = {}
      BY <1>2, <1>9, <2>2 DEF mine
    <3> QED
      BY <1>1, <1>3, <2>2, <3>1
  <2> QED
    BY <2>1, <2>2
<1>15. ASSUME NEW v \in Workers, NEW u \in Workers, v # u
       PROVE  Own(v)' \cap Own(u)' = {}
  <2>1. CASE v = w
    BY <1>2, <1>9, <1>15, <2>1 DEF mine
  <2>2. CASE u = w
    BY <1>2, <1>9, <1>15, <2>2 DEF mine
  <2>3. CASE v # w /\ u # w
    BY <1>2, <1>3, <1>15, <2>3
  <2> QED
    BY <2>1, <2>2, <2>3
<1> QED
  BY <1>12, <1>13, <1>14, <1>15 DEF PlacesInv, AllApart

-----------------------------------------------------------------------------
(* What the pool's module sees of a step *)

\* Its variables.
PoolPcs == [v \in Workers |-> PoolPc(v)]
PoolHold == [v \in Workers |-> Boxes(Held(st[v].q) \cup InHand(v))]
PoolWant == {v \in Workers : WantsStop(st[v])}

PoolSees == <<Boxes(heap), idle, stopped, waiting, notified, mainPc, PoolPcs, PoolHold, PoolWant>>

\* Where it sees a worker that is at a place with a state.
PlaceOf(place, s) ==
  CASE place \in {"sync", "run", "solve", "branch"} -> "work"
    [] place = "count" -> Onward(s)
    [] place = "countHalt" -> "halt"
    [] OTHER -> place

\* Places that it sees as they are.
Plain == WorkerPc \ {"sync", "run", "solve", "branch", "count", "countHalt"}

\* Where the places are seen.
LEMMA PlaceIs ==
  ASSUME NEW s
  PROVE  /\ \A place \in Plain : PlaceOf(place, s) = place
         /\ \A place \in Working : PlaceOf(place, s) = "work"
         /\ PlaceOf("count", s) = Onward(s) /\ PlaceOf("countHalt", s) = "halt"
         /\ Onward(s) \in {"fetch", "publish"}
<1>1. \A place \in Plain : PlaceOf(place, s) = place
  BY Zenon DEF PlaceOf, Plain
<1>2. \A place \in Working : PlaceOf(place, s) = "work"
  BY Zenon DEF PlaceOf, Working
<1>3. PlaceOf("count", s) = Onward(s)
  <2>1. "count" \notin {"sync", "run", "solve", "branch"}
    OBVIOUS
  <2> QED
    BY <2>1, Zenon DEF PlaceOf
<1>4. PlaceOf("countHalt", s) = "halt"
  <2>1. "countHalt" \notin {"sync", "run", "solve", "branch"} /\ "countHalt" # "count"
    OBVIOUS
  <2> QED
    BY <2>1, Zenon DEF PlaceOf
<1> QED
  BY <1>1, <1>2, <1>3, <1>4 DEF Onward

\* What is seen of one worker.
LEMMA SeenIs ==
  ASSUME NEW w \in Workers
  PROVE  /\ PoolPcs[w] = PlaceOf(pc[w], st[w]) /\ PoolHold[w] = Boxes(Own(w))
         /\ w \in PoolWant <=> WantsStop(st[w])
<1>1. PoolPcs[w] = PoolPc(w)
  BY DEF PoolPcs
<1>2. PoolPc(w) = PlaceOf(pc[w], st[w])
  BY Zenon DEF PoolPc, PlaceOf
<1> QED
  BY <1>1, <1>2 DEF PoolHold, PoolWant, Own

\* A step of worker w to a place, with its state t and the node h then in hand.
LEMMA SeenStep ==
  ASSUME NEW w \in Workers, NEW to, NEW t, NEW h,
         pc \in [Workers -> WorkerPc], st \in [Workers -> States], hand \in [Workers -> Nodes],
         pc' = [pc EXCEPT ![w] = to], st' = [st EXCEPT ![w] = t], hand' = [hand EXCEPT ![w] = h]
  PROVE  /\ PoolPcs' = [PoolPcs EXCEPT ![w] = PlaceOf(to, t)]
         /\ PoolHold' = [PoolHold EXCEPT ![w] = Boxes(OwnOf(t, h))]
         /\ WantsStop(t) => PoolWant' = PoolWant \cup {w}
         /\ SameWish(st[w], t) => PoolWant' = PoolWant
<1>1. /\ pc'[w] = to /\ st'[w] = t /\ hand'[w] = h
      /\ \A v \in Workers : v # w => pc'[v] = pc[v] /\ st'[v] = st[v] /\ hand'[v] = hand[v]
  OBVIOUS
<1>2. PoolPc(w)' = PlaceOf(to, t) /\ \A v \in Workers : v # w => PoolPc(v)' = PoolPc(v)
  <2>1. \A v \in Workers : PoolPc(v)' = PlaceOf(pc'[v], st'[v])
    BY Zenon DEF PoolPc, PlaceOf, Onward
  <2>2. \A v \in Workers : PoolPc(v) = PlaceOf(pc[v], st[v])
    BY Zenon DEF PoolPc, PlaceOf, Onward
  <2> QED
    BY <1>1, <2>1, <2>2
<1>3. PoolPcs' = [PoolPcs EXCEPT ![w] = PlaceOf(to, t)]
  BY <1>2 DEF PoolPcs
<1>4. PoolHold' = [PoolHold EXCEPT ![w] = Boxes(OwnOf(t, h))]
  <2>1. /\ Held(st[w].q)' \cup InHand(w)' = OwnOf(t, h)
        /\ \A v \in Workers : v # w => Held(st[v].q)' \cup InHand(v)' = Held(st[v].q) \cup InHand(v)
    BY <1>1 DEF InHand, OwnOf
  <2>2. PoolHold' = [v \in Workers |-> Boxes(Held(st[v].q)' \cup InHand(v)')]
    BY DEF PoolHold
  <2>3. ASSUME NEW v \in Workers
        PROVE  PoolHold'[v] = [PoolHold EXCEPT ![w] = Boxes(OwnOf(t, h))][v]
    BY <2>1, <2>2 DEF PoolHold
  <2> QED
    BY <2>2, <2>3 DEF PoolHold
<1>5. PoolWant' = {v \in Workers : WantsStop(st'[v])}
  BY DEF PoolWant, WantsStop
<1>6. WantsStop(t) => PoolWant' = PoolWant \cup {w}
  BY <1>1, <1>5 DEF PoolWant
<1>7. SameWish(st[w], t) => PoolWant' = PoolWant
  BY <1>1, <1>5 DEF PoolWant, SameWish
<1> QED
  BY <1>3, <1>4, <1>6, <1>7

-----------------------------------------------------------------------------
(* The node in hand *)

\* Boxes of nodes, one by one.
LEMMA BoxesAre ==
  ASSUME NEW A, NEW B
  PROVE  /\ Boxes(A \cup B) = Boxes(A) \cup Boxes(B) /\ Boxes({}) = {}
         /\ \A n : Boxes({n}) = {n.box}
  BY DEF Boxes

\* A part of an open node is none of the open nodes.
LEMMA PartsAreNew ==
  ASSUME PlacesInv, NEW n \in OpenNodes, NEW C, Parts(C, n)
  PROVE  C \cap OpenNodes = {}
<1>1. ASSUME NEW m \in C, m \in OpenNodes
      PROVE  FALSE
  <2>1. m # n /\ m.box # {} /\ m.box \subseteq n.box
    BY DEF Parts
  <2>2. Apart(m, n)
    BY <1>1, <2>1 DEF PlacesInv, AllApart
  <2> QED
    BY <2>1, <2>2 DEF Apart
<1> QED
  BY <1>1

\* Steps without a node do not matter to what follows.
LEMMA GainsFollow ==
  ASSUME NEW s, NEW u, NEW t, NEW C, Gains(s, u, {}), Gains(u, t, C), SameWish(s, u)
  PROVE  Gains(s, t, C) /\ (SameWish(u, t) => SameWish(s, t))
  BY DEF Gains, SameWish

\* The node in hand is consumed, and its parts, if any, are in the queue: run_node.
LEMMA ConsumePlaces ==
  ASSUME ParInv, PlacesInv, NEW w \in Workers, pc[w] \in Working,
         NEW t, NEW to \in {"count", "countHalt", "halt", "fetch", "publish"},
         to \in {"fetch", "publish"} => to = Onward(t),
         Consume(w, t, to), NEW C \in SUBSET Nodes, Parts(C, hand[w]), Gains(st[w], t, C),
         IF to \in {"halt", "countHalt"} THEN WantsStop(t) ELSE SameWish(st[w], t),
         UNCHANGED <<poolVars, mainPc>>
  PROVE  PlacesInv' /\ Pool!Next
<1> DEFINE n == hand[w]
<1>1. /\ pc \in [Workers -> WorkerPc] /\ st \in [Workers -> States] /\ hand \in [Workers -> Nodes]
      /\ pc' = [pc EXCEPT ![w] = to] /\ st' = [st EXCEPT ![w] = t]
      /\ hand' = [hand EXCEPT ![w] = NoNode]
      /\ n \in Nodes /\ st[w] \in States
  BY WorkerIs DEF Consume
<1>2. /\ n # NoNode /\ n \notin Held(st[w].q) /\ OnePlace(st[w].q)
      /\ Own(w) = Held(st[w].q) \cup {n} /\ Own(w) \cap heap = {}
      /\ Own(w) \subseteq OpenNodes /\ heap \subseteq OpenNodes /\ n \in OpenNodes
  BY OwnIs DEF PlacesInv, OwnOf
<1>3. C \cap OpenNodes = {}
  BY <1>2, PartsAreNew
<1>4. /\ Held(t.q) = Held(st[w].q) \cup C /\ OnePlace(t.q)
  BY <1>2, <1>3 DEF Gains
<1>5. /\ NoNode \notin Held(t.q)
      /\ OwnOf(t, NoNode) = Held(t.q)
  <2>1. \A m \in Held(st[w].q) : Real(m)
    BY <1>2 DEF PlacesInv
  <2>2. ~Real(NoNode)
    BY DEF Real, NoNode
  <2>3. NoNode \notin C
    BY DEF Parts, NoNode
  <2> QED
    BY <1>4, <2>1, <2>2, <2>3 DEF OwnOf
<1>6. heap' = heap /\ heap' \cap OwnOf(t, NoNode) = {}
  BY <1>2, <1>3, <1>4, <1>5 DEF poolVars
<1>7. heap' \cup OwnOf(t, NoNode) \subseteq ((heap \cup Own(w)) \ {n}) \cup C
  BY <1>2, <1>4, <1>5, <1>6
<1>8. Refine(C, n)
  BY DEF Parts, Refine, Real
<1>9. to \notin Working /\ to # "wait"
  BY DEF Working
<1>10. PlacesInv'
  BY <1>1, <1>2, <1>4, <1>5, <1>6, <1>7, <1>8, <1>9, OpenStep
<1> DEFINE goes == IF to = "countHalt" THEN "halt" ELSE IF to = "count" THEN Onward(t) ELSE to
<1>11. /\ goes \in {"fetch", "publish", "halt"}
       /\ goes = "halt" <=> to \in {"halt", "countHalt"}
       /\ PlaceOf(to, t) = goes
       /\ PlaceOf(pc[w], st[w]) = "work"
  BY PlaceIs DEF Plain, WorkerPc
<1>0. n = hand[w] /\ Parts(C, n)
  OBVIOUS
<1> HIDE DEF goes, n
<1>12. /\ PoolPcs[w] = "work" /\ PoolPcs' = [PoolPcs EXCEPT ![w] = goes]
       /\ PoolHold[w] = Boxes(Own(w))
       /\ PoolHold' = [PoolHold EXCEPT ![w] = Boxes(OwnOf(t, NoNode))]
       /\ WantsStop(t) => PoolWant' = PoolWant \cup {w}
       /\ SameWish(st[w], t) => PoolWant' = PoolWant
  <2>1. PoolPcs[w] = PlaceOf(pc[w], st[w]) /\ PoolHold[w] = Boxes(Own(w))
    BY SeenIs
  <2>2. /\ PoolPcs' = [PoolPcs EXCEPT ![w] = PlaceOf(to, t)]
        /\ PoolHold' = [PoolHold EXCEPT ![w] = Boxes(OwnOf(t, NoNode))]
        /\ WantsStop(t) => PoolWant' = PoolWant \cup {w}
        /\ SameWish(st[w], t) => PoolWant' = PoolWant
    BY <1>1, SeenStep
  <2> QED
    BY <1>11, <2>1, <2>2
<1>13. n.box \notin Boxes(Held(st[w].q))
  <2>1. ASSUME NEW m \in Held(st[w].q), m.box = n.box
        PROVE  FALSE
    <3>1. Apart(m, n)
      BY <1>2, <2>1 DEF PlacesInv, AllApart
    <3> QED
      BY <2>1, <3>1 DEF Apart
  <2> QED
    BY <2>1 DEF Boxes
<1>14. /\ PoolHold[w] = Boxes(Held(st[w].q)) \cup {n.box}
       /\ PoolHold' = [PoolHold EXCEPT ![w] = (PoolHold[w] \ {n.box}) \cup Boxes(C)]
  <2>1. PoolHold[w] = Boxes(Held(st[w].q)) \cup {n.box}
    BY <1>2, <1>12 DEF Boxes
  <2>2. Boxes(OwnOf(t, NoNode)) = Boxes(Held(st[w].q)) \cup Boxes(C)
    BY <1>4, <1>5, BoxesAre
  <2>3. (PoolHold[w] \ {n.box}) \cup Boxes(C) = Boxes(Held(st[w].q)) \cup Boxes(C)
    BY <1>13, <2>1
  <2> QED
    BY <1>12, <2>1, <2>2, <2>3
<1>15. PoolWant' = IF goes = "halt" THEN PoolWant \cup {w} ELSE PoolWant
  BY <1>11, <1>12
<1>16. /\ n.box \in PoolHold[w]
       /\ Boxes(C) \in SUBSET [box \in SUBSET Points |-> (SUBSET box) \ {box}][n.box]
  <2>1. n.box \in SUBSET Points
    BY <1>1 DEF Nodes
  <2>2. \A box \in Boxes(C) : box \subseteq n.box /\ box # n.box
    BY <1>0 DEF Parts, Boxes
  <2>3. Boxes(C) \subseteq (SUBSET n.box) \ {n.box}
    BY <2>2
  <2>4. [box \in SUBSET Points |-> (SUBSET box) \ {box}][n.box] = (SUBSET n.box) \ {n.box}
    BY <2>1
  <2> QED
    BY <1>14, <2>3, <2>4
<1> DEFINE b == n.box
           D == Boxes(C)
<1>17. Pool!Process(w, b, D)
  <2>1. UNCHANGED <<Boxes(heap), idle, stopped, waiting, notified, mainPc>>
    BY DEF poolVars, Boxes
  <2> HIDE DEF b, D
  <2> QED
    BY <1>11, <1>12, <1>14, <1>15, <2>1 DEF Pool!Process, Pool!poolVars, PoolPcs, PoolHold, PoolWant, b, D
<1> HIDE DEF b, D
<1>18. Pool!Work(w)
  BY <1>16, <1>17 DEF Pool!Work, PoolHold, b, D
<1> QED
  BY <1>10, <1>18 DEF Pool!Next

-----------------------------------------------------------------------------
(* Every step is one of the pool's module *)

\* A node may leave nothing.
LEMMA NoParts == ASSUME NEW n PROVE Parts({}, n) /\ {} \in SUBSET Nodes
  BY DEF Parts, AllApart

\* A new incumbent moves no node.
LEMMA IncumbentPlaces ==
  ASSUME NEW s \in States, NEW v \in Int, NEW t, t = [s EXCEPT !.inc = v]
  PROVE  Gains(s, t, {}) /\ SameWish(s, t)
<1>1. /\ t.q = s.q /\ t.deadlineStop = s.deadlineStop
      /\ t.maxnodesStop = s.maxnodesStop /\ t.unbounded = s.unbounded
  BY DEF States
<1> QED
  BY <1>1 DEF Gains, SameWish, WantsStop

\* The stop conditions: the node is folded and the worker asks for the end.
LEMMA RunStopPlaces ==
  ASSUME ParInv, PlacesInv, NEW w \in Workers, RunStop(w)
  PROVE  PlacesInv' /\ Pool!Next
<1> DEFINE t == Stopped(st[w], hand[w], expired)
<1>1. pc[w] \in Working /\ Consume(w, t, "halt") /\ UNCHANGED <<poolVars, mainPc>>
  BY DEF RunStop, Working
<1>2. Gains(st[w], t, {}) /\ WantsStop(t)
  BY WorkerIs, StoppedPlaces
<1> HIDE DEF t
<1> QED
  BY <1>1, <1>2, NoParts, ConsumePlaces

\* Pruned before the relaxation.
LEMMA RunPrunePlaces ==
  ASSUME ParInv, PlacesInv, NEW w \in Workers, RunPrune(w)
  PROVE  PlacesInv' /\ Pool!Next
<1> DEFINE s == MaybeDive(st[w], hand[w])
           t == EndOfDive(s)
<1>1. /\ pc[w] = "run" /\ pc[w] \in Working /\ UNCHANGED <<poolVars, mainPc>>
      /\ Consume(w, t, Onward(t)) \/ Consume(w, s, Onward(s))
  BY DEF RunPrune, Working
<1>2. s \in States /\ Gains(st[w], s, {}) /\ SameWish(st[w], s)
  BY <1>1, WorkerIs, HeadIs, MaybeDivePlaces
<1> HIDE DEF s
<1>3. Gains(st[w], t, {}) /\ SameWish(st[w], t)
  BY <1>2, EndOfDivePlaces, GainsFollow
<1> HIDE DEF t
<1>4. ASSUME NEW u \in {s, t}, Consume(w, u, Onward(u))
      PROVE  PlacesInv' /\ Pool!Next
  <2>1. Onward(u) \in {"fetch", "publish"}
    BY DEF Onward
  <2> QED
    BY <1>1, <1>2, <1>3, <1>4, <2>1, NoParts, ConsumePlaces
<1> QED
  BY <1>1, <1>4

\* The relaxation failed: nothing is left of the node, or its children.
LEMMA SolveFailedPlaces ==
  ASSUME ParInv, PlacesInv, NEW w \in Workers, SolveFailed(w)
  PROVE  PlacesInv' /\ Pool!Next
<1>1. /\ pc[w] \in Working /\ UNCHANGED <<poolVars, mainPc>>
      /\ st[w] \in States /\ hand[w] \in Nodes
  BY WorkerIs DEF SolveFailed, Working
<1>2. \/ Consume(w, AfterInfeasible(st[w], hand[w]), "count")
      \/ Consume(w, AfterUnbounded(st[w]), "countHalt")
      \/ Consume(w, AfterTimeout(st[w], hand[w]), "countHalt")
      \/ \E s \in AfterUntrusted(st[w], hand[w]) : Consume(w, s, "count")
      \/ Consume(w, GiveUp(st[w], hand[w]), "count")
  BY DEF SolveFailed
<1>3. CASE Consume(w, AfterInfeasible(st[w], hand[w]), "count")
  BY <1>1, <1>3, InfeasiblePlaces, NoParts, ConsumePlaces
<1>4. CASE Consume(w, AfterUnbounded(st[w]), "countHalt")
  BY <1>1, <1>4, UnboundedPlaces, NoParts, ConsumePlaces
<1>5. CASE Consume(w, AfterTimeout(st[w], hand[w]), "countHalt")
  BY <1>1, <1>5, TimeoutPlaces, NoParts, ConsumePlaces
<1>6. CASE \E s \in AfterUntrusted(st[w], hand[w]) : Consume(w, s, "count")
  <2>1. PICK s \in AfterUntrusted(st[w], hand[w]) : Consume(w, s, "count")
    BY <1>6
  <2>2. PICK C \in SUBSET Nodes : Parts(C, hand[w]) /\ Gains(st[w], s, C) /\ SameWish(st[w], s)
    BY <1>1, BranchedPlaces
  <2> QED
    BY <1>1, <2>1, <2>2, ConsumePlaces
<1>7. CASE Consume(w, GiveUp(st[w], hand[w]), "count")
  BY <1>1, <1>7, GiveUpPlaces, NoParts, ConsumePlaces
<1> QED
  BY <1>2, <1>3, <1>4, <1>5, <1>6, <1>7

\* Pruned by the relaxation.
LEMMA SolvePrunePlaces ==
  ASSUME ParInv, PlacesInv, NEW w \in Workers, SolvePrune(w)
  PROVE  PlacesInv' /\ Pool!Next
<1>1. pc[w] \in Working /\ Consume(w, st[w], "count") /\ UNCHANGED <<poolVars, mainPc>>
  BY DEF SolvePrune, Working
<1>2. Gains(st[w], st[w], {}) /\ SameWish(st[w], st[w])
  BY DEF Gains, SameWish
<1> QED
  BY <1>1, <1>2, NoParts, ConsumePlaces

\* An integral relaxation.
LEMMA SolveLeafPlaces ==
  ASSUME ParInv, PlacesInv, NEW w \in Workers, SolveLeaf(w)
  PROVE  PlacesInv' /\ Pool!Next
<1>1. pc[w] \in Working /\ UNCHANGED <<poolVars, mainPc>> /\ st[w] \in States /\ hand[w] \in Nodes
  BY WorkerIs DEF SolveLeaf, Working
<1>2. PICK r \in Relaxations(hand[w].box) :
        /\ r.status = "optimal" /\ r.integral /\ best' = Lesser(best, r.obj)
        /\ Consume(w, EndOfDive([st[w] EXCEPT !.inc = Lesser(@, best')]), "count")
  BY DEF SolveLeaf
<1>3. r.obj \in Int /\ best \in Int
  BY <1>1, <1>2, WorkerIs, RelaxationIs DEF Nodes
<1> DEFINE v == Lesser(st[w].inc, best')
           s == [st[w] EXCEPT !.inc = v]
           t == EndOfDive(s)
<1>4. v \in Int
  BY <1>1, <1>2, <1>3 DEF States, Lesser
<1>5. Consume(w, t, "count")
  BY <1>2
<1> HIDE DEF v
<1>6. s \in States /\ Gains(st[w], s, {}) /\ SameWish(st[w], s)
  BY <1>1, <1>4, WorkerIs, SeesIncumbent, IncumbentPlaces
<1> HIDE DEF s
<1>7. Gains(st[w], t, {}) /\ SameWish(st[w], t)
  BY <1>6, EndOfDivePlaces, GainsFollow
<1> HIDE DEF t
<1> QED
  BY <1>1, <1>5, <1>7, NoParts, ConsumePlaces

\* The node is split, or given up for its depth.
LEMMA BranchPlaces ==
  ASSUME ParInv, PlacesInv, NEW w \in Workers, Branch(w)
  PROVE  PlacesInv' /\ Pool!Next
<1>1. pc[w] \in Working /\ UNCHANGED <<poolVars, mainPc>> /\ st[w] \in States /\ hand[w] \in Nodes
  BY WorkerIs DEF Branch, Working
<1>2. PICK found \in {Inf} \cup {Value[p] : p \in Feasible} :
        /\ best' = Lesser(best, found)
        /\ \E t \in AfterFractional(IF found = Inf THEN st[w]
                                    ELSE [st[w] EXCEPT !.inc = Lesser(@, best')], hand[w]) :
             Consume(w, t, "count")
  BY DEF Branch
<1>3. found \in Int /\ best \in Int
  BY <1>2, WorkerIs, ProblemIs
<1> DEFINE v == Lesser(st[w].inc, best')
           u == [st[w] EXCEPT !.inc = v]
           s == IF found = Inf THEN st[w] ELSE u
<1>4. PICK t \in AfterFractional(s, hand[w]) : Consume(w, t, "count")
  BY <1>2
<1>5. v \in Int
  BY <1>1, <1>2, <1>3 DEF States, Lesser
<1> HIDE DEF v
<1>6. u \in States /\ Gains(st[w], u, {}) /\ SameWish(st[w], u)
  BY <1>1, <1>5, WorkerIs, SeesIncumbent, IncumbentPlaces
<1>7. Gains(st[w], st[w], {}) /\ SameWish(st[w], st[w])
  BY DEF Gains, SameWish
<1> HIDE DEF u
<1>8. s \in States /\ Gains(st[w], s, {}) /\ SameWish(st[w], s)
  BY <1>1, <1>6, <1>7
<1> HIDE DEF s
<1>9. PICK C \in SUBSET Nodes : Parts(C, hand[w]) /\ Gains(s, t, C) /\ SameWish(s, t)
  BY <1>1, <1>4, <1>8, BranchedPlaces
<1>10. Gains(st[w], t, C) /\ SameWish(st[w], t)
  BY <1>8, <1>9, GainsFollow
<1> QED
  BY <1>1, <1>4, <1>9, <1>10, ConsumePlaces

\* An open node is not the dummy, and what has its box is open nowhere else.
LEMMA HandIsAlone ==
  ASSUME PlacesInv, NEW w \in Workers, hand[w] # NoNode, NEW h, h.box = hand[w].box, Real(h)
  PROVE  /\ hand[w] \in Own(w) /\ h # NoNode
         /\ h = hand[w] \/ h \notin heap \cup Held(st[w].q)
         /\ Refine({h}, hand[w])
<1>1. hand[w] \in Own(w) /\ hand[w] \in OpenNodes
  BY OwnIs DEF OwnOf
<1>2. ASSUME h \in heap \cup Held(st[w].q), h # hand[w]
      PROVE  FALSE
  <2>1. h \in OpenNodes
    BY <1>2, OwnIs DEF OwnOf
  <2>2. Apart(h, hand[w])
    BY <1>1, <1>2, <2>1 DEF PlacesInv, AllApart
  <2> QED
    BY <2>2 DEF Apart
<1>3. h # NoNode
  BY DEF Real, NoNode
<1> QED
  BY <1>1, <1>2, <1>3 DEF Refine, AllApart

\* A worker that keeps what it has, perhaps with a better bound for the node in hand.
LEMMA StayStep ==
  ASSUME ParInv, PlacesInv, NEW w \in Workers, NEW to, NEW t, NEW h,
         pc' = [pc EXCEPT ![w] = to], st' = [st EXCEPT ![w] = t], hand' = [hand EXCEPT ![w] = h],
         heap' = heap, Gains(st[w], t, {}), to = "wait" => Held(st[w].q) = {},
         to \in Working => hand[w] # NoNode,
         h = hand[w] \/ (hand[w] # NoNode /\ Real(h) /\ h.box = hand[w].box)
  PROVE  /\ PlacesInv' /\ Boxes(OwnOf(t, h)) = Boxes(Own(w))
         /\ PoolPcs' = [PoolPcs EXCEPT ![w] = PlaceOf(to, t)]
         /\ PoolHold' = PoolHold
         /\ SameWish(st[w], t) => PoolWant' = PoolWant
<1>1. /\ pc \in [Workers -> WorkerPc] /\ st \in [Workers -> States] /\ hand \in [Workers -> Nodes]
  BY WorkerIs
<1>2. /\ OnePlace(st[w].q) /\ hand[w] \notin Held(st[w].q) /\ Own(w) \cap heap = {}
      /\ Own(w) = Held(st[w].q) \cup ({hand[w]} \ {NoNode})
  BY OwnIs DEF PlacesInv, OwnOf
<1>3. Held(t.q) = Held(st[w].q) /\ OnePlace(t.q)
  BY <1>2 DEF Gains
<1>4. ASSUME h = hand[w]
      PROVE  PlacesInv' /\ Boxes(OwnOf(t, h)) = Boxes(Own(w))
  <2>1. OwnOf(t, h) = Own(w)
    BY <1>2, <1>3, <1>4 DEF OwnOf
  <2>2. NoNode \notin heap \cup Own(w)
    <3>1. ~Real(NoNode)
      BY DEF Real, NoNode
    <3> QED
      BY <3>1, OwnIs DEF PlacesInv
  <2> DEFINE R == {}
  <2>0. R = {}
    OBVIOUS
  <2> HIDE DEF R
  <2>3. /\ heap' \cup OwnOf(t, h) \subseteq ((heap \cup Own(w)) \ {NoNode}) \cup R
        /\ heap' \cap OwnOf(t, h) = {}
    BY <1>2, <2>1, <2>2
  <2>5. h \notin Held(t.q) /\ (to = "wait" => Held(t.q) = {}) /\ (to \in Working => h # NoNode)
    BY <1>2, <1>3, <1>4
  <2>4. PlacesInv'
    BY <1>1, <1>3, <2>0, <2>3, <2>5, OpenStep
  <2> QED
    BY <2>1, <2>4
<1>5. ASSUME h # hand[w]
      PROVE  PlacesInv' /\ Boxes(OwnOf(t, h)) = Boxes(Own(w))
  <2>1. hand[w] # NoNode /\ Real(h) /\ h.box = hand[w].box
    BY <1>5
  <2>2. /\ hand[w] \in Own(w) /\ h # NoNode /\ h \notin heap \cup Held(st[w].q)
        /\ Refine({h}, hand[w])
    BY <1>5, <2>1, HandIsAlone
  <2>3. OwnOf(t, h) = Held(st[w].q) \cup {h} /\ Own(w) = Held(st[w].q) \cup {hand[w]}
    BY <1>2, <1>3, <2>1, <2>2 DEF OwnOf
  <2>4. Boxes(OwnOf(t, h)) = Boxes(Own(w))
    BY <2>1, <2>3 DEF Boxes
  <2>5. heap' \cap OwnOf(t, h) = {}
    BY <1>2, <2>2, <2>3
  <2>6. heap' \cup OwnOf(t, h) \subseteq ((heap \cup Own(w)) \ {hand[w]}) \cup {h}
    BY <1>2, <2>2, <2>3
  <2>7. h \notin Held(t.q) /\ (to = "wait" => Held(t.q) = {})
    BY <1>3, <2>2
  <2>8. PlacesInv'
    BY <1>1, <1>3, <2>2, <2>5, <2>6, <2>7, OpenStep
  <2> QED
    BY <2>4, <2>8
<1>6. PlacesInv' /\ Boxes(OwnOf(t, h)) = Boxes(Own(w))
  BY <1>4, <1>5
<1>7. /\ PoolPcs' = [PoolPcs EXCEPT ![w] = PlaceOf(to, t)]
      /\ PoolHold' = [PoolHold EXCEPT ![w] = Boxes(OwnOf(t, h))]
      /\ WantsStop(t) => PoolWant' = PoolWant \cup {w}
      /\ SameWish(st[w], t) => PoolWant' = PoolWant
  BY <1>1, SeenStep
<1>8. PoolHold' = PoolHold
  <2>1. PoolHold[w] = Boxes(Own(w))
    BY SeenIs
  <2> QED
    BY <1>6, <1>7, <2>1 DEF PoolHold
<1> QED
  BY <1>6, <1>7, <1>8

\* A step between two places that the pool's module does not tell apart.
LEMMA SilentStep ==
  ASSUME ParInv, PlacesInv, NEW w \in Workers, NEW to, NEW t, NEW h,
         pc' = [pc EXCEPT ![w] = to], st' = [st EXCEPT ![w] = t], hand' = [hand EXCEPT ![w] = h],
         UNCHANGED <<poolVars, mainPc>>, Gains(st[w], t, {}), SameWish(st[w], t),
         PlaceOf(to, t) = PlaceOf(pc[w], st[w]), to # "wait",
         to \in Working => hand[w] # NoNode,
         h = hand[w] \/ (hand[w] # NoNode /\ Real(h) /\ h.box = hand[w].box)
  PROVE  PlacesInv' /\ UNCHANGED PoolSees
<1>1. heap' = heap
  BY DEF poolVars
<1>2. /\ PlacesInv' /\ Boxes(OwnOf(t, h)) = Boxes(Own(w))
      /\ PoolPcs' = [PoolPcs EXCEPT ![w] = PlaceOf(to, t)]
      /\ PoolHold' = PoolHold
      /\ SameWish(st[w], t) => PoolWant' = PoolWant
  BY <1>1, StayStep
<1>3. PoolPcs[w] = PlaceOf(pc[w], st[w])
  BY SeenIs
<1>4. PoolPcs' = PoolPcs
  BY <1>2, <1>3 DEF PoolPcs
<1> QED
  BY <1>2, <1>4 DEF PoolSees, poolVars, Boxes

\* The view is refreshed, the relaxation begins or is fractional, the node is counted.
LEMMA SilentSteps ==
  ASSUME ParInv, PlacesInv, NEW w \in Workers,
         Sync(w) \/ RunSolve(w) \/ SolveFractional(w) \/ Count(w)
  PROVE  PlacesInv' /\ UNCHANGED PoolSees
<1>1. /\ UNCHANGED <<poolVars, mainPc>> /\ st[w] \in States /\ hand[w] \in Nodes
      /\ best \in Int /\ st[w].inc \in Int
      /\ pc \in [Workers -> WorkerPc] /\ st \in [Workers -> States] /\ hand \in [Workers -> Nodes]
  BY WorkerIs DEF Sync, RunSolve, SolveFractional, Count, States
<1>2. pc[w] \in Working => hand[w] # NoNode
  BY DEF PlacesInv
<1>3. Gains(st[w], st[w], {}) /\ SameWish(st[w], st[w])
  BY DEF Gains, SameWish
<1>4. CASE Sync(w)
  <2>1. PICK inc \in {best, st[w].inc} : st' = [st EXCEPT ![w].inc = Lesser(@, inc)]
    BY <1>4 DEF Sync
  <2>2. pc[w] = "sync" /\ pc' = [pc EXCEPT ![w] = "run"] /\ hand' = [hand EXCEPT ![w] = hand[w]]
    BY <1>1, <1>4 DEF Sync
  <2> DEFINE v == Lesser(st[w].inc, inc)
             t == [st[w] EXCEPT !.inc = v]
  <2>3. st' = [st EXCEPT ![w] = t]
    BY <1>1, <2>1
  <2>4. v \in Int
    BY <1>1 DEF Lesser
  <2> HIDE DEF v
  <2>5. Gains(st[w], t, {}) /\ SameWish(st[w], t)
    BY <1>1, <2>4, IncumbentPlaces
  <2> HIDE DEF t
  <2>6. PlaceOf("run", t) = PlaceOf(pc[w], st[w]) /\ pc[w] \in Working
    BY <2>2, PlaceIs DEF Working
  <2> QED
    BY <1>1, <1>2, <2>2, <2>3, <2>5, <2>6, SilentStep
<1>5. CASE RunSolve(w)
  <2> DEFINE t == MaybeDive(st[w], hand[w])
  <2>1. /\ pc[w] = "run" /\ pc' = [pc EXCEPT ![w] = "solve"] /\ st' = [st EXCEPT ![w] = t]
        /\ hand' = [hand EXCEPT ![w] = hand[w]]
    BY <1>1, <1>5 DEF RunSolve
  <2>2. Gains(st[w], t, {}) /\ SameWish(st[w], t)
    BY <1>1, MaybeDivePlaces
  <2> HIDE DEF t
  <2>3. PlaceOf("solve", t) = PlaceOf(pc[w], st[w]) /\ pc[w] \in Working
    BY <2>1, PlaceIs DEF Working
  <2> QED
    BY <1>1, <1>2, <2>1, <2>2, <2>3, SilentStep
<1>6. CASE SolveFractional(w)
  <2>1. PICK r \in Relaxations(hand[w].box) :
          r.status = "optimal" /\ hand' = [hand EXCEPT ![w] = Tightened(@, r)]
    BY <1>6 DEF SolveFractional
  <2> DEFINE h == Tightened(hand[w], r)
  <2>2. /\ pc[w] = "solve" /\ pc' = [pc EXCEPT ![w] = "branch"] /\ st' = [st EXCEPT ![w] = st[w]]
        /\ hand' = [hand EXCEPT ![w] = h]
    BY <1>1, <1>6, <2>1 DEF SolveFractional
  <2>3. h.box = hand[w].box /\ r.obj \in Int /\ r.obj < Inf
    BY <1>1, <2>1, TightenedIs, RelaxationIs DEF Nodes
  <2>4. h.lb = Greater(hand[w].lb, r.obj)
    BY <1>1 DEF Tightened, Nodes
  <2>5. pc[w] \in Working
    BY <2>2 DEF Working
  <2>6. hand[w] \in OpenNodes /\ Real(hand[w])
    BY <1>2, <2>5, OwnIs DEF PlacesInv, OwnOf
  <2>7. Real(h)
    BY <2>3, <2>4, <2>6, ProblemIs DEF Real, Greater
  <2> HIDE DEF h
  <2>8. PlaceOf("branch", st[w]) = PlaceOf(pc[w], st[w])
    BY <2>2, PlaceIs DEF Working
  <2> QED
    BY <1>1, <1>2, <1>3, <2>2, <2>3, <2>5, <2>7, <2>8, SilentStep
<1>7. CASE Count(w)
  <2> DEFINE to == IF pc[w] = "countHalt" THEN "halt" ELSE Onward(st[w])
  <2>1. /\ pc[w] \in {"count", "countHalt"} /\ pc' = [pc EXCEPT ![w] = to]
        /\ st' = [st EXCEPT ![w] = st[w]] /\ hand' = [hand EXCEPT ![w] = hand[w]]
    BY <1>1, <1>7 DEF Count
  <2>2. to \in {"halt", "fetch", "publish"} /\ to # "wait" /\ to \notin Working /\ to \in Plain
    BY DEF Onward, Working, Plain, WorkerPc
  <2>3. PlaceOf(to, st[w]) = to
    BY <2>2, PlaceIs
  <2>4. PlaceOf(pc[w], st[w]) = to
    BY <2>1, PlaceIs
  <2> HIDE DEF to
  <2> QED
    BY <1>1, <1>3, <2>1, <2>2, <2>3, <2>4, SilentStep
<1> QED
  BY <1>4, <1>5, <1>6, <1>7

\* A node popped from a queue is in it no longer.
LEMMA PopPlace ==
  ASSUME NEW q \in Queues, OnePlace(q), NEW r \in Popped(q)
  PROVE  OnePlace(r.rest) /\ r.node \notin Held(r.rest)
<1>1. q.heap \subseteq Nodes /\ q.stack \in Seq(Nodes) /\ q.diving \in BOOLEAN
  BY DEF Queues
<1>2. ASSUME FromStack(q)
      PROVE  OnePlace(r.rest) /\ r.node \notin Held(r.rest)
  <2> DEFINE n == Len(q.stack)
             rest == SubSeq(q.stack, 1, n - 1)
  <2>1. /\ n \in Nat /\ n > 0 /\ DOMAIN q.stack = 1 .. n
        /\ \A i \in 1 .. n : q.stack[i] \in Nodes
    BY <1>1, <1>2, LenProperties, EmptySeq, ElementOfSeq DEF FromStack
  <2>2. r.node = q.stack[n] /\ r.rest = PopTop(q)
    BY <1>2 DEF Popped
  <2>3. r.rest = [heap |-> q.heap, stack |-> rest, diving |-> rest # <<>>]
    BY <2>2 DEF PopTop, Queues
  <2>4. /\ rest \in Seq(Nodes) /\ Len(rest) = n - 1
        /\ \A i \in 1 .. n - 1 : rest[i] = q.stack[i]
    <3>1. \A i \in 1 .. n - 1 : q.stack[i] \in Nodes
      BY <2>1
    <3>2. 1 \in Int /\ n - 1 \in Int
      BY <2>1
    <3> HIDE DEF n
    <3>3. /\ SubSeq(q.stack, 1, n - 1) \in Seq(Nodes)
          /\ Len(SubSeq(q.stack, 1, n - 1)) = IF 1 <= n - 1 THEN (n - 1) - 1 + 1 ELSE 0
          /\ \A i \in 1 .. (n - 1) - 1 + 1 : SubSeq(q.stack, 1, n - 1)[i] = q.stack[1 + i - 1]
      BY <1>1, <3>1, <3>2, SubSeqProperties
    <3> QED
      BY <2>1, <3>3
  <2>5. DOMAIN rest = 1 .. n - 1
    BY <2>4, LenProperties
  <2> HIDE DEF n, rest
  <2>6. /\ \A i \in 1 .. n - 1 : i \in 1 .. n /\ i # n
        /\ n \in 1 .. n
    BY <2>1
  <2>7. /\ \A i \in DOMAIN rest : i \in DOMAIN q.stack /\ rest[i] = q.stack[i] /\ i # n
        /\ n \in DOMAIN q.stack
    BY <2>1, <2>4, <2>5, <2>6
  <2>8. /\ \A i, j \in DOMAIN rest : rest[i] = rest[j] => i = j
        /\ \A i \in DOMAIN rest : rest[i] \notin q.heap /\ rest[i] # q.stack[n]
        /\ q.stack[n] \notin q.heap
    BY <2>7 DEF OnePlace
  <2> QED
    BY <2>2, <2>3, <2>8 DEF OnePlace, Held
<1>3. ASSUME ~FromStack(q)
      PROVE  OnePlace(r.rest) /\ r.node \notin Held(r.rest)
  <2>1. PICK n \in BestNodes(q.heap) : r.node = n /\ r.rest = PopBest(q, n)
    BY <1>3 DEF Popped
  <2>2. n \in q.heap
    BY DEF BestNodes
  <2>3. r.rest = [heap |-> q.heap \ {n}, stack |-> q.stack, diving |-> FALSE]
    BY <2>1 DEF PopBest, Queues
  <2> QED
    BY <1>1, <2>1, <2>2, <2>3 DEF Held, OnePlace
<1> QED
  BY <1>2, <1>3

\* No open node is the dummy.
LEMMA NoDummy == ASSUME PlacesInv PROVE NoNode \notin OpenNodes
  BY DEF PlacesInv, Real, NoNode

\* A worker that gives its nodes to the pool, takes some of it, or drops them.
LEMMA HandOver ==
  ASSUME ParInv, PlacesInv, NEW w \in Workers, NEW to, NEW t, NEW h,
         pc' = [pc EXCEPT ![w] = to], st' = [st EXCEPT ![w] = t], hand' = [hand EXCEPT ![w] = h],
         OnePlace(t.q), h \notin Held(t.q), to # "wait", to \in Working => h # NoNode,
         heap' \cap OwnOf(t, h) = {}, heap' \cup OwnOf(t, h) \subseteq heap \cup Own(w)
  PROVE  PlacesInv'
<1>1. pc \in [Workers -> WorkerPc] /\ st \in [Workers -> States] /\ hand \in [Workers -> Nodes]
  BY WorkerIs
<1> DEFINE R == {}
<1>2. R = {}
  OBVIOUS
<1> HIDE DEF R
<1>3. heap' \cup OwnOf(t, h) \subseteq ((heap \cup Own(w)) \ {NoNode}) \cup R
  BY NoDummy, OwnIs
<1> QED
  BY <1>1, <1>2, <1>3, OpenStep

\* The worker's own node.
LEMMA TakeOwnPlaces ==
  ASSUME ParInv, PlacesInv, NEW w \in Workers, TakeOwn(w)
  PROVE  PlacesInv' /\ Pool!Next
<1>1. PICK r \in Popped(st[w].q) :
        /\ hand' = [hand EXCEPT ![w] = r.node] /\ st' = [st EXCEPT ![w].q = r.rest]
  BY DEF TakeOwn
<1>2. /\ pc[w] = "fetch" /\ pc' = [pc EXCEPT ![w] = "sync"]
      /\ UNCHANGED <<poolVars, mainPc>>
      /\ pc \in [Workers -> WorkerPc] /\ st \in [Workers -> States] /\ hand \in [Workers -> Nodes]
      /\ st[w] \in States /\ st[w].q \in Queues /\ hand[w] = NoNode
  BY WorkerIs, FetchingIs DEF TakeOwn
<1>3. OnePlace(st[w].q) /\ Own(w) \cap heap = {} /\ Own(w) \subseteq OpenNodes
  BY OwnIs DEF PlacesInv
<1> DEFINE n == r.node
           q == r.rest
           t == [st[w] EXCEPT !.q = q]
<1>4. /\ q \in Queues /\ Held(st[w].q) = Held(q) \cup {n}
      /\ OnePlace(q) /\ n \notin Held(q)
  BY <1>2, <1>3, PoppedIs, PopPlace
<1>5. st' = [st EXCEPT ![w] = t] /\ hand' = [hand EXCEPT ![w] = n]
  BY <1>1, <1>2
<1> HIDE DEF q, n
<1>6. t.q = q /\ SameWish(st[w], t)
  BY <1>2 DEF States, SameWish, WantsStop
<1> HIDE DEF t
<1>7. Own(w) = Held(st[w].q) /\ n # NoNode /\ OwnOf(t, n) = Own(w)
  <2>1. Own(w) = Held(st[w].q)
    BY <1>2, OwnIs DEF OwnOf
  <2>2. n # NoNode
    BY <1>3, <1>4, <2>1, NoDummy
  <2> QED
    BY <1>4, <1>6, <2>1, <2>2 DEF OwnOf
<1>8. heap' = heap /\ heap' \cap OwnOf(t, n) = {}
  BY <1>2, <1>3, <1>7 DEF poolVars
<1>9. PlacesInv'
  BY <1>2, <1>4, <1>5, <1>6, <1>7, <1>8, HandOver DEF Working
<1>10. /\ PoolPcs' = [PoolPcs EXCEPT ![w] = PlaceOf("sync", t)]
       /\ PoolHold' = [PoolHold EXCEPT ![w] = Boxes(OwnOf(t, n))]
       /\ WantsStop(t) => PoolWant' = PoolWant \cup {w}
       /\ SameWish(st[w], t) => PoolWant' = PoolWant
  BY <1>2, <1>5, SeenStep
<1>11. /\ PlaceOf("sync", t) = "work" /\ PoolPcs[w] = "fetch" /\ PoolHold[w] = Boxes(Own(w))
  BY <1>2, PlaceIs, SeenIs DEF Working, Plain, WorkerPc
<1>12. PoolHold' = PoolHold /\ PoolHold[w] # {}
  <2>1. PoolHold' = [PoolHold EXCEPT ![w] = PoolHold[w]]
    BY <1>7, <1>10, <1>11
  <2>2. PoolHold' = PoolHold
    BY <2>1 DEF PoolHold
  <2>3. n \in Own(w)
    BY <1>4, <1>7
  <2>4. n.box \in Boxes(Own(w))
    BY <2>3 DEF Boxes
  <2> QED
    BY <1>11, <2>2, <2>4
<1>13. Pool!TakeOwn(w)
  <2>1. UNCHANGED <<Boxes(heap), idle, stopped, waiting, notified, mainPc>>
    BY <1>2 DEF poolVars, Boxes
  <2> QED
    BY <1>6, <1>10, <1>11, <1>12, <2>1
       DEF Pool!TakeOwn, Pool!Goto, Pool!poolVars, PoolPcs, PoolHold, PoolWant
<1> QED
  BY <1>9, <1>13 DEF Pool!Next, Pool!Work

\* The pop of the own queue that found nothing moves no node.
LEMMA LeftDivePlaces ==
  ASSUME ParInv, PlacesInv, NEW w \in Workers, AtPop(w), OwnQueueEmpty(w)
  PROVE  /\ \E t \in States : /\ st' = [st EXCEPT ![w] = t]
                              /\ Gains(st[w], t, {}) /\ SameWish(st[w], t)
         /\ Held(st[w].q) = {} /\ hand[w] = NoNode /\ PoolHold[w] = {}
         /\ pc[w] \in {"fetch", "wait"} /\ PoolPcs[w] = pc[w]
<1>1. pc[w] \in {"fetch", "wait"} /\ Held(st[w].q) = {} /\ st' = [st EXCEPT ![w].q.diving = FALSE]
  BY DEF AtPop, OwnQueueEmpty, PlacesInv
<1>2. hand[w] = NoNode /\ st[w] \in States /\ st \in [Workers -> States]
  BY <1>1, FetchingIs, WorkerIs
<1> DEFINE q == [st[w].q EXCEPT !.diving = FALSE]
           t == [st[w] EXCEPT !.q = q]
<1>3. q \in Queues /\ q.heap = st[w].q.heap /\ q.stack = st[w].q.stack
  BY <1>2 DEF States, Queues
<1>4. st' = [st EXCEPT ![w] = t]
  BY <1>1, <1>2
<1> HIDE DEF q
<1>5. /\ t \in States /\ t.q = q /\ t.deadlineStop = st[w].deadlineStop
      /\ t.maxnodesStop = st[w].maxnodesStop /\ t.unbounded = st[w].unbounded
  BY <1>2, <1>3 DEF States
<1> HIDE DEF t
<1>6. Gains(st[w], t, {}) /\ SameWish(st[w], t)
  BY <1>3, <1>5 DEF Gains, SameWish, WantsStop, Held, OnePlace
<1>7. PoolHold[w] = {}
  <2>1. OwnOf(st[w], hand[w]) = {}
    BY <1>1, <1>2 DEF OwnOf
  <2> QED
    BY <2>1, SeenIs, OwnIs, BoxesAre
<1>8. PoolPcs[w] = pc[w]
  BY <1>1, SeenIs, PlaceIs DEF Plain, WorkerPc
<1> QED
  BY <1>1, <1>2, <1>4, <1>5, <1>6, <1>7, <1>8

\* A node of the pool.
LEMMA TakeSharedPlaces ==
  ASSUME ParInv, PlacesInv, NEW w \in Workers, TakeShared(w)
  PROVE  PlacesInv' /\ Pool!Next
<1>1. /\ AtPop(w) /\ OwnQueueEmpty(w) /\ mainPc' = mainPc
      /\ pc' = [pc EXCEPT ![w] = "sync"]
      /\ pc \in [Workers -> WorkerPc] /\ st \in [Workers -> States] /\ hand \in [Workers -> Nodes]
  BY WorkerIs DEF TakeShared
<1>2. PICK n \in BestNodes(heap) : PopNode(w, n) /\ hand' = [hand EXCEPT ![w] = n]
  BY DEF TakeShared
<1>3. PICK t \in States : /\ st' = [st EXCEPT ![w] = t]
                          /\ Gains(st[w], t, {}) /\ SameWish(st[w], t)
  BY <1>1, LeftDivePlaces
<1>4. /\ Held(st[w].q) = {} /\ hand[w] = NoNode /\ PoolHold[w] = {}
      /\ pc[w] \in {"fetch", "wait"} /\ PoolPcs[w] = pc[w]
  BY <1>1, LeftDivePlaces
<1>5. n \in heap /\ n \in OpenNodes /\ heap' = heap \ {n} /\ n # NoNode
  BY <1>2, OwnIs, NoDummy DEF PopNode
<1>6. Held(t.q) = {} /\ OnePlace(t.q) /\ OwnOf(t, n) = {n}
  <2>1. OnePlace(st[w].q)
    BY DEF PlacesInv
  <2>2. Held(t.q) = {} /\ OnePlace(t.q)
    BY <1>3, <1>4, <2>1 DEF Gains
  <2> QED
    BY <1>5, <2>2 DEF OwnOf
<1>7. PlacesInv'
  <2>1. heap' \cap OwnOf(t, n) = {} /\ heap' \cup OwnOf(t, n) \subseteq heap \cup Own(w)
    BY <1>5, <1>6
  <2>2. n \notin Held(t.q) /\ "sync" # "wait"
    BY <1>6
  <2> QED
    BY <1>1, <1>2, <1>3, <1>5, <1>6, <2>1, <2>2, HandOver
<1>8. /\ PoolPcs' = [PoolPcs EXCEPT ![w] = PlaceOf("sync", t)]
      /\ PoolHold' = [PoolHold EXCEPT ![w] = Boxes(OwnOf(t, n))]
      /\ WantsStop(t) => PoolWant' = PoolWant \cup {w}
      /\ SameWish(st[w], t) => PoolWant' = PoolWant
  BY <1>1, <1>2, <1>3, SeenStep
<1> DEFINE b == n.box
<1>9. /\ PoolPcs' = [PoolPcs EXCEPT ![w] = "work"] /\ PoolWant' = PoolWant
      /\ PoolHold' = [PoolHold EXCEPT ![w] = {b}]
  BY <1>3, <1>6, <1>8, PlaceIs, BoxesAre DEF Working
<1>10. b \in Boxes(heap) /\ Boxes(heap)' = Boxes(heap) \ {b}
  <2>1. \A m \in heap : m # n => m.box # b
    <3>1. ASSUME NEW m \in heap, m # n, m.box = b
          PROVE  FALSE
      <4>1. Apart(m, n)
        BY <1>5, <3>1, OwnIs DEF PlacesInv, AllApart
      <4> QED
        BY <3>1, <4>1 DEF Apart
    <3> QED
      BY <3>1
  <2>2. Boxes(heap)' = {m.box : m \in heap \ {n}}
    BY <1>5 DEF Boxes
  <2> QED
    BY <1>5, <2>1, <2>2 DEF Boxes
<1> HIDE DEF b
<1>11. Pool!PopNode(w, b)
  BY <1>2, <1>10 DEF Pool!PopNode, PopNode, Pool!LeaveWait, LeaveWait, Pool!Others, Others
<1>12. Pool!AtPop(w)
  BY <1>4, Zenon DEF Pool!AtPop, PoolPcs, PoolHold
<1>13. Pool!TakeShared(w)
  BY <1>1, <1>9, <1>10, <1>11, <1>12 DEF Pool!TakeShared, PoolPcs, PoolHold, PoolWant
<1> QED
  BY <1>7, <1>13 DEF Pool!Next, Pool!Pop

\* The pool's module counts as this one.
LEMMA SameCount == Pool!Cardinality(Workers) = Cardinality(Workers)
  BY DEF Pool!Cardinality, Cardinality

\* Nothing to take: the worker waits, or leaves.
LEMMA NothingPlaces ==
  ASSUME ParInv, PlacesInv, NEW w \in Workers, Sleep(w) \/ LeaveLoop(w)
  PROVE  PlacesInv' /\ Pool!Next
<1>1. /\ AtPop(w) /\ OwnQueueEmpty(w) /\ mainPc' = mainPc
      /\ pc \in [Workers -> WorkerPc] /\ st \in [Workers -> States] /\ hand \in [Workers -> Nodes]
      /\ heap' = heap /\ hand' = hand
  BY WorkerIs DEF Sleep, LeaveLoop, PopWait, PopStopped, PopAllIdle
<1>2. PICK to \in {"wait", "tail"} : /\ pc' = [pc EXCEPT ![w] = to]
                                     /\ \/ to = "wait" /\ PopWait(w)
                                        \/ to = "tail" /\ (PopStopped(w) \/ PopAllIdle(w))
  BY DEF Sleep, LeaveLoop
<1>3. PICK t \in States : /\ st' = [st EXCEPT ![w] = t]
                          /\ Gains(st[w], t, {}) /\ SameWish(st[w], t)
  BY <1>1, LeftDivePlaces
<1>4. /\ Held(st[w].q) = {} /\ hand[w] = NoNode /\ PoolHold[w] = {}
      /\ pc[w] \in {"fetch", "wait"} /\ PoolPcs[w] = pc[w]
  BY <1>1, LeftDivePlaces
<1>5. /\ hand' = [hand EXCEPT ![w] = hand[w]] /\ to \notin Working /\ to \in Plain
  BY <1>1 DEF Working, Plain, WorkerPc
<1>6. /\ PlacesInv' /\ Boxes(OwnOf(t, hand[w])) = Boxes(Own(w))
      /\ PoolPcs' = [PoolPcs EXCEPT ![w] = PlaceOf(to, t)]
      /\ PoolHold' = PoolHold
      /\ SameWish(st[w], t) => PoolWant' = PoolWant
  BY <1>1, <1>2, <1>3, <1>4, <1>5, StayStep
<1>7. PoolPcs' = [PoolPcs EXCEPT ![w] = to] /\ PoolWant' = PoolWant /\ Boxes(heap)' = Boxes(heap)
  BY <1>1, <1>3, <1>5, <1>6, PlaceIs DEF Boxes
<1>8. Pool!AtPop(w)
  BY <1>4, Zenon DEF Pool!AtPop, PoolPcs, PoolHold
<1>9. heap = {} <=> Boxes(heap) = {}
  BY DEF Boxes
<1>10. CASE to = "wait" /\ PopWait(w)
  <2>1. Pool!PopWait(w)
    BY <1>7, <1>9, <1>10, SameCount, Zenon DEF Pool!PopWait, PopWait, Pool!Others, Others
  <2>2. Pool!Sleep(w)
    BY <1>1, <1>6, <1>7, <1>8, <1>10, <2>1 DEF Pool!Sleep, PoolPcs, PoolHold, PoolWant
  <2> QED
    BY <1>6, <2>2 DEF Pool!Next, Pool!Pop
<1>11. CASE to = "tail" /\ (PopStopped(w) \/ PopAllIdle(w))
  <2>1. Pool!PopStopped(w) \/ Pool!PopAllIdle(w)
    BY <1>7, <1>9, <1>11, SameCount, Zenon DEF Pool!PopStopped, PopStopped, Pool!PopAllIdle, PopAllIdle,
                                    Pool!LeaveWait, LeaveWait, Pool!Others, Others
  <2>2. Pool!LeaveLoop(w)
    BY <1>1, <1>6, <1>7, <1>8, <1>11, <2>1 DEF Pool!LeaveLoop, PoolPcs, PoolHold, PoolWant
  <2> QED
    BY <1>6, <2>2 DEF Pool!Next, Pool!Pop
<1> QED
  BY <1>2, <1>10, <1>11

\* What a worker without a node in hand is seen to hold.
LEMMA EmptyHandIs ==
  ASSUME ParInv, NEW w \in Workers, pc[w] \notin Working
  PROVE  /\ hand[w] = NoNode /\ Own(w) = Held(st[w].q) /\ PoolHold[w] = Boxes(Held(st[w].q))
         /\ hand \in [Workers -> Nodes] /\ hand = [hand EXCEPT ![w] = NoNode]
<1>1. hand[w] = NoNode /\ hand \in [Workers -> Nodes]
  BY WorkerIs DEF WorkerOK
<1>2. Own(w) = Held(st[w].q) \cup ({NoNode} \ {NoNode})
  BY <1>1, OwnIs DEF OwnOf
<1>3. PoolHold[w] = Boxes(Own(w))
  BY SeenIs
<1> QED
  BY <1>1, <1>2, <1>3

\* The own queue emptied.
LEMMA EmptiedPlaces ==
  ASSUME NEW s \in States, NEW t, t = [s EXCEPT !.q = EmptyQueue]
  PROVE  /\ t \in States /\ Held(t.q) = {} /\ OnePlace(t.q) /\ SameWish(s, t)
         /\ Held(s.q) = {} => Gains(s, t, {})
<1> DEFINE e == EmptyQueue
           d == <<>>
<1>1. e \in Queues /\ Held(e) = {}
  BY EmptyQueueIs
<1>2. DOMAIN d = {} /\ e.stack = d
  BY DEF EmptyQueue
<1> HIDE DEF d
<1>3. OnePlace(e)
  BY <1>2 DEF OnePlace
<1> DEFINE u == [s EXCEPT !.q = e]
<1>4. t = u
  OBVIOUS
<1> HIDE DEF e
<1>5. /\ u \in States /\ u.q = e /\ u.deadlineStop = s.deadlineStop
      /\ u.maxnodesStop = s.maxnodesStop /\ u.unbounded = s.unbounded
  BY <1>1 DEF States
<1> HIDE DEF u
<1> QED
  BY <1>1, <1>3, <1>4, <1>5 DEF Gains, SameWish, WantsStop

\* The nodes given to the pool, all of the worker's.
LEMMA PublishPlaces ==
  ASSUME ParInv, PlacesInv, NEW w \in Workers, Publish(w)
  PROVE  PlacesInv' /\ Pool!Next
<1> DEFINE t == [st[w] EXCEPT !.q = EmptyQueue]
           to == IF pc[w] = "tail" THEN "tailBell" ELSE "publishBell"
<1>1. /\ pc[w] \in {"publish", "tail"} /\ Held(st[w].q) # {} /\ heap' = heap \cup Held(st[w].q)
      /\ st' = [st EXCEPT ![w].q = EmptyQueue] /\ pc' = [pc EXCEPT ![w] = to]
      /\ UNCHANGED <<idle, stopped, waiting, notified, mainPc, hand>>
      /\ pc \in [Workers -> WorkerPc] /\ st \in [Workers -> States] /\ st[w] \in States
  BY WorkerIs DEF Publish, Deposit
<1>2. st' = [st EXCEPT ![w] = t]
  BY <1>1
<1>3. Held(t.q) = {} /\ OnePlace(t.q) /\ SameWish(st[w], t)
  BY <1>1, EmptiedPlaces
<1> HIDE DEF t
<1>4. pc[w] \notin Working
  BY <1>1 DEF Working
<1>5. /\ hand' = [hand EXCEPT ![w] = NoNode] /\ hand \in [Workers -> Nodes]
      /\ Own(w) = Held(st[w].q) /\ PoolHold[w] = Boxes(Held(st[w].q))
  BY <1>1, <1>4, EmptyHandIs
<1>6. OwnOf(t, NoNode) = {}
  BY <1>3 DEF OwnOf
<1>7. to \in {"tailBell", "publishBell"} /\ to # "wait" /\ to \notin Working /\ to \in Plain
  BY DEF Working, Plain, WorkerPc
<1>0. to = IF pc[w] = "tail" THEN "tailBell" ELSE "publishBell"
  OBVIOUS
<1> HIDE DEF to
<1>8. heap' \cap OwnOf(t, NoNode) = {} /\ heap' \cup OwnOf(t, NoNode) \subseteq heap \cup Own(w)
  BY <1>1, <1>5, <1>6
<1>9. PlacesInv'
  BY <1>1, <1>2, <1>3, <1>5, <1>7, <1>8, HandOver
<1>10. /\ PoolPcs' = [PoolPcs EXCEPT ![w] = PlaceOf(to, t)]
       /\ PoolHold' = [PoolHold EXCEPT ![w] = Boxes(OwnOf(t, NoNode))]
       /\ WantsStop(t) => PoolWant' = PoolWant \cup {w}
       /\ SameWish(st[w], t) => PoolWant' = PoolWant
  BY <1>1, <1>2, <1>5, SeenStep
<1>11. /\ PoolPcs' = [PoolPcs EXCEPT ![w] = to] /\ PoolWant' = PoolWant
       /\ PoolHold' = [PoolHold EXCEPT ![w] = {}]
  BY <1>3, <1>6, <1>7, <1>10, PlaceIs, BoxesAre
<1>12. PoolPcs[w] = pc[w]
  BY <1>1, SeenIs, PlaceIs DEF Plain, WorkerPc
<1>13. PoolHold[w] # {} /\ Boxes(heap)' = Boxes(heap) \cup PoolHold[w]
  <2>1. Boxes(Held(st[w].q)) # {}
    BY <1>1 DEF Boxes
  <2>2. Boxes(heap)' = Boxes(heap \cup Held(st[w].q))
    BY <1>1 DEF Boxes
  <2> QED
    BY <1>5, <2>1, <2>2, BoxesAre
<1>14. Pool!Deposit(PoolHold[w])
  BY <1>1, <1>13 DEF Pool!Deposit
<1>15. PoolPcs' = [PoolPcs EXCEPT ![w] = IF PoolPcs[w] = "tail" THEN "tailBell" ELSE "publishBell"]
  BY <1>0, <1>11, <1>12
<1>16. Pool!Publish(w)
  BY <1>1, <1>11, <1>12, <1>13, <1>14, <1>15
     DEF Pool!Publish, PoolPcs, PoolHold, PoolWant
<1> QED
  BY <1>9, <1>16 DEF Pool!Next, Pool!Work

\* Nothing to give: the worker goes on, or ends.
LEMMA PublishNothingPlaces ==
  ASSUME ParInv, PlacesInv, NEW w \in Workers, PublishNothing(w)
  PROVE  PlacesInv' /\ Pool!Next
<1> DEFINE t == [st[w] EXCEPT !.q = EmptyQueue]
           to == IF pc[w] = "tail" THEN "guard" ELSE "fetch"
<1>1. /\ pc[w] \in {"publish", "tail"} /\ Held(st[w].q) = {}
      /\ st' = [st EXCEPT ![w].q = EmptyQueue] /\ pc' = [pc EXCEPT ![w] = to]
      /\ UNCHANGED <<poolVars, mainPc, hand>>
      /\ pc \in [Workers -> WorkerPc] /\ st \in [Workers -> States] /\ st[w] \in States
      /\ hand \in [Workers -> Nodes]
  BY WorkerIs DEF PublishNothing
<1>2. st' = [st EXCEPT ![w] = t] /\ hand' = [hand EXCEPT ![w] = hand[w]] /\ heap' = heap
  BY <1>1 DEF poolVars
<1>3. Gains(st[w], t, {}) /\ SameWish(st[w], t)
  BY <1>1, EmptiedPlaces
<1> HIDE DEF t
<1>4. pc[w] \notin Working
  BY <1>1 DEF Working
<1>5. PoolHold[w] = {}
  BY <1>1, <1>4, EmptyHandIs, BoxesAre
<1>7. to \in {"guard", "fetch"} /\ to # "wait" /\ to \notin Working /\ to \in Plain
  BY DEF Working, Plain, WorkerPc
<1>0. to = IF pc[w] = "tail" THEN "guard" ELSE "fetch"
  OBVIOUS
<1> HIDE DEF to
<1>8. /\ PlacesInv' /\ Boxes(OwnOf(t, hand[w])) = Boxes(Own(w))
      /\ PoolPcs' = [PoolPcs EXCEPT ![w] = PlaceOf(to, t)]
      /\ PoolHold' = PoolHold
      /\ SameWish(st[w], t) => PoolWant' = PoolWant
  BY <1>1, <1>2, <1>3, <1>7, StayStep
<1>9. PoolPcs[w] = pc[w] /\ PlaceOf(to, t) = to
  BY <1>1, <1>7, SeenIs, PlaceIs DEF Plain, WorkerPc
<1>10. /\ PoolPcs' = [PoolPcs EXCEPT ![w] = IF PoolPcs[w] = "tail" THEN "guard" ELSE "fetch"]
       /\ PoolWant' = PoolWant
  BY <1>0, <1>3, <1>8, <1>9
<1>11. Pool!PublishNothing(w)
  <2>1. UNCHANGED <<Boxes(heap), idle, stopped, waiting, notified, mainPc>>
    BY <1>1 DEF poolVars, Boxes
  <2> QED
    BY <1>1, <1>5, <1>8, <1>9, <1>10, <2>1
       DEF Pool!PublishNothing, Pool!poolVars, PoolPcs, PoolHold, PoolWant
<1> QED
  BY <1>8, <1>11 DEF Pool!Next, Pool!Work

\* The panic drops the worker's nodes.
LEMMA PanicPlaces ==
  ASSUME ParInv, PlacesInv, NEW w \in Workers, Panic(w)
  PROVE  PlacesInv' /\ Pool!Next
<1> DEFINE t == [st[w] EXCEPT !.q = EmptyQueue]
<1>1. /\ MayPanic /\ pc[w] \in Working /\ UNCHANGED <<poolVars, mainPc>>
      /\ pc' = [pc EXCEPT ![w] = "unwind"] /\ st' = [st EXCEPT ![w] = t]
      /\ hand' = [hand EXCEPT ![w] = NoNode]
      /\ pc \in [Workers -> WorkerPc] /\ st \in [Workers -> States] /\ st[w] \in States
      /\ hand \in [Workers -> Nodes]
  BY WorkerIs DEF Panic, Consume, Working
<1>2. Held(t.q) = {} /\ OnePlace(t.q) /\ SameWish(st[w], t)
  BY <1>1, EmptiedPlaces
<1> HIDE DEF t
<1>3. OwnOf(t, NoNode) = {} /\ heap' = heap
  BY <1>1, <1>2 DEF OwnOf, poolVars
<1>4. "unwind" \notin Working /\ "unwind" \in Plain /\ "unwind" # "wait"
  BY DEF Working, Plain, WorkerPc
<1>5. heap' \cap OwnOf(t, NoNode) = {} /\ heap' \cup OwnOf(t, NoNode) \subseteq heap \cup Own(w)
  BY <1>3
<1>6. PlacesInv'
  BY <1>1, <1>2, <1>4, <1>5, HandOver
<1>7. /\ PoolPcs' = [PoolPcs EXCEPT ![w] = PlaceOf("unwind", t)]
      /\ PoolHold' = [PoolHold EXCEPT ![w] = Boxes(OwnOf(t, NoNode))]
      /\ WantsStop(t) => PoolWant' = PoolWant \cup {w}
      /\ SameWish(st[w], t) => PoolWant' = PoolWant
  BY <1>1, SeenStep
<1>8. /\ PoolPcs' = [PoolPcs EXCEPT ![w] = "unwind"] /\ PoolWant' = PoolWant
      /\ PoolHold' = [PoolHold EXCEPT ![w] = {}] /\ PoolPcs[w] = "work"
  <2>1. PlaceOf("unwind", t) = "unwind" /\ Boxes(OwnOf(t, NoNode)) = {}
    BY <1>3, <1>4, PlaceIs, BoxesAre
  <2>2. PoolPcs[w] = "work"
    BY <1>1, SeenIs, PlaceIs
  <2> QED
    BY <1>2, <1>7, <2>1, <2>2
<1>9. Pool!Panic(w)
  <2>1. UNCHANGED <<Boxes(heap), idle, stopped, waiting, notified, mainPc>>
    BY <1>1 DEF poolVars, Boxes
  <2> QED
    BY <1>1, <1>8, <2>1 DEF Pool!Panic, Pool!Goto, Pool!poolVars, PoolPcs, PoolHold, PoolWant
<1> QED
  BY <1>6, <1>9 DEF Pool!Next, Pool!Work

\* A worker that changes its place only, from one the pool's module sees to another.
LEMMA PlainStep ==
  ASSUME ParInv, PlacesInv, NEW w \in Workers, NEW to \in Plain, to # "wait",
         pc[w] \in Plain, pc' = [pc EXCEPT ![w] = to], UNCHANGED <<heap, st, hand>>
  PROVE  /\ PlacesInv' /\ PoolPcs[w] = pc[w] /\ PoolPcs' = [PoolPcs EXCEPT ![w] = to]
         /\ UNCHANGED <<Boxes(heap), PoolHold, PoolWant>>
<1>1. /\ st' = [st EXCEPT ![w] = st[w]] /\ hand' = [hand EXCEPT ![w] = hand[w]]
      /\ pc \in [Workers -> WorkerPc]
  BY WorkerIs
<1>2. Gains(st[w], st[w], {}) /\ SameWish(st[w], st[w]) /\ to \notin Working
  BY DEF Gains, SameWish, Working, Plain
<1>3. /\ PlacesInv' /\ Boxes(OwnOf(st[w], hand[w])) = Boxes(Own(w))
      /\ PoolPcs' = [PoolPcs EXCEPT ![w] = PlaceOf(to, st[w])]
      /\ PoolHold' = PoolHold
      /\ SameWish(st[w], st[w]) => PoolWant' = PoolWant
  BY <1>1, <1>2, StayStep
<1>4. PlaceOf(to, st[w]) = to /\ PoolPcs[w] = pc[w]
  BY SeenIs, PlaceIs
<1>5. Boxes(heap)' = Boxes(heap)
  BY DEF Boxes
<1> QED
  BY <1>2, <1>3, <1>4, <1>5

\* The start of a thread.
LEMMA SpawnPlaces ==
  ASSUME ParInv, PlacesInv, NEW w \in Workers, Spawn(w)
  PROVE  PlacesInv' /\ Pool!Next
<1>1. /\ pc[w] = "unborn" /\ pc' = [pc EXCEPT ![w] = "fetch"]
      /\ mainPc = "spawn" /\ UNCHANGED <<poolVars, mainPc, st, hand>> /\ UNCHANGED heap
  BY DEF Spawn, searchVars, poolVars
<1>2. "unborn" \in Plain /\ "fetch" \in Plain /\ "fetch" # "wait"
  BY DEF Plain, WorkerPc
<1>3. /\ PlacesInv' /\ PoolPcs[w] = pc[w] /\ PoolPcs' = [PoolPcs EXCEPT ![w] = "fetch"]
      /\ UNCHANGED <<Boxes(heap), PoolHold, PoolWant>>
  BY <1>1, <1>2, PlainStep
<1>4. Pool!Spawn(w)
  BY <1>1, <1>3 DEF Pool!Spawn, Pool!Goto, Pool!poolVars, poolVars, PoolPcs, PoolHold, PoolWant
<1> QED
  BY <1>3, <1>4 DEF Pool!Next

\* The notifications and the stops.
LEMMA BellPlaces ==
  ASSUME ParInv, PlacesInv, NEW w \in Workers, Bell(w) \/ Stop(w)
  PROVE  PlacesInv' /\ Pool!Next
<1>2. CASE Bell(w)
  <2> DEFINE to == AfterBell[pc[w]]
  <2>1. /\ pc[w] \in {"publishBell", "haltBell", "tailBell", "guardBell", "unwindBell"}
        /\ pc[w] \in DOMAIN AfterBell /\ pc' = [pc EXCEPT ![w] = to] /\ NotifyAll
        /\ UNCHANGED <<mainPc, st, hand>> /\ UNCHANGED heap
    BY <1>2 DEF Bell, AfterBell, searchVars, NotifyAll
  <2>2. to \in {"fetch", "tail", "guard", "exited", "dead"}
    BY <2>1 DEF AfterBell
  <2>3. Pool!AfterBell = AfterBell
    BY DEF Pool!AfterBell, AfterBell
  <2>0. to = AfterBell[pc[w]]
    OBVIOUS
  <2> HIDE DEF to
  <2>4. pc[w] \in Plain /\ to \in Plain /\ to # "wait"
    BY <2>1, <2>2 DEF Plain, WorkerPc
  <2>5. /\ PlacesInv' /\ PoolPcs[w] = pc[w] /\ PoolPcs' = [PoolPcs EXCEPT ![w] = to]
        /\ UNCHANGED <<Boxes(heap), PoolHold, PoolWant>>
    BY <2>1, <2>4, PlainStep
  <2>6. Pool!NotifyAll
    BY <2>1, <2>5 DEF NotifyAll, Pool!NotifyAll
  <2>7. /\ PoolPcs[w] \in DOMAIN Pool!AfterBell
        /\ PoolPcs' = [PoolPcs EXCEPT ![w] = Pool!AfterBell[PoolPcs[w]]]
    BY <2>0, <2>1, <2>3, <2>5
  <2>8. Pool!Bell(w)
    BY <2>1, <2>5, <2>6, <2>7 DEF Pool!Bell, PoolPcs, PoolHold, PoolWant
  <2> QED
    BY <2>5, <2>8 DEF Pool!Next, Pool!Work
<1>3. CASE Stop(w)
  <2> DEFINE to == BeforeBell[pc[w]]
  <2>1. /\ pc[w] \in {"halt", "guard", "unwind"}
        /\ pc[w] \in DOMAIN BeforeBell /\ pc' = [pc EXCEPT ![w] = to] /\ SetStopped
        /\ UNCHANGED <<mainPc, st, hand>> /\ UNCHANGED heap
    BY <1>3 DEF Stop, BeforeBell, searchVars, SetStopped
  <2>2. to \in {"haltBell", "guardBell", "unwindBell"}
    BY <2>1 DEF BeforeBell
  <2>3. Pool!BeforeBell = BeforeBell
    BY DEF Pool!BeforeBell, BeforeBell
  <2>0. to = BeforeBell[pc[w]]
    OBVIOUS
  <2> HIDE DEF to
  <2>4. pc[w] \in Plain /\ to \in Plain /\ to # "wait"
    BY <2>1, <2>2 DEF Plain, WorkerPc
  <2>5. /\ PlacesInv' /\ PoolPcs[w] = pc[w] /\ PoolPcs' = [PoolPcs EXCEPT ![w] = to]
        /\ UNCHANGED <<Boxes(heap), PoolHold, PoolWant>>
    BY <2>1, <2>4, PlainStep
  <2>6. Pool!SetStopped
    BY <2>1, <2>5 DEF SetStopped, Pool!SetStopped
  <2>7. /\ PoolPcs[w] \in DOMAIN Pool!BeforeBell
        /\ PoolPcs' = [PoolPcs EXCEPT ![w] = Pool!BeforeBell[PoolPcs[w]]]
    BY <2>0, <2>1, <2>3, <2>5
  <2>8. Pool!Stop(w)
    BY <2>1, <2>5, <2>6, <2>7 DEF Pool!Stop, PoolPcs, PoolHold, PoolWant
  <2> QED
    BY <2>5, <2>8 DEF Pool!Next, Pool!Work
<1> QED
  BY <1>2, <1>3

\* The main thread sees the workers' ends as the pool's module does.
LEMMA EndsAreSeen ==
  ASSUME ParInv, NEW w \in Workers, NEW end \in {"unborn", "exited", "dead"}
  PROVE  PoolPcs[w] = end <=> pc[w] = end
<1>1. pc[w] \in WorkerPc
  BY WorkerIs
<1>2. end \in Plain /\ end \notin {"work", "fetch", "publish", "halt"}
  BY DEF Plain, WorkerPc
<1>3. CASE pc[w] \in Plain
  BY <1>3, SeenIs, PlaceIs
<1>4. CASE pc[w] \notin Plain
  <2>1. pc[w] \in Working \/ pc[w] \in {"count", "countHalt"}
    BY <1>1, <1>4 DEF Plain, Working
  <2>2. PlaceOf(pc[w], st[w]) \in {"work", "fetch", "publish", "halt"}
    BY <2>1, PlaceIs
  <2> QED
    BY <1>2, <1>4, <2>2, SeenIs
<1> QED
  BY <1>3, <1>4

\* The main thread, the clock, and the end.
LEMMA MainPlaces ==
  ASSUME ParInv, PlacesInv,
         Refuse \/ RefuseBell \/ AllSpawned \/ Join \/ Expire \/ Finished \/ UNCHANGED vars
  PROVE  PlacesInv' /\ [Pool!Next]_PoolSees
<1>1. UNCHANGED <<heap, pc, st, hand>>
  BY DEF Refuse, RefuseBell, AllSpawned, Join, Expire, Finished, vars, SetStopped, NotifyAll,
         poolVars, searchVars
<1>2. PlacesInv'
  BY <1>1 DEF PlacesInv, OpenNodes, Own, InHand
<1>3. UNCHANGED <<Boxes(heap), PoolPcs, PoolHold, PoolWant>>
  BY <1>1 DEF Boxes, PoolPcs, PoolPc, Onward, PoolHold, PoolWant, WantsStop, InHand
<1>4. \A w \in Workers, end \in {"unborn", "exited", "dead"} : PoolPcs[w] = end <=> pc[w] = end
  BY EndsAreSeen
<1>5. CASE Refuse
  <2>1. /\ MayRefuse /\ mainPc = "spawn" /\ SetStopped /\ mainPc' = "refused"
        /\ \E w \in Workers : PoolPcs[w] = "unborn"
    BY <1>4, <1>5 DEF Refuse
  <2>2. Pool!Refuse
    BY <1>3, <2>1 DEF Pool!Refuse, Pool!SetStopped, SetStopped, PoolPcs, PoolHold, PoolWant
  <2> QED
    BY <1>2, <2>2 DEF Pool!Next, Pool!Main
<1>6. CASE RefuseBell
  <2>1. mainPc = "refused" /\ NotifyAll /\ mainPc' = "refusedBell"
    BY <1>6 DEF RefuseBell
  <2>2. Pool!RefuseBell
    BY <1>3, <2>1 DEF Pool!RefuseBell, Pool!NotifyAll, NotifyAll, PoolPcs, PoolHold, PoolWant
  <2> QED
    BY <1>2, <2>2 DEF Pool!Next, Pool!Main
<1>7. CASE AllSpawned
  <2>1. /\ mainPc = "spawn" /\ mainPc' = "join" /\ UNCHANGED poolVars
        /\ \A w \in Workers : PoolPcs[w] # "unborn"
    BY <1>4, <1>7 DEF AllSpawned
  <2>2. Pool!AllSpawned
    BY <1>3, <2>1 DEF Pool!AllSpawned, Pool!poolVars, poolVars, PoolPcs, PoolHold, PoolWant
  <2> QED
    BY <1>2, <2>2 DEF Pool!Next, Pool!Main
<1>8. CASE Join
  <2>1. /\ mainPc \in {"join", "refusedBell"} /\ UNCHANGED poolVars
        /\ \A w \in Workers : PoolPcs[w] \in {"unborn", "exited", "dead"}
    BY <1>4, <1>8 DEF Join
  <2>2. mainPc' = IF \E w \in Workers : PoolPcs[w] = "dead" THEN "panicked"
                  ELSE IF mainPc = "join" THEN "returned" ELSE "failed"
    BY <1>4, <1>8 DEF Join
  <2>3. Pool!Join
    BY <1>3, <2>1, <2>2 DEF Pool!Join, Pool!poolVars, poolVars, PoolPcs, PoolHold, PoolWant
  <2> QED
    BY <1>2, <2>3 DEF Pool!Next, Pool!Main
<1>9. CASE Expire \/ Finished \/ UNCHANGED vars
  <2>1. UNCHANGED <<poolVars, mainPc>>
    BY <1>9 DEF Expire, Finished, vars, poolVars
  <2>2. UNCHANGED PoolSees
    BY <1>3, <2>1 DEF PoolSees, poolVars
  <2> QED
    BY <1>2, <2>2
<1> QED
  BY <1>5, <1>6, <1>7, <1>8, <1>9

\* Every step keeps the places, and is one of the pool's module or none.
LEMMA StepsArePooled ==
  ASSUME ParInv, PlacesInv, [Next]_vars
  PROVE  PlacesInv' /\ [Pool!Next]_PoolSees
<1>1. CASE Refuse \/ RefuseBell \/ AllSpawned \/ Join \/ Expire \/ Finished \/ UNCHANGED vars
  BY <1>1, MainPlaces
<1>2. ASSUME NEW w \in Workers, Spawn(w) \/ Pop(w) \/ Work(w)
      PROVE  PlacesInv' /\ [Pool!Next]_PoolSees
  <2>1. CASE Sync(w) \/ RunSolve(w) \/ SolveFractional(w) \/ Count(w)
    BY <2>1, SilentSteps
  <2>2. CASE Spawn(w) \/ Bell(w) \/ Stop(w)
    BY <2>2, SpawnPlaces, BellPlaces
  <2>3. CASE TakeOwn(w) \/ Pop(w)
    BY <2>3, TakeOwnPlaces, TakeSharedPlaces, NothingPlaces DEF Pop
  <2>4. CASE RunStop(w) \/ RunPrune(w) \/ SolveFailed(w) \/ SolvePrune(w) \/ SolveLeaf(w)
    BY <2>4, RunStopPlaces, RunPrunePlaces, SolveFailedPlaces, SolvePrunePlaces, SolveLeafPlaces
  <2>5. CASE Branch(w) \/ Panic(w) \/ Publish(w) \/ PublishNothing(w)
    BY <2>5, BranchPlaces, PanicPlaces, PublishPlaces, PublishNothingPlaces
  <2> QED
    BY <1>2, <2>1, <2>2, <2>3, <2>4, <2>5 DEF Work, Solve
<1> QED
  BY <1>1, <1>2 DEF Next

\* In the beginning the root is in the pool.
LEMMA PlacesBegin ==
  ASSUME Init
  PROVE  PlacesInv /\ Pool!Init
<1>1. /\ heap = {RootNode} /\ idle = 0 /\ stopped = FALSE /\ waiting = {} /\ notified = {}
      /\ pc = [w \in Workers |-> "unborn"] /\ mainPc = "spawn"
      /\ st = [w \in Workers |-> NewSearch(best)] /\ hand = [w \in Workers |-> NoNode]
  BY DEF Init, PoolInit
<1> DEFINE s == NewSearch(best)
           e == EmptyQueue
<1>2. s.q = e /\ ~WantsStop(s)
  BY DEF NewSearch, WantsStop
<1>3. Held(e) = {} /\ OnePlace(e)
  <2> DEFINE d == <<>>
  <2>1. DOMAIN d = {} /\ e.stack = d
    BY DEF EmptyQueue
  <2> HIDE DEF d, e
  <2> QED
    BY <2>1, EmptyQueueIs DEF OnePlace, e
<1>4. st = [w \in Workers |-> s]
  BY <1>1
<1> HIDE DEF s, e
<1>5. \A w \in Workers : /\ pc[w] = "unborn" /\ hand[w] = NoNode /\ Held(st[w].q) = {}
                         /\ OnePlace(st[w].q) /\ Own(w) = {} /\ ~WantsStop(st[w])
  BY <1>1, <1>2, <1>3, <1>4 DEF Own, InHand
<1>6. OpenNodes = {RootNode}
  BY <1>1, <1>5 DEF OpenNodes, Own
<1>7. RootNode.box = Points /\ Real(RootNode)
  BY ProblemIs DEF RootNode, Real
<1>8. PlacesInv
  BY <1>5, <1>6, <1>7 DEF PlacesInv, AllApart, Working
<1>9. \A w \in Workers : PoolPcs[w] = "unborn" /\ PoolHold[w] = {} /\ w \notin PoolWant
  <2>1. "unborn" \in Plain
    BY DEF Plain, WorkerPc
  <2> QED
    BY <1>5, <2>1, SeenIs, PlaceIs, BoxesAre
<1>10. /\ PoolPcs = [w \in Workers |-> "unborn"] /\ PoolHold = [w \in Workers |-> {}]
       /\ PoolWant = {}
  BY <1>9 DEF PoolPcs, PoolHold, PoolWant
<1>11. Boxes(heap) = {Points}
  BY <1>1, <1>7, BoxesAre
<1>12. Pool!Init
  BY <1>1, <1>10, <1>11 DEF Pool!Init, Pool!PoolInit, PoolPcs, PoolHold, PoolWant
<1> QED
  BY <1>8, <1>12

\* What WorkerPool assumes of its parameters is true of the boxes.
LEMMA BoxesAreNodes ==
  /\ Points \in SUBSET Points
  /\ [box \in SUBSET Points |-> (SUBSET box) \ {box}] \in [SUBSET Points -> SUBSET SUBSET Points]
  /\ MayPanic \in BOOLEAN /\ MayRefuse \in BOOLEAN
<1>1. \A box \in SUBSET Points : (SUBSET box) \ {box} \in SUBSET SUBSET Points
  OBVIOUS
<1> QED
  BY <1>1, FaultAssumption

\* The parallel search uses the threads and the pool as their protocol has it: it never
\* makes, moves, duplicates or drops a node behind the pool's back.
THEOREM SearchFollowsPool == Spec => ImplementsPool
<1>1. Init => PlacesInv /\ Pool!Init
  BY PlacesBegin
<1>2. ParInv /\ PlacesInv /\ [Next]_vars => PlacesInv' /\ [Pool!Next]_(Pool!vars)
  BY StepsArePooled DEF PoolSees, PoolPcs, PoolHold, PoolWant, Pool!vars
<1>3. Spec => Pool!Init /\ [][Pool!Next]_(Pool!vars)
  BY <1>1, <1>2, ParInvHolds, PTL DEF Spec
<1> QED
  BY <1>3, PTL DEF ImplementsPool, Pool!Spec
=============================================================================
