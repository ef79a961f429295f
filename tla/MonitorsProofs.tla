--------------------------- MODULE MonitorsProofs ---------------------------
(***************************************************************************)
(* The invariants of Monitors hold for any number of threads, monitors and *)
(* condition queues, also when threads end inside monitors, are cancelled  *)
(* while they wait, and use one condition queue for several monitors.      *)
(***************************************************************************)
EXTENDS Monitors, ThreadsProofs

(***************************************************************************)
(* The inductive invariant, of the thread subsystem s, the fields mm of    *)
(* the monitors, the initialised ones lv and the monitors en entered: it   *)
(* is kept by each turn of the loop of k_monitor_release as well as by     *)
(* each call.                                                              *)
(***************************************************************************)
\* Threads wait at the entrance of a live monitor, which is locked.
EntranceOK(s, mm, lv) ==
  \A x \in Mon : \A v \in Desc : InQueue(s, v, x) => x \in lv /\ mm.lock[x]

OwnerOK(mm, lv) == \A x \in Mon \cap lv : mm.lock[x] <=> mm.owner[x] # NULL

\* Threads wait in a live condition queue for a live monitor.
ConditionOK(s, mm, lv) ==
  \A c \in Cond : \A v \in Desc : InQueue(s, v, c) => c \in lv /\ mm.qdata[v] \in Mon \cap lv

\* A thread that has entered a monitor and may run again owns it, or will.
Accounted(s, mm, v, x) ==
  \/ mm.owner[x] = v
  \/ InQueue(s, v, x)
  \/ mm.qdata[v] = x /\ \E c \in Cond : InQueue(s, v, c)

EnteredOK(s, mm, lv, en) ==
  \A v \in s.all_threads : \A x \in Mon \cap lv :
    x \in en[v] /\ Live(s, v) => Accounted(s, mm, v, x)

MonitorsOK(s, mm, lv, en) ==
  /\ mm \in MonitorState
  /\ EntranceOK(s, mm, lv) /\ OwnerOK(mm, lv) /\ ConditionOK(s, mm, lv)
  /\ EnteredOK(s, mm, lv, en)

MonInv ==
  /\ IInv
  /\ live \subseteq Mon \cup Cond
  /\ entered \in [Desc -> SUBSET Mon]
  /\ MonitorsOK(k, m, live, entered)

LEMMA MonQueues ==
  /\ Mon \subseteq WaitQueue /\ Cond \subseteq WaitQueue
  /\ \A x \in Mon : x \notin Cond
BY MonitorsAssumption

LEMMA MonFacts ==
  ASSUME MonInv
  PROVE  /\ IInv /\ Good(k) /\ Sound(k) /\ Top(k) /\ Runs(k) /\ Consistent(k) /\ k \in KState
         /\ Self \in Desc /\ Self \in k.all_threads /\ k.state[Self] = ACTIVE /\ Awake(k, Self)
         /\ \A w \in WaitQueue : ~InQueue(k, Self, w)
         /\ k.all_threads \subseteq Desc /\ Self # NULL
<1>1. Good(k) /\ Sound(k) /\ Top(k) /\ Runs(k) /\ Consistent(k) /\ k \in KState
  BY DEF MonInv, IInv, GInv, Good, Consistent
<1>2. /\ Self \in Desc /\ Self \in k.all_threads /\ k.state[Self] = ACTIVE
      /\ k.all_threads \subseteq Desc
  BY <1>1, RunsFacts DEF Self
<1>3. \A w \in WaitQueue : ~InQueue(k, Self, w)
  BY <1>1, <1>2, OneQueue DEF ACTIVE, WAIT
<1> QED BY <1>1, <1>2, <1>3, KThreadAssumption DEF MonInv, Awake

\* kthreads_schedule disturbs nothing of this.
LEMMA RescheduleMon ==
  ASSUME NEW s \in KState, NEW r, Rescheduled(s, r), NEW mm, NEW lv, NEW en,
         MonitorsOK(s, mm, lv, en)
  PROVE  MonitorsOK(r, mm, lv, en)
<1>1. /\ \A w \in WaitQueue : \A v \in Desc : InQueue(r, v, w) <=> InQueue(s, v, w)
      /\ \A v \in Desc : Live(r, v) <=> Live(s, v)
  BY RescheduledIn
<1>2. r.all_threads = s.all_threads /\ s.all_threads \subseteq Desc
  BY DEF Rescheduled, SameResources, KState
<1>3. EntranceOK(r, mm, lv) /\ ConditionOK(r, mm, lv)
  BY <1>1, MonQueues DEF MonitorsOK, EntranceOK, ConditionOK
<1>4. EnteredOK(r, mm, lv, en)
  <2> SUFFICES ASSUME NEW v \in r.all_threads, NEW x \in Mon \cap lv, x \in en[v], Live(r, v)
               PROVE  Accounted(r, mm, v, x)
    BY DEF EnteredOK
  <2>1. Accounted(s, mm, v, x)
    BY <1>1, <1>2 DEF MonitorsOK, EnteredOK
  <2> QED BY <1>1, <1>2, <2>1, MonQueues DEF Accounted
<1> QED BY <1>3, <1>4 DEF MonitorsOK

\* The end of a call that has moved threads, and the monitors mm and entrants en.
LEMMA CallEnds ==
  ASSUME MonInv, NEW r, Moved(k, r), k' = kthreads_schedule(r), UNCHANGED <<handles, joining>>,
         live' \subseteq Mon \cup Cond, entered' \in [Desc -> SUBSET Mon],
         MonitorsOK(r, m', live', entered')
  PROVE  MonInv'
<1>1. IInv' /\ Rescheduled(r, k')
  BY RescheduleOK, MonFacts DEF Moved
<1>2. MonitorsOK(k', m', live', entered')
  BY <1>1, RescheduleMon DEF Moved, Good, Consistent
<1> QED BY <1>1, <1>2 DEF MonInv

\* A call that leaves the thread subsystem alone.
LEMMA CallChangesNoThread ==
  ASSUME MonInv, k' = k, UNCHANGED <<handles, joining>>,
         live' \subseteq Mon \cup Cond, entered' \in [Desc -> SUBSET Mon],
         MonitorsOK(k, m', live', entered')
  PROVE  MonInv'
BY DEF MonInv, IInv, GInv

-----------------------------------------------------------------------------
(***************************************************************************)
(* The calls, but for signal and broadcast.                                *)
(***************************************************************************)
LEMMA EmptyQueueReset ==
  ASSUME MonInv, NEW w \in WaitQueue, \A v \in Desc : ~InQueue(k, v, w)
  PROVE  [k EXCEPT !.q[wait_q(w)] = <<>>] = k
<1>1. k \in KState /\ k.q \in [Queue -> Seq(Desc)]
  BY MonFacts DEF KState
<1>2. k.q[wait_q(w)] = <<>>
  BY <1>1, WaitQueueType
<1>3. [k.q EXCEPT ![wait_q(w)] = <<>>] = k.q
  BY <1>1, <1>2
<1> QED BY <1>1, <1>3 DEF KState

LEMMA InitMonInv ==
  ASSUME MonInv, NEW x \in Mon, sys__monitor_init(x)
  PROVE  MonInv'
<1>1. /\ x \notin live /\ live' = live \cup {x}
      /\ m' = [m EXCEPT !.lock[x] = FALSE, !.owner[x] = NULL]
      /\ k' = [k EXCEPT !.q[wait_q(x)] = <<>>]
      /\ entered' = [t \in Desc |-> entered[t] \ {x}] /\ UNCHANGED <<handles, joining>>
  BY DEF sys__monitor_init
<1>2. /\ MonitorsOK(k, m, live, entered) /\ live \subseteq Mon \cup Cond
      /\ entered \in [Desc -> SUBSET Mon] /\ m \in MonitorState
  BY DEF MonInv, MonitorsOK
<1>3. k' = k
  BY <1>1, <1>2, EmptyQueueReset, MonQueues DEF MonitorsOK, EntranceOK
<1>4. /\ m' \in MonitorState /\ m'.qdata = m.qdata
      /\ \A y \in Mon : /\ m'.lock[y] = IF y = x THEN FALSE ELSE m.lock[y]
                        /\ m'.owner[y] = IF y = x THEN NULL ELSE m.owner[y]
  BY <1>1, <1>2 DEF MonitorState
<1>5. EntranceOK(k, m', live') /\ ConditionOK(k, m', live')
  BY <1>1, <1>2, <1>4 DEF MonitorsOK, EntranceOK, ConditionOK
<1>6. OwnerOK(m', live')
  BY <1>1, <1>2, <1>4 DEF MonitorsOK, OwnerOK
<1>7. EnteredOK(k, m', live', entered')
  <2> SUFFICES ASSUME NEW v \in k.all_threads, NEW y \in Mon \cap live', y \in entered'[v],
                      Live(k, v)
               PROVE  Accounted(k, m', v, y)
    BY DEF EnteredOK
  <2>1. v \in Desc /\ y # x /\ y \in entered[v] /\ y \in Mon \cap live
    BY <1>1, MonFacts
  <2>2. Accounted(k, m, v, y)
    BY <1>2, <2>1 DEF MonitorsOK, EnteredOK
  <2> QED BY <1>4, <2>1, <2>2 DEF Accounted
<1>8. MonitorsOK(k, m', live', entered')
  BY <1>4, <1>5, <1>6, <1>7 DEF MonitorsOK
<1> QED BY <1>1, <1>2, <1>3, <1>8, CallChangesNoThread

LEMMA InitQueueInv ==
  ASSUME MonInv, NEW c \in Cond, sys__monitor_queue_init(c)
  PROVE  MonInv'
<1>1. /\ c \notin live /\ live' = live \cup {c} /\ m' = m /\ entered' = entered
      /\ k' = [k EXCEPT !.q[wait_q(c)] = <<>>] /\ UNCHANGED <<handles, joining>>
  BY DEF sys__monitor_queue_init
<1>2. /\ MonitorsOK(k, m, live, entered) /\ live \subseteq Mon \cup Cond
      /\ entered \in [Desc -> SUBSET Mon] /\ Mon \cap live' = Mon \cap live
  BY <1>1, MonQueues DEF MonInv
<1>3. k' = k
  BY <1>1, <1>2, EmptyQueueReset, MonQueues DEF MonitorsOK, ConditionOK
<1>4. MonitorsOK(k, m', live', entered')
  BY <1>1, <1>2
     DEF MonitorsOK, EntranceOK, OwnerOK, ConditionOK, EnteredOK, Accounted
<1> QED BY <1>1, <1>2, <1>3, <1>4, CallChangesNoThread

\* monitor_destroy, or the destruction of a condition queue: those who waited there are
\* released, and are accounted for no more.
LEMMA DestroyMonInv ==
  ASSUME MonInv, NEW x \in Mon, sys__monitor_destroy(x)
  PROVE  MonInv'
<1> DEFINE r == kthreadq_release_all(k, wait_q(x))
<1>1. /\ live' = live \ {x} /\ m' = m /\ entered' = entered /\ UNCHANGED <<handles, joining>>
      /\ k' = IF k.q[wait_q(x)] = <<>> THEN k ELSE kthreads_schedule(r)
      /\ \A c \in Cond : \A t \in Desc : InQueue(k, t, c) => m.qdata[t] # x
  BY DEF sys__monitor_destroy, InQueue
<1>2. /\ MonitorsOK(k, m, live, entered) /\ live' \subseteq Mon \cup Cond
      /\ entered' \in [Desc -> SUBSET Mon] /\ x \in WaitQueue
  BY <1>1, MonQueues DEF MonInv
<1>3. CASE k.q[wait_q(x)] = <<>>
  <2>1. \A v \in Desc : ~InQueue(k, v, x)
    BY <1>2, <1>3, WaitQueueType, MonFacts
  <2>2. MonitorsOK(k, m', live', entered')
    BY <1>1, <1>2, <2>1, MonQueues
       DEF MonitorsOK, EntranceOK, OwnerOK, ConditionOK, EnteredOK
  <2> QED BY <1>1, <1>2, <1>3, <2>2, CallChangesNoThread
<1>4. CASE k.q[wait_q(x)] # <<>>
  <2>1. /\ Moved(k, r) /\ \A v \in Desc : Live(r, v) => Live(k, v)
        /\ \A w \in WaitQueue : \A v \in Desc : InQueue(r, v, w) <=> InQueue(k, v, w) /\ w # x
    BY <1>2, ReleaseAllMoves, MonFacts
  <2> HIDE DEF r
  <2>2. EntranceOK(r, m, live') /\ ConditionOK(r, m, live')
    BY <1>1, <1>2, <2>1, MonQueues DEF MonitorsOK, EntranceOK, ConditionOK
  <2>3. EnteredOK(r, m, live', entered)
    <3> SUFFICES ASSUME NEW v \in r.all_threads, NEW y \in Mon \cap live', y \in entered[v],
                        Live(r, v)
                 PROVE  Accounted(r, m, v, y)
      BY DEF EnteredOK
    <3>1. v \in k.all_threads /\ v \in Desc /\ Live(k, v) /\ y # x
      BY <1>1, <2>1, MonFacts DEF Moved, SameResources
    <3>2. Accounted(k, m, v, y)
      BY <1>1, <1>2, <3>1 DEF MonitorsOK, EnteredOK
    <3> QED BY <2>1, <3>1, <3>2, MonQueues DEF Accounted
  <2>4. MonitorsOK(r, m', live', entered')
    BY <1>1, <1>2, <2>2, <2>3 DEF MonitorsOK, OwnerOK
  <2> QED BY <1>1, <1>2, <1>4, <2>1, <2>4, CallEnds
<1> QED BY <1>3, <1>4

LEMMA DestroyQueueInv ==
  ASSUME MonInv, NEW c \in Cond, sys__monitor_queue_destroy(c)
  PROVE  MonInv'
<1> DEFINE r == kthreadq_release_all(k, wait_q(c))
<1>1. /\ live' = live \ {c} /\ m' = m /\ UNCHANGED <<handles, joining>>
      /\ entered' = [t \in Desc |-> IF InQueue(k, t, c) THEN entered[t] \ {m.qdata[t]}
                                    ELSE entered[t]]
      /\ k' = IF k.q[wait_q(c)] = <<>> THEN k ELSE kthreads_schedule(r)
  BY DEF sys__monitor_queue_destroy, InQueue
<1>2. /\ MonitorsOK(k, m, live, entered) /\ live' \subseteq Mon \cup Cond
      /\ entered' \in [Desc -> SUBSET Mon] /\ c \in WaitQueue
      /\ Mon \cap live' = Mon \cap live
  BY <1>1, MonQueues DEF MonInv
<1>3. CASE k.q[wait_q(c)] = <<>>
  <2>1. \A v \in Desc : ~InQueue(k, v, c)
    BY <1>2, <1>3, WaitQueueType, MonFacts
  <2>2. entered' = entered
    BY <1>1, <2>1 DEF MonInv
  <2>3. MonitorsOK(k, m', live', entered')
    BY <1>1, <1>2, <2>1, <2>2, MonQueues
       DEF MonitorsOK, EntranceOK, OwnerOK, ConditionOK, EnteredOK
  <2> QED BY <1>1, <1>2, <1>3, <2>3, CallChangesNoThread
<1>4. CASE k.q[wait_q(c)] # <<>>
  <2>1. /\ Moved(k, r) /\ \A v \in Desc : Live(r, v) => Live(k, v)
        /\ \A w \in WaitQueue : \A v \in Desc : InQueue(r, v, w) <=> InQueue(k, v, w) /\ w # c
    BY <1>2, ReleaseAllMoves, MonFacts
  <2> HIDE DEF r
  <2>2. EntranceOK(r, m, live') /\ ConditionOK(r, m, live')
    BY <1>1, <1>2, <2>1, MonQueues DEF MonitorsOK, EntranceOK, ConditionOK
  <2>3. EnteredOK(r, m, live', entered')
    <3> SUFFICES ASSUME NEW v \in r.all_threads, NEW y \in Mon \cap live', y \in entered'[v],
                        Live(r, v)
                 PROVE  Accounted(r, m, v, y)
      BY DEF EnteredOK
    <3>1. v \in k.all_threads /\ v \in Desc /\ Live(k, v)
      BY <2>1, MonFacts DEF Moved, SameResources
    <3>2. y \in entered[v] /\ (InQueue(k, v, c) => m.qdata[v] # y)
      BY <1>1, <3>1
    <3>3. Accounted(k, m, v, y)
      BY <1>2, <3>1, <3>2 DEF MonitorsOK, EnteredOK
    <3> QED BY <2>1, <3>1, <3>2, <3>3, MonQueues DEF Accounted
  <2>4. MonitorsOK(r, m', live', entered')
    BY <1>1, <1>2, <2>2, <2>3 DEF MonitorsOK, OwnerOK
  <2> QED BY <1>1, <1>2, <1>4, <2>1, <2>4, CallEnds
<1> QED BY <1>3, <1>4

LEMMA MovedTwice ==
  ASSUME NEW a, NEW b, NEW c, Moved(a, b), Moved(b, c)
  PROVE  Moved(a, c)
BY DEF Moved, SameResources

\* Locking: an open monitor gets its owner, at a locked one the thread waits.
LEMMA LockInv ==
  ASSUME MonInv, NEW x \in Mon, sys__monitor_lock(x)
  PROVE  MonInv'
<1>1. /\ live' = live /\ UNCHANGED <<handles, joining>> /\ x \in live /\ Self # Idle
      /\ entered' = [entered EXCEPT ![Self] = @ \cup {x}]
  BY DEF sys__monitor_lock, Entering, FreeToCall, UserCall
<1>2. /\ MonitorsOK(k, m, live, entered) /\ live' \subseteq Mon \cup Cond
      /\ entered' \in [Desc -> SUBSET Mon] /\ x \in WaitQueue /\ m \in MonitorState
  BY <1>1, MonQueues DEF MonInv, MonitorsOK
<1>3. \A v \in Desc : entered'[v] = IF v = Self THEN entered[v] \cup {x} ELSE entered[v]
  BY <1>1 DEF MonInv
<1>4. CASE m.lock[x]
  <2> DEFINE r == kthread_enqueue(k, Self, wait_q(x))
  <2>1. k' = kthreads_schedule(r) /\ m' = m
    BY <1>4 DEF sys__monitor_lock
  <2>2. ~Queued(k, Self)
    BY MonFacts DEF Queued, Consistent, QueuesOK, Belongs, ACTIVE, READY, WAIT
  <2>3. /\ Moved(k, r) /\ \A v \in Desc \ {Self} : Live(r, v) => Live(k, v)
        /\ \A w \in WaitQueue : \A v \in Desc :
             InQueue(r, v, w) <=> InQueue(k, v, w) \/ (v = Self /\ w = x)
    BY <1>1, <1>2, <2>2, EnqueueMoves, MonFacts DEF ACTIVE, PASSIVE
  <2> HIDE DEF r
  <2>4. EntranceOK(r, m, live) /\ ConditionOK(r, m, live)
    BY <1>1, <1>2, <1>4, <2>3, MonQueues DEF MonitorsOK, EntranceOK, ConditionOK
  <2>5. EnteredOK(r, m, live, entered')
    <3> SUFFICES ASSUME NEW v \in r.all_threads, NEW y \in Mon \cap live, y \in entered'[v],
                        Live(r, v)
                 PROVE  Accounted(r, m, v, y)
      BY DEF EnteredOK
    <3>1. v \in k.all_threads /\ v \in Desc /\ (v # Self => Live(k, v)) /\ Live(k, Self)
      BY <2>3, MonFacts DEF Moved, SameResources, Live
    <3>2. CASE v = Self /\ y = x
      BY <1>2, <2>3, <3>1, <3>2 DEF Accounted
    <3>3. CASE ~(v = Self /\ y = x)
      <4>1. y \in entered[v] /\ Live(k, v)
        BY <1>3, <3>1, <3>3
      <4>2. Accounted(k, m, v, y)
        BY <1>2, <3>1, <4>1 DEF MonitorsOK, EnteredOK
      <4> QED BY <2>3, <3>1, <4>2, MonQueues DEF Accounted
    <3> QED BY <3>2, <3>3
  <2>6. MonitorsOK(r, m', live', entered')
    BY <1>1, <1>2, <2>1, <2>4, <2>5 DEF MonitorsOK
  <2> QED BY <1>1, <1>2, <2>1, <2>3, <2>6, CallEnds
<1>5. CASE ~m.lock[x]
  <2>1. k' = k /\ m' = [m EXCEPT !.lock[x] = TRUE, !.owner[x] = Self]
    BY <1>5 DEF sys__monitor_lock
  <2>2. /\ m' \in MonitorState /\ m'.qdata = m.qdata
        /\ \A y \in Mon : /\ m'.lock[y] = IF y = x THEN TRUE ELSE m.lock[y]
                          /\ m'.owner[y] = IF y = x THEN Self ELSE m.owner[y]
    BY <1>2, <2>1, MonFacts DEF MonitorState
  <2>3. m.owner[x] = NULL
    BY <1>1, <1>2, <1>5 DEF MonitorsOK, OwnerOK
  <2>4. EntranceOK(k, m', live) /\ ConditionOK(k, m', live)
    BY <1>2, <2>2 DEF MonitorsOK, EntranceOK, ConditionOK
  <2>5. OwnerOK(m', live)
    BY <1>2, <2>2, MonFacts DEF MonitorsOK, OwnerOK
  <2>6. EnteredOK(k, m', live, entered')
    <3> SUFFICES ASSUME NEW v \in k.all_threads, NEW y \in Mon \cap live, y \in entered'[v],
                        Live(k, v)
                 PROVE  Accounted(k, m', v, y)
      BY DEF EnteredOK
    <3>1. v \in Desc /\ v # NULL
      BY MonFacts, KThreadAssumption
    <3>2. CASE v = Self /\ y = x
      BY <2>2, <3>2 DEF Accounted
    <3>3. CASE ~(v = Self /\ y = x)
      <4>1. Accounted(k, m, v, y)
        BY <1>2, <1>3, <3>1, <3>3 DEF MonitorsOK, EnteredOK
      <4> QED BY <2>2, <2>3, <3>1, <4>1 DEF Accounted
    <3> QED BY <3>2, <3>3
  <2>7. MonitorsOK(k, m', live', entered')
    BY <1>1, <2>2, <2>4, <2>5, <2>6 DEF MonitorsOK
  <2> QED BY <1>1, <1>2, <2>1, <2>7, CallChangesNoThread
<1> QED BY <1>4, <1>5

(***************************************************************************)
(* Handing monitor x over, when the thread subsystem is s and the monitors *)
(* are mm: its owner has left it or waits in a condition queue.            *)
(***************************************************************************)
LEMMA HandOverMon ==
  ASSUME NEW s, Good(s), NEW mm, NEW en, NEW x \in Mon \cap live, MonitorsOK(s, mm, live, en),
         s.q[wait_q(x)] = k.q[wait_q(x)], mm.owner[x] # NULL,
         \A v \in s.all_threads :
           v = mm.owner[x] /\ x \in en[v] => mm.qdata[v] = x /\ \E c \in Cond : InQueue(s, v, c)
  PROVE  LET r == kthreadq_release(s, wait_q(x))
         IN  Moved(s, r) /\ MonitorsOK(r, HandOver(mm, x), live, en)
<1> DEFINE r  == kthreadq_release(s, wait_q(x))
           m2 == HandOver(mm, x)
           t  == kthreadq_get(k, wait_q(x))
<1>1. s \in KState /\ x \in WaitQueue /\ s.all_threads \subseteq Desc
  BY MonQueues DEF Good, Consistent, KState
<1>2. s.q[wait_q(x)] # <<>> => t \in Desc /\ t = Head(s.q[wait_q(x)]) /\ InQueue(s, t, x)
  BY <1>1, ReleaseMoves DEF kthreadq_get
<1>3. s.q[wait_q(x)] = <<>> => t = NULL
  BY DEF kthreadq_get
<1> HIDE DEF t
<1>4. mm \in MonitorState
  BY DEF MonitorsOK
<1>5. /\ m2 \in MonitorState /\ m2.qdata = mm.qdata
      /\ \A y \in Mon : /\ m2.lock[y] = IF y = x THEN s.q[wait_q(x)] # <<>> ELSE mm.lock[y]
                        /\ m2.owner[y] = IF y = x THEN t ELSE mm.owner[y]
  <2> DEFINE b == s.q[wait_q(x)] # <<>>
             o == [mm.owner EXCEPT ![x] = t]
             l == [mm.lock EXCEPT ![x] = b]
  <2>1. m2 = [mm EXCEPT !.owner = o, !.lock = l]
    BY <1>4 DEF HandOver, t, MonitorState
  <2>2. t \in Desc \cup {NULL} /\ b \in BOOLEAN
    BY <1>2, <1>3
  <2>3. o \in [Mon -> Desc \cup {NULL}] /\ \A y \in Mon : o[y] = IF y = x THEN t ELSE mm.owner[y]
    BY <1>4, <2>2 DEF MonitorState
  <2> HIDE DEF b
  <2>4. l \in [Mon -> BOOLEAN] /\ \A y \in Mon : l[y] = IF y = x THEN b ELSE mm.lock[y]
    BY <1>4, <2>2 DEF MonitorState
  <2> HIDE DEF o, l
  <2>5. m2 \in MonitorState /\ m2.qdata = mm.qdata /\ m2.owner = o /\ m2.lock = l
    BY <1>4, <2>1, <2>3, <2>4 DEF MonitorState
  <2> QED BY <2>3, <2>4, <2>5 DEF b
<1> HIDE DEF m2
<1>6. /\ Moved(s, r) /\ \A v \in Desc : Live(r, v) => Live(s, v)
      /\ \A w \in WaitQueue : \A v \in Desc : InQueue(r, v, w) <=> InQueue(s, v, w) /\ v # t
  <2>1. CASE s.q[wait_q(x)] = <<>>
    <3>1. r = s
      BY <2>1 DEF kthreadq_release
    <3> QED BY <1>3, <2>1, <3>1, KThreadAssumption DEF Moved, SameResources
  <2>2. CASE s.q[wait_q(x)] # <<>>
    BY <1>1, <1>2, <2>2, ReleaseMoves
  <2> QED BY <2>1, <2>2
<1> HIDE DEF r
<1>7. EntranceOK(r, m2, live)
  <2> SUFFICES ASSUME NEW y \in Mon, NEW v \in Desc, InQueue(r, v, y)
               PROVE  y \in live /\ m2.lock[y]
    BY DEF EntranceOK
  <2>1. InQueue(s, v, y)
    BY <1>6, MonQueues
  <2>2. y \in live /\ mm.lock[y]
    BY <2>1 DEF MonitorsOK, EntranceOK
  <2>3. y = x => s.q[wait_q(x)] # <<>>
    BY <1>1, <2>1, WaitQueueType
  <2> QED BY <1>5, <2>2, <2>3
<1>8. OwnerOK(m2, live)
  <2>1. m2.lock[x] <=> s.q[wait_q(x)] # <<>>
    BY <1>5
  <2>2. m2.lock[x] <=> m2.owner[x] # NULL
    BY <1>2, <1>3, <1>5, <2>1, KThreadAssumption
  <2>3. \A y \in Mon \cap live : y # x => (m2.lock[y] <=> m2.owner[y] # NULL)
    BY <1>5 DEF MonitorsOK, OwnerOK
  <2> QED BY <2>2, <2>3 DEF OwnerOK
<1>9. ConditionOK(r, m2, live)
  BY <1>5, <1>6, MonQueues DEF MonitorsOK, ConditionOK
<1>10. EnteredOK(r, m2, live, en)
  <2> SUFFICES ASSUME NEW v \in r.all_threads, NEW y \in Mon \cap live, y \in en[v], Live(r, v)
               PROVE  Accounted(r, m2, v, y)
    BY DEF EnteredOK
  <2>1. v \in s.all_threads /\ v \in Desc /\ Live(s, v)
    BY <1>1, <1>6 DEF Moved, SameResources
  <2>2. Accounted(s, mm, v, y)
    BY <2>1 DEF MonitorsOK, EnteredOK
  <2>3. CASE v = t
    \* It was in the queue of x only.
    <3>1. s.q[wait_q(x)] # <<>> /\ InQueue(s, v, x)
      BY <1>2, <1>3, <2>1, <2>3, KThreadAssumption
    <3>2. \A w \in WaitQueue : InQueue(s, v, w) => w = x
      BY <1>1, <3>1, OneQueue DEF Good
    <3> QED BY <1>5, <2>2, <2>3, <3>2, MonQueues DEF Accounted
  <2>4. CASE v # t
    <3>1. y = x /\ mm.owner[x] = v => mm.qdata[v] = x /\ \E c \in Cond : InQueue(s, v, c)
      BY <2>1
    <3> QED BY <1>5, <1>6, <2>1, <2>2, <2>4, <3>1, MonQueues DEF Accounted
  <2> QED BY <2>3, <2>4
<1> QED BY <1>5, <1>6, <1>7, <1>8, <1>9, <1>10 DEF MonitorsOK, r, m2

LEMMA UnlockInv ==
  ASSUME MonInv, NEW x \in Mon, sys__monitor_unlock(x)
  PROVE  MonInv'
<1> DEFINE r == kthreadq_release(k, wait_q(x))
<1>1. /\ live' = live /\ UNCHANGED <<handles, joining>> /\ x \in Mon \cap live
      /\ m.owner[x] = Self /\ m' = HandOver(m, x)
      /\ k' = IF k.q[wait_q(x)] = <<>> THEN k ELSE kthreads_schedule(r)
      /\ entered' = [entered EXCEPT ![Self] = @ \ {x}]
  BY DEF sys__monitor_unlock, Leaving
<1>2. /\ MonitorsOK(k, m, live, entered) /\ live' \subseteq Mon \cup Cond
      /\ entered' \in [Desc -> SUBSET Mon]
      /\ \A v \in Desc : entered'[v] = IF v = Self THEN entered[v] \ {x} ELSE entered[v]
  BY <1>1 DEF MonInv
<1>3. MonitorsOK(k, m, live, entered')
  <2>1. \A v \in k.all_threads : entered'[v] \subseteq entered[v]
    BY <1>2, MonFacts
  <2> QED BY <1>2, <2>1 DEF MonitorsOK, EnteredOK
<1>4. Moved(k, r) /\ MonitorsOK(r, m', live', entered')
  <2>1. m.owner[x] # NULL
    BY <1>1, MonFacts
  <2>2. \A v \in k.all_threads : v = m.owner[x] => x \notin entered'[v]
    BY <1>1, <1>2, MonFacts
  <2> QED BY <1>1, <1>3, <2>1, <2>2, HandOverMon, MonFacts
<1>5. CASE k.q[wait_q(x)] = <<>>
  <2>1. r = k /\ k' = k
    BY <1>1, <1>5 DEF kthreadq_release
  <2> QED BY <1>1, <1>2, <1>4, <2>1, CallChangesNoThread
<1>6. CASE k.q[wait_q(x)] # <<>>
  BY <1>1, <1>2, <1>4, <1>6, CallEnds
<1> QED BY <1>5, <1>6

\* monitor_wait: the thread goes to the condition queue, and the monitor to the next one.
LEMMA WaitInv ==
  ASSUME MonInv, NEW x \in Mon, NEW c \in Cond, sys__monitor_wait(x, c)
  PROVE  MonInv'
<1> DEFINE s  == kthread_enqueue(k, Self, wait_q(c))
           mm == [m EXCEPT !.qdata[Self] = x]
           r  == kthreadq_release(s, wait_q(x))
<1>1. /\ live' = live /\ UNCHANGED <<handles, joining>> /\ x \in Mon \cap live /\ c \in live
      /\ m.owner[x] = Self /\ m' = HandOver(mm, x) /\ entered' = entered
      /\ k' = kthreads_schedule(r) /\ Self # Idle
  BY DEF sys__monitor_wait, FreeToCall, UserCall
<1>2. /\ MonitorsOK(k, m, live, entered) /\ m \in MonitorState /\ live' \subseteq Mon \cup Cond
      /\ entered' \in [Desc -> SUBSET Mon] /\ c \in WaitQueue /\ x \in WaitQueue /\ x # c
  BY <1>1, MonQueues DEF MonInv, MonitorsOK
<1>3. ~Queued(k, Self)
  BY MonFacts DEF Queued, Consistent, QueuesOK, Belongs, ACTIVE, READY, WAIT
<1>4. /\ Moved(k, s) /\ \A v \in Desc \ {Self} : Live(s, v) => Live(k, v)
      /\ \A w \in WaitQueue : \A v \in Desc :
           InQueue(s, v, w) <=> InQueue(k, v, w) \/ (v = Self /\ w = c)
      /\ \A R \in Queue \ {wait_q(c)} : s.q[R] = k.q[R]
  BY <1>1, <1>2, <1>3, EnqueueMoves, MonFacts DEF ACTIVE, PASSIVE
<1>5. s.q[wait_q(x)] = k.q[wait_q(x)]
  BY <1>2, <1>4, WaitQueueType, MonFacts
<1> HIDE DEF s
<1>6. /\ mm \in MonitorState /\ mm.lock = m.lock /\ mm.owner = m.owner
      /\ \A v \in Desc : mm.qdata[v] = IF v = Self THEN x ELSE m.qdata[v]
  BY <1>2, MonFacts DEF MonitorState
<1> HIDE DEF mm, r
<1>7. MonitorsOK(s, mm, live, entered)
  <2>1. EntranceOK(s, mm, live) /\ ConditionOK(s, mm, live) /\ OwnerOK(mm, live)
    BY <1>1, <1>2, <1>4, <1>6, MonQueues
       DEF MonitorsOK, EntranceOK, ConditionOK, OwnerOK
  <2>2. EnteredOK(s, mm, live, entered)
    <3> SUFFICES ASSUME NEW v \in s.all_threads, NEW y \in Mon \cap live, y \in entered[v],
                        Live(s, v)
                 PROVE  Accounted(s, mm, v, y)
      BY DEF EnteredOK
    <3>1. v \in k.all_threads /\ v \in Desc /\ (v # Self => Live(k, v)) /\ Live(k, Self)
      BY <1>4, MonFacts DEF Moved, SameResources, Live
    <3>2. Accounted(k, m, v, y)
      BY <1>2, <3>1 DEF MonitorsOK, EnteredOK
    <3>3. CASE v = Self
      \* It was in no queue, so it owned every monitor it had entered.
      <4>1. m.owner[y] = v
        BY <3>2, <3>3, MonFacts, MonQueues DEF Accounted
      <4> QED BY <1>6, <4>1 DEF Accounted
    <3>4. CASE v # Self
      BY <1>4, <1>6, <3>1, <3>2, <3>4, MonQueues DEF Accounted
    <3> QED BY <3>3, <3>4
  <2> QED BY <1>6, <2>1, <2>2 DEF MonitorsOK
<1>8. Moved(s, r) /\ MonitorsOK(r, m', live', entered')
  <2>1. mm.owner[x] = Self /\ mm.owner[x] # NULL
    BY <1>1, <1>6, MonFacts
  <2>2. InQueue(s, Self, c) /\ mm.qdata[Self] = x
    BY <1>2, <1>4, <1>6, MonFacts
  <2>3. Good(s)
    BY <1>4 DEF Moved
  <2>4. \A v \in s.all_threads :
          v = mm.owner[x] /\ x \in entered[v] => mm.qdata[v] = x /\ \E d \in Cond : InQueue(s, v, d)
    BY <2>1, <2>2
  <2> QED BY <1>1, <1>5, <1>7, <2>1, <2>3, <2>4, HandOverMon DEF r
<1>9. Moved(k, r)
  BY <1>4, <1>8, MovedTwice
<1> QED BY <1>1, <1>2, <1>8, <1>9, CallEnds

-----------------------------------------------------------------------------
(***************************************************************************)
(* k_monitor_release, turn by turn: a is the state before a turn, and at   *)
(* least n threads are still in condition queue c.                         *)
(***************************************************************************)
TurnOK(a, c, n) ==
  /\ a \in [k : KState, m : MonitorState, reschedule : BOOLEAN]
  /\ Moved(k, a.k) /\ MonitorsOK(a.k, a.m, live, entered)
  /\ Len(a.k.q[wait_q(c)]) >= n
  /\ ~a.reschedule => Top(a.k)

LEMMA TurnKeeps ==
  ASSUME MonInv, NEW c \in Cond, NEW n \in Nat, NEW a, TurnOK(a, c, n + 1)
  PROVE  TurnOK(ReleaseFirst(a, c), c, n)
<1> DEFINE s == a.k
           t == Head(s.q[wait_q(c)])
           x == a.m.qdata[t]
           b == ReleaseFirst(a, c)
<1>1. /\ a \in [k : KState, m : MonitorState, reschedule : BOOLEAN]
      /\ Moved(k, s) /\ Good(s) /\ MonitorsOK(s, a.m, live, entered) /\ a.m \in MonitorState
      /\ s \in KState /\ c \in WaitQueue /\ s.all_threads \subseteq Desc
  BY MonQueues DEF TurnOK, Moved, KState
<1>2. /\ s.q[wait_q(c)] \in Seq(Desc) /\ s.q[wait_q(c)] # <<>>
      /\ Len(s.q[wait_q(c)]) \in Nat /\ Len(s.q[wait_q(c)]) >= n + 1
  BY <1>1, WaitQueueType DEF TurnOK
<1>3. Len(Tail(s.q[wait_q(c)])) >= n
  BY <1>2
<1>4. InQueue(s, t, c) /\ t \in Desc
  BY <1>1, <1>2, ReleaseMoves
<1>5. x \in Mon \cap live /\ x # c /\ x \in WaitQueue
  BY <1>1, <1>4, MonQueues DEF MonitorsOK, ConditionOK
<1>6. CASE a.m.lock[x]
  <2> DEFINE k1 == kthreadq_remove_first(s, wait_q(c))
             k2 == kthread_enqueue(k1, t, wait_q(x))
  <2>1. b = [a EXCEPT !.k = k2]
    BY <1>6 DEF ReleaseFirst
  <2>2. /\ Moved(s, k1) /\ t \in Desc \ {Idle} /\ t \in s.all_threads
        /\ s.state[t] = WAIT /\ ~Queued(k1, t)
        /\ k1.q[wait_q(c)] = Tail(s.q[wait_q(c)])
        /\ \A R \in Queue \ {wait_q(c)} : k1.q[R] = s.q[R]
        /\ k1.state = s.state
        /\ \A u \in WaitQueue : \A v \in Desc : InQueue(k1, v, u) <=> InQueue(s, v, u) /\ v # t
        /\ \A v \in Desc : Live(k1, v) => Live(s, v)
    BY <1>1, <1>2, RemoveMoves
  <2> HIDE DEF k1, t
  <2>3. /\ Moved(k1, k2)
        /\ \A R \in Queue \ {wait_q(x)} : k2.q[R] = k1.q[R]
        /\ \A v \in Desc : k2.state[v] = IF v = t THEN WAIT ELSE k1.state[v]
        /\ \A u \in WaitQueue : \A v \in Desc :
             InQueue(k2, v, u) <=> InQueue(k1, v, u) \/ (v = t /\ u = x)
        /\ \A v \in Desc \ {t} : Live(k2, v) => Live(k1, v)
    BY <1>5, <2>2, EnqueueMoves DEF Moved, SameResources, WAIT, PASSIVE
  <2> HIDE DEF k2
  <2>4. Moved(s, k2) /\ Moved(k, k2) /\ k2 \in KState
    BY <1>1, <2>2, <2>3, MovedTwice DEF Moved, Good, Consistent
  <2>5. k2.q[wait_q(c)] = Tail(s.q[wait_q(c)])
    BY <1>1, <1>5, <2>2, <2>3, WaitQueueType
  <2>6. EntranceOK(k2, a.m, live) /\ ConditionOK(k2, a.m, live)
    BY <1>1, <1>5, <1>6, <2>2, <2>3, MonQueues DEF MonitorsOK, EntranceOK, ConditionOK
  <2>7. EnteredOK(k2, a.m, live, entered)
    <3> SUFFICES ASSUME NEW v \in k2.all_threads, NEW y \in Mon \cap live, y \in entered[v],
                        Live(k2, v)
                 PROVE  Accounted(k2, a.m, v, y)
      BY DEF EnteredOK
    <3>1. v \in s.all_threads /\ v \in Desc
      BY <1>1, <2>4 DEF Moved, SameResources
    <3>2. Live(s, v)
      <4>1. Live(s, t)
        BY <1>1, <1>4, OneQueue DEF Live, Good, t
      <4> QED BY <2>2, <2>3, <3>1, <4>1
    <3>3. Accounted(s, a.m, v, y)
      BY <1>1, <3>1, <3>2 DEF MonitorsOK, EnteredOK
    <3>4. CASE v = t
      \* It was in c only: it owned y, or y is the monitor it goes to.
      <4>1. \A u \in WaitQueue : InQueue(s, t, u) => u = c
        BY <1>1, <1>4, OneQueue DEF Good, t
      <4>2. a.m.owner[y] = v \/ y = x
        BY <3>3, <3>4, <4>1, MonQueues DEF Accounted
      <4> QED BY <1>5, <2>3, <3>1, <3>4, <4>2 DEF Accounted
    <3>5. CASE v # t
      BY <2>2, <2>3, <3>1, <3>3, <3>5, MonQueues DEF Accounted
    <3> QED BY <3>4, <3>5
  <2>8. Top(s) => Top(k2)
    <3>1. \A p \in Prio : k2.q[ready_q(p)] = s.q[ready_q(p)]
      BY <1>1, <1>5, <2>2, <2>3, QueueNames
    <3>2. s.state[s.active_thread] = ACTIVE => t # s.active_thread
      BY <2>2 DEF ACTIVE, WAIT
    <3> QED BY <2>2, <2>3, <2>4, <3>1, <3>2 DEF Top, Moved, SameResources
  <2>9. /\ b \in [k : KState, m : MonitorState, reschedule : BOOLEAN]
        /\ b.k = k2 /\ b.m = a.m /\ b.reschedule = a.reschedule
    BY <1>1, <2>1, <2>4
  <2>10. TurnOK(b, c, n)
    BY <1>1, <1>3, <2>4, <2>5, <2>6, <2>7, <2>8, <2>9 DEF TurnOK, MonitorsOK, t
  <2> QED BY <2>10
<1>7. CASE ~a.m.lock[x]
  <2> DEFINE r  == kthreadq_release(s, wait_q(c))
             m2 == [a.m EXCEPT !.lock[x] = TRUE, !.owner[x] = t]
  <2>1. b = [a EXCEPT !.k = r, !.m = m2, !.reschedule = TRUE]
    BY <1>1, <1>7 DEF ReleaseFirst
  <2>2. /\ m2 \in MonitorState /\ m2.qdata = a.m.qdata
        /\ \A y \in Mon : /\ m2.lock[y] = IF y = x THEN TRUE ELSE a.m.lock[y]
                          /\ m2.owner[y] = IF y = x THEN t ELSE a.m.owner[y]
    <3> HIDE DEF t, x
    <3> QED BY <1>1, <1>4, <1>5 DEF MonitorState
  <2> HIDE DEF m2
  <2>3. /\ Moved(s, r)
        /\ r.q[wait_q(c)] = Tail(s.q[wait_q(c)])
        /\ \A u \in WaitQueue : \A v \in Desc : InQueue(r, v, u) <=> InQueue(s, v, u) /\ v # t
        /\ \A v \in Desc : Live(r, v) => Live(s, v)
    BY <1>1, <1>2, ReleaseMoves
  <2> HIDE DEF r
  <2>4. Moved(k, r) /\ r \in KState
    BY <1>1, <2>3, MovedTwice DEF Moved, Good, Consistent
  <2>5. a.m.owner[x] = NULL
    BY <1>1, <1>5, <1>7 DEF MonitorsOK, OwnerOK
  <2>6. \A u \in WaitQueue : InQueue(s, t, u) => u = c
    BY <1>1, <1>4, OneQueue DEF Good
  <2> HIDE DEF t
  <2>7. EntranceOK(r, m2, live) /\ ConditionOK(r, m2, live)
    BY <1>1, <1>5, <2>2, <2>3, MonQueues DEF MonitorsOK, EntranceOK, ConditionOK
  <2>8. OwnerOK(m2, live)
    <3>1. t # NULL
      BY <1>4, KThreadAssumption
    <3> QED BY <1>1, <1>5, <2>2, <3>1 DEF MonitorsOK, OwnerOK
  <2>9. EnteredOK(r, m2, live, entered)
    <3> SUFFICES ASSUME NEW v \in r.all_threads, NEW y \in Mon \cap live, y \in entered[v],
                        Live(r, v)
                 PROVE  Accounted(r, m2, v, y)
      BY DEF EnteredOK
    <3>1. v \in s.all_threads /\ v \in Desc /\ Live(s, v) /\ v # NULL
      BY <1>1, <2>3, KThreadAssumption DEF Moved, SameResources
    <3>2. Accounted(s, a.m, v, y)
      BY <1>1, <3>1 DEF MonitorsOK, EnteredOK
    <3>3. CASE v = t
      <4>1. a.m.owner[y] = v \/ y = x
        BY <2>6, <3>2, <3>3, MonQueues DEF Accounted
      <4> QED BY <1>5, <2>2, <2>5, <3>1, <3>3, <4>1 DEF Accounted
    <3>4. CASE v # t
      BY <1>5, <2>2, <2>3, <2>5, <3>1, <3>2, <3>4, MonQueues DEF Accounted
    <3> QED BY <3>3, <3>4
  <2>10. /\ b \in [k : KState, m : MonitorState, reschedule : BOOLEAN]
         /\ b.k = r /\ b.m = m2 /\ b.reschedule = TRUE
    BY <1>1, <2>1, <2>2, <2>4
  <2>11. TurnOK(b, c, n)
    BY <1>3, <2>2, <2>3, <2>4, <2>7, <2>8, <2>9, <2>10 DEF TurnOK, MonitorsOK
  <2> QED BY <2>11
<1> QED BY <1>6, <1>7

\* The states between the turns: what the recursive function of k_monitor_release computes.
Turns(after, c, n) ==
  after = [i \in 0 .. n |-> IF i = 0 THEN [k |-> k, m |-> m, reschedule |-> FALSE]
                                     ELSE ReleaseFirst(after[i - 1], c)]

LEMMA TurnsExist ==
  ASSUME NEW c, NEW n \in Nat
  PROVE  \E after : Turns(after, c, n)
<1> DEFINE Bad == {i \in Nat : \A after : ~Turns(after, c, i)}
<1> SUFFICES ASSUME Bad # {} PROVE FALSE
  OBVIOUS
<1>1. PICK i \in Bad : \A j \in Bad : i <= j
  <2> HIDE DEF Bad
  <2>1. Bad \subseteq Nat
    BY DEF Bad
  <2> QED BY <2>1, LeastExists
<1>2. CASE i = 0
  <2> DEFINE f == [j \in 0 .. 0 |-> [k |-> k, m |-> m, reschedule |-> FALSE]]
  <2>1. Turns(f, c, 0)
    BY DEF Turns
  <2> QED BY <1>1, <1>2, <2>1
<1>3. CASE i # 0
  <2>1. i \in Nat /\ i - 1 \in Nat /\ i - 1 \notin Bad
    BY <1>1, <1>3
  <2>2. PICK f : Turns(f, c, i - 1)
    BY <2>1
  <2> DEFINE g == [j \in 0 .. i |-> IF j = i THEN ReleaseFirst(f[i - 1], c) ELSE f[j]]
  <2>3. ASSUME NEW j \in 0 .. i
        PROVE  g[j] = IF j = 0 THEN [k |-> k, m |-> m, reschedule |-> FALSE]
                               ELSE ReleaseFirst(g[j - 1], c)
    <3>1. j < i => f[j] = IF j = 0 THEN [k |-> k, m |-> m, reschedule |-> FALSE]
                          ELSE ReleaseFirst(f[j - 1], c)
      <4> HIDE DEF Bad
      <4>1. j < i => j \in 0 .. (i - 1)
        BY <2>1
      <4>2. f = [h \in 0 .. (i - 1) |-> IF h = 0 THEN [k |-> k, m |-> m, reschedule |-> FALSE]
                                        ELSE ReleaseFirst(f[h - 1], c)]
        BY <2>2 DEF Turns
      <4> QED BY <4>1, <4>2
    <3>2. j # 0 => j - 1 \in 0 .. i /\ j - 1 # i
      BY <1>1
    <3> QED BY <1>1, <1>3, <3>1, <3>2
  <2>4. Turns(g, c, i)
    <3>1. g = [j \in 0 .. i |-> g[j]]
      OBVIOUS
    <3> HIDE DEF g
    <3> QED BY <2>3, <3>1 DEF Turns
  <2> QED BY <1>1, <2>4
<1> QED BY <1>2, <1>3

LEMMA ReleaseTurns ==
  ASSUME NEW c, NEW n \in Nat, k_monitor_release(c, n)
  PROVE  \E after : Turns(after, c, n) /\ k' = Reschedule(after[n]) /\ m' = after[n].m
<1> DEFINE f == CHOOSE after : Turns(after, c, n)
<1>1. Turns(f, c, n)
  BY TurnsExist
<1>2. k' = Reschedule(f[n]) /\ m' = f[n].m
  BY DEF k_monitor_release, Turns
<1> QED BY <1>1, <1>2

\* The end of a call that may not have had a reason to call kthreads_schedule.
LEMMA CallEndsQuietly ==
  ASSUME MonInv, Moved(k, k'), Top(k'), UNCHANGED <<handles, joining>>,
         live' \subseteq Mon \cup Cond, entered' \in [Desc -> SUBSET Mon],
         MonitorsOK(k', m', live', entered')
  PROVE  MonInv'
<1>1. k'.ids.last_id = k.ids.last_id
  BY DEF Moved, SameResources
<1>2. GInv' /\ Sound(k')
  BY <1>1, TopRuns DEF MonInv, IInv, GInv, Moved
<1> QED BY <1>2 DEF MonInv, IInv

LEMMA MonitorReleaseInv ==
  ASSUME MonInv, NEW c \in Cond, NEW n \in Nat, Len(k.q[wait_q(c)]) >= n,
         k_monitor_release(c, n), UNCHANGED <<live, entered, handles, joining>>
  PROVE  MonInv'
<1>1. PICK after : Turns(after, c, n) /\ k' = Reschedule(after[n]) /\ m' = after[n].m
  BY ReleaseTurns
<1> DEFINE Bad == {i \in 0 .. n : ~TurnOK(after[i], c, n - i)}
<1>2. Bad = {}
  <2> SUFFICES ASSUME Bad # {} PROVE FALSE
    OBVIOUS
  <2>1. PICK i \in Bad : \A j \in Bad : i <= j
    <3>1. Bad \subseteq Nat
      OBVIOUS
    <3> QED BY <3>1, LeastExists
  <2>2. CASE i = 0
    <3>1. after[0] = [k |-> k, m |-> m, reschedule |-> FALSE]
      BY <1>1 DEF Turns
    <3>2. Moved(k, k) /\ MonitorsOK(k, m, live, entered)
      BY MonFacts DEF MonInv, Moved, SameResources
    <3>3. TurnOK(after[0], c, n)
      BY <3>1, <3>2, MonFacts DEF TurnOK, MonitorsOK
    <3> QED BY <2>1, <2>2, <3>3
  <2>3. CASE i # 0
    <3>1. i - 1 \in 0 .. n /\ i - 1 \notin Bad
      BY <2>1, <2>3
    <3>2. TurnOK(after[i - 1], c, (n - i) + 1)
      <4>1. n - (i - 1) = (n - i) + 1
        BY <2>1
      <4> QED BY <3>1, <4>1
    <3>3. n - i \in Nat
      BY <2>1
    <3>4. TurnOK(ReleaseFirst(after[i - 1], c), c, n - i)
      BY <3>2, <3>3, TurnKeeps
    <3>5. after[i] = ReleaseFirst(after[i - 1], c)
      BY <1>1, <2>1, <2>3 DEF Turns
    <3> QED BY <2>1, <3>4, <3>5
  <2> QED BY <2>2, <2>3
<1> DEFINE a == after[n]
<1>3. TurnOK(a, c, 0)
  <2>1. n \in 0 .. n /\ n - n = 0
    OBVIOUS
  <2> QED BY <1>2, <2>1
<1> HIDE DEF a
<1>4. live' = live /\ entered' = entered /\ live \subseteq Mon \cup Cond
      /\ entered \in [Desc -> SUBSET Mon]
  BY DEF MonInv
<1>5. k' = Reschedule(a) /\ m' = a.m
  BY <1>1 DEF a
<1>6. CASE a.reschedule
  <2>1. k' = kthreads_schedule(a.k)
    BY <1>5, <1>6 DEF Reschedule
  <2> QED BY <1>3, <1>4, <1>5, <2>1, CallEnds DEF TurnOK
<1>7. CASE ~a.reschedule
  <2>1. k' = a.k
    BY <1>5, <1>7 DEF Reschedule
  <2> QED BY <1>3, <1>4, <1>5, <1>7, <2>1, CallEndsQuietly DEF TurnOK
<1> QED BY <1>6, <1>7

LEMMA SignalInv ==
  ASSUME MonInv, NEW c \in Cond, sys__monitor_signal(c) \/ sys__monitor_broadcast(c)
  PROVE  MonInv'
<1>1. k.q[wait_q(c)] \in Seq(Desc)
  BY MonFacts, MonQueues, WaitQueueType
<1>2. /\ Len(k.q[wait_q(c)]) \in Nat
      /\ k.q[wait_q(c)] # <<>> => Len(k.q[wait_q(c)]) >= 1
  BY <1>1
<1>3. PICK n \in Nat : Len(k.q[wait_q(c)]) >= n /\ k_monitor_release(c, n)
  <2>1. CASE sys__monitor_signal(c)
    <3>1. k.q[wait_q(c)] = <<>> => k_monitor_release(c, 0)
      BY <2>1 DEF sys__monitor_signal
    <3>2. k.q[wait_q(c)] # <<>> => k_monitor_release(c, 1)
      BY <2>1 DEF sys__monitor_signal
    <3> QED BY <1>2, <3>1, <3>2
  <2>2. CASE sys__monitor_broadcast(c)
    BY <1>2, <2>2 DEF sys__monitor_broadcast
  <2> QED BY <2>1, <2>2
<1>4. UNCHANGED <<live, entered, handles, joining>>
  BY DEF sys__monitor_signal, sys__monitor_broadcast
<1> QED BY <1>3, <1>4, MonitorReleaseInv

\* A call of thread.c: a thread that it ends is accounted for no more, and a new one
\* has entered no monitor.
LEMMA ThreadStepInv ==
  ASSUME MonInv, ThreadStep
  PROVE  MonInv'
<1>1. /\ [Next]_vars /\ m' = m /\ live' = live
      /\ entered' = [v \in Desc |-> IF v \in k'.all_threads \ k.all_threads THEN {}
                                    ELSE entered[v]]
  BY DEF ThreadStep
<1>2. IInv'
  BY <1>1, NextInv DEF MonInv
<1>3. PICK t \in Desc \cup {NULL} : Frame(k, k', t)
  BY <1>1, NextInv DEF MonInv
<1>4. \A w \in WaitQueue : \A v \in Desc : InQueue(k', v, w) <=> InQueue(k, v, w) /\ v # t
  BY <1>3, FrameIn, MonFacts
<1>5. /\ MonitorsOK(k, m, live, entered) /\ live' \subseteq Mon \cup Cond
      /\ entered' \in [Desc -> SUBSET Mon] /\ k'.all_threads \subseteq Desc
  BY <1>1, <1>2 DEF MonInv, IInv, GInv, Good, Consistent, KState
<1>6. EntranceOK(k', m, live) /\ ConditionOK(k', m, live)
  BY <1>4, <1>5, MonQueues DEF MonitorsOK, EntranceOK, ConditionOK
<1>7. EnteredOK(k', m, live, entered')
  <2> SUFFICES ASSUME NEW v \in k'.all_threads, NEW y \in Mon \cap live, y \in entered'[v],
                      Live(k', v)
               PROVE  Accounted(k', m, v, y)
    BY DEF EnteredOK
  <2>1. v \in Desc /\ v \in k.all_threads /\ y \in entered[v]
    BY <1>1, <1>5
  <2>2. Live(k, v)
    BY <1>3, <2>1 DEF Frame
  <2>3. Accounted(k, m, v, y)
    BY <1>5, <2>1, <2>2 DEF MonitorsOK, EnteredOK
  <2>4. \A w \in WaitQueue : InQueue(k, v, w) => InQueue(k', v, w)
    <3> SUFFICES ASSUME NEW w \in WaitQueue, InQueue(k, v, w), v = t
                 PROVE  FALSE
      BY <1>4, <2>1
    <3>1. Waiting(k, t) /\ t \in Desc
      BY OneQueue, MonFacts
    <3> QED BY <1>3, <3>1 DEF Frame
  <2> QED BY <2>3, <2>4, MonQueues DEF Accounted
<1> QED BY <1>1, <1>2, <1>5, <1>6, <1>7 DEF MonInv, MonitorsOK

-----------------------------------------------------------------------------
LEMMA MonInitInv == MonInit => MonInv
<1> SUFFICES ASSUME MonInit PROVE MonInv
  OBVIOUS
<1>1. /\ IInv /\ live = {} /\ entered = [t \in Desc |-> {}]
      /\ \A w \in WaitQueue : k.q[wait_q(w)] = <<>>
  BY InitInv DEF MonInit
<1>2. m \in MonitorState
  BY DEF MonInit, MonitorState
<1>3. \A w \in WaitQueue : \A v \in Desc : ~InQueue(k, v, w)
  BY <1>1, WaitQueueType DEF IInv, GInv, Good, Consistent
<1>4. MonitorsOK(k, m, live, entered)
  BY <1>1, <1>2, <1>3, MonQueues
     DEF MonitorsOK, EntranceOK, OwnerOK, ConditionOK, EnteredOK
<1> QED BY <1>1, <1>4 DEF MonInv

LEMMA MonNextInv ==
  ASSUME MonInv, [MonNext]_allVars
  PROVE  MonInv'
<1>1. CASE UNCHANGED allVars
  BY <1>1 DEF MonInv, IInv, GInv, allVars, monVars, vars
<1>2. CASE ThreadStep
  BY <1>2, ThreadStepInv
<1>3. ASSUME NEW x \in Mon,
             \/ sys__monitor_init(x) \/ sys__monitor_destroy(x)
             \/ sys__monitor_lock(x) \/ sys__monitor_unlock(x) \/ NotOwner(x)
             \/ \E c \in Cond : sys__monitor_wait(x, c)
      PROVE  MonInv'
  BY <1>1, <1>3, InitMonInv, DestroyMonInv, LockInv, UnlockInv, WaitInv DEF NotOwner
<1>4. ASSUME NEW c \in Cond,
             \/ sys__monitor_queue_init(c) \/ sys__monitor_queue_destroy(c)
             \/ sys__monitor_signal(c) \/ sys__monitor_broadcast(c)
      PROVE  MonInv'
  BY <1>4, InitQueueInv, DestroyQueueInv, SignalInv
<1> QED BY <1>1, <1>2, <1>3, <1>4 DEF MonNext

LEMMA MonInvInvariant == MonSpec => []MonInv
BY MonInitInv, MonNextInv, PTL DEF MonSpec

LEMMA MonInvImplies ==
  ASSUME MonInv
  PROVE  MonTypeOK /\ NobodyAtOpenMonitor /\ MutualExclusion
<1>1. MonitorsOK(k, m, live, entered)
  BY DEF MonInv
<1>2. MonTypeOK
  BY <1>1, InvImplies DEF MonTypeOK, MonInv, MonitorsOK
<1>3. NobodyAtOpenMonitor
  <2> SUFFICES ASSUME NEW x \in Mon \cap live
               PROVE  /\ m.lock[x] <=> m.owner[x] # NULL
                      /\ k.q[wait_q(x)] # <<>> => m.lock[x]
    BY DEF NobodyAtOpenMonitor
  <2>1. m.lock[x] <=> m.owner[x] # NULL
    BY <1>1 DEF MonitorsOK, OwnerOK
  <2>2. k.q[wait_q(x)] # <<>> => \E v \in Desc : InQueue(k, v, x)
    BY WaitQueueType, MonQueues, MonFacts
  <2>3. k.q[wait_q(x)] # <<>> => m.lock[x]
    BY <1>1, <2>2 DEF MonitorsOK, EntranceOK
  <2> QED BY <2>1, <2>3
<1>4. MutualExclusion
  <2> SUFFICES ASSUME NEW x \in Mon \cap live, NEW t \in k.all_threads, Inside(t, x)
               PROVE  m.owner[x] = t
    BY DEF MutualExclusion
  <2>1. x \in entered[t] /\ Live(k, t)
    BY DEF Inside, Live, Awake
  <2>2. \A w \in WaitQueue : ~InQueue(k, t, w)
    BY OneQueue, MonFacts DEF Inside, ACTIVE, READY, WAIT
  <2>3. Accounted(k, m, t, x)
    BY <1>1, <2>1 DEF MonitorsOK, EnteredOK
  <2> QED BY <2>2, <2>3, MonQueues DEF Accounted
<1> QED BY <1>2, <1>3, <1>4

(***************************************************************************)
(* Type correctness: the owner of a monitor and the monitor a thread waits *)
(* with are descriptors and monitors, after any number of turns of the     *)
(* loop of k_monitor_release.                                              *)
(***************************************************************************)
THEOREM MonTypeCorrect == MonSpec => []MonTypeOK
BY MonInvInvariant, MonInvImplies, PTL

(***************************************************************************)
(* Threads wait at the entrance only of a locked monitor, and a monitor is *)
(* locked exactly while it has an owner: no order of lock, unlock, wait,   *)
(* signal, broadcast and destroy leaves somebody at an open monitor.       *)
(***************************************************************************)
THEOREM NobodyEverAtOpenMonitor == MonSpec => []NobodyAtOpenMonitor
BY MonInvInvariant, MonInvImplies, PTL

(***************************************************************************)
(* Mutual exclusion: a thread that is inside a monitor and may run is its  *)
(* owner, and a monitor has one owner.                                     *)
(***************************************************************************)
THEOREM MutualExclusionHolds == MonSpec => []MutualExclusion
BY MonInvInvariant, MonInvImplies, PTL
=============================================================================
