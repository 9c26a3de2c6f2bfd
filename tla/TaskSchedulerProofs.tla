------------------------- MODULE TaskSchedulerProofs -------------------------
(***************************************************************************)
(* Proofs about TaskScheduler, for all tasks, triggers, chains, numbers of *)
(* calls and surroundings.                                                 *)
(***************************************************************************)
EXTENDS TaskScheduler, TLAPS, WellFoundedInduction

-----------------------------------------------------------------------------
(* Where the calls are, which all the invariants below rest on.            *)

Places == Suspended \cup {"idle", "chained"}

CallsOK ==
    /\ at \in [Calls -> Places]
    /\ taskOf \in [Calls -> Tasks \cup {NoTask}]
    /\ forced \in [Calls -> BOOLEAN]
    /\ \A c \in Calls : IF at[c] = "idle" THEN taskOf[c] = NoTask ELSE taskOf[c] \in Tasks
    /\ \A c \in Calls : at[c] \in {"idle", "chained"} => ~forced[c]

LEMMA CallsInit == Init => CallsOK
BY DEF Init, CallsOK, Places

LEMMA CallsCreate ==
    ASSUME CallsOK, NEW t \in Tasks, NEW force \in BOOLEAN,
           NEW c \in Calls, Create(c, t, force)
    PROVE  CallsOK'
BY DEF CallsOK, Create, Free, Places, Suspended

LEMMA CallsPoll ==
    ASSUME CallsOK, NEW D \in SUBSET Tasks, Poll(D)
    PROVE  CallsOK'
<1>0. PICK C \in SUBSET Free : \E f \in Bijection(C, D) :
         /\ at' = [c \in Calls |-> IF c \in C THEN "created" ELSE at[c]]
         /\ taskOf' = [c \in Calls |-> IF c \in C THEN f[c] ELSE taskOf[c]]
         /\ forced' = [c \in Calls |-> c \notin C /\ forced[c]]
  BY DEF Poll
<1>1. PICK f \in Bijection(C, D) :
         /\ at' = [c \in Calls |-> IF c \in C THEN "created" ELSE at[c]]
         /\ taskOf' = [c \in Calls |-> IF c \in C THEN f[c] ELSE taskOf[c]]
         /\ forced' = [c \in Calls |-> c \notin C /\ forced[c]]
  BY <1>0
<1>2. f \in [C -> D]
  BY DEF Bijection, Injection
<1>. QED
  BY <1>1, <1>2 DEF CallsOK, Places, Suspended

\* A call that goes on without leaving.
LEMMA CallsMove ==
    ASSUME CallsOK, NEW c \in Calls, at[c] \in Suspended,
           NEW place \in Suspended, at' = [at EXCEPT ![c] = place],
           UNCHANGED <<taskOf, forced>>
    PROVE  CallsOK'
BY DEF CallsOK, Places, Suspended

LEMMA CallsLeave ==
    ASSUME CallsOK, NEW c \in Calls, NEW next \in Tasks \cup {NoTask},
           NEW hs, NEW h, Leave(c, hs, h, next)
    PROVE  CallsOK'
<1>1. /\ at' = [at EXCEPT ![c] = IF next = NoTask THEN "idle" ELSE "chained"]
      /\ taskOf' = [taskOf EXCEPT ![c] = next]
      /\ forced' = [forced EXCEPT ![c] = FALSE]
  BY DEF Leave
<1>. QED
  BY <1>1 DEF CallsOK, Places, Suspended

LEMMA CallsEnter ==
    ASSUME CallsOK, NEW c \in Calls, at[c] \in Suspended,
           NEW r, NEW hs, NEW h, Enter(c, r, hs, h)
    PROVE  CallsOK'
<1>1. CASE Leave(c, hs, h, NoTask)
  BY <1>1, CallsLeave
<1>2. CASE at' = [at EXCEPT ![c] = "gated"] /\ UNCHANGED <<taskOf, forced>>
  BY <1>2, CallsMove DEF Suspended
<1>3. CASE Start(c, hs, h)
  BY <1>3, CallsMove DEF Start, Suspended
<1>. QED
  BY <1>1, <1>2, <1>3 DEF Enter

LEMMA CallsBegin ==
    ASSUME CallsOK, NEW c \in Calls, NEW r, Begin(c, r)
    PROVE  CallsOK'
<1>1. at[c] \in Suspended
  BY DEF Begin, Suspended
<1>2. CASE at' = [at EXCEPT ![c] = "queued"] /\ UNCHANGED <<taskOf, forced>>
  BY <1>1, <1>2, CallsMove DEF Suspended
<1>. QED
  BY <1>1, <1>2, CallsEnter DEF Begin

LEMMA CallsOver ==
    ASSUME CallsOK, NEW c \in Calls, WorkEnds(c) \/ Unwound(c)
    PROVE  /\ at[c] = "working"
           /\ \E next \in Tasks \cup {NoTask} : Leave(c, handle, holder, next)
           /\ CallsOK'
<1>1. \E n, next : next \in {NoTask, Child} /\ Over(c, n, next)
  BY DEF WorkEnds, Result, Noop, Defer, Raise, Unwound
<1>2. Child \in Tasks
  BY ConstantsAssumption
<1>. QED
  BY <1>1, <1>2, CallsLeave DEF Over

\* Every step of a call, the end of its work apart.
LEMMA CallsStep ==
    ASSUME CallsOK, NEW c \in Calls, CallStep(c)
    PROVE  CallsOK'
<1>1. CASE Begin(c, "queued")
  BY <1>1, CallsBegin
<1>2. CASE Acquired(c)
  BY <1>2, CallsEnter DEF Acquired, Suspended
<1>3. CASE Quiet(c)
  BY <1>3, CallsMove DEF Quiet, Start, Suspended
<1>4. CASE Abandon(c)
  BY <1>4, CallsLeave DEF Abandon
<1>5. CASE Unwound(c)
  BY <1>5, CallsOver
<1>6. CASE RunChained(c)
  BY <1>6 DEF RunChained, CallsOK, Places, Suspended, calls
<1>. QED
  BY <1>1, <1>2, <1>3, <1>4, <1>5, <1>6 DEF CallStep

Times == {"none", "future", "past"}

\* A call that meets a fault begins, or ends at once and loses no trigger.
LEMMA Broken ==
    ASSUME CallsOK, nextRun \in [Tasks -> Times], NEW c \in Calls,
           BreaksEarly(c) \/ BreaksAbandoned(c) \/ BreaksAtWork(c)
    PROVE  /\ at[c] \in Suspended /\ taskOf[c] \in Tasks
           /\ \E hs \in {handle, Registered(c)}, n \in Times : \E r :
                 /\ Breaks(c, hs, r, n)
                 /\ taskOf[c] \in Events /\ nextRun[taskOf[c]] # "none" => n # "none"
<1>1. at[c] \in Suspended
  BY DEF BreaksEarly, BreaksAbandoned, BreaksAtWork, Suspended
<1>2. taskOf[c] \in Tasks
  BY <1>1 DEF CallsOK, Suspended
<1>3. nextRun[taskOf[c]] \in Times
  BY <1>2
<1>4. \A n \in Advanced(c) :
        n \in Times /\ (taskOf[c] \in Events /\ nextRun[taskOf[c]] # "none" => n # "none")
  BY <1>3 DEF Advanced, After, Times
<1>5. Deferred(taskOf[c])[taskOf[c]] \in {nextRun[taskOf[c]], "future"}
  BY <1>2 DEF Deferred
<1>6. \E hs \in {handle, Registered(c)} : \E r, n :
         /\ Breaks(c, hs, r, n)
         /\ n \in {nextRun[taskOf[c]], Deferred(taskOf[c])[taskOf[c]]} \cup Advanced(c)
  <2>1. CASE BreaksEarly(c)
    BY <2>1 DEF BreaksEarly
  <2>2. CASE BreaksAbandoned(c)
    BY <2>2 DEF BreaksAbandoned
  <2>3. CASE BreaksAtWork(c)
    BY <2>3 DEF BreaksAtWork
  <2>. QED
    BY <2>1, <2>2, <2>3
<1>7. PICK hs \in {handle, Registered(c)} : \E r, n :
         /\ Breaks(c, hs, r, n)
         /\ n \in {nextRun[taskOf[c]], Deferred(taskOf[c])[taskOf[c]]} \cup Advanced(c)
  BY <1>6
<1>8. PICK n : /\ \E r : Breaks(c, hs, r, n)
               /\ n \in {nextRun[taskOf[c]], Deferred(taskOf[c])[taskOf[c]]} \cup Advanced(c)
  BY <1>7
<1>9. n \in Times /\ (taskOf[c] \in Events /\ nextRun[taskOf[c]] # "none" => n # "none")
  BY <1>3, <1>4, <1>5, <1>8 DEF Times
<1>. QED
  BY <1>1, <1>2, <1>8, <1>9

LEMMA BrokenLeaves ==
    ASSUME NEW c \in Calls, BreaksEarly(c) \/ BreaksAbandoned(c) \/ BreaksAtWork(c)
    PROVE  at[c] \in Suspended /\ \E hs, r, n : Breaks(c, hs, r, n)
<1>1. at[c] \in Suspended
  BY DEF BreaksEarly, BreaksAbandoned, BreaksAtWork, Suspended
<1>2. CASE BreaksEarly(c)
  BY <1>1, <1>2 DEF BreaksEarly
<1>3. CASE BreaksAbandoned(c)
  BY <1>1, <1>3 DEF BreaksAbandoned
<1>4. CASE BreaksAtWork(c)
  BY <1>1, <1>4 DEF BreaksAtWork
<1>. QED
  BY <1>2, <1>3, <1>4

LEMMA CallsFault ==
    ASSUME CallsOK, NEW c \in Calls, FaultStep(c)
    PROVE  CallsOK'
<1>1. CASE Begin(c, "over")
  BY <1>1, CallsBegin
<1>2. CASE \E hs, r, n : Breaks(c, hs, r, n)
  BY <1>2, CallsLeave DEF Breaks
<1>. QED
  BY <1>1, <1>2, BrokenLeaves DEF FaultStep

LEMMA CallsNext == CallsOK /\ [Next]_vars => CallsOK'
<1>. SUFFICES ASSUME CallsOK, [Next]_vars PROVE CallsOK'
  OBVIOUS
<1>1. ASSUME NEW t \in Tasks, RunNow(t) \/ ForceRun(t) \/ Event(t)
      PROVE  CallsOK'
  <2>1. CASE \E c \in Calls, force \in BOOLEAN : Create(c, t, force)
    BY <2>1, CallsCreate
  <2>2. CASE UNCHANGED <<at, taskOf, forced>>
    BY <2>2 DEF CallsOK
  <2>. QED
    BY <1>1, <2>1, <2>2 DEF RunNow, ForceRun, Event, Dispatch
<1>2. ASSUME NEW D \in SUBSET Tasks, Poll(D) PROVE CallsOK'
  BY <1>2, CallsPoll
<1>3. ASSUME NEW c \in Calls, CallStep(c) \/ WorkEnds(c) PROVE CallsOK'
  BY <1>3, CallsStep, CallsOver
<1>4. CASE Crash
  BY <1>4 DEF Crash, CallsOK, Places
<1>5. CASE UNCHANGED <<at, taskOf, forced>>
  BY <1>5 DEF CallsOK
<1>6. ASSUME NEW c \in Calls, FaultStep(c) PROVE CallsOK'
  BY <1>6, CallsFault
<1>7. CASE Restart \/ RestartFails
  BY <1>5, <1>7 DEF Restart, RestartFails, StartUp, calls
<1>. QED
  BY <1>1, <1>2, <1>3, <1>4, <1>5, <1>6, <1>7
  DEF Next, vars, state, calls, StopTask, PauseTask, ResumeTask, TimePasses,
      PutOff, ForegroundHits, StopBackground, Foreground

LEMMA CallsAlways == Spec => []CallsOK
BY CallsInit, CallsNext, PTL DEF Spec

-----------------------------------------------------------------------------
(* The marks.                                                              *)

\* OneAtATime is inductive once the calls are where they should be.
MarkInv == CallsOK /\ executing \subseteq Tasks /\ OneAtATime

LEMMA MarkInit == Init => MarkInv
BY CallsInit DEF Init, MarkInv, OneAtATime, Live, Suspended

\* A mark is taken together with a new run, of a task that had none.
LEMMA MarkDispatch ==
    ASSUME MarkInv, NEW t \in Tasks, Dispatch(t), UNCHANGED stopped
    PROVE  MarkInv'
<1>1. PICK c \in Calls : Create(c, t, FALSE)
  BY DEF Dispatch
<1>2. CallsOK'
  BY <1>1, CallsCreate DEF MarkInv
<1>3. /\ at[c] = "idle" /\ ~forced[c]
      /\ at' = [at EXCEPT ![c] = "created"]
      /\ taskOf' = [taskOf EXCEPT ![c] = t]
      /\ forced' = [forced EXCEPT ![c] = FALSE]
  BY <1>1 DEF Create, Free, MarkInv, CallsOK
<1>4. Live(t)' = Live(t) \cup {c}
  BY <1>3 DEF Live, Suspended, MarkInv, CallsOK
<1>5. \A u \in Tasks \ {t} : Live(u)' = Live(u)
  BY <1>3 DEF Live, Suspended, MarkInv, CallsOK
<1>6. t \notin executing /\ executing' = executing \cup {t}
  BY DEF Dispatch, MayDispatch
<1>7. OneAtATime'
  BY <1>4, <1>5, <1>6 DEF OneAtATime, MarkInv
<1>. QED
  BY <1>2, <1>6, <1>7 DEF MarkInv

LEMMA MarkPoll ==
    ASSUME MarkInv, NEW D \in SUBSET Tasks, Poll(D)
    PROVE  MarkInv'
<1>1. PICK C \in SUBSET Free : \E f \in Bijection(C, D) :
         /\ at' = [c \in Calls |-> IF c \in C THEN "created" ELSE at[c]]
         /\ taskOf' = [c \in Calls |-> IF c \in C THEN f[c] ELSE taskOf[c]]
         /\ forced' = [c \in Calls |-> c \notin C /\ forced[c]]
  BY DEF Poll
<1>2. PICK f \in Bijection(C, D) :
         /\ at' = [c \in Calls |-> IF c \in C THEN "created" ELSE at[c]]
         /\ taskOf' = [c \in Calls |-> IF c \in C THEN f[c] ELSE taskOf[c]]
         /\ forced' = [c \in Calls |-> c \notin C /\ forced[c]]
  BY <1>1
<1>3. /\ f \in [C -> D]
      /\ \A a, b \in C : f[a] = f[b] => a = b
      /\ \A t \in D : \E c \in C : f[c] = t
  BY DEF Bijection, Injection, Surjection, IsInjective
<1>4. C \subseteq Calls /\ \A c \in C : at[c] = "idle"
  BY DEF Free
<1>5. executing' = executing \cup D /\ D \cap executing = {} /\ stopped' = stopped
  BY DEF Poll, Due, MayDispatch, history
<1>6. ASSUME NEW t \in Tasks \ D PROVE Live(t)' = Live(t)
  <2>1. \A d \in C : d \notin Live(t) /\ d \notin Live(t)'
    BY <1>2, <1>3, <1>4 DEF Live, Suspended
  <2>2. \A d \in Calls \ C : d \in Live(t)' <=> d \in Live(t)
    BY <1>2, <1>4 DEF Live
  <2>. QED
    BY <2>1, <2>2, <1>4 DEF Live
<1>7. ASSUME NEW t \in D
      PROVE  \E c \in C : f[c] = t /\ Live(t)' = Live(t) \cup {c}
  <2>1. PICK c \in C : f[c] = t
    BY <1>3
  <2>2. \A d \in Calls : d \in Live(t)' <=> d \in Live(t) \/ d = c
    BY <1>2, <1>3, <1>4, <2>1 DEF Live, Suspended
  <2>. QED
    BY <2>1, <2>2, <1>4 DEF Live
<1>8. OneAtATime'
  BY <1>5, <1>6, <1>7 DEF OneAtATime, MarkInv
<1>9. CallsOK'
  BY CallsPoll DEF MarkInv
<1>. QED
  BY <1>5, <1>8, <1>9 DEF MarkInv

LEMMA MarkMove ==
    ASSUME MarkInv, NEW c \in Calls, at[c] \in Suspended,
           NEW place \in Suspended, at' = [at EXCEPT ![c] = place],
           UNCHANGED <<executing, taskOf, forced, stopped>>
    PROVE  MarkInv'
<1>1. CallsOK'
  BY CallsMove DEF MarkInv
<1>2. \A t \in Tasks : Live(t)' = Live(t)
  BY DEF Live, MarkInv, CallsOK
<1>. QED
  BY <1>1, <1>2 DEF MarkInv, OneAtATime

\* A run takes the mark along, the last of a stopped task the memory of that.
LEMMA MarkLeave ==
    ASSUME MarkInv, NEW c \in Calls, at[c] \in Suspended,
           NEW next \in Tasks \cup {NoTask},
           NEW hs, NEW h, Leave(c, hs, h, next)
    PROVE  MarkInv'
<1>1. CallsOK'
  BY CallsLeave DEF MarkInv
<1>2. taskOf[c] \in Tasks
  BY DEF MarkInv, CallsOK, Suspended
<1>3. /\ at' = [at EXCEPT ![c] = IF next = NoTask THEN "idle" ELSE "chained"]
      /\ taskOf' = [taskOf EXCEPT ![c] = next]
      /\ forced' = [forced EXCEPT ![c] = FALSE]
      /\ executing' = IF forced[c] THEN executing ELSE executing \ {taskOf[c]}
      /\ stopped' = IF Live(taskOf[c]) \subseteq {c}
                    THEN stopped \ {taskOf[c]} ELSE stopped
  BY DEF Leave, Releases
<1>4. \A t \in Tasks : Live(t)' = Live(t) \ {c}
  BY <1>3 DEF Live, Suspended, MarkInv, CallsOK
<1>5. \A t \in Tasks \ {taskOf[c]} : Live(t)' = Live(t)
  BY <1>4 DEF Live
<1>6. forced[c] => c \notin Live(taskOf[c])
  BY DEF Live
<1>7. ~forced[c] => c \in Live(taskOf[c])
  BY DEF Live
<1>8. ASSUME NEW t \in Tasks
      PROVE  /\ t \in executing' => Live(t)' # {}
             /\ t \notin stopped' =>
                   /\ \A a, b \in Live(t)' : a = b
                   /\ Live(t)' # {} => t \in executing'
  <2>1. CASE t # taskOf[c]
    BY <2>1, <1>3, <1>5 DEF MarkInv, OneAtATime
  <2>2. CASE t = taskOf[c] /\ forced[c]
    <3>1. Live(t)' = Live(t) /\ executing' = executing
      BY <2>2, <1>3, <1>4, <1>6
    <3>2. t \notin stopped' => t \notin stopped \/ Live(t) = {}
      BY <2>2, <1>3, <1>6
    <3>. QED
      BY <3>1, <3>2 DEF MarkInv, OneAtATime
  <2>3. CASE t = taskOf[c] /\ ~forced[c]
    BY <2>3, <1>3, <1>4, <1>7 DEF MarkInv, OneAtATime
  <2>. QED
    BY <2>1, <2>2, <2>3
<1>. QED
  BY <1>1, <1>3, <1>8 DEF MarkInv, OneAtATime

LEMMA MarkEnter ==
    ASSUME MarkInv, NEW c \in Calls, at[c] \in Suspended,
           NEW r, NEW hs, NEW h, Enter(c, r, hs, h)
    PROVE  MarkInv'
<1>1. CASE Leave(c, hs, h, NoTask)
  BY <1>1, MarkLeave
<1>2. CASE at' = [at EXCEPT ![c] = "gated"] /\ UNCHANGED <<executing, taskOf, forced, stopped>>
  BY <1>2, MarkMove DEF Suspended
<1>3. CASE Start(c, hs, h)
  BY <1>3, MarkMove DEF Start, Suspended
<1>. QED
  BY <1>1, <1>2, <1>3 DEF Enter, history

LEMMA MarkBegin ==
    ASSUME MarkInv, NEW c \in Calls, NEW r, Begin(c, r)
    PROVE  MarkInv'
<1>1. at[c] \in Suspended
  BY DEF Begin, Suspended
<1>2. CASE /\ at' = [at EXCEPT ![c] = "queued"]
           /\ UNCHANGED <<executing, taskOf, forced, stopped>>
  BY <1>1, <1>2, MarkMove DEF Suspended
<1>. QED
  BY <1>1, <1>2, MarkEnter DEF Begin, history

LEMMA MarkStep ==
    ASSUME MarkInv, NEW c \in Calls, CallStep(c) \/ WorkEnds(c)
    PROVE  MarkInv'
<1>1. CASE Begin(c, "queued")
  BY <1>1, MarkBegin
<1>2. CASE Acquired(c)
  BY <1>2, MarkEnter DEF Acquired, Suspended
<1>3. CASE Quiet(c)
  BY <1>3, MarkMove DEF Quiet, Start, Suspended
<1>4. CASE Abandon(c)
  BY <1>4, MarkLeave DEF Abandon, Suspended
<1>5. CASE Unwound(c) \/ WorkEnds(c)
  BY <1>5, CallsOver, MarkLeave DEF MarkInv, Suspended
<1>6. CASE RunChained(c)
  <2>1. at[c] = "chained" /\ ~forced[c] /\ taskOf[c] \in Tasks
    BY <1>6 DEF RunChained, MarkInv, CallsOK
  <2>2. CallsOK' /\ UNCHANGED <<forced, stopped>>
    BY <1>6, CallsStep DEF CallStep, MarkInv, RunChained, history
  <2>3. CASE /\ taskOf[c] \notin executing /\ executing' = executing \cup {taskOf[c]}
             /\ at' = [at EXCEPT ![c] = "created"] /\ UNCHANGED taskOf
    <3>1. Live(taskOf[c])' = Live(taskOf[c]) \cup {c}
      BY <2>1, <2>2, <2>3 DEF Live, Suspended, MarkInv, CallsOK
    <3>2. \A t \in Tasks \ {taskOf[c]} : Live(t)' = Live(t)
      BY <2>1, <2>2, <2>3 DEF Live, Suspended, MarkInv, CallsOK
    <3>. QED
      BY <2>1, <2>2, <2>3, <3>1, <3>2 DEF MarkInv, OneAtATime
  <2>4. CASE /\ at' = [at EXCEPT ![c] = "idle"]
             /\ taskOf' = [taskOf EXCEPT ![c] = NoTask] /\ UNCHANGED executing
    <3>1. \A t \in Tasks : Live(t)' = Live(t)
      BY <2>1, <2>2, <2>4 DEF Live, Suspended, MarkInv, CallsOK
    <3>. QED
      BY <2>2, <2>4, <3>1 DEF MarkInv, OneAtATime
  <2>. QED
    BY <1>6, <2>3, <2>4 DEF RunChained, MayDispatch
<1>. QED
  BY <1>1, <1>2, <1>3, <1>4, <1>5, <1>6 DEF CallStep

\* stop_task() takes the mark and leaves the run.
LEMMA MarkStop ==
    ASSUME MarkInv, NEW t \in Tasks, StopTask(t)
    PROVE  MarkInv'
<1>1. \A u \in Tasks : Live(u)' = Live(u)
  BY DEF StopTask, Live
<1>2. CallsOK'
  BY DEF StopTask, MarkInv, CallsOK
<1>3. /\ executing' = executing \ {t}
      /\ stopped' = IF Live(t) = {} THEN stopped ELSE stopped \cup {t}
  BY DEF StopTask
<1>. QED
  BY <1>1, <1>2, <1>3 DEF MarkInv, OneAtATime

LEMMA MarkNext == MarkInv /\ [Next]_vars => MarkInv'
<1>. SUFFICES ASSUME MarkInv, [Next]_vars PROVE MarkInv'
  OBVIOUS
<1>1. CASE UNCHANGED <<executing, at, taskOf, forced, stopped>>
  <2>1. \A t \in Tasks : Live(t)' = Live(t)
    BY <1>1 DEF Live
  <2>. QED
    BY <1>1, <2>1 DEF MarkInv, CallsOK, OneAtATime
<1>2. ASSUME NEW t \in Tasks, RunNow(t) \/ Event(t) PROVE MarkInv'
  BY <1>1, <1>2, MarkDispatch DEF RunNow, Event, history
<1>3. ASSUME NEW t \in Tasks, ForceRun(t) PROVE MarkInv'
  <2>1. PICK c \in Calls : Create(c, t, TRUE)
    BY <1>3 DEF ForceRun
  <2>2. CallsOK'
    BY <2>1, CallsCreate DEF MarkInv
  <2>3. \A u \in Tasks : Live(u)' = Live(u)
    BY <2>1 DEF Live, Create, Free, Suspended, MarkInv, CallsOK
  <2>. QED
    BY <1>3, <2>2, <2>3 DEF ForceRun, registry, history, MarkInv, OneAtATime
<1>4. ASSUME NEW t \in Tasks, StopTask(t) PROVE MarkInv'
  BY <1>4, MarkStop
<1>5. ASSUME NEW D \in SUBSET Tasks, Poll(D) PROVE MarkInv'
  BY <1>5, MarkPoll
<1>6. ASSUME NEW c \in Calls, CallStep(c) \/ WorkEnds(c) PROVE MarkInv'
  BY <1>6, MarkStep
<1>7. CASE Crash
  BY <1>7, CallsNext DEF Crash, MarkInv, CallsOK, Places, OneAtATime, Live, Suspended
<1>8. ASSUME NEW c \in Calls, FaultStep(c) PROVE MarkInv'
  <2>1. CASE Begin(c, "over")
    BY <2>1, MarkBegin
  <2>2. CASE at[c] \in Suspended /\ \E hs, r, n : Breaks(c, hs, r, n)
    BY <2>2, MarkLeave DEF Breaks
  <2>. QED
    BY <1>8, <2>1, <2>2, BrokenLeaves DEF FaultStep
<1>9. CASE Restart \/ RestartFails
  BY <1>1, <1>9 DEF Restart, RestartFails, StartUp, calls, registry, history
<1>. QED
  BY <1>1, <1>2, <1>3, <1>4, <1>5, <1>6, <1>7, <1>8, <1>9
  DEF Next, vars, state, calls, registry, history, PauseTask, ResumeTask, TimePasses,
      PutOff, ForegroundHits, StopBackground, Foreground

\* The lock of the scheduler: a task that is marked has a run, and unless the
\* user stopped it, it has one run at most and is marked while it has it
\* (_executing and the finally blocks of task_scheduler.py).
THEOREM OneRunPerTask == Spec => []OneAtATime
<1>1. MarkInv => OneAtATime
  BY DEF MarkInv
<1>. QED
  BY MarkInit, MarkNext, <1>1, PTL DEF Spec

-----------------------------------------------------------------------------
(* Events.                                                                 *)

\* A run at work has the events of its task, and only an event task has any.
OwedInv ==
    /\ CallsOK
    /\ nextRun \in [Tasks -> {"none", "future", "past"}]
    /\ owed \in [Tasks -> BOOLEAN]
    /\ \A t \in Tasks : owed[t] => t \in Events /\ nextRun[t] # "none" /\ ~Working(t)

LEMMA OwedInit == Init => OwedInv
BY CallsInit DEF Init, OwedInv

\* Nobody starts to work, and next_run is lost for no task that is owed a run.
LEMMA OwedKept ==
    ASSUME OwedInv, CallsOK',
           \A c \in Calls : at'[c] = "working" => at[c] = "working" /\ taskOf'[c] = taskOf[c],
           nextRun' \in [Tasks -> {"none", "future", "past"}],
           \A t \in Tasks : owed[t] /\ nextRun[t] # "none" => nextRun'[t] # "none",
           UNCHANGED owed
    PROVE  OwedInv'
<1>1. \A t \in Tasks : Working(t)' => Working(t)
  BY DEF Working
<1>. QED
  BY <1>1 DEF OwedInv

LEMMA OwedLeave ==
    ASSUME OwedInv, NEW c \in Calls, NEW next \in Tasks \cup {NoTask},
           NEW hs, NEW h, Leave(c, hs, h, next),
           nextRun' \in [Tasks -> {"none", "future", "past"}],
           \A t \in Tasks : owed[t] /\ nextRun[t] # "none" => nextRun'[t] # "none",
           UNCHANGED owed
    PROVE  OwedInv'
<1>1. /\ at' = [at EXCEPT ![c] = IF next = NoTask THEN "idle" ELSE "chained"]
      /\ taskOf' = [taskOf EXCEPT ![c] = next]
  BY DEF Leave
<1>2. \A d \in Calls : at'[d] = "working" => at[d] = "working" /\ taskOf'[d] = taskOf[d]
  BY <1>1 DEF OwedInv, CallsOK
<1>3. CallsOK'
  BY CallsLeave DEF OwedInv
<1>. QED
  BY <1>2, <1>3, OwedKept

\* The run that starts is the one that was owed.
LEMMA OwedStart ==
    ASSUME OwedInv, NEW c \in Calls, at[c] \in Suspended,
           NEW hs, NEW h, Start(c, hs, h), UNCHANGED nextRun
    PROVE  OwedInv'
<1>1. /\ at' = [at EXCEPT ![c] = "working"]
      /\ owed' = [owed EXCEPT ![taskOf[c]] = FALSE]
      /\ UNCHANGED <<taskOf, forced>>
  BY DEF Start
<1>2. CallsOK'
  BY <1>1, CallsMove DEF OwedInv, Suspended
<1>3. ASSUME NEW t \in Tasks, owed'[t]
      PROVE  t \in Events /\ nextRun'[t] # "none" /\ ~Working(t)'
  <2>1. t # taskOf[c] /\ owed[t]
    BY <1>1, <1>3 DEF OwedInv
  <2>2. ~Working(t)
    BY <2>1 DEF OwedInv
  <2>. QED
    BY <1>1, <2>1, <2>2 DEF OwedInv, Working, CallsOK
<1>. QED
  BY <1>1, <1>2, <1>3 DEF OwedInv

LEMMA OwedEnter ==
    ASSUME OwedInv, NEW c \in Calls, at[c] \in Suspended,
           NEW r, NEW hs, NEW h, Enter(c, r, hs, h), UNCHANGED nextRun
    PROVE  OwedInv'
<1>1. CASE Leave(c, hs, h, NoTask) /\ UNCHANGED owed
  BY <1>1, OwedLeave DEF OwedInv
<1>2. CASE at' = [at EXCEPT ![c] = "gated"] /\ UNCHANGED <<taskOf, forced, owed>>
  <2>1. CallsOK'
    BY <1>2, CallsMove DEF OwedInv, Suspended
  <2>. QED
    BY <1>2, <2>1, OwedKept DEF OwedInv, CallsOK
<1>3. CASE Start(c, hs, h)
  BY <1>3, OwedStart
<1>. QED
  BY <1>1, <1>2, <1>3 DEF Enter, history

LEMMA OwedBegin ==
    ASSUME OwedInv, NEW c \in Calls, NEW r, Begin(c, r)
    PROVE  OwedInv'
<1>1. at[c] \in Suspended /\ UNCHANGED nextRun
  BY DEF Begin, Suspended
<1>2. CallsOK'
  BY CallsBegin DEF OwedInv
<1>3. CASE at' = [at EXCEPT ![c] = "queued"] /\ UNCHANGED <<taskOf, owed>>
  BY <1>1, <1>2, <1>3, OwedKept DEF OwedInv, CallsOK
<1>. QED
  BY <1>1, <1>3, OwedEnter DEF Begin, history

\* A fault takes no trigger.
LEMMA OwedFault ==
    ASSUME OwedInv, NEW c \in Calls, FaultStep(c)
    PROVE  OwedInv'
<1>1. CASE Begin(c, "over")
  BY <1>1, OwedBegin
<1>2. CASE BreaksEarly(c) \/ BreaksAbandoned(c) \/ BreaksAtWork(c)
  <2>1. PICK hs \in {handle, Registered(c)}, n \in Times : \E r :
           /\ Breaks(c, hs, r, n)
           /\ taskOf[c] \in Events /\ nextRun[taskOf[c]] # "none" => n # "none"
    BY <1>2, Broken DEF OwedInv, Times
  <2>2. taskOf[c] \in Tasks
    BY <1>2, Broken DEF OwedInv, Times
  <2>3. /\ nextRun' = [nextRun EXCEPT ![taskOf[c]] = n]
        /\ Leave(c, hs, holder, NoTask) /\ UNCHANGED owed
    BY <2>1 DEF Breaks
  <2>4. nextRun' \in [Tasks -> {"none", "future", "past"}]
    BY <2>3 DEF OwedInv, Times
  <2>5. \A t \in Tasks : owed[t] /\ nextRun[t] # "none" => nextRun'[t] # "none"
    BY <2>1, <2>2, <2>3 DEF OwedInv
  <2>. QED
    BY <2>3, <2>4, <2>5, OwedLeave
<1>. QED
  BY <1>1, <1>2 DEF FaultStep

LEMMA OwedStep ==
    ASSUME OwedInv, NEW c \in Calls, CallStep(c)
    PROVE  OwedInv'
<1>. CallsOK /\ CallsOK'
  BY CallsStep DEF OwedInv
<1>1. CASE Begin(c, "queued")
  BY <1>1, OwedBegin
<1>2. CASE Acquired(c)
  BY <1>2, OwedEnter DEF Acquired, Suspended
<1>3. CASE Quiet(c)
  BY <1>3, OwedStart DEF Quiet, Suspended
<1>4. CASE Abandon(c)
  BY <1>4, OwedLeave DEF Abandon, Deferred, OwedInv
<1>5. CASE Unwound(c)
  <2>. at[c] = "working" /\ taskOf[c] \in Tasks
    BY <1>5, CallsOver DEF CallsOK
  <2>1. PICK n : n \in {"none", "future", "past"} /\ Over(c, n, NoTask)
    BY <1>5 DEF Unwound, After, OwedInv
  <2>2. ~owed[taskOf[c]]
    BY DEF OwedInv, Working
  <2>. QED
    BY <2>1, <2>2, OwedLeave DEF Over, OwedInv
<1>6. CASE RunChained(c)
  <2>1. \A d \in Calls : at'[d] = "working" => at[d] = "working" /\ taskOf'[d] = taskOf[d]
    BY <1>6 DEF RunChained, CallsOK
  <2>. QED
    BY <1>6, <2>1, OwedKept DEF RunChained, OwedInv, db, history
<1>. QED
  BY <1>1, <1>2, <1>3, <1>4, <1>5, <1>6 DEF CallStep

LEMMA OwedWorkEnds ==
    ASSUME OwedInv, NEW c \in Calls, WorkEnds(c)
    PROVE  OwedInv'
<1>. at[c] = "working" /\ taskOf[c] \in Tasks
  BY CallsOver DEF CallsOK, OwedInv
<1>1. PICK n : \E next : /\ n \in {"none", "future", "past"}
                         /\ next \in {NoTask, Child} /\ Over(c, n, next)
  BY DEF WorkEnds, Result, Noop, Defer, Raise, Advanced, After, OwedInv
<1>2. PICK next \in {NoTask, Child} : Over(c, n, next)
  BY <1>1
<1>3. ~owed[taskOf[c]] /\ Child \in Tasks
  BY ConstantsAssumption DEF OwedInv, Working
<1>. QED
  BY <1>1, <1>2, <1>3, OwedLeave DEF Over, OwedInv

LEMMA OwedEvent ==
    ASSUME OwedInv, NEW t \in Tasks, Event(t), CallsOK'
    PROVE  OwedInv'
<1>1. \A c \in Calls : at'[c] = "working" => at[c] = "working" /\ taskOf'[c] = taskOf[c]
  BY DEF Event, Dispatch, Create, Free, OwedInv, CallsOK
<1>2. \A u \in Tasks : Working(u)' => Working(u)
  BY <1>1 DEF Working
<1>3. t \in Events /\ nextRun' = [nextRun EXCEPT ![t] = "past"]
  BY DEF Event, Trigger
<1>4. owed' = [owed EXCEPT ![t] = owed[t] \/ ~Working(t)]
  BY DEF Event
<1>5. owed' \in [Tasks -> BOOLEAN] /\ nextRun' \in [Tasks -> {"none", "future", "past"}]
  BY <1>3, <1>4 DEF OwedInv
<1>6. ASSUME NEW u \in Tasks, owed'[u]
      PROVE  u \in Events /\ nextRun'[u] # "none" /\ ~Working(u)'
  <2>1. CASE u = t
    BY <2>1, <1>6, <1>2, <1>3, <1>4 DEF OwedInv
  <2>2. CASE u # t
    BY <2>2, <1>6, <1>2, <1>3, <1>4 DEF OwedInv
  <2>. QED
    BY <2>1, <2>2
<1>. QED
  BY <1>5, <1>6 DEF OwedInv

LEMMA OwedNext == OwedInv /\ [Next]_vars => OwedInv'
<1>. SUFFICES ASSUME OwedInv, [Next]_vars PROVE OwedInv'
  OBVIOUS
<1>. CallsOK /\ CallsOK'
  BY CallsNext DEF OwedInv
<1>1. CASE UNCHANGED <<nextRun, at, taskOf, owed>>
  BY <1>1, OwedKept DEF OwedInv
<1>2. ASSUME NEW t \in Tasks, RunNow(t) \/ ForceRun(t) PROVE OwedInv'
  <2>1. \A c \in Calls : at'[c] = "working" => at[c] = "working" /\ taskOf'[c] = taskOf[c]
    BY <1>2 DEF RunNow, ForceRun, Dispatch, Create, Free, CallsOK
  <2>. QED
    BY <1>2, <2>1, OwedKept DEF RunNow, ForceRun, db, history, OwedInv
<1>3. ASSUME NEW t \in Tasks, Event(t) PROVE OwedInv'
  BY <1>3, OwedEvent
<1>4. ASSUME NEW t \in Tasks, ResumeTask(t) \/ TimePasses(t) PROVE OwedInv'
  <2>1. CASE ResumeTask(t)
    <3>1. owed[t] => t \in Events
      BY DEF OwedInv
    <3>. QED
      BY <2>1, <3>1, OwedKept DEF ResumeTask, OwedInv, calls, history
  <2>2. CASE TimePasses(t)
    BY <2>2, OwedKept DEF TimePasses, OwedInv, calls, history
  <2>. QED
    BY <1>4, <2>1, <2>2
<1>5. CASE PutOff
  BY <1>5, OwedKept DEF PutOff, OwedInv, calls, history
<1>6. ASSUME NEW D \in SUBSET Tasks, Poll(D) PROVE OwedInv'
  <2>1. \A c \in Calls : at'[c] = "working" => at[c] = "working" /\ taskOf'[c] = taskOf[c]
    BY <1>6 DEF Poll, CallsOK
  <2>. QED
    BY <1>6, <2>1, OwedKept DEF Poll, db, history, OwedInv
<1>7. ASSUME NEW c \in Calls, CallStep(c) \/ WorkEnds(c) PROVE OwedInv'
  BY <1>7, OwedStep, OwedWorkEnds
<1>8. CASE Crash
  BY <1>8, OwedKept DEF Crash, db, OwedInv
<1>9. CASE Restart \/ RestartFails
  <2>1. nextRun' \in {nextRun, PutOffAll} /\ UNCHANGED <<at, taskOf, owed>>
    BY <1>9 DEF Restart, RestartFails, StartUp, calls, history
  <2>. QED
    BY <2>1, OwedKept DEF PutOffAll, OwedInv
<1>10. ASSUME NEW c \in Calls, FaultStep(c) PROVE OwedInv'
  BY <1>10, OwedFault
<1>. QED
  BY <1>1, <1>2, <1>3, <1>4, <1>5, <1>6, <1>7, <1>8, <1>9, <1>10
  DEF Next, vars, state, db, calls, history, StopTask, PauseTask,
      ForegroundHits, StopBackground, Foreground

\* The trigger of an event is in the database until a run of its task starts,
\* through stops, pauses, foreground activity and restarts
\* (event_bus.py:_handle_event, task_scheduler.py:_execute_task).
THEOREM TriggersSurvive == Spec => []EventKept
<1>1. OwedInv => EventKept
  BY DEF OwedInv, EventKept
<1>. QED
  BY OwedInit, OwedNext, <1>1, PTL DEF Spec

-----------------------------------------------------------------------------
(* Rows.                                                                   *)

\* A row says running from the start of the work on.
RowInv ==
    /\ CallsOK /\ row \in [Calls -> Open \cup {"over"}]
    /\ \A c \in Calls : row[c] \in Open => at[c] \in Suspended
    /\ \A c \in Calls : at[c] = "queued" => row[c] # "running"

LEMMA RowInit == Init => RowInv
BY CallsInit DEF Init, RowInv, Open

\* No row is opened, and no call with an open one leaves.
LEMMA RowKept ==
    ASSUME RowInv, CallsOK',
           row' \in [Calls -> Open \cup {"over"}],
           \A c \in Calls : row'[c] \in Open => row'[c] = row[c],
           \A c \in Calls : at[c] \in Suspended => at'[c] \in Suspended,
           \A c \in Calls : at'[c] = "queued" => at[c] = "queued"
    PROVE  RowInv'
BY DEF RowInv, Open

\* A call that leaves closes its row.
LEMMA RowLeave ==
    ASSUME RowInv, NEW c \in Calls, NEW next \in Tasks \cup {NoTask},
           NEW hs, NEW h, Leave(c, hs, h, next),
           row' = [row EXCEPT ![c] = "over"]
    PROVE  RowInv'
<1>1. at' = [at EXCEPT ![c] = IF next = NoTask THEN "idle" ELSE "chained"]
  BY DEF Leave
<1>2. CallsOK'
  BY CallsLeave DEF RowInv
<1>. QED
  BY <1>1, <1>2 DEF RowInv, CallsOK, Open, Suspended

LEMMA RowMove ==
    ASSUME RowInv, NEW c \in Calls, at[c] \in Suspended,
           NEW place \in Suspended, at' = [at EXCEPT ![c] = place],
           NEW r \in Open \cup {"over"}, row' = [row EXCEPT ![c] = r],
           place = "queued" => r # "running",
           UNCHANGED <<taskOf, forced>>
    PROVE  RowInv'
<1>1. CallsOK'
  BY CallsMove DEF RowInv
<1>. QED
  BY <1>1 DEF RowInv, CallsOK, Open, Suspended

LEMMA RowEnter ==
    ASSUME RowInv, NEW c \in Calls, at[c] \in Suspended,
           NEW r \in {"queued", "over"}, NEW hs, NEW h, Enter(c, r, hs, h)
    PROVE  RowInv'
<1>1. CASE Leave(c, hs, h, NoTask) /\ row' = [row EXCEPT ![c] = Skipped(r)]
  BY <1>1, RowLeave DEF Skipped
<1>2. CASE /\ at' = [at EXCEPT ![c] = "gated"] /\ row' = [row EXCEPT ![c] = r]
           /\ UNCHANGED <<taskOf, forced>>
  BY <1>2, RowMove DEF Suspended, Open
<1>3. CASE Start(c, hs, h)
  BY <1>3, RowMove DEF Start, Suspended, Open
<1>. QED
  BY <1>1, <1>2, <1>3 DEF Enter

LEMMA RowBegin ==
    ASSUME RowInv, NEW c \in Calls, NEW r \in {"queued", "over"}, Begin(c, r)
    PROVE  RowInv'
<1>1. at[c] \in Suspended
  BY DEF Begin, Suspended
<1>2. CASE /\ at' = [at EXCEPT ![c] = "queued"]
           /\ row' = [row EXCEPT ![c] = r]
           /\ UNCHANGED <<taskOf, forced>>
  BY <1>1, <1>2, RowMove DEF Suspended, Open
<1>. QED
  BY <1>1, <1>2, RowEnter DEF Begin

LEMMA RowStep ==
    ASSUME RowInv, NEW c \in Calls, CallStep(c) \/ WorkEnds(c)
    PROVE  RowInv'
<1>1. CASE Begin(c, "queued")
  BY <1>1, RowBegin
<1>2. CASE Acquired(c)
  <2>1. row[c] \in {"queued", "over"}
    BY <1>2 DEF Acquired, RowInv, Open
  <2>. QED
    BY <1>2, <2>1, RowEnter DEF Acquired, Suspended
<1>3. CASE Quiet(c)
  BY <1>3, RowMove DEF Quiet, Start, Suspended, Open
<1>4. CASE Abandon(c)
  BY <1>4, RowLeave DEF Abandon
<1>5. CASE Unwound(c) \/ WorkEnds(c)
  <2>1. PICK next \in {NoTask, Child} : \E n : Over(c, n, next)
    BY <1>5 DEF WorkEnds, Result, Noop, Defer, Raise, Unwound
  <2>2. Child \in Tasks
    BY ConstantsAssumption
  <2>. QED
    BY <2>1, <2>2, RowLeave DEF Over
<1>6. CASE RunChained(c)
  <2>1. CallsOK' /\ UNCHANGED row
    BY <1>6, CallsStep DEF CallStep, RowInv, RunChained, db
  <2>2. \A d \in Calls : at[d] \in Suspended => at'[d] \in Suspended
    BY <1>6 DEF RunChained, RowInv, CallsOK, Suspended
  <2>3. \A d \in Calls : at'[d] = "queued" => at[d] = "queued"
    BY <1>6 DEF RunChained, RowInv, CallsOK
  <2>. QED
    BY <2>1, <2>2, <2>3, RowKept DEF RowInv
<1>. QED
  BY <1>1, <1>2, <1>3, <1>4, <1>5, <1>6 DEF CallStep

LEMMA RowNext == RowInv /\ [Next]_vars => RowInv'
<1>. SUFFICES ASSUME RowInv, [Next]_vars PROVE RowInv'
  OBVIOUS
<1>. CallsOK /\ CallsOK'
  BY CallsNext DEF RowInv
<1>1. CASE UNCHANGED <<row, at>>
  BY <1>1, RowKept DEF RowInv
<1>2. ASSUME NEW t \in Tasks, RunNow(t) \/ ForceRun(t) \/ Event(t) PROVE RowInv'
  <2>1. UNCHANGED row
    BY <1>2 DEF RunNow, ForceRun, Event, db
  <2>2. CASE \E c \in Calls : at[c] = "idle" /\ at' = [at EXCEPT ![c] = "created"]
    BY <2>1, <2>2, RowKept DEF RowInv, CallsOK, Suspended
  <2>. QED
    BY <1>1, <1>2, <2>1, <2>2 DEF RunNow, ForceRun, Event, Dispatch, Create, Free
<1>3. ASSUME NEW T, MarkAborted(T), UNCHANGED at PROVE RowInv'
  <2>1. PICK S \in SUBSET Calls :
             row' = [c \in Calls |-> IF c \in S THEN "over" ELSE row[c]]
    BY <1>3 DEF MarkAborted
  <2>. QED
    BY <1>3, <2>1, RowKept DEF RowInv, Open
<1>4. ASSUME NEW t \in Tasks, StopTask(t) PROVE RowInv'
  BY <1>3, <1>4 DEF StopTask
<1>5. CASE StopBackground
  BY <1>3, <1>5 DEF StopBackground
<1>6. ASSUME NEW D \in SUBSET Tasks, Poll(D) PROVE RowInv'
  BY <1>6, RowKept DEF Poll, Free, db, RowInv, CallsOK, Suspended
<1>7. ASSUME NEW c \in Calls, CallStep(c) \/ WorkEnds(c) PROVE RowInv'
  BY <1>7, RowStep
<1>8. CASE Crash
  BY <1>8 DEF Crash, db, RowInv, Open
<1>9. CASE Restart \/ RestartFails
  BY <1>1, <1>9 DEF Restart, RestartFails, StartUp, calls
<1>10. ASSUME NEW c \in Calls, FaultStep(c) PROVE RowInv'
  <2>1. CASE Begin(c, "over")
    BY <2>1, RowBegin
  <2>2. CASE \E hs, r, n : Breaks(c, hs, r, n)
    BY <2>2, RowLeave DEF Breaks
  <2>. QED
    BY <1>10, <2>1, <2>2, BrokenLeaves DEF FaultStep
<1>. QED
  BY <1>1, <1>2, <1>4, <1>5, <1>6, <1>7, <1>8, <1>9, <1>10
  DEF Next, vars, state, db, calls, PauseTask, ResumeTask, TimePasses, PutOff,
      ForegroundHits, Foreground

\* A row without its run is there after a crash or a fault.
StrayInv == up /\ ~faulted => stray = {}

LEMMA StrayNext == StrayInv /\ [Next]_vars => StrayInv'
<1>. SUFFICES ASSUME StrayInv, [Next]_vars PROVE StrayInv'
  OBVIOUS
<1>1. CASE UNCHANGED <<up, faulted>> /\ stray' \subseteq stray
  BY <1>1 DEF StrayInv
<1>2. ASSUME NEW t \in Tasks, RunNow(t) \/ ForceRun(t) \/ Event(t) \/ PauseTask(t)
                            \/ ResumeTask(t) \/ TimePasses(t)
      PROVE  UNCHANGED <<stray, up>>
  BY <1>2 DEF RunNow, ForceRun, Event, PauseTask, ResumeTask, TimePasses, db
<1>3. ASSUME NEW T, MarkAborted(T) PROVE stray' \subseteq stray
  BY <1>3 DEF MarkAborted
<1>4. ASSUME NEW t \in Tasks, StopTask(t) PROVE UNCHANGED up /\ stray' \subseteq stray
  BY <1>3, <1>4 DEF StopTask
<1>5. ASSUME StopBackground PROVE UNCHANGED up /\ stray' \subseteq stray
  BY <1>3, <1>5 DEF StopBackground
<1>6. ASSUME NEW D \in SUBSET Tasks, Poll(D) PROVE UNCHANGED <<stray, up>>
  BY <1>6 DEF Poll, db
<1>7. ASSUME NEW c \in Calls, CallStep(c) PROVE UNCHANGED <<stray, up>>
  BY <1>7 DEF CallStep, Begin, Acquired, Quiet, Abandon, Unwound, Over, RunChained, db
<1>8. ASSUME NEW c \in Calls, WorkEnds(c) PROVE UNCHANGED <<stray, up>>
  BY <1>8 DEF WorkEnds, Result, Noop, Defer, Raise, Over
<1>9. CASE Crash
  BY <1>9 DEF Crash, StrayInv
<1>10. CASE Restart
  BY <1>10 DEF Restart, StartUp, StrayInv
<1>11. CASE faulted'
  BY <1>11 DEF StrayInv
<1>12. ASSUME NEW c \in Calls, ForegroundHits(c) PROVE UNCHANGED <<stray, up>>
  BY <1>12 DEF ForegroundHits, db
<1>13. CASE (PutOff \/ Foreground) /\ UNCHANGED faulted
  BY <1>1, <1>13 DEF PutOff, Foreground, db
<1>14. CASE UNCHANGED vars
  BY <1>1, <1>14 DEF vars, state, db
<1>. QED
  BY <1>1, <1>2, <1>4, <1>5, <1>6, <1>7, <1>8, <1>9, <1>10, <1>11, <1>12, <1>13, <1>14
  DEF Next

\* No row is left queued or running without the run it stands for, in whatever
\* way its run ends and also after a restart, unless a call to the database
\* failed (task_scheduler.py:start and _mark_run_aborted).
THEOREM NoRowIsLeft == Spec => []NoPhantomRuns
<1>1. RowInv /\ StrayInv => NoPhantomRuns
  BY DEF RowInv, StrayInv, NoPhantomRuns
<1>2. Init => StrayInv
  BY DEF Init, StrayInv
<1>. QED
  BY RowInit, RowNext, StrayNext, <1>1, <1>2, PTL DEF Spec

-----------------------------------------------------------------------------
(* The queue of the model slot.                                            *)

LEMMA NatMin ==
    ASSUME NEW S \in SUBSET Nat, S # {}
    PROVE  \E n \in S : \A m \in S : n <= m
<1>1. PICK n \in S : \A m \in S : <<m, n>> \notin OpToRel(<, Nat)
  BY WFMin, NatLessThanWellFounded
<1>2. \A m \in S : ~(m < n)
  BY <1>1 DEF OpToRel
<1>. QED
  BY <1>2

\* RemoveFirst() finds its element by a minimum, RemoveAt() cuts it out.
LEMMA RemoveFirstIsAt ==
    ASSUME NEW S, NEW s \in Seq(S), NEW e
    PROVE  \/ RemoveFirst(s, e) = s /\ \A i \in 1..Len(s) : s[i] # e
           \/ \E i \in 1..Len(s) : s[i] = e /\ RemoveFirst(s, e) = RemoveAt(s, i)
<1>1. CASE \A i \in 1..Len(s) : s[i] # e
  <2>1. RemoveFirst(s, e) = s
    BY <1>1 DEF RemoveFirst
  <2>. QED
    BY <1>1, <2>1
<1>2. CASE ~ \A i \in 1..Len(s) : s[i] # e
  <2>. DEFINE I == {i \in 1..Len(s) : s[i] = e}
  <2>1. \E n \in I : \A m \in I : n <= m
    <3>1. I # {} /\ I \in SUBSET Nat
      BY <1>2
    <3>. QED
      BY <3>1, NatMin
  <2>2. Min(I) \in I
    BY <2>1 DEF Min
  <2>3. SelectInSeq(s, LAMBDA v : v = e) = Min(I)
    BY <1>2 DEF SelectInSeq
  <2>4. RemoveFirst(s, e) = RemoveAt(s, SelectInSeq(s, LAMBDA v : v = e))
    BY <1>2 DEF RemoveFirst
  <2>. QED
    BY <2>2, <2>3, <2>4
<1>. QED
  BY <1>1, <1>2

LEMMA RemoveAtElements ==
    ASSUME NEW S, NEW s \in Seq(S), NEW i \in 1..Len(s)
    PROVE  /\ RemoveAt(s, i) \in Seq(S)
           /\ Len(RemoveAt(s, i)) = Len(s) - 1
           /\ \A j \in 1..(Len(s) - 1) :
                 RemoveAt(s, i)[j] = IF j < i THEN s[j] ELSE s[j + 1]
<1>. DEFINE a == SubSeq(s, 1, i - 1)
            b == SubSeq(s, i + 1, Len(s))
<1>1. a \in Seq(S) /\ Len(a) = i - 1 /\ \A j \in 1..(i - 1) : a[j] = s[j]
  OBVIOUS
<1>2. b \in Seq(S) /\ Len(b) = Len(s) - i /\ \A j \in 1..(Len(s) - i) : b[j] = s[i + j]
  OBVIOUS
<1>3. RemoveAt(s, i) = a \o b
  BY DEF RemoveAt
<1>. HIDE DEF a, b
<1>4. a \o b \in Seq(S) /\ Len(a \o b) = Len(s) - 1
  <2>1. a \o b \in Seq(S) /\ Len(a \o b) = Len(a) + Len(b)
    <3>1. a \in Seq(S) /\ b \in Seq(S)
      BY <1>1, <1>2
    <3>. QED
      BY <3>1
  <2>2. (i - 1) + (Len(s) - i) = Len(s) - 1
    OBVIOUS
  <2>. QED
    BY <2>1, <2>2, <1>1, <1>2
<1>5. ASSUME NEW j \in 1..(Len(s) - 1)
      PROVE  (a \o b)[j] = IF j < i THEN s[j] ELSE s[j + 1]
  <2>1. CASE j < i
    BY <2>1, <1>1, <1>2
  <2>2. CASE ~(j < i)
    <3>1. (a \o b)[j] = b[j - (i - 1)]
      BY <2>2, <1>1, <1>2
    <3>2. j - (i - 1) \in 1..(Len(s) - i) /\ i + (j - (i - 1)) = j + 1
      BY <2>2
    <3>. QED
      BY <2>2, <3>1, <3>2, <1>2
  <2>. QED
    BY <2>1, <2>2
<1>. QED
  BY <1>3, <1>4, <1>5

\* What is left of a queue without repetitions.
LEMMA Removed ==
    ASSUME NEW S, NEW s \in Seq(S), NEW e,
           \A i, j \in 1..Len(s) : s[i] = s[j] => i = j
    PROVE  LET r == RemoveFirst(s, e) IN
           /\ r \in Seq(S)
           /\ \A i, j \in 1..Len(r) : r[i] = r[j] => i = j
           /\ \A k \in 1..Len(r) : r[k] # e /\ \E i \in 1..Len(s) : r[k] = s[i]
           /\ \A i \in 1..Len(s) : s[i] # e => \E k \in 1..Len(r) : r[k] = s[i]
<1>1. CASE RemoveFirst(s, e) = s /\ \A i \in 1..Len(s) : s[i] # e
  BY <1>1
<1>2. ASSUME NEW n \in 1..Len(s), s[n] = e, RemoveFirst(s, e) = RemoveAt(s, n)
      PROVE  LET r == RemoveFirst(s, e) IN
             /\ r \in Seq(S)
             /\ \A i, j \in 1..Len(r) : r[i] = r[j] => i = j
             /\ \A k \in 1..Len(r) : r[k] # e /\ \E i \in 1..Len(s) : r[k] = s[i]
             /\ \A i \in 1..Len(s) : s[i] # e => \E k \in 1..Len(r) : r[k] = s[i]
  <2>. PICK r : r = RemoveFirst(s, e)
    OBVIOUS
  <2>0. r = RemoveAt(s, n)
    BY <1>2
  <2>1. /\ r \in Seq(S) /\ Len(r) = Len(s) - 1
        /\ \A j \in 1..(Len(s) - 1) : r[j] = IF j < n THEN s[j] ELSE s[j + 1]
    <3>1. /\ RemoveAt(s, n) \in Seq(S) /\ Len(RemoveAt(s, n)) = Len(s) - 1
          /\ \A j \in 1..(Len(s) - 1) :
                RemoveAt(s, n)[j] = IF j < n THEN s[j] ELSE s[j + 1]
      BY RemoveAtElements
    <3>. QED
      BY <2>0, <3>1
  <2>2. ASSUME NEW i \in 1..Len(r), NEW j \in 1..Len(r), r[i] = r[j] PROVE i = j
    BY <2>1, <2>2
  <2>3. ASSUME NEW k \in 1..Len(r)
        PROVE  r[k] # e /\ \E i \in 1..Len(s) : r[k] = s[i]
    <3>1. CASE k < n
      BY <3>1, <2>1, <1>2
    <3>2. CASE ~(k < n)
      <4>1. r[k] = s[k + 1] /\ k + 1 \in 1..Len(s) /\ k + 1 # n
        BY <3>2, <2>1
      <4>. QED
        BY <4>1, <1>2
    <3>. QED
      BY <3>1, <3>2
  <2>4. ASSUME NEW i \in 1..Len(s), s[i] # e
        PROVE  \E k \in 1..Len(r) : r[k] = s[i]
    <3>1. CASE i < n
      BY <3>1, <2>1
    <3>2. CASE n < i
      <4>1. i - 1 \in 1..Len(r) /\ r[i - 1] = s[i]
        BY <3>2, <2>1
      <4>. QED
        BY <4>1
    <3>. QED
      BY <3>1, <3>2, <2>4, <1>2
  <2>. QED
    BY <2>1, <2>2, <2>3, <2>4
<1>. QED
  BY <1>1, <1>2, RemoveFirstIsAt

-----------------------------------------------------------------------------
(* The model slot.                                                         *)

Entered == {"queued", "gated", "working"}
Inside  == {"gated", "working"}

\* The queue holds each waiting call once, the slot is free only when nobody
\* waits, and who is past the queue holds it.
SlotInv ==
    /\ CallsOK
    /\ holder \in Calls \cup {NoCall} /\ waiters \in Seq(Calls)
    /\ holder = NoCall => Len(waiters) = 0
    /\ holder # NoCall => at[holder] \in Entered /\ NeedsSlot(holder)
    /\ \A i \in 1..Len(waiters) : waiters[i] # holder /\ at[waiters[i]] = "queued"
    /\ \A i, j \in 1..Len(waiters) : waiters[i] = waiters[j] => i = j
    /\ \A c \in Calls : at[c] = "queued" =>
          NeedsSlot(c) /\ (c = holder \/ \E i \in 1..Len(waiters) : waiters[i] = c)
    /\ \A c \in Calls : at[c] \in Inside /\ NeedsSlot(c) => c = holder

LEMMA SlotInit == Init => SlotInv
<1>. SUFFICES ASSUME Init PROVE SlotInv
  OBVIOUS
<1>1. waiters \in Seq(Calls) /\ Len(waiters) = 0
  BY DEF Init
<1>. QED
  BY <1>1, CallsInit DEF Init, SlotInv, Inside

\* Nobody comes to the slot or leaves it.
LEMMA SlotKept ==
    ASSUME SlotInv, CallsOK', UNCHANGED slot,
           \A c \in Calls : at[c] \in Entered \/ at'[c] \in Entered =>
              at'[c] = at[c] /\ taskOf'[c] = taskOf[c] /\ forced'[c] = forced[c]
    PROVE  SlotInv'
<1>1. \A c \in Calls : at[c] \in Entered => (NeedsSlot(c)' <=> NeedsSlot(c))
  BY DEF NeedsSlot
<1>2. \A i \in 1..Len(waiters) : waiters[i] \in Calls
  BY DEF SlotInv
<1>. QED
  BY <1>1, <1>2, ConstantsAssumption DEF SlotInv, slot, Entered, Inside

\* A call that is not behind the holder goes on.
LEMMA SlotPass ==
    ASSUME SlotInv, NEW c \in Calls,
           c = holder \/ (at[c] \in Inside \cup {"created"} /\ ~NeedsSlot(c)),
           NEW place \in Inside, at' = [at EXCEPT ![c] = place],
           UNCHANGED <<taskOf, forced, slot>>
    PROVE  SlotInv'
<1>1. at[c] \in Suspended /\ place \in Suspended
  BY ConstantsAssumption DEF SlotInv, Entered, Inside, Suspended
<1>2. CallsOK'
  BY <1>1, CallsMove DEF SlotInv
<1>3. \A d \in Calls : NeedsSlot(d)' <=> NeedsSlot(d)
  BY DEF NeedsSlot
<1>4. at \in [Calls -> Places]
  BY DEF SlotInv, CallsOK
<1>5. \A i \in 1..Len(waiters) : waiters[i] \in Calls /\ waiters[i] # c
  BY DEF SlotInv, Inside
<1>. QED
  BY <1>2, <1>3, <1>4, <1>5, ConstantsAssumption DEF SlotInv, slot, Entered, Inside

\* A call finds the slot free and takes it.
LEMMA SlotTake ==
    ASSUME SlotInv, NEW c \in Calls, at[c] = "created", NeedsSlot(c), holder = NoCall,
           NEW place \in Inside, at' = [at EXCEPT ![c] = place],
           holder' = c, UNCHANGED <<taskOf, forced, waiters>>
    PROVE  SlotInv'
<1>1. at[c] \in Suspended /\ place \in Suspended
  BY DEF Inside, Suspended
<1>2. CallsOK'
  BY <1>1, CallsMove DEF SlotInv
<1>3. \A d \in Calls : NeedsSlot(d)' <=> NeedsSlot(d)
  BY DEF NeedsSlot
<1>4. at \in [Calls -> Places]
  BY DEF SlotInv, CallsOK
<1>5. Len(waiters) = 0
  BY DEF SlotInv
<1>6. \A d \in Calls : at[d] # "queued" /\ (at[d] \in Inside => ~NeedsSlot(d))
  BY <1>5, ConstantsAssumption DEF SlotInv
<1>7. at'[c] \in Inside /\ \A d \in Calls \ {c} : at'[d] = at[d]
  BY <1>4
<1>. QED
  BY <1>2, <1>3, <1>5, <1>6, <1>7, ConstantsAssumption DEF SlotInv, Entered, Inside

\* A call queues.
LEMMA SlotQueue ==
    ASSUME SlotInv, NEW c \in Calls, at[c] = "created", NeedsSlot(c), holder # NoCall,
           at' = [at EXCEPT ![c] = "queued"], waiters' = Append(waiters, c),
           UNCHANGED <<taskOf, forced, holder>>
    PROVE  SlotInv'
<1>1. CallsOK'
  BY CallsMove DEF SlotInv, Suspended
<1>2. \A d \in Calls : NeedsSlot(d)' <=> NeedsSlot(d)
  BY DEF NeedsSlot
<1>3. at'[c] = "queued" /\ \A d \in Calls \ {c} : at'[d] = at[d]
  BY DEF SlotInv, CallsOK
<1>4. /\ waiters' \in Seq(Calls) /\ Len(waiters') = Len(waiters) + 1
      /\ waiters'[Len(waiters) + 1] = c
      /\ \A i \in 1..Len(waiters) : waiters'[i] = waiters[i]
  BY DEF SlotInv
<1>5. \A i \in 1..Len(waiters) : waiters[i] \in Calls \ {c}
  BY DEF SlotInv
<1>6. Len(waiters) \in Nat
  BY DEF SlotInv
<1>7. holder \in Calls \ {c} /\ at'[holder] = at[holder]
  BY <1>3 DEF SlotInv, Entered
<1>8. ASSUME NEW i \in 1..Len(waiters')
      PROVE  waiters'[i] # holder' /\ at'[waiters'[i]] = "queued"
  <2>1. CASE i = Len(waiters) + 1
    BY <2>1, <1>3, <1>4, <1>7
  <2>2. CASE i \in 1..Len(waiters)
    BY <2>2, <1>3, <1>4, <1>5 DEF SlotInv
  <2>. QED
    BY <2>1, <2>2, <1>4, <1>6
<1>9. ASSUME NEW i \in 1..Len(waiters'), NEW j \in 1..Len(waiters'),
             waiters'[i] = waiters'[j]
      PROVE  i = j
  <2>1. CASE i \in 1..Len(waiters) /\ j \in 1..Len(waiters)
    BY <2>1, <1>4, <1>9 DEF SlotInv
  <2>2. CASE i \notin 1..Len(waiters) \/ j \notin 1..Len(waiters)
    BY <2>2, <1>4, <1>5, <1>6, <1>9
  <2>. QED
    BY <2>1, <2>2
<1>10. ASSUME NEW d \in Calls, at'[d] = "queued"
       PROVE  NeedsSlot(d)' /\ (d = holder' \/ \E i \in 1..Len(waiters') : waiters'[i] = d)
  <2>1. CASE d = c
    BY <2>1, <1>2, <1>4, <1>6
  <2>2. CASE d # c
    <3>1. at[d] = "queued"
      BY <2>2, <1>3, <1>10
    <3>2. NeedsSlot(d) /\ (d = holder \/ \E i \in 1..Len(waiters) : waiters[i] = d)
      BY <3>1 DEF SlotInv
    <3>3. \A i \in 1..Len(waiters) : i \in 1..Len(waiters')
      BY <1>4, <1>6
    <3>. QED
      BY <3>2, <3>3, <1>2, <1>4
  <2>. QED
    BY <2>1, <2>2
<1>11. \A d \in Calls : at'[d] \in Inside /\ NeedsSlot(d)' => d = holder'
  BY <1>2, <1>3 DEF SlotInv, Inside
<1>12. at'[holder] \in Entered /\ NeedsSlot(holder)'
  <2>1. at[holder] \in Entered /\ NeedsSlot(holder)
    BY DEF SlotInv
  <2>. QED
    BY <2>1, <1>7 DEF NeedsSlot
<1>. QED
  BY <1>1, <1>4, <1>7, <1>8, <1>9, <1>10, <1>11, <1>12 DEF SlotInv

\* A call leaves: it was not there yet, or waits, or holds the slot and hands it
\* to the first that waits.
LEMMA SlotLeave ==
    ASSUME SlotInv, NEW c \in Calls, at[c] \in Suspended,
           NEW next \in Tasks \cup {NoTask}, NEW hs, Leave(c, hs, holder, next)
    PROVE  SlotInv'
<1>1. CallsOK'
  BY CallsLeave DEF SlotInv
<1>2. /\ at' = [at EXCEPT ![c] = IF next = NoTask THEN "idle" ELSE "chained"]
      /\ taskOf' = [taskOf EXCEPT ![c] = next]
      /\ forced' = [forced EXCEPT ![c] = FALSE]
      /\ LetGo(c, holder)
  BY DEF Leave
<1>3. /\ at'[c] \notin Entered
      /\ \A d \in Calls \ {c} : at'[d] = at[d] /\ (NeedsSlot(d)' <=> NeedsSlot(d))
  BY <1>2 DEF SlotInv, CallsOK, Entered, NeedsSlot
<1>4. \A k \in 1..Len(waiters) : waiters[k] \in Calls
  BY DEF SlotInv
<1>5. CASE holder # c /\ holder' = holder /\ waiters' = RemoveFirst(waiters, c)
  <2>1. PICK r : r = RemoveFirst(waiters, c)
    OBVIOUS
  <2>2. /\ r \in Seq(Calls)
        /\ \A i, j \in 1..Len(r) : r[i] = r[j] => i = j
        /\ \A k \in 1..Len(r) : r[k] # c /\ \E i \in 1..Len(waiters) : r[k] = waiters[i]
        /\ \A i \in 1..Len(waiters) : waiters[i] # c => \E k \in 1..Len(r) : r[k] = waiters[i]
    <3>1. waiters \in Seq(Calls) /\ \A i, j \in 1..Len(waiters) : waiters[i] = waiters[j] => i = j
      BY DEF SlotInv
    <3>. QED
      BY <2>1, <3>1, Removed
  <2>3. holder = NoCall => Len(r) = 0
    <3>1. holder = NoCall => \A k \in 1..Len(r) : FALSE
      BY <2>2 DEF SlotInv
    <3>2. Len(r) \in Nat
      BY <2>2
    <3>. QED
      BY <3>1, <3>2
  <2>4. holder # NoCall => at'[holder] \in Entered /\ NeedsSlot(holder)'
    <3>1. holder # NoCall => at[holder] \in Entered /\ NeedsSlot(holder) /\ holder \in Calls \ {c}
      BY <1>5 DEF SlotInv
    <3>. QED
      BY <3>1, <1>3, <1>5 DEF NeedsSlot
  <2>5. \A k \in 1..Len(r) : r[k] # holder /\ at'[r[k]] = "queued"
    BY <2>2, <1>3, <1>4 DEF SlotInv
  <2>6. ASSUME NEW d \in Calls, at'[d] = "queued"
        PROVE  NeedsSlot(d)' /\ (d = holder \/ \E k \in 1..Len(r) : r[k] = d)
    <3>1. d # c /\ at[d] = "queued"
      BY <2>6, <1>3 DEF Entered
    <3>2. NeedsSlot(d) /\ (d = holder \/ \E i \in 1..Len(waiters) : waiters[i] = d)
      BY <3>1 DEF SlotInv
    <3>. QED
      BY <3>1, <3>2, <2>2, <1>3
  <2>7. \A d \in Calls : at'[d] \in Inside /\ NeedsSlot(d)' => d = holder
    BY <1>3 DEF SlotInv, Entered, Inside
  <2>8. waiters' = r
    BY <2>1, <1>5
  <2>. QED
    BY <1>1, <1>5, <2>2, <2>3, <2>4, <2>5, <2>6, <2>7, <2>8 DEF SlotInv
<1>6. CASE holder = c /\ waiters = << >> /\ holder' = NoCall /\ waiters' = waiters
  <2>1. Len(waiters) = 0 /\ waiters' \in Seq(Calls)
    BY <1>6
  <2>2. \A d \in Calls : at'[d] # "queued" /\ (at'[d] \in Inside => ~NeedsSlot(d)')
    BY <2>1, <1>3, <1>6 DEF SlotInv, Entered, Inside
  <2>. QED
    BY <1>1, <1>6, <2>1, <2>2 DEF SlotInv
<1>7. CASE /\ holder = c /\ waiters # << >>
           /\ holder' = Head(waiters) /\ waiters' = Tail(waiters)
  <2>1. /\ waiters \in Seq(Calls) /\ Len(waiters) \in Nat \ {0}
        /\ holder' = waiters[1] /\ 1 \in 1..Len(waiters)
        /\ waiters' \in Seq(Calls) /\ Len(waiters') = Len(waiters) - 1
        /\ \A k \in 1..Len(waiters') : waiters'[k] = waiters[k + 1]
    BY <1>7 DEF SlotInv
  <2>2. \A k \in 1..Len(waiters') : k + 1 \in 1..Len(waiters) /\ k + 1 # 1
    BY <2>1
  <2>3. holder' \in Calls \ {c} /\ at[waiters[1]] = "queued"
    BY <2>1, <1>4, <1>7 DEF SlotInv
  <2>4. at'[waiters[1]] \in Entered /\ NeedsSlot(holder)'
    <3>1. NeedsSlot(waiters[1]) /\ waiters[1] \in Calls \ {c}
      BY <2>1, <2>3 DEF SlotInv
    <3>. QED
      BY <3>1, <2>1, <2>3, <1>3 DEF Entered, NeedsSlot
  <2>5. \A k \in 1..Len(waiters') : waiters'[k] # holder' /\ at'[waiters'[k]] = "queued"
    BY <2>1, <2>2, <1>3, <1>4, <1>7 DEF SlotInv
  <2>6. ASSUME NEW i \in 1..Len(waiters'), NEW j \in 1..Len(waiters'),
               waiters'[i] = waiters'[j]
        PROVE  i = j
    <3>1. waiters[i + 1] = waiters[j + 1]
      BY <2>1, <2>6
    <3>2. i + 1 = j + 1
      BY <3>1, <2>2 DEF SlotInv
    <3>. QED
      BY <3>2
  <2>7. ASSUME NEW d \in Calls, at'[d] = "queued"
        PROVE  NeedsSlot(d)' /\ (d = holder' \/ \E k \in 1..Len(waiters') : waiters'[k] = d)
    <3>1. d # c /\ at[d] = "queued"
      BY <2>7, <1>3 DEF Entered
    <3>2. PICK i \in 1..Len(waiters) : waiters[i] = d
      BY <3>1, <1>7 DEF SlotInv
    <3>3. NeedsSlot(d)'
      BY <3>1, <1>3 DEF SlotInv
    <3>4. CASE i = 1
      BY <3>2, <3>3, <3>4, <2>1
    <3>5. CASE i # 1
      <4>1. i - 1 \in 1..Len(waiters') /\ (i - 1) + 1 = i
        BY <3>5, <2>1
      <4>2. waiters'[i - 1] = d
        BY <4>1, <2>1, <3>2
      <4>. QED
        BY <4>1, <4>2, <3>3
    <3>. QED
      BY <3>4, <3>5
  <2>8. \A d \in Calls : at'[d] \in Inside => ~NeedsSlot(d)'
    BY <1>3, <1>7 DEF SlotInv, Entered, Inside
  <2>9. holder' # NoCall
    BY <2>3, ConstantsAssumption
  <2>. QED
    BY <1>1, <2>1, <2>3, <2>4, <2>5, <2>6, <2>7, <2>8, <2>9 DEF SlotInv
<1>. QED
  BY <1>2, <1>5, <1>6, <1>7 DEF LetGo

\* A call finds the slot free, and its task no longer active.
LEMMA SlotBrief ==
    ASSUME SlotInv, NEW c \in Calls, at[c] = "created", holder = NoCall,
           NEW hs, Leave(c, hs, c, NoTask)
    PROVE  SlotInv'
<1>1. CallsOK' /\ at' = [at EXCEPT ![c] = "idle"] /\ LetGo(c, c)
  BY CallsLeave DEF Leave, SlotInv, Suspended
<1>2. waiters = << >>
  BY DEF SlotInv
<1>3. UNCHANGED slot
  BY <1>1, <1>2 DEF LetGo, slot
<1>4. ASSUME NEW d \in Calls, at[d] \in Entered \/ at'[d] \in Entered
      PROVE  at'[d] = at[d] /\ taskOf'[d] = taskOf[d] /\ forced'[d] = forced[d]
  <2>1. at \in [Calls -> Places]
    BY DEF SlotInv, CallsOK
  <2>2. d # c
    BY <1>1, <1>4, <2>1 DEF Entered
  <2>3. at'[d] = at[d]
    BY <1>1, <2>1, <2>2
  <2>4. taskOf'[d] = taskOf[d]
    BY <2>2 DEF Leave, SlotInv, CallsOK
  <2>5. forced'[d] = forced[d]
    BY <2>2 DEF Leave, SlotInv, CallsOK
  <2>. QED
    BY <2>3, <2>4, <2>5
<1>. QED
  BY <1>1, <1>3, <1>4, SlotKept

\* The part of Begin() and Acquired() behind the slot.
LEMMA SlotEnter ==
    ASSUME SlotInv, NEW c \in Calls, at[c] \in Suspended,
           c = holder \/ (at[c] = "created" /\ ~NeedsSlot(c)),
           NEW r, NEW hs, Enter(c, r, hs, holder)
    PROVE  SlotInv'
<1>1. CASE Leave(c, hs, holder, NoTask)
  BY <1>1, SlotLeave
<1>2. CASE /\ at' = [at EXCEPT ![c] = "gated"]
           /\ holder' = holder /\ UNCHANGED <<taskOf, forced, waiters>>
  BY <1>2, SlotPass DEF Inside, slot
<1>3. CASE Start(c, hs, holder) /\ UNCHANGED waiters
  BY <1>3, SlotPass DEF Start, Inside, slot
<1>. QED
  BY <1>1, <1>2, <1>3 DEF Enter

LEMMA SlotBegin ==
    ASSUME SlotInv, NEW c \in Calls, NEW r, Begin(c, r)
    PROVE  SlotInv'
<1>1. PICK hs : \/ ~NeedsSlot(c) /\ Enter(c, r, hs, holder)
                \/ /\ NeedsSlot(c) /\ holder = NoCall
                   /\ Enter(c, r, hs, c)
                \/ /\ NeedsSlot(c) /\ holder # NoCall
                   /\ at' = [at EXCEPT ![c] = "queued"]
                   /\ waiters' = Append(waiters, c)
                   /\ UNCHANGED <<taskOf, forced, holder>>
  BY DEF Begin
<1>2. at[c] = "created" /\ at[c] \in Suspended
  BY DEF Begin, Suspended
<1>3. CASE ~NeedsSlot(c) /\ Enter(c, r, hs, holder)
  BY <1>2, <1>3, SlotEnter
<1>4. CASE NeedsSlot(c) /\ holder = NoCall /\ Enter(c, r, hs, c)
  <2>1. CASE Leave(c, hs, c, NoTask)
    BY <2>1, <1>2, <1>4, SlotBrief
  <2>2. CASE /\ at' = [at EXCEPT ![c] = "gated"]
             /\ holder' = c /\ UNCHANGED <<taskOf, forced, waiters>>
    BY <2>2, <1>2, <1>4, SlotTake DEF Inside
  <2>3. CASE Start(c, hs, c) /\ UNCHANGED waiters
    BY <2>3, <1>2, <1>4, SlotTake DEF Start, Inside
  <2>. QED
    BY <2>1, <2>2, <2>3, <1>4 DEF Enter
<1>5. CASE /\ NeedsSlot(c) /\ holder # NoCall
           /\ at' = [at EXCEPT ![c] = "queued"]
           /\ waiters' = Append(waiters, c)
           /\ UNCHANGED <<taskOf, forced, holder>>
  BY <1>2, <1>5, SlotQueue
<1>. QED
  BY <1>1, <1>3, <1>4, <1>5

LEMMA SlotStep ==
    ASSUME SlotInv, NEW c \in Calls, CallStep(c) \/ WorkEnds(c)
    PROVE  SlotInv'
<1>1. CASE Begin(c, "queued")
  BY <1>1, SlotBegin
<1>2. CASE Acquired(c)
  BY <1>2, SlotEnter DEF Acquired, Suspended
<1>3. CASE Quiet(c)
  <2>1. c = holder \/ (at[c] \in Inside \cup {"created"} /\ ~NeedsSlot(c))
    BY <1>3 DEF Quiet, SlotInv, Inside
  <2>. QED
    BY <1>3, <2>1, SlotPass DEF Quiet, Start, Inside, slot
<1>4. CASE Abandon(c)
  BY <1>4, SlotLeave DEF Abandon, Suspended
<1>5. CASE Unwound(c) \/ WorkEnds(c)
  <2>1. PICK next \in {NoTask, Child} : \E n : Over(c, n, next)
    BY <1>5 DEF WorkEnds, Result, Noop, Defer, Raise, Unwound
  <2>2. Child \in Tasks
    BY ConstantsAssumption
  <2>. QED
    BY <2>1, <2>2, SlotLeave DEF Over, Suspended
<1>6. CASE RunChained(c)
  <2>1. \A d \in Calls : at[d] \in Entered \/ at'[d] \in Entered =>
           at'[d] = at[d] /\ taskOf'[d] = taskOf[d] /\ forced'[d] = forced[d]
    BY <1>6 DEF RunChained, SlotInv, CallsOK, Entered
  <2>2. CallsOK' /\ UNCHANGED slot
    BY <1>6, CallsStep DEF CallStep, SlotInv, RunChained, slot
  <2>. QED
    BY <2>1, <2>2, SlotKept
<1>. QED
  BY <1>1, <1>2, <1>3, <1>4, <1>5, <1>6 DEF CallStep

LEMMA SlotNext == SlotInv /\ [Next]_vars => SlotInv'
<1>. SUFFICES ASSUME SlotInv, [Next]_vars PROVE SlotInv'
  OBVIOUS
<1>. CallsOK /\ CallsOK'
  BY CallsNext DEF SlotInv
<1>1. CASE UNCHANGED <<at, taskOf, forced, slot>>
  BY <1>1, SlotKept
<1>2. ASSUME NEW t \in Tasks, RunNow(t) \/ ForceRun(t) \/ Event(t) PROVE SlotInv'
  <2>1. CASE \E c \in Calls, force \in BOOLEAN : Create(c, t, force) /\ UNCHANGED slot
    <3>1. PICK c \in Calls : \E force \in BOOLEAN : Create(c, t, force) /\ UNCHANGED slot
      BY <2>1
    <3>2. \A d \in Calls : at[d] \in Entered \/ at'[d] \in Entered =>
             at'[d] = at[d] /\ taskOf'[d] = taskOf[d] /\ forced'[d] = forced[d]
      BY <3>1 DEF Create, Free, CallsOK, Entered
    <3>. QED
      BY <3>1, <3>2, SlotKept
  <2>. QED
    BY <1>1, <1>2, <2>1 DEF RunNow, ForceRun, Event, Dispatch, slot
<1>3. ASSUME NEW D \in SUBSET Tasks, Poll(D) PROVE SlotInv'
  <2>1. \A d \in Calls : at[d] \in Entered \/ at'[d] \in Entered =>
           at'[d] = at[d] /\ taskOf'[d] = taskOf[d] /\ forced'[d] = forced[d]
    BY <1>3 DEF Poll, Free, CallsOK, Entered
  <2>. QED
    BY <1>3, <2>1, SlotKept DEF Poll
<1>4. ASSUME NEW c \in Calls, CallStep(c) \/ WorkEnds(c) PROVE SlotInv'
  BY <1>4, SlotStep
<1>5. CASE Crash
  <2>1. holder' = NoCall /\ waiters' \in Seq(Calls) /\ Len(waiters') = 0
    BY <1>5 DEF Crash
  <2>2. \A c \in Calls : at'[c] = "idle"
    BY <1>5 DEF Crash
  <2>. QED
    BY <2>1, <2>2 DEF SlotInv, Inside
<1>6. ASSUME NEW c \in Calls, FaultStep(c) PROVE SlotInv'
  <2>1. CASE Begin(c, "over")
    BY <2>1, SlotBegin
  <2>2. CASE at[c] \in Suspended /\ \E hs, r, n : Breaks(c, hs, r, n)
    BY <2>2, SlotLeave DEF Breaks
  <2>. QED
    BY <1>6, <2>1, <2>2, BrokenLeaves DEF FaultStep
<1>7. CASE Restart \/ RestartFails
  BY <1>1, <1>7 DEF Restart, RestartFails, StartUp, calls
<1>. QED
  BY <1>1, <1>2, <1>3, <1>4, <1>5, <1>6, <1>7
  DEF Next, vars, state, calls, StopTask, PauseTask, ResumeTask, TimePasses,
      PutOff, ForegroundHits, StopBackground, Foreground

-----------------------------------------------------------------------------
(* Types.                                                                  *)

FormInv ==
    /\ CallsOK
    /\ status \in [Tasks -> {"active", "paused", "completed"}]
    /\ nextRun \in [Tasks -> {"none", "future", "past"}]
    /\ row \in [Calls -> Open \cup {"over"}]
    /\ stray \subseteq Tasks \X Open
    /\ up \in BOOLEAN /\ busy \in BOOLEAN /\ faulted \in BOOLEAN
    /\ executing \subseteq Tasks
    /\ handle \in [Tasks -> Calls \cup {NoCall}]
    /\ cancel \in [Calls -> {"no", "user", "foreground", "hit"}]
    /\ blank \in [Calls -> BOOLEAN]
    /\ owed \in [Tasks -> BOOLEAN] /\ stopped \subseteq Tasks
    /\ env \in Envs

LEMMA FormInit == Init => FormInv
<1>. SUFFICES ASSUME Init PROVE FormInv
  OBVIOUS
<1>1. nextRun \in [Tasks -> {"none", "future", "past"}]
  BY DEF Init
<1>2. handle \in [Tasks -> Calls \cup {NoCall}] /\ row \in [Calls -> Open \cup {"over"}]
  BY DEF Init, Open
<1>. QED
  BY <1>1, <1>2, CallsInit DEF Init, FormInv

LEMMA FormLeave ==
    ASSUME FormInv, NEW c \in Calls, NEW hs \in [Tasks -> Calls \cup {NoCall}],
           NEW h, NEW next \in Tasks \cup {NoTask}, Leave(c, hs, h, next)
    PROVE  /\ executing' \subseteq Tasks /\ stopped' \subseteq Tasks
           /\ handle' \in [Tasks -> Calls \cup {NoCall}]
           /\ cancel' \in [Calls -> {"no", "user", "foreground", "hit"}]
           /\ blank' \in [Calls -> BOOLEAN]
BY DEF FormInv, Leave

LEMMA FormEnter ==
    ASSUME FormInv, NEW c \in Calls, at[c] \in Suspended, NEW r \in Open \cup {"over"},
           NEW hs \in [Tasks -> Calls \cup {NoCall}], NEW h, Enter(c, r, hs, h),
           UNCHANGED <<status, nextRun, stray, up, busy, env>>, faulted' \in BOOLEAN
    PROVE  FormInv'
<1>. CallsOK'
  BY CallsEnter DEF FormInv
<1>1. CASE Leave(c, hs, h, NoTask) /\ row' = [row EXCEPT ![c] = Skipped(r)] /\ UNCHANGED owed
  BY <1>1, FormLeave DEF FormInv, Skipped, Open
<1>2. CASE /\ row' = [row EXCEPT ![c] = r] /\ handle' = hs
           /\ UNCHANGED <<executing, cancel, blank, history>>
  BY <1>2 DEF FormInv, Open, history
<1>3. CASE Start(c, hs, h)
  <2>1. blank' \in [Calls -> BOOLEAN]
    BY <1>3 DEF FormInv, Start
  <2>2. owed' \in [Tasks -> BOOLEAN]
    BY <1>3 DEF FormInv, Start
  <2>. QED
    BY <1>3, <2>1, <2>2 DEF FormInv, Start, Open
<1>. QED
  BY <1>1, <1>2, <1>3 DEF Enter

LEMMA FormOver ==
    ASSUME FormInv, NEW c \in Calls, NEW n \in {"none", "future", "past"},
           NEW next \in {NoTask, Child}, Over(c, n, next), CallsOK',
           status' \in [Tasks -> {"active", "paused", "completed"}], UNCHANGED <<env, faulted>>
    PROVE  FormInv'
<1>1. Child \in Tasks
  BY ConstantsAssumption
<1>2. /\ Leave(c, handle, holder, next) /\ row' = [row EXCEPT ![c] = "over"]
      /\ nextRun' = [nextRun EXCEPT ![taskOf[c]] = n] /\ UNCHANGED <<stray, up, busy, owed>>
  BY DEF Over
<1>3. /\ executing' \subseteq Tasks /\ stopped' \subseteq Tasks
      /\ handle' \in [Tasks -> Calls \cup {NoCall}]
      /\ cancel' \in [Calls -> {"no", "user", "foreground", "hit"}]
      /\ blank' \in [Calls -> BOOLEAN]
  BY <1>1, <1>2, FormLeave DEF FormInv
<1>. QED
  BY <1>2, <1>3 DEF FormInv, Open

LEMMA FormBegin ==
    ASSUME FormInv, NEW c \in Calls, NEW r \in Open \cup {"over"}, Begin(c, r),
           UNCHANGED env, faulted' \in BOOLEAN
    PROVE  FormInv'
<1>. CallsOK'
  BY CallsBegin DEF FormInv
<1>1. PICK hs : /\ hs = Registered(c)
                /\ \/ \E h : Enter(c, r, hs, h)
                   \/ /\ row' = [row EXCEPT ![c] = r] /\ handle' = hs
                      /\ UNCHANGED <<executing, cancel, blank, history>>
  BY DEF Begin
<1>2. hs \in [Tasks -> Calls \cup {NoCall}]
  BY <1>1 DEF FormInv, Registered
<1>3. at[c] \in Suspended /\ UNCHANGED <<status, nextRun, stray, up, busy>>
  BY DEF Begin, Suspended
<1>4. CASE \E h : Enter(c, r, hs, h)
  BY <1>2, <1>3, <1>4, FormEnter
<1>5. CASE /\ row' = [row EXCEPT ![c] = r] /\ handle' = hs
           /\ UNCHANGED <<executing, cancel, blank, history>>
  BY <1>2, <1>3, <1>5 DEF FormInv, history, Open
<1>. QED
  BY <1>1, <1>4, <1>5

LEMMA FormStep ==
    ASSUME FormInv, NEW c \in Calls, CallStep(c) \/ WorkEnds(c), UNCHANGED <<env, faulted>>
    PROVE  FormInv'
<1>. CallsOK' /\ faulted \in BOOLEAN
  BY CallsStep, CallsOver DEF FormInv
<1>1. CASE Begin(c, "queued")
  BY <1>1, FormBegin DEF Open
<1>2. CASE Acquired(c)
  BY <1>2, FormEnter DEF Acquired, Suspended, FormInv
<1>3. CASE Quiet(c)
  <2>1. blank' \in [Calls -> BOOLEAN] /\ owed' \in [Tasks -> BOOLEAN]
    BY <1>3 DEF FormInv, Quiet, Start
  <2>. QED
    BY <1>3, <2>1 DEF FormInv, Quiet, Start, Open
<1>4. CASE Abandon(c)
  <2>1. /\ Leave(c, handle, holder, NoTask) /\ row' = [row EXCEPT ![c] = "over"]
        /\ nextRun' = Deferred(taskOf[c]) /\ UNCHANGED <<status, stray, up, busy, owed>>
    BY <1>4 DEF Abandon
  <2>2. /\ executing' \subseteq Tasks /\ stopped' \subseteq Tasks
        /\ handle' \in [Tasks -> Calls \cup {NoCall}]
        /\ cancel' \in [Calls -> {"no", "user", "foreground", "hit"}]
        /\ blank' \in [Calls -> BOOLEAN]
    BY <2>1, FormLeave DEF FormInv
  <2>3. nextRun' \in [Tasks -> {"none", "future", "past"}]
    BY <2>1 DEF Deferred, FormInv
  <2>. QED
    BY <2>1, <2>2, <2>3 DEF FormInv, Open
<1>5. CASE Unwound(c) \/ WorkEnds(c)
  <2>0. taskOf[c] \in Tasks
    BY <1>5, CallsOver DEF FormInv, CallsOK
  <2>1. PICK n : \E next : /\ n \in {"none", "future", "past"}
                           /\ next \in {NoTask, Child} /\ Over(c, n, next)
    BY <1>5, <2>0 DEF WorkEnds, Result, Noop, Defer, Raise, Unwound, Advanced, After, FormInv
  <2>2. PICK next \in {NoTask, Child} : Over(c, n, next)
    BY <2>1
  <2>3. status' \in [Tasks -> {"active", "paused", "completed"}]
    <3>1. CASE Result(c)
      BY <3>1 DEF Result, FormInv
    <3>2. CASE UNCHANGED status
      BY <3>2 DEF FormInv
    <3>. QED
      BY <3>1, <3>2, <1>5 DEF WorkEnds, Noop, Defer, Raise, Unwound
  <2>. QED
    BY <2>1, <2>2, <2>3, FormOver
<1>6. CASE RunChained(c)
  <2>1. executing' \subseteq Tasks
    BY <1>6 DEF RunChained, FormInv, CallsOK
  <2>. QED
    BY <1>6, <2>1 DEF RunChained, FormInv, db, history
<1>. QED
  BY <1>1, <1>2, <1>3, <1>4, <1>5, <1>6 DEF CallStep

LEMMA FormAborted ==
    ASSUME FormInv, NEW T, MarkAborted(T)
    PROVE  row' \in [Calls -> Open \cup {"over"}] /\ stray' \subseteq stray
BY DEF FormInv, MarkAborted

LEMMA FormFault ==
    ASSUME FormInv, NEW c \in Calls, FaultStep(c), UNCHANGED env, faulted' = TRUE
    PROVE  FormInv'
<1>1. CASE Begin(c, "over")
  BY <1>1, FormBegin
<1>2. CASE BreaksEarly(c) \/ BreaksAbandoned(c) \/ BreaksAtWork(c)
  <2>. CallsOK' /\ CallsOK /\ nextRun \in [Tasks -> Times]
    BY CallsFault DEF FormInv, Times
  <2>1. taskOf[c] \in Tasks
    BY <1>2, Broken
  <2>2. PICK hs \in {handle, Registered(c)}, n \in Times : \E r : Breaks(c, hs, r, n)
    BY <1>2, Broken
  <2>3. hs \in [Tasks -> Calls \cup {NoCall}]
    BY <2>1 DEF FormInv, Registered
  <2>4. /\ row' = [row EXCEPT ![c] = "over"]
        /\ nextRun' = [nextRun EXCEPT ![taskOf[c]] = n]
        /\ Leave(c, hs, holder, NoTask)
        /\ UNCHANGED <<status, up, busy, owed>>
    BY <2>2 DEF Breaks
  <2>5. stray' \subseteq Tasks \X Open
    BY <2>2 DEF Breaks, FormInv
  <2>6. /\ executing' \subseteq Tasks /\ stopped' \subseteq Tasks
        /\ handle' \in [Tasks -> Calls \cup {NoCall}]
        /\ cancel' \in [Calls -> {"no", "user", "foreground", "hit"}]
        /\ blank' \in [Calls -> BOOLEAN]
    BY <2>3, <2>4, FormLeave
  <2>7. nextRun' \in [Tasks -> {"none", "future", "past"}]
    BY <2>4 DEF Times
  <2>8. row' \in [Calls -> Open \cup {"over"}]
    BY <2>4 DEF FormInv
  <2>. QED
    BY <2>4, <2>5, <2>6, <2>7, <2>8 DEF FormInv
<1>. QED
  BY <1>1, <1>2 DEF FaultStep

LEMMA FormNext == FormInv /\ [Next]_vars => FormInv'
<1>. SUFFICES ASSUME FormInv, [Next]_vars PROVE FormInv'
  OBVIOUS
<1>. CallsOK' /\ UNCHANGED env /\ faulted' \in BOOLEAN
  BY CallsNext DEF FormInv, Next, vars
<1>1. ASSUME NEW t \in Tasks, RunNow(t) \/ ForceRun(t) PROVE FormInv'
  BY <1>1 DEF RunNow, ForceRun, Dispatch, FormInv, db, history, registry
<1>2. ASSUME NEW t \in Tasks, Event(t) PROVE FormInv'
  <2>1. owed' \in [Tasks -> BOOLEAN]
    <3>1. (owed[t] \/ ~Working(t)) \in BOOLEAN
      BY DEF FormInv
    <3>. QED
      BY <1>2, <3>1 DEF Event, FormInv
  <2>2. nextRun' \in [Tasks -> {"none", "future", "past"}]
    BY <1>2 DEF Event, Trigger, FormInv
  <2>3. executing' \subseteq Tasks
    BY <1>2 DEF Event, Dispatch, FormInv
  <2>. QED
    BY <1>2, <2>1, <2>2, <2>3 DEF Event, FormInv
<1>3. ASSUME NEW t \in Tasks, StopTask(t) PROVE FormInv'
  <2>1. row' \in [Calls -> Open \cup {"over"}] /\ stray' \subseteq stray
    BY <1>3, FormAborted DEF StopTask
  <2>2. cancel' \in [Calls -> {"no", "user", "foreground", "hit"}]
    BY <1>3 DEF StopTask, FormInv
  <2>. QED
    BY <1>3, <2>1, <2>2 DEF StopTask, FormInv
<1>4. ASSUME NEW t \in Tasks, PauseTask(t) PROVE FormInv'
  BY <1>4 DEF PauseTask, FormInv, registry, calls, history
<1>5. ASSUME NEW t \in Tasks, ResumeTask(t) PROVE FormInv'
  <2>1. PICK n \in {"none", "future", "past"} : nextRun' = [nextRun EXCEPT ![t] = n]
    BY <1>5 DEF ResumeTask, FormInv
  <2>. QED
    BY <1>5, <2>1 DEF ResumeTask, FormInv, registry, calls, history
<1>6. ASSUME NEW t \in Tasks, TimePasses(t) PROVE FormInv'
  BY <1>6 DEF TimePasses, FormInv, registry, calls, history
<1>7. CASE PutOff
  BY <1>7 DEF PutOff, FormInv, registry, calls, history
<1>8. ASSUME NEW D \in SUBSET Tasks, Poll(D) PROVE FormInv'
  BY <1>8 DEF Poll, FormInv, db, history
<1>9. ASSUME NEW c \in Calls, CallStep(c) \/ WorkEnds(c), UNCHANGED faulted PROVE FormInv'
  BY <1>9, FormStep
<1>10. ASSUME NEW c \in Calls, ForegroundHits(c) PROVE FormInv'
  BY <1>10 DEF ForegroundHits, FormInv, db, registry, history
<1>11. CASE StopBackground
  <2>1. row' \in [Calls -> Open \cup {"over"}] /\ stray' \subseteq stray
    BY <1>11, FormAborted DEF StopBackground
  <2>2. cancel' \in [Calls -> {"no", "user", "foreground", "hit"}]
    BY <1>11 DEF StopBackground, FormInv
  <2>. QED
    BY <1>11, <2>1, <2>2 DEF StopBackground, FormInv, registry, history
<1>12. CASE Foreground
  BY <1>12 DEF Foreground, FormInv, db, registry, calls, history
<1>13. CASE Crash
  <2>1. stray' \subseteq Tasks \X Open
    BY <1>13 DEF Crash, FormInv
  <2>. QED
    BY <1>13, <2>1 DEF Crash, FormInv
<1>14. CASE Restart \/ RestartFails
  <2>1. /\ up' = TRUE /\ stray' \in {stray, {}} /\ nextRun' \in {nextRun, PutOffAll}
        /\ UNCHANGED <<status, row, registry, calls, slot, busy, history>>
    BY <1>14 DEF Restart, RestartFails, StartUp
  <2>2. nextRun' \in [Tasks -> {"none", "future", "past"}]
    BY <2>1 DEF PutOffAll, FormInv
  <2>. QED
    BY <2>1, <2>2 DEF FormInv, registry, calls, history
<1>15. CASE UNCHANGED vars
  BY <1>15 DEF vars, state, FormInv, db, registry, calls, history
<1>16. ASSUME NEW c \in Calls, FaultStep(c), faulted' = TRUE PROVE FormInv'
  BY <1>16, FormFault
<1>. QED
  BY <1>1, <1>2, <1>3, <1>4, <1>5, <1>6, <1>7, <1>8, <1>9, <1>10, <1>11, <1>12,
     <1>13, <1>14, <1>15, <1>16 DEF Next

\* Every variable keeps its type; a call in the queue of the model slot waits
\* there, and whoever holds the slot has begun (task_scheduler.py:762-800).
THEOREM SchedulerTypes == Spec => []TypeOK
<1>1. FormInv /\ SlotInv => TypeOK
  BY ConstantsAssumption DEF FormInv, SlotInv, CallsOK, TypeOK, Places, Suspended, Entered
<1>. QED
  BY FormInit, FormNext, SlotInit, SlotNext, <1>1, PTL DEF Spec

\* Of the runs that need the model slot one at most is past its queue, and each
\* waiting run waits for a slot that will be handed to it
\* (task_scheduler.py:_run_semaphore).
THEOREM SlotIsExclusive == Spec => []OneModelRun
<1>1. SlotInv => OneModelRun
  <2>. SUFFICES ASSUME SlotInv PROVE OneModelRun
    OBVIOUS
  <2>1. \A c, d \in Calls : {at[c], at[d]} \subseteq Inside /\ NeedsSlot(c) /\ NeedsSlot(d) => c = d
    BY DEF SlotInv
  <2>2. \A i \in 1..Len(waiters) : waiters[i] \in Range(waiters)
    BY DEF Range, SlotInv
  <2>3. ASSUME NEW c \in Calls, at[c] = "queued"
        PROVE  holder # NoCall /\ c \in {holder} \cup Range(waiters)
    <3>1. c = holder \/ \E i \in 1..Len(waiters) : waiters[i] = c
      BY <2>3 DEF SlotInv
    <3>2. holder = NoCall => \A i \in 1..Len(waiters) : FALSE
      BY DEF SlotInv
    <3>. QED
      BY <3>1, <3>2, <2>2, ConstantsAssumption
  <2>. QED
    BY <2>1, <2>3 DEF OneModelRun, Inside
<1>. QED
  BY SlotInit, SlotNext, <1>1, PTL DEF Spec
=============================================================================
