-------------------------- MODULE AgentStreamProofs --------------------------
(***************************************************************************)
(* Proofs about AgentRuns: the life of a run, its grace timer, and what a  *)
(* client is given of a stream, for every number of sessions, clients,     *)
(* runs and events.                                                        *)
(***************************************************************************)
EXTENDS AgentRunsProofs

-----------------------------------------------------------------------------
(* The life of a run.  What a run is announced as and where its task is    *)
(* suspended are two things; this is how they go together.                 *)

\* The task has yet to deliver a cancellation or to end its stream.
Open(r) == task[r] \in {"created", "waiting", "streaming"}

Life(r) ==
    /\ r <= started <=> status[r] # "unborn"
    /\ status[r] = "unborn" <=> task[r] = "none"
    /\ status[r] = "unborn" => ~cancelled[r]
    /\ status[r] \in {"done", "error"} => task[r] = "finished"
    /\ task[r] = "finished" => IsOver(r)
    /\ task[r] = "shielding" => status[r] = "stopped"
    /\ IsOver(r) /\ Open(r) => cancelled[r]
    /\ task[r] = "created" /\ cancelled[r] =>
          IsOver(r) /\ \A s \in Sessions : registered[s] # r

LifeInv == \A r \in RunIds : Life(r)

Base == TypeInv /\ BarrierInv /\ LifeInv

LEMMA InitLife == Init => LifeInv
BY DEF Init, LifeInv, Life, IsOver, Open, Terminal, RunIds

\* A run that is registered has a session, and no other session has it.
LEMMA RegisteredOnce ==
    ASSUME TypeInv, BarrierInv, NEW s \in Sessions, registered[s] # NoRun
    PROVE  /\ registered[s] \in RunIds /\ registered[s] <= started
           /\ sessionOf[registered[s]] = s
           /\ \A t \in Sessions : registered[t] = registered[s] => t = s
BY DEF TypeInv, TypeOK, RegisteredStarted, RunIds, NoRun, BarrierInv, Newest

LEMMA StartLife ==
    ASSUME Base, NEW s \in Sessions, NEW c \in Clients, Start(s, c)
    PROVE  LifeInv'
<1>0. PICK r \in RunIds : r = started + 1
  BY ConstantsAssumption DEF Base, TypeInv, TypeOK, Start, RunIds
<1>1. /\ started' = r /\ registered' = [registered EXCEPT ![s] = r]
      /\ task' = [task EXCEPT ![r] = "created"]
      /\ \A x \in RunIds :
            /\ status'[x] = IF x = r THEN "running"
                            ELSE IF x \in InFlight(s) /\ status[x] = "running" THEN "stopped"
                            ELSE status[x]
            /\ cancelled'[x] <=> cancelled[x] \/ x \in InFlight(s)
  BY <1>0 DEF Start, Base, TypeInv, TypeOK
<1>2. started \in Nat /\ r \in Nat /\ ~(r <= started)
  BY <1>0 DEF Base, TypeInv, TypeOK
<1>3. status[r] = "unborn" /\ task[r] = "none" /\ ~cancelled[r]
  BY <1>2 DEF Base, LifeInv, Life
<1>4. \A x \in InFlight(s) : x \in RunIds /\ x # r /\ registered[s] = x /\ task[x] # "finished"
  BY <1>2 DEF InFlight, Base, TypeInv, TypeOK, RegisteredStarted
<1>5. Life(r)'
  <2>1. /\ status'[r] = "running" /\ task'[r] = "created" /\ ~cancelled'[r]
        /\ r <= started'
    BY <1>1, <1>2, <1>3, <1>4 DEF Base, TypeInv, TypeOK
  <2>. QED
    BY <2>1 DEF Life, IsOver, Terminal
<1>6. ASSUME NEW x \in RunIds, x # r PROVE Life(x)'
  <2>1. /\ task'[x] = task[x] /\ (x <= started' <=> x <= started)
        /\ Life(x) /\ x \in Nat
    BY <1>0, <1>1, <1>2, <1>6 DEF Base, LifeInv, TypeInv, TypeOK, RunIds
  <2>2. \A t \in Sessions : registered'[t] = x => registered[t] = x /\ t # s
    BY <1>1, <1>6 DEF Base, TypeInv, TypeOK
  <2>3. CASE x \notin InFlight(s)
    <3>1. status'[x] = status[x] /\ (cancelled'[x] <=> cancelled[x])
      BY <1>1, <1>6, <2>3
    <3>. QED
      BY <2>1, <2>2, <3>1 DEF Life, IsOver, Open
  <2>4. CASE x \in InFlight(s)
    <3>1. /\ registered[s] = x /\ task[x] # "finished" /\ cancelled'[x]
          /\ status'[x] = IF status[x] = "running" THEN "stopped" ELSE status[x]
      BY <1>1, <1>4, <1>6, <2>4
    <3>2. \A t \in Sessions : registered[t] = x => t = s
      BY <3>1, RegisteredOnce DEF Base, NoRun, RunIds
    <3>3. status[x] # "unborn" /\ task[x] # "none"
      BY <3>1, <1>0, <1>2, <2>1 DEF Base, Life, TypeInv, RegisteredStarted
    <3>. QED
      BY <2>1, <2>2, <3>1, <3>2, <3>3 DEF Life, IsOver, Open, Terminal, Base, TypeInv, TypeOK
  <2>. QED
    BY <2>3, <2>4
<1>. QED
  BY <1>5, <1>6 DEF LifeInv

LEMMA StopLife ==
    ASSUME Base, NEW s \in Sessions, Stop(s)
    PROVE  LifeInv'
<1>1. PICK r \in InFlight(s) : task[r] # "created" /\ cancelled' = [cancelled EXCEPT ![r] = TRUE]
  BY DEF Stop
<1>2. UNCHANGED <<started, registered, status, task>>
  BY DEF Stop, runVars
<1>3. r \in RunIds /\ registered[s] = r /\ r # NoRun
  BY DEF InFlight, RunIds, NoRun
<1>4. r <= started
  BY <1>3 DEF Base, TypeInv, RegisteredStarted
<1>5. \A x \in RunIds : cancelled'[x] <=> cancelled[x] \/ x = r
  BY <1>1, <1>3 DEF Base, TypeInv, TypeOK
<1>. QED
  BY <1>1, <1>2, <1>3, <1>4, <1>5 DEF Base, LifeInv, Life, IsOver, Open

\* A step of the task of r changes r alone, and tells no lie about it.
LEMMA TaskLife ==
    ASSUME Base, NEW r \in RunIds, TaskStep(r) \/ ModelStep(r)
    PROVE  /\ LifeInv' /\ UNCHANGED <<started, registered, sessionOf, clientVars>>
           /\ \A x \in RunIds : x # r => status'[x] = status[x] /\ buffer'[x] = buffer[x]
           /\ IsOver(r) => IsOver(r)'
           /\ status[r] = "error" => status'[r] = "error"
<1>1. /\ UNCHANGED <<started, registered, sessionOf, clientVars>>
      /\ \A x \in RunIds : x # r => /\ status'[x] = status[x] /\ buffer'[x] = buffer[x]
                                    /\ task'[x] = task[x] /\ cancelled'[x] = cancelled[x]
  BY DEF Base, TypeInv, TypeOK, TaskStep, ModelStep, Begin, CancelUnstarted,
      PredecessorDone, CancelWaiting, Stopped, CancelStream, Unwound,
      UnwindFails, ShieldOver, Emit, Complete, Fail, Finished, runVars, taskVars
<1>2. Life(r)
  BY DEF Base, LifeInv
<1>3. \A x \in RunIds \ {r} : Life(x)'
  BY <1>1 DEF Base, LifeInv, Life, IsOver, Open
<1>4. CASE Begin(r) \/ CancelUnstarted(r) \/ PredecessorDone(r) \/ CancelStream(r)
  <2>1. Life(r)' /\ status'[r] = status[r]
    BY <1>1, <1>2, <1>4 DEF Begin, CancelUnstarted, PredecessorDone, CancelStream, Base,
         TypeInv, TypeOK, Life, IsOver, Open
  <2>. QED
    BY <1>1, <1>3, <1>4, <2>1 DEF IsOver, LifeInv
<1>5. CASE CancelWaiting(r) \/ Unwound(r) \/ UnwindFails(r) \/ ShieldOver(r)
  <2>1. /\ task[r] \in {"waiting", "unwinding", "shielding"}
        /\ task'[r] \in {"finished", "shielding"} /\ ~cancelled'[r]
        /\ \/ status'[r] = "stopped"
           \/ status'[r] = "error" /\ task'[r] = "finished"
    BY <1>2, <1>5 DEF CancelWaiting, Stopped, Unwound, UnwindFails, ShieldOver, Finished,
         Base, TypeInv, TypeOK, Life
  <2>2. UnwindFails(r) \/ status'[r] = "stopped"
    BY <1>2, <1>5 DEF CancelWaiting, Stopped, Unwound, ShieldOver, Finished,
         Base, TypeInv, TypeOK, Life
  <2>3. task'[r] = "shielding" => status'[r] = "stopped"
    BY <2>1
  <2>4. Life(r)' /\ IsOver(r)' /\ status[r] # "error"
    BY <1>1, <1>2, <2>1, <2>3 DEF Life, IsOver, Open, Terminal
  <2>. QED
    BY <1>1, <1>3, <2>4 DEF LifeInv
<1>6. CASE Emit(r)
  BY <1>1, <1>2, <1>3, <1>6 DEF Emit, Life, LifeInv, IsOver, Open, taskVars
<1>7. CASE Complete(r) \/ Fail(r)
  <2>1. /\ task[r] = "streaming" /\ ~cancelled[r] /\ ~cancelled'[r]
        /\ task'[r] = "finished" /\ status'[r] \in {EndStatus(r), "error"}
    BY <1>7 DEF Complete, Fail, Finished, Base, TypeInv, TypeOK
  <2>2. status[r] = "running"
    BY <1>2, <2>1 DEF Life, IsOver, Open, Terminal, Base, TypeInv, TypeOK
  <2>3. status'[r] \in {"done", "error"}
    BY <2>1, <2>2 DEF EndStatus
  <2>4. Life(r)'
    BY <1>1, <1>2, <2>1, <2>2, <2>3 DEF Life, IsOver, Open, Terminal
  <2>. QED
    BY <1>1, <1>3, <2>2, <2>4 DEF LifeInv, IsOver, Terminal
<1>. QED
  BY <1>4, <1>5, <1>6, <1>7 DEF TaskStep, ModelStep

LEMMA EvictLife ==
    ASSUME Base, NEW r \in RunIds, Evict(r)
    PROVE  LifeInv'
<1>1. UNCHANGED <<started, status, task, cancelled>>
  BY DEF Evict
<1>2. \A s \in Sessions : registered'[s] \in {registered[s], NoRun}
  BY DEF Evict, Base, TypeInv, TypeOK
<1>3. \A x \in RunIds : x # NoRun
  BY DEF RunIds, NoRun
<1>. QED
  BY <1>1, <1>2, <1>3 DEF Base, LifeInv, Life, IsOver, Open

LEMMA NextLife == Base /\ [Next]_vars => LifeInv'
<1>. SUFFICES ASSUME Base, [Next]_vars PROVE LifeInv'
  OBVIOUS
<1>1. ASSUME UNCHANGED <<started, registered, status, task, cancelled>> PROVE LifeInv'
  BY <1>1 DEF Base, LifeInv, Life, IsOver, Open
<1>2. CASE UNCHANGED vars
  BY <1>1, <1>2 DEF vars, runVars, taskVars
<1>3. ASSUME NEW s \in Sessions, NEW c \in Clients, Resume(c, s) PROVE LifeInv'
  BY <1>1, <1>3 DEF Resume, runVars, taskVars
<1>4. ASSUME NEW c \in Clients, ClientStep(c) \/ Disconnect(c) PROVE LifeInv'
  BY <1>1, <1>4 DEF ClientStep, Disconnect, Subscribe, Replay, Receive, ReceiveEnd, Flush,
       runVars, taskVars
<1>. QED
  BY <1>2, <1>3, <1>4, StartLife, StopLife, TaskLife, EvictLife DEF Next

LEMMA BaseAlways == Spec => []Base
<1>1. Init => Base
  BY InitType, InitBarrier, InitLife DEF Base
<1>2. Base /\ [Next]_vars => Base'
  BY NextType, NextBarrier, NextLife DEF Base
<1>. QED
  BY <1>1, <1>2, PTL DEF Spec

\* ActiveHasTask: a session is never stuck as active, because a run that is
\* registered and reported as running has a task that is still going.
THEOREM ActiveRunsGoOn == Spec => []ActiveHasTask
<1>1. Base => ActiveHasTask
  BY DEF Base, LifeInv, Life, IsOver, Terminal, ActiveHasTask
<1>. QED
  BY <1>1, BaseAlways, PTL

-----------------------------------------------------------------------------
(* The log of a run.                                                       *)

\* What a step may do to run r: a run that is over is over for ever, and its
\* log is closed, up to the error notice of a save that raised.
LogKept(r) ==
    /\ buffer'[r] >= buffer[r]
    /\ IsOver(r) => IsOver(r)'
    /\ status[r] = "error" => status'[r] = "error"
    /\ IsOver(r) /\ buffer'[r] # buffer[r] =>
          /\ SaveFaults /\ status[r] # "error" /\ status'[r] = "error"
          /\ buffer'[r] = buffer[r] + 2

LEMMA TaskLog ==
    ASSUME Base, NEW r \in RunIds, TaskStep(r) \/ ModelStep(r)
    PROVE  \A x \in RunIds : LogKept(x)
<1>1. \A x \in RunIds : buffer[x] \in Nat
  BY DEF Base, TypeInv, TypeOK
<1>2. \A x \in RunIds \ {r} : LogKept(x)
  BY <1>1, TaskLife DEF LogKept, IsOver
<1>3. (IsOver(r) => IsOver(r)') /\ (status[r] = "error" => status'[r] = "error")
  BY TaskLife
<1>4. ASSUME Begin(r) \/ CancelUnstarted(r) \/ PredecessorDone(r) \/ CancelStream(r)
             \/ ShieldOver(r)
      PROVE  LogKept(r)
  <2>1. buffer'[r] = buffer[r]
    BY <1>4 DEF Begin, CancelUnstarted, PredecessorDone, CancelStream, ShieldOver
  <2>. QED
    BY <1>1, <1>3, <2>1 DEF LogKept
<1>5. ASSUME CancelWaiting(r) \/ Unwound(r) PROVE LogKept(r)
  <2>1. buffer'[r] = buffer[r] + 0 \/ buffer'[r] = buffer[r]
    BY <1>1, <1>5 DEF CancelWaiting, Stopped, Unwound, Finished, Base, TypeInv, TypeOK
  <2>. QED
    BY <1>1, <1>3, <2>1 DEF LogKept
<1>6. ASSUME UnwindFails(r) PROVE LogKept(r)
  <2>1. Len(NextEvents(r, 2)) = 2
    BY NextEventsType DEF Base, TypeInv
  <2>2. buffer'[r] = buffer[r] + 2 /\ status'[r] = "error" /\ SaveFaults
    BY <1>6, <2>1 DEF UnwindFails, Finished, Base, TypeInv, TypeOK
  <2>3. status[r] # "error"
    BY <1>6 DEF UnwindFails, Base, LifeInv, Life
  <2>. QED
    BY <1>1, <1>3, <2>2, <2>3 DEF LogKept
<1>7. ASSUME ModelStep(r) PROVE LogKept(r)
  <2>1. ~IsOver(r)
    BY <1>7 DEF ModelStep, Emit, Complete, Fail, Base, LifeInv, Life, Open
  <2>2. Len(NextEvents(r, 1)) = 1 /\ Len(NextEvents(r, 2)) = 2
    BY NextEventsType DEF Base, TypeInv
  <2>3. buffer'[r] \in {buffer[r] + 1, buffer[r] + 2}
    <3>1. CASE Emit(r)
      BY <1>1, <3>1 DEF Emit, Base, TypeInv, TypeOK
    <3>2. CASE Complete(r) \/ Fail(r)
      <4>1. buffer'[r] = buffer[r] + Len(NextEvents(r, 1))
              \/ buffer'[r] = buffer[r] + Len(NextEvents(r, 2))
        BY <3>2 DEF Complete, Fail, Finished, Base, TypeInv, TypeOK
      <4>. QED
        BY <2>2, <4>1
    <3>. QED
      BY <1>7, <3>1, <3>2 DEF ModelStep
  <2>. QED
    BY <1>1, <1>3, <2>1, <2>3 DEF LogKept
<1>8. LogKept(r)
  BY <1>4, <1>5, <1>6, <1>7 DEF TaskStep
<1>. QED
  BY <1>2, <1>8

LEMMA StartLog ==
    ASSUME Base, NEW s \in Sessions, NEW c \in Clients, Start(s, c), NEW x \in RunIds
    PROVE  LogKept(x)
<1>1. buffer' = buffer /\ buffer[x] \in Nat
  BY DEF Start, Base, TypeInv, TypeOK
<1>2. x = started + 1 => status[x] = "unborn"
  BY DEF Base, LifeInv, Life, TypeInv, TypeOK
<1>3. \/ status'[x] = status[x]
      \/ status[x] \in {"unborn", "running"}
  BY <1>2 DEF Start, Base, TypeInv, TypeOK
<1>. QED
  BY <1>1, <1>3 DEF LogKept, IsOver, Terminal

LEMMA NextLog ==
    ASSUME Base, [Next]_vars
    PROVE  \A x \in RunIds : LogKept(x)
<1>1. \A x \in RunIds : buffer[x] \in Nat
  BY DEF Base, TypeInv, TypeOK
<1>2. ASSUME UNCHANGED <<status, buffer>> PROVE \A x \in RunIds : LogKept(x)
  BY <1>1, <1>2 DEF LogKept, IsOver
<1>3. CASE UNCHANGED vars
  BY <1>2, <1>3 DEF vars, taskVars
<1>4. ASSUME NEW s \in Sessions, Stop(s) PROVE UNCHANGED <<status, buffer>>
  BY <1>4 DEF Stop
<1>5. ASSUME NEW s \in Sessions, NEW c \in Clients, Resume(c, s)
      PROVE  UNCHANGED <<status, buffer>>
  BY <1>5 DEF Resume, taskVars
<1>6. ASSUME NEW c \in Clients, ClientStep(c) \/ Disconnect(c)
      PROVE  UNCHANGED <<status, buffer>>
  BY <1>6 DEF ClientStep, Disconnect, Subscribe, Replay, Receive, ReceiveEnd, Flush, taskVars
<1>7. ASSUME NEW r \in RunIds, Evict(r) PROVE UNCHANGED <<status, buffer>>
  BY <1>7 DEF Evict
<1>. QED
  BY <1>2, <1>3, <1>4, <1>5, <1>6, <1>7, StartLog, TaskLog DEF Next

\* TerminalFrozen: once a run was announced as over it is never announced as
\* running again, and nothing but the notice of a failed save is added to it.
THEOREM LogsAreSealed == Spec => TerminalFrozen
<1>1. Base /\ [Next]_vars =>
        [\A r \in RunIds : IsOver(r) =>
            /\ IsOver(r)'
            /\ \/ buffer'[r] = buffer[r]
               \/ SaveFaults /\ status'[r] = "error"]_vars
  BY NextLog DEF LogKept, IsOver
<1>. QED
  BY <1>1, BaseAlways, PTL DEF Spec, TerminalFrozen

-----------------------------------------------------------------------------
(* The registry and the grace timers.                                      *)

LEMMA ArmedForRun ==
    ASSUME Base, NEW r \in RunIds, NEW s \in Sessions, registered[s] = r
    PROVE  ArmedFor({r})[r] /\ \A x \in RunIds : armed[x] => ArmedFor({r})[x]
<1>1. sessionOf[r] = s
  BY RegisteredOnce DEF Base, RunIds, NoRun
<1>. QED
  BY <1>1 DEF ArmedFor

\* What EvictionArmed says of one run.
Armed(r) ==
    /\ \E s \in Sessions : registered[s] = r
    /\ task[r] = "finished" /\ Subscribers(r) = {}
    => armed[r]

ArmedInv == \A r \in RunIds : Armed(r)

LEMMA InitArmed == Init => ArmedInv
BY DEF Init, ArmedInv, Armed

LEMMA StartArmed ==
    ASSUME Base, ArmedInv, NEW s \in Sessions, NEW c \in Clients,
           Start(s, c), NEW r \in RunIds
    PROVE  Armed(r)'
<1>. SUFFICES ASSUME NEW t \in Sessions, registered'[t] = r, task'[r] = "finished",
                     Subscribers(r)' = {}
              PROVE  armed'[r]
  BY DEF ArmedInv, Armed
<1>1. r # started + 1 /\ task[r] = "finished"
  BY DEF Start, Base, TypeInv, TypeOK
<1>2. t # s /\ registered[t] = r
  BY <1>1 DEF Start, Base, TypeInv, TypeOK
<1>3. registered[s] # r
  BY <1>2, RegisteredOnce DEF Base, RunIds, NoRun
<1>4. Subscribers(r) = {}
  BY <1>1 DEF Start, Subscribers, Subscribed, Base, TypeInv, TypeOK
<1>5. armed[r]
  BY <1>1, <1>2, <1>4 DEF ArmedInv, Armed
<1>. QED
  BY <1>3, <1>5 DEF Start

LEMMA TaskArmed ==
    ASSUME Base, ArmedInv, NEW x \in RunIds,
           TaskStep(x) \/ ModelStep(x), NEW r \in RunIds
    PROVE  Armed(r)'
<1>. SUFFICES ASSUME NEW t \in Sessions, registered'[t] = r, task'[r] = "finished",
                     Subscribers(r)' = {}
              PROVE  armed'[r]
  BY DEF ArmedInv, Armed
<1>1. registered[t] = r /\ Subscribers(r) = {}
  BY TaskLife DEF Subscribers, clientVars
<1>2. armed' = armed \/ armed' = ArmedFor({x})
  BY DEF TaskStep, ModelStep, Begin, CancelUnstarted, PredecessorDone, CancelWaiting,
      Stopped, CancelStream, Unwound, UnwindFails, ShieldOver, Emit, Complete, Fail, Finished
<1>3. CASE x # r
  <2>1. task[r] = "finished"
    BY <1>3 DEF Base, TypeInv, TypeOK, TaskStep, ModelStep, Begin, CancelUnstarted,
        PredecessorDone, CancelWaiting, Stopped, CancelStream, Unwound,
        UnwindFails, ShieldOver, Emit, Complete, Fail, Finished, taskVars
  <2>2. armed[r]
    BY <1>1, <2>1 DEF ArmedInv, Armed
  <2>. QED
    BY <1>2, <2>2 DEF ArmedFor
<1>4. CASE x = r
  <2>1. ~CancelUnstarted(r)
    BY <1>1 DEF CancelUnstarted, Base, LifeInv, Life
  <2>2. armed' = ArmedFor({r})
    BY <1>4, <2>1 DEF Base, TypeInv, TypeOK, TaskStep, ModelStep, Begin, PredecessorDone,
        CancelWaiting, Stopped, CancelStream, Unwound, UnwindFails, ShieldOver,
        Emit, Complete, Fail, Finished, taskVars
  <2>. QED
    BY <1>1, <2>2, ArmedForRun
<1>. QED
  BY <1>3, <1>4

LEMMA EvictArmed ==
    ASSUME Base, ArmedInv, NEW x \in RunIds, Evict(x), NEW r \in RunIds
    PROVE  Armed(r)'
<1>. SUFFICES ASSUME NEW t \in Sessions, registered'[t] = r, task'[r] = "finished",
                     Subscribers(r)' = {}
              PROVE  armed'[r]
  BY DEF ArmedInv, Armed
<1>1. task[r] = "finished" /\ Subscribers(r) = {}
  BY DEF Evict, Subscribers, clientVars
<1>2. registered[t] = r
  BY DEF Evict, Base, TypeInv, TypeOK, RunIds, NoRun
<1>3. armed[r]
  BY <1>1, <1>2 DEF ArmedInv, Armed
<1>4. x # r
  <2>. SUFFICES ASSUME x = r PROVE FALSE
    OBVIOUS
  <2>1. sessionOf[r] = t
    BY <1>2, RegisteredOnce DEF Base, RunIds, NoRun
  <2>2. status[r] # "running"
    BY <1>1 DEF Base, LifeInv, Life, IsOver, Terminal
  <2>3. Evictable(r)
    BY <1>1, <1>2, <2>1, <2>2 DEF Evictable
  <2>4. registered'[t] = NoRun
    BY <2>1, <2>3 DEF Evict, Base, TypeInv, TypeOK
  <2>. QED
    BY <2>4 DEF RunIds, NoRun
<1>. QED
  BY <1>3, <1>4 DEF Evict, Base, TypeInv, TypeOK

\* A client that leaves a run of which it was the last reader.
LEMMA UnsubscribeArmed ==
    ASSUME Base, NEW c \in Clients, NEW to \in {"closed", "idle"}, client[c] \in Subscribed,
           Unsubscribe(c, to), UNCHANGED <<runVars, taskVars, source>>,
           ArmedInv, NEW r \in RunIds
    PROVE  Armed(r)'
<1>. SUFFICES ASSUME NEW t \in Sessions, registered[t] = r, task[r] = "finished",
                     Subscribers(r)' = {}
              PROVE  armed'[r]
  BY DEF Armed, runVars, taskVars
<1>1. \A d \in Clients : d # c => client'[d] = client[d]
  BY DEF Unsubscribe, Base, TypeInv, TypeOK
<1>2. armed[r] => armed'[r]
  BY DEF Unsubscribe, ArmedFor
<1>3. CASE source[c] = r
  <2>1. Subscribers(r) = {c}
    BY <1>1, <1>3 DEF Subscribers
  <2>2. status[r] # "running"
    BY DEF Base, LifeInv, Life, IsOver, Terminal
  <2>. QED
    BY <1>3, <2>1, <2>2, ArmedForRun DEF Unsubscribe
<1>4. CASE source[c] # r
  <2>1. Subscribers(r) = {}
    BY <1>1, <1>4 DEF Subscribers
  <2>. QED
    BY <1>2, <2>1 DEF ArmedInv, Armed
<1>. QED
  BY <1>3, <1>4

LEMMA ClientArmed ==
    ASSUME Base, NEW c \in Clients, ClientStep(c) \/ Disconnect(c),
           ArmedInv, NEW r \in RunIds
    PROVE  Armed(r)'
<1>1. UNCHANGED <<runVars, taskVars, source>>
  BY DEF ClientStep, Disconnect, Subscribe, Replay, Receive, ReceiveEnd, Flush
<1>2. ASSUME armed' = armed,
             \A d \in Clients : client[d] \in Subscribed => client'[d] \in Subscribed
      PROVE  Armed(r)'
  BY <1>1, <1>2 DEF ArmedInv, Armed, Subscribers, runVars, taskVars
<1>3. CASE client[c] \in Subscribed /\ \E to \in {"closed", "idle"} : Unsubscribe(c, to)
  BY <1>1, <1>3, UnsubscribeArmed
<1>4. CASE Subscribe(c)
  <2>. SUFFICES ASSUME NEW t \in Sessions, registered[t] = r, task[r] = "finished",
                       Subscribers(r)' = {}
                PROVE  armed'[r]
    BY <1>1 DEF Armed, runVars, taskVars
  <2>1. \A d \in Clients : d # c => client'[d] = client[d]
    BY <1>4 DEF Subscribe, Base, TypeInv, TypeOK
  <2>2. client[c] = "bound"
    BY <1>4 DEF Subscribe
  <2>3. Subscribers(r) = {}
    BY <1>1, <2>1, <2>2 DEF Subscribers, Subscribed
  <2>4. armed[r]
    BY <2>3 DEF ArmedInv, Armed
  <2>5. CASE source[c] # r
    BY <1>4, <2>4, <2>5 DEF Subscribe, Base, TypeInv, TypeOK
  <2>6. CASE source[c] = r
    <3>1. client'[c] \notin Subscribed
      BY <1>1, <2>6 DEF Subscribers
    <3>2. armed' = [armed EXCEPT ![r] = registered[sessionOf[r]] = r]
      BY <1>4, <2>3, <2>6, <3>1 DEF Subscribe, Subscribed, Base, TypeInv, TypeOK
    <3>3. registered[sessionOf[r]] = r
      BY RegisteredOnce DEF Base, RunIds, NoRun
    <3>. QED
      BY <3>2, <3>3 DEF Base, TypeInv, TypeOK
  <2>. QED
    BY <2>5, <2>6
<1>5. CASE Replay(c) /\ ~Unsubscribe(c, "closed")
  BY <1>2, <1>5 DEF Replay, Subscribed, Base, TypeInv, TypeOK
<1>6. CASE Receive(c)
  BY <1>2, <1>6 DEF Receive
<1>7. CASE (ReceiveEnd(c) \/ Flush(c)) /\ ~Unsubscribe(c, "closed")
  BY <1>2, <1>7 DEF ReceiveEnd, Flush, FlushOrClose, Subscribed, Base, TypeInv, TypeOK
<1>8. CASE Disconnect(c) /\ client[c] = "bound"
  BY <1>2, <1>8 DEF Disconnect, Subscribed, Base, TypeInv, TypeOK
<1>9. (Replay(c) \/ ReceiveEnd(c) \/ Flush(c)) => client[c] \in Subscribed
  BY DEF Replay, ReceiveEnd, Flush, Subscribed
<1>10. Disconnect(c) /\ client[c] # "bound" => client[c] \in Subscribed /\ Unsubscribe(c, "idle")
  BY DEF Disconnect
<1>. QED
  BY <1>3, <1>4, <1>5, <1>6, <1>7, <1>8, <1>9, <1>10 DEF ClientStep

LEMMA NextArmed == Base /\ ArmedInv /\ [Next]_vars => ArmedInv'
<1>. SUFFICES ASSUME Base, ArmedInv, [Next]_vars, NEW r \in RunIds PROVE Armed(r)'
  BY DEF ArmedInv, RunIds
<1>1. ASSUME UNCHANGED <<registered, task, armed, source>>,
             \A d \in Clients : client[d] \in Subscribed => client'[d] \in Subscribed
      PROVE  Armed(r)'
  BY <1>1 DEF ArmedInv, Armed, Subscribers
<1>2. CASE UNCHANGED vars
  BY <1>1, <1>2 DEF vars, runVars, taskVars, clientVars
<1>3. ASSUME NEW s \in Sessions, Stop(s) PROVE Armed(r)'
  BY <1>1, <1>3 DEF Stop, runVars, clientVars
<1>4. ASSUME NEW s \in Sessions, NEW c \in Clients, Resume(c, s) PROVE Armed(r)'
  BY <1>4 DEF Resume, ArmedInv, Armed, Subscribers, Subscribed, runVars, taskVars, Base,
       TypeInv, TypeOK
<1>. QED
  BY <1>2, <1>3, <1>4, StartArmed, TaskArmed, EvictArmed, ClientArmed DEF Next

LEMMA ArmedAlways == Spec => []ArmedInv
BY InitArmed, NextArmed, BaseAlways, PTL DEF Spec

\* EvictionArmed: a finished run that nobody reads and that is still registered
\* has its grace timer pending, so that its memory comes back.
THEOREM TimersArePending == Spec => []EvictionArmed
<1>1. ArmedInv => EvictionArmed
  BY DEF ArmedInv, Armed, EvictionArmed
<1>. QED
  BY <1>1, ArmedAlways, PTL

-----------------------------------------------------------------------------
(* What a client is given.  A queue need not be contiguous, and sentinels  *)
(* may stand between events; what matters is that whatever is not in the   *)
(* queue before an event has been delivered already.                       *)

\* q holds every event from n up to b, each after those that precede it.
Ahead(q, n, b) ==
    /\ \A i \in 1..Len(q) : \A m \in n..(q[i] - 1) : \E k \in 1..(i - 1) : q[k] = m
    /\ \A m \in n..(b - 1) : \E k \in 1..Len(q) : q[k] = m

Within(q, b) == \A i \in 1..Len(q) : q[i] < b

Ends(q) == \E i \in 1..Len(q) : q[i] = END

LEMMA Numbers ==
    ASSUME NEW q \in Seq(Items)
    PROVE  \A i \in 1..Len(q) : q[i] \in Int
<1>1. ASSUME NEW i \in 1..Len(q) PROVE q[i] \in Int
  <2>1. q[i] \in Items
    BY ElementOfSeq
  <2>. QED
    BY <2>1 DEF Items, END
<1>. QED
  BY <1>1

LEMMA Joined ==
    ASSUME NEW q \in Seq(Items), NEW z \in Seq(Items)
    PROVE  /\ q \o z \in Seq(Items) /\ Len(q \o z) = Len(q) + Len(z)
           /\ Len(q) \in Nat /\ Len(z) \in Nat
           /\ \A i \in 1..Len(q) : (q \o z)[i] = q[i] /\ q[i] \in Int
           /\ \A i \in 1..Len(z) : (q \o z)[Len(q) + i] = z[i] /\ z[i] \in Int
           /\ \A i \in 1..(Len(q) + Len(z)) :
                i \in 1..Len(q) \/ \E k \in 1..Len(z) : i = Len(q) + k
<1>1. Len(q) \in Nat /\ Len(z) \in Nat
  BY LenProperties
<1>2. \A i \in 1..Len(q) : q[i] \in Int
  BY Numbers
<1>3. \A i \in 1..Len(z) : z[i] \in Int
  BY Numbers
<1>4. /\ q \o z \in Seq(Items) /\ Len(q \o z) = Len(q) + Len(z)
      /\ \A i \in 1..(Len(q) + Len(z)) :
            (q \o z)[i] = IF i <= Len(q) THEN q[i] ELSE z[i - Len(q)]
  BY ConcatProperties
<1>5. ASSUME NEW i \in 1..(Len(q) + Len(z)), i \notin 1..Len(q)
      PROVE  \E k \in 1..Len(z) : i = Len(q) + k
  <2>1. i - Len(q) \in 1..Len(z) /\ i = Len(q) + (i - Len(q))
    BY <1>1, <1>5
  <2>. QED
    BY <2>1
<1>6. \A i \in 1..Len(z) : (q \o z)[Len(q) + i] = z[i]
  BY <1>1, <1>4
<1>7. /\ \A i \in 1..Len(q) : (q \o z)[i] = q[i] /\ q[i] \in Int
      /\ \A i \in 1..Len(z) : z[i] \in Int
  BY <1>1, <1>2, <1>3, <1>4
<1>8. \A i \in 1..(Len(q) + Len(z)) : i \in 1..Len(q) \/ \E k \in 1..Len(z) : i = Len(q) + k
  BY <1>5
<1>. QED
  BY <1>1, <1>4, <1>6, <1>7, <1>8

LEMMA JoinedAhead ==
    ASSUME NEW q \in Seq(Items), NEW z \in Seq(Items), NEW n \in Nat, NEW b \in Nat,
           NEW d \in Nat, n <= b, b <= d, Ahead(q, n, b), Ahead(z, b, d)
    PROVE  Ahead(q \o z, n, d)
<1>. DEFINE Q == Len(q)
            w == q \o z
<1>0. /\ Len(w) = Q + Len(z) /\ Q \in Nat /\ Len(z) \in Nat
      /\ \A i \in 1..Q : w[i] = q[i] /\ q[i] \in Int
      /\ \A i \in 1..Len(z) : w[Q + i] = z[i] /\ z[i] \in Int
      /\ \A i \in 1..(Q + Len(z)) : i \in 1..Q \/ \E k \in 1..Len(z) : i = Q + k
  BY Joined
<1>. HIDE DEF Q, w
<1>1. ASSUME NEW m \in n..(b - 1) PROVE \E k \in 1..Q : w[k] = m
  BY <1>0 DEF Ahead, Q
<1>2. ASSUME NEW m \in b..(d - 1) PROVE \E k \in 1..Len(w) : w[k] = m
  <2>1. PICK k \in 1..Len(z) : z[k] = m
    BY DEF Ahead
  <2>2. Q + k \in 1..Len(w) /\ w[Q + k] = m
    BY <1>0, <2>1
  <2>. QED
    BY <2>2
<1>3. ASSUME NEW i \in 1..Len(w), NEW m \in n..(w[i] - 1)
      PROVE  \E k \in 1..(i - 1) : w[k] = m
  <2>1. CASE i \in 1..Q
    <3>1. PICK k \in 1..(i - 1) : q[k] = m
      BY <1>0, <1>3, <2>1 DEF Ahead, Q
    <3>2. w[k] = m
      BY <1>0, <2>1, <3>1
    <3>. QED
      BY <3>2
  <2>2. CASE i \notin 1..Q
    <3>1. PICK k \in 1..Len(z) : i = Q + k
      BY <1>0, <2>2
    <3>2. CASE m < b
      <4>1. PICK l \in 1..Q : w[l] = m
        BY <1>1, <1>3, <3>2
      <4>2. l \in 1..(i - 1)
        BY <1>0, <3>1, <4>1
      <4>. QED
        BY <4>1, <4>2
    <3>3. CASE m >= b
      <4>1. w[i] = z[k] /\ z[k] \in Int
        BY <1>0, <3>1
      <4>2. m \in b..(z[k] - 1)
        BY <1>3, <3>3, <4>1
      <4>3. PICK l \in 1..(k - 1) : z[l] = m
        BY <4>2 DEF Ahead
      <4>4. Q + l \in 1..(i - 1) /\ w[Q + l] = m
        BY <1>0, <3>1, <4>3
      <4>. QED
        BY <4>4
    <3>4. m \in Int
      OBVIOUS
    <3>. QED
      BY <3>2, <3>3, <3>4
  <2>. QED
    BY <2>1, <2>2
<1>4. ASSUME NEW m \in n..(d - 1) PROVE \E k \in 1..Len(w) : w[k] = m
  <2>1. CASE m < b
    <3>1. PICK l \in 1..Q : w[l] = m
      BY <1>1, <1>4, <2>1
    <3>2. l \in 1..Len(w)
      BY <1>0, <3>1
    <3>. QED
      BY <3>1, <3>2
  <2>. QED
    BY <1>2, <1>4, <2>1
<1>. QED
  BY <1>3, <1>4 DEF Ahead, w

LEMMA JoinedWithin ==
    ASSUME NEW q \in Seq(Items), NEW z \in Seq(Items), NEW b \in Nat, NEW d \in Nat,
           b <= d, Within(q, b), Within(z, d)
    PROVE  Within(q \o z, d)
BY Joined DEF Within

LEMMA JoinedEnds ==
    ASSUME NEW q \in Seq(Items), NEW z \in Seq(Items)
    PROVE  Ends(q \o z) <=> Ends(q) \/ Ends(z)
<1>1. ASSUME Ends(q) PROVE Ends(q \o z)
  <2>1. PICK i \in 1..Len(q) : q[i] = END
    BY <1>1 DEF Ends
  <2>2. i \in 1..Len(q \o z) /\ (q \o z)[i] = END
    BY <2>1, Joined
  <2>. QED
    BY <2>2 DEF Ends
<1>2. ASSUME Ends(z) PROVE Ends(q \o z)
  <2>1. PICK i \in 1..Len(z) : z[i] = END
    BY <1>2 DEF Ends
  <2>2. Len(q) + i \in 1..Len(q \o z) /\ (q \o z)[Len(q) + i] = END
    BY <2>1, Joined
  <2>. QED
    BY <2>2 DEF Ends
<1>3. ASSUME Ends(q \o z) PROVE Ends(q) \/ Ends(z)
  <2>1. PICK i \in 1..Len(q \o z) : (q \o z)[i] = END
    BY <1>3 DEF Ends
  <2>2. i \in 1..(Len(q) + Len(z))
    BY Joined
  <2>3. CASE i \in 1..Len(q)
    BY <2>1, <2>3, Joined DEF Ends
  <2>4. CASE i \notin 1..Len(q)
    <3>1. PICK k \in 1..Len(z) : i = Len(q) + k
      BY <2>2, <2>4, Joined
    <3>2. z[k] = END
      BY <2>1, <3>1, Joined
    <3>. QED
      BY <3>2 DEF Ends
  <2>. QED
    BY <2>3, <2>4
<1>. QED
  BY <1>1, <1>2, <1>3

\* The live loop takes the head of a queue off.
LEMMA Taken ==
    ASSUME NEW q \in Seq(Items), q # << >>
    PROVE  /\ Tail(q) \in Seq(Items) /\ Len(q) \in Nat /\ Len(Tail(q)) = Len(q) - 1
           /\ Head(q) = q[1] /\ 1 \in 1..Len(q)
           /\ \A i \in 1..Len(q) : q[i] \in Int
           /\ \A i \in 1..(Len(q) - 1) : Tail(q)[i] = q[i + 1]
<1>1. Len(q) \in Nat /\ Len(q) # 0
  BY LenProperties, EmptySeq
<1>2. \A i \in 1..Len(q) : q[i] \in Int
  BY Numbers
<1>3. /\ Tail(q) \in Seq(Items) /\ Len(Tail(q)) = Len(q) - 1 /\ Head(q) = q[1]
      /\ \A i \in 1..(Len(q) - 1) : Tail(q)[i] = q[i + 1]
  BY HeadTailProperties
<1>4. 1 \in 1..Len(q) /\ \A i \in 1..Len(q) : q[i] \in Int
  BY <1>1, <1>2
<1>. QED
  BY <1>1, <1>3, <1>4

LEMMA TakenAhead ==
    ASSUME NEW q \in Seq(Items), q # << >>, NEW n \in Nat, NEW b \in Nat, NEW n2 \in Nat,
           Ahead(q, n, b),
           \/ Head(q) < n /\ n2 = n
           \/ Head(q) >= n /\ n2 = Head(q) + 1
    PROVE  Ahead(Tail(q), n2, b) /\ (Head(q) >= n => Head(q) = n)
<1>0. /\ Len(q) \in Nat /\ Len(Tail(q)) = Len(q) - 1 /\ Head(q) = q[1] /\ 1 \in 1..Len(q)
      /\ \A i \in 1..Len(q) : q[i] \in Int
      /\ \A i \in 1..(Len(q) - 1) : Tail(q)[i] = q[i + 1]
  BY Taken
<1>1. Head(q) >= n => Head(q) = n
  <2>. SUFFICES ASSUME Head(q) > n PROVE FALSE
    BY <1>0
  <2>1. n \in n..(q[1] - 1)
    BY <1>0
  <2>2. PICK k \in 1..(1 - 1) : q[k] = n
    BY <1>0, <2>1 DEF Ahead
  <2>. QED
    BY <2>2
<1>2. n2 >= n /\ q[1] < n2
  BY <1>0, <1>1
<1>3. ASSUME NEW k \in 1..Len(q), NEW m \in Int, m >= n2, q[k] = m
      PROVE  k - 1 \in 1..(Len(q) - 1) /\ Tail(q)[k - 1] = m
  <2>1. k # 1
    BY <1>0, <1>2, <1>3
  <2>2. k - 1 \in 1..(Len(q) - 1) /\ (k - 1) + 1 = k
    BY <1>0, <2>1
  <2>. QED
    BY <1>0, <1>3, <2>2
<1>4. ASSUME NEW i \in 1..Len(Tail(q)), NEW m \in n2..(Tail(q)[i] - 1)
      PROVE  \E k \in 1..(i - 1) : Tail(q)[k] = m
  <2>1. i + 1 \in 1..Len(q) /\ Tail(q)[i] = q[i + 1] /\ m \in n..(q[i + 1] - 1)
    BY <1>0, <1>2, <1>4
  <2>2. PICK k \in 1..((i + 1) - 1) : q[k] = m
    BY <2>1 DEF Ahead
  <2>3. k \in 1..Len(q) /\ m \in Int /\ m >= n2
    BY <1>0, <2>1, <2>2
  <2>4. k - 1 \in 1..(Len(q) - 1) /\ Tail(q)[k - 1] = m
    BY <1>3, <2>2, <2>3
  <2>5. k - 1 \in 1..(i - 1)
    BY <2>2, <2>4
  <2>. QED
    BY <2>4, <2>5
<1>5. ASSUME NEW m \in n2..(b - 1) PROVE \E k \in 1..Len(Tail(q)) : Tail(q)[k] = m
  <2>1. m \in n..(b - 1) /\ m \in Int /\ m >= n2
    BY <1>2
  <2>2. PICK k \in 1..Len(q) : q[k] = m
    BY <2>1 DEF Ahead
  <2>3. k - 1 \in 1..(Len(q) - 1) /\ Tail(q)[k - 1] = m
    BY <1>3, <2>1, <2>2
  <2>. QED
    BY <1>0, <2>3
<1>. QED
  BY <1>1, <1>4, <1>5 DEF Ahead

LEMMA TakenEnds ==
    ASSUME NEW q \in Seq(Items), q # << >>
    PROVE  /\ Ends(Tail(q)) => Ends(q)
           /\ Ends(q) /\ Head(q) # END => Ends(Tail(q))
           /\ \A b \in Nat : Within(q, b) => Within(Tail(q), b)
<1>0. /\ Len(q) \in Nat /\ Len(Tail(q)) = Len(q) - 1 /\ Head(q) = q[1] /\ 1 \in 1..Len(q)
      /\ \A i \in 1..(Len(q) - 1) : Tail(q)[i] = q[i + 1]
  BY Taken
<1>1. \A i \in 1..(Len(q) - 1) : i + 1 \in 1..Len(q)
  BY <1>0
<1>2. ASSUME Ends(q), Head(q) # END PROVE Ends(Tail(q))
  <2>1. PICK i \in 1..Len(q) : q[i] = END
    BY <1>2 DEF Ends
  <2>2. i - 1 \in 1..(Len(q) - 1) /\ (i - 1) + 1 = i
    BY <1>0, <1>2, <2>1
  <2>3. Tail(q)[i - 1] = END
    BY <1>0, <2>1, <2>2
  <2>. QED
    BY <1>0, <2>2, <2>3 DEF Ends
<1>. QED
  BY <1>0, <1>1, <1>2 DEF Ends, Within

-----------------------------------------------------------------------------
(* What is put on the queues of a run.                                     *)

\* z is what a step adds to every queue of r: all that the step publishes, and
\* a sentinel exactly when the run is announced as over by it.
Feeds(r, z) ==
    /\ \A c \in Clients :
          queue'[c] = IF c \in Subscribers(r) THEN queue[c] \o z ELSE queue[c]
    /\ Ahead(z, buffer[r], buffer'[r])
    /\ Within(z, buffer'[r])
    /\ Ends(z) => IsOver(r)'
    /\ IsOver(r)' /\ ~IsOver(r) => Ends(z)

LEMMA NothingAdded ==
    ASSUME TypeOK, NEW r \in RunIds, queue' = queue, buffer'[r] = buffer[r],
           IsOver(r)' => IsOver(r)
    PROVE  << >> \in Seq(Items) /\ Feeds(r, << >>)
<1>1. << >> \in Seq(Items) /\ Len(<< >>) = 0
  BY EmptySeq
<1>2. \A c \in Clients : queue[c] \o << >> = queue[c]
  BY ConcatEmptySeq DEF TypeOK, Items
<1>3. buffer[r] \in Nat
  BY DEF TypeOK
<1>. QED
  BY <1>1, <1>2, <1>3 DEF Feeds, Ahead, Within, Ends

LEMMA EventsAdded ==
    ASSUME TypeOK, NEW r \in RunIds, NEW n \in Nat
    PROVE  LET z == NextEvents(r, n) IN
           /\ z \in Seq(Items) /\ Len(z) = n /\ ~Ends(z)
           /\ Ahead(z, buffer[r], buffer[r] + n) /\ Within(z, buffer[r] + n)
<1>1. PICK b \in Nat : b = buffer[r]
  BY DEF TypeOK
<1>2. PICK z \in Seq(Items) : z = NextEvents(r, n) /\ Len(z) = n
  BY NextEventsType
<1>3. \A i \in 1..n : z[i] = b + i - 1
  BY <1>1, <1>2 DEF NextEvents
<1>4. ASSUME NEW i \in 1..n, NEW m \in b..(z[i] - 1) PROVE \E k \in 1..(i - 1) : z[k] = m
  <2>1. m - b + 1 \in 1..(i - 1) /\ m - b + 1 \in 1..n
    BY <1>3, <1>4
  <2>2. z[m - b + 1] = m
    BY <1>3, <2>1
  <2>. QED
    BY <2>1, <2>2
<1>5. ASSUME NEW m \in b..(b + n - 1) PROVE \E k \in 1..n : z[k] = m
  <2>1. m - b + 1 \in 1..n
    BY <1>5
  <2>2. z[m - b + 1] = m
    BY <1>3, <2>1
  <2>. QED
    BY <2>1, <2>2
<1>6. Ahead(z, b, b + n)
  BY <1>2, <1>4, <1>5 DEF Ahead
<1>7. Within(z, b + n) /\ ~Ends(z)
  BY <1>2, <1>3 DEF Within, Ends, END
<1>. QED
  BY <1>1, <1>2, <1>6, <1>7

\* The sentinel behind a sequence of events.
LEMMA SentinelAdded ==
    ASSUME NEW z \in Seq(Items), NEW b \in Nat, NEW d \in Nat, b <= d,
           Ahead(z, b, d), Within(z, d)
    PROVE  LET w == Append(z, END) IN
           w \in Seq(Items) /\ Ends(w) /\ Ahead(w, b, d) /\ Within(w, d)
<1>1. END \in Items /\ <<END>> \in Seq(Items) /\ Len(<<END>>) = 1
  BY DEF Items
<1>2. Append(z, END) = z \o <<END>> /\ Append(z, END) \in Seq(Items)
  BY <1>1, AppendIsConcat, AppendProperties
<1>3. Ahead(<<END>>, d, d) /\ Within(<<END>>, d) /\ Ends(<<END>>)
  BY <1>1 DEF Ahead, Within, Ends, END
<1>4. PICK e \in Seq(Items) : e = <<END>>
  BY <1>1
<1>5. d <= d
  OBVIOUS
<1>6. Ahead(z \o e, b, d)
  BY <1>3, <1>4, <1>5, JoinedAhead
<1>7. Within(z \o e, d)
  BY <1>3, <1>4, <1>5, JoinedWithin
<1>8. Ends(z \o e)
  BY <1>3, <1>4, JoinedEnds
<1>. QED
  BY <1>2, <1>4, <1>6, <1>7, <1>8

\* The step that ends a run tells its subscribers, after its last events.
LEMMA FinishedFeeds ==
    ASSUME TypeOK, NEW r \in RunIds, NEW n \in Nat, NEW st \in Terminal,
           Finished(r, st, NextEvents(r, n))
    PROVE  \E z \in Seq(Items) : Feeds(r, z)
<1>1. PICK z \in Seq(Items) : z = Append(NextEvents(r, n), END)
  BY EventsAdded, AppendProperties DEF Items
<1>2. buffer[r] \in Nat /\ buffer'[r] = buffer[r] + n
  BY EventsAdded DEF Finished, TypeOK
<1>3. Ends(z) /\ Ahead(z, buffer[r], buffer'[r]) /\ Within(z, buffer'[r])
  BY <1>1, <1>2, EventsAdded, SentinelAdded
<1>4. \A c \in Clients :
        queue'[c] = IF c \in Subscribers(r) THEN queue[c] \o z ELSE queue[c]
  BY <1>1 DEF Finished, Fanned
<1>5. IsOver(r)'
  BY DEF Finished, IsOver, TypeOK
<1>. QED
  BY <1>3, <1>4, <1>5 DEF Feeds

LEMMA Published ==
    ASSUME Base, NEW r \in RunIds, TaskStep(r) \/ ModelStep(r)
    PROVE  \E z \in Seq(Items) : Feeds(r, z)
<1>0. TypeOK /\ buffer[r] \in Nat
  BY DEF Base, TypeInv, TypeOK
<1>1. << >> = NextEvents(r, 0)
  BY <1>0 DEF NextEvents
<1>2. ASSUME Begin(r) \/ CancelUnstarted(r) \/ PredecessorDone(r) \/ CancelStream(r)
             \/ ShieldOver(r)
      PROVE  \E z \in Seq(Items) : Feeds(r, z)
  <2>1. queue' = queue /\ buffer'[r] = buffer[r] /\ status'[r] = status[r]
    BY <1>2 DEF Begin, CancelUnstarted, PredecessorDone, CancelStream, ShieldOver
  <2>. QED
    BY <1>0, <2>1, NothingAdded DEF IsOver
<1>3. ASSUME CancelWaiting(r) PROVE \E z \in Seq(Items) : Feeds(r, z)
  <2>1. CASE Finished(r, "stopped", << >>)
    BY <1>0, <1>1, <2>1, FinishedFeeds DEF Terminal
  <2>2. CASE ~Finished(r, "stopped", << >>)
    <3>1. /\ queue' = Fanned(r, <<END>>) /\ buffer'[r] = buffer[r]
          /\ status'[r] = "stopped"
      BY <1>0, <1>3, <2>2 DEF CancelWaiting, Stopped, TypeOK
    <3>2. PICK z \in Seq(Items) : z = <<END>>
      <4>1. <<END>> \in Seq(Items)
        BY DEF Items
      <4>. QED
        BY <4>1
    <3>3. /\ Ends(z) /\ Ahead(z, buffer[r], buffer'[r]) /\ Within(z, buffer'[r])
      BY <1>0, <3>1, <3>2 DEF Ends, Ahead, Within, END
    <3>. QED
      BY <3>1, <3>2, <3>3 DEF Feeds, Fanned, IsOver, Terminal
  <2>. QED
    BY <2>1, <2>2
<1>4. ASSUME Unwound(r) \/ UnwindFails(r) \/ Complete(r) \/ Fail(r)
      PROVE  \E z \in Seq(Items) : Feeds(r, z)
  <2>1. EndStatus(r) \in Terminal \/ ~Complete(r)
    BY DEF Complete, EndStatus, Base, LifeInv, Life, IsOver, Terminal, TypeInv, TypeOK
  <2>. QED
    BY <1>0, <1>1, <1>4, <2>1, FinishedFeeds
       DEF Unwound, UnwindFails, Complete, Fail, Terminal
<1>5. ASSUME Emit(r) PROVE \E z \in Seq(Items) : Feeds(r, z)
  <2>1. /\ queue' = Fanned(r, NextEvents(r, 1)) /\ buffer'[r] = buffer[r] + 1
        /\ status'[r] = status[r]
    BY <1>0, <1>5 DEF Emit, TypeOK, taskVars
  <2>. QED
    BY <1>0, <2>1, EventsAdded DEF Feeds, Fanned, IsOver
<1>. QED
  BY <1>2, <1>3, <1>4, <1>5 DEF TaskStep, ModelStep

-----------------------------------------------------------------------------
(* What a client has and what it still expects.                            *)

Stream(c) ==
    LET r == source[c] IN
    /\ Len(got[c]) = nextSeq[c]
    /\ \A i \in 1..Len(got[c]) : got[c][i] = <<source[c], i - 1>>
    /\ client[c] # "idle" =>
          r \in RunIds /\ r <= started /\ nextSeq[c] <= buffer[r]
    /\ client[c] = "bound" => nextSeq[c] = 0
    /\ client[c] \in {"replaying", "live"} =>
          Within(queue[c], buffer[r]) /\ (Ends(queue[c]) => IsOver(r))
    /\ client[c] = "live" =>
          Ahead(queue[c], nextSeq[c], buffer[r]) /\ (IsOver(r) => Ends(queue[c]))
    /\ client[c] = "flushing" => IsOver(r)
    /\ client[c] = "closed" =>
          /\ IsOver(r)
          /\ \/ nextSeq[c] = buffer[r]
             \/ SaveFaults /\ status[r] = "error" /\ nextSeq[c] = buffer[r] - 2

StreamInv == \A c \in Clients : Stream(c)

LEMMA InitStream == Init => StreamInv
BY DEF Init, StreamInv, Stream

\* A client whose own body did not move, while its run went on.
LEMMA Fed ==
    ASSUME Base, NEW c \in Clients, Stream(c),
           client'[c] = client[c], source'[c] = source[c], nextSeq'[c] = nextSeq[c],
           got'[c] = got[c], started' >= started, started' \in Nat,
           NEW z \in Seq(Items),
           source[c] \in RunIds =>
              /\ LogKept(source[c])
              /\ client[c] \in Subscribed => queue'[c] = queue[c] \o z
              /\ Ahead(z, buffer[source[c]], buffer'[source[c]])
              /\ Within(z, buffer'[source[c]]) /\ buffer'[source[c]] \in Nat
              /\ Ends(z) => IsOver(source[c])'
              /\ IsOver(source[c])' /\ ~IsOver(source[c]) => Ends(z)
    PROVE  Stream(c)'
<1>0. /\ nextSeq[c] \in Nat /\ queue[c] \in Seq(Items) /\ started \in Nat
      /\ \A x \in RunIds : x \in Nat /\ buffer[x] \in Nat
  BY DEF Base, TypeInv, TypeOK, Items, RunIds
<1>1. CASE client[c] = "idle"
  BY <1>1 DEF Stream, Subscribed
<1>2. CASE client[c] # "idle"
  <2>1. PICK r \in RunIds : r = source[c] /\ r = source'[c]
    BY <1>2 DEF Stream
  <2>2. /\ r <= started' /\ nextSeq'[c] <= buffer'[r]
        /\ Len(got'[c]) = nextSeq'[c]
        /\ \A i \in 1..Len(got'[c]) : got'[c][i] = <<source'[c], i - 1>>
    BY <1>0, <1>2, <2>1, SMTT(30) DEF Stream, LogKept
  <2>3. ASSUME client[c] \in {"replaying", "live"}
        PROVE  Within(queue'[c], buffer'[r]) /\ (Ends(queue'[c]) => IsOver(r)')
    <3>1. queue'[c] = queue[c] \o z
      BY <2>1, <2>3 DEF Subscribed
    <3>2. Within(queue[c], buffer[r]) /\ buffer[r] <= buffer'[r] /\ buffer'[r] \in Nat
      BY <2>1, <2>3 DEF Stream, LogKept
    <3>3. Within(queue'[c], buffer'[r])
      BY <1>0, <2>1, <3>1, <3>2, JoinedWithin
    <3>4. Ends(queue'[c]) => IsOver(r)'
      BY <1>0, <2>1, <2>3, <3>1, JoinedEnds DEF Stream, LogKept
    <3>. QED
      BY <3>3, <3>4
  <2>4. ASSUME client[c] = "live"
        PROVE  Ahead(queue'[c], nextSeq'[c], buffer'[r]) /\ (IsOver(r)' => Ends(queue'[c]))
    <3>1. queue'[c] = queue[c] \o z
      BY <2>1, <2>4 DEF Subscribed
    <3>2. /\ Ahead(queue[c], nextSeq[c], buffer[r]) /\ nextSeq[c] <= buffer[r]
          /\ buffer[r] <= buffer'[r] /\ buffer'[r] \in Nat
          /\ (IsOver(r) => Ends(queue[c]))
      BY <2>1, <2>4 DEF Stream, LogKept
    <3>3. Ahead(queue'[c], nextSeq'[c], buffer'[r])
      BY <1>0, <2>1, <3>1, <3>2, JoinedAhead
    <3>4. IsOver(r)' => Ends(queue'[c])
      BY <1>0, <2>1, <3>1, <3>2, JoinedEnds
    <3>. QED
      BY <3>3, <3>4
  <2>5. client[c] = "flushing" => IsOver(r)'
    BY <2>1 DEF Stream, LogKept
  <2>6. ASSUME client[c] = "closed"
        PROVE  /\ IsOver(r)'
               /\ \/ nextSeq'[c] = buffer'[r]
                  \/ SaveFaults /\ status'[r] = "error" /\ nextSeq'[c] = buffer'[r] - 2
    BY <1>0, <2>1, <2>6 DEF Stream, LogKept
  <2>7. client[c] = "bound" => nextSeq'[c] = 0
    BY DEF Stream
  <2>. QED
    BY <2>1, <2>2, <2>3, <2>4, <2>5, <2>6, <2>7 DEF Stream, IsOver
<1>. QED
  BY <1>1, <1>2

\* A step that touches neither the client nor any log.
LEMMA Kept ==
    ASSUME NEW c \in Clients, Stream(c), UNCHANGED <<status, buffer, started>>,
           client'[c] = client[c], source'[c] = source[c], nextSeq'[c] = nextSeq[c],
           got'[c] = got[c], queue'[c] = queue[c]
    PROVE  Stream(c)'
BY DEF Stream, IsOver

\* A client whose response is bound to run r has received nothing of it yet.
LEMMA Bound ==
    ASSUME Base, NEW c \in Clients, NEW r \in RunIds, client'[c] = "bound",
           source'[c] = r, nextSeq'[c] = 0, got'[c] = << >>, r <= started',
           buffer' = buffer
    PROVE  Stream(c)'
<1>1. Len(<< >>) = 0 /\ buffer[r] \in Nat
  BY DEF Base, TypeInv, TypeOK
<1>. QED
  BY <1>1 DEF Stream, IsOver

LEMMA StartStream ==
    ASSUME Base, NEW s \in Sessions, NEW c \in Clients, Start(s, c),
           NEW d \in Clients, Stream(d)
    PROVE  Stream(d)'
<1>0. PICK r \in RunIds : r = started + 1
  BY ConstantsAssumption DEF Base, TypeInv, TypeOK, Start, RunIds
<1>1. /\ started' = r /\ buffer' = buffer /\ started \in Nat
      /\ \A x \in RunIds : x # r /\ ~(x \in InFlight(s) /\ status[x] = "running")
            => status'[x] = status[x]
      /\ \A x \in RunIds : x # r /\ x \in InFlight(s) /\ status[x] = "running"
            => status'[x] = "stopped"
  BY <1>0 DEF Start, Base, TypeInv, TypeOK
<1>2. CASE d = c
  <2>1. /\ client'[c] = "bound" /\ source'[c] = r /\ nextSeq'[c] = 0 /\ got'[c] = << >>
        /\ r <= started'
    BY <1>0, <1>1 DEF Start, Base, TypeInv, TypeOK
  <2>. QED
    BY <1>1, <1>2, <2>1, Bound
<1>3. CASE d # c
  <2>1. /\ client'[d] = client[d] /\ source'[d] = source[d] /\ nextSeq'[d] = nextSeq[d]
        /\ got'[d] = got[d] /\ started' >= started /\ started' \in Nat
    BY <1>0, <1>1, <1>3 DEF Start, Base, TypeInv, TypeOK
  <2>2. CASE client[d] = "idle"
    BY <2>1, <2>2 DEF Stream
  <2>3. CASE client[d] # "idle"
    <3>1. PICK x \in RunIds : x = source[d]
      BY <2>3 DEF Stream
    <3>2. x # r /\ buffer[x] \in Nat
      BY <1>0, <1>1, <2>3, <3>1 DEF Stream, Base, TypeInv, TypeOK
    <3>3. LogKept(x)
      BY StartLog
    <3>4. queue[d] \in Seq(Items)
      BY DEF Base, TypeInv, TypeOK, Items
    <3>5. CASE x \in InFlight(s) /\ status[x] = "running"
      <4>1. PICK z \in Seq(Items) : z = <<END>>
        <5>1. <<END>> \in Seq(Items)
          BY DEF Items
        <5>. QED
          BY <5>1
      <4>2. Ahead(z, buffer[x], buffer[x]) /\ Within(z, buffer[x]) /\ Ends(z)
        BY <3>2, <4>1 DEF Ahead, Within, Ends, END
      <4>3. IsOver(x)'
        BY <1>1, <3>2, <3>5 DEF IsOver, Terminal
      <4>4. client[d] \in Subscribed => queue'[d] = Append(queue[d], END)
        BY <3>1, <3>5 DEF Start, Woken, Subscribers
      <4>5. Append(queue[d], END) = queue[d] \o z
        BY <3>4, <4>1, AppendIsConcat DEF Items
      <4>. QED
        BY <1>1, <2>1, <3>1, <3>2, <3>3, <4>2, <4>3, <4>4, <4>5, Fed
    <3>6. CASE ~(x \in InFlight(s) /\ status[x] = "running")
      <4>1. status'[x] = status[x]
        BY <1>1, <3>2, <3>6
      <4>2. queue'[d] = queue[d]
        BY <3>1, <3>6 DEF Start, Woken, Subscribers
      <4>. QED
        BY <1>1, <2>1, <3>1, <4>1, <4>2 DEF Stream, IsOver
    <3>. QED
      BY <3>5, <3>6
  <2>. QED
    BY <2>2, <2>3
<1>. QED
  BY <1>2, <1>3

LEMMA TaskStream ==
    ASSUME Base, NEW r \in RunIds, TaskStep(r) \/ ModelStep(r),
           NEW c \in Clients, Stream(c)
    PROVE  Stream(c)'
<1>1. PICK z \in Seq(Items) : Feeds(r, z)
  BY Published
<1>2. /\ UNCHANGED <<started, clientVars>>
      /\ \A x \in RunIds : x # r => status'[x] = status[x] /\ buffer'[x] = buffer[x]
  BY TaskLife
<1>3. LogKept(r) /\ buffer[r] \in Nat /\ started \in Nat
  BY TaskLog, SMTT(30) DEF Base, TypeInv, TypeOK
<1>4. buffer'[r] \in Nat
  BY NextType DEF Base, Next, TypeInv, TypeOK
<1>5. CASE source[c] = r
  <2>1. client[c] \in Subscribed => queue'[c] = queue[c] \o z
    BY <1>1, <1>5 DEF Feeds, Subscribers
  <2>. QED
    BY <1>1, <1>2, <1>3, <1>4, <1>5, <2>1, Fed DEF Feeds, clientVars
<1>6. CASE source[c] # r
  <2>1. queue'[c] = queue[c]
    BY <1>1, <1>6 DEF Feeds, Subscribers
  <2>. QED
    BY <1>2, <1>6, <2>1 DEF Stream, IsOver, clientVars
<1>. QED
  BY <1>5, <1>6

-----------------------------------------------------------------------------
(* The steps of a response body.                                           *)

\* The next event is the one that the history of c expects.
LEMMA Delivered ==
    ASSUME Base, NEW c \in Clients, Stream(c), source[c] \in RunIds,
           Deliver(c, nextSeq[c]), source'[c] = source[c]
    PROVE  /\ nextSeq'[c] = nextSeq[c] + 1
           /\ Len(got'[c]) = nextSeq'[c]
           /\ \A i \in 1..Len(got'[c]) : got'[c][i] = <<source'[c], i - 1>>
<1>1. PICK h \in Seq(RunIds \X Nat) : h = got[c]
  BY DEF Base, TypeInv, TypeOK
<1>2. PICK n \in Nat : n = nextSeq[c]
  BY DEF Base, TypeInv, TypeOK
<1>3. PICK e \in RunIds \X Nat : e = <<source[c], n>>
  BY <1>2
<1>4. got'[c] = Append(h, e) /\ nextSeq'[c] = n + 1
  BY <1>1, <1>2, <1>3 DEF Deliver, Base, TypeInv, TypeOK
<1>5. /\ Len(h) = n
      /\ \A i \in 1..Len(h) : h[i] = <<source[c], i - 1>>
  BY <1>1, <1>2 DEF Stream
<1>6. /\ Len(Append(h, e)) = n + 1
      /\ \A i \in 1..n : Append(h, e)[i] = h[i]
      /\ Append(h, e)[n + 1] = e
  BY <1>5, AppendProperties
<1>7. ASSUME NEW i \in 1..(n + 1) PROVE Append(h, e)[i] = <<source[c], i - 1>>
  <2>1. CASE i \in 1..n
    BY <1>5, <1>6, <2>1
  <2>2. CASE i = n + 1
    <3>1. i - 1 = n
      BY <2>2
    <3>. QED
      BY <1>3, <1>6, <2>2, <3>1
  <2>3. i \in 1..n \/ i = n + 1
    BY <1>2, <1>7
  <2>. QED
    BY <2>1, <2>2, <2>3
<1>. QED
  BY <1>2, <1>4, <1>6, <1>7

\* A body that ends by itself: its run is over and c has the whole buffer.
LEMMA Closed ==
    ASSUME Base, NEW c \in Clients, Stream(c), source[c] \in RunIds, source[c] <= started,
           IsOver(source[c]), nextSeq[c] = buffer[source[c]], client'[c] = "closed",
           UNCHANGED <<status, buffer, started, source>>,
           got'[c] = got[c], nextSeq'[c] = nextSeq[c]
    PROVE  Stream(c)'
<1>1. buffer[source[c]] \in Nat
  BY DEF Base, TypeInv, TypeOK
<1>. QED
  BY <1>1 DEF Stream, IsOver

LEMMA SubscribeStream ==
    ASSUME Base, NEW c \in Clients, Stream(c), Subscribe(c)
    PROVE  Stream(c)'
<1>1. PICK r \in RunIds : r = source[c] /\ r <= started /\ nextSeq[c] = 0
  BY DEF Subscribe, Stream
<1>2. /\ UNCHANGED <<status, buffer, started, source>> /\ buffer[r] \in Nat
      /\ queue'[c] = << >> /\ Len(<< >>) = 0
  BY <1>1 DEF Subscribe, runVars, taskVars, Base, TypeInv, TypeOK
<1>3. Within(<< >>, buffer[r]) /\ ~Ends(<< >>) /\ (buffer[r] = 0 => Ahead(<< >>, 0, buffer[r]))
  BY <1>2 DEF Within, Ends, Ahead
<1>4. CASE buffer[r] > 0
  <2>1. client'[c] = "replaying" /\ Deliver(c, nextSeq[c])
    BY <1>1, <1>4 DEF Subscribe, Base, TypeInv, TypeOK
  <2>2. /\ nextSeq'[c] = 1 /\ Len(got'[c]) = nextSeq'[c]
        /\ \A i \in 1..Len(got'[c]) : got'[c][i] = <<source'[c], i - 1>>
    BY <1>1, <1>2, <2>1, Delivered
  <2>. QED
    BY <1>1, <1>2, <1>3, <1>4, <2>1, <2>2 DEF Stream, IsOver
<1>5. CASE buffer[r] = 0 /\ status[r] = "running"
  <2>1. client'[c] = "live" /\ UNCHANGED <<got, nextSeq>>
    BY <1>1, <1>5 DEF Subscribe, Base, TypeInv, TypeOK
  <2>2. ~IsOver(r)
    BY <1>5 DEF IsOver, Terminal
  <2>. QED
    BY <1>1, <1>2, <1>3, <1>5, <2>1, <2>2 DEF Stream, IsOver
<1>6. CASE buffer[r] = 0 /\ status[r] # "running"
  <2>1. client'[c] = "closed" /\ UNCHANGED <<got, nextSeq>>
    BY <1>1, <1>6 DEF Subscribe, Base, TypeInv, TypeOK
  <2>2. IsOver(r)
    BY <1>1, <1>6 DEF Base, LifeInv, Life, IsOver, Terminal, TypeInv, TypeOK
  <2>. QED
    BY <1>1, <1>2, <1>6, <2>1, <2>2, Closed
<1>. QED
  BY <1>2, <1>4, <1>5, <1>6

LEMMA ReplayStream ==
    ASSUME Base, NEW c \in Clients, Stream(c), Replay(c)
    PROVE  Stream(c)'
<1>1. PICK r \in RunIds : r = source[c] /\ r <= started /\ nextSeq[c] <= buffer[r]
  BY DEF Replay, Stream
<1>2. /\ UNCHANGED <<status, buffer, started, source>>
      /\ buffer[r] \in Nat /\ nextSeq[c] \in Nat /\ queue[c] \in Seq(Items)
      /\ Within(queue[c], buffer[r]) /\ (Ends(queue[c]) => IsOver(r))
  BY <1>1 DEF Replay, Stream, runVars, taskVars, Base, TypeInv, TypeOK, Items
<1>3. CASE nextSeq[c] < buffer[r]
  <2>1. client' = client /\ queue' = queue /\ Deliver(c, nextSeq[c])
    BY <1>1, <1>2, <1>3 DEF Replay
  <2>2. /\ nextSeq'[c] = nextSeq[c] + 1 /\ Len(got'[c]) = nextSeq'[c]
        /\ \A i \in 1..Len(got'[c]) : got'[c][i] = <<source'[c], i - 1>>
    BY <1>1, <1>2, <2>1, Delivered
  <2>3. client[c] = "replaying" /\ nextSeq'[c] <= buffer[r]
    BY <1>2, <1>3, <2>2 DEF Replay
  <2>. QED
    BY <1>1, <1>2, <2>1, <2>2, <2>3 DEF Stream, IsOver
<1>4. CASE nextSeq[c] >= buffer[r] /\ status[r] = "running"
  <2>1. client'[c] = "live" /\ UNCHANGED <<got, nextSeq, queue>>
    BY <1>1, <1>2, <1>4 DEF Replay, Base, TypeInv, TypeOK
  <2>2. ~IsOver(r)
    BY <1>4 DEF IsOver, Terminal
  <2>3. Ahead(queue[c], nextSeq[c], buffer[r])
    BY <1>2, <1>4, Numbers DEF Ahead, Within
  <2>. QED
    BY <1>1, <1>2, <2>1, <2>2, <2>3 DEF Stream, IsOver
<1>5. CASE nextSeq[c] >= buffer[r] /\ status[r] # "running"
  <2>1. client'[c] = "closed" /\ UNCHANGED <<got, nextSeq>> /\ nextSeq[c] = buffer[r]
    BY <1>1, <1>2, <1>5 DEF Replay, Unsubscribe, Base, TypeInv, TypeOK
  <2>2. IsOver(r)
    BY <1>1, <1>5 DEF Base, LifeInv, Life, IsOver, Terminal, TypeInv, TypeOK
  <2>. QED
    BY <1>1, <1>2, <2>1, <2>2, Closed
<1>. QED
  BY <1>2, <1>3, <1>4, <1>5

LEMMA ReceiveStream ==
    ASSUME Base, NEW c \in Clients, Stream(c), Receive(c)
    PROVE  Stream(c)'
<1>1. PICK r \in RunIds : r = source[c] /\ r <= started /\ nextSeq[c] <= buffer[r]
  BY DEF Receive, Stream
<1>2. /\ UNCHANGED <<status, buffer, started, source, client>>
      /\ client[c] = "live" /\ queue'[c] = Tail(queue[c])
      /\ buffer[r] \in Nat /\ nextSeq[c] \in Nat
      /\ queue[c] \in Seq(Items) /\ queue[c] # << >> /\ Head(queue[c]) # END
  BY <1>1 DEF Receive, runVars, taskVars, Base, TypeInv, TypeOK, Items
<1>3. /\ Ahead(queue[c], nextSeq[c], buffer[r]) /\ Within(queue[c], buffer[r])
      /\ (Ends(queue[c]) => IsOver(r)) /\ (IsOver(r) => Ends(queue[c]))
  BY <1>1, <1>2 DEF Stream
<1>4. Within(Tail(queue[c]), buffer[r]) /\ (Ends(Tail(queue[c])) <=> Ends(queue[c]))
  BY <1>2, <1>3, TakenEnds
<1>5. Head(queue[c]) \in Int /\ Head(queue[c]) < buffer[r]
  BY <1>2, <1>3, Taken DEF Within
<1>6. CASE Head(queue[c]) >= nextSeq[c]
  <2>1. Head(queue[c]) = nextSeq[c] /\ Ahead(Tail(queue[c]), nextSeq[c] + 1, buffer[r])
    <3>1. Head(queue[c]) + 1 \in Nat
      BY <1>2, <1>5, <1>6
    <3>. QED
      BY <1>2, <1>3, <1>6, <3>1, TakenAhead
  <2>2. Deliver(c, nextSeq[c])
    BY <1>6, <2>1 DEF Receive, IsNew
  <2>3. /\ nextSeq'[c] = nextSeq[c] + 1 /\ Len(got'[c]) = nextSeq'[c]
        /\ \A i \in 1..Len(got'[c]) : got'[c][i] = <<source'[c], i - 1>>
    BY <1>1, <1>2, <2>2, Delivered
  <2>4. nextSeq'[c] <= buffer[r]
    BY <1>2, <1>5, <2>1, <2>3
  <2>. QED
    BY <1>1, <1>2, <1>3, <1>4, <2>1, <2>3, <2>4 DEF Stream, IsOver
<1>7. CASE ~(Head(queue[c]) >= nextSeq[c])
  <2>1. UNCHANGED <<got, nextSeq>>
    BY <1>7 DEF Receive, IsNew
  <2>2. Ahead(Tail(queue[c]), nextSeq[c], buffer[r])
    <3>1. Head(queue[c]) < nextSeq[c]
      BY <1>2, <1>5, <1>7
    <3>. QED
      BY <1>2, <1>3, <3>1, TakenAhead
  <2>. QED
    BY <1>1, <1>2, <1>3, <1>4, <2>1, <2>2 DEF Stream, IsOver
<1>. QED
  BY <1>6, <1>7

\* The sentinel is in a queue only when the run is over.
LEMMA FlushStream ==
    ASSUME Base, NEW c \in Clients, Stream(c), ReceiveEnd(c) \/ Flush(c)
    PROVE  Stream(c)'
<1>1. PICK r \in RunIds : r = source[c] /\ r <= started /\ nextSeq[c] <= buffer[r]
  BY DEF ReceiveEnd, Flush, Stream
<1>2. /\ UNCHANGED <<status, buffer, started, source>> /\ FlushOrClose(c)
      /\ buffer[r] \in Nat /\ nextSeq[c] \in Nat /\ queue[c] \in Seq(Items)
  BY <1>1 DEF ReceiveEnd, Flush, runVars, taskVars, Base, TypeInv, TypeOK, Items
<1>3. IsOver(r)
  <2>1. CASE ReceiveEnd(c)
    <3>1. /\ queue[c] # << >> /\ Head(queue[c]) = END
          /\ (Ends(queue[c]) => IsOver(r))
      BY <1>1, <2>1 DEF ReceiveEnd, Stream
    <3>2. Ends(queue[c])
      BY <1>2, <3>1, Taken DEF Ends
    <3>. QED
      BY <3>1, <3>2
  <2>2. CASE Flush(c)
    BY <1>1, <2>2 DEF Flush, Stream
  <2>. QED
    BY <2>1, <2>2
<1>4. CASE nextSeq[c] < buffer[r]
  <2>1. client'[c] = "flushing" /\ Deliver(c, nextSeq[c])
    BY <1>1, <1>2, <1>4 DEF FlushOrClose, Base, TypeInv, TypeOK
  <2>2. /\ nextSeq'[c] = nextSeq[c] + 1 /\ Len(got'[c]) = nextSeq'[c]
        /\ \A i \in 1..Len(got'[c]) : got'[c][i] = <<source'[c], i - 1>>
    BY <1>1, <1>2, <2>1, Delivered
  <2>3. nextSeq'[c] <= buffer[r]
    BY <1>2, <1>4, <2>2
  <2>. QED
    BY <1>1, <1>2, <1>3, <2>1, <2>2, <2>3 DEF Stream, IsOver
<1>5. CASE nextSeq[c] >= buffer[r]
  <2>1. client'[c] = "closed" /\ UNCHANGED <<got, nextSeq>> /\ nextSeq[c] = buffer[r]
    BY <1>1, <1>2, <1>5 DEF FlushOrClose, Unsubscribe, Base, TypeInv, TypeOK
  <2>. QED
    BY <1>1, <1>2, <1>3, <2>1, Closed
<1>. QED
  BY <1>2, <1>4, <1>5

LEMMA ClientStream ==
    ASSUME Base, NEW c \in Clients, ClientStep(c) \/ Disconnect(c),
           NEW d \in Clients, Stream(d)
    PROVE  Stream(d)'
<1>1. UNCHANGED <<status, buffer, started, source>>
  BY DEF ClientStep, Disconnect, Subscribe, Replay, Receive, ReceiveEnd, Flush,
      runVars, taskVars
<1>2. CASE d # c
  <2>1. /\ client'[d] = client[d] /\ nextSeq'[d] = nextSeq[d]
        /\ got'[d] = got[d] /\ queue'[d] = queue[d]
    BY <1>2 DEF ClientStep, Disconnect, Subscribe, Replay, Receive, ReceiveEnd, Flush,
        FlushOrClose, Deliver, Unsubscribe, Base, TypeInv, TypeOK
  <2>. QED
    BY <1>1, <2>1, Kept
<1>3. CASE d = c /\ ClientStep(c)
  BY <1>3, SubscribeStream, ReplayStream, ReceiveStream, FlushStream DEF ClientStep
<1>4. CASE d = c /\ Disconnect(c)
  <2>1. client'[c] = "idle" /\ UNCHANGED <<got, nextSeq>>
    BY <1>4 DEF Disconnect, Unsubscribe, Base, TypeInv, TypeOK
  <2>. QED
    BY <1>1, <1>4, <2>1 DEF Stream
<1>. QED
  BY <1>2, <1>3, <1>4

LEMMA NextStream == Base /\ StreamInv /\ [Next]_vars => StreamInv'
<1>. SUFFICES ASSUME Base, StreamInv, [Next]_vars, NEW d \in Clients PROVE Stream(d)'
  BY DEF StreamInv
<1>0. Stream(d)
  BY DEF StreamInv
<1>1. CASE UNCHANGED vars
  BY <1>0, <1>1, Kept DEF vars, runVars, taskVars, clientVars
<1>2. ASSUME NEW s \in Sessions, Stop(s) PROVE Stream(d)'
  BY <1>0, <1>2, Kept DEF Stop, runVars, clientVars
<1>3. ASSUME NEW r \in RunIds, Evict(r) PROVE Stream(d)'
  BY <1>0, <1>3, Kept DEF Evict, clientVars
<1>4. ASSUME NEW s \in Sessions, NEW c \in Clients, Resume(c, s) PROVE Stream(d)'
  <2>1. UNCHANGED <<status, buffer, started, queue>>
    BY <1>4 DEF Resume, runVars, taskVars
  <2>2. CASE d = c
    <3>1. PICK r \in RunIds : r = registered[s] /\ r <= started
      BY <1>4, RegisteredOnce DEF Resume, Base
    <3>2. client'[c] = "bound" /\ source'[c] = r /\ nextSeq'[c] = 0 /\ got'[c] = << >>
      BY <1>4, <3>1 DEF Resume, Base, TypeInv, TypeOK
    <3>. QED
      BY <2>1, <2>2, <3>1, <3>2, Bound
  <2>3. CASE d # c
    <3>1. /\ client'[d] = client[d] /\ source'[d] = source[d]
          /\ nextSeq'[d] = nextSeq[d] /\ got'[d] = got[d]
      BY <1>4, <2>3 DEF Resume, Base, TypeInv, TypeOK
    <3>. QED
      BY <1>0, <2>1, <3>1, Kept
  <2>. QED
    BY <2>2, <2>3
<1>. QED
  BY <1>0, <1>1, <1>2, <1>3, <1>4, StartStream, TaskStream, ClientStream DEF Next

LEMMA StreamAlways == Spec => []StreamInv
BY InitStream, NextStream, BaseAlways, PTL DEF Spec

\* ReplayExact: a client receives the events of the run it asked for, from the
\* first, in order, none twice and none left out.
THEOREM ReplaysAreExact == Spec => []ReplayExact
<1>1. StreamInv => ReplayExact
  BY DEF StreamInv, Stream, ReplayExact
<1>. QED
  BY <1>1, StreamAlways, PTL

\* SentinelPending: the end of a run that is over is in the queue of each of
\* its live clients, so that no response waits for a time limit.
THEOREM SentinelsArePending == Spec => []SentinelPending
<1>1. StreamInv => SentinelPending
  BY DEF StreamInv, Stream, SentinelPending, Ends
<1>. QED
  BY <1>1, StreamAlways, PTL

\* ClosedComplete: a response ends by itself only when its run is over and its
\* client has the whole buffer, up to the notice of a save that raised later.
THEOREM ClosedAreComplete == Spec => []ClosedComplete
<1>1. StreamInv => ClosedComplete
  BY DEF StreamInv, Stream, ClosedComplete
<1>. QED
  BY <1>1, StreamAlways, PTL

-----------------------------------------------------------------------------
(* The manager implements ReplayPromise.                                   *)

\* What a step of the manager is for client c, in the terms of the promise.
Promised(c) ==
    \/ Promise!Idle(c) \/ Promise!Open(c) \/ Promise!Read(c)
    \/ Promise!Finish(c) \/ Promise!Leave(c)

LEMMA StillPromised ==
    ASSUME Base, NEW c \in Clients, client'[c] = client[c], source'[c] = source[c],
           got'[c] = got[c]
    PROVE  Promised(c)
BY DEF Promised, Promise!Idle, Reader, Base, TypeInv, TypeOK

LEMMA DeliveryPromised ==
    ASSUME Base, NEW c \in Clients, Stream(c), source[c] \in RunIds,
           client[c] \in Subscribed \cup {"bound"}, client'[c] \in Subscribed,
           nextSeq[c] < buffer[source[c]], Deliver(c, nextSeq[c]), source'[c] = source[c]
    PROVE  Promised(c)
<1>1. Len(got[c]) = nextSeq[c] /\ got'[c] = Append(got[c], <<source[c], nextSeq[c]>>)
  BY DEF Stream, Deliver, Base, TypeInv, TypeOK
<1>. QED
  BY <1>1 DEF Promised, Promise!Read, Reader, Subscribed

LEMMA FinishPromised ==
    ASSUME Base, NEW c \in Clients, Stream(c), source[c] \in RunIds,
           client[c] \in Subscribed \cup {"bound"}, client'[c] = "closed",
           IsOver(source[c]), nextSeq[c] = buffer[source[c]],
           source'[c] = source[c], got'[c] = got[c]
    PROVE  Promised(c)
<1>1. Len(got[c]) = nextSeq[c]
  BY DEF Stream
<1>. QED
  BY <1>1 DEF Promised, Promise!Finish, Reader, Subscribed

LEMMA OpenPromised ==
    ASSUME NEW c \in Clients, client[c] \in {"idle", "closed"}, client'[c] = "bound",
           got'[c] = << >>
    PROVE  Promised(c)
BY DEF Promised, Promise!Open, Reader

\* A response body that only moves from one loop to the next.
LEMMA MovePromised ==
    ASSUME NEW c \in Clients, client[c] \in Subscribed \cup {"bound"},
           client'[c] \in Subscribed, source'[c] = source[c], got'[c] = got[c]
    PROVE  Promised(c)
BY DEF Promised, Promise!Idle, Reader, Subscribed

LEMMA BodyPromised ==
    ASSUME Base, NEW c \in Clients, Stream(c), Stream(c)', ClientStep(c)
    PROVE  Promised(c)
<1>1. PICK r \in RunIds : r = source[c] /\ r = source'[c]
  BY DEF ClientStep, Subscribe, Replay, Receive, ReceiveEnd, Flush, Stream
<1>2. /\ buffer' = buffer /\ status' = status /\ nextSeq[c] <= buffer[r]
      /\ buffer[r] \in Nat /\ nextSeq[c] \in Nat
      /\ client[c] \in Subscribed \cup {"bound"}
      /\ (client[c] = "bound" => nextSeq[c] = 0)
  BY <1>1 DEF ClientStep, Subscribe, Replay, Receive, ReceiveEnd, Flush, taskVars,
       Subscribed, Stream, Base, TypeInv, TypeOK
<1>3. ASSUME nextSeq[c] < buffer[r], Deliver(c, nextSeq[c]), client'[c] \in Subscribed
      PROVE  Promised(c)
  BY <1>1, <1>2, <1>3, DeliveryPromised
<1>4. ASSUME client'[c] = "closed", got' = got, ~(nextSeq[c] < buffer[r])
      PROVE  Promised(c)
  <2>1. IsOver(r)
    BY <1>1, <1>2, <1>4 DEF Stream, IsOver
  <2>2. nextSeq[c] = buffer[r]
    BY <1>2, <1>4
  <2>. QED
    BY <1>1, <1>2, <1>4, <2>1, <2>2, FinishPromised
<1>5. ASSUME client'[c] \in Subscribed, got' = got PROVE Promised(c)
  BY <1>1, <1>2, <1>5, MovePromised
<1>6. CASE Subscribe(c)
  <2>1. CASE buffer[r] > 0
    BY <1>1, <1>2, <1>3, <1>6, <2>1 DEF Subscribe, Subscribed, Base, TypeInv, TypeOK
  <2>2. CASE ~(buffer[r] > 0)
    BY <1>1, <1>2, <1>4, <1>5, <1>6, <2>2 DEF Subscribe, Subscribed, Base, TypeInv, TypeOK
  <2>. QED
    BY <2>1, <2>2
<1>7. CASE Replay(c)
  <2>1. CASE nextSeq[c] < buffer[r]
    BY <1>1, <1>2, <1>3, <1>7, <2>1 DEF Replay, Subscribed
  <2>2. CASE ~(nextSeq[c] < buffer[r])
    BY <1>1, <1>2, <1>4, <1>5, <1>7, <2>2
       DEF Replay, Unsubscribe, Subscribed, Base, TypeInv, TypeOK
  <2>. QED
    BY <2>1, <2>2
<1>8. CASE Receive(c)
  <2>1. client' = client /\ client[c] = "live"
    BY <1>8 DEF Receive
  <2>2. CASE UNCHANGED <<got, nextSeq>>
    BY <1>5, <2>1, <2>2 DEF Subscribed
  <2>3. CASE Deliver(c, Head(queue[c])) /\ Head(queue[c]) >= nextSeq[c]
    <3>1. /\ queue[c] \in Seq(Items) /\ queue[c] # << >> /\ Head(queue[c]) \in Int
          /\ Ahead(queue[c], nextSeq[c], buffer[r]) /\ Within(queue[c], buffer[r])
      BY <1>1, <1>8, <2>1, Taken DEF Receive, Stream, Base, TypeInv, TypeOK, Items
    <3>2. Head(queue[c]) + 1 \in Nat
      BY <1>2, <2>3, <3>1
    <3>3. Head(queue[c]) = nextSeq[c]
      BY <1>2, <2>3, <3>1, <3>2, TakenAhead
    <3>4. nextSeq[c] < buffer[r]
      BY <3>1, <3>3, Taken DEF Within
    <3>. QED
      BY <1>3, <2>1, <2>3, <3>3, <3>4 DEF Subscribed
  <2>. QED
    BY <1>8, <2>2, <2>3 DEF Receive, IsNew
<1>9. CASE ReceiveEnd(c) \/ Flush(c)
  <2>1. CASE nextSeq[c] < buffer[r]
    BY <1>1, <1>2, <1>3, <1>9, <2>1
       DEF ReceiveEnd, Flush, FlushOrClose, Subscribed, Base, TypeInv, TypeOK
  <2>2. CASE ~(nextSeq[c] < buffer[r])
    BY <1>1, <1>2, <1>4, <1>9, <2>2
       DEF ReceiveEnd, Flush, FlushOrClose, Unsubscribe, Base, TypeInv, TypeOK
  <2>. QED
    BY <2>1, <2>2
<1>. QED
  BY <1>6, <1>7, <1>8, <1>9 DEF ClientStep

LEMMA ClientPromised ==
    ASSUME Base, StreamInv, StreamInv', [Next]_vars, NEW d \in Clients
    PROVE  Promised(d)
<1>0. Stream(d) /\ Stream(d)'
  BY DEF StreamInv
<1>1. CASE UNCHANGED vars
  BY <1>1, StillPromised DEF vars, clientVars
<1>2. ASSUME NEW s \in Sessions, Stop(s) PROVE Promised(d)
  BY <1>2, StillPromised DEF Stop, clientVars
<1>3. ASSUME NEW r \in RunIds, TaskStep(r) \/ ModelStep(r) \/ Evict(r) PROVE Promised(d)
  <2>1. UNCHANGED clientVars
    BY <1>3, TaskLife DEF Evict
  <2>. QED
    BY <2>1, StillPromised DEF clientVars
<1>4. ASSUME NEW s \in Sessions, NEW c \in Clients, Start(s, c) \/ Resume(c, s)
      PROVE  Promised(d)
  <2>1. CASE d = c
    <3>1. client[c] \in {"idle", "closed"} /\ client'[c] = "bound" /\ got'[c] = << >>
      BY <1>4 DEF Start, Resume, Base, TypeInv, TypeOK
    <3>. QED
      BY <2>1, <3>1, OpenPromised
  <2>2. CASE d # c
    <3>1. client'[d] = client[d] /\ source'[d] = source[d] /\ got'[d] = got[d]
      BY <1>4, <2>2 DEF Start, Resume, Base, TypeInv, TypeOK
    <3>. QED
      BY <3>1, StillPromised
  <2>. QED
    BY <2>1, <2>2
<1>5. ASSUME NEW c \in Clients, ClientStep(c) \/ Disconnect(c), d # c PROVE Promised(d)
  <2>1. client'[d] = client[d] /\ source'[d] = source[d] /\ got'[d] = got[d]
    BY <1>5 DEF ClientStep, Disconnect, Subscribe, Replay, Receive, ReceiveEnd, Flush,
        FlushOrClose, Deliver, Unsubscribe, Base, TypeInv, TypeOK
  <2>. QED
    BY <2>1, StillPromised
<1>6. ASSUME Disconnect(d) PROVE Promised(d)
  BY <1>6 DEF Disconnect, Unsubscribe, Promised, Promise!Leave, Reader, Subscribed, Base,
       TypeInv, TypeOK
<1>7. ASSUME ClientStep(d) PROVE Promised(d)
  BY <1>0, <1>7, BodyPromised
<1>. QED
  BY <1>1, <1>2, <1>3, <1>4, <1>5, <1>6, <1>7 DEF Next

\* KeepsPromise: whatever the tasks, queues and timers do, the manager behaves
\* as the sealed logs and their readers that its docstring speaks of.
THEOREM ManagerKeepsPromise == Spec => KeepsPromise
<1>1. Init => Promise!Init
  <2>. SUFFICES ASSUME Init PROVE Promise!Init
    OBVIOUS
  <2>1. \A r \in RunIds : IsOver(r) = FALSE /\ (status[r] = "error") = FALSE
    BY DEF Init, IsOver, Terminal
  <2>2. \A c \in Clients : Reader(c) = "away"
    BY DEF Init, Reader
  <2>3. /\ [r \in RunIds |-> IsOver(r)] = [r \in RunIds |-> FALSE]
        /\ [r \in RunIds |-> status[r] = "error"] = [r \in RunIds |-> FALSE]
        /\ [c \in Clients |-> Reader(c)] = [c \in Clients |-> "away"]
    BY <2>1, <2>2
  <2>. QED
    BY <2>3 DEF Init, Promise!Init
<1>2. Base /\ StreamInv /\ StreamInv' /\ [Next]_vars => Promise!Next
  <2>. SUFFICES ASSUME Base, StreamInv, StreamInv', [Next]_vars PROVE Promise!Next
    OBVIOUS
  <2>1. ASSUME NEW r \in RunIds PROVE Promise!LogStep(r)
    BY NextLog DEF LogKept, Promise!LogStep, IsOver, Base, TypeInv, TypeOK
  <2>2. ASSUME NEW c \in Clients PROVE Promise!ReaderStep(c)
    BY ClientPromised DEF Promise!ReaderStep, Promised
  <2>. QED
    BY <2>1, <2>2 DEF Promise!Next
<1>. QED
  BY <1>1, <1>2, BaseAlways, StreamAlways, PTL DEF Spec, KeepsPromise, Promise!Spec

=============================================================================
