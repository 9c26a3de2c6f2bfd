--------------------------- MODULE AgentRunsProofs ---------------------------
(***************************************************************************)
(* Proofs about AgentRuns, for every number of sessions, clients, runs and *)
(* events.                                                                 *)
(***************************************************************************)
EXTENDS AgentRuns, SequenceTheorems, TLAPS

Statuses == Terminal \cup {"unborn", "running"}

\* What the queues of subscribers hold.
Items == Nat \cup {END}

\* A client that asked for a run has one.
Attached == \A c \in Clients : client[c] # "idle" => source[c] \in RunIds

\* Only runs that were started are registered.
RegisteredStarted == \A s \in Sessions : registered[s] <= started

TypeInv == TypeOK /\ Attached /\ RegisteredStarted

-----------------------------------------------------------------------------
(* Types of the helpers.                                                   *)

LEMMA NextEventsType ==
    ASSUME TypeOK, NEW r \in RunIds, NEW n \in Nat
    PROVE  /\ NextEvents(r, n) \in Seq(Items)
           /\ Len(NextEvents(r, n)) = n
<1>1. buffer[r] \in Nat
  BY DEF TypeOK
<1>2. \A i \in 1..n : buffer[r] + i - 1 \in Items
  BY <1>1 DEF Items
<1>3. NextEvents(r, n) \in [1..n -> Items]
  BY <1>2 DEF NextEvents
<1>. QED
  BY <1>3, SeqDef, LenProperties

LEMMA FannedType ==
    ASSUME TypeOK, NEW r \in RunIds, NEW items \in Seq(Items)
    PROVE  Fanned(r, items) \in [Clients -> Seq(Items)]
<1>. SUFFICES ASSUME NEW c \in Clients
              PROVE  /\ queue[c] \in Seq(Items)
                     /\ queue[c] \o items \in Seq(Items)
  BY DEF Fanned
<1>1. queue[c] \in Seq(Items)
  BY DEF TypeOK, Items
<1>. QED
  BY <1>1, ConcatProperties

LEMMA WokenType ==
    ASSUME TypeOK, NEW R
    PROVE  Woken(R) \in [Clients -> Seq(Items)]
<1>. SUFFICES ASSUME NEW c \in Clients
              PROVE  /\ queue[c] \in Seq(Items)
                     /\ Append(queue[c], END) \in Seq(Items)
  BY DEF Woken
<1>1. queue[c] \in Seq(Items) /\ END \in Items
  BY DEF TypeOK, Items
<1>. QED
  BY <1>1, AppendProperties

LEMMA ArmedForType ==
    ASSUME TypeOK, NEW R
    PROVE  ArmedFor(R) \in [RunIds -> BOOLEAN]
BY DEF TypeOK, ArmedFor

LEMMA FinishedType ==
    ASSUME TypeOK, NEW r \in RunIds, NEW st \in Statuses,
           NEW events \in Seq(Items), Finished(r, st, events)
    PROVE  /\ task' \in [RunIds -> TaskStates]
           /\ status' \in [RunIds -> Statuses]
           /\ queue' \in [Clients -> Seq(Items)]
           /\ buffer' \in [RunIds -> Nat]
           /\ armed' \in [RunIds -> BOOLEAN]
<1>1. Append(events, END) \in Seq(Items)
  BY AppendProperties DEF Items
<1>2. Len(events) \in Nat
  BY LenProperties
<1>3. queue' \in [Clients -> Seq(Items)]
  BY <1>1, FannedType DEF Finished
<1>4. armed' \in [RunIds -> BOOLEAN]
  BY ArmedForType DEF Finished
<1>5. buffer' \in [RunIds -> Nat]
  BY <1>2 DEF TypeOK, Finished
<1>. QED
  BY <1>3, <1>4, <1>5 DEF TypeOK, Finished, TaskStates, Statuses

LEMMA DeliverType ==
    ASSUME TypeOK, NEW c \in Clients, NEW n \in Nat, source[c] \in RunIds,
           Deliver(c, n)
    PROVE  /\ got' \in [Clients -> Seq(RunIds \X Nat)]
           /\ nextSeq' \in [Clients -> Nat]
<1>1. got[c] \in Seq(RunIds \X Nat) /\ <<source[c], n>> \in RunIds \X Nat
  BY DEF TypeOK
<1>2. Append(got[c], <<source[c], n>>) \in Seq(RunIds \X Nat)
  BY <1>1, AppendProperties
<1>. QED
  BY <1>2 DEF TypeOK, Deliver

LEMMA UnsubscribeType ==
    ASSUME TypeOK, NEW c \in Clients, NEW to \in ClientStates,
           Unsubscribe(c, to)
    PROVE  /\ client' \in [Clients -> ClientStates]
           /\ armed' \in [RunIds -> BOOLEAN]
           /\ queue' \in [Clients -> Seq(Items)]
<1>1. armed' \in [RunIds -> BOOLEAN]
  BY ArmedForType DEF TypeOK, Unsubscribe
<1>2. << >> \in Seq(Items)
  OBVIOUS
<1>3. queue' \in [Clients -> Seq(Items)]
  BY <1>2 DEF TypeOK, Unsubscribe, Items
<1>. QED
  BY <1>1, <1>3 DEF TypeOK, Unsubscribe

-----------------------------------------------------------------------------
(* Type correctness.                                                       *)

LEMMA InitType == Init => TypeInv
BY ConstantsAssumption
   DEF Init, TypeInv, TypeOK, Attached, RegisteredStarted, RunIds, NoRun,
       TaskStates, ClientStates, Terminal

LEMMA StartType ==
    ASSUME TypeInv, NEW s \in Sessions, NEW c \in Clients, Start(s, c)
    PROVE  TypeInv'
<1> DEFINE r == started + 1
<1>1. r \in RunIds /\ r \in 0..MaxRuns /\ started' = r
  BY ConstantsAssumption DEF TypeInv, TypeOK, Start, RunIds
<1>2. Predecessor(s) \in 0..MaxRuns /\ Predecessor(s) < r
  BY ConstantsAssumption
     DEF TypeInv, TypeOK, RegisteredStarted, Predecessor, NoRun
<1>3. queue' \in [Clients -> Seq(Items)]
  BY WokenType DEF TypeInv, Start
<1>4. /\ registered' \in [Sessions -> 0..MaxRuns]
      /\ sessionOf' \in [RunIds -> Sessions \cup {NoRun}]
      /\ prev' \in [RunIds -> 0..MaxRuns]
      /\ \A x \in RunIds : prev'[x] = NoRun \/ prev'[x] < x
      /\ RegisteredStarted'
  BY <1>1, <1>2 DEF TypeInv, TypeOK, RegisteredStarted, Start
<1>5. /\ status' \in [RunIds -> Terminal \cup {"unborn", "running"}]
      /\ task' \in [RunIds -> TaskStates]
      /\ cancelled' \in [RunIds -> BOOLEAN]
      /\ armed' \in [RunIds -> BOOLEAN]
      /\ buffer' \in [RunIds -> Nat] /\ cut' \in [RunIds -> BOOLEAN]
  BY <1>1 DEF TypeInv, TypeOK, Start, TaskStates, Terminal
<1>6. /\ client' \in [Clients -> ClientStates]
      /\ source' \in [Clients -> 0..MaxRuns]
      /\ nextSeq' \in [Clients -> Nat]
      /\ got' \in [Clients -> Seq(RunIds \X Nat)]
      /\ Attached'
  BY <1>1 DEF TypeInv, TypeOK, Attached, Start, ClientStates, Subscribed
<1>. QED
  BY <1>1, <1>3, <1>4, <1>5, <1>6 DEF TypeInv, TypeOK, Items

LEMMA StopType ==
    ASSUME TypeInv, NEW s \in Sessions, Stop(s)
    PROVE  TypeInv'
BY DEF TypeInv, TypeOK, Attached, RegisteredStarted, Stop, InFlight, runVars,
       clientVars

LEMMA TaskStepType ==
    ASSUME TypeInv, NEW r \in RunIds, TaskStep(r) \/ ModelStep(r)
    PROVE  TypeInv'
<1>1. ASSUME NEW st \in Statuses, NEW events \in Seq(Items),
             Finished(r, st, events),
             cancelled' \in [RunIds -> BOOLEAN],
             cut' \in [RunIds -> BOOLEAN], UNCHANGED <<runVars, clientVars>>
      PROVE  TypeInv'
  BY <1>1, FinishedType
     DEF TypeInv, TypeOK, Attached, RegisteredStarted, runVars, clientVars,
         Items, Statuses
<1>2. << >> \in Seq(Items) /\ {"stopped", "error", "done"} \subseteq Statuses
  BY DEF Statuses, Terminal
<1>3. CASE Begin(r) \/ CancelUnstarted(r) \/ PredecessorDone(r) \/ CancelStream(r)
  <2>1. /\ task' \in [RunIds -> TaskStates]
        /\ cancelled' \in [RunIds -> BOOLEAN]
        /\ cut' \in [RunIds -> BOOLEAN]
    BY <1>3 DEF TypeInv, TypeOK, Begin, CancelUnstarted, PredecessorDone,
         CancelStream, TaskStates, PrevDone
  <2>2. UNCHANGED <<runVars, status, buffer, armed, clientVars, queue>>
    BY <1>3 DEF Begin, CancelUnstarted, PredecessorDone, CancelStream
  <2>. QED
    BY <2>1, <2>2
       DEF TypeInv, TypeOK, Attached, RegisteredStarted, runVars, clientVars
<1>4. CASE CancelWaiting(r)
  <2>1. CASE Finished(r, "stopped", << >>)
    BY <1>1, <1>2, <1>4, <2>1 DEF CancelWaiting, Stopped, TypeInv, TypeOK
  <2>2. CASE ~Finished(r, "stopped", << >>)
    <3>1. <<END>> \in Seq(Items)
      BY DEF Items
    <3>2. queue' \in [Clients -> Seq(Items)]
      <4>1. queue' = Fanned(r, << END >>)
        BY <1>4, <2>2 DEF CancelWaiting, Stopped
      <4>. QED
        BY <3>1, <4>1, FannedType DEF TypeInv
    <3>. QED
      BY <1>4, <2>2, <3>2
         DEF CancelWaiting, Stopped, TypeInv, TypeOK, Attached,
             RegisteredStarted, runVars, clientVars, Terminal, TaskStates, Items
  <2>. QED
    BY <2>1, <2>2
<1>5. CASE Unwound(r)
  BY <1>1, <1>2, <1>5 DEF Unwound, TypeInv, TypeOK
<1>6. CASE UnwindFails(r)
  BY <1>1, <1>2, <1>6, NextEventsType DEF UnwindFails, TypeInv, TypeOK
<1>7. CASE ShieldOver(r)
  BY <1>7, ArmedForType
     DEF TypeInv, TypeOK, Attached, RegisteredStarted, ShieldOver, runVars,
         clientVars, TaskStates, PrevDone
<1>8. CASE Emit(r)
  <2>1. queue' \in [Clients -> Seq(Items)]
    BY <1>8, NextEventsType, FannedType DEF TypeInv, Emit
  <2>. QED
    BY <1>8, <2>1
       DEF TypeInv, TypeOK, Attached, RegisteredStarted, Emit, runVars,
           taskVars, clientVars, Items
<1>9. CASE Complete(r)
  <2>1. EndStatus(r) \in Statuses
    BY DEF EndStatus, TypeInv, TypeOK, Statuses, Terminal
  <2>. QED
    BY <1>1, <1>9, <2>1, NextEventsType DEF Complete, TypeInv, TypeOK
<1>10. CASE Fail(r)
  BY <1>1, <1>2, <1>10, NextEventsType DEF Fail, TypeInv, TypeOK
<1>. QED
  BY <1>3, <1>4, <1>5, <1>6, <1>7, <1>8, <1>9, <1>10 DEF TaskStep, ModelStep

LEMMA EvictType ==
    ASSUME TypeInv, NEW r \in RunIds, Evict(r)
    PROVE  TypeInv'
<1>1. registered' \in [Sessions -> 0..MaxRuns] /\ RegisteredStarted'
  <2>1. \A s \in Sessions : registered'[s] \in {NoRun, registered[s]}
    BY DEF Evict, TypeInv, TypeOK
  <2>2. registered' = [s \in Sessions |-> registered'[s]]
    BY DEF Evict, TypeInv, TypeOK
  <2>3. started' = started /\ started \in 0..MaxRuns /\ NoRun \in 0..MaxRuns
    BY ConstantsAssumption DEF Evict, TypeInv, TypeOK, NoRun
  <2>4. \A s \in Sessions : registered[s] \in 0..MaxRuns /\ registered[s] <= started
    BY DEF TypeInv, TypeOK, RegisteredStarted
  <2>5. RegisteredStarted'
    BY <2>1, <2>3, <2>4 DEF RegisteredStarted, NoRun
  <2>6. \A s \in Sessions : registered'[s] \in 0..MaxRuns
    BY <2>1, <2>3, <2>4
  <2>. QED
    BY <2>2, <2>5, <2>6
<1>2. armed' \in [RunIds -> BOOLEAN] /\ cut' \in [RunIds -> BOOLEAN]
  BY DEF Evict, Evictable, TypeInv, TypeOK
<1>. QED
  BY <1>1, <1>2 DEF Evict, TypeInv, TypeOK, Attached, clientVars

LEMMA ResumeType ==
    ASSUME TypeInv, NEW c \in Clients, NEW s \in Sessions, Resume(c, s)
    PROVE  TypeInv'
<1>1. registered[s] \in RunIds
  BY DEF Resume, TypeInv, TypeOK, RunIds, NoRun
<1>2. /\ got' = [got EXCEPT ![c] = << >>] /\ << >> \in Seq(RunIds \X Nat)
      /\ nextSeq' = [nextSeq EXCEPT ![c] = 0] /\ 0 \in Nat
      /\ client' = [client EXCEPT ![c] = "bound"] /\ "bound" \in ClientStates
      /\ source' = [source EXCEPT ![c] = registered[s]]
      /\ registered[s] \in 0..MaxRuns
  BY DEF Resume, ClientStates, TypeInv, TypeOK
<1>3. got' \in [Clients -> Seq(RunIds \X Nat)]
  BY <1>2 DEF TypeInv, TypeOK
<1>4. /\ client' \in [Clients -> ClientStates]
      /\ source' \in [Clients -> 0..MaxRuns]
      /\ nextSeq' \in [Clients -> Nat]
  BY <1>2 DEF TypeInv, TypeOK
<1>5. Attached'
  BY <1>1, <1>2 DEF Attached, TypeInv, TypeOK
<1>6. UNCHANGED <<runVars, taskVars, buffer, armed, queue>>
  BY DEF Resume
<1>. QED
  BY <1>3, <1>4, <1>5, <1>6
     DEF TypeInv, TypeOK, RegisteredStarted, runVars, taskVars

\* What the steps of a response body change, and what they leave alone.
LEMMA ClientFrame ==
    ASSUME TypeInv, NEW c \in Clients,
           UNCHANGED <<runVars, taskVars, buffer, source>>,
           client' \in [Clients -> ClientStates],
           \A d \in Clients : client'[d] # "idle" => client[d] # "idle",
           armed' \in [RunIds -> BOOLEAN],
           queue' \in [Clients -> Seq(Items)],
           got' \in [Clients -> Seq(RunIds \X Nat)],
           nextSeq' \in [Clients -> Nat]
    PROVE  TypeInv'
BY DEF TypeInv, TypeOK, Attached, RegisteredStarted, runVars, taskVars, Items

LEMMA ClientStepType ==
    ASSUME TypeInv, NEW c \in Clients, ClientStep(c) \/ Disconnect(c)
    PROVE  TypeInv'
<1> DEFINE r == source[c]
<1>1. client[c] # "idle" /\ r \in RunIds
  BY DEF ClientStep, Disconnect, Subscribe, Replay, Receive, ReceiveEnd, Flush,
      Subscribed, TypeInv, Attached
<1>2. /\ buffer[r] \in Nat /\ nextSeq[c] \in Nat
      /\ queue[c] \in Seq(Items) /\ << >> \in Seq(Items)
      /\ got \in [Clients -> Seq(RunIds \X Nat)]
      /\ nextSeq \in [Clients -> Nat] /\ armed \in [RunIds -> BOOLEAN]
      /\ queue \in [Clients -> Seq(Items)]
      /\ client \in [Clients -> ClientStates]
  BY <1>1 DEF TypeInv, TypeOK, Items
<1>3. {"live", "replaying", "flushing", "closed", "idle"} \subseteq ClientStates
  BY DEF ClientStates, Subscribed
<1>4. queue[c] # << >> => Tail(queue[c]) \in Seq(Items) /\ Head(queue[c]) \in Items
  BY <1>2, HeadTailProperties
<1>5. CASE Subscribe(c)
  <2>1. armed' \in [RunIds -> BOOLEAN]
    BY <1>1, <1>2, <1>5 DEF Subscribe
  <2>2. client' \in [Clients -> ClientStates] /\ queue' \in [Clients -> Seq(Items)]
    BY <1>2, <1>3, <1>5 DEF Subscribe
  <2>3. /\ got' \in [Clients -> Seq(RunIds \X Nat)]
        /\ nextSeq' \in [Clients -> Nat]
    BY <1>1, <1>2, <1>5, DeliverType DEF Subscribe, TypeInv
  <2>. QED
    BY <1>1, <1>2, <1>5, <2>1, <2>2, <2>3, ClientFrame DEF Subscribe
<1>6. CASE Replay(c)
  <2>1. /\ got' \in [Clients -> Seq(RunIds \X Nat)]
        /\ nextSeq' \in [Clients -> Nat]
    BY <1>1, <1>2, <1>6, DeliverType DEF Replay, TypeInv
  <2>2. /\ armed' \in [RunIds -> BOOLEAN]
        /\ client' \in [Clients -> ClientStates]
        /\ queue' \in [Clients -> Seq(Items)]
    BY <1>2, <1>3, <1>6, UnsubscribeType DEF Replay, TypeInv
  <2>3. \A d \in Clients : client'[d] # "idle" => client[d] # "idle"
    BY <1>1, <1>2, <1>6 DEF Replay, Unsubscribe
  <2>. QED
    BY <1>6, <2>1, <2>2, <2>3, ClientFrame DEF Replay
<1>7. CASE Receive(c)
  <2>1. Head(queue[c]) \in Nat
    BY <1>4, <1>7 DEF Receive, Items
  <2>2. /\ got' \in [Clients -> Seq(RunIds \X Nat)]
        /\ nextSeq' \in [Clients -> Nat]
    BY <1>1, <1>2, <1>7, <2>1, DeliverType DEF Receive, TypeInv
  <2>3. queue' \in [Clients -> Seq(Items)]
    BY <1>2, <1>4, <1>7 DEF Receive
  <2>. QED
    BY <1>2, <1>7, <2>2, <2>3, ClientFrame DEF Receive
<1>8. CASE ReceiveEnd(c) \/ Flush(c)
  <2>1. FlushOrClose(c) /\ UNCHANGED <<runVars, taskVars, buffer, source>>
    BY <1>8 DEF ReceiveEnd, Flush
  <2>2. /\ got' \in [Clients -> Seq(RunIds \X Nat)]
        /\ nextSeq' \in [Clients -> Nat]
    BY <1>1, <1>2, <2>1, DeliverType DEF FlushOrClose, TypeInv
  <2>3. /\ armed' \in [RunIds -> BOOLEAN]
        /\ client' \in [Clients -> ClientStates]
        /\ queue' \in [Clients -> Seq(Items)]
    <3>1. CASE Unsubscribe(c, "closed")
      BY <1>3, <3>1, UnsubscribeType DEF TypeInv
    <3>2. CASE ~Unsubscribe(c, "closed")
      <4>1. client[c] = "live" => queue[c] # << >>
        BY <1>8 DEF ReceiveEnd, Flush
      <4>. QED
        BY <1>2, <1>3, <1>4, <2>1, <3>2, <4>1 DEF FlushOrClose
    <3>. QED
      BY <3>1, <3>2
  <2>4. \A d \in Clients : client'[d] # "idle" => client[d] # "idle"
    BY <1>1, <1>2, <2>1 DEF FlushOrClose, Unsubscribe
  <2>. QED
    BY <2>1, <2>2, <2>3, <2>4, ClientFrame
<1>9. CASE Disconnect(c)
  <2>1. /\ armed' \in [RunIds -> BOOLEAN]
        /\ client' \in [Clients -> ClientStates]
        /\ queue' \in [Clients -> Seq(Items)]
    BY <1>2, <1>3, <1>9, UnsubscribeType DEF Disconnect, TypeInv
  <2>2. \A d \in Clients : client'[d] # "idle" => client[d] # "idle"
    BY <1>1, <1>2, <1>9 DEF Disconnect, Unsubscribe
  <2>. QED
    BY <1>2, <1>9, <2>1, <2>2, ClientFrame DEF Disconnect
<1>. QED
  BY <1>5, <1>6, <1>7, <1>8, <1>9 DEF ClientStep

\* Every step of the manager preserves the type invariant.
LEMMA NextType == TypeInv /\ [Next]_vars => TypeInv'
<1>. SUFFICES ASSUME TypeInv, [Next]_vars PROVE TypeInv'
  OBVIOUS
<1>1. CASE UNCHANGED vars
  BY <1>1 DEF TypeInv, TypeOK, Attached, RegisteredStarted, vars, runVars,
       taskVars, clientVars
<1>2. CASE Next
  BY <1>2, StartType, StopType, ResumeType, TaskStepType, EvictType,
     ClientStepType DEF Next
<1>. QED
  BY <1>1, <1>2

\* Type correctness of agent_runs.py: a run, a queue and a client are always
\* in a state the code names, whatever the callers do.
THEOREM TypeCorrect == Spec => []TypeOK
<1>1. Spec => []TypeInv
  BY InitType, NextType, PTL DEF Spec
<1>. QED
  BY <1>1, PTL DEF TypeInv

-----------------------------------------------------------------------------
(* The predecessor barrier.  SequentialUnlessCut is not inductive: it says *)
(* nothing of a run that has not yet opened its generator.  What makes it  *)
(* so is what each run knows of the runs before it (Barrier), that the     *)
(* registered run is the newest of its session (Newest), and that a        *)
(* session with no registered run has nothing left to wait for (Settled).  *)

\* No run before r let go of the barrier early.
Clear(r) == \A p \in Earlier(r) : ~cut[p]

EarlierFinished(r) == \A p \in Earlier(r) : task[p] = "finished"

\* r waits, or will wait, for the run just before it, if any needs waiting for.
KnowsPredecessor(r) ==
    \/ prev[r] = NoRun /\ EarlierFinished(r)
    \/ prev[r] \in Earlier(r) /\ \A p \in Earlier(r) : p <= prev[r]

Barrier(r) ==
    /\ task[r] \in {"created", "waiting", "shielding"} => KnowsPredecessor(r)
    /\ Writing(r) => EarlierFinished(r)
    /\ task[r] = "finished" /\ ~cut[r] => EarlierFinished(r)

Unborn ==
    \A r \in RunIds : IF r <= started THEN sessionOf[r] \in Sessions
                                      ELSE task[r] = "none"

Newest ==
    \A s \in Sessions : registered[s] # NoRun =>
        /\ sessionOf[registered[s]] = s
        /\ \A p \in 1..started : sessionOf[p] = s => p <= registered[s]

Settled ==
    \A s \in Sessions : registered[s] = NoRun =>
        \/ \A p \in 1..started : sessionOf[p] = s => task[p] = "finished"
        \/ \E q \in 1..started : sessionOf[q] = s /\ cut[q]

BarrierInv ==
    /\ Unborn /\ Newest /\ Settled
    /\ \A r \in 1..started : Clear(r) => Barrier(r)

LEMMA InitBarrier == Init => BarrierInv
BY DEF Init, BarrierInv, Unborn, Newest, Settled, RunIds, NoRun

\* Run identities that were given out.
LEMMA BornIds ==
    ASSUME TypeInv
    PROVE  /\ started \in Nat /\ started <= MaxRuns /\ 1..started \subseteq RunIds
           /\ \A r \in 1..started : Earlier(r) \subseteq 1..started
           /\ \A r \in RunIds : r \in 1..started \/ r > started
BY ConstantsAssumption DEF TypeInv, TypeOK, RunIds, Earlier

\* A predecessor that is done stands for every run before it.
LEMMA PrevDoneClear ==
    ASSUME TypeInv, BarrierInv, NEW r \in 1..started, Clear(r), PrevDone(r),
           task[r] \in {"created", "waiting", "shielding"}
    PROVE  EarlierFinished(r)
<1>1. KnowsPredecessor(r)
  BY DEF BarrierInv, Barrier
<1>2. CASE prev[r] = NoRun /\ EarlierFinished(r)
  BY <1>2
<1>3. CASE prev[r] \in Earlier(r) /\ \A p \in Earlier(r) : p <= prev[r]
  <2> DEFINE q == prev[r]
  <2>1. q \in 1..started /\ q < r /\ q \in RunIds /\ q # NoRun
    BY <1>3, BornIds DEF Earlier, NoRun, RunIds
  <2>2. Earlier(q) \subseteq Earlier(r)
    BY <1>3, <2>1, BornIds DEF Earlier
  <2>3. task[q] = "finished" /\ ~cut[q] /\ Clear(q)
    BY <1>3, <2>1, <2>2 DEF PrevDone, Clear
  <2>4. EarlierFinished(q)
    BY <2>1, <2>3 DEF BarrierInv, Barrier
  <2>5. \A p \in Earlier(r) : p = q \/ p \in Earlier(q)
    BY <1>3, <2>1, BornIds DEF Earlier
  <2>. QED
    BY <2>3, <2>4, <2>5 DEF EarlierFinished
<1>. QED
  BY <1>1, <1>2, <1>3 DEF KnowsPredecessor

\* A step of one task keeps the barrier of every other run.
LEMMA OneTask ==
    ASSUME TypeInv, BarrierInv, NEW r \in 1..started,
           UNCHANGED <<started, registered, sessionOf, prev>>,
           \A p \in RunIds : p # r => task'[p] = task[p] /\ cut'[p] = cut[p],
           task[r] # "finished",
           cut[r] => cut'[r],
           Clear(r) => Barrier(r)'
    PROVE  BarrierInv'
<1>1. 1..started \subseteq RunIds /\ (\A x \in 1..started : Earlier(x) \subseteq 1..started)
  BY BornIds
<1>2. \A x \in 1..started : Earlier(x)' = Earlier(x)
  BY DEF Earlier, RunIds
<1>3. \A p \in 1..started : task[p] = "finished" => task'[p] = "finished"
  BY <1>1
<1>4. \A p \in 1..started : cut[p] => cut'[p]
  BY <1>1
<1>5. Unborn' /\ Newest'
  BY <1>1 DEF BarrierInv, Unborn, Newest
<1>6. Settled'
  BY <1>3, <1>4 DEF BarrierInv, Settled
<1>7. ASSUME NEW x \in 1..started, Clear(x)' PROVE Barrier(x)'
  <2>1. Clear(x)
    BY <1>1, <1>2, <1>4, <1>7 DEF Clear
  <2>2. CASE x = r
    BY <2>1, <2>2
  <2>3. CASE x # r
    <3>1. Barrier(x) /\ task'[x] = task[x] /\ cut'[x] = cut[x] /\ prev'[x] = prev[x]
      BY <1>1, <2>1, <2>3 DEF BarrierInv
    <3>2. EarlierFinished(x) => EarlierFinished(x)'
      BY <1>1, <1>2, <1>3 DEF EarlierFinished
    <3>3. KnowsPredecessor(x) => KnowsPredecessor(x)'
      BY <1>2, <3>1, <3>2 DEF KnowsPredecessor
    <3>. QED
      BY <3>1, <3>2, <3>3 DEF Barrier, Writing
  <2>. QED
    BY <2>2, <2>3
<1>. QED
  BY <1>5, <1>6, <1>7 DEF BarrierInv

\* The other runs are as they were in a step that touches task r alone.
LEMMA SameEarlier ==
    ASSUME TypeInv, NEW r \in 1..started, UNCHANGED <<sessionOf, prev>>,
           \A p \in RunIds : p # r => task'[p] = task[p]
    PROVE  /\ EarlierFinished(r)' = EarlierFinished(r)
           /\ KnowsPredecessor(r)' = KnowsPredecessor(r)
<1>1. Earlier(r)' = Earlier(r) /\ (\A p \in Earlier(r) : p \in RunIds /\ p # r)
  BY BornIds DEF Earlier
<1>2. EarlierFinished(r)' = EarlierFinished(r)
  BY <1>1 DEF EarlierFinished
<1>. QED
  BY <1>1, <1>2 DEF KnowsPredecessor

LEMMA TaskStepBarrier ==
    ASSUME TypeInv, BarrierInv, NEW r \in RunIds, TaskStep(r) \/ ModelStep(r)
    PROVE  BarrierInv'
<1>1. task[r] # "none" /\ task[r] # "finished"
  BY DEF TaskStep, ModelStep, Begin, CancelUnstarted, PredecessorDone,
      CancelWaiting, CancelStream, Unwound, UnwindFails, ShieldOver, Emit,
      Complete, Fail
<1>2. r \in 1..started
  <2>1. ~ r <= started => task[r] = "none"
    BY DEF BarrierInv, Unborn
  <2>. QED
    BY <1>1, <2>1, BornIds DEF RunIds
<1>3. /\ UNCHANGED <<started, registered, sessionOf, prev>>
      /\ \A p \in RunIds : p # r => task'[p] = task[p] /\ cut'[p] = cut[p]
  BY DEF TypeInv, TypeOK, TaskStep, ModelStep, Begin, CancelUnstarted,
      PredecessorDone, CancelWaiting, Stopped, CancelStream, Unwound,
      UnwindFails, ShieldOver, Emit, Complete, Fail, Finished, runVars, taskVars
<1>4. EarlierFinished(r)' = EarlierFinished(r) /\ KnowsPredecessor(r)' = KnowsPredecessor(r)
  BY <1>2, <1>3, SameEarlier
<1>5. Clear(r) => Barrier(r)
  BY <1>2 DEF BarrierInv
<1>6. Clear(r) /\ PrevDone(r) /\ task[r] \in {"created", "waiting", "shielding"}
        => EarlierFinished(r)
  BY <1>2, PrevDoneClear
<1> DEFINE Kept == cut'[r] = cut[r]
           To(st) == task'[r] = st
<1>7. CASE Begin(r) \/ PredecessorDone(r)
  <2>1. Kept /\ \/ To("streaming") /\ PrevDone(r)
                \/ To("waiting")
    BY <1>7 DEF Begin, PredecessorDone, TypeInv, TypeOK
  <2>2. task[r] \in {"created", "waiting"}
    BY <1>7 DEF Begin, PredecessorDone
  <2>3. Clear(r) => Barrier(r)'
    BY <1>4, <1>5, <1>6, <2>1, <2>2 DEF Barrier, Writing
  <2>. QED
    BY <1>1, <1>2, <1>3, <2>1, <2>3, OneTask
<1>8. CASE CancelUnstarted(r) \/ ShieldOver(r)
  <2>1. To("finished") /\ cut'[r] = (cut[r] \/ ~PrevDone(r))
    BY <1>8 DEF CancelUnstarted, ShieldOver, TypeInv, TypeOK
  <2>2. task[r] \in {"created", "shielding"}
    BY <1>8 DEF CancelUnstarted, ShieldOver
  <2>3. Clear(r) => Barrier(r)'
    BY <1>4, <1>6, <2>1, <2>2 DEF Barrier, Writing
  <2>. QED
    BY <1>1, <1>2, <1>3, <2>1, <2>3, OneTask
<1>9. CASE CancelWaiting(r)
  <2>1. Kept /\ \/ To("finished") /\ PrevDone(r)
                \/ To("shielding")
    BY <1>9 DEF CancelWaiting, Stopped, Finished, TypeInv, TypeOK
  <2>2. task[r] = "waiting"
    BY <1>9 DEF CancelWaiting
  <2>3. Clear(r) => Barrier(r)'
    BY <1>4, <1>5, <1>6, <2>1, <2>2 DEF Barrier, Writing
  <2>. QED
    BY <1>1, <1>2, <1>3, <2>1, <2>3, OneTask
<1>10. CASE Emit(r) \/ Complete(r) \/ Fail(r) \/ CancelStream(r) \/ Unwound(r)
              \/ UnwindFails(r)
  <2>1. Kept /\ \E st \in {"streaming", "unwinding", "finished"} : To(st)
    BY <1>10 DEF Emit, Complete, Fail, CancelStream, Unwound, UnwindFails,
         Finished, TypeInv, TypeOK, taskVars
  <2>2. Writing(r)
    BY <1>10 DEF Emit, Complete, Fail, CancelStream, Unwound, UnwindFails, Writing
  <2>3. Clear(r) => Barrier(r)'
    BY <1>4, <1>5, <2>1, <2>2 DEF Barrier, Writing
  <2>. QED
    BY <1>1, <1>2, <1>3, <2>1, <2>3, OneTask
<1>. QED
  BY <1>7, <1>8, <1>9, <1>10 DEF TaskStep, ModelStep

LEMMA StartBarrier ==
    ASSUME TypeInv, BarrierInv, NEW s \in Sessions, NEW c \in Clients, Start(s, c)
    PROVE  BarrierInv'
<1>0. PICK r \in RunIds : r = started + 1
  BY ConstantsAssumption DEF TypeInv, TypeOK, Start, RunIds
<1>1. /\ started' = r /\ started \in Nat
      /\ 1..started' = (1..started) \cup {r} /\ r \notin 1..started
      /\ \A p \in 1..started : p < r
      /\ \A p \in RunIds, x \in 1..r : p < x => p \in 1..started
  <2>1. started' = r /\ started \in Nat
    BY <1>0 DEF TypeInv, TypeOK, Start
  <2>2. \A p \in RunIds : p \in Nat /\ p >= 1
    BY ConstantsAssumption DEF RunIds
  <2>. QED
    BY <1>0, <2>1, <2>2
<1>2. /\ cut' = cut
      /\ task'[r] = "created" /\ sessionOf'[r] = s /\ prev'[r] = Predecessor(s)
      /\ \A p \in 1..started :
            task'[p] = task[p] /\ sessionOf'[p] = sessionOf[p] /\ prev'[p] = prev[p]
      /\ registered'[s] = r
      /\ \A t \in Sessions : t # s => registered'[t] = registered[t]
  BY <1>0, <1>1, BornIds DEF TypeInv, TypeOK, Start
<1>3. Unborn'
  <2>1. ASSUME NEW x \in RunIds, x # r, x > started
        PROVE  task'[x] = task[x]
    BY <1>0, <2>1 DEF Start, TypeInv, TypeOK
  <2>. QED
    BY <1>1, <1>2, <2>1, BornIds DEF BarrierInv, Unborn, RunIds
<1>4. Newest'
  <2>1. ASSUME NEW t \in Sessions, t # s, registered'[t] # NoRun
        PROVE  /\ sessionOf'[registered'[t]] = t
               /\ \A p \in 1..started' : sessionOf'[p] = t => p <= registered'[t]
    <3>1. registered[t] \in 1..started
      BY <1>2, <2>1 DEF TypeInv, TypeOK, RegisteredStarted, NoRun
    <3>. QED
      BY <1>1, <1>2, <2>1, <3>1 DEF BarrierInv, Newest
  <2>. QED
    BY <1>1, <1>2, <2>1 DEF Newest
<1>5. Settled'
  <2>1. ASSUME NEW t \in Sessions, t # s, registered'[t] = NoRun
        PROVE  \/ \A p \in 1..started' : sessionOf'[p] = t => task'[p] = "finished"
               \/ \E q \in 1..started' : sessionOf'[q] = t /\ cut'[q]
    BY <1>1, <1>2, <2>1 DEF BarrierInv, Settled
  <2>. QED
    BY <1>1, <1>2, <2>1 DEF Settled, NoRun
<1>6. ASSUME NEW x \in 1..started, Clear(x)' PROVE Barrier(x)'
  <2>1. Earlier(x) \subseteq 1..started /\ Earlier(x)' = Earlier(x)
    <3>1. \A p \in RunIds : p < x => p \in 1..started /\ sessionOf'[p] = sessionOf[p]
      BY <1>1, <1>2
    <3>. QED
      BY <1>2, <3>1 DEF Earlier
  <2>2. Barrier(x)
    BY <1>2, <1>6, <2>1 DEF Clear, BarrierInv
  <2>. QED
    BY <1>2, <2>1, <2>2 DEF Barrier, Writing, EarlierFinished, KnowsPredecessor
<1>7. ASSUME Clear(r)' PROVE Barrier(r)'
  <2>1. Earlier(r)' = {p \in 1..started : sessionOf[p] = s}
    <3>1. \A p \in RunIds : p < r => p \in 1..started
      BY <1>0, <1>1, BornIds
    <3>2. \A p \in 1..started : p \in RunIds /\ p < r
      BY <1>1, BornIds
    <3>. QED
      BY <1>2, <3>1, <3>2 DEF Earlier
  <2>2. \A p \in 1..started : sessionOf[p] = s => ~cut[p]
    BY <1>2, <1>7, <2>1 DEF Clear
  <2>3. CASE registered[s] = NoRun
    <3>1. Predecessor(s) = NoRun
      BY <2>3 DEF Predecessor
    <3>2. EarlierFinished(r)'
      BY <1>2, <2>1, <2>2, <2>3 DEF BarrierInv, Settled, EarlierFinished
    <3>. QED
      BY <1>2, <3>1, <3>2 DEF Barrier, Writing, KnowsPredecessor
  <2>4. CASE registered[s] # NoRun
    <3> DEFINE q == registered[s]
    <3>1. q \in 1..started /\ q \in RunIds /\ sessionOf[q] = s
      <4>1. q \in 1..started
        BY <2>4 DEF TypeInv, TypeOK, RegisteredStarted, NoRun
      <4>. QED
        BY <2>4, <4>1, BornIds DEF BarrierInv, Newest
    <3>2. \A p \in 1..started : sessionOf[p] = s => p <= q
      BY <2>4 DEF BarrierInv, Newest
    <3>3. CASE task[q] = "finished"
      <4>1. Predecessor(s) = NoRun
        BY <3>3 DEF Predecessor, InFlight
      <4>2. Clear(q) /\ ~cut[q]
        BY <2>2, <3>1, BornIds DEF Clear, Earlier
      <4>3. EarlierFinished(q)
        BY <3>1, <3>3, <4>2 DEF BarrierInv, Barrier
      <4>4. \A p \in 1..started : sessionOf[p] = s => p = q \/ p \in Earlier(q)
        BY <3>1, <3>2, BornIds DEF Earlier
      <4>5. EarlierFinished(r)'
        BY <1>2, <2>1, <3>3, <4>3, <4>4 DEF EarlierFinished
      <4>. QED
        BY <1>2, <4>1, <4>5 DEF Barrier, Writing, KnowsPredecessor
    <3>4. CASE task[q] # "finished"
      <4>1. Predecessor(s) = q
        BY <3>1, <3>4 DEF Predecessor, InFlight
      <4>. QED
        BY <1>2, <2>1, <3>1, <3>2, <4>1 DEF Barrier, Writing, KnowsPredecessor
    <3>. QED
      BY <3>3, <3>4
  <2>. QED
    BY <2>3, <2>4
<1>. QED
  BY <1>0, <1>1, <1>3, <1>4, <1>5, <1>6, <1>7 DEF BarrierInv

LEMMA EvictBarrier ==
    ASSUME TypeInv, BarrierInv, NEW r \in RunIds, Evict(r)
    PROVE  BarrierInv'
<1> DEFINE s == sessionOf[r]
<1>1. /\ UNCHANGED <<started, sessionOf, prev, task>>
      /\ \A p \in RunIds : cut[p] => cut'[p]
      /\ Evictable(r) /\ task[r] # "finished" => cut'[r]
      /\ \A t \in Sessions : t # s \/ ~Evictable(r) => registered'[t] = registered[t]
      /\ Evictable(r) /\ s \in Sessions => registered'[s] = NoRun
  BY DEF Evict, TypeInv, TypeOK
<1>2. \A p \in 1..started : p \in RunIds
  BY BornIds
<1>3. ASSUME Evictable(r), s \in Sessions
      PROVE  /\ r \in 1..started /\ registered[s] = r /\ r # NoRun
             /\ \/ \A p \in 1..started : sessionOf[p] = s => task[p] = "finished"
                \/ \E q \in 1..started : sessionOf[q] = s /\ cut'[q]
  <2>1. registered[s] = r /\ r # NoRun /\ r \in 1..started
    BY <1>3 DEF Evictable, TypeInv, TypeOK, RegisteredStarted, RunIds, NoRun
  <2>2. \A p \in 1..started : sessionOf[p] = s => p = r \/ p \in Earlier(r)
    BY <1>2, <1>3, <2>1 DEF BarrierInv, Newest, Earlier
  <2>3. CASE task[r] # "finished" \/ \E q \in 1..started : sessionOf[q] = s /\ cut[q]
    BY <1>1, <1>2, <1>3, <2>1, <2>3
  <2>4. CASE task[r] = "finished" /\ \A q \in 1..started : sessionOf[q] = s => ~cut[q]
    <3>1. Clear(r) /\ ~cut[r]
      BY <2>1, <2>4, BornIds DEF Clear, Earlier
    <3>2. EarlierFinished(r)
      BY <2>1, <2>4, <3>1 DEF BarrierInv, Barrier
    <3>. QED
      BY <2>1, <2>2, <2>4, <3>2 DEF EarlierFinished
  <2>. QED
    BY <2>1, <2>3, <2>4
<1>4. Unborn'
  BY <1>1 DEF BarrierInv, Unborn
<1>5. Newest'
  BY <1>1, <1>2 DEF BarrierInv, Newest
<1>6. Settled'
  <2>1. ASSUME NEW t \in Sessions, registered'[t] = NoRun
        PROVE  \/ \A p \in 1..started : sessionOf[p] = t => task[p] = "finished"
               \/ \E q \in 1..started : sessionOf[q] = t /\ cut'[q]
    <3>1. CASE registered'[t] = registered[t]
      BY <1>1, <1>2, <2>1, <3>1 DEF BarrierInv, Settled
    <3>2. CASE registered'[t] # registered[t]
      BY <1>1, <1>3, <3>2
    <3>. QED
      BY <3>1, <3>2
  <2>. QED
    BY <1>1, <2>1 DEF Settled
<1>7. ASSUME NEW x \in 1..started, Clear(x)' PROVE Barrier(x)'
  <2>1. Earlier(x)' = Earlier(x) /\ Earlier(x) \subseteq RunIds
    BY <1>1 DEF Earlier
  <2>2. Barrier(x)
    BY <1>1, <1>7, <2>1 DEF Clear, BarrierInv
  <2>. QED
    BY <1>1, <1>2, <2>1, <2>2 DEF Barrier, Writing, EarlierFinished, KnowsPredecessor
<1>. QED
  BY <1>1, <1>4, <1>5, <1>6, <1>7 DEF BarrierInv

LEMMA NextBarrier == TypeInv /\ BarrierInv /\ [Next]_vars => BarrierInv'
<1>. SUFFICES ASSUME TypeInv, BarrierInv, [Next]_vars PROVE BarrierInv'
  OBVIOUS
<1>1. ASSUME UNCHANGED <<runVars, task, cut>> PROVE BarrierInv'
  BY <1>1 DEF runVars, BarrierInv, Unborn, Newest, Settled, Clear, Barrier,
       Earlier, EarlierFinished, KnowsPredecessor, Writing
<1>2. CASE UNCHANGED vars
  BY <1>1, <1>2 DEF vars, taskVars
<1>3. ASSUME NEW s \in Sessions, NEW c \in Clients, Start(s, c) PROVE BarrierInv'
  BY <1>3, StartBarrier
<1>4. ASSUME NEW s \in Sessions, NEW c \in Clients, Stop(s) \/ Resume(c, s)
      PROVE  BarrierInv'
  BY <1>1, <1>4 DEF Stop, Resume, taskVars
<1>5. ASSUME NEW r \in RunIds, TaskStep(r) \/ ModelStep(r) \/ Evict(r)
      PROVE  BarrierInv'
  BY <1>5, TaskStepBarrier, EvictBarrier
<1>6. ASSUME NEW c \in Clients, ClientStep(c) \/ Disconnect(c) PROVE BarrierInv'
  BY <1>1, <1>6 DEF ClientStep, Disconnect, Subscribe, Replay, Receive,
       ReceiveEnd, Flush, taskVars
<1>7. ASSUME NEW s \in Sessions, Stop(s) PROVE BarrierInv'
  BY <1>1, <1>7 DEF Stop
<1>. QED
  BY <1>2, <1>3, <1>4, <1>5, <1>6, <1>7 DEF Next

\* The barrier of _drain(): through any chain of replacements, stops and
\* evictions, a run has its generator open only after all the runs its session
\* started before it are finished, unless one of those let go of the barrier
\* early.  With the violations of SavesSequential this locates the fault: the
\* three places that set cut are the only ones.
THEOREM BarrierHolds == Spec => []SequentialUnlessCut
<1>1. TypeInv /\ BarrierInv => SequentialUnlessCut
  <2>. SUFFICES ASSUME TypeInv, BarrierInv, NEW r \in RunIds, Writing(r)
                PROVE  \/ \A p \in Earlier(r) : task[p] = "finished"
                       \/ \E p \in Earlier(r) : cut[p]
    BY DEF SequentialUnlessCut
  <2>1. task[r] # "none"
    BY DEF Writing
  <2>2. ~ r <= started => task[r] = "none"
    BY DEF BarrierInv, Unborn
  <2>3. r \in 1..started
    BY <2>1, <2>2, BornIds DEF RunIds
  <2>. QED
    BY <2>3 DEF BarrierInv, Barrier, Clear, EarlierFinished
<1>2. Spec => [](TypeInv /\ BarrierInv)
  BY InitType, InitBarrier, NextType, NextBarrier, PTL DEF Spec
<1>. QED
  BY <1>1, <1>2, PTL
=============================================================================
