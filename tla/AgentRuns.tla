------------------------------ MODULE AgentRuns ------------------------------
(***************************************************************************)
(* The detached agent-run manager, src/src/agent_runs.py, and the routes   *)
(* that call it (src/routes/chat_routes.py, chat_stream, chat_resume and   *)
(* chat_stop).                                                             *)
(*                                                                         *)
(* A run is an asyncio task (_drain) that pulls a chat generator into a    *)
(* replay buffer; a client is an SSE response body (subscribe) with a      *)
(* queue of its own.  The event loop is single threaded, so one action is  *)
(* the code between two suspension points.  An event of a run is known by  *)
(* its index in the buffer.                                                *)
(***************************************************************************)
EXTENDS Integers, Sequences, FiniteSets

CONSTANTS Sessions,    \* chat sessions, the keys of _RUNS
          Clients,     \* browser connections
          MaxRuns,     \* bound: runs ever started
          MaxEvents,   \* bound: events a generator yields before it ends
          Burst,       \* TRUE: a turn may be sent before the task of the
                       \* previous one has executed its first instruction
          SaveFaults   \* TRUE: the save of a partial answer may raise

ASSUME ConstantsAssumption ==
    /\ MaxRuns \in Nat /\ MaxEvents \in Nat
    /\ Burst \in BOOLEAN /\ SaveFaults \in BOOLEAN

RunIds == 1..MaxRuns     \* run_id: fresh for every run, in starting order
NoRun  == 0              \* None, where the code has no run
END    == -1             \* the (None, None) sentinel of a subscriber queue

VARIABLES
    started,      \* number of runs started
    registered,   \* registered[s]: _RUNS.get(s)
    sessionOf,    \* sessionOf[r]: the session r was started for
    status,       \* status[r]: _Run.status, "unborn" before start()
    task,         \* task[r]: where the task _drain(r) is suspended
    cancelled,    \* cancelled[r]: task.cancel() called, not yet delivered
    prev,         \* prev[r]: the prev_task argument of _drain
    buffer,       \* buffer[r]: len(_Run.buffer)
    armed,        \* armed[r]: the grace timer _Run.evict_task is pending
    client,       \* client[c]: where the response body of c is suspended
    source,       \* source[c]: the run whose id c was given in its headers
    nextSeq,      \* nextSeq[c]: next_seq of subscribe()
    queue,        \* queue[c]: the asyncio.Queue of c
    got,          \* got[c]: history, the events c received, <<run, index>>
    cut           \* cut[r]: history, r ceased to hold back its successors
                  \* while it or a run that precedes it was unfinished

runVars    == <<started, registered, sessionOf, prev>>
taskVars   == <<status, task, cancelled, cut>>
clientVars == <<client, source, nextSeq, got>>
vars       == <<runVars, taskVars, buffer, armed, clientVars, queue>>

Terminal    == {"done", "error", "stopped"}
TaskStates  == {"none", "created", "waiting", "streaming", "unwinding",
                "shielding", "finished"}
Subscribed  == {"replaying", "live", "flushing"}
ClientStates == Subscribed \cup {"idle", "bound", "closed"}

TypeOK ==
    /\ started \in 0..MaxRuns
    /\ registered \in [Sessions -> 0..MaxRuns]
    /\ sessionOf \in [RunIds -> Sessions \cup {NoRun}]
    /\ status \in [RunIds -> Terminal \cup {"unborn", "running"}]
    /\ task \in [RunIds -> TaskStates]
    /\ cancelled \in [RunIds -> BOOLEAN]
    /\ prev \in [RunIds -> 0..MaxRuns]
    /\ \A r \in RunIds : prev[r] = NoRun \/ prev[r] < r
    /\ buffer \in [RunIds -> Nat]
    /\ armed \in [RunIds -> BOOLEAN]
    /\ client \in [Clients -> ClientStates]
    /\ source \in [Clients -> 0..MaxRuns]
    /\ nextSeq \in [Clients -> Nat]
    /\ queue \in [Clients -> Seq(Nat \cup {END})]
    /\ got \in [Clients -> Seq(RunIds \X Nat)]
    /\ cut \in [RunIds -> BOOLEAN]

Init ==
    /\ started = 0
    /\ registered = [s \in Sessions |-> NoRun]
    /\ sessionOf = [r \in RunIds |-> NoRun]
    /\ status = [r \in RunIds |-> "unborn"]
    /\ task = [r \in RunIds |-> "none"]
    /\ cancelled = [r \in RunIds |-> FALSE]
    /\ prev = [r \in RunIds |-> NoRun]
    /\ buffer = [r \in RunIds |-> 0]
    /\ armed = [r \in RunIds |-> FALSE]
    /\ client = [c \in Clients |-> "idle"]
    /\ source = [c \in Clients |-> NoRun]
    /\ nextSeq = [c \in Clients |-> 0]
    /\ queue = [c \in Clients |-> << >>]
    /\ got = [c \in Clients |-> << >>]
    /\ cut = [r \in RunIds |-> FALSE]

-----------------------------------------------------------------------------
(* Helpers of the module.                                                  *)

\* _Run.subscribers: subscribe() adds its queue before it replays and
\* discards it in its finally clause.
Subscribers(r) == {c \in Clients : client[c] \in Subscribed /\ source[c] = r}

\* asyncio.Task.done() of the predecessor that r was given, if any.
\* Mutant: its status is asked instead, which start() changes at once.
PrevNotRunning(r) == prev[r] = NoRun \/ status[prev[r]] # "running"
PrevDone(r) == prev[r] = NoRun \/ task[prev[r]] = "finished"

\* queue' after items are put, in order, on every subscriber queue of r:
\* _publish() for events, _wake_run_subscribers() for the sentinel.
Fanned(r, items) ==
    [c \in Clients |-> IF c \in Subscribers(r) THEN queue[c] \o items
                                               ELSE queue[c]]

\* The (seq, ev) pairs of the next n events of r.
NextEvents(r, n) == [i \in 1..n |-> buffer[r] + i - 1]

\* _schedule_evict(session, r) called with the run set R as the identities it
\* is called for: only a run that is still registered gets a timer.
\* Mutant: the call is forgotten.
ArmedNever(R) == armed
ArmedFor(R) ==
    [r \in RunIds |-> armed[r] \/ (r \in R /\ registered[sessionOf[r]] = r)]

-----------------------------------------------------------------------------
(* Callers: POST /api/chat_stream and POST /api/chat/stop.                 *)

\* The run of session s that start() finds in flight, as a set.
InFlight(s) == {p \in RunIds : registered[s] = p /\ task[p] # "finished"}

\* The task that the next run of s is told to wait for.
\* Mutant: it is looked up after the new run was registered.
PredecessorLate(s) == started + 1
Predecessor(s) == IF InFlight(s) = {} THEN NoRun ELSE registered[s]

\* queue' after _wake_run_subscribers() of the runs in R.
\* Mutant: the wake-up is left to _drain().
NotWoken(R) == queue
Woken(R) == [c \in Clients |-> IF \E p \in R : c \in Subscribers(p)
                               THEN Append(queue[c], END) ELSE queue[c]]

\* start(): cancel the run in flight, register a new one, create its task;
\* the response of client c is bound to the new run in the same handler.
Start(s, c) ==
    LET r   == started + 1
        old == InFlight(s)
        due == {p \in old : status[p] = "running"}
    IN
    /\ started < MaxRuns
    /\ client[c] \in {"idle", "closed"}
    /\ Burst \/ \A p \in old : task[p] # "created"
    /\ started' = r
    /\ registered' = [registered EXCEPT ![s] = r]
    /\ sessionOf' = [sessionOf EXCEPT ![r] = s]
    /\ prev' = [prev EXCEPT ![r] = Predecessor(s)]
    /\ status' = [x \in RunIds |-> IF x = r THEN "running"
                                   ELSE IF x \in due THEN "stopped"
                                   ELSE status[x]]
    /\ task' = [task EXCEPT ![r] = "created"]
    /\ cancelled' = [x \in RunIds |-> cancelled[x] \/ x \in old]
    /\ armed' = [x \in RunIds |-> armed[x] /\ x # registered[s]]
    /\ queue' = Woken(due)
    /\ client' = [client EXCEPT ![c] = "bound"]
    /\ source' = [source EXCEPT ![c] = r]
    /\ got' = [got EXCEPT ![c] = << >>]
    /\ nextSeq' = [nextSeq EXCEPT ![c] = 0]
    /\ UNCHANGED <<buffer, cut>>

\* Mutant of Stop: the subscribers are told at once, as in Start.
StopAndWake(s) ==
    \E r \in InFlight(s) :
        /\ task[r] # "created"
        /\ cancelled' = [cancelled EXCEPT ![r] = TRUE]
        /\ queue' = Woken({r})
        /\ UNCHANGED <<runVars, status, task, cut, buffer, armed, clientVars>>

\* stop(): cancel the run whose id the browser sends.  The browser learns the
\* id from response headers, a round trip after the task was created, so the
\* task has executed its first instruction by then.
Stop(s) ==
    \E r \in InFlight(s) :
        /\ task[r] # "created"
        /\ cancelled' = [cancelled EXCEPT ![r] = TRUE]
        /\ UNCHANGED <<runVars, status, task, cut, buffer, armed, clientVars,
                       queue>>

-----------------------------------------------------------------------------
(* The task of run r: _drain().                                            *)

\* How _drain() ends: sentinel, timer, task done.
Finished(r, st, events) ==
    /\ task' = [task EXCEPT ![r] = "finished"]
    /\ status' = [status EXCEPT ![r] = st]
    /\ queue' = Fanned(r, Append(events, END))
    /\ buffer' = [buffer EXCEPT ![r] = @ + Len(events)]
    /\ armed' = ArmedFor({r})

\* First step of the task, not cancelled: wait for the predecessor, if it is
\* still running, or enter the generator.
Begin(r) ==
    /\ task[r] = "created" /\ ~cancelled[r]
    /\ task' = [task EXCEPT ![r] = IF PrevDone(r) THEN "streaming"
                                                  ELSE "waiting"]
    /\ UNCHANGED <<runVars, status, cancelled, cut, buffer, armed, clientVars,
                   queue>>

\* A task cancelled before its first instruction ends there: no except or
\* finally clause of _drain() is ever entered.
CancelUnstarted(r) ==
    /\ task[r] = "created" /\ cancelled[r]
    /\ task' = [task EXCEPT ![r] = "finished"]
    /\ cancelled' = [cancelled EXCEPT ![r] = FALSE]
    /\ cut' = [cut EXCEPT ![r] = @ \/ ~PrevDone(r)]
    /\ UNCHANGED <<runVars, status, buffer, armed, clientVars, queue>>

\* asyncio.wait({prev_task}) returns.
PredecessorDone(r) ==
    /\ task[r] = "waiting" /\ ~cancelled[r]
    /\ PrevDone(r)
    /\ task' = [task EXCEPT ![r] = "streaming"]
    /\ UNCHANGED <<runVars, status, cancelled, cut, buffer, armed, clientVars,
                   queue>>

\* The generator yields one event.
Emit(r) ==
    /\ task[r] = "streaming" /\ ~cancelled[r]
    /\ buffer[r] < MaxEvents
    /\ buffer' = [buffer EXCEPT ![r] = @ + 1]
    /\ queue' = Fanned(r, NextEvents(r, 1))
    /\ UNCHANGED <<runVars, taskVars, armed, clientVars>>

\* Mutant: the assignment of "done" is lost.
EndStatusKept(r) == status[r]
EndStatus(r) == IF status[r] = "running" THEN "done" ELSE status[r]

\* The generator saves the whole answer, yields [DONE] and ends.
Complete(r) ==
    /\ task[r] = "streaming" /\ ~cancelled[r]
    /\ Finished(r, EndStatus(r), NextEvents(r, 1))
    /\ UNCHANGED <<runVars, cancelled, cut, clientVars>>

\* The generator raises: an error event and [DONE] are published for it.
Fail(r) ==
    /\ task[r] = "streaming" /\ ~cancelled[r]
    /\ Finished(r, "error", NextEvents(r, 2))
    /\ UNCHANGED <<runVars, cancelled, cut, clientVars>>

\* Mutant of CancelStream: the generator swallows the cancellation.
CancelSwallowed(r) ==
    /\ task[r] = "streaming" /\ cancelled[r]
    /\ cancelled' = [cancelled EXCEPT ![r] = FALSE]
    /\ UNCHANGED <<runVars, status, task, cut, buffer, armed, clientVars, queue>>

\* The cancellation is thrown into the generator, which starts to unwind;
\* closing the model connection and its tools may take any number of steps.
CancelStream(r) ==
    /\ task[r] = "streaming" /\ cancelled[r]
    /\ task' = [task EXCEPT ![r] = "unwinding"]
    /\ cancelled' = [cancelled EXCEPT ![r] = FALSE]
    /\ UNCHANGED <<runVars, status, cut, buffer, armed, clientVars, queue>>

\* The CancelledError clause: close the subscribers, then end if the
\* predecessor is done and keep the task alive until it is otherwise.
Stopped(r) ==
    /\ cancelled' = [cancelled EXCEPT ![r] = FALSE]
    /\ \/ /\ PrevDone(r)
          /\ Finished(r, "stopped", << >>)
       \/ /\ ~PrevDone(r)
          /\ task' = [task EXCEPT ![r] = "shielding"]
          /\ status' = [status EXCEPT ![r] = "stopped"]
          /\ queue' = Fanned(r, <<END>>)
          /\ UNCHANGED <<buffer, armed>>
    /\ UNCHANGED <<runVars, cut, clientVars>>

\* Cancelled while waiting for the predecessor.
CancelWaiting(r) ==
    /\ task[r] = "waiting" /\ cancelled[r]
    /\ Stopped(r)

\* The generator has unwound: it saved its partial answer and re-raised.  A
\* second cancellation only shortens the unwinding.
Unwound(r) ==
    /\ task[r] = "unwinding"
    /\ cancelled' = [cancelled EXCEPT ![r] = FALSE]
    /\ Finished(r, "stopped", << >>)
    /\ UNCHANGED <<runVars, cut, clientVars>>

\* In chat mode the save of the partial answer is not guarded: when it raises,
\* its exception replaces the cancellation and the run ends as a failed one.
UnwindFails(r) ==
    /\ task[r] = "unwinding" /\ SaveFaults
    /\ cancelled' = [cancelled EXCEPT ![r] = FALSE]
    /\ Finished(r, "error", NextEvents(r, 2))
    /\ UNCHANGED <<runVars, cut, clientVars>>

\* asyncio.shield(prev_task) returns, or raises because this task was
\* cancelled again: both are swallowed and the task ends.
ShieldOver(r) ==
    /\ task[r] = "shielding"
    /\ PrevDone(r) \/ cancelled[r]
    /\ task' = [task EXCEPT ![r] = "finished"]
    /\ cancelled' = [cancelled EXCEPT ![r] = FALSE]
    /\ armed' = ArmedFor({r})
    /\ cut' = [cut EXCEPT ![r] = @ \/ ~PrevDone(r)]
    /\ UNCHANGED <<runVars, status, buffer, clientVars, queue>>

\* What the event loop runs on its own.
TaskStep(r) ==
    \/ Begin(r) \/ CancelUnstarted(r) \/ PredecessorDone(r) \/ CancelWaiting(r)
    \/ CancelStream(r) \/ Unwound(r) \/ UnwindFails(r) \/ ShieldOver(r)

\* What the model behind the generator decides.
ModelStep(r) == Emit(r) \/ Complete(r) \/ Fail(r)

\* What the timer checks before it drops r from the registry.
Evictable(r) ==
    registered[sessionOf[r]] = r /\ status[r] # "running" /\ Subscribers(r) = {}

\* The grace timer of r fires.
Evict(r) ==
    /\ armed[r]
    /\ armed' = [armed EXCEPT ![r] = FALSE]
    /\ registered' = [registered EXCEPT ![sessionOf[r]] =
                         IF Evictable(r) THEN NoRun ELSE @]
    /\ cut' = [cut EXCEPT ![r] = @ \/ (Evictable(r) /\ task[r] # "finished")]
    /\ UNCHANGED <<started, sessionOf, prev, status, task, cancelled, buffer,
                   clientVars, queue>>

-----------------------------------------------------------------------------
(* The response body of client c: subscribe().                             *)

\* GET /api/chat/resume binds a response to the active run of s.
Resume(c, s) ==
    /\ client[c] \in {"idle", "closed"}
    /\ registered[s] # NoRun
    /\ status[registered[s]] = "running"
    /\ client' = [client EXCEPT ![c] = "bound"]
    /\ source' = [source EXCEPT ![c] = registered[s]]
    /\ got' = [got EXCEPT ![c] = << >>]
    /\ nextSeq' = [nextSeq EXCEPT ![c] = 0]
    /\ UNCHANGED <<runVars, taskVars, buffer, armed, queue>>

\* Mutant of Unsubscribe: the timer is not armed again.
UnsubscribeOnly(c, to) ==
    /\ client' = [client EXCEPT ![c] = to]
    /\ queue' = [queue EXCEPT ![c] = << >>]
    /\ UNCHANGED armed

\* The finally clause: drop the queue; the last subscriber of a run that is
\* over re-arms its timer.
Unsubscribe(c, to) ==
    LET r == source[c] IN
    /\ client' = [client EXCEPT ![c] = to]
    /\ armed' = IF Subscribers(r) = {c} /\ status[r] # "running"
                THEN ArmedFor({r}) ELSE armed
    /\ queue' = [queue EXCEPT ![c] = << >>]

\* c receives event n of its run.
Deliver(c, n) ==
    /\ got' = [got EXCEPT ![c] = Append(@, <<source[c], n>>)]
    /\ nextSeq' = [nextSeq EXCEPT ![c] = n + 1]

\* The body is iterated: register, keep the timer away, then replay up to the
\* first yield; an empty buffer goes straight to the live loop, or ends.
Subscribe(c) ==
    LET r == source[c] IN
    /\ client[c] = "bound"
    /\ queue' = [queue EXCEPT ![c] = << >>]
    /\ \/ /\ buffer[r] > 0
          /\ Deliver(c, 0)
          /\ client' = [client EXCEPT ![c] = "replaying"]
          /\ armed' = [armed EXCEPT ![r] = FALSE]
       \/ /\ buffer[r] = 0 /\ status[r] = "running"
          /\ client' = [client EXCEPT ![c] = "live"]
          /\ armed' = [armed EXCEPT ![r] = FALSE]
          /\ UNCHANGED <<got, nextSeq>>
       \/ /\ buffer[r] = 0 /\ status[r] # "running"
          /\ client' = [client EXCEPT ![c] = "closed"]
          /\ armed' = IF Subscribers(r) = {}
                      THEN [armed EXCEPT ![r] = registered[sessionOf[r]] = r]
                      ELSE [armed EXCEPT ![r] = FALSE]
          /\ UNCHANGED <<got, nextSeq>>
    /\ UNCHANGED <<runVars, taskVars, buffer, source>>

\* The replay loop, resumed after a yield.
Replay(c) ==
    LET r == source[c] IN
    /\ client[c] = "replaying"
    /\ \/ /\ nextSeq[c] < buffer[r]
          /\ Deliver(c, nextSeq[c])
          /\ UNCHANGED <<client, armed, queue>>
       \/ /\ nextSeq[c] >= buffer[r] /\ status[r] = "running"
          /\ client' = [client EXCEPT ![c] = "live"]
          /\ UNCHANGED <<got, nextSeq, armed, queue>>
       \/ /\ nextSeq[c] >= buffer[r] /\ status[r] # "running"
          /\ Unsubscribe(c, "closed")
          /\ UNCHANGED <<got, nextSeq>>
    /\ UNCHANGED <<runVars, taskVars, buffer, source>>

\* An event is new to c unless the replay has already covered it.
\* Mutants: the test is dropped; the test is off by one.
IsNewAlways(c, seq) == TRUE
IsNewAfter(c, seq) == seq > nextSeq[c]
IsNew(c, seq) == seq >= nextSeq[c]

\* The live loop takes an event off the queue.
Receive(c) ==
    /\ client[c] = "live"
    /\ queue[c] # << >> /\ Head(queue[c]) # END
    /\ queue' = [queue EXCEPT ![c] = Tail(@)]
    /\ IF IsNew(c, Head(queue[c])) THEN Deliver(c, Head(queue[c]))
                                   ELSE UNCHANGED <<got, nextSeq>>
    /\ UNCHANGED <<runVars, taskVars, buffer, armed, client, source>>

\* What follows the sentinel: flush the tail it raced, one yield at a time,
\* then end.
FlushOrClose(c) ==
    \/ /\ nextSeq[c] < buffer[source[c]]
       /\ Deliver(c, nextSeq[c])
       /\ client' = [client EXCEPT ![c] = "flushing"]
       /\ queue' = [queue EXCEPT ![c] = IF client[c] = "live" THEN Tail(@)
                                                              ELSE @]
       /\ UNCHANGED armed
    \/ /\ nextSeq[c] >= buffer[source[c]]
       /\ Unsubscribe(c, "closed")
       /\ UNCHANGED <<got, nextSeq>>

\* The live loop takes the sentinel off the queue.
ReceiveEnd(c) ==
    /\ client[c] = "live"
    /\ queue[c] # << >> /\ Head(queue[c]) = END
    /\ FlushOrClose(c)
    /\ UNCHANGED <<runVars, taskVars, buffer, source>>

\* The flush loop, resumed after a yield.
Flush(c) ==
    /\ client[c] = "flushing"
    /\ FlushOrClose(c)
    /\ UNCHANGED <<runVars, taskVars, buffer, source>>

\* The browser closes the tab: a body that was never iterated leaves nothing
\* behind, one that was runs its finally clause.
Disconnect(c) ==
    /\ \/ /\ client[c] = "bound"
          /\ client' = [client EXCEPT ![c] = "idle"]
          /\ UNCHANGED <<armed, queue>>
       \/ /\ client[c] \in Subscribed
          /\ Unsubscribe(c, "idle")
    /\ UNCHANGED <<runVars, taskVars, buffer, source, nextSeq, got>>

ClientStep(c) == Subscribe(c) \/ Replay(c) \/ Receive(c) \/ ReceiveEnd(c) \/ Flush(c)

-----------------------------------------------------------------------------

Next ==
    \/ \E s \in Sessions : Stop(s) \/ \E c \in Clients : Start(s, c) \/ Resume(c, s)
    \/ \E r \in RunIds : TaskStep(r) \/ ModelStep(r) \/ Evict(r)
    \/ \E c \in Clients : ClientStep(c) \/ Disconnect(c)

Spec == Init /\ [][Next]_vars

\* The event loop runs every ready task and timer; a connected client reads.
\* Nothing is assumed of the model: a generator may never end.
Fairness ==
    /\ \A r \in RunIds : WF_vars(TaskStep(r)) /\ WF_vars(Evict(r))
    /\ \A c \in Clients : WF_vars(ClientStep(c))

FairSpec == Spec /\ Fairness

-----------------------------------------------------------------------------
(* Safety.                                                                 *)

IsOver(r) == status[r] \in Terminal

\* The runs of the session of r that were started before r.
Earlier(r) == {p \in RunIds : p < r /\ sessionOf[p] = sessionOf[r]}

\* The generator of r is open: it may write to the session.
Writing(r) == task[r] \in {"streaming", "unwinding"}

\* The comments of _drain() promise that the session saves of two runs are
\* sequential: at most one run of a session has its generator open.
SavesSequential ==
    \A r \in RunIds : Writing(r) => \A p \in Earlier(r) : ~Writing(p)

\* The promise is kept up to the three ways in which a run lets go of the
\* barrier early: when no run before r did, all of them are finished before r
\* opens its generator, through any chain of replacements and stops.
SequentialUnlessCut ==
    \A r \in RunIds : Writing(r) =>
        \/ \A p \in Earlier(r) : task[p] = "finished"
        \/ \E p \in Earlier(r) : cut[p]

\* A client receives the events of the run named in its headers, from the
\* first, in order, none twice and none left out: replay and live queue never
\* overlap or leave a gap, whatever was published between them.
ReplayExact ==
    \A c \in Clients :
        /\ Len(got[c]) = nextSeq[c]
        /\ \A i \in 1..Len(got[c]) : got[c][i] = <<source[c], i - 1>>

\* A response body ends by itself only when its run is over, and then its
\* client has the whole buffer; the error notice that a failed save adds to a
\* run already announced as stopped is the one thing it can miss.
ClosedComplete ==
    \A c \in Clients : client[c] = "closed" =>
        LET r == source[c] IN
        /\ IsOver(r)
        /\ \/ nextSeq[c] = buffer[r]
           \/ SaveFaults /\ status[r] = "error" /\ nextSeq[c] = buffer[r] - 2

\* The end sentinel of a run that is over is in the queue of every live
\* client: the queue.get() timeout is never what ends a response.
SentinelPending ==
    \A c \in Clients : client[c] = "live" /\ IsOver(source[c]) =>
        \E i \in 1..Len(queue[c]) : queue[c][i] = END

\* A finished run that nobody reads does not stay in memory: as long as it is
\* registered, its grace timer is pending.  The exception is a run cancelled
\* before its first instruction, which is never the registered one.
EvictionArmed ==
    \A s \in Sessions : \A r \in RunIds :
        registered[s] = r /\ task[r] = "finished" /\ Subscribers(r) = {}
            => armed[r]

\* A registered run that reports "running" has a task that is still going: a
\* session is never stuck as active.
ActiveHasTask ==
    \A s \in Sessions : \A r \in RunIds :
        registered[s] = r /\ status[r] = "running" => task[r] # "finished"

\* No event is added to a run once it has been announced as over, except the
\* error notice of a failed save, and no run is ever announced as running
\* again.
TerminalFrozen ==
    [][\A r \in RunIds : IsOver(r) =>
          /\ IsOver(r)'
          /\ \/ buffer'[r] = buffer[r]
             \/ SaveFaults /\ status'[r] = "error"]_vars

-----------------------------------------------------------------------------
(* Refinement: a run is a sealed log, a client its reader.                 *)

Reader(c) == CASE client[c] = "idle" -> "away"
               [] client[c] = "closed" -> "finished"
               [] OTHER -> "open"

Promise == INSTANCE ReplayPromise WITH
    len <- buffer,
    sealed <- [r \in RunIds |-> IsOver(r)],
    failed <- [r \in RunIds |-> status[r] = "error"],
    reader <- [c \in Clients |-> Reader(c)]

\* The manager keeps the promise of ReplayPromise.
KeepsPromise == Promise!Spec

-----------------------------------------------------------------------------
(* Liveness.                                                               *)

\* A run that is asked to stop, by the Stop button or by a newer turn, ends,
\* even in a chain of replaced runs that wait for one another.
StopTakesEffect ==
    \A r \in RunIds : cancelled[r] ~> task[r] = "finished"

\* A run that was sent starts, or was itself replaced or stopped: waiting for
\* the predecessor never lasts for ever.
RunGetsItsTurn ==
    \A r \in RunIds : task[r] \in {"created", "waiting"}
        ~> task[r] \notin {"created", "waiting"}

\* The memory of a finished run is given back.
MemoryReclaimed ==
    \A s \in Sessions : \A r \in RunIds :
        registered[s] = r /\ task[r] = "finished" ~> registered[s] # r
=============================================================================
