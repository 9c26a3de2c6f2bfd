---------------------------- MODULE TaskScheduler ----------------------------
(***************************************************************************)
(* The scheduler of automation tasks, src/src/task_scheduler.py, with the  *)
(* event bus that triggers tasks (src/src/event_bus.py), the foreground    *)
(* gate they wait behind (src/src/interactive_gate.py) and the routes that *)
(* run, stop and pause them.                                               *)
(*                                                                         *)
(* A run of a task is a coroutine, _execute_task(), with a row in the      *)
(* task_runs table.  The event loop is single threaded and nobody awaits   *)
(* while holding _executing_lock, so the lock never blocks and an action   *)
(* is the code between two suspension points.  The work of a task, its     *)
(* delivery included, is one suspension of any length with one of the      *)
(* outcomes the scheduler tells apart; a time of the clock is known by     *)
(* whether it has come.  A call to the database may fail, wherever a run   *)
(* makes one.                                                              *)
(***************************************************************************)
EXTENDS Naturals, Sequences, FiniteSets, SequencesExt

CONSTANTS Tasks,     \* scheduled_tasks rows
          Events,    \* the tasks triggered by an event; the others have a schedule
          Modelled,  \* the tasks that need the model slot
          Parents,   \* the tasks whose then_task_id is set ...
          Child,     \* ... to this task
          Envs,      \* what the user and the server may do, see Powers
          Calls,     \* bound: _execute_task() calls alive at once
          NoCall, NoTask

Powers == {"force", "stop", "pause", "foreground", "crash", "fault"}

ASSUME ConstantsAssumption ==
    /\ Envs \subseteq SUBSET Powers
    /\ Events \subseteq Tasks /\ Modelled \subseteq Tasks /\ Parents \subseteq Tasks
    /\ Child \in Tasks \ Parents
    /\ NoCall \notin Calls /\ NoTask \notin Tasks

VARIABLES
    status,     \* status[t]: of the task, in the database
    nextRun,    \* nextRun[t]: next_run is NULL, to come or has come
    row,        \* row[c]: status of the task_runs row of call c, in so far as it
                \* is queued, running or over
    stray,      \* the tasks and statuses of the rows that say queued or running and
                \* whose run is gone; two alike count as one
    up,         \* the server is running
    executing,  \* _executing
    handle,     \* handle[t]: _task_handles.get(t)
    at,         \* at[c]: where call c is suspended
    taskOf,     \* taskOf[c]: its task, if c is in use
    forced,     \* forced[c]: bypass_model_slot and not release_executing
    cancel,     \* cancel[c]: cancel() was called on it, by the user, for the
                \* foreground or by its monitor, foreground_cancel["hit"]
    blank,      \* blank[c]: the next_run its session loaded was NULL
    holder,     \* the call that holds _run_semaphore, or is about to
    waiters,    \* the calls that wait for it, in order
    busy,       \* has_foreground_activity()
    owed,       \* owed[t]: history, an event triggered t and no run of t has
                \* started since
    stopped,    \* history: the tasks the user stopped, until their runs end
    env,        \* the powers used in this behaviour
    faulted     \* history: a call to the database failed in this life of the
                \* server; bound: one does

db       == <<status, nextRun, row, stray>>
calls    == <<at, taskOf, forced, cancel, blank>>
registry == <<executing, handle>>
slot     == <<holder, waiters>>
history  == <<owed, stopped>>
state    == <<db, up, registry, calls, slot, busy, history>>
vars     == <<state, env, faulted>>

Open       == {"queued", "running"}
Suspended  == {"created", "queued", "gated", "working"}

TypeOK ==
    /\ status \in [Tasks -> {"active", "paused", "completed"}]
    /\ nextRun \in [Tasks -> {"none", "future", "past"}]
    /\ row \in [Calls -> Open \cup {"over"}]
    /\ stray \subseteq Tasks \X Open
    /\ up \in BOOLEAN /\ busy \in BOOLEAN
    /\ executing \subseteq Tasks
    /\ handle \in [Tasks -> Calls \cup {NoCall}]
    /\ at \in [Calls -> Suspended \cup {"idle", "chained"}]
    /\ taskOf \in [Calls -> Tasks \cup {NoTask}]
    /\ forced \in [Calls -> BOOLEAN]
    /\ cancel \in [Calls -> {"no", "user", "foreground", "hit"}]
    /\ blank \in [Calls -> BOOLEAN]
    /\ holder \in Calls \cup {NoCall} /\ waiters \in Seq(Calls)
    /\ \A c \in Calls : taskOf[c] = NoTask <=> at[c] = "idle"
    /\ holder # NoCall => at[holder] \in Suspended \ {"created"}
    /\ \A i \in DOMAIN waiters : waiters[i] # holder /\ at[waiters[i]] = "queued"
    /\ owed \in [Tasks -> BOOLEAN] /\ stopped \subseteq Tasks
    /\ env \in Envs /\ faulted \in BOOLEAN

Init ==
    /\ status = [t \in Tasks |-> "active"]
    /\ nextRun = [t \in Tasks |-> IF t \in Events THEN "none" ELSE "future"]
    /\ row = [c \in Calls |-> "over"] /\ stray = {}
    /\ up = TRUE /\ busy = FALSE
    /\ executing = {} /\ handle = [t \in Tasks |-> NoCall]
    /\ at = [c \in Calls |-> "idle"] /\ taskOf = [c \in Calls |-> NoTask]
    /\ forced = [c \in Calls |-> FALSE] /\ cancel = [c \in Calls |-> "no"]
    /\ blank = [c \in Calls |-> FALSE]
    /\ holder = NoCall /\ waiters = << >>
    /\ owed = [t \in Tasks |-> FALSE] /\ stopped = {}
    /\ env \in Envs /\ faulted = FALSE

-----------------------------------------------------------------------------
(* Who may run a task.                                                     *)

Free    == {c \in Calls : at[c] = "idle"}
Live(t) == {c \in Calls : at[c] \in Suspended /\ taskOf[c] = t /\ ~forced[c]}
Working(t) == \E c \in Calls : at[c] = "working" /\ taskOf[c] = t

\* asyncio.create_task(_execute_task(t)) as call c.
Create(c, t, force) ==
    /\ c \in Free
    /\ at' = [at EXCEPT ![c] = "created"]
    /\ taskOf' = [taskOf EXCEPT ![c] = t]
    /\ forced' = [forced EXCEPT ![c] = force]

\* A task is dispatched unless it is marked.
\* Mutant: the mark is not asked for.
MayDispatchAny(t) == TRUE
MayDispatch(t) == t \notin executing

Dispatch(t) ==
    /\ MayDispatch(t)
    /\ executing' = executing \cup {t}
    /\ \E c \in Calls : Create(c, t, FALSE)

\* run_task_now(): by the user, the agent, a webhook or the event bus.
RunNow(t) ==
    /\ up /\ Dispatch(t)
    /\ UNCHANGED <<db, up, handle, cancel, blank, slot, busy, history>>

ForceRun(t) ==
    /\ up /\ "force" \in env /\ \E c \in Calls : Create(c, t, TRUE)
    /\ UNCHANGED <<db, up, registry, cancel, blank, slot, busy, history>>

\* The trigger of an event task, as the event bus stores it.
\* Mutant: the counter is reset and nothing is stored.
TriggerForgotten(t) == nextRun
Trigger(t) == [nextRun EXCEPT ![t] = "past"]

\* _handle_event(): the threshold is reached; a task that is marked is left to
\* the run it has.
Event(t) ==
    /\ up /\ t \in Events /\ status[t] = "active"
    /\ nextRun' = Trigger(t)
    /\ owed' = [owed EXCEPT ![t] = @ \/ ~Working(t)]
    /\ \/ Dispatch(t)
       \/ ~MayDispatch(t) /\ UNCHANGED <<executing, at, taskOf, forced>>
    /\ UNCHANGED <<status, row, stray, up, handle, cancel, blank, slot, busy, stopped>>

-----------------------------------------------------------------------------
(* _check_due_tasks().                                                     *)

Due == {t \in Tasks : status[t] = "active" /\ nextRun[t] = "past" /\ MayDispatch(t)}

\* Nothing is dispatched while the user is active.
PutOff ==
    /\ up /\ busy /\ Due # {}
    /\ nextRun' = [t \in Tasks |-> IF t \in Due THEN "future" ELSE nextRun[t]]
    /\ UNCHANGED <<status, row, stray, up, registry, calls, slot, busy, history>>

\* All due tasks are dispatched, as many as the bound on Calls allows.
Poll(D) ==
    /\ up /\ ~busy
    /\ D \subseteq Due /\ D # {}
    /\ executing' = executing \cup D
    /\ \E C \in SUBSET Free : \E f \in Bijection(C, D) :
        /\ D = Due \/ C = Free
        /\ at' = [c \in Calls |-> IF c \in C THEN "created" ELSE at[c]]
        /\ taskOf' = [c \in Calls |-> IF c \in C THEN f[c] ELSE taskOf[c]]
        /\ forced' = [c \in Calls |-> c \notin C /\ forced[c]]
    /\ UNCHANGED <<db, up, handle, cancel, blank, slot, busy, history>>

-----------------------------------------------------------------------------
(* The call c: _execute_task() and _execute_task_locked().                 *)

\* The calls whose end takes the mark of their task away.
\* Mutant: a forced one too.
ReleasesAlways(c) == TRUE
Releases(c) == ~forced[c]

\* The slot when c, with h holding it, waits for it or holds it no more.
\* Mutants: it is not handed on; a call that waits frees it when it is cancelled.
LetGoKept(c, h) == holder' = h /\ waiters' = waiters
LetGoTwice(c, h) == holder' = NoCall /\ waiters' = RemoveFirst(waiters, c)
LetGo(c, h) ==
    \/ h # c /\ holder' = h /\ waiters' = RemoveFirst(waiters, c)
    \/ h = c /\ waiters = << >> /\ holder' = NoCall /\ waiters' = waiters
    \/ h = c /\ waiters # << >> /\ holder' = Head(waiters) /\ waiters' = Tail(waiters)

\* The end of c, where hs are the handles and h is the holder of the slot; its
\* number goes to the call it chains to, if any.
Leave(c, hs, h, chained) ==
    LET t == taskOf[c] IN
    /\ at' = [at EXCEPT ![c] = IF chained = NoTask THEN "idle" ELSE "chained"]
    /\ taskOf' = [taskOf EXCEPT ![c] = chained] /\ forced' = [forced EXCEPT ![c] = FALSE]
    /\ executing' = IF Releases(c) THEN executing \ {t} ELSE executing
    /\ handle' = IF hs[t] = c THEN [hs EXCEPT ![t] = NoCall] ELSE hs
    /\ cancel' = [cancel EXCEPT ![c] = "no"] /\ blank' = [blank EXCEPT ![c] = FALSE]
    /\ stopped' = IF Live(t) \subseteq {c} THEN stopped \ {t} ELSE stopped
    /\ LetGo(c, h)

\* The work begins: the row says so, whatever it said.
Start(c, hs, h) ==
    /\ at' = [at EXCEPT ![c] = "working"]
    /\ row' = [row EXCEPT ![c] = "running"]
    /\ blank' = [blank EXCEPT ![c] = nextRun[taskOf[c]] = "none"]
    /\ owed' = [owed EXCEPT ![taskOf[c]] = FALSE]
    /\ handle' = hs /\ holder' = h
    /\ UNCHANGED <<executing, taskOf, forced, cancel, stopped>>

\* What becomes of the row r of a task that is no longer active.
\* Mutant: it is left as it is.
SkippedKept(r) == r
Skipped(r) == IF r = "queued" THEN "over" ELSE r

\* _execute_task_locked() up to its first suspension; r is the row of c.
Enter(c, r, hs, h) ==
    \/ /\ status[taskOf[c]] # "active"
       /\ row' = [row EXCEPT ![c] = Skipped(r)]
       /\ Leave(c, hs, h, NoTask)
       /\ UNCHANGED owed
    \/ /\ status[taskOf[c]] = "active" /\ ~forced[c] /\ busy
       /\ at' = [at EXCEPT ![c] = "gated"]
       /\ row' = [row EXCEPT ![c] = r]
       /\ handle' = hs /\ holder' = h
       /\ UNCHANGED <<executing, taskOf, forced, cancel, blank, waiters, history>>
    \/ /\ status[taskOf[c]] = "active" /\ (forced[c] \/ ~busy)
       /\ Start(c, hs, h) /\ UNCHANGED waiters

NeedsSlot(c) == ~forced[c] /\ taskOf[c] \in Modelled

Registered(c) == [handle EXCEPT ![taskOf[c]] = c]

\* The call registers itself and its row r, and goes on unless it must queue.
Begin(c, r) ==
    LET hs == Registered(c) IN
    /\ at[c] = "created"
    /\ \/ ~NeedsSlot(c) /\ Enter(c, r, hs, holder)
       \/ /\ NeedsSlot(c) /\ holder = NoCall
          /\ Enter(c, r, hs, c)
       \/ /\ NeedsSlot(c) /\ holder # NoCall
          /\ at' = [at EXCEPT ![c] = "queued"]
          /\ row' = [row EXCEPT ![c] = r]
          /\ handle' = hs /\ waiters' = Append(waiters, c)
          /\ UNCHANGED <<executing, taskOf, forced, cancel, blank, holder, history>>
    /\ UNCHANGED <<status, nextRun, stray, up, busy>>

\* async with _run_semaphore goes on.
Acquired(c) ==
    /\ at[c] = "queued" /\ holder = c /\ cancel[c] = "no"
    /\ Enter(c, row[c], handle, holder)
    /\ UNCHANGED <<status, nextRun, stray, up, busy>>

\* wait_for_interactive_quiet() returns.
Quiet(c) ==
    /\ at[c] = "gated" /\ ~busy /\ cancel[c] = "no"
    /\ Start(c, handle, holder)
    /\ UNCHANGED <<status, nextRun, stray, up, waiters, busy>>

\* _defer_immediately_due_task() for a call of t.
\* Mutant: the task is treated as one that was stopped at work.
Dropped(t) == [nextRun EXCEPT ![t] = IF t \in Events THEN "none" ELSE "future"]
Deferred(t) ==
    IF status[t] = "active" /\ nextRun[t] = "past"
    THEN [nextRun EXCEPT ![t] = "future"] ELSE nextRun

\* Cancelled in the queue or before the gate.
Abandon(c) ==
    /\ at[c] \in {"queued", "gated"} /\ cancel[c] # "no"
    /\ row' = [row EXCEPT ![c] = "over"]
    /\ nextRun' = Deferred(taskOf[c])
    /\ Leave(c, handle, holder, NoTask)
    /\ UNCHANGED <<status, stray, up, busy, owed>>

\* next_run after a run: a schedule gives the next time, or none when it was
\* for once; an event task is reset, which is no change, and not written,
\* when the session had loaded NULL.
After(c) ==
    IF taskOf[c] \in Events
    THEN {"none"} \cup IF blank[c] THEN {nextRun[taskOf[c]]} ELSE {}
    ELSE {"future", "none"}

\* The work of c is over, its row too: next_run is n.
Over(c, n, chained) ==
    /\ at[c] = "working"
    /\ row' = [row EXCEPT ![c] = "over"]
    /\ nextRun' = [nextRun EXCEPT ![taskOf[c]] = n]
    /\ Leave(c, handle, holder, chained)
    /\ UNCHANGED <<stray, up, busy, owed>>

\* It succeeds, or an action reports an error, and then chains to nothing.  A
\* schedule that has no next time is completed if it was for once.
Result(c) ==
    /\ cancel[c] = "no"
    /\ \E n \in After(c), next \in {NoTask} \cup IF taskOf[c] \in Parents THEN {Child} ELSE {} :
        /\ Over(c, n, next)
        /\ \/ UNCHANGED status
           \/ /\ taskOf[c] \notin Events /\ n = "none"
              /\ status' = [status EXCEPT ![taskOf[c]] = "completed"]

\* next_run after an exception: only a schedule is advanced.
Advanced(c) == IF taskOf[c] \in Events THEN {nextRun[taskOf[c]]} ELSE After(c)

\* TaskNoop; TaskDeferred, which deletes the row; any other exception.
Noop(c) ==
    /\ cancel[c] = "no"
    /\ \E n \in After(c) : Over(c, n, NoTask)
    /\ UNCHANGED status

Defer(c) ==
    /\ cancel[c] = "no" /\ Over(c, "future", NoTask)
    /\ UNCHANGED status

Raise(c) ==
    /\ cancel[c] = "no"
    /\ \E n \in Advanced(c) : Over(c, n, NoTask)
    /\ UNCHANGED status

\* Cancelled at work: the work unwinds and the scheduler asks who it was.
Unwound(c) ==
    /\ cancel[c] # "no"
    /\ \E n \in IF cancel[c] = "hit" THEN {"future"} ELSE After(c) : Over(c, n, NoTask)
    /\ UNCHANGED status

\* _run_chained(): the end of a parent's run starts the child, unless it is
\* marked; it then begins like a call that was dispatched.
RunChained(c) ==
    /\ at[c] = "chained"
    /\ \/ /\ MayDispatch(taskOf[c])
          /\ executing' = executing \cup {taskOf[c]}
          /\ at' = [at EXCEPT ![c] = "created"]
          /\ UNCHANGED taskOf
       \/ /\ ~MayDispatch(taskOf[c])
          /\ at' = [at EXCEPT ![c] = "idle"] /\ taskOf' = [taskOf EXCEPT ![c] = NoTask]
          /\ UNCHANGED executing
    /\ UNCHANGED <<db, up, handle, forced, cancel, blank, slot, busy, history>>

WorkEnds(c) == Result(c) \/ Noop(c) \/ Defer(c) \/ Raise(c)

CallStep(c) ==
    Begin(c, "queued") \/ Acquired(c) \/ Quiet(c) \/ Abandon(c) \/ Unwound(c) \/ RunChained(c)

-----------------------------------------------------------------------------
(* The call c when a call to the database fails: its row may not be there   *)
(* in the first place, or the call ends at once.                           *)

\* c ends, its row says r and next_run is n.
Breaks(c, hs, r, n) ==
    /\ row' = [row EXCEPT ![c] = "over"]
    /\ stray' = stray \cup ({<<taskOf[c], r>>} \cap (Tasks \X Open))
    /\ nextRun' = [nextRun EXCEPT ![taskOf[c]] = n]
    /\ Leave(c, hs, holder, NoTask)
    /\ UNCHANGED <<status, up, busy, owed>>

\* Before the row says running, where the handler closes running rows only.
\* It is of no help to a call that has not come as far as its session, and
\* fails if the session does; if its commit fails, it closes any row.
BreaksEarly(c) ==
    LET hs == IF at[c] = "created" THEN Registered(c) ELSE handle
        r  == IF at[c] = "created" THEN "queued" ELSE row[c] IN
    /\ \/ at[c] = "created"
       \/ at[c] = "queued" /\ holder = c /\ cancel[c] = "no"
       \/ at[c] = "gated" /\ ~busy /\ cancel[c] = "no"
    /\ \/ Breaks(c, hs, r, nextRun[taskOf[c]])
       \/ /\ at[c] = "created" => ~NeedsSlot(c) \/ holder = NoCall
          /\ \E n \in Advanced(c) : Breaks(c, hs, r, n) \/ Breaks(c, hs, "over", n)

\* Cancelled in the queue or before the gate: the two errors are swallowed.
BreaksAbandoned(c) ==
    /\ at[c] \in {"queued", "gated"} /\ cancel[c] # "no"
    /\ \E r \in {row[c], "over"},
          n \in {nextRun[taskOf[c]], Deferred(taskOf[c])[taskOf[c]]} :
             Breaks(c, handle, r, n)

\* While the work begins, is done, ends or unwinds: the handler closes the row
\* unless its session is the one that failed.
BreaksAtWork(c) ==
    /\ at[c] = "working"
    /\ \/ Breaks(c, handle, row[c], nextRun[taskOf[c]])
       \/ \E n \in Advanced(c) : Breaks(c, handle, "over", n)

FaultStep(c) ==
    Begin(c, "over") \/ BreaksEarly(c) \/ BreaksAbandoned(c) \/ BreaksAtWork(c)

-----------------------------------------------------------------------------
(* The user and the foreground.                                            *)

\* _mark_run_aborted() for each task of T: the row started last, or any where
\* there are several, of a run that is there or gone.
OpenRows(t) == {c \in Calls : taskOf[c] = t /\ row[c] \in Open}
Strays(T) == {s \in stray : s[1] \in T}
MarkAborted(T) ==
    \E S \in SUBSET Calls, Z \in SUBSET Strays(T) :
        /\ \A c \in S : taskOf[c] \in T /\ row[c] \in Open
        /\ \A t \in T :
            LET closed == {c \in S : taskOf[c] = t} \cup {s \in Z : s[1] = t} IN
            IF OpenRows(t) \cup Strays({t}) = {} THEN closed = {} ELSE Cardinality(closed) = 1
        /\ row' = [c \in Calls |-> IF c \in S THEN "over" ELSE row[c]]
        /\ stray' \in {stray, stray \ Z}

Handles(T) == {handle[t] : t \in T} \cap Calls

\* stop_task().
StopTask(t) ==
    /\ up /\ "stop" \in env
    /\ t \in executing \/ Handles({t}) # {} \/ OpenRows(t) # {} \/ Strays({t}) # {}
    /\ cancel' = [c \in Calls |-> IF c \in Handles({t}) /\ cancel[c] # "hit"
                                  THEN "user" ELSE cancel[c]]
    /\ executing' = executing \ {t}
    /\ MarkAborted({t})
    /\ stopped' = IF Live(t) = {} THEN stopped ELSE stopped \cup {t}
    /\ UNCHANGED <<status, nextRun, up, handle, at, taskOf, forced, blank, slot, busy, owed>>

\* stop_background_tasks_for_foreground(), for a request or a heartbeat.
StopBackground ==
    /\ up /\ busy /\ executing # {}
    /\ cancel' = [c \in Calls |-> IF c \in Handles(executing) /\ cancel[c] = "no"
                                  THEN "foreground" ELSE cancel[c]]
    /\ MarkAborted(executing)
    /\ UNCHANGED <<status, nextRun, up, registry, at, taskOf, forced, blank, slot, busy, history>>

\* _cancel_if_foreground_active(), the monitor of a call at work.
ForegroundHits(c) ==
    /\ at[c] = "working" /\ ~forced[c] /\ busy
    /\ cancel' = [cancel EXCEPT ![c] = "hit"]
    /\ UNCHANGED <<db, up, registry, at, taskOf, forced, blank, slot, busy, history>>

Foreground ==
    /\ "foreground" \in env /\ busy' = ~busy
    /\ UNCHANGED <<db, up, registry, calls, slot, history>>

PauseTask(t) ==
    /\ up /\ "pause" \in env /\ status[t] = "active"
    /\ status' = [status EXCEPT ![t] = "paused"]
    /\ UNCHANGED <<nextRun, row, stray, up, registry, calls, slot, busy, history>>

ResumeTask(t) ==
    /\ up /\ status[t] # "active"
    /\ status' = [status EXCEPT ![t] = "active"]
    /\ \E n \in IF t \in Events THEN {nextRun[t]} ELSE {"future", "none"} :
          nextRun' = [nextRun EXCEPT ![t] = n]
    /\ UNCHANGED <<row, stray, up, registry, calls, slot, busy, history>>

TimePasses(t) ==
    /\ nextRun[t] = "future"
    /\ nextRun' = [nextRun EXCEPT ![t] = "past"]
    /\ UNCHANGED <<status, row, stray, up, registry, calls, slot, busy, history>>

-----------------------------------------------------------------------------
(* The server.                                                             *)

Crash ==
    /\ up /\ "crash" \in env /\ up' = FALSE
    /\ executing' = {} /\ handle' = [t \in Tasks |-> NoCall]
    /\ at' = [c \in Calls |-> "idle"] /\ taskOf' = [c \in Calls |-> NoTask]
    /\ forced' = [c \in Calls |-> FALSE] /\ cancel' = [c \in Calls |-> "no"]
    /\ blank' = [c \in Calls |-> FALSE]
    /\ holder' = NoCall /\ waiters' = << >>
    /\ stopped' = {}
    /\ row' = [c \in Calls |-> "over"]
    /\ stray' = stray \cup {s \in Tasks \X Open : \E c \in OpenRows(s[1]) : row[c] = s[2]}
    /\ UNCHANGED <<status, nextRun, busy, owed>>

\* start(): the rows of the calls that died are closed, the tasks that are
\* overdue are put off by a minute.
PutOffAll == [t \in Tasks |-> IF status[t] = "active" /\ nextRun[t] = "past"
                              THEN "future" ELSE nextRun[t]]

StartUp(left, next) ==
    /\ ~up /\ up' = TRUE
    /\ stray' = left /\ nextRun' = next
    /\ UNCHANGED <<status, row, registry, calls, slot, busy, history>>

Restart == StartUp({}, PutOffAll)

\* One of the two fails, or both; that is logged.
RestartFails ==
    StartUp(stray, nextRun) \/ StartUp({}, nextRun) \/ StartUp(stray, PutOffAll)

Next ==
    /\ env' = env
    /\ \/ /\ \/ \E t \in Tasks : RunNow(t) \/ ForceRun(t) \/ Event(t)
                            \/ StopTask(t) \/ PauseTask(t) \/ ResumeTask(t) \/ TimePasses(t)
             \/ PutOff \/ \E D \in SUBSET Tasks : Poll(D)
             \/ \E c \in Calls : CallStep(c) \/ WorkEnds(c) \/ ForegroundHits(c)
             \/ StopBackground \/ Foreground \/ Crash
          /\ UNCHANGED faulted
       \/ Restart /\ faulted' = FALSE
       \/ /\ "fault" \in env /\ faulted' = TRUE
          /\ \/ ~faulted /\ \E c \in Calls : FaultStep(c)
             \/ RestartFails

Spec == Init /\ [][Next]_vars

\* The loop runs what is ready and polls, the work of a task ends in some way
\* (model calls and tools have timeouts), time passes and the server is
\* started again.
Fairness ==
    /\ WF_state(Restart)
    /\ \A c \in Calls : WF_state(CallStep(c)) /\ WF_state(WorkEnds(c))
    /\ \A t \in Tasks :
        /\ WF_state(TimePasses(t))
        /\ SF_state(\E D \in SUBSET Tasks : t \in D /\ Poll(D))

FairSpec == Spec /\ Fairness

-----------------------------------------------------------------------------
(* Properties.                                                             *)

\* The mark of a task in _executing is its lock, taken by four kinds of
\* dispatch and given back by the run itself: it never outlives the run (the
\* task would not run again before a restart), and while it counts a task has
\* one run at a time, through the poll, the user, events, chains, forced runs
\* and cancellations.  Only stop_task(), which takes the mark from a run that
\* is still there, breaks it, for as long as that run and its like last.
OneAtATime ==
    \A t \in Tasks :
        /\ t \in executing => Live(t) # {}
        /\ t \notin stopped =>
            /\ \A c, d \in Live(t) : c = d
            /\ Live(t) # {} => t \in executing

\* "Strict serial execution - exactly one task runs at a time ... a hard
\* guarantee" (task_scheduler.py:348), for the runs that need the model: one of
\* them at most is past the queue, in whatever way the slot is taken, handed on
\* and given up, and none waits for a slot that is free or that will not be
\* handed to it.
OneModelRun ==
    /\ \A c, d \in Calls :
          {at[c], at[d]} \subseteq {"gated", "working"} /\ NeedsSlot(c) /\ NeedsSlot(d) => c = d
    /\ \A c \in Calls : at[c] = "queued" => holder # NoCall /\ c \in {holder} \cup Range(waiters)

\* "makes the trigger survive reboot instead of losing the event"
\* (event_bus.py:100): from an event that finds its task not at work until a
\* run of the task starts, the database knows that the task has to run, in
\* whatever way the runs dispatched for it end.
EventKept == \A t \in Tasks : owed[t] => nextRun[t] # "none"

\* No row says queued or running when its run is gone (start(): "leaves rows
\* stuck running indefinitely ... the UI shows phantoms"): every way out of a
\* run closes it, and a restart closes those of the runs that died, as long as
\* the calls to the database succeed.
NoPhantomRuns ==
    up /\ ~faulted =>
        /\ stray = {}
        /\ \A c \in Calls : row[c] \in Open => at[c] \in Suspended

\* When the server stays up and the user away, every active task that has a
\* next_run is run, unless it is paused or stopped.
Calm == <>[](up /\ ~busy)
ActiveTasksRun ==
    Calm => \A t \in Tasks : status[t] = "active" /\ nextRun[t] # "none"
              ~> Working(t) \/ status[t] # "active" \/ nextRun[t] = "none" \/ t \in stopped
=============================================================================
