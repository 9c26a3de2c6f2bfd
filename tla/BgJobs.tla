------------------------------- MODULE BgJobs -------------------------------
(***************************************************************************)
(* Detached bash jobs, src/src/bg_jobs.py, the monitor that re-invokes the *)
(* agent with their results, src/src/bg_monitor.py, and the agent's tools  *)
(* that launch, inspect and kill them.                                     *)
(*                                                                         *)
(* The server is one event loop: an action of it is the code between two   *)
(* points where something else can act.  The processes of the jobs run     *)
(* beside it, and outlive it; refresh() is therefore cut at each look it   *)
(* takes at a process or its files, although the loop runs nothing else    *)
(* meanwhile.  The store is a JSON file replaced atomically.               *)
(***************************************************************************)
EXTENDS Naturals, FiniteSets

CONSTANTS Jobs,       \* job ids
          Sessions,   \* chat sessions
          MaxFaults,  \* bound: deaths of the server and failed writes of the store
          MaxTurns    \* bound: live turns of the user

NoJob   == "no job"

ASSUME ConstantsAssumption ==
    MaxFaults \in Nat /\ MaxTurns \in Nat /\ NoJob \notin Jobs

NoRec   == [why |-> "none"]
Running == [why |-> "running", exit |-> 0, followed |-> FALSE]
Idle    == [at |-> "idle"]

VARIABLES
    proc,      \* proc[j]: the wrapper of j: none, running, writing its exit
               \* file, or gone
    cmd,       \* cmd[j]: the user's command, a child of it: none, running or over
    file,      \* file[j]: the exit file: absent, empty or code
    code,      \* code[j]: history, the exit status of the user's command
    rec,       \* rec[j]: the record of j in the store
    sessionOf, \* sessionOf[j]: its session_id, a member of Sessions
    overdue,   \* overdue[j]: max_runtime_s has passed
    up,        \* the server is running
    scan,      \* a refresh() in progress: its copy of the store, ...
    mon,       \* where the monitor loop is suspended
    turn,      \* turn[s]: a live turn of session s is streaming
    alive,     \* the sessions that have not been deleted
    posts,     \* posts[j]: history, messages the monitor added for j
    heard,     \* heard[j]: history, one of them was an answer and is stored
    faults, turns  \* counters for the bounds

procVars   == <<proc, cmd, file, code, overdue>>
storeVars  == <<rec, sessionOf>>
serverVars == <<up, scan, mon>>
userVars   == <<turn, alive, turns>>
chatVars   == <<posts, heard>>
vars == <<procVars, storeVars, serverVars, userVars, chatVars, faults>>

Finished(r) == r.why \notin {"none", "running"}

Init ==
    /\ proc = [j \in Jobs |-> "none"] /\ cmd = [j \in Jobs |-> "none"]
    /\ file = [j \in Jobs |-> "absent"]
    /\ code = [j \in Jobs |-> 0] /\ overdue = [j \in Jobs |-> FALSE]
    /\ rec = [j \in Jobs |-> NoRec]
    /\ sessionOf \in [Jobs -> Sessions]
    /\ up = TRUE /\ scan = Idle /\ mon = Idle
    /\ turn = [s \in Sessions |-> FALSE] /\ alive = Sessions
    /\ posts = [j \in Jobs |-> 0] /\ heard = [j \in Jobs |-> FALSE]
    /\ faults = 0 /\ turns = 0

-----------------------------------------------------------------------------
(* The processes of job j: the wrapper script and the command it waits for. *)

\* The command ends with status c, also when a signal ends it (c is not 0) or
\* when the wrapper is gone already.
CommandEnds(j, c) ==
    /\ cmd[j] = "running"
    /\ cmd' = [cmd EXCEPT ![j] = "over"]
    /\ code' = [code EXCEPT ![j] = c]
    /\ UNCHANGED <<proc, file, overdue, storeVars, serverVars, userVars, chatVars, faults>>

\* The shell opens the exit file, empty.
OpensFile(j) ==
    /\ proc[j] = "running" /\ cmd[j] = "over"
    /\ proc' = [proc EXCEPT ![j] = "writing"]
    /\ file' = [file EXCEPT ![j] = "empty"]
    /\ UNCHANGED <<cmd, code, overdue, storeVars, serverVars, userVars, chatVars, faults>>

\* echo writes the status and the wrapper ends.
WritesCode(j) ==
    /\ proc[j] = "writing"
    /\ proc' = [proc EXCEPT ![j] = "gone"]
    /\ file' = [file EXCEPT ![j] = "code"]
    /\ UNCHANGED <<cmd, code, overdue, storeVars, serverVars, userVars, chatVars, faults>>

\* The wrapper is killed; the command may run on.  This and CommandEnds are
\* also what the SIGTERM of kill_process_tree() may lead to: it is sent once,
\* errors are swallowed, and each process takes it when it will, or ignores it.
\* No step of the server that sends it therefore changes a process.
Vanishes(j) ==
    /\ proc[j] \in {"running", "writing"}
    /\ proc' = [proc EXCEPT ![j] = "gone"]
    /\ UNCHANGED <<cmd, file, code, overdue, storeVars, serverVars, userVars, chatVars, faults>>

TimePasses(j) ==
    /\ rec[j].why = "running" /\ ~overdue[j]
    /\ overdue' = [overdue EXCEPT ![j] = TRUE]
    /\ UNCHANGED <<proc, cmd, file, code, storeVars, serverVars, userVars, chatVars, faults>>

ProcessStep(j) ==
    OpensFile(j) \/ WritesCode(j) \/ Vanishes(j) \/ \E c \in {0, 1} : CommandEnds(j, c)

-----------------------------------------------------------------------------
(* refresh().                                                              *)

\* The loop is free to run a handler.
Free == up /\ scan = Idle /\ mon.at # "posted"

\* A refresh begins on behalf of the monitor, of a tool that reads, or of one
\* that wants to kill job j.
Scan(by, j) == [at |-> "scan", by |-> by, job |-> j, recs |-> rec,
                todo |-> {i \in Jobs : rec[i].why = "running"}, missed |-> {}]

\* The verdict on job j in the copy of the store.
Verdict(j, why, exit) ==
    scan' = [scan EXCEPT !.recs[j] = [@ EXCEPT !.why = why, !.exit = exit],
                         !.todo = @ \ {j}, !.missed = @ \ {j}]

\* int(text.strip() or "1"): an empty file reads as a failure.
ReadCode(j) == IF file[j] = "empty" THEN 1 ELSE code[j]

\* First look at job j: its exit file, then its age.  A job that is too old is
\* sent SIGTERM (see Vanishes).
Look(j) ==
    /\ up /\ scan # Idle /\ j \in scan.todo \ scan.missed
    /\ \/ file[j] # "absent" /\ Verdict(j, "exit", ReadCode(j))
       \/ file[j] = "absent" /\ overdue[j] /\ Verdict(j, "timeout", 1)
       \/ /\ file[j] = "absent" /\ ~overdue[j]
          /\ scan' = [scan EXCEPT !.missed = @ \cup {j}]
    /\ UNCHANGED <<procVars, storeVars, up, mon, userVars, chatVars, faults>>

\* The wrapper of j is not found and it has left no exit file.
\* Mutant: the file is not asked for again after the process.
DiedUnasked(j) == proc[j] = "gone"
Died(j) == proc[j] = "gone" /\ file[j] = "absent"

\* Second look, at the wrapper: one that is gone may still be seen, as a
\* zombie or because its pid was given away, until it is overdue.
Probe(j) ==
    /\ up /\ scan # Idle /\ j \in scan.missed
    /\ \/ Died(j) /\ Verdict(j, "died", 1)
       \/ scan' = [scan EXCEPT !.todo = @ \ {j}, !.missed = @ \ {j}]
    /\ UNCHANGED <<procVars, storeVars, up, mon, userVars, chatVars, faults>>

\* _prune(): the finished jobs it may drop once they are old.
Prunable(r) == Finished(r) /\ r.followed

\* kill(): the record of a job that still runs is closed for good.
\* Mutants: the follow-up is left to the monitor; the record is replaced.
KilledAndPending(r) == [r EXCEPT !.why = "killed", !.exit = 1]
KilledAnew(r) == [why |-> "killed", followed |-> TRUE]
KilledRec(r) == [r EXCEPT !.why = "killed", !.exit = 1, !.followed = TRUE]

\* kill() acts on a job that its own refresh left running.
\* Mutant: the status is not asked.
StopsAny(r) == r.why # "none"
Stops(r) == r.why = "running"

\* The copy without the old jobs that are pruned.
Kept(old) == [j \in Jobs |-> IF j \in old THEN NoRec ELSE scan.recs[j]]
Olds == SUBSET {j \in Jobs : Prunable(scan.recs[j])}

\* The job that kill() finds running after the refresh of its get().
Kills == IF scan.by = "kill" /\ Stops(scan.recs[scan.job]) THEN {scan.job} ELSE {}

\* refresh() prunes and saves its copy; the caller goes on from there.  kill()
\* sends SIGTERM (see Vanishes) and saves once more.
ScanDone ==
    /\ up /\ scan # Idle /\ scan.todo = {}
    /\ scan' = Idle
    /\ \E old \in Olds :
          rec' = [j \in Jobs |-> IF j \in Kills THEN KilledRec(scan.recs[j]) ELSE Kept(old)[j]]
    /\ mon' = IF scan.by = "monitor"
              THEN [at |-> "batch", job |-> NoJob,
                    todo |-> {j \in Jobs : Finished(rec'[j]) /\ ~rec'[j].followed}]
              ELSE mon
    /\ UNCHANGED <<procVars, sessionOf, up, userVars, chatVars, faults>>

\* _save() raises, in refresh() or in kill(): the tool, or the tick of the
\* monitor, ends there, and what was to be saved is lost.
SaveFails ==
    /\ up /\ scan # Idle /\ scan.todo = {}
    /\ faults < MaxFaults /\ faults' = faults + 1
    /\ scan' = Idle
    /\ \E old \in Olds :
          \/ Kept(old) # rec /\ rec' = rec
          \/ Kills # {} /\ rec' = Kept(old)
    /\ UNCHANGED <<procVars, sessionOf, up, mon, userVars, chatVars>>

-----------------------------------------------------------------------------
(* The agent's tools, in a live turn or in a follow-up of session s.       *)

Acting(s) == turn[s] \/ (mon.at = "agent" /\ sessionOf[mon.job] = s)

\* launch(): the process is started and its record saved, or not, when the
\* write fails or the server dies in between: then nobody knows of the job.
Launch(j) ==
    /\ Free /\ Acting(sessionOf[j])
    /\ proc[j] = "none"
    /\ proc' = [proc EXCEPT ![j] = "running"] /\ cmd' = [cmd EXCEPT ![j] = "running"]
    /\ \/ rec' = [rec EXCEPT ![j] = Running] /\ UNCHANGED faults
       \/ faults < MaxFaults /\ faults' = faults + 1 /\ UNCHANGED rec
    /\ UNCHANGED <<file, code, overdue, sessionOf, serverVars, userVars, chatVars>>

\* manage_bg_jobs: get() or list_for_session(), and kill() after a get().
Inspect ==
    /\ Free /\ \E s \in Sessions : Acting(s)
    /\ scan' = Scan("reader", NoJob)
    /\ UNCHANGED <<procVars, storeVars, up, mon, userVars, chatVars, faults>>

Kill(j) ==
    /\ Free /\ Acting(sessionOf[j])
    /\ rec[j] # NoRec
    /\ scan' = Scan("kill", j)
    /\ UNCHANGED <<procVars, storeVars, up, mon, userVars, chatVars, faults>>

-----------------------------------------------------------------------------
(* The monitor.                                                            *)

\* pending_followups(), every POLL_INTERVAL_S.
Tick ==
    /\ Free /\ mon = Idle
    /\ scan' = Scan("monitor", NoJob)
    /\ UNCHANGED <<procVars, storeVars, up, mon, userVars, chatVars, faults>>

Skipped(j) == [at |-> "batch", job |-> NoJob, todo |-> mon.todo \ {j}]

\* Mutant of PutOff: a job that is put off counts as handled.
PutOffForGood(j) ==
    /\ Free /\ mon.at = "batch" /\ j \in mon.todo
    /\ sessionOf[j] \notin alive \/ turn[sessionOf[j]]
    /\ mon' = Skipped(j)
    /\ rec' = [rec EXCEPT ![j].followed = TRUE]
    /\ UNCHANGED <<procVars, sessionOf, up, scan, userVars, chatVars, faults>>

\* _run_followup() of a job of the batch: get_session() raises for a session
\* that is gone, and a busy session is put off: both are retried.
PutOff(j) ==
    /\ Free /\ mon.at = "batch" /\ j \in mon.todo
    /\ sessionOf[j] \notin alive \/ turn[sessionOf[j]]
    /\ mon' = Skipped(j)
    /\ UNCHANGED <<procVars, storeVars, up, scan, userVars, chatVars, faults>>

\* Otherwise the agent is run, for any length of time.
Reinvoke(j) ==
    /\ Free /\ mon.at = "batch" /\ j \in mon.todo
    /\ sessionOf[j] \in alive /\ ~turn[sessionOf[j]]
    /\ mon' = [mon EXCEPT !.at = "agent", !.job = j]
    /\ UNCHANGED <<procVars, storeVars, up, scan, userVars, chatVars, faults>>

\* The loop of the agent ends and a message is added to the session.  That the
\* model failed is an event that _drain_agent() skips: the message is then
\* empty or partial; and an insert that fails is only logged.  good says that
\* neither happened.
Post ==
    /\ Free /\ mon.at = "agent"
    /\ sessionOf[mon.job] \in alive
    /\ posts' = [posts EXCEPT ![mon.job] = @ + 1]
    /\ \E good \in BOOLEAN : heard' = [heard EXCEPT ![mon.job] = @ \/ good]
    /\ mon' = [mon EXCEPT !.at = "posted"]
    /\ UNCHANGED <<procVars, storeVars, up, scan, userVars, faults>>

\* Mutant of AgentFails: the job is marked whatever the agent did.
AgentFailsMarked ==
    /\ Free /\ mon.at = "agent"
    /\ rec' = [rec EXCEPT ![mon.job].followed = TRUE]
    /\ mon' = Skipped(mon.job)
    /\ UNCHANGED <<procVars, sessionOf, up, scan, userVars, chatVars, faults>>

\* The loop raises, or the session was deleted meanwhile: retried.
AgentFails ==
    /\ Free /\ mon.at = "agent"
    /\ mon' = Skipped(mon.job)
    /\ UNCHANGED <<procVars, storeVars, up, scan, userVars, chatVars, faults>>

\* Mutant of Mark: the flag is set in the monitor's copy only.
MarkCopy ==
    /\ up /\ mon.at = "posted"
    /\ mon' = Skipped(mon.job)
    /\ UNCHANGED <<procVars, storeVars, up, scan, userVars, chatVars, faults>>

\* mark_followed_up(), in the same step of the loop as the post unless the
\* server dies between them.
Mark ==
    /\ up /\ mon.at = "posted"
    /\ rec' = IF rec[mon.job] = NoRec THEN rec
              ELSE [rec EXCEPT ![mon.job].followed = TRUE]
    /\ mon' = Skipped(mon.job)
    /\ UNCHANGED <<procVars, sessionOf, up, scan, userVars, chatVars, faults>>

\* Its _save() raises: _loop() catches that, and the job is continued again.
MarkFails ==
    /\ up /\ mon.at = "posted"
    /\ faults < MaxFaults /\ faults' = faults + 1
    /\ mon' = Skipped(mon.job)
    /\ UNCHANGED <<procVars, storeVars, up, scan, userVars, chatVars>>

BatchDone ==
    /\ Free /\ mon.at = "batch" /\ mon.todo = {}
    /\ mon' = Idle
    /\ UNCHANGED <<procVars, storeVars, up, scan, userVars, chatVars, faults>>

MonitorStep ==
    Tick \/ Mark \/ BatchDone \/ \E j \in Jobs : PutOff(j) \/ Reinvoke(j)

ScanStep == ScanDone \/ \E j \in Jobs : Look(j) \/ Probe(j)

-----------------------------------------------------------------------------
(* The user and the machine.                                               *)

\* agent_runs.start(), whatever the monitor does; the turn ends.
TurnStarts(s) ==
    /\ Free /\ s \in alive /\ ~turn[s] /\ turns < MaxTurns
    /\ turn' = [turn EXCEPT ![s] = TRUE] /\ turns' = turns + 1
    /\ UNCHANGED <<procVars, storeVars, serverVars, alive, chatVars, faults>>

TurnEnds(s) ==
    /\ Free /\ turn[s]
    /\ turn' = [turn EXCEPT ![s] = FALSE]
    /\ UNCHANGED <<procVars, storeVars, serverVars, alive, turns, chatVars, faults>>

\* A session is deleted, by a request served in a thread of its own.
DeleteSession(s) ==
    /\ up /\ s \in alive
    /\ alive' = alive \ {s}
    /\ UNCHANGED <<procVars, storeVars, serverVars, turn, turns, chatVars, faults>>

\* The server dies and is started again: the store, the processes and their
\* files remain.
Crash ==
    /\ up /\ faults < MaxFaults
    /\ up' = FALSE /\ scan' = Idle /\ mon' = Idle
    /\ turn' = [s \in Sessions |-> FALSE]
    /\ faults' = faults + 1
    /\ UNCHANGED <<procVars, storeVars, alive, turns, chatVars>>

Restart ==
    /\ ~up /\ up' = TRUE
    /\ UNCHANGED <<procVars, storeVars, scan, mon, userVars, chatVars, faults>>

Next ==
    \/ \E j \in Jobs : ProcessStep(j) \/ TimePasses(j) \/ Launch(j) \/ Kill(j)
    \/ Inspect \/ ScanStep \/ SaveFails \/ MonitorStep \/ Post \/ MarkFails \/ AgentFails
    \/ \E s \in Sessions : TurnStarts(s) \/ TurnEnds(s) \/ DeleteSession(s)
    \/ Crash \/ Restart

Spec == Init /\ [][Next]_vars

\* The loop runs what is ready, time passes, the server is started again, a
\* turn and a follow-up end, and the agent does not raise for ever.  Nothing is
\* assumed of the job itself, or of what the agent says.
Fairness ==
    /\ WF_vars(ScanStep) /\ SF_vars(MonitorStep) /\ WF_vars(Restart)
    /\ SF_vars(Post \/ AgentFails) /\ SF_vars(Post)
    /\ \A j \in Jobs : WF_vars(TimePasses(j)) /\ SF_vars(Reinvoke(j))
    /\ \A s \in Sessions : SF_vars(TurnEnds(s))

FairSpec == Spec /\ Fairness

-----------------------------------------------------------------------------
(* Properties.                                                             *)

TypeOK ==
    /\ proc \in [Jobs -> {"none", "running", "writing", "gone"}]
    /\ cmd \in [Jobs -> {"none", "running", "over"}]
    /\ file \in [Jobs -> {"absent", "empty", "code"}]
    /\ \A j \in Jobs : rec[j] = NoRec \/ rec[j] \in
          [why : {"running", "exit", "timeout", "died", "killed"},
           exit : {0, 1}, followed : BOOLEAN]
    /\ sessionOf \in [Jobs -> Sessions] /\ alive \subseteq Sessions
    /\ up \in BOOLEAN /\ turn \in [Sessions -> BOOLEAN]
    /\ mon.at \in {"idle", "batch", "agent", "posted"}
    /\ scan = Idle \/ scan.missed \subseteq scan.todo

\* What the record says happened did happen, although the processes run on
\* while refresh() looks: a job recorded with an exit status has ended, as done
\* only if with 0; one recorded as died has left none and never will; one
\* recorded as timed out is too old.  That a job is recorded as killed, timed
\* out or died does not mean that its command has ended.
OutcomeTrue ==
    \A j \in Jobs :
        /\ rec[j].why = "exit" =>
              cmd[j] = "over" /\ (rec[j].exit = 0 => code[j] = 0 /\ file[j] = "code")
        /\ rec[j].why = "died" => proc[j] = "gone" /\ file[j] = "absent"
        /\ rec[j].why = "timeout" => overdue[j]

\* A job the agent killed never brings the agent back (bg_jobs.kill), also not
\* from a batch the monitor collected before.
KilledStaysSilent ==
    \A j \in Jobs : rec[j].why = "killed" =>
        /\ posts[j] = 0
        /\ mon # Idle => j # mon.job /\ j \notin mon.todo

\* A job "stays {done, followed_up: False} until the agent has actually been
\* re-invoked" (bg_jobs.py:10): one marked as followed up was continued, with
\* whatever success, or killed by the agent.
FollowedMeansInvoked ==
    \A j \in Jobs : rec[j] # NoRec /\ rec[j].followed =>
        posts[j] > 0 \/ rec[j].why = "killed"

\* The monitor "only calls mark_followed_up() AFTER the agent run succeeds"
\* (bg_monitor.py:6): a job marked as followed up has its answer in the
\* session, or was killed by the agent.
FollowedMeansHeard ==
    \A j \in Jobs : rec[j] # NoRec /\ rec[j].followed =>
        heard[j] \/ rec[j].why = "killed"

\* A job is continued a second time only when the server died, or could not
\* write its store, in between.
RepeatsNeedFault == \A j \in Jobs : posts[j] <= 1 + faults

\* What the promise knows of job j.
StageOf(j) ==
    IF rec[j] = NoRec THEN IF proc[j] = "none" THEN "new" ELSE "gone"
    ELSE IF rec[j].why = "running" THEN "running"
    ELSE IF rec[j].followed THEN "settled"
    ELSE IF mon.at = "posted" /\ mon.job = j THEN "told" ELSE "over"

VerdictOf(j) ==
    IF Finished(rec[j]) THEN <<rec[j].why, rec[j].exit>> ELSE <<"none", 0>>

Promise == INSTANCE FollowUpPromise WITH
               stage <- [j \in Jobs |-> StageOf(j)],
               verdict <- [j \in Jobs |-> VerdictOf(j)],
               told <- posts, misses <- faults

\* The store, its refreshes, the monitor and the tools keep the promise of
\* FollowUpPromise: whatever copies of the store are saved, by whomever, a
\* verdict is final, and a job is settled after its continuation.
KeepsPromise == Promise!Spec

\* The agent is always re-invoked (bg_jobs.py:10, 14) for a recorded job whose
\* session lives, whether the job ends, hangs or vanishes, across restarts of
\* the server and failed writes, and a message is added.
AlwaysInvoked ==
    \A j \in Jobs : rec[j].why = "running"
        ~> posts[j] > 0 \/ rec[j].why = "killed" \/ sessionOf[j] \notin alive

\* "Don't write into a session that's mid-stream" (bg_monitor.py:109).
NoPostMidStream ==
    [][\A j \in Jobs : posts'[j] # posts[j] => ~turn[sessionOf[j]]]_vars

\* "Session was deleted ... Consider it handled so we don't retry forever"
\* (bg_monitor.py:104).
DeletedIsHandled ==
    \A j \in Jobs : Finished(rec[j]) /\ sessionOf[j] \notin alive
        ~> rec[j] = NoRec \/ rec[j].followed
=============================================================================
