--------------------------- MODULE FollowUpPromise ---------------------------
(***************************************************************************)
(* What src/src/bg_jobs.py and src/src/bg_monitor.py promise of a detached *)
(* job, with no processes, files, copies of the store or batches in it     *)
(* (their docstrings, lines 3-19 and 1-9): a job that was started is over  *)
(* once, with one verdict; it stays open until the agent has continued     *)
(* it, and only then is it settled and may be forgotten; the agent may     *)
(* instead kill it while it runs, and then it is never continued.  It is   *)
(* continued again only if the server missed to note a continuation,       *)
(* because it died or could not write, and it is never heard of if it      *)
(* missed to note the start.  What a continuation says is not part of it.  *)
(*                                                                         *)
(* BgJobs implements this specification; see BgJobs!Promise.               *)
(***************************************************************************)
EXTENDS Naturals

CONSTANT Jobs

VARIABLES stage,    \* stage[j]: "new", "running", "over", "told", "settled"
                    \* or "gone"
          verdict,  \* verdict[j]: <<why, exit status>>
          told,     \* told[j]: how often the agent has continued j
          misses    \* how often the server has died or could not write

promiseVars == <<stage, verdict, told, misses>>

NoVerdict == <<"none", 0>>
Killed    == <<"killed", 1>>

Init ==
    /\ stage = [j \in Jobs |-> "new"]
    /\ verdict = [j \in Jobs |-> NoVerdict]
    /\ told = [j \in Jobs |-> 0]
    /\ misses = 0

-----------------------------------------------------------------------------

Moves(j, from, to) == stage[j] = from /\ stage'[j] = to

Stays(j) == UNCHANGED <<stage[j], verdict[j], told[j]>>

Starts(j) == Moves(j, "new", "running") /\ UNCHANGED <<verdict[j], told[j]>>

\* The job runs and nobody knows of it.
IsUnknown(j) ==
    /\ Moves(j, "new", "gone") /\ UNCHANGED <<verdict[j], told[j]>>
    /\ misses' = misses + 1

\* The job ended, vanished or took too long.
Ends(j) ==
    /\ Moves(j, "running", "over") /\ told'[j] = told[j]
    /\ verdict'[j] \notin {NoVerdict, Killed}

IsKilled(j) ==
    /\ Moves(j, "running", "settled") /\ told'[j] = told[j]
    /\ verdict'[j] = Killed

\* The agent continues with the result.
Continues(j) ==
    /\ Moves(j, "over", "told") /\ verdict'[j] = verdict[j]
    /\ told'[j] = told[j] + 1

Settles(j) == Moves(j, "told", "settled") /\ UNCHANGED <<verdict[j], told[j]>>

\* The continuation is not noted.
Loses(j) ==
    /\ Moves(j, "told", "over") /\ UNCHANGED <<verdict[j], told[j]>>
    /\ misses' = misses + 1

Forgets(j) == Moves(j, "settled", "gone") /\ told'[j] = told[j]

JobStep(j) ==
    \/ Stays(j) \/ Starts(j) \/ IsUnknown(j) \/ Ends(j) \/ IsKilled(j) \/ Continues(j)
    \/ Settles(j) \/ Loses(j) \/ Forgets(j)

Next == misses' \in {misses, misses + 1} /\ \A j \in Jobs : JobStep(j)

Spec == Init /\ [][Next]_promiseVars
=============================================================================
