---------------------------- MODULE ReplayPromise ----------------------------
(***************************************************************************)
(* What src/src/agent_runs.py promises its callers, with no tasks, queues  *)
(* or timers in it (module docstring, lines 1-16): a run is a log that     *)
(* grows until it is sealed; a reader replays its run's log from the first *)
(* event, one event at a time and in order, goes on live, and is told that *)
(* the stream ended only when the log is sealed and it holds all of it.    *)
(* One thing may still happen to a sealed log, once: when the save of a    *)
(* stopped run raises, an error notice is added to it.                     *)
(*                                                                         *)
(* AgentRuns implements this specification; see AgentRuns!Promise.         *)
(***************************************************************************)
EXTENDS Naturals, Sequences

CONSTANTS RunIds,    \* identities of detached runs
          Clients    \* connected browsers

VARIABLES len,       \* len[r]: number of events in the log of run r
          sealed,    \* sealed[r]: r was announced as over
          failed,    \* failed[r]: r holds its error notice
          reader,    \* reader[c]: "away", "open" or "finished"
          source,    \* source[c]: the run c asked for
          got        \* got[c]: the events c received, as <<run, index>>

promiseVars == <<len, sealed, failed, reader, source, got>>

Init ==
    /\ len = [r \in RunIds |-> 0]
    /\ sealed = [r \in RunIds |-> FALSE]
    /\ failed = [r \in RunIds |-> FALSE]
    /\ reader = [c \in Clients |-> "away"]
    /\ got = [c \in Clients |-> << >>]

-----------------------------------------------------------------------------

\* A log only grows; after it is sealed, by its error notice alone, which it
\* gets at most once.  Seals and failures are for ever.
LogStep(r) ==
    /\ len'[r] >= len[r]
    /\ sealed[r] => sealed'[r]
    /\ failed[r] => failed'[r]
    /\ sealed[r] /\ len'[r] # len[r] => ~failed[r] /\ failed'[r]

Idle(c) == UNCHANGED <<reader[c], source[c], got[c]>>

\* c asks for a run, from its beginning.
Open(c) ==
    /\ reader[c] \in {"away", "finished"}
    /\ reader'[c] = "open"
    /\ got'[c] = << >>

\* c receives the next event of its run.
Read(c) ==
    /\ reader[c] = "open" /\ reader'[c] = "open"
    /\ source'[c] = source[c]
    /\ Len(got[c]) < len[source[c]]
    /\ got'[c] = Append(got[c], <<source[c], Len(got[c])>>)

\* c is told that the stream is over: it has all there is in a sealed log.
Finish(c) ==
    /\ reader[c] = "open" /\ reader'[c] = "finished"
    /\ UNCHANGED <<source[c], got[c]>>
    /\ sealed[source[c]]
    /\ Len(got[c]) = len[source[c]]

\* c goes away, whatever it has received.
Leave(c) == reader[c] = "open" /\ reader'[c] = "away"

ReaderStep(c) == Idle(c) \/ Open(c) \/ Read(c) \/ Finish(c) \/ Leave(c)

Next == (\A r \in RunIds : LogStep(r)) /\ (\A c \in Clients : ReaderStep(c))

Spec == Init /\ [][Next]_promiseVars
=============================================================================
