----------------------------- MODULE ChatClient -----------------------------
(***************************************************************************)
(* The send, stop, queue and background machinery of one browser tab of    *)
(* the chat, src/static/js/chat.js, with the part of sessions.js that      *)
(* changes the open chat, and the server's runs as the tab sees them.      *)
(*                                                                         *)
(* A tab is one JavaScript thread: an action is the code between two       *)
(* awaits, timers or events.  Sends are numbered over the whole tab in the *)
(* order in which the user makes them, so that the number of a send is     *)
(* also its generation within its chat, and the run the server makes of    *)
(* send n is run n.                                                        *)
(***************************************************************************)
EXTENDS Integers, Sequences, FiniteSets

CONSTANTS Sessions,   \* the chats of the tab
          NoSession,
          Envs,       \* what the user and the network may do, see Events
          MaxSends,   \* bound: sends
          MaxQueued,  \* bound: messages queued behind a response
          MaxSwitches \* bound: how often the user opens another chat

Events == {"stop", "escape", "queue", "promote", "switch", "timeout", "watchdog",
           "resume", "prepfail", "release", "drop", "refuse", "fail"}

ASSUME ConstantsAssumption ==
    /\ NoSession \notin Sessions /\ Envs \subseteq SUBSET Events
    /\ MaxSends \in Nat /\ MaxQueued \in Nat /\ MaxSwitches \in Nat

None  == 0
Sends == 1..MaxSends
Items == 1..MaxQueued

VARIABLES
    \* the open chat and the composer
    cur,       \* currentSessionId
    ui,        \* isStreaming, the watchdog's interval, currentHolder,
               \* whether currentAccumulated is not empty
    inFlight,  \* _sendInFlight
    composer,  \* the queued message the composer holds, or None
    \* per chat
    gen,       \* _streamGenerations
    sendState, \* _sendStates: the current send
    active,    \* _activeStreams: the send whose stream is registered
    runId,     \* _streamRunIds
    reader,    \* _streamSessionId
    bg,        \* _backgroundStreams: none, running, completed, error
    \* per send
    pc,        \* where its handleChatSubmit() is suspended
    home,      \* its streamSessionId
    what,      \* the queued message it sends, or None
    got,       \* sends some of whose text has arrived
    aborted,   \* sends whose AbortController is aborted
    timedOut,  \* sends whose timeout waits for RUN_ID_ABORT_GRACE_MS
    keys,      \* _pendingRunStops: the sends with a queued Stop, ...
    keyCtrl,   \* ... and the send whose controller goes with it
    \* queue and timers
    queue,     \* _queuedAgentRequests
    origin,    \* origin[q]: the chat q was queued in
    promoted,  \* the message of _queuedPromoteTimer, or None
    drainTimer,
    submits,   \* setTimeout(handleChatSubmit, 0) that have not run
    \* requests that are out
    probe, resume, resuming, recover, loading, polls,
    reselect,  \* chats that are selected again in the next task
    \* the server
    srv,       \* srv[n]: what it has made of send n
    posted,    \* runs an exact Stop was posted for
    arrived,   \* those whose Stop has reached the server
    wanted,    \* history: sends that the user or the timeout stopped
    \* the surroundings
    env,       \* the events of this behaviour
    switches

chatVars  == <<gen, sendState, active, runId, reader, bg>>
sendVars  == <<pc, home, what, got>>
stopVars  == <<aborted, timedOut, keys, keyCtrl, posted, wanted>>
queueVars == <<queue, origin, promoted, drainTimer, submits, composer>>
navVars   == <<resume, resuming, recover, loading, polls, reselect>>
srvVars   == <<srv, arrived>>
vars == <<cur, ui, inFlight, chatVars, sendVars, stopVars, queueVars,
          navVars, probe, srvVars, env, switches>>

world == <<env, switches>>

NoProbe  == [s |-> NoSession, n |-> None, found |-> "none"]
NoResume == [s |-> NoSession, run |-> None]

Init ==
    /\ cur \in Sessions
    /\ ui = [streaming |-> FALSE, watching |-> FALSE,
             holder |-> None, text |-> FALSE]
    /\ inFlight = FALSE /\ composer = None
    /\ gen = [s \in Sessions |-> None]
    /\ sendState = [s \in Sessions |-> None]
    /\ active = [s \in Sessions |-> None]
    /\ runId = [s \in Sessions |-> None]
    /\ reader = NoSession
    /\ bg = [s \in Sessions |-> "none"]
    /\ pc = [n \in Sends |-> "unused"]
    /\ home = [n \in Sends |-> NoSession]
    /\ what = [n \in Sends |-> None]
    /\ got = {} /\ aborted = {} /\ timedOut = {} /\ keys = {}
    /\ keyCtrl = [n \in Sends |-> None]
    /\ queue = <<>> /\ origin = [q \in Items |-> NoSession]
    /\ promoted = None /\ drainTimer = FALSE /\ submits = 0
    /\ probe = NoProbe /\ resume = NoResume
    /\ resuming = [s \in Sessions |-> None]
    /\ recover = NoSession /\ loading = NoSession /\ polls = {} /\ reselect = {}
    /\ srv = [n \in Sends |-> "none"]
    /\ posted = {} /\ arrived = {} /\ wanted = {}
    /\ env \in Envs /\ switches = 0

-----------------------------------------------------------------------------
(* The composer and its flags.                                             *)

\* Whether the generation of send n is still its chat's.
\* Mutant: the finally block does not ask.
OwnsAlways(n) == TRUE
Owns(n) == gen[home[n]] = n

\* _syncForegroundStreamGlobals(), with the registrations and the chat given
\* Mutant: it never takes the flag back.
SyncedUp(u, act, s) ==
    [u EXCEPT !.streaming = u.streaming \/ act[s] # None, !.holder = act[s]]
Synced(u, act, s) ==
    [u EXCEPT !.streaming = act[s] # None, !.holder = act[s]]

\* updateSubmitButton('idle')
Idle(u) == [u EXCEPT !.streaming = FALSE, !.watching = FALSE]

\* currentHolder = null, currentAccumulated = ''
Cleared(u) == [u EXCEPT !.holder = None, !.text = FALSE]

\* _drainQueuedAgentRequests() with the flags and the queue given
\* Mutant: it is called before the flags are reset.
DrainEarly(u, busy, left) ==
    drainTimer' = (drainTimer \/ (~ui.streaming /\ ~busy /\ left # <<>>))
Drain(u, busy, left) ==
    drainTimer' = (drainTimer \/ (~u.streaming /\ ~busy /\ left # <<>>))

\* hasActiveStream(s)
HasActiveStream(s) ==
    \/ active[s] # None \/ reader = s
    \/ bg[s] # "none"   \/ resuming[s] # None

\* The send waits for its response, or for the text of a refusal.
Waiting   == {"posted", "reading"}
OnTheWire == Waiting \cup {"refused"}

-----------------------------------------------------------------------------
(* Stopping.                                                               *)

\* The controller abortCurrentRequest() takes: the current send's, which
\* has none before it is registered, else that of the registered stream.
Controller(s) ==
    IF sendState[s] = None THEN active[s]
    ELSE IF pc[sendState[s]] \in OnTheWire THEN sendState[s] ELSE None

Abort(n) == aborted' = aborted \cup ({n} \ {None})

\* _stopExactRun(s, ctrl), then abort when a Stop was posted.  (A Stop in a
\* chat without a send is queued under a generation nobody has.)
StopExactRun(s, ctrl) ==
    /\ wanted' = wanted \cup ({gen[s]} \ {None})
    /\ IF runId[s] # None
       THEN /\ posted' = posted \cup {runId[s]} /\ Abort(ctrl)
            /\ UNCHANGED <<keys, keyCtrl>>
       ELSE /\ keys' = keys \cup ({gen[s]} \ {None})
            /\ keyCtrl' = IF gen[s] # None /\ (ctrl # None \/ gen[s] \notin keys)
                          THEN [keyCtrl EXCEPT ![gen[s]] = ctrl] ELSE keyCtrl
            /\ UNCHANGED <<posted, aborted>>

\* The branch of handleChatSubmit() for a click while isStreaming.
StopBranch(left) ==
    /\ StopExactRun(cur, Controller(cur))
    /\ ui' = Cleared(Idle(ui))
    /\ IF ui.holder # None /\ ~ui.text THEN Drain(Idle(ui), inFlight, left) ELSE UNCHANGED drainTimer

Stop ==
    /\ "stop" \in env /\ ui.streaming
    /\ StopBranch(queue)
    /\ UNCHANGED <<cur, inFlight, chatVars, sendVars, timedOut, queue, origin,
                   promoted, submits, composer, navVars, probe, srvVars, world>>

\* The cancel key: abortCurrentRequest() without the server.
Escape ==
    /\ "escape" \in env /\ Controller(cur) # None
    /\ Abort(Controller(cur))
    /\ UNCHANGED <<cur, ui, inFlight, chatVars, sendVars, timedOut, keys,
                   keyCtrl, posted, wanted, queueVars, navVars, probe, srvVars, world>>

\* The response timeout of send n, cleared by its first output.
Timeout(n) ==
    /\ "timeout" \in env
    /\ pc[n] \in Waiting /\ n \notin got \cup aborted \cup timedOut
    /\ timedOut' = timedOut \cup {n}
    /\ IF ~Owns(n)
       THEN Abort(n) /\ UNCHANGED <<keys, keyCtrl, posted, wanted>>
       ELSE StopExactRun(home[n], n)
    /\ UNCHANGED <<cur, ui, inFlight, chatVars, sendVars, queueVars, navVars,
                   probe, srvVars, world>>

\* No header within the grace period.
GraceOver(n) ==
    /\ n \in timedOut \ aborted /\ pc[n] \in OnTheWire
    /\ Abort(n)
    /\ UNCHANGED <<cur, ui, inFlight, chatVars, sendVars, timedOut, keys,
                   keyCtrl, posted, wanted, queueVars, navVars, probe, srvVars, world>>

-----------------------------------------------------------------------------
(* Sending.                                                                *)

\* handleChatSubmit() up to its first await.
Enter ==
    /\ \E n \in Sends :
          /\ pc[n] = "unused" /\ \A k \in 1..(n - 1) : pc[k] # "unused"
          /\ pc' = [pc EXCEPT ![n] = "entry"]
          /\ what' = [what EXCEPT ![n] = composer]
    /\ inFlight' = TRUE
    /\ UNCHANGED <<ui, drainTimer, aborted, keys, keyCtrl, posted, wanted>>

\* The user sends what the composer holds, or what they have typed.
UserSend ==
    /\ ~ui.streaming /\ ~inFlight
    /\ Enter
    /\ UNCHANGED <<cur, chatVars, home, got, timedOut, queue, origin, promoted,
                   submits, composer, navVars, probe, srvVars, world>>

\* The submission _setComposerAndSend() has put off to the next task: while
\* a stream is in the foreground it is a Stop like any other.
Submit ==
    /\ submits > 0 /\ submits' = submits - 1
    /\ \/ /\ ui.streaming
          /\ StopBranch(queue)
          /\ UNCHANGED <<inFlight, pc, what>>
       \/ /\ ~ui.streaming /\ ~inFlight /\ composer # None
          /\ Enter
       \/ /\ ~ui.streaming /\ (inFlight \/ composer = None)
          /\ ui' = IF inFlight THEN ui ELSE Synced(ui, active, cur)
          /\ UNCHANGED <<inFlight, pc, what, drainTimer, aborted, keys,
                         keyCtrl, posted, wanted>>
    /\ UNCHANGED <<cur, chatVars, home, got, timedOut, queue, origin, promoted,
                   composer, navVars, probe, srvVars, world>>

\* A slash command was handled, no chat could be made, or the user thought
\* better of sending a key: _releaseSendFlag().
Release(n) ==
    /\ "release" \in env /\ pc[n] = "entry"
    /\ pc' = [pc EXCEPT ![n] = "done"]
    /\ inFlight' = FALSE /\ composer' = None
    /\ ui' = Synced(ui, active, cur)
    /\ UNCHANGED <<cur, chatVars, home, what, got, stopVars, queue, origin,
                   promoted, drainTimer, submits, navVars, probe, srvVars, world>>

\* _streamRunIds.delete(s)
\* Mutant: the id of the previous run stays.
Remembered(s) == runId
Forgotten(s) == [runId EXCEPT ![s] = None]

\* The send takes the chat that is open now, and its generation.
Commit(n) ==
    /\ pc[n] = "entry"
    /\ pc' = [pc EXCEPT ![n] = "switching"]
    /\ home' = [home EXCEPT ![n] = cur]
    /\ gen' = [gen EXCEPT ![cur] = n]
    /\ sendState' = [sendState EXCEPT ![cur] = n]
    /\ runId' = Forgotten(cur)
    /\ reader' = cur
    /\ inFlight' = FALSE
    /\ ui' = [ui EXCEPT !.streaming = TRUE, !.watching = TRUE]
    /\ UNCHANGED <<cur, active, bg, what, got, stopVars, queueVars, navVars,
                   probe, srvVars, world>>

\* The model switch the send awaited is over.
Switched(n) ==
    /\ pc[n] = "switching"
    /\ IF ~Owns(n)
       THEN /\ pc' = [pc EXCEPT ![n] = "done"]
            /\ UNCHANGED <<ui, composer>>
       ELSE /\ pc' = [pc EXCEPT ![n] = "preparing"]
            /\ ui' = Cleared(ui)
            /\ composer' = None
    /\ UNCHANGED <<cur, inFlight, chatVars, home, what, got, stopVars, queue,
                   origin, promoted, drainTimer, submits, navVars, probe,
                   srvVars, world>>

\* The registrations without that of send n.
\* Mutant: only the current send takes its registration back.
DeregisteredByOwner(n) ==
    IF Owns(n) THEN [active EXCEPT ![home[n]] = None] ELSE active
Deregistered(n) ==
    IF active[home[n]] = n THEN [active EXCEPT ![home[n]] = None] ELSE active

\* The finally block, entered with the given background entries and flags.
Finally(n, entries, u, busy) ==
    LET s    == home[n]
        act  == Deregistered(n)
        fg   == cur = s /\ entries[s] = "none"
        v    == Synced(u, act, cur)
    IN /\ pc' = [pc EXCEPT ![n] = "done"]
       /\ active' = act /\ bg' = entries
       /\ keys' = keys \ {n}
       /\ reader' = IF Owns(n) /\ reader = s THEN NoSession ELSE reader
       /\ sendState' = IF Owns(n) THEN [sendState EXCEPT ![s] = None]
                       ELSE sendState
       /\ ui' = IF ~Owns(n) THEN u ELSE IF fg THEN Cleared(Idle(v)) ELSE v
       /\ inFlight' = busy
       /\ Drain(ui', busy, queue)
       /\ UNCHANGED <<gen, runId>>

\* The upload failed, or the document of an approval could not be saved.
PrepareFails(n) ==
    /\ "prepfail" \in env /\ pc[n] = "preparing"
    /\ Finally(n, bg, Synced(Idle(ui), active, cur), FALSE)
    /\ UNCHANGED <<cur, home, what, got, aborted, timedOut, keyCtrl, posted,
                   wanted, queue, origin, promoted, submits, composer, navVars,
                   probe, srvVars, world>>

Superseded(n) ==
    /\ pc[n] = "preparing" /\ ~Owns(n)
    /\ Finally(n, bg, ui, inFlight)
    /\ UNCHANGED <<cur, home, what, got, aborted, timedOut, keyCtrl,
                   posted, wanted, queue, origin, promoted, submits, composer,
                   navVars, probe, srvVars, world>>

\* Registration and POST.
Register(n) ==
    /\ pc[n] = "preparing" /\ Owns(n)
    /\ pc' = [pc EXCEPT ![n] = "posted"]
    /\ active' = [active EXCEPT ![home[n]] = n]
    /\ ui' = Synced([ui EXCEPT !.holder = n], active', cur)
    /\ srv' = [srv EXCEPT ![n] = "asked"]
    /\ UNCHANGED <<cur, inFlight, gen, sendState, runId, reader, bg, home, what,
                   got, stopVars, queueVars, navVars, probe, arrived, world>>

\* A Stop was queued for send n.
\* Mutant: a Stop for a send that was replaced is dropped.
StopPendingForOwner(n) == n \in keys /\ Owns(n)
StopPending(n) == n \in keys

\* The headers of the response: _rememberStreamRunId().
Headers(n) ==
    /\ pc[n] = "posted" /\ n \notin aborted
    /\ srv[n] \in {"live", "ended", "cut"}
    /\ pc' = [pc EXCEPT ![n] = "reading"]
    /\ runId' = IF Owns(n) THEN [runId EXCEPT ![home[n]] = n]
                ELSE runId
    /\ IF StopPending(n)
       THEN /\ keys' = keys \ {n} /\ posted' = posted \cup {n}
            /\ Abort(keyCtrl[n])
       ELSE UNCHANGED <<keys, posted, aborted>>
    /\ UNCHANGED <<cur, ui, inFlight, gen, sendState, active, reader, bg, home,
                   what, got, timedOut, keyCtrl, wanted, queueVars, navVars,
                   probe, srvVars, world>>

\* The POST is refused (!res.ok): the text of the refusal is awaited, or after a
\* 404 the list of chats.
Refused(n) ==
    /\ "refuse" \in env /\ pc[n] = "posted" /\ n \notin aborted /\ srv[n] = "asked"
    /\ pc' = [pc EXCEPT ![n] = "refused"]
    /\ srv' = [srv EXCEPT ![n] = "refused"]
    /\ UNCHANGED <<cur, ui, inFlight, chatVars, home, what, got, stopVars, queueVars,
                   navVars, probe, arrived, world>>

\* The refused send returns, past its catch block.
GivesUp(n) ==
    /\ pc[n] = "refused"
    /\ Finally(n, bg, ui, inFlight)
    /\ UNCHANGED <<cur, home, what, got, aborted, timedOut, keyCtrl, posted, wanted,
                   queue, origin, promoted, submits, composer, navVars, probe,
                   srvVars, world>>

-----------------------------------------------------------------------------
(* Reading the stream.                                                     *)

\* The background entry after data of send n has arrived.
Noticed(n) ==
    IF cur # home[n] /\ bg[home[n]] = "none"
    THEN [bg EXCEPT ![home[n]] = "running"] ELSE bg

Token(n) ==
    /\ pc[n] = "reading" /\ n \notin got \cup aborted
    /\ got' = got \cup {n}
    /\ bg' = Noticed(n)
    /\ ui' = IF cur = home[n] THEN [ui EXCEPT !.text = TRUE] ELSE ui
    /\ UNCHANGED <<cur, inFlight, gen, sendState, active, runId, reader, pc,
                   home, what, stopVars, queueVars, navVars, probe, srvVars, world>>

\* [DONE]
StreamDone(n) ==
    /\ pc[n] = "reading" /\ n \notin aborted /\ srv[n] = "ended"
    /\ Finally(n,
               [bg EXCEPT ![home[n]] = IF cur = home[n] THEN "none"
                                       ELSE "completed"],
               ui, inFlight)
    /\ UNCHANGED <<cur, home, what, got, aborted, timedOut, keyCtrl,
                   posted, wanted, queue, origin, promoted, submits, composer,
                   navVars, probe, srvVars, world>>

Failed(n, isBg, status) ==
    IF isBg /\ bg[home[n]] = "running" THEN [bg EXCEPT ![home[n]] = status]
    ELSE bg

\* The catch block and then the finally block.  An error that is neither an
\* abort nor in the background leads to a reconnection, when the connection was
\* lost, or, when the server said so (how = "error") and there is something to
\* show, to the chat being selected again; saved says that the server has
\* announced its record of the failure.
Caught(n, how, saved) ==
    LET s     == home[n]
        isBg  == cur # s \/ bg[s] # "none"
        quiet == isBg \/ n \in aborted \cup keys
    IN /\ Finally(n, Failed(n, isBg, IF saved THEN "completed" ELSE "error"), ui, inFlight)
       /\ Abort(IF n \in keys THEN n ELSE None)
       /\ recover' = IF how = "lost" /\ "resume" \in env /\ ~quiet THEN s ELSE recover
       /\ reselect' = IF how = "error" /\ ~quiet /\ (saved \/ n \in got)
                      THEN reselect \cup {s} ELSE reselect
       /\ UNCHANGED <<cur, home, what, got, timedOut, keyCtrl, posted,
                      wanted, queue, origin, promoted, submits, composer,
                      resume, resuming, loading, polls, probe, srvVars, world>>

\* The send's controller was aborted.
Aborted(n) == pc[n] \in Waiting /\ n \in aborted /\ Caught(n, "abort", FALSE)

\* The run was cut short, so that its stream ends without [DONE].
StreamCut(n) ==
    /\ pc[n] = "reading" /\ n \notin aborted /\ srv[n] = "cut"
    /\ Caught(n, "lost", FALSE)

\* The connection is lost; the run goes on.
Drop(n) ==
    /\ "drop" \in env /\ pc[n] \in Waiting /\ n \notin aborted
    /\ Caught(n, "lost", FALSE)

\* The run ends with an "event: error" or its record, in place of [DONE].
StreamFails(n) ==
    /\ "fail" \in env /\ pc[n] = "reading" /\ n \notin aborted /\ srv[n] = "ended"
    /\ \E saved \in BOOLEAN : Caught(n, "error", saved)

-----------------------------------------------------------------------------
(* Messages queued behind a response.                                      *)

Queued == {queue[i] : i \in 1..Len(queue)}
\* Mutant: a message sent by a click stays in the queue.
WithAll(q) == queue
Without(q) == LET i == CHOOSE i \in 1..Len(queue) : queue[i] = q
              IN  SubSeq(queue, 1, i - 1) \o SubSeq(queue, i + 1, Len(queue))

\* queueStreamingComposerRequest()
Enqueue(q) ==
    /\ "queue" \in env /\ ui.streaming
    /\ origin[q] = NoSession /\ \A r \in Items : r < q => origin[r] # NoSession
    /\ queue' = Append(queue, q)
    /\ origin' = [origin EXCEPT ![q] = cur]
    /\ composer' = None
    /\ UNCHANGED <<cur, ui, inFlight, chatVars, sendVars, stopVars, promoted,
                   drainTimer, submits, navVars, probe, srvVars, world>>

\* _setComposerAndSend(q)
SetComposerAndSend(q) == composer' = q /\ submits' = submits + 1

DrainFires ==
    /\ drainTimer /\ drainTimer' = FALSE
    /\ IF ui.streaming \/ inFlight \/ queue = <<>>
       THEN UNCHANGED <<queue, composer, submits>>
       ELSE queue' = Tail(queue) /\ SetComposerAndSend(Head(queue))
    /\ UNCHANGED <<cur, ui, inFlight, chatVars, sendVars, stopVars, origin,
                   promoted, navVars, probe, srvVars, world>>

\* A click on a queued message: _promoteQueuedRequest().  While a send is in
\* its first steps the click on Stop does nothing.
Promote(q) ==
    /\ "promote" \in env /\ q \in Queued
    /\ queue' = Without(q)
    /\ IF ~ui.streaming /\ ~inFlight
       THEN /\ SetComposerAndSend(q)
            /\ UNCHANGED <<ui, promoted, drainTimer, aborted, keys, keyCtrl,
                           posted, wanted>>
       ELSE /\ composer' = None /\ promoted' = q
            /\ IF ui.streaming THEN StopBranch(Without(q))
               ELSE UNCHANGED <<ui, drainTimer, aborted, keys, keyCtrl, posted,
                                wanted>>
            /\ UNCHANGED submits
    /\ UNCHANGED <<cur, inFlight, chatVars, sendVars, timedOut, origin, navVars,
                   probe, srvVars, world>>

\* The timer of _sendQueuedWhenIdle() finds the composer idle.
PromotedFires ==
    /\ promoted # None /\ ~ui.streaming /\ ~inFlight
    /\ promoted' = None
    /\ SetComposerAndSend(promoted)
    /\ UNCHANGED <<cur, ui, inFlight, chatVars, sendVars, stopVars, queue,
                   origin, drainTimer, navVars, probe, srvVars, world>>

-----------------------------------------------------------------------------
(* Changing the open chat, coming back to a stream.                        *)

\* selectSession(t): the chat changes first, detachCurrentStream(cur) follows.
Select(t, entries) ==
    /\ cur' = t /\ loading' = t
    /\ IF active[cur] = None
       THEN /\ Abort(Controller(t))
            /\ bg' = entries
            /\ UNCHANGED <<ui, reader>>
       ELSE /\ bg' = [entries EXCEPT ![cur] = "running"]
            /\ reader' = IF reader = cur THEN NoSession ELSE reader
            /\ ui' = Idle([Synced(ui, active, t) EXCEPT !.text = FALSE])
            /\ UNCHANGED aborted
    /\ composer' = None

\* What selectSession() leaves alone.
selectFrame == <<inFlight, gen, sendState, active, runId, sendVars, timedOut,
                 keys, keyCtrl, posted, wanted, queue, origin, promoted,
                 drainTimer, submits, probe, srvVars>>

SwitchTo(t) ==
    /\ "switch" \in env /\ t # cur
    /\ switches < MaxSwitches /\ switches' = switches + 1
    /\ Select(t, bg)
    /\ UNCHANGED <<selectFrame, resume, resuming, recover, polls, reselect, env>>

LiveRun(s) == {n \in Sends : home[n] = s /\ srv[n] = "live"}

\* resumeStream(s), up to its fetch
AskResume(s) ==
    resume' = IF /\ "resume" \in env /\ resume = NoResume
                 /\ ~HasActiveStream(s)
              THEN [s |-> s, run |-> None] ELSE resume

\* The history has been loaded: checkBackgroundStream(), and _checkServerStream()
\* with the answer that the server is streaming.
Loaded ==
    /\ loading # NoSession /\ loading' = NoSession
    /\ bg' = IF bg[loading] \in {"completed", "error"}
             THEN [bg EXCEPT ![loading] = "none"] ELSE bg
    /\ polls' = IF bg[loading] = "running" THEN polls \cup {loading} ELSE polls
    /\ IF LiveRun(loading) # {} THEN AskResume(loading) ELSE UNCHANGED resume
    /\ UNCHANGED <<cur, ui, inFlight, gen, sendState, active, runId, reader,
                   sendVars, stopVars, queueVars, resuming, recover, reselect, probe,
                   srvVars, world>>

\* A tick of the poll that waits for a background stream to end.
Poll(s) ==
    /\ s \in polls /\ (cur # s \/ bg[s] # "running")
    /\ polls' = polls \ {s}
    /\ IF cur = s THEN Select(s, [bg EXCEPT ![s] = "none"])
       ELSE UNCHANGED <<cur, loading, bg, ui, reader, aborted, composer>>
    /\ UNCHANGED <<selectFrame, resume, resuming, recover, reselect, world>>

\* The task in which a chat whose response failed is selected again.
Reselect(s) ==
    /\ s \in reselect /\ reselect' = reselect \ {s}
    /\ IF cur = s THEN Select(s, bg)
       ELSE UNCHANGED <<cur, loading, bg, ui, reader, aborted, composer>>
    /\ UNCHANGED <<selectFrame, resume, resuming, recover, polls, world>>

\* The timer of _tryAutoRecover()
Recover ==
    /\ recover # NoSession /\ recover' = NoSession
    /\ IF cur = recover THEN AskResume(recover) ELSE UNCHANGED resume
    /\ UNCHANGED <<cur, ui, inFlight, chatVars, sendVars, stopVars, queueVars,
                   resuming, loading, polls, reselect, probe, srvVars, world>>

\* GET /api/chat/resume
ResumeAnswered ==
    /\ resume.s # NoSession /\ resume.run = None
    /\ resume' = IF LiveRun(resume.s) = {} THEN NoResume
                 ELSE [resume EXCEPT !.run = CHOOSE n \in LiveRun(resume.s) : TRUE]
    /\ UNCHANGED <<cur, ui, inFlight, chatVars, sendVars, stopVars, queueVars,
                   resuming, recover, loading, polls, reselect, probe, srvVars, world>>

\* resumeStream() after its fetch
Resumed ==
    /\ resume.run # None /\ resume' = NoResume
    /\ runId' = [runId EXCEPT ![resume.s] = resume.run]
    /\ resuming' = [resuming EXCEPT ![resume.s] = resume.run]
    /\ UNCHANGED <<cur, ui, inFlight, gen, sendState, active, reader, bg,
                   sendVars, stopVars, queueVars, recover, loading, polls, reselect,
                   probe, srvVars, world>>

\* The resumed reader ends: the user left, or the run is over; the answer of
\* a run that used tools is then loaded again.
ResumeEnds(s) ==
    /\ resuming[s] # None /\ (cur # s \/ srv[resuming[s]] # "live")
    /\ resuming' = [resuming EXCEPT ![s] = None]
    /\ \/ cur = s /\ Select(s, bg)
       \/ UNCHANGED <<cur, loading, bg, ui, reader, aborted, composer>>
    /\ UNCHANGED <<selectFrame, resume, recover, polls, reselect, world>>

-----------------------------------------------------------------------------
(* The watchdog, and the server.                                           *)

\* _probeStaleLocalStream() up to its fetch; the stream has been silent.
Probe ==
    /\ "watchdog" \in env /\ ui.watching /\ probe = NoProbe
    /\ active[cur] # None /\ bg[cur] = "none"
    /\ probe' = [s |-> cur, n |-> active[cur], found |-> "none"]
    /\ UNCHANGED <<cur, ui, inFlight, chatVars, sendVars, stopVars, queueVars,
                   navVars, srvVars, world>>

\* GET /api/chat/stream_status
ProbeAnswered ==
    /\ probe.s # NoSession /\ probe.found = "none"
    /\ probe' = [probe EXCEPT !.found =
                    IF LiveRun(probe.s) = {} THEN "404" ELSE "streaming"]
    /\ UNCHANGED <<cur, ui, inFlight, chatVars, sendVars, stopVars, queueVars,
                   navVars, srvVars, world>>

\* _probeStaleLocalStream() after its fetch
Probed ==
    /\ probe.found # "none" /\ probe' = NoProbe
    /\ IF active[cur] = None \/ bg[probe.s] # "none" \/ probe.found # "404"
       THEN UNCHANGED <<aborted, active, inFlight, ui, drainTimer>>
       ELSE /\ Abort(probe.n)
            /\ active' = [active EXCEPT ![probe.s] = None]
            /\ inFlight' = FALSE
            /\ ui' = Idle(Synced(ui, active', cur))
            /\ Drain(ui', FALSE, queue)
    /\ UNCHANGED <<cur, gen, sendState, runId, reader, bg, sendVars, timedOut,
                   keys, keyCtrl, posted, wanted, queue, origin, promoted,
                   submits, composer, navVars, srvVars, world>>

\* The handler of the POST reaches agent_runs.start(), which replaces the
\* run of the chat.
RunStarts(n) ==
    /\ srv[n] = "asked"
    /\ srv' = [k \in Sends |-> IF k = n THEN "live"
                              ELSE IF k \in LiveRun(home[n]) THEN "cut" ELSE srv[k]]
    /\ UNCHANGED <<cur, ui, inFlight, chatVars, sendVars, stopVars, queueVars,
                   navVars, probe, arrived, world>>

RunEnds(n) ==
    /\ srv[n] = "live" /\ srv' = [srv EXCEPT ![n] = "ended"]
    /\ UNCHANGED <<cur, ui, inFlight, chatVars, sendVars, stopVars, queueVars,
                   navVars, probe, arrived, world>>

\* POST /api/chat/stop with the run's id
StopArrives(n) ==
    /\ n \in posted \ arrived /\ arrived' = arrived \cup {n}
    /\ srv' = IF srv[n] = "live" THEN [srv EXCEPT ![n] = "cut"] ELSE srv
    /\ UNCHANGED <<cur, ui, inFlight, chatVars, sendVars, stopVars, queueVars,
                   navVars, probe, world>>

-----------------------------------------------------------------------------
SendStep(n) ==
    \/ Commit(n) \/ Switched(n) \/ Superseded(n) \/ Register(n) \/ Headers(n)
    \/ GivesUp(n) \/ StreamDone(n) \/ Aborted(n) \/ StreamCut(n) \/ GraceOver(n)

Timers == Submit \/ DrainFires \/ PromotedFires \/ Recover

Rejoin == Loaded \/ ResumeAnswered \/ Resumed \/ ProbeAnswered \/ Probed

Next ==
    \/ \E n \in Sends :
          \/ SendStep(n) \/ Release(n) \/ PrepareFails(n) \/ Timeout(n)
          \/ Refused(n) \/ Token(n) \/ Drop(n) \/ StreamFails(n)
          \/ RunStarts(n) \/ RunEnds(n) \/ StopArrives(n)
    \/ UserSend \/ Stop \/ Escape \/ Timers \/ Rejoin \/ Probe
    \/ \E q \in Items : Enqueue(q) \/ Promote(q)
    \/ \E s \in Sessions : SwitchTo(s) \/ Poll(s) \/ Reselect(s) \/ ResumeEnds(s)

Spec == Init /\ [][Next]_vars

\* The browser runs its tasks and timers and the network answers.  The user, the faults
\* and the runs owe nothing.
Fairness ==
    /\ \A n \in Sends : /\ WF_vars(SendStep(n))
                        /\ WF_vars(RunStarts(n)) /\ WF_vars(StopArrives(n))
    /\ WF_vars(Timers) /\ WF_vars(Rejoin)
    /\ \A s \in Sessions : WF_vars(Poll(s)) /\ WF_vars(Reselect(s)) /\ WF_vars(ResumeEnds(s))

FairSpec == Spec /\ Fairness

-----------------------------------------------------------------------------
(* What the tab must get right.                                            *)

TypeOK ==
    /\ cur \in Sessions
    /\ ui \in [streaming : BOOLEAN, watching : BOOLEAN,
              holder : Sends \cup {None}, text : BOOLEAN]
    /\ inFlight \in BOOLEAN /\ composer \in Items \cup {None}
    /\ gen \in [Sessions -> Sends \cup {None}]
    /\ sendState \in [Sessions -> Sends \cup {None}]
    /\ active \in [Sessions -> Sends \cup {None}]
    /\ runId \in [Sessions -> Sends \cup {None}]
    /\ reader \in Sessions \cup {NoSession}
    /\ bg \in [Sessions -> {"none", "running", "completed", "error"}]
    /\ pc \in [Sends -> {"unused", "entry", "switching", "preparing", "posted",
                         "reading", "refused", "done"}]
    /\ home \in [Sends -> Sessions \cup {NoSession}]
    /\ what \in [Sends -> Items \cup {None}]
    /\ got \cup aborted \cup timedOut \cup keys \subseteq Sends
    /\ keyCtrl \in [Sends -> Sends \cup {None}]
    /\ Queued \subseteq Items /\ Len(queue) <= MaxQueued
    /\ origin \in [Items -> Sessions \cup {NoSession}]
    /\ promoted \in Items \cup {None} /\ drainTimer \in BOOLEAN
    /\ submits \in 0..MaxQueued
    /\ resuming \in [Sessions -> Sends \cup {None}]
    /\ {recover, loading} \subseteq Sessions \cup {NoSession}
    /\ polls \cup reselect \subseteq Sessions
    /\ srv \in [Sends -> {"none", "asked", "refused", "live", "ended", "cut"}]
    /\ posted \cup arrived \cup wanted \subseteq Sends

\* The answer to a Stop is never a Stop for another run: an exact Stop is
\* only posted for the run of a send that the user or the timeout stopped,
\* whatever was sent since and whichever headers come first ("a Stop after
\* this instant must queue for THIS send, not fire against the old run",
\* chat.js:1471).  resumeStream() does not ask for the generation: a Stop may
\* then fire against an older run, but never against one of another chat.
StopIsExact ==
    /\ "resume" \notin env => posted \subseteq wanted
    /\ \A n \in posted : \E m \in wanted : home[m] = home[n]

\* A registered stream is one whose response is still being waited for or
\* read: no path through the catch and finally blocks leaves a registration
\* behind, which would show the chat as streaming for ever.
RegisteredIsLive ==
    \A s \in Sessions : active[s] # None =>
        home[active[s]] = s /\ pc[active[s]] \in OnTheWire

Current(n) == pc[n] \notin {"unused", "entry", "done"} /\ Owns(n)

\* The user stays in the chat, and neither the watchdog, nor an upload that fails,
\* nor the reselection after a failed response interferes (each can open the gate,
\* see the README).
Undisturbed == env \cap {"switch", "resume", "watchdog", "prepfail", "fail"} = {}

\* The composer is locked as long as the current send is under way and nobody
\* stopped it: the late end of a send it has replaced does not open it
\* ("superseded sends must not resync", chat.js:4563).
GateHeld ==
    Undisturbed => \A n \in Sends :
        Current(n) /\ n \notin wanted \cup aborted => ui.streaming

\* A queued message waits at one place, and no longer once it has been given
\* to the composer: the click on it and the timers of chat.js:1028 and
\* chat.js:1088 never submit it twice between them.
NeverResent ==
    \A q \in Items :
        (q \in Queued \/ promoted = q) =>
            /\ ~(q \in Queued /\ promoted = q)
            /\ composer # q /\ \A n \in Sends : what[n] # q

\* A Stop reaches the server although it may be given before the run has an
\* id: either the run has ended, or the request failed before its headers.  (A
\* resumed reader may put the id of an older run in the way: README, section 5.)
StopHeard ==
    "resume" \notin env => \A n \in Sends :
        n \in wanted ~> (\/ srv[n] \notin {"asked", "live"}
                         \/ (pc[n] = "done" /\ n \notin posted))

\* The liveness of the tab is conditional on that of the server.
RunsEnd == \A n \in Sends : WF_vars(RunEnds(n))


\* The composer does not stay locked, whichever of the finally block, the
\* watchdog and the change of chats is to open it.
ComposerUnlocks ==
    RunsEnd /\ "prepfail" \notin env => (ui.streaming ~> ~ui.streaming)

\* A queued message leaves the queue, unless a send may end in its first steps,
\* which does not ask for the queue (README, section 5).
QueueMoves ==
    RunsEnd /\ "release" \notin env =>
        \A q \in Items : (q \in Queued) ~> (q \notin Queued)

\* The comment of detachCurrentStream(), chat.js:4891: "Detach current stream
\* to run in background instead of aborting".
SwitchNeverAborts == [][cur' # cur => aborted' = aborted]_vars
=============================================================================
