---------------------------- MODULE ChatTabProofs ----------------------------
(***************************************************************************)
(* More proofs about ChatClient: a Stop stays in its chat, whatever the    *)
(* surroundings, and every variable keeps its type and its bound.          *)
(***************************************************************************)
EXTENDS ChatClientProofs

-----------------------------------------------------------------------------
(* The chat of a send.                                                     *)

Before == {"unused", "entry"}
Homed == {n \in Sends : home[n] \in Sessions}
StaysInChat == \A n \in posted : \E m \in wanted : home[m] = home[n]

\* A send gets its chat once, with its generation; what the tab knows of runs
\* it knows in the chat of the run, and a Stop is only noted for a send that
\* has a chat.
HomeInv ==
    /\ gen \in [Sessions -> Sends \cup {None}]
    /\ runId \in [Sessions -> Sends \cup {None}]
    /\ resume \in [s : Sessions \cup {NoSession}, run : Sends \cup {None}]
    /\ \A n \in Sends : pc[n] \in Before => home[n] = NoSession
    /\ \A s \in Sessions : gen[s] # None => home[gen[s]] = s
    /\ \A n \in Homed : gen[home[n]] # None
    /\ \A s \in Sessions : runId[s] # None => home[runId[s]] = s
    /\ resume.run # None => resume.s \in Sessions /\ home[resume.run] = resume.s
    /\ keys \subseteq wanted /\ posted \cup wanted \subseteq Homed
    /\ StaysInChat

homeVars == <<home, gen, runId, posted, wanted, resume>>

LEMMA HomeInit == Init => HomeInv
<1>. SUFFICES ASSUME Init PROVE HomeInv
  OBVIOUS
<1>1. /\ gen \in [Sessions -> Sends \cup {None}]
      /\ runId \in [Sessions -> Sends \cup {None}]
      /\ \A s \in Sessions : gen[s] = None /\ runId[s] = None
  BY DEF Init
<1>2. resume = [s |-> NoSession, run |-> None]
  BY DEF Init, NoResume
<1>3. \A n \in Sends : home[n] = NoSession
  BY DEF Init
<1>4. keys = {} /\ posted = {} /\ wanted = {}
  BY DEF Init
<1>. QED
  BY <1>1, <1>2, <1>3, <1>4, ConstantsAssumption DEF HomeInv, Homed, StaysInChat

LEMMA HomeSame ==
    ASSUME HomeInv, UNCHANGED homeVars, keys' \subseteq wanted,
           \A n \in Sends : pc'[n] \in Before => pc[n] \in Before
    PROVE  HomeInv'
BY DEF HomeInv, homeVars, Homed, StaysInChat

LEMMA HomeEnter ==
    ASSUME RegInv, HomeInv, Enter, UNCHANGED homeVars
    PROVE  HomeInv'
<1>1. PICK n \in Sends : pc[n] = "unused" /\ pc' = [pc EXCEPT ![n] = "entry"]
  BY DEF Enter
<1>2. \A m \in Sends : pc'[m] \in Before => pc[m] \in Before
  BY <1>1 DEF RegInv, Before
<1>3. keys' \subseteq wanted
  BY DEF Enter, HomeInv
<1>. QED
  BY <1>2, <1>3, HomeSame

\* A Stop in a chat is for its current send, or fires against the run whose
\* id the chat remembers.
LEMMA HomeStop ==
    ASSUME HomeInv, NEW s \in Sessions, NEW ctrl, StopExactRun(s, ctrl),
           UNCHANGED <<home, gen, runId, resume, pc>>
    PROVE  HomeInv'
<1>1. wanted' = wanted \cup ({gen[s]} \ {None})
  BY DEF StopExactRun
<1>2. gen[s] # None => gen[s] \in Homed /\ home[gen[s]] = s
  BY DEF HomeInv, Homed
<1>3. wanted' \subseteq Homed
  BY <1>1, <1>2 DEF HomeInv
<1>4. CASE runId[s] # None
  <2>1. posted' = posted \cup {runId[s]} /\ keys' = keys
    BY <1>4 DEF StopExactRun
  <2>2. home[runId[s]] = s /\ runId[s] \in Homed
    BY <1>4 DEF HomeInv, Homed
  <2>3. gen[s] \in wanted' /\ home[gen[s]] = home[runId[s]]
    BY <1>1, <1>2, <2>2 DEF HomeInv
  <2>4. StaysInChat'
    BY <1>1, <2>1, <2>3 DEF HomeInv, StaysInChat
  <2>5. Homed' = Homed
    BY DEF Homed
  <2>. QED
    BY <1>1, <1>3, <2>1, <2>2, <2>4, <2>5 DEF HomeInv
<1>5. CASE runId[s] = None
  <2>1. keys' = keys \cup ({gen[s]} \ {None}) /\ posted' = posted
    BY <1>5 DEF StopExactRun
  <2>2. StaysInChat'
    BY <1>1, <2>1 DEF HomeInv, StaysInChat
  <2>3. Homed' = Homed
    BY DEF Homed
  <2>. QED
    BY <1>1, <1>3, <2>1, <2>2, <2>3 DEF HomeInv
<1>. QED
  BY <1>4, <1>5

LEMMA HomeFinally ==
    ASSUME RegInv, HomeInv, NEW n \in Sends, NEW entries, NEW u, NEW busy,
           Finally(n, entries, u, busy),
           UNCHANGED <<home, wanted, posted, resume>>
    PROVE  HomeInv'
<1>1. UNCHANGED homeVars /\ keys' = keys \ {n} /\ pc' = [pc EXCEPT ![n] = "done"]
  BY DEF Finally, homeVars
<1>2. \A m \in Sends : pc'[m] \in Before => pc[m] \in Before
  BY <1>1 DEF RegInv, Before
<1>3. keys' \subseteq wanted
  BY <1>1 DEF HomeInv
<1>. QED
  BY <1>1, <1>2, <1>3, HomeSame

LEMMA HomeCommit ==
    ASSUME RegInv, HomeInv, NEW n \in Sends, Commit(n)
    PROVE  HomeInv'
<1>1. /\ pc[n] = "entry" /\ pc' = [pc EXCEPT ![n] = "switching"]
      /\ home' = [home EXCEPT ![n] = cur] /\ gen' = [gen EXCEPT ![cur] = n]
      /\ runId' = [runId EXCEPT ![cur] = None]
      /\ UNCHANGED <<keys, posted, wanted, resume>>
  BY DEF Commit, Forgotten, stopVars, navVars
<1>2. cur \in Sessions /\ home[n] = NoSession /\ n \notin Homed
  BY <1>1, ConstantsAssumption DEF RegInv, HomeInv, Homed, Before
<1>3. \A m \in Sends : /\ home'[m] = IF m = n THEN cur ELSE home[m]
                       /\ pc'[m] = IF m = n THEN "switching" ELSE pc[m]
  BY <1>1 DEF RegInv
<1>4. \A s \in Sessions : /\ gen'[s] = IF s = cur THEN n ELSE gen[s]
                          /\ runId'[s] = IF s = cur THEN None ELSE runId[s]
  BY <1>1 DEF HomeInv
<1>5. Homed' = Homed \cup {n}
  BY <1>2, <1>3 DEF Homed
<1>6. \A s \in Sessions : /\ gen[s] # n /\ runId[s] # n
  BY <1>2, NoneIsNoSend, ConstantsAssumption DEF HomeInv
<1>7. /\ gen' \in [Sessions -> Sends \cup {None}]
      /\ runId' \in [Sessions -> Sends \cup {None}]
  BY <1>1 DEF HomeInv
<1>8. \A m \in Sends : pc'[m] \in Before => home'[m] = NoSession
  BY <1>3 DEF HomeInv, Before
<1>9. \A s \in Sessions : gen'[s] # None => home'[gen'[s]] = s
  BY <1>3, <1>4, <1>6 DEF HomeInv
<1>10. \A m \in Homed' : gen'[home'[m]] # None
  BY <1>2, <1>3, <1>4, <1>5, NoneIsNoSend DEF HomeInv, Homed
<1>11. \A s \in Sessions : runId'[s] # None => home'[runId'[s]] = s
  BY <1>3, <1>4, <1>6 DEF HomeInv
<1>12. resume'.run # None => resume'.s \in Sessions /\ home'[resume'.run] = resume'.s
  <2>. SUFFICES ASSUME resume.run # None
                PROVE  resume.s \in Sessions /\ home'[resume.run] = resume.s
    BY <1>1
  <2>1. resume.run \in Sends /\ resume.s \in Sessions /\ home[resume.run] = resume.s
    BY DEF HomeInv
  <2>. QED
    BY <1>2, <1>3, <2>1, ConstantsAssumption
<1>13. StaysInChat'
  <2>. SUFFICES ASSUME NEW k \in posted
                PROVE  \E m \in wanted : home'[m] = home'[k]
    BY <1>1 DEF StaysInChat
  <2>1. PICK m \in wanted : home[m] = home[k]
    BY DEF HomeInv, StaysInChat
  <2>2. k # n /\ m # n /\ k \in Sends /\ m \in Sends
    BY <1>2, <2>1 DEF HomeInv, Homed
  <2>. QED
    BY <1>3, <2>1, <2>2
<1>. QED
  BY <1>1, <1>5, <1>7, <1>8, <1>9, <1>10, <1>11, <1>12, <1>13 DEF HomeInv

LEMMA HomeHeaders ==
    ASSUME RegInv, HomeInv, NEW n \in Sends, Headers(n)
    PROVE  HomeInv'
<1>1. /\ UNCHANGED <<home, gen, wanted, resume>>
      /\ pc' = [pc EXCEPT ![n] = "reading"] /\ pc[n] = "posted"
      /\ runId' = IF Owns(n) THEN [runId EXCEPT ![home[n]] = n] ELSE runId
  BY DEF Headers, navVars
<1>2. \/ keys' = keys \ {n} /\ n \in keys /\ posted' = posted \cup {n}
      \/ keys' = keys /\ posted' = posted
  BY DEF Headers, StopPending
<1>3. home[n] \in Sessions /\ Homed' = Homed
  BY <1>1 DEF RegInv, Homed
<1>4. \A m \in Sends : pc'[m] \in Before => pc[m] \in Before
  BY <1>1 DEF RegInv, Before
<1>5. /\ runId' \in [Sessions -> Sends \cup {None}]
      /\ \A s \in Sessions : runId'[s] # None => home'[runId'[s]] = s
  BY <1>1, <1>3 DEF HomeInv
<1>6. keys' \subseteq wanted' /\ posted' \cup wanted' \subseteq Homed'
  BY <1>1, <1>2, <1>3 DEF HomeInv
<1>7. StaysInChat'
  BY <1>1, <1>2 DEF HomeInv, StaysInChat
<1>. QED
  BY <1>1, <1>3, <1>4, <1>5, <1>6, <1>7 DEF HomeInv

\* A resumed run is one of the chat it is resumed in.
LEMMA HomeResume ==
    ASSUME RegInv, HomeInv, Recover \/ Loaded \/ ResumeAnswered \/ Resumed,
           loading \in Sessions \cup {NoSession},
           recover \in Sessions \cup {NoSession}
    PROVE  HomeInv'
<1>1. /\ UNCHANGED <<home, gen, keys, posted, wanted, pc>>
      /\ Homed' = Homed /\ (StaysInChat' <=> StaysInChat)
  BY DEF Recover, Loaded, ResumeAnswered, Resumed, chatVars, sendVars, stopVars,
         Homed, StaysInChat
<1>2. ASSUME NEW s \in Sessions, AskResume(s), runId' = runId
      PROVE  HomeInv'
  <2>1. resume' = resume \/ resume' = [s |-> s, run |-> None]
    BY <1>2 DEF AskResume
  <2>. QED
    BY <1>1, <1>2, <2>1 DEF HomeInv
<1>3. CASE Recover
  <2>1. runId' = runId /\ recover \in Sessions
    BY <1>3 DEF Recover, chatVars
  <2>2. CASE cur = recover
    BY <1>2, <1>3, <2>1, <2>2 DEF Recover
  <2>3. CASE cur # recover
    BY <1>1, <1>3, <2>1, <2>3, HomeSame DEF Recover, homeVars, HomeInv
  <2>. QED
    BY <2>2, <2>3
<1>4. CASE Loaded
  <2>1. /\ runId' = runId /\ loading \in Sessions
        /\ AskResume(loading) \/ resume' = resume
    BY <1>4 DEF Loaded
  <2>2. CASE resume' = resume
    BY <1>1, <2>1, <2>2, HomeSame DEF homeVars, HomeInv
  <2>. QED
    BY <1>2, <2>1, <2>2
<1>5. CASE ResumeAnswered
  <2>1. /\ runId' = runId /\ resume.s \in Sessions
        /\ \/ resume' = NoResume
           \/ \E n \in LiveRun(resume.s) : resume' = [resume EXCEPT !.run = n]
    BY <1>5 DEF ResumeAnswered, chatVars, HomeInv
  <2>2. CASE resume' = NoResume
    BY <1>1, <2>1, <2>2 DEF HomeInv, NoResume
  <2>3. ASSUME NEW n \in LiveRun(resume.s), resume' = [resume EXCEPT !.run = n]
        PROVE  HomeInv'
    <3>1. n \in Sends /\ home[n] = resume.s
      BY DEF LiveRun
    <3>2. /\ resume' \in [s : Sessions \cup {NoSession}, run : Sends \cup {None}]
          /\ resume'.s = resume.s /\ resume'.run = n
      BY <2>3, <3>1 DEF HomeInv
    <3>. QED
      BY <1>1, <2>1, <3>1, <3>2 DEF HomeInv
  <2>. QED
    BY <2>1, <2>2, <2>3
<1>6. CASE Resumed
  <2>1. /\ resume.run # None /\ resume' = NoResume
        /\ runId' = [runId EXCEPT ![resume.s] = resume.run]
    BY <1>6 DEF Resumed
  <2>2. resume.s \in Sessions /\ resume.run \in Sends /\ home[resume.run] = resume.s
    BY <2>1 DEF HomeInv
  <2>3. /\ runId' \in [Sessions -> Sends \cup {None}]
        /\ \A s \in Sessions : runId'[s] # None => home'[runId'[s]] = s
    BY <1>1, <2>1, <2>2 DEF HomeInv
  <2>. QED
    BY <1>1, <2>1, <2>3 DEF HomeInv, NoResume
<1>. QED
  BY <1>3, <1>4, <1>5, <1>6

\* Where the open chat's requests point.
Places ==
    /\ reader \in Sessions \cup {NoSession}
    /\ loading \in Sessions \cup {NoSession} /\ recover \in Sessions \cup {NoSession}
    /\ polls \subseteq Sessions /\ reselect \subseteq Sessions

LEMMA HomeSend ==
    ASSUME RegInv, HomeInv, NEW n \in Sends,
           SendMoves(n)
    PROVE  HomeInv'
<1>1. CASE Commit(n)
  BY <1>1, HomeCommit
<1>2. ASSUME UNCHANGED homeVars, UNCHANGED keys,
             NEW st \in Stages \ Before, pc' = [pc EXCEPT ![n] = st]
      PROVE  HomeInv'
  <2>1. \A m \in Sends : pc'[m] \in Before => pc[m] \in Before
    BY <1>2 DEF RegInv, Before
  <2>2. keys' \subseteq wanted
    BY <1>2 DEF HomeInv
  <2>. QED
    BY <1>2, <2>1, <2>2, HomeSame
<1>3. CASE Switched(n)
  <2>1. \/ pc' = [pc EXCEPT ![n] = "done"]
        \/ pc' = [pc EXCEPT ![n] = "preparing"]
    BY <1>3 DEF Switched
  <2>. QED
    BY <1>2, <1>3, <2>1
    DEF Switched, chatVars, stopVars, navVars, homeVars, Stages, Before
<1>4. CASE Superseded(n)
  BY <1>4, HomeFinally DEF Superseded, navVars
<1>5. CASE Register(n)
  BY <1>2, <1>5 DEF Register, stopVars, navVars, homeVars, Stages, Before
<1>6. CASE Headers(n)
  BY <1>6, HomeHeaders
<1>7. CASE StreamDone(n)
  BY <1>7, HomeFinally DEF StreamDone, navVars
<1>8. ASSUME NEW how, NEW r, Caught(n, how, r)
      PROVE  HomeInv'
  BY <1>8, HomeFinally DEF Caught
<1>9. CASE Aborted(n)
  BY <1>9, <1>8 DEF Aborted
<1>10. CASE StreamCut(n)
  BY <1>10, <1>8 DEF StreamCut
<1>11. CASE Drop(n) \/ StreamFails(n)
  BY <1>11, <1>8 DEF Drop, StreamFails
<1>12. CASE GraceOver(n)
  BY <1>12, HomeSame DEF GraceOver, chatVars, sendVars, navVars, homeVars, HomeInv
<1>13. CASE Release(n)
  BY <1>2, <1>13 DEF Release, chatVars, stopVars, navVars, homeVars, Stages, Before
<1>14. CASE PrepareFails(n) \/ GivesUp(n)
  BY <1>14, HomeFinally DEF PrepareFails, GivesUp, navVars
<1>15. CASE Refused(n)
  BY <1>2, <1>15 DEF Refused, chatVars, stopVars, navVars, homeVars, Stages, Before
<1>. QED
  BY <1>1, <1>3, <1>4, <1>5, <1>6, <1>7, <1>9, <1>10, <1>11, <1>12, <1>13, <1>14,
     <1>15
  DEF SendMoves, SendStep

LEMMA HomeStep == RegInv /\ Places /\ HomeInv /\ [Next]_vars => HomeInv'
<1>. SUFFICES ASSUME RegInv, Places, HomeInv, [Next]_vars
              PROVE  HomeInv'
  OBVIOUS
<1>1. cur \in Sessions
  BY DEF RegInv
<1>2. ASSUME UNCHANGED <<homeVars, keys, pc>>
      PROVE  HomeInv'
  BY <1>2, HomeSame DEF HomeInv
<1>3. ASSUME NEW left, StopBranch(left), UNCHANGED <<home, gen, runId, resume, pc>>
      PROVE  HomeInv'
  BY <1>1, <1>3, HomeStop DEF StopBranch
<1>4. ASSUME NEW n \in Sends,
             SendMoves(n)
      PROVE  HomeInv'
  BY <1>4, HomeSend
<1>5. ASSUME NEW n \in Sends, Timeout(n)
      PROVE  HomeInv'
  <2>1. home[n] \in Sessions /\ UNCHANGED <<home, gen, runId, resume, pc>>
    BY <1>5 DEF Timeout, OnTheWire, Waiting, RegInv, chatVars, sendVars, navVars
  <2>2. CASE Owns(n)
    BY <1>5, <2>1, <2>2, HomeStop DEF Timeout
  <2>3. CASE ~Owns(n)
    BY <1>5, <2>1, <2>3, <1>2 DEF Timeout, homeVars
  <2>. QED
    BY <2>2, <2>3
<1>6. ASSUME NEW n \in Sends,
             Token(n) \/ RunStarts(n) \/ RunEnds(n) \/ StopArrives(n)
      PROVE  HomeInv'
  BY <1>6, <1>2
  DEF Token, RunStarts, RunEnds, StopArrives, chatVars, sendVars, stopVars,
      navVars, homeVars
<1>7. CASE UserSend
  BY <1>7, HomeEnter DEF UserSend, Enter, chatVars, navVars, homeVars
<1>8. CASE Submit
  <2>1. UNCHANGED <<home, gen, runId, resume>>
    BY <1>8 DEF Submit, chatVars, navVars
  <2>2. \/ StopBranch(queue) /\ UNCHANGED pc
        \/ Enter
        \/ UNCHANGED <<pc, keys, posted, wanted>>
    BY <1>8 DEF Submit
  <2>. QED
    BY <2>1, <2>2, <1>2, <1>3, HomeEnter DEF homeVars, Enter
<1>9. CASE Stop
  BY <1>9, <1>3 DEF Stop, chatVars, sendVars, navVars
<1>10. CASE \/ Escape \/ DrainFires \/ PromotedFires
            \/ ProbeAnswered \/ Probe \/ Probed
  BY <1>10, <1>2
  DEF Escape, DrainFires, PromotedFires, ProbeAnswered, Probe, Probed, chatVars,
      sendVars, stopVars, navVars, homeVars
<1>11. CASE Recover \/ Loaded \/ ResumeAnswered \/ Resumed
  BY <1>11, HomeResume DEF Places
<1>12. ASSUME NEW q \in Items, Enqueue(q) \/ Promote(q)
       PROVE  HomeInv'
  <2>1. UNCHANGED <<home, gen, runId, resume, pc>>
    BY <1>12 DEF Enqueue, Promote, chatVars, sendVars, navVars
  <2>2. \/ \E left : StopBranch(left)
        \/ UNCHANGED <<keys, posted, wanted>>
    BY <1>12 DEF Enqueue, Promote, stopVars
  <2>. QED
    BY <2>1, <2>2, <1>2, <1>3 DEF homeVars
<1>13. ASSUME NEW s \in Sessions, SwitchTo(s) \/ Poll(s) \/ Reselect(s) \/ ResumeEnds(s)
       PROVE  HomeInv'
  BY <1>13, <1>2 DEF SwitchTo, Poll, Reselect, ResumeEnds, selectFrame, sendVars, homeVars
<1>14. CASE UNCHANGED vars
  BY <1>14, <1>2 DEF vars, chatVars, sendVars, stopVars, navVars, homeVars
<1>. QED
  BY <1>4, <1>5, <1>6, <1>7, <1>8, <1>9, <1>10, <1>11, <1>12, <1>13, <1>14
  DEF SendMoves, Next, Timers, Rejoin

LEMMA PlacesInit == Init => Places
BY DEF Init, Places

LEMMA PlacesFinally ==
    ASSUME Places, NEW n, NEW entries, NEW u, NEW busy,
           Finally(n, entries, u, busy), UNCHANGED <<loading, recover, polls, reselect>>
    PROVE  Places'
BY DEF Places, Finally

LEMMA PlacesStep == RegInv /\ Places /\ [Next]_vars => Places'
<1>. SUFFICES ASSUME RegInv, Places, [Next]_vars
              PROVE  Places'
  OBVIOUS
<1>1. ASSUME UNCHANGED <<reader, loading, recover, polls, reselect>>
      PROVE  Places'
  BY <1>1 DEF Places
<1>2. ASSUME NEW t \in Sessions, NEW entries, Select(t, entries), recover' = recover,
             polls' \subseteq polls, reselect' \subseteq reselect
      PROVE  Places'
  BY <1>2 DEF Places, Select
<1>3. ASSUME NEW n \in Sends, Commit(n)
      PROVE  Places'
  BY <1>3 DEF Commit, Places, RegInv, navVars
<1>4. ASSUME NEW n \in Sends, \/ Switched(n) \/ Register(n) \/ Headers(n) \/ Refused(n)
             \/ GraceOver(n) \/ Release(n) \/ Timeout(n) \/ Token(n)
             \/ RunStarts(n) \/ RunEnds(n) \/ StopArrives(n)
      PROVE  Places'
  BY <1>4, <1>1
  DEF Switched, Register, Headers, Refused, GraceOver, Release, Timeout, Token,
      RunStarts, RunEnds, StopArrives, chatVars, navVars
<1>5. ASSUME NEW n \in Sends, \/ Superseded(n) \/ StreamDone(n)
             \/ PrepareFails(n) \/ GivesUp(n)
      PROVE  Places'
  BY <1>5, PlacesFinally DEF Superseded, StreamDone, PrepareFails, GivesUp, navVars
<1>6. ASSUME NEW n \in Sends, NEW how, NEW r, Caught(n, how, r), pc[n] \in OnTheWire
      PROVE  Places'
  <2>1. home[n] \in Sessions
    BY <1>6 DEF RegInv, OnTheWire, Waiting
  <2>2. /\ UNCHANGED <<loading, polls>>
        /\ recover' \in {home[n], recover}
        /\ reselect' \subseteq reselect \cup {home[n]}
        /\ reader' \in {reader, NoSession}
    BY <1>6 DEF Caught, Finally
  <2>. QED
    BY <2>1, <2>2 DEF Places
<1>7. ASSUME NEW n \in Sends,
             Aborted(n) \/ StreamCut(n) \/ Drop(n) \/ StreamFails(n)
      PROVE  Places'
  BY <1>6, <1>7 DEF Aborted, StreamCut, Drop, StreamFails, OnTheWire, Waiting
<1>8. CASE \/ UserSend \/ Submit \/ Stop \/ Escape \/ DrainFires
           \/ PromotedFires \/ ResumeAnswered \/ Resumed
           \/ ProbeAnswered \/ Probe \/ Probed
  BY <1>8, <1>1
  DEF UserSend, Submit, Stop, Escape, DrainFires, PromotedFires, ResumeAnswered,
      Resumed, ProbeAnswered, Probe, Probed, chatVars, navVars
<1>9. CASE Recover \/ Loaded
  BY <1>9 DEF Recover, Loaded, Places, chatVars
<1>10. ASSUME NEW q \in Items, Enqueue(q) \/ Promote(q)
       PROVE  Places'
  BY <1>10, <1>1 DEF Enqueue, Promote, chatVars, navVars
<1>11. ASSUME NEW s \in Sessions, SwitchTo(s) \/ Poll(s) \/ Reselect(s) \/ ResumeEnds(s)
       PROVE  Places'
  <2>1. recover' = recover /\ polls' \subseteq polls /\ reselect' \subseteq reselect
    BY <1>11 DEF SwitchTo, Poll, Reselect, ResumeEnds
  <2>2. \/ UNCHANGED <<loading, reader>>
        \/ \E entries : Select(s, entries)
    BY <1>11 DEF SwitchTo, Poll, Reselect, ResumeEnds
  <2>3. CASE UNCHANGED <<loading, reader>>
    BY <2>1, <2>3 DEF Places
  <2>. QED
    BY <2>1, <2>2, <2>3, <1>2
<1>12. CASE UNCHANGED vars
  BY <1>12, <1>1 DEF vars, chatVars, navVars
<1>. QED
  BY <1>3, <1>4, <1>5, <1>7, <1>8, <1>9, <1>10, <1>11, <1>12
  DEF Next, SendStep, Timers, Rejoin

\* A Stop never fires against a run of another chat, in whatever surroundings;
\* unless a run of the server is resumed, it fires against the run of a send
\* that was stopped.  For any number of chats and sends.
THEOREM StopsAreExact == Spec => []StopIsExact
<1>1. HomeInv => \A n \in posted : \E m \in wanted : home[m] = home[n]
  BY DEF HomeInv, StaysInChat
<1>2. /\ ("resume" \notin env => posted \subseteq wanted)
      /\ (\A n \in posted : \E m \in wanted : home[m] = home[n])
      => StopIsExact
  BY DEF StopIsExact
<1>. QED
  BY RegInit, RegStep, PlacesInit, PlacesStep, HomeInit, HomeStep,
     StopsAreForTheSend, <1>1, <1>2, PTL DEF Spec

-----------------------------------------------------------------------------
(* Types.                                                                  *)

Marks == {"none", "running", "completed", "error"}

\* The flags, the background entries and the resumed readers.
Flags ==
    /\ inFlight \in BOOLEAN /\ drainTimer \in BOOLEAN
    /\ bg \in [Sessions -> Marks]
    /\ resuming \in [Sessions -> Sends \cup {None}]

LEMMA FlagsInit == Init => Flags
<1>. SUFFICES ASSUME Init PROVE Flags
  OBVIOUS
<1>1. inFlight = FALSE /\ drainTimer = FALSE
  BY DEF Init
<1>2. bg \in [Sessions -> Marks]
  BY DEF Init, Marks
<1>3. resuming \in [Sessions -> Sends \cup {None}]
  BY DEF Init
<1>. QED
  BY <1>1, <1>2, <1>3 DEF Flags

LEMMA DrainIsBoolean ==
    ASSUME drainTimer \in BOOLEAN, NEW u, NEW busy, NEW left, Drain(u, busy, left)
    PROVE  drainTimer' \in BOOLEAN
BY DEF Drain

LEMMA FlagsSame ==
    ASSUME Flags, UNCHANGED <<inFlight, drainTimer, bg, resuming>>
    PROVE  Flags'
BY DEF Flags

LEMMA FlagsStop ==
    ASSUME Flags, NEW left, StopBranch(left), UNCHANGED <<inFlight, bg, resuming>>
    PROVE  Flags'
<1>1. drainTimer' \in BOOLEAN
  <2>1. Drain(Idle(ui), inFlight, left) \/ drainTimer' = drainTimer
    BY DEF StopBranch
  <2>. QED
    BY <2>1, DrainIsBoolean DEF Flags
<1>. QED
  BY <1>1 DEF Flags

LEMMA FlagsFinally ==
    ASSUME Flags, NEW n, NEW entries \in [Sessions -> Marks], NEW u,
           NEW busy \in BOOLEAN, Finally(n, entries, u, busy), UNCHANGED resuming
    PROVE  Flags'
<1>1. inFlight' = busy /\ bg' = entries /\ Drain(ui', busy, queue)
  BY DEF Finally
<1>2. drainTimer' \in BOOLEAN
  BY <1>1, DrainIsBoolean DEF Flags
<1>. QED
  BY <1>1, <1>2 DEF Flags

LEMMA FlagsSend ==
    ASSUME RegInv, Flags, NEW n \in Sends,
           SendMoves(n)
    PROVE  Flags'
<1>1. ASSUME inFlight' \in {inFlight, FALSE}, UNCHANGED <<drainTimer, bg, resuming>>
      PROVE  Flags'
  BY <1>1 DEF Flags
<1>2. CASE Commit(n) \/ Release(n)
  BY <1>1, <1>2 DEF Commit, Release, chatVars, queueVars, navVars
<1>3. CASE Switched(n) \/ Register(n) \/ Headers(n) \/ Refused(n) \/ GraceOver(n)
  BY <1>1, <1>3
  DEF Switched, Register, Headers, Refused, GraceOver, chatVars, queueVars, navVars
<1>4. CASE Superseded(n) \/ PrepareFails(n) \/ GivesUp(n)
  <2>1. \E u : \E busy \in BOOLEAN : Finally(n, bg, u, busy)
    BY <1>4 DEF Superseded, PrepareFails, GivesUp, Flags
  <2>2. resuming' = resuming /\ bg \in [Sessions -> Marks]
    BY <1>4 DEF Superseded, PrepareFails, GivesUp, navVars, Flags
  <2>. QED
    BY <2>1, <2>2, FlagsFinally
<1>5. CASE StreamDone(n)
  <2>1. \E m \in {"none", "completed"} :
           Finally(n, [bg EXCEPT ![home[n]] = m], ui, inFlight)
    BY <1>5 DEF StreamDone
  <2>2. PICK m \in {"none", "completed"} :
           Finally(n, [bg EXCEPT ![home[n]] = m], ui, inFlight)
    BY <2>1
  <2>3. [bg EXCEPT ![home[n]] = m] \in [Sessions -> Marks]
    BY DEF Flags, Marks
  <2>4. inFlight \in BOOLEAN /\ resuming' = resuming
    BY <1>5 DEF StreamDone, navVars, Flags
  <2>. QED
    BY <2>2, <2>3, <2>4, FlagsFinally
<1>6. ASSUME NEW how, NEW r, Caught(n, how, r)
      PROVE  Flags'
  <2>1. PICK b \in BOOLEAN, st \in {"completed", "error"} :
           Finally(n, Failed(n, b, st), ui, inFlight)
    BY <1>6 DEF Caught
  <2>2. Failed(n, b, st) \in [Sessions -> Marks]
    BY DEF Failed, Flags, Marks
  <2>. QED
    BY <1>6, <2>1, <2>2, FlagsFinally DEF Caught, Flags
<1>7. CASE Aborted(n) \/ StreamCut(n) \/ Drop(n) \/ StreamFails(n)
  BY <1>6, <1>7 DEF Aborted, StreamCut, Drop, StreamFails
<1>. QED
  BY <1>2, <1>3, <1>4, <1>5, <1>7 DEF SendMoves, SendStep

LEMMA FlagsStep == RegInv /\ HomeInv /\ Flags /\ [Next]_vars => Flags'
<1>. SUFFICES ASSUME RegInv, HomeInv, Flags, [Next]_vars
              PROVE  Flags'
  OBVIOUS
<1>1. ASSUME NEW n \in Sends,
             SendMoves(n)
      PROVE  Flags'
  BY <1>1, FlagsSend
<1>2. ASSUME NEW n \in Sends, Token(n)
      PROVE  Flags'
  <2>1. Noticed(n) \in [Sessions -> Marks]
    BY DEF Noticed, Flags, Marks
  <2>. QED
    BY <1>2, <2>1 DEF Token, Flags, queueVars, navVars
<1>3. ASSUME NEW n \in Sends,
             Timeout(n) \/ RunStarts(n) \/ RunEnds(n) \/ StopArrives(n)
      PROVE  Flags'
  BY <1>3, FlagsSame
  DEF Timeout, RunStarts, RunEnds, StopArrives, chatVars, queueVars, navVars
<1>4. CASE UserSend
  BY <1>4 DEF UserSend, Enter, Flags, chatVars, navVars
<1>5. CASE Submit
  <2>1. UNCHANGED <<bg, resuming>>
    BY <1>5 DEF Submit, chatVars, navVars
  <2>2. \/ StopBranch(queue) /\ UNCHANGED inFlight
        \/ inFlight' = TRUE /\ UNCHANGED drainTimer
        \/ UNCHANGED <<inFlight, drainTimer>>
    BY <1>5 DEF Submit, Enter
  <2>. QED
    BY <2>1, <2>2, FlagsStop DEF Flags
<1>6. CASE Stop
  BY <1>6, FlagsStop DEF Stop, chatVars, navVars
<1>7. CASE DrainFires
  BY <1>7 DEF DrainFires, Flags, chatVars, navVars
<1>8. CASE \/ Escape \/ PromotedFires \/ Recover \/ ResumeAnswered
           \/ ProbeAnswered \/ Probe
  BY <1>8, FlagsSame
  DEF Escape, PromotedFires, Recover, ResumeAnswered, ProbeAnswered, Probe,
      chatVars, queueVars, navVars
<1>9. CASE Loaded
  BY <1>9 DEF Loaded, Flags, Marks, queueVars
<1>10. CASE Resumed
  BY <1>10 DEF Resumed, Flags, HomeInv, queueVars
<1>11. CASE Probed
  <2>1. /\ UNCHANGED <<bg, resuming>> /\ inFlight' \in {inFlight, FALSE}
        /\ \/ UNCHANGED drainTimer
           \/ \E u, busy, left : Drain(u, busy, left)
    BY <1>11 DEF Probed, navVars
  <2>2. drainTimer' \in BOOLEAN
    BY <2>1, DrainIsBoolean DEF Flags
  <2>. QED
    BY <2>1, <2>2 DEF Flags
<1>12. ASSUME NEW q \in Items, Enqueue(q)
       PROVE  Flags'
  BY <1>12, FlagsSame DEF Enqueue, chatVars, navVars
<1>13. ASSUME NEW q \in Items, Promote(q)
       PROVE  Flags'
  <2>1. UNCHANGED <<inFlight, bg, resuming>>
    BY <1>13 DEF Promote, chatVars, navVars
  <2>2. StopBranch(Without(q)) \/ UNCHANGED drainTimer
    BY <1>13 DEF Promote
  <2>. QED
    BY <2>1, <2>2, FlagsStop, FlagsSame
<1>14. ASSUME NEW s \in Sessions, SwitchTo(s) \/ Poll(s) \/ Reselect(s) \/ ResumeEnds(s)
       PROVE  Flags'
  <2>1. UNCHANGED <<inFlight, drainTimer>>
    BY <1>14 DEF SwitchTo, Poll, Reselect, ResumeEnds, selectFrame
  <2>2. resuming' \in [Sessions -> Sends \cup {None}]
    BY <1>14 DEF SwitchTo, Poll, Reselect, ResumeEnds, Flags
  <2>3. ASSUME NEW entries \in [Sessions -> Marks], Select(s, entries)
        PROVE  bg' \in [Sessions -> Marks]
    BY <2>3 DEF Select, Marks
  <2>4. /\ bg \in [Sessions -> Marks]
        /\ [bg EXCEPT ![s] = "none"] \in [Sessions -> Marks]
    BY DEF Flags, Marks
  <2>5. \/ bg' = bg \/ Select(s, bg) \/ Select(s, [bg EXCEPT ![s] = "none"])
    BY <1>14 DEF SwitchTo, Poll, Reselect, ResumeEnds
  <2>6. bg' \in [Sessions -> Marks]
    BY <2>3, <2>4, <2>5
  <2>. QED
    BY <2>1, <2>2, <2>6 DEF Flags
<1>15. CASE UNCHANGED vars
  BY <1>15, FlagsSame DEF vars, chatVars, queueVars, navVars
<1>. QED
  BY <1>1, <1>2, <1>3, <1>4, <1>5, <1>6, <1>7, <1>8, <1>9, <1>10, <1>11, <1>12,
     <1>13, <1>14, <1>15
  DEF SendMoves, Next, Timers, Rejoin

RunStates == {"none", "asked", "refused", "live", "ended", "cut"}

Probes == [s : Sessions \cup {NoSession}, n : Sends \cup {None},
           found : {"none", "404", "streaming"}]

\* What is kept per send, and the watchdog's request.
Marked ==
    /\ sendState \in [Sessions -> Sends \cup {None}]
    /\ got \subseteq Sends /\ aborted \subseteq Sends /\ timedOut \subseteq Sends
    /\ keyCtrl \in [Sends -> Sends \cup {None}]
    /\ srv \in [Sends -> RunStates] /\ arrived \subseteq Sends
    /\ probe \in Probes

LEMMA MarkedInit == Init => Marked
<1>. SUFFICES ASSUME Init PROVE Marked
  OBVIOUS
<1>1. sendState \in [Sessions -> Sends \cup {None}]
  BY DEF Init
<1>2. got = {} /\ aborted = {} /\ timedOut = {} /\ arrived = {}
  BY DEF Init
<1>3. keyCtrl \in [Sends -> Sends \cup {None}]
  BY DEF Init
<1>4. srv \in [Sends -> RunStates]
  BY DEF Init, RunStates
<1>5. probe \in Probes
  <2>1. probe = [s |-> NoSession, n |-> None, found |-> "none"]
    BY DEF Init, NoProbe
  <2>. QED
    BY <2>1 DEF Probes
<1>. QED
  BY <1>1, <1>2, <1>3, <1>4, <1>5 DEF Marked

LEMMA MarkedSame ==
    ASSUME Marked, UNCHANGED <<sendState, got, timedOut, keyCtrl, srv, arrived, probe>>,
           aborted' \subseteq Sends
    PROVE  Marked'
BY DEF Marked

\* The controller of a chat is that of a send.
LEMMA ControllerIsOfASend ==
    ASSUME RegInv, Marked, NEW s \in Sessions
    PROVE  Controller(s) \in Sends \cup {None}
BY DEF Controller, RegInv, Marked

LEMMA MarkedStop ==
    ASSUME HomeInv, Marked, NEW s \in Sessions, NEW ctrl \in Sends \cup {None},
           StopExactRun(s, ctrl),
           UNCHANGED <<sendState, got, srv, arrived, probe>>,
           timedOut' \subseteq Sends
    PROVE  Marked'
<1>1. aborted' \subseteq Sends
  BY DEF StopExactRun, Abort, Marked
<1>2. keyCtrl' = keyCtrl \/ keyCtrl' = [keyCtrl EXCEPT ![gen[s]] = ctrl]
  BY DEF StopExactRun
<1>3. keyCtrl' \in [Sends -> Sends \cup {None}]
  BY <1>2 DEF Marked
<1>. QED
  BY <1>1, <1>3 DEF Marked

LEMMA MarkedBranch ==
    ASSUME RegInv, HomeInv, Marked, NEW left, StopBranch(left),
           UNCHANGED <<sendState, got, timedOut, srv, arrived, probe>>
    PROVE  Marked'
<1>1. cur \in Sessions /\ timedOut \subseteq Sends
  BY DEF RegInv, Marked
<1>2. Controller(cur) \in Sends \cup {None}
  BY <1>1, ControllerIsOfASend
<1>. QED
  BY <1>1, <1>2, MarkedStop DEF StopBranch

LEMMA MarkedFinally ==
    ASSUME Marked, NEW n \in Sends, NEW entries, NEW u, NEW busy,
           Finally(n, entries, u, busy), aborted' \subseteq Sends,
           UNCHANGED <<got, timedOut, keyCtrl, srv, arrived, probe>>
    PROVE  Marked'
<1>1. sendState' \in [Sessions -> Sends \cup {None}]
  BY DEF Finally, Marked
<1>. QED
  BY <1>1 DEF Marked

LEMMA MarkedSend ==
    ASSUME RegInv, Marked, NEW n \in Sends,
           SendMoves(n)
    PROVE  Marked'
<1>1. aborted \subseteq Sends /\ aborted \cup {n} \subseteq Sends
  BY DEF Marked
<1>2. CASE Commit(n)
  BY <1>2 DEF Commit, Marked, stopVars, srvVars
<1>3. CASE Switched(n) \/ Release(n)
  BY <1>1, <1>3, MarkedSame
  DEF Switched, Release, chatVars, stopVars, srvVars
<1>4. CASE Superseded(n)
  BY <1>1, <1>4, MarkedFinally DEF Superseded, srvVars
<1>5. CASE PrepareFails(n) \/ GivesUp(n)
  BY <1>1, <1>5, MarkedFinally DEF PrepareFails, GivesUp, srvVars
<1>6. CASE Register(n)
  BY <1>6 DEF Register, Marked, RunStates, stopVars
<1>7. CASE Headers(n)
  <2>1. aborted' \subseteq Sends
    BY <1>7 DEF Headers, Abort, Marked
  <2>. QED
    BY <1>7, <2>1, MarkedSame DEF Headers, srvVars
<1>8. CASE StreamDone(n)
  BY <1>1, <1>8, MarkedFinally DEF StreamDone, srvVars
<1>9. ASSUME NEW how, NEW r, Caught(n, how, r)
      PROVE  Marked'
  <2>1. aborted' \subseteq Sends
    BY <1>1, <1>9 DEF Caught, Abort
  <2>2. \E entries : Finally(n, entries, ui, inFlight)
    BY <1>9 DEF Caught
  <2>. QED
    BY <1>9, <2>1, <2>2, MarkedFinally DEF Caught, srvVars
<1>10. CASE Aborted(n) \/ StreamCut(n) \/ Drop(n) \/ StreamFails(n)
  BY <1>9, <1>10 DEF Aborted, StreamCut, Drop, StreamFails
<1>11. CASE GraceOver(n)
  BY <1>1, <1>11, MarkedSame DEF GraceOver, Abort, chatVars, sendVars, srvVars
<1>12. CASE Refused(n)
  BY <1>12 DEF Refused, Marked, RunStates, chatVars, stopVars
<1>. QED
  BY <1>2, <1>3, <1>4, <1>5, <1>6, <1>7, <1>8, <1>10, <1>11, <1>12
  DEF SendMoves, SendStep

LEMMA MarkedStep == RegInv /\ HomeInv /\ Marked /\ [Next]_vars => Marked'
<1>. SUFFICES ASSUME RegInv, HomeInv, Marked, [Next]_vars
              PROVE  Marked'
  OBVIOUS
<1>1. cur \in Sessions /\ aborted \subseteq Sends
  BY DEF RegInv, Marked
<1>2. ASSUME NEW c \in Sends \cup {None}, Abort(c)
      PROVE  aborted' \subseteq Sends
  BY <1>2 DEF Abort, Marked
<1>3. \A s \in Sessions : Controller(s) \in Sends \cup {None}
  BY ControllerIsOfASend
<1>4. ASSUME NEW n \in Sends,
             SendMoves(n)
      PROVE  Marked'
  BY <1>4, MarkedSend
<1>5. ASSUME NEW n \in Sends, Timeout(n)
      PROVE  Marked'
  <2>1. /\ home[n] \in Sessions /\ timedOut' = timedOut \cup {n}
        /\ UNCHANGED <<sendState, got, srv, arrived, probe>>
    BY <1>5 DEF Timeout, OnTheWire, Waiting, RegInv, chatVars, sendVars, srvVars
  <2>2. timedOut' \subseteq Sends
    BY <2>1 DEF Marked
  <2>3. CASE Owns(n)
    BY <1>5, <2>1, <2>2, <2>3, MarkedStop DEF Timeout
  <2>4. CASE ~Owns(n)
    <3>1. keyCtrl' = keyCtrl /\ aborted' \subseteq Sends
      BY <1>2, <1>5, <2>4 DEF Timeout
    <3>. QED
      BY <2>1, <2>2, <3>1 DEF Marked
  <2>. QED
    BY <2>3, <2>4
<1>6. ASSUME NEW n \in Sends, Token(n)
      PROVE  Marked'
  BY <1>6 DEF Token, Marked, stopVars, srvVars
<1>7. ASSUME NEW n \in Sends, RunStarts(n)
      PROVE  Marked'
  <2>1. srv' \in [Sends -> RunStates]
    BY <1>7 DEF RunStarts, Marked, RunStates
  <2>. QED
    BY <1>7, <2>1 DEF RunStarts, Marked, chatVars, sendVars, stopVars
<1>8. ASSUME NEW n \in Sends, RunEnds(n) \/ StopArrives(n)
      PROVE  Marked'
  <2>1. srv' \in [Sends -> RunStates]
    BY <1>8 DEF RunEnds, StopArrives, Marked, RunStates
  <2>2. arrived' \subseteq Sends
    BY <1>8 DEF RunEnds, StopArrives, Marked
  <2>. QED
    BY <1>8, <2>1, <2>2
    DEF RunEnds, StopArrives, Marked, chatVars, sendVars, stopVars
<1>9. CASE UserSend
  BY <1>1, <1>9, MarkedSame DEF UserSend, Enter, chatVars, srvVars
<1>10. CASE Submit
  <2>1. UNCHANGED <<sendState, got, timedOut, srv, arrived, probe>>
    BY <1>10 DEF Submit, chatVars, srvVars
  <2>2. StopBranch(queue) \/ UNCHANGED <<aborted, keyCtrl>>
    BY <1>10 DEF Submit, Enter
  <2>. QED
    BY <1>1, <2>1, <2>2, MarkedBranch, MarkedSame
<1>11. CASE Stop
  BY <1>11, MarkedBranch DEF Stop, chatVars, sendVars, srvVars
<1>12. CASE Escape
  BY <1>1, <1>2, <1>3, <1>12, MarkedSame
  DEF Escape, chatVars, sendVars, srvVars
<1>13. CASE DrainFires \/ PromotedFires \/ Recover \/ Loaded
  BY <1>1, <1>13, MarkedSame
  DEF DrainFires, PromotedFires, Recover, Loaded, chatVars, sendVars, stopVars,
      srvVars
<1>14. CASE ResumeAnswered \/ Resumed
  BY <1>1, <1>14, MarkedSame
  DEF ResumeAnswered, Resumed, chatVars, sendVars, stopVars, srvVars
<1>15. CASE Probe
  <2>1. probe' = [s |-> cur, n |-> active[cur], found |-> "none"]
    BY <1>15 DEF Probe
  <2>2. active[cur] \in Sends \cup {None}
    BY DEF RegInv
  <2>3. probe' \in Probes
    BY <1>1, <2>1, <2>2 DEF Probes
  <2>. QED
    BY <1>15, <2>3 DEF Probe, Marked, chatVars, sendVars, stopVars, srvVars
<1>16. CASE ProbeAnswered
  <2>1. \/ probe' = [probe EXCEPT !.found = "404"]
        \/ probe' = [probe EXCEPT !.found = "streaming"]
    BY <1>16 DEF ProbeAnswered
  <2>2. probe' \in Probes
    BY <2>1 DEF Marked, Probes
  <2>. QED
    BY <1>16, <2>2 DEF ProbeAnswered, Marked, chatVars, sendVars, stopVars, srvVars
<1>17. CASE Probed
  <2>1. probe' \in Probes
    <3>1. probe' = [s |-> NoSession, n |-> None, found |-> "none"]
      BY <1>17 DEF Probed, NoProbe
    <3>. QED
      BY <3>1 DEF Probes
  <2>2. probe.n \in Sends \cup {None}
    BY DEF Marked, Probes
  <2>3. aborted' \subseteq Sends
    BY <1>2, <1>17, <2>2 DEF Probed, Marked
  <2>. QED
    BY <1>17, <2>1, <2>3 DEF Probed, Marked, sendVars, srvVars
<1>18. ASSUME NEW q \in Items, Enqueue(q)
       PROVE  Marked'
  BY <1>1, <1>18, MarkedSame DEF Enqueue, chatVars, sendVars, stopVars, srvVars
<1>19. ASSUME NEW q \in Items, Promote(q)
       PROVE  Marked'
  <2>1. UNCHANGED <<sendState, got, timedOut, srv, arrived, probe>>
    BY <1>19 DEF Promote, chatVars, sendVars, srvVars
  <2>2. StopBranch(Without(q)) \/ UNCHANGED <<aborted, keyCtrl>>
    BY <1>19 DEF Promote
  <2>. QED
    BY <1>1, <2>1, <2>2, MarkedBranch, MarkedSame
<1>20. ASSUME NEW s \in Sessions, SwitchTo(s) \/ Poll(s) \/ Reselect(s) \/ ResumeEnds(s)
       PROVE  Marked'
  <2>1. UNCHANGED <<sendState, got, timedOut, keyCtrl, srv, arrived, probe>>
    BY <1>20 DEF SwitchTo, Poll, Reselect, ResumeEnds, selectFrame, sendVars, srvVars
  <2>2. Abort(Controller(s)) \/ aborted' = aborted
    BY <1>20 DEF SwitchTo, Poll, Reselect, ResumeEnds, Select
  <2>3. aborted' \subseteq Sends
    BY <1>1, <1>2, <1>3, <2>2
  <2>. QED
    BY <2>1, <2>3, MarkedSame
<1>21. CASE UNCHANGED vars
  BY <1>1, <1>21, MarkedSame DEF vars, chatVars, sendVars, stopVars, srvVars
<1>. QED
  BY <1>4, <1>5, <1>6, <1>7, <1>8, <1>9, <1>10, <1>11, <1>12, <1>13, <1>14,
     <1>15, <1>16, <1>17, <1>18, <1>19, <1>20, <1>21
  DEF SendMoves, Next, Timers, Rejoin

\* The messages that wait: in the queue, for the promotion timer, or for the
\* task that submits them.
InLine == submits + Len(queue) + (IF promoted = None THEN 0 ELSE 1)

\* They are not more than have been queued, and messages are queued in order.
Counted ==
    /\ submits \in Nat
    /\ \E k \in 0..MaxQueued :
          /\ \A q \in Items : origin[q] # NoSession <=> q <= k
          /\ InLine <= k

countVars == <<submits, queue, promoted, origin>>

LEMMA CountedInit == Init => Counted
<1>. SUFFICES ASSUME Init PROVE Counted
  OBVIOUS
<1>1. Len(queue) = 0 /\ submits = 0 /\ promoted = None
  BY EmptySeq DEF Init
<1>2. \A q \in Items : origin[q] # NoSession <=> q <= 0
  BY DEF Init, Items
<1>3. 0 \in 0..MaxQueued /\ InLine <= 0
  BY <1>1, ConstantsAssumption DEF InLine
<1>. QED
  BY <1>1, <1>2, <1>3 DEF Counted

LEMMA CountedDown ==
    ASSUME Counted, origin' = origin, submits' \in Nat, InLine \in Int,
           InLine' \in Int, InLine' <= InLine
    PROVE  Counted'
<1>1. PICK k \in 0..MaxQueued : /\ \A q \in Items : origin[q] # NoSession <=> q <= k
                                /\ InLine <= k
  BY DEF Counted
<1>2. InLine' <= k
  BY <1>1
<1>3. \A q \in Items : origin'[q] # NoSession <=> q <= k
  BY <1>1
<1>. QED
  BY <1>2, <1>3 DEF Counted

LEMMA CountedStep == QueueInv /\ RegInv /\ Counted /\ [Next]_vars => Counted'
<1>. SUFFICES ASSUME QueueInv, RegInv, Counted, [Next]_vars
              PROVE  Counted'
  OBVIOUS
<1>1. /\ queue \in Seq(Items) /\ Distinct(queue) /\ Len(queue) \in Nat
      /\ submits \in Nat
  BY LenProperties DEF QueueInv, Counted
<1>2. ASSUME UNCHANGED countVars
      PROVE  Counted'
  BY <1>2 DEF Counted, InLine, countVars
<1>3. InLine \in Int
  BY <1>1 DEF InLine
<1>4. ASSUME NEW n \in Sends,
             SendMoves(n)
      PROVE  Counted'
  BY <1>2, <1>4
  DEF SendMoves, SendStep, Commit, Switched, Superseded, Register, Headers,
      StreamDone, Aborted, StreamCut, GraceOver, Release, PrepareFails, Refused,
      GivesUp, Drop, StreamFails, Caught, queueVars, countVars
<1>5. ASSUME NEW n \in Sends, \/ Timeout(n) \/ Token(n) \/ RunStarts(n)
                               \/ RunEnds(n) \/ StopArrives(n)
      PROVE  Counted'
  BY <1>2, <1>5
  DEF Timeout, Token, RunStarts, RunEnds, StopArrives, queueVars, countVars
<1>6. CASE UserSend \/ Stop \/ Escape \/ Recover \/ Rejoin \/ Probe
  BY <1>2, <1>6
  DEF UserSend, Stop, Escape, Recover, Rejoin, Loaded, ResumeAnswered, Resumed,
      ProbeAnswered, Probed, Probe, queueVars, countVars
<1>7. CASE Submit
  <2>1. submits > 0 /\ submits' = submits - 1 /\ UNCHANGED <<queue, origin, promoted>>
    BY <1>7 DEF Submit
  <2>2. submits' \in Nat /\ InLine' \in Int /\ InLine' <= InLine
    BY <1>1, <2>1 DEF InLine
  <2>. QED
    BY <1>3, <2>1, <2>2, CountedDown
<1>8. CASE DrainFires
  <2>1. UNCHANGED <<origin, promoted>>
    BY <1>8 DEF DrainFires
  <2>2. CASE ui.streaming \/ inFlight \/ queue = <<>>
    BY <1>2, <1>8, <2>1, <2>2 DEF DrainFires, countVars
  <2>3. CASE ~(ui.streaming \/ inFlight \/ queue = <<>>)
    <3>1. queue # <<>> /\ queue' = Tail(queue) /\ submits' = submits + 1
      BY <1>8, <2>3 DEF DrainFires, SetComposerAndSend
    <3>2. Len(queue') = Len(queue) - 1
      BY <1>1, <3>1, TailOfQueue
    <3>3. submits' \in Nat /\ InLine' \in Int /\ InLine' <= InLine
      BY <1>1, <2>1, <3>1, <3>2 DEF InLine
    <3>. QED
      BY <1>3, <2>1, <3>3, CountedDown
  <2>. QED
    BY <2>2, <2>3
<1>9. CASE PromotedFires
  <2>1. /\ promoted # None /\ promoted' = None /\ submits' = submits + 1
        /\ UNCHANGED <<queue, origin>>
    BY <1>9 DEF PromotedFires, SetComposerAndSend
  <2>2. submits' \in Nat /\ InLine' \in Int /\ InLine' <= InLine
    BY <1>1, <2>1 DEF InLine
  <2>. QED
    BY <1>3, <2>1, <2>2, CountedDown
<1>10. ASSUME NEW q \in Items, Promote(q)
       PROVE  Counted'
  <2>1. q \in Queued /\ queue' = Without(q) /\ origin' = origin
    BY <1>10 DEF Promote
  <2>2. Len(queue') = Len(queue) - 1
    BY <1>1, <2>1, WithoutOne
  <2>3. \/ submits' = submits + 1 /\ promoted' = promoted
        \/ submits' = submits
    BY <1>10 DEF Promote, SetComposerAndSend
  <2>4. submits' \in Nat /\ InLine' \in Int /\ InLine' <= InLine
    BY <1>1, <2>2, <2>3 DEF InLine
  <2>. QED
    BY <1>3, <2>1, <2>4, CountedDown
<1>11. ASSUME NEW q \in Items, Enqueue(q)
       PROVE  Counted'
  <2>1. /\ origin[q] = NoSession /\ \A r \in Items : r < q => origin[r] # NoSession
        /\ queue' = Append(queue, q) /\ origin' = [origin EXCEPT ![q] = cur]
        /\ UNCHANGED <<submits, promoted>>
    BY <1>11 DEF Enqueue
  <2>2. PICK k \in 0..MaxQueued : /\ \A r \in Items : origin[r] # NoSession <=> r <= k
                                  /\ InLine <= k
    BY DEF Counted
  <2>3. q \in 1..MaxQueued /\ MaxQueued \in Nat
    BY ConstantsAssumption DEF Items
  <2>4. q > k
    BY <2>1, <2>2, <2>3
  <2>5. q <= k + 1
    <3>. SUFFICES ASSUME q > k + 1 PROVE FALSE
      BY <2>2, <2>3
    <3>1. k + 1 \in Items /\ k + 1 < q
      BY <2>2, <2>3 DEF Items
    <3>2. origin[k + 1] # NoSession
      BY <2>1, <3>1
    <3>. QED
      BY <2>2, <3>1, <3>2
  <2>6. q = k + 1
    BY <2>2, <2>3, <2>4, <2>5
  <2>7. cur # NoSession
    BY ConstantsAssumption DEF RegInv
  <2>8. \A r \in Items : origin'[r] # NoSession <=> r <= k + 1
    <3>. SUFFICES ASSUME NEW r \in Items
                  PROVE  origin'[r] # NoSession <=> r <= k + 1
      OBVIOUS
    <3>1. origin'[r] = IF r = q THEN cur ELSE origin[r]
      BY <2>1 DEF QueueInv
    <3>2. r \in Int /\ (origin[r] # NoSession <=> r <= k)
      BY <2>2 DEF Items
    <3>. QED
      BY <2>2, <2>6, <2>7, <3>1, <3>2
  <2>9. Len(queue') = Len(queue) + 1
    BY <1>1, <2>1, AppendProperties
  <2>10. k + 1 \in 0..MaxQueued /\ InLine' <= k + 1
    BY <1>1, <2>1, <2>2, <2>3, <2>6, <2>9 DEF InLine
  <2>11. submits' \in Nat
    BY <1>1, <2>1
  <2>. QED
    BY <2>8, <2>10, <2>11 DEF Counted
<1>12. ASSUME NEW s \in Sessions, SwitchTo(s) \/ Poll(s) \/ Reselect(s) \/ ResumeEnds(s)
       PROVE  Counted'
  BY <1>2, <1>12 DEF SwitchTo, Poll, Reselect, ResumeEnds, selectFrame, countVars
<1>13. CASE UNCHANGED vars
  BY <1>2, <1>13 DEF vars, queueVars, countVars
<1>. QED
  BY <1>4, <1>5, <1>6, <1>7, <1>8, <1>9, <1>10, <1>11, <1>12, <1>13
  DEF SendMoves, Next, Timers

LEMMA CountedIsBounded ==
    ASSUME QueueInv, Counted
    PROVE  /\ Queued \subseteq Items /\ Len(queue) <= MaxQueued
           /\ submits \in 0..MaxQueued
<1>1. queue \in Seq(Items) /\ Len(queue) \in Nat /\ submits \in Nat
  BY LenProperties DEF QueueInv, Counted
<1>2. PICK k \in 0..MaxQueued : InLine <= k
  BY DEF Counted
<1>3. MaxQueued \in Nat
  BY ConstantsAssumption
<1>4. Len(queue) <= MaxQueued /\ submits \in 0..MaxQueued
  BY <1>1, <1>2, <1>3 DEF InLine
<1>5. Queued \subseteq Items
  BY <1>1, ElementOfSeq DEF Queued
<1>. QED
  BY <1>4, <1>5

TabInv ==
    /\ RegInv /\ UiInv /\ QueueInv /\ Places /\ HomeInv
    /\ Flags /\ Marked /\ Counted

LEMMA TabTypeOK == TabInv => TypeOK
<1>. SUFFICES ASSUME TabInv PROVE TypeOK
  OBVIOUS
<1>1. /\ RegInv /\ UiInv /\ QueueInv /\ Places /\ HomeInv
      /\ Flags /\ Marked /\ Counted
  BY DEF TabInv
<1>2. /\ Queued \subseteq Items /\ Len(queue) <= MaxQueued
      /\ submits \in 0..MaxQueued
  BY <1>1, CountedIsBounded
<1>3. /\ cur \in Sessions /\ home \in [Sends -> Sessions \cup {NoSession}]
      /\ pc \in [Sends -> {"unused", "entry", "switching", "preparing", "posted",
                           "reading", "refused", "done"}]
      /\ active \in [Sessions -> Sends \cup {None}]
  BY <1>1 DEF RegInv, Stages
<1>4. ui \in [streaming : BOOLEAN, watching : BOOLEAN,
              holder : Sends \cup {None}, text : BOOLEAN]
  BY <1>1 DEF UiInv, UiType
<1>5. /\ composer \in Items \cup {None} /\ promoted \in Items \cup {None}
      /\ what \in [Sends -> Items \cup {None}]
      /\ origin \in [Items -> Sessions \cup {NoSession}]
  BY <1>1 DEF QueueInv
<1>6. /\ gen \in [Sessions -> Sends \cup {None}]
      /\ runId \in [Sessions -> Sends \cup {None}]
      /\ keys \subseteq Sends /\ posted \subseteq Sends /\ wanted \subseteq Sends
  BY <1>1 DEF HomeInv, Homed
<1>7. /\ inFlight \in BOOLEAN /\ drainTimer \in BOOLEAN
      /\ bg \in [Sessions -> {"none", "running", "completed", "error"}]
      /\ resuming \in [Sessions -> Sends \cup {None}]
  BY <1>1 DEF Flags, Marks
<1>8. /\ sendState \in [Sessions -> Sends \cup {None}]
      /\ got \cup aborted \cup timedOut \subseteq Sends
      /\ keyCtrl \in [Sends -> Sends \cup {None}]
      /\ srv \in [Sends -> {"none", "asked", "refused", "live", "ended", "cut"}]
      /\ arrived \subseteq Sends
  BY <1>1 DEF Marked, RunStates
<1>9. /\ reader \in Sessions \cup {NoSession}
      /\ {recover, loading} \subseteq Sessions \cup {NoSession}
      /\ polls \cup reselect \subseteq Sessions
  BY <1>1 DEF Places
<1>. QED
  BY <1>2, <1>3, <1>4, <1>5, <1>6, <1>7, <1>8, <1>9 DEF TypeOK

\* Every variable of the tab keeps its type, and as many messages wait at most
\* as were queued, for any number of chats, sends and messages.
THEOREM TabTypes == Spec => []TypeOK
<1>1. Init => TabInv
  BY RegInit, UiInit, QueueInit, PlacesInit, HomeInit, FlagsInit, MarkedInit,
     CountedInit DEF TabInv
<1>2. TabInv /\ [Next]_vars => TabInv'
  BY RegStep, UiStep, QueueStep, PlacesStep, HomeStep, FlagsStep, MarkedStep,
     CountedStep DEF TabInv
<1>. QED
  BY <1>1, <1>2, TabTypeOK, PTL DEF Spec
=============================================================================
