-------------------------- MODULE ChatClientProofs --------------------------
(***************************************************************************)
(* Proofs about ChatClient, for every number of chats, sends and queued    *)
(* messages, and for all surroundings.                                     *)
(***************************************************************************)
EXTENDS ChatClient, SequenceTheorems, TLAPS

-----------------------------------------------------------------------------
(* Registrations.                                                          *)

Stages == {"unused", "entry", "switching", "preparing", "posted", "reading",
           "refused", "done"}

\* RegisteredIsLive with what it rests on: a send has its chat from its
\* commit on.
RegInv ==
    /\ cur \in Sessions
    /\ pc \in [Sends -> Stages]
    /\ home \in [Sends -> Sessions \cup {NoSession}]
    /\ active \in [Sessions -> Sends \cup {None}]
    /\ \A n \in Sends : pc[n] \in {"switching", "preparing", "posted", "reading", "refused"}
                            => home[n] \in Sessions
    /\ RegisteredIsLive

\* What send n does, or what becomes of its request.
SendMoves(n) == SendStep(n) \/ Release(n) \/ PrepareFails(n) \/ Refused(n)
                   \/ Drop(n) \/ StreamFails(n)

LEMMA NoneIsNoSend == None \notin Sends
BY DEF None, Sends

LEMMA RegInit == Init => RegInv
BY NoneIsNoSend DEF Init, RegInv, RegisteredIsLive, Stages

LEMMA RegEnter ==
    ASSUME RegInv, Enter, UNCHANGED <<cur, home, active>>
    PROVE  RegInv'
<1>1. PICK n \in Sends : /\ pc[n] = "unused"
                         /\ pc' = [pc EXCEPT ![n] = "entry"]
  BY DEF Enter
<1>. QED
  BY <1>1, NoneIsNoSend DEF RegInv, RegisteredIsLive, OnTheWire, Waiting, Stages

\* The finally block takes the registration back before the send is done.
LEMMA RegFinally ==
    ASSUME RegInv, NEW n \in Sends,
           pc[n] \in {"preparing", "posted", "reading", "refused"},
           NEW entries, NEW u, NEW busy, Finally(n, entries, u, busy),
           UNCHANGED <<cur, home>>
    PROVE  RegInv'
<1>1. pc' = [pc EXCEPT ![n] = "done"] /\ active' = Deregistered(n)
  BY DEF Finally
<1>2. home[n] \in Sessions
  BY DEF RegInv
<1>3. active' \in [Sessions -> Sends \cup {None}]
  BY <1>1 DEF Deregistered, RegInv
<1>4. ASSUME NEW s \in Sessions, active'[s] # None
      PROVE  home'[active'[s]] = s /\ pc'[active'[s]] \in OnTheWire
  <2>1. active'[s] = active[s]
    BY <1>1, <1>4 DEF Deregistered, RegInv
  <2>2. active[s] \in Sends /\ home[active[s]] = s /\ pc[active[s]] \in OnTheWire
    BY <2>1, <1>4 DEF RegInv, RegisteredIsLive
  <2>3. active[s] # n
    <3>. SUFFICES ASSUME active[s] = n PROVE FALSE
      OBVIOUS
    <3>1. home[n] = s
      BY <2>2
    <3>2. active'[s] = None
      BY <1>1, <3>1 DEF Deregistered, RegInv
    <3>. QED
      BY <3>2, <1>4
  <2>. QED
    BY <1>1, <2>1, <2>2, <2>3 DEF RegInv
<1>. QED
  BY <1>1, <1>3, <1>4 DEF RegInv, RegisteredIsLive, Stages

LEMMA RegSend ==
    ASSUME RegInv, NEW n \in Sends,
           SendMoves(n)
    PROVE  RegInv'
<1>1. CASE Commit(n)
  BY <1>1, NoneIsNoSend
  DEF Commit, RegInv, RegisteredIsLive, OnTheWire, Waiting, Stages
<1>2. CASE Switched(n)
  BY <1>2, NoneIsNoSend
  DEF Switched, RegInv, RegisteredIsLive, OnTheWire, Waiting, Stages, chatVars
<1>3. CASE Superseded(n)
  BY <1>3, RegFinally DEF Superseded
<1>4. CASE Register(n)
  BY <1>4, NoneIsNoSend
  DEF Register, RegInv, RegisteredIsLive, OnTheWire, Waiting, Stages
<1>5. CASE Headers(n)
  BY <1>5, NoneIsNoSend
  DEF Headers, RegInv, RegisteredIsLive, OnTheWire, Waiting, Stages
<1>6. CASE StreamDone(n)
  BY <1>6, RegFinally DEF StreamDone
<1>7. ASSUME NEW how, NEW r, Caught(n, how, r), pc[n] \in OnTheWire
      PROVE  RegInv'
  BY <1>7, RegFinally DEF Caught, OnTheWire, Waiting
<1>8. CASE Aborted(n)
  BY <1>8, <1>7 DEF Aborted, OnTheWire
<1>9. CASE StreamCut(n)
  BY <1>9, <1>7 DEF StreamCut, OnTheWire, Waiting
<1>10. CASE Drop(n) \/ StreamFails(n)
  BY <1>10, <1>7 DEF Drop, StreamFails, OnTheWire, Waiting
<1>11. CASE GraceOver(n)
  BY <1>11 DEF GraceOver, RegInv, RegisteredIsLive, chatVars, sendVars
<1>12. CASE Release(n)
  BY <1>12, NoneIsNoSend
  DEF Release, RegInv, RegisteredIsLive, OnTheWire, Waiting, Stages, chatVars
<1>13. CASE PrepareFails(n) \/ GivesUp(n)
  BY <1>13, RegFinally DEF PrepareFails, GivesUp
<1>14. CASE Refused(n)
  BY <1>14, NoneIsNoSend
  DEF Refused, RegInv, RegisteredIsLive, OnTheWire, Waiting, Stages, chatVars
<1>. QED
  BY <1>1, <1>2, <1>3, <1>4, <1>5, <1>6, <1>8, <1>9, <1>10, <1>11, <1>12,
     <1>13, <1>14 DEF SendMoves, SendStep

LEMMA RegStep == RegInv /\ [Next]_vars => RegInv'
<1>. SUFFICES ASSUME RegInv, [Next]_vars
              PROVE  RegInv'
  OBVIOUS
<1>1. ASSUME UNCHANGED <<cur, pc, home, active>>
      PROVE  RegInv'
  BY <1>1 DEF RegInv, RegisteredIsLive
<1>2. ASSUME UNCHANGED <<pc, home, active>>, cur' \in Sessions
      PROVE  RegInv'
  BY <1>2 DEF RegInv, RegisteredIsLive
<1>3. ASSUME NEW n \in Sends,
             SendMoves(n)
      PROVE  RegInv'
  BY <1>3, RegSend
<1>4. ASSUME NEW n \in Sends,
             Timeout(n) \/ Token(n) \/ RunStarts(n) \/ RunEnds(n) \/ StopArrives(n)
      PROVE  RegInv'
  BY <1>4, <1>1
  DEF Timeout, Token, RunStarts, RunEnds, StopArrives, chatVars, sendVars
<1>5. CASE UserSend \/ Submit
  BY <1>5, <1>1, RegEnter DEF UserSend, Submit, chatVars
<1>6. CASE Stop \/ Escape \/ DrainFires \/ PromotedFires \/ Recover
  BY <1>6, <1>1
  DEF Stop, Escape, DrainFires, PromotedFires, Recover, chatVars, sendVars
<1>7. CASE Loaded \/ ResumeAnswered \/ Resumed \/ ProbeAnswered \/ Probe
  BY <1>7, <1>1
  DEF Loaded, ResumeAnswered, Resumed, ProbeAnswered, Probe, chatVars, sendVars
<1>8. CASE Probed
  BY <1>8, NoneIsNoSend DEF Probed, RegInv, RegisteredIsLive, sendVars
<1>9. ASSUME NEW q \in Items, Enqueue(q) \/ Promote(q)
      PROVE  RegInv'
  BY <1>9, <1>1 DEF Enqueue, Promote, chatVars, sendVars
<1>10. ASSUME NEW s \in Sessions, SwitchTo(s) \/ Poll(s) \/ Reselect(s) \/ ResumeEnds(s)
       PROVE  RegInv'
  <2>1. UNCHANGED <<pc, home, active>>
    BY <1>10 DEF SwitchTo, Poll, Reselect, ResumeEnds, selectFrame, sendVars
  <2>2. cur' \in Sessions
    BY <1>10 DEF SwitchTo, Poll, Reselect, ResumeEnds, Select, RegInv
  <2>. QED
    BY <2>1, <2>2, <1>2
<1>11. CASE UNCHANGED vars
  BY <1>11, <1>1 DEF vars, chatVars, sendVars
<1>. QED
  BY <1>3, <1>4, <1>5, <1>6, <1>7, <1>8, <1>9, <1>10, <1>11
  DEF SendMoves, Next, Timers, Rejoin

\* No path through the handlers leaves a registration behind, for any number
\* of chats and sends.
THEOREM RegistrationsAreLive == Spec => []RegisteredIsLive
<1>1. RegInv => RegisteredIsLive
  BY DEF RegInv
<1>. QED
  BY RegInit, RegStep, <1>1, PTL DEF Spec

-----------------------------------------------------------------------------
(* Stops.                                                                  *)

\* What the tab knows of runs is about the current send of the chat, and
\* what it has queued or posted was wanted.
Exact ==
    /\ resume = NoResume
    /\ runId \in [Sessions -> Sends \cup {None}]
    /\ \A s \in Sessions : runId[s] \in {None, gen[s]}
    /\ keys \subseteq wanted /\ posted \subseteq wanted

StopInv ==
    /\ gen \in [Sessions -> Sends \cup {None}]
    /\ "resume" \notin env => Exact

LEMMA StopInit == Init => StopInv
BY DEF Init, StopInv, Exact

LEMMA StopSame ==
    ASSUME StopInv, UNCHANGED <<gen, runId, keys, wanted, posted, resume, env>>
    PROVE  StopInv'
BY DEF StopInv, Exact

LEMMA StopExact ==
    ASSUME StopInv, NEW s \in Sessions, NEW ctrl, StopExactRun(s, ctrl),
           UNCHANGED <<gen, runId, resume, env>>
    PROVE  StopInv'
<1>1. wanted' = wanted \cup ({gen[s]} \ {None})
  BY DEF StopExactRun
<1>2. CASE runId[s] # None
  <2>1. posted' = posted \cup {runId[s]} /\ keys' = keys
    BY <1>2 DEF StopExactRun
  <2>. QED
    BY <1>1, <1>2, <2>1 DEF StopInv, Exact
<1>3. CASE runId[s] = None
  <2>1. keys' = keys \cup ({gen[s]} \ {None}) /\ posted' = posted
    BY <1>3 DEF StopExactRun
  <2>. QED
    BY <1>1, <2>1 DEF StopInv, Exact
<1>. QED
  BY <1>2, <1>3

LEMMA StopFinally ==
    ASSUME StopInv, NEW n \in Sends, NEW entries, NEW u, NEW busy,
           Finally(n, entries, u, busy),
           UNCHANGED <<wanted, posted, resume, env>>
    PROVE  StopInv'
BY DEF Finally, StopInv, Exact

LEMMA StopSend ==
    ASSUME RegInv, StopInv, NEW n \in Sends,
           SendMoves(n)
    PROVE  StopInv'
<1>1. CASE Commit(n)
  BY <1>1 DEF Commit, Forgotten, RegInv, StopInv, Exact, stopVars, navVars, world
<1>2. CASE Switched(n)
  BY <1>2, StopSame DEF Switched, chatVars, stopVars, navVars, world
<1>3. CASE Superseded(n)
  BY <1>3, StopFinally DEF Superseded, navVars, world
<1>4. CASE Register(n)
  BY <1>4, StopSame DEF Register, stopVars, navVars, world
<1>5. CASE Headers(n)
  <2>1. UNCHANGED <<gen, wanted, resume, env>>
    BY <1>5 DEF Headers, navVars, world
  <2>2. runId' = IF Owns(n) THEN [runId EXCEPT ![home[n]] = n] ELSE runId
    BY <1>5 DEF Headers
  <2>3. \/ keys' = keys \ {n} /\ n \in keys /\ posted' = posted \cup {n}
        \/ keys' = keys /\ posted' = posted
    BY <1>5 DEF Headers, StopPending
  <2>4. home[n] \in Sessions
    BY <1>5 DEF Headers, RegInv
  <2>. QED
    BY <2>1, <2>2, <2>3, <2>4 DEF StopInv, Exact, Owns
<1>6. CASE StreamDone(n)
  BY <1>6, StopFinally DEF StreamDone, navVars, world
<1>7. ASSUME NEW how, NEW r, Caught(n, how, r)
      PROVE  StopInv'
  BY <1>7, StopFinally DEF Caught, world
<1>8. CASE Aborted(n)
  BY <1>8, <1>7 DEF Aborted
<1>9. CASE StreamCut(n)
  BY <1>9, <1>7 DEF StreamCut
<1>10. CASE Drop(n) \/ StreamFails(n)
  BY <1>10, <1>7 DEF Drop, StreamFails, OnTheWire, Waiting
<1>11. CASE GraceOver(n)
  BY <1>11, StopSame DEF GraceOver, chatVars, navVars, world
<1>12. CASE Release(n)
  BY <1>12, StopSame DEF Release, chatVars, stopVars, navVars, world
<1>13. CASE PrepareFails(n) \/ GivesUp(n)
  BY <1>13, StopFinally DEF PrepareFails, GivesUp, navVars, world
<1>14. CASE Refused(n)
  BY <1>14, StopSame DEF Refused, chatVars, stopVars, navVars, world
<1>. QED
  BY <1>1, <1>2, <1>3, <1>4, <1>5, <1>6, <1>8, <1>9, <1>10, <1>11, <1>12,
     <1>13, <1>14 DEF SendMoves, SendStep

LEMMA StopStep == RegInv /\ StopInv /\ [Next]_vars => StopInv'
<1>. SUFFICES ASSUME RegInv, StopInv, [Next]_vars
              PROVE  StopInv'
  OBVIOUS
<1>1. cur \in Sessions
  BY DEF RegInv
<1>2. ASSUME NEW left, StopBranch(left), UNCHANGED <<gen, runId, resume, env>>
      PROVE  StopInv'
  BY <1>1, <1>2, StopExact DEF StopBranch
<1>3. ASSUME NEW n \in Sends,
             SendMoves(n)
      PROVE  StopInv'
  BY <1>3, StopSend
<1>4. ASSUME NEW n \in Sends, Timeout(n)
      PROVE  StopInv'
  <2>1. home[n] \in Sessions /\ UNCHANGED <<gen, runId, resume, env>>
    BY <1>4 DEF Timeout, OnTheWire, Waiting, RegInv, chatVars, navVars, world
  <2>2. CASE Owns(n)
    BY <1>4, <2>1, <2>2, StopExact DEF Timeout
  <2>3. CASE ~Owns(n)
    BY <1>4, <2>1, <2>3, StopSame DEF Timeout
  <2>. QED
    BY <2>2, <2>3
<1>5. ASSUME NEW n \in Sends,
             Token(n) \/ RunStarts(n) \/ RunEnds(n) \/ StopArrives(n)
      PROVE  StopInv'
  BY <1>5, StopSame
  DEF Token, RunStarts, RunEnds, StopArrives, chatVars, stopVars, navVars, world
<1>6. CASE UserSend
  BY <1>6, StopSame DEF UserSend, Enter, chatVars, navVars, world
<1>7. CASE Submit
  <2>1. UNCHANGED <<gen, runId, resume, env>>
    BY <1>7 DEF Submit, chatVars, navVars, world
  <2>2. StopBranch(queue) \/ UNCHANGED <<keys, posted, wanted>>
    BY <1>7 DEF Submit, Enter
  <2>. QED
    BY <2>1, <2>2, <1>2, StopSame
<1>8. CASE Stop
  BY <1>8, <1>2 DEF Stop, chatVars, navVars, world
<1>9. CASE Escape \/ DrainFires \/ PromotedFires
  BY <1>9, StopSame
  DEF Escape, DrainFires, PromotedFires, chatVars, stopVars, navVars, world
<1>10. ASSUME Recover \/ Loaded \/ ResumeAnswered \/ Resumed
       PROVE  StopInv'
  <2>1. UNCHANGED <<gen, keys, posted, wanted, env>>
    BY <1>10 DEF Recover, Loaded, ResumeAnswered, Resumed, chatVars, stopVars, world
  <2>2. ASSUME "resume" \notin env
        PROVE  UNCHANGED <<runId, resume>>
    <3>1. resume = NoResume
      BY <2>2 DEF StopInv, Exact
    <3>2. \A s : AskResume(s) => resume' = resume
      BY <2>2 DEF AskResume
    <3>3. CASE Recover \/ Loaded
      BY <3>2, <3>3 DEF Recover, Loaded, chatVars
    <3>4. CASE ResumeAnswered \/ Resumed
      BY <3>1, <3>4 DEF ResumeAnswered, Resumed, NoResume
    <3>. QED
      BY <1>10, <3>3, <3>4
  <2>. QED
    BY <2>1, <2>2 DEF StopInv, Exact
<1>11. CASE ProbeAnswered \/ Probe \/ Probed
  BY <1>11, StopSame DEF ProbeAnswered, Probe, Probed, chatVars, stopVars, navVars, world
<1>12. ASSUME NEW q \in Items, Enqueue(q) \/ Promote(q)
       PROVE  StopInv'
  <2>1. UNCHANGED <<gen, runId, resume, env>>
    BY <1>12 DEF Enqueue, Promote, chatVars, navVars, world
  <2>2. \/ \E left : StopBranch(left)
        \/ UNCHANGED <<keys, posted, wanted>>
    BY <1>12 DEF Enqueue, Promote, stopVars
  <2>. QED
    BY <2>1, <2>2, <1>2, StopSame
<1>13. ASSUME NEW s \in Sessions, SwitchTo(s) \/ Poll(s) \/ Reselect(s) \/ ResumeEnds(s)
       PROVE  StopInv'
  BY <1>13, StopSame DEF SwitchTo, Poll, Reselect, ResumeEnds, selectFrame, world
<1>14. CASE UNCHANGED vars
  BY <1>14, StopSame DEF vars, chatVars, stopVars, navVars
<1>. QED
  BY <1>3, <1>4, <1>5, <1>6, <1>7, <1>8, <1>9, <1>10, <1>11, <1>12, <1>13, <1>14
  DEF SendMoves, Next, Timers, Rejoin

LEMMA StopsAreForTheSend ==
    Spec => []("resume" \notin env => posted \subseteq wanted)
<1>1. RegInv /\ StopInv => ("resume" \notin env => posted \subseteq wanted)
  BY DEF StopInv, Exact
<1>. QED
  BY RegInit, RegStep, StopInit, StopStep, <1>1, PTL DEF Spec

-----------------------------------------------------------------------------
(* Queued messages.                                                        *)

Distinct(s) == \A i, j \in 1..Len(s) : s[i] = s[j] => i = j
Of(s) == {s[i] : i \in 1..Len(s)}

\* A message that has not been queued is nowhere; NeverResent.
QueueInv ==
    /\ queue \in Seq(Items) /\ Distinct(queue)
    /\ origin \in [Items -> Sessions \cup {NoSession}]
    /\ composer \in Items \cup {None} /\ promoted \in Items \cup {None}
    /\ what \in [Sends -> Items \cup {None}]
    /\ \A q \in Items : origin[q] = NoSession =>
          /\ q \notin Queued /\ promoted # q /\ composer # q
          /\ \A n \in Sends : what[n] # q
    /\ NeverResent

LEMMA TailOfQueue ==
    ASSUME queue \in Seq(Items), Distinct(queue), queue # <<>>
    PROVE  /\ Head(queue) \in Queued /\ Tail(queue) \in Seq(Items)
           /\ Distinct(Tail(queue))
           /\ Of(Tail(queue)) = Queued \ {Head(queue)}
           /\ Len(Tail(queue)) = Len(queue) - 1
<1>1. /\ Len(queue) \in Nat \ {0} /\ Head(queue) = queue[1]
      /\ Tail(queue) \in Seq(Items) /\ Len(Tail(queue)) = Len(queue) - 1
      /\ \A i \in 1..(Len(queue) - 1) : Tail(queue)[i] = queue[i + 1]
  BY HeadTailProperties, LenProperties, EmptySeq
<1>2. Distinct(Tail(queue))
  BY <1>1 DEF Distinct
<1>3. ASSUME NEW q \in Queued, q # Head(queue)
      PROVE  q \in Of(Tail(queue))
  <2>1. PICK i \in 1..Len(queue) : q = queue[i]
    BY DEF Queued
  <2>2. i - 1 \in 1..(Len(queue) - 1) /\ Tail(queue)[i - 1] = q
    BY <1>1, <1>3, <2>1
  <2>. QED
    BY <1>1, <2>2 DEF Of
<1>4. ASSUME NEW q \in Of(Tail(queue))
      PROVE  q \in Queued /\ q # Head(queue)
  <2>1. PICK i \in 1..(Len(queue) - 1) : q = queue[i + 1]
    BY <1>1 DEF Of
  <2>. QED
    BY <1>1, <2>1 DEF Queued, Distinct
<1>5. Head(queue) \in Queued
  BY <1>1 DEF Queued
<1>. QED
  BY <1>1, <1>2, <1>3, <1>4, <1>5

LEMMA WithoutOne ==
    ASSUME queue \in Seq(Items), Distinct(queue), NEW q \in Queued
    PROVE  /\ Without(q) \in Seq(Items) /\ Distinct(Without(q))
           /\ Of(Without(q)) = Queued \ {q}
           /\ Len(Without(q)) = Len(queue) - 1
<1>. DEFINE i == CHOOSE k \in 1..Len(queue) : queue[k] = q
            a == SubSeq(queue, 1, i - 1)
            b == SubSeq(queue, i + 1, Len(queue))
<1>1. i \in 1..Len(queue) /\ queue[i] = q
  BY DEF Queued
<1>2. Len(queue) \in Nat
  BY LenProperties
<1>. HIDE DEF i
<1>3. /\ a \in Seq(Items) /\ Len(a) = i - 1
      /\ \A k \in 1..(i - 1) : a[k] = queue[k]
  BY <1>1, <1>2, SubSeqProperties
<1>4. /\ b \in Seq(Items) /\ Len(b) = Len(queue) - i
      /\ \A k \in 1..(Len(queue) - i) : b[k] = queue[i + k]
  BY <1>1, <1>2, SubSeqProperties
<1>5. Without(q) = a \o b
  BY DEF Without, i
<1>. HIDE DEF a, b
<1>6. /\ Without(q) \in Seq(Items) /\ Len(Without(q)) = Len(queue) - 1
      /\ \A k \in 1..(Len(queue) - 1) :
             Without(q)[k] = IF k < i THEN queue[k] ELSE queue[k + 1]
  <2>1. /\ a \o b \in Seq(Items) /\ Len(a \o b) = Len(a) + Len(b)
        /\ \A k \in 1..(Len(a) + Len(b)) :
               (a \o b)[k] = IF k <= Len(a) THEN a[k] ELSE b[k - Len(a)]
    BY <1>3, <1>4, ConcatProperties
  <2>2. ASSUME NEW k \in 1..(Len(queue) - 1)
        PROVE  (a \o b)[k] = IF k < i THEN queue[k] ELSE queue[k + 1]
    <3>1. CASE k < i
      BY <1>1, <1>2, <1>3, <1>4, <2>1, <3>1, SMTT(30)
    <3>2. CASE ~(k < i)
      <4>1. k - (i - 1) \in 1..(Len(queue) - i)
        BY <1>1, <1>2, <3>2
      <4>2. (a \o b)[k] = b[k - (i - 1)]
        BY <1>1, <1>2, <1>3, <1>4, <2>1, <3>2
      <4>3. b[k - (i - 1)] = queue[i + (k - (i - 1))]
        BY <1>4, <4>1
      <4>4. i + (k - (i - 1)) = k + 1
        BY <1>1, <1>2
      <4>. QED
        BY <3>2, <4>2, <4>3, <4>4
    <3>. QED
      BY <3>1, <3>2
  <2>. QED
    BY <1>1, <1>2, <1>3, <1>4, <1>5, <2>1, <2>2
<1>7. Distinct(Without(q))
  BY <1>1, <1>2, <1>6 DEF Distinct
<1>8. ASSUME NEW p \in Queued, p # q
      PROVE  p \in Of(Without(q))
  <2>1. PICK k \in 1..Len(queue) : p = queue[k]
    BY DEF Queued
  <2>2. \E m \in 1..(Len(queue) - 1) : p = Without(q)[m]
    <3>1. CASE k < i
      BY <1>1, <1>2, <1>6, <2>1, <3>1
    <3>2. CASE k > i
      <4>1. k - 1 \in 1..(Len(queue) - 1) /\ ~(k - 1 < i) /\ (k - 1) + 1 = k
        BY <1>1, <1>2, <3>2
      <4>. QED
        BY <1>6, <2>1, <4>1
    <3>. QED
      BY <1>1, <1>8, <2>1, <3>1, <3>2
  <2>. QED
    BY <1>6, <2>2 DEF Of
<1>9. ASSUME NEW p \in Of(Without(q))
      PROVE  p \in Queued /\ p # q
  <2>1. PICK k \in 1..(Len(queue) - 1) : p = Without(q)[k]
    BY <1>6 DEF Of
  <2>2. \E m \in 1..Len(queue) : m # i /\ p = queue[m]
    <3>1. CASE k < i
      BY <1>1, <1>2, <1>6, <2>1, <3>1
    <3>2. CASE ~(k < i)
      BY <1>1, <1>2, <1>6, <2>1, <3>2
    <3>. QED
      BY <3>1, <3>2
  <2>. QED
    BY <1>1, <2>2 DEF Queued, Distinct
<1>. QED
  BY <1>6, <1>7, <1>8, <1>9

queueInvVars == <<queue, origin, promoted, what>>

LEMMA QueueInit == Init => QueueInv
<1>. SUFFICES ASSUME Init PROVE QueueInv
  OBVIOUS
<1>1. queue \in Seq(Items) /\ Len(queue) = 0 /\ Queued = {}
  BY EmptySeq DEF Init, Queued
<1>2. None \notin Items
  BY DEF None, Items
<1>. QED
  BY <1>1, <1>2 DEF Init, QueueInv, Distinct, NeverResent

LEMMA QueueComposer ==
    ASSUME QueueInv, UNCHANGED queueInvVars, composer' \in {composer, None}
    PROVE  QueueInv'
<1>1. None \notin Items
  BY DEF None, Items
<1>2. Queued' = Queued
  BY DEF queueInvVars, Queued
<1>. QED
  BY <1>1, <1>2 DEF QueueInv, queueInvVars, NeverResent, Distinct

LEMMA QueueEnter ==
    ASSUME QueueInv, Enter, UNCHANGED <<queue, origin, promoted, composer>>
    PROVE  QueueInv'
<1>1. PICK n \in Sends : what' = [what EXCEPT ![n] = composer]
  BY DEF Enter
<1>2. Queued' = Queued
  BY DEF Queued
<1>3. what' \in [Sends -> Items \cup {None}]
  BY <1>1 DEF QueueInv
<1>4. \A m \in Sends : what'[m] \in {what[m], composer}
  BY <1>1 DEF QueueInv
<1>. QED
  BY <1>2, <1>3, <1>4 DEF QueueInv, NeverResent, Distinct

\* A message leaves the queue for the composer, or for the promotion timer.
LEMMA QueueTaken ==
    ASSUME QueueInv, NEW q \in Queued,
           queue' \in Seq(Items), Distinct(queue'), Of(queue') = Queued \ {q},
           UNCHANGED <<origin, what>>,
           \/ composer' = q /\ promoted' = promoted
           \/ composer' = None /\ promoted' = q
    PROVE  QueueInv'
<1>1. Queued' = Queued \ {q}
  BY DEF Queued, Of
<1>2. q \in Items
  BY ElementOfSeq, LenProperties DEF QueueInv, Queued
<1>3. None \notin Items
  BY DEF None, Items
<1>4. Distinct(queue)'
  BY DEF Distinct
<1>5. promoted # q /\ composer # q /\ \A n \in Sends : what[n] # q
  BY <1>2 DEF QueueInv, NeverResent
<1>6. origin[q] # NoSession
  BY <1>2 DEF QueueInv
<1>7. ASSUME NEW p \in Items, origin'[p] = NoSession
      PROVE  /\ p \notin Queued' /\ promoted' # p /\ composer' # p
             /\ \A n \in Sends : what'[n] # p
  BY <1>1, <1>3, <1>6, <1>7 DEF QueueInv
<1>8. NeverResent'
  <2>. SUFFICES ASSUME NEW p \in Items, p \in Queued' \/ promoted' = p
                PROVE  /\ ~(p \in Queued' /\ promoted' = p)
                       /\ composer' # p /\ \A n \in Sends : what'[n] # p
    BY DEF NeverResent
  <2>1. CASE composer' = q /\ promoted' = promoted
    BY <1>1, <1>5, <2>1 DEF QueueInv, NeverResent
  <2>2. CASE composer' = None /\ promoted' = q
    BY <1>1, <1>3, <1>5, <2>2 DEF QueueInv, NeverResent
  <2>. QED
    BY <2>1, <2>2
<1>. QED
  BY <1>2, <1>4, <1>7, <1>8 DEF QueueInv

LEMMA QueueAdd ==
    ASSUME RegInv, QueueInv, NEW q \in Items, Enqueue(q)
    PROVE  QueueInv'
<1>1. /\ origin[q] = NoSession /\ queue' = Append(queue, q)
      /\ origin' = [origin EXCEPT ![q] = cur] /\ composer' = None
      /\ UNCHANGED <<promoted, what>>
  BY DEF Enqueue, sendVars
<1>2. cur \in Sessions /\ cur # NoSession
  BY ConstantsAssumption DEF RegInv
<1>3. queue \in Seq(Items) /\ Len(queue) \in Nat
  BY LenProperties DEF QueueInv
<1>4. /\ queue' \in Seq(Items) /\ Len(queue') = Len(queue) + 1
      /\ \A i \in 1..Len(queue) : queue'[i] = queue[i]
      /\ queue'[Len(queue) + 1] = q
  BY <1>1, <1>3, AppendProperties
<1>5. Queued' = Queued \cup {q}
  BY <1>3, <1>4 DEF Queued
<1>6. /\ q \notin Queued /\ promoted # q /\ composer # q
      /\ \A n \in Sends : what[n] # q
  BY <1>1 DEF QueueInv
<1>7. Distinct(queue)'
  <2>1. \A i \in 1..Len(queue) : queue[i] # q
    BY <1>6 DEF Queued
  <2>2. \A i \in 1..(Len(queue) + 1) : i \in 1..Len(queue) \/ i = Len(queue) + 1
    BY <1>3
  <2>. QED
    BY <1>3, <1>4, <2>1, <2>2 DEF QueueInv, Distinct
<1>8. None \notin Items
  BY DEF None, Items
<1>9. NeverResent'
  BY <1>1, <1>5, <1>6, <1>8 DEF QueueInv, NeverResent
<1>10. ASSUME NEW p \in Items, origin'[p] = NoSession
       PROVE  /\ p \notin Queued' /\ promoted' # p /\ composer' # p
              /\ \A n \in Sends : what'[n] # p
  <2>1. p # q /\ origin[p] = NoSession
    BY <1>1, <1>2, <1>10 DEF QueueInv
  <2>. QED
    BY <1>1, <1>5, <1>8, <2>1 DEF QueueInv
<1>. QED
  BY <1>1, <1>2, <1>4, <1>7, <1>9, <1>10 DEF QueueInv

LEMMA QueueStep == RegInv /\ QueueInv /\ [Next]_vars => QueueInv'
<1>. SUFFICES ASSUME RegInv, QueueInv, [Next]_vars
              PROVE  QueueInv'
  OBVIOUS
<1>1. queue \in Seq(Items) /\ Distinct(queue)
  BY DEF QueueInv
<1>2. ASSUME NEW n \in Sends,
             SendMoves(n)
      PROVE  QueueInv'
  <2>1. UNCHANGED queueInvVars /\ composer' \in {composer, None}
    BY <1>2
    DEF SendMoves, SendStep, Commit, Switched, Superseded, Register, Headers,
        StreamDone, Aborted, StreamCut, GraceOver, Release, PrepareFails, Refused,
        GivesUp, Drop, StreamFails, Caught, queueVars, sendVars, queueInvVars
  <2>. QED
    BY <2>1, QueueComposer
<1>3. ASSUME NEW n \in Sends, \/ Timeout(n) \/ Token(n) \/ RunStarts(n)
                               \/ RunEnds(n) \/ StopArrives(n)
      PROVE  QueueInv'
  BY <1>3, QueueComposer
  DEF Timeout, Token, RunStarts, RunEnds, StopArrives, sendVars, queueVars,
      queueInvVars
<1>4. CASE UserSend
  BY <1>4, QueueEnter DEF UserSend
<1>5. CASE Submit
  <2>1. UNCHANGED <<queue, origin, promoted, composer>>
    BY <1>5 DEF Submit
  <2>2. Enter \/ UNCHANGED what
    BY <1>5 DEF Submit
  <2>. QED
    BY <2>1, <2>2, QueueEnter, QueueComposer DEF queueInvVars
<1>6. CASE Stop \/ Escape \/ Recover \/ Rejoin \/ Probe
  BY <1>6, QueueComposer
  DEF Stop, Escape, Recover, Rejoin, Loaded, ResumeAnswered, Resumed,
      ProbeAnswered, Probed, Probe, sendVars, queueVars, queueInvVars
<1>7. CASE DrainFires
  <2>1. UNCHANGED <<origin, promoted, what>>
    BY <1>7 DEF DrainFires, sendVars
  <2>2. CASE ui.streaming \/ inFlight \/ queue = <<>>
    BY <1>7, <2>1, <2>2, QueueComposer DEF DrainFires, queueInvVars
  <2>3. CASE ~(ui.streaming \/ inFlight \/ queue = <<>>)
    <3>1. queue # <<>> /\ queue' = Tail(queue) /\ composer' = Head(queue)
      BY <1>7, <2>3 DEF DrainFires, SetComposerAndSend
    <3>2. /\ Head(queue) \in Queued /\ Tail(queue) \in Seq(Items)
          /\ Distinct(Tail(queue)) /\ Of(Tail(queue)) = Queued \ {Head(queue)}
      BY <1>1, <3>1, TailOfQueue
    <3>. QED
      BY <2>1, <3>1, <3>2, QueueTaken
  <2>. QED
    BY <2>2, <2>3
<1>8. CASE PromotedFires
  <2>1. /\ promoted # None /\ promoted' = None /\ composer' = promoted
        /\ UNCHANGED <<queue, origin, what>>
    BY <1>8 DEF PromotedFires, SetComposerAndSend, sendVars
  <2>2. Queued' = Queued /\ None \notin Items
    BY <2>1 DEF Queued, None, Items
  <2>3. promoted \in Items /\ promoted \notin Queued
    BY <2>1 DEF QueueInv, NeverResent
  <2>4. NeverResent'
    BY <2>1, <2>2, <2>3 DEF QueueInv, NeverResent
  <2>. QED
    BY <2>1, <2>2, <2>3, <2>4 DEF QueueInv, Distinct
<1>9. ASSUME NEW q \in Items, Enqueue(q)
      PROVE  QueueInv'
  BY <1>9, QueueAdd
<1>10. ASSUME NEW q \in Items, Promote(q)
       PROVE  QueueInv'
  <2>1. /\ q \in Queued /\ queue' = Without(q) /\ UNCHANGED <<origin, what>>
    BY <1>10 DEF Promote, sendVars
  <2>2. \/ composer' = q /\ promoted' = promoted
        \/ composer' = None /\ promoted' = q
    BY <1>10 DEF Promote, SetComposerAndSend
  <2>3. /\ Without(q) \in Seq(Items) /\ Distinct(Without(q))
        /\ Of(Without(q)) = Queued \ {q}
    BY <1>1, <2>1, WithoutOne
  <2>. QED
    BY <2>1, <2>2, <2>3, QueueTaken
<1>11. ASSUME NEW s \in Sessions, SwitchTo(s) \/ Poll(s) \/ Reselect(s) \/ ResumeEnds(s)
       PROVE  QueueInv'
  <2>1. UNCHANGED queueInvVars /\ composer' \in {composer, None}
    BY <1>11
    DEF SwitchTo, Poll, Reselect, ResumeEnds, Select, selectFrame, sendVars, queueInvVars
  <2>. QED
    BY <2>1, QueueComposer
<1>12. CASE UNCHANGED vars
  BY <1>12, QueueComposer DEF vars, sendVars, queueVars, queueInvVars
<1>. QED
  BY <1>2, <1>3, <1>4, <1>5, <1>6, <1>7, <1>8, <1>9, <1>10, <1>11, <1>12
  DEF SendMoves, Next, Timers

\* A queued message that was handed to the composer, by either timer or by the
\* click on it, no longer waits anywhere, for any number of messages.
THEOREM QueuedOnce == Spec => []NeverResent
<1>1. QueueInv => NeverResent
  BY DEF QueueInv
<1>. QED
  BY RegInit, RegStep, QueueInit, QueueStep, <1>1, PTL DEF Spec

-----------------------------------------------------------------------------
(* The gate.                                                               *)

Under == {"switching", "preparing", "posted", "reading", "refused"}
Let(n) == n \in wanted \cup aborted

\* No other chat is opened and nothing is resumed, ...
Still ==
    /\ loading = NoSession /\ polls = {} /\ reselect = {} /\ recover = NoSession
    /\ resume = NoResume /\ probe = NoProbe
    /\ \A s \in Sessions : resuming[s] = None
    /\ \A n \in Sends : pc[n] \in Under => home[n] = cur

\* ... at most one send is in its first steps, and no unstopped send is under
\* way meanwhile.
GateInv ==
    /\ gen \in [Sessions -> Sends \cup {None}]
    /\ Undisturbed =>
          /\ Still
          /\ \A m, n \in Sends : pc[m] = "entry" /\ pc[n] = "entry" => m = n
          /\ \A n \in Sends : pc[n] = "entry" =>
                inFlight /\ \A m \in Sends : Current(m) => Let(m)
          /\ \A n \in Sends : Current(n) /\ ~Let(n) => ui.streaming

LEMMA GateInit == Init => GateInv
BY DEF Init, GateInv, Still, Under, Current

LEMMA GateSame ==
    ASSUME GateInv, UNCHANGED <<cur, gen, pc, home, env, inFlight, loading, polls,
                                reselect, recover, resume, probe, resuming>>,
           wanted \subseteq wanted', aborted \subseteq aborted',
           Undisturbed => \/ ui.streaming => ui'.streaming
                          \/ \A n \in Sends : Current(n) => Let(n)'
    PROVE  GateInv'
<1>1. Undisturbed' <=> Undisturbed
  BY DEF Undisturbed
<1>2. \A n \in Sends : (Current(n)' <=> Current(n)) /\ (Let(n) => Let(n)')
  BY DEF Current, Owns, Let
<1>3. Still' <=> Still
  BY DEF Still
<1>. QED
  BY <1>1, <1>2, <1>3 DEF GateInv

\* The composer's flags keep their types.
UiType == [streaming : BOOLEAN, watching : BOOLEAN,
           holder : Sends \cup {None}, text : BOOLEAN]
UiInv == ui \in UiType

LEMMA UiInit == Init => UiInv
<1>. SUFFICES ASSUME Init PROVE UiInv
  OBVIOUS
<1>1. ui = [streaming |-> FALSE, watching |-> FALSE, holder |-> None, text |-> FALSE]
  BY DEF Init
<1>. QED
  BY <1>1 DEF UiInv, UiType

LEMMA UiHelpers ==
    ASSUME NEW u \in UiType, NEW s \in Sessions,
           NEW act \in [Sessions -> Sends \cup {None}]
    PROVE  /\ Synced(u, act, s) \in UiType /\ Idle(u) \in UiType
           /\ Cleared(u) \in UiType
<1>1. act[s] \in Sends \cup {None}
  OBVIOUS
<1>. QED
  BY <1>1 DEF UiType, Synced, Idle, Cleared

LEMMA UiFinally ==
    ASSUME RegInv, UiInv, NEW n \in Sends, NEW entries, NEW u \in UiType,
           NEW busy, Finally(n, entries, u, busy)
    PROVE  UiInv'
<1>1. Deregistered(n) \in [Sessions -> Sends \cup {None}]
  BY DEF Deregistered, RegInv
<1>2. Synced(u, Deregistered(n), cur) \in UiType
  BY <1>1, UiHelpers DEF RegInv
<1>3. Cleared(Idle(Synced(u, Deregistered(n), cur))) \in UiType
  BY <1>1, <1>2, UiHelpers DEF RegInv
<1>. QED
  BY <1>2, <1>3 DEF Finally, UiInv

LEMMA UiStep == RegInv /\ UiInv /\ [Next]_vars => UiInv'
<1>. SUFFICES ASSUME RegInv, UiInv, [Next]_vars
              PROVE  UiInv'
  OBVIOUS
<1>1. /\ ui \in UiType /\ cur \in Sessions
      /\ active \in [Sessions -> Sends \cup {None}]
  BY DEF UiInv, RegInv
<1>2. active' \in [Sessions -> Sends \cup {None}]
  BY RegStep DEF RegInv
<1>3. /\ Idle(ui) \in UiType /\ Cleared(ui) \in UiType
      /\ Cleared(Idle(ui)) \in UiType
      /\ \A s \in Sessions : Synced(ui, active, s) \in UiType
      /\ Synced(Idle(ui), active, cur) \in UiType
      /\ Idle(Synced(ui, active', cur)) \in UiType
  BY <1>1, <1>2, UiHelpers
<1>4. ASSUME NEW n \in Sends, Commit(n)
      PROVE  UiInv'
  BY <1>1, <1>4 DEF Commit, UiType, UiInv
<1>5. ASSUME NEW n \in Sends, Switched(n)
      PROVE  UiInv'
  BY <1>1, <1>3, <1>5 DEF Switched, UiInv
<1>6. ASSUME NEW n \in Sends, Register(n)
      PROVE  UiInv'
  <2>1. [ui EXCEPT !.holder = n] \in UiType
    BY <1>1 DEF UiType
  <2>. QED
    BY <1>1, <1>2, <1>6, <2>1, UiHelpers DEF Register, UiInv
<1>7. ASSUME NEW n \in Sends, NEW how, NEW r, Caught(n, how, r)
      PROVE  UiInv'
  BY <1>1, <1>7, UiFinally DEF Caught
<1>8. ASSUME NEW n \in Sends,
             \/ Superseded(n) \/ StreamDone(n) \/ Aborted(n) \/ StreamCut(n)
             \/ Drop(n) \/ StreamFails(n) \/ PrepareFails(n) \/ GivesUp(n)
      PROVE  UiInv'
  BY <1>1, <1>3, <1>7, <1>8, UiFinally
  DEF Superseded, StreamDone, Aborted, StreamCut, Drop, StreamFails, PrepareFails, GivesUp
<1>9. ASSUME NEW n \in Sends, Release(n)
      PROVE  UiInv'
  BY <1>1, <1>3, <1>9 DEF Release, UiInv
<1>10. ASSUME NEW n \in Sends, Token(n)
       PROVE  UiInv'
  <2>1. [ui EXCEPT !.text = TRUE] \in UiType
    BY <1>1 DEF UiType
  <2>. QED
    BY <1>1, <1>10, <2>1 DEF Token, UiInv
<1>11. ASSUME NEW n \in Sends, \/ Headers(n) \/ Refused(n) \/ GraceOver(n) \/ Timeout(n)
              \/ RunStarts(n) \/ RunEnds(n) \/ StopArrives(n)
       PROVE  UiInv'
  BY <1>1, <1>11
  DEF Headers, Refused, GraceOver, Timeout, RunStarts, RunEnds, StopArrives, UiInv
<1>12. CASE UserSend \/ Submit \/ Stop
  BY <1>1, <1>3, <1>12 DEF UserSend, Submit, Stop, StopBranch, Enter, UiInv
<1>13. CASE \/ Escape \/ DrainFires \/ PromotedFires \/ Recover \/ Loaded
            \/ Resumed \/ Probe
  BY <1>1, <1>13
  DEF Escape, DrainFires, PromotedFires, Recover, Loaded, Resumed, Probe, UiInv
<1>14. CASE ResumeAnswered \/ ProbeAnswered
  BY <1>1, <1>14 DEF ResumeAnswered, ProbeAnswered, UiInv
<1>15. CASE Probed
  BY <1>1, <1>3, <1>15 DEF Probed, UiInv
<1>16. ASSUME NEW q \in Items, Enqueue(q) \/ Promote(q)
       PROVE  UiInv'
  BY <1>1, <1>3, <1>16 DEF Enqueue, Promote, StopBranch, UiInv
<1>17. ASSUME NEW s \in Sessions, SwitchTo(s) \/ Poll(s) \/ Reselect(s) \/ ResumeEnds(s)
       PROVE  UiInv'
  <2>1. Idle([Synced(ui, active, s) EXCEPT !.text = FALSE]) \in UiType
    BY <1>3 DEF UiType, Idle
  <2>. QED
    BY <1>1, <1>17, <2>1 DEF SwitchTo, Poll, Reselect, ResumeEnds, Select, UiInv
<1>18. CASE UNCHANGED vars
  BY <1>1, <1>18 DEF vars, UiInv
<1>. QED
  BY <1>4, <1>5, <1>6, <1>8, <1>9, <1>10, <1>11, <1>12, <1>13, <1>14, <1>15,
     <1>16, <1>17, <1>18
  DEF Next, SendStep, Timers, Rejoin

gateVars == <<loading, polls, reselect, recover, resume, probe, resuming>>

LEMMA GateDisturbed == ASSUME GateInv, ~Undisturbed, UNCHANGED <<gen, env>>
                       PROVE  GateInv'
BY DEF GateInv, Undisturbed

\* A Stop in the open chat is for its current send.
LEMMA GateStop ==
    ASSUME RegInv, GateInv, NEW left, StopBranch(left),
           UNCHANGED <<cur, gen, pc, home, env, inFlight, gateVars>>
    PROVE  GateInv'
<1>1. wanted' = wanted \cup ({gen[cur]} \ {None}) /\ aborted \subseteq aborted'
  BY DEF StopBranch, StopExactRun, Abort
<1>2. ASSUME Undisturbed, NEW n \in Sends, Current(n)
      PROVE  Let(n)'
  <2>1. home[n] = cur /\ gen[home[n]] = n
    BY <1>2 DEF GateInv, Still, Current, Under, Owns, RegInv, Stages
  <2>. QED
    BY <1>1, <2>1, NoneIsNoSend DEF Let
<1>. QED
  BY <1>1, <1>2, GateSame DEF gateVars

LEMMA GateEnter ==
    ASSUME GateInv, Enter, ~ui.streaming, ~inFlight,
           UNCHANGED <<cur, gen, home, env, ui, wanted, aborted, gateVars>>,
           pc \in [Sends -> Stages]
    PROVE  GateInv'
<1>1. PICK n \in Sends : pc[n] = "unused" /\ pc' = [pc EXCEPT ![n] = "entry"]
  BY DEF Enter
<1>2. inFlight' /\ Undisturbed' = Undisturbed
  BY DEF Enter, Undisturbed
<1>3. \A m \in Sends : /\ m # n => pc'[m] = pc[m]
                       /\ pc'[m] \in Under <=> pc[m] \in Under
                       /\ Current(m)' <=> Current(m)
                       /\ Let(m)' <=> Let(m)
  BY <1>1 DEF Under, Current, Owns, Let
<1>4. CASE ~Undisturbed
  BY <1>4, GateDisturbed
<1>5. CASE Undisturbed
  <2>1. Still'
    BY <1>3, <1>5 DEF GateInv, Still, gateVars
  <2>2. \A m \in Sends : pc[m] # "entry" /\ (Current(m) => Let(m))
    BY <1>5 DEF GateInv
  <2>3. \A m \in Sends : pc'[m] = "entry" => m = n
    BY <1>3, <2>2
  <2>. QED
    BY <1>2, <1>3, <2>1, <2>2, <2>3 DEF GateInv
<1>. QED
  BY <1>4, <1>5

LEMMA GateFinally ==
    ASSUME RegInv, GateInv, NEW n \in Sends,
           pc[n] \in {"preparing", "posted", "reading", "refused"}, NEW entries,
           Finally(n, entries, ui, inFlight),
           UNCHANGED <<cur, home, env, wanted, loading, polls, resume, probe,
                       resuming>>,
           Undisturbed => recover' = recover /\ reselect' = reselect,
           aborted \subseteq aborted'
    PROVE  GateInv'
<1>1. /\ pc' = [pc EXCEPT ![n] = "done"] /\ inFlight' = inFlight /\ gen' = gen
      /\ ~Owns(n) => ui' = ui
  BY DEF Finally
<1>2. CASE ~Undisturbed
  BY <1>1, <1>2, GateDisturbed
<1>3. CASE Undisturbed
  <2>1. \A m \in Sends : /\ m # n => pc'[m] = pc[m]
                         /\ pc'[n] = "done"
    BY <1>1 DEF RegInv
  <2>2. \A m \in Sends : /\ Current(m)' => Current(m) /\ m # n
                         /\ Let(m) => Let(m)'
    BY <1>1, <2>1 DEF Current, Owns, Let
  <2>3. Still'
    BY <1>3, <2>1 DEF GateInv, Still, Under
  <2>4. ASSUME NEW m \in Sends, Current(m)', ~Let(m)'
        PROVE  ui'.streaming
    <3>1. m # n /\ Current(m) /\ ~Let(m)
      BY <2>2, <2>4
    <3>2. home[m] = cur /\ home[n] = cur /\ gen[home[m]] = m
      BY <1>3, <3>1 DEF GateInv, Still, Under, Current, Owns, RegInv, Stages
    <3>3. ~Owns(n)
      BY <3>1, <3>2 DEF Owns
    <3>. QED
      BY <1>1, <1>3, <3>1, <3>3 DEF GateInv
  <2>5. Undisturbed'
    BY <1>3 DEF Undisturbed
  <2>6. \A m \in Sends : pc'[m] = "entry" => pc[m] = "entry"
    BY <2>1
  <2>. QED
    BY <1>1, <1>3, <2>2, <2>3, <2>4, <2>5, <2>6 DEF GateInv
<1>. QED
  BY <1>2, <1>3

LEMMA GateCommit ==
    ASSUME RegInv, GateInv, NEW n \in Sends, Commit(n)
    PROVE  GateInv'
<1>1. /\ pc[n] = "entry" /\ pc' = [pc EXCEPT ![n] = "switching"]
      /\ home' = [home EXCEPT ![n] = cur] /\ gen' = [gen EXCEPT ![cur] = n]
      /\ ui'.streaming
      /\ UNCHANGED <<cur, env, wanted, aborted, gateVars>>
  BY DEF Commit, stopVars, navVars, world, gateVars
<1>2. gen' \in [Sessions -> Sends \cup {None}]
  BY <1>1 DEF GateInv
<1>3. Undisturbed' = Undisturbed
  BY <1>1 DEF Undisturbed
<1>4. ASSUME Undisturbed
      PROVE  Still' /\ \A m \in Sends : pc'[m] # "entry"
  <2>1. \A m \in Sends : pc'[m] = IF m = n THEN "switching" ELSE pc[m]
    BY <1>1 DEF RegInv
  <2>2. \A m \in Sends : home'[m] = IF m = n THEN cur ELSE home[m]
    BY <1>1 DEF RegInv
  <2>3. \A m \in Sends : pc[m] = "entry" => m = n
    BY <1>1, <1>4 DEF GateInv
  <2>4. Still'
    BY <1>1, <1>4, <2>1, <2>2 DEF GateInv, Still, gateVars
  <2>. QED
    BY <2>1, <2>3, <2>4
<1>. QED
  BY <1>1, <1>2, <1>3, <1>4 DEF GateInv

LEMMA GateSend ==
    ASSUME RegInv, UiInv, GateInv, NEW n \in Sends,
           SendMoves(n)
    PROVE  GateInv'
<1>1. CASE Commit(n)
  BY <1>1, GateCommit
<1>2. ASSUME UNCHANGED <<cur, gen, home, env, wanted, gateVars, inFlight>>,
             aborted \subseteq aborted', pc[n] \in Under,
             NEW st \in Under \cup {"done"}, pc' = [pc EXCEPT ![n] = st],
             Undisturbed => (ui'.streaming = ui.streaming \/ ui'.streaming)
      PROVE  GateInv'
  <2>1. CASE ~Undisturbed
    BY <1>2, <2>1, GateDisturbed
  <2>2. CASE Undisturbed
    <3>1. \A m \in Sends : /\ pc'[m] = IF m = n THEN st ELSE pc[m]
                           /\ Current(m)' => Current(m)
                           /\ Let(m) => Let(m)'
      BY <1>2 DEF RegInv, Current, Owns, Let, Under
    <3>2. Still'
      BY <1>2, <2>2, <3>1 DEF GateInv, Still, gateVars
    <3>3. Undisturbed' = Undisturbed
      BY <1>2 DEF Undisturbed
    <3>4. \A m \in Sends : pc'[m] = "entry" => pc[m] = "entry"
      BY <1>2, <3>1 DEF Under
    <3>. QED
      BY <1>2, <2>2, <3>1, <3>2, <3>3, <3>4 DEF GateInv
  <2>. QED
    BY <2>1, <2>2
<1>3. CASE Switched(n)
  <2>1. /\ UNCHANGED <<cur, gen, home, env, wanted, aborted, gateVars, inFlight>>
        /\ pc[n] \in Under /\ ui'.streaming = ui.streaming
        /\ \/ pc' = [pc EXCEPT ![n] = "done"]
           \/ pc' = [pc EXCEPT ![n] = "preparing"]
    BY <1>3
    DEF Switched, chatVars, stopVars, navVars, world, gateVars, Under, Cleared,
        UiInv, UiType
  <2>. QED
    BY <2>1, <1>2 DEF Under
<1>4. CASE Superseded(n)
  BY <1>4, GateFinally DEF Superseded, navVars, world
<1>5. CASE Register(n)
  <2>1. Undisturbed => ui'.streaming
    BY <1>5, NoneIsNoSend
    DEF Register, Synced, GateInv, Still, Under, RegInv, UiInv, UiType
  <2>. QED
    BY <1>5, <2>1, <1>2 DEF Register, stopVars, navVars, world, gateVars, Under
<1>6. CASE Headers(n)
  <2>1. aborted \subseteq aborted'
    BY <1>6 DEF Headers, Abort
  <2>. QED
    BY <1>6, <2>1, <1>2 DEF Headers, navVars, world, gateVars, Under
<1>7. CASE StreamDone(n)
  BY <1>7, GateFinally DEF StreamDone, navVars, world
<1>8. ASSUME NEW how, NEW r, Caught(n, how, r), pc[n] \in OnTheWire,
             how = "error" => ~Undisturbed
      PROVE  GateInv'
  <2>1. /\ aborted \subseteq aborted'
        /\ Undisturbed => recover' = recover /\ reselect' = reselect
    BY <1>8 DEF Caught, Abort, Undisturbed
  <2>. QED
    BY <1>8, <2>1, GateFinally DEF Caught, OnTheWire, Waiting, world
<1>9. CASE Aborted(n)
  BY <1>9, <1>8 DEF Aborted, OnTheWire
<1>10. CASE StreamCut(n)
  BY <1>10, <1>8 DEF StreamCut, OnTheWire, Waiting
<1>11. CASE Drop(n) \/ StreamFails(n)
  BY <1>11, <1>8 DEF Drop, StreamFails, OnTheWire, Waiting, Undisturbed
<1>12. CASE GraceOver(n)
  BY <1>12, GateSame
  DEF GraceOver, Abort, chatVars, sendVars, navVars, world
<1>13. CASE Release(n)
  <2>1. /\ UNCHANGED <<cur, gen, home, env, wanted, aborted, gateVars>>
        /\ pc[n] = "entry" /\ pc' = [pc EXCEPT ![n] = "done"]
    BY <1>13 DEF Release, chatVars, stopVars, navVars, world, gateVars
  <2>2. CASE ~Undisturbed
    BY <2>1, <2>2, GateDisturbed
  <2>3. CASE Undisturbed
    <3>1. \A m \in Sends : /\ pc'[m] = IF m = n THEN "done" ELSE pc[m]
                           /\ Current(m)' => Current(m)
                           /\ Let(m) <=> Let(m)'
      BY <2>1 DEF RegInv, Current, Owns, Let
    <3>2. Still'
      BY <2>1, <2>3, <3>1 DEF GateInv, Still, gateVars, Under
    <3>3. \A m \in Sends : pc'[m] # "entry" /\ (Current(m) => Let(m))
      BY <2>1, <2>3, <3>1 DEF GateInv
    <3>. QED
      BY <2>1, <2>3, <3>1, <3>2, <3>3 DEF GateInv
  <2>. QED
    BY <2>2, <2>3
<1>14. CASE PrepareFails(n)
  BY <1>14, GateDisturbed
  DEF PrepareFails, Finally, Undisturbed, world
<1>15. CASE Refused(n)
  BY <1>15, <1>2
  DEF Refused, chatVars, stopVars, navVars, world, gateVars, Under
<1>16. CASE GivesUp(n)
  BY <1>16, GateFinally DEF GivesUp, navVars, world
<1>. QED
  BY <1>1, <1>3, <1>4, <1>5, <1>6, <1>7, <1>9, <1>10, <1>11, <1>12, <1>13,
     <1>14, <1>15, <1>16 DEF SendMoves, SendStep

LEMMA GateStep == RegInv /\ UiInv /\ GateInv /\ [Next]_vars => GateInv'
<1>. SUFFICES ASSUME RegInv, UiInv, GateInv, [Next]_vars
              PROVE  GateInv'
  OBVIOUS
<1>. USE DEF gateVars
<1>1. ASSUME NEW n \in Sends,
             SendMoves(n)
      PROVE  GateInv'
  BY <1>1, GateSend
<1>2. ASSUME NEW n \in Sends, Timeout(n)
      PROVE  GateInv'
  <2>1. wanted \subseteq wanted' /\ aborted \subseteq aborted'
    BY <1>2 DEF Timeout, StopExactRun, Abort
  <2>. QED
    BY <1>2, <2>1, GateSame DEF Timeout, chatVars, sendVars, navVars, world
<1>3. ASSUME NEW n \in Sends,
             Token(n) \/ RunStarts(n) \/ RunEnds(n) \/ StopArrives(n)
      PROVE  GateInv'
  <2>1. ui'.streaming = ui.streaming
    BY <1>3 DEF Token, RunStarts, RunEnds, StopArrives, UiInv, UiType
  <2>. QED
    BY <1>3, <2>1, GateSame
    DEF Token, RunStarts, RunEnds, StopArrives, chatVars, sendVars, stopVars,
        navVars, world
<1>4. CASE UserSend
  BY <1>4, GateEnter DEF UserSend, Enter, chatVars, navVars, world, RegInv
<1>5. CASE Submit
  <2>1. UNCHANGED <<cur, gen, home, env, gateVars>>
    BY <1>5 DEF Submit, chatVars, navVars, world
  <2>2. CASE StopBranch(queue) /\ UNCHANGED <<inFlight, pc>>
    BY <2>1, <2>2, GateStop
  <2>3. CASE ~ui.streaming /\ ~inFlight /\ Enter
    BY <2>1, <2>3, GateEnter DEF Enter, RegInv
  <2>4. CASE ~ui.streaming /\ UNCHANGED <<inFlight, pc, aborted, wanted>>
    BY <2>1, <2>4, GateSame DEF GateInv, Let
  <2>. QED
    BY <1>5, <2>2, <2>3, <2>4 DEF Submit
<1>6. CASE Stop
  BY <1>6, GateStop DEF Stop, chatVars, sendVars, navVars, world
<1>7. CASE Escape \/ DrainFires \/ PromotedFires
  <2>1. aborted \subseteq aborted'
    BY <1>7 DEF Escape, DrainFires, PromotedFires, Abort, stopVars
  <2>. QED
    BY <1>7, <2>1, GateSame
    DEF Escape, DrainFires, PromotedFires, chatVars, sendVars, stopVars, navVars,
        world
<1>8. CASE \/ Recover \/ Loaded \/ ResumeAnswered \/ Resumed \/ Probe
           \/ ProbeAnswered \/ Probed
  <2>1. UNCHANGED <<gen, env>>
    BY <1>8
    DEF Recover, Loaded, ResumeAnswered, Resumed, Probe, ProbeAnswered, Probed,
        chatVars, world
  <2>2. ASSUME Undisturbed
        PROVE  FALSE
    <3>1. /\ loading = NoSession /\ recover = NoSession
          /\ resume.s = NoSession /\ resume.run = None /\ probe = NoProbe
          /\ "watchdog" \notin env
      BY <2>2 DEF GateInv, Still, NoResume, Undisturbed
    <3>2. ~Recover /\ ~Loaded /\ ~ResumeAnswered /\ ~Resumed /\ ~Probe
      BY <3>1 DEF Recover, Loaded, ResumeAnswered, Resumed, Probe
    <3>3. ~ProbeAnswered /\ ~Probed
      BY <3>1 DEF ProbeAnswered, Probed, NoProbe
    <3>. QED
      BY <1>8, <3>2, <3>3
  <2>. QED
    BY <2>1, <2>2, GateDisturbed
<1>9. ASSUME NEW q \in Items, Enqueue(q)
      PROVE  GateInv'
  BY <1>9, GateSame DEF Enqueue, chatVars, sendVars, stopVars, navVars, world
<1>10. ASSUME NEW q \in Items, Promote(q)
       PROVE  GateInv'
  <2>1. UNCHANGED <<cur, gen, pc, home, env, inFlight, gateVars>>
    BY <1>10 DEF Promote, chatVars, sendVars, navVars, world
  <2>2. \/ StopBranch(Without(q))
        \/ UNCHANGED <<ui, aborted, wanted>>
    BY <1>10 DEF Promote
  <2>. QED
    BY <2>1, <2>2, GateStop, GateSame
<1>11. ASSUME NEW s \in Sessions, SwitchTo(s) \/ Poll(s) \/ Reselect(s) \/ ResumeEnds(s)
       PROVE  GateInv'
  <2>1. UNCHANGED <<gen, env>>
    BY <1>11 DEF SwitchTo, Poll, Reselect, ResumeEnds, selectFrame, world
  <2>2. ~Undisturbed
    BY <1>11 DEF SwitchTo, Poll, Reselect, ResumeEnds, GateInv, Still, Undisturbed
  <2>. QED
    BY <2>1, <2>2, GateDisturbed
<1>12. CASE UNCHANGED vars
  BY <1>12, GateSame
  DEF vars, chatVars, sendVars, stopVars, navVars
<1>. QED
  BY <1>1, <1>2, <1>3, <1>4, <1>5, <1>6, <1>7, <1>8, <1>9, <1>10, <1>11, <1>12
  DEF SendMoves, Next, Timers, Rejoin

\* In a chat the user stays in, without the watchdog and failing uploads, the
\* composer is locked whenever an unstopped send is under way, however many
\* sends it has replaced and in whatever order those end.
THEOREM GateStaysShut == Spec => []GateHeld
<1>1. GateInv => GateHeld
  BY DEF GateInv, GateHeld, Let
<1>. QED
  BY RegInit, RegStep, UiInit, UiStep, GateInit, GateStep, <1>1, PTL DEF Spec
=============================================================================
