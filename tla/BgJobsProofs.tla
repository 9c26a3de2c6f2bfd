---------------------------- MODULE BgJobsProofs ----------------------------
(***************************************************************************)
(* Proofs about BgJobs, for every number of jobs, sessions, faults and     *)
(* turns.                                                                  *)
(***************************************************************************)
EXTENDS BgJobs, TLAPS

Recorded == [why : {"running", "exit", "timeout", "died", "killed"},
             exit : {0, 1}, followed : BOOLEAN]

Batch == [at : {"batch", "agent", "posted"}, job : Jobs \cup {NoJob},
          todo : SUBSET Jobs]

Refresh == [at : {"scan"}, by : {"reader", "kill", "monitor"},
            job : Jobs \cup {NoJob}, recs : [Jobs -> {NoRec} \cup Recorded],
            todo : SUBSET Jobs, missed : SUBSET Jobs]

Types ==
    /\ proc \in [Jobs -> {"none", "running", "writing", "gone"}]
    /\ cmd \in [Jobs -> {"none", "running", "over"}]
    /\ file \in [Jobs -> {"absent", "empty", "code"}]
    /\ code \in [Jobs -> {0, 1}] /\ overdue \in [Jobs -> BOOLEAN]
    /\ rec \in [Jobs -> {NoRec} \cup Recorded]
    /\ sessionOf \in [Jobs -> Sessions] /\ alive \subseteq Sessions
    /\ up \in BOOLEAN /\ turn \in [Sessions -> BOOLEAN]
    /\ mon \in {Idle} \cup Batch /\ scan \in {Idle} \cup Refresh
    /\ posts \in [Jobs -> Nat] /\ faults \in Nat

\* The exit file follows the wrapper, which follows the command.
Files ==
    \A j \in Jobs :
        /\ proc[j] \in {"none", "running"} => file[j] = "absent"
        /\ proc[j] = "writing" => file[j] = "empty"
        /\ file[j] # "absent" => cmd[j] = "over"

\* The record r of job j, in the store or in the copy of a refresh: what it
\* says happened, and it says followed when it should.
TrueOf(j, r) ==
    /\ r.why = "exit" =>
          cmd[j] = "over" /\ (r.exit = 0 => code[j] = 0 /\ file[j] = "code")
    /\ r.why = "died" => proc[j] = "gone" /\ file[j] = "absent"
    /\ r.why = "timeout" => overdue[j]
    /\ r # NoRec => proc[j] # "none"

FlagsOf(j, r) ==
    /\ r.why = "running" => ~r.followed /\ posts[j] = 0
    /\ r.why = "killed" => r.followed /\ posts[j] = 0
    /\ r # NoRec /\ r.followed => posts[j] > 0 \/ r.why = "killed"

Good(j, r) == TrueOf(j, r) /\ FlagsOf(j, r)

\* A refresh works on a copy, and nobody else writes the store meanwhile: the
\* copy differs from it by verdicts on jobs the store says are running.
Copy ==
    scan # Idle =>
        /\ up /\ mon.at # "posted" /\ scan.missed \subseteq scan.todo
        /\ scan.by = "monitor" => mon = Idle
        /\ scan.by = "kill" => scan.job \in Jobs
        /\ \A j \in Jobs :
            /\ Good(j, scan.recs[j])
            /\ \/ scan.recs[j] = rec[j]
               \/ /\ rec[j].why = "running"
                  /\ scan.recs[j].why \in {"exit", "timeout", "died"}
                  /\ ~scan.recs[j].followed
            /\ j \in scan.todo => rec[j].why = "running" /\ scan.recs[j] = rec[j]

\* The jobs of a batch are over and not followed up, whatever happens to the
\* store while it is worked off.
Collected ==
    mon # Idle =>
        /\ \A j \in mon.todo : Finished(rec[j]) /\ ~rec[j].followed
        /\ mon.at = "batch" => mon.job = NoJob
        /\ mon.at # "batch" => mon.job \in mon.todo
        /\ mon.at = "posted" => posts[mon.job] > 0

\* A death of the server, or a write that fails, allows one more continuation.
Counted ==
    \A j \in Jobs :
        /\ posts[j] > 0 => proc[j] # "none"
        /\ \/ posts[j] <= faults
           \/ /\ posts[j] = 1 + faults
              /\ \/ rec[j] = NoRec
                 \/ rec[j].followed
                 \/ mon.at = "posted" /\ mon.job = j

BgInv ==
    /\ Types /\ Files /\ (\A j \in Jobs : Good(j, rec[j]))
    /\ Copy /\ Collected /\ Counted

LEMMA BgInit == Init => BgInv
BY DEF Init, BgInv, Types, Files, Good, TrueOf, FlagsOf, Copy, Collected, Counted,
       Idle, NoRec, Finished

-----------------------------------------------------------------------------
(* The process.                                                            *)

\* Whatever a process and the clock do, what is recorded of it stays true.
LEMMA TruthOfProcess ==
    ASSUME BgInv, NEW j \in Jobs, ProcessStep(j) \/ TimePasses(j)
    PROVE  /\ Files' /\ UNCHANGED <<rec, scan, mon, posts, faults>>
           /\ proc' \in [Jobs -> {"none", "running", "writing", "gone"}]
           /\ cmd' \in [Jobs -> {"none", "running", "over"}]
           /\ file' \in [Jobs -> {"absent", "empty", "code"}]
           /\ code' \in [Jobs -> {0, 1}] /\ overdue' \in [Jobs -> BOOLEAN]
           /\ \A i \in Jobs :
                 /\ proc'[i] = "none" <=> proc[i] = "none"
                 /\ cmd[i] = "over" => cmd'[i] = "over" /\ code'[i] = code[i]
                 /\ file[i] = "code" => file'[i] = "code"
                 /\ proc[i] = "gone" => proc'[i] = "gone" /\ file'[i] = file[i]
                 /\ overdue[i] => overdue'[i]
<1>1. CASE \E c \in {0, 1} : CommandEnds(j, c)
  BY <1>1 DEF CommandEnds, BgInv, Types, Files, storeVars, serverVars, chatVars
<1>2. CASE OpensFile(j)
  BY <1>2 DEF OpensFile, BgInv, Types, Files, storeVars, serverVars, chatVars
<1>3. CASE WritesCode(j)
  BY <1>3 DEF WritesCode, BgInv, Types, Files, storeVars, serverVars, chatVars
<1>4. CASE Vanishes(j)
  BY <1>4 DEF Vanishes, BgInv, Types, Files, storeVars, serverVars, chatVars
<1>5. CASE TimePasses(j)
  BY <1>5 DEF TimePasses, BgInv, Types, Files, storeVars, serverVars, chatVars
<1>. QED
  BY <1>1, <1>2, <1>3, <1>4, <1>5 DEF ProcessStep

LEMMA StaysGood ==
    ASSUME BgInv, NEW j \in Jobs, ProcessStep(j) \/ TimePasses(j),
           NEW i \in Jobs, NEW r, Good(i, r)
    PROVE  /\ r.why = "exit" =>
                 cmd'[i] = "over" /\ (r.exit = 0 => code'[i] = 0 /\ file'[i] = "code")
           /\ r.why = "died" => proc'[i] = "gone" /\ file'[i] = "absent"
           /\ r.why = "timeout" => overdue'[i]
           /\ r # NoRec => proc'[i] # "none"
BY TruthOfProcess DEF Good, TrueOf

LEMMA BgProcess ==
    ASSUME BgInv, NEW j \in Jobs, ProcessStep(j) \/ TimePasses(j)
    PROVE  BgInv'
<1>. USE TruthOfProcess
<1>1. UNCHANGED <<sessionOf, alive, up, turn>>
  BY DEF ProcessStep, CommandEnds, OpensFile, WritesCode, Vanishes, TimePasses,
         storeVars, serverVars, userVars
<1>2. Types'
  BY <1>1 DEF BgInv, Types
<1>3. \A i \in Jobs : Good(i, rec[i])'
  <2>1. ASSUME NEW i \in Jobs PROVE Good(i, rec[i])'
    <3>1. Good(i, rec[i])
      BY DEF BgInv
    <3>. QED
      BY <3>1, StaysGood DEF Good, TrueOf, FlagsOf
  <2>. QED
    BY <2>1
<1>4. Copy'
  <2>1. ASSUME scan # Idle, NEW i \in Jobs PROVE Good(i, scan.recs[i])'
    <3>1. Good(i, scan.recs[i])
      BY <2>1 DEF BgInv, Copy
    <3>. QED
      BY <3>1, StaysGood DEF Good, TrueOf, FlagsOf
  <2>. QED
    BY <1>1, <2>1 DEF BgInv, Copy
<1>5. Collected' /\ Counted'
  BY DEF BgInv, Collected, Counted
<1>. QED
  BY <1>2, <1>3, <1>4, <1>5 DEF BgInv

\* A job is launched under an id no process had, and recorded or not.
LEMMA Launched ==
    ASSUME BgInv, NEW j \in Jobs, Launch(j)
    PROVE  /\ proc[j] = "none" /\ rec[j] = NoRec /\ scan = Idle
           /\ posts[j] = 0 /\ file[j] = "absent"
           /\ proc' = [proc EXCEPT ![j] = "running"]
           /\ cmd' = [cmd EXCEPT ![j] = "running"]
           /\ \/ rec' = [rec EXCEPT ![j] = Running] /\ faults' = faults
              \/ rec' = rec /\ faults' = faults + 1
           /\ UNCHANGED <<file, code, overdue, sessionOf, alive, up, turn, scan, mon, posts>>
<1>1. proc[j] = "none" /\ rec[j] = NoRec /\ posts[j] = 0 /\ file[j] = "absent"
  BY DEF Launch, BgInv, Types, Files, Good, TrueOf, Counted
<1>. QED
  BY <1>1 DEF Launch, Free, serverVars, userVars, chatVars

LEMMA BgLaunch ==
    ASSUME BgInv, NEW j \in Jobs, Launch(j)
    PROVE  BgInv'
<1>. USE Launched
<1>1. Types'
  <2>1. /\ proc' \in [Jobs -> {"none", "running", "writing", "gone"}]
        /\ cmd' \in [Jobs -> {"none", "running", "over"}]
    BY DEF BgInv, Types
  <2>2. rec' \in [Jobs -> {NoRec} \cup Recorded] /\ faults' \in Nat
    <3>1. Running \in Recorded
      BY DEF Running, Recorded
    <3>2. rec \in [Jobs -> {NoRec} \cup Recorded] /\ faults \in Nat
      BY DEF BgInv, Types
    <3>. QED
      BY <3>1, <3>2
  <2>. QED
    BY <2>1, <2>2 DEF BgInv, Types
<1>2. Files'
  BY DEF BgInv, Types, Files
<1>3. \A i \in Jobs : Good(i, rec[i])'
  <2>1. Good(j, rec[j])'
    <3>1. rec'[j] \in {NoRec, Running} /\ proc'[j] = "running"
      BY DEF BgInv, Types
    <3>. QED
      BY <3>1 DEF Good, TrueOf, FlagsOf, NoRec, Running
  <2>2. ASSUME NEW i \in Jobs, i # j PROVE Good(i, rec[i])'
    <3>1. rec'[i] = rec[i] /\ proc'[i] = proc[i] /\ cmd'[i] = cmd[i] /\ Good(i, rec[i])
      BY <2>2 DEF BgInv, Types
    <3>. QED
      BY <3>1 DEF Good, TrueOf, FlagsOf
  <2>. QED
    BY <2>1, <2>2
<1>4. Copy'
  BY DEF Copy
<1>5. Collected'
  <2>1. \A i \in Jobs : i # j => rec'[i] = rec[i]
    BY DEF BgInv, Types
  <2>2. mon # Idle => mon.todo \subseteq Jobs /\ j \notin mon.todo
    BY DEF BgInv, Types, Batch, Collected, Finished, NoRec
  <2>. QED
    BY <2>1, <2>2 DEF BgInv, Collected
<1>6. Counted'
  <2>1. \A i \in Jobs : posts'[i] > 0 => proc'[i] # "none"
    BY DEF BgInv, Types, Counted
  <2>2. posts'[j] <= faults'
    BY DEF BgInv, Types
  <2>3. ASSUME NEW i \in Jobs, i # j
        PROVE  \/ posts'[i] <= faults'
               \/ /\ posts'[i] = 1 + faults'
                  /\ rec'[i] = NoRec \/ rec'[i].followed \/ (mon'.at = "posted" /\ mon'.job = i)
    <3>1. rec'[i] = rec[i]
      BY <2>3 DEF BgInv, Types
    <3>. QED
      BY <3>1 DEF BgInv, Types, Counted
  <2>. QED
    BY <2>1, <2>2, <2>3 DEF Counted
<1>. QED
  BY <1>1, <1>2, <1>3, <1>4, <1>5, <1>6 DEF BgInv

-----------------------------------------------------------------------------
(* The refresh.                                                            *)

LEMMA BgScan ==
    ASSUME BgInv, NEW by \in {"reader", "kill", "monitor"}, NEW j \in Jobs \cup {NoJob},
           by = "kill" => j \in Jobs, by = "monitor" => mon = Idle,
           Free, scan' = Scan(by, j), UNCHANGED <<procVars, storeVars, up, mon, userVars, chatVars, faults>>
    PROVE  BgInv'
<1>1. UNCHANGED <<proc, cmd, file, code, overdue, rec, sessionOf, alive, up, turn, mon, posts, faults>>
  BY DEF procVars, storeVars, userVars, chatVars
<1>2. /\ scan' \in Refresh /\ scan'.recs = rec /\ scan'.missed = {} /\ scan'.by = by
      /\ scan'.job = j /\ scan'.todo = {i \in Jobs : rec[i].why = "running"}
  BY DEF Scan, Refresh, BgInv, Types
<1>3. Types' /\ Files' /\ Collected' /\ Counted'
  BY <1>1, <1>2 DEF BgInv, Types, Files, Collected, Counted
<1>4. \A i \in Jobs : Good(i, rec[i])'
  BY <1>1 DEF BgInv, Good, TrueOf, FlagsOf
<1>5. Copy'
  <2>1. \A i \in Jobs : Good(i, scan.recs[i])'
    BY <1>1, <1>2 DEF BgInv, Good, TrueOf, FlagsOf
  <2>. QED
    BY <1>1, <1>2, <2>1 DEF Copy, Free
<1>. QED
  BY <1>3, <1>4, <1>5 DEF BgInv

LEMMA ScanFacts ==
    ASSUME BgInv, scan # Idle
    PROVE  /\ scan \in Refresh /\ up /\ mon.at # "posted"
           /\ \A j \in Jobs : Good(j, scan.recs[j]) /\ Good(j, rec[j])
           /\ \A j \in Jobs : scan.recs[j] \in {NoRec} \cup Recorded
BY DEF BgInv, Types, Copy, Refresh

\* A verdict that is true now, on a job that is still to be looked at.
LEMMA BgVerdict ==
    ASSUME BgInv, scan # Idle, NEW j \in scan.todo,
           NEW why \in {"exit", "timeout", "died"}, NEW exit \in {0, 1},
           Verdict(j, why, exit),
           why = "exit" =>
              cmd[j] = "over" /\ (exit = 0 => code[j] = 0 /\ file[j] = "code"),
           why = "died" => proc[j] = "gone" /\ file[j] = "absent",
           why = "timeout" => overdue[j],
           UNCHANGED <<procVars, storeVars, up, mon, userVars, chatVars, faults>>
    PROVE  BgInv'
<1>. DEFINE r == [scan.recs[j] EXCEPT !.why = why, !.exit = exit]
<1>1. UNCHANGED <<proc, cmd, file, code, overdue, rec, sessionOf, alive, up, turn, mon, posts, faults>>
  BY DEF procVars, storeVars, userVars, chatVars
<1>2. j \in Jobs /\ rec[j].why = "running" /\ scan.recs[j] = rec[j]
  BY DEF BgInv, Types, Copy, Refresh
<1>3. scan \in Refresh /\ rec[j] \in Recorded
  BY <1>2, ScanFacts DEF BgInv, Types, NoRec
<1>4. /\ r \in Recorded /\ r.why = why /\ r.exit = exit /\ ~r.followed
      /\ posts[j] = 0 /\ proc[j] # "none"
  <2>1. ~rec[j].followed /\ posts[j] = 0 /\ proc[j] # "none"
    BY <1>2 DEF BgInv, Good, TrueOf, FlagsOf, NoRec
  <2>. QED
    BY <1>2, <1>3, <2>1 DEF Recorded
<1>5. /\ scan' \in Refresh /\ scan' # Idle
      /\ scan'.recs = [scan.recs EXCEPT ![j] = r]
      /\ scan'.todo = scan.todo \ {j} /\ scan'.missed = scan.missed \ {j}
      /\ scan'.by = scan.by /\ scan'.job = scan.job
  <2>1. scan' = [scan EXCEPT !.recs = [scan.recs EXCEPT ![j] = r],
                             !.todo = scan.todo \ {j}, !.missed = scan.missed \ {j}]
    BY <1>2, <1>3 DEF Verdict, Refresh
  <2>2. [scan.recs EXCEPT ![j] = r] \in [Jobs -> {NoRec} \cup Recorded]
    BY <1>3, <1>4 DEF Refresh
  <2>. QED
    BY <2>1, <2>2, <1>3 DEF Refresh, Idle
<1>. HIDE DEF r
<1>6. Types' /\ Collected'
  BY <1>1, <1>5 DEF BgInv, Types, Collected
<1>7. Files'
  BY <1>1, <1>2 DEF BgInv, Types, Files
<1>8. Counted'
  BY <1>1, <1>2, <1>4 DEF BgInv, Types, Counted
<1>9. \A i \in Jobs : Good(i, rec[i])'
  <2>1. \A i \in Jobs \ {j} : Good(i, rec[i])'
    BY <1>1 DEF BgInv, Good, TrueOf, FlagsOf
  <2>2. Good(j, rec[j])'
    BY <1>1, <1>2, <1>3, <1>4 DEF BgInv, Good, TrueOf, FlagsOf, Finished, NoRec
  <2>. QED
    BY <2>1, <2>2
<1>10. Copy'
  <2>1. \A i \in Jobs \ {j} : scan'.recs[i] = scan.recs[i] /\ Good(i, scan.recs[i])'
    BY <1>1, <1>2, <1>3, <1>5, ScanFacts DEF Good, TrueOf, FlagsOf, Refresh
  <2>2. scan'.recs[j] = r
    BY <1>2, <1>3, <1>5 DEF Refresh
  <2>3. Good(j, scan.recs[j])'
    BY <1>1, <1>4, <2>2 DEF Good, TrueOf, FlagsOf, Finished, NoRec, Recorded
  <2>. QED
    BY <1>1, <1>2, <1>4, <1>5, <2>1, <2>2, <2>3 DEF BgInv, Copy
<1>. QED
  BY <1>6, <1>7, <1>8, <1>9, <1>10 DEF BgInv

\* A look without a verdict.
LEMMA BgPassed ==
    ASSUME BgInv, scan # Idle, NEW todo, NEW missed,
           todo \subseteq scan.todo, missed \subseteq todo,
           scan' = [scan EXCEPT !.todo = todo, !.missed = missed],
           UNCHANGED <<procVars, storeVars, up, mon, userVars, chatVars, faults>>
    PROVE  BgInv'
<1>1. UNCHANGED <<proc, cmd, file, code, overdue, rec, sessionOf, alive, up, turn, mon, posts, faults>>
  BY DEF procVars, storeVars, userVars, chatVars
<1>2. scan \in Refresh
  BY ScanFacts
<1>3. /\ scan' \in Refresh /\ scan'.recs = scan.recs /\ scan'.by = scan.by
      /\ scan'.todo = todo /\ scan'.missed = missed /\ scan'.job = scan.job
  BY <1>2 DEF Refresh
<1>4. Types' /\ Files' /\ Collected' /\ Counted'
  BY <1>1, <1>3 DEF BgInv, Types, Files, Collected, Counted
<1>5. \A i \in Jobs : Good(i, rec[i])' /\ Good(i, scan.recs[i])'
  BY <1>1, <1>3, ScanFacts DEF Good, TrueOf, FlagsOf
<1>6. Copy'
  BY <1>1, <1>3, <1>5 DEF BgInv, Copy
<1>. QED
  BY <1>4, <1>5, <1>6 DEF BgInv

LEMMA BgLook ==
    ASSUME BgInv, NEW j \in Jobs, Look(j) \/ Probe(j)
    PROVE  BgInv'
<1>0. scan # Idle /\ scan \in Refresh /\ scan.missed \subseteq scan.todo
  BY ScanFacts DEF Look, Probe, BgInv, Copy
<1>1. j \in scan.todo /\ rec[j].why = "running" /\ rec[j] # NoRec
  <2>1. j \in scan.todo
    BY <1>0 DEF Look, Probe
  <2>. QED
    BY <1>0, <2>1 DEF BgInv, Copy, NoRec
<1>2. UNCHANGED <<procVars, storeVars, up, mon, userVars, chatVars, faults>>
  BY DEF Look, Probe
<1>3. CASE file[j] # "absent" /\ Verdict(j, "exit", ReadCode(j))
  <2>1. cmd[j] = "over"
    BY <1>3, <1>1 DEF BgInv, Files
  <2>2. ReadCode(j) \in {0, 1} /\ (ReadCode(j) = 0 => code[j] = 0 /\ file[j] = "code")
    BY <1>3 DEF ReadCode, BgInv, Types
  <2>. QED
    BY <1>0, <1>1, <1>2, <1>3, <2>1, <2>2, BgVerdict
<1>4. CASE overdue[j] /\ Verdict(j, "timeout", 1)
  BY <1>0, <1>1, <1>2, <1>4, BgVerdict
<1>5. CASE Died(j) /\ Verdict(j, "died", 1)
  BY <1>0, <1>1, <1>2, <1>5, BgVerdict DEF Died
<1>6. CASE scan' = [scan EXCEPT !.missed = @ \cup {j}]
  <2>1. scan' = [scan EXCEPT !.todo = scan.todo, !.missed = scan.missed \cup {j}]
    BY <1>0, <1>6 DEF Refresh
  <2>2. scan.missed \cup {j} \subseteq scan.todo
    BY <1>0, <1>1
  <2>. QED
    BY <1>0, <1>2, <2>1, <2>2, BgPassed
<1>7. CASE scan' = [scan EXCEPT !.todo = @ \ {j}, !.missed = @ \ {j}]
  <2>1. scan' = [scan EXCEPT !.todo = scan.todo \ {j}, !.missed = scan.missed \ {j}]
    BY <1>0, <1>7 DEF Refresh
  <2>2. /\ scan.todo \ {j} \subseteq scan.todo
        /\ scan.missed \ {j} \subseteq scan.todo \ {j}
    BY <1>0
  <2>. QED
    BY <1>0, <1>2, <2>1, <2>2, BgPassed
<1>. QED
  BY <1>3, <1>4, <1>5, <1>6, <1>7 DEF Look, Probe

\* What a refresh saves, or fails to save: every record is the store's, the
\* copy's, dropped, or killed.
LEMMA Saved ==
    ASSUME BgInv, ScanDone \/ SaveFails
    PROVE  /\ scan # Idle /\ scan' = Idle /\ faults' \in {faults, faults + 1}
           /\ UNCHANGED <<proc, cmd, file, code, overdue, sessionOf, alive, up, turn, posts>>
           /\ rec' \in [Jobs -> {NoRec} \cup Recorded]
           /\ \A j \in Jobs :
                \/ rec'[j] = rec[j]
                \/ rec'[j] = scan.recs[j]
                \/ rec'[j] = NoRec /\ Prunable(scan.recs[j])
                \/ rec'[j] = KilledRec(scan.recs[j]) /\ Stops(scan.recs[j])
           /\ \/ mon' = mon
              \/ /\ mon = Idle
                 /\ mon' = [at |-> "batch", job |-> NoJob,
                            todo |-> {j \in Jobs : Finished(rec'[j]) /\ ~rec'[j].followed}]
<1>1. /\ scan # Idle /\ scan' = Idle /\ faults' \in {faults, faults + 1}
      /\ UNCHANGED <<proc, cmd, file, code, overdue, sessionOf, alive, up, turn, posts>>
  BY DEF ScanDone, SaveFails, procVars, userVars, chatVars
<1>2. /\ scan \in Refresh /\ \A j \in Jobs : scan.recs[j] \in {NoRec} \cup Recorded
      /\ rec \in [Jobs -> {NoRec} \cup Recorded]
  BY <1>1, ScanFacts DEF BgInv, Types
<1>3. \A j \in Kills : Stops(scan.recs[j])
  BY DEF Kills
<1>4. ASSUME NEW old \in Olds, NEW j \in Jobs
      PROVE  /\ Kept(old)[j] \in {NoRec} \cup Recorded
             /\ \/ Kept(old)[j] = scan.recs[j]
                \/ Kept(old)[j] = NoRec /\ Prunable(scan.recs[j])
  BY <1>2 DEF Kept, Olds
<1>5. \A j \in Jobs : Stops(scan.recs[j]) => KilledRec(scan.recs[j]) \in Recorded
  <2>. SUFFICES ASSUME NEW j \in Jobs, Stops(scan.recs[j])
                PROVE  KilledRec(scan.recs[j]) \in Recorded
    OBVIOUS
  <2>1. scan.recs[j] \in Recorded
    BY <1>2 DEF Stops, NoRec
  <2>. QED
    BY <2>1 DEF KilledRec, Recorded
<1>6. CASE ScanDone
  <2>1. PICK old \in Olds :
          rec' = [j \in Jobs |-> IF j \in Kills THEN KilledRec(scan.recs[j]) ELSE Kept(old)[j]]
    BY <1>6 DEF ScanDone
  <2>2. \A j \in Jobs : \/ rec'[j] = KilledRec(scan.recs[j]) /\ Stops(scan.recs[j])
                        \/ rec'[j] = Kept(old)[j]
    BY <1>3, <2>1
  <2>3. rec' \in [Jobs -> {NoRec} \cup Recorded]
    <3>1. \A j \in Jobs : rec'[j] \in {NoRec} \cup Recorded
      BY <1>4, <1>5, <2>2
    <3>. QED
      BY <2>1, <3>1
  <2>4. \/ mon' = mon
        \/ /\ mon = Idle
           /\ mon' = [at |-> "batch", job |-> NoJob,
                      todo |-> {j \in Jobs : Finished(rec'[j]) /\ ~rec'[j].followed}]
    BY <1>1, <1>6 DEF ScanDone, BgInv, Copy
  <2>. QED
    BY <1>1, <1>4, <2>2, <2>3, <2>4
<1>7. CASE SaveFails
  <2>1. PICK old \in Olds : rec' = rec \/ rec' = Kept(old)
    BY <1>7 DEF SaveFails
  <2>2. Kept(old) \in [Jobs -> {NoRec} \cup Recorded]
    <3>1. \A j \in Jobs : Kept(old)[j] \in {NoRec} \cup Recorded
      BY <1>4
    <3>. QED
      BY <3>1 DEF Kept
  <2>3. mon' = mon
    BY <1>7 DEF SaveFails
  <2>. QED
    BY <1>1, <1>2, <1>4, <2>1, <2>2, <2>3
<1>. QED
  BY <1>6, <1>7

LEMMA BgScanDone ==
    ASSUME BgInv, ScanDone \/ SaveFails
    PROVE  BgInv'
<1>1. scan # Idle /\ mon.at # "posted"
  BY Saved, ScanFacts
<1>2. \A j \in Jobs : /\ Good(j, scan.recs[j])
                      /\ rec[j].why # "running" => scan.recs[j] = rec[j]
                      /\ scan.recs[j] \in {NoRec} \cup Recorded
  BY <1>1, ScanFacts DEF BgInv, Copy
<1>3. \A j \in Jobs : Finished(rec[j]) /\ ~rec[j].followed => rec'[j] = rec[j]
  BY <1>2, Saved DEF Finished, Prunable, Stops
<1>4. \A j \in Jobs : rec[j] = NoRec => rec'[j] = NoRec
  BY <1>2, Saved DEF Prunable, Stops, Finished, NoRec
<1>5. \A j \in Jobs : rec[j] # NoRec /\ rec[j].followed =>
        rec'[j] = NoRec \/ rec'[j].followed
  <2>. SUFFICES ASSUME NEW j \in Jobs, rec[j] # NoRec, rec[j].followed
                PROVE  rec'[j] = NoRec \/ rec'[j].followed
    OBVIOUS
  <2>1. rec[j].why # "running"
    BY DEF BgInv, Good, FlagsOf
  <2>2. scan.recs[j] = rec[j]
    BY <1>2, <2>1
  <2>. QED
    BY <2>1, <2>2, Saved DEF Stops
<1>6. Types'
  <2>1. mon' \in {Idle} \cup Batch
    BY Saved DEF BgInv, Types, Batch
  <2>. QED
    BY <2>1, Saved DEF BgInv, Types
<1>7. Files'
  BY Saved DEF BgInv, Files
<1>8. \A j \in Jobs : Good(j, rec[j])'
  <2>. SUFFICES ASSUME NEW j \in Jobs
                PROVE  Good(j, rec[j])'
    OBVIOUS
  <2>1. CASE rec'[j] \in {rec[j], scan.recs[j]}
    <3>1. Good(j, rec'[j])
      BY <1>2, <2>1 DEF BgInv
    <3>. QED
      BY <3>1, Saved DEF Good, TrueOf, FlagsOf
  <2>2. CASE rec'[j] = NoRec
    BY <2>2 DEF Good, TrueOf, FlagsOf, NoRec
  <2>3. CASE rec'[j] = KilledRec(scan.recs[j]) /\ Stops(scan.recs[j])
    <3>1. posts'[j] = 0
      BY <1>2, <2>3, Saved DEF Good, FlagsOf, Stops
    <3>2. rec'[j].why = "killed" /\ rec'[j].followed
      BY <1>2, <2>3 DEF Recorded, KilledRec, Stops, NoRec
    <3>3. proc'[j] # "none"
      BY <1>2, <2>3, Saved DEF Good, TrueOf, Stops, NoRec
    <3>. QED
      BY <3>1, <3>2, <3>3 DEF Good, TrueOf, FlagsOf
  <2>. QED
    BY <2>1, <2>2, <2>3, Saved
<1>9. Copy'
  BY Saved DEF Copy
<1>10. Collected'
  BY <1>3, Saved DEF BgInv, Types, Batch, Collected, Idle
<1>11. Counted'
  <2>. SUFFICES ASSUME NEW j \in Jobs
                PROVE  /\ posts'[j] > 0 => proc'[j] # "none"
                       /\ \/ posts'[j] <= faults'
                          \/ /\ posts'[j] = 1 + faults'
                             /\ rec'[j] = NoRec \/ rec'[j].followed
    BY DEF Counted
  <2>1. posts[j] > 0 => proc[j] # "none"
    BY DEF BgInv, Counted
  <2>2. \/ posts[j] <= faults
        \/ /\ posts[j] = 1 + faults
           /\ rec[j] = NoRec \/ rec[j].followed
    BY <1>1 DEF BgInv, Counted
  <2>. QED
    BY <1>4, <1>5, <2>1, <2>2, Saved DEF BgInv, Types
<1>. QED
  BY <1>6, <1>7, <1>8, <1>9, <1>10, <1>11 DEF BgInv

-----------------------------------------------------------------------------
(* The monitor.                                                            *)

LEMMA MonType == BgInv => mon \in {Idle} \cup Batch
BY DEF BgInv, Types

\* The monitor moves on without writing anything.
LEMMA BgMonMove ==
    ASSUME BgInv, Free, mon' \in {Idle} \cup Batch,
           mon' # Idle => /\ mon # Idle /\ mon'.todo \subseteq mon.todo
                          /\ \/ mon'.at = "batch" /\ mon'.job = NoJob
                             \/ mon'.at = "agent" /\ mon'.job \in mon'.todo,
           UNCHANGED <<procVars, storeVars, up, scan, userVars, chatVars, faults>>
    PROVE  BgInv'
<1>1. /\ scan = Idle /\ mon.at # "posted"
      /\ UNCHANGED <<proc, cmd, file, code, overdue, rec, sessionOf, alive, up, turn, scan, posts, faults>>
  BY DEF Free, procVars, storeVars, userVars, chatVars
<1>2. Types' /\ Files' /\ Copy'
  BY <1>1 DEF BgInv, Types, Files, Copy
<1>3. \A j \in Jobs : Good(j, rec[j])'
  BY <1>1 DEF BgInv, Good, TrueOf, FlagsOf
<1>4. Collected'
  BY <1>1 DEF BgInv, Collected
<1>5. Counted'
  BY <1>1 DEF BgInv, Counted
<1>. QED
  BY <1>2, <1>3, <1>4, <1>5 DEF BgInv

LEMMA BgSkips ==
    ASSUME BgInv, NEW j \in Jobs, PutOff(j) \/ (AgentFails /\ mon.job = j)
    PROVE  BgInv'
<1>1. /\ Free /\ mon.at \in {"batch", "agent"} /\ mon' = Skipped(j)
      /\ UNCHANGED <<procVars, storeVars, up, scan, userVars, chatVars, faults>>
  BY DEF PutOff, AgentFails
<1>2. mon \in Batch
  BY <1>1, MonType DEF Idle
<1>3. /\ mon' \in Batch /\ mon'.todo \subseteq mon.todo
      /\ mon'.at = "batch" /\ mon'.job = NoJob
  BY <1>1, <1>2 DEF Skipped, Batch
<1>4. mon # Idle
  BY <1>1 DEF Idle
<1>. QED
  BY <1>1, <1>3, <1>4, BgMonMove

LEMMA BgReinvoke ==
    ASSUME BgInv, NEW j \in Jobs, Reinvoke(j)
    PROVE  BgInv'
<1>1. /\ Free /\ mon.at = "batch" /\ j \in mon.todo
      /\ mon' = [mon EXCEPT !.at = "agent", !.job = j]
      /\ UNCHANGED <<procVars, storeVars, up, scan, userVars, chatVars, faults>>
  BY DEF Reinvoke
<1>2. mon \in Batch /\ mon # Idle
  BY <1>1, MonType DEF Idle
<1>3. mon' \in Batch /\ mon'.todo = mon.todo /\ mon'.at = "agent" /\ mon'.job = j
  BY <1>1, <1>2 DEF Batch
<1>. QED
  BY <1>1, <1>2, <1>3, BgMonMove

\* The job whose continuation is being written: over, and not yet followed up.
LEMMA Current ==
    ASSUME BgInv, mon.at \in {"agent", "posted"}
    PROVE  /\ mon \in Batch /\ mon # Idle /\ mon.job \in Jobs /\ mon.job \in mon.todo
           /\ rec[mon.job] \in Recorded /\ Finished(rec[mon.job])
           /\ ~rec[mon.job].followed /\ rec[mon.job].why # "killed"
           /\ proc[mon.job] # "none"
<1>1. mon \in Batch /\ mon # Idle
  BY MonType DEF Idle
<1>2. mon.job \in Jobs /\ mon.job \in mon.todo
  BY <1>1 DEF BgInv, Collected, Batch
<1>3. Finished(rec[mon.job]) /\ ~rec[mon.job].followed
  BY <1>1, <1>2 DEF BgInv, Collected
<1>4. rec[mon.job] \in Recorded /\ rec[mon.job] # NoRec
  BY <1>2, <1>3 DEF BgInv, Types, Finished, NoRec
<1>5. proc[mon.job] # "none" /\ rec[mon.job].why # "killed"
  BY <1>2, <1>3, <1>4 DEF BgInv, Good, TrueOf, FlagsOf
<1>. QED
  BY <1>1, <1>2, <1>3, <1>4, <1>5

LEMMA BgPost ==
    ASSUME BgInv, Post
    PROVE  BgInv'
<1>0. PICK k : k = mon.job
  OBVIOUS
<1>1. /\ scan = Idle /\ mon.at = "agent"
      /\ mon' = [mon EXCEPT !.at = "posted"] /\ posts' = [posts EXCEPT ![k] = @ + 1]
      /\ UNCHANGED <<proc, cmd, file, code, overdue, rec, sessionOf, alive, up, turn, scan, faults>>
  BY <1>0 DEF Post, Free, procVars, storeVars, userVars
<1>2. /\ mon \in Batch /\ mon # Idle /\ k \in Jobs /\ k \in mon.todo
      /\ rec[k] \in Recorded /\ Finished(rec[k])
      /\ ~rec[k].followed /\ rec[k].why # "killed" /\ proc[k] # "none"
  BY <1>0, <1>1, Current
<1>3. mon' \in Batch /\ mon'.todo = mon.todo /\ mon'.at = "posted" /\ mon'.job = k
  BY <1>0, <1>1, <1>2 DEF Batch
<1>4. posts \in [Jobs -> Nat] /\ faults \in Nat
  BY DEF BgInv, Types
<1>5. posts'[k] = posts[k] + 1 /\ \A j \in Jobs : j # k => posts'[j] = posts[j]
  BY <1>1, <1>2, <1>4
<1>6. Types'
  BY <1>1, <1>2, <1>3, <1>4 DEF BgInv, Types
<1>7. Files' /\ Copy'
  BY <1>1 DEF BgInv, Files, Copy
<1>8. \A j \in Jobs : Good(j, rec[j])'
  <2>1. \A j \in Jobs \ {k} : Good(j, rec[j])'
    BY <1>1, <1>5 DEF BgInv, Good, TrueOf, FlagsOf
  <2>2. TrueOf(k, rec[k])'
    BY <1>1, <1>2 DEF BgInv, Good, TrueOf
  <2>3. FlagsOf(k, rec[k])'
    BY <1>1, <1>2 DEF FlagsOf, Finished
  <2>. QED
    BY <2>1, <2>2, <2>3 DEF Good
<1>9. Collected'
  BY <1>0, <1>1, <1>2, <1>3, <1>4, <1>5 DEF BgInv, Collected
<1>10. Counted'
  <2>1. posts[k] <= faults
    BY <1>1, <1>2 DEF BgInv, Counted, Finished, NoRec
  <2>2. posts'[k] <= faults' \/ posts'[k] = 1 + faults'
    BY <1>1, <1>2, <1>4, <1>5, <2>1
  <2>. QED
    BY <1>0, <1>1, <1>2, <1>3, <1>5, <2>2 DEF BgInv, Counted
<1>. QED
  BY <1>6, <1>7, <1>8, <1>9, <1>10 DEF BgInv

LEMMA BgMark ==
    ASSUME BgInv, Mark
    PROVE  BgInv'
<1>0. PICK k : k = mon.job
  OBVIOUS
<1>1. /\ mon.at = "posted" /\ mon' = Skipped(k)
      /\ rec' = IF rec[k] = NoRec THEN rec ELSE [rec EXCEPT ![k].followed = TRUE]
      /\ UNCHANGED <<proc, cmd, file, code, overdue, sessionOf, alive, up, turn, scan, posts, faults>>
  BY <1>0 DEF Mark, procVars, userVars, chatVars
<1>2. /\ mon \in Batch /\ mon # Idle /\ k \in Jobs /\ k \in mon.todo
      /\ rec[k] \in Recorded /\ Finished(rec[k]) /\ rec[k].why # "killed"
  BY <1>0, <1>1, Current
<1>3. scan = Idle /\ posts[k] > 0
  BY <1>0, <1>1, <1>2 DEF BgInv, Copy, Collected
<1>4. mon' \in Batch /\ mon'.todo = mon.todo \ {k} /\ mon'.at = "batch" /\ mon'.job = NoJob
  BY <1>1, <1>2 DEF Skipped, Batch
<1>5. rec \in [Jobs -> {NoRec} \cup Recorded] /\ posts \in [Jobs -> Nat] /\ faults \in Nat
  BY DEF BgInv, Types
<1>6. rec' = [rec EXCEPT ![k] = [rec[k] EXCEPT !.followed = TRUE]]
  BY <1>1, <1>2 DEF Finished, NoRec
<1>7. /\ rec'[k] = [rec[k] EXCEPT !.followed = TRUE]
      /\ \A j \in Jobs : j # k => rec'[j] = rec[j]
  BY <1>2, <1>5, <1>6
<1>8. rec'[k] \in Recorded /\ rec'[k].why = rec[k].why /\ rec'[k].exit = rec[k].exit
      /\ rec'[k].followed
  BY <1>2, <1>7 DEF Recorded
<1>9. Types'
  <2>1. rec' \in [Jobs -> {NoRec} \cup Recorded]
    BY <1>5, <1>6, <1>7, <1>8
  <2>. QED
    BY <1>1, <1>4, <2>1 DEF BgInv, Types
<1>10. Files' /\ Copy'
  BY <1>1, <1>3 DEF BgInv, Files, Copy
<1>11. \A j \in Jobs : Good(j, rec[j])'
  <2>1. \A j \in Jobs \ {k} : Good(j, rec[j])'
    BY <1>1, <1>7 DEF BgInv, Good, TrueOf, FlagsOf
  <2>2. TrueOf(k, rec[k])'
    <3>1. TrueOf(k, rec[k]) /\ rec[k] # NoRec
      BY <1>2 DEF BgInv, Good, Finished, NoRec
    <3>. QED
      BY <1>1, <1>8, <3>1 DEF TrueOf, Finished
  <2>3. FlagsOf(k, rec[k])'
    BY <1>1, <1>2, <1>3, <1>8 DEF FlagsOf, Finished
  <2>. QED
    BY <2>1, <2>2, <2>3 DEF Good
<1>12. Collected'
  BY <1>2, <1>4, <1>7 DEF BgInv, Collected, Batch
<1>13. Counted'
  <2>1. rec'[k] # NoRec => rec'[k].followed
    BY <1>8
  <2>. QED
    BY <1>0, <1>1, <1>7, <1>8, <2>1 DEF BgInv, Counted
<1>. QED
  BY <1>9, <1>10, <1>11, <1>12, <1>13 DEF BgInv

\* The mark is not written: the next batch may hold the job again.
LEMMA BgMarkFails ==
    ASSUME BgInv, MarkFails
    PROVE  BgInv'
<1>0. PICK k : k = mon.job
  OBVIOUS
<1>1. /\ mon.at = "posted" /\ mon' = Skipped(k) /\ faults' = faults + 1
      /\ UNCHANGED <<proc, cmd, file, code, overdue, rec, sessionOf, alive, up, turn, scan, posts>>
  BY <1>0 DEF MarkFails, procVars, storeVars, userVars, chatVars
<1>2. mon \in Batch /\ mon # Idle /\ scan = Idle
  BY <1>1, Current DEF BgInv, Copy
<1>3. mon' \in Batch /\ mon'.todo = mon.todo \ {k} /\ mon'.at = "batch" /\ mon'.job = NoJob
  BY <1>1, <1>2 DEF Skipped, Batch
<1>4. Types' /\ Files'
  BY <1>1, <1>3 DEF BgInv, Types, Files
<1>5. Copy'
  BY <1>1, <1>2 DEF Copy
<1>6. \A j \in Jobs : Good(j, rec[j])'
  BY <1>1 DEF BgInv, Good, TrueOf, FlagsOf
<1>7. Collected'
  BY <1>1, <1>2, <1>3 DEF BgInv, Collected
<1>8. Counted'
  BY <1>1 DEF BgInv, Types, Counted
<1>. QED
  BY <1>4, <1>5, <1>6, <1>7, <1>8 DEF BgInv

-----------------------------------------------------------------------------
(* The user and the machine.                                               *)

\* Steps that touch neither jobs nor store nor monitor.
LEMMA BgFrame ==
    ASSUME BgInv, UNCHANGED <<proc, cmd, file, code, overdue, rec, sessionOf, scan, mon, posts, faults>>,
           up' \in BOOLEAN, up => up', turn' \in [Sessions -> BOOLEAN],
           alive' \subseteq Sessions
    PROVE  BgInv'
<1>1. Types' /\ Files' /\ Copy' /\ Collected' /\ Counted'
  BY DEF BgInv, Types, Files, Copy, Collected, Counted, Good, TrueOf, FlagsOf
<1>2. \A j \in Jobs : Good(j, rec[j])'
  BY DEF BgInv, Good, TrueOf, FlagsOf
<1>. QED
  BY <1>1, <1>2 DEF BgInv

LEMMA BgCrash ==
    ASSUME BgInv, Crash
    PROVE  BgInv'
<1>1. /\ scan' = Idle /\ mon' = Idle /\ up' = FALSE /\ faults' = faults + 1
      /\ turn' = [s \in Sessions |-> FALSE]
      /\ UNCHANGED <<proc, cmd, file, code, overdue, rec, sessionOf, alive, posts>>
  BY DEF Crash, procVars, storeVars, chatVars
<1>2. Types' /\ Files'
  <2>1. faults' \in Nat
    BY <1>1 DEF BgInv, Types
  <2>2. turn' \in [Sessions -> BOOLEAN]
    BY <1>1
  <2>3. up' \in BOOLEAN
    BY <1>1
  <2>4. mon' \in {Idle} \cup Batch /\ scan' \in {Idle} \cup Refresh
    BY <1>1
  <2>. QED
    BY <1>1, <2>1, <2>2, <2>3, <2>4 DEF BgInv, Types, Files
<1>3. Copy' /\ Collected'
  BY <1>1 DEF Copy, Collected
<1>4. \A j \in Jobs : Good(j, rec[j])'
  BY <1>1 DEF BgInv, Good, TrueOf, FlagsOf
<1>5. Counted'
  BY <1>1 DEF BgInv, Types, Counted
<1>. QED
  BY <1>2, <1>3, <1>4, <1>5 DEF BgInv

LEMMA BgOthers ==
    ASSUME BgInv,
           \/ \E s \in Sessions : TurnStarts(s) \/ TurnEnds(s) \/ DeleteSession(s)
           \/ Restart \/ UNCHANGED vars
    PROVE  BgInv'
<1>1. UNCHANGED <<proc, cmd, file, code, overdue, rec, sessionOf, scan, mon, posts, faults>>
  BY DEF TurnStarts, TurnEnds, DeleteSession, Restart, vars, procVars, storeVars,
         serverVars, chatVars
<1>2. up' \in BOOLEAN /\ (up => up') /\ alive' \subseteq Sessions
      /\ turn' \in [Sessions -> BOOLEAN]
  BY DEF TurnStarts, TurnEnds, DeleteSession, Restart, vars, userVars, serverVars,
         BgInv, Types
<1>. QED
  BY <1>1, <1>2, BgFrame

LEMMA BgNext == BgInv /\ [Next]_vars => BgInv'
<1>. SUFFICES ASSUME BgInv, [Next]_vars PROVE BgInv'
  OBVIOUS
<1>1. ASSUME NEW j \in Jobs, ProcessStep(j) \/ TimePasses(j) \/ Launch(j) \/ Kill(j)
      PROVE  BgInv'
  <2>1. CASE Kill(j)
    BY <2>1, BgScan DEF Kill, Free
  <2>. QED
    BY <1>1, <2>1, BgProcess, BgLaunch
<1>2. ASSUME Inspect \/ Tick PROVE BgInv'
  BY <1>2, BgScan DEF Inspect, Tick
<1>3. ASSUME NEW j \in Jobs, PutOff(j) \/ Reinvoke(j) PROVE BgInv'
  BY <1>3, BgSkips, BgReinvoke
<1>4. ASSUME AgentFails PROVE BgInv'
  <2>1. mon.job \in Jobs
    BY <1>4, Current DEF AgentFails
  <2>. QED
    BY <1>4, <2>1, BgSkips
<1>5. ASSUME BatchDone PROVE BgInv'
  BY <1>5, BgMonMove DEF BatchDone
<1>6. ASSUME ScanStep \/ SaveFails PROVE BgInv'
  BY <1>6, BgLook, BgScanDone DEF ScanStep
<1>. QED
  BY <1>1, <1>2, <1>3, <1>4, <1>5, <1>6, BgPost, BgMark, BgMarkFails, BgCrash,
     BgOthers
     DEF Next, MonitorStep

LEMMA BgAlways == Spec => []BgInv
BY BgInit, BgNext, PTL DEF Spec

-----------------------------------------------------------------------------
(* What a step may do to a verdict.                                        *)

\* A verdict is final: whatever copies of the store are saved, by whomever, the
\* outcome of a job is never replaced, and its record goes only after the
\* follow-up.
OutcomeFinal ==
    [][\A j \in Jobs : Finished(rec[j]) =>
          \/ rec'[j] # NoRec /\ rec'[j].why = rec[j].why /\ rec'[j].exit = rec[j].exit
             /\ (rec[j].followed => rec'[j].followed)
          \/ rec'[j] = NoRec /\ rec[j].followed]_vars

Final(j) ==
    \/ rec'[j] # NoRec /\ rec'[j].why = rec[j].why /\ rec'[j].exit = rec[j].exit
       /\ (rec[j].followed => rec'[j].followed)
    \/ rec'[j] = NoRec /\ rec[j].followed

LEMMA FinalStep ==
    ASSUME BgInv, [Next]_vars, NEW j \in Jobs, Finished(rec[j])
    PROVE  Final(j)
<1>1. rec[j] \in Recorded /\ rec[j] # NoRec
  BY DEF BgInv, Types, Finished, NoRec
<1>2. CASE UNCHANGED rec
  BY <1>1, <1>2 DEF Final
<1>3. ASSUME NEW i \in Jobs, Launch(i) PROVE Final(j)
  <2>1. i # j
    BY <1>1, <1>3, Launched
  <2>2. rec'[j] = rec[j]
    BY <1>3, <2>1, Launched DEF BgInv, Types
  <2>. QED
    BY <1>1, <2>2 DEF Final
<1>4. CASE ScanDone \/ SaveFails
  <2>1. scan.recs[j] = rec[j] /\ rec[j].why # "running"
    BY <1>4, Saved DEF BgInv, Copy, Finished
  <2>2. ~Stops(scan.recs[j]) /\ (Prunable(scan.recs[j]) => rec[j].followed)
    BY <2>1 DEF Prunable, Stops
  <2>3. rec'[j] = rec[j] \/ (rec'[j] = NoRec /\ rec[j].followed)
    BY <1>4, <2>1, <2>2, Saved
  <2>. QED
    BY <1>1, <2>3 DEF Final
<1>5. CASE Mark
  <2>1. rec' = rec \/ rec' = [rec EXCEPT ![mon.job] = [rec[mon.job] EXCEPT !.followed = TRUE]]
    BY <1>5 DEF Mark
  <2>2. rec'[j] = rec[j] \/ rec'[j] = [rec[j] EXCEPT !.followed = TRUE]
    <3>1. rec \in [Jobs -> {NoRec} \cup Recorded] /\ mon.job \in Jobs
      BY <1>5, Current DEF Mark, BgInv, Types
    <3>. QED
      BY <2>1, <3>1
  <2>3. /\ rec'[j] # NoRec /\ rec'[j].why = rec[j].why /\ rec'[j].exit = rec[j].exit
        /\ rec[j].followed => rec'[j].followed
    BY <1>1, <2>2 DEF Recorded, Finished, NoRec
  <2>. QED
    BY <2>3 DEF Final
<1>. QED
  BY <1>2, <1>3, <1>4, <1>5
     DEF Next, vars, storeVars, ProcessStep, OpensFile, WritesCode, Vanishes,
         CommandEnds, TimePasses, Kill, Inspect, ScanStep, Look, Probe, MonitorStep,
         Tick, BatchDone, PutOff, Reinvoke, Post, MarkFails, AgentFails, TurnStarts,
         TurnEnds, DeleteSession, Crash, Restart

-----------------------------------------------------------------------------
(* The theorems.                                                           *)

\* TypeOK: the store and the monitor are always in one of their forms.
THEOREM BgTypes == Spec => []TypeOK
<1>1. BgInv => TypeOK
  BY DEF BgInv, Types, Copy, TypeOK, Recorded, Batch, Refresh, Idle
<1>. QED
  BY <1>1, BgAlways, PTL

\* OutcomeTrue: what the record of a job says did happen, although its processes
\* run on while refresh() looks, and whatever they do with a signal.
THEOREM OutcomesAreTrue == Spec => []OutcomeTrue
<1>1. BgInv => OutcomeTrue
  BY DEF BgInv, Good, TrueOf, OutcomeTrue
<1>. QED
  BY <1>1, BgAlways, PTL

\* KilledStaysSilent: a job the agent killed never brings the agent back.
THEOREM KilledIsSilent == Spec => []KilledStaysSilent
<1>1. BgInv => KilledStaysSilent
  <2>. SUFFICES ASSUME BgInv, NEW j \in Jobs, rec[j].why = "killed"
                PROVE  /\ posts[j] = 0
                       /\ mon # Idle => j # mon.job /\ j \notin mon.todo
    BY DEF KilledStaysSilent
  <2>1. rec[j].followed /\ posts[j] = 0
    BY DEF BgInv, Good, FlagsOf
  <2>2. mon # Idle => j \notin mon.todo
    BY <2>1 DEF BgInv, Collected
  <2>3. mon # Idle => mon.job = NoJob \/ mon.job \in mon.todo
    BY DEF BgInv, Collected, Types, Batch
  <2>. QED
    BY <2>1, <2>2, <2>3, ConstantsAssumption
<1>. QED
  BY <1>1, BgAlways, PTL

\* FollowedMeansInvoked: a job marked as followed up was continued, or killed
\* by the agent.
THEOREM FollowedWasInvoked == Spec => []FollowedMeansInvoked
<1>1. BgInv => FollowedMeansInvoked
  BY DEF BgInv, Good, FlagsOf, FollowedMeansInvoked
<1>. QED
  BY <1>1, BgAlways, PTL

\* RepeatsNeedFault: a job is continued once, and once more for every time the
\* server died or could not write its store.
THEOREM RepeatsAreFaults == Spec => []RepeatsNeedFault
<1>1. BgInv => RepeatsNeedFault
  BY DEF BgInv, Types, Counted, RepeatsNeedFault
<1>. QED
  BY <1>1, BgAlways, PTL

\* OutcomeFinal: whatever copies of the store are saved, and by whom, a verdict
\* is never replaced, and a record goes only after the follow-up.
THEOREM OutcomesAreFinal == Spec => OutcomeFinal
<1>1. BgInv /\ [Next]_vars =>
        [\A j \in Jobs : Finished(rec[j]) =>
            \/ rec'[j] # NoRec /\ rec'[j].why = rec[j].why /\ rec'[j].exit = rec[j].exit
               /\ (rec[j].followed => rec'[j].followed)
            \/ rec'[j] = NoRec /\ rec[j].followed]_vars
  BY FinalStep DEF Final
<1>. QED
  BY <1>1, BgAlways, PTL DEF Spec, OutcomeFinal

-----------------------------------------------------------------------------
(* The store and the monitor implement FollowUpPromise.                    *)

Told(j) == mon.at = "posted" /\ mon.job = j

\* A job nobody touches stays where it is.
LEMMA JobStays ==
    ASSUME BgInv, NEW j \in Jobs, rec'[j] = rec[j], posts'[j] = posts[j],
           proc'[j] = "none" <=> proc[j] = "none",
           rec[j] # NoRec /\ Finished(rec[j]) /\ ~rec[j].followed
               => (Told(j)' <=> Told(j))
    PROVE  Promise!JobStep(j)
<1>1. StageOf(j)' = StageOf(j)
  <2>1. CASE rec[j] = NoRec
    BY <2>1 DEF StageOf
  <2>2. CASE rec[j] # NoRec /\ (rec[j].why = "running" \/ rec[j].followed)
    BY <2>2 DEF StageOf
  <2>3. CASE rec[j] # NoRec /\ rec[j].why # "running" /\ ~rec[j].followed
    <3>1. rec[j] \in Recorded
      BY <2>3 DEF BgInv, Types
    <3>2. Told(j)' <=> Told(j)
      BY <2>3, <3>1 DEF Recorded, Finished
    <3>. QED
      BY <2>3, <3>2 DEF StageOf, Told
  <2>. QED
    BY <2>1, <2>2, <2>3
<1>2. VerdictOf(j)' = VerdictOf(j)
  BY DEF VerdictOf
<1>. QED
  BY <1>1, <1>2 DEF Promise!JobStep, Promise!Stays

LEMMA ProcessPromised ==
    ASSUME BgInv, NEW i \in Jobs, ProcessStep(i) \/ TimePasses(i), NEW j \in Jobs
    PROVE  Promise!JobStep(j)
BY TruthOfProcess, JobStays DEF Told

\* A job is launched and noted, or launched and never known of.
LEMMA LaunchPromised ==
    ASSUME BgInv, NEW i \in Jobs, Launch(i), NEW j \in Jobs
    PROVE  Promise!JobStep(j)
<1>1. /\ proc[i] = "none" /\ rec[i] = NoRec /\ proc' = [proc EXCEPT ![i] = "running"]
      /\ \/ rec' = [rec EXCEPT ![i] = Running]
         \/ rec' = rec /\ faults' = faults + 1
      /\ posts' = posts /\ mon' = mon
  BY Launched
<1>2. /\ proc \in [Jobs -> {"none", "running", "writing", "gone"}]
      /\ rec \in [Jobs -> {NoRec} \cup Recorded]
  BY DEF BgInv, Types
<1>3. CASE j # i
  <2>1. rec'[j] = rec[j] /\ proc'[j] = proc[j]
    BY <1>1, <1>2, <1>3
  <2>. QED
    BY <1>1, <2>1, JobStays DEF Told
<1>4. CASE j = i
  <2>1. StageOf(j) = "new" /\ proc'[j] = "running"
    BY <1>1, <1>2, <1>4 DEF StageOf
  <2>2. CASE rec'[j] = Running
    <3>1. StageOf(j)' = "running"
      BY <2>2 DEF StageOf, Running, NoRec
    <3>2. VerdictOf(j)' = VerdictOf(j)
      BY <1>1, <1>4, <2>2 DEF VerdictOf, Finished, Running, NoRec
    <3>. QED
      BY <1>1, <2>1, <3>1, <3>2 DEF Promise!JobStep, Promise!Starts, Promise!Moves
  <2>3. CASE rec'[j] = rec[j] /\ faults' = faults + 1
    <3>1. StageOf(j)' = "gone"
      BY <1>1, <1>4, <2>1, <2>3 DEF StageOf
    <3>2. VerdictOf(j)' = VerdictOf(j)
      BY <2>3 DEF VerdictOf
    <3>. QED
      BY <1>1, <2>1, <2>3, <3>1, <3>2
      DEF Promise!JobStep, Promise!IsUnknown, Promise!Moves
  <2>. QED
    BY <1>1, <1>2, <1>4, <2>2, <2>3
<1>. QED
  BY <1>3, <1>4

\* A refresh is the only one to pass a verdict and to drop a record.
LEMMA ScanPromised ==
    ASSUME BgInv, ScanDone \/ SaveFails, NEW j \in Jobs
    PROVE  Promise!JobStep(j)
<1>1. /\ posts' = posts /\ proc' = proc /\ scan # Idle
      /\ \/ rec'[j] = rec[j]
         \/ rec'[j] = scan.recs[j]
         \/ rec'[j] = NoRec /\ Prunable(scan.recs[j])
         \/ rec'[j] = KilledRec(scan.recs[j]) /\ Stops(scan.recs[j])
      /\ mon' = mon \/ mon'.at = "batch"
  BY Saved
<1>2. /\ mon.at # "posted" /\ ~Told(j) /\ ~Told(j)'
      /\ \/ scan.recs[j] = rec[j]
         \/ /\ rec[j].why = "running"
            /\ scan.recs[j].why \in {"exit", "timeout", "died"}
            /\ ~scan.recs[j].followed
  BY <1>1 DEF BgInv, Copy, Told
<1>3. /\ rec[j] \in {NoRec} \cup Recorded /\ scan.recs[j] \in {NoRec} \cup Recorded
      /\ rec[j] # NoRec => proc[j] # "none"
  BY <1>1, ScanFacts DEF BgInv, Types, Good, TrueOf
<1>4. CASE rec'[j] = rec[j]
  BY <1>1, <1>2, <1>4, JobStays
<1>5. CASE /\ rec'[j] = scan.recs[j] /\ rec[j].why = "running"
           /\ scan.recs[j].why \in {"exit", "timeout", "died"}
           /\ ~scan.recs[j].followed
  <2>1. StageOf(j) = "running" /\ StageOf(j)' = "over"
    BY <1>2, <1>5 DEF StageOf, NoRec, Told
  <2>2. VerdictOf(j)' = <<scan.recs[j].why, scan.recs[j].exit>>
    BY <1>5 DEF VerdictOf, Finished
  <2>3. VerdictOf(j)' # <<"none", 0>> /\ VerdictOf(j)' # <<"killed", 1>>
    BY <1>5, <2>2
  <2>. QED
    BY <1>1, <2>1, <2>3
    DEF Promise!JobStep, Promise!Ends, Promise!Moves, Promise!NoVerdict, Promise!Killed
<1>6. CASE rec'[j] = NoRec /\ Prunable(scan.recs[j])
  <2>1. rec[j] = scan.recs[j] /\ rec[j].followed /\ Finished(rec[j])
    BY <1>2, <1>6 DEF Prunable
  <2>2. StageOf(j) = "settled" /\ StageOf(j)' = "gone"
    BY <1>1, <1>3, <1>6, <2>1 DEF StageOf, Finished, NoRec
  <2>. QED
    BY <1>1, <2>2 DEF Promise!JobStep, Promise!Forgets, Promise!Moves
<1>7. CASE rec'[j] = KilledRec(scan.recs[j]) /\ Stops(scan.recs[j])
  <2>1. rec[j] = scan.recs[j] /\ rec[j].why = "running" /\ rec[j] \in Recorded
    BY <1>2, <1>3, <1>7 DEF Stops, NoRec
  <2>2. /\ rec'[j].why = "killed" /\ rec'[j].exit = 1 /\ rec'[j].followed
        /\ rec'[j] # NoRec
    BY <1>7, <2>1 DEF KilledRec, Recorded, NoRec
  <2>3. StageOf(j) = "running" /\ StageOf(j)' = "settled"
    BY <2>1, <2>2 DEF StageOf, NoRec
  <2>4. VerdictOf(j)' = <<"killed", 1>>
    BY <2>2 DEF VerdictOf, Finished
  <2>. QED
    BY <1>1, <2>3, <2>4 DEF Promise!JobStep, Promise!IsKilled, Promise!Moves, Promise!Killed
<1>. QED
  BY <1>1, <1>2, <1>4, <1>5, <1>6, <1>7

LEMMA PostPromised ==
    ASSUME BgInv, Post, NEW j \in Jobs
    PROVE  Promise!JobStep(j)
<1>0. PICK k : k = mon.job
  OBVIOUS
<1>1. /\ mon.at = "agent" /\ mon' = [mon EXCEPT !.at = "posted"]
      /\ posts' = [posts EXCEPT ![k] = @ + 1] /\ UNCHANGED <<proc, rec>>
  BY <1>0 DEF Post, procVars, storeVars
<1>2. /\ mon \in Batch /\ k \in Jobs /\ rec[k] \in Recorded /\ Finished(rec[k])
      /\ ~rec[k].followed /\ posts \in [Jobs -> Nat]
  BY <1>0, <1>1, Current DEF BgInv, Types
<1>3. mon'.at = "posted" /\ mon'.job = k
  BY <1>0, <1>1, <1>2 DEF Batch
<1>4. CASE j # k
  <2>1. posts'[j] = posts[j]
    BY <1>1, <1>4
  <2>. QED
    BY <1>1, <1>3, <1>4, <2>1, JobStays DEF Told
<1>5. CASE j = k
  <2>1. StageOf(j) = "over" /\ StageOf(j)' = "told"
    BY <1>1, <1>2, <1>3, <1>5 DEF StageOf, Finished, NoRec
  <2>2. VerdictOf(j)' = VerdictOf(j)
    BY <1>1 DEF VerdictOf
  <2>3. posts'[j] = posts[j] + 1
    BY <1>1, <1>2, <1>5
  <2>. QED
    BY <2>1, <2>2, <2>3 DEF Promise!JobStep, Promise!Continues, Promise!Moves
<1>. QED
  BY <1>4, <1>5

LEMMA MarkPromised ==
    ASSUME BgInv, Mark, NEW j \in Jobs
    PROVE  Promise!JobStep(j)
<1>0. PICK k : k = mon.job
  OBVIOUS
<1>1. /\ mon.at = "posted" /\ mon' = Skipped(k)
      /\ rec' = IF rec[k] = NoRec THEN rec ELSE [rec EXCEPT ![k].followed = TRUE]
      /\ UNCHANGED <<proc, posts>>
  BY <1>0 DEF Mark, procVars, chatVars
<1>2. /\ mon \in Batch /\ k \in Jobs /\ rec[k] \in Recorded /\ Finished(rec[k])
      /\ ~rec[k].followed /\ rec \in [Jobs -> {NoRec} \cup Recorded]
  BY <1>0, <1>1, Current DEF BgInv, Types
<1>3. mon'.at = "batch"
  BY <1>1, <1>2 DEF Skipped, Batch
<1>4. rec' = [rec EXCEPT ![k] = [rec[k] EXCEPT !.followed = TRUE]]
  BY <1>1, <1>2 DEF Finished, NoRec
<1>5. CASE j # k
  <2>1. rec'[j] = rec[j]
    BY <1>2, <1>4, <1>5
  <2>. QED
    BY <1>0, <1>1, <1>3, <1>5, <2>1, JobStays DEF Told
<1>6. CASE j = k
  <2>1. rec'[j] = [rec[j] EXCEPT !.followed = TRUE]
    BY <1>2, <1>4, <1>6
  <2>2. /\ rec'[j].why = rec[j].why /\ rec'[j].exit = rec[j].exit
        /\ rec'[j].followed /\ rec'[j] # NoRec
    BY <1>2, <1>6, <2>1 DEF Recorded, Finished, NoRec
  <2>3. StageOf(j) = "told" /\ StageOf(j)' = "settled"
    BY <1>0, <1>1, <1>2, <1>6, <2>2 DEF StageOf, Finished, NoRec
  <2>4. VerdictOf(j)' = VerdictOf(j)
    BY <2>2 DEF VerdictOf, Finished
  <2>. QED
    BY <1>1, <2>3, <2>4 DEF Promise!JobStep, Promise!Settles, Promise!Moves
<1>. QED
  BY <1>5, <1>6

\* Only a death of the server, or a mark that is not written, opens the job
\* again.
LEMMA LossPromised ==
    ASSUME BgInv, Crash \/ MarkFails, NEW j \in Jobs
    PROVE  Promise!JobStep(j)
<1>1. mon'.at # "posted" /\ faults' = faults + 1 /\ UNCHANGED <<proc, rec, posts>>
  BY DEF Crash, MarkFails, Skipped, Idle, procVars, storeVars, chatVars
<1>2. ~Told(j)'
  BY <1>1 DEF Told
<1>3. CASE ~Told(j)
  BY <1>1, <1>2, <1>3, JobStays
<1>4. CASE Told(j)
  <2>1. rec[j] \in Recorded /\ Finished(rec[j]) /\ ~rec[j].followed
    BY <1>4, Current DEF Told
  <2>2. StageOf(j) = "told" /\ StageOf(j)' = "over"
    BY <1>1, <1>2, <1>4, <2>1 DEF StageOf, Told, Finished, NoRec
  <2>3. VerdictOf(j)' = VerdictOf(j)
    BY <1>1 DEF VerdictOf
  <2>. QED
    BY <1>1, <2>2, <2>3 DEF Promise!JobStep, Promise!Loses, Promise!Moves
<1>. QED
  BY <1>3, <1>4

\* The other steps touch no record; the monitor neither takes nor leaves the
\* place between a continuation and its mark.
LEMMA OtherPromised ==
    ASSUME BgInv, NEW j \in Jobs,
           \/ \E i \in Jobs : Kill(i) \/ Look(i) \/ Probe(i) \/ PutOff(i) \/ Reinvoke(i)
           \/ Inspect \/ Tick \/ BatchDone \/ AgentFails \/ Restart
           \/ \E s \in Sessions : TurnStarts(s) \/ TurnEnds(s) \/ DeleteSession(s)
           \/ UNCHANGED vars
    PROVE  Promise!JobStep(j)
<1>1. UNCHANGED <<proc, rec, posts>>
  BY DEF Kill, Look, Probe, PutOff, Reinvoke, Inspect, Tick, BatchDone, AgentFails,
         Restart, TurnStarts, TurnEnds, DeleteSession, vars, procVars, storeVars, chatVars
<1>2. \/ mon' = mon
      \/ mon.at # "posted" /\ mon'.at # "posted"
  <2>1. ASSUME NEW i \in Jobs, PutOff(i) \/ (AgentFails /\ i = mon.job)
        PROVE  mon.at # "posted" /\ mon'.at # "posted"
    BY <2>1 DEF PutOff, AgentFails, Free, Skipped
  <2>2. ASSUME NEW i \in Jobs, Reinvoke(i)
        PROVE  mon.at # "posted" /\ mon'.at # "posted"
    <3>1. mon.at = "batch" /\ mon' = [mon EXCEPT !.at = "agent", !.job = i]
      BY <2>2 DEF Reinvoke
    <3>2. mon \in Batch
      BY <3>1, MonType DEF Idle
    <3>. QED
      BY <3>1, <3>2 DEF Batch
  <2>3. AgentFails => mon.job \in Jobs
    BY Current DEF AgentFails
  <2>4. BatchDone => mon.at # "posted" /\ mon'.at # "posted"
    BY DEF BatchDone, Idle
  <2>. QED
    BY <2>1, <2>2, <2>3, <2>4
    DEF Kill, Look, Probe, Inspect, Tick, Restart, TurnStarts, TurnEnds, DeleteSession,
        vars, serverVars
<1>. QED
  BY <1>1, <1>2, JobStays DEF Told

LEMMA StepPromised == BgInv /\ [Next]_vars => Promise!Next
<1>. SUFFICES ASSUME BgInv, [Next]_vars PROVE Promise!Next
  OBVIOUS
<1>1. faults' \in {faults, faults + 1}
  BY DEF Next, vars, ProcessStep, OpensFile, WritesCode, Vanishes, CommandEnds,
         TimePasses, Launch, Kill, Inspect, ScanStep, ScanDone, SaveFails, Look, Probe,
         MonitorStep, Tick, Mark, MarkFails, BatchDone, PutOff, Reinvoke, Post,
         AgentFails, TurnStarts, TurnEnds, DeleteSession, Crash, Restart
<1>2. ASSUME NEW j \in Jobs PROVE Promise!JobStep(j)
  BY ProcessPromised, LaunchPromised, ScanPromised, PostPromised, MarkPromised,
     LossPromised, OtherPromised
  DEF Next, ScanStep, MonitorStep
<1>. QED
  BY <1>1, <1>2 DEF Promise!Next

\* KeepsPromise: the store, its refreshes, the monitor and the agent's tools
\* implement FollowUpPromise, for any jobs, sessions, faults and turns.  A job
\* has one verdict, is settled only after a continuation or by being killed,
\* and is continued again only after a death of the server, or a write of the
\* store that failed, between the two.
THEOREM StoreKeepsPromise == Spec => KeepsPromise
<1>1. Init => Promise!Init
  <2>. SUFFICES ASSUME Init PROVE Promise!Init
    OBVIOUS
  <2>1. \A j \in Jobs : StageOf(j) = "new" /\ VerdictOf(j) = <<"none", 0>>
    BY DEF Init, StageOf, VerdictOf, Finished, NoRec
  <2>2. /\ [j \in Jobs |-> StageOf(j)] = [j \in Jobs |-> "new"]
        /\ [j \in Jobs |-> VerdictOf(j)] = [j \in Jobs |-> <<"none", 0>>]
    BY <2>1
  <2>. QED
    BY <2>2 DEF Init, Promise!Init, Promise!NoVerdict
<1>. QED
  BY <1>1, StepPromised, BgAlways, PTL DEF Spec, KeepsPromise, Promise!Spec
=============================================================================
