--------------------------- MODULE BackgroundProofs ---------------------------
(***************************************************************************)
(* What goes on in the background, proved for any bounds.  The fill        *)
(* actor's job queue, for any number of jobs, managers and workers,        *)
(* whatever crashes, expires or fails: the safety properties follow from   *)
(* one inductive invariant, JobInv, in which the row and the one execution *)
(* a job may have agree on how far the job is.  The tables of the plans,   *)
(* the moves and the jobs, with any rows: by what their keys and their     *)
(* index let them be, TablesInv, each call on them is the call of the      *)
(* repository the tests run against.  And what the monitor's scheduler     *)
(* knows of a mirror that is behind, SchedInv.                             *)
(***************************************************************************)
EXTENDS JobQueue, FillActorTables, MonitorScheduler, TLAPS, FiniteSetTheorems

----------------------------------------------------------------------------
(* The parts of the inductive invariant.                                    *)

(* Only a claim leaves the queue, and it is made once: a queued job has no  *)
(* execution and no work, a job never has two.                              *)
QueuedIsUntouched ==
    \A j \in Jobs : jobs[j].state \in {"absent", "queued"} =>
        /\ began[j] = 0
        /\ \A m \in Managers : exec[m][j].pc = "none"

OneRunner ==
    \A j \in Jobs, m, n \in Managers :
        exec[m][j].pc # "none" /\ exec[n][j].pc # "none" => m = n

BegunByThen ==
    \A j \in Jobs :
        /\ began[j] <= 1
        /\ \A m \in Managers :
              exec[m][j].pc \in {"claimed", "revalidate", "ready"} => began[j] = 0

(* A cancel was asked of a plan and settled its row first.                  *)
CancelSettled ==
    \A m \in Managers, j \in Jobs :
        /\ cancels[m][j] # "idle" => j \notin Applies /\ jobs[j].state = "failed"
        /\ cancels[m][j] = "returned" =>
              exec[m][j].pc \in {"none", "claimed", "revalidate", "cleanup", "last"}

ResultIsWork ==
    \A m \in Managers, j \in Jobs :
        /\ exec[m][j].pc \in {"finish", "last"} => exec[m][j].result \in {"completed", "failed"}
        /\ exec[m][j].result = "completed" => j \in done

JobInv ==
    /\ JobTypeOK
    /\ QueuedIsUntouched
    /\ OneRunner
    /\ BegunByThen
    /\ CancelSettled
    /\ ResultIsWork
    /\ CompletedIsDone

USE DEF At, Working, Registered, Owns

----------------------------------------------------------------------------
(* What a step has to respect, by the variables it writes.                  *)

(* One execution moves on: it does not go back before its work, is not made *)
(* to work after a cancel was answered, and results come from work.         *)
LEMMA RunKeeps ==
    ASSUME JobInv, NEW m \in Managers, NEW j \in Jobs, NEW e \in Execs,
           exec[m][j].pc # "none",
           exec' = [exec EXCEPT ![m][j] = e],
           e.pc \in {"claimed", "revalidate", "ready"} =>
              exec[m][j].pc \in {"claimed", "revalidate", "ready"},
           cancels[m][j] = "returned" =>
              e.pc \in {"none", "claimed", "revalidate", "cleanup", "last"},
           e.pc \in {"finish", "last"} => e.result \in {"completed", "failed"},
           e.result = "completed" => j \in done',
           done \subseteq done', done' \subseteq Jobs,
           UNCHANGED <<jobs, cancels, phase, began>>
    PROVE  JobInv'
<1>1. /\ exec' \in [Managers -> [Jobs -> Execs]]
      /\ \A n \in Managers, i \in Jobs :
            exec'[n][i] = IF n = m /\ i = j THEN e ELSE exec[n][i]
  BY DEF JobInv, JobTypeOK
<1>2. JobTypeOK'
  BY <1>1 DEF JobInv, JobTypeOK
<1>3. QueuedIsUntouched'
  BY <1>1 DEF JobInv, QueuedIsUntouched
<1>4. OneRunner'
  BY <1>1 DEF JobInv, OneRunner
<1>5. BegunByThen'
  BY <1>1 DEF JobInv, BegunByThen
<1>6. CancelSettled'
  BY <1>1 DEF JobInv, CancelSettled
<1>7. ResultIsWork'
  BY <1>1 DEF JobInv, ResultIsWork
<1>8. CompletedIsDone'
  BY DEF JobInv, CompletedIsDone
<1>9. QED
  BY <1>2, <1>3, <1>4, <1>5, <1>6, <1>7, <1>8 DEF JobInv

(* The work of a job is begun by the one execution it has.                  *)
LEMMA BeginKeeps ==
    ASSUME JobInv, NEW m \in Managers, NEW j \in Jobs,
           exec[m][j].pc \in {"revalidate", "ready"},
           cancels[m][j] # "returned",
           Begin(m, j),
           UNCHANGED <<jobs, cancels, phase, done>>
    PROVE  JobInv'
<1> DEFINE e == [exec[m][j] EXCEPT !.pc = "working"]
<1>0. exec[m][j] \in Execs
  BY DEF JobInv, JobTypeOK
<1>1. e \in Execs /\ e.pc = "working" /\ e.result = exec[m][j].result
  BY <1>0 DEF Execs
<1>2. exec' = [exec EXCEPT ![m][j] = e]
  BY DEF Begin, Goto, JobInv, JobTypeOK
<1> HIDE DEF e
<1>3. /\ exec' \in [Managers -> [Jobs -> Execs]]
      /\ \A n \in Managers, i \in Jobs :
            exec'[n][i] = IF n = m /\ i = j THEN e ELSE exec[n][i]
  BY <1>1, <1>2 DEF JobInv, JobTypeOK
<1>4. began[j] = 0
  BY DEF JobInv, BegunByThen
<1>5. /\ began' \in [Jobs -> Nat]
      /\ began'[j] = 1
      /\ \A i \in Jobs : i # j => began'[i] = began[i]
  BY <1>4 DEF Begin, JobInv, JobTypeOK
<1>6. JobTypeOK'
  BY <1>3, <1>5 DEF JobInv, JobTypeOK
<1>7. QueuedIsUntouched'
  BY <1>1, <1>3, <1>5 DEF JobInv, QueuedIsUntouched
<1>8. OneRunner'
  BY <1>1, <1>3 DEF JobInv, OneRunner
<1>9. BegunByThen'
  <2>1. \A n \in Managers : n # m => exec'[n][j].pc = "none"
    BY <1>3 DEF JobInv, OneRunner
  <2>2. QED
    BY <1>1, <1>3, <1>5, <2>1 DEF JobInv, BegunByThen
<1>10. CancelSettled'
  BY <1>1, <1>3 DEF JobInv, CancelSettled
<1>11. ResultIsWork'
  BY <1>1, <1>3 DEF JobInv, ResultIsWork
<1>12. CompletedIsDone'
  BY DEF JobInv, CompletedIsDone
<1>13. QED
  BY <1>6, <1>7, <1>8, <1>9, <1>10, <1>11, <1>12 DEF JobInv

(* Rows change and executions do not: nothing is queued again or completed, *)
(* and a job with a cancel request stays failed.                            *)
LEMMA RowsKeep ==
    ASSUME JobInv,
           jobs' \in [Jobs -> JobRows],
           \A j \in Jobs : jobs'[j].owner # NoManager <=> jobs'[j].state = "running",
           \A j \in Jobs : jobs'[j].state \in {"absent", "queued"} =>
              jobs[j].state \in {"absent", "queued"},
           \A j \in Jobs : jobs'[j].state = "completed" => jobs[j].state = "completed",
           cancels' \in [Managers -> [Jobs -> {"idle", "signal", "wait", "returned"}]],
           \A m \in Managers, j \in Jobs : cancels'[m][j] # "idle" =>
              j \notin Applies /\ jobs'[j].state = "failed",
           \A m \in Managers, j \in Jobs : cancels'[m][j] = "returned" =>
              cancels[m][j] = "returned",
           phase' \in [Managers -> {"up", "closing", "stopping", "cancelling", "down"}],
           UNCHANGED <<exec, began, done>>
    PROVE  JobInv'
<1>1. JobTypeOK'
  BY DEF JobInv, JobTypeOK
<1>2. QueuedIsUntouched'
  BY DEF JobInv, QueuedIsUntouched
<1>3. OneRunner' /\ BegunByThen' /\ ResultIsWork'
  BY DEF JobInv, OneRunner, BegunByThen, ResultIsWork
<1>4. CancelSettled'
  BY DEF JobInv, CancelSettled
<1>5. CompletedIsDone'
  BY DEF JobInv, CompletedIsDone
<1>6. QED
  BY <1>1, <1>2, <1>3, <1>4, <1>5 DEF JobInv

(* Executions are asked to stop or vanish, cancel requests end or vanish.   *)
LEMMA StopsKeep ==
    ASSUME JobInv,
           exec' \in [Managers -> [Jobs -> Execs]],
           \A m \in Managers, j \in Jobs :
              \/ exec'[m][j] = NoExec
              \/ /\ exec'[m][j].pc = exec[m][j].pc
                 /\ exec'[m][j].result = exec[m][j].result,
           cancels' \in [Managers -> [Jobs -> {"idle", "signal", "wait", "returned"}]],
           \A m \in Managers, j \in Jobs : cancels'[m][j] # "idle" => cancels[m][j] # "idle",
           \A m \in Managers, j \in Jobs : cancels'[m][j] = "returned" =>
              cancels[m][j] = "returned" \/ ~Registered(m, j),
           phase' \in [Managers -> {"up", "closing", "stopping", "cancelling", "down"}],
           UNCHANGED <<jobs, began, done>>
    PROVE  JobInv'
<1>1. JobTypeOK'
  BY DEF JobInv, JobTypeOK
<1>2. NoExec.pc = "none" /\ NoExec.result = "none"
  BY DEF NoExec
<1>3. QueuedIsUntouched'
  BY <1>2 DEF JobInv, QueuedIsUntouched
<1>4. OneRunner'
  <2>1. \A m \in Managers, j \in Jobs : exec'[m][j].pc # "none" => exec[m][j].pc # "none"
    BY ONLY <1>2, \A m \in Managers, j \in Jobs :
              \/ exec'[m][j] = NoExec
              \/ /\ exec'[m][j].pc = exec[m][j].pc
                 /\ exec'[m][j].result = exec[m][j].result
  <2>2. OneRunner
    BY DEF JobInv
  <2>3. QED
    BY ONLY <2>1, <2>2 DEF OneRunner
<1>5. BegunByThen'
  BY <1>2 DEF JobInv, BegunByThen
<1>6. CancelSettled'
  BY <1>2 DEF JobInv, CancelSettled
<1>7. ResultIsWork'
  BY <1>2 DEF JobInv, ResultIsWork
<1>8. CompletedIsDone'
  BY DEF JobInv, CompletedIsDone
<1>9. QED
  BY <1>1, <1>3, <1>4, <1>5, <1>6, <1>7, <1>8 DEF JobInv
----------------------------------------------------------------------------
(* The steps of a worker and of the task that runs its job.                 *)

(* An execution there is none of is one of the executions.                  *)
LEMMA NoExecIsExec == NoExec \in Execs
BY DEF NoExec, Execs

(* What the operations write is a row without an owner.                     *)
LEMMA RowTyped ==
    \A s \in {"queued", "completed", "failed"},
       e \in {"none", "cancelled", "interrupted", "failed"} :
          /\ Row(s, e) \in JobRows
          /\ Row(s, e).state = s /\ Row(s, e).error = e
          /\ Row(s, e).owner = NoManager
BY DEF Row, JobRows, Active, Terminal

(* An execution only moves its program counter, or ends.                    *)
LEMMA GotoKeeps ==
    ASSUME JobInv, NEW m \in Managers, NEW j \in Jobs,
           NEW pc \in {"none", "revalidate", "ready", "drain", "cleanup"},
           Goto(m, j, pc),
           exec[m][j].pc # "none",
           pc \in {"revalidate", "ready"} =>
              exec[m][j].pc \in {"claimed", "revalidate", "ready"},
           cancels[m][j] = "returned" => pc \in {"none", "revalidate", "cleanup"},
           UNCHANGED <<jobs, cancels, phase, began, done>>
    PROVE  JobInv'
<1> DEFINE e == IF pc = "none" THEN NoExec ELSE [exec[m][j] EXCEPT !.pc = pc]
<1>1. exec[m][j] \in Execs
  BY DEF JobInv, JobTypeOK
<1>2. exec' = [exec EXCEPT ![m][j] = e]
  BY DEF Goto, JobInv, JobTypeOK
<1>3. CASE pc = "none"
  <2>1. e = NoExec /\ e \in Execs /\ e.pc = "none" /\ e.result = "none"
    BY <1>3, NoExecIsExec DEF NoExec
  <2> HIDE DEF e
  <2>2. QED
    BY <1>2, <2>1, RunKeeps DEF JobInv, JobTypeOK
<1>4. CASE pc # "none"
  <2>1. e \in Execs /\ e.pc = pc /\ e.result = exec[m][j].result
    BY <1>1, <1>4 DEF Execs
  <2>2. e.result = "completed" => j \in done
    BY <2>1 DEF JobInv, ResultIsWork
  <2>3. /\ e.pc \in {"claimed", "revalidate", "ready"} =>
              exec[m][j].pc \in {"claimed", "revalidate", "ready"}
        /\ cancels[m][j] = "returned" =>
              e.pc \in {"none", "claimed", "revalidate", "cleanup", "last"}
        /\ e.pc \notin {"finish", "last"}
    BY <1>4, <2>1
  <2>4. done \subseteq done' /\ done' \subseteq Jobs /\ done' = done
    BY DEF JobInv, JobTypeOK
  <2> HIDE DEF e
  <2>5. QED
    BY <1>2, <2>1, <2>2, <2>3, <2>4, RunKeeps
<1>5. QED
  BY <1>3, <1>4

(* The work, or an attempt to stop it, came to a result.                    *)
LEMMA ResultKeeps ==
    ASSUME JobInv, NEW m \in Managers, NEW j \in Jobs,
           NEW pc \in {"finish", "cleanup", "last"},
           NEW result \in {"none", "completed", "failed"},
           exec' = [exec EXCEPT ![m][j] = [@ EXCEPT !.pc = pc, !.result = result]],
           exec[m][j].pc # "none",
           pc = "finish" => cancels[m][j] # "returned",
           pc \in {"finish", "last"} => result # "none",
           result = "completed" => j \in done',
           done \subseteq done', done' \subseteq Jobs,
           UNCHANGED <<jobs, cancels, phase, began>>
    PROVE  JobInv'
<1> DEFINE e == [exec[m][j] EXCEPT !.pc = pc, !.result = result]
<1>1. exec[m][j] \in Execs
  BY DEF JobInv, JobTypeOK
<1>2. exec' = [exec EXCEPT ![m][j] = e]
  BY DEF JobInv, JobTypeOK
<1>3. e \in Execs /\ e.pc = pc /\ e.result = result
  BY <1>1 DEF Execs
<1>4. /\ e.pc \notin {"claimed", "revalidate", "ready"}
      /\ cancels[m][j] = "returned" =>
            e.pc \in {"none", "claimed", "revalidate", "cleanup", "last"}
      /\ e.pc \in {"finish", "last"} => e.result \in {"completed", "failed"}
      /\ e.result = "completed" => j \in done'
  BY <1>3
<1> HIDE DEF e
<1>5. QED
  BY ZenonT(40), <1>2, <1>3, <1>4, RunKeeps

(* A running job has no cancel request, and an execution at work or just    *)
(* about to be was told of none.                                            *)
LEMMA NotAnswered ==
    ASSUME JobInv, NEW m \in Managers, NEW j \in Jobs
    PROVE  /\ jobs[j].state = "running" => cancels[m][j] = "idle"
           /\ exec[m][j].pc \in {"ready", "working", "finish", "drain"} =>
                 cancels[m][j] # "returned"
BY DEF JobInv, CancelSettled

(* The claim of a queued job, which nothing ran before.                     *)
LEMMA ClaimKeeps ==
    ASSUME JobInv, NEW m \in Managers, NEW j \in Jobs, Claim(m, j)
    PROVE  JobInv'
<1> DEFINE e == [NoExec EXCEPT !.pc = "claimed"]
           entry == [jobs[j] EXCEPT !.state = "running", !.owner = m, !.live = TRUE]
<1>1. jobs[j] \in JobRows /\ jobs[j].state = "queued"
  BY DEF Claim, JobInv, JobTypeOK
<1>2. entry \in JobRows /\ entry.state = "running" /\ entry.owner = m
  BY <1>1 DEF JobRows, Active
<1>3. e \in Execs /\ e.pc = "claimed" /\ e.result = "none"
  BY DEF NoExec, Execs
<1>4. jobs' = [jobs EXCEPT ![j] = entry] /\ exec' = [exec EXCEPT ![m][j] = e]
  BY DEF Claim, JobInv, JobTypeOK
<1> HIDE DEF e, entry
<1>5. /\ jobs' \in [Jobs -> JobRows]
      /\ \A i \in Jobs : jobs'[i] = IF i = j THEN entry ELSE jobs[i]
      /\ exec' \in [Managers -> [Jobs -> Execs]]
      /\ \A n \in Managers, i \in Jobs :
            exec'[n][i] = IF n = m /\ i = j THEN e ELSE exec[n][i]
  BY <1>2, <1>3, <1>4 DEF JobInv, JobTypeOK
<1>6. began[j] = 0 /\ \A n \in Managers : exec[n][j].pc = "none" /\ cancels[n][j] = "idle"
  BY <1>1 DEF JobInv, QueuedIsUntouched, CancelSettled
<1>7. UNCHANGED <<cancels, phase, began, done>>
  BY DEF Claim
<1>8. JobTypeOK'
  BY <1>2, <1>5, <1>7, JobQueueAssumption DEF JobInv, JobTypeOK
<1>9. QueuedIsUntouched'
  BY <1>2, <1>5, <1>7 DEF JobInv, QueuedIsUntouched
<1>10. OneRunner'
  BY <1>5, <1>6 DEF JobInv, OneRunner
<1>11. BegunByThen'
  BY <1>5, <1>6, <1>7 DEF JobInv, BegunByThen
<1>12. CancelSettled'
  BY <1>5, <1>6, <1>7 DEF JobInv, CancelSettled
<1>13. ResultIsWork'
  BY <1>3, <1>5, <1>7 DEF JobInv, ResultIsWork
<1>14. CompletedIsDone'
  BY <1>2, <1>5, <1>7 DEF JobInv, CompletedIsDone
<1>15. QED
  BY <1>8, <1>9, <1>10, <1>11, <1>12, <1>13, <1>14 DEF JobInv

(* A finish that is let through: the row ends as the work did.              *)
LEMMA FinishKeeps ==
    ASSUME JobInv, NEW m \in Managers, NEW j \in Jobs, Finish(m, j)
    PROVE  JobInv'
<1>1. /\ exec[m][j] \in Execs
      /\ exec[m][j].pc \in {"finish", "last"}
      /\ exec[m][j].result \in {"completed", "failed"}
      /\ exec[m][j].result = "completed" => j \in done
  BY DEF Finish, JobInv, JobTypeOK, ResultIsWork
<1>2. CASE UNCHANGED jobs
  <2>1. Goto(m, j, "none") /\ UNCHANGED <<jobs, cancels, phase, began, done>>
    BY <1>2 DEF Finish
  <2>2. QED
    BY <1>1, <2>1, GotoKeeps
<1> DEFINE entry == Row(exec[m][j].result, IF exec[m][j].result = "failed" THEN "failed" ELSE "none")
<1>3. CASE Owns(m, j) /\ jobs' = [jobs EXCEPT ![j] = entry]
  <2>1. /\ entry \in JobRows /\ entry.owner = NoManager
        /\ entry.state = exec[m][j].result
    BY <1>1, RowTyped
  <2> HIDE DEF entry
  <2>2. /\ jobs' \in [Jobs -> JobRows]
        /\ \A i \in Jobs : jobs'[i] = IF i = j THEN entry ELSE jobs[i]
    BY <1>3, <2>1 DEF JobInv, JobTypeOK
  <2>3. exec' = [exec EXCEPT ![m][j] = NoExec] /\ NoExec \in Execs
    BY NoExecIsExec DEF Finish, Goto
  <2>4. /\ exec' \in [Managers -> [Jobs -> Execs]]
        /\ \A n \in Managers, i \in Jobs :
              exec'[n][i] = IF n = m /\ i = j THEN NoExec ELSE exec[n][i]
    BY <2>3 DEF JobInv, JobTypeOK
  <2>5. NoExec.pc = "none" /\ NoExec.result = "none"
    BY DEF NoExec
  <2>6. UNCHANGED <<cancels, phase, began, done>>
    BY DEF Finish
  <2>7. JobTypeOK'
    BY <1>1, <2>1, <2>2, <2>4, <2>6 DEF JobInv, JobTypeOK
  <2>8. QueuedIsUntouched'
    BY <1>1, <2>1, <2>2, <2>4, <2>5, <2>6 DEF JobInv, QueuedIsUntouched
  <2>9. OneRunner' /\ BegunByThen'
    BY <2>4, <2>5, <2>6 DEF JobInv, OneRunner, BegunByThen
  <2>10. \A n \in Managers : cancels[n][j] = "idle"
    BY <1>3, NotAnswered DEF JobInv
  <2>11. CancelSettled'
    BY <2>2, <2>4, <2>5, <2>6, <2>10 DEF JobInv, CancelSettled
  <2>12. ResultIsWork'
    BY <2>4, <2>5, <2>6 DEF JobInv, ResultIsWork
  <2>13. CompletedIsDone'
    BY <1>1, <2>1, <2>2, <2>6 DEF JobInv, CompletedIsDone
  <2>14. QED
    BY <2>7, <2>8, <2>9, <2>11, <2>12, <2>13 DEF JobInv
<1>4. QED
  BY <1>2, <1>3 DEF Finish

(* Every step of the task that runs a job.                                  *)
LEMMA RunStepKeeps ==
    ASSUME JobInv, NEW m \in Managers, NEW j \in Jobs, Run(m, j)
    PROVE  JobInv'
<1>1. CASE Register(m, j)
  BY <1>1, GotoKeeps DEF Register
<1>2. CASE Revalidate(m, j)
  <2>1. exec[m][j].pc = "revalidate" /\ UNCHANGED <<jobs, cancels, phase, done>>
    BY <1>2 DEF Revalidate
  <2>2. CASE ~Owns(m, j) /\ Goto(m, j, "none") /\ UNCHANGED began
    BY <2>1, <2>2, GotoKeeps
  <2>3. CASE Owns(m, j) /\ j \in Applies /\ Goto(m, j, "ready") /\ UNCHANGED began
    <3>1. cancels[m][j] = "idle"
      BY <2>3, NotAnswered
    <3>2. QED
      BY <2>1, <2>3, <3>1, GotoKeeps
  <2>4. CASE Owns(m, j) /\ j \notin Applies /\ Begin(m, j)
    <3>1. cancels[m][j] = "idle"
      BY <2>4, NotAnswered
    <3>2. QED
      BY <2>1, <2>4, <3>1, BeginKeeps
  <2>5. QED
    BY <1>2, <2>2, <2>3, <2>4 DEF Revalidate
<1>3. CASE Ready(m, j)
  <2>1. /\ exec[m][j].pc = "ready" /\ cancels[m][j] # "returned"
        /\ UNCHANGED <<jobs, cancels, phase, done>>
    BY <1>3, NotAnswered DEF Ready
  <2>2. CASE Begin(m, j)
    BY <2>1, <2>2, BeginKeeps
  <2>3. CASE /\ exec' = [exec EXCEPT ![m][j] = [@ EXCEPT !.pc = "finish", !.result = "failed"]]
             /\ UNCHANGED began
    BY <2>1, <2>3, ResultKeeps DEF JobInv, JobTypeOK
  <2>4. QED
    BY <1>3, <2>2, <2>3 DEF Ready
<1>4. CASE WorkEnds(m, j)
  <2>1. /\ exec[m][j].pc = "working" /\ cancels[m][j] # "returned"
        /\ UNCHANGED <<jobs, cancels, phase, began>>
    BY <1>4, NotAnswered DEF WorkEnds
  <2>2. PICK result \in {"completed", "failed"} :
           /\ exec' = [exec EXCEPT ![m][j] = [@ EXCEPT !.pc = "finish", !.result = result]]
           /\ done' = IF result = "completed" THEN done \union {j} ELSE done
    BY <1>4 DEF WorkEnds
  <2>3. /\ done \subseteq done' /\ done' \subseteq Jobs
        /\ result = "completed" => j \in done'
    BY <2>2 DEF JobInv, JobTypeOK
  <2>4. QED
    BY <2>1, <2>2, <2>3, ResultKeeps
<1>5. CASE Interrupt(m, j)
  <2>1. UNCHANGED <<jobs, cancels, phase, began, done>>
    BY <1>5 DEF Interrupt
  <2>2. CASE At(m, j, "revalidate") /\ Goto(m, j, "none")
    BY <2>1, <2>2, GotoKeeps
  <2>3. CASE exec[m][j].pc \in {"revalidate", "ready"} /\ Goto(m, j, "cleanup")
    BY <2>1, <2>3, GotoKeeps
  <2>4. CASE At(m, j, "working") /\ Goto(m, j, IF j \in Applies THEN "drain" ELSE "cleanup")
    BY <2>1, <2>4, GotoKeeps, NotAnswered
  <2>5. QED
    BY <1>5, <2>2, <2>3, <2>4 DEF Interrupt
<1>6. CASE InterruptFinish(m, j)
  <2>1. /\ exec[m][j].pc = "finish"
        /\ UNCHANGED <<jobs, cancels, phase, began, done>>
        /\ exec[m][j].result \in {"completed", "failed"}
        /\ exec[m][j].result = "completed" => j \in done
    BY <1>6 DEF InterruptFinish, JobInv, ResultIsWork
  <2>2. CASE Goto(m, j, "none")
    BY <2>1, <2>2, GotoKeeps
  <2> DEFINE result == IF j \in Applies THEN exec[m][j].result ELSE "failed"
  <2>3. CASE exec' = [exec EXCEPT ![m][j] = [@ EXCEPT !.pc = "cleanup", !.result = result]]
    <3>1. result \in {"none", "completed", "failed"} /\ (result = "completed" => j \in done')
      BY <2>1
    <3> HIDE DEF result
    <3>2. QED
      BY <2>1, <2>3, <3>1, ResultKeeps DEF JobInv, JobTypeOK
  <2>4. QED
    BY <1>6, <2>2, <2>3 DEF InterruptFinish
<1>7. CASE Drain(m, j)
  <2>1. exec[m][j].pc = "drain" /\ UNCHANGED <<jobs, cancels, phase, began>>
    BY <1>7 DEF Drain
  <2>2. PICK result \in {"completed", "failed"} :
           /\ exec' = [exec EXCEPT ![m][j] = [@ EXCEPT !.pc = "cleanup", !.result = result]]
           /\ done' = IF result = "completed" THEN done \union {j} ELSE done
    BY <1>7 DEF Drain
  <2>3. /\ done \subseteq done' /\ done' \subseteq Jobs
        /\ result = "completed" => j \in done'
    BY <2>2 DEF JobInv, JobTypeOK
  <2>4. QED
    BY <2>1, <2>2, <2>3, ResultKeeps
<1>8. CASE Cleanup(m, j)
  <2>1. /\ exec[m][j].pc = "cleanup" /\ exec[m][j] \in Execs
        /\ UNCHANGED <<jobs, cancels, phase, began, done>>
    BY <1>8 DEF Cleanup, JobInv, JobTypeOK
  <2>2. CASE exec[m][j].stop \in {"user", "lost"}
    <3>1. Goto(m, j, "none")
      BY <1>8, <2>2 DEF Cleanup
    <3>2. QED
      BY <2>1, <3>1, GotoKeeps
  <2> DEFINE result == IF exec[m][j].result = "completed" THEN "completed" ELSE "failed"
  <2>3. CASE exec[m][j].stop \notin {"user", "lost"}
    <3>1. exec' = [exec EXCEPT ![m][j] = [@ EXCEPT !.pc = "last", !.result = result]]
      BY <1>8, <2>3 DEF Cleanup
    <3>2. result \in {"completed", "failed"} /\ (result = "completed" => j \in done')
      BY <2>1 DEF JobInv, ResultIsWork
    <3> HIDE DEF result
    <3>3. QED
      BY <2>1, <3>1, <3>2, ResultKeeps DEF JobInv, JobTypeOK
  <2>4. QED
    BY <2>2, <2>3
<1>9. CASE Finish(m, j)
  BY <1>9, FinishKeeps
<1>10. QED
  BY <1>1, <1>2, <1>3, <1>4, <1>5, <1>6, <1>7, <1>8, <1>9 DEF Run
----------------------------------------------------------------------------
(* Requests, leases, the reaper and the life of a manager.                  *)

(* A request queues a new row, or fails the row it cancels, or waits.       *)
LEMMA RequestKeeps ==
    ASSUME JobInv, NEW m \in Managers, NEW j \in Jobs, Request(m, j)
    PROVE  JobInv'
<1>1. CASE Enqueue(m, j)
  <2>1. jobs' = [jobs EXCEPT ![j] = Row("queued", "none")] /\ jobs[j].state = "absent"
    BY <1>1 DEF Enqueue
  <2>2. /\ jobs' \in [Jobs -> JobRows]
        /\ \A i \in Jobs : jobs'[i] = IF i = j THEN Row("queued", "none") ELSE jobs[i]
    BY <2>1, RowTyped DEF JobInv, JobTypeOK
  <2>3. \A n \in Managers : cancels[n][j] = "idle"
    BY <2>1 DEF JobInv, CancelSettled
  <2>4. UNCHANGED <<exec, cancels, phase, began, done>>
    BY <1>1 DEF Enqueue
  <2>5. QED
    BY <2>1, <2>2, <2>3, <2>4, RowTyped, RowsKeep DEF JobInv, JobTypeOK, CancelSettled
<1>2. CASE Cancel(m, j)
  <2>1. /\ j \notin Applies
        /\ cancels' = [cancels EXCEPT ![m][j] = "signal"]
        /\ UNCHANGED <<exec, phase, began, done>>
    BY <1>2 DEF Cancel
  <2>2. /\ jobs' \in [Jobs -> JobRows]
        /\ jobs'[j].state = "failed" /\ jobs'[j].owner = NoManager
        /\ \A i \in Jobs : i # j => jobs'[i] = jobs[i]
    BY <1>2, RowTyped DEF Cancel, JobInv, JobTypeOK
  <2>3. /\ cancels' \in [Managers -> [Jobs -> {"idle", "signal", "wait", "returned"}]]
        /\ \A n \in Managers, i \in Jobs :
              cancels'[n][i] = IF n = m /\ i = j THEN "signal" ELSE cancels[n][i]
    BY <2>1 DEF JobInv, JobTypeOK
  <2>4. \A n \in Managers, i \in Jobs : cancels'[n][i] # "idle" =>
           i \notin Applies /\ jobs'[i].state = "failed"
    BY <2>1, <2>2, <2>3 DEF JobInv, CancelSettled
  <2>5. \A i \in Jobs : jobs'[i].owner # NoManager <=> jobs'[i].state = "running"
    BY <2>2 DEF JobInv, JobTypeOK
  <2>6. /\ \A i \in Jobs : jobs'[i].state \in {"absent", "queued"} =>
              jobs[i].state \in {"absent", "queued"}
        /\ \A i \in Jobs : jobs'[i].state = "completed" => jobs[i].state = "completed"
    BY <2>2
  <2>7. \A n \in Managers, i \in Jobs : cancels'[n][i] = "returned" =>
           cancels[n][i] = "returned"
    BY <2>3
  <2>8. phase' \in [Managers -> {"up", "closing", "stopping", "cancelling", "down"}]
    BY <2>1 DEF JobInv, JobTypeOK
  <2>9. QED
    BY <2>1, <2>2, <2>3, <2>4, <2>5, <2>6, <2>7, <2>8, RowsKeep
<1>3. CASE Signal(m, j)
  <2>1. exec[m][j] \in Execs
    BY DEF JobInv, JobTypeOK
  <2> DEFINE e == Stopped(exec[m][j], "user")
  <2>2. e \in Execs /\ e.pc = exec[m][j].pc /\ e.result = exec[m][j].result
    BY <2>1 DEF Stopped, Execs
  <2>3. exec' = exec \/ exec' = [exec EXCEPT ![m][j] = e]
    BY <1>3 DEF Signal, JobInv, JobTypeOK
  <2> HIDE DEF e
  <2>4. /\ exec' \in [Managers -> [Jobs -> Execs]]
        /\ \A n \in Managers, i \in Jobs :
              exec'[n][i].pc = exec[n][i].pc /\ exec'[n][i].result = exec[n][i].result
    <3>1. CASE exec' = exec
      BY <3>1 DEF JobInv, JobTypeOK
    <3>2. CASE exec' = [exec EXCEPT ![m][j] = e]
      BY <2>2, <3>2 DEF JobInv, JobTypeOK
    <3>3. QED
      BY <2>3, <3>1, <3>2
  <2> DEFINE answer == IF Registered(m, j) THEN "wait" ELSE "returned"
  <2>5. cancels' = [cancels EXCEPT ![m][j] = answer] /\ cancels[m][j] = "signal"
    BY <1>3 DEF Signal
  <2>6. /\ cancels' \in [Managers -> [Jobs -> {"idle", "signal", "wait", "returned"}]]
        /\ \A n \in Managers, i \in Jobs :
              cancels'[n][i] = IF n = m /\ i = j THEN answer ELSE cancels[n][i]
    BY <2>5 DEF JobInv, JobTypeOK
  <2>7. UNCHANGED <<jobs, phase, began, done>>
    BY <1>3 DEF Signal
  <2>8. QED
    BY <2>4, <2>5, <2>6, <2>7, StopsKeep DEF JobInv, JobTypeOK
<1>4. CASE Awaited(m, j)
  <2>1. /\ cancels' = [cancels EXCEPT ![m][j] = "returned"]
        /\ cancels[m][j] = "wait" /\ ~Registered(m, j)
        /\ UNCHANGED <<jobs, exec, phase, began, done>>
    BY <1>4 DEF Awaited
  <2>2. /\ cancels' \in [Managers -> [Jobs -> {"idle", "signal", "wait", "returned"}]]
        /\ \A n \in Managers, i \in Jobs :
              cancels'[n][i] = IF n = m /\ i = j THEN "returned" ELSE cancels[n][i]
    BY <2>1 DEF JobInv, JobTypeOK
  <2>3. QED
    BY <2>1, <2>2, StopsKeep DEF JobInv, JobTypeOK
<1>5. QED
  BY <1>1, <1>2, <1>3, <1>4 DEF Request

(* A heartbeat only asks for a stop.                                        *)
LEMMA BeatKeeps ==
    ASSUME JobInv, NEW m \in Managers, NEW j \in Jobs, Beat(m, j)
    PROVE  JobInv'
<1> DEFINE e == Stopped(exec[m][j], "lost")
<1>1. exec[m][j] \in Execs
  BY DEF JobInv, JobTypeOK
<1>2. e \in Execs /\ e.pc = exec[m][j].pc /\ e.result = exec[m][j].result
  BY <1>1 DEF Stopped, Execs
<1>3. exec' = [exec EXCEPT ![m][j] = e] /\ UNCHANGED <<jobs, cancels, phase, began, done>>
  BY DEF Beat, JobInv, JobTypeOK
<1> HIDE DEF e
<1>4. /\ exec' \in [Managers -> [Jobs -> Execs]]
      /\ \A n \in Managers, i \in Jobs :
            exec'[n][i].pc = exec[n][i].pc /\ exec'[n][i].result = exec[n][i].result
  BY <1>2, <1>3 DEF JobInv, JobTypeOK
<1>5. QED
  BY <1>3, <1>4, StopsKeep DEF JobInv, JobTypeOK

(* The reaper only touches running jobs, and fails them.                    *)
LEMMA ReapedEffect ==
    ASSUME JobInv, jobs' = Reaped
    PROVE  /\ jobs' \in [Jobs -> JobRows]
           /\ \A j \in Jobs :
                 \/ jobs'[j] = jobs[j]
                 \/ /\ jobs[j].state = "running"
                    /\ jobs'[j].state = "failed" /\ jobs'[j].owner = NoManager
BY RowTyped DEF Reaped, JobInv, JobTypeOK

(* Hence the reaper, also the one that runs at the start, keeps JobInv.     *)
LEMMA ReapedKeeps ==
    ASSUME JobInv, jobs' = Reaped,
           phase' \in [Managers -> {"up", "closing", "stopping", "cancelling", "down"}],
           UNCHANGED <<exec, cancels, began, done>>
    PROVE  JobInv'
<1>1. \A m \in Managers, j \in Jobs : cancels'[m][j] # "idle" =>
         j \notin Applies /\ jobs'[j].state = "failed"
  BY ReapedEffect DEF JobInv, CancelSettled
<1>2. \A j \in Jobs : jobs'[j].owner # NoManager <=> jobs'[j].state = "running"
  BY ReapedEffect DEF JobInv, JobTypeOK
<1>3. QED
  BY <1>1, <1>2, ReapedEffect, RowsKeep DEF JobInv, JobTypeOK

(* An expiry says nothing of the state or the owner.                        *)
LEMMA LeaseExpiresKeeps ==
    ASSUME JobInv, NEW j \in Jobs, LeaseExpires(j)
    PROVE  JobInv'
<1> DEFINE entry == [jobs[j] EXCEPT !.live = FALSE]
<1>1. jobs[j] \in JobRows
  BY DEF JobInv, JobTypeOK
<1>2. entry \in JobRows /\ entry.state = jobs[j].state /\ entry.owner = jobs[j].owner
  BY <1>1 DEF JobRows
<1>3. jobs' = [jobs EXCEPT ![j] = entry] /\ UNCHANGED <<exec, cancels, phase, began, done>>
  BY DEF LeaseExpires, JobInv, JobTypeOK
<1> HIDE DEF entry
<1>4. /\ jobs' \in [Jobs -> JobRows]
      /\ \A i \in Jobs : jobs'[i].state = jobs[i].state /\ jobs'[i].owner = jobs[i].owner
  BY <1>2, <1>3 DEF JobInv, JobTypeOK
<1>5. QED
  BY <1>3, <1>4, RowsKeep DEF JobInv, JobTypeOK, CancelSettled

(* Whatever ends a manager only stops or forgets its executions.            *)
LEMMA LifeKeeps ==
    ASSUME JobInv, NEW m \in Managers, Life(m)
    PROVE  JobInv'
<1>0. phase \in [Managers -> {"up", "closing", "stopping", "cancelling", "down"}]
  BY DEF JobInv, JobTypeOK
<1>1. CASE Crash(m)
  <2> DEFINE nobody == [j \in Jobs |-> NoExec]
             silent == [j \in Jobs |-> "idle"]
  <2>1. /\ exec' = [exec EXCEPT ![m] = nobody]
        /\ cancels' = [cancels EXCEPT ![m] = silent]
        /\ UNCHANGED <<jobs, began, done>>
    BY <1>1 DEF Crash
  <2>2. /\ nobody \in [Jobs -> Execs]
        /\ silent \in [Jobs -> {"idle", "signal", "wait", "returned"}]
        /\ \A j \in Jobs : nobody[j] = NoExec /\ silent[j] = "idle"
    BY NoExecIsExec
  <2> HIDE DEF nobody, silent
  <2>3. /\ exec' \in [Managers -> [Jobs -> Execs]]
        /\ cancels' \in [Managers -> [Jobs -> {"idle", "signal", "wait", "returned"}]]
        /\ \A n \in Managers, j \in Jobs :
              /\ exec'[n][j] = IF n = m THEN NoExec ELSE exec[n][j]
              /\ cancels'[n][j] = IF n = m THEN "idle" ELSE cancels[n][j]
    BY <2>1, <2>2 DEF JobInv, JobTypeOK
  <2>4. phase' \in [Managers -> {"up", "closing", "stopping", "cancelling", "down"}]
    BY <1>0, <1>1 DEF Crash
  <2>5. QED
    BY <2>1, <2>3, <2>4, StopsKeep
<1>2. CASE Start(m)
  <2>1. phase' \in [Managers -> {"up", "closing", "stopping", "cancelling", "down"}]
    BY <1>0, <1>2 DEF Start
  <2>2. QED
    BY <1>2, <2>1, ReapedKeeps DEF Start
<1>3. CASE Close(m) \/ Closed(m)
  <2>1. phase' \in [Managers -> {"up", "closing", "stopping", "cancelling", "down"}]
    BY <1>0, <1>3 DEF Close, Closed
  <2>2. UNCHANGED <<jobs, exec, cancels, began, done>>
    BY <1>3 DEF Close, Closed
  <2>3. QED
    BY <2>1, <2>2, StopsKeep DEF JobInv, JobTypeOK
<1>4. CASE StopAll(m) \/ CancelWorkers(m)
  <2> DEFINE asked(j, reason) ==
                IF Registered(m, j) THEN Stopped(exec[m][j], reason)
                ELSE IF reason = "shutdown" THEN exec[m][j] ELSE NoExec
  <2>1. phase' \in [Managers -> {"up", "closing", "stopping", "cancelling", "down"}]
    BY <1>0, <1>4 DEF StopAll, CancelWorkers
  <2>2. UNCHANGED <<jobs, cancels, began, done>>
    BY <1>4 DEF StopAll, CancelWorkers
  <2>3. PICK reason \in {"shutdown", "worker"} :
           exec' = [exec EXCEPT ![m] = [j \in Jobs |-> asked(j, reason)]]
    <3>1. CASE StopAll(m)
      BY <3>1 DEF StopAll, JobInv, JobTypeOK
    <3>2. CASE CancelWorkers(m)
      BY <3>2 DEF CancelWorkers, JobInv, JobTypeOK
    <3>3. QED
      BY <1>4, <3>1, <3>2
  <2>4. \A j \in Jobs :
           /\ asked(j, reason) \in Execs
           /\ \/ asked(j, reason) = NoExec
              \/ /\ asked(j, reason).pc = exec[m][j].pc
                 /\ asked(j, reason).result = exec[m][j].result
    <3>1. SUFFICES ASSUME NEW j \in Jobs
                   PROVE  /\ asked(j, reason) \in Execs
                          /\ \/ asked(j, reason) = NoExec
                             \/ /\ asked(j, reason).pc = exec[m][j].pc
                                /\ asked(j, reason).result = exec[m][j].result
      OBVIOUS
    <3>2. exec[m][j] \in Execs
      BY DEF JobInv, JobTypeOK
    <3>3. QED
      BY <3>2, NoExecIsExec DEF Stopped, Execs
  <2> HIDE DEF asked
  <2>5. /\ exec' \in [Managers -> [Jobs -> Execs]]
        /\ \A n \in Managers, j \in Jobs :
              exec'[n][j] = IF n = m THEN asked(j, reason) ELSE exec[n][j]
    BY <2>3, <2>4 DEF JobInv, JobTypeOK
  <2>6. \A n \in Managers, j \in Jobs :
           \/ exec'[n][j] = NoExec
           \/ /\ exec'[n][j].pc = exec[n][j].pc
              /\ exec'[n][j].result = exec[n][j].result
    BY <2>4, <2>5
  <2>7. QED
    BY <2>1, <2>2, <2>5, <2>6, StopsKeep DEF JobInv, JobTypeOK
<1>5. QED
  BY <1>1, <1>2, <1>3, <1>4 DEF Life
----------------------------------------------------------------------------
(* The theorems.                                                            *)

(* Nothing is queued and nothing runs at first.                             *)
LEMMA InitEstablishes == Init => JobInv
<1> SUFFICES ASSUME Init PROVE JobInv
  OBVIOUS
<1>1. /\ Row("absent", "none") \in JobRows
      /\ Row("absent", "none").owner = NoManager
      /\ Row("absent", "none").state = "absent"
  BY DEF Row, JobRows
<1>2. NoExec \in Execs /\ NoExec.pc = "none" /\ NoExec.result = "none"
  BY NoExecIsExec DEF NoExec
<1>3. JobTypeOK
  BY <1>1, <1>2 DEF Init, JobTypeOK
<1>4. QueuedIsUntouched /\ OneRunner /\ BegunByThen
  BY <1>2 DEF Init, QueuedIsUntouched, OneRunner, BegunByThen
<1>5. CancelSettled /\ ResultIsWork /\ CompletedIsDone
  BY <1>1, <1>2 DEF Init, CancelSettled, ResultIsWork, CompletedIsDone
<1>6. QED
  BY <1>3, <1>4, <1>5 DEF JobInv

(* Every step keeps the invariant.                                          *)
LEMMA NextKeeps == JobInv /\ [Next]_vars => JobInv'
<1> SUFFICES ASSUME JobInv, [Next]_vars PROVE JobInv'
  OBVIOUS
<1>1. ASSUME NEW m \in Managers, NEW j \in Jobs,
             Request(m, j) \/ Claim(m, j) \/ Run(m, j) \/ Beat(m, j)
      PROVE  JobInv'
  BY <1>1, RequestKeeps, ClaimKeeps, RunStepKeeps, BeatKeeps
<1>2. ASSUME NEW j \in Jobs, LeaseExpires(j)
      PROVE  JobInv'
  BY <1>2, LeaseExpiresKeeps
<1>3. ASSUME NEW m \in Managers, Reap(m) \/ Life(m)
      PROVE  JobInv'
  <2>1. CASE Reap(m)
    <3>1. jobs' = Reaped /\ UNCHANGED <<exec, cancels, phase, began, done>>
      BY <2>1 DEF Reap
    <3>2. QED
      BY <3>1, ReapedKeeps DEF JobInv, JobTypeOK
  <2>2. QED
    BY <1>3, <2>1, LifeKeeps
<1>4. CASE UNCHANGED vars
  BY <1>4, StopsKeep DEF vars, JobInv, JobTypeOK
<1>5. QED
  BY <1>1, <1>2, <1>3, <1>4 DEF Next

(* The row and the execution of every job always agree (the inductive       *)
(* invariant of jobs.py over the statements of postgres_repository.py).     *)
THEOREM JobInvHolds == Spec => []JobInv
<1>1. QED
  BY InitEstablishes, NextKeeps, PTL DEF Spec

(* Rows, executions and cancel requests are well formed; in particular a    *)
(* row has an owner exactly while its job is running.                       *)
THEOREM JobTypeCorrect == Spec => []JobTypeOK
<1>1. JobInv => JobTypeOK
  BY DEF JobInv
<1>2. QED
  BY <1>1, JobInvHolds, PTL

(* However many managers and workers there are, and whatever crashes, a     *)
(* job's work is begun at most once: only the claim leaves the queue, and   *)
(* nothing goes back to it.                                                 *)
THEOREM JobBegunOnce == Spec => []BegunOnce
<1>1. JobInv => BegunOnce
  BY DEF JobInv, BegunByThen, BegunOnce
<1>2. QED
  BY <1>1, JobInvHolds, PTL

(* A cancel request that was answered leaves no work on its manager, the    *)
(* revalidation of a claim being what closes the gap before registration.   *)
THEOREM AnsweredCancelStopped == Spec => []CancelStopped
<1>1. JobInv => CancelStopped
  BY DEF JobInv, CancelSettled, CancelStopped
<1>2. QED
  BY <1>1, JobInvHolds, PTL

(* A job is only reported as completed by the execution that did its work.  *)
THEOREM CompletedWasDone == Spec => []CompletedIsDone
<1>1. JobInv => CompletedIsDone
  BY DEF JobInv
<1>2. QED
  BY <1>1, JobInvHolds, PTL

(* No finish, reap or cancel changes a job that has ended.                  *)
THEOREM OutcomesStay == Spec => OutcomeStays
<1>1. ASSUME JobInv, [Next]_vars, NEW j \in Jobs, jobs[j].state \in Terminal
      PROVE  jobs'[j] = jobs[j]
  <2>1. jobs \in [Jobs -> JobRows]
    BY <1>1 DEF JobInv, JobTypeOK
  <2>2. ASSUME NEW m \in Managers, NEW i \in Jobs, Request(m, i)
        PROVE  jobs'[j] = jobs[j]
    BY <1>1, <2>1, <2>2
       DEF Request, Enqueue, Cancel, Signal, Awaited, Terminal, Active
  <2>3. ASSUME NEW m \in Managers, NEW i \in Jobs, Claim(m, i) \/ Beat(m, i)
        PROVE  jobs'[j] = jobs[j]
    BY <1>1, <2>1, <2>3 DEF Claim, Beat, Terminal
  <2>4. ASSUME NEW m \in Managers, NEW i \in Jobs, Run(m, i)
        PROVE  jobs'[j] = jobs[j]
    <3>1. CASE Finish(m, i)
      BY <1>1, <2>1, <3>1 DEF Finish, Terminal
    <3>2. CASE ~Finish(m, i)
      BY <2>4, <3>2 DEF Run, Register, Revalidate, Ready, WorkEnds, Interrupt,
                        InterruptFinish, Drain, Cleanup
    <3>3. QED
      BY <3>1, <3>2
  <2>5. ASSUME NEW i \in Jobs, LeaseExpires(i)
        PROVE  jobs'[j] = jobs[j]
    BY <1>1, <2>1, <2>5 DEF LeaseExpires, Terminal
  <2>6. ASSUME NEW m \in Managers, Reap(m) \/ Life(m)
        PROVE  jobs'[j] = jobs[j]
    BY <1>1, <2>6 DEF Reap, Life, Crash, Start, Close, StopAll, CancelWorkers, Closed,
                      Reaped, Terminal
  <2>7. CASE UNCHANGED vars
    BY <2>7 DEF vars
  <2>8. QED
    BY <1>1, <2>2, <2>3, <2>4, <2>5, <2>6, <2>7 DEF Next
<1>2. JobInv /\ [Next]_vars =>
         [\A j \in Jobs : jobs[j].state \in Terminal => jobs'[j] = jobs[j]]_vars
  BY <1>1
<1>3. QED
  BY <1>2, JobInvHolds, PTL DEF Spec, OutcomeStays

(* Everything the queue answers for, for any managers, workers and jobs: a  *)
(* job is begun once, an answered cancel left no work, "completed" is true. *)
THEOREM WorkStaysAccounted == Spec => []WorkAccounted
  BY JobTypeCorrect, JobBegunOnce, AnsweredCancelStopped, CompletedWasDone, PTL DEF WorkAccounted

-----------------------------------------------------------------------------
(* The tables: what the keys and the unique index let the rows be, and      *)
(* that, read back, they are the repository of the tests.                   *)

OneRowEach(rows) == \A r, s \in rows : r[1] = s[1] /\ r[2] = s[2] => r = s
OfCandidates(rows, cands) == \A r \in rows : <<r[1], r[2]>> \in cands
Paired(rows, values) == rows \subseteq StoredPlans \X Cands \X values

MoveRowsSound ==
    /\ planRows \subseteq StoredPlans /\ candRows \subseteq planRows \X Cands
    /\ Paired(resultRows, Verdicts) /\ Paired(journalRows, JournalSteps) /\ Paired(operationRows, CloudSteps)
    /\ OfCandidates(resultRows, candRows) /\ OfCandidates(journalRows, candRows) /\ OfCandidates(operationRows, candRows)
    /\ OneRowEach(resultRows) /\ OneRowEach(journalRows) /\ OneRowEach(operationRows)
    /\ \A r \in operationRows : r[2] \in CloudCands
    /\ UniqueSource(operationRows)

JobRecords ==
    [job : AllJobs, state : {"queued", "running", "completed", "failed"}, plan : StoredPlans \cup {Null},
     owner : Owners \cup {Null}, live : BOOLEAN, error : {"none", "failed", "cancelled", "interrupted"}]
ApplyRecords == [job : ApplyIds, asked : Selections, result : {"none", "result"}]
OneEach(rows) == \A r, s \in rows : r.job = s.job => r = s

JobRowsSound ==
    /\ jobRows \subseteq JobRecords /\ IsFiniteSet(jobRows) /\ OneEach(jobRows)
    /\ applyRows \subseteq ApplyRecords /\ OneEach(applyRows)
    /\ \A x \in applyRows : HasJob(x.job)
    /\ \A r \in jobRows : r.job \in ApplyIds => \E x \in applyRows : x.job = r.job

TablesInv == MoveRowsSound /\ JobRowsSound

(* What is read of a table that has one row of each candidate.              *)
LEMMA ValuedOfRow ==
  ASSUME NEW rows, OneRowEach(rows), NEW r \in rows, r[1] \in StoredPlans, r[2] \in Cands
  PROVE  Valued(rows)[r[1]][r[2]] = r[3]
<1> DEFINE p == r[1]
           c == r[2]
           picked == CHOOSE s \in rows : s[1] = p /\ s[2] = c
<1>1. picked \in rows /\ picked[1] = p /\ picked[2] = c
  OBVIOUS
<1>2. picked = r
  BY <1>1 DEF OneRowEach
<1>3. Valued(rows)[p][c] = picked[3]
  BY DEF Valued
<1> QED
  BY <1>2, <1>3

LEMMA ValuedOfNoRow ==
  ASSUME NEW rows, NEW p \in StoredPlans, NEW c \in Cands, ~\E r \in rows : r[1] = p /\ r[2] = c
  PROVE  Valued(rows)[p][c] = "none"
BY DEF Valued

(* The value read tells whether there is a row.                             *)
LEMMA ReadIsStored ==
  ASSUME NEW rows, NEW values, Paired(rows, values), OneRowEach(rows), NEW p \in StoredPlans, NEW c \in Cands
  PROVE  \/ Valued(rows)[p][c] \in values /\ <<p, c, Valued(rows)[p][c]>> \in rows
         \/ Valued(rows)[p][c] = "none" /\ ~\E r \in rows : r[1] = p /\ r[2] = c
<1>1. CASE \E r \in rows : r[1] = p /\ r[2] = c
  <2>1. PICK r \in rows : r[1] = p /\ r[2] = c
    BY <1>1
  <2>2. r = <<p, c, r[3]>> /\ r[3] \in values
    BY <2>1 DEF Paired
  <2>3. Valued(rows)[p][c] = r[3]
    BY <2>1, ValuedOfRow
  <2> QED
    BY <2>2, <2>3
<1>2. CASE ~\E r \in rows : r[1] = p /\ r[2] = c
  BY <1>2, ValuedOfNoRow
<1> QED
  BY <1>1, <1>2

(* Two tables read the same value where they have the same rows.            *)
LEMMA ReadsAgree ==
  ASSUME NEW rows, NEW others, OneRowEach(rows), OneRowEach(others), NEW p \in StoredPlans, NEW c \in Cands,
         \A r : r \in rows /\ r[1] = p /\ r[2] = c <=> r \in others /\ r[1] = p /\ r[2] = c
  PROVE  Valued(rows)[p][c] = Valued(others)[p][c]
<1>1. CASE \E r \in rows : r[1] = p /\ r[2] = c
  <2>1. PICK r \in rows : r[1] = p /\ r[2] = c
    BY <1>1
  <2>2. r \in others
    BY <2>1
  <2> QED
    BY <2>1, <2>2, ValuedOfRow
<1>2. CASE ~\E r \in rows : r[1] = p /\ r[2] = c
  <2>1. ~\E r \in others : r[1] = p /\ r[2] = c
    BY <1>2
  <2> QED
    BY <1>2, <2>1, ValuedOfNoRow
<1> QED
  BY <1>1, <1>2

LEMMA ValuedIs ==
  ASSUME NEW rows
  PROVE  /\ Valued(rows) = [p \in StoredPlans |-> Valued(rows)[p]]
         /\ \A p \in StoredPlans : Valued(rows)[p] = [c \in Cands |-> Valued(rows)[p][c]]
BY DEF Valued

(* An upsert keeps one row of each candidate, and sets what is read of it.  *)
LEMMA UpsertKeeps ==
  ASSUME NEW rows, NEW values, Paired(rows, values), OneRowEach(rows),
         NEW p \in StoredPlans, NEW c \in Cands, NEW v \in values
  PROVE  Paired(Upsert(rows, p, c, v), values) /\ OneRowEach(Upsert(rows, p, c, v))
BY DEF Paired, OneRowEach, Upsert

LEMMA UpsertReads ==
  ASSUME NEW rows, NEW values, Paired(rows, values), OneRowEach(rows),
         NEW p \in StoredPlans, NEW c \in Cands, NEW v \in values
  PROVE  Valued(Upsert(rows, p, c, v)) = [Valued(rows) EXCEPT ![p][c] = v]
<1> DEFINE new == Upsert(rows, p, c, v)
<1>1. Paired(new, values) /\ OneRowEach(new)
  BY UpsertKeeps
<1>2. Valued(new)[p][c] = v
  <2>1. <<p, c, v>> \in new
    BY DEF Upsert
  <2> QED
    BY <1>1, <2>1, ValuedOfRow, <<p, c, v>>[1] = p, <<p, c, v>>[2] = c, <<p, c, v>>[3] = v
<1>3. ASSUME NEW q \in StoredPlans, NEW d \in Cands, q # p \/ d # c
      PROVE  Valued(new)[q][d] = Valued(rows)[q][d]
  <2>1. \A r : r \in new /\ r[1] = q /\ r[2] = d <=> r \in rows /\ r[1] = q /\ r[2] = d
    BY <1>3 DEF Upsert
  <2> QED
    BY <1>1, <2>1, ReadsAgree
<1>4. Valued(rows) = [q \in StoredPlans |-> Valued(rows)[q]]
      /\ \A q \in StoredPlans : Valued(rows)[q] = [d \in Cands |-> Valued(rows)[q][d]]
  BY ValuedIs
<1>5. Valued(new) = [q \in StoredPlans |-> Valued(new)[q]]
      /\ \A q \in StoredPlans : Valued(new)[q] = [d \in Cands |-> Valued(new)[q][d]]
  BY ValuedIs
<1>6. Valued(new)[p] = [Valued(rows)[p] EXCEPT ![c] = v]
  BY <1>2, <1>3, <1>4, <1>5
<1>7. \A q \in StoredPlans : q # p => Valued(new)[q] = Valued(rows)[q]
  BY <1>3, <1>4, <1>5
<1> HIDE DEF new
<1>8. Valued(new) = [Valued(rows) EXCEPT ![p] = [Valued(rows)[p] EXCEPT ![c] = v]]
  BY <1>4, <1>5, <1>6, <1>7
<1> QED
  BY <1>8 DEF new

(* What the foreign keys leave of a table is what is read of the candidates left. *)
LEMMA CascadeKeeps ==
  ASSUME NEW rows, NEW values, Paired(rows, values), OneRowEach(rows), NEW cands
  PROVE  /\ Paired(Cascade(rows, cands), values) /\ OneRowEach(Cascade(rows, cands))
         /\ OfCandidates(Cascade(rows, cands), cands)
BY DEF Paired, OneRowEach, Cascade, OfCandidates

LEMMA CascadeReads ==
  ASSUME NEW rows, NEW values, Paired(rows, values), OneRowEach(rows), NEW cands
  PROVE  Valued(Cascade(rows, cands)) =
           [p \in StoredPlans |-> [c \in Cands |-> IF <<p, c>> \in cands THEN Valued(rows)[p][c] ELSE "none"]]
<1> DEFINE left == Cascade(rows, cands)
<1>1. OneRowEach(left)
  BY CascadeKeeps
<1>2. ASSUME NEW p \in StoredPlans, NEW c \in Cands
      PROVE  Valued(left)[p][c] = IF <<p, c>> \in cands THEN Valued(rows)[p][c] ELSE "none"
  <2>1. CASE <<p, c>> \in cands
    <3>1. \A r : r \in left /\ r[1] = p /\ r[2] = c <=> r \in rows /\ r[1] = p /\ r[2] = c
      BY <2>1 DEF Cascade
    <3> QED
      BY <1>1, <2>1, <3>1, ReadsAgree
  <2>2. CASE <<p, c>> \notin cands
    <3>1. ~\E r \in left : r[1] = p /\ r[2] = c
      BY <2>2 DEF Cascade
    <3> QED
      BY <2>2, <3>1, ValuedOfNoRow
  <2> QED
    BY <2>1, <2>2
<1>3. /\ Valued(left) = [p \in StoredPlans |-> Valued(left)[p]]
      /\ \A p \in StoredPlans : Valued(left)[p] = [c \in Cands |-> Valued(left)[p][c]]
  BY ValuedIs
<1>4. \A p \in StoredPlans :
        Valued(left)[p] = [c \in Cands |-> IF <<p, c>> \in cands THEN Valued(rows)[p][c] ELSE "none"]
  BY <1>2, <1>3
<1> HIDE DEF left
<1>5. Valued(left) =
        [p \in StoredPlans |-> [c \in Cands |-> IF <<p, c>> \in cands THEN Valued(rows)[p][c] ELSE "none"]]
  BY <1>3, <1>4
<1> QED
  BY <1>5 DEF left

LEMMA NothingOfNoCandidate ==
  ASSUME NEW rows, NEW cands, OfCandidates(rows, cands), NEW p \in StoredPlans, NEW c \in Cands, <<p, c>> \notin cands
  PROVE  Valued(rows)[p][c] = "none"
<1>1. ~\E r \in rows : r[1] = p /\ r[2] = c
  BY DEF OfCandidates
<1> QED
  BY <1>1, ValuedOfNoRow

(* The foreign keys, as a plan is stored again and as plans are deleted.    *)
SavedAs(cands, p, C) ==
    /\ \A c \in Cands : <<p, c>> \in cands <=> c \in C
    /\ \A q \in StoredPlans, c \in Cands : q # p => (<<q, c>> \in cands <=> <<q, c>> \in candRows)
DeletedTo(cands, P) == \A q \in StoredPlans, c \in Cands : <<q, c>> \in cands <=> <<q, c>> \in candRows /\ q \notin P

LEMMA CascadeOfSave ==
  ASSUME NEW rows, NEW values, Paired(rows, values), OneRowEach(rows), OfCandidates(rows, candRows),
         NEW p \in StoredPlans, NEW C, NEW cands, SavedAs(cands, p, C)
  PROVE  Valued(Cascade(rows, cands)) = [Valued(rows) EXCEPT ![p] = Store!Kept(Valued(rows)[p], C)]
<1> DEFINE left == Valued(Cascade(rows, cands))
<1>1. left = [q \in StoredPlans |-> [c \in Cands |-> IF <<q, c>> \in cands THEN Valued(rows)[q][c] ELSE "none"]]
  BY CascadeReads
<1>2. \A q \in StoredPlans, c \in Cands : <<q, c>> \notin candRows => Valued(rows)[q][c] = "none"
  BY NothingOfNoCandidate
<1>3. Valued(rows) = [q \in StoredPlans |-> Valued(rows)[q]]
      /\ \A q \in StoredPlans : Valued(rows)[q] = [c \in Cands |-> Valued(rows)[q][c]]
  BY ValuedIs
<1>4. left[p] = [c \in Cands |-> IF c \in C THEN Valued(rows)[p][c] ELSE "none"]
  BY <1>1 DEF SavedAs
<1>5. left[p] = Store!Kept(Valued(rows)[p], C)
  BY <1>4 DEF Store!Kept, Store!Cands, Cands
<1>6. \A q \in StoredPlans : q # p => left[q] = Valued(rows)[q]
  BY <1>1, <1>2, <1>3 DEF SavedAs
<1>7. left = [q \in StoredPlans |-> left[q]]
  BY <1>1
<1> HIDE DEF left
<1>8. left = [Valued(rows) EXCEPT ![p] = Store!Kept(Valued(rows)[p], C)]
  BY <1>3, <1>5, <1>6, <1>7
<1> QED
  BY <1>8 DEF left

LEMMA CascadeOfDeletion ==
  ASSUME NEW rows, NEW values, Paired(rows, values), OneRowEach(rows), OfCandidates(rows, candRows), NEW P,
         NEW cands, DeletedTo(cands, P)
  PROVE  Valued(Cascade(rows, cands)) = Store!Without(Valued(rows), P)
<1> DEFINE left == Valued(Cascade(rows, cands))
<1>1. left = [q \in StoredPlans |-> [c \in Cands |-> IF <<q, c>> \in cands THEN Valued(rows)[q][c] ELSE "none"]]
  BY CascadeReads
<1>2. \A q \in StoredPlans, c \in Cands : <<q, c>> \notin candRows => Valued(rows)[q][c] = "none"
  BY NothingOfNoCandidate
<1>3. Valued(rows) = [q \in StoredPlans |-> Valued(rows)[q]]
      /\ \A q \in StoredPlans : Valued(rows)[q] = [c \in Cands |-> Valued(rows)[q][c]]
  BY ValuedIs
<1>4. \A q \in StoredPlans : q \notin P => left[q] = Valued(rows)[q]
  BY <1>1, <1>2, <1>3 DEF DeletedTo
<1>5. \A q \in StoredPlans : q \in P => left[q] = Store!NoRows
  BY <1>1 DEF DeletedTo, Store!NoRows, Store!Cands, Cands
<1>6. left = [q \in StoredPlans |-> left[q]]
  BY <1>1
<1> HIDE DEF left
<1>7. left = [q \in StoredPlans |-> IF q \in P THEN Store!NoRows ELSE Valued(rows)[q]]
  BY <1>4, <1>5, <1>6
<1> QED
  BY <1>7 DEF left, Store!Without

LEMMA RowsAreSound ==
  ASSUME MoveRowsSound
  PROVE  /\ Paired(resultRows, Verdicts) /\ OneRowEach(resultRows) /\ OfCandidates(resultRows, candRows)
         /\ Paired(journalRows, JournalSteps) /\ OneRowEach(journalRows) /\ OfCandidates(journalRows, candRows)
         /\ Paired(operationRows, CloudSteps) /\ OneRowEach(operationRows) /\ OfCandidates(operationRows, candRows)
BY DEF MoveRowsSound

(* The rows stay sound as candidates go and come.                           *)
LEMMA CandidatesKeep ==
  ASSUME MoveRowsSound, NEW cands, CandidatesBecome(cands), planRows' \subseteq StoredPlans,
         cands \subseteq planRows' \X Cands
  PROVE  MoveRowsSound'
<1>1. /\ Paired(resultRows', Verdicts) /\ OneRowEach(resultRows') /\ OfCandidates(resultRows', cands)
      /\ Paired(journalRows', JournalSteps) /\ OneRowEach(journalRows') /\ OfCandidates(journalRows', cands)
      /\ Paired(operationRows', CloudSteps) /\ OneRowEach(operationRows') /\ OfCandidates(operationRows', cands)
  BY CascadeKeeps DEF MoveRowsSound, CandidatesBecome
<1>2. operationRows' \subseteq operationRows
  BY DEF CandidatesBecome, Cascade
<1>3. UniqueSource(operationRows') /\ \A r \in operationRows' : r[2] \in CloudCands
  BY <1>2 DEF MoveRowsSound, UniqueSource
<1> QED
  BY <1>1, <1>3 DEF MoveRowsSound, CandidatesBecome

LEMMA SavePlanRowsImplements ==
  ASSUME MoveRowsSound, NEW p \in StoredPlans, NEW C \in SUBSET Cands, SavePlanRows(p, C)
  PROVE  MoveRowsSound' /\ Store!SavePlan(p, C)
<1> DEFINE cands == {r \in candRows : r[1] # p \/ r[2] \in C} \cup {<<p, c>> : c \in C}
<1>1. CandidatesBecome(cands) /\ planRows' = planRows \cup {p}
  BY DEF SavePlanRows
<1>2. MoveRowsSound'
  <2>1. cands \subseteq planRows' \X Cands /\ planRows' \subseteq StoredPlans
    BY <1>1 DEF MoveRowsSound
  <2> QED
    BY <1>1, <2>1, CandidatesKeep
<1>3. /\ Valued(resultRows)' = [Valued(resultRows) EXCEPT ![p] = Store!Kept(Valued(resultRows)[p], C)]
      /\ Valued(journalRows)' = [Valued(journalRows) EXCEPT ![p] = Store!Kept(Valued(journalRows)[p], C)]
      /\ Valued(operationRows)' = [Valued(operationRows) EXCEPT ![p] = Store!Kept(Valued(operationRows)[p], C)]
  <2>1. SavedAs(cands, p, C)
    BY DEF SavedAs
  <2> HIDE DEF cands
  <2>2. Valued(Cascade(resultRows, cands)) = [Valued(resultRows) EXCEPT ![p] = Store!Kept(Valued(resultRows)[p], C)]
    <3>1. Paired(resultRows, Verdicts) /\ OneRowEach(resultRows) /\ OfCandidates(resultRows, candRows)
      BY RowsAreSound
    <3> QED
      BY <2>1, <3>1, CascadeOfSave
  <2>3. Valued(Cascade(journalRows, cands)) = [Valued(journalRows) EXCEPT ![p] = Store!Kept(Valued(journalRows)[p], C)]
    <3>1. Paired(journalRows, JournalSteps) /\ OneRowEach(journalRows) /\ OfCandidates(journalRows, candRows)
      BY RowsAreSound
    <3> QED
      BY <2>1, <3>1, CascadeOfSave
  <2>4. Valued(Cascade(operationRows, cands)) = [Valued(operationRows) EXCEPT ![p] = Store!Kept(Valued(operationRows)[p], C)]
    <3>1. Paired(operationRows, CloudSteps) /\ OneRowEach(operationRows) /\ OfCandidates(operationRows, candRows)
      BY RowsAreSound
    <3> QED
      BY <2>1, <3>1, CascadeOfSave
  <2>5. /\ resultRows' = Cascade(resultRows, cands) /\ journalRows' = Cascade(journalRows, cands)
        /\ operationRows' = Cascade(operationRows, cands)
    BY <1>1 DEF CandidatesBecome
  <2> QED
    BY <2>2, <2>3, <2>4, <2>5
<1>4. PlansRead' = [PlansRead EXCEPT ![p] = C]
  <2>1. \A c \in Cands : <<p, c>> \in candRows' <=> c \in C
    BY <1>1 DEF CandidatesBecome
  <2>2. \A q \in StoredPlans, c \in Cands : q # p => (<<q, c>> \in candRows' <=> <<q, c>> \in candRows)
    BY <1>1 DEF CandidatesBecome
  <2>3. PlansRead'[p] = C
    BY <1>1, <2>1 DEF PlansRead
  <2>4. \A q \in StoredPlans : q # p => PlansRead'[q] = PlansRead[q]
    BY <1>1, <2>2 DEF PlansRead
  <2>5. PlansRead' = [q \in StoredPlans |-> PlansRead'[q]] /\ PlansRead = [q \in StoredPlans |-> PlansRead[q]]
    BY DEF PlansRead
  <2> QED
    BY <2>3, <2>4, <2>5
<1>5. JobsRead' = JobsRead /\ AppliesRead' = AppliesRead
  BY DEF SavePlanRows, JobsRead, AppliesRead, HasJob, Job
<1>6. returned' = <<"said", "saved">>
  BY DEF SavePlanRows, Return
<1> QED
  BY <1>2, <1>3, <1>4, <1>5, <1>6 DEF Store!SavePlan, Store!Returns

(* What is read of the rows of the jobs, one of each job.                   *)
Face(r) == [state |-> r.state, plan |-> r.plan, owner |-> r.owner, live |-> r.live, error |-> r.error]
ReadOf(rows) ==
    [j \in AllJobs |-> IF \E r \in rows : r.job = j THEN Face(CHOOSE r \in rows : r.job = j) ELSE Store!NoJob]

LEMMA JobsReadIs == JobsRead = ReadOf(jobRows) /\ JobsRead' = ReadOf(jobRows')
BY DEF JobsRead, ReadOf, Face, HasJob, Job, Store!NoJob

LEMMA ReadOfRow ==
  ASSUME NEW rows, rows \subseteq JobRecords, OneEach(rows), NEW r \in rows
  PROVE  ReadOf(rows)[r.job] = Face(r) /\ r.job \in AllJobs
<1> DEFINE picked == CHOOSE s \in rows : s.job = r.job
<1>1. picked \in rows /\ picked.job = r.job
  OBVIOUS
<1>2. picked = r
  BY <1>1 DEF OneEach
<1>3. r.job \in AllJobs
  BY DEF JobRecords
<1>4. ReadOf(rows)[r.job] = Face(picked)
  BY <1>3 DEF ReadOf
<1> QED
  BY <1>2, <1>3, <1>4

LEMMA ReadOfNoRow ==
  ASSUME NEW rows, NEW j \in AllJobs, ~\E r \in rows : r.job = j
  PROVE  ReadOf(rows)[j] = Store!NoJob
BY DEF ReadOf

LEMMA ReadOfIs ==
  ASSUME NEW rows
  PROVE  ReadOf(rows) = [j \in AllJobs |-> ReadOf(rows)[j]]
BY DEF ReadOf

(* Of what is read of a job: its row, or that there is none.                *)
LEMMA ReadIsOfRow ==
  ASSUME NEW rows, rows \subseteq JobRecords, OneEach(rows), NEW j \in AllJobs
  PROVE  \/ \E r \in rows : r.job = j /\ ReadOf(rows)[j] = Face(r)
         \/ ~(\E r \in rows : r.job = j) /\ ReadOf(rows)[j] = Store!NoJob
BY ReadOfRow, ReadOfNoRow

(* One row is written.                                                      *)
LEMMA ReadOfWritten ==
  ASSUME NEW rows, rows \subseteq JobRecords, OneEach(rows), NEW new, new \subseteq JobRecords, OneEach(new),
         NEW w \in new, \A r : r.job # w.job => (r \in new <=> r \in rows)
  PROVE  ReadOf(new) = [ReadOf(rows) EXCEPT ![w.job] = Face(w)]
<1>1. ReadOf(new)[w.job] = Face(w) /\ w.job \in AllJobs
  BY ReadOfRow
<1>2. ASSUME NEW j \in AllJobs, j # w.job
      PROVE  ReadOf(new)[j] = ReadOf(rows)[j]
  <2>1. CASE \E r \in rows : r.job = j
    <3>1. PICK r \in rows : r.job = j
      BY <2>1
    <3>2. r \in new
      BY <1>2, <3>1
    <3> QED
      BY <3>1, <3>2, ReadOfRow
  <2>2. CASE ~\E r \in rows : r.job = j
    <3>1. ~\E r \in new : r.job = j
      BY <1>2, <2>2
    <3> QED
      BY <2>2, <3>1, ReadOfNoRow
  <2> QED
    BY <2>1, <2>2
<1> QED
  BY <1>1, <1>2, ReadOfIs

(* Each row is changed, and none is of another job.                         *)
Changed(rows, f) == {f[r] : r \in rows}
SameJobs(rows, f) == f \in [rows -> JobRecords] /\ \A r \in rows : f[r].job = r.job

LEMMA ReadOfChanged ==
  ASSUME NEW rows, rows \subseteq JobRecords, OneEach(rows), NEW f, SameJobs(rows, f)
  PROVE  /\ Changed(rows, f) \subseteq JobRecords /\ OneEach(Changed(rows, f))
         /\ \A r \in rows : ReadOf(Changed(rows, f))[r.job] = Face(f[r])
         /\ \A j \in AllJobs : ~(\E r \in rows : r.job = j) => ReadOf(Changed(rows, f))[j] = Store!NoJob
<1> DEFINE new == {f[r] : r \in rows}
<1>0. new = Changed(rows, f) /\ f \in [rows -> JobRecords] /\ \A r \in rows : f[r].job = r.job
  BY DEF Changed, SameJobs
<1>1. new \subseteq JobRecords /\ OneEach(new)
  BY <1>0 DEF OneEach
<1>2. ASSUME NEW r \in rows
      PROVE  ReadOf(new)[r.job] = Face(f[r])
  <2>1. f[r] \in new /\ f[r].job = r.job
    BY <1>0
  <2> QED
    BY <1>1, <2>1, ReadOfRow
<1>3. ASSUME NEW j \in AllJobs, ~\E r \in rows : r.job = j
      PROVE  ReadOf(new)[j] = Store!NoJob
  <2>1. ~\E r \in new : r.job = j
    BY <1>0, <1>3
  <2> QED
    BY <2>1, ReadOfNoRow
<1> QED
  BY <1>0, <1>1, <1>2, <1>3

LEMMA ChangedIsFinite ==
  ASSUME NEW S, IsFiniteSet(S), NEW f, f = [x \in S |-> f[x]]
  PROVE  IsFiniteSet(Changed(S, f))
<1> DEFINE T == Changed(S, f)
<1>1. f \in Surjection(S, T)
  BY DEF Surjection, Changed
<1> QED
  BY <1>1, FS_Surjection

(* As many rows of one each as jobs they are of.                            *)
LEMMA CountsAgree ==
  ASSUME NEW S, IsFiniteSet(S), OneEach(S), NEW T, T = {r.job : r \in S}
  PROVE  Cardinality(S) = Cardinality(T) /\ Cardinality(S) \in Nat
<1> DEFINE f == [r \in S |-> r.job]
<1>1. f \in Bijection(S, T)
  BY DEF OneEach, Bijection, Injection, Surjection, IsInjective
<1>2. ExistsBijection(S, T)
  BY <1>1 DEF ExistsBijection
<1> QED
  BY <1>2, FS_Bijection, FS_CardinalityType

LEMMA ActiveIsCount ==
  ASSUME JobRowsSound
  PROVE  ActiveCount = Store!Count /\ ActiveCount \in Nat
<1> DEFINE active == {r \in jobRows : r.state \in {"queued", "running"}}
           open == {j \in AllJobs : JobsRead[j].state \in {"queued", "running"}}
<1>1. IsFiniteSet(active) /\ OneEach(active)
  BY FS_Subset DEF JobRowsSound, OneEach
<1>2. open = {r.job : r \in active}
  <2>1. ASSUME NEW j \in open
        PROVE  \E r \in active : r.job = j
    <3>1. \/ \E r \in jobRows : r.job = j /\ JobsRead[j] = Face(r)
          \/ JobsRead[j] = Store!NoJob
      BY ReadIsOfRow, JobsReadIs DEF JobRowsSound
    <3>2. CASE JobsRead[j] = Store!NoJob
      BY <3>2 DEF Store!NoJob
    <3>3. CASE JobsRead[j] # Store!NoJob
      <4>1. PICK r \in jobRows : r.job = j /\ JobsRead[j] = Face(r)
        BY <3>1, <3>3
      <4>2. r.state = JobsRead[j].state
        BY <4>1 DEF Face
      <4> QED
        BY <4>1, <4>2
    <3> QED
      BY <3>2, <3>3
  <2>2. ASSUME NEW r \in active
        PROVE  r.job \in open
    <3>1. JobsRead[r.job] = Face(r) /\ r.job \in AllJobs
      BY ReadOfRow, JobsReadIs DEF JobRowsSound
    <3> QED
      BY <3>1 DEF Face
  <2> QED
    BY <2>1, <2>2
<1>3. Cardinality(active) = Cardinality(open) /\ Cardinality(active) \in Nat
  BY <1>1, <1>2, CountsAgree
<1>4. ActiveCount = Cardinality(active)
  BY DEF ActiveCount
<1>5. Store!Count = Cardinality(open)
  BY DEF Store!Count, Store!Jobs, Store!Open, AllJobs, Store!Cardinality, Cardinality
<1> QED
  BY <1>3, <1>4, <1>5

(* What keeps a plan, in the rows and in what is read of them.              *)
LEMMA BlockedIsRead ==
  ASSUME TablesInv, NEW p \in StoredPlans
  PROVE  BlockedRow(p) <=> Store!Blocked(p)
<1> USE DEF TablesInv
<1> DEFINE inJournal == \E r \in journalRows : r[1] = p /\ r[3] # "reconciled"
           inCloud == \E r \in operationRows : r[1] = p /\ r[3] \notin {"succeeded", "conflict", "failed"}
           inJobs == \E r \in jobRows : r.plan = p /\ r.job \in ApplyIds /\ r.state \in {"queued", "running"}
<1>1. inJournal <=> \E c \in Cands : Valued(journalRows)[p][c] \notin {"none", "reconciled"}
  <2>0. Paired(journalRows, JournalSteps) /\ OneRowEach(journalRows) /\ "none" \notin JournalSteps
    BY RowsAreSound, TablesAssumption
  <2>1. ASSUME inJournal
        PROVE  \E c \in Cands : Valued(journalRows)[p][c] \notin {"none", "reconciled"}
    <3>1. PICK r \in journalRows : r[1] = p /\ r[3] # "reconciled"
      BY <2>1
    <3>2. r[2] \in Cands /\ r[3] \in JournalSteps
      BY <2>0 DEF Paired
    <3>3. Valued(journalRows)[p][r[2]] = r[3]
      BY <2>0, <3>1, <3>2, ValuedOfRow
    <3> QED
      BY <2>0, <3>1, <3>2, <3>3
  <2>2. ASSUME NEW c \in Cands, Valued(journalRows)[p][c] \notin {"none", "reconciled"}
        PROVE  inJournal
    <3>1. <<p, c, Valued(journalRows)[p][c]>> \in journalRows
      BY <2>0, <2>2, ReadIsStored
    <3> QED
      BY <2>2, <3>1
  <2> QED
    BY <2>1, <2>2
<1>2. inCloud <=> \E c \in Cands : Valued(operationRows)[p][c] \notin {"succeeded", "conflict", "failed", "none"}
  <2>0. Paired(operationRows, CloudSteps) /\ OneRowEach(operationRows) /\ "none" \notin CloudSteps
    BY RowsAreSound, TablesAssumption
  <2>1. ASSUME inCloud
        PROVE  \E c \in Cands : Valued(operationRows)[p][c] \notin {"succeeded", "conflict", "failed", "none"}
    <3>1. PICK r \in operationRows : r[1] = p /\ r[3] \notin {"succeeded", "conflict", "failed"}
      BY <2>1
    <3>2. r[2] \in Cands /\ r[3] \in CloudSteps
      BY <2>0 DEF Paired
    <3>3. Valued(operationRows)[p][r[2]] = r[3]
      BY <2>0, <3>1, <3>2, ValuedOfRow
    <3> QED
      BY <2>0, <3>1, <3>2, <3>3
  <2>2. ASSUME NEW c \in Cands, Valued(operationRows)[p][c] \notin {"succeeded", "conflict", "failed", "none"}
        PROVE  inCloud
    <3>1. <<p, c, Valued(operationRows)[p][c]>> \in operationRows
      BY <2>0, <2>2, ReadIsStored
    <3> QED
      BY <2>2, <3>1
  <2> QED
    BY <2>1, <2>2
<1>3. inJobs <=> \E r \in ApplyIds : JobsRead[r].plan = p /\ JobsRead[r].state \in {"queued", "running"}
  <2>0. jobRows \subseteq JobRecords /\ OneEach(jobRows)
    BY DEF JobRowsSound
  <2>1. ASSUME inJobs
        PROVE  \E r \in ApplyIds : JobsRead[r].plan = p /\ JobsRead[r].state \in {"queued", "running"}
    <3>1. PICK r \in jobRows : r.plan = p /\ r.job \in ApplyIds /\ r.state \in {"queued", "running"}
      BY <2>1
    <3>2. JobsRead[r.job] = Face(r)
      BY <2>0, ReadOfRow, JobsReadIs
    <3> QED
      BY <3>1, <3>2 DEF Face
  <2>2. ASSUME NEW j \in ApplyIds, JobsRead[j].plan = p, JobsRead[j].state \in {"queued", "running"}
        PROVE  inJobs
    <3>1. JobsRead[j] # Store!NoJob
      BY <2>2 DEF Store!NoJob
    <3>2. PICK r \in jobRows : r.job = j /\ JobsRead[j] = Face(r)
      BY <2>0, <3>1, ReadIsOfRow, JobsReadIs DEF AllJobs
    <3> QED
      BY <2>2, <3>2 DEF Face
  <2> QED
    BY <2>1, <2>2
<1>4. BlockedRow(p) <=> inJournal \/ inCloud \/ inJobs
  BY DEF BlockedRow
<1>5. Store!Blocked(p) <=>
        \/ \E c \in Cands : Valued(journalRows)[p][c] \notin {"none", "reconciled"}
        \/ \E c \in Cands : Valued(operationRows)[p][c] \notin {"succeeded", "conflict", "failed", "none"}
        \/ \E r \in ApplyIds : JobsRead[r].plan = p /\ JobsRead[r].state \in {"queued", "running"}
  <2>1. Store!Terminal \cup {"none"} = {"succeeded", "conflict", "failed", "none"}
    BY DEF Store!Terminal
  <2>2. Store!Cands = Cands
    BY DEF Store!Cands, Cands
  <2> QED
    BY <2>1, <2>2 DEF Store!Blocked, Store!Open
<1> HIDE DEF inJournal, inCloud, inJobs
<1> QED
  BY <1>1, <1>2, <1>3, <1>4, <1>5

LEMMA PlanIsRead ==
  ASSUME MoveRowsSound, NEW p \in StoredPlans
  PROVE  /\ p \in planRows <=> PlansRead[p] # Store!NoPlan
         /\ \A c \in Cands : <<p, c>> \in candRows <=> Store!Stored(p, c)
<1>1. CASE p \in planRows
  <2>1. PlansRead[p] = {c \in Cands : <<p, c>> \in candRows}
    BY <1>1 DEF PlansRead
  <2>2. PlansRead[p] # Store!NoPlan
    BY <2>1, TablesAssumption DEF Store!NoPlan
  <2> QED
    BY <1>1, <2>1, <2>2 DEF Store!Stored
<1>2. CASE p \notin planRows
  <2>1. PlansRead[p] = Store!NoPlan
    BY <1>2 DEF PlansRead, Store!NoPlan
  <2>2. \A c \in Cands : <<p, c>> \notin candRows
    BY <1>2 DEF MoveRowsSound
  <2> QED
    BY <1>2, <2>1, <2>2 DEF Store!Stored
<1> QED
  BY <1>1, <1>2

(* A deletion: its rows go, and the jobs stay without the plan.             *)
LEMMA ForgetJobs ==
  ASSUME JobRowsSound, NEW P, applyRows' = applyRows,
         jobRows' = {IF r.plan \in P THEN [r EXCEPT !.plan = Null] ELSE r : r \in jobRows}
  PROVE  JobRowsSound' /\ JobsRead' = Store!Forgetting(P) /\ AppliesRead' = AppliesRead
<1> DEFINE f == [r \in jobRows |-> IF r.plan \in P THEN [r EXCEPT !.plan = Null] ELSE r]
<1>1. jobRows \subseteq JobRecords /\ OneEach(jobRows) /\ IsFiniteSet(jobRows)
  BY DEF JobRowsSound
<1>2. ASSUME NEW r \in jobRows
      PROVE  f[r] \in JobRecords /\ f[r].job = r.job
  BY <1>1 DEF JobRecords
<1>3. SameJobs(jobRows, f)
  BY <1>2 DEF SameJobs
<1>4. jobRows' = Changed(jobRows, f)
  BY DEF Changed
<1>5. ASSUME NEW r \in jobRows
      PROVE  Face(f[r]) = IF Face(r).plan \in P THEN [Face(r) EXCEPT !.plan = Null] ELSE Face(r)
  BY <1>1 DEF JobRecords, Face
<1>6. IsFiniteSet(jobRows')
  <2>1. f = [r \in jobRows |-> f[r]]
    OBVIOUS
  <2> HIDE DEF f
  <2> QED
    BY <1>1, <1>4, <2>1, ChangedIsFinite
<1> HIDE DEF f
<1>7. /\ jobRows' \subseteq JobRecords /\ OneEach(jobRows')
      /\ \A r \in jobRows : ReadOf(jobRows')[r.job] = Face(f[r])
      /\ \A j \in AllJobs : ~(\E r \in jobRows : r.job = j) => ReadOf(jobRows')[j] = Store!NoJob
  <2>1. /\ Changed(jobRows, f) \subseteq JobRecords /\ OneEach(Changed(jobRows, f))
        /\ \A r \in jobRows : ReadOf(Changed(jobRows, f))[r.job] = Face(f[r])
        /\ \A j \in AllJobs : ~(\E r \in jobRows : r.job = j) => ReadOf(Changed(jobRows, f))[j] = Store!NoJob
    BY <1>1, <1>3, ReadOfChanged
  <2> QED
    BY <1>4, <2>1
<1>8. JobRowsSound'
  <2>1. applyRows' \subseteq ApplyRecords /\ OneEach(applyRows')
    BY DEF JobRowsSound
  <2>2. \A x \in applyRows' : \E r \in jobRows' : r.job = x.job
    <3>1. \A x \in applyRows : \E r \in jobRows : r.job = x.job
      BY DEF JobRowsSound, HasJob
    <3> QED
      BY <1>3, <1>4, <3>1 DEF Changed, SameJobs
  <2>3. \A r \in jobRows' : r.job \in ApplyIds => \E x \in applyRows' : x.job = r.job
    BY <1>3, <1>4 DEF JobRowsSound, Changed, SameJobs
  <2> QED
    BY <1>6, <1>7, <2>1, <2>2, <2>3 DEF JobRowsSound, HasJob
<1>9. ASSUME NEW j \in AllJobs
      PROVE  ReadOf(jobRows')[j] = IF JobsRead[j].plan \in P THEN [JobsRead[j] EXCEPT !.plan = Null] ELSE JobsRead[j]
  <2>1. CASE \E r \in jobRows : r.job = j
    <3>1. PICK r \in jobRows : r.job = j
      BY <2>1
    <3>2. JobsRead[j] = Face(r)
      BY <1>1, <3>1, ReadOfRow, JobsReadIs
    <3> QED
      BY <1>5, <1>7, <3>1, <3>2
  <2>2. CASE ~\E r \in jobRows : r.job = j
    <3>1. JobsRead[j] = Store!NoJob /\ ReadOf(jobRows')[j] = Store!NoJob
      BY <1>7, <2>2, ReadOfNoRow, JobsReadIs
    <3>2. Store!NoJob.plan = Null
      BY DEF Store!NoJob
    <3>3. Store!NoJob = [x \in DOMAIN Store!NoJob |-> Store!NoJob[x]]
      BY DEF Store!NoJob
    <3>4. [Store!NoJob EXCEPT !.plan = Null] = Store!NoJob
      BY <3>2, <3>3
    <3> QED
      BY <3>1, <3>4
  <2> QED
    BY <2>1, <2>2
<1>10. JobsRead' = Store!Forgetting(P)
  BY <1>9, ReadOfIs, JobsReadIs DEF Store!Forgetting, Store!Jobs, AllJobs
<1> QED
  BY <1>8, <1>10 DEF AppliesRead

LEMMA DeleteRowsImplements ==
  ASSUME TablesInv, NEW P, DeleteRows(P)
  PROVE  TablesInv' /\ Store!Deletes(P)
<1> DEFINE cands == {r \in candRows : r[1] \notin P}
<1>1. CandidatesBecome(cands) /\ planRows' = planRows \ P
  BY DEF DeleteRows
<1>2. candRows \subseteq planRows \X Cands /\ planRows \subseteq StoredPlans
  BY DEF TablesInv, MoveRowsSound
<1>3. MoveRowsSound'
  <2>1. cands \subseteq planRows' \X Cands /\ planRows' \subseteq StoredPlans
    BY <1>1, <1>2
  <2> QED
    BY <1>1, <2>1, CandidatesKeep DEF TablesInv
<1>4. DeletedTo(cands, P)
  BY DEF DeletedTo
<1>5. PlansRead' = [p \in StoredPlans |-> IF p \in P THEN Store!NoPlan ELSE PlansRead[p]]
  <2>1. ASSUME NEW p \in StoredPlans
        PROVE  PlansRead'[p] = IF p \in P THEN Store!NoPlan ELSE PlansRead[p]
    <3>1. candRows' = cands
      BY <1>1 DEF CandidatesBecome
    <3>2. CASE p \in P
      BY <1>1, <3>2 DEF PlansRead, Store!NoPlan
    <3>3. CASE p \notin P
      <4>1. \A c \in Cands : <<p, c>> \in candRows' <=> <<p, c>> \in candRows
        BY <3>1, <3>3
      <4> QED
        BY <1>1, <3>3, <4>1 DEF PlansRead
    <3> QED
      BY <3>2, <3>3
  <2>2. PlansRead' = [p \in StoredPlans |-> PlansRead'[p]]
    BY DEF PlansRead
  <2> QED
    BY <2>1, <2>2
<1> HIDE DEF cands
<1>6. /\ resultRows' = Cascade(resultRows, cands) /\ journalRows' = Cascade(journalRows, cands)
      /\ operationRows' = Cascade(operationRows, cands)
  BY <1>1 DEF CandidatesBecome
<1>7. Valued(Cascade(resultRows, cands)) = Store!Without(Valued(resultRows), P)
  <2>1. Paired(resultRows, Verdicts) /\ OneRowEach(resultRows) /\ OfCandidates(resultRows, candRows)
    BY RowsAreSound DEF TablesInv
  <2> QED
    BY <1>4, <2>1, CascadeOfDeletion
<1>8. Valued(Cascade(journalRows, cands)) = Store!Without(Valued(journalRows), P)
  <2>1. Paired(journalRows, JournalSteps) /\ OneRowEach(journalRows) /\ OfCandidates(journalRows, candRows)
    BY RowsAreSound DEF TablesInv
  <2> QED
    BY <1>4, <2>1, CascadeOfDeletion
<1>9. Valued(Cascade(operationRows, cands)) = Store!Without(Valued(operationRows), P)
  <2>1. Paired(operationRows, CloudSteps) /\ OneRowEach(operationRows) /\ OfCandidates(operationRows, candRows)
    BY RowsAreSound DEF TablesInv
  <2> QED
    BY <1>4, <2>1, CascadeOfDeletion
<1>10. JobRowsSound' /\ JobsRead' = Store!Forgetting(P) /\ AppliesRead' = AppliesRead
  <2>1. applyRows' = applyRows
        /\ jobRows' = {IF r.plan \in P THEN [r EXCEPT !.plan = Null] ELSE r : r \in jobRows}
    BY DEF DeleteRows
  <2> QED
    BY <2>1, ForgetJobs DEF TablesInv
<1> QED
  BY <1>3, <1>5, <1>6, <1>7, <1>8, <1>9, <1>10 DEF TablesInv, Store!Deletes

(* Nothing but the answer.                                                  *)
LEMMA UnchangedRead ==
  ASSUME NoRowChanges
  PROVE  Store!NothingButReply /\ (TablesInv => TablesInv')
<1>1. UNCHANGED <<PlansRead, Valued(resultRows), Valued(journalRows), Valued(operationRows), JobsRead, AppliesRead>>
  BY DEF NoRowChanges, planTables, PlansRead, JobsRead, AppliesRead, HasJob, Job
<1>2. TablesInv => TablesInv'
  BY DEF NoRowChanges, planTables, TablesInv, MoveRowsSound, JobRowsSound, HasJob
<1> QED
  BY <1>1, <1>2 DEF Store!NothingButReply

LEMMA DeletePlanRowImplements ==
  ASSUME TablesInv, NEW p \in StoredPlans, DeletePlanRow(p)
  PROVE  TablesInv' /\ Store!DeletePlan(p)
<1>1. PlansRead[p] # Store!NoPlan
  BY PlanIsRead DEF DeletePlanRow, TablesInv
<1>2. CASE BlockedRow(p)
  <2>1. Store!Blocked(p)
    BY <1>2, BlockedIsRead
  <2>2. NoRowChanges /\ returned' = <<"said", "no">>
    BY <1>2 DEF DeletePlanRow, Return
  <2>3. TablesInv' /\ Store!NothingButReply
    BY <2>2, UnchangedRead
  <2> QED
    BY <1>1, <2>1, <2>2, <2>3 DEF Store!DeletePlan, Store!Returns
<1>3. CASE ~BlockedRow(p)
  <2>1. ~Store!Blocked(p)
    BY <1>3, BlockedIsRead
  <2>2. DeleteRows({p}) /\ returned' = <<"said", "yes">>
    BY <1>3 DEF DeletePlanRow, Return
  <2>3. TablesInv' /\ Store!Deletes({p})
    BY <2>2, DeleteRowsImplements
  <2> QED
    BY <1>1, <2>1, <2>2, <2>3 DEF Store!DeletePlan, Store!Returns
<1> QED
  BY <1>2, <1>3

LEMMA PurgeRowsImplements ==
  ASSUME TablesInv, NEW P \in SUBSET StoredPlans, PurgeRows(P)
  PROVE  TablesInv' /\ Store!PurgeExpired(P)
<1> DEFINE expired == {p \in P \cap planRows : ~BlockedRow(p)}
           gone == {p \in P : PlansRead[p] # Store!NoPlan /\ ~Store!Blocked(p)}
<1>1. \A p \in P : (p \in planRows <=> PlansRead[p] # Store!NoPlan) /\ (BlockedRow(p) <=> Store!Blocked(p))
  BY PlanIsRead, BlockedIsRead DEF TablesInv
<1>2. expired = gone
  BY <1>1
<1>3. DeleteRows(expired) /\ returned' = <<"count", Cardinality(expired)>>
  BY DEF PurgeRows
<1>4. TablesInv' /\ Store!Deletes(expired)
  BY <1>3, DeleteRowsImplements
<1>5. Store!Deletes(gone) /\ returned' = <<"count", Cardinality(gone)>>
  BY <1>2, <1>3, <1>4
<1>6. Store!PurgeExpired(P)
  BY <1>5 DEF Store!PurgeExpired, Store!Cardinality, Cardinality
<1> QED
  BY <1>4, <1>6

(* The moves: one table of a candidate is written, or two.                  *)
LEMMA InUpsert ==
  ASSUME NEW rows, NEW p, NEW c, NEW v, NEW r \in Upsert(rows, p, c, v)
  PROVE  \/ r \in rows /\ (r[1] # p \/ r[2] # c)
         \/ r = <<p, c, v>> /\ r[1] = p /\ r[2] = c /\ r[3] = v
BY DEF Upsert

LEMMA UpsertKeepsRows ==
  ASSUME NEW rows, NEW values, Paired(rows, values), OneRowEach(rows), OfCandidates(rows, candRows),
         NEW p \in StoredPlans, NEW c \in Cands, NEW v \in values, <<p, c>> \in candRows
  PROVE  /\ Paired(Upsert(rows, p, c, v), values) /\ OneRowEach(Upsert(rows, p, c, v))
         /\ OfCandidates(Upsert(rows, p, c, v), candRows)
<1>1. ASSUME NEW r \in Upsert(rows, p, c, v)
      PROVE  <<r[1], r[2]>> \in candRows
  <2>1. \/ r \in rows
        \/ r[1] = p /\ r[2] = c
    BY InUpsert
  <2>2. CASE r \in rows
    BY <2>2 DEF OfCandidates
  <2>3. CASE r[1] = p /\ r[2] = c
    BY <2>3
  <2> QED
    BY <2>1, <2>2, <2>3
<1>2. OfCandidates(Upsert(rows, p, c, v), candRows)
  BY <1>1 DEF OfCandidates
<1> QED
  BY <1>2, UpsertKeeps

LEMMA MovesUnchanged ==
  ASSUME UNCHANGED <<planRows, candRows, jobRows, applyRows>>
  PROVE  UNCHANGED <<PlansRead, JobsRead, AppliesRead>> /\ (JobRowsSound => JobRowsSound')
BY DEF PlansRead, JobsRead, AppliesRead, HasJob, Job, JobRowsSound

LEMMA InsertResultImplements ==
  ASSUME TablesInv, NEW p \in StoredPlans, NEW c \in Cands, NEW v \in Verdicts, InsertResult(p, c, v)
  PROVE  TablesInv' /\ Store!SaveResult(p, c, v)
<1>1. <<p, c>> \in candRows <=> Store!Stored(p, c)
  BY PlanIsRead DEF TablesInv
<1>2. CASE <<p, c>> \notin candRows
  <2>1. NoRowChanges /\ returned' = <<"said", "error">>
    BY <1>2 DEF InsertResult, Return
  <2> QED
    BY <1>1, <1>2, <2>1, UnchangedRead DEF Store!SaveResult, Store!Fails, Store!Returns
<1>3. CASE <<p, c>> \in candRows
  <2>1. /\ resultRows' = Upsert(resultRows, p, c, v) /\ returned' = <<"said", "saved">>
        /\ UNCHANGED <<planRows, candRows, journalRows, operationRows, jobRows, applyRows>>
    BY <1>3 DEF InsertResult, Return
  <2>2. Paired(resultRows, Verdicts) /\ OneRowEach(resultRows) /\ OfCandidates(resultRows, candRows)
    BY RowsAreSound DEF TablesInv
  <2>3. Paired(resultRows', Verdicts) /\ OneRowEach(resultRows') /\ OfCandidates(resultRows', candRows)
    BY <1>3, <2>1, <2>2, UpsertKeepsRows
  <2>4. UNCHANGED <<PlansRead, JobsRead, AppliesRead>> /\ (JobRowsSound => JobRowsSound')
    BY <2>1, MovesUnchanged
  <2>5. TablesInv'
    BY <2>1, <2>3, <2>4 DEF TablesInv, MoveRowsSound
  <2>6. Valued(resultRows)' = [Valued(resultRows) EXCEPT ![p][c] = v]
    BY <2>1, <2>2, UpsertReads
  <2>7. UNCHANGED <<Valued(journalRows), Valued(operationRows)>>
    BY <2>1
  <2> QED
    BY <1>1, <1>3, <2>1, <2>4, <2>5, <2>6, <2>7 DEF Store!SaveResult, Store!Returns, Store!MovesOnly
<1> QED
  BY <1>2, <1>3

LEMMA InsertJournalImplements ==
  ASSUME TablesInv, NEW p \in StoredPlans, NEW c \in Cands, NEW s \in JournalSteps, InsertJournal(p, c, s)
  PROVE  TablesInv' /\ Store!SaveJournal(p, c, s)
<1>1. <<p, c>> \in candRows <=> Store!Stored(p, c)
  BY PlanIsRead DEF TablesInv
<1> DEFINE may == <<p, c>> \in candRows /\ Store!JournalEdge(Valued(journalRows)[p][c], s)
<1>2. CASE ~may
  <2>1. NoRowChanges /\ returned' = <<"said", "error">>
    BY <1>2 DEF InsertJournal, Return, ValueAt
  <2> QED
    BY <1>1, <1>2, <2>1, UnchangedRead DEF Store!SaveJournal, Store!Fails, Store!Returns
<1>3. CASE may
  <2>1. /\ journalRows' = Upsert(journalRows, p, c, s) /\ returned' = <<"said", "saved">>
        /\ UNCHANGED <<planRows, candRows, resultRows, operationRows, jobRows, applyRows>>
    BY <1>3 DEF InsertJournal, Return, ValueAt
  <2>2. Paired(journalRows, JournalSteps) /\ OneRowEach(journalRows) /\ OfCandidates(journalRows, candRows)
    BY RowsAreSound DEF TablesInv
  <2>3. Paired(journalRows', JournalSteps) /\ OneRowEach(journalRows') /\ OfCandidates(journalRows', candRows)
    BY <1>3, <2>1, <2>2, UpsertKeepsRows
  <2>4. UNCHANGED <<PlansRead, JobsRead, AppliesRead>> /\ (JobRowsSound => JobRowsSound')
    BY <2>1, MovesUnchanged
  <2>5. TablesInv'
    BY <2>1, <2>3, <2>4 DEF TablesInv, MoveRowsSound
  <2>6. Valued(journalRows)' = [Valued(journalRows) EXCEPT ![p][c] = s]
    BY <2>1, <2>2, UpsertReads
  <2>7. UNCHANGED <<Valued(resultRows), Valued(operationRows)>>
    BY <2>1
  <2> QED
    BY <1>1, <1>3, <2>1, <2>4, <2>5, <2>6, <2>7 DEF Store!SaveJournal, Store!Returns, Store!MovesOnly
<1> QED
  BY <1>2, <1>3

(* The unique index on unresolved sources asks what the dictionary is searched for. *)
LEMMA SourceIsFree ==
  ASSUME TablesInv, NEW p \in StoredPlans, NEW c \in CloudCands, NEW s \in CloudSteps
  PROVE  UniqueSource(Upsert(operationRows, p, c, s)) <=>
           (s \notin Store!Terminal =>
              \A q \in StoredPlans, d \in CloudCands :
                 <<q, d>> # <<p, c>> /\ SourceOf[d] = SourceOf[c]
                    => Valued(operationRows)[q][d] \in Store!Terminal \cup {"none"})
<1> DEFINE new == Upsert(operationRows, p, c, s)
           free == \A q \in StoredPlans, d \in CloudCands :
                      <<q, d>> # <<p, c>> /\ SourceOf[d] = SourceOf[c]
                         => Valued(operationRows)[q][d] \in Store!Terminal \cup {"none"}
<1>1. /\ Paired(operationRows, CloudSteps) /\ OneRowEach(operationRows) /\ UniqueSource(operationRows)
      /\ \A r \in operationRows : r[2] \in CloudCands
      /\ "none" \notin CloudSteps
  BY TablesAssumption DEF TablesInv, MoveRowsSound
<1>2. \A r \in operationRows : r = <<r[1], r[2], r[3]>> /\ r[1] \in StoredPlans /\ r[2] \in Cands /\ r[3] \in CloudSteps
  BY <1>1 DEF Paired
<1>3. CASE s \in Store!Terminal
  <2>1. \A r \in new : r[3] \notin Store!Terminal => r \in operationRows
    BY <1>3 DEF Upsert
  <2>2. UniqueSource(new)
    BY <1>1, <2>1 DEF UniqueSource
  <2> QED
    BY <1>3, <2>2
<1>4. CASE s \notin Store!Terminal
  <2> DEFINE w == <<p, c, s>>
  <2>0. w \in new /\ w[1] = p /\ w[2] = c /\ w[3] = s
    BY DEF Upsert
  <2>1. ASSUME UniqueSource(new), NEW q \in StoredPlans, NEW d \in CloudCands, <<q, d>> # <<p, c>>,
               SourceOf[d] = SourceOf[c], Valued(operationRows)[q][d] \notin Store!Terminal \cup {"none"}
        PROVE  FALSE
    <3> DEFINE r == <<q, d, Valued(operationRows)[q][d]>>
    <3>1. r \in operationRows
      BY <1>1, <2>1, ReadIsStored DEF Cands
    <3>2. r[1] = q /\ r[2] = d /\ r[3] = Valued(operationRows)[q][d]
      OBVIOUS
    <3>3. r \in new /\ r[3] \notin Store!Terminal
      BY <2>1, <3>1, <3>2 DEF Upsert
    <3> HIDE DEF r, w, new
    <3>4. r = w
      BY <1>4, <2>0, <2>1, <3>2, <3>3 DEF UniqueSource, new
    <3> QED
      BY <2>0, <2>1, <3>2, <3>4
  <2>2. ASSUME free
        PROVE  UniqueSource(new)
    <3>1. ASSUME NEW r \in operationRows, r[1] # p \/ r[2] # c, r[3] \notin Store!Terminal, SourceOf[r[2]] = SourceOf[c]
          PROVE  FALSE
      <4>1. Valued(operationRows)[r[1]][r[2]] = r[3] /\ r[2] \in CloudCands /\ r[1] \in StoredPlans /\ r[3] # "none"
        BY <1>1, <1>2, ValuedOfRow
      <4>2. <<r[1], r[2]>> # <<p, c>>
        BY <3>1
      <4> QED
        BY <2>2, <3>1, <4>1, <4>2
    <3>2. \A r \in new : r = w \/ (r \in operationRows /\ (r[1] # p \/ r[2] # c))
      BY InUpsert
    <3>3. ASSUME NEW r \in new, NEW t \in new, r[3] \notin Store!Terminal, t[3] \notin Store!Terminal,
                 SourceOf[r[2]] = SourceOf[t[2]]
          PROVE  r = t
      <4>1. CASE r = w /\ t # w
        <5> QED
          BY <2>0, <3>1, <3>2, <3>3, <4>1
      <4>2. CASE r # w /\ t = w
        <5> QED
          BY <2>0, <3>1, <3>2, <3>3, <4>2
      <4>3. CASE r # w /\ t # w
        BY <1>1, <3>2, <3>3, <4>3 DEF UniqueSource
      <4> QED
        BY <4>1, <4>2, <4>3
    <3> QED
      BY <3>3 DEF UniqueSource
  <2> QED
    BY <1>4, <2>1, <2>2
<1> QED
  BY <1>3, <1>4

LEMMA OperationMayBeSaved ==
  ASSUME TablesInv, NEW p \in StoredPlans, NEW c \in Cands, NEW s \in CloudSteps
  PROVE  InsertsOperation(p, c, s) <=> Store!MaySaveOperation(p, c, s)
<1>1. <<p, c>> \in candRows <=> Store!Stored(p, c)
  BY PlanIsRead DEF TablesInv
<1>2. CASE c \in CloudCands
  BY <1>1, <1>2, SourceIsFree DEF InsertsOperation, Store!MaySaveOperation, ValueAt
<1>3. CASE c \notin CloudCands
  BY <1>3 DEF InsertsOperation, Store!MaySaveOperation
<1> QED
  BY <1>2, <1>3

OperationsSound ==
    /\ Paired(operationRows, CloudSteps) /\ OneRowEach(operationRows) /\ OfCandidates(operationRows, candRows)
    /\ UniqueSource(operationRows) /\ \A r \in operationRows : r[2] \in CloudCands

LEMMA OperationKept ==
  ASSUME TablesInv, NEW p \in StoredPlans, NEW c \in Cands, NEW s \in CloudSteps, InsertsOperation(p, c, s),
         operationRows' = Upsert(operationRows, p, c, s), UNCHANGED candRows
  PROVE  OperationsSound' /\ Valued(operationRows)' = [Valued(operationRows) EXCEPT ![p][c] = s]
<1>1. /\ Paired(operationRows, CloudSteps) /\ OneRowEach(operationRows) /\ OfCandidates(operationRows, candRows)
      /\ <<p, c>> \in candRows
  BY RowsAreSound DEF TablesInv, InsertsOperation
<1>2. Paired(operationRows', CloudSteps) /\ OneRowEach(operationRows') /\ OfCandidates(operationRows', candRows')
  BY <1>1, UpsertKeepsRows
<1>3. UniqueSource(operationRows')
  BY DEF InsertsOperation
<1>4. \A r \in operationRows' : r[2] \in CloudCands
  BY DEF InsertsOperation, Upsert, TablesInv, MoveRowsSound
<1>5. Valued(operationRows)' = [Valued(operationRows) EXCEPT ![p][c] = s]
  BY <1>1, UpsertReads
<1> QED
  BY <1>2, <1>3, <1>4, <1>5 DEF OperationsSound

LEMMA InsertOperationImplements ==
  ASSUME TablesInv, NEW p \in StoredPlans, NEW c \in Cands, NEW s \in CloudSteps, InsertOperation(p, c, s)
  PROVE  TablesInv' /\ Store!SaveOperation(p, c, s)
<1> DEFINE may == s \notin Store!Terminal /\ InsertsOperation(p, c, s)
<1>1. InsertsOperation(p, c, s) <=> Store!MaySaveOperation(p, c, s)
  BY OperationMayBeSaved
<1>2. CASE ~may
  <2>1. NoRowChanges /\ returned' = <<"said", "error">>
    BY <1>2 DEF InsertOperation, Return
  <2> QED
    BY <1>1, <1>2, <2>1, UnchangedRead DEF Store!SaveOperation, Store!Fails, Store!Returns
<1>3. CASE may
  <2>1. /\ operationRows' = Upsert(operationRows, p, c, s) /\ returned' = <<"said", "saved">>
        /\ UNCHANGED <<planRows, candRows, resultRows, journalRows, jobRows, applyRows>>
    BY <1>3 DEF InsertOperation, Return
  <2>2. OperationsSound' /\ Valued(operationRows)' = [Valued(operationRows) EXCEPT ![p][c] = s]
    <3>1. InsertsOperation(p, c, s) /\ operationRows' = Upsert(operationRows, p, c, s) /\ UNCHANGED candRows
      BY <1>3, <2>1
    <3> QED
      BY <3>1, OperationKept
  <2>3. UNCHANGED <<PlansRead, JobsRead, AppliesRead>> /\ (JobRowsSound => JobRowsSound')
    BY <2>1, MovesUnchanged
  <2>4. TablesInv'
    BY <2>1, <2>2, <2>3 DEF TablesInv, MoveRowsSound, OperationsSound
  <2>5. UNCHANGED <<Valued(resultRows), Valued(journalRows)>>
    BY <2>1
  <2> QED
    BY <1>1, <1>3, <2>1, <2>2, <2>3, <2>4, <2>5 DEF Store!SaveOperation, Store!Returns, Store!MovesOnly
<1> QED
  BY <1>2, <1>3

LEMMA FinalizeRowsImplements ==
  ASSUME TablesInv, NEW p \in StoredPlans, NEW c \in Cands, NEW s \in CloudSteps, NEW v \in Verdicts, FinalizeRows(p, c, s, v)
  PROVE  TablesInv' /\ Store!FinalizeMove(p, c, s, v)
<1> DEFINE may == s \in Store!Terminal /\ InsertsOperation(p, c, s)
<1>1. InsertsOperation(p, c, s) <=> Store!MaySaveOperation(p, c, s)
  BY OperationMayBeSaved
<1>2. CASE ~may
  <2>1. NoRowChanges /\ returned' = <<"said", "error">>
    BY <1>2 DEF FinalizeRows, Return
  <2> QED
    BY <1>1, <1>2, <2>1, UnchangedRead DEF Store!FinalizeMove, Store!Fails, Store!Returns
<1>3. CASE may
  <2>1. /\ operationRows' = Upsert(operationRows, p, c, s) /\ resultRows' = Upsert(resultRows, p, c, v)
        /\ returned' = <<"said", "saved">> /\ UNCHANGED <<planRows, candRows, journalRows, jobRows, applyRows>>
    BY <1>3 DEF FinalizeRows, Return
  <2>2. OperationsSound' /\ Valued(operationRows)' = [Valued(operationRows) EXCEPT ![p][c] = s]
    <3>1. InsertsOperation(p, c, s) /\ operationRows' = Upsert(operationRows, p, c, s) /\ UNCHANGED candRows
      BY <1>3, <2>1
    <3> QED
      BY <3>1, OperationKept
  <2>3. UNCHANGED <<PlansRead, JobsRead, AppliesRead>> /\ (JobRowsSound => JobRowsSound')
    BY <2>1, MovesUnchanged
  <2>4. /\ Paired(resultRows, Verdicts) /\ OneRowEach(resultRows) /\ OfCandidates(resultRows, candRows)
        /\ <<p, c>> \in candRows
    BY <1>3, RowsAreSound DEF TablesInv, InsertsOperation
  <2>5. Paired(resultRows', Verdicts) /\ OneRowEach(resultRows') /\ OfCandidates(resultRows', candRows)
    BY <2>1, <2>4, UpsertKeepsRows
  <2>6. Valued(resultRows)' = [Valued(resultRows) EXCEPT ![p][c] = v]
    BY <2>1, <2>4, UpsertReads
  <2>7. TablesInv'
    BY <2>1, <2>2, <2>3, <2>5 DEF TablesInv, MoveRowsSound, OperationsSound
  <2>8. UNCHANGED Valued(journalRows)
    BY <2>1
  <2> QED
    BY <1>1, <1>3, <2>1, <2>2, <2>3, <2>6, <2>7, <2>8 DEF Store!FinalizeMove, Store!Returns, Store!MovesOnly
<1> QED
  BY <1>2, <1>3

(* The payloads of the apply jobs.                                          *)
AskedOf(rows) ==
    [j \in ApplyIds |->
        IF \E r \in rows : r.job = j
        THEN [asked |-> (CHOOSE r \in rows : r.job = j).asked, result |-> (CHOOSE r \in rows : r.job = j).result]
        ELSE Store!NoApply]

LEMMA AppliesReadIs == AppliesRead = AskedOf(applyRows) /\ AppliesRead' = AskedOf(applyRows')
BY DEF AppliesRead, AskedOf, Store!NoApply

LEMMA AskedOfRow ==
  ASSUME NEW rows, rows \subseteq ApplyRecords, OneEach(rows), NEW x \in rows
  PROVE  AskedOf(rows)[x.job] = [asked |-> x.asked, result |-> x.result] /\ x.job \in ApplyIds
<1> DEFINE picked == CHOOSE s \in rows : s.job = x.job
<1>1. picked \in rows /\ picked.job = x.job
  OBVIOUS
<1>2. picked = x
  BY <1>1 DEF OneEach
<1>3. x.job \in ApplyIds
  BY DEF ApplyRecords
<1>4. AskedOf(rows)[x.job] = [asked |-> picked.asked, result |-> picked.result]
  BY <1>3 DEF AskedOf
<1> QED
  BY <1>2, <1>3, <1>4

LEMMA AskedOfNoRow ==
  ASSUME NEW rows, NEW j \in ApplyIds, ~\E x \in rows : x.job = j
  PROVE  AskedOf(rows)[j] = Store!NoApply
BY DEF AskedOf

LEMMA AskedOfIs ==
  ASSUME NEW rows
  PROVE  AskedOf(rows) = [j \in ApplyIds |-> AskedOf(rows)[j]]
BY DEF AskedOf

(* A row of a job is there iff the job is read.                             *)
LEMMA JobIsThere ==
  ASSUME JobRowsSound, NEW j \in AllJobs
  PROVE  /\ HasJob(j) <=> JobsRead[j].state # "absent"
         /\ HasJob(j) => Job(j) \in jobRows /\ Job(j).job = j /\ JobsRead[j] = Face(Job(j))
         /\ ~HasJob(j) => JobsRead[j] = Store!NoJob
<1>1. jobRows \subseteq JobRecords /\ OneEach(jobRows)
  BY DEF JobRowsSound
<1>2. CASE HasJob(j)
  <2>1. Job(j) \in jobRows /\ Job(j).job = j
    BY <1>2 DEF HasJob, Job
  <2>2. JobsRead[j] = Face(Job(j))
    BY <1>1, <2>1, ReadOfRow, JobsReadIs
  <2>3. Job(j).state # "absent"
    BY <1>1, <2>1 DEF JobRecords
  <2>4. JobsRead[j].state # "absent"
    BY <2>2, <2>3 DEF Face
  <2> QED
    BY <1>2, <2>1, <2>2, <2>4
<1>3. CASE ~HasJob(j)
  <2>1. JobsRead[j] = Store!NoJob
    BY <1>3, ReadOfNoRow, JobsReadIs DEF HasJob
  <2> QED
    BY <1>3, <2>1 DEF Store!NoJob
<1> QED
  BY <1>2, <1>3

(* One row of the jobs is updated, or a row is inserted.                    *)
LEMMA RowUpdated ==
  ASSUME JobRowsSound, NEW r \in jobRows, NEW w \in JobRecords, w.job = r.job, Update(r, w)
  PROVE  /\ jobRows' \subseteq JobRecords /\ OneEach(jobRows') /\ IsFiniteSet(jobRows')
         /\ \A j : (\E t \in jobRows' : t.job = j) <=> HasJob(j)
         /\ JobsRead' = [JobsRead EXCEPT ![r.job] = Face(w)]
<1> DEFINE new == (jobRows \ {r}) \cup {w}
<1>1. jobRows \subseteq JobRecords /\ OneEach(jobRows) /\ IsFiniteSet(jobRows) /\ jobRows' = new
  BY DEF JobRowsSound, Update
<1>2. new \subseteq JobRecords /\ OneEach(new) /\ w \in new
  BY <1>1 DEF OneEach
<1>3. IsFiniteSet(new)
  BY <1>1, FS_RemoveElement, FS_AddElement
<1>4. \A t : t.job # w.job => (t \in new <=> t \in jobRows)
  OBVIOUS
<1>5. \A j : (\E t \in new : t.job = j) <=> HasJob(j)
  BY DEF HasJob
<1> HIDE DEF new
<1>6. ReadOf(new) = [ReadOf(jobRows) EXCEPT ![w.job] = Face(w)]
  BY <1>1, <1>2, <1>4, ReadOfWritten
<1> QED
  BY <1>1, <1>2, <1>3, <1>5, <1>6, JobsReadIs

LEMMA RowInserted ==
  ASSUME JobRowsSound, NEW w \in JobRecords, ~HasJob(w.job), jobRows' = jobRows \cup {w}
  PROVE  /\ jobRows' \subseteq JobRecords /\ OneEach(jobRows') /\ IsFiniteSet(jobRows')
         /\ \A j : (\E t \in jobRows' : t.job = j) <=> HasJob(j) \/ j = w.job
         /\ JobsRead' = [JobsRead EXCEPT ![w.job] = Face(w)]
<1> DEFINE new == jobRows \cup {w}
<1>1. jobRows \subseteq JobRecords /\ OneEach(jobRows) /\ IsFiniteSet(jobRows) /\ jobRows' = new
  BY DEF JobRowsSound
<1>2. new \subseteq JobRecords /\ OneEach(new) /\ w \in new
  BY <1>1 DEF OneEach, HasJob
<1>3. IsFiniteSet(new)
  BY <1>1, FS_AddElement
<1>4. \A t : t.job # w.job => (t \in new <=> t \in jobRows)
  OBVIOUS
<1>5. \A j : (\E t \in new : t.job = j) <=> HasJob(j) \/ j = w.job
  BY DEF HasJob
<1> HIDE DEF new
<1>6. ReadOf(new) = [ReadOf(jobRows) EXCEPT ![w.job] = Face(w)]
  BY <1>1, <1>2, <1>4, ReadOfWritten
<1> QED
  BY <1>1, <1>2, <1>3, <1>5, <1>6, JobsReadIs

(* The statements on the jobs leave the plans and the moves alone.          *)
LEMMA PlansUnchanged ==
  ASSUME UNCHANGED planTables
  PROVE  Store!JobsOnly /\ (MoveRowsSound => MoveRowsSound')
<1>1. UNCHANGED <<PlansRead, Valued(resultRows), Valued(journalRows), Valued(operationRows)>>
  BY DEF planTables, PlansRead
<1>2. MoveRowsSound => MoveRowsSound'
  BY DEF planTables, MoveRowsSound
<1> QED
  BY <1>1, <1>2 DEF Store!JobsOnly

LEMMA QuietJobs ==
  ASSUME UNCHANGED <<jobRows, applyRows>>
  PROVE  UNCHANGED <<JobsRead, AppliesRead>> /\ (JobRowsSound => JobRowsSound')
BY DEF JobsRead, AppliesRead, HasJob, Job, JobRowsSound

LEMMA NewJobIs ==
  ASSUME NEW j \in AllJobs, NEW p \in StoredPlans
  PROVE  NewJob(j, p) \in JobRecords /\ NewJob(j, p).job = j /\ Face(NewJob(j, p)) = Store!Queued(p)
<1>1. NewJob(j, p) \in JobRecords /\ NewJob(j, p).job = j
  BY DEF NewJob, JobRecords
<1>2. Face(NewJob(j, p)) = [state |-> "queued", plan |-> p, owner |-> Null, live |-> FALSE, error |-> "none"]
  BY DEF NewJob, Face
<1>3. Store!Queued(p) = [state |-> "queued", plan |-> p, owner |-> Null, live |-> FALSE, error |-> "none"]
  <2> DEFINE it == [state |-> "queued", plan |-> p, owner |-> Null, live |-> FALSE, error |-> "none"]
  <2>1. Store!Queued(p) = [Store!NoJob EXCEPT !.state = "queued", !.plan = p]
    BY DEF Store!Queued
  <2>2. [Store!NoJob EXCEPT !.state = "queued", !.plan = p]
          \in [state : {"queued"}, plan : {p}, owner : {Null}, live : {FALSE}, error : {"none"}]
    BY DEF Store!NoJob
  <2>3. it \in [state : {"queued"}, plan : {p}, owner : {Null}, live : {FALSE}, error : {"none"}]
    OBVIOUS
  <2> HIDE DEF it
  <2>4. [Store!NoJob EXCEPT !.state = "queued", !.plan = p] = it
    BY <2>2, <2>3
  <2> QED
    BY <2>1, <2>4 DEF it
<1> QED
  BY <1>1, <1>2, <1>3

LEMMA TerminalRowIs ==
  ASSUME JobRowsSound, NEW r \in jobRows, NEW state \in {"completed", "failed"},
         NEW error \in {"none", "failed", "cancelled", "interrupted"}
  PROVE  /\ TerminalRow(r, state, error) \in JobRecords /\ TerminalRow(r, state, error).job = r.job
         /\ r.job \in AllJobs /\ JobsRead[r.job] = Face(r)
         /\ Face(TerminalRow(r, state, error)) = Store!Ended(r.job, state, error)
<1>1. jobRows \subseteq JobRecords /\ OneEach(jobRows)
  BY DEF JobRowsSound
<1>2. TerminalRow(r, state, error) \in JobRecords /\ TerminalRow(r, state, error).job = r.job /\ r.job \in AllJobs
  BY <1>1 DEF TerminalRow, JobRecords
<1>3. JobsRead[r.job] = Face(r)
  BY <1>1, ReadOfRow, JobsReadIs
<1>4. Face(TerminalRow(r, state, error)) = [state |-> state, plan |-> r.plan, owner |-> Null, live |-> FALSE, error |-> error]
  BY <1>1 DEF TerminalRow, JobRecords, Face
<1>5. Store!Ended(r.job, state, error) =
        [state |-> state, plan |-> JobsRead[r.job].plan, owner |-> Null, live |-> FALSE, error |-> error]
  <2> DEFINE q == JobsRead[r.job].plan
             it == [state |-> state, plan |-> q, owner |-> Null, live |-> FALSE, error |-> error]
  <2> HIDE DEF q
  <2>1. Store!Ended(r.job, state, error) = [Store!NoJob EXCEPT !.state = state, !.plan = q, !.error = error]
    BY DEF Store!Ended, q
  <2>2. [Store!NoJob EXCEPT !.state = state, !.plan = q, !.error = error]
          \in [state : {state}, plan : {q}, owner : {Null}, live : {FALSE}, error : {error}]
    BY DEF Store!NoJob
  <2>3. it \in [state : {state}, plan : {q}, owner : {Null}, live : {FALSE}, error : {error}]
    OBVIOUS
  <2> HIDE DEF it
  <2>4. [Store!NoJob EXCEPT !.state = state, !.plan = q, !.error = error] = it
    BY <2>2, <2>3
  <2> QED
    BY <2>1, <2>4 DEF it, q
<1>6. JobsRead[r.job].plan = r.plan
  BY <1>3 DEF Face
<1> QED
  BY <1>2, <1>3, <1>4, <1>5, <1>6

LEMMA InsertJobImplements ==
  ASSUME TablesInv, NEW p \in StoredPlans, InsertJob(p)
  PROVE  TablesInv' /\ Store!EnqueueJob(p)
<1>1. p \in AllJobs /\ p \notin ApplyIds /\ (HasJob(p) <=> JobsRead[p].state # "absent") /\ ActiveCount = Store!Count
  BY JobIsThere, ActiveIsCount, TablesAssumption DEF TablesInv, AllJobs
<1>2. Store!JobsOnly /\ MoveRowsSound' /\ applyRows' = applyRows
  BY PlansUnchanged DEF InsertJob, TablesInv
<1>3. AppliesRead' = AppliesRead
  BY <1>2, AppliesReadIs
<1>4. CASE ActiveCount >= QueueLimit \/ HasJob(p)
  <2>1. jobRows' = jobRows /\ returned' = <<"said", "no">>
    BY <1>4 DEF InsertJob, Return
  <2>2. JobsRead' = JobsRead /\ JobRowsSound'
    BY <1>2, <2>1, QuietJobs DEF TablesInv
  <2> QED
    BY <1>1, <1>2, <1>3, <1>4, <2>1, <2>2 DEF TablesInv, Store!EnqueueJob, Store!Returns
<1>5. CASE ~(ActiveCount >= QueueLimit \/ HasJob(p))
  <2> DEFINE w == NewJob(p, p)
  <2>1. jobRows' = jobRows \cup {w} /\ returned' = <<"said", "yes">>
    BY <1>5 DEF InsertJob, Return
  <2>2. w \in JobRecords /\ w.job = p /\ Face(w) = Store!Queued(p)
    BY <1>1, NewJobIs
  <2> HIDE DEF w
  <2>3. /\ jobRows' \subseteq JobRecords /\ OneEach(jobRows') /\ IsFiniteSet(jobRows')
        /\ \A j : (\E t \in jobRows' : t.job = j) <=> HasJob(j) \/ j = w.job
        /\ JobsRead' = [JobsRead EXCEPT ![w.job] = Face(w)]
    BY <1>5, <2>1, <2>2, RowInserted DEF TablesInv
  <2>4. JobRowsSound'
    <3>1. \A x \in applyRows' : HasJob(x.job)'
      BY <1>2, <2>3 DEF TablesInv, JobRowsSound, HasJob
    <3>2. \A r \in jobRows' : r.job \in ApplyIds => \E x \in applyRows' : x.job = r.job
      BY <1>1, <1>2, <2>1, <2>2 DEF TablesInv, JobRowsSound
    <3> QED
      BY <1>2, <2>3, <3>1, <3>2 DEF TablesInv, JobRowsSound
  <2>5. JobsRead' = [JobsRead EXCEPT ![p] = Store!Queued(p)]
    BY <2>2, <2>3
  <2> QED
    BY <1>1, <1>2, <1>3, <1>5, <2>1, <2>4, <2>5 DEF TablesInv, Store!EnqueueJob, Store!Returns
<1> QED
  BY <1>4, <1>5

LEMMA InsertApplyImplements ==
  ASSUME TablesInv, NEW r \in ApplyIds, NEW p \in StoredPlans, NEW C \in Selections, InsertApply(r, p, C)
  PROVE  TablesInv' /\ Store!EnqueueApply(r, p, C)
<1>1. r \in AllJobs /\ (HasJob(r) <=> JobsRead[r].state # "absent")
      /\ ActiveCount = Store!Count /\ ActiveCount \in Nat /\ QueueLimit \in Nat
  BY JobIsThere, ActiveIsCount, TablesAssumption DEF TablesInv, AllJobs
<1>2. Store!JobsOnly /\ MoveRowsSound'
  BY PlansUnchanged DEF InsertApply, TablesInv
<1>3. applyRows \subseteq ApplyRecords /\ OneEach(applyRows) /\ (\A x \in applyRows : HasJob(x.job))
  BY DEF TablesInv, JobRowsSound
<1>4. CASE HasJob(r)
  <2>1. /\ UNCHANGED <<jobRows, applyRows>>
        /\ returned' = <<"said", IF Job(r).plan = p /\ \E x \in applyRows : x.job = r /\ x.asked = C
                                 THEN "existing" ELSE "conflict">>
    BY <1>4 DEF InsertApply, Return
  <2>2. Job(r) \in jobRows /\ Job(r).job = r /\ JobsRead[r] = Face(Job(r))
    BY <1>1, <1>4, JobIsThere DEF TablesInv
  <2>3. PICK x \in applyRows : x.job = r
    BY <2>2 DEF TablesInv, JobRowsSound
  <2>4. AppliesRead[r] = [asked |-> x.asked, result |-> x.result]
    BY <1>3, <2>3, AskedOfRow, AppliesReadIs
  <2>5. (\E y \in applyRows : y.job = r /\ y.asked = C) <=> AppliesRead[r].asked = C
    BY <1>3, <2>3, <2>4 DEF OneEach
  <2>6. Job(r).plan = JobsRead[r].plan
    BY <2>2 DEF Face
  <2>7. returned' = <<"said", IF JobsRead[r].plan = p /\ AppliesRead[r].asked = C THEN "existing" ELSE "conflict">>
    BY <2>1, <2>5, <2>6
  <2>8. UNCHANGED <<JobsRead, AppliesRead>> /\ JobRowsSound'
    BY <2>1, QuietJobs DEF TablesInv
  <2> QED
    BY <1>1, <1>2, <1>4, <2>7, <2>8 DEF TablesInv, Store!EnqueueApply, Store!Returns
<1>5. CASE ~HasJob(r) /\ ActiveCount >= QueueLimit
  <2>1. UNCHANGED <<jobRows, applyRows>> /\ returned' = <<"said", "full">>
    BY <1>5 DEF InsertApply, Return
  <2>2. UNCHANGED <<JobsRead, AppliesRead>> /\ JobRowsSound'
    BY <2>1, QuietJobs DEF TablesInv
  <2> QED
    BY <1>1, <1>2, <1>5, <2>1, <2>2 DEF TablesInv, Store!EnqueueApply, Store!Returns
<1>6. CASE ~HasJob(r) /\ ~(ActiveCount >= QueueLimit)
  <2> DEFINE w == NewJob(r, p)
             y == [job |-> r, asked |-> C, result |-> "none"]
  <2>1. /\ jobRows' = jobRows \cup {w} /\ applyRows' = applyRows \cup {y}
        /\ returned' = <<"said", "enqueued">>
    BY <1>6 DEF InsertApply, Return
  <2>2. w \in JobRecords /\ w.job = r /\ Face(w) = Store!Queued(p)
    BY <1>1, NewJobIs
  <2>3. y \in ApplyRecords /\ y.job = r /\ y.asked = C /\ y.result = "none"
    BY DEF ApplyRecords
  <2> HIDE DEF w, y
  <2>4. /\ jobRows' \subseteq JobRecords /\ OneEach(jobRows') /\ IsFiniteSet(jobRows')
        /\ \A j : (\E t \in jobRows' : t.job = j) <=> HasJob(j) \/ j = w.job
        /\ JobsRead' = [JobsRead EXCEPT ![w.job] = Face(w)]
    BY <1>6, <2>1, <2>2, RowInserted DEF TablesInv
  <2>5. applyRows' \subseteq ApplyRecords /\ OneEach(applyRows')
    BY <1>3, <1>6, <2>1, <2>3 DEF OneEach
  <2>6. JobRowsSound'
    <3>1. \A x \in applyRows' : HasJob(x.job)'
      BY <1>3, <2>1, <2>2, <2>3, <2>4 DEF HasJob
    <3>2. \A t \in jobRows' : t.job \in ApplyIds => \E x \in applyRows' : x.job = t.job
      BY <2>1, <2>2, <2>3 DEF TablesInv, JobRowsSound
    <3> QED
      BY <2>4, <2>5, <3>1, <3>2 DEF JobRowsSound
  <2>7. AskedOf(applyRows') = [AskedOf(applyRows) EXCEPT ![r] = [asked |-> C, result |-> "none"]]
    <3>1. AskedOf(applyRows')[r] = [asked |-> C, result |-> "none"]
      <4>1. y \in applyRows'
        BY <2>1
      <4> QED
        BY <2>3, <2>5, <4>1, AskedOfRow
    <3>2. ASSUME NEW j \in ApplyIds, j # r
          PROVE  AskedOf(applyRows')[j] = AskedOf(applyRows)[j]
      <4>1. CASE \E x \in applyRows : x.job = j
        <5>1. PICK x \in applyRows : x.job = j
          BY <4>1
        <5>2. x \in applyRows'
          BY <2>1
        <5>3. AskedOf(applyRows)[j] = [asked |-> x.asked, result |-> x.result]
          BY <1>3, <5>1, AskedOfRow
        <5>4. AskedOf(applyRows')[j] = [asked |-> x.asked, result |-> x.result]
          BY <2>5, <5>1, <5>2, AskedOfRow
        <5> QED
          BY <5>3, <5>4
      <4>2. CASE ~\E x \in applyRows : x.job = j
        <5>1. ~\E x \in applyRows' : x.job = j
          BY <2>1, <2>3, <3>2, <4>2
        <5> QED
          BY <4>2, <5>1, AskedOfNoRow
      <4> QED
        BY <4>1, <4>2
    <3> QED
      BY <3>1, <3>2, AskedOfIs
  <2>8. AppliesRead' = [AppliesRead EXCEPT ![r] = [asked |-> C, result |-> "none"]]
    BY <2>7, AppliesReadIs
  <2>9. JobsRead' = [JobsRead EXCEPT ![r] = Store!Queued(p)]
    BY <2>2, <2>4
  <2> QED
    BY <1>1, <1>2, <1>6, <2>1, <2>6, <2>8, <2>9 DEF TablesInv, Store!EnqueueApply, Store!Returns
<1> QED
  BY <1>4, <1>5, <1>6

(* An update of a row leaves the jobs there are, and the payloads with them. *)
LEMMA UpdateKeeps ==
  ASSUME JobRowsSound, NEW r \in jobRows, NEW w \in JobRecords, w.job = r.job, Update(r, w), UNCHANGED applyRows
  PROVE  JobRowsSound' /\ JobsRead' = [JobsRead EXCEPT ![r.job] = Face(w)] /\ AppliesRead' = AppliesRead
<1>1. /\ jobRows' \subseteq JobRecords /\ OneEach(jobRows') /\ IsFiniteSet(jobRows')
      /\ \A j : (\E t \in jobRows' : t.job = j) <=> HasJob(j)
      /\ JobsRead' = [JobsRead EXCEPT ![r.job] = Face(w)]
  BY RowUpdated
<1>2. \A x \in applyRows' : HasJob(x.job)'
  BY <1>1 DEF JobRowsSound, HasJob
<1>3. \A t \in jobRows' : t.job \in ApplyIds => \E x \in applyRows' : x.job = t.job
  <2>1. ASSUME NEW t \in jobRows', t.job \in ApplyIds
        PROVE  \E x \in applyRows' : x.job = t.job
    <3>1. PICK s \in jobRows : s.job = t.job
      BY <1>1 DEF HasJob
    <3>2. \E x \in applyRows : x.job = s.job
      BY <2>1, <3>1 DEF JobRowsSound
    <3> QED
      BY <3>1, <3>2
  <2> QED
    BY <2>1
<1> QED
  BY <1>1, <1>2, <1>3, AppliesReadIs DEF JobRowsSound

LEMMA RowIsRead ==
  ASSUME JobRowsSound, NEW r \in jobRows
  PROVE  /\ r \in JobRecords /\ r.job \in AllJobs /\ HasJob(r.job) /\ Job(r.job) = r /\ JobsRead[r.job] = Face(r)
         /\ JobsRead[r.job].state = r.state /\ JobsRead[r.job].plan = r.plan /\ JobsRead[r.job].owner = r.owner
         /\ JobsRead[r.job].live = r.live /\ JobsRead[r.job].error = r.error
<1>1. jobRows \subseteq JobRecords /\ OneEach(jobRows)
  BY DEF JobRowsSound
<1>2. r \in JobRecords /\ r.job \in AllJobs /\ JobsRead[r.job] = Face(r)
  BY <1>1, ReadOfRow, JobsReadIs
<1>3. HasJob(r.job) /\ Job(r.job) = r
  BY <1>1 DEF HasJob, Job, OneEach
<1> QED
  BY <1>2, <1>3 DEF Face

LEMMA ClaimRowImplements ==
  ASSUME TablesInv, NEW o \in Owners, ClaimRow(o)
  PROVE  TablesInv' /\ Store!ClaimNext(o)
<1> DEFINE queued == {r \in jobRows : r.state = "queued"}
<1>1. Store!JobsOnly /\ MoveRowsSound' /\ UNCHANGED applyRows
  BY PlansUnchanged DEF ClaimRow, TablesInv
<1>2. CASE queued = {} /\ returned' = <<"said", "nothing">> /\ UNCHANGED jobRows
  <2>1. \A j \in AllJobs : JobsRead[j].state # "queued"
    <3>1. ASSUME NEW j \in AllJobs, JobsRead[j].state = "queued"
          PROVE  FALSE
      <4>1. HasJob(j) /\ Job(j) \in jobRows /\ JobsRead[j] = Face(Job(j))
        BY <3>1, JobIsThere DEF TablesInv
      <4>2. Job(j).state = "queued"
        BY <3>1, <4>1 DEF Face
      <4> QED
        BY <1>2, <4>1, <4>2
    <3> QED
      BY <3>1
  <2>2. UNCHANGED <<JobsRead, AppliesRead>> /\ JobRowsSound'
    BY <1>1, <1>2, QuietJobs DEF TablesInv
  <2> QED
    BY <1>1, <1>2, <2>1, <2>2 DEF TablesInv, Store!ClaimNext, Store!Returns, Store!Jobs, AllJobs
<1>3. ASSUME NEW r \in queued, \A s \in queued : r.job <= s.job,
             Update(r, [r EXCEPT !.state = "running", !.owner = o, !.live = TRUE]), returned' = <<"job", r.job>>
      PROVE  TablesInv' /\ Store!ClaimNext(o)
  <2> DEFINE w == [r EXCEPT !.state = "running", !.owner = o, !.live = TRUE]
             j == r.job
  <2>1. r \in jobRows /\ r.state = "queued" /\ r \in JobRecords /\ j \in AllJobs
        /\ JobsRead[j] = Face(r) /\ JobsRead[j].state = "queued"
    BY <1>3, RowIsRead DEF TablesInv
  <2>2. w \in JobRecords /\ w.job = j
    BY <2>1 DEF JobRecords
  <2>3. Update(r, w)
    BY <1>3
  <2>4. Face(w) = [Face(r) EXCEPT !.state = "running", !.owner = o, !.live = TRUE]
    <3>1. Face(w) \in [state : {"running"}, plan : {r.plan}, owner : {o}, live : {TRUE}, error : {r.error}]
      BY <2>1 DEF Face, JobRecords
    <3>2. [Face(r) EXCEPT !.state = "running", !.owner = o, !.live = TRUE]
            \in [state : {"running"}, plan : {r.plan}, owner : {o}, live : {TRUE}, error : {r.error}]
      BY DEF Face
    <3> QED
      BY <3>1, <3>2
  <2> HIDE DEF w
  <2>5. JobRowsSound' /\ JobsRead' = [JobsRead EXCEPT ![j] = Face(w)] /\ AppliesRead' = AppliesRead
    BY <1>1, <2>1, <2>2, <2>3, UpdateKeeps DEF TablesInv
  <2>6. ASSUME NEW i \in AllJobs, JobsRead[i].state = "queued"
        PROVE  j <= i
    <3>1. HasJob(i) /\ Job(i) \in jobRows /\ Job(i).job = i /\ JobsRead[i] = Face(Job(i))
      BY <2>6, JobIsThere DEF TablesInv
    <3>2. Job(i).state = "queued"
      BY <2>6, <3>1 DEF Face
    <3> QED
      BY <1>3, <3>1, <3>2
  <2>7. Store!Oldest = j
    <3> DEFINE first(i) == JobsRead[i].state = "queued" /\ \A k \in AllJobs : JobsRead[k].state = "queued" => i <= k
    <3>1. j \in AllJobs /\ first(j)
      BY <2>1, <2>6
    <3>2. ASSUME NEW i \in AllJobs, first(i)
          PROVE  i = j
      <4>1. i <= j /\ j <= i
        BY <2>1, <2>6, <3>2
      <4>2. i \in Nat /\ j \in Nat
        BY <2>1, TablesAssumption DEF AllJobs
      <4> HIDE DEF j
      <4> QED
        BY <4>1, <4>2
    <3>3. (CHOOSE i \in AllJobs : first(i)) = j
      <4> HIDE DEF first, j
      <4> QED
        BY <3>1, <3>2
    <3>4. Store!Oldest = CHOOSE i \in AllJobs : first(i)
      BY DEF Store!Oldest, Store!Jobs, AllJobs
    <3> QED
      BY <3>3, <3>4
  <2>8. JobsRead' = [JobsRead EXCEPT ![Store!Oldest] = [@ EXCEPT !.state = "running", !.owner = o, !.live = TRUE]]
    BY <2>1, <2>4, <2>5, <2>7
  <2>9. ~\A i \in AllJobs : JobsRead[i].state # "queued"
    BY <2>1
  <2> QED
    BY <1>1, <1>3, <2>5, <2>7, <2>8, <2>9 DEF TablesInv, Store!ClaimNext, Store!Jobs, AllJobs
<1> QED
  BY <1>1, <1>2, <1>3 DEF ClaimRow, Return

(* The row that is owned is what is read to be owned.                       *)
LEMMA OwnedIsRead ==
  ASSUME JobRowsSound, NEW j \in AllJobs, NEW o \in Owners
  PROVE  OwnedRow(j, o) # {} <=> Store!Owned(j, o)
<1>1. ASSUME NEW r \in OwnedRow(j, o)
      PROVE  Store!Owned(j, o)
  <2>1. r \in jobRows /\ r.job = j /\ r.owner = o /\ r.state = "running" /\ r.live
    BY DEF OwnedRow
  <2>2. JobsRead[j].state = "running" /\ JobsRead[j].owner = o /\ JobsRead[j].live
    BY <2>1, RowIsRead
  <2> QED
    BY <2>2 DEF Store!Owned
<1>2. ASSUME Store!Owned(j, o)
      PROVE  OwnedRow(j, o) # {}
  <2>1. JobsRead[j].state = "running" /\ JobsRead[j].owner = o /\ JobsRead[j].live
    BY <1>2 DEF Store!Owned
  <2>2. HasJob(j) /\ Job(j) \in jobRows /\ Job(j).job = j
    BY <2>1, JobIsThere
  <2>3. Job(j) \in OwnedRow(j, o)
    <3>1. JobsRead[j].state = Job(j).state /\ JobsRead[j].owner = Job(j).owner /\ JobsRead[j].live = Job(j).live
      BY <2>2, RowIsRead
    <3> QED
      BY <2>1, <2>2, <3>1 DEF OwnedRow
  <2> QED
    BY <2>3
<1> QED
  BY <1>1, <1>2

LEMMA RenewRowImplements ==
  ASSUME TablesInv, NEW j \in AllJobs, NEW o \in Owners, RenewRow(j, o)
  PROVE  TablesInv' /\ Store!Renew(j, o)
<1>1. OwnedRow(j, o) # {} <=> Store!Owned(j, o)
  BY OwnedIsRead DEF TablesInv
<1>2. NoRowChanges /\ returned' = <<"said", IF OwnedRow(j, o) # {} THEN "yes" ELSE "no">>
  BY DEF RenewRow, Return
<1>3. TablesInv' /\ Store!NothingButReply
  BY <1>2, UnchangedRead
<1>4. returned' = <<"said", IF Store!Owned(j, o) THEN "yes" ELSE "no">>
  BY <1>1, <1>2
<1> QED
  BY <1>3, <1>4 DEF Store!Renew, Store!Returns

(* The result of an apply job, written with its end.                        *)
LEMMA ResultWritten ==
  ASSUME JobRowsSound, NEW j \in AllJobs, NEW result \in {"none", "result"},
         result = "none" \/ \E x \in applyRows : x.job = j,
         applyRows' = {IF x.job = j /\ result # "none" THEN [x EXCEPT !.result = result] ELSE x : x \in applyRows}
  PROVE  /\ applyRows' \subseteq ApplyRecords /\ OneEach(applyRows')
         /\ \A i : (\E x \in applyRows' : x.job = i) <=> \E x \in applyRows : x.job = i
         /\ AppliesRead' = IF result = "none" THEN AppliesRead ELSE [AppliesRead EXCEPT ![j].result = result]
<1>1. applyRows \subseteq ApplyRecords /\ OneEach(applyRows)
  BY DEF JobRowsSound
<1>2. CASE result = "none"
  <2>1. applyRows' = applyRows
    BY <1>2
  <2> QED
    BY <1>1, <1>2, <2>1, AppliesReadIs
<1>3. CASE result = "result"
  <2>1. applyRows' = {IF x.job = j THEN [x EXCEPT !.result = "result"] ELSE x : x \in applyRows}
    BY <1>3
  <2>2. PICK y \in applyRows : y.job = j
    BY <1>3
  <2> DEFINE z == [y EXCEPT !.result = "result"]
  <2>3. y \in ApplyRecords /\ z \in ApplyRecords /\ z.job = j /\ z.asked = y.asked /\ z.result = "result" /\ j \in ApplyIds
    BY <1>1, <2>2 DEF ApplyRecords
  <2>4. \A x \in applyRows : x.job = j => x = y
    BY <1>1, <2>2 DEF OneEach
  <2>5. applyRows' = (applyRows \ {y}) \cup {z}
    BY <2>1, <2>2, <2>4
  <2> HIDE DEF z
  <2>6. applyRows' \subseteq ApplyRecords /\ OneEach(applyRows') /\ z \in applyRows'
    BY <1>1, <2>2, <2>3, <2>4, <2>5 DEF OneEach
  <2>7. \A i : (\E x \in applyRows' : x.job = i) <=> \E x \in applyRows : x.job = i
    BY <2>2, <2>3, <2>5
  <2>8. AskedOf(applyRows)[j] = [asked |-> y.asked, result |-> y.result]
    BY <1>1, <2>2, AskedOfRow
  <2>9. AskedOf(applyRows')[j] = [asked |-> y.asked, result |-> "result"]
    BY <2>3, <2>6, AskedOfRow
  <2>10. ASSUME NEW i \in ApplyIds, i # j
         PROVE  AskedOf(applyRows')[i] = AskedOf(applyRows)[i]
    <3>1. CASE \E x \in applyRows : x.job = i
      <4>1. PICK x \in applyRows : x.job = i
        BY <3>1
      <4>2. x \in applyRows'
        BY <2>2, <2>5, <2>10, <4>1
      <4>3. AskedOf(applyRows)[i] = [asked |-> x.asked, result |-> x.result]
        BY <1>1, <4>1, AskedOfRow
      <4>4. AskedOf(applyRows')[i] = [asked |-> x.asked, result |-> x.result]
        BY <2>6, <4>1, <4>2, AskedOfRow
      <4> QED
        BY <4>3, <4>4
    <3>2. CASE ~\E x \in applyRows : x.job = i
      <4>1. ~\E x \in applyRows' : x.job = i
        BY <2>7, <3>2
      <4> QED
        BY <3>2, <4>1, AskedOfNoRow
    <3> QED
      BY <3>1, <3>2
  <2>11. [AskedOf(applyRows)[j] EXCEPT !.result = "result"] = AskedOf(applyRows')[j]
    <3>1. [[asked |-> y.asked, result |-> y.result] EXCEPT !.result = "result"] \in [asked : {y.asked}, result : {"result"}]
      OBVIOUS
    <3>2. [asked |-> y.asked, result |-> "result"] \in [asked : {y.asked}, result : {"result"}]
      OBVIOUS
    <3> QED
      BY <2>8, <2>9, <3>1, <3>2
  <2>12. AskedOf(applyRows') = [AskedOf(applyRows) EXCEPT ![j] = [AskedOf(applyRows)[j] EXCEPT !.result = "result"]]
    <3> DEFINE now == AskedOf(applyRows')
               before == AskedOf(applyRows)
    <3>1. now = [i \in ApplyIds |-> now[i]] /\ before = [i \in ApplyIds |-> before[i]]
      BY AskedOfIs
    <3>2. \A i \in ApplyIds : i # j => now[i] = before[i]
      BY <2>10
    <3>3. now[j] = [before[j] EXCEPT !.result = "result"]
      BY <2>11
    <3> HIDE DEF now, before
    <3>4. now = [before EXCEPT ![j] = [before[j] EXCEPT !.result = "result"]]
      BY <2>3, <3>1, <3>2, <3>3
    <3> QED
      BY <3>4 DEF now, before
  <2> QED
    BY <1>3, <2>6, <2>7, <2>12, AppliesReadIs
<1> QED
  BY <1>2, <1>3

LEMMA FinishRowImplements ==
  ASSUME TablesInv, NEW j \in AllJobs, NEW o \in Owners, NEW state \in {"completed", "failed"},
         NEW result \in {"none", "result"}, FinishRow(j, o, state, result)
  PROVE  TablesInv' /\ Store!Finish(j, o, state, result)
<1> DEFINE error == IF state = "failed" THEN "failed" ELSE "none"
<1>1. Store!JobsOnly /\ MoveRowsSound'
  BY PlansUnchanged DEF FinishRow, TablesInv
<1>2. OwnedRow(j, o) # {} <=> Store!Owned(j, o)
  BY OwnedIsRead DEF TablesInv
<1>3. OwnedRow(j, o) # {} => ((\E x \in applyRows : x.job = j) <=> j \in ApplyIds)
  BY DEF OwnedRow, TablesInv, JobRowsSound, ApplyRecords
<1>4. CASE OwnedRow(j, o) = {} /\ returned' = <<"said", "no">> /\ UNCHANGED <<jobRows, applyRows>>
  <2>1. UNCHANGED <<JobsRead, AppliesRead>> /\ JobRowsSound'
    BY <1>4, QuietJobs DEF TablesInv
  <2> QED
    BY <1>1, <1>2, <1>4, <2>1 DEF TablesInv, Store!Finish, Store!Returns
<1>5. CASE /\ OwnedRow(j, o) # {} /\ result # "none" /\ ~\E x \in applyRows : x.job = j
           /\ returned' = <<"said", "error">> /\ UNCHANGED <<jobRows, applyRows>>
  <2>1. UNCHANGED <<JobsRead, AppliesRead>> /\ JobRowsSound'
    BY <1>5, QuietJobs DEF TablesInv
  <2> QED
    BY <1>1, <1>2, <1>3, <1>5, <2>1 DEF TablesInv, Store!Finish, Store!Fails, Store!Returns
<1>6. ASSUME NEW r \in OwnedRow(j, o), result = "none" \/ \E x \in applyRows : x.job = j,
             Update(r, TerminalRow(r, state, error)),
             applyRows' = {IF x.job = j /\ result # "none" THEN [x EXCEPT !.result = result] ELSE x : x \in applyRows},
             returned' = <<"said", "yes">>
      PROVE  TablesInv' /\ Store!Finish(j, o, state, result)
  <2> DEFINE w == TerminalRow(r, state, error)
  <2>1. r \in jobRows /\ r.job = j
    BY <1>6 DEF OwnedRow
  <2>2. w \in JobRecords /\ w.job = r.job /\ Face(w) = Store!Ended(j, state, error)
    BY <2>1, TerminalRowIs DEF TablesInv
  <2>3. Update(r, w)
    BY <1>6
  <2> HIDE DEF w
  <2>4. /\ jobRows' \subseteq JobRecords /\ OneEach(jobRows') /\ IsFiniteSet(jobRows')
        /\ \A i : (\E t \in jobRows' : t.job = i) <=> HasJob(i)
        /\ JobsRead' = [JobsRead EXCEPT ![r.job] = Face(w)]
    BY <2>1, <2>2, <2>3, RowUpdated DEF TablesInv
  <2>5. /\ applyRows' \subseteq ApplyRecords /\ OneEach(applyRows')
        /\ \A i : (\E x \in applyRows' : x.job = i) <=> \E x \in applyRows : x.job = i
        /\ AppliesRead' = IF result = "none" THEN AppliesRead ELSE [AppliesRead EXCEPT ![j].result = result]
    BY <1>6, ResultWritten DEF TablesInv
  <2>6. JobRowsSound'
    <3>1. ASSUME NEW x \in applyRows'
          PROVE  \E t \in jobRows' : t.job = x.job
      <4>1. PICK y \in applyRows : y.job = x.job
        BY <2>5
      <4>2. HasJob(y.job)
        BY DEF TablesInv, JobRowsSound
      <4> QED
        BY <2>4, <4>1, <4>2
    <3>2. ASSUME NEW t \in jobRows', t.job \in ApplyIds
          PROVE  \E x \in applyRows' : x.job = t.job
      <4>1. PICK s \in jobRows : s.job = t.job
        BY <2>4 DEF HasJob
      <4>2. \E x \in applyRows : x.job = s.job
        BY <3>2, <4>1 DEF TablesInv, JobRowsSound
      <4> QED
        BY <2>5, <4>1, <4>2
    <3> QED
      BY <2>4, <2>5, <3>1, <3>2 DEF JobRowsSound, HasJob
  <2>7. JobsRead' = [JobsRead EXCEPT ![j] = Store!Ended(j, state, error)]
    BY <2>1, <2>2, <2>4
  <2>8. Store!Owned(j, o) /\ ~(result # "none" /\ j \notin ApplyIds)
    BY <1>2, <1>3, <1>6
  <2> QED
    BY <1>1, <1>6, <2>5, <2>6, <2>7, <2>8 DEF TablesInv, Store!Finish, Store!Returns
<1> QED
  BY <1>4, <1>5, <1>6 DEF FinishRow, Return

LEMMA CancelRowImplements ==
  ASSUME TablesInv, NEW j \in AllJobs, CancelRow(j)
  PROVE  TablesInv' /\ Store!CancelJob(j)
<1>1. Store!JobsOnly /\ MoveRowsSound' /\ UNCHANGED applyRows
  BY PlansUnchanged DEF CancelRow, TablesInv
<1>2. HasJob(j) <=> JobsRead[j].state # "absent"
  BY JobIsThere DEF TablesInv
<1>3. CASE ~HasJob(j)
  <2>1. UNCHANGED jobRows /\ returned' = <<"said", "not_found">>
    BY <1>3 DEF CancelRow, Return
  <2>2. UNCHANGED <<JobsRead, AppliesRead>> /\ JobRowsSound'
    BY <1>1, <2>1, QuietJobs DEF TablesInv
  <2> QED
    BY <1>1, <1>2, <1>3, <2>1, <2>2 DEF TablesInv, Store!CancelJob, Store!Returns
<1>4. CASE HasJob(j)
  <2> DEFINE r == Job(j)
  <2>1. r \in jobRows /\ r.job = j
    BY <1>4, JobIsThere DEF TablesInv
  <2>2. JobsRead[j].state = r.state /\ JobsRead[j].error = r.error /\ r \in JobRecords
    BY <2>1, RowIsRead DEF TablesInv
  <2>3. \/ j \in ApplyIds /\ returned' = <<"said", "not_cancellable">> /\ UNCHANGED jobRows
        \/ /\ j \notin ApplyIds /\ r.state \notin {"queued", "running"}
           /\ returned' = <<"said", IF r.error = "cancelled" THEN "already_cancelled" ELSE "already_terminal">>
           /\ UNCHANGED jobRows
        \/ /\ j \notin ApplyIds /\ r.state \in {"queued", "running"}
           /\ Update(r, TerminalRow(r, "failed", "cancelled")) /\ returned' = <<"said", "cancelled">>
    BY <1>4 DEF CancelRow, Return
  <2> HIDE DEF r
  <2>4. CASE UNCHANGED jobRows
    <3>1. UNCHANGED <<JobsRead, AppliesRead>> /\ JobRowsSound'
      BY <1>1, <2>4, QuietJobs DEF TablesInv
    <3>2. CASE j \in ApplyIds /\ returned' = <<"said", "not_cancellable">>
      BY <1>1, <1>2, <1>4, <3>1, <3>2 DEF TablesInv, Store!CancelJob, Store!Returns
    <3>3. CASE /\ j \notin ApplyIds /\ r.state \notin {"queued", "running"}
               /\ returned' = <<"said", IF r.error = "cancelled" THEN "already_cancelled" ELSE "already_terminal">>
      <4>1. JobsRead[j].state \notin Store!Open \cup {"absent"}
        BY <1>2, <1>4, <2>2, <3>3 DEF Store!Open
      <4>2. returned' = <<"said", IF JobsRead[j].error = "cancelled" THEN "already_cancelled" ELSE "already_terminal">>
        BY <2>2, <3>3
      <4> QED
        BY <1>1, <3>1, <3>3, <4>1, <4>2 DEF TablesInv, Store!CancelJob, Store!Returns
    <3>4. CASE /\ j \notin ApplyIds /\ r.state \in {"queued", "running"}
               /\ Update(r, TerminalRow(r, "failed", "cancelled"))
      <4> DEFINE w == TerminalRow(r, "failed", "cancelled")
      <4>1. w.state = "failed"
        BY <2>2 DEF TerminalRow, JobRecords
      <4>2. w \in jobRows' /\ r.state # "failed"
        BY <3>4 DEF Update
      <4>3. w.job = r.job
        BY <2>2 DEF TerminalRow, JobRecords
      <4> HIDE DEF w
      <4>4. w = r
        BY <2>1, <2>4, <4>2, <4>3 DEF TablesInv, JobRowsSound, OneEach
      <4> QED
        BY <4>1, <4>2, <4>4
    <3> QED
      BY <2>3, <3>2, <3>3, <3>4
  <2>5. CASE /\ j \notin ApplyIds /\ r.state \in {"queued", "running"}
             /\ Update(r, TerminalRow(r, "failed", "cancelled")) /\ returned' = <<"said", "cancelled">>
    <3> DEFINE w == TerminalRow(r, "failed", "cancelled")
    <3>1. w \in JobRecords /\ w.job = r.job /\ Face(w) = Store!Ended(j, "failed", "cancelled")
      BY <2>1, TerminalRowIs DEF TablesInv
    <3>2. Update(r, w)
      BY <2>5
    <3> HIDE DEF w
    <3>3. JobRowsSound' /\ JobsRead' = [JobsRead EXCEPT ![r.job] = Face(w)] /\ AppliesRead' = AppliesRead
      BY <1>1, <2>1, <3>1, <3>2, UpdateKeeps DEF TablesInv
    <3>4. JobsRead' = [JobsRead EXCEPT ![j] = Store!Ended(j, "failed", "cancelled")]
      BY <2>1, <3>1, <3>3
    <3>5. JobsRead[j].state \in Store!Open
      BY <2>2, <2>5 DEF Store!Open
    <3> QED
      BY <1>1, <2>5, <3>3, <3>4, <3>5 DEF TablesInv, Store!CancelJob, Store!Returns
  <2> QED
    BY <2>3, <2>4, <2>5
<1> QED
  BY <1>3, <1>4

LEMMA LeaseRunsOutImplements ==
  ASSUME TablesInv, NEW j \in AllJobs, LeaseRunsOut(j)
  PROVE  TablesInv' /\ Store!LeaseEnds(j)
<1>1. Store!JobsOnly /\ MoveRowsSound' /\ UNCHANGED <<applyRows, returned>>
  BY PlansUnchanged DEF LeaseRunsOut, TablesInv
<1>2. PICK r \in jobRows : r.job = j /\ r.state = "running" /\ r.live /\ Update(r, [r EXCEPT !.live = FALSE])
  BY DEF LeaseRunsOut
<1> DEFINE w == [r EXCEPT !.live = FALSE]
<1>3. r \in JobRecords /\ JobsRead[j] = Face(r) /\ JobsRead[j].state = "running" /\ JobsRead[j].live
  BY <1>2, RowIsRead DEF TablesInv
<1>4. w \in JobRecords /\ w.job = r.job
  BY <1>3 DEF JobRecords
<1>5. Face(w) = [Face(r) EXCEPT !.live = FALSE]
  <2>1. Face(w) \in [state : {r.state}, plan : {r.plan}, owner : {r.owner}, live : {FALSE}, error : {r.error}]
    BY <1>3 DEF Face, JobRecords
  <2>2. [Face(r) EXCEPT !.live = FALSE]
          \in [state : {r.state}, plan : {r.plan}, owner : {r.owner}, live : {FALSE}, error : {r.error}]
    BY DEF Face
  <2> QED
    BY <2>1, <2>2
<1>6. Update(r, w)
  BY <1>2
<1> HIDE DEF w
<1>7. JobRowsSound' /\ JobsRead' = [JobsRead EXCEPT ![r.job] = Face(w)] /\ AppliesRead' = AppliesRead
  BY <1>1, <1>4, <1>6, UpdateKeeps DEF TablesInv
<1>8. JobsRead' = [JobsRead EXCEPT ![j].live = FALSE]
  BY <1>2, <1>3, <1>5, <1>7
<1> QED
  BY <1>1, <1>3, <1>7, <1>8 DEF TablesInv, Store!LeaseEnds

LEMMA FailExpiredRowsImplements ==
  ASSUME TablesInv, FailExpiredRows
  PROVE  TablesInv' /\ Store!FailExpired
<1> DEFINE expired == {r \in jobRows : r.state = "running" /\ ~r.live}
           late == {j \in AllJobs : JobsRead[j].state = "running" /\ ~JobsRead[j].live}
           f == [r \in jobRows |-> IF r \in expired THEN TerminalRow(r, "failed", "interrupted") ELSE r]
<1>1. Store!JobsOnly /\ MoveRowsSound' /\ UNCHANGED applyRows
  BY PlansUnchanged DEF FailExpiredRows, TablesInv
<1>2. jobRows \subseteq JobRecords /\ OneEach(jobRows) /\ IsFiniteSet(jobRows)
  BY DEF TablesInv, JobRowsSound
<1>3. IsFiniteSet(expired) /\ OneEach(expired)
  BY <1>2, FS_Subset DEF OneEach
<1>4. \A r \in jobRows : r \in expired <=> r.job \in late
  BY RowIsRead DEF TablesInv
<1>5. late = {r.job : r \in expired}
  <2>1. ASSUME NEW j \in late
        PROVE  \E r \in expired : r.job = j
    <3>1. HasJob(j) /\ Job(j) \in jobRows /\ Job(j).job = j
      BY JobIsThere DEF TablesInv
    <3> QED
      BY <1>4, <3>1
  <2>2. \A r \in expired : r.job \in late
    BY <1>4
  <2> QED
    BY <2>1, <2>2
<1>6. Cardinality(expired) = Cardinality(late)
  BY <1>3, <1>5, CountsAgree
<1>7. \A r \in jobRows : f[r] \in JobRecords /\ f[r].job = r.job
  BY <1>2, TerminalRowIs DEF TablesInv
<1>8. SameJobs(jobRows, f)
  BY <1>7 DEF SameJobs
<1>9. jobRows' = Changed(jobRows, f)
  BY DEF FailExpiredRows, Changed
<1>10. ASSUME NEW r \in jobRows
       PROVE  Face(f[r]) = IF r.job \in late THEN Store!Ended(r.job, "failed", "interrupted") ELSE JobsRead[r.job]
  <2>1. Face(TerminalRow(r, "failed", "interrupted")) = Store!Ended(r.job, "failed", "interrupted")
        /\ JobsRead[r.job] = Face(r)
    BY TerminalRowIs DEF TablesInv
  <2>2. f[r] = IF r.job \in late THEN TerminalRow(r, "failed", "interrupted") ELSE r
    BY <1>4
  <2> HIDE DEF late, f
  <2> QED
    BY <2>1, <2>2
<1>11. f = [r \in jobRows |-> f[r]]
  OBVIOUS
<1>12. returned' = <<"count", Cardinality(expired)>>
  BY DEF FailExpiredRows
<1>13. Store!FailExpired <=>
         /\ returned' = <<"count", Cardinality(late)>>
         /\ JobsRead' = [j \in AllJobs |-> IF j \in late THEN Store!Ended(j, "failed", "interrupted") ELSE JobsRead[j]]
         /\ Store!JobsOnly /\ UNCHANGED AppliesRead
  BY DEF Store!FailExpired, Store!Jobs, AllJobs, Store!Cardinality, Cardinality
<1>14. \A j \in late : JobsRead[j] # Store!NoJob
  BY DEF Store!NoJob
<1> HIDE DEF f, late, expired
<1>15. IsFiniteSet(jobRows')
  BY <1>2, <1>9, <1>11, ChangedIsFinite
<1>16. /\ jobRows' \subseteq JobRecords /\ OneEach(jobRows')
       /\ \A r \in jobRows : ReadOf(jobRows')[r.job] = Face(f[r])
       /\ \A j \in AllJobs : ~(\E r \in jobRows : r.job = j) => ReadOf(jobRows')[j] = Store!NoJob
  <2>1. /\ Changed(jobRows, f) \subseteq JobRecords /\ OneEach(Changed(jobRows, f))
        /\ \A r \in jobRows : ReadOf(Changed(jobRows, f))[r.job] = Face(f[r])
        /\ \A j \in AllJobs : ~(\E r \in jobRows : r.job = j) => ReadOf(Changed(jobRows, f))[j] = Store!NoJob
    BY <1>2, <1>8, ReadOfChanged
  <2> QED
    BY <1>9, <2>1
<1>17. JobRowsSound'
  <2>1. \A x \in applyRows' : \E r \in jobRows' : r.job = x.job
    <3>1. \A x \in applyRows : \E r \in jobRows : r.job = x.job
      BY DEF TablesInv, JobRowsSound, HasJob
    <3> QED
      BY <1>1, <1>7, <1>9, <3>1 DEF Changed
  <2>2. \A r \in jobRows' : r.job \in ApplyIds => \E x \in applyRows' : x.job = r.job
    BY <1>1, <1>7, <1>9 DEF TablesInv, JobRowsSound, Changed
  <2> QED
    BY <1>1, <1>15, <1>16, <2>1, <2>2 DEF TablesInv, JobRowsSound, HasJob
<1>18. ASSUME NEW j \in AllJobs
       PROVE  ReadOf(jobRows')[j] = IF j \in late THEN Store!Ended(j, "failed", "interrupted") ELSE JobsRead[j]
  <2>1. CASE \E r \in jobRows : r.job = j
    <3>1. PICK r \in jobRows : r.job = j
      BY <2>1
    <3> QED
      BY <1>10, <1>16, <3>1
  <2>2. CASE ~\E r \in jobRows : r.job = j
    <3>1. JobsRead[j] = Store!NoJob /\ ReadOf(jobRows')[j] = Store!NoJob
      BY <1>16, <2>2, ReadOfNoRow, JobsReadIs
    <3> QED
      BY <1>14, <3>1
  <2> QED
    BY <2>1, <2>2
<1>19. JobsRead' = [j \in AllJobs |-> IF j \in late THEN Store!Ended(j, "failed", "interrupted") ELSE JobsRead[j]]
  BY <1>18, ReadOfIs, JobsReadIs
<1>20. UNCHANGED AppliesRead
  BY <1>1, AppliesReadIs
<1> QED
  BY <1>1, <1>6, <1>12, <1>13, <1>17, <1>19, <1>20 DEF TablesInv

(* At first no row, and nothing stored.                                     *)
LEMMA TablesBegin ==
  ASSUME TablesInit
  PROVE  TablesInv /\ Store!StoreInit
<1>1. MoveRowsSound
  BY DEF TablesInit, MoveRowsSound, Paired, OfCandidates, OneRowEach, UniqueSource
<1>2. JobRowsSound
  BY FS_EmptySet DEF TablesInit, JobRowsSound, OneEach
<1>3. PlansRead = [p \in StoredPlans |-> Store!NoPlan]
  BY DEF TablesInit, PlansRead, Store!NoPlan
<1>4. Valued({}) = [p \in StoredPlans |-> Store!NoRows]
  BY DEF Valued, Store!NoRows, Store!Cands, Cands
<1>5. JobsRead = [j \in AllJobs |-> Store!NoJob]
  BY JobsReadIs DEF TablesInit, ReadOf
<1>6. AppliesRead = [j \in ApplyIds |-> Store!NoApply]
  BY AppliesReadIs DEF TablesInit, AskedOf
<1>7. resultRows = {} /\ journalRows = {} /\ operationRows = {} /\ returned = <<"said", "none">>
  BY DEF TablesInit
<1> QED
  BY <1>1, <1>2, <1>3, <1>4, <1>5, <1>6, <1>7 DEF TablesInv, Store!StoreInit, Store!Jobs, AllJobs

(* Every call, with what the repository of the tests does for it.           *)
LEMMA TablesNextImplements ==
  ASSUME TablesInv, TablesNext
  PROVE  TablesInv' /\ Store!StoreNext
<1>0. Store!Cands = Cands /\ Store!Jobs = AllJobs /\ LocalCands \subseteq Cands
  BY DEF Store!Cands, Cands, Store!Jobs, AllJobs
<1>1. ASSUME NEW p \in StoredPlans, NEW C \in Selections, SavePlanRows(p, C)
      PROVE  TablesInv' /\ Store!SavePlan(p, C)
  <2>1. C \in SUBSET Cands
    BY TablesAssumption
  <2>2. MoveRowsSound' /\ Store!SavePlan(p, C)
    BY <1>1, <2>1, SavePlanRowsImplements DEF TablesInv
  <2>3. JobRowsSound'
    BY <1>1, QuietJobs DEF SavePlanRows, TablesInv
  <2> QED
    BY <2>2, <2>3 DEF TablesInv
<1>2. ASSUME NEW p \in StoredPlans, DeletePlanRow(p) \/ PurgeRows({p}) \/ InsertJob(p)
      PROVE  TablesInv' /\ (Store!DeletePlan(p) \/ Store!PurgeExpired({p}) \/ Store!EnqueueJob(p))
  BY <1>2, DeletePlanRowImplements, PurgeRowsImplements, InsertJobImplements
<1>3. ASSUME NEW p \in StoredPlans, NEW c \in Cands, NEW v \in Verdicts, InsertResult(p, c, v)
      PROVE  TablesInv' /\ Store!SaveResult(p, c, v)
  BY <1>3, InsertResultImplements
<1>4. ASSUME NEW p \in StoredPlans, NEW c \in Cands, NEW s \in JournalSteps, InsertJournal(p, c, s)
      PROVE  TablesInv' /\ Store!SaveJournal(p, c, s)
  BY <1>4, InsertJournalImplements
<1>5. ASSUME NEW p \in StoredPlans, NEW c \in Cands, NEW s \in CloudSteps, InsertOperation(p, c, s)
      PROVE  TablesInv' /\ Store!SaveOperation(p, c, s)
  BY <1>5, InsertOperationImplements
<1>6. ASSUME NEW p \in StoredPlans, NEW c \in Cands, NEW s \in CloudSteps, NEW v \in Verdicts, FinalizeRows(p, c, s, v)
      PROVE  TablesInv' /\ Store!FinalizeMove(p, c, s, v)
  BY <1>6, FinalizeRowsImplements
<1>7. ASSUME NEW r \in ApplyIds, NEW p \in StoredPlans, NEW C \in Selections, InsertApply(r, p, C)
      PROVE  TablesInv' /\ Store!EnqueueApply(r, p, C)
  BY <1>7, InsertApplyImplements
<1>8. ASSUME NEW o \in Owners, ClaimRow(o)
      PROVE  TablesInv' /\ Store!ClaimNext(o)
  BY <1>8, ClaimRowImplements
<1>9. ASSUME NEW j \in AllJobs, CancelRow(j) \/ LeaseRunsOut(j)
      PROVE  TablesInv' /\ (Store!CancelJob(j) \/ Store!LeaseEnds(j))
  BY <1>9, CancelRowImplements, LeaseRunsOutImplements
<1>10. ASSUME NEW j \in AllJobs, NEW o \in Owners, RenewRow(j, o)
       PROVE  TablesInv' /\ Store!Renew(j, o)
  BY <1>10, RenewRowImplements
<1>11. ASSUME NEW j \in AllJobs, NEW o \in Owners, NEW state \in {"completed", "failed"},
              NEW v \in {"none", "result"}, FinishRow(j, o, state, v)
       PROVE  TablesInv' /\ Store!Finish(j, o, state, v)
  BY <1>11, FinishRowImplements
<1>12. ASSUME FailExpiredRows
       PROVE  TablesInv' /\ Store!FailExpired
  BY <1>12, FailExpiredRowsImplements
<1>13. CASE \E p \in StoredPlans : \/ \E C \in Selections : SavePlanRows(p, C)
                                   \/ DeletePlanRow(p) \/ PurgeRows({p}) \/ InsertJob(p)
  BY <1>1, <1>2, <1>13 DEF Store!StoreNext
<1>14. CASE \E p \in StoredPlans, c \in Cands :
              \/ \E v \in Verdicts : InsertResult(p, c, v)
              \/ c \in LocalCands /\ \E s \in JournalSteps : InsertJournal(p, c, s)
              \/ \E s \in CloudSteps : InsertOperation(p, c, s) \/ \E v \in Verdicts : FinalizeRows(p, c, s, v)
  <2>1. PICK p \in StoredPlans, c \in Cands :
              \/ \E v \in Verdicts : InsertResult(p, c, v)
              \/ c \in LocalCands /\ \E s \in JournalSteps : InsertJournal(p, c, s)
              \/ \E s \in CloudSteps : InsertOperation(p, c, s) \/ \E v \in Verdicts : FinalizeRows(p, c, s, v)
    BY <1>14
  <2>2. /\ TablesInv'
        /\ \/ \E v \in Verdicts : Store!SaveResult(p, c, v)
           \/ c \in LocalCands /\ \E s \in JournalSteps : Store!SaveJournal(p, c, s)
           \/ \E s \in CloudSteps : Store!SaveOperation(p, c, s) \/ \E v \in Verdicts : Store!FinalizeMove(p, c, s, v)
    BY <1>3, <1>4, <1>5, <1>6, <2>1
  <2> QED
    BY <1>0, <2>2 DEF Store!StoreNext
<1>15. CASE \E r \in ApplyIds, p \in StoredPlans, C \in Selections : InsertApply(r, p, C)
  BY <1>7, <1>15 DEF Store!StoreNext
<1>16. CASE \E o \in Owners : ClaimRow(o)
  BY <1>8, <1>16 DEF Store!StoreNext
<1>17. CASE \E j \in AllJobs : CancelRow(j) \/ LeaseRunsOut(j)
  BY <1>0, <1>9, <1>17 DEF Store!StoreNext
<1>18. CASE \E j \in AllJobs, o \in Owners :
              \/ RenewRow(j, o)
              \/ \E state \in {"completed", "failed"}, v \in {"none", "result"} : FinishRow(j, o, state, v)
  BY <1>0, <1>10, <1>11, <1>18 DEF Store!StoreNext
<1>19. CASE FailExpiredRows
  BY <1>12, <1>19 DEF Store!StoreNext
<1> QED
  BY <1>13, <1>14, <1>15, <1>16, <1>17, <1>18, <1>19 DEF TablesNext

(* The statements on the tables, with their keys, cascades and the unique   *)
(* index, are the dictionaries of the repository the tests run against:     *)
(* every call has the same effect and the same answer (StoreKept), for any  *)
(* plans, jobs, owners and bound of the queue.                              *)
THEOREM TablesImplementStore == TablesSpec => StoreKept
<1>1. TablesInit => TablesInv /\ Store!StoreInit
  BY TablesBegin
<1>2. TablesInv /\ [TablesNext]_tableVars => TablesInv' /\ [Store!StoreNext]_(Store!storeVars)
  <2> SUFFICES ASSUME TablesInv, [TablesNext]_tableVars
               PROVE  TablesInv' /\ [Store!StoreNext]_(Store!storeVars)
    OBVIOUS
  <2>1. CASE TablesNext
    BY <2>1, TablesNextImplements
  <2>2. CASE UNCHANGED tableVars
    <3>1. NoRowChanges /\ UNCHANGED returned
      BY <2>2 DEF tableVars, NoRowChanges, planTables
    <3>2. TablesInv' /\ Store!NothingButReply
      BY <3>1, UnchangedRead
    <3> QED
      BY <3>1, <3>2 DEF Store!storeVars, Store!NothingButReply
  <2> QED
    BY <2>1, <2>2
<1> QED
  BY <1>1, <1>2, PTL DEF TablesSpec, StoreKept, Store!StoreSpec

-----------------------------------------------------------------------------
(* What the scheduler knows of the mirror.                                  *)

MappingRun == run["mapping"]
Works == [up : SUBSET Paths, gone : SUBSET Paths, upFailed : SUBSET Paths, goneFailed : SUBSET Paths]
Runs == [pc : {"free", "starting", "running", "finishing"}, by : {"none", "manual", "loop"},
         kind : {"none", "plain", "full", "startup", "batch"}, stop : BOOLEAN, result : Ended \cup {"none"}]

SchedTypes ==
    /\ run \in [Pipelines -> Runs]
    /\ source \in Files /\ mirror \in Files
    /\ events \in Seq(Paths \X BOOLEAN)
    /\ changed \subseteq Paths /\ deleted \subseteq Paths /\ lost \subseteq Paths
    /\ work \in Works /\ noisy \in BOOLEAN

(* What the lock of the mapping pipeline says of its run and of its work.   *)
RunsSound ==
    /\ MappingRun.pc = "free" => MappingRun.kind = "none" /\ MappingRun.by = "none"
    /\ MappingRun.kind = "batch" => MappingRun.by = "loop"
    /\ MappingRun.pc # "running" /\ ~(MappingRun.pc = "starting" /\ Batch) => work = NoWork
    /\ MappingRun.pc = "starting" => work.upFailed = {} /\ work.goneFailed = {}

(* What tells that a path is to be updated or deleted. The work of a full   *)
(* sync does not count: it may end on the way.                              *)
Heard == {events[i][1] : i \in DOMAIN events}
IsGone(f) == source[f] = Absent
ToUpdate == changed \cup (IF Batch THEN work.up \cup work.upFailed ELSE {})
ToDelete == deleted \cup (IF Batch THEN work.gone \cup work.goneFailed ELSE {})

(* The last event of a path says whether its file is there.                 *)
LastTold(f) ==
    \A i \in DOMAIN events :
        events[i][1] = f /\ (\A j \in DOMAIN events : j > i => events[j][1] # f) => events[i][2] = IsGone(f)

(* When no event of it is on its way, a path that is behind is to be        *)
(* updated or deleted, as its source has it, and what is to be deleted      *)
(* although its file came back is to be updated after that.                 *)
Told(f) ==
    IF IsGone(f) THEN mirror[f] # Absent => f \in ToDelete
    ELSE /\ mirror[f] # source[f] => f \in ToUpdate
         /\ f \notin deleted
         /\ Batch /\ f \in work.gone => f \in changed

(* A full sync of the loop no event came in has put right what it is        *)
(* through with.                                                            *)
FullBy == MappingRun.by = "loop" /\ MappingRun.kind = "full" /\ ~noisy
Visited(f) ==
    /\ FullBy /\ MappingRun.pc = "running" /\ mirror[f] # source[f] => f \in (IF IsGone(f) THEN work.gone ELSE work.up)
    /\ FullBy /\ MappingRun.pc = "finishing" /\ MappingRun.result = "completed" => mirror[f] = source[f]

PathsTold ==
    \A f \in Paths : f \notin lost =>
        /\ LastTold(f)
        /\ f \notin Heard => Told(f) /\ Visited(f)

SchedInv == SchedTypes /\ RunsSound /\ PathsTold

(* Constants of the model, and a run that begins.                           *)
LEMMA MappingIsOne == "mapping" \in Pipelines
BY DEF Pipelines

LEMMA NoWorkIs == NoWork \in Works /\ NoWork.up = {} /\ NoWork.gone = {} /\ NoWork.upFailed = {} /\ NoWork.goneFailed = {}
BY DEF NoWork, Works

LEMMA FreeIs == Free \in Runs /\ Free.pc = "free" /\ Free.kind = "none" /\ Free.by = "none" /\ Free.result = "none"
BY DEF Free, Runs

LEMMA BegunIs ==
    ASSUME NEW p \in Pipelines, NEW by \in {"manual", "loop"}, NEW kind \in {"plain", "full", "startup", "batch"},
           run \in [Pipelines -> Runs], BeginRun(p, by, kind)
    PROVE  /\ run[p].pc = "free" /\ run' \in [Pipelines -> Runs]
           /\ run'[p].pc = "starting" /\ run'[p].by = by /\ run'[p].kind = kind /\ run'[p].result = "none"
           /\ \A q \in Pipelines \ {p} : run'[q] = run[q]
<1>1. [Free EXCEPT !.pc = "starting", !.by = by, !.kind = kind] \in Runs BY DEF Free, Runs
<1>2. QED BY <1>1 DEF BeginRun, Free

(* Nothing is done to the tree or what is pending; the run goes on.         *)
LEMMA RunGoesOn ==
    ASSUME SchedInv, UNCHANGED <<source, mirror, events, changed, deleted, lost>>,
           ToUpdate' = ToUpdate, ToDelete' = ToDelete,
           Batch' => \A f \in work'.gone : Batch /\ f \in work.gone,
           \A f \in Paths : f \notin lost /\ f \notin Heard /\ Visited(f) => Visited(f)'
    PROVE  PathsTold'
<1>1. SUFFICES ASSUME NEW f \in Paths, f \notin lost PROVE LastTold(f)' /\ (f \notin Heard' => Told(f)' /\ Visited(f)')
  BY DEF PathsTold
<1>2. LastTold(f) /\ (f \notin Heard => Told(f) /\ Visited(f)) BY <1>1 DEF SchedInv, PathsTold
<1>3. LastTold(f)' /\ Heard' = Heard BY <1>2 DEF LastTold, Heard, IsGone
<1>4. ASSUME f \notin Heard PROVE Told(f)'
  <2>1. Told(f) BY <1>2, <1>4
  <2>2. QED BY <2>1 DEF Told, IsGone
<1>5. QED BY <1>1, <1>2, <1>3, <1>4

(* Steps of the other pipelines, of callers and of settings.                *)
LEMMA AsideKeeps ==
    ASSUME SchedInv, UNCHANGED <<treeVars, changed, deleted, noisy, lost, work>>,
           /\ MappingRun'.pc = MappingRun.pc /\ MappingRun'.by = MappingRun.by
           /\ MappingRun'.kind = MappingRun.kind /\ MappingRun'.result = MappingRun.result
    PROVE  RunsSound' /\ PathsTold'
<1>1. Batch' = Batch BY DEF Batch, MappingRun
<1>2. RunsSound' BY <1>1 DEF SchedInv, RunsSound, treeVars, NoWork
<1>3. ToUpdate' = ToUpdate /\ ToDelete' = ToDelete BY <1>1 DEF ToUpdate, ToDelete
<1>4. \A f \in Paths : Visited(f) => Visited(f)' BY DEF Visited, FullBy, IsGone, treeVars
<1>5. QED BY <1>1, <1>2, <1>3, <1>4, RunGoesOn DEF treeVars

(* A run of the mapping pipeline that is no batch is begun.                 *)
LEMMA BeginRunKeeps ==
    ASSUME SchedInv, NEW by \in {"manual", "loop"}, NEW kind \in {"full", "startup"}, BeginRun("mapping", by, kind),
           UNCHANGED <<treeVars, changed, deleted, lost, work>>
    PROVE  RunsSound' /\ PathsTold'
<1>1. /\ MappingRun.pc = "free" /\ MappingRun'.pc = "starting" /\ MappingRun'.by = by /\ MappingRun'.kind = kind
  BY MappingIsOne, BegunIs DEF SchedInv, SchedTypes, MappingRun
<1>2. work = NoWork /\ work' = NoWork BY <1>1 DEF SchedInv, RunsSound
<1>3. RunsSound' BY <1>1, <1>2, NoWorkIs DEF RunsSound, NoWork
<1>4. ToUpdate' = ToUpdate /\ ToDelete' = ToDelete BY <1>2, NoWorkIs DEF ToUpdate, ToDelete
<1>5. \A f \in Paths : Visited(f)' BY <1>1 DEF Visited
<1>6. ~Batch' BY <1>1 DEF Batch, MappingRun
<1>7. QED BY <1>3, <1>4, <1>5, <1>6, RunGoesOn DEF treeVars

(* It starts: a full sync has all paths to treat.                           *)
LEMMA StartRunKeeps ==
    ASSUME SchedInv, StartRun("mapping")
    PROVE  RunsSound' /\ PathsTold'
<1>1. /\ MappingRun.pc = "starting" /\ MappingRun'.pc = "running" /\ MappingRun'.by = MappingRun.by
      /\ MappingRun'.kind = MappingRun.kind /\ Batch' = Batch
  BY MappingIsOne DEF SchedInv, SchedTypes, StartRun, MappingRun, Runs, Batch
<1>2. UNCHANGED <<source, mirror, events, changed, deleted, lost, noisy>> BY DEF StartRun, treeVars, pendingVars
<1>3. RunsSound' BY <1>1, Zenon DEF SchedInv, RunsSound
<1>4. CASE Batch
  <2>1. work' = work BY <1>1, <1>4 DEF StartRun, Batch
  <2>2. ToUpdate' = ToUpdate /\ ToDelete' = ToDelete BY <1>1, <1>2, <2>1 DEF ToUpdate, ToDelete
  <2>3. \A f \in Paths : Visited(f)' BY <1>1, <1>4 DEF Visited, FullBy, Batch, MappingRun
  <2>4. QED BY <1>2, <1>3, <1>4, <2>1, <2>2, <2>3, RunGoesOn
<1>5. CASE ~Batch
  <2>1. work'.up = Paths /\ work'.gone = Paths BY <1>5 DEF StartRun, Batch, NoWork
  <2>2. ToUpdate' = ToUpdate /\ ToDelete' = ToDelete BY <1>1, <1>2, <1>5 DEF ToUpdate, ToDelete
  <2>3. \A f \in Paths : Visited(f)' BY <1>1, <2>1 DEF Visited
  <2>4. QED BY <1>1, <1>2, <1>3, <1>5, <2>2, <2>3, RunGoesOn
<1>6. QED BY <1>4, <1>5

(* The work of a run is dropped; what a batch had is lost.                  *)
LEMMA LeaveKeeps ==
    ASSUME SchedInv, MappingRun.pc = "running", NEW result \in {"failed", "cancelled"}, Leave("mapping", result),
           UNCHANGED <<treeVars, pendingVars>>
    PROVE  RunsSound' /\ PathsTold'
<1>1. /\ MappingRun'.pc = "finishing" /\ MappingRun'.by = MappingRun.by /\ MappingRun'.kind = MappingRun.kind
      /\ MappingRun'.result = result /\ Batch' = Batch
  BY MappingIsOne DEF SchedInv, SchedTypes, Leave, MappingRun, Runs, Batch
<1>2. work' = NoWork /\ UNCHANGED <<source, mirror, events, changed, deleted, noisy>>
  BY DEF Leave, treeVars, pendingVars
<1>3. lost' = IF Batch THEN lost \cup work.up \cup work.gone \cup work.upFailed \cup work.goneFailed ELSE lost
  BY DEF Leave, Batch
<1>4. RunsSound' BY <1>1, <1>2 DEF SchedInv, RunsSound, NoWork
<1>5. SUFFICES ASSUME NEW f \in Paths, f \notin lost' PROVE LastTold(f)' /\ (f \notin Heard' => Told(f)' /\ Visited(f)')
  BY <1>4 DEF PathsTold
<1>6. LastTold(f) /\ (f \notin Heard => Told(f)) BY <1>3, <1>5 DEF SchedInv, PathsTold
<1>7. LastTold(f)' /\ Heard' = Heard BY <1>2, <1>6 DEF LastTold, Heard, IsGone
<1>8. Visited(f)' BY <1>1 DEF Visited
<1>9. (f \in ToUpdate => f \in ToUpdate') /\ (f \in ToDelete => f \in ToDelete')
  BY <1>1, <1>2, <1>3, <1>5 DEF ToUpdate, ToDelete
<1>10. Told(f) => Told(f)' BY <1>2, <1>9, NoWorkIs DEF Told, IsGone
<1>11. QED BY <1>6, <1>7, <1>8, <1>10

(* A run that is over leaves its lock; a full sync no event came in has     *)
(* what was pending behind it.                                              *)
LEMMA RunEnds ==
    ASSUME SchedInv, NEW result \in Ended \cup {"none"}, run' = [run EXCEPT !["mapping"] = Free],
           LoopOrNot("mapping", result), work' = NoWork, UNCHANGED treeVars,
           lost \cup (IF Batch THEN work.up \cup work.gone \cup work.upFailed \cup work.goneFailed ELSE {}) \subseteq lost',
           result = "completed" => MappingRun.pc = "finishing" /\ MappingRun.result = "completed"
    PROVE  RunsSound' /\ PathsTold'
<1>1. MappingRun' = Free /\ ~Batch' BY MappingIsOne, FreeIs DEF SchedInv, SchedTypes, MappingRun, Batch
<1>2. RunsSound' BY <1>1, FreeIs DEF RunsSound, NoWork
<1>3. UNCHANGED <<source, mirror, events>> BY DEF treeVars
<1>4. SUFFICES ASSUME NEW f \in Paths, f \notin lost' PROVE LastTold(f)' /\ (f \notin Heard' => Told(f)' /\ Visited(f)')
  BY <1>2 DEF PathsTold
<1>5. LastTold(f) /\ (f \notin Heard => Told(f) /\ Visited(f)) BY <1>4 DEF SchedInv, PathsTold
<1>6. LastTold(f)' /\ Heard' = Heard BY <1>3, <1>5 DEF LastTold, Heard, IsGone
<1>7. Visited(f)' BY <1>1, FreeIs DEF Visited
<1>8. ASSUME f \notin Heard PROVE Told(f)'
  <2>1. Told(f) /\ Visited(f) BY <1>5, <1>8
  <2>2. CASE UNCHANGED <<changed, deleted>>
    <3>1. (f \in ToUpdate => f \in ToUpdate') /\ (f \in ToDelete => f \in ToDelete')
      BY <1>4, <2>2 DEF ToUpdate, ToDelete
    <3>2. QED BY <1>1, <1>3, <2>1, <2>2, <3>1 DEF Told, IsGone
  <2>3. CASE FullBy /\ result = "completed"
    <3>1. mirror[f] = source[f] BY <2>1, <2>3 DEF Visited
    <3>2. changed' = {} /\ deleted' = {} BY <2>3 DEF FullBy, LoopOrNot, LoopReturns, MappingRun
    <3>3. QED BY <1>1, <1>3, <3>1, <3>2 DEF Told, IsGone
  <2>4. QED BY <2>2, <2>3 DEF FullBy, LoopOrNot, LoopReturns, MappingRun, pendingVars
<1>9. QED BY <1>6, <1>7, <1>8

(* A run that is not started, and one that is finished.                     *)
LEMMA StartRunFailsKeeps ==
    ASSUME SchedInv, StartRunFails("mapping")
    PROVE  RunsSound' /\ PathsTold'
<1>1. MappingRun.pc = "starting" /\ work.upFailed = {} /\ work.goneFailed = {}
  BY DEF SchedInv, RunsSound, StartRunFails, MappingRun
<1>2. QED BY <1>1, RunEnds DEF StartRunFails

LEMMA FinishRunKeeps ==
    ASSUME SchedInv, FinishRun("mapping")
    PROVE  RunsSound' /\ PathsTold'
<1>1. MappingRun.pc = "finishing" /\ work = NoWork /\ work' = NoWork /\ MappingRun.result \in Ended \cup {"none"}
  BY MappingIsOne DEF SchedInv, SchedTypes, Runs, RunsSound, FinishRun, MappingRun
<1>2. LoopOrNot("mapping", MappingRun.result) BY DEF FinishRun, MappingRun
<1>3. QED BY <1>1, <1>2, NoWorkIs, RunEnds DEF FinishRun

(* A path that is right and not pending is as it should be.                 *)
LEMMA MadeGood ==
    ASSUME NEW f \in Paths, mirror'[f] = source'[f], f \notin Pending'
    PROVE  LastTold(f)' /\ Told(f)' /\ Visited(f)'
<1>1. f \notin changed' /\ f \notin deleted' /\ f \notin {events'[i][1] : i \in DOMAIN events'} /\ f \notin work'.gone
  BY DEF Pending
<1>2. LastTold(f)' BY <1>1 DEF LastTold
<1>3. Told(f)' BY <1>1 DEF Told, IsGone
<1>4. QED BY <1>2, <1>3 DEF Visited

(* A path is treated; one that was lost sight of may be put right by it.    *)
LEMMA UpdateOneKeeps ==
    ASSUME SchedInv, NEW f \in Paths, UpdateOne(f)
    PROVE  RunsSound' /\ PathsTold'
<1>1. /\ MappingRun' = MappingRun /\ Batch' = Batch /\ MappingRun.pc = "running"
      /\ UNCHANGED <<source, events, changed, deleted, noisy>>
  BY DEF UpdateOne, runVars, pendingVars, MappingRun, Batch, Mapping
<1>2. RunsSound' BY <1>1 DEF SchedInv, RunsSound
<1>3. /\ work'.up = work.up \ {f} /\ work'.gone = work.gone
      /\ work'.upFailed = work.upFailed /\ work'.goneFailed = work.goneFailed
  BY DEF UpdateOne, SchedInv, SchedTypes, Works
<1>4. \A g \in Paths : mirror'[g] = IF g = f /\ ~IsGone(f) THEN source[f] ELSE mirror[g]
  BY DEF UpdateOne, SchedInv, SchedTypes, Files, IsGone
<1>5. SUFFICES ASSUME NEW g \in Paths, g \notin lost' PROVE LastTold(g)' /\ (g \notin Heard' => Told(g)' /\ Visited(g)')
  BY <1>2 DEF PathsTold
<1>6. CASE g \in lost
  <2>1. mirror'[g] = source'[g] /\ g \notin Pending' BY <1>5, <1>6 DEF UpdateOne, Stale
  <2>2. QED BY <2>1, MadeGood
<1>7. CASE g \notin lost
  <2>1. LastTold(g) /\ (g \notin Heard => Told(g) /\ Visited(g)) BY <1>7 DEF SchedInv, PathsTold
  <2>2. LastTold(g)' /\ Heard' = Heard BY <1>1, <2>1 DEF LastTold, Heard, IsGone
  <2>3. (g # f /\ g \in ToUpdate => g \in ToUpdate') /\ ToDelete' = ToDelete BY <1>1, <1>3 DEF ToUpdate, ToDelete
  <2>4. Told(g) => Told(g)' BY <1>1, <1>3, <1>4, <2>3 DEF Told, IsGone
  <2>5. FullBy' = FullBy BY <1>1 DEF FullBy
  <2>6. Visited(g) => Visited(g)' BY <1>1, <1>3, <1>4, <2>5 DEF Visited, IsGone
  <2>7. QED BY <2>1, <2>2, <2>4, <2>6
<1>8. QED BY <1>6, <1>7

LEMMA DeleteOneKeeps ==
    ASSUME SchedInv, NEW f \in Paths, DeleteOne(f)
    PROVE  RunsSound' /\ PathsTold'
<1>1. /\ MappingRun' = MappingRun /\ Batch' = Batch /\ MappingRun.pc = "running"
      /\ UNCHANGED <<source, events, changed, deleted, noisy>> /\ f \in work.gone
  BY DEF DeleteOne, runVars, pendingVars, MappingRun, Batch, Mapping
<1>2. RunsSound' BY <1>1 DEF SchedInv, RunsSound
<1>3. /\ work'.gone = work.gone \ {f} /\ work'.up = work.up
      /\ work'.upFailed = work.upFailed /\ work'.goneFailed = work.goneFailed
  BY DEF DeleteOne, SchedInv, SchedTypes, Works
<1>4. \A g \in Paths : mirror'[g] = IF g = f /\ (Batch \/ IsGone(f)) THEN Absent ELSE mirror[g]
  BY DEF DeleteOne, SchedInv, SchedTypes, Files, IsGone
<1>5. SUFFICES ASSUME NEW g \in Paths, g \notin lost' PROVE LastTold(g)' /\ (g \notin Heard' => Told(g)' /\ Visited(g)')
  BY <1>2 DEF PathsTold
<1>6. CASE g \in lost
  <2>1. mirror'[g] = source'[g] /\ g \notin Pending' BY <1>5, <1>6 DEF DeleteOne, Stale
  <2>2. QED BY <2>1, MadeGood
<1>7. CASE g \notin lost
  <2>1. LastTold(g) /\ (g \notin Heard => Told(g) /\ Visited(g)) BY <1>7 DEF SchedInv, PathsTold
  <2>2. LastTold(g)' /\ Heard' = Heard BY <1>1, <2>1 DEF LastTold, Heard, IsGone
  <2>3. (g # f /\ g \in ToDelete => g \in ToDelete') /\ ToUpdate' = ToUpdate /\ changed \subseteq ToUpdate
    BY <1>1, <1>3 DEF ToUpdate, ToDelete
  <2>4. Told(g) => Told(g)' BY <1>1, <1>3, <1>4, <2>3 DEF Told, IsGone
  <2>5. FullBy' = FullBy /\ (Batch => ~FullBy) BY <1>1 DEF FullBy, Batch, MappingRun
  <2>6. Visited(g) => Visited(g)' BY <1>1, <1>3, <1>4, <2>5 DEF Visited, IsGone
  <2>7. QED BY <2>1, <2>2, <2>4, <2>6
<1>8. QED BY <1>6, <1>7

(* A path fails: a batch has it as failed, a full sync ends.                *)
LEMMA PathFailsKeeps ==
    ASSUME SchedInv, NEW f \in Paths, PathFails(f)
    PROVE  RunsSound' /\ PathsTold'
<1>1. MappingRun.pc = "running" BY DEF PathFails, Mapping, MappingRun
<1>2. CASE Batch
  <2>1. /\ UNCHANGED <<run, lost, source, mirror, events, changed, deleted, noisy>>
        /\ \/ work' = [work EXCEPT !.gone = @ \ {f}, !.goneFailed = @ \cup {f}] /\ f \in work.gone
           \/ work' = [work EXCEPT !.up = @ \ {f}, !.upFailed = @ \cup {f}] /\ f \in work.up
    BY <1>2 DEF PathFails, treeVars, pendingVars
  <2>2. MappingRun' = MappingRun /\ Batch' BY <1>2, <2>1 DEF MappingRun, Batch
  <2>3. RunsSound' BY <1>1, <2>2 DEF SchedInv, RunsSound
  <2>4. /\ work'.gone \subseteq work.gone /\ work'.up \cup work'.upFailed = work.up \cup work.upFailed
        /\ work'.gone \cup work'.goneFailed = work.gone \cup work.goneFailed
    BY <2>1 DEF SchedInv, SchedTypes, Works
  <2>5. ToUpdate' = ToUpdate /\ ToDelete' = ToDelete BY <1>2, <2>1, <2>2, <2>4 DEF ToUpdate, ToDelete
  <2>6. \A g \in Paths : Visited(g)' BY <2>2 DEF Visited, FullBy, Batch, MappingRun
  <2>7. QED BY <1>2, <2>1, <2>3, <2>4, <2>5, <2>6, RunGoesOn
<1>3. CASE ~Batch
  <2>1. Leave("mapping", "failed") /\ UNCHANGED <<treeVars, pendingVars>> BY <1>3 DEF PathFails
  <2>2. QED BY <1>1, <2>1, LeaveKeeps
<1>4. QED BY <1>2, <1>3

(* The thread returns: what failed is pending again.                        *)
LEMMA SyncedKeeps ==
    ASSUME SchedInv, Synced
    PROVE  RunsSound' /\ PathsTold'
<1>1. /\ MappingRun.pc = "running" /\ MappingRun'.pc = "finishing" /\ MappingRun'.by = MappingRun.by
      /\ MappingRun'.kind = MappingRun.kind /\ Batch' = Batch
  BY MappingIsOne DEF SchedInv, SchedTypes, Synced, MappingRun, Runs, Batch
<1>2. /\ UNCHANGED <<source, mirror, events, noisy>> /\ work' = NoWork /\ work.up = {} /\ work.gone = {}
      /\ changed' = changed \cup work.upFailed /\ deleted' = deleted \cup work.goneFailed
      /\ lost' = lost \cup {f \in work.goneFailed : source[f] # Absent}
  BY DEF Synced, treeVars
<1>3. RunsSound' BY <1>1, <1>2 DEF SchedInv, RunsSound, NoWork
<1>4. SUFFICES ASSUME NEW f \in Paths, f \notin lost' PROVE LastTold(f)' /\ (f \notin Heard' => Told(f)' /\ Visited(f)')
  BY <1>3 DEF PathsTold
<1>5. LastTold(f) /\ (f \notin Heard => Told(f) /\ Visited(f)) BY <1>2, <1>4 DEF SchedInv, PathsTold
<1>6. LastTold(f)' /\ Heard' = Heard BY <1>2, <1>5 DEF LastTold, Heard, IsGone
<1>7. (f \in ToUpdate => f \in ToUpdate') /\ (f \in ToDelete => f \in ToDelete') BY <1>1, <1>2 DEF ToUpdate, ToDelete
<1>8. Told(f) => Told(f)' BY <1>1, <1>2, <1>4, <1>7, NoWorkIs DEF Told, IsGone
<1>9. FullBy' = FullBy BY <1>1, <1>2 DEF FullBy
<1>10. Visited(f) => Visited(f)' BY <1>1, <1>2, <1>9 DEF Visited
<1>11. QED BY <1>5, <1>6, <1>8, <1>10

(* Of the events that are dropped something else tells.                     *)
LEMMA SyncObserverKeeps ==
    ASSUME SchedInv, SyncObserver
    PROVE  RunsSound' /\ PathsTold'
<1>1. UNCHANGED <<run, source, mirror, changed, deleted, noisy, work>> /\ MappingRun.by # "loop"
  BY DEF SyncObserver, runVars, pendingVars, MappingRun
<1>2. MappingRun' = MappingRun /\ Batch' = Batch /\ ~Batch /\ ~FullBy' /\ ToUpdate' = ToUpdate /\ ToDelete' = ToDelete
  BY <1>1 DEF MappingRun, Batch, SchedInv, RunsSound, FullBy, ToUpdate, ToDelete
<1>3. RunsSound' BY <1>1, <1>2 DEF SchedInv, RunsSound
<1>4. SUFFICES ASSUME NEW f \in Paths, f \notin lost' PROVE LastTold(f)' /\ (f \notin Heard' => Told(f)' /\ Visited(f)')
  BY <1>3 DEF PathsTold
<1>5. Visited(f)' BY <1>2 DEF Visited
<1>6. Told(f) => Told(f)' BY <1>1, <1>2 DEF Told, IsGone
<1>7. f \notin lost BY <1>4 DEF SyncObserver
<1>8. LastTold(f) /\ (f \notin Heard => Told(f)) BY <1>7 DEF SchedInv, PathsTold
<1>9. CASE UNCHANGED events
  BY <1>1, <1>5, <1>6, <1>8, <1>9 DEF LastTold, Heard, IsGone
<1>10. CASE \E n \in 0 .. Len(events) :
               /\ events' = SubSeq(events, 1, n)
               /\ lost' = lost \cup {events[i][1] : i \in n + 1 .. Len(events)}
  <2>1. PICK n \in 0 .. Len(events) :
               /\ events' = SubSeq(events, 1, n)
               /\ lost' = lost \cup {events[i][1] : i \in n + 1 .. Len(events)}
    BY <1>10
  <2>2. /\ DOMAIN events = 1 .. Len(events) /\ DOMAIN events' = 1 .. n /\ \A i \in 1 .. n : events'[i] = events[i]
        /\ Len(events) \in Nat
    BY <2>1 DEF SchedInv, SchedTypes
  <2>3. \A i \in DOMAIN events : events[i][1] = f => i \in 1 .. n
    <3>1. SUFFICES ASSUME NEW i \in 1 .. Len(events), events[i][1] = f, i \notin 1 .. n PROVE FALSE BY <2>2
    <3>2. i \in n + 1 .. Len(events) BY <2>2, <3>1
    <3>3. QED BY <1>4, <2>1, <3>1, <3>2
  <2>4. LastTold(f)' BY <1>1, <1>8, <2>2, <2>3 DEF LastTold, IsGone
  <2>5. f \in Heard => f \in Heard' BY <2>2, <2>3 DEF Heard
  <2>6. QED BY <1>5, <1>6, <1>8, <2>4, <2>5
<1>11. QED BY <1>9, <1>10 DEF SyncObserver

(* What is pending is the batch, or lost when the lock is held.             *)
LEMMA TakeBatchKeeps ==
    ASSUME SchedInv, TakeBatch
    PROVE  RunsSound' /\ PathsTold'
<1>1. /\ UNCHANGED <<source, mirror, events, noisy>> /\ changed' = {} /\ deleted' = {}
      /\ MappingRun.by # "loop" /\ ~Batch
  BY DEF TakeBatch, treeVars, MappingRun, Round, SchedInv, RunsSound, Batch
<1>2. CASE BeginRun("mapping", "loop", "batch") /\ work' = [NoWork EXCEPT !.up = changed, !.gone = deleted] /\ UNCHANGED lost
  <2>1. MappingRun'.pc = "starting" /\ MappingRun'.by = "loop" /\ MappingRun'.kind = "batch"
    BY <1>2, MappingIsOne, BegunIs DEF SchedInv, SchedTypes, MappingRun
  <2>2. work'.up = changed /\ work'.gone = deleted /\ work'.upFailed = {} /\ work'.goneFailed = {} BY <1>2 DEF NoWork
  <2>3. Batch' BY <2>1 DEF Batch, MappingRun
  <2>4. RunsSound' BY <2>1, <2>2, <2>3 DEF RunsSound
  <2>5. ToUpdate' = ToUpdate /\ ToDelete' = ToDelete BY <1>1, <2>2, <2>3 DEF ToUpdate, ToDelete
  <2>6. SUFFICES ASSUME NEW f \in Paths, f \notin lost PROVE LastTold(f)' /\ (f \notin Heard' => Told(f)' /\ Visited(f)')
    BY <1>2, <2>4 DEF PathsTold
  <2>7. LastTold(f) /\ (f \notin Heard => Told(f)) BY <2>6 DEF SchedInv, PathsTold
  <2>8. LastTold(f)' /\ Heard' = Heard BY <1>1, <2>7 DEF LastTold, Heard, IsGone
  <2>9. Told(f) => Told(f)' BY <1>1, <2>2, <2>5 DEF Told, IsGone
  <2>10. Visited(f)' BY <2>1 DEF Visited, FullBy
  <2>11. QED BY <2>7, <2>8, <2>9, <2>10
<1>3. CASE lost' = lost \cup changed \cup deleted /\ UNCHANGED <<run, work>>
  <2>1. MappingRun' = MappingRun /\ ~Batch' BY <1>1, <1>3 DEF MappingRun, Batch
  <2>2. RunsSound' BY <1>1, <1>3, <2>1 DEF SchedInv, RunsSound
  <2>3. SUFFICES ASSUME NEW f \in Paths, f \notin lost' PROVE LastTold(f)' /\ (f \notin Heard' => Told(f)' /\ Visited(f)')
    BY <2>2 DEF PathsTold
  <2>4. f \notin lost /\ f \notin changed /\ f \notin deleted BY <1>3, <2>3
  <2>5. LastTold(f) /\ (f \notin Heard => Told(f)) BY <2>4 DEF SchedInv, PathsTold
  <2>6. LastTold(f)' /\ Heard' = Heard BY <1>1, <2>5 DEF LastTold, Heard, IsGone
  <2>7. Told(f) => Told(f)' BY <1>1, <2>1, <2>4 DEF Told, IsGone, ToUpdate, ToDelete
  <2>8. Visited(f)' BY <1>1, <2>1 DEF Visited, FullBy
  <2>9. QED BY <2>5, <2>6, <2>7, <2>8
<1>4. QED BY <1>2, <1>3 DEF TakeBatch

(* An event comes in; if it is the last of its path it says how the file    *)
(* is.                                                                      *)
LEMMA OnEventKeeps ==
    ASSUME SchedInv, OnEvent
    PROVE  RunsSound' /\ PathsTold'
<1> DEFINE e == Head(events)[1]
<1>1. /\ UNCHANGED <<run, source, mirror, work, lost>> /\ noisy' = TRUE /\ events' = Tail(events) /\ events # <<>>
      /\ IF events[1][2] THEN changed' = changed \ {e} /\ deleted' = deleted \cup {e}
                          ELSE deleted' = deleted \ {e} /\ changed' = changed \cup {e}
  BY DEF OnEvent, runVars, SchedInv, SchedTypes
<1>2. MappingRun' = MappingRun /\ Batch' = Batch BY <1>1 DEF MappingRun, Batch
<1>3. RunsSound' BY <1>1, <1>2 DEF SchedInv, RunsSound
<1>4. /\ DOMAIN events = 1 .. Len(events) /\ Len(events) \in Nat \ {0} /\ e = events[1][1]
      /\ DOMAIN events' = 1 .. Len(events) - 1 /\ \A i \in 1 .. Len(events) - 1 : events'[i] = events[i + 1]
  BY <1>1 DEF SchedInv, SchedTypes
<1> HIDE DEF e
<1>5. SUFFICES ASSUME NEW f \in Paths, f \notin lost PROVE LastTold(f)' /\ (f \notin Heard' => Told(f)' /\ Visited(f)')
  BY <1>1, <1>3 DEF PathsTold
<1>6. LastTold(f) /\ (f \notin Heard => Told(f)) BY <1>5 DEF SchedInv, PathsTold
<1>7. LastTold(f)'
  <2>1. SUFFICES ASSUME NEW i \in 1 .. Len(events) - 1, events'[i][1] = f,
                        \A j \in 1 .. Len(events) - 1 : j > i => events'[j][1] # f
                 PROVE  events'[i][2] = IsGone(f)
    BY <1>1, <1>4 DEF LastTold, IsGone
  <2>2. i + 1 \in DOMAIN events /\ events[i + 1] = events'[i] BY <1>4
  <2>3. \A j \in DOMAIN events : j > i + 1 => events[j][1] # f
    <3>1. SUFFICES ASSUME NEW j \in 1 .. Len(events), j > i + 1 PROVE events[j][1] # f BY <1>4
    <3>2. j - 1 \in 1 .. Len(events) - 1 /\ j - 1 > i /\ (j - 1) + 1 = j BY <1>4, <3>1
    <3>3. events'[j - 1] = events[j] BY <1>4, <3>2
    <3>4. QED BY <2>1, <3>2, <3>3
  <2>4. QED BY <1>6, <2>1, <2>2, <2>3 DEF LastTold
<1>8. Visited(f)' BY <1>1 DEF Visited, FullBy
<1>9. ASSUME f \notin Heard' PROVE Told(f)'
  <2>1. \A i \in DOMAIN events : i > 1 => events[i][1] # f
    <3>1. SUFFICES ASSUME NEW i \in 1 .. Len(events), i > 1 PROVE events[i][1] # f BY <1>4
    <3>2. i - 1 \in 1 .. Len(events) - 1 /\ (i - 1) + 1 = i BY <1>4, <3>1
    <3>3. events'[i - 1] = events[i] /\ i - 1 \in DOMAIN events' BY <1>4, <3>2
    <3>4. QED BY <1>9, <3>3 DEF Heard
  <2>2. CASE e = f
    <3>1. events[1][2] = IsGone(f)
      <4>1. 1 \in DOMAIN events /\ events[1][1] = f BY <1>4, <2>2
      <4>2. QED BY <1>6, <2>1, <4>1 DEF LastTold
    <3>2. CASE IsGone(f)
      <4>1. f \in ToDelete' BY <1>1, <2>2, <3>1, <3>2 DEF ToDelete
      <4>2. QED BY <1>1, <3>2, <4>1 DEF Told, IsGone
    <3>3. CASE ~IsGone(f)
      <4>1. f \in changed' /\ f \notin deleted' BY <1>1, <2>2, <3>1, <3>3
      <4>2. QED BY <1>1, <3>3, <4>1 DEF Told, IsGone, ToUpdate
    <3>4. QED BY <3>2, <3>3
  <2>3. CASE e # f
    <3>1. f \notin Heard
      <4>1. \A i \in DOMAIN events : events[i][1] # f BY <1>4, <2>1, <2>3
      <4>2. QED BY <4>1 DEF Heard
    <3>2. (f \in changed' <=> f \in changed) /\ (f \in deleted' <=> f \in deleted) BY <1>1, <2>3
    <3>3. (f \in ToUpdate <=> f \in ToUpdate') /\ (f \in ToDelete <=> f \in ToDelete')
      BY <1>1, <1>2, <3>2 DEF ToUpdate, ToDelete
    <3>4. QED BY <1>1, <1>2, <1>6, <3>1, <3>2, <3>3 DEF Told, IsGone
  <2>4. QED BY <2>2, <2>3
<1>10. QED BY <1>7, <1>8, <1>9

(* A file changes: an event says so, or nobody hears of it.                 *)
LEMMA EditKeeps ==
    ASSUME SchedInv, NEW f \in Paths, Edit(f)
    PROVE  RunsSound' /\ PathsTold'
<1>1. UNCHANGED <<run, mirror, changed, deleted, noisy, work>> BY DEF Edit, runVars, pendingVars
<1>2. PICK v \in Versions \cup {Absent} :
          /\ source' = [source EXCEPT ![f] = v]
          /\ \/ events' = Append(events, <<f, v = Absent>>) /\ lost' = lost
             \/ lost' = lost \cup {f} /\ events' = events
  BY DEF Edit
<1>3. MappingRun' = MappingRun /\ Batch' = Batch /\ FullBy' = FullBy /\ ToUpdate' = ToUpdate /\ ToDelete' = ToDelete
  BY <1>1 DEF MappingRun, Batch, FullBy, ToUpdate, ToDelete
<1>4. RunsSound' BY <1>1, <1>3 DEF SchedInv, RunsSound
<1>5. \A g \in Paths : source'[g] = IF g = f THEN v ELSE source[g] BY <1>2 DEF SchedInv, SchedTypes, Files
<1>6. SUFFICES ASSUME NEW g \in Paths, g \notin lost' PROVE LastTold(g)' /\ (g \notin Heard' => Told(g)' /\ Visited(g)')
  BY <1>4 DEF PathsTold
<1>7. g \notin lost BY <1>2, <1>6
<1>8. LastTold(g) /\ (g \notin Heard => Told(g) /\ Visited(g)) BY <1>7 DEF SchedInv, PathsTold
<1>9. g # f => (Told(g) => Told(g)') /\ (Visited(g) => Visited(g)') BY <1>1, <1>3, <1>5 DEF Told, Visited, IsGone
<1>10. CASE lost' = lost \cup {f} /\ events' = events
  <2>1. g # f BY <1>6, <1>10
  <2>2. LastTold(g)' /\ Heard' = Heard BY <1>5, <1>8, <1>10, <2>1 DEF LastTold, Heard, IsGone
  <2>3. QED BY <1>8, <1>9, <2>1, <2>2
<1>11. CASE events' = Append(events, <<f, v = Absent>>)
  <2> DEFINE n == Len(events) + 1
  <2>1. /\ DOMAIN events = 1 .. n - 1 /\ DOMAIN events' = 1 .. n /\ n \in Nat /\ n >= 1
        /\ \A i \in 1 .. n - 1 : events'[i] = events[i]
        /\ events'[n] = <<f, v = Absent>>
    BY <1>11 DEF SchedInv, SchedTypes
  <2> HIDE DEF n
  <2>2. n \in DOMAIN events' BY <2>1
  <2>3. CASE g = f
    <3>1. g \in Heard' BY <2>1, <2>2, <2>3 DEF Heard
    <3>2. IsGone(g)' <=> v = Absent BY <1>5, <2>3 DEF IsGone
    <3>3. ASSUME NEW i \in DOMAIN events', \A j \in DOMAIN events' : j > i => events'[j][1] # g PROVE i = n
      BY <2>1, <2>2, <2>3, <3>3
    <3>4. LastTold(g)' BY <2>1, <3>2, <3>3 DEF LastTold, IsGone
    <3>5. QED BY <3>1, <3>4
  <2>4. CASE g # f
    <3>1. (g \in Heard => g \in Heard') BY <2>1 DEF Heard
    <3>2. LastTold(g)' BY <1>5, <1>8, <2>1, <2>4 DEF LastTold, IsGone
    <3>3. QED BY <1>8, <1>9, <2>4, <3>1, <3>2
  <2>5. QED BY <2>3, <2>4
<1>12. QED BY <1>2, <1>10, <1>11

(* What a process forgets when it ends is lost.                             *)
LEMMA ForgetKeeps ==
    ASSUME SchedInv, Forget, MappingRun'.kind # "batch" \/ MappingRun'.by = "loop",
           MappingRun'.pc = "free" => MappingRun'.kind = "none" /\ MappingRun'.by = "none",
           MappingRun'.pc \in {"free", "finishing"}, MappingRun'.result # "completed"
    PROVE  RunsSound' /\ PathsTold'
<1>1. UNCHANGED <<source, mirror>> /\ events' = <<>> /\ changed' = {} /\ deleted' = {} /\ work' = NoWork
  BY DEF Forget
<1>2. RunsSound' BY <1>1 DEF RunsSound, NoWork
<1>3. SUFFICES ASSUME NEW f \in Paths, f \notin lost' PROVE LastTold(f)' /\ (f \notin Heard' => Told(f)' /\ Visited(f)')
  BY <1>2 DEF PathsTold
<1>4. f \notin lost /\ f \notin Pending BY <1>3 DEF Forget
<1>5. f \notin Heard /\ f \notin ToUpdate /\ f \notin ToDelete BY <1>4 DEF Pending, Heard, ToUpdate, ToDelete
<1>6. Told(f) BY <1>4, <1>5 DEF SchedInv, PathsTold
<1>7. mirror'[f] = source'[f] BY <1>1, <1>5, <1>6 DEF Told, IsGone
<1>8. LastTold(f)' BY <1>1 DEF LastTold
<1>9. Told(f)' BY <1>1, <1>7, NoWorkIs DEF Told, IsGone
<1>10. Visited(f)' BY <1>7 DEF Visited
<1>11. QED BY <1>8, <1>9, <1>10

(* Each step leaves the types as they are, and so the invariant.            *)
LEMMA SchedTypesStay ==
    ASSUME SchedInv, [SchedNext]_schedVars
    PROVE  SchedTypes'
<1>1. SchedTypes /\ RunsSound BY DEF SchedInv
<1>2. /\ run \in [Pipelines -> Runs] /\ source \in Files /\ mirror \in Files /\ events \in Seq(Paths \X BOOLEAN)
      /\ changed \subseteq Paths /\ deleted \subseteq Paths /\ lost \subseteq Paths
      /\ work \in Works /\ noisy \in BOOLEAN
  BY <1>1 DEF SchedTypes
<1>3. Heard \subseteq Paths BY <1>2 DEF Heard
<1>4. /\ work.up \subseteq Paths /\ work.gone \subseteq Paths /\ work.upFailed \subseteq Paths
      /\ work.goneFailed \subseteq Paths
  BY <1>2 DEF Works
<1>5. Pending \subseteq Paths BY <1>2, <1>3, <1>4 DEF Pending, Heard
<1>6. ASSUME NEW p \in Pipelines, LoopReturns(run[p].kind, run[p].result) \/ LoopReturns(run[p].kind, "none")
             \/ UNCHANGED pendingVars
      PROVE  changed' \subseteq Paths /\ deleted' \subseteq Paths /\ noisy' \in BOOLEAN
  BY <1>2, <1>6 DEF LoopReturns, pendingVars
<1>7. ASSUME NEW p \in Pipelines, NEW by \in {"manual", "loop"}, NEW kind \in {"plain", "full", "startup", "batch"},
             BeginRun(p, by, kind)
      PROVE  run' \in [Pipelines -> Runs]
  BY <1>2, <1>7, BegunIs
<1>8. ASSUME NEW p \in Pipelines, NEW result \in Ended, Leave(p, result)
      PROVE  run' \in [Pipelines -> Runs] /\ work' \in Works /\ lost' \subseteq Paths
  <2>1. [run[p] EXCEPT !.pc = "finishing", !.result = result] \in Runs BY <1>2 DEF Runs
  <2>2. QED BY <1>2, <1>4, <1>8, <2>1, NoWorkIs DEF Leave
<1>9. "completed" \in Ended /\ "failed" \in Ended /\ "cancelled" \in Ended BY DEF Ended
<1>10. ASSUME Forget PROVE /\ UNCHANGED <<source, mirror>> /\ events' \in Seq(Paths \X BOOLEAN)
                           /\ changed' \subseteq Paths /\ deleted' \subseteq Paths /\ lost' \subseteq Paths
                           /\ work' \in Works /\ noisy' \in BOOLEAN
  <2>1. events' \in Seq(Paths \X BOOLEAN) BY <1>10 DEF Forget
  <2>2. QED BY <1>2, <1>5, <1>10, <2>1, NoWorkIs DEF Forget
<1>11. CASE UNCHANGED schedVars
  BY <1>2, <1>11 DEF schedVars, runVars, treeVars, pendingVars, SchedTypes
<1>12. CASE \E p \in Pipelines : Trigger(p) \/ ManualBegins(p) \/ LoopRuns(p)
  <2>1. PICK p \in Pipelines : Trigger(p) \/ ManualBegins(p) \/ LoopRuns(p) BY <1>12
  <2>2. run' \in [Pipelines -> Runs] BY <1>2, <1>7, <2>1 DEF Trigger, ManualBegins, LoopRuns
  <2>3. QED BY <1>2, <2>1, <2>2 DEF Trigger, ManualBegins, LoopRuns, treeVars, pendingVars, SchedTypes
<1>13. CASE \E p \in Pipelines : StartRun(p)
  <2>1. PICK p \in Pipelines : StartRun(p) BY <1>13
  <2>2. [run[p] EXCEPT !.pc = "running"] \in Runs BY <1>2 DEF Runs
  <2>3. run' \in [Pipelines -> Runs] BY <1>2, <2>1, <2>2 DEF StartRun
  <2>4. [NoWork EXCEPT !.up = Paths, !.gone = Paths] \in Works BY DEF NoWork, Works
  <2>5. QED BY <1>2, <2>1, <2>3, <2>4 DEF StartRun, treeVars, pendingVars, SchedTypes
<1>14. CASE \E p \in Pipelines : StartRunFails(p)
  <2>1. PICK p \in Pipelines : StartRunFails(p) BY <1>14
  <2>2. run' \in [Pipelines -> Runs] BY <1>2, <2>1, FreeIs DEF StartRunFails
  <2>3. changed' \subseteq Paths /\ deleted' \subseteq Paths /\ noisy' \in BOOLEAN
    BY <1>6, <2>1 DEF StartRunFails, LoopOrNot
  <2>4. lost' \subseteq Paths /\ work' \in Works BY <1>2, <1>4, <2>1, NoWorkIs DEF StartRunFails
  <2>5. QED BY <1>2, <2>1, <2>2, <2>3, <2>4 DEF StartRunFails, treeVars, SchedTypes
<1>15. CASE \E p \in Pipelines : CancelRun(p)
  <2>1. PICK p \in Pipelines : CancelRun(p) BY <1>15
  <2>2. [run[p] EXCEPT !.stop = TRUE] \in Runs BY <1>2 DEF Runs
  <2>3. QED BY <1>2, <2>1, <2>2 DEF CancelRun, treeVars, pendingVars, SchedTypes
<1>16. CASE \E p \in Pipelines : OtherEnds(p)
  <2>1. PICK p \in Pipelines : OtherEnds(p) BY <1>16
  <2>2. run' \in [Pipelines -> Runs] /\ work' \in Works /\ lost' \subseteq Paths BY <1>8, <1>9, <2>1 DEF OtherEnds
  <2>3. QED BY <1>2, <2>1, <2>2 DEF OtherEnds, treeVars, pendingVars, SchedTypes
<1>17. CASE StopHeeded
  <2>1. run' \in [Pipelines -> Runs] /\ work' \in Works /\ lost' \subseteq Paths
    BY <1>8, <1>9, <1>17, MappingIsOne DEF StopHeeded
  <2>2. QED BY <1>2, <1>17, <2>1 DEF StopHeeded, treeVars, pendingVars, SchedTypes
<1>18. CASE \E p \in Pipelines : FinishRun(p)
  <2>1. PICK p \in Pipelines : FinishRun(p) BY <1>18
  <2>2. run' \in [Pipelines -> Runs] BY <1>2, <2>1, FreeIs DEF FinishRun
  <2>3. changed' \subseteq Paths /\ deleted' \subseteq Paths /\ noisy' \in BOOLEAN
    BY <1>6, <2>1 DEF FinishRun, LoopOrNot
  <2>4. QED BY <1>2, <2>1, <2>2, <2>3 DEF FinishRun, treeVars, SchedTypes
<1>19. CASE \E f \in Paths : UpdateOne(f) \/ DeleteOne(f)
  <2>1. PICK f \in Paths : UpdateOne(f) \/ DeleteOne(f) BY <1>19
  <2>2. [work EXCEPT !.up = @ \ {f}] \in Works /\ [work EXCEPT !.gone = @ \ {f}] \in Works BY <1>2 DEF Works
  <2>3. [mirror EXCEPT ![f] = source[f]] \in Files /\ [mirror EXCEPT ![f] = Absent] \in Files BY <1>2 DEF Files
  <2>4. QED BY <1>2, <2>1, <2>2, <2>3 DEF UpdateOne, DeleteOne, runVars, pendingVars, SchedTypes
<1>20. CASE \E f \in Paths : PathFails(f)
  <2>1. PICK f \in Paths : PathFails(f) BY <1>20
  <2>2. /\ [work EXCEPT !.gone = @ \ {f}, !.goneFailed = @ \cup {f}] \in Works
        /\ [work EXCEPT !.up = @ \ {f}, !.upFailed = @ \cup {f}] \in Works
    BY <1>2 DEF Works
  <2>3. run' \in [Pipelines -> Runs] /\ work' \in Works /\ lost' \subseteq Paths
    BY <1>2, <1>8, <1>9, <2>1, <2>2, MappingIsOne DEF PathFails
  <2>4. QED BY <1>2, <2>1, <2>3 DEF PathFails, treeVars, pendingVars, SchedTypes
<1>21. CASE Synced
  <2>1. [run["mapping"] EXCEPT !.pc = "finishing", !.result = "completed"] \in Runs
    BY <1>2, <1>9, MappingIsOne DEF Runs
  <2>2. run' \in [Pipelines -> Runs] BY <1>2, <1>21, <2>1 DEF Synced
  <2>3. QED BY <1>2, <1>4, <1>21, <2>2, NoWorkIs DEF Synced, treeVars, SchedTypes
<1>22. CASE SyncObserver
  <2>1. events' \in Seq(Paths \X BOOLEAN) /\ lost' \subseteq Paths
    <3>1. CASE UNCHANGED <<events, lost>> BY <1>2, <3>1
    <3>2. CASE \E n \in 0 .. Len(events) :
                  /\ events' = SubSeq(events, 1, n)
                  /\ lost' = lost \cup {events[i][1] : i \in n + 1 .. Len(events)}
      <4>1. PICK n \in 0 .. Len(events) :
                  /\ events' = SubSeq(events, 1, n)
                  /\ lost' = lost \cup {events[i][1] : i \in n + 1 .. Len(events)}
        BY <3>2
      <4>2. Len(events) \in Nat /\ DOMAIN events = 1 .. Len(events) BY <1>2
      <4>3. \A i \in n + 1 .. Len(events) : i \in DOMAIN events BY <4>2
      <4>4. events' \in Seq(Paths \X BOOLEAN) BY <1>2, <4>1, <4>2
      <4>5. lost' \subseteq Paths BY <1>2, <1>3, <4>1, <4>3 DEF Heard
      <4>6. QED BY <4>4, <4>5
    <3>3. QED BY <1>22, <3>1, <3>2 DEF SyncObserver
  <2>2. QED BY <1>2, <1>22, <2>1 DEF SyncObserver, runVars, pendingVars, SchedTypes
<1>23. CASE StartupSync \/ FullSync
  <2>1. run' \in [Pipelines -> Runs] /\ noisy' \in BOOLEAN
    BY <1>2, <1>7, <1>23, MappingIsOne DEF StartupSync, FullSync, pendingVars
  <2>2. QED BY <1>2, <1>23, <2>1 DEF StartupSync, FullSync, treeVars, pendingVars, SchedTypes
<1>24. CASE TakeBatch
  <2>1. run' \in [Pipelines -> Runs] BY <1>2, <1>7, <1>24, MappingIsOne DEF TakeBatch
  <2>2. [NoWork EXCEPT !.up = changed, !.gone = deleted] \in Works BY <1>2 DEF NoWork, Works
  <2>3. QED BY <1>2, <1>24, <2>1, <2>2 DEF TakeBatch, treeVars, SchedTypes
<1>25. CASE OnEvent
  <2>1. Head(events) \in Paths \X BOOLEAN /\ Tail(events) \in Seq(Paths \X BOOLEAN) BY <1>2, <1>25 DEF OnEvent
  <2>2. QED BY <1>2, <1>25, <2>1 DEF OnEvent, runVars, SchedTypes
<1>26. CASE \E f \in Paths : Edit(f)
  <2>1. PICK f \in Paths : Edit(f) BY <1>26
  <2>2. PICK v \in Versions \cup {Absent} :
            /\ source' = [source EXCEPT ![f] = v]
            /\ \/ events' = Append(events, <<f, v = Absent>>) /\ lost' = lost
               \/ lost' = lost \cup {f} /\ events' = events
    BY <2>1 DEF Edit
  <2>3. source' \in Files BY <1>2, <2>2 DEF Files
  <2>4. <<f, v = Absent>> \in Paths \X BOOLEAN OBVIOUS
  <2>5. events' \in Seq(Paths \X BOOLEAN) BY SMTT(20), <1>2, <2>2, <2>4
  <2>6. lost' \subseteq Paths BY <1>2, <2>2
  <2>7. QED BY <1>2, <2>1, <2>3, <2>5, <2>6 DEF Edit, runVars, pendingVars, SchedTypes
<1>27. CASE Debounced \/ FullSyncDue \/ Configure \/ ClosedDown \/ Restart
  BY <1>2, <1>27 DEF Debounced, FullSyncDue, Configure, ClosedDown, Restart, runVars, treeVars, pendingVars, SchedTypes
<1>28. CASE CloseDown \/ Die
  <2>1. \A p \in Pipelines : [run[p] EXCEPT !.pc = "finishing", !.result = "cancelled"] \in Runs
    BY <1>2, <1>9 DEF Runs
  <2>2. run' \in [Pipelines -> Runs] BY <1>28, <2>1, FreeIs DEF CloseDown, Die
  <2>3. QED BY <1>2, <1>10, <1>28, <2>2 DEF CloseDown, Die, SchedTypes
<1>29. QED
  BY <1>11, <1>12, <1>13, <1>14, <1>15, <1>16, <1>17, <1>18, <1>19, <1>20, <1>21, <1>22, <1>23, <1>24, <1>25, <1>26,
     <1>27, <1>28
  DEF SchedNext, MappingWork, Executes

LEMMA SchedStepKeeps ==
    ASSUME SchedInv, [SchedNext]_schedVars
    PROVE  SchedInv'
<1>1. run \in [Pipelines -> Runs] /\ MappingRun \in Runs /\ RunsSound
  BY MappingIsOne DEF SchedInv, SchedTypes, MappingRun
<1>2. SUFFICES RunsSound' /\ PathsTold' BY SchedTypesStay DEF SchedInv
<1>3. ASSUME UNCHANGED <<treeVars, changed, deleted, noisy, lost, work>>, UNCHANGED run PROVE RunsSound' /\ PathsTold'
  BY <1>3, AsideKeeps DEF MappingRun
<1>4. CASE UNCHANGED schedVars \/ Debounced \/ FullSyncDue \/ Configure \/ ClosedDown \/ Restart
  BY <1>3, <1>4 DEF schedVars, runVars, pendingVars, Debounced, FullSyncDue, Configure, ClosedDown, Restart
<1>5. ASSUME NEW p \in Pipelines, BeginRun(p, "manual", "plain") \/ BeginRun(p, "loop", "plain"), p # "mapping",
             UNCHANGED <<treeVars, changed, deleted, noisy, lost, work>>
      PROVE  RunsSound' /\ PathsTold'
  <2>1. MappingRun' = MappingRun BY <1>1, <1>5, BegunIs, MappingIsOne DEF MappingRun
  <2>2. QED BY <1>5, <2>1, AsideKeeps
<1>6. CASE \E p \in Pipelines : Trigger(p) \/ ManualBegins(p) \/ LoopRuns(p)
  <2>1. PICK p \in Pipelines : Trigger(p) \/ ManualBegins(p) \/ LoopRuns(p) BY <1>6
  <2>2. UNCHANGED <<treeVars, changed, deleted, noisy, lost, work>> BY <2>1 DEF Trigger, ManualBegins, LoopRuns, pendingVars
  <2>3. CASE UNCHANGED run BY <1>3, <2>2, <2>3
  <2>4. CASE p # "mapping" /\ run' # run BY <1>5, <2>1, <2>2, <2>4 DEF Trigger, ManualBegins, LoopRuns
  <2>5. CASE p = "mapping" /\ run' # run
    <3>1. BeginRun("mapping", "manual", "full") BY <2>1, <2>5 DEF Trigger, ManualBegins, LoopRuns
    <3>2. QED BY <2>2, <3>1, BeginRunKeeps
  <2>6. QED BY <2>3, <2>4, <2>5
<1>7. CASE \E p \in Pipelines : StartRun(p) \/ StartRunFails(p) \/ FinishRun(p)
  <2>1. PICK p \in Pipelines : StartRun(p) \/ StartRunFails(p) \/ FinishRun(p) BY <1>7
  <2>2. CASE p = "mapping" BY <2>1, <2>2, StartRunKeeps, StartRunFailsKeeps, FinishRunKeeps
  <2>3. CASE p # "mapping"
    <3>1. UNCHANGED <<treeVars, changed, deleted, noisy, lost, work>>
      BY <2>1, <2>3 DEF StartRun, StartRunFails, FinishRun, LoopOrNot, pendingVars
    <3>2. MappingRun' = MappingRun BY <1>1, <2>1, <2>3, MappingIsOne DEF StartRun, StartRunFails, FinishRun, MappingRun
    <3>3. QED BY <3>1, <3>2, AsideKeeps
  <2>4. QED BY <2>2, <2>3
<1>8. CASE \E p \in Pipelines : CancelRun(p) \/ OtherEnds(p)
  <2>1. PICK p \in Pipelines : CancelRun(p) \/ OtherEnds(p) BY <1>8
  <2>2. UNCHANGED <<treeVars, changed, deleted, noisy, lost, work>>
    BY <2>1 DEF CancelRun, OtherEnds, Leave, pendingVars
  <2>3. /\ MappingRun'.pc = MappingRun.pc /\ MappingRun'.by = MappingRun.by
        /\ MappingRun'.kind = MappingRun.kind /\ MappingRun'.result = MappingRun.result
    <3>1. CASE CancelRun(p)
      <4>1. run' = [run EXCEPT ![p] = [run[p] EXCEPT !.stop = TRUE]] BY <3>1 DEF CancelRun
      <4>2. run'["mapping"] = run["mapping"] \/ run'["mapping"] = [run["mapping"] EXCEPT !.stop = TRUE]
        BY <1>1, <4>1, MappingIsOne
      <4>3. QED BY <1>1, <4>2 DEF MappingRun, Runs
    <3>2. CASE OtherEnds(p) BY <1>1, <3>2, MappingIsOne DEF OtherEnds, Leave, MappingRun
    <3>3. QED BY <2>1, <3>1, <3>2
  <2>4. QED BY <2>2, <2>3, AsideKeeps
<1>9. CASE StopHeeded
  BY <1>9, LeaveKeeps DEF StopHeeded, MappingRun
<1>10. CASE StartupSync \/ FullSync
  <2>1. CASE BeginRun("mapping", "loop", "startup") \/ BeginRun("mapping", "loop", "full")
    <3>1. UNCHANGED <<treeVars, changed, deleted, lost, work>> BY <1>10 DEF StartupSync, FullSync, pendingVars
    <3>2. QED BY <2>1, <3>1, BeginRunKeeps
  <2>2. CASE UNCHANGED <<run, noisy>>
    BY <1>3, <1>10, <2>2 DEF StartupSync, FullSync, pendingVars
  <2>3. QED BY <1>10, <2>1, <2>2 DEF StartupSync, FullSync
<1>11. CASE CloseDown \/ Die
  <2>1. Forget BY <1>11 DEF CloseDown, Die
  <2>2. \/ MappingRun' = Free
        \/ /\ MappingRun'.pc = "finishing" /\ MappingRun'.result = "cancelled"
           /\ MappingRun'.by = MappingRun.by /\ MappingRun'.kind = MappingRun.kind
    <3>1. CASE Die BY <3>1, MappingIsOne DEF Die, MappingRun
    <3>2. CASE CloseDown
      <4>1. run'["mapping"] = IF run["mapping"].pc = "running"
                              THEN [run["mapping"] EXCEPT !.pc = "finishing", !.result = "cancelled"]
                              ELSE Free
        BY <3>2, MappingIsOne DEF CloseDown
      <4>2. QED BY <1>1, <4>1 DEF MappingRun, Runs
    <3>3. QED BY <1>11, <3>1, <3>2
  <2>3. QED BY <1>1, <2>1, <2>2, FreeIs, ForgetKeeps DEF RunsSound, Batch, MappingRun
<1>12. QED
  BY <1>4, <1>6, <1>7, <1>8, <1>9, <1>10, <1>11, UpdateOneKeeps, DeleteOneKeeps, PathFailsKeeps, SyncedKeeps, SyncObserverKeeps,
     TakeBatchKeeps, OnEventKeeps, EditKeeps
  DEF SchedNext, MappingWork, Executes

LEMMA SchedBegins == SchedInit => SchedInv
<1> SUFFICES ASSUME SchedInit PROVE SchedInv OBVIOUS
<1>1. run = [p \in Pipelines |-> Free] /\ MappingRun = Free /\ work = NoWork BY MappingIsOne DEF SchedInit, MappingRun
<1>2. SchedTypes
  <2>1. events \in Seq(Paths \X BOOLEAN) BY DEF SchedInit
  <2>2. mirror \in Files BY DEF SchedInit, Files
  <2>3. QED BY <1>1, <2>1, <2>2, FreeIs, NoWorkIs DEF SchedInit, SchedTypes
<1>3. RunsSound BY <1>1, FreeIs, NoWorkIs DEF RunsSound, Batch, MappingRun
<1>4. ASSUME NEW f \in Paths, f \notin lost PROVE LastTold(f) /\ Told(f) /\ Visited(f)
  <2>1. source[f] = Absent /\ mirror[f] = Absent /\ events = <<>> BY <1>4 DEF SchedInit
  <2>2. QED BY <1>1, <2>1, FreeIs DEF LastTold, Told, IsGone, Visited
<1>5. QED BY <1>2, <1>3, <1>4 DEF SchedInv, PathsTold

(* A mirrored file that differs from its source is always one something     *)
(* still tells of: a pending path, an event on its way, the running sync,   *)
(* or a loss the next full sync is there for                                *)
(* (MonitorScheduler._take_debounced_batch, _on_fs_event and what the       *)
(* mapping loop clears after a full sync), for any tree, changes, failures, *)
(* cancelled and manual runs, and ends of the process.                      *)
THEOREM StaleStaysPending == SchedSpec => []StaleIsPending
<1>1. SchedInv => StaleIsPending
  <2>1. SUFFICES ASSUME SchedInv, NEW f \in Paths, mirror[f] # source[f], f \notin lost PROVE f \in Pending
    BY DEF StaleIsPending
  <2>2. CASE f \in Heard BY <2>2 DEF Heard, Pending
  <2>3. CASE f \notin Heard
    <3>1. Told(f) BY <2>1, <2>3 DEF SchedInv, PathsTold
    <3>2. f \in ToUpdate \/ f \in ToDelete BY <2>1, <3>1 DEF Told, IsGone
    <3>3. QED BY <3>2 DEF ToUpdate, ToDelete, Pending
  <2>4. QED BY <2>2, <2>3
<1>2. SchedInv /\ [SchedNext]_schedVars => SchedInv' BY SchedStepKeeps
<1>3. QED BY <1>1, <1>2, SchedBegins, PTL DEF SchedSpec
==============================================================================
