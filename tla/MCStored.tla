------------------------------- MODULE MCStored -------------------------------
(* What the fill actor plans, and what it and the monitor keep in the database,  *)
(* decide about merges and write to the work volume, one of these parts at work  *)
(* in a behaviour.                                                               *)
EXTENDS FillActorPlans, FillActorTables, CloudPlanning, ConfigStore, SchemaMigrations,
        AutoMerge, MergeWorker, TLC

\* The plans: an actor with two titles, one of which two videos of one name are of;
\* the second change of the settings names another staging directory.
CONSTANTS actor, v1, v2, f1, f2, name, stage1, stage2

MCListedBy == actor :> {v1, v2}
MCVideoTitle == f1 :> v1 @@ f2 :> v1
MCNameOf == f1 :> name @@ f2 :> name
MCPlanStaging == <<stage1, stage1, stage2>>

\* The tables: a plan of a local and of two cloud candidates, these of one source.
CONSTANTS lc, cc, dd, src, src1, dst

MCSourceOf == lc :> src1 @@ cc :> src @@ dd :> src
MCDestinationOf == [c \in {lc, cc, dd} |-> dst]
MCSelections == {{lc, cc}, {cc, dd}, {}}

\* Two titles with two mappings each, one of them broken, and one with none.
CONSTANTS w1, w2, w3, k1, k2, k3, k4, d1, d2, st, n1, n2

MCOrder == <<w1, w2, w3>>
MCVideoOf == k1 :> w1 @@ k2 :> w1 @@ k3 :> w2 @@ k4 :> w2
MCTargetOf == k1 :> <<d1, n1>> @@ k2 :> <<d2, n1>> @@ k3 :> <<d1, n2>> @@ k4 :> NoTarget
MCStagingOf == [w \in {w1, w2, w3} |-> st]
MCArrivals == {<<d1, n1>>, <<st, n2>>}

\* The settings: a replica of the new release beside one of the old.
CONSTANTS r1, r2

MCRelease == r1 :> 1 @@ r2 :> 2

\* Only the new release is asked for a client.
OneClient == client[r1] = NoClient

\* The merges: two titles in one library that two routes feed, whole at first.
CONSTANTS t1, t2, clt, vr, lib

MCMultiPart == <<t1, t2>>
MCRoutes == <<clt, vr>>
MCLibraryOf == clt :> lib @@ vr :> lib
MCHeldIn == t1 :> lib @@ t2 :> lib
MCFetchedBy == t1 :> clt @@ t2 :> vr

\* The worker: files whose streams are in order, out of order, with data, or sound only.
MCLayouts == {<<Video, Audio>>, <<Audio, Video>>, <<Video, Data, Audio>>, <<Audio>>}

VARIABLE subject
storedVars == <<subject, plansVars, tableVars, planningVars, configVars, migrationVars, autoVars, workerVars>>

\* What a call of the repository returned decides nothing.
NoReply ==
    <<subject, plansVars, planTables, jobRows, applyRows, planningVars, configVars, migrationVars, autoVars, workerVars>>

\* A part that is not at work stays in one of its initial states.
StoredInit ==
    /\ subject \in {"plans", "tables", "cloud", "config", "schema", "auto", "worker"}
    /\ (subject # "plans" => place = [f \in Files |-> "extra"]) /\ PlansInit
    /\ TablesInit /\ ConfigInit
    /\ (subject # "cloud" => onCloud = {}) /\ PlanningInit
    /\ (subject # "schema" => failed = {} /\ old = CHOOSE o \in Old : TRUE) /\ MigrationsInit
    /\ cloud = [t \in MergeTitles |-> "parts"] /\ AutoInit
    /\ (subject # "worker" => part = [i \in 1..Parts |-> [layout |-> <<Audio>>, size |-> 1]]) /\ WorkerInit

StoredNext ==
    /\ UNCHANGED subject
    /\ \/ subject = "plans" /\ PlansNext
          /\ UNCHANGED <<tableVars, planningVars, configVars, migrationVars, autoVars, workerVars>>
       \/ subject = "tables" /\ TablesNext
          /\ UNCHANGED <<plansVars, planningVars, configVars, migrationVars, autoVars, workerVars>>
       \/ subject = "cloud" /\ PlanningNext
          /\ UNCHANGED <<plansVars, tableVars, configVars, migrationVars, autoVars, workerVars>>
       \/ subject = "config" /\ ConfigNext
          /\ UNCHANGED <<plansVars, tableVars, planningVars, migrationVars, autoVars, workerVars>>
       \/ subject = "schema" /\ MigrationsNext
          /\ UNCHANGED <<plansVars, tableVars, planningVars, configVars, autoVars, workerVars>>
       \/ subject = "auto" /\ AutoNext
          /\ UNCHANGED <<plansVars, tableVars, planningVars, configVars, migrationVars, workerVars>>
       \/ subject = "worker" /\ WorkerNext
          /\ UNCHANGED <<plansVars, tableVars, planningVars, configVars, migrationVars, autoVars>>

StoredSpec == StoredInit /\ [][StoredNext]_storedVars
===============================================================================
