-------------------------- MODULE ProductionQueue --------------------------
(***************************************************************************)
(* Production jobs (internal/modules/production, migration 000012).  Staff *)
(* and vendors move jobs through the queue with requests that read a job,  *)
(* check the transition and write unconditionally, stamping started_at and *)
(* completed_at once.                                                      *)
(***************************************************************************)
EXTENDS StoreBase, Naturals, FiniteSets

CONSTANTS
  Jobs,    \* ids that CreateJob draws (bound)
  Staff    \* users a job is assigned to

JobStatus == {"QUEUED", "IN_PROGRESS", "ON_HOLD", "COMPLETED", "CANCELLED"}

jobTransitions ==
  [s \in JobStatus |->
     CASE s = "QUEUED"      -> {"IN_PROGRESS", "CANCELLED"}
       [] s = "IN_PROGRESS" -> {"ON_HOLD", "COMPLETED", "CANCELLED"}
       [] s = "ON_HOLD"     -> {"IN_PROGRESS", "CANCELLED"}
       [] OTHER             -> {}]

CanTransition(s, t) == s \in JobStatus /\ t \in jobTransitions[s]

ASSUME QueueAssumption == None \notin Jobs \cup Staff

VARIABLES
  job,  \* [Jobs -> [status, started, completed, assignee]], status "NONE" without a row
  jobCall  \* [Calls -> [at, job, to]], a request that is about to write

jobVars == <<job, jobCall>>

JobIdle == [at |-> "idle", job |-> None, to |-> "NONE"]

JobInit ==
  /\ job = [j \in Jobs |-> [status |-> "NONE", started |-> FALSE, completed |-> FALSE, assignee |-> None]]
  /\ jobCall = [c \in Calls |-> JobIdle]

-----------------------------------------------------------------------------

\* Nothing keeps an order from having several jobs.
CreateJob(j, s) ==
  /\ job[j].status = "NONE"
  /\ job' = [job EXCEPT ![j] = [@ EXCEPT !.status = "QUEUED", !.assignee = s]]
  /\ UNCHANGED jobCall

\* t is any word of the request.
UpdateJobStatus(c, j, t) ==
  /\ jobCall[c] = JobIdle
  /\ CanTransition(job[j].status, t)
  /\ jobCall' = [jobCall EXCEPT ![c] = [at |-> "status", job |-> j, to |-> t]]
  /\ UNCHANGED job

BugWriteJobStatusResetsStart(c) ==
  LET j == jobCall[c].job IN
  /\ jobCall[c].at = "status"
  /\ job' = [job EXCEPT ![j].status = jobCall[c].to,
                        ![j].started = jobCall[c].to = "IN_PROGRESS",
                        ![j].completed = @ \/ jobCall[c].to = "COMPLETED"]
  /\ jobCall' = [jobCall EXCEPT ![c] = JobIdle]

\* A date once set is kept.
WriteJobStatus(c) ==
  LET j == jobCall[c].job IN
  /\ jobCall[c].at = "status"
  /\ job' = [job EXCEPT ![j].status = jobCall[c].to,
                        ![j].started = @ \/ jobCall[c].to = "IN_PROGRESS",
                        ![j].completed = @ \/ jobCall[c].to = "COMPLETED"]
  /\ jobCall' = [jobCall EXCEPT ![c] = JobIdle]

\* AssignJob, in any status: the read before it decides nothing.
AssignJob(j, s) ==
  /\ job[j].status # "NONE"
  /\ job' = [job EXCEPT ![j].assignee = s]
  /\ UNCHANGED jobCall

JobCrash(c) ==
  /\ jobCall[c] # JobIdle
  /\ jobCall' = [jobCall EXCEPT ![c] = JobIdle]
  /\ UNCHANGED job

JobNext ==
  \/ \E j \in Jobs : \/ \E s \in Staff \cup {None} : CreateJob(j, s)
                     \/ \E s \in Staff : AssignJob(j, s)
  \/ \E c \in Calls :
       \/ \E j \in Jobs, t \in JobStatus \cup {"OTHER"} : UpdateJobStatus(c, j, t)
       \/ WriteJobStatus(c)
       \/ JobCrash(c)

JobSpec == JobInit /\ [][JobNext]_jobVars

-----------------------------------------------------------------------------

\* Shape of the state.  Whatever requests race, a job that is completed or on hold
\* was started, and a completed one has its completion date.
JobTypeOK ==
  /\ job \in [Jobs -> [status : JobStatus \cup {"NONE"}, started : BOOLEAN, completed : BOOLEAN,
                       assignee : Staff \cup {None}]]
  /\ jobCall \in [Calls -> [at : {"idle", "status"}, job : Jobs \cup {None}, to : JobStatus \cup {"NONE"}]]
  /\ \A j \in Jobs :
       /\ job[j].status \in {"IN_PROGRESS", "ON_HOLD", "COMPLETED"} => job[j].started
       /\ job[j].completed => job[j].started
       /\ job[j].status = "COMPLETED" => job[j].completed

=============================================================================
