----------------------------- MODULE Executor ------------------------------
(***************************************************************************)
(* WindowsExecutor (daemon/src/adapters/windows_executor.rs): the action   *)
(* kinds that may run only one at a time are guarded by a semaphore of one *)
(* permit each.  A permit is moved into the blocking task or the script    *)
(* monitor that uses it, so it comes back when THAT ends, not when the     *)
(* caller stops waiting.                                                   *)
(*                                                                         *)
(* A job is a running blocking task or script monitor.  Its owner is the   *)
(* task still awaiting its result, or Detached once nobody does.           *)
(***************************************************************************)
EXTENDS Naturals

CONSTANTS
  Task,      \* tasks that call execute
  Detached   \* owner of a job nobody waits for

ASSUME DetachedAssumption == Detached \notin Task

VARIABLES
  permits,   \* available permits of each semaphore
  jobs       \* running blocking tasks and script monitors

execVars == <<permits, jobs>>

Guarded == {"media", "elevated", "script"}

Job == [kind: Guarded, owner: Task \cup {Detached}]

ExecInit ==
  /\ permits = [k \in Guarded |-> 1]
  /\ jobs = {}

-----------------------------------------------------------------------------

\* try_acquire_owned finds no permit: the caller gets ExecutorError::Busy.
Refused(k) ==
  /\ k \in Guarded
  /\ permits[k] = 0
  /\ UNCHANGED execVars

\* Take the permit of kind k and hand it to a job of the given owner.
Spawn(k, owner) ==
  /\ k \in Guarded
  /\ permits[k] > 0
  /\ permits' = [permits EXCEPT ![k] = @ - 1]
  /\ jobs' = jobs \cup {[kind |-> k, owner |-> owner]}

\* Media and elevated launches run in spawn_blocking and are awaited.
SpawnAwaited(t, k) == k \in {"media", "elevated"} /\ Spawn(k, t)

\* A script is started, handed to its monitor task, and execute returns at
\* once.
SpawnScript(k) == k = "script" /\ Spawn(k, Detached)

\* Starting the process failed, or the script was refused: the permit taken is
\* dropped again on the error return.
SpawnFailed(k) ==
  /\ \/ k = "script" /\ permits[k] > 0
     \/ k = "launch"
  /\ UNCHANGED execVars

\* A plain launch takes no permit and leaves nothing to wait for.
SpawnLaunch(k) == k = "launch" /\ UNCHANGED execVars

\* Faulty variant: the permit goes with the caller instead of the job.
AbandonReleases(t) ==
  \E j \in jobs :
    /\ j.owner = t
    /\ jobs' = (jobs \ {j}) \cup {[kind |-> j.kind, owner |-> Detached]}
    /\ permits' = [permits EXCEPT ![j.kind] = @ + 1]

\* The awaiting future is dropped (HTTP timeout) or gives up (elevated launch
\* timeout): the job runs on.
Abandon(t) ==
  \E j \in jobs :
    /\ j.owner = t
    /\ jobs' = (jobs \ {j}) \cup {[kind |-> j.kind, owner |-> Detached]}
    /\ UNCHANGED permits

\* The blocking closure returned, the script exited, or the monitor killed it
\* after SCRIPT_TIMEOUT: the permit is dropped in every case.
EndJob(j) ==
  /\ j \in jobs
  /\ jobs' = jobs \ {j}
  /\ permits' = [permits EXCEPT ![j.kind] = @ + 1]

-----------------------------------------------------------------------------

ExecTypeOK ==
  /\ permits \in [Guarded -> Nat]
  /\ jobs \subseteq Job

\* At most one action of each guarded kind runs, whoever gave up waiting for
\* it, and a permit is available exactly when none does: windows_executor.rs
\* moves the permit into the job.
OneJobPerPermit ==
  /\ \A j1, j2 \in jobs : j1.kind = j2.kind => j1 = j2
  /\ \A k \in Guarded :
       permits[k] = IF \E j \in jobs : j.kind = k THEN 0 ELSE 1

=============================================================================
