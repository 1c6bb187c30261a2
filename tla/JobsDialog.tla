----------------------------- MODULE JobsDialog -----------------------------
(***************************************************************************)
(* The dialog with the jobs of one printer (pp-jobs-dialog.c): a thread    *)
(* fetches the list whenever a job comes or goes, and its answer waits in  *)
(* the main loop (cups_get_jobs_async of pp-utils.c).  The dialog is freed *)
(* by an idle source that waits until no answer is outstanding.            *)
(***************************************************************************)
EXTENDS Integers, SequencesExt

CONSTANTS
  Jobs,          \* the ids of the jobs that the printer may get, in this order
  InitialJobs,   \* how many of them it has when the dialog is opened
  MaxJobChanges  \* how often the printer, another client or the user changes a job

ASSUME JobsAssumption == Jobs \in Nat \ {0} /\ InitialJobs \in 0..Jobs

VARIABLES
  jobs_dialog,  \* PpJobsDialog and its widgets
  fetching,     \* threads that did not read the jobs yet
  fetched,      \* what the others read, in the order in which the main loop gets it
  job_signals,  \* JobCreated and JobCompleted signals on their way
  queue,        \* the printer's jobs and how many it had so far
  job_changes

jobsVars == <<jobs_dialog, fetching, fetched, job_signals, queue, job_changes>>

NoJob == -1
ActiveStates == {"pending", "held", "processing", "stopped"}

-----------------------------------------------------------------------------
\* job_selection_changed_cb: the buttons allow what the state of the selected job allows.
JobSelectionChanged(d, id) ==
  LET shown == {i \in DOMAIN d.jobs : d.jobs[i].id = id}
      state == IF shown = {} THEN "none" ELSE d.jobs[CHOOSE i \in shown : TRUE].state
  IN [d EXCEPT !.current_job_id = id,
               !.release = state = "held",
               !.hold = state = "pending",
               !.cancel = state \in ActiveStates]

\* update_jobs_list_cb: the job that was selected, or else the next one, or the last.
Selection(jobs, current) ==
  LET next == {i \in DOMAIN jobs : jobs[i].id >= current}
  IN IF jobs = <<>> THEN NoJob
     ELSE IF current = NoJob THEN jobs[1].id
     ELSE IF next = {} THEN jobs[Len(jobs)].id
     ELSE jobs[CHOOSE i \in next : \A j \in next : i <= j].id

\* Mutant: the buttons stay as they are.
ListKeepsButtons(d, jobs) ==
  [d EXCEPT !.jobs = jobs, !.ref_count = @ - 1, !.current_job_id = Selection(jobs, @)]

UpdateJobsListCb(d, jobs) ==
  LET emptied == JobSelectionChanged([d EXCEPT !.jobs = jobs, !.ref_count = @ - 1], NoJob)
      selected == Selection(jobs, d.current_job_id)
  IN IF selected = NoJob THEN emptied ELSE JobSelectionChanged(emptied, selected)

\* update_jobs_list
UpdateJobsList ==
  /\ jobs_dialog' = [jobs_dialog EXCEPT !.ref_count = @ + 1]
  /\ fetching' = fetching + 1

-----------------------------------------------------------------------------
\* cups_get_jobs_func
FetchJobs ==
  /\ fetching > 0
  /\ fetching' = fetching - 1
  /\ fetched' = Append(fetched, queue.jobs)
  /\ UNCHANGED <<jobs_dialog, job_signals, queue, job_changes>>

\* cups_get_jobs_idle_cb
JobsFetched ==
  /\ fetched # <<>>
  /\ jobs_dialog' = UpdateJobsListCb(jobs_dialog, Head(fetched))
  /\ fetched' = Tail(fetched)
  /\ UNCHANGED <<fetching, job_signals, queue, job_changes>>

\* The panel updates the dialog it still has.
JobSignalHandled ==
  /\ job_signals > 0
  /\ job_signals' = job_signals - 1
  /\ IF jobs_dialog.state = "open" THEN UpdateJobsList ELSE UNCHANGED <<jobs_dialog, fetching>>
  /\ UNCHANGED <<fetched, queue, job_changes>>

SelectJob(i) ==
  /\ jobs_dialog.state = "open" /\ i \in DOMAIN jobs_dialog.jobs
  /\ jobs_dialog' = JobSelectionChanged(jobs_dialog, jobs_dialog.jobs[i].id)
  /\ UNCHANGED <<fetching, fetched, job_signals, queue, job_changes>>

\* The jobs after job id became state, "gone" when it ended; CUPS tells of ended jobs only.
QueueBecomes(id, state) ==
  LET i == CHOOSE k \in DOMAIN queue.jobs : queue.jobs[k].id = id
  IN /\ queue' = [queue EXCEPT !.jobs = IF state = "gone" THEN RemoveAt(@, i)
                                        ELSE [@ EXCEPT ![i].state = state]]
     /\ job_signals' = IF state = "gone" THEN job_signals + 1 ELSE job_signals
Active(id) == \E k \in DOMAIN queue.jobs : queue.jobs[k].id = id
StateOf(id) == queue.jobs[CHOOSE k \in DOMAIN queue.jobs : queue.jobs[k].id = id].state

\* job_process_cb: the request, which CUPS refuses when the job's state does not allow it,
\* and every button is off until the next selection
JobProcess(button) ==
  LET id == jobs_dialog.current_job_id
      after == CASE button = "cancel" -> "gone" [] button = "hold" -> "held" [] OTHER -> "pending"
      allowed == CASE button = "hold" -> {"pending"} [] button = "release" -> {"held"}
                   [] OTHER -> ActiveStates
  IN /\ jobs_dialog.state = "open" /\ jobs_dialog[button] /\ job_changes < MaxJobChanges
     /\ IF id # NoJob /\ Active(id) /\ StateOf(id) \in allowed THEN QueueBecomes(id, after)
        ELSE UNCHANGED <<queue, job_signals>>
     /\ jobs_dialog' = [jobs_dialog EXCEPT !.release = FALSE, !.hold = FALSE, !.cancel = FALSE]
     /\ job_changes' = job_changes + 1
     /\ UNCHANGED <<fetching, fetched>>

\* jobs_dialog_response_cb: hidden, forgotten by the panel, and freed by an idle source
CloseJobsDialog ==
  /\ jobs_dialog.state = "open"
  /\ jobs_dialog' = [jobs_dialog EXCEPT !.state = "closing"]
  /\ UNCHANGED <<fetching, fetched, job_signals, queue, job_changes>>

\* pp_jobs_dialog_free_idle
FreeJobsDialog ==
  /\ jobs_dialog.state = "closing" /\ jobs_dialog.ref_count = 0
  /\ jobs_dialog' = [jobs_dialog EXCEPT !.state = "freed"]
  /\ UNCHANGED <<fetching, fetched, job_signals, queue, job_changes>>

-----------------------------------------------------------------------------
JobComes ==
  /\ queue.last < Jobs /\ job_changes < MaxJobChanges
  /\ queue' = [jobs |-> Append(queue.jobs, [id |-> queue.last + 1, state |-> "pending"]),
               last |-> queue.last + 1]
  /\ job_signals' = job_signals + 1 /\ job_changes' = job_changes + 1
  /\ UNCHANGED <<jobs_dialog, fetching, fetched>>

JobMoves(k, state) ==
  /\ job_changes < MaxJobChanges /\ k \in DOMAIN queue.jobs /\ queue.jobs[k].state # state
  /\ QueueBecomes(queue.jobs[k].id, state)
  /\ job_changes' = job_changes + 1
  /\ UNCHANGED <<jobs_dialog, fetching, fetched>>

\* pp_jobs_dialog_new starts the first fetch.
JobsInit ==
  /\ jobs_dialog = [state |-> "open", jobs |-> <<>>, current_job_id |-> NoJob, release |-> FALSE,
                    hold |-> FALSE, cancel |-> FALSE, ref_count |-> 1]
  /\ fetching = 1 /\ fetched = <<>> /\ job_signals = 0 /\ job_changes = 0
  /\ queue = [jobs |-> [i \in 1..InitialJobs |-> [id |-> i, state |-> "pending"]],
              last |-> InitialJobs]

JobsAnswers == FetchJobs \/ JobsFetched \/ JobSignalHandled \/ FreeJobsDialog
JobsUser ==
  \/ \E i \in 1..Jobs : SelectJob(i)
  \/ \E button \in {"release", "hold", "cancel"} : JobProcess(button)
  \/ CloseJobsDialog
JobsOthers == JobComes \/ \E k \in 1..Jobs, state \in ActiveStates \cup {"gone"} : JobMoves(k, state)
JobsNext == JobsAnswers \/ JobsUser \/ JobsOthers
=============================================================================
