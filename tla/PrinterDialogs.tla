--------------------------- MODULE PrinterDialogs ---------------------------
(***************************************************************************)
(* The modal dialogs of the printers panel.  The panel opens one at a time *)
(* and none of them reads the state of another: a behaviour is one life of *)
(* one of them, and the other one stays as it was created.                 *)
(***************************************************************************)
EXTENDS NewPrinter, JobsDialog

VARIABLE opened   \* the dialog that the panel opened

dialogsVars == <<newPrinterVars, jobsVars, opened>>

Init ==
  /\ NewPrinterInit /\ JobsInit
  /\ opened \in {"new_printer", "jobs"}
Next ==
  \/ opened = "new_printer" /\ NewPrinterNext /\ UNCHANGED <<jobsVars, opened>>
  \/ opened = "jobs" /\ JobsNext /\ UNCHANGED <<newPrinterVars, opened>>

\* Every call of the addition is answered, by the service or by the time limit of D-Bus, and
\* threads end; nobody has to act for that.
Fairness ==
  WF_dialogsVars(opened = "new_printer" /\ AddAnswers /\ UNCHANGED <<jobsVars, opened>>)
Spec == Init /\ [][Next]_dialogsVars /\ Fairness

-----------------------------------------------------------------------------
(***************************************************************************)
(* Properties.                                                             *)
(***************************************************************************)

\* The lists hold known devices under names, the steps of the addition and of the part that
\* takes several steps are known ones, and the list of jobs is in the order of their ids.
DialogsTypeOK ==
  /\ \A list \in {dialog.devices, dialog.new_devices} : \A i \in DOMAIN list :
       list[i].uri \in Devices /\ list[i].name.index \in Nat \ {0}
  /\ dialog.selected \in 0..Len(dialog.rows)
  /\ pending.backend \in 0..Backends /\ Len(pending.groups) <= Backends
  /\ add.calls \cap add.finished = {} /\ add.refused \subseteq add.finished
  /\ add.step \in {"none", "ppd", "missing", "files", "packages"} /\ add.files >= 0
  /\ jobs_dialog.ref_count >= 0
  /\ \A i, j \in DOMAIN jobs_dialog.jobs : i < j => jobs_dialog.jobs[i].id < jobs_dialog.jobs[j].id

\* What the user adds is the device of the selected row, under a name no other row has; it
\* never takes the place of another printer, unless the name was given before the printers were
\* known or another client took it meanwhile; and when the dialog answers OK the printer
\* exists, is configured in every part, and accepts jobs and is enabled unless that was
\* refused, if no other client touched it.
Disturbed(n) == n \in ToSet(others) \cup dialog.early
AddInstallsSelected ==
  /\ DialogsTypeOK
  /\ \A i, j \in DOMAIN (dialog.devices \o dialog.new_devices) :
       LET all == dialog.devices \o dialog.new_devices IN all[i].name = all[j].name => i = j
  /\ add.uri = add.chosen
  /\ add.overwrites => Disturbed(add.name)
  /\ (dialog.response = "ok" /\ ~Disturbed(add.name)) =>
       /\ add.name \in DOMAIN queues /\ queues[add.name].uri = add.chosen
       /\ Parts \ (IF Info[add.uri].network THEN {"autoconfigure"} ELSE {}) \subseteq add.finished
       /\ "accept" \in add.refused \/ queues[add.name].accepting
       /\ "enable" \in add.refused \/ queues[add.name].enabled

\* No answer is handled after what its handler works on is gone: the dialog that the panel
\* dropped, the record that the five parts of the configuration share, the jobs dialog.
HandlersHaveTheirData ==
  /\ (pending.dests \/ pending.backend > 0 \/ pending.groups # <<>> \/ pending.hosts # {})
     => dialog.open /\ dialog.shown
  /\ (At("complete") /\ ~add.cancelled) => dialog.open
  /\ add.calls # {} => add.data = "live"
  /\ (fetching + Len(fetched) > 0) => jobs_dialog.state # "freed"

\* Once the user pressed Add the dialog answers, unless the panel is gone.
AddIsAnswered ==
  (opened = "new_printer" /\ dialog.open /\ ~dialog.shown) ~> (~dialog.open)

\* A button works on the selected job, and in the list that is shown the job's state allows
\* what the button asks for.
JobButtonsMatchJob ==
  LET selected == {i \in DOMAIN jobs_dialog.jobs : jobs_dialog.jobs[i].id = jobs_dialog.current_job_id}
      shows(states) == \E i \in selected : jobs_dialog.jobs[i].state \in states
  IN /\ jobs_dialog.release => shows({"held"})
     /\ jobs_dialog.hold => shows({"pending"})
     /\ jobs_dialog.cancel => shows(ActiveStates)
     /\ jobs_dialog.jobs # <<>> <=> jobs_dialog.current_job_id # NoJob
=============================================================================
