---------------------------- MODULE MCScheduler -----------------------------
(***************************************************************************)
(* Plans for the model checker: a job with two slots and a timeout of one  *)
(* second, and the same job with another cron.                             *)
(***************************************************************************)
EXTENDS Scheduler

MCShortJob == [slots |-> {1, 2}, timeout |-> 1, enabled |-> TRUE]
MCOtherJob == [slots |-> {1}, timeout |-> 1, enabled |-> TRUE]

MCPlans == {MCShortJob, MCOtherJob}
MCJobs == {MCShortJob}
=============================================================================
