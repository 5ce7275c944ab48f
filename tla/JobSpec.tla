------------------------------- MODULE JobSpec -------------------------------
(***************************************************************************)
(* What the API promises about a job, independent of processes, leases and *)
(* crashes: `queued -> running -> completed | failed | cancelled`, a       *)
(* timeline that ends with the one outcome, and removal with the project.  *)
(***************************************************************************)
EXTENDS Sequences

CONSTANT Job

VARIABLES
  status,   \* the status a client reads
  audit     \* terminal events of the job's timeline

Outcome == {"completed", "failed", "cancelled"}

Init ==
  /\ status = [j \in Job |-> "absent"]
  /\ audit = [j \in Job |-> <<>>]

Create(j) ==
  /\ status[j] = "absent"
  /\ status' = [status EXCEPT ![j] = "queued"]
  /\ UNCHANGED audit

Start(j) ==
  /\ status[j] = "queued"
  /\ status' = [status EXCEPT ![j] = "running"]
  /\ UNCHANGED audit

\* A queued job can only be cancelled; completed and failed need a start.
End(j, outcome) ==
  /\ status[j] = "running" \/ (status[j] = "queued" /\ outcome = "cancelled")
  /\ status' = [status EXCEPT ![j] = outcome]
  /\ UNCHANGED audit

\* The outcome is announced once, and as it is.
Announce(j) ==
  /\ status[j] \in Outcome /\ audit[j] = <<>>
  /\ audit' = [audit EXCEPT ![j] = <<status[j]>>]
  /\ UNCHANGED status

Delete(j) ==
  /\ status[j] # "deleted"
  /\ status' = [status EXCEPT ![j] = "deleted"]
  /\ audit' = [audit EXCEPT ![j] = <<>>]

Next ==
  \E j \in Job :
    \/ Create(j) \/ Start(j) \/ Announce(j) \/ Delete(j)
    \/ \E outcome \in Outcome : End(j, outcome)

Spec == Init /\ [][Next]_<<status, audit>>
=============================================================================
