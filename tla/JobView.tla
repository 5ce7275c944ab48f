------------------------------- MODULE JobView -------------------------------
(***************************************************************************)
(* What the API promises one who reads a job again and again: how its      *)
(* status, the figures of its progress and the number of its results       *)
(* change.  The modules of the API keep it; the dashboard relies on it and *)
(* on nothing else.                                                        *)
(***************************************************************************)
EXTENDS Naturals

Active == {"queued", "running"}
Ended == {"completed", "failed", "cancelled"}

Follows(old, new) ==
  \/ new = old
  \/ old = "queued" /\ new \in {"running", "cancelled"}
  \/ old = "running" /\ new \in Ended

\* The figures are written while the job runs only; results are stored from then
\* on, the last of them when the job has ended, and none is removed.
Advances(old, new) ==
  /\ Follows(old.status, new.status)
  /\ old.status # "running" => new.figures = old.figures
  /\ new.rows >= old.rows /\ (old.status = "queued" => new.rows = old.rows)
==============================================================================
