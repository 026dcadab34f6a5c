------------------------------ MODULE RunLife -------------------------------
(***************************************************************************)
(* The life of a run, as its committed status tells it: what may follow    *)
(* what, once, and under which condition.  Sessions, jobs, locks and the   *)
(* order of commits do not exist here.  Where the repository promises a    *)
(* life without them (a decided approval that expires no more, an end that *)
(* is final), the steps the code takes all the same are named as races.    *)
(***************************************************************************)
EXTENDS Events

CONSTANT Runs

VARIABLES status,  \* the status of each run, Absent before it has one
          done     \* the milestones of each run that are behind it

\* Each is passed once, by the event with this idempotency key.
Milestones == {"await-approval", "approval:decision", "approval:expired",
               "queued-for-apply", "complete", "fail"}

Init ==
  /\ status = [r \in Runs |-> Absent]
  /\ done = [r \in Runs |-> {}]

Pass(r, milestones, s) ==
  /\ milestones \cap done[r] = {}
  /\ done'[r] = done[r] \cup milestones
  /\ status'[r] = s

\* `idemra run' has asked somebody, or nobody had to be asked, or it has failed.
Open(r) ==
  /\ status[r] = Absent
  /\ \/ Pass(r, {"await-approval"}, "awaiting_approval")
     \/ Pass(r, {"queued-for-apply"}, "queued")
     \/ Pass(r, {"fail"}, "failed")

\* One answer, in time or, as a race with the sweep, right after it has given up.
Decide(r) ==
  /\ "await-approval" \in done[r]
  /\ status[r] \in {"awaiting_approval", "stale"}
  /\ \/ Pass(r, {"approval:decision", "queued-for-apply"}, "queued")
     \/ Pass(r, {"approval:decision"}, "rejected")

\* The sweep gives up: on an open question or, as a race, on one answered since.
Expire(r) ==
  /\ "await-approval" \in done[r]
  /\ Pass(r, {"approval:expired"}, "stale")

\* A job that found the run queued.  The run may have expired since, or, as a
\* race of two jobs, have ended the other way.
Apply(r) ==
  /\ "queued-for-apply" \in done[r] /\ status[r] \in {"queued", "stale", "failed"}
  /\ Pass(r, {"complete"}, "completed")

Refuse(r) ==
  /\ "queued-for-apply" \in done[r] /\ status[r] \in {"queued", "stale", "completed"}
  /\ Pass(r, {"fail"}, "failed")

Step(r) == Open(r) \/ Decide(r) \/ Expire(r) \/ Apply(r) \/ Refuse(r)

\* One commit may move several runs, each by one step.
Next == \A r \in Runs : Step(r) \/ UNCHANGED <<status[r], done[r]>>

Spec == Init /\ [][Next]_<<status, done>>
=============================================================================
