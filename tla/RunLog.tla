------------------------------- MODULE RunLog -------------------------------
(***************************************************************************)
(* What the event store promises a reader, and nothing of how it does it:  *)
(* the log of a run only ever grows at its end, and the status of a run is *)
(* the fold of its log.  Transactions, row locks and the cached column do  *)
(* not exist here.                                                         *)
(***************************************************************************)
EXTENDS Events

CONSTANT Runs

VARIABLES status,  \* the status a reader sees, Absent before the run exists
          log      \* the events of each run

Init ==
  /\ status = [r \in Runs |-> Absent]
  /\ log = [r \in Runs |-> {}]

\* New events come after every old one; a run, once there, stays.
Extends(r) ==
  /\ log[r] \subseteq log'[r]
  /\ \A old \in log[r], new \in log'[r] \ log[r] : old.seq < new.seq
  /\ status[r] # Absent => status'[r] # Absent

\* A reader can rebuild the status from the log.
Auditable(r) ==
  /\ Sequenced(log'[r])
  /\ IF status'[r] = Absent THEN log'[r] = {} ELSE status'[r] = Replay(log'[r])

Publish == \A r \in Runs : Extends(r) /\ Auditable(r)

Spec == Init /\ [][Publish]_<<status, log>>
=============================================================================
