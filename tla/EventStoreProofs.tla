-------------------------- MODULE EventStoreProofs --------------------------
(***************************************************************************)
(* What the event store guarantees, for any number of runs and processes:  *)
(* the inductive invariant StoreInv, the cached status as the fold of the  *)
(* log, and the refinement of RunLog.                                      *)
(***************************************************************************)
EXTENDS EventStore, TLAPS

-----------------------------------------------------------------------------
(* Logs. *)

\* _next_seq on a sound log: a positive number above every seq, and the next
\* after one of them.
LEMMA NextSeqIsNext ==
  ASSUME NEW L \in SUBSET Event, Sound(L)
  PROVE  /\ NextSeq(L) \in Nat \ {0}
         /\ \A d \in L : d.seq < NextSeq(L)
         /\ NextSeq(L) = 1 \/ \E d \in L : d.seq = NextSeq(L) - 1
<1>1. CASE L = {}
  BY <1>1 DEF NextSeq
<1>2. CASE L # {}
  <2>1. \E e \in L : \A d \in L : d.seq <= e.seq
    BY <1>2 DEF Sound
  <2>2. Latest(L) \in L /\ \A d \in L : d.seq <= Latest(L).seq
    BY <2>1 DEF Latest
  <2>3. NextSeq(L) = Latest(L).seq + 1
    BY <1>2 DEF NextSeq
  <2>4. \A d \in L : d.seq \in Nat \ {0}
    BY DEF Event
  <2> QED
    BY <2>2, <2>3, <2>4
<1> QED
  BY <1>1, <1>2

\* Appending an event with the next seq and an unused key keeps a log sound.
LEMMA AppendKeepsSound ==
  ASSUME NEW L \in SUBSET Event, Sound(L),
         NEW n \in Event, n.seq = NextSeq(L), \A d \in L : d.key # n.key
  PROVE  Sound(L \cup {n})
<1> DEFINE M == L \cup {n}
<1>1. /\ \A d \in L : d.seq < n.seq
      /\ n.seq = 1 \/ \E d \in L : d.seq = n.seq - 1
  BY NextSeqIsNext
<1>2. \A d \in M : d.seq \in Nat \ {0}
  BY DEF Event
<1>3. \A d, e \in M : (d.seq = e.seq \/ d.key = e.key) => d = e
  BY <1>1, <1>2 DEF Sound, Sequenced
<1>4. \A e \in M : e.seq = 1 \/ \E d \in M : d.seq = e.seq - 1
  BY <1>1 DEF Sound, Sequenced
<1>5. \A d \in M : d.seq <= n.seq
  BY <1>1, <1>2
<1> QED
  BY <1>3, <1>4, <1>5 DEF Sound, Sequenced

\* The event above all the others is the latest.
LEMMA GreatestIsLatest ==
  ASSUME NEW S \in SUBSET Event, NEW n \in S, \A d \in S : d = n \/ d.seq < n.seq
  PROVE  Latest(S) = n
<1>1. \A d \in S : d.seq \in Nat
  BY DEF Event
<1>2. \A d \in S : d.seq <= n.seq
  BY <1>1
<1>3. Latest(S) \in S /\ \A d \in S : d.seq <= Latest(S).seq
  BY <1>2 DEF Latest
<1>4. n.seq <= Latest(S).seq /\ (Latest(S) = n \/ Latest(S).seq < n.seq)
  BY <1>3
<1> QED
  BY <1>1, <1>3, <1>4

\* The fold of a log that ends in a new event: the status it carries, or the
\* fold of the log before it when it is not a status_changed.
LEMMA ReplayAppend ==
  ASSUME NEW L \in SUBSET Event, NEW n \in Event, \A d \in L : d.seq < n.seq
  PROVE  Replay(L \cup {n}) = IF n.type = "status_changed" THEN n.status ELSE Replay(L)
<1>1. CASE n.type = "status_changed"
  <2>1. /\ n \in StatusEvents(L \cup {n})
        /\ StatusEvents(L \cup {n}) \in SUBSET Event
        /\ \A d \in StatusEvents(L \cup {n}) : d = n \/ d.seq < n.seq
    BY <1>1 DEF StatusEvents
  <2>2. Latest(StatusEvents(L \cup {n})) = n
    BY <2>1, GreatestIsLatest
  <2> QED
    BY <1>1, <2>1, <2>2 DEF Replay
<1>2. CASE n.type # "status_changed"
  <2>1. StatusEvents(L \cup {n}) = StatusEvents(L)
    BY <1>2 DEF StatusEvents
  <2> QED
    BY <1>2, <2>1 DEF Replay
<1> QED
  BY <1>1, <1>2

-----------------------------------------------------------------------------
(* The steps of the store. *)

\* The empty store satisfies the invariant.
LEMMA InitInv == StoreInit => StoreInv
<1> SUFFICES ASSUME StoreInit PROVE StoreInv
  OBVIOUS
<1> USE DEF StoreInit, NoWrites, NoEvents
<1>1. StoreTypeOK
  BY DEF StoreTypeOK, Absent
<1>2. OneOwner /\ WritersOwn /\ EventsHaveRun /\ NewAfterOld
  BY DEF OneOwner, WritersOwn, EventsHaveRun, NewAfterOld, OwnsRun
<1>3. LogsSound
  BY DEF LogsSound, SeenLog, Sound, Sequenced
<1>4. StatusMatchesLog /\ DirtyMatchesLog
  BY DEF StatusMatchesLog, DirtyMatchesLog, OwnsRun
<1> QED
  BY <1>1, <1>2, <1>3, <1>4 DEF StoreInv

\* What a transaction sees is a set of events.
LEMMA SeenLogType ==
  ASSUME StoreTypeOK, NEW p \in Procs, NEW r \in Runs
  PROVE  SeenLog(p, r) \in SUBSET Event
BY DEF StoreTypeOK, SeenLog

\* p appends the event n to the log it sees of r, whose fold becomes st.
Appends(p, r, n, st) ==
  /\ dirtyEvents' = [dirtyEvents EXCEPT ![p][r] = @ \cup {n}]
  /\ \A e \in SeenLog(p, r) : e.seq < n.seq
  /\ Sound(SeenLog(p, r) \cup {n})
  /\ Replay(SeenLog(p, r) \cup {n}) = st

\* The INSERT of an event is such an append.
LEMMA InsertEventAppends ==
  ASSUME StoreInv,
         NEW p \in Procs, NEW r \in Runs, NEW t \in EventTypes,
         NEW s \in Statuses \cup {NoStatus}, NEW k \in Keys,
         InsertEvent(p, r, t, s, k)
  PROVE  \E n \in Event :
           Appends(p, r, n, IF t = "status_changed" THEN s ELSE Replay(SeenLog(p, r)))
<1> DEFINE L == SeenLog(p, r)
           n == NewEvent(p, r, t, s, k)
<1>1. L \in SUBSET Event /\ Sound(L)
  BY SeenLogType DEF StoreInv, LogsSound
<1>2. /\ NextSeq(L) \in Nat \ {0}
      /\ \A d \in L : d.seq < NextSeq(L)
  BY <1>1, NextSeqIsNext
<1>3. /\ n.seq = NextSeq(L) /\ n.type = t /\ n.status = s /\ n.key = k
      /\ n \in Event
  BY <1>2 DEF NewEvent, Event
<1>4. \A d \in L : d.key # n.key
  BY <1>3 DEF InsertEvent, KeyUsed
<1>5. Sound(L \cup {n})
  BY <1>1, <1>3, <1>4, AppendKeepsSound
<1>6. Replay(L \cup {n}) = IF t = "status_changed" THEN s ELSE Replay(L)
  BY <1>1, <1>2, <1>3, ReplayAppend
<1>7. dirtyEvents' = [dirtyEvents EXCEPT ![p][r] = @ \cup {n}]
  BY DEF InsertEvent
<1>8. \A e \in L : e.seq < n.seq
  BY <1>2, <1>3
<1>9. Appends(p, r, n, IF t = "status_changed" THEN s ELSE Replay(L))
  BY <1>5, <1>6, <1>7, <1>8 DEF Appends
<1> QED
  BY <1>3, <1>9

\* A process that holds the row of a run, or takes it when it is free,
\* inserts one event and leaves the status the event says.
LEMMA WriteKeepsInv ==
  ASSUME StoreInv, NEW p \in Procs, NEW r \in Runs,
         RunRowFree(p, r), UNCHANGED committed,
         NEW n \in Event, NEW st \in Statuses, Appends(p, r, n, st),
         dirtyRuns' = [dirtyRuns EXCEPT ![p][r] = st],
         dirtyApprovals' \in [Procs -> [Runs -> ApprovalStatuses \cup {Absent}]]
  PROVE  StoreInv'
<1>0. StoreTypeOK /\ UNCHANGED <<runs, approvals, events>>
  BY DEF StoreInv, committed
<1>1. /\ dirtyEvents' \in [Procs -> [Runs -> SUBSET Event]]
      /\ dirtyEvents'[p][r] = dirtyEvents[p][r] \cup {n}
      /\ \A q \in Procs, u \in Runs : q # p \/ u # r => dirtyEvents'[q][u] = dirtyEvents[q][u]
  BY <1>0 DEF StoreTypeOK, Appends
<1>2. /\ dirtyRuns' \in [Procs -> [Runs -> Statuses \cup {Absent}]]
      /\ dirtyRuns'[p][r] = st
      /\ \A q \in Procs, u \in Runs : q # p \/ u # r => dirtyRuns'[q][u] = dirtyRuns[q][u]
  BY <1>0 DEF StoreTypeOK
<1>3. st # Absent
  BY DEF Statuses, Absent
<1>4. /\ SeenLog(p, r)' = SeenLog(p, r) \cup {n}
      /\ \A q \in Procs, u \in Runs : q # p \/ u # r => SeenLog(q, u)' = SeenLog(q, u)
  BY <1>0, <1>1 DEF SeenLog
<1>5. StoreTypeOK'
  BY <1>0, <1>1, <1>2 DEF StoreTypeOK
<1>6. OneOwner'
  BY <1>2, <1>3 DEF StoreInv, OneOwner, OwnsRun, RunRowFree
<1>7. WritersOwn'
  <2> SUFFICES ASSUME NEW q \in Procs, NEW u \in Runs, dirtyEvents'[q][u] # {}
               PROVE  dirtyRuns'[q][u] # Absent
    BY DEF WritersOwn, OwnsRun
  <2>1. CASE q = p /\ u = r
    BY <1>2, <1>3, <2>1
  <2>2. CASE q # p \/ u # r
    <3>1. dirtyEvents[q][u] # {}
      BY <1>1, <2>2
    <3>2. dirtyRuns[q][u] # Absent
      BY <3>1 DEF StoreInv, WritersOwn, OwnsRun
    <3> QED
      BY <1>2, <2>2, <3>2
  <2> QED
    BY <2>1, <2>2
<1>8. EventsHaveRun' /\ StatusMatchesLog'
  BY <1>0 DEF StoreInv, EventsHaveRun, StatusMatchesLog
<1>9. NewAfterOld'
  <2> SUFFICES ASSUME NEW q \in Procs, NEW u \in Runs,
                      NEW d \in dirtyEvents'[q][u], NEW e \in events[u]
               PROVE  e.seq < d.seq
    BY <1>0 DEF NewAfterOld
  <2>1. CASE d \in dirtyEvents[q][u]
    BY <2>1 DEF StoreInv, NewAfterOld
  <2>2. CASE q = p /\ u = r /\ d = n
    BY <1>1, <2>2 DEF SeenLog, Appends, Appends
  <2> QED
    BY <1>1, <2>1, <2>2
<1>10. LogsSound'
  BY <1>0, <1>4 DEF StoreInv, LogsSound, Appends
<1>11. DirtyMatchesLog'
  <2> SUFFICES ASSUME NEW q \in Procs, NEW u \in Runs, dirtyRuns'[q][u] # Absent
               PROVE  dirtyRuns'[q][u] = Replay(SeenLog(q, u)')
    BY DEF DirtyMatchesLog, OwnsRun, Replay, StatusEvents, Latest
  <2>1. CASE q = p /\ u = r
    BY <1>2, <1>4, <2>1 DEF Appends
  <2>2. CASE q # p \/ u # r
    BY <1>2, <1>4, <2>2 DEF StoreInv, DirtyMatchesLog, OwnsRun
  <2> QED
    BY <2>1, <2>2
<1> QED
  BY <1>5, <1>6, <1>7, <1>8, <1>9, <1>10, <1>11 DEF StoreInv

\* create_run keeps the invariant.
LEMMA CreateKeepsInv ==
  ASSUME StoreInv, NEW p \in Procs, NEW r \in Runs, CreateStep(p, r)
  PROVE  StoreInv'
<1>0. StoreTypeOK /\ UNCHANGED <<runs, approvals, events, dirtyApprovals, dirtyEvents>>
  BY DEF StoreInv, CreateStep, InsertRun
<1>1. runs[r] = Absent /\ \A q \in Procs : ~OwnsRun(q, r)
  BY DEF CreateStep, Fresh
<1>2. /\ dirtyRuns' \in [Procs -> [Runs -> Statuses \cup {Absent}]]
      /\ dirtyRuns'[p][r] = "pending"
      /\ \A q \in Procs, u \in Runs : q # p \/ u # r => dirtyRuns'[q][u] = dirtyRuns[q][u]
  BY <1>0 DEF StoreTypeOK, CreateStep, InsertRun, Statuses
<1>3. events[r] = {} /\ dirtyEvents[p][r] = {}
  BY <1>1 DEF StoreInv, EventsHaveRun, WritersOwn
<1>4. Replay(SeenLog(p, r)) = "pending"
  BY <1>3 DEF SeenLog, Replay, StatusEvents
<1>5. \A q \in Procs, u \in Runs : SeenLog(q, u)' = SeenLog(q, u)
  BY <1>0 DEF SeenLog
<1>6. StoreTypeOK'
  BY <1>0, <1>2 DEF StoreTypeOK
<1>7. OneOwner'
  BY <1>1, <1>2 DEF StoreInv, OneOwner, OwnsRun
<1>8. WritersOwn'
  BY <1>0, <1>2 DEF StoreInv, WritersOwn, OwnsRun, Absent
<1>9. EventsHaveRun' /\ NewAfterOld' /\ StatusMatchesLog'
  BY <1>0 DEF StoreInv, EventsHaveRun, NewAfterOld, StatusMatchesLog
<1>10. LogsSound'
  BY <1>0, <1>5 DEF StoreInv, LogsSound
<1>11. DirtyMatchesLog'
  BY <1>2, <1>4, <1>5 DEF StoreInv, DirtyMatchesLog, OwnsRun
<1> QED
  BY <1>6, <1>7, <1>8, <1>9, <1>10, <1>11 DEF StoreInv

\* record_event, by the owner of the run, keeps it.
LEMMA RecordKeepsInv ==
  ASSUME StoreInv, NEW p \in Procs, NEW r \in Runs, RecordStep(p, r)
  PROVE  StoreInv'
<1> PICK t \in EventTypes \ {"status_changed"}, k \in Keys : RecordEvent(p, r, t, k)
  BY DEF RecordStep
<1>1. InsertEvent(p, r, t, NoStatus, k) /\ UNCHANGED <<committed, dirtyRuns, dirtyApprovals>>
  BY DEF RecordEvent, committed
<1>2. OwnsRun(p, r) /\ StoreTypeOK
  BY DEF RecordStep, StoreInv
<1>3. RunRowFree(p, r)
  BY <1>2 DEF StoreInv, OneOwner, RunRowFree
<1>4. dirtyRuns[p][r] = Replay(SeenLog(p, r)) /\ dirtyRuns[p][r] \in Statuses
  BY <1>2 DEF StoreInv, StoreTypeOK, DirtyMatchesLog, OwnsRun
<1>5. dirtyRuns' = [dirtyRuns EXCEPT ![p][r] = dirtyRuns[p][r]]
  BY <1>1, <1>2 DEF StoreTypeOK
<1>6. PICK n \in Event : Appends(p, r, n, dirtyRuns[p][r])
  BY <1>1, <1>4, InsertEventAppends
<1>7. dirtyApprovals' \in [Procs -> [Runs -> ApprovalStatuses \cup {Absent}]]
  BY <1>1, <1>2 DEF StoreTypeOK
<1> QED
  BY <1>1, <1>3, <1>4, <1>5, <1>6, <1>7, WriteKeepsInv

\* _write_status_event keeps it, with the approval written along.
LEMMA TransitionKeepsInv ==
  ASSUME StoreInv, NEW p \in Procs, NEW r \in Runs, TransitionStep(p, r)
  PROVE  StoreInv'
<1> PICK s \in Statuses, k \in Keys : WriteStatusEvent(p, r, s, k)
  BY DEF TransitionStep
<1>1. /\ InsertEvent(p, r, "status_changed", s, k) /\ RunRowFree(p, r)
      /\ dirtyRuns' = [dirtyRuns EXCEPT ![p][r] = s] /\ UNCHANGED committed
  BY DEF WriteStatusEvent
<1>2. dirtyApprovals' \in [Procs -> [Runs -> ApprovalStatuses \cup {Absent}]]
  <2>1. dirtyApprovals \in [Procs -> [Runs -> ApprovalStatuses \cup {Absent}]]
    BY DEF StoreInv, StoreTypeOK
  <2>2. CASE UNCHANGED dirtyApprovals
    BY <2>1, <2>2
  <2>3. CASE \E a \in ApprovalStatuses : SetApproval(p, r, a)
    BY <2>1, <2>3 DEF SetApproval
  <2> QED
    BY <2>2, <2>3 DEF TransitionStep
<1>3. PICK n \in Event : Appends(p, r, n, s)
  BY <1>1, InsertEventAppends DEF EventTypes
<1> QED
  BY <1>1, <1>2, <1>3, WriteKeepsInv

\* A write of an approval alone keeps it.
LEMMA ApprovalKeepsInv ==
  ASSUME StoreInv, NEW p \in Procs, NEW r \in Runs, ApprovalStep(p, r)
  PROVE  StoreInv'
<1>1. /\ UNCHANGED <<runs, approvals, events, dirtyRuns, dirtyEvents>>
      /\ dirtyApprovals' \in [Procs -> [Runs -> ApprovalStatuses \cup {Absent}]]
  BY DEF ApprovalStep, SetApproval, StoreInv, StoreTypeOK
<1>2. \A q \in Procs, u \in Runs : SeenLog(q, u)' = SeenLog(q, u) /\ OwnsRun(q, u)' = OwnsRun(q, u)
  BY <1>1 DEF SeenLog, OwnsRun
<1>3. StoreTypeOK' /\ OneOwner' /\ WritersOwn' /\ EventsHaveRun' /\ NewAfterOld'
  BY <1>1, <1>2 DEF StoreInv, StoreTypeOK, OneOwner, WritersOwn, EventsHaveRun, NewAfterOld
<1>4. LogsSound' /\ StatusMatchesLog' /\ DirtyMatchesLog'
  BY <1>1, <1>2 DEF StoreInv, LogsSound, StatusMatchesLog, DirtyMatchesLog
<1> QED
  BY <1>3, <1>4 DEF StoreInv

\* What the end of a transaction leaves to the process that ends it.
LEMMA DiscardClears ==
  ASSUME StoreTypeOK, NEW p \in Procs, Discard(p)
  PROVE  /\ dirtyRuns' \in [Procs -> [Runs -> Statuses \cup {Absent}]]
         /\ dirtyApprovals' \in [Procs -> [Runs -> ApprovalStatuses \cup {Absent}]]
         /\ dirtyEvents' \in [Procs -> [Runs -> SUBSET Event]]
         /\ \A r \in Runs : ~OwnsRun(p, r)' /\ dirtyEvents'[p][r] = {}
         /\ \A q \in Procs \ {p}, r \in Runs :
              /\ dirtyEvents'[q][r] = dirtyEvents[q][r]
              /\ dirtyRuns'[q][r] = dirtyRuns[q][r]
BY DEF StoreTypeOK, Discard, NoWrites, NoEvents, OwnsRun, Absent

\* A rollback keeps it.
LEMMA RollbackKeepsInv ==
  ASSUME StoreInv, NEW p \in Procs, Rollback(p)
  PROVE  StoreInv'
<1>0. StoreTypeOK /\ Discard(p) /\ UNCHANGED <<runs, approvals, events>>
  BY DEF StoreInv, Rollback, committed
<1>1. /\ dirtyRuns' \in [Procs -> [Runs -> Statuses \cup {Absent}]]
      /\ dirtyApprovals' \in [Procs -> [Runs -> ApprovalStatuses \cup {Absent}]]
      /\ dirtyEvents' \in [Procs -> [Runs -> SUBSET Event]]
      /\ \A r \in Runs : ~OwnsRun(p, r)' /\ dirtyEvents'[p][r] = {}
      /\ \A q \in Procs \ {p}, r \in Runs :
           dirtyEvents'[q][r] = dirtyEvents[q][r] /\ dirtyRuns'[q][r] = dirtyRuns[q][r]
  BY <1>0, DiscardClears
<1>2. /\ \A r \in Runs : SeenLog(p, r)' = events[r] /\ dirtyRuns'[p][r] = Absent
      /\ \A q \in Procs \ {p}, r \in Runs : SeenLog(q, r)' = SeenLog(q, r)
  BY <1>0, <1>1 DEF SeenLog, OwnsRun
<1>a. \A q \in Procs, r \in Runs :
        dirtyRuns'[q][r] # Absent => q # p /\ dirtyRuns[q][r] # Absent
  BY <1>1, <1>2
<1>3. StoreTypeOK'
  BY <1>0, <1>1 DEF StoreTypeOK
<1>4. OneOwner'
  BY <1>a DEF StoreInv, OneOwner, OwnsRun
<1>5. WritersOwn'
  <2> SUFFICES ASSUME NEW q \in Procs, NEW u \in Runs, dirtyEvents'[q][u] # {}
               PROVE  dirtyRuns'[q][u] # Absent
    BY DEF WritersOwn, OwnsRun
  <2>1. q # p
    BY <1>1
  <2> QED
    BY <1>1, <2>1 DEF StoreInv, WritersOwn, OwnsRun
<1>6. EventsHaveRun' /\ StatusMatchesLog'
  BY <1>0 DEF StoreInv, EventsHaveRun, StatusMatchesLog
<1>7. NewAfterOld'
  BY <1>0, <1>1 DEF StoreInv, NewAfterOld
<1>8. LogsSound'
  BY <1>0, <1>1, <1>2 DEF StoreInv, LogsSound
<1>9. DirtyMatchesLog'
  BY <1>1, <1>2 DEF StoreInv, DirtyMatchesLog, OwnsRun
<1> QED
  BY <1>3, <1>4, <1>5, <1>6, <1>7, <1>8, <1>9 DEF StoreInv

\* The owner of a row publishes its status and its events together; nobody
\* else had written the run.
LEMMA CommitKeepsInv ==
  ASSUME StoreInv, NEW p \in Procs, Commit(p)
  PROVE  /\ StoreInv'
         /\ \A r \in Runs : ~OwnsRun(p, r) => runs'[r] = runs[r] /\ events'[r] = events[r]
         /\ \A r \in Runs : OwnsRun(p, r) => runs'[r] = dirtyRuns[p][r]
<1>0. /\ StoreTypeOK /\ Discard(p)
      /\ runs' = Overwrite(runs, dirtyRuns[p])
      /\ approvals' = Overwrite(approvals, dirtyApprovals[p])
      /\ events' = [r \in Runs |-> SeenLog(p, r)]
  BY DEF StoreInv, Commit
<1>1. /\ dirtyRuns' \in [Procs -> [Runs -> Statuses \cup {Absent}]]
      /\ dirtyApprovals' \in [Procs -> [Runs -> ApprovalStatuses \cup {Absent}]]
      /\ dirtyEvents' \in [Procs -> [Runs -> SUBSET Event]]
      /\ \A r \in Runs : ~OwnsRun(p, r)' /\ dirtyEvents'[p][r] = {}
      /\ \A q \in Procs \ {p}, r \in Runs :
           dirtyEvents'[q][r] = dirtyEvents[q][r] /\ dirtyRuns'[q][r] = dirtyRuns[q][r]
  BY <1>0, DiscardClears
<1>2. \A r \in Runs : ~OwnsRun(p, r) =>
        runs'[r] = runs[r] /\ events'[r] = events[r] /\ SeenLog(p, r) = events[r]
  BY <1>0 DEF Overwrite, OwnsRun, SeenLog, StoreInv, WritersOwn
<1>3. \A r \in Runs : OwnsRun(p, r) =>
        runs'[r] = dirtyRuns[p][r] /\ events'[r] = SeenLog(p, r)
  BY <1>0 DEF Overwrite, OwnsRun
<1>4. \A q \in Procs, r \in Runs :
        dirtyRuns'[q][r] # Absent => q # p /\ dirtyRuns[q][r] # Absent
  BY <1>1 DEF OwnsRun
<1>5. \A q \in Procs \ {p}, r \in Runs : OwnsRun(p, r) => ~OwnsRun(q, r) /\ dirtyEvents[q][r] = {}
  BY DEF StoreInv, OneOwner, WritersOwn
<1>6. \A r \in Runs : SeenLog(p, r)' = SeenLog(p, r)
  BY <1>0, <1>1 DEF SeenLog
<1>7. \A q \in Procs \ {p}, r \in Runs :
        SeenLog(q, r)' = IF OwnsRun(p, r) THEN SeenLog(p, r) ELSE SeenLog(q, r)
  BY <1>1, <1>2, <1>3, <1>5 DEF SeenLog
<1>8. StoreTypeOK'
  <2>1. runs' \in [Runs -> Statuses \cup {Absent}]
    BY <1>0 DEF StoreTypeOK, Overwrite
  <2>2. approvals' \in [Runs -> ApprovalStatuses \cup {Absent}]
    BY <1>0 DEF StoreTypeOK, Overwrite
  <2>3. events' \in [Runs -> SUBSET Event]
    BY <1>0, SeenLogType
  <2> QED
    BY <1>1, <2>1, <2>2, <2>3 DEF StoreTypeOK
<1>9. OneOwner'
  BY <1>4 DEF StoreInv, OneOwner, OwnsRun
<1>10. WritersOwn'
  <2> SUFFICES ASSUME NEW q \in Procs, NEW u \in Runs, dirtyEvents'[q][u] # {}
               PROVE  dirtyRuns'[q][u] # Absent
    BY DEF WritersOwn, OwnsRun
  <2>1. q # p
    BY <1>1
  <2> QED
    BY <1>1, <2>1 DEF StoreInv, WritersOwn, OwnsRun
<1>11. EventsHaveRun'
  <2> SUFFICES ASSUME NEW r \in Runs, events'[r] # {} PROVE runs'[r] # Absent
    BY DEF EventsHaveRun
  <2> QED
    BY <1>2, <1>3 DEF StoreInv, EventsHaveRun, OwnsRun
<1>12. NewAfterOld'
  <2> SUFFICES ASSUME NEW q \in Procs, NEW u \in Runs,
                      NEW d \in dirtyEvents'[q][u], NEW e \in events'[u]
               PROVE  e.seq < d.seq
    BY DEF NewAfterOld
  <2>1. q # p /\ d \in dirtyEvents[q][u]
    BY <1>1
  <2>2. ~OwnsRun(p, u) /\ e \in events[u]
    BY <1>2, <1>5, <2>1
  <2> QED
    BY <2>1, <2>2 DEF StoreInv, NewAfterOld
<1>13. LogsSound'
  <2>1. \A r \in Runs : Sound(events'[r])
    BY <1>0 DEF StoreInv, LogsSound
  <2>2. \A q \in Procs, r \in Runs : Sound(SeenLog(q, r)')
    BY <1>6, <1>7 DEF StoreInv, LogsSound
  <2> QED
    BY <2>1, <2>2 DEF LogsSound, Sound, Sequenced
<1>14. StatusMatchesLog'
  <2> SUFFICES ASSUME NEW r \in Runs, runs'[r] # Absent PROVE runs'[r] = Replay(events'[r])
    BY DEF StatusMatchesLog, Replay, StatusEvents, Latest
  <2>1. CASE OwnsRun(p, r)
    BY <1>3, <2>1 DEF StoreInv, DirtyMatchesLog
  <2>2. CASE ~OwnsRun(p, r)
    BY <1>2, <2>2 DEF StoreInv, StatusMatchesLog
  <2> QED
    BY <2>1, <2>2
<1>15. DirtyMatchesLog'
  <2> SUFFICES ASSUME NEW q \in Procs, NEW r \in Runs, dirtyRuns'[q][r] # Absent
               PROVE  dirtyRuns'[q][r] = Replay(SeenLog(q, r)')
    BY DEF DirtyMatchesLog, OwnsRun, Replay, StatusEvents, Latest
  <2>1. q # p /\ dirtyRuns[q][r] # Absent /\ ~OwnsRun(p, r)
    BY <1>4, <1>5 DEF OwnsRun
  <2> QED
    BY <1>1, <1>7, <2>1 DEF StoreInv, DirtyMatchesLog, OwnsRun
<1> QED
  BY <1>2, <1>3, <1>8, <1>9, <1>10, <1>11, <1>12, <1>13, <1>14, <1>15 DEF StoreInv

\* No step of a client, and no stuttering, breaks the invariant.
LEMMA StepKeepsInv == StoreInv /\ [StoreNext]_storeVars => StoreInv'
<1> SUFFICES ASSUME StoreInv, [StoreNext]_storeVars PROVE StoreInv'
  OBVIOUS
<1>1. CASE UNCHANGED storeVars
  BY <1>1 DEF storeVars, StoreInv, StoreTypeOK, OneOwner, WritersOwn, EventsHaveRun, NewAfterOld,
              LogsSound, StatusMatchesLog, DirtyMatchesLog, OwnsRun, SeenLog
<1>2. ASSUME NEW p \in Procs, NEW r \in Runs, CreateStep(p, r) PROVE StoreInv'
  BY <1>2, CreateKeepsInv
<1>3. ASSUME NEW p \in Procs, NEW r \in Runs, RecordStep(p, r) PROVE StoreInv'
  BY <1>3, RecordKeepsInv
<1>4. ASSUME NEW p \in Procs, NEW r \in Runs, TransitionStep(p, r) PROVE StoreInv'
  BY <1>4, TransitionKeepsInv
<1>5. ASSUME NEW p \in Procs, NEW r \in Runs, ApprovalStep(p, r) PROVE StoreInv'
  BY <1>5, ApprovalKeepsInv
<1>6. ASSUME NEW p \in Procs, Commit(p) PROVE StoreInv'
  BY <1>6, CommitKeepsInv
<1>7. ASSUME NEW p \in Procs, Rollback(p) PROVE StoreInv'
  BY <1>7, RollbackKeepsInv
<1> QED
  BY <1>1, <1>2, <1>3, <1>4, <1>5, <1>6, <1>7 DEF StoreNext

\* The inductive invariant of the store (runs.py:83-105, 174-179).
THEOREM StoreInvariant == StoreSpec => []StoreInv
BY InitInv, StepKeepsInv, PTL DEF StoreSpec

\* runs.py:12-15: whatever the interleaving of transactions, the committed
\* runs.status is the fold of the committed log.
THEOREM CacheIsFold == StoreSpec => []StatusMatchesLog
<1>1. StoreInv => StatusMatchesLog
  BY DEF StoreInv
<1> QED
  BY <1>1, StoreInvariant, PTL

-----------------------------------------------------------------------------
(* The refinement. *)

\* The committed rows of a sound store are auditable in the sense of RunLog.
LEMMA InvAuditable ==
  ASSUME StoreInv', NEW r \in Runs
  PROVE  RL!Auditable(r)
<1>1. Sound(events'[r])
  BY DEF StoreInv, LogsSound, Sound, Sequenced
<1>2. RL!Sequenced(events'[r])
  BY <1>1 DEF Sound, Sequenced, RL!Sequenced
<1>3. runs'[r] # Absent => runs'[r] = Replay(events'[r])
  BY DEF StoreInv, StatusMatchesLog, Replay, StatusEvents, Latest
<1>4. Replay(events'[r]) = RL!Replay(events'[r]) /\ RL!Absent = Absent
  BY DEF Replay, StatusEvents, Latest, RL!Replay, RL!StatusEvents, RL!Latest, Absent, RL!Absent
<1>5. runs'[r] = Absent => events'[r] = {}
  BY DEF StoreInv, EventsHaveRun
<1> QED
  BY <1>2, <1>3, <1>4, <1>5 DEF RL!Auditable

\* Every step of the store publishes, or is not seen at all.
LEMMA StepRefines == StoreInv /\ StoreInv' /\ [StoreNext]_storeVars => [RL!Publish]_<<runs, events>>
<1> SUFFICES ASSUME StoreInv, StoreInv', [StoreNext]_storeVars
             PROVE  [RL!Publish]_<<runs, events>>
  OBVIOUS
<1>1. ASSUME NEW p \in Procs, Commit(p) PROVE RL!Publish
  <2>1. /\ \A r \in Runs : ~OwnsRun(p, r) => runs'[r] = runs[r] /\ events'[r] = events[r]
        /\ \A r \in Runs : OwnsRun(p, r) => runs'[r] = dirtyRuns[p][r]
    BY <1>1, CommitKeepsInv
  <2>2. \A r \in Runs : events'[r] = events[r] \cup dirtyEvents[p][r]
    BY <1>1 DEF Commit, SeenLog
  <2> SUFFICES ASSUME NEW r \in Runs PROVE RL!Extends(r) /\ RL!Auditable(r)
    BY DEF RL!Publish
  <2>3. \A old \in events[r], new \in events'[r] \ events[r] : old.seq < new.seq
    BY <2>2 DEF StoreInv, NewAfterOld
  <2>4. runs[r] # Absent => runs'[r] # Absent
    BY <2>1 DEF OwnsRun
  <2> QED
    BY <2>2, <2>3, <2>4, InvAuditable DEF RL!Extends, RL!Absent, Absent
<1>2. ASSUME NEW p \in Procs, ~Commit(p),
             \/ \E r \in Runs : CreateStep(p, r) \/ RecordStep(p, r) \/ TransitionStep(p, r)
                                \/ ApprovalStep(p, r)
             \/ Rollback(p)
      PROVE  UNCHANGED <<runs, events>>
  BY <1>2 DEF CreateStep, InsertRun, RecordStep, RecordEvent, TransitionStep, WriteStatusEvent,
              ApprovalStep, Rollback, committed
<1> QED
  BY <1>1, <1>2 DEF StoreNext, storeVars

\* The transactions implement the log a reader is promised: it grows only at
\* its end, seqs are gapless, keys unique, and the status is its fold.
THEOREM StoreImplementsRunLog == StoreSpec => RefinesRunLog
<1>1. StoreInit => RL!Init
  BY DEF StoreInit, NoWrites, NoEvents, RL!Init, RL!Absent, Absent
<1> QED
  BY <1>1, StoreInvariant, StepRefines, PTL DEF StoreSpec, RefinesRunLog, RL!Spec
=============================================================================
