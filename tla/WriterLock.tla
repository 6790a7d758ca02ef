------------------------------ MODULE WriterLock ------------------------------
(***************************************************************************)
(* The harvest writer lock (harvest_writer_lock): one advisory lock of the *)
(* database that scheduled live harvests and the pages of a backfill take  *)
(* turns at.  A backfill page only tries the lock.  A live harvest that    *)
(* finds the lock taken looks at the owner: behind a backfill page it      *)
(* queues for a limited time, otherwise it gives its tick up.              *)
(*                                                                         *)
(* The lock itself is the database's: it is freed when its session ends,   *)
(* handed to the first in the queue, and not given to a try past a queue.  *)
(***************************************************************************)
EXTENDS Naturals, Sequences

CONSTANTS Backfillers,  \* processes that execute a backfill job
          Lives,        \* processes of scheduled live harvests
          NoOne,        \* owner of the free lock
          MaxTicks      \* live ticks altogether (a bound)

ASSUME LockAssumption == /\ NoOne \notin Backfillers \cup Lives
                         /\ Backfillers \cap Lives = {}
                         /\ MaxTicks \in Nat

VARIABLES owner,  \* session that holds the advisory lock
          queue,  \* sessions waiting in pg_advisory_lock
          live,   \* what each live harvest is doing
          ticks,  \* live ticks so far
          ahead   \* history: backfill requests since the live harvest waits

lockVars == <<owner, queue, live, ticks, ahead>>

LockTypeOK ==
  /\ owner \in Backfillers \cup Lives \cup {NoOne}
  /\ queue \in Seq(Lives)
  /\ live \in [Lives -> {"idle", "missed", "retrying", "missedTwice",
                         "queueing", "waiting", "harvesting"}]
  /\ ticks \in 0..MaxTicks
  /\ ahead \in [Lives -> Nat]

LockInit == /\ owner = NoOne /\ queue = <<>>
            /\ live = [h \in Lives |-> "idle"]
            /\ ticks = 0
            /\ ahead = [h \in Lives |-> 0]

-----------------------------------------------------------------------------
(* The advisory lock *)

Available == owner = NoOne /\ queue = <<>>

\* The owner's session unlocks or ends.
HandOver == IF queue = <<>> THEN owner' = NoOne /\ UNCHANGED queue
                            ELSE owner' = Head(queue) /\ queue' = Tail(queue)

\* backfill_yield_requested
YieldRequested == queue # <<>>

-----------------------------------------------------------------------------
(* A live harvest *)

Become(h, s) == live' = [live EXCEPT ![h] = s]

\* pg_try_advisory_lock, at first and once more.
LiveTry(h) ==
  /\ \/ live[h] = "idle" /\ ticks < MaxTicks /\ ticks' = ticks + 1
     \/ live[h] = "retrying" /\ UNCHANGED ticks
  /\ IF Available
     THEN owner' = h /\ Become(h, "harvesting")
     ELSE /\ UNCHANGED owner
          /\ Become(h, IF live[h] = "idle" THEN "missed" ELSE "missedTwice")
  /\ UNCHANGED <<queue, ahead>>

\* Look at the owner: try again if there is none, wait behind a backfill, give
\* up otherwise.
LiveInspect(h) ==
  /\ live[h] \in {"missed", "missedTwice"}
  /\ \/ owner = NoOne /\ live[h] = "missed" /\ Become(h, "retrying")
     \/ owner \in Backfillers /\ Become(h, "queueing")
     \/ /\ owner \in Lives \/ (owner = NoOne /\ live[h] = "missedTwice")
        /\ Become(h, "idle")
  /\ UNCHANGED <<owner, queue, ticks, ahead>>

\* Mutant: the harvest polls the lock instead of queueing for it.
LiveQueuePolls(h) ==
  /\ live[h] = "queueing"
  /\ IF Available THEN owner' = h /\ Become(h, "harvesting")
                  ELSE UNCHANGED owner /\ Become(h, "waiting")
  /\ UNCHANGED <<queue, ticks, ahead>>

\* pg_advisory_lock, whoever holds the lock by now.
LiveQueue(h) ==
  /\ live[h] = "queueing"
  /\ IF Available
     THEN owner' = h /\ UNCHANGED queue /\ Become(h, "harvesting")
     ELSE queue' = Append(queue, h) /\ UNCHANGED owner /\ Become(h, "waiting")
  /\ UNCHANGED <<ticks, ahead>>

LiveGranted(h) ==
  /\ live[h] = "waiting" /\ owner = h
  /\ Become(h, "harvesting")
  /\ ahead' = [ahead EXCEPT ![h] = 0]
  /\ UNCHANGED <<owner, queue, ticks>>

\* lock_timeout: the wait ends with an error of the database.
LiveTimesOut(h) ==
  /\ live[h] = "waiting" /\ owner # h
  /\ Become(h, "idle")
  /\ \E i \in DOMAIN queue :
       queue[i] = h /\ queue' = SubSeq(queue, 1, i - 1)
                                 \o SubSeq(queue, i + 1, Len(queue))
  /\ ahead' = [ahead EXCEPT ![h] = 0]
  /\ UNCHANGED <<owner, ticks>>

\* The harvest ends, or its session does.
LiveEnds(h) ==
  /\ live[h] = "harvesting"
  /\ HandOver
  /\ Become(h, "idle")
  /\ UNCHANGED <<ticks, ahead>>

LiveNext == \E h \in Lives : \/ LiveTry(h) \/ LiveInspect(h) \/ LiveQueue(h)
                             \/ LiveGranted(h) \/ LiveTimesOut(h) \/ LiveEnds(h)

=============================================================================
