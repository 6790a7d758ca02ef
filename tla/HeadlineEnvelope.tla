-------------------------- MODULE HeadlineEnvelope --------------------------
(***************************************************************************)
(* From a completed harvest to the envelope a headline task works on.      *)
(*                                                                         *)
(* After a harvest, dispatch_harvest_completion first advances a watermark *)
(* in Redis and then sends the envelope as a task message.  A consumer     *)
(* compares its envelope with the watermark.  Each of the three accesses   *)
(* may fail by itself, dispatchers of different harvests overlap and die   *)
(* between the two, the watermark key expires, messages are reordered,     *)
(* redelivered, lost, or discarded by the broker when they are too old.    *)
(*                                                                         *)
(* An envelope is identified with its ordering key, the completion time of *)
(* its harvest, numbered 1, 2, ...; the window model (HeadlineWindow)      *)
(* takes the envelopes handled here.                                       *)
(***************************************************************************)
EXTENDS Naturals

CONSTANTS Harvests,   \* completed harvests explored (a bound)
          Failures    \* failing Redis or broker accesses (a bound)

ASSUME EnvelopeAssumption == Harvests \in Nat /\ Failures \in Nat

Envelope == 1..Harvests
None     == 0

VARIABLES completed,   \* harvests completed
          pending,     \* dispatches about to write the watermark
          marked,      \* dispatches about to send the message
          watermark,   \* the Redis key, None if absent
          messages,    \* envelopes the broker holds
          working,     \* <<message, envelope>>: the last message consumed
                       \* and the envelope worked on for it
          lost,        \* envelopes whose dispatch died or message was lost
          failures     \* failing accesses so far

vars == <<completed, pending, marked, watermark, messages, working, lost,
          failures>>

TypeOK == /\ completed \in 0..Harvests
          /\ pending \subseteq Envelope /\ marked \subseteq Envelope
          /\ watermark \in Envelope \cup {None}
          /\ messages \subseteq Envelope
          /\ working \in {<<None, None>>} \cup (Envelope \X Envelope)
          /\ lost \subseteq Envelope
          /\ failures \in 0..Failures

Fails == failures < Failures /\ failures' = failures + 1
Works == UNCHANGED failures

-----------------------------------------------------------------------------
Init == /\ completed = 0
        /\ pending = {} /\ marked = {}
        /\ watermark = None
        /\ messages = {} /\ working = <<None, None>>
        /\ lost = {}
        /\ failures = 0

\* An eligible harvest ends (completed or degraded, not a dry run).
Complete == /\ completed < Harvests
            /\ completed' = completed + 1
            /\ pending' = pending \cup {completed + 1}
            /\ UNCHANGED <<marked, watermark, messages, working, lost, failures>>

\* Mutant: the watermark is set without a look at the one that is there.
Overwritten(e) == e

\* update_latest_envelope: WATCH and MULTI make it one step; errors are
\* logged, and the dispatch goes on.
Advanced(e) == IF watermark >= e THEN watermark ELSE e

Mark(e) == /\ e \in pending
           /\ pending' = pending \ {e}
           /\ marked' = marked \cup {e}
           /\ \/ Works /\ watermark' = Advanced(e)
              \/ Fails /\ UNCHANGED watermark
           /\ UNCHANGED <<completed, messages, working, lost>>

\* apply_async; a broker error ends the dispatch.
Send(e) == /\ e \in marked
           /\ marked' = marked \ {e}
           /\ \/ Works /\ messages' = messages \cup {e}
              \/ Fails /\ UNCHANGED messages
           /\ UNCHANGED <<completed, pending, watermark, working, lost>>

\* The harvest process dies before or after it wrote the watermark, which
\* stays; or a message is lost, or not consumed within task_expiry_seconds.
Lose(e) == /\ \/ /\ e \in pending /\ pending' = pending \ {e}
                 /\ UNCHANGED <<marked, messages>>
              \/ /\ e \in marked /\ marked' = marked \ {e}
                 /\ UNCHANGED <<pending, messages>>
              \/ /\ e \in messages /\ messages' = messages \ {e}
                 /\ UNCHANGED <<pending, marked>>
           /\ lost' = lost \cup {e}
           /\ UNCHANGED <<completed, watermark, working, failures>>

\* Mutant: a message as new as the watermark is dropped as well.
CoalescedStrictly(e) == IF watermark >= e THEN None ELSE e

\* coalesce_envelope: what a consumer of `e` works on, None for nothing.
Coalesced(e) == CASE watermark = None -> e
                  [] watermark > e    -> None
                  [] OTHER            -> watermark

Work(e, on) == working' = IF on = None THEN working ELSE <<e, on>>

\* A consumer that cannot read the watermark works on its own envelope.  The
\* message is acknowledged at the end; a redelivery leaves it queued.
Consume(e) == /\ e \in messages
              /\ messages' \in {messages, messages \ {e}}
              /\ \/ Works /\ Work(e, Coalesced(e))
                 \/ Fails /\ Work(e, e)
              /\ UNCHANGED <<completed, pending, marked, watermark, lost>>

\* The key has a time to live of twice the expiry of the messages, or Redis
\* evicts it.
Forget == /\ watermark # None
          /\ Fails
          /\ watermark' = None
          /\ UNCHANGED <<completed, pending, marked, messages, working, lost>>

Next == \/ Complete \/ Forget
        \/ \E e \in Envelope : Mark(e) \/ Send(e) \/ Lose(e) \/ Consume(e)

Spec == Init /\ [][Next]_vars

-----------------------------------------------------------------------------
(* Properties *)

\* The watermark "prevents an outage backlog from making older envelopes
\* reserve slots": as long as nothing failed, no envelope is worked on after
\* a newer one or for the message of a newer one, in whatever order dispatchers
\* overlap and messages arrive.
NeverGoesBack ==
  [][failures' = 0 => working'[2] >= working[2] /\ working'[2] >= working'[1]]_vars

\* No harvest is forgotten by the coalescing: as long as no access failed, the
\* envelope of a completed harvest, or a newer one, is worked on, or on its way,
\* or was itself lost.  (A lost newer one is enough: its watermark makes the
\* consumers of older messages give way to it.)
NoneForgotten == failures = 0 => \A e \in 1..completed :
  \/ working[2] >= e
  \/ \E f \in pending \cup marked \cup messages \cup lost : f >= e

=============================================================================
