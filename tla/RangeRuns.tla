----------------------------- MODULE RangeRuns ------------------------------
(***************************************************************************)
(* One range of an advisory while its events are read from the store, in   *)
(* the order in which they were stored, and what evaluate_range_events of  *)
(* malicious.rs says of versions by the events read so far.                *)
(***************************************************************************)
EXTENDS AdvisoryEvaluation

CONSTANTS Boundaries,     \* the versions that events name
          RangeVersions,  \* the versions that are asked about
          MaxEvents       \* bound on the events of a range

\* Boundaries that can be compared: versions, and Zero.
ASSUME RangeConstants ==
  Boundaries \subseteq Nat /\ RangeVersions \subseteq Nat /\ MaxEvents \in Nat

VARIABLE events

EventTypes == {"introduced", "fixed", "last_affected", "limit"}
RangeEvent(type, v) == [type |-> type, version |-> v]

RangeInit == events = <<>>

\* The next event of a range that lists them in the order of their versions, and in which
\* introductions alternate with what ends them.
ReadEvent ==
  /\ Len(events) < MaxEvents
  /\ \E type \in EventTypes, v \in Boundaries :
       /\ events # <<>> => v > Last(events).version
       /\ (events = <<>> \/ Last(events).type # "introduced") <=> type = "introduced"
       /\ events' = Append(events, RangeEvent(type, v))

\* Another range.
ReadAnother == events # <<>> /\ events' = <<>>

RangeNext == ReadEvent \/ ReadAnother

RangeSpec == RangeInit /\ [][RangeNext]_events

-----------------------------------------------------------------------------
\* Affected from an introduction until the next event, which ends it.
Interval(v, i) ==
  /\ events[i].type = "introduced" /\ events[i].version <= v
  /\ i < Len(events) =>
       IF events[i + 1].type = "last_affected" THEN v <= events[i + 1].version
       ELSE v < events[i + 1].version

\* For events in the order of their versions, of which introductions and ends alternate, the
\* fold of evaluate_range_events says "inside" exactly within their intervals.
RangeVerdictIsReference ==
  \A v \in RangeVersions :
    (EvaluateRangeEvents(v, events) = Inside)
      <=> \E i \in DOMAIN events : Interval(v, i)
=============================================================================
