------------------------- MODULE AdvisoryEvaluation -------------------------
(***************************************************************************)
(* What the OSV store of malicious.rs answers about a version: how an      *)
(* advisory document is stored, which stored occurrences match the         *)
(* version, how findings of one advisory are merged, and how the answer of *)
(* a batch is put together.                                                *)
(*                                                                         *)
(* One package of one ecosystem is in view.  Its versions are positive     *)
(* numbers in the order of their ecosystem (module VersionOrder is about   *)
(* that order); a range boundary is a version, Zero (the literal "0") or   *)
(* Unparsable, which no comparison accepts.                                *)
(***************************************************************************)
EXTENDS PolicyDecision

Zero == 0
Unparsable == -1
Malformed == -2      \* a recognised CVSS vector that cannot be scored

\* An advisory: [id, mal, withdrawn, affected], `affected` a sequence of
\* [here, versions, ranges, severity]: whether the entry is about this package, the
\* versions it lists, its ranges [supported, events], and its effective severity.

-----------------------------------------------------------------------------
(* replace_advisory: what the store keeps of a document. *)

StoredScore(doc, entry) == IF doc.mal \/ entry.severity < 0 THEN Unknown ELSE entry.severity
SeverityFailed(doc, entry) == ~doc.mal /\ entry.severity = Malformed

\* The occurrences of an advisory: nothing of a withdrawn one.
Occurrences(doc) ==
  IF doc.withdrawn THEN {}
  ELSE {[finding  |-> [id |-> doc.id, mal |-> doc.mal, score |-> StoredScore(doc, entry),
                       failed |-> SeverityFailed(doc, entry)],
         versions |-> entry.versions,
         ranges   |-> entry.ranges] : entry \in {e \in Range(doc.affected) : e.here}}

Stored(docs) == UNION {Occurrences(doc) : doc \in docs}

-----------------------------------------------------------------------------
(* evaluate_range_events: the events in stored order. *)

Outside == "outside"
Inside == "inside"
Undecided == "error"

AtLeast(v, boundary) == v >= boundary
Above(v, boundary) == v > boundary

\* What one event makes of the verdict so far; boundaries are compared only when needed.
AfterEvent(v, verdict, event) ==
  LET unless(ok, test, then, otherwise) ==
        IF ~ok THEN Undecided ELSE IF test THEN then ELSE otherwise
      comparable == event.version # Unparsable
  IN CASE verdict = Undecided -> Undecided
       [] verdict # Undecided /\ event.type = "introduced" ->
            unless(comparable, AtLeast(v, event.version), Inside, verdict)
       [] verdict # Undecided /\ event.type \in {"fixed", "limit"} ->
            IF verdict = Outside THEN Outside
            ELSE unless(comparable, AtLeast(v, event.version), Outside, Inside)
       [] verdict # Undecided /\ event.type = "last_affected" ->
            IF verdict = Outside THEN Outside
            ELSE unless(comparable, Above(v, event.version), Outside, Inside)
       [] OTHER -> Undecided

EvaluateRangeEvents(v, events) ==
  LET after[n \in 0..Len(events)] ==
        IF n = 0 THEN Outside ELSE AfterEvent(v, after[n - 1], events[n])
  IN after[Len(events)]

\* A range type that the ecosystem does not compare is an error for every version.
RangeMatches(v, range) ==
  IF range.supported THEN EvaluateRangeEvents(v, range.events) ELSE Undecided

-----------------------------------------------------------------------------
(* exact_hits, range_hits and consolidate_local_findings. *)

ExactHits(occurrences, v) == {o.finding : o \in {p \in occurrences : v \in p.versions}}

RangeHits(occurrences, v) ==
  {o.finding : o \in {p \in occurrences :
                        \E r \in Range(p.ranges) : RangeMatches(v, r) = Inside}}

\* One finding per advisory: the highest score, and an error when any part of it failed.
Consolidated(findings) ==
  {[id     |-> f.id,
    mal    |-> f.mal,
    score  |-> LET scores == {g.score : g \in {h \in findings : h.id = f.id}}
               IN CHOOSE s \in scores : \A t \in scores : t <= s,
    failed |-> \E g \in findings : g.id = f.id /\ g.failed] : f \in findings}

\* Any range that cannot be evaluated fails the check, whatever else matches.
RangeFails(occurrences, v) ==
  \E o \in occurrences : \E r \in Range(o.ranges) : RangeMatches(v, r) = Undecided

Hits(occurrences, v) ==
  Consolidated(ExactHits(occurrences, v) \cup RangeHits(occurrences, v))

Check(occurrences, v) ==
  IF RangeFails(occurrences, v) THEN CheckFailed ELSE Findings(Hits(occurrences, v))

\* One answer for a whole batch: an error of one version is the error of all.
CheckMany(occurrences, versions) ==
  [ok      |-> \A i \in DOMAIN versions : ~RangeFails(occurrences, versions[i]),
   results |-> [i \in DOMAIN versions |-> Hits(occurrences, versions[i])]]
=============================================================================
