------------------------ MODULE ConditionalResponse -------------------------
(***************************************************************************)
(* Conditional and partial answers to a listing request: cargo.rs and      *)
(* maven.rs answer If-None-Match, rubygems.rs also Range and If-Range.     *)
(* An entity tag is a hash of the filtered body; here it is the body       *)
(* itself, a sequence of lines, and a range counts lines instead of bytes. *)
(***************************************************************************)
EXTENDS Integers, Sequences

NoRange == [first |-> -1, last |-> -1]       \* no Range header
Unbounded == -1

\* An If-None-Match or If-Range header: absent, "*", or the tag of a body.
NoTag == [kind |-> "none", of |-> <<>>]
AnyTag == [kind |-> "any", of |-> <<>>]
TagOf(body) == [kind |-> "tag", of |-> body]

Full(body) == [status |-> 200, body |-> body, start |-> 0, digest |-> body]
NotModified(body) == [status |-> 304, body |-> <<>>, start |-> 0, digest |-> body]
Unsatisfiable(body) == [status |-> 416, body |-> <<>>, start |-> 0, digest |-> body]
Partial(body, first, last) ==
  [status |-> 206, body |-> SubSeq(body, first + 1, last + 1), start |-> first, digest |-> body]

\* As a tag would match that hashed no more than the number of lines.
TagMatchesLength(body, tag) == tag.kind = "tag" /\ Len(tag.of) = Len(body)

\* apply_if_none_match and etag_list_matches, for a listing that was made.
TagMatches(body, tag) == tag.kind = "any" \/ (tag.kind = "tag" /\ tag.of = body)

IfNoneMatch(body, ifNoneMatch) ==
  IF TagMatches(body, ifNoneMatch) THEN NotModified(body) ELSE Full(body)

\* parse_range: "first-", "first-last", or "-n" for the last n; 0-based, last included.
RangeStart(range, length) ==
  IF range.first = Unbounded
  THEN (IF range.last < length THEN length - range.last ELSE 0)
  ELSE range.first
RangeEnd(range, length) ==
  IF range.first = Unbounded \/ range.last = Unbounded \/ range.last >= length
  THEN length - 1 ELSE range.last
RangeHolds(range, length) ==
  /\ length > 0
  /\ range.first = Unbounded => range.last > 0
  /\ RangeStart(range, length) < length
  /\ RangeStart(range, length) <= RangeEnd(range, length)

\* filtered_representation_response.
FilteredRepresentation(body, ifNoneMatch, range, ifRange) ==
  LET length == Len(body)
  IN IF TagMatches(body, ifNoneMatch) THEN NotModified(body)
     ELSE IF range = NoRange \/ (ifRange # NoTag /\ ifRange # TagOf(body)) THEN Full(body)
     ELSE IF RangeHolds(range, length)
          THEN Partial(body, RangeStart(range, length), RangeEnd(range, length))
          ELSE Unsatisfiable(body)
=============================================================================
