---------------------------- MODULE VersionOrder ----------------------------
(***************************************************************************)
(* The version orders that the proxy implements itself: NuGet              *)
(* (malicious.rs), RubyGems (rubygems.rs) and Maven (maven.rs).  They      *)
(* decide which side of a range boundary a version is on, and how a Maven  *)
(* listing is sorted.  npm, PyPI, Go and Cargo versions are compared by    *)
(* libraries.                                                              *)
(*                                                                         *)
(* A version is the sequence of its parsed segments.  A segment is a       *)
(* number or a word; a word is its rank in the order of words.             *)
(***************************************************************************)
EXTENDS Selection, Sequences, SequencesExt

Num(n) == [kind |-> "number", val |-> n]
Word(rank) == [kind |-> "word", val |-> rank]

Sign(d) == IF d < 0 THEN -1 ELSE IF d > 0 THEN 1 ELSE 0

\* The first comparison that does not say "equal", and otherwise `last`.
FirstDifference(orders, last) ==
  LET i == SelectInSeq(orders, LAMBDA o : o # 0) IN IF i = 0 THEN last ELSE orders[i]

Shorter(l, r) == IF Len(l) <= Len(r) THEN Len(l) ELSE Len(r)
Longer(l, r) == IF Len(l) >= Len(r) THEN Len(l) ELSE Len(r)

-----------------------------------------------------------------------------
(* NuGet: one to four numbers and a prerelease, <<>> when there is none. *)

\* normalize_nuget_version pads the numbers to three and drops a fourth that is zero.
NugetCore(parts) ==
  LET padded == [i \in 1..Longer(parts, <<0, 0, 0>>) |->
                   IF i <= Len(parts) THEN parts[i] ELSE 0]
  IN IF Len(padded) = 4 /\ padded[4] = 0 THEN SubSeq(padded, 1, 3) ELSE padded

\* A number comes before a word.
NugetIdentifierOrder(a, b) ==
  IF a.kind # b.kind THEN (IF a.kind = "number" THEN -1 ELSE 1) ELSE Sign(a.val - b.val)

NugetPrereleaseOrder(l, r) ==
  FirstDifference([i \in 1..Shorter(l, r) |-> NugetIdentifierOrder(l[i], r[i])],
                  Sign(Len(l) - Len(r)))

NugetCoreOrder(l, r) ==
  FirstDifference([i \in 1..Shorter(l, r) |-> Sign(l[i] - r[i])], Sign(Len(l) - Len(r)))

NugetOrder(l, r) ==
  LET core == NugetCoreOrder(NugetCore(l.core), NugetCore(r.core))
  IN IF core # 0 THEN core
     ELSE IF l.pre = <<>> \/ r.pre = <<>>
          THEN Sign(Len(r.pre)) - Sign(Len(l.pre))
          ELSE NugetPrereleaseOrder(l.pre, r.pre)

-----------------------------------------------------------------------------
(* RubyGems: a sequence of segments, of which zeros carry no meaning at the end and
   directly before the first word. *)

IsZero(segment) == segment.kind = "number" /\ segment.val = 0

\* The length of a sequence without its trailing zeros.
Significant(s) == LET i == SelectLastInSeq(s, LAMBDA x : ~IsZero(x)) IN i

GemCanonical(s) ==
  LET stripped == SubSeq(s, 1, Significant(s))
      word == SelectInSeq(stripped, LAMBDA x : x.kind = "word")
  IN IF word = 0 THEN stripped
     ELSE SubSeq(stripped, 1, Significant(SubSeq(stripped, 1, word - 1)))
            \o SubSeq(stripped, word, Len(stripped))

\* A word comes before a number.
GemSegmentOrder(a, b) ==
  IF a.kind # b.kind THEN (IF a.kind = "word" THEN -1 ELSE 1) ELSE Sign(a.val - b.val)

\* How the end of a version compares with a rest that the other still has.
EndAgainst(rest) ==
  LET i == SelectInSeq(rest, LAMBDA x : ~IsZero(x))
  IN IF i = 0 THEN 0 ELSE IF rest[i].kind = "word" THEN 1 ELSE -1

GemCanonicalOrder(l, r) ==
  LET common == Shorter(l, r)
      rest(s) == SubSeq(s, common + 1, Len(s))
  IN FirstDifference([i \in 1..common |-> GemSegmentOrder(l[i], r[i])],
                     EndAgainst(rest(r)) - EndAgainst(rest(l)))

GemOrder(l, r) == GemCanonicalOrder(GemCanonical(l), GemCanonical(r))

-----------------------------------------------------------------------------
(* Maven: tokens with the separator before them; a change between digits and letters
   separates like "-".  Words are ranked alpha, beta, milestone, rc, snapshot; then the
   empty word (also "final", "ga", "release"); then sp and every other word. *)

Empty == [kind |-> "empty", val |-> 5]
Sp == Word(6)
OtherWord(rank) == Word(7 + rank)      \* rank > 0

Token(prefix, value) == [prefix |-> prefix, value |-> value, null |-> FALSE]

IsNull(token) == token.value \in {Empty, Num(0)}

\* Null tokens are dropped at the end and before a "-", as many as follow one another; the
\* first token never is.
Dropped(tokens, i) ==
  /\ i > 1
  /\ \E j \in i..Len(tokens) :
       /\ \A k \in i..j : IsNull(tokens[k])
       /\ j = Len(tokens) \/ tokens[j + 1].prefix = "-"

MavenTrimmed(tokens) == AtIndices(tokens, {i \in DOMAIN tokens : ~Dropped(tokens, i)})

\* What the shorter version is padded with.
NullToken(other) ==
  [prefix |-> other.prefix, value |-> IF other.prefix = "." THEN Num(0) ELSE Empty,
   null |-> TRUE]

\* A value that consists of digits, which the empty one does too.
IsNumeric(value) == value.kind # "word"

SeparatorOrder(token) ==
  CASE token.prefix = "-" -> IF IsNumeric(token.value) THEN 2 ELSE 1
    [] token.prefix = "." -> IF IsNumeric(token.value) THEN 3 ELSE 0
    [] OTHER -> 0

NumericOrder(a, b) ==
  IF a.kind = b.kind THEN Sign(a.val - b.val) ELSE IF a = Empty THEN -1 ELSE 1

\* A number among the words comes right before those that have no rank of their own.
QualifierOrder(a, b) ==
  LET key(v) == IF v.kind = "number" THEN 7 ELSE v.val IN Sign(key(a) - key(b))

\* As tokens would be ordered if padding were recognised on the right-hand side only.
MavenTokenOrderOneSided(l, r) ==
  LET ln == IsNumeric(l.value)
      rn == IsNumeric(r.value)
  IN CASE l.prefix # r.prefix -> Sign(SeparatorOrder(l) - SeparatorOrder(r))
       [] l.prefix = r.prefix /\ ln /\ rn -> NumericOrder(l.value, r.value)
       [] l.prefix = r.prefix /\ ln /\ ~rn -> 1
       [] l.prefix = r.prefix /\ ~ln /\ rn /\ ~r.null -> -1
       [] OTHER -> QualifierOrder(l.value, r.value)

MavenTokenOrder(l, r) ==
  LET ln == IsNumeric(l.value)
      rn == IsNumeric(r.value)
  IN CASE l.prefix # r.prefix -> Sign(SeparatorOrder(l) - SeparatorOrder(r))
       [] l.prefix = r.prefix /\ ln /\ rn -> NumericOrder(l.value, r.value)
       [] l.prefix = r.prefix /\ ln /\ ~rn /\ ~l.null -> 1
       [] l.prefix = r.prefix /\ ~ln /\ rn /\ ~r.null -> -1
       [] OTHER -> QualifierOrder(l.value, r.value)

MavenTrimmedOrder(l, r) ==
  LET at(s, other, i) == IF i <= Len(s) THEN s[i] ELSE NullToken(other[i])
  IN FirstDifference([i \in 1..Longer(l, r) |-> MavenTokenOrder(at(l, r, i), at(r, l, i))], 0)

MavenOrder(l, r) == MavenTrimmedOrder(MavenTrimmed(l), MavenTrimmed(r))
=============================================================================
