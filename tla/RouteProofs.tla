----------------------------- MODULE RouteProofs -----------------------------
(***************************************************************************)
(* TLAPS proofs about Routes, for request paths of any length: however a   *)
(* client spells the path of a package, the links that are written for it  *)
(* lead back to the same package, in each of the seven registries.         *)
(*                                                                         *)
(* First what the operators on texts return (what is taken from a text,    *)
(* where it is cut, how it is joined and replaced), then one part per      *)
(* registry: what its parser returns can be written as a link, and the     *)
(* parser takes the link apart as it was written.                          *)
(***************************************************************************)
EXTENDS Routes, NaturalLemmas, SequenceTheorems, TLAPS

-----------------------------------------------------------------------------
(* Texts, and what is taken from them. *)

\* A text of L tokens.
IsText(x, L) == L \in Nat /\ x = [i \in 1..L |-> x[i]]

\* Such a text has the indices of its tokens and their number.
LEMMA TextIs ==
  ASSUME NEW x, NEW L, IsText(x, L)
  PROVE  L \in Nat /\ DOMAIN x = 1..L /\ Len(x) = L
<1> DEFINE S == {x[i] : i \in 1..L}
<1>1. L \in Nat /\ x \in [1..L -> S]
  BY DEF IsText
<1>2. DOMAIN x = 1..L
  BY <1>1
<1> HIDE DEF S
<1> QED BY <1>1, <1>2, LengthOfFunction

\* Taken at all of its indices a text is what it was.
LEMMA TakenWhole ==
  ASSUME NEW x, NEW L, IsText(x, L)
  PROVE  AtIndices(x, 1..L) = x
<1> DEFINE D == 1..L
<1>1. L \in Nat /\ Cardinality(D) = L
  BY FS_Interval DEF IsText
<1>2. ASSUME NEW i \in D PROVE Cardinality({j \in D : j <= i}) = i
  <2>1. {j \in D : j <= i} = 1..i /\ i \in Nat /\ 1 \in Int /\ ~(1 > i)
    BY <1>1
  <2>2. Cardinality(1..i) = IF 1 > i THEN 0 ELSE i - 1 + 1
    BY <2>1, FS_Interval
  <2>3. Cardinality(1..i) = i
    BY <2>1, <2>2
  <2> HIDE DEF D
  <2> QED BY <2>1, <2>3
<1>3. \A n \in D : (CHOOSE i \in D : Cardinality({j \in D : j <= i}) = n) = n
  <2> SUFFICES ASSUME NEW n \in D
               PROVE  (CHOOSE i \in D : Cardinality({j \in D : j <= i}) = n) = n
    OBVIOUS
  <2> DEFINE P(i) == Cardinality({j \in D : j <= i}) = n
  <2>1. P(n) /\ \A i \in D : P(i) => i = n
    BY <1>2
  <2> HIDE DEF P, D
  <2> QED BY <2>1 DEF P
<1>4. AtIndices(x, D) = [n \in 1..Cardinality(D) |->
                           x[CHOOSE i \in D : Cardinality({j \in D : j <= i}) = n]]
  BY DEF AtIndices
<1>5. AtIndices(x, D) = [n \in D |-> x[n]]
  BY <1>1, <1>3, <1>4
<1> QED BY <1>5 DEF IsText

\* What is taken nowhere is no text.
LEMMA TakenNowhere ==
  ASSUME NEW x
  PROVE  AtIndices(x, {}) = <<>>
BY FS_EmptySet DEF AtIndices

-----------------------------------------------------------------------------
(* Letters. *)

\* Letters in their small form.
Small(token) == IF token \in {"A", "B"} THEN Lowered[token] ELSE token

\* A letter made small stays, and becomes no mark.
LEMMA SmallIs ==
  ASSUME NEW token
  PROVE  /\ Small(Small(token)) = Small(token)
         /\ token \notin Marks => Small(token) \notin Marks
         /\ Small("-") = "-" /\ "-" \in Marks
BY DEF Small, Lowered, Marks

\* Lower makes each letter small (artifact.rs 186-192).
LEMMA LowerIs ==
  ASSUME NEW text
  PROVE  Lower(text) = [i \in DOMAIN text |-> Small(text[i])]
BY DEF Lower, Replace, Small, Lowered

\* And does so once for all.
LEMMA LowerTwice ==
  ASSUME NEW text
  PROVE  Lower(Lower(text)) = Lower(text)
<1>1. /\ Lower(text) = [i \in DOMAIN text |-> Small(text[i])]
      /\ Lower(Lower(text)) = [i \in DOMAIN Lower(text) |-> Small(Lower(text)[i])]
  BY LowerIs
<1>2. \A i \in DOMAIN text : Small(Small(text[i])) = Small(text[i])
  BY SmallIs
<1> QED BY <1>1, <1>2

-----------------------------------------------------------------------------
(* Project names as PyPI normalizes them (artifact.rs 169-184). *)

\* normalize_pypi_name: which tokens are kept, and how.
Kept(name, L) ==
  {i \in 1..L : name[i] \in Marks =>
     i > 1 /\ name[i - 1] \notin Marks /\ \E j \in i..L : name[j] \notin Marks}
Spelled(token) == IF token \in Marks THEN "-" ELSE Small(token)

\* normalize_pypi_name keeps these tokens, spelled like that (artifact.rs 169-184).
LEMMA NormalizePypiIs ==
  ASSUME NEW name, NEW L, IsText(name, L)
  PROVE  NormalizePypi(name) = AtIndices([i \in 1..L |-> Spelled(name[i])], Kept(name, L))
<1>1. DOMAIN name = 1..L /\ Len(name) = L
  BY TextIs
<1>2. Lower(name) = [i \in 1..L |-> Small(name[i])]
  BY <1>1, LowerIs
<1> DEFINE mark(i) == name[i] \in Marks
           kept == {i \in DOMAIN name :
                      mark(i) => i > 1 /\ ~mark(i - 1) /\ \E j \in i..Len(name) : ~mark(j)}
           spelled == [i \in DOMAIN name |-> IF mark(i) THEN "-" ELSE Lower(name)[i]]
<1>3. kept = Kept(name, L)
  BY <1>1 DEF Kept
<1>4. spelled = [i \in 1..L |-> Spelled(name[i])]
  BY <1>1, <1>2 DEF Spelled
<1>5. NormalizePypi(name) = AtIndices(spelled, kept)
  BY DEF NormalizePypi
<1> HIDE DEF kept, spelled
<1> QED BY <1>3, <1>4, <1>5

\* No token of the text would be dropped or spelled otherwise.
IsNormal(r, N) ==
  /\ IsText(r, N)
  /\ \A k \in 1..N : k \in Kept(r, N) /\ Spelled(r[k]) = r[k]

\* A normal name is left as it is.
LEMMA NormalStays ==
  ASSUME NEW r, NEW N, IsNormal(r, N)
  PROVE  NormalizePypi(r) = r
<1>1. IsText(r, N) /\ Kept(r, N) = 1..N
  BY DEF IsNormal, Kept
<1>2. [i \in 1..N |-> Spelled(r[i])] = r
  BY <1>1 DEF IsNormal, IsText
<1>3. NormalizePypi(r) = AtIndices(r, 1..N)
  BY <1>1, <1>2, NormalizePypiIs
<1> QED BY <1>1, <1>3, TakenWhole

\* Every name is made a normal one: no two dashes meet, and none is at an end.
LEMMA NormalizedIsNormal ==
  ASSUME NEW name, NEW L, IsText(name, L)
  PROVE  \E N : IsNormal(NormalizePypi(name), N)
<1> DEFINE kept == Kept(name, L)
           spelled == [i \in 1..L |-> Spelled(name[i])]
           r == NormalizePypi(name)
<1>1. L \in Nat /\ kept \subseteq 1..L /\ kept \subseteq Nat /\ r = AtIndices(spelled, kept)
  <2>1. L \in Nat
    BY DEF IsText
  <2>2. kept \subseteq 1..L
    BY DEF Kept
  <2>3. r = AtIndices(spelled, kept)
    BY NormalizePypiIs
  <2> QED BY <2>1, <2>2, <2>3
<1>2. CASE kept = {}
  <2>1. r = <<>>
    BY <1>1, <1>2, TakenNowhere
  <2>2. IsNormal(<<>>, 0)
    BY DEF IsNormal, IsText
  <2> QED BY <2>1, <2>2
<1>3. CASE kept # {}
  <2>1. IsFiniteSet(kept)
    BY <1>1, FS_Interval, FS_Subset
  <2> HIDE DEF kept, spelled, r
  <2>2. PICK N, at : TakenBy(spelled, kept, N, at) /\ ListsAll(kept, N, at)
    BY <1>1, <1>3, <2>1, TakenInOrder
  <2>3. N \in Nat \ {0} /\ at \in [1..N -> kept] /\ r = [n \in 1..N |-> spelled[at[n]]]
    BY <1>1, <2>2 DEF TakenBy
  <2>4. \A n \in 1..N : at[n] \in kept /\ at[n] \in 1..L
    BY <1>1, <2>3
  <2>5. \A n \in 1..N : r[n] = Spelled(name[at[n]])
    BY <2>3, <2>4 DEF spelled
  <2>6. \A n \in 1..N : (r[n] \in Marks <=> name[at[n]] \in Marks) /\ Spelled(r[n]) = r[n]
    BY <2>5, SmallIs DEF Spelled
  <2>7. ASSUME NEW n \in 1..N, r[n] \in Marks
        PROVE  n > 1 /\ r[n - 1] \notin Marks /\ \E m \in n..N : r[m] \notin Marks
    <3> DEFINE i == at[n]
    <3>1. /\ i \in 1..L /\ i > 1 /\ name[i - 1] \notin Marks
          /\ \E j \in i..L : name[j] \notin Marks
      BY <2>4, <2>6, <2>7 DEF kept, Kept
    <3>2. i - 1 \in kept
      BY <1>1, <3>1 DEF kept, Kept
    <3>3. PICK p \in 1..N : at[p] = i - 1
      BY <2>2, <3>2 DEF ListsAll
    <3>4. p < n
      <4>1. ~(n < p) /\ n # p
        BY <2>2, <3>1, <3>3 DEF ListsAll
      <4> QED BY <2>3, <4>1
    <3>5. n - 1 \in 1..N /\ p <= n - 1
      BY <2>3, <3>4
    <3>6. at[n - 1] < at[n] /\ (p < n - 1 => at[p] < at[n - 1])
      BY <2>2, <2>3, <3>5 DEF ListsAll
    <3>7. p = n - 1
      <4>1. at[n - 1] \in Nat /\ i \in Nat
        BY <1>1, <2>4, <3>5
      <4> QED BY <2>3, <3>3, <3>5, <3>6, <4>1
    <3>8. r[n - 1] \notin Marks
      BY <2>6, <3>1, <3>3, <3>5, <3>7
    <3>9. PICK j \in i..L : name[j] \notin Marks
      BY <3>1
    <3>10. j \in kept
      BY <1>1, <3>1, <3>9 DEF kept, Kept
    <3>11. PICK m \in 1..N : at[m] = j
      BY <2>2, <3>10 DEF ListsAll
    <3>12. ~(m < n)
      BY <2>2, <3>1, <3>9, <3>11 DEF ListsAll
    <3>13. m \in n..N /\ r[m] \notin Marks
      BY <2>3, <2>6, <3>9, <3>11, <3>12
    <3> QED BY <3>4, <3>8, <3>13, <2>3
  <2>8. \A n \in 1..N : n \in Kept(r, N)
    BY <2>7 DEF Kept
  <2>9. IsText(r, N)
    BY <2>3 DEF IsText
  <2>10. IsNormal(r, N)
    BY <2>6, <2>8, <2>9 DEF IsNormal
  <2> QED BY <2>10 DEF r
<1> QED BY <1>2, <1>3

\* normalize_pypi_name leaves alone what it returned (artifact.rs 169-184).
LEMMA NormalizePypiTwice ==
  ASSUME NEW name, NEW L, IsText(name, L)
  PROVE  NormalizePypi(NormalizePypi(name)) = NormalizePypi(name)
BY NormalizedIsNormal, NormalStays

-----------------------------------------------------------------------------
(* Where tokens are in a text. *)

\* The provers do not know that a literal is a string.
Token == STRING \cup
  {"a", "A", "b", "B", "v", "0", "1", "2", "3", "-", "_", ".", "+", "/", "@", "%", ":", "!",
   "%2F", "%40", "%41", "simple", "packages", "info", "gems", "gem", "registration", "index",
   "json", "flatcontainer", "nupkg", "nuspec", "invalid", "latest", "list", "mod", "zip",
   "crates", "download", "jar", "maven-metadata.xml"}
Texts == Seq(Token)

\* at lists, in order, the N numbers of a set.
Enumerates(at, N, I) ==
  /\ N \in Nat /\ at \in [1..N -> I]
  /\ \A n, m \in 1..N : n < m => at[n] < at[m]
  /\ \A i \in I : \E n \in 1..N : at[n] = i

\* Of two lists of the same numbers that begin alike, neither is behind at the next.
LEMMA EnumerationAhead ==
  ASSUME NEW I, I \subseteq Nat, NEW at, NEW N, Enumerates(at, N, I),
         NEW bt, NEW M, Enumerates(bt, M, I),
         NEW n \in 1..N, \A m \in 1..(n - 1) : m \in 1..M /\ at[m] = bt[m]
  PROVE  n \in 1..M /\ bt[n] <= at[n]
<1>1. N \in Nat /\ M \in Nat /\ at[n] \in I /\ n \in Nat /\ n >= 1
  BY DEF Enumerates
<1>2. PICK m \in 1..M : bt[m] = at[n]
  BY <1>1 DEF Enumerates
<1>3. ~(m < n)
  <2> SUFFICES ASSUME m < n PROVE FALSE
    OBVIOUS
  <2>1. m \in 1..(n - 1) /\ m \in 1..N
    BY <1>1
  <2>2. at[m] = at[n]
    BY <1>2, <2>1
  <2>3. at[m] < at[n] /\ at[m] \in Nat
    BY <2>1 DEF Enumerates
  <2> QED BY <2>2, <2>3
<1>4. n \in 1..M /\ n <= m
  BY <1>1, <1>3
<1>5. n < m => bt[n] < bt[m]
  BY <1>4 DEF Enumerates
<1>6. bt[n] \in Nat /\ bt[m] \in Nat
  BY <1>4 DEF Enumerates
<1> QED BY <1>1, <1>2, <1>4, <1>5, <1>6

\* A set of numbers is listed in one way.
LEMMA EnumerationsAgree ==
  ASSUME NEW I, I \subseteq Nat, NEW at, NEW N, Enumerates(at, N, I),
         NEW bt, NEW M, Enumerates(bt, M, I)
  PROVE  N = M /\ at = bt
<1> DEFINE Same(n) == n \in 1..N /\ n \in 1..M /\ at[n] = bt[n]
           D == {n \in Nat : (n \in 1..N \/ n \in 1..M) /\ ~Same(n)}
<1>1. N \in Nat /\ M \in Nat /\ at \in [1..N -> I] /\ bt \in [1..M -> I]
  BY DEF Enumerates
<1>2. D = {}
  <2> SUFFICES ASSUME D # {} PROVE FALSE
    OBVIOUS
  <2>0. D \subseteq Nat
    OBVIOUS
  <2>1. PICK n \in D : \A m \in D : ~(m < n)
    BY <2>0, LeastMember
  <2>2. n \in Nat /\ n >= 1 /\ (n \in 1..N \/ n \in 1..M) /\ ~Same(n)
    BY <1>1
  <2>3. \A m \in 1..(n - 1) : Same(m)
    <3> SUFFICES ASSUME NEW m \in 1..(n - 1), ~Same(m) PROVE FALSE
      OBVIOUS
    <3>1. m \in Nat /\ m < n /\ (m \in 1..N \/ m \in 1..M)
      BY <1>1, <2>2
    <3>2. m \in D
      BY <3>1
    <3> QED BY <2>1, <3>1, <3>2
  <2> HIDE DEF D
  <2>4. n \in 1..N => n \in 1..M /\ bt[n] <= at[n]
    BY <2>3, EnumerationAhead
  <2>5. n \in 1..M => n \in 1..N /\ at[n] <= bt[n]
    BY <2>3, EnumerationAhead
  <2>6. at[n] \in Nat /\ bt[n] \in Nat
    BY <1>1, <2>2, <2>4, <2>5
  <2> QED BY <2>2, <2>4, <2>5, <2>6
<1>3. \A n \in Nat : n \in 1..N \/ n \in 1..M => Same(n)
  BY <1>2
<1>4. N <= M /\ M <= N
  <2>1. N >= 1 => N \in 1..M
    BY <1>1, <1>3
  <2>2. M >= 1 => M \in 1..N
    BY <1>1, <1>3
  <2> QED BY <1>1, <2>1, <2>2
<1>5. N = M
  BY <1>1, <1>4
<1>6. \A n \in 1..N : at[n] = bt[n]
  BY <1>1, <1>3
<1> QED BY <1>1, <1>5, <1>6

\* What is taken from a sequence at indices that are listed.
IsTaken(r, items, N, at) == r = [n \in 1..N |-> items[at[n]]]

\* What AtIndices takes is at the indices as they are listed.
LEMMA TakenAt ==
  ASSUME NEW items, NEW I, I \subseteq Nat, IsFiniteSet(I), NEW at, NEW N, Enumerates(at, N, I)
  PROVE  IsTaken(AtIndices(items, I), items, N, at)
<1> USE DEF IsTaken
<1>1. CASE I = {}
  <2>1. N = 0
    <3>1. N \in Nat /\ at \in [1..N -> {}]
      BY <1>1 DEF Enumerates
    <3>2. ~(1 \in 1..N)
      BY <3>1
    <3> QED BY <3>1, <3>2
  <2>2. [n \in 1..N |-> items[at[n]]] = <<>>
    BY <2>1
  <2> QED BY <1>1, <2>2, TakenNowhere
<1>2. CASE I # {}
  <2>1. PICK M, bt : TakenBy(items, I, M, bt) /\ ListsAll(I, M, bt)
    BY <1>2, TakenInOrder
  <2>2. Enumerates(bt, M, I)
    BY <2>1 DEF TakenBy, ListsAll, Enumerates
  <2>3. N = M /\ at = bt
    BY <2>2, EnumerationsAgree
  <2> QED BY <2>1, <2>3 DEF TakenBy
<1> QED BY <1>1, <1>2

\* Every finite set of numbers can be listed.
LEMMA EnumerationExists ==
  ASSUME NEW I, I \subseteq Nat, IsFiniteSet(I)
  PROVE  \E N, at : Enumerates(at, N, I)
<1>1. CASE I = {}
  <2>1. Enumerates(<<>>, 0, I)
    BY <1>1 DEF Enumerates
  <2> QED BY <2>1
<1>2. CASE I # {}
  <2>1. PICK M, bt : TakenBy(<<>>, I, M, bt) /\ ListsAll(I, M, bt)
    BY <1>2, TakenInOrder
  <2>2. Enumerates(bt, M, I)
    BY <2>1 DEF TakenBy, ListsAll, Enumerates
  <2> QED BY <2>2
<1> QED BY <1>1, <1>2

\* The places of a token.
At(text, token) == {i \in 1..Len(text) : text[i] = token}

\* A text is a function of its indices, and has a length.
LEMMA TextLength ==
  ASSUME NEW text \in Texts
  PROVE  /\ Len(text) \in Nat /\ DOMAIN text = 1..Len(text) /\ text \in [1..Len(text) -> Token]
         /\ IsText(text, Len(text))
BY LenProperties DEF Texts, IsText

\* The indices in a text are finitely many numbers.
LEMMA IndicesAreFinite ==
  ASSUME NEW text \in Texts, NEW I, I \subseteq 1..Len(text)
  PROVE  I \subseteq Nat /\ IsFiniteSet(I)
<1>1. Len(text) \in Nat /\ 1 \in Int /\ Len(text) \in Int
  BY TextLength
<1>2. IsFiniteSet(1..Len(text))
  BY <1>1, FS_Interval
<1> DEFINE D == 1..Len(text)
<1>3. D \subseteq Nat
  BY <1>1
<1> HIDE DEF D
<1>4. IsFiniteSet(D) /\ I \in SUBSET D
  BY <1>2 DEF D
<1> QED BY <1>3, <1>4, FS_Subset

\* Ascending lists the indices in their order.
LEMMA AscendingIs ==
  ASSUME NEW text \in Texts, NEW I, I \subseteq 1..Len(text), NEW at, NEW N, Enumerates(at, N, I)
  PROVE  Ascending(text, I) = at
<1>1. Len(text) \in Nat /\ DOMAIN text = 1..Len(text)
  BY TextLength
<1>2. I \subseteq Nat /\ IsFiniteSet(I)
  BY IndicesAreFinite
<1>4. at \in [1..N -> I]
  BY DEF Enumerates
<1> DEFINE items == [i \in DOMAIN text |-> i]
<1>5. \A n \in 1..N : items[at[n]] = at[n]
  BY <1>1, <1>4
<1> HIDE DEF items
<1>3. IsTaken(AtIndices(items, I), items, N, at)
  BY <1>2, TakenAt
<1>6. AtIndices(items, I) = at
  BY <1>3, <1>4, <1>5 DEF IsTaken
<1> QED BY <1>6 DEF Ascending, items

\* Places lists where the token is.
LEMMA PlacesAre ==
  ASSUME NEW text \in Texts, NEW token, NEW at, NEW N, Enumerates(at, N, At(text, token))
  PROVE  Places(text, token) = at
<1>1. DOMAIN text = 1..Len(text)
  BY TextLength
<1>2. At(text, token) \subseteq 1..Len(text)
  BY DEF At
<1>3. Ascending(text, At(text, token)) = at
  BY <1>2, AscendingIs
<1> QED BY <1>1, <1>3 DEF Places, At

\* There is such a list for every text.
LEMMA PlacesExist ==
  ASSUME NEW text \in Texts, NEW token
  PROVE  \E N, at : Enumerates(at, N, At(text, token))
<1>1. At(text, token) \subseteq 1..Len(text)
  BY DEF At
<1>2. At(text, token) \subseteq Nat /\ IsFiniteSet(At(text, token))
  BY <1>1, IndicesAreFinite
<1> QED BY <1>2, EnumerationExists

-----------------------------------------------------------------------------
(* A text cut at a token. *)

\* Where a text with the given places is cut, its two ends included, and what is between.
Cut(text, N, at, k) == IF k = 1 THEN 0 ELSE IF k = N + 2 THEN Len(text) + 1 ELSE at[k - 1]
Between(text, N, at, k) == SubSeq(text, Cut(text, N, at, k) + 1, Cut(text, N, at, k + 1) - 1)

\* The parts of a text that is cut there.
IsCut(parts, text, N, at) == parts = [k \in 1..(N + 1) |-> Between(text, N, at, k)]

\* Split cuts the text at the places of the token.
LEMMA SplitIs ==
  ASSUME NEW text \in Texts, NEW token, NEW at, NEW N, Enumerates(at, N, At(text, token))
  PROVE  IsCut(Split(text, token), text, N, at)
<1> DEFINE L == Len(text)
           cuts == <<0>> \o Places(text, token) \o <<L + 1>>
<1>1. Places(text, token) = at
  BY PlacesAre
<1>2. L \in Nat /\ N \in Nat /\ at \in [1..N -> Nat]
  <2>1. At(text, token) \subseteq Nat
    BY DEF At
  <2>2. N \in Nat /\ at \in [1..N -> At(text, token)]
    BY DEF Enumerates
  <2> QED BY <2>1, <2>2, TextLength
<1> HIDE DEF L
<1>3. at \in Seq(Nat) /\ Len(at) = N
  BY <1>2
<1>4. <<0>> \in Seq(Nat) /\ Len(<<0>>) = 1 /\ <<0>>[1] = 0
  OBVIOUS
<1>5. <<L + 1>> \in Seq(Nat) /\ Len(<<L + 1>>) = 1 /\ <<L + 1>>[1] = L + 1
  BY <1>2
<1> DEFINE front == <<0>> \o at
<1>6. /\ front \in Seq(Nat) /\ Len(front) = N + 1
      /\ \A k \in 1..(N + 1) : front[k] = IF k = 1 THEN 0 ELSE at[k - 1]
  <2>1. /\ front \in Seq(Nat) /\ Len(front) = 1 + N
        /\ \A k \in 1..(1 + N) : front[k] = IF k <= 1 THEN <<0>>[k] ELSE at[k - 1]
    BY <1>3, <1>4, ConcatProperties
  <2> HIDE DEF front
  <2> QED BY <1>2, <1>4, <2>1
<1> HIDE DEF front
<1>7. /\ Len(cuts) = N + 2
      /\ \A k \in 1..(N + 2) : cuts[k] = Cut(text, N, at, k)
  <2> DEFINE all == front \o <<L + 1>>
  <2>1. /\ Len(all) = N + 1 + 1
        /\ \A k \in 1..(N + 1 + 1) :
             all[k] = IF k <= N + 1 THEN front[k] ELSE <<L + 1>>[k - (N + 1)]
    BY <1>5, <1>6, ConcatProperties
  <2>2. all = cuts
    BY <1>1 DEF front
  <2> HIDE DEF all, cuts
  <2>3. \A k \in 1..(N + 2) : all[k] = IF k <= N + 1 THEN front[k] ELSE L + 1
    <3> SUFFICES ASSUME NEW k \in 1..(N + 2)
                 PROVE  all[k] = IF k <= N + 1 THEN front[k] ELSE L + 1
      OBVIOUS
    <3>1. k \in 1..(N + 1 + 1) /\ (k <= N + 1 \/ k - (N + 1) = 1)
      BY <1>2
    <3>2. all[k] = IF k <= N + 1 THEN front[k] ELSE <<L + 1>>[k - (N + 1)]
      BY <2>1, <3>1
    <3> QED BY <1>5, <3>1, <3>2
  <2> QED BY <1>2, <1>6, <2>1, <2>2, <2>3 DEF Cut, L
<1> HIDE DEF cuts
<1>8. Split(text, token) = [k \in 1..Len(cuts) - 1 |-> SubSeq(text, cuts[k] + 1, cuts[k + 1] - 1)]
  BY DEF Split, cuts, L
<1>9. \A k \in 1..(N + 1) : SubSeq(text, cuts[k] + 1, cuts[k + 1] - 1) = Between(text, N, at, k)
  <2> SUFFICES ASSUME NEW k \in 1..(N + 1)
               PROVE  SubSeq(text, cuts[k] + 1, cuts[k + 1] - 1) = Between(text, N, at, k)
    OBVIOUS
  <2>1. k \in 1..(N + 2) /\ k + 1 \in 1..(N + 2)
    BY <1>2
  <2>2. cuts[k] = Cut(text, N, at, k) /\ cuts[k + 1] = Cut(text, N, at, k + 1)
    BY <1>7, <2>1
  <2> QED BY <2>2 DEF Between
<1> QED BY <1>2, <1>7, <1>8, <1>9 DEF IsCut

\* The cuts ascend from before the first to behind the last token, and between two
\* of them the token is not.
LEMMA CutsAscend ==
  ASSUME NEW text \in Texts, NEW token, NEW at, NEW N, Enumerates(at, N, At(text, token))
  PROVE  /\ N \in Nat
         /\ \A k \in 1..(N + 2) : Cut(text, N, at, k) \in 0..(Len(text) + 1)
         /\ \A k \in 1..(N + 1) : Cut(text, N, at, k) < Cut(text, N, at, k + 1)
         /\ \A k \in 1..(N + 1) : \A i \in 1..Len(text) :
              Cut(text, N, at, k) < i /\ i < Cut(text, N, at, k + 1) => text[i] # token
<1> DEFINE L == Len(text)
           c(k) == Cut(text, N, at, k)
<1>1. L \in Nat
  BY TextLength
<1>2. N \in Nat
  BY DEF Enumerates
<1>3. \A n \in 1..N : at[n] \in 1..L
  BY DEF Enumerates, At
<1>4. \A n, m \in 1..N : n < m => at[n] < at[m]
  BY DEF Enumerates
<1>5. \A i \in 1..L : text[i] = token => \E n \in 1..N : at[n] = i
  BY DEF Enumerates, At
<1> HIDE DEF L
<1>6. /\ c(1) = 0 /\ c(N + 2) = L + 1
      /\ \A k \in 1..(N + 2) : k # 1 /\ k # N + 2 => k - 1 \in 1..N /\ c(k) = at[k - 1]
  BY <1>1, <1>2 DEF Cut, L
<1> HIDE DEF c
<1>7. \A k \in 1..(N + 2) : c(k) \in 0..(L + 1)
  BY <1>1, <1>2, <1>3, <1>6
<1>8. ASSUME NEW k \in 1..(N + 1)
      PROVE  c(k) < c(k + 1)
  <2>1. k \in 1..(N + 2) /\ k + 1 \in 1..(N + 2) /\ k + 1 # 1 /\ k # N + 2
    BY <1>2
  <2>2. CASE k = 1 /\ k + 1 = N + 2
    BY <1>1, <1>6, <2>2
  <2>3. CASE k = 1 /\ k + 1 # N + 2
    BY <1>1, <1>3, <1>6, <2>1, <2>3
  <2>4. CASE k # 1 /\ k + 1 = N + 2
    BY <1>1, <1>3, <1>6, <2>1, <2>4
  <2>5. CASE k # 1 /\ k + 1 # N + 2
    <3>1. k - 1 \in 1..N /\ k \in 1..N /\ k - 1 < k /\ c(k) = at[k - 1] /\ c(k + 1) = at[k]
      <4>1. k + 1 - 1 = k
        BY <1>2
      <4> QED BY <1>2, <1>6, <2>1, <2>5, <4>1
    <3> QED BY <1>4, <3>1
  <2> QED BY <2>2, <2>3, <2>4, <2>5
<1>9. ASSUME NEW k \in 1..(N + 1), NEW i \in 1..L, c(k) < i, i < c(k + 1), text[i] = token
      PROVE  FALSE
  <2>1. PICK n \in 1..N : at[n] = i
    BY <1>5, <1>9
  <2>2. k \in 1..(N + 2) /\ k + 1 \in 1..(N + 2) /\ k + 1 # 1 /\ k # N + 2 /\ k \in Nat /\ n \in Nat
    BY <1>2
  <2>3. n >= k
    <3>1. CASE k = 1
      BY <2>2, <3>1
    <3>2. CASE k # 1
      <4>1. k - 1 \in 1..N /\ c(k) = at[k - 1] /\ at[k - 1] < at[n]
        BY <1>6, <1>9, <2>1, <2>2, <3>2
      <4>2. at[k - 1] \in Nat /\ at[n] \in Nat
        BY <1>3, <4>1
      <4>3. ~(n < k - 1) /\ n # k - 1
        BY <1>4, <4>1, <4>2
      <4> QED BY <2>2, <4>3
    <3> QED BY <3>1, <3>2
  <2>4. CASE k + 1 = N + 2
    <3>1. n > N
      BY <1>2, <2>2, <2>3, <2>4
    <3> QED BY <1>2, <3>1
  <2>5. CASE k + 1 # N + 2
    <3>1. k + 1 - 1 = k
      BY <2>2
    <3>2. k \in 1..N /\ c(k + 1) = at[k]
      BY <1>2, <1>6, <2>2, <2>5, <3>1
    <3>3. at[k] \in Nat /\ at[n] \in Nat /\ at[n] < at[k]
      BY <1>3, <1>9, <2>1, <3>2
    <3>4. k < n => at[k] < at[n]
      BY <1>4, <3>2
    <3>5. k = n \/ k < n
      BY <2>2, <2>3
    <3> QED BY <3>3, <3>4, <3>5
  <2> QED BY <2>4, <2>5
<1> QED BY <1>2, <1>7, <1>8, <1>9 DEF c, L

\* What is between two cuts is there in the text, and does not have the token.
LEMMA BetweenIs ==
  ASSUME NEW text \in Texts, NEW token, NEW at, NEW N, Enumerates(at, N, At(text, token)),
         NEW k \in 1..(N + 1)
  PROVE  LET b == Between(text, N, at, k)
             c == Cut(text, N, at, k)
         IN /\ b \in Texts /\ Len(b) = Cut(text, N, at, k + 1) - c - 1
            /\ \A i \in 1..Len(b) : b[i] = text[c + i] /\ c + i \in 1..Len(text) /\ b[i] # token
<1> DEFINE b == Between(text, N, at, k)
           c == Cut(text, N, at, k)
           d == Cut(text, N, at, k + 1)
           L == Len(text)
<1>1. N \in Nat /\ k + 1 \in 1..(N + 2) /\ k \in 1..(N + 2)
  BY CutsAscend
<1>2. c \in 0..(L + 1) /\ d \in 0..(L + 1) /\ c < d
  BY <1>1, CutsAscend
<1>3. \A i \in 1..L : c < i /\ i < d => text[i] # token
  BY CutsAscend
<1>4. L \in Nat /\ \A i \in 1..L : text[i] \in Token
  BY TextLength
<1>5. b = SubSeq(text, c + 1, d - 1)
  BY DEF Between
<1> HIDE DEF b, c, d, L
<1>6. c + 1 \in Int /\ d - 1 \in Int /\ \A i \in (c + 1)..(d - 1) : text[i] \in Token
  BY <1>2, <1>4
<1> DEFINE p == c + 1
           q == d - 1
<1>7. /\ SubSeq(text, p, q) \in Seq(Token)
      /\ Len(SubSeq(text, p, q)) = IF p <= q THEN q - p + 1 ELSE 0
      /\ \A i \in 1 .. q - p + 1 : SubSeq(text, p, q)[i] = text[p + i - 1]
  <2>1. p \in Int /\ q \in Int /\ \A i \in p..q : text[i] \in Token
    BY <1>6
  <2> HIDE DEF p, q
  <2> QED BY <2>1, SubSeqProperties
<1>8. b \in Texts
  BY <1>5, <1>7 DEF Texts
<1>9. Len(b) = d - c - 1 /\ q - p + 1 = d - c - 1
  BY <1>2, <1>4, <1>5, <1>7
<1>10. ASSUME NEW i \in 1..Len(b)
       PROVE  b[i] = text[c + i] /\ c + i \in 1..L /\ b[i] # token
  <2>1. i \in 1..(q - p + 1) /\ p + i - 1 = c + i /\ c + i \in 1..L /\ c < c + i /\ c + i < d
    BY <1>2, <1>4, <1>9
  <2>2. b[i] = text[c + i]
    BY <1>5, <1>7, <2>1
  <2> QED BY <1>3, <2>1, <2>2
<1> QED BY <1>8, <1>9, <1>10 DEF b, c, d, L

\* The parts of a text are texts of its own tokens without the one it is cut at, and one
\* at least.
LEMMA SplitParts ==
  ASSUME NEW text \in Texts, NEW token
  PROVE  /\ Split(text, token) \in Seq(Texts)
         /\ Len(Split(text, token)) \in Nat \ {0}
         /\ \A k \in 1..Len(Split(text, token)) :
              LET part == Split(text, token)[k]
              IN part \in Texts /\ ~Has(part, token) /\ Range(part) \subseteq Range(text)
<1>1. PICK N, at : Enumerates(at, N, At(text, token))
  BY PlacesExist
<1> DEFINE s == Split(text, token)
<1>2. N \in Nat
  BY <1>1 DEF Enumerates
<1>3. s = [k \in 1..(N + 1) |-> Between(text, N, at, k)]
  <2>1. IsCut(Split(text, token), text, N, at)
    BY <1>1, SplitIs
  <2> QED BY <2>1 DEF IsCut
<1>4. ASSUME NEW k \in 1..(N + 1)
      PROVE  s[k] \in Texts /\ ~Has(s[k], token) /\ Range(s[k]) \subseteq Range(text)
  <2> DEFINE b == Between(text, N, at, k)
  <2>1. /\ b \in Texts
        /\ \A i \in 1..Len(b) : b[i] = text[Cut(text, N, at, k) + i]
                                /\ Cut(text, N, at, k) + i \in 1..Len(text) /\ b[i] # token
    BY <1>1, BetweenIs
  <2>2. s[k] = b
    BY <1>3
  <2> HIDE DEF b, s
  <2>3. DOMAIN b = 1..Len(b) /\ DOMAIN text = 1..Len(text)
    BY <2>1, TextLength
  <2> QED BY <2>1, <2>2, <2>3 DEF Has, Range
<1> HIDE DEF s
<1>5. s \in [1..(N + 1) -> Texts]
  BY <1>3, <1>4
<1>6. s \in Seq(Texts)
  BY <1>2, <1>5
<1>7. Len(s) = N + 1
  BY <1>2, <1>5, LengthOfFunction
<1> QED BY <1>2, <1>4, <1>6, <1>7 DEF s

-----------------------------------------------------------------------------
(* What a text has, and how it is cut. *)

\* A text has the tokens at its indices.
LEMMA HasIs ==
  ASSUME NEW text \in Texts, NEW token
  PROVE  Has(text, token) <=> \E i \in 1..Len(text) : text[i] = token
BY TextLength DEF Has, Range

\* A text without the token is not cut.
LEMMA Uncut ==
  ASSUME NEW text \in Texts, NEW token, ~Has(text, token)
  PROVE  Split(text, token) = <<text>>
<1>1. At(text, token) = {}
  BY HasIs DEF At
<1>2. Enumerates(<<>>, 0, At(text, token))
  BY <1>1 DEF Enumerates
<1>3. Split(text, token) = [k \in 1..(0 + 1) |-> Between(text, 0, <<>>, k)]
  <2>1. IsCut(Split(text, token), text, 0, <<>>)
    BY <1>2, SplitIs
  <2> QED BY <2>1 DEF IsCut
<1>4. Between(text, 0, <<>>, 1) = text
  <2>1. SubSeq(text, 1, Len(text)) = text
    BY SubSeqFull DEF Texts
  <2>2. Cut(text, 0, <<>>, 1) + 1 = 1
    BY DEF Cut
  <2>3. Cut(text, 0, <<>>, 1 + 1) - 1 = Len(text)
    <3>1. Len(text) \in Nat
      BY TextLength
    <3> QED BY <3>1 DEF Cut
  <2> QED BY <2>1, <2>2, <2>3 DEF Between
<1> QED BY <1>3, <1>4

\* The tokens of two texts together, and their number.
LEMMA ConcatIs ==
  ASSUME NEW a \in Texts, NEW b \in Texts
  PROVE  /\ a \o b \in Texts /\ Len(a \o b) = Len(a) + Len(b)
         /\ \A i \in 1..Len(a) : (a \o b)[i] = a[i]
         /\ \A i \in 1..Len(b) : (a \o b)[Len(a) + i] = b[i]
<1>1. /\ a \o b \in Texts /\ Len(a \o b) = Len(a) + Len(b)
      /\ \A i \in 1 .. Len(a) + Len(b) : (a \o b)[i] = IF i <= Len(a) THEN a[i] ELSE b[i - Len(a)]
  BY ConcatProperties DEF Texts
<1>2. Len(a) \in Nat /\ Len(b) \in Nat
  BY TextLength
<1>3. ASSUME NEW i \in 1..Len(b) PROVE (a \o b)[Len(a) + i] = b[i]
  <2>1. Len(a) + i \in 1..(Len(a) + Len(b)) /\ ~(Len(a) + i <= Len(a)) /\ Len(a) + i - Len(a) = i
    BY <1>2
  <2> QED BY <1>1, <2>1
<1>4. ASSUME NEW i \in 1..Len(a) PROVE (a \o b)[i] = a[i]
  <2>1. i \in 1..(Len(a) + Len(b)) /\ i <= Len(a)
    BY <1>2
  <2> QED BY <1>1, <2>1
<1> QED BY <1>1, <1>3, <1>4

\* Texts of the same tokens are the same.
LEMMA SameText ==
  ASSUME NEW a \in Texts, NEW b \in Texts, Len(a) = Len(b), \A i \in 1..Len(a) : a[i] = b[i]
  PROVE  a = b
BY SeqEqual DEF Texts

\* A sequence of one member.
LEMMA OneIsSeq ==
  ASSUME NEW S, NEW e \in S
  PROVE  <<e>> \in Seq(S) /\ Len(<<e>>) = 1 /\ <<e>>[1] = e
OBVIOUS

\* A token is a text.
LEMMA TokenText ==
  ASSUME NEW token \in Token
  PROVE  <<token>> \in Texts /\ Len(<<token>>) = 1 /\ <<token>>[1] = token
BY OneIsSeq DEF Texts

\* A text with a token in it.
LEMMA Framed ==
  ASSUME NEW a \in Texts, NEW b \in Texts, NEW token \in Token
  PROVE  LET x == a \o (<<token>> \o b)
         IN /\ x \in Texts /\ Len(x) = Len(a) + 1 + Len(b)
            /\ \A i \in 1..Len(a) : x[i] = a[i]
            /\ x[Len(a) + 1] = token
            /\ \A i \in 1..Len(b) : x[Len(a) + 1 + i] = b[i]
<1> DEFINE y == <<token>> \o b
           x == a \o y
<1>1. <<token>> \in Texts /\ Len(<<token>>) = 1 /\ <<token>>[1] = token
  BY TokenText
<1>2. /\ y \in Texts /\ Len(y) = 1 + Len(b)
      /\ \A i \in 1..1 : y[i] = <<token>>[i]
      /\ \A i \in 1..Len(b) : y[1 + i] = b[i]
  BY <1>1, ConcatIs
<1> HIDE DEF y
<1>3. /\ x \in Texts /\ Len(x) = Len(a) + Len(y)
      /\ \A i \in 1..Len(a) : x[i] = a[i]
      /\ \A i \in 1..Len(y) : x[Len(a) + i] = y[i]
  BY <1>2, ConcatIs
<1>4. Len(a) \in Nat /\ Len(b) \in Nat
  BY TextLength
<1> HIDE DEF x
<1>5. x[Len(a) + 1] = token
  <2>1. 1 \in 1..Len(y) /\ 1 \in 1..1
    BY <1>2, <1>4
  <2> QED BY <1>1, <1>2, <1>3, <2>1
<1>6. ASSUME NEW i \in 1..Len(b) PROVE x[Len(a) + 1 + i] = b[i]
  <2>1. 1 + i \in 1..Len(y) /\ Len(a) + (1 + i) = Len(a) + 1 + i
    BY <1>2, <1>4
  <2> QED BY <1>2, <1>3, <2>1
<1>7. Len(x) = Len(a) + 1 + Len(b)
  BY <1>2, <1>3, <1>4
<1> QED BY <1>3, <1>5, <1>6, <1>7 DEF x, y

\* Two parts of texts that agree token by token are one.
LEMMA SubSeqShift ==
  ASSUME NEW a \in Texts, NEW b \in Texts, NEW m \in Int, NEW n \in Int, NEW d \in Int,
         \A i \in m..n : i \in 1..Len(b) /\ a[i + d] = b[i]
  PROVE  SubSeq(a, m + d, n + d) = SubSeq(b, m, n)
<1>0. \A i \in 1..Len(b) : b[i] \in Token
  BY TextLength
<1>1. \A i \in m..n : b[i] \in Token
  BY <1>0
<1>2. \A i \in (m + d)..(n + d) : a[i] \in Token
  <2> SUFFICES ASSUME NEW i \in (m + d)..(n + d) PROVE a[i] \in Token
    OBVIOUS
  <2>1. i - d \in m..n /\ (i - d) + d = i
    OBVIOUS
  <2>2. a[(i - d) + d] = b[i - d]
    BY <2>1
  <2> QED BY <1>1, <2>1, <2>2
<1> DEFINE p == m + d
           q == n + d
<1>3. p \in Int /\ q \in Int /\ \A i \in p..q : a[i] \in Token
  BY <1>2
<1>4. q - p + 1 = n - m + 1 /\ (p <= q <=> m <= n) /\ \A i \in Int : p + i - 1 = (m + i - 1) + d
  OBVIOUS
<1> HIDE DEF p, q
<1> DEFINE x == SubSeq(a, p, q)
           y == SubSeq(b, m, n)
<1>5. /\ x \in Seq(Token) /\ Len(x) = (IF p <= q THEN q - p + 1 ELSE 0)
      /\ \A i \in 1 .. q - p + 1 : x[i] = a[p + i - 1]
  BY <1>3, SubSeqProperties
<1>6. /\ y \in Seq(Token) /\ Len(y) = (IF m <= n THEN n - m + 1 ELSE 0)
      /\ \A i \in 1 .. n - m + 1 : y[i] = b[m + i - 1]
  BY <1>1, SubSeqProperties
<1> HIDE DEF x, y
<1>7. Len(x) = Len(y)
  BY <1>4, <1>5, <1>6
<1>8. ASSUME NEW i \in 1..Len(x) PROVE x[i] = y[i]
  <2>1. i \in 1..(n - m + 1) /\ i \in Int
    BY <1>6, <1>7
  <2>2. m + i - 1 \in m..n
    BY <2>1
  <2>3. a[(m + i - 1) + d] = b[m + i - 1]
    BY <2>2
  <2> QED BY <1>4, <1>5, <1>6, <2>1, <2>3
<1>9. x = y
  BY <1>5, <1>6, <1>7, <1>8, SeqEqual
<1> QED BY <1>9 DEF x, y, p, q

\* A text is cut where its token is, whatever stands before and after it.
LEMMA SplitAt ==
  ASSUME NEW a \in Texts, NEW b \in Texts, NEW token \in Token
  PROVE  Split(a \o (<<token>> \o b), token) = Split(a, token) \o Split(b, token)
<1> DEFINE x == a \o (<<token>> \o b)
           la == Len(a)
           lb == Len(b)
<1>1. /\ x \in Texts /\ Len(x) = la + 1 + lb
      /\ \A i \in 1..la : x[i] = a[i]
      /\ x[la + 1] = token
      /\ \A i \in 1..lb : x[la + 1 + i] = b[i]
  BY Framed
<1>2. la \in Nat /\ lb \in Nat
  BY TextLength
<1>3. PICK N, at : Enumerates(at, N, At(a, token))
  BY PlacesExist
<1>4. PICK M, bt : Enumerates(bt, M, At(b, token))
  BY PlacesExist
<1>5. N \in Nat /\ M \in Nat
  BY <1>3, <1>4 DEF Enumerates
<1>6. /\ \A n \in 1..N : at[n] \in 1..la /\ a[at[n]] = token
      /\ \A n \in 1..M : bt[n] \in 1..lb /\ b[bt[n]] = token
  BY <1>3, <1>4 DEF Enumerates, At
<1> HIDE DEF x, la, lb
<1> DEFINE K == N + 1 + M
           ct == [n \in 1..K |-> IF n <= N THEN at[n]
                                 ELSE IF n = N + 1 THEN la + 1 ELSE la + 1 + bt[n - N - 1]]
<1>7. /\ \A n \in 1..N : n \in 1..K /\ ct[n] = at[n]
      /\ N + 1 \in 1..K /\ ct[N + 1] = la + 1
      /\ \A n \in 1..M : N + 1 + n \in 1..K /\ ct[N + 1 + n] = la + 1 + bt[n]
  <2>1. \A n \in 1..N : n \in 1..K /\ ct[n] = at[n]
    BY <1>5
  <2>2. N + 1 \in 1..K /\ ct[N + 1] = la + 1
    BY <1>5
  <2>3. ASSUME NEW n \in 1..M PROVE N + 1 + n \in 1..K /\ ct[N + 1 + n] = la + 1 + bt[n]
    <3>1. N + 1 + n \in 1..K /\ ~(N + 1 + n <= N) /\ N + 1 + n # N + 1 /\ N + 1 + n - N - 1 = n
      BY <1>5
    <3>2. \A p \in 1..K : ~(p <= N) /\ p # N + 1 => ct[p] = la + 1 + bt[p - N - 1]
      OBVIOUS
    <3> HIDE DEF ct
    <3>3. ct[N + 1 + n] = la + 1 + bt[n]
      <4> DEFINE p == N + 1 + n
      <4>1. p \in 1..K /\ ~(p <= N) /\ p # N + 1 /\ p - N - 1 = n
        BY <1>5, <3>1
      <4> HIDE DEF p, K
      <4>2. ct[p] = la + 1 + bt[n]
        BY <3>2, <4>1
      <4> QED BY <4>2 DEF p
    <3> QED BY <3>1, <3>3
  <2> QED BY <2>1, <2>2, <2>3
<1>8. \A n \in 1..K : n \in 1..N \/ n = N + 1 \/ \E m \in 1..M : n = N + 1 + m
  <2> SUFFICES ASSUME NEW n \in 1..K, n \notin 1..N, n # N + 1 PROVE \E m \in 1..M : n = N + 1 + m
    OBVIOUS
  <2>1. n - N - 1 \in 1..M /\ n = N + 1 + (n - N - 1)
    BY <1>5
  <2> QED BY <2>1
<1>9. ct = [n \in 1..K |-> ct[n]] /\ K \in Nat
  BY <1>5
<1>0. K + 1 = N + 1 + (M + 1) /\ K + 2 = N + 1 + (M + 2)
  BY <1>5
<1> HIDE DEF ct, K
<1>10. \A n \in 1..K : ct[n] \in At(x, token)
  <2>1. \A n \in 1..N : ct[n] \in 1..la /\ x[ct[n]] = token
    BY <1>1, <1>6, <1>7
  <2>2. ASSUME NEW n \in 1..M
        PROVE  ct[N + 1 + n] \in 1..(la + 1 + lb) /\ x[ct[N + 1 + n]] = token
    <3> DEFINE j == bt[n]
    <3>1. j \in 1..lb /\ b[j] = token /\ ct[N + 1 + n] = la + 1 + j
      BY <1>6, <1>7
    <3> HIDE DEF j
    <3>2. x[la + 1 + j] = token
      BY <1>1, <3>1
    <3>3. la + 1 + j \in 1..(la + 1 + lb)
      BY <1>2, <3>1
    <3> QED BY <3>1, <3>2, <3>3
  <2>3. la + 1 \in 1..(la + 1 + lb) /\ \A i \in 1..la : i \in 1..(la + 1 + lb)
    BY <1>2
  <2> SUFFICES ASSUME NEW n \in 1..K PROVE ct[n] \in 1..(la + 1 + lb) /\ x[ct[n]] = token
    BY <1>1 DEF At
  <2>4. CASE n \in 1..N
    BY <2>1, <2>3, <2>4
  <2>5. CASE n = N + 1
    BY <1>1, <1>7, <2>3, <2>5
  <2>6. CASE \E m \in 1..M : n = N + 1 + m
    BY <2>2, <2>6
  <2> QED BY <1>8, <2>4, <2>5, <2>6
<1>11. \A n, m \in 1..K : n < m => ct[n] < ct[m]
  <2> SUFFICES ASSUME NEW n \in 1..K, NEW m \in 1..K, n < m PROVE ct[n] < ct[m]
    OBVIOUS
  <2>1. \A i, j \in 1..N : i < j => at[i] < at[j]
    BY <1>3 DEF Enumerates
  <2>2. \A i, j \in 1..M : i < j => bt[i] < bt[j]
    BY <1>4 DEF Enumerates
  <2>3. CASE m \in 1..N
    <3>1. n \in 1..N
      BY <1>5, <2>3
    <3> QED BY <1>7, <2>1, <2>3, <3>1
  <2>4. CASE m = N + 1
    <3>1. n \in 1..N
      BY <1>5, <2>4
    <3>2. ct[m] = la + 1 /\ ct[n] = at[n] /\ at[n] \in 1..la
      BY <1>6, <1>7, <2>4, <3>1
    <3> QED BY <1>2, <3>2
  <2>5. CASE \E j \in 1..M : m = N + 1 + j
    <3>1. PICK j \in 1..M : m = N + 1 + j
      BY <2>5
    <3>2. ct[m] = la + 1 + bt[j] /\ bt[j] \in 1..lb
      BY <1>6, <1>7, <3>1
    <3>3. CASE n \in 1..N
      <4>1. ct[n] = at[n] /\ at[n] \in 1..la
        BY <1>6, <1>7, <3>3
      <4> QED BY <1>2, <3>2, <4>1
    <3>4. CASE n = N + 1
      BY <1>2, <1>7, <3>2, <3>4
    <3>5. CASE \E i \in 1..M : n = N + 1 + i
      <4>1. PICK i \in 1..M : n = N + 1 + i
        BY <3>5
      <4>2. i < j
        BY <1>5, <3>1, <4>1
      <4>3. bt[i] < bt[j] /\ ct[n] = la + 1 + bt[i] /\ bt[i] \in 1..lb
        BY <1>6, <1>7, <2>2, <4>1, <4>2
      <4> QED BY <1>2, <3>2, <4>3
    <3> QED BY <1>8, <3>3, <3>4, <3>5
  <2> QED BY <1>8, <2>3, <2>4, <2>5
<1>12. \A i \in At(x, token) : \E n \in 1..K : ct[n] = i
  <2> SUFFICES ASSUME NEW i \in At(x, token) PROVE \E n \in 1..K : ct[n] = i
    OBVIOUS
  <2>1. i \in 1..(la + 1 + lb) /\ x[i] = token
    BY <1>1 DEF At
  <2>2. CASE i \in 1..la
    <3>1. i \in At(a, token)
      BY <1>1, <2>1, <2>2 DEF At, la
    <3>2. PICK n \in 1..N : at[n] = i
      BY <1>3, <3>1 DEF Enumerates
    <3> QED BY <1>7, <3>2
  <2>3. CASE i = la + 1
    BY <1>7, <2>3
  <2>4. CASE i \notin 1..la /\ i # la + 1
    <3> DEFINE j == i - (la + 1)
    <3>1. j \in 1..lb /\ i = la + 1 + j
      BY <1>2, <2>1, <2>4
    <3> HIDE DEF j
    <3>2. j \in At(b, token)
      BY <1>1, <2>1, <3>1 DEF At, lb
    <3>3. PICK n \in 1..M : bt[n] = j
      BY <1>4, <3>2 DEF Enumerates
    <3> QED BY <1>7, <3>1, <3>3
  <2> QED BY <2>2, <2>3, <2>4
<1>13. Enumerates(ct, K, At(x, token))
  BY <1>9, <1>10, <1>11, <1>12 DEF Enumerates
<1>14. /\ Split(x, token) = [k \in 1..(K + 1) |-> Between(x, K, ct, k)]
       /\ Split(a, token) = [k \in 1..(N + 1) |-> Between(a, N, at, k)]
       /\ Split(b, token) = [k \in 1..(M + 1) |-> Between(b, M, bt, k)]
  <2>1. Split(x, token) = [k \in 1..(K + 1) |-> Between(x, K, ct, k)]
    <3>1. IsCut(Split(x, token), x, K, ct)
      BY <1>1, <1>13, SplitIs
    <3> QED BY <3>1 DEF IsCut
  <2>2. Split(a, token) = [k \in 1..(N + 1) |-> Between(a, N, at, k)]
    <3>1. IsCut(Split(a, token), a, N, at)
      BY <1>3, SplitIs
    <3> QED BY <3>1 DEF IsCut
  <2>3. Split(b, token) = [k \in 1..(M + 1) |-> Between(b, M, bt, k)]
    <3>1. IsCut(Split(b, token), b, M, bt)
      BY <1>4, SplitIs
    <3> QED BY <3>1 DEF IsCut
  <2> QED BY <2>1, <2>2, <2>3
<1>15. \A k \in 1..(N + 2) : Cut(x, K, ct, k) = Cut(a, N, at, k)
  <2> SUFFICES ASSUME NEW k \in 1..(N + 2) PROVE Cut(x, K, ct, k) = Cut(a, N, at, k)
    OBVIOUS
  <2>1. k # K + 2 /\ (k # 1 => (k = N + 2 /\ k - 1 = N + 1) \/ (k # N + 2 /\ k - 1 \in 1..N))
    BY <1>0, <1>5
  <2> QED BY <1>7, <2>1 DEF Cut, la
<1>16. \A k \in 1..(M + 2) : Cut(x, K, ct, N + 1 + k) = Cut(b, M, bt, k) + (la + 1)
  <2> SUFFICES ASSUME NEW k \in 1..(M + 2)
               PROVE  Cut(x, K, ct, N + 1 + k) = Cut(b, M, bt, k) + (la + 1)
    OBVIOUS
  <2>1. CASE k = 1
    <3>1. N + 1 + k # 1 /\ N + 1 + k # K + 2 /\ N + 1 + k - 1 = N + 1
      BY <1>0, <1>5, <2>1
    <3> QED BY <1>2, <1>7, <2>1, <3>1 DEF Cut
  <2>2. CASE k = M + 2
    <3>1. N + 1 + k # 1 /\ N + 1 + k = K + 2 /\ k # 1
      BY <1>0, <1>5, <2>2
    <3>2. Cut(x, K, ct, N + 1 + k) = Len(x) + 1 /\ Cut(b, M, bt, k) = lb + 1
      BY <2>2, <3>1 DEF Cut, lb
    <3> QED BY <1>1, <1>2, <3>2
  <2>3. CASE k # 1 /\ k # M + 2
    <3> DEFINE j == k - 1
    <3>1. N + 1 + k # 1 /\ N + 1 + k # K + 2 /\ j \in 1..M /\ N + 1 + k - 1 = N + 1 + j
      BY <1>0, <1>5, <2>3
    <3>2. Cut(b, M, bt, k) = bt[j]
      BY <2>3 DEF Cut
    <3> HIDE DEF j
    <3>3. Cut(x, K, ct, N + 1 + k) = ct[N + 1 + j]
      <4> DEFINE p == N + 1 + k
      <4>1. p # 1 /\ p # K + 2 /\ p - 1 = N + 1 + j
        BY <1>5, <3>1
      <4> HIDE DEF p
      <4>2. Cut(x, K, ct, p) = ct[N + 1 + j]
        BY <4>1 DEF Cut
      <4> QED BY <4>2 DEF p
    <3>4. ct[N + 1 + j] = la + 1 + bt[j] /\ bt[j] \in 1..lb
      BY <1>6, <1>7, <3>1
    <3> QED BY <1>2, <3>2, <3>3, <3>4
  <2> QED BY <2>1, <2>2, <2>3
<1>17. \A k \in 1..(N + 1) : Between(x, K, ct, k) = Between(a, N, at, k)
  <2> SUFFICES ASSUME NEW k \in 1..(N + 1) PROVE Between(x, K, ct, k) = Between(a, N, at, k)
    OBVIOUS
  <2> DEFINE m == Cut(a, N, at, k) + 1
             n == Cut(a, N, at, k + 1) - 1
  <2>1. k \in 1..(N + 2) /\ k + 1 \in 1..(N + 2)
    BY <1>5
  <2>2. Cut(a, N, at, k) \in 0..(la + 1) /\ Cut(a, N, at, k + 1) \in 0..(la + 1)
    BY <1>3, <2>1, CutsAscend DEF la
  <2>3. m \in Int /\ n \in Int /\ \A i \in m..n : i \in 1..la /\ i + 0 = i
    BY <1>2, <2>2
  <2>4. Cut(x, K, ct, k) + 1 = m + 0 /\ Cut(x, K, ct, k + 1) - 1 = n + 0
    BY <1>15, <2>1, <2>2
  <2>6. SubSeq(a, m, n) = Between(a, N, at, k)
    BY DEF Between
  <2> HIDE DEF m, n
  <2>5. SubSeq(x, m + 0, n + 0) = SubSeq(a, m, n)
    BY <1>1, <2>3, SubSeqShift DEF la
  <2> QED BY <2>4, <2>5, <2>6 DEF Between
<1>18. \A k \in 1..(M + 1) : Between(x, K, ct, N + 1 + k) = Between(b, M, bt, k)
  <2> SUFFICES ASSUME NEW k \in 1..(M + 1)
               PROVE  Between(x, K, ct, N + 1 + k) = Between(b, M, bt, k)
    OBVIOUS
  <2> DEFINE m == Cut(b, M, bt, k) + 1
             n == Cut(b, M, bt, k + 1) - 1
             d == la + 1
  <2>1. k \in 1..(M + 2) /\ k + 1 \in 1..(M + 2) /\ N + 1 + k + 1 = N + 1 + (k + 1)
    BY <1>5
  <2>2. Cut(b, M, bt, k) \in 0..(lb + 1) /\ Cut(b, M, bt, k + 1) \in 0..(lb + 1)
    BY <1>4, <2>1, CutsAscend DEF lb
  <2>3. /\ m \in Int /\ n \in Int /\ d \in Int
        /\ \A i \in m..n : i \in 1..lb /\ i + d = la + 1 + i
    BY <1>2, <2>2
  <2>4. /\ Cut(x, K, ct, N + 1 + k) + 1 = m + d
        /\ Cut(x, K, ct, N + 1 + k + 1) - 1 = n + d
    BY <1>2, <1>16, <2>1, <2>2
  <2>6. SubSeq(b, m, n) = Between(b, M, bt, k)
    BY DEF Between
  <2> HIDE DEF m, n, d
  <2>7. \A i \in m..n : i \in 1..Len(b) /\ x[i + d] = b[i]
    BY <1>1, <2>3 DEF lb
  <2>5. SubSeq(x, m + d, n + d) = SubSeq(b, m, n)
    BY <1>1, <2>3, <2>7, SubSeqShift
  <2> QED BY <2>4, <2>5, <2>6 DEF Between
<1> DEFINE sx == Split(x, token)
           sa == Split(a, token)
           sb == Split(b, token)
<1>19. sa \in Seq(Texts) /\ sb \in Seq(Texts) /\ sx \in Seq(Texts)
  BY <1>1, SplitParts
<1>20. Len(sa) = N + 1 /\ Len(sb) = M + 1 /\ Len(sx) = K + 1
  <2>1. DOMAIN sa = 1..(N + 1) /\ DOMAIN sb = 1..(M + 1) /\ DOMAIN sx = 1..(K + 1)
    BY <1>14
  <2>2. /\ DOMAIN sa = 1..Len(sa) /\ Len(sa) \in Nat /\ DOMAIN sb = 1..Len(sb) /\ Len(sb) \in Nat
        /\ DOMAIN sx = 1..Len(sx) /\ Len(sx) \in Nat
    BY <1>19, LenProperties
  <2> HIDE DEF sa, sb, sx
  <2> QED BY <1>5, <1>9, <2>1, <2>2
<1>21. /\ sa \o sb \in Seq(Texts) /\ Len(sa \o sb) = N + 1 + (M + 1)
       /\ \A k \in 1..(N + 1 + (M + 1)) :
            (sa \o sb)[k] = IF k <= N + 1 THEN sa[k] ELSE sb[k - (N + 1)]
  <2> HIDE DEF sa, sb
  <2>1. /\ sa \o sb \in Seq(Texts) /\ Len(sa \o sb) = Len(sa) + Len(sb)
        /\ \A k \in 1 .. Len(sa) + Len(sb) :
             (sa \o sb)[k] = IF k <= Len(sa) THEN sa[k] ELSE sb[k - Len(sa)]
    BY <1>19, ConcatProperties
  <2> QED BY <1>20, <2>1
<1>22. ASSUME NEW k \in 1..(K + 1) PROVE sx[k] = (sa \o sb)[k]
  <2>1. k \in 1..(N + 1 + (M + 1))
    BY <1>0, <1>5
  <2>2. CASE k <= N + 1
    <3>1. k \in 1..(N + 1)
      BY <1>5, <2>2
    <3>2. sx[k] = sa[k]
      BY <1>14, <1>17, <3>1
    <3> HIDE DEF sx, sa, sb
    <3> QED BY <1>21, <2>1, <2>2, <3>2
  <2>3. CASE ~(k <= N + 1)
    <3> DEFINE j == k - (N + 1)
    <3>1. j \in 1..(M + 1) /\ k = N + 1 + j
      BY <1>0, <1>5, <2>3
    <3>2. sx[k] = sb[j]
      <4> HIDE DEF j
      <4> QED BY <1>14, <1>18, <3>1
    <3> HIDE DEF sx, sa, sb
    <3> QED BY <1>21, <2>1, <2>3, <3>2
  <2> QED BY <2>2, <2>3
<1>23. Len(sx) = Len(sa \o sb)
  <2> HIDE DEF sx, sa, sb
  <2> QED BY <1>0, <1>20, <1>21
<1>24. sx = sa \o sb
  <2> DEFINE c == sa \o sb
  <2>1. sx \in Seq(Texts) /\ c \in Seq(Texts) /\ Len(sx) = Len(c) /\ \A k \in 1..Len(sx) : sx[k] = c[k]
    BY <1>19, <1>20, <1>21, <1>22, <1>23
  <2> HIDE DEF sx, c
  <2>2. sx = c
    BY <2>1, SeqEqual
  <2> QED BY <2>2 DEF c
<1> QED BY <1>24 DEF x

-----------------------------------------------------------------------------
(* Texts joined by a token. *)

\* f holds what the first of some texts are together, up to the m-th.
IsFlat(f, seqs, m) ==
  /\ f \in [1..m -> Texts] /\ f[1] = seqs[1]
  /\ \A i \in 1..(m - 1) : f[i + 1] = f[i] \o seqs[i + 1]

\* The function that FlattenSeq chooses.
Flattens(h, seqs) ==
  h = [i \in 1..Len(seqs) |-> IF i = 1 THEN seqs[i] ELSE h[i - 1] \o seqs[i]]

\* One more text can be put behind those before it.
LEMMA FlatGrows ==
  ASSUME NEW seqs, NEW m \in Nat, m >= 1, seqs[m + 1] \in Texts, NEW f, IsFlat(f, seqs, m)
  PROVE  \E h : IsFlat(h, seqs, m + 1)
<1> DEFINE v == f[m] \o seqs[m + 1]
           h == [i \in 1..(m + 1) |-> IF i <= m THEN f[i] ELSE v]
<1>1. /\ \A i \in 1..m : f[i] \in Texts
      /\ f[1] = seqs[1] /\ \A i \in 1..(m - 1) : f[i + 1] = f[i] \o seqs[i + 1]
  BY DEF IsFlat
<1>2. v \in Texts
  BY <1>1, ConcatIs
<1> HIDE DEF v
<1>3. (\A i \in 1..m : h[i] = f[i]) /\ h[m + 1] = v
  OBVIOUS
<1>4. h \in [1..(m + 1) -> Texts]
  BY <1>1, <1>2
<1> HIDE DEF h
<1>5. h[1] = seqs[1]
  BY <1>1, <1>3
<1>6. ASSUME NEW i \in 1..((m + 1) - 1) PROVE h[i + 1] = h[i] \o seqs[i + 1]
  <2>1. CASE i = m
    <3>1. h[m] = f[m] /\ h[m + 1] = f[m] \o seqs[m + 1]
      BY <1>3 DEF v
    <3> QED BY <2>1, <3>1
  <2>2. CASE i # m
    <3>1. i \in 1..(m - 1) /\ i \in 1..m /\ i + 1 \in 1..m
      BY <2>2
    <3> QED BY <1>1, <1>3, <3>1
  <2> QED BY <2>1, <2>2
<1> QED BY <1>4, <1>5, <1>6 DEF IsFlat

\* So any number of texts can be put together.
LEMMA FlatExists ==
  ASSUME NEW seqs, NEW n \in Nat \ {0}, \A i \in 1..n : seqs[i] \in Texts
  PROVE  \E f : IsFlat(f, seqs, n)
<1> DEFINE S == {k \in Nat : k + 1 <= n => \E f : IsFlat(f, seqs, k + 1)}
<1>1. 0 \in S
  <2> DEFINE f == [i \in 1..1 |-> seqs[1]]
  <2>1. f \in [1..1 -> Texts] /\ f[1] = seqs[1]
    OBVIOUS
  <2>2. IsFlat(f, seqs, 1)
    BY <2>1 DEF IsFlat
  <2>3. 0 + 1 = 1
    OBVIOUS
  <2> HIDE DEF f
  <2> QED BY <2>2, <2>3
<1>2. ASSUME NEW k \in Nat, k \in S PROVE k + 1 \in S
  <2> SUFFICES ASSUME k + 1 + 1 <= n PROVE \E f : IsFlat(f, seqs, k + 1 + 1)
    OBVIOUS
  <2>1. k + 1 <= n /\ k + 1 >= 1 /\ k + 1 \in Nat /\ k + 1 + 1 \in 1..n
    OBVIOUS
  <2>2. seqs[k + 1 + 1] \in Texts
    BY <2>1
  <2>3. PICK f : IsFlat(f, seqs, k + 1)
    BY <1>2, <2>1
  <2> DEFINE m == k + 1
  <2> HIDE DEF m
  <2>4. m \in Nat /\ m >= 1 /\ seqs[m + 1] \in Texts /\ IsFlat(f, seqs, m)
    BY <2>1, <2>2, <2>3 DEF m
  <2>5. \E h : IsFlat(h, seqs, m + 1)
    BY <2>4, FlatGrows
  <2> QED BY <2>5 DEF m
<1>3. n - 1 \in S /\ (n - 1) + 1 = n
  <2> HIDE DEF S
  <2>1. Nat \subseteq S
    BY <1>1, <1>2, SetInduction
  <2> QED BY <2>1
<1> QED BY <1>3

\* What puts them together solves the equation of FlattenSeq.
LEMMA FlatFlattens ==
  ASSUME NEW seqs, Len(seqs) \in Nat \ {0}, NEW f, IsFlat(f, seqs, Len(seqs))
  PROVE  Flattens(f, seqs)
<1> DEFINE n == Len(seqs)
<1>1. n \in Nat \ {0} /\ f = [i \in 1..n |-> f[i]] /\ f[1] = seqs[1]
      /\ \A i \in 1..(n - 1) : f[i + 1] = f[i] \o seqs[i + 1]
  BY DEF IsFlat
<1> HIDE DEF n
<1>2. \A i \in 1..n : f[i] = IF i = 1 THEN seqs[i] ELSE f[i - 1] \o seqs[i]
  <2> SUFFICES ASSUME NEW i \in 1..n, i # 1 PROVE f[i] = f[i - 1] \o seqs[i]
    BY <1>1
  <2> DEFINE k == i - 1
  <2>1. k \in 1..(n - 1) /\ k + 1 = i
    BY <1>1
  <2>2. f[k + 1] = f[k] \o seqs[k + 1]
    BY <1>1, <2>1
  <2> QED BY <2>1, <2>2
<1>3. f = [i \in 1..n |-> IF i = 1 THEN seqs[i] ELSE f[i - 1] \o seqs[i]]
  BY <1>1, <1>2
<1> QED BY <1>3 DEF Flattens, n

\* And whatever solves that equation puts them together.
LEMMA FlattensIsFlat ==
  ASSUME NEW seqs, Len(seqs) \in Nat \ {0}, \A i \in 1..Len(seqs) : seqs[i] \in Texts,
         NEW h, Flattens(h, seqs)
  PROVE  IsFlat(h, seqs, Len(seqs))
<1> DEFINE n == Len(seqs)
<1>1. n \in Nat \ {0} /\ \A i \in 1..n : seqs[i] \in Texts
  OBVIOUS
<1>2. h = [i \in 1..n |-> IF i = 1 THEN seqs[i] ELSE h[i - 1] \o seqs[i]]
  BY DEF Flattens
<1> HIDE DEF n
<1>3. DOMAIN h = 1..n /\ \A i \in 1..n : h[i] = IF i = 1 THEN seqs[i] ELSE h[i - 1] \o seqs[i]
  <2> DEFINE r == [i \in 1..n |-> IF i = 1 THEN seqs[i] ELSE h[i - 1] \o seqs[i]]
  <2>1. DOMAIN r = 1..n /\ \A i \in 1..n : r[i] = IF i = 1 THEN seqs[i] ELSE h[i - 1] \o seqs[i]
    OBVIOUS
  <2> HIDE DEF r
  <2>2. h = r
    BY <1>2 DEF r
  <2> QED BY <2>1, <2>2
<1>4. h[1] = seqs[1]
  <2>1. 1 \in 1..n
    BY <1>1
  <2> QED BY <1>3, <2>1, Zenon
<1>5. ASSUME NEW i \in 1..(n - 1) PROVE h[i + 1] = h[i] \o seqs[i + 1]
  <2>1. i + 1 \in 1..n /\ i + 1 # 1 /\ (i + 1) - 1 = i
    BY <1>1
  <2>2. h[i + 1] = h[(i + 1) - 1] \o seqs[i + 1]
    BY <1>3, <2>1
  <2> QED BY <2>1, <2>2
<1> DEFINE D == {k \in Nat : k + 1 \in 1..n => h[k + 1] \in Texts}
<1>6. 0 \in D
  BY <1>1, <1>4
<1>7. ASSUME NEW k \in Nat, k \in D PROVE k + 1 \in D
  <2> SUFFICES ASSUME k + 1 + 1 \in 1..n PROVE h[k + 1 + 1] \in Texts
    OBVIOUS
  <2> DEFINE p == k + 1
  <2>1. p \in 1..(n - 1) /\ p \in 1..n /\ p + 1 \in 1..n
    BY <1>1
  <2>2. p \in 1..n => h[p] \in Texts
    BY <1>7
  <2> HIDE DEF p
  <2>3. h[p] \in Texts /\ seqs[p + 1] \in Texts /\ h[p + 1] = h[p] \o seqs[p + 1]
    BY <1>1, <1>5, <2>1, <2>2
  <2>4. h[p + 1] \in Texts
    BY <2>3, ConcatIs
  <2> QED BY <2>4 DEF p
<1>8. \A i \in 1..n : h[i] \in Texts
  <2> SUFFICES ASSUME NEW i \in 1..n PROVE h[i] \in Texts
    OBVIOUS
  <2>1. i - 1 \in Nat /\ (i - 1) + 1 = i
    BY <1>1
  <2> HIDE DEF D
  <2>2. Nat \subseteq D
    BY <1>6, <1>7, SetInduction
  <2>3. i - 1 \in D
    BY <2>1, <2>2
  <2> QED BY <2>1, <2>3 DEF D
<1>9. h = [i \in 1..n |-> h[i]]
  BY <1>2, <1>3
<1>10. h \in [1..n -> Texts]
  BY <1>8, <1>9
<1> QED BY <1>4, <1>5, <1>10 DEF IsFlat, n

\* FlattenSeq returns the texts put together.
LEMMA FlattenIs ==
  ASSUME NEW seqs \in Seq(Texts), Len(seqs) \in Nat \ {0}
  PROVE  \E f : IsFlat(f, seqs, Len(seqs)) /\ FlattenSeq(seqs) = f[Len(seqs)]
<1> DEFINE h == CHOOSE x : Flattens(x, seqs)
<1>1. \A i \in 1..Len(seqs) : seqs[i] \in Texts
  BY ElementOfSeq
<1>2. \E x : Flattens(x, seqs)
  BY <1>1, FlatExists, FlatFlattens
<1>3. Flattens(h, seqs)
  BY <1>2, Zenon
<1>4. FlattenSeq(seqs) = h[Len(seqs)]
  BY DEF FlattenSeq, Flattens
<1> HIDE DEF h
<1> QED BY <1>1, <1>3, <1>4, FlattensIsFlat

\* J holds what the first of some parts are when they are joined.
IsJoined(J, parts, token) ==
  /\ J \in [1..Len(parts) -> Texts] /\ J[1] = parts[1]
  /\ \A i \in 1..(Len(parts) - 1) : J[i + 1] = J[i] \o (<<token>> \o parts[i + 1])

\* What has a length is not empty.
LEMMA NotEmpty ==
  ASSUME NEW x, Len(x) > 0
  PROVE  x # <<>>
BY EmptySeq

\* Without its first token a text is what follows it.
LEMMA TailOfToken ==
  ASSUME NEW x \in Texts, NEW y \in Texts, NEW token \in Token
  PROVE  /\ Tail(<<token>> \o y) = y
         /\ x # <<>> => Tail(x \o y) = Tail(x) \o y
<1>1. /\ <<token>> \o y \in Texts /\ Len(<<token>> \o y) = 1 + Len(y)
      /\ \A i \in 1..Len(y) : (<<token>> \o y)[1 + i] = y[i]
  <2> DEFINE w == <<token>>
  <2>1. w \in Texts /\ Len(w) = 1
    BY TokenText
  <2> HIDE DEF w
  <2>2. /\ w \o y \in Texts /\ Len(w \o y) = Len(w) + Len(y)
        /\ \A i \in 1..Len(y) : (w \o y)[Len(w) + i] = y[i]
    BY <2>1, ConcatIs
  <2> QED BY <2>1, <2>2 DEF w
<1>2. Len(x) \in Nat /\ Len(y) \in Nat
  BY TextLength
<1>3. \A t \in Texts : Len(t) > 0 => /\ Tail(t) \in Texts /\ Len(Tail(t)) = Len(t) - 1
                                     /\ \A i \in 1..Len(Tail(t)) : Tail(t)[i] = t[i + 1]
  <2> SUFFICES ASSUME NEW t \in Texts, Len(t) > 0
               PROVE  /\ Tail(t) \in Texts /\ Len(Tail(t)) = Len(t) - 1
                      /\ \A i \in 1..Len(Tail(t)) : Tail(t)[i] = t[i + 1]
    OBVIOUS
  <2>1. t # <<>> /\ t \in Seq(Token)
    BY EmptySeq DEF Texts
  <2> QED BY <2>1, HeadTailProperties DEF Texts
<1>4. Tail(<<token>> \o y) = y
  <2> DEFINE z == <<token>> \o y
  <2>1. Len(z) > 0
    BY <1>1, <1>2
  <2> HIDE DEF z
  <2>2. /\ Tail(z) \in Texts /\ Len(Tail(z)) = Len(y)
        /\ \A i \in 1..Len(Tail(z)) : Tail(z)[i] = z[i + 1]
    <3>1. z \in Texts /\ Len(z) = 1 + Len(y)
      BY <1>1 DEF z
    <3>2. /\ Tail(z) \in Texts /\ Len(Tail(z)) = Len(z) - 1
          /\ \A i \in 1..Len(Tail(z)) : Tail(z)[i] = z[i + 1]
      BY <1>3, <2>1, <3>1
    <3> QED BY <1>2, <3>1, <3>2
  <2>3. \A i \in 1..Len(Tail(z)) : Tail(z)[i] = y[i]
    <3> SUFFICES ASSUME NEW i \in 1..Len(Tail(z)) PROVE Tail(z)[i] = y[i]
      OBVIOUS
    <3>1. i + 1 = 1 + i /\ i \in 1..Len(y)
      BY <1>2, <2>2
    <3>2. z[1 + i] = y[i]
      BY <1>1, <3>1 DEF z
    <3> QED BY <2>2, <3>1, <3>2
  <2>4. Tail(z) = y
    BY <2>2, <2>3, SameText
  <2> QED BY <2>4 DEF z
<1>5. ASSUME x # <<>> PROVE Tail(x \o y) = Tail(x) \o y
  <2> DEFINE z == x \o y
             u == Tail(x)
  <2>1. Len(x) > 0
    BY <1>2, <1>5, EmptySeq DEF Texts
  <2>2. /\ z \in Texts /\ Len(z) = Len(x) + Len(y)
        /\ \A i \in 1..Len(x) : z[i] = x[i]
        /\ \A i \in 1..Len(y) : z[Len(x) + i] = y[i]
    BY ConcatIs
  <2>3. u \in Texts /\ Len(u) = Len(x) - 1 /\ \A i \in 1..Len(u) : u[i] = x[i + 1]
    BY <1>3, <2>1
  <2> HIDE DEF z, u
  <2>4. /\ u \o y \in Texts /\ Len(u \o y) = Len(u) + Len(y)
        /\ \A i \in 1..Len(u) : (u \o y)[i] = u[i]
        /\ \A i \in 1..Len(y) : (u \o y)[Len(u) + i] = y[i]
    BY <2>3, ConcatIs
  <2>5. Len(z) > 0
    BY <1>2, <2>1, <2>2
  <2>6. /\ Tail(z) \in Texts /\ Len(Tail(z)) = Len(z) - 1
        /\ \A i \in 1..Len(Tail(z)) : Tail(z)[i] = z[i + 1]
    BY <1>3, <2>2, <2>5
  <2> DEFINE v == u \o y
  <2> HIDE DEF v
  <2>7. Len(Tail(z)) = Len(v)
    BY <1>2, <2>2, <2>3, <2>4, <2>6 DEF v
  <2>8. ASSUME NEW i \in 1..Len(Tail(z)) PROVE Tail(z)[i] = v[i]
    <3>1. CASE i <= Len(u)
      <4>1. i \in 1..Len(u) /\ i + 1 \in 1..Len(x)
        BY <1>2, <2>3, <3>1
      <4> QED BY <2>2, <2>3, <2>4, <2>6, <4>1 DEF v
    <3>2. CASE ~(i <= Len(u))
      <4> DEFINE j == i - Len(u)
      <4>1. j \in 1..Len(y) /\ i = Len(u) + j /\ i + 1 = Len(x) + j
        BY <1>2, <2>2, <2>3, <2>6, <3>2
      <4> HIDE DEF j
      <4>2. v[i] = y[j] /\ z[i + 1] = y[j]
        BY <2>2, <2>4, <4>1 DEF v
      <4> QED BY <2>6, <4>2
    <3> QED BY <3>1, <3>2
  <2>9. Tail(z) = v
    BY <2>4, <2>6, <2>7, <2>8, SameText DEF v
  <2> QED BY <2>9 DEF z, v, u
<1> QED BY <1>4, <1>5

\* Join puts the token between the parts.
LEMMA JoinIs ==
  ASSUME NEW parts \in Seq(Texts), Len(parts) \in Nat \ {0}, NEW token \in Token
  PROVE  \E J : IsJoined(J, parts, token) /\ Join(parts, token) = J[Len(parts)]
<1> DEFINE n == Len(parts)
           seqs == [i \in DOMAIN parts |-> <<token>> \o parts[i]]
<1>1. n \in Nat \ {0} /\ DOMAIN parts = 1..n /\ \A i \in 1..n : parts[i] \in Texts
  BY LenProperties, ElementOfSeq
<1> HIDE DEF n
<1>2. \A i \in 1..n : seqs[i] = <<token>> \o parts[i] /\ seqs[i] \in Texts
  BY <1>1, TokenText, ConcatIs
<1>3. seqs = [i \in 1..n |-> seqs[i]]
  BY <1>1
<1> HIDE DEF seqs
<1>4. seqs \in Seq(Texts) /\ Len(seqs) = n
  <2>1. seqs \in [1..n -> Texts]
    BY <1>2, <1>3
  <2> QED BY <1>1, <2>1, LengthOfFunction
<1>5. PICK f : IsFlat(f, seqs, n) /\ FlattenSeq(seqs) = f[n]
  BY <1>1, <1>4, FlattenIs
<1>6. /\ f \in [1..n -> Texts] /\ f[1] = seqs[1]
      /\ \A i \in 1..(n - 1) : f[i + 1] = f[i] \o seqs[i + 1]
  BY <1>4, <1>5 DEF IsFlat
<1> DEFINE S == {k \in Nat : k + 1 \in 1..n => f[k + 1] # <<>>}
<1>7. \A i \in 1..n : Len(seqs[i]) > 0
  <2> SUFFICES ASSUME NEW i \in 1..n PROVE Len(seqs[i]) > 0
    OBVIOUS
  <2>1. Len(<<token>> \o parts[i]) = 1 + Len(parts[i]) /\ Len(parts[i]) \in Nat
    BY <1>1, TokenText, ConcatIs, TextLength
  <2> QED BY <1>2, <2>1
<1>8. Nat \subseteq S
  <2>1. 0 \in S
    <3>1. 1 \in 1..n /\ f[1] = seqs[1] /\ Len(seqs[1]) > 0
      BY <1>1, <1>6, <1>7
    <3>2. f[1] # <<>>
      BY <3>1, NotEmpty
    <3> QED BY <3>2
  <2>2. ASSUME NEW k \in Nat, k \in S PROVE k + 1 \in S
    <3> SUFFICES ASSUME k + 1 + 1 \in 1..n PROVE f[k + 1 + 1] # <<>>
      OBVIOUS
    <3>1. k + 1 \in 1..(n - 1) /\ k + 1 \in 1..n
      BY <1>1
    <3> DEFINE p == k + 1
    <3>0. p \in 1..(n - 1) /\ p \in 1..n /\ p + 1 \in 1..n
      BY <3>1, <1>1
    <3> HIDE DEF p
    <3>2. f[p] \in Texts /\ seqs[p + 1] \in Texts /\ f[p + 1] = f[p] \o seqs[p + 1]
      BY <1>2, <1>6, <3>0
    <3>3. Len(f[p + 1]) = Len(f[p]) + Len(seqs[p + 1])
      BY <3>2, ConcatIs
    <3>4. Len(f[p]) \in Nat /\ Len(seqs[p + 1]) \in Nat /\ Len(seqs[p + 1]) > 0
      BY <1>7, <3>0, <3>2, TextLength
    <3> DEFINE a == Len(f[p])
               b == Len(seqs[p + 1])
               c == Len(f[p + 1])
    <3>6. c = a + b /\ a \in Nat /\ b \in Nat /\ b > 0
      BY <3>3, <3>4
    <3> HIDE DEF a, b, c
    <3>7. c > 0
      BY <3>6
    <3>5. Len(f[p + 1]) > 0
      BY <3>7 DEF c
    <3> QED BY <3>5, NotEmpty DEF p
  <2> HIDE DEF S
  <2> QED BY <2>1, <2>2, SetInduction
<1>9. \A i \in 1..n : f[i] # <<>>
  <2> SUFFICES ASSUME NEW i \in 1..n PROVE f[i] # <<>>
    OBVIOUS
  <2>1. i - 1 \in Nat /\ (i - 1) + 1 = i
    BY <1>1
  <2>2. i - 1 \in S
    BY <1>8, <2>1
  <2> QED BY <2>1, <2>2
<1> DEFINE J == [i \in 1..n |-> Tail(f[i])]
<1>10. J \in [1..n -> Texts]
  <2> SUFFICES ASSUME NEW i \in 1..n PROVE Tail(f[i]) \in Texts
    OBVIOUS
  <2>1. f[i] \in Seq(Token) /\ f[i] # <<>>
    BY <1>6, <1>9 DEF Texts
  <2> QED BY <2>1, HeadTailProperties DEF Texts
<1>11. J[1] = parts[1]
  <2>0. 1 \in 1..n
    BY <1>1
  <2>1. f[1] = <<token>> \o parts[1] /\ parts[1] \in Texts
    BY <1>1, <1>2, <1>6, <2>0, Zenon
  <2>2. Tail(f[1]) = parts[1]
    BY <2>1, TailOfToken
  <2> QED BY <2>0, <2>2
<1>12. ASSUME NEW i \in 1..(n - 1) PROVE J[i + 1] = J[i] \o (<<token>> \o parts[i + 1])
  <2>1. i \in 1..n /\ i + 1 \in 1..n
    BY <1>1
  <2>2. f[i] \in Texts /\ seqs[i + 1] \in Texts /\ f[i] # <<>> /\ f[i + 1] = f[i] \o seqs[i + 1]
    BY <1>2, <1>6, <1>9, <2>1
  <2>3. Tail(f[i + 1]) = Tail(f[i]) \o seqs[i + 1]
    <3> DEFINE x == f[i]
               y == seqs[i + 1]
    <3>1. x \in Texts /\ y \in Texts /\ x # <<>> /\ f[i + 1] = x \o y
      BY <2>2
    <3> HIDE DEF x, y
    <3>2. Tail(x \o y) = Tail(x) \o y
      BY <3>1, TailOfToken
    <3> QED BY <3>1, <3>2 DEF x, y
  <2> QED BY <1>2, <2>1, <2>3
<1>13. IsJoined(J, parts, token)
  <2> HIDE DEF J
  <2> QED BY <1>10, <1>11, <1>12 DEF IsJoined, n
<1>14. Join(parts, token) = J[n]
  <2>1. Join(parts, token) = Tail(f[n])
    BY <1>5 DEF Join, seqs
  <2> QED BY <1>1, <2>1
<1> QED BY <1>13, <1>14 DEF n

-----------------------------------------------------------------------------
(* What is joined can be told apart. *)

\* The first m of two sequences are the same.
Alike(parts, more, m) ==
  /\ m \in Nat \ {0} /\ Len(parts) \in Nat /\ Len(more) \in Nat
  /\ m <= Len(parts) /\ m <= Len(more) /\ \A i \in 1..m : parts[i] = more[i]

\* Two joins are the same up to the m-th part.
Agree(J, K, m) == J[m] = K[m]

\* The joins of texts that begin alike begin alike.
LEMMA JoinsAgree ==
  ASSUME NEW parts, NEW more, NEW token, NEW J, NEW K, NEW m,
         IsJoined(J, parts, token), IsJoined(K, more, token), Alike(parts, more, m)
  PROVE  Agree(J, K, m)
<1> DEFINE S == {k \in Nat : k + 1 <= m => J[k + 1] = K[k + 1]}
           n == Len(parts)
           o == Len(more)
<1>1. /\ J[1] = parts[1] /\ \A i \in 1..(n - 1) : J[i + 1] = J[i] \o (<<token>> \o parts[i + 1])
      /\ K[1] = more[1] /\ \A i \in 1..(o - 1) : K[i + 1] = K[i] \o (<<token>> \o more[i + 1])
  BY DEF IsJoined
<1>2. n \in Nat /\ o \in Nat /\ m \in Nat \ {0} /\ m <= n /\ m <= o /\ \A i \in 1..m : parts[i] = more[i]
  BY DEF Alike
<1> HIDE DEF n, o
<1>3. 0 \in S
  BY <1>1, <1>2
<1>4. ASSUME NEW k \in Nat, k \in S PROVE k + 1 \in S
  <2> SUFFICES ASSUME k + 1 + 1 <= m PROVE J[k + 1 + 1] = K[k + 1 + 1]
    OBVIOUS
  <2> DEFINE p == k + 1
  <2>1. p \in 1..(n - 1) /\ p \in 1..(o - 1) /\ p + 1 \in 1..m /\ p <= m
    BY <1>2
  <2>2. J[p] = K[p]
    BY <1>4, <2>1
  <2> HIDE DEF p
  <2>3. parts[p + 1] = more[p + 1]
    BY <1>2, <2>1
  <2>4. J[p + 1] = J[p] \o (<<token>> \o parts[p + 1]) /\ K[p + 1] = K[p] \o (<<token>> \o more[p + 1])
    BY <1>1, <2>1
  <2>5. J[p + 1] = K[p + 1]
    BY <2>2, <2>3, <2>4
  <2> QED BY <2>5 DEF p
<1>5. m - 1 \in Nat /\ (m - 1) + 1 = m
  BY <1>2
<1> HIDE DEF S
<1>6. Nat \subseteq S
  BY <1>3, <1>4, SetInduction
<1>7. m - 1 \in S
  BY <1>5, <1>6
<1> QED BY <1>2, <1>5, <1>7 DEF S, Agree

\* What is joined is a text.
LEMMA JoinIsText ==
  ASSUME NEW parts \in Seq(Texts), Len(parts) \in Nat \ {0}, NEW token \in Token
  PROVE  Join(parts, token) \in Texts
<1>1. PICK J : IsJoined(J, parts, token) /\ Join(parts, token) = J[Len(parts)]
  BY JoinIs
<1>2. J \in [1..Len(parts) -> Texts]
  BY <1>1 DEF IsJoined
<1>3. Len(parts) \in 1..Len(parts)
  OBVIOUS
<1> QED BY <1>1, <1>2, <1>3

\* One part is joined to itself.
LEMMA JoinOne ==
  ASSUME NEW parts \in Seq(Texts), Len(parts) = 1, NEW token \in Token
  PROVE  Join(parts, token) = parts[1]
<1>0. Len(parts) \in Nat \ {0}
  OBVIOUS
<1>1. PICK J : IsJoined(J, parts, token) /\ Join(parts, token) = J[Len(parts)]
  BY <1>0, JoinIs
<1> QED BY <1>1 DEF IsJoined

\* One more text is joined behind a token.
LEMMA JoinMore ==
  ASSUME NEW parts \in Seq(Texts), NEW more \in Seq(Texts), NEW token \in Token,
         NEW m \in Nat, m >= 1, Len(parts) = m, Len(more) = m + 1,
         \A i \in 1..m : parts[i] = more[i]
  PROVE  Join(more, token) = Join(parts, token) \o (<<token>> \o more[m + 1])
<1>1. PICK J : IsJoined(J, parts, token) /\ Join(parts, token) = J[m]
  BY JoinIs
<1>2. Len(more) \in Nat \ {0}
  OBVIOUS
<1>3. PICK K : IsJoined(K, more, token) /\ Join(more, token) = K[m + 1]
  BY <1>2, JoinIs
<1>4. J[m] = K[m]
  <2>1. Alike(parts, more, m)
    BY DEF Alike
  <2>2. Agree(J, K, m)
    BY <1>1, <1>3, <2>1, JoinsAgree
  <2> QED BY <2>2 DEF Agree
<1>5. K[m + 1] = K[m] \o (<<token>> \o more[m + 1])
  <2>1. m \in 1..(Len(more) - 1)
    OBVIOUS
  <2> QED BY <1>3, <2>1 DEF IsJoined
<1> QED BY <1>1, <1>3, <1>4, <1>5

\* A property that joining keeps.
LEMMA JoinKeeps ==
  ASSUME NEW parts \in Seq(Texts), Len(parts) \in Nat \ {0}, NEW token \in Token, NEW G,
         \A i \in 1..Len(parts) : parts[i] \in G,
         \A x, y \in Texts : x \in G /\ y \in G => x \o (<<token>> \o y) \in G
  PROVE  Join(parts, token) \in G
<1> DEFINE n == Len(parts)
<1>1. PICK J : IsJoined(J, parts, token) /\ Join(parts, token) = J[n]
  BY JoinIs
<1> DEFINE S == {k \in Nat : k + 1 <= n => J[k + 1] \in G}
<1>2. /\ J \in [1..n -> Texts] /\ J[1] = parts[1]
      /\ \A i \in 1..(n - 1) : J[i + 1] = J[i] \o (<<token>> \o parts[i + 1])
  BY <1>1 DEF IsJoined
<1>3. n \in Nat \ {0} /\ \A i \in 1..n : parts[i] \in G /\ parts[i] \in Texts
  BY ElementOfSeq
<1> HIDE DEF n
<1>4. 0 \in S
  BY <1>2, <1>3
<1>5. ASSUME NEW k \in Nat, k \in S PROVE k + 1 \in S
  <2> SUFFICES ASSUME k + 1 + 1 <= n PROVE J[k + 1 + 1] \in G
    OBVIOUS
  <2> DEFINE p == k + 1
  <2>1. p \in 1..(n - 1) /\ p \in 1..n /\ p + 1 \in 1..n
    BY <1>3
  <2>2. J[p] \in G
    BY <1>5, <2>1
  <2> HIDE DEF p
  <2>3. /\ J[p] \in Texts /\ parts[p + 1] \in Texts /\ parts[p + 1] \in G
        /\ J[p + 1] = J[p] \o (<<token>> \o parts[p + 1])
    BY <1>2, <1>3, <2>1
  <2>5. J[p + 1] \in G
    BY <2>2, <2>3
  <2> QED BY <2>5 DEF p
<1>6. n - 1 \in Nat /\ (n - 1) + 1 = n
  BY <1>3
<1> HIDE DEF S
<1>7. Nat \subseteq S
  BY <1>4, <1>5, SetInduction
<1>8. n - 1 \in S
  BY <1>6, <1>7
<1>9. J[n] \in G
  BY <1>6, <1>8 DEF S
<1> QED BY <1>1, <1>9

\* Where a token is in two texts together.
LEMMA HasConcat ==
  ASSUME NEW a \in Texts, NEW b \in Texts, NEW token
  PROVE  Has(a \o b, token) <=> Has(a, token) \/ Has(b, token)
<1> DEFINE x == a \o b
           la == Len(a)
           lb == Len(b)
<1>1. /\ x \in Texts /\ Len(x) = la + lb
      /\ \A i \in 1..la : x[i] = a[i]
      /\ \A i \in 1..lb : x[la + i] = b[i]
  BY ConcatIs
<1>2. la \in Nat /\ lb \in Nat
  BY TextLength
<1>3. /\ Has(x, token) <=> \E i \in 1..Len(x) : x[i] = token
      /\ Has(a, token) <=> \E i \in 1..la : a[i] = token
      /\ Has(b, token) <=> \E i \in 1..lb : b[i] = token
  BY <1>1, HasIs
<1> HIDE DEF x, la, lb
<1>4. ASSUME NEW i \in 1..Len(x), x[i] = token PROVE Has(a, token) \/ Has(b, token)
  <2>1. CASE i <= la
    <3>1. i \in 1..la
      BY <1>1, <1>2, <2>1
    <3> QED BY <1>1, <1>3, <1>4, <3>1
  <2>2. CASE ~(i <= la)
    <3> DEFINE j == i - la
    <3>1. j \in 1..lb /\ la + j = i
      BY <1>1, <1>2, <2>2
    <3> HIDE DEF j
    <3>2. b[j] = token
      BY <1>1, <1>4, <3>1
    <3> QED BY <1>3, <3>1, <3>2
  <2> QED BY <2>1, <2>2
<1>5. ASSUME NEW i \in 1..la, a[i] = token PROVE \E k \in 1..Len(x) : x[k] = token
  <2>1. i \in 1..Len(x)
    BY <1>1, <1>2
  <2> QED BY <1>1, <1>5, <2>1
<1>6. ASSUME NEW i \in 1..lb, b[i] = token PROVE \E k \in 1..Len(x) : x[k] = token
  <2>1. la + i \in 1..Len(x)
    BY <1>1, <1>2
  <2> QED BY <1>1, <1>6, <2>1
<1>7. Has(x, token) <=> Has(a, token) \/ Has(b, token)
  BY <1>3, <1>4, <1>5, <1>6
<1> QED BY <1>7 DEF x

\* A text has another token no less for one in front of it.
LEMMA HasToken ==
  ASSUME NEW t \in Token, NEW b \in Texts, NEW token, token # t
  PROVE  Has(<<t>> \o b, token) <=> Has(b, token)
<1>1. <<t>> \in Texts /\ Len(<<t>>) = 1 /\ <<t>>[1] = t
  BY TokenText
<1>2. ~Has(<<t>>, token)
  <2> DEFINE w == <<t>>
  <2>1. w \in Texts /\ Len(w) = 1 /\ w[1] = t
    BY <1>1
  <2> HIDE DEF w
  <2>2. ~Has(w, token)
    <3>1. \A i \in 1..1 : i = 1
      OBVIOUS
    <3> QED BY <2>1, <3>1, HasIs
  <2> QED BY <2>2 DEF w
<1> QED BY <1>1, <1>2, HasConcat

\* What is joined has no token that neither the parts have nor is between them.
LEMMA HasJoin ==
  ASSUME NEW parts \in Seq(Texts), Len(parts) \in Nat \ {0}, NEW t \in Token, NEW token, token # t,
         \A i \in 1..Len(parts) : ~Has(parts[i], token)
  PROVE  ~Has(Join(parts, t), token)
<1> DEFINE G == {x \in Texts : ~Has(x, token)}
<1>1. \A i \in 1..Len(parts) : parts[i] \in G
  BY ElementOfSeq
<1>2. ASSUME NEW x \in Texts, NEW y \in Texts, x \in G, y \in G PROVE x \o (<<t>> \o y) \in G
  <2>1. ~Has(<<t>> \o y, token)
    BY <1>2, HasToken
  <2>2. <<t>> \o y \in Texts
    BY TokenText, ConcatIs
  <2> HIDE DEF G
  <2>3. x \o (<<t>> \o y) \in Texts
    BY <2>2, ConcatIs
  <2>4. ~Has(x, token)
    BY <1>2 DEF G
  <2>5. ~Has(x \o (<<t>> \o y), token)
    BY <2>1, <2>2, <2>4, HasConcat
  <2> QED BY <2>3, <2>5 DEF G
<1> HIDE DEF G
<1>3. Join(parts, t) \in G
  BY <1>1, <1>2, JoinKeeps
<1> QED BY <1>3 DEF G

\* The first of some texts.
First(parts, k) == [i \in 1..k |-> parts[i]]

\* The first parts are these.
LEMMA FirstIs ==
  ASSUME NEW parts, NEW p \in Nat, \A i \in 1..p : parts[i] \in Texts
  PROVE  /\ First(parts, p) \in Seq(Texts) /\ Len(First(parts, p)) = p
         /\ \A i \in 1..p : First(parts, p)[i] = parts[i]
<1>1. First(parts, p) \in [1..p -> Texts] /\ \A i \in 1..p : First(parts, p)[i] = parts[i]
  BY DEF First
<1> QED BY <1>1, LengthOfFunction

\* All of them are the first ones.
LEMMA AllIsFirst ==
  ASSUME NEW parts \in Seq(Texts)
  PROVE  parts = First(parts, Len(parts))
<1>1. parts \in [1..Len(parts) -> Texts]
  BY LenProperties
<1> QED BY <1>1 DEF First

\* Parts that are the first ones of others.
LEMMA SameFirst ==
  ASSUME NEW parts \in Seq(Texts), NEW p \in Nat, Len(parts) = p,
         NEW all, \A i \in 1..p : parts[i] = all[i]
  PROVE  parts = First(all, p)
<1>1. parts = First(parts, p)
  BY AllIsFirst
<1>2. First(parts, p) = First(all, p)
  BY DEF First
<1> QED BY <1>1, <1>2

\* One part more of the first ones.
LEMMA FirstGrows ==
  ASSUME NEW parts, NEW p \in Nat, \A i \in 1..(p + 1) : parts[i] \in Texts
  PROVE  First(parts, p) \o <<parts[p + 1]>> = First(parts, p + 1)
<1> DEFINE f == First(parts, p)
           q == parts[p + 1]
           w == <<q>>
<1>1. f \in Seq(Texts) /\ Len(f) = p /\ \A i \in 1..p : f[i] = parts[i]
  BY FirstIs
<1>2. w \in Seq(Texts) /\ Len(w) = 1 /\ w[1] = q
  BY OneIsSeq
<1> HIDE DEF f, w
<1> DEFINE x == f \o w
<1>3. /\ x \in Seq(Texts) /\ Len(x) = p + 1
      /\ \A i \in 1..(p + 1) : x[i] = IF i <= p THEN f[i] ELSE w[i - p]
  BY <1>1, <1>2, ConcatProperties
<1> HIDE DEF x
<1>4. ASSUME NEW i \in 1..(p + 1) PROVE x[i] = parts[i]
  <2>1. CASE i <= p
    <3>1. i \in 1..p
      BY <2>1
    <3> QED BY <1>1, <1>3, <2>1, <3>1
  <2>2. CASE ~(i <= p)
    <3>1. i = p + 1 /\ i - p = 1
      BY <2>2
    <3> QED BY <1>2, <1>3, <2>2, <3>1
  <2> QED BY <2>1, <2>2
<1>5. x = First(parts, p + 1)
  BY <1>3, <1>4, SameFirst
<1> QED BY <1>5 DEF x, f, w

\* Texts that do not have the token can be told apart when they are joined.
LEMMA SplitJoin ==
  ASSUME NEW parts \in Seq(Texts), Len(parts) \in Nat \ {0}, NEW token \in Token,
         \A i \in 1..Len(parts) : ~Has(parts[i], token)
  PROVE  Split(Join(parts, token), token) = parts
<1> DEFINE n == Len(parts)
<1>1. PICK J : IsJoined(J, parts, token) /\ Join(parts, token) = J[n]
  BY JoinIs
<1>2. /\ J \in [1..n -> Texts] /\ J[1] = parts[1]
      /\ \A i \in 1..(n - 1) : J[i + 1] = J[i] \o (<<token>> \o parts[i + 1])
  BY <1>1 DEF IsJoined
<1>3. n \in Nat \ {0} /\ \A i \in 1..n : parts[i] \in Texts /\ ~Has(parts[i], token)
  BY ElementOfSeq
<1>4. \A i \in 1..n : Split(parts[i], token) = <<parts[i]>>
  BY <1>3, Uncut
<1>5. parts = First(parts, n)
  BY AllIsFirst
<1> DEFINE Told(k) == Split(J[k], token) = First(parts, k)
           S == {k \in Nat : k + 1 <= n => Told(k + 1)}
<1> HIDE DEF n, Told
<1>6. 0 \in S
  <2>1. 1 \in 1..n
    BY <1>3
  <2>2. Split(J[1], token) = <<parts[1]>>
    BY <1>2, <1>4, <2>1
  <2>3. <<parts[1]>> = First(parts, 1)
    <3>1. <<parts[1]>> \in Seq(Texts) /\ Len(<<parts[1]>>) = 1 /\ <<parts[1]>>[1] = parts[1]
      BY <1>3, <2>1, OneIsSeq
    <3> DEFINE w == <<parts[1]>>
    <3>2. w \in Seq(Texts) /\ Len(w) = 1 /\ \A i \in 1..1 : w[i] = parts[i]
      BY <3>1
    <3> HIDE DEF w
    <3>3. w = First(parts, 1)
      BY <3>2, SameFirst
    <3> QED BY <3>3 DEF w
  <2>4. 0 + 1 = 1
    OBVIOUS
  <2>5. Told(1)
    BY <2>2, <2>3 DEF Told
  <2> QED BY <2>4, <2>5
<1>7. ASSUME NEW k \in Nat, k \in S PROVE k + 1 \in S
  <2> SUFFICES ASSUME k + 1 + 1 <= n PROVE Told(k + 1 + 1)
    OBVIOUS
  <2> DEFINE p == k + 1
  <2>1. p \in 1..(n - 1) /\ p \in 1..n /\ p + 1 \in 1..n /\ p \in Nat
    BY <1>3
  <2>7. p <= n
    BY <2>1, <1>3
  <2>8. Told(p)
    BY <1>7, <2>7
  <2> HIDE DEF p
  <2>2. Split(J[p], token) = First(parts, p)
    BY <2>8 DEF Told
  <2>3. /\ J[p] \in Texts /\ parts[p + 1] \in Texts
        /\ J[p + 1] = J[p] \o (<<token>> \o parts[p + 1])
    BY <1>2, <1>3, <2>1
  <2>4. Split(J[p + 1], token) = First(parts, p) \o <<parts[p + 1]>>
    <3>1. Split(J[p] \o (<<token>> \o parts[p + 1]), token)
            = Split(J[p], token) \o Split(parts[p + 1], token)
      BY <2>3, SplitAt
    <3> QED BY <1>4, <2>1, <2>2, <2>3, <3>1
  <2>5. First(parts, p) \o <<parts[p + 1]>> = First(parts, p + 1)
    <3>1. \A i \in 1..(p + 1) : i \in 1..n
      BY <1>3, <2>1
    <3> QED BY <1>3, <2>1, <3>1, FirstGrows
  <2>6. Told(p + 1)
    BY <2>4, <2>5 DEF Told
  <2> QED BY <2>6 DEF p
<1>8. n - 1 \in Nat /\ (n - 1) + 1 = n /\ (n - 1) + 1 <= n
  BY <1>3
<1> HIDE DEF S
<1>9. Nat \subseteq S
  BY <1>6, <1>7, SetInduction
<1>10. n - 1 \in S
  BY <1>8, <1>9
<1>11. Split(J[n], token) = First(parts, n)
  BY <1>8, <1>10 DEF S, Told
<1> QED BY <1>1, <1>5, <1>11

-----------------------------------------------------------------------------
(* What is cut apart is joined again. *)

\* A text cut at a token has what is before it, the token and what is behind it.
LEMMA Regained ==
  ASSUME NEW text \in Texts, NEW c \in 1..Len(text), NEW d \in c..Len(text)
  PROVE  SubSeq(text, 1, c - 1) \o (<<text[c]>> \o SubSeq(text, c + 1, d)) = SubSeq(text, 1, d)
<1> DEFINE n == Len(text)
<1>1. n \in Nat
  BY TextLength
<1>2. text \in Seq(Token) /\ n = Len(text)
  BY DEF Texts
<1> HIDE DEF n
<1>3. c \in Nat /\ d \in Nat /\ 1 <= c /\ c <= d /\ d <= n
  BY <1>1, <1>2
<1>4. SubSeq(text, c, d) = <<text[c]>> \o SubSeq(text, c + 1, d)
  BY <1>2, SubSeqRecursiveFirst
<1> DEFINE k == c - 1
<1>5. k + 1 = c /\ k \in (1 - 1)..n /\ d \in k..n /\ 1 \in 1..(n + 1)
  BY <1>1, <1>3
<1> HIDE DEF k
<1>6. SubSeq(text, 1, k) \o SubSeq(text, k + 1, d) = SubSeq(text, 1, d)
  BY <1>2, <1>5, ConcatAdjacentSubSeq
<1> QED BY <1>4, <1>5, <1>6 DEF k

\* A text is what is before a place, the token there, and what is after it.
LEMMA CutAt ==
  ASSUME NEW text \in Texts, NEW i \in 1..Len(text)
  PROVE  /\ text = Before(text, i) \o (<<text[i]>> \o After(text, i))
         /\ Before(text, i) \in Texts /\ After(text, i) \in Texts /\ text[i] \in Token
         /\ Len(Before(text, i)) = i - 1 /\ Len(After(text, i)) = Len(text) - i
<1> DEFINE n == Len(text)
<1>1. n \in Nat /\ i \in 1..n /\ i <= n /\ \A k \in 1..n : text[k] \in Token
  BY TextLength
<1>2. SubSeq(text, 1, n) = text
  BY SubSeqFull DEF Texts
<1>3. n \in i..Len(text)
  BY <1>1
<1>4. SubSeq(text, 1, i - 1) \o (<<text[i]>> \o SubSeq(text, i + 1, n)) = SubSeq(text, 1, n)
  BY <1>3, Regained
<1>5. text = Before(text, i) \o (<<text[i]>> \o After(text, i))
  BY <1>2, <1>4 DEF Before, After
<1> HIDE DEF n
<1>6. SubSeq(text, 1, i - 1) \in Seq(Token) /\ Len(SubSeq(text, 1, i - 1)) = i - 1
  <2> DEFINE q == i - 1
  <2>1. q \in Int /\ \A k \in 1..q : text[k] \in Token
    BY <1>1
  <2>2. q - 1 + 1 = q /\ q \in Nat /\ (1 <= q \/ q = 0)
    BY <1>1
  <2> HIDE DEF q
  <2>3. SubSeq(text, 1, q) \in Seq(Token) /\ Len(SubSeq(text, 1, q)) = IF 1 <= q THEN q - 1 + 1 ELSE 0
    BY <2>1, SubSeqProperties
  <2>4. Len(SubSeq(text, 1, q)) = q
    BY <2>2, <2>3
  <2> QED BY <2>3, <2>4 DEF q
<1>7. SubSeq(text, i + 1, n) \in Seq(Token) /\ Len(SubSeq(text, i + 1, n)) = n - i
  <2> DEFINE p == i + 1
  <2>1. p \in Int /\ n \in Int /\ \A k \in p..n : text[k] \in Token
    BY <1>1
  <2>2. n - p + 1 = n - i /\ (p <= n \/ n - i = 0) /\ n - i >= 0
    BY <1>1
  <2>5. p <= n => n - i # 0
    BY <1>1
  <2> HIDE DEF p
  <2>3. SubSeq(text, p, n) \in Seq(Token) /\ Len(SubSeq(text, p, n)) = IF p <= n THEN n - p + 1 ELSE 0
    BY <2>1, SubSeqProperties
  <2>4. Len(SubSeq(text, p, n)) = n - i
    BY <2>2, <2>3
  <2> QED BY <2>3, <2>4 DEF p
<1> QED BY <1>1, <1>5, <1>6, <1>7 DEF Before, After, Texts, n

\* What has been cut apart is joined again.
LEMMA JoinSplit ==
  ASSUME NEW text \in Texts, NEW token \in Token
  PROVE  Join(Split(text, token), token) = text
<1> DEFINE parts == Split(text, token)
           L == Len(text)
<1>1. PICK N, at : Enumerates(at, N, At(text, token))
  BY PlacesExist
<1> DEFINE c(k) == Cut(text, N, at, k)
<1>2. IsCut(parts, text, N, at)
  BY <1>1, SplitIs
<1>3. /\ N \in Nat
      /\ \A k \in 1..(N + 2) : c(k) \in 0..(L + 1)
      /\ \A k \in 1..(N + 1) : c(k) < c(k + 1)
  BY <1>1, CutsAscend
<1>4. c(1) = 0 /\ c(N + 2) = L + 1 /\ \A k \in 2..(N + 1) : c(k) \in 1..L /\ text[c(k)] = token
  <2>1. c(1) = 0 /\ c(N + 2) = L + 1
    BY <1>3 DEF Cut
  <2>2. ASSUME NEW k \in 2..(N + 1) PROVE c(k) \in 1..L /\ text[c(k)] = token
    <3>1. k - 1 \in 1..N /\ k # 1 /\ k # N + 2
      BY <1>3
    <3>2. c(k) = at[k - 1]
      BY <3>1 DEF Cut
    <3>3. at[k - 1] \in At(text, token)
      BY <1>1, <3>1 DEF Enumerates
    <3> QED BY <3>2, <3>3 DEF At
  <2> QED BY <2>1, <2>2
<1>5. parts \in Seq(Texts) /\ Len(parts) \in Nat \ {0}
  BY SplitParts
<1>6. Len(parts) = N + 1 /\ \A k \in 1..(N + 1) : parts[k] = SubSeq(text, c(k) + 1, c(k + 1) - 1)
  <2>1. parts = [k \in 1..(N + 1) |-> Between(text, N, at, k)]
    BY <1>2 DEF IsCut
  <2> HIDE DEF parts
  <2>2. DOMAIN parts = 1..(N + 1) /\ \A k \in 1..(N + 1) : parts[k] = Between(text, N, at, k)
    BY <2>1
  <2>3. Len(parts) = N + 1
    <3> DEFINE m == N + 1
    <3>1. m \in Nat
      BY <1>3
    <3> HIDE DEF m
    <3>2. parts \in [1..m -> Texts]
      <4>1. parts \in [1..Len(parts) -> Texts] /\ DOMAIN parts = 1..Len(parts)
        BY <1>5, LenProperties
      <4> QED BY <2>2, <4>1 DEF m
    <3>3. Len(parts) = m
      BY <3>1, <3>2, LengthOfFunction
    <3> QED BY <3>3 DEF m
  <2> QED BY <2>2, <2>3 DEF Between
<1>7. L \in Nat
  BY TextLength
<1> HIDE DEF c, L, parts
<1>8. PICK J : IsJoined(J, parts, token) /\ Join(parts, token) = J[N + 1]
  BY <1>5, <1>6, JoinIs
<1>9. J[1] = parts[1] /\ \A i \in 1..N : J[i + 1] = J[i] \o (<<token>> \o parts[i + 1])
  <2>1. (N + 1) - 1 = N
    BY <1>3
  <2> QED BY <1>6, <1>8, <2>1 DEF IsJoined
<1> DEFINE S == {k \in Nat : k + 1 <= N + 1 => J[k + 1] = SubSeq(text, 1, c(k + 2) - 1)}
<1>10. 0 \in S
  <2>1. 1 \in 1..(N + 1) /\ 0 + 1 = 1 /\ 1 + 1 = 0 + 2
    BY <1>3
  <2>2. parts[1] = SubSeq(text, c(1) + 1, c(1 + 1) - 1)
    BY <1>6, <2>1
  <2>3. parts[1] = SubSeq(text, 1, c(0 + 2) - 1)
    BY <1>4, <2>1, <2>2
  <2> QED BY <1>9, <2>1, <2>3
<1>11. ASSUME NEW k \in Nat, k \in S PROVE k + 1 \in S
  <2> SUFFICES ASSUME k + 1 + 1 <= N + 1 PROVE J[k + 1 + 1] = SubSeq(text, 1, c(k + 1 + 2) - 1)
    OBVIOUS
  <2> DEFINE p == k + 1
             q == k + 2
             r == k + 3
  <2>1. /\ p \in 1..N /\ p <= N + 1 /\ q \in 2..(N + 1) /\ q \in 1..(N + 1) /\ q \in 1..(N + 2) /\ r \in 1..(N + 2)
        /\ p + 1 = q /\ q + 1 = r /\ k + 1 + 1 = q /\ k + 1 + 2 = r
    BY <1>3
  <2>2. J[p] = SubSeq(text, 1, c(q) - 1)
    BY <1>11, <2>1
  <2> HIDE DEF p, q, r
  <2>3. J[q] = J[p] \o (<<token>> \o parts[q])
    BY <1>9, <2>1
  <2>4. parts[q] = SubSeq(text, c(q) + 1, c(r) - 1)
    BY <1>6, <2>1
  <2>5. c(q) \in 1..L /\ text[c(q)] = token
    BY <1>4, <2>1
  <2>6. c(q) < c(r) /\ c(r) \in 0..(L + 1)
    BY <1>3, <2>1
  <2>7. SubSeq(text, 1, c(q) - 1) \o (<<token>> \o SubSeq(text, c(q) + 1, c(r) - 1)) = SubSeq(text, 1, c(r) - 1)
    <3> DEFINE x == c(q)
               y == c(r)
               z == y - 1
    <3>1. x \in 1..L /\ text[x] = token /\ x < y /\ y \in 0..(L + 1)
      BY <2>5, <2>6
    <3> HIDE DEF x, y
    <3>2. z \in x..L
      BY <1>7, <3>1
    <3> HIDE DEF z
    <3>3. x \in 1..Len(text) /\ z \in x..Len(text)
      BY <3>1, <3>2 DEF L
    <3>4. SubSeq(text, 1, x - 1) \o (<<text[x]>> \o SubSeq(text, x + 1, z)) = SubSeq(text, 1, z)
      BY <3>3, Regained
    <3> QED BY <3>1, <3>4 DEF x, y, z
  <2>8. J[q] = SubSeq(text, 1, c(r) - 1)
    BY <2>2, <2>3, <2>4, <2>7
  <2> QED BY <2>1, <2>8
<1> HIDE DEF S
<1>12. Nat \subseteq S
  BY <1>10, <1>11, SetInduction
<1>13. N \in S
  BY <1>3, <1>12
<1>14. J[N + 1] = SubSeq(text, 1, c(N + 2) - 1)
  BY <1>3, <1>13 DEF S
<1>15. J[N + 1] = text
  <2>1. c(N + 2) - 1 = L
    BY <1>4, <1>7
  <2>2. SubSeq(text, 1, L) = text
    BY SubSeqFull DEF Texts, L
  <2> QED BY <1>14, <2>1, <2>2
<1> QED BY <1>8, <1>15 DEF parts

\* It does not matter which texts are put together first.
LEMMA ConcatTexts ==
  ASSUME NEW a \in Texts, NEW b \in Texts, NEW c \in Texts
  PROVE  (a \o b) \o c = a \o (b \o c)
BY ConcatAssociative DEF Texts

\* Concatenation under a name, for equalities of nested ones.
Cat(x, y) == x \o y

\* Two texts are a text.
LEMMA CatText ==
  ASSUME NEW x \in Texts, NEW y \in Texts
  PROVE  Cat(x, y) \in Texts
BY ConcatIs DEF Cat

\* As for ConcatTexts.
LEMMA CatTexts ==
  ASSUME NEW x \in Texts, NEW y \in Texts, NEW z \in Texts
  PROVE  Cat(Cat(x, y), z) = Cat(x, Cat(y, z))
BY ConcatTexts DEF Cat

\* The ways in which five texts are put together.
Chained(a, b, c, d, e) ==
  /\ (((a \o b) \o c) \o d) \o e = a \o (b \o (c \o (d \o e)))
  /\ ((a \o b) \o c) \o (d \o e) = a \o (b \o (c \o (d \o e)))

\* Five texts may be put together in any way.
LEMMA ConcatFive ==
  ASSUME NEW a \in Texts, NEW b \in Texts, NEW c \in Texts, NEW d \in Texts, NEW e \in Texts
  PROVE  Chained(a, b, c, d, e)
<1> DEFINE f == Cat(d, e)
           g == Cat(c, f)
           h == Cat(a, b)
           i == Cat(h, c)
<1>1. f \in Texts /\ g \in Texts /\ h \in Texts /\ i \in Texts
  <2>1. f \in Texts /\ h \in Texts
    BY CatText
  <2> HIDE DEF f, h
  <2> QED BY <2>1, CatText
<1>2. Cat(h, g) = Cat(a, Cat(b, g))
  <2> HIDE DEF g
  <2> QED BY <1>1, CatTexts
<1>3. Cat(i, f) = Cat(h, g)
  <2> HIDE DEF f, h
  <2> QED BY <1>1, CatTexts
<1>4. Cat(Cat(i, d), e) = Cat(i, f)
  <2> HIDE DEF i
  <2> QED BY <1>1, CatTexts
<1>5. /\ Cat(Cat(Cat(Cat(a, b), c), d), e) = Cat(a, Cat(b, Cat(c, Cat(d, e))))
      /\ Cat(Cat(Cat(a, b), c), Cat(d, e)) = Cat(a, Cat(b, Cat(c, Cat(d, e))))
  BY <1>2, <1>3, <1>4
<1> QED BY <1>5 DEF Cat, Chained

\* What is before and after a token between two texts.
LEMMA BeforeAfter ==
  ASSUME NEW a \in Texts, NEW b \in Texts, NEW token \in Token
  PROVE  LET x == a \o (<<token>> \o b)
         IN /\ Len(a) + 1 \in 1..Len(x)
            /\ Before(x, Len(a) + 1) = a /\ After(x, Len(a) + 1) = b
<1> DEFINE x == a \o (<<token>> \o b)
           la == Len(a)
           lb == Len(b)
<1>1. /\ x \in Texts /\ Len(x) = la + 1 + lb
      /\ \A i \in 1..la : x[i] = a[i]
      /\ x[la + 1] = token
      /\ \A i \in 1..lb : x[la + 1 + i] = b[i]
  BY Framed
<1>2. la \in Nat /\ lb \in Nat /\ la = Len(a) /\ lb = Len(b)
  BY TextLength
<1>3. SubSeq(a, 1, la) = a /\ SubSeq(b, 1, lb) = b
  BY SubSeqFull DEF Texts
<1> HIDE DEF x, la, lb
<1>4. la + 1 \in 1..Len(x)
  BY <1>1, <1>2
<1>5. Before(x, la + 1) = a
  <2>1. \A i \in 1..la : i \in 1..Len(a) /\ x[i + 0] = a[i]
    BY <1>1, <1>2
  <2>2. SubSeq(x, 1 + 0, la + 0) = SubSeq(a, 1, la)
    <3> DEFINE d == 0
    <3>1. 1 \in Int /\ la \in Int /\ d \in Int /\ \A i \in 1..la : i \in 1..Len(a) /\ x[i + d] = a[i]
      BY <1>2, <2>1
    <3> HIDE DEF d
    <3>2. SubSeq(x, 1 + d, la + d) = SubSeq(a, 1, la)
      BY <1>1, <3>1, SubSeqShift
    <3> QED BY <3>2 DEF d
  <2>3. (la + 1) - 1 = la /\ 1 + 0 = 1 /\ la + 0 = la
    BY <1>2
  <2> QED BY <1>3, <2>2, <2>3 DEF Before
<1>6. After(x, la + 1) = b
  <2> DEFINE d == la + 1
  <2>1. /\ d \in Int /\ lb \in Int /\ \A i \in 1..lb : i \in 1..Len(b) /\ i + d = la + 1 + i
        /\ 1 + d = d + 1 /\ lb + d = Len(x)
    BY <1>1, <1>2
  <2> HIDE DEF d
  <2>2. \A i \in 1..lb : i \in 1..Len(b) /\ x[i + d] = b[i]
    BY <1>1, <2>1
  <2>3. SubSeq(x, 1 + d, lb + d) = SubSeq(b, 1, lb)
    <3>1. 1 \in Int
      OBVIOUS
    <3> QED BY <1>1, <2>1, <2>2, <3>1, SubSeqShift
  <2> QED BY <1>3, <2>1, <2>3 DEF After, d
<1> QED BY <1>4, <1>5, <1>6 DEF x, la

-----------------------------------------------------------------------------
(* Tokens that are replaced. *)

\* A token under a map.
Swapped(map, token) == IF token \in DOMAIN map THEN map[token] ELSE token

\* A map between tokens.
IsMap(map) == \A token \in DOMAIN map : map[token] \in Token

\* Replace changes each token by itself (server.rs 1338-1357).
LEMMA ReplaceIs ==
  ASSUME NEW map, IsMap(map), NEW text \in Texts
  PROVE  /\ Replace(map, text) \in Texts /\ Len(Replace(map, text)) = Len(text)
         /\ \A i \in 1..Len(text) : Replace(map, text)[i] = Swapped(map, text[i])
<1> DEFINE r == Replace(map, text)
           n == Len(text)
<1>1. n \in Nat /\ DOMAIN text = 1..n /\ \A i \in 1..n : text[i] \in Token
  BY TextLength
<1> HIDE DEF n
<1>2. r = [i \in 1..n |-> Swapped(map, text[i])]
  BY <1>1 DEF Replace, Swapped
<1>3. \A i \in 1..n : Swapped(map, text[i]) \in Token
  BY <1>1 DEF Swapped, IsMap
<1> HIDE DEF r
<1>4. r \in [1..n -> Token] /\ \A i \in 1..n : r[i] = Swapped(map, text[i])
  BY <1>2, <1>3
<1>5. r \in Seq(Token) /\ Len(r) = n
  BY <1>1, <1>4, LengthOfFunction
<1> QED BY <1>4, <1>5 DEF r, n, Texts

\* No token of the text is replaced.
Unmapped(map, text) == \A i \in 1..Len(text) : text[i] \notin DOMAIN map

\* A text without the tokens that are replaced stays.
LEMMA ReplaceNothing ==
  ASSUME NEW map, IsMap(map), NEW text \in Texts, Unmapped(map, text)
  PROVE  Replace(map, text) = text
<1> DEFINE r == Replace(map, text)
<1>1. r \in Texts /\ Len(r) = Len(text) /\ \A i \in 1..Len(text) : r[i] = Swapped(map, text[i])
  BY ReplaceIs
<1>2. \A i \in 1..Len(r) : r[i] = text[i]
  BY <1>1 DEF Swapped, Unmapped
<1> HIDE DEF r
<1>3. r = text
  BY <1>1, <1>2, SameText
<1> QED BY <1>3 DEF r

\* Two texts are replaced one by one.
LEMMA ReplaceConcat ==
  ASSUME NEW map, IsMap(map), NEW a \in Texts, NEW b \in Texts
  PROVE  Replace(map, a \o b) = Replace(map, a) \o Replace(map, b)
<1> DEFINE x == a \o b
           p == Replace(map, a)
           q == Replace(map, b)
           y == p \o q
           z == Replace(map, x)
           la == Len(a)
           lb == Len(b)
<1>1. /\ x \in Texts /\ Len(x) = la + lb
      /\ \A i \in 1..la : x[i] = a[i]
      /\ \A i \in 1..lb : x[la + i] = b[i]
  BY ConcatIs
<1>2. p \in Texts /\ Len(p) = la /\ \A i \in 1..la : p[i] = Swapped(map, a[i])
  BY ReplaceIs
<1>3. q \in Texts /\ Len(q) = lb /\ \A i \in 1..lb : q[i] = Swapped(map, b[i])
  BY ReplaceIs
<1>4. la \in Nat /\ lb \in Nat
  BY TextLength
<1> HIDE DEF x, p, q, la, lb
<1>5. /\ y \in Texts /\ Len(y) = la + lb
      /\ \A i \in 1..la : y[i] = p[i]
      /\ \A i \in 1..lb : y[la + i] = q[i]
  <2>1. /\ y \in Texts /\ Len(y) = Len(p) + Len(q)
        /\ \A i \in 1..Len(p) : y[i] = p[i]
        /\ \A i \in 1..Len(q) : y[Len(p) + i] = q[i]
    BY <1>2, <1>3, ConcatIs
  <2> QED BY <1>2, <1>3, <2>1
<1>6. z \in Texts /\ Len(z) = la + lb /\ \A i \in 1..(la + lb) : z[i] = Swapped(map, x[i])
  <2>1. z \in Texts /\ Len(z) = Len(x) /\ \A i \in 1..Len(x) : z[i] = Swapped(map, x[i])
    BY <1>1, ReplaceIs
  <2> QED BY <1>1, <2>1
<1> HIDE DEF y, z
<1>7. ASSUME NEW i \in 1..Len(z) PROVE z[i] = y[i]
  <2>0. z[i] = Swapped(map, x[i])
    BY <1>6
  <2>1. CASE i <= la
    <3>1. i \in 1..la
      BY <1>4, <1>6, <2>1
    <3> QED BY <1>1, <1>2, <1>5, <2>0, <3>1
  <2>2. CASE ~(i <= la)
    <3> DEFINE j == i - la
    <3>1. j \in 1..lb /\ la + j = i
      BY <1>4, <1>6, <2>2
    <3> HIDE DEF j
    <3>2. x[i] = b[j] /\ y[i] = q[j] /\ q[j] = Swapped(map, b[j])
      BY <1>1, <1>3, <1>5, <3>1
    <3> QED BY <2>0, <3>2
  <2> QED BY <2>1, <2>2
<1>8. z = y
  BY <1>5, <1>6, <1>7, SameText
<1> QED BY <1>8 DEF z, y, x, p, q

\* A single token is replaced by another.
LEMMA ReplaceToken ==
  ASSUME NEW map, IsMap(map), NEW token \in Token
  PROVE  Replace(map, <<token>>) = <<Swapped(map, token)>> /\ Swapped(map, token) \in Token
<1> DEFINE w == <<token>>
           u == Swapped(map, token)
           v == <<u>>
           r == Replace(map, w)
<1>1. w \in Texts /\ Len(w) = 1 /\ w[1] = token
  BY TokenText
<1>2. u \in Token
  BY DEF Swapped, IsMap
<1> HIDE DEF u
<1>3. v \in Texts /\ Len(v) = 1 /\ v[1] = u
  BY <1>2, TokenText
<1> HIDE DEF w, v
<1>4. r \in Texts /\ Len(r) = 1 /\ \A i \in 1..1 : r[i] = Swapped(map, w[i])
  BY <1>1, ReplaceIs
<1> HIDE DEF r
<1>5. r[1] = u
  <2>1. 1 \in 1..1
    OBVIOUS
  <2>2. r[1] = Swapped(map, w[1])
    BY <1>4, <2>1
  <2> QED BY <1>1, <2>2 DEF u
<1>6. \A i \in 1..Len(r) : r[i] = v[i]
  <2>1. \A i \in 1..1 : i = 1
    OBVIOUS
  <2> QED BY <1>3, <1>4, <1>5, <2>1
<1>7. r = v
  BY <1>3, <1>4, <1>6, SameText
<1> QED BY <1>2, <1>7 DEF w, u, v, r

\* Texts joined by one token, with that token replaced.
LEMMA ReplaceJoin ==
  ASSUME NEW map, IsMap(map), NEW t \in Token, NEW parts \in Seq(Texts), Len(parts) \in Nat \ {0},
         \A k \in 1..Len(parts) : Unmapped(map, parts[k])
  PROVE  Replace(map, Join(parts, t)) = Join(parts, Swapped(map, t))
<1> DEFINE n == Len(parts)
           u == Swapped(map, t)
<1>0. u \in Token /\ Replace(map, <<t>>) = <<u>> /\ <<t>> \in Texts
  BY ReplaceToken, TokenText
<1>1. PICK J : IsJoined(J, parts, t) /\ Join(parts, t) = J[n]
  BY JoinIs
<1> HIDE DEF u
<1>2. PICK K : IsJoined(K, parts, u) /\ Join(parts, u) = K[n]
  BY <1>0, JoinIs
<1>3. /\ J \in [1..n -> Texts] /\ J[1] = parts[1]
      /\ \A i \in 1..(n - 1) : J[i + 1] = J[i] \o (<<t>> \o parts[i + 1])
  BY <1>1 DEF IsJoined
<1>4. /\ K[1] = parts[1]
      /\ \A i \in 1..(n - 1) : K[i + 1] = K[i] \o (<<u>> \o parts[i + 1])
  BY <1>2 DEF IsJoined
<1>5. n \in Nat \ {0} /\ \A k \in 1..n : parts[k] \in Texts /\ Replace(map, parts[k]) = parts[k]
  BY ElementOfSeq, ReplaceNothing
<1> DEFINE Same(k) == Replace(map, J[k]) = K[k]
           S == {k \in Nat : k + 1 <= n => Same(k + 1)}
<1> HIDE DEF n, Same
<1>6. 0 \in S
  <2>1. 1 \in 1..n /\ 0 + 1 = 1
    BY <1>5
  <2>2. Same(1)
    BY <1>3, <1>4, <1>5, <2>1 DEF Same
  <2> QED BY <2>1, <2>2
<1>7. ASSUME NEW k \in Nat, k \in S PROVE k + 1 \in S
  <2> SUFFICES ASSUME k + 1 + 1 <= n PROVE Same(k + 1 + 1)
    OBVIOUS
  <2> DEFINE p == k + 1
  <2>1. p \in 1..(n - 1) /\ p \in 1..n /\ p <= n /\ p + 1 \in 1..n
    BY <1>5
  <2>2. Same(p)
    BY <1>7, <2>1
  <2> HIDE DEF p
  <2>3. /\ J[p] \in Texts /\ parts[p + 1] \in Texts
        /\ J[p + 1] = J[p] \o (<<t>> \o parts[p + 1])
        /\ K[p + 1] = K[p] \o (<<u>> \o parts[p + 1])
        /\ Replace(map, parts[p + 1]) = parts[p + 1]
    BY <1>3, <1>4, <1>5, <2>1
  <2> DEFINE y == <<t>> \o parts[p + 1]
  <2>4. y \in Texts /\ Replace(map, y) = <<u>> \o parts[p + 1]
    <3> DEFINE w == <<t>>
               b == parts[p + 1]
    <3>1. w \in Texts /\ b \in Texts /\ Replace(map, w) = <<u>> /\ Replace(map, b) = b
      BY <1>0, <2>3
    <3> HIDE DEF w, b
    <3>2. w \o b \in Texts /\ Replace(map, w \o b) = Replace(map, w) \o Replace(map, b)
      BY <3>1, ConcatIs, ReplaceConcat
    <3>3. w \o b \in Texts /\ Replace(map, w \o b) = <<u>> \o b
      BY <3>1, <3>2
    <3> QED BY <3>3 DEF w, b
  <2> HIDE DEF y
  <2>5. Replace(map, J[p] \o y) = Replace(map, J[p]) \o Replace(map, y)
    BY <2>3, <2>4, ReplaceConcat
  <2>6. Replace(map, J[p + 1]) = K[p + 1]
    BY <2>2, <2>3, <2>4, <2>5 DEF Same, y
  <2> QED BY <2>6 DEF Same, p
<1>8. n - 1 \in Nat /\ (n - 1) + 1 = n /\ (n - 1) + 1 <= n
  BY <1>5
<1> HIDE DEF S
<1>9. Nat \subseteq S
  BY <1>6, <1>7, SetInduction
<1>10. n - 1 \in S
  BY <1>8, <1>9
<1>11. Replace(map, J[n]) = K[n]
  BY <1>8, <1>10 DEF S, Same
<1> QED BY <1>1, <1>2, <1>11 DEF u

-----------------------------------------------------------------------------
(* A few texts, joined. *)

\* Sequences of two, of three and of four members.
LEMMA TwoAreSeq ==
  ASSUME NEW S, NEW a \in S, NEW b \in S
  PROVE  <<a, b>> \in Seq(S) /\ Len(<<a, b>>) = 2 /\ <<a, b>>[1] = a /\ <<a, b>>[2] = b
OBVIOUS

\* As for two.
LEMMA ThreeAreSeq ==
  ASSUME NEW S, NEW a \in S, NEW b \in S, NEW c \in S
  PROVE  /\ <<a, b, c>> \in Seq(S) /\ Len(<<a, b, c>>) = 3
         /\ <<a, b, c>>[1] = a /\ <<a, b, c>>[2] = b /\ <<a, b, c>>[3] = c
OBVIOUS

\* As for two.
LEMMA FourAreSeq ==
  ASSUME NEW S, NEW a \in S, NEW b \in S, NEW c \in S, NEW d \in S
  PROVE  /\ <<a, b, c, d>> \in Seq(S) /\ Len(<<a, b, c, d>>) = 4
         /\ <<a, b, c, d>>[1] = a /\ <<a, b, c, d>>[2] = b
         /\ <<a, b, c, d>>[3] = c /\ <<a, b, c, d>>[4] = d
OBVIOUS

\* Two parts are joined with the token between them.
LEMMA JoinTwo ==
  ASSUME NEW a \in Texts, NEW b \in Texts, NEW t \in Token
  PROVE  Join(<<a, b>>, t) = a \o (<<t>> \o b)
<1> DEFINE p == <<a>>
           q == <<a, b>>
<1>1. p \in Seq(Texts) /\ Len(p) = 1 /\ p[1] = a
  BY OneIsSeq
<1>2. q \in Seq(Texts) /\ Len(q) = 2 /\ q[1] = a /\ q[2] = b
  BY TwoAreSeq
<1> HIDE DEF p, q
<1>3. Join(p, t) = a
  BY <1>1, JoinOne
<1>4. Join(q, t) = Join(p, t) \o (<<t>> \o q[1 + 1])
  <2> DEFINE m == 1
  <2>1. m \in Nat /\ m >= 1 /\ Len(p) = m /\ Len(q) = m + 1 /\ \A i \in 1..m : p[i] = q[i]
    BY <1>1, <1>2
  <2> HIDE DEF m
  <2>2. Join(q, t) = Join(p, t) \o (<<t>> \o q[m + 1])
    BY <1>1, <1>2, <2>1, JoinMore
  <2> QED BY <2>2 DEF m
<1>5. q[1 + 1] = b
  BY <1>2
<1>6. Join(q, t) = a \o (<<t>> \o b)
  BY <1>3, <1>4, <1>5
<1> QED BY <1>6 DEF q

-----------------------------------------------------------------------------
(* Identities (artifact.rs 133-167). *)

\* The last place of a token between two texts of which the second does not have it.
LEMMA LastPlace ==
  ASSUME NEW a \in Texts, NEW b \in Texts, NEW token \in Token, ~Has(b, token)
  PROVE  Last(Places(a \o (<<token>> \o b), token)) = Len(a) + 1
<1> DEFINE x == a \o (<<token>> \o b)
           la == Len(a)
           lb == Len(b)
<1>1. /\ x \in Texts /\ Len(x) = la + 1 + lb
      /\ x[la + 1] = token
      /\ \A i \in 1..lb : x[la + 1 + i] = b[i]
  BY Framed
<1>2. la \in Nat /\ lb \in Nat
  BY TextLength
<1>3. \A i \in 1..lb : b[i] # token
  BY HasIs
<1> HIDE DEF x, la, lb
<1>4. PICK N, at : Enumerates(at, N, At(x, token))
  BY <1>1, PlacesExist
<1>5. Places(x, token) = at
  BY <1>1, <1>4, PlacesAre
<1>6. /\ N \in Nat /\ at \in [1..N -> At(x, token)]
      /\ \A n, m \in 1..N : n < m => at[n] < at[m]
      /\ \A i \in At(x, token) : \E n \in 1..N : at[n] = i
  BY <1>4 DEF Enumerates
<1>7. la + 1 \in At(x, token)
  <2> DEFINE p == la + 1
  <2>1. p \in 1..Len(x)
    BY <1>1, <1>2
  <2> HIDE DEF p
  <2>2. x[p] = token
    BY <1>1 DEF p
  <2>3. p \in At(x, token)
    BY <2>1, <2>2 DEF At
  <2> QED BY <2>3 DEF p
<1>8. \A i \in At(x, token) : i \in Nat /\ i <= la + 1
  <2> SUFFICES ASSUME NEW i \in At(x, token) PROVE i \in Nat /\ i <= la + 1
    OBVIOUS
  <2>1. i \in 1..(la + 1 + lb) /\ x[i] = token
    BY <1>1 DEF At
  <2>2. CASE i > la + 1
    <3> DEFINE j == i - (la + 1)
    <3>1. j \in 1..lb /\ la + 1 + j = i
      BY <1>2, <2>1, <2>2
    <3> HIDE DEF j
    <3>2. b[j] = token
      BY <1>1, <2>1, <3>1
    <3> QED BY <1>3, <3>1, <3>2
  <2> QED BY <1>2, <2>1, <2>2
<1>9. PICK n \in 1..N : at[n] = la + 1
  BY <1>6, <1>7
<1>10. N \in 1..N /\ at[N] \in At(x, token)
  <2>1. N \in 1..N
    BY <1>6, <1>9
  <2> QED BY <1>6, <2>1
<1>11. at[N] = la + 1
  <2>1. at[N] \in Nat /\ at[N] <= la + 1
    BY <1>8, <1>10
  <2>2. n = N \/ n < N
    BY <1>6, <1>9
  <2>3. n = N \/ at[n] < at[N]
    BY <1>6, <1>9, <1>10, <2>2
  <2> QED BY <1>2, <1>9, <2>1, <2>3
<1>12. Len(at) = N
  BY <1>6, LengthOfFunction
<1>13. Last(Places(x, token)) = la + 1
  BY <1>5, <1>11, <1>12 DEF Last
<1> QED BY <1>13 DEF x, la

\* parse_package_identity takes a name and a version without an "@" apart.
LEMMA IdentityIs ==
  ASSUME NEW registry, NEW name \in Texts, NEW version \in Texts, ~Has(version, "@")
  PROVE  ParseIdentity(registry, name \o <<"@">> \o version)
           = [name |-> NormalizeName(registry, name), version |-> NormalizeVersion(registry, version)]
<1> DEFINE x == name \o (<<"@">> \o version)
           at == Last(Places(x, "@"))
<1>2. "@" \in Token
  BY DEF Token
<1>1. name \o <<"@">> \o version = x
  <2>1. <<"@">> \in Texts
    BY <1>2, TokenText
  <2> QED BY <2>1, ConcatTexts
<1>3. at = Len(name) + 1
  BY <1>2, LastPlace
<1>4. Before(x, Len(name) + 1) = name /\ After(x, Len(name) + 1) = version
  BY <1>2, BeforeAfter
<1> HIDE DEF x
<1>5. Before(x, at) = name /\ After(x, at) = version
  BY <1>3, <1>4
<1> QED BY <1>1, <1>5 DEF ParseIdentity

\* A third one is put behind the two.
LEMMA JoinThree ==
  ASSUME NEW a \in Texts, NEW b \in Texts, NEW c \in Texts, NEW t \in Token
  PROVE  Join(<<a, b, c>>, t) = Join(<<a, b>>, t) \o (<<t>> \o c)
<1> DEFINE p == <<a, b>>
           q == <<a, b, c>>
           m == 2
<1>1. p \in Seq(Texts) /\ Len(p) = 2 /\ p[1] = a /\ p[2] = b
  BY TwoAreSeq
<1>2. q \in Seq(Texts) /\ Len(q) = 3 /\ q[1] = a /\ q[2] = b /\ q[3] = c
  BY ThreeAreSeq
<1> HIDE DEF p, q
<1>3. m \in Nat /\ m >= 1 /\ Len(p) = m /\ Len(q) = m + 1 /\ \A i \in 1..m : p[i] = q[i]
  <2>1. \A i \in 1..2 : i = 1 \/ i = 2
    OBVIOUS
  <2> QED BY <1>1, <1>2, <2>1
<1>4. q[m + 1] = c
  BY <1>2
<1> HIDE DEF m
<1>5. Join(q, t) = Join(p, t) \o (<<t>> \o q[m + 1])
  BY <1>1, <1>2, <1>3, JoinMore
<1>6. Join(q, t) = Join(p, t) \o (<<t>> \o c)
  BY <1>4, <1>5
<1> QED BY <1>6 DEF p, q

\* Four texts without the token, told apart.
LEMMA SplitFour ==
  ASSUME NEW a \in Texts, NEW b \in Texts, NEW c \in Texts, NEW d \in Texts, NEW t \in Token,
         ~Has(a, t), ~Has(b, t), ~Has(c, t), ~Has(d, t)
  PROVE  Join(<<a, b, c, d>>, t) \in Texts /\ Split(Join(<<a, b, c, d>>, t), t) = <<a, b, c, d>>
<1> DEFINE q == <<a, b, c, d>>
<1>1. q \in Seq(Texts) /\ Len(q) = 4 /\ q[1] = a /\ q[2] = b /\ q[3] = c /\ q[4] = d
  BY FourAreSeq
<1> HIDE DEF q
<1>2. Len(q) \in Nat \ {0} /\ \A i \in 1..Len(q) : ~Has(q[i], t)
  <2>1. \A i \in 1..4 : i = 1 \/ i = 2 \/ i = 3 \/ i = 4
    OBVIOUS
  <2>2. ~Has(q[1], t) /\ ~Has(q[2], t) /\ ~Has(q[3], t) /\ ~Has(q[4], t)
    BY <1>1
  <2>3. \A i \in 1..4 : ~Has(q[i], t)
    BY <2>1, <2>2
  <2> QED BY <1>1, <2>3
<1>3. Join(q, t) \in Texts /\ Split(Join(q, t), t) = q
  BY <1>1, <1>2, JoinIsText, SplitJoin
<1> QED BY <1>3 DEF q

\* A member in front of a sequence.
LEMMA OneAndMore ==
  ASSUME NEW S, NEW a \in S, NEW s \in Seq(S)
  PROVE  /\ <<a>> \o s \in Seq(S) /\ Len(<<a>> \o s) = 1 + Len(s) /\ (<<a>> \o s)[1] = a
         /\ \A i \in 1..Len(s) : (<<a>> \o s)[1 + i] = s[i]
<1> DEFINE w == <<a>>
           n == Len(s)
           x == w \o s
<1>1. w \in Seq(S) /\ Len(w) = 1 /\ w[1] = a
  BY OneIsSeq
<1>2. n \in Nat
  BY LenProperties
<1> HIDE DEF w
<1>3. x \in Seq(S) /\ Len(x) = 1 + n /\ \A i \in 1..(1 + n) : x[i] = IF i <= 1 THEN w[i] ELSE s[i - 1]
  <2> DEFINE k == Len(w)
  <2>1. x \in Seq(S) /\ Len(x) = k + n /\ \A i \in 1..(k + n) : x[i] = IF i <= k THEN w[i] ELSE s[i - k]
    BY <1>1, ConcatProperties
  <2>2. k = 1
    BY <1>1
  <2> HIDE DEF k, x
  <2> QED BY <2>1, <2>2
<1> HIDE DEF n, x
<1>4. x[1] = a
  <2>1. 1 \in 1..(1 + n) /\ 1 <= 1
    BY <1>2
  <2>2. x[1] = w[1]
    BY <1>3, <2>1
  <2> QED BY <1>1, <2>2
<1>5. ASSUME NEW i \in 1..n PROVE x[1 + i] = s[i]
  <2>1. 1 + i \in 1..(1 + n) /\ ~(1 + i <= 1) /\ (1 + i) - 1 = i
    BY <1>2
  <2> QED BY <1>3, <2>1
<1> QED BY <1>3, <1>4, <1>5 DEF w, n, x

\* A member in front of one.
LEMMA OneAndOne ==
  ASSUME NEW S, NEW a \in S, NEW b \in S
  PROVE  <<a>> \o <<b>> = <<a, b>>
<1> DEFINE w == <<b>>
           x == <<a>> \o w
           y == <<a, b>>
<1>1. w \in Seq(S) /\ Len(w) = 1 /\ w[1] = b
  BY OneIsSeq
<1>2. y \in Seq(S) /\ Len(y) = 2 /\ y[1] = a /\ y[2] = b
  BY TwoAreSeq
<1> HIDE DEF w, y
<1>3. x \in Seq(S) /\ Len(x) = 1 + Len(w) /\ x[1] = a /\ \A i \in 1..Len(w) : x[1 + i] = w[i]
  BY <1>1, OneAndMore
<1> HIDE DEF x
<1>4. Len(x) = 2 /\ x[2] = b
  <2>1. 1 \in 1..Len(w) /\ 1 + 1 = 2
    BY <1>1
  <2>2. x[1 + 1] = w[1]
    BY <1>3, <2>1
  <2> QED BY <1>1, <1>3, <2>1, <2>2
<1>5. \A i \in 1..Len(x) : x[i] = y[i]
  <2>1. \A i \in 1..2 : i = 1 \/ i = 2
    OBVIOUS
  <2> QED BY <1>2, <1>3, <1>4, <2>1
<1>6. x = y
  BY <1>2, <1>3, <1>4, <1>5, SeqEqual
<1> QED BY <1>6 DEF x, y, w

\* Two texts told apart, of which neither has the token.
LEMMA SplitTwo ==
  ASSUME NEW a \in Texts, NEW b \in Texts, NEW t \in Token, ~Has(a, t), ~Has(b, t)
  PROVE  a \o (<<t>> \o b) \in Texts /\ Split(a \o (<<t>> \o b), t) = <<a, b>>
<1>1. Split(a, t) = <<a>> /\ Split(b, t) = <<b>>
  BY Uncut
<1>2. Split(a \o (<<t>> \o b), t) = <<a>> \o <<b>>
  BY <1>1, SplitAt
<1>3. a \o (<<t>> \o b) \in Texts
  BY Framed
<1>4. <<a>> \o <<b>> = <<a, b>>
  BY OneAndOne
<1> QED BY <1>2, <1>3, <1>4

\* A text in front of texts already told apart.
LEMMA SplitFront ==
  ASSUME NEW a \in Texts, NEW b \in Texts, NEW t \in Token, ~Has(a, t)
  PROVE  a \o (<<t>> \o b) \in Texts /\ Split(a \o (<<t>> \o b), t) = <<a>> \o Split(b, t)
<1>1. Split(a, t) = <<a>>
  BY Uncut
<1>2. a \o (<<t>> \o b) \in Texts
  BY Framed
<1>3. Split(a \o (<<t>> \o b), t) = Split(a, t) \o Split(b, t)
  BY SplitAt
<1> DEFINE x == a \o (<<t>> \o b)
           s == Split(b, t)
<1> HIDE DEF x, s
<1>4. x \in Texts /\ Split(x, t) = <<a>> \o s
  BY <1>1, <1>2, <1>3 DEF x, s
<1> QED BY <1>4 DEF x, s

-----------------------------------------------------------------------------
(* Texts behind a literal. *)

\* A sequence of five members.
LEMMA FiveAreSeq ==
  ASSUME NEW S, NEW a \in S, NEW b \in S, NEW c \in S, NEW d \in S, NEW e \in S
  PROVE  /\ <<a, b, c, d, e>> \in Seq(S) /\ Len(<<a, b, c, d, e>>) = 5
         /\ <<a, b, c, d, e>>[1] = a /\ <<a, b, c, d, e>>[2] = b
         /\ <<a, b, c, d, e>>[3] = c /\ <<a, b, c, d, e>>[4] = d /\ <<a, b, c, d, e>>[5] = e
OBVIOUS

\* A member in front of two, of three and of four.
LEMMA OneAndTwo ==
  ASSUME NEW S, NEW a \in S, NEW b \in S, NEW c \in S
  PROVE  <<a>> \o <<b, c>> = <<a, b, c>>
<1> DEFINE w == <<b, c>>
           x == <<a>> \o w
           y == <<a, b, c>>
<1>1. w \in Seq(S) /\ Len(w) = 2 /\ w[1] = b /\ w[2] = c
  BY TwoAreSeq
<1>2. y \in Seq(S) /\ Len(y) = 3 /\ y[1] = a /\ y[2] = b /\ y[3] = c
  BY ThreeAreSeq
<1> HIDE DEF w, y
<1>3. x \in Seq(S) /\ Len(x) = 1 + Len(w) /\ x[1] = a /\ \A i \in 1..Len(w) : x[1 + i] = w[i]
  <2>1. w \in Seq(S)
    BY <1>1
  <2> QED BY <2>1, OneAndMore
<1> HIDE DEF x
<1>4. Len(x) = 3 /\ x[2] = b /\ x[3] = c
  <2>1. 1 \in 1..Len(w) /\ 2 \in 1..Len(w) /\ 1 + 1 = 2 /\ 1 + 2 = 3
    BY <1>1
  <2>2. x[1 + 1] = w[1] /\ x[1 + 2] = w[2]
    BY <1>3, <2>1
  <2> QED BY <1>1, <1>3, <2>1, <2>2
<1>5. \A i \in 1..Len(x) : x[i] = y[i]
  <2>1. \A i \in 1..3 : i = 1 \/ i = 2 \/ i = 3
    OBVIOUS
  <2> QED BY <1>2, <1>3, <1>4, <2>1
<1>6. x = y
  BY <1>2, <1>3, <1>4, <1>5, SeqEqual
<1> QED BY <1>6 DEF x, y, w

\* As for two.
LEMMA OneAndThree ==
  ASSUME NEW S, NEW a \in S, NEW b \in S, NEW c \in S, NEW d \in S
  PROVE  <<a>> \o <<b, c, d>> = <<a, b, c, d>>
<1> DEFINE w == <<b, c, d>>
           x == <<a>> \o w
           y == <<a, b, c, d>>
<1>1. w \in Seq(S) /\ Len(w) = 3 /\ w[1] = b /\ w[2] = c /\ w[3] = d
  BY ThreeAreSeq
<1>2. y \in Seq(S) /\ Len(y) = 4 /\ y[1] = a /\ y[2] = b /\ y[3] = c /\ y[4] = d
  BY FourAreSeq
<1> HIDE DEF w, y
<1>3. x \in Seq(S) /\ Len(x) = 1 + Len(w) /\ x[1] = a /\ \A i \in 1..Len(w) : x[1 + i] = w[i]
  <2>1. w \in Seq(S)
    BY <1>1
  <2> QED BY <2>1, OneAndMore
<1> HIDE DEF x
<1>4. Len(x) = 4 /\ x[2] = b /\ x[3] = c /\ x[4] = d
  <2>1. 1 \in 1..Len(w) /\ 2 \in 1..Len(w) /\ 3 \in 1..Len(w) /\ 1 + 1 = 2 /\ 1 + 2 = 3 /\ 1 + 3 = 4
    BY <1>1
  <2>2. x[1 + 1] = w[1] /\ x[1 + 2] = w[2] /\ x[1 + 3] = w[3]
    BY <1>3, <2>1
  <2> QED BY <1>1, <1>3, <2>1, <2>2
<1>5. \A i \in 1..Len(x) : x[i] = y[i]
  <2>1. \A i \in 1..4 : i = 1 \/ i = 2 \/ i = 3 \/ i = 4
    OBVIOUS
  <2> QED BY <1>2, <1>3, <1>4, <2>1
<1>6. x = y
  BY <1>2, <1>3, <1>4, <1>5, SeqEqual
<1> QED BY <1>6 DEF x, y, w

\* As for two.
LEMMA OneAndFour ==
  ASSUME NEW S, NEW a \in S, NEW b \in S, NEW c \in S, NEW d \in S, NEW e \in S
  PROVE  <<a>> \o <<b, c, d, e>> = <<a, b, c, d, e>>
<1> DEFINE w == <<b, c, d, e>>
           x == <<a>> \o w
           y == <<a, b, c, d, e>>
<1>1. w \in Seq(S) /\ Len(w) = 4 /\ w[1] = b /\ w[2] = c /\ w[3] = d /\ w[4] = e
  BY FourAreSeq
<1>2. y \in Seq(S) /\ Len(y) = 5 /\ y[1] = a /\ y[2] = b /\ y[3] = c /\ y[4] = d /\ y[5] = e
  BY FiveAreSeq
<1> HIDE DEF w, y
<1>3. x \in Seq(S) /\ Len(x) = 1 + Len(w) /\ x[1] = a /\ \A i \in 1..Len(w) : x[1 + i] = w[i]
  <2>1. w \in Seq(S)
    BY <1>1
  <2> QED BY <2>1, OneAndMore
<1> HIDE DEF x
<1>4. Len(x) = 5 /\ x[2] = b /\ x[3] = c /\ x[4] = d /\ x[5] = e
  <2>1. /\ 1 \in 1..Len(w) /\ 2 \in 1..Len(w) /\ 3 \in 1..Len(w) /\ 4 \in 1..Len(w)
        /\ 1 + 1 = 2 /\ 1 + 2 = 3 /\ 1 + 3 = 4 /\ 1 + 4 = 5
    BY <1>1
  <2>2. x[1 + 1] = w[1] /\ x[1 + 2] = w[2] /\ x[1 + 3] = w[3] /\ x[1 + 4] = w[4]
    BY <1>3, <2>1
  <2> QED BY <1>1, <1>3, <2>1, <2>2
<1>5. \A i \in 1..Len(x) : x[i] = y[i]
  <2>1. \A i \in 1..5 : i = 1 \/ i = 2 \/ i = 3 \/ i = 4 \/ i = 5
    OBVIOUS
  <2> QED BY <1>2, <1>3, <1>4, <2>1
<1>6. x = y
  BY <1>2, <1>3, <1>4, <1>5, SeqEqual
<1> QED BY <1>6 DEF x, y, w

\* A text in which a literal is followed by another.
LEMMA TwoAhead ==
  ASSUME NEW a \in Token, NEW b \in Token, NEW x \in Texts
  PROVE  /\ <<a, b>> \o x = <<a>> \o (<<b>> \o x)
         /\ <<b>> \o x \in Texts /\ <<a>> \in Texts /\ <<b>> \in Texts /\ <<a, b>> \o x \in Texts
<1>1. <<a>> \in Texts /\ <<b>> \in Texts
  BY TokenText
<1>2. <<a, b>> = <<a>> \o <<b>>
  BY OneAndOne
<1>3. <<b>> \o x \in Texts
  BY <1>1, ConcatIs
<1>4. (<<a>> \o <<b>>) \o x = <<a>> \o (<<b>> \o x)
  BY <1>1, ConcatTexts
<1>5. <<a>> \o (<<b>> \o x) \in Texts
  BY <1>1, <1>3, ConcatIs
<1> QED BY <1>1, <1>2, <1>3, <1>4, <1>5

\* A token in front of a text.
LEMMA OneAheadIs ==
  ASSUME NEW a \in Token, NEW x \in Texts
  PROVE  <<a>> \o x \in Texts /\ Len(<<a>> \o x) = 1 + Len(x) /\ (<<a>> \o x)[1] = a
BY OneAndMore DEF Texts

\* The range of a text is what it has.
LEMMA RangeIs ==
  ASSUME NEW text \in Texts
  PROVE  /\ \A token : Has(text, token) <=> token \in Range(text)
         /\ \A S : Range(text) \subseteq S <=> \A i \in 1..Len(text) : text[i] \in S
         /\ \A i \in 1..Len(text) : text[i] \in Range(text) /\ text[i] \in Token
BY TextLength DEF Has, Range

\* Three texts told apart.
LEMMA SplitThree ==
  ASSUME NEW a \in Texts, NEW b \in Texts, NEW c \in Texts, NEW t \in Token,
         ~Has(a, t), ~Has(b, t), ~Has(c, t)
  PROVE  LET x == a \o (<<t>> \o (b \o (<<t>> \o c)))
         IN x \in Texts /\ Split(x, t) = <<a, b, c>>
<1> DEFINE y == b \o (<<t>> \o c)
<1>1. y \in Texts /\ Split(y, t) = <<b, c>>
  BY SplitTwo
<1> HIDE DEF y
<1>2. a \o (<<t>> \o y) \in Texts /\ Split(a \o (<<t>> \o y), t) = <<a>> \o Split(y, t)
  BY <1>1, SplitFront
<1>3. <<a>> \o <<b, c>> = <<a, b, c>>
  BY OneAndTwo
<1> QED BY <1>1, <1>2, <1>3 DEF y

-----------------------------------------------------------------------------
(* Cargo (server.rs 1243-1263, cargo.rs 78-94). *)

\* What letters and escapes stand for are tokens.
LEMMA LowerIsMap == IsMap(Lowered) /\ IsMap(Upper) /\ IsMap(Encoded) /\ IsMap([dot \in {"."} |-> "/"])
<1>1. Lowered["A"] = "a" /\ Lowered["B"] = "b" /\ DOMAIN Lowered = {"A", "B"}
  BY DEF Lowered
<1>2. Upper["a"] = "A" /\ Upper["b"] = "B" /\ DOMAIN Upper = {"a", "b"}
  BY DEF Upper
<1>3. Encoded["%2F"] = "/" /\ Encoded["%40"] = "@" /\ Encoded["%41"] = "A" /\ DOMAIN Encoded = {"%2F", "%40", "%41"}
  BY DEF Encoded
<1> QED BY <1>1, <1>2, <1>3 DEF IsMap, Token

\* Lower makes a text of another, token by token.
LEMMA LowerText ==
  ASSUME NEW text \in Texts
  PROVE  /\ Lower(text) \in Texts /\ Len(Lower(text)) = Len(text)
         /\ \A i \in 1..Len(text) : Lower(text)[i] = Small(text[i])
BY LowerIsMap, ReplaceIs DEF Lower, Swapped, Small, Lowered

\* What a crate's name is written with.
Crate == Alphanumeric \cup {"-", "_"}

\* A crate's letters are made others of a crate, and none is a slash.
LEMMA CrateSmall ==
  ASSUME NEW token \in Crate
  PROVE  Small(token) \in Crate /\ "/" \notin Crate
BY DEF Crate, Alphanumeric, Digits, Small, Lowered

\* A crate's name, written small.
IsCrate(name) ==
  name \in Texts /\ ValidCrate(name) /\ Lower(name) = name

\* Made small, a valid name is canonical (cargo.rs 78-86).
LEMMA LowerCrate ==
  ASSUME NEW name \in Texts, ValidCrate(name)
  PROVE  IsCrate(Lower(name))
<1> DEFINE r == Lower(name)
           n == Len(name)
<1>1. r \in Texts /\ Len(r) = n /\ \A i \in 1..n : r[i] = Small(name[i])
  BY LowerText
<1>2. name # <<>> /\ \A i \in 1..n : name[i] \in Crate
  BY RangeIs DEF ValidCrate, Crate
<1>3. n \in Nat /\ n > 0
  BY <1>2, TextLength, EmptySeq DEF Texts
<1>4. Lower(r) = r
  BY LowerTwice
<1> HIDE DEF r, n
<1>5. r # <<>>
  BY <1>1, <1>3, NotEmpty
<1>6. \A i \in 1..Len(r) : r[i] \in Crate
  BY <1>1, <1>2, CrateSmall
<1>7. Range(r) \subseteq Crate
  BY <1>1, <1>6, RangeIs
<1> QED BY <1>1, <1>4, <1>5, <1>7 DEF IsCrate, ValidCrate, Crate, r

\* A valid name is not empty and has no slash.
LEMMA CrateHas ==
  ASSUME NEW name \in Texts, ValidCrate(name)
  PROVE  /\ ~Has(name, "/") /\ name # <<>> /\ Len(name) \in Nat \ {0}
         /\ \A i \in 1..Len(name) : name[i] \in Token /\ name[i] # "/"
<1>1. \A i \in 1..Len(name) : name[i] \in Crate /\ name[i] \in Token
  BY RangeIs DEF ValidCrate, Crate
<1>2. \A i \in 1..Len(name) : name[i] # "/"
  BY <1>1, CrateSmall
<1>3. ~Has(name, "/")
  BY <1>2, HasIs
<1>4. name # <<>> /\ Len(name) \in Nat \ {0}
  BY EmptySeq DEF ValidCrate, Texts
<1> QED BY <1>1, <1>2, <1>3, <1>4

\* The literals of the parsers are tokens, and they differ.
LEMMA Words ==
  /\ {"a", "A", "b", "B", "v", "0", "1", "2", "3", "-", "_", ".", "+", "/", "@", "%", ":", "!",
      "%2F", "%40", "%41", "simple", "packages", "info", "gems", "gem", "registration", "index",
      "json", "flatcontainer", "nupkg", "nuspec", "invalid", "latest", "list", "mod", "zip",
      "crates", "download", "jar", "maven-metadata.xml"} \subseteq Token
BY DEF Token

\* A single token is told from another.
LEMMA OneHas ==
  ASSUME NEW t \in Token, NEW token, t # token
  PROVE  <<t>> \in Texts /\ ~Has(<<t>>, token) /\ Len(<<t>>) = 1 /\ <<t>>[1] = t
<1> DEFINE w == <<t>>
<1>1. w \in Texts /\ Len(w) = 1 /\ w[1] = t
  BY TokenText
<1> HIDE DEF w
<1>2. ~Has(w, token)
  <2>1. \A i \in 1..1 : i = 1
    OBVIOUS
  <2> QED BY <1>1, <2>1, HasIs
<1> QED BY <1>1, <1>2 DEF w

\* The sparse index path of a crate, and its parts.
LEMMA SparseParts ==
  ASSUME NEW n, IsCrate(n)
  PROVE  /\ SparsePath(n) \in Texts
         /\ LET s == Split(SparsePath(n), "/")
            IN Last(s) = n /\ s[1] # <<"crates">>
<1> DEFINE x == SparsePath(n)
<1>1. n \in Texts /\ Lower(n) = n /\ "/" \in Token
  BY Words DEF IsCrate
<1>2. ~Has(n, "/") /\ Len(n) \in Nat \ {0} /\ \A i \in 1..Len(n) : n[i] \in Token /\ n[i] # "/"
  BY CrateHas DEF IsCrate
<1>3. CASE Len(n) \in {1, 2}
  <2> DEFINE k == IF Len(n) = 1 THEN "1" ELSE "2"
  <2>1. x = <<k, "/">> \o n
    <3>1. Len(n) # 3 /\ ~(Len(n) > 3)
      <4> DEFINE l == Len(n)
      <4>1. l \in {1, 2}
        BY <1>3
      <4> HIDE DEF l, k, x
      <4>2. l # 3 /\ ~(l > 3)
        BY <4>1
      <4> QED BY <4>2 DEF l
    <3> HIDE DEF k
    <3>2. k = IF Len(n) = 1 THEN "1" ELSE "2"
      BY DEF k
    <3> QED BY <1>1, <1>3, <3>1, <3>2, Zenon DEF SparsePath
  <2>2. k \in Token /\ k # "/" /\ k # "crates"
    BY Words
  <2> HIDE DEF k, x
  <2>3. x = <<k>> \o (<<"/">> \o n)
    BY <1>1, <2>1, <2>2, TwoAhead
  <2>4. <<k>> \in Texts /\ ~Has(<<k>>, "/")
    BY <2>2, OneHas
  <2>5. x \in Texts /\ Split(x, "/") = <<<<k>>, n>>
    BY <1>1, <1>2, <2>3, <2>4, SplitTwo
  <2>6. <<k>> # <<"crates">>
    BY <2>2
  <2> DEFINE s == <<<<k>>, n>>
  <2>7. Last(s) = n /\ s[1] = <<k>>
    BY DEF Last
  <2> HIDE DEF s
  <2> QED BY <2>5, <2>6, <2>7 DEF s, x
<1>4. CASE Len(n) = 3
  <2> DEFINE h == n[1]
             y == <<h>> \o (<<"/">> \o n)
  <2>1. x = <<"3", "/", h, "/">> \o n
    BY <1>1, <1>4 DEF SparsePath
  <2>2. h \in Token /\ h # "/"
    BY <1>2, <1>4
  <2> HIDE DEF h, x
  <2>3. y \in Texts /\ Split(y, "/") = <<<<h>>, n>> /\ <<h, "/">> \o n = y
    <3>1. <<h>> \in Texts /\ ~Has(<<h>>, "/")
      BY <2>2, OneHas
    <3> QED BY <1>1, <1>2, <2>2, <3>1, SplitTwo, TwoAhead
  <2>4. <<"3", "/", h, "/">> \o n = <<"3">> \o (<<"/">> \o y)
    <3>1. "3" \in Token /\ "/" \in Token
      BY Words
    <3>2. <<"3", "/", h, "/">> = <<"3">> \o <<"/", h, "/">> /\ <<"/", h, "/">> = <<"/">> \o <<h, "/">>
      BY <2>2, <3>1, OneAndThree, OneAndTwo
    <3>3. <<"3">> \in Texts /\ <<"/">> \in Texts /\ <<"/", h, "/">> \in Texts /\ <<h, "/">> \in Texts
      BY <2>2, <3>1, OneIsSeq, ThreeAreSeq, TwoAreSeq DEF Texts
    <3>4. (<<"3">> \o <<"/", h, "/">>) \o n = <<"3">> \o (<<"/", h, "/">> \o n)
      BY <1>1, <3>3, ConcatTexts
    <3>5. (<<"/">> \o <<h, "/">>) \o n = <<"/">> \o (<<h, "/">> \o n)
      BY <1>1, <3>3, ConcatTexts
    <3> QED BY <2>3, <3>2, <3>4, <3>5
  <2>5. <<"3">> \in Texts /\ ~Has(<<"3">>, "/")
    <3>1. "3" \in Token /\ "3" # "/"
      BY Words
    <3> QED BY <3>1, OneHas
  <2> HIDE DEF y
  <2>6. x \in Texts /\ Split(x, "/") = <<<<"3">>>> \o <<<<h>>, n>>
    <3> DEFINE a == <<"3">>
    <3>1. a \in Texts /\ ~Has(a, "/") /\ x = a \o (<<"/">> \o y)
      BY <2>1, <2>4, <2>5
    <3> HIDE DEF a
    <3>2. x \in Texts /\ Split(x, "/") = <<a>> \o Split(y, "/")
      BY <1>1, <2>3, <3>1, SplitFront
    <3> QED BY <2>3, <3>2 DEF a
  <2>7. <<<<"3">>>> \o <<<<h>>, n>> = <<<<"3">>, <<h>>, n>>
    <3>1. <<h>> \in Texts
      BY <2>2, TokenText
    <3> QED BY <1>1, <2>5, <3>1, OneAndTwo
  <2> DEFINE s == <<<<"3">>, <<h>>, n>>
  <2>8. Last(s) = n /\ s[1] = <<"3">> /\ <<"3">> # <<"crates">>
    BY DEF Last
  <2> HIDE DEF s
  <2> QED BY <2>6, <2>7, <2>8 DEF s, x
<1>5. CASE Len(n) > 3
  <2> DEFINE a == SubSeq(n, 1, 2)
             b == SubSeq(n, 3, 4)
  <2>1. x = a \o <<"/">> \o b \o <<"/">> \o n
    <3>1. Len(n) \notin {1, 2} /\ Len(n) # 3
      BY <1>2, <1>5
    <3> QED BY <1>1, <1>5, <3>1 DEF SparsePath
  <2>2. a \in Texts /\ b \in Texts /\ Len(a) = 2 /\ ~Has(a, "/") /\ ~Has(b, "/")
    <3>1. \A i \in 1..2 : n[i] \in Token /\ n[i] # "/"
      BY <1>2, <1>5
    <3>2. \A i \in 3..4 : n[i] \in Token /\ n[i] # "/"
      BY <1>2, <1>5
    <3>3. a \in Texts /\ Len(a) = 2 /\ \A i \in 1..2 : a[i] = n[i]
      <4>1. \A i \in 1..2 : n[i] \in Token
        BY <3>1
      <4>2. a \in Seq(Token) /\ Len(a) = 2 /\ \A i \in 1..2 : a[i] = n[1 + i - 1]
        BY <4>1, SubSeqProperties
      <4>3. \A i \in 1..2 : 1 + i - 1 = i
        OBVIOUS
      <4> QED BY <4>2, <4>3 DEF Texts
    <3>4. b \in Texts /\ Len(b) = 2 /\ \A i \in 1..2 : b[i] = n[3 + i - 1]
      <4>1. \A i \in 3..4 : n[i] \in Token
        BY <3>2
      <4> QED BY <4>1, SubSeqProperties DEF Texts
    <3> HIDE DEF a, b
    <3>5. \A i \in 1..Len(a) : a[i] # "/"
      BY <3>1, <3>3
    <3>6. \A i \in 1..Len(b) : b[i] # "/"
      <4>1. \A i \in 1..2 : 3 + i - 1 \in 3..4
        OBVIOUS
      <4> QED BY <3>2, <3>4, <4>1
    <3> QED BY <3>3, <3>4, <3>5, <3>6, HasIs
  <2> HIDE DEF a, b, x
  <2>3. x = a \o (<<"/">> \o (b \o (<<"/">> \o n)))
    <3> DEFINE w == <<"/">>
    <3>1. w \in Texts
      BY <1>1, TokenText
    <3>2. x = (((a \o w) \o b) \o w) \o n
      BY <2>1
    <3> HIDE DEF w
    <3>3. Chained(a, w, b, w, n)
      BY <1>1, <2>2, <3>1, ConcatFive
    <3>4. x = a \o (w \o (b \o (w \o n)))
      BY <3>2, <3>3 DEF Chained
    <3> QED BY <3>4 DEF w
  <2>4. x \in Texts /\ Split(x, "/") = <<a, b, n>>
    BY <1>1, <1>2, <2>2, <2>3, SplitThree
  <2>5. a # <<"crates">>
    BY <2>2
  <2> DEFINE s == <<a, b, n>>
  <2>6. Last(s) = n /\ s[1] = a
    BY DEF Last
  <2> HIDE DEF s
  <2> QED BY <2>4, <2>5, <2>6 DEF s, x
<1>6. Len(n) \in {1, 2} \/ Len(n) = 3 \/ Len(n) > 3
  <2> DEFINE l == Len(n)
  <2>1. l \in Nat \ {0}
    BY <1>2
  <2> HIDE DEF l
  <2>2. l \in {1, 2} \/ l = 3 \/ l > 3
    BY <2>1
  <2> QED BY <2>2 DEF l
<1> QED BY <1>3, <1>4, <1>5, <1>6

\* The sparse index path of a crate is taken for a listing of it (server.rs 1243-1263,
\* cargo.rs 78-94).
LEMMA CargoListing ==
  ASSUME NEW n, IsCrate(n)
  PROVE  ParseCargo(SparsePath(n)) = Listing(n)
<1> DEFINE x == SparsePath(n)
           s == Split(x, "/")
<1>1. Last(s) = n /\ s[1] # <<"crates">>
  BY SparseParts
<1>2. Lower(n) = n /\ ValidCrate(n)
  BY DEF IsCrate
<1> HIDE DEF s, x
<1>3. ParseCargo(x) = Listing(n)
  BY <1>1, <1>2 DEF ParseCargo, s, x
<1> QED BY <1>3 DEF x

\* Whatever path names a crate, its sparse path and the download link of its version name
\* the same (server.rs 1243-1263).
LEMMA CargoAgrees ==
  ASSUME NEW text \in Texts, NEW route, route = ParseCargo(text), route.to # "none"
  PROVE  /\ IsCrate(route.name) /\ route.version \in Texts
         /\ ParseCargo(SparsePath(route.name)) = Listing(route.name)
         /\ route.to = "artifact" =>
              ParseCargo(Join(<<<<"crates">>, route.name, route.version, <<"download">>>>, "/")) = route
<1> DEFINE s == Split(text, "/")
           crate == Lower(Last(s))
<1>1. s \in Seq(Texts) /\ Len(s) \in Nat \ {0} /\ \A k \in 1..Len(s) : s[k] \in Texts /\ ~Has(s[k], "/")
  BY SplitParts
<1>2. <<>> \in Texts
  BY EmptySeq DEF Texts
<1>3. CASE s[1] = <<"crates">>
  <2> DEFINE n == Lower(s[2])
  <2>1. Len(s) = 4 /\ s[4] = <<"download">> /\ ValidCrate(s[2]) /\ route = Delivery(n, s[3], <<>>)
    BY <1>3 DEF ParseCargo, NoRoute
  <2>2. s[2] \in Texts /\ s[3] \in Texts /\ ~Has(s[3], "/")
    BY <1>1, <2>1
  <2>3. IsCrate(n)
    BY <2>1, <2>2, LowerCrate
  <2>4. route.name = n /\ route.version = s[3] /\ route.to = "artifact"
    BY <2>1 DEF Delivery
  <2>5. ParseCargo(SparsePath(n)) = Listing(n)
    BY <2>3, CargoListing
  <2> DEFINE v == s[3]
             link == Join(<<<<"crates">>, n, v, <<"download">>>>, "/")
  <2>6. Split(link, "/") = <<<<"crates">>, n, v, <<"download">>>>
    <3>1. n \in Texts /\ ~Has(n, "/")
      BY <2>3, CrateHas DEF IsCrate
    <3>2. "/" \in Token /\ "crates" \in Token /\ "download" \in Token
      BY Words
    <3>3. <<"crates">> \in Texts /\ ~Has(<<"crates">>, "/") /\ <<"download">> \in Texts /\ ~Has(<<"download">>, "/")
      BY <3>2, OneHas
    <3> HIDE DEF n, s, crate
    <3> QED BY <2>2, <3>1, <3>2, <3>3, SplitFour
  <2> HIDE DEF link
  <2>7. ParseCargo(link) = Delivery(n, v, <<>>)
    <3> DEFINE p == <<<<"crates">>, n, v, <<"download">>>>
    <3>1. p[1] = <<"crates">> /\ p[2] = n /\ p[3] = v /\ p[4] = <<"download">> /\ Len(p) = 4
      OBVIOUS
    <3>2. ValidCrate(n) /\ Lower(n) = n
      BY <2>3 DEF IsCrate
    <3> HIDE DEF p, n
    <3> QED BY <2>6, <3>1, <3>2 DEF ParseCargo, p
  <2> HIDE DEF n, s, crate
  <2> QED BY <2>1, <2>2, <2>3, <2>4, <2>5, <2>7 DEF link
<1>4. CASE s[1] # <<"crates">>
  <2>1. ValidCrate(crate) /\ route = Listing(crate)
    BY <1>4 DEF ParseCargo, NoRoute
  <2>2. Last(s) \in Texts
    BY <1>1 DEF Last
  <2>3. crate \in Texts /\ Lower(crate) = crate
    BY <2>2, LowerText, LowerTwice
  <2> HIDE DEF s, crate
  <2>4. IsCrate(crate)
    BY <2>1, <2>3 DEF IsCrate
  <2>5. route.name = crate /\ route.to = "listing" /\ route.version = <<>>
    BY <2>1 DEF Listing
  <2> QED BY <1>2, <2>1, <2>4, <2>5, CargoListing
<1> QED BY <1>3, <1>4

-----------------------------------------------------------------------------
(* PyPI (server.rs 1265-1298). *)

\* The empty text has nothing.
LEMMA NothingHas ==
  <<>> \in Texts /\ Len(<<>>) = 0 /\ \A token : ~Has(<<>>, token)
<1> DEFINE e == <<>>
<1>1. e \in Texts /\ Len(e) = 0
  BY EmptySeq DEF Texts
<1> HIDE DEF e
<1>2. \A i \in 1..Len(e) : FALSE
  BY <1>1
<1>3. \A token : ~Has(e, token)
  BY <1>1, <1>2, HasIs
<1> QED BY <1>1, <1>3 DEF e

\* What a version or a file is written with.
Writable == Alphanumeric \cup Marks \cup {"gem", "nupkg", "nuspec", "mod", "jar", "+"}

\* None of the marks of paths and escapes is written in a version or a file.
LEMMA NotWritable ==
  /\ "/" \notin Writable /\ "%" \notin Writable /\ "@" \notin Writable /\ "!" \notin Writable
  /\ "%2F" \notin Writable /\ "%40" \notin Writable /\ "%41" \notin Writable /\ ":" \notin Writable
BY DEF Writable, Alphanumeric, Digits, Marks

\* What is written so has none of them, and is decoded to itself (server.rs 1338-1357).
LEMMA WritableIs ==
  ASSUME NEW text \in Texts, Range(text) \subseteq Writable
  PROVE  /\ \A token : token \notin Writable => ~Has(text, token)
         /\ Decode(text) = text
<1>1. \A token : token \notin Writable => ~Has(text, token)
  BY DEF Has
<1>2. \A i \in 1..Len(text) : text[i] \in Writable
  BY RangeIs
<1>3. Unmapped(Encoded, text)
  BY <1>2, NotWritable DEF Unmapped, Encoded
<1>4. Decode(text) = text
  BY <1>3, LowerIsMap, ReplaceNothing DEF Decode
<1> QED BY <1>1, <1>4

\* What a registry lets a file or a name be called is written so.
LEMMA LegalIsWritable ==
  ASSUME NEW text
  PROVE  /\ LegalFile(text) => Range(text) \subseteq Writable
         /\ Plain(text) => text # <<>> /\ Range(text) \subseteq Writable
BY DEF LegalFile, Plain, Writable

\* What is decoded is a text of the same length.
LEMMA DecodeText ==
  ASSUME NEW text \in Texts
  PROVE  Decode(text) \in Texts /\ Len(Decode(text)) = Len(text)
BY LowerIsMap, ReplaceIs DEF Decode

\* A plain package name as it is normalized.
LEMMA NormalizedText ==
  ASSUME NEW name \in Texts, Plain(NormalizePypi(name))
  PROVE  NormalizePypi(name) \in Texts /\ NormalizePypi(NormalizePypi(name)) = NormalizePypi(name)
<1> DEFINE r == NormalizePypi(name)
<1>1. IsText(name, Len(name))
  BY TextLength
<1>2. PICK N : IsNormal(r, N)
  BY <1>1, NormalizedIsNormal
<1>3. NormalizePypi(r) = r
  BY <1>1, NormalizePypiTwice
<1>4. Range(r) \subseteq Token
  BY Words DEF Plain, Alphanumeric, Digits, Marks
<1> HIDE DEF r
<1>5. N \in Nat /\ DOMAIN r = 1..N /\ r = [i \in 1..N |-> r[i]]
  BY <1>2, TextIs DEF IsNormal, IsText
<1>6. \A i \in 1..N : r[i] \in Token
  BY <1>4, <1>5 DEF Range
<1>7. r \in [1..N -> Token]
  BY <1>5, <1>6
<1>8. r \in Texts
  BY <1>5, <1>7 DEF Texts
<1> QED BY <1>3, <1>8 DEF r

\* What a link has that is not in its parts.
LEMMA FramedHas ==
  ASSUME NEW a \in Texts, NEW b \in Texts, NEW t \in Token, NEW token, token # t,
         ~Has(a, token), ~Has(b, token)
  PROVE  ~Has(a \o (<<t>> \o b), token)
<1>1. ~Has(<<t>> \o b, token) /\ <<t>> \o b \in Texts
  BY HasToken, OneAheadIs
<1> QED BY <1>1, HasConcat

\* Four parts joined have what one of them has, or the token between.
LEMMA FourHas ==
  ASSUME NEW a \in Texts, NEW b \in Texts, NEW c \in Texts, NEW d \in Texts, NEW t \in Token,
         NEW token, token # t, ~Has(a, token), ~Has(b, token), ~Has(c, token), ~Has(d, token)
  PROVE  ~Has(Join(<<a, b, c, d>>, t), token)
<1> DEFINE q == <<a, b, c, d>>
<1>1. q \in Seq(Texts) /\ Len(q) = 4 /\ q[1] = a /\ q[2] = b /\ q[3] = c /\ q[4] = d
  BY FourAreSeq
<1> HIDE DEF q
<1>2. Len(q) \in Nat \ {0} /\ \A i \in 1..Len(q) : ~Has(q[i], token)
  <2>1. \A i \in 1..4 : i = 1 \/ i = 2 \/ i = 3 \/ i = 4
    OBVIOUS
  <2>2. ~Has(q[1], token) /\ ~Has(q[2], token) /\ ~Has(q[3], token) /\ ~Has(q[4], token)
    BY <1>1
  <2>3. \A i \in 1..4 : ~Has(q[i], token)
    BY <2>1, <2>2
  <2> QED BY <1>1, <2>3
<1>3. ~Has(Join(q, t), token)
  BY <1>1, <1>2, HasJoin
<1> QED BY <1>3 DEF q

\* A canonical project name.
IsProject(name) ==
  name \in Texts /\ Plain(name) /\ NormalizePypi(name) = name

\* The simple page of a project is taken for a listing of it (server.rs 1265-1279).
LEMMA PypiListing ==
  ASSUME NEW name, IsProject(name)
  PROVE  ParsePypi(<<"simple", "/">> \o name \o <<"/">>) = Listing(name)
<1> DEFINE link == <<"simple", "/">> \o name \o <<"/">>
           a == <<"simple">>
           e == <<>>
           s == Split(link, "/")
           d == [i \in DOMAIN s |-> Decode(s[i])]
<1>1. name \in Texts /\ name # <<>> /\ Range(name) \subseteq Writable /\ NormalizePypi(name) = name
  BY LegalIsWritable DEF IsProject
<1>2. "simple" \in Token /\ "/" \in Token
  BY Words
<1>3. a \in Texts /\ ~Has(a, "/") /\ ~Has(a, "%")
  BY <1>2, OneHas
<1>4. e \in Texts /\ ~Has(e, "/") /\ ~Has(e, "%")
  BY NothingHas
<1>5. ~Has(name, "/") /\ ~Has(name, "%") /\ Decode(name) = name
  BY <1>1, NotWritable, WritableIs
<1> DEFINE w == <<"/">>
<1>6. link = a \o (w \o (name \o (w \o e)))
  <2>1. w \in Texts /\ w \o e = w
    BY <1>2, TokenText, ConcatEmptySeq DEF Texts
  <2>2. <<"simple", "/">> \o name = a \o (w \o name)
    BY <1>1, <1>2, TwoAhead
  <2> HIDE DEF a, w, e
  <2>3. w \o name \in Texts
    BY <1>1, <2>1, ConcatIs
  <2>4. (a \o (w \o name)) \o w = a \o ((w \o name) \o w)
    BY <1>3, <2>1, <2>3, ConcatTexts
  <2>5. (w \o name) \o w = w \o (name \o w)
    BY <1>1, <2>1, ConcatTexts
  <2> QED BY <2>1, <2>2, <2>4, <2>5 DEF w
<1> HIDE DEF link, a, e
<1>7. s = <<a, name, e>>
  BY <1>1, <1>2, <1>3, <1>4, <1>5, <1>6, SplitThree
<1>8. ~Has(link, "%")
  <2> DEFINE y == name \o (<<"/">> \o e)
  <2>1. y \in Texts /\ ~Has(y, "%")
    BY <1>1, <1>2, <1>4, <1>5, Framed, FramedHas
  <2> HIDE DEF y
  <2>2. ~Has(a \o (<<"/">> \o y), "%")
    BY <1>2, <1>3, <2>1, FramedHas
  <2> QED BY <1>6, <2>2 DEF y
<1>9. Len(s) = 3 /\ s[1] = <<"simple">> /\ s[2] = name /\ s[3] = <<>> /\ DOMAIN s = 1..3
  BY <1>7 DEF a, e
<1> HIDE DEF s, w
<1>10. d[2] = name
  BY <1>5, <1>9
<1> HIDE DEF d
<1>11. s[1] = <<"simple">> /\ Len(s) > 1 /\ s[2] # <<>> /\ \A k \in 3..Len(s) : s[k] = <<>>
  BY <1>1, <1>9
<1>12. ParsePypi(link) = Listing(NormalizePypi(d[2]))
  BY <1>8, <1>11 DEF ParsePypi, Undecodable, s, d
<1> QED BY <1>1, <1>10, <1>12 DEF link

\* The link of a file is taken for that file (server.rs 1281-1298).
LEMMA PypiDownload ==
  ASSUME NEW name, IsProject(name),
         NEW version \in Texts, LegalFile(version), version # <<>>,
         NEW file \in Texts, LegalFile(file), file # <<>>
  PROVE  ParsePypi(Join(<<<<"packages">>, name, version, file>>, "/")) = Delivery(name, version, file)
<1> DEFINE a == <<"packages">>
           link == Join(<<a, name, version, file>>, "/")
           s == Split(link, "/")
           d == [i \in DOMAIN s |-> Decode(s[i])]
<1>1. name \in Texts /\ name # <<>> /\ NormalizePypi(name) = name /\ Decode(name) = name
      /\ ~Has(name, "/") /\ ~Has(name, "%")
  BY LegalIsWritable, NotWritable, WritableIs DEF IsProject
<1>2. "packages" \in Token /\ "/" \in Token
  BY Words
<1>3. a \in Texts /\ ~Has(a, "/") /\ ~Has(a, "%")
  BY <1>2, OneHas
<1>4. /\ ~Has(version, "/") /\ ~Has(version, "%") /\ Decode(version) = version
      /\ ~Has(file, "/") /\ ~Has(file, "%") /\ Decode(file) = file
  BY LegalIsWritable, NotWritable, WritableIs
<1> HIDE DEF a
<1>5. s = <<a, name, version, file>>
  BY <1>1, <1>2, <1>3, <1>4, SplitFour
<1>6. ~Has(link, "%")
  BY <1>1, <1>2, <1>3, <1>4, FourHas
<1>7. Len(s) = 4 /\ s[1] = a /\ s[2] = name /\ s[3] = version /\ s[4] = file /\ DOMAIN s = 1..4
  BY <1>5
<1> HIDE DEF link, s
<1>8. d[2] = name /\ d[3] = version /\ d[4] = file
  BY <1>1, <1>4, <1>7
<1>9. \A k \in 2..4 : s[k] # <<>>
  <2>1. \A k \in 2..4 : k = 2 \/ k = 3 \/ k = 4
    OBVIOUS
  <2> QED BY <1>1, <1>7, <2>1
<1>10. s[1] = <<"packages">> /\ s[1] # <<"simple">>
  BY <1>7 DEF a
<1> HIDE DEF d
<1>11. ParsePypi(link) = Delivery(NormalizePypi(d[2]), d[3], d[4])
  BY <1>6, <1>7, <1>9, <1>10 DEF ParsePypi, Undecodable, s, d
<1> QED BY <1>1, <1>8, <1>11 DEF link, a

\* Whatever path names a project, the simple page and the link of its file name the same
\* (server.rs 1265-1298, pypi.rs 523-531).
LEMMA PypiAgrees ==
  ASSUME NEW text \in Texts, NEW route, route = ParsePypi(text), route.to # "none",
         Plain(route.name), LegalFile(route.version), LegalFile(route.file)
  PROVE  /\ IsProject(route.name) /\ route.version \in Texts
         /\ ParsePypi(<<"simple", "/">> \o route.name \o <<"/">>) = Listing(route.name)
         /\ route.to = "artifact" =>
              ParsePypi(Join(<<<<"packages">>, route.name, route.version, route.file>>, "/")) = route
<1> DEFINE s == Split(text, "/")
           d == [i \in DOMAIN s |-> Decode(s[i])]
           simple == s[1] = <<"simple">> /\ Len(s) > 1 /\ s[2] # <<>> /\ \A k \in 3..Len(s) : s[k] = <<>>
           package == s[1] = <<"packages">> /\ Len(s) = 4 /\ \A k \in 2..4 : s[k] # <<>>
<1>1. DOMAIN s = 1..Len(s) /\ Len(s) \in Nat /\ \A k \in 1..Len(s) : s[k] \in Texts
  BY SplitParts, LenProperties
<1>2. \/ simple /\ route = Listing(NormalizePypi(d[2]))
      \/ package /\ route = Delivery(NormalizePypi(d[2]), d[3], d[4])
  BY DEF ParsePypi, NoRoute
<1> HIDE DEF s
<1>3. CASE simple /\ route = Listing(NormalizePypi(d[2]))
  <2>1. 2 \in 1..Len(s)
    BY <1>1, <1>3
  <2>2. d[2] \in Texts
    BY <1>1, <2>1, DecodeText
  <2>3. route.name = NormalizePypi(d[2]) /\ route.version = <<>> /\ route.to = "listing"
    BY <1>3 DEF Listing
  <2> HIDE DEF d, simple
  <2>4. IsProject(route.name)
    BY <2>2, <2>3, NormalizedText DEF IsProject
  <2> QED BY <2>3, <2>4, NothingHas, PypiListing
<1>4. CASE package /\ route = Delivery(NormalizePypi(d[2]), d[3], d[4])
  <2>1. Len(s) = 4 /\ 2 \in 1..4 /\ 3 \in 1..4 /\ 4 \in 1..4 /\ 3 \in 2..4 /\ 4 \in 2..4
    BY <1>4
  <2>2. d[2] \in Texts /\ d[3] \in Texts /\ d[4] \in Texts
    BY <1>1, <2>1, DecodeText
  <2>3. d[3] # <<>> /\ d[4] # <<>>
    <3>1. s[3] # <<>> /\ s[4] # <<>> /\ s[3] \in Texts /\ s[4] \in Texts
      BY <1>1, <1>4, <2>1
    <3>2. d[3] = Decode(s[3]) /\ d[4] = Decode(s[4])
      BY <1>1, <2>1
    <3>3. \A t \in Texts : t # <<>> => Decode(t) # <<>>
      <4> SUFFICES ASSUME NEW t \in Texts, t # <<>> PROVE Decode(t) # <<>>
        OBVIOUS
      <4>1. Len(t) \in Nat \ {0}
        BY EmptySeq DEF Texts
      <4>2. Len(Decode(t)) = Len(t)
        BY DecodeText
      <4> DEFINE l == Len(Decode(t))
      <4>3. l \in Nat \ {0}
        BY <4>1, <4>2
      <4> HIDE DEF l
      <4>4. l > 0
        BY <4>3
      <4> QED BY <4>4, NotEmpty DEF l
    <3> QED BY <3>1, <3>2, <3>3
  <2>4. /\ route.name = NormalizePypi(d[2]) /\ route.version = d[3] /\ route.file = d[4]
        /\ route = Delivery(route.name, route.version, route.file)
    BY <1>4 DEF Delivery
  <2> HIDE DEF d, package
  <2>5. IsProject(route.name)
    BY <2>2, <2>4, NormalizedText DEF IsProject
  <2>6. ParsePypi(<<"simple", "/">> \o route.name \o <<"/">>) = Listing(route.name)
    BY <2>5, PypiListing
  <2>7. ParsePypi(Join(<<<<"packages">>, route.name, route.version, route.file>>, "/"))
          = Delivery(route.name, route.version, route.file)
    BY <2>2, <2>3, <2>4, <2>5, PypiDownload
  <2> QED BY <2>2, <2>4, <2>5, <2>6, <2>7
<1> QED BY <1>2, <1>3, <1>4

-----------------------------------------------------------------------------
(* RubyGems (server.rs 1155-1174). *)

\* The name of a gem is written with the tokens of names (rubygems.rs 682-693).
LEMMA GemIs ==
  ASSUME NEW name \in Texts, ValidGem(name)
  PROVE  Range(name) \subseteq Writable
BY DEF ValidGem, Writable

\* What follows a literal and a slash.
LEMMA AfterSlash ==
  ASSUME NEW word \in Token, word # "/", NEW x \in Texts
  PROVE  LET link == <<word, "/">> \o x
             s == Split(link, "/")
         IN /\ link = <<word>> \o (<<"/">> \o x)
            /\ link \in Texts /\ s[1] = <<word>> /\ Len(s) \in Nat /\ ~(Len(s) < 2) /\ After(link, 2) = x
            /\ \A token : token \notin {word, "/"} /\ ~Has(x, token) => ~Has(link, token)
<1> DEFINE a == <<word>>
           link == <<word, "/">> \o x
           s == Split(link, "/")
           t == Split(x, "/")
<1>1. "/" \in Token
  BY Words
<1>2. link = a \o (<<"/">> \o x)
  BY <1>1, TwoAhead
<1>3. a \in Texts /\ Len(a) = 1 /\ ~Has(a, "/") /\ \A token : token # word => ~Has(a, token)
  BY OneHas
<1>4. t \in Seq(Texts) /\ Len(t) \in Nat \ {0}
  BY SplitParts
<1> HIDE DEF a, link, t
<1>5. link \in Texts /\ s = <<a>> \o t
  BY <1>1, <1>2, <1>3, SplitFront DEF t
<1>6. Len(<<a>> \o t) = 1 + Len(t) /\ (<<a>> \o t)[1] = a
  BY <1>3, <1>4, OneAndMore
<1>7. s[1] = a /\ Len(s) \in Nat /\ ~(Len(s) < 2)
  BY <1>4, <1>5, <1>6
<1>8. After(link, Len(a) + 1) = x
  BY <1>1, <1>2, <1>3, BeforeAfter
<1>9. Len(a) + 1 = 2
  BY <1>3
<1>10. ASSUME NEW token, token # word, token # "/", ~Has(x, token) PROVE ~Has(link, token)
  BY <1>1, <1>2, <1>3, <1>10, FramedHas
<1>11. After(link, 2) = x
  BY <1>8, <1>9
<1> QED BY <1>2, <1>5, <1>7, <1>10, <1>11 DEF a, link

\* The info file of a gem is taken for a listing of it (server.rs 1155-1174).
LEMMA RubygemsListing ==
  ASSUME NEW name \in Texts, ValidGem(name)
  PROVE  ParseRubygems(<<"info", "/">> \o name) = Listing(name)
<1> DEFINE link == <<"info", "/">> \o name
           s == Split(link, "/")
           d == Decode(After(link, 2))
<1>1. ~Has(name, "%") /\ Decode(name) = name
  BY GemIs, NotWritable, WritableIs
<1>2. "info" \in Token
  BY Words
<1>3. s[1] = <<"info">> /\ ~(Len(s) < 2) /\ After(link, 2) = name /\ ~Has(link, "%")
  BY <1>1, <1>2, AfterSlash
<1> HIDE DEF link, s
<1>4. d = name
  BY <1>1, <1>3
<1> HIDE DEF d
<1>5. ParseRubygems(link) = Listing(d)
  BY <1>3, <1>4 DEF ParseRubygems, Undecodable, s, d
<1> QED BY <1>4, <1>5 DEF link

\* Whatever path names a gem, the info file and the link of its file name the same
\* (server.rs 1155-1174).
LEMMA RubygemsAgrees ==
  ASSUME NEW text \in Texts, NEW route, route = ParseRubygems(text), route.to # "none",
         LegalFile(route.file)
  PROVE  /\ route.name \in Texts /\ route.version = <<>>
         /\ route.name # <<>> => ParseRubygems(<<"info", "/">> \o route.name) = Listing(route.name)
         /\ route.to = "artifact" => ParseRubygems(<<"gems", "/">> \o route.file) = route
<1> DEFINE d == Decode(After(text, 2))
           s == Split(text, "/")
<1>1. \/ ValidGem(d) /\ route = Listing(d)
      \/ ~Has(d, "/") /\ Ends(d, <<".", "gem">>) /\ route = Delivery(<<>>, <<>>, d)
  BY DEF ParseRubygems, NoRoute
<1>2. d \in Texts
  <2>1. After(text, 2) \in Texts
    <3> DEFINE n == Len(text)
    <3>1. n \in Nat
      BY TextLength
    <3> HIDE DEF n
    <3>2. 3 \in Int /\ n \in Int /\ \A k \in 3..n : k \in 1..n
      BY <3>1
    <3>3. \A k \in 3..n : text[k] \in Token
      BY <3>2, RangeIs DEF n
    <3>4. SubSeq(text, 3, n) \in Seq(Token)
      BY <3>2, <3>3, SubSeqProperties
    <3>5. 2 + 1 = 3
      OBVIOUS
    <3> QED BY <3>4, <3>5 DEF After, n, Texts
  <2> QED BY <2>1, DecodeText
<1> HIDE DEF d
<1>3. CASE ValidGem(d) /\ route = Listing(d)
  <2>1. route.name = d /\ route.version = <<>> /\ route.to = "listing"
    BY <1>3 DEF Listing
  <2> QED BY <1>2, <1>3, <2>1, RubygemsListing
<1>4. CASE ~Has(d, "/") /\ Ends(d, <<".", "gem">>) /\ route = Delivery(<<>>, <<>>, d)
  <2>1. route.name = <<>> /\ route.version = <<>> /\ route.file = d
    BY <1>4 DEF Delivery
  <2> DEFINE link == <<"gems", "/">> \o d
             q == Split(link, "/")
             e == Decode(After(link, 2))
  <2>2. ~Has(d, "%") /\ Decode(d) = d
    BY <1>2, <2>1, LegalIsWritable, NotWritable, WritableIs
  <2>3. "gems" \in Token
    BY Words
  <2>4. q[1] = <<"gems">> /\ ~(Len(q) < 2) /\ After(link, 2) = d /\ ~Has(link, "%")
    BY <1>2, <2>2, <2>3, AfterSlash
  <2> HIDE DEF link, q
  <2>5. e = d /\ q[1] # <<"info">>
    BY <2>2, <2>4
  <2> HIDE DEF e
  <2>6. ParseRubygems(link) = Delivery(<<>>, <<>>, e)
    BY <1>4, <2>4, <2>5 DEF ParseRubygems, Undecodable, q, e
  <2> QED BY <1>4, <2>1, <2>5, <2>6, NothingHas DEF link
<1> QED BY <1>1, <1>3, <1>4

-----------------------------------------------------------------------------
(* npm (server.rs 1300-1336). *)

\* The first two of a sequence.
LEMMA FirstTwo ==
  ASSUME NEW d \in Seq(Texts), Len(d) >= 2
  PROVE  SubSeq(d, 1, 2) = <<d[1], d[2]>> /\ d[1] \in Texts /\ d[2] \in Texts
<1> DEFINE n == Len(d)
           a == d[1]
           b == d[2]
           x == SubSeq(d, 1, 2)
           y == <<a, b>>
<1>1. n \in Nat /\ n >= 2 /\ \A i \in 1..n : d[i] \in Texts
  BY LenProperties, ElementOfSeq
<1> HIDE DEF n
<1>2. 1 \in 1..n /\ 2 \in 1..n /\ \A i \in 1..2 : i \in 1..n
  BY <1>1
<1>3. a \in Texts /\ b \in Texts /\ \A i \in 1..2 : d[i] \in Texts
  BY <1>1, <1>2
<1>4. x \in Seq(Texts) /\ Len(x) = 2 /\ \A i \in 1..2 : x[i] = d[1 + i - 1]
  BY <1>3, SubSeqProperties
<1> HIDE DEF x
<1>5. x[1] = a /\ x[2] = b
  <2>1. 1 + 1 - 1 = 1 /\ 1 + 2 - 1 = 2 /\ 1 \in 1..2 /\ 2 \in 1..2
    OBVIOUS
  <2> QED BY <1>4, <2>1
<1> HIDE DEF a, b
<1>6. y \in Seq(Texts) /\ Len(y) = 2 /\ y[1] = a /\ y[2] = b
  BY <1>3, TwoAreSeq
<1> HIDE DEF y
<1>7. \A i \in 1..Len(x) : x[i] = y[i]
  <2>1. \A i \in 1..2 : i = 1 \/ i = 2
    OBVIOUS
  <2> QED BY <1>4, <1>5, <1>6, <2>1
<1>8. x = y
  BY <1>4, <1>6, <1>7, SeqEqual
<1> QED BY <1>3, <1>8 DEF x, y, a, b

\* An npm scope.
IsScope(scope) == scope \in Texts /\ scope # <<>> /\ scope[1] = "@" /\ Plain(Tail(scope))

\* A scope is decoded to itself, and is one part of a path.
LEMMA ScopeIs ==
  ASSUME NEW scope, IsScope(scope)
  PROVE  ~Has(scope, "/") /\ ~Has(scope, "%") /\ Decode(scope) = scope
<1> DEFINE n == Len(scope)
           t == Tail(scope)
<1>1. scope \in Texts /\ scope # <<>> /\ scope[1] = "@" /\ Range(t) \subseteq Writable
  BY LegalIsWritable DEF IsScope
<1>2. t \in Texts /\ Len(t) = n - 1 /\ \A i \in 1..Len(t) : t[i] = scope[i + 1]
  BY <1>1, HeadTailProperties DEF Texts
<1>3. n \in Nat
  BY <1>1, TextLength
<1> HIDE DEF n, t
<1>4. \A i \in 1..Len(t) : t[i] \in Writable
  BY <1>1, <1>2, RangeIs
<1>5. ASSUME NEW i \in 1..n PROVE scope[i] = "@" \/ scope[i] \in Writable
  <2>1. CASE i = 1
    BY <1>1, <2>1
  <2>2. CASE i # 1
    <3> DEFINE j == i - 1
    <3>1. j \in 1..Len(t) /\ j + 1 = i
      BY <1>2, <1>3, <2>2
    <3> HIDE DEF j
    <3>2. t[j] = scope[i] /\ t[j] \in Writable
      BY <1>2, <1>4, <3>1
    <3> QED BY <3>2
  <2> QED BY <2>1, <2>2
<1>6. \A i \in 1..Len(scope) : scope[i] # "/" /\ scope[i] # "%"
                               /\ scope[i] # "%2F" /\ scope[i] # "%40" /\ scope[i] # "%41"
  BY <1>5, NotWritable DEF n
<1>7. ~Has(scope, "/") /\ ~Has(scope, "%")
  BY <1>1, <1>6, HasIs
<1>8. Unmapped(Encoded, scope)
  BY <1>6 DEF Unmapped, Encoded
<1>9. Decode(scope) = scope
  BY <1>1, <1>8, LowerIsMap, ReplaceNothing DEF Decode
<1> QED BY <1>7, <1>9

IsUnscoped(name) == name \in Texts /\ Plain(name)

\* A name is a plain one, or a scope and a plain one.
LEMMA NpmNames ==
  ASSUME NEW name \in Texts, Legal("npm", name)
  PROVE  \/ IsUnscoped(name)
         \/ \E scope, rest : IsScope(scope) /\ IsUnscoped(rest) /\ name = scope \o (<<"/">> \o rest)
<1> DEFINE parts == Split(name, "/")
<1>1. \/ Len(parts) = 1 /\ Plain(name)
      \/ /\ Len(parts) = 2 /\ Plain(parts[2])
         /\ parts[1] # <<>> /\ parts[1][1] = "@" /\ Plain(Tail(parts[1]))
  BY DEF Legal
<1>2. "/" \in Token
  BY Words
<1>3. parts \in Seq(Texts) /\ \A k \in 1..Len(parts) : parts[k] \in Texts
  BY SplitParts
<1>4. Join(parts, "/") = name
  BY <1>2, JoinSplit
<1> HIDE DEF parts
<1>5. CASE Len(parts) = 2 /\ Plain(parts[2])
           /\ parts[1] # <<>> /\ parts[1][1] = "@" /\ Plain(Tail(parts[1]))
  <2>1. parts[1] \in Texts /\ parts[2] \in Texts
    <3>1. 1 \in 1..Len(parts) /\ 2 \in 1..Len(parts)
      BY <1>5
    <3> QED BY <1>3, <3>1
  <2>2. parts = <<parts[1], parts[2]>>
    <3>1. Len(parts) >= 2 /\ Len(parts) = 2
      BY <1>5
    <3>2. SubSeq(parts, 1, 2) = <<parts[1], parts[2]>>
      BY <1>3, <3>1, FirstTwo
    <3>3. SubSeq(parts, 1, 2) = parts
      BY <1>3, <3>1, SubSeqFull
    <3> QED BY <3>2, <3>3
  <2>3. name = parts[1] \o (<<"/">> \o parts[2])
    BY <1>2, <1>4, <2>1, <2>2, JoinTwo
  <2>4. IsScope(parts[1]) /\ IsUnscoped(parts[2])
    BY <1>5, <2>1 DEF IsScope, IsUnscoped
  <2> QED BY <2>3, <2>4
<1>6. CASE Len(parts) = 1 /\ Plain(name)
  BY <1>6 DEF IsUnscoped
<1> QED BY <1>1, <1>5, <1>6

\* A plain name is decoded to itself, and is one part of a path.
LEMMA UnscopedIs ==
  ASSUME NEW name, IsUnscoped(name)
  PROVE  name \in Texts /\ name # <<>> /\ ~Has(name, "/") /\ ~Has(name, "%") /\ Decode(name) = name
BY LegalIsWritable, NotWritable, WritableIs DEF IsUnscoped

\* A package's name as a path is a listing of it, with a scope or without
\* (server.rs 1300-1336).
LEMMA NpmListing ==
  ASSUME NEW name \in Texts, Legal("npm", name)
  PROVE  ParseNpm(name) = Listing(name)
<1>0. "/" \in Token /\ "/" # "%"
  BY Words
<1>1. CASE IsUnscoped(name)
  <2> DEFINE s == <<name>>
  <2>1. s \in Seq(Texts) /\ Len(s) = 1 /\ s[1] = name /\ DOMAIN s = 1..1
    BY OneIsSeq
  <2>2. ~Undecodable(name) /\ Split(name, "/") = s /\ name # <<>> /\ Decode(name) = name
    BY <1>1, UnscopedIs, Uncut DEF Undecodable
  <2> HIDE DEF s
  <2>3. [i \in DOMAIN s |-> Decode(s[i])] = s
    <3>1. \A i \in 1..1 : Decode(s[i]) = s[i]
      BY <2>1, <2>2
    <3>2. s = [i \in 1..1 |-> s[i]]
      BY <2>1, LenProperties
    <3> QED BY <2>1, <3>1, <3>2
  <2>4. Len(s) = 1 /\ s[1] # <<>>
    BY <2>1, <2>2
  <2>5. ParseNpm(name) = Listing(s[1])
    BY <2>2, <2>3, <2>4 DEF ParseNpm
  <2> QED BY <2>1, <2>5
<1>2. ASSUME NEW scope, NEW rest, IsScope(scope), IsUnscoped(rest), name = scope \o (<<"/">> \o rest)
      PROVE  ParseNpm(name) = Listing(name)
  <2> DEFINE s == <<scope, rest>>
  <2>1. /\ scope \in Texts /\ scope # <<>> /\ scope[1] = "@"
        /\ ~Has(scope, "/") /\ ~Has(scope, "%") /\ Decode(scope) = scope
    BY <1>2, ScopeIs DEF IsScope
  <2>2. rest \in Texts /\ rest # <<>> /\ ~Has(rest, "/") /\ ~Has(rest, "%") /\ Decode(rest) = rest
    BY <1>2, UnscopedIs
  <2>3. s \in Seq(Texts) /\ Len(s) = 2 /\ s[1] = scope /\ s[2] = rest /\ DOMAIN s = 1..2
    BY <2>1, <2>2, TwoAreSeq
  <2>4. Split(name, "/") = s
    BY <1>0, <1>2, <2>1, <2>2, SplitTwo
  <2>5. ~Undecodable(name)
    BY <1>0, <1>2, <2>1, <2>2, FramedHas DEF Undecodable
  <2> HIDE DEF s
  <2>6. [i \in DOMAIN s |-> Decode(s[i])] = s
    <3>1. \A i \in 1..2 : Decode(s[i]) = s[i]
      <4>1. \A i \in 1..2 : i = 1 \/ i = 2
        OBVIOUS
      <4> QED BY <2>1, <2>2, <2>3, <4>1
    <3>2. s = [i \in 1..2 |-> s[i]]
      BY <2>3, LenProperties
    <3> QED BY <2>3, <3>1, <3>2
  <2>7. Len(s) # 1 /\ Len(s) # 3 /\ Len(s) # 1 + 2 /\ Len(s) = 2
    BY <2>3
  <2>8. s[1] # <<>> /\ s[1][1] = "@" /\ s[2] # <<>>
    BY <2>1, <2>2, <2>3
  <2>9. ParseNpm(name) = Listing(Join(SubSeq(s, 1, 2), "/"))
    BY <2>4, <2>5, <2>6, <2>7, <2>8 DEF ParseNpm
  <2>10. SubSeq(s, 1, 2) = <<scope, rest>>
    <3>1. Len(s) >= 2
      BY <2>7
    <3> QED BY <2>3, <3>1, FirstTwo
  <2>11. Join(<<scope, rest>>, "/") = name
    BY <1>0, <1>2, <2>1, <2>2, JoinTwo
  <2> QED BY <2>9, <2>10, <2>11
<1> QED BY <1>1, <1>2, NpmNames

\* The end of an npm download link.
LEMMA DashFile ==
  ASSUME NEW file \in Texts, ~Has(file, "/"), ~Has(file, "%")
  PROVE  LET y == <<"-">> \o (<<"/">> \o file)
         IN /\ y \in Texts /\ Split(y, "/") = <<<<"-">>, file>> /\ ~Has(y, "%")
            /\ \A x \in Texts : x \o <<"/", "-", "/">> \o file = x \o (<<"/">> \o y)
<1> DEFINE w == <<"/">>
           a == <<"-">>
           y == a \o (w \o file)
<1>0. "/" \in Token /\ "-" \in Token /\ "/" # "%" /\ "-" # "/" /\ "-" # "%"
  BY Words
<1>1. a \in Texts /\ ~Has(a, "/") /\ ~Has(a, "%") /\ w \in Texts
  BY <1>0, OneHas
<1>2. <<"/", "-", "/">> = w \o (a \o w) /\ <<"/", "-", "/">> \in Texts
  <2>1. <<"-", "/">> = a \o w
    BY <1>0, OneAndOne
  <2>2. <<"/", "-", "/">> = w \o <<"-", "/">>
    BY <1>0, OneAndTwo
  <2>3. <<"/", "-", "/">> \in Texts
    BY <1>0, ThreeAreSeq DEF Texts
  <2> QED BY <2>1, <2>2, <2>3
<1>3. y \in Texts /\ Split(y, "/") = <<a, file>> /\ ~Has(y, "%")
  <2> HIDE DEF a
  <2> QED BY <1>0, <1>1, SplitTwo, FramedHas
<1> DEFINE v == <<"/", "-", "/">>
<1>4. v = w \o (a \o w) /\ v \in Texts
  BY <1>2
<1> HIDE DEF a, w, v
<1>5. w \o file \in Texts /\ a \o w \in Texts /\ w \o y \in Texts
  BY <1>1, <1>3, ConcatIs
<1>6. v \o file = w \o y
  <2>1. (w \o (a \o w)) \o file = w \o ((a \o w) \o file)
    BY <1>1, <1>5, ConcatTexts
  <2>2. (a \o w) \o file = a \o (w \o file)
    BY <1>1, ConcatTexts
  <2> QED BY <1>4, <2>1, <2>2
<1> HIDE DEF y
<1>7. ASSUME NEW x \in Texts PROVE (x \o v) \o file = x \o (w \o y)
  <2>1. (x \o v) \o file = x \o (v \o file)
    BY <1>4, ConcatTexts
  <2> QED BY <1>6, <2>1
<1> QED BY <1>3, <1>7 DEF y, w, a, v

\* The link of a tarball is taken for that file (server.rs 1300-1336).
LEMMA NpmDownload ==
  ASSUME NEW name \in Texts, Legal("npm", name), NEW file \in Texts, LegalFile(file), file # <<>>
  PROVE  ParseNpm(name \o <<"/", "-", "/">> \o file) = Delivery(name, <<>>, file)
<1> DEFINE link == name \o <<"/", "-", "/">> \o file
           y == <<"-">> \o (<<"/">> \o file)
           h == <<"-">>
<1>0. "/" \in Token /\ "/" # "%" /\ "-" \in Token /\ "-" # "/" /\ "-" # "%"
  BY Words
<1>1. ~Has(file, "/") /\ ~Has(file, "%") /\ Decode(file) = file
  BY LegalIsWritable, NotWritable, WritableIs
<1>2. y \in Texts /\ Split(y, "/") = <<h, file>> /\ ~Has(y, "%") /\ link = name \o (<<"/">> \o y)
  BY <1>1, DashFile
<1>3. h \in Texts /\ Decode(h) = h
  <2>1. h \in Texts
    BY <1>0, TokenText
  <2>2. Replace(Encoded, h) = <<Swapped(Encoded, "-")>>
    BY <1>0, LowerIsMap, ReplaceToken
  <2>3. Swapped(Encoded, "-") = "-"
    BY DEF Swapped, Encoded
  <2> QED BY <2>1, <2>2, <2>3 DEF Decode
<1> HIDE DEF y, link
<1>4. CASE IsUnscoped(name)
  <2> DEFINE s == <<name, h, file>>
  <2>1. name # <<>> /\ ~Has(name, "/") /\ ~Has(name, "%") /\ Decode(name) = name
    BY <1>4, UnscopedIs
  <2>2. ~Undecodable(link)
    BY <1>0, <1>2, <2>1, FramedHas DEF Undecodable
  <2> HIDE DEF h
  <2>3. Split(link, "/") = s
    <3> DEFINE t == "/"
    <3>0. t \in Token /\ name \in Texts
      BY <1>0
    <3> HIDE DEF t
    <3>3. ~Has(name, t)
      BY <2>1 DEF t
    <3>4. Split(name \o (<<t>> \o y), t) = <<name>> \o Split(y, t)
      BY <1>2, <3>0, <3>3, SplitFront
    <3>1. Split(link, "/") = <<name>> \o <<h, file>>
      BY <1>2, <3>4 DEF t
    <3>2. <<name>> \o <<h, file>> = <<name, h, file>>
      BY <1>3, OneAndTwo
    <3> QED BY <3>1, <3>2
  <2>4. s \in Seq(Texts) /\ Len(s) = 3 /\ s[1] = name /\ s[2] = h /\ s[3] = file /\ DOMAIN s = 1..3
    BY <1>3, ThreeAreSeq
  <2> HIDE DEF s
  <2>5. [i \in DOMAIN s |-> Decode(s[i])] = s
    <3>1. \A i \in 1..3 : Decode(s[i]) = s[i]
      <4>1. \A i \in 1..3 : i = 1 \/ i = 2 \/ i = 3
        OBVIOUS
      <4> QED BY <1>1, <1>3, <2>1, <2>4, <4>1
    <3>2. s = [i \in 1..3 |-> s[i]]
      BY <2>4, LenProperties
    <3> QED BY <2>4, <3>1, <3>2
  <2>6. Len(s) # 1 /\ Len(s) = 1 + 2 /\ s[1] # <<>> /\ s[1 + 1] = <<"-">> /\ s[1 + 2] # <<>>
    BY <2>1, <2>4 DEF h
  <2>7. ParseNpm(link) = Delivery(s[1], <<>>, s[3])
    BY <2>2, <2>3, <2>5, <2>6 DEF ParseNpm
  <2> QED BY <2>4, <2>7 DEF link
<1>5. ASSUME NEW scope, NEW rest, IsScope(scope), IsUnscoped(rest), name = scope \o (<<"/">> \o rest)
      PROVE  ParseNpm(link) = Delivery(name, <<>>, file)
  <2> DEFINE s == <<scope, rest, h, file>>
             w == <<"/">>
             z == rest \o (w \o y)
  <2>1. /\ scope \in Texts /\ scope # <<>> /\ scope[1] = "@"
        /\ ~Has(scope, "/") /\ ~Has(scope, "%") /\ Decode(scope) = scope
    BY <1>5, ScopeIs DEF IsScope
  <2>2. rest \in Texts /\ rest # <<>> /\ ~Has(rest, "/") /\ ~Has(rest, "%") /\ Decode(rest) = rest
    BY <1>5, UnscopedIs
  <2> HIDE DEF h
  <2>3. z \in Texts /\ Split(z, "/") = <<rest, h, file>> /\ ~Has(z, "%")
    <3> DEFINE t == "/"
    <3>0. t \in Token /\ rest \in Texts
      BY <1>0, <2>2
    <3> HIDE DEF t
    <3>3. ~Has(rest, t)
      BY <2>2 DEF t
    <3>4. rest \o (<<t>> \o y) \in Texts /\ Split(rest \o (<<t>> \o y), t) = <<rest>> \o Split(y, t)
      BY <1>2, <3>0, <3>3, SplitFront
    <3>1. z \in Texts /\ Split(z, "/") = <<rest>> \o <<h, file>>
      BY <1>2, <3>4 DEF t
    <3>2. <<rest>> \o <<h, file>> = <<rest, h, file>>
      BY <1>3, <2>2, OneAndTwo
    <3> QED BY <1>0, <1>2, <2>2, <3>1, <3>2, FramedHas
  <2>4. link = scope \o (w \o z)
    <3>1. w \in Texts /\ w \o y \in Texts /\ w \o rest \in Texts
      BY <1>0, <1>2, <2>2, OneAheadIs, TokenText
    <3> HIDE DEF w
    <3> DEFINE v == w \o y
               u == w \o rest
    <3>2. link = name \o v /\ name = scope \o u /\ z = rest \o v
      BY <1>2, <1>5 DEF w
    <3>3. v \in Texts /\ u = Cat(w, rest)
      BY <3>1 DEF Cat
    <3>4. link = Cat(name, v) /\ name = Cat(scope, u) /\ z = Cat(rest, v)
      BY <3>2 DEF Cat
    <3> HIDE DEF u, v, z
    <3>5. Cat(Cat(scope, u), v) = Cat(scope, Cat(u, v)) /\ Cat(u, v) = Cat(w, Cat(rest, v))
      BY <2>1, <2>2, <3>1, <3>3, CatText, CatTexts
    <3>6. link = Cat(scope, Cat(w, z))
      BY <3>4, <3>5
    <3> QED BY <3>6 DEF Cat
  <2> HIDE DEF z
  <2>5. ~Undecodable(link)
    BY <1>0, <2>1, <2>3, <2>4, FramedHas DEF Undecodable
  <2>6. Split(link, "/") = s
    <3> DEFINE t == "/"
    <3>0. t \in Token /\ scope \in Texts
      BY <1>0, <2>1
    <3> HIDE DEF t
    <3>3. ~Has(scope, t)
      BY <2>1 DEF t
    <3>4. Split(scope \o (<<t>> \o z), t) = <<scope>> \o Split(z, t)
      BY <2>3, <3>0, <3>3, SplitFront
    <3>1. Split(link, "/") = <<scope>> \o <<rest, h, file>>
      BY <2>3, <2>4, <3>4 DEF t
    <3>2. <<scope>> \o <<rest, h, file>> = <<scope, rest, h, file>>
      BY <1>3, <2>1, <2>2, OneAndThree
    <3> QED BY <3>1, <3>2
  <2>7. /\ s \in Seq(Texts) /\ Len(s) = 4 /\ DOMAIN s = 1..4
        /\ s[1] = scope /\ s[2] = rest /\ s[3] = h /\ s[4] = file
    BY <1>3, <2>1, <2>2, FourAreSeq
  <2> HIDE DEF s, w
  <2>8. [i \in DOMAIN s |-> Decode(s[i])] = s
    <3>1. \A i \in 1..4 : Decode(s[i]) = s[i]
      <4>1. \A i \in 1..4 : i = 1 \/ i = 2 \/ i = 3 \/ i = 4
        OBVIOUS
      <4> QED BY <1>1, <1>3, <2>1, <2>2, <2>7, <4>1
    <3>2. s = [i \in 1..4 |-> s[i]]
      BY <2>7, LenProperties
    <3> QED BY <2>7, <3>1, <3>2
  <2>9. /\ Len(s) # 1 /\ Len(s) # 2 /\ Len(s) # 1 + 2 /\ Len(s) = 2 + 2
        /\ s[1] # <<>> /\ s[1][1] = "@" /\ s[2] # <<>> /\ s[2 + 1] = <<"-">> /\ s[2 + 2] # <<>>
    BY <2>1, <2>2, <2>7 DEF h
  <2>10. ParseNpm(link) = Delivery(Join(SubSeq(s, 1, 2), "/"), <<>>, s[4])
    BY <2>5, <2>6, <2>8, <2>9 DEF ParseNpm
  <2>11. SubSeq(s, 1, 2) = <<scope, rest>>
    <3>1. Len(s) >= 2
      BY <2>7
    <3> QED BY <2>7, <3>1, FirstTwo
  <2>12. Join(<<scope, rest>>, "/") = name
    BY <1>0, <1>5, <2>1, <2>2, JoinTwo
  <2> QED BY <2>7, <2>10, <2>11, <2>12
<1>6. ParseNpm(link) = Delivery(name, <<>>, file)
  BY <1>4, <1>5, NpmNames DEF link
<1> QED BY <1>6 DEF link

\* Whatever path names a package, its name and the link of its tarball name the same
\* (server.rs 1300-1336).
LEMMA NpmAgrees ==
  ASSUME NEW text \in Texts, NEW route, route = ParseNpm(text), route.to # "none",
         Legal("npm", route.name), LegalFile(route.file)
  PROVE  /\ route.name \in Texts /\ route.version = <<>>
         /\ ParseNpm(route.name) = Listing(route.name)
         /\ route.to = "artifact" =>
              ParseNpm(route.name \o <<"/", "-", "/">> \o route.file) = route
<1> DEFINE raw == Split(text, "/")
           d == [i \in DOMAIN raw |-> Decode(raw[i])]
<1>1. raw \in Seq(Texts) /\ Len(raw) \in Nat \ {0}
  BY SplitParts
<1> DEFINE n == Len(raw)
<1>2. d \in Seq(Texts) /\ Len(d) \in Nat
  <2>1. DOMAIN raw = 1..n /\ n \in Nat /\ \A i \in 1..n : raw[i] \in Texts
    BY <1>1, LenProperties, ElementOfSeq
  <2> HIDE DEF raw, n
  <2>2. d \in [1..n -> Texts]
    BY <2>1, DecodeText
  <2> HIDE DEF d
  <2> QED BY <2>1, <2>2, LenProperties
<1>3. \/ Len(d) = 1 /\ d[1] # <<>> /\ route = Listing(d[1])
      \/ Len(d) = 1 + 2 /\ d[1 + 2] # <<>> /\ route = Delivery(d[1], <<>>, d[3])
      \/ Len(d) = 2 /\ route = Listing(Join(SubSeq(d, 1, 2), "/"))
      \/ Len(d) = 2 + 2 /\ d[2 + 2] # <<>> /\ route = Delivery(Join(SubSeq(d, 1, 2), "/"), <<>>, d[4])
  <2> DEFINE scoped == d[1] # <<>> /\ d[1][1] = "@"
             file(k) == Len(d) = k + 2 /\ d[k] # <<>> /\ d[k + 1] = <<"-">> /\ d[k + 2] # <<>>
             one == Len(d) = 1 /\ d[1] # <<>>
             two == Len(d) = 2 /\ scoped /\ d[2] # <<>>
             A == Listing(d[1])
             B == Delivery(d[1], <<>>, d[3])
             C == Listing(Join(SubSeq(d, 1, 2), "/"))
             D == Delivery(Join(SubSeq(d, 1, 2), "/"), <<>>, d[4])
  <2>1. route = IF Undecodable(text) THEN NoRoute
                ELSE CASE one -> A [] file(1) -> B [] two -> C [] scoped /\ file(2) -> D
                       [] OTHER -> NoRoute
    BY Zenon DEF ParseNpm
  <2>2. NoRoute.to = "none"
    BY DEF NoRoute
  <2>3. ~(one /\ file(1)) /\ ~(one /\ two) /\ ~(one /\ file(2))
        /\ ~(file(1) /\ two) /\ ~(file(1) /\ file(2)) /\ ~(two /\ file(2))
    <3> HIDE DEF d, scoped
    <3> QED OBVIOUS
  <2> DEFINE f1 == file(1)
             f2 == scoped /\ file(2)
  <2>4. (one /\ route = A) \/ (f1 /\ route = B) \/ (two /\ route = C) \/ (f2 /\ route = D)
    <3>1. ~(one /\ f1) /\ ~(one /\ two) /\ ~(one /\ f2) /\ ~(f1 /\ two) /\ ~(f1 /\ f2) /\ ~(two /\ f2)
      BY <2>3
    <3>2. route = IF Undecodable(text) THEN NoRoute
                ELSE CASE one -> A [] f1 -> B [] two -> C [] f2 -> D [] OTHER -> NoRoute
      BY <2>1
    <3> HIDE DEF one, two, f1, f2, A, B, C, D
    <3> QED BY <2>2, <3>1, <3>2
  <2> HIDE DEF d, raw, scoped, A, B, C, D
  <2>5. f1 => Len(d) = 1 + 2 /\ d[1 + 2] # <<>>
    OBVIOUS
  <2>6. f2 => Len(d) = 2 + 2 /\ d[2 + 2] # <<>>
    OBVIOUS
  <2> HIDE DEF f1, f2
  <2> QED BY <2>4, <2>5, <2>6 DEF A, B, C, D
<1> HIDE DEF d, raw
<1>4. \A i \in 1..Len(d) : d[i] \in Texts
  BY <1>2, ElementOfSeq
<1>5. Len(d) >= 2 => Join(SubSeq(d, 1, 2), "/") \in Texts
  <2> SUFFICES ASSUME Len(d) >= 2 PROVE Join(SubSeq(d, 1, 2), "/") \in Texts
    OBVIOUS
  <2> DEFINE a == d[1]
             b == d[2]
  <2>1. SubSeq(d, 1, 2) = <<a, b>> /\ a \in Texts /\ b \in Texts
    BY <1>2, FirstTwo
  <2> HIDE DEF a, b
  <2>2. Join(<<a, b>>, "/") \in Texts
    <3> DEFINE t == "/"
    <3>1. t \in Token
      BY Words
    <3> HIDE DEF t
    <3>2. Join(<<a, b>>, t) = a \o (<<t>> \o b)
      BY <2>1, <3>1, JoinTwo
    <3>3. a \o (<<t>> \o b) \in Texts
      BY <2>1, <3>1, Framed
    <3> QED BY <3>2, <3>3 DEF t
  <2> QED BY <2>1, <2>2
<1>6. /\ route.name \in Texts /\ route.version = <<>>
      /\ route.to = "artifact" => /\ route = Delivery(route.name, <<>>, route.file)
                                  /\ route.file \in Texts /\ route.file # <<>>
  <2>1. CASE Len(d) = 1 /\ route = Listing(d[1])
    <3>1. d[1] \in Texts
      BY <1>4, <2>1
    <3> QED BY <2>1, <3>1 DEF Listing
  <2>2. CASE Len(d) = 1 + 2 /\ d[1 + 2] # <<>> /\ route = Delivery(d[1], <<>>, d[3])
    <3>1. d[1] \in Texts /\ d[3] \in Texts /\ d[3] # <<>>
      BY <1>4, <2>2
    <3> QED BY <2>2, <3>1 DEF Delivery
  <2>3. CASE Len(d) = 2 /\ route = Listing(Join(SubSeq(d, 1, 2), "/"))
    <3>1. Join(SubSeq(d, 1, 2), "/") \in Texts
      BY <1>5, <2>3
    <3> QED BY <2>3, <3>1 DEF Listing
  <2>4. CASE Len(d) = 2 + 2 /\ d[2 + 2] # <<>> /\ route = Delivery(Join(SubSeq(d, 1, 2), "/"), <<>>, d[4])
    <3>1. Join(SubSeq(d, 1, 2), "/") \in Texts
      BY <1>5, <2>4
    <3>2. d[4] \in Texts /\ d[4] # <<>>
      BY <1>4, <2>4
    <3> QED BY <2>4, <3>1, <3>2 DEF Delivery
  <2> QED BY <1>3, <2>1, <2>2, <2>3, <2>4
<1>7. route.to = "artifact" => ParseNpm(route.name \o <<"/", "-", "/">> \o route.file) = route
  BY <1>6, NpmDownload
<1> QED BY <1>6, <1>7, NpmListing

-----------------------------------------------------------------------------
(* Versions as NuGet normalizes them (artifact.rs 197-239). *)

\* Min is the member that is not above another.
LEMMA MinIs ==
  ASSUME NEW I, NEW f \in I, \A i \in I : i \in Nat /\ f <= i
  PROVE  Min(I) = f
<1>1. Min(I) \in I /\ \A i \in I : Min(I) <= i
  BY DEF Min
<1> QED BY <1>1

\* A number is what follows its leading zeros.
LEMMA NumberFrom ==
  ASSUME NEW p \in Texts, NEW f \in 1..Len(p), p[f] # "0", \A i \in 1..(f - 1) : p[i] = "0"
  PROVE  Number(p) = SubSeq(p, f, Len(p))
<1> DEFINE I == {i \in 1..Len(p) : p[i] # "0"}
<1>1. f \in I /\ \A i \in I : i \in Nat /\ f <= i
  <2>0. Len(p) \in Nat
    BY TextLength
  <2>1. f \in I
    OBVIOUS
  <2>2. \A i \in I : i \in 1..Len(p) /\ i \notin 1..(f - 1)
    OBVIOUS
  <2> HIDE DEF I
  <2> QED BY <2>0, <2>1, <2>2
<1>2. f \in Nat /\ f # 0
  BY TextLength
<1>3. SelectInSeq(p, LAMBDA d : d # "0") = IF I # {} THEN Min(I) ELSE 0
  BY DEF SelectInSeq
<1> HIDE DEF I
<1>4. Min(I) = f
  BY <1>1, MinIs
<1>5. SelectInSeq(p, LAMBDA d : d # "0") = f
  BY <1>1, <1>3, <1>4
<1> QED BY <1>2, <1>5 DEF Number

\* Zeros are zero.
LEMMA NumberZero ==
  ASSUME NEW p \in Texts, \A i \in 1..Len(p) : p[i] = "0"
  PROVE  Number(p) = <<"0">>
<1> DEFINE I == {i \in 1..Len(p) : p[i] # "0"}
<1>1. I = {}
  OBVIOUS
<1>2. SelectInSeq(p, LAMBDA d : d # "0") = IF I # {} THEN Min(I) ELSE 0
  BY DEF SelectInSeq
<1> HIDE DEF I
<1> QED BY <1>1, <1>2 DEF Number

\* A number without leading zeros.
IsNumber(p) == p \in Texts /\ p # <<>> /\ Range(p) \subseteq Digits /\ Number(p) = p

\* Zero is a number.
LEMMA ZeroIsNumber == IsNumber(<<"0">>)
<1> DEFINE z == <<"0">>
<1>1. z \in Texts /\ Len(z) = 1 /\ z[1] = "0"
  BY Words, TokenText
<1>2. \A i \in 1..Len(z) : z[i] = "0"
  BY <1>1
<1>3. z # <<>>
  OBVIOUS
<1> HIDE DEF z
<1>4. Number(z) = <<"0">>
  BY <1>1, <1>2, NumberZero
<1>5. Range(z) \subseteq Digits
  BY <1>1, <1>2, RangeIs DEF Digits
<1> QED BY <1>1, <1>3, <1>4, <1>5 DEF IsNumber, z

\* Digits are made a number that is left as it is (artifact.rs 205-219).
LEMMA NumberIs ==
  ASSUME NEW p \in Texts, Range(p) \subseteq Digits
  PROVE  IsNumber(Number(p))
<1> DEFINE n == Len(p)
           I == {i \in 1..n : p[i] # "0"}
<1>0. n \in Nat
  BY TextLength
<1>1. CASE I = {}
  <2>1. \A i \in 1..Len(p) : p[i] = "0"
    BY <1>1
  <2>2. Number(p) = <<"0">>
    BY <2>1, NumberZero
  <2> QED BY <2>2, ZeroIsNumber
<1>2. CASE I # {}
  <2>1. I \subseteq Nat /\ I \subseteq 1..n
    BY <1>0
  <2>2. PICK f \in I : \A i \in I : ~(i < f)
    <3> HIDE DEF I
    <3> QED BY <1>2, <2>1, LeastMember
  <2>3. f \in 1..n /\ p[f] # "0"
    OBVIOUS
  <2>4. \A i \in 1..(f - 1) : p[i] = "0"
    <3>1. \A i \in 1..(f - 1) : i \in 1..n /\ i < f
      <4> HIDE DEF I
      <4> QED BY <1>0, <2>3
    <3> QED BY <2>2, <3>1
  <2> DEFINE q == SubSeq(p, f, n)
  <2>5. Number(p) = q
    BY <2>3, <2>4, NumberFrom
  <2> HIDE DEF I
  <2>6. \A i \in f..n : i \in 1..n /\ p[i] \in Token /\ p[i] \in Digits
    <3>1. \A i \in f..n : i \in 1..n
      <4> HIDE DEF n
      <4> QED BY <1>0, <2>3
    <3> QED BY <3>1, RangeIs
  <2>7. q \in Texts /\ Len(q) = n - f + 1 /\ \A i \in 1..(n - f + 1) : q[i] = p[f + i - 1]
    <3>1. f \in Int /\ n \in Int /\ f <= n
      <4> HIDE DEF n
      <4> QED BY <1>0, <2>3
    <3>2. \A i \in f..n : p[i] \in Token
      BY <2>6
    <3> HIDE DEF n
    <3> QED BY <3>1, <3>2, SubSeqProperties DEF Texts
  <2> DEFINE l == n - f + 1
  <2>8. l \in Nat /\ l >= 1 /\ 1 \in 1..l /\ f + 1 - 1 = f /\ \A i \in 1..l : f + i - 1 \in f..n
    <3> HIDE DEF n
    <3> QED BY <1>0, <2>3
  <2>9. Len(q) = l /\ q[1] # "0" /\ \A i \in 1..l : q[i] \in Digits
    <3> HIDE DEF q
    <3>1. q[1] = p[f]
      BY <2>7, <2>8
    <3>2. \A i \in 1..l : q[i] = p[f + i - 1] /\ f + i - 1 \in f..n
      BY <2>7, <2>8
    <3> QED BY <2>3, <2>6, <2>7, <3>1, <3>2
  <2> HIDE DEF n, q, l
  <2>10. Number(q) = SubSeq(q, 1, Len(q))
    <3>1. \A i \in 1..(1 - 1) : q[i] = "0"
      OBVIOUS
    <3>2. 1 \in 1..Len(q)
      BY <2>8, <2>9
    <3> QED BY <2>7, <2>9, <3>1, <3>2, NumberFrom
  <2>11. SubSeq(q, 1, Len(q)) = q
    BY <2>7, SubSeqFull DEF Texts
  <2>12. q # <<>>
    <3>1. Len(q) > 0
      BY <2>8, <2>9
    <3> QED BY <3>1, NotEmpty
  <2>13. Range(q) \subseteq Digits
    BY <2>7, <2>9, RangeIs
  <2> QED BY <2>5, <2>7, <2>10, <2>11, <2>12, <2>13 DEF IsNumber
<1> QED BY <1>1, <1>2

(* Versions as NuGet writes them. *)

\* The numbers of a version, filled up to three, and without a fourth that is zero.
Padded(parts) ==
  [i \in DOMAIN parts |-> Number(parts[i])] \o [i \in 1..3 - Len(parts) |-> <<"0">>]
Numbers(parts) ==
  IF Len(Padded(parts)) = 4 /\ Padded(parts)[4] = <<"0">> THEN Front(Padded(parts)) ELSE Padded(parts)

\* The numbers of a normalized version.
AreNumbers(numbers) ==
  /\ numbers \in Seq(Texts)
  /\ Len(numbers) = 3 \/ (Len(numbers) = 4 /\ numbers[4] # <<"0">>)
  /\ \A i \in 1..Len(numbers) : IsNumber(numbers[i])

\* One to four numbers are filled up to three, four stay.
LEMMA PaddedIs ==
  ASSUME NEW parts \in Seq(Texts), NEW m \in 1..4, Len(parts) = m,
         \A i \in 1..m : Range(parts[i]) \subseteq Digits
  PROVE  /\ Padded(parts) \in Seq(Texts)
         /\ m = 4 => Len(Padded(parts)) = 4
         /\ m # 4 => Len(Padded(parts)) = 3
         /\ \A i \in 1..Len(Padded(parts)) : IsNumber(Padded(parts)[i])
         /\ m = 4 => \A i \in 1..4 : Padded(parts)[i] = Number(parts[i])
<1> DEFINE a == [i \in 1..m |-> Number(parts[i])]
           z == <<"0">>
           l == IF m = 4 THEN 0 ELSE 3 - m
           b == [i \in 1..l |-> z]
<1>1. \A i \in 1..m : parts[i] \in Texts /\ Range(parts[i]) \subseteq Digits
  BY ElementOfSeq
<1>2. \A i \in 1..m : IsNumber(Number(parts[i])) /\ Number(parts[i]) \in Texts
  BY <1>1, NumberIs DEF IsNumber
<1>3. IsNumber(z) /\ z \in Texts
  BY ZeroIsNumber DEF IsNumber
<1>4. l \in Nat /\ m \in Nat /\ m + l = (IF m = 4 THEN 4 ELSE 3) /\ 1..l = 1..3 - Len(parts) /\ DOMAIN parts = 1..m
  <2>1. l \in Nat /\ m \in Nat /\ m + l = IF m = 4 THEN 4 ELSE 3
    OBVIOUS
  <2>2. 1..l = 1..3 - m
    OBVIOUS
  <2> QED BY <2>1, <2>2, LenProperties
<1> HIDE DEF z
<1>5. a \in [1..m -> Texts] /\ \A i \in 1..m : a[i] = Number(parts[i])
  BY <1>2
<1>6. b \in [1..l -> Texts] /\ \A i \in 1..l : b[i] = z
  BY <1>3
<1>7. Padded(parts) = a \o b
  <2>1. Padded(parts) = [i \in 1..m |-> Number(parts[i])] \o [i \in 1..l |-> <<"0">>]
    BY <1>4 DEF Padded
  <2> QED BY <2>1 DEF z
<1> HIDE DEF a, b, l
<1>8. a \in Seq(Texts) /\ b \in Seq(Texts) /\ Len(a) = m /\ Len(b) = l
  <2>1. \A k \in Nat : \A t \in [1..k -> Texts] : t \in Seq(Texts) /\ Len(t) = k
    BY LengthOfFunction, SeqDef
  <2> QED BY <1>4, <1>5, <1>6, <2>1
<1> DEFINE p == a \o b
<1>9. p \in Seq(Texts) /\ Len(p) = m + l
  BY <1>8, ConcatProperties
<1>10. /\ \A i \in 1..m : p[i] = a[i]
       /\ \A i \in 1..l : p[m + i] = b[i]
  <2>1. /\ \A i \in 1..Len(a) : p[i] = a[i]
        /\ \A i \in 1..Len(b) : p[Len(a) + i] = b[i]
    <3>1. \A i \in 1..Len(a) : i \in 1..(Len(a) + Len(b)) /\ i <= Len(a)
      BY <1>4, <1>8
    <3>2. \A i \in 1..Len(b) : /\ Len(a) + i \in 1..(Len(a) + Len(b)) /\ ~(Len(a) + i <= Len(a))
                               /\ Len(a) + i - Len(a) = i
      BY <1>4, <1>8
    <3>3. \A i \in 1..(Len(a) + Len(b)) : p[i] = IF i <= Len(a) THEN a[i] ELSE b[i - Len(a)]
      BY <1>8, ConcatProperties
    <3> HIDE DEF p
    <3>4. \A i \in 1..Len(a) : p[i] = a[i]
      BY <3>1, <3>3
    <3>5. ASSUME NEW i \in 1..Len(b) PROVE p[Len(a) + i] = b[i]
      <4> DEFINE k == Len(a) + i
      <4>1. k \in 1..(Len(a) + Len(b)) /\ ~(k <= Len(a)) /\ k - Len(a) = i
        BY <3>2
      <4> HIDE DEF k
      <4>2. p[k] = b[i]
        BY <3>3, <4>1
      <4> QED BY <4>2 DEF k
    <3> QED BY <3>4, <3>5
  <2> QED BY <1>8, <2>1
<1> HIDE DEF p
<1>11. ASSUME NEW i \in 1..(m + l) PROVE IsNumber(p[i])
  <2>1. CASE i <= m
    <3>1. i \in 1..m
      BY <1>4, <2>1
    <3> QED BY <1>2, <1>5, <1>10, <3>1
  <2>2. CASE ~(i <= m)
    <3> DEFINE j == i - m
    <3>1. j \in 1..l /\ m + j = i
      BY <1>4, <2>2
    <3> HIDE DEF j
    <3>2. p[i] = b[j]
      BY <1>10, <3>1
    <3> QED BY <1>3, <1>6, <3>1, <3>2
  <2> QED BY <2>1, <2>2
<1> QED BY <1>4, <1>5, <1>7, <1>9, <1>10, <1>11 DEF p

\* The numbers of a version are three, or four with a last one that is not zero.
LEMMA NumbersAre ==
  ASSUME NEW parts \in Seq(Texts), NEW m \in 1..4, Len(parts) = m,
         \A i \in 1..m : Range(parts[i]) \subseteq Digits
  PROVE  AreNumbers(Numbers(parts))
<1> DEFINE p == Padded(parts)
<1>1. /\ p \in Seq(Texts) /\ Len(p) = (IF m = 4 THEN 4 ELSE 3) /\ \A i \in 1..Len(p) : IsNumber(p[i])
  BY PaddedIs
<1>2. Numbers(parts) = IF Len(p) = 4 /\ p[4] = <<"0">> THEN Front(p) ELSE p
  BY DEF Numbers
<1> HIDE DEF p
<1>3. CASE Len(p) = 4 /\ p[4] = <<"0">>
  <2> DEFINE q == SubSeq(p, 1, 3)
  <2>1. \A i \in 1..3 : i \in 1..4 /\ i + 1 - 1 = i /\ 1 + i - 1 = i
    OBVIOUS
  <2>2. \A i \in 1..3 : p[i] \in Texts /\ IsNumber(p[i])
    BY <1>1, <1>3, <2>1 DEF IsNumber
  <2>3. q \in Seq(Texts) /\ Len(q) = 3 /\ \A i \in 1..3 : q[i] = p[i]
    <3>1. /\ q \in Seq(Texts) /\ Len(q) = IF 1 <= 3 THEN 3 - 1 + 1 ELSE 0
          /\ \A i \in 1..(3 - 1 + 1) : q[i] = p[1 + i - 1]
      BY <2>2, SubSeqProperties
    <3> HIDE DEF q
    <3>2. 3 - 1 + 1 = 3 /\ 1 <= 3
      OBVIOUS
    <3> QED BY <2>1, <3>1, <3>2
  <2>4. Front(p) = q
    <3>1. Len(p) - 1 = 3
      BY <1>3
    <3> QED BY <3>1 DEF Front
  <2> HIDE DEF q
  <2> QED BY <1>2, <1>3, <2>2, <2>3, <2>4 DEF AreNumbers
<1>4. CASE ~(Len(p) = 4 /\ p[4] = <<"0">>)
  BY <1>1, <1>2, <1>4 DEF AreNumbers
<1> QED BY <1>3, <1>4

\* And such numbers are left as they are.
LEMMA NumbersStay ==
  ASSUME NEW numbers, AreNumbers(numbers)
  PROVE  Numbers(numbers) = numbers
<1> DEFINE m == Len(numbers)
           p == Padded(numbers)
           l == 3 - m
           b == [i \in 1..l |-> <<"0">>]
<1>0. m = 3 \/ m = 4
  BY DEF AreNumbers
<1>1. numbers \in Seq(Texts) /\ m \in 1..4 /\ \A i \in 1..m : Number(numbers[i]) = numbers[i]
  <2>1. numbers \in Seq(Texts) /\ \A i \in 1..m : IsNumber(numbers[i])
    BY DEF AreNumbers
  <2> HIDE DEF m
  <2>2. m \in 1..4
    BY <1>0
  <2> QED BY <2>1, <2>2 DEF IsNumber
<1>2. l <= 0 /\ l \in Int
  BY <1>0
<1>3. DOMAIN numbers = 1..m /\ numbers = [i \in 1..m |-> numbers[i]]
  <2>1. m = Len(numbers)
    OBVIOUS
  <2> HIDE DEF m
  <2> QED BY <1>1, <2>1, LenProperties
<1>4. p = [i \in 1..m |-> Number(numbers[i])] \o b
  <2>1. p = [i \in DOMAIN numbers |-> Number(numbers[i])] \o b
    BY DEF Padded
  <2> QED BY <1>3, <2>1
<1>5. [i \in 1..m |-> Number(numbers[i])] = numbers
  BY <1>1, <1>3
<1>6. b = <<>>
  <2>1. 1..l = {}
    <3> HIDE DEF l
    <3> QED BY <1>2
  <2> QED BY <2>1
<1> HIDE DEF b, p
<1>7. p = numbers
  BY <1>1, <1>4, <1>5, <1>6, ConcatEmptySeq
<1>8. ~(Len(numbers) = 4 /\ numbers[4] = <<"0">>)
  BY DEF AreNumbers
<1> QED BY <1>7, <1>8 DEF Numbers, p

\* The prerelease of a normalized version, and that version.
LabelTokens == Alphanumeric \cup {".", "-"}
IsLabel(label) == label \in Texts /\ Range(label) \subseteq LabelTokens /\ Lower(label) = label
Canonical(numbers, label) ==
  Join(numbers, ".") \o IF label = <<>> THEN <<>> ELSE <<"-">> \o label

\* What a prerelease and a number are not written with.
LEMMA TokensOf ==
  /\ "+" \notin LabelTokens /\ "/" \notin LabelTokens /\ "@" \notin LabelTokens
  /\ "+" \notin Digits /\ "/" \notin Digits /\ "@" \notin Digits /\ "-" \notin Digits /\ "." \notin Digits
  /\ \A token \in LabelTokens : Small(token) \in LabelTokens
BY DEF LabelTokens, Alphanumeric, Digits, Small, Lowered

\* A text has no token that is not among its own.
LEMMA RangeHas ==
  ASSUME NEW text \in Texts, NEW S, Range(text) \subseteq S, NEW token, token \notin S
  PROVE  ~Has(text, token)
BY RangeIs

\* A prerelease made small is one.
LEMMA LowerLabel ==
  ASSUME NEW pre \in Texts, Range(pre) \subseteq LabelTokens
  PROVE  IsLabel(Lower(pre)) /\ (Lower(pre) = <<>> <=> pre = <<>>)
<1> DEFINE l == Lower(pre)
<1>1. l \in Texts /\ Len(l) = Len(pre) /\ \A i \in 1..Len(pre) : l[i] = Small(pre[i])
  BY LowerText
<1>2. \A i \in 1..Len(pre) : pre[i] \in LabelTokens
  BY RangeIs
<1>3. Lower(l) = l
  BY LowerTwice
<1> HIDE DEF l
<1>4. Range(l) \subseteq LabelTokens
  <2>1. \A i \in 1..Len(l) : l[i] \in LabelTokens
    BY <1>1, <1>2, TokensOf
  <2> QED BY <1>1, <2>1, RangeIs
<1>5. l = <<>> <=> pre = <<>>
  <2>1. l = <<>> <=> Len(l) = 0
    BY <1>1, EmptySeq DEF Texts
  <2>2. pre = <<>> <=> Len(pre) = 0
    BY EmptySeq DEF Texts
  <2> QED BY <1>1, <2>1, <2>2
<1> QED BY <1>1, <1>3, <1>4, <1>5 DEF IsLabel, l

\* The numbers of a version joined by dots are cut into the same numbers.
LEMMA Dotted ==
  ASSUME NEW numbers, AreNumbers(numbers)
  PROVE  LET c == Join(numbers, ".")
         IN /\ c \in Texts /\ Split(c, ".") = numbers
            /\ ~Has(c, "-") /\ ~Has(c, "+") /\ ~Has(c, "/") /\ ~Has(c, "@")
<1>1. numbers \in Seq(Texts) /\ Len(numbers) \in Nat \ {0}
  <2>1. numbers \in Seq(Texts) /\ (Len(numbers) = 3 \/ Len(numbers) = 4)
    BY DEF AreNumbers
  <2> QED BY <2>1
<1>2. \A i \in 1..Len(numbers) : numbers[i] \in Texts /\ Range(numbers[i]) \subseteq Digits
  BY DEF AreNumbers, IsNumber
<1>3. ASSUME NEW token, token \notin Digits
      PROVE  \A i \in 1..Len(numbers) : ~Has(numbers[i], token)
  BY <1>2, <1>3, RangeHas
<1>4. "." \in Token /\ "." # "-" /\ "." # "+" /\ "." # "/" /\ "." # "@"
  BY Words
<1>5. /\ "+" \notin Digits /\ "/" \notin Digits /\ "@" \notin Digits
      /\ "-" \notin Digits /\ "." \notin Digits
  BY TokensOf
<1> DEFINE d == "."
<1>6. d \in Token /\ d \notin Digits
  BY <1>4, <1>5
<1>7. ASSUME NEW token, token # d, token \notin Digits PROVE ~Has(Join(numbers, d), token)
  <2> HIDE DEF d
  <2>1. \A i \in 1..Len(numbers) : ~Has(numbers[i], token)
    BY <1>3, <1>7
  <2> QED BY <1>1, <1>6, <1>7, <2>1, HasJoin
<1>8. Join(numbers, d) \in Texts /\ Split(Join(numbers, d), d) = numbers
  <2> HIDE DEF d
  <2>1. \A i \in 1..Len(numbers) : ~Has(numbers[i], d)
    BY <1>3, <1>6
  <2> QED BY <1>1, <1>6, <2>1, JoinIsText, SplitJoin
<1> QED BY <1>4, <1>5, <1>7, <1>8

\* A normalized version is cut into its numbers and its prerelease.
LEMMA CanonicalIs ==
  ASSUME NEW numbers, AreNumbers(numbers), NEW label, IsLabel(label)
  PROVE  LET r == Canonical(numbers, label)
             c == Join(numbers, ".")
         IN /\ r \in Texts /\ ~Has(r, "+") /\ ~Has(r, "/") /\ ~Has(r, "@")
            /\ Upto(r, "-") = c /\ After(r, Len(c) + 1) = label
            /\ label = <<>> => ~Has(r, "-")
<1> DEFINE r == Canonical(numbers, label)
           c == Join(numbers, ".")
<1>1. c \in Texts /\ ~Has(c, "-") /\ ~Has(c, "+") /\ ~Has(c, "/") /\ ~Has(c, "@")
  BY Dotted
<1>2. label \in Texts /\ ~Has(label, "+") /\ ~Has(label, "/") /\ ~Has(label, "@")
  BY TokensOf, RangeHas DEF IsLabel
<1>3. "-" \in Token /\ "-" # "+" /\ "-" # "/" /\ "-" # "@"
  BY Words
<1>4. CASE label = <<>>
  <2>1. r = c \o <<>>
    BY <1>4 DEF Canonical
  <2> HIDE DEF r, c
  <2>2. r = c
    BY <1>1, <2>1, ConcatEmptySeq DEF Texts
  <2>3. Split(c, "-") = <<c>>
    BY <1>1, Uncut
  <2>4. Upto(c, "-") = c
    BY <2>3 DEF Upto
  <2>5. After(c, Len(c) + 1) = <<>>
    <3> DEFINE n == Len(c)
               m == n + 1 + 1
    <3>1. n \in Nat
      BY <1>1, TextLength
    <3> HIDE DEF n
    <3>2. m \in Int /\ n \in Int /\ n < m
      BY <3>1
    <3> HIDE DEF m
    <3>3. SubSeq(c, m, n) = <<>>
      BY <3>2, SubSeqEmpty
    <3> QED BY <3>3 DEF m, n, After
  <2> QED BY <1>1, <1>4, <2>2, <2>4, <2>5 DEF r, c
<1>5. CASE label # <<>>
  <2>1. r = c \o (<<"-">> \o label)
    BY <1>5 DEF Canonical
  <2> DEFINE t == "-"
  <2> HIDE DEF r, c
  <2>2. r \in Texts /\ ~Has(r, "+") /\ ~Has(r, "/") /\ ~Has(r, "@")
    BY <1>1, <1>2, <1>3, <2>1, FramedHas, Framed
  <2>3. t \in Token /\ ~Has(c, t)
    BY <1>1, <1>3
  <2>4. Upto(r, t) = c
    <3> HIDE DEF t
    <3> DEFINE s == Split(label, t)
    <3>1. Split(c \o (<<t>> \o label), t) = <<c>> \o s
      BY <1>1, <1>2, <2>3, SplitFront
    <3>2. s \in Seq(Texts)
      BY <1>2, SplitParts
    <3> HIDE DEF s
    <3>3. (<<c>> \o s)[1] = c
      BY <1>1, <3>2, OneAndMore
    <3>4. Split(r, t) = <<c>> \o s
      BY <2>1, <3>1 DEF t
    <3> QED BY <3>3, <3>4 DEF Upto
  <2>5. After(r, Len(c) + 1) = label
    <3> HIDE DEF t
    <3>1. After(c \o (<<t>> \o label), Len(c) + 1) = label
      BY <1>1, <1>2, <2>3, BeforeAfter
    <3> QED BY <2>1, <3>1 DEF t
  <2> QED BY <1>5, <2>2, <2>4, <2>5 DEF r, c
<1> QED BY <1>4, <1>5

\* normalize_nuget_version leaves a normalized version alone (artifact.rs 197-239).
LEMMA CanonicalStays ==
  ASSUME NEW numbers, AreNumbers(numbers), NEW label, IsLabel(label)
  PROVE  NormalizeNuget(Canonical(numbers, label)) = Canonical(numbers, label)
<1> DEFINE r == Canonical(numbers, label)
           plain == Upto(r, "+")
           core == Upto(plain, "-")
           pre == After(plain, Len(core) + 1)
           parts == Split(core, ".")
<1>1. plain = r
  <2>1. r \in Texts /\ ~Has(r, "+")
    BY CanonicalIs
  <2> HIDE DEF r
  <2>2. Split(r, "+") = <<r>>
    BY <2>1, Uncut
  <2> QED BY <2>2 DEF Upto
<1>2. core = Join(numbers, ".")
  <2>1. Upto(r, "-") = Join(numbers, ".")
    BY CanonicalIs
  <2> QED BY <1>1, <2>1
<1>3. pre = label
  <2>1. After(r, Len(Join(numbers, ".")) + 1) = label
    BY CanonicalIs
  <2> QED BY <1>1, <1>2, <2>1
<1>4. parts = numbers
  <2>1. Split(Join(numbers, "."), ".") = numbers
    BY Dotted
  <2> QED BY <1>2, <2>1
<1>5. Has(plain, "-") => pre # <<>>
  <2>1. label = <<>> => ~Has(r, "-")
    BY CanonicalIs
  <2> QED BY <1>1, <1>3, <2>1
<1> DEFINE padded == [i \in DOMAIN parts |-> Number(parts[i])] \o [i \in 1..3 - Len(parts) |-> <<"0">>]
           all == IF Len(padded) = 4 /\ padded[4] = <<"0">> THEN Front(padded) ELSE padded
<1>6. NormalizeNuget(r) = IF /\ \A p \in Range(parts) : p # <<>> /\ Range(p) \subseteq Digits
                             /\ Len(parts) <= 4 /\ (Has(plain, "-") => pre # <<>>)
                             /\ Range(pre) \subseteq Alphanumeric \cup {".", "-"}
                          THEN Join(all, ".") \o IF pre = <<>> THEN <<>> ELSE <<"-">> \o Lower(pre)
                          ELSE Invalid
  BY DEF NormalizeNuget
<1>7. all = numbers
  <2>1. all = Numbers(parts)
    BY DEF Numbers, Padded
  <2>2. Numbers(numbers) = numbers
    BY NumbersStay
  <2> QED BY <1>4, <2>1, <2>2
<1>8. \A p \in Range(parts) : p # <<>> /\ Range(p) \subseteq Digits
  <2>1. \A p \in Range(numbers) : p # <<>> /\ Range(p) \subseteq Digits
    <3>1. \A i \in 1..Len(numbers) : numbers[i] # <<>> /\ Range(numbers[i]) \subseteq Digits
      BY DEF AreNumbers, IsNumber
    <3>2. DOMAIN numbers = 1..Len(numbers)
      BY LenProperties DEF AreNumbers
    <3> QED BY <3>1, <3>2 DEF Range
  <2> QED BY <1>4, <2>1
<1>9. Len(parts) <= 4
  BY <1>4 DEF AreNumbers
<1>10. Range(pre) \subseteq Alphanumeric \cup {".", "-"} /\ Lower(pre) = label
  BY <1>3 DEF IsLabel, LabelTokens
<1> HIDE DEF plain, core, pre, parts, padded, all
<1>11. NormalizeNuget(r) = Join(all, ".") \o IF pre = <<>> THEN <<>> ELSE <<"-">> \o Lower(pre)
  BY <1>5, <1>6, <1>8, <1>9, <1>10
<1> QED BY <1>3, <1>7, <1>10, <1>11 DEF Canonical, r

\* As it does what is no version.
LEMMA InvalidStays ==
  /\ Invalid \in Texts /\ ~Has(Invalid, "@") /\ ~Has(Invalid, "/")
  /\ NormalizeNuget(Invalid) = Invalid
<1> DEFINE r == Invalid
           plain == Upto(r, "+")
           core == Upto(plain, "-")
           parts == Split(core, ".")
<1>0. "invalid" \in Token
  BY Words
<1>1. r \in Texts /\ r[1] = "invalid" /\ Len(r) = 1
      /\ ~Has(r, "+") /\ ~Has(r, "-") /\ ~Has(r, ".") /\ ~Has(r, "@") /\ ~Has(r, "/")
  BY <1>0, OneHas DEF Invalid
<1> HIDE DEF r
<1>2. Split(r, "+") = <<r>> /\ Split(r, "-") = <<r>> /\ Split(r, ".") = <<r>>
  BY <1>1, Uncut
<1>3. parts = <<r>>
  BY <1>2 DEF Upto
<1>4. r \in Range(parts)
  BY <1>3 DEF Range
<1>5. ~(Range(r) \subseteq Digits)
  <2>1. 1 \in 1..Len(r) /\ r[1] \notin Digits
    BY <1>1 DEF Digits
  <2> QED BY <1>1, <2>1, RangeIs
<1>6. ~\A p \in Range(parts) : p # <<>> /\ Range(p) \subseteq Digits
  BY <1>4, <1>5
<1>7. NormalizeNuget(r) = Invalid
  <2> DEFINE bad == \A p \in Range(parts) : p # <<>> /\ Range(p) \subseteq Digits
             pre == After(plain, Len(core) + 1)
             rest == /\ Len(parts) <= 4 /\ (Has(plain, "-") => pre # <<>>)
                     /\ Range(pre) \subseteq Alphanumeric \cup {".", "-"}
             padded == [i \in DOMAIN parts |-> Number(parts[i])] \o [i \in 1..3 - Len(parts) |-> <<"0">>]
             all == IF Len(padded) = 4 /\ padded[4] = <<"0">> THEN Front(padded) ELSE padded
             value == Join(all, ".") \o IF pre = <<>> THEN <<>> ELSE <<"-">> \o Lower(pre)
  <2>1. NormalizeNuget(r) = IF bad /\ rest THEN value ELSE Invalid
    BY DEF NormalizeNuget
  <2>2. ~bad
    BY <1>6
  <2> HIDE DEF bad, rest, value
  <2> QED BY <2>1, <2>2
<1> QED BY <1>1, <1>7 DEF r

\* What is before a token is a text.
LEMMA UptoText ==
  ASSUME NEW text \in Texts, NEW token
  PROVE  Upto(text, token) \in Texts
<1> DEFINE s == Split(text, token)
<1>1. s \in Seq(Texts) /\ 1 \in 1..Len(s)
  BY SplitParts
<1> HIDE DEF s
<1>2. s[1] \in Texts
  BY <1>1, ElementOfSeq
<1> QED BY <1>2 DEF s, Upto

\* What is after an index is a text.
LEMMA AfterText ==
  ASSUME NEW text \in Texts, NEW k \in Nat
  PROVE  After(text, k) \in Texts
<1> DEFINE n == Len(text)
           m == k + 1
<1>1. n \in Nat
  BY TextLength
<1>2. m \in Int /\ n \in Int /\ \A i \in m..n : i \in 1..n
  <2> HIDE DEF n
  <2> QED BY <1>1
<1>3. \A i \in m..n : text[i] \in Token
  BY <1>2, RangeIs
<1> HIDE DEF n, m
<1>4. SubSeq(text, m, n) \in Seq(Token)
  BY <1>2, <1>3, SubSeqProperties
<1> QED BY <1>4 DEF n, m, After, Texts

\* What it returns is no version, or a normalized one.
LEMMA NugetVersion ==
  ASSUME NEW version \in Texts
  PROVE  \/ NormalizeNuget(version) = Invalid
         \/ \E numbers, label : /\ AreNumbers(numbers) /\ IsLabel(label)
                                /\ NormalizeNuget(version) = Canonical(numbers, label)
<1> DEFINE r == version
           plain == Upto(r, "+")
           core == Upto(plain, "-")
           pre == After(plain, Len(core) + 1)
           parts == Split(core, ".")
           digits == \A p \in Range(parts) : p # <<>> /\ Range(p) \subseteq Digits
           four == Len(parts) <= 4
           labelled == Has(plain, "-") => pre # <<>>
           lettered == Range(pre) \subseteq Alphanumeric \cup {".", "-"}
           padded == [i \in DOMAIN parts |-> Number(parts[i])] \o [i \in 1..3 - Len(parts) |-> <<"0">>]
           all == IF Len(padded) = 4 /\ padded[4] = <<"0">> THEN Front(padded) ELSE padded
           value == Join(all, ".") \o IF pre = <<>> THEN <<>> ELSE <<"-">> \o Lower(pre)
<1>1. NormalizeNuget(r) = IF digits /\ four /\ labelled /\ lettered THEN value ELSE Invalid
  BY DEF NormalizeNuget
<1>2. plain \in Texts
  BY UptoText
<1>3. core \in Texts
  <2> HIDE DEF plain
  <2> QED BY <1>2, UptoText
<1>4. pre \in Texts
  <2> HIDE DEF plain, core
  <2> DEFINE k == Len(core) + 1
  <2>1. k \in Nat
    BY <1>3, TextLength
  <2> HIDE DEF k
  <2>2. After(plain, k) \in Texts
    BY <1>2, <2>1, AfterText
  <2> QED BY <2>2 DEF k
<1>5. parts \in Seq(Texts) /\ Len(parts) \in Nat \ {0}
  <2> HIDE DEF core
  <2> QED BY <1>3, SplitParts
<1>6. all = Numbers(parts)
  BY DEF Numbers, Padded
<1> HIDE DEF plain, core, pre, parts, padded, all
<1>7. CASE digits /\ four /\ labelled /\ lettered
  <2> DEFINE m == Len(parts)
  <2>0. m <= 4 /\ m \in Nat \ {0}
    BY <1>5, <1>7
  <2>1. m \in 1..4
    <3> HIDE DEF m, digits, four, labelled, lettered
    <3> QED BY <2>0
  <2>2. \A i \in 1..m : Range(parts[i]) \subseteq Digits
    <3>1. DOMAIN parts = 1..m
      BY <1>5, LenProperties
    <3> QED BY <1>7, <3>1 DEF Range
  <2>3. AreNumbers(Numbers(parts))
    <3>1. m = Len(parts)
      OBVIOUS
    <3> HIDE DEF m
    <3> QED BY <1>5, <2>1, <2>2, <3>1, NumbersAre
  <2>4. IsLabel(Lower(pre)) /\ (Lower(pre) = <<>> <=> pre = <<>>)
    BY <1>4, <1>7, LowerLabel DEF LabelTokens
  <2>5. NormalizeNuget(r) = value
    <3> HIDE DEF digits, four, labelled, lettered, value
    <3> QED BY <1>1, <1>7
  <2>6. value = Canonical(Numbers(parts), Lower(pre))
    BY <1>6, <2>4 DEF Canonical
  <2> QED BY <2>3, <2>4, <2>5, <2>6
<1>8. CASE ~(digits /\ four /\ labelled /\ lettered)
  <2> HIDE DEF digits, four, labelled, lettered, value
  <2>1. NormalizeNuget(r) = Invalid
    BY <1>1, <1>8
  <2> QED BY <2>1
<1> QED BY <1>7, <1>8

\* So it returns the same for what it returned (artifact.rs 197-239).
LEMMA NugetVersionStays ==
  ASSUME NEW version \in Texts
  PROVE  LET v == NormalizeNuget(version)
         IN v \in Texts /\ ~Has(v, "@") /\ ~Has(v, "/") /\ NormalizeNuget(v) = v
<1> DEFINE v == NormalizeNuget(version)
<1>1. CASE v = Invalid
  BY <1>1, InvalidStays
<1>2. CASE v # Invalid
  <2>1. PICK numbers, label : AreNumbers(numbers) /\ IsLabel(label) /\ v = Canonical(numbers, label)
    BY <1>2, NugetVersion
  <2> HIDE DEF v
  <2> DEFINE r == Canonical(numbers, label)
  <2>2. r \in Texts /\ ~Has(r, "/") /\ ~Has(r, "@")
    BY <2>1, CanonicalIs
  <2>3. NormalizeNuget(r) = r
    BY <2>1, CanonicalStays
  <2> HIDE DEF r
  <2>4. v = r
    BY <2>1 DEF r
  <2> QED BY <2>2, <2>3, <2>4 DEF v
<1> QED BY <1>1, <1>2

-----------------------------------------------------------------------------
(* NuGet (server.rs 1176-1235). *)

\* A text backwards.
LEMMA ReverseIs ==
  ASSUME NEW x \in Texts
  PROVE  /\ Reverse(x) \in Texts /\ Len(Reverse(x)) = Len(x)
         /\ \A i \in 1..Len(x) : Reverse(x)[i] = x[(Len(x) - i) + 1]
<1> DEFINE n == Len(x)
           r == [i \in 1..n |-> x[(n - i) + 1]]
<1>1. n \in Nat /\ x \in [1..n -> Token]
  BY TextLength
<1>2. r \in [1..n -> Token]
  <2>1. \A i \in 1..n : (n - i) + 1 \in 1..n
    <3> HIDE DEF n
    <3> QED BY <1>1
  <2> QED BY <1>1, <2>1
<1>3. Reverse(x) = r
  BY DEF Reverse
<1>4. \A i \in 1..n : r[i] = x[(n - i) + 1]
  OBVIOUS
<1> HIDE DEF r
<1>5. r \in Seq(Token) /\ Len(r) = n
  <2> HIDE DEF n
  <2> QED BY <1>1, <1>2, LengthOfFunction, SeqDef
<1> QED BY <1>3, <1>4, <1>5 DEF Texts

\* A text ends with what is at its end.
LEMMA EndsWith ==
  ASSUME NEW x \in Texts, NEW y \in Texts
  PROVE  Ends(x \o y, y)
<1> DEFINE z == x \o y
           lx == Len(x)
           ly == Len(y)
           a == Reverse(z)
           b == Reverse(y)
<1>1. z \in Texts /\ Len(z) = lx + ly /\ \A i \in 1..ly : z[lx + i] = y[i]
  BY ConcatIs
<1>2. lx \in Nat /\ ly \in Nat
  BY TextLength
<1>3. b \in Texts /\ Len(b) = ly /\ \A i \in 1..ly : b[i] = y[(ly - i) + 1]
  BY ReverseIs
<1> HIDE DEF z, lx, ly
<1>4. a \in Texts /\ Len(a) = Len(z) /\ \A i \in 1..Len(z) : a[i] = z[(Len(z) - i) + 1]
  BY <1>1, ReverseIs
<1> HIDE DEF a, b
<1>5. ASSUME NEW i \in 1..ly PROVE i \in 1..Len(b) /\ a[i + 0] = b[i]
  <2> DEFINE j == (ly - i) + 1
             k == (Len(z) - i) + 1
  <2>1. j \in 1..ly /\ k = lx + j /\ i \in 1..Len(z) /\ i + 0 = i
    BY <1>1, <1>2
  <2>2. a[i] = z[k] /\ b[i] = y[j]
    BY <1>3, <1>4, <2>1
  <2> HIDE DEF j, k
  <2>3. z[lx + j] = y[j]
    BY <1>1, <2>1
  <2> QED BY <1>3, <2>1, <2>2, <2>3
<1>6. SubSeq(a, 1 + 0, ly + 0) = SubSeq(b, 1, ly)
  BY <1>2, <1>3, <1>4, <1>5, SubSeqShift
<1>7. 1 + 0 = 1 /\ ly + 0 = ly /\ ly <= lx + ly
  BY <1>2
<1>8. SubSeq(b, 1, Len(b)) = SubSeq(a, 1, Len(b)) /\ Len(b) <= Len(a)
  BY <1>1, <1>3, <1>4, <1>6, <1>7
<1>9. IsPrefix(b, a)
  BY <1>8 DEF IsPrefix
<1> QED BY <1>9 DEF Ends, IsSuffix, a, b, z

\* A canonical package name.
IsPackage(name) == name \in Texts /\ Plain(name) /\ Lower(name) = name

\* A package name is one part of a path.
LEMMA PackageHas ==
  ASSUME NEW name, IsPackage(name)
  PROVE  name \in Texts /\ name # <<>> /\ ~Has(name, "/")
BY LegalIsWritable, NotWritable, WritableIs DEF IsPackage

\* The registration index of a package is a listing of it (server.rs 1176-1187).
LEMMA NugetListing ==
  ASSUME NEW name, IsPackage(name)
  PROVE  ParseNuget(<<"registration", "/">> \o name \o <<"/", "index", ".", "json">>) = Listing(name)
<1> DEFINE a == <<"registration">>
           f == <<"index", ".", "json">>
           j == <<".", "json">>
           w == <<"/">>
           e == <<"/", "index", ".", "json">>
           h == <<"registration", "/">>
           x == <<"index">>
           link == (h \o name) \o e
           s == Split(link, "/")
<1>1. "registration" \in Token /\ "/" \in Token /\ "index" \in Token /\ "." \in Token /\ "json" \in Token
  BY Words
<1>2. a \in Texts /\ ~Has(a, "/")
  BY <1>1, OneHas
<1>3. f = x \o j /\ f \in Texts /\ j \in Texts /\ x \in Texts /\ ~Has(f, "/")
  <2>1. f = x \o j
    BY <1>1, OneAndTwo
  <2>2. j \in Texts /\ x \in Texts /\ f \in Texts
    BY <1>1, TwoAreSeq, OneIsSeq, ThreeAreSeq DEF Texts
  <2>3. f[1] = "index" /\ f[2] = "." /\ f[3] = "json" /\ Len(f) = 3
    OBVIOUS
  <2> HIDE DEF f
  <2>4. \A i \in 1..Len(f) : f[i] # "/"
    <3>1. \A i \in 1..3 : i = 1 \/ i = 2 \/ i = 3
      OBVIOUS
    <3> QED BY <2>3, <3>1
  <2> QED BY <2>1, <2>2, <2>4, HasIs
<1>4. e = w \o f
  BY <1>1, OneAndThree
<1>5. h = a \o w
  BY <1>1, OneAndOne
<1>6. w \in Texts
  BY <1>1, OneHas
<1>7. name \in Texts /\ name # <<>> /\ ~Has(name, "/") /\ Lower(name) = name
  BY PackageHas DEF IsPackage
<1> HIDE DEF a, f, j, e, h, x
<1>8. link = a \o (w \o (name \o (w \o f)))
  <2> HIDE DEF w
  <2>1. Chained(a, w, name, w, f)
    BY <1>2, <1>3, <1>6, <1>7, ConcatFive
  <2> QED BY <1>4, <1>5, <2>1 DEF Chained
<1>9. Ends(link, j)
  <2> HIDE DEF w
  <2> DEFINE y == (h \o name) \o (w \o x)
  <2>1. h \in Texts /\ h \o name \in Texts /\ w \o x \in Texts
    BY <1>2, <1>3, <1>5, <1>6, <1>7, ConcatIs
  <2>2. y \in Texts
    BY <2>1, ConcatIs
  <2>3. y \o j = link
    <3>1. ((h \o name) \o (w \o x)) \o j = (h \o name) \o ((w \o x) \o j)
      <4> DEFINE u == h \o name
                 z == w \o x
      <4>1. u \in Texts /\ z \in Texts /\ j \in Texts
        BY <1>3, <2>1
      <4> HIDE DEF u, z
      <4>2. (u \o z) \o j = u \o (z \o j)
        BY <4>1, ConcatTexts
      <4> QED BY <4>2 DEF u, z
    <3>2. (w \o x) \o j = w \o (x \o j)
      BY <1>3, <1>6, ConcatTexts
    <3> QED BY <1>3, <1>4, <3>1, <3>2
  <2> HIDE DEF y, link
  <2>4. Ends(y \o j, j)
    BY <1>3, <2>2, EndsWith
  <2> QED BY <2>3, <2>4
<1> DEFINE t == "/"
<1>10. t \in Token /\ ~Has(a, t) /\ ~Has(name, t) /\ ~Has(f, t)
  BY <1>1, <1>2, <1>3, <1>7
<1>11. s = <<a, name, f>>
  <2> HIDE DEF t
  <2>0. a \in Texts /\ name \in Texts /\ f \in Texts
    BY <1>2, <1>3, <1>7
  <2>1. Split(a \o (<<t>> \o (name \o (<<t>> \o f))), t) = <<a, name, f>>
    BY <1>10, <2>0, SplitThree
  <2>2. link = a \o (<<t>> \o (name \o (<<t>> \o f)))
    <3> HIDE DEF link
    <3> QED BY <1>8 DEF t
  <2> HIDE DEF link
  <2>3. Split(link, t) = <<a, name, f>>
    BY <2>1, <2>2
  <2> QED BY <2>3 DEF t
<1>12. Len(s) = 3 /\ s[1] = a /\ s[2] = name
  BY <1>11
<1> HIDE DEF link, s
<1>13. ParseNuget(link) = Listing(Lower(s[2]))
  <2>1. ~(Len(s) < 3) /\ s[2] # <<>> /\ s[1] = <<"registration">> /\ Ends(link, <<".", "json">>)
        /\ s[1] # <<"flatcontainer">>
    BY <1>7, <1>9, <1>12 DEF a, j
  <2> QED BY <2>1 DEF ParseNuget, s
<1> QED BY <1>7, <1>12, <1>13 DEF link, h, e

\* The files of a package's version.
NugetFiles(name, version) == {NugetFile(name, version), name \o <<".", "nuspec">>}

\* The link of one of a version's files is taken for that file (server.rs 1188-1224).
LEMMA NugetDownload ==
  ASSUME NEW name, IsPackage(name),
         NEW version \in Texts, NormalizeNuget(version) = version, version # Invalid, ~Has(version, "/"),
         NEW file \in NugetFiles(name, version), file \in Texts, ~Has(file, "/")
  PROVE  ParseNuget(Join(<<<<"flatcontainer">>, name, version, file>>, "/"))
           = Delivery(name, version, file)
<1> DEFINE a == <<"flatcontainer">>
           link == Join(<<a, name, version, file>>, "/")
           s == Split(link, "/")
<1>1. "flatcontainer" \in Token /\ "/" \in Token
  BY Words
<1>2. a \in Texts /\ ~Has(a, "/")
  BY <1>1, OneHas
<1>3. name \in Texts /\ name # <<>> /\ ~Has(name, "/") /\ Lower(name) = name
  BY PackageHas DEF IsPackage
<1> HIDE DEF a
<1>4. s = <<a, name, version, file>>
  BY <1>1, <1>2, <1>3, SplitFour
<1>5. Len(s) = 4 /\ s[1] = a /\ s[2] = name /\ s[3] = version /\ s[4] = file
  BY <1>4
<1> HIDE DEF link, s
<1>6. ~(Len(s) < 3) /\ Len(s) # 3 /\ s[2] # <<>> /\ s[1] = <<"flatcontainer">> /\ s[1] # <<"registration">>
  BY <1>3, <1>5 DEF a
<1> DEFINE n == Lower(s[2])
           v == NormalizeNuget(s[3])
<1>7. n = name /\ v = version /\ v # Invalid /\ s[4] \in NugetFiles(n, v)
  BY <1>3, <1>5
<1>8. s[4] \in {NugetFile(n, v), n \o <<".", "nuspec">>}
  BY <1>7 DEF NugetFiles
<1> HIDE DEF n, v
<1>9. ParseNuget(link) = Delivery(n, v, s[4])
  BY <1>5, <1>6, <1>7, <1>8 DEF ParseNuget, s, n, v
<1> QED BY <1>5, <1>7, <1>9 DEF link, a

\* Whatever path names a package, its registration index and the link of its file name the
\* same (server.rs 1176-1235, nuget.rs 517-576).
LEMMA NugetAgrees ==
  ASSUME NEW text \in Texts, NEW route, route = ParseNuget(text), route.to # "none",
         Plain(route.name)
  PROVE  /\ IsPackage(route.name) /\ route.version \in Texts
         /\ ParseNuget(<<"registration", "/">> \o route.name \o <<"/", "index", ".", "json">>)
              = Listing(route.name)
         /\ route.to = "artifact" =>
              ParseNuget(Join(<<<<"flatcontainer">>, route.name, route.version, route.file>>, "/")) = route
         /\ route.version # <<>> => NormalizeNuget(route.version) = route.version
<1> DEFINE s == Split(text, "/")
           name == Lower(s[2])
           version == NormalizeNuget(s[3])
           one == s[1] = <<"registration">> /\ Ends(text, <<".", "json">>)
           two == s[1] = <<"flatcontainer">> /\ Len(s) = 3 /\ s[3] = <<"index", ".", "json">>
           download == /\ s[1] = <<"flatcontainer">> /\ Len(s) = 4 /\ version # Invalid
                       /\ s[4] \in {NugetFile(name, version), name \o <<".", "nuspec">>}
           A == Listing(name)
           B == Delivery(name, version, s[4])
<1>1. route = IF Len(s) < 3 \/ s[2] = <<>> THEN NoRoute
              ELSE CASE one -> A [] two -> A [] download -> B [] OTHER -> NoRoute
  BY Zenon DEF ParseNuget
<1>2. s \in Seq(Texts) /\ Len(s) \in Nat /\ \A k \in 1..Len(s) : s[k] \in Texts /\ ~Has(s[k], "/")
  BY SplitParts
<1>3. (~(Len(s) < 3) /\ route = A) \/ (~(Len(s) < 3) /\ download /\ route = B)
  <2> DEFINE few == Len(s) < 3
             none == s[2] = <<>>
  <2>0. NoRoute.to = "none"
    BY DEF NoRoute
  <2>1. ~(one /\ two) /\ ~(one /\ download) /\ ~(two /\ download)
    <3> HIDE DEF name, version
    <3>1. s[1] = <<"registration">> => s[1] # <<"flatcontainer">>
      OBVIOUS
    <3> HIDE DEF s
    <3> QED BY <3>1
  <2>2. route = IF few \/ none THEN NoRoute
                ELSE CASE one -> A [] two -> A [] download -> B [] OTHER -> NoRoute
    BY <1>1
  <2>3. (~few /\ route = A) \/ (~few /\ download /\ route = B)
    <3> HIDE DEF few, none, one, two, download, A, B
    <3> QED BY <2>0, <2>1, <2>2
  <2> QED BY <2>3
<1> HIDE DEF s
<1>4. s[2] \in Texts /\ s[3] \in Texts
  <2>1. ~(Len(s) < 3)
    <3> HIDE DEF A, B, download
    <3> QED BY <1>3
  <2>2. 2 \in 1..Len(s) /\ 3 \in 1..Len(s)
    BY <1>2, <2>1
  <2> QED BY <1>2, <2>2
<1>5. name \in Texts /\ Lower(name) = name
  BY <1>4, LowerText, LowerTwice
<1>6. version \in Texts /\ ~Has(version, "/") /\ NormalizeNuget(version) = version
  BY <1>4, NugetVersionStays
<1> HIDE DEF name, version
<1>7. CASE route = A
  <2>1. route.name = name /\ route.version = <<>> /\ route.to = "listing"
    BY <1>7 DEF Listing
  <2>2. IsPackage(name)
    BY <1>5, <2>1 DEF IsPackage
  <2> QED BY <2>1, <2>2, NothingHas, NugetListing
<1>8. CASE download /\ route = B
  <2>1. route.name = name /\ route.version = version /\ route.file = s[4]
        /\ route = Delivery(route.name, route.version, route.file)
    BY <1>8 DEF Delivery
  <2>2. IsPackage(name)
    BY <1>5, <2>1 DEF IsPackage
  <2>3. s[4] \in Texts /\ ~Has(s[4], "/")
    <3>1. 4 \in 1..Len(s)
      BY <1>8
    <3> QED BY <1>2, <3>1
  <2>4. s[4] \in NugetFiles(name, version) /\ version # Invalid
    BY <1>8 DEF NugetFiles
  <2>5. ParseNuget(Join(<<<<"flatcontainer">>, name, version, s[4]>>, "/")) = Delivery(name, version, s[4])
    <3> DEFINE f == s[4]
    <3>1. f \in Texts /\ ~Has(f, "/") /\ f \in NugetFiles(name, version)
      BY <2>3, <2>4
    <3> HIDE DEF f, download
    <3>2. ParseNuget(Join(<<<<"flatcontainer">>, name, version, f>>, "/")) = Delivery(name, version, f)
      BY <1>6, <2>2, <2>4, <3>1, NugetDownload
    <3> QED BY <3>2 DEF f
  <2> HIDE DEF download
  <2>6. ParseNuget(<<"registration", "/">> \o name \o <<"/", "index", ".", "json">>) = Listing(name)
    BY <2>2, NugetListing
  <2> QED BY <1>6, <2>1, <2>2, <2>5, <2>6
<1> QED BY <1>3, <1>7, <1>8

-----------------------------------------------------------------------------
(* Module paths as Go escapes them (go.rs 164-224). *)

\* How a token is escaped, and what an escaped one means.
Spelling(token) == IF token \in DOMAIN Lowered THEN <<"!", Lowered[token]>> ELSE <<token>>
Meant(x, i) == IF i > 1 /\ x[i - 1] = "!" THEN Upper[x[i]] ELSE x[i]

\* A capital letter is escaped, and everything else is itself (go.rs 164-180).
LEMMA SpellingIs ==
  ASSUME NEW token \in Token, token \notin {"!", "@"}
  PROVE  \/ \E small : /\ small \in Token /\ small \in {"a", "b"} /\ small # "!" /\ small # "@"
                       /\ Spelling(token) = <<"!", small>> /\ Upper[small] = token
         \/ Spelling(token) = <<token>>
<1>1. CASE token \in DOMAIN Lowered
  <2> DEFINE small == Lowered[token]
  <2>1. token = "A" \/ token = "B"
    BY <1>1 DEF Lowered
  <2>2. small \in {"a", "b"} /\ Upper[small] = token
    BY <2>1 DEF Lowered, Upper
  <2>3. small \in Token /\ small # "!" /\ small # "@"
    BY <2>2, Words
  <2>4. Spelling(token) = <<"!", small>>
    BY <1>1 DEF Spelling
  <2> QED BY <2>2, <2>3, <2>4
<1>2. CASE token \notin DOMAIN Lowered
  BY <1>2 DEF Spelling
<1> QED BY <1>1, <1>2

\* How the first tokens of a name are spelled.
Spells(x, name, k, at) ==
  /\ x \in Texts /\ at \in [1..k -> 1..Len(x)]
  /\ \A n, m \in 1..k : n < m => at[n] < at[m]
  /\ \A i \in 1..Len(x) : x[i] # "!" => \E m \in 1..k : at[m] = i
  /\ \A m \in 1..k : x[at[m]] # "!" /\ Meant(x, at[m]) = name[m]
  /\ \A i \in 1..Len(x) : x[i] = "!" => i < Len(x) /\ x[i + 1] \in {"a", "b"}
  /\ \A i \in 1..Len(x) : x[i] # "@"
  /\ Len(x) > 0 => x[1] = "!" \/ x[1] = name[1]

\* x spells the first k tokens of the name.
SpellsFrom(x, name, k) == \E at : Spells(x, name, k, at)

\* Nothing spells no token.
LEMMA SpellsNothing ==
  ASSUME NEW name
  PROVE  SpellsFrom(<<>>, name, 0)
<1> DEFINE x == <<>>
           at == [m \in 1..0 |-> 1]
<1>1. x \in Texts /\ Len(x) = 0
  BY NothingHas
<1> HIDE DEF x
<1>2. at \in [1..0 -> 1..Len(x)]
  OBVIOUS
<1>3. Spells(x, name, 0, at)
  <2> HIDE DEF at
  <2> QED BY <1>1, <1>2 DEF Spells
<1> QED BY <1>3 DEF SpellsFrom, x

\* What is added at the end of a spelling does not change what is meant before it.
LEMMA MeantStays ==
  ASSUME NEW x \in Texts, NEW w \in Texts, NEW i \in 1..Len(x)
  PROVE  (x \o w)[i] = x[i] /\ Meant(x \o w, i) = Meant(x, i)
<1> DEFINE y == x \o w
           p == i - 1
<1>1. \A j \in 1..Len(x) : y[j] = x[j]
  BY ConcatIs
<1>2. i > 1 => p \in 1..Len(x)
  BY TextLength
<1> HIDE DEF y
<1>3. i > 1 => y[p] = x[p]
  BY <1>1, <1>2
<1>4. y[i] = x[i]
  BY <1>1
<1> QED BY <1>3, <1>4 DEF Meant, y

\* One token more, escaped or not, is spelled behind others.
LEMMA SpellsOne ==
  ASSUME NEW name, NEW k \in Nat, NEW x, NEW at, Spells(x, name, k, at),
         NEW w \in Texts, NEW l \in {1, 2}, Len(w) = l, w[l] # "!", w[l] # "@",
         l = 2 => w[1] = "!" /\ w[2] \in {"a", "b"} /\ Upper[w[2]] = name[k + 1],
         l = 1 => w[1] = name[k + 1]
  PROVE  SpellsFrom(x \o w, name, k + 1)
<1> DEFINE y == x \o w
           n == Len(x)
           e == n + l
           bt == [m \in 1..(k + 1) |-> IF m = k + 1 THEN e ELSE at[m]]
<1>1. /\ x \in Texts /\ at \in [1..k -> 1..n]
      /\ \A i, j \in 1..k : i < j => at[i] < at[j]
      /\ \A i \in 1..n : x[i] # "!" => \E m \in 1..k : at[m] = i
      /\ \A m \in 1..k : x[at[m]] # "!" /\ Meant(x, at[m]) = name[m]
      /\ \A i \in 1..n : x[i] = "!" => i < n /\ x[i + 1] \in {"a", "b"}
      /\ \A i \in 1..n : x[i] # "@"
      /\ n > 0 => x[1] = "!" \/ x[1] = name[1]
  BY DEF Spells
<1>2. n \in Nat
  BY <1>1, TextLength
<1>3. /\ y \in Texts /\ Len(y) = e
      /\ \A i \in 1..n : y[i] = x[i]
      /\ \A i \in 1..l : y[n + i] = w[i]
  BY <1>1, ConcatIs
<1>4. \A i \in 1..n : y[i] = x[i] /\ Meant(y, i) = Meant(x, i)
  BY <1>1, MeantStays
<1> HIDE DEF y, n
<1>5. e \in Nat /\ e > n /\ e >= 1 /\ l \in 1..l /\ 1 \in 1..l
  <2>1. l = 1 \/ l = 2
    OBVIOUS
  <2> QED BY ONLY <1>2, <2>1
<1>6. y[e] = w[l] /\ y[n + 1] = w[1]
  BY <1>3, <1>5
<1>7. \A i \in 1..e : i \in 1..n \/ i = e \/ (l = 2 /\ i = n + 1 /\ i < e /\ i + 1 = e)
  <2>1. l = 1 \/ l = 2
    OBVIOUS
  <2> QED BY ONLY <1>2, <2>1
<1>8. Meant(y, e) = name[k + 1]
  <2> DEFINE p == e - 1
  <2>1. Meant(y, e) = IF e > 1 /\ y[p] = "!" THEN Upper[y[e]] ELSE y[e]
    BY DEF Meant
  <2>2. CASE l = 2
    <3>1. e > 1 /\ p = n + 1
      BY ONLY <1>2, <2>2
    <3> HIDE DEF e, p
    <3>2. y[p] = "!" /\ y[e] = w[2]
      BY <1>6, <2>2, <3>1
    <3> QED BY <2>1, <2>2, <3>1, <3>2
  <2>3. CASE l = 1
    <3>1. e = n + 1 /\ p = n
      BY ONLY <1>2, <2>3
    <3>2. e > 1 => n \in 1..n
      BY ONLY <1>2, <3>1
    <3>3. n \in 1..n => y[n] # "!"
      <4>1. n \in 1..n => x[n] # "!"
        <5>1. ~(n < n)
          BY ONLY <1>2
        <5> QED BY <1>1, <5>1
      <4> QED BY <1>3, <4>1
    <3> HIDE DEF e, p
    <3>4. y[e] = w[1]
      BY <1>6, <2>3
    <3> QED BY <2>1, <2>3, <3>1, <3>2, <3>3, <3>4
  <2> QED BY <2>2, <2>3
<1>9. bt \in [1..(k + 1) -> 1..e]
  <2>1. \A m \in 1..(k + 1) : m # k + 1 => m \in 1..k
    BY ONLY k \in Nat
  <2>2. e \in 1..e /\ \A i \in 1..n : i \in 1..e
    BY ONLY <1>2, <1>5
  <2> HIDE DEF e
  <2> QED BY <1>1, <2>1, <2>2
<1>10. bt[k + 1] = e /\ \A m \in 1..k : bt[m] = at[m]
  <2>1. k + 1 \in 1..(k + 1) /\ \A m \in 1..k : m \in 1..(k + 1) /\ m # k + 1
    BY ONLY k \in Nat
  <2> HIDE DEF e
  <2> QED BY <2>1
<1>11. \A m \in 1..(k + 1) : m \in 1..k \/ m = k + 1
  BY ONLY k \in Nat
<1> HIDE DEF bt, e
<1>12. \A i, j \in 1..(k + 1) : i < j => bt[i] < bt[j]
  <2> SUFFICES ASSUME NEW i \in 1..(k + 1), NEW j \in 1..(k + 1), i < j PROVE bt[i] < bt[j]
    OBVIOUS
  <2>1. i \in 1..k
    BY ONLY i \in 1..(k + 1), j \in 1..(k + 1), i < j, k \in Nat
  <2>2. CASE j \in 1..k
    BY <1>1, <1>10, <2>1, <2>2
  <2>3. CASE j = k + 1
    <3>1. at[i] \in 1..n
      BY <1>1, <2>1
    <3>2. at[i] < e
      BY ONLY <1>2, <1>5, <3>1
    <3> QED BY <1>10, <2>1, <2>3, <3>2
  <2> QED BY <1>11, <2>2, <2>3
<1>13. \A i \in 1..e : y[i] # "!" => \E m \in 1..(k + 1) : bt[m] = i
  <2> SUFFICES ASSUME NEW i \in 1..e, y[i] # "!" PROVE \E m \in 1..(k + 1) : bt[m] = i
    OBVIOUS
  <2>0. k + 1 \in 1..(k + 1) /\ 1..k \subseteq 1..(k + 1)
    BY ONLY k \in Nat
  <2>1. CASE i \in 1..n
    <3>1. x[i] # "!"
      BY <1>3, <2>1
    <3>2. PICK m \in 1..k : at[m] = i
      BY <1>1, <2>1, <3>1
    <3> QED BY <1>10, <2>0, <3>2
  <2>2. CASE i = e
    BY <1>10, <2>0, <2>2
  <2>3. CASE l = 2 /\ i = n + 1
    BY <1>6, <2>3
  <2> QED BY <1>7, <2>1, <2>2, <2>3
<1>14. \A m \in 1..(k + 1) : y[bt[m]] # "!" /\ Meant(y, bt[m]) = name[m]
  <2>1. ASSUME NEW m \in 1..k PROVE y[bt[m]] # "!" /\ Meant(y, bt[m]) = name[m]
    <3>1. at[m] \in 1..n /\ bt[m] = at[m]
      BY <1>1, <1>10
    <3> QED BY <1>1, <1>4, <3>1
  <2>2. y[bt[k + 1]] # "!" /\ Meant(y, bt[k + 1]) = name[k + 1]
    BY <1>6, <1>8, <1>10
  <2> QED BY <1>11, <2>1, <2>2
<1>15. \A i \in 1..e : y[i] = "!" => i < e /\ y[i + 1] \in {"a", "b"}
  <2> SUFFICES ASSUME NEW i \in 1..e, y[i] = "!" PROVE i < e /\ y[i + 1] \in {"a", "b"}
    OBVIOUS
  <2> DEFINE q == i + 1
  <2>1. CASE i \in 1..n
    <3>1. i < n /\ x[q] \in {"a", "b"}
      BY <1>1, <1>3, <2>1
    <3>2. i < e /\ q \in 1..n
      BY ONLY <1>2, <1>5, <2>1, <3>1
    <3> HIDE DEF q
    <3>3. y[q] = x[q]
      BY <1>3, <3>2
    <3> QED BY <3>1, <3>2, <3>3 DEF q
  <2>2. i # e
    BY <1>6
  <2>3. CASE l = 2 /\ i = n + 1 /\ i < e /\ i + 1 = e
    BY <1>6, <2>3
  <2> QED BY <1>7, <2>1, <2>2, <2>3
<1>16. \A i \in 1..e : y[i] # "@"
  <2>1. \A i \in 1..n : y[i] # "@"
    BY <1>1, <1>3
  <2>2. y[e] # "@" /\ (l = 2 => y[n + 1] # "@")
    BY <1>6
  <2> QED BY <1>7, <2>1, <2>2
<1>17. y[1] = "!" \/ y[1] = name[1]
  <2>1. CASE n > 0
    <3>1. 1 \in 1..n
      BY ONLY <1>2, <2>1
    <3> QED BY <1>1, <1>3, <2>1, <3>1
  <2>2. CASE ~(n > 0)
    <3>1. n = 0 /\ 1 = n + 1
      BY ONLY <1>2, <2>2
    <3>2. k = 0
      <4>1. ASSUME 1 \in 1..k PROVE FALSE
        <5>1. at[1] \in 1..n
          BY <1>1, <4>1
        <5> QED BY ONLY <3>1, <5>1
      <4> QED BY ONLY k \in Nat, <4>1
    <3>3. k + 1 = 1
      BY <3>2
    <3>4. y[1] = w[1]
      BY <1>6, <3>1
    <3>5. l = 1 \/ l = 2
      OBVIOUS
    <3> QED BY <3>3, <3>4, <3>5
  <2> QED BY <2>1, <2>2
<1>18. Spells(y, name, k + 1, bt)
  BY <1>3, <1>9, <1>12, <1>13, <1>14, <1>15, <1>16, <1>17 DEF Spells
<1> QED BY <1>18 DEF SpellsFrom, y

\* A name that has none of the marks of the escaping.
Speakable(name) == \A i \in 1..Len(name) : name[i] \notin {"!", "@"}

\* The next token of a name is spelled behind those before it.
LEMMA SpellsMore ==
  ASSUME NEW name \in Texts, Speakable(name), NEW k \in Nat, k + 1 \in 1..Len(name),
         NEW x, SpellsFrom(x, name, k)
  PROVE  SpellsFrom(x \o Spelling(name[k + 1]), name, k + 1)
<1> DEFINE t == name[k + 1]
           w == Spelling(t)
<1>1. t \in Token /\ t \notin {"!", "@"}
  BY TextLength DEF Speakable
<1>2. PICK at : Spells(x, name, k, at)
  BY DEF SpellsFrom
<1>3. t = name[k + 1]
  OBVIOUS
<1> HIDE DEF t
<1>4. CASE \E small : /\ small \in Token /\ small \in {"a", "b"} /\ small # "!" /\ small # "@"
                      /\ w = <<"!", small>> /\ Upper[small] = t
  <2>1. PICK small : /\ small \in Token /\ small \in {"a", "b"} /\ small # "!" /\ small # "@"
                     /\ w = <<"!", small>> /\ Upper[small] = t
    BY <1>4
  <2>2. "!" \in Token
    BY Words
  <2>3. w \in Texts /\ Len(w) = 2 /\ w[1] = "!" /\ w[2] = small
    BY <2>1, <2>2, TwoAreSeq DEF Texts
  <2> HIDE DEF w
  <2> DEFINE l == 2
  <2>4. l \in {1, 2} /\ Len(w) = l /\ w[l] # "!" /\ w[l] # "@"
        /\ (l = 2 => w[1] = "!" /\ w[2] \in {"a", "b"} /\ Upper[w[2]] = name[k + 1])
        /\ (l = 1 => w[1] = name[k + 1])
    BY <1>3, <2>1, <2>3
  <2> HIDE DEF l
  <2>5. SpellsFrom(x \o w, name, k + 1)
    BY <1>2, <2>3, <2>4, SpellsOne
  <2> QED BY <1>3, <2>5 DEF w
<1>5. CASE w = <<t>>
  <2>1. w \in Texts /\ Len(w) = 1 /\ w[1] = t
    BY <1>1, <1>5, TokenText
  <2> HIDE DEF w
  <2> DEFINE l == 1
  <2>2. l \in {1, 2} /\ Len(w) = l /\ w[l] # "!" /\ w[l] # "@"
        /\ (l = 2 => w[1] = "!" /\ w[2] \in {"a", "b"} /\ Upper[w[2]] = name[k + 1])
        /\ (l = 1 => w[1] = name[k + 1])
    BY <1>1, <1>3, <2>1
  <2> HIDE DEF l
  <2>3. SpellsFrom(x \o w, name, k + 1)
    BY <1>2, <2>1, <2>2, SpellsOne
  <2> QED BY <1>3, <2>3 DEF w
<1>6. (\E small : /\ small \in Token /\ small \in {"a", "b"} /\ small # "!" /\ small # "@"
                  /\ w = <<"!", small>> /\ Upper[small] = t) \/ w = <<t>>
  BY <1>1, SpellingIs
<1> QED BY <1>4, <1>5, <1>6

\* A spelling is a text.
LEMMA SpellingText ==
  ASSUME NEW token \in Token, token \notin {"!", "@"}
  PROVE  Spelling(token) \in Texts
<1>1. "!" \in Token
  BY Words
<1>2. \A small \in Token : <<"!", small>> \in Texts
  BY <1>1, TwoAreSeq DEF Texts
<1>3. <<token>> \in Texts
  BY TokenText
<1> QED BY <1>2, <1>3, SpellingIs

\* escape_module_path spells all tokens of a name (go.rs 164-197).
LEMMA EscapeSpells ==
  ASSUME NEW name \in Texts, Speakable(name), name # <<>>
  PROVE  SpellsFrom(GoEscape(name), name, Len(name))
<1> DEFINE n == Len(name)
           seqs == [i \in 1..n |-> Spelling(name[i])]
<1>1. n \in Nat \ {0} /\ DOMAIN name = 1..n
  BY TextLength, EmptySeq DEF Texts
<1>2. \A i \in 1..n : name[i] \in Token /\ name[i] \notin {"!", "@"} /\ Spelling(name[i]) \in Texts
  BY TextLength, SpellingText DEF Speakable
<1>3. GoEscape(name) = FlattenSeq(seqs)
  BY <1>1 DEF GoEscape, Spelling
<1>4. seqs \in [1..n -> Texts] /\ \A i \in 1..n : seqs[i] = Spelling(name[i])
  BY <1>2
<1> HIDE DEF seqs
<1>5. seqs \in Seq(Texts) /\ Len(seqs) = n
  <2> HIDE DEF n
  <2> QED BY <1>1, <1>4, LengthOfFunction, SeqDef
<1>6. PICK f : IsFlat(f, seqs, Len(seqs)) /\ FlattenSeq(seqs) = f[Len(seqs)]
  <2>1. Len(seqs) \in Nat \ {0}
    BY <1>1, <1>5
  <2> QED BY <1>5, <2>1, FlattenIs
<1>7. /\ f \in [1..n -> Texts] /\ f[1] = seqs[1]
      /\ \A i \in 1..(n - 1) : f[i + 1] = f[i] \o seqs[i + 1]
  BY <1>5, <1>6 DEF IsFlat
<1> DEFINE P(k) == SpellsFrom(f[k], name, k)
           S == {k \in Nat : k + 1 <= n => P(k + 1)}
<1>8. 0 \in S
  <2>1. 1 \in 1..n /\ 0 + 1 = 1
    BY <1>1
  <2>2. 0 \in Nat /\ 0 + 1 \in 1..Len(name)
    BY <2>1
  <2> HIDE DEF n
  <2>3. SpellsFrom(<<>> \o Spelling(name[0 + 1]), name, 0 + 1)
    BY <2>2, SpellsNothing, SpellsMore
  <2>4. <<>> \o Spelling(name[1]) = Spelling(name[1])
    BY <1>2, <2>1, ConcatEmptySeq DEF Texts
  <2>5. f[1] = Spelling(name[1])
    BY <1>4, <1>7, <2>1
  <2> QED BY <2>1, <2>3, <2>4, <2>5
<1>9. \A k \in Nat : k \in S => k + 1 \in S
  <2> SUFFICES ASSUME NEW k \in Nat, k \in S, k + 1 + 1 <= n PROVE P(k + 1 + 1)
    OBVIOUS
  <2> DEFINE j == k + 1
             g == f[j]
  <2>1. j \in Nat /\ j <= n /\ j + 1 \in 1..n /\ j \in 1..(n - 1) /\ j \in 1..n
    BY <1>1
  <2>2. P(j)
    BY <2>1
  <2>3. f[j + 1] = g \o Spelling(name[j + 1])
    <3> HIDE DEF n, j
    <3> QED BY <1>4, <1>7, <2>1
  <2>4. j + 1 \in 1..Len(name) /\ SpellsFrom(g, name, j)
    BY <2>1, <2>2
  <2> HIDE DEF n, j, g
  <2>5. SpellsFrom(g \o Spelling(name[j + 1]), name, j + 1)
    BY <2>1, <2>4, SpellsMore
  <2> QED BY <2>3, <2>5 DEF j
<1>10. P(n)
  <2> DEFINE k == n - 1
  <2>1. k \in Nat /\ k + 1 <= n /\ k + 1 = n
    BY <1>1
  <2> HIDE DEF k, P
  <2>2. k \in S
    <3> HIDE DEF S, n
    <3> QED BY <1>8, <1>9, <2>1, SetInduction
  <2>3. P(k + 1)
    BY <2>1, <2>2
  <2> QED BY <2>1, <2>3
<1> QED BY <1>3, <1>5, <1>6, <1>10

\* A spelling is read as it was written.
LEMMA UnescapeIs ==
  ASSUME NEW name \in Texts, NEW x, SpellsFrom(x, name, Len(name))
  PROVE  GoUnescape(x) = name
<1> DEFINE n == Len(name)
           I == {i \in 1..Len(x) : x[i] # "!"}
           items == [i \in 1..Len(x) |-> Meant(x, i)]
<1>1. PICK at : Spells(x, name, n, at)
  BY DEF SpellsFrom
<1>2. /\ x \in Texts /\ at \in [1..n -> 1..Len(x)]
      /\ \A i, j \in 1..n : i < j => at[i] < at[j]
      /\ \A i \in 1..Len(x) : x[i] # "!" => \E m \in 1..n : at[m] = i
      /\ \A m \in 1..n : x[at[m]] # "!" /\ Meant(x, at[m]) = name[m]
  BY <1>1 DEF Spells
<1>3. n \in Nat /\ DOMAIN x = 1..Len(x) /\ name = [m \in 1..n |-> name[m]]
  BY <1>2, TextLength DEF IsText
<1>4. GoUnescape(x) = AtIndices(items, I)
  BY <1>3 DEF GoUnescape, Meant
<1>5. I \subseteq Nat /\ IsFiniteSet(I)
  BY <1>2, IndicesAreFinite
<1>6. Enumerates(at, n, I)
  <2>1. at \in [1..n -> I]
    BY <1>2
  <2> HIDE DEF n
  <2> QED BY <1>2, <1>3, <2>1 DEF Enumerates
<1>7. \A m \in 1..n : items[at[m]] = name[m]
  BY <1>2
<1> HIDE DEF items, I, n
<1>8. IsTaken(AtIndices(items, I), items, n, at)
  BY <1>5, <1>6, TakenAt
<1>9. AtIndices(items, I) = [m \in 1..n |-> items[at[m]]]
  BY <1>8 DEF IsTaken
<1> QED BY <1>3, <1>4, <1>7, <1>9

\* unescape_module_path returns the name that was escaped (go.rs 164-224).
LEMMA EscapeIs ==
  ASSUME NEW name \in Texts, Speakable(name), name # <<>>, name[1] # "/"
  PROVE  LET x == GoEscape(name)
         IN /\ x \in Texts /\ x # <<>> /\ x[1] # "/" /\ ~Has(x, "@")
            /\ GoUnescapes(x) /\ GoUnescape(x) = name
<1> DEFINE x == GoEscape(name)
           n == Len(name)
<1>1. SpellsFrom(x, name, n)
  BY EscapeSpells
<1>2. GoUnescape(x) = name
  <2> HIDE DEF x
  <2> QED BY <1>1, UnescapeIs
<1>3. n \in Nat \ {0}
  BY TextLength, EmptySeq DEF Texts
<1> HIDE DEF x, n
<1>4. PICK at : Spells(x, name, n, at)
  BY <1>1 DEF SpellsFrom
<1>5. /\ x \in Texts /\ at \in [1..n -> 1..Len(x)]
      /\ \A i \in 1..Len(x) : x[i] = "!" => i < Len(x) /\ x[i + 1] \in {"a", "b"}
      /\ \A i \in 1..Len(x) : x[i] # "@"
      /\ Len(x) > 0 => x[1] = "!" \/ x[1] = name[1]
  BY <1>4 DEF Spells
<1>6. Len(x) > 0
  <2>1. 1 \in 1..n
    BY <1>3
  <2>2. at[1] \in 1..Len(x)
    BY <1>5, <2>1
  <2>3. Len(x) \in Nat
    BY <1>5, TextLength
  <2> QED BY <2>2, <2>3
<1>7. x # <<>> /\ x[1] # "/"
  BY <1>5, <1>6, NotEmpty
<1>8. ~Has(x, "@")
  BY <1>5, HasIs
<1>9. GoUnescapes(x)
  BY <1>5, TextLength DEF GoUnescapes
<1> QED BY <1>2, <1>5, <1>7, <1>8, <1>9 DEF x

-----------------------------------------------------------------------------
(* Go (go.rs 434-459). *)

\* What follows "/@", without the slashes in front of the path; the parser by these parts.
GoListings == {<<"latest">>, <<"v", "/", "list">>}
GoRoute(name, suffix) ==
  LET file == After(suffix, 2)
      dots == Places(file, ".")
      version == Before(file, Last(dots))
      ext == After(file, Last(dots))
  IN IF ~ValidModule(name) THEN NoRoute
     ELSE CASE suffix \in GoListings -> Listing(name)
            [] /\ IsPrefix(<<"v", "/">>, suffix) /\ dots # <<>>
               /\ ValidGoVersion(version) /\ ext \in {<<"info">>, <<"mod">>, <<"zip">>} ->
                 IF ext = <<"info">> THEN Listing(name) ELSE Delivery(name, version, ext)
            [] OTHER -> NoRoute
Untrimmed(text) ==
  LET begin == SelectInSeq(text, LAMBDA t : t # "/")
  IN IF begin = 0 THEN <<>> ELSE SubSeq(text, begin, Len(text))
AtSigns(text) == {i \in DOMAIN text : i > 1 /\ text[i] = "@" /\ text[i - 1] = "/"}

\* parse_route by its parts (go.rs 434-459).
LEMMA ParseGoIs ==
  ASSUME NEW untrimmed, NEW text, text = Untrimmed(untrimmed),
         NEW ats, ats = Ascending(text, AtSigns(text)),
         NEW raw, raw = Before(text, ats[1] - 1)
  PROVE  ParseGo(untrimmed)
           = IF ats = <<>> \/ ~GoUnescapes(raw) THEN NoRoute
             ELSE GoRoute(GoUnescape(raw), After(text, ats[1]))
<1> DEFINE begin == SelectInSeq(untrimmed, LAMBDA t : t # "/")
           x == IF begin = 0 THEN <<>> ELSE SubSeq(untrimmed, begin, Len(untrimmed))
           s == Ascending(x, {i \in DOMAIN x : i > 1 /\ x[i] = "@" /\ x[i - 1] = "/"})
           r == Before(x, s[1] - 1)
           name == GoUnescape(r)
           suffix == After(x, s[1])
           file == After(suffix, 2)
           dots == Places(file, ".")
           version == Before(file, Last(dots))
           ext == After(file, Last(dots))
           one == suffix \in {<<"latest">>, <<"v", "/", "list">>}
           two == /\ IsPrefix(<<"v", "/">>, suffix) /\ dots # <<>>
                  /\ ValidGoVersion(version) /\ ext \in {<<"info">>, <<"mod">>, <<"zip">>}
           A == Listing(name)
           B == IF ext = <<"info">> THEN Listing(name) ELSE Delivery(name, version, ext)
           cases == CASE one -> A [] two -> B [] OTHER -> NoRoute
           nothing == s = <<>>
           unreadable == ~GoUnescapes(r)
           invalid == ~ValidModule(name)
<1>1. ParseGo(untrimmed) = IF nothing \/ unreadable \/ invalid THEN NoRoute ELSE cases
  BY Zenon DEF ParseGo
<1>2. GoRoute(name, suffix) = IF invalid THEN NoRoute ELSE cases
  BY Zenon DEF GoRoute, GoListings
<1>3. x = text
  BY Zenon DEF Untrimmed
<1> HIDE DEF x
<1>4. s = ats
  BY <1>3 DEF AtSigns
<1> HIDE DEF s
<1>5. r = raw /\ suffix = After(text, ats[1])
  BY <1>3, <1>4
<1> HIDE DEF r, suffix
<1>6. name = GoUnescape(raw) /\ (unreadable <=> ~GoUnescapes(raw)) /\ (nothing <=> ats = <<>>)
  BY <1>4, <1>5
<1> HIDE DEF name, cases, invalid, unreadable, nothing
<1>7. ParseGo(untrimmed) = IF nothing \/ unreadable THEN NoRoute ELSE GoRoute(name, suffix)
  BY <1>1, <1>2
<1> QED BY <1>5, <1>6, <1>7

\* A path without a slash in front stays.
LEMMA UntrimmedIs ==
  ASSUME NEW text \in Texts, text # <<>>, text[1] # "/"
  PROVE  Untrimmed(text) = text
<1> DEFINE I == {i \in 1..Len(text) : text[i] # "/"}
<1>0. Len(text) \in Nat \ {0}
  BY EmptySeq DEF Texts
<1>1. SelectInSeq(text, LAMBDA t : t # "/") = IF I # {} THEN Min(I) ELSE 0
  BY DEF SelectInSeq
<1>2. 1 \in I /\ \A i \in I : i \in Nat /\ 1 <= i
  <2>1. 1 \in 1..Len(text) /\ \A i \in 1..Len(text) : i \in Nat /\ 1 <= i
    BY <1>0
  <2> QED BY <2>1
<1> HIDE DEF I
<1>3. Min(I) = 1
  BY <1>2, MinIs
<1>4. SubSeq(text, 1, Len(text)) = text
  BY SubSeqFull DEF Texts
<1> DEFINE begin == SelectInSeq(text, LAMBDA t : t # "/")
<1>5. begin = 1
  BY <1>1, <1>2, <1>3
<1>6. Untrimmed(text) = IF begin = 0 THEN <<>> ELSE SubSeq(text, begin, Len(text))
  BY DEF Untrimmed
<1> HIDE DEF begin
<1>7. begin # 0
  BY ONLY <1>5
<1> QED BY <1>4, <1>5, <1>6, <1>7

\* The one at-sign of a link after a slash, when what is around it has none.
LEMMA GoLink ==
  ASSUME NEW esc \in Texts, esc # <<>>, esc[1] # "/", ~Has(esc, "@"), GoUnescapes(esc),
         NEW suffix \in Texts, ~Has(suffix, "@")
  PROVE  ParseGo(esc \o (<<"/">> \o (<<"@">> \o suffix))) = GoRoute(GoUnescape(esc), suffix)
<1> DEFINE le == Len(esc)
           ls == Len(suffix)
           link == esc \o (<<"/">> \o (<<"@">> \o suffix))
           y == <<"@">> \o suffix
           h == esc \o <<"/">>
           p == le + 1
           q == le + 2
           at == <<q>>
<1>0. "/" \in Token /\ "@" \in Token /\ "/" # "@"
  BY Words
<1>1. le \in Nat /\ le # 0 /\ ls \in Nat /\ \A i \in 1..le : esc[i] # "@"
  BY TextLength, EmptySeq, HasIs DEF Texts
<1>2. y \in Texts /\ Len(y) = 1 + ls /\ y[1] = "@" /\ \A i \in 1..ls : y[1 + i] = suffix[i] /\ suffix[i] # "@"
  BY <1>0, OneAndMore, HasIs DEF Texts
<1> HIDE DEF y
<1>3. /\ link \in Texts /\ Len(link) = le + 1 + Len(y)
      /\ \A i \in 1..le : link[i] = esc[i]
      /\ link[le + 1] = "/"
      /\ \A i \in 1..Len(y) : link[le + 1 + i] = y[i]
  <2> DEFINE t == "/"
  <2> HIDE DEF t
  <2>1. LET x == esc \o (<<t>> \o y)
        IN /\ x \in Texts /\ Len(x) = Len(esc) + 1 + Len(y)
           /\ \A i \in 1..Len(esc) : x[i] = esc[i]
           /\ x[Len(esc) + 1] = t
           /\ \A i \in 1..Len(y) : x[Len(esc) + 1 + i] = y[i]
    <3>1. t \in Token
      BY <1>0 DEF t
    <3>2. y \in Texts
      BY <1>2
    <3>3. esc \in Texts
      OBVIOUS
    <3> QED BY ONLY <3>1, <3>2, <3>3, Framed
  <2> QED BY <2>1 DEF t, y
<1> HIDE DEF link, le, ls
<1>4. link[1] # "/" /\ link # <<>>
  <2>1. 1 \in 1..le /\ Len(link) > 0
    BY ONLY <1>1, <1>2, <1>3
  <2> QED BY <1>3, <2>1, NotEmpty DEF le
<1>5. Untrimmed(link) = link
  BY <1>3, <1>4, UntrimmedIs
<1>6. DOMAIN link = 1..Len(link) /\ Len(link) = le + 2 + ls
  BY <1>1, <1>2, <1>3, TextLength
<1>7. \A i \in 1..Len(link) :
        \/ i \in 1..le \/ i = p \/ i = q
        \/ i - q \in 1..ls /\ i = le + 1 + (1 + (i - q)) /\ 1 + (i - q) \in 1..(1 + ls)
  BY ONLY <1>1, <1>6
<1>8. link[p] = "/"
  BY <1>3
<1>9. link[q] = "@"
  <2>1. 1 \in 1..Len(y) /\ q = le + 1 + 1
    BY ONLY <1>1, <1>2
  <2> HIDE DEF q
  <2> QED BY <1>2, <1>3, <2>1
<1>10. q \in 1..Len(link) /\ q > 1 /\ q - 1 = p /\ q \in Nat
  BY ONLY <1>1, <1>6
<1> DEFINE I == AtSigns(link)
<1>11. q \in I
  <2> HIDE DEF p, q
  <2>1. link[q - 1] = "/"
    BY <1>8, <1>10
  <2> QED BY <1>6, <1>9, <1>10, <2>1 DEF AtSigns
<1>12. ASSUME NEW i \in I PROVE i = q
  <2>1. i \in 1..Len(link) /\ link[i] = "@"
    BY <1>6 DEF AtSigns
  <2>2. CASE i \in 1..le
    BY <1>1, <1>3, <2>1, <2>2
  <2>3. CASE i = p
    BY <1>0, <1>8, <2>1, <2>3
  <2>4. CASE i - q \in 1..ls /\ i = le + 1 + (1 + (i - q)) /\ 1 + (i - q) \in 1..(1 + ls)
    <3> DEFINE j == i - q
               m == 1 + j
    <3>1. j \in 1..ls /\ m \in 1..Len(y) /\ i = le + 1 + m
      BY ONLY <1>2, <2>4
    <3>2. y[m] = suffix[j] /\ suffix[j] # "@"
      BY <1>2, <3>1
    <3> HIDE DEF m, j
    <3>3. link[le + 1 + m] = y[m]
      BY <1>3, <3>1
    <3> QED BY <2>1, <3>1, <3>2, <3>3
  <2> QED BY <1>7, <2>1, <2>2, <2>3, <2>4
<1>13. Enumerates(at, 1, I)
  <2> HIDE DEF q, I
  <2>1. \A n \in 1..1 : n = 1 /\ at[n] = q
    OBVIOUS
  <2>2. at \in [1..1 -> I]
    BY <1>11
  <2> HIDE DEF at
  <2>3. \A n, m \in 1..1 : n < m => at[n] < at[m]
    <3>1. \A n, m \in 1..1 : ~(n < m)
      OBVIOUS
    <3> QED BY <3>1
  <2>4. \A i \in I : \E n \in 1..1 : at[n] = i
    BY <1>12, <2>1
  <2>5. 1 \in Nat
    OBVIOUS
  <2> QED BY <2>2, <2>3, <2>4, <2>5 DEF Enumerates
<1>14. Ascending(link, I) = at
  <2>1. I \subseteq 1..Len(link)
    BY <1>6 DEF AtSigns
  <2> HIDE DEF I, at
  <2> QED BY <1>3, <1>13, <2>1, AscendingIs
<1>15. at # <<>> /\ at[1] = q
  OBVIOUS
<1> HIDE DEF at
<1>16. Before(link, at[1] - 1) = esc
  <2>1. Before(link, le + 1) = esc
    BY <1>0, <1>2, BeforeAfter DEF link, le, y
  <2>2. at[1] - 1 = le + 1
    BY ONLY <1>1, <1>15
  <2> QED BY <2>1, <2>2
<1>17. After(link, at[1]) = suffix
  <2> DEFINE t == "@"
             w == <<"/">>
  <2>1. link = h \o (<<t>> \o suffix)
    <3>1. w \in Texts
      BY <1>0, TokenText
    <3> HIDE DEF w
    <3>2. (esc \o w) \o y = esc \o (w \o y)
      BY <1>2, <3>1, ConcatTexts
    <3> QED BY <3>2 DEF w, y, link
  <2>2. h \in Texts /\ Len(h) = le + 1
    <3>1. w \in Texts /\ Len(w) = 1
      BY <1>0, TokenText
    <3> HIDE DEF w
    <3>2. esc \o w \in Texts /\ Len(esc \o w) = Len(esc) + Len(w)
      BY <3>1, ConcatIs
    <3> QED BY <3>1, <3>2 DEF w, le
  <2>3. t \in Token
    BY <1>0
  <2> HIDE DEF h, t
  <2>4. After(h \o (<<t>> \o suffix), Len(h) + 1) = suffix
    BY <2>2, <2>3, BeforeAfter
  <2>5. Len(h) + 1 = at[1]
    BY ONLY <1>1, <1>15, <2>2
  <2> QED BY <2>1, <2>4, <2>5
<1> DEFINE raw == Before(link, at[1] - 1)
<1>18. ParseGo(link) = IF at = <<>> \/ ~GoUnescapes(raw) THEN NoRoute
                       ELSE GoRoute(GoUnescape(raw), After(link, at[1]))
  <2>1. raw = Before(link, at[1] - 1)
    OBVIOUS
  <2> HIDE DEF raw
  <2> QED BY <1>5, <1>14, <2>1, ParseGoIs
<1> HIDE DEF raw
<1>19. raw = esc
  BY <1>16 DEF raw
<1> QED BY <1>15, <1>17, <1>18, <1>19 DEF link, y

\* A text has a last place of a token, or none.
LEMMA PlacesOrNone ==
  ASSUME NEW text \in Texts, NEW token
  PROVE  IF Has(text, token) THEN Places(text, token) # <<>> /\ Last(Places(text, token)) \in 1..Len(text)
                             ELSE Places(text, token) = <<>>
<1>1. PICK N, at : Enumerates(at, N, At(text, token))
  BY PlacesExist
<1>2. Places(text, token) = at
  BY <1>1, PlacesAre
<1>3. /\ N \in Nat /\ at \in [1..N -> At(text, token)]
      /\ \A i \in At(text, token) : \E n \in 1..N : at[n] = i
  BY <1>1 DEF Enumerates
<1>4. Len(at) = N
  BY <1>3, LengthOfFunction
<1>5. CASE Has(text, token)
  <2>1. PICK i \in 1..Len(text) : text[i] = token
    BY <1>5, HasIs
  <2>2. i \in At(text, token)
    BY <2>1 DEF At
  <2>3. PICK n \in 1..N : at[n] = i
    BY <1>3, <2>2
  <2>4. N \in 1..N /\ Len(at) > 0
    BY ONLY n \in 1..N, <1>3, <1>4
  <2>5. at[N] \in 1..Len(text)
    BY <1>3, <2>4 DEF At
  <2> QED BY <1>2, <1>4, <1>5, <2>4, <2>5, NotEmpty DEF Last
<1>6. CASE ~Has(text, token)
  <2>1. At(text, token) = {}
    BY <1>6, HasIs DEF At
  <2>2. ~(1 \in 1..N)
    BY <1>3, <2>1
  <2>3. N = 0
    BY ONLY <1>3, <2>2
  <2>4. at \in [1..0 -> Nat]
    BY <1>3, <2>1, <2>3
  <2>5. 1..0 = {}
    OBVIOUS
  <2>6. at = <<>>
    BY <2>4, <2>5
  <2> QED BY <1>2, <1>6, <2>6
<1> QED BY <1>5, <1>6

\* A text that starts with another.
LEMMA PrefixOf ==
  ASSUME NEW x \in Texts, x # <<>>, NEW y \in Texts
  PROVE  IsPrefix(x, x \o y)
<1>1. Len(x) \in Nat \ {0} /\ Len(x) \in 1..Len(x) /\ 1 \in 1..Len(x)
  <2>1. Len(x) \in Nat \ {0}
    BY EmptySeq DEF Texts
  <2> QED BY ONLY <2>1
<1>2. Len(x \o y) = Len(x) + Len(y) /\ Len(y) \in Nat
  BY ConcatIs, TextLength
<1>3. SubSeq(x \o y, 1, Len(x)) = SubSeq(x, 1, Len(x))
  BY <1>1, SubSeqOfConcat1 DEF Texts
<1>4. Len(x) <= Len(x \o y)
  BY ONLY <1>1, <1>2
<1> QED BY <1>3, <1>4 DEF IsPrefix

\* What a module may be called starts with no slash.
LEMMA ModuleIs ==
  ASSUME NEW name \in Texts, Legal("go", name), ValidModule(name)
  PROVE  name # <<>> /\ name[1] # "/" /\ Speakable(name)
<1> DEFINE s == Split(name, "/")
           t == "/"
<1>0. t \in Token
  BY Words
<1>1. /\ s \in Seq(Texts) /\ Len(s) \in Nat \ {0} /\ DOMAIN s = 1..Len(s)
      /\ \A k \in 1..Len(s) : s[k] \in Texts
  BY SplitParts, LenProperties
<1>2. \A k \in 1..Len(s) : Plain(s[k]) /\ s[k] # <<>>
  <2>1. \A k \in 1..Len(s) : s[k] \in Range(s)
    BY <1>1 DEF Range
  <2>2. \A p \in Range(s) : Plain(p)
    BY DEF Legal
  <2> HIDE DEF s
  <2> QED BY <2>1, <2>2 DEF Plain
<1>3. ASSUME NEW token, token \in {"!", "@"} PROVE ~Has(name, token)
  <2>1. token \notin Writable /\ token # t
    BY <1>3, NotWritable
  <2> HIDE DEF t
  <2>2. Join(Split(name, t), t) = name
    BY <1>0, JoinSplit
  <2>3. \A k \in 1..Len(s) : ~Has(s[k], token)
    <3> HIDE DEF s
    <3> QED BY <1>1, <1>2, <2>1, LegalIsWritable, WritableIs
  <2>4. s = Split(name, t)
    BY DEF t
  <2> HIDE DEF s
  <2>5. ~Has(Join(s, t), token)
    BY <1>0, <1>1, <2>1, <2>3, HasJoin
  <2> QED BY <2>2, <2>4, <2>5
<1>4. Speakable(name)
  BY <1>3, HasIs DEF Speakable
<1>5. 1 \in 1..Len(s) /\ s[1] # <<>>
  <2>1. 1 \in 1..Len(s)
    <3> HIDE DEF s
    <3> QED BY ONLY <1>1
  <2> QED BY <1>2, <2>1
<1>6. ASSUME name = <<>> PROVE FALSE
  <2>1. ~Has(name, t)
    BY <1>6, NothingHas
  <2>2. Split(name, t) = <<name>>
    BY <2>1, Uncut
  <2> QED BY <1>5, <1>6, <2>2
<1>7. ASSUME name[1] = "/" PROVE FALSE
  <2> DEFINE a == Before(name, 1)
             b == After(name, 1)
  <2>1. 1 \in 1..Len(name)
    <3>1. Len(name) \in Nat \ {0}
      BY <1>6, EmptySeq DEF Texts
    <3> QED BY ONLY <3>1
  <2>2. name = a \o (<<t>> \o b) /\ a \in Texts /\ b \in Texts /\ Len(a) = 0
    <3> DEFINE i == 1
               c == name[i]
    <3>1. i \in 1..Len(name) /\ i - 1 = 0 /\ c = t
      BY <1>7, <2>1
    <3> HIDE DEF i
    <3>2. /\ name = Before(name, i) \o (<<c>> \o After(name, i))
          /\ Before(name, i) \in Texts /\ After(name, i) \in Texts /\ Len(Before(name, i)) = i - 1
      BY <3>1, CutAt
    <3> HIDE DEF c, t
    <3>3. name = Before(name, i) \o (<<t>> \o After(name, i)) /\ Len(Before(name, i)) = 0
      BY <3>1, <3>2
    <3> QED BY <3>2, <3>3 DEF i
  <2> HIDE DEF a, b
  <2>3. a = <<>>
    BY <2>2, EmptySeq DEF Texts
  <2>4. ~Has(a, t)
    BY <2>3, NothingHas
  <2>5. Split(name, t) = <<a>> \o Split(b, t)
    <3> HIDE DEF t
    <3>1. Split(a \o (<<t>> \o b), t) = <<a>> \o Split(b, t)
      BY <1>0, <2>2, <2>4, SplitFront
    <3> QED BY <2>2, <3>1
  <2>6. (<<a>> \o Split(b, t))[1] = a
    BY <2>2, SplitParts, OneAndMore
  <2> QED BY <1>5, <2>3, <2>5, <2>6
<1> QED BY <1>4, <1>6, <1>7

\* The list of versions of a module is a listing of it (go.rs 434-459).
LEMMA GoListing ==
  ASSUME NEW name \in Texts, Legal("go", name), ValidModule(name)
  PROVE  ParseGo(GoEscape(name) \o <<"/", "@", "v", "/", "list">>) = Listing(name)
<1> DEFINE esc == GoEscape(name)
           suffix == <<"v", "/", "list">>
           file == <<"list">>
           a == <<"v">>
           v == <<"/", "@", "v", "/", "list">>
<1>0. {"/", "@", "v", "list"} \subseteq Token /\ "list" # "." /\ "list" # "@" /\ "v" # "@" /\ "/" # "@"
  BY Words
<1>1. /\ esc \in Texts /\ esc # <<>> /\ esc[1] # "/" /\ ~Has(esc, "@")
      /\ GoUnescapes(esc) /\ GoUnescape(esc) = name
  BY ModuleIs, EscapeIs
<1>2. file \in Texts /\ ~Has(file, ".") /\ ~Has(file, "@") /\ a \in Texts /\ Len(a) = 1 /\ ~Has(a, "@")
  BY <1>0, OneHas
<1>3. suffix = a \o (<<"/">> \o file)
  <2>1. <<"/", "list">> = <<"/">> \o file
    BY <1>0, OneAndOne
  <2>2. suffix = a \o <<"/", "list">>
    BY <1>0, OneAndTwo
  <2> QED BY <2>1, <2>2
<1>4. v = <<"/">> \o (<<"@">> \o suffix)
  <2>1. <<"@", "v", "/", "list">> = <<"@">> \o suffix
    BY <1>0, OneAndThree
  <2>2. v = <<"/">> \o <<"@", "v", "/", "list">>
    BY <1>0, OneAndFour
  <2> QED BY <2>1, <2>2
<1> HIDE DEF esc, file, a, v
<1>5. suffix \in Texts /\ ~Has(suffix, "@") /\ After(suffix, 2) = file
  <2> HIDE DEF suffix
  <2>1. After(suffix, Len(a) + 1) = file
    BY <1>0, <1>2, <1>3, BeforeAfter
  <2>2. Len(a) + 1 = 2
    BY ONLY <1>2
  <2> QED BY <1>0, <1>2, <1>3, <2>1, <2>2, Framed, FramedHas
<1>6. suffix \in GoListings
  BY DEF GoListings
<1> HIDE DEF suffix
<1>7. ParseGo(esc \o v) = GoRoute(name, suffix)
  BY <1>1, <1>4, <1>5, GoLink
<1>8. Places(After(suffix, 2), ".") = <<>>
  BY <1>2, <1>5, PlacesOrNone
<1>9. GoRoute(name, suffix) = Listing(name)
  BY <1>6, <1>8 DEF GoRoute
<1> QED BY <1>7, <1>9 DEF esc, v

\* The files of a version that are delivered.
GoFiles == {<<"mod">>, <<"zip">>}

\* The endings of the delivered files.
LEMMA GoFilesAre ==
  ASSUME NEW ext \in GoFiles
  PROVE  /\ ext \in Texts /\ ~Has(ext, ".") /\ ~Has(ext, "@")
         /\ ext # <<"info">> /\ ext \in {<<"info">>, <<"mod">>, <<"zip">>}
<1>1. {"mod", "zip"} \subseteq Token /\ "mod" # "@" /\ "zip" # "@" /\ "mod" # "." /\ "zip" # "."
  BY Words
<1>2. \A token \in {"mod", "zip"} : <<token>> \in Texts /\ ~Has(<<token>>, ".") /\ ~Has(<<token>>, "@")
  BY <1>1, OneHas
<1> QED BY <1>2 DEF GoFiles

\* Concatenation, told apart from equality of sequences.
Regrouped(e, s1, s2, s3, x, d, y) ==
  (((e \o (s1 \o (s2 \o (s3 \o s1)))) \o x) \o d) \o y
    = e \o (s1 \o (s2 \o (s3 \o (s1 \o (x \o (d \o y))))))

\* Parts of a link put together in another way.
LEMMA Regroup ==
  ASSUME NEW e \in Texts, NEW s1 \in Texts, NEW s2 \in Texts, NEW s3 \in Texts,
         NEW x \in Texts, NEW d \in Texts, NEW y \in Texts
  PROVE  Regrouped(e, s1, s2, s3, x, d, y)
<1> DEFINE u == Cat(s3, s1)
           z == Cat(s2, u)
           v == Cat(s1, z)
           f == Cat(x, Cat(d, y))
           g == Cat(e, v)
<1>1. f \in Texts
  BY CatText
<1>2. Cat(u, f) = Cat(s3, Cat(s1, f)) /\ u \in Texts
  <2> HIDE DEF f
  <2> QED BY <1>1, CatText, CatTexts
<1>3. Cat(z, f) = Cat(s2, Cat(u, f)) /\ z \in Texts
  <2> HIDE DEF u, f
  <2> QED BY <1>1, <1>2, CatText, CatTexts
<1>4. Cat(v, f) = Cat(s1, Cat(z, f)) /\ v \in Texts
  <2> HIDE DEF z, f
  <2> QED BY <1>1, <1>3, CatText, CatTexts
<1>5. Cat(g, f) = Cat(e, Cat(v, f)) /\ g \in Texts
  <2> HIDE DEF v, f
  <2> QED BY <1>1, <1>4, CatText, CatTexts
<1>6. Cat(Cat(Cat(g, x), d), y) = Cat(g, f)
  <2> HIDE DEF g
  <2>1. Cat(Cat(g, x), d) = Cat(g, Cat(x, d))
    BY <1>5, CatTexts
  <2> DEFINE w == Cat(x, d)
  <2>2. w \in Texts /\ Cat(w, y) = f
    BY CatText, CatTexts
  <2> HIDE DEF w, f
  <2>3. Cat(Cat(g, w), y) = Cat(g, Cat(w, y))
    BY <1>5, <2>2, CatTexts
  <2> QED BY <2>1, <2>2, <2>3 DEF w
<1>7. Cat(Cat(Cat(g, x), d), y) = Cat(e, Cat(s1, Cat(s2, Cat(s3, Cat(s1, f)))))
  <2> HIDE DEF u, z, v, f, g
  <2> QED BY <1>2, <1>3, <1>4, <1>5, <1>6
<1> QED BY <1>7 DEF Cat, Regrouped

\* The link of a version's file is taken for that file (go.rs 434-459).
LEMMA GoDownload ==
  ASSUME NEW name \in Texts, Legal("go", name), ValidModule(name),
         NEW version \in Texts, ValidGoVersion(version), ~Has(version, "@"),
         NEW ext \in GoFiles
  PROVE  ParseGo(GoEscape(name) \o <<"/", "@", "v", "/">> \o version \o <<".">> \o ext)
           = Delivery(name, version, ext)
<1> DEFINE esc == GoEscape(name)
           v == <<"/", "@", "v", "/">>
           s1 == <<"/">>
           s2 == <<"@">>
           s3 == <<"v">>
           d == <<".">>
           file == version \o (d \o ext)
           suffix == s3 \o (s1 \o file)
<1>0. {"/", "@", "v", "list", "mod", "zip", "."} \subseteq Token
      /\ "." # "@" /\ "v" # "@" /\ "/" # "@" /\ "mod" # "@" /\ "zip" # "@" /\ "mod" # "." /\ "zip" # "."
  BY Words
<1>1. /\ esc \in Texts /\ esc # <<>> /\ esc[1] # "/" /\ ~Has(esc, "@")
      /\ GoUnescapes(esc) /\ GoUnescape(esc) = name
  BY ModuleIs, EscapeIs
<1>2. s1 \in Texts /\ s2 \in Texts /\ s3 \in Texts /\ d \in Texts /\ Len(s3) = 1 /\ ~Has(s3, "@")
  BY <1>0, OneHas
<1>3. ext \in Texts /\ ~Has(ext, ".") /\ ~Has(ext, "@")
  BY GoFilesAre
<1>4. file \in Texts /\ ~Has(file, "@") /\ Has(file, ".")
  <2>1. file \in Texts /\ ~Has(file, "@")
    BY <1>0, <1>3, Framed, FramedHas
  <2>2. Len(file) = Len(version) + 1 + Len(ext) /\ file[Len(version) + 1] = "."
    BY <1>0, <1>3, Framed
  <2> HIDE DEF file
  <2>3. Len(version) \in Nat /\ Len(ext) \in Nat
    BY <1>3, TextLength
  <2> DEFINE p == Len(version) + 1
  <2>4. p \in 1..Len(file)
    BY ONLY <2>2, <2>3
  <2>5. file[p] = "."
    BY <2>2
  <2> HIDE DEF p
  <2> QED BY <2>1, <2>4, <2>5, HasIs
<1>5. v = s1 \o (s2 \o (s3 \o s1))
  <2>1. <<"v", "/">> = s3 \o s1
    BY <1>0, OneAndOne
  <2>2. <<"@", "v", "/">> = s2 \o <<"v", "/">>
    BY <1>0, OneAndTwo
  <2>3. v = s1 \o <<"@", "v", "/">>
    BY <1>0, OneAndThree
  <2> QED BY <2>1, <2>2, <2>3
<1>6. (((esc \o v) \o version) \o d) \o ext = esc \o (s1 \o (s2 \o suffix))
  <2> HIDE DEF esc, v, s1, s2, s3, d
  <2>1. (((esc \o (s1 \o (s2 \o (s3 \o s1)))) \o version) \o d) \o ext
          = esc \o (s1 \o (s2 \o (s3 \o (s1 \o (version \o (d \o ext))))))
    <3>1. Regrouped(esc, s1, s2, s3, version, d, ext)
      BY <1>1, <1>2, <1>3, Regroup
    <3> QED BY <3>1 DEF Regrouped
  <2> QED BY <1>5, <2>1
<1> HIDE DEF file
<1>7. suffix \in Texts /\ ~Has(suffix, "@") /\ Has(suffix, ".") /\ After(suffix, 2) = file
  <2>1. suffix \in Texts /\ ~Has(suffix, "@") /\ After(suffix, Len(s3) + 1) = file
    <3> HIDE DEF s3
    <3> QED BY <1>0, <1>2, <1>4, Framed, FramedHas, BeforeAfter
  <2>2. Len(s3) + 1 = 2
    BY <1>2
  <2>3. Has(suffix, ".")
    <3> HIDE DEF s1, s3
    <3>1. s1 \o file \in Texts
      BY <1>2, <1>4, ConcatIs
    <3>2. Has(s1 \o file, ".")
      BY <1>2, <1>4, HasConcat
    <3> QED BY <1>2, <3>1, <3>2, HasConcat
  <2> QED BY <2>1, <2>2, <2>3
<1>8. IsPrefix(<<"v", "/">>, suffix)
  <2>1. <<"v", "/">> \o file = suffix /\ <<"v", "/">> \in Texts
    BY <1>0, <1>4, TwoAhead, TwoAreSeq DEF Texts
  <2> DEFINE x == <<"v", "/">>
  <2>2. x # <<>>
    OBVIOUS
  <2> HIDE DEF x
  <2>3. x \in Texts /\ x \o file = suffix
    BY <2>1 DEF x
  <2>4. IsPrefix(x, x \o file)
    BY <1>4, <2>2, <2>3, PrefixOf
  <2> QED BY <2>3, <2>4 DEF x
<1>9. suffix \notin GoListings
  <2>1. ~Has(<<"latest">>, ".") /\ ~Has(<<"v", "/", "list">>, ".")
    BY DEF Has, Range
  <2> HIDE DEF suffix
  <2> QED BY <1>7, <2>1 DEF GoListings
<1>10. ParseGo(esc \o (s1 \o (s2 \o suffix))) = GoRoute(name, suffix)
  <2> HIDE DEF esc, suffix
  <2> QED BY <1>1, <1>7, GoLink
<1>11. Places(file, ".") # <<>> /\ Last(Places(file, ".")) = Len(version) + 1
  BY <1>0, <1>3, <1>4, PlacesOrNone, LastPlace DEF file
<1>12. Before(file, Len(version) + 1) = version /\ After(file, Len(version) + 1) = ext
  BY <1>0, <1>3, BeforeAfter DEF file
<1> HIDE DEF suffix
<1>13. GoRoute(name, suffix) = IF ext = <<"info">> THEN Listing(name) ELSE Delivery(name, version, ext)
  <2>1. ext \in {<<"info">>, <<"mod">>, <<"zip">>}
    BY GoFilesAre
  <2> QED BY <1>7, <1>8, <1>9, <1>11, <1>12, <2>1 DEF GoRoute
<1>14. ext # <<"info">>
  BY GoFilesAre
<1> QED BY <1>6, <1>10, <1>13, <1>14 DEF esc, v, d

\* What is before an index is a text.
LEMMA BeforeText ==
  ASSUME NEW text \in Texts, NEW k \in Int, k <= Len(text) + 1
  PROVE  Before(text, k) \in Texts
<1> DEFINE n == Len(text)
           m == k - 1
<1>1. n \in Nat
  BY TextLength
<1>2. m \in Int /\ \A i \in 1..m : i \in 1..n
  <2> HIDE DEF n
  <2>1. k <= n + 1
    BY DEF n
  <2> QED BY ONLY <1>1, <2>1, k \in Int
<1>3. \A i \in 1..m : text[i] \in Token
  BY <1>2, RangeIs
<1> HIDE DEF n, m
<1>4. SubSeq(text, 1, m) \in Seq(Token)
  BY <1>2, <1>3, SubSeqProperties
<1> QED BY <1>4 DEF m, Before, Texts

\* A path without the slashes in front is a text.
LEMMA UntrimmedText ==
  ASSUME NEW text \in Texts
  PROVE  Untrimmed(text) \in Texts
<1> DEFINE I == {i \in 1..Len(text) : text[i] # "/"}
           begin == SelectInSeq(text, LAMBDA t : t # "/")
<1>0. Len(text) \in Nat
  BY TextLength
<1>1. begin = IF I # {} THEN Min(I) ELSE 0
  BY DEF SelectInSeq
<1>2. Untrimmed(text) = IF begin = 0 THEN <<>> ELSE SubSeq(text, begin, Len(text))
  BY DEF Untrimmed
<1>3. I \subseteq 1..Len(text)
  OBVIOUS
<1> HIDE DEF I, begin
<1>4. CASE I = {}
  BY <1>1, <1>2, <1>4, NothingHas
<1>5. CASE I # {}
  <2>0. I \subseteq Nat
    BY ONLY <1>0, <1>3
  <2>1. PICK f \in I : \A i \in I : ~(i < f)
    BY ONLY <1>5, <2>0, LeastMember
  <2>2. f \in I /\ \A i \in I : i \in Nat /\ f <= i
    BY ONLY <2>0, <2>1
  <2>3. Min(I) = f
    BY ONLY <2>2, MinIs
  <2> DEFINE k == f - 1
  <2>4. k \in Nat /\ k + 1 = f /\ f # 0
    BY ONLY <1>3, <2>2, <1>0
  <2> HIDE DEF k
  <2>5. After(text, k) \in Texts
    BY <2>4, AfterText
  <2>6. SubSeq(text, f, Len(text)) \in Texts
    BY <2>4, <2>5 DEF After
  <2> QED BY <1>1, <1>2, <1>5, <2>3, <2>4, <2>6
<1> QED BY <1>4, <1>5

\* What is unescaped is a text.
LEMMA UnescapeText ==
  ASSUME NEW x \in Texts, GoUnescapes(x)
  PROVE  GoUnescape(x) \in Texts
<1> DEFINE n == Len(x)
           items == [i \in 1..n |-> Meant(x, i)]
           I == {i \in 1..n : x[i] # "!"}
<1>1. n \in Nat /\ DOMAIN x = 1..n /\ x \in [1..n -> Token]
  BY TextLength
<1>2. GoUnescape(x) = AtIndices(items, I)
  BY <1>1 DEF GoUnescape, Meant
<1>3. \A i \in 1..n : Meant(x, i) \in Token
  <2> SUFFICES ASSUME NEW i \in 1..n PROVE Meant(x, i) \in Token
    OBVIOUS
  <2> DEFINE p == i - 1
  <2>1. i > 1 => p \in 1..n /\ p + 1 = i
    <3> HIDE DEF n
    <3> QED BY ONLY <1>1, i \in 1..n
  <2>2. x[i] \in Token
    BY <1>1
  <2>3. Meant(x, i) = IF i > 1 /\ x[p] = "!" THEN Upper[x[i]] ELSE x[i]
    BY DEF Meant
  <2> HIDE DEF p
  <2>4. CASE i > 1 /\ x[p] = "!"
    <3>1. x[i] \in {"a", "b"}
      BY <1>1, <2>1, <2>4 DEF GoUnescapes
    <3>2. Upper[x[i]] \in Token
      BY <3>1, Words DEF Upper
    <3> QED BY <2>3, <2>4, <3>2
  <2>5. CASE ~(i > 1 /\ x[p] = "!")
    BY <2>2, <2>3, <2>5
  <2> QED BY <2>4, <2>5
<1>4. I \subseteq 1..n /\ \A i \in I : items[i] \in Token
  BY <1>3
<1>5. I \subseteq Nat /\ IsFiniteSet(I)
  BY IndicesAreFinite
<1> HIDE DEF items, I, n
<1>6. PICK N, at : Enumerates(at, N, I)
  BY <1>5, EnumerationExists
<1>7. IsTaken(AtIndices(items, I), items, N, at)
  BY <1>5, <1>6, TakenAt
<1>8. N \in Nat /\ at \in [1..N -> I]
  BY <1>6 DEF Enumerates
<1> DEFINE r == [k \in 1..N |-> items[at[k]]]
<1>9. r \in [1..N -> Token]
  BY <1>4, <1>8
<1>10. GoUnescape(x) = r
  BY <1>2, <1>7 DEF IsTaken
<1> HIDE DEF r
<1> QED BY <1>8, <1>9, <1>10, SeqDef DEF Texts

\* What follows the at-sign is a listing or a file of a version (go.rs 440-459).
LEMMA GoRouteIs ==
  ASSUME NEW name, NEW suffix \in Texts, GoRoute(name, suffix).to # "none"
  PROVE  /\ ValidModule(name)
         /\ \/ GoRoute(name, suffix) = Listing(name)
            \/ \E version \in Texts, ext \in GoFiles :
                 ValidGoVersion(version) /\ GoRoute(name, suffix) = Delivery(name, version, ext)
<1> DEFINE file == After(suffix, 2)
           dots == Places(file, ".")
           version == Before(file, Last(dots))
           ext == After(file, Last(dots))
           one == suffix \in GoListings
           found == dots # <<>>
           two == /\ IsPrefix(<<"v", "/">>, suffix) /\ found
                  /\ ValidGoVersion(version) /\ ext \in {<<"info">>, <<"mod">>, <<"zip">>}
           A == Listing(name)
           B == IF ext = <<"info">> THEN Listing(name) ELSE Delivery(name, version, ext)
           r == GoRoute(name, suffix)
           valid == ValidModule(name)
<1>1. r = IF ~valid THEN NoRoute ELSE CASE one -> A [] two -> B [] OTHER -> NoRoute
  BY Zenon DEF GoRoute
<1>2. NoRoute.to = "none"
  BY DEF NoRoute
<1>3. valid /\ (r = A \/ (two /\ r = B))
  <2> HIDE DEF valid, one, two, A, B
  <2>1. r.to # "none"
    OBVIOUS
  <2> HIDE DEF r
  <2> QED BY ONLY <1>1, <1>2, <2>1
<1>4. ASSUME found PROVE version \in Texts
  <2>1. file \in Texts
    BY AfterText
  <2> HIDE DEF file
  <2>2. Last(dots) \in 1..Len(file)
    BY <1>4, <2>1, PlacesOrNone
  <2> DEFINE k == Last(dots)
  <2>3. k \in 1..Len(file) /\ Len(file) \in Nat
    BY <2>1, <2>2, TextLength
  <2> HIDE DEF k
  <2>4. k \in Int /\ k <= Len(file) + 1
    BY ONLY <2>3
  <2>5. Before(file, k) \in Texts
    BY <2>1, <2>4, BeforeText
  <2> QED BY <2>5 DEF k
<1>5. CASE two /\ r = B
  <2>1. CASE ext = <<"info">>
    BY <1>3, <1>5, <2>1
  <2>2. CASE ext # <<"info">>
    <3>1. ext \in GoFiles
      BY <1>5, <2>2 DEF GoFiles
    <3>2. version \in Texts /\ ValidGoVersion(version)
      BY <1>4, <1>5
    <3>3. r = Delivery(name, version, ext)
      BY <1>5, <2>2
    <3> HIDE DEF version, ext
    <3> QED BY <1>3, <3>1, <3>2, <3>3
  <2> QED BY <2>1, <2>2
<1> QED BY <1>3, <1>5

\* Whatever path names a module, its list of versions and the link of its file name the
\* same (go.rs 434-459).
LEMMA GoAgrees ==
  ASSUME NEW text \in Texts, NEW route, route = ParseGo(text), route.to # "none",
         Legal("go", route.name), LegalFile(route.version)
  PROVE  /\ route.name \in Texts /\ route.version \in Texts
         /\ ParseGo(GoEscape(route.name) \o <<"/", "@", "v", "/", "list">>) = Listing(route.name)
         /\ route.to = "artifact" =>
              ParseGo(GoEscape(route.name) \o <<"/", "@", "v", "/">> \o route.version \o <<".">> \o route.file)
                = route
<1> DEFINE x == Untrimmed(text)
           ats == Ascending(x, AtSigns(x))
           raw == Before(x, ats[1] - 1)
           name == GoUnescape(raw)
           suffix == After(x, ats[1])
<1>1. route = IF ats = <<>> \/ ~GoUnescapes(raw) THEN NoRoute ELSE GoRoute(name, suffix)
  <2>1. x = Untrimmed(text) /\ ats = Ascending(x, AtSigns(x)) /\ raw = Before(x, ats[1] - 1)
    OBVIOUS
  <2>2. name = GoUnescape(raw) /\ suffix = After(x, ats[1])
    OBVIOUS
  <2> HIDE DEF x, ats, raw, name, suffix
  <2>3. ParseGo(text) = IF ats = <<>> \/ ~GoUnescapes(raw) THEN NoRoute
                        ELSE GoRoute(GoUnescape(raw), After(x, ats[1]))
    BY <2>1, ParseGoIs
  <2> QED BY <2>2, <2>3
<1>2. ats # <<>> /\ GoUnescapes(raw) /\ route = GoRoute(name, suffix)
  <2> HIDE DEF ats, raw, name, suffix
  <2>1. NoRoute.to = "none"
    BY DEF NoRoute
  <2> QED BY <1>1, <2>1
<1>3. x \in Texts
  BY UntrimmedText
<1> HIDE DEF x
<1>4. ats[1] \in AtSigns(x)
  <2> DEFINE I == AtSigns(x)
  <2>1. I \subseteq 1..Len(x)
    BY <1>3, TextLength DEF AtSigns
  <2>2. I \subseteq Nat /\ IsFiniteSet(I)
    <3> HIDE DEF I
    <3> QED BY <1>3, <2>1, IndicesAreFinite
  <2> HIDE DEF I
  <2>3. PICK N, at : Enumerates(at, N, I)
    BY <2>2, EnumerationExists
  <2>4. ats = at
    BY <1>3, <2>1, <2>3, AscendingIs DEF I
  <2> HIDE DEF ats
  <2>5. N \in Nat /\ at \in [1..N -> I]
    BY <2>3 DEF Enumerates
  <2>6. N # 0
    <3>1. ASSUME N = 0 PROVE at = <<>>
      <4>1. 1..0 = {}
        OBVIOUS
      <4> QED BY <2>5, <3>1, <4>1
    <3> QED BY <1>2, <2>4, <3>1
  <2>7. 1 \in 1..N
    BY ONLY <2>5, <2>6
  <2> QED BY <2>4, <2>5, <2>7 DEF I
<1> DEFINE k == ats[1]
<1>5. k \in 1..Len(x) /\ Len(x) \in Nat
  BY <1>3, <1>4, TextLength DEF AtSigns
<1> HIDE DEF ats
<1>6. raw \in Texts
  <2> DEFINE j == k - 1
  <2> HIDE DEF k
  <2>1. j \in Int /\ j <= Len(x) + 1
    BY ONLY <1>5
  <2> HIDE DEF j
  <2>2. Before(x, j) \in Texts
    BY <1>3, <2>1, BeforeText
  <2> QED BY <2>2 DEF j, k
<1>7. suffix \in Texts
  <2> HIDE DEF k
  <2>1. k \in Nat
    BY ONLY <1>5
  <2>2. After(x, k) \in Texts
    BY <1>3, <2>1, AfterText
  <2> QED BY <2>2 DEF k
<1> HIDE DEF raw, suffix, k
<1>8. name \in Texts
  BY <1>2, <1>6, UnescapeText
<1> HIDE DEF name
<1>9. /\ ValidModule(name)
      /\ \/ route = Listing(name)
         \/ \E version \in Texts, ext \in GoFiles :
              ValidGoVersion(version) /\ route = Delivery(name, version, ext)
  <2>1. GoRoute(name, suffix).to # "none"
    BY <1>2
  <2> QED BY <1>2, <1>7, <2>1, GoRouteIs
<1>10. CASE route = Listing(name)
  <2>1. route.name = name /\ route.version = <<>> /\ route.to = "listing"
    BY <1>10 DEF Listing
  <2> QED BY <1>8, <1>9, <2>1, NothingHas, GoListing
<1>11. ASSUME NEW version \in Texts, NEW ext \in GoFiles,
              ValidGoVersion(version), route = Delivery(name, version, ext)
       PROVE  /\ route.name = name /\ route.version = version /\ route.file = ext
              /\ ParseGo(GoEscape(name) \o <<"/", "@", "v", "/">> \o version \o <<".">> \o ext) = route
              /\ ParseGo(GoEscape(name) \o <<"/", "@", "v", "/", "list">>) = Listing(name)
  <2>1. route.name = name /\ route.version = version /\ route.file = ext
    BY <1>11 DEF Delivery
  <2>2. ~Has(version, "@")
    BY <2>1, LegalIsWritable, NotWritable, WritableIs
  <2>3. ParseGo(GoEscape(name) \o <<"/", "@", "v", "/">> \o version \o <<".">> \o ext)
          = Delivery(name, version, ext)
    BY <1>8, <1>9, <1>11, <2>1, <2>2, GoDownload
  <2>4. ParseGo(GoEscape(name) \o <<"/", "@", "v", "/", "list">>) = Listing(name)
    BY <1>8, <1>9, <2>1, GoListing
  <2> QED BY <1>11, <2>1, <2>3, <2>4
<1>12. CASE \E version \in Texts, ext \in GoFiles :
              ValidGoVersion(version) /\ route = Delivery(name, version, ext)
  <2>1. PICK version \in Texts, ext \in GoFiles :
          ValidGoVersion(version) /\ route = Delivery(name, version, ext)
    BY <1>12
  <2>2. /\ route.name = name /\ route.version = version /\ route.file = ext
        /\ ParseGo(GoEscape(name) \o <<"/", "@", "v", "/">> \o version \o <<".">> \o ext) = route
        /\ ParseGo(GoEscape(name) \o <<"/", "@", "v", "/", "list">>) = Listing(name)
    BY <1>11, <2>1
  <2> QED BY <1>8, <2>2
<1> QED BY <1>9, <1>10, <1>12

-----------------------------------------------------------------------------
(* Maven (server.rs 1122-1153, maven.rs 583-595, 815-864). *)

\* more is parts with one part behind them.
AppendIs(parts, part, more) ==
  /\ more \in Seq(Texts) /\ Len(more) = Len(parts) + 1
  /\ \A i \in 1..Len(parts) : more[i] = parts[i]
  /\ more[Len(parts) + 1] = part

\* Append puts one part behind the others.
LEMMA AppendMore ==
  ASSUME NEW parts \in Seq(Texts), NEW part \in Texts
  PROVE  AppendIs(parts, part, Append(parts, part))
<1> DEFINE more == Append(parts, part)
           n == Len(parts)
<1>1. /\ more \in Seq(Texts) /\ Len(more) = n + 1
      /\ \A i \in 1..n : more[i] = parts[i]
      /\ more[n + 1] = part
  BY AppendProperties
<1> HIDE DEF more
<1> QED BY <1>1 DEF AppendIs, more

\* One part more on a path.
LEMMA JoinAppend ==
  ASSUME NEW parts \in Seq(Texts), Len(parts) \in Nat \ {0}, NEW part, NEW more,
         AppendIs(parts, part, more), NEW token \in Token
  PROVE  Join(more, token) = Join(parts, token) \o (<<token>> \o part)
<1> DEFINE m == Len(parts)
<1>1. m \in Nat /\ m >= 1
  <2>1. m \in Nat \ {0}
    OBVIOUS
  <2> HIDE DEF m
  <2> QED BY ONLY <2>1
<1>2. more \in Seq(Texts) /\ Len(more) = m + 1 /\ more[m + 1] = part /\ \A i \in 1..m : parts[i] = more[i]
  BY DEF AppendIs
<1>3. Len(parts) = m
  OBVIOUS
<1> HIDE DEF m
<1>4. Join(more, token) = Join(parts, token) \o (<<token>> \o more[m + 1])
  BY <1>1, <1>2, <1>3, JoinMore
<1> QED BY <1>2, <1>4

\* A text that goes on without a cut: only its last part is longer.
LEMMA SplitLonger ==
  ASSUME NEW text \in Texts, NEW token \in Token, NEW w \in Texts, ~Has(w, token)
  PROVE  LET s == Split(text, token)
             z == Split(text \o w, token)
         IN Len(z) = Len(s) /\ \A i \in 1..(Len(s) - 1) : z[i] = s[i]
<1> DEFINE s == Split(text, token)
           n == Len(s)
           l == s[n] \o w
           z == [i \in 1..n |-> IF i = n THEN l ELSE s[i]]
<1>1. /\ s \in Seq(Texts) /\ n \in Nat \ {0}
      /\ \A i \in 1..n : s[i] \in Texts /\ ~Has(s[i], token)
  BY SplitParts
<1>2. n \in 1..n
  <2> HIDE DEF n
  <2> QED BY ONLY <1>1
<1>3. Join(s, token) = text
  BY JoinSplit
<1> HIDE DEF s
<1>4. l \in Texts /\ ~Has(l, token)
  BY <1>1, <1>2, ConcatIs, HasConcat
<1> HIDE DEF l
<1>5. z \in [1..n -> Texts] /\ z[n] = l /\ (\A i \in 1..n : i # n => z[i] = s[i])
      /\ \A i \in 1..n : ~Has(z[i], token)
  BY <1>1, <1>2, <1>4
<1> HIDE DEF z
<1>6. z \in Seq(Texts) /\ Len(z) = n
  <2> HIDE DEF n
  <2> QED BY <1>1, <1>5, LengthOfFunction, SeqDef
<1>7. Join(z, token) = text \o w
  <2>1. CASE n = 1
    <3>1. Join(z, token) = z[1] /\ Join(s, token) = s[1]
      BY <1>1, <1>6, <2>1, JoinOne
    <3>2. z[1] = s[1] \o w
      BY <1>5, <2>1 DEF l
    <3> QED BY <1>3, <3>1, <3>2
  <2>2. CASE n # 1
    <3> DEFINE m == n - 1
               a == First(s, m)
               j == Join(a, token)
    <3>1. m \in Nat /\ m >= 1 /\ m + 1 = n /\ \A i \in 1..m : i \in 1..n /\ i # n
      <4> HIDE DEF n
      <4> QED BY ONLY <1>1, <2>2
    <3> HIDE DEF m, n
    <3>2. a \in Seq(Texts) /\ Len(a) = m /\ \A i \in 1..m : a[i] = s[i]
      BY <1>1, <3>1, FirstIs
    <3> HIDE DEF a
    <3>3. \A i \in 1..m : a[i] = z[i]
      BY <1>5, <3>1, <3>2
    <3>4. Join(s, token) = j \o (<<token>> \o s[m + 1])
      <4>1. Len(s) = m + 1
        BY <3>1 DEF n
      <4> QED BY <1>1, <3>1, <3>2, <4>1, JoinMore
    <3>5. Join(z, token) = j \o (<<token>> \o z[m + 1])
      <4>1. Len(z) = m + 1
        BY <1>6, <3>1
      <4> QED BY <1>6, <3>1, <3>2, <3>3, <4>1, JoinMore
    <3>6. j \in Texts
      <4>1. Len(a) \in Nat \ {0}
        <5>1. m \in Nat \ {0}
          BY ONLY <3>1
        <5> QED BY <3>2, <5>1
      <4> QED BY <3>2, <4>1, JoinIsText
    <3> DEFINE c == <<token>>
               e == s[n]
    <3>7. c \in Texts /\ e \in Texts
      BY <1>1, <1>2, TokenText
    <3> HIDE DEF j, c
    <3>8. text = Cat(j, Cat(c, e)) /\ Join(z, token) = Cat(j, Cat(c, Cat(e, w)))
      BY <1>3, <1>5, <3>1, <3>4, <3>5 DEF Cat, c, l
    <3> HIDE DEF e
    <3>9. Cat(Cat(j, Cat(c, e)), w) = Cat(j, Cat(c, Cat(e, w)))
      BY <3>6, <3>7, CatText, CatTexts
    <3> QED BY <3>8, <3>9 DEF Cat
  <2> QED BY <2>1, <2>2
<1>8. Split(Join(z, token), token) = z
  <2>1. Len(z) \in Nat \ {0} /\ \A i \in 1..Len(z) : ~Has(z[i], token)
    BY <1>1, <1>5, <1>6
  <2> QED BY <1>6, <2>1, SplitJoin
<1>9. \A i \in 1..(n - 1) : z[i] = s[i]
  <2>1. \A i \in 1..(n - 1) : i \in 1..n /\ i # n
    <3> HIDE DEF n
    <3> QED BY ONLY <1>1
  <2> QED BY <1>5, <2>1
<1> QED BY <1>6, <1>7, <1>8, <1>9 DEF s

\* What coordinates are written with.
CoordinateTokens == Alphanumeric \cup Marks \cup {"+", "jar", "sha1", Document}

\* A coordinate is not empty, and has only tokens of coordinates (maven.rs 990-1011).
LEMMA CoordinateIs ==
  ASSUME NEW part \in Texts, Coordinate(part)
  PROVE  part # <<>> /\ \A token : token \notin CoordinateTokens => ~Has(part, token)
BY RangeIs DEF Coordinate, CoordinateTokens

\* No slash, colon or escape is among these.
LEMMA NotInCoordinates ==
  /\ "/" \notin CoordinateTokens /\ ":" \notin CoordinateTokens /\ "%" \notin CoordinateTokens
  /\ "%2F" \notin CoordinateTokens /\ "%40" \notin CoordinateTokens /\ "%41" \notin CoordinateTokens
BY DEF CoordinateTokens, Alphanumeric, Digits, Marks, Document

\* A part of a group has no dot.
LEMMA GroupIs ==
  ASSUME NEW part \in Texts, Group(part)
  PROVE  ~Has(part, ".")
BY RangeIs DEF Group, Has

\* The parts of a group, and an artifact.
IsMaven(g, a) ==
  /\ g \in Seq(Texts) /\ Len(g) \in Nat \ {0}
  /\ \A i \in 1..Len(g) : Coordinate(g[i]) /\ Group(g[i])
  /\ a \in Texts /\ Coordinate(a) /\ a # <<".">> /\ a # <<".", ".">>

\* The dots of a group become slashes, and its artifact follows (maven.rs 1013-1023).
LEMMA MavenPathIs ==
  ASSUME NEW g, NEW a, IsMaven(g, a), NEW p, AppendIs(g, a, p)
  PROVE  MavenName(g, a) \in Texts /\ MavenPath(MavenName(g, a)) = Join(p, "/")
<1> DEFINE dot == "."
           j == Join(g, dot)
           name == MavenName(g, a)
           parts == Split(name, ":")
           map == [d \in {"."} |-> "/"]
           k == Join(g, "/")
<1>0. dot \in Token /\ ":" \in Token /\ "/" \in Token /\ dot # ":"
  BY Words
<1>1. g \in Seq(Texts) /\ Len(g) \in Nat \ {0} /\ a \in Texts /\ \A i \in 1..Len(g) : g[i] \in Texts
  BY ElementOfSeq DEF IsMaven
<1>2. ~Has(a, ":")
  BY <1>1, CoordinateIs, NotInCoordinates DEF IsMaven
<1>3. \A i \in 1..Len(g) : ~Has(g[i], ":") /\ ~Has(g[i], ".")
  BY <1>1, CoordinateIs, NotInCoordinates, GroupIs DEF IsMaven
<1>4. j \in Texts /\ ~Has(j, ":")
  <2> HIDE DEF dot
  <2> QED BY <1>0, <1>1, <1>3, JoinIsText, HasJoin
<1>5. name = j \o <<":">> \o a
  BY DEF MavenName
<1> HIDE DEF j, name
<1>6. <<":">> \in Texts
  BY <1>0, TokenText
<1>7. name = j \o (<<":">> \o a)
  BY <1>1, <1>4, <1>5, <1>6, ConcatTexts
<1>8. name \in Texts /\ parts = <<j, a>>
  BY <1>0, <1>1, <1>2, <1>4, <1>7, SplitTwo
<1>9. MavenPath(name) = Replace(map, j) \o <<"/">> \o a
  <2>1. parts[1] = j /\ parts[2] = a
    BY <1>8
  <2>2. MavenPath(name) = Replace(map, parts[1]) \o <<"/">> \o parts[2]
    BY DEF MavenPath
  <2> HIDE DEF parts, map
  <2> QED BY <2>1, <2>2
<1>10. IsMap(map) /\ \A i \in 1..Len(g) : Unmapped(map, g[i])
  <2>1. IsMap(map)
    BY LowerIsMap
  <2>2. \A i \in 1..Len(g) : \A l \in 1..Len(g[i]) : g[i][l] # "."
    BY <1>1, <1>3, HasIs
  <2>3. DOMAIN map = {"."}
    OBVIOUS
  <2> HIDE DEF map
  <2> QED BY <2>1, <2>2, <2>3 DEF Unmapped
<1>11. Swapped(map, dot) = "/"
  BY DEF Swapped
<1> HIDE DEF map, dot
<1>12. Replace(map, Join(g, dot)) = Join(g, Swapped(map, dot))
  BY <1>0, <1>1, <1>10, ReplaceJoin
<1>13. Replace(map, j) = k
  BY <1>11, <1>12 DEF j
<1>14. k \in Texts
  BY <1>0, <1>1, JoinIsText
<1>15. Join(p, "/") = k \o (<<"/">> \o a)
  BY <1>0, <1>1, JoinAppend
<1> HIDE DEF k
<1>16. (k \o <<"/">>) \o a = k \o (<<"/">> \o a)
  <2>1. <<"/">> \in Texts
    BY <1>0, TokenText
  <2> QED BY <1>1, <1>14, <2>1, ConcatTexts
<1>17. MavenPath(name) = Join(p, "/")
  BY <1>9, <1>13, <1>15, <1>16
<1> QED BY <1>8, <1>17 DEF name

\* A checksum is cut off a document within its last part (server.rs 1131-1145).
LEMMA DocumentIs ==
  ASSUME NEW text \in Texts
  PROVE  \E e, w \in Texts : MavenDocument(text) = e /\ text = e \o w /\ ~Has(w, "/")
<1> DEFINE n == Len(text)
           k == n - 2
           e == SubSeq(text, 1, k)
           w == SubSeq(text, k + 1, n)
           summed == n > 2 /\ text[n - 2] = Document /\ text[n - 1] = "." /\ text[n] \in Checksums
<1>1. n \in Nat /\ \A i \in 1..n : text[i] \in Token
  BY TextLength
<1>2. CASE summed
  <2>1. n > 2
    BY <1>2
  <2>2. k \in Nat /\ k \in (1 - 1)..n /\ n \in k..n /\ 1 \in 1..(n + 1) /\ n - (k + 1) + 1 = 2 /\ k + 1 <= n
        /\ k + 1 - 1 + 1 = n - 1 /\ k + 2 = n /\ k + 1 = n - 1 /\ k + 1 + 1 - 1 = n - 1 /\ k + 1 + 2 - 1 = n
        /\ k + 1 \in Int /\ n \in Int /\ k <= n /\ 1 \in Int /\ k \in Int
    <3> HIDE DEF n
    <3> QED BY ONLY <1>1, <2>1
  <2>3. text \in Seq(Token) /\ Len(text) = n
    BY DEF Texts
  <2>4. text[n - 1] = "." /\ text[n] \in Checksums
    BY <1>2
  <2>5. MavenDocument(text) = SubSeq(text, 1, k)
    BY <1>2 DEF MavenDocument
  <2>6. \A i \in 1..k : i \in 1..n
    <3> HIDE DEF n, k
    <3> QED BY ONLY <1>1, <2>2
  <2>7. \A i \in (k + 1)..n : i \in 1..n
    <3> HIDE DEF n, k
    <3> QED BY ONLY <1>1, <2>2
  <2> HIDE DEF summed, k, n
  <2>8. e \o w = SubSeq(text, 1, n)
    BY <2>2, <2>3, ConcatAdjacentSubSeq
  <2>9. SubSeq(text, 1, n) = text
    BY <2>3, SubSeqFull
  <2>10. e \in Texts
    <3>1. \A i \in 1..k : text[i] \in Token
      BY <1>1, <2>6
    <3>2. SubSeq(text, 1, k) \in Seq(Token)
      BY <2>2, <3>1, SubSeqProperties
    <3> QED BY <3>2 DEF Texts
  <2>11. w \in Texts /\ Len(w) = 2 /\ \A i \in 1..2 : w[i] = text[k + 1 + i - 1]
    <3>1. \A i \in (k + 1)..n : text[i] \in Token
      BY <1>1, <2>7
    <3> DEFINE p == k + 1
    <3>2. p \in Int /\ n - p + 1 = 2 /\ p <= n
      BY <2>2
    <3> HIDE DEF p
    <3>3. /\ SubSeq(text, p, n) \in Seq(Token)
          /\ Len(SubSeq(text, p, n)) = IF p <= n THEN n - p + 1 ELSE 0
          /\ \A i \in 1..(n - p + 1) : SubSeq(text, p, n)[i] = text[p + i - 1]
      BY <2>2, <3>1, <3>2, SubSeqProperties DEF p
    <3> QED BY <3>2, <3>3 DEF Texts, p
  <2> HIDE DEF e, w
  <2>12. w[1] = "." /\ w[2] \in Checksums
    <3>1. 1 \in 1..2 /\ 2 \in 1..2
      OBVIOUS
    <3>2. w[1] = text[k + 1 + 1 - 1] /\ w[2] = text[k + 1 + 2 - 1]
      BY <2>11, <3>1
    <3> QED BY <2>2, <2>4, <3>2
  <2>13. ~Has(w, "/")
    <3>1. w[1] # "/" /\ w[2] # "/"
      BY <2>12 DEF Checksums
    <3>2. \A i \in 1..2 : i = 1 \/ i = 2
      OBVIOUS
    <3>3. \A i \in 1..Len(w) : w[i] # "/"
      BY <2>11, <3>1, <3>2
    <3> QED BY <2>11, <3>3, HasIs
  <2>14. MavenDocument(text) = e /\ text = e \o w
    BY <2>5, <2>8, <2>9 DEF e
  <2> QED BY <2>10, <2>11, <2>13, <2>14
<1>3. CASE ~summed
  <2>1. MavenDocument(text) = text
    BY <1>3 DEF MavenDocument
  <2>2. text \o <<>> = text
    BY ConcatEmptySeq DEF Texts
  <2> QED BY <2>1, <2>2, NothingHas
<1> QED BY <1>2, <1>3

\* A document and a checksum of it are in the same directory.
LEMMA DocumentParts ==
  ASSUME NEW text \in Texts
  PROVE  LET s == Split(text, "/")
             d == Split(MavenDocument(text), "/")
         IN Len(d) = Len(s) /\ \A i \in 1..(Len(s) - 1) : d[i] = s[i]
<1> DEFINE t == "/"
<1>1. PICK e, w \in Texts : MavenDocument(text) = e /\ text = e \o w /\ ~Has(w, t)
  BY DocumentIs
<1>2. t \in Token
  BY Words
<1> HIDE DEF t
<1>3. Len(Split(e \o w, t)) = Len(Split(e, t))
      /\ \A i \in 1..(Len(Split(e, t)) - 1) : Split(e \o w, t)[i] = Split(e, t)[i]
  BY <1>1, <1>2, SplitLonger
<1>4. Split(text, t) = Split(e \o w, t) /\ Split(MavenDocument(text), t) = Split(e, t)
  BY <1>1
<1> QED BY <1>3, <1>4 DEF t

\* The link of a file has the parts of its path (maven.rs 1013-1023).
LEMMA MavenFile ==
  ASSUME NEW s \in Seq(Texts), NEW m \in Nat, m >= 2, Len(s) = m + 2,
         NEW g, NEW a, IsMaven(g, a), AppendIs(g, a, First(s, m))
  PROVE  Join(<<MavenPath(MavenName(g, a)), s[m + 1], s[m + 2]>>, "/") = Join(s, "/")
<1> DEFINE t == "/"
           p == First(s, m)
           r == First(s, m + 1)
           b == MavenPath(MavenName(g, a))
           k == m + 1
<1>1. t \in Token
  BY Words
<1>2. \A i \in 1..(m + 2) : s[i] \in Texts
  BY ElementOfSeq
<1>3. k \in Nat /\ k >= 1 /\ k + 1 = m + 2 /\ m >= 1 /\ (\A i \in 1..k : i \in 1..(m + 2))
      /\ (\A i \in 1..m : i \in 1..(m + 2) /\ i \in 1..k) /\ k \in 1..(m + 2) /\ m + 2 \in 1..(m + 2) /\ k \in 1..k
  OBVIOUS
<1>4. p \in Seq(Texts) /\ Len(p) = m /\ \A i \in 1..m : p[i] = s[i]
  BY <1>2, <1>3, FirstIs
<1>5. r \in Seq(Texts) /\ Len(r) = k /\ \A i \in 1..k : r[i] = s[i]
  BY <1>2, <1>3, FirstIs
<1>6. b = Join(p, t)
  BY MavenPathIs
<1>7. b \in Texts
  <2>1. Len(p) \in Nat \ {0}
    <3> HIDE DEF p
    <3> QED BY <1>3, <1>4
  <2> HIDE DEF p, b
  <2> QED BY <1>1, <1>4, <1>6, <2>1, JoinIsText
<1> HIDE DEF t, p, r, b, k
<1>8. Join(r, t) = Join(p, t) \o (<<t>> \o r[m + 1])
  <2>1. Len(r) = m + 1 /\ \A i \in 1..m : p[i] = r[i]
    BY <1>3, <1>4, <1>5 DEF k
  <2> QED BY <1>1, <1>3, <1>4, <1>5, <2>1, JoinMore
<1>9. Join(s, t) = Join(r, t) \o (<<t>> \o s[k + 1])
  <2>1. Len(s) = k + 1
    BY <1>3
  <2> QED BY <1>1, <1>3, <1>5, <2>1, JoinMore
<1>10. r[m + 1] = s[m + 1] /\ s[k + 1] = s[m + 2]
  BY <1>3, <1>5 DEF k
<1> DEFINE c == s[m + 1]
           d == s[m + 2]
<1>11. c \in Texts /\ d \in Texts
  BY <1>2, <1>3 DEF k
<1> HIDE DEF c, d
<1>12. Join(<<b, c, d>>, t) = Join(<<b, c>>, t) \o (<<t>> \o d)
  BY <1>1, <1>7, <1>11, JoinThree
<1>13. Join(<<b, c>>, t) = b \o (<<t>> \o c)
  BY <1>1, <1>7, <1>11, JoinTwo
<1>14. Join(<<b, c, d>>, t) = Join(s, t)
  BY <1>6, <1>8, <1>9, <1>10, <1>12, <1>13 DEF c, d
<1> QED BY <1>14 DEF b, c, d, t

\* Parts that a path may not have.
Dots == {<<>>, <<".">>, <<".", ".">>}

\* A part without a dot is none of those.
LEMMA NoDots ==
  ASSUME NEW x \in Texts, x # <<>>, ~Has(x, ".")
  PROVE  x \notin Dots
<1> DEFINE w == <<".">>
           v == <<".", ".">>
<1>1. "." \in Token
  BY Words
<1>2. w \in Texts /\ Len(w) = 1 /\ w[1] = "." /\ v \in Texts /\ Len(v) = 2 /\ v[1] = "."
  BY <1>1, OneIsSeq, TwoAreSeq DEF Texts
<1>3. 1 \in 1..1 /\ 1 \in 1..2
  OBVIOUS
<1> HIDE DEF w, v
<1>4. Has(w, ".") /\ Has(v, ".")
  BY <1>2, <1>3, HasIs
<1>5. x # w /\ x # v
  BY <1>4
<1> QED BY <1>5 DEF Dots, w, v

\* The parts of a group and an artifact are coordinates and no dots.
LEMMA PartsOfMaven ==
  ASSUME NEW g, NEW a, IsMaven(g, a), NEW p, AppendIs(g, a, p)
  PROVE  /\ p \in Seq(Texts) /\ Len(p) = Len(g) + 1 /\ Len(g) \in Nat \ {0}
         /\ \A i \in 1..Len(p) : /\ p[i] \in Texts /\ Coordinate(p[i]) /\ p[i] \notin Dots
                                 /\ i < Len(p) => Group(p[i])
                                 /\ \A token : token \notin CoordinateTokens => ~Has(p[i], token)
<1> DEFINE m == Len(g)
<1>1. g \in Seq(Texts) /\ m \in Nat \ {0} /\ (\A i \in 1..m : g[i] \in Texts /\ Coordinate(g[i]) /\ Group(g[i]))
      /\ a \in Texts /\ Coordinate(a) /\ a # <<".">> /\ a # <<".", ".">>
  BY ElementOfSeq DEF IsMaven
<1>2. p \in Seq(Texts) /\ Len(p) = m + 1 /\ (\A i \in 1..m : p[i] = g[i]) /\ p[m + 1] = a
  BY DEF AppendIs
<1> HIDE DEF m
<1>3. \A i \in 1..(m + 1) : i \in 1..m \/ i = m + 1
  BY ONLY <1>1
<1>4. ~(m + 1 < m + 1)
  BY ONLY <1>1
<1>5. ASSUME NEW i \in 1..(m + 1)
      PROVE  /\ p[i] \in Texts /\ Coordinate(p[i]) /\ p[i] \notin Dots /\ (i < m + 1 => Group(p[i]))
             /\ \A token : token \notin CoordinateTokens => ~Has(p[i], token)
  <2>1. CASE i \in 1..m
    <3>1. p[i] \in Texts /\ Coordinate(p[i]) /\ Group(p[i])
      BY <1>1, <1>2, <2>1
    <3> QED BY <3>1, CoordinateIs, GroupIs, NoDots
  <2>2. CASE i = m + 1
    <3>1. p[i] = a /\ ~(i < m + 1)
      BY <1>2, <1>4, <2>2
    <3>2. a # <<>> /\ \A token : token \notin CoordinateTokens => ~Has(a, token)
      BY <1>1, CoordinateIs
    <3> QED BY <1>1, <3>1, <3>2 DEF Dots
  <2> QED BY <1>3, <2>1, <2>2
<1> QED BY <1>1, <1>2, <1>5 DEF m

\* What marks an escape.
Escapes == {"%"} \cup DOMAIN Encoded

\* The metadata document of an artifact is a listing of it (server.rs 1122-1145).
LEMMA MavenListing ==
  ASSUME NEW g, NEW a, IsMaven(g, a)
  PROVE  ParseMaven(MavenPath(MavenName(g, a)) \o <<"/", Document>>) = Listing(MavenName(g, a))
<1> DEFINE t == "/"
           f == <<Document>>
           p == Append(g, a)
           q == Append(p, f)
           m == Len(g)
           n == m + 2
           link == Join(q, t)
<1>1. t \in Token /\ Document \in Token /\ Document # t
  BY Words DEF Document
<1>2. f \in Texts /\ Len(f) = 1 /\ f[1] = Document
  BY <1>1, TokenText
<1>3. AppendIs(g, a, p)
  <2>1. g \in Seq(Texts) /\ a \in Texts
    BY DEF IsMaven
  <2> QED BY <2>1, AppendMore
<1>4. /\ p \in Seq(Texts) /\ Len(p) = m + 1 /\ m \in Nat \ {0}
      /\ \A i \in 1..(m + 1) : /\ p[i] \in Texts /\ Coordinate(p[i]) /\ p[i] \notin Dots
                               /\ i < m + 1 => Group(p[i])
                               /\ \A token : token \notin CoordinateTokens => ~Has(p[i], token)
  BY <1>3, PartsOfMaven
<1> HIDE DEF f, p
<1>5. AppendIs(p, f, q)
  BY <1>2, <1>4, AppendMore
<1> HIDE DEF m, q
<1>6. /\ q \in Seq(Texts) /\ Len(q) = m + 2 /\ q[m + 2] = f /\ \A i \in 1..(m + 1) : q[i] = p[i]
  <2>1. q \in Seq(Texts) /\ Len(q) = Len(p) + 1 /\ q[Len(p) + 1] = f /\ \A i \in 1..Len(p) : q[i] = p[i]
    BY <1>5 DEF AppendIs
  <2>2. (m + 1) + 1 = m + 2
    BY ONLY <1>4
  <2> QED BY <1>4, <2>1, <2>2
<1>7. /\ \A i \in 1..(m + 2) : i \in 1..(m + 1) \/ i = m + 2
      /\ m + 2 \in 1..(m + 2) /\ m + 2 \in Nat /\ m + 2 > 2 /\ (m + 2) - 1 = m + 1 /\ (m + 2) - 2 = m
      /\ m + 1 \in 1..(m + 1)
      /\ \A i \in 1..m : i \in 1..(m + 1)
      /\ m + 2 \in Nat \ {0}
      /\ m + 1 \in Nat \ {0}
  BY ONLY <1>4
<1>8. \A i \in 1..(m + 2) : \A token : token \notin CoordinateTokens => ~Has(q[i], token)
  <2>1. \A token : token \notin CoordinateTokens => ~Has(f, token)
    <3> SUFFICES ASSUME NEW token, token \notin CoordinateTokens PROVE ~Has(f, token)
      OBVIOUS
    <3>1. token # Document
      BY DEF CoordinateTokens
    <3> QED BY <1>1, <3>1, OneHas DEF f
  <2>2. \A i \in 1..(m + 1) : \A token : token \notin CoordinateTokens => ~Has(q[i], token)
    BY <1>4, <1>6
  <2> QED BY <1>6, <1>7, <2>1, <2>2
<1>9. link \in Texts /\ Split(link, t) = q
  <2>1. \A i \in 1..(m + 2) : ~Has(q[i], t)
    BY <1>8, NotInCoordinates
  <2> HIDE DEF t
  <2> QED BY <1>1, <1>6, <1>7, <2>1, JoinIsText, SplitJoin
<1>10. ~Escaped(link)
  <2>1. ASSUME NEW token \in Escapes PROVE ~Has(link, token)
    <3>1. token \notin CoordinateTokens /\ token # t
      BY <2>1, NotInCoordinates DEF Escapes, Encoded
    <3>2. \A i \in 1..(m + 2) : ~Has(q[i], token)
      BY <1>8, <3>1
    <3> HIDE DEF t
    <3> QED BY <1>1, <1>6, <1>7, <3>1, <3>2, HasJoin
  <2> QED BY <2>1 DEF Escaped, Has, Escapes
<1>11. MavenPath(MavenName(g, a)) \o <<"/", Document>> = link
  <2>1. MavenPath(MavenName(g, a)) = Join(p, t)
    BY <1>3, MavenPathIs
  <2>2. Join(q, t) = Join(p, t) \o (<<t>> \o f)
    <3> HIDE DEF t
    <3> QED BY <1>1, <1>2, <1>4, <1>5, <1>7, JoinAppend
  <2>3. <<"/", Document>> = <<t>> \o f
    BY <1>1, OneAndOne DEF f
  <2> HIDE DEF t
  <2> QED BY <2>1, <2>2, <2>3
<1>12. Ends(link, f)
  <2> DEFINE y == Join(p, t) \o <<t>>
  <2>1. Join(p, t) \in Texts
    <3> HIDE DEF t
    <3> QED BY <1>1, <1>4, <1>7, JoinIsText
  <2>2. <<t>> \in Texts
    BY <1>1, TokenText
  <2>3. y \in Texts
    BY <2>1, <2>2, ConcatIs
  <2>4. link = y \o f
    <3>1. Join(q, t) = Join(p, t) \o (<<t>> \o f)
      <4> HIDE DEF t
      <4> QED BY <1>1, <1>2, <1>4, <1>5, <1>7, JoinAppend
    <3>2. y \o f = Join(p, t) \o (<<t>> \o f)
      <4> HIDE DEF t
      <4> QED BY <1>2, <2>1, <2>2, ConcatTexts
    <3> QED BY <3>1, <3>2
  <2> HIDE DEF y, link
  <2> QED BY <1>2, <2>3, <2>4, EndsWith
<1>13. MavenDocument(link) = link
  <2>1. link[Len(link)] = Document
    <3> DEFINE b == Join(p, t)
               w == <<t>> \o f
    <3>1. b \in Texts
      <4> HIDE DEF t
      <4> QED BY <1>1, <1>4, <1>7, JoinIsText
    <3>2. link = b \o (<<t>> \o f)
      <4> HIDE DEF t
      <4> QED BY <1>1, <1>2, <1>4, <1>5, <1>7, JoinAppend
    <3> HIDE DEF b, link, t
    <3>3. Len(link) = Len(b) + 1 + Len(f) /\ \A i \in 1..Len(f) : link[Len(b) + 1 + i] = f[i]
      <4>1. f \in Texts /\ t \in Token
        BY <1>1, <1>2
      <4> DEFINE x == b \o (<<t>> \o f)
      <4>2. Len(x) = Len(b) + 1 + Len(f) /\ \A i \in 1..Len(f) : x[Len(b) + 1 + i] = f[i]
        <5> HIDE DEF f
        <5> QED BY <3>1, <4>1, Framed
      <4>3. link = x
        BY <3>2
      <4> HIDE DEF x, f
      <4> QED BY <4>2, <4>3
    <3>4. 1 \in 1..Len(f)
      BY <1>2
    <3> QED BY <1>2, <3>3, <3>4
  <2>2. Document \notin Checksums
    BY DEF Document, Checksums
  <2> HIDE DEF link
  <2> QED BY <2>1, <2>2 DEF MavenDocument
<1>14. SubSeq(q, 1, m) = g
  <2>1. g \in Seq(Texts)
    BY DEF IsMaven
  <2>2. \A i \in 1..m : q[i] = g[i] /\ g[i] \in Texts
    <3>1. \A i \in 1..m : p[i] = g[i]
      BY <1>3 DEF AppendIs, m
    <3> QED BY <1>6, <1>7, <2>1, <3>1, ElementOfSeq DEF m
  <2>3. 1 \in Int /\ m \in Int /\ 1 <= m /\ m - 1 + 1 = m /\ \A i \in 1..m : 1 + i - 1 = i
    BY ONLY <1>4
  <2> DEFINE x == SubSeq(q, 1, m)
  <2>4. x \in Seq(Texts) /\ Len(x) = (IF 1 <= m THEN m - 1 + 1 ELSE 0)
        /\ \A i \in 1..(m - 1 + 1) : x[i] = q[1 + i - 1]
    BY <2>2, <2>3, SubSeqProperties
  <2> HIDE DEF x
  <2>5. Len(x) = m /\ \A i \in 1..m : x[i] = q[i]
    BY <2>3, <2>4
  <2>6. x = g
    BY <2>1, <2>2, <2>4, <2>5, SeqEqual DEF m
  <2> QED BY <2>6 DEF x
<1>15. q[m + 1] = a
  BY <1>3, <1>6, <1>7 DEF AppendIs, m
<1>16. /\ \A i \in 1..(m + 2) : q[i] \notin Dots
       /\ \A i \in 1..(m + 1) : Coordinate(q[i]) /\ (i < m + 1 => Group(q[i]))
  <2>1. \A i \in 1..(m + 1) : q[i] \notin Dots /\ Coordinate(q[i]) /\ (i < m + 1 => Group(q[i]))
    BY <1>4, <1>6
  <2>2. f \notin Dots
    <3>1. f[1] # "."
      BY <1>2 DEF Document
    <3>2. Document # "."
      BY DEF Document
    <3>3. f # <<>>
      BY <1>2, EmptySeq
    <3>4. ~Has(f, ".")
      BY <1>1, <3>2, OneHas DEF f
    <3> QED BY <1>2, <3>3, <3>4, NoDots
  <2> QED BY <1>6, <1>7, <2>1, <2>2
<1> DEFINE s == Split(link, "/")
           d == Split(MavenDocument(link), "/")
<1>17. s = q /\ d = q
  BY <1>9, <1>13
<1>18. Len(s) = m + 2 /\ Last(d) = f
  BY <1>6, <1>17 DEF Last
<1> HIDE DEF link, t, s, d
<1>19. ParseMaven(link) = Listing(MavenName(SubSeq(d, 1, Len(s) - 2), d[Len(s) - 1]))
  <2>1. ~(Escaped(link) \/ \E i \in 1..Len(s) : s[i] \in {<<>>, <<".">>, <<".", ".">>})
    BY <1>10, <1>16, <1>17, <1>18 DEF Dots
  <2>2. /\ Len(s) > 2 /\ Last(d) = <<Document>>
        /\ \A i \in 1..Len(s) - 1 : Coordinate(s[i]) /\ (i < Len(s) - 1 => Group(s[i]))
    BY <1>7, <1>16, <1>17, <1>18 DEF f
  <2>3. Ends(MavenDocument(link), <<Document>>)
    BY <1>12, <1>13 DEF f
  <2> QED BY <2>1, <2>2, <2>3 DEF ParseMaven, s, d
<1>20. ParseMaven(link) = Listing(MavenName(g, a))
  BY <1>7, <1>14, <1>15, <1>17, <1>18, <1>19
<1> QED BY <1>11, <1>20

\* The first parts of a path are those of a group and an artifact.
LEMMA MavenDirectory ==
  ASSUME NEW text \in Texts, NEW m \in Nat, m >= 1,
         LET s == Split(text, "/")
         IN Len(s) > m + 1 /\ s[m + 1] \notin Dots /\ Coordinate(s[m + 1])
            /\ \A i \in 1..m : Coordinate(s[i]) /\ Group(s[i]),
         NEW d \in Seq(Texts), \A i \in 1..(m + 1) : d[i] = Split(text, "/")[i]
  PROVE  /\ IsMaven(SubSeq(d, 1, m), d[m + 1])
         /\ AppendIs(SubSeq(d, 1, m), d[m + 1], First(d, m + 1))
<1> DEFINE s == Split(text, "/")
           g == SubSeq(d, 1, m)
           f == First(d, m + 1)
<1>1. s \in Seq(Texts) /\ Len(s) \in Nat /\ \A k \in 1..Len(s) : s[k] \in Texts
  BY SplitParts
<1>2. /\ Len(s) > m + 1 /\ s[m + 1] \notin Dots /\ Coordinate(s[m + 1])
      /\ (\A i \in 1..m : Coordinate(s[i]) /\ Group(s[i]))
      /\ \A i \in 1..(m + 1) : d[i] = s[i]
  OBVIOUS
<1> HIDE DEF s
<1>3. /\ \A i \in 1..(m + 1) : i \in 1..Len(s)
      /\ m + 1 \in 1..(m + 1) /\ m + 1 \in Nat /\ (\A i \in 1..m : i \in 1..(m + 1) /\ 1 + i - 1 = i)
      /\ m - 1 + 1 = m /\ m \in Nat \ {0} /\ 1 \in Int /\ m \in Int /\ 1 <= m
  <2>1. Len(s) > m + 1 /\ Len(s) \in Nat /\ m \in Nat /\ m >= 1
    BY <1>1, <1>2
  <2> QED BY ONLY <2>1
<1>4. \A i \in 1..(m + 1) : d[i] \in Texts
  BY <1>1, <1>2, <1>3
<1>5. g \in Seq(Texts) /\ Len(g) = m /\ \A i \in 1..m : g[i] = d[i]
  <2>1. \A i \in 1..m : d[i] \in Texts
    BY <1>3, <1>4
  <2>2. g \in Seq(Texts) /\ Len(g) = (IF 1 <= m THEN m - 1 + 1 ELSE 0)
        /\ \A i \in 1..(m - 1 + 1) : g[i] = d[1 + i - 1]
    BY <1>3, <2>1, SubSeqProperties
  <2> HIDE DEF g
  <2> QED BY <1>3, <2>2
<1>6. f \in Seq(Texts) /\ Len(f) = m + 1 /\ \A i \in 1..(m + 1) : f[i] = d[i]
  BY <1>3, <1>4, FirstIs
<1> HIDE DEF g, f
<1>7. AppendIs(g, d[m + 1], f)
  BY <1>3, <1>5, <1>6 DEF AppendIs
<1>8. IsMaven(g, d[m + 1])
  <2>1. \A i \in 1..m : Coordinate(g[i]) /\ Group(g[i])
    BY <1>2, <1>3, <1>5
  <2>2. d[m + 1] \in Texts /\ Coordinate(d[m + 1]) /\ d[m + 1] # <<".">> /\ d[m + 1] # <<".", ".">>
    BY <1>2, <1>3, <1>4 DEF Dots
  <2> QED BY <1>3, <1>5, <2>1, <2>2 DEF IsMaven
<1> QED BY <1>7, <1>8 DEF g, f

\* Whatever path names an artifact, its metadata document and the link of its file name the
\* same (server.rs 1122-1153, maven.rs 815-864).
LEMMA MavenAgrees ==
  ASSUME NEW text \in Texts, NEW route, route = ParseMaven(text), route.to # "none"
  PROVE  /\ route.name \in Texts /\ route.version \in Texts
         /\ ParseMaven(MavenPath(route.name) \o <<"/", Document>>) = Listing(route.name)
         /\ route.to = "artifact" =>
              ParseMaven(Join(<<MavenPath(route.name), route.version, route.file>>, "/")) = route
<1> DEFINE s == Split(text, "/")
           n == Len(s)
           document == MavenDocument(text)
           d == Split(document, "/")
           A == Listing(MavenName(SubSeq(d, 1, n - 2), d[n - 1]))
           B == Delivery(MavenName(SubSeq(s, 1, n - 3), s[n - 2]), s[n - 1], s[n])
           bad == Escaped(text) \/ \E i \in 1..n : s[i] \in Dots
           lists == /\ n > 2 /\ Last(d) = <<Document>>
                    /\ \A i \in 1..n - 1 : Coordinate(s[i]) /\ (i < n - 1 => Group(s[i]))
           delivers == ~Ends(document, <<Document>>) /\ MavenRelease(s)
<1>1. route = IF bad THEN NoRoute ELSE CASE lists -> A [] delivers -> B [] OTHER -> NoRoute
  BY Zenon DEF ParseMaven, Dots
<1>2. s \in Seq(Texts) /\ n \in Nat /\ \A k \in 1..n : s[k] \in Texts /\ ~Has(s[k], "/")
  BY SplitParts
<1>3. document \in Texts /\ d \in Seq(Texts) /\ Len(d) = n /\ \A i \in 1..(n - 1) : d[i] = s[i]
  <2>1. PICK e, w \in Texts : document = e /\ text = e \o w
    BY DocumentIs
  <2>2. document \in Texts
    BY <2>1
  <2> HIDE DEF document
  <2> QED BY <2>2, SplitParts, DocumentParts DEF document
<1> HIDE DEF s, n, d, document
<1>4. NoRoute.to = "none"
  BY DEF NoRoute
<1>5. CASE ~bad /\ lists /\ route = A
  <2> DEFINE m == n - 2
             g == SubSeq(d, 1, m)
             a == d[m + 1]
  <2>1. n > 2
    BY <1>5
  <2>2. /\ m \in Nat /\ m >= 1 /\ m + 1 = n - 1 /\ n > m + 1 /\ \A i \in 1..m : i \in 1..(n - 1) /\ i < n - 1
        /\ n - 1 \in 1..(n - 1) /\ n - 1 \in 1..n
    BY ONLY <1>2, <2>1
  <2> HIDE DEF m
  <2>3. /\ s[m + 1] \notin Dots /\ Coordinate(s[m + 1])
        /\ \A i \in 1..m : Coordinate(s[i]) /\ Group(s[i])
    BY <1>5, <2>2
  <2>4. \A i \in 1..(m + 1) : d[i] = s[i]
    BY <1>3, <2>2
  <2>5. IsMaven(g, a) /\ AppendIs(g, a, First(d, m + 1))
    <3>1. Len(s) > m + 1
      BY <2>2 DEF n
    <3> QED BY <1>3, <2>2, <2>3, <2>4, <3>1, MavenDirectory DEF s
  <2>6. MavenName(g, a) \in Texts
    BY <2>5, MavenPathIs
  <2>7. ParseMaven(MavenPath(MavenName(g, a)) \o <<"/", Document>>) = Listing(MavenName(g, a))
    BY <2>5, MavenListing
  <2>8. route = Listing(MavenName(g, a))
    <3>1. a = d[n - 1]
      BY <2>2
    <3> QED BY <1>5, <3>1 DEF m
  <2> HIDE DEF g, a
  <2>9. route.name = MavenName(g, a) /\ route.version = <<>> /\ route.to = "listing"
    BY <2>8 DEF Listing
  <2> QED BY <2>6, <2>7, <2>9, NothingHas
<1>6. CASE ~bad /\ delivers /\ route = B
  <2> DEFINE m == n - 2
             k == n - 3
             g == SubSeq(s, 1, k)
             a == s[k + 1]
  <2>0. n >= 4 /\ (\A i \in 1..n : Coordinate(s[i])) /\ \A i \in 1..n - 3 : Group(s[i])
    BY <1>6, Zenon DEF MavenRelease, n
  <2>1. n >= 4
    BY <2>0
  <2>2. /\ k \in Nat /\ k >= 1 /\ k + 1 = n - 2 /\ k + 1 = m /\ n > k + 1 /\ \A i \in 1..k : i \in 1..(n - 3) /\ i \in 1..n
        /\ k + 1 \in 1..n /\ m \in Nat /\ m >= 2 /\ n = m + 2 /\ m + 1 = n - 1 /\ n - 1 \in 1..n /\ n \in 1..n
    BY ONLY <1>2, <2>1
  <2> HIDE DEF m, k
  <2>3. /\ s[k + 1] \notin Dots /\ Coordinate(s[k + 1])
        /\ \A i \in 1..k : Coordinate(s[i]) /\ Group(s[i])
    BY <1>6, <2>0, <2>2
  <2>5. IsMaven(g, a) /\ AppendIs(g, a, First(s, k + 1))
    <3>1. Len(s) > k + 1
      BY <2>2 DEF n
    <3> QED BY <1>2, <2>2, <2>3, <3>1, MavenDirectory DEF s
  <2>6. MavenName(g, a) \in Texts
    BY <2>5, MavenPathIs
  <2>7. ParseMaven(MavenPath(MavenName(g, a)) \o <<"/", Document>>) = Listing(MavenName(g, a))
    BY <2>5, MavenListing
  <2>8. route = Delivery(MavenName(g, a), s[m + 1], s[m + 2])
    <3>1. a = s[n - 2] /\ s[m + 1] = s[n - 1] /\ s[m + 2] = s[n]
      BY <2>2
    <3> QED BY <1>6, <3>1 DEF k
  <2>9. Join(<<MavenPath(MavenName(g, a)), s[m + 1], s[m + 2]>>, "/") = Join(s, "/")
    <3>1. Len(s) = m + 2
      BY <2>2 DEF n
    <3>2. AppendIs(g, a, First(s, m))
      BY <2>2, <2>5
    <3> HIDE DEF g, a
    <3> QED BY <1>2, <2>2, <2>5, <3>1, <3>2, MavenFile
  <2>10. Join(s, "/") = text
    BY Words, JoinSplit DEF s
  <2>11. s[m + 1] \in Texts
    BY <1>2, <2>2
  <2> HIDE DEF g, a, delivers
  <2>12. route.name = MavenName(g, a) /\ route.version = s[m + 1] /\ route.file = s[m + 2]
    BY <2>8 DEF Delivery
  <2> QED BY <2>6, <2>7, <2>9, <2>10, <2>11, <2>12
<1>7. ~bad /\ ((lists /\ route = A) \/ (delivers /\ route = B))
  <2>1. ~(lists /\ delivers)
    <3> SUFFICES ASSUME n > 2, Last(d) = <<Document>> PROVE Ends(document, <<Document>>)
      OBVIOUS
    <3> DEFINE m == n - 1
               t == "/"
               p == First(d, m)
               f == <<Document>>
               y == Join(p, t) \o <<t>>
    <3>1. m \in Nat /\ m >= 1 /\ m + 1 = n /\ m \in Nat \ {0} /\ \A i \in 1..m : i \in 1..n
      BY ONLY <1>2, n > 2
    <3>2. t \in Token /\ f \in Texts /\ <<t>> \in Texts
      <4>1. t \in Token /\ Document \in Token
        BY Words DEF Document
      <4> QED BY <4>1, TokenText
    <3> HIDE DEF m, f
    <3>3. \A i \in 1..m : d[i] \in Texts
      BY <1>3, <3>1, ElementOfSeq
    <3>4. p \in Seq(Texts) /\ Len(p) = m /\ \A i \in 1..m : p[i] = d[i]
      BY <3>1, <3>3, FirstIs
    <3> HIDE DEF p
    <3>5. d[m + 1] = f
      BY <1>3, <3>1 DEF Last, f
    <3>6. document = Join(d, t)
      <4> HIDE DEF t
      <4>1. Join(Split(document, t), t) = document
        BY <1>3, <3>2, JoinSplit
      <4> QED BY <4>1 DEF d, t
    <3> HIDE DEF t
    <3>7. Join(d, t) = Join(p, t) \o (<<t>> \o d[m + 1])
      <4>1. Len(d) = m + 1
        BY <1>3, <3>1
      <4> QED BY <1>3, <3>1, <3>2, <3>4, <4>1, JoinMore
    <3>8. Join(p, t) \in Texts
      BY <3>1, <3>2, <3>4, JoinIsText
    <3>9. y \in Texts /\ y \o f = Join(p, t) \o (<<t>> \o f)
      BY <3>2, <3>8, ConcatIs, ConcatTexts
    <3>10. Ends(y \o f, f)
      <4> HIDE DEF y
      <4> QED BY <3>2, <3>9, EndsWith
    <3> QED BY <3>5, <3>6, <3>7, <3>9, <3>10 DEF f
  <2> HIDE DEF bad, lists, delivers, A, B
  <2> QED BY <1>1, <1>4, <2>1
<1> QED BY <1>5, <1>6, <1>7

-----------------------------------------------------------------------------
(* All registries. *)

\* A request path of a registry.
Path(registry, text) == [registry |-> registry, text |-> text]

\* What is proved of each registry's routes.
Agreed(registry, route) ==
  /\ route.name \in Texts /\ route.version \in Texts
  /\ NormalizeName(registry, route.name) = route.name
  /\ route.version # <<>> => NormalizeVersion(registry, route.version) = route.version
  /\ route.name # <<>> => Dispatch(Path(registry, ListingLink(registry, route.name))) = Listing(route.name)
  /\ route.to = "artifact" => Dispatch(Path(registry, DownloadLink(registry, route))) = route

\* A path that leads to a package, with a name and files that its registry allows.
Routed(registry, text, route) ==
  /\ text \in Texts /\ route = Dispatch(Path(registry, text)) /\ route.to # "none"
  /\ Legal(registry, route.name) /\ LegalFile(route.version) /\ LegalFile(route.file)

\* What is proved of the registries holds of npm (server.rs 1300-1336).
LEMMA NpmRoutes ==
  ASSUME NEW text, NEW route, Routed("npm", text, route)
  PROVE  Agreed("npm", route)
<1>1. \A x : Dispatch(Path("npm", x)) = ParseNpm(x)
  BY DEF Dispatch, Path
<1>2. text \in Texts /\ route = ParseNpm(text) /\ route.to # "none" /\ Legal("npm", route.name)
      /\ LegalFile(route.file)
  BY <1>1 DEF Routed
<1>3. /\ route.name \in Texts /\ route.version = <<>>
      /\ ParseNpm(route.name) = Listing(route.name)
      /\ route.to = "artifact" => ParseNpm(route.name \o <<"/", "-", "/">> \o route.file) = route
  BY <1>2, NpmAgrees
<1>4. \A x : NormalizeName("npm", x) = x /\ ListingLink("npm", x) = x
  BY DEF NormalizeName, ListingLink
<1>5. DownloadLink("npm", route) = route.name \o <<"/", "-", "/">> \o route.file
  BY DEF DownloadLink
<1> QED BY <1>1, <1>3, <1>4, <1>5, NothingHas DEF Agreed

\* And of PyPI (server.rs 1265-1298).
LEMMA PypiRoutes ==
  ASSUME NEW text, NEW route, Routed("pypi", text, route)
  PROVE  Agreed("pypi", route)
<1>1. \A x : Dispatch(Path("pypi", x)) = ParsePypi(x)
  BY DEF Dispatch, Path
<1>2. text \in Texts /\ route = ParsePypi(text) /\ route.to # "none" /\ Plain(route.name)
      /\ LegalFile(route.version) /\ LegalFile(route.file)
  BY <1>1 DEF Routed, Legal
<1>3. /\ IsProject(route.name) /\ route.version \in Texts
      /\ ParsePypi(<<"simple", "/">> \o route.name \o <<"/">>) = Listing(route.name)
      /\ route.to = "artifact" =>
           ParsePypi(Join(<<<<"packages">>, route.name, route.version, route.file>>, "/")) = route
  BY <1>2, PypiAgrees
<1>4. \A x : /\ NormalizeName("pypi", x) = NormalizePypi(x) /\ NormalizeVersion("pypi", x) = x
             /\ ListingLink("pypi", x) = <<"simple", "/">> \o x \o <<"/">>
  BY DEF NormalizeName, ListingLink, NormalizeVersion
<1>5. DownloadLink("pypi", route) = Join(<<<<"packages">>, route.name, route.version, route.file>>, "/")
  BY DEF DownloadLink
<1>6. route.name \in Texts /\ NormalizePypi(route.name) = route.name
  BY <1>3 DEF IsProject
<1> QED BY <1>1, <1>3, <1>4, <1>5, <1>6 DEF Agreed

\* And of RubyGems (server.rs 1155-1174).
LEMMA RubygemsRoutes ==
  ASSUME NEW text, NEW route, Routed("rubygems", text, route)
  PROVE  Agreed("rubygems", route)
<1>1. \A x : Dispatch(Path("rubygems", x)) = ParseRubygems(x)
  BY DEF Dispatch, Path
<1>2. text \in Texts /\ route = ParseRubygems(text) /\ route.to # "none" /\ LegalFile(route.file)
  BY <1>1 DEF Routed
<1>3. /\ route.name \in Texts /\ route.version = <<>>
      /\ route.name # <<>> => ParseRubygems(<<"info", "/">> \o route.name) = Listing(route.name)
      /\ route.to = "artifact" => ParseRubygems(<<"gems", "/">> \o route.file) = route
  BY <1>2, RubygemsAgrees
<1>4. \A x : NormalizeName("rubygems", x) = x /\ ListingLink("rubygems", x) = <<"info", "/">> \o x
  BY DEF NormalizeName, ListingLink
<1>5. DownloadLink("rubygems", route) = <<"gems", "/">> \o route.file
  BY DEF DownloadLink
<1> QED BY <1>1, <1>3, <1>4, <1>5, NothingHas DEF Agreed

\* And of NuGet (server.rs 1176-1235).
LEMMA NugetRoutes ==
  ASSUME NEW text, NEW route, Routed("nuget", text, route)
  PROVE  Agreed("nuget", route)
<1>1. \A x : Dispatch(Path("nuget", x)) = ParseNuget(x)
  BY DEF Dispatch, Path
<1>2. text \in Texts /\ route = ParseNuget(text) /\ route.to # "none" /\ Plain(route.name)
  BY <1>1 DEF Routed, Legal
<1>3. /\ IsPackage(route.name) /\ route.version \in Texts
      /\ ParseNuget(<<"registration", "/">> \o route.name \o <<"/", "index", ".", "json">>)
           = Listing(route.name)
      /\ route.to = "artifact" =>
           ParseNuget(Join(<<<<"flatcontainer">>, route.name, route.version, route.file>>, "/")) = route
      /\ route.version # <<>> => NormalizeNuget(route.version) = route.version
  BY <1>2, NugetAgrees
<1>4. \A x : /\ NormalizeName("nuget", x) = Lower(x) /\ NormalizeVersion("nuget", x) = NormalizeNuget(x)
             /\ ListingLink("nuget", x) = <<"registration", "/">> \o x \o <<"/", "index", ".", "json">>
  BY DEF NormalizeName, ListingLink, NormalizeVersion
<1>5. DownloadLink("nuget", route) = Join(<<<<"flatcontainer">>, route.name, route.version, route.file>>, "/")
  BY DEF DownloadLink
<1>6. route.name \in Texts /\ Lower(route.name) = route.name
  BY <1>3 DEF IsPackage
<1> QED BY <1>1, <1>3, <1>4, <1>5, <1>6 DEF Agreed

\* And of Go (go.rs 434-459).
LEMMA GoRoutes ==
  ASSUME NEW text, NEW route, Routed("go", text, route)
  PROVE  Agreed("go", route)
<1>1. \A x : Dispatch(Path("go", x)) = ParseGo(x)
  BY DEF Dispatch, Path
<1>2. text \in Texts /\ route = ParseGo(text) /\ route.to # "none" /\ Legal("go", route.name)
      /\ LegalFile(route.version)
  BY <1>1 DEF Routed
<1>3. /\ route.name \in Texts /\ route.version \in Texts
      /\ ParseGo(GoEscape(route.name) \o <<"/", "@", "v", "/", "list">>) = Listing(route.name)
      /\ route.to = "artifact" =>
           ParseGo(GoEscape(route.name) \o <<"/", "@", "v", "/">> \o route.version \o <<".">> \o route.file)
             = route
  BY <1>2, GoAgrees
<1>4. \A x : /\ NormalizeName("go", x) = x /\ NormalizeVersion("go", x) = x
             /\ ListingLink("go", x) = GoEscape(x) \o <<"/", "@", "v", "/", "list">>
  BY DEF NormalizeName, ListingLink, NormalizeVersion
<1>5. DownloadLink("go", route)
        = GoEscape(route.name) \o <<"/", "@", "v", "/">> \o route.version \o <<".">> \o route.file
  BY DEF DownloadLink
<1> QED BY <1>1, <1>3, <1>4, <1>5 DEF Agreed

\* And of Cargo (server.rs 1243-1263).
LEMMA CargoRoutes ==
  ASSUME NEW text, NEW route, Routed("cargo", text, route)
  PROVE  Agreed("cargo", route)
<1>1. \A x : Dispatch(Path("cargo", x)) = ParseCargo(x)
  BY DEF Dispatch, Path
<1>2. text \in Texts /\ route = ParseCargo(text) /\ route.to # "none"
  BY <1>1 DEF Routed
<1>3. /\ IsCrate(route.name) /\ route.version \in Texts
      /\ ParseCargo(SparsePath(route.name)) = Listing(route.name)
      /\ route.to = "artifact" =>
           ParseCargo(Join(<<<<"crates">>, route.name, route.version, <<"download">>>>, "/")) = route
  BY <1>2, CargoAgrees
<1>4. \A x : /\ NormalizeName("cargo", x) = Lower(x) /\ NormalizeVersion("cargo", x) = x
             /\ ListingLink("cargo", x) = SparsePath(x)
  BY DEF NormalizeName, ListingLink, NormalizeVersion
<1>5. DownloadLink("cargo", route) = Join(<<<<"crates">>, route.name, route.version, <<"download">>>>, "/")
  BY DEF DownloadLink
<1>6. route.name \in Texts /\ Lower(route.name) = route.name
  BY <1>3 DEF IsCrate
<1> QED BY <1>1, <1>3, <1>4, <1>5, <1>6 DEF Agreed

\* And of Maven (server.rs 1122-1153).
LEMMA MavenRoutes ==
  ASSUME NEW text, NEW route, Routed("maven", text, route)
  PROVE  Agreed("maven", route)
<1>1. \A x : Dispatch(Path("maven", x)) = ParseMaven(x)
  BY DEF Dispatch, Path
<1>2. text \in Texts /\ route = ParseMaven(text) /\ route.to # "none"
  BY <1>1 DEF Routed
<1>3. /\ route.name \in Texts /\ route.version \in Texts
      /\ ParseMaven(MavenPath(route.name) \o <<"/", Document>>) = Listing(route.name)
      /\ route.to = "artifact" =>
           ParseMaven(Join(<<MavenPath(route.name), route.version, route.file>>, "/")) = route
  BY <1>2, MavenAgrees
<1>4. \A x : /\ NormalizeName("maven", x) = x /\ NormalizeVersion("maven", x) = x
             /\ ListingLink("maven", x) = MavenPath(x) \o <<"/", Document>>
  BY DEF NormalizeName, ListingLink, NormalizeVersion
<1>5. DownloadLink("maven", route) = Join(<<MavenPath(route.name), route.version, route.file>>, "/")
  BY DEF DownloadLink
<1> QED BY <1>1, <1>3, <1>4, <1>5 DEF Agreed

\* So of every path that route_http_request_with_clients takes (server.rs 780-1059).
LEMMA RoutesAgreed ==
  ASSUME NEW registry \in Registries, NEW text, NEW route, Routed(registry, text, route)
  PROVE  Agreed(registry, route)
BY NpmRoutes, PypiRoutes, RubygemsRoutes, NugetRoutes, GoRoutes, CargoRoutes, MavenRoutes DEF Registries

\* The version that a check is asked for is not taken apart.
LEMMA CheckedVersion ==
  ASSUME NEW registry, NEW version \in Texts, LegalFile(version),
         version # <<>> => NormalizeVersion(registry, version) = version
  PROVE  LET v == IF version = <<>> THEN NormalizeVersion(registry, <<"1">>) ELSE version
         IN v \in Texts /\ ~Has(v, "@") /\ NormalizeVersion(registry, v) = v
<1> DEFINE one == <<"1">>
           v == IF version = <<>> THEN NormalizeVersion(registry, one) ELSE version
<1>1. one \in Texts /\ ~Has(one, "@")
  <2>1. "1" \in Token
    BY Words
  <2> QED BY <2>1, OneHas
<1> HIDE DEF one
<1>2. CASE version # <<>>
  <2>1. v = version
    BY <1>2
  <2>2. ~Has(version, "@")
    BY LegalIsWritable, WritableIs, NotWritable
  <2> QED BY <1>2, <2>1, <2>2 DEF one
<1>3. CASE version = <<>> /\ registry = "nuget"
  <2>1. \A x : NormalizeVersion(registry, x) = NormalizeNuget(x)
    BY <1>3 DEF NormalizeVersion
  <2>2. v = NormalizeNuget(one)
    BY <1>3, <2>1
  <2>3. v \in Texts /\ ~Has(v, "@") /\ NormalizeNuget(v) = v
    <3>1. NormalizeNuget(one) \in Texts /\ ~Has(NormalizeNuget(one), "@")
          /\ NormalizeNuget(NormalizeNuget(one)) = NormalizeNuget(one)
      BY <1>1, NugetVersionStays
    <3> HIDE DEF v
    <3> QED BY <2>2, <3>1
  <2> QED BY <2>1, <2>3 DEF one
<1>4. CASE version = <<>> /\ registry # "nuget"
  <2>1. \A x : NormalizeVersion(registry, x) = x
    BY <1>4 DEF NormalizeVersion
  <2>2. v = one
    BY <1>4, <2>1
  <2> QED BY <1>1, <2>1, <2>2 DEF one
<1> QED BY <1>2, <1>3, <1>4

\* What RouteSpec keeps: a path is a text of a registry.
RouteTypes ==
  /\ path = Path(path.registry, path.text)
  /\ path.registry \in DOMAIN Starts /\ path.text \in Texts
  /\ grown \in Nat

\* The texts with which paths begin, and what follows, are tokens.
LEMMA StringsAreTokens ==
  /\ DOMAIN Starts \subseteq Registries
  /\ \A registry \in DOMAIN Starts : Starts[registry] \subseteq Texts /\ Tokens[registry] \subseteq Token
<1>1. STRING \subseteq Token
  BY DEF Token
<1>2. \A x \in Seq(STRING) : x \in Seq(Token)
  <2> SUFFICES ASSUME NEW x \in Seq(STRING) PROVE x \in Seq(Token)
    OBVIOUS
  <2>1. x \in [1..Len(x) -> STRING] /\ Len(x) \in Nat
    BY LenProperties
  <2>2. x \in [1..Len(x) -> Token]
    BY <1>1, <2>1
  <2> QED BY <2>1, <2>2, SeqDef
<1> QED BY <1>1, <1>2, RouteConstants DEF Texts

\* Every path that is asked for is a text of its registry.
LEMMA RouteInvariant == RouteSpec => []RouteTypes
<1>1. RouteInit => RouteTypes
  BY StringsAreTokens DEF RouteInit, Begin, RouteTypes, Path
<1>2. RouteTypes /\ [RouteNext]_routeVars => RouteTypes'
  <2> SUFFICES ASSUME RouteTypes, [RouteNext]_routeVars PROVE RouteTypes'
    OBVIOUS
  <2> DEFINE r == path.registry
             x == path.text
  <2>0. path = Path(r, x) /\ r \in DOMAIN Starts /\ x \in Texts /\ grown \in Nat
    BY DEF RouteTypes
  <2>1. CASE Grow
    <3>1. PICK token \in Tokens[r] : path' = [path EXCEPT !.text = Append(@, token)]
      BY <2>1 DEF Grow
    <3>2. token \in Token
      BY <2>0, StringsAreTokens
    <3>3. Append(x, token) \in Texts
      BY <2>0, <3>2, AppendProperties DEF Texts
    <3>4. path' = Path(r, Append(x, token))
      BY <2>0, <3>1 DEF Path
    <3>5. grown' \in Nat
      BY <2>0, <2>1 DEF Grow
    <3> HIDE DEF r, x
    <3>6. path'.registry = r /\ path'.text = Append(x, token)
      BY <3>4 DEF Path
    <3> QED BY <2>0, <3>3, <3>4, <3>5, <3>6 DEF RouteTypes, r
  <2>2. CASE Another
    <3> DEFINE y == SubSeq(x, 1, Len(x) - grown)
    <3>1. path' = [path EXCEPT !.text = y] /\ grown' = 0
      BY <2>2 DEF Another
    <3>2. y \in Texts
      <4> DEFINE n == Len(x) - grown
      <4>1. n \in Int /\ \A i \in 1..n : i \in 1..Len(x)
        <5>1. Len(x) \in Nat
          BY <2>0, TextLength
        <5> HIDE DEF x
        <5> QED BY <2>0, <5>1
      <4>2. \A i \in 1..n : x[i] \in Token
        BY <2>0, <4>1, TextLength
      <4> HIDE DEF n, x
      <4>3. SubSeq(x, 1, n) \in Seq(Token)
        BY <4>1, <4>2, SubSeqProperties
      <4> QED BY <4>3 DEF n, Texts
    <3> HIDE DEF y
    <3>4. path' = Path(r, y)
      BY <2>0, <3>1 DEF Path
    <3> HIDE DEF r, x
    <3>6. path'.registry = r /\ path'.text = y
      BY <3>4 DEF Path
    <3> QED BY <2>0, <3>1, <3>2, <3>4, <3>6 DEF RouteTypes, r
  <2>3. CASE UNCHANGED routeVars
    BY <2>3 DEF RouteTypes, routeVars
  <2> QED BY <2>1, <2>2, <2>3 DEF RouteNext
<1> QED BY <1>1, <1>2, PTL DEF RouteSpec

\* And of every such text the links lead back, and the check command understands the
\* identity (artifact.rs 133-167).
LEMMA PathsAgree ==
  ASSUME RouteTypes
  PROVE  RoutesAgree
<1> DEFINE registry == path.registry
           route == Dispatch(path)
           name == route.name
           version == IF route.version = <<>> THEN NormalizeVersion(registry, <<"1">>) ELSE route.version
<1> SUFFICES ASSUME route.to # "none", Legal(registry, name), LegalFile(route.version), LegalFile(route.file)
             PROVE  /\ NormalizeName(registry, name) = name
                    /\ name # <<>> => Dispatch(Path(registry, ListingLink(registry, name))) = Listing(name)
                    /\ route.to = "artifact" =>
                         Dispatch(Path(registry, DownloadLink(registry, route))) = route
                    /\ name # <<>> => ParseIdentity(registry, name \o <<"@">> \o version)
                                        = [name |-> name, version |-> version]
  BY Zenon DEF RoutesAgree, LeadsBack, Path
<1>1. path = Path(registry, path.text) /\ registry \in Registries /\ path.text \in Texts
  BY StringsAreTokens DEF RouteTypes
<1>2. Routed(registry, path.text, route)
  BY <1>1 DEF Routed
<1> HIDE DEF registry, route
<1>3. Agreed(registry, route)
  BY <1>1, <1>2, RoutesAgreed
<1>4. version \in Texts /\ ~Has(version, "@") /\ NormalizeVersion(registry, version) = version
  <2> DEFINE v == route.version
  <2>1. v \in Texts /\ LegalFile(v) /\ (v # <<>> => NormalizeVersion(registry, v) = v)
    BY <1>3 DEF Agreed
  <2> HIDE DEF v
  <2>2. LET u == IF v = <<>> THEN NormalizeVersion(registry, <<"1">>) ELSE v
        IN u \in Texts /\ ~Has(u, "@") /\ NormalizeVersion(registry, u) = u
    BY <2>1, CheckedVersion
  <2> QED BY <2>2 DEF v
<1> HIDE DEF version
<1>5. name \in Texts /\ NormalizeName(registry, name) = name
  BY <1>3 DEF Agreed
<1>6. ParseIdentity(registry, name \o <<"@">> \o version) = [name |-> name, version |-> version]
  <2> HIDE DEF name
  <2>1. ParseIdentity(registry, name \o <<"@">> \o version)
          = [name |-> NormalizeName(registry, name), version |-> NormalizeVersion(registry, version)]
    BY <1>4, <1>5, IdentityIs
  <2> QED BY <1>4, <1>5, <2>1
<1>7. /\ name # <<>> => Dispatch(Path(registry, ListingLink(registry, name))) = Listing(name)
      /\ route.to = "artifact" => Dispatch(Path(registry, DownloadLink(registry, route))) = route
  BY <1>3 DEF Agreed
<1> QED BY <1>5, <1>6, <1>7

\* However a client spells a path, of any length, the package it is routed to has its
\* canonical name, the links written for it lead back to the same package, version and
\* file, and parse_package_identity reads the identity as the same (server.rs 1122-1356,
\* artifact.rs 133-167).
THEOREM PathsLeadBack == RouteSpec => []RoutesAgree
<1>1. RouteTypes => RoutesAgree
  BY PathsAgree
<1> QED BY <1>1, RouteInvariant, PTL
=============================================================================
