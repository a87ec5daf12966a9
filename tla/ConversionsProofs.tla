------------------------- MODULE ConversionsProofs -------------------------
(***************************************************************************)
(* Theorems about the parts of Conversions that have no RECURSIVE          *)
(* operator: ReportSum, for all documents, of any length, and any number   *)
(* of stores; MissingColumn, for all files; LocalServer, for all trees     *)
(* and URLs.                                                               *)
(*                                                                         *)
(* ParseJson, Total, Links, Decoded and Split are recursive functions over *)
(* sequences: what they return is shown by induction, in the form that a   *)
(* set of naturals that is not empty has a least element.                  *)
(***************************************************************************)
EXTENDS ReportSum, MissingColumn, LocalServer, SequenceTheorems, WellFoundedInduction, TLAPS

\* The least number principle, and induction as it follows from it.
LEMMA LeastNatural ==
  ASSUME NEW T, T \subseteq Nat, T # {}
  PROVE  \E m \in T : \A k \in T : m <= k
<1> DEFINE R == {p \in Nat \X Nat : p[1] < p[2]}
<1>1. IsWellFoundedOn(R, Nat)
  BY NatLessThanWellFounded DEF OpToRel
<1>2. \A k, m \in Nat : k < m => <<k, m>> \in R
  OBVIOUS
<1> HIDE DEF R
<1>3. PICK m \in T : \A k \in T : ~(<<k, m>> \in R)
  BY <1>1, WFMin
<1>4. ASSUME NEW k \in T PROVE m <= k
  <2>1. k \in Nat /\ m \in Nat /\ ~(<<k, m>> \in R)
    BY <1>3
  <2>2. ~(k < m)
    BY <2>1, <1>2
  <2> QED
    BY <2>1, <2>2
<1> QED
  BY <1>4

LEMMA Induction ==
  ASSUME NEW T, T \subseteq Nat, 0 \in T, \A n \in T : n + 1 \in T
  PROVE  T = Nat
<1> SUFFICES ASSUME T # Nat PROVE FALSE
  OBVIOUS
<1>1. PICK m \in Nat \ T : \A k \in Nat \ T : m <= k
  BY LeastNatural
<1>2. m - 1 \in T
  BY <1>1
<1> QED
  BY <1>1, <1>2

\* Min and Max of the community modules.
LEMMA MinIs ==
  ASSUME NEW S, S \subseteq Nat, S # {}
  PROVE  Min(S) \in S /\ \A k \in S : Min(S) <= k
BY LeastNatural DEF Min

LEMMA MinUnique ==
  ASSUME NEW S, S \subseteq Nat, NEW m \in S, \A k \in S : m <= k
  PROVE  Min(S) = m
<1>1. Min(S) \in S /\ \A k \in S : Min(S) <= k
  BY MinIs
<1>2. Min(S) \in Nat /\ m \in Nat /\ Min(S) <= m /\ m <= Min(S)
  BY <1>1
<1> QED
  BY <1>2

LEMMA MaxUnique ==
  ASSUME NEW S, S \subseteq Nat, NEW m \in S, \A k \in S : k <= m
  PROVE  Max(S) = m
<1>1. Max(S) \in S /\ \A k \in S : k <= Max(S)
  BY DEF Max
<1>2. Max(S) \in Nat /\ m \in Nat /\ Max(S) <= m /\ m <= Max(S)
  BY <1>1
<1> QED
  BY <1>2

LEMMA MaxIs ==
  ASSUME NEW n \in Nat, NEW S, S \subseteq 0 .. n, S # {}
  PROVE  Max(S) \in S
<1> DEFINE T == {j \in Nat : n - j \in S}
<1>1. T \subseteq Nat /\ T # {}
  <2>1. PICK k \in S : TRUE
    OBVIOUS
  <2>2. k \in 0 .. n
    BY <2>1
  <2>3. n - k \in Nat /\ n - (n - k) = k
    BY <2>2
  <2> QED
    BY <2>1, <2>3
<1>2. PICK m \in T : \A j \in T : m <= j
  <2> HIDE DEF T
  <2> QED
    BY <1>1, LeastNatural
<1>3. n - m \in S /\ \A k \in S : k <= n - m
  <2>1. ASSUME NEW k \in S PROVE k <= n - m
    <3>1. k \in 0 .. n /\ m \in Nat
      BY <1>2
    <3>2. n - k \in T
      BY <3>1
    <3>3. m <= n - k
      BY <1>2, <3>2
    <3> QED
      BY <3>1, <3>3
  <2> QED
    BY <1>2, <2>1
<1>4. S \subseteq Nat
  OBVIOUS
<1> HIDE DEF T
<1> QED
  BY <1>3, <1>4, MaxUnique

----------------------------------------------------------------------------
(* Sums. *)

\* s[n] is the sum of the first n entries
Sums(entries, file, l, s) ==
  s = [n \in 0 .. Len(entries) |-> IF n = 0 THEN 0 ELSE s[n - 1] + CountOf(entries[n], file, l)]

LEMMA CountOfNat ==
  ASSUME NEW e \in FileEntry, NEW file, NEW l
  PROVE  CountOf(e, file, l) \in Nat
<1>1. CASE l \in DOMAIN e.lines
  <2>1. e.lines \in Seq(Element)
    BY DEF FileEntry
  <2>2. e.lines[l] \in Element
    BY <1>1, <2>1
  <2> QED
    BY <2>2 DEF CountOf, Element
<1> QED
  BY <1>1 DEF CountOf

LEMMA SumsExist ==
  ASSUME NEW entries, Len(entries) \in Nat, NEW file, NEW l
  PROVE  \E s : Sums(entries, file, l, s)
<1> DEFINE Goes(s, n) == s = [i \in 0 .. n |-> IF i = 0 THEN 0 ELSE s[i - 1] + CountOf(entries[i], file, l)]
           T == {n \in Nat : \E s : Goes(s, n)}
<1>1. 0 \in T
  <2>1. Goes([i \in 0 .. 0 |-> 0], 0)
    OBVIOUS
  <2> QED
    BY <2>1
<1>2. ASSUME NEW n \in T PROVE n + 1 \in T
  <2>1. PICK f : Goes(f, n)
    OBVIOUS
  <2> DEFINE g == [i \in 0 .. n + 1 |-> IF i <= n THEN f[i] ELSE f[n] + CountOf(entries[n + 1], file, l)]
  <2>2. ASSUME NEW i \in 0 .. n + 1
        PROVE  g[i] = IF i = 0 THEN 0 ELSE g[i - 1] + CountOf(entries[i], file, l)
    <3>1. CASE i = 0
      <4>1. f[0] = 0
        BY <2>1
      <4> QED
        BY <3>1, <4>1
    <3>2. CASE i # 0 /\ i <= n
      <4>1. f[i] = f[i - 1] + CountOf(entries[i], file, l)
        BY <2>1, <3>2
      <4>2. g[i] = f[i] /\ g[i - 1] = f[i - 1]
        BY <3>2
      <4> QED
        BY <3>2, <4>1, <4>2
    <3>3. CASE i = n + 1
      <4>1. g[i] = f[n] + CountOf(entries[i], file, l) /\ g[i - 1] = f[n]
        BY <3>3
      <4> QED
        BY <3>3, <4>1
    <3> QED
      BY <3>1, <3>2, <3>3
  <2>3. Goes(g, n + 1)
    <3> HIDE DEF g
    <3>1. DOMAIN g = 0 .. n + 1 /\ g = [i \in DOMAIN g |-> g[i]]
      BY DEF g
    <3> QED
      BY <2>2, <3>1
  <2> HIDE DEF g, Goes
  <2>4. n + 1 \in Nat /\ \E s : Goes(s, n + 1)
    BY <2>3
  <2> QED
    BY <2>4
<1>3. T = Nat
  <2> HIDE DEF T
  <2>1. T \subseteq Nat
    BY DEF T
  <2> QED
    BY <1>1, <1>2, <2>1, Induction
<1>4. Len(entries) \in T
  BY <1>3
<1> QED
  BY <1>4 DEF Sums

LEMMA TotalSums ==
  ASSUME NEW entries, Len(entries) \in Nat, NEW file, NEW l
  PROVE  \E s : Sums(entries, file, l, s) /\ Total(entries, file, l) = s[Len(entries)]
<1> DEFINE sum == CHOOSE s : Sums(entries, file, l, s)
<1>1. Sums(entries, file, l, sum)
  BY SumsExist
<1>2. Total(entries, file, l) = sum[Len(entries)]
  BY DEF Total, Sums
<1> HIDE DEF sum
<1> QED
  BY <1>1, <1>2

LEMMA SumsStep ==
  ASSUME NEW entries, Len(entries) \in Nat, NEW file, NEW l, NEW s, Sums(entries, file, l, s)
  PROVE  s[0] = 0 /\ \A n \in 1 .. Len(entries) : s[n] = s[n - 1] + CountOf(entries[n], file, l)
BY DEF Sums

\* The sums of a sequence behind another one go on from the sum of that one.
LEMMA SumsAdd ==
  ASSUME NEW a \in Seq(FileEntry), NEW b \in Seq(FileEntry), NEW file, NEW l
  PROVE  /\ Total(a, file, l) \in Nat
         /\ Total(a \o b, file, l) = Total(a, file, l) + Total(b, file, l)
<1> DEFINE c == a \o b
           Count(e) == CountOf(e, file, l)
<1>1. Len(a) \in Nat /\ Len(b) \in Nat /\ Len(c) = Len(a) + Len(b) /\ c \in Seq(FileEntry)
  BY LenProperties, ConcatProperties
<1>2. /\ \A i \in 1 .. Len(a) : c[i] = a[i] /\ a[i] \in FileEntry
      /\ \A i \in 1 .. Len(b) : c[Len(a) + i] = b[i] /\ b[i] \in FileEntry
  BY <1>1, ConcatProperties
<1>3. PICK s : Sums(a, file, l, s) /\ Total(a, file, l) = s[Len(a)]
  BY <1>1, TotalSums
<1>4. PICK t : Sums(b, file, l, t) /\ Total(b, file, l) = t[Len(b)]
  BY <1>1, TotalSums
<1> HIDE DEF c
<1>5. PICK u : Sums(c, file, l, u) /\ Total(c, file, l) = u[Len(c)]
  <2>1. Len(c) \in Nat
    BY <1>1
  <2> QED
    BY <2>1, TotalSums
<1>6. \A e \in FileEntry : Count(e) \in Nat
  BY CountOfNat
<1>7. /\ s[0] = 0 /\ t[0] = 0 /\ u[0] = 0
      /\ \A n \in 1 .. Len(a) : s[n] = s[n - 1] + Count(a[n])
      /\ \A n \in 1 .. Len(b) : t[n] = t[n - 1] + Count(b[n])
      /\ \A n \in 1 .. Len(c) : u[n] = u[n - 1] + Count(c[n])
  <2>1. Len(a) \in Nat /\ Len(b) \in Nat /\ Len(c) \in Nat
    BY <1>1
  <2>2. s[0] = 0 /\ \A n \in 1 .. Len(a) : s[n] = s[n - 1] + Count(a[n])
    BY <1>3, <2>1, SumsStep
  <2>3. t[0] = 0 /\ \A n \in 1 .. Len(b) : t[n] = t[n - 1] + Count(b[n])
    BY <1>4, <2>1, SumsStep
  <2>4. u[0] = 0 /\ \A n \in 1 .. Len(c) : u[n] = u[n - 1] + Count(c[n])
    BY <1>5, <2>1, SumsStep
  <2> QED
    BY <2>2, <2>3, <2>4
<1> HIDE DEF Count
<1>8. \A n \in Nat : n <= Len(a) => s[n] \in Nat /\ u[n] = s[n]
  <2> DEFINE T == {n \in Nat : n <= Len(a) => s[n] \in Nat /\ u[n] = s[n]}
  <2>1. 0 \in T
    BY <1>7
  <2>2. ASSUME NEW n \in T PROVE n + 1 \in T
    <3>1. CASE n + 1 <= Len(a)
      <4>1. n + 1 \in 1 .. Len(a) /\ n + 1 \in 1 .. Len(c) /\ n <= Len(a) /\ (n + 1) - 1 = n
        BY <1>1, <3>1
      <4>2. s[n + 1] = s[n] + Count(a[n + 1]) /\ u[n + 1] = u[n] + Count(a[n + 1]) /\ Count(a[n + 1]) \in Nat
        BY <1>2, <1>6, <1>7, <4>1
      <4> QED
        BY <4>1, <4>2
    <3> QED
      BY <3>1
  <2> HIDE DEF T
  <2>3. T = Nat
    <3>1. T \subseteq Nat
      BY DEF T
    <3> QED
      BY <2>1, <2>2, <3>1, Induction
  <2> QED
    BY <2>3 DEF T
<1>9. \A n \in Nat : n <= Len(b) => t[n] \in Nat /\ u[Len(a) + n] = s[Len(a)] + t[n]
  <2> DEFINE T == {n \in Nat : n <= Len(b) => t[n] \in Nat /\ u[Len(a) + n] = s[Len(a)] + t[n]}
  <2>1. 0 \in T
    BY <1>1, <1>7, <1>8
  <2>2. ASSUME NEW n \in T PROVE n + 1 \in T
    <3>1. CASE n + 1 <= Len(b)
      <4>1. /\ n + 1 \in 1 .. Len(b) /\ Len(a) + (n + 1) \in 1 .. Len(c) /\ n <= Len(b)
            /\ (n + 1) - 1 = n /\ (Len(a) + (n + 1)) - 1 = Len(a) + n
        BY <1>1, <3>1
      <4>2. /\ t[n + 1] = t[n] + Count(b[n + 1]) /\ Count(b[n + 1]) \in Nat
            /\ u[Len(a) + (n + 1)] = u[Len(a) + n] + Count(b[n + 1])
        BY <1>2, <1>6, <1>7, <4>1
      <4>3. t[n] \in Nat /\ u[Len(a) + n] = s[Len(a)] + t[n] /\ s[Len(a)] \in Nat
        BY <1>1, <1>8, <4>1
      <4> QED
        BY <4>2, <4>3
    <3> QED
      BY <3>1
  <2> HIDE DEF T
  <2>3. T = Nat
    <3>1. T \subseteq Nat
      BY DEF T
    <3> QED
      BY <2>1, <2>2, <3>1, Induction
  <2> QED
    BY <2>3 DEF T
<1>10. s[Len(a)] \in Nat /\ u[Len(c)] = s[Len(a)] + t[Len(b)]
  BY <1>1, <1>8, <1>9
<1> QED
  BY <1>3, <1>4, <1>5, <1>10 DEF c

\* What no entry counts has the sum zero; what one entry counts, that count.
LEMMA TotalOnly ==
  ASSUME NEW entries \in Seq(FileEntry), NEW file, NEW l, NEW k \in 0 .. Len(entries),
         \A i \in 1 .. Len(entries) : i # k => CountOf(entries[i], file, l) = 0
  PROVE  Total(entries, file, l) = IF k = 0 THEN 0 ELSE CountOf(entries[k], file, l)
<1> DEFINE Count(i) == CountOf(entries[i], file, l)
<1>1. Len(entries) \in Nat /\ \A i \in 1 .. Len(entries) : entries[i] \in FileEntry
  BY LenProperties, ElementOfSeq
<1>2. PICK s : Sums(entries, file, l, s) /\ Total(entries, file, l) = s[Len(entries)]
  BY <1>1, TotalSums
<1>3. s[0] = 0 /\ \A n \in 1 .. Len(entries) : s[n] = s[n - 1] + Count(n)
  BY <1>1, <1>2, SumsStep
<1>4. \A i \in 1 .. Len(entries) : Count(i) \in Nat /\ (i # k => Count(i) = 0)
  BY <1>1, CountOfNat
<1> HIDE DEF Count
<1> DEFINE T == {n \in Nat : n <= Len(entries) => s[n] = IF k = 0 \/ n < k THEN 0 ELSE Count(k)}
<1>5. 0 \in T
  BY <1>1, <1>3
<1>6. ASSUME NEW n \in T PROVE n + 1 \in T
  <2>1. CASE n + 1 <= Len(entries)
    <3>1. n + 1 \in 1 .. Len(entries) /\ n <= Len(entries) /\ (n + 1) - 1 = n
      BY <1>1, <2>1
    <3>2. /\ s[n + 1] = s[n] + Count(n + 1) /\ Count(n + 1) \in Nat
          /\ s[n] = IF k = 0 \/ n < k THEN 0 ELSE Count(k)
          /\ k # 0 => Count(k) \in Nat
          /\ n + 1 # k => Count(n + 1) = 0
      BY <1>3, <1>4, <3>1
    <3>3. s[n + 1] = IF k = 0 \/ n + 1 < k THEN 0 ELSE Count(k)
      BY <3>1, <3>2
    <3> QED
      BY <3>1, <3>3
  <2> QED
    BY <2>1
<1> HIDE DEF T
<1>7. T = Nat
  <2>1. T \subseteq Nat
    BY DEF T
  <2> QED
    BY <1>5, <1>6, <2>1, Induction
<1>8. s[Len(entries)] = IF k = 0 \/ Len(entries) < k THEN 0 ELSE Count(k)
  BY <1>1, <1>7 DEF T
<1> QED
  BY <1>1, <1>2, <1>8 DEF Count
LEMMA TotalAppend ==
  ASSUME NEW entries \in Seq(FileEntry), NEW e \in FileEntry, NEW file, NEW l
  PROVE  Total(Append(entries, e), file, l) = Total(entries, file, l) + CountOf(e, file, l)
<1> DEFINE one == <<e>>
<1>1. one \in Seq(FileEntry) /\ Len(one) = 1 /\ one[1] = e
  OBVIOUS
<1>2. Append(entries, e) = entries \o one
  BY AppendIsConcat
<1> HIDE DEF one
<1>3. Total(one, file, l) = CountOf(e, file, l)
  <2>1. 1 \in 0 .. Len(one) /\ \A i \in 1 .. Len(one) : i # 1 => CountOf(one[i], file, l) = 0
    BY <1>1
  <2>2. Total(one, file, l) = IF 1 = 0 THEN 0 ELSE CountOf(one[1], file, l)
    BY <1>1, <2>1, TotalOnly
  <2> QED
    BY <1>1, <2>2
<1>4. Total(entries \o one, file, l) = Total(entries, file, l) + Total(one, file, l)
  BY <1>1, SumsAdd
<1> QED
  BY <1>2, <1>3, <1>4

----------------------------------------------------------------------------
(* The first source. *)

Sourced(e, file) == e.file = file /\ e.source # NoSource

LEMMA FirstNone ==
  ASSUME NEW entries, Len(entries) \in Nat, DOMAIN entries = 1 .. Len(entries), NEW file,
         \A k \in 1 .. Len(entries) : ~Sourced(entries[k], file)
  PROVE  FirstSource(entries, file) = NoSource
<1>1. {k \in DOMAIN entries : entries[k].file = file /\ entries[k].source # NoSource} = {}
  BY DEF Sourced
<1> QED
  BY <1>1 DEF FirstSource

LEMMA FirstSome ==
  ASSUME NEW entries, Len(entries) \in Nat, DOMAIN entries = 1 .. Len(entries), NEW file,
         NEW k \in 1 .. Len(entries), Sourced(entries[k], file),
         \A i \in 1 .. Len(entries) : i < k => ~Sourced(entries[i], file)
  PROVE  FirstSource(entries, file) = entries[k].source
<1> DEFINE with == {i \in DOMAIN entries : entries[i].file = file /\ entries[i].source # NoSource}
<1>1. with \subseteq Nat /\ k \in with /\ \A i \in with : k <= i
  BY DEF Sourced
<1>2. FirstSource(entries, file) = IF with = {} THEN NoSource ELSE entries[Min(with)].source
  BY DEF FirstSource
<1> HIDE DEF with
<1>3. Min(with) = k
  BY <1>1, MinUnique
<1> QED
  BY <1>1, <1>2, <1>3

LEMMA FirstCases ==
  ASSUME NEW entries, Len(entries) \in Nat, NEW file
  PROVE  \/ \A k \in 1 .. Len(entries) : ~Sourced(entries[k], file)
         \/ \E k \in 1 .. Len(entries) : /\ Sourced(entries[k], file)
                                         /\ \A i \in 1 .. Len(entries) : i < k => ~Sourced(entries[i], file)
<1> DEFINE S == {k \in 1 .. Len(entries) : Sourced(entries[k], file)}
<1>1. CASE S = {}
  BY <1>1
<1>2. CASE S # {}
  <2>1. S \subseteq Nat
    OBVIOUS
  <2>2. PICK k \in S : \A i \in S : k <= i
    <3> HIDE DEF S
    <3> QED
      BY <1>2, <2>1, LeastNatural
  <2>3. \A i \in 1 .. Len(entries) : i < k => i \notin S
    BY <2>1, <2>2
  <2> QED
    BY <2>2, <2>3
<1> QED
  BY <1>1, <1>2

\* What is in front goes before.
LEMMA FirstConcat ==
  ASSUME NEW a \in Seq(FileEntry), NEW b \in Seq(FileEntry), NEW file
  PROVE  FirstSource(a \o b, file) =
           IF FirstSource(a, file) = NoSource THEN FirstSource(b, file) ELSE FirstSource(a, file)
<1> DEFINE c == a \o b
<1>1. /\ Len(a) \in Nat /\ Len(b) \in Nat /\ Len(c) = Len(a) + Len(b) /\ Len(c) \in Nat
      /\ DOMAIN a = 1 .. Len(a) /\ DOMAIN b = 1 .. Len(b) /\ DOMAIN c = 1 .. Len(c)
  <2>1. c \in Seq(FileEntry)
    BY ConcatProperties
  <2> QED
    BY <2>1, LenProperties, ConcatProperties
<1>2. /\ \A i \in 1 .. Len(a) : c[i] = a[i]
      /\ \A i \in 1 .. Len(b) : c[Len(a) + i] = b[i]
      /\ \A i \in 1 .. Len(c) : i <= Len(a) \/ (i - Len(a) \in 1 .. Len(b) /\ c[i] = b[i - Len(a)])
  <2>1. /\ \A i \in 1 .. Len(a) : c[i] = a[i]
        /\ \A i \in 1 .. Len(b) : c[Len(a) + i] = b[i]
    BY <1>1, ConcatProperties
  <2>2. ASSUME NEW i \in 1 .. Len(c), ~(i <= Len(a))
        PROVE  i - Len(a) \in 1 .. Len(b) /\ c[i] = b[i - Len(a)]
    <3>1. i - Len(a) \in 1 .. Len(b) /\ Len(a) + (i - Len(a)) = i
      BY <1>1, <2>2
    <3> QED
      BY <2>1, <3>1
  <2> QED
    BY <2>1, <2>2
<1> HIDE DEF c
<1>3. CASE \A k \in 1 .. Len(a) : ~Sourced(a[k], file)
  <2>1. FirstSource(a, file) = NoSource
    BY <1>1, <1>3, FirstNone
  <2>2. CASE \A k \in 1 .. Len(b) : ~Sourced(b[k], file)
    <3>1. \A k \in 1 .. Len(c) : ~Sourced(c[k], file)
      BY <1>1, <1>2, <1>3, <2>2
    <3>2. FirstSource(b, file) = NoSource /\ FirstSource(c, file) = NoSource
      <4>1. FirstSource(b, file) = NoSource
        BY <1>1, <2>2, FirstNone
      <4>2. FirstSource(c, file) = NoSource
        BY <1>1, <3>1, FirstNone
      <4> QED
        BY <4>1, <4>2
    <3> QED
      BY <2>1, <3>2 DEF c
  <2>3. ASSUME NEW k \in 1 .. Len(b), Sourced(b[k], file),
               \A i \in 1 .. Len(b) : i < k => ~Sourced(b[i], file)
        PROVE  FirstSource(c, file) = FirstSource(b, file)
    <3>1. FirstSource(b, file) = b[k].source
      BY <1>1, <2>3, FirstSome
    <3>2. Len(a) + k \in 1 .. Len(c) /\ c[Len(a) + k] = b[k] /\ Sourced(c[Len(a) + k], file)
      BY <1>1, <1>2, <2>3
    <3>3. ASSUME NEW i \in 1 .. Len(c), i < Len(a) + k PROVE ~Sourced(c[i], file)
      <4>1. CASE i <= Len(a)
        BY <1>1, <1>2, <1>3, <4>1
      <4>2. CASE ~(i <= Len(a))
        <5>1. i - Len(a) \in 1 .. Len(b) /\ c[i] = b[i - Len(a)] /\ i - Len(a) < k
          BY <1>1, <1>2, <3>3, <4>2
        <5> QED
          BY <2>3, <5>1
      <4> QED
        BY <4>1, <4>2
    <3>4. FirstSource(c, file) = c[Len(a) + k].source
      BY <1>1, <3>2, <3>3, FirstSome
    <3> QED
      BY <3>1, <3>2, <3>4
  <2>4. FirstSource(c, file) = FirstSource(b, file)
    <3>1. CASE \A k \in 1 .. Len(b) : ~Sourced(b[k], file)
      BY <2>1, <2>2, <3>1 DEF c
    <3>2. CASE ~\A k \in 1 .. Len(b) : ~Sourced(b[k], file)
      BY <1>1, <2>3, <3>2, FirstCases
    <3> QED
      BY <3>1, <3>2
  <2> QED
    BY <2>1, <2>4 DEF c
<1>4. ASSUME NEW k \in 1 .. Len(a), Sourced(a[k], file),
             \A i \in 1 .. Len(a) : i < k => ~Sourced(a[i], file)
      PROVE  FirstSource(c, file) = FirstSource(a, file) /\ FirstSource(a, file) # NoSource
  <2>1. FirstSource(a, file) = a[k].source
    BY <1>1, <1>4, FirstSome
  <2>2. k \in 1 .. Len(c) /\ c[k] = a[k] /\ Sourced(c[k], file)
    BY <1>1, <1>2, <1>4
  <2>3. ASSUME NEW i \in 1 .. Len(c), i < k PROVE ~Sourced(c[i], file)
    <3>1. i \in 1 .. Len(a)
      BY <1>1, <2>3
    <3> QED
      BY <1>2, <1>4, <2>3, <3>1
  <2>4. FirstSource(c, file) = c[k].source
    BY <1>1, <2>2, <2>3, FirstSome
  <2> QED
    BY <1>4, <2>1, <2>2, <2>4 DEF Sourced
<1>5. CASE ~\A k \in 1 .. Len(a) : ~Sourced(a[k], file)
  <2>1. PICK k \in 1 .. Len(a) : /\ Sourced(a[k], file)
                                 /\ \A i \in 1 .. Len(a) : i < k => ~Sourced(a[i], file)
    BY <1>1, <1>5, FirstCases
  <2>2. FirstSource(c, file) = FirstSource(a, file) /\ FirstSource(a, file) # NoSource
    BY <1>4, <2>1
  <2> QED
    BY <2>2 DEF c
<1> QED
  BY <1>3, <1>5

LEMMA FirstType ==
  ASSUME NEW entries \in Seq(FileEntry), NEW file
  PROVE  FirstSource(entries, file) \in Texts \cup {NoSource}
<1>1. Len(entries) \in Nat /\ DOMAIN entries = 1 .. Len(entries) /\ \A k \in 1 .. Len(entries) : entries[k] \in FileEntry
  BY LenProperties, ElementOfSeq
<1>2. CASE \A k \in 1 .. Len(entries) : ~Sourced(entries[k], file)
  BY <1>1, <1>2, FirstNone
<1>3. CASE ~\A k \in 1 .. Len(entries) : ~Sourced(entries[k], file)
  <2>1. PICK k \in 1 .. Len(entries) : /\ Sourced(entries[k], file)
                                       /\ \A i \in 1 .. Len(entries) : i < k => ~Sourced(entries[i], file)
    BY <1>1, <1>3, FirstCases
  <2>2. FirstSource(entries, file) = entries[k].source
    BY <1>1, <2>1, FirstSome
  <2> QED
    BY <1>1, <2>2 DEF FileEntry
<1> QED
  BY <1>2, <1>3
----------------------------------------------------------------------------
(* What a table holds. *)

Row == [file : Ids, source : Texts \cup {NoSource}, counts : Seq(Int)]

\* counts are what entries have for the file of e, one of them
Counted(counts, entries, e) ==
  /\ Len(counts) = Len(e.lines)
  /\ \A l \in 1 .. Len(counts) :
       /\ e.lines[l] # Other
       /\ counts[l] = IF e.lines[l] = Null THEN -1 ELSE Total(entries, e.file, l)

\* files are what entries add up to
Holds(files, entries) ==
  /\ files \in Seq(Row)
  /\ \A i, j \in 1 .. Len(files) : files[i].file = files[j].file => i = j
  /\ \A k \in 1 .. Len(entries) : \E i \in 1 .. Len(files) : files[i].file = entries[k].file
  /\ \A i \in 1 .. Len(files) :
       /\ \E k \in 1 .. Len(entries) : entries[k].file = files[i].file
       /\ files[i].source = FirstSource(entries, files[i].file)
  /\ \A i \in 1 .. Len(files), k \in 1 .. Len(entries) :
       files[i].file = entries[k].file => Counted(files[i].counts, entries, entries[k])

Bounded(entries) == \A file, l : Total(entries, file, l) <= IntMax

\* a table that is good holds what it has parsed, and one is bad for a reason
Sound(table, entries) ==
  \/ table = [files |-> table.files, result |-> 0] /\ Holds(table.files, entries)
  \/ table.result # 0 /\ ~Agree(entries)

LEMMA EntryProps ==
  ASSUME NEW e \in FileEntry
  PROVE  /\ e.file \in Ids /\ e.source \in Texts \cup {NoSource}
         /\ Len(e.lines) \in Nat /\ DOMAIN e.lines = 1 .. Len(e.lines)
         /\ \A l \in 1 .. Len(e.lines) : e.lines[l] \in Element
<1>1. e.file \in Ids /\ e.source \in Texts \cup {NoSource} /\ e.lines \in Seq(Element)
  BY DEF FileEntry
<1> QED
  BY <1>1, LenProperties, ElementOfSeq

LEMMA SeqProps ==
  ASSUME NEW S, NEW s \in Seq(S)
  PROVE  Len(s) \in Nat /\ DOMAIN s = 1 .. Len(s) /\ \A i \in 1 .. Len(s) : s[i] \in S
BY LenProperties, ElementOfSeq

LEMMA AppendProps ==
  ASSUME NEW S, NEW s \in Seq(S), NEW x \in S
  PROVE  /\ Append(s, x) \in Seq(S) /\ Len(s) \in Nat /\ Len(Append(s, x)) = Len(s) + 1
         /\ \A i \in 1 .. Len(s) : Append(s, x)[i] = s[i]
         /\ Append(s, x)[Len(s) + 1] = x
         /\ \A i \in 1 .. Len(s) + 1 : i \in 1 .. Len(s) \/ i = Len(s) + 1
BY AppendProperties, LenProperties

LEMMA ConcatProps ==
  ASSUME NEW S, NEW a \in Seq(S), NEW b \in Seq(S)
  PROVE  /\ a \o b \in Seq(S) /\ Len(a) \in Nat /\ Len(b) \in Nat /\ Len(a \o b) = Len(a) + Len(b)
         /\ \A i \in 1 .. Len(a) : i \in 1 .. Len(a \o b) /\ (a \o b)[i] = a[i]
         /\ \A i \in 1 .. Len(b) : Len(a) + i \in 1 .. Len(a \o b) /\ (a \o b)[Len(a) + i] = b[i]
         /\ \A i \in 1 .. Len(a \o b) : i \in 1 .. Len(a) \/ (i - Len(a) \in 1 .. Len(b) /\ (a \o b)[i] = b[i - Len(a)])
<1> DEFINE c == a \o b
<1>1. c \in Seq(S) /\ Len(a) \in Nat /\ Len(b) \in Nat /\ Len(c) = Len(a) + Len(b)
  BY ConcatProperties, LenProperties
<1>2. /\ \A i \in 1 .. Len(a) : c[i] = a[i]
      /\ \A i \in 1 .. Len(b) : c[Len(a) + i] = b[i]
  BY <1>1, ConcatProperties
<1> HIDE DEF c
<1>3. ASSUME NEW i \in 1 .. Len(c), ~(i \in 1 .. Len(a))
      PROVE  i - Len(a) \in 1 .. Len(b) /\ c[i] = b[i - Len(a)]
  <2>1. i - Len(a) \in 1 .. Len(b) /\ Len(a) + (i - Len(a)) = i
    BY <1>1, <1>3
  <2> QED
    BY <1>2, <2>1
<1>4. /\ \A i \in 1 .. Len(a) : i \in 1 .. Len(c)
      /\ \A i \in 1 .. Len(b) : Len(a) + i \in 1 .. Len(c)
  BY <1>1
<1> QED
  BY <1>1, <1>2, <1>3, <1>4 DEF c

\* Agreement, entry by entry.
Alike(e, x) ==
  e.file = x.file =>
    /\ Len(e.lines) = Len(x.lines)
    /\ \A l \in 1 .. Len(e.lines) : e.lines[l] = Null <=> x.lines[l] = Null
LEMMA AgreeIs ==
  ASSUME NEW entries \in Seq(FileEntry)
  PROVE  Agree(entries) <=>
           /\ \A k \in 1 .. Len(entries) : \A l \in 1 .. Len(entries[k].lines) : entries[k].lines[l] # Other
           /\ \A k, j \in 1 .. Len(entries) : Alike(entries[k], entries[j])
<1>1. Len(entries) \in Nat /\ DOMAIN entries = 1 .. Len(entries) /\ \A k \in 1 .. Len(entries) : entries[k] \in FileEntry
  BY SeqProps
<1>2. ToSet(entries) = {entries[k] : k \in 1 .. Len(entries)}
  BY <1>1 DEF ToSet
<1>3. ASSUME NEW e \in FileEntry
      PROVE  Other \notin ToSet(e.lines) <=> \A l \in 1 .. Len(e.lines) : e.lines[l] # Other
  BY EntryProps DEF ToSet
<1>4. ASSUME NEW e \in FileEntry, NEW x \in FileEntry
      PROVE  (e.file = x.file => Shape(e) = Shape(x)) <=> Alike(e, x)
  <2>1. /\ Len(e.lines) \in Nat /\ DOMAIN e.lines = 1 .. Len(e.lines)
        /\ Len(x.lines) \in Nat /\ DOMAIN x.lines = 1 .. Len(x.lines)
    BY EntryProps
  <2>2. ASSUME Shape(e) = Shape(x)
        PROVE  Len(e.lines) = Len(x.lines) /\ \A l \in 1 .. Len(e.lines) : e.lines[l] = Null <=> x.lines[l] = Null
    <3>1. DOMAIN Shape(e) = 1 .. Len(e.lines) /\ DOMAIN Shape(x) = 1 .. Len(x.lines)
      BY <2>1 DEF Shape
    <3>2. Len(e.lines) = Len(x.lines)
      BY <2>1, <2>2, <3>1
    <3>3. ASSUME NEW l \in 1 .. Len(e.lines) PROVE e.lines[l] = Null <=> x.lines[l] = Null
      <4>1. Shape(e)[l] = (e.lines[l] = Null) /\ Shape(x)[l] = (x.lines[l] = Null)
        BY <2>1, <3>2 DEF Shape
      <4> QED
        BY <2>2, <4>1
    <3> QED
      BY <3>2, <3>3
  <2>3. ASSUME Len(e.lines) = Len(x.lines), \A l \in 1 .. Len(e.lines) : e.lines[l] = Null <=> x.lines[l] = Null
        PROVE  Shape(e) = Shape(x)
    <3>1. DOMAIN e.lines = DOMAIN x.lines /\ \A l \in DOMAIN e.lines : (e.lines[l] = Null) = (x.lines[l] = Null)
      BY <2>1, <2>3
    <3> QED
      BY <3>1 DEF Shape
  <2> QED
    BY <2>2, <2>3 DEF Alike
<1>5. (\A e \in ToSet(entries) : Other \notin ToSet(e.lines)) <=>
        \A k \in 1 .. Len(entries) : \A l \in 1 .. Len(entries[k].lines) : entries[k].lines[l] # Other
  <2>1. \A k \in 1 .. Len(entries) : Other \notin ToSet(entries[k].lines) <=>
          \A l \in 1 .. Len(entries[k].lines) : entries[k].lines[l] # Other
    BY <1>1, <1>3
  <2> QED
    BY <1>2, <2>1
<1>6. (\A e, x \in ToSet(entries) : e.file = x.file => Shape(e) = Shape(x)) <=>
        \A k, j \in 1 .. Len(entries) : Alike(entries[k], entries[j])
  <2>1. \A k, j \in 1 .. Len(entries) : Alike(entries[k], entries[j]) <=>
          (entries[k].file = entries[j].file => Shape(entries[k]) = Shape(entries[j]))
    BY <1>1, <1>4
  <2> QED
    BY <1>2, <2>1
<1> QED
  BY <1>5, <1>6 DEF Agree

LEMMA AgreeFront ==
  ASSUME NEW a \in Seq(FileEntry), NEW b \in Seq(FileEntry), Agree(a \o b)
  PROVE  Agree(a)
<1>1. a \o b \in Seq(FileEntry) /\ \A i \in 1 .. Len(a) : i \in 1 .. Len(a \o b) /\ (a \o b)[i] = a[i]
  BY ConcatProps
<1>2. /\ \A k \in 1 .. Len(a \o b) : \A l \in 1 .. Len((a \o b)[k].lines) : (a \o b)[k].lines[l] # Other
      /\ \A k, j \in 1 .. Len(a \o b) : Alike((a \o b)[k], (a \o b)[j])
  BY <1>1, AgreeIs
<1>3. /\ \A k \in 1 .. Len(a) : \A l \in 1 .. Len(a[k].lines) : a[k].lines[l] # Other
      /\ \A k, j \in 1 .. Len(a) : Alike(a[k], a[j])
  BY <1>1, <1>2
<1> QED
  BY <1>3, AgreeIs

\* What a table holds agrees.
LEMMA HoldsAgree ==
  ASSUME NEW files, NEW entries \in Seq(FileEntry), Holds(files, entries)
  PROVE  Agree(entries)
<1>1. \A k \in 1 .. Len(entries) : entries[k] \in FileEntry
  BY SeqProps
<1>2. ASSUME NEW k \in 1 .. Len(entries)
      PROVE  \E i \in 1 .. Len(files) : files[i].file = entries[k].file /\ Counted(files[i].counts, entries, entries[k])
  BY DEF Holds
<1>3. ASSUME NEW k \in 1 .. Len(entries), NEW l \in 1 .. Len(entries[k].lines) PROVE entries[k].lines[l] # Other
  BY <1>2 DEF Counted
<1>4. ASSUME NEW k \in 1 .. Len(entries), NEW j \in 1 .. Len(entries), entries[k].file = entries[j].file
      PROVE  /\ Len(entries[k].lines) = Len(entries[j].lines)
             /\ \A l \in 1 .. Len(entries[k].lines) : entries[k].lines[l] = Null <=> entries[j].lines[l] = Null
  <2>1. PICK i \in 1 .. Len(files) : files[i].file = entries[k].file
    BY <1>2
  <2> DEFINE c == files[i].counts
             t(l) == Total(entries, entries[k].file, l)
  <2>2. Counted(c, entries, entries[k]) /\ Counted(c, entries, entries[j])
    BY <1>4, <2>1 DEF Holds
  <2>3. \A l : t(l) \in Nat
    BY SumsAdd
  <2>4. /\ Len(c) = Len(entries[k].lines) /\ Len(c) = Len(entries[j].lines)
        /\ \A l \in 1 .. Len(c) : c[l] = IF entries[k].lines[l] = Null THEN -1 ELSE t(l)
        /\ \A l \in 1 .. Len(c) : c[l] = IF entries[j].lines[l] = Null THEN -1 ELSE t(l)
    BY <1>4, <2>2 DEF Counted
  <2> HIDE DEF t, c
  <2>5. ASSUME NEW l \in 1 .. Len(c) PROVE entries[k].lines[l] = Null <=> entries[j].lines[l] = Null
    <3>1. t(l) \in Nat /\ t(l) # -1
      BY <2>3
    <3> QED
      BY <2>4, <3>1
  <2> QED
    BY <2>4, <2>5
<1>5. \A k, j \in 1 .. Len(entries) : Alike(entries[k], entries[j])
  BY <1>4 DEF Alike
<1> QED
  BY <1>3, <1>5, AgreeIs
----------------------------------------------------------------------------
(* One entry more. *)

LEMMA IndexIs ==
  ASSUME NEW files, Len(files) \in Nat, NEW file
  PROVE  /\ (\A i \in 1 .. Len(files) : files[i].file # file) => Index(files, file) = 0
         /\ (\E i \in 1 .. Len(files) : files[i].file = file) =>
              Index(files, file) \in 1 .. Len(files) /\ files[Index(files, file)].file = file
<1> DEFINE I == {i \in 1 .. Len(files) : files[i].file = file}
<1>1. Index(files, file) = IF I # {} THEN Min(I) ELSE 0
  BY DEF Index, SelectInSeq
<1>2. I \subseteq Nat /\ \A i \in I : i \in 1 .. Len(files) /\ files[i].file = file
  OBVIOUS
<1>3. (\E i \in 1 .. Len(files) : files[i].file = file) <=> I # {}
  OBVIOUS
<1> HIDE DEF I
<1>4. CASE I = {}
  BY <1>1, <1>3, <1>4
<1>5. CASE I # {}
  <2>1. Min(I) \in I
    BY <1>2, <1>5, MinIs
  <2> QED
    BY <1>1, <1>2, <1>3, <1>5, <2>1
<1> QED
  BY <1>4, <1>5

LEMMA WrapIs ==
  ASSUME NEW n \in Nat, n <= IntMax
  PROVE  Wrap(n) = n
BY MergeAssumption DEF Wrap

LEMMA ElementIs ==
  ASSUME NEW x \in Element
  PROVE  /\ x = Null => x \notin Int /\ x # Other
         /\ x = Other => x \notin Int /\ x # Null
         /\ x # Null /\ x # Other => x \in Nat
BY MergeAssumption DEF Element

\* The counts of an entry among the sums.
LEMMA CountIs ==
  ASSUME NEW e \in FileEntry, NEW l \in 1 .. Len(e.lines)
  PROVE  /\ e.lines[l] = Null => CountOf(e, e.file, l) = 0
         /\ e.lines[l] # Null /\ e.lines[l] # Other => CountOf(e, e.file, l) = e.lines[l] /\ e.lines[l] \in Nat
<1>1. l \in DOMAIN e.lines /\ e.lines[l] \in Element
  BY EntryProps
<1> QED
  BY <1>1, ElementIs DEF CountOf

\* Another file does not count.
LEMMA CountOther ==
  ASSUME NEW e, NEW file, e.file # file, NEW l
  PROVE  CountOf(e, file, l) = 0
BY DEF CountOf

LEMMA FirstAppend ==
  ASSUME NEW entries \in Seq(FileEntry), NEW e \in FileEntry, NEW file
  PROVE  FirstSource(Append(entries, e), file) =
           IF FirstSource(entries, file) # NoSource THEN FirstSource(entries, file)
           ELSE IF e.file = file THEN e.source ELSE NoSource
<1> DEFINE one == <<e>>
<1>1. one \in Seq(FileEntry) /\ Len(one) = 1 /\ one[1] = e /\ Append(entries, e) = entries \o one
  BY AppendIsConcat
<1> HIDE DEF one
<1>2. DOMAIN one = 1 .. Len(one) /\ Len(one) \in Nat /\ 1 \in 1 .. Len(one) /\ \A k \in 1 .. Len(one) : k = 1 /\ one[k] = e
  BY <1>1, SeqProps
<1>3. FirstSource(one, file) = IF e.file = file THEN e.source ELSE NoSource
  <2>1. CASE Sourced(e, file)
    <3>1. FirstSource(one, file) = one[1].source
      BY <1>2, <2>1, FirstSome
    <3> QED
      BY <1>1, <2>1, <3>1 DEF Sourced
  <2>2. CASE ~Sourced(e, file)
    <3>1. FirstSource(one, file) = NoSource
      BY <1>2, <2>2, FirstNone
    <3> QED
      BY <2>2, <3>1 DEF Sourced
  <2> QED
    BY <2>1, <2>2
<1> QED
  BY <1>1, <1>3, FirstConcat

LEMMA AddsFirst ==
  ASSUME NEW files, NEW entries \in Seq(FileEntry), Holds(files, entries), NEW e \in FileEntry,
         \A i \in 1 .. Len(files) : files[i].file # e.file, Bounded(Append(entries, e)),
         \A l \in 1 .. Len(e.lines) : e.lines[l] # Other
  PROVE  Holds(Append(files, [file |-> e.file, source |-> e.source,
                              counts |-> [l \in DOMAIN e.lines |-> Stored(e.lines[l])]]), Append(entries, e))
<1> DEFINE all == Append(entries, e)
           counts == [l \in DOMAIN e.lines |-> Stored(e.lines[l])]
           row == [file |-> e.file, source |-> e.source, counts |-> counts]
           new == Append(files, row)
           n == Len(entries)
           m == Len(files)
<1>1. /\ e.file \in Ids /\ e.source \in Texts \cup {NoSource}
      /\ Len(e.lines) \in Nat /\ DOMAIN e.lines = 1 .. Len(e.lines)
      /\ \A l \in 1 .. Len(e.lines) : e.lines[l] \in Element
  BY EntryProps
<1>2. /\ all \in Seq(FileEntry) /\ n \in Nat /\ Len(all) = n + 1
      /\ \A k \in 1 .. n : all[k] = entries[k] /\ entries[k] \in FileEntry
      /\ all[n + 1] = e
      /\ \A k \in 1 .. n + 1 : k \in 1 .. n \/ k = n + 1
  BY AppendProps, SeqProps
<1>3. \A k \in 1 .. n : entries[k].file # e.file
  BY DEF Holds
<1>4. \A l : Total(all, e.file, l) = CountOf(e, e.file, l)
  <2>1. ASSUME NEW l PROVE Total(all, e.file, l) = CountOf(e, e.file, l)
    <3>1. \A k \in 1 .. n + 1 : k # n + 1 => CountOf(all[k], e.file, l) = 0
      BY <1>2, <1>3, CountOther
    <3>2. n + 1 \in 0 .. Len(all) /\ n + 1 # 0
      BY <1>2
    <3> HIDE DEF all, n
    <3>3. Total(all, e.file, l) = IF n + 1 = 0 THEN 0 ELSE CountOf(all[n + 1], e.file, l)
      BY <1>2, <3>1, <3>2, TotalOnly
    <3> QED
      BY <1>2, <3>2, <3>3
  <2> QED
    BY <2>1
<1>5. counts \in Seq(Int) /\ Counted(counts, all, e)
  <2>1. ASSUME NEW l \in 1 .. Len(e.lines)
        PROVE  Stored(e.lines[l]) \in Int /\ Stored(e.lines[l]) = IF e.lines[l] = Null THEN -1 ELSE Total(all, e.file, l)
    <3>1. CASE e.lines[l] = Null
      BY <3>1 DEF Stored, Unset
    <3>2. CASE e.lines[l] # Null
      <4>1. e.lines[l] \in Nat /\ Total(all, e.file, l) = e.lines[l]
        BY <1>4, <3>2, CountIs
      <4>2. e.lines[l] <= IntMax
        BY <4>1 DEF Bounded
      <4>3. Wrap(e.lines[l]) = e.lines[l]
        BY <4>1, <4>2, WrapIs
      <4> QED
        BY <3>2, <4>1, <4>3 DEF Stored
    <3> QED
      BY <3>1, <3>2
  <2>2. counts = [l \in 1 .. Len(e.lines) |-> Stored(e.lines[l])]
    BY <1>1
  <2> HIDE DEF all
  <2>3. counts \in Seq(Int) /\ Len(counts) = Len(e.lines) /\ \A l \in 1 .. Len(e.lines) : counts[l] = Stored(e.lines[l])
    BY <1>1, <2>1, <2>2
  <2> QED
    BY <2>1, <2>3 DEF Counted
<1>6. /\ new \in Seq(Row) /\ m \in Nat /\ Len(new) = m + 1
      /\ \A i \in 1 .. m : new[i] = files[i]
      /\ new[m + 1] = row
      /\ \A i \in 1 .. m + 1 : i \in 1 .. m \/ i = m + 1
  <2>1. row \in Row
    <3> HIDE DEF counts
    <3> QED
      BY <1>1, <1>5 DEF Row
  <2>2. files \in Seq(Row)
    BY DEF Holds
  <2> HIDE DEF row
  <2> QED
    BY <2>1, <2>2, AppendProps
<1>7. row.file = e.file /\ row.source = e.source /\ row.counts = counts
  OBVIOUS
<1>8. \A file : FirstSource(all, file) = IF FirstSource(entries, file) # NoSource THEN FirstSource(entries, file)
                                         ELSE IF e.file = file THEN e.source ELSE NoSource
  BY FirstAppend
<1>9. FirstSource(entries, e.file) = NoSource
  <2>1. n \in Nat /\ DOMAIN entries = 1 .. n /\ \A k \in 1 .. n : ~Sourced(entries[k], e.file)
    BY <1>2, <1>3, SeqProps DEF Sourced
  <2> QED
    BY <2>1, FirstNone
<1>10. \A file, l : file # e.file => Total(all, file, l) = Total(entries, file, l)
  <2>1. ASSUME NEW file, NEW l, file # e.file PROVE Total(all, file, l) = Total(entries, file, l)
    <3>1. Total(all, file, l) = Total(entries, file, l) + CountOf(e, file, l) /\ CountOf(e, file, l) = 0
      BY <2>1, TotalAppend, CountOther
    <3>2. Total(entries, file, l) \in Nat
      BY SumsAdd
    <3> QED
      BY <3>1, <3>2
  <2> QED
    BY <2>1
<1> HIDE DEF all, counts, row, new
<1>11. \A i, j \in 1 .. Len(new) : new[i].file = new[j].file => i = j
  <2>1. \A i, j \in 1 .. m : files[i].file = files[j].file => i = j
    BY DEF Holds
  <2> QED
    BY <1>6, <1>7, <2>1
<1>12. \A k \in 1 .. Len(all) : \E i \in 1 .. Len(new) : new[i].file = all[k].file
  <2>1. ASSUME NEW k \in 1 .. n PROVE \E i \in 1 .. Len(new) : new[i].file = all[k].file
    <3>1. PICK i \in 1 .. m : files[i].file = entries[k].file
      BY DEF Holds
    <3>2. i \in 1 .. Len(new) /\ new[i].file = all[k].file
      BY <1>2, <1>6, <3>1
    <3> QED
      BY <3>2
  <2>2. m + 1 \in 1 .. Len(new) /\ new[m + 1].file = all[n + 1].file
    BY <1>2, <1>6, <1>7
  <2> QED
    BY <1>2, <2>1, <2>2
<1>13. ASSUME NEW i \in 1 .. Len(new)
       PROVE  /\ \E k \in 1 .. Len(all) : all[k].file = new[i].file
              /\ new[i].source = FirstSource(all, new[i].file)
  <2>1. CASE i \in 1 .. m
    <3>1. /\ \E k \in 1 .. n : entries[k].file = files[i].file
          /\ files[i].source = FirstSource(entries, files[i].file)
      BY <2>1 DEF Holds
    <3>2. files[i].file # e.file
      BY <2>1
    <3>3. FirstSource(all, files[i].file) = FirstSource(entries, files[i].file)
      BY <1>8, <3>2
    <3>4. \E k \in 1 .. Len(all) : all[k].file = files[i].file
      BY <1>2, <3>1
    <3> QED
      BY <1>6, <2>1, <3>1, <3>3, <3>4
  <2>2. CASE i = m + 1
    <3>1. FirstSource(all, e.file) = e.source
      BY <1>8, <1>9
    <3>2. n + 1 \in 1 .. Len(all) /\ all[n + 1].file = e.file
      BY <1>2
    <3>3. new[i].file = e.file /\ new[i].source = e.source
      BY <1>6, <1>7, <2>2
    <3> QED
      BY <3>1, <3>2, <3>3
  <2> QED
    BY <1>6, <2>1, <2>2
<1>14. ASSUME NEW i \in 1 .. Len(new), NEW k \in 1 .. Len(all), new[i].file = all[k].file
       PROVE  Counted(new[i].counts, all, all[k])
  <2>1. CASE i \in 1 .. m /\ k \in 1 .. n
    <3>1. files[i].file = entries[k].file /\ new[i].counts = files[i].counts /\ all[k] = entries[k] /\ entries[k].file # e.file
      BY <1>2, <1>3, <1>6, <1>14, <2>1
    <3>2. Counted(files[i].counts, entries, entries[k])
      BY <2>1, <3>1 DEF Holds
    <3>3. \A l : Total(all, entries[k].file, l) = Total(entries, entries[k].file, l)
      BY <1>10, <3>1
    <3> QED
      BY <3>1, <3>2, <3>3 DEF Counted
  <2>2. CASE i = m + 1 /\ k = n + 1
    BY <1>2, <1>5, <1>6, <1>7, <2>2
  <2>3. CASE i \in 1 .. m /\ k = n + 1
    BY <1>2, <1>6, <1>14, <2>3
  <2>4. CASE i = m + 1 /\ k \in 1 .. n
    BY <1>2, <1>3, <1>6, <1>7, <1>14, <2>4
  <2> QED
    BY <1>2, <1>6, <2>1, <2>2, <2>3, <2>4
<1>15. Holds(new, all)
  BY <1>6, <1>11, <1>12, <1>13, <1>14 DEF Holds
<1> QED
  BY <1>15 DEF new, row, counts, all
\* An entry that is refused does not fit those there are.
LEMMA RefusalIs ==
  ASSUME NEW files, NEW entries \in Seq(FileEntry), Holds(files, entries), NEW e \in FileEntry,
         NEW at \in 1 .. Len(files), files[at].file = e.file
  PROVE  /\ Refusal(files[at].counts, e.lines) # 0 => ~Agree(Append(entries, e))
         /\ Refusal(files[at].counts, e.lines) = 0 =>
              /\ Len(files[at].counts) = Len(e.lines)
              /\ \A l \in 1 .. Len(e.lines) : e.lines[l] # Other /\ (e.lines[l] = Null <=> files[at].counts[l] = -1)
<1> DEFINE all == Append(entries, e)
           c == files[at].counts
           mismatch == {l \in DOMAIN e.lines : e.lines[l] # Other /\ Mismatch(c[l], e.lines[l])}
           wrong == {l \in DOMAIN e.lines : e.lines[l] = Other}
           n == Len(entries)
<1>1. /\ all \in Seq(FileEntry) /\ n \in Nat /\ Len(all) = n + 1
      /\ \A k \in 1 .. n : all[k] = entries[k] /\ entries[k] \in FileEntry
      /\ all[n + 1] = e
  BY AppendProps, SeqProps
<1>2. PICK k \in 1 .. n : entries[k].file = e.file
  BY DEF Holds
<1>3. Counted(c, entries, entries[k])
  BY <1>2 DEF Holds
<1>4. Len(e.lines) \in Nat /\ DOMAIN e.lines = 1 .. Len(e.lines)
  BY EntryProps
<1>5. \A l : Total(entries, e.file, l) \in Nat
  BY SumsAdd
<1>6. /\ Len(c) = Len(entries[k].lines)
      /\ \A l \in 1 .. Len(c) : c[l] = -1 <=> entries[k].lines[l] = Null
  BY <1>2, <1>3, <1>5 DEF Counted
<1>7. Refusal(c, e.lines) = IF Len(c) # Len(e.lines) \/ (\E i \in mismatch : \A j \in wrong : i < j) THEN -2
                            ELSE IF wrong # {} THEN -1 ELSE 0
  BY DEF Refusal
<1>8. \A l : l \in mismatch <=> l \in 1 .. Len(e.lines) /\ e.lines[l] # Other /\ (e.lines[l] = Null) # (c[l] = -1)
  BY <1>4 DEF Mismatch, Unset
<1>9. \A l : l \in wrong <=> l \in 1 .. Len(e.lines) /\ e.lines[l] = Other
  BY <1>4
<1> HIDE DEF all, c, mismatch, wrong, n
<1>10. ASSUME Agree(all)
       PROVE  Len(c) = Len(e.lines) /\ mismatch = {} /\ wrong = {}
  <2>1. k \in 1 .. Len(all) /\ n + 1 \in 1 .. Len(all)
    BY <1>1
  <2>2. /\ \A l \in 1 .. Len(all[n + 1].lines) : all[n + 1].lines[l] # Other
        /\ Alike(all[k], all[n + 1])
    BY <1>1, <1>10, <2>1, AgreeIs
  <2>3. \A l \in 1 .. Len(e.lines) : e.lines[l] # Other
    BY <1>1, <2>2
  <2>4. Alike(entries[k], e)
    BY <1>1, <2>2
  <2>5. Len(entries[k].lines) = Len(e.lines) /\ \A l \in 1 .. Len(e.lines) : entries[k].lines[l] = Null <=> e.lines[l] = Null
    BY <1>2, <2>4 DEF Alike
  <2> QED
    BY <1>6, <1>8, <1>9, <2>3, <2>5
<1>11. ASSUME Refusal(c, e.lines) = 0
       PROVE  Len(c) = Len(e.lines) /\ \A l \in 1 .. Len(e.lines) : e.lines[l] # Other /\ (e.lines[l] = Null <=> c[l] = -1)
  <2>1. Len(c) = Len(e.lines) /\ wrong = {} /\ ~(\E i \in mismatch : \A j \in wrong : i < j)
    BY <1>7, <1>11
  <2>2. mismatch = {}
    BY <2>1
  <2> QED
    BY <1>8, <1>9, <2>1, <2>2
<1>12. ASSUME Refusal(c, e.lines) # 0, Agree(all) PROVE FALSE
  <2>1. ~(\E i \in mismatch : \A j \in wrong : i < j)
    BY <1>10, <1>12
  <2> QED
    BY <1>7, <1>10, <1>12, <2>1
<1> QED
  BY <1>11, <1>12 DEF c, all

LEMMA AddsAgain ==
  ASSUME NEW files, NEW entries \in Seq(FileEntry), Holds(files, entries), NEW e \in FileEntry,
         NEW at \in 1 .. Len(files), files[at].file = e.file, Bounded(Append(entries, e)),
         Refusal(files[at].counts, e.lines) = 0
  PROVE  Holds([files EXCEPT ![at] = [file |-> files[at].file, source |-> Source(files[at].source, e.source),
                                      counts |-> AddLines(files[at].counts, e.lines)]], Append(entries, e))
<1> DEFINE all == Append(entries, e)
           old == files[at]
           counts == AddLines(old.counts, e.lines)
           row == [file |-> old.file, source |-> Source(old.source, e.source), counts |-> counts]
           new == [files EXCEPT ![at] = row]
           n == Len(entries)
           m == Len(files)
<1>1. /\ e.file \in Ids /\ e.source \in Texts \cup {NoSource}
      /\ Len(e.lines) \in Nat /\ DOMAIN e.lines = 1 .. Len(e.lines)
      /\ \A l \in 1 .. Len(e.lines) : e.lines[l] \in Element
  BY EntryProps
<1>2. /\ all \in Seq(FileEntry) /\ n \in Nat /\ Len(all) = n + 1
      /\ \A k \in 1 .. n : all[k] = entries[k] /\ entries[k] \in FileEntry
      /\ all[n + 1] = e
      /\ \A k \in 1 .. n + 1 : k \in 1 .. n \/ k = n + 1
  BY AppendProps, SeqProps
<1>3. files \in Seq(Row) /\ m \in Nat /\ DOMAIN files = 1 .. m /\ \A i \in 1 .. m : files[i] \in Row
  <2>1. files \in Seq(Row)
    BY DEF Holds
  <2> QED
    BY <2>1, SeqProps
<1>4. old.counts \in Seq(Int) /\ old.source \in Texts \cup {NoSource} /\ old.file = e.file
  BY <1>3 DEF Row
<1>5. /\ Len(old.counts) = Len(e.lines)
      /\ \A l \in 1 .. Len(e.lines) : e.lines[l] # Other /\ (e.lines[l] = Null <=> old.counts[l] = -1)
  BY RefusalIs
<1>6. \A file, l : Total(all, file, l) = Total(entries, file, l) + CountOf(e, file, l) /\ Total(entries, file, l) \in Nat
  BY TotalAppend, SumsAdd
<1>7. \A file, l : file # e.file => Total(all, file, l) = Total(entries, file, l)
  BY <1>6, CountOther
<1>8. PICK j \in 1 .. n : entries[j].file = e.file
  BY DEF Holds
<1>9. \A l \in 1 .. Len(e.lines) : old.counts[l] = -1 \/ old.counts[l] = Total(entries, e.file, l)
  <2>1. Counted(old.counts, entries, entries[j])
    BY <1>8 DEF Holds
  <2> QED
    BY <1>5, <1>8, <2>1 DEF Counted
<1>10. /\ counts \in Seq(Int) /\ Len(counts) = Len(e.lines)
       /\ \A l \in 1 .. Len(e.lines) : counts[l] = IF e.lines[l] = Null THEN -1 ELSE Total(all, e.file, l)
  <2>1. ASSUME NEW l \in 1 .. Len(e.lines)
        PROVE  /\ Sum(old.counts[l], e.lines[l]) \in Int
               /\ Sum(old.counts[l], e.lines[l]) = IF e.lines[l] = Null THEN -1 ELSE Total(all, e.file, l)
    <3>1. CASE e.lines[l] = Null
      BY <1>5, <3>1 DEF Sum
    <3>2. CASE e.lines[l] # Null
      <4> DEFINE x == e.lines[l]
                 t == Total(entries, e.file, l)
                 u == Total(all, e.file, l)
      <4>1. x \in Nat /\ u = t + x /\ t \in Nat /\ old.counts[l] = t
        BY <1>5, <1>6, <1>9, <3>2, CountIs
      <4>2. u <= IntMax
        BY DEF Bounded
      <4> HIDE DEF x, t, u
      <4>3. x <= IntMax /\ t + x \in Nat /\ t + x <= IntMax
        BY <4>1, <4>2, MergeAssumption
      <4>4. Wrap(x) = x /\ Wrap(t + x) = t + x
        BY <4>1, <4>3, WrapIs
      <4>5. Sum(old.counts[l], x) = Wrap(old.counts[l] + Wrap(x))
        BY <3>2 DEF Sum, x
      <4>6. Sum(old.counts[l], x) = u
        BY <4>1, <4>4, <4>5
      <4> QED
        BY <3>2, <4>1, <4>6 DEF x, u
    <3> QED
      BY <3>1, <3>2
  <2>2. DOMAIN old.counts = 1 .. Len(e.lines)
    BY <1>4, <1>5, SeqProps
  <2>3. counts = [l \in 1 .. Len(e.lines) |-> Sum(old.counts[l], e.lines[l])]
    BY <2>2 DEF AddLines
  <2> HIDE DEF counts, all, old
  <2>4. counts \in Seq(Int) /\ Len(counts) = Len(e.lines) /\ \A l \in 1 .. Len(e.lines) : counts[l] = Sum(old.counts[l], e.lines[l])
    BY <1>1, <2>1, <2>3
  <2> QED
    BY <2>1, <2>4
<1>11. row.file = e.file /\ row.source = Source(old.source, e.source) /\ row.counts = counts
  BY <1>4
<1>12. row \in Row
  <2>1. Source(old.source, e.source) \in Texts \cup {NoSource}
    BY <1>1, <1>4 DEF Source
  <2> HIDE DEF counts, old
  <2> QED
    BY <1>1, <1>4, <1>10, <2>1 DEF Row
<1>13. /\ new \in Seq(Row) /\ Len(new) = m /\ new[at] = row
       /\ \A i \in 1 .. m : i # at => new[i] = files[i]
  <2> HIDE DEF row
  <2>1. new = [i \in 1 .. m |-> IF i = at THEN row ELSE files[i]]
    BY <1>3
  <2> HIDE DEF new
  <2>2. \A i \in 1 .. m : new[i] \in Row
    BY <1>3, <1>12, <2>1
  <2> QED
    BY <1>3, <2>1, <2>2
<1>14. \A i \in 1 .. m : new[i].file = files[i].file
  BY <1>4, <1>11, <1>13
<1>15. \A file : FirstSource(all, file) = IF FirstSource(entries, file) # NoSource THEN FirstSource(entries, file)
                                          ELSE IF e.file = file THEN e.source ELSE NoSource
  BY FirstAppend
<1> HIDE DEF all, counts, row, new, old
<1>16. \A k \in 1 .. Len(all) : \E i \in 1 .. Len(new) : new[i].file = all[k].file
  <2>1. ASSUME NEW k \in 1 .. n PROVE \E i \in 1 .. m : files[i].file = all[k].file
    <3>1. \E i \in 1 .. m : files[i].file = entries[k].file
      BY DEF Holds
    <3> QED
      BY <1>2, <3>1
  <2>2. at \in 1 .. m /\ files[at].file = all[n + 1].file
    BY <1>2
  <2>3. ASSUME NEW k \in 1 .. Len(all) PROVE \E i \in 1 .. m : files[i].file = all[k].file
    <3>1. k \in 1 .. n \/ k = n + 1
      BY <1>2
    <3>2. CASE k \in 1 .. n
      BY <2>1, <3>2
    <3>3. CASE k = n + 1
      BY <2>2, <3>3
    <3> QED
      BY <3>1, <3>2, <3>3
  <2>4. Len(new) = m
    BY <1>13
  <2> HIDE DEF m, n
  <2> QED
    BY <1>14, <2>3, <2>4
<1>17. ASSUME NEW i \in 1 .. m
       PROVE  /\ \E k \in 1 .. Len(all) : all[k].file = new[i].file
              /\ new[i].source = FirstSource(all, new[i].file)
  <2>1. /\ \E k \in 1 .. n : entries[k].file = files[i].file
        /\ files[i].source = FirstSource(entries, files[i].file)
    BY DEF Holds
  <2>2. \E k \in 1 .. Len(all) : all[k].file = files[i].file
    BY <1>2, <2>1
  <2>3. CASE i = at
    <3>1. new[i].source = Source(old.source, e.source) /\ old.source = FirstSource(entries, e.file) /\ files[i].file = e.file
      BY <1>11, <1>13, <2>1, <2>3 DEF old
    <3>2. new[i].source = FirstSource(all, e.file)
      BY <1>15, <3>1 DEF Source
    <3> QED
      BY <1>14, <2>2, <3>1, <3>2
  <2>4. CASE i # at
    <3>1. files[i].file # e.file
      BY <2>4 DEF Holds
    <3>2. FirstSource(all, files[i].file) = FirstSource(entries, files[i].file)
      BY <1>15, <3>1
    <3> QED
      BY <1>13, <2>1, <2>2, <2>4, <3>2
  <2> QED
    BY <2>3, <2>4
<1>18. ASSUME NEW i \in 1 .. m, NEW k \in 1 .. n + 1, new[i].file = all[k].file
       PROVE  Counted(new[i].counts, all, all[k])
  <2>1. CASE i # at
    <3>1. files[i].file # e.file
      BY <2>1 DEF Holds
    <3>2. k \in 1 .. n /\ all[k] = entries[k] /\ files[i].file = entries[k].file
      BY <1>2, <1>14, <1>18, <3>1
    <3>3. Counted(files[i].counts, entries, entries[k])
      BY <3>2 DEF Holds
    <3>4. \A l : Total(all, entries[k].file, l) = Total(entries, entries[k].file, l)
      BY <1>7, <3>1, <3>2
    <3> QED
      BY <1>13, <2>1, <3>2, <3>3, <3>4 DEF Counted
  <2>2. CASE i = at /\ k = n + 1
    <3>1. Counted(counts, all, e)
      BY <1>5, <1>10 DEF Counted
    <3> QED
      BY <1>2, <1>11, <1>13, <2>2, <3>1
  <2>3. CASE i = at /\ k \in 1 .. n
    <3>1. entries[k].file = e.file /\ all[k] = entries[k]
      BY <1>2, <1>14, <1>18, <2>3
    <3>2. Counted(old.counts, entries, entries[k])
      BY <2>3, <3>1 DEF Holds, old
    <3>3. Len(counts) = Len(entries[k].lines)
      BY <1>5, <1>10, <3>2 DEF Counted
    <3>4. ASSUME NEW l \in 1 .. Len(counts)
          PROVE  entries[k].lines[l] # Other /\ counts[l] = IF entries[k].lines[l] = Null THEN -1 ELSE Total(all, e.file, l)
      <4>1. /\ entries[k].lines[l] # Other
            /\ old.counts[l] = IF entries[k].lines[l] = Null THEN -1 ELSE Total(entries, e.file, l)
        BY <1>5, <1>10, <3>1, <3>2 DEF Counted
      <4>2. old.counts[l] = -1 <=> entries[k].lines[l] = Null
        BY <1>6, <4>1
      <4> QED
        BY <1>5, <1>10, <4>1, <4>2
    <3>5. Counted(counts, all, entries[k])
      BY <3>1, <3>3, <3>4 DEF Counted
    <3> QED
      BY <1>11, <1>13, <2>3, <3>1, <3>5
  <2> QED
    BY <1>2, <2>1, <2>2, <2>3
<1>19. \A i, k \in 1 .. m : new[i].file = new[k].file => i = k
  BY <1>14 DEF Holds
<1>20. Holds(new, all)
  BY <1>2, <1>13, <1>16, <1>17, <1>18, <1>19 DEF Holds
<1> QED
  BY <1>20 DEF new, row, counts, all, old
\* AddEntry keeps a table sound.
LEMMA AddsEntry ==
  ASSUME NEW table, NEW entries \in Seq(FileEntry), Sound(table, entries), NEW e \in FileEntry,
         Bounded(Append(entries, e))
  PROVE  Sound(AddEntry(table, e), Append(entries, e))
<1> DEFINE all == Append(entries, e)
           at == Index(table.files, e.file)
           old == table.files[at]
           refusal == Refusal(old.counts, e.lines)
<1>1. /\ all \in Seq(FileEntry) /\ Len(entries) \in Nat /\ Len(all) = Len(entries) + 1 /\ all[Len(entries) + 1] = e
  BY AppendProps
<1>2. CASE table.result # 0
  <2>1. AddEntry(table, e) = table
    BY <1>2 DEF AddEntry
  <2>2. ~Agree(entries)
    BY <1>2 DEF Sound
  <2>3. ~Agree(all)
    <3>1. <<e>> \in Seq(FileEntry) /\ all = entries \o <<e>>
      BY AppendIsConcat
    <3> QED
      BY <2>2, <3>1, AgreeFront
  <2> QED
    BY <1>2, <2>1, <2>3 DEF Sound
<1>3. CASE table.result = 0
  <2>1. table = [files |-> table.files, result |-> 0] /\ Holds(table.files, entries)
    BY <1>3 DEF Sound
  <2>2. table.files \in Seq(Row) /\ Len(table.files) \in Nat
    <3>1. table.files \in Seq(Row)
      BY <2>1 DEF Holds
    <3> QED
      BY <3>1, SeqProps
  <2>3. CASE at = 0
    <3>1. \A i \in 1 .. Len(table.files) : table.files[i].file # e.file
      BY <2>2, <2>3, IndexIs
    <3>2. CASE \E l \in DOMAIN e.lines : e.lines[l] = Other
      <4>1. AddEntry(table, e) = NoTable(-1)
        BY <1>3, <2>3, <3>2 DEF AddEntry
      <4>2. AddEntry(table, e).result # 0
        BY <4>1 DEF NoTable
      <4>3. ~Agree(all)
        <5>1. \E l \in 1 .. Len(all[Len(entries) + 1].lines) : all[Len(entries) + 1].lines[l] = Other
          BY <1>1, <3>2, EntryProps
        <5>2. Len(entries) + 1 \in 1 .. Len(all)
          BY <1>1
        <5> QED
          BY <1>1, <5>1, <5>2, AgreeIs
      <4> QED
        BY <4>2, <4>3 DEF Sound
    <3>3. CASE ~\E l \in DOMAIN e.lines : e.lines[l] = Other
      <4> DEFINE new == Append(table.files, [file |-> e.file, source |-> e.source,
                                             counts |-> [l \in DOMAIN e.lines |-> Stored(e.lines[l])]])
      <4>1. AddEntry(table, e) = [table EXCEPT !.files = new]
        BY <1>3, <2>3, <3>3 DEF AddEntry
      <4>2. \A l \in 1 .. Len(e.lines) : e.lines[l] # Other
        BY <3>3, EntryProps
      <4>3. Holds(new, all)
        BY <2>1, <3>1, <4>2, AddsFirst
      <4> HIDE DEF new, all
      <4>4. AddEntry(table, e) = [files |-> new, result |-> 0]
        BY <2>1, <4>1
      <4> QED
        BY <4>3, <4>4 DEF Sound, all
    <3> QED
      BY <3>2, <3>3
  <2>4. CASE at # 0
    <3>1. at \in 1 .. Len(table.files) /\ old.file = e.file
      BY <2>2, <2>4, IndexIs
    <3>2. CASE refusal # 0
      <4>1. AddEntry(table, e) = NoTable(refusal)
        BY <1>3, <2>4, <3>2 DEF AddEntry
      <4>2. AddEntry(table, e).result # 0
        BY <3>2, <4>1 DEF NoTable
      <4>3. ~Agree(all)
        BY <2>1, <3>1, <3>2, RefusalIs
      <4> QED
        BY <4>2, <4>3 DEF Sound
    <3>3. CASE refusal = 0
      <4> DEFINE row == [file |-> old.file, source |-> Source(old.source, e.source), counts |-> AddLines(old.counts, e.lines)]
                 new == [table.files EXCEPT ![at] = row]
      <4>1. AddEntry(table, e) = [table EXCEPT !.files[at] = row]
        BY <1>3, <2>4, <3>3 DEF AddEntry
      <4>2. Holds(new, all)
        BY <2>1, <3>1, <3>3, AddsAgain
      <4> HIDE DEF row, all, at
      <4>3. AddEntry(table, e) = [files |-> new, result |-> 0]
        BY <2>1, <4>1
      <4> QED
        BY <4>2, <4>3 DEF Sound, all
    <3> QED
      BY <3>2, <3>3
  <2> QED
    BY <2>3, <2>4
<1> QED
  BY <1>2, <1>3

----------------------------------------------------------------------------
(* A document more. *)

\* f[n] is the table behind the first n entries of document
Parsing(table, document, f) ==
  f = [n \in 0 .. Len(document) |-> IF n = 0 THEN table ELSE AddEntry(f[n - 1], document[n])]

LEMMA ParsingExists ==
  ASSUME NEW table, NEW document, Len(document) \in Nat
  PROVE  \E f : Parsing(table, document, f)
<1> DEFINE Goes(f, n) == f = [i \in 0 .. n |-> IF i = 0 THEN table ELSE AddEntry(f[i - 1], document[i])]
           T == {n \in Nat : \E f : Goes(f, n)}
<1>1. 0 \in T
  <2>1. Goes([i \in 0 .. 0 |-> table], 0)
    OBVIOUS
  <2> QED
    BY <2>1
<1>2. ASSUME NEW n \in T PROVE n + 1 \in T
  <2>1. PICK f : Goes(f, n)
    OBVIOUS
  <2> DEFINE g == [i \in 0 .. n + 1 |-> IF i <= n THEN f[i] ELSE AddEntry(f[n], document[n + 1])]
  <2>2. ASSUME NEW i \in 0 .. n + 1
        PROVE  g[i] = IF i = 0 THEN table ELSE AddEntry(g[i - 1], document[i])
    <3>1. CASE i = 0
      <4>1. f[0] = table
        BY <2>1
      <4> QED
        BY <3>1, <4>1
    <3>2. CASE i # 0 /\ i <= n
      <4>1. f[i] = AddEntry(f[i - 1], document[i])
        BY <2>1, <3>2
      <4>2. g[i] = f[i] /\ g[i - 1] = f[i - 1]
        BY <3>2
      <4> QED
        BY <3>2, <4>1, <4>2
    <3>3. CASE i = n + 1
      <4>1. g[i] = AddEntry(f[n], document[i]) /\ g[i - 1] = f[n]
        BY <3>3
      <4> QED
        BY <3>3, <4>1
    <3> QED
      BY <3>1, <3>2, <3>3
  <2>3. Goes(g, n + 1)
    <3> HIDE DEF g
    <3>1. DOMAIN g = 0 .. n + 1 /\ g = [i \in DOMAIN g |-> g[i]]
      BY DEF g
    <3> QED
      BY <2>2, <3>1
  <2> HIDE DEF g, Goes
  <2>4. n + 1 \in Nat /\ \E f2 : Goes(f2, n + 1)
    BY <2>3
  <2> QED
    BY <2>4
<1>3. T = Nat
  <2> HIDE DEF T
  <2>1. T \subseteq Nat
    BY DEF T
  <2> QED
    BY <1>1, <1>2, <2>1, Induction
<1>4. Len(document) \in T
  BY <1>3
<1> QED
  BY <1>4 DEF Parsing

LEMMA ParseIs ==
  ASSUME NEW table, NEW document, Len(document) \in Nat
  PROVE  \E f : /\ f[0] = table /\ ParseJson(table, document) = f[Len(document)]
                /\ \A n \in 1 .. Len(document) : f[n] = AddEntry(f[n - 1], document[n])
<1> DEFINE parsed == CHOOSE f : Parsing(table, document, f)
<1>1. Parsing(table, document, parsed)
  BY ParsingExists
<1>2. ParseJson(table, document) = parsed[Len(document)]
  BY DEF ParseJson, Parsing
<1> HIDE DEF parsed
<1>3. parsed[0] = table /\ \A n \in 1 .. Len(document) : parsed[n] = AddEntry(parsed[n - 1], document[n])
  BY <1>1 DEF Parsing
<1> QED
  BY <1>2, <1>3

LEMMA BoundedFront ==
  ASSUME NEW a \in Seq(FileEntry), NEW b \in Seq(FileEntry), Bounded(a \o b)
  PROVE  Bounded(a)
<1>1. ASSUME NEW file, NEW l PROVE Total(a, file, l) <= IntMax
  <2>1. Total(a, file, l) \in Nat /\ Total(b, file, l) \in Nat /\ Total(a \o b, file, l) = Total(a, file, l) + Total(b, file, l)
    BY SumsAdd
  <2>2. Total(a \o b, file, l) <= IntMax
    BY DEF Bounded
  <2> QED
    BY <2>1, <2>2, MergeAssumption
<1> QED
  BY <1>1 DEF Bounded

LEMMA Parts ==
  ASSUME NEW S, NEW s \in Seq(S), NEW n \in 0 .. Len(s)
  PROVE  /\ SubSeq(s, 1, n) \in Seq(S) /\ SubSeq(s, n + 1, Len(s)) \in Seq(S)
         /\ s = SubSeq(s, 1, n) \o SubSeq(s, n + 1, Len(s))
<1> DEFINE a == SubSeq(s, 1, n)
           b == SubSeq(s, n + 1, Len(s))
           m == Len(s) - n
<1>1. Len(s) \in Nat /\ DOMAIN s = 1 .. Len(s) /\ \A i \in 1 .. Len(s) : s[i] \in S
  BY SeqProps
<1>2. m \in Nat /\ \A i \in 1 .. m : n + i \in 1 .. Len(s)
  BY <1>1
<1>3. a \in Seq(S) /\ Len(a) = n /\ \A i \in 1 .. n : a[i] = s[i]
  BY <1>1
<1>4. b = [i \in 1 .. m |-> s[n + i]]
  <2>1. b = [i \in 1 .. (1 + Len(s)) - (n + 1) |-> s[(i + (n + 1)) - 1]]
    BY <1>1
  <2>2. (1 + Len(s)) - (n + 1) = m /\ \A i \in 1 .. m : (i + (n + 1)) - 1 = n + i
    BY <1>1
  <2> QED
    BY <2>1, <2>2
<1> HIDE DEF a, b, m
<1>5. b \in Seq(S) /\ Len(b) = m
  BY <1>1, <1>2, <1>4
<1> DEFINE c == a \o b
<1>6. /\ c \in Seq(S) /\ Len(c) = n + m
      /\ \A i \in 1 .. Len(a) : c[i] = a[i]
      /\ \A i \in 1 .. Len(c) : i \in 1 .. Len(a) \/ (i - Len(a) \in 1 .. Len(b) /\ c[i] = b[i - Len(a)])
  <2>1. a \in Seq(S) /\ b \in Seq(S)
    BY <1>3, <1>5
  <2>2. c \in Seq(S)
    BY <2>1, ConcatProps
  <2>3. Len(c) = Len(a) + Len(b)
    BY <2>1, ConcatProps
  <2>4. \A i \in 1 .. Len(a) : c[i] = a[i]
    BY <2>1, ConcatProps
  <2>5. \A i \in 1 .. Len(c) : i \in 1 .. Len(a) \/ (i - Len(a) \in 1 .. Len(b) /\ c[i] = b[i - Len(a)])
    BY <2>1, ConcatProps
  <2> QED
    BY <1>3, <1>5, <2>2, <2>3, <2>4, <2>5
<1> HIDE DEF c
<1>7. ASSUME NEW i \in 1 .. Len(s) PROVE c[i] = s[i]
  <2>1. CASE i \in 1 .. n
    BY <1>3, <1>6, <2>1
  <2>2. CASE ~(i \in 1 .. n)
    <3>1. i \in 1 .. Len(c) /\ n + (i - n) = i
      BY <1>1, <1>6 DEF m
    <3>2. i - n \in 1 .. m /\ c[i] = b[i - n]
      BY <1>3, <1>5, <1>6, <2>2, <3>1
    <3> QED
      BY <1>4, <3>1, <3>2
  <2> QED
    BY <2>1, <2>2
<1>8. c = s
  <2>1. Len(c) = Len(s)
    BY <1>1, <1>6 DEF m
  <2> QED
    BY <1>1, <1>6, <1>7, <2>1, SeqEqual
<1> QED
  BY <1>3, <1>5, <1>8 DEF a, b, c

LEMMA ConcatAssociates ==
  ASSUME NEW S, NEW a \in Seq(S), NEW b \in Seq(S), NEW c \in Seq(S)
  PROVE  a \o (b \o c) = (a \o b) \o c
BY ConcatAssociative

LEMMA ConcatAppends ==
  ASSUME NEW S, NEW a \in Seq(S), NEW b \in Seq(S), NEW x \in S
  PROVE  a \o Append(b, x) = Append(a \o b, x)
<1> DEFINE one == <<x>>
<1>1. one \in Seq(S)
  OBVIOUS
<1>2. Append(b, x) = b \o one /\ Append(a \o b, x) = (a \o b) \o one
  BY AppendIsConcat, ConcatProps
<1> HIDE DEF one
<1> QED
  BY <1>1, <1>2, ConcatAssociates

\* A document is parsed into a table: what it holds are all entries, in front those it held.
LEMMA ParseSound ==
  ASSUME NEW table, NEW entries \in Seq(FileEntry), Sound(table, entries),
         NEW document \in Seq(FileEntry), Bounded(entries \o document)
  PROVE  Sound(ParseJson(table, document), entries \o document)
<1> DEFINE Upto(n) == SubSeq(document, 1, n)
<1>1. Len(document) \in Nat /\ \A n \in 1 .. Len(document) : document[n] \in FileEntry
  BY SeqProps
<1>2. PICK f : /\ f[0] = table /\ ParseJson(table, document) = f[Len(document)]
               /\ \A n \in 1 .. Len(document) : f[n] = AddEntry(f[n - 1], document[n])
  BY <1>1, ParseIs
<1>3. \A n \in 0 .. Len(document) : Upto(n) \in Seq(FileEntry) /\ Bounded(entries \o Upto(n))
  <2>1. ASSUME NEW n \in 0 .. Len(document)
        PROVE  Upto(n) \in Seq(FileEntry) /\ Bounded(entries \o Upto(n))
    <3> DEFINE rest == SubSeq(document, n + 1, Len(document))
    <3>1. Upto(n) \in Seq(FileEntry) /\ rest \in Seq(FileEntry) /\ document = Upto(n) \o rest
      BY Parts
    <3> HIDE DEF rest, Upto
    <3>2. entries \o document = (entries \o Upto(n)) \o rest /\ entries \o Upto(n) \in Seq(FileEntry)
      <4>1. entries \o (Upto(n) \o rest) = (entries \o Upto(n)) \o rest
        BY <3>1, ConcatAssociates
      <4>2. entries \o Upto(n) \in Seq(FileEntry)
        BY <3>1, ConcatProps
      <4> QED
        BY <3>1, <4>1, <4>2
    <3>3. Bounded((entries \o Upto(n)) \o rest)
      BY <3>2
    <3> QED
      BY <3>1, <3>2, <3>3, BoundedFront
  <2> QED
    BY <2>1
<1>4. Upto(0) = <<>> /\ Upto(Len(document)) = document
  BY <1>1
<1>5. \A n \in Nat : n + 1 <= Len(document) => Upto(n + 1) = Append(Upto(n), document[n + 1])
  BY <1>1
<1> HIDE DEF Upto
<1> DEFINE T == {n \in Nat : n <= Len(document) => Sound(f[n], entries \o Upto(n))}
<1>6. 0 \in T
  <2>1. entries \o Upto(0) = entries
    BY <1>4, ConcatEmptySeq
  <2> QED
    BY <1>2, <2>1
<1>7. ASSUME NEW n \in T PROVE n + 1 \in T
  <2>1. CASE n + 1 <= Len(document)
    <3>1. /\ n + 1 \in 1 .. Len(document) /\ n <= Len(document) /\ n \in 0 .. Len(document)
          /\ n + 1 \in 0 .. Len(document) /\ (n + 1) - 1 = n
      BY <1>1, <2>1
    <3> DEFINE all == entries \o Upto(n)
               e == document[n + 1]
    <3>2. Sound(f[n], all) /\ f[n + 1] = AddEntry(f[n], e)
      BY <1>2, <3>1
    <3>3. all \in Seq(FileEntry) /\ e \in FileEntry /\ entries \o Upto(n + 1) = Append(all, e)
      <4>1. Upto(n) \in Seq(FileEntry) /\ e \in FileEntry /\ Upto(n + 1) = Append(Upto(n), e)
        BY <1>1, <1>3, <1>5, <2>1, <3>1
      <4>2. entries \o Append(Upto(n), e) = Append(all, e)
        BY <4>1, ConcatAppends
      <4>3. all \in Seq(FileEntry)
        BY <4>1, ConcatProps
      <4> QED
        BY <4>1, <4>2, <4>3
    <3>4. Bounded(Append(all, e))
      BY <1>3, <3>1, <3>3
    <3> HIDE DEF all, e
    <3>5. Sound(f[n + 1], Append(all, e))
      BY <3>2, <3>3, <3>4, AddsEntry
    <3>6. Sound(f[n + 1], entries \o Upto(n + 1))
      BY <3>3, <3>5
    <3>7. n + 1 \in Nat
      BY <3>1
    <3> QED
      BY <3>6, <3>7
  <2> QED
    BY <2>1
<1> HIDE DEF T
<1>8. T = Nat
  <2>1. T \subseteq Nat
    BY DEF T
  <2> QED
    BY <1>6, <1>7, <2>1, Induction
<1>9. Sound(f[Len(document)], entries \o Upto(Len(document)))
  BY <1>1, <1>8 DEF T
<1> QED
  BY <1>2, <1>4, <1>9

----------------------------------------------------------------------------
(* The documents one after the other. *)

\* f[n] are the entries of the first n documents
Behind(a, b) == a \o b
Joining(documents, f) ==
  f = [i \in 1 .. Len(documents) |-> IF i = 1 THEN documents[i] ELSE Behind(f[i - 1], documents[i])]

LEMMA JoiningExists ==
  ASSUME NEW documents, Len(documents) \in Nat
  PROVE  \E f : Joining(documents, f)
<1> DEFINE Goes(f, n) == f = [i \in 1 .. n |-> IF i = 1 THEN documents[i] ELSE Behind(f[i - 1], documents[i])]
           T == {n \in Nat : \E f : Goes(f, n)}
<1>1. 0 \in T
  <2>1. Goes([i \in 1 .. 0 |-> 0], 0)
    OBVIOUS
  <2> QED
    BY <2>1
<1>2. ASSUME NEW n \in T PROVE n + 1 \in T
  <2>1. PICK f : Goes(f, n)
    OBVIOUS
  <2> DEFINE next == IF n = 0 THEN documents[1] ELSE Behind(f[n], documents[n + 1])
             g == [i \in 1 .. n + 1 |-> IF i <= n THEN f[i] ELSE next]
  <2>2. ASSUME NEW i \in 1 .. n + 1
        PROVE  g[i] = IF i = 1 THEN documents[i] ELSE Behind(g[i - 1], documents[i])
    <3>1. CASE i <= n /\ i = 1
      BY <2>1, <3>1
    <3>2. CASE i <= n /\ i # 1
      <4>1. f[i] = Behind(f[i - 1], documents[i])
        BY <2>1, <3>2
      <4>2. g[i] = f[i] /\ g[i - 1] = f[i - 1]
        BY <3>2
      <4> QED
        BY <3>2, <4>1, <4>2
    <3>3. CASE i = n + 1
      <4>1. CASE n = 0
        BY <3>3, <4>1
      <4>2. CASE n # 0
        <5>1. g[i] = Behind(f[n], documents[i])
          BY <3>3, <4>2
        <5>2. g[i - 1] = f[n] /\ i # 1
          BY <3>3, <4>2
        <5> QED
          BY <5>1, <5>2
      <4> QED
        BY <4>1, <4>2
    <3> QED
      BY <3>1, <3>2, <3>3
  <2>3. Goes(g, n + 1)
    <3> HIDE DEF g
    <3>1. DOMAIN g = 1 .. n + 1 /\ g = [i \in DOMAIN g |-> g[i]]
      BY DEF g
    <3> QED
      BY <2>2, <3>1
  <2> HIDE DEF g, Goes
  <2>4. n + 1 \in Nat /\ \E h : Goes(h, n + 1)
    BY <2>3
  <2> QED
    BY <2>4
<1>3. T = Nat
  <2> HIDE DEF T
  <2>1. T \subseteq Nat
    BY DEF T
  <2> QED
    BY <1>1, <1>2, <2>1, Induction
<1>4. Len(documents) \in T
  BY <1>3
<1> QED
  BY <1>4 DEF Joining

LEMMA EntriesAre ==
  ASSUME NEW documents, Len(documents) \in Nat, Len(documents) # 0
  PROVE  \E f : /\ EntriesOf(documents) = f[Len(documents)]
                /\ f[1] = documents[1]
                /\ \A n \in 2 .. Len(documents) : f[n] = f[n - 1] \o documents[n]
<1> DEFINE flatten == CHOOSE f : Joining(documents, f)
<1>1. Joining(documents, flatten)
  BY JoiningExists
<1>2. EntriesOf(documents) = flatten[Len(documents)]
  BY DEF EntriesOf, FlattenSeq, Joining, Behind
<1> HIDE DEF flatten
<1>3. flatten[1] = documents[1] /\ \A n \in 2 .. Len(documents) : flatten[n] = Behind(flatten[n - 1], documents[n])
  BY <1>1 DEF Joining
<1> QED
  BY <1>2, <1>3 DEF Behind

\* The entries of the documents, and of one more.
LEMMA EntriesNone == EntriesOf(<<>>) = <<>>
BY DEF EntriesOf, FlattenSeq

LEMMA EntriesAppend ==
  ASSUME NEW documents \in Seq(Seq(FileEntry)), NEW d \in Seq(FileEntry)
  PROVE  EntriesOf(Append(documents, d)) = EntriesOf(documents) \o d
<1> DEFINE all == Append(documents, d)
           n == Len(documents)
<1>1. /\ all \in Seq(Seq(FileEntry)) /\ n \in Nat /\ Len(all) = n + 1
      /\ \A i \in 1 .. n : all[i] = documents[i]
      /\ all[n + 1] = d
  BY AppendProps
<1> HIDE DEF all, n
<1>2. PICK g : /\ EntriesOf(all) = g[n + 1] /\ g[1] = all[1]
               /\ \A i \in 2 .. n + 1 : g[i] = g[i - 1] \o all[i]
  <2>1. Len(all) \in Nat /\ Len(all) # 0
    BY <1>1
  <2>2. PICK f : /\ EntriesOf(all) = f[Len(all)] /\ f[1] = all[1]
                 /\ \A i \in 2 .. Len(all) : f[i] = f[i - 1] \o all[i]
    BY <2>1, EntriesAre
  <2>3. Len(all) = n + 1
    BY <1>1
  <2> QED
    BY ONLY <2>2, <2>3
<1>3. CASE n = 0
  <2>1. documents = <<>>
    BY <1>3, EmptySeq DEF n
  <2>2. EntriesOf(all) = d
    BY <1>1, <1>2, <1>3
  <2>3. <<>> \o d = d
    BY ConcatEmptySeq
  <2> QED
    BY <2>1, <2>2, <2>3, EntriesNone DEF all
<1>4. CASE n # 0
  <2>1. PICK f : /\ EntriesOf(documents) = f[n] /\ f[1] = documents[1]
                 /\ \A i \in 2 .. n : f[i] = f[i - 1] \o documents[i]
    BY <1>1, <1>4, EntriesAre DEF n
  <2> DEFINE T == {i \in Nat : i + 1 <= n => f[i + 1] = g[i + 1]}
  <2>2. 0 \in T
    BY <1>1, <1>2, <1>4, <2>1
  <2>3. ASSUME NEW i \in T PROVE i + 1 \in T
    <3>1. CASE (i + 1) + 1 <= n
      <4>1. /\ (i + 1) + 1 \in 2 .. n /\ (i + 1) + 1 \in 2 .. n + 1 /\ (i + 1) + 1 \in 1 .. n
            /\ ((i + 1) + 1) - 1 = i + 1 /\ i + 1 <= n
        BY <1>1, <3>1
      <4>2. f[i + 1] = g[i + 1]
        BY <4>1
      <4>3. f[(i + 1) + 1] = g[(i + 1) + 1]
        BY <1>1, <1>2, <2>1, <4>1, <4>2
      <4> QED
        BY <4>3
    <3> QED
      BY <3>1
  <2> HIDE DEF T
  <2>4. T = Nat
    <3>1. T \subseteq Nat
      BY DEF T
    <3> QED
      BY <2>2, <2>3, <3>1, Induction
  <2>5. n - 1 \in T
    BY <1>1, <1>4, <2>4
  <2>6. f[n] = g[n]
    BY <1>1, <1>4, <2>5 DEF T
  <2>7. g[n + 1] = g[n] \o d
    <3>1. n + 1 \in 2 .. n + 1 /\ (n + 1) - 1 = n
      BY <1>1, <1>4
    <3> QED
      BY <1>1, <1>2, <3>1
  <2> QED
    BY <1>2, <2>1, <2>6, <2>7 DEF all
<1> QED
  BY <1>3, <1>4

LEMMA EntriesType ==
  ASSUME NEW documents \in Seq(Seq(FileEntry))
  PROVE  EntriesOf(documents) \in Seq(FileEntry)
<1> DEFINE n == Len(documents)
<1>1. n \in Nat /\ \A i \in 1 .. n : documents[i] \in Seq(FileEntry)
  BY SeqProps
<1>2. CASE n = 0
  <2>1. EntriesOf(documents) = <<>>
    BY <1>2, EmptySeq, EntriesNone
  <2> QED
    BY <2>1
<1>3. CASE n # 0
  <2>1. PICK f : /\ EntriesOf(documents) = f[n] /\ f[1] = documents[1]
                 /\ \A i \in 2 .. n : f[i] = f[i - 1] \o documents[i]
    BY <1>1, <1>3, EntriesAre
  <2> HIDE DEF n
  <2> DEFINE T == {i \in Nat : i + 1 <= n => f[i + 1] \in Seq(FileEntry)}
  <2>2. 0 \in T
    BY <1>1, <1>3, <2>1
  <2>3. ASSUME NEW i \in T PROVE i + 1 \in T
    <3>1. CASE (i + 1) + 1 <= n
      <4>1. (i + 1) + 1 \in 2 .. n /\ (i + 1) + 1 \in 1 .. n /\ ((i + 1) + 1) - 1 = i + 1 /\ i + 1 <= n
        BY <1>1, <3>1
      <4>2. f[i + 1] \in Seq(FileEntry) /\ documents[(i + 1) + 1] \in Seq(FileEntry)
        BY <1>1, <4>1
      <4>3. f[(i + 1) + 1] = f[i + 1] \o documents[(i + 1) + 1]
        BY <2>1, <4>1
      <4>4. f[(i + 1) + 1] \in Seq(FileEntry)
        BY <4>2, <4>3, ConcatProps
      <4> QED
        BY <4>4
    <3> QED
      BY <3>1
  <2> HIDE DEF T
  <2>4. T = Nat
    <3>1. T \subseteq Nat
      BY DEF T
    <3> QED
      BY <2>2, <2>3, <3>1, Induction
  <2>5. n - 1 \in T
    BY <1>1, <1>3, <2>4
  <2> QED
    BY <1>1, <1>3, <2>1, <2>5 DEF T
<1> QED
  BY <1>2, <1>3

\* The newest source, with a document more.
LEMMA NewestAppend ==
  ASSUME NEW documents \in Seq(Seq(FileEntry)), NEW d \in Seq(FileEntry), NEW file
  PROVE  NewestSource(Append(documents, d), file) =
           IF FirstSource(d, file) # NoSource THEN FirstSource(d, file) ELSE NewestSource(documents, file)
<1> DEFINE all == Append(documents, d)
           n == Len(documents)
           with == {i \in DOMAIN documents : FirstSource(documents[i], file) # NoSource}
           without == {i \in DOMAIN all : FirstSource(all[i], file) # NoSource}
<1>1. /\ all \in Seq(Seq(FileEntry)) /\ n \in Nat /\ Len(all) = n + 1
      /\ \A i \in 1 .. n : all[i] = documents[i]
      /\ all[n + 1] = d
      /\ \A i \in 1 .. n + 1 : i \in 1 .. n \/ i = n + 1
  BY AppendProps
<1>2. DOMAIN documents = 1 .. n /\ DOMAIN all = 1 .. n + 1
  BY <1>1, SeqProps
<1>3. NewestSource(all, file) = IF without = {} THEN Found ELSE FirstSource(all[Max(without)], file)
  BY DEF NewestSource
<1>4. NewestSource(documents, file) = IF with = {} THEN Found ELSE FirstSource(documents[Max(with)], file)
  BY DEF NewestSource
<1>5. /\ with \subseteq 1 .. n /\ \A i \in 1 .. n : i \in with <=> FirstSource(documents[i], file) # NoSource
      /\ without \subseteq 1 .. n + 1 /\ \A i \in 1 .. n + 1 : i \in without <=> FirstSource(all[i], file) # NoSource
  BY <1>2
<1> HIDE DEF all, n, with, without
<1>6. CASE FirstSource(d, file) # NoSource
  <2>1. n + 1 \in without /\ without \subseteq Nat /\ \A i \in without : i <= n + 1
    <3>1. n + 1 \in 1 .. n + 1 /\ FirstSource(all[n + 1], file) # NoSource
      BY <1>1, <1>6
    <3>2. \A i \in 1 .. n + 1 : i \in Nat /\ i <= n + 1
      BY <1>1
    <3> QED
      BY <1>5, <3>1, <3>2
  <2>2. Max(without) = n + 1
    BY <2>1, MaxUnique
  <2> QED
    BY <1>1, <1>3, <1>6, <2>1, <2>2 DEF all
<1>7. CASE FirstSource(d, file) = NoSource
  <2>1. without = with
    <3>1. \A i \in 1 .. n : i \in 1 .. n + 1 /\ (i \in without <=> i \in with)
      BY <1>1, <1>5
    <3>2. n + 1 \notin without
      BY <1>1, <1>5, <1>7
    <3> QED
      BY <1>1, <1>5, <3>1, <3>2
  <2>2. CASE with = {}
    BY <1>3, <1>4, <1>7, <2>1, <2>2 DEF all
  <2>3. CASE with # {}
    <3>1. with \subseteq 0 .. n
      BY <1>1, <1>5
    <3>2. Max(with) \in with
      BY <1>1, <2>3, <3>1, MaxIs
    <3>3. all[Max(with)] = documents[Max(with)]
      BY <1>1, <1>5, <3>2
    <3> QED
      BY <1>3, <1>4, <1>7, <2>1, <2>3, <3>3 DEF all
  <2> QED
    BY <2>2, <2>3
<1> QED
  BY <1>6, <1>7

\* Nothing is the newest source only if nothing is what is found.
LEMMA NewestNone ==
  ASSUME NEW documents \in Seq(Seq(FileEntry)), NEW file, NewestSource(documents, file) = NoSource
  PROVE  Found = NoSource
<1> DEFINE n == Len(documents)
           with == {i \in DOMAIN documents : FirstSource(documents[i], file) # NoSource}
<1>1. n \in Nat /\ DOMAIN documents = 1 .. n
  BY SeqProps
<1>2. NewestSource(documents, file) = IF with = {} THEN Found ELSE FirstSource(documents[Max(with)], file)
  BY DEF NewestSource
<1>3. with \subseteq 0 .. n /\ \A i \in with : FirstSource(documents[i], file) # NoSource
  BY <1>1
<1> HIDE DEF with, n
<1>4. CASE with # {}
  <2>1. Max(with) \in with
    BY <1>1, <1>3, <1>4, MaxIs
  <2> QED
    BY <1>2, <1>3, <1>4, <2>1
<1> QED
  BY <1>2, <1>4

----------------------------------------------------------------------------
(* Entries that cover each other. *)

\* two entries of a file that agree with the same entries
Like(e, x) ==
  /\ e.file = x.file /\ Len(e.lines) = Len(x.lines)
  /\ \A l \in 1 .. Len(e.lines) :
       /\ e.lines[l] = Null <=> x.lines[l] = Null
       /\ e.lines[l] = Other <=> x.lines[l] = Other
Covers(b, a) == \A i \in 1 .. Len(a) : \E k \in 1 .. Len(b) : Like(a[i], b[k])

LEMMA LikeIs ==
  ASSUME NEW e, NEW x, Like(e, x)
  PROVE  /\ e.file = x.file
         /\ Len(e.lines) = Len(x.lines)
         /\ \A l \in 1 .. Len(e.lines) : e.lines[l] = Null <=> x.lines[l] = Null
         /\ \A l \in 1 .. Len(e.lines) : e.lines[l] = Other <=> x.lines[l] = Other
BY DEF Like

LEMMA CoversAgree ==
  ASSUME NEW a \in Seq(FileEntry), NEW b \in Seq(FileEntry), Covers(b, a), Agree(b)
  PROVE  Agree(a)
<1>1. /\ \A k \in 1 .. Len(b) : \A l \in 1 .. Len(b[k].lines) : b[k].lines[l] # Other
      /\ \A k, j \in 1 .. Len(b) : Alike(b[k], b[j])
  BY AgreeIs
<1>2. ASSUME NEW i \in 1 .. Len(a), NEW l \in 1 .. Len(a[i].lines) PROVE a[i].lines[l] # Other
  <2>1. PICK k \in 1 .. Len(b) : Like(a[i], b[k])
    BY DEF Covers
  <2>2. Len(a[i].lines) = Len(b[k].lines) /\ (a[i].lines[l] = Other <=> b[k].lines[l] = Other)
    BY <2>1, LikeIs
  <2>3. l \in 1 .. Len(b[k].lines)
    BY <2>2
  <2>4. b[k].lines[l] # Other
    BY <1>1, <2>3
  <2> QED
    BY <2>2, <2>4
<1>3. ASSUME NEW i \in 1 .. Len(a), NEW j \in 1 .. Len(a), a[i].file = a[j].file
      PROVE  Len(a[i].lines) = Len(a[j].lines) /\ \A l \in 1 .. Len(a[i].lines) : a[i].lines[l] = Null <=> a[j].lines[l] = Null
  <2>1. PICK k \in 1 .. Len(b) : Like(a[i], b[k])
    BY DEF Covers
  <2>2. PICK m \in 1 .. Len(b) : Like(a[j], b[m])
    BY DEF Covers
  <2>3. b[k].file = b[m].file
    BY <1>3, <2>1, <2>2 DEF Like
  <2>4. Len(b[k].lines) = Len(b[m].lines) /\ \A l \in 1 .. Len(b[k].lines) : b[k].lines[l] = Null <=> b[m].lines[l] = Null
    BY <1>1, <2>3 DEF Alike
  <2>5. /\ Len(a[i].lines) = Len(b[k].lines)
        /\ \A l \in 1 .. Len(a[i].lines) : a[i].lines[l] = Null <=> b[k].lines[l] = Null
    BY <2>1, LikeIs
  <2>6. /\ Len(a[j].lines) = Len(b[m].lines)
        /\ \A l \in 1 .. Len(a[j].lines) : a[j].lines[l] = Null <=> b[m].lines[l] = Null
    BY <2>2, LikeIs
  <2> QED
    BY ONLY <2>4, <2>5, <2>6
<1>4. \A i, j \in 1 .. Len(a) : Alike(a[i], a[j])
  BY <1>3 DEF Alike
<1> QED
  BY <1>2, <1>4, AgreeIs

\* a cover of one part, and the other part itself, in either order
LEMMA CoversBoth ==
  ASSUME NEW a \in Seq(FileEntry), NEW b \in Seq(FileEntry), NEW d \in Seq(FileEntry), Covers(b, a)
  PROVE  Covers(b \o d, d \o a) /\ Covers(d \o b, a \o d)
<1> DEFINE da == d \o a
           ad == a \o d
           bd == b \o d
           db == d \o b
<1>1. \A e : Like(e, e)
  BY DEF Like
<1>2. /\ \A i \in 1 .. Len(da) : (\E k \in 1 .. Len(d) : da[i] = d[k]) \/ (\E k \in 1 .. Len(a) : da[i] = a[k])
      /\ \A i \in 1 .. Len(ad) : (\E k \in 1 .. Len(d) : ad[i] = d[k]) \/ (\E k \in 1 .. Len(a) : ad[i] = a[k])
  <2>1. /\ \A i \in 1 .. Len(d) : da[i] = d[i]
        /\ \A i \in 1 .. Len(da) : i \in 1 .. Len(d) \/ (i - Len(d) \in 1 .. Len(a) /\ da[i] = a[i - Len(d)])
    BY ConcatProps
  <2>2. /\ \A i \in 1 .. Len(a) : ad[i] = a[i]
        /\ \A i \in 1 .. Len(ad) : i \in 1 .. Len(a) \/ (i - Len(a) \in 1 .. Len(d) /\ ad[i] = d[i - Len(a)])
    BY ConcatProps
  <2> HIDE DEF da, ad
  <2>3. ASSUME NEW i \in 1 .. Len(da) PROVE (\E k \in 1 .. Len(d) : da[i] = d[k]) \/ (\E k \in 1 .. Len(a) : da[i] = a[k])
    BY <2>1
  <2>4. ASSUME NEW i \in 1 .. Len(ad) PROVE (\E k \in 1 .. Len(d) : ad[i] = d[k]) \/ (\E k \in 1 .. Len(a) : ad[i] = a[k])
    BY <2>2
  <2> QED
    BY <2>3, <2>4
<1>3. /\ \A k \in 1 .. Len(d) : \E j \in 1 .. Len(bd) : bd[j] = d[k]
      /\ \A k \in 1 .. Len(b) : \E j \in 1 .. Len(bd) : bd[j] = b[k]
  <2>1. /\ \A k \in 1 .. Len(b) : k \in 1 .. Len(bd) /\ bd[k] = b[k]
        /\ \A k \in 1 .. Len(d) : Len(b) + k \in 1 .. Len(bd) /\ bd[Len(b) + k] = d[k]
    BY ConcatProps
  <2> HIDE DEF bd
  <2> QED
    BY <2>1
<1>4. /\ \A k \in 1 .. Len(d) : \E j \in 1 .. Len(db) : db[j] = d[k]
      /\ \A k \in 1 .. Len(b) : \E j \in 1 .. Len(db) : db[j] = b[k]
  <2>1. /\ \A k \in 1 .. Len(d) : k \in 1 .. Len(db) /\ db[k] = d[k]
        /\ \A k \in 1 .. Len(b) : Len(d) + k \in 1 .. Len(db) /\ db[Len(d) + k] = b[k]
    BY ConcatProps
  <2> HIDE DEF db
  <2> QED
    BY <2>1
<1> HIDE DEF da, ad, bd, db
<1>5. Covers(bd, da)
  <2>1. ASSUME NEW i \in 1 .. Len(da) PROVE \E j \in 1 .. Len(bd) : Like(da[i], bd[j])
    <3>1. CASE \E k \in 1 .. Len(d) : da[i] = d[k]
      BY <1>1, <1>3, <3>1
    <3>2. CASE \E k \in 1 .. Len(a) : da[i] = a[k]
      <4>1. PICK k \in 1 .. Len(b) : Like(da[i], b[k])
        BY <3>2 DEF Covers
      <4> QED
        BY <1>3, <4>1
    <3> QED
      BY <1>2, <3>1, <3>2
  <2> QED
    BY <2>1 DEF Covers
<1>6. Covers(db, ad)
  <2>1. ASSUME NEW i \in 1 .. Len(ad) PROVE \E j \in 1 .. Len(db) : Like(ad[i], db[j])
    <3>1. CASE \E k \in 1 .. Len(d) : ad[i] = d[k]
      BY <1>1, <1>4, <3>1
    <3>2. CASE \E k \in 1 .. Len(a) : ad[i] = a[k]
      <4>1. PICK k \in 1 .. Len(b) : Like(ad[i], b[k])
        BY <3>2 DEF Covers
      <4> QED
        BY <1>4, <4>1
    <3> QED
      BY <1>2, <3>1, <3>2
  <2> QED
    BY <2>1 DEF Covers
<1> QED
  BY <1>5, <1>6 DEF da, ad, bd, db

----------------------------------------------------------------------------
(* The report. *)

\* r is what entries add up to, which are those of documents
Reports(r, entries, documents) ==
  /\ r \in Seq(FileEntry)
  /\ \A i, j \in 1 .. Len(r) : r[i].file = r[j].file => i = j
  /\ \A k \in 1 .. Len(entries) : \E i \in 1 .. Len(r) : r[i].file = entries[k].file
  /\ \A i \in 1 .. Len(r) :
       /\ \E k \in 1 .. Len(entries) : entries[k].file = r[i].file
       /\ r[i].source = NewestSource(documents, r[i].file)
  /\ \A i \in 1 .. Len(r), k \in 1 .. Len(entries) :
       r[i].file = entries[k].file =>
         /\ Len(r[i].lines) = Len(entries[k].lines)
         /\ \A l \in 1 .. Len(r[i].lines) :
              /\ entries[k].lines[l] # Other
              /\ r[i].lines[l] = IF entries[k].lines[l] = Null THEN Null ELSE Total(entries, entries[k].file, l)
  /\ \A file : (\A k \in 1 .. Len(entries) : entries[k].file # file) => NewestSource(documents, file) = Found

LEMMA FitsIs ==
  ASSUME NEW documents, EntriesOf(documents) \in Seq(FileEntry)
  PROVE  Fits(documents) <=> Bounded(EntriesOf(documents))
<1> DEFINE all == EntriesOf(documents)
<1>1. Len(all) \in Nat /\ DOMAIN all = 1 .. Len(all) /\ \A k \in 1 .. Len(all) : all[k] \in FileEntry
  BY SeqProps
<1>2. Fits(documents) <=> \A e \in ToSet(all) : \A l \in DOMAIN e.lines : Total(all, e.file, l) <= IntMax
  BY DEF Fits
<1>3. all \in Seq(FileEntry)
  OBVIOUS
<1> HIDE DEF all
<1>4. ASSUME Fits(documents), NEW file, NEW l PROVE Total(all, file, l) <= IntMax
  <2>1. CASE \E k \in 1 .. Len(all) : all[k].file = file /\ l \in DOMAIN all[k].lines
    <3>1. PICK k \in 1 .. Len(all) : all[k].file = file /\ l \in DOMAIN all[k].lines
      BY <2>1
    <3>2. all[k] \in ToSet(all)
      BY <1>1 DEF ToSet
    <3> QED
      BY <1>2, <1>4, <3>1, <3>2
  <2>2. CASE ~\E k \in 1 .. Len(all) : all[k].file = file /\ l \in DOMAIN all[k].lines
    <3>1. \A k \in 1 .. Len(all) : CountOf(all[k], file, l) = 0
      BY <2>2 DEF CountOf
    <3>2. 0 \in 0 .. Len(all)
      BY <1>1
    <3>3. Total(all, file, l) = 0
      BY <1>3, <3>1, <3>2, TotalOnly
    <3> QED
      BY <3>3, MergeAssumption
  <2> QED
    BY <2>1, <2>2
<1> QED
  BY <1>2, <1>4 DEF Bounded, all

LEMMA ReportCovers ==
  ASSUME NEW r, NEW entries \in Seq(FileEntry), NEW documents, Reports(r, entries, documents)
  PROVE  Covers(r, entries) /\ Covers(entries, r)
<1>1. \A file, l : Total(entries, file, l) \in Nat
  BY SumsAdd
<1>2. \A n \in Nat : n # Null /\ n # Other
  BY MergeAssumption
<1>3. ASSUME NEW i \in 1 .. Len(r), NEW k \in 1 .. Len(entries), r[i].file = entries[k].file
      PROVE  Like(r[i], entries[k]) /\ Like(entries[k], r[i])
  <2>1. /\ Len(r[i].lines) = Len(entries[k].lines)
        /\ \A l \in 1 .. Len(r[i].lines) :
             /\ entries[k].lines[l] # Other
             /\ r[i].lines[l] = IF entries[k].lines[l] = Null THEN Null ELSE Total(entries, entries[k].file, l)
    BY <1>3 DEF Reports
  <2>2. ASSUME NEW l \in 1 .. Len(r[i].lines)
        PROVE  /\ r[i].lines[l] = Null <=> entries[k].lines[l] = Null
               /\ r[i].lines[l] # Other /\ entries[k].lines[l] # Other
    <3> DEFINE t == Total(entries, entries[k].file, l)
    <3>1. t # Null /\ t # Other
      BY <1>1, <1>2
    <3> HIDE DEF t
    <3>2. entries[k].lines[l] # Other /\ r[i].lines[l] = IF entries[k].lines[l] = Null THEN Null ELSE t
      BY <2>1 DEF t
    <3> QED
      BY <3>1, <3>2, MergeAssumption
  <2> QED
    BY <1>3, <2>1, <2>2 DEF Like
<1>4. ASSUME NEW k \in 1 .. Len(entries) PROVE \E i \in 1 .. Len(r) : Like(entries[k], r[i])
  <2>1. PICK i \in 1 .. Len(r) : r[i].file = entries[k].file
    BY DEF Reports
  <2> QED
    BY <1>3, <2>1
<1>5. ASSUME NEW i \in 1 .. Len(r) PROVE \E k \in 1 .. Len(entries) : Like(r[i], entries[k])
  <2>1. PICK k \in 1 .. Len(entries) : entries[k].file = r[i].file
    BY DEF Reports
  <2> QED
    BY <1>3, <2>1
<1> QED
  BY <1>4, <1>5 DEF Covers

\* A report has the sums of the entries it is made of.
LEMMA ReportTotals ==
  ASSUME NEW r, NEW entries \in Seq(FileEntry), NEW documents, Reports(r, entries, documents), NEW file, NEW l
  PROVE  Total(r, file, l) = Total(entries, file, l)
<1> DEFINE n == Len(entries)
           m == Len(r)
<1>1. r \in Seq(FileEntry)
  BY DEF Reports
<1>2. /\ m \in Nat /\ n \in Nat
      /\ \A i \in 1 .. m : r[i] \in FileEntry
      /\ \A k \in 1 .. n : entries[k] \in FileEntry
  BY <1>1, SeqProps
<1>3. 0 \in 0 .. m /\ 0 \in 0 .. n
  BY <1>2
<1>4. (\A k \in 1 .. n : CountOf(entries[k], file, l) = 0) => Total(entries, file, l) = 0
  BY <1>3, TotalOnly
<1>5. CASE \A i \in 1 .. m : r[i].file # file
  <2>1. \A i \in 1 .. m : CountOf(r[i], file, l) = 0
    BY <1>5, CountOther
  <2>2. Total(r, file, l) = 0
    BY <1>1, <1>3, <2>1, TotalOnly
  <2>3. \A k \in 1 .. n : entries[k].file # file
    BY <1>5 DEF Reports
  <2>4. \A k \in 1 .. n : CountOf(entries[k], file, l) = 0
    BY <2>3, CountOther
  <2> QED
    BY <1>4, <2>2, <2>4
<1>6. ASSUME NEW i \in 1 .. m, r[i].file = file
      PROVE  Total(r, file, l) = Total(entries, file, l)
  <2>1. Total(r, file, l) = CountOf(r[i], file, l)
    <3>1. \A j \in 1 .. m : j # i => r[j].file # file
      BY <1>6 DEF Reports
    <3>2. \A j \in 1 .. m : j # i => CountOf(r[j], file, l) = 0
      BY <3>1, CountOther
    <3>3. i \in 0 .. m /\ i # 0
      BY <1>2
    <3>4. Total(r, file, l) = IF i = 0 THEN 0 ELSE CountOf(r[i], file, l)
      BY <1>1, <3>2, <3>3, TotalOnly
    <3> QED
      BY <3>3, <3>4
  <2>2. /\ Len(r[i].lines) \in Nat /\ DOMAIN r[i].lines = 1 .. Len(r[i].lines)
        /\ \A k \in 1 .. n : DOMAIN entries[k].lines = 1 .. Len(entries[k].lines)
    BY <1>2, EntryProps
  <2>3. \A k \in 1 .. n : entries[k].file = file =>
          /\ Len(r[i].lines) = Len(entries[k].lines)
          /\ \A x \in 1 .. Len(r[i].lines) :
               /\ entries[k].lines[x] # Other
               /\ r[i].lines[x] = IF entries[k].lines[x] = Null THEN Null ELSE Total(entries, file, x)
    BY <1>6 DEF Reports
  <2>4. CASE l \notin 1 .. Len(r[i].lines)
    <3>1. CountOf(r[i], file, l) = 0
      BY <2>2, <2>4 DEF CountOf
    <3>2. \A k \in 1 .. n : CountOf(entries[k], file, l) = 0
      BY <2>2, <2>3, <2>4 DEF CountOf
    <3> QED
      BY <1>4, <2>1, <3>1, <3>2
  <2>5. CASE l \in 1 .. Len(r[i].lines)
    <3> DEFINE t == Total(entries, file, l)
    <3>1. t \in Nat
      BY SumsAdd
    <3>2. t # Null /\ t # Other
      BY <3>1, MergeAssumption
    <3>3. PICK k \in 1 .. n : entries[k].file = file
      BY <1>6 DEF Reports
    <3>4. r[i].lines[l] = Null \/ r[i].lines[l] = t
      BY <2>3, <2>5, <3>3
    <3>5. CASE r[i].lines[l] = Null
      <4>1. CountOf(r[i], file, l) = 0
        BY <3>5 DEF CountOf
      <4>2. ASSUME NEW j \in 1 .. n PROVE CountOf(entries[j], file, l) = 0
        <5>1. entries[j].file = file => entries[j].lines[l] = Null
          BY <2>3, <2>5, <3>2, <3>5
        <5> QED
          BY <5>1 DEF CountOf
      <4> QED
        BY <1>4, <2>1, <4>1, <4>2
    <3>6. CASE r[i].lines[l] = t
      <4>1. CountOf(r[i], file, l) = r[i].lines[l]
        BY <1>6, <2>2, <2>5, <3>2, <3>6 DEF CountOf
      <4> QED
        BY <2>1, <3>6, <4>1
    <3> QED
      BY <3>4, <3>5, <3>6
  <2> QED
    BY <2>4, <2>5
<1> QED
  BY <1>5, <1>6

\* The table that is empty, and the report that is not there.
LEMMA TableSound == Sound(Table, <<>>)
<1> DEFINE none == <<>>
<1>1. Table.files = none /\ Table = [files |-> Table.files, result |-> 0]
  BY DEF Table
<1>2. Len(none) = 0 /\ none \in Seq(Row)
  OBVIOUS
<1> HIDE DEF none
<1>3. Holds(none, none)
  BY <1>2 DEF Holds
<1> QED
  BY <1>1, <1>3 DEF Sound, none

LEMMA NoReport == Reports(<<>>, <<>>, <<>>)
<1> DEFINE none == <<>>
<1>1. Len(none) = 0 /\ none \in Seq(FileEntry) /\ DOMAIN none = {}
  OBVIOUS
<1> HIDE DEF none
<1>2. \A file : NewestSource(none, file) = Found
  BY <1>1 DEF NewestSource
<1>3. Reports(none, none, none)
  BY <1>1, <1>2 DEF Reports
<1> QED
  BY <1>3 DEF none

\* What is written of a table reports what the table holds, of entries that cover those
\* it has parsed and have the same sums.
LEMMA WritesReport ==
  ASSUME NEW table, NEW es \in Seq(FileEntry), Holds(table.files, es),
         NEW all \in Seq(FileEntry), NEW documents,
         Covers(es, all), Covers(all, es),
         \A file, l : Total(es, file, l) = Total(all, file, l),
         \A file : NewestSource(documents, file) =
                     IF FirstSource(es, file) = NoSource THEN Found ELSE FirstSource(es, file)
  PROVE  Reports(WriteJson(table, Found), all, documents)
<1> DEFINE files == table.files
           m == Len(files)
           n == Len(es)
           new == WriteJson(table, Found)
           lines(i) == [l \in DOMAIN files[i].counts |-> IF files[i].counts[l] < 0 THEN Null ELSE files[i].counts[l]]
<1>1. m \in Nat /\ DOMAIN files = 1 .. m /\ \A i \in 1 .. m : files[i] \in Row
  <2>1. files \in Seq(Row)
    BY DEF Holds
  <2> QED
    BY <2>1, SeqProps
<1>2. new = [i \in 1 .. m |-> [file |-> files[i].file, lines |-> lines(i),
                               source |-> IF files[i].source = NoSource THEN Found ELSE files[i].source]]
  BY <1>1 DEF WriteJson
<1>3. ASSUME NEW i \in 1 .. m
      PROVE  /\ Len(files[i].counts) \in Nat /\ DOMAIN files[i].counts = 1 .. Len(files[i].counts)
             /\ \A l \in 1 .. Len(files[i].counts) : files[i].counts[l] \in Int
  <2>1. files[i].counts \in Seq(Int)
    BY <1>1 DEF Row
  <2> QED
    BY <2>1, SeqProps
<1>4. ASSUME NEW i \in 1 .. m
      PROVE  /\ lines(i) \in Seq(Element) /\ Len(lines(i)) = Len(files[i].counts)
             /\ \A l \in 1 .. Len(files[i].counts) :
                  lines(i)[l] = IF files[i].counts[l] < 0 THEN Null ELSE files[i].counts[l]
  <2> DEFINE c == files[i].counts
             k == Len(c)
  <2>1. k \in Nat /\ DOMAIN c = 1 .. k /\ \A l \in 1 .. k : c[l] \in Int
    BY <1>3
  <2>2. lines(i) = [l \in 1 .. k |-> IF c[l] < 0 THEN Null ELSE c[l]]
    BY <2>1
  <2> HIDE DEF c, k, lines
  <2>3. \A l \in 1 .. k : (IF c[l] < 0 THEN Null ELSE c[l]) \in Element
    BY <2>1 DEF Element
  <2>4. lines(i) \in Seq(Element) /\ Len(lines(i)) = k
    BY <2>1, <2>2, <2>3
  <2>5. \A l \in 1 .. k : lines(i)[l] = IF c[l] < 0 THEN Null ELSE c[l]
    BY <2>2
  <2> QED
    BY <2>4, <2>5 DEF k, c
<1> HIDE DEF new, lines
<1>5. ASSUME NEW i \in 1 .. m
      PROVE  /\ new[i] \in FileEntry
             /\ new[i].file = files[i].file /\ new[i].lines = lines(i)
             /\ new[i].source = IF files[i].source = NoSource THEN Found ELSE files[i].source
  <2>1. files[i].file \in Ids /\ files[i].source \in Texts \cup {NoSource}
    BY <1>1 DEF Row
  <2>2. /\ new[i].file = files[i].file /\ new[i].lines = lines(i)
        /\ new[i].source = IF files[i].source = NoSource THEN Found ELSE files[i].source
    BY <1>2
  <2>3. new[i] \in FileEntry
    <3>1. lines(i) \in Seq(Element)
      BY <1>4
    <3>2. (IF files[i].source = NoSource THEN Found ELSE files[i].source) \in Texts \cup {NoSource}
      BY <2>1, DocumentsAssumption
    <3> QED
      BY <1>2, <2>1, <3>1, <3>2 DEF FileEntry
  <2> QED
    BY <2>2, <2>3
<1>6. new \in Seq(FileEntry) /\ Len(new) = m
  <2>1. DOMAIN new = 1 .. m /\ new = [i \in 1 .. m |-> new[i]]
    BY <1>2
  <2>2. \A i \in 1 .. m : new[i] \in FileEntry
    BY <1>5
  <2> HIDE DEF m
  <2> QED
    BY <1>1, <2>1, <2>2
<1>7. \A i, j \in 1 .. m : new[i].file = new[j].file => i = j
  <2>1. \A i, j \in 1 .. m : files[i].file = files[j].file => i = j
    BY DEF Holds
  <2> QED
    BY <1>5, <2>1
<1>8. ASSUME NEW k \in 1 .. Len(all) PROVE \E i \in 1 .. m : new[i].file = all[k].file
  <2>1. PICK j \in 1 .. n : Like(all[k], es[j])
    BY DEF Covers
  <2>2. PICK i \in 1 .. m : files[i].file = es[j].file
    BY DEF Holds
  <2>3. all[k].file = es[j].file
    BY <2>1, LikeIs
  <2> QED
    BY <1>5, <2>2, <2>3
<1>9. ASSUME NEW i \in 1 .. m
      PROVE  /\ \E k \in 1 .. Len(all) : all[k].file = new[i].file
             /\ new[i].source = NewestSource(documents, new[i].file)
  <2>1. PICK j \in 1 .. n : es[j].file = files[i].file
    BY DEF Holds
  <2>2. PICK k \in 1 .. Len(all) : Like(es[j], all[k])
    BY DEF Covers
  <2>3. all[k].file = new[i].file
    <3>1. es[j].file = all[k].file
      BY <2>2, LikeIs
    <3> QED
      BY <1>5, <2>1, <3>1
  <2>4. files[i].source = FirstSource(es, files[i].file)
    BY DEF Holds
  <2>5. new[i].source = NewestSource(documents, new[i].file)
    BY <1>5, <2>4
  <2> QED
    BY <2>3, <2>5
<1>10. ASSUME NEW i \in 1 .. m, NEW k \in 1 .. Len(all), new[i].file = all[k].file
       PROVE  /\ Len(new[i].lines) = Len(all[k].lines)
              /\ \A l \in 1 .. Len(new[i].lines) :
                   /\ all[k].lines[l] # Other
                   /\ new[i].lines[l] = IF all[k].lines[l] = Null THEN Null ELSE Total(all, all[k].file, l)
  <2> DEFINE c == files[i].counts
             x == all[k]
  <2>1. PICK j \in 1 .. n : Like(x, es[j])
    BY DEF Covers
  <2> DEFINE y == es[j]
  <2>2. /\ x.file = y.file
        /\ Len(x.lines) = Len(y.lines)
        /\ \A l \in 1 .. Len(x.lines) : x.lines[l] = Null <=> y.lines[l] = Null
        /\ \A l \in 1 .. Len(x.lines) : x.lines[l] = Other <=> y.lines[l] = Other
    BY <2>1, LikeIs
  <2>3. files[i].file = y.file
    BY <1>5, <1>10, <2>2
  <2>4. Counted(c, es, y)
    BY <2>3 DEF Holds
  <2>5. /\ new[i].lines = lines(i) /\ Len(lines(i)) = Len(c)
        /\ \A l \in 1 .. Len(c) : lines(i)[l] = IF c[l] < 0 THEN Null ELSE c[l]
    BY <1>4, <1>5
  <2>6. \A l : Total(es, y.file, l) = Total(all, x.file, l) /\ Total(all, x.file, l) \in Nat
    BY <2>2, SumsAdd
  <2> HIDE DEF c, x, y
  <2>7. /\ Len(c) = Len(y.lines)
        /\ \A l \in 1 .. Len(c) : y.lines[l] # Other /\ c[l] = IF y.lines[l] = Null THEN -1 ELSE Total(es, y.file, l)
    BY <2>4 DEF Counted
  <2>8. ASSUME NEW l \in 1 .. Len(c)
        PROVE  x.lines[l] # Other /\ lines(i)[l] = IF x.lines[l] = Null THEN Null ELSE Total(all, x.file, l)
    <3> DEFINE t == Total(all, x.file, l)
    <3>1. t \in Nat /\ c[l] = IF y.lines[l] = Null THEN -1 ELSE t
      BY <2>6, <2>7
    <3>2. x.lines[l] # Other /\ (x.lines[l] = Null <=> y.lines[l] = Null)
      BY <2>2, <2>7
    <3>3. lines(i)[l] = IF c[l] < 0 THEN Null ELSE c[l]
      BY <2>5
    <3> HIDE DEF t
    <3>4. lines(i)[l] = IF x.lines[l] = Null THEN Null ELSE t
      BY <3>1, <3>2, <3>3
    <3> QED
      BY <3>2, <3>4 DEF t
  <2>9. Len(new[i].lines) = Len(x.lines)
    BY <2>2, <2>5, <2>7
  <2> QED
    BY <2>5, <2>8, <2>9 DEF x
<1>11. ASSUME NEW file, \A k \in 1 .. Len(all) : all[k].file # file
       PROVE  NewestSource(documents, file) = Found
  <2>1. n \in Nat /\ DOMAIN es = 1 .. n
    BY SeqProps
  <2>2. ASSUME NEW j \in 1 .. n PROVE es[j].file # file
    <3>1. PICK k \in 1 .. Len(all) : Like(es[j], all[k])
      BY DEF Covers
    <3> QED
      BY <1>11, <3>1, LikeIs
  <2>3. \A j \in 1 .. n : ~Sourced(es[j], file)
    BY <2>2 DEF Sourced
  <2>4. FirstSource(es, file) = NoSource
    BY <2>1, <2>3, FirstNone
  <2> QED
    BY <2>4
<1>12. Reports(new, all, documents)
  BY <1>6, <1>7, <1>8, <1>9, <1>10, <1>11 DEF Reports
<1> QED
  BY <1>12 DEF new

\* The first source of a report is the newest, unless it is what is found.
LEMMA ReportFirst ==
  ASSUME NEW documents \in Seq(Seq(FileEntry)), NEW entries \in Seq(FileEntry), NEW r,
         Reports(r, entries, documents), NEW file
  PROVE  NewestSource(documents, file) = IF FirstSource(r, file) = NoSource THEN Found ELSE FirstSource(r, file)
<1>1. Len(r) \in Nat /\ DOMAIN r = 1 .. Len(r)
  <2>1. r \in Seq(FileEntry)
    BY DEF Reports
  <2> QED
    BY <2>1, SeqProps
<1>2. CASE \A i \in 1 .. Len(r) : r[i].file # file
  <2>1. \A i \in 1 .. Len(r) : ~Sourced(r[i], file)
    BY <1>2 DEF Sourced
  <2>2. FirstSource(r, file) = NoSource
    BY <1>1, <2>1, FirstNone
  <2>3. ASSUME NEW k \in 1 .. Len(entries) PROVE entries[k].file # file
    <3>1. PICK i \in 1 .. Len(r) : r[i].file = entries[k].file
      BY DEF Reports
    <3> QED
      BY <1>2, <3>1
  <2>4. NewestSource(documents, file) = Found
    BY <2>3 DEF Reports
  <2> QED
    BY <2>2, <2>4
<1>3. ASSUME NEW i \in 1 .. Len(r), r[i].file = file
      PROVE  NewestSource(documents, file) = IF FirstSource(r, file) = NoSource THEN Found ELSE FirstSource(r, file)
  <2>1. r[i].source = NewestSource(documents, file)
    BY <1>3 DEF Reports
  <2>2. \A j \in 1 .. Len(r) : j # i => r[j].file # file
    BY <1>3 DEF Reports
  <2>3. CASE r[i].source = NoSource
    <3>1. \A j \in 1 .. Len(r) : ~Sourced(r[j], file)
      BY <2>2, <2>3 DEF Sourced
    <3>2. FirstSource(r, file) = NoSource
      BY <1>1, <3>1, FirstNone
    <3>3. Found = NoSource
      BY <2>1, <2>3, NewestNone
    <3> QED
      BY <2>1, <2>3, <3>2, <3>3
  <2>4. CASE r[i].source # NoSource
    <3>1. Sourced(r[i], file) /\ \A j \in 1 .. Len(r) : j < i => ~Sourced(r[j], file)
      BY <1>1, <1>3, <2>2, <2>4 DEF Sourced
    <3>2. FirstSource(r, file) = r[i].source
      BY <1>1, <3>1, FirstSome
    <3> QED
      BY <2>1, <2>4, <3>2
  <2> QED
    BY <2>3, <2>4
<1> QED
  BY <1>2, <1>3

----------------------------------------------------------------------------
(* A store. *)

\* What a store of d makes of the report r of documents, as long as the sums fit.
LEMMA StoreSound ==
  ASSUME NEW documents \in Seq(Seq(FileEntry)), NEW d \in Seq(FileEntry), NEW r,
         Fits(documents) => Reports(r, EntriesOf(documents), documents), Fits(Append(documents, d)),
         NEW merged, merged = ParseJson(ParseJson(Table, d), r)
  PROVE  /\ merged.result = 0 <=> Agree(EntriesOf(Append(documents, d)))
         /\ merged.result = 0 =>
              Reports(WriteJson(merged, Found), EntriesOf(Append(documents, d)), Append(documents, d))
<1> DEFINE more == Append(documents, d)
           before == EntriesOf(documents)
           all == before \o d
           es == d \o r
<1>1. before \in Seq(FileEntry) /\ EntriesOf(more) = all
  BY EntriesType, EntriesAppend
<1>2. all \in Seq(FileEntry)
  BY <1>1, ConcatProps
<1>3. Bounded(all)
  BY <1>1, <1>2, FitsIs
<1>4. Bounded(before)
  BY <1>1, <1>3, BoundedFront
<1>5. Reports(r, before, documents)
  BY <1>1, <1>4, FitsIs
<1>6. r \in Seq(FileEntry)
  BY <1>5 DEF Reports
<1>7. es \in Seq(FileEntry)
  BY <1>6, ConcatProps
<1> HIDE DEF before
<1>8. \A file, l : Total(es, file, l) = Total(all, file, l)
  <2>1. ASSUME NEW file, NEW l PROVE Total(es, file, l) = Total(all, file, l)
    <3>1. Total(es, file, l) = Total(d, file, l) + Total(r, file, l)
      BY <1>6, SumsAdd
    <3>2. Total(all, file, l) = Total(before, file, l) + Total(d, file, l)
      BY <1>1, SumsAdd
    <3>3. Total(r, file, l) = Total(before, file, l)
      BY <1>1, <1>5, ReportTotals
    <3>4. Total(before, file, l) \in Nat /\ Total(d, file, l) \in Nat
      BY <1>1, SumsAdd
    <3> QED
      BY <3>1, <3>2, <3>3, <3>4
  <2> QED
    BY <2>1
<1>9. Covers(es, all) /\ Covers(all, es)
  <2>1. Covers(r, before) /\ Covers(before, r)
    BY <1>1, <1>5, ReportCovers
  <2> QED
    BY <1>1, <1>6, <2>1, CoversBoth
<1>10. Bounded(es) /\ Bounded(d)
  <2>1. Bounded(es)
    BY <1>3, <1>8 DEF Bounded
  <2> QED
    BY <1>6, <2>1, BoundedFront
<1> DEFINE posted == ParseJson(Table, d)
<1>11. Sound(posted, d)
  <2>1. <<>> \in Seq(FileEntry) /\ <<>> \o d = d
    BY ConcatEmptySeq
  <2> HIDE DEF posted
  <2>2. Sound(ParseJson(Table, d), <<>> \o d)
    BY <1>10, <2>1, TableSound, ParseSound
  <2> QED
    BY <2>1, <2>2 DEF posted
<1> HIDE DEF posted
<1>12. Sound(merged, es)
  <2>1. Sound(ParseJson(posted, r), d \o r)
    BY <1>6, <1>10, <1>11, ParseSound
  <2> QED
    BY <2>1 DEF posted
<1> HIDE DEF es, all, more
<1>13. CASE merged.result = 0
  <2>1. Holds(merged.files, es)
    BY <1>12, <1>13 DEF Sound
  <2>2. Agree(all)
    <3>1. Agree(es)
      BY <1>7, <2>1, HoldsAgree
    <3> QED
      BY <1>2, <1>7, <1>9, <3>1, CoversAgree
  <2>3. \A file : NewestSource(more, file) = IF FirstSource(es, file) = NoSource THEN Found ELSE FirstSource(es, file)
    <3>1. ASSUME NEW file
          PROVE  NewestSource(more, file) = IF FirstSource(es, file) = NoSource THEN Found ELSE FirstSource(es, file)
      <4>1. NewestSource(more, file) =
              IF FirstSource(d, file) # NoSource THEN FirstSource(d, file) ELSE NewestSource(documents, file)
        BY NewestAppend DEF more
      <4>2. FirstSource(es, file) =
              IF FirstSource(d, file) = NoSource THEN FirstSource(r, file) ELSE FirstSource(d, file)
        BY <1>6, FirstConcat DEF es
      <4>3. NewestSource(documents, file) = IF FirstSource(r, file) = NoSource THEN Found ELSE FirstSource(r, file)
        BY <1>1, <1>5, ReportFirst
      <4> QED
        BY <4>1, <4>2, <4>3
    <3> QED
      BY <3>1
  <2>4. Reports(WriteJson(merged, Found), all, more)
    BY <1>2, <1>7, <1>8, <1>9, <2>1, <2>3, WritesReport
  <2> QED
    BY <1>1, <1>13, <2>2, <2>4 DEF more
<1>14. CASE merged.result # 0
  <2>1. ~Agree(es)
    BY <1>12, <1>14 DEF Sound
  <2>2. ~Agree(all)
    BY <1>2, <1>7, <1>9, <2>1, CoversAgree
  <2> QED
    BY <1>1, <1>14, <2>2 DEF more
<1> QED
  BY <1>13, <1>14

\* Sums that do not fit do not fit with a document more.
LEMMA FitsFront ==
  ASSUME NEW documents \in Seq(Seq(FileEntry)), NEW d \in Seq(FileEntry), Fits(Append(documents, d))
  PROVE  Fits(documents)
<1> DEFINE before == EntriesOf(documents)
<1>1. before \in Seq(FileEntry) /\ EntriesOf(Append(documents, d)) = before \o d
  BY EntriesType, EntriesAppend
<1>2. before \o d \in Seq(FileEntry)
  BY <1>1, ConcatProps
<1>3. Bounded(before \o d)
  BY <1>1, <1>2, FitsIs
<1>4. Bounded(before)
  BY <1>1, <1>3, BoundedFront
<1> QED
  BY <1>1, <1>4, FitsIs

\* The report reports the documents that were stored, as long as their sums fit in an
\* int; and the last store was refused rightly.
StoresInv ==
  /\ stored \in Seq(Documents)
  /\ Fits(stored) => Reports(report, EntriesOf(stored), stored)
  /\ RefusedRightly

LEMMA StoresInvHolds == StoresSpec => []StoresInv
<1>1. Init => StoresInv
  <2> SUFFICES ASSUME Init PROVE StoresInv
    OBVIOUS
  <2>1. stored = <<>> /\ report = <<>> /\ call.name # "store"
    BY DEF Init, NoCall, Idle
  <2>2. stored \in Seq(Documents)
    BY <2>1
  <2>3. Reports(report, EntriesOf(stored), stored)
    BY <2>1, NoReport, EntriesNone
  <2> QED
    BY <2>1, <2>2, <2>3 DEF StoresInv, RefusedRightly
<1>2. StoresInv /\ [(\E d \in Documents : Store(d)) \/ AnotherCall]_vars => StoresInv'
  <2> SUFFICES ASSUME StoresInv, [(\E d \in Documents : Store(d)) \/ AnotherCall]_vars PROVE StoresInv'
    OBVIOUS
  <2>1. ASSUME NEW d \in Documents, Store(d) PROVE StoresInv'
    <3> DEFINE merged == ParseJson(ParseJson(Table, d), report)
               more == Append(stored, d)
    <3>1. /\ stored \in Seq(Documents) /\ stored \in Seq(Seq(FileEntry)) /\ d \in Seq(FileEntry)
          /\ more \in Seq(Documents)
      <4>1. stored \in Seq(Documents) /\ Documents \subseteq Seq(FileEntry)
        BY DocumentsAssumption DEF StoresInv
      <4>2. stored \in Seq(Seq(FileEntry))
        BY <4>1
      <4>3. more \in Seq(Documents)
        BY <4>1, AppendProperties
      <4> QED
        BY <4>1, <4>2, <4>3
    <3>2. /\ call' = [name |-> "store", input |-> d] /\ result' = merged.result
          /\ merged.result = 0 => report' = WriteJson(merged, Found) /\ stored' = more
          /\ merged.result # 0 => report' = report /\ stored' = stored
      BY <2>1 DEF Store, Called
    <3>3. Fits(stored) => Reports(report, EntriesOf(stored), stored)
      BY DEF StoresInv
    <3>4. Fits(more) => /\ merged.result = 0 <=> Agree(EntriesOf(more))
                        /\ merged.result = 0 => Reports(WriteJson(merged, Found), EntriesOf(more), more)
      BY <3>1, <3>3, StoreSound
    <3> HIDE DEF merged, more
    <3>5. CASE merged.result = 0
      <4>1. stored' = more /\ report' = WriteJson(merged, Found) /\ result' = 0
        BY <3>2, <3>5
      <4>2. RefusedRightly'
        BY <3>4, <3>5, <4>1 DEF RefusedRightly
      <4>3. Fits(stored') => Reports(report', EntriesOf(stored'), stored')
        BY <3>4, <3>5, <4>1
      <4> QED
        BY <3>1, <4>1, <4>2, <4>3 DEF StoresInv
    <3>6. CASE merged.result # 0
      <4>1. /\ stored' = stored /\ report' = report /\ result' # 0
            /\ Append(stored', call'.input) = more
        BY <3>2, <3>6 DEF more
      <4>2. RefusedRightly'
        BY <3>4, <3>6, <4>1 DEF RefusedRightly
      <4> QED
        BY <3>1, <3>3, <4>1, <4>2 DEF StoresInv
    <3> QED
      BY <3>5, <3>6
  <2>2. CASE AnotherCall
    BY <2>2 DEF AnotherCall, StoresInv, RefusedRightly
  <2>3. CASE UNCHANGED vars
    BY <2>3 DEF vars, StoresInv, RefusedRightly
  <2> QED
    BY <2>1, <2>2, <2>3
<1> QED
  BY <1>1, <1>2, PTL DEF StoresSpec

\* A report is right of what it is made of.
LEMMA ReportRight ==
  ASSUME StoresInv
  PROVE  SumsExact
<1> DEFINE flat == EntriesOf(stored)
<1> SUFFICES ASSUME Fits(stored) PROVE
      /\ {e.file : e \in ToSet(report)} = {x.file : x \in ToSet(flat)}
      /\ \A i, j \in DOMAIN report : report[i].file = report[j].file => i = j
      /\ \A e \in ToSet(report), x \in ToSet(flat) : e.file = x.file =>
           /\ e.lines = [l \in DOMAIN x.lines |-> IF x.lines[l] = Null THEN Null ELSE Total(flat, x.file, l)]
           /\ e.source = NewestSource(stored, x.file)
  BY DEF SumsExact
<1>1. Reports(report, flat, stored)
  BY DEF StoresInv
<1>2. flat \in Seq(FileEntry)
  <2>1. stored \in Seq(Documents) /\ Documents \subseteq Seq(FileEntry)
    BY DocumentsAssumption DEF StoresInv
  <2>2. stored \in Seq(Seq(FileEntry))
    BY <2>1
  <2> QED
    BY <2>2, EntriesType
<1> HIDE DEF flat
<1>3. /\ DOMAIN report = 1 .. Len(report) /\ \A i \in 1 .. Len(report) : report[i] \in FileEntry
      /\ DOMAIN flat = 1 .. Len(flat) /\ \A k \in 1 .. Len(flat) : flat[k] \in FileEntry
  <2>1. report \in Seq(FileEntry)
    BY <1>1 DEF Reports
  <2> QED
    BY <1>2, <2>1, SeqProps
<1>4. /\ \A e \in ToSet(report) : \E i \in 1 .. Len(report) : e = report[i]
      /\ \A x \in ToSet(flat) : \E k \in 1 .. Len(flat) : x = flat[k]
      /\ \A i \in 1 .. Len(report) : report[i] \in ToSet(report)
      /\ \A k \in 1 .. Len(flat) : flat[k] \in ToSet(flat)
  BY <1>3 DEF ToSet
<1>5. {e.file : e \in ToSet(report)} = {x.file : x \in ToSet(flat)}
  <2>1. ASSUME NEW e \in ToSet(report) PROVE \E x \in ToSet(flat) : e.file = x.file
    <3>1. PICK i \in 1 .. Len(report) : e = report[i]
      BY <1>4
    <3>2. PICK k \in 1 .. Len(flat) : flat[k].file = report[i].file
      BY <1>1 DEF Reports
    <3> QED
      BY <1>4, <3>1, <3>2
  <2>2. ASSUME NEW x \in ToSet(flat) PROVE \E e \in ToSet(report) : e.file = x.file
    <3>1. PICK k \in 1 .. Len(flat) : x = flat[k]
      BY <1>4
    <3>2. PICK i \in 1 .. Len(report) : report[i].file = flat[k].file
      BY <1>1 DEF Reports
    <3> QED
      BY <1>4, <3>1, <3>2
  <2> QED
    BY <2>1, <2>2
<1>6. \A i, j \in DOMAIN report : report[i].file = report[j].file => i = j
  BY <1>1, <1>3 DEF Reports
<1>7. ASSUME NEW e \in ToSet(report), NEW x \in ToSet(flat), e.file = x.file
      PROVE  /\ e.lines = [l \in DOMAIN x.lines |-> IF x.lines[l] = Null THEN Null ELSE Total(flat, x.file, l)]
             /\ e.source = NewestSource(stored, x.file)
  <2>1. PICK i \in 1 .. Len(report) : e = report[i]
    BY <1>4
  <2>2. PICK k \in 1 .. Len(flat) : x = flat[k]
    BY <1>4
  <2>3. report[i].file = flat[k].file
    BY <1>7, <2>1, <2>2
  <2>4. /\ Len(report[i].lines) = Len(flat[k].lines)
        /\ \A l \in 1 .. Len(report[i].lines) :
             report[i].lines[l] = IF flat[k].lines[l] = Null THEN Null ELSE Total(flat, flat[k].file, l)
    BY <1>1, <2>3 DEF Reports
  <2>5. e.source = NewestSource(stored, x.file)
    BY <1>1, <1>7, <2>1 DEF Reports
  <2>6. /\ Len(e.lines) = Len(x.lines)
        /\ \A l \in 1 .. Len(e.lines) : e.lines[l] = IF x.lines[l] = Null THEN Null ELSE Total(flat, x.file, l)
    BY <2>1, <2>2, <2>4
  <2>7. DOMAIN e.lines = 1 .. Len(e.lines) /\ DOMAIN x.lines = 1 .. Len(x.lines) /\ e.lines \in Seq(Element)
    <3>1. e \in FileEntry /\ x \in FileEntry
      BY <1>3, <2>1, <2>2
    <3> QED
      BY <3>1, EntryProps DEF FileEntry
  <2>8. e.lines = [l \in DOMAIN x.lines |-> IF x.lines[l] = Null THEN Null ELSE Total(flat, x.file, l)]
    <3>1. e.lines = [l \in DOMAIN e.lines |-> e.lines[l]]
      BY <2>7
    <3> QED
      BY <2>6, <2>7, <3>1
  <2> QED
    BY <2>5, <2>8
<1> QED
  BY <1>5, <1>6, <1>7

\* For all documents, and however often and in whatever order they are stored: the
\* report has the exact sums of the documents that were accepted, as long as they fit.
THEOREM SumsExactCorrect == StoresSpec => []SumsExact
<1>1. StoresInv => SumsExact
  BY ReportRight
<1> QED
  BY <1>1, StoresInvHolds, PTL

\* For all documents: a store is accepted if and only if its document agrees with all
\* that were accepted before.
THEOREM RefusedRightlyCorrect == StoresSpec => []RefusedRightly
<1>1. StoresInv => RefusedRightly
  BY DEF StoresInv
<1> QED
  BY <1>1, StoresInvHolds, PTL

----------------------------------------------------------------------------
(* Recursive functions. *)

\* A function that goes on from step to step is there, and has the type of a step.
Steps(f, S, a, F, n) == f \in [0 .. n -> S] /\ f[0] = a /\ \A i \in 1 .. n : f[i] = F[i][f[i - 1]]

LEMMA Recursion ==
  ASSUME NEW S, NEW a \in S, NEW F \in [Nat -> [S -> S]], NEW n \in Nat
  PROVE  \E f : Steps(f, S, a, F, n)
<1> DEFINE Goes(f, m) == f \in [0 .. m -> S] /\ f[0] = a /\ \A i \in 1 .. m : f[i] = F[i][f[i - 1]]
           T == {m \in Nat : \E f : Goes(f, m)}
<1>1. 0 \in T
  <2>1. Goes([i \in 0 .. 0 |-> a], 0)
    OBVIOUS
  <2> QED
    BY <2>1
<1>2. ASSUME NEW m \in T PROVE m + 1 \in T
  <2>1. PICK f : Goes(f, m)
    OBVIOUS
  <2> DEFINE g == [i \in 0 .. m + 1 |-> IF i <= m THEN f[i] ELSE F[m + 1][f[m]]]
  <2>2. F[m + 1][f[m]] \in S
    <3>1. m + 1 \in Nat /\ f[m] \in S
      BY <2>1
    <3> QED
      BY <3>1
  <2>3. ASSUME NEW i \in 1 .. m + 1
        PROVE  g[i] = F[i][g[i - 1]]
    <3>1. CASE i <= m
      <4>1. f[i] = F[i][f[i - 1]]
        BY <2>1, <3>1
      <4>2. g[i] = f[i] /\ g[i - 1] = f[i - 1]
        BY <3>1
      <4> QED
        BY <4>1, <4>2
    <3>2. CASE i = m + 1
      <4>1. i - 1 = m /\ i \in 0 .. m + 1 /\ i - 1 \in 0 .. m + 1 /\ ~(i <= m)
        BY <3>2
      <4>2. g[i] = F[m + 1][f[m]] /\ g[i - 1] = f[m]
        BY <4>1
      <4> HIDE DEF g
      <4> QED
        BY <3>2, <4>2
    <3> QED
      BY <3>1, <3>2
  <2>4. g \in [0 .. m + 1 -> S]
    <3>1. \A i \in 0 .. m : f[i] \in S
      BY <2>1
    <3> QED
      BY <2>2, <3>1
  <2>5. g[0] = a
    BY <2>1
  <2>6. Goes(g, m + 1)
    <3> HIDE DEF g
    <3> QED
      BY <2>3, <2>4, <2>5
  <2> HIDE DEF g, Goes
  <2>7. m + 1 \in Nat /\ \E h : Goes(h, m + 1)
    BY <2>6
  <2> QED
    BY <2>7
<1>3. T = Nat
  <2> HIDE DEF T
  <2>1. T \subseteq Nat
    BY DEF T
  <2> QED
    BY <1>1, <1>2, <2>1, Induction
<1>4. n \in T
  BY <1>3
<1> QED
  BY <1>4 DEF Steps

----------------------------------------------------------------------------
(* The missing lines. *)

Pushed(counts, noted, l, before) ==
  IF l \in Considered(counts, noted) /\ counts[l] = 0 THEN Append(before, l) ELSE before
Pushing(counts, noted, f) ==
  f = [l \in 0 .. Len(noted) |-> IF l = 0 THEN <<>> ELSE Pushed(counts, noted, l, f[l - 1])]

LEMMA MissingIs ==
  ASSUME NEW counts, NEW noted \in Seq(Nat)
  PROVE  \E f : /\ MissingLines(counts, noted) = f[Len(noted)]
                /\ f[0] = <<>>
                /\ \A l \in 1 .. Len(noted) : f[l - 1] \in Seq(Nat) /\ f[l] = Pushed(counts, noted, l, f[l - 1])
<1> DEFINE F == [l \in Nat |-> [before \in Seq(Nat) |-> Pushed(counts, noted, l, before)]]
           none == <<>>
<1>1. F \in [Nat -> [Seq(Nat) -> Seq(Nat)]]
  <2>1. ASSUME NEW l \in Nat, NEW before \in Seq(Nat) PROVE Pushed(counts, noted, l, before) \in Seq(Nat)
    BY AppendProperties DEF Pushed
  <2> QED
    BY <2>1
<1>2. none \in Seq(Nat) /\ Len(noted) \in Nat
  BY SeqProps
<1> HIDE DEF none
<1>3. PICK g \in [0 .. Len(noted) -> Seq(Nat)] :
        g[0] = none /\ \A i \in 1 .. Len(noted) : g[i] = F[i][g[i - 1]]
  <2> DEFINE S == Seq(Nat)
             n == Len(noted)
  <2>1. none \in S /\ F \in [Nat -> [S -> S]] /\ n \in Nat
    BY <1>1, <1>2
  <2> HIDE DEF F, S, n
  <2>2. \E g : Steps(g, S, none, F, n)
    BY <2>1, Recursion
  <2> QED
    BY <2>2 DEF S, n, Steps
<1>4. ASSUME NEW i \in 1 .. Len(noted) PROVE g[i] = Pushed(counts, noted, i, g[i - 1])
  <2>1. i \in Nat /\ i - 1 \in 0 .. Len(noted)
    BY <1>2
  <2>2. g[i - 1] \in Seq(Nat)
    BY <2>1
  <2>3. F[i][g[i - 1]] = Pushed(counts, noted, i, g[i - 1])
    BY <2>1, <2>2
  <2> QED
    BY <1>3, <2>3
<1>5. Pushing(counts, noted, g)
  <2> DEFINE Next1(i) == Pushed(counts, noted, i, g[i - 1])
  <2> HIDE DEF F, Next1
  <2>1. \A i \in 1 .. Len(noted) : g[i] = Next1(i)
    BY <1>4 DEF Next1
  <2>2. \A i \in 0 .. Len(noted) : g[i] = IF i = 0 THEN none ELSE Next1(i)
    BY <1>3, <2>1
  <2>3. g = [i \in 0 .. Len(noted) |-> g[i]]
    OBVIOUS
  <2>4. g = [i \in 0 .. Len(noted) |-> IF i = 0 THEN none ELSE Next1(i)]
    BY <2>2, <2>3
  <2> QED
    BY <2>4 DEF Pushing, none, Next1
<1> DEFINE made == CHOOSE f : Pushing(counts, noted, f)
<1>6. Pushing(counts, noted, made)
  BY <1>5
<1>7. MissingLines(counts, noted) = made[Len(noted)]
  BY DEF MissingLines, Pushing, Pushed
<1> HIDE DEF made, F
<1>8. made[0] = none /\ \A l \in 1 .. Len(noted) : made[l] = Pushed(counts, noted, l, made[l - 1])
  BY <1>6 DEF Pushing, none
<1>9. \A l \in 0 .. Len(noted) : made[l] \in Seq(Nat)
  <2> DEFINE T == {l \in Nat : l <= Len(noted) => made[l] \in Seq(Nat)}
  <2>1. 0 \in T
    BY <1>2, <1>8
  <2>2. ASSUME NEW l \in T PROVE l + 1 \in T
    <3>1. CASE l + 1 <= Len(noted)
      <4>1. l + 1 \in 1 .. Len(noted) /\ made[l] \in Seq(Nat) /\ (l + 1) - 1 = l
        BY <3>1
      <4>2. made[l + 1] = Pushed(counts, noted, l + 1, made[l])
        BY <1>8, <4>1
      <4>3. made[l + 1] \in Seq(Nat)
        BY <4>1, <4>2, AppendProperties DEF Pushed
      <4> QED
        BY <4>1, <4>3
    <3> QED
      BY <3>1
  <2>3. T = Nat
    <3> HIDE DEF T
    <3>1. T \subseteq Nat
      BY DEF T
    <3> QED
      BY <2>1, <2>2, <3>1, Induction
  <2> QED
    BY <2>3
<1>10. \A l \in 1 .. Len(noted) : l - 1 \in 0 .. Len(noted)
  BY <1>2
<1>11. \A l \in 1 .. Len(noted) : made[l - 1] \in Seq(Nat) /\ made[l] = Pushed(counts, noted, l, made[l - 1])
  BY <1>8, <1>9, <1>10
<1> QED
  BY <1>7, <1>8, <1>11 DEF none

\* The missing lines: those that are considered and have no count, each once, in order.
IsMissing(counts, noted, l) == l \in Considered(counts, noted) /\ counts[l] = 0
Ordered(s) == \A i, j \in 1 .. Len(s) : i < j => s[i] < s[j]

LEMMA MissingRight ==
  ASSUME NEW counts, NEW noted \in Seq(Nat)
  PROVE  /\ MissingLines(counts, noted) \in Seq(Nat)
         /\ Ordered(MissingLines(counts, noted))
         /\ \A i \in 1 .. Len(MissingLines(counts, noted)) : IsMissing(counts, noted, MissingLines(counts, noted)[i])
         /\ \A l : IsMissing(counts, noted, l) =>
              \E i \in 1 .. Len(MissingLines(counts, noted)) : MissingLines(counts, noted)[i] = l
<1>1. Len(noted) \in Nat /\ DOMAIN noted = 1 .. Len(noted)
  BY SeqProps
<1>2. PICK f : /\ MissingLines(counts, noted) = f[Len(noted)]
               /\ f[0] = <<>>
               /\ \A l \in 1 .. Len(noted) : f[l - 1] \in Seq(Nat) /\ f[l] = Pushed(counts, noted, l, f[l - 1])
  BY MissingIs
<1> DEFINE Right(s, l) ==
             /\ s \in Seq(Nat) /\ Ordered(s)
             /\ \A i \in 1 .. Len(s) : s[i] <= l /\ IsMissing(counts, noted, s[i])
             /\ \A k \in 1 .. l : IsMissing(counts, noted, k) => \E i \in 1 .. Len(s) : s[i] = k
           T == {l \in Nat : l <= Len(noted) => Right(f[l], l)}
<1>3. 0 \in T
  BY <1>2 DEF Ordered
<1>4. ASSUME NEW l \in T, l + 1 <= Len(noted) PROVE Right(f[l + 1], l + 1)
  <2> DEFINE s == f[l]
  <2>1. l \in Nat /\ l + 1 \in 1 .. Len(noted) /\ (l + 1) - 1 = l /\ Right(s, l)
    BY <1>1, <1>4
  <2>2. f[l + 1] = Pushed(counts, noted, l + 1, s)
    BY <1>2, <2>1
  <2> HIDE DEF s, Right
  <2>3. CASE IsMissing(counts, noted, l + 1)
    <3> DEFINE t == Append(s, l + 1)
    <3>1. f[l + 1] = t
      BY <2>2, <2>3 DEF Pushed, IsMissing
    <3>2. /\ s \in Seq(Nat) /\ Ordered(s)
          /\ \A i \in 1 .. Len(s) : s[i] <= l /\ IsMissing(counts, noted, s[i])
          /\ \A k \in 1 .. l : IsMissing(counts, noted, k) => \E i \in 1 .. Len(s) : s[i] = k
      BY <2>1 DEF Right
    <3>3. /\ t \in Seq(Nat) /\ Len(s) \in Nat /\ Len(t) = Len(s) + 1
          /\ \A i \in 1 .. Len(s) : t[i] = s[i] /\ s[i] \in Nat
          /\ t[Len(s) + 1] = l + 1
      BY <2>1, <3>2, AppendProps, SeqProps
    <3> HIDE DEF t
    <3>4. Ordered(t)
      <4>1. ASSUME NEW i \in 1 .. Len(t), NEW j \in 1 .. Len(t), i < j PROVE t[i] < t[j]
        <5>1. i \in 1 .. Len(s) /\ (j \in 1 .. Len(s) \/ j = Len(s) + 1)
          BY <3>3, <4>1
        <5>2. CASE j \in 1 .. Len(s)
          BY <3>2, <3>3, <4>1, <5>1, <5>2 DEF Ordered
        <5>3. CASE j = Len(s) + 1
          <6>1. t[i] = s[i] /\ s[i] <= l /\ s[i] \in Nat /\ t[j] = l + 1
            BY <3>2, <3>3, <5>1, <5>3
          <6> QED
            BY <2>1, <6>1
        <5> QED
          BY <5>1, <5>2, <5>3
      <4> QED
        BY <4>1 DEF Ordered
    <3>5. ASSUME NEW i \in 1 .. Len(t) PROVE t[i] <= l + 1 /\ IsMissing(counts, noted, t[i])
      <4>1. i \in 1 .. Len(s) \/ i = Len(s) + 1
        BY <3>3
      <4>2. CASE i \in 1 .. Len(s)
        <5>1. t[i] = s[i] /\ s[i] \in Nat /\ s[i] <= l /\ IsMissing(counts, noted, s[i])
          BY <3>2, <3>3, <4>2
        <5> QED
          BY <2>1, <5>1
      <4>3. CASE i = Len(s) + 1
        BY <2>1, <2>3, <3>3, <4>3
      <4> QED
        BY <4>1, <4>2, <4>3
    <3>6. ASSUME NEW k \in 1 .. l + 1, IsMissing(counts, noted, k) PROVE \E i \in 1 .. Len(t) : t[i] = k
      <4>1. k \in 1 .. l \/ k = l + 1
        BY <2>1
      <4>2. CASE k \in 1 .. l
        <5>1. PICK i \in 1 .. Len(s) : s[i] = k
          BY <3>2, <3>6, <4>2
        <5>2. i \in 1 .. Len(t) /\ t[i] = k
          BY <3>3, <5>1
        <5> QED
          BY <5>2
      <4>3. CASE k = l + 1
        <5>1. Len(s) + 1 \in 1 .. Len(t)
          BY <3>3
        <5> QED
          BY <3>3, <4>3, <5>1
      <4> QED
        BY <4>1, <4>2, <4>3
    <3> QED
      BY <3>1, <3>3, <3>4, <3>5, <3>6 DEF Right
  <2>4. CASE ~IsMissing(counts, noted, l + 1)
    <3>1. f[l + 1] = s
      BY <2>2, <2>4 DEF Pushed, IsMissing
    <3>2. ASSUME NEW i \in 1 .. Len(s) PROVE s[i] <= l + 1 /\ IsMissing(counts, noted, s[i])
      <4>1. s[i] <= l /\ IsMissing(counts, noted, s[i]) /\ s[i] \in Nat
        BY <2>1, SeqProps DEF Right
      <4> QED
        BY <2>1, <4>1
    <3>3. ASSUME NEW k \in 1 .. l + 1, IsMissing(counts, noted, k) PROVE \E i \in 1 .. Len(s) : s[i] = k
      <4>1. k \in 1 .. l
        BY <2>1, <2>4, <3>3
      <4> QED
        BY <2>1, <3>3, <4>1 DEF Right
    <3> QED
      BY <2>1, <3>1, <3>2, <3>3 DEF Right
  <2> QED
    BY <2>3, <2>4
<1>5. T = Nat
  <2> HIDE DEF Right
  <2>1. \A l \in T : l + 1 \in T
    BY <1>4
  <2> HIDE DEF T
  <2>2. T \subseteq Nat
    BY DEF T
  <2> QED
    BY <1>3, <2>1, <2>2, Induction
<1>6. Right(f[Len(noted)], Len(noted))
  <2> HIDE DEF Right
  <2> QED
    BY <1>1, <1>5
<1>7. \A l : IsMissing(counts, noted, l) => l \in 1 .. Len(noted)
  BY <1>1 DEF IsMissing, Considered
<1> QED
  BY <1>2, <1>6, <1>7

----------------------------------------------------------------------------
(* The links. *)

Linked(counts, missing, i, before) ==
  IF i > 1 /\ Together(counts, missing[i - 1], missing[i])
  THEN [before EXCEPT ![Len(before)] = <<@[1], missing[i]>>]
  ELSE Append(before, <<missing[i], missing[i]>>)
Linking(counts, missing, f) ==
  f = [i \in 0 .. Len(missing) |-> IF i = 0 THEN <<>> ELSE Linked(counts, missing, i, f[i - 1])]

\* Links over the first n missing lines.
Leads(counts, missing, n, s) ==
  /\ s \in Seq(Nat \X Nat)
  /\ n > 0 => Len(s) > 0 /\ s[Len(s)][2] = missing[n]
  /\ \A k \in 1 .. Len(s) :
       /\ s[k][1] <= s[k][2] /\ \E i, j \in 1 .. n : s[k] = <<missing[i], missing[j]>>
       /\ \A x \in s[k][1] .. s[k][2] : x \in DOMAIN counts => counts[x] = 0
  /\ \A k \in 2 .. Len(s) : \E x \in s[k - 1][2] .. s[k][1] : x \in DOMAIN counts /\ counts[x] # 0
  /\ \A i \in 1 .. n : \E k \in 1 .. Len(s) : missing[i] \in s[k][1] .. s[k][2]

\* A missing line that does not go together with the one before has a new link.
LEMMA LeadsNew ==
  ASSUME NEW counts, NEW missing \in Seq(Nat), Ordered(missing),
         \A i \in 1 .. Len(missing) : missing[i] \in DOMAIN counts /\ counts[missing[i]] = 0,
         NEW i \in 1 .. Len(missing), NEW s, Leads(counts, missing, i - 1, s),
         i = 1 \/ ~Together(counts, missing[i - 1], missing[i])
  PROVE  Leads(counts, missing, i, Append(s, <<missing[i], missing[i]>>))
<1> DEFINE here == missing[i]
           link == <<here, here>>
           t == Append(s, link)
<1>1. /\ Len(missing) \in Nat /\ \A j \in 1 .. Len(missing) : missing[j] \in Nat
      /\ i \in Nat /\ i > 0 /\ i \in 1 .. Len(missing) /\ here \in Nat /\ here \in DOMAIN counts /\ counts[here] = 0
  BY SeqProps
<1>2. link \in Nat \X Nat /\ link[1] = here /\ link[2] = here
  BY <1>1
<1>3. s \in Seq(Nat \X Nat)
  BY DEF Leads
<1> HIDE DEF link
<1>4. /\ t \in Seq(Nat \X Nat) /\ Len(s) \in Nat /\ Len(t) = Len(s) + 1
      /\ \A k \in 1 .. Len(s) : t[k] = s[k]
      /\ t[Len(t)] = link
  BY <1>2, <1>3, AppendProps
<1>5. \A k \in 1 .. Len(t) : k \in 1 .. Len(s) \/ k = Len(t)
  BY <1>4
<1> HIDE DEF t
<1>14. \A k \in 1 .. Len(s) : k \in 1 .. Len(t) /\ t[k] = s[k]
  BY <1>4
<1>6. ASSUME NEW k \in 1 .. Len(t)
      PROVE  /\ t[k][1] <= t[k][2] /\ \E j, m \in 1 .. i : t[k] = <<missing[j], missing[m]>>
             /\ \A x \in t[k][1] .. t[k][2] : x \in DOMAIN counts => counts[x] = 0
  <2>1. CASE k \in 1 .. Len(s)
    <3>1. /\ s[k][1] <= s[k][2] /\ \E j, m \in 1 .. i - 1 : s[k] = <<missing[j], missing[m]>>
          /\ \A x \in s[k][1] .. s[k][2] : x \in DOMAIN counts => counts[x] = 0
      BY <2>1 DEF Leads
    <3>2. PICK j \in 1 .. i - 1, m \in 1 .. i - 1 : s[k] = <<missing[j], missing[m]>>
      BY <3>1
    <3>3. j \in 1 .. i /\ m \in 1 .. i
      BY <1>1
    <3>4. \E jj, mm \in 1 .. i : s[k] = <<missing[jj], missing[mm]>>
      BY <3>2, <3>3
    <3> QED
      BY <1>4, <2>1, <3>1, <3>4
  <2>2. CASE k = Len(t)
    <3>1. t[k] = link /\ t[k][1] = here /\ t[k][2] = here
      BY <1>2, <1>4, <2>2
    <3>2. \A x \in here .. here : x = here
      BY <1>1
    <3>3. i \in 1 .. i /\ t[k] = <<missing[i], missing[i]>>
      BY <1>1, <3>1 DEF link
    <3> HIDE DEF here
    <3> QED
      BY <1>1, <3>1, <3>2, <3>3
  <2> QED
    BY <1>5, <2>1, <2>2
<1>7. ASSUME NEW k \in 2 .. Len(t) PROVE \E x \in t[k - 1][2] .. t[k][1] : x \in DOMAIN counts /\ counts[x] # 0
  <2>1. CASE k \in 2 .. Len(s)
    <3>1. k - 1 \in 1 .. Len(s) /\ k \in 1 .. Len(s)
      BY <1>4, <2>1
    <3>2. \E x \in s[k - 1][2] .. s[k][1] : x \in DOMAIN counts /\ counts[x] # 0
      BY <2>1 DEF Leads
    <3> QED
      BY <1>4, <3>1, <3>2
  <2>2. CASE k = Len(t)
    <3>1. k - 1 = Len(s) /\ Len(s) \in 1 .. Len(s) /\ Len(s) > 0
      <4>1. Len(s) \in Nat /\ k = Len(s) + 1 /\ k >= 2
        BY <1>4, <1>7, <2>2
      <4> QED
        BY <4>1
    <3>2. i # 1
      <4>1. \E j \in 1 .. i - 1 : TRUE
        BY <3>1 DEF Leads
      <4> QED
        BY <4>1
    <3>3. t[k][1] = here /\ t[k - 1] = s[Len(s)] /\ s[Len(s)][2] = missing[i - 1]
      <4>1. i - 1 > 0
        BY <1>1, <3>2
      <4>2. s[Len(s)][2] = missing[i - 1]
        BY <4>1 DEF Leads
      <4> QED
        BY <1>2, <1>4, <2>2, <3>1, <4>2
    <3>4. PICK x \in (missing[i - 1] + 1 .. here - 1) \cap DOMAIN counts : counts[x] # 0
      BY <3>2 DEF Together
    <3>5. i - 1 \in 1 .. Len(missing) /\ missing[i - 1] \in Nat
      BY <1>1, <3>2
    <3>6. x \in missing[i - 1] .. here
      BY <1>1, <3>4, <3>5
    <3> QED
      BY <3>3, <3>4, <3>6
  <2> QED
    BY <1>4, <1>5, <1>7, <2>1, <2>2
<1>8. ASSUME NEW j \in 1 .. i PROVE \E k \in 1 .. Len(t) : missing[j] \in t[k][1] .. t[k][2]
  <2>1. CASE j \in 1 .. i - 1
    <3>1. PICK k \in 1 .. Len(s) : missing[j] \in s[k][1] .. s[k][2]
      BY <2>1 DEF Leads
    <3>2. k \in 1 .. Len(t) /\ t[k] = s[k]
      BY <1>14, <3>1
    <3> QED
      BY <3>1, <3>2
  <2>2. CASE j = i
    <3>1. Len(t) \in 1 .. Len(t) /\ t[Len(t)][1] = here /\ t[Len(t)][2] = here
      BY <1>2, <1>4
    <3>2. here \in here .. here
      BY <1>1
    <3> QED
      BY <2>2, <3>1, <3>2
  <2> QED
    BY <1>1, <2>1, <2>2
<1>9. Len(t) > 0 /\ t[Len(t)][2] = missing[i]
  BY <1>2, <1>4
<1> QED
  BY <1>4, <1>6, <1>7, <1>8, <1>9 DEF Leads, t, link

\* A missing line that goes together with the one before is the end of the last link.
LEMMA LeadsOn ==
  ASSUME NEW counts, NEW missing \in Seq(Nat), Ordered(missing),
         \A i \in 1 .. Len(missing) : missing[i] \in DOMAIN counts /\ counts[missing[i]] = 0,
         NEW i \in 2 .. Len(missing), NEW s, Leads(counts, missing, i - 1, s),
         Together(counts, missing[i - 1], missing[i])
  PROVE  Leads(counts, missing, i, [s EXCEPT ![Len(s)] = <<@[1], missing[i]>>])
<1> DEFINE last == missing[i - 1]
           here == missing[i]
           n == Len(s)
           link == <<s[n][1], here>>
           t == [s EXCEPT ![Len(s)] = <<@[1], missing[i]>>]
<1>1. /\ \A j \in 1 .. Len(missing) : missing[j] \in Nat
      /\ i \in Nat /\ i - 1 > 0 /\ i \in 1 .. Len(missing) /\ i - 1 \in 1 .. Len(missing)
      /\ here \in Nat /\ last \in Nat /\ last < here /\ here \in DOMAIN counts /\ counts[here] = 0
  <2>1. Len(missing) \in Nat /\ \A j \in 1 .. Len(missing) : missing[j] \in Nat
    BY SeqProps
  <2>2. i \in Nat /\ i - 1 > 0 /\ i \in 1 .. Len(missing) /\ i - 1 \in 1 .. Len(missing) /\ i - 1 < i
    BY <2>1
  <2> QED
    BY <2>1, <2>2 DEF Ordered
<1>2. /\ s \in Seq(Nat \X Nat) /\ n \in Nat /\ n > 0 /\ n \in 1 .. n /\ s[n][2] = last
      /\ DOMAIN s = 1 .. n /\ \A k \in 1 .. n : s[k] \in Nat \X Nat
  <2>1. s \in Seq(Nat \X Nat) /\ n > 0 /\ s[n][2] = last
    BY <1>1 DEF Leads
  <2> QED
    BY <2>1, SeqProps
<1>3. link \in Nat \X Nat /\ link[1] = s[n][1] /\ link[2] = here /\ s[n][1] \in Nat
  <2>1. s[n] \in Nat \X Nat
    BY <1>2
  <2>2. s[n][1] \in Nat
    BY <2>1
  <2> QED
    BY <1>1, <2>2
<1>4. t = [k \in 1 .. n |-> IF k = n THEN link ELSE s[k]]
  BY <1>2
<1> HIDE DEF t, link, n
<1>5. /\ t \in Seq(Nat \X Nat) /\ Len(t) = n /\ t[n] = link
      /\ \A k \in 1 .. n : k # n => t[k] = s[k]
  <2>1. \A k \in 1 .. n : (IF k = n THEN link ELSE s[k]) \in Nat \X Nat
    BY <1>2, <1>3
  <2> QED
    BY <1>2, <1>4, <2>1
<1>6. PICK j \in 1 .. i - 1, m \in 1 .. i - 1 : s[n] = <<missing[j], missing[m]>>
  BY <1>2 DEF Leads, n
<1>7. /\ s[n][1] <= last /\ \A x \in s[n][1] .. last : x \in DOMAIN counts => counts[x] = 0
  BY <1>2 DEF Leads, n
<1> HIDE DEF here, last
<1>8. \A k \in 1 .. n : t[k][1] = s[k][1] /\ (k # n => t[k] = s[k])
  BY <1>3, <1>5
<1>9. ASSUME NEW k \in 1 .. n
      PROVE  /\ t[k][1] <= t[k][2] /\ \E jj, mm \in 1 .. i : t[k] = <<missing[jj], missing[mm]>>
             /\ \A x \in t[k][1] .. t[k][2] : x \in DOMAIN counts => counts[x] = 0
  <2>1. CASE k # n
    <3>1. /\ s[k][1] <= s[k][2] /\ \E jj, mm \in 1 .. i - 1 : s[k] = <<missing[jj], missing[mm]>>
          /\ \A x \in s[k][1] .. s[k][2] : x \in DOMAIN counts => counts[x] = 0
      BY <1>9 DEF Leads, n
    <3>2. PICK jj \in 1 .. i - 1, mm \in 1 .. i - 1 : s[k] = <<missing[jj], missing[mm]>>
      BY <3>1
    <3>3. jj \in 1 .. i /\ mm \in 1 .. i
      BY <1>1
    <3>4. \E j2, m2 \in 1 .. i : s[k] = <<missing[j2], missing[m2]>>
      BY <3>2, <3>3
    <3> QED
      BY <1>5, <2>1, <3>1, <3>4
  <2>2. CASE k = n
    <3>1. t[k] = link /\ t[k][1] = s[n][1] /\ t[k][2] = here
      BY <1>3, <1>5, <2>2
    <3>2. \E jj, mm \in 1 .. i : t[k] = <<missing[jj], missing[mm]>>
      <4>1. s[n][1] = missing[j] /\ j \in 1 .. i /\ i \in 1 .. i
        BY <1>1, <1>6
      <4> QED
        BY <3>1, <4>1 DEF link, here
    <3>3. ASSUME NEW x \in s[n][1] .. here, x \in DOMAIN counts PROVE counts[x] = 0
      <4>1. x \in s[n][1] .. last \/ x \in last + 1 .. here - 1 \/ x = here
        BY <1>1, <1>3, <1>7
      <4>2. CASE x \in last + 1 .. here - 1
        BY <3>3, <4>2 DEF Together, last, here
      <4> QED
        BY <1>1, <1>7, <3>3, <4>1, <4>2
    <3>4. s[n][1] <= here
      BY <1>1, <1>3, <1>7
    <3> QED
      BY <3>1, <3>2, <3>3, <3>4
  <2> QED
    BY <2>1, <2>2
<1>10. ASSUME NEW k \in 2 .. n PROVE \E x \in t[k - 1][2] .. t[k][1] : x \in DOMAIN counts /\ counts[x] # 0
  <2>1. k - 1 \in 1 .. n /\ k - 1 # n /\ k \in 1 .. n
    BY <1>2
  <2>2. t[k - 1] = s[k - 1] /\ t[k][1] = s[k][1]
    BY <1>8, <2>1
  <2>3. \E x \in s[k - 1][2] .. s[k][1] : x \in DOMAIN counts /\ counts[x] # 0
    BY <1>10 DEF Leads, n
  <2> QED
    BY <2>2, <2>3
<1>11. ASSUME NEW jj \in 1 .. i PROVE \E k \in 1 .. n : missing[jj] \in t[k][1] .. t[k][2]
  <2>1. CASE jj \in 1 .. i - 1
    <3>1. PICK k \in 1 .. n : missing[jj] \in s[k][1] .. s[k][2]
      BY <2>1 DEF Leads, n
    <3>2. CASE k # n
      BY <1>8, <3>1, <3>2
    <3>3. CASE k = n
      <4>1. missing[jj] \in s[n][1] .. last /\ t[n][1] = s[n][1] /\ t[n][2] = here
        BY <1>2, <1>3, <1>5, <3>1, <3>3
      <4>2. missing[jj] \in s[n][1] .. here
        BY <1>1, <1>3, <4>1
      <4> QED
        BY <3>3, <4>1, <4>2
    <3> QED
      BY <3>2, <3>3
  <2>2. CASE jj = i
    <3>1. t[n][1] = s[n][1] /\ t[n][2] = here /\ here \in s[n][1] .. here
      BY <1>1, <1>3, <1>5, <1>7
    <3> QED
      BY <1>2, <2>2, <3>1 DEF here
  <2> QED
    BY <1>1, <2>1, <2>2
<1>12. Len(t) > 0 /\ t[Len(t)][2] = missing[i]
  BY <1>2, <1>3, <1>5 DEF here
<1> QED
  BY <1>5, <1>9, <1>10, <1>11, <1>12 DEF Leads, t

LEMMA LinkedType ==
  ASSUME NEW counts, NEW missing \in Seq(Nat), NEW i \in 1 .. Len(missing), NEW before \in Seq(Nat \X Nat)
  PROVE  Linked(counts, missing, i, before) \in Seq(Nat \X Nat)
<1> DEFINE n == Len(before)
           here == missing[i]
           new == <<here, here>>
           on == [before EXCEPT ![n] = <<@[1], here>>]
<1>1. n \in Nat /\ DOMAIN before = 1 .. n /\ (\A k \in 1 .. n : before[k] \in Nat \X Nat) /\ here \in Nat
  BY SeqProps
<1>2. Append(before, new) \in Seq(Nat \X Nat)
  <2>1. new \in Nat \X Nat
    BY <1>1
  <2> HIDE DEF new
  <2> QED
    BY <2>1, AppendProps
<1>3. on \in Seq(Nat \X Nat)
  <2> DEFINE end == <<before[n][1], here>>
  <2>1. on = [k \in 1 .. n |-> IF k = n THEN end ELSE before[k]]
    BY <1>1
  <2>2. ASSUME NEW k \in 1 .. n, k = n PROVE end \in Nat \X Nat
    <3>1. before[n] \in Nat \X Nat
      BY <1>1, <2>2
    <3>2. before[n][1] \in Nat
      BY <3>1
    <3> QED
      BY <1>1, <3>2
  <2> HIDE DEF end, on, here, n
  <2>3. \A k \in 1 .. n : (IF k = n THEN end ELSE before[k]) \in Nat \X Nat
    BY <1>1, <2>2
  <2> QED
    BY <1>1, <2>1, <2>3
<1> QED
  BY <1>2, <1>3 DEF Linked

LEMMA LinksAre ==
  ASSUME NEW counts, NEW noted, NEW missing \in Seq(Nat), MissingLines(counts, noted) = missing
  PROVE  \E f : /\ Links(counts, noted) = f[Len(missing)]
                /\ f[0] = <<>>
                /\ \A i \in 1 .. Len(missing) : f[i] = Linked(counts, missing, i, f[i - 1])
<1> DEFINE S == Seq(Nat \X Nat)
           n == Len(missing)
           Go(i, before) == IF i \in 1 .. n THEN Linked(counts, missing, i, before) ELSE before
           F == [i \in Nat |-> [before \in S |-> Go(i, before)]]
           none == <<>>
<1>1. F \in [Nat -> [S -> S]] /\ none \in S /\ n \in Nat
  <2>1. ASSUME NEW i \in Nat, NEW before \in S PROVE Go(i, before) \in S
    <3>1. CASE i \in 1 .. n
      <4>1. Linked(counts, missing, i, before) \in S
        BY <3>1, LinkedType
      <4> QED
        BY <3>1, <4>1
    <3>2. CASE i \notin 1 .. n
      BY <3>2
    <3> QED
      BY <3>1, <3>2
  <2>2. none \in S /\ n \in Nat
    BY SeqProps
  <2> HIDE DEF S, Go
  <2>3. F \in [Nat -> [S -> S]]
    BY <2>1
  <2> QED
    BY <2>2, <2>3
<1> HIDE DEF S, n, none
<1>2. PICK g : Steps(g, S, none, F, n)
  <2> HIDE DEF F
  <2> QED
    BY <1>1, Recursion
<1>3. g \in [0 .. n -> S] /\ g[0] = none /\ \A i \in 1 .. n : g[i] = F[i][g[i - 1]]
  BY <1>2 DEF Steps
<1>4. ASSUME NEW i \in 1 .. n PROVE g[i] = Linked(counts, missing, i, g[i - 1])
  <2>1. i \in Nat /\ i - 1 \in 0 .. n
    BY <1>1
  <2>2. g[i - 1] \in S
    BY <1>3, <2>1
  <2> HIDE DEF Go
  <2>3. F[i][g[i - 1]] = Go(i, g[i - 1])
    BY <2>1, <2>2
  <2> QED
    BY <1>3, <2>3 DEF Go
<1> HIDE DEF Go, F
<1>5. Linking(counts, missing, g)
  <2> DEFINE Next1(i) == Linked(counts, missing, i, g[i - 1])
  <2> HIDE DEF Next1
  <2>1. \A i \in 1 .. n : g[i] = Next1(i)
    BY <1>4 DEF Next1
  <2>2. \A i \in 0 .. n : g[i] = IF i = 0 THEN none ELSE Next1(i)
    BY <1>1, <1>3, <2>1
  <2>3. g = [i \in 0 .. n |-> g[i]]
    BY <1>3
  <2>4. g = [i \in 0 .. n |-> IF i = 0 THEN none ELSE Next1(i)]
    BY <2>2, <2>3
  <2> QED
    BY <2>4 DEF Linking, none, Next1, n
<1> DEFINE made == CHOOSE f : Linking(counts, missing, f)
<1>6. Linking(counts, missing, made)
  BY <1>5
<1>7. Links(counts, noted) = made[n]
  BY DEF Links, Linking, Linked, n
<1> HIDE DEF made
<1>8. made[0] = none /\ \A i \in 1 .. n : made[i] = Linked(counts, missing, i, made[i - 1])
  <2> DEFINE Next1(i) == Linked(counts, missing, i, made[i - 1])
  <2>1. made = [i \in 0 .. n |-> IF i = 0 THEN none ELSE Next1(i)]
    BY <1>6 DEF Linking, none, n
  <2> HIDE DEF Next1
  <2>2. made[0] = none /\ \A i \in 1 .. n : made[i] = Next1(i)
    BY <1>1, <2>1
  <2> QED
    BY <2>2 DEF Next1
<1> QED
  BY <1>7, <1>8 DEF n, none

LEMMA LinksLeadOver ==
  ASSUME NEW counts, NEW noted \in Seq(Nat)
  PROVE  LET missing == MissingLines(counts, noted)
         IN Leads(counts, missing, Len(missing), Links(counts, noted))
<1> DEFINE missing == MissingLines(counts, noted)
           n == Len(missing)
<1>1. missing \in Seq(Nat) /\ Ordered(missing) /\ \A i \in 1 .. n : IsMissing(counts, noted, missing[i])
  BY MissingRight
<1>2. \A i \in 1 .. n : missing[i] \in DOMAIN counts /\ counts[missing[i]] = 0
  BY <1>1 DEF IsMissing, Considered
<1>3. n \in Nat
  BY <1>1, SeqProps
<1>4. PICK f : /\ Links(counts, noted) = f[n]
               /\ f[0] = <<>>
               /\ \A i \in 1 .. n : f[i] = Linked(counts, missing, i, f[i - 1])
  BY <1>1, LinksAre
<1> HIDE DEF missing
<1> DEFINE T == {i \in Nat : i <= n => Leads(counts, missing, i, f[i])}
<1>5. 0 \in T
  <2> DEFINE none == <<>>
  <2>1. none \in Seq(Nat \X Nat) /\ Len(none) = 0
    OBVIOUS
  <2>2. f[0] = none
    BY <1>4
  <2> HIDE DEF none
  <2>3. Leads(counts, missing, 0, none)
    BY <2>1 DEF Leads
  <2> QED
    BY <2>2, <2>3
<1>6. ASSUME NEW i \in T PROVE i + 1 \in T
  <2>1. CASE i + 1 <= n
    <3> DEFINE m == i + 1
               s == f[i]
    <3>1. i \in Nat /\ m \in 1 .. n /\ m - 1 = i /\ Leads(counts, missing, i, s)
      BY <1>3, <1>6, <2>1
    <3>2. f[m] = Linked(counts, missing, m, s)
      BY <1>4, <3>1
    <3> HIDE DEF m, s, T
    <3>3. CASE m > 1 /\ Together(counts, missing[m - 1], missing[m])
      <4>1. m \in 2 .. n
        BY <3>1, <3>3
      <4>2. Leads(counts, missing, m, [s EXCEPT ![Len(s)] = <<@[1], missing[m]>>])
        BY <1>1, <1>2, <3>1, <3>3, <4>1, LeadsOn
      <4>3. f[m] = [s EXCEPT ![Len(s)] = <<@[1], missing[m]>>]
        BY <3>2, <3>3 DEF Linked
      <4> HIDE DEF n
      <4>4. m \in Nat /\ Leads(counts, missing, m, f[m])
        BY <3>1, <4>2, <4>3
      <4>5. m \in T
        BY <4>4 DEF T
      <4> QED
        BY <4>5 DEF m
    <3>4. CASE ~(m > 1 /\ Together(counts, missing[m - 1], missing[m]))
      <4>1. m = 1 \/ ~Together(counts, missing[m - 1], missing[m])
        BY <3>1, <3>4
      <4>2. Leads(counts, missing, m, Append(s, <<missing[m], missing[m]>>))
        BY <1>1, <1>2, <3>1, <4>1, LeadsNew
      <4>3. f[m] = Append(s, <<missing[m], missing[m]>>)
        BY <3>2, <3>4 DEF Linked
      <4> HIDE DEF n
      <4>4. m \in Nat /\ Leads(counts, missing, m, f[m])
        BY <3>1, <4>2, <4>3
      <4>5. m \in T
        BY <4>4 DEF T
      <4> QED
        BY <4>5 DEF m
    <3> QED
      BY <3>3, <3>4
  <2> QED
    BY <2>1
<1>7. T = Nat
  <2> HIDE DEF T
  <2>1. T \subseteq Nat
    BY DEF T
  <2> QED
    BY <1>5, <1>6, <2>1, Induction
<1> QED
  BY <1>3, <1>4, <1>7 DEF missing

LEMMA LinksRight ==
  ASSUME call.name = "summary" => /\ IsListing(call.input)
                                  /\ result = Links(call.input.counts, call.input.noted)
  PROVE  LinksExact
<1> SUFFICES ASSUME call.name = "summary" PROVE LinksExact
  BY DEF LinksExact
<1> DEFINE counts == call.input.counts
           noted == call.input.noted
           all == {l \in Considered(counts, noted) : counts[l] = 0}
           executed == {l \in DOMAIN counts : counts[l] # 0}
           over(k) == result[k][1] .. result[k][2]
           missing == MissingLines(counts, noted)
<1>1. noted \in Seq(Nat) /\ result = Links(counts, noted)
  BY DEF IsListing
<1> SUFFICES /\ all \subseteq UNION {over(k) : k \in DOMAIN result}
             /\ \A k \in DOMAIN result : {result[k][1], result[k][2]} \subseteq all /\ over(k) \cap executed = {}
             /\ \A k \in DOMAIN result \ {1} : (result[k - 1][2] .. result[k][1]) \cap executed # {}
  BY DEF LinksExact
<1> HIDE DEF counts, noted
<1>2. /\ \A i \in 1 .. Len(missing) : IsMissing(counts, noted, missing[i])
      /\ \A l : IsMissing(counts, noted, l) => \E i \in 1 .. Len(missing) : missing[i] = l
  BY <1>1, MissingRight
<1>3. Leads(counts, missing, Len(missing), result)
  BY <1>1, LinksLeadOver
<1>4. \A l : l \in all <=> IsMissing(counts, noted, l)
  BY DEF IsMissing
<1> HIDE DEF missing, all
<1>5. result \in Seq(Nat \X Nat) /\ Len(result) \in Nat /\ DOMAIN result = 1 .. Len(result)
  <2>1. result \in Seq(Nat \X Nat)
    BY <1>3 DEF Leads
  <2> QED
    BY <2>1, SeqProps
<1>6. ASSUME NEW l \in all PROVE \E k \in DOMAIN result : l \in over(k)
  <2>1. PICK i \in 1 .. Len(missing) : missing[i] = l
    BY <1>2, <1>4
  <2>2. \E k \in 1 .. Len(result) : missing[i] \in over(k)
    BY <1>3 DEF Leads
  <2> QED
    BY <1>5, <2>1, <2>2
<1>7. ASSUME NEW k \in DOMAIN result
      PROVE  {result[k][1], result[k][2]} \subseteq all /\ over(k) \cap executed = {}
  <2>1. /\ \E i, j \in 1 .. Len(missing) : result[k] = <<missing[i], missing[j]>>
        /\ \A x \in over(k) : x \in DOMAIN counts => counts[x] = 0
    BY <1>3, <1>5, <1>7 DEF Leads
  <2>2. PICK i \in 1 .. Len(missing), j \in 1 .. Len(missing) : result[k] = <<missing[i], missing[j]>>
    BY <2>1
  <2>3. result[k][1] \in all /\ result[k][2] \in all
    BY <1>2, <1>4, <2>2
  <2> HIDE DEF over
  <2>4. over(k) \cap executed = {}
    BY <2>1
  <2> QED
    BY <2>3, <2>4
<1>8. ASSUME NEW k \in DOMAIN result \ {1} PROVE (result[k - 1][2] .. result[k][1]) \cap executed # {}
  <2>1. k \in 2 .. Len(result)
    BY <1>5, <1>8
  <2>2. PICK x \in result[k - 1][2] .. result[k][1] : x \in DOMAIN counts /\ counts[x] # 0
    BY <1>3, <2>1 DEF Leads
  <2> QED
    BY <2>2
<1>9. all \subseteq UNION {over(k) : k \in DOMAIN result}
  <2> HIDE DEF over
  <2> QED
    BY <1>6
<1> QED
  BY <1>7, <1>8, <1>9

\* For every file, whatever lines have counts, whatever they are and wherever its
\* conditionals lead: the links of the missing column lead over all missing lines and
\* over no line with a count, and are as few as that allows.
THEOREM LinksExactCorrect == SummarySpec => []LinksExact
<1> DEFINE Made == call.name = "summary" => /\ IsListing(call.input)
                                            /\ result = Links(call.input.counts, call.input.noted)
<1>1. NoCall => Made
  BY DEF NoCall, Idle
<1>2. Made /\ [\/ \E listing : IsListing(listing) /\ Summarize(listing)
               \/ call'.name # "summary"]_<<call, result>> => Made'
  BY DEF Summarize, Called
<1>3. Made => LinksExact
  BY LinksRight
<1> QED
  BY <1>1, <1>2, <1>3, PTL DEF SummarySpec

----------------------------------------------------------------------------
(* URLs and the names in them. *)

LEMMA SubSeqType ==
  ASSUME NEW S, NEW s \in Seq(S), NEW i \in Nat, i > 0
  PROVE  SubSeq(s, i, Len(s)) \in Seq(S)
<1>1. Len(s) \in Nat /\ \A j \in 1 .. Len(s) : s[j] \in S
  BY SeqProps
<1>2. \A j \in i .. Len(s) : s[j] \in S
  BY <1>1
<1> QED
  BY <1>1, <1>2, SubSeqProperties

LEMMA UpToIs ==
  ASSUME NEW s \in Seq(Nat), NEW c
  PROVE  /\ UpTo(s, c) \in Seq(Nat)
         /\ s # <<>> /\ s[1] # c => UpTo(s, c) # <<>> /\ UpTo(s, c)[1] = s[1]
<1> DEFINE I == {j \in 1 .. Len(s) : s[j] = c}
           i == IF I # {} THEN Min(I) ELSE 0
           head == SubSeq(s, 1, i - 1)
<1>1. UpTo(s, c) = IF i = 0 THEN s ELSE head
  BY DEF UpTo, SelectInSeq
<1>2. Len(s) \in Nat /\ \A j \in 1 .. Len(s) : s[j] \in Nat
  BY SeqProps
<1>3. CASE I = {}
  BY <1>1, <1>3
<1>4. CASE I # {}
  <2>1. I \subseteq Nat
    BY <1>2
  <2>2. i \in I
    <3> HIDE DEF I
    <3> QED
      BY <1>4, <2>1, MinIs
  <2>3. i \in 1 .. Len(s) /\ s[i] = c
    BY <2>2
  <2> HIDE DEF i
  <2>4. head \in Seq(Nat) /\ Len(head) = i - 1 /\ \A j \in 1 .. i - 1 : head[j] = s[j]
    <3>1. i - 1 \in 0 .. Len(s) /\ \A j \in 1 .. i - 1 : s[j] \in Nat
      BY <1>2, <2>3
    <3>2. head \in Seq(Nat) /\ Len(head) = (IF 1 <= i - 1 THEN (i - 1) - 1 + 1 ELSE 0)
          /\ \A j \in 1 .. (i - 1) - 1 + 1 : head[j] = s[1 + j - 1]
      BY <1>2, <3>1, SubSeqProperties
    <3>3. \A j \in 1 .. i - 1 : 1 + j - 1 = j
      BY <3>1
    <3> QED
      BY <2>3, <3>1, <3>2, <3>3
  <2>5. ASSUME s # <<>>, s[1] # c PROVE head # <<>> /\ head[1] = s[1]
    <3>1. i # 1 /\ 1 \in 1 .. i - 1 /\ Len(head) # 0
      BY <2>3, <2>4, <2>5
    <3> HIDE DEF head
    <3>2. head[1] = s[1] /\ head # <<>>
      BY <2>4, <3>1
    <3> QED
      BY <3>2
  <2>6. UpTo(s, c) = head
    BY <1>1, <2>3
  <2> HIDE DEF head
  <2> QED
    BY <2>4, <2>5, <2>6
<1> QED
  BY <1>3, <1>4

\* The path of a URL begins with a slash, if it is a path at all.
LEMMA PathIs ==
  ASSUME NEW s \in Seq(Nat), AbsPath(s) # Bad
  PROVE  AbsPath(s) \in Seq(Nat) /\ AbsPath(s) # <<>> /\ AbsPath(s)[1] = Slash
<1> DEFINE root == <<Slash>>
<1>1. root \in Seq(Nat) /\ root # <<>> /\ root[1] = Slash
  BY DEF Slash
<1>2. CASE s = <<>> \/ s[1] = Question
  BY <1>1, <1>2 DEF AbsPath
<1>3. CASE s # <<>> /\ s[1] # Question
  <2>1. s[1] = Slash
    BY <1>3 DEF AbsPath
  <2>2. AbsPath(s) = UpTo(s, Question)
    BY <1>3, <2>1 DEF AbsPath
  <2> QED
    BY <1>3, <2>1, <2>2, UpToIs
<1> QED
  BY <1>2, <1>3

LEMMA URLIs ==
  ASSUME NEW url \in Seq(Nat), URL_parse(url) # Bad
  PROVE  URL_parse(url) \in Seq(Nat) /\ URL_parse(url) # <<>> /\ URL_parse(url)[1] = Slash
<1>1. Relative(url) \in Seq(Nat)
  <2> DEFINE I == {i \in 8 .. Len(url) : url[i] \in {Slash, Question}}
             end == IF I # {} THEN Min(I) ELSE 0
             none == <<>>
  <2>1. Relative(url) = IF ~Absolute(url) THEN url ELSE IF end = 0 THEN none ELSE From(url, end)
    BY DEF Relative, SelectInSubSeq
  <2>2. end \in Nat
    <3>1. Len(url) \in Nat
      BY SeqProps
    <3>2. I \subseteq Nat
      BY <3>1
    <3> HIDE DEF I
    <3> QED
      BY <3>2, MinIs
  <2>3. none \in Seq(Nat)
    OBVIOUS
  <2> HIDE DEF end, none
  <2>4. CASE end = 0
    BY <2>1, <2>3, <2>4
  <2>5. CASE end # 0
    <3>1. From(url, end) \in Seq(Nat)
      BY <2>2, <2>5, SubSeqType DEF From
    <3> QED
      BY <2>1, <2>5, <3>1
  <2> QED
    BY <2>4, <2>5
<1>2. URL_parse(url) = AbsPath(Relative(url))
  BY DEF URL_parse
<1> QED
  BY <1>1, <1>2, PathIs

\* What is left of a text from a place on, decoded.
From1(s, i, f) ==
  IF i > Len(s) THEN <<>>
  ELSE IF s[i] # Percent THEN <<s[i]>> \o f[i + 1]
  ELSE IF i + 2 > Len(s) THEN <<>>
  ELSE <<HexValue(s[i + 1]) * 16 + HexValue(s[i + 2])>> \o f[i + 3]
Decoding(s, f) == f = [i \in 1 .. Len(s) + 1 |-> From1(s, i, f)]

LEMMA HexValueNat ==
  ASSUME NEW c \in Nat
  PROVE  HexValue(c) \in Nat
<1>1. CASE c \in Digits
  BY <1>1 DEF HexValue, Digits
<1>2. CASE c \notin Digits
  BY <1>2 DEF HexValue, Digits
<1> QED
  BY <1>1, <1>2

LEMMA From1Type ==
  ASSUME NEW s \in Seq(Nat), NEW i \in 1 .. Len(s) + 1, NEW f, \A j \in i + 1 .. Len(s) + 1 : f[j] \in Seq(Nat)
  PROVE  From1(s, i, f) \in Seq(Nat)
<1>1. Len(s) \in Nat /\ \A j \in 1 .. Len(s) : s[j] \in Nat
  BY SeqProps
<1>2. ASSUME NEW c \in Nat, NEW rest \in Seq(Nat) PROVE <<c>> \o rest \in Seq(Nat)
  <2> DEFINE one == <<c>>
  <2>1. one \in Seq(Nat)
    OBVIOUS
  <2> HIDE DEF one
  <2>2. one \o rest \in Seq(Nat)
    BY <2>1, ConcatProps
  <2> QED
    BY <2>2 DEF one
<1> DEFINE none == <<>>
<1>3. none \in Seq(Nat)
  OBVIOUS
<1> HIDE DEF none
<1>4. CASE i > Len(s)
  BY <1>3, <1>4 DEF From1, none
<1>5. CASE ~(i > Len(s)) /\ s[i] # Percent
  <2>1. s[i] \in Nat /\ f[i + 1] \in Seq(Nat)
    BY <1>1, <1>5
  <2>2. From1(s, i, f) = <<s[i]>> \o f[i + 1]
    BY <1>5 DEF From1
  <2> QED
    BY <1>2, <2>1, <2>2
<1>6. CASE ~(i > Len(s)) /\ s[i] = Percent /\ i + 2 > Len(s)
  BY <1>3, <1>6 DEF From1, none
<1>7. CASE ~(i > Len(s)) /\ s[i] = Percent /\ ~(i + 2 > Len(s))
  <2> DEFINE c == HexValue(s[i + 1]) * 16 + HexValue(s[i + 2])
  <2>1. s[i + 1] \in Nat /\ s[i + 2] \in Nat /\ f[i + 3] \in Seq(Nat)
    BY <1>1, <1>7
  <2>2. HexValue(s[i + 1]) \in Nat /\ HexValue(s[i + 2]) \in Nat
    BY <2>1, HexValueNat
  <2>3. c \in Nat
    BY <2>2
  <2>4. From1(s, i, f) = <<c>> \o f[i + 3]
    BY <1>7 DEF From1
  <2> HIDE DEF c
  <2> QED
    BY <1>2, <2>1, <2>3, <2>4
<1> QED
  BY <1>4, <1>5, <1>6, <1>7

LEMMA From1Same ==
  ASSUME NEW s \in Seq(Nat), NEW i \in 1 .. Len(s) + 1, NEW f, NEW g, \A j \in i + 1 .. Len(s) + 1 : f[j] = g[j]
  PROVE  From1(s, i, f) = From1(s, i, g)
<1>1. Len(s) \in Nat
  BY SeqProps
<1>2. CASE i > Len(s)
  BY <1>2 DEF From1
<1>3. CASE ~(i > Len(s)) /\ s[i] # Percent
  <2>1. f[i + 1] = g[i + 1]
    BY <1>1, <1>3
  <2> QED
    BY <1>3, <2>1 DEF From1
<1>4. CASE ~(i > Len(s)) /\ s[i] = Percent /\ i + 2 > Len(s)
  BY <1>4 DEF From1
<1>5. CASE ~(i > Len(s)) /\ s[i] = Percent /\ ~(i + 2 > Len(s))
  <2>1. f[i + 3] = g[i + 3]
    BY <1>1, <1>5
  <2> QED
    BY <1>5, <2>1 DEF From1
<1> QED
  BY <1>2, <1>3, <1>4, <1>5

LEMMA DecodingExists ==
  ASSUME NEW s \in Seq(Nat)
  PROVE  \E f : f \in [1 .. Len(s) + 1 -> Seq(Nat)] /\ Decoding(s, f)
<1> DEFINE n == Len(s)
           Right(f, m) == f \in [1 .. n + 1 -> Seq(Nat)] /\ \A i \in m .. n + 1 : f[i] = From1(s, i, f)
           T == {k \in Nat : k <= n => \E f : Right(f, n + 1 - k)}
<1>1. n \in Nat
  BY SeqProps
<1>2. 0 \in T
  <2> DEFINE none == <<>>
             f == [i \in 1 .. n + 1 |-> none]
  <2>1. none \in Seq(Nat)
    OBVIOUS
  <2> HIDE DEF none
  <2>2. f \in [1 .. n + 1 -> Seq(Nat)] /\ f[n + 1] = none
    BY <1>1, <2>1
  <2>3. From1(s, n + 1, f) = none
    BY <1>1 DEF From1, none
  <2>4. \A i \in n + 1 .. n + 1 : i = n + 1
    BY <1>1
  <2> HIDE DEF f
  <2>5. Right(f, n + 1)
    BY <2>2, <2>3, <2>4
  <2>6. n + 1 - 0 = n + 1
    BY <1>1
  <2> HIDE DEF Right, n
  <2> QED
    BY <2>5, <2>6
<1>3. ASSUME NEW k \in T PROVE k + 1 \in T
  <2>1. CASE k + 1 <= n
    <3> DEFINE m == n + 1 - k
               p == n + 1 - (k + 1)
    <3>1. k \in Nat /\ m \in 2 .. n + 1 /\ p \in 1 .. n + 1 /\ p = m - 1
      BY <1>1, <1>3, <2>1
    <3>2. PICK f : Right(f, m)
      BY <1>1, <1>3, <2>1
    <3> HIDE DEF m, p
    <3> DEFINE here == From1(s, p, f)
               g == [i \in 1 .. n + 1 |-> IF i = p THEN here ELSE f[i]]
    <3>3. \A j \in p + 1 .. n + 1 : f[j] \in Seq(Nat)
      BY <1>1, <3>1, <3>2
    <3>4. here \in Seq(Nat)
      BY <3>1, <3>3, From1Type
    <3> HIDE DEF here
    <3>5. g \in [1 .. n + 1 -> Seq(Nat)]
      BY <3>2, <3>4
    <3>6. g[p] = here /\ \A j \in m .. n + 1 : j \in 1 .. n + 1 /\ g[j] = f[j]
      BY <1>1, <3>1
    <3> HIDE DEF g
    <3>7. ASSUME NEW i \in p .. n + 1 PROVE g[i] = From1(s, i, g)
      <4>1. i \in 1 .. n + 1 /\ i + 1 \in m .. n + 2
        BY <1>1, <3>1
      <4>2. \A j \in i + 1 .. n + 1 : f[j] = g[j]
        BY <1>1, <3>1, <3>6, <4>1
      <4>3. From1(s, i, f) = From1(s, i, g)
        BY <4>1, <4>2, From1Same
      <4>4. g[i] = From1(s, i, f)
        <5>1. CASE i = p
          BY <3>6, <5>1 DEF here
        <5>2. CASE i # p
          <6>1. i \in m .. n + 1
            BY <1>1, <3>1, <5>2
          <6> QED
            BY <3>2, <3>6, <6>1
        <5> QED
          BY <5>1, <5>2
      <4> QED
        BY <4>3, <4>4
    <3>8. Right(g, p)
      BY <3>5, <3>7
    <3> HIDE DEF Right, n
    <3>9. k + 1 \in Nat /\ \E h : Right(h, n + 1 - (k + 1))
      BY <3>1, <3>8 DEF p
    <3> QED
      BY <3>9
  <2>2. CASE ~(k + 1 <= n)
    <3> HIDE DEF Right, n
    <3>1. k + 1 \in Nat
      BY <1>3
    <3> QED
      BY <2>2, <3>1
  <2> QED
    BY <2>1, <2>2
<1>4. T = Nat
  <2> HIDE DEF T
  <2>1. T \subseteq Nat
    BY DEF T
  <2> QED
    BY <1>2, <1>3, <2>1, Induction
<1>5. PICK f : Right(f, n + 1 - n)
  <2> HIDE DEF Right
  <2> QED
    BY <1>1, <1>4
<1>6. f \in [1 .. n + 1 -> Seq(Nat)] /\ \A i \in 1 .. n + 1 : f[i] = From1(s, i, f)
  <2>1. n + 1 - n = 1
    BY <1>1
  <2> QED
    BY <1>5, <2>1
<1>7. f = [i \in 1 .. n + 1 |-> From1(s, i, f)]
  <2>1. f = [i \in 1 .. n + 1 |-> f[i]]
    BY <1>6
  <2> QED
    BY <1>6, <2>1
<1> QED
  BY <1>6, <1>7 DEF Decoding

\* A name that begins with a slash still does when it is decoded.
LEMMA DecodedIs ==
  ASSUME NEW s \in Seq(Nat), s # <<>>, s[1] = Slash
  PROVE  LET decoded == decode_uri_component(s)
         IN decoded \in Seq(Nat) /\ decoded # <<>> /\ decoded[1] = Slash
<1> DEFINE from == CHOOSE f : Decoding(s, f)
           d == Decoded(s)
           rest == from[2]
           one == <<Slash>>
<1>1. d = from[1]
  BY DEF Decoded, Decoding, From1
<1>2. Decoding(s, from)
  BY DecodingExists
<1>3. Len(s) \in Nat /\ Len(s) >= 1 /\ \A i \in 1 .. Len(s) : s[i] \in Nat
  BY SeqProps, EmptySeq
<1>4. rest \in Seq(Nat)
  <2> DEFINE T == {k \in Nat : k <= Len(s) => \A i \in Len(s) + 1 - k .. Len(s) + 1 : from[i] \in Seq(Nat)}
  <2> HIDE DEF from
  <2>1. \A i \in 1 .. Len(s) + 1 : from[i] = From1(s, i, from)
    BY <1>2 DEF Decoding
  <2>2. 0 \in T
    <3>1. from[Len(s) + 1] = From1(s, Len(s) + 1, from) /\ Len(s) + 1 \in 1 .. Len(s) + 1
      BY <1>3, <2>1
    <3>2. \A j \in Len(s) + 1 + 1 .. Len(s) + 1 : from[j] \in Seq(Nat)
      BY <1>3
    <3>3. From1(s, Len(s) + 1, from) \in Seq(Nat)
      BY <3>1, <3>2, From1Type
    <3>4. \A i \in Len(s) + 1 - 0 .. Len(s) + 1 : i = Len(s) + 1
      BY <1>3
    <3> QED
      BY <3>1, <3>3, <3>4
  <2>3. ASSUME NEW k \in T PROVE k + 1 \in T
    <3>1. CASE k + 1 <= Len(s)
      <4> DEFINE p == Len(s) + 1 - (k + 1)
      <4>1. k \in Nat /\ p \in 1 .. Len(s) + 1 /\ p + 1 = Len(s) + 1 - k /\ k <= Len(s)
        BY <1>3, <3>1
      <4>2. \A j \in p + 1 .. Len(s) + 1 : from[j] \in Seq(Nat)
        BY <4>1
      <4> HIDE DEF p
      <4>3. from[p] \in Seq(Nat)
        BY <2>1, <4>1, <4>2, From1Type
      <4>4. \A j \in p .. Len(s) + 1 : from[j] \in Seq(Nat)
        <5>1. \A j \in p .. Len(s) + 1 : j = p \/ j \in p + 1 .. Len(s) + 1
          BY <1>3, <4>1
        <5> QED
          BY <4>2, <4>3, <5>1
      <4> QED
        BY <4>1, <4>4 DEF p
    <3> QED
      BY <3>1
  <2>4. T = Nat
    <3> HIDE DEF T
    <3>1. T \subseteq Nat
      BY DEF T
    <3> QED
      BY <2>2, <2>3, <3>1, Induction
  <2>5. Len(s) + 1 - Len(s) = 1 /\ 2 \in 1 .. Len(s) + 1
    BY <1>3
  <2>6. \A i \in Len(s) + 1 - Len(s) .. Len(s) + 1 : from[i] \in Seq(Nat)
    <3>1. Len(s) \in T
      <4> HIDE DEF T
      <4> QED
        BY <1>3, <2>4
    <3> QED
      BY <1>3, <3>1
  <2> HIDE DEF T
  <2> QED
    BY <2>5, <2>6
<1>5. d = one \o rest
  <2> HIDE DEF from
  <2>1. from[1] = From1(s, 1, from) /\ 1 + 1 = 2
    BY <1>2, <1>3 DEF Decoding
  <2>2. From1(s, 1, from) = <<s[1]>> \o from[1 + 1]
    BY <1>3 DEF From1, Slash, Percent
  <2> QED
    BY <1>1, <2>1, <2>2
<1> HIDE DEF rest, d
<1>6. d \in Seq(Nat) /\ d # <<>> /\ d[1] = Slash
  <2>1. one \in Seq(Nat) /\ Len(one) = 1 /\ one[1] = Slash
    BY DEF Slash
  <2> HIDE DEF one, from
  <2>2. one \o rest \in Seq(Nat) /\ Len(one \o rest) = Len(one) + Len(rest) /\ Len(rest) \in Nat
        /\ (one \o rest)[1] = one[1]
    <3>1. rest \in Seq(Nat) /\ one \in Seq(Nat) /\ 1 \in 1 .. Len(one)
      BY <1>4, <2>1
    <3>2. one \o rest \in Seq(Nat)
      BY <3>1, ConcatProps
    <3>3. Len(one \o rest) = Len(one) + Len(rest) /\ Len(rest) \in Nat
      BY <3>1, ConcatProps
    <3>4. (one \o rest)[1] = one[1]
      BY <3>1, ConcatProps
    <3> QED
      BY <3>2, <3>3, <3>4
  <2>3. d \in Seq(Nat) /\ Len(d) # 0 /\ d[1] = Slash
    BY <1>5, <2>1, <2>2
  <2> QED
    BY <2>3
<1>7. decode_uri_component(s) = UpTo(d, 0)
  BY DEF decode_uri_component, d
<1>8. d[1] # 0
  BY <1>6 DEF Slash
<1> QED
  BY <1>6, <1>7, <1>8, UpToIs

----------------------------------------------------------------------------
(* The parts of a path. *)

Parted(s, c, i, before) ==
  IF s[i] = c THEN Append(before, <<>>) ELSE [before EXCEPT ![Len(before)] = Append(@, s[i])]
Parting(s, c, f) == f = [i \in 0 .. Len(s) |-> IF i = 0 THEN <<<<>>>> ELSE Parted(s, c, i, f[i - 1])]

LEMMA PartedType ==
  ASSUME NEW s \in Seq(Nat), NEW c, NEW i \in 1 .. Len(s), NEW before \in Seq(Seq(Nat))
  PROVE  Parted(s, c, i, before) \in Seq(Seq(Nat))
<1> DEFINE n == Len(before)
           none == <<>>
           end == Append(before[n], s[i])
           on == [before EXCEPT ![n] = Append(@, s[i])]
<1>1. n \in Nat /\ DOMAIN before = 1 .. n /\ \A k \in 1 .. n : before[k] \in Seq(Nat)
  BY SeqProps
<1>2. s[i] \in Nat /\ none \in Seq(Nat)
  BY SeqProps
<1>3. Append(before, none) \in Seq(Seq(Nat))
  <2> HIDE DEF none
  <2> QED
    BY <1>2, AppendProps
<1>4. on \in Seq(Seq(Nat))
  <2>1. on = [k \in 1 .. n |-> IF k = n THEN end ELSE before[k]]
    BY <1>1
  <2>2. ASSUME NEW k \in 1 .. n, k = n PROVE end \in Seq(Nat)
    <3>1. before[n] \in Seq(Nat)
      BY <1>1, <2>2
    <3> QED
      BY <1>2, <3>1, AppendProps
  <2> HIDE DEF end, on, n
  <2>3. \A k \in 1 .. n : (IF k = n THEN end ELSE before[k]) \in Seq(Nat)
    BY <1>1, <2>2
  <2> QED
    BY <1>1, <2>1, <2>3
<1> QED
  BY <1>3, <1>4 DEF Parted

\* Behind the last separator is an empty part.
LEMMA SplitEnds ==
  ASSUME NEW s \in Seq(Nat), s # <<>>, Last(s) = Slash
  PROVE  Last(Split(s, Slash)) = <<>>
<1> DEFINE S == Seq(Seq(Nat))
           n == Len(s)
           Go(i, before) == IF i \in 1 .. n THEN Parted(s, Slash, i, before) ELSE before
           F == [i \in Nat |-> [before \in S |-> Go(i, before)]]
           none == <<>>
           start == <<none>>
<1>1. F \in [Nat -> [S -> S]] /\ start \in S /\ n \in Nat /\ n >= 1
  <2>1. ASSUME NEW i \in Nat, NEW before \in S PROVE Go(i, before) \in S
    <3>1. CASE i \in 1 .. n
      <4>1. Parted(s, Slash, i, before) \in S
        BY <3>1, PartedType
      <4> QED
        BY <3>1, <4>1
    <3>2. CASE i \notin 1 .. n
      BY <3>2
    <3> QED
      BY <3>1, <3>2
  <2>2. start \in S
    <3>1. none \in Seq(Nat)
      OBVIOUS
    <3> HIDE DEF none
    <3> QED
      BY <3>1
  <2>3. n \in Nat /\ n >= 1
    BY SeqProps, EmptySeq
  <2> HIDE DEF S, Go
  <2>4. F \in [Nat -> [S -> S]]
    BY <2>1
  <2> QED
    BY <2>2, <2>3, <2>4
<1> HIDE DEF S, n, start
<1>2. PICK g : Steps(g, S, start, F, n)
  <2> HIDE DEF F
  <2> QED
    BY <1>1, Recursion
<1>3. g \in [0 .. n -> S] /\ g[0] = start /\ \A i \in 1 .. n : g[i] = F[i][g[i - 1]]
  BY <1>2 DEF Steps
<1>4. ASSUME NEW i \in 1 .. n PROVE g[i] = Parted(s, Slash, i, g[i - 1])
  <2>1. i \in Nat /\ i - 1 \in 0 .. n
    BY <1>1
  <2>2. g[i - 1] \in S
    BY <1>3, <2>1
  <2> HIDE DEF Go
  <2>3. F[i][g[i - 1]] = Go(i, g[i - 1])
    BY <2>1, <2>2
  <2> QED
    BY <1>3, <2>3 DEF Go
<1> HIDE DEF Go, F
<1>5. Parting(s, Slash, g)
  <2> DEFINE Next1(i) == Parted(s, Slash, i, g[i - 1])
  <2> HIDE DEF Next1
  <2>1. \A i \in 1 .. n : g[i] = Next1(i)
    BY <1>4 DEF Next1
  <2>2. \A i \in 0 .. n : g[i] = IF i = 0 THEN start ELSE Next1(i)
    BY <1>1, <1>3, <2>1
  <2>3. g = [i \in 0 .. n |-> g[i]]
    BY <1>3
  <2>4. g = [i \in 0 .. n |-> IF i = 0 THEN start ELSE Next1(i)]
    BY <2>2, <2>3
  <2> QED
    BY <2>4 DEF Parting, start, Next1, n
<1> DEFINE parts == CHOOSE f : Parting(s, Slash, f)
<1>6. Parting(s, Slash, parts)
  BY <1>5
<1>7. Split(s, Slash) = parts[n]
  BY DEF Split, Parting, Parted, n
<1> HIDE DEF parts
<1>8. parts[0] = start /\ \A i \in 1 .. n : parts[i] = Parted(s, Slash, i, parts[i - 1])
  <2> DEFINE Next1(i) == Parted(s, Slash, i, parts[i - 1])
  <2>1. parts = [i \in 0 .. n |-> IF i = 0 THEN start ELSE Next1(i)]
    BY <1>6 DEF Parting, start, n
  <2> HIDE DEF Next1
  <2>2. parts[0] = start /\ \A i \in 1 .. n : parts[i] = Next1(i)
    BY <1>1, <2>1
  <2> QED
    BY <2>2 DEF Next1
<1>9. parts[n - 1] \in S
  <2> DEFINE T == {i \in Nat : i <= n => parts[i] \in S}
  <2>1. 0 \in T
    BY <1>1, <1>8
  <2>2. ASSUME NEW i \in T PROVE i + 1 \in T
    <3>1. CASE i + 1 <= n
      <4> DEFINE m == i + 1
      <4>1. m \in 1 .. n /\ parts[i] \in S /\ m - 1 = i /\ m \in Nat
        BY <1>1, <2>2, <3>1
      <4> HIDE DEF m
      <4>2. Parted(s, Slash, m, parts[m - 1]) \in S
        BY <4>1, PartedType DEF S, n
      <4>3. parts[m] \in S
        BY <1>8, <4>1, <4>2
      <4> QED
        BY <4>1, <4>3 DEF m
    <3> QED
      BY <3>1
  <2> HIDE DEF T
  <2>3. T = Nat
    <3>1. T \subseteq Nat
      BY DEF T
    <3> QED
      BY <2>1, <2>2, <3>1, Induction
  <2>4. n - 1 \in T /\ n - 1 <= n
    BY <1>1, <2>3
  <2> QED
    BY <2>4 DEF T
<1>10. parts[n] = Append(parts[n - 1], none)
  <2>1. s[n] = Slash /\ n \in 1 .. n
    BY <1>1 DEF Last, n
  <2> QED
    BY <1>8, <2>1 DEF Parted
<1> DEFINE before == parts[n - 1]
<1>11. before \in Seq(Seq(Nat)) /\ none \in Seq(Nat)
  BY <1>9 DEF S
<1> HIDE DEF before, none
<1>12. LET all == Append(before, none) IN all[Len(all)] = none
  BY <1>11, AppendProps
<1> QED
  BY <1>7, <1>10, <1>12 DEF before, none, Last

----------------------------------------------------------------------------
(* The source of a script. *)

\* What has the answer "script", and what it says.
LEMMA ScriptIs ==
  ASSUME NEW tree, \A p \in DOMAIN tree : tree[p] \in Kinds, NEW url \in Seq(Nat),
         Answer(tree, url, NoInstrument).kind = "script"
  PROVE  LET answer == Answer(tree, url, NoInstrument)
             decoded == decode_uri_component(answer.id)
             joined == make_path(Tail(decoded))
             file == IF Last(joined) = Slash THEN Front(joined) ELSE joined
         IN /\ answer.id \in Seq(Nat) /\ answer.id # <<>> /\ answer.id[1] = Slash /\ ~HasDots(decoded)
            /\ Stat(tree, file) = {answer.path} /\ tree[answer.path] = "file"
<1> DEFINE abs_path == URL_parse(url)
           decoded == decode_uri_component(abs_path)
           joined == make_path(Tail(decoded))
           file == IF Last(joined) = Slash THEN Front(joined) ELSE joined
           found == Stat(tree, file)
           path == CHOOSE p \in found : TRUE
           answer == Answer(tree, url, NoInstrument)
           served == Served(tree, path, url, abs_path, file, NoInstrument)
<1>1. answer = IF abs_path = Bad THEN [kind |-> "bad"]
               ELSE IF IsPrefix(<<Slash>> \o Jscoverage, decoded) THEN [kind |-> "special"]
               ELSE IF HasDots(decoded) THEN [kind |-> "refused"]
               ELSE IF found = Nothing THEN Missing
               ELSE served
  BY DEF Answer
<1>2. found = {} \/ \E p \in DOMAIN tree : found = {p}
  BY DEF Stat, Nothing
<1>3. answer.kind = "script"
  OBVIOUS
<1> HIDE DEF abs_path, decoded, joined, file, found, path, answer, served
<1>4. abs_path # Bad /\ ~HasDots(decoded) /\ found # {} /\ answer = served
  BY <1>1, <1>3 DEF Missing, Nothing
<1>5. found = {path} /\ path \in DOMAIN tree
  <2>1. PICK p \in DOMAIN tree : found = {p}
    BY <1>2, <1>4
  <2> QED
    BY <2>1 DEF path
<1>6. tree[path] \in Kinds
  BY <1>5
<1>7. served.kind = "script"
  BY <1>3, <1>4
<1>8. tree[path] = "file" /\ served.path = path /\ served.id = abs_path
  BY <1>6, <1>7 DEF served, Served, Kinds, Missing
<1>9. abs_path \in Seq(Nat) /\ abs_path # <<>> /\ abs_path[1] = Slash
  BY <1>4, URLIs DEF abs_path
<1> QED
  BY <1>4, <1>5, <1>8, <1>9 DEF answer, decoded, joined, file, found

LEMMA HeadAgain ==
  ASSUME NEW S, NEW d \in Seq(S), d # <<>>, NEW c, d[1] = c
  PROVE  <<c>> \o Tail(d) = d
<1> DEFINE one == <<c>>
           tail == Tail(d)
           all == one \o tail
<1>1. Len(d) \in Nat /\ Len(d) >= 1 /\ \A i \in 1 .. Len(d) : d[i] \in S
  BY SeqProps, EmptySeq
<1>2. tail \in Seq(S) /\ Len(tail) = Len(d) - 1 /\ \A i \in 1 .. Len(tail) : tail[i] = d[i + 1]
  BY HeadTailProperties
<1>3. one \in Seq(S) /\ Len(one) = 1 /\ one[1] = c
  BY <1>1
<1> HIDE DEF one, tail
<1>4. all \in Seq(S)
  BY <1>2, <1>3, ConcatProps
<1>5. Len(all) = Len(one) + Len(tail)
  BY <1>2, <1>3, ConcatProps
<1>6. all[1] = one[1]
  <2>1. 1 \in 1 .. Len(one)
    BY <1>3
  <2> QED
    BY <1>2, <1>3, <2>1, ConcatProps
<1>7. ASSUME NEW i \in 1 .. Len(tail) PROVE all[Len(one) + i] = tail[i]
  <2>1. tail \in Seq(S) /\ one \in Seq(S)
    BY <1>2, <1>3
  <2> QED
    BY <2>1, ConcatProps
<1> HIDE DEF all
<1>8. ASSUME NEW i \in 1 .. Len(d) PROVE all[i] = d[i]
  <2>1. CASE i = 1
    BY <1>3, <1>6, <2>1
  <2>2. CASE i # 1
    <3>1. i - 1 \in 1 .. Len(tail) /\ 1 + (i - 1) = i /\ (i - 1) + 1 = i
      BY <1>1, <1>2, <2>2
    <3>2. all[Len(one) + (i - 1)] = tail[i - 1] /\ tail[i - 1] = d[(i - 1) + 1]
      BY <1>2, <1>7, <3>1
    <3> QED
      BY <1>3, <3>1, <3>2
  <2> QED
    BY <2>1, <2>2
<1>9. all = d
  <2>1. Len(all) = Len(d)
    BY <1>1, <1>2, <1>3, <1>5
  <2> QED
    BY <1>4, <1>8, <2>1, SeqEqual
<1> QED
  BY <1>9 DEF all, one, tail

LEMMA SourceIs ==
  ASSUME NEW tree, \A p \in DOMAIN tree : tree[p] \in Kinds, NEW url \in Seq(Nat),
         Answer(tree, url, NoInstrument).kind = "script"
  PROVE  LET answer == Answer(tree, url, NoInstrument)
         IN SourceOf(tree, answer.id) = {answer.path} <=> Last(decode_uri_component(answer.id)) # Slash
<1> DEFINE answer == Answer(tree, url, NoInstrument)
           id == answer.id
           path == answer.path
           decoded == decode_uri_component(id)
           joined == make_path(Tail(decoded))
           file == IF Last(joined) = Slash THEN Front(joined) ELSE joined
<1>1. /\ id \in Seq(Nat) /\ id # <<>> /\ id[1] = Slash /\ ~HasDots(decoded)
      /\ Stat(tree, file) = {path} /\ tree[path] = "file"
  BY ScriptIs
<1>2. SourceOf(tree, id) = {p \in Stat(tree, joined) : tree[p] = "file"}
  BY <1>1 DEF SourceOf
<1> HIDE DEF answer, id, path
<1>3. decoded \in Seq(Nat) /\ decoded # <<>> /\ decoded[1] = Slash
  BY <1>1, DecodedIs
<1> HIDE DEF decoded
<1>4. joined = decoded
  BY <1>3, HeadAgain DEF make_path
<1>5. CASE Last(decoded) # Slash
  <2>1. file = joined
    BY <1>4, <1>5
  <2>2. SourceOf(tree, id) = {p \in {path} : tree[p] = "file"}
    BY <1>1, <1>2, <2>1
  <2>3. SourceOf(tree, id) = {path}
    BY <1>1, <2>2
  <2> QED
    BY <1>5, <2>3 DEF id, path, answer, decoded
<1>6. CASE Last(decoded) = Slash
  <2>1. Last(Split(joined, Slash)) = <<>>
    BY <1>3, <1>4, <1>6, SplitEnds
  <2>2. \A p \in Stat(tree, joined) : tree[p] \in {"directory", "closed directory"}
    BY <2>1 DEF Stat, Nothing
  <2>3. SourceOf(tree, id) = {}
    BY <1>2, <2>2
  <2> QED
    BY <1>6, <2>3 DEF id, path, answer, decoded
<1> QED
  BY <1>5, <1>6

\* For every tree below the document root, every URL and every list of prefixes: the
\* name under which a script is instrumented leads the store to the file that was
\* served, unless the name ends in a slash when it is decoded.
THEOREM SourceFoundCorrect == RequestsSpec => []SourceFound
<1> DEFINE Made == call.name = "request" /\ result.kind = "script" =>
                     /\ IsRequest(call.input)
                     /\ result = Answer(call.input.tree, call.input.url, NoInstrument)
<1>1. NoCall => Made
  BY DEF NoCall, Idle
<1>2. Made /\ [\/ \E request : IsRequest(request) /\ Get(request)
               \/ call'.name # "request"]_<<call, result>> => Made'
  BY DEF Get, Called
<1>3. Made => SourceFound
  <2> SUFFICES ASSUME Made, call.name = "request", result.kind = "script"
               PROVE  SourceOf(call.input.tree, result.id) = {result.path}
                        <=> Last(decode_uri_component(result.id)) # Slash
    BY DEF SourceFound
  <2>1. /\ call.input.url \in Seq(Nat) /\ \A p \in DOMAIN call.input.tree : call.input.tree[p] \in Kinds
        /\ result = Answer(call.input.tree, call.input.url, NoInstrument)
    BY DEF IsRequest
  <2> QED
    BY <2>1, SourceIs
<1> QED
  BY <1>1, <1>2, <1>3, PTL DEF RequestsSpec
=============================================================================
