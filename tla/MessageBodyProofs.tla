------------------------ MODULE MessageBodyProofs ------------------------
(***************************************************************************)
(* Theorems about MessageBody for every message, whatever its lines and    *)
(* octets are, every size of the caller's buffer and every SIZE_MAX.       *)
(*                                                                         *)
(* Headers and Copied are recursive functions over lists of any length:    *)
(* what they return is shown by induction, in the form that a set of       *)
(* naturals that is not empty has a least element.  So are the functions   *)
(* that a message's meaning is defined by, ChunksOf and TrailerOf.         *)
(***************************************************************************)
EXTENDS MessageBody, SequenceTheorems, WellFoundedInduction, TLAPS

\* The least number principle, and induction as it follows from it.
LEMMA LeastNatural ==
  ASSUME NEW T, T \subseteq Nat, T # {}
  PROVE  \E m \in T : \A k \in T : m <= k
<1> DEFINE R == {p \in Nat \X Nat : p[1] < p[2]}
<1>1. IsWellFoundedOn(R, Nat)
  BY NatLessThanWellFounded DEF OpToRel
<1>2. \A k, m \in Nat : k < m => <<k, m>> \in R
  OBVIOUS
<1> HIDE DEF R
<1>3. PICK m \in T : \A k \in T : ~(<<k, m>> \in R)
  BY <1>1, WFMin
<1>4. ASSUME NEW k \in T PROVE m <= k
  <2>1. k \in Nat /\ m \in Nat /\ ~(<<k, m>> \in R)
    BY <1>3
  <2>2. ~(k < m)
    BY <2>1, <1>2
  <2> QED
    BY <2>1, <2>2
<1> QED
  BY <1>4

LEMMA Induction ==
  ASSUME NEW T, T \subseteq Nat, 0 \in T, \A n \in T : n + 1 \in T
  PROVE  T = Nat
<1> SUFFICES ASSUME T # Nat PROVE FALSE
  OBVIOUS
<1>1. PICK m \in Nat \ T : \A k \in Nat \ T : m <= k
  BY LeastNatural
<1>2. m - 1 \in T
  BY <1>1
<1> QED
  BY <1>1, <1>2

LEMMA LeastIs ==
  ASSUME NEW T, T \subseteq Nat, T # {}
  PROVE  Least(T) \in T /\ \A k \in T : Least(T) <= k
BY LeastNatural DEF Least

LEMMA LeastUnique ==
  ASSUME NEW T, T \subseteq Nat, NEW m \in T, \A k \in T : m <= k
  PROVE  Least(T) = m
<1>1. Least(T) \in T /\ \A k \in T : Least(T) <= k
  BY LeastIs
<1>2. Least(T) \in Nat /\ m \in Nat /\ Least(T) <= m /\ m <= Least(T)
  BY <1>1
<1> QED
  BY <1>2

----------------------------------------------------------------------------
(* Lists of headers, no two of which have the same name. *)

HeaderList(hs) ==
  /\ \E S : hs \in Seq(S)
  /\ \A i, j \in DOMAIN hs : hs[i].name = hs[j].name => i = j

Find(hs, word, n) == {i \in 1 .. n : Names(hs[i].name, word)}

\* find_header looks at all of the list
LEMMA FoundIn ==
  ASSUME NEW hs, HeaderList(hs), NEW word
  PROVE  /\ Len(hs) \in Nat /\ DOMAIN hs = 1 .. Len(hs)
         /\ find_header(hs, word) = IF Find(hs, word, Len(hs)) = {} THEN Absent
                                    ELSE hs[Least(Find(hs, word, Len(hs)))].value
<1>1. PICK S : hs \in Seq(S)
  BY DEF HeaderList
<1>2. Len(hs) \in Nat /\ DOMAIN hs = 1 .. Len(hs)
  BY <1>1, LenProperties
<1>3. {i \in DOMAIN hs : Names(hs[i].name, word)} = Find(hs, word, Len(hs))
  BY <1>2 DEF Find
<1> QED
  BY <1>2, <1>3 DEF find_header

\* One header more: the first one found stays the first one found.
LEMMA FindNext ==
  ASSUME NEW hs, NEW word, NEW n \in Nat
  PROVE  /\ Find(hs, word, n) # {} =>
              /\ Find(hs, word, n + 1) # {}
              /\ Least(Find(hs, word, n + 1)) = Least(Find(hs, word, n))
         /\ Find(hs, word, n) = {} /\ Names(hs[n + 1].name, word) =>
              /\ Find(hs, word, n + 1) # {}
              /\ Least(Find(hs, word, n + 1)) = n + 1
         /\ ~Names(hs[n + 1].name, word) => Find(hs, word, n + 1) = Find(hs, word, n)
<1> DEFINE F == Find(hs, word, n)
           G == Find(hs, word, n + 1)
<1>1. F \subseteq 1 .. n /\ F \subseteq G /\ G \subseteq F \cup {n + 1} /\ G \subseteq Nat
  BY DEF Find
<1>2. n + 1 \in G <=> Names(hs[n + 1].name, word)
  BY DEF Find
<1> HIDE DEF F, G
<1>3. ASSUME F # {} PROVE G # {} /\ Least(G) = Least(F)
  <2>1. Least(F) \in F /\ \A k \in F : Least(F) <= k
    BY <1>1, <1>3, LeastIs
  <2>2. Least(F) \in 1 .. n /\ Least(F) \in G
    BY <1>1, <2>1
  <2>3. ASSUME NEW k \in G PROVE Least(F) <= k
    <3>1. CASE k \in F
      BY <2>1, <3>1
    <3>2. CASE k = n + 1
      BY <2>2, <3>2
    <3> QED
      BY <1>1, <3>1, <3>2
  <2> QED
    BY <1>1, <2>2, <2>3, LeastUnique
<1>4. ASSUME F = {}, n + 1 \in G PROVE Least(G) = n + 1
  <2>1. \A k \in G : n + 1 <= k
    BY <1>1, <1>4
  <2> QED
    BY <1>1, <1>4, <2>1, LeastUnique
<1>5. ASSUME n + 1 \notin G PROVE G = F
  BY <1>1, <1>5
<1> QED
  BY <1>2, <1>3, <1>4, <1>5 DEF F, G

\* Two lists with the same names, and the same values under one of them.
LEMMA FindSame ==
  ASSUME NEW hs, HeaderList(hs), NEW r, HeaderList(r), Len(r) = Len(hs), NEW word,
         \A i \in 1 .. Len(hs) : r[i].name = hs[i].name,
         \A i \in 1 .. Len(hs) : Names(hs[i].name, word) => r[i].value = hs[i].value
  PROVE  find_header(r, word) = find_header(hs, word)
<1> DEFINE F == Find(hs, word, Len(hs))
<1>1. Find(r, word, Len(r)) = F /\ F \subseteq 1 .. Len(hs)
  BY DEF Find
<1>2. CASE F = {}
  BY <1>1, <1>2, FoundIn
<1>3. CASE F # {}
  <2>1. Least(F) \in F
    BY <1>1, <1>3, LeastIs, FoundIn
  <2>2. r[Least(F)].value = hs[Least(F)].value
    BY <2>1 DEF Find
  <2> QED
    BY <1>1, <1>3, <2>2, FoundIn
<1> QED
  BY <1>2, <1>3

(* What add_header and set_header do to such a list. *)

\* the names of r are those of hs, and perhaps one more
Named(r, hs, name) ==
  \A i \in DOMAIN r : r[i].name = name \/ \E j \in DOMAIN hs : r[i].name = hs[j].name

LEMMA EmptyList ==
  HeaderList(<<>>) /\ Len(<<>>) = 0 /\ \A word : find_header(<<>>, word) = Absent
<1>1. <<>> \in Seq({}) /\ DOMAIN <<>> = {} /\ Len(<<>>) = 0
  OBVIOUS
<1>2. \A word : {i \in DOMAIN <<>> : Names(<<>>[i].name, word)} = {}
  BY <1>1
<1> QED
  BY <1>1, <1>2 DEF HeaderList, find_header

\* r is hs and one header more, that is found where there was none with such a name
Extended(r, hs, name, value) ==
  /\ HeaderList(r) /\ Named(r, hs, name) /\ Len(r) = Len(hs) + 1
  /\ \A word :
       /\ Find(r, word, Len(r)) = {} <=> Find(hs, word, Len(hs)) = {} /\ ~Names(name, word)
       /\ find_header(r, word) = IF Find(hs, word, Len(hs)) = {} /\ Names(name, word) THEN value
                                 ELSE find_header(hs, word)

LEMMA AppendHeader ==
  ASSUME NEW hs, HeaderList(hs), NEW name, NEW value, \A i \in DOMAIN hs : hs[i].name # name,
         NEW r, r = Append(hs, [name |-> name, value |-> value])
  PROVE  Extended(r, hs, name, value)
<1> DEFINE h == [name |-> name, value |-> value]
<1>1. PICK S : hs \in Seq(S)
  BY DEF HeaderList
<1>2. hs \in Seq(S \cup {h}) /\ h \in S \cup {h}
  BY <1>1, SeqMonotonic
<1>3. h.name = name /\ h.value = value
  OBVIOUS
<1> HIDE DEF h
<1>4. r = Append(hs, h)
  BY DEF h
<1>5. /\ r \in Seq(S \cup {h}) /\ Len(r) = Len(hs) + 1 /\ r[Len(hs) + 1] = h
      /\ \A i \in 1 .. Len(hs) : r[i] = hs[i]
  BY <1>2, <1>4, AppendProperties
<1>6. Len(hs) \in Nat /\ DOMAIN hs = 1 .. Len(hs) /\ DOMAIN r = 1 .. Len(hs) + 1
  BY <1>2, <1>5, LenProperties
<1>7. ASSUME NEW i \in DOMAIN r, NEW j \in DOMAIN r, r[i].name = r[j].name PROVE i = j
  <2>1. CASE i \in DOMAIN hs /\ j \in DOMAIN hs
    BY <1>5, <1>6, <1>7, <2>1 DEF HeaderList
  <2>2. CASE i = Len(hs) + 1 /\ j \in DOMAIN hs
    BY <1>3, <1>5, <1>6, <1>7, <2>2
  <2>3. CASE i \in DOMAIN hs /\ j = Len(hs) + 1
    BY <1>3, <1>5, <1>6, <1>7, <2>3
  <2>4. CASE i = Len(hs) + 1 /\ j = Len(hs) + 1
    BY <2>4
  <2> QED
    BY <1>6, <2>1, <2>2, <2>3, <2>4
<1>8. HeaderList(r)
  BY <1>5, <1>7 DEF HeaderList
<1>9. Named(r, hs, name)
  <2>1. ASSUME NEW i \in DOMAIN r PROVE r[i].name = name \/ \E j \in DOMAIN hs : r[i].name = hs[j].name
    <3>1. CASE i \in DOMAIN hs
      BY <1>5, <1>6, <3>1
    <3>2. CASE i = Len(hs) + 1
      BY <1>3, <1>5, <3>2
    <3> QED
      BY <1>6, <3>1, <3>2
  <2> QED
    BY <2>1 DEF Named
<1>10. ASSUME NEW word
       PROVE  /\ Find(r, word, Len(r)) = {} <=> Find(hs, word, Len(hs)) = {} /\ ~Names(name, word)
              /\ find_header(r, word) = IF Find(hs, word, Len(hs)) = {} /\ Names(name, word) THEN value
                                        ELSE find_header(hs, word)
  <2> DEFINE n == Len(hs)
             F == Find(hs, word, n)
             G == Find(r, word, n + 1)
  <2>1. Find(r, word, n) = F /\ F \subseteq 1 .. n
    BY <1>5 DEF Find
  <2>2. find_header(r, word) = IF G = {} THEN Absent ELSE r[Least(G)].value
    BY <1>5, <1>8, FoundIn
  <2>3. find_header(hs, word) = IF F = {} THEN Absent ELSE hs[Least(F)].value
    BY FoundIn
  <2> DEFINE E == Find(r, word, n)
  <2>8. /\ E # {} => G # {} /\ Least(G) = Least(E)
        /\ E = {} /\ Names(r[n + 1].name, word) => G # {} /\ Least(G) = n + 1
        /\ ~Names(r[n + 1].name, word) => G = E
    <3> HIDE DEF E, G, n
    <3>1. n \in Nat /\ E = Find(r, word, n) /\ G = Find(r, word, n + 1)
      BY <1>6 DEF n, E, G
    <3> QED
      BY <3>1, FindNext
  <2>4. /\ F # {} => G # {} /\ Least(G) = Least(F)
        /\ F = {} /\ Names(r[n + 1].name, word) => G # {} /\ Least(G) = n + 1
        /\ ~Names(r[n + 1].name, word) => G = F
    <3>1. E = F
      BY <2>1
    <3> HIDE DEF E, F, G, n
    <3> QED
      BY <2>8, <3>1
  <2>5. F # {} => Least(F) \in 1 .. n
    BY <1>6, <2>1, LeastIs
  <2>6. r[n + 1].name = name /\ r[n + 1].value = value /\ \A i \in 1 .. n : r[i] = hs[i]
    BY <1>3, <1>5
  <2> HIDE DEF n, F, G
  <2>7. find_header(r, word) = IF F = {} /\ Names(name, word) THEN value ELSE find_header(hs, word)
    <3>1. CASE F # {}
      BY <2>2, <2>3, <2>4, <2>5, <2>6, <3>1
    <3>2. CASE F = {} /\ Names(name, word)
      BY <2>2, <2>4, <2>6, <3>2
    <3>3. CASE F = {} /\ ~Names(name, word)
      BY <2>2, <2>3, <2>4, <2>6, <3>3
    <3> QED
      BY <3>1, <3>2, <3>3
  <2>9. G = {} <=> F = {} /\ ~Names(name, word)
    BY <2>4, <2>6
  <2>10. G = Find(r, word, Len(r))
    BY <1>5 DEF G, n
  <2> QED
    BY <2>7, <2>9, <2>10 DEF F, n
<1> QED
  BY <1>5, <1>8, <1>9, <1>10 DEF Extended

\* r is hs up to the headers with that name
Changed(r, hs, name) ==
  /\ HeaderList(r) /\ Named(r, hs, name)
  /\ \A word : ~Names(name, word) => find_header(r, word) = find_header(hs, word)

\* The values under one name are replaced.
LEMMA ReplaceHeader ==
  ASSUME NEW hs, HeaderList(hs), NEW name, NEW values,
         NEW r, r = [i \in DOMAIN hs |-> IF hs[i].name = name THEN [name |-> name, value |-> values[i]] ELSE hs[i]]
  PROVE  Changed(r, hs, name)
<1>1. PICK S : hs \in Seq(S)
  BY DEF HeaderList
<1>2. Len(hs) \in Nat /\ DOMAIN hs = 1 .. Len(hs)
  BY <1>1, LenProperties
<1> DEFINE T == {r[i] : i \in 1 .. Len(hs)}
<1>3. r \in [1 .. Len(hs) -> T]
  BY <1>2
<1>4. r \in Seq(T)
  BY <1>2, <1>3, SeqDef
<1> HIDE DEF T
<1>5. DOMAIN r = DOMAIN hs /\ Len(r) = Len(hs)
  <2>1. Len(r) \in Nat /\ DOMAIN r = 1 .. Len(r)
    BY <1>4, LenProperties
  <2>2. 1 .. Len(r) = 1 .. Len(hs)
    BY <1>2, <1>3, <2>1
  <2> QED
    BY <1>2, <2>1, <2>2
<1>6. \A i \in DOMAIN hs : r[i].name = hs[i].name
  OBVIOUS
<1>7. \A i \in DOMAIN hs : hs[i].name # name => r[i].value = hs[i].value
  OBVIOUS
<1>8. HeaderList(r)
  <2>1. ASSUME NEW i \in DOMAIN r, NEW j \in DOMAIN r, r[i].name = r[j].name PROVE i = j
    BY <1>5, <1>6, <2>1 DEF HeaderList
  <2> HIDE DEF T
  <2> QED
    BY <1>4, <2>1 DEF HeaderList
<1>9. Named(r, hs, name)
  BY <1>5, <1>6 DEF Named
<1>10. ASSUME NEW word, ~Names(name, word) PROVE find_header(r, word) = find_header(hs, word)
  <2>1. \A i \in 1 .. Len(hs) : Names(hs[i].name, word) => r[i].value = hs[i].value
    BY <1>2, <1>7, <1>10
  <2> QED
    BY <1>2, <1>5, <1>6, <1>8, <2>1, FindSame
<1> QED
  BY <1>8, <1>9, <1>10 DEF Changed

LEMMA AddHeader ==
  ASSUME NEW hs, HeaderList(hs), NEW name, NEW value
  PROVE  Changed(add_header(hs, name, value), hs, name)
<1> DEFINE r == add_header(hs, name, value)
<1>1. CASE \E i \in DOMAIN hs : hs[i].name = name
  <2> DEFINE values == [i \in DOMAIN hs |-> hs[i].value \o <<",", " ">> \o value]
  <2>1. r = [i \in DOMAIN hs |-> IF hs[i].name = name THEN [name |-> name, value |-> values[i]] ELSE hs[i]]
    BY <1>1 DEF add_header
  <2> HIDE DEF r, values
  <2>2. Changed(r, hs, name)
    BY <2>1, ReplaceHeader
  <2> QED
    BY <2>2 DEF r
<1>2. CASE \A i \in DOMAIN hs : hs[i].name # name
  <2>1. r = Append(hs, [name |-> name, value |-> value])
    BY <1>2 DEF add_header
  <2> HIDE DEF r
  <2>2. Extended(r, hs, name, value)
    BY <1>2, <2>1, AppendHeader
  <2>3. Changed(r, hs, name)
    BY <2>2 DEF Changed, Extended
  <2> QED
    BY <2>3 DEF r
<1> QED
  BY <1>1, <1>2

LEMMA SetHeader ==
  ASSUME NEW hs, HeaderList(hs), NEW name, NEW value
  PROVE  Changed(set_header(hs, name, value), hs, name)
<1> DEFINE r == set_header(hs, name, value)
<1>1. CASE \E i \in DOMAIN hs : hs[i].name = name
  <2> DEFINE values == [i \in DOMAIN hs |-> value]
  <2>1. r = [i \in DOMAIN hs |-> IF hs[i].name = name THEN [name |-> name, value |-> values[i]] ELSE hs[i]]
    BY <1>1 DEF set_header
  <2> HIDE DEF r, values
  <2>2. Changed(r, hs, name)
    BY <2>1, ReplaceHeader
  <2> QED
    BY <2>2 DEF r
<1>2. CASE \A i \in DOMAIN hs : hs[i].name # name
  BY <1>2, AddHeader DEF set_header
<1> QED
  BY <1>1, <1>2

----------------------------------------------------------------------------
(* The headers that are read are such a list. *)

LEMMA ReadHeaderList ==
  ASSUME NEW hs, HeaderList(hs), NEW t
  PROVE  HeaderList(ReadHeader(hs, t))
<1>1. HeaderList(Refused)
  <2> DEFINE h == [name |-> <<>>, value |-> <<>>]
  <2>1. <<h>> \in Seq({h}) /\ DOMAIN <<h>> = {1}
    OBVIOUS
  <2> QED
    BY <2>1 DEF Refused, HeaderList
<1>2. \A name, value : HeaderList(add_header(hs, name, value))
  BY AddHeader DEF Changed
<1> QED
  BY <1>1, <1>2 DEF ReadHeader

\* f[i] are the headers in the first i lines
ReadIn(lines, n, f) == f = [i \in 1 .. n |-> IF i = 1 THEN <<>> ELSE ReadHeader(f[i - 1], lines[i])]

LEMMA ReadExists ==
  ASSUME NEW lines, NEW n \in Nat
  PROVE  \E f : ReadIn(lines, n, f)
<1> DEFINE T == {k \in Nat : \E f : ReadIn(lines, k, f)}
<1>1. 0 \in T
  <2>1. ReadIn(lines, 0, [i \in 1 .. 0 |-> <<>>])
    BY DEF ReadIn
  <2> QED
    BY <2>1
<1>2. ASSUME NEW k \in T PROVE k + 1 \in T
  <2>1. PICK f : ReadIn(lines, k, f)
    OBVIOUS
  <2> DEFINE next == IF k = 0 THEN <<>> ELSE ReadHeader(f[k], lines[k + 1])
             g == [i \in 1 .. k + 1 |-> IF i <= k THEN f[i] ELSE next]
  <2>2. ASSUME NEW i \in 1 .. k + 1
        PROVE  g[i] = IF i = 1 THEN <<>> ELSE ReadHeader(g[i - 1], lines[i])
    <3>1. CASE i <= k
      <4>1. f[i] = IF i = 1 THEN <<>> ELSE ReadHeader(f[i - 1], lines[i])
        BY <2>1, <3>1 DEF ReadIn
      <4>2. g[i] = f[i] /\ (i # 1 => g[i - 1] = f[i - 1])
        BY <3>1
      <4> QED
        BY <4>1, <4>2
    <3>2. CASE i = k + 1
      <4>1. g[i] = next /\ (i # 1 => k # 0 /\ g[i - 1] = f[k])
        BY <3>2
      <4> QED
        BY <3>2, <4>1
    <3> QED
      BY <3>1, <3>2
  <2>3. ReadIn(lines, k + 1, g)
    <3>1. DOMAIN g = 1 .. k + 1 /\ g = [i \in DOMAIN g |-> g[i]]
      OBVIOUS
    <3> HIDE DEF g
    <3> QED
      BY <2>2, <3>1 DEF ReadIn
  <2> HIDE DEF g
  <2> QED
    BY <2>3
<1>3. T = Nat
  <2> HIDE DEF T
  <2>1. T \subseteq Nat
    BY DEF T
  <2> QED
    BY <1>1, <1>2, <2>1, Induction
<1> QED
  BY <1>3

LEMMA HeadersList ==
  ASSUME NEW lines, Len(lines) \in Nat \ {0}
  PROVE  HeaderList(Headers(lines))
<1> DEFINE n == Len(lines)
           read == CHOOSE f : ReadIn(lines, n, f)
           T == {k \in Nat : k + 1 <= n => HeaderList(read[k + 1])}
<1>1. ReadIn(lines, n, read)
  BY ReadExists
<1>2. Headers(lines) = read[n]
  BY DEF Headers, ReadIn
<1> HIDE DEF read
<1>3. 0 \in T
  <2>1. n >= 1 => read[1] = <<>>
    BY <1>1 DEF ReadIn
  <2> QED
    BY <2>1, EmptyList
<1>4. ASSUME NEW k \in T PROVE k + 1 \in T
  <2>1. CASE k + 2 <= n
    <3>1. HeaderList(read[k + 1])
      BY <2>1
    <3> DEFINE m == k + 2
    <3>2. m \in 1 .. n /\ m # 1 /\ m - 1 = k + 1
      BY <2>1
    <3> HIDE DEF m
    <3>3. read[m] = ReadHeader(read[k + 1], lines[m])
      BY <1>1, <3>2 DEF ReadIn
    <3>4. HeaderList(read[m])
      BY <3>1, <3>3, ReadHeaderList
    <3> QED
      BY <3>4 DEF m
  <2>2. CASE ~(k + 2 <= n)
    BY <2>2
  <2> QED
    BY <2>1, <2>2
<1>5. T = Nat
  <2>1. T \subseteq Nat
    OBVIOUS
  <2> HIDE DEF T
  <2> QED
    BY <1>3, <1>4, <2>1, Induction
<1>6. n - 1 \in T
  <2> HIDE DEF T
  <2> QED
    BY <1>5
<1>7. HeaderList(read[n])
  BY <1>6
<1> QED
  BY <1>2, <1>7

----------------------------------------------------------------------------
(* What Copied passes on. *)

Dropped(name, dropped) == \E word \in dropped : Names(name, word)

\* f[i] is what is passed on of the first i headers
CopyOf(hs, dropped, n, f) ==
  f = [i \in 0 .. n |-> IF i = 0 THEN <<>>
                         ELSE IF Dropped(hs[i].name, dropped) THEN f[i - 1]
                         ELSE add_header(f[i - 1], hs[i].name, hs[i].value)]

LEMMA CopyExists ==
  ASSUME NEW hs, NEW dropped, NEW n \in Nat
  PROVE  \E f : CopyOf(hs, dropped, n, f)
<1> DEFINE T == {k \in Nat : \E f : CopyOf(hs, dropped, k, f)}
<1>1. 0 \in T
  <2>1. CopyOf(hs, dropped, 0, [i \in 0 .. 0 |-> <<>>])
    BY DEF CopyOf
  <2> QED
    BY <2>1
<1>2. ASSUME NEW k \in T PROVE k + 1 \in T
  <2>1. PICK f : CopyOf(hs, dropped, k, f)
    OBVIOUS
  <2> DEFINE next == IF Dropped(hs[k + 1].name, dropped) THEN f[k]
                     ELSE add_header(f[k], hs[k + 1].name, hs[k + 1].value)
             g == [i \in 0 .. k + 1 |-> IF i <= k THEN f[i] ELSE next]
  <2>2. ASSUME NEW i \in 0 .. k + 1
        PROVE  g[i] = IF i = 0 THEN <<>>
                      ELSE IF Dropped(hs[i].name, dropped) THEN g[i - 1]
                      ELSE add_header(g[i - 1], hs[i].name, hs[i].value)
    <3>1. CASE i <= k
      <4>1. f[i] = IF i = 0 THEN <<>>
                   ELSE IF Dropped(hs[i].name, dropped) THEN f[i - 1]
                   ELSE add_header(f[i - 1], hs[i].name, hs[i].value)
        BY <2>1, <3>1 DEF CopyOf
      <4>2. g[i] = f[i] /\ (i # 0 => g[i - 1] = f[i - 1])
        BY <3>1
      <4> HIDE DEF g
      <4> QED
        BY <4>1, <4>2
    <3>2. CASE i = k + 1
      <4>1. g[i] = next /\ i # 0 /\ g[i - 1] = f[k]
        BY <3>2
      <4> QED
        BY <3>2, <4>1
    <3> QED
      BY <3>1, <3>2
  <2>3. CopyOf(hs, dropped, k + 1, g)
    <3>1. DOMAIN g = 0 .. k + 1 /\ g = [i \in DOMAIN g |-> g[i]]
      OBVIOUS
    <3> HIDE DEF g
    <3> QED
      BY <2>2, <3>1 DEF CopyOf
  <2> HIDE DEF g
  <2> QED
    BY <2>3
<1>3. T = Nat
  <2> HIDE DEF T
  <2>1. T \subseteq Nat
    BY DEF T
  <2> QED
    BY <1>1, <1>2, <2>1, Induction
<1> QED
  BY <1>3

\* c is what is passed on of the first n headers
Copy(hs, dropped, n, c) ==
  /\ HeaderList(c)
  /\ \A j \in DOMAIN c : \E k \in 1 .. n : c[j].name = hs[k].name
  /\ \A word \in dropped : Find(c, word, Len(c)) = {}
  /\ \A word : word \notin dropped =>
       /\ Find(c, word, Len(c)) = {} <=> Find(hs, word, n) = {}
       /\ Find(hs, word, n) # {} => find_header(c, word) = hs[Least(Find(hs, word, n))].value

LEMMA NextDropped ==
  ASSUME NEW hs, HeaderList(hs), NEW dropped, NEW n \in Nat, n + 1 <= Len(hs), NEW c, Copy(hs, dropped, n, c),
         Dropped(hs[n + 1].name, dropped)
  PROVE  Copy(hs, dropped, n + 1, c)
<1>1. ASSUME NEW word, word \notin dropped PROVE Find(hs, word, n + 1) = Find(hs, word, n)
  <2>1. ~Names(hs[n + 1].name, word)
    BY <1>1 DEF Dropped, Names
  <2> QED
    BY <2>1, FindNext
<1>2. \A k \in 1 .. n : k \in 1 .. n + 1
  OBVIOUS
<1> QED
  BY <1>1, <1>2 DEF Copy

LEMMA NextCopied ==
  ASSUME NEW hs, HeaderList(hs), NEW dropped, NEW n \in Nat, n + 1 <= Len(hs), NEW c, Copy(hs, dropped, n, c),
         ~Dropped(hs[n + 1].name, dropped)
  PROVE  Copy(hs, dropped, n + 1, add_header(c, hs[n + 1].name, hs[n + 1].value))
<1> DEFINE name == hs[n + 1].name
           value == hs[n + 1].value
           r == add_header(c, name, value)
<1>1. HeaderList(c) /\ Len(hs) \in Nat /\ DOMAIN hs = 1 .. Len(hs)
  BY FoundIn DEF Copy
<1>2. n + 1 \in DOMAIN hs /\ \A k \in 1 .. n : k \in DOMAIN hs /\ k # n + 1
  BY <1>1
<1>3. \A j \in DOMAIN c : c[j].name # name
  BY <1>2 DEF Copy, HeaderList
<1>4. r = Append(c, [name |-> name, value |-> value])
  BY <1>3 DEF add_header
<1> HIDE DEF r
<1>5. Extended(r, c, name, value)
  BY <1>1, <1>3, <1>4, AppendHeader
<1>6. ASSUME NEW j \in DOMAIN r PROVE \E k \in 1 .. n + 1 : r[j].name = hs[k].name
  <2>1. CASE r[j].name = name
    BY <2>1
  <2>2. CASE \E i \in DOMAIN c : r[j].name = c[i].name
    BY <2>2 DEF Copy
  <2> QED
    BY <1>5, <2>1, <2>2 DEF Extended, Named
<1>7. ASSUME NEW word \in dropped PROVE Find(r, word, Len(r)) = {}
  <2>1. ~Names(name, word)
    BY DEF Dropped
  <2> QED
    BY <1>5, <2>1 DEF Extended, Copy
<1>8. ASSUME NEW word, word \notin dropped
      PROVE  /\ Find(r, word, Len(r)) = {} <=> Find(hs, word, n + 1) = {}
             /\ Find(hs, word, n + 1) # {} => find_header(r, word) = hs[Least(Find(hs, word, n + 1))].value
  <2> DEFINE F == Find(hs, word, n)
             G == Find(hs, word, n + 1)
             C == Find(c, word, Len(c))
  <2>1. /\ F # {} => G # {} /\ Least(G) = Least(F)
        /\ F = {} /\ Names(name, word) => G # {} /\ Least(G) = n + 1
        /\ ~Names(name, word) => G = F
    BY FindNext
  <2>2. (C = {} <=> F = {}) /\ (F # {} => find_header(c, word) = hs[Least(F)].value)
    BY <1>8 DEF Copy
  <2>3. /\ Find(r, word, Len(r)) = {} <=> C = {} /\ ~Names(name, word)
        /\ find_header(r, word) = IF C = {} /\ Names(name, word) THEN value ELSE find_header(c, word)
    BY <1>5 DEF Extended
  <2> HIDE DEF F, G, C
  <2>4. Find(r, word, Len(r)) = {} <=> G = {}
    BY <2>1, <2>2, <2>3
  <2>5. G # {} => find_header(r, word) = hs[Least(G)].value
    <3>1. CASE F # {}
      BY <2>1, <2>2, <2>3, <3>1
    <3>2. CASE F = {} /\ Names(name, word)
      BY <2>1, <2>2, <2>3, <3>2
    <3>3. CASE F = {} /\ ~Names(name, word)
      BY <2>1, <3>3
    <3> QED
      BY <3>1, <3>2, <3>3
  <2> QED
    BY <2>4, <2>5 DEF G
<1>9. Copy(hs, dropped, n + 1, r)
  <2> HIDE DEF name, value
  <2>1. HeaderList(r)
    BY <1>5 DEF Extended
  <2> QED
    BY <1>6, <1>7, <1>8, <2>1 DEF Copy
<1> QED
  BY <1>9 DEF r

LEMMA CopyAll ==
  ASSUME NEW hs, HeaderList(hs), NEW dropped, NEW f, CopyOf(hs, dropped, Len(hs), f)
  PROVE  Copy(hs, dropped, Len(hs), f[Len(hs)])
<1> DEFINE T == {n \in Nat : n <= Len(hs) => Copy(hs, dropped, n, f[n])}
<1>1. Len(hs) \in Nat
  BY FoundIn
<1>2. Copy(hs, dropped, 0, f[0])
  <2>1. f[0] = <<>>
    BY <1>1 DEF CopyOf
  <2>2. DOMAIN <<>> = {} /\ Len(<<>>) = 0
    OBVIOUS
  <2>3. \A word : Find(<<>>, word, 0) = {} /\ Find(hs, word, 0) = {}
    BY DEF Find
  <2>4. Copy(hs, dropped, 0, <<>>)
    BY <2>2, <2>3, EmptyList DEF Copy
  <2> QED
    BY <2>1, <2>4
<1>3. ASSUME NEW n \in T PROVE n + 1 \in T
  <2>1. SUFFICES ASSUME n + 1 <= Len(hs) PROVE Copy(hs, dropped, n + 1, f[n + 1])
    OBVIOUS
  <2>2. n \in Nat /\ Copy(hs, dropped, n, f[n])
    BY <1>1, <2>1
  <2> DEFINE m == n + 1
  <2>3. m \in 0 .. Len(hs) /\ m # 0 /\ m - 1 = n
    BY <1>1, <2>1
  <2> HIDE DEF m
  <2>4. f[m] = IF Dropped(hs[m].name, dropped) THEN f[n] ELSE add_header(f[n], hs[m].name, hs[m].value)
    BY <2>3 DEF CopyOf
  <2>5. f[n + 1] = IF Dropped(hs[n + 1].name, dropped) THEN f[n] ELSE add_header(f[n], hs[n + 1].name, hs[n + 1].value)
    BY <2>4 DEF m
  <2>6. CASE Dropped(hs[n + 1].name, dropped)
    <3>1. Copy(hs, dropped, n + 1, f[n])
      BY <2>1, <2>2, <2>6, NextDropped
    <3> QED
      BY <2>5, <2>6, <3>1
  <2>7. CASE ~Dropped(hs[n + 1].name, dropped)
    <3>1. Copy(hs, dropped, n + 1, add_header(f[n], hs[n + 1].name, hs[n + 1].value))
      BY <2>1, <2>2, <2>7, NextCopied
    <3> QED
      BY <2>5, <2>7, <3>1
  <2> QED
    BY <2>6, <2>7
<1>4. T = Nat
  <2>1. T \subseteq Nat /\ 0 \in T
    BY <1>2
  <2> HIDE DEF T
  <2> QED
    BY <1>3, <2>1, Induction
<1>5. Len(hs) \in T
  <2> HIDE DEF T
  <2> QED
    BY <1>1, <1>4
<1> QED
  BY <1>1, <1>5

\* What is dropped is gone, and what is not is found as before.
LEMMA CopiedHeaders ==
  ASSUME NEW hs, HeaderList(hs), NEW dropped
  PROVE  /\ HeaderList(Copied(hs, dropped))
         /\ \A word : ~Names(Via, word) =>
              /\ word \in dropped => \A i \in DOMAIN Copied(hs, dropped) : ~Names(Copied(hs, dropped)[i].name, word)
              /\ word \notin dropped => find_header(Copied(hs, dropped), word) = find_header(hs, word)
<1> DEFINE copy == CHOOSE f : CopyOf(hs, dropped, Len(hs), f)
           c == copy[Len(hs)]
           r == Copied(hs, dropped)
<1>1. Len(hs) \in Nat
  BY FoundIn
<1>2. CopyOf(hs, dropped, Len(hs), copy)
  BY <1>1, CopyExists
<1>3. r = add_header(c, Via, <<"1.1", " ", "jscoverage-server">>)
  BY DEF Copied, CopyOf, Dropped
<1> HIDE DEF copy
<1>4. Copy(hs, dropped, Len(hs), c)
  BY <1>2, CopyAll
<1> HIDE DEF c, r
<1>5. HeaderList(c)
  BY <1>4 DEF Copy
<1>6. Changed(r, c, Via)
  BY <1>3, <1>5, AddHeader
<1>7. HeaderList(r)
  BY <1>6 DEF Changed
<1>8. ASSUME NEW word \in dropped, ~Names(Via, word), NEW i \in DOMAIN r PROVE ~Names(r[i].name, word)
  <2>1. Find(c, word, Len(c)) = {}
    BY <1>4 DEF Copy
  <2>2. ASSUME NEW j \in DOMAIN c PROVE ~Names(c[j].name, word)
    BY <1>5, <2>1, FoundIn DEF Find
  <2>3. r[i].name = Via \/ \E j \in DOMAIN c : r[i].name = c[j].name
    BY <1>6 DEF Changed, Named
  <2> QED
    BY <1>8, <2>2, <2>3
<1>9. ASSUME NEW word, word \notin dropped, ~Names(Via, word) PROVE find_header(r, word) = find_header(hs, word)
  <2> DEFINE F == Find(hs, word, Len(hs))
             C == Find(c, word, Len(c))
  <2>1. find_header(r, word) = find_header(c, word)
    BY <1>6, <1>9 DEF Changed
  <2>2. (C = {} <=> F = {}) /\ (F # {} => find_header(c, word) = hs[Least(F)].value)
    BY <1>4, <1>9 DEF Copy
  <2>3. /\ find_header(hs, word) = IF F = {} THEN Absent ELSE hs[Least(F)].value
        /\ find_header(c, word) = IF C = {} THEN Absent ELSE c[Least(C)].value
    BY <1>5, FoundIn
  <2> HIDE DEF F, C
  <2> QED
    BY <2>1, <2>2, <2>3
<1> QED
  BY <1>7, <1>8, <1>9 DEF r

----------------------------------------------------------------------------
(* What the heads that are written say of the body. *)

LEMMA NotNamed ==
  /\ ~Names(Via, "Content-Length") /\ ~Names(Via, "Transfer-Encoding")
  /\ ~Names(<<"Connection">>, "Content-Length") /\ ~Names(<<"Connection">>, "Transfer-Encoding")
  /\ ~Names(<<"Content-Length">>, "Transfer-Encoding") /\ Names(<<"Content-Length">>, "Content-Length")
<1>1. /\ Len(Via) = 1 /\ Via[1] = "Via" /\ Len(<<"Connection">>) = 1 /\ <<"Connection">>[1] = "Connection"
      /\ Len(<<"Content-Length">>) = 1 /\ <<"Content-Length">>[1] = "Content-Length"
  BY DEF Via
<1>2. Plain("Via") = "Via" /\ Plain("Connection") = "Connection" /\ Plain("Content-Length") = "Content-Length"
  BY DEF Plain, Spelled
<1> QED
  BY <1>1, <1>2 DEF Names

LEMMA WrittenHeaders ==
  ASSUME NEW hs, HeaderList(hs)
  PROVE  /\ find_header(Written(hs), "Content-Length") = find_header(hs, "Content-Length")
         /\ find_header(Written(hs), "Transfer-Encoding") = find_header(hs, "Transfer-Encoding")
BY SetHeader, NotNamed DEF Written, Changed

\* The head that is relayed marks the end of the body as the one that came did.
LEMMA RelayedFraming ==
  ASSUME NEW hs, HeaderList(hs)
  PROVE  Framing(Relayed(hs)) = Framing(hs)
<1> DEFINE dropped == HopByHop \ {"Trailer", "Transfer-Encoding"}
           c == Copied(hs, dropped)
<1>1. "Content-Length" \notin dropped /\ "Transfer-Encoding" \notin dropped
  BY DEF HopByHop
<1>2. Relayed(hs) = Written(c)
  BY DEF Relayed
<1> HIDE DEF dropped
<1>3. /\ HeaderList(c)
      /\ find_header(c, "Content-Length") = find_header(hs, "Content-Length")
      /\ find_header(c, "Transfer-Encoding") = find_header(hs, "Transfer-Encoding")
  BY <1>1, CopiedHeaders, NotNamed
<1> HIDE DEF c
<1>4. /\ find_header(Written(c), "Content-Length") = find_header(hs, "Content-Length")
      /\ find_header(Written(c), "Transfer-Encoding") = find_header(hs, "Transfer-Encoding")
  BY <1>3, WrittenHeaders
<1> QED
  BY <1>2, <1>4 DEF Framing

LEMMA LengthOfFive ==
  ContentLength(<<"5">>) = 5
<1> DEFINE value == <<"5">>
           Number(f) == f = [i \in 0 .. Len(value) |->
             IF i = 0 THEN 0
             ELSE IF \/ f[i - 1] = Invalid \/ SizeMax \div 10 < f[i - 1] \/ value[i] \notin DOMAIN DigitValue
                     \/ SizeMax - DigitValue[value[i]] < 10 * f[i - 1]
                  THEN Invalid ELSE 10 * f[i - 1] + DigitValue[value[i]]]
           number == [i \in 0 .. 1 |-> IF i = 0 THEN 0 ELSE 5]
<1>1. Len(value) = 1 /\ value[1] = "5"
  OBVIOUS
<1>2. "5" \in DOMAIN DigitValue /\ DigitValue["5"] = 5
  BY DEF DigitValue
<1>3. SizeMax \div 10 >= 0 /\ SizeMax - 5 >= 10 * 0 /\ 0 # Invalid /\ SizeMax \in Nat
  BY BodyAssumption DEF Invalid
<1> HIDE DEF value
<1>4. ASSUME NEW f, Number(f) PROVE f[Len(value)] = 5
  <2>1. f[0] = 0
    BY <1>1, <1>4
  <2>2. f[1] = IF \/ f[0] = Invalid \/ SizeMax \div 10 < f[0] \/ value[1] \notin DOMAIN DigitValue
                  \/ SizeMax - DigitValue[value[1]] < 10 * f[0]
               THEN Invalid ELSE 10 * f[0] + DigitValue[value[1]]
    BY <1>1, <1>4
  <2> QED
    BY <1>1, <1>2, <1>3, <2>1, <2>2
<1>5. Number(number)
  BY <1>1, <1>2, <1>3
<1>6. ContentLength(value) = (CHOOSE f : Number(f))[Len(value)]
  BY DEF ContentLength
<1> HIDE DEF Number, number
<1>7. Number(CHOOSE f : Number(f))
  BY <1>5
<1>8. ContentLength(value) = 5
  BY <1>4, <1>6, <1>7
<1> QED
  BY <1>8 DEF value

\* The head of a body that was replaced gives the length of the new one only.
LEMMA RewrittenFraming ==
  ASSUME NEW hs, HeaderList(hs)
  PROVE  Framing(Rewritten(hs, <<"5">>)) = 
           [refused |-> FALSE, has_content_length |-> TRUE, is_chunked |-> FALSE, bytes_remaining |-> 5]
<1> DEFINE dropped == HopByHop \cup {"Content-Length"}
           c == Copied(hs, dropped)
           name == <<"Content-Length">>
           r == set_header(c, name, <<"5">>)
<1>1. "Content-Length" \in dropped /\ "Transfer-Encoding" \in dropped
  BY DEF HopByHop
<1>2. Rewritten(hs, <<"5">>) = Written(r)
  BY DEF Rewritten
<1> HIDE DEF dropped
<1>3. /\ HeaderList(c)
      /\ \A i \in DOMAIN c : ~Names(c[i].name, "Content-Length") /\ ~Names(c[i].name, "Transfer-Encoding")
  BY <1>1, CopiedHeaders, NotNamed
<1> HIDE DEF c
<1>4. \A i \in DOMAIN c : c[i].name # name
  BY <1>3, NotNamed
<1>5. r = Append(c, [name |-> name, value |-> <<"5">>])
  BY <1>4 DEF set_header, add_header
<1> HIDE DEF r
<1>6. Extended(r, c, name, <<"5">>)
  BY <1>3, <1>4, <1>5, AppendHeader
<1>7. Find(c, "Content-Length", Len(c)) = {} /\ Find(c, "Transfer-Encoding", Len(c)) = {}
  BY <1>3, FoundIn DEF Find
<1>8. find_header(c, "Transfer-Encoding") = Absent
  BY <1>3, <1>7, FoundIn
<1>9. find_header(r, "Content-Length") = <<"5">> /\ find_header(r, "Transfer-Encoding") = Absent /\ HeaderList(r)
  BY <1>6, <1>7, <1>8, NotNamed DEF Extended
<1>10. /\ find_header(Written(r), "Content-Length") = <<"5">>
       /\ find_header(Written(r), "Transfer-Encoding") = Absent
  BY <1>9, WrittenHeaders
<1>11. <<"5">> # Absent
  BY DEF Absent
<1>12. Absent # Garbled /\ ~(Len(Absent) = 1 /\ Plain(Absent[1]) = "chunked")
  <2>1. Len(Absent) = 1 /\ Absent[1] = "absent" /\ Garbled[1] = "garbled"
    BY DEF Absent, Garbled
  <2>2. Plain("absent") = "absent"
    BY DEF Plain, Spelled
  <2> QED
    BY <2>1, <2>2
<1>13. Framing(Written(r)) = [refused |-> FALSE, has_content_length |-> TRUE, is_chunked |-> FALSE, bytes_remaining |-> 5]
  <2>1. ContentLength(<<"5">>) = 5 /\ 5 # Invalid
    BY LengthOfFive DEF Invalid
  <2> QED
    BY <1>10, <1>11, <1>12, <2>1 DEF Framing
<1> QED
  BY <1>2, <1>13

----------------------------------------------------------------------------
(* What has been handed out, and what is in the caller's buffer, is a      *)
(* prefix of the octets.                                                   *)

Prefix(h, b, o) ==
  /\ h \in Seq(Octet) /\ b \in Seq(Octet) /\ Len(h) + Len(b) <= Len(o)
  /\ h \o b = SubSeq(o, 1, Len(h) + Len(b))

LEMMA PrefixOctets ==
  ASSUME NEW h \in Seq(Octet), NEW b \in Seq(Octet), NEW o \in Seq(Octet), Len(h) + Len(b) <= Len(o)
  PROVE  /\ Len(h) \in Nat /\ Len(b) \in Nat /\ Len(o) \in Nat
         /\ Prefix(h, b, o) <=> /\ \A i \in 1 .. Len(h) : h[i] = o[i]
                               /\ \A i \in 1 .. Len(b) : b[i] = o[Len(h) + i]
<1> DEFINE n == Len(h) + Len(b)
           c == h \o b
           p == SubSeq(o, 1, n)
<1>1. Len(h) \in Nat /\ Len(b) \in Nat /\ Len(o) \in Nat
  BY LenProperties
<1>2. c \in Seq(Octet) /\ Len(c) = n /\ \A i \in 1 .. n : c[i] = IF i <= Len(h) THEN h[i] ELSE b[i - Len(h)]
  BY ConcatProperties
<1>3. \A i \in 1 .. n : o[i] \in Octet
  BY <1>1, ElementOfSeq
<1>4. p \in Seq(Octet) /\ Len(p) = n /\ \A i \in 1 .. n : p[i] = o[i]
  <2>1. n \in Int /\ (1 <= n => n - 1 + 1 = n) /\ (~(1 <= n) => n = 0) /\ \A i \in 1 .. n : 1 + i - 1 = i
    BY <1>1
  <2>2. /\ p \in Seq(Octet) /\ Len(p) = (IF 1 <= n THEN n - 1 + 1 ELSE 0)
        /\ \A i \in 1 .. n - 1 + 1 : p[i] = o[1 + i - 1]
    BY <1>3, <2>1, SubSeqProperties
  <2>3. n - 1 + 1 = n
    BY <2>1
  <2> HIDE DEF n, p
  <2> QED
    BY <2>1, <2>2, <2>3
<1>5. c = p <=> \A i \in 1 .. n : c[i] = p[i]
  <2> HIDE DEF c, p, n
  <2> QED
    BY <1>2, <1>4, SeqEqual
<1>6. (\A i \in 1 .. n : c[i] = o[i]) <=> /\ \A i \in 1 .. Len(h) : h[i] = o[i]
                                         /\ \A i \in 1 .. Len(b) : b[i] = o[Len(h) + i]
  <2>1. ASSUME \A i \in 1 .. n : c[i] = o[i], NEW i \in 1 .. Len(b) PROVE b[i] = o[Len(h) + i]
    <3> DEFINE j == Len(h) + i
    <3>1. j \in 1 .. n /\ ~(j <= Len(h)) /\ j - Len(h) = i
      BY <1>1
    <3> HIDE DEF j, c, n
    <3>2. b[i] = o[j]
      BY <1>2, <2>1, <3>1
    <3> QED
      BY <3>2 DEF j
  <2>2. ASSUME \A i \in 1 .. n : c[i] = o[i], NEW i \in 1 .. Len(h) PROVE h[i] = o[i]
    <3>1. i \in 1 .. n /\ i <= Len(h)
      BY <1>1
    <3> HIDE DEF c, n
    <3> QED
      BY <1>2, <2>2, <3>1
  <2>3. ASSUME \A i \in 1 .. Len(h) : h[i] = o[i], \A i \in 1 .. Len(b) : b[i] = o[Len(h) + i], NEW i \in 1 .. n
        PROVE  c[i] = o[i]
    <3>1. CASE i <= Len(h)
      <4>1. i \in 1 .. Len(h) /\ c[i] = h[i]
        BY <1>1, <1>2, <3>1
      <4> QED
        BY <2>3, <4>1
    <3>2. CASE ~(i <= Len(h))
      <4>1. i - Len(h) \in 1 .. Len(b) /\ Len(h) + (i - Len(h)) = i /\ c[i] = b[i - Len(h)]
        BY <1>1, <1>2, <3>2
      <4> QED
        BY <2>3, <4>1
    <3> QED
      BY <3>1, <3>2
  <2> QED
    BY <2>1, <2>2, <2>3
<1>7. Prefix(h, b, o) <=> c = p
  BY DEF Prefix
<1>8. (\A i \in 1 .. n : c[i] = p[i]) <=> (\A i \in 1 .. n : c[i] = o[i])
  BY <1>4
<1> HIDE DEF c, p, n
<1> QED
  BY <1>1, <1>5, <1>6, <1>7, <1>8

LEMMA PrefixServe ==
  ASSUME NEW o \in Seq(Octet), NEW h, NEW b, Prefix(h, b, o), Len(h) + Len(b) < Len(o),
         NEW c, c = o[Len(h) + Len(b) + 1]
  PROVE  Prefix(h, Append(b, c), o) /\ Len(Append(b, c)) = Len(b) + 1
<1> DEFINE d == Append(b, c)
<1>1. h \in Seq(Octet) /\ b \in Seq(Octet) /\ Len(h) + Len(b) <= Len(o)
  BY DEF Prefix
<1>2. /\ Len(h) \in Nat /\ Len(b) \in Nat /\ Len(o) \in Nat
      /\ \A i \in 1 .. Len(h) : h[i] = o[i]
      /\ \A i \in 1 .. Len(b) : b[i] = o[Len(h) + i]
  BY <1>1, PrefixOctets
<1>3. c \in Octet
  BY <1>2, ElementOfSeq
<1>4. /\ d \in Seq(Octet) /\ Len(d) = Len(b) + 1 /\ d[Len(b) + 1] = c
      /\ \A i \in 1 .. Len(b) : d[i] = b[i]
  BY <1>1, <1>3, AppendProperties
<1> HIDE DEF d
<1>5. ASSUME NEW i \in 1 .. Len(d) PROVE d[i] = o[Len(h) + i]
  <2>1. CASE i \in 1 .. Len(b)
    BY <1>2, <1>4, <2>1
  <2>2. CASE i = Len(b) + 1
    <3>1. Len(h) + i = Len(h) + Len(b) + 1
      BY <1>2, <2>2
    <3> QED
      BY <1>4, <2>2, <3>1
  <2> QED
    BY <1>2, <1>4, <2>1, <2>2
<1>6. Len(h) + Len(d) <= Len(o)
  BY <1>2, <1>4
<1>7. Prefix(h, d, o)
  BY <1>1, <1>2, <1>4, <1>5, <1>6, PrefixOctets
<1> QED
  BY <1>4, <1>7 DEF d

LEMMA PrefixReturn ==
  ASSUME NEW o \in Seq(Octet), NEW h, NEW b, Prefix(h, b, o)
  PROVE  Prefix(h \o b, <<>>, o) /\ Len(h \o b) = Len(h) + Len(b)
<1>1. h \in Seq(Octet) /\ b \in Seq(Octet)
  BY DEF Prefix
<1>2. h \o b \in Seq(Octet) /\ Len(h \o b) = Len(h) + Len(b) /\ (h \o b) \o <<>> = h \o b
  BY <1>1, ConcatProperties, ConcatEmptySeq
<1>3. <<>> \in Seq(Octet) /\ Len(<<>>) = 0 /\ Len(h) + Len(b) + 0 = Len(h) + Len(b)
  BY <1>1, LenProperties
<1> QED
  BY <1>2, <1>3 DEF Prefix

LEMMA PrefixFail ==
  ASSUME NEW o \in Seq(Octet), NEW h, NEW b, Prefix(h, b, o)
  PROVE  Prefix(h, <<>>, o)
<1>1. h \in Seq(Octet) /\ b \in Seq(Octet) /\ Len(h) + Len(b) <= Len(o) /\ <<>> \in Seq(Octet) /\ Len(<<>>) = 0
  BY DEF Prefix
<1>2. /\ Len(h) \in Nat /\ Len(b) \in Nat /\ Len(o) \in Nat
      /\ \A i \in 1 .. Len(h) : h[i] = o[i]
  BY <1>1, PrefixOctets
<1>3. Len(h) + 0 <= Len(o) /\ \A i \in 1 .. 0 : <<>>[i] = o[Len(h) + i]
  BY <1>1, <1>2
<1> QED
  BY <1>1, <1>2, <1>3, PrefixOctets

----------------------------------------------------------------------------
(* Lines of the input. *)

LEMMA LineEndIn ==
  ASSUME NEW o, Len(o) \in Nat, NEW p \in 0 .. Len(o)
  PROVE  LineEnd(o, p) \in p .. Len(o)
<1> DEFINE T == {q \in p .. Len(o) : q = Len(o) \/ (q > p /\ o[q] = "n")}
<1>1. Len(o) \in T /\ T \subseteq Nat
  OBVIOUS
<1>2. PICK q \in T : \A k \in T : q <= k
  BY <1>1, LeastNatural
<1>3. ASSUME NEW i \in p + 1 .. q - 1 PROVE o[i] # "n"
  <2>1. i \in p .. Len(o) /\ i > p /\ ~(q <= i)
    BY <1>2
  <2> QED
    BY <1>2, <2>1
<1> QED
  BY <1>2, <1>3 DEF LineEnd

LEMMA HeaderEndIn ==
  ASSUME NEW o, Len(o) \in Nat, NEW p \in 0 .. Len(o)
  PROVE  HeaderEnd(o, p) \in p .. Len(o)
<1> DEFINE Ending(q) == \/ q = Len(o)
                       \/ /\ q > p /\ o[q] = "n"
                          /\ IsBlank(SubSeq(o, p + 1, q)) \/ o[q + 1] # " "
           T == {q \in p .. Len(o) : Ending(q)}
<1>4. HeaderEnd(o, p) = CHOOSE j \in p .. Len(o) : Ending(j) /\ \A i \in p .. j - 1 : ~Ending(i)
  BY DEF HeaderEnd
<1>5. Ending(Len(o))
  OBVIOUS
<1> HIDE DEF Ending
<1>1. Len(o) \in T /\ T \subseteq Nat
  BY <1>5
<1>2. PICK q \in T : \A k \in T : q <= k
  BY <1>1, LeastNatural
<1>3. ASSUME NEW i \in p .. q - 1 PROVE ~Ending(i)
  <2>1. i \in p .. Len(o) /\ ~(q <= i)
    BY <1>2
  <2> QED
    BY <1>2, <2>1
<1> QED
  BY <1>2, <1>3, <1>4

\* a line that has been taken from the input
Taken(line, p) ==
  /\ line \in Seq(Octet) /\ Len(line) \in 0 .. p
  /\ \A k \in 1 .. Len(line) : line[k] = octets[p - Len(line) + k]

LEMMA TakenLine ==
  ASSUME octets \in Seq(Octet), NEW p \in 0 .. Len(octets), NEW q \in p .. Len(octets)
  PROVE  Taken(SubSeq(octets, p + 1, q), q) /\ Len(SubSeq(octets, p + 1, q)) = q - p
<1> DEFINE line == SubSeq(octets, p + 1, q)
<1>1. Len(octets) \in Nat
  BY LenProperties
<1>2. \A i \in p + 1 .. q : octets[i] \in Octet
  <2>1. ASSUME NEW i \in p + 1 .. q PROVE i \in 1 .. Len(octets)
    BY <1>1
  <2> QED
    BY <2>1, ElementOfSeq
<1>3. /\ line \in Seq(Octet) /\ Len(line) = (IF p + 1 <= q THEN q - (p + 1) + 1 ELSE 0)
      /\ \A i \in 1 .. q - (p + 1) + 1 : line[i] = octets[p + 1 + i - 1]
  <2>1. p + 1 \in Int /\ q \in Int
    BY <1>1
  <2> QED
    BY <1>2, <2>1, SubSeqProperties
<1> HIDE DEF line
<1>4. Len(line) = q - p /\ Len(line) \in 0 .. q
  BY <1>1, <1>3
<1>5. ASSUME NEW k \in 1 .. Len(line) PROVE line[k] = octets[q - Len(line) + k]
  <2>1. k \in 1 .. q - (p + 1) + 1 /\ p + 1 + k - 1 = q - Len(line) + k
    BY <1>1, <1>4
  <2> QED
    BY <1>3, <2>1
<1>6. Taken(line, q)
  BY <1>3, <1>4, <1>5 DEF Taken
<1> QED
  BY <1>4, <1>6 DEF line

----------------------------------------------------------------------------
(* The invariant, of a reader that passes on what it reads. *)

Delivered == Len(handed) + Len(s)

\* the head is that of the message, and is not refused while the body is read
HeadOK ==
  /\ message \in Messages /\ decode \in BOOLEAN
  /\ head = ReadHead(message.kind, message.head)
  /\ result = "reading" => ~head.framing.refused

PlaceOK == at \in 0 .. Len(octets) /\ Delivered <= at

\* before the head is read
BeforeOK ==
  result = "head" =>
    at = 0 /\ handed = <<>> /\ s = <<>> /\ chunked_body_state = "CHUNK_SIZE" /\ chunk_buffer = <<>>

\* what has been taken from the connection and not been delivered is the
\* rest of the line in chunk_buffer
Between == chunked_body_state \in {"CHUNK_SIZE", "TRAILER", "CHUNK_DATA"} /\ chunk_buffer = <<>> /\ Delivered = at
Within ==
  /\ chunked_body_state \in {"CHUNK_SIZE", "TRAILER"} /\ Taken(chunk_buffer, at)
  /\ bytes_remaining \in 1 .. Len(chunk_buffer) /\ Delivered = at - bytes_remaining
Behind == chunked_body_state = "DONE" /\ Delivered >= at - 1
ReadingOK ==
  result = "reading" => IF is_chunked THEN Between \/ Within \/ Behind ELSE Delivered = at

CompleteOK == result = "complete" /\ HasBody => Len(handed) >= at - 1

RelayOK == PlaceOK /\ Prefix(handed, s, octets) /\ BeforeOK /\ ReadingOK /\ CompleteOK

RelayInv == HeadOK /\ (~decode => RelayOK)

LEMMA OctetsType ==
  ASSUME HeadOK
  PROVE  octets \in Seq(Octet) /\ Len(octets) \in Nat
<1>1. octets \in Seq(Octet)
  BY BodyAssumption DEF HeadOK, octets
<1> QED
  BY <1>1, LenProperties

LEMMA RelayInit ==
  Init => RelayInv
<1> SUFFICES ASSUME Init PROVE RelayInv
  OBVIOUS
<1>1. HeadOK
  BY DEF Init, HeadOK
<1>2. octets \in Seq(Octet) /\ Len(octets) \in Nat
  BY <1>1, OctetsType
<1>3. handed = <<>> /\ s = <<>> /\ at = 0 /\ Len(<<>>) = 0 /\ <<>> \in Seq(Octet)
  BY DEF Init
<1>4. PlaceOK
  BY <1>2, <1>3 DEF PlaceOK, Delivered
<1>5. Prefix(handed, s, octets)
  <2>1. /\ Len(handed) + Len(s) <= Len(octets)
        /\ \A i \in 1 .. Len(handed) : handed[i] = octets[i]
        /\ \A i \in 1 .. Len(s) : s[i] = octets[Len(handed) + i]
    BY <1>2, <1>3
  <2>2. handed \in Seq(Octet) /\ s \in Seq(Octet)
    BY <1>3
  <2> QED
    BY <1>2, <2>1, <2>2, PrefixOctets
<1>6. BeforeOK /\ ReadingOK /\ CompleteOK
  BY DEF Init, BeforeOK, ReadingOK, CompleteOK
<1> QED
  BY <1>1, <1>4, <1>5, <1>6 DEF RelayInv, RelayOK

----------------------------------------------------------------------------
(* Every step keeps it. *)

\* what each step leaves as it is
Kept == UNCHANGED <<message, head, decode, has_content_length, is_chunked>>

LEMMA HeadStep ==
  ASSUME HeadOK, UNCHANGED <<message, head, decode>>,
         result' = "reading" => result = "reading" \/ ~head.framing.refused
  PROVE  HeadOK' /\ octets' = octets /\ (HasBody' <=> HasBody)
BY DEF HeadOK, octets, HasBody

LEMMA NextHead ==
  ASSUME HeadOK, Next
  PROVE  HeadOK' /\ octets' = octets /\ (HasBody' <=> HasBody)
<1>1. UNCHANGED <<message, head, decode>>
  BY DEF Next, Progress, ReadHeaders, BufferFull, BodyDone, RecvFails, ReadSizeLine, ServeSizeLine, ServeData,
         ReadTrailer, ServeTrailer, DecodeSizeLine, DecodeData, ReadPlain
<1>2. result' = "reading" => result = "reading" \/ ~head.framing.refused
  <2>1. CASE ReadHeaders
    BY <2>1 DEF ReadHeaders
  <2>2. CASE RecvFails
    BY <2>2 DEF RecvFails, Fail
  <2>3. CASE BufferFull \/ BodyDone \/ ReadPlain
    BY <2>3 DEF BufferFull, BodyDone, ReadPlain, Loops
  <2>4. CASE ReadSizeLine \/ ServeSizeLine \/ ServeData \/ ReadTrailer \/ ServeTrailer \/ DecodeSizeLine \/ DecodeData
    BY <2>4 DEF ReadSizeLine, ServeSizeLine, ServeData, ReadTrailer, ServeTrailer, DecodeSizeLine, DecodeData,
                Reading, Loops
  <2> QED
    BY <2>1, <2>2, <2>3, <2>4 DEF Next, Progress
<1> QED
  BY <1>1, <1>2, HeadStep

LEMMA ServeStep ==
  ASSUME octets \in Seq(Octet), octets' = octets, Prefix(handed, s, octets), Delivered < Len(octets),
         NEW c, c = octets[Delivered + 1], Serve(c)
  PROVE  Prefix(handed', s', octets') /\ Delivered' = Delivered + 1 /\ result' = result
<1>1. handed' = handed /\ s' = Append(s, c) /\ result' = result
  BY DEF Serve
<1>2. Prefix(handed, Append(s, c), octets) /\ Len(Append(s, c)) = Len(s) + 1
  BY PrefixServe DEF Delivered
<1>3. handed \in Seq(Octet) /\ s \in Seq(Octet)
  BY DEF Prefix
<1>4. Len(handed) \in Nat /\ Len(s) \in Nat
  BY <1>3, LenProperties
<1> QED
  BY <1>1, <1>2, <1>4 DEF Delivered

LEMMA ReturnStep ==
  ASSUME octets \in Seq(Octet), octets' = octets, Prefix(handed, s, octets), Return(s)
  PROVE  /\ Prefix(handed', s', octets') /\ Delivered' = Delivered /\ Len(handed') = Delivered
         /\ result' = (IF s = <<>> THEN "complete" ELSE result)
<1>1. /\ handed' = handed \o s /\ s' = <<>>
      /\ result' = (IF s = <<>> THEN "complete" ELSE result)
  BY DEF Return
<1>2. Prefix(handed \o s, <<>>, octets) /\ Len(handed \o s) = Delivered
  BY PrefixReturn DEF Delivered
<1>3. handed \in Seq(Octet) /\ s \in Seq(Octet)
  BY DEF Prefix
<1>4. Len(handed) \in Nat /\ Len(s) \in Nat /\ Len(<<>>) = 0
  BY <1>3, LenProperties
<1> QED
  BY <1>1, <1>2, <1>4 DEF Delivered

LEMMA FailStep ==
  ASSUME octets \in Seq(Octet), octets' = octets, Prefix(handed, s, octets), NEW how, Fail(how)
  PROVE  Prefix(handed', s', octets') /\ Delivered' <= Delivered /\ Delivered' \in Nat /\ result' = how
<1>1. handed' = handed /\ s' = <<>> /\ result' = how
  BY DEF Fail
<1>2. Prefix(handed, <<>>, octets)
  BY PrefixFail
<1>3. handed \in Seq(Octet) /\ s \in Seq(Octet)
  BY DEF Prefix
<1>4. Len(handed) \in Nat /\ Len(s) \in Nat /\ Len(<<>>) = 0
  BY <1>3, LenProperties
<1> QED
  BY <1>1, <1>2, <1>4 DEF Delivered

\* a step that fails leaves the rest of the invariant behind
LEMMA FailKeeps ==
  ASSUME HeadOK, RelayOK, octets' = octets, NEW how, Fail(how), how \in {"bad", "error"},
         at' \in at .. Len(octets)
  PROVE  RelayOK'
<1>1. octets \in Seq(Octet) /\ Len(octets) \in Nat
  BY OctetsType
<1>2. Prefix(handed, s, octets) /\ at \in Nat /\ Delivered <= at
  BY <1>1 DEF RelayOK, PlaceOK
<1>3. Prefix(handed', s', octets') /\ Delivered' <= Delivered /\ Delivered' \in Nat /\ result' = how
  BY <1>1, <1>2, FailStep
<1>4. handed \in Seq(Octet) /\ s \in Seq(Octet)
  BY <1>2 DEF Prefix
<1>5. Delivered \in Nat
  BY <1>4, LenProperties DEF Delivered
<1>6. PlaceOK'
  BY <1>1, <1>2, <1>3, <1>5 DEF PlaceOK
<1>7. BeforeOK' /\ ReadingOK' /\ CompleteOK'
  BY <1>3 DEF BeforeOK, ReadingOK, CompleteOK
<1> QED
  BY <1>3, <1>6, <1>7 DEF RelayOK

\* a step that goes on reading
LEMMA GoesOn ==
  ASSUME octets' = octets, result' = "reading", Prefix(handed', s', octets'),
         at' \in 0 .. Len(octets), Delivered' <= at',
         IF is_chunked' THEN (Between \/ Within \/ Behind)' ELSE Delivered' = at'
  PROVE  RelayOK'
<1>1. PlaceOK' /\ BeforeOK' /\ ReadingOK' /\ CompleteOK'
  BY DEF PlaceOK, BeforeOK, ReadingOK, CompleteOK
<1> QED
  BY <1>1 DEF RelayOK

\* a return: the body is over, or goes on
LEMMA ReturnKeeps ==
  ASSUME HeadOK, RelayOK, octets' = octets, UNCHANGED is_chunked, result = "reading", Return(s),
         at' \in at .. Len(octets), at' - 1 <= Delivered, Delivered <= at',
         s # <<>> => IF is_chunked THEN (Between \/ Within \/ Behind)' ELSE Delivered' = at'
  PROVE  RelayOK'
<1>1. octets \in Seq(Octet) /\ Len(octets) \in Nat
  BY OctetsType
<1>2. Prefix(handed, s, octets) /\ at \in Nat
  BY <1>1 DEF RelayOK, PlaceOK
<1>3. /\ Prefix(handed', s', octets') /\ Delivered' = Delivered /\ Len(handed') = Delivered
      /\ result' = (IF s = <<>> THEN "complete" ELSE result)
  BY <1>1, <1>2, ReturnStep
<1>4. handed \in Seq(Octet) /\ s \in Seq(Octet)
  BY <1>2 DEF Prefix
<1>5. Delivered \in Nat /\ at' \in Nat
  BY <1>1, <1>2, <1>4, LenProperties DEF Delivered
<1>6. PlaceOK'
  BY <1>1, <1>2, <1>3 DEF PlaceOK
<1>7. CompleteOK'
  <2>1. Len(handed') >= at' - 1
    BY <1>3, <1>5
  <2> QED
    BY <2>1 DEF CompleteOK
<1>8. BeforeOK' /\ ReadingOK'
  BY <1>3 DEF BeforeOK, ReadingOK
<1> QED
  BY <1>3, <1>6, <1>7, <1>8 DEF RelayOK

\* what the step of a reader finds
LEMMA RelayFacts ==
  ASSUME HeadOK, RelayOK
  PROVE  /\ octets \in Seq(Octet) /\ Len(octets) \in Nat
         /\ Prefix(handed, s, octets) /\ Delivered \in Nat /\ at \in 0 .. Len(octets) /\ Delivered <= at
<1>1. octets \in Seq(Octet) /\ Len(octets) \in Nat
  BY OctetsType
<1>2. handed \in Seq(Octet) /\ s \in Seq(Octet)
  BY DEF RelayOK, Prefix
<1>3. Delivered \in Nat
  BY <1>2, LenProperties DEF Delivered
<1> QED
  BY <1>1, <1>3 DEF RelayOK, PlaceOK

LEMMA ReadHeadersKeeps ==
  ASSUME HeadOK, RelayOK, octets' = octets, ReadHeaders
  PROVE  RelayOK'
<1>1. /\ at' = 0 /\ handed' = <<>> /\ s' = <<>> /\ handed' = handed /\ s' = s /\ at' = at
      /\ chunked_body_state' = "CHUNK_SIZE" /\ chunk_buffer' = <<>>
  BY DEF RelayOK, BeforeOK, ReadHeaders
<1>2. Delivered' = 0 /\ Len(handed') = 0
  BY <1>1 DEF Delivered
<1>3. PlaceOK' /\ Prefix(handed', s', octets')
  BY <1>1, <1>2, RelayFacts DEF PlaceOK
<1>4. result' # "head"
  BY DEF ReadHeaders
<1>5. ReadingOK'
  BY <1>1, <1>2 DEF ReadingOK, Between
<1>6. BeforeOK' /\ CompleteOK'
  BY <1>1, <1>2, <1>4 DEF BeforeOK, CompleteOK
<1> QED
  BY <1>3, <1>5, <1>6 DEF RelayOK

LEMMA BufferFullKeeps ==
  ASSUME HeadOK, RelayOK, octets' = octets, BufferFull
  PROVE  RelayOK'
<1>1. /\ result = "reading" /\ Return(s) /\ UNCHANGED <<at, is_chunked, chunked_body_state, chunk_buffer, bytes_remaining>>
      /\ Len(s) = Capacity
  BY DEF BufferFull, framing, reader
<1>2. octets \in Seq(Octet) /\ Prefix(handed, s, octets) /\ at \in 0 .. Len(octets) /\ Delivered <= at /\ Delivered \in Nat
  BY RelayFacts
<1>3. /\ Prefix(handed', s', octets') /\ Delivered' = Delivered /\ Len(handed') = Delivered
      /\ result' = (IF s = <<>> THEN "complete" ELSE result)
  BY <1>1, <1>2, ReturnStep
<1>4. result' = "reading"
  <2>1. Len(<<>>) = 0 /\ Capacity # 0
    BY BodyAssumption
  <2> QED
    BY <1>1, <1>3, <2>1
<1>5. IF is_chunked THEN Between \/ Within \/ Behind ELSE Delivered = at
  BY <1>1 DEF RelayOK, ReadingOK
<1>6. IF is_chunked' THEN (Between \/ Within \/ Behind)' ELSE Delivered' = at'
  BY <1>1, <1>3, <1>5 DEF Between, Within, Behind, Taken
<1> QED
  BY <1>1, <1>2, <1>3, <1>4, <1>6, GoesOn

LEMMA BodyDoneKeeps ==
  ASSUME HeadOK, RelayOK, octets' = octets, BodyDone
  PROVE  RelayOK'
<1>1. /\ result = "reading" /\ Return(s) /\ UNCHANGED <<at, is_chunked, chunked_body_state>>
      /\ is_chunked /\ chunked_body_state = "DONE"
  BY DEF BodyDone, framing, reader, Loops
<1>2. octets \in Seq(Octet) /\ Prefix(handed, s, octets) /\ at \in 0 .. Len(octets) /\ Delivered <= at /\ Delivered \in Nat
  BY RelayFacts
<1>3. Behind
  BY <1>1 DEF RelayOK, ReadingOK, Between, Within
<1>4. Delivered' = Delivered
  BY <1>1, <1>2, ReturnStep
<1>5. Behind'
  BY <1>1, <1>3, <1>4 DEF Behind
<1>6. at' \in at .. Len(octets) /\ at' - 1 <= Delivered /\ Delivered <= at'
  BY <1>1, <1>2, <1>3 DEF Behind
<1> QED
  BY <1>1, <1>5, <1>6, ReturnKeeps

LEMMA RecvFailsKeeps ==
  ASSUME HeadOK, RelayOK, octets' = octets, RecvFails
  PROVE  RelayOK'
<1>1. Fail("error") /\ at' = at
  BY DEF RecvFails
<1>2. at' \in at .. Len(octets)
  BY <1>1, RelayFacts
<1> QED
  BY <1>1, <1>2, FailKeeps

LEMMA Difference ==
  ASSUME NEW a \in Nat, NEW b \in Nat, a <= b, NEW n, n = b - a
  PROVE  n \in Nat /\ b - n = a /\ (n = 0 => b = a)
OBVIOUS

LEMMA ReadSizeLineKeeps ==
  ASSUME HeadOK, RelayOK, octets' = octets, ReadSizeLine
  PROVE  RelayOK'
<1> DEFINE line == SubSeq(octets, at + 1, at')
<1>1. /\ result = "reading" /\ is_chunked /\ is_chunked' /\ chunked_body_state = "CHUNK_SIZE" /\ chunk_buffer = <<>>
      /\ at' = LineEnd(octets, at)
  BY DEF ReadSizeLine, Reading, Loops, framing
<1>2. /\ octets \in Seq(Octet) /\ Len(octets) \in Nat /\ Prefix(handed, s, octets)
      /\ at \in 0 .. Len(octets) /\ Delivered <= at /\ Delivered \in Nat
  BY RelayFacts
<1>3. at' \in at .. Len(octets)
  BY <1>1, <1>2, LineEndIn
<1>4. Taken(line, at') /\ Len(line) = at' - at
  BY <1>2, <1>3, TakenLine
<1>5. CASE Len(line) < 2
  <2>1. Fail("bad")
    BY <1>5 DEF ReadSizeLine
  <2> QED
    BY <1>3, <2>1, FailKeeps
<1>6. CASE ~(Len(line) < 2)
  <2>1. /\ chunk_buffer' = line /\ bytes_remaining' = Len(line)
        /\ UNCHANGED <<chunked_body_state, s, handed, result>>
    BY <1>6 DEF ReadSizeLine
  <2>2. Delivered = at
    BY <1>1, <1>2 DEF RelayOK, ReadingOK, Between, Within, Behind, Taken
  <2>3. Delivered' = Delivered
    BY <2>1 DEF Delivered
  <2> HIDE DEF line
  <2>9. at \in Nat /\ at' \in Nat /\ at <= at'
    BY <1>2, <1>3
  <2>10. Len(line) \in Nat /\ at' - Len(line) = at /\ ~(Len(line) < 2)
    BY <1>4, <1>6, <2>9, Difference
  <2>4. Len(line) \in Nat /\ bytes_remaining' \in 1 .. Len(line) /\ at' - bytes_remaining' = at
    BY <2>1, <2>10
  <2>5. Taken(chunk_buffer', at')
    BY <1>4, <2>1
  <2>6. Taken(chunk_buffer, at)'
    BY <2>5 DEF Taken
  <2>7. Within'
    BY <1>1, <2>1, <2>2, <2>3, <2>4, <2>6 DEF Within
  <2>8. Prefix(handed', s', octets') /\ result' = "reading" /\ Delivered' <= at' /\ at' \in 0 .. Len(octets)
    BY <1>1, <1>2, <1>3, <2>1, <2>3
  <2> QED
    BY <1>1, <2>7, <2>8, GoesOn
<1> QED
  BY <1>5, <1>6

\* the octet that a line in the buffer gives next is the next one of the input
LEMMA NextOfLine ==
  ASSUME Within, Len(octets) \in Nat, at \in 0 .. Len(octets)
  PROVE  Buffered = octets[Delivered + 1] /\ Delivered < Len(octets) /\ Delivered + 1 <= at
<1> DEFINE k == Len(chunk_buffer) - bytes_remaining + 1
<1>1. Len(chunk_buffer) \in Nat /\ bytes_remaining \in 1 .. Len(chunk_buffer) /\ Delivered = at - bytes_remaining
  BY DEF Within, Taken
<1>2. k \in 1 .. Len(chunk_buffer) /\ at - Len(chunk_buffer) + k = Delivered + 1
  BY <1>1
<1>3. Buffered = chunk_buffer[k]
  BY DEF Buffered
<1> HIDE DEF k
<1>4. chunk_buffer[k] = octets[at - Len(chunk_buffer) + k]
  BY <1>2 DEF Within, Taken
<1> QED
  BY <1>1, <1>2, <1>3, <1>4

\* an octet of a line in the buffer is served, and it is not the last one
LEMMA ServesLine ==
  ASSUME HeadOK, RelayOK, octets' = octets, Within, result = "reading", is_chunked', Serve(Buffered),
         bytes_remaining > 1, bytes_remaining' = bytes_remaining - 1,
         UNCHANGED <<at, chunked_body_state, chunk_buffer>>
  PROVE  RelayOK'
<1>1. /\ octets \in Seq(Octet) /\ Len(octets) \in Nat /\ Prefix(handed, s, octets)
      /\ at \in 0 .. Len(octets) /\ Delivered <= at /\ Delivered \in Nat
  BY RelayFacts
<1>2. Buffered = octets[Delivered + 1] /\ Delivered < Len(octets) /\ Delivered + 1 <= at
  BY <1>1, NextOfLine
<1>3. Prefix(handed', s', octets') /\ Delivered' = Delivered + 1 /\ result' = "reading"
  BY <1>1, <1>2, ServeStep
<1>4. bytes_remaining \in 1 .. Len(chunk_buffer) /\ Delivered = at - bytes_remaining /\ Len(chunk_buffer) \in Nat
  BY DEF Within, Taken
<1>5. bytes_remaining' \in 1 .. Len(chunk_buffer) /\ Delivered' = at - bytes_remaining'
  BY <1>1, <1>3, <1>4
<1>6. Within'
  BY <1>5 DEF Within, Taken
<1>7. at' \in 0 .. Len(octets) /\ Delivered' <= at'
  BY <1>1, <1>2, <1>3
<1> QED
  BY <1>3, <1>6, <1>7, GoesOn

\* the last octet of a line in the buffer is served
LEMMA ServesLineEnd ==
  ASSUME HeadOK, RelayOK, octets' = octets, Within, result = "reading", is_chunked', Serve(Buffered),
         ~(bytes_remaining > 1), at' = at, chunk_buffer' = <<>>,
         chunked_body_state' \in {"CHUNK_SIZE", "TRAILER", "CHUNK_DATA"}
  PROVE  RelayOK'
<1>1. /\ octets \in Seq(Octet) /\ Len(octets) \in Nat /\ Prefix(handed, s, octets)
      /\ at \in 0 .. Len(octets) /\ Delivered <= at /\ Delivered \in Nat
  BY RelayFacts
<1>2. Buffered = octets[Delivered + 1] /\ Delivered < Len(octets) /\ Delivered + 1 <= at
  BY <1>1, NextOfLine
<1>3. Prefix(handed', s', octets') /\ Delivered' = Delivered + 1 /\ result' = "reading"
  BY <1>1, <1>2, ServeStep
<1>4. bytes_remaining \in 1 .. Len(chunk_buffer) /\ Delivered = at - bytes_remaining /\ Len(chunk_buffer) \in Nat
  BY DEF Within, Taken
<1>5. Delivered' = at
  BY <1>1, <1>3, <1>4
<1>6. Between'
  BY <1>5 DEF Between
<1>7. at' \in 0 .. Len(octets) /\ Delivered' <= at'
  BY <1>1, <1>5
<1> QED
  BY <1>3, <1>6, <1>7, GoesOn

LEMMA ServeSizeLineKeeps ==
  ASSUME HeadOK, RelayOK, octets' = octets, ServeSizeLine
  PROVE  RelayOK'
<1>1. /\ result = "reading" /\ is_chunked /\ is_chunked' /\ chunked_body_state = "CHUNK_SIZE" /\ chunk_buffer # <<>>
      /\ at' = at
  BY DEF ServeSizeLine, Reading, Loops, framing
<1>2. Within
  BY <1>1 DEF RelayOK, ReadingOK, Between, Behind
<1>3. CASE bytes_remaining > 1
  <2>1. /\ Serve(Buffered) /\ bytes_remaining' = bytes_remaining - 1
        /\ UNCHANGED <<chunked_body_state, chunk_buffer>>
    BY <1>3 DEF ServeSizeLine
  <2> QED
    BY <1>1, <1>2, <1>3, <2>1, ServesLine
<1>4. CASE ~(bytes_remaining > 1)
  <2> DEFINE size == ChunkSize(chunk_buffer)
             wrong == size = Invalid \/ SizeMax - 2 < size
  <2>1. chunk_buffer' = <<>>
    BY <1>4 DEF ServeSizeLine
  <2>2. CASE wrong
    <3>1. Fail("bad")
      BY <1>4, <2>2 DEF ServeSizeLine
    <3>2. at' \in at .. Len(octets)
      BY <1>1, RelayFacts
    <3> QED
      BY <3>1, <3>2, FailKeeps
  <2>3. CASE ~wrong
    <3>1. Serve(Buffered) /\ chunked_body_state' \in {"TRAILER", "CHUNK_DATA"}
      BY <1>4, <2>3 DEF ServeSizeLine
    <3> QED
      BY <1>1, <1>2, <1>4, <2>1, <3>1, ServesLineEnd
  <2> QED
    BY <2>2, <2>3
<1> QED
  BY <1>3, <1>4

LEMMA ServeDataKeeps ==
  ASSUME HeadOK, RelayOK, octets' = octets, ServeData
  PROVE  RelayOK'
<1>1. /\ result = "reading" /\ is_chunked /\ is_chunked' /\ chunked_body_state = "CHUNK_DATA"
      /\ chunk_buffer' = chunk_buffer
  BY DEF ServeData, Reading, Loops, framing
<1>2. /\ octets \in Seq(Octet) /\ Len(octets) \in Nat /\ Prefix(handed, s, octets)
      /\ at \in 0 .. Len(octets) /\ Delivered <= at /\ Delivered \in Nat
  BY RelayFacts
<1>3. CASE AtEnd
  <2>1. Fail("bad") /\ at' \in at .. Len(octets)
    BY <1>2, <1>3 DEF ServeData
  <2> QED
    BY <2>1, FailKeeps
<1>4. CASE ~AtEnd
  <2>1. Between
    BY <1>1 DEF RelayOK, ReadingOK, Within, Behind
  <2>2. at' = at + 1 /\ Serve(octets[at + 1]) /\ chunked_body_state' \in {"CHUNK_SIZE", "CHUNK_DATA"}
    BY <1>4 DEF ServeData
  <2>3. Delivered = at /\ Delivered < Len(octets)
    BY <1>2, <1>4, <2>1 DEF Between, AtEnd
  <2>4. Prefix(handed', s', octets') /\ Delivered' = at + 1 /\ result' = "reading"
    BY <1>1, <1>2, <2>2, <2>3, ServeStep
  <2>5. Between'
    BY <1>1, <2>1, <2>2, <2>4 DEF Between
  <2>6. at' \in 0 .. Len(octets) /\ Delivered' <= at'
    BY <1>2, <2>2, <2>3, <2>4
  <2> QED
    BY <1>1, <2>4, <2>5, <2>6, GoesOn
<1> QED
  BY <1>3, <1>4

LEMMA ReadTrailerKeeps ==
  ASSUME HeadOK, RelayOK, octets' = octets, ReadTrailer
  PROVE  RelayOK'
<1> DEFINE line == SubSeq(octets, at + 1, at')
<1>1. /\ result = "reading" /\ is_chunked /\ is_chunked' = is_chunked /\ chunked_body_state = "TRAILER"
      /\ chunk_buffer = <<>> /\ at' = HeaderEnd(octets, at) /\ chunk_buffer' = line /\ bytes_remaining' = Len(chunk_buffer')
  BY DEF ReadTrailer, Reading, Loops, framing
<1>2. /\ octets \in Seq(Octet) /\ Len(octets) \in Nat /\ Prefix(handed, s, octets)
      /\ at \in 0 .. Len(octets) /\ Delivered <= at /\ Delivered \in Nat
  BY RelayFacts
<1>3. at' \in at .. Len(octets)
  BY <1>1, <1>2, HeaderEndIn
<1>4. Taken(line, at') /\ Len(line) = at' - at
  BY <1>2, <1>3, TakenLine
<1>5. Delivered = at
  BY <1>1, <1>2 DEF RelayOK, ReadingOK, Between, Within, Behind, Taken
<1>6. CASE chunk_buffer' = <<>>
  <2>1. chunked_body_state' = "DONE" /\ Return(s)
    BY <1>6 DEF ReadTrailer
  <2>7. line = <<>>
    BY <1>1, <1>6
  <2> HIDE DEF line
  <2>2. Len(line) = 0
    BY <2>7
  <2>8. at \in Nat /\ at' \in Nat /\ at <= at'
    BY <1>2, <1>3
  <2>3. at' = at
    BY <1>4, <2>2, <2>8, Difference
  <2>4. Delivered' = Delivered
    BY <1>2, <2>1, ReturnStep
  <2>5. Behind'
    BY <1>2, <1>5, <2>1, <2>3, <2>4 DEF Behind
  <2>6. at' - 1 <= Delivered /\ Delivered <= at'
    BY <1>2, <1>5, <2>3
  <2> QED
    BY <1>1, <1>3, <2>1, <2>5, <2>6, ReturnKeeps
<1>7. CASE chunk_buffer' # <<>>
  <2>1. UNCHANGED <<chunked_body_state, s, handed, result>>
    BY <1>7 DEF ReadTrailer
  <2>2. Delivered' = Delivered
    BY <2>1 DEF Delivered
  <2>3. line # <<>>
    BY <1>1, <1>7
  <2> HIDE DEF line
  <2>4. line \in Seq(Octet)
    BY <1>4 DEF Taken
  <2>5. Len(line) \in Nat /\ Len(line) # 0
    BY <2>3, <2>4, EmptySeq
  <2>6. bytes_remaining' \in 1 .. Len(line) /\ at' - bytes_remaining' = at
    BY <1>1, <1>2, <1>3, <1>4, <2>5
  <2>7. Taken(chunk_buffer, at)'
    BY <1>1, <1>4 DEF Taken
  <2>8. Within'
    BY <1>1, <1>5, <2>1, <2>2, <2>6, <2>7 DEF Within
  <2>9. Prefix(handed', s', octets') /\ result' = "reading" /\ Delivered' <= at' /\ at' \in 0 .. Len(octets)
    BY <1>1, <1>2, <1>3, <2>1, <2>2
  <2> QED
    BY <1>1, <2>8, <2>9, GoesOn
<1> QED
  BY <1>6, <1>7

LEMMA ServeTrailerKeeps ==
  ASSUME HeadOK, RelayOK, octets' = octets, ServeTrailer
  PROVE  RelayOK'
<1>1. /\ result = "reading" /\ is_chunked /\ is_chunked' = is_chunked /\ chunked_body_state = "TRAILER"
      /\ chunk_buffer # <<>> /\ at' = at /\ bytes_remaining' = bytes_remaining - 1
  BY DEF ServeTrailer, Reading, Loops, framing
<1>2. Within
  BY <1>1 DEF RelayOK, ReadingOK, Between, Behind
<1>3. /\ octets \in Seq(Octet) /\ Len(octets) \in Nat /\ Prefix(handed, s, octets)
      /\ at \in 0 .. Len(octets) /\ Delivered <= at /\ Delivered \in Nat
  BY RelayFacts
<1>4. CASE bytes_remaining > 1
  <2>1. Serve(Buffered) /\ UNCHANGED <<chunked_body_state, chunk_buffer>>
    BY <1>4 DEF ServeTrailer
  <2> QED
    BY <1>1, <1>2, <1>4, <2>1, ServesLine
<1>5. CASE ~(bytes_remaining > 1) /\ IsBlank(chunk_buffer)
  <2>1. chunked_body_state' = "DONE" /\ Return(s)
    BY <1>5 DEF ServeTrailer
  <2>2. bytes_remaining \in 1 .. Len(chunk_buffer) /\ Delivered = at - bytes_remaining /\ Len(chunk_buffer) \in Nat
    BY <1>2 DEF Within, Taken
  <2>3. Delivered = at - 1
    BY <1>3, <1>5, <2>2
  <2>4. Delivered' = Delivered
    BY <1>3, <2>1, ReturnStep
  <2>5. Behind'
    BY <1>1, <1>3, <2>1, <2>3, <2>4 DEF Behind
  <2>6. at' \in at .. Len(octets) /\ at' - 1 <= Delivered /\ Delivered <= at'
    BY <1>1, <1>3, <2>3
  <2> QED
    BY <1>1, <2>1, <2>5, <2>6, ReturnKeeps
<1>6. CASE ~(bytes_remaining > 1) /\ ~IsBlank(chunk_buffer)
  <2>1. Serve(Buffered) /\ chunk_buffer' = <<>> /\ chunked_body_state' = "TRAILER"
    BY <1>1, <1>6 DEF ServeTrailer
  <2> QED
    BY <1>1, <1>2, <1>6, <2>1, ServesLineEnd
<1> QED
  BY <1>4, <1>5, <1>6

LEMMA ReadPlainKeeps ==
  ASSUME HeadOK, RelayOK, octets' = octets, ReadPlain
  PROVE  RelayOK'
<1> DEFINE over == AtEnd \/ (has_content_length /\ bytes_remaining = 0)
<1>1. result = "reading" /\ ~is_chunked /\ is_chunked' = is_chunked
  BY DEF ReadPlain, Loops, framing
<1>2. /\ octets \in Seq(Octet) /\ Len(octets) \in Nat /\ Prefix(handed, s, octets)
      /\ at \in 0 .. Len(octets) /\ Delivered <= at /\ Delivered \in Nat
  BY RelayFacts
<1>3. Delivered = at
  BY <1>1 DEF RelayOK, ReadingOK
<1>4. CASE over
  <2>1. Return(s) /\ at' = at
    BY <1>4 DEF ReadPlain
  <2>2. Delivered' = Delivered
    BY <1>2, <2>1, ReturnStep
  <2>3. at' \in at .. Len(octets) /\ at' - 1 <= Delivered /\ Delivered <= at' /\ Delivered' = at'
    BY <1>2, <1>3, <2>1, <2>2
  <2> QED
    BY <1>1, <2>1, <2>3, ReturnKeeps
<1>5. CASE ~over
  <2>1. at' = at + 1 /\ Serve(octets[at + 1])
    BY <1>5 DEF ReadPlain
  <2>2. Delivered < Len(octets)
    BY <1>2, <1>3, <1>5 DEF AtEnd
  <2>3. Prefix(handed', s', octets') /\ Delivered' = at + 1 /\ result' = "reading"
    BY <1>1, <1>2, <1>3, <2>1, <2>2, ServeStep
  <2>4. at' \in 0 .. Len(octets) /\ Delivered' <= at' /\ Delivered' = at'
    BY <1>2, <1>3, <2>1, <2>2, <2>3
  <2> QED
    BY <1>1, <2>3, <2>4, GoesOn
<1> QED
  BY <1>4, <1>5

LEMMA RelayStutter ==
  ASSUME RelayInv, UNCHANGED vars
  PROVE  RelayInv'
<1>1. UNCHANGED <<message, head, decode, at, has_content_length, is_chunked, chunked_body_state, chunk_buffer,
                  bytes_remaining, s, handed, result>>
  BY DEF vars, framing, reader
<1>2. HeadOK' /\ octets' = octets /\ (HasBody' <=> HasBody)
  BY <1>1 DEF RelayInv, HeadOK, octets, HasBody
<1>3. Delivered' = Delivered
  BY <1>1 DEF Delivered
<1>4. RelayOK => RelayOK'
  BY <1>1, <1>2, <1>3 DEF RelayOK, PlaceOK, BeforeOK, ReadingOK, CompleteOK, Between, Within, Behind, Taken
<1> QED
  BY <1>1, <1>2, <1>4 DEF RelayInv

LEMMA RelayNext ==
  RelayInv /\ [Next]_vars => RelayInv'
<1> SUFFICES ASSUME RelayInv, Next PROVE RelayInv'
  BY RelayStutter
<1>1. HeadOK
  BY DEF RelayInv
<1>2. HeadOK' /\ octets' = octets
  BY <1>1, NextHead
<1>3. decode' = decode
  BY DEF Next, Progress, ReadHeaders, BufferFull, BodyDone, RecvFails, ReadSizeLine, ServeSizeLine, ServeData,
         ReadTrailer, ServeTrailer, DecodeSizeLine, DecodeData, ReadPlain
<1>4. ASSUME ~decode PROVE RelayOK'
  <2>1. RelayOK
    BY <1>4 DEF RelayInv
  <2>2. CASE ReadHeaders
    BY <1>1, <1>2, <2>1, <2>2, ReadHeadersKeeps
  <2>3. CASE BufferFull
    BY <1>1, <1>2, <2>1, <2>3, BufferFullKeeps
  <2>4. CASE BodyDone
    BY <1>1, <1>2, <2>1, <2>4, BodyDoneKeeps
  <2>5. CASE RecvFails
    BY <1>1, <1>2, <2>1, <2>5, RecvFailsKeeps
  <2>6. CASE ReadSizeLine
    BY <1>1, <1>2, <2>1, <2>6, ReadSizeLineKeeps
  <2>7. CASE ServeSizeLine
    BY <1>1, <1>2, <2>1, <2>7, ServeSizeLineKeeps
  <2>8. CASE ServeData
    BY <1>1, <1>2, <2>1, <2>8, ServeDataKeeps
  <2>9. CASE ReadTrailer
    BY <1>1, <1>2, <2>1, <2>9, ReadTrailerKeeps
  <2>10. CASE ServeTrailer
    BY <1>1, <1>2, <2>1, <2>10, ServeTrailerKeeps
  <2>11. CASE ReadPlain
    BY <1>1, <1>2, <2>1, <2>11, ReadPlainKeeps
  <2>12. ~DecodeSizeLine /\ ~DecodeData
    BY <1>4 DEF DecodeSizeLine, DecodeData, Reading
  <2> QED
    BY <2>2, <2>3, <2>4, <2>5, <2>6, <2>7, <2>8, <2>9, <2>10, <2>11, <2>12 DEF Next, Progress
<1> QED
  BY <1>2, <1>3, <1>4 DEF RelayInv

\* While the body is read, the headers are a list that the head gives.
LEMMA HeadRead ==
  ASSUME HeadOK, result = "reading"
  PROVE  HeaderList(head.headers) /\ head.framing = Framing(head.headers)
<1> DEFINE lines == message.head
           hs == Headers(lines)
           understood == IF message.kind = "request" THEN RequestLine(lines[1]) ELSE StatusLine(lines[1])
           refused == contains_nul(lines[1]) \/ hs = Refused \/ ~understood
<1>1. Len(lines) \in Nat \ {0}
  BY BodyAssumption DEF HeadOK
<1>2. HeaderList(hs)
  BY <1>1, HeadersList
<1>3. head = IF refused THEN [headers |-> <<>>, framing |-> RefusedHead]
             ELSE [headers |-> hs, framing |-> Framing(hs)]
  BY DEF HeadOK, ReadHead
<1>4. RefusedHead.refused
  BY DEF RefusedHead
<1>5. ~head.framing.refused
  BY DEF HeadOK
<1> HIDE DEF refused, hs
<1>6. ~refused
  BY <1>3, <1>4, <1>5
<1> QED
  BY <1>2, <1>3, <1>6

LEMMA RelayInvImplies ==
  RelayInv => RelaysPrefix
<1> SUFFICES ASSUME RelayInv PROVE RelaysPrefix
  OBVIOUS
<1>1. HeadOK
  BY DEF RelayInv
<1>2. ASSUME ~decode
      PROVE  /\ handed \o s = SubSeq(octets, 1, Len(handed) + Len(s))
             /\ result = "complete" /\ HasBody => Len(handed) >= at - 1
  BY <1>2 DEF RelayInv, RelayOK, Prefix, CompleteOK
<1>3. ASSUME result = "reading"
      PROVE  /\ Framing(Relayed(head.headers)) = head.framing
             /\ Framing(Rewritten(head.headers, <<"5">>)) =
                  [refused |-> FALSE, has_content_length |-> TRUE, is_chunked |-> FALSE, bytes_remaining |-> 5]
  BY <1>1, <1>3, HeadRead, RelayedFraming, RewrittenFraming
<1> QED
  BY <1>2, <1>3 DEF RelaysPrefix

\* copy_http_message_body passes on what came in, in order and with nothing
\* added, whatever the octets and the boundaries of its buffer are; and the
\* heads that handle_proxy_request writes mark the end of the body as they
\* should, whatever headers came.
THEOREM RelaysPrefixCorrect == Spec => []RelaysPrefix
<1>1. Spec => []RelayInv
  BY RelayInit, RelayNext, PTL DEF Spec
<1> QED
  BY <1>1, RelayInvImplies, PTL

----------------------------------------------------------------------------
(* Functions that are defined by recursion.                                *)

\* A function defined by recursion on a number, the value at i from that at i - 1.
Iterated(X, x, N, G, f) ==
  /\ f \in [0 .. N -> X]
  /\ f[0] = x /\ \A i \in 1 .. N : f[i] = G[i][f[i - 1]]

LEMMA Iterates ==
  ASSUME NEW X, NEW x \in X, NEW N \in Nat, NEW G \in [1 .. N -> [X -> X]]
  PROVE  \E f : Iterated(X, x, N, G, f)
<1> DEFINE P(n, f) == f[0] = x /\ \A i \in 1 .. n : f[i] = G[i][f[i - 1]]
           T == {n \in Nat : n <= N => \E f \in [0 .. n -> X] : P(n, f)}
<1>1. 0 \in T
  <2>1. [i \in 0 .. 0 |-> x] \in [0 .. 0 -> X] /\ P(0, [i \in 0 .. 0 |-> x])
    OBVIOUS
  <2> QED
    BY <2>1
<1>2. ASSUME NEW n \in T PROVE n + 1 \in T
  <2> SUFFICES ASSUME n + 1 <= N PROVE \E f \in [0 .. n + 1 -> X] : P(n + 1, f)
    OBVIOUS
  <2>1. PICK f \in [0 .. n -> X] : P(n, f)
    OBVIOUS
  <2> DEFINE g == [i \in 0 .. n + 1 |-> IF i <= n THEN f[i] ELSE G[n + 1][f[n]]]
  <2>2. f[n] \in X /\ n + 1 \in 1 .. N
    OBVIOUS
  <2>3. G[n + 1][f[n]] \in X
    BY <2>2
  <2>4. g \in [0 .. n + 1 -> X] /\ g[0] = x
    BY <2>1, <2>3
  <2>5. ASSUME NEW i \in 1 .. n + 1 PROVE g[i] = G[i][g[i - 1]]
    <3>1. g[i - 1] = f[i - 1]
      OBVIOUS
    <3>2. CASE i <= n
      <4>1. g[i] = f[i] /\ f[i] = G[i][f[i - 1]]
        BY <2>1, <3>2
      <4> QED
        BY <3>1, <4>1
    <3>3. CASE i = n + 1
      BY <3>1, <3>3
    <3> QED
      BY <3>2, <3>3
  <2> HIDE DEF g
  <2> QED
    BY <2>4, <2>5
<1>3. T = Nat
  <2>1. T \subseteq Nat
    OBVIOUS
  <2> HIDE DEF T
  <2> QED
    BY <1>1, <1>2, <2>1, Induction
<1> QED
  BY <1>3 DEF Iterated

\* It is the only one.
Alike(n, f, g) == f[0] = g[0] /\ \A i \in 1 .. n : f[i - 1] = g[i - 1] => f[i] = g[i]

LEMMA Agree ==
  ASSUME NEW N \in Nat, NEW f, NEW g, Alike(N, f, g)
  PROVE  \A i \in 0 .. N : f[i] = g[i]
<1> DEFINE T == {n \in Nat : n <= N => f[n] = g[n]}
<1>1. 0 \in T
  BY DEF Alike
<1>2. ASSUME NEW n \in T PROVE n + 1 \in T
  <2> SUFFICES ASSUME n + 1 <= N PROVE f[n + 1] = g[n + 1]
    OBVIOUS
  <2>1. f[n] = g[n] /\ n + 1 \in 1 .. N /\ n + 1 - 1 = n
    OBVIOUS
  <2> QED
    BY <2>1 DEF Alike
<1>3. T \subseteq Nat
  OBVIOUS
<1> HIDE DEF T
<1>4. T = Nat
  BY <1>1, <1>2, <1>3, Induction
<1> QED
  BY <1>4 DEF T

----------------------------------------------------------------------------
(* A size line and what it announces.                                      *)

LEMMA HexDigitsIn ==
  ASSUME NEW line, Len(line) \in Nat
  PROVE  /\ HexDigits(line) \in 0 .. Len(line)
         /\ \A i \in 1 .. HexDigits(line) : line[i] \in DOMAIN HexValue
<1> DEFINE T == {k \in 0 .. Len(line) : k = Len(line) \/ line[k + 1] \notin DOMAIN HexValue}
<1>1. Len(line) \in T /\ T \subseteq Nat
  OBVIOUS
<1>2. PICK k \in T : \A j \in T : k <= j
  BY <1>1, LeastNatural
<1>3. ASSUME NEW i \in 1 .. k PROVE line[i] \in DOMAIN HexValue
  <2>1. i - 1 \in 0 .. Len(line) /\ ~(k <= i - 1) /\ i - 1 # Len(line) /\ i - 1 + 1 = i
    BY <1>2
  <2>2. i - 1 \notin T
    BY <1>2, <2>1
  <2> QED
    BY <2>1, <2>2
<1> QED
  BY <1>2, <1>3 DEF HexDigits

LEMMA HexValueIn ==
  ASSUME NEW c \in DOMAIN HexValue
  PROVE  HexValue[c] \in 0 .. 15
BY DEF HexValue

LEMMA SixteenTimes ==
  ASSUME NEW m \in Nat, NEW v \in Nat, NEW d \in 0 .. 15
  PROVE  /\ 16 * v + d \in Nat /\ 16 * v + d >= v
         /\ v > m => 16 * v + d > m
         /\ m \div 16 < v \/ m - d < 16 * v <=> 16 * v + d > m
<1>1. m \div 16 \in Int /\ 16 * (m \div 16) <= m /\ m < 16 * (m \div 16) + 16
  OBVIOUS
<1> DEFINE q == m \div 16
<1> HIDE DEF q
<1>2. 16 * v + d \in Nat /\ 16 * v + d >= v
  OBVIOUS
<1>3. v > m => 16 * v + d > m
  OBVIOUS
<1>4. q < v \/ m - d < 16 * v <=> 16 * v + d > m
  BY <1>1 DEF q
<1> QED
  BY <1>2, <1>3, <1>4 DEF q

\* The digits of a size line, of any size and as long as they fit.
Larger(line, n, f) == f = [i \in 0 .. n |-> IF i = 0 THEN 0 ELSE 16 * f[i - 1] + HexValue[line[i]]]
Fitting(line, n, f) ==
  f = [i \in 0 .. n |->
         IF i = 0 THEN 0
         ELSE IF f[i - 1] = Invalid \/ SizeMax \div 16 < f[i - 1] \/ SizeMax - HexValue[line[i]] < 16 * f[i - 1]
              THEN Invalid ELSE 16 * f[i - 1] + HexValue[line[i]]]
LargeSize(line, n) == (CHOOSE f : Larger(line, n, f))[n]
FittingSize(line, n) == (CHOOSE f : Fitting(line, n, f))[n]

LEMMA SizeValues ==
  ASSUME NEW line, NEW N \in Nat, \A i \in 1 .. N : HexValue[line[i]] \in 0 .. 15
  PROVE  /\ LargeSize(line, N) \in Nat
         /\ FittingSize(line, N) = IF LargeSize(line, N) <= SizeMax THEN LargeSize(line, N) ELSE Invalid
<1> DEFINE big(v, i) == 16 * v + HexValue[line[i]]
           fit(v, i) == IF v = Invalid \/ SizeMax \div 16 < v \/ SizeMax - HexValue[line[i]] < 16 * v
                        THEN Invalid ELSE big(v, i)
           Big(f) == f = [i \in 0 .. N |-> IF i = 0 THEN 0 ELSE big(f[i - 1], i)]
           Fit(f) == f = [i \in 0 .. N |-> IF i = 0 THEN 0 ELSE fit(f[i - 1], i)]
           Sizes == Nat
           G == [i \in 1 .. N |-> [v \in Sizes |-> big(v, i)]]
<1>1. LargeSize(line, N) = (CHOOSE f : Big(f))[N] /\ FittingSize(line, N) = (CHOOSE f : Fit(f))[N]
  BY DEF LargeSize, FittingSize, Larger, Fitting
<1>2. ASSUME NEW i \in 1 .. N PROVE HexValue[line[i]] \in 0 .. 15
  OBVIOUS
<1>5. ASSUME NEW v \in Nat, NEW i \in 1 .. N PROVE big(v, i) \in Nat /\ big(v, i) >= v
  BY <1>2, SixteenTimes, BodyAssumption
<1>6. ASSUME NEW v \in Nat, NEW i \in 1 .. N
      PROVE  fit(IF v <= SizeMax THEN v ELSE Invalid, i) = IF big(v, i) <= SizeMax THEN big(v, i) ELSE Invalid
  <2> DEFINE d == HexValue[line[i]]
  <2>1. d \in 0 .. 15 /\ SizeMax \in Nat
    BY <1>2, BodyAssumption
  <2>0. 16 * v + d \in Nat
    BY <2>1, SixteenTimes
  <2>2. v # Invalid /\ big(v, i) = 16 * v + d /\ 16 * v + d \in Nat
    BY <2>0 DEF Invalid
  <2>5. fit(v, i) = IF v = Invalid \/ SizeMax \div 16 < v \/ SizeMax - d < 16 * v THEN Invalid ELSE big(v, i)
    OBVIOUS
  <2>6. fit(Invalid, i) = Invalid
    OBVIOUS
  <2> HIDE DEF d, big, fit
  <2>3. CASE v > SizeMax
    <3>1. 16 * v + d > SizeMax
      BY <2>1, <2>3
    <3>2. ~(v <= SizeMax) /\ ~(big(v, i) <= SizeMax)
      BY <2>1, <2>2, <2>3, <3>1
    <3> QED
      BY <2>6, <3>2
  <2>4. CASE v <= SizeMax
    <3>1. SizeMax \div 16 < v \/ SizeMax - d < 16 * v <=> ~(16 * v + d <= SizeMax)
      <4>1. SizeMax \div 16 < v \/ SizeMax - d < 16 * v <=> 16 * v + d > SizeMax
        BY <2>1, SixteenTimes
      <4> QED
        BY <2>1, <2>2, <4>1
    <3>2. fit(v, i) = IF 16 * v + d <= SizeMax THEN big(v, i) ELSE Invalid
      BY <2>2, <2>5, <3>1
    <3> QED
      BY <2>2, <2>4, <3>2
  <2> QED
    BY <2>1, <2>3, <2>4
<1> HIDE DEF big, fit
<1>6a. \A v : v \in Sizes <=> v \in Nat
  OBVIOUS
<1> HIDE DEF Sizes
<1>f. PICK f : Iterated(Sizes, 0, N, G, f)
  <2>1. G \in [1 .. N -> [Sizes -> Sizes]] /\ 0 \in Sizes
    BY <1>5, <1>6a
  <2> HIDE DEF G
  <2> QED
    BY <2>1, Iterates
<1>7. f \in [0 .. N -> Sizes] /\ f[0] = 0 /\ \A i \in 1 .. N : f[i] = G[i][f[i - 1]]
  BY <1>f DEF Iterated
<1>8. ASSUME NEW i \in 1 .. N PROVE f[i - 1] \in Nat /\ f[i] = big(f[i - 1], i)
  <2>1. f[i] = G[i][f[i - 1]] /\ f[i - 1] \in Sizes
    BY <1>7
  <2> QED
    BY <1>6a, <2>1
<1> DEFINE g == [i \in 0 .. N |-> IF f[i] <= SizeMax THEN f[i] ELSE Invalid]
<1>9. Big(f)
  <2>1. ASSUME NEW i \in 0 .. N PROVE f[i] = IF i = 0 THEN 0 ELSE big(f[i - 1], i)
    BY <1>1, <1>7, <1>8
  <2>2. f = [i \in 0 .. N |-> f[i]]
    BY <1>7
  <2> QED
    BY <2>1, <2>2
<1>10. Fit(g)
  <2>1. ASSUME NEW i \in 0 .. N PROVE g[i] = IF i = 0 THEN 0 ELSE fit(g[i - 1], i)
    <3>1. CASE i = 0
      BY <1>7, <3>1, BodyAssumption
    <3>2. CASE i # 0
      <4>1. i \in 1 .. N /\ i - 1 \in 0 .. N
        BY <1>1, <3>2
      <4>2. g[i - 1] = IF f[i - 1] <= SizeMax THEN f[i - 1] ELSE Invalid
        BY <4>1
      <4>3. fit(g[i - 1], i) = IF big(f[i - 1], i) <= SizeMax THEN big(f[i - 1], i) ELSE Invalid
        BY <1>6, <1>8, <4>1, <4>2
      <4> QED
        BY <1>8, <3>2, <4>1, <4>3
    <3> QED
      BY <3>1, <3>2
  <2>2. g = [i \in 0 .. N |-> g[i]]
    OBVIOUS
  <2> HIDE DEF g
  <2> QED
    BY <2>1, <2>2
<1>11. N \in 0 .. N /\ f[N] \in Nat /\ g[N] = IF f[N] <= SizeMax THEN f[N] ELSE Invalid
  BY <1>7, <1>6a
<1>12. ASSUME NEW h, Big(h) PROVE h[N] = f[N]
  <2>1. Alike(N, h, f)
    BY <1>1, <1>9, <1>12 DEF Alike
  <2> HIDE DEF Big
  <2>2. \A i \in 0 .. N : h[i] = f[i]
    BY <2>1, Agree
  <2> QED
    BY <1>11, <2>2
<1>13. ASSUME NEW h, Fit(h) PROVE h[N] = g[N]
  <2> HIDE DEF g
  <2>1. Alike(N, h, g)
    BY <1>1, <1>10, <1>13 DEF Alike
  <2> HIDE DEF Fit
  <2>2. \A i \in 0 .. N : h[i] = g[i]
    BY <2>1, Agree
  <2> QED
    BY <1>11, <2>2
<1> HIDE DEF Big, Fit, g
<1>14. (CHOOSE h : Big(h))[N] = f[N] /\ (CHOOSE h : Fit(h))[N] = g[N]
  BY <1>9, <1>10, <1>12, <1>13
<1> QED
  BY <1>1, <1>11, <1>14

\* The number that is announced is read, if it fits.
LEMMA SizeRead ==
  ASSUME NEW line, Len(line) \in Nat
  PROVE  /\ Announced(line) \in Nat \cup {Invalid}
         /\ ChunkSize(line) = IF Announced(line) # Invalid /\ Announced(line) <= SizeMax
                              THEN Announced(line) ELSE Invalid
<1> DEFINE N == HexDigits(line)
           Stopped == N < Len(line) /\ line[N + 1] \notin {" ", ";", "r", "n"}
<1>1. N \in Nat /\ \A i \in 1 .. N : HexValue[line[i]] \in 0 .. 15
  <2>1. N \in 0 .. Len(line) /\ \A i \in 1 .. N : line[i] \in DOMAIN HexValue
    BY HexDigitsIn
  <2> HIDE DEF N
  <2>2. ASSUME NEW i \in 1 .. N PROVE HexValue[line[i]] \in 0 .. 15
    <3> DEFINE c == line[i]
    <3>1. c \in DOMAIN HexValue
      BY <2>1
    <3> HIDE DEF c
    <3>2. HexValue[c] \in 0 .. 15
      BY <3>1, HexValueIn
    <3> QED
      BY <3>2 DEF c
  <2>3. N \in Nat
    BY <2>1
  <2> QED
    BY <2>2, <2>3
<1>2. Announced(line) = IF Stopped THEN Invalid ELSE LargeSize(line, N)
  BY DEF Announced, LargeSize, Larger
<1>3. ChunkSize(line) = IF Stopped THEN Invalid ELSE FittingSize(line, N)
  BY DEF ChunkSize, FittingSize, Fitting
<1> HIDE DEF Stopped, N
<1>4. /\ LargeSize(line, N) \in Nat
      /\ FittingSize(line, N) = IF LargeSize(line, N) <= SizeMax THEN LargeSize(line, N) ELSE Invalid
  BY <1>1, SizeValues
<1>5. Invalid \notin Nat
  BY DEF Invalid
<1> QED
  BY <1>2, <1>3, <1>4, <1>5

LEMMA PieceIn ==
  ASSUME NEW o \in Seq(Octet), NEW p \in 0 .. Len(o), NEW q \in p .. Len(o)
  PROVE  SubSeq(o, p + 1, q) \in Seq(Octet) /\ Len(SubSeq(o, p + 1, q)) = q - p
<1>1. Len(o) \in Nat
  BY LenProperties
<1>2. \A i \in p + 1 .. q : o[i] \in Octet
  <2>1. ASSUME NEW i \in p + 1 .. q PROVE i \in 1 .. Len(o)
    BY <1>1
  <2> QED
    BY <2>1, ElementOfSeq
<1>3. p + 1 \in Int /\ q \in Int
  BY <1>1
<1>4. /\ SubSeq(o, p + 1, q) \in Seq(Octet)
      /\ Len(SubSeq(o, p + 1, q)) = (IF p + 1 <= q THEN q - (p + 1) + 1 ELSE 0)
  BY <1>2, <1>3, SubSeqProperties
<1> QED
  BY <1>1, <1>4

----------------------------------------------------------------------------
(* The chunks of a body.                                                   *)

LEMMA LineIn ==
  ASSUME NEW o \in Seq(Octet), NEW p \in 0 .. Len(o)
  PROVE  /\ LineEnd(o, p) \in p .. Len(o)
         /\ Line(o, p) \in Seq(Octet) /\ Len(Line(o, p)) = LineEnd(o, p) - p
         /\ SizeAt(o, p) \in Nat \cup {Invalid}
         /\ SizeAt(o, p) # Invalid => LineEnd(o, p) >= p + 2
<1>1. Len(o) \in Nat
  BY LenProperties
<1>2. LineEnd(o, p) \in p .. Len(o)
  BY <1>1, LineEndIn
<1>3. Line(o, p) \in Seq(Octet) /\ Len(Line(o, p)) = LineEnd(o, p) - p
  BY <1>1, <1>2, PieceIn DEF Line
<1>4. Announced(Line(o, p)) \in Nat \cup {Invalid}
  BY <1>3, LenProperties, SizeRead
<1>5. SizeAt(o, p) \in Nat \cup {Invalid} /\ (Len(Line(o, p)) < 2 => SizeAt(o, p) = Invalid)
  BY <1>4 DEF SizeAt
<1>6. SizeAt(o, p) # Invalid => LineEnd(o, p) >= p + 2
  BY <1>1, <1>2, <1>3, <1>5
<1> QED
  BY <1>2, <1>3, <1>5, <1>6

\* a whole chunk begins at p
ChunkAt(o, p) ==
  /\ SizeAt(o, p) \in Nat \ {0} /\ LineEnd(o, p) + SizeAt(o, p) + 2 <= Len(o)
  /\ o[LineEnd(o, p) + SizeAt(o, p) + 1] = "r" /\ o[LineEnd(o, p) + SizeAt(o, p) + 2] = "n"

Start == [end |-> 0, data |-> <<>>]
Pieces(o) == [end : 0 .. Len(o), data : Seq(Octet)]

LEMMA NotMissing ==
  ASSUME NEW o \in Seq(Octet)
  PROVE  /\ \A c \in Pieces(o) : c # Missing
         /\ Start \in Pieces(o)
<1>1. Len(o) \in Nat
  BY LenProperties
<1>2. \A c \in Pieces(o) : c.end # Missing.end
  BY <1>1 DEF Pieces, Missing, Invalid
<1>3. \A c \in Pieces(o) : c # Missing
  BY <1>2
<1>4. <<>> \in Seq(Octet) /\ 0 \in 0 .. Len(o)
  BY <1>1
<1>5. Start \in Pieces(o)
  BY <1>4 DEF Start, Pieces
<1> QED
  BY <1>3, <1>5

LEMMA LongerChunk ==
  ASSUME NEW o \in Seq(Octet), NEW c \in Pieces(o)
  PROVE  IF ChunkAt(o, c.end)
         THEN /\ Longer(o, c) \in Pieces(o)
              /\ Longer(o, c).end = LineEnd(o, c.end) + SizeAt(o, c.end) + 2
              /\ Longer(o, c).data = c.data \o SubSeq(o, LineEnd(o, c.end) + 1, LineEnd(o, c.end) + SizeAt(o, c.end))
              /\ Longer(o, c).end >= c.end + 1
         ELSE Longer(o, c) = Missing
<1> DEFINE size == SizeAt(o, c.end)
           from == LineEnd(o, c.end)
           to == from + size + 2
           last == to - 1
           more == SubSeq(o, from + 1, from + size)
<1>1. Len(o) \in Nat /\ c.end \in 0 .. Len(o) /\ c.data \in Seq(Octet) /\ c # Missing
  BY LenProperties, NotMissing DEF Pieces
<1>2. from \in c.end .. Len(o) /\ size \in Nat \cup {Invalid}
  BY <1>1, LineIn
<1>3. Longer(o, c) = IF size > 0 /\ to <= Len(o) /\ o[last] = "r" /\ o[to] = "n"
                     THEN [end |-> to, data |-> c.data \o more] ELSE Missing
  BY <1>1 DEF Longer
<1>4. ChunkAt(o, c.end) <=> size \in Nat \ {0} /\ to <= Len(o) /\ o[from + size + 1] = "r" /\ o[to] = "n"
  BY DEF ChunkAt
<1> HIDE DEF size, from
<1>5. size > 0 <=> size \in Nat \ {0}
  BY <1>2 DEF Invalid
<1>6. size \in Nat \ {0} => last = from + size + 1
  BY <1>1, <1>2
<1>7. ChunkAt(o, c.end) <=> size > 0 /\ to <= Len(o) /\ o[last] = "r" /\ o[to] = "n"
  BY <1>4, <1>5, <1>6
<1>8. CASE ChunkAt(o, c.end)
  <2>1. size \in Nat \ {0} /\ to <= Len(o)
    BY <1>4, <1>8
  <2>2. from \in 0 .. Len(o) /\ from + size \in from .. Len(o) /\ to \in 0 .. Len(o) /\ to >= c.end + 1
    BY <1>1, <1>2, <2>1
  <2>3. more \in Seq(Octet)
    BY <2>2, PieceIn
  <2>4. c.data \o more \in Seq(Octet)
    BY <1>1, <2>3
  <2> HIDE DEF to, more, last
  <2>5. Longer(o, c) = [end |-> to, data |-> c.data \o more]
    BY <1>3, <1>7, <1>8
  <2>6. Longer(o, c) \in Pieces(o)
    BY <2>2, <2>4, <2>5 DEF Pieces
  <2>7. Longer(o, c).end = to /\ Longer(o, c).data = c.data \o more
    BY <2>5
  <2> QED
    BY <1>8, <2>2, <2>6, <2>7 DEF to, more, size, from
<1>9. CASE ~ChunkAt(o, c.end)
  BY <1>3, <1>7, <1>9
<1> QED
  BY <1>8, <1>9

ChunkList(o, f) == f = [n \in 0 .. Len(o) |-> IF n = 0 THEN Start ELSE Longer(o, f[n - 1])]

LEMMA LongerMissing ==
  ASSUME NEW o
  PROVE  Longer(o, Missing) = Missing
BY DEF Longer

LEMMA ChunksType ==
  ASSUME NEW o \in Seq(Octet)
  PROVE  /\ ChunksOf(o)[0] = Start
         /\ \A n \in 0 .. Len(o) : ChunksOf(o)[n] \in Pieces(o) \cup {Missing}
         /\ \A n \in 1 .. Len(o) : ChunksOf(o)[n] = Longer(o, ChunksOf(o)[n - 1])
<1> DEFINE N == Len(o)
           X == Pieces(o) \cup {Missing}
           G == [n \in 1 .. N |-> [c \in X |-> Longer(o, c)]]
<1>1. N \in Nat /\ Start \in X
  BY LenProperties, NotMissing
<1>2. \A c \in X : Longer(o, c) \in X
  BY LongerChunk, LongerMissing
<1>3. G \in [1 .. N -> [X -> X]]
  BY <1>2
<1> HIDE DEF X, N
<1>f. PICK f : Iterated(X, Start, N, G, f)
  <2> HIDE DEF G
  <2> QED
    BY <1>1, <1>3, Iterates
<1>4. f \in [0 .. N -> X] /\ f[0] = Start /\ \A i \in 1 .. N : f[i] = G[i][f[i - 1]]
  BY <1>f DEF Iterated
<1>5. ASSUME NEW n \in 1 .. N PROVE f[n - 1] \in X /\ f[n] = Longer(o, f[n - 1])
  <2>1. f[n] = G[n][f[n - 1]] /\ f[n - 1] \in X
    BY <1>1, <1>4
  <2> QED
    BY <2>1
<1>6. ChunkList(o, f)
  <2>1. ASSUME NEW n \in 0 .. N PROVE f[n] = IF n = 0 THEN Start ELSE Longer(o, f[n - 1])
    BY <1>1, <1>4, <1>5
  <2>2. f = [n \in 0 .. N |-> f[n]]
    BY <1>4
  <2> QED
    BY <2>1, <2>2 DEF ChunkList, N
<1>7. ChunksOf(o) = CHOOSE g : ChunkList(o, g)
  BY DEF ChunksOf, ChunkList, Start
<1>8. ChunkList(o, ChunksOf(o))
  BY <1>6, <1>7
<1> DEFINE C == ChunksOf(o)
<1>9. C[0] = Start /\ \A n \in 1 .. N : C[n] = Longer(o, C[n - 1])
  <2> HIDE DEF C
  <2> QED
    BY <1>1, <1>8 DEF ChunkList, N, C
<1>10. Alike(N, C, f)
  BY <1>4, <1>5, <1>9 DEF Alike
<1>11. \A n \in 0 .. N : C[n] = f[n]
  <2> HIDE DEF C
  <2> QED
    BY <1>1, <1>10, Agree
<1>12. \A n \in 0 .. N : C[n] \in X
  BY <1>4, <1>11
<1> QED
  BY <1>9, <1>12 DEF N, X

Known(o, k) == k \in 0 .. Len(o) /\ ChunksOf(o)[k] # Missing

LEMMA KnownPiece ==
  ASSUME NEW o \in Seq(Octet), NEW k, Known(o, k)
  PROVE  /\ Len(o) \in Nat /\ k \in 0 .. Len(o) /\ ChunksOf(o)[k] \in Pieces(o)
         /\ ChunksOf(o)[k].end \in 0 .. Len(o) /\ ChunksOf(o)[k].data \in Seq(Octet)
<1>1. Len(o) \in Nat /\ k \in 0 .. Len(o) /\ ChunksOf(o)[k] \in Pieces(o)
  BY LenProperties, ChunksType DEF Known
<1> QED
  BY <1>1 DEF Pieces

LEMMA FirstKnown ==
  ASSUME NEW o \in Seq(Octet)
  PROVE  Known(o, 0) /\ ChunksOf(o)[0].end = 0 /\ ChunksOf(o)[0].data = <<>>
<1>1. Len(o) \in Nat /\ ChunksOf(o)[0] = Start /\ Start # Missing
  BY LenProperties, ChunksType, NotMissing
<1> QED
  BY <1>1 DEF Known, Start

\* the chunk before a chunk
LEMMA BackOne ==
  ASSUME NEW o \in Seq(Octet), NEW k \in Nat, Known(o, k + 1)
  PROVE  /\ Known(o, k) /\ ChunkAt(o, ChunksOf(o)[k].end)
         /\ ChunksOf(o)[k + 1].end = LineEnd(o, ChunksOf(o)[k].end) + SizeAt(o, ChunksOf(o)[k].end) + 2
         /\ ChunksOf(o)[k + 1].end >= ChunksOf(o)[k].end + 1
<1> DEFINE C == ChunksOf(o)
<1>1. Len(o) \in Nat /\ k \in 0 .. Len(o) /\ k + 1 \in 1 .. Len(o)
  BY KnownPiece
<1>2. C[k + 1] = Longer(o, C[k]) /\ C[k] \in Pieces(o) \cup {Missing} /\ C[k + 1] # Missing
  <2>1. C[k + 1] = Longer(o, C[k + 1 - 1]) /\ k + 1 - 1 = k
    BY <1>1, ChunksType
  <2> QED
    BY <1>1, <2>1, ChunksType DEF Known
<1> HIDE DEF C
<1>3. C[k] \in Pieces(o)
  BY <1>2, LongerMissing
<1>4. C[k] # Missing
  BY <1>3, NotMissing
<1>5. ChunkAt(o, C[k].end)
  BY <1>2, <1>3, LongerChunk
<1>6. C[k + 1].end = LineEnd(o, C[k].end) + SizeAt(o, C[k].end) + 2 /\ C[k + 1].end >= C[k].end + 1
  BY <1>2, <1>3, <1>5, LongerChunk
<1> QED
  BY <1>1, <1>4, <1>5, <1>6 DEF Known, C

LEMMA EndsGrow ==
  ASSUME NEW o \in Seq(Octet), NEW k \in Nat
  PROVE  Known(o, k) => k <= ChunksOf(o)[k].end
<1> DEFINE C == ChunksOf(o)
           T == {n \in Nat : Known(o, n) => n <= C[n].end}
<1>1. 0 \in T
  BY FirstKnown
<1>2. ASSUME NEW n \in T PROVE n + 1 \in T
  <2> SUFFICES ASSUME Known(o, n + 1) PROVE n + 1 <= C[n + 1].end
    OBVIOUS
  <2>1. Known(o, n) /\ C[n + 1].end >= C[n].end + 1
    BY BackOne
  <2>2. n <= C[n].end /\ C[n].end \in Nat /\ C[n + 1].end \in Nat
    BY <2>1, KnownPiece
  <2> HIDE DEF C
  <2> QED
    BY <2>1, <2>2
<1>3. T \subseteq Nat
  OBVIOUS
<1> HIDE DEF T
<1>4. T = Nat
  BY <1>1, <1>2, <1>3, Induction
<1> QED
  BY <1>4 DEF T

\* the chunk behind a chunk
LEMMA NextOne ==
  ASSUME NEW o \in Seq(Octet), NEW k, Known(o, k)
  PROVE  LET C == ChunksOf(o)
             from == LineEnd(o, C[k].end)
             size == SizeAt(o, C[k].end)
         IN  IF ChunkAt(o, C[k].end)
             THEN /\ Known(o, k + 1) /\ C[k + 1].end = from + size + 2
                  /\ C[k + 1].data = C[k].data \o SubSeq(o, from + 1, from + size)
             ELSE ~Known(o, k + 1)
<1> DEFINE C == ChunksOf(o)
<1>1. Len(o) \in Nat /\ k \in 0 .. Len(o) /\ C[k] \in Pieces(o) /\ C[k].end \in 0 .. Len(o) /\ k <= C[k].end
  BY KnownPiece, EndsGrow
<1>2. k + 1 \in 0 .. Len(o) => C[k + 1] = Longer(o, C[k])
  <2> SUFFICES ASSUME k + 1 \in 0 .. Len(o) PROVE C[k + 1] = Longer(o, C[k])
    OBVIOUS
  <2>1. k + 1 \in 1 .. Len(o) /\ k + 1 - 1 = k
    BY <1>1
  <2>2. \A n \in 1 .. Len(o) : C[n] = Longer(o, C[n - 1])
    BY ChunksType
  <2> HIDE DEF C
  <2>3. C[k + 1] = Longer(o, C[k + 1 - 1])
    BY <1>1, <2>1, <2>2
  <2> QED
    BY <2>1, <2>3
<1> HIDE DEF C
<1>3. CASE ChunkAt(o, C[k].end)
  <2>1. /\ Longer(o, C[k]) \in Pieces(o) /\ Longer(o, C[k]).end >= C[k].end + 1
        /\ Longer(o, C[k]).end = LineEnd(o, C[k].end) + SizeAt(o, C[k].end) + 2
        /\ Longer(o, C[k]).data = C[k].data \o SubSeq(o, LineEnd(o, C[k].end) + 1, LineEnd(o, C[k].end) + SizeAt(o, C[k].end))
    BY <1>1, <1>3, LongerChunk
  <2>2. Longer(o, C[k]) # Missing /\ Longer(o, C[k]).end \in 0 .. Len(o)
    BY <2>1, NotMissing DEF Pieces
  <2>3. k + 1 \in 0 .. Len(o)
    BY <1>1, <2>1, <2>2
  <2> QED
    BY <1>2, <1>3, <2>1, <2>2, <2>3 DEF Known, C
<1>4. CASE ~ChunkAt(o, C[k].end)
  <2>1. Longer(o, C[k]) = Missing
    BY <1>1, <1>4, LongerChunk
  <2> QED
    BY <1>2, <1>4, <2>1 DEF Known, C
<1> QED
  BY <1>3, <1>4 DEF C

\* No chunk comes behind the last one.
LEMMA UpToLast ==
  ASSUME NEW o \in Seq(Octet), NEW n \in AllOf(o), NEW k, Known(o, k)
  PROVE  Known(o, n) /\ SizeAt(o, ChunksOf(o)[n].end) = 0 /\ k <= n
<1> DEFINE C == ChunksOf(o)
<1>1. Known(o, n) /\ SizeAt(o, C[n].end) = 0
  BY DEF AllOf, Known
<1>2. n \in Nat /\ k \in Nat
  BY <1>1, KnownPiece
<1>3. ~Known(o, n + 1)
  <2>1. ~ChunkAt(o, C[n].end)
    BY <1>1 DEF ChunkAt
  <2> QED
    BY <1>1, <2>1, NextOne
<1> DEFINE T == {j \in Nat : ~Known(o, n + 1 + j)}
<1>4. 0 \in T
  BY <1>2, <1>3
<1>5. ASSUME NEW j \in T PROVE j + 1 \in T
  <2>1. n + 1 + j \in Nat /\ n + 1 + (j + 1) = (n + 1 + j) + 1
    BY <1>2
  <2>2. Known(o, (n + 1 + j) + 1) => Known(o, n + 1 + j)
    BY <2>1, BackOne
  <2> QED
    BY <2>1, <2>2
<1>6. T \subseteq Nat
  OBVIOUS
<1> HIDE DEF T
<1>7. T = Nat
  BY <1>4, <1>5, <1>6, Induction
<1>8. ASSUME k > n PROVE FALSE
  <2>1. k - (n + 1) \in Nat /\ n + 1 + (k - (n + 1)) = k
    BY <1>2, <1>8
  <2> QED
    BY <1>7, <2>1 DEF T
<1> QED
  BY <1>1, <1>2, <1>8

\* What comes before the last chunk are whole chunks, in order.
LEMMA BeforeLast ==
  ASSUME NEW o \in Seq(Octet), NEW n \in AllOf(o), NEW k, Known(o, k)
  PROVE  LET C == ChunksOf(o)
         IN  /\ LineEnd(o, C[k].end) <= LineEnd(o, C[n].end)
             /\ k # n => /\ ChunkAt(o, C[k].end)
                         /\ LineEnd(o, C[k].end) + SizeAt(o, C[k].end) + 2 <= LineEnd(o, C[n].end)
<1> DEFINE C == ChunksOf(o)
           T == {j \in Nat : j <= n => Known(o, n - j) /\ C[n - j].end <= C[n].end}
<1>1. Known(o, n) /\ k <= n /\ n \in Nat /\ k \in Nat /\ C[n].end \in 0 .. Len(o) /\ C[k].end \in 0 .. Len(o)
  BY UpToLast, KnownPiece
<1>2. 0 \in T
  BY <1>1
<1>3. ASSUME NEW j \in T PROVE j + 1 \in T
  <2> SUFFICES ASSUME j + 1 <= n PROVE Known(o, n - (j + 1)) /\ C[n - (j + 1)].end <= C[n].end
    OBVIOUS
  <2>0. n - (j + 1) \in Nat /\ n - (j + 1) + 1 = n - j /\ j <= n
    BY <1>1
  <2>1. Known(o, n - j) /\ C[n - j].end <= C[n].end
    BY <2>0
  <2>2. Known(o, n - (j + 1)) /\ C[n - j].end >= C[n - (j + 1)].end + 1
    <3> DEFINE i == n - (j + 1)
    <3>1. i \in Nat /\ i + 1 = n - j /\ Known(o, i + 1)
      BY <2>0, <2>1
    <3> HIDE DEF i
    <3>2. Known(o, i) /\ C[i + 1].end >= C[i].end + 1
      BY <3>1, BackOne
    <3> QED
      BY <3>1, <3>2 DEF i
  <2> DEFINE first == C[n - (j + 1)].end
             next == C[n - j].end
             last == C[n].end
  <2>3. first \in Nat /\ next \in Nat /\ last \in Nat
    BY <1>1, <2>0, <2>1, <2>2, KnownPiece
  <2>4. next >= first + 1 /\ next <= last
    BY <2>1, <2>2
  <2> HIDE DEF first, next, last
  <2>5. first <= last
    BY <2>3, <2>4
  <2> QED
    BY <2>2, <2>5 DEF first, last
<1>4. T \subseteq Nat
  OBVIOUS
<1> HIDE DEF T
<1>5. T = Nat
  BY <1>2, <1>3, <1>4, Induction
<1>6. LineEnd(o, C[n].end) \in C[n].end .. Len(o) /\ LineEnd(o, C[k].end) \in C[k].end .. Len(o)
  BY <1>1, LineIn
<1>7. CASE k = n
  BY <1>6, <1>7
<1>8. CASE k # n
  <2>1. n - (k + 1) \in Nat /\ n - (n - (k + 1)) = k + 1 /\ n - (k + 1) <= n
    BY <1>1, <1>8
  <2>2. Known(o, k + 1) /\ C[k + 1].end <= C[n].end
    BY <1>5, <2>1 DEF T
  <2>3. ChunkAt(o, C[k].end) /\ C[k + 1].end = LineEnd(o, C[k].end) + SizeAt(o, C[k].end) + 2
    BY <1>1, <2>2, BackOne
  <2>4. SizeAt(o, C[k].end) \in Nat
    BY <2>3 DEF ChunkAt
  <2> HIDE DEF C
  <2>5. LineEnd(o, C[k].end) + SizeAt(o, C[k].end) + 2 <= LineEnd(o, C[n].end)
    BY <1>1, <1>6, <2>2, <2>3, <2>4
  <2>6. LineEnd(o, C[k].end) <= LineEnd(o, C[n].end)
    BY <1>1, <1>6, <2>4, <2>5
  <2> QED
    BY <2>3, <2>5, <2>6 DEF C
<1> QED
  BY <1>7, <1>8

----------------------------------------------------------------------------
(* The lines of a trailer.                                                 *)

TrailerList(o, p, f) == f = [n \in 0 .. Len(o) |-> IF n = 0 THEN p ELSE HeaderEnd(o, f[n - 1])]

LEMMA TrailerType ==
  ASSUME NEW o \in Seq(Octet), NEW p \in 0 .. Len(o)
  PROVE  /\ TrailerOf(o, p)[0] = p
         /\ \A n \in 0 .. Len(o) : TrailerOf(o, p)[n] \in 0 .. Len(o)
         /\ \A n \in 1 .. Len(o) : /\ TrailerOf(o, p)[n] = HeaderEnd(o, TrailerOf(o, p)[n - 1])
                                   /\ TrailerOf(o, p)[n - 1] <= TrailerOf(o, p)[n]
<1> DEFINE N == Len(o)
           X == 0 .. N
           G == [n \in 1 .. N |-> [q \in X |-> HeaderEnd(o, q)]]
           T == TrailerOf(o, p)
           first == p
<1>1. N \in Nat /\ first \in X
  BY LenProperties
<1>2. \A q \in X : HeaderEnd(o, q) \in X /\ q <= HeaderEnd(o, q)
  <2>1. ASSUME NEW q \in X PROVE HeaderEnd(o, q) \in q .. Len(o)
    BY <1>1, HeaderEndIn
  <2> QED
    BY <1>1, <2>1
<1>3. G \in [1 .. N -> [X -> X]]
  BY <1>2
<1> HIDE DEF X, N, first
<1>f. PICK f : Iterated(X, first, N, G, f)
  <2> HIDE DEF G, T
  <2>1. N \in Nat /\ first \in X /\ G \in [1 .. N -> [X -> X]]
    BY <1>1, <1>3
  <2> QED
    BY <2>1, Iterates
<1>4. f \in [0 .. N -> X] /\ f[0] = first /\ \A i \in 1 .. N : f[i] = G[i][f[i - 1]]
  BY <1>f DEF Iterated
<1>5. ASSUME NEW n \in 1 .. N PROVE f[n - 1] \in X /\ f[n] = HeaderEnd(o, f[n - 1])
  <2>1. f[n] = G[n][f[n - 1]] /\ f[n - 1] \in X
    BY <1>1, <1>4
  <2> QED
    BY <2>1
<1>6. TrailerList(o, p, f)
  <2>1. ASSUME NEW n \in 0 .. N PROVE f[n] = IF n = 0 THEN first ELSE HeaderEnd(o, f[n - 1])
    BY <1>1, <1>4, <1>5
  <2>2. f = [n \in 0 .. N |-> f[n]]
    BY <1>4
  <2> QED
    BY <2>1, <2>2 DEF TrailerList, N, first
<1>7. TrailerOf(o, p) = CHOOSE g : TrailerList(o, p, g)
  BY DEF TrailerOf, TrailerList
<1>8. TrailerList(o, p, T)
  BY <1>6, <1>7
<1>9. T[0] = first /\ \A n \in 1 .. N : T[n] = HeaderEnd(o, T[n - 1])
  <2> HIDE DEF T
  <2> QED
    BY <1>1, <1>8 DEF TrailerList, N, first
<1>10. Alike(N, T, f)
  BY <1>4, <1>5, <1>9 DEF Alike
<1>11. \A n \in 0 .. N : T[n] = f[n]
  <2> HIDE DEF T
  <2> QED
    BY <1>1, <1>10, Agree
<1>12. \A n \in 0 .. N : T[n] \in X
  BY <1>4, <1>11
<1>13. ASSUME NEW n \in 1 .. N PROVE T[n - 1] <= T[n]
  <2>1. T[n - 1] \in X /\ T[n] = HeaderEnd(o, T[n - 1])
    BY <1>1, <1>9, <1>12
  <2> QED
    BY <1>2, <2>1
<1> QED
  BY <1>9, <1>12, <1>13 DEF N, X, T, first

LEMMA TrailerGrows ==
  ASSUME NEW o \in Seq(Octet), NEW p \in 0 .. Len(o), NEW j \in 0 .. Len(o), NEW i \in 0 .. j
  PROVE  TrailerOf(o, p)[i] <= TrailerOf(o, p)[j]
<1> DEFINE T == TrailerOf(o, p)
           Later == {d \in Nat : i + d <= Len(o) => T[i] <= T[i + d]}
<1>1. Len(o) \in Nat /\ \A n \in 0 .. Len(o) : T[n] \in 0 .. Len(o)
  BY LenProperties, TrailerType
<1>2. \A n \in 1 .. Len(o) : T[n - 1] <= T[n]
  BY TrailerType
<1> HIDE DEF T
<1>3. 0 \in Later
  BY <1>1
<1>4. ASSUME NEW d \in Later PROVE d + 1 \in Later
  <2> SUFFICES ASSUME i + (d + 1) <= Len(o) PROVE T[i] <= T[i + (d + 1)]
    OBVIOUS
  <2> DEFINE n == i + (d + 1)
  <2>1. n \in 1 .. Len(o) /\ n - 1 = i + d /\ i + d \in 0 .. Len(o) /\ i \in 0 .. Len(o)
    BY <1>1
  <2>2. T[n - 1] <= T[n] /\ T[i] <= T[n - 1] /\ T[n] \in Nat /\ T[n - 1] \in Nat /\ T[i] \in Nat
    BY <1>1, <1>2, <2>1
  <2> HIDE DEF n
  <2>3. T[i] <= T[n]
    BY <2>2
  <2> QED
    BY <2>3 DEF n
<1>5. Later \subseteq Nat
  OBVIOUS
<1> HIDE DEF Later
<1>6. Later = Nat
  BY <1>3, <1>4, <1>5, Induction
<1> DEFINE d == j - i
<1>7. d \in Nat /\ i + d = j /\ j <= Len(o)
  BY <1>1
<1> HIDE DEF d
<1>8. i + d <= Len(o) => T[i] <= T[i + d]
  BY <1>6, <1>7 DEF Later
<1>9. T[i] <= T[j]
  BY <1>7, <1>8
<1> QED
  BY <1>9 DEF T

----------------------------------------------------------------------------
(* What a message means.                                                   *)

\* the lines of the trailer behind the n-th chunk
Lines(o, n) == TrailerOf(o, LineEnd(o, ChunksOf(o)[n].end))
TrailerLine(o, n, i) == SubSeq(o, Lines(o, n)[i] + 1, Lines(o, n)[i + 1])

LEMMA MessageType ==
  ASSUME NEW m \in Messages
  PROVE  m.octets \in Seq(Octet) /\ Len(m.octets) \in Nat /\ m.end \in Nat
<1>1. m.octets \in Seq(Octet) /\ m.end \in Nat
  BY BodyAssumption
<1> QED
  BY <1>1, LenProperties

LEMMA ChunkedMeans ==
  ASSUME NEW m \in Messages, m.framing = "chunked"
  PROVE  /\ m.end < Len(m.octets) \/ (m.end <= Len(m.octets) /\ m.entity # NoEntity) => AllOf(m.octets) # {}
         /\ \A n \in AllOf(m.octets) :
              /\ m.entity = ChunksOf(m.octets)[n].data
              /\ \A i \in 0 .. n : SizeAt(m.octets, ChunksOf(m.octets)[i].end) <= SizeMax - 2
              /\ TrailerEnds(m.octets, LineEnd(m.octets, ChunksOf(m.octets)[n].end), m.end)
<1>1. Meant(m)
  BY MeaningAssumption
<1>2. /\ m.end < Len(m.octets) => m.entity # NoEntity
      /\ m.end <= Len(m.octets) /\ m.entity # NoEntity => AllOf(m.octets) # {}
      /\ \A n \in AllOf(m.octets) :
           /\ m.entity = ChunksOf(m.octets)[n].data
           /\ \A i \in 0 .. n : SizeAt(m.octets, ChunksOf(m.octets)[i].end) <= SizeMax - 2
           /\ TrailerEnds(m.octets, LineEnd(m.octets, ChunksOf(m.octets)[n].end), m.end)
  BY <1>1 DEF Meant
<1>3. m.end < Len(m.octets) => m.end <= Len(m.octets)
  BY MessageType
<1> QED
  BY <1>2, <1>3

\* The trailer ends in time, and with it the last size line.
LEMMA TrailerInTime ==
  ASSUME NEW m \in Messages, m.framing = "chunked", NEW n \in AllOf(m.octets), NEW j \in 0 .. Len(m.octets),
         \A i \in 0 .. j - 1 : ~IsBlank(TrailerLine(m.octets, n, i))
  PROVE  /\ j + 1 \in 1 .. Len(m.octets)
         /\ Lines(m.octets, n)[j] <= Lines(m.octets, n)[j + 1] /\ Lines(m.octets, n)[j + 1] <= m.end
<1> DEFINE o == m.octets
           p == LineEnd(o, ChunksOf(o)[n].end)
           T == TrailerOf(o, p)
<1>1. o \in Seq(Octet) /\ Len(o) \in Nat /\ m.end \in Nat
  BY MessageType
<1>2. p \in 0 .. Len(o)
  <2>1. Known(o, n)
    BY DEF AllOf, Known
  <2>2. ChunksOf(o)[n].end \in 0 .. Len(o)
    BY <1>1, <2>1, KnownPiece
  <2>3. p \in ChunksOf(o)[n].end .. Len(o)
    BY <1>1, <2>2, LineIn
  <2> QED
    BY <1>1, <2>2, <2>3
<1>3. PICK b \in 1 .. Len(o) : IsBlank(SubSeq(o, T[b - 1] + 1, T[b])) /\ T[b] <= m.end
  BY ChunkedMeans DEF TrailerEnds
<1>4. j < b
  <2> SUFFICES ASSUME ~(j < b) PROVE FALSE
    OBVIOUS
  <2>1. b - 1 \in 0 .. j - 1 /\ b - 1 + 1 = b
    BY <1>1
  <2>2. TrailerLine(o, n, b - 1) = SubSeq(o, T[b - 1] + 1, T[b])
    BY <2>1 DEF TrailerLine, Lines
  <2> QED
    BY <1>3, <2>1, <2>2
<1>5. j + 1 \in 0 .. b /\ b \in 0 .. Len(o) /\ j \in 0 .. j + 1 /\ j + 1 \in 1 .. Len(o) /\ j + 1 \in 0 .. Len(o)
  BY <1>1, <1>4
<1> HIDE DEF p, o
<1>6. T[j] <= T[j + 1] /\ T[j + 1] <= T[b] /\ T[j + 1] \in Nat /\ T[b] \in Nat
  <2>1. T[j] <= T[j + 1]
    BY <1>1, <1>2, <1>5, TrailerGrows
  <2>2. T[j + 1] <= T[b]
    BY <1>1, <1>2, <1>5, TrailerGrows
  <2>3. T[j + 1] \in 0 .. Len(o) /\ T[b] \in 0 .. Len(o)
    BY <1>1, <1>2, <1>5, TrailerType
  <2> HIDE DEF T
  <2> QED
    BY <1>1, <2>1, <2>2, <2>3
<1>7. T[j + 1] <= m.end
  <2> HIDE DEF T
  <2> QED
    BY <1>1, <1>3, <1>6
<1> QED
  BY <1>5, <1>6, <1>7 DEF Lines, p, o

\* A chunk is read in time, and those of a whole message are whole chunks.
LEMMA ChunkInTime ==
  ASSUME NEW m \in Messages, m.framing = "chunked", NEW k, Known(m.octets, k)
  PROVE  LET o == m.octets
             from == LineEnd(o, ChunksOf(o)[k].end)
             size == SizeAt(o, ChunksOf(o)[k].end)
         IN  /\ from <= m.end
             /\ size \in Nat \ {0} => \A p \in 0 .. Len(o) : p <= from + size + 2 => p <= m.end
             /\ AllOf(o) # {} => size \in 0 .. SizeMax - 2 /\ (size # 0 => ChunkAt(o, ChunksOf(o)[k].end))
<1> DEFINE o == m.octets
           from == LineEnd(o, ChunksOf(o)[k].end)
           size == SizeAt(o, ChunksOf(o)[k].end)
<1>1. o \in Seq(Octet) /\ Len(o) \in Nat /\ m.end \in Nat
  BY MessageType
<1>2. ChunksOf(o)[k].end \in 0 .. Len(o) /\ k \in 0 .. Len(o)
  BY <1>1, KnownPiece
<1>3. from \in ChunksOf(o)[k].end .. Len(o) /\ size \in Nat \cup {Invalid}
  BY <1>1, <1>2, LineIn
<1>4. CASE AllOf(o) = {}
  <2>1. Len(o) <= m.end
    BY <1>1, <1>4, ChunkedMeans
  <2> HIDE DEF o, from, size
  <2> QED
    BY <1>1, <1>2, <1>3, <1>4, <2>1 DEF o, from, size
<1>5. CASE AllOf(o) # {}
  <2>1. PICK n : n \in AllOf(o)
    BY <1>5
  <2> DEFINE last == LineEnd(o, ChunksOf(o)[n].end)
  <2>2. Known(o, n) /\ SizeAt(o, ChunksOf(o)[n].end) = 0 /\ k <= n
    BY <1>1, <2>1, UpToLast
  <2>3. n \in 0 .. Len(o) /\ ChunksOf(o)[n].end \in 0 .. Len(o)
    BY <1>1, <2>2, KnownPiece
  <2>4. last \in ChunksOf(o)[n].end .. Len(o)
    BY <1>1, <2>3, LineIn
  <2>5. last <= m.end
    <3>1. 0 \in 0 .. Len(o) /\ \A i \in 0 .. 0 - 1 : ~IsBlank(TrailerLine(o, n, i))
      BY <1>1
    <3>2. Lines(o, n)[0] <= Lines(o, n)[0 + 1] /\ Lines(o, n)[0 + 1] <= m.end /\ 0 + 1 \in 1 .. Len(o)
      BY <2>1, <3>1, TrailerInTime
    <3>3. last \in 0 .. Len(o)
      BY <1>1, <2>3, <2>4
    <3>4. Lines(o, n)[0] = last /\ \A i \in 0 .. Len(o) : Lines(o, n)[i] \in 0 .. Len(o)
      BY <1>1, <3>3, TrailerType DEF Lines
    <3>5. 0 + 1 \in 0 .. Len(o) /\ 0 \in 0 .. Len(o)
      BY <1>1, <3>2
    <3>6. Lines(o, n)[0 + 1] \in Nat /\ Lines(o, n)[0] \in Nat
      BY <1>1, <3>4, <3>5
    <3> HIDE DEF last
    <3> QED
      BY <1>1, <3>2, <3>4, <3>6
  <2>6. /\ from <= last
        /\ k # n => ChunkAt(o, ChunksOf(o)[k].end) /\ from + size + 2 <= last
    BY <1>1, <2>1, BeforeLast
  <2>7. k = n => size = 0
    BY <2>2
  <2>8. size <= SizeMax - 2
    <3>1. k \in 0 .. n
      BY <1>1, <1>2, <2>2, <2>3
    <3> QED
      BY <2>1, <3>1, ChunkedMeans
  <2>9. size # Invalid
    BY <2>6, <2>7 DEF ChunkAt, Invalid
  <2> HIDE DEF o, from, size, last
  <2>10. from <= m.end
    BY <1>1, <1>2, <1>3, <2>3, <2>4, <2>5, <2>6
  <2>11. ASSUME size \in Nat \ {0}, NEW p \in 0 .. Len(o), p <= from + size + 2 PROVE p <= m.end
    BY <1>1, <1>2, <1>3, <2>3, <2>4, <2>5, <2>6, <2>7, <2>11
  <2>12. size \in 0 .. SizeMax - 2
    BY <1>3, <2>8, <2>9, BodyAssumption
  <2> QED
    BY <2>6, <2>7, <2>10, <2>11, <2>12 DEF o, from, size
<1> QED
  BY <1>4, <1>5

----------------------------------------------------------------------------
(* What has been handed out.                                               *)

LEMMA Associative ==
  ASSUME NEW a \in Seq(Octet), NEW b \in Seq(Octet), NEW c \in Seq(Octet)
  PROVE  (a \o b) \o c = a \o (b \o c)
BY ConcatAssociative

LEMMA JoinServe ==
  ASSUME NEW h \in Seq(Octet), NEW b \in Seq(Octet), NEW c \in Octet
  PROVE  Append(b, c) \in Seq(Octet) /\ h \o Append(b, c) = (h \o b) \o <<c>>
<1>1. Append(b, c) = b \o <<c>> /\ Append(b, c) \in Seq(Octet)
  BY AppendIsConcat, AppendProperties
<1>2. <<c>> \in Seq(Octet)
  OBVIOUS
<1>3. (h \o b) \o <<c>> = h \o (b \o <<c>>)
  BY <1>2, Associative
<1> QED
  BY <1>1, <1>3

LEMMA JoinReturn ==
  ASSUME NEW h \in Seq(Octet), NEW b \in Seq(Octet)
  PROVE  h \o b \in Seq(Octet) /\ (h \o b) \o <<>> = h \o b
<1>1. h \o b \in Seq(Octet)
  BY ConcatProperties
<1> QED
  BY <1>1, ConcatEmptySeq

LEMMA PieceGrows ==
  ASSUME NEW o \in Seq(Octet), NEW x \in Seq(Octet), NEW f \in 0 .. Len(o), NEW p \in f .. Len(o), p < Len(o)
  PROVE  /\ (x \o SubSeq(o, f + 1, p)) \o <<o[p + 1]>> = x \o SubSeq(o, f + 1, p + 1)
         /\ o[p + 1] \in Octet
<1>1. Len(o) \in Nat
  BY LenProperties
<1>2. p + 1 \in 1 .. Len(o) /\ f + 1 \in 1 .. Len(o) /\ p + 1 \in f + 1 .. Len(o) /\ (p + 1) - 1 = p
  BY <1>1
<1>3. SubSeq(o, f + 1, p + 1) = SubSeq(o, f + 1, (p + 1) - 1) \o <<o[p + 1]>>
  BY <1>2, SubSeqRecursiveSecond
<1>4. o[p + 1] \in Octet /\ SubSeq(o, f + 1, p) \in Seq(Octet) /\ <<o[p + 1]>> \in Seq(Octet)
  <2>1. o[p + 1] \in Octet
    BY <1>2, ElementOfSeq
  <2>2. SubSeq(o, f + 1, p) \in Seq(Octet)
    BY PieceIn
  <2> QED
    BY <2>1, <2>2
<1>5. (x \o SubSeq(o, f + 1, p)) \o <<o[p + 1]>> = x \o (SubSeq(o, f + 1, p) \o <<o[p + 1]>>)
  BY <1>4, Associative
<1> QED
  BY <1>2, <1>3, <1>4, <1>5

----------------------------------------------------------------------------
(* Where the decoding reader is: at place p of o, with n octets of a chunk *)
(* left, when it has handed out d.                                         *)

BetweenChunks(o, p, d) ==
  \E k : Known(o, k) /\ p = ChunksOf(o)[k].end /\ d = ChunksOf(o)[k].data

InChunk(o, p, n, d) ==
  \E k : LET from == LineEnd(o, ChunksOf(o)[k].end)
             size == SizeAt(o, ChunksOf(o)[k].end)
         IN  /\ Known(o, k) /\ size \in Nat \ {0} /\ n \in 1 .. size
             /\ p = from + (size - n) /\ p <= Len(o)
             /\ d = ChunksOf(o)[k].data \o SubSeq(o, from + 1, p)

BehindChunks(o, p, d) ==
  \E n \in AllOf(o) : p = LineEnd(o, ChunksOf(o)[n].end) /\ d = ChunksOf(o)[n].data

LEMMA BetweenFacts ==
  ASSUME NEW m \in Messages, m.framing = "chunked", NEW p, NEW d, BetweenChunks(m.octets, p, d)
  PROVE  LET o == m.octets
             size == SizeAt(o, p)
         IN  /\ p \in 0 .. Len(o) /\ d \in Seq(Octet)
             /\ LineEnd(o, p) \in 0 .. Len(o) /\ LineEnd(o, p) <= m.end
             /\ AllOf(o) # {} => size \in 0 .. SizeMax - 2
             /\ size = 0 => BehindChunks(o, LineEnd(o, p), d)
             /\ size \in Nat \ {0} => InChunk(o, LineEnd(o, p), size, d)
<1> DEFINE o == m.octets
           C == ChunksOf(o)
           from == LineEnd(o, p)
           size == SizeAt(o, p)
<1>1. PICK k : Known(o, k) /\ p = C[k].end /\ d = C[k].data
  BY DEF BetweenChunks
<1>2. o \in Seq(Octet) /\ Len(o) \in Nat /\ m.end \in Nat
  BY MessageType
<1>3. k \in 0 .. Len(o) /\ p \in 0 .. Len(o) /\ d \in Seq(Octet)
  BY <1>1, <1>2, KnownPiece
<1>4. from \in p .. Len(o)
  BY <1>2, <1>3, LineIn
<1>5. from <= m.end /\ (AllOf(o) # {} => size \in 0 .. SizeMax - 2)
  BY <1>1, ChunkInTime
<1>6. ASSUME size = 0 PROVE BehindChunks(o, from, d)
  <2>1. k \in AllOf(o)
    BY <1>1, <1>6 DEF AllOf, Known
  <2> QED
    BY <1>1, <2>1 DEF BehindChunks
<1>7. ASSUME size \in Nat \ {0} PROVE InChunk(o, from, size, d)
  <2>1. size \in 1 .. size /\ from = from + (size - size) /\ from <= Len(o)
    BY <1>2, <1>3, <1>4, <1>7
  <2>2. SubSeq(o, from + 1, from) = <<>>
    BY <1>2, <1>3, <1>4, SubSeqEmpty
  <2>3. d = C[k].data \o SubSeq(o, from + 1, from)
    BY <1>1, <1>3, <2>2, ConcatEmptySeq
  <2> QED
    BY <1>1, <1>7, <2>1, <2>3 DEF InChunk
<1> QED
  BY <1>2, <1>3, <1>4, <1>5, <1>6, <1>7

LEMMA ChunkFacts ==
  ASSUME NEW m \in Messages, m.framing = "chunked", NEW p, NEW n, NEW d, InChunk(m.octets, p, n, d)
  PROVE  LET o == m.octets
             more == d \o <<o[p + 1]>>
         IN  /\ n \in Nat \ {0} /\ p \in 0 .. Len(o) /\ d \in Seq(Octet)
             /\ \A q \in 0 .. Len(o) : q <= p + 3 /\ (n # 1 => q <= p + 1) => q <= m.end
             /\ AllOf(o) # {} => p < Len(o) /\ (n = 1 => p + 3 <= Len(o) /\ o[p + 2] = "r" /\ o[p + 3] = "n")
             /\ p < Len(o) => o[p + 1] \in Octet
             /\ p < Len(o) /\ n # 1 => InChunk(o, p + 1, n - 1, more)
             /\ p + 3 <= Len(o) /\ n = 1 /\ o[p + 2] = "r" /\ o[p + 3] = "n" => BetweenChunks(o, p + 3, more)
<1> DEFINE o == m.octets
           C == ChunksOf(o)
           more == d \o <<o[p + 1]>>
<1>1. PICK k : LET from == LineEnd(o, C[k].end)
                   size == SizeAt(o, C[k].end)
               IN  /\ Known(o, k) /\ size \in Nat \ {0} /\ n \in 1 .. size
                   /\ p = from + (size - n) /\ p <= Len(o)
                   /\ d = C[k].data \o SubSeq(o, from + 1, p)
  BY DEF InChunk
<1> DEFINE from == LineEnd(o, C[k].end)
           size == SizeAt(o, C[k].end)
<1>2. o \in Seq(Octet) /\ Len(o) \in Nat /\ m.end \in Nat
  BY MessageType
<1>3. C[k].end \in 0 .. Len(o) /\ C[k].data \in Seq(Octet)
  BY <1>1, <1>2, KnownPiece
<1>4. from \in 0 .. Len(o)
  <2>1. from \in C[k].end .. Len(o)
    BY <1>2, <1>3, LineIn
  <2> QED
    BY <1>2, <1>3, <2>1
<1>5. /\ Known(o, k) /\ size \in Nat \ {0} /\ n \in 1 .. size
      /\ p = from + (size - n) /\ p <= Len(o)
      /\ d = C[k].data \o SubSeq(o, from + 1, p)
  BY <1>1
<1>6. /\ \A q \in 0 .. Len(o) : q <= from + size + 2 => q <= m.end
      /\ AllOf(o) # {} => ChunkAt(o, C[k].end)
  BY <1>5, ChunkInTime
<1>7. ChunkAt(o, C[k].end) <=> from + size + 2 <= Len(o) /\ o[from + size + 1] = "r" /\ o[from + size + 2] = "n"
  BY <1>5 DEF ChunkAt
<1>8. ChunkAt(o, C[k].end) =>
        /\ Known(o, k + 1) /\ C[k + 1].end = from + size + 2
        /\ C[k + 1].data = C[k].data \o SubSeq(o, from + 1, from + size)
  BY <1>2, <1>5, NextOne
<1> HIDE DEF from, size
<1>9. n \in Nat \ {0} /\ p \in from .. Len(o) /\ p \in 0 .. Len(o) /\ p + n = from + size
  BY <1>2, <1>4, <1>5
<1>10. n = 1 => p + 1 = from + size /\ p + 2 = from + size + 1 /\ p + 3 = from + size + 2
  BY <1>4, <1>5, <1>9
<1>11. d \in Seq(Octet)
  <2>1. SubSeq(o, from + 1, p) \in Seq(Octet)
    BY <1>2, <1>4, <1>9, PieceIn
  <2> QED
    BY <1>3, <1>5, <2>1, ConcatProperties
<1>12. \A q \in 0 .. Len(o) : q <= p + 3 /\ (n # 1 => q <= p + 1) => q <= m.end
  <2>1. ASSUME NEW q \in 0 .. Len(o), q <= p + 3, n # 1 => q <= p + 1 PROVE q <= from + size + 2
    BY <1>2, <1>4, <1>5, <1>9, <1>10, <2>1
  <2> QED
    BY <1>6, <2>1
<1>13. AllOf(o) # {} => p < Len(o) /\ (n = 1 => p + 3 <= Len(o) /\ o[p + 2] = "r" /\ o[p + 3] = "n")
  <2> SUFFICES ASSUME AllOf(o) # {}
               PROVE  p < Len(o) /\ (n = 1 => p + 3 <= Len(o) /\ o[p + 2] = "r" /\ o[p + 3] = "n")
    OBVIOUS
  <2>1. from + size + 2 <= Len(o) /\ o[from + size + 1] = "r" /\ o[from + size + 2] = "n"
    BY <1>6, <1>7
  <2>2. p < Len(o)
    BY <1>2, <1>4, <1>5, <1>9, <2>1
  <2> QED
    BY <1>10, <2>1, <2>2
<1>14. ASSUME p < Len(o)
       PROVE  /\ o[p + 1] \in Octet
              /\ more = C[k].data \o SubSeq(o, from + 1, p + 1)
  BY <1>2, <1>3, <1>4, <1>5, <1>9, <1>14, PieceGrows
<1>15. ASSUME p < Len(o), n # 1 PROVE InChunk(o, p + 1, n - 1, more)
  <2>1. n - 1 \in 1 .. size /\ p + 1 = from + (size - (n - 1)) /\ p + 1 <= Len(o)
    BY <1>2, <1>4, <1>5, <1>9, <1>15
  <2> QED
    BY <1>5, <1>14, <1>15, <2>1 DEF InChunk, from, size
<1>16. ASSUME p + 3 <= Len(o), n = 1, o[p + 2] = "r", o[p + 3] = "n" PROVE BetweenChunks(o, p + 3, more)
  <2>1. ChunkAt(o, C[k].end)
    BY <1>7, <1>10, <1>16
  <2>2. p < Len(o)
    BY <1>2, <1>9, <1>16
  <2>3. more = C[k].data \o SubSeq(o, from + 1, from + size)
    BY <1>10, <1>14, <1>16, <2>2
  <2> QED
    BY <1>8, <1>10, <1>16, <2>1, <2>3 DEF BetweenChunks
<1> QED
  BY <1>9, <1>11, <1>12, <1>13, <1>14, <1>15, <1>16

LEMMA BehindFacts ==
  ASSUME NEW m \in Messages, m.framing = "chunked", NEW p, NEW d, BehindChunks(m.octets, p, d)
  PROVE  p \in 0 .. Len(m.octets) /\ p <= m.end /\ d \in Seq(Octet) /\ d = m.entity
<1> DEFINE o == m.octets
<1>1. PICK n \in AllOf(o) : p = LineEnd(o, ChunksOf(o)[n].end) /\ d = ChunksOf(o)[n].data
  BY DEF BehindChunks
<1>2. o \in Seq(Octet) /\ Len(o) \in Nat
  BY MessageType
<1>3. Known(o, n)
  BY DEF AllOf, Known
<1>4. ChunksOf(o)[n].end \in 0 .. Len(o) /\ d \in Seq(Octet)
  BY <1>1, <1>2, <1>3, KnownPiece
<1>5. p \in ChunksOf(o)[n].end .. Len(o)
  BY <1>1, <1>2, <1>4, LineIn
<1>6. p \in 0 .. Len(o)
  BY <1>2, <1>4, <1>5
<1>7. p <= m.end
  BY <1>1, <1>3, ChunkInTime
<1>8. d = m.entity
  BY <1>1, ChunkedMeans
<1> QED
  BY <1>4, <1>6, <1>7, <1>8

----------------------------------------------------------------------------
(* Where the reader is that passes on what it reads: at place p of o, with *)
(* a line of it in its buffer or n octets of a chunk left.                 *)

AtChunk(o, p) == \E k : Known(o, k) /\ p = ChunksOf(o)[k].end

InLine(o, p, line) ==
  \E k : /\ Known(o, k) /\ p = LineEnd(o, ChunksOf(o)[k].end)
         /\ line = Line(o, ChunksOf(o)[k].end) /\ Len(line) >= 2

InData(o, p, n) ==
  \E k : LET from == LineEnd(o, ChunksOf(o)[k].end)
             size == SizeAt(o, ChunksOf(o)[k].end)
         IN  Known(o, k) /\ size \in Nat \ {0} /\ n \in 1 .. size + 2 /\ p = from + (size + 2 - n)

\* j lines of the trailer behind the n-th chunk, none of them blank
NoBlank(o, n, j) == j \in 0 .. Len(o) /\ \A i \in 0 .. j - 1 : ~IsBlank(TrailerLine(o, n, i))

InTrailer(o, p) == \E n \in AllOf(o) : \E j : NoBlank(o, n, j) /\ p = Lines(o, n)[j]

InTrailerLine(o, p, line) ==
  \E n \in AllOf(o) : \E j :
    NoBlank(o, n, j) /\ p = Lines(o, n)[j + 1] /\ line = TrailerLine(o, n, j) /\ line # <<>>

LEMMA AtChunkFacts ==
  ASSUME NEW m \in Messages, m.framing = "chunked", AllOf(m.octets) # {}, NEW p, AtChunk(m.octets, p)
  PROVE  LET o == m.octets
         IN  /\ LineEnd(o, p) \in 0 .. Len(o) /\ LineEnd(o, p) <= m.end
             /\ Len(Line(o, p)) >= 2 /\ InLine(o, LineEnd(o, p), Line(o, p))
<1> DEFINE o == m.octets
<1>1. PICK k : Known(o, k) /\ p = ChunksOf(o)[k].end
  BY DEF AtChunk
<1>2. o \in Seq(Octet) /\ Len(o) \in Nat /\ m.end \in Nat
  BY MessageType
<1>3. p \in 0 .. Len(o)
  BY <1>1, <1>2, KnownPiece
<1>4. LineEnd(o, p) \in p .. Len(o)
  BY <1>2, <1>3, LineIn
<1>5. LineEnd(o, p) <= m.end /\ SizeAt(o, p) \in 0 .. SizeMax - 2
  BY <1>1, ChunkInTime
<1>6. SizeAt(o, p) # Invalid
  BY <1>5 DEF Invalid
<1>7. Len(Line(o, p)) \in Nat
  BY <1>2, <1>3, LineIn, LenProperties
<1>8. Len(Line(o, p)) >= 2
  BY <1>6, <1>7 DEF SizeAt
<1>9. InLine(o, LineEnd(o, p), Line(o, p))
  BY <1>1, <1>8 DEF InLine
<1> QED
  BY <1>2, <1>3, <1>4, <1>5, <1>8, <1>9

LEMMA InLineFacts ==
  ASSUME NEW m \in Messages, m.framing = "chunked", AllOf(m.octets) # {}, NEW p, NEW line, InLine(m.octets, p, line)
  PROVE  /\ line # <<>> /\ Len(line) \in Nat
         /\ ChunkSize(line) \in 0 .. SizeMax - 2
         /\ IF ChunkSize(line) = 0 THEN InTrailer(m.octets, p) ELSE InData(m.octets, p, ChunkSize(line) + 2)
<1> DEFINE o == m.octets
<1>1. PICK k : /\ Known(o, k) /\ p = LineEnd(o, ChunksOf(o)[k].end)
               /\ line = Line(o, ChunksOf(o)[k].end) /\ Len(line) >= 2
  BY DEF InLine
<1> DEFINE q == ChunksOf(o)[k].end
           size == SizeAt(o, q)
<1>2. o \in Seq(Octet) /\ Len(o) \in Nat
  BY MessageType
<1>3. q \in 0 .. Len(o)
  BY <1>1, <1>2, KnownPiece
<1>4. p \in q .. Len(o) /\ line \in Seq(Octet)
  BY <1>1, <1>2, <1>3, LineIn
<1>5. Len(line) \in Nat /\ line # <<>>
  BY <1>1, <1>4, LenProperties
<1>6. size \in 0 .. SizeMax - 2
  BY <1>1, ChunkInTime
<1>7. size = Announced(line)
  <2>1. ~(Len(line) < 2)
    BY <1>1, <1>5
  <2> QED
    BY <1>1, <2>1 DEF SizeAt
<1>8. ChunkSize(line) = size
  <2>1. size # Invalid /\ size <= SizeMax
    BY <1>6, BodyAssumption DEF Invalid
  <2> QED
    BY <1>5, <1>7, <2>1, SizeRead
<1>9. ASSUME size = 0 PROVE InTrailer(o, p)
  <2>1. k \in AllOf(o)
    BY <1>1, <1>9 DEF AllOf, Known
  <2>2. p \in 0 .. Len(o)
    BY <1>2, <1>3, <1>4
  <2>3. Lines(o, k)[0] = p
    BY <1>1, <1>2, <2>2, TrailerType DEF Lines
  <2>4. NoBlank(o, k, 0)
    BY <1>2 DEF NoBlank
  <2> QED
    BY <2>1, <2>3, <2>4 DEF InTrailer
<1>10. ASSUME size # 0 PROVE InData(o, p, size + 2)
  <2>1. size \in Nat \ {0} /\ size + 2 \in 1 .. size + 2 /\ p = p + (size + 2 - (size + 2))
    BY <1>2, <1>3, <1>4, <1>6, <1>10
  <2> QED
    BY <1>1, <2>1 DEF InData
<1> QED
  BY <1>5, <1>6, <1>8, <1>9, <1>10

LEMMA InDataFacts ==
  ASSUME NEW m \in Messages, m.framing = "chunked", AllOf(m.octets) # {}, NEW p, NEW n, InData(m.octets, p, n)
  PROVE  /\ p \in 0 .. Len(m.octets) /\ p + 1 \in 0 .. Len(m.octets) /\ p + 1 <= m.end /\ n \in Nat \ {0}
         /\ IF n = 1 THEN AtChunk(m.octets, p + 1) ELSE InData(m.octets, p + 1, n - 1)
<1> DEFINE o == m.octets
           C == ChunksOf(o)
<1>1. PICK k : LET from == LineEnd(o, C[k].end)
                   size == SizeAt(o, C[k].end)
               IN  Known(o, k) /\ size \in Nat \ {0} /\ n \in 1 .. size + 2 /\ p = from + (size + 2 - n)
  BY DEF InData
<1> DEFINE from == LineEnd(o, C[k].end)
           size == SizeAt(o, C[k].end)
<1>2. o \in Seq(Octet) /\ Len(o) \in Nat /\ m.end \in Nat
  BY MessageType
<1>3. C[k].end \in 0 .. Len(o)
  BY <1>1, <1>2, KnownPiece
<1>4. from \in C[k].end .. Len(o)
  BY <1>2, <1>3, LineIn
<1>5. Known(o, k) /\ size \in Nat \ {0} /\ n \in 1 .. size + 2 /\ p = from + (size + 2 - n)
  BY <1>1
<1>6. ChunkAt(o, C[k].end) /\ \A q \in 0 .. Len(o) : q <= from + size + 2 => q <= m.end
  BY <1>5, ChunkInTime
<1>7. from + size + 2 <= Len(o)
  BY <1>6 DEF ChunkAt
<1>8. Known(o, k + 1) /\ C[k + 1].end = from + size + 2
  BY <1>2, <1>5, <1>6, NextOne
<1> HIDE DEF from, size
<1>9. /\ n \in Nat \ {0} /\ p \in 0 .. Len(o) /\ p + 1 \in 0 .. Len(o) /\ p + 1 <= from + size + 2
      /\ n = 1 => p + 1 = from + size + 2
      /\ n # 1 => n - 1 \in 1 .. size + 2 /\ p + 1 = from + (size + 2 - (n - 1))
  <2>1. from \in Nat /\ size \in Nat /\ n \in Nat \ {0} /\ n <= size + 2 /\ p = from + (size + 2 - n)
    BY <1>2, <1>3, <1>4, <1>5
  <2>2. p \in Nat /\ p + n = from + size + 2
    BY <2>1
  <2>3. p + 1 <= from + size + 2 /\ p + 1 <= Len(o)
    BY <1>2, <1>7, <2>1, <2>2
  <2>4. n # 1 => n - 1 \in 1 .. size + 2 /\ p + 1 = from + (size + 2 - (n - 1))
    BY <2>1
  <2>5. n = 1 => p + 1 = from + size + 2
    BY <2>1
  <2> QED
    BY <1>2, <2>1, <2>2, <2>3, <2>4, <2>5
<1>10. p + 1 <= m.end
  BY <1>6, <1>9
<1>11. n = 1 => AtChunk(o, p + 1)
  BY <1>8, <1>9 DEF AtChunk
<1>12. n # 1 => InData(o, p + 1, n - 1)
  BY <1>5, <1>9 DEF InData, from, size
<1> QED
  BY <1>9, <1>10, <1>11, <1>12

LEMMA InTrailerFacts ==
  ASSUME NEW m \in Messages, m.framing = "chunked", NEW p, InTrailer(m.octets, p)
  PROVE  LET o == m.octets
             q == HeaderEnd(o, p)
         IN  /\ q \in 0 .. Len(o) /\ q <= m.end
             /\ SubSeq(o, p + 1, q) # <<>> => InTrailerLine(o, q, SubSeq(o, p + 1, q))
<1> DEFINE o == m.octets
           q == HeaderEnd(o, p)
<1>1. PICK n \in AllOf(o) : \E j : NoBlank(o, n, j) /\ p = Lines(o, n)[j]
  BY DEF InTrailer
<1>2. PICK j : NoBlank(o, n, j) /\ p = Lines(o, n)[j]
  BY <1>1
<1>3. j \in 0 .. Len(o) /\ \A i \in 0 .. j - 1 : ~IsBlank(TrailerLine(o, n, i))
  BY <1>2 DEF NoBlank
<1>4. j + 1 \in 1 .. Len(o) /\ Lines(o, n)[j + 1] <= m.end
  BY <1>3, TrailerInTime
<1>5. o \in Seq(Octet) /\ Len(o) \in Nat /\ m.end \in Nat
  BY MessageType
<1>6. LineEnd(o, ChunksOf(o)[n].end) \in 0 .. Len(o)
  <2>1. Known(o, n)
    BY DEF AllOf, Known
  <2>2. ChunksOf(o)[n].end \in 0 .. Len(o)
    BY <1>5, <2>1, KnownPiece
  <2>3. LineEnd(o, ChunksOf(o)[n].end) \in ChunksOf(o)[n].end .. Len(o)
    BY <1>5, <2>2, LineIn
  <2> QED
    BY <1>5, <2>2, <2>3
<1> DEFINE i == j + 1
<1>7. i \in 1 .. Len(o) /\ i \in 0 .. Len(o) /\ i - 1 = j
  BY <1>3, <1>4, <1>5
<1> HIDE DEF i
<1>8. Lines(o, n)[i] = HeaderEnd(o, Lines(o, n)[i - 1]) /\ Lines(o, n)[i] \in 0 .. Len(o)
  BY <1>5, <1>6, <1>7, TrailerType DEF Lines
<1>9. q = Lines(o, n)[j + 1] /\ q \in 0 .. Len(o)
  BY <1>2, <1>7, <1>8 DEF i
<1>10. SubSeq(o, p + 1, q) = TrailerLine(o, n, j)
  BY <1>2, <1>9 DEF TrailerLine
<1>11. SubSeq(o, p + 1, q) # <<>> => InTrailerLine(o, q, SubSeq(o, p + 1, q))
  BY <1>2, <1>9, <1>10 DEF InTrailerLine
<1> QED
  BY <1>4, <1>9, <1>11

LEMMA InTrailerLineFacts ==
  ASSUME NEW m \in Messages, m.framing = "chunked", NEW p, NEW line, InTrailerLine(m.octets, p, line)
  PROVE  line # <<>> /\ (~IsBlank(line) => InTrailer(m.octets, p))
<1> DEFINE o == m.octets
<1>1. PICK n \in AllOf(o) :
        \E j : NoBlank(o, n, j) /\ p = Lines(o, n)[j + 1] /\ line = TrailerLine(o, n, j) /\ line # <<>>
  BY DEF InTrailerLine
<1>2. PICK j : NoBlank(o, n, j) /\ p = Lines(o, n)[j + 1] /\ line = TrailerLine(o, n, j) /\ line # <<>>
  BY <1>1
<1>3. j \in 0 .. Len(o) /\ \A i \in 0 .. j - 1 : ~IsBlank(TrailerLine(o, n, i))
  BY <1>2 DEF NoBlank
<1>4. j + 1 \in 1 .. Len(o) /\ Len(o) \in Nat
  BY <1>3, TrailerInTime, MessageType
<1>5. ASSUME ~IsBlank(line) PROVE InTrailer(o, p)
  <2>1. ASSUME NEW i \in 0 .. (j + 1) - 1 PROVE ~IsBlank(TrailerLine(o, n, i))
    <3>1. i \in 0 .. j - 1 \/ i = j
      BY <1>3, <1>4
    <3> QED
      BY <1>2, <1>3, <1>5, <3>1
  <2>2. j + 1 \in 0 .. Len(o)
    BY <1>3, <1>4
  <2>3. NoBlank(o, n, j + 1)
    BY <2>1, <2>2 DEF NoBlank
  <2> QED
    BY <1>2, <2>3 DEF InTrailer
<1> QED
  BY <1>2, <1>5

----------------------------------------------------------------------------
(* The invariant, of a message whose head says of the body what the sender *)
(* meant.                                                                  *)

\* such a message may be refused
Refusable == message.entity = NoEntity \/ Len(octets) < message.end

Decoded == handed \o s

DecodeMeant ==
  \/ /\ chunked_body_state = "CHUNK_SIZE"
     /\ \/ bytes_remaining = 0 /\ BetweenChunks(octets, at, Decoded)
        \/ InChunk(octets, at, bytes_remaining, Decoded)
  \/ chunked_body_state = "DONE" /\ BehindChunks(octets, at, Decoded)

RawMeant ==
  \/ chunked_body_state = "CHUNK_SIZE" /\ chunk_buffer = <<>> /\ AtChunk(octets, at)
  \/ chunked_body_state = "CHUNK_SIZE" /\ InLine(octets, at, chunk_buffer)
  \/ chunked_body_state = "CHUNK_DATA" /\ chunk_buffer = <<>> /\ InData(octets, at, bytes_remaining)
  \/ chunked_body_state = "TRAILER" /\ chunk_buffer = <<>> /\ InTrailer(octets, at)
  \/ chunked_body_state = "TRAILER" /\ InTrailerLine(octets, at, chunk_buffer)
  \/ chunked_body_state = "DONE"

PlainMeant ==
  /\ decode => Decoded = SubSeq(octets, 1, at)
  /\ has_content_length =>
       message.framing = "length" /\ bytes_remaining = message.end - at /\ message.end <= SizeMax
  /\ ~has_content_length => Len(octets) <= message.end

\* the body is read the way its sender marked its end
ReadingMeant ==
  IF message.framing = "chunked"
  THEN is_chunked /\ IF decode THEN DecodeMeant ELSE AllOf(octets) # {} => RawMeant
  ELSE ~is_chunked /\ PlainMeant

MeantPlace == at \in 0 .. Len(octets) /\ at <= message.end
MeantTypes == decode => handed \in Seq(Octet) /\ s \in Seq(Octet)
MeantBad == result = "bad" => Refusable
MeantComplete == decode /\ result = "complete" /\ ~Short => handed = message.entity
MeantReading == result = "reading" => ReadingMeant

MeantOK == MeantPlace /\ MeantTypes /\ BeforeOK /\ MeantBad /\ MeantComplete /\ MeantReading

MeantInv == HeadMeant => MeantOK

LEMMA MeantInit ==
  Init => MeantInv
<1> SUFFICES ASSUME Init PROVE MeantOK
  BY DEF MeantInv
<1>1. HeadOK
  BY DEF Init, HeadOK
<1>2. octets \in Seq(Octet) /\ Len(octets) \in Nat /\ message.end \in Nat
  BY <1>1, OctetsType, BodyAssumption DEF HeadOK
<1>3. at = 0 /\ handed = <<>> /\ s = <<>> /\ result = "head"
  BY DEF Init
<1>4. MeantPlace /\ MeantTypes
  BY <1>2, <1>3 DEF MeantPlace, MeantTypes
<1>5. BeforeOK /\ MeantBad /\ MeantComplete /\ MeantReading
  BY <1>3 DEF Init, BeforeOK, MeantBad, MeantComplete, MeantReading
<1> QED
  BY <1>4, <1>5 DEF MeantOK

\* Without a last chunk, a message may be refused.
LEMMA CutOff ==
  ASSUME HeadOK, message.framing = "chunked", AllOf(octets) = {}
  PROVE  Refusable /\ Len(octets) <= message.end
<1>1. message \in Messages
  BY DEF HeadOK
<1>2. Len(message.octets) \in Nat /\ message.end \in Nat
  BY <1>1, MessageType
<1>3. ~(message.end < Len(message.octets) \/ (message.end <= Len(message.octets) /\ message.entity # NoEntity))
  BY <1>1, ChunkedMeans DEF octets
<1> QED
  BY <1>2, <1>3 DEF Refusable, octets

----------------------------------------------------------------------------
(* How a step ends that keeps it. *)

LEMMA MeantGoesOn ==
  ASSUME octets' = octets, message' = message, result' = "reading",
         at' \in 0 .. Len(octets), at' <= message.end, MeantTypes', ReadingMeant'
  PROVE  MeantOK'
<1>1. MeantPlace'
  BY DEF MeantPlace
<1>2. BeforeOK' /\ MeantBad' /\ MeantComplete' /\ MeantReading'
  BY DEF BeforeOK, MeantBad, MeantComplete, MeantReading
<1> QED
  BY <1>1, <1>2 DEF MeantOK

LEMMA MeantFails ==
  ASSUME MeantOK, octets' = octets, message' = message, decode' = decode,
         at' \in 0 .. Len(octets), at' <= message.end,
         NEW how, Fail(how), how \in {"bad", "error"}, how = "bad" => Refusable
  PROVE  MeantOK'
<1>1. result' = how /\ s' = <<>> /\ handed' = handed
  BY DEF Fail
<1>2. MeantPlace'
  BY DEF MeantPlace
<1>3. MeantTypes'
  BY <1>1 DEF MeantTypes, MeantOK
<1>4. MeantBad'
  BY <1>1 DEF MeantBad, Refusable
<1>5. BeforeOK' /\ MeantComplete' /\ MeantReading'
  BY <1>1 DEF BeforeOK, MeantComplete, MeantReading
<1> QED
  BY <1>2, <1>3, <1>4, <1>5 DEF MeantOK

\* what a return and a served octet do to what has been decoded
LEMMA DecodedReturn ==
  ASSUME MeantOK, decode, decode' = decode, Return(s)
  PROVE  MeantTypes' /\ handed' = Decoded /\ Decoded' = Decoded
<1>1. handed \in Seq(Octet) /\ s \in Seq(Octet)
  BY DEF MeantOK, MeantTypes
<1>2. handed' = handed \o s /\ s' = <<>>
  BY DEF Return
<1>3. handed \o s \in Seq(Octet) /\ (handed \o s) \o <<>> = handed \o s
  BY <1>1, JoinReturn
<1> QED
  BY <1>2, <1>3 DEF MeantTypes, Decoded

LEMMA DecodedServe ==
  ASSUME MeantOK, decode, decode' = decode, NEW c \in Octet, Serve(c)
  PROVE  MeantTypes' /\ Decoded' = Decoded \o <<c>>
<1>1. handed \in Seq(Octet) /\ s \in Seq(Octet)
  BY DEF MeantOK, MeantTypes
<1>2. handed' = handed /\ s' = Append(s, c)
  BY DEF Serve
<1>3. Append(s, c) \in Seq(Octet) /\ handed \o Append(s, c) = (handed \o s) \o <<c>>
  BY <1>1, JoinServe
<1> QED
  BY <1>1, <1>2, <1>3 DEF MeantTypes, Decoded

LEMMA MeantReturns ==
  ASSUME MeantOK, octets' = octets, message' = message, decode' = decode, result = "reading",
         at' \in 0 .. Len(octets), at' <= message.end, Return(s),
         decode /\ s = <<>> /\ ~Short => Decoded = message.entity,
         s # <<>> => ReadingMeant'
  PROVE  MeantOK'
<1>1. MeantTypes'
  <2>1. CASE decode
    BY <2>1, DecodedReturn
  <2>2. CASE ~decode
    BY <2>2 DEF MeantTypes
  <2> QED
    BY <2>1, <2>2
<1>2. result' = IF s = <<>> THEN "complete" ELSE "reading"
  BY DEF Return
<1>3. CASE s # <<>>
  BY <1>1, <1>2, <1>3, MeantGoesOn
<1>4. CASE s = <<>>
  <2>1. result' = "complete"
    BY <1>2, <1>4
  <2>2. Short' = Short
    BY DEF Short
  <2>3. ASSUME decode, ~Short PROVE handed' = message.entity
    BY <1>4, <2>3, DecodedReturn
  <2>4. MeantComplete'
    BY <2>2, <2>3 DEF MeantComplete
  <2>5. MeantPlace' /\ BeforeOK' /\ MeantBad' /\ MeantReading'
    BY <2>1 DEF MeantPlace, BeforeOK, MeantBad, MeantReading
  <2> QED
    BY <1>1, <2>4, <2>5 DEF MeantOK
<1> QED
  BY <1>3, <1>4

----------------------------------------------------------------------------
(* Every step keeps it. *)

LEMMA ReadHeadersMeant ==
  ASSUME HeadOK, HeadMeant, MeantOK, octets' = octets, message' = message, decode' = decode, ReadHeaders
  PROVE  MeantOK'
<1>1. /\ at = 0 /\ handed = <<>> /\ s = <<>> /\ chunked_body_state = "CHUNK_SIZE" /\ chunk_buffer = <<>>
      /\ UNCHANGED <<at, handed, s, chunked_body_state, chunk_buffer>>
      /\ is_chunked' = head.framing.is_chunked /\ has_content_length' = head.framing.has_content_length
      /\ bytes_remaining' = head.framing.bytes_remaining
  BY DEF MeantOK, BeforeOK, ReadHeaders
<1>2. message \in Messages /\ octets \in Seq(Octet) /\ Len(octets) \in Nat /\ message.end \in Nat
  BY MessageType DEF HeadOK, octets
<1>3. at' \in 0 .. Len(octets) /\ at' <= message.end /\ MeantPlace'
  BY <1>1 DEF MeantOK, MeantPlace
<1>4. MeantTypes'
  BY <1>1 DEF MeantOK, MeantTypes
<1>5. CASE head.framing.refused
  <2>1. result' = "bad"
    BY <1>5 DEF ReadHeaders
  <2>2. Refusable
    BY <1>5 DEF HeadMeant, Refusable
  <2>3. MeantBad'
    BY <2>2 DEF MeantBad, Refusable
  <2>4. BeforeOK' /\ MeantComplete' /\ MeantReading'
    BY <2>1 DEF BeforeOK, MeantComplete, MeantReading
  <2> QED
    BY <1>3, <1>4, <2>3, <2>4 DEF MeantOK
<1>6. CASE ~head.framing.refused /\ ~HasBody
  <2>1. result' = "complete"
    BY <1>6 DEF ReadHeaders
  <2>2. decode => message.entity = <<>>
    BY <1>2, <1>6, MeaningAssumption DEF HasBody
  <2>3. MeantComplete'
    BY <1>1, <2>2 DEF MeantComplete
  <2>4. BeforeOK' /\ MeantBad' /\ MeantReading'
    BY <2>1 DEF BeforeOK, MeantBad, MeantReading
  <2> QED
    BY <1>3, <1>4, <2>3, <2>4 DEF MeantOK
<1>7. CASE ~head.framing.refused /\ HasBody
  <2>1. result' = "reading"
    BY <1>7 DEF ReadHeaders
  <2>2. Decoded' = <<>>
    <3>1. <<>> \in Seq(Octet)
      OBVIOUS
    <3>2. <<>> \o <<>> = <<>>
      BY <3>1, ConcatEmptySeq
    <3> QED
      BY <1>1, <3>2 DEF Decoded
  <2>3. /\ message.framing \in {"chunked", "length", "close"}
        /\ message.framing = "chunked" => head.framing.is_chunked /\ head.framing.bytes_remaining = 0
        /\ message.framing = "length" =>
             /\ ~head.framing.is_chunked
             /\ IF head.framing.has_content_length
                THEN head.framing.bytes_remaining = message.end /\ message.end <= SizeMax
                ELSE Len(octets) <= message.end
        /\ message.framing = "close" => ~head.framing.is_chunked /\ ~head.framing.has_content_length
    <3>1. message.framing \in {"chunked", "length", "close"}
      BY <1>2, BodyAssumption
    <3> QED
      BY <1>7, <3>1 DEF HeadMeant
  <2>4. CASE message.framing = "chunked"
    <3>1. Known(octets, 0) /\ ChunksOf(octets)[0].end = 0 /\ ChunksOf(octets)[0].data = <<>>
      BY <1>2, FirstKnown
    <3>2. BetweenChunks(octets, 0, <<>>) /\ AtChunk(octets, 0)
      BY <3>1 DEF BetweenChunks, AtChunk
    <3>3. decode => DecodeMeant'
      BY <1>1, <2>2, <2>3, <2>4, <3>2 DEF DecodeMeant
    <3>4. RawMeant'
      BY <1>1, <3>2 DEF RawMeant
    <3>5. ReadingMeant'
      BY <1>1, <2>3, <2>4, <3>3, <3>4 DEF ReadingMeant
    <3> QED
      BY <1>3, <1>4, <2>1, <3>5, MeantGoesOn
  <2>5. CASE message.framing # "chunked"
    <3>1. SubSeq(octets, 1, 0) = <<>>
      BY <1>2, SubSeqEmpty
    <3>2. message.framing = "close" => message.end = Len(octets)
      BY <1>2, MeaningAssumption DEF Meant, octets
    <3>3. has_content_length' => /\ message.framing = "length" /\ bytes_remaining' = message.end - 0
                                 /\ message.end <= SizeMax
      BY <1>1, <1>2, <2>3, <2>5
    <3>4. ~has_content_length' => Len(octets) <= message.end
      BY <1>1, <1>2, <2>3, <2>5, <3>2
    <3>5. PlainMeant'
      BY <1>1, <2>2, <3>1, <3>3, <3>4 DEF PlainMeant
    <3>6. ReadingMeant'
      BY <1>1, <2>3, <2>5, <3>5 DEF ReadingMeant
    <3> QED
      BY <1>3, <1>4, <2>1, <3>6, MeantGoesOn
  <2> QED
    BY <2>4, <2>5
<1> QED
  BY <1>5, <1>6, <1>7

LEMMA BufferFullMeant ==
  ASSUME HeadOK, MeantOK, octets' = octets, message' = message, decode' = decode, BufferFull
  PROVE  MeantOK'
<1>1. /\ result = "reading" /\ Return(s) /\ Len(s) = Capacity
      /\ UNCHANGED <<at, is_chunked, has_content_length, chunked_body_state, chunk_buffer, bytes_remaining>>
  BY DEF BufferFull, framing, reader
<1>2. at' \in 0 .. Len(octets) /\ at' <= message.end
  BY <1>1 DEF MeantOK, MeantPlace
<1>3. s # <<>>
  <2>1. Len(<<>>) = 0 /\ Capacity # 0
    BY BodyAssumption
  <2> QED
    BY <1>1, <2>1
<1>4. ReadingMeant
  BY <1>1 DEF MeantOK, MeantReading
<1>5. decode => Decoded' = Decoded
  BY <1>1, DecodedReturn
<1>6. ReadingMeant'
  BY <1>1, <1>4, <1>5 DEF ReadingMeant, DecodeMeant, RawMeant, PlainMeant
<1> QED
  BY <1>1, <1>2, <1>3, <1>6, MeantReturns

LEMMA BodyDoneMeant ==
  ASSUME HeadOK, MeantOK, octets' = octets, message' = message, decode' = decode, BodyDone
  PROVE  MeantOK'
<1>1. /\ result = "reading" /\ Return(s) /\ is_chunked /\ chunked_body_state = "DONE"
      /\ UNCHANGED <<at, is_chunked, has_content_length, chunked_body_state, chunk_buffer, bytes_remaining>>
  BY DEF BodyDone, Loops, framing, reader
<1>2. at' \in 0 .. Len(octets) /\ at' <= message.end
  BY <1>1 DEF MeantOK, MeantPlace
<1>3. ReadingMeant
  BY <1>1 DEF MeantOK, MeantReading
<1>4. message.framing = "chunked" /\ (decode => BehindChunks(octets, at, Decoded))
  BY <1>1, <1>3 DEF ReadingMeant, DecodeMeant
<1>5. decode => Decoded = message.entity
  BY <1>4, BehindFacts DEF HeadOK, octets
<1>6. decode => Decoded' = Decoded
  BY <1>1, DecodedReturn
<1>7. ReadingMeant'
  BY <1>1, <1>3, <1>6 DEF ReadingMeant, DecodeMeant, RawMeant, PlainMeant
<1> QED
  BY <1>1, <1>2, <1>5, <1>7, MeantReturns

LEMMA RecvFailsMeant ==
  ASSUME HeadOK, MeantOK, octets' = octets, message' = message, decode' = decode, RecvFails
  PROVE  MeantOK'
<1>1. Fail("error") /\ at' = at
  BY DEF RecvFails
<1>2. at' \in 0 .. Len(octets) /\ at' <= message.end
  BY <1>1 DEF MeantOK, MeantPlace
<1> QED
  BY <1>1, <1>2, MeantFails

(* The reader that passes on what it reads. *)

\* where it is, if the message is a whole one
LEMMA RawFacts ==
  ASSUME HeadOK, MeantOK, result = "reading", is_chunked, ~decode
  PROVE  /\ message \in Messages /\ message.framing = "chunked"
         /\ octets = message.octets /\ Len(octets) \in Nat /\ message.end \in Nat
         /\ at \in 0 .. Len(octets) /\ at <= message.end
         /\ AllOf(octets) # {} => RawMeant
         /\ AllOf(octets) = {} => Refusable /\ Len(octets) <= message.end
<1>1. message \in Messages /\ octets = message.octets
  BY DEF HeadOK, octets
<1>2. Len(octets) \in Nat /\ message.end \in Nat
  BY <1>1, MessageType
<1>3. message.framing = "chunked" /\ (AllOf(octets) # {} => RawMeant)
  BY DEF MeantOK, MeantReading, ReadingMeant
<1>4. AllOf(octets) = {} => Refusable /\ Len(octets) <= message.end
  BY <1>3, CutOff
<1> QED
  BY <1>1, <1>2, <1>3, <1>4 DEF MeantOK, MeantPlace

\* a step of it that goes on, wherever it is if the message is not a whole one
LEMMA RawGoesOn ==
  ASSUME HeadOK, MeantOK, octets' = octets, message' = message, decode' = decode, is_chunked' = is_chunked,
         result = "reading", is_chunked, ~decode, result' = "reading",
         at' \in 0 .. Len(octets), AllOf(octets) # {} => at' <= message.end /\ RawMeant'
  PROVE  MeantOK'
<1>1. /\ message.framing = "chunked" /\ Len(octets) \in Nat /\ message.end \in Nat
      /\ AllOf(octets) = {} => Len(octets) <= message.end
  BY RawFacts
<1>2. at' <= message.end
  BY <1>1
<1>3. MeantTypes'
  BY DEF MeantTypes
<1>4. ReadingMeant'
  BY <1>1 DEF ReadingMeant
<1> QED
  BY <1>2, <1>3, <1>4, MeantGoesOn

\* a whole message never makes it fail
LEMMA RawFails ==
  ASSUME HeadOK, MeantOK, octets' = octets, message' = message, decode' = decode,
         result = "reading", is_chunked, ~decode, Fail("bad"), AllOf(octets) = {}, at' \in 0 .. Len(octets)
  PROVE  MeantOK'
<1>1. Refusable /\ Len(octets) \in Nat /\ message.end \in Nat /\ Len(octets) <= message.end
  BY RawFacts
<1>2. at' <= message.end
  BY <1>1
<1> QED
  BY <1>1, <1>2, MeantFails

LEMMA RawReturns ==
  ASSUME HeadOK, MeantOK, octets' = octets, message' = message, decode' = decode, is_chunked' = is_chunked,
         result = "reading", is_chunked, ~decode, Return(s), chunked_body_state' = "DONE",
         at' \in 0 .. Len(octets), AllOf(octets) # {} => at' <= message.end
  PROVE  MeantOK'
<1>1. /\ message.framing = "chunked" /\ Len(octets) \in Nat /\ message.end \in Nat
      /\ AllOf(octets) = {} => Len(octets) <= message.end
  BY RawFacts
<1>2. at' <= message.end
  BY <1>1
<1>3. ReadingMeant'
  BY <1>1 DEF ReadingMeant, RawMeant
<1> QED
  BY <1>2, <1>3, MeantReturns

LEMMA ReadSizeLineMeant ==
  ASSUME HeadOK, MeantOK, octets' = octets, message' = message, decode' = decode, ReadSizeLine
  PROVE  MeantOK'
<1> DEFINE line == SubSeq(octets, at + 1, at')
<1>1. /\ result = "reading" /\ is_chunked /\ is_chunked' = is_chunked /\ ~decode
      /\ chunked_body_state = "CHUNK_SIZE" /\ chunk_buffer = <<>> /\ at' = LineEnd(octets, at)
  BY DEF ReadSizeLine, Reading, Loops, framing
<1>2. /\ message \in Messages /\ message.framing = "chunked" /\ octets = message.octets
      /\ Len(octets) \in Nat /\ at \in 0 .. Len(octets)
      /\ AllOf(octets) # {} => RawMeant
  BY <1>1, RawFacts
<1>3. at' \in 0 .. Len(octets)
  <2>1. at' \in at .. Len(octets)
    BY <1>1, <1>2, LineEndIn
  <2> QED
    BY <1>2, <2>1
<1>4. line = Line(octets, at)
  BY <1>1 DEF Line
<1>5. ASSUME AllOf(octets) # {}
      PROVE  at' <= message.end /\ Len(line) >= 2 /\ InLine(octets, at', line)
  <2>1. AtChunk(octets, at)
    <3>1. RawMeant
      BY <1>2, <1>5
    <3>2. ~InLine(octets, at, chunk_buffer)
      BY <1>1, <1>2, <1>5, InLineFacts
    <3> QED
      BY <1>1, <3>1, <3>2 DEF RawMeant
  <2>2. LineEnd(octets, at) <= message.end /\ Len(Line(octets, at)) >= 2 /\ InLine(octets, LineEnd(octets, at), Line(octets, at))
    BY <1>2, <1>5, <2>1, AtChunkFacts
  <2> QED
    BY <1>1, <1>4, <2>2
<1>6. Len(line) \in Nat
  <2>1. octets \in Seq(Octet) /\ LineEnd(octets, at) \in at .. Len(octets)
    BY <1>2, MessageType, LineEndIn
  <2>2. Line(octets, at) \in Seq(Octet)
    BY <1>2, <2>1, LineIn
  <2> QED
    BY <1>4, <2>2, LenProperties
<1>7. CASE Len(line) < 2
  <2>1. Fail("bad")
    BY <1>7 DEF ReadSizeLine
  <2> HIDE DEF line
  <2>2. AllOf(octets) = {}
    BY <1>5, <1>6, <1>7
  <2> QED
    BY <1>1, <1>3, <2>1, <2>2, RawFails
<1>8. CASE ~(Len(line) < 2)
  <2>1. chunk_buffer' = line /\ UNCHANGED <<chunked_body_state, s, handed, result>>
    BY <1>8 DEF ReadSizeLine
  <2>2. AllOf(octets) # {} => at' <= message.end /\ RawMeant'
    BY <1>1, <1>5, <2>1 DEF RawMeant
  <2>3. result' = "reading"
    BY <1>1, <2>1
  <2> QED
    BY <1>1, <1>3, <2>2, <2>3, RawGoesOn
<1> QED
  BY <1>7, <1>8

LEMMA ServeSizeLineMeant ==
  ASSUME HeadOK, MeantOK, octets' = octets, message' = message, decode' = decode, ServeSizeLine
  PROVE  MeantOK'
<1> DEFINE size == ChunkSize(chunk_buffer)
<1>1. /\ result = "reading" /\ is_chunked /\ is_chunked' = is_chunked /\ ~decode /\ at' = at
      /\ chunked_body_state = "CHUNK_SIZE" /\ chunk_buffer # <<>>
  BY DEF ServeSizeLine, Reading, Loops, framing
<1>2. /\ message \in Messages /\ message.framing = "chunked" /\ octets = message.octets
      /\ at \in 0 .. Len(octets) /\ at <= message.end
      /\ AllOf(octets) # {} => RawMeant
  BY <1>1, RawFacts
<1>3. ASSUME AllOf(octets) # {} PROVE InLine(octets, at, chunk_buffer)
  BY <1>1, <1>2, <1>3 DEF RawMeant
<1>4. ASSUME AllOf(octets) # {}
      PROVE  /\ size \in 0 .. SizeMax - 2
             /\ IF size = 0 THEN InTrailer(octets, at) ELSE InData(octets, at, size + 2)
  BY <1>2, <1>3, <1>4, InLineFacts
<1> HIDE DEF size
<1>5. CASE bytes_remaining > 1
  <2>1. Serve(Buffered) /\ UNCHANGED <<chunked_body_state, chunk_buffer>>
    BY <1>5 DEF ServeSizeLine
  <2>2. result' = "reading"
    BY <1>1, <2>1 DEF Serve
  <2>3. AllOf(octets) # {} => at' <= message.end /\ RawMeant'
    BY <1>1, <1>2, <1>3, <2>1 DEF RawMeant
  <2> QED
    BY <1>1, <1>2, <2>2, <2>3, RawGoesOn
<1>6. CASE ~(bytes_remaining > 1) /\ (size = Invalid \/ SizeMax - 2 < size)
  <2>1. Fail("bad")
    BY <1>6 DEF ServeSizeLine, size
  <2>2. AllOf(octets) = {}
    BY <1>4, <1>6, BodyAssumption DEF Invalid
  <2> QED
    BY <1>1, <1>2, <2>1, <2>2, RawFails
<1>7. CASE ~(bytes_remaining > 1) /\ ~(size = Invalid \/ SizeMax - 2 < size)
  <2>1. /\ chunk_buffer' = <<>> /\ Serve(Buffered)
        /\ chunked_body_state' = (IF size = 0 THEN "TRAILER" ELSE "CHUNK_DATA")
        /\ bytes_remaining' = (IF size = 0 THEN 0 ELSE size + 2)
    BY <1>7 DEF ServeSizeLine, size
  <2>2. result' = "reading"
    BY <1>1, <2>1 DEF Serve
  <2>3. AllOf(octets) # {} => at' <= message.end /\ RawMeant'
    BY <1>1, <1>2, <1>4, <2>1 DEF RawMeant
  <2> QED
    BY <1>1, <1>2, <2>2, <2>3, RawGoesOn
<1> QED
  BY <1>5, <1>6, <1>7

LEMMA ServeDataMeant ==
  ASSUME HeadOK, MeantOK, octets' = octets, message' = message, decode' = decode, ServeData
  PROVE  MeantOK'
<1>1. /\ result = "reading" /\ is_chunked /\ is_chunked' = is_chunked /\ ~decode
      /\ chunked_body_state = "CHUNK_DATA" /\ chunk_buffer' = chunk_buffer
  BY DEF ServeData, Reading, Loops, framing
<1>2. /\ message \in Messages /\ message.framing = "chunked" /\ octets = message.octets
      /\ Len(octets) \in Nat /\ at \in 0 .. Len(octets)
      /\ AllOf(octets) # {} => RawMeant
  BY <1>1, RawFacts
<1>3. ASSUME AllOf(octets) # {}
      PROVE  /\ at + 1 \in 0 .. Len(octets) /\ at + 1 <= message.end /\ chunk_buffer = <<>>
             /\ IF bytes_remaining = 1 THEN AtChunk(octets, at + 1) ELSE InData(octets, at + 1, bytes_remaining - 1)
  <2>1. InData(octets, at, bytes_remaining) /\ chunk_buffer = <<>>
    BY <1>1, <1>2, <1>3 DEF RawMeant
  <2> QED
    BY <1>2, <1>3, <2>1, InDataFacts
<1>4. CASE AtEnd
  <2>1. Fail("bad") /\ at' = at
    BY <1>4 DEF ServeData
  <2>2. AllOf(octets) = {}
    <3>1. ~(at + 1 \in 0 .. Len(octets))
      BY <1>2, <1>4 DEF AtEnd
    <3> QED
      BY <1>3, <3>1
  <2> QED
    BY <1>1, <1>2, <2>1, <2>2, RawFails
<1>5. CASE ~AtEnd
  <2>1. /\ at' = at + 1 /\ Serve(octets[at + 1]) /\ bytes_remaining' = bytes_remaining - 1
        /\ chunked_body_state' = (IF bytes_remaining = 1 THEN "CHUNK_SIZE" ELSE "CHUNK_DATA")
    BY <1>5 DEF ServeData
  <2>2. result' = "reading"
    BY <1>1, <2>1 DEF Serve
  <2>3. at' \in 0 .. Len(octets)
    BY <1>2, <1>5, <2>1 DEF AtEnd
  <2>4. AllOf(octets) # {} => at' <= message.end /\ RawMeant'
    BY <1>1, <1>3, <2>1 DEF RawMeant
  <2> QED
    BY <1>1, <2>2, <2>3, <2>4, RawGoesOn
<1> QED
  BY <1>4, <1>5

LEMMA ReadTrailerMeant ==
  ASSUME HeadOK, MeantOK, octets' = octets, message' = message, decode' = decode, ReadTrailer
  PROVE  MeantOK'
<1> DEFINE line == SubSeq(octets, at + 1, at')
<1>1. /\ result = "reading" /\ is_chunked /\ is_chunked' = is_chunked /\ ~decode
      /\ chunked_body_state = "TRAILER" /\ chunk_buffer = <<>>
      /\ at' = HeaderEnd(octets, at) /\ chunk_buffer' = line
  BY DEF ReadTrailer, Reading, Loops, framing
<1>2. /\ message \in Messages /\ message.framing = "chunked" /\ octets = message.octets
      /\ Len(octets) \in Nat /\ at \in 0 .. Len(octets)
      /\ AllOf(octets) # {} => RawMeant
  BY <1>1, RawFacts
<1>3. at' \in 0 .. Len(octets)
  <2>1. at' \in at .. Len(octets)
    BY <1>1, <1>2, HeaderEndIn
  <2> QED
    BY <1>2, <2>1
<1>4. ASSUME AllOf(octets) # {}
      PROVE  at' <= message.end /\ (line # <<>> => InTrailerLine(octets, at', line))
  <2>1. InTrailer(octets, at)
    <3>1. RawMeant
      BY <1>2, <1>4
    <3>2. ~InTrailerLine(octets, at, chunk_buffer)
      BY <1>1, <1>2, InTrailerLineFacts
    <3> QED
      BY <1>1, <3>1, <3>2 DEF RawMeant
  <2> QED
    BY <1>1, <1>2, <2>1, InTrailerFacts
<1>5. CASE chunk_buffer' = <<>>
  <2>1. chunked_body_state' = "DONE" /\ Return(s)
    BY <1>5 DEF ReadTrailer
  <2> QED
    BY <1>1, <1>3, <1>4, <2>1, RawReturns
<1>6. CASE chunk_buffer' # <<>>
  <2>1. UNCHANGED <<chunked_body_state, s, handed, result>>
    BY <1>6 DEF ReadTrailer
  <2>2. AllOf(octets) # {} => at' <= message.end /\ RawMeant'
    BY <1>1, <1>4, <1>6, <2>1 DEF RawMeant
  <2>3. result' = "reading"
    BY <1>1, <2>1
  <2> QED
    BY <1>1, <1>3, <2>2, <2>3, RawGoesOn
<1> QED
  BY <1>5, <1>6

LEMMA ServeTrailerMeant ==
  ASSUME HeadOK, MeantOK, octets' = octets, message' = message, decode' = decode, ServeTrailer
  PROVE  MeantOK'
<1>1. /\ result = "reading" /\ is_chunked /\ is_chunked' = is_chunked /\ ~decode /\ at' = at
      /\ chunked_body_state = "TRAILER" /\ chunk_buffer # <<>>
  BY DEF ServeTrailer, Reading, Loops, framing
<1>2. /\ message \in Messages /\ message.framing = "chunked" /\ octets = message.octets
      /\ at \in 0 .. Len(octets) /\ at <= message.end
      /\ AllOf(octets) # {} => RawMeant
  BY <1>1, RawFacts
<1>3. AllOf(octets) # {} => InTrailerLine(octets, at, chunk_buffer)
  BY <1>1, <1>2 DEF RawMeant
<1>4. AllOf(octets) # {} /\ ~IsBlank(chunk_buffer) => InTrailer(octets, at)
  BY <1>2, <1>3, InTrailerLineFacts
<1>5. CASE bytes_remaining > 1
  <2>1. Serve(Buffered) /\ UNCHANGED <<chunked_body_state, chunk_buffer>>
    BY <1>5 DEF ServeTrailer
  <2>2. result' = "reading"
    BY <1>1, <2>1 DEF Serve
  <2>3. AllOf(octets) # {} => at' <= message.end /\ RawMeant'
    BY <1>1, <1>2, <1>3, <2>1 DEF RawMeant
  <2> QED
    BY <1>1, <1>2, <2>2, <2>3, RawGoesOn
<1>6. CASE ~(bytes_remaining > 1) /\ IsBlank(chunk_buffer)
  <2>1. chunked_body_state' = "DONE" /\ Return(s)
    BY <1>6 DEF ServeTrailer
  <2> QED
    BY <1>1, <1>2, <2>1, RawReturns
<1>7. CASE ~(bytes_remaining > 1) /\ ~IsBlank(chunk_buffer)
  <2>1. Serve(Buffered) /\ chunk_buffer' = <<>> /\ UNCHANGED chunked_body_state
    BY <1>7 DEF ServeTrailer
  <2>2. result' = "reading"
    BY <1>1, <2>1 DEF Serve
  <2>3. AllOf(octets) # {} => at' <= message.end /\ RawMeant'
    BY <1>1, <1>2, <1>4, <1>7, <2>1 DEF RawMeant
  <2> QED
    BY <1>1, <1>2, <2>2, <2>3, RawGoesOn
<1> QED
  BY <1>5, <1>6, <1>7

(* The reader that decodes, with chunks and without. *)

LEMMA DecodeFacts ==
  ASSUME HeadOK, MeantOK, result = "reading", is_chunked, decode
  PROVE  /\ message \in Messages /\ message.framing = "chunked" /\ ~Short
         /\ octets = message.octets /\ Len(octets) \in Nat /\ message.end \in Nat
         /\ at \in 0 .. Len(octets) /\ at <= message.end /\ DecodeMeant
<1>1. message \in Messages /\ octets = message.octets
  BY DEF HeadOK, octets
<1>2. Len(octets) \in Nat /\ message.end \in Nat
  BY <1>1, MessageType
<1>3. message.framing = "chunked" /\ DecodeMeant
  BY DEF MeantOK, MeantReading, ReadingMeant
<1> QED
  BY <1>1, <1>2, <1>3 DEF MeantOK, MeantPlace, Short

LEMMA DecodeGoesOn ==
  ASSUME MeantOK, octets' = octets, message' = message, decode' = decode, is_chunked' = is_chunked,
         message.framing = "chunked", is_chunked, decode, result' = "reading",
         at' \in 0 .. Len(octets), at' <= message.end, MeantTypes', DecodeMeant'
  PROVE  MeantOK'
<1>1. ReadingMeant'
  BY DEF ReadingMeant
<1> QED
  BY <1>1, MeantGoesOn

LEMMA DecodeSizeLineMeant ==
  ASSUME HeadOK, MeantOK, octets' = octets, message' = message, decode' = decode, DecodeSizeLine
  PROVE  MeantOK'
<1> DEFINE line == SubSeq(octets, at + 1, at')
           size == ChunkSize(line)
<1>1. /\ result = "reading" /\ is_chunked /\ is_chunked' = is_chunked /\ decode
      /\ chunked_body_state = "CHUNK_SIZE" /\ bytes_remaining = 0 /\ at' = LineEnd(octets, at)
  BY DEF DecodeSizeLine, Reading, Loops, framing
<1>2. /\ message \in Messages /\ message.framing = "chunked" /\ octets = message.octets
      /\ Len(octets) \in Nat /\ at \in 0 .. Len(octets) /\ DecodeMeant /\ ~Short
  BY <1>1, DecodeFacts
<1>3. BetweenChunks(octets, at, Decoded)
  <2>1. ~InChunk(octets, at, bytes_remaining, Decoded)
    BY <1>1, <1>2, ChunkFacts
  <2> QED
    BY <1>1, <1>2, <2>1 DEF DecodeMeant
<1>4. /\ at' \in 0 .. Len(octets) /\ at' <= message.end
      /\ AllOf(octets) # {} => SizeAt(octets, at) \in 0 .. SizeMax - 2
      /\ SizeAt(octets, at) = 0 => BehindChunks(octets, at', Decoded)
      /\ SizeAt(octets, at) \in Nat \ {0} => InChunk(octets, at', SizeAt(octets, at), Decoded)
  BY <1>1, <1>2, <1>3, BetweenFacts
<1>5. line = Line(octets, at)
  BY <1>1 DEF Line
<1>6. line \in Seq(Octet) /\ Len(line) \in Nat
  <2>1. octets \in Seq(Octet)
    BY <1>2, MessageType
  <2>2. Line(octets, at) \in Seq(Octet)
    BY <1>2, <2>1, LineIn
  <2> QED
    BY <1>5, <2>2, LenProperties
<1> DEFINE announced == Announced(line)
<1>7. /\ announced \in Nat \cup {Invalid}
      /\ size = IF announced # Invalid /\ announced <= SizeMax THEN announced ELSE Invalid
  <2> HIDE DEF line
  <2> QED
    BY <1>6, SizeRead
<1>8. SizeAt(octets, at) = IF Len(line) < 2 THEN Invalid ELSE announced
  BY <1>5 DEF SizeAt
<1>9. CASE Len(line) < 2 \/ size = Invalid
  <2>1. Fail("bad")
    BY <1>9 DEF DecodeSizeLine
  <2>2. AllOf(octets) = {}
    <3> HIDE DEF size, announced, line
    <3>1. SizeAt(octets, at) \notin 0 .. SizeMax - 2
      BY <1>7, <1>8, <1>9, BodyAssumption DEF Invalid
    <3> QED
      BY <1>4, <3>1
  <2>3. Refusable
    BY <1>2, <2>2, CutOff
  <2> QED
    BY <1>1, <1>4, <2>1, <2>3, MeantFails
<1>10. CASE ~(Len(line) < 2 \/ size = Invalid)
  <2>1. /\ bytes_remaining' = size
        /\ IF size = 0 THEN chunked_body_state' = "DONE" /\ Return(s)
           ELSE UNCHANGED <<chunked_body_state, s, handed, result>>
    BY <1>10 DEF DecodeSizeLine
  <2>2. SizeAt(octets, at) = size /\ size \in Nat
    <3> HIDE DEF size, announced, line
    <3> QED
      BY <1>7, <1>8, <1>10
  <2> HIDE DEF size, announced, line
  <2>3. CASE size = 0
    <3>1. Decoded' = Decoded /\ MeantTypes'
      BY <1>1, <2>1, <2>3, DecodedReturn
    <3>2. BehindChunks(octets, at', Decoded)
      BY <1>4, <2>2, <2>3
    <3>3. Decoded = message.entity
      BY <1>2, <3>2, BehindFacts
    <3>4. DecodeMeant'
      BY <2>1, <2>3, <3>1, <3>2 DEF DecodeMeant
    <3>5. ReadingMeant'
      BY <1>1, <1>2, <3>4 DEF ReadingMeant
    <3> QED
      BY <1>1, <1>4, <2>1, <2>3, <3>3, <3>5, MeantReturns
  <2>4. CASE size # 0
    <3>1. Decoded' = Decoded /\ MeantTypes'
      BY <1>1, <2>1, <2>4 DEF Decoded, MeantOK, MeantTypes
    <3>2. InChunk(octets, at', size, Decoded)
      BY <1>4, <2>2, <2>4
    <3>3. DecodeMeant'
      BY <1>1, <2>1, <2>4, <3>1, <3>2 DEF DecodeMeant
    <3>4. result' = "reading"
      BY <1>1, <2>1, <2>4
    <3> QED
      BY <1>1, <1>2, <1>4, <3>1, <3>3, <3>4, DecodeGoesOn
  <2> QED
    BY <2>3, <2>4
<1> QED
  BY <1>9, <1>10

LEMMA DecodeDataMeant ==
  ASSUME HeadOK, MeantOK, octets' = octets, message' = message, decode' = decode, DecodeData
  PROVE  MeantOK'
<1> DEFINE cut == AtEnd \/ (bytes_remaining = 1 /\ ~LineEndFollows(at + 1))
           more == Decoded \o <<octets[at + 1]>>
<1>1. /\ result = "reading" /\ is_chunked /\ is_chunked' = is_chunked /\ decode
      /\ chunked_body_state = "CHUNK_SIZE" /\ bytes_remaining > 0
  BY DEF DecodeData, Reading, Loops, framing
<1>2. /\ message \in Messages /\ message.framing = "chunked" /\ octets = message.octets
      /\ Len(octets) \in Nat /\ at \in 0 .. Len(octets) /\ at <= message.end /\ DecodeMeant
  BY <1>1, DecodeFacts
<1>3. InChunk(octets, at, bytes_remaining, Decoded)
  <2>1. bytes_remaining # 0
    BY <1>1
  <2> QED
    BY <1>1, <1>2, <2>1 DEF DecodeMeant
<1>4. /\ bytes_remaining \in Nat \ {0}
      /\ \A q \in 0 .. Len(octets) : q <= at + 3 /\ (bytes_remaining # 1 => q <= at + 1) => q <= message.end
      /\ AllOf(octets) # {} =>
           at < Len(octets) /\ (bytes_remaining = 1 =>
             at + 3 <= Len(octets) /\ octets[at + 2] = "r" /\ octets[at + 3] = "n")
      /\ at < Len(octets) => octets[at + 1] \in Octet
      /\ at < Len(octets) /\ bytes_remaining # 1 => InChunk(octets, at + 1, bytes_remaining - 1, more)
      /\ at + 3 <= Len(octets) /\ bytes_remaining = 1 /\ octets[at + 2] = "r" /\ octets[at + 3] = "n" =>
           BetweenChunks(octets, at + 3, more)
  BY <1>2, <1>3, ChunkFacts
<1>5. AtEnd <=> ~(at < Len(octets))
  BY <1>2 DEF AtEnd
<1>6. LineEndFollows(at + 1) <=> at + 3 <= Len(octets) /\ octets[at + 2] = "r" /\ octets[at + 3] = "n"
  <2>1. (at + 1) + 2 = at + 3 /\ (at + 1) + 1 = at + 2
    BY <1>2
  <2> QED
    BY <2>1 DEF LineEndFollows
<1>7. CASE cut
  <2>1. Fail("bad") /\ at' = at
    BY <1>7 DEF DecodeData
  <2>2. AllOf(octets) = {}
    BY <1>4, <1>5, <1>6, <1>7
  <2>3. Refusable
    BY <1>2, <2>2, CutOff
  <2> QED
    BY <1>2, <2>1, <2>3, MeantFails
<1>8. CASE ~cut
  <2>1. /\ bytes_remaining' = bytes_remaining - 1 /\ Serve(octets[at + 1])
        /\ at' = (IF bytes_remaining = 1 THEN at + 3 ELSE at + 1)
        /\ chunked_body_state' = chunked_body_state
    BY <1>8 DEF DecodeData
  <2>2. octets[at + 1] \in Octet
    BY <1>4, <1>5, <1>8
  <2>3. Decoded' = more /\ MeantTypes'
    BY <1>1, <2>1, <2>2, DecodedServe
  <2>4. at' \in 0 .. Len(octets) /\ at' <= at + 3 /\ (bytes_remaining # 1 => at' <= at + 1)
    BY <1>2, <1>5, <1>6, <1>8, <2>1
  <2>5. at' <= message.end
    BY <1>4, <2>4
  <2>6. result' = "reading"
    BY <1>1, <2>1 DEF Serve
  <2> HIDE DEF more
  <2>7. DecodeMeant'
    <3>1. CASE bytes_remaining = 1
      <4>1. BetweenChunks(octets, at', Decoded') /\ bytes_remaining' = 0
        BY <1>4, <1>6, <1>8, <2>1, <2>3, <3>1
      <4> QED
        BY <1>1, <2>1, <4>1 DEF DecodeMeant
    <3>2. CASE bytes_remaining # 1
      <4>1. InChunk(octets, at', bytes_remaining', Decoded')
        BY <1>4, <1>5, <1>8, <2>1, <2>3, <3>2
      <4> QED
        BY <1>1, <2>1, <4>1 DEF DecodeMeant
    <3> QED
      BY <3>1, <3>2
  <2> QED
    BY <1>1, <1>2, <2>3, <2>4, <2>5, <2>6, <2>7, DecodeGoesOn
<1> QED
  BY <1>7, <1>8

LEMMA Modulo ==
  ASSUME NEW n \in Nat, NEW w \in Nat, n <= w
  PROVE  n % (w + 1) = n
OBVIOUS

LEMMA ReadPlainMeant ==
  ASSUME HeadOK, MeantOK, octets' = octets, message' = message, decode' = decode, ReadPlain
  PROVE  MeantOK'
<1> DEFINE over == AtEnd \/ (has_content_length /\ bytes_remaining = 0)
<1>1. /\ result = "reading" /\ ~is_chunked
      /\ is_chunked' = is_chunked /\ has_content_length' = has_content_length
  BY DEF ReadPlain, Loops, framing
<1>2. message \in Messages /\ octets = message.octets /\ octets \in Seq(Octet) /\ Len(octets) \in Nat /\ message.end \in Nat
  BY MessageType DEF HeadOK, octets
<1>3. message.framing # "chunked" /\ PlainMeant
  BY <1>1 DEF MeantOK, MeantReading, ReadingMeant
<1>4. at \in 0 .. Len(octets) /\ at <= message.end
  BY DEF MeantOK, MeantPlace
<1>5. CASE over
  <2>1. Return(s) /\ at' = at /\ bytes_remaining' = bytes_remaining
    BY <1>5 DEF ReadPlain
  <2>2. ASSUME decode, ~Short PROVE Decoded = message.entity
    <3>1. message.framing = "length" => Len(octets) >= message.end
      BY <1>2, <2>2 DEF Short
    <3>2. message.framing \in {"length", "close"}
      BY <1>2, <1>3, BodyAssumption
    <3>3. message.framing = "close" => message.end = Len(octets) /\ message.entity = octets
      BY <1>2, MeaningAssumption DEF Meant
    <3>4. at = message.end
      BY <1>2, <1>3, <1>4, <1>5, <3>1, <3>2, <3>3 DEF PlainMeant, AtEnd
    <3>5. Decoded = SubSeq(octets, 1, message.end)
      BY <1>3, <2>2, <3>4 DEF PlainMeant
    <3>6. message.entity = SubSeq(octets, 1, message.end)
      <4>1. CASE message.framing = "length"
        <5>1. Meant(message) /\ message.end <= Len(message.octets)
          BY <1>2, <1>4, <3>4, MeaningAssumption
        <5>2. message.entity = SubSeq(message.octets, 1, message.end)
          BY <4>1, <5>1 DEF Meant
        <5> QED
          BY <1>2, <5>2
      <4>2. CASE message.framing = "close"
        <5>1. SubSeq(octets, 1, Len(octets)) = octets
          BY <1>2, SubSeqFull
        <5> QED
          BY <3>3, <4>2, <5>1
      <4> QED
        BY <3>2, <4>1, <4>2
    <3> QED
      BY <3>5, <3>6
  <2>3. decode => Decoded' = Decoded
    BY <2>1, DecodedReturn
  <2>4. ReadingMeant'
    BY <1>1, <1>3, <2>1, <2>3 DEF ReadingMeant, PlainMeant
  <2> QED
    BY <1>1, <1>4, <2>1, <2>2, <2>4, MeantReturns
<1>6. CASE ~over
  <2>1. /\ at' = at + 1 /\ Serve(octets[at + 1])
        /\ bytes_remaining' = (bytes_remaining - 1) % (SizeMax + 1)
    BY <1>6 DEF ReadPlain
  <2>2. at < Len(octets) /\ at' \in 0 .. Len(octets)
    BY <1>2, <1>4, <1>6, <2>1 DEF AtEnd
  <2>3. ASSUME has_content_length
        PROVE  message.framing = "length" /\ message.end <= SizeMax /\ bytes_remaining = message.end - at /\ at < message.end
    <3>1. message.framing = "length" /\ message.end <= SizeMax /\ bytes_remaining = message.end - at
      BY <1>3, <2>3 DEF PlainMeant
    <3>2. bytes_remaining # 0
      BY <1>6, <2>3
    <3> QED
      BY <1>2, <1>4, <3>1, <3>2
  <2>4. at' <= message.end
    <3>1. ~has_content_length => Len(octets) <= message.end
      BY <1>3 DEF PlainMeant
    <3> QED
      BY <1>2, <1>4, <2>1, <2>2, <2>3, <3>1
  <2>5. has_content_length => bytes_remaining' = message.end - at'
    <3> SUFFICES ASSUME has_content_length PROVE bytes_remaining' = message.end - at'
      OBVIOUS
    <3> DEFINE n == message.end - at - 1
    <3>1. n \in Nat /\ n <= SizeMax /\ bytes_remaining - 1 = n /\ SizeMax \in Nat /\ message.end - (at + 1) = n
      BY <1>2, <1>4, <2>3, BodyAssumption
    <3> HIDE DEF n
    <3>2. n % (SizeMax + 1) = n
      BY <3>1, Modulo
    <3> QED
      BY <2>1, <3>1, <3>2
  <2>6. octets[at + 1] \in Octet
    <3>1. at + 1 \in 1 .. Len(octets)
      BY <1>2, <1>4, <2>2
    <3> QED
      BY <1>2, <3>1, ElementOfSeq
  <2>7. ASSUME decode PROVE MeantTypes' /\ Decoded' = SubSeq(octets, 1, at')
    <3>1. MeantTypes' /\ Decoded' = Decoded \o <<octets[at + 1]>>
      BY <2>1, <2>6, <2>7, DecodedServe
    <3>2. Decoded = SubSeq(octets, 1, at)
      BY <1>3, <2>7 DEF PlainMeant
    <3>3. SubSeq(octets, 1, at + 1) = SubSeq(octets, 1, at) \o <<octets[at + 1]>>
      <4>1. 1 \in 1 .. Len(octets) /\ at + 1 \in 1 .. Len(octets) /\ (at + 1) - 1 = at
        BY <1>2, <1>4, <2>2
      <4>2. SubSeq(octets, 1, at + 1) = SubSeq(octets, 1, (at + 1) - 1) \o <<octets[at + 1]>>
        BY <1>2, <4>1, SubSeqRecursiveSecond
      <4> QED
        BY <4>1, <4>2
    <3> QED
      BY <2>1, <3>1, <3>2, <3>3
  <2>8. MeantTypes'
    <3>1. CASE ~decode
      BY <3>1 DEF MeantTypes
    <3> QED
      BY <2>7, <3>1
  <2>9. ReadingMeant'
    BY <1>1, <1>3, <2>5, <2>7 DEF ReadingMeant, PlainMeant
  <2>10. result' = "reading"
    BY <1>1, <2>1 DEF Serve
  <2> QED
    BY <2>2, <2>4, <2>8, <2>9, <2>10, MeantGoesOn
<1> QED
  BY <1>5, <1>6

----------------------------------------------------------------------------
LEMMA MeantStutter ==
  ASSUME MeantInv, UNCHANGED vars
  PROVE  MeantInv'
<1>1. UNCHANGED <<message, head, decode, at, has_content_length, is_chunked, chunked_body_state, chunk_buffer,
                  bytes_remaining, s, handed, result>>
  BY DEF vars, framing, reader
<1>2. octets' = octets
  BY <1>1 DEF octets
<1>3. (HasBody' <=> HasBody) /\ Decoded' = Decoded /\ (Short' <=> Short)
  BY <1>1, <1>2 DEF HasBody, Decoded, Short
<1>4. HeadMeant' => HeadMeant
  BY <1>1, <1>2, <1>3 DEF HeadMeant
<1>5. ReadingMeant => ReadingMeant'
  BY <1>1, <1>2, <1>3 DEF ReadingMeant, DecodeMeant, RawMeant, PlainMeant
<1>6. MeantOK => MeantOK'
  BY <1>1, <1>2, <1>3, <1>5 DEF MeantOK, MeantPlace, MeantTypes, BeforeOK, MeantBad, Refusable, MeantComplete, MeantReading
<1> QED
  BY <1>4, <1>6 DEF MeantInv

LEMMA MeantNext ==
  RelayInv /\ MeantInv /\ [Next]_vars => MeantInv'
<1> SUFFICES ASSUME RelayInv, MeantInv, Next PROVE MeantInv'
  BY MeantStutter
<1>1. HeadOK
  BY DEF RelayInv
<1>2. octets' = octets /\ (HasBody' <=> HasBody)
  BY <1>1, NextHead
<1>3. message' = message /\ head' = head /\ decode' = decode
  BY DEF Next, Progress, ReadHeaders, BufferFull, BodyDone, RecvFails, ReadSizeLine, ServeSizeLine, ServeData,
         ReadTrailer, ServeTrailer, DecodeSizeLine, DecodeData, ReadPlain
<1>4. HeadMeant' => HeadMeant
  BY <1>2, <1>3 DEF HeadMeant
<1>5. ASSUME HeadMeant PROVE MeantOK'
  <2>1. MeantOK
    BY <1>5 DEF MeantInv
  <2>2. CASE ReadHeaders
    BY <1>1, <1>2, <1>3, <1>5, <2>1, <2>2, ReadHeadersMeant
  <2>3. CASE BufferFull
    BY <1>1, <1>2, <1>3, <2>1, <2>3, BufferFullMeant
  <2>4. CASE BodyDone
    BY <1>1, <1>2, <1>3, <2>1, <2>4, BodyDoneMeant
  <2>5. CASE RecvFails
    BY <1>1, <1>2, <1>3, <2>1, <2>5, RecvFailsMeant
  <2>6. CASE ReadSizeLine
    BY <1>1, <1>2, <1>3, <2>1, <2>6, ReadSizeLineMeant
  <2>7. CASE ServeSizeLine
    BY <1>1, <1>2, <1>3, <2>1, <2>7, ServeSizeLineMeant
  <2>8. CASE ServeData
    BY <1>1, <1>2, <1>3, <2>1, <2>8, ServeDataMeant
  <2>9. CASE ReadTrailer
    BY <1>1, <1>2, <1>3, <2>1, <2>9, ReadTrailerMeant
  <2>10. CASE ServeTrailer
    BY <1>1, <1>2, <1>3, <2>1, <2>10, ServeTrailerMeant
  <2>11. CASE DecodeSizeLine
    BY <1>1, <1>2, <1>3, <2>1, <2>11, DecodeSizeLineMeant
  <2>12. CASE DecodeData
    BY <1>1, <1>2, <1>3, <2>1, <2>12, DecodeDataMeant
  <2>13. CASE ReadPlain
    BY <1>1, <1>2, <1>3, <2>1, <2>13, ReadPlainMeant
  <2> QED
    BY <2>2, <2>3, <2>4, <2>5, <2>6, <2>7, <2>8, <2>9, <2>10, <2>11, <2>12, <2>13 DEF Next, Progress
<1> QED
  BY <1>4, <1>5 DEF MeantInv

LEMMA MeantAlways ==
  Spec => []MeantInv
<1>1. Spec => []RelayInv
  BY RelayInit, RelayNext, PTL DEF Spec
<1> QED
  BY <1>1, MeantInit, MeantNext, PTL DEF Spec

LEMMA MeantInvImplies ==
  MeantInv => (HeadMeant => EntireBody) /\ (HeadMeant => AcceptsWhole)
BY DEF MeantInv, MeantOK, MeantPlace, MeantBad, Refusable, MeantComplete, EntireBody, AcceptsWhole, Misread

\* HTTPMessage_read_entire_entity_body and copy_http_message_body: if the head
\* says of the body what its sender meant, then the body is handed out as it
\* was meant and to its end only, whatever its octets are and wherever the
\* boundaries of the buffer fall.
THEOREM EntireBodyCorrect == Spec => [](HeadMeant => EntireBody)
BY MeantAlways, MeantInvImplies, PTL

\* If the head says of the body what its sender meant, then neither reader
\* refuses a message that arrives whole.
THEOREM AcceptsWholeCorrect == Spec => [](HeadMeant => AcceptsWhole)
BY MeantAlways, MeantInvImplies, PTL

============================================================================
