-------------------------- MODULE DirectoryProofs --------------------------
(***************************************************************************)
(* Theorems about DirectoryInstrumenter for every file system, with links  *)
(* wherever they may be, any arguments, and any number of runs, each of    *)
(* which may be killed.                                                    *)
(*                                                                         *)
(* They rest on what Real computes, which is a walk along a path of any    *)
(* length: what a recursive function returns is shown by induction, in     *)
(* the form that a set of naturals that is not empty has a least element.  *)
(***************************************************************************)
EXTENDS DirectoryInstrumenter, SequenceTheorems, FiniteSetTheorems, WellFoundedInduction, TLAPS

\* The least number principle, and induction as it follows from it.
LEMMA LeastNatural ==
  ASSUME NEW T, T \subseteq Nat, T # {}
  PROVE  \E m \in T : \A k \in T : m <= k
<1> DEFINE R == {p \in Nat \X Nat : p[1] < p[2]}
<1>1. IsWellFoundedOn(R, Nat)
  BY NatLessThanWellFounded DEF OpToRel
<1>2. \A k, m \in Nat : k < m => <<k, m>> \in R
  OBVIOUS
<1> HIDE DEF R
<1>3. PICK m \in T : \A k \in T : ~(<<k, m>> \in R)
  BY <1>1, WFMin
<1>4. ASSUME NEW k \in T PROVE m <= k
  <2>1. k \in Nat /\ m \in Nat /\ ~(<<k, m>> \in R)
    BY <1>3
  <2>2. ~(k < m)
    BY <2>1, <1>2
  <2> QED
    BY <2>1, <2>2
<1> QED
  BY <1>4

LEMMA Induction ==
  ASSUME NEW T, T \subseteq Nat, 0 \in T, \A n \in T : n + 1 \in T
  PROVE  T = Nat
<1> SUFFICES ASSUME T # Nat PROVE FALSE
  OBVIOUS
<1>1. PICK m \in Nat \ T : \A k \in Nat \ T : m <= k
  BY LeastNatural
<1>2. m - 1 \in T
  BY <1>1
<1> QED
  BY <1>1, <1>2

LEMMA PathAppend ==
  ASSUME NEW p \in Path, NEW x \in Names
  PROVE  /\ Append(p, x) \in Path /\ Len(p) \in Nat /\ Len(Append(p, x)) = Len(p) + 1
         /\ \A i \in 1 .. Len(p) : Append(p, x)[i] = p[i]
         /\ Append(p, x)[Len(p) + 1] = x
<1>1. p \in Seq(Names)
  BY DEF Path
<1>2. Len(p) \in Nat
  BY <1>1, LenProperties
<1>3. /\ Append(p, x) \in Seq(Names) /\ Len(Append(p, x)) = Len(p) + 1
      /\ \A i \in 1 .. Len(p) : Append(p, x)[i] = p[i]
      /\ Append(p, x)[Len(p) + 1] = x
  BY <1>1, AppendProperties
<1> QED
  BY <1>2, <1>3 DEF Path

----------------------------------------------------------------------------
(* What Real computes. *)

\* f[n] is where the first n names of p lead to
Walk(t, p, f) ==
  f = [n \in 0 .. Len(p) |-> IF n = 0 THEN <<>> ELSE Follow(t, Append(f[n - 1], p[n]))]

\* A walk along a path exists, so that Real is what its definition says.
LEMMA WalkExists ==
  ASSUME NEW t, NEW p, Len(p) \in Nat
  PROVE  \E f : Walk(t, p, f)
<1> DEFINE Goes(f, n) == f = [i \in 0 .. n |-> IF i = 0 THEN <<>> ELSE Follow(t, Append(f[i - 1], p[i]))]
           T == {n \in Nat : \E f : Goes(f, n)}
<1>1. 0 \in T
  <2>1. Goes([i \in 0 .. 0 |-> <<>>], 0)
    OBVIOUS
  <2> QED
    BY <2>1
<1>2. ASSUME NEW n \in T PROVE n + 1 \in T
  <2>1. PICK f : Goes(f, n)
    OBVIOUS
  <2> DEFINE g == [i \in 0 .. n + 1 |-> IF i <= n THEN f[i] ELSE Follow(t, Append(f[n], p[n + 1]))]
  <2>2. ASSUME NEW i \in 0 .. n + 1
        PROVE  g[i] = IF i = 0 THEN <<>> ELSE Follow(t, Append(g[i - 1], p[i]))
    <3>1. CASE i = 0
      <4>1. f[0] = <<>>
        BY <2>1
      <4> QED
        BY <3>1, <4>1
    <3>2. CASE i # 0 /\ i <= n
      <4>1. f[i] = Follow(t, Append(f[i - 1], p[i]))
        BY <2>1, <3>2
      <4>2. g[i] = f[i] /\ g[i - 1] = f[i - 1]
        BY <3>2
      <4> QED
        BY <3>2, <4>1, <4>2
    <3>3. CASE i = n + 1
      <4>1. g[i] = Follow(t, Append(f[n], p[i])) /\ g[i - 1] = f[n]
        BY <3>3
      <4> QED
        BY <3>3, <4>1
    <3> QED
      BY <3>1, <3>2, <3>3
  <2>3. Goes(g, n + 1)
    <3> HIDE DEF g
    <3>1. DOMAIN g = 0 .. n + 1 /\ g = [i \in DOMAIN g |-> g[i]]
      BY DEF g
    <3> QED
      BY <2>2, <3>1
  <2> HIDE DEF g, Goes
  <2>4. n + 1 \in Nat /\ \E h : Goes(h, n + 1)
    BY <2>3
  <2> QED
    BY <2>4
<1>3. T = Nat
  <2> HIDE DEF T
  <2>1. T \subseteq Nat
    BY DEF T
  <2> QED
    BY <1>1, <1>2, <2>1, Induction
<1>4. Len(p) \in T
  BY <1>3
<1> QED
  BY <1>4 DEF Walk

LEMMA RealWalk ==
  ASSUME NEW t, NEW p, Len(p) \in Nat
  PROVE  \E f : Walk(t, p, f) /\ Real(t, p) = f[Len(p)]
<1> DEFINE at == CHOOSE f : Walk(t, p, f)
<1>1. Walk(t, p, at)
  BY WalkExists
<1>2. Real(t, p) = at[Len(p)]
  BY DEF Real, Walk
<1> HIDE DEF at
<1> QED
  BY <1>1, <1>2

\* Two walks along the same names, in trees with the same links, agree.
LEMMA WalkUnique ==
  ASSUME NEW t, NEW u, NEW p, NEW q, NEW f, NEW g, NEW k \in Nat,
         Len(p) \in Nat, Len(q) \in Nat, k <= Len(p), k <= Len(q),
         \A i \in 1 .. k : p[i] = q[i], \A r : Follow(t, r) = Follow(u, r),
         Walk(t, p, f), Walk(u, q, g)
  PROVE  f[k] = g[k]
<1> DEFINE T == {n \in Nat : n <= k => f[n] = g[n]}
<1>1. 0 \in T
  BY DEF Walk
<1>2. ASSUME NEW n \in T, n + 1 <= k PROVE f[n + 1] = g[n + 1]
  <2>1. f[n] = g[n] /\ n + 1 \in 1 .. k
    BY <1>2
  <2> DEFINE m == n + 1
  <2>5. m \in 0 .. Len(p) /\ m \in 0 .. Len(q) /\ m # 0 /\ m - 1 = n
    BY <1>2
  <2> HIDE DEF m
  <2>6. f[m] = Follow(t, Append(f[n], p[m]))
    BY <2>5, SMTT(20) DEF Walk
  <2>7. g[m] = Follow(u, Append(g[n], q[m]))
    BY <2>5, SMTT(20) DEF Walk
  <2>2. f[n + 1] = Follow(t, Append(f[n], p[n + 1]))
    BY <2>6 DEF m
  <2>3. g[n + 1] = Follow(u, Append(g[n], q[n + 1]))
    BY <2>7 DEF m
  <2>4. p[n + 1] = q[n + 1]
    BY <2>1
  <2> QED
    BY <2>1, <2>2, <2>3, <2>4
<1>3. T = Nat
  <2>1. \A n \in T : n + 1 \in T
    BY <1>2
  <2>2. T \subseteq Nat
    OBVIOUS
  <2> HIDE DEF T
  <2> QED
    BY <1>1, <2>1, <2>2, Induction
<1> QED
  BY <1>3

\* Real follows a path name by name.
LEMMA RealEmpty ==
  ASSUME NEW t
  PROVE  Real(t, <<>>) = <<>>
<1>1. PICK f : Walk(t, <<>>, f) /\ Real(t, <<>>) = f[Len(<<>>)]
  BY RealWalk
<1> QED
  BY <1>1 DEF Walk

LEMMA RealAppend ==
  ASSUME NEW t, NEW p \in Path, NEW x \in Names
  PROVE  Real(t, Append(p, x)) = Follow(t, Append(Real(t, p), x))
<1> DEFINE q == Append(p, x)
<1>1. /\ q \in Path /\ Len(p) \in Nat /\ Len(q) = Len(p) + 1
      /\ \A i \in 1 .. Len(p) : q[i] = p[i]
      /\ q[Len(p) + 1] = x
  BY PathAppend
<1> HIDE DEF q
<1>2. PICK f : Walk(t, p, f) /\ Real(t, p) = f[Len(p)]
  BY <1>1, RealWalk
<1>3. PICK g : Walk(t, q, g) /\ Real(t, q) = g[Len(q)]
  BY <1>1, RealWalk
<1>4. f[Len(p)] = g[Len(p)]
  <2>1. \A i \in 1 .. Len(p) : p[i] = q[i]
    BY <1>1
  <2>2. Len(p) <= Len(p) /\ Len(p) <= Len(q) /\ Len(q) \in Nat
    BY <1>1
  <2> QED
    BY <1>1, <1>2, <1>3, <2>1, <2>2, WalkUnique
<1>5. g[Len(q)] = Follow(t, Append(g[Len(p)], x))
  <2>1. g[Len(q)] = Follow(t, Append(g[Len(q) - 1], q[Len(q)]))
    <3>1. Len(q) \in 0 .. Len(q) /\ Len(q) # 0
      BY <1>1
    <3> QED
      BY <1>3, <3>1 DEF Walk
  <2>2. Len(q) - 1 = Len(p) /\ q[Len(q)] = x
    BY <1>1
  <2> QED
    BY <2>1, <2>2
<1> QED
  BY <1>2, <1>3, <1>4, <1>5 DEF q

\* It depends on the links of a tree only.
LEMMA RealSame ==
  ASSUME NEW t, NEW u, NEW p, Len(p) \in Nat, \A r : Follow(t, r) = Follow(u, r)
  PROVE  Real(t, p) = Real(u, p)
<1>1. PICK f : Walk(t, p, f) /\ Real(t, p) = f[Len(p)]
  BY RealWalk
<1>2. PICK g : Walk(u, p, g) /\ Real(u, p) = g[Len(p)]
  BY RealWalk
<1> QED
  BY <1>1, <1>2, WalkUnique

----------------------------------------------------------------------------
(* Paths: the last name and what is before it, and prefixes. *)

LEMMA PathFront ==
  ASSUME NEW p \in Path, NEW x \in Names
  PROVE  Front(Append(p, x)) = p /\ Last(Append(p, x)) = x
<1> DEFINE q == Append(p, x)
<1>1. /\ q \in Path /\ Len(p) \in Nat /\ Len(q) = Len(p) + 1
      /\ \A i \in 1 .. Len(p) : q[i] = p[i]
      /\ q[Len(p) + 1] = x
  BY PathAppend
<1> HIDE DEF q
<1>2. Front(q) = SubSeq(q, 1, Len(p)) /\ Last(q) = x
  BY <1>1 DEF Front, Last
<1>3. \A i \in 1 .. Len(p) : q[i] \in Names
  BY <1>1, LenProperties DEF Path
<1>4. /\ Front(q) \in Path /\ Len(Front(q)) = Len(p)
      /\ \A i \in 1 .. Len(p) : Front(q)[i] = p[i]
  BY <1>1, <1>2, <1>3, SubSeqProperties DEF Path
<1>5. Front(q) = p
  BY <1>4, SeqEqual DEF Path
<1> QED
  BY <1>2, <1>5 DEF q

LEMMA PathSplit ==
  ASSUME NEW p \in Path, p # <<>>
  PROVE  /\ Front(p) \in Path /\ Last(p) \in Names /\ p = Append(Front(p), Last(p))
         /\ Len(Front(p)) \in Nat /\ Len(p) = Len(Front(p)) + 1
<1>1. PICK s \in Path, x \in Names : p = Append(s, x)
  BY SequenceEmptyOrAppend DEF Path
<1>2. Front(p) = s /\ Last(p) = x
  BY <1>1, PathFront
<1> QED
  BY <1>1, <1>2, PathAppend

LEMMA PathLen ==
  ASSUME NEW p \in Path
  PROVE  Len(p) \in Nat /\ (Len(p) = 0 <=> p = <<>>)
BY LenProperties, EmptySeq DEF Path

\* Induction over the length of a path.
LEMMA PathInduction ==
  ASSUME NEW T, T \subseteq Path, <<>> \in T,
         \A p \in T : \A x \in Names : Append(p, x) \in T
  PROVE  T = Path
<1> DEFINE N == {n \in Nat : \A p \in Path : Len(p) = n => p \in T}
<1>1. 0 \in N
  BY PathLen
<1>2. ASSUME NEW n \in N PROVE n + 1 \in N
  <2>1. ASSUME NEW p \in Path, Len(p) = n + 1 PROVE p \in T
    <3>1. p # <<>>
      BY <2>1, PathLen
    <3>2. Front(p) \in Path /\ Last(p) \in Names /\ p = Append(Front(p), Last(p)) /\ Len(Front(p)) = n
      BY <2>1, <3>1, PathSplit
    <3> QED
      BY <3>2
  <2> QED
    BY <2>1
<1>3. N = Nat
  <2>1. N \subseteq Nat
    OBVIOUS
  <2> HIDE DEF N
  <2> QED
    BY <1>1, <1>2, <2>1, Induction
<1> QED
  BY <1>3, PathLen

LEMMA PathPrefix ==
  ASSUME NEW p \in Path, NEW n \in 0 .. Len(p)
  PROVE  /\ SubSeq(p, 1, n) \in Path /\ Len(SubSeq(p, 1, n)) = n
         /\ \A i \in 1 .. n : SubSeq(p, 1, n)[i] = p[i]
<1>1. Len(p) \in Nat /\ \A i \in 1 .. n : p[i] \in Names
  BY LenProperties DEF Path
<1> QED
  BY <1>1, SubSeqProperties DEF Path

LEMMA PrefixMeans ==
  ASSUME NEW r \in Path, NEW p \in Path
  PROVE  IsPrefix(r, p) <=> Len(r) <= Len(p) /\ r = SubSeq(p, 1, Len(r))
<1>1. SubSeq(r, 1, Len(r)) = r
  BY SubSeqFull DEF Path
<1> QED
  BY <1>1 DEF IsPrefix

LEMMA PrefixIs ==
  ASSUME NEW r \in Path, NEW p \in Path
  PROVE  IsPrefix(r, p) <=> Len(r) <= Len(p) /\ \A i \in 1 .. Len(r) : r[i] = p[i]
<1>1. Len(r) \in Nat /\ Len(p) \in Nat
  BY PathLen
<1>2. ASSUME Len(r) <= Len(p) PROVE r = SubSeq(p, 1, Len(r)) <=> \A i \in 1 .. Len(r) : r[i] = p[i]
  <2>1. /\ SubSeq(p, 1, Len(r)) \in Path /\ Len(SubSeq(p, 1, Len(r))) = Len(r)
        /\ \A i \in 1 .. Len(r) : SubSeq(p, 1, Len(r))[i] = p[i]
    BY <1>1, <1>2, PathPrefix
  <2> DEFINE q == SubSeq(p, 1, Len(r))
  <2> HIDE DEF q
  <2>2. (\A i \in 1 .. Len(r) : r[i] = q[i]) => r = q
    BY <2>1, SeqEqual DEF Path, q
  <2> QED
    BY <2>1, <2>2 DEF q
<1> QED
  BY <1>2, PrefixMeans

LEMMA PrefixAppend ==
  ASSUME NEW r \in Path, NEW p \in Path, NEW x \in Names
  PROVE  IsPrefix(r, Append(p, x)) <=> r = Append(p, x) \/ IsPrefix(r, p)
<1> DEFINE q == Append(p, x)
<1>1. /\ q \in Path /\ Len(p) \in Nat /\ Len(q) = Len(p) + 1
      /\ \A i \in 1 .. Len(p) : q[i] = p[i]
      /\ q[Len(p) + 1] = x
  BY PathAppend
<1> HIDE DEF q
<1>2. Len(r) \in Nat
  BY PathLen
<1>3. ASSUME IsPrefix(r, q), Len(r) = Len(q) PROVE r = q
  BY <1>1, <1>3, PrefixIs, SeqEqual DEF Path
<1>4. IsPrefix(q, q)
  BY <1>1, PrefixIs
<1>5. ASSUME Len(r) <= Len(p) PROVE IsPrefix(r, q) <=> IsPrefix(r, p)
  BY <1>1, <1>2, <1>5, PrefixIs
<1>6. IsPrefix(r, p) => Len(r) <= Len(p)
  BY PrefixIs
<1>7. IsPrefix(r, q) => Len(r) <= Len(p) \/ Len(r) = Len(q)
  BY <1>1, <1>2, PrefixIs
<1> QED
  BY <1>3, <1>4, <1>5, <1>6, <1>7 DEF q

\* Two prefixes of one path are in each other.
LEMMA PrefixOrder ==
  ASSUME NEW p \in Path, NEW q \in Path, NEW r \in Path
  PROVE  /\ IsPrefix(p, p)
         /\ IsPrefix(p, q) /\ IsPrefix(q, r) => IsPrefix(p, r)
         /\ IsPrefix(p, r) /\ IsPrefix(q, r) => IsPrefix(p, q) \/ IsPrefix(q, p)
         /\ IsPrefix(p, q) /\ IsPrefix(q, p) => p = q
<1>1. Len(p) \in Nat /\ Len(q) \in Nat /\ Len(r) \in Nat
  BY PathLen
<1>2. IsPrefix(p, p)
  BY <1>1, PrefixIs
<1>3. ASSUME IsPrefix(p, q), IsPrefix(q, r) PROVE IsPrefix(p, r)
  <2>1. Len(p) <= Len(q) /\ Len(q) <= Len(r) /\ Len(p) <= Len(r)
    BY <1>1, <1>3, PrefixIs
  <2>2. ASSUME NEW i \in 1 .. Len(p) PROVE p[i] = r[i]
    <3>1. i \in 1 .. Len(q)
      BY <1>1, <2>1
    <3> QED
      BY <1>3, <3>1, PrefixIs
  <2> QED
    BY <2>1, <2>2, PrefixIs
<1>4. ASSUME IsPrefix(p, r), IsPrefix(q, r), Len(p) <= Len(q) PROVE IsPrefix(p, q)
  <2>1. ASSUME NEW i \in 1 .. Len(p) PROVE p[i] = q[i]
    <3>1. i \in 1 .. Len(q)
      BY <1>1, <1>4
    <3> QED
      BY <1>4, <3>1, PrefixIs
  <2> QED
    BY <1>4, <2>1, PrefixIs
<1>5. ASSUME IsPrefix(p, r), IsPrefix(q, r), Len(q) <= Len(p) PROVE IsPrefix(q, p)
  <2>1. ASSUME NEW i \in 1 .. Len(q) PROVE q[i] = p[i]
    <3>1. i \in 1 .. Len(p)
      BY <1>1, <1>5
    <3> QED
      BY <1>5, <3>1, PrefixIs
  <2> QED
    BY <1>5, <2>1, PrefixIs
<1>6. ASSUME IsPrefix(p, q), IsPrefix(q, p) PROVE p = q
  <2>1. Len(p) = Len(q) /\ \A i \in 1 .. Len(p) : p[i] = q[i]
    BY <1>1, <1>6, PrefixIs
  <2> QED
    BY <2>1, SeqEqual DEF Path
<1> QED
  BY <1>1, <1>2, <1>3, <1>4, <1>5, <1>6

----------------------------------------------------------------------------
(* File systems: Real leads to a path without links, and such a path leads *)
(* to itself.                                                              *)

LEMMA StraightMeans ==
  ASSUME NEW t, NEW p \in Path
  PROVE  Straight(t, p) <=> \A r \in Path : IsPrefix(r, p) => r \notin Links(t)
<1>1. Len(p) \in Nat
  BY PathLen
<1>2. ASSUME Straight(t, p), NEW r \in Path, IsPrefix(r, p) PROVE r \notin Links(t)
  <2>1. Len(r) \in 0 .. Len(p) /\ r = SubSeq(p, 1, Len(r))
    BY <1>1, <1>2, PrefixMeans, PathLen
  <2> QED
    BY <1>2, <2>1 DEF Straight
<1>3. ASSUME \A r \in Path : IsPrefix(r, p) => r \notin Links(t), NEW n \in 0 .. Len(p)
      PROVE  SubSeq(p, 1, n) \notin Links(t)
  <2>1. SubSeq(p, 1, n) \in Path /\ Len(SubSeq(p, 1, n)) = n
    BY PathPrefix
  <2>2. IsPrefix(SubSeq(p, 1, n), p)
    <3>1. n <= Len(p)
      BY <1>1
    <3> QED
      BY <2>1, <3>1, PrefixMeans
  <2> QED
    BY <1>3, <2>1, <2>2
<1> QED
  BY <1>2, <1>3 DEF Straight

LEMMA StraightAppend ==
  ASSUME NEW t, NEW p \in Path, NEW x \in Names
  PROVE  Straight(t, Append(p, x)) <=> Straight(t, p) /\ Append(p, x) \notin Links(t)
<1>1. Append(p, x) \in Path
  BY PathAppend
<1> QED
  BY <1>1, StraightMeans, PrefixAppend, PrefixOrder

LEMMA FileSystemMeans ==
  ASSUME NEW t, FileSystem(t)
  PROVE  /\ DOMAIN t \subseteq Path /\ IsFiniteSet(DOMAIN t) /\ <<>> \in DOMAIN t /\ t[<<>>] = Dir
         /\ \A p \in DOMAIN t : p # <<>> => Front(p) \in DOMAIN t /\ t[Front(p)] = Dir
         /\ \A p \in Links(t) : p \in DOMAIN t /\ t[p].target \in Path /\ Straight(t, t[p].target)
         /\ \A p \in DOMAIN t : p \notin Links(t) => t[p] = Dir \/ t[p].kind = "file"
         /\ \A p \in DOMAIN t : t[p].kind = "dir" <=> t[p] = Dir
         /\ \A p \in DOMAIN t : t[p] = Dir => p \notin Links(t)
BY DEF FileSystem, Links, Dir, File, Link

LEMMA FollowMeans ==
  ASSUME NEW t, NEW p
  PROVE  Follow(t, p) = IF p \in Links(t) THEN t[p].target ELSE p
BY DEF Follow, Exists, Links

LEMMA RealStraight ==
  ASSUME NEW t, FileSystem(t), NEW p \in Path
  PROVE  Real(t, p) \in Path /\ Straight(t, Real(t, p))
<1> DEFINE T == {q \in Path : Real(t, q) \in Path /\ Straight(t, Real(t, q))}
<1>1. <<>> \in T
  <2>1. <<>> \in Path /\ \A r \in Path : IsPrefix(r, <<>>) => r = <<>>
    <3>1. <<>> \in Path /\ Len(<<>>) = 0
      BY EmptySeq DEF Path
    <3>2. ASSUME NEW r \in Path, IsPrefix(r, <<>>) PROVE r = <<>>
      BY <3>1, <3>2, PrefixIs, PathLen
    <3> QED
      BY <3>1, <3>2
  <2>2. <<>> \notin Links(t)
    BY FileSystemMeans
  <2> QED
    BY <2>1, <2>2, RealEmpty, StraightMeans
<1>2. ASSUME NEW q \in T, NEW x \in Names PROVE Append(q, x) \in T
  <2> DEFINE r == Append(Real(t, q), x)
  <2>1. r \in Path /\ Append(q, x) \in Path
    BY PathAppend
  <2>2. Real(t, Append(q, x)) = Follow(t, r)
    BY RealAppend
  <2>3. CASE r \in Links(t)
    <3>1. t[r].target \in Path /\ Straight(t, t[r].target)
      BY <2>3, FileSystemMeans
    <3> QED
      BY <2>1, <2>2, <2>3, <3>1, FollowMeans
  <2>4. CASE r \notin Links(t)
    <3>1. Straight(t, r)
      BY <2>4, StraightAppend
    <3> QED
      BY <2>1, <2>2, <2>4, <3>1, FollowMeans
  <2> QED
    BY <2>3, <2>4
<1>3. T = Path
  <2>1. T \subseteq Path
    OBVIOUS
  <2> HIDE DEF T
  <2> QED
    BY <1>1, <1>2, <2>1, PathInduction
<1> QED
  BY <1>3

LEMMA RealNoLink ==
  ASSUME NEW t, FileSystem(t), NEW p \in Path
  PROVE  Real(t, p) \notin Links(t)
BY RealStraight, StraightMeans, PrefixOrder

LEMMA StraightReal ==
  ASSUME NEW t, NEW p \in Path, Straight(t, p)
  PROVE  Real(t, p) = p
<1> DEFINE T == {q \in Path : Straight(t, q) => Real(t, q) = q}
<1>1. <<>> \in T
  BY RealEmpty, EmptySeq DEF Path
<1>2. ASSUME NEW q \in T, NEW x \in Names PROVE Append(q, x) \in T
  <2>1. Append(q, x) \in Path
    BY PathAppend
  <2>2. ASSUME Straight(t, Append(q, x)) PROVE Real(t, Append(q, x)) = Append(q, x)
    <3>1. Straight(t, q) /\ Append(q, x) \notin Links(t)
      BY <2>2, StraightAppend
    <3>2. Real(t, q) = q /\ Real(t, Append(q, x)) = Follow(t, Append(Real(t, q), x))
      BY <3>1, RealAppend
    <3>3. Follow(t, Append(q, x)) = Append(q, x)
      BY <3>1, FollowMeans
    <3> QED
      BY <3>2, <3>3
  <2> QED
    BY <2>1, <2>2
<1>3. T = Path
  <2>1. T \subseteq Path
    OBVIOUS
  <2> HIDE DEF T
  <2> QED
    BY <1>1, <1>2, <2>1, PathInduction
<1> QED
  BY <1>3

\* What exists is in directories only, so that it leads to itself.
LEMMA Ancestors ==
  ASSUME NEW t, FileSystem(t), NEW p \in DOMAIN t, NEW r \in Path, IsPrefix(r, p)
  PROVE  r \in DOMAIN t /\ (r # p => t[r] = Dir)
<1> DEFINE T == {q \in Path : q \in DOMAIN t =>
                   \A d \in Path : IsPrefix(d, q) => d \in DOMAIN t /\ (d # q => t[d] = Dir)}
<1>1. <<>> \in T
  <2>1. <<>> \in Path /\ Len(<<>>) = 0
    BY EmptySeq DEF Path
  <2>2. ASSUME NEW d \in Path, IsPrefix(d, <<>>) PROVE d = <<>>
    BY <2>1, <2>2, PrefixIs, PathLen
  <2> QED
    BY <2>1, <2>2
<1>2. ASSUME NEW q \in T, NEW x \in Names PROVE Append(q, x) \in T
  <2>1. Append(q, x) \in Path /\ Append(q, x) # <<>> /\ Front(Append(q, x)) = q
    BY PathAppend, PathFront, PathLen
  <2>2. ASSUME Append(q, x) \in DOMAIN t, NEW d \in Path, IsPrefix(d, Append(q, x))
        PROVE  d \in DOMAIN t /\ (d # Append(q, x) => t[d] = Dir)
    <3>1. q \in DOMAIN t /\ t[q] = Dir
      BY <2>1, <2>2, FileSystemMeans
    <3>2. d = Append(q, x) \/ IsPrefix(d, q)
      BY <2>2, PrefixAppend
    <3> QED
      BY <2>2, <3>1, <3>2
  <2> QED
    BY <2>1, <2>2
<1>3. T = Path
  <2>1. T \subseteq Path
    OBVIOUS
  <2> HIDE DEF T
  <2> QED
    BY <1>1, <1>2, <2>1, PathInduction
<1>4. p \in Path
  BY FileSystemMeans
<1> QED
  BY <1>3, <1>4

LEMMA ExistsReal ==
  ASSUME NEW t, FileSystem(t), NEW p \in DOMAIN t, p \notin Links(t)
  PROVE  Straight(t, p) /\ Real(t, p) = p
<1>1. p \in Path
  BY FileSystemMeans
<1>2. ASSUME NEW r \in Path, IsPrefix(r, p) PROVE r \notin Links(t)
  BY <1>2, Ancestors, FileSystemMeans
<1>3. Straight(t, p)
  BY <1>1, <1>2, StraightMeans
<1> QED
  BY <1>1, <1>3, StraightReal

LEMMA RealReal ==
  ASSUME NEW t, FileSystem(t), NEW p \in Path
  PROVE  Real(t, Real(t, p)) = Real(t, p)
BY RealStraight, StraightReal

----------------------------------------------------------------------------
(* What the program does to a file system: it adds directories and writes  *)
(* files, and leaves directories and links as they are.                    *)

Grown(t, u) ==
  /\ FileSystem(u)
  /\ Links(u) = Links(t) /\ \A p \in Links(t) : u[p] = t[p]
  /\ \A p \in DOMAIN t : p \in DOMAIN u /\ (u[p] = Dir <=> t[p] = Dir)

LEMMA GrownItself ==
  ASSUME NEW t, FileSystem(t)
  PROVE  Grown(t, t)
BY DEF Grown

LEMMA GrownFurther ==
  ASSUME NEW t, NEW u, NEW v, Grown(t, u), Grown(u, v)
  PROVE  Grown(t, v)
BY DEF Grown

LEMMA GrownReal ==
  ASSUME NEW t, NEW u, Grown(t, u), NEW p \in Path
  PROVE  Real(u, p) = Real(t, p)
<1>1. \A r : Follow(t, r) = Follow(u, r)
  BY FollowMeans DEF Grown
<1> QED
  BY <1>1, RealSame, PathLen

\* A tree with the links of a file system is one if all that is new is in its place.
LEMMA FileSystemGrows ==
  ASSUME NEW t, FileSystem(t), NEW u, DOMAIN u \subseteq Path, IsFiniteSet(DOMAIN u),
         \A p \in DOMAIN t : p \in DOMAIN u /\ (u[p] = t[p] \/ (t[p].kind = "file" /\ \E c : u[p] = File(c))),
         \A p \in DOMAIN u \ DOMAIN t :
           /\ p # <<>> /\ Front(p) \in DOMAIN u /\ u[Front(p)] = Dir
           /\ u[p] = Dir \/ \E c : u[p] = File(c)
  PROVE  Grown(t, u)
<1>1. \A c : File(c) # Dir /\ File(c).kind = "file" /\ File(c).content = c
  BY DEF File, Dir
<1>2. \A p \in DOMAIN t : t[p] = Dir => t[p].kind = "dir"
  BY DEF Dir
<1>3. Dir.kind = "dir"
  BY DEF Dir
<1>4. Links(u) = Links(t) /\ \A p \in Links(t) : u[p] = t[p]
  BY <1>1, <1>3 DEF Links
<1>5. \A p \in DOMAIN t : p \in DOMAIN u /\ (u[p] = Dir <=> t[p] = Dir)
  BY <1>1, <1>2
<1>6. \A p : Straight(u, p) <=> Straight(t, p)
  BY <1>4 DEF Straight
<1>7. ASSUME NEW p \in DOMAIN u, p # <<>> PROVE Front(p) \in DOMAIN u /\ u[Front(p)] = Dir
  <2>1. CASE p \in DOMAIN t
    <3>1. Front(p) \in DOMAIN t /\ t[Front(p)] = Dir
      BY <1>7, <2>1, FileSystemMeans
    <3> QED
      BY <1>5, <3>1
  <2> QED
    BY <1>7, <2>1
<1>8. ASSUME NEW p \in DOMAIN u
      PROVE  \/ u[p] = Dir
             \/ u[p].kind = "file" /\ u[p] = File(u[p].content)
             \/ u[p].kind = "link" /\ u[p] = Link(u[p].target) /\ u[p].target \in Path /\ Straight(u, u[p].target)
  <2>1. CASE \E c : u[p] = File(c)
    BY <1>1, <2>1
  <2>2. CASE p \in DOMAIN t /\ u[p] = t[p]
    BY <1>6, <2>2 DEF FileSystem
  <2> QED
    BY <2>1, <2>2
<1>9. <<>> \in DOMAIN u /\ u[<<>>] = Dir
  BY <1>5, FileSystemMeans
<1>10. FileSystem(u)
  BY <1>7, <1>8, <1>9 DEF FileSystem
<1> QED
  BY <1>4, <1>5, <1>10 DEF Grown

LEMMA OnTheWay ==
  ASSUME NEW p \in Path
  PROVE  Above(p) \cup {p} = {r \in Path : IsPrefix(r, p)}
<1>1. Len(p) \in Nat
  BY PathLen
<1>2. ASSUME NEW r \in Above(p) \cup {p} PROVE r \in Path /\ IsPrefix(r, p)
  <2>1. CASE r = p
    BY <2>1, PrefixOrder
  <2>2. CASE r \in Above(p)
    <3>1. PICK n \in 0 .. Len(p) - 1 : r = SubSeq(p, 1, n)
      BY <2>2 DEF Above
    <3>2. n \in 0 .. Len(p) /\ n <= Len(p)
      BY <1>1
    <3>3. r \in Path /\ Len(r) = n
      BY <3>1, <3>2, PathPrefix
    <3> QED
      BY <3>1, <3>2, <3>3, PrefixMeans
  <2> QED
    BY <2>1, <2>2
<1>3. ASSUME NEW r \in Path, IsPrefix(r, p), r # p PROVE r \in Above(p)
  <2>1. Len(r) \in Nat /\ Len(r) <= Len(p) /\ r = SubSeq(p, 1, Len(r))
    BY <1>3, PrefixMeans, PathLen
  <2>2. Len(r) # Len(p)
    <3>1. SubSeq(p, 1, Len(p)) = p
      BY SubSeqFull DEF Path
    <3> QED
      BY <1>3, <2>1, <3>1
  <2>3. Len(r) \in 0 .. Len(p) - 1
    BY <1>1, <2>1, <2>2
  <2> QED
    BY <2>1, <2>3 DEF Above
<1> QED
  BY <1>2, <1>3

LEMMA Canonical ==
  ASSUME NEW t, FileSystem(t), NEW p \in Path, p # <<>>
  PROVE  /\ make_canonical_path(t, p) = Append(Real(t, Front(p)), Last(p))
         /\ make_canonical_path(t, p) \in Path /\ make_canonical_path(t, p) # <<>>
         /\ Front(make_canonical_path(t, p)) = Real(t, Front(p))
         /\ Real(t, p) = Follow(t, make_canonical_path(t, p))
         /\ Real(t, make_canonical_path(t, p)) = Real(t, p)
<1> DEFINE d == Front(p)
           x == Last(p)
           c == Append(Real(t, d), x)
<1>1. d \in Path /\ x \in Names /\ p = Append(d, x)
  BY PathSplit
<1>2. make_canonical_path(t, p) = c
  BY DEF make_canonical_path
<1> HIDE DEF d, x
<1>3. Real(t, d) \in Path
  BY <1>1, RealStraight
<1>4. c \in Path /\ c # <<>> /\ Front(c) = Real(t, d)
  BY <1>1, <1>3, PathAppend, PathFront, PathLen
<1>5. Real(t, p) = Follow(t, c)
  BY <1>1, RealAppend
<1>6. Real(t, c) = Follow(t, Append(Real(t, Real(t, d)), x))
  BY <1>1, <1>3, RealAppend
<1>7. Real(t, c) = Follow(t, c)
  BY <1>1, <1>6, RealReal
<1> QED
  BY <1>2, <1>4, <1>5, <1>7 DEF d, x

\* Where mkdirs makes directories: what exists on the way to p is a directory, and
\* what does not has its place in what the path before it leads to.
LEMMA DirectoryThere ==
  ASSUME NEW t, FileSystem(t), NEW p \in Path, ~Blocked(t, p), NEW d \in Path, IsPrefix(d, p),
         Real(t, d) \in DOMAIN t
  PROVE  t[Real(t, d)] = Dir
<1>1. CASE d = <<>>
  BY <1>1, RealEmpty, FileSystemMeans
<1>2. CASE d # <<>>
  <2> DEFINE c == make_canonical_path(t, d)
  <2>1. Real(t, d) = Follow(t, c)
    BY <1>2, Canonical
  <2> HIDE DEF c
  <2>2. c \in DOMAIN t
    BY <2>1, FollowMeans, FileSystemMeans
  <2>3. d \in Above(p) \cup {p}
    BY OnTheWay
  <2>4. IsKind(t, d, "dir")
    BY <2>2, <2>3 DEF Blocked, Exists, c
  <2> QED
    BY <2>4, FileSystemMeans DEF IsKind
<1> QED
  BY <1>1, <1>2

LEMMA DirectoryMade ==
  ASSUME NEW t, FileSystem(t), NEW p \in Path, ~Blocked(t, p), NEW d \in Path, IsPrefix(d, p),
         Real(t, d) \notin DOMAIN t
  PROVE  /\ d # <<>> /\ Real(t, d) \in Path /\ Real(t, d) # <<>>
         /\ Front(d) \in Path /\ IsPrefix(Front(d), p) /\ Front(Real(t, d)) = Real(t, Front(d))
<1> DEFINE c == make_canonical_path(t, d)
<1>1. d # <<>>
  BY RealEmpty, FileSystemMeans
<1>2. c \in Path /\ c # <<>> /\ Front(c) = Real(t, Front(d)) /\ Real(t, d) = Follow(t, c)
  BY <1>1, Canonical
<1> HIDE DEF c
<1>3. c \notin DOMAIN t
  <2> SUFFICES ASSUME c \in DOMAIN t PROVE FALSE
    OBVIOUS
  <2>1. d \in Above(p) \cup {p}
    BY OnTheWay
  <2>2. IsKind(t, d, "dir")
    BY <2>1 DEF Blocked, Exists, c
  <2> QED
    BY <2>2 DEF IsKind, Exists
<1>4. Real(t, d) = c
  BY <1>2, <1>3, FollowMeans, FileSystemMeans
<1>5. Front(d) \in Path /\ IsPrefix(Front(d), d)
  <2>1. Front(d) \in Path /\ Last(d) \in Names /\ d = Append(Front(d), Last(d))
    BY <1>1, PathSplit
  <2>2. IsPrefix(Front(d), Front(d))
    BY <2>1, PrefixOrder
  <2>3. IsPrefix(Front(d), Append(Front(d), Last(d)))
    BY <2>1, <2>2, PrefixAppend
  <2> QED
    BY <2>1, <2>3
<1>6. IsPrefix(Front(d), p)
  BY <1>5, PrefixOrder
<1> QED
  BY <1>1, <1>2, <1>4, <1>5, <1>6

\* What a function makes of a finite set is finite.
LEMMA FiniteImage ==
  ASSUME NEW S, IsFiniteSet(S), NEW f, DOMAIN f = S, f = [x \in S |-> f[x]]
  PROVE  IsFiniteSet({f[x] : x \in S})
<1> DEFINE T == {f[x] : x \in S}
<1>1. f \in Surjection(S, T)
  <2>1. \A x \in S : f[x] \in T
    OBVIOUS
  <2>2. \A y \in T : \E x \in S : f[x] = y
    OBVIOUS
  <2> HIDE DEF T
  <2>3. f \in [S -> T]
    BY <2>1
  <2> QED
    BY <2>2, <2>3 DEF Surjection
<1> HIDE DEF T
<1>2. IsFiniteSet(T)
  BY <1>1, FS_Surjection
<1> QED
  BY <1>2 DEF T

\* mkdirs(p), if nothing is in the way.
LEMMA MkdirsGrows ==
  ASSUME NEW t, FileSystem(t), NEW p \in Path, ~Blocked(t, p)
  PROVE  /\ Grown(t, mkdirs(t, p))
         /\ \A q \in DOMAIN t : mkdirs(t, p)[q] = t[q]
         /\ \A q \in DOMAIN mkdirs(t, p) \ DOMAIN t : \E d \in Path : IsPrefix(d, p) /\ q = Real(t, d)
         /\ Real(t, p) \in DOMAIN mkdirs(t, p) /\ mkdirs(t, p)[Real(t, p)] = Dir
<1> DEFINE missing == {d \in Path : IsPrefix(d, p) /\ Real(t, d) \notin DOMAIN t}
           made == {Real(t, d) : d \in missing}
           u == mkdirs(t, p)
<1>1. MissingDirs(t, p) = missing
  BY OnTheWay DEF MissingDirs, Exists
<1>2. DOMAIN u = DOMAIN t \cup made /\ \A q \in DOMAIN u : u[q] = IF q \in DOMAIN t THEN t[q] ELSE Dir
  BY <1>1 DEF mkdirs
<1>3. \A d \in missing : d \in Path /\ IsPrefix(d, p) /\ Real(t, d) \notin DOMAIN t
  OBVIOUS
<1>4. \A q \in made : \E d \in missing : q = Real(t, d)
  OBVIOUS
<1>5. \A d \in Path : IsPrefix(d, p) /\ Real(t, d) \notin DOMAIN t => Real(t, d) \in made
  OBVIOUS
<1>6. IsFiniteSet(made)
  <2> DEFINE N == 0 .. Len(p)
             way == [n \in N |-> Real(t, SubSeq(p, 1, n))]
  <2>1. IsFiniteSet(N)
    <3>1. Len(p) \in Int
      BY PathLen
    <3> QED
      BY <3>1, FS_Interval
  <2>2. IsFiniteSet({way[n] : n \in N})
    <3>1. DOMAIN way = N /\ way = [n \in N |-> way[n]]
      OBVIOUS
    <3> HIDE DEF way, N
    <3> QED
      BY <2>1, <3>1, FiniteImage
  <2>3. ASSUME NEW q \in made PROVE q \in {way[n] : n \in N}
    <3>1. PICK d \in missing : q = Real(t, d)
      BY <1>4
    <3>2. Len(d) \in Nat /\ Len(p) \in Nat /\ Len(d) <= Len(p) /\ d = SubSeq(p, 1, Len(d))
      BY <1>3, <3>1, PrefixMeans, PathLen
    <3>3. Len(d) \in N
      BY <3>2
    <3>4. way[Len(d)] = Real(t, SubSeq(p, 1, Len(d)))
      BY <3>3
    <3>5. way[Len(d)] = q
      BY <3>1, <3>2, <3>4
    <3> HIDE DEF way, N
    <3> QED
      BY <3>3, <3>5
  <2>4. made \in SUBSET {way[n] : n \in N}
    BY <2>3
  <2> QED
    BY <2>2, <2>4, FS_Subset
<1> HIDE DEF missing, made, u
<1>7. ASSUME NEW q \in DOMAIN u \ DOMAIN t
      PROVE  /\ q \in Path /\ q # <<>> /\ Front(q) \in DOMAIN u /\ u[Front(q)] = Dir /\ u[q] = Dir
             /\ \E d \in Path : IsPrefix(d, p) /\ q = Real(t, d)
  <2>1. PICK d \in missing : q = Real(t, d)
    BY <1>2, <1>4
  <2>2. d \in Path /\ IsPrefix(d, p) /\ Real(t, d) \notin DOMAIN t
    BY <1>3, <2>1
  <2>3. /\ q \in Path /\ q # <<>>
        /\ Front(d) \in Path /\ IsPrefix(Front(d), p) /\ Front(q) = Real(t, Front(d))
    BY <2>1, <2>2, DirectoryMade
  <2>4. CASE Front(q) \in DOMAIN t
    BY <1>2, <2>1, <2>2, <2>3, <2>4, DirectoryThere
  <2>5. CASE Front(q) \notin DOMAIN t
    BY <1>2, <1>5, <2>1, <2>2, <2>3, <2>5
  <2> QED
    BY <2>4, <2>5
<1>8. Grown(t, u)
  <2>1. IsFiniteSet(DOMAIN u)
    <3>1. IsFiniteSet(DOMAIN t)
      BY FileSystemMeans
    <3>2. IsFiniteSet(DOMAIN t \cup made)
      BY <1>6, <3>1, FS_Union
    <3> QED
      BY <1>2, <3>2
  <2>2. DOMAIN u \subseteq Path
    BY <1>7, FileSystemMeans
  <2>3. \A q \in DOMAIN t : q \in DOMAIN u /\ u[q] = t[q]
    BY <1>2
  <2> QED
    BY <1>7, <2>1, <2>2, <2>3, FileSystemGrows
<1>9. IsPrefix(p, p)
  BY PrefixOrder
<1>10. Real(t, p) \in DOMAIN u /\ u[Real(t, p)] = Dir
  BY <1>2, <1>5, <1>9, DirectoryThere
<1> QED
  BY <1>2, <1>7, <1>8, <1>10 DEF u

\* Writing to a file, one that is there or one that is to be made in a directory.
LEMMA WrittenGrows ==
  ASSUME NEW t, FileSystem(t), NEW p \in Path, Writable(t, p) \/ IsKind(t, p, "file"), NEW c
  PROVE  /\ Grown(t, Written(t, p, c))
         /\ \A q \in DOMAIN Written(t, p, c) : q # Real(t, p) => q \in DOMAIN t /\ Written(t, p, c)[q] = t[q]
         /\ Real(t, p) \in DOMAIN Written(t, p, c) /\ Written(t, p, c)[Real(t, p)] = File(c)
<1> DEFINE r == Real(t, p)
           u == Written(t, p, c)
<1>1. DOMAIN u = DOMAIN t \cup {r} /\ \A q \in DOMAIN u : u[q] = IF q = r THEN File(c) ELSE t[q]
  BY DEF Written
<1>2. r \in Path /\ Straight(t, r) /\ r \notin Links(t)
  BY RealStraight, RealNoLink
<1> HIDE DEF r, u
<1>3. r \in DOMAIN t => t[r].kind = "file"
  <2>1. CASE IsKind(t, p, "file")
    BY <2>1 DEF IsKind, r
  <2>2. CASE Writable(t, p)
    BY <1>2, <2>2, FileSystemMeans DEF Writable, IsKind, Exists, r
  <2> QED
    BY <2>1, <2>2
<1>4. r # <<>> /\ Front(r) \in DOMAIN t /\ t[Front(r)] = Dir
  <2>1. r # <<>>
    BY <1>3, FileSystemMeans
  <2>2. CASE r \in DOMAIN t
    BY <2>1, <2>2, FileSystemMeans
  <2>3. CASE r \notin DOMAIN t
    <3>1. IsKind(t, Front(r), "dir")
      BY <2>3 DEF Writable, IsKind, Exists, r
    <3>2. Front(r) \in Path /\ Last(r) \in Names /\ r = Append(Front(r), Last(r))
      BY <1>2, <2>1, PathSplit
    <3>3. Straight(t, Front(r))
      BY <1>2, <3>2, StraightAppend
    <3>4. Real(t, Front(r)) = Front(r)
      BY <3>2, <3>3, StraightReal
    <3> QED
      BY <2>1, <3>1, <3>4, FileSystemMeans DEF IsKind, Exists
  <2> QED
    BY <2>2, <2>3
<1>5. Front(r) # r
  BY <1>2, <1>4, PathSplit
<1>6. Grown(t, u)
  <2>1. IsFiniteSet(DOMAIN u)
    BY <1>1, FileSystemMeans, FS_AddElement
  <2>2. DOMAIN u \subseteq Path
    BY <1>1, <1>2, FileSystemMeans
  <2>3. \A q \in DOMAIN t : q \in DOMAIN u /\ (u[q] = t[q] \/ (t[q].kind = "file" /\ \E e : u[q] = File(e)))
    BY <1>1, <1>3
  <2>4. \A q \in DOMAIN u \ DOMAIN t :
          /\ q # <<>> /\ Front(q) \in DOMAIN u /\ u[Front(q)] = Dir
          /\ u[q] = Dir \/ \E e : u[q] = File(e)
    BY <1>1, <1>4, <1>5
  <2> QED
    BY <2>1, <2>2, <2>3, <2>4, FileSystemGrows
<1> QED
  BY <1>1, <1>6 DEF r, u

----------------------------------------------------------------------------
(* The arguments, and what paths in the destination lead to. *)

LEMMA CanonicalAgain ==
  ASSUME NEW t, FileSystem(t), NEW p \in Path
  PROVE  /\ make_canonical_path(t, p) \in Path
         /\ Real(t, make_canonical_path(t, p)) = Real(t, p)
         /\ make_canonical_path(t, make_canonical_path(t, p)) = make_canonical_path(t, p)
<1>1. CASE p = <<>>
  BY <1>1 DEF make_canonical_path
<1>2. CASE p # <<>>
  <2> DEFINE c == make_canonical_path(t, p)
  <2>1. /\ c = Append(Real(t, Front(p)), Last(p)) /\ c \in Path /\ c # <<>> /\ Front(c) = Real(t, Front(p))
        /\ Real(t, c) = Real(t, p)
    BY <1>2, Canonical
  <2>2. Front(p) \in Path /\ Last(p) \in Names
    BY <1>2, PathSplit
  <2>3. Last(c) = Last(p)
    BY <2>1, <2>2, PathFront, RealStraight
  <2> HIDE DEF c
  <2>4. make_canonical_path(t, c) = Append(Real(t, Front(c)), Last(c))
    BY <2>1, Canonical
  <2>5. Real(t, Front(c)) = Real(t, Front(p))
    BY <2>1, <2>2, RealReal
  <2> QED
    BY <2>1, <2>3, <2>4, <2>5 DEF c
<1> QED
  BY <1>1, <1>2

LEMMA Arguments ==
  ASSUME world \in Worlds
  PROVE  /\ FileSystem(Start) /\ source \in Path /\ destination \in Path /\ world.mozilla \in BOOLEAN
         /\ make_canonical_path(Start, source) = source /\ make_canonical_path(Start, destination) = destination
         /\ Real(Start, destination) = Follow(Start, destination)
         /\ \A d \in Path : IsPrefix(d, destination) /\ d # destination =>
              d \in DOMAIN Start /\ Start[d] = Dir /\ Real(Start, d) = d
<1>1. /\ FileSystem(Start) /\ world.source \in Path /\ world.destination \in Path /\ world.mozilla \in BOOLEAN
      /\ IsKind(Start, Front(world.destination), "dir")
  BY WorldAssumption DEF Start
<1>2. /\ source \in Path /\ destination \in Path
      /\ make_canonical_path(Start, source) = source /\ make_canonical_path(Start, destination) = destination
  BY <1>1, CanonicalAgain DEF source, destination
<1>3. CASE destination = <<>>
  <2>1. Follow(Start, <<>>) = <<>>
    BY <1>1, FollowMeans, FileSystemMeans
  <2>2. ASSUME NEW d \in Path, IsPrefix(d, destination) PROVE d = destination
    <3>1. IsPrefix(<<>>, d)
      BY <1>2, <1>3, PrefixIs, PathLen
    <3> QED
      BY <1>2, <1>3, <2>2, <3>1, PrefixOrder
  <2> QED
    BY <1>1, <1>2, <1>3, <2>1, <2>2, RealEmpty
<1>4. CASE destination # <<>>
  <2>1. Real(Start, destination) = Follow(Start, destination)
    BY <1>1, <1>2, <1>4, Canonical
  <2>2. world.destination # <<>>
    BY <1>4 DEF destination, make_canonical_path
  <2>3. Front(destination) = Real(Start, Front(world.destination))
    BY <1>1, <2>2, Canonical DEF destination
  <2>4. Front(destination) \in DOMAIN Start /\ Start[Front(destination)] = Dir
    BY <1>1, <2>3, FileSystemMeans DEF IsKind, Exists
  <2>5. Front(destination) \in Path /\ Last(destination) \in Names
        /\ destination = Append(Front(destination), Last(destination))
    BY <1>2, <1>4, PathSplit
  <2>6. ASSUME NEW d \in Path, IsPrefix(d, destination), d # destination
        PROVE  d \in DOMAIN Start /\ Start[d] = Dir /\ Real(Start, d) = d
    <3>1. IsPrefix(d, Front(destination))
      BY <2>5, <2>6, PrefixAppend
    <3>2. d \in DOMAIN Start /\ Start[d] = Dir
      BY <1>1, <2>4, <3>1, Ancestors
    <3>3. d \notin Links(Start)
      BY <1>1, <3>2, FileSystemMeans
    <3> QED
      BY <1>1, <3>2, <3>3, ExistsReal
  <2> QED
    BY <1>1, <1>2, <2>1, <2>6
<1> QED
  BY <1>3, <1>4

LEMMA PathConcat ==
  ASSUME NEW p \in Path, NEW r \in Path
  PROVE  /\ p \o r \in Path /\ p \o <<>> = p
         /\ \A x \in Names : p \o Append(r, x) = Append(p \o r, x)
         /\ r # <<>> => Front(p \o r) = p \o Front(r)
<1>1. p \o r \in Path /\ p \o <<>> = p
  BY ConcatProperties, ConcatEmptySeq DEF Path
<1>2. ASSUME NEW q \in Path, NEW x \in Names PROVE p \o Append(q, x) = Append(p \o q, x)
  <2>1. <<x>> \in Path
    BY DEF Path
  <2>2. Append(q, x) = q \o <<x>>
    BY AppendIsConcat DEF Path
  <2>3. p \o q \in Path
    BY ConcatProperties DEF Path
  <2>4. Append(p \o q, x) = (p \o q) \o <<x>>
    BY <2>3, AppendIsConcat DEF Path
  <2>5. (p \o q) \o <<x>> = p \o (q \o <<x>>)
    BY <2>1, ConcatAssociative DEF Path
  <2> QED
    BY <2>2, <2>4, <2>5
<1>3. ASSUME r # <<>> PROVE Front(p \o r) = p \o Front(r)
  <2>1. Front(r) \in Path /\ Last(r) \in Names /\ r = Append(Front(r), Last(r))
    BY <1>3, PathSplit
  <2>2. p \o r = Append(p \o Front(r), Last(r))
    BY <1>2, <2>1
  <2>3. p \o Front(r) \in Path
    BY <2>1, ConcatProperties DEF Path
  <2> QED
    BY <2>1, <2>2, <2>3, PathFront
<1> QED
  BY <1>1, <1>2, <1>3

LEMMA PrefixConcat ==
  ASSUME NEW p \in Path, NEW r \in Path, NEW d \in Path, IsPrefix(d, p \o r)
  PROVE  (IsPrefix(d, p) /\ d # p) \/ \E q \in Path : d = p \o q
<1> DEFINE T == {s \in Path : IsPrefix(d, p \o s) => (IsPrefix(d, p) /\ d # p) \/ \E q \in Path : d = p \o q}
<1>1. <<>> \in T
  <2>1. <<>> \in Path /\ p \o <<>> = p
    BY EmptySeq, PathConcat DEF Path
  <2> QED
    BY <2>1
<1>2. ASSUME NEW s \in T, NEW x \in Names PROVE Append(s, x) \in T
  <2>1. s \in Path
    OBVIOUS
  <2>2. Append(s, x) \in Path /\ p \o s \in Path
    BY <2>1, PathAppend, PathConcat
  <2>3. p \o Append(s, x) = Append(p \o s, x)
    BY <2>1, PathConcat
  <2>4. ASSUME IsPrefix(d, p \o Append(s, x)) PROVE d = p \o Append(s, x) \/ IsPrefix(d, p \o s)
    BY <2>2, <2>3, <2>4, PrefixAppend
  <2> QED
    BY <2>2, <2>4
<1>3. T = Path
  <2>1. T \subseteq Path
    OBVIOUS
  <2> HIDE DEF T
  <2> QED
    BY <1>1, <1>2, <2>1, PathInduction
<1> QED
  BY <1>3

\* A path that begins with the destination leads into it, or to where a link in it leads.
Placed(p) == Inside(p, destination) \/ Leads(p)

LEMMA Reach ==
  ASSUME world \in Worlds, NEW r \in Path
  PROVE  Placed(Real(Start, destination \o r))
<1> DEFINE D == Real(Start, destination)
           T == {s \in Path : Placed(Real(Start, destination \o s))}
<1>1. FileSystem(Start) /\ destination \in Path /\ D \in Path /\ D = Follow(Start, destination)
  BY Arguments, RealStraight
<1>2. \A p : Inside(p, destination) <=> IsPrefix(D, p)
  BY DEF Inside
<1> HIDE DEF D
<1>3. <<>> \in T
  <2>1. <<>> \in Path /\ Real(Start, destination \o <<>>) = D
    BY <1>1, PathConcat, EmptySeq DEF Path, D
  <2> QED
    BY <1>1, <1>2, <2>1, PrefixOrder DEF Placed
<1>4. ASSUME NEW s \in T, NEW x \in Names PROVE Append(s, x) \in T
  <2> DEFINE q == Real(Start, destination \o s)
             y == Append(q, x)
  <2>0. s \in Path
    OBVIOUS
  <2> HIDE DEF T
  <2>1. /\ Append(s, x) \in Path /\ destination \o s \in Path
        /\ destination \o Append(s, x) = Append(destination \o s, x)
    <3>1. Append(s, x) \in Path /\ destination \o s \in Path
      BY <1>1, <2>0, PathAppend, PathConcat
    <3>2. destination \o Append(s, x) = Append(destination \o s, x)
      BY <1>1, <2>0, PathConcat
    <3> QED
      BY <3>1, <3>2
  <2> USE DEF T
  <2>2. q \in Path /\ y \in Path
    BY <1>1, <2>1, RealStraight, PathAppend
  <2>3. Real(Start, destination \o Append(s, x)) = Follow(Start, y)
    BY <2>1, RealAppend
  <2>4. Placed(q)
    OBVIOUS
  <2> HIDE DEF q
  <2>5. IsPrefix(D, q) => IsPrefix(D, y)
    BY <1>1, <2>2, PrefixAppend
  <2>6. ASSUME NEW targets \in SUBSET {Start[l].target : l \in Links(Start)}, NEW e \in targets, IsPrefix(e, q)
        PROVE  IsPrefix(e, y)
    <3>1. e \in Path
      BY <1>1, FileSystemMeans
    <3> QED
      BY <2>2, <2>6, <3>1, PrefixAppend
  <2>7. CASE y \notin Links(Start)
    <3>1. Placed(y)
      BY <1>2, <2>4, <2>5, <2>6 DEF Placed, Leads
    <3> QED
      BY <2>1, <2>3, <2>7, <3>1, FollowMeans
  <2>8. CASE y = destination
    BY <1>1, <1>2, <2>1, <2>3, <2>8, PrefixOrder DEF Placed
  <2>9. CASE y \in Links(Start) /\ y # destination
    <3>1. ASSUME NEW targets \in SUBSET {Start[l].target : l \in Links(Start)}, Closed(targets)
          PROVE  \E e \in targets : IsPrefix(e, Start[y].target)
      <4>1. Inside(y, destination) \/ \E e \in targets : IsPrefix(e, y)
        BY <1>2, <2>4, <2>5, <2>6, <3>1 DEF Placed, Leads
      <4>2. Start[y].target \in targets
        BY <2>9, <3>1, <4>1 DEF Closed
      <4>3. Start[y].target \in Path
        BY <1>1, <2>9, FileSystemMeans
      <4> QED
        BY <4>2, <4>3, PrefixOrder
    <3>2. Leads(Start[y].target)
      BY <3>1 DEF Leads
    <3>3. Follow(Start, y) = Start[y].target
      BY <2>9, FollowMeans
    <3> QED
      BY <2>1, <2>3, <3>2, <3>3 DEF Placed
  <2> QED
    BY <2>7, <2>8, <2>9
<1>5. T = Path
  <2>1. T \subseteq Path
    OBVIOUS
  <2> HIDE DEF T
  <2> QED
    BY <1>3, <1>4, <2>1, PathInduction
<1> QED
  BY <1>5

\* Accepted arguments that are in each other overlap in one of the ways that the checks do not see.
LEMMA AcceptedOverlap ==
  ASSUME world \in Worlds, Accepts(Start, source, destination, world.mozilla),
         NEW p \in Path, Inside(p, destination), Inside(p, source)
  PROVE  Overlap
<1> DEFINE D == Real(Start, destination)
           S == Real(Start, source)
<1>1. /\ FileSystem(Start) /\ destination \in Path /\ source \in Path
      /\ make_canonical_path(Start, source) = source /\ make_canonical_path(Start, destination) = destination
      /\ D = Follow(Start, destination)
  BY Arguments
<1>2. D \in Path /\ S \in Path /\ Real(Start, S) = S
  BY <1>1, RealStraight, RealReal
<1>3. IsPrefix(D, p) /\ IsPrefix(S, p)
  BY DEF Inside
<1>4. Exists(Start, S) /\ D # S
  BY DEF Accepts, IsKind, is_same_file
<1>5. \A d : S = Real(Start, d) => is_same_file(Start, source, d)
  BY <1>4 DEF is_same_file
<1>6. Inside(S, destination) <=> IsPrefix(D, S)
  BY DEF Inside
<1>7. Inside(D, source) <=> IsPrefix(S, D)
  BY DEF Inside
<1>8. Overlap <=> \/ Exists(Start, destination) /\ Start[destination].kind = "link" /\ Inside(D, source)
                  \/ Inside(S, destination)
  BY <1>4 DEF Overlap
<1>9. S \notin Above(destination)
  BY <1>1, <1>2, <1>5 DEF Accepts, contains_file
<1> HIDE DEF D, S
<1>10. CASE IsPrefix(D, S)
  BY <1>6, <1>8, <1>10
<1>11. CASE IsPrefix(S, D) /\ destination \in Links(Start)
  BY <1>7, <1>8, <1>11 DEF Links, Exists
<1>12. CASE IsPrefix(S, D) /\ destination \notin Links(Start)
  <2>1. D = destination
    BY <1>1, <1>12, FollowMeans
  <2>2. S \in Above(destination) \cup {destination}
    BY <1>1, <1>2, <1>12, <2>1, OnTheWay
  <2> QED
    BY <1>4, <1>9, <2>1, <2>2
<1> QED
  BY <1>2, <1>3, <1>10, <1>11, <1>12, PrefixOrder

----------------------------------------------------------------------------
(* The order in which the files are listed. *)

\* f[rest] has the members of rest in the order that Orders gives them
Ordering(paths, f) ==
  f = [rest \in SUBSET paths |->
         IF rest = {} THEN <<>> ELSE LET p == CHOOSE x \in rest : TRUE IN Append(f[rest \ {p}], p)]

LEMMA Sizes ==
  ASSUME NEW paths, IsFiniteSet(paths), NEW rest \in SUBSET paths
  PROVE  /\ Cardinality(rest) \in Nat /\ (Cardinality(rest) = 0 <=> rest = {})
         /\ \A x \in rest : rest \ {x} \in SUBSET paths /\ Cardinality(rest \ {x}) = Cardinality(rest) - 1
BY FS_Subset, FS_CardinalityType, FS_EmptySet, FS_RemoveElement

LEMMA OrderingExists ==
  ASSUME NEW paths, IsFiniteSet(paths)
  PROVE  \E f : Ordering(paths, f)
<1> DEFINE Small(n) == {rest \in SUBSET paths : Cardinality(rest) <= n}
           Pick(rest) == CHOOSE x \in rest : TRUE
           Goes(f, n) == f = [rest \in Small(n) |->
                                IF rest = {} THEN <<>> ELSE Append(f[rest \ {Pick(rest)}], Pick(rest))]
           T == {n \in Nat : \E f : Goes(f, n)}
<1>1. \A rest \in SUBSET paths : rest # {} => Pick(rest) \in rest
  OBVIOUS
<1>2. \A n : \A rest : rest \in Small(n) <=> rest \in SUBSET paths /\ Cardinality(rest) <= n
  OBVIOUS
<1>3. \A f, n : Goes(f, n) <=>
        /\ f = [rest \in Small(n) |-> f[rest]]
        /\ \A rest \in Small(n) : f[rest] = IF rest = {} THEN <<>> ELSE Append(f[rest \ {Pick(rest)}], Pick(rest))
  <2> HIDE DEF Small, Pick
  <2> QED
    OBVIOUS
<1>4. T \subseteq Nat /\ \A n \in Nat : n \in T <=> \E f : Goes(f, n)
  OBVIOUS
<1> HIDE DEF Small, Pick, Goes, T
<1>5. 0 \in T
  <2> DEFINE f == [rest \in Small(0) |-> <<>>]
  <2>1. \A rest \in Small(0) : rest = {}
    <3> SUFFICES ASSUME NEW rest \in Small(0) PROVE rest = {}
      OBVIOUS
    <3>1. rest \in SUBSET paths /\ Cardinality(rest) <= 0
      BY <1>2
    <3> QED
      BY <3>1, Sizes
  <2>2. f = [rest \in Small(0) |-> f[rest]] /\ \A rest \in Small(0) : f[rest] = <<>>
    OBVIOUS
  <2> HIDE DEF f
  <2>3. Goes(f, 0)
    BY <1>3, <2>1, <2>2
  <2> QED
    BY <1>4, <2>3
<1>6. ASSUME NEW n \in T PROVE n + 1 \in T
  <2>1. n \in Nat
    BY <1>4
  <2>2. PICK f : Goes(f, n)
    BY <1>4, <2>1
  <2> DEFINE g == [rest \in Small(n + 1) |->
                     IF rest \in Small(n) THEN f[rest] ELSE Append(f[rest \ {Pick(rest)}], Pick(rest))]
  <2>3. g = [rest \in Small(n + 1) |-> g[rest]]
        /\ \A rest \in Small(n + 1) :
             g[rest] = IF rest \in Small(n) THEN f[rest] ELSE Append(f[rest \ {Pick(rest)}], Pick(rest))
    OBVIOUS
  <2> HIDE DEF g
  <2>4. ASSUME NEW rest \in Small(n + 1)
        PROVE  /\ rest = {} => rest \in Small(n)
               /\ rest # {} => rest \ {Pick(rest)} \in Small(n) /\ rest \ {Pick(rest)} \in Small(n + 1)
    <3>1. rest \in SUBSET paths /\ Cardinality(rest) <= n + 1
      BY <1>2
    <3>2. CASE rest = {}
      <4>1. Cardinality(rest) = 0
        BY <3>1, <3>2, Sizes
      <4>2. Cardinality(rest) <= n
        BY <2>1, <4>1
      <4> QED
        BY <1>2, <3>1, <3>2, <4>2
    <3>3. CASE rest # {}
      <4> DEFINE less == rest \ {Pick(rest)}
      <4>1. Cardinality(rest) \in Nat /\ less \in SUBSET paths /\ Cardinality(less) = Cardinality(rest) - 1
        BY <1>1, <3>1, <3>3, Sizes
      <4>2. Cardinality(less) <= n /\ Cardinality(less) <= n + 1
        BY <2>1, <3>1, <4>1
      <4> QED
        BY <1>2, <3>3, <4>1, <4>2
    <3> QED
      BY <3>2, <3>3
  <2>5. ASSUME NEW rest \in Small(n + 1)
        PROVE  g[rest] = IF rest = {} THEN <<>> ELSE Append(g[rest \ {Pick(rest)}], Pick(rest))
    <3>1. CASE rest = {}
      BY <1>3, <2>2, <2>3, <2>4, <3>1
    <3>2. CASE rest # {}
      <4>1. g[rest \ {Pick(rest)}] = f[rest \ {Pick(rest)}]
        BY <2>3, <2>4, <3>2
      <4>2. rest \in Small(n) => f[rest] = Append(f[rest \ {Pick(rest)}], Pick(rest))
        BY <1>3, <2>2, <3>2
      <4> QED
        BY <2>3, <3>2, <4>1, <4>2
    <3> QED
      BY <3>1, <3>2
  <2>6. Goes(g, n + 1)
    BY <1>3, <2>3, <2>5
  <2> QED
    BY <1>4, <2>1, <2>6
<1>7. T = Nat
  BY <1>4, <1>5, <1>6, Induction
<1>8. Cardinality(paths) \in Nat /\ Small(Cardinality(paths)) = SUBSET paths
  <2>1. \A rest \in SUBSET paths : Cardinality(rest) <= Cardinality(paths)
    BY FS_Subset
  <2> QED
    BY <1>2, <2>1, FS_CardinalityType
<1>9. PICK f : Goes(f, Cardinality(paths))
  BY <1>4, <1>7, <1>8
<1> QED
  BY <1>8, <1>9 DEF Ordering, Goes, Pick

\* What is listed is on the list.
LEMMA OrdersType ==
  ASSUME NEW paths, IsFiniteSet(paths), NEW s \in Orders(paths)
  PROVE  s \in Seq(paths)
<1> DEFINE order == CHOOSE f : Ordering(paths, f)
           T == {n \in Nat : \A rest \in SUBSET paths : Cardinality(rest) = n => order[rest] \in Seq(paths)}
<1>1. Ordering(paths, order)
  BY OrderingExists
<1>2. Orders(paths) = {order[paths], Reverse(order[paths])}
  BY DEF Orders, Ordering
<1> HIDE DEF order
<1>3. 0 \in T
  <2> SUFFICES ASSUME NEW rest \in SUBSET paths, Cardinality(rest) = 0 PROVE order[rest] \in Seq(paths)
    OBVIOUS
  <2>1. rest = {}
    BY Sizes
  <2>2. order[rest] = <<>>
    BY <1>1, <2>1 DEF Ordering
  <2> QED
    BY <2>2, EmptySeq
<1>4. ASSUME NEW n \in T PROVE n + 1 \in T
  <2> SUFFICES ASSUME NEW rest \in SUBSET paths, Cardinality(rest) = n + 1 PROVE order[rest] \in Seq(paths)
    OBVIOUS
  <2> DEFINE p == CHOOSE x \in rest : TRUE
  <2>1. rest # {}
    BY Sizes
  <2>2. p \in rest /\ order[rest] = Append(order[rest \ {p}], p)
    BY <1>1, <2>1 DEF Ordering
  <2> HIDE DEF p
  <2>3. rest \ {p} \in SUBSET paths /\ Cardinality(rest \ {p}) = n
    BY <2>2, Sizes
  <2>4. order[rest \ {p}] \in Seq(paths)
    BY <2>3
  <2> QED
    BY <2>2, <2>4, AppendProperties
<1>5. T = Nat
  <2>1. T \subseteq Nat
    OBVIOUS
  <2> HIDE DEF T
  <2> QED
    BY <1>3, <1>4, <2>1, Induction
<1>6. order[paths] \in Seq(paths)
  <2>1. Cardinality(paths) \in T
    BY <1>5, FS_CardinalityType
  <2> QED
    BY <2>1
<1>7. ASSUME NEW q \in Seq(paths) PROVE Reverse(q) \in Seq(paths)
  <2>1. Len(q) \in Nat /\ \A i \in 1 .. Len(q) : q[i] \in paths
    BY LenProperties
  <2>2. \A i \in 1 .. Len(q) : (Len(q) - i) + 1 \in 1 .. Len(q)
    BY <2>1
  <2>3. Reverse(q) \in [1 .. Len(q) -> paths]
    BY <2>1, <2>2 DEF Reverse
  <2> QED
    BY <2>1, <2>3, SeqDef
<1> QED
  BY <1>2, <1>6, <1>7

LEMMA RelativeType ==
  ASSUME NEW t, FileSystem(t), NEW p \in Path
  PROVE  IsFiniteSet(Relative(t, p)) /\ Relative(t, p) \subseteq Path \ {<<>>}
<1> DEFINE d == Real(t, p)
           S == {x \in Below(t, p) : t[x].kind # "dir"}
           f == [x \in S |-> SubSeq(x, Len(d) + 1, Len(x))]
<1>1. d \in Path /\ Len(d) \in Nat
  BY RealStraight, PathLen
<1>2. S \in SUBSET DOMAIN t /\ \A x \in S : Len(x) > Len(d)
  BY DEF Below
<1>3. Relative(t, p) = {f[x] : x \in S}
  BY DEF Relative
<1>4. DOMAIN f = S /\ f = [x \in S |-> f[x]] /\ \A x \in S : f[x] = SubSeq(x, Len(d) + 1, Len(x))
  OBVIOUS
<1> HIDE DEF d, S, f
<1>5. IsFiniteSet(S)
  BY <1>2, FileSystemMeans, FS_Subset
<1>6. ASSUME NEW x \in S PROVE f[x] \in Path \ {<<>>}
  <2>1. x \in Path /\ Len(x) \in Nat /\ Len(x) > Len(d)
    BY <1>2, FileSystemMeans, PathLen
  <2>2. \A i \in Len(d) + 1 .. Len(x) : x[i] \in Names
    <3>1. \A i \in 1 .. Len(x) : x[i] \in Names
      BY <2>1, LenProperties DEF Path
    <3> QED
      BY <1>1, <3>1
  <2>3. f[x] \in Path /\ Len(f[x]) = (Len(x) - (Len(d) + 1)) + 1
    <3>1. Len(d) + 1 \in Int /\ Len(x) \in Int /\ Len(d) + 1 <= Len(x)
      BY <1>1, <2>1
    <3>2. f[x] = SubSeq(x, Len(d) + 1, Len(x))
      BY <1>4
    <3> QED
      BY <2>2, <3>1, <3>2, SubSeqProperties DEF Path
  <2>4. Len(f[x]) # 0
    BY <1>1, <2>1, <2>3
  <2> QED
    BY <2>3, <2>4, PathLen
<1> QED
  BY <1>3, <1>4, <1>5, <1>6, FiniteImage

LEMMA ResourcesType ==
  ASSUME NEW mozilla \in BOOLEAN
  PROVE  Resources(mozilla) \in Seq(Path \ {<<>>}) /\ Head(Resources(FALSE)) = ExpectedFile(FALSE)
         /\ Resources(FALSE) # <<>>
<1>1. Resources(mozilla) \in Seq(Path \ {<<>>}) /\ Resources(FALSE) \in Seq(Path \ {<<>>})
  BY NameAssumption
<1>2. Resources(FALSE)[1] = ExpectedFile(FALSE) /\ 1 \in DOMAIN Resources(FALSE)
  BY DEF Resources, In, ExpectedFile
<1>3. ASSUME NEW s \in Seq(Path \ {<<>>}), 1 \in DOMAIN s PROVE s # <<>> /\ Head(s) = s[1]
  <2>1. Len(s) \in Nat /\ DOMAIN s = 1 .. Len(s)
    BY LenProperties
  <2>2. Len(s) # 0
    BY <1>3, <2>1
  <2> QED
    BY <2>2, EmptySeq
<1> QED
  BY <1>1, <1>2, <1>3

----------------------------------------------------------------------------
(* The inductive invariant. *)

Relatives == Path \ {<<>>}

TypeOK ==
  /\ pc \in {"off", "check", "make", "chrome", "resources", "files", "open", "write"}
  /\ (pc = "chrome" => world.mozilla = TRUE)
  /\ left \in Seq(Relatives) /\ todo \in Seq(Relatives) /\ begun \in BOOLEAN

\* The tree is a file system, with the links and directories that were in it; what is
\* different in it is in the destination or where links in it lead to.
TreeOK ==
  /\ Grown(Start, tree)
  /\ \A p \in DOMAIN tree : Same(p) \/ Placed(p)

\* What the first checks have found stays true, and before them nothing has changed.
CheckedOK ==
  IF begun THEN /\ Accepts(Start, source, destination, world.mozilla)
                /\ Exists(tree, Real(tree, destination)) => IsKind(tree, destination, "dir")
  ELSE tree = Start /\ pc \in {"off", "check"}

\* The destination is there before anything is copied to it.
DestinationOK == pc \in {"chrome", "resources", "files", "open", "write"} => IsKind(tree, destination, "dir")

\* What is being written is in the destination, and a file once it is open.
FileOK ==
  /\ pc \in {"open", "write"} =>
       (\E r \in Relatives : file.to = destination \o r) /\ file.next \in {"resources", "files"}
  /\ pc = "write" => IsKind(tree, file.to, "file")

\* A destination that has anything in it has the page, which is the first file in it.
PageOK ==
  begun /\ world.mozilla = FALSE =>
    \/ Exists(tree, Real(tree, destination \o ExpectedFile(FALSE)))
    \/ /\ Entries(tree, destination) = {}
       /\ \/ pc \in {"off", "check"}
          \/ pc \in {"make", "resources"} /\ left = Resources(FALSE)
          \/ pc = "open" /\ file.to = destination \o ExpectedFile(FALSE)

Inv ==
  /\ world \in Worlds
  /\ TypeOK /\ TreeOK /\ CheckedOK /\ DestinationOK /\ FileOK /\ PageOK /\ Repeatable

\* The world stays, and with it the arguments and where they lead.
LEMMA SameWorld ==
  ASSUME world' = world
  PROVE  /\ Start' = Start /\ source' = source /\ destination' = destination
         /\ \A p : Placed(p)' <=> Placed(p)
<1>1. Start' = Start /\ source' = source /\ destination' = destination
  BY DEF Start, source, destination
<1>2. \A p : Inside(p, destination)' <=> Inside(p, destination)
  BY <1>1 DEF Inside
<1>3. \A targets : Closed(targets)' <=> Closed(targets)
  BY <1>1 DEF Closed, Inside
<1>4. \A p : Leads(p)' <=> Leads(p)
  BY <1>1, <1>3 DEF Leads
<1> QED
  BY <1>1, <1>2, <1>4 DEF Placed

LEMMA InvInit ==
  ASSUME Init
  PROVE  Inv
<1>1. world \in Worlds /\ tree = Start /\ pc = "off" /\ begun = FALSE /\ left = <<>> /\ todo = <<>>
  BY DEF Init, Start
<1>2. FileSystem(Start)
  BY <1>1, Arguments
<1>3. TreeOK
  BY <1>1, <1>2, GrownItself DEF TreeOK, Same
<1>4. <<>> \in Seq(Relatives)
  BY EmptySeq
<1> QED
  BY <1>1, <1>3, <1>4 DEF Inv, TypeOK, CheckedOK, DestinationOK, FileOK, PageOK, Repeatable

\* What a step that makes the tree grow in the destination keeps.
LEMMA TreeGrows ==
  ASSUME Inv, world' = world, Grown(tree, tree'),
         \A p \in DOMAIN tree' : (p \in DOMAIN tree /\ tree'[p] = tree[p]) \/ Placed(p)
  PROVE  /\ TreeOK'
         /\ IsKind(tree, destination, "dir") => IsKind(tree, destination, "dir")'
         /\ Exists(tree, Real(tree, destination \o ExpectedFile(FALSE)))
              => Exists(tree, Real(tree, destination \o ExpectedFile(FALSE)))'
<1>1. Start' = Start /\ destination' = destination /\ \A p : Placed(p)' <=> Placed(p)
  BY SameWorld
<1>2. Grown(Start, tree')
  BY GrownFurther DEF Inv, TreeOK
<1>3. ASSUME NEW p \in DOMAIN tree' PROVE Same(p)' \/ Placed(p)'
  <2>1. CASE p \in DOMAIN tree /\ tree'[p] = tree[p]
    BY <1>1, <2>1 DEF Inv, TreeOK, Same
  <2> QED
    BY <1>1, <2>1
<1>4. TreeOK'
  BY <1>1, <1>2, <1>3 DEF TreeOK
<1>5. destination \in Path /\ FileSystem(tree) /\ FileSystem(tree')
  BY Arguments DEF Inv, TreeOK, Grown
<1>6. ASSUME IsKind(tree, destination, "dir") PROVE IsKind(tree, destination, "dir")'
  <2>1. Real(tree', destination) = Real(tree, destination)
    BY <1>5, GrownReal
  <2>2. Real(tree, destination) \in DOMAIN tree /\ tree[Real(tree, destination)] = Dir
    BY <1>5, <1>6, FileSystemMeans DEF IsKind, Exists
  <2>3. Real(tree, destination) \in DOMAIN tree' /\ tree'[Real(tree, destination)] = Dir
    BY <2>2 DEF Grown
  <2> QED
    BY <1>1, <1>5, <2>1, <2>3, FileSystemMeans DEF IsKind, Exists
<1>7. ASSUME Exists(tree, Real(tree, destination \o ExpectedFile(FALSE)))
      PROVE  Exists(tree, Real(tree, destination \o ExpectedFile(FALSE)))'
  <2>1. ExpectedFile(FALSE) \in Path
    BY ResourcesType, HeadTailProperties
  <2>2. destination \o ExpectedFile(FALSE) \in Path
    BY <1>5, <2>1, PathConcat
  <2>3. Real(tree', destination \o ExpectedFile(FALSE)) = Real(tree, destination \o ExpectedFile(FALSE))
    BY <2>2, GrownReal
  <2>4. ExpectedFile(FALSE)' = ExpectedFile(FALSE)
    BY DEF ExpectedFile
  <2> QED
    BY <1>1, <1>7, <2>3, <2>4 DEF Exists, Grown
<1> QED
  BY <1>4, <1>6, <1>7

LEMMA Known ==
  ASSUME Inv
  PROVE  /\ FileSystem(Start) /\ FileSystem(tree) /\ Grown(Start, tree)
         /\ source \in Path /\ destination \in Path /\ world.mozilla \in BOOLEAN
         /\ ExpectedFile(FALSE) \in Relatives /\ Front(ExpectedFile(FALSE)) = <<>>
<1>1. ExpectedFile(FALSE) \in Relatives
  BY ResourcesType, HeadTailProperties DEF Relatives
<1>2. Front(ExpectedFile(FALSE)) = <<>>
  <2>1. ExpectedFile(FALSE) = <<"jscoverage.html">>
    BY DEF ExpectedFile
  <2>2. ASSUME NEW x PROVE Len(<<x>>) = 1
    OBVIOUS
  <2>3. Len(ExpectedFile(FALSE)) = 1
    BY <2>1, <2>2
  <2>4. ASSUME NEW p \in Path, p # <<>>, Len(p) = 1 PROVE Front(p) = <<>>
    <3>1. Front(p) \in Path /\ Len(Front(p)) \in Nat /\ 1 = Len(Front(p)) + 1
      BY <2>4, PathSplit
    <3>2. Len(Front(p)) = 0
      BY <3>1
    <3> QED
      BY <3>1, <3>2, PathLen
  <2> QED
    BY <1>1, <2>3, <2>4 DEF Relatives
<1> QED
  BY <1>1, <1>2, Arguments DEF Inv, TreeOK, Grown

\* A path in the destination leads there, or to where a link in it leads.
LEMMA ReachNow ==
  ASSUME Inv, NEW r \in Path
  PROVE  /\ destination \o r \in Path /\ Real(tree, destination \o r) = Real(Start, destination \o r)
         /\ Placed(Real(tree, destination \o r))
<1>1. destination \o r \in Path
  BY Known, PathConcat
<1>2. Real(tree, destination \o r) = Real(Start, destination \o r)
  BY <1>1, Known, GrownReal
<1> QED
  BY <1>1, <1>2, Reach DEF Inv

\* What is on the way to the destination is there.
LEMMA WayToDestination ==
  ASSUME Inv, NEW d \in Path, IsPrefix(d, destination), d # destination
  PROVE  d \in DOMAIN tree /\ tree[d] = Dir /\ Real(tree, d) = d
<1>1. d \in DOMAIN Start /\ Start[d] = Dir /\ Real(Start, d) = d
  BY Arguments DEF Inv
<1>2. Real(tree, d) = Real(Start, d)
  BY Known, GrownReal
<1> QED
  BY <1>1, <1>2, Known DEF Grown

\* The directories that a file in the destination needs are made in the destination;
\* there are none to be made for a file right in it.
LEMMA MkdirsStep ==
  ASSUME Inv, world' = world, IsKind(tree, destination, "dir"), NEW r \in Relatives,
         ~Blocked(tree, Front(destination \o r)), tree' = mkdirs(tree, Front(destination \o r))
  PROVE  /\ Grown(tree, tree')
         /\ \A p \in DOMAIN tree' : (p \in DOMAIN tree /\ tree'[p] = tree[p]) \/ Placed(p)
         /\ Front(r) = <<>> => DOMAIN tree' = DOMAIN tree
<1> DEFINE to == destination \o Front(r)
<1>1. r \in Path /\ r # <<>> /\ Front(r) \in Path
  BY PathSplit DEF Relatives
<1>2. Front(destination \o r) = to /\ to \in Path
  BY <1>1, Known, PathConcat
<1> HIDE DEF to
<1>3. /\ Grown(tree, tree')
      /\ \A q \in DOMAIN tree : tree'[q] = tree[q]
      /\ \A q \in DOMAIN tree' \ DOMAIN tree : \E d \in Path : IsPrefix(d, to) /\ q = Real(tree, d)
  BY <1>2, Known, MkdirsGrows
<1>4. ASSUME NEW q \in DOMAIN tree' \ DOMAIN tree
      PROVE  \E s \in Path : IsPrefix(destination \o s, to) /\ s # <<>> /\ q = Real(tree, destination \o s)
  <2>1. PICK d \in Path : IsPrefix(d, to) /\ q = Real(tree, d)
    BY <1>3
  <2>2. ~(IsPrefix(d, destination) /\ d # destination)
    BY <2>1, WayToDestination
  <2>3. PICK s \in Path : d = destination \o s
    BY <1>1, <2>1, <2>2, Known, PrefixConcat DEF to
  <2>4. s # <<>>
    <3> SUFFICES ASSUME s = <<>> PROVE FALSE
      OBVIOUS
    <3>1. d = destination
      BY <2>3, Known, PathConcat
    <3> QED
      BY <2>1, <3>1 DEF IsKind, Exists
  <2> QED
    BY <2>1, <2>3, <2>4
<1>5. ASSUME NEW q \in DOMAIN tree' PROVE (q \in DOMAIN tree /\ tree'[q] = tree[q]) \/ Placed(q)
  BY <1>3, <1>4, ReachNow
<1>6. ASSUME Front(r) = <<>> PROVE DOMAIN tree' = DOMAIN tree
  <2>1. to = destination
    BY <1>6, Known, PathConcat DEF to
  <2>2. ASSUME NEW q \in DOMAIN tree' \ DOMAIN tree PROVE FALSE
    <3>1. PICK s \in Path : IsPrefix(destination \o s, to) /\ s # <<>>
      BY <1>4, <2>2
    <3>2. Len(destination \o s) = Len(destination) + Len(s) /\ Len(s) # 0 /\ Len(s) \in Nat /\ Len(destination) \in Nat
      BY <3>1, Known, ConcatProperties, PathLen DEF Path
    <3>3. Len(destination \o s) <= Len(destination)
      BY <2>1, <3>1, Known, PathConcat, PrefixMeans
    <3> QED
      BY <3>2, <3>3
  <2> QED
    BY <1>3, <2>2 DEF Grown
<1> QED
  BY <1>3, <1>5, <1>6

\* Writing to a file in the destination.
LEMMA WrittenStep ==
  ASSUME Inv, world' = world, NEW r \in Relatives, NEW c,
         Writable(tree, destination \o r) \/ IsKind(tree, destination \o r, "file"),
         tree' = Written(tree, destination \o r, c)
  PROVE  /\ Grown(tree, tree')
         /\ \A p \in DOMAIN tree' : (p \in DOMAIN tree /\ tree'[p] = tree[p]) \/ Placed(p)
         /\ IsKind(tree', destination \o r, "file")
<1> DEFINE to == destination \o r
<1>1. to \in Path /\ Placed(Real(tree, to))
  BY ReachNow DEF Relatives
<1>2. /\ Grown(tree, tree')
      /\ \A q \in DOMAIN tree' : q # Real(tree, to) => q \in DOMAIN tree /\ tree'[q] = tree[q]
      /\ Real(tree, to) \in DOMAIN tree' /\ tree'[Real(tree, to)] = File(c)
  BY <1>1, Known, WrittenGrows
<1>3. Real(tree', to) = Real(tree, to)
  BY <1>1, <1>2, GrownReal
<1>4. IsKind(tree', to, "file")
  BY <1>2, <1>3 DEF IsKind, Exists, File
<1> QED
  BY <1>1, <1>2, <1>4

\* A step that leaves the world and the tree alone.
LEMMA TreeStays ==
  ASSUME Inv, world' = world, tree' = tree
  PROVE  /\ Start' = Start /\ source' = source /\ destination' = destination
         /\ TreeOK'
         /\ IsKind(tree, destination, "dir")' <=> IsKind(tree, destination, "dir")
         /\ Exists(tree, Real(tree, destination))' <=> Exists(tree, Real(tree, destination))
         /\ Entries(tree, destination)' = Entries(tree, destination)
         /\ Exists(tree, Real(tree, destination \o ExpectedFile(FALSE)))'
              <=> Exists(tree, Real(tree, destination \o ExpectedFile(FALSE)))
<1>1. Start' = Start /\ source' = source /\ destination' = destination
  BY SameWorld
<1>2. Grown(tree, tree')
  BY Known, GrownItself
<1>3. TreeOK'
  BY <1>2, TreeGrows
<1>4. ExpectedFile(FALSE)' = ExpectedFile(FALSE)
  BY DEF ExpectedFile
<1> QED
  BY <1>1, <1>3, <1>4

\* However a run ends but by being refused.
LEMMA EndStep ==
  ASSUME Inv, world' = world, begun' = begun, NEW how, how # "refused", End(how), TreeOK',
         begun => (Exists(tree, Real(tree, destination))' => IsKind(tree, destination, "dir")'),
         ~begun => tree' = tree,
         begun /\ world.mozilla = FALSE =>
           \/ Exists(tree, Real(tree, destination \o ExpectedFile(FALSE)))'
           \/ Entries(tree, destination)' = {}
  PROVE  Inv'
<1>1. /\ pc' = "off" /\ ended' = how /\ left' = <<>> /\ todo' = <<>>
  BY DEF End
<1>2. Start' = Start /\ source' = source /\ destination' = destination
  BY SameWorld
<1>3. <<>> \in Seq(Relatives)
  BY EmptySeq
<1>4. TypeOK'
  BY <1>1, <1>3 DEF Inv, TypeOK
<1>5. CheckedOK'
  <2>1. CASE begun
    BY <1>2, <2>1 DEF Inv, CheckedOK
  <2>2. CASE ~begun
    BY <1>1, <1>2, <2>2 DEF Inv, CheckedOK
  <2> QED
    BY <2>1, <2>2
<1>6. DestinationOK' /\ FileOK' /\ Repeatable'
  BY <1>1 DEF DestinationOK, FileOK, Repeatable
<1>7. PageOK'
  BY <1>1 DEF PageOK
<1> QED
  BY <1>4, <1>5, <1>6, <1>7 DEF Inv

LEMMA EndSame ==
  ASSUME Inv, UNCHANGED <<world, tree, begun>>, NEW how, how # "refused", End(how)
  PROVE  Inv'
BY TreeStays, EndStep DEF Inv, CheckedOK, PageOK

LEMMA RunStep ==
  ASSUME Inv, Run
  PROVE  Inv'
<1>1. /\ pc = "off" /\ pc' = "check"
      /\ world' = world /\ tree' = tree /\ left' = left /\ todo' = todo /\ begun' = begun /\ file' = file
  BY DEF Run
<1>2. TypeOK' /\ DestinationOK' /\ FileOK' /\ Repeatable'
  BY <1>1 DEF Inv, TypeOK, DestinationOK, FileOK, Repeatable
<1>3. CheckedOK'
  BY <1>1, TreeStays DEF Inv, CheckedOK
<1>4. PageOK'
  BY <1>1, TreeStays DEF Inv, PageOK
<1> QED
  BY <1>1, <1>2, <1>3, <1>4, TreeStays DEF Inv

\* The arguments pass the checks that they have passed before, but for what was found in the destination.
LEMMA AcceptedAgain ==
  ASSUME Inv, begun, ~Foreign(tree, destination, world.mozilla)
  PROVE  Accepts(tree, source, destination, world.mozilla)
<1>1. /\ Accepts(Start, source, destination, world.mozilla)
      /\ Exists(tree, Real(tree, destination)) => IsKind(tree, destination, "dir")
  BY DEF Inv, CheckedOK
<1>2. \A p \in Path : Real(tree, p) = Real(Start, p)
  BY Known, GrownReal
<1>3. \A p \in Path : make_canonical_path(tree, p) = make_canonical_path(Start, p)
  BY <1>2, PathSplit DEF make_canonical_path
<1>4. make_canonical_path(Start, source) = source /\ make_canonical_path(Start, destination) = destination
  BY Arguments DEF Inv
<1>5. Real(Start, source) \in DOMAIN Start /\ Start[Real(Start, source)] = Dir
  BY <1>1, Known, FileSystemMeans DEF Accepts, IsKind, Exists
<1>6. Real(Start, source) \in DOMAIN tree /\ tree[Real(Start, source)] = Dir
  BY <1>5, Known DEF Grown
<1>7. \A p \in Path : is_same_file(tree, source, p) <=> is_same_file(Start, source, p)
  BY <1>2, <1>3, <1>5, <1>6, Known DEF is_same_file, Exists
<1>8. contains_file(tree, source, destination) <=> contains_file(Start, source, destination)
  <2>1. Above(destination) \subseteq Path
    BY Known, OnTheWay
  <2> QED
    BY <1>3, <1>4, <1>7, <2>1, Known DEF contains_file
<1>9. IsKind(tree, source, "dir")
  BY <1>2, <1>6, Known, FileSystemMeans DEF IsKind, Exists
<1> QED
  BY <1>1, <1>7, <1>8, <1>9, Known DEF Accepts

LEMMA CheckStep ==
  ASSUME Inv, Check
  PROVE  Inv'
<1>1. pc = "check" /\ world' = world /\ tree' = tree
  BY DEF Check
<1>2. CASE Accepts(tree, source, destination, world.mozilla)
  <2>1. pc' = "make" /\ left' = Resources(world.mozilla) /\ begun' = TRUE /\ todo' = todo
    BY <1>2 DEF Check
  <2>2. TypeOK'
    BY <2>1, Known, ResourcesType DEF Inv, TypeOK, Relatives
  <2>3. DestinationOK' /\ FileOK' /\ Repeatable'
    BY <2>1 DEF DestinationOK, FileOK, Repeatable
  <2>4. CheckedOK'
    <3>1. Accepts(Start, source, destination, world.mozilla)
      BY <1>2 DEF Inv, CheckedOK
    <3>2. Exists(tree, Real(tree, destination)) => IsKind(tree, destination, "dir")
      BY <1>2 DEF Accepts
    <3> QED
      BY <1>1, <2>1, <3>1, <3>2, TreeStays DEF CheckedOK
  <2>5. PageOK'
    <3>1. ASSUME world.mozilla = FALSE
          PROVE  Exists(tree, Real(tree, destination \o ExpectedFile(FALSE))) \/ Entries(tree, destination) = {}
      <4>1. ~Foreign(tree, destination, FALSE)
        BY <1>2, <3>1 DEF Accepts
      <4>2. CASE IsKind(tree, destination, "dir")
        BY <4>1, <4>2 DEF Foreign, directory_is_empty
      <4>3. CASE ~IsKind(tree, destination, "dir")
        <5>1. Real(tree, destination) \notin DOMAIN tree
          BY <1>2, <4>3 DEF Accepts, Exists
        <5> QED
          BY <5>1, Known, FileSystemMeans DEF Entries
      <4> QED
        BY <4>2, <4>3
    <3> QED
      BY <1>1, <2>1, <3>1, TreeStays DEF PageOK
  <2> QED
    BY <1>1, <2>2, <2>3, <2>4, <2>5, TreeStays DEF Inv
<1>3. CASE ~Accepts(tree, source, destination, world.mozilla)
  <2>1. pc' = "off" /\ ended' = "refused" /\ left' = <<>> /\ todo' = <<>> /\ begun' = begun
    BY <1>3 DEF Check, End
  <2>2. TypeOK'
    BY <2>1, EmptySeq DEF Inv, TypeOK
  <2>3. DestinationOK' /\ FileOK'
    BY <2>1 DEF DestinationOK, FileOK
  <2>4. CheckedOK'
    BY <1>1, <2>1, TreeStays DEF Inv, CheckedOK
  <2>5. PageOK'
    BY <1>1, <2>1, TreeStays DEF Inv, PageOK
  <2>6. Repeatable'
    <3>1. ASSUME begun PROVE world.mozilla /\ ~Exists(tree, Real(tree, destination \o ExpectedFile(TRUE)))
      <4>1. Foreign(tree, destination, world.mozilla)
        BY <1>3, <3>1, AcceptedAgain
      <4>2. CASE world.mozilla = FALSE
        BY <1>1, <3>1, <4>1, <4>2 DEF Inv, PageOK, Foreign, directory_is_empty
      <4>3. CASE world.mozilla = TRUE
        BY <4>1, <4>3 DEF Foreign
      <4> QED
        BY <4>2, <4>3, Known
    <3>2. ExpectedFile(TRUE)' = ExpectedFile(TRUE)
      BY DEF ExpectedFile
    <3> QED
      BY <1>1, <2>1, <3>1, <3>2, TreeStays DEF Repeatable
  <2> QED
    BY <1>1, <2>2, <2>3, <2>4, <2>5, <2>6, TreeStays DEF Inv
<1> QED
  BY <1>2, <1>3

\* Nothing is in the way of the destination if it is not there.
LEMMA DestinationFree ==
  ASSUME Inv, ~Exists(tree, Real(tree, destination)), ~Exists(tree, destination)
  PROVE  ~Blocked(tree, destination)
<1>1. FileSystem(tree) /\ destination \in Path
  BY Known
<1>2. ASSUME NEW d \in Path, IsPrefix(d, destination), d # destination
      PROVE  IsKind(tree, d, "dir")
  <2>1. d \in DOMAIN tree /\ tree[d] = Dir /\ Real(tree, d) = d
    BY <1>2, WayToDestination
  <2> QED
    BY <1>1, <2>1, FileSystemMeans DEF IsKind, Exists
<1>3. make_canonical_path(tree, destination) = destination
  <2>1. make_canonical_path(Start, destination) = destination
    BY Arguments DEF Inv
  <2>2. Real(tree, Front(destination)) = Real(Start, Front(destination)) \/ destination = <<>>
    BY Known, GrownReal, PathSplit
  <2> QED
    BY <2>1, <2>2 DEF make_canonical_path
<1>4. \A d \in Above(destination) \cup {destination} : d \in Path /\ IsPrefix(d, destination)
  BY <1>1, OnTheWay
<1> QED
  BY <1>2, <1>3, <1>4 DEF Blocked, Exists

LEMMA MakeDestinationStep ==
  ASSUME Inv, MakeDestination
  PROVE  Inv'
<1>1. pc = "make" /\ world' = world /\ begun' = begun /\ begun = TRUE
  BY DEF MakeDestination, Inv, TypeOK, CheckedOK
<1>2. FileSystem(tree) /\ FileSystem(Start) /\ destination \in Path
  BY Known
<1>3. Start' = Start /\ source' = source /\ destination' = destination
  BY <1>1, SameWorld
<1> DEFINE D == Real(tree, destination)
<1>0. world.mozilla \in BOOLEAN
  BY Known
<1>4. D = Real(Start, destination) /\ D = Follow(tree, destination) /\ D \in Path
  BY Known, GrownReal, Arguments, RealStraight, FollowMeans DEF Inv, Grown
<1>5. CASE Exists(tree, D)
  <2>1. pc' = (IF world.mozilla THEN "chrome" ELSE "resources") /\ tree' = tree /\ left' = left /\ todo' = todo /\ file' = file
    BY <1>1, <1>5 DEF MakeDestination
  <2>2. TypeOK' /\ FileOK' /\ Repeatable'
    BY <1>0, <1>1, <2>1 DEF Inv, TypeOK, FileOK, Repeatable
  <2>3. IsKind(tree, destination, "dir")
    BY <1>1, <1>5 DEF Inv, CheckedOK
  <2>4. CheckedOK' /\ DestinationOK'
    BY <1>1, <2>1, <2>3, TreeStays DEF Inv, CheckedOK, DestinationOK
  <2>5. PageOK'
    BY <1>0, <1>1, <2>1, TreeStays DEF Inv, PageOK
  <2> QED
    BY <1>1, <2>1, <2>2, <2>4, <2>5, TreeStays DEF Inv
<1>6. CASE ~Exists(tree, D) /\ Exists(tree, destination)
  <2>1. End("fatal") /\ tree' = tree
    BY <1>1, <1>6 DEF MakeDestination
  <2> QED
    BY <1>1, <2>1, EndSame
<1>7. CASE ~Exists(tree, D) /\ ~Exists(tree, destination)
  <2>1. /\ tree' = mkdirs(tree, destination)
        /\ pc' = (IF world.mozilla THEN "chrome" ELSE "resources") /\ left' = left /\ todo' = todo /\ file' = file
    BY <1>1, <1>7 DEF MakeDestination
  <2>4. ~Blocked(tree, destination)
    BY <1>7, DestinationFree
  <2>5. /\ Grown(tree, tree')
        /\ \A q \in DOMAIN tree : tree'[q] = tree[q]
        /\ \A q \in DOMAIN tree' \ DOMAIN tree : \E d \in Path : IsPrefix(d, destination) /\ q = Real(tree, d)
        /\ D \in DOMAIN tree' /\ tree'[D] = Dir
    BY <1>2, <2>1, <2>4, MkdirsGrows
  <2>6. ASSUME NEW q \in DOMAIN tree' \ DOMAIN tree PROVE q = D
    <3>1. PICK d \in Path : IsPrefix(d, destination) /\ q = Real(tree, d)
      BY <2>5
    <3>2. d = destination
      BY <3>1, WayToDestination
    <3> QED
      BY <3>1, <3>2
  <2>7. Inside(D, destination)
    BY <1>4, PrefixOrder DEF Inside
  <2>8. TreeOK'
    <3>1. \A p \in DOMAIN tree' : (p \in DOMAIN tree /\ tree'[p] = tree[p]) \/ Placed(p)
      BY <2>5, <2>6, <2>7 DEF Placed
    <3> QED
      BY <1>1, <2>5, <3>1, TreeGrows
  <2>9. Real(tree', destination) = D /\ FileSystem(tree')
    BY <1>2, <2>5, GrownReal DEF Grown
  <2>10. IsKind(tree, destination, "dir")'
    BY <1>3, <2>5, <2>9, FileSystemMeans DEF IsKind, Exists
  <2>11. Entries(tree, destination)' = {}
    <3>1. ASSUME NEW q \in DOMAIN tree', q # <<>>, Front(q) = D PROVE FALSE
      <4>1. q \in DOMAIN tree => D \in DOMAIN tree
        BY <1>2, <3>1, FileSystemMeans
      <4>2. q = D
        BY <1>7, <2>6, <4>1 DEF Exists
      <4> QED
        BY <1>4, <3>1, <4>2, PathSplit
    <3> QED
      BY <1>3, <2>9, <3>1 DEF Entries
  <2>12. TypeOK' /\ FileOK' /\ Repeatable'
    BY <1>0, <1>1, <2>1 DEF Inv, TypeOK, FileOK, Repeatable
  <2>13. CheckedOK' /\ DestinationOK'
    BY <1>1, <1>3, <2>1, <2>10 DEF Inv, CheckedOK, DestinationOK
  <2>14. PageOK'
    <3>1. CASE left = Resources(FALSE)
      BY <1>0, <1>1, <1>3, <2>1, <2>11, <3>1 DEF PageOK
    <3>2. CASE left # Resources(FALSE)
      <4>1. world.mozilla = FALSE => Exists(tree, Real(tree, destination \o ExpectedFile(FALSE)))
        BY <1>1, <3>2 DEF Inv, PageOK
      <4>2. world.mozilla = FALSE => Exists(tree, Real(tree, destination \o ExpectedFile(FALSE)))'
        <5>1. \A p \in DOMAIN tree' : (p \in DOMAIN tree /\ tree'[p] = tree[p]) \/ Placed(p)
          BY <2>5, <2>6, <2>7 DEF Placed
        <5> QED
          BY <1>1, <2>5, <4>1, <5>1, TreeGrows
      <4> QED
        BY <1>1, <4>2 DEF PageOK
    <3> QED
      BY <3>1, <3>2
  <2> QED
    BY <1>1, <2>8, <2>12, <2>13, <2>14 DEF Inv
<1> QED
  BY <1>5, <1>6, <1>7

\* The directory of the resources of Mozilla is made in the destination.
LEMMA ChromePath ==
  ASSUME Inv
  PROVE  \E r \in Relatives : Front(destination \o r) = destination \o ChromeDirectory
                              /\ destination \o ChromeDirectory \in Path
<1>1. ChromeDirectory \in Path
  BY NameAssumption
<1>2. PICK x \in Names : TRUE
  <2>1. ChromeDirectory # <<>>
    BY DEF ChromeDirectory
  <2> QED
    BY <1>1, <2>1, PathSplit
<1> DEFINE r == Append(ChromeDirectory, x)
<1>3. r \in Path /\ r # <<>> /\ Front(r) = ChromeDirectory
  <2>1. r \in Path /\ Len(r) = Len(ChromeDirectory) + 1 /\ Len(ChromeDirectory) \in Nat
    BY <1>1, PathAppend
  <2>2. r # <<>>
    <3> HIDE DEF r
    <3> QED
      BY <2>1, PathLen
  <2> QED
    BY <1>1, <2>1, <2>2, PathFront
<1> HIDE DEF r
<1>4. Front(destination \o r) = destination \o ChromeDirectory /\ destination \o ChromeDirectory \in Path
  BY <1>1, <1>3, Known, PathConcat
<1> QED
  BY <1>3, <1>4 DEF Relatives

LEMMA MakeChromeStep ==
  ASSUME Inv, MakeChrome
  PROVE  Inv'
<1>1. pc = "chrome" /\ world' = world /\ begun' = begun /\ world.mozilla = TRUE /\ begun = TRUE
  BY DEF MakeChrome, Inv, TypeOK, CheckedOK
<1>2. PICK r \in Relatives : Front(destination \o r) = destination \o ChromeDirectory
  BY ChromePath
<1>3. CASE Blocked(tree, destination \o ChromeDirectory)
  <2>1. End("fatal") /\ tree' = tree
    BY <1>3 DEF MakeChrome
  <2> QED
    BY <1>1, <2>1, EndSame
<1>4. CASE ~Blocked(tree, destination \o ChromeDirectory)
  <2>1. /\ tree' = mkdirs(tree, destination \o ChromeDirectory)
        /\ pc' = "resources" /\ left' = left /\ todo' = todo
    BY <1>4 DEF MakeChrome
  <2>2. IsKind(tree, destination, "dir")
    BY <1>1 DEF Inv, DestinationOK
  <2>3. /\ Grown(tree, tree')
        /\ \A p \in DOMAIN tree' : (p \in DOMAIN tree /\ tree'[p] = tree[p]) \/ Placed(p)
    BY <1>1, <1>2, <1>4, <2>1, <2>2, MkdirsStep
  <2>4. TreeOK' /\ IsKind(tree, destination, "dir")'
    BY <1>1, <2>2, <2>3, TreeGrows
  <2>5. Start' = Start /\ source' = source /\ destination' = destination
    BY <1>1, SameWorld
  <2>6. TypeOK' /\ DestinationOK' /\ FileOK' /\ Repeatable'
    BY <1>1, <2>1, <2>4 DEF Inv, TypeOK, DestinationOK, FileOK, Repeatable
  <2>7. CheckedOK' /\ PageOK'
    BY <1>1, <2>4, <2>5 DEF Inv, CheckedOK, PageOK
  <2> QED
    BY <1>1, <2>4, <2>6, <2>7 DEF Inv
<1> QED
  BY <1>3, <1>4

\* What Begin does when nothing is in the way: with the rest of the invariant it is kept.
LEMMA BeginStep ==
  ASSUME Inv, pc \in {"resources", "files"}, world' = world, begun' = begun,
         NEW r \in Relatives, NEW content, NEW next \in {"resources", "files"},
         ~Blocked(tree, Front(destination \o r)), Begin(destination \o r, content, next),
         left' \in Seq(Relatives), todo' \in Seq(Relatives),
         pc = "resources" => r = Head(left)
  PROVE  Inv'
<1>1. /\ tree' = mkdirs(tree, Front(destination \o r))
      /\ file' = [to |-> destination \o r, content |-> content, next |-> next]
      /\ pc' = "open"
  BY DEF Begin
<1>2. IsKind(tree, destination, "dir") /\ begun = TRUE
  BY DEF Inv, TypeOK, DestinationOK, CheckedOK
<1>3. /\ Grown(tree, tree')
      /\ \A p \in DOMAIN tree' : (p \in DOMAIN tree /\ tree'[p] = tree[p]) \/ Placed(p)
      /\ Front(r) = <<>> => DOMAIN tree' = DOMAIN tree
  BY <1>1, <1>2, MkdirsStep
<1>4. /\ TreeOK' /\ IsKind(tree, destination, "dir")'
      /\ Exists(tree, Real(tree, destination \o ExpectedFile(FALSE)))
           => Exists(tree, Real(tree, destination \o ExpectedFile(FALSE)))'
  BY <1>2, <1>3, TreeGrows
<1>5. Start' = Start /\ source' = source /\ destination' = destination
  BY SameWorld
<1>6. TypeOK' /\ DestinationOK' /\ Repeatable'
  BY <1>1, <1>4 DEF Inv, TypeOK, DestinationOK, Repeatable
<1>7. CheckedOK'
  BY <1>2, <1>4, <1>5 DEF Inv, CheckedOK
<1>8. FileOK'
  BY <1>1, <1>5 DEF FileOK
<1>9. PageOK'
  <2>1. CASE world.mozilla = FALSE /\ ~Exists(tree, Real(tree, destination \o ExpectedFile(FALSE)))
    <3>1. pc = "resources" /\ left = Resources(FALSE) /\ Entries(tree, destination) = {}
      BY <1>2, <2>1 DEF Inv, PageOK
    <3>2. r = ExpectedFile(FALSE)
      BY <3>1, ResourcesType
    <3>3. DOMAIN tree' = DOMAIN tree
      BY <1>3, <3>2, Known
    <3>4. Real(tree', destination) = Real(tree, destination)
      BY <1>3, Known, GrownReal
    <3>5. Entries(tree, destination)' = {}
      BY <1>5, <3>1, <3>3, <3>4 DEF Entries
    <3>6. ExpectedFile(FALSE)' = ExpectedFile(FALSE)
      BY DEF ExpectedFile
    <3> QED
      BY <1>1, <1>5, <3>2, <3>5, <3>6 DEF PageOK
  <2>2. CASE world.mozilla = FALSE => Exists(tree, Real(tree, destination \o ExpectedFile(FALSE)))
    BY <1>4, <2>2 DEF PageOK
  <2> QED
    BY <2>1, <2>2
<1> QED
  BY <1>4, <1>6, <1>7, <1>8, <1>9 DEF Inv

\* The paths on a list.
LEMMA FirstOf ==
  ASSUME NEW s \in Seq(Relatives), s # <<>>
  PROVE  Head(s) \in Relatives /\ Tail(s) \in Seq(Relatives)
BY HeadTailProperties

LEMMA NextResourceStep ==
  ASSUME Inv, NextResource
  PROVE  Inv'
<1> DEFINE r == Head(left)
<1>1. /\ pc = "resources" /\ left # <<>> /\ world' = world /\ todo' = todo /\ begun' = begun
      /\ Begin(destination \o r, <<"resource", Last(r)>>, "resources")
      /\ left' = IF pc' = "off" THEN <<>> ELSE Tail(left)
  BY DEF NextResource
<1>2. left \in Seq(Relatives) /\ todo \in Seq(Relatives)
  BY DEF Inv, TypeOK
<1>3. r \in Relatives /\ Tail(left) \in Seq(Relatives)
  BY <1>1, <1>2, FirstOf
<1>4. CASE Blocked(tree, Front(destination \o r))
  <2>1. End("fatal") /\ tree' = tree
    BY <1>1, <1>4 DEF Begin
  <2> QED
    BY <1>1, <2>1, EndSame
<1>5. CASE ~Blocked(tree, Front(destination \o r))
  <2>1. pc' = "open"
    BY <1>1, <1>5 DEF Begin
  <2>2. left' \in Seq(Relatives) /\ todo' \in Seq(Relatives)
    BY <1>1, <1>2, <1>3, <2>1
  <2> HIDE DEF r
  <2> QED
    BY <1>1, <1>3, <1>5, <2>2, BeginStep DEF r
<1> QED
  BY <1>4, <1>5

\* After the resources the page is there.
LEMMA PageThere ==
  ASSUME Inv, pc = "files" \/ (pc = "resources" /\ left = <<>>) \/ pc = "write", world.mozilla = FALSE
  PROVE  Exists(tree, Real(tree, destination \o ExpectedFile(FALSE)))
BY ResourcesType DEF Inv, PageOK, CheckedOK

LEMMA ListFilesStep ==
  ASSUME Inv, ListFiles
  PROVE  Inv'
<1>1. pc = "resources" /\ left = <<>> /\ world' = world /\ tree' = tree /\ begun' = begun
  BY DEF ListFiles
<1>2. CASE LinkRefused(tree, source)
  <2>1. End("fatal")
    BY <1>2 DEF ListFiles
  <2> QED
    BY <1>1, <2>1, EndSame
<1>3. CASE ~LinkRefused(tree, source)
  <2>1. todo' \in Orders(Relative(tree, source)) /\ pc' = "files" /\ left' = left
    BY <1>3 DEF ListFiles
  <2>2. todo' \in Seq(Relatives)
    <3>1. IsFiniteSet(Relative(tree, source)) /\ Relative(tree, source) \subseteq Relatives
      BY Known, RelativeType DEF Relatives
    <3> DEFINE R == Relative(tree, source)
    <3> HIDE DEF R
    <3>2. todo' \in Seq(R)
      BY <2>1, <3>1, OrdersType DEF R
    <3>3. \A s \in Seq(R) : s \in Seq(Relatives)
      BY <3>1 DEF R
    <3> QED
      BY <3>2, <3>3
  <2>3. TypeOK' /\ FileOK' /\ Repeatable'
    BY <1>1, <2>1, <2>2 DEF Inv, TypeOK, FileOK, Repeatable
  <2>4. CheckedOK' /\ DestinationOK'
    BY <1>1, <2>1, TreeStays DEF Inv, CheckedOK, DestinationOK
  <2>5. PageOK'
    BY <1>1, TreeStays, PageThere DEF PageOK
  <2> QED
    BY <1>1, <2>3, <2>4, <2>5, TreeStays DEF Inv
<1> QED
  BY <1>2, <1>3

LEMMA SkipStep ==
  ASSUME Inv, Skip
  PROVE  Inv'
<1>1. /\ pc = "files" /\ pc' = pc /\ todo # <<>> /\ todo' = Tail(todo) /\ left' = left
      /\ world' = world /\ tree' = tree /\ begun' = begun
  BY DEF Skip
<1>2. TypeOK' /\ FileOK' /\ Repeatable'
  BY <1>1, FirstOf DEF Inv, TypeOK, FileOK, Repeatable
<1>3. CheckedOK' /\ DestinationOK'
  BY <1>1, TreeStays DEF Inv, CheckedOK, DestinationOK
<1>4. PageOK'
  BY <1>1, TreeStays, PageThere DEF PageOK
<1> QED
  BY <1>1, <1>2, <1>3, <1>4, TreeStays DEF Inv

LEMMA NextFileStep ==
  ASSUME Inv, NextFile
  PROVE  Inv'
<1> DEFINE p == Head(todo)
           from == source \o p
           to == destination \o p
<1>1. pc = "files" /\ todo # <<>> /\ world' = world /\ begun' = begun
  BY DEF NextFile
<1>2. p \in Relatives /\ Tail(todo) \in Seq(Relatives) /\ left \in Seq(Relatives)
  BY <1>1, FirstOf DEF Inv, TypeOK
<1>3. IsKind(tree, destination, "dir") /\ begun = TRUE
  BY <1>1 DEF Inv, TypeOK, DestinationOK, CheckedOK
<1>4. CASE Unreachable(world.exclude) \/ Blocked(tree, Front(to))
  <2>1. End("fatal") /\ tree' = tree
    BY <1>4 DEF NextFile
  <2> QED
    BY <1>1, <2>1, EndSame
<1>5. CASE /\ ~Unreachable(world.exclude) /\ ~Blocked(tree, Front(to))
           /\ Unreachable(world.plain) \/ is_same_file(mkdirs(tree, Front(to)), from, to)
  <2>1. End("fatal") /\ tree' = mkdirs(tree, Front(to))
    BY <1>5 DEF NextFile
  <2>2. /\ Grown(tree, tree')
        /\ \A q \in DOMAIN tree' : (q \in DOMAIN tree /\ tree'[q] = tree[q]) \/ Placed(q)
    BY <1>1, <1>2, <1>3, <1>5, <2>1, MkdirsStep
  <2>3. /\ TreeOK' /\ IsKind(tree, destination, "dir")'
        /\ Exists(tree, Real(tree, destination \o ExpectedFile(FALSE)))
             => Exists(tree, Real(tree, destination \o ExpectedFile(FALSE)))'
    BY <1>1, <1>3, <2>2, TreeGrows
  <2> QED
    BY <1>1, <1>3, <2>1, <2>3, PageThere, EndStep
<1>6. CASE /\ ~Unreachable(world.exclude) /\ ~Blocked(tree, Front(to))
           /\ ~(Unreachable(world.plain) \/ is_same_file(mkdirs(tree, Front(to)), from, to))
  <2>1. PICK content : Begin(to, content, "files") /\ todo' = Tail(todo) /\ left' = left
    BY <1>6 DEF NextFile
  <2>2. left' \in Seq(Relatives) /\ todo' \in Seq(Relatives)
    BY <1>2, <2>1
  <2> HIDE DEF p
  <2> QED
    BY <1>1, <1>2, <1>6, <2>1, <2>2, BeginStep
<1> QED
  BY <1>4, <1>5, <1>6

\* What is written goes on being in the destination.
LEMMA FileWritten ==
  ASSUME Inv, pc \in {"open", "write"}, world' = world, NEW c,
         Writable(tree, file.to) \/ IsKind(tree, file.to, "file"), tree' = Written(tree, file.to, c)
  PROVE  /\ TreeOK' /\ IsKind(tree, destination, "dir")' /\ IsKind(tree', file.to, "file")
         /\ Exists(tree, Real(tree, destination \o ExpectedFile(FALSE)))
              => Exists(tree, Real(tree, destination \o ExpectedFile(FALSE)))'
<1>1. PICK r \in Relatives : file.to = destination \o r
  BY DEF Inv, FileOK
<1>2. /\ Grown(tree, tree')
      /\ \A p \in DOMAIN tree' : (p \in DOMAIN tree /\ tree'[p] = tree[p]) \/ Placed(p)
      /\ IsKind(tree', destination \o r, "file")
  BY <1>1, WrittenStep
<1>3. IsKind(tree, destination, "dir")
  BY DEF Inv, DestinationOK
<1> QED
  BY <1>1, <1>2, <1>3, TreeGrows

LEMMA OpenStep ==
  ASSUME Inv, Open
  PROVE  Inv'
<1>1. pc = "open" /\ world' = world /\ begun' = begun /\ begun = TRUE
  BY DEF Open, Inv, CheckedOK, TypeOK
<1>2. CASE ~Writable(tree, file.to)
  <2>1. End("fatal") /\ tree' = tree
    BY <1>2 DEF Open
  <2> QED
    BY <1>1, <2>1, EndSame
<1>3. CASE Writable(tree, file.to)
  <2>1. /\ tree' = Written(tree, file.to, <<"cut">>)
        /\ pc' = "write" /\ left' = left /\ todo' = todo /\ file' = file
    BY <1>3 DEF Open
  <2>2. /\ TreeOK' /\ IsKind(tree, destination, "dir")' /\ IsKind(tree', file.to, "file")
        /\ Exists(tree, Real(tree, destination \o ExpectedFile(FALSE)))
             => Exists(tree, Real(tree, destination \o ExpectedFile(FALSE)))'
    BY <1>1, <1>3, <2>1, FileWritten
  <2>3. Start' = Start /\ source' = source /\ destination' = destination
    BY <1>1, SameWorld
  <2>4. TypeOK' /\ Repeatable'
    BY <1>1, <2>1 DEF Inv, TypeOK, Repeatable
  <2>5. CheckedOK' /\ DestinationOK'
    BY <1>1, <2>2, <2>3 DEF Inv, CheckedOK, DestinationOK
  <2>6. FileOK'
    BY <1>1, <2>1, <2>2, <2>3 DEF Inv, FileOK
  <2>7. PageOK'
    <3>1. ExpectedFile(FALSE)' = ExpectedFile(FALSE)
      BY DEF ExpectedFile
    <3>2. ASSUME file.to = destination \o ExpectedFile(FALSE)
          PROVE  Exists(tree, Real(tree, destination \o ExpectedFile(FALSE)))'
      BY <2>2, <2>3, <3>1, <3>2 DEF IsKind
    <3>3. CASE world.mozilla = FALSE
      BY <1>1, <2>2, <3>2, <3>3 DEF Inv, PageOK
    <3> QED
      BY <1>1, <3>3 DEF PageOK
  <2> QED
    BY <1>1, <2>2, <2>4, <2>5, <2>6, <2>7 DEF Inv
<1> QED
  BY <1>2, <1>3

LEMMA WriteStep ==
  ASSUME Inv, Write
  PROVE  Inv'
<1>1. pc = "write" /\ world' = world /\ begun' = begun /\ begun = TRUE
  BY DEF Write, Inv, CheckedOK, TypeOK
<1>2. CASE file.content = <<"error">>
  <2>1. End("fatal") /\ tree' = tree
    BY <1>2 DEF Write
  <2> QED
    BY <1>1, <2>1, EndSame
<1>3. CASE file.content # <<"error">>
  <2>1. /\ tree' = Written(tree, file.to, file.content)
        /\ pc' = file.next /\ left' = left /\ todo' = todo
    BY <1>3 DEF Write
  <2>2. IsKind(tree, file.to, "file") /\ file.next \in {"resources", "files"}
    BY <1>1 DEF Inv, FileOK
  <2>3. /\ TreeOK' /\ IsKind(tree, destination, "dir")'
        /\ Exists(tree, Real(tree, destination \o ExpectedFile(FALSE)))
             => Exists(tree, Real(tree, destination \o ExpectedFile(FALSE)))'
    BY <1>1, <2>1, <2>2, FileWritten
  <2>4. Start' = Start /\ source' = source /\ destination' = destination
    BY <1>1, SameWorld
  <2>5. TypeOK' /\ Repeatable'
    BY <1>1, <2>1, <2>2 DEF Inv, TypeOK, Repeatable
  <2>6. CheckedOK' /\ DestinationOK' /\ FileOK'
    BY <1>1, <2>1, <2>2, <2>3, <2>4 DEF Inv, CheckedOK, DestinationOK, FileOK
  <2>7. PageOK'
    BY <1>1, <2>3, PageThere DEF PageOK
  <2> QED
    BY <1>1, <2>3, <2>5, <2>6, <2>7 DEF Inv
<1> QED
  BY <1>2, <1>3

LEMMA InvNext ==
  ASSUME Inv, [Next]_vars
  PROVE  Inv'
<1>1. CASE Finish
  BY <1>1, EndSame DEF Finish
<1>2. CASE Kill
  BY <1>2, EndSame DEF Kill
<1>3. CASE UNCHANGED vars
  <2>1. /\ world' = world /\ tree' = tree /\ pc' = pc /\ left' = left /\ todo' = todo /\ file' = file
        /\ ended' = ended /\ begun' = begun
    BY <1>3 DEF vars
  <2>2. ExpectedFile(TRUE)' = ExpectedFile(TRUE)
    BY DEF ExpectedFile
  <2>3. TypeOK' /\ FileOK' /\ Repeatable'
    BY <2>1, <2>2, TreeStays DEF Inv, TypeOK, FileOK, Repeatable
  <2>4. CheckedOK' /\ DestinationOK'
    BY <2>1, TreeStays DEF Inv, CheckedOK, DestinationOK
  <2>5. PageOK'
    <3>1. ExpectedFile(FALSE)' = ExpectedFile(FALSE) /\ Resources(FALSE)' = Resources(FALSE)
      BY DEF ExpectedFile, Resources
    <3> QED
      BY <2>1, <3>1, TreeStays DEF Inv, PageOK
  <2> QED
    BY <2>1, <2>3, <2>4, <2>5, TreeStays DEF Inv
<1> QED
  BY <1>1, <1>2, <1>3, RunStep, CheckStep, MakeDestinationStep, MakeChromeStep, NextResourceStep, ListFilesStep,
     SkipStep, NextFileStep, OpenStep, WriteStep DEF Next

----------------------------------------------------------------------------
(* What a run has copied when it has succeeded. *)

\* Everything that is to be listed is listed.
LEMMA OrdersAll ==
  ASSUME NEW paths, IsFiniteSet(paths), NEW s \in Orders(paths)
  PROVE  paths \subseteq ToSet(s)
<1> DEFINE order == CHOOSE f : Ordering(paths, f)
           Whole(q, rest) == q \in Seq(paths) /\ \A x \in rest : \E i \in 1 .. Len(q) : q[i] = x
           T == {n \in Nat : \A rest \in SUBSET paths : Cardinality(rest) = n => Whole(order[rest], rest)}
<1>1. Ordering(paths, order)
  BY OrderingExists
<1>2. Orders(paths) = {order[paths], Reverse(order[paths])}
  BY DEF Orders, Ordering
<1> HIDE DEF order
<1>3. 0 \in T
  <2> SUFFICES ASSUME NEW rest \in SUBSET paths, Cardinality(rest) = 0 PROVE Whole(order[rest], rest)
    OBVIOUS
  <2>1. rest = {}
    BY Sizes
  <2>2. order[rest] = <<>>
    BY <1>1, <2>1 DEF Ordering
  <2> QED
    BY <2>1, <2>2, EmptySeq
<1>4. ASSUME NEW n \in T PROVE n + 1 \in T
  <2> SUFFICES ASSUME NEW rest \in SUBSET paths, Cardinality(rest) = n + 1 PROVE Whole(order[rest], rest)
    OBVIOUS
  <2> DEFINE p == CHOOSE x \in rest : TRUE
  <2>1. rest # {}
    BY Sizes
  <2>2. p \in rest /\ order[rest] = Append(order[rest \ {p}], p)
    BY <1>1, <2>1 DEF Ordering
  <2> HIDE DEF p
  <2> DEFINE q == order[rest \ {p}]
  <2>3. rest \ {p} \in SUBSET paths /\ Cardinality(rest \ {p}) = n
    BY <2>2, Sizes
  <2>4. Whole(q, rest \ {p})
    BY <2>3
  <2> HIDE DEF q
  <2>5. /\ Append(q, p) \in Seq(paths) /\ Len(Append(q, p)) = Len(q) + 1 /\ Len(q) \in Nat
        /\ \A i \in 1 .. Len(q) : Append(q, p)[i] = q[i]
        /\ Append(q, p)[Len(q) + 1] = p
    BY <2>2, <2>4, AppendProperties, LenProperties
  <2>6. ASSUME NEW x \in rest PROVE \E i \in 1 .. Len(Append(q, p)) : Append(q, p)[i] = x
    <3>1. CASE x = p
      <4>1. Len(q) + 1 \in 1 .. Len(Append(q, p))
        BY <2>5
      <4> QED
        BY <2>5, <3>1, <4>1
    <3>2. CASE x # p
      <4>1. PICK i \in 1 .. Len(q) : q[i] = x
        BY <2>4, <3>2
      <4>2. i \in 1 .. Len(Append(q, p))
        BY <2>5
      <4> QED
        BY <2>5, <4>1, <4>2
    <3> QED
      BY <3>1, <3>2
  <2>7. order[rest] = Append(q, p)
    BY <2>2 DEF q
  <2> QED
    BY <2>5, <2>6, <2>7
<1>5. T = Nat
  <2>1. T \subseteq Nat
    OBVIOUS
  <2> HIDE DEF T
  <2> QED
    BY <1>3, <1>4, <2>1, Induction
<1>6. Whole(order[paths], paths)
  <2>1. Cardinality(paths) \in T
    BY <1>5, FS_CardinalityType
  <2> QED
    BY <2>1
<1>7. ASSUME NEW q, Whole(q, paths) PROVE paths \subseteq ToSet(q) /\ paths \subseteq ToSet(Reverse(q))
  <2>1. Len(q) \in Nat /\ DOMAIN q = 1 .. Len(q)
    BY <1>7, LenProperties
  <2>2. DOMAIN Reverse(q) = 1 .. Len(q) /\ \A i \in 1 .. Len(q) : Reverse(q)[i] = q[(Len(q) - i) + 1]
    BY <2>1 DEF Reverse
  <2>3. ASSUME NEW x \in paths PROVE x \in ToSet(q) /\ x \in ToSet(Reverse(q))
    <3>1. PICK i \in 1 .. Len(q) : q[i] = x
      BY <1>7
    <3>2. (Len(q) - i) + 1 \in 1 .. Len(q) /\ (Len(q) - ((Len(q) - i) + 1)) + 1 = i
      BY <2>1
    <3>3. Reverse(q)[(Len(q) - i) + 1] = x
      BY <2>2, <3>1, <3>2
    <3> QED
      BY <2>1, <2>2, <3>1, <3>2, <3>3 DEF ToSet
  <2> QED
    BY <2>3
<1> QED
  BY <1>2, <1>6, <1>7

\* A sequence has its first member and those of the rest.
LEMMA MembersOf ==
  ASSUME NEW S, NEW s \in Seq(S), s # <<>>
  PROVE  /\ ToSet(s) = {Head(s)} \cup ToSet(Tail(s)) /\ Head(s) \in S
         /\ Tail(s) \in Seq(S) /\ ToSet(s) \subseteq S
<1>1. /\ Len(s) \in Nat /\ Len(s) > 0 /\ DOMAIN s = 1 .. Len(s) /\ Head(s) = s[1] /\ Head(s) \in S
      /\ \A i \in 1 .. Len(s) : s[i] \in S
  BY LenProperties, EmptySeq, HeadTailProperties
<1>2. /\ Tail(s) \in Seq(S) /\ Len(Tail(s)) = Len(s) - 1 /\ DOMAIN Tail(s) = 1 .. Len(Tail(s))
      /\ \A i \in 1 .. Len(Tail(s)) : Tail(s)[i] = s[i + 1]
  BY <1>1, HeadTailProperties, LenProperties
<1>3. \A i \in 1 .. Len(s) : i = 1 \/ (i - 1 \in 1 .. Len(Tail(s)) /\ Tail(s)[i - 1] = s[i])
  BY <1>1, <1>2
<1>4. \A i \in 1 .. Len(Tail(s)) : i + 1 \in 1 .. Len(s)
  BY <1>1, <1>2
<1>5. 1 \in 1 .. Len(s)
  BY <1>1
<1>6. ToSet(s) = {Head(s)} \cup ToSet(Tail(s))
  <2>1. ASSUME NEW x \in ToSet(s) PROVE x = Head(s) \/ x \in ToSet(Tail(s))
    <3>1. PICK i \in 1 .. Len(s) : x = s[i]
      BY <1>1 DEF ToSet
    <3> QED
      BY <1>1, <1>2, <1>3, <3>1 DEF ToSet
  <2>2. ASSUME NEW x \in ToSet(Tail(s)) PROVE x \in ToSet(s)
    <3>1. PICK i \in 1 .. Len(Tail(s)) : x = Tail(s)[i]
      BY <1>2 DEF ToSet
    <3> QED
      BY <1>1, <1>2, <1>4, <3>1 DEF ToSet
  <2>3. Head(s) \in ToSet(s)
    BY <1>1, <1>5 DEF ToSet
  <2> QED
    BY <2>1, <2>2, <2>3
<1>7. ToSet(s) \subseteq S
  BY <1>1 DEF ToSet
<1> QED
  BY <1>1, <1>2, <1>6, <1>7

\* What begins with a path goes on from it.
LEMMA PrefixSplit ==
  ASSUME NEW b \in Path, NEW x \in Path, IsPrefix(b, x)
  PROVE  \E q \in Path : x = b \o q
<1>1. b \o <<>> = b /\ <<>> \in Path
  BY PathConcat, EmptySeq DEF Path
<1> DEFINE T == {s \in Path : IsPrefix(b, s) => \E q \in Path : s = b \o q}
<1>2. <<>> \in T
  <2>1. ASSUME IsPrefix(b, <<>>) PROVE b = <<>>
    BY <1>1, <2>1, PrefixMeans, PathLen
  <2> QED
    BY <1>1, <2>1
<1>3. ASSUME NEW s \in T, NEW n \in Names PROVE Append(s, n) \in T
  <2>1. s \in Path /\ Append(s, n) \in Path
    BY PathAppend
  <2>2. ASSUME IsPrefix(b, s) PROVE \E q \in Path : Append(s, n) = b \o q
    <3>1. PICK q \in Path : s = b \o q
      BY <2>2
    <3> HIDE DEF T
    <3>2. Append(q, n) \in Path
      BY PathAppend
    <3>3. b \o Append(q, n) = Append(b \o q, n)
      BY PathConcat
    <3> QED
      BY <3>1, <3>2, <3>3
  <2>3. b = Append(s, n) => \E q \in Path : Append(s, n) = b \o q
    BY <1>1
  <2> QED
    BY <2>1, <2>2, <2>3, PrefixAppend
<1>4. T = Path
  <2>1. T \subseteq Path
    OBVIOUS
  <2> HIDE DEF T
  <2> QED
    BY <1>2, <1>3, <2>1, PathInduction
<1> QED
  BY <1>4

\* The path of a file below a directory, and the way back.
LEMMA RelativeIs ==
  ASSUME NEW t, FileSystem(t), NEW d \in Path, NEW p \in Path
  PROVE  p \in Relative(t, d) <=> p # <<>> /\ Real(t, d) \o p \in DOMAIN t /\ t[Real(t, d) \o p].kind # "dir"
<1> DEFINE b == Real(t, d)
<1>1. b \in Path /\ Len(b) \in Nat
  BY RealStraight, PathLen
<1> HIDE DEF b
<1>2. ASSUME NEW q \in Path
      PROVE  /\ Len(b \o q) = Len(b) + Len(q) /\ Len(q) \in Nat /\ IsPrefix(b, b \o q)
             /\ SubSeq(b \o q, Len(b) + 1, Len(b \o q)) = q
  <2>1. /\ Len(b \o q) = Len(b) + Len(q) /\ Len(q) \in Nat /\ b \o q \in Path
        /\ \A i \in 1 .. Len(b \o q) : (b \o q)[i] = IF i <= Len(b) THEN b[i] ELSE q[i - Len(b)]
    BY <1>1, PathLen, ConcatProperties DEF Path
  <2>2. IsPrefix(b, b \o q)
    <3>1. Len(b) <= Len(b \o q)
      BY <1>1, <2>1
    <3>2. ASSUME NEW i \in 1 .. Len(b) PROVE b[i] = (b \o q)[i]
      <4>1. i \in 1 .. Len(b \o q) /\ i <= Len(b)
        BY <1>1, <3>1, <2>1
      <4> QED
        BY <2>1, <4>1
    <3> QED
      BY <1>1, <2>1, <3>1, <3>2, PrefixIs
  <2>3. SubSeq(b \o q, Len(b) + 1, Len(b \o q)) = q
    <3> DEFINE r == SubSeq(b \o q, Len(b) + 1, Len(b \o q))
    <3>1. \A i \in (Len(b) + 1) .. Len(b \o q) : (b \o q)[i] \in Names
      BY <1>1, <2>1, LenProperties DEF Path
    <3>2. CASE q = <<>>
      <4>1. Len(b \o q) = Len(b)
        BY <1>1, <2>1, <3>2, PathLen
      <4>2. b \o q = b
        BY <1>1, <3>2, ConcatEmptySeq DEF Path
      <4> QED
        BY <1>1, <3>2, <4>1, <4>2, SubSeqEmpty DEF Path
    <3>3. CASE q # <<>>
      <4>1. Len(q) > 0
        BY <2>1, <3>3, PathLen
      <4>2. Len(b) + 1 \in Int /\ Len(b \o q) \in Int /\ Len(b) + 1 <= Len(b \o q)
        BY <1>1, <2>1, <4>1
      <4>3. /\ r \in Path /\ Len(r) = (Len(b \o q) - (Len(b) + 1)) + 1
            /\ \A i \in 1 .. (Len(b \o q) - (Len(b) + 1)) + 1 : r[i] = (b \o q)[((Len(b) + 1) + i) - 1]
        BY <3>1, <4>2, SubSeqProperties DEF Path
      <4> HIDE DEF r
      <4>4. Len(r) = Len(q)
        BY <1>1, <2>1, <4>3
      <4>5. ASSUME NEW i \in 1 .. Len(q) PROVE r[i] = q[i]
        <5>1. ((Len(b) + 1) + i) - 1 = Len(b) + i /\ Len(b) + i \in 1 .. Len(b \o q) /\ ~(Len(b) + i <= Len(b))
              /\ (Len(b) + i) - Len(b) = i /\ i \in 1 .. (Len(b \o q) - (Len(b) + 1)) + 1
          BY <1>1, <2>1
        <5> QED
          BY <2>1, <4>3, <5>1
      <4>6. r = q
        BY <4>3, <4>4, <4>5, SeqEqual DEF Path
      <4> QED
        BY <4>6 DEF r
    <3> QED
      BY <3>2, <3>3
  <2> QED
    BY <2>1, <2>2, <2>3
<1>3. ASSUME p \in Relative(t, d) PROVE p # <<>> /\ b \o p \in DOMAIN t /\ t[b \o p].kind # "dir"
  <2>1. PICK x \in DOMAIN t : Len(x) > Len(b) /\ IsPrefix(b, x) /\ t[x].kind # "dir" /\ p = SubSeq(x, Len(b) + 1, Len(x))
    BY <1>3 DEF Relative, Below, b
  <2>2. x \in Path
    BY <2>1, FileSystemMeans
  <2>3. PICK q \in Path : x = b \o q
    <3>1. x \o <<>> = x
      BY <2>2, PathConcat
    <3> QED
      BY <1>1, <2>1, <2>2, PrefixSplit
  <2>4. p = q /\ Len(q) \in Nat /\ Len(x) = Len(b) + Len(q)
    BY <1>2, <2>1, <2>3
  <2>5. q # <<>>
    BY <1>1, <2>1, <2>4, PathLen
  <2> QED
    BY <2>1, <2>3, <2>4, <2>5
<1>4. ASSUME p # <<>>, b \o p \in DOMAIN t, t[b \o p].kind # "dir" PROVE p \in Relative(t, d)
  <2>1. Len(p) > 0
    BY <1>2, <1>4, PathLen
  <2>2. Len(b \o p) > Len(b) /\ IsPrefix(b, b \o p) /\ p = SubSeq(b \o p, Len(b) + 1, Len(b \o p))
    BY <1>1, <1>2, <2>1
  <2> QED
    BY <1>4, <2>2 DEF Relative, Below, b
<1> QED
  BY <1>3, <1>4 DEF b

\* Where a path leads depends on where its beginning leads.
LEMMA RealConcat ==
  ASSUME NEW t, FileSystem(t), NEW p \in Path, NEW r \in Path
  PROVE  Real(t, p \o r) = Real(t, Real(t, p) \o r)
<1> DEFINE T == {s \in Path : Real(t, p \o s) = Real(t, Real(t, p) \o s)}
<1>1. Real(t, p) \in Path
  BY RealStraight
<1>2. <<>> \in T
  <2>1. <<>> \in Path /\ p \o <<>> = p /\ Real(t, p) \o <<>> = Real(t, p)
    BY <1>1, EmptySeq, PathConcat DEF Path
  <2> QED
    BY <2>1, RealReal
<1>3. ASSUME NEW s \in T, NEW x \in Names PROVE Append(s, x) \in T
  <2>1. s \in Path /\ Real(t, p \o s) = Real(t, Real(t, p) \o s)
    OBVIOUS
  <2> HIDE DEF T
  <2>2. /\ Append(s, x) \in Path /\ p \o s \in Path /\ Real(t, p) \o s \in Path
        /\ p \o Append(s, x) = Append(p \o s, x)
        /\ Real(t, p) \o Append(s, x) = Append(Real(t, p) \o s, x)
    <3>1. Append(s, x) \in Path
      BY <2>1, PathAppend
    <3>2. p \o s \in Path /\ p \o Append(s, x) = Append(p \o s, x)
      BY <2>1, PathConcat
    <3>3. Real(t, p) \o s \in Path /\ Real(t, p) \o Append(s, x) = Append(Real(t, p) \o s, x)
      BY <1>1, <2>1, PathConcat
    <3> QED
      BY <3>1, <3>2, <3>3
  <2>3. Real(t, p \o Append(s, x)) = Follow(t, Append(Real(t, p \o s), x))
    BY <2>2, RealAppend
  <2>4. Real(t, Real(t, p) \o Append(s, x)) = Follow(t, Append(Real(t, Real(t, p) \o s), x))
    BY <2>2, RealAppend
  <2> QED
    BY <2>1, <2>2, <2>3, <2>4 DEF T
<1>4. T = Path
  <2>1. T \subseteq Path
    OBVIOUS
  <2> HIDE DEF T
  <2> QED
    BY <1>2, <1>3, <2>1, PathInduction
<1> QED
  BY <1>4
\* The directories above a path are its beginnings.
LEMMA AboveIs ==
  ASSUME NEW p \in Path
  PROVE  \A d : d \in Above(p) <=> d \in Path /\ IsPrefix(d, p) /\ d # p
<1>1. Len(p) \in Nat /\ Above(p) \cup {p} = {r \in Path : IsPrefix(r, p)}
  BY PathLen, OnTheWay
<1>2. ASSUME NEW d \in Above(p) PROVE d # p
  <2>1. PICK n \in 0 .. Len(p) - 1 : d = SubSeq(p, 1, n)
    BY DEF Above
  <2>2. n \in 0 .. Len(p) /\ n # Len(p)
    BY <1>1
  <2>3. Len(d) = n
    BY <2>1, <2>2, PathPrefix
  <2> QED
    BY <2>2, <2>3
<1> QED
  BY <1>1, <1>2

\* A path that is continued begins with what it continues.
LEMMA PrefixOfConcat ==
  ASSUME NEW b \in Path, NEW q \in Path
  PROVE  IsPrefix(b, b \o q) /\ (q # <<>> => Len(b \o q) > Len(b))
<1>1. /\ Len(b \o q) = Len(b) + Len(q) /\ Len(q) \in Nat /\ Len(b) \in Nat /\ b \o q \in Path
      /\ \A i \in 1 .. Len(b \o q) : (b \o q)[i] = IF i <= Len(b) THEN b[i] ELSE q[i - Len(b)]
  BY PathLen, ConcatProperties DEF Path
<1>2. Len(b) <= Len(b \o q)
  BY <1>1
<1>3. ASSUME NEW i \in 1 .. Len(b) PROVE b[i] = (b \o q)[i]
  <2>1. i \in 1 .. Len(b \o q) /\ i <= Len(b)
    BY <1>1, <1>2
  <2> QED
    BY <1>1, <2>1
<1>4. IsPrefix(b, b \o q)
  BY <1>1, <1>2, <1>3, PrefixIs
<1>5. ASSUME q # <<>> PROVE Len(b \o q) > Len(b)
  <2>1. Len(q) # 0
    BY <1>5, PathLen
  <2> QED
    BY <1>1, <2>1
<1> QED
  BY <1>4, <1>5

\* The last name of a path is that of any path that ends with it.
LEMMA ConcatSplit ==
  ASSUME NEW d \in Path, NEW p \in Path, p # <<>>
  PROVE  /\ Front(p) \in Path /\ Last(p) \in Names /\ d \o Front(p) \in Path
         /\ d \o p \in Path /\ d \o p # <<>>
         /\ d \o p = Append(d \o Front(p), Last(p))
         /\ Front(d \o p) = d \o Front(p) /\ Last(d \o p) = Last(p)
<1>1. PICK f \in Path, x \in Names : f = Front(p) /\ x = Last(p) /\ p = Append(f, x)
  BY PathSplit
<1>2. d \o f \in Path /\ d \o p \in Path
  BY PathConcat
<1>3. d \o Append(f, x) = Append(d \o f, x)
  BY PathConcat
<1>4. d \o p = Append(d \o f, x)
  BY <1>1, <1>3
<1>5. Front(Append(d \o f, x)) = d \o f /\ Last(Append(d \o f, x)) = x
  BY <1>2, PathFront
<1>6. Len(Append(d \o f, x)) = Len(d \o f) + 1 /\ Len(d \o f) \in Nat
  BY <1>2, PathAppend
<1>7. d \o p # <<>>
  <2>1. Len(d \o p) # 0
    BY <1>4, <1>6
  <2> QED
    BY <1>2, <2>1, PathLen
<1> QED
  BY <1>1, <1>2, <1>4, <1>5, <1>7

\* A file below a directory is where its path says.
LEMMA BelowIs ==
  ASSUME NEW t, FileSystem(t), NEW d \in Path, NEW p \in Path, p \in Relative(t, d)
  PROVE  /\ make_canonical_path(t, d \o p) = Real(t, d) \o p
         /\ Real(t, d) \o p \in DOMAIN t /\ t[Real(t, d) \o p].kind # "dir"
         /\ Real(t, Real(t, d) \o p) = Real(t, d \o p)
         /\ d \o p \in Path
<1> DEFINE b == Real(t, d)
<1>1. b \in Path
  BY RealStraight
<1>2. p # <<>> /\ b \o p \in DOMAIN t /\ t[b \o p].kind # "dir"
  BY RelativeIs
<1>3. /\ Front(p) \in Path /\ d \o p \in Path /\ d \o p # <<>>
      /\ Front(d \o p) = d \o Front(p) /\ Last(d \o p) = Last(p)
  BY <1>2, ConcatSplit
<1>4. b \o p # <<>> /\ Front(b \o p) = b \o Front(p) /\ b \o p = Append(b \o Front(p), Last(p))
  BY <1>1, <1>2, ConcatSplit
<1>5. Real(t, b \o Front(p)) = b \o Front(p)
  <2>1. b \o Front(p) \in DOMAIN t /\ t[b \o Front(p)] = Dir
    <3>1. \A q \in DOMAIN t : q # <<>> => Front(q) \in DOMAIN t /\ t[Front(q)] = Dir
      BY FileSystemMeans
    <3>2. Front(b \o p) \in DOMAIN t /\ t[Front(b \o p)] = Dir
      BY <1>2, <1>4, <3>1
    <3> QED
      BY <1>4, <3>2
  <2> QED
    BY <2>1, FileSystemMeans, ExistsReal
<1>6. Real(t, d \o Front(p)) = b \o Front(p)
  BY <1>3, <1>5, RealConcat
<1>7. make_canonical_path(t, d \o p) = b \o p
  <2>1. make_canonical_path(t, d \o p) = Append(Real(t, Front(d \o p)), Last(d \o p))
    BY <1>3, Canonical
  <2>2. make_canonical_path(t, d \o p) = Append(b \o Front(p), Last(p))
    BY <1>3, <1>6, <2>1
  <2> QED
    BY <1>4, <2>2
<1> QED
  BY <1>2, <1>3, <1>7, RealConcat

\* What a step of the program leaves a file it was.
LEMMA KindGrows ==
  ASSUME NEW t, NEW u, FileSystem(t), Grown(t, u), NEW p \in Path, IsKind(t, p, "file")
  PROVE  IsKind(u, p, "file")
<1>1. Real(u, p) = Real(t, p) /\ Real(t, p) \in DOMAIN t /\ t[Real(t, p)].kind = "file"
  BY GrownReal DEF IsKind, Exists
<1>2. t[Real(t, p)] # Dir /\ Real(t, p) \notin Links(t)
  BY <1>1 DEF Dir, Links
<1>3. Real(t, p) \in DOMAIN u /\ u[Real(t, p)] # Dir /\ Real(t, p) \notin Links(u)
  BY <1>1, <1>2 DEF Grown
<1> QED
  BY <1>1, <1>3, FileSystemMeans DEF IsKind, Exists, Grown

\* No link of the source leads to anything but a file, and so it stays.
LEMMA RefusedStays ==
  ASSUME NEW t, NEW u, FileSystem(t), Grown(t, u), NEW d \in Path, ~LinkRefused(t, d)
  PROVE  ~LinkRefused(u, d)
<1> SUFFICES ASSUME NEW q \in Below(u, d), u[q].kind = "link" PROVE IsKind(u, q, "file")
  BY DEF LinkRefused
<1>1. q \in Links(t) /\ q \in Path
  BY FileSystemMeans DEF Below, Links, Grown
<1>2. Real(u, d) = Real(t, d)
  BY GrownReal
<1>3. q \in Below(t, d) /\ t[q].kind = "link"
  BY <1>1, <1>2 DEF Below, Links
<1>4. IsKind(t, q, "file")
  BY <1>3 DEF LinkRefused
<1> QED
  BY <1>1, <1>4, KindGrows

\* A path of the source leads to a file.
LEMMA SourceThere ==
  ASSUME NEW t, FileSystem(t), NEW d \in Path, ~LinkRefused(t, d), NEW p \in Path, p \in Relative(t, d)
  PROVE  /\ Real(t, d \o p) \in DOMAIN t /\ t[Real(t, d \o p)].kind = "file"
         /\ t[Real(t, d \o p)] # Dir
<1> DEFINE c == Real(t, d) \o p
<1>1. c \in DOMAIN t /\ t[c].kind # "dir" /\ Real(t, c) = Real(t, d \o p)
  BY BelowIs
<1>2. CASE c \in Links(t)
  <2>1. c \in Below(t, d)
    <3>1. p # <<>> /\ Real(t, d) \in Path
      BY RelativeIs, RealStraight
    <3>2. IsPrefix(Real(t, d), c) /\ Len(c) > Len(Real(t, d))
      BY <3>1, PrefixOfConcat
    <3> QED
      BY <1>1, <3>2 DEF Below
  <2>2. IsKind(t, c, "file")
    BY <1>2, <2>1 DEF LinkRefused, Links
  <2> QED
    BY <1>1, <2>2 DEF IsKind, Exists, Dir
<1>3. CASE c \notin Links(t)
  <2>1. Real(t, c) = c
    BY <1>1, <1>3, ExistsReal
  <2>2. t[c] = Dir \/ t[c].kind = "file"
    BY <1>1, <1>3, FileSystemMeans
  <2>3. t[c] # Dir
    BY <1>1 DEF Dir
  <2> QED
    BY <1>1, <2>1, <2>2, <2>3
<1> QED
  BY <1>2, <1>3

\* A file is found on a list if it is, or is in, what is on it.
LEMMA ListedMeans ==
  ASSUME Inv, NEW paths, paths \subseteq Path, ~LinkRefused(tree, source),
         NEW p \in Path, p \in Relative(tree, source)
  PROVE  Listed(paths, p) <=> Covered(paths, p)
<1> DEFINE c == Real(tree, source) \o p
<1>1. /\ FileSystem(tree) /\ Grown(Start, tree) /\ source \in Path
      /\ \A x \in paths : source \o x \in Path
  BY Known, PathConcat
<1>2. /\ make_canonical_path(tree, source \o p) = c /\ c \in DOMAIN tree
      /\ Real(tree, c) = Real(tree, source \o p) /\ source \o p \in Path /\ c \in Path
      /\ c # <<>>
  <2>1. c \in Path
    BY <1>1, BelowIs, FileSystemMeans
  <2>2. c # <<>>
    <3>1. p # <<>>
      BY <1>1, RelativeIs
    <3>2. Real(tree, source) \in Path
      BY <1>1, RealStraight
    <3> QED
      BY <3>1, <3>2, ConcatSplit
  <2> QED
    BY <1>1, <2>1, <2>2, BelowIs
<1>3. \A q \in Path : Real(tree, q) = Real(Start, q)
  BY <1>1, GrownReal
<1>4. Covered(paths, p) <=>
        \E x \in paths : IsPrefix(Real(tree, source \o x), c) \/ Real(tree, source \o x) = Real(tree, source \o p)
  BY <1>1, <1>2, <1>3 DEF Covered, Inside
<1>5. ASSUME NEW d \in Above(c)
      PROVE  d \in DOMAIN tree /\ d \in Path /\ Real(tree, d) = d /\ IsPrefix(d, c)
  <2>1. d \in Path /\ IsPrefix(d, c) /\ d # c
    BY <1>2, <1>5, AboveIs
  <2>2. d \in DOMAIN tree /\ tree[d] = Dir
    BY <1>1, <1>2, <2>1, Ancestors
  <2>3. Real(tree, d) = d
    BY <1>1, <2>2, FileSystemMeans, ExistsReal
  <2> QED
    BY <2>1, <2>2, <2>3
<1> HIDE DEF c
<1>6. ASSUME Listed(paths, p) PROVE Covered(paths, p)
  <2>1. PICK x \in paths :
          is_same_file(tree, source \o x, source \o p) \/ contains_file(tree, source \o x, source \o p)
    BY <1>6 DEF Listed
  <2>2. source \o x \in Path
    BY <1>1
  <2>3. ASSUME is_same_file(tree, source \o x, source \o p) PROVE Real(tree, source \o x) = Real(tree, source \o p)
    BY <1>1, <1>2, <2>2, <2>3, CanonicalAgain DEF is_same_file
  <2>4. ASSUME contains_file(tree, source \o x, source \o p) PROVE IsPrefix(Real(tree, source \o x), c)
    <3>1. PICK d \in Above(c) : is_same_file(tree, make_canonical_path(tree, source \o x), d)
      BY <1>2, <2>4 DEF contains_file
    <3>2. make_canonical_path(tree, source \o x) \in Path
          /\ Real(tree, make_canonical_path(tree, source \o x)) = Real(tree, source \o x)
      BY <1>1, <2>2, CanonicalAgain
    <3>3. Real(tree, source \o x) = Real(tree, d)
      BY <1>1, <1>5, <3>1, <3>2, CanonicalAgain DEF is_same_file
    <3> QED
      BY <1>5, <3>3
  <2> QED
    BY <1>4, <2>1, <2>3, <2>4
<1>7. ASSUME Covered(paths, p) PROVE Listed(paths, p)
  <2>1. PICK x \in paths : IsPrefix(Real(tree, source \o x), c) \/ Real(tree, source \o x) = Real(tree, source \o p)
    BY <1>4, <1>7
  <2>2. source \o x \in Path /\ Real(tree, source \o x) \in Path
    BY <1>1, RealStraight
  <2>3. Real(tree, source \o p) \in DOMAIN tree
    BY <1>1, SourceThere
  <2>4. CASE Real(tree, source \o x) = Real(tree, source \o p)
    BY <2>3, <2>4 DEF Listed, is_same_file, Exists
  <2>5. CASE Real(tree, source \o x) = c
    <3>1. c \notin Links(tree)
      BY <1>1, <2>2, <2>5, RealNoLink
    <3>2. Real(tree, c) = c
      BY <1>1, <1>2, <3>1, ExistsReal
    <3>3. Real(tree, source \o x) = Real(tree, source \o p)
      BY <1>2, <2>5, <3>2
    <3> QED
      BY <2>4, <3>3
  <2>6. CASE IsPrefix(Real(tree, source \o x), c) /\ Real(tree, source \o x) # c
    <3> DEFINE d == Real(tree, source \o x)
    <3>1. d \in Above(c)
      BY <1>2, <2>2, <2>6, AboveIs
    <3>2. d \in DOMAIN tree /\ Real(tree, d) = d
      BY <1>5, <3>1
    <3>3. Real(tree, make_canonical_path(tree, source \o x)) = d
      BY <1>1, <2>2, CanonicalAgain
    <3>4. is_same_file(tree, make_canonical_path(tree, source \o x), d)
      BY <3>2, <3>3 DEF is_same_file, Exists
    <3>5. contains_file(tree, source \o x, source \o p)
      BY <1>2, <3>1, <3>4 DEF contains_file
    <3> QED
      BY <3>5 DEF Listed
  <2> QED
    BY <2>1, <2>4, <2>5, <2>6
<1> QED
  BY <1>6, <1>7
----------------------------------------------------------------------------
(* The invariant behind Complete, where no two of the files are the same. *)

\* While files are copied, and not the resources.
Copying == pc = "files" \/ (pc \in {"open", "write"} /\ file.next = "files")
Writing(p) == pc \in {"open", "write"} /\ file.to = destination \o p

\* No file is touched but those that are to be written.
ExactOK == \A p \in DOMAIN tree : Same(p) \/ tree[p] = Dir \/ \E q \in Outputs : p = Place(q)

\* The list of files is that of the source as it was in the beginning.
CopyingOK == Copying => left = <<>> /\ ~LinkRefused(tree, source) /\ todo \in Seq(Relative(Start, source))

LeftOK == ToSet(left) \subseteq ToSet(Resources(world.mozilla))

\* What is being written is what is to be there in the end, or ends the run.
WritingOK ==
  pc \in {"open", "write"} =>
    \/ /\ file.next = "resources"
       /\ \E r \in ToSet(Resources(world.mozilla)) : file.to = destination \o r /\ file.content = <<"resource", Last(r)>>
    \/ /\ file.next = "files"
       /\ \E p \in Wanted : file.to = destination \o p /\ file.content \in {Becomes(p), <<"error">>}

\* A resource is still to be copied, is being copied, or is there, unless a file takes its place.
ResourcesOK ==
  pc \in {"make", "chrome", "resources", "files", "open", "write"} =>
    \A r \in ToSet(Resources(world.mozilla)) :
      r \in ToSet(left) \/ Writing(r) \/ Has(r, <<"resource", Last(r)>>) \/ (Copying /\ r \in Wanted)

\* So is a file.
FilesOK == Copying => \A p \in Wanted : p \in ToSet(todo) \/ Writing(p) \/ Has(p, Becomes(p))

CopiedOK ==
  pc = "off" /\ ended = "success" =>
    /\ \A p \in Wanted : Has(p, Becomes(p))
    /\ \A r \in ToSet(Resources(world.mozilla)) \ Wanted : Has(r, <<"resource", Last(r)>>)

CompleteOK == ExactOK /\ CopyingOK /\ LeftOK /\ WritingOK /\ ResourcesOK /\ FilesOK /\ CopiedOK
CompleteInv == Inv /\ (Apart => CompleteOK)

\* With the world, what is to be written stays, and where.
LEMMA SameOutputs ==
  ASSUME world' = world
  PROVE  /\ Start' = Start /\ source' = source /\ destination' = destination
         /\ Wanted' = Wanted /\ Outputs' = Outputs /\ (Apart' <=> Apart)
         /\ Resources(world.mozilla)' = Resources(world.mozilla)
         /\ Relative(Start, source)' = Relative(Start, source)
         /\ \A p : Becomes(p)' = Becomes(p) /\ Place(p)' = Place(p)
<1>1. Start' = Start /\ source' = source /\ destination' = destination
  BY SameWorld
<1>2. \A p : Covered(world.exclude, p)' <=> Covered(world.exclude, p)
  BY <1>1 DEF Covered, Inside
<1>3. \A p : Covered(world.plain, p)' <=> Covered(world.plain, p)
  BY <1>1 DEF Covered, Inside
<1>4. Relative(Start, source)' = Relative(Start, source)
  BY <1>1
<1>5. Wanted' = Wanted
  BY <1>2, <1>4 DEF Wanted
<1>6. Resources(world.mozilla)' = Resources(world.mozilla)
  OBVIOUS
<1>7. Outputs' = Outputs
  BY <1>5, <1>6 DEF Outputs
<1>8. \A p : Place(p)' = Place(p)
  BY <1>1 DEF Place
<1>9. \A p : Becomes(p)' = Becomes(p)
  BY <1>1, <1>3 DEF Becomes
<1>10. Apart' <=> Apart
  BY <1>1, <1>5, <1>7, <1>8 DEF Apart, Inside
<1> QED
  BY <1>1, <1>4, <1>5, <1>6, <1>7, <1>8, <1>9, <1>10

\* What is written has a path below the destination, and is where the links there were led to.
LEMMA OutputsKnown ==
  ASSUME Inv
  PROVE  /\ Wanted \subseteq Relative(Start, source) /\ Relative(Start, source) \subseteq Relatives
         /\ Resources(world.mozilla) \in Seq(Relatives)
         /\ ToSet(Resources(world.mozilla)) \subseteq Relatives
         /\ Outputs \subseteq Relatives
         /\ world.exclude \subseteq Path /\ world.plain \subseteq Path
         /\ \A p \in Relatives : p \in Path /\ destination \o p \in Path /\ source \o p \in Path
         /\ \A p \in Relatives : Real(tree, destination \o p) = Place(p)
<1>1. Wanted \subseteq Relative(Start, source) /\ Relative(Start, source) \subseteq Relatives
  BY Known, RelativeType DEF Wanted, Relatives
<1>2. Resources(world.mozilla) \in Seq(Relatives)
  BY Known, ResourcesType DEF Relatives
<1>3. ToSet(Resources(world.mozilla)) \subseteq Relatives
  <2> DEFINE R == Resources(world.mozilla)
  <2>1. R \in Seq(Relatives)
    BY <1>2
  <2> HIDE DEF R
  <2>2. ToSet(R) \subseteq Relatives
    BY <2>1, LenProperties DEF ToSet
  <2> QED
    BY <2>2 DEF R
<1>4. world.exclude \subseteq Path /\ world.plain \subseteq Path
  BY WorldAssumption DEF Inv
<1>5. \A p \in Relatives : p \in Path /\ destination \o p \in Path /\ source \o p \in Path
  BY Known, PathConcat DEF Relatives
<1>6. \A p \in Relatives : Real(tree, destination \o p) = Place(p)
  BY <1>5, ReachNow DEF Place
<1> QED
  BY <1>1, <1>2, <1>3, <1>4, <1>5, <1>6 DEF Outputs

\* What a step must leave alone, for the tree.
LEMMA ExactStep ==
  ASSUME Inv, ExactOK, world' = world, Grown(tree, tree'),
         \A p \in DOMAIN tree' : \/ p \in DOMAIN tree /\ tree'[p] = tree[p]
                                 \/ tree'[p] = Dir \/ \E q \in Outputs : p = Place(q)
  PROVE  ExactOK' /\ (~LinkRefused(tree, source) => ~LinkRefused(tree, source)')
<1>1. ~LinkRefused(tree, source) => ~LinkRefused(tree, source)'
  BY SameOutputs, Known, RefusedStays
<1>2. ASSUME NEW p \in DOMAIN tree' PROVE Same(p)' \/ tree'[p] = Dir \/ \E q \in Outputs : p = Place(q)
  <2>1. CASE p \in DOMAIN tree /\ tree'[p] = tree[p]
    BY <2>1, SameOutputs DEF ExactOK, Same
  <2> QED
    BY <1>2, <2>1
<1> QED
  BY <1>1, <1>2, SameOutputs DEF ExactOK

\* Making directories touches no file.
LEMMA MkdirsExact ==
  ASSUME Inv, ExactOK, world' = world, NEW d \in Path, ~Blocked(tree, d), tree' = mkdirs(tree, d)
  PROVE  /\ ExactOK' /\ (~LinkRefused(tree, source) => ~LinkRefused(tree, source)')
         /\ \A p \in Relatives : \A c : Has(p, c) => Has(p, c)'
<1>1. Grown(tree, tree') /\ \A q \in DOMAIN tree : tree'[q] = tree[q]
  BY Known, MkdirsGrows
<1>2. \A q \in DOMAIN tree' : q \in DOMAIN tree \/ tree'[q] = Dir
  BY DEF mkdirs
<1>3. ExactOK' /\ (~LinkRefused(tree, source) => ~LinkRefused(tree, source)')
  BY <1>1, <1>2, ExactStep
<1>4. ASSUME NEW p \in Relatives, NEW c, Has(p, c) PROVE Has(p, c)'
  <2>1. Real(tree', destination \o p) = Real(tree, destination \o p) /\ destination' = destination
    BY <1>1, OutputsKnown, GrownReal, SameOutputs
  <2>2. Real(tree, destination \o p) \in DOMAIN tree /\ tree[Real(tree, destination \o p)] = File(c)
    BY <1>4 DEF Has, Exists
  <2>3. Real(tree, destination \o p) \in DOMAIN tree' /\ tree'[Real(tree, destination \o p)] = File(c)
    BY <1>1, <2>2 DEF Grown
  <2> QED
    BY <2>1, <2>3 DEF Has, Exists
<1> QED
  BY <1>3, <1>4

\* Writing a file touches no other.
LEMMA WrittenExact ==
  ASSUME Inv, Apart, ExactOK, world' = world, NEW q \in Outputs, NEW c,
         Writable(tree, destination \o q) \/ IsKind(tree, destination \o q, "file"),
         tree' = Written(tree, destination \o q, c)
  PROVE  /\ ExactOK' /\ (~LinkRefused(tree, source) => ~LinkRefused(tree, source)')
         /\ Has(q, c)'
         /\ \A p \in Outputs : \A x : p # q /\ Has(p, x) => Has(p, x)'
<1>1. q \in Relatives /\ destination \o q \in Path /\ Real(tree, destination \o q) = Place(q)
  BY OutputsKnown
<1>2. /\ Grown(tree, tree')
      /\ \A p \in DOMAIN tree' : p # Place(q) => p \in DOMAIN tree /\ tree'[p] = tree[p]
      /\ Place(q) \in DOMAIN tree' /\ tree'[Place(q)] = File(c)
  BY <1>1, Known, WrittenGrows
<1>3. ExactOK' /\ (~LinkRefused(tree, source) => ~LinkRefused(tree, source)')
  BY <1>2, ExactStep
<1>4. \A p \in Outputs : Real(tree', destination' \o p) = Place(p) /\ Real(tree, destination \o p) = Place(p)
  BY <1>2, OutputsKnown, GrownReal, SameOutputs
<1>5. Has(q, c)'
  BY <1>2, <1>4 DEF Has, Exists
<1>6. ASSUME NEW p \in Outputs, NEW x, p # q, Has(p, x) PROVE Has(p, x)'
  <2>1. Place(p) # Place(q)
    BY <1>6 DEF Apart
  <2>2. Place(p) \in DOMAIN tree /\ tree[Place(p)] = File(x)
    BY <1>4, <1>6 DEF Has, Exists
  <2>3. Place(p) \in DOMAIN tree' /\ tree'[Place(p)] = File(x)
    BY <1>2, <2>1, <2>2 DEF Grown
  <2> QED
    BY <1>4, <2>3 DEF Has, Exists
<1> QED
  BY <1>3, <1>5, <1>6

\* The files of the source stay, and what is in those that are copied.
LEMMA SourceStays ==
  ASSUME Inv, Apart, ExactOK
  PROVE  Relative(tree, source) = Relative(Start, source)
<1>1. /\ FileSystem(tree) /\ FileSystem(Start) /\ Grown(Start, tree) /\ source \in Path
      /\ Real(tree, source) = Real(Start, source) /\ Real(Start, source) \in Path
  BY Known, GrownReal, RealStraight
<1>2. Relative(tree, source) \subseteq Path /\ Relative(Start, source) \subseteq Path
  BY <1>1, RelativeType
<1>3. ASSUME NEW p \in Path PROVE p \in Relative(tree, source) <=> p \in Relative(Start, source)
  <2> DEFINE c == Real(Start, source) \o p
  <2>1. /\ p \in Relative(tree, source) <=> p # <<>> /\ c \in DOMAIN tree /\ tree[c].kind # "dir"
        /\ p \in Relative(Start, source) <=> p # <<>> /\ c \in DOMAIN Start /\ Start[c].kind # "dir"
    BY <1>1, RelativeIs
  <2>2. Inside(c, source)
    BY <1>1, PrefixOfConcat DEF Inside
  <2> HIDE DEF c
  <2>3. ASSUME c \in DOMAIN Start PROVE c \in DOMAIN tree /\ (tree[c].kind = "dir" <=> Start[c].kind = "dir")
    <3>1. c \in DOMAIN tree /\ (tree[c] = Dir <=> Start[c] = Dir)
      BY <1>1, <2>3 DEF Grown
    <3>2. (tree[c].kind = "dir" <=> tree[c] = Dir) /\ (Start[c].kind = "dir" <=> Start[c] = Dir)
      BY <1>1, <2>3, <3>1, FileSystemMeans
    <3> QED
      BY <3>1, <3>2
  <2>4. ASSUME c \in DOMAIN tree, tree[c].kind # "dir" PROVE c \in DOMAIN Start /\ Start[c].kind # "dir"
    <3>1. tree[c] # Dir
      BY <2>4 DEF Dir
    <3>2. ~\E q \in Outputs : c = Place(q)
      BY <2>2 DEF Apart
    <3>3. Same(c)
      BY <2>4, <3>1, <3>2 DEF ExactOK
    <3> QED
      BY <2>4, <3>3 DEF Same
  <2> QED
    BY <2>1, <2>3, <2>4
<1> QED
  BY <1>2, <1>3

\* What is in a file of the source that is copied is what was there in the beginning.
LEMMA ContentStays ==
  ASSUME Inv, Apart, ExactOK, ~LinkRefused(tree, source), NEW p \in Wanted
  PROVE  tree[Real(tree, source \o p)].content = Start[Real(Start, source \o p)].content
<1>1. p \in Relative(tree, source) /\ p \in Path /\ source \o p \in Path
  BY SourceStays, OutputsKnown
<1>2. Real(tree, source \o p) \in DOMAIN tree /\ tree[Real(tree, source \o p)] # Dir
  BY <1>1, Known, SourceThere
<1>3. Real(tree, source \o p) = Real(Start, source \o p)
  BY <1>1, Known, GrownReal
<1>4. ~\E q \in Outputs : Real(Start, source \o p) = Place(q)
  BY DEF Apart, Outputs
<1>5. Same(Real(tree, source \o p))
  BY <1>2, <1>3, <1>4 DEF ExactOK
<1> QED
  BY <1>3, <1>5 DEF Same
\* Nothing is in an empty list.
LEMMA NothingLeft == ToSet(<<>>) = {}
BY DEF ToSet

\* A step that leaves the tree alone.
LEMMA CompleteStays ==
  ASSUME Inv, ExactOK, world' = world, tree' = tree
  PROVE  /\ ExactOK' /\ (LinkRefused(tree, source)' <=> LinkRefused(tree, source))
         /\ \A p, c : Has(p, c)' <=> Has(p, c)
<1>1. ExactOK'
  BY SameOutputs DEF ExactOK, Same
<1>2. LinkRefused(tree, source)' <=> LinkRefused(tree, source)
  BY SameOutputs DEF LinkRefused, Below, IsKind, Exists
<1>3. \A p, c : Has(p, c)' <=> Has(p, c)
  BY SameOutputs DEF Has, Exists
<1> QED
  BY <1>1, <1>2, <1>3

\* A run that does not succeed leaves nothing to be said but what it has touched.
LEMMA EndComplete ==
  ASSUME ExactOK', NEW how, how # "success", End(how)
  PROVE  CompleteOK'
<1>1. pc' = "off" /\ ended' = how /\ left' = <<>>
  BY DEF End
<1>2. LeftOK'
  BY <1>1, NothingLeft DEF LeftOK
<1> QED
  BY <1>1, <1>2 DEF CompleteOK, Copying, CopyingOK, WritingOK, ResourcesOK, FilesOK, CopiedOK

\* One lemma for each action; what a step copies is added, what it does not stays.
LEMMA CheckComplete ==
  ASSUME CompleteInv, Apart, Run \/ Check
  PROVE  CompleteOK'
<1>1. Inv /\ ExactOK /\ world' = world /\ tree' = tree
  BY DEF CompleteInv, CompleteOK, Run, Check
<1>2. ExactOK'
  BY <1>1, CompleteStays
<1>3. CASE Run
  <2>1. pc' = "check" /\ left' = left
    BY <1>3 DEF Run
  <2>2. LeftOK'
    BY <1>1, <2>1, SameOutputs DEF CompleteInv, CompleteOK, LeftOK
  <2> QED
    BY <1>2, <2>1, <2>2 DEF CompleteOK, Copying, CopyingOK, WritingOK, ResourcesOK, FilesOK, CopiedOK
<1>4. CASE Check /\ Accepts(tree, source, destination, world.mozilla)
  <2>1. pc' = "make" /\ left' = Resources(world.mozilla)
    BY <1>4 DEF Check
  <2>2. left' = Resources(world.mozilla)'
    BY <1>1, <2>1, SameOutputs
  <2>3. ResourcesOK'
    BY <2>2 DEF ResourcesOK
  <2>4. LeftOK'
    BY <2>2 DEF LeftOK
  <2> QED
    BY <1>2, <2>1, <2>3, <2>4 DEF CompleteOK, Copying, CopyingOK, WritingOK, FilesOK, CopiedOK
<1>5. CASE Check /\ ~Accepts(tree, source, destination, world.mozilla)
  <2>1. End("refused")
    BY <1>5 DEF Check
  <2> QED
    BY <1>2, <2>1, EndComplete
<1> QED
  BY <1>3, <1>4, <1>5

\* Making the destination touches no file.
LEMMA MakeDestinationComplete ==
  ASSUME CompleteInv, Apart, MakeDestination
  PROVE  CompleteOK'
<1>1. Inv /\ CompleteOK /\ ExactOK /\ ResourcesOK /\ pc = "make" /\ world' = world
  BY DEF CompleteInv, CompleteOK, MakeDestination
<1>2. CASE ~Exists(tree, Real(tree, destination)) /\ Exists(tree, destination)
  <2>1. End("fatal") /\ tree' = tree
    BY <1>2 DEF MakeDestination
  <2> QED
    BY <1>1, <2>1, CompleteStays, EndComplete
<1>3. CASE Exists(tree, Real(tree, destination)) \/ ~Exists(tree, destination)
  <2>1. /\ pc' \in {"chrome", "resources"} /\ left' = left
        /\ tree' = IF Exists(tree, Real(tree, destination)) THEN tree ELSE mkdirs(tree, destination)
    BY <1>3 DEF MakeDestination
  <2>2. ExactOK' /\ \A p \in Relatives : \A c : Has(p, c) => Has(p, c)'
    <3>1. CASE Exists(tree, Real(tree, destination))
      BY <1>1, <2>1, <3>1, CompleteStays
    <3>2. CASE ~Exists(tree, Real(tree, destination))
      <4>1. ~Blocked(tree, destination) /\ destination \in Path
        BY <1>1, <1>3, <3>2, DestinationFree, Known
      <4> QED
        BY <1>1, <2>1, <3>2, <4>1, MkdirsExact
    <3> QED
      BY <3>1, <3>2
  <2>3. ResourcesOK'
    <3>1. \A r \in ToSet(Resources(world.mozilla)) : r \in ToSet(left) \/ Has(r, <<"resource", Last(r)>>)
      BY <1>1 DEF ResourcesOK, Writing, Copying
    <3>2. \A r \in ToSet(Resources(world.mozilla)) : r \in ToSet(left') \/ Has(r, <<"resource", Last(r)>>)'
      BY <1>1, <2>1, <2>2, <3>1, OutputsKnown
    <3> QED
      BY <1>1, <3>2, SameOutputs DEF ResourcesOK
  <2>4. LeftOK'
    BY <1>1, <2>1, SameOutputs DEF CompleteOK, LeftOK
  <2> QED
    BY <2>1, <2>2, <2>3, <2>4 DEF CompleteOK, Copying, CopyingOK, WritingOK, FilesOK, CopiedOK
<1> QED
  BY <1>2, <1>3

\* So does making the directory of the resources of Mozilla.
LEMMA MakeChromeComplete ==
  ASSUME CompleteInv, Apart, MakeChrome
  PROVE  CompleteOK'
<1>1. Inv /\ CompleteOK /\ ExactOK /\ ResourcesOK /\ pc = "chrome" /\ world' = world
  BY DEF CompleteInv, CompleteOK, MakeChrome
<1>2. CASE Blocked(tree, destination \o ChromeDirectory)
  <2>1. End("fatal") /\ tree' = tree
    BY <1>2 DEF MakeChrome
  <2> QED
    BY <1>1, <2>1, CompleteStays, EndComplete
<1>3. CASE ~Blocked(tree, destination \o ChromeDirectory)
  <2>1. pc' = "resources" /\ left' = left /\ tree' = mkdirs(tree, destination \o ChromeDirectory)
    BY <1>3 DEF MakeChrome
  <2>2. ExactOK' /\ \A p \in Relatives : \A c : Has(p, c) => Has(p, c)'
    BY <1>1, <1>3, <2>1, ChromePath, MkdirsExact
  <2>3. ResourcesOK'
    <3>1. \A r \in ToSet(Resources(world.mozilla)) : r \in ToSet(left) \/ Has(r, <<"resource", Last(r)>>)
      BY <1>1 DEF ResourcesOK, Writing, Copying
    <3>2. \A r \in ToSet(Resources(world.mozilla)) : r \in ToSet(left') \/ Has(r, <<"resource", Last(r)>>)'
      BY <1>1, <2>1, <2>2, <3>1, OutputsKnown
    <3> QED
      BY <1>1, <3>2, SameOutputs DEF ResourcesOK
  <2>4. LeftOK'
    BY <1>1, <2>1, SameOutputs DEF CompleteOK, LeftOK
  <2> QED
    BY <2>1, <2>2, <2>3, <2>4 DEF CompleteOK, Copying, CopyingOK, WritingOK, FilesOK, CopiedOK
<1> QED
  BY <1>2, <1>3

\* A resource is taken off the list, and is being written.
LEMMA NextResourceComplete ==
  ASSUME CompleteInv, Apart, NextResource
  PROVE  CompleteOK'
<1> DEFINE r == Head(left)
           to == destination \o r
<1>1. /\ Inv /\ CompleteOK /\ ExactOK /\ ResourcesOK
      /\ pc = "resources" /\ left # <<>> /\ world' = world
      /\ Begin(to, <<"resource", Last(r)>>, "resources")
      /\ left' = IF pc' = "off" THEN <<>> ELSE Tail(left)
  BY DEF CompleteInv, CompleteOK, NextResource
<1>2. left \in Seq(Relatives)
  BY <1>1 DEF Inv, TypeOK
<1>3. r \in Relatives /\ ToSet(left) = {r} \cup ToSet(Tail(left))
  BY <1>1, <1>2, MembersOf
<1>4. r \in ToSet(Resources(world.mozilla))
  BY <1>1, <1>3 DEF CompleteInv, CompleteOK, LeftOK
<1>5. CASE Blocked(tree, Front(to))
  <2>1. End("fatal") /\ tree' = tree
    BY <1>1, <1>5 DEF Begin
  <2> QED
    BY <1>1, <2>1, CompleteStays, EndComplete
<1>6. CASE ~Blocked(tree, Front(to))
  <2>1. /\ tree' = mkdirs(tree, Front(to)) /\ pc' = "open" /\ left' = Tail(left)
        /\ file' = [to |-> to, content |-> <<"resource", Last(r)>>, next |-> "resources"]
    BY <1>1, <1>6 DEF Begin
  <2>2. Front(to) \in Path
    BY <1>1, <1>3, Known, ConcatSplit DEF Relatives
  <2>3. ExactOK' /\ \A p \in Relatives : \A c : Has(p, c) => Has(p, c)'
    BY <1>1, <1>6, <2>1, <2>2, MkdirsExact
  <2>4. destination' = destination /\ Resources(world.mozilla)' = Resources(world.mozilla)
    BY <1>1, SameOutputs
  <2> HIDE DEF r
  <2>5. WritingOK'
    BY <1>4, <2>1, <2>4 DEF WritingOK
  <2>6. ResourcesOK'
    <3>1. ASSUME NEW s \in ToSet(Resources(world.mozilla))
          PROVE  s \in ToSet(left) \/ Has(s, <<"resource", Last(s)>>)
      BY <1>1 DEF ResourcesOK, Writing, Copying
    <3>2. ASSUME NEW s \in ToSet(Resources(world.mozilla))
          PROVE  s \in ToSet(left') \/ Writing(s)' \/ Has(s, <<"resource", Last(s)>>)'
      <4>1. CASE s = r
        BY <2>1, <2>4, <4>1 DEF Writing
      <4>2. CASE s # r
        BY <1>1, <1>3, <2>1, <2>3, <3>1, <4>2, OutputsKnown
      <4> QED
        BY <4>1, <4>2
    <3> QED
      BY <2>4, <3>2 DEF ResourcesOK
  <2>7. LeftOK'
    BY <1>3, <2>1, <2>4 DEF CompleteInv, CompleteOK, LeftOK
  <2> QED
    BY <2>1, <2>3, <2>5, <2>6, <2>7 DEF CompleteOK, Copying, CopyingOK, FilesOK, CopiedOK
<1> QED
  BY <1>5, <1>6
\* The list is that of the files there were in the source in the beginning.
LEMMA ListFilesComplete ==
  ASSUME CompleteInv, Apart, ListFiles
  PROVE  CompleteOK'
<1>1. /\ Inv /\ CompleteOK /\ ExactOK /\ ResourcesOK /\ LeftOK
      /\ pc = "resources" /\ left = <<>> /\ world' = world /\ tree' = tree
  BY DEF CompleteInv, CompleteOK, ListFiles
<1>2. ExactOK' /\ (LinkRefused(tree, source)' <=> LinkRefused(tree, source)) /\ \A p, c : Has(p, c)' <=> Has(p, c)
  BY <1>1, CompleteStays
<1>3. CASE LinkRefused(tree, source)
  <2>1. End("fatal")
    BY <1>3 DEF ListFiles
  <2> QED
    BY <1>2, <2>1, EndComplete
<1>4. CASE ~LinkRefused(tree, source)
  <2>1. todo' \in Orders(Relative(tree, source)) /\ pc' = "files" /\ left' = <<>>
    BY <1>1, <1>4 DEF ListFiles
  <2>2. IsFiniteSet(Relative(tree, source)) /\ Relative(tree, source) = Relative(Start, source)
    BY <1>1, Known, RelativeType, SourceStays
  <2> DEFINE R == Relative(Start, source)
  <2> HIDE DEF R
  <2>3. todo' \in Seq(R) /\ R \subseteq ToSet(todo')
    BY <2>1, <2>2, OrdersType, OrdersAll DEF R
  <2>4. R' = R /\ Wanted' = Wanted /\ Wanted \subseteq R
    BY <1>1, SameOutputs, OutputsKnown DEF R
  <2>5. CopyingOK'
    BY <1>2, <1>4, <2>1, <2>3, <2>4 DEF CopyingOK, R
  <2>6. FilesOK'
    BY <2>3, <2>4 DEF FilesOK
  <2>7. ResourcesOK' /\ LeftOK'
    BY <1>1, <1>2, <2>1, SameOutputs, NothingLeft DEF ResourcesOK, LeftOK, Writing, Copying
  <2> QED
    BY <1>2, <2>1, <2>5, <2>6, <2>7 DEF CompleteOK, WritingOK, CopiedOK
<1> QED
  BY <1>3, <1>4

\* The next file on the list is one of the source, and found on the lists of the user as it
\* is in the beginning.
LEMMA NextIs ==
  ASSUME CompleteInv, Apart, pc = "files", todo # <<>>
  PROVE  /\ Inv /\ CompleteOK /\ ExactOK /\ ~LinkRefused(tree, source) /\ left = <<>>
         /\ Head(todo) \in Relatives /\ Head(todo) \in Relative(Start, source)
         /\ Tail(todo) \in Seq(Relative(Start, source))
         /\ ToSet(todo) = {Head(todo)} \cup ToSet(Tail(todo))
         /\ Listed(world.exclude, Head(todo)) <=> Head(todo) \notin Wanted
         /\ Listed(world.plain, Head(todo)) <=> Covered(world.plain, Head(todo))
<1>1. /\ Inv /\ CompleteOK /\ ExactOK /\ ~LinkRefused(tree, source) /\ left = <<>>
      /\ todo \in Seq(Relative(Start, source))
  BY DEF CompleteInv, CompleteOK, CopyingOK, Copying
<1> DEFINE R == Relative(Start, source)
<1> HIDE DEF R
<1>2. todo \in Seq(R)
  BY <1>1 DEF R
<1>3. /\ Head(todo) \in R /\ Tail(todo) \in Seq(R)
      /\ ToSet(todo) = {Head(todo)} \cup ToSet(Tail(todo))
  BY <1>2, MembersOf
<1>4. R \subseteq Relatives /\ R = Relative(tree, source)
  BY <1>1, OutputsKnown, SourceStays DEF R
<1>5. /\ Listed(world.exclude, Head(todo)) <=> Covered(world.exclude, Head(todo))
      /\ Listed(world.plain, Head(todo)) <=> Covered(world.plain, Head(todo))
  <2>1. Head(todo) \in Path /\ Head(todo) \in Relative(tree, source)
    BY <1>3, <1>4 DEF Relatives
  <2>2. world.exclude \subseteq Path /\ world.plain \subseteq Path
    BY <1>1, OutputsKnown
  <2> QED
    BY <1>1, <2>1, <2>2, ListedMeans
<1>6. Head(todo) \in Wanted <=> ~Covered(world.exclude, Head(todo))
  BY <1>3 DEF Wanted, R
<1> QED
  BY <1>1, <1>3, <1>4, <1>5, <1>6 DEF R

\* A file that is left out is one that is excluded.
LEMMA SkipComplete ==
  ASSUME CompleteInv, Apart, Skip
  PROVE  CompleteOK'
<1>1. /\ pc = "files" /\ pc' = pc /\ todo # <<>> /\ todo' = Tail(todo) /\ Listed(world.exclude, Head(todo))
      /\ world' = world /\ tree' = tree /\ left' = left /\ file' = file
  BY DEF Skip
<1>2. /\ Inv /\ CompleteOK /\ ExactOK /\ ~LinkRefused(tree, source) /\ left = <<>>
      /\ todo' \in Seq(Relative(Start, source))
      /\ ToSet(todo) = {Head(todo)} \cup ToSet(todo') /\ Head(todo) \notin Wanted
  BY <1>1, NextIs
<1>3. /\ ExactOK' /\ (LinkRefused(tree, source)' <=> LinkRefused(tree, source))
      /\ \A p, c : Has(p, c)' <=> Has(p, c)
  BY <1>1, <1>2, CompleteStays
<1>4. CopyingOK'
  BY <1>1, <1>2, <1>3, SameOutputs DEF CopyingOK
<1>5. FilesOK'
  BY <1>1, <1>2, <1>3, SameOutputs DEF CompleteOK, FilesOK, Copying, Writing
<1>6. ResourcesOK' /\ LeftOK'
  BY <1>1, <1>2, <1>3, SameOutputs DEF CompleteOK, ResourcesOK, LeftOK, Copying, Writing
<1> QED
  BY <1>1, <1>3, <1>4, <1>5, <1>6 DEF CompleteOK, WritingOK, CopiedOK

\* A file is taken off the list, and is being written as what it is to become.
LEMMA NextFileComplete ==
  ASSUME CompleteInv, Apart, NextFile
  PROVE  CompleteOK'
<1>0. PICK p : p = Head(todo)
  OBVIOUS
<1> DEFINE from == source \o p
           to == destination \o p
<1>1. pc = "files" /\ todo # <<>> /\ world' = world
  BY DEF NextFile
<1>2. /\ Inv /\ CompleteOK /\ ExactOK /\ ~LinkRefused(tree, source) /\ left = <<>>
      /\ p \in Relatives /\ Tail(todo) \in Seq(Relative(Start, source))
      /\ ToSet(todo) = {p} \cup ToSet(Tail(todo))
      /\ Listed(world.exclude, p) <=> p \notin Wanted
      /\ Listed(world.plain, p) <=> Covered(world.plain, p)
  BY <1>0, <1>1, NextIs
<1>3. Front(to) \in Path
  BY <1>2, Known, ConcatSplit DEF Relatives
<1>4. ASSUME ~Blocked(tree, Front(to)), tree' = mkdirs(tree, Front(to))
      PROVE  /\ ExactOK' /\ (~LinkRefused(tree, source) => ~LinkRefused(tree, source)')
             /\ \A q \in Relatives : \A c : Has(q, c) => Has(q, c)'
  BY <1>1, <1>2, <1>3, <1>4, MkdirsExact
<1>5. CASE Unreachable(world.exclude) \/ Blocked(tree, Front(to))
  <2>1. End("fatal") /\ tree' = tree
    BY <1>0, <1>5 DEF NextFile
  <2> QED
    BY <1>1, <1>2, <2>1, CompleteStays, EndComplete
<1>6. CASE /\ ~Unreachable(world.exclude) /\ ~Blocked(tree, Front(to))
           /\ Unreachable(world.plain) \/ is_same_file(mkdirs(tree, Front(to)), from, to)
  <2>1. End("fatal") /\ tree' = mkdirs(tree, Front(to))
    BY <1>0, <1>6 DEF NextFile
  <2> QED
    BY <1>4, <1>6, <2>1, EndComplete
<1>7. CASE /\ ~Unreachable(world.exclude) /\ ~Blocked(tree, Front(to))
           /\ ~(Unreachable(world.plain) \/ is_same_file(mkdirs(tree, Front(to)), from, to))
  <2>0. PICK content : content = Outcome(p, tree[Real(tree, from)].content)
    OBVIOUS
  <2>1. Begin(to, content, "files") /\ todo' = Tail(todo) /\ left' = left /\ ~Listed(world.exclude, p)
    BY <1>0, <1>7, <2>0 DEF NextFile
  <2>2. /\ tree' = mkdirs(tree, Front(to)) /\ pc' = "open"
        /\ file' = [to |-> to, content |-> content, next |-> "files"]
    BY <1>7, <2>1 DEF Begin
  <2>3. p \in Wanted
    BY <1>2, <2>1
  <2>4. content \in {Becomes(p), <<"error">>}
    <3>1. tree[Real(tree, from)].content = Start[Real(Start, from)].content
      BY <1>2, <2>3, ContentStays
    <3> QED
      BY <1>2, <2>0, <3>1 DEF Outcome, Becomes
  <2>5. /\ ExactOK' /\ ~LinkRefused(tree, source)'
        /\ \A q \in Relatives : \A c : Has(q, c) => Has(q, c)'
    BY <1>2, <1>4, <1>7, <2>2
  <2>6. /\ file'.to = destination' \o p /\ file'.next = "files" /\ file'.content \in {Becomes(p)', <<"error">>}
        /\ Wanted' = Wanted
    BY <1>1, <2>2, <2>4, SameOutputs
  <2>7. WritingOK'
    <3>1. p \in Wanted'
      BY <2>3, <2>6
    <3> QED
      BY <2>6, <3>1 DEF WritingOK
  <2>8. Writing(p)' /\ Copying'
    BY <2>2, <2>6 DEF Writing, Copying
  <2>9. CopyingOK'
    BY <1>1, <1>2, <2>1, <2>5, SameOutputs DEF CopyingOK
  <2>10. FilesOK'
    <3>1. ASSUME NEW q \in Wanted PROVE q \in ToSet(todo') \/ Writing(q)' \/ Has(q, Becomes(q))'
      <4>1. q \in ToSet(todo) \/ Has(q, Becomes(q))
        BY <1>1, <1>2 DEF CompleteOK, FilesOK, Copying, Writing
      <4>2. CASE q = p
        <5>1. \A x : x = p => Writing(x)'
          BY <2>8
        <5> QED
          BY <4>2, <5>1
      <4>3. CASE q # p
        BY <1>1, <1>2, <2>1, <2>5, <4>1, <4>3, OutputsKnown, SameOutputs
      <4> QED
        BY <4>2, <4>3
    <3> QED
      BY <1>1, <3>1, SameOutputs DEF FilesOK
  <2>11. ResourcesOK'
    <3>1. ASSUME NEW r \in ToSet(Resources(world.mozilla))
          PROVE  Has(r, <<"resource", Last(r)>>)' \/ r \in Wanted
      <4>1. Has(r, <<"resource", Last(r)>>) \/ r \in Wanted
        BY <1>1, <1>2, NothingLeft DEF CompleteOK, ResourcesOK, Writing
      <4> QED
        BY <1>2, <2>5, <4>1, OutputsKnown
    <3> QED
      BY <1>1, <2>8, <3>1, SameOutputs DEF ResourcesOK
  <2>12. LeftOK'
    BY <1>1, <1>2, <2>1, SameOutputs DEF CompleteOK, LeftOK
  <2> QED
    BY <2>2, <2>5, <2>7, <2>9, <2>10, <2>11, <2>12 DEF CompleteOK, CopiedOK
<1> QED
  BY <1>5, <1>6, <1>7

\* What is being written is one file.
LEMMA WritingIs ==
  ASSUME CompleteInv, Apart, pc \in {"open", "write"}
  PROVE  \E q \in Outputs :
           /\ file.to = destination \o q
           /\ \A p \in Outputs : Writing(p) => p = q
           /\ \/ /\ file.next = "resources" /\ q \in ToSet(Resources(world.mozilla))
                 /\ file.content = <<"resource", Last(q)>>
              \/ file.next = "files" /\ q \in Wanted /\ file.content \in {Becomes(q), <<"error">>}
<1>1. Inv /\ WritingOK
  BY DEF CompleteInv, CompleteOK
<1>2. ASSUME NEW q \in Outputs, NEW p \in Outputs, file.to = destination \o q, Writing(p) PROVE p = q
  <2>1. destination \o p = destination \o q
    BY <1>2 DEF Writing
  <2>2. Place(p) = Place(q)
    BY <2>1 DEF Place
  <2> QED
    BY <2>2 DEF Apart
<1>3. CASE \E r \in ToSet(Resources(world.mozilla)) :
             file.next = "resources" /\ file.to = destination \o r /\ file.content = <<"resource", Last(r)>>
  BY <1>2, <1>3 DEF Outputs
<1>4. CASE \E p \in Wanted :
             file.next = "files" /\ file.to = destination \o p /\ file.content \in {Becomes(p), <<"error">>}
  BY <1>2, <1>4 DEF Outputs
<1> QED
  BY <1>1, <1>3, <1>4 DEF WritingOK

\* Opening the file cuts no other.
LEMMA OpenComplete ==
  ASSUME CompleteInv, Apart, Open
  PROVE  CompleteOK'
<1>1. Inv /\ CompleteOK /\ ExactOK /\ pc = "open" /\ world' = world
  BY DEF CompleteInv, CompleteOK, Open
<1>2. CASE ~Writable(tree, file.to)
  <2>1. End("fatal") /\ tree' = tree
    BY <1>2 DEF Open
  <2> QED
    BY <1>1, <2>1, CompleteStays, EndComplete
<1>3. CASE Writable(tree, file.to)
  <2>1. /\ tree' = Written(tree, file.to, <<"cut">>)
        /\ pc' = "write" /\ left' = left /\ todo' = todo /\ file' = file
    BY <1>3 DEF Open
  <2>2. PICK q \in Outputs : file.to = destination \o q
    BY <1>1, WritingIs
  <2>3. /\ ExactOK' /\ (~LinkRefused(tree, source) => ~LinkRefused(tree, source)')
        /\ \A p \in Outputs : \A x : p # q /\ Has(p, x) => Has(p, x)'
    BY <1>1, <1>3, <2>1, <2>2, WrittenExact
  <2>4. /\ Writing(q)' /\ (Copying' <=> Copying) /\ \A p : Writing(p) => Writing(p)'
    BY <1>1, <2>1, <2>2, SameOutputs DEF Writing, Copying
  <2>5. WritingOK'
    BY <1>1, <2>1, SameOutputs DEF CompleteOK, WritingOK
  <2>6. CopyingOK'
    BY <1>1, <2>1, <2>3, <2>4, SameOutputs DEF CompleteOK, CopyingOK
  <2>7. FilesOK'
    <3>1. ASSUME Copying, NEW p \in Wanted PROVE p \in ToSet(todo') \/ Writing(p)' \/ Has(p, Becomes(p))'
      <4>1. p \in ToSet(todo) \/ Writing(p) \/ Has(p, Becomes(p))
        BY <1>1, <3>1 DEF CompleteOK, FilesOK
      <4>2. Becomes(p)' = Becomes(p) /\ p \in Outputs
        BY <1>1, SameOutputs DEF Outputs
      <4>3. CASE p = q
        BY <2>4, <4>3
      <4>4. CASE p # q
        BY <2>1, <2>3, <2>4, <4>1, <4>2, <4>4
      <4> QED
        BY <4>3, <4>4
    <3> QED
      BY <1>1, <2>4, <3>1, SameOutputs DEF FilesOK
  <2>8. ResourcesOK'
    <3>1. ASSUME NEW r \in ToSet(Resources(world.mozilla))
          PROVE  \/ r \in ToSet(left') \/ Writing(r)' \/ Has(r, <<"resource", Last(r)>>)'
                 \/ Copying' /\ r \in Wanted
      <4>1. r \in ToSet(left) \/ Writing(r) \/ Has(r, <<"resource", Last(r)>>) \/ (Copying /\ r \in Wanted)
        BY <1>1 DEF CompleteOK, ResourcesOK
      <4>2. r \in Outputs
        BY DEF Outputs
      <4>3. CASE r = q
        BY <2>4, <4>3
      <4>4. CASE r # q
        BY <2>1, <2>3, <2>4, <4>1, <4>2, <4>4
      <4> QED
        BY <4>3, <4>4
    <3> QED
      BY <1>1, <3>1, SameOutputs DEF ResourcesOK
  <2>9. LeftOK'
    BY <1>1, <2>1, SameOutputs DEF CompleteOK, LeftOK
  <2> QED
    BY <2>1, <2>3, <2>5, <2>6, <2>7, <2>8, <2>9 DEF CompleteOK, CopiedOK
<1> QED
  BY <1>2, <1>3

\* Writing the file leaves it as it is to be, and all others as they were.
LEMMA WriteComplete ==
  ASSUME CompleteInv, Apart, Write
  PROVE  CompleteOK'
<1>1. Inv /\ CompleteOK /\ ExactOK /\ pc = "write" /\ world' = world
  BY DEF CompleteInv, CompleteOK, Write
<1>2. CASE file.content = <<"error">>
  <2>1. End("fatal") /\ tree' = tree
    BY <1>2 DEF Write
  <2> QED
    BY <1>1, <2>1, CompleteStays, EndComplete
<1>3. CASE file.content # <<"error">>
  <2>0. PICK c : c = file.content
    OBVIOUS
  <2>1. /\ tree' = Written(tree, file.to, c)
        /\ pc' = file.next /\ left' = left /\ todo' = todo
    BY <1>3, <2>0 DEF Write
  <2>2. PICK q \in Outputs :
          /\ file.to = destination \o q
          /\ \A p \in Outputs : Writing(p) => p = q
          /\ \/ /\ file.next = "resources" /\ q \in ToSet(Resources(world.mozilla))
                /\ c = <<"resource", Last(q)>>
             \/ file.next = "files" /\ q \in Wanted /\ c = Becomes(q)
    BY <1>1, <1>3, <2>0, WritingIs
  <2>3. IsKind(tree, file.to, "file")
    BY <1>1 DEF Inv, FileOK
  <2>4. /\ ExactOK' /\ (~LinkRefused(tree, source) => ~LinkRefused(tree, source)')
        /\ Has(q, c)'
        /\ \A p \in Outputs : \A x : p # q /\ Has(p, x) => Has(p, x)'
    <3>1. tree' = Written(tree, destination \o q, c) /\ IsKind(tree, destination \o q, "file")
      BY <2>1, <2>2, <2>3
    <3> QED
      BY <1>1, <3>1, WrittenExact
  <2>5. (Copying <=> file.next = "files") /\ (Copying' <=> file.next = "files")
    BY <1>1, <2>1, <2>2 DEF Copying
  <2>6. WritingOK'
    BY <2>1, <2>2 DEF WritingOK
  <2>7. CopyingOK'
    BY <1>1, <2>1, <2>4, <2>5, SameOutputs DEF CompleteOK, CopyingOK
  <2>8. FilesOK'
    <3>1. ASSUME Copying', NEW p \in Wanted PROVE p \in ToSet(todo') \/ Has(p, Becomes(p))'
      <4>1. p \in ToSet(todo) \/ Writing(p) \/ Has(p, Becomes(p))
        BY <1>1, <2>5, <3>1 DEF CompleteOK, FilesOK
      <4>2. Becomes(p)' = Becomes(p) /\ p \in Outputs
        BY <1>1, SameOutputs DEF Outputs
      <4>3. CASE p = q
        <5>1. c = Becomes(p)'
          BY <2>2, <2>5, <3>1, <4>2, <4>3
        <5>2. \A x, y : x = q /\ y = c => Has(x, y)'
          BY <2>4
        <5>3. \A x : x = Becomes(p)' => (Has(p, x)' <=> Has(p, Becomes(p))')
          OBVIOUS
        <5> QED
          BY <4>3, <5>1, <5>2, <5>3
      <4>4. CASE p # q
        BY <2>1, <2>2, <2>4, <4>1, <4>2, <4>4
      <4> QED
        BY <4>3, <4>4
    <3> QED
      BY <1>1, <3>1, SameOutputs DEF FilesOK
  <2>9. ResourcesOK'
    <3>1. ASSUME NEW r \in ToSet(Resources(world.mozilla))
          PROVE  \/ r \in ToSet(left') \/ Has(r, <<"resource", Last(r)>>)'
                 \/ Copying' /\ r \in Wanted
      <4>1. r \in ToSet(left) \/ Writing(r) \/ Has(r, <<"resource", Last(r)>>) \/ (Copying /\ r \in Wanted)
        BY <1>1 DEF CompleteOK, ResourcesOK
      <4>2. r \in Outputs
        BY DEF Outputs
      <4>3. CASE r = q
        <5>1. \A x, y : x = q /\ y = c => Has(x, y)'
          BY <2>4
        <5> QED
          BY <2>2, <2>5, <4>3, <5>1
      <4>4. CASE r # q
        BY <2>1, <2>2, <2>4, <2>5, <4>1, <4>2, <4>4
      <4> QED
        BY <4>3, <4>4
    <3> QED
      BY <1>1, <3>1, SameOutputs DEF ResourcesOK
  <2>10. LeftOK'
    BY <1>1, <2>1, SameOutputs DEF CompleteOK, LeftOK
  <2>11. CopiedOK'
    BY <2>1, <2>2 DEF CopiedOK
  <2> QED
    BY <2>4, <2>6, <2>7, <2>8, <2>9, <2>10, <2>11 DEF CompleteOK
<1> QED
  BY <1>2, <1>3

\* When the list is empty everything is there.
LEMMA FinishComplete ==
  ASSUME CompleteInv, Apart, Finish
  PROVE  CompleteOK'
<1>1. /\ Inv /\ CompleteOK /\ ExactOK /\ pc = "files" /\ todo = <<>> /\ world' = world /\ tree' = tree
      /\ pc' = "off" /\ left' = <<>>
  BY DEF CompleteInv, CompleteOK, Finish, End
<1>2. ExactOK' /\ \A p, c : Has(p, c)' <=> Has(p, c)
  BY <1>1, CompleteStays
<1>3. \A p \in Wanted : Has(p, Becomes(p))
  BY <1>1, NothingLeft DEF CompleteOK, FilesOK, Copying, Writing
<1>4. left = <<>>
  BY <1>1 DEF CompleteOK, CopyingOK, Copying
<1>5. \A r \in ToSet(Resources(world.mozilla)) \ Wanted : Has(r, <<"resource", Last(r)>>)
  BY <1>1, <1>4, NothingLeft DEF CompleteOK, ResourcesOK, Writing
<1>6. CopiedOK'
  BY <1>1, <1>2, <1>3, <1>5, SameOutputs DEF CopiedOK
<1>7. LeftOK'
  BY <1>1, NothingLeft DEF LeftOK
<1> QED
  BY <1>1, <1>2, <1>6, <1>7 DEF CompleteOK, Copying, CopyingOK, WritingOK, ResourcesOK, FilesOK

\* CompleteInv is inductive: with the world it is said of, what is to be written stays.
LEMMA CompleteInvNext ==
  ASSUME CompleteInv, [Next]_vars
  PROVE  CompleteInv'
<1>1. Inv /\ Inv'
  BY InvNext DEF CompleteInv
<1>2. world' = world
  BY DEF Next, vars, Run, Check, MakeDestination, MakeChrome, NextResource, ListFiles, Skip, NextFile, Open, Write, Finish, Kill
<1>3. Apart' <=> Apart
  BY <1>2, SameOutputs
<1>4. ASSUME Apart PROVE CompleteOK'
  <2>1. CompleteOK /\ ExactOK
    BY <1>4 DEF CompleteInv, CompleteOK
  <2>2. CASE Kill
    <3>1. End("killed") /\ tree' = tree
      BY <2>2 DEF Kill
    <3> QED
      BY <1>1, <1>2, <2>1, <3>1, CompleteStays, EndComplete
  <2>3. CASE UNCHANGED vars
    <3>1. /\ tree' = tree /\ pc' = pc /\ left' = left /\ todo' = todo /\ file' = file /\ ended' = ended
      BY <2>3 DEF vars
    <3>2. /\ ExactOK' /\ (LinkRefused(tree, source)' <=> LinkRefused(tree, source))
          /\ \A p, c : Has(p, c)' <=> Has(p, c)
      BY <1>1, <1>2, <2>1, <3>1, CompleteStays
    <3>3. (Copying' <=> Copying) /\ \A p : Writing(p)' <=> Writing(p)
      BY <1>2, <3>1, SameOutputs DEF Copying, Writing
    <3>4. CopyingOK' /\ LeftOK'
      BY <1>2, <2>1, <3>1, <3>2, <3>3, SameOutputs DEF CompleteOK, CopyingOK, LeftOK
    <3>5. WritingOK'
      BY <1>2, <2>1, <3>1, SameOutputs DEF CompleteOK, WritingOK
    <3>6. ResourcesOK'
      BY <1>2, <2>1, <3>1, <3>2, <3>3, SameOutputs DEF CompleteOK, ResourcesOK
    <3>7. FilesOK' /\ CopiedOK'
      BY <1>2, <2>1, <3>1, <3>2, <3>3, SameOutputs DEF CompleteOK, FilesOK, CopiedOK
    <3> QED
      BY <3>2, <3>4, <3>5, <3>6, <3>7 DEF CompleteOK
  <2> QED
    BY <1>4, <2>2, <2>3, CheckComplete, MakeDestinationComplete, MakeChromeComplete, NextResourceComplete,
       ListFilesComplete, SkipComplete, NextFileComplete, OpenComplete, WriteComplete, FinishComplete DEF Next
<1> QED
  BY <1>1, <1>3, <1>4 DEF CompleteInv

\* The invariant holds at every moment, wherever a run is killed.
LEMMA CompleteInvariant == Spec => []CompleteInv
<1>1. Init => CompleteInv
  <2> SUFFICES ASSUME Init PROVE CompleteInv
    OBVIOUS
  <2>1. tree = Start /\ pc = "off" /\ ended = "never" /\ left = <<>>
    BY DEF Init, Start
  <2>2. ExactOK /\ LeftOK
    BY <2>1, NothingLeft DEF ExactOK, Same, LeftOK
  <2> QED
    BY <2>1, <2>2, InvInit DEF CompleteInv, CompleteOK, Copying, CopyingOK, WritingOK, ResourcesOK, FilesOK, CopiedOK
<1>2. CompleteInv /\ [Next]_vars => CompleteInv'
  BY CompleteInvNext
<1> QED
  BY <1>1, <1>2, PTL DEF Spec

----------------------------------------------------------------------------
(* The theorems. *)

LEMMA Invariant == Spec => []Inv
<1>1. Init => Inv
  BY InvInit
<1>2. Inv /\ [Next]_vars => Inv'
  BY InvNext
<1> QED
  BY <1>1, <1>2, PTL DEF Spec

\* What is different from the beginning is in the destination, which was accepted, or where
\* the links in it lead to: the files that the program reads and those of others stay.
LEMMA InvOnlyDestination ==
  ASSUME Inv
  PROVE  OnlyDestination
<1> SUFFICES ASSUME NEW p \in DOMAIN tree \cup DOMAIN Start, ~Same(p)
             PROVE  /\ ~Foreign(Start, destination, world.mozilla)
                    /\ (Inside(p, destination) /\ (Inside(p, source) => Overlap)) \/ Leads(p)
  BY DEF OnlyDestination
<1>1. p \in DOMAIN tree /\ p \in Path
  BY Known, FileSystemMeans DEF Grown
<1>2. Placed(p)
  BY <1>1 DEF Inv, TreeOK
<1>3. begun = TRUE
  <2>1. tree = Start => Same(p)
    BY <1>1 DEF Same
  <2> QED
    BY <2>1 DEF Inv, TypeOK, CheckedOK
<1>4. Accepts(Start, source, destination, world.mozilla)
  BY <1>3 DEF Inv, CheckedOK
<1>5. ~Foreign(Start, destination, world.mozilla)
  BY <1>4 DEF Accepts
<1>6. ASSUME Inside(p, destination), Inside(p, source) PROVE Overlap
  BY <1>1, <1>4, <1>6, AcceptedOverlap DEF Inv
<1> QED
  BY <1>2, <1>5, <1>6 DEF Placed

\* Whatever links there are, and wherever a run is killed, jscoverage_instrument changes
\* nothing but its destination and what the links in it lead to (main, mkdirs, copy_resource).
THEOREM OnlyDestinationCorrect == Spec => []OnlyDestination
<1>1. Inv => OnlyDestination
  BY InvOnlyDestination
<1> QED
  BY <1>1, Invariant, PTL

\* A destination that was accepted once is accepted again, wherever the run was killed or
\* ended by an error, because the page is the first file that is copied to it; but for a
\* Mozilla destination, whose module is the last of its resources.
THEOREM RepeatableCorrect == Spec => []Repeatable
<1>1. Inv => Repeatable
  BY DEF Inv
<1> QED
  BY <1>1, Invariant, PTL

\* At every moment the tree is a file system, in which whatever was there is still there:
\* the program removes nothing, and leaves every link and every directory what it was.
THEOREM NothingIsRemoved == Spec => [](FileSystem(tree) /\ Grown(Start, tree))
<1>1. Inv => FileSystem(tree) /\ Grown(Start, tree)
  BY Known
<1> QED
  BY <1>1, Invariant, PTL

\* A run that succeeds has copied every file of the source that is not excluded, instrumented
\* if it is a script that is to be, and every resource that no file takes the place of, and
\* however a run ends nothing but these has been written: unless links make one of them the
\* same as another or as one that is read (jscoverage_instrument, make_recursive_dir_list).
THEOREM CompleteCorrect == Spec => []Complete
<1>1. CompleteInv => Complete
  BY DEF CompleteInv, CompleteOK, Complete, ExactOK, CopiedOK
<1> QED
  BY <1>1, CompleteInvariant, PTL
============================================================================
