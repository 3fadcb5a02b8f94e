--------------------------- MODULE RenamePathProofs ---------------------------
(***************************************************************************)
(* Lemmas about the operators RenameFiles is built from: paths as          *)
(* sequences of names, what a rename does to a path (Rehome), where the    *)
(* new names of folders put a path (Located), and what replaying a journal *)
(* computes.                                                               *)
(*                                                                         *)
(* The prover has no induction over a variable; where the length of the    *)
(* journal calls for it, a least counterexample is taken instead (Least).  *)
(***************************************************************************)
EXTENDS RenameFiles, SequenceTheorems, WellFoundedInduction, TLAPS

-----------------------------------------------------------------------------
(* Paths as sequences: initial parts, prefixes, parents.                   *)

LEMMA PathFacts ==
  ASSUME NEW p \in Paths
  PROVE  /\ Len(p) \in Nat /\ DOMAIN p = 1..Len(p)
         /\ \A k \in 1..Len(p) : p[k] \in Names
         /\ Len(p) = 0 <=> p = Gone
<1> USE DEF Paths, Gone
<1>1. Len(p) \in Nat /\ p \in [1..Len(p) -> Names]
  BY LenProperties
<1>2. p # <<>> => Len(p) \in Nat \ {0}
  BY EmptySeq
<1>3. p = <<>> => Len(p) = 0
  BY EmptySeq
<1>4. \A k \in 1..Len(p) : p[k] \in Names
  BY ElementOfSeq
<1> QED BY <1>1, <1>2, <1>3, <1>4

LEMMA Initial ==
  ASSUME NEW p \in Paths, NEW k \in 0..Len(p)
  PROVE  /\ SubSeq(p, 1, k) \in Paths
         /\ Len(SubSeq(p, 1, k)) = k
         /\ \A i \in 1..k : SubSeq(p, 1, k)[i] = p[i]
<1>1. Len(p) \in Nat /\ \A i \in 1..Len(p) : p[i] \in Names
  BY PathFacts
<1>2. 1 \in Int /\ k \in Int /\ \A i \in 1..k : p[i] \in Names
  BY <1>1
<1>3. /\ SubSeq(p, 1, k) \in Paths
      /\ Len(SubSeq(p, 1, k)) = IF 1 <= k THEN k - 1 + 1 ELSE 0
      /\ \A i \in 1..(k - 1 + 1) : SubSeq(p, 1, k)[i] = p[1 + i - 1]
  BY <1>2, SubSeqProperties DEF Paths
<1>4. ASSUME NEW i \in 1..k PROVE SubSeq(p, 1, k)[i] = p[i]
  <2>1. i \in 1..(k - 1 + 1) /\ 1 + i - 1 = i
    BY <1>2
  <2> QED BY <1>3, <2>1
<1>5. (IF 1 <= k THEN k - 1 + 1 ELSE 0) = k
  BY <1>1
<1> QED BY <1>3, <1>4, <1>5

LEMMA SamePath ==
  ASSUME NEW p \in Paths, NEW q \in Paths, Len(p) = Len(q),
         \A k \in 1..Len(p) : p[k] = q[k]
  PROVE  p = q
BY SeqEqual DEF Paths

LEMMA PrefixIs ==
  ASSUME NEW p \in Paths, NEW q \in Paths
  PROVE  IsPrefix(p, q) <=> Len(p) <= Len(q) /\ \A k \in 1..Len(p) : p[k] = q[k]
<1>1. Len(p) \in Nat /\ Len(q) \in Nat
  BY PathFacts
<1>2. CASE Len(p) <= Len(q)
  <2>1. /\ SubSeq(p, 1, Len(p)) \in Paths /\ SubSeq(q, 1, Len(p)) \in Paths
        /\ Len(SubSeq(p, 1, Len(p))) = Len(p) /\ Len(SubSeq(q, 1, Len(p))) = Len(p)
        /\ \A k \in 1..Len(p) : SubSeq(p, 1, Len(p))[k] = p[k]
        /\ \A k \in 1..Len(p) : SubSeq(q, 1, Len(p))[k] = q[k]
    BY <1>1, <1>2, Initial
  <2>2. ASSUME \A k \in 1..Len(p) : p[k] = q[k]
        PROVE  SubSeq(p, 1, Len(p)) = SubSeq(q, 1, Len(p))
    BY <2>1, <2>2, SamePath
  <2> QED BY <1>2, <2>1, <2>2 DEF IsPrefix
<1>3. CASE ~(Len(p) <= Len(q))
  BY <1>3 DEF IsPrefix
<1> QED BY <1>2, <1>3

LEMMA FrontIs ==
  ASSUME NEW p \in Paths
  PROVE  /\ Front(p) \in Paths
         /\ p # Gone => /\ Len(Front(p)) = Len(p) - 1
                        /\ \A k \in 1..(Len(p) - 1) : Front(p)[k] = p[k]
                        /\ Len(p) \in 1..Len(p) /\ Last(p) = p[Len(p)] /\ Last(p) \in Names
<1>1. Len(p) \in Nat /\ (Len(p) = 0 <=> p = Gone)
  BY PathFacts
<1>2. CASE p = Gone
  <2>1. Front(p) = <<>>
    BY <1>1, <1>2, SubSeqEmpty, PathFacts DEF Front, Gone
  <2> QED BY <1>2, <2>1 DEF Gone
<1>3. CASE p # Gone
  <2>1. Len(p) - 1 \in 0..Len(p) /\ Len(p) \in 1..Len(p)
    BY <1>1, <1>3
  <2> QED BY <1>3, <2>1, Initial, PathFacts DEF Front, Last
<1> QED BY <1>2, <1>3

LEMMA AppendIs ==
  ASSUME NEW p \in Paths, NEW n \in Names
  PROVE  /\ Append(p, n) \in Paths /\ Append(p, n) # Gone
         /\ Len(Append(p, n)) = Len(p) + 1
         /\ \A k \in 1..Len(p) : Append(p, n)[k] = p[k]
         /\ Append(p, n)[Len(p) + 1] = n
         /\ Front(Append(p, n)) = p /\ Last(Append(p, n)) = n
<1>1. /\ Append(p, n) \in Paths
      /\ Len(Append(p, n)) = Len(p) + 1
      /\ \A k \in 1..Len(p) : Append(p, n)[k] = p[k]
      /\ Append(p, n)[Len(p) + 1] = n
  BY AppendProperties DEF Paths
<1>2. Len(p) \in Nat
  BY PathFacts
<1>3. Append(p, n) # Gone
  <2>1. Len(Append(p, n)) # 0
    BY <1>1, <1>2
  <2> QED BY <1>1, <2>1, PathFacts
<1>4. Front(Append(p, n)) = p
  <2> DEFINE a == Append(p, n)
  <2>1. /\ Front(a) \in Paths /\ Len(Front(a)) = Len(a) - 1
        /\ \A k \in 1..(Len(a) - 1) : Front(a)[k] = a[k]
    BY <1>1, <1>3, FrontIs, Zenon
  <2>2. Len(a) - 1 = Len(p)
    BY <1>1, <1>2
  <2> QED BY <1>1, <2>1, <2>2, SamePath
<1> QED BY <1>1, <1>2, <1>3, <1>4 DEF Last

LEMMA PrefixSubSeq ==
  ASSUME NEW p \in Paths, NEW q \in Paths
  PROVE  IsPrefix(p, q) <=> Len(p) \in 0..Len(q) /\ p = SubSeq(q, 1, Len(p))
<1>1. Len(p) \in Nat /\ Len(q) \in Nat
  BY PathFacts
<1>2. ASSUME IsPrefix(p, q)
      PROVE  Len(p) \in 0..Len(q) /\ p = SubSeq(q, 1, Len(p))
  <2>1. Len(p) \in 0..Len(q) /\ \A k \in 1..Len(p) : p[k] = q[k]
    BY <1>1, <1>2, PrefixIs
  <2>2. /\ SubSeq(q, 1, Len(p)) \in Paths /\ Len(SubSeq(q, 1, Len(p))) = Len(p)
        /\ \A k \in 1..Len(p) : SubSeq(q, 1, Len(p))[k] = q[k]
    BY <2>1, Initial
  <2>3. p = SubSeq(q, 1, Len(p))
    BY <2>1, <2>2, SamePath
  <2> QED BY <2>1, <2>3
<1>3. ASSUME Len(p) \in 0..Len(q), p = SubSeq(q, 1, Len(p))
      PROVE  IsPrefix(p, q)
  <2>1. \A k \in 1..Len(p) : SubSeq(q, 1, Len(p))[k] = q[k]
    BY <1>3, Initial
  <2>2. \A k \in 1..Len(p) : p[k] = q[k]
    BY <1>3, <2>1, Zenon
  <2> QED BY <1>1, <1>3, <2>2, PrefixIs
<1> QED BY <1>2, <1>3

-----------------------------------------------------------------------------
(* What one rename does to a path.                                         *)

\* Every rename of a run stays in one folder: it gives a path another name.
Siblings(p, q) == p # Gone /\ q # Gone /\ Parent(p) = Parent(q)

LEMMA SiblingsAre ==
  ASSUME NEW p \in Paths, NEW q \in Paths
  PROVE  Siblings(p, q) <=> /\ Len(p) = Len(q) /\ Len(p) > 0
                            /\ \A k \in 1..(Len(p) - 1) : p[k] = q[k]
<1>1. /\ Len(p) \in Nat /\ (Len(p) = 0 <=> p = Gone) /\ Front(p) \in Paths
      /\ Len(q) \in Nat /\ (Len(q) = 0 <=> q = Gone) /\ Front(q) \in Paths
      /\ Len(Front(p)) \in Nat /\ Len(Front(q)) \in Nat
  BY PathFacts, FrontIs
<1>2. CASE p = Gone \/ q = Gone
  BY <1>1, <1>2 DEF Siblings
<1>3. CASE p # Gone /\ q # Gone
  <2>1. /\ Len(Front(p)) = Len(p) - 1 /\ \A k \in 1..(Len(p) - 1) : Front(p)[k] = p[k]
        /\ Len(Front(q)) = Len(q) - 1 /\ \A k \in 1..(Len(q) - 1) : Front(q)[k] = q[k]
    BY <1>3, FrontIs
  <2>2. ASSUME Front(p) = Front(q)
        PROVE  Len(p) = Len(q) /\ \A k \in 1..(Len(p) - 1) : p[k] = q[k]
    <3>1. Len(p) = Len(q)
      BY <1>1, <2>1, <2>2
    <3> QED BY <2>1, <2>2, <3>1
  <2>3. ASSUME Len(p) = Len(q), \A k \in 1..(Len(p) - 1) : p[k] = q[k]
        PROVE  Front(p) = Front(q)
    <3>1. \A k \in 1..Len(Front(p)) : Front(p)[k] = Front(q)[k]
      BY <2>1, <2>3
    <3> QED BY <1>1, <2>1, <2>3, <3>1, SamePath
  <2> QED BY <1>1, <1>3, <2>2, <2>3 DEF Siblings, Parent
<1> QED BY <1>2, <1>3

\* A rename changes one name of a path under it, and nothing of any other.
LEMMA RehomeIs ==
  ASSUME NEW p \in Paths, NEW src \in Paths, NEW dst \in Paths, Siblings(src, dst)
  PROVE  /\ Rehome(p, src, dst) \in Paths
         /\ Len(Rehome(p, src, dst)) = Len(p)
         /\ \A k \in 1..Len(p) : Rehome(p, src, dst)[k] =
              IF IsPrefix(src, p) /\ k = Len(src) THEN dst[k] ELSE p[k]
<1>1. Len(p) \in Nat /\ Len(src) \in Nat /\ Len(dst) = Len(src)
      /\ \A k \in 1..Len(p) : p[k] \in Names
  BY PathFacts, SiblingsAre
<1>2. CASE ~IsPrefix(src, p)
  BY <1>1, <1>2 DEF Rehome
<1>3. CASE IsPrefix(src, p)
  <2> DEFINE rest == SubSeq(p, Len(src) + 1, Len(p))
  <2>1. Len(src) <= Len(p) /\ \A k \in 1..Len(src) : src[k] = p[k]
    BY <1>3, PrefixIs
  <2>2. /\ rest \in Paths
        /\ Len(rest) = IF Len(src) + 1 <= Len(p) THEN Len(p) - (Len(src) + 1) + 1 ELSE 0
        /\ \A i \in 1..(Len(p) - (Len(src) + 1) + 1) : rest[i] = p[Len(src) + 1 + i - 1]
    <3>1. Len(src) + 1 \in Int /\ Len(p) \in Int /\ \A i \in (Len(src) + 1)..Len(p) : p[i] \in Names
      BY <1>1
    <3> QED BY <3>1, SubSeqProperties DEF Paths
  <2>3. Len(rest) = Len(p) - Len(src)
    BY <1>1, <2>1, <2>2
  <2>4. ASSUME NEW i \in 1..(Len(p) - Len(src)) PROVE rest[i] = p[Len(src) + i]
    <3>1. i \in 1..(Len(p) - (Len(src) + 1) + 1) /\ Len(src) + 1 + i - 1 = Len(src) + i
      BY <1>1, <2>1
    <3> QED BY <2>2, <3>1
  <2> HIDE DEF rest
  <2>5. /\ dst \o rest \in Paths
        /\ Len(dst \o rest) = Len(dst) + Len(rest)
        /\ \A k \in 1..(Len(dst) + Len(rest)) :
             (dst \o rest)[k] = IF k <= Len(dst) THEN dst[k] ELSE rest[k - Len(dst)]
    BY <2>2, ConcatProperties DEF Paths
  <2>6. Rehome(p, src, dst) = dst \o rest
    BY <1>3 DEF Rehome, rest
  <2>7. Len(dst) + Len(rest) = Len(p)
    BY <1>1, <2>3
  <2>8. ASSUME NEW k \in 1..Len(p)
        PROVE  (dst \o rest)[k] = IF k = Len(src) THEN dst[k] ELSE p[k]
    <3>1. CASE k < Len(src)
      <4>1. dst[k] = src[k]
        <5>1. k \in 1..(Len(src) - 1)
          BY <1>1, <3>1
        <5> QED BY <5>1, SiblingsAre
      <4> QED BY <1>1, <2>1, <2>5, <2>7, <3>1, <4>1
    <3>2. CASE k = Len(src)
      BY <1>1, <2>5, <2>7, <3>2
    <3>3. CASE k > Len(src)
      <4>1. k - Len(src) \in 1..(Len(p) - Len(src)) /\ Len(src) + (k - Len(src)) = k
        BY <1>1, <3>3
      <4>2. rest[k - Len(src)] = p[k]
        BY <2>4, <4>1
      <4> QED BY <1>1, <2>5, <2>7, <3>3, <4>2
    <3>4. k < Len(src) \/ k = Len(src) \/ k > Len(src)
      BY <1>1
    <3> QED BY <3>1, <3>2, <3>3, <3>4, Zenon
  <2>9. /\ Rehome(p, src, dst) \in Paths /\ Len(Rehome(p, src, dst)) = Len(p)
        /\ \A k \in 1..Len(p) :
             Rehome(p, src, dst)[k] = IF k = Len(src) THEN dst[k] ELSE p[k]
    BY <2>5, <2>6, <2>7, <2>8, Zenon
  <2> QED BY <1>3, <2>9, Zenon
<1> QED BY <1>2, <1>3

LEMMA SiblingsSwap ==
  ASSUME NEW p, NEW q, Siblings(p, q)
  PROVE  Siblings(q, p)
BY DEF Siblings

LEMMA RehomeUnder ==
  ASSUME NEW p \in Paths, NEW src \in Paths, NEW dst \in Paths, Siblings(src, dst),
         IsPrefix(src, p)
  PROVE  IsPrefix(dst, Rehome(p, src, dst))
<1>1. /\ Rehome(p, src, dst) \in Paths /\ Len(Rehome(p, src, dst)) = Len(p)
      /\ \A k \in 1..Len(p) :
           Rehome(p, src, dst)[k] = IF k = Len(src) THEN dst[k] ELSE p[k]
  BY RehomeIs
<1>2. /\ Len(src) \in Nat /\ Len(p) \in Nat /\ Len(dst) = Len(src)
      /\ \A k \in 1..(Len(src) - 1) : src[k] = dst[k]
      /\ Len(src) <= Len(p) /\ \A k \in 1..Len(src) : src[k] = p[k]
  BY PathFacts, SiblingsAre, PrefixIs
<1>3. ASSUME NEW k \in 1..Len(dst) PROVE dst[k] = Rehome(p, src, dst)[k]
  <2>1. k \in 1..Len(p) /\ (k = Len(src) \/ k \in 1..(Len(src) - 1))
    BY <1>2
  <2> QED BY <1>1, <1>2, <2>1
<1> QED BY <1>1, <1>2, <1>3, PrefixIs

LEMMA RehomeSubSeq ==
  ASSUME NEW p \in Paths, NEW src \in Paths, NEW dst \in Paths, Siblings(src, dst),
         NEW k \in 0..Len(p)
  PROVE  Rehome(SubSeq(p, 1, k), src, dst) = SubSeq(Rehome(p, src, dst), 1, k)
<1> DEFINE a == SubSeq(p, 1, k)
           q == Rehome(p, src, dst)
<1>1. /\ Len(p) \in Nat /\ Len(src) \in Nat /\ Len(src) > 0
  BY PathFacts, SiblingsAre
<1>2. a \in Paths /\ Len(a) = k /\ \A i \in 1..k : a[i] = p[i]
  BY Initial
<1>3. /\ q \in Paths /\ Len(q) = Len(p)
      /\ \A i \in 1..Len(p) : q[i] = IF IsPrefix(src, p) /\ i = Len(src) THEN dst[i] ELSE p[i]
  BY RehomeIs
<1> HIDE DEF a, q
<1>4. SubSeq(q, 1, k) \in Paths /\ Len(SubSeq(q, 1, k)) = k
      /\ \A i \in 1..k : SubSeq(q, 1, k)[i] = q[i]
  BY <1>3, Initial
<1>5. /\ Rehome(a, src, dst) \in Paths /\ Len(Rehome(a, src, dst)) = k
      /\ \A i \in 1..k : Rehome(a, src, dst)[i] =
            IF IsPrefix(src, a) /\ i = Len(src) THEN dst[i] ELSE a[i]
  BY <1>2, RehomeIs
<1>6. Len(src) <= k => (IsPrefix(src, a) <=> IsPrefix(src, p))
  BY <1>1, <1>2, PrefixIs
<1>7. ASSUME NEW i \in 1..k PROVE Rehome(a, src, dst)[i] = SubSeq(q, 1, k)[i]
  <2>1. i \in 1..Len(p) /\ i \in Nat /\ (i = Len(src) => Len(src) <= k)
    BY <1>1
  <2>2. SubSeq(q, 1, k)[i] = IF IsPrefix(src, p) /\ i = Len(src) THEN dst[i] ELSE p[i]
    BY <1>3, <1>4, <2>1
  <2>3. Rehome(a, src, dst)[i] = IF IsPrefix(src, a) /\ i = Len(src) THEN dst[i] ELSE p[i]
    BY <1>2, <1>5
  <2> QED BY <1>6, <2>1, <2>2, <2>3
<1> QED BY <1>4, <1>5, <1>7, SamePath DEF a, q

LEMMA RehomeSame ==
  ASSUME NEW p \in Paths, NEW src \in Paths, src # Gone
  PROVE  Rehome(p, src, src) = p
<1>1. Siblings(src, src)
  BY DEF Siblings
<1>2. /\ Rehome(p, src, src) \in Paths /\ Len(Rehome(p, src, src)) = Len(p)
      /\ \A k \in 1..Len(p) : Rehome(p, src, src)[k] =
           IF IsPrefix(src, p) /\ k = Len(src) THEN src[k] ELSE p[k]
  BY <1>1, RehomeIs
<1>3. ASSUME NEW k \in 1..Len(p) PROVE Rehome(p, src, src)[k] = p[k]
  <2>1. IsPrefix(src, p) /\ k = Len(src) => src[k] = p[k]
    <3>1. k \in 1..k
      BY PathFacts
    <3> QED BY <3>1, PrefixIs
  <2> QED BY <1>2, <2>1
<1> QED BY <1>2, <1>3, SamePath

LEMMA RehomeGone ==
  ASSUME NEW src \in Paths, NEW dst \in Paths, Siblings(src, dst)
  PROVE  Rehome(Gone, src, dst) = Gone
<1>1. Gone \in Paths /\ Len(Gone) = 0 /\ src # Gone
  BY EmptySeq, PathFacts DEF Gone, Paths, Siblings
<1> QED BY <1>1, RehomeIs, PathFacts

\* Undoing a rename leads back, unless something had the new name before.
LEMMA RehomeInverse ==
  ASSUME NEW p \in Paths, NEW src \in Paths, NEW dst \in Paths, Siblings(src, dst),
         src = dst \/ ~IsPrefix(dst, p)
  PROVE  Rehome(Rehome(p, src, dst), dst, src) = p
<1>1. CASE src = dst
  BY <1>1, RehomeSame DEF Siblings
<1>2. CASE ~IsPrefix(src, p) /\ ~IsPrefix(dst, p)
  BY <1>2, Zenon DEF Rehome
<1>3. CASE IsPrefix(src, p)
  <2> DEFINE q == Rehome(p, src, dst)
  <2>1. /\ q \in Paths /\ Len(q) = Len(p)
        /\ \A k \in 1..Len(p) : q[k] = IF k = Len(src) THEN dst[k] ELSE p[k]
    BY <1>3, RehomeIs
  <2>2. IsPrefix(dst, q)
    BY <1>3, RehomeUnder
  <2> HIDE DEF q
  <2>3. /\ Rehome(q, dst, src) \in Paths /\ Len(Rehome(q, dst, src)) = Len(p)
        /\ \A k \in 1..Len(p) : Rehome(q, dst, src)[k] = IF k = Len(dst) THEN src[k] ELSE q[k]
    BY <2>1, <2>2, SiblingsSwap, RehomeIs
  <2>4. Len(dst) = Len(src) /\ \A k \in 1..Len(src) : src[k] = p[k]
    BY <1>3, SiblingsAre, PrefixIs
  <2>5. ASSUME NEW k \in 1..Len(p) PROVE Rehome(q, dst, src)[k] = p[k]
    <3>1. k = Len(src) => src[k] = p[k]
      <4>1. k \in 1..k
        BY PathFacts
      <4> QED BY <2>4, <4>1
    <3> QED BY <2>1, <2>3, <2>4, <3>1
  <2> QED BY <2>3, <2>5, SamePath DEF q
<1> QED BY <1>1, <1>2, <1>3

\* By way of a temporary name or not: the same.
LEMMA RehomeTwice ==
  ASSUME NEW p \in Paths, NEW src \in Paths, NEW mid \in Paths, NEW dst \in Paths,
         Siblings(src, mid), Siblings(mid, dst), src = mid \/ ~IsPrefix(mid, p)
  PROVE  Siblings(src, dst) /\ Rehome(Rehome(p, src, mid), mid, dst) = Rehome(p, src, dst)
<1>0. Siblings(src, dst)
  BY DEF Siblings
<1>1. CASE src = mid
  BY <1>0, <1>1, RehomeSame DEF Siblings
<1>2. CASE ~IsPrefix(src, p) /\ ~IsPrefix(mid, p)
  BY <1>0, <1>2, Zenon DEF Rehome
<1>3. CASE IsPrefix(src, p)
  <2> DEFINE q == Rehome(p, src, mid)
  <2>1. /\ q \in Paths /\ Len(q) = Len(p)
        /\ \A k \in 1..Len(p) : q[k] = IF k = Len(src) THEN mid[k] ELSE p[k]
    BY <1>3, RehomeIs
  <2>2. IsPrefix(mid, q)
    BY <1>3, RehomeUnder
  <2> HIDE DEF q
  <2>3. /\ Rehome(q, mid, dst) \in Paths /\ Len(Rehome(q, mid, dst)) = Len(p)
        /\ \A k \in 1..Len(p) : Rehome(q, mid, dst)[k] = IF k = Len(mid) THEN dst[k] ELSE q[k]
    BY <2>1, <2>2, RehomeIs
  <2>4. /\ Rehome(p, src, dst) \in Paths /\ Len(Rehome(p, src, dst)) = Len(p)
        /\ \A k \in 1..Len(p) : Rehome(p, src, dst)[k] = IF k = Len(src) THEN dst[k] ELSE p[k]
    <3>1. \A k \in 1..Len(p) : Rehome(p, src, dst)[k] =
             IF IsPrefix(src, p) /\ k = Len(src) THEN dst[k] ELSE p[k]
      BY <1>0, RehomeIs
    <3> QED BY <1>0, <1>3, <3>1, RehomeIs
  <2>5. Len(mid) = Len(src)
    BY SiblingsAre
  <2>6. ASSUME NEW k \in 1..Len(p) PROVE Rehome(q, mid, dst)[k] = Rehome(p, src, dst)[k]
    BY <2>1, <2>3, <2>4, <2>5
  <2> QED BY <1>0, <2>3, <2>4, <2>6, SamePath DEF q
<1> QED BY <1>1, <1>2, <1>3

-----------------------------------------------------------------------------
(* What one rename does to a tree.                                         *)

\* What no other program has taken.
Present == Nodes \ taken

\* One node a path, all in the opened folder, and every folder on the way to
\* a node is a folder of the release.
Tree(p, S) ==
  /\ \A n \in S : p[n] # Gone /\ IsPrefix(p[Root], p[n])
  /\ \A m, n \in S : p[m] = p[n] => m = n
  /\ \A n \in S : \A k \in Len(p[Root])..(Len(p[n]) - 1) :
       \E d \in Dirs : p[d] = SubSeq(p[n], 1, k)

Rehomed(p, src, dst) == [n \in Nodes |-> Rehome(p[n], src, dst)]

\* In a tree, what is above a node is a folder.
LEMMA InTree ==
  ASSUME NEW S \in SUBSET Nodes, Dirs \subseteq S, NEW p \in [Nodes -> Paths], Tree(p, S),
         NEW n \in S, NEW q \in Paths, Len(p[Root]) <= Len(q), IsPrefix(q, p[n])
  PROVE  q = p[n] \/ \E d \in Dirs : p[d] = q
<1>1. Root \in Nodes /\ p[n] \in Paths /\ p[Root] \in Paths
  BY ReleaseAssumption DEF Nodes
<1>2. Len(p[n]) \in Nat /\ Len(p[Root]) \in Nat /\ Len(q) \in Nat
  BY <1>1, PathFacts
<1>3. Len(q) \in 0..Len(p[n]) /\ q = SubSeq(p[n], 1, Len(q)) /\ \A k \in 1..Len(q) : q[k] = p[n][k]
  BY <1>1, PrefixSubSeq, PrefixIs
<1>4. CASE Len(q) = Len(p[n])
  BY <1>1, <1>3, <1>4, SamePath
<1>5. CASE Len(q) # Len(p[n])
  <2>1. Len(q) \in Len(p[Root])..(Len(p[n]) - 1)
    BY <1>2, <1>3, <1>5
  <2> QED BY <2>1, <1>3 DEF Tree
<1> QED BY <1>4, <1>5

LEMMA PrefixKept ==
  ASSUME NEW p \in Paths, NEW q \in Paths, NEW src \in Paths, NEW dst \in Paths,
         Siblings(src, dst), IsPrefix(p, q)
  PROVE  IsPrefix(Rehome(p, src, dst), Rehome(q, src, dst))
<1>1. Len(p) \in 0..Len(q) /\ p = SubSeq(q, 1, Len(p))
  BY PrefixSubSeq
<1>2. Rehome(p, src, dst) = SubSeq(Rehome(q, src, dst), 1, Len(p))
  <2>1. Rehome(SubSeq(q, 1, Len(p)), src, dst) = SubSeq(Rehome(q, src, dst), 1, Len(p))
    BY <1>1, RehomeSubSeq
  <2> QED BY <1>1, <2>1, Zenon
<1>3. /\ Rehome(p, src, dst) \in Paths /\ Len(Rehome(p, src, dst)) = Len(p)
      /\ Rehome(q, src, dst) \in Paths /\ Len(Rehome(q, src, dst)) = Len(q)
  BY RehomeIs
<1> DEFINE a == Rehome(p, src, dst)
           b == Rehome(q, src, dst)
<1>4. a \in Paths /\ b \in Paths /\ Len(a) \in 0..Len(b) /\ a = SubSeq(b, 1, Len(a))
  BY <1>1, <1>2, <1>3
<1> HIDE DEF a, b
<1>5. IsPrefix(a, b)
  BY <1>4, PrefixSubSeq
<1> QED BY <1>5 DEF a, b

\* A tree stays a tree when nothing is under the new name.
LEMMA TreeKept ==
  ASSUME NEW S \in SUBSET Nodes, Dirs \subseteq S, NEW p \in [Nodes -> Paths], Tree(p, S),
         NEW src \in Paths, NEW dst \in Paths, Siblings(src, dst),
         src = dst \/ \A n \in S : ~IsPrefix(dst, p[n])
  PROVE  Rehomed(p, src, dst) \in [Nodes -> Paths] /\ Tree(Rehomed(p, src, dst), S)
<1> DEFINE q == Rehomed(p, src, dst)
<1>1. \A n \in Nodes : /\ p[n] \in Paths /\ q[n] = Rehome(p[n], src, dst)
                       /\ q[n] \in Paths /\ Len(q[n]) = Len(p[n])
  BY RehomeIs DEF Rehomed
<1>2. Root \in Nodes /\ Root \in S
  BY ReleaseAssumption DEF Nodes
<1>3. q \in [Nodes -> Paths]
  BY <1>1 DEF Rehomed
<1> HIDE DEF q
<1>4. ASSUME NEW n \in S PROVE q[n] # Gone /\ IsPrefix(q[Root], q[n])
  <2>1. p[n] # Gone /\ IsPrefix(p[Root], p[n])
    BY DEF Tree
  <2> QED BY <1>1, <1>2, <2>1, PathFacts, PrefixKept
<1>5. ASSUME NEW m \in S, NEW n \in S, q[m] = q[n] PROVE m = n
  <2>1. p[m] = Rehome(q[m], dst, src) /\ p[n] = Rehome(q[n], dst, src)
    BY <1>1, RehomeInverse
  <2> QED BY <1>5, <2>1 DEF Tree
<1>6. ASSUME NEW n \in S, NEW k \in Len(q[Root])..(Len(q[n]) - 1)
      PROVE  \E d \in Dirs : q[d] = SubSeq(q[n], 1, k)
  <2>1. k \in Len(p[Root])..(Len(p[n]) - 1) /\ k \in 0..Len(p[n])
    BY <1>1, <1>2, PathFacts
  <2>2. PICK d \in Dirs : p[d] = SubSeq(p[n], 1, k)
    BY <2>1 DEF Tree
  <2>3. Rehome(SubSeq(p[n], 1, k), src, dst) = SubSeq(Rehome(p[n], src, dst), 1, k)
    BY <1>1, <2>1, RehomeSubSeq
  <2>4. d \in Nodes
    BY DEF Nodes
  <2> QED BY <1>1, <2>2, <2>3, <2>4
<1> QED BY <1>3, <1>4, <1>5, <1>6 DEF Tree, q

\* _reject_existing_target is enough for that: a rename it admits replaces
\* nothing, and only moves.
LEMMA MovedIs ==
  ASSUME at \in [Nodes -> Paths], taken \subseteq Files, Tree(at, Present),
         \A n \in taken : at[n] = Gone,
         NEW src \in Paths, NEW dst \in Paths, Siblings(src, dst), Free(src, dst)
  PROVE  /\ Moved(src, dst) = Rehomed(at, src, dst)
         /\ Moved(src, dst) \in [Nodes -> Paths]
         /\ Tree(Moved(src, dst), Present)
         /\ \A n \in taken : Moved(src, dst)[n] = Gone
         /\ src = dst \/ \A n \in Nodes : ~IsPrefix(dst, at[n])
<1>1. Present \in SUBSET Nodes /\ Dirs \subseteq Present /\ taken \subseteq Nodes /\ Root \in Nodes
  BY ReleaseAssumption DEF Present, Nodes
<1>2. /\ Len(src) \in Nat /\ Len(dst) \in Nat /\ Len(src) = Len(dst) /\ Len(dst) > 0
      /\ src # Gone /\ dst # Gone
  BY SiblingsAre, PathFacts DEF Siblings
<1>3. ASSUME src # dst, NEW n \in Nodes PROVE ~IsPrefix(dst, at[n])
  <2>1. CASE n \in taken
    <3>1. Gone \in Paths /\ Len(Gone) = 0
      BY <2>1, PathFacts
    <3> QED BY <1>2, <2>1, <3>1, PrefixIs
  <2>2. CASE n \in Present
    <3>1. PICK m \in Nodes : at[m] = src
      BY DEF Free, Exists
    <3>2. m \in Present
      BY <1>2, <3>1 DEF Present
    <3>3. Len(at[Root]) <= Len(dst)
      <4>1. IsPrefix(at[Root], src)
        BY <3>1, <3>2 DEF Tree
      <4> QED BY <1>1, <1>2, <4>1, PrefixIs
    <3>4. ~Exists(dst)
      BY <1>3 DEF Free
    <3>5. IsPrefix(dst, at[n]) => dst = at[n] \/ \E d \in Dirs : at[d] = dst
      BY <1>1, <2>2, <3>3, InTree
    <3> QED BY <3>4, <3>5 DEF Exists, Nodes
  <2> QED BY <2>1, <2>2 DEF Present
<1>4. src = dst \/ \A n \in Nodes : ~IsPrefix(dst, at[n])
  BY <1>3
<1>5. Moved(src, dst) = Rehomed(at, src, dst)
  <2>1. CASE src = dst
    <3>1. \A n \in Nodes : Rehome(at[n], src, dst) = at[n]
      BY <1>2, <2>1, RehomeSame
    <3> QED BY <2>1, <3>1 DEF Moved, Rehomed
  <2>2. CASE src # dst
    <3>1. \A n \in Nodes : at[n] # dst
      BY <2>2 DEF Free, Exists
    <3> QED BY <2>2, <3>1 DEF Moved, Rehomed
  <2> QED BY <2>1, <2>2
<1>6. Rehomed(at, src, dst) \in [Nodes -> Paths] /\ Tree(Rehomed(at, src, dst), Present)
  <2>1. src = dst \/ \A n \in Present : ~IsPrefix(dst, at[n])
    BY <1>1, <1>4
  <2> QED BY <1>1, <2>1, TreeKept
<1>7. ASSUME NEW n \in taken PROVE Rehomed(at, src, dst)[n] = Gone
  BY <1>1, RehomeGone DEF Rehomed
<1> QED BY <1>4, <1>5, <1>6, <1>7

-----------------------------------------------------------------------------
(* Where the new names of folders put a path.                              *)

LEMMA IsPath ==
  ASSUME NEW n \in Nat, NEW p \in [1..n -> Names]
  PROVE  p \in Paths /\ Len(p) = n
<1>1. p \in Paths
  BY SeqDef DEF Paths
<1>2. Len(p) \in Nat /\ DOMAIN p = 1..Len(p)
  BY <1>1, PathFacts
<1>3. 1..Len(p) = 1..n
  BY <1>2
<1>4. \A i, j \in Nat : 1..i = 1..j => i = j
  <2>1. ASSUME NEW i \in Nat, NEW j \in Nat, 1..i = 1..j, i < j PROVE FALSE
    <3>1. j \in 1..j /\ j \notin 1..i
      BY <2>1
    <3> QED BY <2>1, <3>1
  <2>2. ASSUME NEW i \in Nat, NEW j \in Nat, 1..i = 1..j, j < i PROVE FALSE
    <3>1. i \in 1..i /\ i \notin 1..j
      BY <2>2
    <3> QED BY <2>2, <3>1
  <2> QED BY <2>1, <2>2
<1> QED BY <1>1, <1>2, <1>3, <1>4

LEMMA LocatedIs ==
  ASSUME NEW p \in Paths, NEW names, \A d \in DOMAIN names : names[d] \in Names
  PROVE  /\ Located(p, names) \in Paths
         /\ Len(Located(p, names)) = Len(p)
         /\ \A k \in 1..Len(p) : Located(p, names)[k] =
              IF SubSeq(p, 1, k) \in DOMAIN names THEN names[SubSeq(p, 1, k)] ELSE p[k]
<1>1. Len(p) \in Nat /\ \A k \in 1..Len(p) : p[k] \in Names
  BY PathFacts
<1>2. Located(p, names) \in [1..Len(p) -> Names]
  BY <1>1 DEF Located
<1>3. \A k \in 1..Len(p) : Located(p, names)[k] =
              IF SubSeq(p, 1, k) \in DOMAIN names THEN names[SubSeq(p, 1, k)] ELSE p[k]
  BY DEF Located
<1> QED BY <1>1, <1>2, <1>3, IsPath

LEMMA InitialOfInitial ==
  ASSUME NEW p \in Paths, NEW k \in 0..Len(p), NEW i \in 0..k
  PROVE  SubSeq(SubSeq(p, 1, k), 1, i) = SubSeq(p, 1, i)
<1>1. Len(p) \in Nat /\ i \in 0..Len(p) /\ \A j \in 1..i : j \in 1..k
  BY PathFacts
<1> DEFINE a == SubSeq(p, 1, k)
<1>2. a \in Paths /\ Len(a) = k /\ \A j \in 1..k : a[j] = p[j]
  BY Initial
<1> HIDE DEF a
<1>3. SubSeq(a, 1, i) \in Paths /\ Len(SubSeq(a, 1, i)) = i
      /\ \A j \in 1..i : SubSeq(a, 1, i)[j] = a[j]
  BY <1>2, Initial
<1>4. SubSeq(p, 1, i) \in Paths /\ Len(SubSeq(p, 1, i)) = i
      /\ \A j \in 1..i : SubSeq(p, 1, i)[j] = p[j]
  BY <1>1, Initial
<1>5. \A j \in 1..i : SubSeq(a, 1, i)[j] = SubSeq(p, 1, i)[j]
  BY <1>1, <1>2, <1>3, <1>4
<1> QED BY <1>3, <1>4, <1>5, SamePath DEF a

LEMMA LocatedSubSeq ==
  ASSUME NEW p \in Paths, NEW names, \A d \in DOMAIN names : names[d] \in Names,
         NEW k \in 0..Len(p)
  PROVE  Located(SubSeq(p, 1, k), names) = SubSeq(Located(p, names), 1, k)
<1> DEFINE a == SubSeq(p, 1, k)
           q == Located(p, names)
<1>1. a \in Paths /\ Len(a) = k /\ \A i \in 1..k : a[i] = p[i]
  BY Initial
<1>2. /\ q \in Paths /\ Len(q) = Len(p)
      /\ \A i \in 1..Len(p) : q[i] =
           IF SubSeq(p, 1, i) \in DOMAIN names THEN names[SubSeq(p, 1, i)] ELSE p[i]
  BY LocatedIs
<1>3. \A i \in 1..k : SubSeq(a, 1, i) = SubSeq(p, 1, i)
  BY InitialOfInitial
<1> HIDE DEF a, q
<1>4. SubSeq(q, 1, k) \in Paths /\ Len(SubSeq(q, 1, k)) = k
      /\ \A i \in 1..k : SubSeq(q, 1, k)[i] = q[i]
  BY <1>2, Initial
<1>5. /\ Located(a, names) \in Paths /\ Len(Located(a, names)) = k
      /\ \A i \in 1..k : Located(a, names)[i] =
           IF SubSeq(a, 1, i) \in DOMAIN names THEN names[SubSeq(a, 1, i)] ELSE a[i]
  BY <1>1, LocatedIs
<1>6. ASSUME NEW i \in 1..k PROVE Located(a, names)[i] = SubSeq(q, 1, k)[i]
  <2>1. i \in 1..Len(p)
    BY PathFacts
  <2> QED BY <1>1, <1>2, <1>3, <1>4, <1>5, <2>1
<1> QED BY <1>4, <1>5, <1>6, SamePath DEF a, q

\* Folders whose name does not change can be left out of the plan.
LEMMA EffectiveSame ==
  ASSUME NEW p \in Paths, NEW names, DOMAIN names \subseteq Paths,
         \A d \in DOMAIN names : names[d] \in Names
  PROVE  /\ Located(p, Effective(names)) = Located(p, names)
         /\ DOMAIN Effective(names) \subseteq DOMAIN names
         /\ \A d \in DOMAIN Effective(names) :
              Effective(names)[d] = names[d] /\ Located(d, names) # d
<1> DEFINE e == Effective(names)
<1>1. /\ DOMAIN e = {d \in DOMAIN names : Located(d, names) # d}
      /\ \A d \in DOMAIN e : e[d] = names[d]
  BY DEF Effective, Restrict
<1> HIDE DEF e
<1>2. \A d \in DOMAIN e : e[d] \in Names
  BY <1>1
<1>3. /\ Located(p, names) \in Paths /\ Len(Located(p, names)) = Len(p)
      /\ \A k \in 1..Len(p) : Located(p, names)[k] =
           IF SubSeq(p, 1, k) \in DOMAIN names THEN names[SubSeq(p, 1, k)] ELSE p[k]
  BY LocatedIs
<1>4. /\ Located(p, e) \in Paths /\ Len(Located(p, e)) = Len(p)
      /\ \A k \in 1..Len(p) : Located(p, e)[k] =
           IF SubSeq(p, 1, k) \in DOMAIN e THEN e[SubSeq(p, 1, k)] ELSE p[k]
  BY <1>2, LocatedIs
<1>5. ASSUME NEW k \in 1..Len(p) PROVE Located(p, e)[k] = Located(p, names)[k]
  <2> DEFINE d == SubSeq(p, 1, k)
  <2>1. k \in 0..Len(p) /\ k \in 1..k /\ k \in 0..k
    BY PathFacts
  <2>2. d \in Paths /\ Len(d) = k /\ d[k] = p[k] /\ SubSeq(d, 1, k) = d
    BY <2>1, Initial, InitialOfInitial
  <2>3. CASE d \in DOMAIN e \/ d \notin DOMAIN names
    BY <1>1, <1>3, <1>4, <2>3
  <2>4. CASE d \in DOMAIN names \ DOMAIN e
    <3>1. Located(d, names) = d
      BY <1>1, <2>4
    <3> HIDE DEF d
    <3>2. Located(d, names)[k] = names[d]
      <4>1. \A i \in 1..Len(d) : Located(d, names)[i] =
              IF SubSeq(d, 1, i) \in DOMAIN names THEN names[SubSeq(d, 1, i)] ELSE d[i]
        BY <2>2, LocatedIs
      <4> QED BY <2>1, <2>2, <2>4, <4>1
    <3>3. names[d] = p[k]
      BY <2>2, <3>1, <3>2
    <3> QED BY <1>3, <1>4, <2>4, <3>3 DEF d
  <2> QED BY <2>3, <2>4
<1> QED BY <1>1, <1>3, <1>4, <1>5, SamePath DEF e

-----------------------------------------------------------------------------
(* Replaying the journal.                                                  *)

LEMMA Least ==
  ASSUME NEW B \in SUBSET Nat, B # {}
  PROVE  \E m \in B : \A k \in B : ~(k < m)
<1>1. IsWellFoundedOn(OpToRel(<, Nat), Nat)
  BY NatLessThanWellFounded
<1>2. PICK m \in B : \A k \in B : <<k, m>> \notin OpToRel(<, Nat)
  BY <1>1, WFMin
<1>3. \A k \in B : k \in Nat /\ m \in Nat /\ (k < m => <<k, m>> \in OpToRel(<, Nat))
  BY DEF OpToRel
<1> QED BY <1>2, <1>3

\* One more rename of the journal, and the paths after each of the first n.
Replayed(i, q) ==
  [f \in Planned |-> Follow(q[f], journal[i].src, journal[i].dst, journal[i].dir)]

Chain(h, n) ==
  h[0] = [f \in Planned |-> known[f]] /\ \A i \in 1..n : h[i] = Replayed(i, h[i - 1])

LEMMA ReplayIs ==
  ASSUME Len(journal) \in Nat, NEW h, Chain(h, Len(journal))
  PROVE  Replay = h[Len(journal)]
<1> DEFINE
      isReplay(q) ==
        q = [i \in 0..Len(journal) |->
               IF i = 0 THEN [f \in Planned |-> known[f]]
               ELSE [f \in Planned |-> Follow(q[i - 1][f], journal[i].src,
                                              journal[i].dst, journal[i].dir)]]
      q == CHOOSE g : isReplay(g)
      w == [i \in 0..Len(journal) |-> h[i]]
<1>1. Replay = q[Len(journal)]
  BY DEF Replay
<1>2. isReplay(w)
  <2> SUFFICES ASSUME NEW i \in 0..Len(journal)
      PROVE  w[i] = IF i = 0 THEN [f \in Planned |-> known[f]]
                    ELSE [f \in Planned |-> Follow(w[i - 1][f], journal[i].src,
                                                   journal[i].dst, journal[i].dir)]
    BY Zenon
  <2>1. CASE i = 0
    BY <2>1 DEF Chain
  <2>2. CASE i # 0
    <3>1. i \in 1..Len(journal) /\ i - 1 \in 0..Len(journal)
      BY <2>2
    <3>2. w[i] = h[i] /\ w[i - 1] = h[i - 1]
      BY <3>1
    <3> QED BY <2>2, <3>1, <3>2 DEF Chain, Replayed
  <2> QED BY <2>1, <2>2
<1>3. isReplay(q)
  <2> HIDE DEF w, isReplay
  <2> QED BY <1>2, Zenon
<1> HIDE DEF q
<1>4. ASSUME NEW i \in 0..Len(journal), i # 0, q[i - 1] = w[i - 1] PROVE q[i] = w[i]
  <2>1. q[i] = [f \in Planned |-> Follow(q[i - 1][f], journal[i].src,
                                         journal[i].dst, journal[i].dir)]
    BY <1>3, <1>4
  <2>2. w[i] = [f \in Planned |-> Follow(w[i - 1][f], journal[i].src,
                                         journal[i].dst, journal[i].dir)]
    BY <1>2, <1>4
  <2> HIDE DEF q, w
  <2> QED BY <2>1, <2>2, <1>4
<1>5. q[0] = w[0]
  <2>0. 0 \in 0..Len(journal)
    OBVIOUS
  <2>1. q[0] = [f \in Planned |-> known[f]]
    BY <1>3, <2>0
  <2>2. w[0] = [f \in Planned |-> known[f]]
    BY <2>0 DEF Chain
  <2> HIDE DEF w
  <2> QED BY <2>1, <2>2
<1> HIDE DEF w, isReplay
<1>6. ASSUME NEW m \in 0..Len(journal), q[m] # w[m] PROVE FALSE
  <2> DEFINE B == {i \in 0..Len(journal) : q[i] # w[i]}
  <2>1. PICK j \in B : \A k \in B : ~(k < j)
    <3>1. B \in SUBSET Nat /\ B # {}
      BY <1>6
    <3> HIDE DEF B
    <3> QED BY <3>1, Least
  <2>2. j \in 0..Len(journal) /\ q[j] # w[j]
    BY <2>1
  <2>3. j # 0
    BY <1>5, <2>2
  <2>4. j - 1 \in 0..Len(journal) /\ j - 1 < j
    BY <2>2, <2>3
  <2>5. q[j - 1] = w[j - 1]
    BY <2>1, <2>4
  <2> QED BY <1>4, <2>2, <2>3, <2>5
<1>7. w[Len(journal)] = h[Len(journal)]
  BY DEF w
<1> QED BY <1>1, <1>6, <1>7

LEMMA ReplayType ==
  ASSUME known \in [Files -> Paths], Planned \subseteq Files,
         journal \in Seq([src : Paths, dst : Paths, dir : BOOLEAN])
  PROVE  Replay \in [Planned -> Paths] /\ \E h : Chain(h, Len(journal))
<1> DEFINE typed(h, n) == \A i \in 0..n : h[i] \in [Planned -> Paths]
           B == {n \in 0..Len(journal) : ~\E h : Chain(h, n) /\ typed(h, n)}
<1>0. Len(journal) \in Nat
  BY LenProperties
<1>1. ASSUME NEW i \in 1..Len(journal), NEW q \in [Planned -> Paths]
      PROVE  Replayed(i, q) \in [Planned -> Paths]
  <2>1. journal[i].src \in Paths /\ journal[i].dst \in Paths
    <3>1. journal[i] \in [src : Paths, dst : Paths, dir : BOOLEAN]
      BY ElementOfSeq
    <3> QED BY <3>1
  <2>2. ASSUME NEW p \in Paths
        PROVE  Follow(p, journal[i].src, journal[i].dst, journal[i].dir) \in Paths
    <3>1. Len(p) \in Nat /\ Len(journal[i].src) \in Nat /\ \A k \in 1..Len(p) : p[k] \in Names
      BY <2>1, PathFacts
    <3>2. SubSeq(p, Len(journal[i].src) + 1, Len(p)) \in Paths
      <4>1. /\ Len(journal[i].src) + 1 \in Int /\ Len(p) \in Int
            /\ \A k \in (Len(journal[i].src) + 1)..Len(p) : p[k] \in Names
        BY <3>1
      <4> QED BY <4>1, SubSeqProperties DEF Paths
    <3>3. journal[i].dst \o SubSeq(p, Len(journal[i].src) + 1, Len(p)) \in Paths
      BY <2>1, <3>2, ConcatProperties DEF Paths
    <3> QED BY <2>1, <3>3, Zenon DEF Follow, Rehome
  <2> QED BY <2>2 DEF Replayed
<1>2. B = {}
  <2> SUFFICES ASSUME B # {} PROVE FALSE
    OBVIOUS
  <2>1. PICK n \in B : \A k \in B : ~(k < n)
    <3>1. B \in SUBSET Nat
      BY <1>0
    <3> HIDE DEF B
    <3> QED BY <3>1, Least
  <2>2. n \in 0..Len(journal) /\ ~\E h : Chain(h, n) /\ typed(h, n)
    BY <2>1
  <2>3. n # 0
    <3> SUFFICES ASSUME n = 0 PROVE FALSE
      OBVIOUS
    <3> DEFINE h == [i \in {0} |-> [f \in Planned |-> known[f]]]
    <3>1. Chain(h, 0) /\ typed(h, 0)
      BY DEF Chain
    <3> HIDE DEF h, typed
    <3> QED BY <2>2, <3>1
  <2>4. n - 1 \in 0..Len(journal) /\ n - 1 < n /\ n \in 1..Len(journal)
    BY <1>0, <2>2, <2>3
  <2>5. n - 1 \notin B
    <3> HIDE DEF B
    <3> QED BY <2>1, <2>4
  <2>6. PICK h : Chain(h, n - 1) /\ typed(h, n - 1)
    BY <2>4, <2>5
  <2> DEFINE g == [i \in 0..n |-> IF i < n THEN h[i] ELSE Replayed(n, h[n - 1])]
  <2>7. \A i \in 0..n : g[i] = IF i < n THEN h[i] ELSE Replayed(n, h[n - 1])
    OBVIOUS
  <2> HIDE DEF g
  <2>8. ASSUME NEW i \in 1..n PROVE g[i] = Replayed(i, g[i - 1])
    <3>1. i - 1 \in 0..n /\ i - 1 < n /\ i \in 0..n /\ (i = n \/ (i < n /\ i \in 1..(n - 1)))
      BY <2>4
    <3>2. g[i - 1] = h[i - 1]
      BY <2>7, <3>1
    <3>3. CASE i = n
      <4>1. g[n] = Replayed(n, h[n - 1])
        BY <2>4, <2>7
      <4> QED BY <3>2, <3>3, <4>1
    <3>4. CASE i < n /\ i \in 1..(n - 1)
      <4>1. g[i] = h[i]
        BY <2>7, <3>1, <3>4
      <4> QED BY <2>6, <3>2, <3>4, <4>1 DEF Chain
    <3> QED BY <3>1, <3>3, <3>4
  <2>9. ASSUME NEW i \in 0..n PROVE g[i] \in [Planned -> Paths]
    <3>1. n - 1 \in 0..(n - 1)
      BY <2>4
    <3>2. Replayed(n, h[n - 1]) \in [Planned -> Paths]
      BY <1>1, <2>4, <2>6, <3>1
    <3>3. i < n => i \in 0..(n - 1)
      BY <2>4
    <3> QED BY <2>6, <2>7, <3>2, <3>3
  <2>10. g[0] = [f \in Planned |-> known[f]]
    <3>1. 0 \in 0..n /\ 0 < n
      BY <2>4
    <3> QED BY <2>6, <2>7, <3>1 DEF Chain
  <2>11. Chain(g, n) /\ typed(g, n)
    BY <2>8, <2>9, <2>10 DEF Chain
  <2> HIDE DEF typed
  <2> QED BY <2>2, <2>11, Zenon
<1>3. PICK h : Chain(h, Len(journal)) /\ typed(h, Len(journal))
  <2>1. Len(journal) \in 0..Len(journal)
    BY <1>0
  <2> QED BY <1>2, <2>1
<1>4. Len(journal) \in 0..Len(journal)
  BY <1>0
<1>5. Replay = h[Len(journal)]
  <2> HIDE DEF typed
  <2> QED BY <1>0, <1>3, ReplayIs
<1>6. h[Len(journal)] \in [Planned -> Paths]
  BY <1>3, <1>4
<1> HIDE DEF typed
<1> QED BY <1>3, <1>4, <1>5, <1>6
=============================================================================
