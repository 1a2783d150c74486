------------------------------ MODULE TreeProofs ------------------------------
(***************************************************************************)
(* Lemmas about locations: prefixes of sequences, parents, and where the   *)
(* entries of a moved directory come from; and what the operations of      *)
(* MetaState keep of a tree: that every entry hangs from the root, and     *)
(* that a FileID names one file.                                           *)
(***************************************************************************)
EXTENDS MetaState, SequenceTheorems, WellFoundedInduction, TLAPS

-----------------------------------------------------------------------------
(* Locations                                                               *)

\* A prefix, element by element.
LEMMA PrefixElements ==
  ASSUME NEW s \in Seq(Names), NEW t \in Seq(Names)
  PROVE  IsPrefix(s, t) <=> /\ Len(s) <= Len(t)
                            /\ \A i \in 1..Len(s) : s[i] = t[i]
<1>1. SubSeq(s, 1, Len(s)) = s
  BY SubSeqFull
<1>2. ASSUME Len(s) <= Len(t)
      PROVE  SubSeq(t, 1, Len(s)) = s <=> \A i \in 1..Len(s) : s[i] = t[i]
  <2>1. Len(s) \in Nat /\ Len(t) \in Nat /\ \A i \in 1..Len(s) : t[i] \in Names
    BY <1>2, LenProperties, ElementOfSeq
  <2>2. /\ SubSeq(t, 1, Len(s)) \in Seq(Names)
        /\ Len(SubSeq(t, 1, Len(s))) = Len(s)
        /\ \A i \in 1..Len(s) : SubSeq(t, 1, Len(s))[i] = t[i]
    BY <2>1, SubSeqProperties
  <2> QED  BY <2>1, <2>2, SeqEqual
<1> QED  BY <1>1, <1>2 DEF IsPrefix

\* A prefix of a prefix is a prefix.
LEMMA PrefixTransitive ==
  ASSUME NEW s \in Seq(Names), NEW t \in Seq(Names), NEW u \in Seq(Names),
         IsPrefix(s, t), IsPrefix(t, u)
  PROVE  IsPrefix(s, u)
  BY PrefixElements, LenProperties

\* A location is its own prefix, and the empty one a prefix of all.
LEMMA PrefixSelf ==
  ASSUME NEW s \in Seq(Names)
  PROVE  IsPrefix(s, s) /\ IsPrefix(<<>>, s)
<1>1. Len(s) \in Nat /\ <<>> \in Seq(Names) /\ Len(<<>>) = 0
  BY LenProperties, EmptySeq
<1>2. IsPrefix(s, s)
  BY <1>1, PrefixElements
<1>3. IsPrefix(<<>>, s)
  <2>1. SubSeq(<<>>, 1, 0) = <<>> /\ SubSeq(s, 1, 0) = <<>>
    BY SubSeqEmpty
  <2> QED  BY <1>1, <2>1 DEF IsPrefix
<1> QED  BY <1>2, <1>3

\* Two locations that are prefixes of each other are one.
LEMMA PrefixAntisymmetric ==
  ASSUME NEW s \in Seq(Names), NEW t \in Seq(Names), IsPrefix(s, t), IsPrefix(t, s)
  PROVE  s = t
  BY PrefixElements, LenProperties, SeqEqual

\* The parent of a location is its longest proper prefix.
LEMMA ParentIsLongest ==
  ASSUME NEW s \in Seq(Names), NEW t \in Seq(Names), t # <<>>
  PROVE  /\ Parent(t) \in Seq(Names) /\ Parent(t) # t /\ IsPrefix(Parent(t), t)
         /\ Len(Parent(t)) < Len(t)
         /\ IsPrefix(s, t) /\ s # t => IsPrefix(s, Parent(t))
<1>1. Len(t) \in Nat \ {0} /\ Len(s) \in Nat
  BY EmptySeq, LenProperties
<1>2. /\ Parent(t) \in Seq(Names) /\ Len(Parent(t)) = Len(t) - 1
      /\ \A i \in 1..Len(t) - 1 : Parent(t)[i] = t[i]
  <2>1. \A i \in 1..(Len(t) - 1) : t[i] \in Names
    BY <1>1, ElementOfSeq
  <2>2. /\ SubSeq(t, 1, Len(t) - 1) \in Seq(Names)
        /\ Len(SubSeq(t, 1, Len(t) - 1)) =
             IF 1 <= Len(t) - 1 THEN (Len(t) - 1) - 1 + 1 ELSE 0
        /\ \A i \in 1..((Len(t) - 1) - 1 + 1) :
             SubSeq(t, 1, Len(t) - 1)[i] = t[1 + i - 1]
    <3>1. 1 \in Int /\ Len(t) - 1 \in Int
      BY <1>1
    <3> QED  BY <2>1, <3>1, SubSeqProperties
  <2>3. Parent(t) = SubSeq(t, 1, Len(t) - 1)
    BY DEF Parent, Front
  <2>4. Len(SubSeq(t, 1, Len(t) - 1)) = Len(t) - 1
    <3>1. CASE 1 <= Len(t) - 1
      BY <1>1, <2>2, <3>1
    <3>2. CASE ~(1 <= Len(t) - 1)
      <4>1. Len(t) \in Nat /\ Len(t) # 0
        BY <1>1
      <4>2. \A n \in Nat : n # 0 /\ ~(1 <= n - 1) => n - 1 = 0
        OBVIOUS
      <4>3. Len(t) - 1 = 0
        BY <3>2, <4>1, <4>2, Zenon
      <4> QED  BY <2>2, <3>2, <4>3, Zenon
    <3> QED  BY <3>1, <3>2
  <2>5. (Len(t) - 1) - 1 + 1 = Len(t) - 1 /\ \A i \in 1..(Len(t) - 1) : 1 + i - 1 = i
    BY <1>1
  <2> QED  BY <2>2, <2>3, <2>4, <2>5
<1>3. IsPrefix(Parent(t), t)
  <2>1. Parent(t) \in Seq(Names)
    BY <1>2
  <2>2. Len(Parent(t)) <= Len(t)
    <3>1. Len(t) \in Nat /\ Len(Parent(t)) = Len(t) - 1
      BY <1>1, <1>2
    <3> QED  BY <3>1
  <2>3. \A i \in 1..Len(Parent(t)) : Parent(t)[i] = t[i]
    BY <1>2, Zenon
  <2>4. IsPrefix(Parent(t), t) <=>
          /\ Len(Parent(t)) <= Len(t)
          /\ \A i \in 1..Len(Parent(t)) : Parent(t)[i] = t[i]
    BY <2>1, PrefixElements, Zenon
  <2> QED  BY <2>2, <2>3, <2>4, Zenon
<1>4. Len(Parent(t)) < Len(t) /\ Parent(t) # t
  BY <1>1, <1>2
<1>5. ASSUME IsPrefix(s, t), s # t PROVE IsPrefix(s, Parent(t))
  <2>1. Len(s) <= Len(t) /\ \A i \in 1..Len(s) : s[i] = t[i]
    BY <1>5, PrefixElements
  <2>2. Len(s) # Len(t)
    BY <1>5, <2>1, SeqEqual
  <2>3. Len(s) <= Len(t) - 1
    BY <1>1, <2>1, <2>2
  <2>4. \A i \in 1..Len(s) : s[i] = Parent(t)[i]
    BY <1>1, <1>2, <2>1, <2>3
  <2> QED  BY <1>2, <2>3, <2>4, PrefixElements
<1> QED  BY <1>2, <1>3, <1>4, <1>5

\* Below dst, MovedFrom gives a location below src that ends in the same names.
LEMMA MovedFromProperties ==
  ASSUME NEW src \in Seq(Names), NEW dst \in Seq(Names), NEW q \in Seq(Names),
         IsPrefix(dst, q)
  PROVE  /\ MovedFrom(src, dst, q) \in Seq(Names)
         /\ IsPrefix(src, MovedFrom(src, dst, q))
         /\ Len(MovedFrom(src, dst, q)) = Len(src) + Len(q) - Len(dst)
         /\ \A i \in 1..Len(q) - Len(dst) :
              MovedFrom(src, dst, q)[Len(src) + i] = q[Len(dst) + i]
<1> DEFINE rest == SubSeq(q, Len(dst) + 1, Len(q))
<1>1. /\ Len(q) \in Nat /\ Len(dst) \in Nat /\ Len(src) \in Nat
      /\ Len(dst) <= Len(q)
  BY LenProperties, PrefixElements
<1>2. /\ rest \in Seq(Names) /\ Len(rest) = Len(q) - Len(dst)
      /\ \A i \in 1..Len(q) - Len(dst) : rest[i] = q[Len(dst) + i]
  <2>1. \A i \in (Len(dst) + 1)..Len(q) : q[i] \in Names
    BY <1>1, ElementOfSeq
  <2>2. /\ rest \in Seq(Names)
        /\ Len(rest) = IF Len(dst) + 1 <= Len(q) THEN Len(q) - (Len(dst) + 1) + 1 ELSE 0
        /\ \A i \in 1..(Len(q) - (Len(dst) + 1) + 1) : rest[i] = q[(Len(dst) + 1) + i - 1]
    BY <1>1, <2>1, SubSeqProperties
  <2> HIDE DEF rest
  <2> QED  BY <1>1, <2>2
<1>3. MovedFrom(src, dst, q) = src \o rest
  BY DEF MovedFrom
<1> HIDE DEF rest
<1>4. /\ src \o rest \in Seq(Names)
      /\ Len(src \o rest) = Len(src) + Len(rest)
      /\ \A i \in 1..Len(src) + Len(rest) :
           (src \o rest)[i] = IF i <= Len(src) THEN src[i] ELSE rest[i - Len(src)]
  BY <1>2, ConcatProperties
<1>5. IsPrefix(src, src \o rest)
  <2>1. Len(src) <= Len(src \o rest)
    BY <1>1, <1>2, <1>4
  <2>2. \A i \in 1..Len(src) : (src \o rest)[i] = src[i]
    BY <1>1, <1>2, <1>4
  <2> QED  BY <1>4, <2>1, <2>2, PrefixElements
<1>6. \A i \in 1..Len(q) - Len(dst) : (src \o rest)[Len(src) + i] = q[Len(dst) + i]
  BY <1>1, <1>2, <1>4
<1> QED  BY <1>1, <1>2, <1>3, <1>4, <1>5, <1>6

\* What ends up at two places came from two places.
LEMMA MovedFromInjective ==
  ASSUME NEW src \in Seq(Names), NEW dst \in Seq(Names),
         NEW q \in Seq(Names), NEW r \in Seq(Names), IsPrefix(dst, q), IsPrefix(dst, r),
         MovedFrom(src, dst, q) = MovedFrom(src, dst, r)
  PROVE  q = r
<1>1. /\ Len(src) \in Nat /\ Len(dst) \in Nat /\ Len(q) \in Nat /\ Len(r) \in Nat
  BY LenProperties
<1> DEFINE m == MovedFrom(src, dst, q)
<1>2. /\ /\ m \in Seq(Names) /\ IsPrefix(src, m)
         /\ Len(m) = Len(src) + Len(q) - Len(dst)
         /\ \A i \in 1..Len(q) - Len(dst) : m[Len(src) + i] = q[Len(dst) + i]
      /\ /\ m \in Seq(Names) /\ IsPrefix(src, m)
         /\ Len(m) = Len(src) + Len(r) - Len(dst)
         /\ \A i \in 1..Len(r) - Len(dst) : m[Len(src) + i] = r[Len(dst) + i]
  <2>1. /\ MovedFrom(src, dst, q) \in Seq(Names)
        /\ IsPrefix(src, MovedFrom(src, dst, q))
        /\ Len(MovedFrom(src, dst, q)) = Len(src) + Len(q) - Len(dst)
        /\ \A i \in 1..Len(q) - Len(dst) :
             MovedFrom(src, dst, q)[Len(src) + i] = q[Len(dst) + i]
    BY MovedFromProperties
  <2>2. /\ MovedFrom(src, dst, r) \in Seq(Names)
        /\ IsPrefix(src, MovedFrom(src, dst, r))
        /\ Len(MovedFrom(src, dst, r)) = Len(src) + Len(r) - Len(dst)
        /\ \A i \in 1..Len(r) - Len(dst) :
             MovedFrom(src, dst, r)[Len(src) + i] = r[Len(dst) + i]
    BY MovedFromProperties
  <2> QED  BY <2>1, <2>2, Zenon
<1> HIDE DEF m
<1>3. Len(q) = Len(r)
  <2>1. Len(src) + Len(q) - Len(dst) = Len(src) + Len(r) - Len(dst)
    BY <1>2, Zenon
  <2> QED  BY <1>1, <2>1
<1>a. /\ Len(dst) <= Len(q) /\ \A i \in 1..Len(dst) : dst[i] = q[i]
      /\ Len(dst) <= Len(r) /\ \A i \in 1..Len(dst) : dst[i] = r[i]
  BY PrefixElements
<1>4. \A i \in 1..Len(q) - Len(dst) : q[Len(dst) + i] = r[Len(dst) + i]
  BY <1>2, <1>3
<1>5. ASSUME NEW i \in 1..Len(q) PROVE q[i] = r[i]
  <2>1. CASE i <= Len(dst)
    <3>1. i \in 1..Len(dst)
      BY <1>1, <2>1
    <3> QED  BY <1>a, <3>1, Zenon
  <2>2. CASE i > Len(dst)
    <3>1. i - Len(dst) \in 1..Len(q) - Len(dst) /\ Len(dst) + (i - Len(dst)) = i
      BY <1>1, <2>2
    <3> QED  BY <1>4, <3>1
  <2> QED  BY <1>1, <2>1, <2>2
<1> QED  BY <1>3, <1>5, SeqEqual

\* A location below src that goes below dst and back is the one it was.
LEMMA MovedBack ==
  ASSUME NEW src \in Seq(Names), NEW dst \in Seq(Names), NEW q \in Seq(Names),
         IsPrefix(src, q)
  PROVE  MovedFrom(src, dst, MovedFrom(dst, src, q)) = q
<1> DEFINE m == MovedFrom(dst, src, q)
           b == MovedFrom(src, dst, m)
<1>1. /\ Len(src) \in Nat /\ Len(dst) \in Nat /\ Len(q) \in Nat /\ Len(src) <= Len(q)
      /\ \A i \in 1..Len(src) : src[i] = q[i]
  BY LenProperties, PrefixElements
<1>2. /\ m \in Seq(Names) /\ IsPrefix(dst, m)
      /\ Len(m) = Len(dst) + Len(q) - Len(src)
      /\ \A i \in 1..Len(q) - Len(src) : m[Len(dst) + i] = q[Len(src) + i]
  BY MovedFromProperties
<1> HIDE DEF m
<1>3. /\ b \in Seq(Names) /\ IsPrefix(src, b)
      /\ Len(b) = Len(src) + Len(m) - Len(dst)
      /\ \A i \in 1..Len(m) - Len(dst) : b[Len(src) + i] = m[Len(dst) + i]
  BY <1>2, MovedFromProperties
<1> HIDE DEF b
<1>4. Len(m) - Len(dst) = Len(q) - Len(src) /\ Len(b) = Len(q)
  BY <1>1, <1>2, <1>3
<1>5. ASSUME NEW i \in 1..Len(q) PROVE b[i] = q[i]
  <2>1. CASE i <= Len(src)
    <3>1. i \in 1..Len(src)
      BY <1>1, <2>1
    <3>2. src[i] = b[i]
      BY <1>3, <3>1, PrefixElements
    <3> QED  BY <1>1, <3>1, <3>2, Zenon
  <2>2. CASE i > Len(src)
    <3>1. i - Len(src) \in 1..Len(q) - Len(src) /\ Len(src) + (i - Len(src)) = i
      BY <1>1, <2>2
    <3>2. b[Len(src) + (i - Len(src))] = m[Len(dst) + (i - Len(src))]
      BY <1>3, <1>4, <3>1, Zenon
    <3>3. m[Len(dst) + (i - Len(src))] = q[Len(src) + (i - Len(src))]
      BY <1>2, <3>1, Zenon
    <3> QED  BY <3>1, <3>2, <3>3
  <2> QED  BY <1>1, <2>1, <2>2
<1>6. b = q
  BY <1>3, <1>4, <1>5, SeqEqual
<1> QED  BY <1>6 DEF b, m

\* What ends up above another was above it.
LEMMA MovedFromMonotonic ==
  ASSUME NEW src \in Seq(Names), NEW dst \in Seq(Names),
         NEW q \in Seq(Names), NEW r \in Seq(Names), IsPrefix(dst, q), IsPrefix(q, r)
  PROVE  IsPrefix(MovedFrom(src, dst, q), MovedFrom(src, dst, r))
<1> DEFINE mq == MovedFrom(src, dst, q)
           mr == MovedFrom(src, dst, r)
<1>1. IsPrefix(dst, r)
  BY PrefixTransitive
<1>2. /\ Len(src) \in Nat /\ Len(dst) \in Nat /\ Len(q) \in Nat /\ Len(r) \in Nat
      /\ Len(dst) <= Len(q) /\ Len(q) <= Len(r)
      /\ \A i \in 1..Len(q) : q[i] = r[i]
  BY LenProperties, PrefixElements
<1>a. /\ MovedFrom(src, dst, q) \in Seq(Names)
      /\ IsPrefix(src, MovedFrom(src, dst, q))
      /\ Len(MovedFrom(src, dst, q)) = Len(src) + Len(q) - Len(dst)
      /\ \A i \in 1..Len(q) - Len(dst) :
           MovedFrom(src, dst, q)[Len(src) + i] = q[Len(dst) + i]
  BY MovedFromProperties
<1>b. /\ MovedFrom(src, dst, r) \in Seq(Names)
      /\ IsPrefix(src, MovedFrom(src, dst, r))
      /\ Len(MovedFrom(src, dst, r)) = Len(src) + Len(r) - Len(dst)
      /\ \A i \in 1..Len(r) - Len(dst) :
           MovedFrom(src, dst, r)[Len(src) + i] = r[Len(dst) + i]
  BY <1>1, MovedFromProperties
<1>3. /\ mq \in Seq(Names) /\ Len(mq) = Len(src) + Len(q) - Len(dst)
      /\ \A i \in 1..Len(q) - Len(dst) : mq[Len(src) + i] = q[Len(dst) + i]
      /\ Len(src) <= Len(mq) /\ \A i \in 1..Len(src) : mq[i] = src[i]
  <2>1. Len(src) <= Len(mq) /\ \A i \in 1..Len(src) : mq[i] = src[i]
    BY <1>a, PrefixElements
  <2> QED  BY <1>a, <2>1
<1>4. /\ mr \in Seq(Names) /\ Len(mr) = Len(src) + Len(r) - Len(dst)
      /\ \A i \in 1..Len(r) - Len(dst) : mr[Len(src) + i] = r[Len(dst) + i]
      /\ Len(src) <= Len(mr) /\ \A i \in 1..Len(src) : mr[i] = src[i]
  <2>1. Len(src) <= Len(mr) /\ \A i \in 1..Len(src) : mr[i] = src[i]
    BY <1>b, PrefixElements
  <2> QED  BY <1>b, <2>1
<1> HIDE DEF mq, mr
<1>5. ASSUME NEW i \in 1..Len(mq) PROVE mq[i] = mr[i]
  <2>1. CASE i <= Len(src)
    BY <1>2, <1>3, <1>4, <2>1
  <2>2. CASE i > Len(src)
    <3>1. /\ i - Len(src) \in 1..Len(q) - Len(dst)
          /\ i - Len(src) \in 1..Len(r) - Len(dst)
          /\ Len(src) + (i - Len(src)) = i
          /\ Len(dst) + (i - Len(src)) \in 1..Len(q)
      BY <1>2, <1>3, <2>2
    <3>2. mq[i] = q[Len(dst) + (i - Len(src))]
      BY <1>3, <3>1
    <3>3. mr[i] = r[Len(dst) + (i - Len(src))]
      BY <1>4, <3>1
    <3> QED  BY <1>2, <3>1, <3>2, <3>3
  <2> QED  BY <1>2, <1>3, <2>1, <2>2
<1>6. Len(mq) <= Len(mr)
  BY <1>2, <1>3, <1>4
<1>7. IsPrefix(mq, mr)
  BY <1>3, <1>4, <1>5, <1>6, PrefixElements
<1> QED  BY <1>7 DEF mq, mr
-----------------------------------------------------------------------------
(* Ancestors                                                               *)

\* Of a set of locations that is not empty, one is not longer than the others.
LEMMA ShortestExists ==
  ASSUME NEW T \in SUBSET Seq(Names), T # {}
  PROVE  \E s \in T : \A t \in T : Len(s) <= Len(t)
<1> DEFINE lengths == {Len(t) : t \in T}
           less == OpToRel(<, Nat)
<1>1. lengths \subseteq Nat /\ lengths # {}
  BY LenProperties
<1>2. IsWellFoundedOn(less, Nat)
  BY NatLessThanWellFounded
<1>3. \A m, n \in Nat : m < n => <<m, n>> \in less
  BY DEF OpToRel
<1> HIDE DEF lengths, less
<1>4. PICK n \in lengths : \A m \in lengths : ~(<<m, n>> \in less)
  BY <1>1, <1>2, WFMin
<1>5. ASSUME NEW m \in lengths PROVE n <= m
  <2>1. m \in Nat /\ n \in Nat
    BY <1>1
  <2>2. ~(m < n)
    BY <1>3, <1>4, <2>1, Zenon
  <2> QED  BY <2>1, <2>2
<1> QED  BY <1>5 DEF lengths

\* Locations are sequences of names; the root has no parent below it.
LEMMA LocationFacts ==
  /\ Locations \subseteq Seq(Names) /\ Root \in Seq(Names) /\ Root \in Locations
  /\ Paths \subseteq Locations /\ Root \notin Paths
  /\ \A p \in Paths : Parent(p) \in Locations
  BY PathsAssumption, EmptySeq DEF Locations, Root

-----------------------------------------------------------------------------
(* Every entry hangs from the root                                         *)

\* A tree in which every entry has a directory above it.
Rooted(tree) ==
  /\ IsDir(tree, Root)
  /\ \A p \in Paths : Exists(tree, p) => IsDir(tree, Parent(p))

\* In such a tree all ancestors of an entry are there, and directories.
LEMMA AncestorsAreDirs ==
  ASSUME NEW tree, Rooted(tree), NEW p \in Locations, Exists(tree, p),
         NEW q \in Seq(Names), IsPrefix(q, p), q # p
  PROVE  q \in Locations /\ IsDir(tree, q)
<1> DEFINE below == {r \in Locations : Exists(tree, r) /\ IsPrefix(q, r) /\ q # r}
<1>1. below \subseteq Seq(Names) /\ p \in below
  BY LocationFacts
<1>2. PICK r \in below : \A s \in below : Len(r) <= Len(s)
  BY <1>1, ShortestExists
<1>3. /\ r \in Locations /\ r \in Seq(Names) /\ Exists(tree, r)
      /\ IsPrefix(q, r) /\ q # r
  BY <1>2, LocationFacts
<1>4. r # <<>> /\ r \in Paths
  <2>1. ASSUME r = <<>> PROVE FALSE
    <3>1. IsPrefix(r, q)
      BY <2>1, PrefixSelf
    <3> QED  BY <1>3, <3>1, PrefixAntisymmetric
  <2> QED  BY <1>3, <2>1 DEF Locations, Root
<1>5. /\ Parent(r) \in Seq(Names) /\ IsPrefix(q, Parent(r))
      /\ Len(Parent(r)) < Len(r)
  BY <1>3, <1>4, ParentIsLongest
<1>6. Parent(r) \in Locations /\ IsDir(tree, Parent(r))
  BY <1>3, <1>4, LocationFacts DEF Rooted
<1>7. Parent(r) \notin below
  <2>1. Len(Parent(r)) \in Nat /\ Len(r) \in Nat
    BY <1>3, <1>5, LenProperties
  <2>2. ~(Len(r) <= Len(Parent(r)))
    BY <1>5, <2>1
  <2> QED  BY <1>2, <2>2
<1>8. Parent(r) = q
  BY <1>5, <1>6, <1>7 DEF IsDir, Exists
<1> QED  BY <1>6, <1>8

\* mkdir -p keeps it: what it makes it makes from the root down.
LEMMA MkdirRooted ==
  ASSUME NEW tree \in [Locations -> Entry], Rooted(tree), NEW p \in Locations
  PROVE  Rooted(applyMkdir(tree, p))
<1> DEFINE made == applyMkdir(tree, p)
<1>1. \A q \in Locations :
        made[q] = IF IsPrefix(q, p) THEN Dir ELSE tree[q]
  BY DEF applyMkdir
<1> HIDE DEF made
<1>2. IsDir(made, Root)
  BY <1>1, LocationFacts, PrefixSelf DEF IsDir, Dir, Root
<1>3. ASSUME NEW q \in Paths, Exists(made, q) PROVE IsDir(made, Parent(q))
  <2>1. /\ q \in Seq(Names) /\ q # <<>> /\ q \in Locations /\ p \in Seq(Names)
        /\ Parent(q) \in Locations
    BY LocationFacts DEF Root
  <2>2. Parent(q) \in Seq(Names) /\ IsPrefix(Parent(q), q)
    BY <2>1, ParentIsLongest
  <2>3. CASE IsPrefix(q, p)
    <3>1. IsPrefix(Parent(q), p)
      BY <2>1, <2>2, <2>3, PrefixTransitive
    <3> QED  BY <1>1, <2>1, <3>1 DEF IsDir, Dir
  <2>4. CASE ~IsPrefix(q, p)
    <3>1. IsDir(tree, Parent(q))
      BY <1>1, <1>3, <2>1, <2>4 DEF Rooted, Exists
    <3> QED  BY <1>1, <2>1, <3>1 DEF IsDir, Dir
  <2> QED  BY <2>3, <2>4
<1>4. Rooted(made)
  BY <1>2, <1>3 DEF Rooted
<1> QED  BY <1>4 DEF made

\* A file may come or change where no directory is.
LEMMA FileRooted ==
  ASSUME NEW tree \in [Locations -> Entry], Rooted(tree), NEW p \in Paths,
         IsDir(tree, Parent(p)), ~IsDir(tree, p), NEW e, e.kind = "file"
  PROVE  Rooted([tree EXCEPT ![p] = e])
<1> DEFINE changed == [tree EXCEPT ![p] = e]
<1>1. \A q \in Locations : changed[q] = IF q = p THEN e ELSE tree[q]
  OBVIOUS
<1> HIDE DEF changed
<1>2. IsDir(changed, Root)
  BY <1>1, LocationFacts DEF Rooted, IsDir
<1>3. ASSUME NEW q \in Paths, Exists(changed, q) PROVE IsDir(changed, Parent(q))
  <2>1. q \in Locations /\ Parent(q) \in Locations
    BY LocationFacts
  <2>2. IsDir(tree, Parent(q))
    BY <1>1, <1>3, <2>1 DEF Rooted, Exists
  <2>3. Parent(q) # p
    BY <2>2
  <2> QED  BY <1>1, <2>1, <2>2, <2>3 DEF IsDir
<1>4. Rooted(changed)
  BY <1>2, <1>3 DEF Rooted
<1> QED  BY <1>4 DEF changed

\* An entry goes with everything below it.
LEMMA DeleteRooted ==
  ASSUME NEW tree \in [Locations -> Entry], Rooted(tree), NEW p \in Paths
  PROVE  Rooted(applyDelete(tree, p))
<1> DEFINE left == applyDelete(tree, p)
<1>1. \A q \in Locations : left[q] = IF IsPrefix(p, q) THEN NoEntry ELSE tree[q]
  BY DEF applyDelete
<1> HIDE DEF left
<1>2. p \in Seq(Names) /\ p # <<>>
  BY LocationFacts DEF Root
<1>3. IsDir(left, Root)
  <2>1. ~IsPrefix(p, Root)
    BY <1>2, LocationFacts, PrefixSelf, PrefixAntisymmetric DEF Root
  <2> QED  BY <1>1, <2>1, LocationFacts DEF Rooted, IsDir
<1>4. ASSUME NEW q \in Paths, Exists(left, q) PROVE IsDir(left, Parent(q))
  <2>1. q \in Seq(Names) /\ q # <<>> /\ q \in Locations /\ Parent(q) \in Locations
    BY LocationFacts DEF Root
  <2>2. ~IsPrefix(p, q) /\ Exists(tree, q)
    BY <1>1, <1>4, <2>1 DEF Exists, NoEntry
  <2>3. ~IsPrefix(p, Parent(q))
    BY <1>2, <2>1, <2>2, ParentIsLongest, PrefixTransitive
  <2> QED  BY <1>1, <2>1, <2>2, <2>3 DEF Rooted, IsDir
<1>5. Rooted(left)
  BY <1>3, <1>4 DEF Rooted
<1> QED  BY <1>5 DEF left

\* What a rename leaves at a location.
LEMMA RenameAt ==
  ASSUME NEW tree \in [Locations -> Entry], NEW src \in Paths, NEW dst \in Paths,
         NEW q \in Locations
  PROVE  applyRename(tree, src, dst)[q] =
           IF IsPrefix(dst, q)
             THEN IF MovedFrom(src, dst, q) \in Paths
                    THEN tree[MovedFrom(src, dst, q)] ELSE NoEntry
           ELSE IF IsPrefix(src, q) THEN NoEntry
           ELSE tree[q]
  BY DEF applyRename

\* A moved entry arrives with its ancestors: the directories above its new
\* place stay where they are, because no directory moves below itself.
LEMMA RenameRooted ==
  ASSUME NEW tree \in [Locations -> Entry], Rooted(tree),
         NEW src \in Paths, NEW dst \in Paths, CanRename(tree, src, dst)
  PROVE  Rooted(applyRename(tree, src, dst))
<1> DEFINE moved == applyRename(tree, src, dst)
           from(q) == MovedFrom(src, dst, q)
<1>1. /\ src \in Seq(Names) /\ src # <<>> /\ src \in Locations
      /\ dst \in Seq(Names) /\ dst # <<>> /\ Parent(dst) \in Locations
  BY LocationFacts DEF Root
<1>2. ASSUME NEW q \in Locations, ~IsPrefix(dst, q), ~IsPrefix(src, q)
      PROVE  moved[q] = tree[q]
  BY <1>2, RenameAt
<1>3. ASSUME NEW q \in Locations, IsPrefix(dst, q), from(q) \in Paths
      PROVE  moved[q] = tree[from(q)]
  BY <1>3, RenameAt
<1>4. ASSUME NEW q \in Locations, Exists(moved, q)
      PROVE  \/ IsPrefix(dst, q) /\ from(q) \in Paths /\ Exists(tree, from(q))
             \/ ~IsPrefix(dst, q) /\ ~IsPrefix(src, q) /\ Exists(tree, q)
  BY <1>4, RenameAt DEF Exists, NoEntry
<1> HIDE DEF moved
<1>5. /\ Exists(tree, src) /\ IsDir(tree, Parent(dst))
      /\ IsDir(tree, src) => ~IsPrefix(src, Parent(dst))
  BY DEF CanRename
<1>6. \A r \in Paths : ~IsPrefix(r, Root)
  BY LocationFacts, PrefixSelf, PrefixAntisymmetric DEF Root
<1>7. IsDir(moved, Root)
  <2>1. moved[Root] = tree[Root]
    BY <1>2, <1>6, LocationFacts
  <2> QED  BY <2>1 DEF Rooted, IsDir
<1>8. ASSUME NEW q \in Paths, Exists(moved, q) PROVE IsDir(moved, Parent(q))
  <2>1. /\ q \in Seq(Names) /\ q # <<>> /\ q \in Locations /\ Parent(q) \in Locations
        /\ Parent(q) \in Seq(Names) /\ IsPrefix(Parent(q), q) /\ Parent(q) # q
        /\ Len(Parent(q)) < Len(q)
    BY LocationFacts, ParentIsLongest DEF Root
  <2>2. CASE ~IsPrefix(dst, q)
    <3>1. ~IsPrefix(src, q) /\ Exists(tree, q)
      BY <1>4, <1>8, <2>1, <2>2
    <3>2. ~IsPrefix(dst, Parent(q)) /\ ~IsPrefix(src, Parent(q))
      BY <1>1, <2>1, <2>2, <3>1, PrefixTransitive
    <3> QED  BY <1>2, <2>1, <3>1, <3>2 DEF Rooted, IsDir
  <2>3. CASE q = dst
    <3>1. ~IsPrefix(dst, Parent(dst))
      BY <1>1, <2>1, <2>3, PrefixAntisymmetric
    <3>2. ASSUME IsPrefix(src, Parent(dst)) PROVE FALSE
      <4>1. CASE src = Parent(dst)
        BY <1>5, <3>2, <4>1
      <4>2. CASE src # Parent(dst)
        <5>1. IsDir(tree, src)
          BY <1>1, <1>5, <3>2, <4>2, AncestorsAreDirs DEF IsDir, Exists
        <5> QED  BY <1>5, <3>2, <5>1
      <4> QED  BY <4>1, <4>2
    <3>3. moved[Parent(dst)] = tree[Parent(dst)]
      BY <1>1, <1>2, <3>1, <3>2
    <3> QED  BY <1>5, <2>3, <3>3 DEF IsDir
  <2>4. CASE IsPrefix(dst, q) /\ q # dst
    <3>1. IsPrefix(dst, Parent(q))
      BY <1>1, <2>1, <2>4, ParentIsLongest
    <3>2. from(q) \in Paths /\ Exists(tree, from(q)) /\ from(q) \in Seq(Names)
      BY <1>4, <1>8, <2>1, <2>4, LocationFacts
    <3>3. /\ from(Parent(q)) \in Seq(Names) /\ IsPrefix(src, from(Parent(q)))
      BY <1>1, <2>1, <3>1, MovedFromProperties
    <3>4. IsPrefix(from(Parent(q)), from(q))
      BY <1>1, <2>1, <3>1, MovedFromMonotonic
    <3>5. from(Parent(q)) # from(q)
      BY <1>1, <2>1, <2>4, <3>1, MovedFromInjective
    <3>6. from(Parent(q)) \in Locations /\ IsDir(tree, from(Parent(q)))
      BY <3>2, <3>3, <3>4, <3>5, AncestorsAreDirs, LocationFacts
    <3>7. from(Parent(q)) \in Paths
      <4>1. from(Parent(q)) # Root
        BY <1>6, <3>3
      <4> QED  BY <3>6, <4>1 DEF Locations
    <3>8. moved[Parent(q)] = tree[from(Parent(q))]
      BY <1>3, <2>1, <3>1, <3>7
    <3> QED  BY <3>6, <3>8 DEF IsDir
  <2> QED  BY <2>2, <2>3, <2>4
<1>9. Rooted(moved)
  BY <1>7, <1>8 DEF Rooted
<1> QED  BY <1>9 DEF moved

\* A file has nothing below it.
LEMMA NothingBelowFiles ==
  ASSUME NEW tree, Rooted(tree), NEW p \in Paths, ~IsDir(tree, p),
         NEW q \in Locations, Exists(tree, q), IsPrefix(p, q)
  PROVE  q = p
<1>1. p \in Seq(Names)
  BY LocationFacts
<1> QED  BY <1>1, AncestorsAreDirs

\* What is at a location after a rename was at one before,
LEMMA RenameTakes ==
  ASSUME NEW tree \in [Locations -> Entry], NEW src \in Paths, NEW dst \in Paths,
         NEW q \in Locations, IsFile(applyRename(tree, src, dst), q)
  PROVE  \E p \in Locations : applyRename(tree, src, dst)[q] = tree[p]
BY RenameAt DEF IsFile, NoEntry, Locations

\* and what was in the tree still is, but for what dst overwrites.
LEMMA RenameKeeps ==
  ASSUME NEW tree \in [Locations -> Entry], Rooted(tree),
         NEW src \in Paths, NEW dst \in Paths, CanRename(tree, src, dst),
         Fits(tree, src, dst), NEW q \in Locations, Exists(tree, q), q # dst
  PROVE  \E r \in Locations : applyRename(tree, src, dst)[r] = tree[q]
<1>1. /\ src \in Seq(Names) /\ dst \in Seq(Names) /\ q \in Seq(Names)
      /\ ~IsPrefix(src, Root) /\ ~IsDir(tree, dst)
  BY LocationFacts, PrefixSelf, PrefixAntisymmetric DEF Root, CanRename
<1>2. CASE IsPrefix(src, q)
  <2> DEFINE r == MovedFrom(dst, src, q)
  <2>1. q \in Paths
    BY <1>1, <1>2 DEF Locations
  <2>2. r \in Paths
    BY <1>2, <2>1 DEF Fits, MovedFrom
  <2>3. IsPrefix(dst, r) /\ MovedFrom(src, dst, r) = q
    BY <1>1, <1>2, MovedFromProperties, MovedBack
  <2> HIDE DEF r
  <2>4. r \in Locations
    BY <2>2 DEF Locations
  <2>5. applyRename(tree, src, dst)[r] = tree[q]
    BY <2>1, <2>3, <2>4, RenameAt
  <2> QED  BY <2>4, <2>5
<1>3. CASE ~IsPrefix(src, q) /\ ~IsPrefix(dst, q)
  BY <1>3, RenameAt
<1>4. CASE IsPrefix(dst, q)
  BY <1>1, <1>4, NothingBelowFiles
<1> QED  BY <1>2, <1>3, <1>4

-----------------------------------------------------------------------------
(* A FileID names one file                                                 *)

\* No two files of the tree have the same FileID.
Distinct(tree) ==
  \A p, q \in Locations :
    IsFile(tree, p) /\ IsFile(tree, q) /\ tree[p].fileID = tree[q].fileID => p = q

\* Files that stay where they are, or go, stay distinct.
LEMMA FilesInPlaceDistinct ==
  ASSUME NEW tree, NEW tree2, Distinct(tree),
         \A q \in Locations : IsFile(tree2, q) =>
           IsFile(tree, q) /\ tree2[q].fileID = tree[q].fileID
  PROVE  Distinct(tree2)
  BY DEF Distinct

\* So they do when a file comes with an identity that no other has.
LEMMA CreateFileDistinct ==
  ASSUME NEW tree \in [Locations -> Entry], Distinct(tree), NEW p \in Locations,
         NEW id, id \notin LiveIds(tree), NEW size, NEW replicas
  PROVE  Distinct(applyCreateFile(tree, p, id, size, replicas))
<1> DEFINE made == applyCreateFile(tree, p, id, size, replicas)
<1>1. \A q \in Locations :
        made[q] = IF q = p
                    THEN NewFile(IF IsFile(tree, p) THEN tree[p].fileID ELSE id,
                                 size, replicas)
                    ELSE tree[q]
  BY DEF applyCreateFile
<1> HIDE DEF made
<1>2. ASSUME NEW q \in Locations, q # p, IsFile(made, q)
      PROVE  IsFile(tree, q) /\ made[q].fileID = tree[q].fileID
  BY <1>1, <1>2 DEF IsFile
<1>3. made[p].fileID = IF IsFile(tree, p) THEN tree[p].fileID ELSE id
  BY <1>1 DEF NewFile
<1>4. ASSUME NEW q \in Locations, q # p, IsFile(made, q)
      PROVE  made[q].fileID # made[p].fileID
  <2>1. IsFile(tree, q) /\ made[q].fileID = tree[q].fileID
    BY <1>2, <1>4
  <2>2. tree[q].fileID \in LiveIds(tree)
    BY <2>1 DEF LiveIds
  <2>3. CASE IsFile(tree, p)
    BY <1>3, <1>4, <2>1, <2>3 DEF Distinct
  <2>4. CASE ~IsFile(tree, p)
    BY <1>3, <2>1, <2>2, <2>4
  <2> QED  BY <2>3, <2>4
<1>5. Distinct(made)
  <2> SUFFICES ASSUME NEW q \in Locations, NEW r \in Locations,
                      IsFile(made, q), IsFile(made, r),
                      made[q].fileID = made[r].fileID
               PROVE  q = r
    BY DEF Distinct
  <2>1. CASE q = p \/ r = p
    BY <1>4, <2>1
  <2>2. CASE q # p /\ r # p
    BY <1>2, <2>2 DEF Distinct
  <2> QED  BY <2>1, <2>2
<1> QED  BY <1>5 DEF made

\* Where the file that is at q after a rename was before it.
Origin(src, dst, q) == IF IsPrefix(dst, q) THEN MovedFrom(src, dst, q) ELSE q

\* A rename takes no two of its files from one place.
LEMMA RenameOrigins ==
  ASSUME NEW tree \in [Locations -> Entry], NEW src \in Paths, NEW dst \in Paths
  PROVE  LET moved == applyRename(tree, src, dst) IN
         /\ \A q \in Locations : IsFile(moved, q) =>
              /\ Origin(src, dst, q) \in Locations
              /\ moved[q] = tree[Origin(src, dst, q)]
         /\ \A q, r \in Locations :
              /\ IsFile(moved, q) /\ IsFile(moved, r)
              /\ Origin(src, dst, q) = Origin(src, dst, r)
              => q = r
<1> DEFINE moved == applyRename(tree, src, dst)
           from(q) == MovedFrom(src, dst, q)
           origin(q) == IF IsPrefix(dst, q) THEN from(q) ELSE q
<1>1. src \in Seq(Names) /\ dst \in Seq(Names) /\ Locations \subseteq Seq(Names)
  BY LocationFacts
<1>2. ASSUME NEW q \in Locations, IsFile(moved, q)
      PROVE  /\ origin(q) \in Locations /\ moved[q] = tree[origin(q)]
             /\ ~IsPrefix(dst, q) => ~IsPrefix(src, q)
  BY <1>2, RenameAt DEF IsFile, NoEntry, Locations
<1> HIDE DEF moved
<1>3. ASSUME NEW q \in Locations, NEW r \in Locations,
             IsFile(moved, q), IsFile(moved, r), origin(q) = origin(r)
      PROVE  q = r
  <2>1. CASE IsPrefix(dst, q) /\ IsPrefix(dst, r)
    BY <1>1, <1>3, <2>1, MovedFromInjective
  <2>2. CASE IsPrefix(dst, q) /\ ~IsPrefix(dst, r)
    <3>1. IsPrefix(src, from(q))
      BY <1>1, <2>2, MovedFromProperties
    <3> QED  BY <1>2, <1>3, <2>2, <3>1
  <2>3. CASE ~IsPrefix(dst, q) /\ IsPrefix(dst, r)
    <3>1. IsPrefix(src, from(r))
      BY <1>1, <2>3, MovedFromProperties
    <3> QED  BY <1>2, <1>3, <2>3, <3>1
  <2>4. CASE ~IsPrefix(dst, q) /\ ~IsPrefix(dst, r)
    BY <1>3, <2>4
  <2> QED  BY <2>1, <2>2, <2>3, <2>4
<1>4. \A q : origin(q) = Origin(src, dst, q)
  BY DEF Origin
<1> HIDE DEF origin
<1> QED  BY <1>2, <1>3, <1>4 DEF moved

\* So it keeps files distinct.
LEMMA RenameDistinct ==
  ASSUME NEW tree \in [Locations -> Entry], Distinct(tree),
         NEW src \in Paths, NEW dst \in Paths
  PROVE  Distinct(applyRename(tree, src, dst))
<1> DEFINE moved == applyRename(tree, src, dst)
           origin(q) == Origin(src, dst, q)
<1>1. /\ \A q \in Locations : IsFile(moved, q) =>
           origin(q) \in Locations /\ moved[q] = tree[origin(q)]
      /\ \A q, r \in Locations :
           IsFile(moved, q) /\ IsFile(moved, r) /\ origin(q) = origin(r) => q = r
  BY RenameOrigins
<1> HIDE DEF moved, origin
<1> QED  BY <1>1 DEF Distinct, IsFile, moved
=============================================================================
