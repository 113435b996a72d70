---------------------------- MODULE GapLimitProofs ----------------------------
(***************************************************************************)
(* ensureAddressesToGapLimit for any gap and any set of addresses.         *)
(***************************************************************************)
EXTENDS GapLimit, WellFoundedInduction, TLAPS

\* A nonempty set of numbers has a least one.
LEMMA LeastNumber ==
    ASSUME NEW S \in SUBSET Nat, S # {}
    PROVE  \E n \in S : \A m \in S : n <= m
<1> DEFINE R == OpToRel(<, Nat)
<1>1. \A m, n \in Nat : m < n => <<m, n>> \in R
    BY DEF OpToRel
<1>2. IsWellFoundedOn(R, Nat)
    BY NatLessThanWellFounded
<1> HIDE DEF R
<1>3. \E n \in S : \A m \in S : ~ (<<m, n>> \in R)
    BY <1>2, WFMin
<1>4. PICK n \in S : \A m \in S : ~ (<<m, n>> \in R)
    BY <1>3
<1>5. \A m \in S : ~ (m < n)
    BY <1>1, <1>4
<1> QED
    BY <1>5

\* A set of indexes in which every index but 0 has its predecessor has no hole.
LEMMA ContiguousHasNoHole ==
    ASSUME NEW S \in SUBSET Nat, Contiguous(S)
    PROVE  UpTo(S) \subseteq S
<1> SUFFICES ASSUME NEW k \in S, NEW i \in 0..k, i \notin S PROVE FALSE
    BY DEF UpTo
<1> DEFINE distances == {n \in Nat : k - n \in Nat /\ k - n \notin S}
<1>1. k \in Nat /\ i \in Nat /\ k - i \in distances
    BY DEF distances
<1>2. PICK n \in distances : \A m \in distances : n <= m
    BY <1>1, LeastNumber
<1>3. n \in Nat /\ n # 0 /\ k - n \in Nat /\ k - n \notin S
    BY <1>1, <1>2
<1>4. n - 1 \notin distances
    BY <1>2, <1>3
<1>5. k - (n - 1) \in S /\ k - (n - 1) # 0 /\ k - (n - 1) - 1 = k - n
    BY <1>1, <1>3, <1>4
<1> QED
    BY <1>3, <1>5 DEF Contiguous

\* All the indexes up to some number have no hole.
LEMMA UpToIsContiguous ==
    ASSUME NEW S \in SUBSET Int
    PROVE  Contiguous(UpTo(S)) /\ UpTo(S) \in SUBSET Nat
<1>1. UpTo(S) \in SUBSET Nat
    BY DEF UpTo
<1>2. \A i \in UpTo(S) : i = 0 \/ i - 1 \in UpTo(S)
    BY DEF UpTo
<1> QED
    BY <1>1, <1>2 DEF Contiguous

-----------------------------------------------------------------------------
Path == Int \X Types \X Nat

\* When the account's paths have no hole, ensureAddressesToGapLimit leaves
\* every index up to Gap beyond the last used one in the store, whatever the
\* other accounts have there.
THEOREM EnsuredLooksAhead ==
    ASSUME NEW known \in SUBSET Path, NEW used, NEW account,
           PathsContiguous(known, account)
    PROVE  LooksAhead(Ensured(known, used, account), used, account)
<1> SUFFICES ASSUME NEW type \in Types, NEW i \in IndexesNeeded(used, account, type)
             PROVE  <<account, type, i>> \in Ensured(known, used, account)
    BY DEF LooksAhead
<1> DEFINE own == OwnIndexes(known, account, type)
<1>1. own \in SUBSET Nat
    BY DEF OwnIndexes, Path
<1>2. CASE i \in UpTo(own)
    <2>1. Contiguous(own)
        BY DEF PathsContiguous
    <2>2. i \in own
        BY <1>1, <1>2, <2>1, ContiguousHasNoHole
    <2>3. <<account, type, i>> \in known
        BY <2>2 DEF OwnIndexes, Path
    <2> QED
        BY <2>3 DEF Ensured, Filled
<1>3. CASE i \notin UpTo(own)
    <2>1. i \in IndexesToGenerate(known, used, account, type)
        BY <1>3 DEF IndexesToGenerate
    <2> QED
        BY <2>1 DEF Ensured
<1> QED
    BY <1>2, <1>3

\* A set of indexes without holes together with all those up to some number
\* has none.
LEMMA NoHoleInUnion ==
    ASSUME NEW S \in SUBSET Nat, NEW T \in SUBSET Nat, Contiguous(S), Contiguous(T)
    PROVE  Contiguous(S \cup T)
BY DEF Contiguous

\* Deriving addresses for the gap limit of an account makes no hole in its
\* paths, nor in those of another account, when there is none.
THEOREM EnsuredMakesNoHole ==
    ASSUME NEW known \in SUBSET Path, NEW used \in SUBSET Path, NEW account, NEW other,
           \A a : PathsContiguous(known, a)
    PROVE  PathsContiguous(Ensured(known, used, account), other)
<1> SUFFICES ASSUME NEW type \in Types
             PROVE  Contiguous(OwnIndexes(Ensured(known, used, account), other, type))
    BY DEF PathsContiguous
<1> DEFINE all == IndexesOf(known, type)
           own == OwnIndexes(known, other, type)
           generated == IndexesToGenerate(known, used, account, type)
<1>1. all \in SUBSET Nat /\ own \in SUBSET Nat
    BY DEF IndexesOf, OwnIndexes, Path
<1>2. Contiguous(own)
    BY DEF PathsContiguous
<1>3. \A t \in Types : MissingIndexes(IndexesOf(known, t)) = {}
    <2> SUFFICES ASSUME NEW t \in Types PROVE MissingIndexes(IndexesOf(known, t)) = {}
        OBVIOUS
    <2>1. IndexesOf(known, t) \in SUBSET Nat
        BY DEF IndexesOf, Path
    <2>2. Contiguous(IndexesOf(known, t))
        <3> SUFFICES ASSUME NEW i \in IndexesOf(known, t)
                     PROVE  i = 0 \/ i - 1 \in IndexesOf(known, t)
            BY DEF Contiguous
        <3>1. PICK a \in known : a[2] = t /\ a[3] = i
            BY DEF IndexesOf
        <3>2. i \in OwnIndexes(known, a[1], t) /\ Contiguous(OwnIndexes(known, a[1], t))
            BY <3>1 DEF OwnIndexes, PathsContiguous
        <3> QED
            BY <3>2 DEF Contiguous, OwnIndexes, IndexesOf
    <2> QED
        BY <2>1, <2>2, ContiguousHasNoHole DEF MissingIndexes
<1>4. Filled(known, account) = known
    BY <1>3 DEF Filled
<1>5. Ensured(known, used, account) = known
          \cup UNION {{<<account, t, i>> : i \in IndexesToGenerate(known, used, account, t)} :
                          t \in Types}
    BY <1>4 DEF Ensured
<1>6. CASE other # account
    <2>1. OwnIndexes(Ensured(known, used, account), other, type) = own
        BY <1>5, <1>6 DEF OwnIndexes
    <2> QED
        BY <1>2, <2>1
<1>7. CASE other = account
    <2>1. OwnIndexes(Ensured(known, used, account), other, type) = own \cup generated
        <3> DEFINE G == [t \in Types |-> IndexesToGenerate(known, used, account, t)]
                   new == UNION {{<<account, t, i>> : i \in G[t]} : t \in Types}
        <3>1. Ensured(known, used, account) = known \cup new
            BY <1>5
        <3>2. generated = G[type]
            OBVIOUS
        <3> HIDE DEF G
        <3>3. OwnIndexes(new, other, type) = G[type]
            <4>1. \A i : i \in G[type] <=> <<other, type, i>> \in new
                BY <1>7
            <4>2. \A a \in new : a = <<a[1], a[2], a[3]>>
                OBVIOUS
            <4> HIDE DEF new
            <4>3. \A i \in OwnIndexes(new, other, type) : <<other, type, i>> \in new
                BY <4>2 DEF OwnIndexes
            <4>4. \A i : <<other, type, i>> \in new => i \in OwnIndexes(new, other, type)
                <5> SUFFICES ASSUME NEW i, <<other, type, i>> \in new
                             PROVE  i \in OwnIndexes(new, other, type)
                    OBVIOUS
                <5> DEFINE a == <<other, type, i>>
                <5>1. a[1] = other /\ a[2] = type /\ a[3] = i /\ a \in new
                    OBVIOUS
                <5> HIDE DEF a
                <5> QED
                    BY <5>1 DEF OwnIndexes
            <4> QED
                BY <4>1, <4>3, <4>4
        <3>4. OwnIndexes(known \cup new, other, type) =
                  OwnIndexes(known, other, type) \cup OwnIndexes(new, other, type)
            <4> HIDE DEF new
            <4> QED
                BY DEF OwnIndexes
        <3> QED
            BY <3>1, <3>2, <3>3, <3>4
    <2> DEFINE needed == IndexesNeeded(used, account, type)
               bounds == {i + Gap : i \in OwnIndexes(used, account, type) \cup {-1}}
    <2>2. Contiguous(needed) /\ needed \in SUBSET Nat
        <3>1. bounds \in SUBSET Int
            BY GapAssumption DEF OwnIndexes, Path
        <3>2. needed = UpTo(bounds)
            BY DEF IndexesNeeded
        <3> HIDE DEF bounds, needed
        <3> QED
            BY <3>1, <3>2, UpToIsContiguous
    <2>3. UpTo(own) \subseteq own
        BY <1>1, <1>2, ContiguousHasNoHole
    <2>4. own \subseteq UpTo(own)
        BY <1>1 DEF UpTo
    <2>5. own \cup generated = own \cup needed
        BY <1>7, <2>3, <2>4 DEF IndexesToGenerate
    <2> QED
        BY <1>1, <1>2, <2>1, <2>2, <2>5, NoHoleInUnion
<1> QED
    BY <1>6, <1>7
=============================================================================
