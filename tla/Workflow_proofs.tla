--------------------------- MODULE Workflow_proofs ---------------------------
(***************************************************************************)
(* A run tells the truth about what it did, and the history keeps what it  *)
(* was given, for every workflow file, every history and any number of     *)
(* commands at once.                                                       *)
(***************************************************************************)
EXTENDS Workflow, SequenceTheorems, FiniteSetTheorems, WellFoundedInduction, TLAPS

-----------------------------------------------------------------------------
(* Induction over a set of numbers and over a set of sequences.            *)

LEMMA SetOfAllNumbers ==
  ASSUME NEW G \in SUBSET Nat, 0 \in G, \A n \in G : n + 1 \in G
  PROVE  G = Nat
<1> SUFFICES ASSUME Nat \ G # {} PROVE FALSE
  OBVIOUS
<1>1. \E n \in Nat \ G : \A m \in Nat \ G : ~ (<<m, n>> \in OpToRel(<, Nat))
  BY NatLessThanWellFounded, WFMin
<1>2. PICK n \in Nat \ G : \A m \in Nat \ G : ~ (m < n)
  BY <1>1 DEF OpToRel
<1>3. n # 0 /\ n - 1 \in Nat /\ n - 1 < n
  BY <1>2
<1>4. n - 1 \in G
  BY <1>2, <1>3
<1> QED BY <1>2, <1>3, <1>4

LEMMA SetOfAllSequences ==
  ASSUME NEW S, NEW G \in SUBSET Seq(S), <<>> \in G,
         \A s \in G, x \in S : Append(s, x) \in G
  PROVE  G = Seq(S)
<1> DEFINE N == {n \in Nat : \A s \in Seq(S) : Len(s) = n => s \in G}
<1>1. 0 \in N
  BY EmptySeq
<1>2. ASSUME NEW n \in N PROVE n + 1 \in N
  <2> SUFFICES ASSUME NEW s \in Seq(S), Len(s) = n + 1 PROVE s \in G
    OBVIOUS
  <2>0. s # <<>>
    BY EmptySeq
  <2>1. PICK t \in Seq(S), x \in S : s = Append(t, x)
    BY <2>0, SequenceEmptyOrAppend
  <2>2. Len(t) = n
    BY <2>1, AppendProperties
  <2> QED BY <2>1, <2>2
<1>3. N = Nat
  <2> HIDE DEF N
  <2>1. N \in SUBSET Nat
    BY DEF N
  <2> QED BY <1>1, <1>2, <2>1, SetOfAllNumbers
<1> QED BY <1>3, LenProperties

-----------------------------------------------------------------------------
(* What the loops of the history find.                                     *)

IsFound(runs, which, found) ==
  found = [i \in 0..Len(runs) |->
             IF i = 0 THEN <<>>
             ELSE IF runs[i] \in which THEN Append(found[i - 1], runs[i])
             ELSE found[i - 1]]

LEMMA ThoseOf ==
  ASSUME NEW runs, NEW which
  PROVE  Those(runs, which) = (CHOOSE found : IsFound(runs, which, found))[Len(runs)]
BY Zenon DEF Those, IsFound

\* A loop over more runs does the same over the first of them.
LEMMA LoopGoesOn ==
  ASSUME NEW S, NEW s \in Seq(S), NEW x \in S, NEW which, NEW f,
         IsFound(s, which, f)
  PROVE  LET n == Len(s)
             next == IF x \in which THEN Append(f[n], x) ELSE f[n]
         IN IsFound(Append(s, x), which, [i \in 0..(n + 1) |-> IF i = n + 1 THEN next ELSE f[i]])
<1> DEFINE n == Len(s)
           t == Append(s, x)
           next == IF x \in which THEN Append(f[n], x) ELSE f[n]
           g == [i \in 0..(n + 1) |-> IF i = n + 1 THEN next ELSE f[i]]
<1>1. n \in Nat /\ Len(t) = n + 1 /\ t[n + 1] = x /\ \A i \in 1..n : t[i] = s[i]
  BY AppendProperties
<1>2. \A i \in 0..n : f[i] = IF i = 0 THEN <<>>
                             ELSE IF s[i] \in which THEN Append(f[i - 1], s[i]) ELSE f[i - 1]
  BY <1>1 DEF IsFound
<1>3. ASSUME NEW i \in 0..(n + 1)
      PROVE  g[i] = IF i = 0 THEN <<>>
                    ELSE IF t[i] \in which THEN Append(g[i - 1], t[i]) ELSE g[i - 1]
  <2>1. CASE i = n + 1
    BY <1>1, <2>1
  <2>2. CASE i = 0
    BY <1>1, <1>2, <2>2
  <2>3. CASE i \in 1..n
    <3>1. g[i] = f[i] /\ g[i - 1] = f[i - 1]
      BY <1>1, <2>3
    <3> QED BY <1>1, <1>2, <2>3, <3>1
  <2> QED BY <1>1, <2>1, <2>2, <2>3
<1>4. g = [i \in 0..Len(t) |-> IF i = 0 THEN <<>>
                    ELSE IF t[i] \in which THEN Append(g[i - 1], t[i]) ELSE g[i - 1]]
  BY <1>1, <1>3
<1> QED BY <1>4 DEF IsFound

LEMMA LoopEnds ==
  ASSUME NEW S, NEW which
  PROVE  \A s \in Seq(S) : \E f : IsFound(s, which, f)
<1> DEFINE G == {s \in Seq(S) : \E f : IsFound(s, which, f)}
<1>1. <<>> \in G
  <2>1. IsFound(<<>>, which, [i \in 0..0 |-> <<>>])
    BY EmptySeq DEF IsFound
  <2> QED BY <2>1, EmptySeq
<1>2. \A s \in G, x \in S : Append(s, x) \in G
  BY LoopGoesOn, AppendProperties, Zenon
<1>3. G = Seq(S)
  <2> HIDE DEF G
  <2>1. G \in SUBSET Seq(S)
    BY DEF G
  <2> QED BY <1>1, <1>2, <2>1, SetOfAllSequences
<1> QED BY <1>3

\* What a loop has found after the same runs does not depend on the rest.
LEMMA LoopsAgree ==
  ASSUME NEW S, NEW s \in Seq(S), NEW t \in Seq(S), NEW which, NEW f, NEW g,
         NEW n \in Nat, n <= Len(s), n <= Len(t), \A i \in 1..n : s[i] = t[i],
         IsFound(s, which, f), IsFound(t, which, g)
  PROVE  f[n] = g[n]
<1> DEFINE G == {k \in Nat : k <= n => f[k] = g[k]}
<1>1. Len(s) \in Nat /\ Len(t) \in Nat
  BY LenProperties
<1>2. \A i \in 0..n : /\ f[i] = IF i = 0 THEN <<>>
                                ELSE IF s[i] \in which THEN Append(f[i - 1], s[i]) ELSE f[i - 1]
                      /\ g[i] = IF i = 0 THEN <<>>
                                ELSE IF t[i] \in which THEN Append(g[i - 1], t[i]) ELSE g[i - 1]
  <2> SUFFICES ASSUME NEW i \in 0..n
               PROVE  /\ f[i] = IF i = 0 THEN <<>>
                                ELSE IF s[i] \in which THEN Append(f[i - 1], s[i]) ELSE f[i - 1]
                      /\ g[i] = IF i = 0 THEN <<>>
                                ELSE IF t[i] \in which THEN Append(g[i - 1], t[i]) ELSE g[i - 1]
    OBVIOUS
  <2>1. i \in 0..Len(s) /\ i \in 0..Len(t)
    BY <1>1
  <2> QED BY <2>1 DEF IsFound
<1>3. 0 \in G
  BY <1>2
<1>4. ASSUME NEW k \in G PROVE k + 1 \in G
  <2> SUFFICES ASSUME k + 1 <= n PROVE f[k + 1] = g[k + 1]
    OBVIOUS
  <2>1. f[k] = g[k] /\ k + 1 \in 1..n /\ (k + 1) - 1 = k
    OBVIOUS
  <2> QED BY <1>2, <2>1
<1>5. G = Nat
  <2> HIDE DEF G
  <2>1. G \in SUBSET Nat
    BY DEF G
  <2> QED BY <1>3, <1>4, <2>1, SetOfAllNumbers
<1> QED BY <1>5

LEMMA ThoseAreFound ==
  ASSUME NEW S, NEW s \in Seq(S), NEW which
  PROVE  \E f : IsFound(s, which, f) /\ Those(s, which) = f[Len(s)]
<1> DEFINE f == CHOOSE found : IsFound(s, which, found)
<1>1. IsFound(s, which, f)
  BY LoopEnds
<1>2. Those(s, which) = f[Len(s)]
  BY ThoseOf
<1> QED BY <1>1, <1>2

LEMMA ThoseOfNone == ASSUME NEW which PROVE Those(<<>>, which) = <<>>
<1>1. PICK f : IsFound(<<>>, which, f) /\ Those(<<>>, which) = f[Len(<<>>)]
  BY ThoseAreFound, EmptySeq
<1> QED BY <1>1, EmptySeq DEF IsFound

\* One run more is found or left out.
LEMMA ThoseOfAppend ==
  ASSUME NEW S, NEW s \in Seq(S), NEW x \in S, NEW which
  PROVE  Those(Append(s, x), which) =
           IF x \in which THEN Append(Those(s, which), x) ELSE Those(s, which)
<1> DEFINE n == Len(s)
<1>1. PICK t \in Seq(S) : t = Append(s, x)
  BY AppendProperties
<1>2. n \in Nat /\ Len(t) = n + 1 /\ t[n + 1] = x /\ \A i \in 1..n : t[i] = s[i]
  BY <1>1, AppendProperties
<1>3. PICK f : IsFound(s, which, f) /\ Those(s, which) = f[n]
  BY ThoseAreFound
<1>4. PICK g : IsFound(t, which, g) /\ Those(t, which) = g[n + 1]
  BY <1>2, ThoseAreFound
<1>5. f[n] = g[n]
  <2>1. n \in Nat /\ n <= Len(s) /\ n <= Len(t) /\ \A i \in 1..n : s[i] = t[i]
    BY <1>2
  <2>2. IsFound(s, which, f) /\ IsFound(t, which, g)
    BY <1>3, <1>4
  <2> HIDE DEF n
  <2> QED BY <2>1, <2>2, LoopsAgree, SMTT(30)
<1>6. g[n + 1] = IF t[n + 1] \in which THEN Append(g[n], t[n + 1]) ELSE g[n]
  <2>1. n + 1 \in 0..Len(t) /\ n + 1 # 0 /\ (n + 1) - 1 = n
    BY <1>2
  <2> QED BY <1>4, <2>1 DEF IsFound
<1> QED BY <1>1, <1>2, <1>3, <1>4, <1>5, <1>6

LEMMA ToSetOfAppend ==
  ASSUME NEW S, NEW s \in Seq(S), NEW x \in S
  PROVE  ToSet(Append(s, x)) = ToSet(s) \union {x}
<1>1. PICK t \in Seq(S) : t = Append(s, x)
  BY AppendProperties
<1>2. /\ Len(s) \in Nat /\ DOMAIN s = 1..Len(s) /\ DOMAIN t = 1..(Len(s) + 1)
      /\ t[Len(s) + 1] = x /\ \A i \in 1..Len(s) : t[i] = s[i]
  BY <1>1, AppendProperties, LenProperties
<1>3. {t[i] : i \in 1..(Len(s) + 1)} = {s[i] : i \in 1..Len(s)} \union {x}
  BY <1>2
<1> QED BY <1>1, <1>2, <1>3 DEF ToSet

LEMMA ToSetOfNone == ToSet(<<>>) = {}
BY DEF ToSet

\* A loop finds runs of the ones it reads: those it looks for, and no others.
LEMMA ThoseAreTheOnes ==
  ASSUME NEW S, NEW which
  PROVE  \A s \in Seq(S) : /\ Those(s, which) \in Seq(S)
                           /\ ToSet(Those(s, which)) = ToSet(s) \intersect which
<1> DEFINE G == {s \in Seq(S) : /\ Those(s, which) \in Seq(S)
                                /\ ToSet(Those(s, which)) = ToSet(s) \intersect which}
<1>1. <<>> \in G
  BY ThoseOfNone, ToSetOfNone, EmptySeq
<1>2. ASSUME NEW s \in G, NEW x \in S PROVE Append(s, x) \in G
  <2>1. /\ Append(s, x) \in Seq(S) /\ ToSet(Append(s, x)) = ToSet(s) \union {x}
        /\ Those(Append(s, x), which) =
             IF x \in which THEN Append(Those(s, which), x) ELSE Those(s, which)
    BY AppendProperties, ToSetOfAppend, ThoseOfAppend
  <2>2. CASE x \in which
    <3>1. ToSet(Append(Those(s, which), x)) = ToSet(Those(s, which)) \union {x}
      BY ToSetOfAppend
    <3>2. Append(Those(s, which), x) \in Seq(S)
      BY AppendProperties
    <3> QED BY <2>1, <2>2, <3>1, <3>2
  <2>3. CASE x \notin which
    BY <2>1, <2>3
  <2> QED BY <2>2, <2>3
<1>3. G = Seq(S)
  <2> HIDE DEF G
  <2>1. G \in SUBSET Seq(S)
    BY DEF G
  <2> QED BY <1>1, <1>2, <2>1, SetOfAllSequences
<1> QED BY <1>3

\* Every run is found by one of two loops that look for opposite things.
LEMMA ThoseAndTheOthers ==
  ASSUME NEW S, NEW which, NEW others,
         \A x \in S : (x \in which) <=> (x \notin others)
  PROVE  \A s \in Seq(S) : Len(Those(s, which)) + Len(Those(s, others)) = Len(s)
<1> DEFINE G == {s \in Seq(S) : Len(Those(s, which)) + Len(Those(s, others)) = Len(s)}
<1>1. <<>> \in G
  BY ThoseOfNone, EmptySeq
<1>2. ASSUME NEW s \in G, NEW x \in S PROVE Append(s, x) \in G
  <2>1. /\ Append(s, x) \in Seq(S) /\ Len(Append(s, x)) = Len(s) + 1 /\ Len(s) \in Nat
        /\ Those(Append(s, x), which) =
             IF x \in which THEN Append(Those(s, which), x) ELSE Those(s, which)
        /\ Those(Append(s, x), others) =
             IF x \in others THEN Append(Those(s, others), x) ELSE Those(s, others)
    BY AppendProperties, LenProperties, ThoseOfAppend
  <2>2. /\ Those(s, which) \in Seq(S) /\ Those(s, others) \in Seq(S)
    BY ThoseAreTheOnes
  <2>3. /\ Len(Those(s, which)) \in Nat /\ Len(Append(Those(s, which), x)) = Len(Those(s, which)) + 1
        /\ Len(Those(s, others)) \in Nat /\ Len(Append(Those(s, others), x)) = Len(Those(s, others)) + 1
    BY <2>2, LenProperties, AppendProperties
  <2> QED BY <2>1, <2>3
<1>3. G = Seq(S)
  <2> HIDE DEF G
  <2>1. G \in SUBSET Seq(S)
    BY DEF G
  <2> QED BY <1>1, <1>2, <2>1, SetOfAllSequences
<1> QED BY <1>3

LEMMA ThoseAreNoMore ==
  ASSUME NEW S, NEW s \in Seq(S), NEW which
  PROVE  Len(Those(s, which)) <= Len(s)
<1>1. Len(Those(s, which)) + Len(Those(s, S \ which)) = Len(s)
  BY ThoseAndTheOthers
<1>2. Those(s, which) \in Seq(S) /\ Those(s, S \ which) \in Seq(S)
  BY ThoseAreTheOnes
<1> QED BY <1>1, <1>2, LenProperties

\* What a loop looks for matters only among the runs it reads.
LEMMA ThoseDependOnTheRuns ==
  ASSUME NEW S, NEW which, NEW others
  PROVE  \A s \in Seq(S) : ToSet(s) \intersect which = ToSet(s) \intersect others
                             => Those(s, which) = Those(s, others)
<1> DEFINE G == {s \in Seq(S) : ToSet(s) \intersect which = ToSet(s) \intersect others
                                  => Those(s, which) = Those(s, others)}
<1>1. <<>> \in G
  BY ThoseOfNone, EmptySeq
<1>2. ASSUME NEW s \in G, NEW x \in S PROVE Append(s, x) \in G
  <2>1. /\ Append(s, x) \in Seq(S) /\ ToSet(Append(s, x)) = ToSet(s) \union {x}
        /\ Those(Append(s, x), which) =
             IF x \in which THEN Append(Those(s, which), x) ELSE Those(s, which)
        /\ Those(Append(s, x), others) =
             IF x \in others THEN Append(Those(s, others), x) ELSE Those(s, others)
    BY AppendProperties, ToSetOfAppend, ThoseOfAppend
  <2>2. ASSUME ToSet(Append(s, x)) \intersect which = ToSet(Append(s, x)) \intersect others
        PROVE  (x \in which <=> x \in others)
                 /\ ToSet(s) \intersect which = ToSet(s) \intersect others
    BY <2>1, <2>2
  <2> QED BY <2>1, <2>2
<1>3. G = Seq(S)
  <2> HIDE DEF G
  <2>1. G \in SUBSET Seq(S)
    BY DEF G
  <2> QED BY <1>1, <1>2, <2>1, SetOfAllSequences
<1> QED BY <1>3

-----------------------------------------------------------------------------
(* Newest first and oldest first.                                          *)

LEMMA ReverseProperties ==
  ASSUME NEW S, NEW s \in Seq(S)
  PROVE  /\ Reverse(s) \in Seq(S)
         /\ Len(Reverse(s)) = Len(s)
         /\ \A i \in 1..Len(s) : Reverse(s)[i] = s[Len(s) - i + 1]
<1>1. Len(s) \in Nat
  BY LenProperties
<1>2. \A i \in 1..Len(s) : s[Len(s) - i + 1] \in S
  BY <1>1, ElementOfSeq
<1> QED BY <1>1, <1>2 DEF Reverse

LEMMA ReverseTwice ==
  ASSUME NEW S, NEW s \in Seq(S)
  PROVE  Reverse(Reverse(s)) = s
<1>1. PICK t \in Seq(S) : t = Reverse(s)
  BY ReverseProperties
<1>2. Len(t) = Len(s) /\ Len(s) \in Nat /\ \A i \in 1..Len(s) : t[i] = s[Len(s) - i + 1]
  BY <1>1, ReverseProperties, LenProperties
<1>3. PICK u \in Seq(S) : u = Reverse(t)
  BY ReverseProperties
<1>4. Len(u) = Len(s) /\ \A i \in 1..Len(s) : u[i] = t[Len(s) - i + 1]
  BY <1>2, <1>3, ReverseProperties
<1>5. ASSUME NEW i \in 1..Len(s) PROVE u[i] = s[i]
  <2> DEFINE j == Len(s) - i + 1
  <2>1. j \in 1..Len(s) /\ Len(s) - j + 1 = i
    BY <1>2
  <2>2. u[i] = t[j]
    BY <1>4
  <2>3. t[j] = s[Len(s) - j + 1]
    BY <1>2, <2>1
  <2> QED BY <2>1, <2>2, <2>3
<1>6. u = s
  BY <1>4, <1>5, SeqEqual
<1> QED BY <1>1, <1>3, <1>6

LEMMA SeqOfOne ==
  ASSUME NEW S, NEW x \in S
  PROVE  /\ <<x>> \in Seq(S) /\ Len(<<x>>) = 1 /\ <<x>>[1] = x
         /\ <<x>> = Append(<<>>, x) /\ <<x>> \o <<>> = <<x>>
<1>1. <<x>> \in Seq(S) /\ Len(<<x>>) = 1 /\ <<x>>[1] = x /\ <<x>> = Append(<<>>, x)
  OBVIOUS
<1> QED BY <1>1, ConcatEmptySeq

LEMMA ReverseOfAppend ==
  ASSUME NEW S, NEW s \in Seq(S), NEW x \in S
  PROVE  Reverse(Append(s, x)) = <<x>> \o Reverse(s)
<1> DEFINE n == Len(s)
<1>1. PICK t \in Seq(S) : t = Append(s, x)
  BY AppendProperties
<1>2. n \in Nat /\ Len(t) = n + 1 /\ t[n + 1] = x /\ \A i \in 1..n : t[i] = s[i]
  BY <1>1, AppendProperties, LenProperties
<1>3. PICK r \in Seq(S) : r = Reverse(s)
  BY ReverseProperties
<1>4. Len(r) = n /\ \A i \in 1..n : r[i] = s[n - i + 1]
  BY <1>3, ReverseProperties
<1>5. PICK u \in Seq(S) : u = Reverse(t)
  BY ReverseProperties
<1>6. Len(u) = n + 1 /\ \A i \in 1..(n + 1) : u[i] = t[n + 1 - i + 1]
  BY <1>2, <1>5, ReverseProperties
<1>7. PICK o \in Seq(S) : o = <<x>> /\ Len(o) = 1 /\ o[1] = x
  BY SeqOfOne
<1>8. PICK v \in Seq(S) : v = o \o r
  BY ConcatProperties
<1>9. Len(v) = 1 + n /\ \A i \in 1..(1 + n) : v[i] = IF i <= 1 THEN o[i] ELSE r[i - 1]
  BY <1>4, <1>7, <1>8, ConcatProperties
<1>10. ASSUME NEW i \in 1..(n + 1) PROVE u[i] = v[i]
  <2> HIDE DEF n
  <2>0. u[i] = t[n + 1 - i + 1]
    BY <1>6
  <2>1. CASE i = 1
    <3>1. n + 1 - i + 1 = n + 1 /\ v[1] = o[1]
      BY <1>2, <1>9, <2>1
    <3> QED BY <1>2, <1>7, <2>0, <2>1, <3>1
  <2>2. CASE i # 1
    <3> DEFINE j == n - (i - 1) + 1
    <3>1. i - 1 \in 1..n /\ j \in 1..n /\ n + 1 - i + 1 = j /\ ~ (i <= 1) /\ i \in 1..(1 + n)
      BY <1>2, <2>2
    <3>2. v[i] = r[i - 1] /\ r[i - 1] = s[j]
      BY <1>4, <1>9, <3>1
    <3>3. t[j] = s[j]
      BY <1>2, <3>1
    <3> QED BY <2>0, <3>1, <3>2, <3>3
  <2> QED BY <2>1, <2>2
<1>11. u = v
  <2>1. Len(u) = Len(v) /\ \A i \in 1..Len(u) : u[i] = v[i]
    BY <1>2, <1>6, <1>9, <1>10
  <2> QED BY <2>1, SeqEqual
<1> QED BY <1>1, <1>3, <1>5, <1>7, <1>8, <1>11

LEMMA ReverseOfPrepend ==
  ASSUME NEW S, NEW s \in Seq(S), NEW x \in S
  PROVE  Reverse(<<x>> \o s) = Append(Reverse(s), x)
<1>1. PICK r \in Seq(S) : r = Reverse(s) /\ Reverse(r) = s
  BY ReverseProperties, ReverseTwice
<1>2. Append(r, x) \in Seq(S) /\ Reverse(Append(r, x)) = <<x>> \o s
  BY <1>1, ReverseOfAppend, AppendProperties
<1>3. Reverse(Reverse(Append(r, x))) = Append(r, x)
  BY <1>2, ReverseTwice
<1> QED BY <1>1, <1>2, <1>3

LEMMA ToSetOfReverse ==
  ASSUME NEW S, NEW s \in Seq(S)
  PROVE  ToSet(Reverse(s)) = ToSet(s)
<1>1. PICK t \in Seq(S) : t = Reverse(s)
  BY ReverseProperties
<1>2. /\ Len(s) \in Nat /\ DOMAIN s = 1..Len(s) /\ DOMAIN t = 1..Len(s)
      /\ \A i \in 1..Len(s) : t[i] = s[Len(s) - i + 1]
  BY <1>1, ReverseProperties, LenProperties
<1>3. \A i \in 1..Len(s) : Len(s) - i + 1 \in 1..Len(s) /\ t[Len(s) - i + 1] = s[i]
  BY <1>2
<1>4. {t[i] : i \in 1..Len(s)} = {s[i] : i \in 1..Len(s)}
  BY <1>2, <1>3
<1> QED BY <1>1, <1>2, <1>4 DEF ToSet

LEMMA ThoseOfPrepend ==
  ASSUME NEW S, NEW x \in S, NEW which
  PROVE  \A s \in Seq(S) : Those(<<x>> \o s, which) =
           IF x \in which THEN <<x>> \o Those(s, which) ELSE Those(s, which)
<1> DEFINE P(s) == Those(<<x>> \o s, which) =
                     IF x \in which THEN <<x>> \o Those(s, which) ELSE Those(s, which)
           G == {s \in Seq(S) : P(s)}
<1>1. <<>> \in G
  <2>1. /\ <<x>> \in Seq(S) /\ <<>> \in Seq(S) /\ <<x>> \o <<>> = <<x>> /\ Append(<<>>, x) = <<x>>
    BY EmptySeq, SeqOfOne
  <2>2. Those(Append(<<>>, x), which) =
          IF x \in which THEN Append(Those(<<>>, which), x) ELSE Those(<<>>, which)
    BY <2>1, ThoseOfAppend
  <2> QED BY <2>1, <2>2, ThoseOfNone
<1>2. ASSUME NEW s \in G, NEW y \in S PROVE Append(s, y) \in G
  <2>1. Append(s, y) \in Seq(S) /\ <<x>> \in Seq(S) /\ <<x>> \o s \in Seq(S)
    BY AppendProperties, ConcatProperties
  <2>2. <<x>> \o Append(s, y) = Append(<<x>> \o s, y)
    <3>1. Append(s, y) = s \o <<y>> /\ Append(<<x>> \o s, y) = (<<x>> \o s) \o <<y>>
      BY <2>1, AppendIsConcat
    <3>2. <<y>> \in Seq(S)
      OBVIOUS
    <3> QED BY <2>1, <3>1, <3>2, ConcatAssociative
  <2>3. Those(s, which) \in Seq(S)
    BY ThoseAreTheOnes
  <2>4. <<x>> \o Append(Those(s, which), y) = Append(<<x>> \o Those(s, which), y)
    <3>1. <<x>> \o Those(s, which) \in Seq(S)
      BY <2>1, <2>3, ConcatProperties
    <3>2. /\ Append(Those(s, which), y) = Those(s, which) \o <<y>>
          /\ Append(<<x>> \o Those(s, which), y) = (<<x>> \o Those(s, which)) \o <<y>>
      BY <2>3, <3>1, AppendIsConcat
    <3>3. <<y>> \in Seq(S)
      OBVIOUS
    <3> QED BY <2>1, <2>3, <3>2, <3>3, ConcatAssociative
  <2>5. Those(Append(<<x>> \o s, y), which) =
          IF y \in which THEN Append(Those(<<x>> \o s, which), y) ELSE Those(<<x>> \o s, which)
    <3>1. PICK u \in Seq(S) : u = <<x>> \o s
      BY <2>1
    <3>2. Those(Append(u, y), which) = IF y \in which THEN Append(Those(u, which), y) ELSE Those(u, which)
      BY ThoseOfAppend
    <3> QED BY <3>1, <3>2
  <2>6. Those(Append(s, y), which) =
          IF y \in which THEN Append(Those(s, which), y) ELSE Those(s, which)
    BY ThoseOfAppend
  <2>7. P(s)
    OBVIOUS
  <2>8. P(Append(s, y))
    BY <2>2, <2>4, <2>5, <2>6, <2>7, Zenon
  <2> QED BY <2>1, <2>8
<1>3. G = Seq(S)
  <2> HIDE DEF G
  <2>1. G \in SUBSET Seq(S)
    BY DEF G
  <2> QED BY <1>1, <1>2, <2>1, SetOfAllSequences
<1> QED BY <1>3

LEMMA ThoseOfReverse ==
  ASSUME NEW S, NEW which
  PROVE  \A s \in Seq(S) : Those(Reverse(s), which) = Reverse(Those(s, which))
<1> DEFINE G == {s \in Seq(S) : Those(Reverse(s), which) = Reverse(Those(s, which))}
<1>1. <<>> \in G
  <2>1. <<>> \in Seq(S) /\ Len(<<>>) = 0
    BY EmptySeq
  <2>2. Reverse(<<>>) \in Seq(S) /\ Len(Reverse(<<>>)) = 0
    BY <2>1, ReverseProperties
  <2>3. Reverse(<<>>) = <<>>
    BY <2>2, EmptySeq
  <2> QED BY <2>1, <2>3, ThoseOfNone
<1>2. ASSUME NEW s \in G, NEW x \in S PROVE Append(s, x) \in G
  <2>1. Append(s, x) \in Seq(S) /\ Reverse(s) \in Seq(S) /\ Those(s, which) \in Seq(S)
    BY AppendProperties, ReverseProperties, ThoseAreTheOnes
  <2>2. Those(Reverse(Append(s, x)), which) =
          IF x \in which THEN <<x>> \o Reverse(Those(s, which)) ELSE Reverse(Those(s, which))
    <3>1. PICK r \in Seq(S) : r = Reverse(s)
      BY <2>1
    <3>2. Those(<<x>> \o r, which) = IF x \in which THEN <<x>> \o Those(r, which) ELSE Those(r, which)
      BY ThoseOfPrepend
    <3>3. Reverse(Append(s, x)) = <<x>> \o r
      BY <3>1, ReverseOfAppend
    <3>4. Those(r, which) = Reverse(Those(s, which))
      BY <3>1
    <3> QED BY <3>2, <3>3, <3>4, Zenon
  <2>3. Reverse(Append(Those(s, which), x)) = <<x>> \o Reverse(Those(s, which))
    BY <2>1, ReverseOfAppend
  <2>4. Those(Append(s, x), which) =
          IF x \in which THEN Append(Those(s, which), x) ELSE Those(s, which)
    BY ThoseOfAppend
  <2>5. Those(Reverse(Append(s, x)), which) = Reverse(Those(Append(s, x), which))
    BY <2>2, <2>3, <2>4, Zenon
  <2> QED BY <2>1, <2>5
<1>3. G = Seq(S)
  <2> HIDE DEF G
  <2>1. G \in SUBSET Seq(S)
    BY DEF G
  <2> QED BY <1>1, <1>2, <2>1, SetOfAllSequences
<1> QED BY <1>3

-----------------------------------------------------------------------------
(* What a command writes is what it promised.                              *)

LEMMA NewestProperties ==
  ASSUME NEW S, NEW s \in Seq(S), NEW n \in Nat
  PROVE  /\ Newest(n, s) \in Seq(S)
         /\ Len(Newest(n, s)) = IF Len(s) > n THEN n ELSE Len(s)
         /\ \A i \in 1..Len(Newest(n, s)) : Newest(n, s)[i] = s[i]
<1>1. Len(s) \in Nat
  BY LenProperties
<1>2. CASE Len(s) > n
  <2>1. \A i \in 1..n : s[i] \in S
    BY <1>1, <1>2, ElementOfSeq
  <2>2. /\ SubSeq(s, 1, n) \in Seq(S)
        /\ Len(SubSeq(s, 1, n)) = IF 1 <= n THEN n - 1 + 1 ELSE 0
        /\ \A i \in 1..(n - 1 + 1) : SubSeq(s, 1, n)[i] = s[1 + i - 1]
    BY <2>1, SubSeqProperties
  <2> QED BY <1>1, <1>2, <2>2 DEF Newest
<1>3. CASE ~ (Len(s) > n)
  BY <1>1, <1>3 DEF Newest
<1> QED BY <1>2, <1>3

LEMMA LatestProperties ==
  ASSUME NEW S, NEW s \in Seq(S), NEW n \in Nat
  PROVE  LET from == IF Len(s) > n THEN Len(s) - n + 1 ELSE 1
         IN /\ Latest(n, s) \in Seq(S)
            /\ Len(Latest(n, s)) = IF Len(s) > n THEN n ELSE Len(s)
            /\ \A i \in 1..Len(Latest(n, s)) : Latest(n, s)[i] = s[from + i - 1]
<1> DEFINE len == Len(s)
           from == IF len > n THEN len - n + 1 ELSE 1
<1>1. len \in Nat /\ from \in Int /\ from >= 1
  BY LenProperties
<1>2. \A i \in from..len : s[i] \in S
  BY <1>1, ElementOfSeq
<1>3. /\ SubSeq(s, from, len) \in Seq(S)
      /\ Len(SubSeq(s, from, len)) = IF from <= len THEN len - from + 1 ELSE 0
      /\ \A i \in 1..(len - from + 1) : SubSeq(s, from, len)[i] = s[from + i - 1]
  BY <1>1, <1>2, SubSeqProperties
<1>4. Latest(n, s) = SubSeq(s, from, len)
  BY DEF Latest
<1>5. len - from + 1 = IF len > n THEN n ELSE len
  <2> HIDE DEF len
  <2> QED BY <1>1
<1>6. Len(SubSeq(s, from, len)) = len - from + 1
  <2>1. len - from + 1 >= 0 /\ (from <= len \/ len - from + 1 = 0)
    BY <1>1, <1>5
  <2> QED BY <1>1, <1>3, <2>1
<1> HIDE DEF from
<1>7. /\ Latest(n, s) \in Seq(S)
      /\ Len(Latest(n, s)) = IF len > n THEN n ELSE len
      /\ \A i \in 1..Len(Latest(n, s)) : Latest(n, s)[i] = s[from + i - 1]
  BY <1>1, <1>3, <1>4, <1>5, <1>6
<1> QED BY <1>7 DEF from

LEMMA ReverseOfNewest ==
  ASSUME NEW S, NEW s \in Seq(S), NEW n \in Nat
  PROVE  Reverse(Newest(n, s)) = Latest(n, Reverse(s))
<1> DEFINE len == Len(s)
           m == IF len > n THEN n ELSE len
           from == IF len > n THEN len - n + 1 ELSE 1
<1>1. len \in Nat
  BY LenProperties
<1>2. PICK t \in Seq(S) : t = Newest(n, s)
  BY NewestProperties
<1>3. Len(t) = m /\ \A i \in 1..m : t[i] = s[i]
  BY <1>2, NewestProperties
<1>4. PICK u \in Seq(S) : u = Reverse(t)
  BY ReverseProperties
<1>5. Len(u) = m /\ \A i \in 1..m : u[i] = t[m - i + 1]
  <2>1. Len(u) = Len(t) /\ \A i \in 1..Len(t) : u[i] = t[Len(t) - i + 1]
    BY <1>4, ReverseProperties
  <2>2. Len(t) = m
    BY <1>3
  <2> HIDE DEF m
  <2> QED BY <2>1, <2>2
<1>6. PICK r \in Seq(S) : r = Reverse(s)
  BY ReverseProperties
<1>7. Len(r) = len /\ \A i \in 1..len : r[i] = s[len - i + 1]
  BY <1>6, ReverseProperties, Zenon
<1>8. PICK v \in Seq(S) : v = Latest(n, r)
  BY LatestProperties
<1>9. Len(v) = m /\ \A i \in 1..m : v[i] = r[from + i - 1]
  <2> DEFINE k == Len(r)
             start == IF k > n THEN k - n + 1 ELSE 1
  <2>1. /\ Len(v) = IF k > n THEN n ELSE k
        /\ \A i \in 1..Len(v) : v[i] = r[start + i - 1]
    BY <1>8, LatestProperties
  <2>2. k = len
    BY <1>7
  <2> QED BY <2>1, <2>2
<1>10. ASSUME NEW i \in 1..m PROVE u[i] = v[i]
  <2> HIDE DEF len
  <2>1. /\ m - i + 1 \in 1..m /\ from + i - 1 \in 1..len
        /\ len - (from + i - 1) + 1 = m - i + 1
    BY <1>1
  <2>2. u[i] = s[m - i + 1]
    BY <1>3, <1>5, <2>1
  <2>3. v[i] = s[len - (from + i - 1) + 1]
    BY <1>7, <1>9, <2>1
  <2> QED BY <2>1, <2>2, <2>3
<1>11. u = v
  <2> HIDE DEF m
  <2>1. Len(u) = Len(v) /\ \A i \in 1..Len(u) : u[i] = v[i]
    BY <1>5, <1>9, <1>10
  <2> QED BY <2>1, SeqEqual
<1> QED BY <1>2, <1>4, <1>6, <1>8, <1>11

LEMMA StaysIsNoMatch ==
  ASSUME NEW r, NEW f
  PROVE  Stays(r, f) <=> ~ RunMatchesFilters(r, f)
BY DEF Stays, RunMatchesFilters

LEMMA RecordedIsPromised ==
  ASSUME NEW runs \in Seq(Runs), NEW run \in Runs
  PROVE  /\ Record(run, runs) \in Seq(Runs) /\ Len(Record(run, runs)) <= MaxRuns
         /\ Reverse(Record(run, runs)) = Latest(MaxRuns, Append(Reverse(runs), run))
<1>1. PICK s \in Seq(Runs) : s = <<run>> \o runs /\ Reverse(s) = Append(Reverse(runs), run)
  BY SeqOfOne, ConcatProperties, ReverseOfPrepend
<1>2. MaxRuns \in Nat /\ Len(s) \in Nat
  BY MaxRunsAssumption, LenProperties
<1>3. /\ Newest(MaxRuns, s) \in Seq(Runs) /\ Len(Newest(MaxRuns, s)) <= MaxRuns
      /\ Reverse(Newest(MaxRuns, s)) = Latest(MaxRuns, Reverse(s))
  <2>1. Len(Newest(MaxRuns, s)) = IF Len(s) > MaxRuns THEN MaxRuns ELSE Len(s)
    BY <1>2, NewestProperties
  <2>2. Newest(MaxRuns, s) \in Seq(Runs) /\ Reverse(Newest(MaxRuns, s)) = Latest(MaxRuns, Reverse(s))
    BY <1>2, NewestProperties, ReverseOfNewest
  <2> QED BY <1>2, <2>1, <2>2
<1> QED BY <1>1, <1>3 DEF Record

LEMMA PrunedIsPromised ==
  ASSUME NEW runs \in Seq(Runs), NEW c, c.keep \in Nat \union {NoKeep}
  PROVE  /\ PruneHistory(runs, c) \in Seq(Runs) /\ Len(PruneHistory(runs, c)) <= Len(runs)
         /\ Reverse(PruneHistory(runs, c)) =
              IF c.keep # NoKeep THEN Latest(c.keep, Reverse(runs))
              ELSE Those(Reverse(runs), {r \in ToSet(Reverse(runs)) : Stays(r, c.filter)})
<1>1. CASE c.keep # NoKeep
  <2>1. c.keep \in Nat /\ Len(runs) \in Nat
    BY <1>1, LenProperties
  <2>2. PruneHistory(runs, c) = Newest(c.keep, runs)
    BY <1>1 DEF PruneHistory
  <2>3. /\ Newest(c.keep, runs) \in Seq(Runs)
        /\ Len(Newest(c.keep, runs)) <= Len(runs)
        /\ Reverse(Newest(c.keep, runs)) = Latest(c.keep, Reverse(runs))
    <3>1. Len(Newest(c.keep, runs)) = IF Len(runs) > c.keep THEN c.keep ELSE Len(runs)
      BY <2>1, NewestProperties
    <3>2. Newest(c.keep, runs) \in Seq(Runs) /\ Reverse(Newest(c.keep, runs)) = Latest(c.keep, Reverse(runs))
      BY <2>1, NewestProperties, ReverseOfNewest
    <3> QED BY <2>1, <3>1, <3>2
  <2> QED BY <1>1, <2>2, <2>3
<1>2. CASE c.keep = NoKeep
  <2> DEFINE left == ToSet(runs) \ Matching(runs, c.filter)
             stay == {r \in ToSet(Reverse(runs)) : Stays(r, c.filter)}
  <2>1. PruneHistory(runs, c) = Those(runs, left)
    BY <1>2 DEF PruneHistory
  <2>2. left = stay
    BY ToSetOfReverse, StaysIsNoMatch DEF Matching
  <2>3. Reverse(Those(runs, left)) = Those(Reverse(runs), left)
    BY ThoseOfReverse
  <2>4. Those(runs, left) \in Seq(Runs) /\ Len(Those(runs, left)) <= Len(runs)
    BY ThoseAreTheOnes, ThoseAreNoMore
  <2> HIDE DEF left, stay
  <2>5. Reverse(PruneHistory(runs, c)) = Those(Reverse(runs), stay)
    BY <2>1, <2>2, <2>3, Zenon
  <2> QED BY <1>2, <2>1, <2>4, <2>5 DEF stay
<1> QED BY <1>1, <1>2

-----------------------------------------------------------------------------
(* What list, stats and prune see.                                         *)

\* Two opposite filters share the runs out between them.
LEMMA LensAddUp ==
  ASSUME NEW runs \in Seq(Runs), NEW P, NEW Q,
         \A r \in Runs : r \in P <=> r \notin Q
  PROVE  /\ Len(Those(runs, ToSet(runs) \intersect P)) + Len(Those(runs, ToSet(runs) \intersect Q)) = Len(runs)
<1> DEFINE R == ToSet(runs)
<1>1. Those(runs, R \intersect P) = Those(runs, P)
  BY ThoseDependOnTheRuns
<1>2. Those(runs, R \intersect Q) = Those(runs, Q)
  BY ThoseDependOnTheRuns
<1>3. Len(Those(runs, P)) + Len(Those(runs, Q)) = Len(runs)
  BY ThoseAndTheOthers
<1> QED BY <1>1, <1>2, <1>3

LEMMA ViewsOfRuns ==
  ASSUME NEW runs \in Seq(Runs), NEW f
  PROVE  LET all == ApplyHistoryFilters(runs, f, 0)
             pruned == PruneHistory(runs, [keep |-> NoKeep, filter |-> f])
             stats == BuildHistoryStats(runs, f)
         IN /\ ToSet(all) = ToSet(runs) \ ToSet(pruned)
            /\ Len(all) + Len(pruned) = Len(runs)
            /\ \A n \in 1..MaxRuns : ApplyHistoryFilters(runs, f, n) = Newest(n, all)
            /\ stats.shown = Len(all) /\ stats.shown = stats.passed + stats.failed
            /\ \A c \in Codes : stats.codes[c] <= stats.shown
<1> DEFINE R == ToSet(runs)
           M == Matching(runs, f)
           all == ApplyHistoryFilters(runs, f, 0)
           pruned == PruneHistory(runs, [keep |-> NoKeep, filter |-> f])
           stats == BuildHistoryStats(runs, f)
           With(res) == {r \in ToSet(all) : r.result = res}
<1>0. M \subseteq R
  BY DEF Matching
<1>1. all = Those(runs, M)
  BY DEF ApplyHistoryFilters
<1>2. pruned = Those(runs, R \ M)
  BY DEF PruneHistory
<1>3. /\ all \in Seq(Runs) /\ ToSet(all) = R \intersect M
      /\ ToSet(pruned) = R \intersect (R \ M)
  BY <1>1, <1>2, ThoseAreTheOnes
<1>4. Len(all) + Len(pruned) = Len(runs)
  <2>1. \A r \in Runs : r \in M <=> r \notin Runs \ M
    OBVIOUS
  <2>2. R \intersect M = M
    BY <1>0
  <2>3. R \intersect (Runs \ M) = R \ M
    <3>1. R \subseteq Runs
      BY LenProperties, ElementOfSeq DEF ToSet
    <3> QED BY <3>1
  <2> HIDE DEF M, R, all, pruned
  <2>4. Len(Those(runs, R \intersect M)) + Len(Those(runs, R \intersect (Runs \ M))) = Len(runs)
    BY <2>1, LensAddUp DEF R
  <2> QED BY <1>1, <1>2, <2>2, <2>3, <2>4
<1>5. \A n \in 1..MaxRuns : ApplyHistoryFilters(runs, f, n) = Newest(n, all)
  <2>1. ASSUME NEW n \in 1..MaxRuns PROVE ApplyHistoryFilters(runs, f, n) = Newest(n, all)
    <3>1. n > 0
      BY MaxRunsAssumption
    <3> QED BY <1>1, <3>1 DEF ApplyHistoryFilters
  <2> QED BY <2>1
<1>6. /\ stats.shown = Len(all)
      /\ stats.passed = Len(Those(all, With("passed")))
      /\ stats.failed = Len(Those(all, With("failed")))
      /\ \A c \in Codes : stats.codes[c] = Len(Those(all, {r \in ToSet(all) : c \in r.codes}))
  BY DEF BuildHistoryStats
<1>7. stats.shown = stats.passed + stats.failed
  <2> DEFINE P == {r \in Runs : r.result = "passed"}
             Q == {r \in Runs : r.result = "failed"}
  <2>1. \A r \in Runs : r \in P <=> r \notin Q
    BY DEF Runs
  <2>2. ToSet(all) \subseteq Runs
    BY <1>3, LenProperties, ElementOfSeq DEF ToSet
  <2>3. With("passed") = ToSet(all) \intersect P /\ With("failed") = ToSet(all) \intersect Q
    BY <2>2
  <2> HIDE DEF P, Q, all, stats, With
  <2>4. Len(Those(all, ToSet(all) \intersect P)) + Len(Those(all, ToSet(all) \intersect Q)) = Len(all)
    BY <1>3, <2>1, LensAddUp
  <2> QED BY <1>6, <2>3, <2>4
<1>8. \A c \in Codes : stats.codes[c] <= stats.shown
  <2> HIDE DEF all, stats
  <2> SUFFICES ASSUME NEW c \in Codes PROVE stats.codes[c] <= stats.shown
    OBVIOUS
  <2> DEFINE emitted == {r \in ToSet(all) : c \in r.codes}
  <2>1. stats.codes[c] = Len(Those(all, emitted))
    BY <1>6
  <2> HIDE DEF emitted
  <2>2. Len(Those(all, emitted)) <= Len(all)
    BY <1>3, ThoseAreNoMore
  <2> QED BY <1>6, <2>1, <2>2
<1>9. ToSet(all) = R \ ToSet(pruned)
  BY <1>3
<1> HIDE DEF all, pruned, stats
<1>10. /\ ToSet(all) = R \ ToSet(pruned)
       /\ Len(all) + Len(pruned) = Len(runs)
       /\ \A n \in 1..MaxRuns : ApplyHistoryFilters(runs, f, n) = Newest(n, all)
       /\ stats.shown = Len(all) /\ stats.shown = stats.passed + stats.failed
       /\ \A c \in Codes : stats.codes[c] <= stats.shown
  BY <1>4, <1>5, <1>6, <1>7, <1>8, <1>9
<1> QED BY <1>10 DEF all, pruned, stats

-----------------------------------------------------------------------------
(* The history: what holds in every state of it.                           *)

Cmds == Commands \union {[op |-> "none"]} \union {[op |-> "record", run |-> r] : r \in Runs}
Makers == Procs \union {"first", "none"}
ProcPcs == {"idle", "start", "loaded", "truncated", "done", "dead"}

DiskTypes ==
  /\ disk \in [kind : Kinds, runs : Seq(Runs), of : Makers]
  /\ Len(disk.runs) <= MaxRuns
  /\ disk.kind # "good" => disk.runs = <<>>
  /\ kept \in Seq(Runs) /\ calm \in BOOLEAN

ProcCodes == {-1, 0, 1, 2}
ProcRecs == [pc : ProcPcs, cmd : Cmds, h : Seq(Runs), saw : Kinds \ {"torn"},
             of : Makers, code : ProcCodes]
ProcTypes == proc \in [Procs -> ProcRecs]

ShortEnough == \A p \in Procs : Busy(p) => Len(proc[p].h) <= MaxRuns
                                           /\ proc[p].cmd.op \in {"record", "prune"}

(* A command that has loaded the file while no other was busy will write   *)
(* what it promises; the file is empty from the moment that it truncates   *)
(* it, and only then does it not hold what was promised before.            *)
Quiet ==
  calm => /\ \A p, q \in Procs : Busy(p) /\ Busy(q) => p = q
          /\ (\A p \in Procs : proc[p].pc # "truncated") => Reverse(disk.runs) = kept
          /\ \A p \in Procs : Busy(p) => Reverse(proc[p].h) = Promise(proc[p].cmd)
          /\ \A p \in Procs : proc[p].pc = "truncated" => disk.kind = "empty" /\ Mine(p)

HistoryInv == DiskTypes /\ ProcTypes /\ ShortEnough /\ Quiet

LEMMA CmdsProperties ==
  ASSUME NEW c \in Cmds
  PROVE  /\ c.op = "record" => c.run \in Runs
         /\ c.op = "prune" => c.keep \in Nat \union {NoKeep}
<1>1. CASE c \in Commands
  BY <1>1, CommandsAssumption
<1>2. CASE c = [op |-> "none"]
  BY <1>2
<1>3. CASE c \in {[op |-> "record", run |-> r] : r \in Runs}
  BY <1>3
<1> QED BY <1>1, <1>2, <1>3 DEF Cmds

LEMMA PromiseTyped ==
  ASSUME NEW c \in Cmds, c.op \in {"record", "prune"}, kept \in Seq(Runs)
  PROVE  Promise(c) \in Seq(Runs)
<1>1. CASE c.op = "record"
  <2>1. Append(kept, c.run) \in Seq(Runs)
    BY <1>1, CmdsProperties, AppendProperties
  <2>2. Latest(MaxRuns, Append(kept, c.run)) \in Seq(Runs)
    BY <2>1, MaxRunsAssumption, LatestProperties
  <2> QED BY <1>1, <2>2 DEF Promise
<1>2. CASE c.op = "prune" /\ c.keep # NoKeep
  <2>1. Latest(c.keep, kept) \in Seq(Runs)
    BY <1>2, CmdsProperties, LatestProperties
  <2> QED BY <1>2, <2>1 DEF Promise
<1>3. CASE c.op = "prune" /\ c.keep = NoKeep
  <2>1. Those(kept, {r \in ToSet(kept) : Stays(r, c.filter)}) \in Seq(Runs)
    BY ThoseAreTheOnes
  <2> QED BY <1>3, <2>1 DEF Promise
<1> QED BY <1>1, <1>2, <1>3

\* What a command has loaded and changed is what it promises.
LEMMA LoadedIsPromised ==
  ASSUME NEW c \in Cmds, NEW runs \in Seq(Runs), Reverse(runs) = kept
  PROVE  /\ c.op = "record" => Reverse(Record(c.run, runs)) = Promise(c)
         /\ c.op = "prune" => Reverse(PruneHistory(runs, c)) = Promise(c)
<1>1. ASSUME c.op = "record" PROVE Reverse(Record(c.run, runs)) = Promise(c)
  <2>1. Reverse(Record(c.run, runs)) = Latest(MaxRuns, Append(kept, c.run))
    BY <1>1, CmdsProperties, RecordedIsPromised
  <2> QED BY <1>1, <2>1 DEF Promise
<1>2. ASSUME c.op = "prune" PROVE Reverse(PruneHistory(runs, c)) = Promise(c)
  <2>1. Reverse(PruneHistory(runs, c)) =
          IF c.keep # NoKeep THEN Latest(c.keep, kept)
          ELSE Those(kept, {r \in ToSet(kept) : Stays(r, c.filter)})
    BY <1>2, CmdsProperties, PrunedIsPromised
  <2> QED BY <1>2, <2>1 DEF Promise
<1> QED BY <1>1, <1>2

LEMMA HistoryInitOK == HistoryInit => HistoryInv
<1> SUFFICES ASSUME HistoryInit PROVE HistoryInv
  OBVIOUS
<1>0. <<>> \in Seq(Runs) /\ Len(<<>>) = 0 /\ MaxRuns >= 1
  BY EmptySeq, MaxRunsAssumption
<1>1. /\ disk \in [kind : Kinds, runs : Seq(Runs), of : Makers]
      /\ Len(disk.runs) <= MaxRuns
      /\ disk.kind # "good" => disk.runs = <<>>
  <2>1. CASE disk \in {File(kind, <<>>, "first") : kind \in {"absent", "empty", "torn"}}
    <3>1. PICK kind \in {"absent", "empty", "torn"} : disk = File(kind, <<>>, "first")
      BY <2>1
    <3>2. disk.runs = <<>> /\ disk \in [kind : Kinds, runs : Seq(Runs), of : Makers]
      BY <1>0, <3>1 DEF File, Kinds, Makers
    <3>3. Len(disk.runs) = 0
      BY <1>0, <3>2
    <3> QED BY <1>0, <3>2, <3>3, MaxRunsAssumption
  <2>2. CASE disk \in {File("good", runs, "first") : runs \in OldRuns}
    BY <2>2, OldRunsAssumption DEF File, Kinds, Makers
  <2> QED BY <2>1, <2>2 DEF HistoryInit
<1>2. kept \in Seq(Runs) /\ calm \in BOOLEAN
  BY <1>1, ReverseProperties DEF HistoryInit
<1>3. proc = [p \in Procs |-> Idle]
  BY DEF HistoryInit
<1>4. Idle.pc = "idle" /\ Idle \in ProcRecs
  BY <1>0 DEF Idle, ProcRecs, ProcCodes, ProcPcs, Cmds, Kinds, Makers
<1>5. \A p \in Procs : proc[p].pc = "idle"
  BY <1>3, <1>4
<1>6. ProcTypes
  BY <1>3, <1>4 DEF ProcTypes
<1>7. ShortEnough /\ Quiet
  BY <1>5 DEF ShortEnough, Quiet, Busy, HistoryInit
<1> QED BY <1>1, <1>2, <1>6, <1>7 DEF HistoryInv, DiskTypes

-----------------------------------------------------------------------------
(* The steps of the history keep it.                                       *)

\* Only process p changes, and it is r now.
Becomes(p, r) == proc' = [proc EXCEPT ![p] = r]

LEMMA BecomesProperties ==
  ASSUME ProcTypes, NEW p \in Procs, NEW r \in ProcRecs, Becomes(p, r)
  PROVE  ProcTypes' /\ proc'[p] = r /\ \A q \in Procs \ {p} : proc'[q] = proc[q]
BY DEF ProcTypes, Becomes

LEMMA EndsBecomes ==
  ASSUME ProcTypes, NEW p \in Procs, NEW code \in ProcCodes, Ends(p, code)
  PROVE  LET r == [proc[p] EXCEPT !.pc = "done", !.code = code]
         IN Becomes(p, r) /\ r \in ProcRecs /\ r.pc = "done" /\ r.cmd = proc[p].cmd
<1>1. proc[p] \in ProcRecs
  BY DEF ProcTypes
<1> QED BY <1>1 DEF Ends, Becomes, ProcTypes, ProcRecs, ProcPcs

LEMMA PromiseKept ==
  ASSUME kept' = kept, NEW p \in Procs, proc'[p] = proc[p]
  PROVE  Promise(proc[p].cmd)' = Promise(proc[p].cmd)
BY DEF Promise

\* A process that was not in the middle of a write, and is not busy now,
\* has changed nothing that matters to the file.
LEMMA StopKeepsHistory ==
  ASSUME HistoryInv, NEW p \in Procs, NEW r \in ProcRecs, Becomes(p, r),
         disk' = disk, kept' = kept, calm' \in BOOLEAN, calm' => calm,
         proc[p].pc # "truncated", r.pc \notin {"loaded", "truncated"}
  PROVE  HistoryInv'
<1>1. ProcTypes' /\ proc'[p] = r /\ \A q \in Procs \ {p} : proc'[q] = proc[q]
  BY BecomesProperties DEF HistoryInv
<1>2. DiskTypes'
  BY DEF HistoryInv, DiskTypes
<1>3. ~ Busy(p)' /\ \A q \in Procs \ {p} : Busy(q)' = Busy(q)
  BY <1>1 DEF Busy
<1>4. ShortEnough'
  BY <1>1, <1>3 DEF HistoryInv, ShortEnough
<1>5. ASSUME calm' PROVE \A q, q2 \in Procs : Busy(q)' /\ Busy(q2)' => q = q2
  BY <1>3, <1>5 DEF HistoryInv, Quiet
<1>6. ASSUME calm', \A q \in Procs : proc'[q].pc # "truncated" PROVE Reverse(disk'.runs) = kept'
  BY <1>1, <1>6 DEF HistoryInv, Quiet
<1>7. ASSUME calm', NEW q \in Procs, Busy(q)' PROVE Reverse(proc'[q].h) = Promise(proc[q].cmd)'
  <2>1. q # p /\ Busy(q) /\ proc'[q] = proc[q]
    BY <1>1, <1>3, <1>7
  <2>2. Reverse(proc[q].h) = Promise(proc[q].cmd)
    BY <1>7, <2>1 DEF HistoryInv, Quiet
  <2> QED BY <2>1, <2>2, PromiseKept
<1>8. ASSUME calm', NEW q \in Procs, proc'[q].pc = "truncated" PROVE disk'.kind = "empty" /\ Mine(q)'
  <2>1. q # p /\ proc'[q] = proc[q]
    BY <1>1, <1>8
  <2> QED BY <1>8, <2>1 DEF HistoryInv, Quiet, Mine
<1>9. Quiet'
  BY <1>5, <1>6, <1>7, <1>8 DEF Quiet
<1> QED BY <1>1, <1>2, <1>4, <1>9 DEF HistoryInv

LEMMA BeginKeepsHistory ==
  ASSUME HistoryInv, NEW p \in Procs, NEW c \in Cmds, Begin(p, c)
  PROVE  HistoryInv'
<1> DEFINE r == IF UsageError(c) THEN [proc[p] EXCEPT !.cmd = c, !.pc = "done", !.code = 2]
                ELSE [proc[p] EXCEPT !.cmd = c, !.pc = "start"]
<1>1. proc[p] \in ProcRecs /\ proc \in [Procs -> ProcRecs]
  BY DEF HistoryInv, ProcTypes
<1>2. r \in ProcRecs /\ r.pc \in {"done", "start"}
  BY <1>1 DEF ProcRecs, ProcPcs, ProcCodes
<1>3. Becomes(p, r)
  BY <1>1 DEF Begin, Becomes
<1>4. calm' \in BOOLEAN /\ calm' = calm /\ disk' = disk /\ kept' = kept /\ proc[p].pc # "truncated"
  BY DEF Begin, HistoryInv, DiskTypes
<1> HIDE DEF r
<1> QED BY <1>2, <1>3, <1>4, StopKeepsHistory

LEMMA LoadKeepsHistory ==
  ASSUME HistoryInv, NEW p \in Procs, Load(p)
  PROVE  HistoryInv'
<1>1. /\ proc[p] \in ProcRecs /\ proc \in [Procs -> ProcRecs] /\ calm \in BOOLEAN
      /\ proc[p].pc = "start" /\ proc[p].cmd.op \in {"record", "prune"} /\ proc[p].cmd \in Cmds
      /\ disk' = disk /\ kept' = kept /\ disk \in [kind : Kinds, runs : Seq(Runs), of : Makers]
      /\ Len(disk.runs) <= MaxRuns
  BY DEF HistoryInv, ProcTypes, DiskTypes, Load, ProcRecs
<1>2. CASE \E code \in {0, 1} : Ends(p, code) /\ (calm' = calm \/ calm' = (calm /\ Alone(p)))
  <2>1. PICK code \in {0, 1} : Ends(p, code)
    BY <1>2
  <2>2. code \in ProcCodes /\ calm' \in BOOLEAN /\ (calm' => calm)
    <3>1. calm' = calm \/ calm' = (calm /\ Alone(p))
      BY <1>2
    <3>2. CASE calm' = calm
      BY <1>1, <3>2 DEF ProcCodes
    <3>3. CASE calm' = (calm /\ Alone(p))
      BY <1>1, <3>3 DEF ProcCodes
    <3> QED BY <3>1, <3>2, <3>3
  <2> DEFINE r == [proc[p] EXCEPT !.pc = "done", !.code = code]
  <2>3. Becomes(p, r) /\ r \in ProcRecs /\ r.pc = "done"
    BY <2>1, <2>2, EndsBecomes DEF HistoryInv
  <2> HIDE DEF r
  <2> QED BY <1>1, <2>2, <2>3, StopKeepsHistory
<1>3. CASE \E new \in Seq(Runs) :
             /\ LoadWith(p, new) /\ Readable(disk) /\ Len(new) <= MaxRuns
             /\ calm' = (calm /\ Alone(p))
             /\ Reverse(disk.runs) = kept => Reverse(new) = Promise(proc[p].cmd)
  <2>1. PICK new \in Seq(Runs) :
             /\ LoadWith(p, new) /\ Readable(disk) /\ Len(new) <= MaxRuns
             /\ calm' = (calm /\ Alone(p))
             /\ Reverse(disk.runs) = kept => Reverse(new) = Promise(proc[p].cmd)
    BY <1>3
  <2> DEFINE r == [proc[p] EXCEPT !.pc = "loaded", !.h = new, !.saw = disk.kind]
  <2>2. Becomes(p, r)
    BY <1>1, <2>1 DEF LoadWith, Becomes
  <2>3. /\ r \in ProcRecs /\ r.pc = "loaded" /\ r.h = new /\ r.cmd = proc[p].cmd
    BY <1>1, <2>1 DEF ProcRecs, ProcPcs, Readable
  <2> HIDE DEF r
  <2>4. ProcTypes' /\ proc'[p] = r /\ \A q \in Procs \ {p} : proc'[q] = proc[q]
    BY <2>2, <2>3, BecomesProperties DEF HistoryInv
  <2>5. DiskTypes'
    BY <1>1, <2>1 DEF HistoryInv, DiskTypes
  <2>6. ShortEnough'
    BY <1>1, <2>1, <2>3, <2>4 DEF HistoryInv, ShortEnough, Busy
  <2>7. ASSUME calm'
        PROVE  /\ \A q \in Procs \ {p} : ~ Busy(q) /\ ~ Busy(q)'
               /\ Reverse(disk.runs) = kept
    <3>1. calm /\ \A q \in Procs \ {p} : ~ Busy(q)
      BY <1>1, <2>1, <2>7 DEF Alone
    <3>2. \A q \in Procs : proc[q].pc # "truncated"
      BY <1>1, <3>1 DEF Busy
    <3> QED BY <2>4, <3>1, <3>2 DEF HistoryInv, Quiet, Busy
  <2>8. Promise(proc[p].cmd)' = Promise(proc[p].cmd)
    BY <1>1, <2>3, <2>4 DEF Promise
  <2>9. Quiet'
    <3> SUFFICES ASSUME calm' PROVE Quiet'
      BY DEF Quiet
    <3>1. \A q, q2 \in Procs : Busy(q)' /\ Busy(q2)' => q = q2
      BY <2>7
    <3>2. Reverse(disk'.runs) = kept'
      BY <1>1, <2>7
    <3>3. \A q \in Procs : Busy(q)' => Reverse(proc'[q].h) = Promise(proc[q].cmd)'
      BY <2>1, <2>3, <2>4, <2>7, <2>8
    <3>4. \A q \in Procs : proc'[q].pc # "truncated"
      BY <2>3, <2>4, <2>7 DEF Busy
    <3> QED BY <3>1, <3>2, <3>3, <3>4 DEF Quiet
  <2> QED BY <2>4, <2>5, <2>6, <2>9 DEF HistoryInv
<1>4. CASE /\ proc[p].cmd.op = "record" /\ Readable(disk) /\ calm' = (calm /\ Alone(p))
           /\ LoadWith(p, Record(proc[p].cmd.run, disk.runs))
  <2> DEFINE new == Record(proc[p].cmd.run, disk.runs)
  <2>1. LoadWith(p, new) /\ Readable(disk) /\ calm' = (calm /\ Alone(p))
    BY <1>4
  <2>2. new \in Seq(Runs) /\ Len(new) <= MaxRuns
    BY <1>1, <1>4, CmdsProperties, RecordedIsPromised
  <2>3. Reverse(disk.runs) = kept => Reverse(new) = Promise(proc[p].cmd)
    BY <1>1, <1>4, LoadedIsPromised
  <2> QED BY <1>3, <2>1, <2>2, <2>3
<1>5. CASE /\ proc[p].cmd.op = "prune" /\ Readable(disk) /\ calm' = (calm /\ Alone(p))
           /\ LoadWith(p, PruneHistory(disk.runs, proc[p].cmd))
  <2> DEFINE new == PruneHistory(disk.runs, proc[p].cmd)
  <2>1. LoadWith(p, new) /\ Readable(disk) /\ calm' = (calm /\ Alone(p))
    BY <1>5
  <2>2. new \in Seq(Runs) /\ Len(new) <= MaxRuns
    <3>1. new \in Seq(Runs) /\ Len(new) <= Len(disk.runs)
      BY <1>1, <1>5, CmdsProperties, PrunedIsPromised
    <3> HIDE DEF new
    <3>2. Len(new) \in Nat /\ Len(disk.runs) \in Nat
      BY <1>1, <3>1, LenProperties
    <3> QED BY <1>1, <3>1, <3>2, MaxRunsAssumption
  <2>3. Reverse(disk.runs) = kept => Reverse(new) = Promise(proc[p].cmd)
    BY <1>1, <1>5, LoadedIsPromised
  <2> QED BY <1>3, <2>1, <2>2, <2>3
<1> QED BY <1>2, <1>4, <1>5 DEF Load

LEMMA ViewKeepsHistory ==
  ASSUME HistoryInv, NEW p \in Procs, View(p)
  PROVE  HistoryInv'
<1>1. PICK code \in {0, 1} : Ends(p, code)
  BY DEF View
<1>2. proc[p].pc = "start" /\ disk' = disk /\ kept' = kept /\ calm' = calm /\ calm \in BOOLEAN
  BY DEF View, HistoryInv, DiskTypes
<1> DEFINE r == [proc[p] EXCEPT !.pc = "done", !.code = code]
<1>3. Becomes(p, r) /\ r \in ProcRecs /\ r.pc = "done"
  BY <1>1, EndsBecomes DEF HistoryInv, ProcCodes
<1> HIDE DEF r
<1> QED BY <1>2, <1>3, StopKeepsHistory

LEMMA DieKeepsHistory ==
  ASSUME HistoryInv, NEW p \in Procs, Die(p)
  PROVE  HistoryInv'
<1> DEFINE r == [proc[p] EXCEPT !.pc = "dead"]
<1>1. proc[p] \in ProcRecs /\ proc \in [Procs -> ProcRecs]
  BY DEF HistoryInv, ProcTypes
<1>2. Becomes(p, r) /\ r \in ProcRecs /\ r.pc = "dead"
  BY <1>1 DEF Die, Becomes, ProcRecs, ProcPcs
<1>3. proc[p].pc # "truncated" /\ disk' = disk /\ kept' = kept /\ calm' = calm /\ calm \in BOOLEAN
  BY DEF Die, HistoryInv, DiskTypes
<1> HIDE DEF r
<1> QED BY <1>2, <1>3, StopKeepsHistory

LEMMA TruncateKeepsHistory ==
  ASSUME HistoryInv, NEW p \in Procs, Truncate(p)
  PROVE  HistoryInv'
<1>1. /\ proc[p] \in ProcRecs /\ proc \in [Procs -> ProcRecs] /\ calm \in BOOLEAN
      /\ proc[p].pc = "loaded" /\ Busy(p) /\ kept' = kept /\ calm' = calm
      /\ disk \in [kind : Kinds, runs : Seq(Runs), of : Makers]
  BY DEF HistoryInv, ProcTypes, DiskTypes, Truncate, Busy
<1>2. CASE Ends(p, 1) /\ disk' = disk
  <2> DEFINE r == [proc[p] EXCEPT !.pc = "done", !.code = 1]
  <2>1. Becomes(p, r) /\ r \in ProcRecs /\ r.pc = "done"
    BY <1>2, EndsBecomes DEF HistoryInv, ProcCodes
  <2> HIDE DEF r
  <2> QED BY <1>1, <1>2, <2>1, StopKeepsHistory
<1>3. CASE ~ (Ends(p, 1) /\ disk' = disk)
  <2> DEFINE of == IF disk.kind = "absent" THEN p ELSE disk.of
             r == [proc[p] EXCEPT !.pc = "truncated", !.of = of]
  <2>1. disk' = [kind |-> "empty", runs |-> <<>>, of |-> of]
    BY <1>3 DEF Truncate, File
  <2>2. proc' = [proc EXCEPT ![p].pc = "truncated", ![p].of = disk'.of]
    BY <1>3 DEF Truncate
  <2>3. of \in Makers
    BY <1>1 DEF Makers
  <2> HIDE DEF of
  <2>4. Becomes(p, r)
    BY <1>1, <2>1, <2>2 DEF Becomes
  <2>5. r \in ProcRecs /\ r.pc = "truncated" /\ r.of = of /\ r.h = proc[p].h /\ r.cmd = proc[p].cmd
    BY <1>1, <2>3 DEF ProcRecs, ProcPcs
  <2> HIDE DEF r
  <2>6. ProcTypes' /\ proc'[p] = r /\ \A q \in Procs \ {p} : proc'[q] = proc[q]
    BY <2>4, <2>5, BecomesProperties DEF HistoryInv
  <2>7. DiskTypes'
    <3>1. <<>> \in Seq(Runs) /\ Len(<<>>) = 0
      BY EmptySeq
    <3> QED BY <1>1, <2>1, <2>3, <3>1, MaxRunsAssumption DEF HistoryInv, DiskTypes, Kinds
  <2>8. \A q \in Procs : Busy(q)' = Busy(q)
    BY <1>1, <2>5, <2>6 DEF Busy
  <2>9. ShortEnough'
    BY <2>5, <2>6, <2>8 DEF HistoryInv, ShortEnough
  <2>10. Quiet'
    <3> SUFFICES ASSUME calm' PROVE Quiet'
      BY DEF Quiet
    <3>1. \A q, q2 \in Procs : Busy(q)' /\ Busy(q2)' => q = q2
      BY <1>1, <2>8 DEF HistoryInv, Quiet
    <3>2. Busy(p)' /\ Reverse(proc[p].h) = Promise(proc[p].cmd) /\ proc'[p].pc = "truncated"
      BY <1>1, <2>5, <2>6, <2>8 DEF HistoryInv, Quiet
    <3>3. \A q \in Procs : Busy(q)' => Reverse(proc'[q].h) = Promise(proc[q].cmd)'
      <4>1. Promise(proc[p].cmd)' = Promise(proc[p].cmd)
        BY <1>1, <2>5, <2>6 DEF Promise
      <4> QED BY <2>5, <2>6, <3>1, <3>2, <4>1
    <3>4. \A q \in Procs : proc'[q].pc = "truncated" => disk'.kind = "empty" /\ Mine(q)'
      <4>1. disk'.kind = "empty" /\ Mine(p)'
        BY <2>1, <2>5, <2>6 DEF Mine
      <4>2. \A q \in Procs : proc'[q].pc = "truncated" => q = p
        BY <3>1, <3>2 DEF Busy
      <4> QED BY <4>1, <4>2
    <3> QED BY <3>1, <3>2, <3>3, <3>4 DEF Quiet
  <2> QED BY <2>6, <2>7, <2>9, <2>10 DEF HistoryInv
<1> QED BY <1>2, <1>3

LEMMA WriteKeepsHistory ==
  ASSUME HistoryInv, NEW p \in Procs, Write(p)
  PROVE  HistoryInv'
<1>1. /\ proc[p] \in ProcRecs /\ proc \in [Procs -> ProcRecs] /\ calm \in BOOLEAN
      /\ proc[p].pc = "truncated" /\ Busy(p) /\ calm' = calm /\ kept' = Promise(proc[p].cmd)
      /\ disk \in [kind : Kinds, runs : Seq(Runs), of : Makers] /\ kept \in Seq(Runs)
      /\ proc[p].cmd \in Cmds /\ proc[p].cmd.op \in {"record", "prune"}
      /\ proc[p].h \in Seq(Runs) /\ Len(proc[p].h) <= MaxRuns
  BY DEF HistoryInv, ProcTypes, DiskTypes, ShortEnough, ProcRecs, Write, Busy
<1> DEFINE r == [proc[p] EXCEPT !.pc = "done", !.code = 0]
<1>2. Becomes(p, r) /\ r \in ProcRecs /\ r.pc = "done"
  BY EndsBecomes DEF Write, HistoryInv, ProcCodes
<1> HIDE DEF r
<1>3. ProcTypes' /\ proc'[p] = r /\ \A q \in Procs \ {p} : proc'[q] = proc[q]
  BY <1>2, BecomesProperties DEF HistoryInv
<1>4. DiskTypes'
  <2>1. kept' \in Seq(Runs)
    BY <1>1, PromiseTyped
  <2>2. CASE disk' = disk
    BY <1>1, <2>1, <2>2 DEF HistoryInv, DiskTypes
  <2>3. CASE disk' = File("good", proc[p].h, disk.of)
    BY <1>1, <2>1, <2>3 DEF DiskTypes, File, Kinds
  <2>4. CASE disk' = File("torn", <<>>, disk.of)
    <3>1. <<>> \in Seq(Runs) /\ Len(<<>>) = 0
      BY EmptySeq
    <3> QED BY <1>1, <2>1, <2>4, <3>1, MaxRunsAssumption DEF DiskTypes, File, Kinds
  <2> QED BY <2>2, <2>3, <2>4 DEF Write, Written
<1>5. ~ Busy(p)' /\ \A q \in Procs \ {p} : Busy(q)' = Busy(q)
  BY <1>2, <1>3 DEF Busy
<1>6. ShortEnough'
  BY <1>3, <1>5 DEF HistoryInv, ShortEnough
<1>7. Quiet'
  <2> SUFFICES ASSUME calm' PROVE Quiet'
    BY DEF Quiet
  <2>1. /\ \A q \in Procs : ~ Busy(q)'
        /\ disk.kind = "empty" /\ Mine(p) /\ Reverse(proc[p].h) = Promise(proc[p].cmd)
    BY <1>1, <1>5 DEF HistoryInv, Quiet
  <2>2. disk' = File("good", proc[p].h, disk.of)
    BY <2>1 DEF Write, Written
  <2>3. Reverse(disk'.runs) = kept'
    BY <1>1, <2>1, <2>2 DEF File
  <2>4. \A q \in Procs : proc'[q].pc # "truncated"
    BY <2>1 DEF Busy
  <2> QED BY <2>1, <2>3, <2>4 DEF Quiet
<1> QED BY <1>3, <1>4, <1>6, <1>7 DEF HistoryInv

LEMMA CutShortKeepsHistory ==
  ASSUME HistoryInv, NEW p \in Procs, CutShort(p)
  PROVE  HistoryInv'
<1>1. /\ proc[p] \in ProcRecs /\ proc \in [Procs -> ProcRecs]
      /\ disk \in [kind : Kinds, runs : Seq(Runs), of : Makers] /\ kept \in Seq(Runs)
      /\ kept' = kept /\ calm' = FALSE
  BY DEF HistoryInv, ProcTypes, DiskTypes, CutShort
<1>2. PICK r \in ProcRecs : Becomes(p, r) /\ r.pc \in {"done", "dead"}
  <2>1. CASE Ends(p, 1)
    <3> DEFINE r == [proc[p] EXCEPT !.pc = "done", !.code = 1]
    <3>1. Becomes(p, r) /\ r \in ProcRecs /\ r.pc = "done"
      BY <2>1, EndsBecomes DEF HistoryInv, ProcCodes
    <3> HIDE DEF r
    <3> QED BY <3>1
  <2>2. CASE proc' = [proc EXCEPT ![p].pc = "dead"]
    <3> DEFINE r == [proc[p] EXCEPT !.pc = "dead"]
    <3>1. Becomes(p, r) /\ r \in ProcRecs /\ r.pc = "dead"
      BY <1>1, <2>2 DEF Becomes, ProcRecs, ProcPcs
    <3> HIDE DEF r
    <3> QED BY <3>1
  <2> QED BY <2>1, <2>2 DEF CutShort
<1>3. ProcTypes' /\ proc'[p] = r /\ \A q \in Procs \ {p} : proc'[q] = proc[q]
  BY <1>2, BecomesProperties DEF HistoryInv
<1>4. DiskTypes'
  <2>1. CASE disk' = disk
    BY <1>1, <2>1 DEF HistoryInv, DiskTypes
  <2>2. CASE disk' = File("torn", <<>>, disk.of)
    <3>1. <<>> \in Seq(Runs) /\ Len(<<>>) = 0
      BY EmptySeq
    <3>2. disk' = [kind |-> "torn", runs |-> <<>>, of |-> disk.of]
      BY <2>2 DEF File
    <3>3. disk' \in [kind : Kinds, runs : Seq(Runs), of : Makers] /\ disk'.runs = <<>>
      BY <1>1, <3>1, <3>2 DEF Kinds
    <3>4. kept' \in Seq(Runs) /\ calm' \in BOOLEAN
      BY <1>1
    <3> QED BY <3>1, <3>3, <3>4, MaxRunsAssumption DEF DiskTypes
  <2> QED BY <2>1, <2>2 DEF CutShort
<1>5. ShortEnough'
  BY <1>2, <1>3 DEF HistoryInv, ShortEnough, Busy
<1>6. Quiet'
  BY <1>1 DEF Quiet
<1> QED BY <1>3, <1>4, <1>5, <1>6 DEF HistoryInv

LEMMA ClearKeepsHistory ==
  ASSUME HistoryInv, NEW p \in Procs, Clear(p)
  PROVE  HistoryInv'
<1>1. /\ proc[p].pc = "start" /\ calm \in BOOLEAN
      /\ disk \in [kind : Kinds, runs : Seq(Runs), of : Makers]
  BY DEF HistoryInv, DiskTypes, Clear
<1>2. PICK code \in {0, 1} : Ends(p, code)
  BY DEF Clear
<1> DEFINE r == [proc[p] EXCEPT !.pc = "done", !.code = code]
<1>3. Becomes(p, r) /\ r \in ProcRecs /\ r.pc = "done"
  BY <1>2, EndsBecomes DEF HistoryInv, ProcCodes
<1> HIDE DEF r
<1>4. CASE UNCHANGED <<disk, kept, calm>>
  BY <1>1, <1>3, <1>4, StopKeepsHistory
<1>5. CASE disk' = File("absent", <<>>, "none") /\ kept' = <<>> /\ calm' = (calm /\ Alone(p))
  <2>1. ProcTypes' /\ proc'[p] = r /\ \A q \in Procs \ {p} : proc'[q] = proc[q]
    BY <1>3, BecomesProperties DEF HistoryInv
  <2>2. <<>> \in Seq(Runs) /\ Len(<<>>) = 0 /\ Reverse(<<>>) = <<>>
    <3>1. <<>> \in Seq(Runs) /\ Len(<<>>) = 0
      BY EmptySeq
    <3>2. Reverse(<<>>) \in Seq(Runs) /\ Len(Reverse(<<>>)) = 0
      BY <3>1, ReverseProperties
    <3> QED BY <3>1, <3>2, EmptySeq
  <2>3. calm' \in BOOLEAN
    BY <1>1, <1>5
  <2>4. DiskTypes'
    BY <1>5, <2>2, <2>3, MaxRunsAssumption DEF DiskTypes, File, Kinds, Makers
  <2>5. ~ Busy(p)' /\ \A q \in Procs \ {p} : Busy(q)' = Busy(q)
    BY <1>3, <2>1 DEF Busy
  <2>6. ShortEnough'
    BY <2>1, <2>5 DEF HistoryInv, ShortEnough
  <2>7. Quiet'
    <3> SUFFICES ASSUME calm' PROVE Quiet'
      BY DEF Quiet
    <3>1. \A q \in Procs : ~ Busy(q)'
      BY <1>5, <2>5 DEF Alone
    <3>2. Reverse(disk'.runs) = kept'
      BY <1>5, <2>2 DEF File
    <3>3. \A q \in Procs : proc'[q].pc # "truncated"
      BY <3>1 DEF Busy
    <3> QED BY <3>1, <3>2, <3>3 DEF Quiet
  <2> QED BY <2>1, <2>4, <2>6, <2>7 DEF HistoryInv
<1> QED BY <1>4, <1>5 DEF Clear

LEMMA StepKeepsHistory ==
  ASSUME HistoryInv, NEW p \in Procs, HistoryStep(p)
  PROVE  HistoryInv'
BY LoadKeepsHistory, ViewKeepsHistory, TruncateKeepsHistory, WriteKeepsHistory,
   CutShortKeepsHistory, DieKeepsHistory, ClearKeepsHistory DEF HistoryStep

-----------------------------------------------------------------------------
(* The engine: what holds of the results at every moment.                  *)

Rules == {"rules", "other rules"} \union Failures
Results == [status : {"passed", "failed", "skipped"}, report : Reports \union {NoReport},
            judged : Reports \union {NoReport}, rules : Rules \union {"none"}]

EngineTypes ==
  /\ file \in Seq(ToSet(file)) /\ results \in Seq(Results) /\ Len(results) <= Len(file)
  /\ pc \in {"read", "step", "record", "recording", "done"}
  /\ memo \in Rules \union {"unread"}
  /\ exit \in {-1, 0, 1, 2, 3}

Stages ==
  /\ pc = "read" => file = <<>> /\ results = <<>>
  /\ pc \in {"step", "record"} => Parses(file) /\ ValidPlan(file)
  /\ pc = "recording" => results = <<>>
  /\ results # <<>> => ValidPlan(file)

\* Only the answer that is remembered has been used.
RulesAreTheMemo == \A i \in DOMAIN results : results[i].rules \in {"none", memo}

ExitTellsAll ==
  /\ pc = "record" \/ (pc = "done" /\ results # <<>>) =>
       /\ exit = 0 => AllPassed
       /\ exit = 3 => \E i \in DOMAIN results : results[i].rules = "unreachable"
  /\ pc \in {"read", "step", "record"} => proc[main].pc = "idle" /\ proc[main].cmd.op = "none"
  /\ pc = "recording" =>
       proc[main].cmd.op = "record" /\ (exit = 0 => proc[main].cmd.run.result = "passed")
  /\ pc = "done" =>
       \/ proc[main].pc = "idle" /\ proc[main].cmd.op = "none"
       \/ /\ proc[main].pc = "done"
          /\ exit = 0 => proc[main].cmd.run.result = "passed" /\ proc[main].code = 0

ResultsInv == SkipsAreExplained /\ CompareUsesItsSource /\ RulesAreTheMemo
EngineInv == EngineTypes /\ Stages /\ ResultsInv /\ ExitTellsAll

LEMMA FileTypes ==
  ASSUME EngineTypes
  PROVE  /\ Len(file) \in Nat /\ DOMAIN file = 1..Len(file)
         /\ Len(results) \in Nat /\ DOMAIN results = 1..Len(results)
BY LenProperties DEF EngineTypes

LEMMA IdsAreUnique ==
  ASSUME EngineTypes, ValidPlan(file), NEW j \in 1..Len(file), NEW k \in 1..Len(file),
         file[j].id = file[k].id
  PROVE  j = k
<1>1. \A m \in 1..Len(file) : file[m].id # NoId /\ file[m].id \notin Earlier(file, m)
  BY FileTypes DEF ValidPlan, ValidStep, ValidId
<1>2. \A m, n \in 1..Len(file) : m < n => file[m].id # file[n].id
  <2> SUFFICES ASSUME NEW m \in 1..Len(file), NEW n \in 1..Len(file), m < n,
                      file[m].id = file[n].id
               PROVE  FALSE
    OBVIOUS
  <2>1. m \in 1..(n - 1)
    BY FileTypes
  <2>2. file[n].id \in Earlier(file, n)
    BY <1>1, <2>1 DEF Earlier
  <2> QED BY <1>1, <2>2
<1>3. j < k \/ k < j \/ j = k
  BY FileTypes
<1> QED BY <1>2, <1>3

LEMMA SourcesOfCompare ==
  ASSUME EngineTypes, ValidPlan(file), NEW n \in 1..Len(file), file[n].type = "compare"
  PROVE  /\ "reportFrom" \in file[n].sources =>
              \E j \in 1..(n - 1) : file[j].id = file[n].from
         /\ "report" \in file[n].sources => "reportFrom" \notin file[n].sources
<1>1. ValidBaselineCompare(file, n)
  BY FileTypes DEF ValidPlan, ValidStep, ValidPolicyCheck, ValidPolicyReview
<1>2. ASSUME "reportFrom" \in file[n].sources
      PROVE  \E j \in 1..(n - 1) : file[j].id = file[n].from
  BY <1>1, <1>2 DEF ValidBaselineCompare, Earlier
<1>3. ASSUME "report" \in file[n].sources, "reportFrom" \in file[n].sources
      PROVE  FALSE
  <2>1. file[n].sources \intersect {"report", "reportFrom"} = {"report"} \union {"reportFrom"}
    BY <1>3
  <2>2. IsFiniteSet({"report"}) /\ Cardinality({"report"}) = 1
    BY FS_Singleton
  <2>3. Cardinality({"report"} \union {"reportFrom"}) =
          IF "reportFrom" \in {"report"} THEN Cardinality({"report"}) ELSE Cardinality({"report"}) + 1
    BY <2>2, FS_AddElement, Zenon
  <2>4. Cardinality({"report"} \union {"reportFrom"}) = 2
    BY <2>2, <2>3
  <2> QED BY <1>1, <2>1, <2>4 DEF ValidBaselineCompare
<1> QED BY <1>2, <1>3

\* The map of reports tells what the step of that id has made.
LEMMA ReportIsOfThatStep ==
  ASSUME EngineTypes, ValidPlan(file), NEW j \in DOMAIN results
  PROVE  ReportOf(file[j].id) = results[j].report
<1> DEFINE made == {k \in DOMAIN results : file[k].id = file[j].id /\ results[k].report # NoReport}
<1>1. \A k \in DOMAIN results : file[k].id = file[j].id => k = j
  <2>1. \A k \in DOMAIN results : k \in 1..Len(file)
    BY FileTypes DEF EngineTypes
  <2> QED BY <2>1, IdsAreUnique
<1>2. CASE results[j].report = NoReport
  <2>1. made = {}
    BY <1>1, <1>2
  <2> QED BY <1>2, <2>1 DEF ReportOf
<1>3. CASE results[j].report # NoReport
  <2>1. made = {j}
    BY <1>1, <1>3
  <2>2. j \in Int
    BY FileTypes
  <2>3. Max({j}) = j
    BY <2>2 DEF Max
  <2> QED BY <2>1, <2>3 DEF ReportOf
<1> QED BY <1>2, <1>3

\* One result more, as long as it says of its own step what a result must.
LEMMA NewResult ==
  ASSUME EngineInv, ValidPlan(file), file' = file, NEW r \in Results, Gives(r),
         NEW n, n = Len(results) + 1, n <= Len(file),
         memo' = memo \/ memo = "unread", r.rules \in {"none", memo'},
         (r.status = "skipped")
           <=> /\ file[n].type = "compare" /\ "reportFrom" \in file[n].sources
               /\ \E j \in 1..(n - 1) : file[j].id = file[n].from /\ results[j].report = NoReport,
         file[n].type = "compare" /\ "reportFrom" \in file[n].sources /\ r.judged # NoReport
           => \A j \in 1..(n - 1) : file[j].id = file[n].from => r.judged = results[j].report
  PROVE  ResultsInv' /\ results' \in Seq(Results) /\ Len(results') = n
<1>1. /\ results \in Seq(Results) /\ Len(results) \in Nat /\ DOMAIN results = 1..Len(results)
      /\ n \in Nat /\ n \in 1..Len(file) /\ Len(file) \in Nat
  BY FileTypes DEF EngineInv, EngineTypes
<1>2. /\ results' \in Seq(Results) /\ Len(results') = n /\ results'[n] = r
      /\ \A i \in 1..(n - 1) : results'[i] = results[i]
  BY <1>1, AppendProperties DEF Gives
<1>3. DOMAIN results' = 1..n /\ 1..n = 1..(n - 1) \union {n} /\ 1..(n - 1) = DOMAIN results
  BY <1>1, <1>2, LenProperties
<1>4. SkipsAreExplained'
  <2> SUFFICES ASSUME NEW i \in 1..n
               PROVE  (results'[i].status = "skipped")
                        <=> /\ file[i].type = "compare" /\ "reportFrom" \in file[i].sources
                            /\ \E j \in 1..(i - 1) : file[j].id = file[i].from /\ results'[j].report = NoReport
    BY <1>3 DEF SkipsAreExplained
  <2>1. \A j \in 1..(i - 1) : results'[j] = results[j]
    BY <1>1, <1>2
  <2>2. CASE i = n
    BY <1>2, <2>1, <2>2
  <2>3. CASE i \in DOMAIN results
    <3>1. results'[i] = results[i]
      BY <1>2, <1>3, <2>3
    <3>2. (results[i].status = "skipped")
            <=> /\ file[i].type = "compare" /\ "reportFrom" \in file[i].sources
                /\ \E j \in 1..(i - 1) : file[j].id = file[i].from /\ results[j].report = NoReport
      BY <2>3 DEF EngineInv, ResultsInv, SkipsAreExplained
    <3> QED BY <2>1, <3>1, <3>2
  <2> QED BY <1>3, <2>2, <2>3
<1>5. CompareUsesItsSource'
  <2> SUFFICES ASSUME NEW i \in 1..n, NEW j \in 1..n,
                      file[i].type = "compare" /\ "reportFrom" \in file[i].sources,
                      results'[i].judged # NoReport, file[j].id = file[i].from
               PROVE  results'[i].judged = results'[j].report
    BY <1>3 DEF CompareUsesItsSource
  <2>1. i \in 1..Len(file) /\ j \in 1..Len(file)
    BY <1>1
  <2>2. PICK k \in 1..(i - 1) : file[k].id = file[i].from
    BY <2>1, SourcesOfCompare DEF EngineInv
  <2>3. k \in 1..Len(file) /\ k \in 1..(n - 1)
    BY <1>1, <2>2
  <2>4. j = k
    BY <2>1, <2>2, <2>3, IdsAreUnique DEF EngineInv
  <2>5. CASE i = n
    BY <1>2, <2>3, <2>4, <2>5
  <2>6. CASE i \in DOMAIN results
    <3>1. results'[i] = results[i] /\ results'[j] = results[j] /\ j \in DOMAIN results
      BY <1>2, <1>3, <2>3, <2>4, <2>6
    <3> QED BY <2>6, <3>1 DEF EngineInv, ResultsInv, CompareUsesItsSource
  <2> QED BY <1>3, <2>5, <2>6
<1>6. RulesAreTheMemo'
  <2> SUFFICES ASSUME NEW i \in 1..n PROVE results'[i].rules \in {"none", memo'}
    BY <1>3 DEF RulesAreTheMemo
  <2>1. CASE i = n
    BY <1>2, <2>1
  <2>2. CASE i \in DOMAIN results
    <3>1. results'[i] = results[i] /\ results[i] \in Results /\ results[i].rules \in {"none", memo}
      BY <1>1, <1>2, <1>3, <2>2, ElementOfSeq DEF EngineInv, ResultsInv, RulesAreTheMemo
    <3>2. results[i].rules # "unread"
      BY <3>1 DEF Results, Rules, Failures
    <3> QED BY <3>1, <3>2
  <2> QED BY <1>3, <2>1, <2>2
<1> QED BY <1>2, <1>4, <1>5, <1>6 DEF ResultsInv

-----------------------------------------------------------------------------
(* Each kind of step gives such a result.                                  *)

Outcome(r) ==
  /\ r.status \in {"passed", "failed"} /\ r.judged = NoReport

LEMMA OutcomesTyped ==
  ASSUME NEW rules \in Rules \union {"none"}, NEW rep \in Reports
  PROVE  /\ InputFailed(rules) \in Results /\ Outcome(InputFailed(rules))
         /\ InputFailed(rules).rules = rules
         /\ ReportOutcome(rep, rules) \in Results /\ Outcome(ReportOutcome(rep, rules))
         /\ ReportOutcome(rep, rules).rules = rules
BY DEF InputFailed, ReportOutcome, Result, Results, Outcome

LEMMA ComparedTyped ==
  ASSUME NEW rep \in Reports \union {NoReport}, NEW b
  PROVE  /\ Compared(rep, b) \in Results /\ Compared(rep, b).status \in {"passed", "failed"}
         /\ Compared(rep, b).judged = rep /\ Compared(rep, b).rules = "none"
BY DEF Compared, Result, Results

\* A step of a valid plan that runs: what all three kinds have in common.
Running(n) == /\ pc = "step" /\ n = Len(results) + 1 /\ n <= Len(file)
              /\ ValidPlan(file) /\ file' = file

StepGives == ResultsInv' /\ results' \in Seq(Results) /\ Len(results') = Len(results) + 1
             /\ memo' \in Rules \union {"unread"}

LEMMA CheckGives ==
  ASSUME EngineInv, NEW n, Running(n), PolicyCheck
  PROVE  StepGives
<1>1. file[n].type = "check" /\ Current = file[n]
  BY DEF PolicyCheck, Current, Running
<1>2. PICK r \in Results :
        /\ Gives(r) /\ Outcome(r) /\ r.rules \in {"none", memo'}
        /\ memo' = memo \/ memo = "unread"
        /\ memo' \in Rules \union {"unread"}
  <2>1. CASE "runtime" \in Current.sources
    <3>1. memo' \in RuntimeRules /\ memo \in Rules \union {"unread"}
      BY <2>1 DEF PolicyCheck, EngineInv, EngineTypes
    <3>2. memo' \in Rules /\ (memo' = memo \/ memo = "unread")
      BY <3>1 DEF RuntimeRules, Rules
    <3>3. Gives(InputFailed(memo')) \/ \E rep \in Reports : Gives(ReportOutcome(rep, memo'))
      BY <2>1 DEF PolicyCheck
    <3>4. CASE Gives(InputFailed(memo'))
      <4>1. {} \in Reports
        BY DEF Reports
      <4> QED BY <3>2, <3>4, <4>1, OutcomesTyped
    <3>5. CASE \E rep \in Reports : Gives(ReportOutcome(rep, memo'))
      <4>1. PICK rep \in Reports : Gives(ReportOutcome(rep, memo'))
        BY <3>5
      <4> QED BY <3>2, <4>1, OutcomesTyped
    <3> QED BY <3>3, <3>4, <3>5
  <2>2. CASE "runtime" \notin Current.sources
    <3>1. memo' = memo /\ memo \in Rules \union {"unread"}
      BY <2>2 DEF PolicyCheck, EngineInv, EngineTypes
    <3>2. Gives(InputFailed("none")) \/ \E rep \in Reports : Gives(ReportOutcome(rep, "none"))
      BY <2>2 DEF PolicyCheck
    <3>3. CASE Gives(InputFailed("none"))
      <4>1. {} \in Reports
        BY DEF Reports
      <4> QED BY <3>1, <3>3, <4>1, OutcomesTyped
    <3>4. CASE \E rep \in Reports : Gives(ReportOutcome(rep, "none"))
      <4>1. PICK rep \in Reports : Gives(ReportOutcome(rep, "none"))
        BY <3>4
      <4> QED BY <3>1, <4>1, OutcomesTyped
    <3> QED BY <3>2, <3>3, <3>4
  <2> QED BY <2>1, <2>2
<1>3. r.status # "skipped" /\ file[n].type # "compare"
  BY <1>1, <1>2 DEF Outcome
<1>4. ResultsInv' /\ results' \in Seq(Results) /\ Len(results') = n
  BY <1>2, <1>3, NewResult DEF Running
<1> QED BY <1>2, <1>4 DEF StepGives, Running

LEMMA ReviewGives ==
  ASSUME EngineInv, NEW n, Running(n), PolicyReview
  PROVE  StepGives
<1>1. file[n].type = "review" /\ memo' = memo /\ memo \in Rules \union {"unread"}
  BY DEF PolicyReview, Current, Running, EngineInv, EngineTypes
<1>2. PICK r \in Results : Gives(r) /\ Outcome(r) /\ r.rules = "none"
  <2>1. CASE Gives(InputFailed("none"))
    <3>1. {} \in Reports
      BY DEF Reports
    <3> QED BY <2>1, <3>1, OutcomesTyped
  <2>2. CASE \E rep \in Reports : Gives(ReportOutcome(rep, "none"))
    <3>1. PICK rep \in Reports : Gives(ReportOutcome(rep, "none"))
      BY <2>2
    <3> QED BY <3>1, OutcomesTyped
  <2> QED BY <2>1, <2>2 DEF PolicyReview
<1>3. r.status # "skipped" /\ file[n].type # "compare"
  BY <1>1, <1>2 DEF Outcome
<1>4. ResultsInv' /\ results' \in Seq(Results) /\ Len(results') = n
  BY <1>1, <1>2, <1>3, NewResult DEF Running
<1> QED BY <1>1, <1>4 DEF StepGives, Running

LEMMA CompareGives ==
  ASSUME EngineInv, NEW n, Running(n), BaselineCompare
  PROVE  StepGives
<1>1. /\ file[n].type = "compare" /\ Current = file[n]
      /\ memo' = memo /\ memo \in Rules \union {"unread"}
  BY DEF BaselineCompare, Current, Running, EngineInv, EngineTypes
<1>2. n \in 1..Len(file) /\ n - 1 = Len(results) /\ DOMAIN results = 1..(n - 1)
  BY FileTypes DEF Running, EngineInv
<1>3. \A j \in 1..(n - 1) : results[j] \in Results
  BY <1>2, ElementOfSeq DEF EngineInv, EngineTypes
<1>4. ASSUME "reportFrom" \in file[n].sources
      PROVE  \E k \in 1..(n - 1) :
               /\ file[k].id = file[n].from /\ ReportOf(file[n].from) = results[k].report
               /\ \A j \in 1..(n - 1) : file[j].id = file[n].from => j = k
  <2>1. PICK k \in 1..(n - 1) : file[k].id = file[n].from
    BY <1>1, <1>2, <1>4, SourcesOfCompare DEF EngineInv, Running
  <2>2. ReportOf(file[k].id) = results[k].report
    BY <1>2, ReportIsOfThatStep DEF EngineInv, Running
  <2>3. \A j \in 1..(n - 1) : file[j].id = file[k].id => j = k
    <3>1. \A j \in 1..(n - 1) : j \in 1..Len(file)
      BY <1>2, FileTypes DEF EngineInv
    <3> QED BY <3>1, IdsAreUnique DEF EngineInv, Running
  <2> QED BY <2>1, <2>2, <2>3
<1>5. PICK r \in Results :
        /\ Gives(r) /\ r.rules = "none"
        /\ (r.status = "skipped")
             <=> /\ "reportFrom" \in file[n].sources
                 /\ \E j \in 1..(n - 1) : file[j].id = file[n].from /\ results[j].report = NoReport
        /\ "reportFrom" \in file[n].sources /\ r.judged # NoReport
             => \A j \in 1..(n - 1) : file[j].id = file[n].from => r.judged = results[j].report
  <2>1. CASE "reportFrom" \in file[n].sources
    <3>1. PICK k \in 1..(n - 1) :
               /\ file[k].id = file[n].from /\ ReportOf(file[n].from) = results[k].report
               /\ \A j \in 1..(n - 1) : file[j].id = file[n].from => j = k
      BY <1>4, <2>1
    <3>2. "report" \notin file[n].sources
      BY <1>1, <1>2, <2>1, SourcesOfCompare DEF EngineInv, Running
    <3>3. CASE ReportOf(file[n].from) = NoReport
      <4>1. Gives(Result("skipped", NoReport, NoReport, "none"))
        BY <1>1, <2>1, <3>2, <3>3 DEF BaselineCompare
      <4>2. Result("skipped", NoReport, NoReport, "none") \in Results
        BY DEF Result, Results
      <4> QED BY <2>1, <3>1, <3>3, <4>1, <4>2 DEF Result
    <3>4. CASE ReportOf(file[n].from) # NoReport
      <4>1. \A j \in 1..(n - 1) : file[j].id = file[n].from => results[j].report # NoReport
        BY <3>1, <3>4
      <4>2. CASE Gives(InputFailed("none"))
        <5>1. InputFailed("none") \in Results /\ Outcome(InputFailed("none")) /\ InputFailed("none").rules = "none"
          <6>1. {} \in Reports
            BY DEF Reports
          <6> QED BY <6>1, OutcomesTyped
        <5> QED BY <4>1, <4>2, <5>1 DEF Outcome
      <4>3. CASE \E b \in Reports : Gives(Compared(ReportOf(file[n].from), b))
        <5>1. PICK b \in Reports : Gives(Compared(ReportOf(file[n].from), b))
          BY <4>3
        <5> DEFINE rep == ReportOf(file[n].from)
                   r == Compared(rep, b)
        <5>2. rep \in Reports \union {NoReport}
          BY <1>3, <3>1 DEF Results
        <5> HIDE DEF rep
        <5>3. r \in Results /\ r.status # "skipped" /\ r.judged = rep /\ r.rules = "none"
          BY <5>2, ComparedTyped
        <5>4. \A j \in 1..(n - 1) : file[j].id = file[n].from => rep = results[j].report
          BY <3>1 DEF rep
        <5>5. Gives(r)
          BY <5>1 DEF rep
        <5> HIDE DEF r
        <5> QED BY <4>1, <5>3, <5>4, <5>5
      <4> QED BY <1>1, <2>1, <3>2, <3>4, <4>2, <4>3 DEF BaselineCompare
    <3> QED BY <3>3, <3>4
  <2>2. CASE "reportFrom" \notin file[n].sources
    <3>1. CASE Gives(InputFailed("none"))
      <4>1. InputFailed("none") \in Results /\ Outcome(InputFailed("none")) /\ InputFailed("none").rules = "none"
        <5>1. {} \in Reports
          BY DEF Reports
        <5> QED BY <5>1, OutcomesTyped
      <4> QED BY <2>2, <3>1, <4>1 DEF Outcome
    <3>2. CASE \E rep, b \in Reports : Gives(Compared(rep, b))
      <4>1. PICK rep \in Reports, b \in Reports : Gives(Compared(rep, b))
        BY <3>2
      <4> QED BY <2>2, <4>1, ComparedTyped
    <3> QED BY <1>1, <2>2, <3>1, <3>2 DEF BaselineCompare
  <2> QED BY <2>1, <2>2
<1>6. ResultsInv' /\ results' \in Seq(Results) /\ Len(results') = n
  BY <1>1, <1>5, NewResult DEF Running
<1> QED BY <1>1, <1>6 DEF StepGives, Running

\* Whether a file is valid depends on the file alone.
LEMMA PlanOfTheFile ==
  ASSUME NEW f, file' = f
  PROVE  Parses(file)' = Parses(f) /\ ValidPlan(file)' = ValidPlan(f)
<1>1. Parses(file)' = Parses(f)
  BY DEF Parses
<1>2. \A i : Earlier(file, i)' = Earlier(f, i)
  BY DEF Earlier
<1>3. \A i : ValidStep(file, i)' = ValidStep(f, i)
  BY <1>2 DEF ValidStep, ValidId, ValidPolicyCheck, ValidPolicyReview, ValidBaselineCompare
<1>4. ValidPlan(file)' = ValidPlan(f)
  BY <1>3 DEF ValidPlan
<1> QED BY <1>1, <1>4

LEMMA StepKeepsEngine ==
  ASSUME EngineInv, Step
  PROVE  EngineInv'
<1> DEFINE n == Len(results) + 1
<1>1. /\ pc = "step" /\ Len(results) < Len(file) /\ ValidPlan(file) /\ Parses(file)
      /\ UNCHANGED <<cmd, file, pc, exit, history>>
  BY DEF Step, EngineInv, Stages
<1>2. n <= Len(file) /\ Len(results) \in Nat
  BY <1>1, FileTypes DEF EngineInv
<1>3. Running(n)
  BY <1>1, <1>2 DEF Running
<1> HIDE DEF n
<1>4. StepGives
  BY <1>3, CheckGives, ReviewGives, CompareGives DEF Step
<1>5. Len(results') <= Len(file)
  BY <1>2, <1>4 DEF StepGives, n
<1>6. EngineTypes'
  BY <1>1, <1>4, <1>5 DEF EngineInv, EngineTypes, StepGives
<1>7. Stages' /\ ExitTellsAll'
  <2>1. Parses(file)' /\ ValidPlan(file)'
    BY <1>1, PlanOfTheFile
  <2>2. proc' = proc
    BY <1>1 DEF history
  <2> QED BY <1>1, <2>1, <2>2 DEF EngineInv, Stages, ExitTellsAll
<1> QED BY <1>4, <1>6, <1>7 DEF EngineInv, StepGives

-----------------------------------------------------------------------------
(* The other steps of the command.                                         *)

LEMMA NoResults ==
  ASSUME results = <<>>
  PROVE  ResultsInv
<1>1. DOMAIN results = {}
  OBVIOUS
<1> QED BY <1>1 DEF ResultsInv, SkipsAreExplained, CompareUsesItsSource, RulesAreTheMemo

LEMMA PlannedKeepsEngine ==
  ASSUME EngineInv, NEW f \in Files, NEW c, Planned(c, f), 
         \/ Leaves(0) \/ Leaves(1) \/ Leaves(2)
         \/ Parses(f) /\ ValidPlan(f) /\ pc' = "step" /\ exit' = exit
  PROVE  EngineInv'
<1>1. /\ pc = "read" /\ file' = f /\ results' = results /\ results = <<>> /\ memo' = memo
      /\ proc' = proc /\ proc[main].pc = "idle" /\ proc[main].cmd.op = "none"
  BY DEF Planned, EngineInv, Stages, ExitTellsAll, history
<1>2. EngineTypes'
  <2>1. file' \in Seq(ToSet(file')) /\ Len(f) \in Nat
    BY <1>1, FilesAssumption, LenProperties
  <2>2. results' \in Seq(Results) /\ Len(results') <= Len(file')
    BY <1>1, <2>1, EmptySeq
  <2> QED BY <1>1, <2>1, <2>2 DEF EngineInv, EngineTypes, Leaves
<1>3. Stages'
  <2>1. (Parses(f) /\ ValidPlan(f)) => (Parses(file) /\ ValidPlan(file))'
    BY <1>1, PlanOfTheFile
  <2> QED BY <1>1, <2>1 DEF Stages, Leaves
<1>4. ResultsInv'
  <2>1. DOMAIN results' = {}
    BY <1>1
  <2> QED BY <2>1 DEF ResultsInv, SkipsAreExplained, CompareUsesItsSource, RulesAreTheMemo
<1>5. ExitTellsAll'
  BY <1>1 DEF ExitTellsAll, Leaves
<1> QED BY <1>2, <1>3, <1>4, <1>5 DEF EngineInv

\* What does not touch the results, the file or what is remembered.
LEMMA SameResults ==
  ASSUME EngineInv, UNCHANGED <<file, results, memo>>
  PROVE  ResultsInv' /\ ValidPlan(file)' = ValidPlan(file)
<1>1. SkipsAreExplained'
  BY DEF EngineInv, ResultsInv, SkipsAreExplained
<1>2. CompareUsesItsSource'
  BY DEF EngineInv, ResultsInv, CompareUsesItsSource
<1>3. RulesAreTheMemo'
  BY DEF EngineInv, ResultsInv, RulesAreTheMemo
<1>4. ValidPlan(file)' = ValidPlan(file)
  BY PlanOfTheFile
<1> QED BY <1>1, <1>2, <1>3, <1>4 DEF ResultsInv

LEMMA EmitKeepsEngine ==
  ASSUME EngineInv, Emit
  PROVE  EngineInv'
<1>1. /\ pc = "step" /\ pc' \in {"record", "done"} /\ exit' \in {RunExitCode, 1}
      /\ UNCHANGED <<file, results, memo>> /\ proc' = proc
      /\ Parses(file) /\ ValidPlan(file)
      /\ proc[main].pc = "idle" /\ proc[main].cmd.op = "none"
  BY DEF Emit, EngineInv, Stages, ExitTellsAll, history
<1>2. /\ RunExitCode \in {0, 1, 3}
      /\ RunExitCode = 0 => AllPassed
      /\ RunExitCode = 3 => \E i \in DOMAIN results : results[i].rules = "unreachable"
  BY DEF RunExitCode
<1>3. EngineTypes'
  BY <1>1, <1>2 DEF EngineInv, EngineTypes
<1>4. Stages'
  BY <1>1, SameResults DEF Stages, Parses
<1>5. ExitTellsAll'
  <2>1. AllPassed' = AllPassed
    BY <1>1 DEF AllPassed
  <2>2. /\ exit' = 0 => AllPassed
        /\ exit' = 3 => \E i \in DOMAIN results : results[i].rules = "unreachable"
    BY <1>1, <1>2
  <2> QED BY <1>1, <2>1, <2>2 DEF ExitTellsAll
<1> QED BY <1>1, <1>3, <1>4, <1>5, SameResults DEF EngineInv

LEMMA RunIsRecorded ==
  HistoryRun \in Runs /\ [op |-> "record", run |-> HistoryRun] \in Cmds
<1>1. HistoryRun \in Runs
  BY ProcsAssumption DEF HistoryRun, Runs
<1> QED BY <1>1 DEF Cmds

LEMMA StartRecordingKeepsAll ==
  ASSUME HistoryInv, EngineInv, StartRecording
  PROVE  HistoryInv' /\ EngineInv'
<1> DEFINE c == [op |-> "record", run |-> HistoryRun]
<1>1. /\ pc = "record" /\ pc' = "recording" /\ Begin(main, c) /\ exit' = exit
      /\ file' = <<>> /\ results' = <<>> /\ memo' = "unread"
      /\ main \in Procs /\ c \in Cmds
  BY ProcsAssumption, RunIsRecorded DEF StartRecording
<1>2. HistoryInv'
  BY <1>1, BeginKeepsHistory
<1>3. proc'[main].cmd = c
  <2>1. ~ UsageError(c)
    BY DEF UsageError
  <2> HIDE DEF c
  <2>2. proc' = [proc EXCEPT ![main].cmd = c, ![main].pc = "start"]
    BY <1>1, <2>1 DEF Begin
  <2>3. proc \in [Procs -> ProcRecs] /\ proc[main] \in ProcRecs
    BY <1>1 DEF HistoryInv, ProcTypes
  <2> QED BY <1>1, <2>2, <2>3 DEF ProcRecs
<1>4. c.op = "record" /\ (exit = 0 => c.run.result = "passed")
  <2>1. exit = 0 => AllPassed
    BY <1>1 DEF EngineInv, ExitTellsAll
  <2> QED BY <2>1 DEF HistoryRun
<1> HIDE DEF c
<1>5. EngineTypes'
  <2>1. <<>> \in Seq(ToSet(<<>>)) /\ <<>> \in Seq(Results) /\ Len(<<>>) = 0
    BY EmptySeq
  <2> QED BY <1>1, <2>1 DEF EngineInv, EngineTypes
<1>6. Stages' /\ ExitTellsAll'
  BY <1>1, <1>3, <1>4 DEF Stages, ExitTellsAll
<1>7. ResultsInv'
  <2>1. DOMAIN results' = {}
    BY <1>1
  <2> QED BY <2>1 DEF ResultsInv, SkipsAreExplained, CompareUsesItsSource, RulesAreTheMemo
<1> QED BY <1>2, <1>5, <1>6, <1>7 DEF EngineInv

\* A step of the history is one of a process that is at work.
LEMMA HistoryStepProperties ==
  ASSUME HistoryInv, NEW p \in Procs, HistoryStep(p)
  PROVE  /\ proc[p].pc \in {"start", "loaded", "truncated"}
         /\ proc'[p].cmd = proc[p].cmd /\ proc'[p].pc # proc[p].pc
         /\ \A q \in Procs \ {p} : proc'[q] = proc[q]
<1>1. proc \in [Procs -> ProcRecs] /\ proc[p] \in ProcRecs
  BY DEF HistoryInv, ProcTypes
<1>2. ASSUME NEW code, Ends(p, code)
      PROVE  /\ proc'[p].cmd = proc[p].cmd /\ proc'[p].pc = "done"
             /\ \A q \in Procs \ {p} : proc'[q] = proc[q]
  BY <1>1, <1>2 DEF Ends, ProcRecs
<1>3. ASSUME NEW new, LoadWith(p, new)
      PROVE  /\ proc'[p].cmd = proc[p].cmd /\ proc'[p].pc = "loaded"
             /\ \A q \in Procs \ {p} : proc'[q] = proc[q]
  BY <1>1, <1>3 DEF LoadWith, ProcRecs
<1>4. ASSUME proc' = [proc EXCEPT ![p].pc = "dead"]
      PROVE  /\ proc'[p].cmd = proc[p].cmd /\ proc'[p].pc = "dead"
             /\ \A q \in Procs \ {p} : proc'[q] = proc[q]
  BY <1>1, <1>4 DEF ProcRecs
<1>5. ASSUME proc' = [proc EXCEPT ![p].pc = "truncated", ![p].of = disk'.of]
      PROVE  /\ proc'[p].cmd = proc[p].cmd /\ proc'[p].pc = "truncated"
             /\ \A q \in Procs \ {p} : proc'[q] = proc[q]
  BY <1>1, <1>5 DEF ProcRecs
<1>6. CASE Load(p)
  BY <1>2, <1>3, <1>6 DEF Load
<1>7. CASE View(p)
  BY <1>2, <1>7 DEF View
<1>8. CASE Truncate(p)
  BY <1>2, <1>5, <1>8 DEF Truncate
<1>9. CASE Write(p)
  BY <1>2, <1>9 DEF Write
<1>10. CASE CutShort(p)
  BY <1>2, <1>4, <1>10 DEF CutShort
<1>11. CASE Die(p)
  BY <1>4, <1>11 DEF Die
<1>12. CASE Clear(p)
  BY <1>2, <1>12 DEF Clear
<1> QED BY <1>6, <1>7, <1>8, <1>9, <1>10, <1>11, <1>12 DEF HistoryStep

LEMMA HistoryStepKeepsEngine ==
  ASSUME HistoryInv, EngineInv, NEW p \in Procs, HistoryStep(p), UNCHANGED engine
  PROVE  EngineInv'
<1>1. UNCHANGED <<file, pc, results, memo, exit>>
  BY DEF engine
<1>2. EngineTypes' /\ Stages' /\ ResultsInv'
  BY <1>1, SameResults DEF EngineInv, EngineTypes, Stages, Parses
<1>3. AllPassed' = AllPassed
  BY <1>1 DEF AllPassed
<1>4. CASE p # main
  <2>1. proc'[main] = proc[main]
    BY <1>4, ProcsAssumption, HistoryStepProperties
  <2> QED BY <1>1, <1>2, <1>3, <2>1 DEF EngineInv, ExitTellsAll
<1>5. CASE p = main
  <2>1. /\ proc[main].pc \in {"start", "loaded", "truncated"}
        /\ proc'[main].cmd = proc[main].cmd
    BY <1>5, HistoryStepProperties
  <2>2. pc = "recording"
    BY <2>1 DEF EngineInv, EngineTypes, ExitTellsAll
  <2> QED BY <1>1, <1>2, <2>1, <2>2 DEF EngineInv, ExitTellsAll
<1> QED BY <1>4, <1>5

LEMMA OtherBeginKeepsEngine ==
  ASSUME HistoryInv, EngineInv, NEW p \in Procs \ {main}, NEW c \in Cmds, Begin(p, c), UNCHANGED engine
  PROVE  EngineInv'
<1>1. UNCHANGED <<file, pc, results, memo, exit>>
  BY DEF engine
<1>2. EngineTypes' /\ Stages' /\ ResultsInv'
  BY <1>1, SameResults DEF EngineInv, EngineTypes, Stages, Parses
<1>3. AllPassed' = AllPassed
  BY <1>1 DEF AllPassed
<1>4. proc'[main] = proc[main]
  BY ProcsAssumption DEF Begin, HistoryInv, ProcTypes
<1> QED BY <1>1, <1>2, <1>3, <1>4 DEF EngineInv, ExitTellsAll

LEMMA FinishKeepsEngine ==
  ASSUME HistoryInv, EngineInv, FinishRecording
  PROVE  EngineInv'
<1>1. /\ pc = "recording" /\ pc' = "done" /\ proc[main].pc = "done" /\ proc' = proc
      /\ exit' = ExitCode(proc[main].code) /\ UNCHANGED <<file, results, memo>> /\ results = <<>>
      /\ exit = 0 => proc[main].cmd.run.result = "passed"
      /\ main \in Procs
  BY ProcsAssumption DEF FinishRecording, history, EngineInv, Stages, ExitTellsAll
<1>2. exit' \in {exit, 1} /\ (exit' = 0 => exit = 0 /\ proc[main].code = 0)
  BY <1>1 DEF ExitCode
<1>3. EngineTypes'
  BY <1>1, <1>2 DEF EngineInv, EngineTypes
<1>4. Stages' /\ ResultsInv'
  BY <1>1, SameResults DEF Stages, EngineInv
<1>5. ExitTellsAll'
  BY <1>1, <1>2 DEF ExitTellsAll
<1> QED BY <1>3, <1>4, <1>5 DEF EngineInv

-----------------------------------------------------------------------------
(* The theorems.                                                           *)

WorkflowInv == HistoryInv /\ EngineInv

LEMMA InitOK == Init => WorkflowInv
<1> SUFFICES ASSUME Init PROVE WorkflowInv
  OBVIOUS
<1>1. HistoryInv
  BY HistoryInitOK DEF Init
<1>2. /\ file = <<>> /\ results = <<>> /\ pc = "read" /\ memo = "unread" /\ exit = -1
      /\ main \in Procs /\ proc = [p \in Procs |-> Idle]
  BY ProcsAssumption DEF Init, HistoryInit
<1>3. EngineTypes
  <2>1. <<>> \in Seq(ToSet(<<>>)) /\ <<>> \in Seq(Results) /\ Len(<<>>) = 0
    BY EmptySeq
  <2> QED BY <1>2, <2>1 DEF EngineTypes
<1>4. Stages
  BY <1>2 DEF Stages
<1>5. proc[main].pc = "idle" /\ proc[main].cmd.op = "none"
  BY <1>2 DEF Idle
<1>6. ExitTellsAll
  BY <1>2, <1>5 DEF ExitTellsAll
<1> QED BY <1>1, <1>2, <1>3, <1>4, <1>6, NoResults DEF WorkflowInv, EngineInv

LEMMA HistoryUntouched ==
  ASSUME HistoryInv, UNCHANGED history
  PROVE  HistoryInv'
<1>1. disk' = disk /\ proc' = proc /\ kept' = kept /\ calm' = calm
  BY DEF history
<1>2. DiskTypes' /\ ProcTypes'
  BY <1>1 DEF HistoryInv, DiskTypes, ProcTypes
<1>3. ShortEnough'
  BY <1>1 DEF HistoryInv, ShortEnough, Busy
<1>4. \A p \in Procs : Promise(proc[p].cmd)' = Promise(proc[p].cmd)
  BY <1>1, PromiseKept
<1>5. Quiet'
  BY <1>1, <1>4 DEF HistoryInv, Quiet, Busy, Mine
<1> QED BY <1>2, <1>3, <1>5 DEF HistoryInv

LEMMA EngineUntouched ==
  ASSUME EngineInv, UNCHANGED vars
  PROVE  EngineInv'
<1>1. UNCHANGED <<file, pc, results, memo, exit>> /\ proc' = proc
  BY DEF vars, engine, history
<1>2. AllPassed' = AllPassed
  BY <1>1 DEF AllPassed
<1>3. EngineTypes' /\ Stages' /\ ResultsInv'
  BY <1>1, SameResults, PlanOfTheFile DEF EngineInv, EngineTypes, Stages
<1>4. ExitTellsAll'
  BY <1>1, <1>2 DEF EngineInv, ExitTellsAll
<1> QED BY <1>3, <1>4 DEF EngineInv

LEMMA NextOK == WorkflowInv /\ [Next]_vars => WorkflowInv'
<1> SUFFICES ASSUME WorkflowInv, [Next]_vars PROVE WorkflowInv'
  OBVIOUS
<1> USE DEF WorkflowInv
<1>0. main \in Procs
  BY ProcsAssumption
<1>1. CASE \E f \in Files : Plan(f) \/ StartRun(f)
  <2>1. PICK f \in Files : Plan(f) \/ StartRun(f)
    BY <1>1
  <2>2. \E c : Planned(c, f)
    BY <2>1 DEF Plan, StartRun
  <2>3. \/ Leaves(0) \/ Leaves(1) \/ Leaves(2)
        \/ Parses(f) /\ ValidPlan(f) /\ pc' = "step" /\ exit' = exit
    BY <2>1 DEF Plan, StartRun
  <2>4. UNCHANGED history
    BY <2>2 DEF Planned, history
  <2> QED BY <2>2, <2>3, <2>4, PlannedKeepsEngine, HistoryUntouched
<1>2. CASE Step
  <2>1. UNCHANGED history
    BY <1>2 DEF Step
  <2> QED BY <1>2, <2>1, StepKeepsEngine, HistoryUntouched
<1>3. CASE Emit
  <2>1. UNCHANGED history
    BY <1>3 DEF Emit
  <2> QED BY <1>3, <2>1, EmitKeepsEngine, HistoryUntouched
<1>4. CASE StartRecording
  BY <1>4, StartRecordingKeepsAll
<1>5. CASE HistoryStep(main) /\ UNCHANGED engine
  BY <1>0, <1>5, StepKeepsHistory, HistoryStepKeepsEngine
<1>6. CASE FinishRecording
  <2>1. UNCHANGED history
    BY <1>6 DEF FinishRecording
  <2> QED BY <1>6, <2>1, FinishKeepsEngine, HistoryUntouched
<1>7. CASE Other
  <2>1. PICK p \in Procs \ {main} : HistoryStep(p) \/ \E c \in Commands : Begin(p, c)
    BY <1>7 DEF Other
  <2>2. UNCHANGED engine
    BY <1>7 DEF Other
  <2>3. CASE HistoryStep(p)
    BY <2>2, <2>3, StepKeepsHistory, HistoryStepKeepsEngine
  <2>4. CASE \E c \in Commands : Begin(p, c)
    <3>1. PICK c \in Cmds : Begin(p, c)
      BY <2>4 DEF Cmds
    <3> QED BY <2>2, <3>1, BeginKeepsHistory, OtherBeginKeepsEngine
  <2> QED BY <2>1, <2>3, <2>4
<1>8. CASE UNCHANGED vars
  <2>1. UNCHANGED history
    BY <1>8 DEF vars
  <2> QED BY <1>8, <2>1, HistoryUntouched, EngineUntouched
<1> QED BY <1>1, <1>2, <1>3, <1>4, <1>5, <1>6, <1>7, <1>8 DEF Next

(* What the invariant needs to hold it has from the start and keeps, for   *)
(* every file of steps and any number of other commands.                   *)
THEOREM WorkflowStateIsSound == Spec => []WorkflowInv
BY InitOK, NextOK, PTL DEF Spec

LEMMA InvGivesRuns == WorkflowInv => RunsAreTrue
<1> SUFFICES ASSUME WorkflowInv PROVE RunsAreTrue
  OBVIOUS
<1>1. HistoryTypeOK
  <2>1. \A p \in Procs : proc[p] \in ProcRecs
    BY DEF WorkflowInv, HistoryInv, ProcTypes
  <2> QED BY <2>1 DEF HistoryTypeOK, WorkflowInv, HistoryInv, DiskTypes, ProcRecs, ProcPcs, ProcCodes
<1>2. TypeOK
  BY <1>1 DEF TypeOK, WorkflowInv, EngineInv, EngineTypes, Rules
<1>3. SkipsAreExplained /\ CompareUsesItsSource
  BY DEF WorkflowInv, EngineInv, ResultsInv
<1>4. RuntimeReadOnce
  BY DEF WorkflowInv, EngineInv, ResultsInv, RulesAreTheMemo, RuntimeReadOnce
<1>5. ExitCodeIsTheRun
  BY DEF WorkflowInv, EngineInv, ExitTellsAll, ExitCodeIsTheRun
<1> QED BY <1>2, <1>3, <1>4, <1>5 DEF RunsAreTrue

(* `portier workflow run` skips a step only for want of the report that it *)
(* names, compares with that report and no other, judges one reading of    *)
(* the rules, and exits with 0 only if every step passed and the record    *)
(* that was asked for is in the history.                                   *)
THEOREM RunsTellTheTruth == Spec => []RunsAreTrue
BY WorkflowStateIsSound, InvGivesRuns, PTL

LEMMA InvGivesHistory == WorkflowInv => HistoryIsTrue
<1> SUFFICES ASSUME WorkflowInv PROVE HistoryIsTrue
  OBVIOUS
<1>1. QuietHistory
  BY DEF WorkflowInv, HistoryInv, Quiet, QuietHistory, Busy
<1>2. ViewsAgree
  <2>1. disk.runs \in Seq(Runs)
    BY DEF WorkflowInv, HistoryInv, DiskTypes
  <2> SUFFICES ASSUME NEW f \in Filters \ {NoFilter}
               PROVE  LET all == ApplyHistoryFilters(disk.runs, f, 0)
                          pruned == PruneHistory(disk.runs, [keep |-> NoKeep, filter |-> f])
                          stats == BuildHistoryStats(disk.runs, f)
                      IN /\ ToSet(all) = ToSet(disk.runs) \ ToSet(pruned)
                         /\ Len(all) + Len(pruned) = Len(disk.runs)
                         /\ \A n \in 1..MaxRuns : ApplyHistoryFilters(disk.runs, f, n) = Newest(n, all)
                         /\ stats.shown = Len(all) /\ stats.shown = stats.passed + stats.failed
                         /\ \A c \in Codes : stats.codes[c] <= stats.shown
    BY DEF ViewsAgree
  <2> QED BY <2>1, ViewsOfRuns
<1> QED BY <1>1, <1>2 DEF HistoryIsTrue

(* Commands that come one after the other lose no run that was not pruned, *)
(* cleared or outlived, whatever fails or dies between them before it      *)
(* writes; and what list shows is what prune removes and what stats count. *)
THEOREM TheHistoryIsTrue == Spec => []HistoryIsTrue
BY WorkflowStateIsSound, InvGivesHistory, PTL

(* A history file that cannot be parsed is changed only by a clear, or by  *)
(* a command that had read it when it still could be.                      *)
THEOREM TornFilesAreLeftAlone == Spec => TornFileIsLeftAlone
<1> DEFINE Change == \E p \in Procs : /\ proc'[p] # proc[p]
                                      /\ proc[p].cmd.op = "clear" \/ (Busy(p) /\ proc[p].saw # "torn")
<1>1. ASSUME HistoryInv, NEW p \in Procs, HistoryStep(p), disk' # disk PROVE Change
  <2>1. proc[p].saw # "torn"
    BY <1>1 DEF HistoryInv, ProcTypes, ProcRecs
  <2>2. proc'[p] # proc[p]
    BY <1>1, HistoryStepProperties
  <2>3. proc[p].cmd.op = "clear" \/ Busy(p)
    BY <1>1 DEF HistoryStep, Load, View, Truncate, Write, CutShort, Die, Clear, Busy
  <2> QED BY <2>1, <2>2, <2>3
<1>2. ASSUME HistoryInv, [Next]_vars, disk' # disk PROVE Change
  <2>1. PICK p \in Procs : HistoryStep(p)
    BY <1>2, ProcsAssumption
       DEF Next, vars, history, Plan, StartRun, Planned, Step, Emit, StartRecording, Begin,
           FinishRecording, Other
  <2> QED BY <1>1, <1>2, <2>1
<1>3. HistoryInv /\ [Next]_vars => [disk.kind = "torn" /\ disk' # disk => Change]_history
  BY <1>2
<1>4. Spec => []HistoryInv
  BY WorkflowStateIsSound, PTL DEF WorkflowInv
<1> HIDE DEF Change
<1>5. Spec => [][disk.kind = "torn" /\ disk' # disk => Change]_history
  BY <1>3, <1>4, PTL DEF Spec
<1> QED BY <1>5 DEF TornFileIsLeftAlone, Change

=============================================================================
