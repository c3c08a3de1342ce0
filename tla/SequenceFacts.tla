---------------------------- MODULE SequenceFacts ----------------------------
(***************************************************************************)
(* Facts about numbers and sequences that the proofs of several modules    *)
(* rest on.                                                                *)
(***************************************************************************)
EXTENDS SequencesExt, SequenceTheorems, FiniteSetTheorems, WellFoundedInduction, TLAPS

(***************************************************************************)
(* Induction, over sets of numbers.                                        *)
(***************************************************************************)

(* A set of numbers has a least one.                                       *)
LEMMA LeastNatural ==
    ASSUME NEW T, T \subseteq Nat, T # {}
    PROVE  \E x \in T : \A y \in T : x <= y
<1> DEFINE R == OpToRel(<, Nat)
<1>1. \E x \in T : \A y \in T : ~ (<<y, x>> \in R)
  <2>1. IsWellFoundedOn(R, Nat)
    BY NatLessThanWellFounded
  <2> HIDE DEF R
  <2> QED BY <2>1, WFMin
<1>2. \A x, y \in Nat : <<y, x>> \in R <=> y < x
  BY DEF OpToRel
<1> HIDE DEF R
<1>3. PICK x \in T : \A y \in T : ~ (<<y, x>> \in R)
  BY <1>1
<1>4. \A y \in T : x \in Nat /\ y \in Nat /\ ~ (y < x)
  BY <1>2, <1>3
<1>5. \A y \in T : x <= y
  BY <1>4
<1> QED BY <1>5

(* What holds of 0, and of n + 1 if of n, holds of every number.           *)
LEMMA SetInduction ==
    ASSUME NEW T \in SUBSET Nat, 0 \in T, \A n \in T : n + 1 \in T
    PROVE  T = Nat
<1> DEFINE U == Nat \ T
<1> SUFFICES ASSUME U # {} PROVE FALSE
  OBVIOUS
<1>1. PICK x \in U : \A y \in U : x <= y
  BY LeastNatural
<1>2. x - 1 \in Nat /\ x - 1 \notin U
  BY <1>1
<1> QED BY <1>1, <1>2

(* A finite set of numbers below a bound has a greatest one.               *)
LEMMA GreatestBelow ==
    ASSUME NEW n \in Nat, NEW T, T \subseteq 0..n, T # {}
    PROVE  \E x \in T : \A y \in T : y <= x
<1> DEFINE U == {n - x : x \in T}
<1>1. U \subseteq Nat /\ U # {}
  <2>1. \A x \in T : n - x \in Nat
    OBVIOUS
  <2>2. PICK x \in T : TRUE
    OBVIOUS
  <2>3. n - x \in U
    BY <2>2
  <2> QED BY <2>1, <2>3
<1>2. PICK u \in U : \A v \in U : u <= v
  BY <1>1, LeastNatural
<1>3. PICK x \in T : u = n - x
  BY <1>2
<1>4. \A y \in T : n - x <= n - y
  BY <1>2, <1>3
<1>5. \A y \in T : y <= x
  BY <1>3, <1>4
<1> QED BY <1>5

-----------------------------------------------------------------------------
(***************************************************************************)
(* Sequences as stacks.                                                    *)
(***************************************************************************)

(* POP of a typed sequence: what is left, and where it came from.          *)
LEMMA FrontProperties ==
    ASSUME NEW S, NEW s \in Seq(S)
    PROVE  /\ Len(s) \in Nat
           /\ Front(s) \in Seq(S)
           /\ s # <<>> => /\ Len(s) >= 1
                          /\ Last(s) \in S
                          /\ Len(Front(s)) = Len(s) - 1
                          /\ \A i \in 1..Len(s) - 1 : Front(s)[i] = s[i]
<1>1. Len(s) \in Nat /\ \A i \in 1..Len(s) - 1 : s[i] \in S
  BY LenProperties, ElementOfSeq
<1>2. /\ Front(s) \in Seq(S)
      /\ Len(Front(s)) = IF 1 <= Len(s) - 1 THEN Len(s) - 1 ELSE 0
      /\ \A i \in 1..Len(s) - 1 : Front(s)[i] = s[i]
  <2>1. /\ SubSeq(s, 1, Len(s) - 1) \in Seq(S)
        /\ Len(SubSeq(s, 1, Len(s) - 1)) = IF 1 <= Len(s) - 1 THEN (Len(s) - 1) - 1 + 1 ELSE 0
        /\ \A i \in 1..(Len(s) - 1) - 1 + 1 : SubSeq(s, 1, Len(s) - 1)[i] = s[1 + i - 1]
    BY <1>1, SubSeqProperties
  <2>2. (Len(s) - 1) - 1 + 1 = Len(s) - 1 /\ \A i \in 1..Len(s) - 1 : 1 + i - 1 = i
    BY <1>1
  <2> QED BY <1>1, <2>1, <2>2 DEF Front
<1>3. ASSUME s # <<>> PROVE Len(s) >= 1 /\ Last(s) \in S
  <2>1. Len(s) # 0
    BY <1>3, EmptySeq
  <2>2. Len(s) >= 1
    BY <1>1, <2>1
  <2> QED BY <1>1, <2>2, ElementOfSeq DEF Last
<1>4. Len(s) >= 1 => Len(Front(s)) = Len(s) - 1
  <2>1. Len(Front(s)) = IF 1 <= Len(s) - 1 THEN Len(s) - 1 ELSE 0
    BY <1>2
  <2>2. Len(s) \in Nat
    BY <1>1
  <2> QED BY <2>1, <2>2
<1> QED BY <1>1, <1>2, <1>3, <1>4


-----------------------------------------------------------------------------
(***************************************************************************)
(* Sequences of sequences.                                                 *)
(***************************************************************************)

(* f holds the concatenations of the first 1, 2, ... n sequences of ss.    *)
Accumulated(f, n, ss) ==
    f = [i \in 1 .. n |-> IF i = 1 THEN ss[i] ELSE f[i - 1] \o ss[i]]

LEMMA PrefixStep ==
    ASSUME NEW n \in Nat, NEW ss, NEW f, Accumulated(f, n, ss)
    PROVE  \A i \in 1 .. n : i + 1 \in 1 .. n => f[i + 1] = f[i] \o ss[i + 1]
<1> DEFINE g == [j \in 1 .. n |-> IF j = 1 THEN ss[j] ELSE f[j - 1] \o ss[j]]
<1>1. f = g
  BY DEF Accumulated
<1>2. ASSUME NEW i \in 1 .. n, i + 1 \in 1 .. n
      PROVE  g[i + 1] = f[i] \o ss[i + 1]
  <2> DEFINE j == i + 1
  <2>1. j \in 1 .. n /\ j # 1 /\ j - 1 = i
    BY <1>2
  <2> HIDE DEF j
  <2>2. g[j] = f[j - 1] \o ss[j]
    BY <2>1
  <2>3. g[j] = f[i] \o ss[j]
    BY <2>1, <2>2
  <2> QED BY <2>3 DEF j
<1> HIDE DEF g
<1> QED BY <1>1, <1>2

LEMMA PrefixesExist ==
    ASSUME NEW ss, NEW n \in Nat
    PROVE  \E f : Accumulated(f, n, ss)
<1> DEFINE T == {k \in Nat : \E f : Accumulated(f, k, ss)}
<1>1. 0 \in T
  <2> DEFINE f == [i \in 1 .. 0 |-> <<>>]
  <2>1. Accumulated(f, 0, ss)
    BY DEF Accumulated
  <2> QED BY <2>1
<1>2. ASSUME NEW k \in T PROVE k + 1 \in T
  <2>1. PICK f : Accumulated(f, k, ss)
    OBVIOUS
  <2> DEFINE g == [i \in 1 .. k + 1 |->
                      IF i \in 1 .. k THEN f[i]
                      ELSE IF i = 1 THEN ss[i] ELSE f[i - 1] \o ss[i]]
  <2>2. ASSUME NEW i \in 1 .. k + 1
        PROVE  g[i] = IF i = 1 THEN ss[i] ELSE g[i - 1] \o ss[i]
    <3>1. CASE i \in 1 .. k /\ i = 1
      BY <2>1, <3>1 DEF Accumulated
    <3>2. CASE i \in 1 .. k /\ i # 1
      <4>1. i - 1 \in 1 .. k /\ i - 1 \in 1 .. k + 1
        BY <3>2
      <4>2. g[i] = f[i] /\ g[i - 1] = f[i - 1]
        BY <3>2, <4>1
      <4>3. f[i] = f[i - 1] \o ss[i]
        BY <2>1, <3>2 DEF Accumulated
      <4> QED BY <3>2, <4>2, <4>3
    <3>3. CASE i \notin 1 .. k /\ i = 1
      BY <3>3
    <3>4. CASE i \notin 1 .. k /\ i # 1
      <4>1. i - 1 \in 1 .. k /\ i - 1 \in 1 .. k + 1
        BY <3>4
      <4>2. g[i] = f[i - 1] \o ss[i] /\ g[i - 1] = f[i - 1]
        BY <3>4, <4>1
      <4> QED BY <3>4, <4>2
    <3> QED BY <3>1, <3>2, <3>3, <3>4
  <2>3. g = [i \in 1 .. k + 1 |-> g[i]]
    OBVIOUS
  <2> HIDE DEF g
  <2>4. Accumulated(g, k + 1, ss)
    BY <2>2, <2>3 DEF Accumulated
  <2> QED BY <2>4
<1>3. T = Nat
  <2> HIDE DEF T
  <2>1. T \in SUBSET Nat
    BY DEF T
  <2> QED BY <1>1, <1>2, <2>1, SetInduction
<1> QED BY <1>3

(* FlattenSeq is the last of the prefixes.                                 *)
LEMMA FlattenIsPrefix ==
    ASSUME NEW ss, Len(ss) \in Nat, Len(ss) # 0
    PROVE  \E f : Accumulated(f, Len(ss), ss) /\ FlattenSeq(ss) = f[Len(ss)]
<1> DEFINE f == CHOOSE f : Accumulated(f, Len(ss), ss)
<1>1. Accumulated(f, Len(ss), ss)
  BY PrefixesExist
<1>2. FlattenSeq(ss) = f[Len(ss)]
  BY DEF FlattenSeq, Accumulated
<1> QED BY <1>1, <1>2


Same(s, t, n) == \A i \in 1 .. n : s[i] = t[i]

(* Prefixes of sequences that agree up to n agree up to n.                 *)
LEMMA PrefixesAgree ==
    ASSUME NEW n \in Nat, NEW m \in Nat, n <= m, NEW ss, NEW tt, Same(ss, tt, n),
           NEW f, Accumulated(f, n, ss), NEW g, Accumulated(g, m, tt)
    PROVE  Same(f, g, n)
<1> SUFFICES \A i \in 1 .. n : f[i] = g[i]
  BY DEF Same
<1>0. \A i \in 1 .. n : ss[i] = tt[i]
  BY DEF Same
<1> DEFINE T == {k \in Nat : k \in 1 .. n => f[k] = g[k]}
<1>1. 0 \in T
  OBVIOUS
<1>2. ASSUME NEW k \in T PROVE k + 1 \in T
  <2> SUFFICES ASSUME k + 1 \in 1 .. n PROVE f[k + 1] = g[k + 1]
    OBVIOUS
  <2>1. k + 1 \in 1 .. m /\ ss[k + 1] = tt[k + 1]
    BY <1>0
  <2>2. CASE k + 1 = 1
    BY <2>1, <2>2 DEF Accumulated
  <2>3. CASE k + 1 # 1
    <3>1. k \in 1 .. n /\ k \in 1 .. m /\ k + 1 \in 1 .. m
      BY <2>1, <2>3
    <3>2. f[k + 1] = f[k] \o ss[k + 1]
      BY <3>1, PrefixStep, ZenonT(30)
    <3>3. g[k + 1] = g[k] \o tt[k + 1]
      BY <3>1, PrefixStep
    <3> QED BY <2>1, <3>1, <3>2, <3>3
  <2> QED BY <2>2, <2>3
<1>3. T = Nat
  <2> HIDE DEF T
  <2>1. T \in SUBSET Nat
    BY DEF T
  <2> QED BY <1>1, <1>2, <2>1, SetInduction
<1> QED BY <1>3

(* Prefixes of sequences over S are sequences over S.                      *)
LEMMA PrefixesTyped ==
    ASSUME NEW S, NEW n \in Nat, NEW ss, \A i \in 1 .. n : ss[i] \in Seq(S),
           NEW f, Accumulated(f, n, ss)
    PROVE  \A i \in 1 .. n : f[i] \in Seq(S)
<1> DEFINE T == {k \in Nat : k \in 1 .. n => f[k] \in Seq(S)}
<1>1. 0 \in T
  OBVIOUS
<1>2. ASSUME NEW k \in T PROVE k + 1 \in T
  <2> SUFFICES ASSUME k + 1 \in 1 .. n PROVE f[k + 1] \in Seq(S)
    OBVIOUS
  <2>1. CASE k + 1 = 1
    BY <2>1 DEF Accumulated
  <2>2. CASE k + 1 # 1
    <3>1. k \in 1 .. n
      BY <2>2
    <3>2. f[k + 1] = f[k] \o ss[k + 1]
      BY <3>1, PrefixStep, ZenonT(30)
    <3>3. f[k] \in Seq(S) /\ ss[k + 1] \in Seq(S)
      BY <3>1
    <3> QED BY <3>1, <3>2, <3>3, ConcatProperties
  <2> QED BY <2>1, <2>2
<1>3. T = Nat
  <2> HIDE DEF T
  <2>1. T \in SUBSET Nat
    BY DEF T
  <2> QED BY <1>1, <1>2, <2>1, SetInduction
<1> QED BY <1>3

LEMMA FlattenTyped ==
    ASSUME NEW S, NEW ss \in Seq(Seq(S))
    PROVE  FlattenSeq(ss) \in Seq(S)
<1>1. Len(ss) \in Nat /\ \A i \in 1 .. Len(ss) : ss[i] \in Seq(S)
  BY LenProperties, ElementOfSeq
<1>2. CASE Len(ss) = 0
  <2>1. FlattenSeq(ss) = ss /\ ss = <<>>
    BY <1>2, EmptySeq DEF FlattenSeq
  <2> QED BY <2>1, EmptySeq
<1>3. CASE Len(ss) # 0
  <2>1. PICK f : Accumulated(f, Len(ss), ss) /\ FlattenSeq(ss) = f[Len(ss)]
    BY <1>1, <1>3, FlattenIsPrefix
  <2>2. Len(ss) \in 1 .. Len(ss)
    BY <1>1, <1>3
  <2> QED BY <1>1, <2>1, <2>2, PrefixesTyped
<1> QED BY <1>2, <1>3

(* The last sequence comes last.                                           *)
LEMMA FlattenAppend ==
    ASSUME NEW S, NEW ss \in Seq(Seq(S)), NEW t \in Seq(S)
    PROVE  FlattenSeq(Append(ss, t)) = FlattenSeq(ss) \o t
<1> DEFINE tt == Append(ss, t)
           n == Len(ss)
<1>1. /\ n \in Nat /\ Len(tt) = n + 1 /\ tt[n + 1] = t
      /\ \A i \in 1 .. n : tt[i] = ss[i]
  BY LenProperties, AppendProperties
<1> HIDE DEF tt
<1>2. PICK g : Accumulated(g, n + 1, tt) /\ FlattenSeq(tt) = g[n + 1]
  <2>1. Len(tt) \in Nat /\ Len(tt) # 0
    BY <1>1
  <2> QED BY <1>1, <2>1, FlattenIsPrefix
<1>3. CASE n = 0
  <2>1. g[1] = tt[1]
    BY <1>2, <1>3 DEF Accumulated
  <2>2. FlattenSeq(tt) = t
    BY <1>1, <1>2, <1>3, <2>1
  <2>3. FlattenSeq(ss) = ss /\ ss = <<>>
    BY <1>3, EmptySeq DEF FlattenSeq
  <2> QED BY <2>2, <2>3, ConcatEmptySeq DEF tt
<1>4. CASE n # 0
  <2>1. PICK f : Accumulated(f, n, ss) /\ FlattenSeq(ss) = f[n]
    BY <1>1, <1>4, FlattenIsPrefix
  <2>2. n \in 1 .. n /\ n \in 1 .. n + 1 /\ n + 1 \in 1 .. n + 1 /\ n <= n + 1 /\ n + 1 \in Nat
    BY <1>1, <1>4
  <2>3. f[n] = g[n]
    <3>1. Same(ss, tt, n)
      BY <1>1 DEF Same
    <3>2. Same(f, g, n)
      <4> DEFINE m == n + 1
      <4>1. /\ n \in Nat /\ m \in Nat /\ n <= m
            /\ Accumulated(f, n, ss) /\ Accumulated(g, m, tt)
        BY <1>1, <1>2, <2>1, <2>2
      <4> HIDE DEF m, n
      <4> QED BY <3>1, <4>1, PrefixesAgree
    <3> QED BY <2>2, <3>2 DEF Same
  <2>4. g[n + 1] = g[n] \o tt[n + 1]
    BY <1>2, <2>2, PrefixStep
  <2> QED BY <1>1, <1>2, <2>1, <2>2, <2>3, <2>4 DEF tt
<1> QED BY <1>3, <1>4

(* What the members of a stack stand for, from the bottom to the top.      *)
Along(m, s) == FlattenSeq([i \in 1 .. Len(s) |-> m[s[i]]])

(* What each member of Q stands for. *)
Meanings(Q, S) == [Q -> Seq(S)]

LEMMA AlongProperties ==
    ASSUME NEW Q, NEW S, NEW m \in Meanings(Q, S), NEW s \in Seq(Q)
    PROVE  /\ Along(m, s) \in Seq(S)
           /\ s = <<>> => Along(m, s) = <<>>
           /\ \A q \in Q : Along(m, Append(s, q)) = Along(m, s) \o m[q]
           /\ s # <<>> => Along(m, s) = Along(m, Front(s)) \o m[Last(s)]
<1> USE DEF Meanings
<1> DEFINE image(r) == [i \in 1 .. Len(r) |-> m[r[i]]]
<1>1. ASSUME NEW r \in Seq(Q)
      PROVE  image(r) \in Seq(Seq(S)) /\ Len(image(r)) = Len(r)
  <2>1. Len(r) \in Nat /\ \A i \in 1 .. Len(r) : m[r[i]] \in Seq(S)
    BY LenProperties, ElementOfSeq
  <2>2. image(r) \in [1 .. Len(r) -> Seq(S)]
    BY <2>1
  <2>3. image(r) \in Seq(Seq(S))
    BY <2>1, <2>2, SeqDef
  <2> QED BY <2>1, <2>3
<1>2. ASSUME NEW r \in Seq(Q), NEW q \in Q
      PROVE  Along(m, Append(r, q)) = Along(m, r) \o m[q]
  <2>1. /\ Append(r, q) \in Seq(Q) /\ Len(Append(r, q)) = Len(r) + 1 /\ Len(r) \in Nat
        /\ \A i \in 1 .. Len(r) : Append(r, q)[i] = r[i]
        /\ Append(r, q)[Len(r) + 1] = q
    BY AppendProperties, LenProperties
  <2>2. m[q] \in Seq(S)
    OBVIOUS
  <2>3. /\ Append(image(r), m[q]) \in Seq(Seq(S))
        /\ Len(Append(image(r), m[q])) = Len(r) + 1
        /\ \A i \in 1 .. Len(r) : Append(image(r), m[q])[i] = image(r)[i]
        /\ Append(image(r), m[q])[Len(r) + 1] = m[q]
    BY <1>1, <2>2, AppendProperties
  <2>4. image(Append(r, q)) = Append(image(r), m[q])
    <3>1. image(Append(r, q)) \in Seq(Seq(S)) /\ Len(image(Append(r, q))) = Len(r) + 1
      BY <1>1, <2>1
    <3>2. ASSUME NEW i \in 1 .. Len(r) + 1
          PROVE  image(Append(r, q))[i] = Append(image(r), m[q])[i]
      <4>1. image(Append(r, q))[i] = m[Append(r, q)[i]]
        BY <2>1
      <4>2. CASE i \in 1 .. Len(r)
        BY <2>1, <2>3, <4>1, <4>2
      <4>3. CASE i = Len(r) + 1
        BY <2>1, <2>3, <4>1, <4>3
      <4> QED BY <2>1, <4>2, <4>3
    <3> HIDE DEF image
    <3> QED BY <2>3, <3>1, <3>2, SeqEqual
  <2>5. FlattenSeq(Append(image(r), m[q])) = FlattenSeq(image(r)) \o m[q]
    BY <1>1, <2>2, FlattenAppend
  <2> QED BY <2>4, <2>5 DEF Along
<1>3. Along(m, s) \in Seq(S)
  BY <1>1, FlattenTyped DEF Along
<1>4. ASSUME s = <<>> PROVE Along(m, s) = <<>>
  <2>1. image(s) \in Seq(Seq(S)) /\ Len(image(s)) = 0
    BY <1>1, <1>4, EmptySeq
  <2>2. image(s) = <<>> /\ FlattenSeq(image(s)) = image(s)
    BY <2>1, EmptySeq DEF FlattenSeq
  <2> QED BY <2>2 DEF Along
<1>5. ASSUME s # <<>> PROVE Along(m, s) = Along(m, Front(s)) \o m[Last(s)]
  <2>1. /\ Front(s) \in Seq(Q) /\ Last(s) \in Q /\ Len(s) \in Nat /\ Len(s) >= 1
        /\ Len(Front(s)) = Len(s) - 1
        /\ \A i \in 1 .. Len(s) - 1 : Front(s)[i] = s[i]
    BY <1>5, FrontProperties
  <2>2. /\ Append(Front(s), Last(s)) \in Seq(Q)
        /\ Len(Append(Front(s), Last(s))) = Len(s) - 1 + 1
        /\ \A i \in 1 .. Len(s) - 1 : Append(Front(s), Last(s))[i] = Front(s)[i]
        /\ Append(Front(s), Last(s))[Len(s) - 1 + 1] = Last(s)
    BY <2>1, AppendProperties
  <2>3. Len(s) - 1 + 1 = Len(s)
    BY <2>1
  <2>4. \A i \in 1 .. Len(s) : Append(Front(s), Last(s))[i] = s[i]
    BY <2>1, <2>2, <2>3 DEF Last
  <2>5. Append(Front(s), Last(s)) = s
    BY <2>2, <2>3, <2>4, SeqEqual
  <2> QED BY <1>2, <2>1, <2>5
<1> QED BY <1>2, <1>3, <1>4, <1>5

-----------------------------------------------------------------------------
(***************************************************************************)
(* Replacing and inserting an element.                                     *)
(***************************************************************************)

(* ReplaceAt changes one place. *)
LEMMA ReplaceAtProperties ==
    ASSUME NEW S, NEW s \in Seq(S), NEW i \in 1 .. Len(s), NEW x \in S
    PROVE  /\ ReplaceAt(s, i, x) \in Seq(S)
           /\ Len(ReplaceAt(s, i, x)) = Len(s)
           /\ ReplaceAt(s, i, x)[i] = x
           /\ \A j \in 1 .. Len(s) : j # i => ReplaceAt(s, i, x)[j] = s[j]
BY DEF ReplaceAt

(* InsertAt moves what comes behind by one place. *)
LEMMA InsertAtProperties ==
    ASSUME NEW S, NEW s \in Seq(S), NEW i \in 1 .. Len(s) + 1, NEW x \in S
    PROVE  /\ InsertAt(s, i, x) \in Seq(S)
           /\ Len(InsertAt(s, i, x)) = Len(s) + 1
           /\ InsertAt(s, i, x)[i] = x
           /\ \A j \in 1 .. i - 1 : InsertAt(s, i, x)[j] = s[j]
           /\ \A j \in i .. Len(s) : InsertAt(s, i, x)[j + 1] = s[j]
<1> DEFINE before == SubSeq(s, 1, i - 1)
           behind == SubSeq(s, i, Len(s))
<1>1. /\ before \in Seq(S) /\ Len(before) = i - 1
      /\ \A j \in 1 .. i - 1 : before[j] = s[j]
  OBVIOUS
<1>2. /\ behind \in Seq(S) /\ Len(behind) = Len(s) - i + 1
      /\ \A j \in 1 .. Len(s) - i + 1 : behind[j] = s[j + i - 1]
  OBVIOUS
<1>3. InsertAt(s, i, x) = before \o <<x>> \o behind
  BY DEF InsertAt
<1> HIDE DEF before, behind
<1> DEFINE middle == before \o <<x>>
<1>4. /\ middle \in Seq(S) /\ Len(middle) = i /\ middle[i] = x
      /\ \A j \in 1 .. i - 1 : middle[j] = s[j]
  BY <1>1
<1> HIDE DEF middle
<1> DEFINE t == middle \o behind
<1>5. /\ t \in Seq(S) /\ Len(t) = Len(s) + 1
      /\ \A j \in 1 .. i : t[j] = middle[j]
      /\ \A j \in 1 .. Len(s) - i + 1 : t[i + j] = behind[j]
  BY <1>2, <1>4
<1>6. t = InsertAt(s, i, x)
  BY <1>3 DEF middle
<1> HIDE DEF t
<1>7. ASSUME NEW j \in i .. Len(s) PROVE t[j + 1] = s[j]
  <2> DEFINE m == j - i + 1
  <2>1. m \in 1 .. Len(s) - i + 1 /\ i + m = j + 1 /\ m + i - 1 = j
    OBVIOUS
  <2> HIDE DEF m
  <2> QED BY <1>2, <1>5, <2>1
<1>8. /\ t \in Seq(S) /\ Len(t) = Len(s) + 1 /\ t[i] = x
      /\ \A j \in 1 .. i - 1 : t[j] = s[j]
  BY <1>4, <1>5
<1> QED BY <1>6, <1>7, <1>8

(* The first elements of a sequence. *)
LEMMA PrefixProperties ==
    ASSUME NEW S, NEW s \in Seq(S), NEW n \in 0 .. Len(s)
    PROVE  /\ SubSeq(s, 1, n) \in Seq(S)
           /\ Len(SubSeq(s, 1, n)) = n
           /\ \A i \in 1 .. n : SubSeq(s, 1, n)[i] = s[i]
OBVIOUS

-----------------------------------------------------------------------------
(***************************************************************************)
(* Counting events.                                                        *)
(***************************************************************************)

(* How many of the first n events have a type of S. *)
Count(events, S, n) == Cardinality({i \in 1 .. n : events[i].type \in S})

(* One event more. *)
LEMMA CountGrows ==
    ASSUME NEW events, NEW S, NEW n \in Nat
    PROVE  /\ Count(events, S, 0) = 0 /\ Count(events, S, n) \in Nat
           /\ Count(events, S, n + 1)
                = Count(events, S, n) + IF events[n + 1].type \in S THEN 1 ELSE 0
<1> DEFINE A == {i \in 1 .. n : events[i].type \in S}
           B == {i \in 1 .. n + 1 : events[i].type \in S}
<1>1. IsFiniteSet(A)
  <2>1. IsFiniteSet(1 .. n)
    BY FS_Interval
  <2>2. A \subseteq 1 .. n
    OBVIOUS
  <2> HIDE DEF A
  <2> QED BY <2>1, <2>2, FS_Subset
<1>2. Cardinality(A) \in Nat
  BY <1>1, FS_CardinalityType
<1>3. {i \in 1 .. 0 : events[i].type \in S} = {}
  OBVIOUS
<1>4. Cardinality({}) = 0
  BY FS_EmptySet
<1>5. CASE events[n + 1].type \in S
  <2>1. B = A \cup {n + 1} /\ n + 1 \notin A
    BY <1>5
  <2> HIDE DEF A, B
  <2>2. Cardinality(B) = Cardinality(A) + 1
    BY <1>1, <2>1, FS_AddElement
  <2> QED BY <1>2, <1>3, <1>4, <1>5, <2>2 DEF Count, A, B
<1>6. CASE ~(events[n + 1].type \in S)
  <2>1. B = A
    BY <1>6
  <2>2. Cardinality(B) = Cardinality(A) + 0
    BY <1>2, <2>1
  <2> QED BY <1>2, <1>3, <1>4, <1>6, <2>2 DEF Count
<1> QED BY <1>5, <1>6

(* Those up to n are those up to m and those behind. *)
LEMMA CountSplits ==
    ASSUME NEW events, NEW S, NEW m \in Nat, NEW n \in Nat, m <= n
    PROVE  LET behind == Cardinality({i \in m + 1 .. n : events[i].type \in S})
           IN  behind \in Nat /\ Count(events, S, n) = Count(events, S, m) + behind
<1> DEFINE A == {i \in 1 .. m : events[i].type \in S}
           B == {i \in m + 1 .. n : events[i].type \in S}
           C == {i \in 1 .. n : events[i].type \in S}
<1>1. IsFiniteSet(A) /\ IsFiniteSet(B)
  <2>1. IsFiniteSet(1 .. m) /\ IsFiniteSet(m + 1 .. n)
    <3>1. m + 1 \in Int /\ 1 \in Int /\ m \in Int /\ n \in Int
      OBVIOUS
    <3> QED BY <3>1, FS_Interval
  <2>2. A \subseteq 1 .. m /\ B \subseteq m + 1 .. n
    OBVIOUS
  <2> HIDE DEF A, B
  <2> QED BY <2>1, <2>2, FS_Subset
<1>2. A \cup B = C /\ A \cap B = {}
  OBVIOUS
<1> HIDE DEF A, B, C
<1>3. /\ Cardinality(A) \in Nat /\ Cardinality(B) \in Nat
      /\ Cardinality(C) = Cardinality(A) + Cardinality(B) - Cardinality({})
  BY <1>1, <1>2, FS_CardinalityType, FS_Union
<1>4. Cardinality(C) = Cardinality(A) + Cardinality(B)
  BY <1>3, FS_EmptySet
<1> QED BY <1>3, <1>4 DEF Count, A, B, C

(* Only the first n events count. *)
LEMMA CountSame ==
    ASSUME NEW events, NEW others, NEW S, NEW n \in Nat,
           \A i \in 1 .. n : others[i] = events[i]
    PROVE  Count(others, S, n) = Count(events, S, n)
<1>1. {i \in 1 .. n : others[i].type \in S} = {i \in 1 .. n : events[i].type \in S}
  OBVIOUS
<1> QED BY <1>1 DEF Count

=============================================================================
