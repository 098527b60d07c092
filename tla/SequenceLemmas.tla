--------------------------- MODULE SequenceLemmas ---------------------------
(* What the proofs use of sequences, in terms of the elements at their positions. *)
EXTENDS Values, SequencesExt, SequenceTheorems, WellFoundedInduction, TLAPS

\* A function on the positions of a sequence is a sequence of the same length.
LEMMA SameLength ==
  ASSUME NEW S, NEW T, NEW s \in Seq(S), NEW f \in [DOMAIN s -> T]
  PROVE  f \in Seq(T) /\ Len(f) = Len(s) /\ DOMAIN f = DOMAIN s
<1>1. Len(s) \in Nat /\ DOMAIN s = 1..Len(s)
  BY LenProperties
<1>2. f \in [1..Len(s) -> T]
  BY <1>1
<1>3. f \in Seq(T)
  BY <1>1, <1>2, SeqDef
<1> QED
  BY <1>1, <1>2, <1>3, LenProperties

\* Every position holds an element.
LEMMA Elements ==
  ASSUME NEW S, NEW s \in Seq(S)
  PROVE  \A i \in DOMAIN s : s[i] \in S
OBVIOUS

\* A sequence over a set is one over any wider set.
LEMMA WiderSeq ==
  ASSUME NEW S, NEW T, S \subseteq T
  PROVE  \A s \in Seq(S) : s \in Seq(T)
<1>1. ASSUME NEW s \in Seq(S) PROVE s \in Seq(T)
  <2>1. Len(s) \in Nat /\ s \in [1..Len(s) -> S]
    BY LenProperties
  <2> QED
    BY <2>1, SeqDef
<1> QED
  BY <1>1

\* What appending does, in terms of positions.
LEMMA Appended ==
  ASSUME NEW S, NEW s \in Seq(S), NEW e \in S
  PROVE  /\ Append(s, e) \in Seq(S) /\ Len(s) + 1 \notin DOMAIN s
         /\ DOMAIN Append(s, e) = DOMAIN s \cup {Len(s) + 1}
         /\ \A i \in DOMAIN s : Append(s, e)[i] = s[i]
         /\ Append(s, e)[Len(s) + 1] = e
OBVIOUS

\* What is left behind the first element.
LEMMA Shortened ==
  ASSUME NEW S, NEW s \in Seq(S), s # <<>>
  PROVE  /\ Head(s) \in S /\ Head(s) = s[1] /\ 1 \in DOMAIN s
         /\ Tail(s) \in Seq(S)
         /\ \A i \in DOMAIN Tail(s) : i + 1 \in DOMAIN s /\ i + 1 # 1 /\ Tail(s)[i] = s[i + 1]
<1>1. Len(s) \in Nat /\ Len(s) # 0 /\ DOMAIN s = 1..Len(s)
  BY EmptySeq, LenProperties
<1>2. Tail(s) \in Seq(S) /\ Len(Tail(s)) = Len(s) - 1 /\ \A i \in 1..Len(Tail(s)) : Tail(s)[i] = s[i + 1]
  BY HeadTailProperties
<1>3. DOMAIN Tail(s) = 1..(Len(s) - 1)
  BY <1>2, LenProperties
<1>4. Head(s) = s[1] /\ Head(s) \in S
  BY HeadTailProperties
<1> QED
  BY <1>1, <1>2, <1>3, <1>4

\* The last element stays the last, unless it was the first too.
LEMMA LastStays ==
  ASSUME NEW S, NEW s \in Seq(S), s # <<>>
  PROVE  \/ Tail(s) = <<>> /\ s[Len(s)] = Head(s)
         \/ Tail(s) # <<>> /\ Tail(s)[Len(Tail(s))] = s[Len(s)]
<1>1. PICK n \in Nat : n = Len(s) /\ n # 0
  BY EmptySeq, LenProperties
<1>2. Tail(s) \in Seq(S) /\ Len(Tail(s)) = n - 1 /\ \A i \in 1..Len(Tail(s)) : Tail(s)[i] = s[i + 1]
  BY <1>1, HeadTailProperties
<1>3. Head(s) = s[1]
  BY Shortened
<1>4. CASE n = 1
  <2>1. Tail(s) = <<>>
    <3>1. \A t \in Seq(S) : t # <<>> => Len(t) # 0
      BY EmptySeq
    <3>2. PICK t \in Seq(S) : t = Tail(s)
      BY <1>2
    <3>3. Len(t) = 0
      BY <1>2, <1>4, <3>2
    <3> QED
      BY <3>1, <3>2, <3>3, Zenon
  <2> QED
    BY <1>1, <1>3, <1>4, <2>1
<1>5. CASE n # 1
  <2>1. n - 1 \in 1..Len(Tail(s)) /\ n - 1 + 1 = n /\ n - 1 # 0
    BY <1>1, <1>2, <1>5
  <2>2. Tail(s)[n - 1] = s[n]
    BY <1>2, <2>1
  <2>3. Tail(s) # <<>>
    <3>1. Len(Tail(s)) # 0 /\ Len(<<>>) = 0
      BY <1>2, <2>1
    <3> QED
      BY <3>1
  <2> QED
    BY <1>1, <1>2, <2>2, <2>3
<1> QED
  BY <1>4, <1>5

\* What is left when one element is removed, in its order.
LEMMA RemovedInOrder ==
  ASSUME NEW S, NEW s \in Seq(S), NEW n \in DOMAIN s
  PROVE  /\ RemoveAt(s, n) \in Seq(S) /\ Len(RemoveAt(s, n)) = Len(s) - 1
         /\ \A m \in DOMAIN RemoveAt(s, n) :
              /\ m \in Nat
              /\ m < n => m \in DOMAIN s /\ RemoveAt(s, n)[m] = s[m]
              /\ ~(m < n) => m + 1 \in DOMAIN s /\ RemoveAt(s, n)[m] = s[m + 1]
<1> DEFINE front == SubSeq(s, 1, n - 1)
           back == SubSeq(s, n + 1, Len(s))
<1>1. Len(s) \in Nat /\ DOMAIN s = 1..Len(s) /\ n \in Nat /\ 1 <= n /\ n <= Len(s)
  BY LenProperties
<1>2. /\ front \in Seq(S) /\ Len(front) = n - 1 /\ n - 1 \in Nat
      /\ \A m \in 1..(n - 1) : front[m] = s[m]
  <2>1. \A m \in 1..(n - 1) : s[m] \in S
    <3>1. \A m \in 1..(n - 1) : m \in 1..Len(s)
      BY <1>1
    <3> QED
      BY <3>1, ElementOfSeq
  <2>2. /\ front \in Seq(S) /\ Len(front) = IF 1 <= n - 1 THEN n - 1 - 1 + 1 ELSE 0
        /\ \A m \in 1..(n - 1 - 1 + 1) : front[m] = s[1 + m - 1]
    BY <1>1, <2>1, SubSeqProperties
  <2> QED
    BY <1>1, <2>2
<1>3. /\ back \in Seq(S) /\ Len(back) = Len(s) - n /\ Len(s) - n \in Nat
      /\ \A m \in 1..(Len(s) - n) : back[m] = s[n + m]
  <2>1. \A m \in (n + 1)..Len(s) : s[m] \in S
    <3>1. \A m \in (n + 1)..Len(s) : m \in 1..Len(s)
      BY <1>1
    <3> QED
      BY <3>1, ElementOfSeq
  <2>2. /\ back \in Seq(S) /\ Len(back) = IF n + 1 <= Len(s) THEN Len(s) - (n + 1) + 1 ELSE 0
        /\ \A m \in 1..(Len(s) - (n + 1) + 1) : back[m] = s[n + 1 + m - 1]
    BY <1>1, <2>1, SubSeqProperties
  <2>3. Len(s) - (n + 1) + 1 = Len(s) - n /\ \A m \in 1..(Len(s) - n) : n + 1 + m - 1 = n + m
    BY <1>1
  <2> QED
    BY <1>1, <2>2, <2>3
<1>4. RemoveAt(s, n) = front \o back
  BY DEF RemoveAt
<1> HIDE DEF front, back
<1>5. /\ front \o back \in Seq(S) /\ Len(front \o back) = n - 1 + (Len(s) - n)
      /\ \A m \in 1..(n - 1 + (Len(s) - n)) :
           (front \o back)[m] = IF m <= n - 1 THEN front[m] ELSE back[m - (n - 1)]
  <2>1. front \in Seq(S) /\ back \in Seq(S)
    BY <1>2, <1>3
  <2>2. /\ front \o back \in Seq(S) /\ Len(front \o back) = Len(front) + Len(back)
        /\ \A m \in 1..(Len(front) + Len(back)) :
             (front \o back)[m] = IF m <= Len(front) THEN front[m] ELSE back[m - Len(front)]
    BY <2>1, ConcatProperties
  <2>3. Len(front) = n - 1 /\ Len(back) = Len(s) - n
    BY <1>2, <1>3
  <2> QED
    BY <2>2, <2>3
<1>6. DOMAIN (front \o back) = 1..(n - 1 + (Len(s) - n))
  BY <1>5, LenProperties
<1>7. ASSUME NEW m \in 1..(n - 1 + (Len(s) - n))
      PROVE  /\ m < n => m \in DOMAIN s /\ (front \o back)[m] = s[m]
             /\ ~(m < n) => m + 1 \in DOMAIN s /\ (front \o back)[m] = s[m + 1]
  <2>1. CASE m < n
    <3>1. m \in 1..(n - 1) /\ m <= n - 1 /\ m \in DOMAIN s
      BY <1>1, <2>1
    <3> QED
      BY <1>2, <1>5, <2>1, <3>1
  <2>2. CASE ~(m < n)
    <3>1. ~(m <= n - 1) /\ m - (n - 1) \in 1..(Len(s) - n) /\ n + (m - (n - 1)) = m + 1 /\ m + 1 \in DOMAIN s
      BY <1>1, <2>2
    <3> QED
      BY <1>3, <1>5, <2>2, <3>1
  <2> QED
    BY <2>1, <2>2
<1>8. n - 1 + (Len(s) - n) = Len(s) - 1 /\ \A m \in 1..(n - 1 + (Len(s) - n)) : m \in Nat
  BY <1>1
<1> QED
  BY <1>1, <1>4, <1>5, <1>6, <1>7, <1>8

\* What is left when one element is removed, in whatever place it is.
LEMMA Removed ==
  ASSUME NEW S, NEW s \in Seq(S), NEW n \in DOMAIN s
  PROVE  /\ RemoveAt(s, n) \in Seq(S) /\ Len(RemoveAt(s, n)) = Len(s) - 1
         /\ \A m \in DOMAIN RemoveAt(s, n) : \E k \in DOMAIN s : RemoveAt(s, n)[m] = s[k]
BY RemovedInOrder

-----------------------------------------------------------------------------
(* Induction: what is chosen from a sequence, and what flattening one gives. *)

\* Induction over the naturals, for a set: what holds zero and with every number its successor holds them all.
LEMMA NatSetInduction ==
  ASSUME NEW S, 0 \in S, \A n \in Nat : n \in S => n + 1 \in S
  PROVE  Nat \subseteq S
<1> DEFINE R == OpToRel(<, Nat)
<1> SUFFICES ASSUME Nat \ S # {} PROVE FALSE
  OBVIOUS
<1>1. IsWellFoundedOn(R, Nat)
  BY NatLessThanWellFounded DEF OpToRel
<1>2. \E x \in Nat \ S : \A y \in Nat \ S : <<y, x>> \notin R
  <2> HIDE DEF R
  <2> QED BY <1>1, WFMin
<1>3. PICK x \in Nat \ S : \A y \in Nat \ S : <<y, x>> \notin R
  BY <1>2
<1>4. x # 0 /\ x - 1 \in Nat /\ x - 1 \notin S
  BY x \in Nat, (x - 1) + 1 = x, SMT
<1>5. <<x - 1, x>> \in R
  BY <1>4 DEF OpToRel
<1> QED BY <1>3, <1>4, <1>5

\* The same up to a bound.
LEMMA IntervalInduction ==
  ASSUME NEW m \in Nat, NEW S, 0 \in S, \A n \in 0..(m - 1) : n \in S => n + 1 \in S
  PROVE  0..m \subseteq S
<1> DEFINE T == {n \in Nat : n <= m => n \in S}
<1>1. 0 \in T
  OBVIOUS
<1>2. ASSUME NEW n \in Nat, n \in T PROVE n + 1 \in T
  BY <1>2
<1>3. Nat \subseteq T
  <2> HIDE DEF T
  <2> QED BY <1>1, <1>2, NatSetInduction
<1> QED
  BY <1>3

\* The function in Chosen exists: one for every length, each made from the last.
Choosing(c, s, P, m) ==
  c = [n \in 0..m |-> IF n = 0 THEN <<>> ELSE IF n \in P THEN Append(c[n - 1], s[n]) ELSE c[n - 1]]

\* The recursive function of Chosen is defined by its equation.
LEMMA ChosenDefined ==
  ASSUME NEW s, NEW P, NEW m \in Nat
  PROVE  \E c : Choosing(c, s, P, m)
<1> USE DEF Choosing
<1> DEFINE Fits(c, k) == Choosing(c, s, P, k)
           Defined == {k \in Nat : \E c : Fits(c, k)}
<1>1. 0 \in Defined
  <2> DEFINE c == [n \in 0..0 |-> <<>>]
  <2>1. \A n \in 0..0 : n = 0
    OBVIOUS
  <2>2. Fits(c, 0)
    BY <2>1, Zenon
  <2> QED
    BY <2>2
<1>2. ASSUME NEW k \in Nat, k \in Defined PROVE k + 1 \in Defined
  <2>1. PICK c : Fits(c, k)
    BY <1>2
  <2> DEFINE next == IF k + 1 \in P THEN Append(c[k], s[k + 1]) ELSE c[k]
             d == [n \in 0..(k + 1) |-> IF n = k + 1 THEN next ELSE c[n]]
  <2>2. ASSUME NEW n \in 0..(k + 1)
        PROVE  d[n] = IF n = 0 THEN <<>> ELSE IF n \in P THEN Append(d[n - 1], s[n]) ELSE d[n - 1]
    <3>1. CASE n = k + 1
      <4>1. n # 0 /\ d[n] = next /\ d[n - 1] = c[k] /\ k \in 0..(k + 1) /\ k # k + 1 /\ n - 1 = k
        BY <3>1
      <4> QED
        BY <3>1, <4>1
    <3>2. CASE n = 0
      <4>1. n # k + 1 /\ d[n] = c[n] /\ n \in 0..k
        BY <3>2
      <4> QED
        BY <2>1, <3>2, <4>1
    <3>3. CASE n # k + 1 /\ n # 0
      <4>1. d[n] = c[n] /\ d[n - 1] = c[n - 1] /\ n \in 0..k
        BY <3>3
      <4> QED
        BY <2>1, <3>3, <4>1
    <3> QED
      BY <3>1, <3>2, <3>3
  <2>3. Fits(d, k + 1)
    <3> DEFINE e == [n \in 0..(k + 1) |-> IF n = 0 THEN <<>> ELSE IF n \in P THEN Append(d[n - 1], s[n]) ELSE d[n - 1]]
    <3>1. \A n \in 0..(k + 1) : d[n] = e[n]
      BY <2>2
    <3>2. d = [n \in 0..(k + 1) |-> d[n]]
      OBVIOUS
    <3> HIDE DEF d
    <3>3. d = e
      BY <3>1, <3>2
    <3> QED
      BY <3>3
  <2> HIDE DEF d, Fits
  <2> QED
    BY <2>3, k + 1 \in Nat
<1>3. Nat \subseteq Defined
  <2> HIDE DEF Defined
  <2> QED BY <1>1, <1>2, NatSetInduction
<1> QED
  BY <1>3

\* The elements chosen, each at the position it came from.
LEMMA ChosenIs ==
  ASSUME NEW S, NEW s \in Seq(S), NEW P
  PROVE  /\ Chosen(s, P) \in Seq(S)
         /\ \E at \in [DOMAIN Chosen(s, P) -> DOMAIN s] :
              /\ \A k \in DOMAIN Chosen(s, P) : at[k] \in P /\ Chosen(s, P)[k] = s[at[k]]
              /\ \A k, l \in DOMAIN Chosen(s, P) : k < l => at[k] < at[l]
              /\ \A i \in DOMAIN s : i \in P => \E k \in DOMAIN Chosen(s, P) : at[k] = i
<1> DEFINE all == CHOOSE c : Choosing(c, s, P, Len(s))
<1>0. Len(s) \in Nat /\ DOMAIN s = 1..Len(s)
  BY LenProperties
<1>1. Choosing(all, s, P, Len(s))
  BY <1>0, ChosenDefined
<1>2. Chosen(s, P) = all[Len(s)]
  BY DEF Chosen, Choosing
<1>3. /\ all[0] = <<>>
      /\ \A n \in 0..(Len(s) - 1) : all[n + 1] = IF n + 1 \in P THEN Append(all[n], s[n + 1]) ELSE all[n]
  <2>1. \A n \in 0..Len(s) : all[n] = IF n = 0 THEN <<>>
                                      ELSE IF n \in P THEN Append(all[n - 1], s[n]) ELSE all[n - 1]
    BY <1>1, Zenon DEF Choosing
  <2>2. ASSUME NEW n \in 0..(Len(s) - 1)
        PROVE  all[n + 1] = IF n + 1 \in P THEN Append(all[n], s[n + 1]) ELSE all[n]
    <3>1. n + 1 \in 0..Len(s) /\ n + 1 # 0 /\ n + 1 - 1 = n
      BY <1>0
    <3> HIDE DEF all
    <3> QED BY <2>1, <3>1
  <2>3. 0 \in 0..Len(s)
    BY <1>0
  <2> QED BY <2>1, <2>2, <2>3
<1> DEFINE Fits(q, n) ==
             /\ q \in Seq(S)
             /\ \E at \in [DOMAIN q -> 1..n] :
                  /\ \A k \in DOMAIN q : at[k] \in P /\ q[k] = s[at[k]]
                  /\ \A k, l \in DOMAIN q : k < l => at[k] < at[l]
                  /\ \A i \in 1..n : i \in P => \E k \in DOMAIN q : at[k] = i
           Good(n) == Fits(all[n], n)
           Goods == {n \in Nat : Good(n)}
<1> HIDE DEF all
<1>4. 0 \in Goods
  <2>1. all[0] \in Seq(S) /\ DOMAIN all[0] = {}
    BY <1>3
  <2> DEFINE at == [k \in {} |-> 1]
  <2>2. at \in [DOMAIN all[0] -> 1..0] /\ 1..0 = {}
    BY <2>1
  <2> QED BY <2>1, <2>2
<1>5. ASSUME NEW n \in 0..(Len(s) - 1), n \in Goods PROVE n + 1 \in Goods
  <2>0. n \in Nat /\ n + 1 \in Nat /\ n + 1 \in 1..Len(s) /\ s[n + 1] \in S
    BY <1>0, ElementOfSeq
  <2>1. all[n] \in Seq(S)
    BY <1>5
  <2>2. PICK at \in [DOMAIN all[n] -> 1..n] :
                  /\ \A k \in DOMAIN all[n] : at[k] \in P /\ all[n][k] = s[at[k]]
                  /\ \A k, l \in DOMAIN all[n] : k < l => at[k] < at[l]
                  /\ \A i \in 1..n : i \in P => \E k \in DOMAIN all[n] : at[k] = i
    BY <1>5
  <2>3. CASE n + 1 \in P
    <3> DEFINE more == Append(all[n], s[n + 1])
               end == Len(all[n]) + 1
               to == [k \in DOMAIN more |-> IF k = end THEN n + 1 ELSE at[k]]
    <3>1. all[n + 1] = more
      BY <1>3, <2>3
    <3>2. /\ more \in Seq(S) /\ end \in Nat /\ end \notin DOMAIN all[n] /\ DOMAIN all[n] = 1..(end - 1)
          /\ DOMAIN more = DOMAIN all[n] \cup {end}
          /\ \A i \in DOMAIN all[n] : more[i] = all[n][i]
          /\ more[end] = s[n + 1]
      BY <2>0, <2>1, Appended, LenProperties
    <3> HIDE DEF more, end
    <3>3. /\ to \in [DOMAIN more -> 1..(n + 1)]
          /\ to[end] = n + 1
          /\ \A k \in DOMAIN all[n] : to[k] = at[k] /\ at[k] \in 1..n
      BY <2>0, <2>2, <3>2
    <3> HIDE DEF to
    <3>4. \A k \in DOMAIN more : to[k] \in P /\ more[k] = s[to[k]]
      BY <2>2, <2>3, <3>2, <3>3
    <3>5. \A k, l \in DOMAIN more : k < l => to[k] < to[l]
      BY <2>0, <2>2, <3>2, <3>3
    <3>6. \A i \in 1..(n + 1) : i \in P => \E k \in DOMAIN more : to[k] = i
      <4>1. \A i \in 1..(n + 1) : i \in 1..n \/ i = n + 1
        BY <2>0
      <4> QED BY <2>2, <3>2, <3>3, <4>1
    <3>7. Fits(more, n + 1)
      BY <3>2, <3>3, <3>4, <3>5, <3>6
    <3> HIDE DEF Fits
    <3> QED BY <2>0, <3>1, <3>7
  <2>4. CASE n + 1 \notin P
    <3>1. all[n + 1] = all[n]
      BY <1>3, <2>4
    <3>2. at \in [DOMAIN all[n] -> 1..(n + 1)] /\ \A i \in 1..(n + 1) : i \in P => i \in 1..n
      BY <2>0, <2>4
    <3>3. Good(n + 1)
      BY <2>1, <2>2, <3>1, <3>2
    <3> HIDE DEF Good
    <3> QED BY <2>0, <3>3
  <2> QED BY <2>3, <2>4
<1>6. Len(s) \in Goods
  <2> HIDE DEF Goods
  <2>1. 0..Len(s) \subseteq Goods
    BY <1>0, <1>4, <1>5, IntervalInduction
  <2> QED BY <1>0, <2>1
<1> QED
  BY <1>0, <1>2, <1>6

\* The positions that InOrder gives are those it was given, in their order.
LEMMA InOrderIs ==
  ASSUME NEW S, NEW s \in Seq(S), NEW P
  PROVE  /\ InOrder(s, P) \in Seq(DOMAIN s)
         /\ \A k \in DOMAIN InOrder(s, P) : InOrder(s, P)[k] \in P /\ InOrder(s, P)[k] \in DOMAIN s
         /\ \A i \in DOMAIN s : i \in P => \E k \in DOMAIN InOrder(s, P) : InOrder(s, P)[k] = i
         /\ \A k, l \in DOMAIN InOrder(s, P) : k < l => InOrder(s, P)[k] < InOrder(s, P)[l]
<1> DEFINE all == [i \in DOMAIN s |-> i]
<1>1. all \in Seq(DOMAIN s) /\ DOMAIN all = DOMAIN s
  <2>1. all \in [DOMAIN s -> DOMAIN s]
    OBVIOUS
  <2> HIDE DEF all
  <2> QED BY <2>1, SameLength
<1>2. \A i \in DOMAIN s : all[i] = i
  OBVIOUS
<1>3. InOrder(s, P) = Chosen(all, P)
  BY DEF InOrder
<1> HIDE DEF all
<1> QED
  BY <1>1, <1>2, <1>3, ChosenIs

\* The function in FlattenSeq exists.
Flattening(c, ss, m) == c = [i \in 1..m |-> IF i = 1 THEN ss[i] ELSE c[i - 1] \o ss[i]]

\* The recursive function of FlattenSeq is defined by its equation.
LEMMA FlattenDefined ==
  ASSUME NEW ss, NEW m \in Nat
  PROVE  \E c : Flattening(c, ss, m)
<1> USE DEF Flattening
<1> DEFINE Fits(c, k) == Flattening(c, ss, k)
           Defined == {k \in Nat : \E c : Fits(c, k)}
<1>1. 0 \in Defined
  <2> DEFINE c == [n \in 1..0 |-> <<>>]
  <2>1. \A n \in 1..0 : FALSE
    OBVIOUS
  <2>2. Fits(c, 0)
    BY <2>1, Zenon
  <2> QED
    BY <2>2
<1>2. ASSUME NEW k \in Nat, k \in Defined PROVE k + 1 \in Defined
  <2>1. PICK c : Fits(c, k)
    BY <1>2
  <2> DEFINE next == IF k + 1 = 1 THEN ss[k + 1] ELSE c[k] \o ss[k + 1]
             d == [n \in 1..(k + 1) |-> IF n = k + 1 THEN next ELSE c[n]]
  <2>2. ASSUME NEW n \in 1..(k + 1)
        PROVE  d[n] = IF n = 1 THEN ss[n] ELSE d[n - 1] \o ss[n]
    <3>1. CASE n = k + 1 /\ n = 1
      BY <3>1
    <3>2. CASE n = k + 1 /\ n # 1
      <4>0. n \in 1..(k + 1) /\ k \in 1..(k + 1) /\ k # k + 1 /\ n - 1 = k /\ n = k + 1
        BY <3>2
      <4>1. d[n] = next /\ d[k] = c[k] /\ next = c[k] \o ss[n]
        BY <3>2, <4>0
      <4>2. d[n - 1] = d[k]
        BY <4>0
      <4> HIDE DEF d, next
      <4> QED
        BY <3>2, <4>1, <4>2
    <3>3. CASE n # k + 1
      <4>1. d[n] = c[n] /\ n \in 1..k
        BY <3>3
      <4>2. n # 1 => d[n - 1] = c[n - 1]
        BY <3>3
      <4> HIDE DEF d
      <4> QED
        BY <2>1, <4>1, <4>2
    <3> QED
      BY <3>1, <3>2, <3>3
  <2>3. Fits(d, k + 1)
    <3> DEFINE e == [n \in 1..(k + 1) |-> IF n = 1 THEN ss[n] ELSE d[n - 1] \o ss[n]]
    <3>1. \A n \in 1..(k + 1) : d[n] = e[n]
      BY <2>2
    <3>2. d = [n \in 1..(k + 1) |-> d[n]]
      OBVIOUS
    <3> HIDE DEF d
    <3>3. d = e
      BY <3>1, <3>2
    <3> QED
      BY <3>3
  <2> HIDE DEF d, Fits
  <2> QED
    BY <2>3, k + 1 \in Nat
<1>3. Nat \subseteq Defined
  <2> HIDE DEF Defined
  <2> QED BY <1>1, <1>2, NatSetInduction
<1> QED
  BY <1>3

\* q has the elements of the first n sequences of ss, each once, with the row and the column it came from.
FlatAt(q, ss, n, row, col) ==
  /\ row \in [DOMAIN q -> 1..n] /\ col \in [DOMAIN q -> Nat]
  /\ \A k \in DOMAIN q : col[k] \in DOMAIN ss[row[k]] /\ q[k] = ss[row[k]][col[k]]
  /\ \A k, l \in DOMAIN q : row[k] = row[l] /\ col[k] = col[l] => k = l
  /\ \A i \in 1..n : \A j \in DOMAIN ss[i] : \E k \in DOMAIN q : row[k] = i /\ col[k] = j
Flat(q, ss, n) == \E row, col : FlatAt(q, ss, n, row, col)

\* One more sequence at the end.
LEMMA FlatGrows ==
  ASSUME NEW ss, NEW n \in Nat, NEW front, NEW back, NEW q, NEW m \in Nat, NEW len \in Nat,
         DOMAIN front = 1..m, DOMAIN back = 1..len, DOMAIN q = 1..(m + len),
         \A k \in 1..(m + len) : q[k] = IF k <= m THEN front[k] ELSE back[k - m],
         back = ss[n + 1], Flat(front, ss, n)
  PROVE  Flat(q, ss, n + 1)
<1>1. PICK row, col : FlatAt(front, ss, n, row, col)
  BY DEF Flat
<1>2. /\ row \in [DOMAIN front -> 1..n] /\ col \in [DOMAIN front -> Nat]
      /\ \A k \in DOMAIN front : col[k] \in DOMAIN ss[row[k]] /\ front[k] = ss[row[k]][col[k]]
      /\ \A k, l \in DOMAIN front : row[k] = row[l] /\ col[k] = col[l] => k = l
      /\ \A i \in 1..n : \A j \in DOMAIN ss[i] : \E k \in DOMAIN front : row[k] = i /\ col[k] = j
  BY <1>1 DEF FlatAt
<1>r. PICK r : r = [k \in DOMAIN q |-> IF k <= m THEN row[k] ELSE n + 1]
  OBVIOUS
<1>c. PICK c : c = [k \in DOMAIN q |-> IF k <= m THEN col[k] ELSE k - m]
  OBVIOUS
<1>5. \A k \in DOMAIN q : \/ k \in DOMAIN front /\ k <= m /\ q[k] = front[k]
                          \/ ~(k <= m) /\ k - m \in DOMAIN back /\ q[k] = back[k - m] /\ k \in Nat
  OBVIOUS
<1>6. /\ \A k \in DOMAIN front : k \in DOMAIN q /\ k <= m
      /\ \A j \in DOMAIN back : \E k \in DOMAIN q : ~(k <= m) /\ k - m = j
  <2>1. ASSUME NEW j \in DOMAIN back PROVE \E k \in DOMAIN q : ~(k <= m) /\ k - m = j
    <3> DEFINE k == m + j
    <3>1. k \in DOMAIN q /\ ~(k <= m) /\ k - m = j
      OBVIOUS
    <3> HIDE DEF k
    <3> QED BY <3>1
  <2>2. \A k \in DOMAIN front : k \in DOMAIN q /\ k <= m
    OBVIOUS
  <2> QED BY <2>1, <2>2
<1>7. /\ \A k \in DOMAIN front : r[k] = row[k] /\ c[k] = col[k] /\ row[k] \in 1..n /\ col[k] \in Nat
      /\ \A k \in DOMAIN q : ~(k <= m) => r[k] = n + 1 /\ c[k] = k - m
  BY <1>2, <1>6, <1>r, <1>c
<1>8. r \in [DOMAIN q -> 1..(n + 1)] /\ c \in [DOMAIN q -> Nat]
  <2>1. ASSUME NEW k \in DOMAIN q PROVE r[k] \in 1..(n + 1) /\ c[k] \in Nat
    <3>1. CASE k \in DOMAIN front
      BY <1>7, <3>1
    <3>2. CASE ~(k <= m) /\ k - m \in DOMAIN back
      <4>1. r[k] = n + 1 /\ c[k] = k - m
        BY <1>7, <3>2
      <4> QED BY <3>2, <4>1
    <3> QED BY <1>5, <3>1, <3>2
  <2> QED BY <1>r, <1>c, <2>1
<1>9. \A k \in DOMAIN q : c[k] \in DOMAIN ss[r[k]] /\ q[k] = ss[r[k]][c[k]]
  <2>2. ASSUME NEW k \in DOMAIN q, k \in DOMAIN front /\ k <= m /\ q[k] = front[k]
        PROVE  c[k] \in DOMAIN ss[r[k]] /\ q[k] = ss[r[k]][c[k]]
    BY <1>2, <1>7, <2>2
  <2>3. ASSUME NEW k \in DOMAIN q, ~(k <= m) /\ k - m \in DOMAIN back /\ q[k] = back[k - m]
        PROVE  c[k] \in DOMAIN ss[r[k]] /\ q[k] = ss[r[k]][c[k]]
    <3>1. r[k] = n + 1 /\ c[k] = k - m
      BY <1>7, <2>3
    <3> QED BY <2>3, <3>1
  <2> QED BY <1>5, <2>2, <2>3
<1>10. \A k, l \in DOMAIN q : r[k] = r[l] /\ c[k] = c[l] => k = l
  <2> SUFFICES ASSUME NEW k \in DOMAIN q, NEW l \in DOMAIN q, r[k] = r[l] /\ c[k] = c[l] PROVE k = l
    OBVIOUS
  <2>1. CASE k \in DOMAIN front /\ l \in DOMAIN front
    BY <1>2, <1>7, <2>1
  <2>2. CASE ~(k <= m) /\ ~(l <= m)
    BY <1>5, <1>7, <2>2
  <2>3. \A x \in 1..n : x # n + 1
    OBVIOUS
  <2> QED BY <1>5, <1>7, <2>1, <2>2, <2>3
<1>11. \A i \in 1..(n + 1) : \A j \in DOMAIN ss[i] : \E k \in DOMAIN q : r[k] = i /\ c[k] = j
  <2>1. \A i \in 1..(n + 1) : i \in 1..n \/ i = n + 1
    OBVIOUS
  <2>2. back = ss[n + 1]
    OBVIOUS
  <2>3. ASSUME NEW i \in 1..n, NEW j \in DOMAIN ss[i] PROVE \E k \in DOMAIN q : r[k] = i /\ c[k] = j
    <3>1. PICK k \in DOMAIN front : row[k] = i /\ col[k] = j
      BY <1>2
    <3>2. k \in DOMAIN q /\ r[k] = i /\ c[k] = j
      BY <1>6, <1>7, <3>1
    <3> QED BY <3>2
  <2>4. ASSUME NEW j \in DOMAIN ss[n + 1] PROVE \E k \in DOMAIN q : r[k] = n + 1 /\ c[k] = j
    <3>1. PICK k \in DOMAIN q : ~(k <= m) /\ k - m = j
      BY <1>6, <2>2
    <3> QED BY <1>7, <3>1
  <2> QED BY <2>1, <2>3, <2>4
<1>12. FlatAt(q, ss, n + 1, r, c)
  BY <1>8, <1>9, <1>10, <1>11 DEF FlatAt
<1> QED BY <1>12 DEF Flat

\* Flattening gives every element of every sequence, each once.
LEMMA FlattenIs ==
  ASSUME NEW S, NEW ss \in Seq(Seq(S))
  PROVE  FlattenSeq(ss) \in Seq(S) /\ Flat(FlattenSeq(ss), ss, Len(ss))
<1> DEFINE all == CHOOSE c : Flattening(c, ss, Len(ss))
           Fits(q, n) == q \in Seq(S) /\ Flat(q, ss, n)
<1>0. Len(ss) \in Nat /\ DOMAIN ss = 1..Len(ss) /\ \A i \in 1..Len(ss) : ss[i] \in Seq(S)
  BY LenProperties, ElementOfSeq
<1>e. CASE Len(ss) = 0
  <2>1. FlattenSeq(ss) = ss /\ ss = <<>> /\ DOMAIN ss = {}
    BY <1>0, <1>e, EmptySeq DEF FlattenSeq
  <2> DEFINE none == [k \in {} |-> 1]
  <2>2. none \in [DOMAIN ss -> 1..0] /\ none \in [DOMAIN ss -> Nat] /\ ss \in Seq(S) /\ 1..0 = {}
    BY <2>1
  <2> HIDE DEF none
  <2>3. Flat(ss, ss, 0)
    <3>1. FlatAt(ss, ss, 0, none, none)
      BY <2>1, <2>2 DEF FlatAt
    <3> QED BY <3>1 DEF Flat
  <2> QED BY <1>e, <2>1, <2>2, <2>3
<1> SUFFICES ASSUME Len(ss) # 0 PROVE FlattenSeq(ss) = all[Len(ss)] /\ Fits(all[Len(ss)], Len(ss))
  <2>1. CASE Len(ss) # 0
    BY <1>0, <2>1
  <2> QED BY <1>e, <2>1
<1>1. Flattening(all, ss, Len(ss))
  BY <1>0, FlattenDefined
<1>2. FlattenSeq(ss) = all[Len(ss)]
  BY DEF FlattenSeq, Flattening
<1>3. /\ all[1] = ss[1]
      /\ \A n \in 1..(Len(ss) - 1) : all[n + 1] = all[n] \o ss[n + 1]
  <2>1. \A n \in 1..Len(ss) : all[n] = IF n = 1 THEN ss[n] ELSE all[n - 1] \o ss[n]
    BY <1>1, Zenon DEF Flattening
  <2>2. ASSUME NEW n \in 1..(Len(ss) - 1)
        PROVE  all[n + 1] = all[n] \o ss[n + 1]
    <3> DEFINE k == n + 1
    <3>1. k \in 1..Len(ss) /\ k # 1 /\ k - 1 = n
      BY <1>0
    <3> HIDE DEF all, k
    <3>2. all[k] = all[k - 1] \o ss[k]
      BY <2>1, <3>1, Zenon
    <3>3. all[k] = all[n] \o ss[k]
      BY <3>1, <3>2
    <3> QED BY <3>3 DEF k
  <2>3. 1 \in 1..Len(ss)
    BY <1>0
  <2> HIDE DEF all
  <2>4. all[1] = ss[1]
    BY <2>1, <2>3, Zenon
  <2> QED BY <2>2, <2>4
<1> HIDE DEF all
<1> DEFINE Goods == {n \in Nat : n = 0 \/ Fits(all[n], n)}
<1>4. Fits(all[1], 1)
  <2> DEFINE q == ss[1]
             row == [k \in DOMAIN q |-> 1]
             col == [k \in DOMAIN q |-> k]
  <2>1. q \in Seq(S) /\ DOMAIN q \subseteq Nat
    BY <1>0, LenProperties
  <2>2. row \in [DOMAIN q -> 1..1] /\ col \in [DOMAIN q -> Nat] /\ \A k \in DOMAIN q : row[k] = 1 /\ col[k] = k
    BY <2>1
  <2>3. 1 \in 1..1 /\ \A i \in 1..1 : i = 1
    OBVIOUS
  <2> HIDE DEF row, col
  <2>5. \A k \in DOMAIN q : col[k] \in DOMAIN ss[row[k]] /\ q[k] = ss[row[k]][col[k]]
    BY <2>2
  <2>6. \A k, l \in DOMAIN q : row[k] = row[l] /\ col[k] = col[l] => k = l
    BY <2>2
  <2>7. \A i \in 1..1 : \A j \in DOMAIN ss[i] : \E k \in DOMAIN q : row[k] = i /\ col[k] = j
    BY <2>2, <2>3
  <2> HIDE DEF q
  <2>4. Flat(q, ss, 1)
    <3>1. FlatAt(q, ss, 1, row, col)
      BY <2>2, <2>5, <2>6, <2>7 DEF FlatAt
    <3> QED BY <3>1 DEF Flat
  <2>8. q = all[1]
    BY <1>3 DEF q
  <2> QED BY <2>1, <2>4, <2>8
<1>5. ASSUME NEW n \in 1..(Len(ss) - 1), Fits(all[n], n) PROVE Fits(all[n + 1], n + 1)
  <2>1. n \in Nat /\ n + 1 \in 1..Len(ss)
    BY <1>0
  <2>2. all[n] \in Seq(S) /\ ss[n + 1] \in Seq(S) /\ all[n + 1] = all[n] \o ss[n + 1]
    BY <1>0, <1>3, <1>5, <2>1
  <2>3. Flat(all[n] \o ss[n + 1], ss, n + 1)
    <3>1. Flat(all[n], ss, n)
      BY <1>5
    <3>2. PICK q : q = all[n] \o ss[n + 1]
      OBVIOUS
    <3>3. PICK m \in Nat, len \in Nat : m = Len(all[n]) /\ len = Len(ss[n + 1])
      BY <2>2, LenProperties
    <3>4. /\ DOMAIN all[n] = 1..m /\ DOMAIN ss[n + 1] = 1..len /\ DOMAIN q = 1..(m + len)
          /\ \A k \in 1..(m + len) : q[k] = IF k <= m THEN all[n][k] ELSE ss[n + 1][k - m]
      <4>1. /\ DOMAIN all[n] = 1..m /\ DOMAIN ss[n + 1] = 1..len
        BY <2>2, <3>3, LenProperties
      <4>2. /\ q \in Seq(S) /\ Len(q) = m + len
            /\ \A k \in 1..(m + len) : q[k] = IF k <= m THEN all[n][k] ELSE ss[n + 1][k - m]
        BY <2>2, <3>2, <3>3, ConcatProperties
      <4>3. DOMAIN q = 1..(m + len)
        BY <4>2, LenProperties
      <4> QED BY <4>1, <4>2, <4>3
    <3>5. Flat(q, ss, n + 1)
      BY <2>1, <3>1, <3>4, FlatGrows
    <3> QED BY <3>2, <3>5
  <2>4. all[n] \o ss[n + 1] \in Seq(S)
    BY <2>2, ConcatProperties
  <2> QED BY <2>2, <2>3, <2>4
<1>6. Fits(all[Len(ss)], Len(ss))
  <2> HIDE DEF Fits
  <2>1. 0 \in Goods
    OBVIOUS
  <2>2. ASSUME NEW n \in 0..(Len(ss) - 1), n \in Goods PROVE n + 1 \in Goods
    <3>1. CASE n = 0
      BY <1>4, <3>1
    <3>2. CASE n # 0
      <4>1. n \in 1..(Len(ss) - 1) /\ Fits(all[n], n)
        BY <1>0, <2>2, <3>2
      <4> QED BY <1>5, <4>1
    <3> QED BY <3>1, <3>2
  <2>3. 0..Len(ss) \subseteq Goods
    <3> HIDE DEF Goods
    <3> QED BY <1>0, <2>1, <2>2, IntervalInduction
  <2>4. Len(ss) \in Goods
    BY <1>0, <2>3
  <2> QED BY <1>0, <2>4
<1> QED
  BY <1>2, <1>6
=============================================================================
