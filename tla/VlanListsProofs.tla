--------------------------- MODULE VlanListsProofs ---------------------------
(***************************************************************************)
(* What the two walks over a list of VLANs find, for lists of any length.   *)
(***************************************************************************)
EXTENDS VlanLists, TLAPS, SequenceTheorems, WellFoundedInduction

-----------------------------------------------------------------------------
(* Recursion                                                                *)

\* The least element of a set of numbers: it is the smallest counterexample in
\* the proofs below.
LEMMA Least ==
    ASSUME NEW S, S \subseteq Nat, S # {}
    PROVE  \E m \in S : \A n \in S : m <= n
<1>1. \E x \in S : \A y \in S : ~(<<y, x>> \in OpToRel(<, Nat))
  BY NatLessThanWellFounded, WFMin
<1>2. PICK x \in S : \A y \in S : ~(<<y, x>> \in OpToRel(<, Nat))
  BY <1>1
<1>3. ASSUME NEW y \in S PROVE x <= y
  <2>1. ~(<<y, x>> \in OpToRel(<, Nat))  BY <1>2
  <2> QED  BY <2>1 DEF OpToRel
<1> QED  BY <1>3

\* f collects what is found at each point of a walk, from the one it is given to
\* the one where the walk stops.
Collects(f, D, Stop, next, found) ==
    /\ f = [x \in D |-> f[x]]
    /\ \A x \in D : f[x] = IF x \in Stop THEN {} ELSE found[x] \cup f[next[x]]

\* Such a function exists: it collects from the points the walk reaches.
LEMMA WalkExists ==
    ASSUME NEW D, NEW Stop, NEW next \in [D -> D], NEW found
    PROVE  \E f : Collects(f, D, Stop, next, found)
<1> DEFINE Closed(C) == C \subseteq D /\ \A z \in C : z \notin Stop => next[z] \in C
           Reach(x) == {y \in D : \A C \in SUBSET D : Closed(C) /\ x \in C => y \in C}
           At(x) == IF x \in Stop THEN {} ELSE found[x]
           collected == [x \in D |-> UNION {At(y) : y \in Reach(x)}]
<1>1. ASSUME NEW x \in D, x \in Stop PROVE Reach(x) = {x}
  <2>1. Closed({x})  BY <1>1
  <2>2. \A y \in Reach(x) : y = x  BY <2>1
  <2>3. x \in Reach(x)  OBVIOUS
  <2> QED  BY <2>2, <2>3
<1>2. ASSUME NEW x \in D, x \notin Stop PROVE Reach(x) = {x} \cup Reach(next[x])
  <2> DEFINE C0 == {x} \cup Reach(next[x])
  <2>1. next[x] \in D /\ next[x] \in Reach(next[x])  OBVIOUS
  <2>2. Closed(C0)
    <3>1. C0 \subseteq D  OBVIOUS
    <3>2. ASSUME NEW z \in Reach(next[x]), z \notin Stop PROVE next[z] \in Reach(next[x])
      <4>1. next[z] \in D  OBVIOUS
      <4>2. ASSUME NEW C \in SUBSET D, Closed(C), next[x] \in C PROVE next[z] \in C
        BY <3>2, <4>2
      <4> QED  BY <4>1, <4>2
    <3> QED  BY <3>1, <3>2, <2>1
  <2>3. ASSUME NEW y \in Reach(x) PROVE y \in C0
    <3> C0 \in SUBSET D  BY <2>2
    <3> QED  BY <2>2
  <2>4. ASSUME NEW y \in Reach(next[x]) PROVE y \in Reach(x)
    <3>1. ASSUME NEW C \in SUBSET D, Closed(C), x \in C PROVE y \in C
      <4>1. next[x] \in C  BY <3>1, <1>2
      <4> QED  BY <4>1, <3>1
    <3> QED  BY <3>1
  <2>5. x \in Reach(x)  OBVIOUS
  <2> QED  BY <2>3, <2>4, <2>5
<1> HIDE DEF Reach
<1>3. ASSUME NEW x \in D
      PROVE  collected[x] = IF x \in Stop THEN {} ELSE found[x] \cup collected[next[x]]
  <2>1. CASE x \in Stop  BY <2>1, <1>1
  <2>2. CASE x \notin Stop
    <3>1. next[x] \in D  OBVIOUS
    <3>2. Reach(x) = {x} \cup Reach(next[x])  BY <2>2, <1>2
    <3>3. collected[x] = UNION {At(y) : y \in Reach(x)}  OBVIOUS
    <3>4. collected[next[x]] = UNION {At(y) : y \in Reach(next[x])}  BY <3>1
    <3>5. At(x) = found[x]  BY <2>2
    <3> HIDE DEF At, collected
    <3> QED  BY <2>2, <3>2, <3>3, <3>4, <3>5
  <2> QED  BY <2>1, <2>2
<1>4. collected = [x \in D |-> collected[x]]
  OBVIOUS
<1> HIDE DEF collected
<1> QED  BY <1>3, <1>4 DEF Collects

\* The walk of the correlator does what it says: its equation has a solution.
LEMMA CorrelatorWalk ==
    ASSUME NEW parts \in Seq(Int)
    PROVE  walk_vlan_list[parts] =
             IF Len(parts) < 2 THEN {}
             ELSE IF is_range(parts)
                  THEN (parts[1]..parts[3]) \cup walk_vlan_list[after_range(parts)]
             ELSE {w \in {parts[2]} : is_number(w)} \cup walk_vlan_list[Tail(parts)]
<1> DEFINE D == Seq(Int)
           Stop == {x \in D : Len(x) < 2}
           next == [x \in D |-> IF Len(x) < 2 THEN x ELSE IF is_range(x) THEN after_range(x) ELSE Tail(x)]
           found == [x \in D |-> IF is_range(x) THEN x[1]..x[3] ELSE {w \in {x[2]} : is_number(w)}]
           eq(f) == [x \in D |-> IF Len(x) < 2 THEN {}
                                 ELSE IF is_range(x) THEN (x[1]..x[3]) \cup f[after_range(x)]
                                 ELSE {w \in {x[2]} : is_number(w)} \cup f[Tail(x)]]
<1>1. next \in [D -> D]
  <2> SUFFICES ASSUME NEW x \in D
               PROVE  (IF Len(x) < 2 THEN x ELSE IF is_range(x) THEN after_range(x) ELSE Tail(x)) \in D
    OBVIOUS
  <2>1. CASE Len(x) < 2  BY <2>1
  <2>2. CASE Len(x) >= 2 /\ is_range(x)
    <3>1. x[1] \in Int /\ <<x[1]>> \in Seq(Int)  BY <2>2
    <3>2. SubSeq(x, 4, Len(x)) \in Seq(Int)  BY <2>2 DEF is_range
    <3> QED  BY <3>1, <3>2, <2>2 DEF after_range
  <2>3. CASE Len(x) >= 2 /\ ~is_range(x)  BY <2>3
  <2> QED  BY <2>1, <2>2, <2>3
<1>2. PICK f : Collects(f, D, Stop, next, found)
  <2> HIDE DEF D, Stop, next, found, eq
  <2> QED  BY <1>1, WalkExists, ZenonT(30)
<1>3. ASSUME NEW x \in D
      PROVE  (IF x \in Stop THEN {} ELSE found[x] \cup f[next[x]])
               = (IF Len(x) < 2 THEN {}
                  ELSE IF is_range(x) THEN (x[1]..x[3]) \cup f[after_range(x)]
                  ELSE {w \in {x[2]} : is_number(w)} \cup f[Tail(x)])
  <2>1. CASE Len(x) < 2  BY <2>1
  <2>2. CASE Len(x) >= 2 /\ is_range(x)
    <3>1. found[x] = x[1]..x[3] /\ next[x] = after_range(x) /\ x \notin Stop  BY <2>2
    <3> QED  BY <3>1, <2>2
  <2>3. CASE Len(x) >= 2 /\ ~is_range(x)
    <3>1. found[x] = {w \in {x[2]} : is_number(w)} /\ next[x] = Tail(x) /\ x \notin Stop  BY <2>3
    <3> QED  BY <3>1, <2>3
  <2> QED  BY <2>1, <2>2, <2>3
<1>4. f = eq(f)  
  <2> HIDE DEF Stop, next, found
  <2> QED  BY <1>2, <1>3 DEF Collects
<1>5. walk_vlan_list = CHOOSE w : w = eq(w)  BY DEF walk_vlan_list
<1>6. walk_vlan_list = eq(walk_vlan_list)  
  <2> HIDE DEF eq
  <2> QED  BY <1>4, <1>5
<1> QED  BY <1>6

\* So does the walk of the Huawei parser.
LEMMA ParserWalk ==
    ASSUME NEW tokens \in Seq(Int)
    PROVE  walk_huawei_vlan_list[tokens] =
             IF tokens = <<>> THEN {}
             ELSE IF is_range(tokens)
                  THEN ascending_range(tokens[1], tokens[3])
                         \cup walk_huawei_vlan_list[SubSeq(tokens, 4, Len(tokens))]
             ELSE ({tokens[1]} \cap valid_vlans) \cup walk_huawei_vlan_list[Tail(tokens)]
<1> DEFINE D == Seq(Int)
           Stop == {<<>>}
           next == [x \in D |-> IF x = <<>> THEN x
                                ELSE IF is_range(x) THEN SubSeq(x, 4, Len(x)) ELSE Tail(x)]
           found == [x \in D |-> IF is_range(x) THEN ascending_range(x[1], x[3])
                                 ELSE {x[1]} \cap valid_vlans]
           eq(f) == [x \in D |-> IF x = <<>> THEN {}
                                 ELSE IF is_range(x)
                                      THEN ascending_range(x[1], x[3]) \cup f[SubSeq(x, 4, Len(x))]
                                 ELSE ({x[1]} \cap valid_vlans) \cup f[Tail(x)]]
<1>1. next \in [D -> D]
  <2> SUFFICES ASSUME NEW x \in D
               PROVE  (IF x = <<>> THEN x
                       ELSE IF is_range(x) THEN SubSeq(x, 4, Len(x)) ELSE Tail(x)) \in D
    OBVIOUS
  <2>1. CASE x = <<>>  BY <2>1
  <2>2. CASE x # <<>> /\ is_range(x)
    <3>1. SubSeq(x, 4, Len(x)) \in Seq(Int)  BY <2>2 DEF is_range
    <3> QED  BY <3>1, <2>2
  <2>3. CASE x # <<>> /\ ~is_range(x)  BY <2>3
  <2> QED  BY <2>1, <2>2, <2>3
<1>2. PICK f : Collects(f, D, Stop, next, found)
  <2> HIDE DEF D, Stop, next, found, eq
  <2> QED  BY <1>1, WalkExists, ZenonT(30)
<1>3. ASSUME NEW x \in D
      PROVE  (IF x \in Stop THEN {} ELSE found[x] \cup f[next[x]])
               = (IF x = <<>> THEN {}
                  ELSE IF is_range(x)
                       THEN ascending_range(x[1], x[3]) \cup f[SubSeq(x, 4, Len(x))]
                  ELSE ({x[1]} \cap valid_vlans) \cup f[Tail(x)])
  <2>1. CASE x = <<>>  BY <2>1
  <2>2. CASE x # <<>> /\ is_range(x)
    <3>1. /\ found[x] = ascending_range(x[1], x[3])
          /\ next[x] = SubSeq(x, 4, Len(x))
          /\ x \notin Stop
      BY <2>2
    <3> QED  BY <3>1, <2>2
  <2>3. CASE x # <<>> /\ ~is_range(x)
    <3>1. found[x] = {x[1]} \cap valid_vlans /\ next[x] = Tail(x) /\ x \notin Stop  BY <2>3
    <3> QED  BY <3>1, <2>3
  <2> QED  BY <2>1, <2>2, <2>3
<1>4. f = eq(f)
  <2> HIDE DEF Stop, next, found
  <2> QED  BY <1>2, <1>3 DEF Collects
<1>5. walk_huawei_vlan_list = CHOOSE w : w = eq(w)  BY DEF walk_huawei_vlan_list
<1>6. walk_huawei_vlan_list = eq(walk_huawei_vlan_list)
  <2> HIDE DEF eq
  <2> QED  BY <1>4, <1>5
<1> QED  BY <1>6

-----------------------------------------------------------------------------
(* The walks, by the position in the list                                   *)

\* What is left of the list from the k-th word on.
Left(words, k) == SubSeq(words, k, Len(words))

\* The k-th word is a To between two numbers.
RangeAt(words, k) ==
    /\ k > 1 /\ k < Len(words)
    /\ words[k] = To
    /\ is_number(words[k - 1]) /\ is_number(words[k + 1])

\* The words that are left are those of the list, in their places.
LEMMA LeftWords ==
    ASSUME NEW words \in Seq(Int), NEW k \in 1..Len(words) + 1
    PROVE  /\ Left(words, k) \in Seq(Int)
           /\ Len(Left(words, k)) = Len(words) + 1 - k
           /\ \A i \in 1..Len(words) + 1 - k : Left(words, k)[i] = words[k + i - 1]
  BY DEF Left

\* The n-th word is the one at its place after the words before k.
LEMMA LeftWord ==
    ASSUME NEW words \in Seq(Int), NEW k \in 1..Len(words) + 1, NEW n \in k..Len(words),
           NEW i, i = n + 1 - k
    PROVE  Left(words, k)[i] = words[n]
<1>1. Len(words) \in Nat
  OBVIOUS
<1>2. i \in 1..Len(words) + 1 - k /\ k + i - 1 = n
  BY <1>1
<1> QED  BY <1>2, LeftWords

\* The first of them is the k-th word, and the rest what is left from the next
\* word on.
LEMMA LeftRecursive ==
    ASSUME NEW words \in Seq(Int), NEW k \in 1..Len(words)
    PROVE  /\ Left(words, k) # <<>>
           /\ Tail(Left(words, k)) = Left(words, k + 1)
<1>1. Len(words) \in Nat /\ k \in 1..Len(words) + 1 /\ Len(words) \in k..Len(words)
  OBVIOUS
<1>2. Left(words, k) \in Seq(Int) /\ Len(Left(words, k)) > 0
  BY <1>1, LeftWords
<1>3. Tail(Left(words, k)) = Left(words, k + 1)
  BY <1>1, HeadTailOfSubSeq DEF Left
<1> QED  BY <1>2, <1>3

\* Three words on.
LEMMA LeftAfterThree ==
    ASSUME NEW words \in Seq(Int), NEW k \in 1..Len(words) - 2
    PROVE  SubSeq(Left(words, k), 4, Len(Left(words, k))) = Left(words, k + 3)
<1> DEFINE l == Left(words, k)
           s == SubSeq(l, 4, Len(l))
           r == Left(words, k + 3)
<1>0. Len(words) \in Nat /\ k \in 1..Len(words) + 1 /\ k + 3 \in 1..Len(words) + 1
  OBVIOUS
<1>1. l \in Seq(Int) /\ Len(l) = Len(words) + 1 - k
  BY <1>0, LeftWords
<1>2. r \in Seq(Int) /\ Len(r) = Len(words) + 1 - (k + 3)
  BY <1>0, LeftWords
<1>3. ASSUME NEW i \in 1..Len(words) - 2 - k
      PROVE  l[i + 3] = words[k + i + 2] /\ r[i] = words[k + i + 2]
  <2>1. k + i + 2 \in k..Len(words) /\ k + i + 2 \in k + 3..Len(words)  BY <1>0
  <2>2. i + 3 = (k + i + 2) + 1 - k /\ i = (k + i + 2) + 1 - (k + 3)  BY <1>0
  <2> QED  BY <1>0, <2>1, <2>2, LeftWord
<1> HIDE DEF l, r
<1>4. s \in Seq(Int) /\ Len(s) = Len(words) - 2 - k
  BY <1>0, <1>1
<1>5. ASSUME NEW i \in 1..Len(words) - 2 - k PROVE s[i] = l[i + 3]
  <2>1. s = [j \in 1..Len(l) - 4 + 1 |-> l[4 + j - 1]]  BY <1>0, <1>1, SubSeqProperties
  <2>2. i \in 1..Len(l) - 4 + 1 /\ 4 + i - 1 = i + 3  BY <1>0, <1>1
  <2> QED  BY <2>1, <2>2
<1> HIDE DEF s
<1>6. Len(s) = Len(r)
  BY <1>0, <1>2, <1>4
<1>7. \A i \in 1..Len(s) : s[i] = r[i]
  BY <1>3, <1>4, <1>5
<1>8. s = r
  BY <1>2, <1>4, <1>6, <1>7, SeqEqual
<1> QED  BY <1>8 DEF s, l, r

\* What is read before the k-th word is read when the list begins with before.
From(words, before, k) == <<before>> \o Left(words, k)

\* It is a list of numbers, with before in front.
LEMMA FromWords ==
    ASSUME NEW words \in Seq(Int), NEW before \in Int, NEW k \in 1..Len(words) + 1
    PROVE  /\ From(words, before, k) \in Seq(Int)
           /\ Len(From(words, before, k)) = Len(words) + 2 - k
           /\ From(words, before, k)[1] = before
           /\ Tail(From(words, before, k)) = Left(words, k)
<1> DEFINE l == Left(words, k)
<1>1. l \in Seq(Int) /\ Len(l) = Len(words) + 1 - k
  BY LeftWords
<1>2. Len(words) \in Nat /\ <<before>> \in Seq(Int) /\ Len(<<before>>) = 1 /\ <<before>>[1] = before
  OBVIOUS
<1> HIDE DEF l
<1> DEFINE f == <<before>> \o l
<1>3. f \in Seq(Int) /\ Len(f) = Len(words) + 2 - k /\ f[1] = before
  BY <1>1, <1>2, ConcatProperties
<1>4. \A i \in 1..Len(l) : f[i + 1] = l[i]
  BY <1>1, <1>2, ConcatProperties
<1>5. Tail(f) \in Seq(Int) /\ Len(Tail(f)) = Len(l)
  BY <1>1, <1>2, <1>3
<1>6. \A i \in 1..Len(l) : Tail(f)[i] = f[i + 1]
  BY <1>1, <1>3, <1>5
<1> HIDE DEF f
<1>7. \A i \in 1..Len(Tail(f)) : Tail(f)[i] = l[i]
  BY <1>4, <1>5, <1>6
<1>8. Tail(f) = l
  BY <1>1, <1>5, <1>7, SeqEqual
<1> QED  BY <1>3, <1>8 DEF f, l, From

\* The word after before is the k-th of the list.
LEMMA FromWord ==
    ASSUME NEW words \in Seq(Int), NEW before \in Int, NEW k \in 1..Len(words) + 1,
           NEW n \in k..Len(words), NEW i, i = n + 2 - k
    PROVE  From(words, before, k)[i] = words[n]
<1>0. Len(words) \in Nat /\ i \in 2..Len(words) + 2 - k
  OBVIOUS
<1>1. /\ Left(words, k) \in Seq(Int) /\ Len(Left(words, k)) = Len(words) + 1 - k
  BY LeftWords
<1>2. From(words, before, k)[i] = Left(words, k)[i - 1]
  BY <1>0, <1>1, ConcatProperties DEF From
<1>3. Left(words, k)[i - 1] = words[n]
  <2>1. i - 1 = n + 1 - k  BY <1>0
  <2> QED  BY <2>1, LeftWord
<1> QED  BY <1>2, <1>3

\* One step of the parser at the k-th word.
LEMMA ParserStep ==
    ASSUME NEW words \in Seq(Int), NEW k \in 1..Len(words) + 1
    PROVE  walk_huawei_vlan_list[Left(words, k)] =
             IF k > Len(words) THEN {}
             ELSE IF RangeAt(words, k + 1)
                  THEN ascending_range(words[k], words[k + 2])
                         \cup walk_huawei_vlan_list[Left(words, k + 3)]
             ELSE ({words[k]} \cap valid_vlans) \cup walk_huawei_vlan_list[Left(words, k + 1)]
<1> DEFINE l == Left(words, k)
<1>0. Len(words) \in Nat
  OBVIOUS
<1>1. l \in Seq(Int) /\ Len(l) = Len(words) + 1 - k
  BY LeftWords
<1>2. CASE k > Len(words)
  <2>1. l = <<>>  BY <1>0, <1>1, <1>2
  <2> QED  BY <1>1, <1>2, <2>1, ParserWalk
<1>3. CASE k <= Len(words)
  <2>1. l # <<>> /\ Tail(l) = Left(words, k + 1)
    BY <1>0, <1>3, LeftRecursive
  <2>2. l[1] = words[k]
    BY <1>0, <1>3, LeftWord
  <2>3. CASE k + 2 <= Len(words)
    <3>1. l[2] = words[k + 1]
      <4>1. k + 1 \in k..Len(words) /\ 2 = (k + 1) + 1 - k  BY <1>0, <2>3
      <4> QED  BY <4>1, LeftWord
    <3>2. l[3] = words[k + 2]
      <4>1. k + 2 \in k..Len(words) /\ 3 = (k + 2) + 1 - k  BY <1>0, <2>3
      <4> QED  BY <4>1, LeftWord
    <3>3. SubSeq(l, 4, Len(l)) = Left(words, k + 3)
      BY <1>0, <2>3, LeftAfterThree
    <3>4. is_range(l) <=> RangeAt(words, k + 1)
      <4>1. Len(l) > 2 /\ k + 1 > 1 /\ k + 1 < Len(words)  BY <1>0, <1>1, <2>3
      <4>2. (k + 1) - 1 = k /\ (k + 1) + 1 = k + 2  BY <1>0
      <4> HIDE DEF l
      <4> QED  BY <4>1, <4>2, <2>2, <3>1, <3>2 DEF is_range, RangeAt
    <3> HIDE DEF l
    <3>5. walk_huawei_vlan_list[l] =
            IF RangeAt(words, k + 1)
            THEN ascending_range(words[k], words[k + 2])
                   \cup walk_huawei_vlan_list[Left(words, k + 3)]
            ELSE ({words[k]} \cap valid_vlans) \cup walk_huawei_vlan_list[Left(words, k + 1)]
      <4>1. CASE is_range(l)  BY <4>1, <1>1, <2>1, <2>2, <3>2, <3>3, <3>4, ParserWalk
      <4>2. CASE ~is_range(l)  BY <4>2, <1>1, <2>1, <2>2, <3>4, ParserWalk
      <4> QED  BY <4>1, <4>2
    <3>6. ~(k > Len(words))  BY <1>0, <1>3
    <3> QED  BY <3>5, <3>6 DEF l
  <2>4. CASE k + 2 > Len(words)
    <3>1. ~is_range(l) /\ ~RangeAt(words, k + 1)
      BY <1>0, <1>1, <2>4 DEF is_range, RangeAt
    <3> HIDE DEF l
    <3>2. walk_huawei_vlan_list[l] =
            ({words[k]} \cap valid_vlans) \cup walk_huawei_vlan_list[Left(words, k + 1)]
      BY <1>1, <2>1, <2>2, <3>1, ParserWalk
    <3>3. ~(k > Len(words))  BY <1>0, <1>3
    <3> QED  BY <3>1, <3>2, <3>3 DEF l
  <2> QED  BY <1>0, <2>3, <2>4
<1> QED  BY <1>0, <1>2, <1>3

\* One step of the correlator at the k-th word, with the word before it.
LEMMA CorrelatorStep ==
    ASSUME NEW words \in Seq(Int), NEW before \in Int, NEW k \in 1..Len(words) + 1
    PROVE  walk_vlan_list[From(words, before, k)] =
             IF k > Len(words) THEN {}
             ELSE IF k < Len(words) /\ words[k] = To /\ is_number(before) /\ is_number(words[k + 1])
                  THEN (before..words[k + 1]) \cup walk_vlan_list[From(words, before, k + 2)]
             ELSE {w \in {words[k]} : is_number(w)} \cup walk_vlan_list[From(words, words[k], k + 1)]
<1> DEFINE f == From(words, before, k)
<1>0. Len(words) \in Nat
  OBVIOUS
<1>1. f \in Seq(Int) /\ Len(f) = Len(words) + 2 - k /\ f[1] = before /\ Tail(f) = Left(words, k)
  BY FromWords
<1>2. CASE k > Len(words)
  <2>1. Len(f) < 2  BY <1>0, <1>1, <1>2
  <2> QED  BY <1>1, <1>2, <2>1, CorrelatorWalk
<1>3. CASE k <= Len(words)
  <2>0. ~(Len(f) < 2)  BY <1>0, <1>1, <1>3
  <2>1. f[2] = words[k]
    <3>1. k \in k..Len(words) /\ 2 = k + 2 - k  BY <1>0, <1>3
    <3> QED  BY <3>1, FromWord
  <2>2. Tail(f) = From(words, words[k], k + 1)
    <3>1. Len(words) \in k..Len(words) /\ k \in 1..Len(words)  BY <1>0, <1>3
    <3> QED  BY <1>1, <3>1, SubSeqRecursiveFirst DEF From, Left
  <2>3. CASE k < Len(words)
    <3>1. f[3] = words[k + 1]
      <4>1. k + 1 \in k..Len(words) /\ 3 = (k + 1) + 2 - k  BY <1>0, <2>3
      <4> QED  BY <4>1, FromWord
    <3>2. is_range(f) <=> words[k] = To /\ is_number(before) /\ is_number(words[k + 1])
      <4>1. Len(f) > 2  BY <1>0, <1>1, <2>3
      <4> HIDE DEF f
      <4> QED  BY <4>1, <1>1, <2>1, <3>1 DEF is_range
    <3>3. SubSeq(f, 4, Len(f)) = Left(words, k + 2)
      <4> DEFINE s == SubSeq(f, 4, Len(f))
                 r == Left(words, k + 2)
      <4>1. r \in Seq(Int) /\ Len(r) = Len(words) + 1 - (k + 2)
        BY <1>0, <2>3, LeftWords
      <4>2. ASSUME NEW i \in 1..Len(words) - 1 - k
            PROVE  f[i + 3] = words[k + i + 1] /\ r[i] = words[k + i + 1]
        <5>1. k + i + 1 \in k..Len(words) /\ k + i + 1 \in k + 2..Len(words)  BY <1>0
        <5>2. i + 3 = (k + i + 1) + 2 - k /\ i = (k + i + 1) + 1 - (k + 2)  BY <1>0
        <5>3. k + 2 \in 1..Len(words) + 1  BY <1>0, <2>3
        <5>4. f[i + 3] = words[k + i + 1]  BY <5>1, <5>2, FromWord
        <5>5. r[i] = words[k + i + 1]  BY <5>1, <5>2, <5>3, LeftWord
        <5> QED  BY <5>4, <5>5
      <4> HIDE DEF f, r
      <4>3. s \in Seq(Int) /\ Len(s) = Len(words) - 1 - k
        BY <1>0, <1>1, <2>3
      <4>4. ASSUME NEW i \in 1..Len(words) - 1 - k PROVE s[i] = f[i + 3]
        <5>1. s = [j \in 1..Len(f) - 4 + 1 |-> f[4 + j - 1]]  BY <1>0, <1>1, <2>3, SubSeqProperties
        <5>2. i \in 1..Len(f) - 4 + 1 /\ 4 + i - 1 = i + 3  BY <1>0, <1>1
        <5> QED  BY <5>1, <5>2
      <4> HIDE DEF s
      <4>5. Len(s) = Len(r)
        BY <1>0, <4>1, <4>3
      <4>6. \A i \in 1..Len(s) : s[i] = r[i]
        BY <4>2, <4>3, <4>4
      <4>7. s = r
        BY <4>1, <4>3, <4>5, <4>6, SeqEqual
      <4> QED  BY <4>7 DEF s, r
    <3>4. after_range(f) = From(words, before, k + 2)
      BY <1>1, <3>3 DEF after_range, From
    <3> HIDE DEF f
    <3>5. CASE is_range(f)
      <4>1. walk_vlan_list[f] = (f[1]..f[3]) \cup walk_vlan_list[after_range(f)]
        BY <1>1, <2>0, <3>5, CorrelatorWalk
      <4>2. ~(k > Len(words))  BY <1>0, <1>3
      <4> QED  BY <1>1, <2>3, <3>1, <3>2, <3>4, <3>5, <4>1, <4>2 DEF f
    <3>6. CASE ~is_range(f)
      <4>1. walk_vlan_list[f] = {w \in {f[2]} : is_number(w)} \cup walk_vlan_list[Tail(f)]
        BY <1>1, <2>0, <3>6, CorrelatorWalk
      <4>2. ~(k > Len(words))  BY <1>0, <1>3
      <4> QED  BY <2>1, <2>2, <3>2, <3>6, <4>1, <4>2 DEF f
    <3> QED  BY <3>5, <3>6
  <2>4. CASE ~(k < Len(words))
    <3>1. ~is_range(f)
      BY <1>0, <1>1, <1>3, <2>4 DEF is_range
    <3> HIDE DEF f
    <3>2. walk_vlan_list[f] = {w \in {f[2]} : is_number(w)} \cup walk_vlan_list[Tail(f)]
      BY <1>1, <2>0, <3>1, CorrelatorWalk
    <3>3. ~(k > Len(words))  BY <1>0, <1>3
    <3> QED  BY <2>1, <2>2, <2>4, <3>2, <3>3 DEF f
  <2> QED  BY <2>3, <2>4
<1> QED  BY <1>0, <1>2, <1>3

-----------------------------------------------------------------------------
(* What the walks find                                                      *)

\* Induction from the end of a list to its beginning: what holds at a position
\* when it holds at all later ones holds at every position.
LEMMA FromTheEnd ==
    ASSUME NEW n \in Nat, NEW Good,
           \A k \in 1..n + 1 : (\A j \in k + 1..n + 1 : j \in Good) => k \in Good
    PROVE  \A k \in 1..n + 1 : k \in Good
<1> DEFINE Bad == {d \in Nat : d <= n /\ n + 1 - d \notin Good}
<1>1. SUFFICES ASSUME NEW k \in 1..n + 1, k \notin Good PROVE FALSE
  OBVIOUS
<1>2. n + 1 - k \in Bad
  <2>1. n + 1 - k \in Nat /\ n + 1 - k <= n /\ n + 1 - (n + 1 - k) = k  BY <1>1
  <2> QED  BY <1>1, <2>1
<1>3. PICK d \in Bad : \A e \in Bad : d <= e
  <2>1. Bad \subseteq Nat /\ Bad # {}  BY <1>2
  <2> HIDE DEF Bad
  <2> QED  BY <2>1, Least
<1>4. n + 1 - d \in 1..n + 1 /\ n + 1 - d \notin Good
  OBVIOUS
<1>5. PICK j \in (n + 1 - d) + 1..n + 1 : j \notin Good
  BY <1>4
<1>6. n + 1 - j \in Bad /\ n + 1 - j < d
  <2>1. n + 1 - j \in Nat /\ n + 1 - j <= n /\ n + 1 - (n + 1 - j) = j /\ n + 1 - j < d
    BY <1>5
  <2> QED  BY <1>5, <2>1
<1> QED  BY <1>3, <1>6

\* The VLAN is strictly inside a range of the list.
Inside(words, v) ==
    \E k \in DOMAIN words : RangeAt(words, k) /\ words[k - 1] < v /\ v < words[k + 1]

\* What the correlator finds in a list, whatever its words are, is one of its
\* numbers or strictly inside one of its ranges.  (The word it remembers may be
\* the start of ranges that it took out; then the last of them ends before the
\* word it is at, and what lies between is accounted for.)
THEOREM CorrelatorFinds ==
    ASSUME NEW words \in Seq(Int), NEW v \in expand_vlan_list(words)
    PROVE  v \in numbers_in(words) \/ Inside(words, v)
<1> DEFINE N == Len(words)
           Accounted == v \in numbers_in(words) \/ Inside(words, v)
           Between(before, k) ==
               is_number(before) /\ k > 1 /\ before <= v /\ v <= words[k - 1]
           Good == {k \in 1..N + 1 : \A before \in Int :
                       /\ is_number(before) => k > 1 /\ is_number(words[k - 1])
                       /\ v \in walk_vlan_list[From(words, before, k)]
                       => Accounted \/ Between(before, k)}
<1>0. N \in Nat /\ v \in Int /\ v > 0
  <2>1. v \in valid_vlans  BY DEF expand_vlan_list
  <2> QED  BY <2>1 DEF valid_vlans
<1>1. \A k \in 1..N : is_number(words[k]) /\ words[k] = v => Accounted
  BY DEF numbers_in
<1>2. ASSUME NEW k \in 1..N + 1, \A j \in k + 1..N + 1 : j \in Good PROVE k \in Good
  <2> SUFFICES ASSUME NEW before \in Int,
                      is_number(before) => k > 1 /\ is_number(words[k - 1]),
                      v \in walk_vlan_list[From(words, before, k)]
               PROVE  Accounted \/ Between(before, k)
    OBVIOUS
  <2>1. CASE k > N
    <3>1. walk_vlan_list[From(words, before, k)] = {}  BY <2>1, CorrelatorStep
    <3> QED  BY <3>1
  <2>2. CASE k < N /\ words[k] = To /\ is_number(before) /\ is_number(words[k + 1])
    <3>1. walk_vlan_list[From(words, before, k)]
            = (before..words[k + 1]) \cup walk_vlan_list[From(words, before, k + 2)]
      <4>1. ~(k > N)  BY <1>0, <2>2
      <4> QED  BY <2>2, <4>1, CorrelatorStep
    <3>2. k + 2 \in k + 1..N + 1 /\ k + 2 > 1 /\ (k + 2) - 1 = k + 1
      BY <1>0, <2>2
    <3>3. before <= v /\ v <= words[k + 1] => Accounted \/ Between(before, k)
      <4> SUFFICES ASSUME before <= v, v <= words[k + 1], ~Between(before, k) PROVE Accounted
        OBVIOUS
      <4>1. k > 1 /\ is_number(words[k - 1]) /\ k - 1 \in 1..N /\ k + 1 \in 1..N /\ k \in 1..N
        BY <1>0, <2>2
      <4>2. words[k - 1] \in Int /\ words[k + 1] \in Int  BY <4>1
      <4>3. words[k - 1] < v  BY <1>0, <2>2, <4>1, <4>2
      <4>4. CASE v = words[k + 1]  BY <4>4, <4>1, <2>2, <1>1
      <4>5. CASE v < words[k + 1]
        <5>1. RangeAt(words, k)  BY <2>2, <4>1 DEF RangeAt
        <5> QED  BY <4>1, <4>3, <4>5, <5>1 DEF Inside
      <4> QED  BY <4>2, <4>4, <4>5, <1>0
    <3>4. CASE v \in before..words[k + 1]
      <4>1. before <= v /\ v <= words[k + 1]  BY <3>4
      <4> QED  BY <3>3, <4>1
    <3>5. CASE v \in walk_vlan_list[From(words, before, k + 2)]
      <4>1. k + 2 \in Good  BY <1>2, <3>2
      <4>2. Accounted \/ Between(before, k + 2)
        <5>1. is_number(before) => k + 2 > 1 /\ is_number(words[(k + 2) - 1])  BY <2>2, <3>2
        <5> QED  BY <4>1, <3>5, <5>1
      <4>3. Between(before, k + 2) => before <= v /\ v <= words[k + 1]  BY <3>2
      <4> HIDE DEF Between, Accounted
      <4> QED  BY <3>3, <4>2, <4>3
    <3> QED  BY <3>1, <3>4, <3>5
  <2>3. CASE k <= N /\ ~(k < N /\ words[k] = To /\ is_number(before) /\ is_number(words[k + 1]))
    <3>1. walk_vlan_list[From(words, before, k)]
            = {w \in {words[k]} : is_number(w)} \cup walk_vlan_list[From(words, words[k], k + 1)]
      <4>1. ~(k > N)  BY <1>0, <2>3
      <4> QED  BY <2>3, <4>1, CorrelatorStep
    <3>2. k \in 1..N /\ words[k] \in Int /\ k + 1 \in k + 1..N + 1 /\ k + 1 > 1 /\ (k + 1) - 1 = k
      BY <1>0, <2>3
    <3>3. CASE v = words[k] /\ is_number(words[k])  BY <1>1, <3>2, <3>3
    <3>4. CASE v \in walk_vlan_list[From(words, words[k], k + 1)]
      <4>1. k + 1 \in Good  BY <1>2, <3>2
      <4>2. Accounted \/ Between(words[k], k + 1)
        <5>1. is_number(words[k]) => k + 1 > 1 /\ is_number(words[(k + 1) - 1])  BY <3>2
        <5> QED  BY <4>1, <3>2, <3>4, <5>1
      <4>3. Between(words[k], k + 1) => is_number(words[k]) /\ words[k] = v
        BY <1>0, <3>2
      <4> HIDE DEF Between, Accounted
      <4> QED  BY <1>1, <3>2, <4>2, <4>3
    <3> QED  BY <3>1, <3>3, <3>4
  <2> QED  BY <1>0, <2>1, <2>2, <2>3
<1>3. \A k \in 1..N + 1 : k \in Good
  <2> HIDE DEF Good, N
  <2> QED  BY <1>0, <1>2, FromTheEnd
<1>4. v \in walk_vlan_list[From(words, To, 1)]
  <2>1. Left(words, 1) = words  BY SubSeqFull DEF Left
  <2> QED  BY <2>1 DEF From, expand_vlan_list
<1>5. 1 \in Good /\ To \in Int /\ ~is_number(To)
  BY <1>0, <1>3 DEF To, is_number
<1> QED  BY <1>4, <1>5

\* A VLAN is a number, and not the word To.
LEMMA Vlans ==
    \A v \in valid_vlans : v \in Int /\ is_number(v) /\ v # To
  BY DEF valid_vlans, is_number, To

\* A range that the parser keeps is one of VLANs, and one that ascends is kept.
LEMMA AscendingRange ==
    ASSUME NEW first \in Int, NEW last \in Int, is_number(first)
    PROVE  /\ ascending_range(first, last) \subseteq valid_vlans
           /\ first < last /\ last \in valid_vlans =>
                 ascending_range(first, last) = {v \in valid_vlans : first <= v /\ v <= last}
<1>1. CASE first < last /\ last \in valid_vlans
  <2>1. last <= 4094 /\ first >= 1  BY <1>1 DEF valid_vlans, is_number
  <2>2. ascending_range(first, last) = first..last  BY <1>1 DEF ascending_range
  <2>3. ASSUME NEW v \in first..last PROVE v \in valid_vlans /\ first <= v /\ v <= last
    BY <2>1 DEF valid_vlans
  <2>4. ASSUME NEW v \in valid_vlans, first <= v, v <= last PROVE v \in first..last
    BY <2>4 DEF valid_vlans
  <2> QED  BY <2>2, <2>3, <2>4
<1>2. CASE ~(first < last /\ last \in valid_vlans)
  BY <1>2 DEF ascending_range
<1> QED  BY <1>1, <1>2

\* The parser finds VLANs only, whatever the words are.
THEOREM ParserFindsVlans ==
    ASSUME NEW words \in Seq(Int)
    PROVE  expand_huawei_vlan_list(words) \subseteq valid_vlans
<1> DEFINE N == Len(words)
           Good == {k \in 1..N + 1 : walk_huawei_vlan_list[Left(words, k)] \subseteq valid_vlans}
<1>0. N \in Nat
  OBVIOUS
<1>1. ASSUME NEW k \in 1..N + 1, \A j \in k + 1..N + 1 : j \in Good PROVE k \in Good
  <2>1. CASE k > N
    <3>1. walk_huawei_vlan_list[Left(words, k)] = {}  BY <2>1, ParserStep
    <3> QED  BY <3>1
  <2>2. CASE k <= N /\ RangeAt(words, k + 1)
    <3>1. k + 1 < N /\ k + 3 \in k + 1..N + 1 /\ is_number(words[k]) /\ k \in 1..N /\ k + 2 \in 1..N
      BY <1>0, <2>2 DEF RangeAt
    <3>2. walk_huawei_vlan_list[Left(words, k)]
            = ascending_range(words[k], words[k + 2]) \cup walk_huawei_vlan_list[Left(words, k + 3)]
      <4>1. ~(k > N)  BY <1>0, <2>2
      <4> QED  BY <2>2, <4>1, ParserStep
    <3>3. ascending_range(words[k], words[k + 2]) \subseteq valid_vlans
      <4>1. words[k] \in Int /\ words[k + 2] \in Int  BY <3>1
      <4> QED  BY <3>1, <4>1, AscendingRange
    <3>4. walk_huawei_vlan_list[Left(words, k + 3)] \subseteq valid_vlans  BY <1>1, <3>1
    <3> QED  BY <3>2, <3>3, <3>4
  <2>3. CASE k <= N /\ ~RangeAt(words, k + 1)
    <3>1. walk_huawei_vlan_list[Left(words, k)]
            = ({words[k]} \cap valid_vlans) \cup walk_huawei_vlan_list[Left(words, k + 1)]
      <4>1. ~(k > N)  BY <1>0, <2>3
      <4> QED  BY <2>3, <4>1, ParserStep
    <3>2. k + 1 \in k + 1..N + 1  BY <1>0, <2>3
    <3>3. walk_huawei_vlan_list[Left(words, k + 1)] \subseteq valid_vlans  BY <1>1, <3>2
    <3> QED  BY <3>1, <3>3
  <2> QED  BY <1>0, <2>1, <2>2, <2>3
<1>2. \A k \in 1..N + 1 : k \in Good
  <2> HIDE DEF Good, N
  <2> QED  BY <1>0, <1>1, FromTheEnd
<1>3. 1 \in Good
  BY <1>0, <1>2
<1>4. Left(words, 1) = words
  BY SubSeqFull DEF Left
<1> QED  BY <1>3, <1>4 DEF expand_huawei_vlan_list

\* What the words from the k-th on mean.
WrittenFrom(words, k) ==
    {v \in valid_vlans : \E j \in k..Len(words) :
        \/ words[j] = v
        \/ words[j] = To /\ words[j - 1] <= v /\ v <= words[j + 1]}

\* The facts about one word of a list as VRP writes it.
LEMMA ListWord ==
    ASSUME NEW words, is_vlan_list(words), NEW k \in 1..Len(words)
    PROVE  /\ words \in Seq(Int) /\ words[k] \in Int
           /\ words[k] # To => words[k] \in valid_vlans /\ is_number(words[k])
           /\ words[k] = To =>
                 /\ k > 1 /\ k < Len(words)
                 /\ words[k - 1] \in valid_vlans /\ words[k + 1] \in valid_vlans
                 /\ is_number(words[k - 1]) /\ is_number(words[k + 1])
                 /\ words[k - 1] < words[k + 1]
                 /\ k + 2 <= Len(words) => words[k + 2] # To
                 /\ words[k + 1] # To
<1>1. words \in Seq(Int) /\ k \in DOMAIN words /\ words[k] \in Int /\ Len(words) \in Nat
  BY DEF is_vlan_list
<1>2. \A v \in valid_vlans : is_number(v) /\ v # To
  BY DEF valid_vlans, is_number, To
<1>3. k + 2 <= Len(words) => k + 2 \in DOMAIN words
  BY <1>1
<1> QED  BY <1>1, <1>2, <1>3 DEF is_vlan_list

\* The correlator finds in such a list the VLANs that it means.
THEOREM CorrelatorExpands ==
    ASSUME NEW words, is_vlan_list(words)
    PROVE  expand_vlan_list(words) = written(words)
<1> DEFINE N == Len(words)
           Good == {k \in 1..N + 1 : \A before \in Int :
                       (k <= N /\ words[k] = To => before = words[k - 1])
                       => walk_vlan_list[From(words, before, k)] \cap valid_vlans
                            = WrittenFrom(words, k)}
<1>0. words \in Seq(Int) /\ N \in Nat
  BY DEF is_vlan_list
<1>1. ASSUME NEW k \in 1..N + 1, \A j \in k + 1..N + 1 : j \in Good PROVE k \in Good
  <2> SUFFICES ASSUME NEW before \in Int, k <= N /\ words[k] = To => before = words[k - 1]
               PROVE  walk_vlan_list[From(words, before, k)] \cap valid_vlans = WrittenFrom(words, k)
    OBVIOUS
  <2>1. CASE k > N
    <3>1. walk_vlan_list[From(words, before, k)] = {}  BY <1>0, <2>1, CorrelatorStep
    <3>2. WrittenFrom(words, k) = {}  BY <1>0, <2>1 DEF WrittenFrom
    <3> QED  BY <3>1, <3>2
  <2>2. CASE k <= N /\ words[k] = To
    <3>0. k \in 1..N  BY <1>0, <2>2
    <3>1. /\ k > 1 /\ k < N /\ before = words[k - 1]
          /\ is_number(before) /\ is_number(words[k + 1])
          /\ words[k - 1] \in valid_vlans /\ words[k + 1] \in valid_vlans
          /\ words[k - 1] < words[k + 1] /\ words[k + 1] # To
          /\ k + 2 <= N => words[k + 2] # To
      BY <2>2, <3>0, ListWord
    <3>2. walk_vlan_list[From(words, before, k)]
            = (before..words[k + 1]) \cup walk_vlan_list[From(words, before, k + 2)]
      <4>1. ~(k > N)  BY <1>0, <2>2
      <4> QED  BY <1>0, <2>2, <3>1, <4>1, CorrelatorStep
    <3>3. k + 2 \in k + 1..N + 1 /\ k + 2 \in 1..N + 1 /\ k + 1 \in 1..N  BY <1>0, <3>1
    <3>4. walk_vlan_list[From(words, before, k + 2)] \cap valid_vlans = WrittenFrom(words, k + 2)
      BY <1>1, <3>1, <3>3
    <3>5. ASSUME NEW v \in valid_vlans
          PROVE  v \in WrittenFrom(words, k)
                   <=> v \in before..words[k + 1] \/ v \in WrittenFrom(words, k + 2)
      <4>1. \A j \in k..N : j = k \/ j = k + 1 \/ j \in k + 2..N  BY <1>0
      <4>2. k \in k..N /\ k + 2..N \subseteq k..N  BY <1>0, <2>2
      <4>3. v \in Int /\ words[k - 1] \in Int /\ words[k + 1] \in Int /\ v # To
        BY <3>1, Vlans
      <4>4. v \in before..words[k + 1] <=> words[k - 1] <= v /\ v <= words[k + 1]
        BY <3>1, <4>3
      <4>5. v = words[k + 1] => v \in before..words[k + 1]  BY <3>1, <4>3
      <4> QED  BY <2>2, <3>1, <4>1, <4>2, <4>3, <4>4, <4>5 DEF WrittenFrom
    <3>6. WrittenFrom(words, k) \subseteq valid_vlans  BY DEF WrittenFrom
    <3> QED  BY <3>2, <3>4, <3>5, <3>6
  <2>3. CASE k <= N /\ words[k] # To
    <3>0. k \in 1..N  BY <1>0, <2>3
    <3>1. words[k] \in valid_vlans /\ is_number(words[k]) /\ words[k] \in Int
      BY <2>3, <3>0, ListWord
    <3>2. walk_vlan_list[From(words, before, k)]
            = {w \in {words[k]} : is_number(w)} \cup walk_vlan_list[From(words, words[k], k + 1)]
      <4>1. ~(k > N)  BY <1>0, <2>3
      <4> QED  BY <1>0, <2>3, <4>1, CorrelatorStep
    <3>3. k + 1 \in k + 1..N + 1 /\ (k + 1) - 1 = k  BY <1>0, <2>3
    <3>4. walk_vlan_list[From(words, words[k], k + 1)] \cap valid_vlans = WrittenFrom(words, k + 1)
      BY <1>1, <3>1, <3>3
    <3>5. ASSUME NEW v \in valid_vlans
          PROVE  v \in WrittenFrom(words, k) <=> v = words[k] \/ v \in WrittenFrom(words, k + 1)
      <4>1. \A j \in k..N : j = k \/ j \in k + 1..N  BY <1>0
      <4>2. k \in k..N /\ k + 1..N \subseteq k..N  BY <1>0, <2>3
      <4> QED  BY <2>3, <4>1, <4>2 DEF WrittenFrom
    <3>6. WrittenFrom(words, k) \subseteq valid_vlans  BY DEF WrittenFrom
    <3> QED  BY <3>1, <3>2, <3>4, <3>5, <3>6
  <2> QED  BY <1>0, <2>1, <2>2, <2>3
<1>2. \A k \in 1..N + 1 : k \in Good
  <2> HIDE DEF Good, N
  <2> QED  BY <1>0, <1>1, FromTheEnd
<1>3. 1 <= N => words[1] # To
  BY <1>0, ListWord
<1>4. From(words, To, 1) = <<To>> \o words
  BY <1>0, SubSeqFull DEF Left, From
<1>5. walk_vlan_list[From(words, To, 1)] \cap valid_vlans = WrittenFrom(words, 1)
  <2>1. 1 \in Good /\ To \in Int  BY <1>0, <1>2 DEF To
  <2> QED  BY <1>3, <2>1
<1>6. WrittenFrom(words, 1) = written(words)
  <2>1. DOMAIN words = 1..Len(words)  BY <1>0
  <2> QED  BY <2>1 DEF WrittenFrom, written
<1> QED  BY <1>4, <1>5, <1>6 DEF expand_vlan_list

\* So does the parser.
THEOREM ParserExpands ==
    ASSUME NEW words, is_vlan_list(words)
    PROVE  expand_huawei_vlan_list(words) = written(words)
<1> DEFINE N == Len(words)
           Good == {k \in 1..N + 1 :
                       (k <= N => words[k] # To)
                       => walk_huawei_vlan_list[Left(words, k)] = WrittenFrom(words, k)}
<1>0. words \in Seq(Int) /\ N \in Nat
  BY DEF is_vlan_list
<1>1. ASSUME NEW k \in 1..N + 1, \A j \in k + 1..N + 1 : j \in Good PROVE k \in Good
  <2> SUFFICES ASSUME k <= N => words[k] # To
               PROVE  walk_huawei_vlan_list[Left(words, k)] = WrittenFrom(words, k)
    OBVIOUS
  <2>1. CASE k > N
    <3>1. walk_huawei_vlan_list[Left(words, k)] = {}  BY <1>0, <2>1, ParserStep
    <3>2. WrittenFrom(words, k) = {}  BY <1>0, <2>1 DEF WrittenFrom
    <3> QED  BY <3>1, <3>2
  <2>2. CASE k < N /\ words[k + 1] = To
    <3>0. k \in 1..N /\ k + 1 \in 1..N /\ (k + 1) - 1 = k /\ (k + 1) + 1 = k + 2 /\ (k + 1) + 2 = k + 3
      BY <1>0, <2>2
    <3>1. /\ k + 1 < N /\ is_number(words[k]) /\ is_number(words[k + 2])
          /\ words[k] \in valid_vlans /\ words[k + 2] \in valid_vlans
          /\ words[k] < words[k + 2] /\ words[k + 2] # To
          /\ k + 3 <= N => words[k + 3] # To
      BY <2>2, <3>0, ListWord
    <3>2. RangeAt(words, k + 1)  BY <2>2, <3>0, <3>1 DEF RangeAt
    <3>3. walk_huawei_vlan_list[Left(words, k)]
            = ascending_range(words[k], words[k + 2]) \cup walk_huawei_vlan_list[Left(words, k + 3)]
      <4>1. ~(k > N)  BY <1>0, <2>2
      <4> QED  BY <1>0, <3>2, <4>1, ParserStep
    <3>4. k + 3 \in k + 1..N + 1 /\ k + 2 \in 1..N  BY <1>0, <3>1
    <3>5. walk_huawei_vlan_list[Left(words, k + 3)] = WrittenFrom(words, k + 3)
      BY <1>1, <3>1, <3>4
    <3>6. words[k] \in Int /\ words[k + 2] \in Int  BY <3>1, Vlans
    <3>7. ascending_range(words[k], words[k + 2])
            = {v \in valid_vlans : words[k] <= v /\ v <= words[k + 2]}
      BY <3>1, <3>6, AscendingRange
    <3>8. ASSUME NEW v \in valid_vlans
          PROVE  v \in WrittenFrom(words, k)
                   <=> (words[k] <= v /\ v <= words[k + 2]) \/ v \in WrittenFrom(words, k + 3)
      <4>1. \A j \in k..N : j = k \/ j = k + 1 \/ j = k + 2 \/ j \in k + 3..N  BY <1>0
      <4>2. k + 1 \in k..N /\ k + 3..N \subseteq k..N  BY <1>0, <2>2
      <4>3. v \in Int /\ v # To  BY Vlans
      <4>4. v = words[k] \/ v = words[k + 2] => words[k] <= v /\ v <= words[k + 2]
        BY <3>1, <3>6, <4>3
      <4> QED  BY <2>2, <3>0, <3>1, <4>1, <4>2, <4>3, <4>4 DEF WrittenFrom
    <3>9. WrittenFrom(words, k) \subseteq valid_vlans /\ WrittenFrom(words, k + 3) \subseteq valid_vlans
      BY DEF WrittenFrom
    <3> QED  BY <3>3, <3>5, <3>7, <3>8, <3>9
  <2>3. CASE k <= N /\ ~(k < N /\ words[k + 1] = To)
    <3>0. k \in 1..N /\ k + 1 \in k + 1..N + 1  BY <1>0, <2>3
    <3>1. words[k] \in valid_vlans  BY <2>3, <3>0, ListWord
    <3>2. ~RangeAt(words, k + 1)  BY <1>0, <2>3 DEF RangeAt
    <3>3. walk_huawei_vlan_list[Left(words, k)]
            = ({words[k]} \cap valid_vlans) \cup walk_huawei_vlan_list[Left(words, k + 1)]
      <4>1. ~(k > N)  BY <1>0, <2>3
      <4> QED  BY <1>0, <3>2, <4>1, ParserStep
    <3>4. k + 1 <= N => words[k + 1] # To  BY <1>0, <2>3
    <3>5. walk_huawei_vlan_list[Left(words, k + 1)] = WrittenFrom(words, k + 1)
      BY <1>1, <3>0, <3>4
    <3>6. ASSUME NEW v \in valid_vlans
          PROVE  v \in WrittenFrom(words, k) <=> v = words[k] \/ v \in WrittenFrom(words, k + 1)
      <4>1. \A j \in k..N : j = k \/ j \in k + 1..N  BY <1>0
      <4>2. k \in k..N /\ k + 1..N \subseteq k..N  BY <1>0, <2>3
      <4> QED  BY <2>3, <4>1, <4>2 DEF WrittenFrom
    <3>7. WrittenFrom(words, k) \subseteq valid_vlans /\ WrittenFrom(words, k + 1) \subseteq valid_vlans
      BY DEF WrittenFrom
    <3> QED  BY <3>1, <3>3, <3>5, <3>6, <3>7
  <2> QED  BY <1>0, <2>1, <2>2, <2>3
<1>2. \A k \in 1..N + 1 : k \in Good
  <2> HIDE DEF Good, N
  <2> QED  BY <1>0, <1>1, FromTheEnd
<1>3. 1 <= N => words[1] # To
  BY <1>0, ListWord
<1>4. Left(words, 1) = words
  BY <1>0, SubSeqFull DEF Left
<1>5. walk_huawei_vlan_list[Left(words, 1)] = WrittenFrom(words, 1)
  <2>1. 1 \in Good  BY <1>0, <1>2
  <2> QED  BY <1>3, <2>1
<1>6. WrittenFrom(words, 1) = written(words)
  <2>1. DOMAIN words = 1..Len(words)  BY <1>0
  <2> QED  BY <2>1 DEF WrittenFrom, written
<1> QED  BY <1>4, <1>5, <1>6 DEF expand_huawei_vlan_list
=============================================================================
