---------------------------- MODULE AuditTrailProofs ---------------------------
(***************************************************************************)
(* What the audit log, the Merkle trees over it and their anchors promise, *)
(* for any number of entries, leaves, workers, engines and faults.         *)
(*                                                                         *)
(* Induction is by the least counterexample: the order of the natural      *)
(* numbers is well founded, and that is a fact about two sets.             *)
(***************************************************************************)
EXTENDS AuditTrail, FiniteSetTheorems, SequenceTheorems, TLAPS

(* The order of the natural numbers, as a set of pairs.                     *)
Less == {p \in Nat \X Nat : p[1] < p[2]}

(* There is no way down without end.                                        *)
LEMMA LessWellFounded == IsWellFoundedOn(Less, Nat)
BY NatLessThanWellFounded DEF OpToRel, Less

(* A set of natural numbers has a least member.                             *)
LEMMA Least ==
    ASSUME NEW T \in SUBSET Nat, T # {}
    PROVE  \E n \in T : \A m \in T : n <= m
<1>1. PICK n \in T : \A m \in T : ~(<<m, n>> \in Less)
  BY LessWellFounded, WFMin
<1>2. \A m \in T : ~(m < n)
  BY <1>1 DEF Less
<1> QED
  BY <1>2

(* What holds of 0 and of the next number holds of all.                     *)
LEMMA Induction ==
    ASSUME NEW P, 0 \in P, \A n \in Nat : n \in P => n + 1 \in P
    PROVE  Nat \subseteq P
<1> DEFINE T == Nat \ P
<1>1. SUFFICES ASSUME T # {} PROVE FALSE
  OBVIOUS
<1>2. PICK n \in T : \A m \in T : n <= m
  BY <1>1, Least
<1>3. n - 1 \in Nat /\ n - 1 \notin T
  BY <1>2
<1> QED
  BY <1>3

(* A finite set of natural numbers has a greatest member.                   *)
LEMMA Greatest ==
    ASSUME NEW T \in SUBSET Nat, IsFiniteSet(T), T # {}
    PROVE  \E n \in T : \A m \in T : m <= n
<1> DEFINE Sizes == {n \in Nat : \A S \in SUBSET Nat :
                        IsFiniteSet(S) /\ S # {} /\ Cardinality(S) = n =>
                            \E max \in S : \A m \in S : m <= max}
<1>1. 0 \in Sizes
  BY FS_EmptySet
<1>2. ASSUME NEW n \in Nat, n \in Sizes
      PROVE  n + 1 \in Sizes
  <2>1. SUFFICES ASSUME NEW S \in SUBSET Nat, IsFiniteSet(S), S # {}, Cardinality(S) = n + 1
                 PROVE  \E max \in S : \A m \in S : m <= max
    OBVIOUS
  <2>2. PICK x \in S : TRUE
    BY <2>1
  <2>3. IsFiniteSet(S \ {x}) /\ Cardinality(S \ {x}) = n
    <3>1. Cardinality(S \ {x}) = Cardinality(S) - 1 /\ IsFiniteSet(S \ {x})
      BY <2>1, FS_RemoveElement
    <3> QED
      BY <2>1, <3>1
  <2>4. CASE S \ {x} = {}
    BY <2>4
  <2>5. CASE S \ {x} # {}
    <3>1. PICK y \in S \ {x} : \A m \in S \ {x} : m <= y
      BY <1>2, <2>3, <2>5
    <3>2. x <= y \/ y <= x
      OBVIOUS
    <3> QED
      BY <3>1, <3>2
  <2> QED
    BY <2>4, <2>5
<1> HIDE DEF Sizes
<1>3. Cardinality(T) \in Sizes
  BY <1>1, <1>2, Induction, FS_CardinalityType
<1> QED
  BY <1>3 DEF Sizes

-------------------------------------------------------------------------------
(* Entries in the order of time.                                            *)

(* Finitely many entries with timestamps of their own.                      *)
Timed(entries) ==
    /\ IsFiniteSet(entries)
    /\ \A e \in entries : e.at \in Nat
    /\ \A d, e \in entries : d.at = e.at => d = e

Upto(entries, e) == {d \in entries : d.at <= e.at}

Rank(entries, e) == Cardinality(Upto(entries, e))

(* What is left of entries in an order is in the same order.                *)
LEMMA TimedSubset ==
    ASSUME NEW entries, Timed(entries), NEW some \in SUBSET entries
    PROVE  Timed(some)
BY FS_Subset DEF Timed

(* A later entry has a higher rank.                                         *)
LEMMA RankGrows ==
    ASSUME NEW entries, Timed(entries)
    PROVE  /\ \A e \in entries : Rank(entries, e) \in 1 .. Cardinality(entries)
           /\ \A d, e \in entries : d.at < e.at => Rank(entries, d) < Rank(entries, e)
<1>1. Cardinality(entries) \in Nat
  BY FS_CardinalityType DEF Timed
<1>2. ASSUME NEW e \in entries
      PROVE  /\ IsFiniteSet(Upto(entries, e))
             /\ Cardinality(Upto(entries, e)) \in Nat \ {0}
             /\ Cardinality(Upto(entries, e)) <= Cardinality(entries)
  <2>1. Upto(entries, e) \in SUBSET entries /\ e \in Upto(entries, e)
    BY DEF Upto, Timed
  <2>2. IsFiniteSet(Upto(entries, e)) /\ Cardinality(Upto(entries, e)) <= Cardinality(entries)
    BY <2>1, FS_Subset DEF Timed
  <2>3. Cardinality(Upto(entries, e)) \in Nat /\ Cardinality(Upto(entries, e)) # 0
    BY <2>1, <2>2, FS_CardinalityType, FS_EmptySet
  <2> QED
    BY <2>2, <2>3
<1>3. ASSUME NEW d \in entries, NEW e \in entries, d.at < e.at
      PROVE  Cardinality(Upto(entries, d)) < Cardinality(Upto(entries, e))
  <2>1. Upto(entries, d) \in SUBSET Upto(entries, e)
    BY <1>3 DEF Upto, Timed
  <2>2. e \in Upto(entries, e) /\ e \notin Upto(entries, d)
    BY <1>3 DEF Upto, Timed
  <2>3. /\ Cardinality(Upto(entries, d)) <= Cardinality(Upto(entries, e))
        /\ Cardinality(Upto(entries, d)) # Cardinality(Upto(entries, e))
    BY <1>2, <2>1, <2>2, FS_Subset
  <2> QED
    BY <1>2, <2>3
<1> QED
  BY <1>1, <1>2, <1>3 DEF Rank

(* Every rank is taken, by one entry.                                       *)
LEMMA RanksTaken ==
    ASSUME NEW entries, Timed(entries)
    PROVE  /\ \A d, e \in entries : Rank(entries, d) = Rank(entries, e) => d = e
           /\ \A i \in 1 .. Cardinality(entries) : \E e \in entries : Rank(entries, e) = i
<1> DEFINE places == 1 .. Cardinality(entries)
           rank == [e \in entries |-> Rank(entries, e)]
<1>1. \A d, e \in entries : Rank(entries, d) = Rank(entries, e) => d = e
  <2> SUFFICES ASSUME NEW d \in entries, NEW e \in entries, Rank(entries, d) = Rank(entries, e)
               PROVE  d = e
    OBVIOUS
  <2>1. /\ Rank(entries, d) \in Int /\ Rank(entries, e) \in Int
        /\ ~(d.at < e.at) /\ ~(e.at < d.at)
    BY RankGrows
  <2> QED
    BY <2>1 DEF Timed
<1>2. Cardinality(entries) \in Nat
  BY FS_CardinalityType DEF Timed
<1>3. IsFiniteSet(places) /\ Cardinality(places) = Cardinality(entries)
  <2>1. /\ IsFiniteSet(1 .. Cardinality(entries))
        /\ Cardinality(1 .. Cardinality(entries)) =
              IF 1 > Cardinality(entries) THEN 0 ELSE Cardinality(entries) - 1 + 1
    BY <1>2, FS_Interval
  <2> QED
    BY <1>2, <2>1
<1>4. rank \in [entries -> places] /\ \A e \in entries : rank[e] = Rank(entries, e)
  BY RankGrows
<1> HIDE DEF rank, places
<1>5. rank \in Injection(entries, places)
  BY <1>1, <1>4 DEF Injection, IsInjective
<1>6. rank \in Surjection(entries, places)
  BY <1>3, <1>5, FS_Injection
<1>7. \A i \in places : \E e \in entries : rank[e] = i
  BY <1>6 DEF Surjection
<1> QED
  BY <1>1, <1>4, <1>7 DEF places

(* ByTime lists every entry at its rank.                                    *)
LEMMA ListedByTime ==
    ASSUME NEW entries, Timed(entries)
    PROVE  /\ Cardinality(entries) \in Nat
           /\ ByTime(entries) \in Seq(entries)
           /\ Len(ByTime(entries)) = Cardinality(entries)
           /\ \A i \in 1 .. Cardinality(entries) :
                 ByTime(entries)[i] \in entries /\ Rank(entries, ByTime(entries)[i]) = i
           /\ \A e \in entries : ByTime(entries)[Rank(entries, e)] = e
<1>1. Cardinality(entries) \in Nat
  BY FS_CardinalityType DEF Timed
<1>2. ByTime(entries) = [i \in 1 .. Cardinality(entries) |->
                            CHOOSE e \in entries : Rank(entries, e) = i]
  BY DEF ByTime, Rank, Upto
<1>3. \A i \in 1 .. Cardinality(entries) :
          ByTime(entries)[i] \in entries /\ Rank(entries, ByTime(entries)[i]) = i
  BY <1>2, RanksTaken
<1>4. \A e \in entries : ByTime(entries)[Rank(entries, e)] = e
  BY <1>3, RankGrows, RanksTaken
<1>5. ByTime(entries) \in [1 .. Cardinality(entries) -> entries]
  BY <1>2, <1>3
<1>6. ByTime(entries) \in Seq(entries) /\ Len(ByTime(entries)) = Cardinality(entries)
  BY <1>1, <1>5
<1> QED
  BY <1>1, <1>3, <1>4, <1>6

(* The list tells the order of time.                                        *)
LEMMA ListRises ==
    ASSUME NEW entries, Timed(entries),
           NEW i \in 1 .. Cardinality(entries), NEW j \in 1 .. Cardinality(entries)
    PROVE  i < j <=> ByTime(entries)[i].at < ByTime(entries)[j].at
<1> DEFINE d == ByTime(entries)[i]
           e == ByTime(entries)[j]
<1>1. d \in entries /\ e \in entries /\ Rank(entries, d) = i /\ Rank(entries, e) = j
  BY ListedByTime
<1>2. Cardinality(entries) \in Nat
  BY ListedByTime
<1> HIDE DEF d, e
<1>3. /\ d.at < e.at => i < j
      /\ e.at < d.at => j < i
  BY <1>1, RankGrows
<1>4. d.at = e.at => i = j
  BY <1>1 DEF Timed
<1>5. d.at \in Nat /\ e.at \in Nat
  BY <1>1 DEF Timed
<1>6. i < j <=> d.at < e.at
  BY <1>2, <1>3, <1>4, <1>5
<1> QED
  BY <1>6 DEF d, e

(* The entries before some moment are listed first.                         *)
LEMMA EarlierFirst ==
    ASSUME NEW entries, Timed(entries), NEW some \in SUBSET entries,
           \A d \in some, e \in entries \ some : d.at < e.at
    PROVE  /\ Cardinality(some) <= Cardinality(entries)
           /\ ByTime(some) = SubSeq(ByTime(entries), 1, Cardinality(some))
<1>1. Timed(some)
  BY TimedSubset
<1>2. Cardinality(some) <= Cardinality(entries)
  BY FS_Subset DEF Timed
<1>3. \A d \in some : Rank(some, d) = Rank(entries, d)
  <2> SUFFICES ASSUME NEW d \in some PROVE Upto(some, d) = Upto(entries, d)
    BY DEF Rank
  <2> QED
    BY DEF Upto, Timed
<1>4. /\ Cardinality(some) \in Nat /\ Cardinality(entries) \in Nat
      /\ Len(ByTime(some)) = Cardinality(some) /\ ByTime(some) \in Seq(entries)
      /\ ByTime(entries) \in Seq(entries) /\ Len(ByTime(entries)) = Cardinality(entries)
  BY <1>1, ListedByTime, SeqMonotonic
<1>5. \A i \in 1 .. Cardinality(some) : ByTime(some)[i] = ByTime(entries)[i]
  <2> SUFFICES ASSUME NEW i \in 1 .. Cardinality(some)
               PROVE  ByTime(some)[i] = ByTime(entries)[i]
    OBVIOUS
  <2>1. ByTime(some)[i] \in some /\ Rank(some, ByTime(some)[i]) = i
    BY <1>1, ListedByTime
  <2>2. Rank(entries, ByTime(some)[i]) = i
    BY <1>3, <2>1
  <2> QED
    BY <2>1, <2>2, ListedByTime
<1>6. SubSeq(ByTime(entries), 1, Cardinality(some)) \in Seq(entries)
      /\ Len(SubSeq(ByTime(entries), 1, Cardinality(some))) = Cardinality(some)
      /\ \A i \in 1 .. Cardinality(some) :
            SubSeq(ByTime(entries), 1, Cardinality(some))[i] = ByTime(entries)[i]
  BY <1>2, <1>4
<1> QED
  BY <1>2, <1>4, <1>5, <1>6, SeqEqual

-------------------------------------------------------------------------------
(* The levels of a Merkle tree.                                             *)

Members(s) == {s[i] : i \in 1 .. Len(s)}

(* A sequence that is not empty, of anything.                               *)
Row(level) == level \in Seq(Members(level)) /\ level # <<>>

Up(level) == IF Len(level) <= 1 THEN level ELSE Parents(level)

(* A sequence of members of a set is one of its own members.                *)
LEMMA RowOf ==
    ASSUME NEW S, NEW s \in Seq(S), s # <<>>
    PROVE  Row(s) /\ Len(s) \in Nat \ {0}
<1>1. Len(s) \in Nat \ {0} /\ s \in [1 .. Len(s) -> S]
  BY EmptySeq, LenProperties
<1>2. s \in [1 .. Len(s) -> Members(s)]
  BY <1>1 DEF Members
<1> QED
  BY <1>1, <1>2 DEF Row

(* A level made even repeats its last member.                               *)
LEMMA EvenKnown ==
    ASSUME NEW level, Row(level)
    PROVE  /\ Len(level) \in Nat \ {0}
           /\ Even(level) \in Seq(Members(level))
           /\ Len(Even(level)) = 2 * ((Len(level) + 1) \div 2)
           /\ \A j \in 1 .. Len(Even(level)) :
                 Even(level)[j] = IF j <= Len(level) THEN level[j] ELSE level[Len(level)]
<1> DEFINE len == Len(level)
           even == Even(level)
<1>1. len \in Nat \ {0} /\ level \in Seq(Members(level)) /\ level[len] \in Members(level)
  BY EmptySeq, LenProperties, ElementOfSeq DEF Row
<1>2. CASE len % 2 = 1
  <2>1. even = Append(level, level[len])
    BY <1>2 DEF Even
  <2> HIDE DEF even
  <2>2. /\ even \in Seq(Members(level)) /\ Len(even) = len + 1
        /\ \A j \in 1 .. len + 1 : even[j] = IF j <= len THEN level[j] ELSE level[len]
    BY <1>1, <2>1
  <2>3. len + 1 = 2 * ((len + 1) \div 2)
    BY <1>1, <1>2
  <2> QED
    BY <1>1, <2>2, <2>3 DEF even
<1>3. CASE len % 2 # 1
  <2>1. even = level /\ len = 2 * ((len + 1) \div 2)
    BY <1>1, <1>3 DEF Even
  <2> QED
    BY <1>1, <2>1
<1> QED
  BY <1>2, <1>3

(* Half as many parents as children, rounded up, and who their children are.*)
LEMMA ParentsKnown ==
    ASSUME NEW level, Row(level)
    PROVE  /\ Len(level) \in Nat \ {0}
           /\ Row(Parents(level))
           /\ Len(Parents(level)) = (Len(level) + 1) \div 2
           /\ \A i \in 1 .. (Len(level) + 1) \div 2 :
                 Parents(level)[i] =
                     <<level[2 * i - 1], IF 2 * i <= Len(level) THEN level[2 * i] ELSE level[2 * i - 1]>>
<1> DEFINE len == Len(level)
           half == (len + 1) \div 2
           even == Even(level)
<1>1. len \in Nat \ {0}
  BY EvenKnown
<1>2. /\ even \in Seq(Members(level))
      /\ Len(even) = 2 * half
      /\ \A j \in 1 .. Len(even) : even[j] = IF j <= len THEN level[j] ELSE level[len]
  BY EvenKnown
<1>3. half \in Nat \ {0} /\ (2 * half) \div 2 = half /\ 2 * half <= len + 1
  BY <1>1
<1>4. Parents(level) = [i \in 1 .. half |-> <<even[2 * i - 1], even[2 * i]>>]
  BY <1>2, <1>3 DEF Parents
<1> HIDE DEF half, even
<1>5. /\ \A i \in 1 .. half : Parents(level)[i] \in Members(level) \X Members(level)
      /\ \A i \in 1 .. half : Parents(level)[i] = <<even[2 * i - 1], even[2 * i]>>
  <2>1. \A i \in 1 .. half : even[2 * i - 1] \in Members(level) /\ even[2 * i] \in Members(level)
    BY <1>2, <1>3, ElementOfSeq
  <2> QED
    BY <1>4, <2>1
<1>6. Parents(level) \in Seq(Members(level) \X Members(level)) /\ Len(Parents(level)) = half
  <2>1. Parents(level) \in [1 .. half -> Members(level) \X Members(level)]
    BY <1>4, <1>5
  <2> QED
    BY <1>3, <2>1
<1>7. Row(Parents(level))
  BY <1>3, <1>6, RowOf, EmptySeq
<1>8. \A i \in 1 .. half :
          /\ even[2 * i - 1] = level[2 * i - 1]
          /\ even[2 * i] = IF 2 * i <= len THEN level[2 * i] ELSE level[2 * i - 1]
  <2> SUFFICES ASSUME NEW i \in 1 .. half
               PROVE  /\ even[2 * i - 1] = level[2 * i - 1]
                      /\ even[2 * i] = IF 2 * i <= len THEN level[2 * i] ELSE level[2 * i - 1]
    OBVIOUS
  <2>1. 2 * i - 1 \in 1 .. Len(even) /\ 2 * i \in 1 .. Len(even) /\ 2 * i - 1 <= len
    BY <1>1, <1>2, <1>3
  <2>2. ~(2 * i <= len) => len = 2 * i - 1
    BY <1>1, <2>1
  <2> QED
    BY <1>2, <2>1, <2>2
<1> QED
  BY <1>1, <1>5, <1>6, <1>7, <1>8 DEF half

(* The level above.                                                         *)
LEMMA UpKnown ==
    ASSUME NEW level, Row(level)
    PROVE  /\ Row(Up(level)) /\ Len(Up(level)) \in Nat \ {0}
           /\ Len(level) > 1 => Len(Up(level)) < Len(level)
           /\ Len(level) = 1 => Up(level) = level
<1>1. CASE Len(level) > 1
  <2>1. Up(level) = Parents(level)
    BY <1>1, ParentsKnown DEF Up
  <2>2. /\ Len(level) \in Nat \ {0} /\ Row(Parents(level))
        /\ Len(Parents(level)) = (Len(level) + 1) \div 2
    BY ParentsKnown
  <2>3. Len(Parents(level)) \in Nat \ {0} /\ Len(Parents(level)) < Len(level)
    BY <1>1, <2>2
  <2>4. Len(Up(level)) \in Nat \ {0} /\ Len(Up(level)) < Len(level)
    BY <2>1, <2>3
  <2>5. Row(Up(level))
    BY <2>1, <2>2
  <2>6. Len(level) # 1
    BY ONLY <1>1
  <2> QED
    BY <2>4, <2>5, <2>6
<1>2. CASE ~(Len(level) > 1)
  <2>1. Len(level) \in Nat \ {0} /\ Up(level) = level
    BY <1>2, ParentsKnown DEF Up
  <2> QED
    BY <1>2, <2>1
<1> QED
  BY <1>1, <1>2

(* Levels is what its definition says: such a function exists.              *)
LEMMA LevelsBuilt ==
    ASSUME NEW leaves, Len(leaves) \in Nat
    PROVE  Levels(leaves) = [n \in 0 .. Len(leaves) |->
               IF n = 0 THEN leaves ELSE Up(Levels(leaves)[n - 1])]
<1> DEFINE Built(f, top) == f = [n \in 0 .. top |-> IF n = 0 THEN leaves ELSE Up(f[n - 1])]
           Tops == {top \in Nat : \E f : Built(f, top)}
<1>1. 0 \in Tops
  <2>1. Built([n \in 0 .. 0 |-> leaves], 0)
    OBVIOUS
  <2> QED
    BY <2>1
<1>2. ASSUME NEW top \in Nat, top \in Tops
      PROVE  top + 1 \in Tops
  <2>1. PICK f : Built(f, top)
    BY <1>2
  <2> DEFINE g == [n \in 0 .. top + 1 |-> IF n = top + 1 THEN Up(f[top]) ELSE f[n]]
  <2>2. Built(g, top + 1)
    <3>1. \A n \in 0 .. top + 1 : g[n] = IF n = 0 THEN leaves ELSE Up(g[n - 1])
      BY <2>1
    <3> QED
      BY <3>1
  <2> HIDE DEF g, Built
  <2> QED
    BY <2>2
<1> HIDE DEF Tops
<1>3. Len(leaves) \in Tops
  BY <1>1, <1>2, Induction
<1>4. \E f : Built(f, Len(leaves))
  BY <1>3 DEF Tops
<1>5. Levels(leaves) = CHOOSE f : Built(f, Len(leaves))
  BY DEF Levels, Up
<1> QED
  BY <1>4, <1>5

(* The levels shrink to one node: as many levels as leaves are enough.      *)
LEMMA LevelsKnown ==
    ASSUME NEW leaves, Row(leaves)
    PROVE  /\ Len(leaves) \in Nat \ {0}
           /\ Levels(leaves)[0] = leaves
           /\ \A n \in 1 .. Len(leaves) : Levels(leaves)[n] = Up(Levels(leaves)[n - 1])
           /\ \A n \in 0 .. Len(leaves) :
                 /\ Row(Levels(leaves)[n]) /\ Len(Levels(leaves)[n]) \in Nat \ {0}
                 /\ Len(Levels(leaves)[n]) = 1 \/ Len(Levels(leaves)[n]) <= Len(leaves) - n
<1> DEFINE up == Levels(leaves)
           top == Len(leaves)
           Fine(n) == /\ Row(up[n]) /\ Len(up[n]) \in Nat \ {0}
                      /\ Len(up[n]) = 1 \/ Len(up[n]) <= top - n
           Checked == {n \in Nat : n <= top => Fine(n)}
<1>1. top \in Nat \ {0}
  BY ParentsKnown
<1>2. up[0] = leaves /\ \A n \in 1 .. top : up[n] = Up(up[n - 1])
  <2>1. up = [n \in 0 .. top |-> IF n = 0 THEN leaves ELSE Up(up[n - 1])]
    BY <1>1, LevelsBuilt
  <2> HIDE DEF up, top
  <2>2. \A n \in 0 .. top : up[n] = IF n = 0 THEN leaves ELSE Up(up[n - 1])
    BY <2>1
  <2> QED
    BY <1>1, <2>2
<1> HIDE DEF up
<1>3. 0 \in Checked
  BY <1>1, <1>2
<1>4. ASSUME NEW n \in Nat, n \in Checked
      PROVE  n + 1 \in Checked
  <2> SUFFICES ASSUME n + 1 <= top PROVE Fine(n + 1)
    BY <1>4
  <2>1. Fine(n) /\ up[n + 1] = Up(up[n])
    <3>1. n + 1 \in 1 .. top /\ n + 1 - 1 = n /\ n <= top
      BY <1>1
    <3> QED
      BY <1>2, <1>4, <3>1
  <2>2. CASE Len(up[n]) = 1
    BY <2>1, <2>2, UpKnown
  <2>3. CASE Len(up[n]) # 1
    <3>0. \A l \in Nat \ {0} : l # 1 => l > 1 /\ l \in Nat
      OBVIOUS
    <3>1. Len(up[n]) > 1 /\ Len(up[n]) \in Nat /\ Len(up[n]) <= top - n
      BY <2>1, <2>3, <3>0
    <3>2. Row(up[n + 1]) /\ Len(up[n + 1]) \in Nat \ {0} /\ Len(up[n + 1]) < Len(up[n])
      BY <2>1, <3>1, UpKnown
    <3> QED
      BY <1>1, <3>1, <3>2
  <2> QED
    BY <2>2, <2>3
<1> HIDE DEF Checked
<1>5. \A n \in Nat : n \in Checked
  BY <1>3, <1>4, Induction
<1>6. \A n \in 0 .. top : Fine(n)
  BY <1>1, <1>5 DEF Checked
<1> QED
  BY <1>1, <1>2, <1>6 DEF up

(* The root is the only node of the level at the tree's height, and below   *)
(* it there are more.                                                       *)
LEMMA HeightKnown ==
    ASSUME NEW leaves, Row(leaves)
    PROVE  /\ Height(leaves) \in 0 .. Len(leaves)
           /\ Len(Levels(leaves)[Height(leaves)]) = 1
           /\ \A n \in 1 .. Height(leaves) :
                 /\ Len(Levels(leaves)[n - 1]) > 1
                 /\ Levels(leaves)[n] = Parents(Levels(leaves)[n - 1])
           /\ Root(leaves) = Levels(leaves)[Height(leaves)][1]
<1> DEFINE up == Levels(leaves)
           top == Len(leaves)
           single == {n \in Nat : n <= top /\ Len(up[n]) = 1}
<1>1. /\ top \in Nat \ {0}
      /\ \A n \in 1 .. top : up[n] = Up(up[n - 1])
      /\ \A n \in 0 .. top : /\ Row(up[n]) /\ Len(up[n]) \in Nat \ {0}
                             /\ Len(up[n]) = 1 \/ Len(up[n]) <= top - n
  BY LevelsKnown
<1> HIDE DEF up, top
<1>2. Len(up[top]) = 1
  <2>1. top \in 0 .. top /\ top - top = 0
    BY <1>1
  <2> QED
    BY <1>1, <2>1
<1>3. PICK least \in single : \A n \in single : least <= n
  <2>1. top \in single
    BY <1>1, <1>2
  <2>2. single \in SUBSET Nat /\ single # {}
    BY <2>1
  <2> HIDE DEF single
  <2> QED
    BY <2>2, Least
<1>4. /\ least \in 0 .. top /\ Len(up[least]) = 1
      /\ \A m \in 0 .. least - 1 : Len(up[m]) > 1
  <2>1. least \in 0 .. top /\ Len(up[least]) = 1
    BY <1>1, <1>3
  <2>2. ASSUME NEW m \in 0 .. least - 1
        PROVE  Len(up[m]) > 1
    <3>1. m \in Nat /\ m <= top /\ ~(least <= m)
      BY <1>1, <2>1
    <3>2. Len(up[m]) # 1
      BY <1>3, <3>1
    <3>3. m \in 0 .. top
      BY <1>1, <3>1
    <3>4. \A l \in Nat \ {0} : l # 1 => l > 1
      OBVIOUS
    <3> QED
      BY <1>1, <3>2, <3>3, <3>4
  <2> QED
    BY <2>1, <2>2
<1> DEFINE Is(n) == Len(up[n]) = 1 /\ \A m \in 0 .. n - 1 : Len(up[m]) > 1
           height == Height(leaves)
<1>5. height \in 0 .. top /\ Is(height)
  <2>1. height = CHOOSE n \in 0 .. top : Is(n)
    BY DEF Height, up, top
  <2> HIDE DEF Is, height
  <2>2. \E n \in 0 .. top : Is(n)
    BY <1>4 DEF Is
  <2> QED
    BY <2>1, <2>2
<1> HIDE DEF height
<1>6. ASSUME NEW n \in 1 .. height
      PROVE  Len(up[n - 1]) > 1 /\ up[n] = Parents(up[n - 1])
  <2>1. n - 1 \in 0 .. height - 1 /\ n \in 1 .. top /\ n - 1 \in 0 .. top
    BY <1>1, <1>5
  <2>2. Len(up[n - 1]) > 1 /\ up[n] = Up(up[n - 1]) /\ Len(up[n - 1]) \in Nat
    BY <1>1, <1>5, <2>1
  <2> QED
    BY <2>2 DEF Up
<1>7. up[top] = up[height]
  <2> DEFINE Same == {n \in Nat : height <= n /\ n <= top => up[n] = up[height]}
  <2>1. 0 \in Same
    BY <1>5
  <2>2. ASSUME NEW n \in Nat, n \in Same
        PROVE  n + 1 \in Same
    <3>1. CASE height <= n /\ n + 1 <= top
      <4>1. n + 1 \in 1 .. top /\ n + 1 - 1 = n /\ n <= top
        BY <1>1, <3>1
      <4>2. up[n + 1] = Up(up[n])
        BY <1>1, <4>1
      <4>3. up[n] = up[height]
        BY <2>2, <3>1, <4>1
      <4>4. Up(up[height]) = up[height]
        BY <1>1, <1>5, UpKnown
      <4> QED
        BY <4>2, <4>3, <4>4
    <3>2. CASE height = n + 1 \/ ~(height <= n + 1 /\ n + 1 <= top)
      BY <3>2
    <3> QED
      BY <1>1, <1>5, <3>1, <3>2
  <2>3. Nat \subseteq Same
    BY <2>1, <2>2, Induction
  <2> QED
    BY <1>1, <1>5, <2>3
<1>8. Root(leaves) = up[height][1]
  BY <1>7 DEF Root, up, top, Row
<1> QED
  BY <1>5, <1>6, <1>8 DEF up, top, height

-------------------------------------------------------------------------------
(* Merkle proofs.                                                           *)

(* Path is what its definition says: such a function exists.                *)
LEMMA PathBuilt ==
    ASSUME NEW i, NEW top \in Nat
    PROVE  Path(i, top) = [n \in 0 .. top |-> IF n = 0 THEN i ELSE (Path(i, top)[n - 1] + 1) \div 2]
<1> DEFINE Built(f, m) == f = [n \in 0 .. m |-> IF n = 0 THEN i ELSE (f[n - 1] + 1) \div 2]
           Tops == {m \in Nat : \E f : Built(f, m)}
<1>1. 0 \in Tops
  <2>1. Built([n \in 0 .. 0 |-> i], 0)
    OBVIOUS
  <2> QED
    BY <2>1
<1>2. ASSUME NEW m \in Nat, m \in Tops
      PROVE  m + 1 \in Tops
  <2>1. PICK f : Built(f, m)
    BY <1>2
  <2> DEFINE g == [n \in 0 .. m + 1 |-> IF n = m + 1 THEN (f[m] + 1) \div 2 ELSE f[n]]
  <2>2. Built(g, m + 1)
    <3>1. \A n \in 0 .. m + 1 : g[n] = IF n = 0 THEN i ELSE (g[n - 1] + 1) \div 2
      BY <2>1
    <3> QED
      BY <3>1
  <2> HIDE DEF g, Built
  <2> QED
    BY <2>2
<1> HIDE DEF Tops
<1>3. top \in Tops
  BY <1>1, <1>2, Induction
<1>4. \E f : Built(f, top)
  BY <1>3 DEF Tops
<1>5. Path(i, top) = CHOOSE f : Built(f, top)
  BY DEF Path
<1> QED
  BY <1>4, <1>5

(* A leaf's path stays inside the tree.                                     *)
LEMMA PathKnown ==
    ASSUME NEW leaves, Row(leaves), NEW i \in 1 .. Len(leaves)
    PROVE  /\ Path(i, Len(leaves))[0] = i
           /\ \A n \in 1 .. Len(leaves) :
                 Path(i, Len(leaves))[n] = (Path(i, Len(leaves))[n - 1] + 1) \div 2
           /\ \A n \in 0 .. Height(leaves) :
                 Path(i, Len(leaves))[n] \in 1 .. Len(Levels(leaves)[n])
<1> DEFINE up == Levels(leaves)
           top == Len(leaves)
           height == Height(leaves)
           place == Path(i, top)
           Inside == {n \in Nat : n <= height => place[n] \in 1 .. Len(up[n])}
<1>1. /\ top \in Nat \ {0}
      /\ up[0] = leaves
      /\ \A n \in 0 .. top : Row(up[n]) /\ Len(up[n]) \in Nat \ {0}
  BY LevelsKnown
<1>2. place[0] = i /\ \A n \in 1 .. top : place[n] = (place[n - 1] + 1) \div 2
  <2>1. place = [n \in 0 .. top |-> IF n = 0 THEN i ELSE (place[n - 1] + 1) \div 2]
    BY <1>1, PathBuilt
  <2> HIDE DEF place, top
  <2>2. \A n \in 0 .. top : place[n] = IF n = 0 THEN i ELSE (place[n - 1] + 1) \div 2
    BY <2>1
  <2> QED
    BY <1>1, <2>2
<1>3. /\ height \in 0 .. top
      /\ \A n \in 1 .. height : up[n] = Parents(up[n - 1])
  BY HeightKnown
<1>4. 0 \in Inside
  BY <1>1, <1>2
<1>5. ASSUME NEW n \in Nat, n \in Inside
      PROVE  n + 1 \in Inside
  <2> HIDE DEF up, top, height, place
  <2> SUFFICES ASSUME n + 1 <= height PROVE place[n + 1] \in 1 .. Len(up[n + 1])
    BY <1>5
  <2>1. /\ n + 1 \in 1 .. height /\ n + 1 - 1 = n /\ n + 1 \in 1 .. top /\ n \in 0 .. top
        /\ n <= height
    BY <1>1, <1>3
  <2>2. place[n] \in 1 .. Len(up[n]) /\ place[n + 1] = (place[n] + 1) \div 2
    BY <1>2, <1>5, <2>1
  <2>3. up[n + 1] = Parents(up[n])
    BY <1>3, <2>1
  <2>4. Row(up[n]) /\ Len(up[n]) \in Nat \ {0}
    BY <1>1, <2>1
  <2>5. Len(up[n + 1]) = (Len(up[n]) + 1) \div 2
    BY <2>3, <2>4, ParentsKnown
  <2>6. \A p, l \in Nat : 1 <= p /\ p <= l =>
            (p + 1) \div 2 \in 1 .. ((l + 1) \div 2)
    OBVIOUS
  <2>7. (place[n] + 1) \div 2 \in 1 .. ((Len(up[n]) + 1) \div 2)
    <3>1. place[n] \in Nat /\ Len(up[n]) \in Nat /\ 1 <= place[n] /\ place[n] <= Len(up[n])
      BY <2>2, <2>4
    <3> QED
      BY <2>6, <3>1
  <2> QED
    BY <2>2, <2>5, <2>7
<1> HIDE DEF Inside
<1>6. Nat \subseteq Inside
  BY <1>4, <1>5, Induction
<1>7. \A n \in 0 .. height : place[n] \in 1 .. Len(up[n])
  BY <1>1, <1>3, <1>6 DEF Inside
<1> QED
  BY <1>2, <1>7 DEF up, place, height, top

(* The hash that verify_merkle_proof makes of the next item and the hash so *)
(* far, and all it makes on the way up.                                     *)
Join(item, hash) == IF item.position = "left" THEN <<item.hash, hash>> ELSE <<hash, item.hash>>

Climb(leaf, proof) ==
    LET climb[k \in 0 .. Len(proof)] ==
            IF k = 0 THEN leaf
            ELSE IF proof[k].position = "left"
                 THEN <<proof[k].hash, climb[k - 1]>>
                 ELSE <<climb[k - 1], proof[k].hash>>
    IN  climb

(* Climb is what its definition says: such a function exists.               *)
LEMMA ClimbBuilt ==
    ASSUME NEW leaf, NEW proof, Len(proof) \in Nat
    PROVE  /\ Climb(leaf, proof)[0] = leaf
           /\ \A k \in 1 .. Len(proof) :
                 Climb(leaf, proof)[k] = Join(proof[k], Climb(leaf, proof)[k - 1])
           /\ \A root : Verifies(leaf, proof, root) <=> Climb(leaf, proof)[Len(proof)] = root
<1> DEFINE Built(f, m) == f = [k \in 0 .. m |-> IF k = 0 THEN leaf ELSE Join(proof[k], f[k - 1])]
           Tops == {m \in Nat : \E f : Built(f, m)}
           climb == Climb(leaf, proof)
<1>1. 0 \in Tops
  <2>1. Built([k \in 0 .. 0 |-> leaf], 0)
    OBVIOUS
  <2> QED
    BY <2>1
<1>2. ASSUME NEW m \in Nat, m \in Tops
      PROVE  m + 1 \in Tops
  <2>1. PICK f : Built(f, m)
    BY <1>2
  <2> DEFINE g == [k \in 0 .. m + 1 |-> IF k = m + 1 THEN Join(proof[m + 1], f[m]) ELSE f[k]]
  <2>2. Built(g, m + 1)
    <3>1. \A k \in 0 .. m + 1 : g[k] = IF k = 0 THEN leaf ELSE Join(proof[k], g[k - 1])
      BY <2>1
    <3> QED
      BY <3>1
  <2> HIDE DEF g, Built
  <2> QED
    BY <2>2
<1> HIDE DEF Tops
<1>3. Len(proof) \in Tops
  BY <1>1, <1>2, Induction
<1>4. \E f : Built(f, Len(proof))
  BY <1>3 DEF Tops
<1>5. climb = CHOOSE f : Built(f, Len(proof))
  BY DEF Climb, Join
<1> HIDE DEF climb
<1>6. Built(climb, Len(proof))
  BY <1>4, <1>5
<1>7. \A k \in 0 .. Len(proof) : climb[k] = IF k = 0 THEN leaf ELSE Join(proof[k], climb[k - 1])
  BY <1>6
<1>8. climb[0] = leaf /\ \A k \in 1 .. Len(proof) : climb[k] = Join(proof[k], climb[k - 1])
  BY <1>7
<1>9. \A root : Verifies(leaf, proof, root) <=> climb[Len(proof)] = root
  BY DEF Verifies, Climb, climb
<1> QED
  BY <1>8, <1>9 DEF climb

(* A leaf's own proof leads along its path.                                 *)
LEMMA ClimbsItsPath ==
    ASSUME NEW leaves, Row(leaves), NEW i \in 1 .. Len(leaves)
    PROVE  /\ Len(MerkleProof(leaves, i)) = Height(leaves)
           /\ \A k \in 0 .. Height(leaves) :
                 Climb(leaves[i], MerkleProof(leaves, i))[k] =
                     Levels(leaves)[k][Path(i, Len(leaves))[k]]
<1> DEFINE up == Levels(leaves)
           top == Len(leaves)
           height == Height(leaves)
           place == Path(i, top)
           proof == MerkleProof(leaves, i)
           climb == Climb(leaves[i], proof)
           Along == {k \in Nat : k <= height => climb[k] = up[k][place[k]]}
<1>1. /\ top \in Nat \ {0}
      /\ up[0] = leaves
      /\ \A n \in 0 .. top : Row(up[n]) /\ Len(up[n]) \in Nat \ {0}
  BY LevelsKnown
<1>2. /\ height \in 0 .. top
      /\ \A n \in 1 .. height : up[n] = Parents(up[n - 1]) /\ Len(up[n - 1]) > 1
  BY HeightKnown
<1>3. /\ place[0] = i
      /\ \A n \in 1 .. top : place[n] = (place[n - 1] + 1) \div 2
      /\ \A n \in 0 .. height : place[n] \in 1 .. Len(up[n])
  BY PathKnown
<1>4. /\ Len(proof) = height
      /\ \A k \in 1 .. height :
            proof[k] = IF place[k - 1] % 2 = 1
                       THEN [hash |-> Even(up[k - 1])[place[k - 1] + 1], position |-> "right"]
                       ELSE [hash |-> up[k - 1][place[k - 1] - 1], position |-> "left"]
  <2> DEFINE Sibling(n) ==
                IF place[n] % 2 = 1
                THEN [hash |-> Even(up[n])[place[n] + 1], position |-> "right"]
                ELSE [hash |-> up[n][place[n] - 1], position |-> "left"]
  <2>1. proof = [k \in 1 .. height |-> Sibling(k - 1)]
    BY DEF MerkleProof
  <2> HIDE DEF height, proof, up, place, Sibling
  <2>2. height \in Nat
    BY <1>1, <1>2
  <2>3. Len(proof) = height /\ \A k \in 1 .. height : proof[k] = Sibling(k - 1)
    BY <2>1, <2>2
  <2> QED
    BY <2>3 DEF Sibling
<1> HIDE DEF height, proof, up, place, top
<1>5. climb[0] = leaves[i] /\ \A k \in 1 .. height : climb[k] = Join(proof[k], climb[k - 1])
  <2>1. Len(proof) \in Nat /\ Len(proof) = height
    BY <1>1, <1>2, <1>4
  <2>2. climb[0] = leaves[i] /\ \A k \in 1 .. Len(proof) : climb[k] = Join(proof[k], climb[k - 1])
    BY <2>1, ClimbBuilt
  <2> HIDE DEF climb
  <2> QED
    BY <2>1, <2>2
<1> HIDE DEF climb
<1>6. 0 \in Along
  BY <1>1, <1>3, <1>5
<1>7. ASSUME NEW n \in Nat, n \in Along
      PROVE  n + 1 \in Along
  <2> SUFFICES ASSUME n + 1 <= height PROVE climb[n + 1] = up[n + 1][place[n + 1]]
    BY <1>7
  <2> DEFINE p == place[n]
             q == place[n + 1]
             level == up[n]
             len == Len(level)
  <2>1. /\ n + 1 \in 1 .. height /\ n + 1 - 1 = n /\ n + 1 \in 1 .. top /\ n \in 0 .. top
        /\ n <= height /\ n \in 0 .. height
    BY <1>1, <1>2
  <2>2. p \in 1 .. len /\ q = (p + 1) \div 2 /\ climb[n] = level[p]
    BY <1>3, <1>7, <2>1
  <2>3. up[n + 1] = Parents(level) /\ Row(level) /\ len \in Nat \ {0}
    BY <1>1, <1>2, <2>1
  <2>4. /\ climb[n + 1] = Join(proof[n + 1], level[p])
        /\ proof[n + 1] = IF p % 2 = 1 THEN [hash |-> Even(level)[p + 1], position |-> "right"]
                                       ELSE [hash |-> level[p - 1], position |-> "left"]
    <3>1. climb[n + 1] = Join(proof[n + 1], climb[n + 1 - 1])
      BY <1>5, <2>1
    <3>2. proof[n + 1] = IF place[n + 1 - 1] % 2 = 1
                         THEN [hash |-> Even(up[n + 1 - 1])[place[n + 1 - 1] + 1], position |-> "right"]
                         ELSE [hash |-> up[n + 1 - 1][place[n + 1 - 1] - 1], position |-> "left"]
      BY <1>4, <2>1
    <3> QED
      BY <2>1, <2>2, <3>1, <3>2
  <2> HIDE DEF p, q, level
  <2>5. q \in 1 .. (len + 1) \div 2
    BY <2>2, <2>3
  <2>6. Parents(level)[q] =
            <<level[2 * q - 1], IF 2 * q <= len THEN level[2 * q] ELSE level[2 * q - 1]>>
    BY <2>3, <2>5, ParentsKnown
  <2>7. CASE p % 2 = 1
    <3>1. 2 * q - 1 = p /\ 2 * q = p + 1 /\ p + 1 \in 1 .. 2 * ((len + 1) \div 2)
      BY <2>2, <2>3, <2>7
    <3>2. Even(level)[p + 1] = IF p + 1 <= len THEN level[p + 1] ELSE level[len]
      BY <2>3, <3>1, EvenKnown
    <3>3. ~(p + 1 <= len) => len = p
      BY <2>2, <2>3
    <3>4. climb[n + 1] = <<level[p], Even(level)[p + 1]>>
      BY <2>4, <2>7 DEF Join
    <3>5. Parents(level)[q] = <<level[p], IF p + 1 <= len THEN level[p + 1] ELSE level[p]>>
      BY <2>6, <3>1
    <3>6. Even(level)[p + 1] = IF p + 1 <= len THEN level[p + 1] ELSE level[p]
      BY <3>2, <3>3
    <3> QED
      BY <2>3, <3>4, <3>5, <3>6 DEF q
  <2>8. CASE p % 2 # 1
    <3>1. 2 * q = p /\ 2 * q - 1 = p - 1 /\ 2 * q <= len
      BY <2>2, <2>3, <2>8
    <3>2. climb[n + 1] = <<level[p - 1], level[p]>>
      BY <2>4, <2>8 DEF Join
    <3>3. Parents(level)[q] = <<level[p - 1], level[p]>>
      BY <2>6, <3>1
    <3> QED
      BY <2>3, <3>2, <3>3 DEF q
  <2> QED
    BY <2>7, <2>8
<1> HIDE DEF Along
<1>8. Nat \subseteq Along
  BY <1>6, <1>7, Induction
<1>9. \A k \in 0 .. height : climb[k] = up[k][place[k]]
  BY <1>1, <1>2, <1>8 DEF Along
<1> QED
  BY <1>4, <1>9 DEF up, place, height, top, proof, climb

(* Every leaf of every tree can be proved against the tree's root, and its  *)
(* proof proves no other hash.                                              *)
THEOREM LeafIsProved ==
    ASSUME NEW leaves, Row(leaves), NEW i \in 1 .. Len(leaves), NEW leaf
    PROVE  Verifies(leaf, MerkleProof(leaves, i), Root(leaves)) <=> leaf = leaves[i]
<1> DEFINE proof == MerkleProof(leaves, i)
           own == Climb(leaves[i], proof)
           other == Climb(leaf, proof)
           height == Height(leaves)
<1>1. /\ height \in Nat
      /\ Len(proof) = height
      /\ Root(leaves) = own[height]
  <2>1. height \in 0 .. Len(leaves) /\ Len(leaves) \in Nat
    BY HeightKnown, LevelsKnown
  <2>2. Path(i, Len(leaves))[height] \in 1 .. Len(Levels(leaves)[height])
    <3>1. height \in 0 .. height
      BY <2>1
    <3> QED
      BY <3>1, PathKnown
  <2>3. Path(i, Len(leaves))[height] = 1
    <3>1. Len(Levels(leaves)[height]) = 1
      BY HeightKnown
    <3> QED
      BY <2>2, <3>1
  <2>4. own[height] = Levels(leaves)[height][Path(i, Len(leaves))[height]]
    BY <2>1, ClimbsItsPath
  <2> QED
    BY <2>1, <2>3, <2>4, HeightKnown, ClimbsItsPath
<1>2. /\ own[0] = leaves[i] /\ other[0] = leaf
      /\ \A k \in 1 .. height : /\ own[k] = Join(proof[k], own[k - 1])
                                /\ other[k] = Join(proof[k], other[k - 1])
      /\ Verifies(leaf, proof, Root(leaves)) <=> other[height] = own[height]
  BY <1>1, ClimbBuilt
<1>3. leaf = leaves[i] => other[height] = own[height]
  OBVIOUS
<1> HIDE DEF own, other, height, proof
<1>4. other[height] = own[height] => leaf = leaves[i]
  <2> SUFFICES ASSUME other[height] = own[height] PROVE other[0] = own[0]
    BY <1>2
  <2> DEFINE Same == {n \in Nat : n <= height => other[height - n] = own[height - n]}
  <2>1. 0 \in Same
    BY <1>1
  <2>2. ASSUME NEW n \in Nat, n \in Same
        PROVE  n + 1 \in Same
    <3> SUFFICES ASSUME n + 1 <= height PROVE other[height - (n + 1)] = own[height - (n + 1)]
      BY <2>2
    <3> DEFINE k == height - n
    <3>1. k \in 1 .. height /\ k - 1 = height - (n + 1) /\ n <= height
      BY <1>1
    <3>2. other[k] = own[k]
      BY <2>2, <3>1
    <3> HIDE DEF k
    <3>3. Join(proof[k], own[k - 1]) = Join(proof[k], other[k - 1])
      BY <1>2, <3>1, <3>2
    <3>4. own[k - 1] = other[k - 1]
      BY <3>3 DEF Join
    <3> QED
      BY <3>1, <3>4
  <2> HIDE DEF Same
  <2>3. height \in Same
    BY <1>1, <2>1, <2>2, Induction
  <2> QED
    BY <1>1, <2>3 DEF Same
<1> QED
  BY <1>2, <1>3, <1>4 DEF proof

(* No hash twice.                                                           *)
Distinct(level) == \A i, j \in 1 .. Len(level) : level[i] = level[j] => i = j

(* Distinct hashes have distinct parents.                                   *)
LEMMA DistinctAbove ==
    ASSUME NEW level, Row(level), Distinct(level)
    PROVE  Distinct(Parents(level))
<1> DEFINE len == Len(level)
           half == (len + 1) \div 2
<1>1. /\ len \in Nat \ {0}
      /\ Len(Parents(level)) = half
      /\ \A i \in 1 .. half :
            Parents(level)[i] =
                <<level[2 * i - 1], IF 2 * i <= len THEN level[2 * i] ELSE level[2 * i - 1]>>
  BY ParentsKnown
<1> SUFFICES ASSUME NEW i \in 1 .. half, NEW j \in 1 .. half, Parents(level)[i] = Parents(level)[j]
             PROVE  i = j
  BY <1>1 DEF Distinct
<1>2. level[2 * i - 1] = level[2 * j - 1]
  BY <1>1
<1>3. 2 * i - 1 \in 1 .. len /\ 2 * j - 1 \in 1 .. len
  BY <1>1
<1>4. 2 * i - 1 = 2 * j - 1
  BY <1>2, <1>3 DEF Distinct
<1> QED
  BY <1>4

(* If a level without repetition is odd, no such level has the same parents.*)
LEMMA ParentsTellLength ==
    ASSUME NEW a, NEW b, Row(a), Row(b), Distinct(b), Parents(a) = Parents(b)
    PROVE  ~(Len(a) < Len(b))
<1> DEFINE h == (Len(b) + 1) \div 2
<1>1. /\ Len(a) \in Nat \ {0} /\ Len(b) \in Nat \ {0}
      /\ Len(Parents(a)) = (Len(a) + 1) \div 2 /\ Len(Parents(b)) = h
  BY ParentsKnown
<1>2. SUFFICES ASSUME Len(a) < Len(b) PROVE FALSE
  OBVIOUS
<1>3. (Len(a) + 1) \div 2 = h
  BY <1>1
<1>4. /\ h \in 1 .. h /\ 2 * h = Len(b) /\ ~(2 * h <= Len(a))
      /\ 2 * h \in 1 .. Len(b) /\ 2 * h - 1 \in 1 .. Len(b)
  BY <1>1, <1>2, <1>3
<1> HIDE DEF h
<1>5. Parents(a)[h] = <<a[2 * h - 1], a[2 * h - 1]>>
  <2>1. \A i \in 1 .. h : Parents(a)[i] =
            <<a[2 * i - 1], IF 2 * i <= Len(a) THEN a[2 * i] ELSE a[2 * i - 1]>>
    BY <1>3, ParentsKnown
  <2> QED
    BY <1>4, <2>1
<1>6. Parents(b)[h] = <<b[2 * h - 1], b[2 * h]>>
  <2>1. \A i \in 1 .. h : Parents(b)[i] =
            <<b[2 * i - 1], IF 2 * i <= Len(b) THEN b[2 * i] ELSE b[2 * i - 1]>>
    BY ParentsKnown DEF h
  <2>2. 2 * h <= Len(b)
    BY <1>1, <1>4
  <2> QED
    BY <1>4, <2>1, <2>2
<1>7. b[2 * h - 1] = b[2 * h]
  BY <1>5, <1>6
<1>8. 2 * h - 1 = 2 * h
  BY <1>4, <1>7 DEF Distinct
<1> QED
  BY <1>1, <1>4, <1>8

(* Levels without repetition differ in their parents.                       *)
LEMMA ParentsTell ==
    ASSUME NEW a, NEW b, Row(a), Row(b), Distinct(a), Distinct(b), Parents(a) = Parents(b)
    PROVE  a = b
<1> DEFINE len == Len(a)
           half == (len + 1) \div 2
<1>1. len \in Nat \ {0} /\ Len(b) = len
  <2>1. Len(a) \in Nat \ {0} /\ Len(b) \in Nat \ {0}
    BY ParentsKnown
  <2>2. ~(Len(a) < Len(b)) /\ ~(Len(b) < Len(a))
    BY ParentsTellLength
  <2> QED
    BY <2>1, <2>2
<1>2. \A i \in 1 .. half :
          /\ Parents(a)[i] = <<a[2 * i - 1], IF 2 * i <= len THEN a[2 * i] ELSE a[2 * i - 1]>>
          /\ Parents(b)[i] = <<b[2 * i - 1], IF 2 * i <= len THEN b[2 * i] ELSE b[2 * i - 1]>>
  BY <1>1, ParentsKnown
<1>3. \A j \in 1 .. len : a[j] = b[j]
  <2> SUFFICES ASSUME NEW j \in 1 .. len PROVE a[j] = b[j]
    OBVIOUS
  <2> DEFINE i == (j + 1) \div 2
  <2>1. i \in 1 .. half /\ (j = 2 * i - 1 \/ (j = 2 * i /\ 2 * i <= len))
    BY <1>1
  <2> HIDE DEF i, half
  <2>2. /\ a[2 * i - 1] = b[2 * i - 1]
        /\ 2 * i <= len => a[2 * i] = b[2 * i]
    BY <1>2, <2>1
  <2> QED
    BY <2>1, <2>2
<1>4. a \in Seq(Members(a) \cup Members(b)) /\ b \in Seq(Members(a) \cup Members(b))
  BY SeqMonotonic DEF Row
<1> QED
  BY <1>1, <1>3, <1>4, SeqEqual

(* No level repeats a hash if the leaves do not.                            *)
LEMMA DistinctLevels ==
    ASSUME NEW leaves, Row(leaves), Distinct(leaves)
    PROVE  \A n \in 0 .. Height(leaves) : Distinct(Levels(leaves)[n])
<1> DEFINE up == Levels(leaves)
           height == Height(leaves)
           top == Len(leaves)
           Fine == {n \in Nat : n <= height => Distinct(up[n])}
<1>1. /\ top \in Nat \ {0} /\ up[0] = leaves
      /\ \A n \in 0 .. top : Row(up[n])
  BY LevelsKnown
<1>2. height \in 0 .. top /\ \A n \in 1 .. height : up[n] = Parents(up[n - 1])
  BY HeightKnown
<1>3. 0 \in Fine
  BY <1>1
<1>4. ASSUME NEW n \in Nat, n \in Fine
      PROVE  n + 1 \in Fine
  <2> HIDE DEF up, height, top
  <2> SUFFICES ASSUME n + 1 <= height PROVE Distinct(up[n + 1])
    BY <1>4
  <2>1. n + 1 \in 1 .. height /\ n + 1 - 1 = n /\ n <= height /\ n \in 0 .. top
    BY <1>1, <1>2
  <2>2. up[n + 1] = Parents(up[n]) /\ Row(up[n]) /\ Distinct(up[n])
    BY <1>1, <1>2, <1>4, <2>1
  <2> QED
    BY <2>2, DistinctAbove
<1> HIDE DEF Fine
<1>5. Nat \subseteq Fine
  BY <1>3, <1>4, Induction
<1> QED
  BY <1>2, <1>5 DEF Fine

(* The hash of an entry is no hash of two hashes.                           *)
Plain(level) == \A i \in 1 .. Len(level) : \A x, y : level[i] # <<x, y>>

(* From equal roots downwards two trees are equal level by level, so the    *)
(* lower one cannot be lower.                                               *)
LEMMA SameFromRoot ==
    ASSUME NEW a, NEW b, Row(a), Row(b), Distinct(a), Distinct(b), Root(a) = Root(b),
           Height(a) <= Height(b)
    PROVE  a = Levels(b)[Height(b) - Height(a)]
<1> DEFINE up == Levels(a)
           vp == Levels(b)
           g == Height(a)
           h == Height(b)
           Same == {n \in Nat : n <= g => up[g - n] = vp[h - n]}
<1>1. /\ Len(a) \in Nat \ {0} /\ Len(b) \in Nat \ {0}
      /\ up[0] = a
      /\ \A n \in 0 .. Len(a) : Row(up[n])
      /\ \A n \in 0 .. Len(b) : Row(vp[n])
  BY LevelsKnown
<1>2. /\ g \in 0 .. Len(a) /\ Len(up[g]) = 1 /\ Root(a) = up[g][1]
      /\ h \in 0 .. Len(b) /\ Len(vp[h]) = 1 /\ Root(b) = vp[h][1]
      /\ \A n \in 1 .. g : up[n] = Parents(up[n - 1])
      /\ \A n \in 1 .. h : vp[n] = Parents(vp[n - 1])
  BY HeightKnown
<1>3. /\ \A n \in 0 .. g : Distinct(up[n])
      /\ \A n \in 0 .. h : Distinct(vp[n])
  BY DistinctLevels
<1>4. g <= h
  OBVIOUS
<1> HIDE DEF up, vp, g, h
<1>5. 0 \in Same
  <2>1. Row(up[g]) /\ Row(vp[h])
    BY <1>1, <1>2
  <2>2. /\ up[g] \in Seq(Members(up[g]) \cup Members(vp[h]))
        /\ vp[h] \in Seq(Members(up[g]) \cup Members(vp[h]))
    BY <2>1, SeqMonotonic DEF Row
  <2>3. \A i \in 1 .. Len(up[g]) : up[g][i] = vp[h][i]
    <3>1. up[g][1] = vp[h][1]
      BY <1>2
    <3>2. \A i \in 1 .. Len(up[g]) : i = 1
      BY <1>2
    <3> QED
      BY <3>1, <3>2
  <2>4. up[g] = vp[h]
    BY <1>2, <2>2, <2>3, SeqEqual
  <2>5. g - 0 = g /\ h - 0 = h
    BY <1>2
  <2> QED
    BY <2>4, <2>5
<1>6. ASSUME NEW n \in Nat, n \in Same
      PROVE  n + 1 \in Same
  <2> SUFFICES ASSUME n + 1 <= g PROVE up[g - (n + 1)] = vp[h - (n + 1)]
    BY <1>6
  <2> DEFINE k == g - n
             l == h - n
  <2>1. /\ k \in 1 .. g /\ k - 1 = g - (n + 1) /\ k - 1 \in 0 .. g /\ k - 1 \in 0 .. Len(a)
        /\ l \in 1 .. h /\ l - 1 = h - (n + 1) /\ l - 1 \in 0 .. h /\ l - 1 \in 0 .. Len(b)
        /\ n <= g
    BY <1>1, <1>2, <1>4
  <2>2. up[k] = vp[l]
    BY <1>6, <2>1
  <2> HIDE DEF k, l
  <2>3. Parents(up[k - 1]) = Parents(vp[l - 1])
    BY <1>2, <2>1, <2>2
  <2>4. Row(up[k - 1]) /\ Row(vp[l - 1]) /\ Distinct(up[k - 1]) /\ Distinct(vp[l - 1])
    BY <1>1, <1>3, <2>1
  <2>5. up[k - 1] = vp[l - 1]
    BY <2>3, <2>4, ParentsTell
  <2> QED
    BY <2>1, <2>5
<1> HIDE DEF Same
<1>7. g \in Same
  <2>1. g \in Nat
    BY <1>2
  <2>2. Nat \subseteq Same
    BY <1>5, <1>6, Induction
  <2> QED
    BY <2>1, <2>2
<1>8. up[g - g] = vp[h - g] /\ g - g = 0
  BY <1>2, <1>7 DEF Same
<1> QED
  BY <1>1, <1>8 DEF vp, g, h

(* Equal roots, equal heights.                                              *)
LEMMA SameHeight ==
    ASSUME NEW a, NEW b, Row(a), Row(b), Distinct(a), Distinct(b), Plain(a), Root(a) = Root(b)
    PROVE  ~(Height(a) < Height(b))
<1> DEFINE n == Height(b) - Height(a)
<1>1. /\ Height(a) \in Nat /\ Height(b) \in 0 .. Len(b)
      /\ Len(a) \in Nat \ {0} /\ Len(b) \in Nat \ {0}
  BY HeightKnown, LevelsKnown
<1>2. SUFFICES ASSUME Height(a) < Height(b) PROVE FALSE
  OBVIOUS
<1>3. n \in 1 .. Height(b) /\ n - 1 \in 0 .. Len(b) /\ Height(a) <= Height(b)
  BY <1>1, <1>2
<1>4. a = Levels(b)[n]
  BY <1>3, SameFromRoot
<1> HIDE DEF n
<1>5. a = Parents(Levels(b)[n - 1]) /\ Row(Levels(b)[n - 1])
  BY <1>3, <1>4, HeightKnown, LevelsKnown
<1>6. PICK x, y : a[1] = <<x, y>>
  <2>1. Len(Levels(b)[n - 1]) \in Nat \ {0}
    BY <1>5, ParentsKnown
  <2>2. 1 \in 1 .. (Len(Levels(b)[n - 1]) + 1) \div 2
    <3>1. \A l \in Nat \ {0} : 1 \in 1 .. (l + 1) \div 2
      OBVIOUS
    <3> QED
      BY <2>1, <3>1
  <2>3. \E x, y : Parents(Levels(b)[n - 1])[1] = <<x, y>>
    BY <1>5, <2>2, ParentsKnown
  <2> QED
    BY <1>5, <2>3
<1> QED
  BY <1>1, <1>6 DEF Plain

(* The root of a list of entries, no two of them equal, tells the whole     *)
(* list: which entries, in which order, and how many there are, although a  *)
(* level of odd length repeats its last hash.                               *)
THEOREM RootTellsLeaves ==
    ASSUME NEW a, NEW b, Row(a), Row(b), Distinct(a), Distinct(b), Plain(a), Plain(b),
           Root(a) = Root(b)
    PROVE  a = b
<1>1. Height(a) \in Nat /\ Height(b) \in Nat /\ Levels(b)[0] = b
  BY HeightKnown, LevelsKnown
<1>2. ~(Height(a) < Height(b)) /\ ~(Height(b) < Height(a))
  BY SameHeight
<1>3. Height(a) <= Height(b) /\ Height(b) - Height(a) = 0
  BY <1>1, <1>2
<1> QED
  BY <1>1, <1>3, SameFromRoot

(* Lists of numbered leaves are such lists, whatever their length.          *)
LEMMA NumberedLeaves ==
    ASSUME NEW n \in Nat \ {0}
    PROVE  LET leaves == [i \in 1 .. n |-> <<i>>]
           IN  /\ leaves \in Seq(Seq(Nat)) /\ Len(leaves) = n
               /\ Row(leaves) /\ Distinct(leaves) /\ Plain(leaves)
<1> DEFINE leaves == [i \in 1 .. n |-> <<i>>]
<1>1. leaves \in [1 .. n -> Seq(Nat)]
  OBVIOUS
<1>2. leaves \in Seq(Seq(Nat)) /\ Len(leaves) = n
  BY <1>1
<1>3. \A i \in 1 .. n : leaves[i] = <<i>>
  OBVIOUS
<1> HIDE DEF leaves
<1>4. leaves # <<>>
  BY <1>2
<1>5. Row(leaves)
  BY <1>2, <1>4, RowOf
<1>6. Distinct(leaves)
  <2> SUFFICES ASSUME NEW i \in 1 .. n, NEW j \in 1 .. n, leaves[i] = leaves[j] PROVE i = j
    BY <1>2 DEF Distinct
  <2>1. <<i>> = <<j>>
    BY <1>3
  <2> QED
    BY <2>1
<1>7. Plain(leaves)
  <2> SUFFICES ASSUME NEW i \in 1 .. n, NEW x, NEW y, leaves[i] = <<x, y>> PROVE FALSE
    BY <1>2 DEF Plain
  <2>1. <<i>> = <<x, y>>
    BY <1>3
  <2>2. DOMAIN <<i>> = 1 .. 1 /\ DOMAIN <<x, y>> = 1 .. 2
    OBVIOUS
  <2> QED
    BY <2>1, <2>2
<1> QED
  BY <1>2, <1>5, <1>6, <1>7 DEF leaves

(* Fewer leaves, another root.                                              *)
LEMMA PrefixHasOtherRoot ==
    ASSUME NEW n \in Nat \ {0}, NEW m \in 1 .. n - 1
    PROVE  LET leaves == [i \in 1 .. n |-> <<i>>]
           IN  Root(SubSeq(leaves, 1, m)) # Root(leaves)
<1> DEFINE leaves == [i \in 1 .. n |-> <<i>>]
           first == SubSeq(leaves, 1, m)
<1>1. /\ leaves \in Seq(Seq(Nat)) /\ Len(leaves) = n
      /\ Row(leaves) /\ Distinct(leaves) /\ Plain(leaves)
  BY NumberedLeaves
<1> HIDE DEF leaves
<1>2. first \in Seq(Seq(Nat)) /\ Len(first) = m /\ \A i \in 1 .. m : first[i] = leaves[i]
  BY <1>1
<1> HIDE DEF first
<1>3. Row(first)
  BY <1>2, RowOf, EmptySeq
<1>4. Distinct(first) /\ Plain(first)
  <2>1. \A i \in 1 .. m : i \in 1 .. n
    OBVIOUS
  <2>2. Distinct(first)
    BY <1>1, <1>2, <2>1 DEF Distinct
  <2>3. Plain(first)
    BY <1>1, <1>2, <2>1 DEF Plain
  <2> QED
    BY <2>2, <2>3
<1>5. first # leaves
  BY <1>1, <1>2
<1>6. Root(first) # Root(leaves)
  BY <1>1, <1>3, <1>4, <1>5, RootTellsLeaves
<1> QED
  BY <1>6 DEF first, leaves

(* So it is with the trees that the runs look at, for every bound on their  *)
(* size.                                                                    *)
THEOREM LeavesAreProvable == Spec => []LeavesProvable
<1>1. LeavesProvable
  <2> SUFFICES ASSUME NEW n \in 1 .. MaxLeaves
               PROVE  LET leaves == [i \in 1 .. n |-> <<i>>]
                      IN  /\ \A i, j \in 1 .. n :
                                Verifies(leaves[j], MerkleProof(leaves, i), Root(leaves)) <=> i = j
                          /\ \A m \in 1 .. n - 1 : Root(SubSeq(leaves, 1, m)) # Root(leaves)
    BY DEF LeavesProvable
  <2> DEFINE leaves == [i \in 1 .. n |-> <<i>>]
  <2>1. n \in Nat \ {0}
    BY TrailAssumption
  <2>2. \A m \in 1 .. n - 1 : Root(SubSeq(leaves, 1, m)) # Root(leaves)
    BY <2>1, PrefixHasOtherRoot
  <2>3. Len(leaves) = n /\ Row(leaves) /\ Distinct(leaves)
    BY <2>1, NumberedLeaves
  <2> HIDE DEF leaves
  <2>4. ASSUME NEW i \in 1 .. n, NEW j \in 1 .. n
        PROVE  Verifies(leaves[j], MerkleProof(leaves, i), Root(leaves)) <=> i = j
    <3>1. Verifies(leaves[j], MerkleProof(leaves, i), Root(leaves)) <=> leaves[j] = leaves[i]
      BY <2>3, LeafIsProved
    <3> QED
      BY <2>3, <3>1 DEF Distinct
  <2> QED
    BY <2>2, <2>4 DEF leaves
<1> QED
  BY <1>1, PTL DEF Spec

-------------------------------------------------------------------------------
(* The programs of the workers.                                             *)

Steps == Abouts \cup {"read", "commit", "leaves", "root", "send", "store"}

(* What may come after a step.                                              *)
After(step) ==
    {next \in Steps :
        /\ step \in Abouts => next \in {"read", "commit"}
        /\ step = "commit" => next \in {"leaves", "send"}
        /\ step = "leaves" => next = "root"
        /\ step \in {"root", "store"} => next = "read"
        /\ step = "send" => next = "store"
        /\ step = "read" => next \in Abouts}

(* What is left of a program: more than four steps are left of an engine's  *)
(* program only, and the length then tells where it is.                     *)
Sound(todo) ==
    /\ todo \in Seq(Steps) /\ Len(todo) <= 12
    /\ \A i \in 1 .. Len(todo) - 1 : todo[i + 1] \in After(todo[i])
    /\ todo # <<>> => todo[Len(todo)] = "commit"
    /\ Len(todo) >= 5 => \A i \in 1 .. Len(todo) : todo[i] = EngineProgram[i + 12 - Len(todo)]
    /\ Len(todo) <= 4 =>
          \A i \in 1 .. Len(todo) :
              \/ todo[i] \in Abouts \cup {"read", "commit"}
              \/ Len(todo) = 4 /\ i = 1 /\ todo[i] = "store"

(* Programs start with an entry.                                            *)
LEMMA SoundPrograms ==
    /\ \A p \in RequestPrograms : Sound(p) /\ p # <<>> /\ Len(p) <= 4 /\ Head(p) \in Abouts
    /\ Sound(EngineProgram) /\ EngineProgram # <<>> /\ Len(EngineProgram) = 12
    /\ Head(EngineProgram) = "session"
<1>1. ASSUME NEW a \in Abouts
      PROVE  LET p == <<a, "commit">>
             IN  Sound(p) /\ p # <<>> /\ Len(p) <= 4 /\ Head(p) \in Abouts
  <2> DEFINE p == <<a, "commit">>
  <2>1. p \in Seq(Steps) /\ Len(p) = 2 /\ p[1] = a /\ p[2] = "commit" /\ Head(p) = a /\ p # <<>>
    BY DEF Steps
  <2> HIDE DEF p
  <2>2. \A i \in 1 .. Len(p) - 1 : p[i + 1] \in After(p[i])
    <3>1. \A i \in 1 .. Len(p) - 1 : i = 1 /\ i + 1 = 2
      BY <2>1
    <3>2. "commit" \in After(a)
      BY DEF After, Steps, Abouts
    <3> QED
      BY <2>1, <3>1, <3>2
  <2>3. Sound(p)
    <3>1. \A i \in 1 .. Len(p) : i = 1 \/ i = 2
      BY <2>1
    <3> QED
      BY <2>1, <2>2, <3>1 DEF Sound
  <2> QED
    BY <2>1, <2>3 DEF p
<1>2. LET p == <<"session", "read", "mention", "commit">>
      IN  Sound(p) /\ p # <<>> /\ Len(p) <= 4 /\ Head(p) \in Abouts
  BY DEF Sound, Steps, After, Abouts
<1>3. Sound(EngineProgram) /\ EngineProgram # <<>> /\ Len(EngineProgram) = 12
      /\ Head(EngineProgram) = "session"
  BY DEF Sound, EngineProgram, Steps, After, Abouts
<1> QED
  BY <1>1, <1>2, <1>3 DEF RequestPrograms

(* Where the steps of the engine are.                                       *)
LEMMA SoundHead ==
    ASSUME NEW todo, Sound(todo), todo # <<>>
    PROVE  /\ Len(todo) \in 1 .. 12 /\ Head(todo) = todo[1] /\ Head(todo) \in Steps
           /\ Head(todo) = "leaves" => Len(todo) = 10
           /\ Head(todo) = "root" => Len(todo) = 9
           /\ Head(todo) = "send" => Len(todo) = 5
           /\ Head(todo) = "store" => Len(todo) = 4
           /\ Head(todo) = "commit" => Len(todo) \in {11, 6, 1}
           /\ Len(todo) = 10 => Head(todo) = "leaves"
           /\ Len(todo) = 9 => Head(todo) = "root"
           /\ Len(todo) = 5 => Head(todo) = "send"
           /\ Len(todo) = 6 => Head(todo) = "commit"
<1>1. /\ todo \in Seq(Steps) /\ Len(todo) \in 1 .. 12 /\ Head(todo) = todo[1]
      /\ Head(todo) \in Steps
  <2>1. todo \in Seq(Steps) /\ Len(todo) <= 12 /\ Len(todo) \in Nat \ {0}
    BY EmptySeq DEF Sound
  <2>2. Head(todo) = todo[1] /\ 1 \in 1 .. Len(todo) /\ Len(todo) \in 1 .. 12
    <3>1. Head(todo) = todo[1]
      BY <2>1
    <3>2. \A l \in Nat \ {0} : l <= 12 => 1 \in 1 .. l /\ l \in 1 .. 12
      OBVIOUS
    <3> QED
      BY <2>1, <3>1, <3>2
  <2>3. todo[1] \in Steps
    BY <2>1, <2>2, ElementOfSeq
  <2> QED
    BY <2>1, <2>2, <2>3
<1>2. PICK len \in 1 .. 12 : len = Len(todo)
  BY <1>1
<1>3. PICK head \in Steps : head = Head(todo)
  BY <1>1
<1>4. CASE len >= 5
  <2>1. head = EngineProgram[1 + 12 - len]
    BY <1>1, <1>2, <1>3, <1>4 DEF Sound
  <2>2. /\ EngineProgram[1] = "session" /\ EngineProgram[2] = "commit"
        /\ EngineProgram[3] = "leaves" /\ EngineProgram[4] = "root"
        /\ EngineProgram[5] = "read" /\ EngineProgram[6] = "session"
        /\ EngineProgram[7] = "commit" /\ EngineProgram[8] = "send"
    BY DEF EngineProgram
  <2>3. len \in {5, 6, 7, 8, 9, 10, 11, 12}
    BY <1>4
  <2>4. /\ head = "leaves" <=> len = 10
        /\ head = "root" <=> len = 9
        /\ head = "send" <=> len = 5
        /\ head # "store"
        /\ head = "commit" => len = 11 \/ len = 6
        /\ len = 6 => head = "commit"
    BY ONLY <2>1, <2>2, <2>3
  <2> QED
    BY <1>1, <1>2, <1>3, <1>4, <2>4
<1>5. CASE len \in 1 .. 4
  <2>1. \/ head \in Abouts \cup {"read", "commit"}
        \/ len = 4 /\ head = "store"
    <3>1. Len(todo) <= 4 /\ 1 \in 1 .. Len(todo)
      BY <1>2, <1>5
    <3>2. \/ todo[1] \in Abouts \cup {"read", "commit"}
          \/ Len(todo) = 4 /\ todo[1] = "store"
      BY <3>1 DEF Sound
    <3> QED
      BY <1>1, <1>2, <1>3, <3>2
  <2>2. head = "commit" => len = 1
    <3> SUFFICES ASSUME head = "commit", len # 1 PROVE FALSE
      OBVIOUS
    <3>1. 1 \in 1 .. len - 1 /\ 2 \in 1 .. len /\ 1 + 1 = 2 /\ 2 # 1 /\ len <= 4
      BY <1>5
    <3>2. todo[2] \in After(head)
      BY <1>1, <1>2, <1>3, <3>1 DEF Sound
    <3>3. todo[2] \in Abouts \cup {"read", "commit"}
      BY <1>1, <1>2, <3>1 DEF Sound
    <3> QED
      BY <3>2, <3>3 DEF After, Abouts
  <2>3. head # "leaves" /\ head # "root" /\ head # "send" /\ (head = "store" => len = 4)
    BY <2>1 DEF Abouts
  <2>4. len # 10 /\ len # 9 /\ len # 5 /\ len # 6
    BY <1>5
  <2>5. /\ head = "leaves" <=> len = 10
        /\ head = "root" <=> len = 9
        /\ head = "send" <=> len = 5
        /\ head = "store" => len = 4
        /\ head = "commit" => len = 1
        /\ len # 6
    BY ONLY <2>2, <2>3, <2>4
  <2> QED
    BY <1>1, <1>2, <1>3, <2>5
<1>6. len >= 5 \/ len \in 1 .. 4
  OBVIOUS
<1> QED
  BY <1>4, <1>5, <1>6

(* The rest of a program.                                                   *)
LEMMA SoundRest ==
    ASSUME NEW todo, Sound(todo), todo # <<>>
    PROVE  /\ Sound(Tail(todo)) /\ Len(Tail(todo)) = Len(todo) - 1
           /\ Tail(todo) = <<>> => Head(todo) = "commit"
           /\ Tail(todo) # <<>> => Head(Tail(todo)) \in After(Head(todo))
<1> DEFINE rest == Tail(todo)
<1>1. /\ Len(todo) \in 1 .. 12 /\ Head(todo) = todo[1] /\ todo \in Seq(Steps)
      /\ todo[Len(todo)] = "commit"
  BY SoundHead DEF Sound
<1>2. /\ rest \in Seq(Steps) /\ Len(rest) = Len(todo) - 1
      /\ \A i \in 1 .. Len(rest) : rest[i] = todo[i + 1]
  BY <1>1, HeadTailProperties
<1> HIDE DEF rest
<1>3. \A i \in 1 .. Len(rest) - 1 : rest[i + 1] \in After(rest[i])
  <2> SUFFICES ASSUME NEW i \in 1 .. Len(rest) - 1 PROVE rest[i + 1] \in After(rest[i])
    OBVIOUS
  <2>1. i + 1 \in 1 .. Len(todo) - 1 /\ i \in 1 .. Len(rest) /\ i + 1 \in 1 .. Len(rest)
    BY <1>1, <1>2
  <2>2. todo[(i + 1) + 1] \in After(todo[i + 1])
    BY <2>1 DEF Sound
  <2> QED
    BY <1>2, <2>1, <2>2
<1>4. rest # <<>> => rest[Len(rest)] = "commit"
  <2> SUFFICES ASSUME rest # <<>> PROVE rest[Len(rest)] = "commit"
    OBVIOUS
  <2>1. Len(rest) \in 1 .. Len(rest) /\ Len(rest) + 1 = Len(todo)
    BY <1>1, <1>2, EmptySeq
  <2> QED
    BY <1>1, <1>2, <2>1
<1>5. Len(rest) >= 5 => \A i \in 1 .. Len(rest) : rest[i] = EngineProgram[i + 12 - Len(rest)]
  <2> SUFFICES ASSUME Len(rest) >= 5, NEW i \in 1 .. Len(rest)
               PROVE  rest[i] = EngineProgram[i + 12 - Len(rest)]
    OBVIOUS
  <2>1. /\ i + 1 \in 1 .. Len(todo) /\ Len(todo) >= 5
        /\ (i + 1) + 12 - Len(todo) = i + 12 - Len(rest)
    BY <1>1, <1>2
  <2>2. todo[i + 1] = EngineProgram[(i + 1) + 12 - Len(todo)]
    BY <2>1 DEF Sound
  <2> QED
    BY <1>2, <2>1, <2>2
<1>6. Len(rest) <= 4 =>
          \A i \in 1 .. Len(rest) :
              \/ rest[i] \in Abouts \cup {"read", "commit"}
              \/ Len(rest) = 4 /\ i = 1 /\ rest[i] = "store"
  <2> SUFFICES ASSUME Len(rest) <= 4, NEW i \in 1 .. Len(rest)
               PROVE  \/ rest[i] \in Abouts \cup {"read", "commit"}
                      \/ Len(rest) = 4 /\ i = 1 /\ rest[i] = "store"
    OBVIOUS
  <2>1. i + 1 \in 1 .. Len(todo) /\ i + 1 # 1 /\ rest[i] = todo[i + 1]
    BY <1>1, <1>2
  <2>2. CASE Len(todo) <= 4
    BY <2>1, <2>2 DEF Sound
  <2>3. CASE Len(todo) = 5
    <3>1. todo[i + 1] = EngineProgram[(i + 1) + 12 - 5] /\ i \in {1, 2, 3, 4} /\ Len(rest) = 4
      BY <1>2, <2>1, <2>3 DEF Sound
    <3>2. /\ EngineProgram[9] = "store" /\ EngineProgram[10] = "read"
          /\ EngineProgram[11] = "session" /\ EngineProgram[12] = "commit"
      BY DEF EngineProgram
    <3> QED
      BY <2>1, <3>1, <3>2 DEF Abouts
  <2> QED
    BY <1>1, <1>2, <2>2, <2>3
<1>7. rest = <<>> => Head(todo) = "commit"
  <2> SUFFICES ASSUME rest = <<>> PROVE todo[1] = "commit"
    BY <1>1
  <2>1. Len(rest) = 0
    OBVIOUS
  <2>2. Len(todo) = 1
    BY <1>1, <1>2, <2>1
  <2> QED
    BY <1>1, <2>2
<1>8. rest # <<>> => Head(rest) \in After(Head(todo))
  <2> SUFFICES ASSUME rest # <<>> PROVE Head(rest) \in After(Head(todo))
    OBVIOUS
  <2>1. 1 \in 1 .. Len(rest) /\ 1 \in 1 .. Len(todo) - 1 /\ Head(rest) = rest[1]
    BY <1>1, <1>2, EmptySeq
  <2>2. todo[1 + 1] \in After(todo[1])
    BY <2>1 DEF Sound
  <2> QED
    BY <1>1, <1>2, <2>1, <2>2
<1> QED
  BY <1>1, <1>2, <1>3, <1>4, <1>5, <1>6, <1>7, <1>8 DEF Sound, rest

-------------------------------------------------------------------------------
(* The workers.                                                             *)

Fields == {"todo", "prev", "rows", "leaves", "merkle", "anchorTx"}

(* A worker is at a place of one of the programs.                           *)
TxInv ==
    /\ DOMAIN tx = Workers
    /\ \A w \in Workers : DOMAIN tx[w] = Fields /\ Sound(tx[w].todo)

(* What a step makes of its worker, and of no other.                        *)
Becomes(w, todo, prev, rows, leaves, root, anchor) ==
    /\ DOMAIN tx' = Workers
    /\ \A v \in Workers \ {w} : tx'[v] = tx[v]
    /\ DOMAIN tx'[w] = Fields
    /\ tx'[w].todo = todo /\ tx'[w].prev = prev /\ tx'[w].rows = rows
    /\ tx'[w].leaves = leaves /\ tx'[w].merkle = root /\ tx'[w].anchorTx = anchor

NewEntry(w, about) == [at |-> clock + 1, prev |-> tx[w].prev, about |-> about]

(* The steps, field by field.                                               *)
LEMMA Moves ==
    ASSUME TxInv, NEW w \in Workers
    PROVE  /\ \A todo : ReadEnd(w, todo) =>
                  Becomes(w, todo, End(w), tx[w].rows, tx[w].leaves, tx[w].merkle, tx[w].anchorTx)
           /\ \A about \in Abouts : Insert(w, about) =>
                  Becomes(w, Tail(tx[w].todo), tx[w].prev, tx[w].rows \cup {NewEntry(w, about)},
                          tx[w].leaves, tx[w].merkle, tx[w].anchorTx)
           /\ ReadLeaves(w) =>
                  Becomes(w, Tail(tx[w].todo), tx[w].prev, tx[w].rows, Leaves(Visible(w)),
                          tx[w].merkle, tx[w].anchorTx)
           /\ StoreRoot(w) =>
                  Becomes(w, Tail(tx[w].todo), tx[w].prev, tx[w].rows, tx[w].leaves,
                          Root(tx[w].leaves), tx[w].anchorTx)
           /\ Send(w) =>
                  Becomes(w, Tail(tx[w].todo), tx[w].prev, tx[w].rows, tx[w].leaves,
                          tx[w].merkle, tx[w].anchorTx)
           /\ StoreAnchor(w) =>
                  Becomes(w, Tail(tx[w].todo), tx[w].prev, tx[w].rows, tx[w].leaves,
                          tx[w].merkle, Root(tx[w].leaves))
           /\ Fail(w) \/ SkipAnchor(w) => Becomes(w, <<>>, NoRead, {}, <<>>, None, None)
           /\ Commit(w) =>
                  Becomes(w, Tail(tx[w].todo), NoRead, {},
                          IF Tail(tx[w].todo) = <<>> THEN <<>> ELSE tx[w].leaves, None, None)
<1> USE DEF Becomes, Fields
<1>1. DOMAIN tx = Workers /\ DOMAIN tx[w] = Fields
  BY DEF TxInv
<1>2. ASSUME NEW todo, ReadEnd(w, todo)
      PROVE  Becomes(w, todo, End(w), tx[w].rows, tx[w].leaves, tx[w].merkle, tx[w].anchorTx)
  BY <1>1, <1>2 DEF ReadEnd
<1>3. ASSUME NEW about \in Abouts, Insert(w, about)
      PROVE  Becomes(w, Tail(tx[w].todo), tx[w].prev, tx[w].rows \cup {NewEntry(w, about)},
                     tx[w].leaves, tx[w].merkle, tx[w].anchorTx)
  BY <1>1, <1>3 DEF Insert, NewEntry, Rest
<1>4. ASSUME ReadLeaves(w)
      PROVE  Becomes(w, Tail(tx[w].todo), tx[w].prev, tx[w].rows, Leaves(Visible(w)),
                     tx[w].merkle, tx[w].anchorTx)
  BY <1>1, <1>4 DEF ReadLeaves, Rest
<1>5. ASSUME StoreRoot(w)
      PROVE  Becomes(w, Tail(tx[w].todo), tx[w].prev, tx[w].rows, tx[w].leaves,
                     Root(tx[w].leaves), tx[w].anchorTx)
  BY <1>1, <1>5 DEF StoreRoot, Rest
<1>6. ASSUME Send(w)
      PROVE  Becomes(w, Tail(tx[w].todo), tx[w].prev, tx[w].rows, tx[w].leaves,
                     tx[w].merkle, tx[w].anchorTx)
  BY <1>1, <1>6 DEF Send, Rest
<1>7. ASSUME StoreAnchor(w)
      PROVE  Becomes(w, Tail(tx[w].todo), tx[w].prev, tx[w].rows, tx[w].leaves,
                     tx[w].merkle, Root(tx[w].leaves))
  BY <1>1, <1>7 DEF StoreAnchor, Rest
<1>8. ASSUME Fail(w) \/ SkipAnchor(w)
      PROVE  Becomes(w, <<>>, NoRead, {}, <<>>, None, None)
  <2>1. tx' = [tx EXCEPT ![w] = Idle]
    BY <1>8 DEF Fail, SkipAnchor
  <2> QED
    BY <1>1, <2>1 DEF Idle
<1>9. ASSUME Commit(w)
      PROVE  Becomes(w, Tail(tx[w].todo), NoRead, {},
                     IF Tail(tx[w].todo) = <<>> THEN <<>> ELSE tx[w].leaves, None, None)
  <2>1. tx' = [tx EXCEPT ![w] = Closed(w, Rest(w))]
    BY <1>9 DEF Commit
  <2>2. DOMAIN tx' = Workers /\ \A v \in Workers \ {w} : tx'[v] = tx[v]
    BY <1>1, <2>1
  <2>3. tx'[w] = IF Tail(tx[w].todo) = <<>> THEN Idle
                 ELSE [Idle EXCEPT !.todo = Tail(tx[w].todo), !.leaves = tx[w].leaves]
    BY <1>1, <2>1 DEF Closed, Rest
  <2>4. CASE Tail(tx[w].todo) = <<>>
    BY <2>2, <2>3, <2>4 DEF Idle
  <2>5. CASE Tail(tx[w].todo) # <<>>
    BY <2>2, <2>3, <2>5 DEF Idle
  <2> QED
    BY <2>4, <2>5
<1> QED
  BY <1>2, <1>3, <1>4, <1>5, <1>6, <1>7, <1>8, <1>9

(* Every step is one of these.                                              *)
LEMMA StepsAre ==
    ASSUME Next
    PROVE  \E w \in Workers :
              \/ \E p \in RequestPrograms : StartRequest(w, p)
              \/ StartEngine(w) \/ Read(w)
              \/ \E about \in Abouts : Insert(w, about)
              \/ ReadLeaves(w) \/ StoreRoot(w) \/ Send(w) \/ StoreAnchor(w) \/ SkipAnchor(w)
              \/ Commit(w) \/ Fail(w)
BY DEF Next

(* The workers keep to their programs.                                      *)
LEMMA TxKept ==
    ASSUME TxInv, [Next]_vars
    PROVE  TxInv'
<1>1. CASE UNCHANGED vars
  BY <1>1 DEF TxInv, vars
<1>2. CASE Next
  <2>1. PICK w \in Workers :
              \/ \E p \in RequestPrograms : StartRequest(w, p)
              \/ StartEngine(w) \/ Read(w)
              \/ \E about \in Abouts : Insert(w, about)
              \/ ReadLeaves(w) \/ StoreRoot(w) \/ Send(w) \/ StoreAnchor(w) \/ SkipAnchor(w)
              \/ Commit(w) \/ Fail(w)
    BY <1>2, StepsAre
  <2>2. SUFFICES ASSUME NEW todo, Sound(todo), NEW prev, NEW rows, NEW leaves, NEW root, NEW anchor,
                        Becomes(w, todo, prev, rows, leaves, root, anchor)
                 PROVE  TxInv'
    <3>1. tx[w].todo # <<>> => Sound(Tail(tx[w].todo))
      BY SoundRest DEF TxInv
    <3>2. Sound(<<>>)
      BY EmptySeq DEF Sound
    <3>3. CASE \E p \in RequestPrograms : StartRequest(w, p)
      BY <3>3, Moves, SoundPrograms DEF StartRequest
    <3>4. CASE StartEngine(w)
      BY <3>4, Moves, SoundPrograms DEF StartEngine
    <3>5. CASE Read(w)
      BY <3>1, <3>5, Moves DEF Read, Doing, Rest
    <3>6. CASE \E about \in Abouts : Insert(w, about)
      <4>1. PICK about \in Abouts : Insert(w, about)
        BY <3>6
      <4> QED
        BY <3>1, <4>1, Moves DEF Insert, Doing
    <3>7. CASE ReadLeaves(w)
      BY <3>1, <3>7, Moves DEF ReadLeaves, Doing
    <3>8. CASE StoreRoot(w)
      BY <3>1, <3>8, Moves DEF StoreRoot, Doing
    <3>9. CASE Send(w)
      BY <3>1, <3>9, Moves DEF Send, Doing
    <3>10. CASE StoreAnchor(w)
      BY <3>1, <3>10, Moves DEF StoreAnchor, Doing
    <3>11. CASE Commit(w)
      BY <3>1, <3>11, Moves DEF Commit, Doing
    <3>12. CASE Fail(w) \/ SkipAnchor(w)
      BY <3>2, <3>12, Moves
    <3> QED
      BY <2>1, <3>3, <3>4, <3>5, <3>6, <3>7, <3>8, <3>9, <3>10, <3>11, <3>12
  <2> QED
    BY <2>2 DEF TxInv, Becomes
<1> QED
  BY <1>1, <1>2
-------------------------------------------------------------------------------
(* The anchors.                                                             *)

(* An anchor that is stored has been sent, and so has one about to be.      *)
SentInv ==
    /\ anchorTx # None => anchorTx \in chain
    /\ \A w \in Workers :
          /\ tx[w].anchorTx # None => tx[w].anchorTx \in chain
          /\ Doing(w, "store") => Root(tx[w].leaves) \in chain

(* Only what has been sent is stored.                                       *)
LEMMA StoreFollowsSend ==
    ASSUME TxInv, NEW w \in Workers, tx[w].todo # <<>>, tx'[w].todo = Tail(tx[w].todo),
           Doing(w, "store")'
    PROVE  Doing(w, "send")
<1>1. Tail(tx[w].todo) # <<>> /\ Head(Tail(tx[w].todo)) = "store"
  BY DEF Doing
<1>2. Sound(tx[w].todo)
  BY DEF TxInv
<1>3. Head(tx[w].todo) \in Steps /\ "store" \in After(Head(tx[w].todo))
  BY <1>1, <1>2, SoundHead, SoundRest
<1> QED
  BY <1>3 DEF After, Steps, Abouts, Doing

(* The anchors that are sent stay sent.                                     *)
LEMMA SentKept ==
    ASSUME TxInv, SentInv, [Next]_vars
    PROVE  SentInv'
<1>1. CASE UNCHANGED vars
  BY <1>1 DEF SentInv, vars, Doing
<1>2. CASE Next
  <2>1. PICK w \in Workers :
              \/ \E p \in RequestPrograms : StartRequest(w, p)
              \/ StartEngine(w) \/ Read(w)
              \/ \E about \in Abouts : Insert(w, about)
              \/ ReadLeaves(w) \/ StoreRoot(w) \/ Send(w) \/ StoreAnchor(w) \/ SkipAnchor(w)
              \/ Commit(w) \/ Fail(w)
    BY <1>2, StepsAre
  <2> DEFINE Own == /\ tx'[w].anchorTx # None => tx'[w].anchorTx \in chain'
                    /\ Doing(w, "store")' => Root(tx'[w].leaves) \in chain'
             Others == \A v \in Workers \ {w} : tx'[v] = tx[v]
             Grown == chain \subseteq chain'
             Row0 == anchorTx' # None => anchorTx' \in chain'
             Goal == Own /\ Others /\ Grown /\ Row0
  <2>2. /\ tx[w].anchorTx # None => tx[w].anchorTx \in chain
        /\ Doing(w, "store") => Root(tx[w].leaves) \in chain
        /\ anchorTx # None => anchorTx \in chain
    BY DEF SentInv
  <2>3. ASSUME NEW step, Doing(w, step), step # "send", tx'[w].todo = Tail(tx[w].todo)
        PROVE  ~Doing(w, "store")'
    <3>1. tx[w].todo # <<>> /\ ~Doing(w, "send")
      BY <2>3 DEF Doing
    <3> QED
      BY <2>3, <3>1, StoreFollowsSend
  <2>0. SUFFICES Goal
    <3>1. ASSUME Goal, NEW v \in Workers \ {w}
          PROVE  /\ tx'[v].anchorTx # None => tx'[v].anchorTx \in chain'
                 /\ Doing(v, "store")' => Root(tx'[v].leaves) \in chain'
      BY <3>1 DEF SentInv, Doing
    <3> QED
      BY <3>1 DEF SentInv
  <2>4. CASE \E p \in RequestPrograms : StartRequest(w, p)
    <3>1. PICK p \in RequestPrograms : StartRequest(w, p)
      BY <2>4
    <3>2. /\ Becomes(w, p, End(w), tx[w].rows, tx[w].leaves, tx[w].merkle, tx[w].anchorTx)
          /\ UNCHANGED <<chain, anchorTx>>
      BY <3>1, Moves DEF StartRequest, ReadEnd
    <3>3. ~Doing(w, "store")'
      BY <3>2, SoundPrograms DEF Becomes, Doing, Abouts
    <3> QED
      BY <2>2, <3>2, <3>3 DEF Becomes
  <2>5. CASE StartEngine(w)
    <3>1. /\ Becomes(w, EngineProgram, End(w), tx[w].rows, tx[w].leaves, tx[w].merkle, tx[w].anchorTx)
          /\ UNCHANGED <<chain, anchorTx>>
      BY <2>5, Moves DEF StartEngine, ReadEnd
    <3>2. ~Doing(w, "store")'
      BY <3>1, SoundPrograms DEF Becomes, Doing
    <3> QED
      BY <2>2, <3>1, <3>2 DEF Becomes
  <2>6. CASE Read(w)
    <3>1. /\ Becomes(w, Tail(tx[w].todo), End(w), tx[w].rows, tx[w].leaves, tx[w].merkle, tx[w].anchorTx)
          /\ UNCHANGED <<chain, anchorTx>> /\ Doing(w, "read")
      BY <2>6, Moves DEF Read, ReadEnd, Rest
    <3>2. ~Doing(w, "store")'
      BY <2>3, <3>1 DEF Becomes
    <3> QED
      BY <2>2, <3>1, <3>2 DEF Becomes
  <2>7. CASE \E about \in Abouts : Insert(w, about)
    <3>1. PICK about \in Abouts : Insert(w, about)
      BY <2>7
    <3>2. /\ Becomes(w, Tail(tx[w].todo), tx[w].prev, tx[w].rows \cup {NewEntry(w, about)},
                     tx[w].leaves, tx[w].merkle, tx[w].anchorTx)
          /\ UNCHANGED <<chain, anchorTx>> /\ Doing(w, about) /\ about # "send"
      BY <3>1, Moves DEF Insert, Abouts
    <3>3. ~Doing(w, "store")'
      BY <2>3, <3>2 DEF Becomes
    <3> QED
      BY <2>2, <3>2, <3>3 DEF Becomes
  <2>8. CASE ReadLeaves(w)
    <3>1. /\ Becomes(w, Tail(tx[w].todo), tx[w].prev, tx[w].rows, Leaves(Visible(w)),
                     tx[w].merkle, tx[w].anchorTx)
          /\ UNCHANGED <<chain, anchorTx>> /\ Doing(w, "leaves")
      BY <2>8, Moves DEF ReadLeaves
    <3>2. ~Doing(w, "store")'
      BY <2>3, <3>1 DEF Becomes
    <3> QED
      BY <2>2, <3>1, <3>2 DEF Becomes
  <2>9. CASE StoreRoot(w)
    <3>1. /\ Becomes(w, Tail(tx[w].todo), tx[w].prev, tx[w].rows, tx[w].leaves,
                     Root(tx[w].leaves), tx[w].anchorTx)
          /\ UNCHANGED <<chain, anchorTx>> /\ Doing(w, "root")
      BY <2>9, Moves DEF StoreRoot
    <3>2. ~Doing(w, "store")'
      BY <2>3, <3>1 DEF Becomes
    <3> QED
      BY <2>2, <3>1, <3>2 DEF Becomes
  <2>10. CASE Send(w)
    <3>1. /\ Becomes(w, Tail(tx[w].todo), tx[w].prev, tx[w].rows, tx[w].leaves,
                     tx[w].merkle, tx[w].anchorTx)
          /\ anchorTx' = anchorTx /\ chain' = chain \cup {Root(tx[w].leaves)}
      BY <2>10, Moves DEF Send
    <3> QED
      BY <2>2, <3>1 DEF Becomes
  <2>11. CASE StoreAnchor(w)
    <3>1. /\ Becomes(w, Tail(tx[w].todo), tx[w].prev, tx[w].rows, tx[w].leaves,
                     tx[w].merkle, Root(tx[w].leaves))
          /\ UNCHANGED <<chain, anchorTx>> /\ Doing(w, "store")
      BY <2>11, Moves DEF StoreAnchor
    <3>2. ~Doing(w, "store")'
      BY <2>3, <3>1 DEF Becomes
    <3> QED
      BY <2>2, <3>1, <3>2 DEF Becomes
  <2>12. CASE Commit(w)
    <3>1. /\ Becomes(w, Tail(tx[w].todo), NoRead, {},
                     IF Tail(tx[w].todo) = <<>> THEN <<>> ELSE tx[w].leaves, None, None)
          /\ chain' = chain /\ Doing(w, "commit")
          /\ anchorTx' = IF tx[w].anchorTx = None THEN anchorTx ELSE tx[w].anchorTx
      BY <2>12, Moves DEF Commit
    <3>2. ~Doing(w, "store")'
      BY <2>3, <3>1 DEF Becomes
    <3> QED
      BY <2>2, <3>1, <3>2 DEF Becomes
  <2>13. CASE Fail(w) \/ SkipAnchor(w)
    <3>1. /\ Becomes(w, <<>>, NoRead, {}, <<>>, None, None)
          /\ UNCHANGED <<chain, anchorTx>>
      BY <2>13, Moves DEF Fail, SkipAnchor
    <3> QED
      BY <2>2, <3>1 DEF Becomes, Doing
  <2> QED
    BY <2>1, <2>4, <2>5, <2>6, <2>7, <2>8, <2>9, <2>10, <2>11, <2>12, <2>13
<1> QED
  BY <1>1, <1>2

(* Where a worker is in the engine's program, if it is in it: before the    *)
(* root is stored, while it is in the transaction, once it is committed.    *)
Stage(todo) ==
    IF Len(todo) >= 9 THEN "before"
    ELSE IF Len(todo) >= 6 THEN "stored"
    ELSE IF Len(todo) >= 5 \/ (todo # <<>> /\ Head(todo) = "store") THEN "kept"
    ELSE "rest"

(* How the steps move between the stages.                                   *)
LEMMA StageOf ==
    ASSUME NEW todo, Sound(todo), todo # <<>>
    PROVE  /\ Head(todo) \in Abouts \cup {"read"} => Stage(Tail(todo)) = Stage(todo)
           /\ Head(todo) = "leaves" => Stage(todo) = "before" /\ Stage(Tail(todo)) = "before"
           /\ Head(todo) = "root" => Stage(todo) = "before" /\ Stage(Tail(todo)) = "stored"
           /\ Head(todo) = "send" => Stage(todo) = "kept" /\ Stage(Tail(todo)) = "kept"
           /\ Head(todo) = "store" => Stage(todo) = "kept" /\ Stage(Tail(todo)) = "rest"
           /\ Head(todo) = "commit" =>
                 \/ Stage(todo) = "before" /\ Stage(Tail(todo)) = "before"
                 \/ Stage(todo) = "stored" /\ Stage(Tail(todo)) = "kept"
                 \/ Stage(todo) = "rest" /\ Stage(Tail(todo)) = "rest"
<1>0. Len(todo) \in 1 .. 12 /\ Len(Tail(todo)) \in 0 .. 11
  <2>1. \A n \in 1 .. 12 : n - 1 \in 0 .. 11
    OBVIOUS
  <2> QED
    BY <2>1, SoundHead, SoundRest
<1>1. PICK len \in 1 .. 12 : len = Len(todo)
  BY <1>0
<1>2. PICK less \in 0 .. 11 : less = Len(Tail(todo))
  BY <1>0
<1>3. PICK head : head = Head(todo)
  OBVIOUS
<1>4. PICK store \in BOOLEAN : store <=> Tail(todo) # <<>> /\ Head(Tail(todo)) = "store"
  OBVIOUS
<1>5. /\ len \in 1 .. 12
      /\ head = "leaves" => len = 10
      /\ head = "root" => len = 9
      /\ head = "send" => len = 5
      /\ head = "store" => len = 4
      /\ head = "commit" => len \in {11, 6, 1}
      /\ len = 10 => head = "leaves"
      /\ len = 9 => head = "root"
      /\ len = 5 => head = "send"
      /\ len = 6 => head = "commit"
      /\ head \in Steps
  BY SoundHead, <1>1, <1>3
<1>6. less = len - 1
  BY SoundRest, <1>1, <1>2
<1>7. store => head = "send"
  <2>1. store => "store" \in After(head)
    BY SoundRest, <1>3, <1>4
  <2> QED
    BY <1>5, <2>1 DEF After, Steps, Abouts
<1>8. head = "send" => store
  <2> SUFFICES ASSUME head = "send" PROVE store
    OBVIOUS
  <2>1. Tail(todo) # <<>>
    BY SoundRest, <1>3
  <2>2. Head(Tail(todo)) \in After("send")
    BY <2>1, SoundRest, <1>3
  <2> QED
    BY <1>4, <2>1, <2>2 DEF After, Abouts
<1>9. /\ len >= 9 => Stage(todo) = "before"
      /\ len < 9 /\ len >= 6 => Stage(todo) = "stored"
      /\ len < 6 /\ (len = 5 \/ head = "store") => Stage(todo) = "kept"
      /\ len < 5 /\ head # "store" => Stage(todo) = "rest"
  <2>1. len >= 9 => Stage(todo) = "before"
    BY <1>1 DEF Stage
  <2>2. len < 9 /\ len >= 6 => Stage(todo) = "stored"
    BY <1>1 DEF Stage
  <2>3. len < 6 /\ (len = 5 \/ head = "store") => Stage(todo) = "kept"
    BY <1>1, <1>3 DEF Stage
  <2>4. len < 5 /\ head # "store" => Stage(todo) = "rest"
    BY <1>1, <1>3 DEF Stage
  <2> QED
    BY <2>1, <2>2, <2>3, <2>4
<1>13. /\ less >= 9 => Stage(Tail(todo)) = "before"
       /\ less < 9 /\ less >= 6 => Stage(Tail(todo)) = "stored"
       /\ less < 6 /\ (less = 5 \/ store) => Stage(Tail(todo)) = "kept"
       /\ less < 5 /\ ~store => Stage(Tail(todo)) = "rest"
  <2>1. less >= 9 => Stage(Tail(todo)) = "before"
    BY <1>2 DEF Stage
  <2>2. less < 9 /\ less >= 6 => Stage(Tail(todo)) = "stored"
    BY <1>2 DEF Stage
  <2>3. less < 6 /\ (less = 5 \/ store) => Stage(Tail(todo)) = "kept"
    BY <1>2, <1>4 DEF Stage
  <2>4. less < 5 /\ ~store => Stage(Tail(todo)) = "rest"
    BY <1>2, <1>4 DEF Stage
  <2> QED
    BY <2>1, <2>2, <2>3, <2>4
<1>10. head \in Abouts \cup {"read"} => Stage(Tail(todo)) = Stage(todo)
  BY ONLY <1>5, <1>6, <1>7, <1>9, <1>13 DEF Abouts
<1>11. head \in {"leaves", "root", "commit"} => ~store
  BY <1>7
<1>12. head \in {"leaves", "root", "send", "store", "commit"} => 
          /\ head = "leaves" => Stage(todo) = "before" /\ Stage(Tail(todo)) = "before"
          /\ head = "root" => Stage(todo) = "before" /\ Stage(Tail(todo)) = "stored"
          /\ head = "send" => Stage(todo) = "kept" /\ Stage(Tail(todo)) = "kept"
          /\ head = "store" => Stage(todo) = "kept" /\ Stage(Tail(todo)) = "rest"
          /\ head = "commit" =>
                 \/ Stage(todo) = "before" /\ Stage(Tail(todo)) = "before"
                 \/ Stage(todo) = "stored" /\ Stage(Tail(todo)) = "kept"
                 \/ Stage(todo) = "rest" /\ Stage(Tail(todo)) = "rest"
  BY ONLY <1>5, <1>6, <1>7, <1>8, <1>9, <1>11, <1>13
<1> QED
  BY <1>3, <1>10, <1>12

(* Where programs start and end.                                            *)
LEMMA StageEnds ==
    /\ \A p \in RequestPrograms : Stage(p) = "rest"
    /\ Stage(EngineProgram) = "before"
    /\ Stage(<<>>) = "rest"
<1>1. ASSUME NEW p \in RequestPrograms
      PROVE  Stage(p) = "rest"
  <2>1. Len(p) \in Nat /\ Len(p) <= 4 /\ Head(p) # "store"
    BY SoundPrograms DEF Sound, Abouts
  <2> QED
    BY <2>1 DEF Stage
<1>2. Stage(EngineProgram) = "before"
  BY SoundPrograms DEF Stage
<1>3. Stage(<<>>) = "rest"
  <2>1. Len(<<>>) = 0
    BY EmptySeq
  <2> QED
    BY <2>1 DEF Stage
<1> QED
  BY <1>1, <1>2, <1>3

(* With one engine, what is stored by then.                                 *)
Engaged(w) == Stage(tx[w].todo) # "rest" \/ HasRow(w)

Phase(w) ==
    LET stage == Stage(tx[w].todo)
        root == Root(tx[w].leaves)
    IN  /\ stage = "before" => merkle = None /\ tx[w].merkle = None /\ tx[w].anchorTx = None
        /\ stage = "stored" => merkle = None /\ tx[w].merkle = root /\ tx[w].anchorTx = None
        /\ stage = "kept" => merkle = root /\ tx[w].merkle = None /\ tx[w].anchorTx = None
        /\ stage = "rest" => tx[w].merkle = None /\ (tx[w].anchorTx # None => tx[w].anchorTx = merkle)

(* With one engine, one worker at most is about the root, and the stores are*)
(* as far as its program.                                                   *)
OneEngineInv ==
    /\ engines \in Nat
    /\ engines = 0 => merkle = None /\ anchorTx = None /\ \A w \in Workers : ~Engaged(w)
    /\ engines = 1 =>
          /\ \A v, w \in Workers : Engaged(v) /\ Engaged(w) => v = w
          /\ \A w \in Workers : Phase(w)
          /\ anchorTx # None => anchorTx = merkle /\ \A w \in Workers : ~Engaged(w)

(* A stage is one of four.                                                  *)
LEMMA Stages == \A todo : Stage(todo) \in {"before", "stored", "kept", "rest"}
BY DEF Stage

(* One step of a worker with one engine at most, the engine's start apart.  *)
LEMMA PhaseKept ==
    ASSUME TxInv, NEW w \in Workers, Phase(w),
           anchorTx # None => anchorTx = merkle /\ ~Engaged(w),
           \/ \E p \in RequestPrograms : StartRequest(w, p)
           \/ Read(w)
           \/ \E about \in Abouts : Insert(w, about)
           \/ ReadLeaves(w) \/ StoreRoot(w) \/ Send(w) \/ StoreAnchor(w) \/ SkipAnchor(w)
           \/ Commit(w) \/ Fail(w)
    PROVE  /\ \A v \in Workers \ {w} : tx'[v] = tx[v]
           /\ engines' = engines
           /\ Phase(w)'
           /\ Engaged(w)' => Engaged(w)
           /\ merkle' # merkle \/ anchorTx' # anchorTx => Engaged(w)
           /\ anchorTx' # None => anchorTx' = merkle' /\ ~Engaged(w)'
<1> DEFINE Goal == /\ \A v \in Workers \ {w} : tx'[v] = tx[v]
                   /\ engines' = engines
                   /\ Phase(w)'
                   /\ Engaged(w)' => Engaged(w)
                   /\ merkle' # merkle \/ anchorTx' # anchorTx => Engaged(w)
                   /\ anchorTx' # None => anchorTx' = merkle' /\ ~Engaged(w)'
           Same == UNCHANGED <<merkle, anchorTx, engines>>
<1>1. SUFFICES Goal
  OBVIOUS
<1>2. ASSUME NEW step, Doing(w, step)
      PROVE  Sound(tx[w].todo) /\ tx[w].todo # <<>> /\ Head(tx[w].todo) = step
  BY <1>2 DEF TxInv, Doing
<1>3. CASE \E p \in RequestPrograms : StartRequest(w, p)
  <2>1. PICK p \in RequestPrograms : StartRequest(w, p)
    BY <1>3
  <2>2. /\ Same /\ tx[w].todo = <<>>
        /\ Becomes(w, p, End(w), tx[w].rows, tx[w].leaves, tx[w].merkle, tx[w].anchorTx)
    BY <2>1, Moves DEF StartRequest, ReadEnd
  <2>3. Stage(tx[w].todo) = "rest" /\ Stage(tx'[w].todo) = "rest"
    BY <2>2, StageEnds DEF Becomes
  <2> QED
    BY <2>2, <2>3 DEF Becomes, Phase, Engaged, HasRow
<1>4. CASE Read(w)
  <2>1. /\ Same /\ Doing(w, "read")
        /\ Becomes(w, Tail(tx[w].todo), End(w), tx[w].rows, tx[w].leaves, tx[w].merkle, tx[w].anchorTx)
    BY <1>4, Moves DEF Read, ReadEnd, Rest
  <2>2. Stage(tx'[w].todo) = Stage(tx[w].todo)
    BY <1>2, <2>1, StageOf DEF Becomes
  <2> QED
    BY <2>1, <2>2 DEF Becomes, Phase, Engaged, HasRow
<1>5. CASE \E about \in Abouts : Insert(w, about)
  <2>1. PICK about \in Abouts : Insert(w, about)
    BY <1>5
  <2>2. /\ Same /\ Doing(w, about)
        /\ Becomes(w, Tail(tx[w].todo), tx[w].prev, tx[w].rows \cup {NewEntry(w, about)},
                   tx[w].leaves, tx[w].merkle, tx[w].anchorTx)
    BY <2>1, Moves DEF Insert
  <2>3. Stage(tx'[w].todo) = Stage(tx[w].todo)
    BY <1>2, <2>2, StageOf DEF Becomes
  <2> QED
    BY <2>2, <2>3 DEF Becomes, Phase, Engaged, HasRow
<1>6. CASE ReadLeaves(w)
  <2>1. /\ Same /\ Doing(w, "leaves")
        /\ Becomes(w, Tail(tx[w].todo), tx[w].prev, tx[w].rows, Leaves(Visible(w)),
                   tx[w].merkle, tx[w].anchorTx)
    BY <1>6, Moves DEF ReadLeaves
  <2>2. Stage(tx[w].todo) = "before" /\ Stage(tx'[w].todo) = "before"
    BY <1>2, <2>1, StageOf DEF Becomes
  <2> QED
    BY <2>1, <2>2 DEF Becomes, Phase, Engaged, HasRow
<1>7. CASE StoreRoot(w)
  <2>1. /\ Same /\ Doing(w, "root")
        /\ Becomes(w, Tail(tx[w].todo), tx[w].prev, tx[w].rows, tx[w].leaves,
                   Root(tx[w].leaves), tx[w].anchorTx)
    BY <1>7, Moves DEF StoreRoot
  <2>2. Stage(tx[w].todo) = "before" /\ Stage(tx'[w].todo) = "stored"
    BY <1>2, <2>1, StageOf DEF Becomes
  <2>3. Phase(w)'
    BY <2>1, <2>2 DEF Becomes, Phase
  <2>4. anchorTx = None /\ Engaged(w)
    BY <2>2 DEF Engaged
  <2> QED
    BY <2>1, <2>3, <2>4 DEF Becomes
<1>8. CASE Send(w)
  <2>1. /\ Same /\ Doing(w, "send")
        /\ Becomes(w, Tail(tx[w].todo), tx[w].prev, tx[w].rows, tx[w].leaves,
                   tx[w].merkle, tx[w].anchorTx)
    BY <1>8, Moves DEF Send
  <2>2. Stage(tx[w].todo) = "kept" /\ Stage(tx'[w].todo) = "kept"
    BY <1>2, <2>1, StageOf DEF Becomes
  <2> QED
    BY <2>1, <2>2 DEF Becomes, Phase, Engaged, HasRow
<1>9. CASE StoreAnchor(w)
  <2>1. /\ Same /\ Doing(w, "store")
        /\ Becomes(w, Tail(tx[w].todo), tx[w].prev, tx[w].rows, tx[w].leaves,
                   tx[w].merkle, Root(tx[w].leaves))
    BY <1>9, Moves DEF StoreAnchor
  <2>2. Stage(tx[w].todo) = "kept" /\ Stage(tx'[w].todo) = "rest"
    BY <1>2, <2>1, StageOf DEF Becomes
  <2>3. Phase(w)'
    BY <2>1, <2>2 DEF Becomes, Phase
  <2>4. anchorTx = None /\ Engaged(w)
    BY <2>2 DEF Engaged
  <2> QED
    BY <2>1, <2>3, <2>4 DEF Becomes
<1>10. CASE Commit(w)
  <2>1. /\ Doing(w, "commit") /\ engines' = engines
        /\ merkle' = IF tx[w].merkle = None THEN merkle ELSE tx[w].merkle
        /\ anchorTx' = IF tx[w].anchorTx = None THEN anchorTx ELSE tx[w].anchorTx
        /\ Becomes(w, Tail(tx[w].todo), NoRead, {},
                   IF Tail(tx[w].todo) = <<>> THEN <<>> ELSE tx[w].leaves, None, None)
    BY <1>10, Moves DEF Commit
  <2>2. \/ Stage(tx[w].todo) = "before" /\ Stage(tx'[w].todo) = "before"
        \/ Stage(tx[w].todo) = "stored" /\ Stage(tx'[w].todo) = "kept"
        \/ Stage(tx[w].todo) = "rest" /\ Stage(tx'[w].todo) = "rest"
    BY <1>2, <2>1, StageOf DEF Becomes
  <2>3. ~HasRow(w)' /\ \A v \in Workers \ {w} : tx'[v] = tx[v]
    BY <2>1 DEF Becomes, HasRow
  <2>4. CASE Stage(tx[w].todo) = "before" /\ Stage(tx'[w].todo) = "before"
    BY <2>1, <2>3, <2>4 DEF Becomes, Phase, Engaged
  <2>5. CASE Stage(tx[w].todo) = "stored" /\ Stage(tx'[w].todo) = "kept"
    <3>1. Tail(tx[w].todo) # <<>>
      BY <2>1, <2>5, StageEnds DEF Becomes
    <3> QED
      BY <2>1, <2>3, <2>5, <3>1 DEF Becomes, Phase, Engaged
  <2>6. CASE Stage(tx[w].todo) = "rest" /\ Stage(tx'[w].todo) = "rest"
    <3>1. tx[w].merkle = None /\ merkle' = merkle
      BY <2>1, <2>6 DEF Phase
    <3>2. Phase(w)' /\ ~Engaged(w)'
      BY <2>1, <2>3, <2>6 DEF Becomes, Phase, Engaged
    <3>3. tx[w].anchorTx # None => tx[w].anchorTx = merkle /\ Engaged(w)
      BY <2>6 DEF Phase, Engaged, HasRow
    <3> QED
      BY <2>1, <2>3, <3>1, <3>2, <3>3
  <2> QED
    BY <2>2, <2>4, <2>5, <2>6
<1>11. CASE Fail(w) \/ SkipAnchor(w)
  <2>1. Same /\ Becomes(w, <<>>, NoRead, {}, <<>>, None, None)
    BY <1>11, Moves DEF Fail, SkipAnchor
  <2>2. Stage(tx'[w].todo) = "rest"
    BY <2>1, StageEnds DEF Becomes
  <2> QED
    BY <2>1, <2>2 DEF Becomes, Phase, Engaged, HasRow
<1> QED
  BY <1>3, <1>4, <1>5, <1>6, <1>7, <1>8, <1>9, <1>10, <1>11

(* One engine's work is never mixed with another's.                         *)
LEMMA OneEngineKept ==
    ASSUME TxInv, OneEngineInv, [Next]_vars
    PROVE  OneEngineInv'
<1>1. CASE UNCHANGED vars
  BY <1>1 DEF OneEngineInv, vars, Engaged, Phase, HasRow
<1>2. CASE Next
  <2>1. PICK w \in Workers :
              \/ \E p \in RequestPrograms : StartRequest(w, p)
              \/ StartEngine(w) \/ Read(w)
              \/ \E about \in Abouts : Insert(w, about)
              \/ ReadLeaves(w) \/ StoreRoot(w) \/ Send(w) \/ StoreAnchor(w) \/ SkipAnchor(w)
              \/ Commit(w) \/ Fail(w)
    BY <1>2, StepsAre
  <2>2. CASE StartEngine(w)
    <3>1. /\ Becomes(w, EngineProgram, End(w), tx[w].rows, tx[w].leaves, tx[w].merkle, tx[w].anchorTx)
          /\ UNCHANGED <<merkle, anchorTx>> /\ engines' = engines + 1
      BY <2>2, Moves DEF StartEngine, ReadEnd
    <3>2. engines \in Nat /\ engines' \in Nat /\ engines' # 0 /\ (engines' = 1 => engines = 0)
      BY <3>1 DEF OneEngineInv
    <3>3. CASE engines = 0
      <4>1. merkle = None /\ anchorTx = None /\ \A v \in Workers : ~Engaged(v)
        BY <3>3 DEF OneEngineInv
      <4>2. tx[w].merkle = None /\ tx[w].anchorTx = None
        BY <4>1 DEF Engaged, HasRow
      <4>3. Phase(w)'
        BY <3>1, <4>1, <4>2, StageEnds DEF Becomes, Phase
      <4>4. ASSUME NEW v \in Workers \ {w}
            PROVE  ~Engaged(v)' /\ Phase(v)'
        <5>1. tx'[v] = tx[v] /\ ~Engaged(v)
          BY <3>1, <4>1 DEF Becomes
        <5> QED
          BY <3>1, <5>1 DEF Engaged, Phase, HasRow
      <4>5. \A u, v \in Workers : Engaged(u)' /\ Engaged(v)' => u = v
        BY <4>4
      <4>6. \A v \in Workers : Phase(v)'
        BY <4>3, <4>4
      <4> QED
        BY <3>1, <3>2, <4>1, <4>5, <4>6 DEF OneEngineInv
    <3>4. CASE engines # 0
      <4>1. engines' # 0 /\ engines' # 1
        BY <3>2, <3>4
      <4> QED
        BY <3>2, <4>1 DEF OneEngineInv
    <3> QED
      BY <3>3, <3>4
  <2>3. CASE ~StartEngine(w)
    <3>1. engines' = engines
      BY <2>1, <2>3 DEF StartRequest, Read, Insert, ReadLeaves, StoreRoot, Send, StoreAnchor,
                        SkipAnchor, Commit, Fail
    <3>2. CASE engines \notin {0, 1}
      BY <3>1, <3>2 DEF OneEngineInv
    <3>3. CASE engines \in {0, 1}
      <4>1. /\ Phase(w)
            /\ anchorTx # None => anchorTx = merkle /\ \A v \in Workers : ~Engaged(v)
            /\ \A u, v \in Workers : Engaged(u) /\ Engaged(v) => u = v
            /\ \A v \in Workers : Phase(v)
        <5>1. ASSUME engines = 0, NEW v \in Workers
              PROVE  Phase(v)
          BY <5>1 DEF OneEngineInv, Engaged, Phase, HasRow
        <5> QED
          BY <3>3, <5>1 DEF OneEngineInv
      <4>2. /\ \A v \in Workers \ {w} : tx'[v] = tx[v]
            /\ Phase(w)'
            /\ Engaged(w)' => Engaged(w)
            /\ merkle' # merkle \/ anchorTx' # anchorTx => Engaged(w)
            /\ anchorTx' # None => anchorTx' = merkle' /\ ~Engaged(w)'
        BY <2>1, <2>3, <4>1, PhaseKept
      <4>3. ASSUME NEW v \in Workers \ {w}
            PROVE  (Engaged(v)' <=> Engaged(v)) /\ Phase(v)'
        <5>1. Engaged(v)' <=> Engaged(v)
          BY <4>2 DEF Engaged, HasRow
        <5>2. CASE merkle' = merkle
          <6>1. Phase(v) /\ tx'[v] = tx[v]
            BY <4>1, <4>2
          <6>2. Phase(v)'
            BY <5>2, <6>1 DEF Phase
          <6> QED
            BY <5>1, <6>2
        <5>3. CASE merkle' # merkle
          <6>1. ~Engaged(v)
            BY <4>1, <4>2, <5>3
          <6>2. Phase(v)'
            BY <4>2, <6>1 DEF Phase, Engaged, HasRow
          <6> QED
            BY <5>1, <6>2
        <5> QED
          BY <5>1, <5>2, <5>3
      <4>4. \A u, v \in Workers : Engaged(u)' /\ Engaged(v)' => u = v
        BY <4>1, <4>2, <4>3
      <4>5. \A v \in Workers : Phase(v)'
        BY <4>2, <4>3
      <4>6. anchorTx' # None => anchorTx' = merkle' /\ \A v \in Workers : ~Engaged(v)'
        <5>1. CASE anchorTx' = anchorTx
          BY <4>1, <4>2, <4>3, <5>1
        <5>2. CASE anchorTx' # anchorTx
          BY <4>1, <4>2, <4>3, <5>2
        <5> QED
          BY <5>1, <5>2
      <4>7. engines = 0 => merkle' = None /\ anchorTx' = None /\ \A v \in Workers : ~Engaged(v)'
        BY <4>2, <4>3 DEF OneEngineInv
      <4> QED
        BY <3>1, <4>4, <4>5, <4>6, <4>7 DEF OneEngineInv
    <3> QED
      BY <3>2, <3>3
  <2> QED
    BY <2>2, <2>3
<1> QED
  BY <1>1, <1>2

(* The row names only anchors that are on the chain, and with one engine it *)
(* is the stored root that they carry.                                      *)
THEOREM AnchorsAreReal == Spec => []AnchorIsReal
<1> DEFINE IInv == TxInv /\ SentInv /\ OneEngineInv
<1>1. Init => IInv
  <2> SUFFICES ASSUME Init PROVE IInv
    OBVIOUS
  <2>1. /\ tx = [w \in Workers |-> Idle] /\ merkle = None /\ anchorTx = None /\ engines = 0
    BY DEF Init
  <2>2. \A w \in Workers : tx[w] = Idle
    BY <2>1
  <2>3. TxInv
    <3>1. Sound(<<>>)
      BY EmptySeq DEF Sound
    <3> QED
      BY <2>1, <2>2, <3>1 DEF TxInv, Idle, Fields
  <2>4. SentInv
    BY <2>1, <2>2 DEF SentInv, Idle, Doing
  <2>5. OneEngineInv
    BY <2>1, <2>2, StageEnds DEF OneEngineInv, Engaged, HasRow, Idle
  <2> QED
    BY <2>3, <2>4, <2>5
<1>2. IInv /\ [Next]_vars => IInv'
  BY TxKept, SentKept, OneEngineKept
<1>3. IInv => AnchorIsReal
  BY DEF SentInv, OneEngineInv, AnchorIsReal
<1> HIDE DEF IInv
<1> QED
  BY <1>1, <1>2, <1>3, PTL DEF Spec
-------------------------------------------------------------------------------
(* The steps by what they do to the entries.                                *)

Same(w) == \A v \in Workers \ {w} : tx'[v] = tx[v]

(* Whether the next step of w inserts an entry.                             *)
Inserting(w) == \E about \in Abouts : Doing(w, about)

Reads(w) ==
    /\ UNCHANGED <<log, clock, merkle>>
    /\ tx'[w].prev = End(w) /\ tx'[w].rows = tx[w].rows
    /\ tx'[w].leaves = tx[w].leaves /\ tx'[w].merkle = tx[w].merkle
    /\ overlapped' = (overlapped \/ \E v \in Workers \ {w} : tx[v].prev # NoRead)
    /\ ~Doing(w, "leaves")'

Writes(w, about) ==
    /\ Doing(w, about)
    /\ UNCHANGED <<log, merkle, overlapped>> /\ clock' = clock + 1
    /\ tx'[w].prev = tx[w].prev /\ tx'[w].rows = tx[w].rows \cup {NewEntry(w, about)}
    /\ tx'[w].leaves = tx[w].leaves /\ tx'[w].merkle = tx[w].merkle
    /\ ~Doing(w, "leaves")' /\ ~Inserting(w)'

Works(w) ==
    /\ UNCHANGED <<log, clock, merkle, overlapped>>
    /\ tx'[w].prev = tx[w].prev /\ tx'[w].rows = tx[w].rows
    /\ \/ tx'[w].leaves = tx[w].leaves
       \/ Doing(w, "leaves") /\ tx'[w].leaves = Leaves(Visible(w))
    /\ tx'[w].merkle \in {tx[w].merkle, Root(tx[w].leaves)}
    /\ ~Doing(w, "leaves")' /\ ~Inserting(w)'

Commits(w) ==
    /\ UNCHANGED <<clock, overlapped>> /\ log' = log \cup tx[w].rows
    /\ merkle' = IF tx[w].merkle = None THEN merkle ELSE tx[w].merkle
    /\ tx'[w].prev = NoRead /\ tx'[w].rows = {}
    /\ tx'[w].leaves \in {<<>>, tx[w].leaves} /\ tx'[w].merkle = None
    /\ ~Inserting(w)'

Drops(w) ==
    /\ UNCHANGED <<log, clock, merkle, overlapped>>
    /\ tx'[w].prev = NoRead /\ tx'[w].rows = {}
    /\ tx'[w].leaves = <<>> /\ tx'[w].merkle = None
    /\ ~Inserting(w)'

(* What follows a step.                                                     *)
LEMMA NextStep ==
    ASSUME TxInv, NEW w \in Workers, NEW step, Doing(w, step), tx'[w].todo = Tail(tx[w].todo)
    PROVE  /\ step # "commit" => ~Doing(w, "leaves")'
           /\ step # "read" => ~Inserting(w)'
<1>1. Sound(tx[w].todo) /\ tx[w].todo # <<>> /\ Head(tx[w].todo) = step
  BY DEF TxInv, Doing
<1>2. step \in Steps
  BY <1>1, SoundHead
<1>3. \A next : Doing(w, next)' => next \in After(step)
  <2> SUFFICES ASSUME NEW next, Doing(w, next)' PROVE next \in After(step)
    OBVIOUS
  <2>1. Tail(tx[w].todo) # <<>> /\ Head(Tail(tx[w].todo)) = next
    BY DEF Doing
  <2> QED
    BY <1>1, <2>1, SoundRest
<1>4. "leaves" \in After(step) => step = "commit"
  BY <1>2 DEF After, Steps, Abouts
<1>5. \A about \in Abouts : about \in After(step) => step = "read"
  BY <1>2 DEF After, Steps, Abouts
<1> QED
  BY <1>3, <1>4, <1>5 DEF Inserting

(* Every step is of one of these kinds.                                     *)
LEMMA Kinds ==
    ASSUME TxInv, Next
    PROVE  \E w \in Workers :
              /\ DOMAIN tx' = Workers /\ Same(w)
              /\ \/ Reads(w)
                 \/ \E about \in Abouts : Writes(w, about)
                 \/ Works(w) \/ Commits(w) \/ Drops(w)
<1>1. PICK w \in Workers :
              \/ \E p \in RequestPrograms : StartRequest(w, p)
              \/ StartEngine(w) \/ Read(w)
              \/ \E about \in Abouts : Insert(w, about)
              \/ ReadLeaves(w) \/ StoreRoot(w) \/ Send(w) \/ StoreAnchor(w) \/ SkipAnchor(w)
              \/ Commit(w) \/ Fail(w)
  BY StepsAre
<1> DEFINE Goal == /\ DOMAIN tx' = Workers /\ Same(w)
                   /\ \/ Reads(w)
                      \/ \E about \in Abouts : Writes(w, about)
                      \/ Works(w) \/ Commits(w) \/ Drops(w)
<1>2. SUFFICES Goal
  OBVIOUS
<1>3. CASE \E p \in RequestPrograms : StartRequest(w, p)
  <2>1. PICK p \in RequestPrograms : StartRequest(w, p)
    BY <1>3
  <2>2. ReadEnd(w, p)
    BY <2>1 DEF StartRequest
  <2>3. Becomes(w, p, End(w), tx[w].rows, tx[w].leaves, tx[w].merkle, tx[w].anchorTx)
    BY <2>2, Moves
  <2>4. ~Doing(w, "leaves")'
    BY <2>3, SoundPrograms DEF Becomes, Doing, Abouts
  <2>5. Reads(w)
    BY <2>2, <2>3, <2>4 DEF Reads, ReadEnd, Becomes
  <2> QED
    BY <2>3, <2>5 DEF Becomes, Same
<1>4. CASE StartEngine(w)
  <2>1. ReadEnd(w, EngineProgram)
    BY <1>4 DEF StartEngine
  <2>2. Becomes(w, EngineProgram, End(w), tx[w].rows, tx[w].leaves, tx[w].merkle, tx[w].anchorTx)
    BY <2>1, Moves
  <2>3. ~Doing(w, "leaves")'
    BY <2>2, SoundPrograms DEF Becomes, Doing
  <2>4. Reads(w)
    BY <2>1, <2>2, <2>3 DEF Reads, ReadEnd, Becomes
  <2> QED
    BY <2>2, <2>4 DEF Becomes, Same
<1>5. CASE Read(w)
  <2>1. ReadEnd(w, Tail(tx[w].todo)) /\ Doing(w, "read")
    BY <1>5 DEF Read, Rest
  <2>2. Becomes(w, Tail(tx[w].todo), End(w), tx[w].rows, tx[w].leaves, tx[w].merkle, tx[w].anchorTx)
    BY <2>1, Moves
  <2>3. ~Doing(w, "leaves")'
    BY <2>1, <2>2, NextStep DEF Becomes
  <2>4. Reads(w)
    BY <2>1, <2>2, <2>3 DEF Reads, ReadEnd, Becomes
  <2> QED
    BY <2>2, <2>4 DEF Becomes, Same
<1>6. CASE \E about \in Abouts : Insert(w, about)
  <2>1. PICK about \in Abouts : Insert(w, about)
    BY <1>6
  <2>2. Becomes(w, Tail(tx[w].todo), tx[w].prev, tx[w].rows \cup {NewEntry(w, about)},
                tx[w].leaves, tx[w].merkle, tx[w].anchorTx)
    BY <2>1, Moves
  <2>3. Doing(w, about) /\ about # "read" /\ about # "commit"
    BY <2>1 DEF Insert, Abouts
  <2>4. ~Doing(w, "leaves")' /\ ~Inserting(w)'
    BY <2>2, <2>3, NextStep DEF Becomes
  <2>5. Writes(w, about)
    BY <2>1, <2>2, <2>3, <2>4 DEF Writes, Insert, Becomes
  <2> QED
    BY <2>2, <2>5 DEF Becomes, Same
<1>7. CASE ReadLeaves(w)
  <2>1. Becomes(w, Tail(tx[w].todo), tx[w].prev, tx[w].rows, Leaves(Visible(w)),
                tx[w].merkle, tx[w].anchorTx)
    BY <1>7, Moves
  <2>2. Doing(w, "leaves")
    BY <1>7 DEF ReadLeaves
  <2>3. ~Doing(w, "leaves")' /\ ~Inserting(w)'
    BY <2>1, <2>2, NextStep DEF Becomes
  <2>4. Works(w)
    BY <1>7, <2>1, <2>2, <2>3 DEF Works, ReadLeaves, Becomes
  <2> QED
    BY <2>1, <2>4 DEF Becomes, Same
<1>8. CASE StoreRoot(w)
  <2>1. Becomes(w, Tail(tx[w].todo), tx[w].prev, tx[w].rows, tx[w].leaves,
                Root(tx[w].leaves), tx[w].anchorTx)
    BY <1>8, Moves
  <2>2. Doing(w, "root")
    BY <1>8 DEF StoreRoot
  <2>3. ~Doing(w, "leaves")' /\ ~Inserting(w)'
    BY <2>1, <2>2, NextStep DEF Becomes
  <2>4. Works(w)
    BY <1>8, <2>1, <2>3 DEF Works, StoreRoot, Becomes
  <2> QED
    BY <2>1, <2>4 DEF Becomes, Same
<1>9. CASE Send(w)
  <2>1. Becomes(w, Tail(tx[w].todo), tx[w].prev, tx[w].rows, tx[w].leaves,
                tx[w].merkle, tx[w].anchorTx)
    BY <1>9, Moves
  <2>2. Doing(w, "send")
    BY <1>9 DEF Send
  <2>3. ~Doing(w, "leaves")' /\ ~Inserting(w)'
    BY <2>1, <2>2, NextStep DEF Becomes
  <2>4. Works(w)
    BY <1>9, <2>1, <2>3 DEF Works, Send, Becomes
  <2> QED
    BY <2>1, <2>4 DEF Becomes, Same
<1>10. CASE StoreAnchor(w)
  <2>1. Becomes(w, Tail(tx[w].todo), tx[w].prev, tx[w].rows, tx[w].leaves,
                tx[w].merkle, Root(tx[w].leaves))
    BY <1>10, Moves
  <2>2. Doing(w, "store")
    BY <1>10 DEF StoreAnchor
  <2>3. ~Doing(w, "leaves")' /\ ~Inserting(w)'
    BY <2>1, <2>2, NextStep DEF Becomes
  <2>4. Works(w)
    BY <1>10, <2>1, <2>3 DEF Works, StoreAnchor, Becomes
  <2> QED
    BY <2>1, <2>4 DEF Becomes, Same
<1>11. CASE Commit(w)
  <2>1. Becomes(w, Tail(tx[w].todo), NoRead, {},
                IF Tail(tx[w].todo) = <<>> THEN <<>> ELSE tx[w].leaves, None, None)
    BY <1>11, Moves
  <2>2. Doing(w, "commit")
    BY <1>11 DEF Commit
  <2>3. ~Inserting(w)'
    BY <2>1, <2>2, NextStep DEF Becomes
  <2>4. Commits(w)
    BY <1>11, <2>1, <2>3 DEF Commits, Commit, Becomes
  <2> QED
    BY <2>1, <2>4 DEF Becomes, Same
<1>12. CASE Fail(w) \/ SkipAnchor(w)
  <2>1. Becomes(w, <<>>, NoRead, {}, <<>>, None, None)
    BY <1>12, Moves
  <2>2. ~Inserting(w)'
    BY <2>1 DEF Becomes, Inserting, Doing
  <2>3. Drops(w)
    BY <1>12, <2>1, <2>2 DEF Drops, Fail, SkipAnchor, Becomes
  <2> QED
    BY <2>1, <2>3 DEF Becomes, Same
<1> QED
  BY <1>1, <1>3, <1>4, <1>5, <1>6, <1>7, <1>8, <1>9, <1>10, <1>11, <1>12

(* The entries, committed or not.                                           *)
Everything == log \cup UNION {tx[w].rows : w \in Workers}

Stamped(e) == e.at \in 1 .. clock /\ e.prev \in Genesis .. clock /\ e.prev < e.at

(* Every entry has a stamp of its own and follows one with an earlier stamp.*)
EntryInv ==
    /\ clock \in Nat
    /\ IsFiniteSet(log)
    /\ \A w \in Workers : IsFiniteSet(tx[w].rows) /\ tx[w].prev \in {NoRead} \cup Genesis .. clock
    /\ \A e \in Everything : Stamped(e)
    /\ \A d, e \in Everything : d.at = e.at => d = e
    /\ \A w \in Workers : tx[w].rows # {} \/ Inserting(w) => tx[w].prev # NoRead
    /\ \A w \in Workers : Doing(w, "leaves") => tx[w].rows = {}

(* The newest of some entries is the last in their order.                   *)
LEMMA NewestIsLast ==
    ASSUME NEW entries, Timed(entries), entries # {}
    PROVE  /\ Newest(entries) \in entries /\ \A d \in entries : d.at <= Newest(entries).at
           /\ Cardinality(entries) \in Nat \ {0}
           /\ ByTime(entries)[Cardinality(entries)] = Newest(entries)
<1>1. Cardinality(entries) \in Nat \ {0}
  <2>1. Cardinality(entries) \in Nat /\ Cardinality(entries) # 0
    BY FS_CardinalityType, FS_EmptySet DEF Timed
  <2> QED
    BY <2>1
<1> DEFINE last == ByTime(entries)[Cardinality(entries)]
<1>2. last \in entries /\ Rank(entries, last) = Cardinality(entries)
  BY <1>1, ListedByTime
<1> HIDE DEF last
<1>3. \A d \in entries : d.at <= last.at
  <2> SUFFICES ASSUME NEW d \in entries, ~(d.at <= last.at) PROVE FALSE
    OBVIOUS
  <2>1. last.at < d.at
    BY <1>2 DEF Timed
  <2>2. Rank(entries, last) < Rank(entries, d) /\ Rank(entries, d) \in 1 .. Cardinality(entries)
    BY <1>2, <2>1, RankGrows
  <2> QED
    BY <1>1, <1>2, <2>2
<1>4. Newest(entries) \in entries /\ \A d \in entries : d.at <= Newest(entries).at
  BY <1>2, <1>3 DEF Newest
<1>5. Newest(entries).at = last.at
  BY <1>2, <1>3, <1>4 DEF Timed
<1>6. Newest(entries) = last
  BY <1>2, <1>4, <1>5 DEF Timed
<1> QED
  BY <1>1, <1>4, <1>6 DEF last

(* What a worker sees has an order and an end.                              *)
LEMMA SeenInOrder ==
    ASSUME EntryInv, NEW w \in Workers
    PROVE  /\ Timed(log) /\ Timed(Visible(w))
           /\ \A e \in Visible(w) : Stamped(e)
           /\ End(w) \in Genesis .. clock
<1>1. Visible(w) \in SUBSET Everything /\ log \in SUBSET Everything
  BY DEF Visible, Everything
<1>2. IsFiniteSet(Visible(w)) /\ IsFiniteSet(log)
  BY FS_Union DEF EntryInv, Visible
<1>3. \A e \in Visible(w) : Stamped(e)
  BY <1>1 DEF EntryInv
<1>4. Timed(log) /\ Timed(Visible(w))
  BY <1>1, <1>2 DEF EntryInv, Timed, Stamped
<1>5. End(w) \in Genesis .. clock
  <2>1. CASE Visible(w) = {}
    BY <2>1 DEF End, EntryInv, Genesis
  <2>2. CASE Visible(w) # {}
    <3>1. Newest(Visible(w)) \in Visible(w)
      BY <1>4, <2>2, NewestIsLast
    <3>2. Newest(Visible(w)).at \in 1 .. clock
      BY <1>3, <3>1 DEF Stamped
    <3> QED
      BY <2>2, <3>2 DEF End, EntryInv, Genesis
  <2> QED
    BY <2>1, <2>2
<1> QED
  BY <1>3, <1>4, <1>5

(* No step but an insertion adds an entry.                                  *)
LEMMA EntriesAdded ==
    ASSUME TxInv, NEW w \in Workers, DOMAIN tx' = Workers, Same(w),
           Reads(w) \/ (\E about \in Abouts : Writes(w, about)) \/ Works(w) \/ Commits(w) \/ Drops(w)
    PROVE  /\ \A e \in Everything' :
                 \/ e \in Everything
                 \/ \E about \in Abouts : Writes(w, about) /\ e = NewEntry(w, about)
           /\ \A v \in Workers \ {w} : tx'[v] = tx[v]
<1>1. \A v \in Workers \ {w} : tx'[v] = tx[v]
  BY DEF Same
<1>2. \A e \in tx'[w].rows \cup log' :
          \/ e \in log \cup tx[w].rows
          \/ \E about \in Abouts : Writes(w, about) /\ e = NewEntry(w, about)
  BY DEF Reads, Writes, Works, Commits, Drops
<1>3. Everything' = log' \cup UNION {tx'[v].rows : v \in Workers}
  BY DEF Everything
<1> QED
  BY <1>1, <1>2, <1>3 DEF Everything

(* The entries stay as they should be.                                      *)
LEMMA EntryKept ==
    ASSUME TxInv, EntryInv, [Next]_vars
    PROVE  EntryInv'
<1>1. CASE UNCHANGED vars
  BY <1>1 DEF EntryInv, vars, Everything, Stamped, Inserting, Doing
<1>2. CASE Next
  <2>1. PICK w \in Workers :
              /\ DOMAIN tx' = Workers /\ Same(w)
              /\ Reads(w) \/ (\E about \in Abouts : Writes(w, about)) \/ Works(w) \/ Commits(w) \/ Drops(w)
    BY <1>2, Kinds
  <2>2. /\ \A e \in Everything' :
              \/ e \in Everything
              \/ \E about \in Abouts : Writes(w, about) /\ e = NewEntry(w, about)
        /\ \A v \in Workers \ {w} : tx'[v] = tx[v]
    BY <2>1, EntriesAdded
  <2>3. clock \in Nat /\ End(w) \in Genesis .. clock
    BY SeenInOrder DEF EntryInv
  <2>4. clock' \in Nat /\ clock <= clock'
    BY <2>1, <2>3 DEF Reads, Writes, Works, Commits, Drops
  <2>5. IsFiniteSet(log') /\ IsFiniteSet(tx'[w].rows)
    <3>1. IsFiniteSet(log) /\ IsFiniteSet(tx[w].rows)
      BY DEF EntryInv
    <3>2. IsFiniteSet(log \cup tx[w].rows)
      BY <3>1, FS_Union
    <3>3. ASSUME NEW about \in Abouts PROVE IsFiniteSet(tx[w].rows \cup {NewEntry(w, about)})
      BY <3>1, FS_AddElement
    <3>4. IsFiniteSet({})
      BY FS_EmptySet
    <3>5. log' = log \/ log' = log \cup tx[w].rows
      BY <2>1 DEF Reads, Writes, Works, Commits, Drops
    <3>6. \/ tx'[w].rows = tx[w].rows \/ tx'[w].rows = {}
          \/ \E about \in Abouts : tx'[w].rows = tx[w].rows \cup {NewEntry(w, about)}
      BY <2>1 DEF Reads, Writes, Works, Commits, Drops
    <3> QED
      BY <3>1, <3>2, <3>3, <3>4, <3>5, <3>6
  <2>6. tx'[w].prev \in {NoRead} \cup Genesis .. clock
    BY <2>1, <2>3 DEF EntryInv, Reads, Writes, Works, Commits, Drops
  <2>7. ASSUME NEW about \in Abouts, Writes(w, about)
        PROVE  /\ NewEntry(w, about).at = clock + 1 /\ clock' = clock + 1
               /\ NewEntry(w, about).prev \in Genesis .. clock
    <3>1. Inserting(w) /\ tx[w].prev \in Genesis .. clock
      BY <2>7 DEF Writes, Inserting, EntryInv
    <3> QED
      BY <2>7, <3>1 DEF NewEntry, Writes
  <2>8. \A e \in Everything' : Stamped(e)'
    <3> SUFFICES ASSUME NEW e \in Everything' PROVE Stamped(e)'
      OBVIOUS
    <3>1. CASE e \in Everything
      <4>1. Stamped(e)
        BY <3>1 DEF EntryInv
      <4> QED
        BY <2>3, <2>4, <4>1 DEF Stamped, Genesis
    <3>2. CASE \E about \in Abouts : Writes(w, about) /\ e = NewEntry(w, about)
      BY <2>3, <2>7, <3>2 DEF Stamped, Genesis
    <3> QED
      BY <2>2, <3>1, <3>2
  <2>9. \A d, e \in Everything' : d.at = e.at => d = e
    <3>1. \A d, e \in Everything : d.at = e.at => d = e
      BY DEF EntryInv
    <3>2. ASSUME NEW d \in Everything, NEW about \in Abouts, Writes(w, about)
          PROVE  d.at # NewEntry(w, about).at
      BY <2>3, <2>7, <3>2 DEF EntryInv, Stamped
    <3>3. \A a, b \in Abouts : Writes(w, a) /\ Writes(w, b) => a = b
      BY DEF Writes, Doing
    <3> QED
      BY <2>2, <3>1, <3>2, <3>3
  <2>10. tx'[w].rows # {} \/ Inserting(w)' => tx'[w].prev # NoRead
    <3>1. CASE Reads(w)
      BY <2>3, <3>1 DEF Reads, Genesis, NoRead
    <3>2. CASE \E about \in Abouts : Writes(w, about)
      <4>1. tx[w].prev # NoRead
        BY <3>2 DEF Writes, Inserting, EntryInv
      <4> QED
        BY <3>2, <4>1 DEF Writes
    <3>3. CASE Works(w) \/ Commits(w) \/ Drops(w)
      BY <3>3 DEF Works, Commits, Drops, EntryInv
    <3> QED
      BY <2>1, <3>1, <3>2, <3>3
  <2>11. Doing(w, "leaves")' => tx'[w].rows = {}
    BY <2>1 DEF Reads, Writes, Works, Commits, Drops
  <2>12. ASSUME NEW v \in Workers \ {w}
         PROVE  /\ IsFiniteSet(tx'[v].rows) /\ tx'[v].prev \in {NoRead} \cup Genesis .. clock
                /\ tx'[v].rows # {} \/ Inserting(v)' => tx'[v].prev # NoRead
                /\ Doing(v, "leaves")' => tx'[v].rows = {}
    BY <2>2 DEF EntryInv, Inserting, Doing
  <2>13. Genesis .. clock \subseteq Genesis .. clock'
    BY <2>3, <2>4 DEF Genesis
  <2> QED
    BY <2>4, <2>5, <2>6, <2>8, <2>9, <2>10, <2>11, <2>12, <2>13 DEF EntryInv
<1> QED
  BY <1>1, <1>2
-------------------------------------------------------------------------------
(* The chain of an undisturbed log.                                         *)

(* The entry before e has e's prev for its hash, or there is none.          *)
First(entries, e) == e.prev = Genesis /\ \A d \in entries : e.at <= d.at

Follows(entries, d, e) ==
    d.at = e.prev /\ d.at < e.at /\ \A c \in entries : c.at < e.at => c.at <= d.at

Linked(entries) ==
    \A e \in entries : First(entries, e) \/ \E d \in entries : Follows(entries, d, e)

(* A newest entry that names the end of the others keeps them linked.       *)
LEMMA LinkedGrows ==
    ASSUME NEW entries, Timed(entries), Linked(entries), NEW new, new.at \in Nat,
           \A e \in entries : e.at < new.at,
           new.prev = IF entries = {} THEN Genesis ELSE Newest(entries).at
    PROVE  Linked(entries \cup {new})
<1> DEFINE all == entries \cup {new}
<1>1. ASSUME NEW e \in entries
      PROVE  First(all, e) \/ \E d \in all : Follows(all, d, e)
  <2>1. e.at \in Nat /\ e.at < new.at /\ ~(new.at < e.at)
    BY DEF Timed
  <2>2. CASE First(entries, e)
    BY <2>1, <2>2 DEF First
  <2>3. CASE \E d \in entries : Follows(entries, d, e)
    BY <2>1, <2>3 DEF Follows
  <2> QED
    BY <2>2, <2>3 DEF Linked
<1>2. First(all, new) \/ \E d \in all : Follows(all, d, new)
  <2>1. CASE entries = {}
    BY <2>1 DEF First
  <2>2. CASE entries # {}
    <3>1. Newest(entries) \in entries /\ \A d \in entries : d.at <= Newest(entries).at
      BY <2>2, NewestIsLast
    <3>2. Follows(all, Newest(entries), new)
      BY <2>2, <3>1 DEF Follows
    <3> QED
      BY <3>1, <3>2
  <2> QED
    BY <2>1, <2>2
<1> QED
  BY <1>1, <1>2 DEF Linked

(* No two linked entries name the same entry before them.                   *)
LEMMA OneSuccessor ==
    ASSUME NEW entries, Timed(entries), Linked(entries), \A e \in entries : e.at # Genesis,
           NEW e \in entries, NEW f \in entries, e.prev = f.prev
    PROVE  e = f
<1>1. \A d \in entries : d.at \in Nat
  BY DEF Timed
<1>2. CASE First(entries, e)
  <2>1. First(entries, f)
    BY <1>2 DEF First, Follows, Linked
  <2>2. e.at <= f.at /\ f.at <= e.at
    BY <1>2, <2>1 DEF First
  <2> QED
    BY <1>1, <2>2 DEF Timed
<1>3. CASE ~First(entries, e)
  <2>1. PICK d \in entries : Follows(entries, d, e)
    BY <1>3 DEF Linked
  <2>2. ~First(entries, f)
    BY <2>1 DEF First, Follows
  <2>3. PICK c \in entries : Follows(entries, c, f)
    BY <2>2 DEF Linked
  <2>4. c.at = d.at /\ c.at < f.at /\ d.at < e.at
    BY <2>1, <2>3 DEF Follows
  <2>5. ~(e.at < f.at) /\ ~(f.at < e.at)
    BY <1>1, <2>1, <2>3, <2>4 DEF Follows
  <2> QED
    BY <1>1, <2>5 DEF Timed
<1> QED
  BY <1>2, <1>3

(* While no two transactions have both read the end of the log: one at most *)
(* has entries of its own, and they are the newest; all that it sees is     *)
(* linked; and the entry it is about to insert follows the newest.          *)
ChainInv ==
    ~overlapped =>
        /\ \A v, w \in Workers : tx[v].prev # NoRead /\ tx[w].prev # NoRead => v = w
        /\ \A w \in Workers : \A d \in log, e \in tx[w].rows : d.at < e.at
        /\ Linked(log) /\ \A w \in Workers : Linked(Visible(w))
        /\ \A w \in Workers : Inserting(w) => tx[w].prev = End(w)

(* Transactions that do not overlap keep the chain.                         *)
LEMMA ChainKept ==
    ASSUME TxInv, EntryInv, ChainInv, [Next]_vars
    PROVE  ChainInv'
<1>1. CASE UNCHANGED vars
  BY <1>1 DEF ChainInv, vars, Visible, End, Inserting, Doing
<1>2. CASE Next
  <2> SUFFICES ASSUME ~overlapped'
               PROVE  /\ \A u, v \in Workers : tx'[u].prev # NoRead /\ tx'[v].prev # NoRead => u = v
                      /\ \A v \in Workers : \A d \in log', e \in tx'[v].rows : d.at < e.at
                      /\ Linked(log') /\ \A v \in Workers : Linked(Visible(v)')
                      /\ \A v \in Workers : Inserting(v)' => tx'[v].prev = End(v)'
    BY DEF ChainInv
  <2>1. PICK w \in Workers :
              /\ DOMAIN tx' = Workers /\ Same(w)
              /\ Reads(w) \/ (\E about \in Abouts : Writes(w, about)) \/ Works(w) \/ Commits(w) \/ Drops(w)
    BY <1>2, Kinds
  <2>2. ~overlapped
    BY <2>1 DEF Reads, Writes, Works, Commits, Drops
  <2>3. /\ \A u, v \in Workers : tx[u].prev # NoRead /\ tx[v].prev # NoRead => u = v
        /\ \A v \in Workers : \A d \in log, e \in tx[v].rows : d.at < e.at
        /\ Linked(log) /\ \A v \in Workers : Linked(Visible(v))
        /\ \A v \in Workers : Inserting(v) => tx[v].prev = End(v)
    BY <2>2 DEF ChainInv
  <2>4. \A v \in Workers \ {w} : tx'[v] = tx[v]
    BY <2>1 DEF Same
  <2>5. \A v \in Workers \ {w} : Inserting(v)' <=> Inserting(v)
    BY <2>4 DEF Inserting, Doing
  <2>6. \A v \in Workers : tx[v].rows # {} \/ Inserting(v) => tx[v].prev # NoRead
    BY DEF EntryInv
  <2>7. CASE Reads(w) \/ Works(w) \/ Drops(w)
    <3>1. log' = log /\ (tx'[w].rows = tx[w].rows \/ tx'[w].rows = {})
      BY <2>7 DEF Reads, Works, Drops
    <3>2. \A u, v \in Workers : tx'[u].prev # NoRead /\ tx'[v].prev # NoRead => u = v
      <4>1. CASE Reads(w)
        <5>1. \A v \in Workers \ {w} : tx[v].prev = NoRead
          BY <4>1 DEF Reads
        <5> QED
          BY <2>4, <5>1
      <4>2. CASE Works(w)
        BY <2>3, <2>4, <4>2 DEF Works
      <4>3. CASE Drops(w)
        BY <2>3, <2>4, <4>3 DEF Drops
      <4> QED
        BY <2>7, <4>1, <4>2, <4>3
    <3>3. \A v \in Workers \ {w} : Visible(v)' = Visible(v) /\ End(v)' = End(v)
      BY <2>4, <3>1 DEF Visible, End
    <3>4. Visible(w)' = Visible(w) \/ Visible(w)' = log
      BY <3>1 DEF Visible
    <3>5. Inserting(w)' => tx'[w].prev = End(w)'
      BY <2>7 DEF Reads, Works, Drops, End, Visible
    <3> QED
      BY <2>3, <2>4, <2>5, <3>1, <3>2, <3>3, <3>4, <3>5
  <2>8. CASE \E about \in Abouts : Writes(w, about)
    <3>1. PICK about \in Abouts : Writes(w, about)
      BY <2>8
    <3> DEFINE new == NewEntry(w, about)
    <3>2. /\ log' = log /\ tx'[w].rows = tx[w].rows \cup {new} /\ tx'[w].prev = tx[w].prev
          /\ Inserting(w) /\ ~Inserting(w)'
      BY <3>1 DEF Writes, Inserting
    <3>3. /\ \A e \in Visible(w) : e.at < new.at
          /\ new.at \in Nat /\ Timed(Visible(w))
          /\ new.prev = End(w)
      <4>1. clock \in Nat /\ new.at = clock + 1 /\ new.prev = tx[w].prev
        BY DEF EntryInv, NewEntry
      <4>2. Timed(Visible(w)) /\ \A e \in Visible(w) : e.at \in 1 .. clock
        BY SeenInOrder DEF Stamped
      <4> HIDE DEF new
      <4> QED
        BY <2>3, <3>2, <4>1, <4>2
    <3> HIDE DEF new
    <3>4. Visible(w)' = Visible(w) \cup {new} /\ log \subseteq Visible(w)
      BY <3>2 DEF Visible
    <3>5. Linked(Visible(w)')
      <4>1. Linked(Visible(w) \cup {new})
        BY <2>3, <3>3, LinkedGrows DEF End
      <4> QED
        BY <3>4, <4>1
    <3>6. \A d \in log', e \in tx'[w].rows : d.at < e.at
      BY <2>3, <3>2, <3>3, <3>4
    <3>7. \A v \in Workers \ {w} : Visible(v)' = Visible(v) /\ End(v)' = End(v)
      BY <2>4, <3>2 DEF Visible, End
    <3>8. \A u, v \in Workers : tx'[u].prev # NoRead /\ tx'[v].prev # NoRead => u = v
      BY <2>3, <2>4, <3>2
    <3> QED
      BY <2>3, <2>4, <2>5, <3>2, <3>5, <3>6, <3>7, <3>8
  <2>9. CASE Commits(w)
    <3>1. log' = Visible(w) /\ tx'[w].rows = {} /\ tx'[w].prev = NoRead /\ ~Inserting(w)'
      BY <2>9 DEF Commits, Visible
    <3>2. \A u, v \in Workers : tx'[u].prev # NoRead /\ tx'[v].prev # NoRead => u = v
      BY <2>3, <2>4, <3>1
    <3>3. Linked(log') /\ Visible(w)' = log'
      BY <2>3, <3>1 DEF Visible
    <3>4. CASE tx[w].rows = {}
      <4>1. log' = log
        BY <3>1, <3>4 DEF Visible
      <4>2. \A v \in Workers \ {w} : Visible(v)' = Visible(v) /\ End(v)' = End(v)
        BY <2>4, <4>1 DEF Visible, End
      <4> QED
        BY <2>3, <2>4, <2>5, <3>1, <3>2, <3>3, <4>1, <4>2
    <3>5. CASE tx[w].rows # {}
      <4>1. ASSUME NEW v \in Workers \ {w}
            PROVE  tx'[v].rows = {} /\ ~Inserting(v)' /\ Visible(v)' = log'
        <5>1. tx[v].prev = NoRead
          BY <2>3, <2>6, <3>5
        <5>2. tx[v].rows = {} /\ ~Inserting(v)
          BY <2>6, <5>1
        <5> QED
          BY <2>4, <2>5, <5>2 DEF Visible
      <4> QED
        BY <3>1, <3>2, <3>3, <4>1
    <3> QED
      BY <3>4, <3>5
  <2> QED
    BY <2>1, <2>7, <2>8, <2>9
<1> QED
  BY <1>1, <1>2

(* Walking from genesis, step by step.                                      *)
HeadAt(met) == IF met = <<>> THEN Genesis ELSE met[Len(met)].at

GoOn(next, met) == IF HeadAt(met) \in DOMAIN next THEN Append(met, next[HeadAt(met)]) ELSE met

Walks(next) ==
    LET walk[n \in 0 .. Cardinality(log)] ==
            IF n = 0 THEN <<>>
            ELSE LET met == walk[n - 1]
                     end == IF met = <<>> THEN Genesis ELSE met[Len(met)].at
                 IN  IF end \in DOMAIN next THEN Append(met, next[end]) ELSE met
    IN  walk

(* The walk is what its definition says: such a function exists.            *)
LEMMA WalkBuilt ==
    ASSUME NEW next, Cardinality(log) \in Nat
    PROVE  /\ Walks(next)[0] = <<>>
           /\ \A n \in 1 .. Cardinality(log) : Walks(next)[n] = GoOn(next, Walks(next)[n - 1])
           /\ Walk(next) = Walks(next)[Cardinality(log)]
<1> DEFINE Built(f, m) == f = [n \in 0 .. m |-> IF n = 0 THEN <<>> ELSE GoOn(next, f[n - 1])]
           Tops == {m \in Nat : \E f : Built(f, m)}
           walk == Walks(next)
<1>1. 0 \in Tops
  <2>1. Built([n \in 0 .. 0 |-> <<>>], 0)
    OBVIOUS
  <2> QED
    BY <2>1
<1>2. ASSUME NEW m \in Nat, m \in Tops
      PROVE  m + 1 \in Tops
  <2>1. PICK f : Built(f, m)
    BY <1>2
  <2> DEFINE g == [n \in 0 .. m + 1 |-> IF n = m + 1 THEN GoOn(next, f[m]) ELSE f[n]]
  <2>2. Built(g, m + 1)
    <3>1. \A n \in 0 .. m + 1 : g[n] = IF n = 0 THEN <<>> ELSE GoOn(next, g[n - 1])
      BY <2>1
    <3> QED
      BY <3>1
  <2> HIDE DEF g, Built
  <2> QED
    BY <2>2
<1> HIDE DEF Tops
<1>3. Cardinality(log) \in Tops
  BY <1>1, <1>2, Induction
<1>4. \E f : Built(f, Cardinality(log))
  BY <1>3 DEF Tops
<1>5. walk = CHOOSE f : Built(f, Cardinality(log))
  BY DEF Walks, GoOn, HeadAt
<1> HIDE DEF walk
<1>6. Built(walk, Cardinality(log))
  BY <1>4, <1>5
<1>7. \A n \in 0 .. Cardinality(log) : walk[n] = IF n = 0 THEN <<>> ELSE GoOn(next, walk[n - 1])
  BY <1>6
<1>8. walk[0] = <<>> /\ \A n \in 1 .. Cardinality(log) : walk[n] = GoOn(next, walk[n - 1])
  BY <1>7
<1>9. Walk(next) = walk[Cardinality(log)]
  BY DEF Walk, Walks, walk
<1> QED
  BY <1>8, <1>9 DEF walk

(* The walk meets the entries of a linked log one by one, oldest first.     *)
LEMMA LinkedIsValid ==
    ASSUME Timed(log), Linked(log), \A e \in log : e.at # Genesis
    PROVE  Valid
<1> DEFINE list == ByTime(log)
           size == Cardinality(log)
<1>1. /\ size \in Nat /\ list \in Seq(log) /\ Len(list) = size
      /\ \A i \in 1 .. size : list[i] \in log
      /\ \A e \in log : Rank(log, e) \in 1 .. size /\ list[Rank(log, e)] = e
  BY ListedByTime, RankGrows
<1>2. \A i, j \in 1 .. size : i < j <=> list[i].at < list[j].at
  BY ListRises
<1>3. \A e \in log : e.at \in Nat
  BY DEF Timed
<1> SUFFICES ASSUME NEW next \in Successors PROVE Len(Walk(next)) = size
  BY DEF Valid
<1> DEFINE walk == Walks(next)
           Met == {n \in Nat : n <= size => walk[n] \in Seq(log) /\ Len(walk[n]) = n
                                            /\ \A i \in 1 .. n : walk[n][i] = list[i]}
<1>4. /\ walk[0] = <<>>
      /\ \A n \in 1 .. size : walk[n] = GoOn(next, walk[n - 1])
      /\ Walk(next) = walk[size]
  BY <1>1, WalkBuilt
<1>5. /\ DOMAIN next = {e.prev : e \in log}
      /\ \A h \in DOMAIN next : next[h] \in log /\ next[h].prev = h
  BY DEF Successors
<1> HIDE DEF list, size, walk
<1>6. 0 \in Met
  <2>1. walk[0] \in Seq(log) /\ Len(walk[0]) = 0
    BY <1>4, EmptySeq
  <2> QED
    BY <2>1
<1>7. ASSUME NEW n \in Nat, n \in Met
      PROVE  n + 1 \in Met
  <2> SUFFICES ASSUME n + 1 <= size
               PROVE  /\ walk[n + 1] \in Seq(log) /\ Len(walk[n + 1]) = n + 1
                      /\ \A i \in 1 .. n + 1 : walk[n + 1][i] = list[i]
    OBVIOUS
  <2> DEFINE met == walk[n]
             e == list[n + 1]
  <2>1. met \in Seq(log) /\ Len(met) = n /\ \A i \in 1 .. n : met[i] = list[i]
    BY <1>1, <1>7
  <2>2. n + 1 \in 1 .. size /\ e \in log /\ n + 1 - 1 = n
    BY <1>1
  <2>3. walk[n + 1] = GoOn(next, met)
    BY <1>4, <2>2
  <2> HIDE DEF met
  <2>4. HeadAt(met) = IF n = 0 THEN Genesis ELSE list[n].at
    <3>1. CASE n = 0
      <4>1. met = <<>>
        BY <2>1, <3>1, EmptySeq
      <4> QED
        BY <3>1, <4>1 DEF HeadAt
    <3>2. CASE n # 0
      <4>1. met # <<>> /\ n \in 1 .. n
        BY <2>1, <3>2, EmptySeq
      <4>2. met[Len(met)] = list[n]
        BY <2>1, <4>1
      <4> QED
        BY <3>2, <4>1, <4>2 DEF HeadAt
    <3> QED
      BY <3>1, <3>2
  <2>5. e.prev = HeadAt(met)
    <3>1. CASE n = 0
      <4>1. ASSUME NEW d \in log PROVE ~(d.at < e.at)
        <5>1. Rank(log, d) \in 1 .. size /\ list[Rank(log, d)] = d /\ ~(Rank(log, d) < n + 1)
          BY <1>1, <3>1
        <5> QED
          BY <1>2, <2>2, <5>1
      <4>2. First(log, e)
        BY <2>2, <4>1 DEF Linked, Follows
      <4> QED
        BY <2>4, <3>1, <4>2 DEF First
    <3>2. CASE n # 0
      <4>1. n \in 1 .. size /\ list[n] \in log /\ list[n].at < e.at
        BY <1>1, <1>2, <2>2, <3>2
      <4>2. ~First(log, e)
        BY <1>3, <2>2, <4>1 DEF First
      <4>3. PICK d \in log : Follows(log, d, e)
        BY <2>2, <4>2 DEF Linked
      <4>4. list[n].at <= d.at /\ d.at < e.at /\ d.at = e.prev
        BY <4>1, <4>3 DEF Follows
      <4>5. PICK r \in 1 .. size : r = Rank(log, d) /\ list[r] = d
        BY <1>1
      <4>6. r < n + 1 /\ ~(r < n)
        <5>1. r < n + 1
          BY <1>2, <2>2, <4>4, <4>5
        <5>2. r < n => d.at < list[n].at
          BY <1>2, <4>1, <4>5
        <5> QED
          BY <1>3, <4>1, <4>4, <5>1, <5>2
      <4>7. r = n
        BY <4>6
      <4> QED
        BY <2>4, <3>2, <4>4, <4>5, <4>7
    <3> QED
      BY <3>1, <3>2
  <2>6. HeadAt(met) \in DOMAIN next
    BY <1>5, <2>2, <2>5
  <2>7. next[HeadAt(met)] \in log /\ next[HeadAt(met)].prev = e.prev
    BY <1>5, <2>5, <2>6
  <2>8. next[HeadAt(met)] = e
    BY <2>2, <2>7, OneSuccessor
  <2>9. walk[n + 1] = Append(met, e)
    BY <2>3, <2>6, <2>8 DEF GoOn
  <2> HIDE DEF e
  <2>10. /\ Append(met, e) \in Seq(log) /\ Len(Append(met, e)) = n + 1
         /\ \A i \in 1 .. n : Append(met, e)[i] = met[i]
         /\ Append(met, e)[n + 1] = e
    BY <2>1, <2>2, AppendProperties
  <2>11. \A i \in 1 .. n + 1 : i \in 1 .. n \/ i = n + 1
    OBVIOUS
  <2> QED
    BY <2>1, <2>9, <2>10, <2>11 DEF e
<1> HIDE DEF Met
<1>8. Nat \subseteq Met
  BY <1>6, <1>7, Induction
<1>9. size \in Met
  BY <1>1, <1>8
<1>10. Len(walk[size]) = size
  BY <1>1, <1>9 DEF Met
<1> QED
  BY <1>4, <1>10 DEF size

(* The first state.                                                         *)
LEMMA AuditStarts ==
    ASSUME Init
    PROVE  TxInv /\ EntryInv /\ ChainInv
<1>1. tx = [w \in Workers |-> Idle] /\ log = {} /\ clock = 0
  BY DEF Init, Genesis
<1>2. \A w \in Workers : /\ tx[w].todo = <<>> /\ tx[w].prev = NoRead /\ tx[w].rows = {}
                         /\ DOMAIN tx[w] = Fields
  BY <1>1 DEF Idle, Fields
<1>3. TxInv
  <2>1. Sound(<<>>)
    BY EmptySeq DEF Sound
  <2> QED
    BY <1>1, <1>2, <2>1 DEF TxInv
<1>4. Everything = {} /\ \A w \in Workers : Visible(w) = {} /\ ~Inserting(w)
  BY <1>1, <1>2 DEF Everything, Visible, Inserting, Doing
<1>5. EntryInv
  BY <1>1, <1>2, <1>4, FS_EmptySet DEF EntryInv
<1>6. ChainInv
  BY <1>1, <1>2, <1>4 DEF ChainInv, Linked
<1> QED
  BY <1>3, <1>5, <1>6

(* The log has an order.                                                    *)
LEMMA LogInOrder ==
    ASSUME EntryInv
    PROVE  /\ Timed(log)
           /\ \A e \in log : e.at # Genesis /\ e.prev \in Nat /\ e.prev < e.at
<1>1. \A e \in log : e \in Everything
  BY DEF Everything
<1>2. \A e \in log : e.at \in 1 .. clock /\ e.prev \in Genesis .. clock /\ e.prev < e.at
  BY <1>1 DEF EntryInv, Stamped
<1> QED
  BY <1>1, <1>2 DEF EntryInv, Timed, Genesis

(* While no two transactions append at the same time, whatever fails in     *)
(* between, verify_chain finds the log in order.                            *)
THEOREM SequentialDoesVerify == Spec => []SequentialIsValid
<1> DEFINE IInv == TxInv /\ EntryInv /\ ChainInv
<1>1. Init => IInv
  BY AuditStarts
<1>2. IInv /\ [Next]_vars => IInv'
  BY TxKept, EntryKept, ChainKept
<1>3. IInv => SequentialIsValid
  BY LogInOrder, LinkedIsValid DEF ChainInv, SequentialIsValid
<1> HIDE DEF IInv
<1> QED
  BY <1>1, <1>2, <1>3, PTL DEF Spec
-------------------------------------------------------------------------------
(* What the roots cover.                                                    *)

(* The committed entries up to some moment.                                 *)
Early(some) == some \in SUBSET log /\ \A d \in some, e \in log \ some : d.at < e.at

(* The entries of the session.                                              *)
About(entries) == {e \in entries : e.about = "session"}

(* The leaves of one engine, its root and the stored one are those of the   *)
(* log as it once was.                                                      *)
CoverInv ==
    ~overlapped =>
        /\ \A w \in Workers :
              /\ \E some : Early(some) /\ tx[w].leaves = Leaves(some)
              /\ tx[w].merkle # None => \E some : Early(some) /\ tx[w].merkle = Root(Leaves(some))
        /\ merkle # None => \E some : Early(some) /\ merkle = Root(Leaves(some))

(* The leaves of some entries, one by one.                                  *)
LEMMA LeavesListed ==
    ASSUME NEW entries, Timed(entries)
    PROVE  /\ Timed(About(entries))
           /\ Cardinality(About(entries)) \in Nat
           /\ Len(Leaves(entries)) = Cardinality(About(entries))
           /\ Leaves(entries) \in Seq(Members(Leaves(entries)))
           /\ DOMAIN Leaves(entries) = 1 .. Cardinality(About(entries))
           /\ \A i \in 1 .. Cardinality(About(entries)) :
                 Leaves(entries)[i] = <<ByTime(About(entries))[i].at>>
<1> DEFINE list == ByTime(About(entries))
           size == Cardinality(About(entries))
<1>1. Timed(About(entries))
  BY TimedSubset DEF About
<1>2. size \in Nat /\ list \in Seq(About(entries)) /\ Len(list) = size
  BY <1>1, ListedByTime
<1>3. Leaves(entries) = [i \in DOMAIN list |-> <<list[i].at>>]
  BY DEF Leaves, About
<1> HIDE DEF list, size
<1>4. DOMAIN list = 1 .. size
  BY <1>2
<1>5. /\ DOMAIN Leaves(entries) = 1 .. size
      /\ \A i \in 1 .. size : Leaves(entries)[i] = <<list[i].at>>
  BY <1>3, <1>4
<1>6. Leaves(entries) = [i \in 1 .. size |-> <<list[i].at>>]
  BY <1>3, <1>4
<1>7. Len(Leaves(entries)) = size
  BY <1>2, <1>6
<1>8. Leaves(entries) \in Seq(Members(Leaves(entries)))
  <2>1. Leaves(entries) \in [1 .. size -> Members(Leaves(entries))]
    BY <1>6, <1>7 DEF Members
  <2> QED
    BY <1>2, <2>1
<1> QED
  BY <1>1, <1>2, <1>5, <1>7, <1>8 DEF list, size

(* The leaves of nothing.                                                   *)
LEMMA NoLeaves == Early({}) /\ Leaves({}) = <<>>
<1>1. Timed({}) /\ About({}) = {}
  BY FS_EmptySet DEF Timed, About
<1>2. Cardinality(About({})) = 0
  BY <1>1, FS_EmptySet
<1>3. Leaves({}) \in Seq(Members(Leaves({}))) /\ Len(Leaves({})) = 0
  BY <1>1, <1>2, LeavesListed
<1> QED
  BY <1>3, EmptySeq DEF Early

(* The leaves of the early entries are the first of the log's.              *)
LEMMA EarlyLeaves ==
    ASSUME Timed(log), NEW some, Early(some)
    PROVE  /\ Cardinality(About(some)) \in 0 .. Len(Leaves(log))
           /\ Leaves(some) = SubSeq(Leaves(log), 1, Cardinality(About(some)))
<1> DEFINE n == Cardinality(About(some))
           size == Cardinality(About(log))
<1>1. Timed(some)
  BY TimedSubset DEF Early
<1>2. About(some) \in SUBSET About(log) /\ \A d \in About(some), e \in About(log) \ About(some) : d.at < e.at
  BY DEF Early, About
<1>3. /\ Timed(About(log)) /\ size \in Nat /\ Len(Leaves(log)) = size
      /\ Leaves(log) \in Seq(Members(Leaves(log)))
      /\ \A i \in 1 .. size : Leaves(log)[i] = <<ByTime(About(log))[i].at>>
  BY LeavesListed
<1>4. /\ n \in Nat /\ Len(Leaves(some)) = n
      /\ Leaves(some) \in Seq(Members(Leaves(some)))
      /\ \A i \in 1 .. n : Leaves(some)[i] = <<ByTime(About(some))[i].at>>
  BY <1>1, LeavesListed
<1>5. n <= size /\ ByTime(About(some)) = SubSeq(ByTime(About(log)), 1, n)
  BY <1>2, <1>3, EarlierFirst
<1>6. ByTime(About(log)) \in Seq(About(log)) /\ Len(ByTime(About(log))) = size
  BY <1>3, ListedByTime
<1> HIDE DEF n, size
<1>7. \A i \in 1 .. n : ByTime(About(some))[i] = ByTime(About(log))[i]
  BY <1>3, <1>4, <1>5, <1>6
<1>8. /\ SubSeq(Leaves(log), 1, n) \in Seq(Members(Leaves(log)))
      /\ Len(SubSeq(Leaves(log), 1, n)) = n
      /\ \A i \in 1 .. n : SubSeq(Leaves(log), 1, n)[i] = Leaves(log)[i]
  BY <1>3, <1>4, <1>5
<1>9. \A i \in 1 .. n : Leaves(some)[i] = SubSeq(Leaves(log), 1, n)[i]
  <2> SUFFICES ASSUME NEW i \in 1 .. n PROVE Leaves(some)[i] = SubSeq(Leaves(log), 1, n)[i]
    OBVIOUS
  <2>1. i \in 1 .. size
    BY <1>3, <1>4, <1>5
  <2>2. /\ Leaves(some)[i] = <<ByTime(About(some))[i].at>>
        /\ Leaves(log)[i] = <<ByTime(About(log))[i].at>>
        /\ ByTime(About(some))[i] = ByTime(About(log))[i]
        /\ SubSeq(Leaves(log), 1, n)[i] = Leaves(log)[i]
    BY <1>3, <1>4, <1>7, <1>8, <2>1
  <2> QED
    BY <2>2
<1>10. Leaves(some) = SubSeq(Leaves(log), 1, n)
  BY <1>4, <1>8, <1>9, SeqEqual
<1> QED
  BY <1>3, <1>4, <1>5, <1>10 DEF n

(* Transactions that do not overlap do not add to what is covered.          *)
LEMMA CoverKept ==
    ASSUME TxInv, EntryInv, ChainInv, CoverInv, [Next]_vars
    PROVE  CoverInv'
<1>1. CASE UNCHANGED vars
  BY <1>1 DEF CoverInv, vars, Early
<1>2. CASE Next
  <2> SUFFICES ASSUME ~overlapped'
               PROVE  /\ \A v \in Workers :
                            /\ \E some : Early(some)' /\ tx'[v].leaves = Leaves(some)
                            /\ tx'[v].merkle # None =>
                                  \E some : Early(some)' /\ tx'[v].merkle = Root(Leaves(some))
                      /\ merkle' # None => \E some : Early(some)' /\ merkle' = Root(Leaves(some))
    BY DEF CoverInv
  <2>1. PICK w \in Workers :
              /\ DOMAIN tx' = Workers /\ Same(w)
              /\ Reads(w) \/ (\E about \in Abouts : Writes(w, about)) \/ Works(w) \/ Commits(w) \/ Drops(w)
    BY <1>2, Kinds
  <2>2. ~overlapped /\ \A v \in Workers \ {w} : tx'[v] = tx[v]
    <3>1. ~overlapped
      BY <2>1 DEF Reads, Writes, Works, Commits, Drops
    <3> QED
      BY <2>1, <3>1 DEF Same
  <2>3. /\ \A v \in Workers :
              /\ \E some : Early(some) /\ tx[v].leaves = Leaves(some)
              /\ tx[v].merkle # None => \E some : Early(some) /\ tx[v].merkle = Root(Leaves(some))
        /\ merkle # None => \E some : Early(some) /\ merkle = Root(Leaves(some))
    BY <2>2 DEF CoverInv
  <2>4. ASSUME NEW some, Early(some)
        PROVE  Early(some)'
    <3>1. log' = log \/ Commits(w)
      BY <2>1 DEF Reads, Writes, Works, Drops
    <3>2. CASE log' = log
      BY <2>4, <3>2 DEF Early
    <3>3. CASE Commits(w)
      <4>1. \A d \in log, e \in tx[w].rows : d.at < e.at
        BY <2>2 DEF ChainInv
      <4> QED
        BY <2>4, <3>3, <4>1 DEF Early, Commits
    <3> QED
      BY <3>1, <3>2, <3>3
  <2>5. \E some : Early(some)' /\ tx'[w].leaves = Leaves(some)
    <3>1. CASE tx'[w].leaves = tx[w].leaves
      BY <2>3, <2>4, <3>1
    <3>2. CASE tx'[w].leaves = <<>>
      BY <2>4, <3>2, NoLeaves
    <3>3. CASE Doing(w, "leaves") /\ tx'[w].leaves = Leaves(Visible(w))
      <4>1. Visible(w) = log
        BY <3>3 DEF EntryInv, Visible
      <4>2. Early(log)
        BY DEF Early
      <4> QED
        BY <2>4, <3>3, <4>1, <4>2
    <3> QED
      BY <2>1, <3>1, <3>2, <3>3 DEF Reads, Writes, Works, Commits, Drops
  <2>6. tx'[w].merkle # None => \E some : Early(some)' /\ tx'[w].merkle = Root(Leaves(some))
    <3>1. tx'[w].merkle \in {tx[w].merkle, None, Root(tx[w].leaves)}
      BY <2>1 DEF Reads, Writes, Works, Commits, Drops
    <3>2. \E some : Early(some)' /\ Root(tx[w].leaves) = Root(Leaves(some))
      BY <2>3, <2>4
    <3> QED
      BY <2>3, <2>4, <3>1, <3>2
  <2>7. merkle' # None => \E some : Early(some)' /\ merkle' = Root(Leaves(some))
    <3>1. merkle' = merkle \/ (tx[w].merkle # None /\ merkle' = tx[w].merkle)
      BY <2>1 DEF Reads, Writes, Works, Commits, Drops
    <3> QED
      BY <2>3, <2>4, <3>1
  <2>8. ASSUME NEW v \in Workers \ {w}
        PROVE  /\ \E some : Early(some)' /\ tx'[v].leaves = Leaves(some)
               /\ tx'[v].merkle # None =>
                     \E some : Early(some)' /\ tx'[v].merkle = Root(Leaves(some))
    <3>1. tx'[v] = tx[v]
      BY <2>2
    <3> QED
      BY <2>3, <2>4, <3>1
  <2> QED
    BY <2>5, <2>6, <2>7, <2>8
<1> QED
  BY <1>1, <1>2

(* The proof that verify-leaf answers without a stored root is a proof.     *)
LEMMA AnswersVerify ==
    ASSUME Timed(log), merkle = None, NEW i \in DOMAIN Leaves(log)
    PROVE  LET leaf == Leaves(log)[i]
           IN  Verifies(leaf, LeafAnswer(leaf).proof, LeafAnswer(leaf).root)
<1> DEFINE leaves == Leaves(log)
           leaf == leaves[i]
           j == CHOOSE k \in DOMAIN leaves : leaves[k] = leaf
<1>1. /\ leaves \in Seq(Members(leaves)) /\ DOMAIN leaves = 1 .. Len(leaves)
      /\ Len(leaves) \in Nat
  BY LeavesListed
<1>2. j \in DOMAIN leaves /\ leaves[j] = leaf
  OBVIOUS
<1>3. LeafAnswer(leaf).proof = MerkleProof(leaves, j) /\ LeafAnswer(leaf).root = Root(leaves)
  BY DEF LeafAnswer
<1> HIDE DEF leaves, j
<1>4. leaves # <<>>
  <2>1. j \in 1 .. Len(leaves)
    BY <1>1, <1>2
  <2>2. Len(leaves) # 0
    BY <1>1, <2>1
  <2> QED
    BY <2>2, EmptySeq
<1>5. Row(leaves)
  BY <1>1, <1>4 DEF Row
<1>6. Verifies(leaf, MerkleProof(leaves, j), Root(leaves))
  BY <1>1, <1>2, <1>5, LeafIsProved
<1> QED
  BY <1>3, <1>6 DEF leaves

(* The stored root is that of the first so many entries of the session, as  *)
(* long as no two transactions append at the same time; until there is one, *)
(* the proof that verify-leaf answers leads to the root in the same answer. *)
THEOREM RootIsOfPrefix == Spec => []RootCoversPrefix
<1> DEFINE IInv == TxInv /\ EntryInv /\ ChainInv /\ CoverInv
<1>1. Init => IInv
  <2> SUFFICES ASSUME Init PROVE IInv
    OBVIOUS
  <2>1. TxInv /\ EntryInv /\ ChainInv
    BY AuditStarts
  <2>2. \A w \in Workers : tx[w].leaves = <<>> /\ tx[w].merkle = None
    BY DEF Init, Idle
  <2>3. CoverInv
    BY <2>2, NoLeaves DEF CoverInv, Init
  <2> QED
    BY <2>1, <2>3
<1>2. IInv /\ [Next]_vars => IInv'
  BY TxKept, EntryKept, ChainKept, CoverKept
<1>3. IInv => RootCoversPrefix
  <2> SUFFICES ASSUME IInv PROVE RootCoversPrefix
    OBVIOUS
  <2>1. Timed(log)
    BY LogInOrder
  <2>2. ASSUME ~overlapped, merkle # None
        PROVE  \E n \in 1 .. Len(Leaves(log)) : merkle = Root(SubSeq(Leaves(log), 1, n))
    <3>1. PICK some : Early(some) /\ merkle = Root(Leaves(some))
      BY <2>2 DEF CoverInv
    <3>2. PICK n : n = Cardinality(About(some))
      OBVIOUS
    <3>3. n \in 0 .. Len(Leaves(log)) /\ Leaves(some) = SubSeq(Leaves(log), 1, n)
      BY <2>1, <3>1, <3>2, EarlyLeaves
    <3>4. n # 0
      <4> SUFFICES ASSUME n = 0 PROVE FALSE
        OBVIOUS
      <4>1. Timed(some)
        BY <2>1, <3>1, TimedSubset DEF Early
      <4>2. Leaves(some) \in Seq(Members(Leaves(some))) /\ Len(Leaves(some)) = 0
        BY <3>2, <4>1, LeavesListed
      <4>3. Leaves(some) = <<>>
        BY <4>2, EmptySeq
      <4> QED
        BY <2>2, <3>1, <4>3 DEF Root, None
    <3>5. n \in 1 .. Len(Leaves(log))
      BY <3>3, <3>4, <2>1, LeavesListed
    <3> QED
      BY <3>1, <3>3, <3>5
  <2>3. ASSUME merkle = None, NEW i \in DOMAIN Leaves(log)
        PROVE  LET leaf == Leaves(log)[i]
               IN  Verifies(leaf, LeafAnswer(leaf).proof, LeafAnswer(leaf).root)
    BY <2>1, <2>3, AnswersVerify
  <2> QED
    BY <2>2, <2>3 DEF RootCoversPrefix
<1> HIDE DEF IInv
<1> QED
  BY <1>1, <1>2, <1>3, PTL DEF Spec
-------------------------------------------------------------------------------
(* What a log in order says of its transcript.                              *)

(* Numbers that rise within as many places are those places.                *)
LEMMA RisingFills ==
    ASSUME NEW size \in Nat, NEW f,
           \A i \in 1 .. size : f[i] \in 1 .. size,
           \A i \in 1 .. size - 1 : f[i] < f[i + 1]
    PROVE  \A i \in 1 .. size : f[i] = i
<1> DEFINE Above == {i \in Nat : i \in 1 .. size => i <= f[i]}
           Below == {k \in Nat : k < size => f[size - k] <= size - k}
<1>1. 0 \in Above /\ 0 \in Below
  OBVIOUS
<1>2. ASSUME NEW i \in Nat, i \in Above
      PROVE  i + 1 \in Above
  <2> SUFFICES ASSUME i + 1 \in 1 .. size PROVE i + 1 <= f[i + 1]
    OBVIOUS
  <2>1. f[i + 1] \in 1 .. size
    OBVIOUS
  <2>2. CASE i = 0
    BY <2>1, <2>2
  <2>3. CASE i # 0
    <3>1. i \in 1 .. size - 1 /\ i \in 1 .. size
      BY <2>3
    <3>2. i <= f[i] /\ f[i] < f[i + 1] /\ f[i] \in 1 .. size
      BY <1>2, <3>1
    <3> QED
      BY <2>1, <3>2
  <2> QED
    BY <2>2, <2>3
<1>3. ASSUME NEW k \in Nat, k \in Below
      PROVE  k + 1 \in Below
  <2> SUFFICES ASSUME k + 1 < size PROVE f[size - (k + 1)] <= size - (k + 1)
    OBVIOUS
  <2>1. PICK i \in 1 .. size - 1 : i = size - (k + 1)
    OBVIOUS
  <2>2. i + 1 = size - k /\ i + 1 \in 1 .. size /\ i \in 1 .. size
    BY <2>1
  <2>3. f[i + 1] <= i + 1
    BY <1>3, <2>2
  <2>4. f[i] < f[i + 1] /\ f[i] \in 1 .. size /\ f[i + 1] \in 1 .. size
    BY <2>2
  <2>5. f[i] <= i
    BY <2>3, <2>4
  <2> QED
    BY <2>1, <2>5
<1> HIDE DEF Above, Below
<1>4. Nat \subseteq Above
  BY <1>1, <1>2, Induction
<1>5. Nat \subseteq Below
  BY <1>1, <1>3, Induction
<1> SUFFICES ASSUME NEW i \in 1 .. size PROVE f[i] = i
  OBVIOUS
<1>6. i <= f[i]
  BY <1>4 DEF Above
<1>7. f[i] <= i
  <2>1. PICK k \in Nat : k = size - i /\ k < size /\ i = size - k
    OBVIOUS
  <2>2. f[size - k] <= size - k
    BY <1>5, <2>1 DEF Below
  <2> QED
    BY <2>1, <2>2
<1>8. f[i] \in 1 .. size
  OBVIOUS
<1> QED
  BY <1>6, <1>7, <1>8

(* Entries that follow one another in time and are as many as there are are *)
(* all of them, in the order of time.                                       *)
LEMMA RisingIsByTime ==
    ASSUME NEW entries, Timed(entries), NEW met \in Seq(entries),
           Len(met) = Cardinality(entries),
           \A i \in 1 .. Len(met) - 1 : met[i].at < met[i + 1].at
    PROVE  met = ByTime(entries)
<1> DEFINE list == ByTime(entries)
           size == Cardinality(entries)
           rank == [i \in 1 .. size |-> Rank(entries, met[i])]
<1>1. /\ size \in Nat /\ list \in Seq(entries) /\ Len(list) = size
      /\ \A e \in entries : list[Rank(entries, e)] = e
  BY ListedByTime
<1>2. \A i \in 1 .. size : met[i] \in entries
  BY <1>1
<1>3. \A i \in 1 .. size : rank[i] = Rank(entries, met[i])
  OBVIOUS
<1> HIDE DEF rank, list, size
<1>4. \A i \in 1 .. size : rank[i] \in 1 .. size
  BY <1>2, <1>3, RankGrows DEF size
<1>5. ASSUME NEW i \in 1 .. size - 1
      PROVE  rank[i] < rank[i + 1]
  <2>1. i \in 1 .. size /\ i + 1 \in 1 .. size
    BY <1>1
  <2>2. met[i] \in entries /\ met[i + 1] \in entries /\ met[i].at < met[i + 1].at
    BY <1>2, <2>1 DEF size
  <2>3. Rank(entries, met[i]) < Rank(entries, met[i + 1])
    BY <2>2, RankGrows
  <2> QED
    BY <1>3, <2>1, <2>3
<1>6. \A i \in 1 .. size : rank[i] = i
  BY <1>1, <1>4, <1>5, RisingFills
<1>7. \A i \in 1 .. size : met[i] = list[i]
  BY <1>1, <1>2, <1>3, <1>6
<1> QED
  BY <1>1, <1>7, SeqEqual DEF size, list

(* A walk goes forward in time.                                             *)
LEMMA WalkRises ==
    ASSUME Timed(log), \A e \in log : e.at # Genesis /\ e.prev \in Nat /\ e.prev < e.at,
           NEW next \in Successors
    PROVE  /\ Walk(next) \in Seq(log)
           /\ \A i \in 1 .. Len(Walk(next)) - 1 : Walk(next)[i].at < Walk(next)[i + 1].at
<1> DEFINE size == Cardinality(log)
           walk == Walks(next)
           Forward(met) == met \in Seq(log) /\ \A i \in 1 .. Len(met) - 1 : met[i].at < met[i + 1].at
           Met == {n \in Nat : n <= size => Forward(walk[n])}
<1>1. size \in Nat
  BY ListedByTime
<1>2. /\ walk[0] = <<>>
      /\ \A n \in 1 .. size : walk[n] = GoOn(next, walk[n - 1])
      /\ Walk(next) = walk[size]
  BY <1>1, WalkBuilt
<1>3. \A h \in DOMAIN next : next[h] \in log /\ next[h].prev = h
  BY DEF Successors
<1> HIDE DEF size, walk
<1>4. 0 \in Met
  <2>1. walk[0] \in Seq(log) /\ Len(walk[0]) = 0
    BY <1>2, EmptySeq
  <2> QED
    BY <2>1
<1>5. ASSUME NEW n \in Nat, n \in Met
      PROVE  n + 1 \in Met
  <2> SUFFICES ASSUME n + 1 <= size PROVE Forward(walk[n + 1])
    OBVIOUS
  <2> DEFINE met == walk[n]
  <2>1. Forward(met) /\ walk[n + 1] = GoOn(next, met)
    <3>1. n + 1 \in 1 .. size /\ n + 1 - 1 = n /\ n <= size
      BY <1>1
    <3> QED
      BY <1>2, <1>5, <3>1
  <2> HIDE DEF met
  <2>2. CASE HeadAt(met) \notin DOMAIN next
    BY <2>1, <2>2 DEF GoOn
  <2>3. CASE HeadAt(met) \in DOMAIN next
    <3>1. PICK e \in log : e = next[HeadAt(met)] /\ e.prev = HeadAt(met)
      BY <1>3, <2>3
    <3>2. PICK len \in Nat : len = Len(met)
      BY <2>1
    <3>3. /\ Append(met, e) \in Seq(log) /\ Len(Append(met, e)) = len + 1
          /\ \A i \in 1 .. len : Append(met, e)[i] = met[i]
          /\ Append(met, e)[len + 1] = e
      BY <2>1, <3>1, <3>2, AppendProperties
    <3>4. len # 0 => met[len].at < e.at
      <4> SUFFICES ASSUME len # 0 PROVE met[len].at < e.at
        OBVIOUS
      <4>1. met # <<>>
        BY <3>2, EmptySeq
      <4>2. HeadAt(met) = met[len].at
        BY <3>2, <4>1 DEF HeadAt
      <4> QED
        BY <3>1, <4>2
    <3>5. ASSUME NEW i \in 1 .. len + 1 - 1
          PROVE  Append(met, e)[i].at < Append(met, e)[i + 1].at
      <4>1. CASE i = len
        BY <3>3, <3>4, <4>1
      <4>2. CASE i # len
        <5>1. i \in 1 .. len - 1 /\ i \in 1 .. len /\ i + 1 \in 1 .. len
          BY <3>2, <4>2
        <5>2. met[i].at < met[i + 1].at
          BY <2>1, <3>2, <5>1
        <5> QED
          BY <3>3, <5>1, <5>2
      <4> QED
        BY <4>1, <4>2
    <3>6. walk[n + 1] = Append(met, e)
      BY <2>1, <2>3, <3>1 DEF GoOn
    <3> QED
      BY <3>3, <3>5, <3>6
  <2> QED
    BY <2>2, <2>3
<1> HIDE DEF Met
<1>6. Nat \subseteq Met
  BY <1>4, <1>5, Induction
<1>7. size \in Met
  BY <1>1, <1>6
<1> QED
  BY <1>1, <1>2, <1>7 DEF Met

(* An entry after all the others comes last in the list.                    *)
LEMMA NewestListedLast ==
    ASSUME NEW entries, Timed(entries), NEW new, new.at \in Nat,
           \A e \in entries : e.at < new.at
    PROVE  ByTime(entries \cup {new}) = Append(ByTime(entries), new)
<1> DEFINE all == entries \cup {new}
           size == Cardinality(entries)
<1>1. Timed(all)
  <2>1. IsFiniteSet(all)
    BY FS_AddElement DEF Timed
  <2>2. \A e \in entries : e.at # new.at
    BY DEF Timed
  <2> QED
    BY <2>1, <2>2 DEF Timed
<1>2. new \notin entries
  BY DEF Timed
<1>3. size \in Nat /\ Cardinality(all) = size + 1
  BY <1>2, FS_CardinalityType, FS_AddElement DEF Timed
<1>4. ByTime(entries) = SubSeq(ByTime(all), 1, size)
  <2>1. entries \in SUBSET all /\ \A d \in entries, e \in all \ entries : d.at < e.at
    OBVIOUS
  <2> QED
    BY <1>1, <2>1, EarlierFirst
<1>5. /\ ByTime(all) \in Seq(all) /\ Len(ByTime(all)) = size + 1
      /\ ByTime(entries) \in Seq(entries) /\ Len(ByTime(entries)) = size
  BY <1>1, <1>3, ListedByTime
<1>6. ByTime(all)[size + 1] = new
  <2>1. /\ Newest(all) \in all /\ \A d \in all : d.at <= Newest(all).at
        /\ ByTime(all)[Cardinality(all)] = Newest(all)
    BY <1>1, NewestIsLast
  <2>2. Newest(all) = new
    <3>1. new.at <= Newest(all).at
      BY <2>1
    <3>2. \A e \in entries : e.at \in Nat /\ ~(new.at <= e.at)
      BY DEF Timed
    <3> QED
      BY <2>1, <3>1, <3>2
  <2> QED
    BY <1>3, <2>1, <2>2
<1> HIDE DEF size, all
<1>7. \A i \in 1 .. size : ByTime(entries)[i] = ByTime(all)[i]
  BY <1>3, <1>4, <1>5
<1>8. /\ Append(ByTime(entries), new) \in Seq(all) /\ Len(Append(ByTime(entries), new)) = size + 1
      /\ \A i \in 1 .. size : Append(ByTime(entries), new)[i] = ByTime(entries)[i]
      /\ Append(ByTime(entries), new)[size + 1] = new
  <2>1. ByTime(entries) \in Seq(all) /\ new \in all
    BY <1>5, SeqMonotonic DEF all
  <2> QED
    BY <1>5, <2>1, AppendProperties
<1>9. \A i \in 1 .. size + 1 : ByTime(all)[i] = Append(ByTime(entries), new)[i]
  <2>1. \A i \in 1 .. size + 1 : i \in 1 .. size \/ i = size + 1
    BY <1>3
  <2> QED
    BY <1>6, <1>7, <1>8, <2>1
<1>10. ByTime(all) = Append(ByTime(entries), new)
  BY <1>5, <1>8, <1>9, SeqEqual
<1> QED
  BY <1>10 DEF all

(* The entries of the session among those met so far.                       *)
Kept(met) ==
    LET kept[n \in 0 .. Len(met)] ==
            IF n = 0 THEN <<>>
            ELSE IF OfSession(met[n]) THEN Append(kept[n - 1], met[n]) ELSE kept[n - 1]
    IN  kept

KeepOn(before, e) == IF OfSession(e) THEN Append(before, e) ELSE before

(* The filter is what its definition says: such a function exists.          *)
LEMMA KeptBuilt ==
    ASSUME NEW met, Len(met) \in Nat
    PROVE  /\ Kept(met)[0] = <<>>
           /\ \A n \in 1 .. Len(met) : Kept(met)[n] = KeepOn(Kept(met)[n - 1], met[n])
<1> DEFINE Built(f, m) == f = [n \in 0 .. m |-> IF n = 0 THEN <<>> ELSE KeepOn(f[n - 1], met[n])]
           Tops == {m \in Nat : \E f : Built(f, m)}
           kept == Kept(met)
<1>1. 0 \in Tops
  <2>1. Built([n \in 0 .. 0 |-> <<>>], 0)
    OBVIOUS
  <2> QED
    BY <2>1
<1>2. ASSUME NEW m \in Nat, m \in Tops
      PROVE  m + 1 \in Tops
  <2>1. PICK f : Built(f, m)
    BY <1>2
  <2> DEFINE g == [n \in 0 .. m + 1 |-> IF n = m + 1 THEN KeepOn(f[m], met[m + 1]) ELSE f[n]]
  <2>2. Built(g, m + 1)
    <3>1. \A n \in 0 .. m + 1 : g[n] = IF n = 0 THEN <<>> ELSE KeepOn(g[n - 1], met[n])
      BY <2>1
    <3> QED
      BY <3>1
  <2> HIDE DEF g, Built
  <2> QED
    BY <2>2
<1> HIDE DEF Tops
<1>3. Len(met) \in Tops
  BY <1>1, <1>2, Induction
<1>4. \E f : Built(f, Len(met))
  BY <1>3 DEF Tops
<1>5. kept = CHOOSE f : Built(f, Len(met))
  BY DEF Kept, KeepOn
<1> HIDE DEF kept
<1>6. Built(kept, Len(met))
  BY <1>4, <1>5
<1>7. \A n \in 0 .. Len(met) : kept[n] = IF n = 0 THEN <<>> ELSE KeepOn(kept[n - 1], met[n])
  BY <1>6
<1>8. kept[0] = <<>> /\ \A n \in 1 .. Len(met) : kept[n] = KeepOn(kept[n - 1], met[n])
  BY <1>7
<1> QED
  BY <1>8 DEF kept

(* The entries of the session in a list in the order of time are in the     *)
(* order of time.                                                           *)
LEMMA KeptIsByTime ==
    ASSUME NEW entries, Timed(entries), NEW met, met = ByTime(entries)
    PROVE  Kept(met)[Len(met)] = ByTime({e \in entries : OfSession(e)})
<1> DEFINE size == Cardinality(entries)
           kept == Kept(met)
           Some(n) == {e \in entries : OfSession(e) /\ Rank(entries, e) <= n}
           Good == {n \in Nat : n <= size => kept[n] = ByTime(Some(n))}
<1>1. /\ size \in Nat /\ Len(met) = size
      /\ \A i \in 1 .. size : met[i] \in entries /\ Rank(entries, met[i]) = i
      /\ \A e \in entries : met[Rank(entries, e)] = e /\ Rank(entries, e) \in 1 .. size
  BY ListedByTime, RankGrows
<1>2. kept[0] = <<>> /\ \A n \in 1 .. size : kept[n] = KeepOn(kept[n - 1], met[n])
  BY <1>1, KeptBuilt
<1>3. \A n : Some(n) \in SUBSET entries /\ Timed(Some(n))
  BY TimedSubset
<1> HIDE DEF size, kept
<1>4. 0 \in Good
  <2>1. Some(0) = {}
    BY <1>1
  <2>2. ByTime({}) = <<>>
    <3>1. Timed({})
      BY FS_EmptySet DEF Timed
    <3>2. Cardinality({}) = 0
      BY FS_EmptySet
    <3>3. ByTime({}) \in Seq({}) /\ Len(ByTime({})) = 0
      BY <3>1, <3>2, ListedByTime
    <3> QED
      BY <3>3, EmptySeq
  <2> HIDE DEF Some
  <2> QED
    BY <1>2, <2>1, <2>2
<1>5. ASSUME NEW n \in Nat, n \in Good
      PROVE  n + 1 \in Good
  <2> SUFFICES ASSUME n + 1 <= size PROVE kept[n + 1] = ByTime(Some(n + 1))
    OBVIOUS
  <2> DEFINE e == met[n + 1]
  <2>1. n + 1 \in 1 .. size /\ n + 1 - 1 = n /\ n <= size
    BY <1>1
  <2>2. kept[n] = ByTime(Some(n)) /\ kept[n + 1] = KeepOn(kept[n], e)
    BY <1>2, <1>5, <2>1
  <2>3. e \in entries /\ Rank(entries, e) = n + 1
    BY <1>1, <2>1
  <2>4. \A d \in entries : Rank(entries, d) <= n + 1 <=> Rank(entries, d) <= n \/ d = e
    <3>1. \A d \in entries : Rank(entries, d) = n + 1 <=> d = e
      BY <1>1, <2>3
    <3>2. \A d \in entries : Rank(entries, d) \in Int
      BY <1>1
    <3> QED
      BY <3>1, <3>2
  <2> HIDE DEF e
  <2>5. CASE OfSession(e)
    <3>1. Some(n + 1) = Some(n) \cup {e}
      BY <2>3, <2>4, <2>5
    <3>2. \A d \in Some(n) : d.at < e.at
      <4> SUFFICES ASSUME NEW d \in Some(n), ~(d.at < e.at) PROVE FALSE
        OBVIOUS
      <4>1. d \in entries /\ Rank(entries, d) <= n /\ Rank(entries, d) \in Int
        BY <1>1
      <4>2. e.at < d.at \/ d = e
        BY <2>3, <4>1 DEF Timed
      <4>3. e.at < d.at => n + 1 < Rank(entries, d)
        BY <2>3, <4>1, RankGrows
      <4> QED
        BY <2>3, <4>1, <4>2, <4>3
    <3>3. e.at \in Nat
      BY <2>3 DEF Timed
    <3> HIDE DEF Some
    <3>4. ByTime(Some(n) \cup {e}) = Append(ByTime(Some(n)), e)
      BY <1>3, <3>2, <3>3, NewestListedLast
    <3> QED
      BY <2>2, <2>5, <3>1, <3>4 DEF KeepOn
  <2>6. CASE ~OfSession(e)
    <3>1. Some(n + 1) = Some(n)
      BY <2>4, <2>6
    <3> HIDE DEF Some
    <3> QED
      BY <2>2, <2>6, <3>1 DEF KeepOn
  <2> QED
    BY <2>5, <2>6
<1> HIDE DEF Good
<1>6. Nat \subseteq Good
  BY <1>4, <1>5, Induction
<1>7. size \in Good
  BY <1>1, <1>6
<1>8. kept[size] = ByTime(Some(size))
  BY <1>1, <1>7 DEF Good
<1>9. Some(size) = {e \in entries : OfSession(e)}
  BY <1>1
<1> HIDE DEF Some
<1> QED
  BY <1>1, <1>8, <1>9 DEF kept

(* verify_chain says valid of a log only if the transcript of the session   *)
(* then holds every entry about it or naming it, in the order of time:      *)
(* whether or not transactions appended at the same time.                   *)
THEOREM ValidDoesMeanComplete == Spec => []ValidIsComplete
<1> DEFINE IInv == TxInv /\ EntryInv
<1>1. Init => IInv
  BY AuditStarts
<1>2. IInv /\ [Next]_vars => IInv'
  BY TxKept, EntryKept
<1>3. IInv => ValidIsComplete
  <2> SUFFICES ASSUME IInv, Valid, NEW next \in Successors
               PROVE  Transcript(next) = ByTime({e \in log : OfSession(e)})
    BY DEF ValidIsComplete
  <2> DEFINE met == Walk(next)
  <2>1. Timed(log) /\ \A e \in log : e.at # Genesis /\ e.prev \in Nat /\ e.prev < e.at
    BY LogInOrder
  <2>2. met \in Seq(log) /\ \A i \in 1 .. Len(met) - 1 : met[i].at < met[i + 1].at
    BY <2>1, WalkRises
  <2>3. Len(met) = Cardinality(log)
    BY DEF Valid
  <2>4. Transcript(next) = Kept(met)[Len(met)]
    BY DEF Transcript, Kept
  <2> HIDE DEF met
  <2>5. met = ByTime(log)
    BY <2>1, <2>2, <2>3, RisingIsByTime
  <2> QED
    BY <2>1, <2>4, <2>5, KeptIsByTime
<1> HIDE DEF IInv
<1> QED
  BY <1>1, <1>2, <1>3, PTL DEF Spec
===============================================================================
