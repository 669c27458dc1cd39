-------------------------- MODULE HierarchyProofs --------------------------
(***************************************************************************)
(* Insertion into an outline of any length, under any prerequisites.       *)
(***************************************************************************)
EXTENDS Hierarchy, TLAPS, WellFoundedInduction

\* Any set of natural numbers has a least element.
LEMMA LeastNatural ==
    ASSUME NEW S \in SUBSET Nat, S # {}
    PROVE  \E n \in S : \A m \in S : n <= m
<1> DEFINE R == {ss \in Nat \X Nat : ss[1] < ss[2]}
<1>1. IsWellFoundedOn(R, Nat)
    BY NatLessThanWellFounded, Zenon DEF OpToRel
<1>2. PICK n \in S : \A m \in S : <<m, n>> \notin R
    <2> HIDE DEF R
    <2>1. QED
        BY <1>1, WFMin
<1>3. ASSUME NEW m \in S
      PROVE  n <= m
    <2>1. m \in Nat /\ n \in Nat
        OBVIOUS
    <2>2. <<m, n>>[1] = m /\ <<m, n>>[2] = n /\ <<m, n>> \in Nat \X Nat
        BY <2>1
    <2>3. ~(<<m, n>>[1] < <<m, n>>[2])
        BY <1>2, <2>2
    <2>4. ~(m < n)
        BY <2>2, <2>3
    <2>5. QED
        BY <2>1, <2>4
<1>4. QED
    BY <1>3

LEMMA InsertIndexIsLatest ==
    ASSUME NEW Ids, NEW o \in Outlines(Ids), NEW prerequisites,
           \A p \in prerequisites : Holds(o, p)
    PROVE  LET k == InsertIndex(o, prerequisites)
           IN  /\ k \in 1..Len(o) + 1
               /\ prerequisites = {} => k = 1
               /\ prerequisites # {} => k > 1 /\ o[k - 1] \in prerequisites
               /\ \A i \in k..Len(o) : o[i] \notin prerequisites
<1>1. o \in Seq(Ids) /\ Len(o) \in Nat
    BY DEF Outlines
<1>2. CASE prerequisites = {}
    BY <1>1, <1>2 DEF InsertIndex
<1>3. CASE prerequisites # {}
    <2> DEFINE Above == {n \in Nat : \A i \in 1..Len(o) : o[i] \in prerequisites => i <= n}
    <2>1. Len(o) \in Above
        BY <1>1
    <2>2. PICK n \in Above : \A m \in Above : n <= m
        BY <2>1, LeastNatural
    <2>3. PICK p \in 1..Len(o) : o[p] \in prerequisites
        BY <1>3 DEF Holds
    <2>4. n \in Nat /\ n >= 1 /\ n <= Len(o)
        BY <1>1, <2>1, <2>2, <2>3
    <2>5. o[n] \in prerequisites
        <3>1. SUFFICES ASSUME o[n] \notin prerequisites
                       PROVE  FALSE
            OBVIOUS
        <3>2. \A i \in 1..Len(o) : o[i] \in prerequisites => i <= n - 1
            <4>1. \A i \in 1..Len(o) : o[i] \in prerequisites => i <= n /\ i # n
                BY <2>2, <3>1
            <4>2. QED
                BY <1>1, <2>4, <4>1
        <3>3. n - 1 \in Above
            BY <2>4, <3>2
        <3>4. QED
            BY <2>2, <2>4, <3>3
    <2>6. \A i \in n + 1..Len(o) : o[i] \notin prerequisites
        <3>1. \A i \in 1..Len(o) : o[i] \in prerequisites => i <= n
            BY <2>2
        <3>2. QED
            BY <1>1, <2>4, <3>1
    <2>7. n + 1 \in 2..Len(o) + 1 /\ (n + 1) - 1 = n
        BY <1>1, <2>4
    <2>8. \E k \in 2..Len(o) + 1 :
             /\ o[k - 1] \in prerequisites
             /\ \A i \in k..Len(o) : o[i] \notin prerequisites
        BY <2>5, <2>6, <2>7
    <2>9. LET k == InsertIndex(o, prerequisites)
          IN  /\ k \in 2..Len(o) + 1
              /\ o[k - 1] \in prerequisites
              /\ \A i \in k..Len(o) : o[i] \notin prerequisites
        BY <1>3, <2>8 DEF InsertIndex
    <2>10. QED
        BY <1>1, <1>3, <2>9
<1>4. QED
    BY <1>2, <1>3

\* An accepted insertion gives an outline again, with the new topic right after
\* the latest of its prerequisites and everything else in its order.
THEOREM InsertionIsSound ==
    ASSUME NEW Ids, NEW o \in Outlines(Ids), NEW new, NEW prerequisites,
           ~InsertRaises(o, new, prerequisites)
    PROVE  /\ InsertNewTopic(o, new, prerequisites) \in Outlines(Ids \cup {new})
           /\ InsertionSound(o, new, prerequisites,
                             InsertNewTopic(o, new, prerequisites))
<1>1. PICK k : k = InsertIndex(o, prerequisites)
    OBVIOUS
<1>2. /\ k \in 1..Len(o) + 1
      /\ prerequisites = {} => k = 1
      /\ prerequisites # {} => k > 1 /\ o[k - 1] \in prerequisites
      /\ \A i \in k..Len(o) : o[i] \notin prerequisites
    BY <1>1, InsertIndexIsLatest DEF InsertRaises
<1>3. PICK n \in Nat : n = Len(o)
    BY DEF Outlines
<1>4. /\ \A i \in 1..n : o[i] \in Ids /\ o[i] # new
      /\ \A i, j \in 1..n : o[i] = o[j] => i = j
    BY <1>3 DEF Outlines, InsertRaises, Holds
<1>5. PICK r : r = InsertNewTopic(o, new, prerequisites)
    OBVIOUS
<1>6. r = [i \in 1..n + 1 |->
              IF i < k THEN o[i] ELSE IF i = k THEN new ELSE o[i - 1]]
    BY <1>1, <1>3, <1>5 DEF InsertNewTopic
<1>7. r \in Seq(Ids \cup {new}) /\ Len(r) = n + 1
    <2>1. \A i \in 1..n + 1 : r[i] \in Ids \cup {new}
        BY <1>2, <1>3, <1>4, <1>6
    <2>2. n + 1 \in Nat /\ r \in [1..n + 1 -> Ids \cup {new}]
        BY <1>6, <2>1
    <2>3. QED
        BY <2>2
<1>8. /\ \A i \in 1..n : i < k => r[i] = o[i]
      /\ \A i \in 1..n : i >= k => r[i + 1] = o[i]
      /\ r[k] = new
    BY <1>2, <1>3, <1>6
<1>9. \A i, j \in 1..n + 1 : r[i] = r[j] => i = j
    BY <1>2, <1>3, <1>4, <1>6
<1>10. \A i, j \in 1..n + 1 : i < j => Before(r, r[i], r[j])
    BY <1>7 DEF Before
<1>11. \A a, b \in {o[i] : i \in 1..n} : Before(o, a, b) => Before(r, a, b)
    <2> SUFFICES ASSUME NEW a, NEW b, Before(o, a, b)
                 PROVE  Before(r, a, b)
        OBVIOUS
    <2>1. PICK i \in 1..n, j \in 1..n : i < j /\ o[i] = a /\ o[j] = b
        BY <1>3 DEF Before
    <2>2. CASE j < k
        <3>1. r[i] = a /\ r[j] = b
            BY <1>2, <1>3, <1>8, <2>1, <2>2
        <3>2. QED
            BY <1>3, <1>10, <2>1, <3>1
    <2>3. CASE i < k /\ j >= k
        <3>1. r[i] = a /\ r[j + 1] = b
            BY <1>8, <2>1, <2>3
        <3>2. QED
            BY <1>3, <1>10, <2>1, <3>1
    <2>4. CASE i >= k
        <3>1. r[i + 1] = a /\ r[j + 1] = b
            BY <1>2, <1>3, <1>8, <2>1, <2>4
        <3>2. QED
            BY <1>3, <1>10, <2>1, <3>1
    <2>5. QED
        BY <1>2, <1>3, <2>1, <2>2, <2>3, <2>4
<1>12. ASSUME NEW p \in prerequisites
       PROVE  Before(r, p, new)
    <2>1. PICK i \in 1..n : o[i] = p
        BY <1>3 DEF InsertRaises, Holds
    <2>2. i < k
        BY <1>2, <1>3, <2>1
    <2>3. r[i] = p /\ r[k] = new
        BY <1>8, <2>1, <2>2
    <2>4. QED
        BY <1>2, <1>3, <1>10, <2>2, <2>3
<1>13. ASSUME NEW i \in 1..n + 1, Before(r, r[i], new)
       PROVE  \E p \in prerequisites : r[i] = p \/ Before(r, r[i], p)
    <2>1. PICK a \in 1..n + 1, b \in 1..n + 1 : a < b /\ r[a] = r[i] /\ r[b] = new
        BY <1>7, <1>13 DEF Before
    <2>2. a = i /\ b = k
        BY <1>2, <1>3, <1>8, <1>9, <2>1
    <2>3. k > 1 /\ o[k - 1] \in prerequisites
        BY <1>2, <2>1, <2>2
    <2>4. k - 1 \in 1..n /\ r[k - 1] = o[k - 1]
        BY <1>2, <1>3, <1>8, <2>3
    <2>5. CASE i = k - 1
        BY <2>3, <2>4, <2>5
    <2>6. CASE i < k - 1
        <3>1. Before(r, r[i], r[k - 1])
            BY <1>10, <2>4, <2>6
        <3>2. QED
            BY <2>3, <2>4, <3>1
    <2>7. QED
        BY <1>2, <2>1, <2>2, <2>5, <2>6
<1>14. r \in Outlines(Ids \cup {new})
    BY <1>7, <1>9 DEF Outlines
<1>15. InsertionSound(o, new, prerequisites, r)
    BY <1>3, <1>7, <1>11, <1>12, <1>13 DEF InsertionSound
<1>16. QED
    BY <1>5, <1>14, <1>15
=============================================================================
