-------------------------- MODULE LineStoreProofs --------------------------
EXTENDS LineCache, TLAPS, NaturalsInduction, WellFoundedInduction

-----------------------------------------------------------------------------
(***************************************************************************)
(* Induction, by sets: the smallest natural number that is not in the set. *)
(***************************************************************************)
LEMMA Smallest ==
  ASSUME NEW S \in SUBSET Nat, S # {}
  PROVE  \E m \in S : \A k \in S : m <= k
<1> DEFINE R == OpToRel(<, Nat)
<1>1. IsWellFoundedOn(R, Nat)
  BY NatLessThanWellFounded
<1>2. ASSUME NEW k \in Nat, NEW m \in Nat, k < m PROVE <<k, m>> \in R
  BY <1>2 DEF OpToRel
<1> HIDE DEF R
<1>3. PICK m \in S : \A k \in S : <<k, m>> \notin R
  BY <1>1, WFMin
<1>4. \A k \in S : ~ (k < m)
  BY <1>2, <1>3
<1>5. m \in Nat /\ S \subseteq Nat
  OBVIOUS
<1>6. \A k \in S : m <= k
  BY <1>4, <1>5
<1>7. QED BY <1>6

LEMMA Induction ==
  ASSUME NEW S \in SUBSET Nat, 0 \in S, \A n \in S : n + 1 \in S
  PROVE  \A n \in Nat : n \in S
<1> SUFFICES ASSUME Nat \ S # {} PROVE FALSE
  OBVIOUS
<1>1. PICK m \in Nat \ S : \A k \in Nat \ S : m <= k
  BY Smallest
<1>2. m # 0 /\ m - 1 \in Nat
  BY <1>1
<1>3. m - 1 \in S
  BY <1>1, <1>2
<1>4. (m - 1) + 1 \in S
  BY <1>3
<1>5. QED BY <1>1, <1>4

-----------------------------------------------------------------------------
(***************************************************************************)
(* The walk and the lines of a memory: t is its pointer to the first       *)
(* record, s are its slots.                                                *)
(***************************************************************************)
IsWalk(f, t, s) ==
  f = [i \in 0 .. Size |->
         IF i = 0 THEN t
         ELSE LET from == f[i - 1] IN IF from \in Slots THEN s[from].next ELSE Nowhere]
AtOf(t, s) == CHOOSE f : IsWalk(f, t, s)

RecordsOf(s) == {a \in Slots : s[a].lineno \notin EndLike \cup {End}}

Text(f, left, s) ==
  [a \in Int |-> [n \in LineNos |->
    IF a \notin RecordsOf(s) THEN Missing
    ELSE IF s[a].lineno = n THEN s[a].text
    ELSE IF left > 0 THEN f[left - 1][s[a].next][n] ELSE Missing]]
IsText(f, s) == f = [left \in 0 .. Size |-> Text(f, left, s)]
TextOf(s) == CHOOSE f : IsText(f, s)
LinesOf(t, s) == TextOf(s)[Size][t]

LEMMA OfNow == At = AtOf(top, slot) /\ Lines = LinesOf(top, slot) /\ Records = RecordsOf(slot)
<1>1. At = AtOf(top, slot)
  BY DEF At, AtOf, IsWalk
<1>2. Records = RecordsOf(slot)
  BY DEF Records, RecordsOf
<1>3. Lines = LinesOf(top, slot)
  BY <1>2 DEF Lines, TextFrom, LinesOf, TextOf, IsText, Text, IsEnd
<1>4. QED BY <1>1, <1>2, <1>3

LEMMA OfNext == Lines' = LinesOf(top', slot')
<1>1. Records' = RecordsOf(slot')
  BY DEF Records, RecordsOf
<1>2. QED BY <1>1 DEF Lines, TextFrom, LinesOf, TextOf, IsText, Text, IsEnd

LEMMA SizeNat == Size \in Nat /\ Size >= 1 /\ Slots \subseteq Nat /\ Slots \subseteq Int
BY StoreAssumption DEF Slots

LEMMA WalkExists == ASSUME NEW t, NEW s PROVE IsWalk(AtOf(t, s), t, s)
<1> DEFINE Step(a) == IF a \in Slots THEN s[a].next ELSE Nowhere
<1> DEFINE W(f, n) == f = [i \in 0 .. n |-> IF i = 0 THEN t ELSE Step(f[i - 1])]
<1> DEFINE S == {n \in Nat : \E f : W(f, n)}
<1>1. 0 \in S
  <2>1. W([i \in 0 .. 0 |-> t], 0)
    OBVIOUS
  <2>2. QED BY <2>1
<1>2. ASSUME NEW n \in S PROVE n + 1 \in S
  <2>1. PICK f : W(f, n)
    OBVIOUS
  <2> DEFINE g == [i \in 0 .. n + 1 |-> IF i <= n THEN f[i] ELSE Step(f[n])]
  <2> HIDE DEF Step
  <2>2. ASSUME NEW i \in 0 .. n + 1
        PROVE  g[i] = IF i = 0 THEN t ELSE Step(g[i - 1])
    <3>1. CASE i = 0
      BY <2>1, <3>1
    <3>2. CASE i \in 1 .. n
      <4>1. g[i] = f[i] /\ g[i - 1] = f[i - 1] /\ i \in 0 .. n
        BY <3>2
      <4>2. f[i] = Step(f[i - 1])
        BY <2>1, <3>2, <4>1
      <4>3. QED BY <3>2, <4>1, <4>2
    <3>3. CASE i = n + 1
      BY <3>3
    <3>4. QED BY <3>1, <3>2, <3>3
  <2>3. W(g, n + 1)
    BY <2>2, Zenon
  <2> HIDE DEF W, g
  <2>4. n + 1 \in Nat /\ \E h : W(h, n + 1)
    BY <2>3
  <2>5. QED BY <2>4, Zenon
<1>3. Size \in S
  BY <1>1, <1>2, Induction, SizeNat
<1>4. PICK f : IsWalk(f, t, s)
  BY <1>3 DEF IsWalk
<1>5. QED BY <1>4 DEF AtOf

LEMMA TextExists == ASSUME NEW s PROVE IsText(TextOf(s), s)
<1> DEFINE W(f, n) == f = [left \in 0 .. n |-> Text(f, left, s)]
<1> DEFINE S == {n \in Nat : \E f : W(f, n)}
<1>0. ASSUME NEW f, NEW g, NEW left \in Nat, left > 0 => f[left - 1] = g[left - 1]
      PROVE  Text(f, left, s) = Text(g, left, s)
  BY <1>0 DEF Text
<1>1. 0 \in S
  <2> DEFINE f == [left \in 0 .. 0 |-> Text(<<>>, 0, s)]
  <2>1. \A left \in 0 .. 0 : Text(f, left, s) = Text(<<>>, 0, s)
    BY <1>0
  <2>2. W(f, 0)
    BY <2>1
  <2>3. QED BY <2>2
<1>2. ASSUME NEW n \in S PROVE n + 1 \in S
  <2>1. PICK f : W(f, n)
    OBVIOUS
  <2> DEFINE g == [left \in 0 .. n + 1 |-> IF left <= n THEN f[left] ELSE Text(f, n + 1, s)]
  <2>2. ASSUME NEW left \in 0 .. n + 1 PROVE g[left] = Text(g, left, s)
    <3>1. left > 0 => g[left - 1] = f[left - 1]
      OBVIOUS
    <3>2. Text(f, left, s) = Text(g, left, s)
      BY <1>0, <3>1
    <3>3. g[left] = Text(f, left, s)
      BY <2>1
    <3>4. QED BY <3>2, <3>3
  <2>3. W(g, n + 1)
    BY <2>2, Zenon
  <2> HIDE DEF W, g
  <2>4. n + 1 \in Nat /\ \E h : W(h, n + 1)
    BY <2>3
  <2>5. QED BY <2>4, Zenon
<1>3. Size \in S
  BY <1>1, <1>2, Induction, SizeNat
<1>4. PICK f : IsText(f, s)
  BY <1>3 DEF IsText
<1>5. QED BY <1>4 DEF TextOf

-----------------------------------------------------------------------------
(***************************************************************************)
(* The same by steps: where the walk goes, what the list shows.            *)
(***************************************************************************)
LEMMA WalkStep ==
  ASSUME NEW t, NEW s
  PROVE  /\ AtOf(t, s)[0] = t
         /\ \A i \in 1 .. Size : AtOf(t, s)[i] = IF AtOf(t, s)[i - 1] \in Slots
                                                 THEN s[AtOf(t, s)[i - 1]].next ELSE Nowhere
<1>1. IsWalk(AtOf(t, s), t, s)
  BY WalkExists
<1>2. QED BY <1>1, SizeNat DEF IsWalk

LEMMA TextStep ==
  ASSUME NEW s, NEW left \in 0 .. Size, NEW a \in Int, NEW n \in LineNos
  PROVE  TextOf(s)[left][a][n] =
           IF a \notin RecordsOf(s) THEN Missing
           ELSE IF s[a].lineno = n THEN s[a].text
           ELSE IF left > 0 THEN TextOf(s)[left - 1][s[a].next][n] ELSE Missing
<1>1. IsText(TextOf(s), s)
  BY TextExists
<1>2. TextOf(s)[left] = Text(TextOf(s), left, s)
  BY <1>1 DEF IsText
<1>3. QED BY <1>2 DEF Text

LEMMA LinesDomain ==
  ASSUME NEW s, NEW t \in Int
  PROVE  LinesOf(t, s) = [n \in LineNos |-> LinesOf(t, s)[n]]
<1>1. IsText(TextOf(s), s)
  BY TextExists
<1>2. TextOf(s)[Size] = Text(TextOf(s), Size, s)
  BY <1>1, SizeNat DEF IsText
<1>3. QED BY <1>2 DEF Text, LinesOf

\* The first step outside is the one before which there is none.
LEMMA FirstIs ==
  ASSUME NEW S, NEW i \in 0 .. Size, At[i] \notin S, \A j \in 0 .. i - 1 : At[j] \in S
  PROVE  FirstOutside(S) = i
<1>1. \A k \in 0 .. Size :
        At[k] \notin S /\ (\A j \in 0 .. k - 1 : At[j] \in S) => k = i
  BY SizeNat
<1>2. QED BY <1>1 DEF FirstOutside

\* Records that are passed in a search for n have no say in what is found.
LEMMA Passed ==
  ASSUME NEW s, NEW p, NEW I \in 0 .. Size, NEW n \in LineNos,
         p[0] \in Int,
         \A j \in 0 .. I - 1 : /\ p[j] \in RecordsOf(s) /\ s[p[j]].lineno # n
                               /\ s[p[j]].next = p[j + 1]
  PROVE  TextOf(s)[Size][p[0]][n] = TextOf(s)[Size - I][p[I]][n]
<1> DEFINE S == {i \in Nat : i <= I => TextOf(s)[Size][p[0]][n] = TextOf(s)[Size - i][p[i]][n]}
<1>1. 0 \in S
  BY SizeNat
<1>2. ASSUME NEW i \in S PROVE i + 1 \in S
  <2> SUFFICES ASSUME i + 1 <= I
               PROVE  TextOf(s)[Size][p[0]][n] = TextOf(s)[Size - (i + 1)][p[i + 1]][n]
    OBVIOUS
  <2>1. i \in 0 .. I - 1 /\ i <= I
    OBVIOUS
  <2>2. p[i] \in RecordsOf(s) /\ s[p[i]].lineno # n /\ s[p[i]].next = p[i + 1]
    BY <2>1
  <2>3. p[i] \in Int
    BY <2>2, SizeNat DEF RecordsOf
  <2>4. Size - i \in 0 .. Size /\ Size - i > 0 /\ (Size - i) - 1 = Size - (i + 1)
    BY <2>1, SizeNat
  <2>5. TextOf(s)[Size - i][p[i]][n] = TextOf(s)[(Size - i) - 1][s[p[i]].next][n]
    BY <2>2, <2>3, <2>4, TextStep
  <2>6. TextOf(s)[Size][p[0]][n] = TextOf(s)[Size - i][p[i]][n]
    BY <2>1
  <2>7. QED BY <2>2, <2>4, <2>5, <2>6
<1>3. S \in SUBSET Nat
  OBVIOUS
<1> HIDE DEF S
<1>4. \A i \in Nat : i \in S
  BY <1>1, <1>2, <1>3, Induction
<1>5. I \in S
  BY <1>4, SizeNat
<1>6. QED BY <1>5 DEF S

-----------------------------------------------------------------------------
(***************************************************************************)
(* A program in memory: a path of K records, no slot twice, which ends     *)
(* behind them all, and the records on it in the order of their numbers.   *)
(***************************************************************************)
Numbers == LineNos \ EndLike

Path(p, K) ==
  /\ K \in Nat /\ p \in [0 .. K -> Slots] /\ K < p[K]
  /\ \A i \in 0 .. K - 1 : p[i] < p[K]
  /\ \A i, j \in 0 .. K : p[i] = p[j] => i = j

Sorted(p, K, s) ==
  /\ \A i \in 0 .. K - 1 : \/ s[p[i]].lineno = Deleted
                           \/ s[p[i]].lineno \in Numbers /\ s[p[i]].text \in Texts
  /\ \A i, j \in 0 .. K - 1 :
       i < j /\ s[p[j]].lineno # Deleted => s[p[i]].lineno < s[p[j]].lineno

Linked(p, K, t, s) == t = p[0] /\ \A i \in 0 .. K - 1 : s[p[i]].next = p[i + 1]

Program(p, K, t, s) ==
  Path(p, K) /\ Sorted(p, K, s) /\ Linked(p, K, t, s) /\ s[p[K]].lineno = End

\* v is the text of line n among the records of the path.
Shown(p, K, s, n, v) ==
  \/ \E i \in 0 .. K - 1 : s[p[i]].lineno = n /\ v = s[p[i]].text
  \/ (\A i \in 0 .. K - 1 : s[p[i]].lineno # n) /\ v = Missing

LEMMA NumberFacts ==
  /\ Deleted = 0 /\ End = -1 /\ Numbers \subseteq LineNos
  /\ \A n \in LineNos : n \in Nat /\ n > 0 /\ n # Deleted /\ n # End
  /\ \A n \in Numbers : n \notin EndLike \cup {End}
  /\ Deleted \notin EndLike \cup {End}
  /\ Missing \notin Texts
BY StoreAssumption DEF Numbers, Deleted, End

LEMMA PathFacts ==
  ASSUME NEW p, NEW K, Path(p, K)
  PROVE  /\ K \in 0 .. Size - 1 /\ p[K] \in Slots
         /\ \A i \in 0 .. K : p[i] \in Slots /\ p[i] \in Int /\ p[i] <= p[K]
         /\ \A i \in 0 .. K : p[i] = p[K] => i = K
BY SizeNat DEF Path, Slots

LEMMA OnPath ==
  ASSUME NEW p, NEW K, NEW s, Path(p, K), Sorted(p, K, s)
  PROVE  \A i \in 0 .. K - 1 : p[i] \in RecordsOf(s)
BY NumberFacts, PathFacts DEF Sorted, RecordsOf

\* Line numbers are on a sorted path once.
LEMMA ShownOnce ==
  ASSUME NEW p, NEW K, NEW s, Path(p, K), Sorted(p, K, s), NEW n \in LineNos,
         NEW v, NEW w, Shown(p, K, s, n, v), Shown(p, K, s, n, w)
  PROVE  v = w
<1>1. ASSUME NEW i \in 0 .. K - 1, NEW j \in 0 .. K - 1,
             s[p[i]].lineno = n, s[p[j]].lineno = n
      PROVE  i = j
  <2>1. ~(i < j) /\ ~(j < i)
    BY <1>1, NumberFacts DEF Sorted
  <2>2. i \in Int /\ j \in Int
    OBVIOUS
  <2>3. QED BY <2>1, <2>2
<1>2. QED BY <1>1 DEF Shown

\* The walk is the path, and the list shows what is on it.
LEMMA WalksThePath ==
  ASSUME NEW p, NEW K, NEW t, NEW s, Path(p, K), Linked(p, K, t, s)
  PROVE  \A i \in 0 .. K : AtOf(t, s)[i] = p[i]
<1> DEFINE S == {i \in Nat : i <= K => AtOf(t, s)[i] = p[i]}
<1>1. 0 \in S
  BY WalkStep DEF Linked
<1>2. ASSUME NEW i \in S PROVE i + 1 \in S
  <2> SUFFICES ASSUME i + 1 <= K PROVE AtOf(t, s)[i + 1] = p[i + 1]
    OBVIOUS
  <2>1. K \in Nat /\ i \in 0 .. K - 1 /\ i + 1 \in 1 .. Size /\ (i + 1) - 1 = i
    BY PathFacts, SizeNat
  <2>2. AtOf(t, s)[i] = p[i] /\ p[i] \in Slots
    BY <2>1, PathFacts
  <2>3. s[p[i]].next = p[i + 1]
    BY <2>1 DEF Linked
  <2>4. QED BY <2>1, <2>2, <2>3, WalkStep
<1>3. S \in SUBSET Nat
  OBVIOUS
<1> HIDE DEF S
<1>4. \A i \in Nat : i \in S
  BY <1>1, <1>2, <1>3, Induction
<1>5. QED BY <1>4, PathFacts DEF S

\* The first place on a path where something holds that holds at its end.
LEMMA FirstOnPath ==
  ASSUME NEW K \in Nat, NEW S \in SUBSET (0 .. K), K \in S
  PROVE  \E i \in 0 .. K : i \in S /\ \A j \in 0 .. i - 1 : j \notin S
<1>1. S \in SUBSET Nat /\ S # {}
  OBVIOUS
<1>2. PICK m \in S : \A k \in S : m <= k
  BY <1>1, Smallest
<1>3. QED BY <1>2

LEMMA LinesShown ==
  ASSUME NEW p, NEW K, NEW t, NEW s, Program(p, K, t, s), NEW n \in LineNos
  PROVE  Shown(p, K, s, n, LinesOf(t, s)[n])
<1> USE DEF Program
<1> DEFINE S == {i \in 0 .. K : i = K \/ s[p[i]].lineno = n}
<1>1. K \in Nat /\ K \in 0 .. Size /\ K \in S
  BY PathFacts, SizeNat
<1>2. PICK i \in 0 .. K : i \in S /\ \A j \in 0 .. i - 1 : j \notin S
  BY <1>1, FirstOnPath
<1>3. \A j \in 0 .. i - 1 : /\ p[j] \in RecordsOf(s) /\ s[p[j]].lineno # n
                            /\ s[p[j]].next = p[j + 1]
  BY <1>1, <1>2, OnPath DEF Linked
<1>4. i \in 0 .. Size /\ p[0] \in Int /\ p[i] \in Int
  BY <1>1, PathFacts, SizeNat
<1>5. LinesOf(t, s)[n] = TextOf(s)[Size - i][p[i]][n]
  BY <1>3, <1>4, Passed DEF LinesOf, Linked
<1>6. Size - i \in 0 .. Size
  BY <1>4, SizeNat
<1>7. CASE i = K
  <2>1. p[i] \notin RecordsOf(s)
    BY <1>7 DEF RecordsOf
  <2>2. LinesOf(t, s)[n] = Missing
    BY <1>4, <1>5, <1>6, <2>1, TextStep
  <2>3. QED BY <1>1, <1>2, <1>7, <2>2 DEF Shown
<1>8. CASE i # K
  <2>1. i \in 0 .. K - 1 /\ s[p[i]].lineno = n /\ p[i] \in RecordsOf(s)
    BY <1>1, <1>2, <1>8, OnPath
  <2>2. LinesOf(t, s)[n] = s[p[i]].text
    BY <1>4, <1>5, <1>6, <2>1, TextStep
  <2>3. QED BY <2>1, <2>2 DEF Shown
<1>9. QED BY <1>7, <1>8

-----------------------------------------------------------------------------
(***************************************************************************)
(* findend and findln, with a program in memory.                           *)
(***************************************************************************)
LEMMA FirstExists ==
  ASSUME NEW S
  PROVE  \/ FirstOutside(S) = -1
         \/ /\ FirstOutside(S) \in 0 .. Size /\ At[FirstOutside(S)] \notin S
            /\ \A j \in 0 .. FirstOutside(S) - 1 : At[j] \in S
<1>1. CASE \E i \in 0 .. Size : At[i] \notin S
  <2> DEFINE Out == {i \in 0 .. Size : At[i] \notin S}
  <2>1. Out \in SUBSET Nat /\ Out # {}
    BY <1>1, SizeNat
  <2>2. PICK m \in Out : \A k \in Out : m <= k
    BY <2>1, Smallest
  <2>3. m \in 0 .. Size /\ At[m] \notin S /\ \A j \in 0 .. m - 1 : At[j] \in S
    BY <2>2, SizeNat
  <2>4. QED BY <1>1, <2>3 DEF FirstOutside
<1>2. CASE ~\E i \in 0 .. Size : At[i] \notin S
  BY <1>2 DEF FirstOutside
<1>3. QED BY <1>1, <1>2

LEMMA EndOfPath ==
  ASSUME NEW p, NEW K, Program(p, K, top, slot)
  PROVE  /\ \A i \in 0 .. K : At[i] = p[i]
         /\ ListLen = K /\ Last = IF K > 0 THEN p[K - 1] ELSE Nowhere
<1> USE DEF Program
<1>1. \A i \in 0 .. K : At[i] = p[i]
  BY WalksThePath, OfNow
<1>2. K \in 0 .. Size /\ K \in Nat
  BY PathFacts, SizeNat
<1>3. At[K] \notin Records
  BY <1>1, <1>2 DEF Records
<1>4. \A j \in 0 .. K - 1 : At[j] \in Records
  BY <1>1, <1>2, OnPath, OfNow
<1>5. FirstOutside(Records) = K
  BY <1>2, <1>3, <1>4, FirstIs
<1>6. ListLen = K
  BY <1>5 DEF ListLen
<1>7. K > 0 => K - 1 \in 0 .. K
  BY <1>2
<1>8. QED BY <1>1, <1>2, <1>6, <1>7 DEF Last

\* The place of a line: the first record whose number is not smaller, or the end.
LEMMA PlaceOf ==
  ASSUME NEW p, NEW K, Program(p, K, top, slot), NEW n \in LineNos
  PROVE  \E c \in 0 .. K :
           /\ \A i \in 0 .. c - 1 : slot[p[i]].lineno < n
           /\ \A i \in c + 1 .. K - 1 : slot[p[i]].lineno = Deleted \/ slot[p[i]].lineno > n
           /\ c < K => slot[p[c]].lineno = n \/ slot[p[c]].lineno > n
           /\ FindLn(n) = IF c = K THEN Nowhere
                          ELSE IF slot[p[c]].lineno = n THEN p[c]
                          ELSE IF c = 0 THEN Top ELSE p[c - 1]
<1> USE DEF Program
<1>1. K \in Nat /\ K \in 0 .. Size
  BY PathFacts, SizeNat
<1>2. \A i \in 0 .. K - 1 : slot[p[i]].lineno \in Int
  BY NumberFacts DEF Sorted
<1> DEFINE S == {i \in 0 .. K : i = K \/ ~(slot[p[i]].lineno < n)}
<1>a. S \in SUBSET (0 .. K) /\ K \in S
  BY <1>1
<1> HIDE DEF S
<1>b. PICK c \in 0 .. K : c \in S /\ \A j \in 0 .. c - 1 : j \notin S
  BY <1>1, <1>a, FirstOnPath
<1>3. /\ c = K \/ ~(slot[p[c]].lineno < n)
      /\ \A j \in 0 .. c - 1 : j \in 0 .. K - 1 /\ slot[p[j]].lineno < n
  BY <1>1, <1>b DEF S
<1>4. \A i \in 0 .. c - 1 : slot[p[i]].lineno < n
  BY <1>1, <1>3
<1>5. c < K => slot[p[c]].lineno = n \/ slot[p[c]].lineno > n
  BY <1>1, <1>2, <1>3, NumberFacts
<1>6. \A i \in c + 1 .. K - 1 : slot[p[i]].lineno = Deleted \/ slot[p[i]].lineno > n
  BY <1>1, <1>2, <1>3, <1>5, NumberFacts DEF Sorted
<1>7. \A i \in 0 .. K : At[i] = p[i]
  BY EndOfPath
<1>8. \A i \in 0 .. K - 1 : p[i] \in Records
  BY OnPath, OfNow
<1>9. At[c] \notin Below(n)
  BY <1>1, <1>2, <1>3, <1>5, <1>7, NumberFacts DEF Below, Records
<1>10. \A j \in 0 .. c - 1 : At[j] \in Below(n)
  BY <1>1, <1>4, <1>7, <1>8 DEF Below
<1>11. FirstOutside(Below(n)) = c
  <2>1. c \in 0 .. Size
    BY <1>1, SizeNat
  <2>2. QED BY <1>9, <1>10, <2>1, FirstIs
<1>12. IsEnd(At[c]) <=> c = K
  BY <1>1, <1>7, <1>8, <1>3 DEF IsEnd, Records
<1>13. c > 0 => At[c - 1] = p[c - 1]
  BY <1>1, <1>7
<1>14. FindLn(n) = IF c = K THEN Nowhere
                   ELSE IF slot[p[c]].lineno = n THEN p[c]
                   ELSE IF c = 0 THEN Top ELSE p[c - 1]
  BY <1>7, <1>11, <1>12, <1>13 DEF FindLn
<1>15. QED BY <1>4, <1>5, <1>6, <1>14

-----------------------------------------------------------------------------
(***************************************************************************)
(* The path after an insertion.                                            *)
(***************************************************************************)
Grown(p, K, c) == [i \in 0 .. K + 1 |-> CASE i < c  -> p[i]
                                          [] i = c  -> p[K]
                                          [] i > c /\ i <= K -> p[i - 1]
                                          [] OTHER  -> p[K] + 1]

LEMMA GrownIs ==
  ASSUME NEW p, NEW K \in Nat, NEW c \in 0 .. K
  PROVE  /\ \A i \in 0 .. c - 1 : Grown(p, K, c)[i] = p[i]
         /\ Grown(p, K, c)[c] = p[K] /\ Grown(p, K, c)[K + 1] = p[K] + 1
         /\ \A i \in c + 1 .. K : Grown(p, K, c)[i] = p[i - 1]
         /\ \A i \in c .. K - 1 : Grown(p, K, c)[i + 1] = p[i]
BY DEF Grown

LEMMA GrownPath ==
  ASSUME NEW p, NEW K, NEW c \in 0 .. K, Path(p, K), p[K] < Size
  PROVE  Path(Grown(p, K, c), K + 1)
<1> DEFINE g == Grown(p, K, c)
<1>1. K \in Nat /\ K + 1 \in Nat /\ (K + 1) - 1 = K
  BY DEF Path
<1>2. /\ \A i \in 0 .. c - 1 : g[i] = p[i]
      /\ g[c] = p[K] /\ g[K + 1] = p[K] + 1
      /\ \A i \in c + 1 .. K : g[i] = p[i - 1]
  BY <1>1, GrownIs
<1>3. g = [i \in 0 .. K + 1 |-> g[i]]
  BY DEF Grown
<1> HIDE DEF g
<1>4. /\ \A i \in 0 .. K : p[i] \in Slots /\ p[i] \in Int /\ p[i] <= p[K] /\ p[i] >= 1
      /\ \A i \in 0 .. K : p[i] = p[K] => i = K
      /\ K < p[K]
  BY PathFacts DEF Slots, Path
<1>5. \A i \in 0 .. K : g[i] \in Slots /\ g[i] < p[K] + 1
  <2> TAKE i \in 0 .. K
  <2>1. i \in 0 .. c - 1 \/ i = c \/ (i \in c + 1 .. K /\ i - 1 \in 0 .. K)
    BY <1>1
  <2>2. \E j \in 0 .. K : g[i] = p[j]
    BY <1>1, <1>2, <2>1
  <2>3. QED BY <1>1, <1>4, <2>2
<1>6. p[K] + 1 \in Slots
  BY <1>1, <1>4, SizeNat DEF Slots
<1>7. g \in [0 .. K + 1 -> Slots]
  <2>1. \A i \in 0 .. K + 1 : g[i] \in Slots
    BY <1>1, <1>2, <1>5, <1>6
  <2>2. QED BY <1>3, <2>1
<1>8. ASSUME NEW i \in 0 .. K + 1, NEW j \in 0 .. K + 1, g[i] = g[j] PROVE i = j
  <2> DEFINE from(k) == IF k < c THEN k ELSE IF k = c THEN K ELSE k - 1
  <2>1. \A k \in 0 .. K : from(k) \in 0 .. K /\ g[k] = p[from(k)]
    BY <1>1, <1>2
  <2>2. \A a, b \in 0 .. K : from(a) = from(b) => a = b
    BY <1>1
  <2>3. \A a, b \in 0 .. K : p[a] = p[b] => a = b
    BY DEF Path
  <2>4. CASE i \in 0 .. K /\ j \in 0 .. K
    <3>1. from(i) = from(j)
      BY <1>8, <2>1, <2>3, <2>4
    <3>2. QED BY <2>2, <2>4, <3>1
  <2>5. CASE i = K + 1 \/ j = K + 1
    BY <1>1, <1>2, <1>4, <1>5, <1>8, <2>5
  <2>6. QED BY <1>1, <2>4, <2>5
<1>9. \A i \in 0 .. K : g[i] < g[K + 1]
  BY <1>2, <1>5
<1>10. K + 1 < g[K + 1]
  BY <1>1, <1>2, <1>4
<1>11. Path(g, K + 1)
  BY <1>1, <1>7, <1>8, <1>9, <1>10 DEF Path
<1>12. QED BY <1>11 DEF g

\* The record at p[K] has become the c-th, all else is as before.
LEMMA GrownProgram ==
  ASSUME NEW p, NEW K, NEW c \in 0 .. K, NEW t, NEW s, NEW m \in Numbers,
         Path(p, K), p[K] < Size, Sorted(p, K, s),
         \A i \in 0 .. c - 1 : s[p[i]].lineno < m,
         \A i \in c .. K - 1 : s[p[i]].lineno = Deleted \/ s[p[i]].lineno > m,
         s[p[K]].lineno = m, s[p[K]].text \in Texts, s[p[K] + 1].lineno = End,
         t = IF c = 0 THEN p[K] ELSE p[0],
         \A i \in 0 .. K - 1 :
           s[p[i]].next = IF i = c - 1 THEN p[K] ELSE IF i = K - 1 THEN p[K] + 1 ELSE p[i + 1],
         s[p[K]].next = IF c = K THEN p[K] + 1 ELSE p[c]
  PROVE  /\ Program(Grown(p, K, c), K + 1, t, s)
         /\ \A n \in LineNos : \A v :
              Shown(Grown(p, K, c), K + 1, s, n, v) =>
                IF n = m THEN v = s[p[K]].text ELSE Shown(p, K, s, n, v)
<1> DEFINE g == Grown(p, K, c)
<1>1. K \in Nat /\ K + 1 \in Nat /\ (K + 1) - 1 = K /\ m \in LineNos
  BY NumberFacts DEF Path
<1>2. /\ \A i \in 0 .. c - 1 : g[i] = p[i]
      /\ g[c] = p[K] /\ g[K + 1] = p[K] + 1
      /\ \A i \in c + 1 .. K : g[i] = p[i - 1]
  BY <1>1, GrownIs
<1>3. Path(g, K + 1)
  BY GrownPath
<1> HIDE DEF g
<1>4. \A i \in 0 .. K :
        \/ i \in 0 .. c - 1 /\ i \in 0 .. K - 1 /\ g[i] = p[i]
        \/ i = c /\ g[i] = p[K]
        \/ i \in c + 1 .. K /\ i - 1 \in c .. K - 1 /\ i - 1 \in 0 .. K - 1 /\ g[i] = p[i - 1]
  BY <1>1, <1>2
<1>5. \A i \in 0 .. K - 1 : s[p[i]].lineno \in Int
  BY NumberFacts DEF Sorted
<1>6. Sorted(g, K + 1, s)
  <2>1. ASSUME NEW i \in 0 .. K
        PROVE  \/ s[g[i]].lineno = Deleted
               \/ s[g[i]].lineno \in Numbers /\ s[g[i]].text \in Texts
    BY <1>4 DEF Sorted
  <2>2. ASSUME NEW i \in 0 .. K, NEW j \in 0 .. K, i < j, s[g[j]].lineno # Deleted
        PROVE  s[g[i]].lineno < s[g[j]].lineno
    <3>1. CASE i \in 0 .. c - 1
      <4>1. g[i] = p[i] /\ s[p[i]].lineno < m /\ i \in 0 .. K - 1
        BY <1>1, <1>2, <3>1
      <4>2. CASE j \in 0 .. c - 1
        BY <1>1, <1>2, <2>2, <4>1, <4>2 DEF Sorted
      <4>3. CASE j = c
        BY <1>2, <4>1, <4>3
      <4>4. CASE j \in c + 1 .. K
        <5>1. g[j] = p[j - 1] /\ s[p[j - 1]].lineno > m /\ j - 1 \in 0 .. K - 1
          BY <1>1, <1>2, <2>2, <4>4
        <5>2. QED BY <1>1, <1>5, <4>1, <5>1, NumberFacts
      <4>5. QED BY <1>1, <4>2, <4>3, <4>4
    <3>2. CASE i = c
      <4>1. g[j] = p[j - 1] /\ s[p[j - 1]].lineno > m /\ g[i] = p[K]
        BY <1>1, <1>2, <2>2, <3>2
      <4>2. QED BY <4>1
    <3>3. CASE i \in c + 1 .. K
      <4>1. /\ g[j] = p[j - 1] /\ g[i] = p[i - 1] /\ i - 1 < j - 1
            /\ i - 1 \in 0 .. K - 1 /\ j - 1 \in 0 .. K - 1
        BY <1>1, <1>2, <2>2, <3>3
      <4>2. QED BY <2>2, <4>1 DEF Sorted
    <3>4. QED BY <1>1, <3>1, <3>2, <3>3
  <2>3. QED BY <1>1, <2>1, <2>2 DEF Sorted
<1>7. Linked(g, K + 1, t, s)
  <2>1. t = g[0]
    BY <1>1, <1>2
  <2>2. ASSUME NEW i \in 0 .. K PROVE s[g[i]].next = g[i + 1]
    <3>1. CASE i \in 0 .. c - 2
      <4>1. g[i] = p[i] /\ g[i + 1] = p[i + 1] /\ i \in 0 .. K - 1 /\ i # c - 1 /\ i # K - 1
        BY <1>1, <1>2, <3>1
      <4>2. QED BY <4>1
    <3>2. CASE i = c - 1
      <4>1. g[i] = p[i] /\ g[i + 1] = p[K] /\ i \in 0 .. K - 1
        BY <1>1, <1>2, <3>2
      <4>2. QED BY <3>2, <4>1
    <3>3. CASE i = c
      <4>1. g[i] = p[K] /\ g[i + 1] = IF c = K THEN p[K] + 1 ELSE p[c]
        BY <1>1, <1>2, <3>3
      <4>2. QED BY <4>1
    <3>4. CASE i \in c + 1 .. K
      <4>1. g[i] = p[i - 1] /\ i - 1 \in 0 .. K - 1 /\ i - 1 # c - 1 /\ (i - 1) + 1 = i
        BY <1>1, <1>2, <3>4
      <4>2. g[i + 1] = IF i = K THEN p[K] + 1 ELSE p[i]
        BY <1>1, <1>2, <3>4
      <4>3. s[p[i - 1]].next = IF i = K THEN p[K] + 1 ELSE p[i]
        BY <1>1, <4>1
      <4>4. QED BY <4>1, <4>2, <4>3
    <3>5. QED BY <1>1, <3>1, <3>2, <3>3, <3>4
  <2>3. QED BY <1>1, <2>1, <2>2 DEF Linked
<1>8. Program(g, K + 1, t, s)
  BY <1>1, <1>2, <1>3, <1>6, <1>7 DEF Program
<1>9. ASSUME NEW n \in LineNos, NEW v, Shown(g, K + 1, s, n, v)
      PROVE  IF n = m THEN v = s[p[K]].text ELSE Shown(p, K, s, n, v)
  <2>1. \A i \in 0 .. K - 1 : s[p[i]].lineno # m
    BY <1>1, <1>5, NumberFacts
  <2>2. \A i \in 0 .. K - 1 : \E j \in 0 .. K : g[j] = p[i]
    <3> TAKE i \in 0 .. K - 1
    <3>1. CASE i < c
      BY <1>1, <1>2, <3>1
    <3>2. CASE i >= c
      <4>1. i + 1 \in c + 1 .. K /\ i + 1 \in 0 .. K /\ (i + 1) - 1 = i
        BY <1>1, <3>2
      <4>2. g[i + 1] = p[i]
        BY <1>2, <4>1
      <4>3. QED BY <4>1, <4>2
    <3>3. QED BY <1>1, <3>1, <3>2
  <2>3. CASE n = m
    <3>1. c \in 0 .. K
      OBVIOUS
    <3>2. ASSUME NEW i \in 0 .. K, s[g[i]].lineno = n PROVE g[i] = p[K]
      BY <1>4, <2>1, <2>3, <3>2
    <3>3. s[g[c]].lineno = n
      BY <1>2, <2>3
    <3>4. QED BY <1>1, <1>9, <2>3, <3>1, <3>2, <3>3 DEF Shown
  <2>4. CASE n # m
    <3>1. CASE \E i \in 0 .. K : s[g[i]].lineno = n /\ v = s[g[i]].text
      <4>1. PICK i \in 0 .. K : s[g[i]].lineno = n /\ v = s[g[i]].text
        BY <3>1
      <4>2. \E j \in 0 .. K - 1 : g[i] = p[j]
        BY <1>4, <2>4, <4>1
      <4>3. QED BY <2>4, <4>1, <4>2 DEF Shown
    <3>2. CASE (\A i \in 0 .. K : s[g[i]].lineno # n) /\ v = Missing
      <4>1. \A i \in 0 .. K - 1 : s[p[i]].lineno # n
        BY <2>2, <3>2
      <4>2. QED BY <2>4, <3>2, <4>1 DEF Shown
    <3>3. QED BY <1>1, <1>9, <3>1, <3>2 DEF Shown
  <2>5. QED BY <2>3, <2>4
<1>10. QED BY <1>8, <1>9 DEF g

-----------------------------------------------------------------------------
(***************************************************************************)
(* The inductive invariant.  Between the changes there is a program in     *)
(* memory, unless the power was lost in the middle of one.                 *)
(***************************************************************************)
Resting == pc \in {"ready", "boot"}

RestInv ==
  Resting /\ ~damaged =>
    \E K \in 0 .. Size - 1 : \E p \in [0 .. K -> Slots] :
      Program(p, K, top, slot) /\ (pc = "ready" => psize = p[K])

(***************************************************************************)
(* During insertln the path it started from is still known: the new record *)
(* goes to its end p[K] and will be the c-th on the new path.              *)
(***************************************************************************)
\* The records before place c have smaller numbers, the last of them may be the line
\* that is to be replaced; the records from c on have larger ones.
Place(p, K, c) ==
  /\ \A i \in 0 .. c - 1 :
       \/ slot[p[i]].lineno < new.lineno
       \/ /\ i = c - 1 /\ nxt = p[i] /\ slot[p[i]].lineno = new.lineno
          /\ pc \in {"number", "body", "end", "link"}
  /\ \A i \in c .. K - 1 : slot[p[i]].lineno = Deleted \/ slot[p[i]].lineno > new.lineno
  /\ \/ nxt = Nowhere /\ c = K /\ pc \in {"number", "body", "end"}
     \/ K > 0 /\ pll = p[K - 1] /\ nxt = IF c = 0 THEN Top ELSE p[c - 1]

\* The new record, as far as it is written.
Record(p, K) ==
  /\ psize = IF pc \in {"number", "body"} THEN p[K] ELSE p[K] + 1
  /\ pc # "number" => slot[p[K]].lineno = new.lineno
  /\ pc \notin {"number", "body"} => slot[p[K]].text = new.text
  /\ pc \in {"end", "link", "hook", "follow"} => slot[p[K]].next = p[K] + 1
  /\ pc \in {"link", "hook", "follow", "close"} => slot[p[K] + 1].lineno = End

\* The links of the path: those before c and behind it are as they were, the one in
\* between leads to the new record at last.
Links(p, K, c) ==
  /\ c > 0 => top = p[0]
  /\ \A i \in 0 .. K - 1 : i # c - 1 => slot[p[i]].next = p[i + 1]
  /\ LET joint == IF c = 0 THEN top ELSE slot[p[c - 1]].next
     IN  joint = IF pc \in {"follow", "close"} THEN p[K] ELSE p[c]
  /\ pc \in {"hook", "follow", "close"} => la = p[c]
  /\ pc \in {"follow", "close"} => c < K
  /\ pc = "close" => slot[p[K]].next = p[c]

Inserting(p, K, c) ==
  /\ Path(p, K) /\ Sorted(p, K, slot) /\ p[K] < Size /\ c \in 0 .. K
  /\ new \in [lineno : Numbers, next : {p[K] + 1}, text : Texts]
  /\ \A n \in LineNos \ {new.lineno} : Shown(p, K, slot, n, before[n])
  /\ Place(p, K, c) /\ Record(p, K) /\ Links(p, K, c)

BusyInv ==
  ~Resting => ~damaged /\ \E K \in 0 .. Size - 1 : \E p \in [0 .. K -> Slots] :
                            \E c \in 0 .. K : Inserting(p, K, c)

Inv == TypeOK /\ RestInv /\ BusyInv

LEMMA SameRecords ==
  ASSUME NEW p, NEW K, NEW s, NEW s2,
         \A i \in 0 .. K - 1 : /\ s2[p[i]].lineno = s[p[i]].lineno
                               /\ s2[p[i]].text = s[p[i]].text
  PROVE  /\ Sorted(p, K, s) => Sorted(p, K, s2)
         /\ \A n, v : Shown(p, K, s, n, v) => Shown(p, K, s2, n, v)
BY DEF Sorted, Shown

SlotType == [lineno : LineNos \cup {End, Deleted}, next : Slots \cup {Nowhere},
             text : Texts \cup {Missing}]

\* What a store into one field does to a record.
LEMMA StoresNumber ==
  ASSUME NEW s \in [Slots -> SlotType], NEW a \in Slots, NEW x \in LineNos \cup {End, Deleted},
         NEW s2, s2 = [s EXCEPT ![a].lineno = x]
  PROVE  /\ s2 \in [Slots -> SlotType]
         /\ s2[a].lineno = x /\ s2[a].next = s[a].next /\ s2[a].text = s[a].text
         /\ \A b \in Slots : b # a => s2[b] = s[b]
BY DEF SlotType

LEMMA StoresNext ==
  ASSUME NEW s \in [Slots -> SlotType], NEW a \in Slots, NEW x \in Slots \cup {Nowhere},
         NEW s2, s2 = [s EXCEPT ![a].next = x]
  PROVE  /\ s2 \in [Slots -> SlotType]
         /\ s2[a].next = x /\ s2[a].lineno = s[a].lineno /\ s2[a].text = s[a].text
         /\ \A b \in Slots : b # a => s2[b] = s[b]
BY DEF SlotType

LEMMA StoresRecord ==
  ASSUME NEW s \in [Slots -> SlotType], NEW a \in Slots, NEW x \in SlotType,
         NEW s2, s2 = [s EXCEPT ![a] = x]
  PROVE  /\ s2 \in [Slots -> SlotType] /\ s2[a] = x
         /\ \A b \in Slots : b # a => s2[b] = s[b]
OBVIOUS

LEMMA InsertFacts ==
  ASSUME TypeOK, NEW p, NEW K, NEW c, Inserting(p, K, c)
  PROVE  /\ K \in Nat /\ c \in 0 .. K
         /\ p[K] \in Slots /\ p[K] + 1 \in Slots /\ p[K] + 1 # p[K]
         /\ \A i \in 0 .. K : p[i] \in Slots /\ p[i] # p[K] + 1
         /\ \A i \in 0 .. K - 1 : p[i] # p[K]
         /\ \A i, j \in 0 .. K : p[i] = p[j] => i = j
         /\ new.lineno \in Numbers /\ new.lineno \in LineNos /\ new.next = p[K] + 1
         /\ new.text \in Texts /\ new \in SlotType
         /\ psize \in Slots /\ slot \in [Slots -> SlotType]
         /\ pc \notin {"number", "body"} => psize = p[K] + 1 /\ srt = p[K]
         /\ pc \in {"number", "body"} => psize = p[K]
         /\ \A i \in 0 .. K - 1 : slot[p[i]].lineno \in Nat
<1>1. K \in Nat /\ c \in 0 .. K /\ p[K] < Size
  BY DEF Inserting, Path
<1>2. /\ p[K] \in Slots /\ \A i \in 0 .. K : p[i] \in Slots /\ p[i] \in Int /\ p[i] <= p[K]
      /\ \A i, j \in 0 .. K : p[i] = p[j] => i = j
  BY PathFacts DEF Inserting, Path
<1>3. p[K] + 1 \in Slots /\ p[K] + 1 # p[K] /\ \A i \in 0 .. K : p[i] # p[K] + 1
  BY <1>1, <1>2, SizeNat DEF Slots
<1>4. \A i \in 0 .. K - 1 : p[i] # p[K]
  BY <1>1, <1>2
<1>5. /\ new.lineno \in Numbers /\ new.lineno \in LineNos /\ new.next = p[K] + 1
      /\ new.text \in Texts /\ new \in SlotType
  BY <1>3, NumberFacts DEF Inserting, SlotType
<1>6. psize = IF pc \in {"number", "body"} THEN p[K] ELSE p[K] + 1
  BY DEF Inserting, Record
<1>7. slot \in [Slots -> SlotType]
  BY DEF TypeOK, SlotType
<1>8. \A i \in 0 .. K - 1 : slot[p[i]].lineno \in Nat
  BY NumberFacts DEF Inserting, Sorted
<1>9. pc \notin {"number", "body"} => srt = p[K]
  BY <1>1, <1>2, <1>6 DEF srt
<1>10. psize \in Slots
  BY <1>2, <1>3, <1>6
<1>11. QED BY <1>1, <1>2, <1>3, <1>4, <1>5, <1>6, <1>7, <1>8, <1>9, <1>10

\* The parts of insertln that do not end it.
LEMMA NumberWritten ==
  ASSUME TypeOK, NEW p, NEW K, NEW c, Inserting(p, K, c), WriteNumber
  PROVE  TypeOK' /\ Inserting(p, K, c)'
<1> USE InsertFacts DEF Inserting
<1>1. /\ pc = "number" /\ pc' = "body" /\ UNCHANGED <<top, psize, pll, new, nxt, la, before>>
      /\ slot' = [slot EXCEPT ![psize].lineno = new.lineno] /\ psize = p[K]
  BY DEF WriteNumber, GoTo, ram
<1>2. /\ slot' \in [Slots -> SlotType]
      /\ slot'[p[K]].lineno = new.lineno
      /\ \A i \in 0 .. K - 1 : slot'[p[i]] = slot[p[i]]
  BY <1>1, StoresNumber
<1>3. Sorted(p, K, slot') /\ \A n, v : Shown(p, K, slot, n, v) => Shown(p, K, slot', n, v)
  BY <1>2, SameRecords
<1>4. Place(p, K, c)'
  BY <1>1, <1>2 DEF Place
<1>5. Record(p, K)'
  BY <1>1, <1>2 DEF Record
<1>6. Links(p, K, c)'
  BY <1>1, <1>2 DEF Links
<1>7. TypeOK'
  BY <1>1, <1>2 DEF TypeOK, SlotType
<1>8. QED BY <1>1, <1>3, <1>4, <1>5, <1>6, <1>7

LEMMA BodyWritten ==
  ASSUME TypeOK, NEW p, NEW K, NEW c, Inserting(p, K, c), WriteBody
  PROVE  TypeOK' /\ Inserting(p, K, c)'
<1> USE InsertFacts DEF Inserting
<1>1. /\ pc = "body" /\ pc' = "end" /\ UNCHANGED <<top, pll, new, nxt, la, before>>
      /\ slot' = [slot EXCEPT ![psize] = new] /\ psize = p[K] /\ psize' = p[K] + 1
  BY DEF WriteBody, GoTo
<1>2. /\ slot' \in [Slots -> SlotType]
      /\ slot'[p[K]] = new
      /\ \A i \in 0 .. K - 1 : slot'[p[i]] = slot[p[i]]
  BY <1>1, StoresRecord
<1>3. Sorted(p, K, slot') /\ \A n, v : Shown(p, K, slot, n, v) => Shown(p, K, slot', n, v)
  BY <1>2, SameRecords
<1>4. Place(p, K, c)'
  BY <1>1, <1>2 DEF Place
<1>5. Record(p, K)'
  BY <1>1, <1>2 DEF Record
<1>6. Links(p, K, c)'
  BY <1>1, <1>2 DEF Links
<1>7. TypeOK'
  BY <1>1, <1>2 DEF TypeOK, SlotType
<1>8. QED BY <1>1, <1>3, <1>4, <1>5, <1>6, <1>7

LEMMA EndWritten ==
  ASSUME TypeOK, NEW p, NEW K, NEW c, Inserting(p, K, c), WriteEnd, nxt # Nowhere
  PROVE  TypeOK' /\ Inserting(p, K, c)' /\ pc' = "link" /\ UNCHANGED <<before, new>>
<1> USE InsertFacts DEF Inserting
<1>1. /\ pc = "end" /\ pc' = "link" /\ UNCHANGED <<top, psize, pll, new, nxt, la, before>>
      /\ slot' = [slot EXCEPT ![psize].lineno = End] /\ psize = p[K] + 1
  BY DEF WriteEnd, GoTo
<1>a. p[K] + 1 \in Slots /\ slot \in [Slots -> SlotType] /\ End \in LineNos \cup {End, Deleted}
  OBVIOUS
<1>b. \A i \in 0 .. K : p[i] \in Slots /\ p[i] # p[K] + 1
  OBVIOUS
<1>2. /\ slot' \in [Slots -> SlotType]
      /\ slot'[p[K] + 1].lineno = End
      /\ \A i \in 0 .. K : slot'[p[i]] = slot[p[i]]
  <2> HIDE InsertFacts DEF Inserting
  <2>1. psize \in Slots /\ slot' = [slot EXCEPT ![psize].lineno = End]
    BY <1>1, <1>a
  <2>2. /\ slot' \in [Slots -> SlotType] /\ slot'[psize].lineno = End
        /\ \A b \in Slots : b # psize => slot'[b] = slot[b]
    BY <1>a, <2>1, StoresNumber
  <2>3. QED BY <1>1, <1>a, <1>b, <2>2
<1>3. Sorted(p, K, slot') /\ \A n, v : Shown(p, K, slot, n, v) => Shown(p, K, slot', n, v)
  BY <1>2, SameRecords
<1>4. Place(p, K, c)'
  BY <1>1, <1>2 DEF Place
<1>5. Record(p, K)'
  BY <1>1, <1>2 DEF Record
<1>6. Links(p, K, c)'
  BY <1>1, <1>2 DEF Links
<1>7. TypeOK'
  BY <1>1, <1>2 DEF TypeOK, SlotType
<1>8. QED BY <1>1, <1>3, <1>4, <1>5, <1>6, <1>7

\* A number taken from one record leaves the others in order and what they show.
LEMMA Unlinked ==
  ASSUME NEW p, NEW K, NEW s, NEW s2, NEW m \in LineNos, NEW k \in 0 .. K - 1,
         Path(p, K), Sorted(p, K, s), s[p[k]].lineno = m,
         \A i \in 0 .. K - 1 : /\ s2[p[i]].text = s[p[i]].text
                               /\ s2[p[i]].lineno = IF i = k THEN Deleted ELSE s[p[i]].lineno
  PROVE  /\ Sorted(p, K, s2)
         /\ \A n \in LineNos \ {m} : \A v : Shown(p, K, s, n, v) => Shown(p, K, s2, n, v)
         /\ Shown(p, K, s2, m, Missing)
<1>1. \A i \in 0 .. K - 1 : s[p[i]].lineno \in Nat
  BY NumberFacts DEF Sorted
<1>2. \A i, j \in 0 .. K - 1 : s[p[i]].lineno = m /\ s[p[j]].lineno = m => i = j
  <2> SUFFICES ASSUME NEW i \in 0 .. K - 1, NEW j \in 0 .. K - 1,
                      s[p[i]].lineno = m, s[p[j]].lineno = m
               PROVE  i = j
    OBVIOUS
  <2>1. ~(i < j) /\ ~(j < i)
    BY NumberFacts DEF Sorted
  <2>2. QED BY <2>1
<1>3. Sorted(p, K, s2)
  BY <1>1, NumberFacts DEF Sorted
<1>4. \A n \in LineNos \ {m} : \A v : Shown(p, K, s, n, v) => Shown(p, K, s2, n, v)
  BY NumberFacts DEF Shown
<1>5. Shown(p, K, s2, m, Missing)
  BY <1>2, NumberFacts DEF Shown
<1>6. QED BY <1>3, <1>4, <1>5

LEMMA OldUnlinked ==
  ASSUME TypeOK, NEW p, NEW K, NEW c, Inserting(p, K, c), UnlinkOld
  PROVE  TypeOK' /\ Inserting(p, K, c)'
<1> USE InsertFacts DEF Inserting
<1>1. /\ pc = "link" /\ pc' = "hook" /\ UNCHANGED <<top, psize, pll, new, nxt, before>>
      /\ la' = IF nxt = Top THEN top ELSE slot[nxt].next
      /\ slot' = IF IsEdit THEN [slot EXCEPT ![nxt].lineno = Deleted] ELSE slot
  BY DEF UnlinkOld, GoTo, ram
<1>2. K > 0 /\ pll = p[K - 1] /\ nxt = IF c = 0 THEN Top ELSE p[c - 1]
  BY <1>1 DEF Place
<1>3. c > 0 => c - 1 \in 0 .. K - 1 /\ p[c - 1] \in Slots /\ nxt = p[c - 1] /\ nxt # Top
  BY <1>2, SizeNat DEF Slots, Top
<1>4. la' = p[c] /\ p[c] \in Slots
  BY <1>1, <1>2, <1>3 DEF Links
<1>5. IsEdit <=> c > 0 /\ slot[p[c - 1]].lineno = new.lineno
  BY <1>2, <1>3 DEF IsEdit
<1>6. /\ slot' \in [Slots -> SlotType]
      /\ slot'[p[K]] = slot[p[K]] /\ slot'[p[K] + 1] = slot[p[K] + 1]
      /\ \A i \in 0 .. K - 1 :
           /\ slot'[p[i]].text = slot[p[i]].text /\ slot'[p[i]].next = slot[p[i]].next
           /\ slot'[p[i]].lineno = IF IsEdit /\ i = c - 1 THEN Deleted ELSE slot[p[i]].lineno
  <2>1. CASE IsEdit
    <3>1. /\ slot' \in [Slots -> SlotType]
          /\ slot'[nxt].lineno = Deleted /\ slot'[nxt].next = slot[nxt].next /\ slot'[nxt].text = slot[nxt].text
          /\ \A b \in Slots : b # nxt => slot'[b] = slot[b]
      <4>1. /\ nxt \in Slots /\ Deleted \in LineNos \cup {End, Deleted}
            /\ slot' = [slot EXCEPT ![nxt].lineno = Deleted]
        BY <1>1, <1>3, <1>5, <2>1
      <4>2. slot \in [Slots -> SlotType]
        OBVIOUS
      <4> HIDE InsertFacts DEF Inserting
      <4>3. \A x \in LineNos \cup {End, Deleted} : \A s2 : s2 = [slot EXCEPT ![nxt].lineno = x] =>
              /\ s2 \in [Slots -> SlotType]
              /\ s2[nxt].lineno = x /\ s2[nxt].next = slot[nxt].next /\ s2[nxt].text = slot[nxt].text
              /\ \A b \in Slots : b # nxt => s2[b] = slot[b]
        BY <4>1, <4>2, StoresNumber
      <4>4. QED BY <4>1, <4>3, Zenon
    <3>2. nxt = p[c - 1] /\ c - 1 \in 0 .. K - 1 /\ p[K] # nxt /\ p[K] + 1 # nxt
      BY <1>3, <1>5, <2>1
    <3>3. \A i \in 0 .. K - 1 : i # c - 1 => p[i] # nxt
      BY <3>2
    <3>4. QED BY <2>1, <3>1, <3>2, <3>3
  <2>2. CASE ~IsEdit
    BY <1>1, <2>2
  <2>3. QED BY <2>1, <2>2
<1>7. /\ Sorted(p, K, slot')
      /\ \A n \in LineNos \ {new.lineno} : \A v : Shown(p, K, slot, n, v) => Shown(p, K, slot', n, v)
  <2>1. CASE IsEdit
    <3>1. c - 1 \in 0 .. K - 1 /\ slot[p[c - 1]].lineno = new.lineno
      BY <1>3, <1>5, <2>1
    <3>2. \A i \in 0 .. K - 1 :
            /\ slot'[p[i]].text = slot[p[i]].text
            /\ slot'[p[i]].lineno = IF i = c - 1 THEN Deleted ELSE slot[p[i]].lineno
      BY <1>6, <2>1
    <3>3. Path(p, K) /\ Sorted(p, K, slot) /\ new.lineno \in LineNos
      OBVIOUS
    <3> HIDE InsertFacts DEF Inserting
    <3>4. QED BY <3>1, <3>2, <3>3, Unlinked
  <2>2. CASE ~IsEdit
    BY <1>6, <2>2, SameRecords
  <2>3. QED BY <2>1, <2>2
<1>8. Place(p, K, c)'
  <2>1. ASSUME NEW i \in 0 .. c - 1 PROVE slot'[p[i]].lineno < new.lineno
    <3>1. i \in 0 .. K - 1
      OBVIOUS
    <3>2. CASE slot[p[i]].lineno < new.lineno
      BY <1>6, <3>1, <3>2, NumberFacts
    <3>3. CASE i = c - 1 /\ slot[p[i]].lineno = new.lineno
      BY <1>5, <1>6, <3>1, <3>3, NumberFacts
    <3>4. QED BY <3>2, <3>3 DEF Place
  <2>2. \A i \in c .. K - 1 : slot'[p[i]].lineno = Deleted \/ slot'[p[i]].lineno > new.lineno
    BY <1>6 DEF Place
  <2>3. QED BY <1>1, <1>2, <2>1, <2>2 DEF Place
<1>9. Record(p, K)'
  BY <1>1, <1>6 DEF Record
<1>10. Links(p, K, c)'
  BY <1>1, <1>3, <1>4, <1>6 DEF Links
<1>11. TypeOK'
  BY <1>1, <1>4, <1>6 DEF TypeOK, SlotType
<1>12. QED BY <1>1, <1>7, <1>8, <1>9, <1>10, <1>11

\* The link to the new record: with it, or two steps later, the insertion is done.
LEMMA NewLinked ==
  ASSUME TypeOK, NEW p, NEW K, NEW c, Inserting(p, K, c), LinkNew
  PROVE  /\ TypeOK' /\ UNCHANGED psize
         /\ pc' = IF c = K THEN "ready" ELSE "follow"
         /\ c # K => Inserting(p, K, c)' /\ UNCHANGED <<before, new>>
         /\ top' = (IF c = 0 THEN p[K] ELSE p[0])
         /\ slot'[p[K]] = slot[p[K]] /\ slot'[p[K] + 1] = slot[p[K] + 1]
         /\ \A i \in 0 .. K - 1 :
              /\ slot'[p[i]].lineno = slot[p[i]].lineno /\ slot'[p[i]].text = slot[p[i]].text
              /\ slot'[p[i]].next = IF i = c - 1 THEN p[K] ELSE p[i + 1]
<1> USE InsertFacts DEF Inserting
<1>1. /\ pc = "hook" /\ UNCHANGED <<psize, pll>> /\ srt = p[K]
      /\ IF nxt = Top THEN top' = srt /\ UNCHANGED slot
                      ELSE slot' = [slot EXCEPT ![nxt].next = srt] /\ UNCHANGED top
      /\ IF la = srt THEN Leave("ready") ELSE GoTo("follow") /\ UNCHANGED la
  BY DEF LinkNew, ram
<1>2. K > 0 /\ pll = p[K - 1] /\ nxt = IF c = 0 THEN Top ELSE p[c - 1]
  BY <1>1 DEF Place
<1>3. c > 0 => c - 1 \in 0 .. K - 1 /\ p[c - 1] \in Slots /\ nxt = p[c - 1] /\ nxt # Top
  BY <1>2, SizeNat DEF Slots, Top
<1>4. la = srt <=> c = K
  BY <1>1 DEF Links
<1>5. /\ slot' \in [Slots -> SlotType]
      /\ slot'[p[K]] = slot[p[K]] /\ slot'[p[K] + 1] = slot[p[K] + 1]
      /\ \A i \in 0 .. K - 1 :
           /\ slot'[p[i]].text = slot[p[i]].text /\ slot'[p[i]].lineno = slot[p[i]].lineno
           /\ slot'[p[i]].next = IF i = c - 1 THEN p[K] ELSE p[i + 1]
      /\ top' = IF c = 0 THEN p[K] ELSE p[0]
  <2>1. \A i \in 0 .. K - 1 : i # c - 1 => slot[p[i]].next = p[i + 1]
    BY DEF Links
  <2>2. CASE c > 0
    <3>1. /\ slot' \in [Slots -> SlotType]
          /\ slot'[nxt].lineno = slot[nxt].lineno /\ slot'[nxt].next = p[K]
          /\ slot'[nxt].text = slot[nxt].text
          /\ \A b \in Slots : b # nxt => slot'[b] = slot[b]
      BY <1>1, <1>3, <2>2, StoresNext
    <3>2. nxt = p[c - 1] /\ c - 1 \in 0 .. K - 1 /\ p[K] # nxt /\ p[K] + 1 # nxt
      BY <1>3, <2>2
    <3>3. \A i \in 0 .. K - 1 : i # c - 1 => p[i] # nxt
      BY <3>2
    <3>4. top' = p[0]
      BY <1>1, <1>3, <2>2 DEF Links
    <3>5. QED BY <2>1, <2>2, <3>1, <3>2, <3>3, <3>4
  <2>3. CASE c = 0
    BY <1>1, <1>2, <2>1, <2>3
  <2>4. QED BY <2>2, <2>3
<1>6. TypeOK'
  <2>1. top' \in Slots \cup {Nowhere}
    BY <1>5
  <2>2. slot' \in [Slots -> [lineno : LineNos \cup {End, Deleted},
                             next : Slots \cup {Nowhere}, text : Texts \cup {Missing}]]
    BY <1>5 DEF SlotType
  <2>3. CASE c = K
    <3>1. /\ pc' = "ready" /\ nxt' = Nowhere /\ la' = Nowhere /\ before' = NoLines
      BY <1>1, <1>4, <2>3 DEF Leave
    <3>2. QED BY <1>1, <2>1, <2>2, <3>1 DEF TypeOK, NoLines
  <2>4. CASE c # K
    BY <1>1, <1>4, <2>1, <2>2, <2>4 DEF TypeOK, GoTo
  <2>5. QED BY <2>3, <2>4
<1>7. ASSUME c # K PROVE Inserting(p, K, c)' /\ UNCHANGED <<before, new>>
  <2>1. pc' = "follow" /\ UNCHANGED <<new, nxt, before, la>>
    BY <1>1, <1>4, <1>7 DEF GoTo
  <2>2. Sorted(p, K, slot') /\ \A n, v : Shown(p, K, slot, n, v) => Shown(p, K, slot', n, v)
    BY <1>5, SameRecords
  <2>3. Place(p, K, c)'
    BY <1>1, <1>2, <1>5, <2>1 DEF Place
  <2>4. Record(p, K)'
    BY <1>1, <1>5, <2>1 DEF Record
  <2>5. Links(p, K, c)'
    BY <1>1, <1>3, <1>5, <1>7, <2>1 DEF Links
  <2>6. QED BY <2>1, <2>2, <2>3, <2>4, <2>5
<1>8. pc' = IF c = K THEN "ready" ELSE "follow"
  BY <1>1, <1>4 DEF Leave, GoTo
<1>9. QED BY <1>1, <1>5, <1>6, <1>7, <1>8

LEMMA RestLinked ==
  ASSUME TypeOK, NEW p, NEW K, NEW c, Inserting(p, K, c), LinkRest
  PROVE  TypeOK' /\ Inserting(p, K, c)'
<1> USE InsertFacts DEF Inserting
<1>1. /\ pc = "follow" /\ pc' = "close" /\ UNCHANGED <<top, psize, pll, new, nxt, la, before>>
      /\ slot' = [slot EXCEPT ![srt].next = la] /\ srt = p[K]
  BY DEF LinkRest, GoTo, ram
<1>2. la = p[c] /\ la \in Slots /\ c < K
  BY <1>1 DEF Links
<1>3. /\ slot' \in [Slots -> SlotType]
      /\ slot'[p[K]].next = p[c] /\ slot'[p[K]].lineno = slot[p[K]].lineno
      /\ slot'[p[K]].text = slot[p[K]].text
      /\ \A b \in Slots : b # p[K] => slot'[b] = slot[b]
  BY <1>1, <1>2, StoresNext
<1>4. slot'[p[K] + 1] = slot[p[K] + 1] /\ \A i \in 0 .. K - 1 : slot'[p[i]] = slot[p[i]]
  BY <1>3
<1>5. Sorted(p, K, slot') /\ \A n, v : Shown(p, K, slot, n, v) => Shown(p, K, slot', n, v)
  BY <1>4, SameRecords
<1>6. Place(p, K, c)'
  BY <1>1, <1>4 DEF Place
<1>7. Record(p, K)'
  BY <1>1, <1>3, <1>4 DEF Record
<1>8. Links(p, K, c)'
  BY <1>1, <1>2, <1>3, <1>4 DEF Links
<1>9. TypeOK'
  BY <1>1, <1>3 DEF TypeOK, SlotType
<1>10. QED BY <1>1, <1>5, <1>6, <1>7, <1>8, <1>9

-----------------------------------------------------------------------------
\* When all links are written the list shows what it did, and the new line.
LEMMA Entered ==
  ASSUME TypeOK, NEW p, NEW K, NEW c, Inserting(p, K, c),
         \A i \in 0 .. c - 1 : slot[p[i]].lineno < new.lineno,
         top' = (IF c = 0 THEN p[K] ELSE p[0]),
         \A i \in 0 .. K - 1 :
           /\ slot'[p[i]].lineno = slot[p[i]].lineno /\ slot'[p[i]].text = slot[p[i]].text
           /\ slot'[p[i]].next = IF i = c - 1 THEN p[K] ELSE IF i = K - 1 THEN p[K] + 1 ELSE p[i + 1],
         slot'[p[K]].lineno = new.lineno, slot'[p[K]].text = new.text,
         slot'[p[K]].next = (IF c = K THEN p[K] + 1 ELSE p[c]),
         slot'[p[K] + 1].lineno = End
  PROVE  /\ Program(Grown(p, K, c), K + 1, top', slot')
         /\ Grown(p, K, c)[K + 1] = p[K] + 1
         /\ Lines' = [before EXCEPT ![new.lineno] = new.text]
<1> DEFINE g == Grown(p, K, c)
<1>1. /\ K \in Nat /\ c \in 0 .. K /\ Path(p, K) /\ p[K] < Size
      /\ new.lineno \in Numbers /\ new.lineno \in LineNos /\ new.text \in Texts
      /\ top' \in Int
  <2>1. K \in Nat /\ p[0] \in Slots /\ p[K] \in Slots
    BY InsertFacts
  <2>2. top' \in Int
    BY <2>1, SizeNat
  <2>3. QED BY <2>2, InsertFacts DEF Inserting
<1>2. \A i \in c .. K - 1 : slot'[p[i]].lineno = Deleted \/ slot'[p[i]].lineno > new.lineno
  BY <1>1 DEF Inserting, Place
<1>3. \A i \in 0 .. c - 1 : slot'[p[i]].lineno < new.lineno
  BY <1>1
<1>4. /\ Sorted(p, K, slot')
      /\ \A n \in LineNos \ {new.lineno} : Shown(p, K, slot', n, before[n])
  BY SameRecords DEF Inserting
<1>5. /\ Program(g, K + 1, top', slot')
      /\ \A n \in LineNos : \A v :
           Shown(g, K + 1, slot', n, v) =>
             IF n = new.lineno THEN v = slot'[p[K]].text ELSE Shown(p, K, slot', n, v)
  BY <1>1, <1>2, <1>3, <1>4, GrownProgram
<1> HIDE DEF g
<1>6. Lines' = LinesOf(top', slot')
  BY OfNext
<1>7. \A n \in LineNos : Shown(g, K + 1, slot', n, Lines'[n])
  BY <1>5, <1>6, LinesShown
<1>8. ASSUME NEW n \in LineNos
      PROVE  Lines'[n] = [before EXCEPT ![new.lineno] = new.text][n]
  <2>1. before \in [LineNos -> Texts \cup {Missing}]
    BY DEF TypeOK
  <2>2. CASE n = new.lineno
    BY <1>1, <1>5, <1>7, <2>1, <2>2
  <2>3. CASE n # new.lineno
    <3>1. Shown(p, K, slot', n, Lines'[n]) /\ Shown(p, K, slot', n, before[n])
      BY <1>4, <1>5, <1>7, <2>3
    <3>2. Lines'[n] = before[n]
      BY <1>1, <1>4, <3>1, ShownOnce
    <3>3. QED BY <2>1, <2>3, <3>2
  <2>4. QED BY <2>2, <2>3
<1>9. Lines' = [n \in LineNos |-> Lines'[n]]
  BY <1>1, <1>6, LinesDomain
<1>10. [before EXCEPT ![new.lineno] = new.text]
         = [n \in LineNos |-> [before EXCEPT ![new.lineno] = new.text][n]]
  BY DEF TypeOK
<1>11. Lines' = [before EXCEPT ![new.lineno] = new.text]
  BY <1>8, <1>9, <1>10, Zenon
<1>12. g[K + 1] = p[K] + 1
  BY <1>1, GrownIs DEF g
<1>13. QED BY <1>5, <1>11, <1>12 DEF g

Done(p, K, c) ==
  /\ TypeOK' /\ pc' = "ready" /\ psize' = p[K] + 1
  /\ Program(Grown(p, K, c), K + 1, top', slot')
  /\ Grown(p, K, c)[K + 1] = p[K] + 1
  /\ Lines' = [before EXCEPT ![new.lineno] = new.text]

LEMMA DoneAtTheEnd ==
  ASSUME TypeOK, NEW p, NEW K, NEW c, Inserting(p, K, c), WriteEnd, nxt = Nowhere
  PROVE  Done(p, K, c)
<1> USE InsertFacts
<1>1. /\ pc = "end" /\ UNCHANGED <<top, psize>> /\ psize = p[K] + 1 /\ srt = p[K]
      /\ slot' = [slot EXCEPT ![psize].lineno = End] /\ pll' = srt
      /\ pc' = "ready" /\ nxt' = Nowhere /\ la' = Nowhere /\ before' = NoLines
  BY DEF WriteEnd, Leave, AppendDone
<1>2. c = K /\ \A i \in 0 .. c - 1 : slot[p[i]].lineno < new.lineno
  <2>1. \A i \in 0 .. K : nxt # p[i]
    BY SizeNat DEF Slots, Nowhere
  <2>2. nxt # Top
    BY DEF Top, Nowhere
  <2>3. c = K
    BY <2>1, <2>2 DEF Inserting, Place
  <2>4. QED BY <2>1, <2>3 DEF Inserting, Place
<1>a. psize \in Slots /\ slot \in [Slots -> SlotType] /\ End \in LineNos \cup {End, Deleted}
  BY <1>1
<1>3. /\ slot' \in [Slots -> SlotType] /\ slot'[psize].lineno = End
      /\ \A b \in Slots : b # psize => slot'[b] = slot[b]
  <2> HIDE InsertFacts
  <2>1. \A x \in LineNos \cup {End, Deleted} : \A s2 : s2 = [slot EXCEPT ![psize].lineno = x] =>
          /\ s2 \in [Slots -> SlotType] /\ s2[psize].lineno = x
          /\ \A b \in Slots : b # psize => s2[b] = slot[b]
    BY <1>a, StoresNumber
  <2>2. QED BY <1>1, <1>a, <2>1, Zenon
<1>4. \A i \in 0 .. K : slot'[p[i]] = slot[p[i]]
  BY <1>1, <1>3
<1>5. \A i \in 0 .. K - 1 :
        /\ slot'[p[i]].lineno = slot[p[i]].lineno /\ slot'[p[i]].text = slot[p[i]].text
        /\ slot'[p[i]].next = IF i = c - 1 THEN p[K] ELSE IF i = K - 1 THEN p[K] + 1 ELSE p[i + 1]
  BY <1>2, <1>4 DEF Inserting, Links
<1>6. top' = IF c = 0 THEN p[K] ELSE p[0]
  BY <1>1, <1>2 DEF Inserting, Links
<1>7. /\ slot'[p[K]].lineno = new.lineno /\ slot'[p[K]].text = new.text
      /\ slot'[p[K]].next = IF c = K THEN p[K] + 1 ELSE p[c]
      /\ slot'[p[K] + 1].lineno = End
  BY <1>1, <1>2, <1>3, <1>4 DEF Inserting, Record
<1>8. TypeOK'
  BY <1>1, <1>3 DEF TypeOK, SlotType, NoLines
<1>9. /\ Program(Grown(p, K, c), K + 1, top', slot')
      /\ Grown(p, K, c)[K + 1] = p[K] + 1
      /\ Lines' = [before EXCEPT ![new.lineno] = new.text]
  BY <1>2, <1>5, <1>6, <1>7, Entered
<1>10. QED BY <1>1, <1>8, <1>9 DEF Done

LEMMA DoneAtOnce ==
  ASSUME TypeOK, NEW p, NEW K, NEW c, Inserting(p, K, c), LinkNew, c = K
  PROVE  Done(p, K, c)
<1> USE InsertFacts
<1>1. pc = "hook"
  BY DEF LinkNew
<1>2. /\ TypeOK' /\ UNCHANGED psize /\ pc' = "ready" /\ psize = p[K] + 1
      /\ top' = IF c = 0 THEN p[K] ELSE p[0]
      /\ slot'[p[K]] = slot[p[K]] /\ slot'[p[K] + 1] = slot[p[K] + 1]
      /\ \A i \in 0 .. K - 1 :
           /\ slot'[p[i]].lineno = slot[p[i]].lineno /\ slot'[p[i]].text = slot[p[i]].text
           /\ slot'[p[i]].next = IF i = c - 1 THEN p[K] ELSE p[i + 1]
  BY <1>1, NewLinked
<1>3. \A i \in 0 .. c - 1 : slot[p[i]].lineno < new.lineno
  BY <1>1 DEF Inserting, Place
<1>4. /\ slot[p[K]].lineno = new.lineno /\ slot[p[K]].text = new.text
      /\ slot[p[K]].next = p[K] + 1 /\ slot[p[K] + 1].lineno = End
  BY <1>1 DEF Inserting, Record
<1>5. /\ Program(Grown(p, K, c), K + 1, top', slot')
      /\ Grown(p, K, c)[K + 1] = p[K] + 1
      /\ Lines' = [before EXCEPT ![new.lineno] = new.text]
  BY <1>2, <1>3, <1>4, Entered
<1>6. QED BY <1>2, <1>5 DEF Done

LEMMA DoneWithRest ==
  ASSUME TypeOK, NEW p, NEW K, NEW c, Inserting(p, K, c), LinkEnd
  PROVE  Done(p, K, c)
<1> USE InsertFacts
<1>1. /\ pc = "close" /\ UNCHANGED <<top, psize, pll>> /\ slot' = PointedToEnd
      /\ pc' = "ready" /\ nxt' = Nowhere /\ la' = Nowhere /\ before' = NoLines
      /\ psize = p[K] + 1
  BY DEF LinkEnd, Leave, ram
<1>2. K > 0 /\ pll = p[K - 1] /\ c < K /\ K - 1 \in 0 .. K - 1
  BY <1>1 DEF Inserting, Place, Links
<1>3. /\ slot' \in [Slots -> SlotType]
      /\ slot'[pll].next = p[K] + 1 /\ slot'[pll].lineno = slot[pll].lineno
      /\ slot'[pll].text = slot[pll].text
      /\ \A b \in Slots : b # pll => slot'[b] = slot[b]
  <2>1. /\ pll \in Slots /\ psize \in Slots \cup {Nowhere} /\ slot \in [Slots -> SlotType]
        /\ slot' = [slot EXCEPT ![pll].next = psize]
    BY <1>1, <1>2 DEF PointedToEnd
  <2> HIDE InsertFacts
  <2>2. QED BY <1>1, <2>1, StoresNext
<1>4. /\ slot'[p[K]] = slot[p[K]] /\ slot'[p[K] + 1] = slot[p[K] + 1]
      /\ \A i \in 0 .. K - 1 : i # K - 1 => slot'[p[i]] = slot[p[i]]
  BY <1>2, <1>3
<1>5. \A i \in 0 .. K - 1 :
        /\ slot'[p[i]].lineno = slot[p[i]].lineno /\ slot'[p[i]].text = slot[p[i]].text
        /\ slot'[p[i]].next = IF i = c - 1 THEN p[K] ELSE IF i = K - 1 THEN p[K] + 1 ELSE p[i + 1]
  <2>1. \A i \in 0 .. K - 1 : slot[p[i]].next = IF i = c - 1 THEN p[K] ELSE p[i + 1]
    BY <1>1 DEF Inserting, Links
  <2>2. QED BY <1>2, <1>3, <1>4, <2>1
<1>6. top' = IF c = 0 THEN p[K] ELSE p[0]
  BY <1>1 DEF Inserting, Links
<1>7. /\ slot[p[K]].lineno = new.lineno /\ slot[p[K]].text = new.text
      /\ slot[p[K]].next = p[c] /\ slot[p[K] + 1].lineno = End
  BY <1>1 DEF Inserting, Record, Links
<1>8. \A i \in 0 .. c - 1 : slot[p[i]].lineno < new.lineno
  BY <1>1 DEF Inserting, Place
<1>9. TypeOK'
  BY <1>1, <1>3 DEF TypeOK, SlotType, NoLines
<1>10. /\ Program(Grown(p, K, c), K + 1, top', slot')
       /\ Grown(p, K, c)[K + 1] = p[K] + 1
       /\ Lines' = [before EXCEPT ![new.lineno] = new.text]
  BY <1>2, <1>4, <1>5, <1>6, <1>7, <1>8, Entered
<1>11. QED BY <1>1, <1>9, <1>10 DEF Done

-----------------------------------------------------------------------------
(***************************************************************************)
(* What happens between the insertions.                                    *)
(***************************************************************************)
\* The user enters and deletes lines with regard.
Careful == "inserts" \notin Careless /\ "deletes" \notin Careless

LEMMA LinesTyped ==
  ASSUME NEW p, NEW K, NEW t, NEW s, Program(p, K, t, s)
  PROVE  LinesOf(t, s) \in [LineNos -> Texts \cup {Missing}]
<1>1. t \in Int
  BY PathFacts DEF Program, Linked, Path
<1>2. ASSUME NEW n \in LineNos PROVE LinesOf(t, s)[n] \in Texts \cup {Missing}
  BY LinesShown, NumberFacts DEF Program, Shown, Sorted
<1>3. QED BY <1>1, <1>2, LinesDomain

LEMMA Begun ==
  ASSUME Careful, TypeOK, RestInv, NEW n \in LineNos, NEW t \in Texts, InsertLn(n, t)
  PROVE  /\ TypeOK' /\ RestInv' /\ BusyInv'
         /\ pc' = "number" /\ before' = Lines /\ new'.lineno = n
<1>1. /\ pc = "ready" /\ ~damaged /\ n \notin EndLike /\ (FindLn(n) # Nowhere => pll = Last)
      /\ psize \in 1 .. Size - 1
  BY DEF InsertLn, SafeToInsert, Careful
<1>2. /\ new' = [lineno |-> n, next |-> psize + 1, text |-> t]
      /\ nxt' = FindLn(n) /\ before' = Lines /\ pc' = "number"
      /\ UNCHANGED <<top, slot, psize, pll, la, damaged>>
  BY DEF InsertLn, NextFree, eeprom, ram
<1>3. PICK K \in 0 .. Size - 1 : \E p \in [0 .. K -> Slots] :
        Program(p, K, top, slot) /\ psize = p[K]
  BY <1>1 DEF RestInv, Resting
<1>4. PICK p \in [0 .. K -> Slots] : Program(p, K, top, slot) /\ psize = p[K]
  BY <1>3
<1>5. PICK c \in 0 .. K :
           /\ \A i \in 0 .. c - 1 : slot[p[i]].lineno < n
           /\ \A i \in c + 1 .. K - 1 : slot[p[i]].lineno = Deleted \/ slot[p[i]].lineno > n
           /\ c < K => slot[p[c]].lineno = n \/ slot[p[c]].lineno > n
           /\ FindLn(n) = IF c = K THEN Nowhere
                          ELSE IF slot[p[c]].lineno = n THEN p[c]
                          ELSE IF c = 0 THEN Top ELSE p[c - 1]
  BY <1>4, PlaceOf
<1>6. /\ K \in Nat /\ p[K] < Size /\ p[K] \in Nat
      /\ \A i \in 0 .. K : p[i] \in Slots /\ p[i] # Nowhere /\ p[i] # Top
  BY <1>1, <1>4, SizeNat, PathFacts DEF Program, Slots, Nowhere, Top
<1>7. n \in Numbers /\ n \in Nat /\ n > 0
  BY <1>1, NumberFacts DEF Numbers
<1>8. Last = IF K > 0 THEN p[K - 1] ELSE Nowhere
  BY <1>4, EndOfPath
<1>9. Lines = LinesOf(top, slot) /\ Lines \in [LineNos -> Texts \cup {Missing}]
  BY <1>4, OfNow, LinesTyped
<1>10. PICK d \in 0 .. K : d = IF c < K /\ slot[p[c]].lineno = n THEN c + 1 ELSE c
  BY <1>6
<1>11. Place(p, K, d)'
  <2>1. CASE c < K /\ slot[p[c]].lineno = n
    <3>1. /\ d = c + 1 /\ d - 1 = c /\ nxt' = p[c] /\ nxt' # Nowhere /\ pll' = p[K - 1]
          /\ new'.lineno = n /\ slot' = slot
      BY <1>1, <1>2, <1>5, <1>6, <1>8, <1>10, <2>1
    <3>2. \A i \in 0 .. d - 1 : \/ slot[p[i]].lineno < n
                                \/ i = d - 1 /\ p[c] = p[i] /\ slot[p[i]].lineno = n
      <4>1. \A i \in 0 .. d - 1 : i \in 0 .. c - 1 \/ i = c
        BY <3>1
      <4>2. QED BY <1>5, <2>1, <3>1, <4>1
    <3>3. \A i \in d .. K - 1 : slot'[p[i]].lineno = Deleted \/ slot'[p[i]].lineno > new'.lineno
      BY <1>2, <1>5, <3>1
    <3>4. K > 0 /\ nxt' = IF d = 0 THEN Top ELSE p[d - 1]
      BY <1>6, <2>1, <3>1
    <3>5. QED BY <1>2, <3>1, <3>2, <3>3, <3>4 DEF Place
  <2>2. CASE ~(c < K /\ slot[p[c]].lineno = n)
    <3>1. d = c /\ nxt' = FindLn(n)
      BY <1>2, <1>10, <2>2
    <3>2. \A i \in 0 .. c - 1 : slot'[p[i]].lineno < new'.lineno
      BY <1>2, <1>5
    <3>3. \A i \in c .. K - 1 : slot'[p[i]].lineno = Deleted \/ slot'[p[i]].lineno > new'.lineno
      BY <1>2, <1>5, <1>6, <2>2
    <3>4. CASE c = K
      <4>1. nxt' = Nowhere
        BY <1>5, <3>1, <3>4
      <4>2. QED BY <1>2, <3>1, <3>2, <3>3, <3>4, <4>1 DEF Place
    <3>5. CASE c # K
      <4>1. K > 0 /\ nxt' = IF c = 0 THEN Top ELSE p[c - 1]
        BY <1>5, <1>6, <2>2, <3>1, <3>5
      <4>2. nxt' # Nowhere
        BY <1>6, <4>1 DEF Top, Nowhere
      <4>3. pll' = p[K - 1]
        BY <1>1, <1>2, <1>8, <3>1, <4>1, <4>2
      <4>4. QED BY <1>2, <3>1, <3>2, <3>3, <4>1, <4>3 DEF Place
    <3>6. QED BY <3>4, <3>5
  <2>3. QED BY <2>1, <2>2
<1>12. Record(p, K)'
  BY <1>2, <1>4 DEF Record
<1>13. Links(p, K, d)'
  <2>1. \A i \in 0 .. K - 1 : slot[p[i]].next = p[i + 1]
    BY <1>4 DEF Program, Linked
  <2>2. top = p[0]
    BY <1>4 DEF Program, Linked
  <2>3. d > 0 => slot[p[d - 1]].next = p[d]
    BY <1>6, <1>10, <2>1
  <2>4. QED BY <1>2, <1>10, <2>1, <2>2, <2>3 DEF Links
<1>14. \A m \in LineNos : Shown(p, K, slot', m, before'[m])
  BY <1>2, <1>4, <1>9, LinesShown
<1>15. Path(p, K) /\ Sorted(p, K, slot') /\ new' \in [lineno : Numbers, next : {p[K] + 1}, text : Texts]
  BY <1>2, <1>4, <1>7 DEF Program
<1>16. Inserting(p, K, d)'
  BY <1>6, <1>10, <1>11, <1>12, <1>13, <1>14, <1>15 DEF Inserting
<1>17. BusyInv'
  BY <1>1, <1>2, <1>10, <1>16 DEF BusyInv
<1>18. RestInv'
  BY <1>2 DEF RestInv, Resting
<1>19. nxt' \in Slots \cup {Nowhere, Top}
  BY <1>2, <1>5, <1>6
<1>20. TypeOK'
  BY <1>2, <1>9, <1>19 DEF TypeOK
<1>21. QED BY <1>2, <1>17, <1>18, <1>20

LEMMA Deleting ==
  ASSUME Careful, TypeOK, RestInv, NEW n \in LineNos, DeleteLn(n)
  PROVE  /\ TypeOK' /\ RestInv' /\ BusyInv'
         /\ pc = "ready" /\ pc' = "ready" /\ Lines' = [Lines EXCEPT ![n] = Missing]
<1>1. pc = "ready" /\ ~damaged /\ Lines[n] # Missing
  BY DEF DeleteLn, SafeToDelete, Careful
<1>2. PICK K \in 0 .. Size - 1 : \E p \in [0 .. K -> Slots] :
        Program(p, K, top, slot) /\ psize = p[K]
  BY <1>1 DEF RestInv, Resting
<1>3. PICK p \in [0 .. K -> Slots] : Program(p, K, top, slot) /\ psize = p[K]
  BY <1>2
<1>4. /\ K \in Nat
      /\ \A i \in 0 .. K : p[i] \in Slots /\ p[i] # Nowhere /\ p[i] # Top
      /\ \A i, j \in 0 .. K : p[i] = p[j] => i = j
  BY <1>3, SizeNat, PathFacts DEF Program, Path, Slots, Nowhere, Top
<1>5. Lines = LinesOf(top, slot) /\ Lines \in [LineNos -> Texts \cup {Missing}]
  BY <1>3, OfNow, LinesTyped
<1>6. \A m \in LineNos : Shown(p, K, slot, m, Lines[m])
  BY <1>3, <1>5, LinesShown
<1>7. PICK k \in 0 .. K - 1 : slot[p[k]].lineno = n
  BY <1>1, <1>6 DEF Shown
<1>8. FindLn(n) = p[k]
  <2>1. PICK c \in 0 .. K :
           /\ \A i \in 0 .. c - 1 : slot[p[i]].lineno < n
           /\ \A i \in c + 1 .. K - 1 : slot[p[i]].lineno = Deleted \/ slot[p[i]].lineno > n
           /\ c < K => slot[p[c]].lineno = n \/ slot[p[c]].lineno > n
           /\ FindLn(n) = IF c = K THEN Nowhere
                          ELSE IF slot[p[c]].lineno = n THEN p[c]
                          ELSE IF c = 0 THEN Top ELSE p[c - 1]
    BY <1>3, PlaceOf
  <2>2. n \in Nat /\ n # Deleted
    BY NumberFacts
  <2>3. ~(k < c) /\ ~(k > c)
    BY <1>4, <1>7, <2>1, <2>2
  <2>4. k = c
    BY <1>4, <2>3
  <2>5. QED BY <1>4, <1>7, <2>1, <2>4
<1>9. /\ slot' = [slot EXCEPT ![p[k]].lineno = Deleted]
      /\ UNCHANGED <<top, psize, pll, pc, new, nxt, la, before, damaged>>
  BY <1>4, <1>8 DEF DeleteLn, ram, local
<1>10. /\ slot' \in [Slots -> SlotType]
       /\ slot'[p[k]].lineno = Deleted /\ slot'[p[k]].next = slot[p[k]].next
       /\ slot'[p[k]].text = slot[p[k]].text
       /\ \A b \in Slots : b # p[k] => slot'[b] = slot[b]
  <2>1. slot \in [Slots -> SlotType] /\ p[k] \in Slots /\ Deleted \in LineNos \cup {End, Deleted}
    BY <1>4 DEF TypeOK, SlotType
  <2>2. \A x \in LineNos \cup {End, Deleted} : \A s2 : s2 = [slot EXCEPT ![p[k]].lineno = x] =>
          /\ s2 \in [Slots -> SlotType]
          /\ s2[p[k]].lineno = x /\ s2[p[k]].next = slot[p[k]].next /\ s2[p[k]].text = slot[p[k]].text
          /\ \A b \in Slots : b # p[k] => s2[b] = slot[b]
    BY <2>1, StoresNumber
  <2>3. QED BY <1>9, <2>1, <2>2, Zenon
<1>11. /\ slot'[p[K]] = slot[p[K]]
       /\ \A i \in 0 .. K - 1 :
            /\ slot'[p[i]].text = slot[p[i]].text /\ slot'[p[i]].next = slot[p[i]].next
            /\ slot'[p[i]].lineno = IF i = k THEN Deleted ELSE slot[p[i]].lineno
  BY <1>4, <1>10
<1>12. /\ Sorted(p, K, slot')
       /\ \A m \in LineNos \ {n} : \A v : Shown(p, K, slot, m, v) => Shown(p, K, slot', m, v)
       /\ Shown(p, K, slot', n, Missing)
  <2>1. Path(p, K) /\ Sorted(p, K, slot)
    BY <1>3 DEF Program
  <2>2. \A i \in 0 .. K - 1 : /\ slot'[p[i]].text = slot[p[i]].text
                              /\ slot'[p[i]].lineno = IF i = k THEN Deleted ELSE slot[p[i]].lineno
    BY <1>11
  <2>3. \A m \in LineNos, j \in 0 .. K - 1 : \A s2 :
          /\ slot[p[j]].lineno = m
          /\ \A i \in 0 .. K - 1 : /\ s2[p[i]].text = slot[p[i]].text
                                  /\ s2[p[i]].lineno = IF i = j THEN Deleted ELSE slot[p[i]].lineno
          => /\ Sorted(p, K, s2)
             /\ \A a \in LineNos \ {m} : \A v : Shown(p, K, slot, a, v) => Shown(p, K, s2, a, v)
             /\ Shown(p, K, s2, m, Missing)
    BY <2>1, Unlinked, Zenon
  <2>4. QED BY <1>7, <2>2, <2>3, Zenon
<1>13. Program(p, K, top', slot') /\ psize' = p[K]
  BY <1>3, <1>9, <1>11, <1>12 DEF Program, Linked
<1>14. RestInv' /\ BusyInv'
  BY <1>1, <1>9, <1>13 DEF RestInv, BusyInv, Resting
<1>15. TypeOK'
  BY <1>9, <1>10 DEF TypeOK, SlotType
<1>16. Lines' = LinesOf(top', slot') /\ Lines' \in [LineNos -> Texts \cup {Missing}]
  BY <1>13, OfNext, LinesTyped
<1>17. ASSUME NEW m \in LineNos PROVE Lines'[m] = [Lines EXCEPT ![n] = Missing][m]
  <2>1. Shown(p, K, slot', m, Lines'[m])
    BY <1>13, <1>16, LinesShown
  <2>2. Shown(p, K, slot', m, IF m = n THEN Missing ELSE Lines[m])
    BY <1>6, <1>12
  <2>3. Lines'[m] = IF m = n THEN Missing ELSE Lines[m]
    BY <1>3, <1>12, <2>1, <2>2, ShownOnce DEF Program
  <2>4. QED BY <1>5, <2>3
<1>18. Lines' = [Lines EXCEPT ![n] = Missing]
  BY <1>5, <1>16, <1>17
<1>19. QED BY <1>1, <1>9, <1>14, <1>15, <1>18

\* One slot with the terminator in it is an empty program.
LEMMA EmptyProgram ==
  ASSUME NEW s, s[1].lineno = End
  PROVE  /\ 0 \in 0 .. Size - 1 /\ [i \in 0 .. 0 |-> 1] \in [0 .. 0 -> Slots]
         /\ Program([i \in 0 .. 0 |-> 1], 0, 1, s)
         /\ LinesOf(1, s) = NoLines
<1> DEFINE p == [i \in 0 .. 0 |-> 1]
<1>1. p[0] = 1 /\ p \in [0 .. 0 -> Slots] /\ 0 \in 0 .. Size - 1
  BY SizeNat DEF Slots
<1> HIDE DEF p
<1>2. Program(p, 0, 1, s)
  BY <1>1 DEF Program, Path, Sorted, Linked
<1>3. \A n \in LineNos : LinesOf(1, s)[n] = Missing
  BY <1>2, LinesShown DEF Shown
<1>4. LinesOf(1, s) = [n \in LineNos |-> LinesOf(1, s)[n]]
  BY LinesDomain
<1>5. LinesOf(1, s) = NoLines
  BY <1>3, <1>4 DEF NoLines
<1>6. QED BY <1>1, <1>2, <1>5 DEF p

LEMMA Clearing ==
  ASSUME TypeOK, ClearLn
  PROVE  TypeOK' /\ RestInv' /\ BusyInv' /\ pc = "ready" /\ pc' = "ready" /\ Lines' = NoLines
<1>1. /\ pc = "ready" /\ top' = 1 /\ psize' = 1 /\ pll' = Nowhere
      /\ slot' = [slot EXCEPT ![1].lineno = End] /\ UNCHANGED <<pc, new, nxt, la, before>>
  BY DEF ClearLn, local
<1>2. 1 \in Slots /\ slot \in [Slots -> SlotType] /\ End \in LineNos \cup {End, Deleted}
  BY SizeNat DEF TypeOK, SlotType, Slots
<1>3. slot' \in [Slots -> SlotType] /\ slot'[1].lineno = End
  <2>1. \A x \in LineNos \cup {End, Deleted} : \A s2 : s2 = [slot EXCEPT ![1].lineno = x] =>
          s2 \in [Slots -> SlotType] /\ s2[1].lineno = x
    BY <1>2, StoresNumber
  <2>2. QED BY <1>1, <1>2, <2>1, Zenon
<1>4. Program([i \in 0 .. 0 |-> 1], 0, top', slot') /\ LinesOf(top', slot') = NoLines
  BY <1>1, <1>3, EmptyProgram
<1>5. RestInv'
  <2>1. psize' = [i \in 0 .. 0 |-> 1][0]
    BY <1>1
  <2>2. 0 \in 0 .. Size - 1 /\ [i \in 0 .. 0 |-> 1] \in [0 .. 0 -> Slots]
    BY <1>3, EmptyProgram
  <2> DEFINE p == [i \in 0 .. 0 |-> 1]
  <2>3. Program(p, 0, top', slot') /\ psize' = p[0] /\ p \in [0 .. 0 -> Slots]
    BY <1>4, <2>1, <2>2
  <2> HIDE DEF p
  <2>4. QED BY <2>2, <2>3 DEF RestInv
<1>6. TypeOK'
  BY <1>1, <1>2, <1>3 DEF TypeOK, SlotType
<1>7. QED BY <1>1, <1>4, <1>5, <1>6, OfNext DEF BusyInv, Resting

LEMMA Remainder ==
  ASSUME NEW a \in Nat, NEW b \in Nat, b > 0
  PROVE  a % b \in 0 .. a
<1>1. CASE a < b
  BY <1>1
<1>2. CASE b <= a
  BY <1>2
<1>3. QED BY <1>1, <1>2

LEMMA EndFound ==
  ASSUME TypeOK, RestInv, Resting, FindEnd, UNCHANGED <<eeprom, local, hist>>, pc' = "ready"
  PROVE  TypeOK' /\ RestInv' /\ BusyInv' /\ Lines' = Lines
<1>1. /\ UNCHANGED <<top, slot, new, nxt, la, before, damaged>> /\ pll' = Last % ByteBase
      /\ psize' = IF At[ListLen] \in Slots THEN At[ListLen] ELSE Nowhere
      /\ ListLen # -1
  BY DEF eeprom, local, hist, FindEnd
<1>2. Last \in Slots \cup {Nowhere}
  <2>1. ListLen > 0 => ListLen \in 0 .. Size /\ At[ListLen - 1] \in Records
    BY <1>1, FirstExists, SizeNat DEF ListLen
  <2>2. QED BY <2>1 DEF Last, Records
<1>3. Last % ByteBase \in Slots \cup {Nowhere}
  <2>1. Last \in Nat /\ Last <= Size /\ ByteBase \in Nat /\ ByteBase > 0
    BY <1>2, SizeNat, StoreAssumption DEF Slots, Nowhere
  <2>2. Last % ByteBase \in 0 .. Last
    BY <2>1, Remainder
  <2> DEFINE r == Last % ByteBase
  <2> HIDE DEF r
  <2>3. r \in 0 .. Last
    BY <2>2 DEF r
  <2>4. r \in Slots \cup {Nowhere}
    BY <2>1, <2>3, SizeNat DEF Slots, Nowhere
  <2>5. QED BY <2>4 DEF r
<1>4. TypeOK'
  BY <1>1, <1>3 DEF TypeOK
<1>5. RestInv'
  <2> SUFFICES ASSUME ~damaged
               PROVE  \E K \in 0 .. Size - 1 : \E p \in [0 .. K -> Slots] :
                        Program(p, K, top, slot) /\ psize' = p[K]
    BY <1>1 DEF RestInv
  <2>1. PICK K \in 0 .. Size - 1 : \E p \in [0 .. K -> Slots] : Program(p, K, top, slot)
    BY DEF RestInv
  <2>2. PICK p \in [0 .. K -> Slots] : Program(p, K, top, slot)
    BY <2>1
  <2>3. At[ListLen] = p[K] /\ p[K] \in Slots
    BY <2>1, <2>2, EndOfPath
  <2>4. QED BY <1>1, <2>1, <2>2, <2>3
<1>6. Lines' = Lines
  BY <1>1, OfNow, OfNext
<1>7. QED BY <1>4, <1>5, <1>6 DEF BusyInv, Resting

\* The lines with smaller numbers are in front of the part being rebuilt.
LEMMA SmallerSpared ==
  ASSUME TypeOK, NEW p, NEW K, NEW c, Inserting(p, K, c),
         NEW n \in LineNos, n < new.lineno, before[n] # Missing
  PROVE  Lines[n] = before[n]
<1> USE InsertFacts
<1>1. n \in Nat /\ n # Deleted /\ n # new.lineno /\ n \in LineNos \ {new.lineno} /\ new.lineno \in Nat
  BY NumberFacts
<1>2. PICK i \in 0 .. K - 1 : slot[p[i]].lineno = n /\ before[n] = slot[p[i]].text
  BY <1>1 DEF Inserting, Shown
<1>3. i \in 0 .. c - 1
  <2>1. ~(i \in c .. K - 1)
    BY <1>1, <1>2 DEF Inserting, Place
  <2>2. QED BY <2>1
<1>4. Path(p, K) /\ Sorted(p, K, slot)
  BY DEF Inserting
<1>5. top = p[0] /\ \A j \in 0 .. i - 1 : slot[p[j]].next = p[j + 1]
  BY <1>3 DEF Inserting, Links
<1>6. \A j \in 0 .. i - 1 : slot[p[j]].lineno # n
  BY <1>1, <1>2, <1>4 DEF Sorted
<1>7. \A j \in 0 .. K - 1 : p[j] \in RecordsOf(slot)
  BY <1>4, OnPath
<1>8. i \in 0 .. Size /\ p[0] \in Int /\ p[i] \in Int /\ Size - i \in 0 .. Size
  BY <1>2, <1>4, PathFacts, SizeNat
<1>9. TextOf(slot)[Size][p[0]][n] = TextOf(slot)[Size - i][p[i]][n]
  BY <1>5, <1>6, <1>7, <1>8, Passed
<1>10. TextOf(slot)[Size - i][p[i]][n] = slot[p[i]].text
  BY <1>2, <1>7, <1>8, TextStep
<1>11. QED BY <1>2, <1>5, <1>9, <1>10, OfNow DEF LinesOf

LEMMA PowerLost ==
  ASSUME TypeOK, RestInv, PowerLoss
  PROVE  TypeOK' /\ RestInv' /\ BusyInv' /\ pc # "boot" /\ pc' = "boot" /\ Lines' = Lines
<1>1. /\ pc # "boot" /\ psize' = Nowhere /\ pll' = Nowhere /\ UNCHANGED <<top, slot>>
      /\ damaged' = (damaged \/ pc # "ready")
      /\ pc' = "boot" /\ nxt' = Nowhere /\ la' = Nowhere /\ before' = NoLines
  BY DEF PowerLoss, Leave, eeprom
<1>2. TypeOK'
  BY <1>1 DEF TypeOK, NoLines
<1>3. RestInv'
  BY <1>1 DEF RestInv, Resting
<1>4. Lines' = Lines
  BY <1>1, OfNow, OfNext
<1>5. QED BY <1>1, <1>2, <1>3, <1>4 DEF BusyInv, Resting

-----------------------------------------------------------------------------
(***************************************************************************)
(* Every step keeps the invariant, and is a step of the abstract store.    *)
(***************************************************************************)
InsertStep == WriteNumber \/ WriteBody \/ WriteEnd \/ UnlinkOld \/ LinkNew \/ LinkRest \/ LinkEnd

\* An insertion goes on and nothing has changed to the user, or it is done.
LEMMA InsertSteps ==
  ASSUME Inv, InsertStep
  PROVE  /\ Inv' /\ ~Resting /\ new.lineno \in LineNos /\ new.text \in Texts
         /\ \/ ~Resting' /\ UNCHANGED <<before, new>>
            \/ Resting' /\ Lines' = [before EXCEPT ![new.lineno] = new.text]
<1> USE DEF Inv
<1>1. ~Resting /\ UNCHANGED damaged
  BY DEF Resting, InsertStep, WriteNumber, WriteBody, WriteEnd, UnlinkOld, LinkNew, LinkRest, LinkEnd
<1>2. ~damaged /\ ~damaged'
  BY <1>1 DEF BusyInv
<1>3. PICK K \in 0 .. Size - 1 : \E p \in [0 .. K -> Slots] : \E c \in 0 .. K : Inserting(p, K, c)
  BY <1>1 DEF BusyInv
<1>4. PICK p \in [0 .. K -> Slots] : \E c \in 0 .. K : Inserting(p, K, c)
  BY <1>3
<1>5. PICK c \in 0 .. K : Inserting(p, K, c)
  BY <1>4
<1>6. new.lineno \in LineNos /\ new.text \in Texts
  BY <1>5, InsertFacts
<1>7. ASSUME TypeOK', Inserting(p, K, c)', pc' \notin {"ready", "boot"}, UNCHANGED <<before, new>>
      PROVE  Inv' /\ ~Resting' /\ UNCHANGED <<before, new>>
  <2>1. ~Resting'
    BY <1>7 DEF Resting
  <2>2. BusyInv'
    BY <1>2, <1>7 DEF BusyInv
  <2>3. RestInv'
    BY <2>1 DEF RestInv
  <2>4. QED BY <1>7, <2>1, <2>2, <2>3
<1>8. ASSUME Done(p, K, c)
      PROVE  Inv' /\ Resting' /\ Lines' = [before EXCEPT ![new.lineno] = new.text]
  <2>1. Resting' /\ pc' = "ready"
    BY <1>8 DEF Done, Resting
  <2> DEFINE g == Grown(p, K, c)
  <2>2. Program(g, K + 1, top', slot') /\ psize' = g[K + 1]
    BY <1>8 DEF Done
  <2> HIDE DEF g
  <2>3. K + 1 \in 0 .. Size - 1 /\ g \in [0 .. K + 1 -> Slots]
    BY <2>2, PathFacts DEF Program, Path
  <2>4. RestInv'
    BY <2>1, <2>2, <2>3 DEF RestInv
  <2>5. BusyInv'
    BY <2>1 DEF BusyInv
  <2>6. QED BY <1>8, <2>1, <2>4, <2>5 DEF Done
<1>9. CASE WriteNumber
  <2>1. pc' = "body" /\ UNCHANGED <<before, new>>
    BY <1>9 DEF WriteNumber, GoTo
  <2>2. QED BY <1>1, <1>5, <1>6, <1>7, <1>9, <2>1, NumberWritten
<1>10. CASE WriteBody
  <2>1. pc' = "end" /\ UNCHANGED <<before, new>>
    BY <1>10 DEF WriteBody, GoTo
  <2>2. QED BY <1>1, <1>5, <1>6, <1>7, <1>10, <2>1, BodyWritten
<1>11. CASE WriteEnd
  <2>1. CASE nxt = Nowhere
    BY <1>1, <1>5, <1>6, <1>8, <1>11, <2>1, DoneAtTheEnd
  <2>2. CASE nxt # Nowhere
    BY <1>1, <1>5, <1>6, <1>7, <1>11, <2>2, EndWritten
  <2>3. QED BY <2>1, <2>2
<1>12. CASE UnlinkOld
  <2>1. pc' = "hook" /\ UNCHANGED <<before, new>>
    BY <1>12 DEF UnlinkOld, GoTo
  <2>2. QED BY <1>1, <1>5, <1>6, <1>7, <1>12, <2>1, OldUnlinked
<1>13. CASE LinkNew
  <2>1. CASE c = K
    BY <1>1, <1>5, <1>6, <1>8, <1>13, <2>1, DoneAtOnce
  <2>2. CASE c # K
    BY <1>1, <1>5, <1>6, <1>7, <1>13, <2>2, NewLinked
  <2>3. QED BY <2>1, <2>2
<1>14. CASE LinkRest
  <2>1. pc' = "close" /\ UNCHANGED <<before, new>>
    BY <1>14 DEF LinkRest, GoTo
  <2>2. QED BY <1>1, <1>5, <1>6, <1>7, <1>14, <2>1, RestLinked
<1>15. CASE LinkEnd
  BY <1>1, <1>5, <1>6, <1>8, <1>15, DoneWithRest
<1>16. QED BY <1>9, <1>10, <1>11, <1>12, <1>13, <1>14, <1>15 DEF InsertStep

LEMMA Initially == ASSUME Init PROVE Inv /\ Lines = NoLines
<1>1. slot[1].lineno = End
  <2>1. 1 \in Slots
    BY SizeNat DEF Slots
  <2>2. QED BY <2>1 DEF Init, Erased
<1> DEFINE p == [i \in 0 .. 0 |-> 1]
<1>a. p[0] = 1 /\ top = 1 /\ psize = 1
  BY DEF Init
<1>b. Program(p, 0, 1, slot) /\ p \in [0 .. 0 -> Slots] /\ 0 \in 0 .. Size - 1
  BY <1>1, EmptyProgram
<1> HIDE DEF p
<1>2. Program(p, 0, top, slot) /\ p \in [0 .. 0 -> Slots] /\ 0 \in 0 .. Size - 1 /\ psize = p[0]
  BY <1>a, <1>b
<1>3. RestInv
  BY <1>2 DEF RestInv
<1>4. Lines = NoLines
  BY <1>1, EmptyProgram, OfNow DEF Init
<1>5. TypeOK
  BY SizeNat DEF Init, TypeOK, Slots, Erased, NoLines
<1>6. BusyInv
  BY DEF BusyInv, Init, Resting
<1>7. QED BY <1>3, <1>4, <1>5, <1>6 DEF Inv

LEMMA Stutters == ASSUME Inv, UNCHANGED vars PROVE Inv' /\ Lines' = Lines
<1> USE DEF vars, eeprom, ram, local, hist
<1>1. TypeOK'
  BY DEF Inv, TypeOK
<1>2. RestInv'
  BY DEF Inv, RestInv, Resting
<1>3. BusyInv'
  <2> SUFFICES ASSUME ~Resting'
               PROVE  ~damaged' /\ \E K \in 0 .. Size - 1 : \E p \in [0 .. K -> Slots] :
                                      \E c \in 0 .. K : Inserting(p, K, c)'
    BY DEF BusyInv
  <2>1. ~Resting
    BY DEF Resting
  <2>2. \A p, K, c : Inserting(p, K, c) => Inserting(p, K, c)'
    BY DEF Inserting, Place, Record, Links
  <2>3. QED BY <2>1, <2>2 DEF Inv, BusyInv
<1>4. Lines' = Lines
  BY OfNow, OfNext
<1>5. QED BY <1>1, <1>2, <1>3, <1>4 DEF Inv

LEMMA StoreStep ==
  ASSUME Careful, Inv, [Next]_vars
  PROVE  /\ Inv'
         /\ Store!Next \/ UNCHANGED <<IF pc \in {"ready", "boot"} THEN Lines ELSE before,
                                      IF pc \in {"ready", "boot"} THEN 0 ELSE new.lineno>>
<1> DEFINE lines    == IF pc \in {"ready", "boot"} THEN Lines ELSE before
           entering == IF pc \in {"ready", "boot"} THEN 0 ELSE new.lineno
<1> SUFFICES Inv' /\ (Store!Next \/ (lines' = lines /\ entering' = entering))
  OBVIOUS
<1>1. ASSUME NEW n \in LineNos, NEW t \in Texts, InsertLn(n, t)
      PROVE  Inv' /\ Store!Begin(n)
  <2>1. pc = "ready" /\ Inv' /\ pc' = "number" /\ before' = Lines /\ new'.lineno = n
    BY <1>1, Begun DEF Inv, InsertLn
  <2>2. QED BY <2>1 DEF Store!Begin
<1>2. ASSUME InsertStep
      PROVE  Inv' /\ ((\E t \in Texts : Store!Finish(t)) \/ (lines' = lines /\ entering' = entering))
  <2>1. /\ Inv' /\ ~Resting /\ new.lineno \in LineNos /\ new.text \in Texts
        /\ \/ ~Resting' /\ UNCHANGED <<before, new>>
           \/ Resting' /\ Lines' = [before EXCEPT ![new.lineno] = new.text]
    BY <1>2, InsertSteps
  <2>2. CASE ~Resting' /\ UNCHANGED <<before, new>>
    <3>1. lines' = lines /\ entering' = entering
      BY <2>1, <2>2 DEF Resting
    <3>2. QED BY <2>1, <3>1
  <2>3. CASE Resting' /\ Lines' = [before EXCEPT ![new.lineno] = new.text]
    <3>1. Store!Finish(new.text)
      BY <2>1, <2>3, NumberFacts DEF Resting, Store!Finish
    <3>2. QED BY <2>1, <3>1
  <2>4. QED BY <2>1, <2>2, <2>3
<1>3. ASSUME NEW n \in LineNos, DeleteLn(n)
      PROVE  Inv' /\ Store!Delete(n)
  <2>1. Inv' /\ pc = "ready" /\ pc' = "ready" /\ Lines' = [Lines EXCEPT ![n] = Missing]
    BY <1>3, Deleting DEF Inv
  <2>2. QED BY <2>1 DEF Store!Delete
<1>4. ASSUME ClearLn PROVE Inv' /\ Store!Clear
  <2>1. Inv' /\ pc = "ready" /\ pc' = "ready" /\ Lines' = NoLines
    BY <1>4, Clearing DEF Inv
  <2>2. QED BY <2>1 DEF Store!Clear, Store!Empty, NoLines
<1>5. ASSUME Query \/ Boot PROVE Inv' /\ lines' = lines /\ entering' = entering
  <2>1. Resting /\ FindEnd /\ UNCHANGED <<eeprom, local, hist>> /\ pc' = "ready"
    BY <1>5 DEF Query, Boot, Resting
  <2>2. Inv' /\ Lines' = Lines
    BY <2>1, EndFound DEF Inv
  <2>3. QED BY <2>1, <2>2 DEF Resting
<1>6. ASSUME PowerLoss
      PROVE  Inv' /\ (Store!Lose \/ (lines' = lines /\ entering' = entering))
  <2>1. Inv' /\ pc # "boot" /\ pc' = "boot" /\ Lines' = Lines
    BY <1>6, PowerLost DEF Inv
  <2>2. CASE pc = "ready"
    BY <2>1, <2>2
  <2>3. CASE pc # "ready"
    <3>1. ~Resting
      BY <2>1, <2>3 DEF Resting
    <3>2. PICK K \in 0 .. Size - 1 : \E p \in [0 .. K -> Slots] : \E c \in 0 .. K : Inserting(p, K, c)
      BY <3>1 DEF Inv, BusyInv
    <3>3. PICK p \in [0 .. K -> Slots] : \E c \in 0 .. K : Inserting(p, K, c)
      BY <3>2
    <3>4. PICK c \in 0 .. K : Inserting(p, K, c)
      BY <3>3
    <3>5. new.lineno \in LineNos
      BY <3>4, InsertFacts DEF Inv
    <3>6. \A k \in LineNos : k < new.lineno /\ before[k] # Missing => Lines[k] = before[k]
      BY <3>4, SmallerSpared DEF Inv
    <3>7. DOMAIN Lines' = LineNos
      <4>1. top' \in Int
        BY <2>1, SizeNat DEF Inv, TypeOK, Nowhere
      <4>2. Lines' = [n \in LineNos |-> LinesOf(top', slot')[n]]
        BY <4>1, OfNext, LinesDomain
      <4>3. QED BY <4>2
    <3>8. Store!Lose
      BY <2>1, <2>3, <3>5, <3>6, <3>7, NumberFacts DEF Store!Lose
    <3>9. QED BY <2>1, <3>8
  <2>4. QED BY <2>2, <2>3
<1>7. CASE UNCHANGED vars
  <2>1. Inv' /\ Lines' = Lines
    BY <1>7, Stutters
  <2>2. QED BY <1>7, <2>1 DEF vars, local, hist
<1> HIDE DEF lines, entering
<1>8. ASSUME \/ \E n \in LineNos : Store!Begin(n) \/ Store!Delete(n)
             \/ \E t \in Texts : Store!Finish(t)
             \/ Store!Clear \/ Store!Lose
      PROVE  Store!Next
  BY <1>8 DEF Store!Next
<1>9. QED
  BY <1>1, <1>2, <1>3, <1>4, <1>5, <1>6, <1>7, <1>8 DEF Next, InsertStep

-----------------------------------------------------------------------------
(***************************************************************************)
(* The list is sound whenever the invariant holds.                         *)
(***************************************************************************)
LEMMA SoundList == Inv => ListSound
<1> SUFFICES ASSUME Inv, pc = "ready", ~damaged
             PROVE  /\ ListLen # -1 /\ At[ListLen] = psize
                    /\ \A i, j \in 0 .. ListLen - 1 :
                         i < j /\ slot[At[j]].lineno # Deleted => slot[At[i]].lineno < slot[At[j]].lineno
  BY DEF ListSound
<1>1. PICK K \in 0 .. Size - 1 : \E p \in [0 .. K -> Slots] : Program(p, K, top, slot) /\ psize = p[K]
  BY DEF Inv, RestInv, Resting
<1>2. PICK p \in [0 .. K -> Slots] : Program(p, K, top, slot) /\ psize = p[K]
  BY <1>1
<1>3. ListLen = K /\ \A i \in 0 .. K : At[i] = p[i]
  BY <1>2, EndOfPath
<1>4. QED BY <1>1, <1>2, <1>3 DEF Program, Sorted

-----------------------------------------------------------------------------
(***************************************************************************)
(* The address cache.  It holds records of the path as long as the program *)
(* is as it was when the cache was emptied.                                *)
(***************************************************************************)
OnList(a, n, p, K) == \E k \in 0 .. K - 1 : a = p[k] /\ slot[p[k]].lineno = n

CacheInv ==
  /\ lnc \in Seq([line : LineNos, at : Slots]) /\ changes \in Nat
  /\ running => pc = "ready" /\ unchanged
  /\ unchanged => Resting
  /\ unchanged /\ ~damaged =>
       \E K \in 0 .. Size - 1 : \E p \in [0 .. K -> Slots] :
         /\ Program(p, K, top, slot)
         /\ \A i \in 1 .. Len(lnc) : OnList(lnc[i].at, lnc[i].line, p, K)

\* What is found is a record with that number; the list shows the line exactly then.
LEMMA FoundIs ==
  ASSUME NEW p, NEW K, Program(p, K, top, slot), NEW n \in LineNos
  PROVE  IF Lines[n] = Missing THEN Found(n) = NoSuchLine
         ELSE \E k \in 0 .. K - 1 : /\ Found(n) = p[k] /\ slot[p[k]].lineno = n
                                    /\ slot[p[k]].text = Lines[n]
<1>1. /\ K \in Nat /\ \A i \in 0 .. K : p[i] \in Slots /\ p[i] # Nowhere /\ p[i] # Top
      /\ n \in Nat /\ n > 0 /\ Nowhere \notin Slots /\ Top \notin Slots
  BY SizeNat, PathFacts, NumberFacts DEF Program, Path, Slots, Nowhere, Top
<1>2. Shown(p, K, slot, n, Lines[n])
  BY OfNow, LinesShown
<1>3. PICK c \in 0 .. K :
         /\ \A i \in 0 .. c - 1 : slot[p[i]].lineno < n
         /\ \A i \in c + 1 .. K - 1 : slot[p[i]].lineno = Deleted \/ slot[p[i]].lineno > n
         /\ c < K => slot[p[c]].lineno = n \/ slot[p[c]].lineno > n
         /\ FindLn(n) = IF c = K THEN Nowhere
                        ELSE IF slot[p[c]].lineno = n THEN p[c]
                        ELSE IF c = 0 THEN Top ELSE p[c - 1]
  BY PlaceOf
<1>4. \A i \in 0 .. K - 1 : slot[p[i]].lineno = n => i = c
  BY <1>1, <1>3, NumberFacts
<1>5. CASE \E k \in 0 .. K - 1 : slot[p[k]].lineno = n /\ Lines[n] = slot[p[k]].text
  <2>1. PICK k \in 0 .. K - 1 : slot[p[k]].lineno = n /\ Lines[n] = slot[p[k]].text
    BY <1>5
  <2>2. FindLn(n) = p[k] /\ p[k] \in Slots
    BY <1>1, <1>3, <1>4, <2>1
  <2>3. Found(n) = p[k]
    BY <2>1, <2>2 DEF Found
  <2>4. Lines[n] # Missing
    BY <1>1, <2>1, NumberFacts DEF Program, Sorted
  <2>5. QED BY <2>1, <2>3, <2>4
<1>6. CASE (\A i \in 0 .. K - 1 : slot[p[i]].lineno # n) /\ Lines[n] = Missing
  <2>1. \/ FindLn(n) = Nowhere
        \/ FindLn(n) = Top
        \/ FindLn(n) = p[c - 1] /\ c - 1 \in 0 .. K - 1
    <3>1. c # K => c \in 0 .. K - 1 /\ slot[p[c]].lineno # n
      BY <1>1, <1>6
    <3>2. c # 0 => c - 1 \in 0 .. K - 1
      BY <1>1
    <3>3. CASE c = K
      BY <1>3, <3>3
    <3>4. CASE c # K
      BY <1>3, <3>1, <3>2, <3>4
    <3>5. QED BY <3>3, <3>4
  <2>2. ~(FindLn(n) \in Slots /\ slot[FindLn(n)].lineno = n)
    BY <1>1, <1>6, <2>1
  <2>3. Found(n) = NoSuchLine
    BY <2>2 DEF Found
  <2>4. QED BY <1>6, <2>3
<1>7. QED BY <1>2, <1>5, <1>6 DEF Shown

LEMMA CacheFinds ==
  ASSUME lnc \in Seq([line : LineNos, at : Slots]), NEW n
  PROVE  \/ findcache(n) = NotCached /\ \A i \in 1 .. Len(lnc) : lnc[i].line # n
         \/ \E i \in 1 .. Len(lnc) : lnc[i].line = n /\ findcache(n) = lnc[i].at
<1>1. CASE \E i \in 1 .. Len(lnc) : lnc[i].line = n
  <2> DEFINE S == {i \in 1 .. Len(lnc) : lnc[i].line = n}
  <2>1. S \in SUBSET Nat /\ S # {}
    BY <1>1
  <2>2. PICK m \in S : \A k \in S : m <= k
    BY <2>1, Smallest
  <2>3. m \in 1 .. Len(lnc) /\ lnc[m].line = n /\ \A j \in 1 .. m - 1 : lnc[j].line # n
    BY <2>2
  <2> DEFINE i == CHOOSE i \in 1 .. Len(lnc) : lnc[i].line = n /\ \A j \in 1 .. i - 1 : lnc[j].line # n
  <2>4. i \in 1 .. Len(lnc) /\ lnc[i].line = n
    BY <2>3
  <2>5. findcache(n) = lnc[i].at
    BY <1>1 DEF findcache
  <2>6. QED BY <2>4, <2>5
<1>2. CASE ~\E i \in 1 .. Len(lnc) : lnc[i].line = n
  BY <1>2 DEF findcache
<1>3. QED BY <1>1, <1>2

LEMMA Jumps == Inv /\ CacheInv => JumpsToLine
<1> SUFFICES ASSUME Inv, CacheInv, pc = "ready", ~damaged, unchanged, NEW n \in LineNos
             PROVE  IF Lines[n] = Missing THEN gotoln(n) = NoSuchLine
                    ELSE gotoln(n) \in Showing(n) /\ slot[gotoln(n)].text = Lines[n]
  BY DEF JumpsToLine, CacheInv, SafeToGo
<1>1. PICK K \in 0 .. Size - 1 : \E p \in [0 .. K -> Slots] :
        /\ Program(p, K, top, slot)
        /\ \A i \in 1 .. Len(lnc) : OnList(lnc[i].at, lnc[i].line, p, K)
  BY DEF CacheInv
<1>2. PICK p \in [0 .. K -> Slots] :
        /\ Program(p, K, top, slot)
        /\ \A i \in 1 .. Len(lnc) : OnList(lnc[i].at, lnc[i].line, p, K)
  BY <1>1
<1>3. IF Lines[n] = Missing THEN Found(n) = NoSuchLine
      ELSE \E k \in 0 .. K - 1 : /\ Found(n) = p[k] /\ slot[p[k]].lineno = n
                                 /\ slot[p[k]].text = Lines[n]
  BY <1>2, FoundIs
<1>4. Shown(p, K, slot, n, Lines[n])
  BY <1>2, OfNow, LinesShown
<1>5. /\ K \in 0 .. Size /\ \A i \in 0 .. K : At[i] = p[i] /\ p[i] \in Slots /\ p[i] > 0
      /\ Path(p, K) /\ Sorted(p, K, slot)
  <2>1. \A i \in 0 .. K : At[i] = p[i]
    BY <1>2, EndOfPath
  <2>2. \A a \in Slots : a > 0
    BY SizeNat DEF Slots
  <2>3. K \in 0 .. Size /\ \A i \in 0 .. K : p[i] \in Slots
    BY <1>2, SizeNat
  <2>4. QED BY <1>2, <2>1, <2>2, <2>3 DEF Program
<1>6. \A i \in 0 .. K - 1 : slot[p[i]].lineno = n => p[i] \in Showing(n)
  <2> TAKE i \in 0 .. K - 1
  <2> HAVE slot[p[i]].lineno = n
  <2>1. i \in 0 .. Size /\ At[i] = p[i] /\ p[i] \in Slots
    BY <1>5, SizeNat
  <2>2. QED BY <2>1 DEF Showing
<1>7. lnc \in Seq([line : LineNos, at : Slots])
  BY DEF CacheInv
<1>8. CASE findcache(n) = NotCached
  <2>1. gotoln(n) = Found(n)
    BY <1>8 DEF gotoln, NotCached
  <2>2. QED BY <1>3, <1>6, <2>1
<1>9. CASE \E i \in 1 .. Len(lnc) : lnc[i].line = n /\ findcache(n) = lnc[i].at
  <2>1. PICK k \in 0 .. K - 1 : findcache(n) = p[k] /\ slot[p[k]].lineno = n
    BY <1>2, <1>9 DEF OnList
  <2>2. gotoln(n) = p[k]
    BY <1>5, <2>1 DEF gotoln
  <2>3. Shown(p, K, slot, n, slot[p[k]].text)
    BY <2>1 DEF Shown
  <2>4. Lines[n] = slot[p[k]].text
    BY <1>4, <1>5, <2>3, ShownOnce
  <2>5. Lines[n] # Missing
    BY <1>5, <2>1, <2>4, NumberFacts DEF Sorted
  <2>6. QED BY <1>6, <2>1, <2>2, <2>4, <2>5
<1>10. QED BY <1>7, <1>8, <1>9, CacheFinds

\* In a state with the same memory the entries are still good.
LEMMA CacheKeeps ==
  ASSUME CacheInv, UNCHANGED <<top, slot>>, damaged => damaged', lnc' = lnc \/ lnc' = <<>>,
         running' => pc' = "ready" /\ unchanged', unchanged' => unchanged /\ Resting',
         changes' \in Nat
  PROVE  CacheInv'
<1>1. lnc' \in Seq([line : LineNos, at : Slots])
  <2>1. <<>> \in Seq([line : LineNos, at : Slots])
    OBVIOUS
  <2>2. QED BY <2>1 DEF CacheInv
<1>2. ASSUME unchanged', ~damaged'
      PROVE  \E K \in 0 .. Size - 1 : \E p \in [0 .. K -> Slots] :
               /\ Program(p, K, top', slot')
               /\ \A i \in 1 .. Len(lnc') : OnList(lnc[i].at, lnc[i].line, p, K)'
  <2>1. PICK K \in 0 .. Size - 1 : \E p \in [0 .. K -> Slots] :
          /\ Program(p, K, top, slot)
          /\ \A i \in 1 .. Len(lnc) : OnList(lnc[i].at, lnc[i].line, p, K)
    BY <1>2 DEF CacheInv
  <2>2. PICK p \in [0 .. K -> Slots] :
          /\ Program(p, K, top, slot)
          /\ \A i \in 1 .. Len(lnc) : OnList(lnc[i].at, lnc[i].line, p, K)
    BY <2>1
  <2>3. Program(p, K, top', slot')
    BY <2>2
  <2>4. \A i \in 1 .. Len(lnc') : OnList(lnc[i].at, lnc[i].line, p, K)'
    BY <2>2 DEF OnList
  <2>5. QED BY <2>3, <2>4
<1>3. QED BY <1>1, <1>2 DEF CacheInv

\* A run that begins finds the cache empty.
LEMMA CacheEmptied ==
  ASSUME Inv, CacheInv, pc = "ready", UNCHANGED vars, lnc' = <<>>, unchanged'
  PROVE  CacheInv'
<1>1. lnc' \in Seq([line : LineNos, at : Slots]) /\ Len(lnc') = 0
  OBVIOUS
<1>2. UNCHANGED <<top, slot, pc, damaged, changes>>
  BY DEF vars, eeprom, hist, count
<1>3. ASSUME ~damaged
      PROVE  \E K \in 0 .. Size - 1 : \E p \in [0 .. K -> Slots] : Program(p, K, top', slot')
  BY <1>2, <1>3 DEF Inv, RestInv, Resting
<1>4. QED BY <1>1, <1>2, <1>3 DEF CacheInv, Resting

LEMMA CacheEdits ==
  ASSUME Careful, Inv, CacheInv, Edits
  PROVE  CacheInv'
<1>1. /\ ~running /\ Next /\ ~running'
      /\ lnc' = (IF pc' = "boot" THEN <<>> ELSE lnc) /\ unchanged' = (changes' = changes /\ unchanged)
  BY DEF Edits
<1>2. lnc' \in Seq([line : LineNos, at : Slots])
  <2>1. <<>> \in Seq([line : LineNos, at : Slots])
    OBVIOUS
  <2>2. QED BY <1>1, <2>1 DEF CacheInv
<1>3. changes \in Nat
  BY DEF CacheInv
<1>4. CASE changes' = changes + 1
  <2>1. changes' # changes /\ changes' \in Nat
    BY <1>3, <1>4
  <2>2. ~unchanged'
    BY <1>1, <2>1
  <2>3. QED BY <1>1, <1>2, <2>1, <2>2 DEF CacheInv
<1>5. CASE InsertStep
  <2>1. ~Resting /\ changes' = changes
    BY <1>5 DEF Resting, InsertStep, WriteNumber, WriteBody, WriteEnd, UnlinkOld, LinkNew,
                LinkRest, LinkEnd, hist, count
  <2>2. ~unchanged'
    BY <1>1, <2>1 DEF CacheInv
  <2>3. QED BY <1>1, <1>2, <1>3, <2>1, <2>2 DEF CacheInv
<1>6. CASE Query \/ Boot \/ PowerLoss
  <2>1. UNCHANGED <<top, slot, changes>> /\ (damaged => damaged') /\ Resting'
    <3>1. CASE Query \/ Boot
      BY <3>1 DEF Query, Boot, Resting, eeprom, hist, count
    <3>2. CASE PowerLoss
      BY <3>2 DEF PowerLoss, Resting, eeprom, Leave
    <3>3. QED BY <1>6, <3>1, <3>2
  <2>2. QED BY <1>1, <1>3, <2>1, CacheKeeps
<1>7. QED
  BY <1>1, <1>4, <1>5, <1>6 DEF Next, InsertStep, InsertLn, DeleteLn, ClearLn, Change

LEMMA CacheGrows ==
  ASSUME Inv, CacheInv, NEW n \in LineNos, cmd_goto(n)
  PROVE  CacheInv'
<1>1. /\ running /\ UNCHANGED vars /\ UNCHANGED unchanged /\ lnc' = linenocache(n)
      /\ pc = "ready" /\ unchanged /\ Resting
  BY DEF cmd_goto, CacheInv, Resting
<1>2. UNCHANGED <<top, slot, pc, damaged, changes>>
  BY <1>1 DEF vars, eeprom, hist, count
<1>3. lnc \in Seq([line : LineNos, at : Slots])
  BY DEF CacheInv
<1> DEFINE e == [line |-> n, at |-> Found(n)]
<1>4. CASE lnc' = lnc
  BY <1>1, <1>2, <1>4, CacheKeeps DEF CacheInv, Resting
<1>5. CASE lnc' = Append(lnc, e) /\ Found(n) > 0
  <2>1. Found(n) \in Slots
    BY <1>5, SizeNat DEF Found, NoSuchLine
  <2>2. e \in [line : LineNos, at : Slots]
    BY <2>1
  <2>3. /\ lnc' \in Seq([line : LineNos, at : Slots]) /\ Len(lnc') = Len(lnc) + 1
        /\ \A i \in 1 .. Len(lnc) : lnc'[i] = lnc[i]
        /\ lnc'[Len(lnc) + 1] = e
    <3> HIDE DEF e
    <3>1. QED BY <1>3, <1>5, <2>2
  <2>4. ASSUME ~damaged
        PROVE  \E K \in 0 .. Size - 1 : \E p \in [0 .. K -> Slots] :
                 /\ Program(p, K, top', slot')
                 /\ \A i \in 1 .. Len(lnc') : OnList(lnc[i].at, lnc[i].line, p, K)'
    <3>1. PICK K \in 0 .. Size - 1 : \E p \in [0 .. K -> Slots] :
            /\ Program(p, K, top, slot)
            /\ \A i \in 1 .. Len(lnc) : OnList(lnc[i].at, lnc[i].line, p, K)
      BY <1>1, <2>4 DEF CacheInv
    <3>2. PICK p \in [0 .. K -> Slots] :
            /\ Program(p, K, top, slot)
            /\ \A i \in 1 .. Len(lnc) : OnList(lnc[i].at, lnc[i].line, p, K)
      BY <3>1
    <3>3. \E k \in 0 .. K - 1 : Found(n) = p[k] /\ slot[p[k]].lineno = n
      BY <2>1, <3>2, FoundIs, SizeNat DEF NoSuchLine, Slots
    <3>4. OnList(Found(n), n, p, K)
      BY <3>3 DEF OnList
    <3>5. ASSUME NEW i \in 1 .. Len(lnc') PROVE OnList(lnc[i].at, lnc[i].line, p, K)'
      <4>1. CASE i \in 1 .. Len(lnc)
        BY <1>2, <2>3, <3>2, <4>1 DEF OnList
      <4>2. CASE i = Len(lnc) + 1
        BY <1>2, <2>3, <3>4, <4>2 DEF OnList
      <4>3. Len(lnc) \in Nat
        BY <1>3
      <4>4. QED BY <2>3, <4>1, <4>2, <4>3
    <3>6. Program(p, K, top', slot')
      BY <1>2, <3>2
    <3>7. QED BY <3>5, <3>6
  <2>5. QED BY <1>1, <1>2, <2>3, <2>4 DEF CacheInv, Resting
<1>6. lnc' = lnc \/ (lnc' = Append(lnc, e) /\ Found(n) > 0)
  BY <1>1 DEF linenocache
<1>7. QED BY <1>4, <1>5, <1>6

LEMMA CacheStep ==
  ASSUME Careful, Inv, CacheInv, [CNext]_cvars
  PROVE  CacheInv' /\ [Next]_vars
<1>1. CASE Edits
  BY <1>1, CacheEdits DEF Edits
<1>2. CASE basic_run
  BY <1>2, CacheEmptied DEF basic_run, init_cmdptr
<1>3. CASE Ends
  <2>1. UNCHANGED <<top, slot, pc, damaged, changes>> /\ UNCHANGED vars
    BY <1>3 DEF Ends, vars, eeprom, hist, count
  <2>2. CacheInv'
    BY <1>3, <2>1, CacheKeeps DEF Ends, CacheInv, Resting
  <2>3. QED BY <2>1, <2>2
<1>4. CASE UNCHANGED cvars
  <2>1. UNCHANGED <<top, slot, pc, damaged, changes>> /\ UNCHANGED vars
        /\ UNCHANGED <<lnc, running, unchanged>>
    BY <1>4 DEF cvars, cache, vars, eeprom, hist, count
  <2>2. CacheInv'
    BY <2>1, CacheKeeps DEF CacheInv, Resting
  <2>3. QED BY <2>1, <2>2
<1>5. ASSUME NEW n \in LineNos, GoCommand(n) PROVE CacheInv' /\ [Next]_vars
  <2>1. pc = "ready" /\ UNCHANGED vars /\ UNCHANGED <<top, slot, pc, damaged, changes>>
    BY <1>5 DEF GoCommand, vars, eeprom, hist, count
  <2>2. CASE lnc' = <<>> /\ unchanged'
    BY <2>1, <2>2, CacheEmptied
  <2>3. CASE UNCHANGED cache
    BY <2>1, <2>3, CacheKeeps DEF cache, CacheInv, Resting
  <2>4. QED BY <1>5, <2>1, <2>2, <2>3 DEF GoCommand, init_cmdptr
<1>6. ASSUME NEW n \in LineNos, cmd_goto(n) PROVE CacheInv' /\ [Next]_vars
  BY <1>6, CacheGrows DEF cmd_goto
<1>7. QED BY <1>1, <1>2, <1>3, <1>4, <1>5, <1>6 DEF CNext

LEMMA CacheInitially == ASSUME CInit PROVE Inv /\ CacheInv
<1>1. Inv /\ Lines = NoLines /\ changes = 0 /\ pc = "ready"
  BY Initially DEF CInit, Init
<1>2. lnc \in Seq([line : LineNos, at : Slots]) /\ Len(lnc) = 0 /\ ~running /\ unchanged
  BY DEF CInit
<1>3. QED BY <1>1, <1>2 DEF CacheInv, Inv, RestInv, Resting

-----------------------------------------------------------------------------
(***************************************************************************)
(* The theorems, for a user who enters and deletes lines with regard.      *)
(***************************************************************************)
LEMMA Invariant == ASSUME Careful PROVE CSpec => [](Inv /\ CacheInv)
<1>1. CInit => Inv /\ CacheInv
  BY CacheInitially
<1>2. Inv /\ CacheInv /\ [CNext]_cvars => (Inv /\ CacheInv)'
  BY CacheStep, StoreStep
<1>3. QED BY <1>1, <1>2, PTL DEF CSpec

\* Every pointer and index of the store stays in the memory (basic edit.c).
THEOREM TypeCorrect == ASSUME Careful PROVE CSpec => []TypeOK
<1>1. Inv => TypeOK
  BY DEF Inv
<1>2. QED BY <1>1, Invariant, PTL

\* LIST and the interpreter meet the lines in the order of their numbers and come to
\* the place where the next record goes (edit.c 184-209, 290-306).
THEOREM ListStaysSound == ASSUME Careful PROVE CSpec => []ListSound
<1>1. QED BY SoundList, Invariant, PTL

\* A jump goes to the record that LIST shows (commands.c 75-114).
THEOREM JumpsGoToTheLine == ASSUME Careful PROVE CSpec => []JumpsToLine
<1>1. QED BY Jumps, Invariant, PTL

\* Entering and deleting a line changes that line and no other, and a loss of power
\* spares the lines before the one being entered (edit.c 35-160).
THEOREM StoreIsMap == ASSUME Careful PROVE CSpec => ImplementsStore
<1> DEFINE lines    == IF pc \in {"ready", "boot"} THEN Lines ELSE before
           entering == IF pc \in {"ready", "boot"} THEN 0 ELSE new.lineno
<1>1. CInit => Store!Init
  <2> SUFFICES ASSUME CInit PROVE Store!Init
    OBVIOUS
  <2>1. Lines = NoLines /\ pc = "ready"
    BY Initially DEF CInit, Init
  <2>2. QED BY <2>1 DEF Store!Init, Store!Empty, NoLines
<1>2. Inv /\ CacheInv /\ [CNext]_cvars => [Store!Next]_<<lines, entering>>
  BY CacheStep, StoreStep
<1>3. QED BY <1>1, <1>2, Invariant, PTL DEF CSpec, ImplementsStore, Store!Spec
=============================================================================
