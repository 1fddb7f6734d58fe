--------------------------- MODULE ScreensProofs ---------------------------
(***************************************************************************)
(* The screens while a preview patches them, proved for every set of       *)
(* clients: the overlay that is up is the staged one.  The lists the model *)
(* is made of come first: what flattening, picking, finding and sorting do *)
(* to them; then what operations make of a configuration, what a plan has, *)
(* what two screens without a patch between them look like, and what the   *)
(* patches of its roots make of the widgets of a screen.                   *)
(***************************************************************************)
EXTENDS UiConfigurationsProofs

-----------------------------------------------------------------------------
(* Lists: what is flattened, picked and found. *)

\* The flattening of the first lists.
IsFlat(flat, lists, n) ==
    flat = [i \in 1 .. n |-> IF i = 1 THEN lists[i] ELSE flat[i - 1] \o lists[i]]

LEMMA FlatsThere ==
    ASSUME NEW lists, NEW n \in Nat
    PROVE  \E flat : IsFlat(flat, lists, n)
<1> DEFINE T == {m \in Nat : \E flat : IsFlat(flat, lists, m)}
<1>1. 0 \in T
  <2> DEFINE flat == [i \in 1 .. 0 |-> <<>>]
  <2>1. flat = [i \in 1 .. 0 |-> IF i = 1 THEN lists[i] ELSE flat[i - 1] \o lists[i]]
    <3>1. 1 .. 0 = {}
      OBVIOUS
    <3> QED
      BY <3>1
  <2>2. IsFlat(flat, lists, 0)
    BY <2>1, Zenon DEF IsFlat
  <2> QED
    BY <2>2
<1>2. ASSUME NEW m \in T PROVE m + 1 \in T
  <2>1. PICK before : IsFlat(before, lists, m)
    OBVIOUS
  <2> DEFINE k == m + 1
             flat == [i \in 1 .. k |-> IF i = k THEN IF k = 1 THEN lists[k] ELSE before[m] \o lists[k] ELSE before[i]]
             step(i) == IF i = 1 THEN lists[i] ELSE flat[i - 1] \o lists[i]
  <2>2. k \in Nat /\ m \in Nat /\ k - 1 = m
    OBVIOUS
  <2>3. ASSUME NEW i \in 1 .. k PROVE flat[i] = step(i)
    <3>1. CASE i = k /\ k = 1
      BY <3>1, Zenon
    <3>2. CASE i = k /\ k # 1
      <4>1. m \in 1 .. k /\ m # k /\ i - 1 = m
        BY <2>2, <3>2
      <4>2. flat[i] = before[m] \o lists[k]
        BY <3>2, Zenon
      <4>3. flat[m] = before[m]
        BY <4>1, Zenon
      <4> QED
        BY <3>2, <4>1, <4>2, <4>3, Zenon
    <3>3. CASE i # k
      <4>1. i \in 1 .. m
        BY <2>2, <3>3
      <4>2. flat[i] = before[i]
        BY <3>3, Zenon
      <4>3. before[i] = IF i = 1 THEN lists[i] ELSE before[i - 1] \o lists[i]
        BY <2>1, <4>1, Zenon DEF IsFlat
      <4>4. i # 1 => flat[i - 1] = before[i - 1]
        <5> SUFFICES ASSUME i # 1 PROVE flat[i - 1] = before[i - 1]
          OBVIOUS
        <5>1. i - 1 \in 1 .. k /\ i - 1 # k
          BY <2>2, <4>1
        <5> QED
          BY <5>1, Zenon
      <4> QED
        BY <4>2, <4>3, <4>4, Zenon
    <3> QED
      BY <3>1, <3>2, <3>3, Zenon
  <2>4. flat = [i \in 1 .. k |-> step(i)]
    <3>1. flat = [i \in 1 .. k |-> flat[i]]
      BY Zenon
    <3>2. [i \in 1 .. k |-> flat[i]] = [i \in 1 .. k |-> step(i)]
      <4> HIDE DEF step, flat
      <4> QED
        BY <2>3, Zenon
    <3> QED
      BY <3>1, <3>2, Zenon
  <2>5. IsFlat(flat, lists, k)
    BY <2>4, Zenon DEF IsFlat
  <2> HIDE DEF flat, k
  <2> QED
    BY <2>5, <2>2 DEF k
<1> HIDE DEF T
<1>3. T = Nat
  BY <1>1, <1>2, AllNumbers DEF T
<1> QED
  BY <1>3 DEF T

\* Lists are flattened one after the other.
IsFlattening(flat, lists, n) ==
    flat[0] = <<>> /\ \A i \in 1 .. n : flat[i] = flat[i - 1] \o lists[i]

LEMMA FlattensInTurn ==
    ASSUME NEW S, NEW lists \in Seq(Seq(S))
    PROVE  \E flat :
              /\ IsFlattening(flat, lists, Len(lists))
              /\ \A i \in 0 .. Len(lists) : flat[i] \in Seq(S)
              /\ FlattenSeq(lists) = flat[Len(lists)]
<1> DEFINE n == Len(lists)
           some == CHOOSE some : IsFlat(some, lists, n)
           flat == [i \in 0 .. n |-> IF i = 0 THEN <<>> ELSE some[i]]
<1>1. n \in Nat /\ \A i \in 1 .. n : lists[i] \in Seq(S)
  OBVIOUS
<1>2. IsFlat(some, lists, n)
  <2> HIDE DEF n
  <2> QED
    BY <1>1, FlatsThere
<1>3. FlattenSeq(lists) = flat[n]
  <2>1. CASE n = 0
    <3>1. lists = <<>>
      BY <2>1
    <3>2. FlattenSeq(lists) = <<>>
      BY <2>1, <3>1 DEF FlattenSeq
    <3> QED
      BY <2>1, <3>2
  <2>2. CASE n # 0
    <3>1. FlattenSeq(lists) = (CHOOSE f : IsFlat(f, lists, n))[n]
      BY <2>2, Zenon DEF FlattenSeq, IsFlat
    <3>2. n \in 0 .. n
      BY <1>1
    <3> QED
      BY <2>2, <3>1, <3>2, Zenon
  <2> QED
    BY <2>1, <2>2
<1> HIDE DEF some, n
<1>4. flat[0] = <<>> /\ \A i \in 1 .. n : flat[i] = some[i]
  BY <1>1
<1>a. n \in 0 .. n
  BY <1>1
<1> HIDE DEF flat
<1> DEFINE Good(i) == flat[i] \in Seq(S) /\ (i # 0 => flat[i] = flat[i - 1] \o lists[i])
           T == {i \in Nat : i <= n => Good(i)}
<1>5. 0 \in T
  <2>1. <<>> \in Seq(S)
    OBVIOUS
  <2> QED
    BY <1>4, <2>1
<1>6. ASSUME NEW m \in T PROVE m + 1 \in T
  <2> SUFFICES ASSUME m + 1 <= n
      PROVE flat[m + 1] \in Seq(S) /\ flat[m + 1] = flat[m] \o lists[m + 1]
    <3>1. m \in Nat /\ (m + 1) - 1 = m /\ m + 1 # 0 /\ m + 1 \in Nat
      OBVIOUS
    <3>2. flat[m + 1] \in Seq(S) /\ flat[m + 1] = flat[m] \o lists[m + 1] => Good(m + 1)
      BY <3>1, Zenon
    <3> HIDE DEF Good
    <3> QED
      BY <3>1, <3>2
  <2>1. m \in Nat /\ m \in 0 .. n /\ m + 1 \in 1 .. n /\ m + 1 \in 0 .. n /\ m + 1 # 0 /\ m <= n /\ (m + 1) - 1 = m
    BY <1>1
  <2>2. flat[m] \in Seq(S) /\ lists[m + 1] \in Seq(S)
    BY <2>1, <1>1
  <2>3. flat[m + 1] = some[m + 1]
    BY <1>4, <2>1, Zenon
  <2>4. some[m + 1] = IF m + 1 = 1 THEN lists[m + 1] ELSE some[m] \o lists[m + 1]
    BY <1>2, <2>1, Zenon DEF IsFlat
  <2>5. CASE m = 0
    <3>1. lists[m + 1] = <<>> \o lists[m + 1]
      BY <2>2
    <3> QED
      BY <2>2, <2>3, <2>4, <2>5, <3>1, <1>4
  <2>6. CASE m # 0
    <3>1. flat[m] = some[m] /\ m + 1 # 1
      BY <1>4, <2>1, <2>6
    <3>2. flat[m + 1] = flat[m] \o lists[m + 1]
      BY <2>3, <2>4, <3>1
    <3> QED
      BY <2>2, <3>2
  <2> QED
    BY <2>5, <2>6
<1> HIDE DEF T
<1>7. T = Nat
  BY <1>5, <1>6, AllNumbers DEF T
<1>8. \A i \in 1 .. n : flat[i] = flat[i - 1] \o lists[i]
  <2> SUFFICES ASSUME NEW i \in 1 .. n PROVE flat[i] = flat[i - 1] \o lists[i]
    OBVIOUS
  <2>1. i \in T /\ i <= n /\ i # 0
    BY <1>1, <1>7
  <2> QED
    BY <2>1 DEF T
<1>9. \A i \in 0 .. n : flat[i] \in Seq(S)
  <2> SUFFICES ASSUME NEW i \in 0 .. n PROVE flat[i] \in Seq(S)
    OBVIOUS
  <2>1. i \in T /\ i <= n
    BY <1>1, <1>7
  <2> QED
    BY <2>1 DEF T
<1> QED
  BY <1>3, <1>4, <1>8, <1>9 DEF IsFlattening, n

\* A list that is flattened has what its lists have.
LEMMA FlatHas ==
    ASSUME NEW S, NEW lists \in Seq(Seq(S))
    PROVE  /\ FlattenSeq(lists) \in Seq(S)
           /\ \A x : (\E k \in 1 .. Len(FlattenSeq(lists)) : FlattenSeq(lists)[k] = x)
                     <=> \E i \in 1 .. Len(lists) : \E k \in 1 .. Len(lists[i]) : lists[i][k] = x
<1> DEFINE n == Len(lists)
<1>1. PICK flat : /\ IsFlattening(flat, lists, n)
                  /\ \A i \in 0 .. n : flat[i] \in Seq(S)
                  /\ FlattenSeq(lists) = flat[n]
  BY FlattensInTurn
<1>2. n \in Nat /\ \A i \in 1 .. n : lists[i] \in Seq(S)
  OBVIOUS
<1> DEFINE Had(m, x) == \E i \in 1 .. m : \E k \in 1 .. Len(lists[i]) : lists[i][k] = x
           Has2(m, x) == \E k \in 1 .. Len(flat[m]) : flat[m][k] = x
           T == {m \in Nat : m <= n => \A x : Has2(m, x) <=> Had(m, x)}
<1> HIDE DEF n
<1>3. 0 \in T
  BY <1>1 DEF IsFlattening
<1>4. ASSUME NEW m \in T PROVE m + 1 \in T
  <2> SUFFICES ASSUME m + 1 <= n, NEW x PROVE Has2(m + 1, x) <=> Had(m + 1, x)
    <3> HIDE DEF Had, Has2
    <3> QED
      OBVIOUS
  <2>1. m \in Nat /\ m \in 0 .. n /\ m + 1 \in 1 .. n /\ m <= n /\ (m + 1) - 1 = m
    BY <1>2
  <2>2. flat[m] \in Seq(S) /\ lists[m + 1] \in Seq(S) /\ flat[m + 1] = flat[m] \o lists[m + 1]
    BY <2>1, <1>1, <1>2 DEF IsFlattening
  <2>3. Has2(m, x) <=> Had(m, x)
    BY <2>1
  <2>4. Had(m + 1, x) <=> Had(m, x) \/ \E k \in 1 .. Len(lists[m + 1]) : lists[m + 1][k] = x
    <3>1. 1 .. (m + 1) = (1 .. m) \cup {m + 1}
      BY <2>1
    <3> QED
      BY <3>1, Zenon
  <2>5. Has2(m + 1, x) <=> Has2(m, x) \/ \E k \in 1 .. Len(lists[m + 1]) : lists[m + 1][k] = x
    <3> DEFINE a == flat[m]
               b == lists[m + 1]
    <3>1. a \in Seq(S) /\ b \in Seq(S)
      BY <2>2
    <3> HIDE DEF a, b
    <3>2. /\ Len(a) \in Nat /\ Len(b) \in Nat /\ Len(a \o b) = Len(a) + Len(b)
          /\ \A k \in 1 .. Len(a) : (a \o b)[k] = a[k]
          /\ \A k \in 1 .. Len(b) : (a \o b)[Len(a) + k] = b[k]
      BY <3>1
    <3>3. (\E k \in 1 .. Len(a) : a[k] = x) \/ (\E k \in 1 .. Len(b) : b[k] = x)
          => \E k \in 1 .. Len(a \o b) : (a \o b)[k] = x
      <4>1. \A k \in 1 .. Len(a) : k \in 1 .. Len(a \o b)
        BY <3>2
      <4>2. \A k \in 1 .. Len(b) : Len(a) + k \in 1 .. Len(a \o b)
        BY <3>2
      <4> QED
        BY <3>2, <4>1, <4>2
    <3>4. (\E k \in 1 .. Len(a \o b) : (a \o b)[k] = x)
          => (\E k \in 1 .. Len(a) : a[k] = x) \/ (\E k \in 1 .. Len(b) : b[k] = x)
      <4> SUFFICES ASSUME NEW k \in 1 .. Len(a \o b), (a \o b)[k] = x
          PROVE (\E j \in 1 .. Len(a) : a[j] = x) \/ (\E j \in 1 .. Len(b) : b[j] = x)
        OBVIOUS
      <4>1. CASE k <= Len(a)
        BY <3>2, <4>1
      <4>2. CASE k > Len(a)
        <5>1. k - Len(a) \in 1 .. Len(b) /\ Len(a) + (k - Len(a)) = k
          BY <3>2, <4>2
        <5> QED
          BY <3>2, <5>1
      <4> QED
        BY <3>2, <4>1, <4>2
    <3> QED
      BY <2>2, <3>3, <3>4 DEF a, b
  <2> HIDE DEF Had, Has2
  <2> QED
    BY <2>3, <2>4, <2>5
<1> HIDE DEF T
<1>5. T = Nat
  BY <1>3, <1>4, AllNumbers DEF T
<1>6. \A x : Has2(n, x) <=> Had(n, x)
  <2>1. n \in T /\ n <= n
    BY <1>2, <1>5
  <2> QED
    BY <2>1, Zenon DEF T
<1>7. flat[n] \in Seq(S)
  BY <1>1, <1>2
<1> QED
  BY <1>1, <1>6, <1>7 DEF n

\* The places `at` in the first n of a list, in their order, of the records that have one of some ids.
IsPart(part, list, ids, n, at) ==
    /\ at \in [1 .. Len(part) -> 1 .. n]
    /\ \A k, l \in 1 .. Len(part) : k < l => at[k] < at[l]
    /\ \A k \in 1 .. Len(part) : part[k] = list[at[k]] /\ part[k].id \in ids
    /\ \A i \in 1 .. n : list[i].id \in ids => \E k \in 1 .. Len(part) : at[k] = i

LEMMA NothingIsPart ==
    ASSUME NEW list, NEW ids
    PROVE  \E at : IsPart(<<>>, list, ids, 0, at)
<1>1. IsPart(<<>>, list, ids, 0, [k \in 1 .. 0 |-> 0])
  <2>1. Len(<<>>) = 0 /\ 1 .. 0 = {}
    OBVIOUS
  <2> QED
    BY <2>1 DEF IsPart
<1> QED
  BY <1>1

LEMMA PartGrows ==
    ASSUME NEW S, NEW list \in Seq(S), NEW ids, NEW n \in Nat, n + 1 <= Len(list),
           NEW part \in Seq(S), NEW at, IsPart(part, list, ids, n, at)
    PROVE  \E longer :
              IsPart(part \o (IF list[n + 1].id \in ids THEN <<list[n + 1]>> ELSE <<>>), list, ids, n + 1, longer)
<1>1. CASE list[n + 1].id \notin ids
  <2>1. part \o <<>> = part
    OBVIOUS
  <2>2. IsPart(part, list, ids, n + 1, at)
    <3>1. 1 .. (n + 1) = (1 .. n) \cup {n + 1}
      OBVIOUS
    <3>2. at \in [1 .. Len(part) -> 1 .. (n + 1)]
      BY <3>1 DEF IsPart
    <3>3. \A i \in 1 .. (n + 1) : list[i].id \in ids => \E k \in 1 .. Len(part) : at[k] = i
      BY <3>1, <1>1, Zenon DEF IsPart
    <3> QED
      BY <3>2, <3>3, Zenon DEF IsPart
  <2> QED
    BY <1>1, <2>1, <2>2
<1>2. CASE list[n + 1].id \in ids
  <2> DEFINE m == Len(part)
             new == list[n + 1]
             whole == part \o <<new>>
             longer == [k \in 1 .. m + 1 |-> IF k = m + 1 THEN n + 1 ELSE at[k]]
  <2>1. m \in Nat /\ new \in S /\ n + 1 \in 1 .. (n + 1)
    OBVIOUS
  <2>2. Len(whole) = m + 1 /\ whole[m + 1] = new /\ \A k \in 1 .. m : whole[k] = part[k]
    BY <2>1
  <2>3. at \in [1 .. m -> 1 .. n]
    BY DEF IsPart
  <2> HIDE DEF m, whole
  <2>4. longer[m + 1] = n + 1 /\ \A k \in 1 .. m : longer[k] = at[k] /\ at[k] \in 1 .. n
    BY <2>1, <2>3
  <2>5. longer \in [1 .. m + 1 -> 1 .. (n + 1)]
    BY <2>1, <2>3
  <2> HIDE DEF longer
  <2>6. 1 .. (m + 1) = (1 .. m) \cup {m + 1}
    BY <2>1
  <2>7. \A k, l \in 1 .. m + 1 : k < l => longer[k] < longer[l]
    <3> SUFFICES ASSUME NEW k \in 1 .. m + 1, NEW l \in 1 .. m + 1, k < l PROVE longer[k] < longer[l]
      OBVIOUS
    <3>1. k \in 1 .. m
      BY <2>1
    <3>2. CASE l = m + 1
      BY <2>4, <3>1, <3>2
    <3>3. CASE l \in 1 .. m
      BY <2>4, <3>1, <3>3 DEF IsPart, m
    <3> QED
      BY <2>6, <3>2, <3>3
  <2>8. \A k \in 1 .. m + 1 : whole[k] = list[longer[k]] /\ whole[k].id \in ids
    <3> SUFFICES ASSUME NEW k \in 1 .. m + 1 PROVE whole[k] = list[longer[k]] /\ whole[k].id \in ids
      OBVIOUS
    <3>1. CASE k = m + 1
      BY <1>2, <2>2, <2>4, <3>1
    <3>2. CASE k \in 1 .. m
      <4>1. part[k] = list[at[k]] /\ part[k].id \in ids
        BY <3>2, Zenon DEF IsPart, m
      <4> QED
        BY <2>2, <2>4, <3>2, <4>1
    <3> QED
      BY <2>6, <3>1, <3>2
  <2>9. \A i \in 1 .. (n + 1) : list[i].id \in ids => \E k \in 1 .. m + 1 : longer[k] = i
    <3> SUFFICES ASSUME NEW i \in 1 .. (n + 1), list[i].id \in ids PROVE \E k \in 1 .. m + 1 : longer[k] = i
      OBVIOUS
    <3>1. CASE i = n + 1
      BY <2>4, <2>6, <3>1
    <3>2. CASE i \in 1 .. n
      <4>1. PICK k \in 1 .. m : at[k] = i
        BY <3>2, Zenon DEF IsPart, m
      <4> QED
        BY <2>4, <2>6, <4>1
    <3> QED
      BY <3>1, <3>2
  <2>10. IsPart(whole, list, ids, n + 1, longer)
    BY <2>2, <2>5, <2>7, <2>8, <2>9, Zenon DEF IsPart
  <2> QED
    BY <1>2, <2>10 DEF whole
<1> QED
  BY <1>1, <1>2

\* Only the records with one of some ids, each at its place among them.
LEMMA OnlyPicks ==
    ASSUME NEW S, NEW list \in Seq(S), NEW ids
    PROVE  /\ Only(list, ids) \in Seq(S)
           /\ \E at : IsPart(Only(list, ids), list, ids, Len(list), at)
<1> DEFINE n == Len(list)
           parts == [i \in DOMAIN list |-> IF list[i].id \in ids THEN <<list[i]>> ELSE <<>>]
<1>1. n \in Nat /\ DOMAIN list = 1 .. n /\ \A i \in 1 .. n : list[i] \in S
  OBVIOUS
<1>2. parts \in Seq(Seq(S)) /\ Len(parts) = n
      /\ \A i \in 1 .. n : parts[i] = IF list[i].id \in ids THEN <<list[i]>> ELSE <<>>
  <2>1. \A i \in 1 .. n : (IF list[i].id \in ids THEN <<list[i]>> ELSE <<>>) \in Seq(S)
    BY <1>1
  <2>2. parts \in [1 .. n -> Seq(S)]
    BY <1>1, <2>1
  <2>3. parts \in Seq(Seq(S)) /\ Len(parts) = n
    <3> HIDE DEF parts, n
    <3> QED
      BY <1>1, <2>2
  <2> QED
    BY <1>1, <2>3
<1>3. Only(list, ids) = FlattenSeq(parts)
  BY Zenon DEF Only
<1> HIDE DEF n, parts
<1>4. PICK flat : /\ IsFlattening(flat, parts, n)
                  /\ \A i \in 0 .. n : flat[i] \in Seq(S)
                  /\ FlattenSeq(parts) = flat[n]
  BY <1>2, FlattensInTurn
<1> DEFINE Good(i) == \E at : IsPart(flat[i], list, ids, i, at)
           T == {i \in Nat : i <= n => Good(i)}
<1>5. 0 \in T
  <2>1. Good(0)
    BY <1>4, NothingIsPart DEF IsFlattening
  <2> QED
    BY <2>1
<1>6. ASSUME NEW m \in T PROVE m + 1 \in T
  <2> SUFFICES ASSUME m + 1 <= n PROVE Good(m + 1)
    <3> HIDE DEF Good
    <3> QED
      OBVIOUS
  <2>1. m \in Nat /\ m \in 0 .. n /\ m + 1 \in 1 .. n /\ m <= n /\ (m + 1) - 1 = m
    BY <1>1
  <2>2. PICK at : IsPart(flat[m], list, ids, m, at)
    BY <2>1
  <2>3. flat[m] \in Seq(S) /\ flat[m + 1] = flat[m] \o parts[m + 1]
    BY <2>1, <1>4 DEF IsFlattening
  <2>4. parts[m + 1] = IF list[m + 1].id \in ids THEN <<list[m + 1]>> ELSE <<>>
    BY <1>2, <2>1
  <2>5. \E longer :
           IsPart(flat[m] \o (IF list[m + 1].id \in ids THEN <<list[m + 1]>> ELSE <<>>), list, ids, m + 1, longer)
    BY <2>1, <2>2, <2>3, PartGrows DEF n
  <2> QED
    BY <2>3, <2>4, <2>5
<1> HIDE DEF T, Good
<1>7. T = Nat
  BY <1>5, <1>6, AllNumbers DEF T
<1>8. Good(n)
  BY <1>1, <1>7 DEF T
<1> QED
  BY <1>1, <1>3, <1>4, <1>8 DEF Good, n

\* No two records of a list have one id.
IsUnique(list) == \A i, j \in 1 .. Len(list) : list[i].id = list[j].id => i = j

LEMMA FirstThere ==
    ASSUME NEW T, T \subseteq Nat, T # {}
    PROVE  Min(T) \in T
BY LeastExists DEF Min

LEMMA IdsOfPlaces ==
    ASSUME NEW S, NEW list \in Seq(S)
    PROVE  \A id : id \in Ids(list) <=> \E i \in 1 .. Len(list) : list[i].id = id
BY DEF Ids

\* What has an id is found, at its first place.
LEMMA FindsRecord ==
    ASSUME NEW S, NEW list \in Seq(S), NEW id
    PROVE  /\ Has(list, id) <=> id \in Ids(list)
           /\ id \in Ids(list) =>
                 /\ IndexOf(list, id) \in 1 .. Len(list)
                 /\ Find(list, id) = list[IndexOf(list, id)]
                 /\ Find(list, id) \in S /\ Find(list, id).id = id
<1> DEFINE at == {i \in 1 .. Len(list) : list[i].id = id}
<1>1. at \subseteq 1 .. Len(list) /\ (at # {} <=> id \in Ids(list)) /\ at \subseteq Nat
  BY DEF Ids
<1>2. IndexOf(list, id) = IF at # {} THEN Min(at) ELSE 0
  BY Zenon DEF IndexOf, SelectInSeq
<1>3. at # {} => Min(at) \in at
  <2> HIDE DEF at
  <2> QED
    BY <1>1, FirstThere
<1>4. CASE at = {}
  BY <1>1, <1>2, <1>4 DEF Has
<1>5. CASE at # {}
  <2>1. IndexOf(list, id) \in at
    BY <1>2, <1>3, <1>5
  <2>2. IndexOf(list, id) # 0
    BY <2>1
  <2>3. Find(list, id) = list[IndexOf(list, id)]
    BY DEF Find
  <2>4. list[IndexOf(list, id)] \in S
    BY <1>1, <2>1
  <2> QED
    BY <1>1, <1>5, <2>1, <2>2, <2>3, <2>4 DEF Has
<1> QED
  BY <1>4, <1>5

\* Where ids are told apart a record is the one found by its id.
LEMMA FindsItself ==
    ASSUME NEW S, NEW list \in Seq(S), IsUnique(list), NEW i \in 1 .. Len(list)
    PROVE  /\ IndexOf(list, list[i].id) = i /\ Find(list, list[i].id) = list[i]
           /\ list[i].id \in Ids(list) /\ Has(list, list[i].id)
<1>1. list[i].id \in Ids(list)
  BY DEF Ids
<1>2. /\ IndexOf(list, list[i].id) \in 1 .. Len(list)
      /\ Find(list, list[i].id) = list[IndexOf(list, list[i].id)]
      /\ Find(list, list[i].id).id = list[i].id
      /\ Has(list, list[i].id)
  BY <1>1, FindsRecord
<1>3. IndexOf(list, list[i].id) = i
  BY <1>2, Zenon DEF IsUnique
<1> QED
  BY <1>1, <1>2, <1>3

LEMMA OnlyKeeps ==
    ASSUME NEW S, NEW list \in Seq(S), NEW ids
    PROVE  /\ Only(list, ids) \in Seq(S)
           /\ Ids(Only(list, ids)) = Ids(list) \cap ids
           /\ \A k \in 1 .. Len(Only(list, ids)) : \E i \in 1 .. Len(list) : Only(list, ids)[k] = list[i]
           /\ \A i \in 1 .. Len(list) :
                 list[i].id \in ids => \E k \in 1 .. Len(Only(list, ids)) : Only(list, ids)[k] = list[i]
           /\ IsUnique(list) => IsUnique(Only(list, ids))
           /\ InOrderOfZ(list) => InOrderOfZ(Only(list, ids))
<1> DEFINE part == Only(list, ids)
           m == Len(part)
           n == Len(list)
<1>1. part \in Seq(S)
  BY OnlyPicks
<1>2. PICK at : IsPart(part, list, ids, n, at)
  BY OnlyPicks
<1> HIDE DEF part
<1>3. m \in Nat /\ n \in Nat
  BY <1>1
<1>4. /\ \A k \in 1 .. m : at[k] \in 1 .. n
      /\ \A k, l \in 1 .. m : k < l => at[k] < at[l]
      /\ \A k \in 1 .. m : part[k] = list[at[k]] /\ part[k].id \in ids
      /\ \A i \in 1 .. n : list[i].id \in ids => \E k \in 1 .. m : at[k] = i
  BY <1>2, Zenon DEF IsPart
<1> HIDE DEF m, n
<1>5. \A k \in 1 .. m : \E i \in 1 .. n : part[k] = list[i]
  BY <1>4
<1>6. \A i \in 1 .. n : list[i].id \in ids => \E k \in 1 .. m : part[k] = list[i]
  BY <1>4
<1>7. Ids(part) = Ids(list) \cap ids
  <2>1. DOMAIN part = 1 .. m /\ DOMAIN list = 1 .. n
    BY <1>1 DEF m, n
  <2>2. ASSUME NEW id PROVE id \in Ids(part) <=> id \in Ids(list) /\ id \in ids
    <3>1. id \in Ids(part) <=> \E k \in 1 .. m : part[k].id = id
      BY <2>1 DEF Ids
    <3>2. id \in Ids(list) <=> \E i \in 1 .. n : list[i].id = id
      BY <2>1 DEF Ids
    <3> QED
      BY <3>1, <3>2, <1>4, <1>5, <1>6
  <2> QED
    BY <2>2
<1>8. IsUnique(list) => IsUnique(part)
  <2> SUFFICES ASSUME IsUnique(list), NEW k \in 1 .. m, NEW l \in 1 .. m, part[k].id = part[l].id PROVE k = l
    BY DEF IsUnique, m
  <2>1. list[at[k]].id = list[at[l]].id
    BY <1>4
  <2>2. at[k] = at[l]
    BY <2>1, <1>4 DEF IsUnique, n
  <2>3. at[k] \in Nat /\ at[l] \in Nat
    BY <1>4
  <2>4. ~(k < l) /\ ~(l < k)
    BY <2>2, <2>3, <1>4
  <2> QED
    BY <2>4
<1>9. InOrderOfZ(list) => InOrderOfZ(part)
  <2> SUFFICES ASSUME InOrderOfZ(list), NEW k \in 1 .. m, NEW l \in 1 .. m, k <= l PROVE part[k].z <= part[l].z
    BY DEF InOrderOfZ, m
  <2>1. at[k] \in 1 .. n /\ at[l] \in 1 .. n /\ at[k] <= at[l]
    <3>1. at[k] \in 1 .. n /\ at[l] \in 1 .. n
      BY <1>4
    <3>2. k < l \/ k = l
      OBVIOUS
    <3> QED
      BY <3>1, <3>2, <1>4
  <2>2. list[at[k]].z <= list[at[l]].z
    BY <2>1 DEF InOrderOfZ, n
  <2> QED
    BY <2>2, <1>4
<1> QED
  BY <1>1, <1>5, <1>6, <1>7, <1>8, <1>9 DEF part, m, n

\* Where ids are told apart the record found among some is the one found among all.
LEMMA OnlyFinds ==
    ASSUME NEW S, NEW list \in Seq(S), IsUnique(list), NEW ids, NEW id \in Ids(list) \cap ids
    PROVE  Find(Only(list, ids), id) = Find(list, id)
<1> DEFINE part == Only(list, ids)
<1>1. part \in Seq(S) /\ id \in Ids(part) /\ \A k \in 1 .. Len(part) : \E i \in 1 .. Len(list) : part[k] = list[i]
  BY OnlyKeeps
<1> HIDE DEF part
<1>2. IndexOf(part, id) \in 1 .. Len(part) /\ Find(part, id) = part[IndexOf(part, id)] /\ Find(part, id).id = id
  BY <1>1, FindsRecord
<1>3. PICK i \in 1 .. Len(list) : Find(part, id) = list[i]
  BY <1>1, <1>2
<1>4. Find(list, list[i].id) = list[i]
  BY FindsItself
<1> QED
  BY <1>2, <1>3, <1>4 DEF part

LEMMA OnlyNone ==
    ASSUME NEW S, NEW list \in Seq(S), NEW ids, Ids(list) \cap ids = {}
    PROVE  Only(list, ids) = <<>>
<1> DEFINE part == Only(list, ids)
<1>1. part \in Seq(S) /\ Ids(part) = {}
  BY OnlyKeeps
<1> HIDE DEF part
<1>2. Len(part) = 0
  <2> SUFFICES ASSUME Len(part) # 0 PROVE FALSE
    OBVIOUS
  <2>1. 1 \in DOMAIN part
    BY <1>1
  <2>2. part[1].id \in Ids(part)
    BY <2>1 DEF Ids
  <2> QED
    BY <1>1, <2>2
<1> QED
  BY <1>1, <1>2 DEF part

LEMMA OnlyOne ==
    ASSUME NEW S, NEW list \in Seq(S), IsUnique(list), NEW id \in Ids(list)
    PROVE  Only(list, {id}) = <<Find(list, id)>>
<1> DEFINE part == Only(list, {id})
<1>1. part \in Seq(S) /\ Ids(part) = {id} /\ IsUnique(part)
  BY OnlyKeeps
<1>2. Find(part, id) = Find(list, id)
  BY OnlyFinds
<1> HIDE DEF part
<1>3. \A k \in 1 .. Len(part) : part[k].id = id
  BY <1>1, IdsOfPlaces
<1>4. \E k \in 1 .. Len(part) : part[k].id = id
  BY <1>1, IdsOfPlaces
<1>5. Len(part) = 1
  <2>1. Len(part) \in Nat /\ Len(part) >= 1
    BY <1>1, <1>4
  <2>2. ~(Len(part) >= 2)
    <3> SUFFICES ASSUME Len(part) >= 2 PROVE FALSE
      OBVIOUS
    <3>1. 1 \in 1 .. Len(part) /\ 2 \in 1 .. Len(part)
      BY <2>1
    <3> QED
      BY <3>1, <1>1, <1>3 DEF IsUnique
  <2> DEFINE m == Len(part)
  <2> HIDE DEF m
  <2>3. m \in Nat /\ m >= 1 /\ ~(m >= 2)
    BY <2>1, <2>2 DEF m
  <2>4. m = 1
    BY <2>3
  <2> QED
    BY <2>4 DEF m
<1>6. Find(part, part[1].id) = part[1] /\ part[1].id = id
  <2>1. 1 \in 1 .. Len(part)
    BY <1>5
  <2> QED
    BY <1>1, <1>3, <2>1, FindsItself
<1>7. part = <<part[1]>>
  BY <1>1, <1>5
<1> QED
  BY <1>2, <1>6, <1>7 DEF part

\* A longer beginning of a list.
LEMMA BeginsLonger ==
    ASSUME NEW S, NEW list \in Seq(S), NEW n \in Nat, n + 1 <= Len(list)
    PROVE  SubSeq(list, 1, n + 1) = Append(SubSeq(list, 1, n), list[n + 1])
<1> DEFINE before == SubSeq(list, 1, n)
           after == SubSeq(list, 1, n + 1)
           new == list[n + 1]
<1>1. before \in Seq(S) /\ Len(before) = n /\ \A i \in 1 .. n : before[i] = list[i]
  OBVIOUS
<1>2. after \in Seq(S) /\ Len(after) = n + 1 /\ \A i \in 1 .. n + 1 : after[i] = list[i]
  OBVIOUS
<1>3. new \in S
  OBVIOUS
<1> HIDE DEF before, after
<1>4. Append(before, new) \in Seq(S) /\ Len(Append(before, new)) = n + 1
      /\ \A i \in 1 .. n + 1 : Append(before, new)[i] = list[i]
  BY <1>1, <1>3
<1>5. \A i \in 1 .. n + 1 : Append(before, new)[i] = after[i]
  BY <1>2, <1>4
<1>6. after = Append(before, new)
  BY <1>2, <1>4, <1>5, SeqEqual
<1> QED
  BY <1>6 DEF before, after

LEMMA OnlyAll ==
    ASSUME NEW S, NEW list \in Seq(S), NEW ids, Ids(list) \subseteq ids
    PROVE  Only(list, ids) = list
<1> DEFINE n == Len(list)
           parts == [i \in DOMAIN list |-> IF list[i].id \in ids THEN <<list[i]>> ELSE <<>>]
<1>1. n \in Nat /\ DOMAIN list = 1 .. n /\ \A i \in 1 .. n : list[i] \in S /\ list[i].id \in ids
  BY DEF Ids
<1>2. parts \in Seq(Seq(S)) /\ Len(parts) = n /\ \A i \in 1 .. n : parts[i] = <<list[i]>>
  <2>1. \A i \in 1 .. n : <<list[i]>> \in Seq(S)
    BY <1>1
  <2>2. parts \in [1 .. n -> Seq(S)]
    BY <1>1, <2>1
  <2>3. parts \in Seq(Seq(S)) /\ Len(parts) = n
    <3> HIDE DEF parts, n
    <3> QED
      BY <1>1, <2>2
  <2> QED
    BY <1>1, <2>3
<1>3. Only(list, ids) = FlattenSeq(parts)
  BY Zenon DEF Only
<1> HIDE DEF n, parts
<1>4. PICK flat : /\ IsFlattening(flat, parts, n)
                  /\ \A i \in 0 .. n : flat[i] \in Seq(S)
                  /\ FlattenSeq(parts) = flat[n]
  BY <1>2, FlattensInTurn
<1> DEFINE T == {i \in Nat : i <= n => flat[i] = SubSeq(list, 1, i)}
<1>5. 0 \in T
  <2>1. SubSeq(list, 1, 0) = <<>>
    BY SubSeqEmpty
  <2> QED
    BY <2>1, <1>4 DEF IsFlattening
<1>6. ASSUME NEW m \in T PROVE m + 1 \in T
  <2> SUFFICES ASSUME m + 1 <= n PROVE flat[m + 1] = SubSeq(list, 1, m + 1)
    OBVIOUS
  <2>1. m \in Nat /\ m + 1 \in 1 .. n /\ m <= n /\ (m + 1) - 1 = m /\ m + 1 <= Len(list)
    BY <1>1 DEF n
  <2>2. flat[m + 1] = SubSeq(list, 1, m) \o <<list[m + 1]>>
    BY <2>1, <1>2, <1>4 DEF IsFlattening
  <2>3. SubSeq(list, 1, m) \in Seq(S) /\ list[m + 1] \in S
    BY <2>1, <1>1
  <2> DEFINE before == SubSeq(list, 1, m)
  <2>4. SubSeq(list, 1, m + 1) = Append(before, list[m + 1])
    BY <2>1, BeginsLonger
  <2> HIDE DEF before
  <2>5. before \o <<list[m + 1]>> = Append(before, list[m + 1])
    BY <2>3 DEF before
  <2> QED
    BY <2>2, <2>4, <2>5 DEF before
<1> HIDE DEF T
<1>7. T = Nat
  BY <1>5, <1>6, AllNumbers DEF T
<1>8. flat[n] = SubSeq(list, 1, n)
  BY <1>1, <1>7 DEF T
<1>9. SubSeq(list, 1, n) = list
  BY DEF n
<1> QED
  BY <1>3, <1>4, <1>8, <1>9

LEMMA LastIsGreatest ==
    ASSUME NEW n \in Nat, NEW s \in SUBSET (1 .. n), n \in s
    PROVE  Max(s) = n
BY GreatestIsLast, Zenon DEF Max, Stored!Max

LEMMA ThereIsGreatest ==
    ASSUME NEW n \in Nat, NEW s \in SUBSET (1 .. n), s # {}
    PROVE  Max(s) \in s
BY GreatestIsThere, Zenon DEF Max, Stored!Max

\* A list put in order: each record in turn is added by its z-index.
IsZFold(list, fold, n) ==
    fold = [s \in SUBSET (1 .. n) |->
                IF s = {} THEN <<>>
                ELSE AddByZ(fold[s \ {Max(s)}], list[Max(s)])]

LEMMA ZFoldsThere ==
    ASSUME NEW list, NEW n \in Nat
    PROVE  \E fold : IsZFold(list, fold, n)
<1> DEFINE T == {m \in Nat : \E fold : IsZFold(list, fold, m)}
<1>1. 0 \in T
  <2> DEFINE fold == [s \in SUBSET (1 .. 0) |-> <<>>]
  <2>1. \A s \in SUBSET (1 .. 0) : s = {}
    OBVIOUS
  <2>2. fold = [s \in SUBSET (1 .. 0) |->
                IF s = {} THEN <<>>
                ELSE AddByZ(fold[s \ {Max(s)}], list[Max(s)])]
    BY <2>1, Zenon
  <2>3. IsZFold(list, fold, 0)
    BY <2>2, Zenon DEF IsZFold
  <2> QED
    BY <2>3
<1>2. ASSUME NEW m \in T PROVE m + 1 \in T
  <2>1. PICK before : IsZFold(list, before, m)
    OBVIOUS
  <2> DEFINE k == m + 1
             fold == [s \in SUBSET (1 .. k) |->
                        IF k \in s THEN AddByZ(before[s \ {k}], list[k])
                        ELSE before[s]]
             step(s) == IF s = {} THEN <<>>
                        ELSE AddByZ(fold[s \ {Max(s)}], list[Max(s)])
  <2>2. k \in Nat
    OBVIOUS
  <2>3. ASSUME NEW s \in SUBSET (1 .. k) PROVE fold[s] = step(s)
    <3>1. CASE k \in s
      <4>1. Max(s) = k /\ s # {}
        <5> HIDE DEF k
        <5> QED
          BY <3>1, <2>2, LastIsGreatest
      <4>2. s \ {k} \in SUBSET (1 .. k) /\ k \notin s \ {k}
        OBVIOUS
      <4>3. fold[s \ {k}] = before[s \ {k}]
        BY <4>2, Zenon
      <4> QED
        BY <3>1, <4>1, <4>3, Zenon
    <3>2. CASE k \notin s
      <4>1. s \in SUBSET (1 .. m)
        BY <3>2
      <4>2. s # {} => Max(s) \in s
        <5> SUFFICES ASSUME s # {} PROVE Max(s) \in s
          OBVIOUS
        <5> QED
          BY <4>1, ThereIsGreatest
      <4>3. fold[s] = before[s]
        BY <3>2, Zenon
      <4>4. s \ {Max(s)} \in SUBSET (1 .. k) /\ k \notin s \ {Max(s)}
        BY <3>2
      <4>5. fold[s \ {Max(s)}] = before[s \ {Max(s)}]
        BY <4>4, Zenon
      <4>6. before[s] = IF s = {} THEN <<>>
                         ELSE AddByZ(before[s \ {Max(s)}], list[Max(s)])
        BY <2>1, <4>1, Zenon DEF IsZFold
      <4> QED
        BY <4>3, <4>5, <4>6, Zenon
    <3> QED
      BY <3>1, <3>2
  <2>4. IsZFold(list, fold, k)
    <3>1. fold = [s \in SUBSET (1 .. k) |-> fold[s]]
      BY Zenon
    <3>2. [s \in SUBSET (1 .. k) |-> fold[s]] = [s \in SUBSET (1 .. k) |-> step(s)]
      <4> HIDE DEF step, fold
      <4> QED
        BY <2>3, Zenon
    <3>3. fold = [s \in SUBSET (1 .. k) |-> step(s)]
      BY <3>1, <3>2, Zenon
    <3> QED
      BY <3>3, Zenon DEF IsZFold
  <2> HIDE DEF fold, k, step
  <2> QED
    BY <2>4, <2>2 DEF k
<1> HIDE DEF T
<1>3. T = Nat
  BY <1>1, <1>2, AllNumbers DEF T
<1> QED
  BY <1>3 DEF T

LEMMA ZFoldsInTurn ==
    ASSUME NEW S, NEW list \in Seq(S)
    PROVE  \E done :
              /\ done[0] = <<>>
              /\ \A i \in 1 .. Len(list) : done[i] = AddByZ(done[i - 1], list[i])
              /\ InZOrder(list) = done[Len(list)]
<1> DEFINE n == Len(list)
           fold == CHOOSE fold : IsZFold(list, fold, n)
           done == [i \in 0 .. n |-> fold[1 .. i]]
<1>1. n \in Nat /\ DOMAIN list = 1 .. n
  OBVIOUS
<1>2. IsZFold(list, fold, n)
  <2> HIDE DEF n
  <2> QED
    BY <1>1, ZFoldsThere
<1>3. InZOrder(list) = fold[1 .. n]
  <2>1. InZOrder(list) = (CHOOSE f : IsZFold(list, f, n))[1 .. n]
    BY <1>1, Zenon DEF InZOrder, FoldLeft, MapThenFoldSet, IsZFold
  <2> QED
    BY <2>1
<1> HIDE DEF fold, n
<1>4. ASSUME NEW s \in SUBSET (1 .. n), s # {}
      PROVE  fold[s] = AddByZ(fold[s \ {Max(s)}], list[Max(s)])
  BY <1>2, <1>4, Zenon DEF IsZFold
<1>5. fold[{}] = <<>>
  <2>1. {} \in SUBSET (1 .. n)
    OBVIOUS
  <2> QED
    BY <1>2, <2>1, Zenon DEF IsZFold
<1>6. done[0] = <<>>
  <2>1. 1 .. 0 = {} /\ 0 \in 0 .. n
    BY <1>1
  <2> QED
    BY <2>1, <1>5, Zenon
<1>7. ASSUME NEW i \in 1 .. n
      PROVE  done[i] = AddByZ(done[i - 1], list[i])
  <2>1. i \in Nat /\ i \in 0 .. n /\ i - 1 \in 0 .. n /\ 1 .. i \in SUBSET (1 .. n) /\ 1 .. i # {}
    BY <1>1
  <2>2. Max(1 .. i) = i
    BY <2>1, LastIsGreatest
  <2>3. (1 .. i) \ {i} = 1 .. (i - 1)
    BY <2>1
  <2>4. fold[1 .. i] = AddByZ(fold[1 .. (i - 1)], list[i])
    BY <1>4, <2>1, <2>2, <2>3, Zenon
  <2> QED
    BY <2>1, <2>4, Zenon
<1>8. done[n] = fold[1 .. n]
  <2>1. n \in 0 .. n
    BY <1>1
  <2> QED
    BY <2>1, Zenon
<1> HIDE DEF done
<1> QED
  BY <1>3, <1>6, <1>7, <1>8, Zenon DEF n

\* The screens that patches reach, one after the other.
IsScreenFold(list, views, fold, n) ==
    fold = [s \in SUBSET (1 .. n) |->
                IF s = {} THEN {views}
                ELSE PatchEach(fold[s \ {Max(s)}], list[Max(s)])]

LEMMA ScreenFoldsThere ==
    ASSUME NEW list, NEW views, NEW n \in Nat
    PROVE  \E fold : IsScreenFold(list, views, fold, n)
<1> DEFINE T == {m \in Nat : \E fold : IsScreenFold(list, views, fold, m)}
<1>1. 0 \in T
  <2> DEFINE fold == [s \in SUBSET (1 .. 0) |-> {views}]
  <2>1. \A s \in SUBSET (1 .. 0) : s = {}
    OBVIOUS
  <2>2. fold = [s \in SUBSET (1 .. 0) |->
                IF s = {} THEN {views}
                ELSE PatchEach(fold[s \ {Max(s)}], list[Max(s)])]
    BY <2>1, Zenon
  <2>3. IsScreenFold(list, views, fold, 0)
    BY <2>2, Zenon DEF IsScreenFold
  <2> QED
    BY <2>3
<1>2. ASSUME NEW m \in T PROVE m + 1 \in T
  <2>1. PICK before : IsScreenFold(list, views, before, m)
    OBVIOUS
  <2> DEFINE k == m + 1
             fold == [s \in SUBSET (1 .. k) |->
                        IF k \in s THEN PatchEach(before[s \ {k}], list[k])
                        ELSE before[s]]
             step(s) == IF s = {} THEN {views}
                        ELSE PatchEach(fold[s \ {Max(s)}], list[Max(s)])
  <2>2. k \in Nat
    OBVIOUS
  <2>3. ASSUME NEW s \in SUBSET (1 .. k) PROVE fold[s] = step(s)
    <3>1. CASE k \in s
      <4>1. Max(s) = k /\ s # {}
        <5> HIDE DEF k
        <5> QED
          BY <3>1, <2>2, LastIsGreatest
      <4>2. s \ {k} \in SUBSET (1 .. k) /\ k \notin s \ {k}
        OBVIOUS
      <4>3. fold[s \ {k}] = before[s \ {k}]
        BY <4>2, Zenon
      <4> QED
        BY <3>1, <4>1, <4>3, Zenon
    <3>2. CASE k \notin s
      <4>1. s \in SUBSET (1 .. m)
        BY <3>2
      <4>2. s # {} => Max(s) \in s
        <5> SUFFICES ASSUME s # {} PROVE Max(s) \in s
          OBVIOUS
        <5> QED
          BY <4>1, ThereIsGreatest
      <4>3. fold[s] = before[s]
        BY <3>2, Zenon
      <4>4. s \ {Max(s)} \in SUBSET (1 .. k) /\ k \notin s \ {Max(s)}
        BY <3>2
      <4>5. fold[s \ {Max(s)}] = before[s \ {Max(s)}]
        BY <4>4, Zenon
      <4>6. before[s] = IF s = {} THEN {views}
                         ELSE PatchEach(before[s \ {Max(s)}], list[Max(s)])
        BY <2>1, <4>1, Zenon DEF IsScreenFold
      <4> QED
        BY <4>3, <4>5, <4>6, Zenon
    <3> QED
      BY <3>1, <3>2
  <2>4. IsScreenFold(list, views, fold, k)
    <3>1. fold = [s \in SUBSET (1 .. k) |-> fold[s]]
      BY Zenon
    <3>2. [s \in SUBSET (1 .. k) |-> fold[s]] = [s \in SUBSET (1 .. k) |-> step(s)]
      <4> HIDE DEF step, fold
      <4> QED
        BY <2>3, Zenon
    <3>3. fold = [s \in SUBSET (1 .. k) |-> step(s)]
      BY <3>1, <3>2, Zenon
    <3> QED
      BY <3>3, Zenon DEF IsScreenFold
  <2> HIDE DEF fold, k, step
  <2> QED
    BY <2>4, <2>2 DEF k
<1> HIDE DEF T
<1>3. T = Nat
  BY <1>1, <1>2, AllNumbers DEF T
<1> QED
  BY <1>3 DEF T

LEMMA ScreenFoldsInTurn ==
    ASSUME NEW S, NEW list \in Seq(S), NEW views
    PROVE  \E done :
              /\ done[0] = {views}
              /\ \A i \in 1 .. Len(list) : done[i] = PatchEach(done[i - 1], list[i])
              /\ PatchScreens(views, list) = done[Len(list)]
<1> DEFINE n == Len(list)
           fold == CHOOSE fold : IsScreenFold(list, views, fold, n)
           done == [i \in 0 .. n |-> fold[1 .. i]]
<1>1. n \in Nat /\ DOMAIN list = 1 .. n
  OBVIOUS
<1>2. IsScreenFold(list, views, fold, n)
  <2> HIDE DEF n
  <2> QED
    BY <1>1, ScreenFoldsThere
<1>3. PatchScreens(views, list) = fold[1 .. n]
  <2>1. PatchScreens(views, list) = (CHOOSE f : IsScreenFold(list, views, f, n))[1 .. n]
    BY <1>1, Zenon DEF PatchScreens, FoldLeft, MapThenFoldSet, IsScreenFold
  <2> QED
    BY <2>1
<1> HIDE DEF fold, n
<1>4. ASSUME NEW s \in SUBSET (1 .. n), s # {}
      PROVE  fold[s] = PatchEach(fold[s \ {Max(s)}], list[Max(s)])
  BY <1>2, <1>4, Zenon DEF IsScreenFold
<1>5. fold[{}] = {views}
  <2>1. {} \in SUBSET (1 .. n)
    OBVIOUS
  <2> QED
    BY <1>2, <2>1, Zenon DEF IsScreenFold
<1>6. done[0] = {views}
  <2>1. 1 .. 0 = {} /\ 0 \in 0 .. n
    BY <1>1
  <2> QED
    BY <2>1, <1>5, Zenon
<1>7. ASSUME NEW i \in 1 .. n
      PROVE  done[i] = PatchEach(done[i - 1], list[i])
  <2>1. i \in Nat /\ i \in 0 .. n /\ i - 1 \in 0 .. n /\ 1 .. i \in SUBSET (1 .. n) /\ 1 .. i # {}
    BY <1>1
  <2>2. Max(1 .. i) = i
    BY <2>1, LastIsGreatest
  <2>3. (1 .. i) \ {i} = 1 .. (i - 1)
    BY <2>1
  <2>4. fold[1 .. i] = PatchEach(fold[1 .. (i - 1)], list[i])
    BY <1>4, <2>1, <2>2, <2>3, Zenon
  <2> QED
    BY <2>1, <2>4, Zenon
<1>8. done[n] = fold[1 .. n]
  <2>1. n \in 0 .. n
    BY <1>1
  <2> QED
    BY <2>1, Zenon
<1> HIDE DEF done
<1> QED
  BY <1>3, <1>6, <1>7, <1>8, Zenon DEF n

LEMMA InsertsThere ==
    ASSUME NEW S, NEW list \in Seq(S), NEW w \in S, NEW place \in 1 .. Len(list) + 1
    PROVE  LET longer == InsertAt(list, place, w)
           IN  /\ longer \in Seq(S) /\ Len(longer) = Len(list) + 1
               /\ \A i \in 1 .. Len(list) + 1 :
                     longer[i] = IF i < place THEN list[i] ELSE IF i = place THEN w ELSE list[i - 1]
<1>1. InsertAt(list, place, w) = Stored!Composition!InsertAt(list, place, w)
  BY Zenon DEF InsertAt, Stored!Composition!InsertAt
<1> DEFINE longer == Stored!Composition!InsertAt(list, place, w)
<1>2. /\ longer \in Seq(S) /\ Len(longer) = Len(list) + 1
      /\ \A i \in 1 .. Len(list) + 1 :
            longer[i] = IF i < place THEN list[i] ELSE IF i = place THEN w ELSE list[i - 1]
  BY InsertsAt
<1> HIDE DEF longer
<1> QED
  BY <1>1, <1>2 DEF longer

\* A list with one record more, in the order of their z-index if it was.
IsAdded(longer, list, w) ==
    /\ Len(longer) = Len(list) + 1
    /\ \A k \in 1 .. Len(list) + 1 : longer[k] = w \/ \E i \in 1 .. Len(list) : longer[k] = list[i]
    /\ \A i \in 1 .. Len(list) : \E k \in 1 .. Len(list) + 1 : longer[k] = list[i]
    /\ \E k \in 1 .. Len(list) + 1 : longer[k] = w
    /\ Ids(longer) = Ids(list) \cup {w.id}
    /\ IsUnique(list) /\ w.id \notin Ids(list) => IsUnique(longer)
    /\ InOrderOfZ(list) => InOrderOfZ(longer)
    /\ InOrderOfZ(list) /\ (\A i \in 1 .. Len(list) : list[i].z <= w.z) => longer = Append(list, w)

LEMMA AddsRecord ==
    ASSUME NEW S, \A r \in S : r.z \in Int, NEW list \in Seq(S), NEW w \in S
    PROVE  AddByZ(list, w) \in Seq(S) /\ IsAdded(AddByZ(list, w), list, w)
<1> DEFINE above == {i \in DOMAIN list : list[i].z > w.z}
           place == IF above = {} THEN Len(list) + 1 ELSE CHOOSE i \in above : \A j \in above : i <= j
           longer == AddByZ(list, w)
           n == Len(list)
<1>1. longer = InsertAt(list, place, w)
  BY Zenon DEF AddByZ
<1>2. n \in Nat /\ DOMAIN list = 1 .. n
  OBVIOUS
<1>3. above \subseteq 1 .. n /\ above \subseteq Nat
  BY <1>2
<1>4. above # {} => place \in above
  <2> SUFFICES ASSUME above # {} PROVE \E i \in above : \A j \in above : i <= j
    OBVIOUS
  <2> HIDE DEF above
  <2> QED
    BY <1>3, LeastExists
<1>5. place \in 1 .. n + 1
  BY <1>2, <1>3, <1>4
<1> HIDE DEF place, above
<1>6. /\ longer \in Seq(S) /\ Len(longer) = n + 1
      /\ \A i \in 1 .. n + 1 :
            longer[i] = IF i < place THEN list[i] ELSE IF i = place THEN w ELSE list[i - 1]
  <2> HIDE DEF longer
  <2>1. place \in 1 .. Len(list) + 1
    BY <1>5
  <2>2. /\ InsertAt(list, place, w) \in Seq(S) /\ Len(InsertAt(list, place, w)) = Len(list) + 1
        /\ \A i \in 1 .. Len(list) + 1 :
              InsertAt(list, place, w)[i]
                 = IF i < place THEN list[i] ELSE IF i = place THEN w ELSE list[i - 1]
    <3>1. InsertAt(list, place, w) \in Seq(S) /\ Len(InsertAt(list, place, w)) = Len(list) + 1
      BY <2>1, InsertsThere
    <3>2. ASSUME NEW i \in 1 .. Len(list) + 1
          PROVE  InsertAt(list, place, w)[i]
                    = IF i < place THEN list[i] ELSE IF i = place THEN w ELSE list[i - 1]
      BY <2>1, InsertsThere
    <3> QED
      BY <3>1, <3>2, Zenon
  <2> QED
    BY <1>1, <2>2, Zenon
<1>7. InOrderOfZ(list) => /\ InOrderOfZ(longer)
                          /\ (\A i \in 1 .. n : list[i].z <= w.z) => longer = Append(list, w)
  <2>1. longer = Stored!AddWidget(list, w)
    BY Zenon DEF AddByZ, InsertAt, Stored!AddWidget, Stored!Composition!AddByZ, Stored!Composition!InsertAt
  <2> HIDE DEF longer
  <2> QED
    BY <2>1, AddKeepsOrder
<1> HIDE DEF longer
<1>8. \A k \in 1 .. n + 1 : longer[k] = w \/ \E i \in 1 .. n : longer[k] = list[i]
  <2> SUFFICES ASSUME NEW k \in 1 .. n + 1 PROVE longer[k] = w \/ \E i \in 1 .. n : longer[k] = list[i]
    OBVIOUS
  <2>1. CASE k < place
    BY <2>1, <1>2, <1>5, <1>6
  <2>2. CASE k = place
    BY <2>2, <1>2, <1>5, <1>6
  <2>3. CASE k > place
    <3>1. k - 1 \in 1 .. n
      BY <2>3, <1>2, <1>5
    <3> QED
      BY <2>3, <3>1, <1>2, <1>5, <1>6
  <2> QED
    BY <2>1, <2>2, <2>3, <1>5
<1>9. \A i \in 1 .. n : \E k \in 1 .. n + 1 : longer[k] = list[i] /\ k = IF i < place THEN i ELSE i + 1
  <2> SUFFICES ASSUME NEW i \in 1 .. n
               PROVE \E k \in 1 .. n + 1 : longer[k] = list[i] /\ k = IF i < place THEN i ELSE i + 1
    OBVIOUS
  <2>1. CASE i < place
    BY <2>1, <1>2, <1>5, <1>6
  <2>2. CASE i >= place
    <3>1. i + 1 \in 1 .. n + 1 /\ (i + 1) - 1 = i /\ ~(i + 1 < place) /\ i + 1 # place /\ ~(i < place)
      BY <2>2, <1>2, <1>5
    <3>2. longer[i + 1] = list[i]
      BY <3>1, <1>6
    <3> QED
      BY <3>1, <3>2
  <2> QED
    BY <2>1, <2>2, <1>5
<1>10. longer[place] = w
  BY <1>5, <1>6
<1>11. Ids(longer) = Ids(list) \cup {w.id}
  <2>1. DOMAIN longer = 1 .. n + 1
    BY <1>6
  <2>2. ASSUME NEW id PROVE id \in Ids(longer) <=> id \in Ids(list) \/ id = w.id
    <3>1. id \in Ids(longer) <=> \E k \in 1 .. n + 1 : longer[k].id = id
      BY <2>1 DEF Ids
    <3>2. id \in Ids(list) <=> \E i \in 1 .. n : list[i].id = id
      BY <1>2 DEF Ids
    <3>3. id \in Ids(list) => id \in Ids(longer)
      BY <3>1, <3>2, <1>9
    <3>4. id = w.id => id \in Ids(longer)
      BY <3>1, <1>5, <1>10
    <3>5. id \in Ids(longer) => id \in Ids(list) \/ id = w.id
      BY <3>1, <3>2, <1>8
    <3> QED
      BY <3>3, <3>4, <3>5
  <2> QED
    BY <2>2
<1>12. IsUnique(list) /\ w.id \notin Ids(list) => IsUnique(longer)
  <2> SUFFICES ASSUME IsUnique(list), w.id \notin Ids(list),
                      NEW k \in 1 .. n + 1, NEW l \in 1 .. n + 1, longer[k].id = longer[l].id
               PROVE  k = l
    BY <1>6 DEF IsUnique
  <2> DEFINE Was(x) == IF x < place THEN x ELSE x - 1
  <2>1. \A x \in 1 .. n + 1 : x # place => Was(x) \in 1 .. n /\ longer[x] = list[Was(x)]
    <3> SUFFICES ASSUME NEW x \in 1 .. n + 1, x # place PROVE Was(x) \in 1 .. n /\ longer[x] = list[Was(x)]
      OBVIOUS
    <3>1. CASE x < place
      BY <3>1, <1>2, <1>5, <1>6
    <3>2. CASE x > place
      BY <3>2, <1>2, <1>5, <1>6
    <3> QED
      BY <3>1, <3>2, <1>5
  <2>2. \A x \in 1 .. n + 1 : x # place => longer[x].id # w.id
    <3> HIDE DEF Was
    <3> QED
      BY <2>1, <1>2 DEF Ids
  <2>3. CASE k = place \/ l = place
    BY <2>2, <2>3, <1>10
  <2>4. CASE k # place /\ l # place
    <3>1. list[Was(k)].id = list[Was(l)].id /\ Was(k) \in 1 .. n /\ Was(l) \in 1 .. n
      BY <2>1, <2>4
    <3>2. Was(k) = Was(l)
      <4> HIDE DEF Was
      <4> QED
        BY <3>1 DEF IsUnique
    <3> QED
      BY <3>2, <2>4, <1>5
  <2> QED
    BY <2>3, <2>4
<1> QED
  BY <1>5, <1>6, <1>7, <1>8, <1>9, <1>10, <1>11, <1>12 DEF longer, n, IsAdded

\* Putting a list in order keeps its records.
LEMMA OrderedHas ==
    ASSUME NEW S, \A r \in S : r.z \in Int, NEW list \in Seq(S)
    PROVE  /\ InZOrder(list) \in Seq(S) /\ InOrderOfZ(InZOrder(list))
           /\ Ids(InZOrder(list)) = Ids(list)
           /\ \A k \in 1 .. Len(InZOrder(list)) : \E i \in 1 .. Len(list) : InZOrder(list)[k] = list[i]
           /\ IsUnique(list) => IsUnique(InZOrder(list))
<1> DEFINE n == Len(list)
<1>1. n \in Nat /\ \A i \in 1 .. n : list[i] \in S
  OBVIOUS
<1>2. PICK done : /\ done[0] = <<>>
                  /\ \A i \in 1 .. n : done[i] = AddByZ(done[i - 1], list[i])
                  /\ InZOrder(list) = done[n]
  BY ZFoldsInTurn
<1> HIDE DEF n
<1> DEFINE Good(m) == /\ done[m] \in Seq(S) /\ InOrderOfZ(done[m])
                      /\ \A id : id \in Ids(done[m]) <=> \E i \in 1 .. m : list[i].id = id
                      /\ \A k \in 1 .. Len(done[m]) : \E i \in 1 .. m : done[m][k] = list[i]
                      /\ IsUnique(list) => IsUnique(done[m])
           T == {m \in Nat : m <= n => Good(m)}
<1>3. 0 \in T
  <2>1. <<>> \in Seq(S) /\ Len(<<>>) = 0 /\ 1 .. 0 = {} /\ Ids(<<>>) = {}
    BY DEF Ids
  <2>2. InOrderOfZ(<<>>) /\ IsUnique(<<>>)
    BY <2>1 DEF InOrderOfZ, IsUnique
  <2>3. Good(0)
    BY <2>1, <2>2, <1>2
  <2> QED
    BY <2>3
<1>4. ASSUME NEW m \in T PROVE m + 1 \in T
  <2> SUFFICES ASSUME m + 1 <= n PROVE Good(m + 1)
    <3> HIDE DEF Good
    <3> QED
      OBVIOUS
  <2>1. m \in Nat /\ m + 1 \in 1 .. n /\ m <= n /\ (m + 1) - 1 = m /\ 1 .. (m + 1) = (1 .. m) \cup {m + 1}
    BY <1>1
  <2>2. Good(m)
    <3> HIDE DEF Good
    <3> QED
      BY <2>1
  <2> DEFINE old == done[m]
             new == done[m + 1]
             w == list[m + 1]
  <2>3. new = AddByZ(old, w) /\ w \in S
    BY <2>1, <1>1, <1>2
  <2>4. /\ old \in Seq(S) /\ InOrderOfZ(old)
        /\ \A id : id \in Ids(old) <=> \E i \in 1 .. m : list[i].id = id
        /\ \A k \in 1 .. Len(old) : \E i \in 1 .. m : old[k] = list[i]
        /\ IsUnique(list) => IsUnique(old)
    BY <2>2
  <2> HIDE DEF old, new, Good
  <2>a. new \in Seq(S) /\ IsAdded(new, old, w)
    BY <2>3, <2>4, AddsRecord
  <2>5. /\ new \in Seq(S) /\ Len(new) = Len(old) + 1
        /\ \A k \in 1 .. Len(old) + 1 : new[k] = w \/ \E i \in 1 .. Len(old) : new[k] = old[i]
        /\ Ids(new) = Ids(old) \cup {w.id}
        /\ IsUnique(old) /\ w.id \notin Ids(old) => IsUnique(new)
        /\ InOrderOfZ(new)
    BY <2>a, <2>4 DEF IsAdded
  <2>6. \A id : id \in Ids(new) <=> \E i \in 1 .. m + 1 : list[i].id = id
    BY <2>1, <2>4, <2>5
  <2>7. \A k \in 1 .. Len(new) : \E i \in 1 .. m + 1 : new[k] = list[i]
    <3> SUFFICES ASSUME NEW k \in 1 .. Len(new) PROVE \E i \in 1 .. m + 1 : new[k] = list[i]
      OBVIOUS
    <3>1. CASE new[k] = w
      BY <3>1, <2>1
    <3>2. CASE \E i \in 1 .. Len(old) : new[k] = old[i]
      <4>1. PICK i \in 1 .. Len(old) : new[k] = old[i]
        BY <3>2
      <4>2. PICK j \in 1 .. m : old[i] = list[j]
        BY <2>4
      <4> QED
        BY <4>1, <4>2, <2>1
    <3> QED
      BY <3>1, <3>2, <2>5
  <2>8. IsUnique(list) => IsUnique(new)
    <3> SUFFICES ASSUME IsUnique(list) PROVE w.id \notin Ids(old)
      BY <2>4, <2>5
    <3>1. \A i \in 1 .. m : i \in 1 .. n /\ i # m + 1
      BY <2>1, <1>1
    <3>2. \A i \in 1 .. m : list[i].id # w.id
      BY <3>1, <2>1 DEF IsUnique, n
    <3> QED
      BY <3>2, <2>4
  <2> QED
    BY <2>5, <2>6, <2>7, <2>8 DEF Good, old, new
<1> HIDE DEF T, Good
<1>5. T = Nat
  BY <1>3, <1>4, AllNumbers DEF T
<1>6. Good(n)
  BY <1>1, <1>5 DEF T
<1>7. \A id : id \in Ids(list) <=> \E i \in 1 .. n : list[i].id = id
  BY IdsOfPlaces DEF n
<1>8. Ids(done[n]) = Ids(list)
  BY <1>6, <1>7 DEF Good
<1> QED
  BY <1>2, <1>6, <1>8 DEF Good, n

\* A list that is in order stays as it is.
LEMMA OrderedStays ==
    ASSUME NEW S, \A r \in S : r.z \in Int, NEW list \in Seq(S), InOrderOfZ(list)
    PROVE  InZOrder(list) = list
<1> DEFINE n == Len(list)
<1>1. n \in Nat /\ \A i \in 1 .. n : list[i] \in S
  OBVIOUS
<1>2. PICK done : /\ done[0] = <<>>
                  /\ \A i \in 1 .. n : done[i] = AddByZ(done[i - 1], list[i])
                  /\ InZOrder(list) = done[n]
  BY ZFoldsInTurn
<1> HIDE DEF n
<1> DEFINE T == {i \in Nat : i <= n => done[i] = SubSeq(list, 1, i)}
<1>3. 0 \in T
  <2>1. SubSeq(list, 1, 0) = <<>>
    BY SubSeqEmpty
  <2> QED
    BY <2>1, <1>2
<1>4. ASSUME NEW m \in T PROVE m + 1 \in T
  <2> SUFFICES ASSUME m + 1 <= n PROVE done[m + 1] = SubSeq(list, 1, m + 1)
    OBVIOUS
  <2> DEFINE before == SubSeq(list, 1, m)
  <2>1. m \in Nat /\ m + 1 \in 1 .. n /\ m <= n /\ (m + 1) - 1 = m /\ m + 1 <= Len(list) /\ Len(list) \in Nat
    BY <1>1 DEF n
  <2>2. done[m + 1] = AddByZ(before, list[m + 1])
    BY <2>1, <1>2
  <2>3. before \in Seq(S) /\ Len(before) = m /\ \A i \in 1 .. m : before[i] = list[i]
    BY <2>1
  <2>4. InOrderOfZ(before) /\ \A i \in 1 .. m : before[i].z <= list[m + 1].z
    <3>1. \A i \in 1 .. m : i \in 1 .. Len(list) /\ i <= m + 1
      BY <2>1
    <3>2. \A i \in 1 .. m : before[i].z <= list[m + 1].z
      BY <3>1, <2>1, <2>3 DEF InOrderOfZ, n
    <3>3. InOrderOfZ(before)
      BY <3>1, <2>3 DEF InOrderOfZ
    <3> QED
      BY <3>2, <3>3
  <2>5. SubSeq(list, 1, m + 1) = Append(before, list[m + 1])
    BY <2>1, BeginsLonger
  <2> HIDE DEF before
  <2>6. AddByZ(before, list[m + 1]) = Append(before, list[m + 1])
    <3>1. list[m + 1] \in S /\ \A i \in 1 .. Len(before) : before[i].z <= list[m + 1].z
      BY <2>1, <2>3, <2>4, <1>1
    <3>2. IsAdded(AddByZ(before, list[m + 1]), before, list[m + 1])
      BY <2>3, <3>1, AddsRecord
    <3> QED
      BY <2>4, <3>1, <3>2, Zenon DEF IsAdded
  <2> QED
    BY <2>2, <2>5, <2>6
<1> HIDE DEF T
<1>5. T = Nat
  BY <1>3, <1>4, AllNumbers DEF T
<1>6. done[n] = SubSeq(list, 1, n)
  BY <1>1, <1>5 DEF T
<1> QED
  BY <1>2, <1>6 DEF n

-----------------------------------------------------------------------------
(* What clients stage and send keeps its form. *)

LEMMA ListIsThere ==
    ASSUME NEW list, IsList(list)
    PROVE  /\ Len(list) \in Nat /\ DOMAIN list = 1 .. Len(list) /\ list \in Seq(ToSet(list))
           /\ \A i \in 1 .. Len(list) : list[i] \in ToSet(list)
           /\ \A x \in ToSet(list) : \E i \in 1 .. Len(list) : list[i] = x
BY DEF IsList, ToSet

LEMMA SequenceIsList ==
    ASSUME NEW S, NEW list \in Seq(S)
    PROVE  IsList(list) /\ ToSet(list) \subseteq S
BY SequencesAreLists DEF IsList, ToSet, Stored!IsList, Stored!ToSet

LEMMA ReplacesThere ==
    ASSUME NEW S, NEW list \in Seq(S), NEW place \in 1 .. Len(list), NEW x \in S
    PROVE  /\ ReplaceAt(list, place, x) \in Seq(S) /\ Len(ReplaceAt(list, place, x)) = Len(list)
           /\ \A i \in 1 .. Len(list) : ReplaceAt(list, place, x)[i] = IF i = place THEN x ELSE list[i]
<1> DEFINE new == [i \in 1 .. Len(list) |-> IF i = place THEN x ELSE list[i]]
<1>1. ReplaceAt(list, place, x) = new
  BY DEF ReplaceAt
<1>2. Len(list) \in Nat /\ new \in [1 .. Len(list) -> S]
  OBVIOUS
<1>3. new \in Seq(S) /\ Len(new) = Len(list)
  <2> HIDE DEF new
  <2>1. \E n \in Nat : new \in [1 .. n -> S]
    BY <1>2
  <2>2. new \in Seq(S)
    BY <2>1
  <2>3. DOMAIN new = 1 .. Len(list)
    BY <1>2
  <2> QED
    BY <1>2, <2>2, <2>3
<1> QED
  BY <1>1, <1>3

LEMMA RemovesThere ==
    ASSUME NEW S, NEW list \in Seq(S), NEW place \in 1 .. Len(list)
    PROVE  /\ RemoveAt(list, place) \in Seq(S) /\ Len(RemoveAt(list, place)) = Len(list) - 1
           /\ \A i \in 1 .. Len(list) - 1 : RemoveAt(list, place)[i] = list[IF i < place THEN i ELSE i + 1]
<1> DEFINE first == SubSeq(list, 1, place - 1)
           last == SubSeq(list, place + 1, Len(list))
           n == Len(list)
<1>1. n \in Nat /\ place \in Nat /\ place <= n /\ place >= 1
  OBVIOUS
<1>2. first \in Seq(S) /\ Len(first) = place - 1 /\ \A i \in 1 .. place - 1 : first[i] = list[i]
  OBVIOUS
<1>3. last \in Seq(S) /\ Len(last) = n - place /\ \A i \in 1 .. n - place : last[i] = list[place + i]
  OBVIOUS
<1>4. RemoveAt(list, place) = first \o last
  BY DEF RemoveAt
<1> HIDE DEF first, last, n
<1>5. first \o last \in Seq(S) /\ Len(first \o last) = n - 1
  <2>a. first \in Seq(S) /\ last \in Seq(S)
    BY <1>2, <1>3
  <2>1. first \o last \in Seq(S) /\ Len(first \o last) = Len(first) + Len(last)
    BY <2>a
  <2> QED
    BY <2>1, <1>1, <1>2, <1>3
<1>6. \A i \in 1 .. n - 1 : (first \o last)[i] = list[IF i < place THEN i ELSE i + 1]
  <2> SUFFICES ASSUME NEW i \in 1 .. n - 1 PROVE (first \o last)[i] = list[IF i < place THEN i ELSE i + 1]
    OBVIOUS
  <2> DEFINE m == Len(first)
  <2>a. m \in Nat /\ m + Len(last) = n - 1 /\ i \in 1 .. m + Len(last)
    BY <1>1, <1>2, <1>3
  <2>1. (first \o last)[i] = IF i <= m THEN first[i] ELSE last[i - m]
    BY <1>2, <1>3, <2>a
  <2>2. CASE i < place
    BY <1>1, <1>2, <2>1, <2>2
  <2>3. CASE ~(i < place)
    <3>1. i - (place - 1) \in 1 .. n - place /\ place + (i - (place - 1)) = i + 1
      BY <1>1, <2>3
    <3> QED
      BY <1>1, <1>2, <1>3, <2>1, <2>3, <3>1
  <2> QED
    BY <2>2, <2>3
<1> QED
  BY <1>4, <1>5, <1>6 DEF n

\* The widgets of a screen.
IsWidgets(list) == IsList(list) /\ InOrderOfZ(list) /\ \A w \in ToSet(list) : IsWidget(w)

LEMMA WidgetsHaveZ ==
    ASSUME NEW list, IsWidgets(list)
    PROVE  list \in Seq(ToSet(list)) /\ \A w \in ToSet(list) : w.z \in Int
BY DEF IsWidgets, IsList, IsWidget

LEMMA PickedWidgets ==
    ASSUME NEW S, \A w \in S : IsWidget(w), NEW list \in Seq(S), InOrderOfZ(list)
    PROVE  IsWidgets(list)
BY SequenceIsList DEF IsWidgets

LEMMA OnlyIsWidgets ==
    ASSUME NEW list, IsWidgets(list), NEW ids
    PROVE  IsWidgets(Only(list, ids))
<1> DEFINE S == ToSet(list)
<1>1. list \in Seq(S) /\ InOrderOfZ(list) /\ \A w \in S : IsWidget(w) /\ w.z \in Int
  BY WidgetsHaveZ DEF IsWidgets
<1> HIDE DEF S
<1>2. Only(list, ids) \in Seq(S) /\ InOrderOfZ(Only(list, ids))
  BY <1>1, OnlyKeeps
<1> QED
  BY <1>1, <1>2, PickedWidgets

LEMMA PutIsWidgets ==
    ASSUME NEW list, IsWidgets(list), NEW w, IsWidget(w)
    PROVE  IsWidgets(PutWidget(list, w))
<1> DEFINE S == ToSet(list) \cup {w}
           at == IndexOf(list, w.id)
           n == Len(list)
<1>1. list \in Seq(S) /\ InOrderOfZ(list) /\ (\A v \in S : IsWidget(v) /\ v.z \in Int) /\ w \in S
  <2>1. list \in Seq(ToSet(list)) /\ \A v \in ToSet(list) : v.z \in Int
    BY WidgetsHaveZ
  <2> QED
    BY <2>1 DEF IsWidgets, IsWidget
<1> HIDE DEF S
<1>2. n \in Nat /\ \A i \in 1 .. n : list[i] \in S /\ list[i].z \in Int
  BY <1>1
<1>3. Has(list, w.id) => at \in 1 .. n /\ Find(list, w.id) = list[at]
  BY <1>1, FindsRecord
<1> HIDE DEF at
<1>4. CASE ~Has(list, w.id)
  <2>1. PutWidget(list, w) = AddByZ(list, w)
    BY <1>4 DEF PutWidget
  <2>2. AddByZ(list, w) \in Seq(S) /\ IsAdded(AddByZ(list, w), list, w)
    BY <1>1, AddsRecord
  <2> QED
    BY <1>1, <2>1, <2>2, PickedWidgets DEF IsAdded
<1>5. CASE Has(list, w.id) /\ Find(list, w.id).z = w.z
  <2> DEFINE new == ReplaceAt(list, at, w)
  <2>1. PutWidget(list, w) = new
    BY <1>5, Zenon DEF PutWidget, at
  <2>2. new \in Seq(S) /\ Len(new) = n /\ \A i \in 1 .. n : new[i] = IF i = at THEN w ELSE list[i]
    <3>1. at \in 1 .. Len(list) /\ w \in S /\ list \in Seq(S)
      BY <1>1, <1>3, <1>5
    <3> HIDE DEF n
    <3> QED
      <4>1. /\ ReplaceAt(list, at, w) \in Seq(S) /\ Len(ReplaceAt(list, at, w)) = Len(list)
            /\ \A i \in 1 .. Len(list) : ReplaceAt(list, at, w)[i] = IF i = at THEN w ELSE list[i]
        BY <3>1, ReplacesThere
      <4> QED
        BY <4>1, Zenon DEF n
  <2> HIDE DEF new
  <2>3. \A i \in 1 .. n : new[i].z = list[i].z
    BY <1>3, <1>5, <2>2
  <2>4. InOrderOfZ(new)
    BY <1>1, <2>2, <2>3 DEF InOrderOfZ, n
  <2> QED
    BY <1>1, <2>1, <2>2, <2>4, PickedWidgets
<1>6. CASE Has(list, w.id) /\ Find(list, w.id).z # w.z
  <2> DEFINE less == RemoveAt(list, at)
  <2>1. PutWidget(list, w) = AddByZ(less, w)
    BY <1>6, Zenon DEF PutWidget, at
  <2>2. less \in Seq(S) /\ Len(less) = n - 1 /\ \A i \in 1 .. n - 1 : less[i] = list[IF i < at THEN i ELSE i + 1]
    BY <1>1, <1>3, <1>6, RemovesThere
  <2> HIDE DEF less
  <2>3. InOrderOfZ(less)
    <3> SUFFICES ASSUME NEW i \in 1 .. n - 1, NEW j \in 1 .. n - 1, i <= j PROVE less[i].z <= less[j].z
      BY <2>2 DEF InOrderOfZ
    <3> DEFINE k == IF i < at THEN i ELSE i + 1
               l == IF j < at THEN j ELSE j + 1
    <3>1. k \in 1 .. n /\ l \in 1 .. n /\ k <= l
      BY <1>2, <1>3, <1>6
    <3> HIDE DEF k, l
    <3>2. list[k].z <= list[l].z
      BY <1>1, <3>1 DEF InOrderOfZ, n
    <3> QED
      BY <2>2, <3>2 DEF k, l
  <2>4. AddByZ(less, w) \in Seq(S) /\ IsAdded(AddByZ(less, w), less, w)
    BY <1>1, <2>2, AddsRecord
  <2> QED
    BY <1>1, <2>1, <2>3, <2>4, PickedWidgets DEF IsAdded
<1> QED
  BY <1>4, <1>5, <1>6

LEMMA IdsToldApart ==
    ASSUME NEW list, IsList(list), Cardinality(Ids(list)) = Len(list)
    PROVE  IsUnique(list)
<1>1. Stored!IsList(list)
  BY DEF IsList, Stored!IsList, ToSet, Stored!ToSet
<1>2. Stored!Cardinality(Stored!Composition!Ids(list)) = Len(list)
  BY Zenon DEF Cardinality, Stored!Cardinality, Ids, Stored!Composition!Ids
<1> QED
  BY <1>1, <1>2, IdsAreToldApart DEF IsUnique

LEMMA ScreenIsRecord ==
    ASSUME NEW s, IsScreen(s)
    PROVE  /\ s # NoScreen /\ IsWidgets(s.widgets) /\ s.z \in Int /\ s.overlay \in BOOLEAN
           /\ DOMAIN s = {"id", "group", "z", "overlay", "frame", "widgets"}
<1> DEFINE r == [id |-> s.id, group |-> s.group, z |-> s.z, overlay |-> s.overlay, frame |-> s.frame,
                 widgets |-> s.widgets]
<1>1. s = r /\ IsWidgets(s.widgets) /\ s.z \in Int /\ s.overlay \in BOOLEAN
  BY DEF IsScreen, IsWidgets
<1>2. DOMAIN r = {"id", "group", "z", "overlay", "frame", "widgets"}
  OBVIOUS
<1>3. DOMAIN NoScreen = {"id"}
  BY DEF NoScreen
<1>4. "group" \in DOMAIN r /\ "group" \notin DOMAIN NoScreen
  BY <1>2, <1>3
<1> HIDE DEF r
<1> QED
  BY <1>1, <1>2, <1>4

LEMMA ScreenTakesWidgets ==
    ASSUME NEW s, IsScreen(s), NEW list, IsWidgets(list)
    PROVE  IsScreen([s EXCEPT !.widgets = list])
<1> DEFINE r == [id |-> s.id, group |-> s.group, z |-> s.z, overlay |-> s.overlay, frame |-> s.frame,
                 widgets |-> list]
<1>1. s = [id |-> s.id, group |-> s.group, z |-> s.z, overlay |-> s.overlay, frame |-> s.frame,
           widgets |-> s.widgets] /\ s.z \in Int /\ s.overlay \in BOOLEAN
  BY DEF IsScreen
<1>2. [s EXCEPT !.widgets = list] = r
  BY <1>1
<1>3. /\ r = [id |-> r.id, group |-> r.group, z |-> r.z, overlay |-> r.overlay, frame |-> r.frame,
               widgets |-> r.widgets]
      /\ r.z = s.z /\ r.overlay = s.overlay /\ r.widgets = list
  OBVIOUS
<1> HIDE DEF r
<1>4. IsScreen(r)
  BY <1>1, <1>3 DEF IsScreen, IsWidgets
<1> QED
  BY <1>2, <1>4

LEMMA FindsScreen ==
    ASSUME NEW conf, IsConfiguration(conf), NEW id
    PROVE  /\ conf.screens \in Seq(ToSet(conf.screens))
           /\ Has(conf.screens, id) <=> id \in Ids(conf.screens)
           /\ Has(conf.screens, id) =>
                 /\ ScreenOf(conf, id) = Find(conf.screens, id)
                 /\ Find(conf.screens, id) \in ToSet(conf.screens)
                 /\ IndexOf(conf.screens, id) \in 1 .. Len(conf.screens)
                 /\ Find(conf.screens, id) = conf.screens[IndexOf(conf.screens, id)]
                 /\ Find(conf.screens, id).id = id
                 /\ IsScreen(Find(conf.screens, id))
<1>1. conf.screens \in Seq(ToSet(conf.screens)) /\ \A s \in ToSet(conf.screens) : IsScreen(s)
  BY DEF IsConfiguration, IsList
<1> QED
  BY <1>1, FindsRecord DEF ScreenOf

LEMMA ScreensMakeConfiguration ==
    ASSUME NEW conf, IsConfiguration(conf), NEW S, \A s \in S : IsScreen(s), NEW list \in Seq(S)
    PROVE  IsConfiguration([conf EXCEPT !.screens = list])
<1> DEFINE new == [active |-> conf.active, screens |-> list]
<1>1. conf = [active |-> conf.active, screens |-> conf.screens]
  BY DEF IsConfiguration
<1>2. [conf EXCEPT !.screens = list] = new
  BY <1>1
<1>3. new = [active |-> new.active, screens |-> new.screens] /\ new.screens = list
  OBVIOUS
<1> HIDE DEF new
<1>4. IsList(list) /\ \A s \in ToSet(list) : IsScreen(s)
  BY SequenceIsList
<1> QED
  BY <1>2, <1>3, <1>4 DEF IsConfiguration

LEMMA ConfigurationTakesScreen ==
    ASSUME NEW conf, IsConfiguration(conf), NEW screen, IsScreen(screen)
    PROVE  IsConfiguration(WithScreen(conf, screen))
<1> DEFINE S == ToSet(conf.screens) \cup {screen}
           list == conf.screens
           at == IndexOf(list, screen.id)
           new == IF Has(list, screen.id) THEN ReplaceAt(list, at, screen) ELSE Append(list, screen)
<1>1. list \in Seq(ToSet(list)) /\ (Has(list, screen.id) => at \in 1 .. Len(list))
  BY FindsScreen
<1>2. list \in Seq(S) /\ screen \in S
  BY <1>1
<1>3. \A s \in S : IsScreen(s)
  BY DEF IsConfiguration
<1>4. WithScreen(conf, screen) = [conf EXCEPT !.screens = new]
  <2>1. "screens" \in DOMAIN conf
    <3>1. conf = [active |-> conf.active, screens |-> conf.screens]
      BY DEF IsConfiguration
    <3> QED
      BY <3>1
  <2> QED
    BY <2>1, Zenon DEF WithScreen
<1>5. new \in Seq(S)
  <2> HIDE DEF S, list, at
  <2>1. Append(list, screen) \in Seq(S)
    BY <1>2
  <2>2. Has(list, screen.id) => ReplaceAt(list, at, screen) \in Seq(S)
    BY <1>1, <1>2, ReplacesThere
  <2> QED
    BY <2>1, <2>2, Zenon
<1> HIDE DEF S, new
<1> QED
  BY <1>3, <1>4, <1>5, ScreensMakeConfiguration

\* An operation that fits makes a configuration of a configuration.
LEMMA OpKeepsForm ==
    ASSUME NEW conf, IsConfiguration(conf), NEW op, IsOp(op), FitsBase(conf, op)
    PROVE  IsConfiguration(ApplyPatchOp(conf, op))
<1> DEFINE screen == ScreenOf(conf, OpScreen(op))
<1>1. op.kind # "put_screen" => OpScreen(op) = op.screen_id /\ Has(conf.screens, op.screen_id)
  BY DEF FitsBase, OpScreen
<1>2. op.kind # "put_screen" => IsScreen(screen) /\ IsWidgets(screen.widgets)
  BY <1>1, FindsScreen, ScreenIsRecord
<1> HIDE DEF screen
<1>3. CASE op.kind = "put_widget"
  <2> DEFINE list == PutWidget(screen.widgets, op.widget)
  <2>1. IsWidgets(list)
    BY <1>2, <1>3, PutIsWidgets DEF IsOp
  <2>2. ApplyPatchOp(conf, op) = WithScreen(conf, [screen EXCEPT !.widgets = list])
    BY <1>3 DEF ApplyPatchOp, screen
  <2> HIDE DEF list
  <2> QED
    BY <1>2, <1>3, <2>1, <2>2, ScreenTakesWidgets, ConfigurationTakesScreen
<1>4. CASE op.kind = "remove_widget"
  <2> DEFINE list == Without(screen.widgets, OwnedIds(screen.widgets, op.widget_id))
  <2>1. IsWidgets(list)
    BY <1>2, <1>4, OnlyIsWidgets DEF Without
  <2>2. ApplyPatchOp(conf, op) = WithScreen(conf, [screen EXCEPT !.widgets = list])
    BY <1>4 DEF ApplyPatchOp, screen
  <2> HIDE DEF list
  <2> QED
    BY <1>2, <1>4, <2>1, <2>2, ScreenTakesWidgets, ConfigurationTakesScreen
<1>5. CASE op.kind = "put_screen"
  <2>1. ApplyPatchOp(conf, op) = WithScreen(conf, op.screen)
    BY <1>5 DEF ApplyPatchOp
  <2> QED
    BY <1>5, <2>1, ConfigurationTakesScreen DEF IsOp
<1>6. CASE op.kind = "remove_screen"
  <2> DEFINE S == ToSet(conf.screens)
             list == Without(conf.screens, {op.screen_id})
  <2>1. ApplyPatchOp(conf, op) = [conf EXCEPT !.screens = list]
    <3>1. "screens" \in DOMAIN conf
      <4>1. conf = [active |-> conf.active, screens |-> conf.screens]
        BY DEF IsConfiguration
      <4> QED
        BY <4>1
    <3> QED
      BY <1>6, <3>1 DEF ApplyPatchOp
  <2>2. list \in Seq(S)
    BY FindsScreen, OnlyKeeps DEF Without
  <2>3. \A s \in S : IsScreen(s)
    BY DEF IsConfiguration
  <2> HIDE DEF S, list
  <2> QED
    BY <2>1, <2>2, <2>3, ScreensMakeConfiguration
<1> QED
  BY <1>3, <1>4, <1>5, <1>6 DEF IsOp

\* The staged configuration and its copy are what clients may send.
FormInv ==
    /\ client \in Clients
    /\ IsConfiguration(staged) /\ Validate(staged)
    /\ IsConfiguration(patched)

LEMMA FormNext ==
    ASSUME FormInv, Next
    PROVE  FormInv'
<1>1. ASSUME NEW op \in client.ops, ApplyPatchOps(op) PROVE FormInv'
  <2>1. IsOp(op)
    BY <1>1, ClientsAssumption DEF FormInv
  <2> QED
    BY <1>1, <2>1, OpKeepsForm DEF FormInv, ApplyPatchOps
<1>2. CASE RefuseInvalid
  BY <1>2 DEF FormInv, RefuseInvalid
<1>3. CASE ApplyPatch
  BY <1>3 DEF FormInv, ApplyPatch, TakePatched
<1>4. CASE ApplyByRebuild
  BY <1>4 DEF FormInv, ApplyByRebuild, TakePatched
<1>5. CASE ApplyFails
  BY <1>5 DEF FormInv, ApplyFails, requestVars
<1>6. CASE ShowStagedAgain
  BY <1>6 DEF FormInv, ShowStagedAgain
<1>7. CASE Replay
  BY <1>7 DEF FormInv, Replay, requestVars
<1>8. ASSUME NEW id \in Overlays(staged) \union {NoOverlay}, UserMovesOverlay(id) PROVE FormInv'
  BY <1>8 DEF FormInv, UserMovesOverlay, requestVars
<1>9. CASE ViewShowsOverlay
  BY <1>9 DEF FormInv, ViewShowsOverlay, requestVars
<1> QED
  BY <1>1, <1>2, <1>3, <1>4, <1>5, <1>6, <1>7, <1>8, <1>9 DEF Next

-----------------------------------------------------------------------------
(* What a plan has. *)

PatchOf(old, new, action, widgets) ==
    [id |-> new.id, action |-> action, old |-> old, new |-> new, widgets |-> widgets]

RemovalOf(old) == [id |-> old.id, action |-> "remove", old |-> old, new |-> NoScreen, widgets |-> <<>>]

\* A screen has one patch or none.
LEMMA ScreenIsPlanned ==
    ASSUME NEW old, NEW new
    PROVE  LET widgets == PlanWidgets(old.widgets, new.widgets)
           IN  /\ old = NoScreen => PlanScreen(old, new) = <<PatchOf(old, new, "add", <<>>)>>
               /\ old # NoScreen /\ old = new => PlanScreen(old, new) = <<>>
               /\ old # NoScreen /\ old # new /\ ClassifyScreenChange(old, new) = "rebuild" =>
                     PlanScreen(old, new) = <<PatchOf(old, new, "rebuild", <<>>)>>
               /\ old # NoScreen /\ old # new /\ ClassifyScreenChange(old, new) # "rebuild" =>
                     PlanScreen(old, new) =
                        IF widgets # <<>> \/ Reorders(old.widgets, new.widgets)
                        THEN <<PatchOf(old, new, "widgets", widgets)>> ELSE <<>>
BY Zenon DEF PlanScreen, PatchOf

LEMMA ScreenHasOnePatch ==
    ASSUME NEW old, NEW new
    PROVE  \/ PlanScreen(old, new) = <<>>
           \/ \E x : PlanScreen(old, new) = <<x>> /\ x.id = new.id /\ x.old = old /\ x.new = new
<1>1. \A action, widgets : LET x == PatchOf(old, new, action, widgets) IN x.id = new.id /\ x.old = old /\ x.new = new
  BY DEF PatchOf
<1>2. PlanScreen(old, new) = <<>> \/ \E action, widgets : PlanScreen(old, new) = <<PatchOf(old, new, action, widgets)>>
  BY Zenon DEF PlanScreen, PatchOf
<1> QED
  BY <1>1, <1>2, Zenon

PlanLists(base, screens) == [i \in DOMAIN screens |-> PlanScreen(ScreenOf(base, screens[i].id), screens[i])]

PlanRemovals(gone) == [i \in DOMAIN gone |-> RemovalOf(gone[i])]

LEMMA PlanIsOf ==
    ASSUME NEW base, NEW conf
    PROVE  PlanPatch(base, conf)
              = PlanRemovals(Without(base.screens, Ids(conf.screens))) \o FlattenSeq(PlanLists(base, conf.screens))
BY Zenon DEF PlanPatch, PlanRemovals, RemovalOf, PlanLists

LEMMA ShortLists ==
    ASSUME NEW lists, NEW n \in Nat, DOMAIN lists = 1 .. n, lists = [i \in 1 .. n |-> lists[i]],
           \A i \in 1 .. n : lists[i] = <<>> \/ \E x : lists[i] = <<x>>
    PROVE  /\ \E S : lists \in Seq(Seq(S))
           /\ Len(lists) = n
<1> DEFINE S == {lists[i][1] : i \in 1 .. n}
<1>1. \A i \in 1 .. n : lists[i] \in Seq(S)
  <2> SUFFICES ASSUME NEW i \in 1 .. n PROVE lists[i] \in Seq(S)
    OBVIOUS
  <2>1. lists[i] # <<>> => lists[i][1] \in S /\ lists[i] = <<lists[i][1]>>
    OBVIOUS
  <2> HIDE DEF S
  <2>2. \A x \in S : <<x>> \in Seq(S)
    OBVIOUS
  <2>3. <<>> \in Seq(S)
    OBVIOUS
  <2> QED
    BY <2>1, <2>2, <2>3
<1> HIDE DEF S
<1>2. lists \in [1 .. n -> Seq(S)]
  BY <1>1
<1>3. lists \in Seq(Seq(S)) /\ Len(lists) = n
  BY <1>2
<1> QED
  BY <1>3

\* A screen that goes is in the plan, and so is what is planned of each that stays or comes.
LEMMA PlanHas ==
    ASSUME NEW base, IsConfiguration(base), NEW conf, IsConfiguration(conf)
    PROVE  /\ \E S : PlanPatch(base, conf) \in Seq(S)
           /\ \A s \in ToSet(base.screens) : s.id \notin Ids(conf.screens) =>
                 \E k \in 1 .. Len(PlanPatch(base, conf)) : PlanPatch(base, conf)[k] = RemovalOf(s)
           /\ \A s \in ToSet(conf.screens) : \A x : PlanScreen(ScreenOf(base, s.id), s) = <<x>> =>
                 \E k \in 1 .. Len(PlanPatch(base, conf)) : PlanPatch(base, conf)[k] = x
<1> DEFINE gone == Without(base.screens, Ids(conf.screens))
           removals == PlanRemovals(gone)
           lists == PlanLists(base, conf.screens)
           others == FlattenSeq(lists)
           n == Len(conf.screens)
           plan == PlanPatch(base, conf)
<1>1. n \in Nat /\ DOMAIN conf.screens = 1 .. n /\ \A s \in ToSet(conf.screens) : \E i \in 1 .. n : conf.screens[i] = s
  BY ListIsThere DEF IsConfiguration
<1>2. base.screens \in Seq(ToSet(base.screens))
  BY DEF IsConfiguration, IsList
<1>3. /\ gone \in Seq(ToSet(base.screens))
      /\ Ids(gone) = Ids(base.screens) \cap (Ids(base.screens) \ Ids(conf.screens))
  BY <1>2, OnlyKeeps DEF Without
<1>4. \A s \in ToSet(base.screens) : s.id \notin Ids(conf.screens) => \E i \in 1 .. Len(gone) : gone[i] = s
  <2> SUFFICES ASSUME NEW s \in ToSet(base.screens), s.id \notin Ids(conf.screens)
      PROVE \E i \in 1 .. Len(gone) : gone[i] = s
    OBVIOUS
  <2>1. PICK j \in 1 .. Len(base.screens) : base.screens[j] = s
    BY ListIsThere DEF IsConfiguration
  <2>2. PICK at : IsPart(gone, base.screens, Ids(base.screens) \ Ids(conf.screens), Len(base.screens), at)
    BY <1>2, OnlyPicks DEF Without
  <2>3. s.id \in Ids(base.screens) \ Ids(conf.screens)
    BY <1>2, <2>1, IdsOfPlaces
  <2>4. PICK k \in 1 .. Len(gone) : at[k] = j
    BY <2>1, <2>2, <2>3, Zenon DEF IsPart
  <2>5. gone[k] = base.screens[j]
    BY <2>2, <2>4, Zenon DEF IsPart
  <2> QED
    BY <2>1, <2>4, <2>5
<1> HIDE DEF gone
<1>5. Len(gone) \in Nat /\ DOMAIN gone = 1 .. Len(gone)
  BY <1>3
<1>6. /\ \E S : removals \in Seq(S)
      /\ Len(removals) = Len(gone) /\ \A i \in 1 .. Len(gone) : removals[i] = RemovalOf(gone[i])
  <2> DEFINE S == {RemovalOf(gone[i]) : i \in 1 .. Len(gone)}
  <2>1. \A i \in 1 .. Len(gone) : RemovalOf(gone[i]) \in S /\ removals[i] = RemovalOf(gone[i])
    BY <1>5 DEF PlanRemovals
  <2>2. removals \in [1 .. Len(gone) -> S]
    BY <1>5, <2>1 DEF PlanRemovals
  <2> HIDE DEF S, removals
  <2>3. removals \in Seq(S) /\ Len(removals) = Len(gone)
    BY <1>5, <2>2
  <2> QED
    BY <2>1, <2>3
<1>7. /\ \A i \in 1 .. n : lists[i] = PlanScreen(ScreenOf(base, conf.screens[i].id), conf.screens[i])
      /\ DOMAIN lists = 1 .. n /\ lists = [i \in 1 .. n |-> lists[i]]
  BY <1>1 DEF PlanLists
<1>8. \A i \in 1 .. n : lists[i] = <<>> \/ \E x : lists[i] = <<x>>
  <2> SUFFICES ASSUME NEW i \in 1 .. n PROVE lists[i] = <<>> \/ \E x : lists[i] = <<x>>
    OBVIOUS
  <2> DEFINE old == ScreenOf(base, conf.screens[i].id)
             new == conf.screens[i]
  <2>1. \/ PlanScreen(old, new) = <<>>
        \/ \E x : PlanScreen(old, new) = <<x>> /\ x.id = new.id /\ x.old = old /\ x.new = new
    BY ScreenHasOnePatch
  <2>2. lists[i] = PlanScreen(old, new)
    BY <1>7
  <2> HIDE DEF old, new, lists
  <2> QED
    BY <2>1, <2>2
<1> HIDE DEF lists, removals, n
<1>9. (\E S : lists \in Seq(Seq(S))) /\ Len(lists) = n
  BY <1>1, <1>7, <1>8, ShortLists
<1>10. PICK S : lists \in Seq(Seq(S))
  BY <1>9
<1>11. /\ others \in Seq(S)
       /\ \A i \in 1 .. n : \A k \in 1 .. Len(lists[i]) : \E j \in 1 .. Len(others) : others[j] = lists[i][k]
  <2>1. /\ others \in Seq(S)
        /\ \A x : (\E k \in 1 .. Len(others) : others[k] = x)
                  <=> \E i \in 1 .. Len(lists) : \E k \in 1 .. Len(lists[i]) : lists[i][k] = x
    BY <1>10, FlatHas, Zenon
  <2> HIDE DEF others
  <2> QED
    BY <1>9, <2>1
<1>12. PICK R : removals \in Seq(R)
  BY <1>6
<1>13. plan = removals \o others
  BY PlanIsOf DEF removals, lists, gone
<1> HIDE DEF others, plan
<1> DEFINE Q == R \cup S
<1>14. removals \in Seq(Q) /\ others \in Seq(Q)
  BY <1>11, <1>12
<1> HIDE DEF Q
<1>15. /\ plan \in Seq(Q) /\ Len(plan) = Len(removals) + Len(others)
       /\ Len(removals) \in Nat /\ Len(others) \in Nat
       /\ \A k \in 1 .. Len(removals) : plan[k] = removals[k]
       /\ \A k \in 1 .. Len(others) : plan[Len(removals) + k] = others[k]
  BY <1>13, <1>14
<1>16. /\ \A k \in 1 .. Len(removals) : \E j \in 1 .. Len(plan) : plan[j] = removals[k]
       /\ \A k \in 1 .. Len(others) : \E j \in 1 .. Len(plan) : plan[j] = others[k]
  <2>1. /\ \A k \in 1 .. Len(removals) : k \in 1 .. Len(plan)
        /\ \A k \in 1 .. Len(others) : Len(removals) + k \in 1 .. Len(plan)
    BY <1>15
  <2> QED
    BY <1>15, <2>1
<1>17. \A s \in ToSet(base.screens) : s.id \notin Ids(conf.screens) => \E k \in 1 .. Len(plan) : plan[k] = RemovalOf(s)
  <2> SUFFICES ASSUME NEW s \in ToSet(base.screens), s.id \notin Ids(conf.screens)
               PROVE  \E k \in 1 .. Len(plan) : plan[k] = RemovalOf(s)
    OBVIOUS
  <2>1. PICK i \in 1 .. Len(gone) : gone[i] = s
    BY <1>4
  <2>2. i \in 1 .. Len(removals) /\ removals[i] = RemovalOf(s)
    BY <1>6, <2>1
  <2>3. PICK k \in 1 .. Len(plan) : plan[k] = removals[i]
    BY <1>16, <2>2
  <2> QED
    BY <2>2, <2>3
<1>18. ASSUME NEW s \in ToSet(conf.screens), NEW x, PlanScreen(ScreenOf(base, s.id), s) = <<x>>
       PROVE  \E k \in 1 .. Len(plan) : plan[k] = x
  <2>1. PICK i \in 1 .. n : conf.screens[i] = s
    BY <1>1
  <2>2. lists[i] = <<x>>
    BY <1>7, <1>18, <2>1
  <2>3. 1 \in 1 .. Len(lists[i]) /\ lists[i][1] = x
    BY <2>2
  <2>4. \E j \in 1 .. Len(others) : others[j] = x
    BY <1>11, <2>3
  <2> QED
    BY <1>16, <2>4
<1> QED
  BY <1>15, <1>17, <1>18 DEF plan

\* A patch that no screens can take leaves the plan without result.
LEMMA EachReaches ==
    ASSUME NEW S, NEW plan \in Seq(S), NEW views, PatchScreens(views, plan) # {}
    PROVE  \A k \in 1 .. Len(plan) : \E v : PatchScreen(v, plan[k]) # {}
<1> DEFINE n == Len(plan)
<1>1. n \in Nat
  OBVIOUS
<1>2. PICK done : /\ done[0] = {views}
                  /\ \A i \in 1 .. n : done[i] = PatchEach(done[i - 1], plan[i])
                  /\ PatchScreens(views, plan) = done[n]
  BY ScreenFoldsInTurn
<1> HIDE DEF n
<1> SUFFICES ASSUME NEW k \in 1 .. n, \A v : PatchScreen(v, plan[k]) = {} PROVE FALSE
  BY DEF n
<1> DEFINE T == {m \in Nat : k + m <= n => done[k + m] = {}}
<1>3. 0 \in T
  <2>1. done[k] = {}
    BY <1>2 DEF PatchEach
  <2> QED
    BY <2>1
<1>4. ASSUME NEW m \in T PROVE m + 1 \in T
  <2> SUFFICES ASSUME k + (m + 1) <= n PROVE done[k + (m + 1)] = {}
    OBVIOUS
  <2>1. k + (m + 1) \in 1 .. n /\ k + (m + 1) - 1 = k + m /\ k + m <= n
    BY <1>1
  <2>2. done[k + m] = {}
    BY <2>1
  <2>3. done[k + (m + 1)] = PatchEach(done[k + m], plan[k + (m + 1)])
    BY <1>2, <2>1
  <2> QED
    BY <2>2, <2>3 DEF PatchEach
<1> HIDE DEF T
<1>5. T = Nat
  BY <1>3, <1>4, AllNumbers DEF T
<1>6. n - k \in T /\ k + (n - k) = n
  BY <1>1, <1>5
<1>7. done[n] = {}
  BY <1>1, <1>6 DEF T
<1> QED
  BY <1>2, <1>7

-----------------------------------------------------------------------------
(* What two screens without a patch between them look like. *)

\* What is drawn of a widget's children.
Drawn(widgets, w) == IdsInOrder(InZOrder(Only(widgets, ToSet(w.kids))))

TreeShape(widgets, root) ==
    [id \in OwnedIds(widgets, root) |-> <<Find(widgets, id), Drawn(widgets, Find(widgets, id))>>]

RootShapes(widgets) ==
    [r \in DOMAIN Roots(widgets) |-> [id |-> Roots(widgets)[r].id, tree |-> TreeShape(widgets, Roots(widgets)[r].id)]]

LEMMA ShapeOfAssembled ==
    ASSUME NEW s
    PROVE  Shape(Assemble(s)) = [id |-> s.id, z |-> s.z, roots |-> RootShapes(s.widgets)]
<1> DEFINE roots == Roots(s.widgets)
           built == [i \in DOMAIN roots |-> [id |-> roots[i].id, tree |-> AssembleRoot(s, roots[i].id)]]
           shapes == [r \in DOMAIN built |-> [id |-> built[r].id, tree |-> [id \in DOMAIN built[r].tree |->
                         <<built[r].tree[id].rec, built[r].tree[id].kids>>]]]
<1>1. Assemble(s) = [id |-> s.id, z |-> s.z, roots |-> built]
  BY Zenon DEF Assemble
<1> HIDE DEF roots
<1>2. ASSUME NEW root
      PROVE  [id \in DOMAIN AssembleRoot(s, root) |-> <<AssembleRoot(s, root)[id].rec, AssembleRoot(s, root)[id].kids>>]
                = TreeShape(s.widgets, root)
  <2> DEFINE tree == AssembleRoot(s, root)
  <2>1. DOMAIN tree = OwnedIds(s.widgets, root)
    BY DEF AssembleRoot
  <2>2. ASSUME NEW id \in OwnedIds(s.widgets, root)
        PROVE  tree[id].rec = Find(s.widgets, id) /\ tree[id].kids = Drawn(s.widgets, Find(s.widgets, id))
    <3>1. tree[id] = NewWidget(s, Find(s.widgets, id))
      BY DEF AssembleRoot
    <3> HIDE DEF tree
    <3> QED
      BY <3>1 DEF NewWidget, Drawn
  <2> HIDE DEF tree
  <2>3. [id \in DOMAIN tree |-> <<tree[id].rec, tree[id].kids>>] = TreeShape(s.widgets, root)
    BY <2>1, <2>2 DEF TreeShape
  <2> QED
    BY <2>3 DEF tree
<1>3. DOMAIN built = DOMAIN roots
  OBVIOUS
<1>4. ASSUME NEW r \in DOMAIN roots
      PROVE  shapes[r] = [id |-> roots[r].id, tree |-> TreeShape(s.widgets, roots[r].id)]
  <2>1. built[r] = [id |-> roots[r].id, tree |-> AssembleRoot(s, roots[r].id)]
    OBVIOUS
  <2>2. built[r].id = roots[r].id /\ built[r].tree = AssembleRoot(s, roots[r].id)
    BY <2>1
  <2>3. shapes[r] = [id |-> built[r].id, tree |-> [id \in DOMAIN built[r].tree |->
                         <<built[r].tree[id].rec, built[r].tree[id].kids>>]]
    BY <1>3, Zenon
  <2> HIDE DEF built, shapes
  <2> QED
    BY <1>2, <2>2, <2>3
<1>5. shapes = [r \in DOMAIN roots |-> shapes[r]]
  BY <1>3
<1>6. shapes = RootShapes(s.widgets)
  <2> HIDE DEF shapes, built
  <2>1. [r \in DOMAIN roots |-> shapes[r]]
           = [r \in DOMAIN roots |-> [id |-> roots[r].id, tree |-> TreeShape(s.widgets, roots[r].id)]]
    BY <1>4, Zenon
  <2> QED
    BY <1>5, <2>1, Zenon DEF RootShapes, roots
<1>7. Shape(Assemble(s)) = [Assemble(s) EXCEPT !.roots = shapes]
  <2> DEFINE shown == Assemble(s)
  <2>1. shown.roots = built /\ "roots" \in DOMAIN shown
    BY <1>1
  <2> HIDE DEF shown, built
  <2>2. Shape(shown) = [shown EXCEPT !.roots = [r \in DOMAIN shown.roots |-> [id |-> shown.roots[r].id,
                          tree |-> [id \in DOMAIN shown.roots[r].tree |->
                                       <<shown.roots[r].tree[id].rec, shown.roots[r].tree[id].kids>>]]]]
    BY <2>1, Zenon DEF Shape
  <2> QED
    BY <2>1, <2>2, Zenon DEF shown
<1> HIDE DEF shapes, built
<1> QED
  BY <1>1, <1>6, <1>7

\* The form and the validity of a screen, as the proofs use them.
IsGoodScreen(s) == IsScreen(s) /\ ValidateScreen(s)

LEMMA GoodScreens ==
    ASSUME NEW conf, IsConfiguration(conf), Validate(conf)
    PROVE  /\ IsUnique(conf.screens)
           /\ \A s \in ToSet(conf.screens) : IsGoodScreen(s)
BY IdsToldApart DEF IsConfiguration, Validate, IsGoodScreen

LEMMA GoodWidgets ==
    ASSUME NEW s, IsGoodScreen(s)
    PROVE  /\ s.widgets \in Seq(ToSet(s.widgets)) /\ InOrderOfZ(s.widgets) /\ IsUnique(s.widgets)
           /\ \A w \in ToSet(s.widgets) : IsWidget(w) /\ w.z \in Int /\ IsList(w.kids)
           /\ \A w \in ToSet(s.widgets) : ToSet(w.kids) \subseteq Ids(s.widgets) \ {w.id}
           /\ \A w \in ToSet(s.widgets) : Len(w.kids) = IF w.type = "dial" THEN 1 ELSE 0
BY ScreenIsRecord, WidgetsHaveZ, IdsToldApart
   DEF IsGoodScreen, ValidateScreen, IsWidgets, IsWidget, IsLinked, ValidateChildren

\* A child or none is drawn as it is listed.
LEMMA DrawnAsListed ==
    ASSUME NEW s, IsGoodScreen(s), NEW w \in ToSet(s.widgets)
    PROVE  Drawn(s.widgets, w) = w.kids
<1> DEFINE list == s.widgets
           S == ToSet(list)
           kids == w.kids
<1>1. /\ list \in Seq(S) /\ IsUnique(list) /\ \A v \in S : v.z \in Int
      /\ ToSet(kids) \subseteq Ids(list) /\ Len(kids) \in {0, 1} /\ kids \in Seq(ToSet(kids))
  BY GoodWidgets DEF IsList
<1> HIDE DEF S, list, kids
<1>2. CASE Len(kids) = 0
  <2>1. kids = <<>> /\ ToSet(kids) = {}
    BY <1>1, <1>2 DEF ToSet
  <2>2. Only(list, ToSet(kids)) = <<>>
    BY <1>1, <2>1, OnlyNone
  <2>3. <<>> \in Seq(S) /\ InOrderOfZ(<<>>)
    BY DEF InOrderOfZ
  <2>4. InZOrder(<<>>) = <<>>
    BY <1>1, <2>3, OrderedStays
  <2>5. IdsInOrder(<<>>) = <<>>
    <3>1. DOMAIN <<>> = {}
      OBVIOUS
    <3> QED
      BY <3>1 DEF IdsInOrder
  <2> QED
    BY <2>1, <2>2, <2>4, <2>5 DEF Drawn, list, kids
<1>3. CASE Len(kids) = 1
  <2> DEFINE k == kids[1]
             v == Find(list, k)
  <2>1. kids = <<k>> /\ ToSet(kids) = {k}
    BY <1>1, <1>3 DEF ToSet
  <2>2. k \in Ids(list)
    BY <1>1, <2>1
  <2> HIDE DEF k
  <2>3. v \in S /\ v.id = k
    BY <1>1, <2>2, FindsRecord
  <2>4. Only(list, ToSet(kids)) = <<v>>
    BY <1>1, <2>1, <2>2, OnlyOne
  <2> HIDE DEF v
  <2>5. <<v>> \in Seq(S) /\ InOrderOfZ(<<v>>)
    <3>1. Len(<<v>>) = 1 /\ <<v>>[1] = v /\ v.z \in Int
      BY <1>1, <2>3
    <3>2. <<v>> \in Seq(S)
      BY <2>3
    <3> QED
      BY <3>1, <3>2 DEF InOrderOfZ
  <2>6. InZOrder(<<v>>) = <<v>>
    BY <1>1, <2>5, OrderedStays
  <2>7. IdsInOrder(<<v>>) = <<k>>
    <3>1. DOMAIN <<v>> = {1} /\ <<v>>[1] = v
      OBVIOUS
    <3>2. [i \in {1} |-> k] = <<k>>
      OBVIOUS
    <3>3. IdsInOrder(<<v>>) = [i \in {1} |-> k]
      BY <2>3, <3>1 DEF IdsInOrder
    <3> QED
      BY <3>2, <3>3
  <2> QED
    BY <2>1, <2>4, <2>6, <2>7 DEF Drawn, list, kids
<1> QED
  BY <1>1, <1>2, <1>3

\* The roots of a screen, in the order of the list.
LEMMA RootsAreThere ==
    ASSUME NEW s, IsGoodScreen(s)
    PROVE  /\ Roots(s.widgets) \in Seq(ToSet(s.widgets)) /\ InOrderOfZ(Roots(s.widgets)) /\ IsUnique(Roots(s.widgets))
           /\ Ids(Roots(s.widgets)) = RootIds(s.widgets) /\ RootIds(s.widgets) \subseteq Ids(s.widgets)
           /\ \A i \in 1 .. Len(Roots(s.widgets)) :
                 /\ Roots(s.widgets)[i].id \in RootIds(s.widgets)
                 /\ Find(s.widgets, Roots(s.widgets)[i].id) = Roots(s.widgets)[i]
<1> DEFINE list == s.widgets
           S == ToSet(list)
           roots == Roots(list)
<1>1. list \in Seq(S) /\ InOrderOfZ(list) /\ IsUnique(list)
  BY GoodWidgets
<1>2. RootIds(list) \subseteq Ids(list)
  BY DEF RootIds
<1> HIDE DEF S, list
<1>3. /\ roots \in Seq(S) /\ InOrderOfZ(roots) /\ IsUnique(roots) /\ Ids(roots) = Ids(list) \cap RootIds(list)
      /\ \A k \in 1 .. Len(roots) : \E i \in 1 .. Len(list) : roots[k] = list[i]
  BY <1>1, OnlyKeeps DEF Roots
<1>4. Ids(roots) = RootIds(list)
  BY <1>2, <1>3
<1> HIDE DEF roots
<1>5. ASSUME NEW i \in 1 .. Len(roots)
      PROVE  roots[i].id \in RootIds(list) /\ Find(list, roots[i].id) = roots[i]
  <2>1. roots[i].id \in RootIds(list)
    BY <1>3, <1>4, IdsOfPlaces
  <2>2. PICK j \in 1 .. Len(list) : roots[i] = list[j]
    BY <1>3
  <2>3. Find(list, list[j].id) = list[j]
    BY <1>1, FindsItself
  <2> QED
    BY <2>1, <2>2, <2>3
<1> QED
  BY <1>2, <1>3, <1>4, <1>5 DEF list, S, roots

\* No widget patch: the roots are the same and each has what it had.
LEMMA NothingPlanned ==
    ASSUME NEW old, IsGoodScreen(old), NEW new, IsGoodScreen(new), PlanWidgets(old.widgets, new.widgets) = <<>>
    PROVE  /\ RootIds(old.widgets) = RootIds(new.widgets)
           /\ \A id \in RootIds(new.widgets) :
                 /\ OwnedIds(old.widgets, id) = OwnedIds(new.widgets, id)
                 /\ \A k \in OwnedIds(new.widgets, id) : Find(old.widgets, k) = Find(new.widgets, k)
<1> DEFINE before == old.widgets
           after == new.widgets
           gone == Without(Roots(before), RootIds(after))
           removals == [i \in DOMAIN gone |-> [id |-> gone[i].id, action |-> "remove", widget |-> gone[i]]]
           roots == Roots(after)
           n == Len(roots)
           lists == [i \in DOMAIN roots |-> RootChange(before, after, roots[i])]
           others == FlattenSeq(lists)
<1>1. removals \o others = <<>>
  BY Zenon DEF PlanWidgets
<1>2. /\ roots \in Seq(ToSet(after)) /\ Ids(roots) = RootIds(after)
      /\ \A i \in 1 .. Len(roots) : roots[i].id \in RootIds(after) /\ Find(after, roots[i].id) = roots[i]
  BY RootsAreThere
<1>3. Roots(before) \in Seq(ToSet(before)) /\ Ids(Roots(before)) = RootIds(before)
  BY RootsAreThere
<1>4. gone \in Seq(ToSet(before)) /\ Ids(gone) = RootIds(before) \cap (RootIds(before) \ RootIds(after))
  BY <1>3, OnlyKeeps DEF Without
<1>5. n \in Nat /\ DOMAIN roots = 1 .. n
  BY <1>2
<1>6. DOMAIN lists = 1 .. n /\ \A i \in 1 .. n : lists[i] = RootChange(before, after, roots[i])
  BY <1>5
<1>7. lists = [i \in 1 .. n |-> lists[i]]
  BY <1>5
<1>8. \A i \in 1 .. n : lists[i] = <<>> \/ \E x : lists[i] = <<x>>
  <2> SUFFICES ASSUME NEW i \in 1 .. n PROVE lists[i] = <<>> \/ \E x : lists[i] = <<x>>
    OBVIOUS
  <2> DEFINE w == roots[i]
  <2>1. lists[i] = RootChange(before, after, w)
    BY <1>6
  <2> HIDE DEF w, lists
  <2>2. RootChange(before, after, w) = <<>> \/ \E x : RootChange(before, after, w) = <<x>>
    BY Zenon DEF RootChange
  <2> QED
    BY <2>1, <2>2
<1> HIDE DEF lists, roots, n
<1>9. (\E S : lists \in Seq(Seq(S))) /\ Len(lists) = n
  BY <1>5, <1>6, <1>7, <1>8, ShortLists
<1>10. PICK S : lists \in Seq(Seq(S))
  BY <1>9
<1>11. /\ others \in Seq(S)
       /\ \A x : (\E k \in 1 .. Len(others) : others[k] = x)
                  <=> \E i \in 1 .. Len(lists) : \E k \in 1 .. Len(lists[i]) : lists[i][k] = x
  BY <1>10, FlatHas, Zenon
<1> HIDE DEF others, gone
<1>12. \E R : removals \in Seq(R) /\ Len(removals) = Len(gone)
  <2> DEFINE removal(w) == [id |-> w.id, action |-> "remove", widget |-> w]
             R == {removal(gone[i]) : i \in 1 .. Len(gone)}
  <2>1. Len(gone) \in Nat /\ DOMAIN gone = 1 .. Len(gone)
    BY <1>4
  <2>2. removals \in [1 .. Len(gone) -> R]
    BY <2>1
  <2> HIDE DEF R, removals
  <2>3. removals \in Seq(R) /\ Len(removals) = Len(gone)
    BY <2>1, <2>2
  <2> QED
    BY <2>3
<1>13. PICK R : removals \in Seq(R) /\ Len(removals) = Len(gone)
  BY <1>12
<1> HIDE DEF removals
<1>14. Len(removals) = 0 /\ Len(others) = 0
  <2> DEFINE Q == R \cup S
  <2>1. removals \in Seq(Q) /\ others \in Seq(Q)
    BY <1>11, <1>13
  <2> HIDE DEF Q
  <2>2. Len(removals \o others) = Len(removals) + Len(others) /\ Len(removals) \in Nat /\ Len(others) \in Nat
    BY <2>1
  <2>3. Len(removals \o others) = 0
    BY <1>1
  <2> QED
    BY <2>2, <2>3
<1>15. RootIds(before) \subseteq RootIds(after)
  <2>1. Len(gone) = 0
    BY <1>13, <1>14
  <2>2. Ids(gone) = {}
    <3>1. \A id : id \in Ids(gone) <=> \E i \in 1 .. Len(gone) : gone[i].id = id
      BY <1>4, IdsOfPlaces
    <3>2. 1 .. Len(gone) = {}
      BY <2>1
    <3> QED
      BY <3>1, <3>2
  <2> QED
    BY <1>4, <2>2
<1>16. \A i \in 1 .. n : lists[i] = <<>>
  <2> SUFFICES ASSUME NEW i \in 1 .. n, NEW x, lists[i] = <<x>> PROVE FALSE
    BY <1>8
  <2>1. 1 \in 1 .. Len(lists[i]) /\ lists[i][1] = x
    OBVIOUS
  <2>2. i \in 1 .. Len(lists)
    BY <1>9
  <2>3. \E k \in 1 .. Len(others) : others[k] = x
    BY <1>11, <2>1, <2>2
  <2> QED
    BY <1>11, <1>14, <2>3
<1>17. ASSUME NEW id \in RootIds(after)
       PROVE  /\ id \in RootIds(before)
              /\ OwnedIds(before, id) = OwnedIds(after, id)
              /\ \A k \in OwnedIds(after, id) : Find(before, k) = Find(after, k)
  <2>1. PICK i \in 1 .. n : roots[i].id = id
    BY <1>2, IdsOfPlaces DEF n
  <2> DEFINE w == roots[i]
  <2>2. w.id = id /\ Find(after, id) = w
    BY <1>2, <2>1 DEF n
  <2>3. RootChange(before, after, w) = <<>>
    BY <1>6, <1>16
  <2> HIDE DEF w
  <2> DEFINE patch(action) == <<[id |-> w.id, action |-> action, widget |-> w]>>
  <2>4. RootChange(before, after, w) =
            IF w.id \notin RootIds(before) THEN patch("add")
            ELSE IF IsSubtreeChanged(before, after, w.id) THEN patch("replace")
            ELSE IF Find(before, w.id) = w THEN <<>>
            ELSE IF ClassifyWidgetChange(Find(before, w.id), w) = "in_place" THEN patch("update")
            ELSE patch("replace")
    BY Zenon DEF RootChange
  <2>5. \A action : patch(action) # <<>>
    OBVIOUS
  <2> HIDE DEF patch
  <2>6. id \in RootIds(before) /\ ~IsSubtreeChanged(before, after, id) /\ Find(before, id) = w
    BY <2>2, <2>3, <2>4, <2>5, Zenon
  <2>7. /\ OwnedIds(before, id) = OwnedIds(after, id)
        /\ \A k \in OwnedIds(after, id) \ {id} : Find(before, k) = Find(after, k)
    BY <2>6 DEF IsSubtreeChanged
  <2> QED
    BY <2>2, <2>6, <2>7
<1> QED
  BY <1>15, <1>17

\* A list of roots is drawn as it is.
LEMMA RootsInOrder ==
    ASSUME NEW s, IsGoodScreen(s), NEW other, RootIds(s.widgets) \subseteq RootIds(other)
    PROVE  KeptRoots(s.widgets, other) = IdsInOrder(Roots(s.widgets))
<1> DEFINE roots == Roots(s.widgets)
           S == ToSet(s.widgets)
<1>1. roots \in Seq(S) /\ InOrderOfZ(roots) /\ Ids(roots) \subseteq RootIds(other) /\ \A w \in S : w.z \in Int
  BY RootsAreThere, GoodWidgets
<1> HIDE DEF roots, S
<1>2. Only(roots, RootIds(other)) = roots
  BY <1>1, OnlyAll
<1>3. InZOrder(roots) = roots
  BY <1>1, OrderedStays
<1> QED
  BY <1>2, <1>3 DEF KeptRoots, roots

LEMMA SameShape ==
    ASSUME NEW old, IsGoodScreen(old), NEW new, IsGoodScreen(new), PlanScreen(old, new) = <<>>
    PROVE  Shape(Assemble(old)) = Shape(Assemble(new))
<1>1. CASE old = new
  BY <1>1
<1>2. CASE old # new
  <2> DEFINE before == old.widgets
             after == new.widgets
  <2>1. old # NoScreen
    BY ScreenIsRecord DEF IsGoodScreen
  <2>2. /\ ClassifyScreenChange(old, new) # "rebuild"
        /\ PlanWidgets(before, after) = <<>> /\ ~Reorders(before, after)
    <3>1. \A action, widgets : <<PatchOf(old, new, action, widgets)>> # <<>>
      OBVIOUS
    <3> QED
      BY <1>2, <2>1, <3>1, ScreenIsPlanned, Zenon
  <2>3. old.id = new.id /\ old.z = new.z
    <3>1. [old EXCEPT !.widgets = <<>>] = [new EXCEPT !.widgets = <<>>]
      BY <2>2, Zenon DEF ClassifyScreenChange
    <3>2. /\ old = [id |-> old.id, group |-> old.group, z |-> old.z, overlay |-> old.overlay, frame |-> old.frame,
                    widgets |-> old.widgets]
          /\ new = [id |-> new.id, group |-> new.group, z |-> new.z, overlay |-> new.overlay, frame |-> new.frame,
                    widgets |-> new.widgets]
      BY DEF IsGoodScreen, IsScreen
    <3>3. [old EXCEPT !.widgets = <<>>].id = old.id /\ [old EXCEPT !.widgets = <<>>].z = old.z
      BY <3>2
    <3>4. [new EXCEPT !.widgets = <<>>].id = new.id /\ [new EXCEPT !.widgets = <<>>].z = new.z
      BY <3>2
    <3> QED
      BY <3>1, <3>3, <3>4
  <2>4. /\ RootIds(before) = RootIds(after)
        /\ \A id \in RootIds(after) :
              /\ OwnedIds(before, id) = OwnedIds(after, id)
              /\ \A k \in OwnedIds(after, id) : Find(before, k) = Find(after, k)
    BY <2>2, NothingPlanned
  <2>5. IdsInOrder(Roots(before)) = IdsInOrder(Roots(after))
    <3>1. KeptRoots(before, after) = KeptRoots(after, before)
      BY <2>2 DEF Reorders
    <3>2. KeptRoots(before, after) = IdsInOrder(Roots(before)) /\ KeptRoots(after, before) = IdsInOrder(Roots(after))
      BY <2>4, RootsInOrder
    <3> QED
      BY <3>1, <3>2
  <2>6. DOMAIN Roots(before) = DOMAIN Roots(after)
        /\ \A i \in DOMAIN Roots(after) : Roots(before)[i].id = Roots(after)[i].id
    <3>1. ASSUME NEW list
          PROVE  /\ DOMAIN IdsInOrder(list) = DOMAIN list
                 /\ \A i \in DOMAIN list : IdsInOrder(list)[i] = list[i].id
      BY DEF IdsInOrder
    <3> QED
      BY <2>5, <3>1, Zenon
  <2>7. ASSUME NEW id \in RootIds(after)
        PROVE  TreeShape(before, id) = TreeShape(after, id)
    <3>1. ASSUME NEW k \in OwnedIds(after, id)
          PROVE  Find(before, k) = Find(after, k) /\ Drawn(before, Find(before, k)) = Drawn(after, Find(after, k))
      <4>1. Find(before, k) = Find(after, k) /\ k \in OwnedIds(before, id)
        BY <2>4
      <4>2. k \in Ids(after) /\ k \in Ids(before)
        BY <4>1 DEF OwnedIds
      <4>3. Find(after, k) \in ToSet(after) /\ Find(before, k) \in ToSet(before)
        BY <4>2, GoodWidgets, FindsRecord
      <4>4. Drawn(before, Find(before, k)) = Find(before, k).kids /\ Drawn(after, Find(after, k)) = Find(after, k).kids
        BY <4>3, DrawnAsListed
      <4> QED
        BY <4>1, <4>4
    <3>2. OwnedIds(before, id) = OwnedIds(after, id)
      BY <2>4
    <3> DEFINE owned == OwnedIds(after, id)
    <3>3. [k \in owned |-> <<Find(before, k), Drawn(before, Find(before, k))>>]
             = [k \in owned |-> <<Find(after, k), Drawn(after, Find(after, k))>>]
      <4> HIDE DEF owned, before, after
      <4>1. \A k \in owned :
               <<Find(before, k), Drawn(before, Find(before, k))>> = <<Find(after, k), Drawn(after, Find(after, k))>>
        BY <3>1 DEF owned
      <4> QED
        BY <4>1, Zenon
    <3> QED
      BY <3>2, <3>3, Zenon DEF TreeShape
  <2>8. RootShapes(before) = RootShapes(after)
    <3> DEFINE places == DOMAIN Roots(after)
               first(i) == [id |-> Roots(before)[i].id, tree |-> TreeShape(before, Roots(before)[i].id)]
               second(i) == [id |-> Roots(after)[i].id, tree |-> TreeShape(after, Roots(after)[i].id)]
    <3>1. ASSUME NEW i \in places PROVE first(i) = second(i)
      <4>1. Roots(before)[i].id = Roots(after)[i].id
        BY <2>6
      <4>2. Roots(after)[i].id \in RootIds(after)
        BY RootsAreThere
      <4> QED
        BY <4>1, <4>2, <2>7, Zenon
    <3>2. RootShapes(before) = [i \in places |-> first(i)]
      BY <2>6, Zenon DEF RootShapes
    <3>3. RootShapes(after) = [i \in places |-> second(i)]
      BY Zenon DEF RootShapes
    <3> HIDE DEF first, second, places
    <3>4. [i \in places |-> first(i)] = [i \in places |-> second(i)]
      BY <3>1, Zenon
    <3> QED
      BY <3>2, <3>3, <3>4, Zenon
  <2> QED
    BY <2>3, <2>8, ShapeOfAssembled
<1> QED
  BY <1>1, <1>2

-----------------------------------------------------------------------------
(* Plans: first what goes, then what is made of each that stays or comes. *)

\* A plan of removals, of records that go, and of a list for each record that is kept, with a patch or none.
IsPlanned(plan, removals, lists, n) ==
    /\ IsUnique(plan)
    /\ \A k \in 1 .. Len(plan) :
          \/ \E i \in 1 .. Len(removals) : plan[k] = removals[i]
          \/ \E i \in 1 .. n : lists[i] = <<plan[k]>>
    /\ \A i \in 1 .. Len(removals) : \E k \in 1 .. Len(plan) : plan[k] = removals[i]
    /\ \A i \in 1 .. n : \A x : lists[i] = <<x>> => \E k \in 1 .. Len(plan) : plan[k] = x

\* Lists that have a record's patch or none, flattened, have the records' ids told apart.
LEMMA FlatIsUnique ==
    ASSUME NEW B, NEW kept \in Seq(B), IsUnique(kept),
           NEW S, NEW lists \in Seq(Seq(S)), Len(lists) = Len(kept),
           \A i \in 1 .. Len(kept) : lists[i] = <<>> \/ \E x : lists[i] = <<x>> /\ x.id = kept[i].id
    PROVE  IsUnique(FlattenSeq(lists))
<1> DEFINE n == Len(kept)
<1>1. n \in Nat /\ Len(lists) = n
  OBVIOUS
<1>2. PICK flat : /\ IsFlattening(flat, lists, n)
                  /\ \A i \in 0 .. n : flat[i] \in Seq(S)
                  /\ FlattenSeq(lists) = flat[n]
  BY <1>1, FlattensInTurn
<1>3. \A i \in 1 .. n : lists[i] = <<>> \/ \E x : lists[i] = <<x>> /\ x.id = kept[i].id
  OBVIOUS
<1>4. \A i, j \in 1 .. n : kept[i].id = kept[j].id => i = j
  BY DEF IsUnique
<1> HIDE DEF n
<1> DEFINE Good(m) == /\ IsUnique(flat[m])
                      /\ \A k \in 1 .. Len(flat[m]) : \E i \in 1 .. m : flat[m][k].id = kept[i].id
           T == {m \in Nat : m <= n => Good(m)}
<1>5. 0 \in T
  <2>1. flat[0] = <<>>
    BY <1>2 DEF IsFlattening
  <2> QED
    BY <2>1 DEF IsUnique
<1>6. ASSUME NEW m \in T PROVE m + 1 \in T
  <2> SUFFICES ASSUME m + 1 <= n PROVE Good(m + 1)
    <3> HIDE DEF Good
    <3> QED
      OBVIOUS
  <2>1. m \in Nat /\ m \in 0 .. n /\ m + 1 \in 1 .. n /\ m <= n /\ (m + 1) - 1 = m
    BY <1>1
  <2>2. Good(m)
    <3> HIDE DEF Good
    <3> QED
      BY <2>1
  <2> DEFINE old == flat[m]
             new == flat[m + 1]
             l == lists[m + 1]
  <2>3. old \in Seq(S) /\ new \in Seq(S) /\ l \in Seq(S) /\ new = old \o l
    <3>1. old \in Seq(S) /\ new \in Seq(S)
      <4>1. m + 1 \in 0 .. n
        BY <2>1, <1>1
      <4> QED
        BY <1>2, <2>1, <4>1, Zenon
    <3>2. l \in Seq(S)
      BY <2>1, <1>1
    <3>3. new = flat[(m + 1) - 1] \o lists[m + 1]
      BY <1>2, <2>1, Zenon DEF IsFlattening
    <3> QED
      BY <2>1, <3>1, <3>2, <3>3
  <2>4. IsUnique(old) /\ \A k \in 1 .. Len(old) : \E i \in 1 .. m : old[k].id = kept[i].id
    BY <2>2
  <2>5. l = <<>> \/ \E x : l = <<x>> /\ x.id = kept[m + 1].id
    BY <1>3, <2>1
  <2>6. 1 .. (m + 1) = (1 .. m) \cup {m + 1}
    BY <2>1
  <2> HIDE DEF old, new, l, Good
  <2>7. CASE l = <<>>
    <3>1. new = old
      BY <2>3, <2>7
    <3>2. \A k \in 1 .. Len(new) : \E i \in 1 .. m + 1 : new[k].id = kept[i].id
      BY <2>4, <2>6, <3>1
    <3> QED
      BY <2>4, <3>1, <3>2 DEF Good, new
  <2>8. ASSUME NEW x, l = <<x>>, x.id = kept[m + 1].id PROVE Good(m + 1)
    <3>1. Len(new) = Len(old) + 1 /\ new[Len(old) + 1] = x /\ Len(old) \in Nat
          /\ \A k \in 1 .. Len(old) : new[k] = old[k]
      BY <2>3, <2>8
    <3>2. 1 .. Len(new) = (1 .. Len(old)) \cup {Len(old) + 1}
      BY <3>1
    <3>3. \A k \in 1 .. Len(old) : new[k].id # x.id
      <4> SUFFICES ASSUME NEW k \in 1 .. Len(old), new[k].id = x.id PROVE FALSE
        OBVIOUS
      <4>1. PICK i \in 1 .. m : old[k].id = kept[i].id
        BY <2>4
      <4>2. i \in 1 .. n /\ i # m + 1
        BY <1>1, <2>1
      <4> QED
        BY <1>4, <2>1, <2>8, <3>1, <4>1, <4>2
    <3>4. IsUnique(new)
      <4> SUFFICES ASSUME NEW j \in 1 .. Len(new), NEW k \in 1 .. Len(new), new[j].id = new[k].id PROVE j = k
        BY DEF IsUnique
      <4>1. CASE j \in 1 .. Len(old) /\ k \in 1 .. Len(old)
        BY <2>4, <3>1, <4>1 DEF IsUnique
      <4>2. CASE j = Len(old) + 1 /\ k = Len(old) + 1
        BY <4>2
      <4>3. CASE j = Len(old) + 1 /\ k \in 1 .. Len(old)
        BY <3>1, <3>3, <4>3
      <4>4. CASE j \in 1 .. Len(old) /\ k = Len(old) + 1
        BY <3>1, <3>3, <4>4
      <4> QED
        BY <3>2, <4>1, <4>2, <4>3, <4>4
    <3>5. \A k \in 1 .. Len(new) : \E i \in 1 .. m + 1 : new[k].id = kept[i].id
      <4> SUFFICES ASSUME NEW k \in 1 .. Len(new) PROVE \E i \in 1 .. m + 1 : new[k].id = kept[i].id
        OBVIOUS
      <4>1. CASE k = Len(old) + 1
        BY <2>6, <2>8, <3>1, <4>1
      <4>2. CASE k \in 1 .. Len(old)
        <5>1. PICK i \in 1 .. m : old[k].id = kept[i].id
          BY <2>4, <4>2
        <5> QED
          BY <2>6, <3>1, <4>2, <5>1
      <4> QED
        BY <3>2, <4>1, <4>2
    <3> QED
      BY <3>4, <3>5 DEF Good, new
  <2> QED
    BY <2>5, <2>7, <2>8
<1> HIDE DEF T, Good
<1>7. T = Nat
  BY <1>5, <1>6, AllNumbers DEF T
<1>8. Good(n)
  BY <1>1, <1>7 DEF T
<1> QED
  BY <1>2, <1>8 DEF Good

\* A list that has just what the lists have.
HasAll(list, lists) ==
    \A x : (\E k \in 1 .. Len(list) : list[k] = x)
           <=> \E i \in 1 .. Len(lists) : \E k \in 1 .. Len(lists[i]) : lists[i][k] = x

LEMMA FlatHasAll ==
    ASSUME NEW S, NEW lists \in Seq(Seq(S))
    PROVE  FlattenSeq(lists) \in Seq(S) /\ HasAll(FlattenSeq(lists), lists)
<1>1. lists \in Seq(Seq(S))
  OBVIOUS
<1> QED
  BY <1>1, FlatHas, Zenon DEF HasAll

LEMMA ListsJoin ==
    ASSUME NEW S, NEW first \in Seq(S), NEW second \in Seq(S)
    PROVE  /\ first \o second \in Seq(S) /\ Len(first \o second) = Len(first) + Len(second)
           /\ Len(first) \in Nat /\ Len(second) \in Nat
           /\ \A k \in 1 .. Len(first) : (first \o second)[k] = first[k]
           /\ \A k \in 1 .. Len(second) : (first \o second)[Len(first) + k] = second[k]
OBVIOUS

\* A removal of each record that goes, and of each that is kept a list that has its patch or none.
AreRemovals(removals, gone) ==
    Len(removals) = Len(gone) /\ \A i \in 1 .. Len(gone) : removals[i].id = gone[i].id

AreChanges(lists, kept) ==
    /\ Len(lists) = Len(kept)
    /\ \A i \in 1 .. Len(kept) : lists[i] = <<>> \/ \E x : lists[i] = <<x>> /\ x.id = kept[i].id

LEMMA PlansAreMade ==
    ASSUME NEW A, NEW gone \in Seq(A), IsUnique(gone),
           NEW B, NEW kept \in Seq(B), IsUnique(kept), Ids(gone) \cap Ids(kept) = {},
           NEW R, NEW removals \in Seq(R), AreRemovals(removals, gone),
           NEW S, NEW lists \in Seq(Seq(S)), AreChanges(lists, kept)
    PROVE  /\ removals \o FlattenSeq(lists) \in Seq(R \cup S)
           /\ IsPlanned(removals \o FlattenSeq(lists), removals, lists, Len(kept))
<1> DEFINE others == FlattenSeq(lists)
           plan == removals \o others
           n == Len(kept)
           Q == R \cup S
<1>1. others \in Seq(S) /\ HasAll(others, lists)
  BY FlatHasAll
<1>2. IsUnique(others)
  BY FlatIsUnique DEF AreChanges
<1> HIDE DEF others, n
<1>6. removals \in Seq(Q) /\ others \in Seq(Q)
  BY <1>1
<1> HIDE DEF Q
<1>7. /\ plan \in Seq(Q) /\ Len(plan) = Len(removals) + Len(others)
      /\ Len(removals) \in Nat /\ Len(others) \in Nat
      /\ \A k \in 1 .. Len(removals) : plan[k] = removals[k]
      /\ \A k \in 1 .. Len(others) : plan[Len(removals) + k] = others[k]
  <2>1. plan = removals \o others
    OBVIOUS
  <2> HIDE DEF plan
  <2>2. /\ removals \o others \in Seq(Q) /\ Len(removals \o others) = Len(removals) + Len(others)
        /\ Len(removals) \in Nat /\ Len(others) \in Nat
        /\ \A k \in 1 .. Len(removals) : (removals \o others)[k] = removals[k]
        /\ \A k \in 1 .. Len(others) : (removals \o others)[Len(removals) + k] = others[k]
    BY <1>6, ListsJoin
  <2> QED
    BY <2>1, <2>2, Zenon
<1> HIDE DEF plan
<1>3. \A i \in 1 .. n : lists[i] = <<>> \/ \E x : lists[i] = <<x>> /\ x.id = kept[i].id
  BY DEF AreChanges, n
<1>4. \A i \in 1 .. Len(removals) : removals[i].id \in Ids(gone)
  BY IdsOfPlaces DEF AreRemovals
<1>5. n \in Nat /\ Len(lists) = n
  BY DEF AreChanges, n
<1>8. ASSUME NEW k \in 1 .. Len(plan)
      PROVE  \/ k \in 1 .. Len(removals) /\ plan[k] = removals[k]
             \/ k - Len(removals) \in 1 .. Len(others) /\ plan[k] = others[k - Len(removals)]
  <2>1. CASE k <= Len(removals)
    BY <1>7, <2>1
  <2>2. CASE k > Len(removals)
    <3>1. k - Len(removals) \in 1 .. Len(others) /\ Len(removals) + (k - Len(removals)) = k
      BY <1>7, <2>2
    <3> QED
      BY <1>7, <3>1
  <2> QED
    BY <1>7, <2>1, <2>2
<1>9. ASSUME NEW k \in 1 .. Len(others)
      PROVE  \E i \in 1 .. n : lists[i] = <<others[k]>> /\ others[k].id = kept[i].id
  <2>1. PICK i \in 1 .. n : \E l \in 1 .. Len(lists[i]) : lists[i][l] = others[k]
    BY <1>1, <1>5 DEF HasAll
  <2>2. PICK x : lists[i] = <<x>> /\ x.id = kept[i].id
    BY <1>3, <2>1
  <2>3. others[k] = x
    BY <2>1, <2>2
  <2> QED
    BY <2>2, <2>3
<1>10. \A k \in 1 .. Len(others) : others[k].id \in Ids(kept)
  BY <1>9, IdsOfPlaces DEF n
<1>11. IsUnique(plan)
  <2> SUFFICES ASSUME NEW j \in 1 .. Len(plan), NEW k \in 1 .. Len(plan), plan[j].id = plan[k].id PROVE j = k
    BY DEF IsUnique
  <2>1. CASE j \in 1 .. Len(removals) /\ k \in 1 .. Len(removals)
    <3>1. gone[j].id = gone[k].id /\ j \in 1 .. Len(gone) /\ k \in 1 .. Len(gone)
      BY <1>7, <2>1 DEF AreRemovals
    <3> QED
      BY <3>1 DEF IsUnique
  <2>2. CASE j - Len(removals) \in 1 .. Len(others) /\ k - Len(removals) \in 1 .. Len(others)
             /\ plan[j] = others[j - Len(removals)] /\ plan[k] = others[k - Len(removals)]
    <3>1. j - Len(removals) = k - Len(removals)
      BY <1>2, <2>2 DEF IsUnique
    <3> QED
      BY <1>7, <3>1
  <2>3. CASE j \in 1 .. Len(removals) /\ k - Len(removals) \in 1 .. Len(others) /\ plan[j] = removals[j]
             /\ plan[k] = others[k - Len(removals)]
    BY <1>4, <1>10, <2>3
  <2>4. CASE k \in 1 .. Len(removals) /\ j - Len(removals) \in 1 .. Len(others) /\ plan[k] = removals[k]
             /\ plan[j] = others[j - Len(removals)]
    BY <1>4, <1>10, <2>4
  <2> QED
    BY <1>8, <2>1, <2>2, <2>3, <2>4
<1>12. \A k \in 1 .. Len(plan) :
          \/ \E i \in 1 .. Len(removals) : plan[k] = removals[i]
          \/ \E i \in 1 .. n : lists[i] = <<plan[k]>>
  <2> SUFFICES ASSUME NEW k \in 1 .. Len(plan), ~ \E i \in 1 .. Len(removals) : plan[k] = removals[i]
               PROVE  \E i \in 1 .. n : lists[i] = <<plan[k]>>
    OBVIOUS
  <2>1. k - Len(removals) \in 1 .. Len(others) /\ plan[k] = others[k - Len(removals)]
    BY <1>8
  <2>2. PICK i \in 1 .. n : lists[i] = <<others[k - Len(removals)]>>
    BY <1>9, <2>1
  <2> QED
    BY <2>1, <2>2
<1>13. /\ \A k \in 1 .. Len(removals) : k \in 1 .. Len(plan)
       /\ \A k \in 1 .. Len(others) : Len(removals) + k \in 1 .. Len(plan)
  BY <1>7
<1>14. \A i \in 1 .. Len(removals) : \E k \in 1 .. Len(plan) : plan[k] = removals[i]
  BY <1>7, <1>13
<1>15. ASSUME NEW i \in 1 .. n, NEW x, lists[i] = <<x>>
       PROVE  \E k \in 1 .. Len(plan) : plan[k] = x
  <2>1. 1 \in 1 .. Len(lists[i]) /\ lists[i][1] = x
    BY <1>15
  <2>2. PICK k \in 1 .. Len(others) : others[k] = x
    BY <1>1, <1>5, <2>1 DEF HasAll
  <2> QED
    BY <1>7, <1>13, <2>2
<1> QED
  BY <1>7, <1>11, <1>12, <1>14, <1>15 DEF IsPlanned, plan, others, n, Q

-----------------------------------------------------------------------------
(* Lists that are patched: one record is put, or goes, and the others stay as they are. *)

\* Roots that take one change of a list after the other.
IsRootFold(list, roots, new, fold, n) ==
    fold = [s \in SUBSET (1 .. n) |->
                IF s = {} THEN roots
                ELSE ApplyWidgetPatch(fold[s \ {Max(s)}], new, list[Max(s)])]

LEMMA RootFoldsThere ==
    ASSUME NEW list, NEW roots, NEW new, NEW n \in Nat
    PROVE  \E fold : IsRootFold(list, roots, new, fold, n)
<1> DEFINE T == {m \in Nat : \E fold : IsRootFold(list, roots, new, fold, m)}
<1>1. 0 \in T
  <2> DEFINE fold == [s \in SUBSET (1 .. 0) |-> roots]
  <2>1. \A s \in SUBSET (1 .. 0) : s = {}
    OBVIOUS
  <2>2. fold = [s \in SUBSET (1 .. 0) |->
                IF s = {} THEN roots
                ELSE ApplyWidgetPatch(fold[s \ {Max(s)}], new, list[Max(s)])]
    BY <2>1, Zenon
  <2>3. IsRootFold(list, roots, new, fold, 0)
    BY <2>2, Zenon DEF IsRootFold
  <2> QED
    BY <2>3
<1>2. ASSUME NEW m \in T PROVE m + 1 \in T
  <2>1. PICK before : IsRootFold(list, roots, new, before, m)
    OBVIOUS
  <2> DEFINE k == m + 1
             fold == [s \in SUBSET (1 .. k) |->
                        IF k \in s THEN ApplyWidgetPatch(before[s \ {k}], new, list[k])
                        ELSE before[s]]
             step(s) == IF s = {} THEN roots
                        ELSE ApplyWidgetPatch(fold[s \ {Max(s)}], new, list[Max(s)])
  <2>2. k \in Nat
    OBVIOUS
  <2>3. ASSUME NEW s \in SUBSET (1 .. k) PROVE fold[s] = step(s)
    <3>1. CASE k \in s
      <4>1. Max(s) = k /\ s # {}
        <5> HIDE DEF k
        <5> QED
          BY <3>1, <2>2, LastIsGreatest
      <4>2. s \ {k} \in SUBSET (1 .. k) /\ k \notin s \ {k}
        OBVIOUS
      <4>3. fold[s \ {k}] = before[s \ {k}]
        BY <4>2, Zenon
      <4> QED
        BY <3>1, <4>1, <4>3, Zenon
    <3>2. CASE k \notin s
      <4>1. s \in SUBSET (1 .. m)
        BY <3>2
      <4>2. s # {} => Max(s) \in s
        <5> SUFFICES ASSUME s # {} PROVE Max(s) \in s
          OBVIOUS
        <5> QED
          BY <4>1, ThereIsGreatest
      <4>3. fold[s] = before[s]
        BY <3>2, Zenon
      <4>4. s \ {Max(s)} \in SUBSET (1 .. k) /\ k \notin s \ {Max(s)}
        BY <3>2
      <4>5. fold[s \ {Max(s)}] = before[s \ {Max(s)}]
        BY <4>4, Zenon
      <4>6. before[s] = IF s = {} THEN roots
                         ELSE ApplyWidgetPatch(before[s \ {Max(s)}], new, list[Max(s)])
        BY <2>1, <4>1, Zenon DEF IsRootFold
      <4> QED
        BY <4>3, <4>5, <4>6, Zenon
    <3> QED
      BY <3>1, <3>2
  <2>4. IsRootFold(list, roots, new, fold, k)
    <3>1. fold = [s \in SUBSET (1 .. k) |-> fold[s]]
      BY Zenon
    <3>2. [s \in SUBSET (1 .. k) |-> fold[s]] = [s \in SUBSET (1 .. k) |-> step(s)]
      <4> HIDE DEF step, fold
      <4> QED
        BY <2>3, Zenon
    <3>3. fold = [s \in SUBSET (1 .. k) |-> step(s)]
      BY <3>1, <3>2, Zenon
    <3> QED
      BY <3>3, Zenon DEF IsRootFold
  <2> HIDE DEF fold, k, step
  <2> QED
    BY <2>4, <2>2 DEF k
<1> HIDE DEF T
<1>3. T = Nat
  BY <1>1, <1>2, AllNumbers DEF T
<1> QED
  BY <1>3 DEF T

LEMMA RootFoldsInTurn ==
    ASSUME NEW S, NEW list \in Seq(S), NEW roots, NEW new
    PROVE  \E done :
              /\ done[0] = roots
              /\ \A i \in 1 .. Len(list) : done[i] = ApplyWidgetPatch(done[i - 1], new, list[i])
              /\ PatchRoots(roots, new, list) = done[Len(list)]
<1> DEFINE n == Len(list)
           fold == CHOOSE fold : IsRootFold(list, roots, new, fold, n)
           done == [i \in 0 .. n |-> fold[1 .. i]]
<1>1. n \in Nat /\ DOMAIN list = 1 .. n
  OBVIOUS
<1>2. IsRootFold(list, roots, new, fold, n)
  <2> HIDE DEF n
  <2> QED
    BY <1>1, RootFoldsThere
<1>3. PatchRoots(roots, new, list) = fold[1 .. n]
  <2>1. PatchRoots(roots, new, list) = (CHOOSE f : IsRootFold(list, roots, new, f, n))[1 .. n]
    BY <1>1, Zenon DEF PatchRoots, FoldLeft, MapThenFoldSet, IsRootFold
  <2> QED
    BY <2>1
<1> HIDE DEF fold, n
<1>4. ASSUME NEW s \in SUBSET (1 .. n), s # {}
      PROVE  fold[s] = ApplyWidgetPatch(fold[s \ {Max(s)}], new, list[Max(s)])
  BY <1>2, <1>4, Zenon DEF IsRootFold
<1>5. fold[{}] = roots
  <2>1. {} \in SUBSET (1 .. n)
    OBVIOUS
  <2> QED
    BY <1>2, <2>1, Zenon DEF IsRootFold
<1>6. done[0] = roots
  <2>1. 1 .. 0 = {} /\ 0 \in 0 .. n
    BY <1>1
  <2> QED
    BY <2>1, <1>5, Zenon
<1>7. ASSUME NEW i \in 1 .. n
      PROVE  done[i] = ApplyWidgetPatch(done[i - 1], new, list[i])
  <2>1. i \in Nat /\ i \in 0 .. n /\ i - 1 \in 0 .. n /\ 1 .. i \in SUBSET (1 .. n) /\ 1 .. i # {}
    BY <1>1
  <2>2. Max(1 .. i) = i
    BY <2>1, LastIsGreatest
  <2>3. (1 .. i) \ {i} = 1 .. (i - 1)
    BY <2>1
  <2>4. fold[1 .. i] = ApplyWidgetPatch(fold[1 .. (i - 1)], new, list[i])
    BY <1>4, <2>1, <2>2, <2>3, Zenon
  <2> QED
    BY <2>1, <2>4, Zenon
<1>8. done[n] = fold[1 .. n]
  <2>1. n \in 0 .. n
    BY <1>1
  <2> QED
    BY <2>1, Zenon
<1> HIDE DEF done
<1> QED
  BY <1>3, <1>6, <1>7, <1>8, Zenon DEF n

\* A list with a record put, in the place of the one of its id if there is one.
IsPut(longer, list, x) ==
    /\ IsUnique(longer)
    /\ Ids(longer) = Ids(list) \cup {x.id}
    /\ \A k \in 1 .. Len(longer) :
          longer[k] = x \/ \E i \in 1 .. Len(list) : longer[k] = list[i] /\ list[i].id # x.id

\* A list that the record of an id has left.
IsTaken(shorter, list, id) ==
    /\ IsUnique(shorter)
    /\ Ids(shorter) = Ids(list) \ {id}
    /\ \A k \in 1 .. Len(shorter) : \E i \in 1 .. Len(list) : shorter[k] = list[i] /\ list[i].id # id

LEMMA TakesRecord ==
    ASSUME NEW S, NEW list \in Seq(S), IsUnique(list), NEW id
    PROVE  Without(list, {id}) \in Seq(S) /\ IsTaken(Without(list, {id}), list, id)
<1> DEFINE others == Ids(list) \ {id}
           shorter == Only(list, others)
<1>1. /\ shorter \in Seq(S) /\ Ids(shorter) = Ids(list) \cap others /\ IsUnique(shorter)
      /\ \A k \in 1 .. Len(shorter) : \E i \in 1 .. Len(list) : shorter[k] = list[i]
  <2> HIDE DEF others
  <2>1. shorter \in Seq(S)
    BY OnlyKeeps
  <2>2. Ids(shorter) = Ids(list) \cap others
    BY OnlyKeeps
  <2>3. IsUnique(shorter)
    BY OnlyKeeps
  <2>4. \A k \in 1 .. Len(shorter) : \E i \in 1 .. Len(list) : shorter[k] = list[i]
    BY OnlyKeeps
  <2> QED
    BY <2>1, <2>2, <2>3, <2>4
<1>2. \A x : x \in Ids(shorter) <=> \E k \in 1 .. Len(shorter) : shorter[k].id = x
  <2> HIDE DEF shorter
  <2> QED
    BY <1>1, IdsOfPlaces
<1>3. Without(list, {id}) = shorter
  BY Zenon DEF Without
<1> HIDE DEF shorter
<1>4. \A k \in 1 .. Len(shorter) : shorter[k].id # id
  BY <1>1, <1>2
<1> QED
  BY <1>1, <1>3, <1>4 DEF IsTaken

LEMMA PutsInPlace ==
    ASSUME NEW S, NEW list \in Seq(S), IsUnique(list), NEW x \in S, x.id \in Ids(list)
    PROVE  /\ ReplaceAt(list, IndexOf(list, x.id), x) \in Seq(S)
           /\ IsPut(ReplaceAt(list, IndexOf(list, x.id), x), list, x)
<1> DEFINE place == IndexOf(list, x.id)
           longer == ReplaceAt(list, place, x)
           n == Len(list)
<1>1. place \in 1 .. n /\ list[place].id = x.id
  BY FindsRecord
<1> HIDE DEF place
<1>2. /\ longer \in Seq(S) /\ Len(longer) = n
      /\ \A i \in 1 .. n : longer[i] = IF i = place THEN x ELSE list[i]
  <2>1. place \in 1 .. Len(list) /\ x \in S
    BY <1>1
  <2>2. longer \in Seq(S) /\ Len(longer) = Len(list)
    BY <2>1, ReplacesThere
  <2>3. \A i \in 1 .. Len(list) : longer[i] = IF i = place THEN x ELSE list[i]
    BY <2>1, ReplacesThere
  <2> QED
    BY <2>2, <2>3
<1> HIDE DEF longer
<1>3. \A i \in 1 .. n : longer[i].id = list[i].id
  BY <1>1, <1>2
<1>4. IsUnique(longer)
  BY <1>2, <1>3 DEF IsUnique
<1>5. Ids(longer) = Ids(list)
  <2>1. /\ \A id : id \in Ids(longer) <=> \E i \in 1 .. n : longer[i].id = id
        /\ \A id : id \in Ids(list) <=> \E i \in 1 .. n : list[i].id = id
    BY <1>2, IdsOfPlaces
  <2> QED
    BY <1>3, <2>1
<1>6. \A k \in 1 .. n : longer[k] = x \/ (longer[k] = list[k] /\ list[k].id # x.id)
  <2> SUFFICES ASSUME NEW k \in 1 .. n, k # place PROVE longer[k] = list[k] /\ list[k].id # x.id
    BY <1>2
  <2> QED
    BY <1>1, <1>2 DEF IsUnique
<1>7. \A k \in 1 .. Len(longer) : longer[k] = x \/ \E i \in 1 .. n : longer[k] = list[i] /\ list[i].id # x.id
  BY <1>2, <1>6
<1> QED
  BY <1>2, <1>4, <1>5, <1>7 DEF IsPut, longer, place

LEMMA PutsLast ==
    ASSUME NEW S, NEW list \in Seq(S), IsUnique(list), NEW x \in S, x.id \notin Ids(list)
    PROVE  Append(list, x) \in Seq(S) /\ IsPut(Append(list, x), list, x)
<1> DEFINE longer == Append(list, x)
           n == Len(list)
<1>1. /\ longer \in Seq(S) /\ Len(longer) = n + 1 /\ n \in Nat
      /\ longer[n + 1] = x /\ \A i \in 1 .. n : longer[i] = list[i]
  OBVIOUS
<1>2. /\ \A id : id \in Ids(longer) <=> \E i \in 1 .. Len(longer) : longer[i].id = id
      /\ \A id : id \in Ids(list) <=> \E i \in 1 .. n : list[i].id = id
  <2> HIDE DEF longer
  <2> QED
    BY <1>1, IdsOfPlaces
<1> HIDE DEF longer
<1>3. 1 .. Len(longer) = (1 .. n) \cup {n + 1}
  BY <1>1
<1>4. \A i \in 1 .. n : list[i].id # x.id
  BY <1>2
<1>5. IsUnique(longer)
  <2> SUFFICES ASSUME NEW j \in 1 .. Len(longer), NEW k \in 1 .. Len(longer), longer[j].id = longer[k].id PROVE j = k
    BY DEF IsUnique
  <2>1. CASE j \in 1 .. n /\ k \in 1 .. n
    BY <1>1, <2>1 DEF IsUnique
  <2>2. CASE j = n + 1 /\ k \in 1 .. n
    BY <1>1, <1>4, <2>2
  <2>3. CASE k = n + 1 /\ j \in 1 .. n
    BY <1>1, <1>4, <2>3
  <2> QED
    BY <1>3, <2>1, <2>2, <2>3
<1>6. Ids(longer) = Ids(list) \cup {x.id}
  <2>1. ASSUME NEW id PROVE id \in Ids(longer) <=> id \in Ids(list) \/ id = x.id
    BY <1>1, <1>2, <1>3
  <2> QED
    BY <2>1
<1>7. \A k \in 1 .. Len(longer) : longer[k] = x \/ \E i \in 1 .. n : longer[k] = list[i] /\ list[i].id # x.id
  BY <1>1, <1>3, <1>4
<1> QED
  BY <1>1, <1>5, <1>6, <1>7 DEF IsPut, longer

\* The screen that takes the place of the one of its id goes where its z-index puts it.
LEMMA PutsByZ ==
    ASSUME NEW S, \A r \in S : r.z \in Int, NEW list \in Seq(S), IsUnique(list), NEW x \in S
    PROVE  AddByZ(Without(list, {x.id}), x) \in Seq(S) /\ IsPut(AddByZ(Without(list, {x.id}), x), list, x)
<1> DEFINE shorter == Without(list, {x.id})
           longer == AddByZ(shorter, x)
<1>1. shorter \in Seq(S) /\ IsTaken(shorter, list, x.id)
  BY TakesRecord
<1> HIDE DEF shorter
<1>2. longer \in Seq(S) /\ IsAdded(longer, shorter, x)
  BY <1>1, AddsRecord
<1> HIDE DEF longer
<1>3. IsUnique(shorter) /\ Ids(shorter) = Ids(list) \ {x.id}
  BY <1>1 DEF IsTaken
<1>4. IsUnique(longer) /\ Ids(longer) = Ids(list) \cup {x.id}
  BY <1>2, <1>3 DEF IsAdded
<1>5. \A k \in 1 .. Len(longer) : longer[k] = x \/ \E i \in 1 .. Len(shorter) : longer[k] = shorter[i]
  BY <1>2 DEF IsAdded
<1>6. \A k \in 1 .. Len(longer) : longer[k] = x \/ \E i \in 1 .. Len(list) : longer[k] = list[i] /\ list[i].id # x.id
  <2>1. \A k \in 1 .. Len(shorter) : \E i \in 1 .. Len(list) : shorter[k] = list[i] /\ list[i].id # x.id
    BY <1>1, Zenon DEF IsTaken
  <2> SUFFICES ASSUME NEW k \in 1 .. Len(longer), longer[k] # x
               PROVE  \E i \in 1 .. Len(list) : longer[k] = list[i] /\ list[i].id # x.id
    OBVIOUS
  <2>2. PICK j \in 1 .. Len(shorter) : longer[k] = shorter[j]
    BY <1>5
  <2>3. PICK i \in 1 .. Len(list) : shorter[j] = list[i] /\ list[i].id # x.id
    BY <2>1
  <2> QED
    BY <2>2, <2>3
<1> QED
  BY <1>2, <1>4, <1>6 DEF IsPut, longer, shorter

\* A list that has the ids of another, in the other's order.
InOrderOf(list, listed) ==
    LET stay == Only(listed, Ids(list))
    IN [i \in DOMAIN stay |-> Find(list, stay[i].id)] \o Without(list, Ids(listed))

LEMMA Reordered ==
    ASSUME NEW S, NEW list \in Seq(S), NEW R, NEW listed \in Seq(R), Ids(list) = Ids(listed)
    PROVE  /\ InOrderOf(list, listed) \in Seq(S) /\ Len(InOrderOf(list, listed)) = Len(listed)
           /\ \A i \in 1 .. Len(listed) :
                 /\ InOrderOf(list, listed)[i] = Find(list, listed[i].id)
                 /\ InOrderOf(list, listed)[i].id = listed[i].id
                 /\ \E k \in 1 .. Len(list) : InOrderOf(list, listed)[i] = list[k]
<1> DEFINE stay == Only(listed, Ids(list))
           first == [i \in DOMAIN stay |-> Find(list, stay[i].id)]
           rest == Without(list, Ids(listed))
<1>1. InOrderOf(list, listed) = first \o rest
  BY Zenon DEF InOrderOf
<1>2. stay = listed
  BY OnlyAll
<1>3. rest = <<>>
  <2>1. Only(list, Ids(list) \ Ids(listed)) = <<>>
    BY OnlyNone
  <2> QED
    BY <2>1 DEF Without
<1> HIDE DEF stay, rest
<1>4. Len(listed) \in Nat /\ DOMAIN listed = 1 .. Len(listed)
  OBVIOUS
<1>5. \A i \in 1 .. Len(listed) : listed[i].id \in Ids(list)
  BY IdsOfPlaces
<1>6. ASSUME NEW i \in 1 .. Len(listed)
      PROVE  /\ first[i] = Find(list, listed[i].id) /\ first[i] \in S /\ first[i].id = listed[i].id
             /\ \E k \in 1 .. Len(list) : first[i] = list[k]
  <2>1. first[i] = Find(list, listed[i].id)
    BY <1>2, <1>4
  <2>2. /\ IndexOf(list, listed[i].id) \in 1 .. Len(list)
        /\ Find(list, listed[i].id) = list[IndexOf(list, listed[i].id)]
        /\ Find(list, listed[i].id) \in S /\ Find(list, listed[i].id).id = listed[i].id
    BY <1>5, FindsRecord
  <2> HIDE DEF first
  <2> QED
    BY <2>1, <2>2
<1>7. first = [i \in 1 .. Len(listed) |-> first[i]]
  BY <1>2, <1>4
<1> HIDE DEF first
<1>8. first \in Seq(S) /\ Len(first) = Len(listed)
  BY <1>4, <1>6, <1>7
<1>9. first \o rest = first
  BY <1>3, <1>8
<1> QED
  BY <1>1, <1>6, <1>8, <1>9

-----------------------------------------------------------------------------
(* What is on the screens, and the records it shows. *)

\* A root shows the widget it is of, and those that one owns, as some widgets have them.
ShowsRoot(root, widgets) ==
    /\ root = [id |-> root.id, tree |-> root.tree]
    /\ root.tree = [id \in OwnedIds(widgets, root.id) |-> root.tree[id]]
    /\ \A id \in OwnedIds(widgets, root.id) :
          /\ DOMAIN root.tree[id] = {"rec", "kids", "told", "built"}
          /\ root.tree[id].rec = Find(widgets, id)
          /\ root.tree[id].kids = Drawn(widgets, Find(widgets, id))

\* A screen shows a screen of a configuration: its roots, in that one's order.
ShowsScreen(s, screen) ==
    /\ s = [id |-> screen.id, z |-> screen.z, roots |-> s.roots]
    /\ IsList(s.roots)
    /\ Len(s.roots) = Len(Roots(screen.widgets))
    /\ \A r \in 1 .. Len(s.roots) :
          s.roots[r].id = Roots(screen.widgets)[r].id /\ ShowsRoot(s.roots[r], screen.widgets)

LEMMA AssembledRoot ==
    ASSUME NEW s, NEW id
    PROVE  ShowsRoot([id |-> id, tree |-> AssembleRoot(s, id)], s.widgets)
<1> DEFINE tree == AssembleRoot(s, id)
           root == [id |-> id, tree |-> tree]
           owned == OwnedIds(s.widgets, id)
<1>1. root.id = id /\ root.tree = tree /\ root = [id |-> root.id, tree |-> root.tree]
  OBVIOUS
<1>2. tree = [k \in owned |-> NewWidget(s, Find(s.widgets, k))]
  BY Zenon DEF AssembleRoot
<1> HIDE DEF tree, owned
<1>3. tree = [k \in owned |-> tree[k]] /\ \A k \in owned : tree[k] = NewWidget(s, Find(s.widgets, k))
  BY <1>2
<1>4. ASSUME NEW k \in owned
      PROVE  /\ DOMAIN tree[k] = {"rec", "kids", "told", "built"}
             /\ tree[k].rec = Find(s.widgets, k)
             /\ tree[k].kids = Drawn(s.widgets, Find(s.widgets, k))
  <2> DEFINE w == Find(s.widgets, k)
  <2>1. NewWidget(s, w) = [rec |-> w, kids |-> Drawn(s.widgets, w), told |-> FALSE, built |-> TRUE]
    BY Zenon DEF NewWidget, Drawn
  <2> HIDE DEF w
  <2>2. /\ DOMAIN NewWidget(s, w) = {"rec", "kids", "told", "built"}
        /\ NewWidget(s, w).rec = w /\ NewWidget(s, w).kids = Drawn(s.widgets, w)
    BY <2>1
  <2> QED
    BY <1>3, <2>2 DEF w
<1> HIDE DEF root
<1> QED
  BY <1>1, <1>3, <1>4, Zenon DEF ShowsRoot, owned, root, tree

LEMMA AssembledShows ==
    ASSUME NEW screen, IsGoodScreen(screen)
    PROVE  ShowsScreen(Assemble(screen), screen)
<1> DEFINE roots == Roots(screen.widgets)
           n == Len(roots)
           built == [i \in DOMAIN roots |-> [id |-> roots[i].id, tree |-> AssembleRoot(screen, roots[i].id)]]
           s == Assemble(screen)
<1>1. s = [id |-> screen.id, z |-> screen.z, roots |-> built]
  BY Zenon DEF Assemble
<1>2. n \in Nat /\ DOMAIN roots = 1 .. n
  <2>1. roots \in Seq(ToSet(screen.widgets))
    BY RootsAreThere
  <2> HIDE DEF roots
  <2> QED
    BY <2>1
<1> HIDE DEF roots, n
<1>3. \A i \in 1 .. n : built[i] = [id |-> roots[i].id, tree |-> AssembleRoot(screen, roots[i].id)]
  BY <1>2
<1>4. IsList(built) /\ Len(built) = n
  <2> DEFINE S == {built[i] : i \in 1 .. n}
  <2>1. built \in [1 .. n -> S]
    BY <1>2
  <2> HIDE DEF S, built
  <2>2. built \in Seq(S) /\ Len(built) = n
    BY <1>2, <2>1
  <2> QED
    BY <2>2, SequenceIsList
<1> HIDE DEF built
<1>5. \A i \in 1 .. n : built[i].id = roots[i].id /\ ShowsRoot(built[i], screen.widgets)
  <2> SUFFICES ASSUME NEW i \in 1 .. n
               PROVE  built[i].id = roots[i].id /\ ShowsRoot(built[i], screen.widgets)
    OBVIOUS
  <2>1. built[i] = [id |-> roots[i].id, tree |-> AssembleRoot(screen, roots[i].id)]
    BY <1>3
  <2>2. ShowsRoot([id |-> roots[i].id, tree |-> AssembleRoot(screen, roots[i].id)], screen.widgets)
    BY AssembledRoot
  <2> QED
    BY <2>1, <2>2
<1>6. s.roots = built /\ s = [id |-> screen.id, z |-> screen.z, roots |-> s.roots]
  BY <1>1
<1> HIDE DEF s
<1>7. ShowsScreen(s, screen)
  BY <1>4, <1>5, <1>6, Zenon DEF ShowsScreen, n, roots
<1> QED
  BY <1>7 DEF s

\* The shape of a root that shows some widgets.
LEMMA ShapeOfRoot ==
    ASSUME NEW root, NEW widgets, ShowsRoot(root, widgets)
    PROVE  [id |-> root.id, tree |-> [id \in DOMAIN root.tree |-> <<root.tree[id].rec, root.tree[id].kids>>]]
              = [id |-> root.id, tree |-> TreeShape(widgets, root.id)]
<1> DEFINE owned == OwnedIds(widgets, root.id)
           tree == root.tree
<1>1. tree = [id \in owned |-> tree[id]]
  BY Zenon DEF ShowsRoot
<1>2. DOMAIN tree = owned
  <2> HIDE DEF tree, owned
  <2> QED
    BY <1>1
<1>3. ASSUME NEW id \in owned
      PROVE  <<tree[id].rec, tree[id].kids>> = <<Find(widgets, id), Drawn(widgets, Find(widgets, id))>>
  <2>1. tree[id].rec = Find(widgets, id) /\ tree[id].kids = Drawn(widgets, Find(widgets, id))
    BY DEF ShowsRoot
  <2> QED
    BY <2>1
<1>4. [id \in owned |-> <<tree[id].rec, tree[id].kids>>]
         = [id \in owned |-> <<Find(widgets, id), Drawn(widgets, Find(widgets, id))>>]
  <2> HIDE DEF tree, owned
  <2> QED
    BY <1>3, Zenon
<1>5. [id \in DOMAIN tree |-> <<tree[id].rec, tree[id].kids>>] = TreeShape(widgets, root.id)
  BY <1>2, <1>4, Zenon DEF TreeShape
<1> QED
  BY <1>5

\* A screen that shows another is the one a whole show makes of that, the marks aside.
LEMMA ShownShape ==
    ASSUME NEW s, NEW screen, IsGoodScreen(screen), ShowsScreen(s, screen)
    PROVE  Shape(s) = Shape(Assemble(screen))
<1> DEFINE live_roots == s.roots
           roots == Roots(screen.widgets)
           n == Len(roots)
           shape(root) == [id |-> root.id,
                           tree |-> [id \in DOMAIN root.tree |-> <<root.tree[id].rec, root.tree[id].kids>>]]
           shapes == [r \in DOMAIN live_roots |-> shape(live_roots[r])]
           drawn(r) == [id |-> roots[r].id, tree |-> TreeShape(screen.widgets, roots[r].id)]
<1>1. /\ s = [id |-> screen.id, z |-> screen.z, roots |-> live_roots]
      /\ IsList(live_roots) /\ Len(live_roots) = n
      /\ \A r \in 1 .. n : live_roots[r].id = roots[r].id /\ ShowsRoot(live_roots[r], screen.widgets)
  BY Zenon DEF ShowsScreen
<1>2. DOMAIN live_roots = 1 .. n
  BY <1>1, ListIsThere
<1>3. DOMAIN roots = 1 .. n
  <2>1. roots \in Seq(ToSet(screen.widgets))
    BY RootsAreThere
  <2> HIDE DEF roots
  <2> QED
    BY <2>1
<1>4. ASSUME NEW r \in 1 .. n PROVE shape(live_roots[r]) = drawn(r)
  <2> DEFINE root == live_roots[r]
  <2>1. root.id = roots[r].id /\ ShowsRoot(root, screen.widgets)
    BY <1>1
  <2>2. shape(root) = [id |-> root.id, tree |-> TreeShape(screen.widgets, root.id)]
    BY <2>1, ShapeOfRoot
  <2> HIDE DEF root, shape
  <2> QED
    BY <2>1, <2>2 DEF root
<1>5. Shape(s) = [s EXCEPT !.roots = shapes]
  BY Zenon DEF Shape
<1> HIDE DEF shape, drawn
<1>6. shapes = RootShapes(screen.widgets)
  <2>1. [r \in 1 .. n |-> shape(live_roots[r])] = [r \in 1 .. n |-> drawn(r)]
    BY <1>4, Zenon
  <2> QED
    BY <1>2, <1>3, <2>1, Zenon DEF RootShapes, drawn
<1> HIDE DEF shapes, live_roots
<1>7. [s EXCEPT !.roots = shapes] = [id |-> screen.id, z |-> screen.z, roots |-> shapes]
  BY <1>1
<1>8. Shape(Assemble(screen)) = [id |-> screen.id, z |-> screen.z, roots |-> RootShapes(screen.widgets)]
  BY ShapeOfAssembled
<1> QED
  BY <1>5, <1>6, <1>7, <1>8, Zenon

-----------------------------------------------------------------------------
(* Screens with another's widgets: nothing planned, and a widget put in place. *)

\* A root of which nothing changed shows the new widgets as it did the old.
LEMMA RootStays ==
    ASSUME NEW old, IsGoodScreen(old), NEW new, IsGoodScreen(new),
           NEW root, ShowsRoot(root, old.widgets),
           OwnedIds(old.widgets, root.id) = OwnedIds(new.widgets, root.id),
           \A k \in OwnedIds(new.widgets, root.id) : Find(old.widgets, k) = Find(new.widgets, k)
    PROVE  ShowsRoot(root, new.widgets)
<1> DEFINE before == old.widgets
           after == new.widgets
           owned == OwnedIds(after, root.id)
<1>1. ASSUME NEW k \in owned
      PROVE  Find(before, k) = Find(after, k) /\ Drawn(before, Find(before, k)) = Drawn(after, Find(after, k))
  <2>1. Find(before, k) = Find(after, k) /\ k \in OwnedIds(before, root.id)
    OBVIOUS
  <2>2. k \in Ids(after) /\ k \in Ids(before)
    BY <2>1 DEF OwnedIds
  <2>3. Find(after, k) \in ToSet(after) /\ Find(before, k) \in ToSet(before)
    BY <2>2, GoodWidgets, FindsRecord
  <2>4. Drawn(before, Find(before, k)) = Find(before, k).kids /\ Drawn(after, Find(after, k)) = Find(after, k).kids
    BY <2>3, DrawnAsListed
  <2> QED
    BY <2>1, <2>4
<1>2. OwnedIds(before, root.id) = owned
  OBVIOUS
<1> HIDE DEF owned, before, after
<1> QED
  BY <1>1, <1>2, Zenon DEF ShowsRoot, owned, before, after

LEMMA ChangesTree ==
    ASSUME NEW root, NEW id, NEW tree, root = [id |-> id, tree |-> tree], NEW k, NEW w
    PROVE  [root EXCEPT !.tree[k].rec = w] = [id |-> id, tree |-> [tree EXCEPT ![k].rec = w]]
OBVIOUS

\* A root in whose own record only the look changed takes the new record.
LEMMA RootIsUpdated ==
    ASSUME NEW old, IsGoodScreen(old), NEW new, IsGoodScreen(new),
           NEW root, ShowsRoot(root, old.widgets),
           root.id \in Ids(old.widgets), root.id \in Ids(new.widgets),
           ~IsSubtreeChanged(old.widgets, new.widgets, root.id),
           ClassifyWidgetChange(Find(old.widgets, root.id), Find(new.widgets, root.id)) = "in_place"
    PROVE  /\ ShowsRoot(Update(root, Find(new.widgets, root.id)), new.widgets)
           /\ Update(root, Find(new.widgets, root.id)).id = root.id
<1> DEFINE before == old.widgets
           after == new.widgets
           w == Find(after, root.id)
           owned == OwnedIds(after, root.id)
           tree == root.tree
           node(k) == IF k = root.id THEN [tree[k] EXCEPT !.rec = w] ELSE tree[k]
           made == [k \in owned |-> node(k)]
           root_now == Update(root, w)
<1>1. /\ OwnedIds(before, root.id) = owned
      /\ \A k \in owned : k # root.id => Find(before, k) = Find(after, k)
  BY DEF IsSubtreeChanged
<1>2. Find(before, root.id).kids = w.kids
  <2>1. ASSUME NEW x, NEW y, ClassifyWidgetChange(x, y) = "in_place" PROVE x.kids = y.kids
    BY <2>1 DEF ClassifyWidgetChange
  <2> QED
    BY <2>1
<1>3. /\ root = [id |-> root.id, tree |-> tree]
      /\ tree = [k \in owned |-> tree[k]]
      /\ \A k \in owned : /\ DOMAIN tree[k] = {"rec", "kids", "told", "built"}
                          /\ tree[k].rec = Find(before, k)
                          /\ tree[k].kids = Drawn(before, Find(before, k))
  <2>1. OwnedIds(before, root.id) = owned
    BY <1>1
  <2> QED
    BY <2>1, Zenon DEF ShowsRoot
<1>4. w.id = root.id /\ \A k \in owned : k \in Ids(before) /\ k \in Ids(after)
  <2>1. w.id = root.id
    BY GoodWidgets, FindsRecord
  <2>2. owned \subseteq Ids(after) /\ OwnedIds(before, root.id) \subseteq Ids(before)
    BY DEF OwnedIds
  <2> QED
    BY <1>1, <2>1, <2>2
<1>5. ASSUME NEW k \in owned PROVE Drawn(before, Find(before, k)) = Drawn(after, Find(after, k))
  <2>1. Find(after, k) \in ToSet(after) /\ Find(before, k) \in ToSet(before)
    BY <1>4, GoodWidgets, FindsRecord
  <2>2. Drawn(before, Find(before, k)) = Find(before, k).kids /\ Drawn(after, Find(after, k)) = Find(after, k).kids
    BY <2>1, DrawnAsListed
  <2>3. Find(before, k).kids = Find(after, k).kids
    BY <1>1, <1>2
  <2> QED
    BY <2>2, <2>3
<1>6. root_now = [id |-> root.id, tree |-> made]
  <2>1. root_now = [root EXCEPT !.tree[w.id].rec = w]
    BY Zenon DEF Update
  <2> HIDE DEF w, tree, owned, root_now
  <2>2. [tree EXCEPT ![w.id].rec = w] = made
    BY <1>3, <1>4
  <2>3. [root EXCEPT !.tree[w.id].rec = w] = [id |-> root.id, tree |-> [tree EXCEPT ![w.id].rec = w]]
    <3>1. root = [id |-> root.id, tree |-> tree]
      BY <1>3
    <3> QED
      BY <3>1, ChangesTree
  <2> QED
    BY <2>1, <2>2, <2>3, Zenon
<1> HIDE DEF w, tree, owned, root_now
<1>7. ASSUME NEW k \in owned
      PROVE  /\ DOMAIN node(k) = {"rec", "kids", "told", "built"}
             /\ node(k).rec = Find(after, k) /\ node(k).kids = Drawn(after, Find(after, k))
  <2>1. CASE k = root.id
    <3>1. node(k) = [tree[k] EXCEPT !.rec = w] /\ w = Find(after, k)
      BY <2>1 DEF w
    <3>2. DOMAIN tree[k] = {"rec", "kids", "told", "built"} /\ tree[k].kids = Drawn(after, Find(after, k))
      BY <1>3, <1>5
    <3> QED
      BY <3>1, <3>2
  <2>2. CASE k # root.id
    BY <1>1, <1>3, <1>5, <2>2
  <2> QED
    BY <2>1, <2>2
<1> HIDE DEF node
<1>8. /\ root_now.id = root.id /\ root_now.tree = made /\ root_now = [id |-> root_now.id, tree |-> root_now.tree]
      /\ made = [k \in owned |-> made[k]] /\ \A k \in owned : made[k] = node(k)
  BY <1>6
<1> HIDE DEF made
<1>9. ShowsRoot(root_now, after)
  BY <1>7, <1>8, Zenon DEF ShowsRoot, owned
<1> QED
  BY <1>8, <1>9 DEF root_now, w

-----------------------------------------------------------------------------
(* The widgets of a screen, patched. *)

\* What a root of the new screen is planned to become.
LEMMA RootIsPlanned ==
    ASSUME NEW before, NEW after, NEW w
    PROVE  \/ /\ RootChange(before, after, w) = <<>>
              /\ w.id \in RootIds(before) /\ ~IsSubtreeChanged(before, after, w.id) /\ Find(before, w.id) = w
           \/ \E x : /\ RootChange(before, after, w) = <<x>>
                     /\ x.id = w.id /\ x.widget = w /\ x.action \in {"add", "replace", "update"}
                     /\ x.action = "update" =>
                           /\ w.id \in RootIds(before) /\ ~IsSubtreeChanged(before, after, w.id)
                           /\ ClassifyWidgetChange(Find(before, w.id), w) = "in_place"
<1> DEFINE patch(action) == [id |-> w.id, action |-> action, widget |-> w]
<1>1. RootChange(before, after, w) =
          IF w.id \notin RootIds(before) THEN <<patch("add")>>
          ELSE IF IsSubtreeChanged(before, after, w.id) THEN <<patch("replace")>>
          ELSE IF Find(before, w.id) = w THEN <<>>
          ELSE IF ClassifyWidgetChange(Find(before, w.id), w) = "in_place" THEN <<patch("update")>>
          ELSE <<patch("replace")>>
  BY Zenon DEF RootChange
<1>2. \A action : patch(action).id = w.id /\ patch(action).action = action /\ patch(action).widget = w
  OBVIOUS
<1> HIDE DEF patch
<1>3. CASE w.id \notin RootIds(before)
  <2>1. RootChange(before, after, w) = <<patch("add")>>
    BY <1>1, <1>3, Zenon
  <2>2. patch("add").action # "update"
    BY <1>2
  <2> QED
    BY <1>2, <2>1, <2>2
<1>4. CASE w.id \in RootIds(before) /\ IsSubtreeChanged(before, after, w.id)
  <2>1. RootChange(before, after, w) = <<patch("replace")>>
    BY <1>1, <1>4, Zenon
  <2>2. patch("replace").action # "update"
    BY <1>2
  <2> QED
    BY <1>2, <2>1, <2>2
<1>5. CASE w.id \in RootIds(before) /\ ~IsSubtreeChanged(before, after, w.id)
  <2>1. CASE Find(before, w.id) = w
    BY <1>1, <1>5, <2>1, Zenon
  <2>2. CASE Find(before, w.id) # w /\ ClassifyWidgetChange(Find(before, w.id), w) = "in_place"
    <3>1. RootChange(before, after, w) = <<patch("update")>>
      BY <1>1, <1>5, <2>2, Zenon
    <3> QED
      BY <1>2, <1>5, <2>2, <3>1
  <2>3. CASE Find(before, w.id) # w /\ ClassifyWidgetChange(Find(before, w.id), w) # "in_place"
    <3>1. RootChange(before, after, w) = <<patch("replace")>>
      BY <1>1, <1>5, <2>3, Zenon
    <3>2. patch("replace").action # "update"
      BY <1>2
    <3> QED
      BY <1>2, <3>1, <3>2
  <2> QED
    BY <2>1, <2>2, <2>3
<1> QED
  BY <1>3, <1>4, <1>5

WidgetRemovals(gone) == [i \in DOMAIN gone |-> [id |-> gone[i].id, action |-> "remove", widget |-> gone[i]]]

WidgetLists(before, after) == [i \in DOMAIN Roots(after) |-> RootChange(before, after, Roots(after)[i])]

\* A patch of a root that goes, or of one that is there afterwards.
IsRootPatch(p, before, after) ==
    \/ p.action = "remove" /\ p.id \notin RootIds(after)
    \/ p.id \in RootIds(after) /\ RootChange(before, after, Find(after, p.id)) = <<p>>

\* The widget patches are of different roots, and those without one go on as they are.
LEMMA WidgetsArePlanned ==
    ASSUME NEW old, IsGoodScreen(old), NEW new, IsGoodScreen(new)
    PROVE  LET plan == PlanWidgets(old.widgets, new.widgets)
           IN  /\ \E S : plan \in Seq(S)
               /\ IsUnique(plan)
               /\ \A k \in 1 .. Len(plan) : IsRootPatch(plan[k], old.widgets, new.widgets)
               /\ RootIds(old.widgets) \ RootIds(new.widgets) \subseteq Ids(plan)
               /\ \A id \in RootIds(new.widgets) \ Ids(plan) :
                     RootChange(old.widgets, new.widgets, Find(new.widgets, id)) = <<>>
<1> DEFINE before == old.widgets
           after == new.widgets
           gone == Without(Roots(before), RootIds(after))
           roots == Roots(after)
           n == Len(roots)
           removals == WidgetRemovals(gone)
           lists == WidgetLists(before, after)
           plan == PlanWidgets(before, after)
<1>1. plan = removals \o FlattenSeq(lists)
  BY Zenon DEF PlanWidgets, WidgetRemovals, WidgetLists
<1>2. /\ roots \in Seq(ToSet(after)) /\ IsUnique(roots) /\ Ids(roots) = RootIds(after)
      /\ \A i \in 1 .. n : roots[i].id \in RootIds(after) /\ Find(after, roots[i].id) = roots[i]
  BY RootsAreThere
<1>3. Roots(before) \in Seq(ToSet(before)) /\ IsUnique(Roots(before)) /\ Ids(Roots(before)) = RootIds(before)
  BY RootsAreThere
<1>4. gone \in Seq(ToSet(before)) /\ IsUnique(gone) /\ Ids(gone) = RootIds(before) \cap (RootIds(before) \ RootIds(after))
  BY <1>3, OnlyKeeps DEF Without
<1>5. n \in Nat /\ DOMAIN roots = 1 .. n
  BY <1>2
<1>6. DOMAIN lists = 1 .. n /\ \A i \in 1 .. n : lists[i] = RootChange(before, after, roots[i])
  BY <1>5 DEF WidgetLists
<1>7. lists = [i \in 1 .. n |-> lists[i]]
  BY <1>5 DEF WidgetLists
<1> HIDE DEF lists, n, roots, gone
<1>8. \A i \in 1 .. n : lists[i] = <<>> \/ \E x : lists[i] = <<x>> /\ x.id = roots[i].id
  <2> SUFFICES ASSUME NEW i \in 1 .. n PROVE lists[i] = <<>> \/ \E x : lists[i] = <<x>> /\ x.id = roots[i].id
    OBVIOUS
  <2>1. lists[i] = RootChange(before, after, roots[i])
    BY <1>6
  <2>2. \/ RootChange(before, after, roots[i]) = <<>>
        \/ \E x : RootChange(before, after, roots[i]) = <<x>> /\ x.id = roots[i].id
    BY RootIsPlanned
  <2> QED
    BY <2>1, <2>2, Zenon
<1>9. (\E S : lists \in Seq(Seq(S))) /\ Len(lists) = n
  <2>1. \A i \in 1 .. n : lists[i] = <<>> \/ \E x : lists[i] = <<x>>
    BY <1>8
  <2> QED
    BY <1>5, <1>6, <1>7, <2>1, ShortLists
<1>10. PICK S : lists \in Seq(Seq(S))
  BY <1>9
<1>11. /\ \E R : removals \in Seq(R)
       /\ Len(removals) = Len(gone)
       /\ \A i \in 1 .. Len(gone) : removals[i].id = gone[i].id /\ removals[i].action = "remove"
  <2> DEFINE removal(w) == [id |-> w.id, action |-> "remove", widget |-> w]
             R == {removal(gone[i]) : i \in 1 .. Len(gone)}
  <2>1. Len(gone) \in Nat /\ DOMAIN gone = 1 .. Len(gone)
    BY <1>4
  <2>2. removals \in [1 .. Len(gone) -> R] /\ \A i \in 1 .. Len(gone) : removals[i] = removal(gone[i])
    BY <2>1 DEF WidgetRemovals
  <2>3. \A w : removal(w).id = w.id /\ removal(w).action = "remove"
    OBVIOUS
  <2> HIDE DEF R, removals, removal
  <2>4. removals \in Seq(R) /\ Len(removals) = Len(gone)
    BY <2>1, <2>2
  <2> QED
    BY <2>2, <2>3, <2>4
<1>12. PICK R : removals \in Seq(R)
  BY <1>11
<1> HIDE DEF removals, plan
<1>13. plan \in Seq(R \cup S) /\ IsPlanned(plan, removals, lists, n)
  <2>1. Ids(gone) \cap Ids(roots) = {}
    BY <1>2, <1>4
  <2>2. /\ removals \o FlattenSeq(lists) \in Seq(R \cup S)
        /\ IsPlanned(removals \o FlattenSeq(lists), removals, lists, Len(roots))
    <3>1. AreRemovals(removals, gone) /\ AreChanges(lists, roots)
      BY <1>8, <1>9, <1>11 DEF AreRemovals, AreChanges, n
    <3> QED
      BY <1>2, <1>4, <1>10, <1>12, <2>1, <3>1, PlansAreMade
  <2> QED
    BY <1>1, <2>2 DEF n
<1>14. \A id : id \in Ids(plan) <=> \E k \in 1 .. Len(plan) : plan[k].id = id
  BY <1>13, IdsOfPlaces
<1>15. ASSUME NEW k \in 1 .. Len(plan) PROVE IsRootPatch(plan[k], before, after)
  <2>1. CASE \E i \in 1 .. Len(removals) : plan[k] = removals[i]
    <3>1. PICK i \in 1 .. Len(gone) : plan[k] = removals[i]
      BY <1>11, <2>1
    <3>2. gone[i].id \in Ids(gone)
      BY <1>4, IdsOfPlaces
    <3>3. plan[k].action = "remove" /\ plan[k].id \notin RootIds(after)
      BY <1>4, <1>11, <3>1, <3>2
    <3> QED
      BY <3>3 DEF IsRootPatch
  <2>2. CASE \E i \in 1 .. n : lists[i] = <<plan[k]>>
    <3>1. PICK i \in 1 .. n : lists[i] = <<plan[k]>>
      BY <2>2
    <3>2. PICK x : lists[i] = <<x>> /\ x.id = roots[i].id
      <4>1. lists[i] # <<>>
        BY <3>1
      <4> QED
        BY <1>8, <4>1, Zenon
    <3>3. plan[k] = x
      BY <3>1, <3>2
    <3>4. RootChange(before, after, roots[i]) = <<plan[k]>> /\ plan[k].id = roots[i].id
      BY <1>6, <3>1, <3>2, <3>3
    <3>5. roots[i].id \in RootIds(after) /\ Find(after, roots[i].id) = roots[i]
      BY <1>2 DEF n
    <3> QED
      BY <3>4, <3>5 DEF IsRootPatch
  <2> QED
    BY <1>13, <2>1, <2>2 DEF IsPlanned
<1>16. RootIds(before) \ RootIds(after) \subseteq Ids(plan)
  <2> SUFFICES ASSUME NEW id \in RootIds(before) \ RootIds(after) PROVE id \in Ids(plan)
    OBVIOUS
  <2>1. PICK i \in 1 .. Len(gone) : gone[i].id = id
    BY <1>4, IdsOfPlaces
  <2>2. PICK k \in 1 .. Len(plan) : plan[k] = removals[i]
    BY <1>11, <1>13 DEF IsPlanned
  <2> QED
    BY <1>11, <1>14, <2>1, <2>2
<1>17. ASSUME NEW id \in RootIds(after) \ Ids(plan) PROVE RootChange(before, after, Find(after, id)) = <<>>
  <2>1. PICK i \in 1 .. n : roots[i].id = id
    BY <1>2, IdsOfPlaces DEF n
  <2>2. lists[i] = RootChange(before, after, Find(after, id))
    BY <1>2, <1>6, <2>1 DEF n
  <2>3. ASSUME NEW x, lists[i] = <<x>>, x.id = roots[i].id PROVE FALSE
    <3>1. PICK k \in 1 .. Len(plan) : plan[k] = x
      BY <1>13, <2>3 DEF IsPlanned
    <3> QED
      BY <1>14, <2>1, <2>3, <3>1
  <2> QED
    BY <1>8, <2>2, <2>3
<1> QED
  BY <1>13, <1>15, <1>16, <1>17, Zenon DEF IsPlanned, plan

\* The roots of a screen that is on its way from one to the other, some of the patches done.
RootsAreAt(roots, before, after, done) ==
    /\ IsList(roots) /\ IsUnique(roots)
    /\ Ids(roots) = (RootIds(before) \ done) \cup (RootIds(after) \cap done)
    /\ \A i \in 1 .. Len(roots) : ShowsRoot(roots[i], IF roots[i].id \in done THEN after ELSE before)

\* The patch of a root that goes takes it, if it is there.
LEMMA RootGoes ==
    ASSUME NEW before, NEW after, NEW done, NEW roots, RootsAreAt(roots, before, after, done),
           NEW id, id \notin RootIds(after)
    PROVE  RootsAreAt(Without(roots, {id}), before, after, done \cup {id})
<1> DEFINE shorter == Without(roots, {id})
           S == ToSet(roots)
<1>1. roots \in Seq(S) /\ IsUnique(roots)
  BY DEF RootsAreAt, IsList
<1>2. shorter \in Seq(S) /\ IsTaken(shorter, roots, id)
  BY <1>1, TakesRecord
<1> HIDE DEF shorter, S
<1>3. Ids(shorter) = (RootIds(before) \ (done \cup {id})) \cup (RootIds(after) \cap (done \cup {id}))
  <2>1. Ids(shorter) = Ids(roots) \ {id} /\ Ids(roots) = (RootIds(before) \ done) \cup (RootIds(after) \cap done)
    BY <1>2 DEF IsTaken, RootsAreAt
  <2> QED
    BY <2>1
<1>4. ASSUME NEW i \in 1 .. Len(shorter)
      PROVE  ShowsRoot(shorter[i], IF shorter[i].id \in done \cup {id} THEN after ELSE before)
  <2>1. PICK k \in 1 .. Len(roots) : shorter[i] = roots[k] /\ roots[k].id # id
    BY <1>2 DEF IsTaken
  <2>2. ShowsRoot(roots[k], IF roots[k].id \in done THEN after ELSE before)
    BY DEF RootsAreAt
  <2>3. shorter[i].id \in done \cup {id} <=> roots[k].id \in done
    BY <2>1
  <2> QED
    BY <2>1, <2>2, <2>3, Zenon
<1>5. IsList(shorter) /\ IsUnique(shorter)
  BY <1>2, SequenceIsList DEF IsTaken
<1> QED
  BY <1>3, <1>4, <1>5 DEF RootsAreAt, shorter

\* A root that shows the new widgets is put.
LEMMA RootComes ==
    ASSUME NEW before, NEW after, NEW done, NEW roots, RootsAreAt(roots, before, after, done),
           NEW root, root.id \in RootIds(after), ShowsRoot(root, after),
           NEW longer, IsList(longer), IsPut(longer, roots, root)
    PROVE  RootsAreAt(longer, before, after, done \cup {root.id})
<1>1. Ids(longer) = (RootIds(before) \ (done \cup {root.id})) \cup (RootIds(after) \cap (done \cup {root.id}))
  <2>1. Ids(longer) = Ids(roots) \cup {root.id} /\ Ids(roots) = (RootIds(before) \ done) \cup (RootIds(after) \cap done)
    BY DEF IsPut, RootsAreAt
  <2> QED
    BY <2>1
<1>2. ASSUME NEW i \in 1 .. Len(longer)
      PROVE  ShowsRoot(longer[i], IF longer[i].id \in done \cup {root.id} THEN after ELSE before)
  <2>1. CASE longer[i] = root
    BY <2>1
  <2>2. CASE \E k \in 1 .. Len(roots) : longer[i] = roots[k] /\ roots[k].id # root.id
    <3>1. PICK k \in 1 .. Len(roots) : longer[i] = roots[k] /\ roots[k].id # root.id
      BY <2>2
    <3>2. ShowsRoot(roots[k], IF roots[k].id \in done THEN after ELSE before)
      BY DEF RootsAreAt
    <3>3. longer[i].id \in done \cup {root.id} <=> roots[k].id \in done
      BY <3>1
    <3> QED
      BY <3>1, <3>2, <3>3, Zenon
  <2> QED
    BY <2>1, <2>2 DEF IsPut
<1> QED
  BY <1>1, <1>2 DEF RootsAreAt, IsPut

LEMMA RootIsPatched ==
    ASSUME NEW old, IsGoodScreen(old), NEW new, IsGoodScreen(new),
           NEW done, NEW roots, RootsAreAt(roots, old.widgets, new.widgets, done),
           NEW p, IsRootPatch(p, old.widgets, new.widgets), p.id \notin done
    PROVE  RootsAreAt(ApplyWidgetPatch(roots, new, p), old.widgets, new.widgets, done \cup {p.id})
<1> DEFINE before == old.widgets
           after == new.widgets
           at == IndexOf(roots, p.id)
           successor == [id |-> p.id, tree |-> AssembleRoot(new, p.id)]
           reached == ApplyWidgetPatch(roots, new, p)
<1>1. reached =
         CASE p.action = "remove" -> Without(roots, {p.id})
           [] p.action = "update" /\ at = 0 -> roots
           [] p.action = "update" /\ at # 0 -> [roots EXCEPT ![at] = Update(@, p.widget)]
           [] p.action \in {"replace", "add"} /\ at = 0 -> Append(roots, successor)
           [] p.action \in {"replace", "add"} /\ at # 0 -> ReplaceAt(roots, at, successor)
  BY Zenon DEF ApplyWidgetPatch
<1>2. roots \in Seq(ToSet(roots)) /\ IsUnique(roots)
  BY DEF RootsAreAt, IsList
<1>3. (at # 0 <=> p.id \in Ids(roots))
      /\ (at # 0 => at \in 1 .. Len(roots) /\ roots[at].id = p.id)
  BY <1>2, FindsRecord DEF Has
<1> HIDE DEF reached, at
<1>4. CASE p.action = "remove" /\ p.id \notin RootIds(after)
  <2>1. reached = Without(roots, {p.id})
    BY <1>1, <1>4
  <2> QED
    BY <1>4, <2>1, RootGoes DEF reached
<1>5. CASE p.id \in RootIds(after) /\ RootChange(before, after, Find(after, p.id)) = <<p>>
  <2> DEFINE w == Find(after, p.id)
  <2>1. w.id = p.id /\ p.id \in Ids(after)
    <3>1. p.id \in Ids(after)
      BY <1>5, RootsAreThere
    <3>2. after \in Seq(ToSet(after))
      BY GoodWidgets
    <3> HIDE DEF after
    <3> QED
      BY <3>1, <3>2, FindsRecord
  <2>2. /\ p.widget = w /\ p.action \in {"add", "replace", "update"}
        /\ p.action = "update" =>
              /\ p.id \in RootIds(before) /\ ~IsSubtreeChanged(before, after, p.id)
              /\ ClassifyWidgetChange(Find(before, p.id), w) = "in_place"
    <3>1. \/ RootChange(before, after, w) = <<>>
          \/ \E x : /\ RootChange(before, after, w) = <<x>>
                    /\ x.id = w.id /\ x.widget = w /\ x.action \in {"add", "replace", "update"}
                    /\ x.action = "update" =>
                          /\ w.id \in RootIds(before) /\ ~IsSubtreeChanged(before, after, w.id)
                          /\ ClassifyWidgetChange(Find(before, w.id), w) = "in_place"
      BY RootIsPlanned
    <3>2. <<p>> # <<>> /\ \A x : <<p>> = <<x>> => p = x
      OBVIOUS
    <3> HIDE DEF w, before, after
    <3> QED
      BY <1>5, <2>1, <3>1, <3>2, Zenon DEF w
  <2> HIDE DEF w
  <2>3. CASE p.action = "update"
    <3>1. p.id \in Ids(roots)
      <4>1. Ids(roots) = (RootIds(before) \ done) \cup (RootIds(after) \cap done)
        BY DEF RootsAreAt
      <4> QED
        BY <2>2, <2>3, <4>1
    <3> DEFINE root == Update(roots[at], w)
    <3>2. at \in 1 .. Len(roots) /\ roots[at].id = p.id /\ at # 0
      BY <1>3, <3>1
    <3>3. ShowsRoot(roots[at], before)
      <4>1. ShowsRoot(roots[at], IF roots[at].id \in done THEN after ELSE before)
        BY <3>2 DEF RootsAreAt
      <4> QED
        BY <3>2, <4>1
    <3>4. p.id \in Ids(before)
      BY <2>2, <2>3, RootsAreThere
    <3>5. ShowsRoot(root, after) /\ root.id = p.id
      <4> HIDE DEF before, after
      <4>1. roots[at].id \in Ids(before) /\ roots[at].id \in Ids(after) /\ ~IsSubtreeChanged(before, after, roots[at].id)
            /\ ClassifyWidgetChange(Find(before, roots[at].id), Find(after, roots[at].id)) = "in_place"
            /\ w = Find(after, roots[at].id)
        BY <2>1, <2>2, <2>3, <3>2, <3>4 DEF w
      <4>2. /\ ShowsRoot(Update(roots[at], Find(after, roots[at].id)), after)
            /\ Update(roots[at], Find(after, roots[at].id)).id = roots[at].id
        BY <3>3, <4>1, RootIsUpdated DEF before, after
      <4> QED
        BY <3>2, <4>1, <4>2
    <3>6. reached = [roots EXCEPT ![at] = Update(@, w)]
      BY <1>1, <2>2, <2>3, <3>2
    <3>7. reached = ReplaceAt(roots, at, root)
      BY <3>6, Zenon DEF ReplaceAt
    <3> HIDE DEF root
    <3> DEFINE S == ToSet(roots) \cup {root}
    <3>8. roots \in Seq(S) /\ root \in S
      BY <1>2
    <3> HIDE DEF S
    <3>9. reached \in Seq(S) /\ IsPut(reached, roots, root)
      BY <1>2, <3>1, <3>5, <3>7, <3>8, PutsInPlace DEF at
    <3>10. IsList(reached)
      BY <3>9, SequenceIsList
    <3>11. RootsAreAt(reached, before, after, done \cup {root.id})
      BY <1>5, <3>5, <3>9, <3>10, RootComes
    <3> QED
      BY <3>5, <3>11 DEF reached
  <2>4. CASE p.action \in {"replace", "add"}
    <3>1. successor.id = p.id /\ ShowsRoot(successor, after)
      BY AssembledRoot
    <3> DEFINE S == ToSet(roots) \cup {successor}
    <3> HIDE DEF successor
    <3>2. roots \in Seq(S) /\ successor \in S
      BY <1>2
    <3> HIDE DEF S
    <3>3. reached \in Seq(S) /\ IsPut(reached, roots, successor)
      <4>1. CASE at = 0
        <5>1. reached = Append(roots, successor)
          BY <1>1, <2>4, <4>1
        <5> QED
          BY <1>2, <1>3, <3>1, <3>2, <4>1, <5>1, PutsLast
      <4>2. CASE at # 0
        <5>1. reached = ReplaceAt(roots, at, successor)
          BY <1>1, <2>4, <4>2
        <5> QED
          BY <1>2, <1>3, <3>1, <3>2, <4>2, <5>1, PutsInPlace DEF at
      <4> QED
        BY <4>1, <4>2
    <3>4. IsList(reached)
      BY <3>3, SequenceIsList
    <3>5. RootsAreAt(reached, before, after, done \cup {successor.id})
      BY <1>5, <3>1, <3>3, <3>4, RootComes
    <3> QED
      BY <3>1, <3>5 DEF reached
  <2> QED
    BY <2>2, <2>3, <2>4
<1> QED
  BY <1>4, <1>5 DEF IsRootPatch

\* The ids of the patches that are done.
DoneIds(plan, k) == {plan[j].id : j \in 1 .. k}

LEMMA DoneInTurn ==
    ASSUME NEW S, NEW plan \in Seq(S), IsUnique(plan)
    PROVE  /\ DoneIds(plan, 0) = {}
           /\ DoneIds(plan, Len(plan)) = Ids(plan)
           /\ \A k \in 1 .. Len(plan) :
                 /\ plan[k].id \notin DoneIds(plan, k - 1)
                 /\ DoneIds(plan, k) = DoneIds(plan, k - 1) \cup {plan[k].id}
<1>1. Len(plan) \in Nat /\ DOMAIN plan = 1 .. Len(plan)
  OBVIOUS
<1>2. DoneIds(plan, 0) = {}
  BY DEF DoneIds
<1>3. DoneIds(plan, Len(plan)) = Ids(plan)
  BY <1>1 DEF DoneIds, Ids
<1>4. ASSUME NEW k \in 1 .. Len(plan)
      PROVE  /\ plan[k].id \notin DoneIds(plan, k - 1)
             /\ DoneIds(plan, k) = DoneIds(plan, k - 1) \cup {plan[k].id}
  <2>1. 1 .. k = (1 .. (k - 1)) \cup {k} /\ \A j \in 1 .. (k - 1) : j \in 1 .. Len(plan) /\ j # k
    BY <1>1
  <2>2. \A j \in 1 .. (k - 1) : plan[j].id # plan[k].id
    BY <2>1 DEF IsUnique
  <2> QED
    BY <2>1, <2>2 DEF DoneIds
<1> QED
  BY <1>2, <1>3, <1>4

LEMMA RootsArePatched ==
    ASSUME NEW old, IsGoodScreen(old), NEW new, IsGoodScreen(new),
           NEW roots, RootsAreAt(roots, old.widgets, new.widgets, {})
    PROVE  LET plan == PlanWidgets(old.widgets, new.widgets)
           IN RootsAreAt(PatchRoots(roots, new, plan), old.widgets, new.widgets, Ids(plan))
<1> DEFINE before == old.widgets
           after == new.widgets
           plan == PlanWidgets(before, after)
           n == Len(plan)
<1>1. /\ \E S : plan \in Seq(S)
      /\ IsUnique(plan) /\ \A k \in 1 .. n : IsRootPatch(plan[k], before, after)
  BY WidgetsArePlanned, Zenon
<1> HIDE DEF plan
<1>2. PICK S : plan \in Seq(S)
  BY <1>1
<1>3. PICK steps : /\ steps[0] = roots
                   /\ \A i \in 1 .. n : steps[i] = ApplyWidgetPatch(steps[i - 1], new, plan[i])
                   /\ PatchRoots(roots, new, plan) = steps[n]
  BY <1>2, RootFoldsInTurn
<1>4. /\ DoneIds(plan, 0) = {} /\ DoneIds(plan, n) = Ids(plan)
      /\ \A k \in 1 .. n : /\ plan[k].id \notin DoneIds(plan, k - 1)
                           /\ DoneIds(plan, k) = DoneIds(plan, k - 1) \cup {plan[k].id}
  BY <1>1, <1>2, DoneInTurn
<1>5. n \in Nat
  BY <1>2
<1> HIDE DEF n
<1> DEFINE Good(m) == RootsAreAt(steps[m], before, after, DoneIds(plan, m))
           T == {m \in Nat : m <= n => Good(m)}
<1> HIDE DEF Good
<1>6. 0 \in T
  BY <1>3, <1>4 DEF Good
<1>7. ASSUME NEW m \in T PROVE m + 1 \in T
  <2> SUFFICES ASSUME m + 1 <= n PROVE Good(m + 1)
    OBVIOUS
  <2>1. m \in Nat /\ m + 1 \in 1 .. n /\ m <= n /\ (m + 1) - 1 = m
    BY <1>5
  <2>2. RootsAreAt(steps[m], before, after, DoneIds(plan, m))
    BY <2>1 DEF Good
  <2> DEFINE p == plan[m + 1]
             done == DoneIds(plan, m)
  <2>3. /\ steps[m + 1] = ApplyWidgetPatch(steps[m], new, p)
        /\ IsRootPatch(p, before, after) /\ p.id \notin done /\ DoneIds(plan, m + 1) = done \cup {p.id}
    BY <1>1, <1>3, <1>4, <2>1 DEF n
  <2> HIDE DEF p, done
  <2>4. RootsAreAt(ApplyWidgetPatch(steps[m], new, p), before, after, done \cup {p.id})
    BY <2>2, <2>3, RootIsPatched DEF done
  <2> QED
    BY <2>3, <2>4 DEF Good
<1> HIDE DEF T
<1>8. T = Nat
  BY <1>6, <1>7, AllNumbers DEF T
<1>9. Good(n)
  BY <1>5, <1>8 DEF T
<1> QED
  BY <1>3, <1>4, <1>9 DEF Good, plan

-----------------------------------------------------------------------------
(* The overlay. *)

\* What a patch leaves of an overlay that was up.
LEMMA OverlayStays ==
    ASSUME NEW base, IsConfiguration(base), Validate(base), NEW conf, IsConfiguration(conf), Validate(conf),
           NEW views, PatchScreens(views, PlanPatch(base, conf)) # {},
           NEW id \in Overlays(base)
    PROVE  /\ id \in Overlays(conf)
           /\ \/ \E k \in 1 .. Len(PlanPatch(base, conf)) :
                    PlanPatch(base, conf)[k].id = id /\ IsOnOverlay(PlanPatch(base, conf)[k])
              \/ Shape(Assemble(Find(base.screens, id))) = Shape(Assemble(Find(conf.screens, id)))
<1> DEFINE plan == PlanPatch(base, conf)
<1>a. /\ \E S : plan \in Seq(S)
      /\ \A s \in ToSet(base.screens) : s.id \notin Ids(conf.screens) =>
            \E k \in 1 .. Len(plan) : plan[k] = RemovalOf(s)
      /\ \A s \in ToSet(conf.screens) : \A x : PlanScreen(ScreenOf(base, s.id), s) = <<x>> =>
            \E k \in 1 .. Len(plan) : plan[k] = x
  <2>1. \E S : plan \in Seq(S)
    BY PlanHas
  <2>2. \A s \in ToSet(base.screens) : s.id \notin Ids(conf.screens) => \E k \in 1 .. Len(plan) : plan[k] = RemovalOf(s)
    BY PlanHas
  <2>3. \A s \in ToSet(conf.screens) : \A x : PlanScreen(ScreenOf(base, s.id), s) = <<x>> =>
            \E k \in 1 .. Len(plan) : plan[k] = x
    BY PlanHas
  <2> QED
    BY <2>1, <2>2, <2>3, Zenon
<1>1. PICK S : plan \in Seq(S)
  BY <1>a
<1>2. PICK old \in ToSet(base.screens) : old.overlay /\ old.id = id
  BY DEF Overlays
<1>3. PICK i \in 1 .. Len(base.screens) : base.screens[i] = old
  BY ListIsThere DEF IsConfiguration
<1>4. Find(base.screens, id) = old /\ ScreenOf(base, id) = old
  <2>1. base.screens \in Seq(ToSet(base.screens)) /\ IsUnique(base.screens)
    BY GoodScreens DEF IsConfiguration, IsList
  <2>2. Find(base.screens, base.screens[i].id) = base.screens[i] /\ Has(base.screens, base.screens[i].id)
    BY <2>1, FindsItself
  <2> QED
    BY <1>2, <1>3, <2>2 DEF ScreenOf
<1>5. IsGoodScreen(old) /\ old # NoScreen
  BY GoodScreens, ScreenIsRecord DEF IsGoodScreen
<1>6. \A k \in 1 .. Len(plan) : IsOnOverlay(plan[k]) => StaysOverlay(plan[k])
  <2> SUFFICES ASSUME NEW k \in 1 .. Len(plan), IsOnOverlay(plan[k]) PROVE StaysOverlay(plan[k])
    OBVIOUS
  <2>1. \E v : PatchScreen(v, plan[k]) # {}
    BY <1>1, EachReaches
  <2> HIDE DEF plan
  <2> QED
    BY <2>1, Zenon DEF PatchScreen
<1>7. id \in Ids(conf.screens)
  <2> SUFFICES ASSUME id \notin Ids(conf.screens) PROVE FALSE
    OBVIOUS
  <2>1. PICK k \in 1 .. Len(plan) : plan[k] = RemovalOf(old)
    BY <1>2, <1>a
  <2>2. plan[k].old = old /\ plan[k].new = NoScreen
    BY <2>1 DEF RemovalOf
  <2>3. IsOnOverlay(plan[k]) /\ ~StaysOverlay(plan[k])
    BY <1>2, <1>5, <2>2, Zenon DEF IsOnOverlay, StaysOverlay
  <2> QED
    BY <1>6, <2>3
<1> DEFINE new == Find(conf.screens, id)
<1>8. new \in ToSet(conf.screens) /\ new.id = id /\ ScreenOf(base, new.id) = old
  BY <1>4, <1>7, FindsScreen
<1>9. IsGoodScreen(new) /\ new # NoScreen
  BY <1>8, GoodScreens, ScreenIsRecord DEF IsGoodScreen
<1> HIDE DEF new
<1>10. CASE PlanScreen(old, new) = <<>>
  <2>1. Shape(Assemble(old)) = Shape(Assemble(new))
    BY <1>5, <1>9, <1>10, SameShape
  <2>2. new.overlay
    <3>1. old = new \/ ClassifyScreenChange(old, new) # "rebuild"
      <4>1. \A action, widgets : <<PatchOf(old, new, action, widgets)>> # <<>>
        OBVIOUS
      <4> QED
        BY <1>5, <1>10, <4>1, ScreenIsPlanned, Zenon
    <3>2. CASE ClassifyScreenChange(old, new) # "rebuild"
      <4>1. [old EXCEPT !.widgets = <<>>] = [new EXCEPT !.widgets = <<>>]
        BY <3>2, Zenon DEF ClassifyScreenChange
      <4>2. /\ old = [id |-> old.id, group |-> old.group, z |-> old.z, overlay |-> old.overlay, frame |-> old.frame,
                      widgets |-> old.widgets]
            /\ new = [id |-> new.id, group |-> new.group, z |-> new.z, overlay |-> new.overlay, frame |-> new.frame,
                      widgets |-> new.widgets]
        BY <1>5, <1>9 DEF IsGoodScreen, IsScreen
      <4>3. [old EXCEPT !.widgets = <<>>].overlay = old.overlay /\ [new EXCEPT !.widgets = <<>>].overlay = new.overlay
        BY <4>2
      <4> QED
        BY <1>2, <4>1, <4>3
    <3> QED
      BY <1>2, <3>1, <3>2
  <2>3. id \in Overlays(conf)
    BY <1>8, <2>2 DEF Overlays
  <2> QED
    BY <1>4, <2>1, <2>3 DEF new
<1>11. CASE PlanScreen(old, new) # <<>>
  <2>1. PICK x : PlanScreen(old, new) = <<x>> /\ x.id = new.id /\ x.old = old /\ x.new = new
    BY <1>11, ScreenHasOnePatch
  <2>2. PICK k \in 1 .. Len(plan) : plan[k] = x
    BY <1>8, <1>a, <2>1, Zenon
  <2>3. IsOnOverlay(plan[k]) /\ plan[k].id = id
    BY <1>2, <1>5, <1>8, <2>1, <2>2 DEF IsOnOverlay
  <2>4. old.overlay = new.overlay
    BY <1>6, <2>1, <2>2, <2>3 DEF StaysOverlay
  <2>5. id \in Overlays(conf)
    BY <1>2, <1>8, <2>4 DEF Overlays
  <2> QED
    BY <2>3, <2>5
<1> QED
  BY <1>10, <1>11

OverlayInv == (overlay # NoOverlay => overlay \in Overlays(staged)) /\ OverlayIsAsStaged

LEMMA ShownAgain ==
    ASSUME NEW conf, Show(conf), staged' = conf
    PROVE  OverlayInv'
<1>1. /\ overlay' # NoOverlay => overlay' \in Overlays(conf)
      /\ overlay_view' = NoScreen /\ (overlay_told' => overlay' = NoOverlay)
  BY DEF Show
<1>2. Overlays(conf) = Overlays(staged)'
  BY DEF Overlays
<1> QED
  BY <1>1, <1>2 DEF OverlayInv, OverlayIsAsStaged

LEMMA OverlayNext ==
    ASSUME FormInv, OverlayInv, Next
    PROVE  OverlayInv'
<1>1. ASSUME UNCHANGED <<staged, pc, overlay, overlay_told, overlay_view>> PROVE OverlayInv'
  BY <1>1 DEF OverlayInv, OverlayIsAsStaged, Overlays
<1>2. ASSUME NEW op \in client.ops, ApplyPatchOps(op) PROVE OverlayInv'
  BY <1>1, <1>2 DEF ApplyPatchOps, overlayVars
<1>3. CASE RefuseInvalid
  BY <1>1, <1>3 DEF RefuseInvalid, overlayVars
<1>4. CASE ApplyPatch
  <2>1. /\ pc = "idle" /\ Validate(patched) /\ staged' = patched /\ UNCHANGED <<overlay, overlay_view>>
        /\ overlay_told' = (overlay_told /\ overlay \notin OverlaysToReshow)
        /\ PatchScreens(Settled(groups), Plan) # {}
    BY <1>4 DEF ApplyPatch, TakePatched
  <2>2. CASE overlay = NoOverlay
    <3>1. overlay_told => overlay_view = NoScreen
      BY <2>1, <2>2 DEF OverlayInv, OverlayIsAsStaged
    <3> QED
      BY <2>1, <2>2, <3>1 DEF OverlayInv, OverlayIsAsStaged
  <2>3. CASE overlay # NoOverlay
    <3>1. overlay \in Overlays(staged)
      BY <2>3 DEF OverlayInv
    <3>2. /\ overlay \in Overlays(patched)
          /\ \/ \E k \in 1 .. Len(Plan) : Plan[k].id = overlay /\ IsOnOverlay(Plan[k])
             \/ Shape(Assemble(Find(staged.screens, overlay))) = Shape(Assemble(Find(patched.screens, overlay)))
      BY <2>1, <3>1, OverlayStays DEF FormInv, Plan
    <3>3. (\E k \in 1 .. Len(Plan) : Plan[k].id = overlay /\ IsOnOverlay(Plan[k])) => overlay \in OverlaysToReshow
      <4>1. PICK S : Plan \in Seq(S)
        BY PlanHas DEF FormInv, Plan
      <4> DEFINE plan == Plan
      <4>2. DOMAIN plan = 1 .. Len(plan)
        BY <4>1
      <4>3. OverlaysToReshow = {patch.id : patch \in {p \in ToSet(plan) : IsOnOverlay(p)}}
        BY Zenon DEF OverlaysToReshow
      <4> HIDE DEF plan
      <4>4. (\E k \in 1 .. Len(plan) : plan[k].id = overlay /\ IsOnOverlay(plan[k])) => overlay \in OverlaysToReshow
        BY <4>2, <4>3 DEF ToSet
      <4> QED
        BY <4>4 DEF plan
    <3>4. overlay' \in Overlays(staged')
      BY <2>1, <3>2
    <3>5. overlay_told' => /\ overlay_view' # NoScreen
                           /\ Shape(Assemble(overlay_view')) = Shape(Assemble(Find(staged'.screens, overlay')))
      <4> SUFFICES ASSUME overlay_told'
          PROVE /\ overlay_view # NoScreen
                /\ Shape(Assemble(overlay_view)) = Shape(Assemble(Find(patched.screens, overlay)))
        BY <2>1, Zenon
      <4>1. overlay_told /\ overlay \notin OverlaysToReshow
        BY <2>1
      <4>2. overlay_view # NoScreen /\ Shape(Assemble(overlay_view)) = Shape(Assemble(Find(staged.screens, overlay)))
        BY <2>1, <2>3, <4>1, Zenon DEF OverlayInv, OverlayIsAsStaged
      <4> QED
        BY <3>2, <3>3, <4>1, <4>2, Zenon
    <3>6. Overlays(staged)' = Overlays(staged')
      BY DEF Overlays
    <3> QED
      BY <2>1, <2>3, <3>4, <3>5, <3>6, Zenon DEF OverlayInv, OverlayIsAsStaged
  <2> QED
    BY <2>2, <2>3
<1>5. CASE ApplyByRebuild
  BY <1>5, ShownAgain DEF ApplyByRebuild, TakePatched
<1>6. CASE ApplyFails
  <2>1. staged' = staged /\ overlay' = overlay /\ pc' = "failed"
    BY <1>6 DEF ApplyFails, requestVars, overlayVars
  <2> QED
    BY <2>1 DEF OverlayInv, OverlayIsAsStaged, Overlays
<1>7. CASE ShowStagedAgain
  BY <1>7, ShownAgain DEF ShowStagedAgain
<1>8. CASE Replay
  <2>1. UNCHANGED <<staged, overlay, overlay_told, overlay_view>> /\ pc = "replaying"
    BY <1>8 DEF Replay, requestVars, overlayVars
  <2> QED
    BY <2>1 DEF OverlayInv, OverlayIsAsStaged, Overlays
<1>9. ASSUME NEW id \in Overlays(staged) \union {NoOverlay}, UserMovesOverlay(id) PROVE OverlayInv'
  <2>1. staged' = staged /\ overlay' = id /\ ~overlay_told'
    BY <1>9 DEF UserMovesOverlay, requestVars
  <2> QED
    BY <2>1 DEF OverlayInv, OverlayIsAsStaged, Overlays
<1>10. CASE ViewShowsOverlay
  <2>1. /\ UNCHANGED <<staged, overlay, pc>>
        /\ overlay_view' = IF overlay = NoOverlay THEN NoScreen ELSE Find(staged.screens, overlay)
    BY <1>10 DEF ViewShowsOverlay, requestVars
  <2>2. overlay # NoOverlay => Find(staged.screens, overlay) # NoScreen
    <3> SUFFICES ASSUME overlay # NoOverlay PROVE Find(staged.screens, overlay) # NoScreen
      OBVIOUS
    <3>1. PICK s \in ToSet(staged.screens) : s.id = overlay
      BY DEF OverlayInv, Overlays
    <3>2. overlay \in Ids(staged.screens)
      BY <3>1 DEF Ids, ToSet
    <3>3. Find(staged.screens, overlay) \in ToSet(staged.screens)
      BY <3>2, FindsScreen DEF FormInv
    <3> QED
      BY <3>3, ScreenIsRecord DEF FormInv, IsConfiguration
  <2> QED
    BY <2>1, <2>2 DEF OverlayInv, OverlayIsAsStaged, Overlays
<1> QED
  BY <1>2, <1>3, <1>4, <1>5, <1>6, <1>7, <1>8, <1>9, <1>10 DEF Next

\* Once the view took what navigation said last, the overlay that is up looks
\* as the staged configuration has it, whatever patches came between the event
\* and the view: a patch leaves an overlay alone only if nothing is drawn
\* otherwise (UiController::ApplyPatchLocked, PatchScreen and ShowOverlay).
THEOREM OverlayHolds == ConfigurationsSpec => []OverlayIsAsStaged
<1>1. ConfigurationsInit => FormInv /\ OverlayInv
  <2>1. Init => FormInv /\ OverlayInv
    BY ClientsAssumption DEF Init, FormInv, OverlayInv, OverlayIsAsStaged
  <2> QED
    BY <2>1 DEF ConfigurationsInit
<1>2. FormInv /\ OverlayInv /\ [ConfigurationsNext]_allVars => FormInv' /\ OverlayInv'
  <2>1. ASSUME FormInv, OverlayInv, UNCHANGED vars PROVE FormInv' /\ OverlayInv'
    BY <2>1 DEF FormInv, OverlayInv, OverlayIsAsStaged, Overlays, vars, requestVars, overlayVars
  <2>2. ASSUME FormInv, OverlayInv, Next PROVE FormInv' /\ OverlayInv'
    BY <2>2, FormNext, OverlayNext
  <2>3. [ConfigurationsNext]_allVars => Next \/ UNCHANGED vars
    BY DEF ConfigurationsNext, PatchScene, EditScene, StoreScene, allVars
  <2> QED
    BY <2>1, <2>2, <2>3
<1>3. OverlayInv => OverlayIsAsStaged
  BY DEF OverlayInv
<1> QED
  BY <1>1, <1>2, <1>3, PTL DEF ConfigurationsSpec
=============================================================================
