---------------------------- MODULE WebBoard_proofs ----------------------------
(***************************************************************************)
(* Theorems about the dashboard (Dashboard), for any widgets, items and    *)
(* numbers of inputs: however the rows of the editor are switched, moved,  *)
(* swapped, dropped, saved and loaded again, their orders number the       *)
(* widgets from 0 without a gap, and a drop moves one row.                 *)
(***************************************************************************)
EXTENDS WebPages, FiniteSetTheorems, TLAPS

-----------------------------------------------------------------------------
(* Numbers and orders *)

\* The same operator, by another name in the instance
LEMMA BoardCardinality == ASSUME NEW S PROVE Board!Cardinality(S) = Cardinality(S)
  BY DEF Board!Cardinality, Cardinality

\* No two of ids are at the same place.
Distinguishes(order, ids) ==
  /\ IsFiniteSet(ids)
  /\ \A w \in ids : order[w] \in Int
  /\ \A v, w \in ids : order[v] = order[w] => v = w

\* How many come before tells the place, from 0 on.
LEMMA BeforeCounts ==
  ASSUME NEW ids, NEW order, Distinguishes(order, ids)
  PROVE  /\ Cardinality(ids) \in Nat
         /\ \A w \in ids : Board!Before(w, ids, order) \in 0..(Cardinality(ids) - 1)
         /\ \A v, w \in ids :
              order[v] < order[w] <=> Board!Before(v, ids, order) < Board!Before(w, ids, order)
         /\ \A v, w \in ids :
              Board!Before(v, ids, order) = Board!Before(w, ids, order) => v = w
         /\ \A i \in 0..(Cardinality(ids) - 1) :
              \E w \in ids : Board!Before(w, ids, order) = i
<1> DEFINE n == Cardinality(ids)
           smaller(w) == {v \in ids : order[v] < order[w]}
           before(w) == Cardinality(smaller(w))
<1>1. n \in Nat /\ IsFiniteSet(ids)
  BY FS_CardinalityType DEF Distinguishes
<1>2. /\ \A w \in ids : smaller(w) \in SUBSET ids /\ smaller(w) # ids
      /\ \A v, w \in ids : order[v] < order[w] =>
                            smaller(v) \in SUBSET smaller(w) /\ smaller(v) # smaller(w)
  BY DEF Distinguishes
<1>3. \A w \in ids : Board!Before(w, ids, order) = before(w)
  BY BoardCardinality DEF Board!Before
<1> HIDE DEF smaller
<1>4. \A w \in ids : IsFiniteSet(smaller(w)) /\ before(w) \in 0..(n - 1)
  <2> SUFFICES ASSUME NEW w \in ids PROVE IsFiniteSet(smaller(w)) /\ before(w) \in 0..(n - 1)
    OBVIOUS
  <2>1. /\ IsFiniteSet(smaller(w)) /\ before(w) <= n /\ before(w) # n
        /\ before(w) \in Nat
    BY <1>1, <1>2, FS_Subset, FS_CardinalityType
  <2> QED BY <1>1, <2>1
<1>5. \A v, w \in ids : order[v] < order[w] => before(v) < before(w)
  <2> SUFFICES ASSUME NEW v \in ids, NEW w \in ids, order[v] < order[w]
               PROVE  before(v) < before(w)
    OBVIOUS
  <2>1. IsFiniteSet(smaller(w)) /\ before(v) \in Nat /\ before(w) \in Nat
    BY <1>1, <1>4
  <2>2. before(v) <= before(w) /\ before(v) # before(w)
    BY <1>2, <2>1, FS_Subset
  <2> QED BY <2>1, <2>2
<1>6. \A v, w \in ids : order[v] < order[w] \/ order[w] < order[v] \/ v = w
  BY DEF Distinguishes
<1> HIDE DEF before
<1>7. \A w \in ids : before(w) \in 0..(n - 1)
  BY <1>4
<1>8. \A w \in ids : before(w) \in Int
  BY <1>1, <1>7
<1>9. \A v, w \in ids : order[v] < order[w] <=> before(v) < before(w)
  BY <1>5, <1>6, <1>8 DEF Distinguishes
<1>10. \A v, w \in ids : before(v) = before(w) => v = w
  BY <1>5, <1>6, <1>8
<1>11. \A i \in 0..(n - 1) : \E w \in ids : before(w) = i
  <2> DEFINE f == [w \in ids |-> before(w)]
  <2>1. f \in Injection(ids, 0..(n - 1))
    BY <1>7, <1>10 DEF Injection, IsInjective
  <2>2. IsFiniteSet(0..(n - 1)) /\ Cardinality(0..(n - 1)) = n
    BY <1>1, FS_Interval
  <2> HIDE DEF f
  <2>3. f \in Surjection(ids, 0..(n - 1))
    BY <2>1, <2>2, FS_Injection
  <2> USE DEF f
  <2> QED BY <2>3 DEF Surjection
<1> QED BY <1>1, <1>3, <1>7, <1>9, <1>10, <1>11 DEF n

\* Sorted, every id has one row, which follows those of the ids before it.
LEMMA InOrderSorts ==
  ASSUME NEW ids, NEW order, Distinguishes(order, ids)
  PROVE  LET rows == Board!InOrder(ids, order)
             n    == Cardinality(ids)
         IN  /\ n \in Nat /\ rows \in [1..n -> ids]
             /\ \A w \in ids : /\ Board!Before(w, ids, order) + 1 \in 1..n
                               /\ rows[Board!Before(w, ids, order) + 1] = w
             /\ \A i \in 1..n : Board!Before(rows[i], ids, order) = i - 1
             /\ \A i, j \in 1..n : order[rows[i]] < order[rows[j]] <=> i < j
<1> DEFINE rows == Board!InOrder(ids, order)
           n == Cardinality(ids)
           before(w) == Board!Before(w, ids, order)
<1>1. /\ n \in Nat
      /\ \A w \in ids : before(w) \in 0..(n - 1)
      /\ \A v, w \in ids : order[v] < order[w] <=> before(v) < before(w)
      /\ \A v, w \in ids : before(v) = before(w) => v = w
      /\ \A i \in 0..(n - 1) : \E w \in ids : before(w) = i
  BY BeforeCounts
<1>2. rows = [i \in 1..n |-> CHOOSE w \in ids : before(w) = i - 1]
  BY BoardCardinality DEF Board!InOrder
<1> HIDE DEF rows, n, before
<1>3. \A i \in 1..n : rows[i] \in ids /\ before(rows[i]) = i - 1
  <2> SUFFICES ASSUME NEW i \in 1..n PROVE rows[i] \in ids /\ before(rows[i]) = i - 1
    OBVIOUS
  <2>1. i - 1 \in 0..(n - 1)
    BY <1>1
  <2>2. rows[i] = CHOOSE w \in ids : before(w) = i - 1
    BY <1>2
  <2> QED BY <1>1, <2>1, <2>2
<1>4. rows \in [1..n -> ids]
  BY <1>2, <1>3
<1>5. \A w \in ids : before(w) + 1 \in 1..n /\ rows[before(w) + 1] = w
  <2> SUFFICES ASSUME NEW w \in ids PROVE before(w) + 1 \in 1..n /\ rows[before(w) + 1] = w
    OBVIOUS
  <2>1. before(w) + 1 \in 1..n /\ (before(w) + 1) - 1 = before(w)
    BY <1>1
  <2> QED BY <1>1, <1>3, <2>1
<1>6. \A i, j \in 1..n : order[rows[i]] < order[rows[j]] <=> i < j
  BY <1>1, <1>3
<1> QED BY <1>1, <1>3, <1>4, <1>5, <1>6 DEF rows, n, before

-----------------------------------------------------------------------------
(* Numbered widgets *)

LEMMA BoardConstants ==
  LET ids == Board!WidgetIds
  IN  /\ Widgets \in Seq(ids) /\ Len(Widgets) \in Nat \ {0}
      /\ IsFiniteSet(ids) /\ Cardinality(ids) = Len(Widgets)
      /\ Distinguishes(Board!ListOrder, ids)
      /\ Head(Widgets) \in ids /\ ServerWidgets \subseteq ids
      /\ MaxDashInputs \in Nat
<1> DEFINE ids == Board!WidgetIds
           n == Len(Widgets)
<1>1. /\ Widgets \in Seq(ids) /\ Widgets # <<>> /\ ServerWidgets \subseteq ids
      /\ \A i, j \in DOMAIN Widgets : Widgets[i] = Widgets[j] => i = j
      /\ MaxDashInputs \in Nat
  BY PagesAssumption DEF Board!DashboardAssumption, Board!IsInjective, Board!WidgetIds
<1>2. ids = {Widgets[i] : i \in DOMAIN Widgets}
  BY DEF Board!WidgetIds, Board!Range
<1> HIDE DEF ids
<1>3. n \in Nat \ {0} /\ DOMAIN Widgets = 1..n /\ Head(Widgets) \in ids
  BY <1>1
<1>4. Widgets \in Bijection(1..n, ids)
  BY <1>1, <1>2, <1>3 DEF Bijection, Injection, Surjection, IsInjective
<1>5. IsFiniteSet(1..n) /\ Cardinality(1..n) = n
  BY <1>3, FS_Interval
<1>6. IsFiniteSet(ids) /\ Cardinality(ids) = n
  BY <1>4, <1>5, FS_Bijection DEF ExistsBijection
<1>7. \A w \in ids : Board!ListOrder[w] \in 1..n /\ Widgets[Board!ListOrder[w]] = w
  <2> SUFFICES ASSUME NEW w \in ids
               PROVE  Board!ListOrder[w] \in 1..n /\ Widgets[Board!ListOrder[w]] = w
    OBVIOUS
  <2>1. Board!ListOrder[w] = CHOOSE i \in DOMAIN Widgets : Widgets[i] = w
    BY DEF Board!ListOrder, Board!Place, ids
  <2>2. \E i \in DOMAIN Widgets : Widgets[i] = w
    BY <1>2
  <2> QED BY <1>3, <2>1, <2>2
<1>8. Distinguishes(Board!ListOrder, ids)
  BY <1>3, <1>6, <1>7 DEF Distinguishes
<1> QED BY <1>1, <1>3, <1>6, <1>8 DEF ids

\* Widgets numbered from 0 on
Numbered(ws) ==
  /\ DOMAIN ws \subseteq Board!WidgetIds
  /\ ws \in [DOMAIN ws -> Board!Setting]
  /\ \A w \in DOMAIN ws : ws[w].order \in 0..(Cardinality(DOMAIN ws) - 1)
  /\ \A v, w \in DOMAIN ws : ws[v].order = ws[w].order => v = w

LEMMA SubsetOfWidgets ==
  ASSUME NEW ids, ids \subseteq Board!WidgetIds
  PROVE  /\ IsFiniteSet(ids) /\ Cardinality(ids) \in 0..Len(Widgets)
         /\ Distinguishes(Board!ListOrder, ids)
         /\ Cardinality(ids) = Len(Widgets) => ids = Board!WidgetIds
<1>1. /\ IsFiniteSet(ids) /\ Cardinality(ids) \in Nat /\ Cardinality(ids) <= Len(Widgets)
      /\ Cardinality(ids) = Len(Widgets) => ids = Board!WidgetIds
  BY BoardConstants, FS_Subset, FS_CardinalityType
<1>2. Distinguishes(Board!ListOrder, ids)
  BY <1>1, BoardConstants DEF Distinguishes
<1> QED BY <1>1, <1>2, BoardConstants

LEMMA ListedNumbered ==
  ASSUME NEW ids, ids \subseteq Board!WidgetIds
  PROVE  Numbered(Board!Listed(ids)) /\ DOMAIN Board!Listed(ids) = ids
<1> DEFINE ws == Board!Listed(ids)
           before(w) == Board!Before(w, ids, Board!ListOrder)
           n == Cardinality(ids)
<1>1. /\ n \in 0..Len(Widgets) /\ \A w \in ids : before(w) \in 0..(n - 1)
      /\ \A v, w \in ids : before(v) = before(w) => v = w
  BY SubsetOfWidgets, BeforeCounts
<1>2. ws = [w \in ids |-> [visible |-> TRUE, half |-> FALSE, order |-> before(w)]]
  BY DEF Board!Listed
<1> HIDE DEF before, ws
<1>3. \A w \in ids : before(w) \in 0..(Len(Widgets) - 1)
  BY <1>1, BoardConstants
<1>4. ws \in [ids -> Board!Setting]
  BY <1>2, <1>3 DEF Board!Setting
<1> QED BY <1>1, <1>2, <1>4 DEF Numbered, ws

\* The last place is the number of widgets.
LEMMA LastPlace ==
  ASSUME NEW ws, Numbered(ws), DOMAIN ws # {}
  PROVE  Board!MaxOrder(ws) = Cardinality(DOMAIN ws) - 1
<1> DEFINE ids == DOMAIN ws
           n == Cardinality(ids)
           f == [w \in ids |-> ws[w].order]
<1>1. n \in Nat /\ IsFiniteSet(ids) /\ n # 0
  BY SubsetOfWidgets, BoardConstants, FS_EmptySet DEF Numbered
<1>2. f \in Injection(ids, 0..(n - 1))
  BY DEF Numbered, Injection, IsInjective
<1>3. IsFiniteSet(0..(n - 1)) /\ Cardinality(0..(n - 1)) = n
  BY <1>1, FS_Interval
<1> HIDE DEF f
<1>4. f \in Surjection(ids, 0..(n - 1))
  BY <1>2, <1>3, FS_Injection
<1>5. \E w \in ids : f[w] = n - 1
  BY <1>1, <1>4 DEF Surjection
<1> USE DEF f
<1>6. \E w \in ids : ws[w].order = n - 1
  BY <1>5
<1>7. n - 1 \in Board!Orders(ws) /\ \A o \in Board!Orders(ws) : o \in 0..(n - 1)
  BY <1>6 DEF Board!Orders, Numbered
<1> HIDE DEF n
<1>8. /\ \A p \in Board!Orders(ws) : p <= n - 1
      /\ \A o \in Board!Orders(ws) : (\A p \in Board!Orders(ws) : p <= o) => o = n - 1
  BY <1>1, <1>7
<1> QED BY <1>7, <1>8 DEF Board!MaxOrder, n

LEMMA ExtendedNumbered ==
  ASSUME NEW ws, Numbered(ws), DOMAIN ws # {}, NEW ids, ids \subseteq Board!WidgetIds
  PROVE  /\ Numbered(Board!Extended(ws, ids))
         /\ DOMAIN Board!Extended(ws, ids) = DOMAIN ws \cup ids
<1> DEFINE new == Board!Extended(ws, ids)
           added == ids \ DOMAIN ws
           k == Cardinality(DOMAIN ws)
           m == Cardinality(added)
           before(w) == Board!Before(w, added, Board!ListOrder)
<1>1. /\ k \in Nat /\ m \in Nat /\ k + m = Cardinality(DOMAIN ws \cup ids)
      /\ k + m <= Len(Widgets)
  <2>1. /\ DOMAIN ws \subseteq Board!WidgetIds /\ added \subseteq Board!WidgetIds
        /\ DOMAIN ws \cup ids \subseteq Board!WidgetIds
        /\ DOMAIN ws \cap added = {} /\ DOMAIN ws \cup added = DOMAIN ws \cup ids
    BY DEF Numbered
  <2>2. /\ IsFiniteSet(DOMAIN ws) /\ IsFiniteSet(added) /\ k \in Nat /\ m \in Nat
        /\ Cardinality(DOMAIN ws \cup ids) \in 0..Len(Widgets)
    BY <2>1, SubsetOfWidgets, BoardConstants
  <2>3. Cardinality(DOMAIN ws \cup added) = k + m - Cardinality(DOMAIN ws \cap added)
    BY <2>2, FS_Union
  <2>4. Cardinality(DOMAIN ws \cap added) = 0
    BY <2>1, FS_EmptySet
  <2>5. Cardinality(DOMAIN ws \cup ids) = k + m
    <3> HIDE DEF added
    <3>1. DOMAIN ws \cup added = DOMAIN ws \cup ids
      BY <2>1
    <3>2. Cardinality(DOMAIN ws \cup added) = k + m
      BY <2>2, <2>3, <2>4
    <3> QED BY <3>1, <3>2
  <2> QED BY <2>2, <2>5, BoardConstants
<1>2. /\ \A w \in added : before(w) \in 0..(m - 1)
      /\ \A v, w \in added : before(v) = before(w) => v = w
  <2>1. Distinguishes(Board!ListOrder, added)
    BY SubsetOfWidgets
  <2> QED BY <2>1, BeforeCounts
<1>3. new = [w \in DOMAIN ws \cup ids |->
               IF w \in DOMAIN ws THEN ws[w]
               ELSE [visible |-> TRUE, half |-> FALSE, order |-> k + before(w)]]
  <2>1. Board!MaxOrder(ws) + 1 = k
    BY <1>1, LastPlace
  <2> QED BY <2>1 DEF Board!Extended
<1> HIDE DEF new, before, k, m
<1>4. /\ DOMAIN new = DOMAIN ws \cup ids
      /\ \A w \in DOMAIN ws : new[w] = ws[w]
      /\ \A w \in added : new[w] = [visible |-> TRUE, half |-> FALSE, order |-> k + before(w)]
  BY <1>3
<1>5. /\ \A w \in DOMAIN ws : ws[w].order \in 0..(k - 1)
      /\ \A w \in DOMAIN ws : ws[w] \in Board!Setting
      /\ \A v, w \in DOMAIN ws : ws[v].order = ws[w].order => v = w
  BY DEF Numbered, k
<1>6. \A w \in DOMAIN new : w \in DOMAIN ws \/ w \in added
  BY <1>4
<1>7. /\ \A w \in DOMAIN ws : new[w] \in Board!Setting /\ new[w].order \in 0..(k + m - 1)
                              /\ new[w].order < k
      /\ \A w \in added : new[w].order = k + before(w) /\ new[w].order \in k..(k + m - 1)
      /\ \A w \in added : new[w] \in Board!Setting
  <2>1. \A w \in added : k + before(w) \in 0..(Len(Widgets) - 1) /\ k + before(w) \in k..(k + m - 1)
    BY <1>1, <1>2, BoardConstants
  <2>2. \A w \in added : new[w].order = k + before(w) /\ new[w] \in Board!Setting
    <3> SUFFICES ASSUME NEW w \in added
                 PROVE  new[w].order = k + before(w) /\ new[w] \in Board!Setting
      OBVIOUS
    <3> DEFINE r == [visible |-> TRUE, half |-> FALSE, order |-> k + before(w)]
    <3>1. r \in Board!Setting
      BY <2>1 DEF Board!Setting
    <3>2. new[w] = r /\ r.order = k + before(w)
      BY <1>4
    <3> HIDE DEF r
    <3> QED BY <3>1, <3>2
  <2>3. \A w \in DOMAIN ws : new[w] \in Board!Setting /\ new[w].order \in 0..(k + m - 1)
                              /\ new[w].order < k
    BY <1>1, <1>4, <1>5
  <2> QED BY <2>1, <2>2, <2>3
<1>8. new \in [DOMAIN new -> Board!Setting]
  BY <1>3, <1>4, <1>6, <1>7
<1>9. \A w \in DOMAIN new : new[w].order \in 0..(k + m - 1)
  BY <1>1, <1>6, <1>7
<1>10. \A v, w \in DOMAIN new : new[v].order = new[w].order => v = w
  <2> SUFFICES ASSUME NEW v \in DOMAIN new, NEW w \in DOMAIN new, new[v].order = new[w].order
               PROVE  v = w
    OBVIOUS
  <2>1. CASE v \in DOMAIN ws /\ w \in DOMAIN ws
    BY <1>4, <1>5, <2>1
  <2>2. CASE v \in added /\ w \in added
    <3>1. before(v) = before(w)
      BY <1>1, <1>2, <1>7, <2>2
    <3> QED BY <1>2, <2>2, <3>1
  <2>3. CASE \/ v \in DOMAIN ws /\ w \in added
             \/ v \in added /\ w \in DOMAIN ws
    BY <1>1, <1>7, <2>3
  <2> QED BY <1>6, <2>1, <2>2, <2>3
<1>11. DOMAIN new \subseteq Board!WidgetIds
  BY <1>4 DEF Numbered
<1> QED BY <1>1, <1>4, <1>8, <1>9, <1>10, <1>11 DEF Numbered, new

-----------------------------------------------------------------------------
(* Rows that are moved *)

\* Where a row is when the one at from has gone to another place
MovedTo(i, from, to) ==
  IF i = from THEN to
  ELSE IF i < from THEN (IF i < to THEN i ELSE i + 1)
  ELSE (IF i - 1 < to THEN i - 1 ELSE i)

\* and which one is at a place then
CameFrom(j, from, to) ==
  IF j = to THEN from
  ELSE IF j < to THEN (IF j < from THEN j ELSE j + 1)
  ELSE (IF j - 1 < from THEN j - 1 ELSE j)

LEMMA MovedAndBack ==
  ASSUME NEW n \in Nat, NEW from \in 1..n, NEW to \in 1..n
  PROVE  /\ \A i \in 1..n : /\ MovedTo(i, from, to) \in 1..n
                            /\ CameFrom(MovedTo(i, from, to), from, to) = i
         /\ \A j \in 1..n : /\ CameFrom(j, from, to) \in 1..n
                            /\ MovedTo(CameFrom(j, from, to), from, to) = j
         /\ \A i, j \in (1..n) \ {from} :
              MovedTo(i, from, to) < MovedTo(j, from, to) <=> i < j
  BY DEF MovedTo, CameFrom

LEMMA TwoParts ==
  ASSUME NEW S, NEW s \in Seq(S), NEW t \in Seq(S)
  PROVE  /\ s \o t \in Seq(S) /\ Len(s \o t) = Len(s) + Len(t)
         /\ \A j \in 1..Len(s) : (s \o t)[j] = s[j]
         /\ \A j \in (Len(s) + 1)..(Len(s) + Len(t)) : (s \o t)[j] = t[j - Len(s)]
  OBVIOUS

LEMMA PartOf ==
  ASSUME NEW S, NEW s \in Seq(S), NEW a \in 1..(Len(s) + 1), NEW b \in 0..Len(s), a <= b + 1
  PROVE  /\ SubSeq(s, a, b) \in Seq(S) /\ Len(SubSeq(s, a, b)) = b - a + 1
         /\ \A j \in 1..(b - a + 1) : SubSeq(s, a, b)[j] = s[a + j - 1]
  OBVIOUS

LEMMA RowGone ==
  ASSUME NEW S, NEW s \in Seq(S), NEW from \in 1..Len(s)
  PROVE  LET r == Board!RemoveAt(s, from)
         IN  /\ r \in Seq(S) /\ Len(r) = Len(s) - 1
             /\ \A j \in 1..(Len(s) - 1) : r[j] = IF j < from THEN s[j] ELSE s[j + 1]
<1> DEFINE s1 == SubSeq(s, 1, from - 1)
           s2 == SubSeq(s, from + 1, Len(s))
           n  == Len(s)
<1>1. n \in Nat /\ from \in 1..n
  OBVIOUS
<1>2. /\ s1 \in Seq(S) /\ Len(s1) = from - 1 /\ \A j \in 1..(from - 1) : s1[j] = s[j]
  BY <1>1, PartOf
<1>3. /\ s2 \in Seq(S) /\ Len(s2) = n - from
      /\ \A j \in 1..(n - from) : s2[j] = s[from + j]
  <2>1. /\ s2 \in Seq(S) /\ Len(s2) = n - (from + 1) + 1
        /\ \A j \in 1..(n - (from + 1) + 1) : s2[j] = s[(from + 1) + j - 1]
    BY <1>1, PartOf
  <2> HIDE DEF s2
  <2> QED BY <1>1, <2>1
<1> HIDE DEF s1, s2, n
<1>4. /\ s1 \o s2 \in Seq(S) /\ Len(s1 \o s2) = n - 1
      /\ \A j \in 1..(from - 1) : (s1 \o s2)[j] = s1[j]
      /\ \A j \in from..(n - 1) : (s1 \o s2)[j] = s2[j - (from - 1)]
  <2>1. /\ s1 \o s2 \in Seq(S) /\ Len(s1 \o s2) = Len(s1) + Len(s2)
        /\ \A j \in 1..Len(s1) : (s1 \o s2)[j] = s1[j]
        /\ \A j \in (Len(s1) + 1)..(Len(s1) + Len(s2)) : (s1 \o s2)[j] = s2[j - Len(s1)]
    BY <1>2, <1>3, TwoParts
  <2> QED BY <1>1, <1>2, <1>3, <2>1
<1>5. \A j \in 1..(n - 1) : (s1 \o s2)[j] = IF j < from THEN s[j] ELSE s[j + 1]
  <2> SUFFICES ASSUME NEW j \in 1..(n - 1)
               PROVE  (s1 \o s2)[j] = IF j < from THEN s[j] ELSE s[j + 1]
    OBVIOUS
  <2>1. CASE j < from
    BY <1>1, <1>2, <1>4, <2>1
  <2>2. CASE ~(j < from)
    <3>1. j \in from..(n - 1) /\ j - (from - 1) \in 1..(n - from)
          /\ from + (j - (from - 1)) = j + 1
      BY <1>1, <2>2
    <3> QED BY <1>3, <1>4, <2>2, <3>1
  <2> QED BY <2>1, <2>2
<1>6. Board!RemoveAt(s, from) = s1 \o s2
  BY DEF Board!RemoveAt, s1, s2
<1> QED BY <1>4, <1>5, <1>6 DEF n

LEMMA RowPut ==
  ASSUME NEW S, NEW r \in Seq(S), NEW to \in 1..(Len(r) + 1), NEW e \in S
  PROVE  LET s == Board!InsertAt(r, to, e)
         IN  /\ s \in Seq(S) /\ Len(s) = Len(r) + 1
             /\ \A j \in 1..(Len(r) + 1) :
                  s[j] = IF j < to THEN r[j] ELSE IF j = to THEN e ELSE r[j - 1]
<1> DEFINE s1 == SubSeq(r, 1, to - 1)
           s2 == SubSeq(r, to, Len(r))
           n  == Len(r)
<1>1. n \in Nat /\ to \in 1..(n + 1)
  OBVIOUS
<1>2. /\ s1 \in Seq(S) /\ Len(s1) = to - 1 /\ \A j \in 1..(to - 1) : s1[j] = r[j]
  BY <1>1, PartOf
<1>3. /\ s2 \in Seq(S) /\ Len(s2) = n - to + 1
      /\ \A j \in 1..(n - to + 1) : s2[j] = r[to + j - 1]
  BY <1>1, PartOf
<1> HIDE DEF s1, s2, n
<1> DEFINE s3 == s1 \o <<e>>
<1>4. /\ s3 \in Seq(S) /\ Len(s3) = to
      /\ \A j \in 1..(to - 1) : s3[j] = s1[j]
      /\ s3[to] = e
  <2>1. <<e>> \in Seq(S) /\ Len(<<e>>) = 1 /\ <<e>>[1] = e
    OBVIOUS
  <2>2. /\ s1 \o <<e>> \in Seq(S) /\ Len(s1 \o <<e>>) = Len(s1) + Len(<<e>>)
        /\ \A j \in 1..Len(s1) : (s1 \o <<e>>)[j] = s1[j]
        /\ \A j \in (Len(s1) + 1)..(Len(s1) + Len(<<e>>)) :
             (s1 \o <<e>>)[j] = <<e>>[j - Len(s1)]
    BY <1>2, <2>1, TwoParts
  <2>3. (s1 \o <<e>>)[to] = <<e>>[1]
    <3>1. to \in (Len(s1) + 1)..(Len(s1) + Len(<<e>>)) /\ to - Len(s1) = 1
      BY <1>1, <1>2, <2>1
    <3> QED BY <2>2, <3>1
  <2> QED BY <1>1, <1>2, <2>1, <2>2, <2>3
<1> HIDE DEF s3
<1>5. /\ s3 \o s2 \in Seq(S) /\ Len(s3 \o s2) = n + 1
      /\ \A j \in 1..to : (s3 \o s2)[j] = s3[j]
      /\ \A j \in (to + 1)..(n + 1) : (s3 \o s2)[j] = s2[j - to]
  <2>1. /\ s3 \o s2 \in Seq(S) /\ Len(s3 \o s2) = Len(s3) + Len(s2)
        /\ \A j \in 1..Len(s3) : (s3 \o s2)[j] = s3[j]
        /\ \A j \in (Len(s3) + 1)..(Len(s3) + Len(s2)) : (s3 \o s2)[j] = s2[j - Len(s3)]
    BY <1>3, <1>4, TwoParts
  <2>2. Len(s3) + Len(s2) = n + 1
    BY <1>1, <1>3, <1>4
  <2>3. \A j \in (to + 1)..(n + 1) : (s3 \o s2)[j] = s2[j - to]
    BY <1>4, <2>1, <2>2
  <2> QED BY <1>4, <2>1, <2>2, <2>3
<1>6. \A j \in 1..(n + 1) :
        (s3 \o s2)[j] = IF j < to THEN r[j] ELSE IF j = to THEN e ELSE r[j - 1]
  <2> SUFFICES ASSUME NEW j \in 1..(n + 1)
               PROVE  (s3 \o s2)[j] = IF j < to THEN r[j] ELSE IF j = to THEN e ELSE r[j - 1]
    OBVIOUS
  <2>1. CASE j < to
    BY <1>1, <1>2, <1>4, <1>5, <2>1
  <2>2. CASE j = to
    BY <1>1, <1>4, <1>5, <2>2
  <2>3. CASE j > to
    <3>1. j \in (to + 1)..(n + 1) /\ j - to \in 1..(n - to + 1) /\ to + (j - to) - 1 = j - 1
          /\ ~(j < to) /\ j # to
      BY <1>1, <2>3
    <3> QED BY <1>3, <1>5, <3>1
  <2>4. j < to \/ j = to \/ j > to
    BY <1>1
  <2> QED BY <2>1, <2>2, <2>3, <2>4
<1>7. Board!InsertAt(r, to, e) = s3 \o s2
  BY DEF Board!InsertAt, s1, s2, s3
<1> QED BY <1>5, <1>6, <1>7 DEF n

\* Every row is where it moved.
LEMMA RowMoved ==
  ASSUME NEW S, NEW s \in Seq(S), NEW from \in 1..Len(s), NEW to \in 1..Len(s)
  PROVE  LET new == Board!ReorderArr(s, from, to)
         IN  /\ new \in Seq(S) /\ Len(new) = Len(s)
             /\ \A j \in 1..Len(s) : new[j] = s[CameFrom(j, from, to)]
<1> DEFINE r   == Board!RemoveAt(s, from)
           new == Board!InsertAt(r, to, s[from])
           n   == Len(s)
<1>1. n \in Nat /\ from \in 1..n /\ to \in 1..n /\ s[from] \in S
  OBVIOUS
<1>2. /\ r \in Seq(S) /\ Len(r) = n - 1
      /\ \A j \in 1..(n - 1) : r[j] = IF j < from THEN s[j] ELSE s[j + 1]
  BY RowGone
<1> HIDE DEF r
<1>3. /\ new \in Seq(S) /\ Len(new) = n
      /\ \A j \in 1..n :
           new[j] = IF j < to THEN r[j] ELSE IF j = to THEN s[from] ELSE r[j - 1]
  <2>1. Len(r) + 1 = n /\ to \in 1..(Len(r) + 1)
    BY <1>1, <1>2
  <2>2. /\ new \in Seq(S) /\ Len(new) = Len(r) + 1
        /\ \A j \in 1..(Len(r) + 1) :
             new[j] = IF j < to THEN r[j] ELSE IF j = to THEN s[from] ELSE r[j - 1]
    <3>1. PICK e \in S : e = s[from]
      BY <1>1
    <3> DEFINE put == Board!InsertAt(r, to, e)
    <3>2. r \in Seq(S)
      BY <1>2
    <3> HIDE DEF n
    <3>3. put \in Seq(S) /\ Len(put) = Len(r) + 1
      BY <2>1, <3>2, RowPut
    <3>5. \A j \in 1..(Len(r) + 1) :
            put[j] = IF j < to THEN r[j] ELSE IF j = to THEN e ELSE r[j - 1]
      BY <2>1, <3>2, RowPut
    <3>4. put = new
      BY <3>1
    <3> QED BY <3>1, <3>3, <3>4, <3>5
  <2> QED BY <2>1, <2>2
<1> HIDE DEF new, n
<1>4. \A j \in 1..n : new[j] = s[CameFrom(j, from, to)]
  <2> SUFFICES ASSUME NEW j \in 1..n PROVE new[j] = s[CameFrom(j, from, to)]
    OBVIOUS
  <2>1. CASE j < to
    <3>1. j \in 1..(n - 1) /\ j # to
      BY <1>1, <2>1
    <3> QED BY <1>2, <1>3, <2>1, <3>1 DEF CameFrom
  <2>2. CASE j = to
    BY <1>1, <1>3, <2>2 DEF CameFrom
  <2>3. CASE j > to
    <3>1. j - 1 \in 1..(n - 1) /\ j # to /\ ~(j < to) /\ (j - 1) + 1 = j
      BY <1>1, <2>3
    <3>2. new[j] = IF j - 1 < from THEN s[j - 1] ELSE s[j]
      BY <1>2, <1>3, <3>1
    <3> QED BY <3>1, <3>2 DEF CameFrom
  <2> QED BY <1>1, <2>1, <2>2, <2>3
<1> QED BY <1>3, <1>4 DEF Board!ReorderArr, new, r, n

-----------------------------------------------------------------------------
(* Configurations *)

ConfigOk(c) ==
  /\ c = [widgets |-> c.widgets, items |-> c.items]
  /\ Numbered(c.widgets)
  /\ c.items \in [Board!Sections -> Seq(Board!Item)]

AllWidgets(c) == DOMAIN c.widgets = Board!WidgetIds

LEMMA ConfigTyped == ASSUME NEW c, ConfigOk(c) PROVE c \in Board!DashboardConfig
<1>1. c.widgets \in UNION {[S -> Board!Setting] : S \in SUBSET Board!WidgetIds}
  BY DEF ConfigOk, Numbered
<1> QED BY <1>1 DEF ConfigOk, Board!DashboardConfig

LEMMA WithWidgets ==
  ASSUME NEW c, ConfigOk(c), NEW ws, Numbered(ws)
  PROVE  LET d == [c EXCEPT !.widgets = ws]
         IN  ConfigOk(d) /\ d.widgets = ws /\ d.items = c.items
<1>1. [c EXCEPT !.widgets = ws] = [widgets |-> ws, items |-> c.items]
  BY DEF ConfigOk
<1> QED BY <1>1 DEF ConfigOk

LEMMA WithItems ==
  ASSUME NEW c, ConfigOk(c), NEW s \in Board!Sections, NEW items \in Seq(Board!Item)
  PROVE  LET d == [c EXCEPT !.items[s] = items]
         IN  ConfigOk(d) /\ d.widgets = c.widgets
<1>1. [c EXCEPT !.items[s] = items]
        = [widgets |-> c.widgets, items |-> [c.items EXCEPT ![s] = items]]
  <2>1. PICK ws, its : c = [widgets |-> ws, items |-> its]
    BY DEF ConfigOk
  <2> QED BY <2>1
<1>2. [c.items EXCEPT ![s] = items] \in [Board!Sections -> Seq(Board!Item)]
  BY DEF ConfigOk
<1> QED BY <1>1, <1>2 DEF ConfigOk

LEMMA DefaultsOk ==
  /\ ConfigOk(Board!Defaults) /\ ConfigOk(Board!ServerDefaults)
  /\ ConfigOk([Board!Defaults EXCEPT !.widgets = Board!Listed({Head(Widgets)})])
<1>1. Board!NoItems \in [Board!Sections -> Seq(Board!Item)]
  BY DEF Board!NoItems
<1>2. ConfigOk(Board!Defaults)
  BY <1>1, ListedNumbered DEF Board!Defaults, ConfigOk
<1>3. ConfigOk(Board!ServerDefaults)
  BY <1>1, ListedNumbered, BoardConstants DEF Board!ServerDefaults, ConfigOk
<1>4. Numbered(Board!Listed({Head(Widgets)}))
  BY ListedNumbered, BoardConstants
<1> QED BY <1>2, <1>3, <1>4, WithWidgets

LEMMA MergedNumbered ==
  ASSUME NEW ws, Numbered(ws)
  PROVE  /\ Numbered(Board!MergeWidgets(ws))
         /\ DOMAIN Board!MergeWidgets(ws) = Board!WidgetIds
<1>1. CASE DOMAIN ws = {}
  BY <1>1, ListedNumbered DEF Board!MergeWidgets
<1>2. CASE DOMAIN ws # {}
  <2>1. DOMAIN ws \subseteq Board!WidgetIds
    BY DEF Numbered
  <2> QED BY <1>2, <2>1, ExtendedNumbered DEF Board!MergeWidgets
<1> QED BY <1>1, <1>2

LEMMA FetchedOk == ASSUME NEW c, ConfigOk(c) PROVE ConfigOk(Board!Fetched(c))
<1> DEFINE ws == IF DOMAIN c.widgets = {} THEN Board!Listed(ServerWidgets)
                 ELSE Board!Extended(c.widgets, ServerWidgets)
<1>1. Numbered(ws)
  BY ListedNumbered, ExtendedNumbered, BoardConstants DEF ConfigOk
<1>2. Board!Fetched(c) = [c EXCEPT !.widgets = ws]
  BY DEF Board!Fetched
<1> HIDE DEF ws
<1> QED BY <1>1, <1>2, WithWidgets

LEMMA ItemsTyped ==
  ASSUME NEW items \in Seq(Board!Item)
  PROVE  /\ Board!Unused(items) # {} =>
              Append(items, [id |-> Board!FreshId(items), filled |-> FALSE]) \in Seq(Board!Item)
         /\ \A i \in DOMAIN items, b \in BOOLEAN :
              [items EXCEPT ![i].filled = b] \in Seq(Board!Item)
         /\ \A i \in DOMAIN items : Board!RemoveAt(items, i) \in Seq(Board!Item)
         /\ \A i, j \in DOMAIN items : Board!ReorderArr(items, i, j) \in Seq(Board!Item)
<1>1. ASSUME Board!Unused(items) # {}
      PROVE  Append(items, [id |-> Board!FreshId(items), filled |-> FALSE]) \in Seq(Board!Item)
  <2>1. Board!FreshId(items) \in ItemIds
    BY <1>1 DEF Board!FreshId, Board!Unused
  <2>2. [id |-> Board!FreshId(items), filled |-> FALSE] \in Board!Item
    BY <2>1 DEF Board!Item
  <2> QED BY <2>2
<1>2. ASSUME NEW i \in DOMAIN items, NEW b \in BOOLEAN
      PROVE  [items EXCEPT ![i].filled = b] \in Seq(Board!Item)
  <2>1. items[i] \in Board!Item
    OBVIOUS
  <2>2. [items[i] EXCEPT !.filled = b] \in Board!Item
    BY <2>1 DEF Board!Item
  <2> QED BY <2>2
<1>3. DOMAIN items = 1..Len(items)
  OBVIOUS
<1> QED BY <1>1, <1>2, <1>3, RowGone, RowMoved

LEMMA SameOrders ==
  ASSUME NEW ws, Numbered(ws), NEW new \in [DOMAIN ws -> Board!Setting],
         \A w \in DOMAIN ws : new[w].order = ws[w].order
  PROVE  Numbered(new)
  BY DEF Numbered

LEMMA Swapped ==
  ASSUME NEW ws, Numbered(ws), NEW v \in DOMAIN ws, NEW w \in DOMAIN ws
  PROVE  LET new == [ws EXCEPT ![v].order = ws[w].order, ![w].order = ws[v].order]
         IN  Numbered(new) /\ DOMAIN new = DOMAIN ws
<1> DEFINE new == [ws EXCEPT ![v].order = ws[w].order, ![w].order = ws[v].order]
           a == ws[v].order
           b == ws[w].order
<1>1. /\ ws \in [DOMAIN ws -> Board!Setting]
      /\ \A u \in DOMAIN ws : ws[u].order \in 0..(Cardinality(DOMAIN ws) - 1)
      /\ \A t, u \in DOMAIN ws : ws[t].order = ws[u].order => t = u
  BY DEF Numbered
<1>2. a \in 0..(Len(Widgets) - 1) /\ b \in 0..(Len(Widgets) - 1)
  BY <1>1 DEF Board!Setting
<1>3. \A u \in DOMAIN ws, o \in 0..(Len(Widgets) - 1) :
        /\ [ws[u] EXCEPT !.order = o] \in Board!Setting
        /\ [ws[u] EXCEPT !.order = o].order = o
  BY <1>1 DEF Board!Setting
<1> DEFINE mid == [ws EXCEPT ![v].order = b]
<1>4. /\ mid \in [DOMAIN ws -> Board!Setting]
      /\ \A u \in DOMAIN ws : mid[u].order = IF u = v THEN b ELSE ws[u].order
  <2>1. mid = [ws EXCEPT ![v] = [ws[v] EXCEPT !.order = b]]
    OBVIOUS
  <2>2. [ws[v] EXCEPT !.order = b] \in Board!Setting /\ [ws[v] EXCEPT !.order = b].order = b
    BY <1>2, <1>3
  <2> QED BY <1>1, <2>1, <2>2
<1>5. new = [mid EXCEPT ![w] = [mid[w] EXCEPT !.order = a]]
  OBVIOUS
<1> HIDE DEF mid
<1>6. [mid[w] EXCEPT !.order = a] \in Board!Setting /\ [mid[w] EXCEPT !.order = a].order = a
  BY <1>2, <1>4 DEF Board!Setting
<1>7. /\ new \in [DOMAIN ws -> Board!Setting]
      /\ \A u \in DOMAIN ws :
           new[u].order = IF u = w THEN a ELSE IF u = v THEN b ELSE ws[u].order
  BY <1>4, <1>5, <1>6
<1> HIDE DEF new
<1> QED BY <1>1, <1>7 DEF Numbered, new

LEMMA OrdersDistinguish ==
  ASSUME NEW ws, Numbered(ws), NEW ids, ids \subseteq DOMAIN ws
  PROVE  /\ Distinguishes(Board!OrderOf(ws), ids)
         /\ \A w \in DOMAIN ws : Board!OrderOf(ws)[w] = ws[w].order
<1>1. \A w \in DOMAIN ws : Board!OrderOf(ws)[w] = ws[w].order /\ ws[w].order \in Int
  BY DEF Board!OrderOf, Numbered, Board!Setting
<1>2. IsFiniteSet(ids)
  BY SubsetOfWidgets DEF Numbered
<1> QED BY <1>1, <1>2 DEF Distinguishes, Numbered

LEMMA SortedWidgets ==
  ASSUME NEW ws, Numbered(ws)
  PROVE  LET n  == Cardinality(DOMAIN ws)
             at(w) == Board!Before(w, DOMAIN ws, Board!OrderOf(ws)) + 1
         IN  /\ n \in Nat /\ Board!Sorted(ws) \in [1..n -> DOMAIN ws]
             /\ Board!Sorted(ws) \in Seq(DOMAIN ws) /\ Len(Board!Sorted(ws)) = n
             /\ \A w \in DOMAIN ws : at(w) \in 1..n /\ Board!Sorted(ws)[at(w)] = w
             /\ \A i \in 1..n : at(Board!Sorted(ws)[i]) = i
             /\ \A v, w \in DOMAIN ws : ws[v].order < ws[w].order <=> at(v) < at(w)
<1> DEFINE n  == Cardinality(DOMAIN ws)
           rows == Board!Sorted(ws)
           before(w) == Board!Before(w, DOMAIN ws, Board!OrderOf(ws))
<1>1. /\ Distinguishes(Board!OrderOf(ws), DOMAIN ws)
      /\ \A w \in DOMAIN ws : Board!OrderOf(ws)[w] = ws[w].order
  BY OrdersDistinguish
<1>2. /\ n \in Nat /\ rows \in [1..n -> DOMAIN ws]
      /\ \A w \in DOMAIN ws : before(w) + 1 \in 1..n /\ rows[before(w) + 1] = w
      /\ \A i \in 1..n : before(rows[i]) = i - 1
  BY <1>1, InOrderSorts DEF Board!Sorted
<1>3. /\ \A w \in DOMAIN ws : before(w) \in 0..(n - 1)
      /\ \A v, w \in DOMAIN ws : ws[v].order < ws[w].order <=> before(v) < before(w)
  BY <1>1, BeforeCounts
<1> HIDE DEF n, rows, before
<1>4. rows \in Seq(DOMAIN ws) /\ Len(rows) = n
  BY <1>2
<1>5. \A i \in 1..n : before(rows[i]) + 1 = i
  BY <1>2
<1>6. \A v, w \in DOMAIN ws : ws[v].order < ws[w].order <=> before(v) + 1 < before(w) + 1
  <2>1. \A w \in DOMAIN ws : before(w) \in Int
    BY <1>2, <1>3
  <2>2. \A i, j \in Int : i < j <=> i + 1 < j + 1
    OBVIOUS
  <2> QED BY <1>3, <2>1, <2>2
<1> QED BY <1>2, <1>4, <1>5, <1>6 DEF n, rows, before

\* Renumbered by their rows after one has moved, the widgets have places of their own, and
\* the others keep their order.
LEMMA Dropped ==
  ASSUME NEW ws, Numbered(ws), NEW from \in 1..Cardinality(DOMAIN ws),
         NEW to \in 1..Cardinality(DOMAIN ws)
  PROVE  LET new == Board!ReorderArr(Board!Sorted(ws), from, to)
             d   == [w \in DOMAIN ws |-> [ws[w] EXCEPT !.order = Board!Place(w, new) - 1]]
         IN  /\ Numbered(d) /\ DOMAIN d = DOMAIN ws
             /\ \A v, w \in DOMAIN ws \ {Board!Sorted(ws)[from]} :
                  ws[v].order < ws[w].order <=> d[v].order < d[w].order
<1> DEFINE n    == Cardinality(DOMAIN ws)
           rows == Board!Sorted(ws)
           new  == Board!ReorderArr(rows, from, to)
           at(w) == Board!Before(w, DOMAIN ws, Board!OrderOf(ws)) + 1
           to_(i) == MovedTo(i, from, to)
           from_(j) == CameFrom(j, from, to)
           d    == [w \in DOMAIN ws |-> [ws[w] EXCEPT !.order = Board!Place(w, new) - 1]]
<1>1. /\ n \in Nat /\ rows \in Seq(DOMAIN ws) /\ Len(rows) = n
      /\ \A w \in DOMAIN ws : at(w) \in 1..n /\ rows[at(w)] = w
      /\ \A i \in 1..n : at(rows[i]) = i /\ rows[i] \in DOMAIN ws
      /\ \A v, w \in DOMAIN ws : ws[v].order < ws[w].order <=> at(v) < at(w)
  BY SortedWidgets
<1>2. /\ \A i \in 1..n : to_(i) \in 1..n /\ from_(to_(i)) = i
      /\ \A j \in 1..n : from_(j) \in 1..n /\ to_(from_(j)) = j
      /\ \A i, j \in (1..n) \ {from} : to_(i) < to_(j) <=> i < j
  BY <1>1, MovedAndBack
<1>3. new \in Seq(DOMAIN ws) /\ Len(new) = n /\ \A j \in 1..n : new[j] = rows[from_(j)]
  <2>1. from \in 1..Len(rows) /\ to \in 1..Len(rows)
    BY <1>1
  <2> HIDE DEF rows, n
  <2> QED BY <1>1, <2>1, RowMoved
<1>4. /\ n <= Len(Widgets) /\ from \in 1..n
      /\ ws \in [DOMAIN ws -> Board!Setting]
  BY SubsetOfWidgets, BoardConstants DEF Numbered
<1> HIDE DEF n, rows, at, to_, from_, new
<1>5. DOMAIN new = 1..n
  BY <1>3
<1>6. \A w \in DOMAIN ws : Board!Place(w, new) = to_(at(w))
  <2> SUFFICES ASSUME NEW w \in DOMAIN ws PROVE Board!Place(w, new) = to_(at(w))
    OBVIOUS
  <2>1. to_(at(w)) \in 1..n /\ new[to_(at(w))] = w
    BY <1>1, <1>2, <1>3
  <2>2. \A j \in 1..n : new[j] = w => j = to_(at(w))
    BY <1>1, <1>2, <1>3
  <2> QED BY <1>5, <2>1, <2>2 DEF Board!Place
<1>7. \A w \in DOMAIN ws : to_(at(w)) - 1 \in 0..(n - 1) /\ to_(at(w)) \in 1..n
  <2>1. \A w \in DOMAIN ws : to_(at(w)) \in 1..n
    BY <1>1, <1>2
  <2>2. \A i \in 1..n : i - 1 \in 0..(n - 1)
    BY <1>1
  <2> QED BY <2>1, <2>2
<1>8. \A w \in DOMAIN ws : d[w] \in Board!Setting /\ d[w].order = to_(at(w)) - 1
  <2> SUFFICES ASSUME NEW w \in DOMAIN ws
               PROVE  d[w] \in Board!Setting /\ d[w].order = to_(at(w)) - 1
    OBVIOUS
  <2>1. d[w] = [ws[w] EXCEPT !.order = to_(at(w)) - 1]
    BY <1>6
  <2>2. to_(at(w)) - 1 \in 0..(Len(Widgets) - 1)
    BY <1>1, <1>4, <1>7, BoardConstants
  <2> HIDE DEF d
  <2> QED BY <1>4, <2>1, <2>2 DEF Board!Setting
<1>9. d \in [DOMAIN ws -> Board!Setting]
  BY <1>8
<1> HIDE DEF d
<1>10. \A v, w \in DOMAIN ws : d[v].order = d[w].order => v = w
  <2> SUFFICES ASSUME NEW v \in DOMAIN ws, NEW w \in DOMAIN ws, d[v].order = d[w].order
               PROVE  v = w
    OBVIOUS
  <2>1. to_(at(v)) = to_(at(w))
    BY <1>1, <1>7, <1>8
  <2> QED BY <1>1, <1>2, <2>1
<1>11. Numbered(d) /\ DOMAIN d = DOMAIN ws
  BY <1>7, <1>8, <1>9, <1>10 DEF Numbered, n
<1>12. \A v, w \in DOMAIN ws \ {rows[from]} :
         ws[v].order < ws[w].order <=> d[v].order < d[w].order
  <2> SUFFICES ASSUME NEW v \in DOMAIN ws \ {rows[from]}, NEW w \in DOMAIN ws \ {rows[from]}
               PROVE  ws[v].order < ws[w].order <=> d[v].order < d[w].order
    OBVIOUS
  <2>1. at(v) \in (1..n) \ {from} /\ at(w) \in (1..n) \ {from}
    BY <1>1, <1>4
  <2>2. d[v].order < d[w].order <=> to_(at(v)) < to_(at(w))
    <3>1. d[v].order = to_(at(v)) - 1 /\ d[w].order = to_(at(w)) - 1
      BY <1>8
    <3>2. to_(at(v)) \in Int /\ to_(at(w)) \in Int
      BY <1>1, <1>7
    <3> QED BY <3>1, <3>2
  <2> QED BY <1>1, <1>2, <2>1, <2>2
<1> QED BY <1>11, <1>12 DEF d, new, rows

\* The rows of the list in the editor
Offered == {w \in DOMAIN dashEdit.widgets : Board!Available(w)}

LEMMA RowsAre ==
  ASSUME NEW ws, Numbered(ws), NEW ids, ids \subseteq DOMAIN ws
  PROVE  LET n    == Cardinality(ids)
             rows == Board!InOrder(ids, Board!OrderOf(ws))
         IN  /\ n \in Nat /\ IsFiniteSet(ids) /\ n <= Cardinality(DOMAIN ws)
             /\ rows \in [1..n -> ids] /\ Len(rows) = n /\ DOMAIN rows = 1..n
             /\ n = Cardinality(DOMAIN ws) => rows = Board!Sorted(ws)
<1> DEFINE n    == Cardinality(ids)
           rows == Board!InOrder(ids, Board!OrderOf(ws))
<1>1. Distinguishes(Board!OrderOf(ws), ids) /\ IsFiniteSet(DOMAIN ws)
  BY OrdersDistinguish, SubsetOfWidgets DEF Numbered
<1>2. /\ IsFiniteSet(ids) /\ n <= Cardinality(DOMAIN ws)
      /\ n = Cardinality(DOMAIN ws) => ids = DOMAIN ws
  BY <1>1, FS_Subset
<1>3. n \in Nat /\ rows \in [1..n -> ids]
  BY <1>1, InOrderSorts
<1>4. n = Cardinality(DOMAIN ws) => rows = Board!Sorted(ws)
  BY <1>2 DEF Board!Sorted
<1> HIDE DEF n, rows
<1>5. Len(rows) = n /\ DOMAIN rows = 1..n
  BY <1>3
<1> QED BY <1>2, <1>3, <1>4, <1>5 DEF n, rows

LEMMA RowsOffered ==
  /\ Board!Rows = Board!InOrder(Offered, Board!OrderOf(dashEdit.widgets))
  /\ Offered \subseteq DOMAIN dashEdit.widgets
  BY DEF Board!Rows, Offered

-----------------------------------------------------------------------------
(* The steps of the dashboard *)

\* A row that is dragged is one of those in the editor.
DragInRows ==
  Board!Editing /\ dashDrag # Board!NoDrag =>
    /\ dashDrag.section \in {"widgets", "quickLinks", "pinnedEntities"}
    /\ dashDrag.from \in DOMAIN Board!Draggable(dashDrag.section)

\* What is under way is a configuration until it has been refused.
SaveOk(save) ==
  /\ save.phase \in {"idle", "sent", "stored", "failed"}
  /\ save.config = Absent \/ ConfigOk(save.config)
  /\ save.phase \in {"sent", "stored"} => ConfigOk(save.config)
  /\ save = [phase |-> save.phase, config |-> save.config]

EditOk == dashEdit = Absent \/ (ConfigOk(dashEdit) /\ AllWidgets(dashEdit))

BoardInv ==
  /\ dashLoad \in {"sent", "ok", "failed"}
  /\ dashConfig = Absent \/ ConfigOk(dashConfig)
  /\ dashData \subseteq Board!WidgetIds
  /\ dashStatus \in BOOLEAN
  /\ EditOk
  /\ dashLoad = "sent" => dashEdit = Absent
  /\ SaveOk(dashSave)
  /\ dashDrag \in [section : Board!Sections \cup {"widgets", "none"}, from : Nat]
  /\ ConfigOk(dashStored)
  /\ dashInputs \in 0..MaxDashInputs
  /\ DragInRows

LEMMA BoardInit == Board!Init => BoardInv
<1> SUFFICES ASSUME Board!Init PROVE BoardInv
  OBVIOUS
<1>1. ConfigOk(dashStored)
  BY DefaultsOk DEF Board!Init
<1>2. SaveOk(dashSave)
  BY DEF Board!Init, Board!NoSave, SaveOk
<1>3. dashDrag \in [section : Board!Sections \cup {"widgets", "none"}, from : Nat]
  BY DEF Board!Init, Board!NoDrag
<1> QED
  BY <1>1, <1>2, <1>3, BoardConstants DEF Board!Init, BoardInv, EditOk, DragInRows, Board!Editing

\* Nothing is dragged that what follows does not have.
LEMMA NothingDragged ==
  dashDrag' = Board!NoDrag \/ dashEdit' = Absent => DragInRows'
  BY DEF DragInRows, Board!Editing, Board!NoDrag

LEMMA SameRows ==
  ASSUME UNCHANGED <<dashEdit, dashData>>
  PROVE  /\ Board!Rows' = Board!Rows
         /\ \A s : Board!Draggable(s)' = Board!Draggable(s)
<1>1. Board!Rows' = Board!Rows
  BY DEF Board!Rows, Board!Available
<1> QED BY <1>1 DEF Board!Draggable

LEMMA SameDrag ==
  ASSUME DragInRows, UNCHANGED <<dashEdit, dashData, dashDrag>> PROVE DragInRows'
<1>1. DOMAIN Board!Draggable(dashDrag.section)' = DOMAIN Board!Draggable(dashDrag.section)
  BY SameRows
<1> QED BY <1>1 DEF DragInRows, Board!Editing, Board!NoDrag

\* More is offered when more data is there.
LEMMA MoreRows ==
  ASSUME BoardInv, dashData \subseteq dashData', UNCHANGED <<dashEdit, dashDrag>>
  PROVE  DragInRows'
<1>1. CASE dashEdit = Absent
  BY <1>1, NothingDragged
<1>2. CASE dashEdit # Absent
  <2>1. PICK ws : ws = dashEdit.widgets /\ Numbered(ws)
    BY <1>2 DEF BoardInv, EditOk, ConfigOk
  <2>2. /\ Offered \subseteq Offered' /\ Offered \subseteq DOMAIN ws /\ Offered' \subseteq DOMAIN ws
        /\ Board!Rows = Board!InOrder(Offered, Board!OrderOf(ws))
        /\ Board!Rows' = Board!InOrder(Offered', Board!OrderOf(ws))
    BY <2>1 DEF Offered, Board!Available, Board!Rows
  <2> HIDE DEF Offered
  <2>3. /\ Cardinality(Offered) \in Nat /\ DOMAIN Board!Rows = 1..Cardinality(Offered)
        /\ Cardinality(Offered') \in Nat /\ IsFiniteSet(Offered')
        /\ DOMAIN Board!Rows' = 1..Cardinality(Offered')
    BY <2>1, <2>2, RowsAre
  <2>4. Cardinality(Offered) <= Cardinality(Offered')
    BY <2>2, <2>3, FS_Subset
  <2>5. DOMAIN Board!Rows \subseteq DOMAIN Board!Rows'
    BY <2>3, <2>4
  <2>6. \A s : DOMAIN Board!Draggable(s) \subseteq DOMAIN Board!Draggable(s)'
    BY <2>5 DEF Board!Draggable
  <2> QED BY <2>6 DEF BoardInv, DragInRows, Board!Editing, Board!NoDrag
<1> QED BY <1>1, <1>2

LEMMA AnswersKeep ==
  ASSUME BoardInv, Board!AnswerLoad \/ Board!AnswerStatus \/ Board!AnswerPlugin PROVE BoardInv'
<1>1. CASE Board!AnswerLoad
  <2>1. /\ dashEdit = Absent /\ dashLoad' \in {"ok", "failed"}
        /\ UNCHANGED <<dashStatus, dashEdit, dashSave, dashDrag, dashStored, dashInputs>>
    BY <1>1 DEF Board!AnswerLoad, BoardInv
  <2>2. dashConfig' = dashConfig \/ dashConfig' \in {Board!Fetched(dashStored), Board!Defaults}
    BY <1>1 DEF Board!AnswerLoad
  <2>3. dashConfig' = Absent \/ ConfigOk(dashConfig')
    BY <2>2, DefaultsOk, FetchedOk DEF BoardInv
  <2>4. dashData' \subseteq Board!WidgetIds
    BY <1>1 DEF Board!AnswerLoad, BoardInv
  <2> QED BY <2>1, <2>3, <2>4, NothingDragged DEF BoardInv, EditOk
<1>2. CASE Board!AnswerStatus \/ Board!AnswerPlugin
  <2>1. /\ UNCHANGED <<dashLoad, dashConfig, dashEdit, dashSave, dashDrag, dashStored, dashInputs>>
        /\ dashStatus' \in {dashStatus, FALSE}
        /\ dashData \subseteq dashData' /\ dashData' \subseteq Board!WidgetIds
    BY <1>2 DEF Board!AnswerStatus, Board!AnswerPlugin, BoardInv
  <2> QED BY <2>1, MoreRows DEF BoardInv, EditOk
<1> QED BY <1>1, <1>2

LEMMA EditorKeeps ==
  ASSUME BoardInv, Board!EnterEditMode \/ Board!CancelEdit PROVE BoardInv'
<1>1. /\ dashDrag = Board!NoDrag /\ dashInputs < MaxDashInputs /\ dashInputs' = dashInputs + 1
      /\ UNCHANGED <<dashLoad, dashConfig, dashData, dashStatus, dashSave, dashDrag, dashStored>>
  BY DEF Board!EnterEditMode, Board!CancelEdit, Board!Press, Board!Input
<1>2. dashInputs' \in 0..MaxDashInputs
  BY <1>1, BoardConstants DEF BoardInv
<1>3. EditOk' /\ (dashLoad' = "sent" => dashEdit' = Absent)
  <2>1. CASE Board!EnterEditMode
    <3>1. /\ dashLoad # "sent" /\ ConfigOk(dashConfig)
          /\ dashEdit' = [dashConfig EXCEPT !.widgets = Board!MergeWidgets(dashConfig.widgets)]
      BY <2>1 DEF Board!EnterEditMode, Board!Viewing, BoardInv
    <3>2. /\ Numbered(Board!MergeWidgets(dashConfig.widgets))
          /\ DOMAIN Board!MergeWidgets(dashConfig.widgets) = Board!WidgetIds
      BY <3>1, MergedNumbered DEF ConfigOk
    <3> QED BY <1>1, <3>1, <3>2, WithWidgets DEF EditOk, AllWidgets
  <2>2. CASE Board!CancelEdit
    BY <2>2 DEF Board!CancelEdit, EditOk
  <2> QED BY <2>1, <2>2
<1> QED BY <1>1, <1>2, <1>3, NothingDragged DEF BoardInv

LEMMA SavesKeep ==
  ASSUME BoardInv,
         Board!SaveEdit \/ Board!SetDashboardConfig \/ Board!OtherSave \/ Board!ReceiveSave
  PROVE  BoardInv'
<1>1. CASE Board!SaveEdit
  <2>1. /\ dashInputs < MaxDashInputs /\ dashInputs' = dashInputs + 1 /\ ConfigOk(dashEdit)
        /\ dashSave' = [phase |-> "sent", config |-> dashEdit]
        /\ UNCHANGED <<dashLoad, dashConfig, dashData, dashStatus, dashEdit, dashDrag, dashStored>>
    BY <1>1 DEF Board!SaveEdit, Board!Press, Board!Input, Board!Editing, BoardInv, EditOk
  <2>2. dashInputs' \in 0..MaxDashInputs
    BY <2>1, BoardConstants DEF BoardInv
  <2>3. SaveOk(dashSave')
    BY <2>1 DEF SaveOk
  <2> QED BY <2>1, <2>2, <2>3, SameDrag DEF BoardInv, EditOk
<1>2. CASE Board!SetDashboardConfig
  <2>1. /\ UNCHANGED <<dashLoad, dashConfig, dashData, dashStatus, dashEdit, dashDrag, dashInputs>>
        /\ dashStored' \in {dashStored, dashSave.config} /\ dashSave.phase = "sent"
        /\ \E phase \in {"stored", "failed"} : dashSave' = [dashSave EXCEPT !.phase = phase]
    BY <1>2 DEF Board!SetDashboardConfig
  <2>2. ConfigOk(dashSave.config)
    BY <2>1 DEF BoardInv, SaveOk
  <2>3. SaveOk(dashSave')
    BY <2>1, <2>2 DEF BoardInv, SaveOk
  <2> QED BY <2>1, <2>2, <2>3, SameDrag DEF BoardInv, EditOk
<1>3. CASE Board!OtherSave
  <2>1. /\ dashInputs < MaxDashInputs /\ dashInputs' = dashInputs + 1
        /\ dashStored' = Board!ServerDefaults
        /\ UNCHANGED <<dashLoad, dashConfig, dashData, dashStatus, dashEdit, dashSave, dashDrag>>
    BY <1>3 DEF Board!OtherSave, Board!Input
  <2>2. dashInputs' \in 0..MaxDashInputs /\ ConfigOk(dashStored')
    BY <2>1, BoardConstants, DefaultsOk DEF BoardInv
  <2> QED BY <2>1, <2>2, SameDrag DEF BoardInv, EditOk
<1>4. CASE Board!ReceiveSave
  <2>1. /\ UNCHANGED <<dashLoad, dashData, dashStatus, dashDrag, dashStored, dashInputs>>
        /\ dashSave' = Board!NoSave
        /\ \/ dashConfig' = Board!Fetched(dashStored) /\ dashEdit' = Absent
           \/ UNCHANGED <<dashConfig, dashEdit>>
    BY <1>4 DEF Board!ReceiveSave
  <2>2. SaveOk(dashSave')
    BY <2>1 DEF SaveOk, Board!NoSave
  <2>3. ConfigOk(Board!Fetched(dashStored))
    BY FetchedOk DEF BoardInv
  <2>4. DragInRows'
    BY <2>1, NothingDragged, SameDrag DEF BoardInv
  <2> QED BY <2>1, <2>2, <2>3, <2>4 DEF BoardInv, EditOk
<1> QED BY <1>1, <1>2, <1>3, <1>4

-----------------------------------------------------------------------------
(* The edits *)

LEMMA EditKeeps ==
  ASSUME BoardInv, NEW c, ConfigOk(c), AllWidgets(c), Board!Edit(c)
  PROVE  BoardInv' /\ dashDrag = Board!NoDrag
<1>1. /\ dashDrag = Board!NoDrag /\ dashDrag' = dashDrag /\ dashEdit' = c
      /\ dashInputs < MaxDashInputs /\ dashInputs' = dashInputs + 1 /\ dashEdit # Absent
      /\ UNCHANGED <<dashLoad, dashConfig, dashData, dashStatus, dashSave, dashStored>>
  BY DEF Board!Edit, Board!Press, Board!Input, Board!Change, Board!Editing
<1>2. dashInputs' \in 0..MaxDashInputs
  BY <1>1, BoardConstants DEF BoardInv
<1>3. EditOk'
  BY <1>1 DEF EditOk
<1>4. dashLoad # "sent" /\ DragInRows'
  BY <1>1, NothingDragged DEF BoardInv
<1> QED BY <1>1, <1>2, <1>3, <1>4 DEF BoardInv

LEMMA EditWidgetsKeeps ==
  ASSUME BoardInv, Board!Editing, NEW ws, Numbered(ws), DOMAIN ws = Board!WidgetIds,
         Board!EditWidgets(ws)
  PROVE  BoardInv' /\ dashDrag = Board!NoDrag
<1> DEFINE c == [dashEdit EXCEPT !.widgets = ws]
<1>1. PICK e : e = dashEdit /\ ConfigOk(e)
  BY DEF BoardInv, EditOk, Board!Editing
<1>2. ConfigOk([e EXCEPT !.widgets = ws]) /\ AllWidgets([e EXCEPT !.widgets = ws])
  BY <1>1, WithWidgets DEF AllWidgets
<1>3. Board!Edit([e EXCEPT !.widgets = ws])
  BY <1>1 DEF Board!EditWidgets
<1> QED BY <1>2, <1>3, EditKeeps

LEMMA EditItemsKeeps ==
  ASSUME BoardInv, Board!Editing, NEW s \in Board!Sections, NEW items \in Seq(Board!Item),
         Board!EditItems(s, items)
  PROVE  BoardInv' /\ dashDrag = Board!NoDrag
<1>1. PICK e : e = dashEdit /\ ConfigOk(e) /\ AllWidgets(e)
  BY DEF BoardInv, EditOk, Board!Editing
<1>2. ConfigOk([e EXCEPT !.items[s] = items]) /\ AllWidgets([e EXCEPT !.items[s] = items])
  BY <1>1, WithItems DEF AllWidgets
<1>3. Board!Edit([e EXCEPT !.items[s] = items])
  BY <1>1 DEF Board!EditItems
<1> QED BY <1>2, <1>3, EditKeeps

\* What the editor holds
LEMMA Edited ==
  ASSUME BoardInv, Board!Editing
  PROVE  /\ Numbered(dashEdit.widgets) /\ DOMAIN dashEdit.widgets = Board!WidgetIds
         /\ \A row \in DOMAIN Board!Rows : Board!Rows[row] \in DOMAIN dashEdit.widgets
         /\ \A s \in Board!Sections : dashEdit.items[s] \in Seq(Board!Item)
<1>1. ConfigOk(dashEdit) /\ AllWidgets(dashEdit)
  BY DEF BoardInv, EditOk, Board!Editing
<1>2. Numbered(dashEdit.widgets)
  BY <1>1 DEF ConfigOk
<1>3. \A row \in DOMAIN Board!Rows : Board!Rows[row] \in DOMAIN dashEdit.widgets
  BY <1>2, RowsOffered, RowsAre
<1> QED BY <1>1, <1>2, <1>3 DEF ConfigOk, AllWidgets

LEMMA TogglesKeep ==
  ASSUME BoardInv, Board!Editing, NEW w \in DOMAIN dashEdit.widgets,
         Board!ToggleWidgetVisible(w) \/ Board!ToggleWidgetWidth(w)
  PROVE  BoardInv' /\ dashDrag = Board!NoDrag
<1>1. PICK ws : ws = dashEdit.widgets /\ Numbered(ws) /\ DOMAIN ws = Board!WidgetIds
  BY Edited
<1>2. ws \in [DOMAIN ws -> Board!Setting] /\ w \in DOMAIN ws
  BY <1>1 DEF Numbered
<1>3. ws[w] \in Board!Setting
  BY <1>2
<1> DEFINE shown == [ws EXCEPT ![w].visible = ~@]
           wide  == [ws EXCEPT ![w].half = ~@]
<1>4. /\ [ws[w] EXCEPT !.visible = ~@] \in Board!Setting
      /\ [ws[w] EXCEPT !.visible = ~@].order = ws[w].order
      /\ [ws[w] EXCEPT !.half = ~@] \in Board!Setting
      /\ [ws[w] EXCEPT !.half = ~@].order = ws[w].order
  BY <1>3 DEF Board!Setting
<1>5. /\ shown = [ws EXCEPT ![w] = [ws[w] EXCEPT !.visible = ~@]]
      /\ wide = [ws EXCEPT ![w] = [ws[w] EXCEPT !.half = ~@]]
  OBVIOUS
<1>6. /\ shown \in [DOMAIN ws -> Board!Setting] /\ \A v \in DOMAIN ws : shown[v].order = ws[v].order
      /\ wide \in [DOMAIN ws -> Board!Setting] /\ \A v \in DOMAIN ws : wide[v].order = ws[v].order
  BY <1>2, <1>4, <1>5
<1>7. Board!EditWidgets(shown) \/ Board!EditWidgets(wide)
  BY <1>1 DEF Board!ToggleWidgetVisible, Board!ToggleWidgetWidth
<1> HIDE DEF shown, wide
<1>8. Numbered(shown) /\ Numbered(wide)
  BY <1>1, <1>6, SameOrders
<1>9. DOMAIN shown = Board!WidgetIds /\ DOMAIN wide = Board!WidgetIds
  BY <1>1, <1>6
<1> QED BY <1>7, <1>8, <1>9, EditWidgetsKeeps

LEMMA MoveKeeps ==
  ASSUME BoardInv, Board!Editing, NEW w \in DOMAIN dashEdit.widgets, NEW by \in {-1, 1},
         Board!MoveWidget(w, by)
  PROVE  BoardInv' /\ dashDrag = Board!NoDrag
<1>1. PICK ws : ws = dashEdit.widgets /\ Numbered(ws) /\ DOMAIN ws = Board!WidgetIds
  BY Edited
<1> DEFINE rows == Board!Sorted(ws)
           other == rows[Board!Place(w, rows) + by]
<1>2. /\ Board!Place(w, rows) + by \in DOMAIN rows
      /\ Board!EditWidgets([ws EXCEPT ![w].order = ws[other].order, ![other].order = ws[w].order])
  BY <1>1 DEF Board!MoveWidget
<1>3. \A i \in DOMAIN rows : rows[i] \in DOMAIN ws
  BY <1>1, SortedWidgets
<1>4. other \in DOMAIN ws
  BY <1>2, <1>3
<1> HIDE DEF other
<1> DEFINE new == [ws EXCEPT ![w].order = ws[other].order, ![other].order = ws[w].order]
<1>5. w \in DOMAIN ws
  BY <1>1
<1>6. Numbered(new) /\ DOMAIN new = DOMAIN ws
  BY <1>1, <1>4, <1>5, Swapped
<1>7. Board!EditWidgets(new)
  BY <1>2 DEF other
<1> HIDE DEF new
<1> QED BY <1>1, <1>6, <1>7, EditWidgetsKeeps

LEMMA ButtonsKeep ==
  ASSUME BoardInv, Board!Editing, Board!WidgetButtons PROVE BoardInv' /\ dashDrag = Board!NoDrag
<1>1. PICK row \in DOMAIN Board!Rows :
        \/ Board!ToggleWidgetVisible(Board!Rows[row]) \/ Board!ToggleWidgetWidth(Board!Rows[row])
        \/ Board!MoveWidget(Board!Rows[row], -1) \/ Board!MoveWidget(Board!Rows[row], 1)
  BY DEF Board!WidgetButtons
<1>2. Board!Rows[row] \in DOMAIN dashEdit.widgets
  BY Edited
<1> QED BY <1>1, <1>2, TogglesKeep, MoveKeeps

LEMMA ItemKeeps ==
  ASSUME BoardInv, Board!Editing, NEW s \in Board!Sections,
         \/ Board!AddItem(s)
         \/ \E i \in DOMAIN dashEdit.items[s] :
              Board!RemoveItem(s, i) \/ \E b \in BOOLEAN : Board!FillItem(s, i, b)
  PROVE  BoardInv' /\ dashDrag = Board!NoDrag
<1>1. PICK items \in Seq(Board!Item) : items = dashEdit.items[s]
  BY Edited
<1>2. CASE Board!AddItem(s)
  BY <1>1, <1>2, ItemsTyped, EditItemsKeeps DEF Board!AddItem
<1>3. ASSUME NEW i \in DOMAIN items, Board!RemoveItem(s, i)
      PROVE  BoardInv' /\ dashDrag = Board!NoDrag
  BY <1>1, <1>3, ItemsTyped, EditItemsKeeps DEF Board!RemoveItem
<1>4. ASSUME NEW i \in DOMAIN items, NEW b \in BOOLEAN, Board!FillItem(s, i, b)
      PROVE  BoardInv' /\ dashDrag = Board!NoDrag
  BY <1>1, <1>4, ItemsTyped, EditItemsKeeps DEF Board!FillItem
<1> QED BY <1>1, <1>2, <1>3, <1>4

LEMMA ItemsKeep ==
  ASSUME BoardInv, Board!Editing,
         Board!EditAnnouncements \/ Board!EditQuickLinks \/ Board!EditPinnedEntities
  PROVE  BoardInv' /\ dashDrag = Board!NoDrag
<1>1. \E s \in Board!Sections :
        \/ Board!AddItem(s)
        \/ \E i \in DOMAIN dashEdit.items[s] :
             Board!RemoveItem(s, i) \/ \E b \in BOOLEAN : Board!FillItem(s, i, b)
  BY Zenon DEF Board!EditAnnouncements, Board!EditQuickLinks, Board!EditPinnedEntities,
         Board!AddAnnouncement, Board!UpdateAnnouncement, Board!RemoveAnnouncement,
         Board!AddQuickLink, Board!UpdateQuickLink, Board!RemoveQuickLink,
         Board!AddPinnedEntity, Board!UpdatePinnedEntity, Board!EntityPicker,
         Board!RemovePinnedEntity, Board!Sections
<1> QED BY <1>1, ItemKeeps

-----------------------------------------------------------------------------
(* The drags *)

LEMMA DragStartKeeps == ASSUME BoardInv, Board!OnDragStart PROVE BoardInv'
<1>1. /\ Board!Editing /\ dashInputs < MaxDashInputs /\ dashInputs' = dashInputs + 1
      /\ UNCHANGED <<dashLoad, dashConfig, dashData, dashStatus, dashEdit, dashSave, dashStored>>
  BY DEF Board!OnDragStart, Board!Press, Board!Input
<1>2. PICK s \in {"widgets", "quickLinks", "pinnedEntities"} :
        \E row \in DOMAIN Board!Draggable(s) : dashDrag' = [section |-> s, from |-> row]
  BY DEF Board!OnDragStart
<1>3. PICK row \in DOMAIN Board!Draggable(s) : dashDrag' = [section |-> s, from |-> row]
  BY <1>2
<1>4. row \in Nat
  <2>1. CASE s = "widgets"
    <3>1. DOMAIN Board!Rows = 1..Cardinality(Offered) /\ Cardinality(Offered) \in Nat
      BY <1>1, Edited, RowsOffered, RowsAre
    <3> QED BY <1>3, <2>1, <3>1 DEF Board!Draggable
  <2>2. CASE s # "widgets"
    <3>1. s \in Board!Sections /\ Board!Draggable(s) = dashEdit.items[s]
      BY <1>2, <2>2 DEF Board!Draggable, Board!Sections
    <3>2. PICK items \in Seq(Board!Item) : items = Board!Draggable(s)
      BY <1>1, <3>1, Edited
    <3> QED BY <1>3, <3>2
  <2> QED BY <2>1, <2>2
<1>5. dashDrag' \in [section : Board!Sections \cup {"widgets", "none"}, from : Nat]
  BY <1>3, <1>4 DEF Board!Sections
<1>6. DragInRows'
  <2>1. DOMAIN Board!Draggable(s)' = DOMAIN Board!Draggable(s)
    BY <1>1, SameRows
  <2>2. dashDrag'.section = s /\ dashDrag'.from = row
    BY <1>3
  <2>3. dashDrag'.section \in {"widgets", "quickLinks", "pinnedEntities"}
        /\ dashDrag'.from \in DOMAIN Board!Draggable(dashDrag.section)'
    BY <1>3, <2>1, <2>2
  <2> QED BY <2>3 DEF DragInRows
<1>7. dashInputs' \in 0..MaxDashInputs
  BY <1>1, BoardConstants DEF BoardInv
<1> QED BY <1>1, <1>5, <1>6, <1>7 DEF BoardInv, EditOk

\* A row that is dropped on one of the list goes there, and no other.
LEMMA WidgetDropped ==
  ASSUME BoardInv, Board!Editing, dashDrag # Board!NoDrag, dashDrag.section = "widgets",
         NEW to \in DOMAIN Board!Rows, Board!DropWidget(to)
  PROVE  /\ ConfigOk(dashEdit') /\ AllWidgets(dashEdit')
         /\ UNCHANGED <<dashLoad, dashConfig, dashData, dashStatus, dashSave, dashStored>>
         /\ Len(Board!Rows) = Len(Widgets) =>
              \A v, w \in Board!WidgetIds \ {Board!Rows[dashDrag.from]} :
                dashEdit.widgets[v].order < dashEdit.widgets[w].order
                  <=> dashEdit'.widgets[v].order < dashEdit'.widgets[w].order
<1>1. PICK ws : ws = dashEdit.widgets /\ Numbered(ws) /\ DOMAIN ws = Board!WidgetIds
  BY Edited
<1>2. PICK from : from = dashDrag.from /\ from \in DOMAIN Board!Rows
  BY DEF BoardInv, DragInRows, Board!Draggable
<1> DEFINE n == Cardinality(DOMAIN ws)
<1>3. /\ n \in Nat /\ n = Len(Widgets)
      /\ Board!Rows = Board!InOrder(Offered, Board!OrderOf(ws)) /\ Offered \subseteq DOMAIN ws
  BY <1>1, BoardConstants, RowsOffered
<1>4. /\ DOMAIN Board!Rows = 1..Cardinality(Offered) /\ Len(Board!Rows) = Cardinality(Offered)
      /\ Cardinality(Offered) \in Nat /\ Cardinality(Offered) <= n
      /\ Cardinality(Offered) = n => Board!Rows = Board!Sorted(ws)
  BY <1>1, <1>3, RowsAre
<1>5. from \in 1..n /\ to \in 1..n
  BY <1>2, <1>3, <1>4
<1> DEFINE new == Board!ReorderArr(Board!Sorted(ws), from, to)
           d   == [w \in DOMAIN ws |-> [ws[w] EXCEPT !.order = Board!Place(w, new) - 1]]
<1>6. /\ Numbered(d) /\ DOMAIN d = DOMAIN ws
      /\ \A v, w \in DOMAIN ws \ {Board!Sorted(ws)[from]} :
           ws[v].order < ws[w].order <=> d[v].order < d[w].order
  BY <1>1, <1>5, Dropped
<1>7. /\ dashEdit' = [dashEdit EXCEPT !.widgets = d]
      /\ UNCHANGED <<dashLoad, dashConfig, dashData, dashStatus, dashSave, dashStored>>
  BY <1>1, <1>2 DEF Board!DropWidget, Board!Change
<1> HIDE DEF d
<1>8. ConfigOk(dashEdit)
  BY DEF BoardInv, EditOk, Board!Editing
<1>9. ConfigOk(dashEdit') /\ dashEdit'.widgets = d
  BY <1>6, <1>7, <1>8, WithWidgets
<1>10. AllWidgets(dashEdit')
  BY <1>1, <1>6, <1>9 DEF AllWidgets
<1>11. ASSUME Len(Board!Rows) = Len(Widgets)
       PROVE  \A v, w \in Board!WidgetIds \ {Board!Rows[dashDrag.from]} :
                dashEdit.widgets[v].order < dashEdit.widgets[w].order
                  <=> dashEdit'.widgets[v].order < dashEdit'.widgets[w].order
  <2>1. Board!Rows[dashDrag.from] = Board!Sorted(ws)[from]
    BY <1>2, <1>3, <1>4, <1>11
  <2> QED BY <1>1, <1>6, <1>9, <2>1
<1> QED BY <1>7, <1>9, <1>10, <1>11

LEMMA ItemDropped ==
  ASSUME BoardInv, Board!Editing, dashDrag # Board!NoDrag, dashDrag.section # "widgets",
         NEW to \in DOMAIN Board!Draggable(dashDrag.section),
         Board!DropItem(dashDrag.section, to)
  PROVE  /\ ConfigOk(dashEdit') /\ AllWidgets(dashEdit')
         /\ UNCHANGED <<dashLoad, dashConfig, dashData, dashStatus, dashSave, dashStored>>
<1>1. PICK e : e = dashEdit /\ ConfigOk(e) /\ AllWidgets(e)
  BY DEF BoardInv, EditOk, Board!Editing
<1>2. PICK s : /\ s = dashDrag.section /\ s \in {"quickLinks", "pinnedEntities"}
               /\ Board!Draggable(s) = e.items[s] /\ dashDrag.from \in DOMAIN e.items[s]
               /\ to \in DOMAIN e.items[s]
  BY <1>1 DEF BoardInv, DragInRows, Board!Draggable
<1>3. PICK from : from = dashDrag.from
  OBVIOUS
<1>4. s \in Board!Sections /\ e.items[s] \in Seq(Board!Item)
  BY <1>1, <1>2 DEF ConfigOk, Board!Sections
<1> DEFINE items == Board!ReorderArr(e.items[s], from, to)
<1>5. items \in Seq(Board!Item)
  BY <1>2, <1>3, <1>4, ItemsTyped
<1>6. /\ dashEdit' = [e EXCEPT !.items[s] = items]
      /\ UNCHANGED <<dashLoad, dashConfig, dashData, dashStatus, dashSave, dashStored>>
  BY <1>1, <1>2, <1>3 DEF Board!DropItem, Board!Change
<1> HIDE DEF items
<1> QED BY <1>1, <1>4, <1>5, <1>6, WithItems DEF AllWidgets

LEMMA DropKeeps == ASSUME BoardInv, Board!OnDrop PROVE BoardInv'
<1>1. /\ Board!Editing /\ dashDrag # Board!NoDrag /\ dashDrag' = Board!NoDrag
      /\ UNCHANGED dashInputs
  BY DEF Board!OnDrop
<1>2. /\ ConfigOk(dashEdit') /\ AllWidgets(dashEdit')
      /\ UNCHANGED <<dashLoad, dashConfig, dashData, dashStatus, dashSave, dashStored>>
  BY <1>1, WidgetDropped, ItemDropped DEF Board!OnDrop, Board!Draggable
<1>3. dashDrag' \in [section : Board!Sections \cup {"widgets", "none"}, from : Nat]
  BY <1>1 DEF Board!NoDrag
<1>4. dashLoad # "sent"
  BY <1>1 DEF BoardInv, Board!Editing
<1> QED BY <1>1, <1>2, <1>3, <1>4, NothingDragged DEF BoardInv, EditOk

LEMMA DragEndKeeps == ASSUME BoardInv, Board!OnDragEnd PROVE BoardInv'
<1>1. /\ dashDrag' = Board!NoDrag
      /\ UNCHANGED <<dashLoad, dashConfig, dashData, dashStatus, dashEdit, dashSave, dashStored,
                     dashInputs>>
  BY DEF Board!OnDragEnd
<1>2. dashDrag' \in [section : Board!Sections \cup {"widgets", "none"}, from : Nat]
  BY <1>1 DEF Board!NoDrag
<1> QED BY <1>1, <1>2, NothingDragged DEF BoardInv, EditOk

LEMMA BoardNext == ASSUME BoardInv, Board!Next PROVE BoardInv'
  BY AnswersKeep, EditorKeeps, SavesKeep, ButtonsKeep, ItemsKeep, DragStartKeeps, DropKeeps,
     DragEndKeeps, Zenon DEF Board!Next

LEMMA BoardStutter == ASSUME BoardInv, UNCHANGED dashVars PROVE BoardInv'
<1>1. UNCHANGED <<dashLoad, dashConfig, dashData, dashStatus, dashEdit, dashSave, dashDrag,
                  dashStored, dashInputs>>
  BY DEF dashVars
<1>2. DragInRows'
  BY <1>1, SameDrag DEF BoardInv
<1> QED BY <1>1, <1>2 DEF BoardInv, EditOk

\* A step of the window is a step of the dashboard, or none, if it is open there.
LEMMA BoardStep ==
  [Next]_vars => page' = page /\ (page = "dashboard" => Board!Next \/ UNCHANGED dashVars)
  BY Zenon DEF Next, Alone, vars

LEMMA BoardInvariant == Spec => [](page = "dashboard" => BoardInv)
<1> DEFINE Inv == page = "dashboard" => BoardInv
<1>1. Init => Inv
  BY BoardInit DEF Init
<1>2. Inv /\ [Next]_vars => Inv'
  BY BoardStep, BoardNext, BoardStutter
<1> QED BY <1>1, <1>2, PTL DEF Spec

\* For any widgets, however often they are merged with those a stored configuration
\* lacks, swapped by the arrows and renumbered by drops, no two in the editor share a
\* place and none is lost.
THEOREM WidgetsHaveTheirPlaces == Spec => []EveryWidgetHasItsPlace
<1>1. (page = "dashboard" => BoardInv) => EveryWidgetHasItsPlace
  <2> SUFFICES ASSUME BoardInv, Board!Editing
               PROVE  /\ DOMAIN dashEdit.widgets = Board!WidgetIds
                      /\ \A v, w \in Board!WidgetIds :
                           dashEdit.widgets[v].order = dashEdit.widgets[w].order => v = w
    BY DEF EveryWidgetHasItsPlace, Board!EveryWidgetHasItsPlace
  <2> QED BY Edited DEF Numbered
<1> QED BY <1>1, BoardInvariant, PTL

LEMMA DropsMoveOneNext == ASSUME BoardInv, Board!Next PROVE Board!DropMovesOneRow
<1> SUFFICES ASSUME dashDrag.section = "widgets", dashDrag' = Board!NoDrag, Board!Editing,
                    dashEdit' # Absent, Len(Board!Rows) = Len(Widgets)
             PROVE  \A v, w \in Board!WidgetIds \ {Board!Rows[dashDrag.from]} :
                      dashEdit.widgets[v].order < dashEdit.widgets[w].order
                        <=> dashEdit'.widgets[v].order < dashEdit'.widgets[w].order
  BY DEF Board!DropMovesOneRow
<1>1. dashDrag # Board!NoDrag
  BY DEF Board!NoDrag
<1>2. CASE dashEdit' = dashEdit
  BY <1>2
<1>3. CASE Board!OnDrop
  BY <1>1, <1>3, WidgetDropped DEF Board!OnDrop, Board!Draggable
<1>4. CASE \/ Board!AnswerLoad \/ Board!AnswerStatus \/ Board!AnswerPlugin \/ Board!SaveEdit
           \/ Board!SetDashboardConfig \/ Board!OtherSave \/ Board!ReceiveSave
           \/ Board!OnDragStart \/ Board!OnDragEnd
  <2>1. dashEdit' = dashEdit
    BY <1>4 DEF Board!AnswerLoad, Board!AnswerStatus, Board!AnswerPlugin, Board!SaveEdit,
         Board!SetDashboardConfig, Board!OtherSave, Board!ReceiveSave, Board!OnDragStart,
         Board!OnDragEnd
  <2> QED BY <1>2, <2>1
<1>5. CASE Board!EnterEditMode \/ Board!CancelEdit
  BY <1>1, <1>5 DEF Board!EnterEditMode, Board!CancelEdit, Board!Press
<1>6. CASE \/ Board!WidgetButtons
           \/ Board!EditAnnouncements \/ Board!EditQuickLinks \/ Board!EditPinnedEntities
  BY <1>1, <1>6, ButtonsKeep, ItemsKeep
<1> QED BY <1>3, <1>4, <1>5, <1>6, Zenon DEF Board!Next

\* For any widgets, a row that is dropped in the list of all of them moves alone.
THEOREM DropsMoveOneRow == Spec => DropMovesOneRow
<1> DEFINE Inv == page = "dashboard" => BoardInv
<1>1. Inv /\ [Next]_vars => [page = "dashboard" => Board!DropMovesOneRow]_vars
  <2> SUFFICES ASSUME page = "dashboard", BoardInv, [Next]_vars
               PROVE  [page = "dashboard" => Board!DropMovesOneRow]_vars
    OBVIOUS
  <2>1. CASE Board!Next
    BY <2>1, DropsMoveOneNext
  <2>2. CASE UNCHANGED dashVars
    BY <2>2 DEF Board!DropMovesOneRow, dashVars
  <2> QED BY <2>1, <2>2, BoardStep
<1> QED BY <1>1, BoardInvariant, PTL DEF Spec, DropMovesOneRow

-----------------------------------------------------------------------------
(* The types *)

LEMMA BoardTyped == BoardInv => Board!TypeOK
<1> SUFFICES ASSUME BoardInv PROVE Board!TypeOK
  OBVIOUS
<1>1. /\ dashConfig \in Board!DashboardConfig \cup {Absent}
      /\ dashEdit \in Board!DashboardConfig \cup {Absent}
      /\ dashStored \in Board!DashboardConfig
  BY ConfigTyped DEF BoardInv, EditOk
<1>2. /\ dashSave.phase \in {"idle", "sent", "stored", "failed"}
      /\ dashSave.config \in Board!DashboardConfig \cup {Absent}
  BY ConfigTyped DEF BoardInv, SaveOk
<1> QED BY <1>1, <1>2 DEF BoardInv, Board!TypeOK
=============================================================================
