-------------------------- MODULE MemoryViewProofs --------------------------
(***************************************************************************)
(* MemoryView, for any resources, documents and queries: the scan of       *)
(* memory.search finds exactly the minimal windows of every document, and  *)
(* a walk collects the answer of one snapshot.                             *)
(***************************************************************************)
EXTENDS MemoryView, FiniteSetTheorems, TLAPS

-----------------------------------------------------------------------------
(* Least and greatest elements *)

(* A set of numbers has a least element: of the intervals 1..n, finite     *)
(* sets all, one is in no other.  It stands in for induction.              *)
LEMMA LeastElement ==
  ASSUME NEW C \in SUBSET Nat, C # {}
  PROVE  \E n \in C : \A m \in C : n <= m
<1> DEFINE R == StrictSubsetOrdering(Nat)
           S == FiniteSubsetsOf(Nat)
           D == {1..n : n \in C}
<1>1. IsWellFoundedOn(R, S)
  BY FS_StrictSubsetOrderingWellFounded
<1>2. D \subseteq S /\ D # {}
  <2>1. \A n \in C : IsFiniteSet(1..n) /\ 1..n \in SUBSET Nat
    BY FS_Interval
  <2> QED
    BY <2>1 DEF FiniteSubsetsOf
<1>3. \E x \in D : \A y \in D : <<y, x>> \notin R
  <2> HIDE DEF R, S, D
  <2> QED
    BY <1>1, <1>2, WFMin
<1>4. PICK n \in C : \A y \in D : <<y, 1..n>> \notin R
  BY <1>3
<1>5. ASSUME NEW m \in C, m < n PROVE FALSE
  <2>1. 1..m \in D
    OBVIOUS
  <2>2. 1..m \subseteq 1..n /\ n \in 1..n /\ n \notin 1..m
    BY <1>5
  <2>3. 1..n \in SUBSET Nat /\ 1..m \in SUBSET Nat
    OBVIOUS
  <2>4. <<1..m, 1..n>> \in R
    BY <2>2, <2>3 DEF StrictSubsetOrdering
  <2> QED
    BY <2>1, <2>4, <1>4
<1> QED
  BY <1>5

(* The least element of a set of numbers is what Min chooses.              *)
LEMMA MinIs ==
  ASSUME NEW C \in SUBSET Nat, C # {}
  PROVE  Min(C) \in C /\ \A x \in C : Min(C) <= x
BY LeastElement DEF Min

(* So is the greatest, if the set is bounded: it is the least from above.  *)
LEMMA MaxIs ==
  ASSUME NEW C \in SUBSET Nat, C # {}, NEW n \in Nat, \A x \in C : x <= n
  PROVE  Max(C) \in C /\ \A x \in C : Max(C) >= x
<1> DEFINE D == {n - x : x \in C}
<1>1. D \in SUBSET Nat /\ D # {}
  <2>1. \A x \in C : n - x \in Nat
    OBVIOUS
  <2> QED
    BY <2>1
<1>2. PICK x \in C : \A y \in C : n - x <= n - y
  <2>1. PICK d \in D : \A y \in D : d <= y
    <3> HIDE DEF D
    <3> QED
      BY <1>1, LeastElement
  <2> QED
    BY <2>1
<1>3. x \in C /\ \A y \in C : x >= y
  BY <1>2
<1> QED
  BY <1>3 DEF Max

-----------------------------------------------------------------------------
(* Pick *)

(* t holds what is to be kept of the first i elements of s, in their       *)
(* order: e says where each of them was.                                   *)
Places(s, kept, i, t, c, e) ==
    /\ c \in Nat /\ e \in [1..c -> 1..i]
    /\ \A k, l \in 1..c : k < l => e[k] < e[l]
    /\ \A k \in 1..c : kept[e[k]] = TRUE
    /\ \A j \in 1..i : kept[j] = TRUE => \E k \in 1..c : e[k] = j
    /\ t = [k \in 1..c |-> s[e[k]]]

(* The recursion that Pick is defined by, as far as n. *)
Picked(s, kept, n, f) ==
    f = [i \in 0..n |->
            IF i = 0 THEN <<>>
            ELSE IF kept[i] THEN Append(f[i - 1], s[i]) ELSE f[i - 1]]

(* A function that satisfies the recursion exists: CHOOSE finds one.       *)
LEMMA PickedExists ==
  ASSUME NEW s, NEW kept, NEW n \in Nat
  PROVE  \E f : Picked(s, kept, n, f)
<1> DEFINE C == {m \in Nat : ~\E f : Picked(s, kept, m, f)}
<1>1. ASSUME C # {} PROVE FALSE
  <2>1. PICK m \in C : \A k \in C : m <= k
    <3>1. C \in SUBSET Nat
      OBVIOUS
    <3> HIDE DEF C
    <3> QED
      BY <1>1, <3>1, LeastElement
  <2>2. m # 0
    <3>1. Picked(s, kept, 0, [i \in 0..0 |-> <<>>])
      BY DEF Picked
    <3> QED
      BY <3>1
  <2>3. m - 1 \in Nat /\ m - 1 \notin C
    BY <2>1, <2>2
  <2>4. PICK f : Picked(s, kept, m - 1, f)
    BY <2>3
  <2> DEFINE g == [i \in 0..m |->
                      IF i = m
                      THEN IF kept[m] THEN Append(f[m - 1], s[m]) ELSE f[m - 1]
                      ELSE f[i]]
  <2>5. \A i \in 0..(m - 1) : g[i] = f[i]
    BY <2>3
  <2>6. \A i \in 0..(m - 1) :
           f[i] = IF i = 0 THEN <<>>
                  ELSE IF kept[i] THEN Append(f[i - 1], s[i]) ELSE f[i - 1]
    BY <2>4 DEF Picked
  <2>7. \A i \in 0..m :
           g[i] = IF i = 0 THEN <<>>
                  ELSE IF kept[i] THEN Append(g[i - 1], s[i]) ELSE g[i - 1]
    <3> SUFFICES ASSUME NEW i \in 0..m
                 PROVE  g[i] = IF i = 0 THEN <<>>
                               ELSE IF kept[i] THEN Append(g[i - 1], s[i]) ELSE g[i - 1]
      OBVIOUS
    <3>1. CASE i = m
      <4>1. g[m - 1] = f[m - 1]
        BY <2>3, <2>5
      <4>2. g[i] = IF kept[m] THEN Append(f[m - 1], s[m]) ELSE f[m - 1]
        BY <3>1
      <4> QED
        BY <4>1, <4>2, <3>1, <2>2
    <3>2. CASE i # m /\ i # 0
      <4>1. i \in 0..(m - 1) /\ i - 1 \in 0..(m - 1)
        BY <3>2, <2>3
      <4> HIDE DEF g
      <4> QED
        BY <4>1, <2>5, <2>6, <3>2
    <3>3. CASE i # m /\ i = 0
      <4>1. i \in 0..(m - 1)
        BY <3>3, <2>3
      <4> HIDE DEF g
      <4> QED
        BY <4>1, <2>5, <2>6, <3>3
    <3> QED
      BY <3>1, <3>2, <3>3
  <2>8. Picked(s, kept, m, g)
    BY <2>7 DEF Picked
  <2> QED
    BY <2>8, <2>1
<1> QED
  BY <1>1

(* Pick is the last value of such a function.                              *)
LEMMA PickIsPicked ==
  ASSUME NEW s, NEW kept, Len(s) \in Nat
  PROVE  \E f : Picked(s, kept, Len(s), f) /\ Pick(s, kept) = f[Len(s)]
<1> DEFINE f == CHOOSE f : Picked(s, kept, Len(s), f)
<1>1. Picked(s, kept, Len(s), f)
  BY PickedExists
<1>2. Pick(s, kept) = f[Len(s)]
  BY DEF Pick, Picked
<1> QED
  BY <1>1, <1>2

(* One more element, kept or not. *)
LEMMA PlacesGrow ==
  ASSUME NEW S, NEW n \in Nat, NEW s \in [1..n -> S], NEW kept, NEW i \in 1..n,
         NEW t, NEW c, NEW e, Places(s, kept, i - 1, t, c, e)
  PROVE  \E d, g : Places(s, kept, i, IF kept[i] = TRUE THEN Append(t, s[i]) ELSE t, d, g)
<1>1. /\ c \in Nat /\ e \in [1..c -> 1..(i - 1)]
      /\ \A k, l \in 1..c : k < l => e[k] < e[l]
      /\ \A k \in 1..c : kept[e[k]] = TRUE
      /\ \A j \in 1..(i - 1) : kept[j] = TRUE => \E k \in 1..c : e[k] = j
      /\ t = [k \in 1..c |-> s[e[k]]]
  BY DEF Places
<1>2. CASE kept[i] # TRUE
  <2>1. Places(s, kept, i, t, c, e)
    <3>1. e \in [1..c -> 1..i]
      BY <1>1
    <3>2. ASSUME NEW j \in 1..i, kept[j] = TRUE PROVE j \in 1..(i - 1)
      <4>1. j # i
        BY <1>2, <3>2, Zenon
      <4> QED
        BY <4>1
    <3> QED
      BY <1>1, <3>1, <3>2 DEF Places
  <2> QED
    BY <2>1, <1>2
<1>3. CASE kept[i] = TRUE
  <2> DEFINE g == [k \in 1..(c + 1) |-> IF k = c + 1 THEN i ELSE e[k]]
             u == [k \in 1..(c + 1) |-> s[g[k]]]
  <2>1. g[c + 1] = i /\ \A k \in 1..c : g[k] = e[k]
    BY <1>1
  <2>2. g \in [1..(c + 1) -> 1..i]
    BY <1>1
  <2>3. \A k \in 1..(c + 1) : k = c + 1 \/ k \in 1..c
    BY <1>1
  <2>4. \A k, l \in 1..(c + 1) : k < l => g[k] < g[l]
    <3> SUFFICES ASSUME NEW k \in 1..(c + 1), NEW l \in 1..(c + 1), k < l
                 PROVE  g[k] < g[l]
      OBVIOUS
    <3>1. k \in 1..c /\ g[k] = e[k] /\ e[k] \in 1..(i - 1)
      BY <1>1, <2>1
    <3>2. CASE l = c + 1
      BY <3>1, <3>2, <2>1
    <3>3. CASE l \in 1..c
      BY <3>1, <3>3, <2>1, <1>1
    <3> QED
      BY <3>2, <3>3, <2>3
  <2>5. \A k \in 1..(c + 1) : kept[g[k]] = TRUE
    BY <1>1, <1>3, <2>1, <2>3
  <2>6. \A j \in 1..i : kept[j] = TRUE => \E k \in 1..(c + 1) : g[k] = j
    <3> SUFFICES ASSUME NEW j \in 1..i, kept[j] = TRUE
                 PROVE  \E k \in 1..(c + 1) : g[k] = j
      OBVIOUS
    <3>1. CASE j = i
      BY <3>1, <2>1, <1>1
    <3>2. CASE j # i
      <4>1. PICK k \in 1..c : e[k] = j
        BY <3>2, <1>1
      <4> QED
        BY <4>1, <2>1, <1>1
    <3> QED
      BY <3>1, <3>2
  <2>7. Append(t, s[i]) = u
    <3>1. t \in Seq(S) /\ Len(t) = c /\ \A k \in 1..c : t[k] = s[e[k]]
      BY <1>1
    <3>2. u \in Seq(S) /\ Len(u) = c + 1
      BY <2>2, <1>1
    <3>3. \A k \in 1..(c + 1) : Append(t, s[i])[k] = u[k]
      BY <3>1, <2>1, <2>3, <1>1
    <3>4. Append(t, s[i]) \in Seq(S) /\ Len(Append(t, s[i])) = c + 1
      BY <3>1
    <3> HIDE DEF u
    <3> QED
      BY <3>2, <3>3, <3>4
  <2>8. Places(s, kept, i, u, c + 1, g)
    <3> HIDE DEF g
    <3> QED
      BY <2>2, <2>4, <2>5, <2>6, <1>1 DEF Places
  <2> HIDE DEF g, u
  <2> QED
    BY <2>7, <2>8, <1>3
<1> QED
  BY <1>2, <1>3

(* What Pick does. *)
LEMMA PickIs ==
  ASSUME NEW S, NEW n \in Nat, NEW s \in [1..n -> S], NEW kept \in [1..n -> BOOLEAN]
  PROVE  \E c, e : Places(s, kept, n, Pick(s, kept), c, e)
<1>1. s \in Seq(S) /\ Len(s) = n
  OBVIOUS
<1>2. PICK f : Picked(s, kept, n, f) /\ Pick(s, kept) = f[n]
  BY <1>1, PickIsPicked
<1> DEFINE C == {i \in 0..n : ~\E c, e : Places(s, kept, i, f[i], c, e)}
<1>3. ASSUME C # {} PROVE FALSE
  <2>1. PICK i \in C : \A j \in C : i <= j
    <3>1. C \in SUBSET Nat
      OBVIOUS
    <3> HIDE DEF C
    <3> QED
      BY <1>3, <3>1, LeastElement
  <2>2. i # 0
    <3>1. f[0] = <<>>
      BY <1>2 DEF Picked
    <3>2. Places(s, kept, 0, f[0], 0, <<>>)
      BY <3>1 DEF Places
    <3> QED
      BY <3>2
  <2>3. i \in 1..n /\ i - 1 \in 0..n /\ i - 1 \notin C
    BY <2>1, <2>2
  <2>4. PICK c, e : Places(s, kept, i - 1, f[i - 1], c, e)
    BY <2>3
  <2>5. f[i] = IF kept[i] = TRUE THEN Append(f[i - 1], s[i]) ELSE f[i - 1]
    <3>1. f[i] = IF kept[i] THEN Append(f[i - 1], s[i]) ELSE f[i - 1]
      BY <1>2, <2>2, <2>3 DEF Picked
    <3>2. kept[i] \in BOOLEAN
      BY <2>3
    <3> QED
      BY <3>1, <3>2
  <2>6. \E d, g : Places(s, kept, i,
                         IF kept[i] = TRUE THEN Append(f[i - 1], s[i]) ELSE f[i - 1], d, g)
    BY <2>3, <2>4, PlacesGrow
  <2> QED
    BY <2>5, <2>6, <2>1
<1>4. \E c, e : Places(s, kept, n, f[n], c, e)
  BY <1>3
<1> QED
  BY <1>2, <1>4

-----------------------------------------------------------------------------
(* The windows of a document *)

(* The next line in which a term occurs, or the one after the last. *)
Occurs(flags, t, i) == Min({j \in i..Len(flags) : t \in flags[j]} \cup {Len(flags) + 1})

(* A term occurs by line b just if its next occurrence is not behind b.    *)
LEMMA NextOccurrence ==
  ASSUME NEW n \in Nat, NEW flags, Len(flags) = n, NEW i \in 1..n, NEW t
  PROVE  /\ Occurs(flags, t, i) \in i..(n + 1)
         /\ \A b \in i..n : Occurs(flags, t, i) <= b <=> \E j \in i..b : t \in flags[j]
<1> DEFINE C == {j \in i..n : t \in flags[j]} \cup {n + 1}
<1>1. C \in SUBSET Nat /\ C # {} /\ \A x \in C : x \in i..(n + 1)
  OBVIOUS
<1>2. Occurs(flags, t, i) = Min(C)
  BY DEF Occurs
<1>3. Min(C) \in C /\ \A x \in C : Min(C) <= x
  <2> HIDE DEF C
  <2> QED
    BY <1>1, MinIs
<1>4. ASSUME NEW b \in i..n
      PROVE  Min(C) <= b <=> \E j \in i..b : t \in flags[j]
  <2>1. ASSUME Min(C) <= b PROVE \E j \in i..b : t \in flags[j]
    <3>1. Min(C) # n + 1 /\ Min(C) \in i..b
      BY <2>1, <1>1, <1>3
    <3> QED
      BY <3>1, <1>3
  <2>2. ASSUME NEW j \in i..b, t \in flags[j] PROVE Min(C) <= b
    <3>1. j \in C
      BY <2>2
    <3>2. Min(C) <= j /\ Min(C) \in i..(n + 1)
      BY <3>1, <1>1, <1>3
    <3> QED
      BY <3>2
  <2> QED
    BY <2>1, <2>2
<1> QED
  BY <1>1, <1>2, <1>3, <1>4

(* Where the scan backwards ends a window: no line before has all terms    *)
(* behind it, each later line has.                                         *)
LEMMA WindowEndIs ==
  ASSUME NEW n \in Nat, NEW flags, Len(flags) = n, NEW i \in 1..n, NEW terms
  PROVE  /\ WindowEnd(flags, terms, i) \in i..(n + 1)
         /\ \A b \in i..n : WindowEnd(flags, terms, i) <= b <=>
               \A t \in terms : \E j \in i..b : t \in flags[j]
<1> DEFINE E == {i} \cup {Occurs(flags, t, i) : t \in terms}
<1>1. WindowEnd(flags, terms, i) = Max(E)
  BY DEF WindowEnd, Occurs
<1>2. \A x \in E : x \in i..(n + 1)
  <2>1. \A t \in terms : Occurs(flags, t, i) \in i..(n + 1)
    BY NextOccurrence
  <2>2. i \in i..(n + 1)
    OBVIOUS
  <2> QED
    BY <2>1, <2>2
<1>3. Max(E) \in E /\ \A x \in E : Max(E) >= x
  <2>1. E # {} /\ n + 1 \in Nat
    OBVIOUS
  <2>2. E \in SUBSET Nat /\ \A x \in E : x <= n + 1
    <3> HIDE DEF E
    <3> QED
      BY <1>2
  <2> HIDE DEF E
  <2> QED
    BY <2>1, <2>2, MaxIs
<1>4. ASSUME NEW b \in i..n
      PROVE  Max(E) <= b <=> \A t \in terms : \E j \in i..b : t \in flags[j]
  <2>1. Max(E) <= b <=> \A t \in terms : Occurs(flags, t, i) <= b
    <3>1. Max(E) <= b => \A x \in E : x <= b
      <4> HIDE DEF E
      <4> QED
        BY <1>2, <1>3
    <3>2. (\A t \in terms : Occurs(flags, t, i) <= b) => \A x \in E : x <= b
      OBVIOUS
    <3> QED
      BY <3>1, <3>2, <1>3
  <2> QED
    BY <2>1, NextOccurrence
<1> QED
  BY <1>1, <1>2, <1>3, <1>4

(* A document, and a search in it. *)
LEMMA DocumentIs ==
  ASSUME NEW doc \in Document
  PROVE  /\ Len(doc) \in Nat /\ DOMAIN doc = 1..Len(doc)
         /\ \A i \in 1..Len(doc) : doc[i].terms \subseteq Term /\ doc[i].size \in Nat
<1>1. doc \in Seq(Line)
  BY ViewAssumption
<1>2. \A i \in 1..Len(doc) : doc[i] \in Line
  BY <1>1
<1> QED
  BY <1>1, <1>2 DEF Line

(* What MemorySearch requires of a query.                                  *)
LEMMA SearchIs ==
  ASSUME NEW q \in Query, q.kind = "search"
  PROVE  /\ q.terms # {} /\ q.window \in Nat /\ q.context \in Nat
         /\ q.mode \in {"any", "all_on_same_line", "all_within_lines"}
BY ViewAssumption

(* The terms of lines a to b, one by one.                                  *)
LEMMA CoversIs ==
  ASSUME NEW doc, NEW q, NEW a, NEW b
  PROVE  Covers(doc, q, a, b) <=> \A t \in q.terms : \E j \in a..b : t \in doc[j].terms
BY DEF Covers

(* Lines that have every term still have them with more lines around them. *)
LEMMA CoversMore ==
  ASSUME NEW doc, NEW q, NEW a \in Int, NEW b \in Int, NEW c \in Int, NEW d \in Int,
         c <= a, b <= d, Covers(doc, q, a, b)
  PROVE  Covers(doc, q, c, d)
<1>1. \A j \in a..b : j \in c..d
  OBVIOUS
<1> QED
  BY <1>1, CoversIs

(* The last line of the window that begins with line i. *)
End(doc, q, i) == Window(doc, q, i).to

(* The window that begins with a line ends with the first line by which    *)
(* every term has occurred, or is that line.                               *)
LEMMA WindowIs ==
  ASSUME NEW doc \in Document, NEW q \in Query, NEW i \in 1..Len(doc)
  PROVE  /\ Window(doc, q, i).from = i
         /\ IF q.mode = "all_within_lines"
            THEN /\ Window(doc, q, i).terms = q.terms
                 /\ End(doc, q, i) \in i..(Len(doc) + 1)
                 /\ \A b \in i..Len(doc) : End(doc, q, i) <= b <=> Covers(doc, q, i, b)
            ELSE /\ Window(doc, q, i).terms = doc[i].terms \cap q.terms
                 /\ End(doc, q, i) = i
<1> DEFINE n == Len(doc)
           flags == Flags(doc, q.terms)
<1>1. n \in Nat /\ flags = [j \in 1..n |-> doc[j].terms \cap q.terms]
  BY DocumentIs DEF Flags
<1>2. Len(flags) = n /\ \A j \in 1..n : flags[j] = doc[j].terms \cap q.terms
  <2> HIDE DEF flags
  <2>1. flags \in Seq(SUBSET q.terms) /\ Len(flags) = n
    BY <1>1
  <2> QED
    BY <1>1, <2>1
<1>3. CASE q.mode = "all_within_lines"
  <2>1. Window(doc, q, i) =
            [from |-> i, to |-> WindowEnd(flags, q.terms, i), terms |-> q.terms]
    BY <1>3 DEF Window
  <2>2. End(doc, q, i) = WindowEnd(flags, q.terms, i)
    BY <2>1 DEF End
  <2>3. /\ End(doc, q, i) \in i..(n + 1)
        /\ \A b \in i..n : End(doc, q, i) <= b <=>
              \A t \in q.terms : \E j \in i..b : t \in flags[j]
    <3>1. Len(flags) = n /\ n \in Nat /\ i \in 1..n
      BY <1>1, <1>2
    <3> HIDE DEF flags, n
    <3>2. /\ WindowEnd(flags, q.terms, i) \in i..(n + 1)
          /\ \A b \in i..n : WindowEnd(flags, q.terms, i) <= b <=>
                \A t \in q.terms : \E j \in i..b : t \in flags[j]
      BY <3>1, WindowEndIs
    <3> QED
      BY <3>2, <2>2
  <2>4. ASSUME NEW b \in i..n
        PROVE  (\A t \in q.terms : \E j \in i..b : t \in flags[j]) <=> Covers(doc, q, i, b)
    <3>1. \A j \in i..b : flags[j] = doc[j].terms \cap q.terms
      <4>1. \A j \in i..b : j \in 1..n
        BY <1>1
      <4> QED
        BY <4>1, <1>2
    <3> HIDE DEF flags
    <3> QED
      BY <3>1, CoversIs
  <2>5. Window(doc, q, i).from = i /\ Window(doc, q, i).terms = q.terms
    BY <2>1
  <2>6. \A b \in i..n : End(doc, q, i) <= b <=> Covers(doc, q, i, b)
    BY <2>3, <2>4
  <2> HIDE DEF flags
  <2> QED
    BY <2>5, <2>6, <2>3, <1>3
<1>4. CASE q.mode # "all_within_lines"
  BY <1>2, <1>4 DEF Window, End
<1> QED
  BY <1>3, <1>4

(* Which lines begin a window that is kept. *)
Begins(doc, q, i) == IsWindow(doc, q, Window(doc, q, i))

(* A window is kept if its first line has a term and it is short enough    *)
(* and complete.                                                           *)
LEMMA BeginsIs ==
  ASSUME NEW doc \in Document, NEW q \in Query, NEW i \in 1..Len(doc)
  PROVE  Begins(doc, q, i) <=>
            /\ doc[i].terms \cap q.terms # {}
            /\ q.mode = "all_within_lines" =>
                  End(doc, q, i) <= Len(doc) /\ End(doc, q, i) - i + 1 <= q.window
            /\ q.mode = "any" \/ Window(doc, q, i).terms = q.terms
<1>1. Window(doc, q, i).from = i
  BY WindowIs
<1>2. Flags(doc, q.terms)[i] = doc[i].terms \cap q.terms
  BY DocumentIs DEF Flags
<1> QED
  BY <1>1, <1>2 DEF Begins, IsWindow, End

(* A later window does not end earlier. *)
LEMMA EndsAreOrdered ==
  ASSUME NEW doc \in Document, NEW q \in Query, q.mode = "all_within_lines",
         NEW i \in 1..Len(doc), NEW j \in 1..Len(doc), i <= j, End(doc, q, j) <= Len(doc)
  PROVE  End(doc, q, i) <= End(doc, q, j)
<1>1. /\ End(doc, q, j) \in j..Len(doc) /\ End(doc, q, j) \in i..Len(doc)
      /\ Len(doc) \in Nat
  BY WindowIs, DocumentIs
<1>2. Covers(doc, q, j, End(doc, q, j))
  BY <1>1, WindowIs
<1>3. Covers(doc, q, i, End(doc, q, j))
  BY <1>1, <1>2, CoversMore
<1> QED
  BY <1>1, <1>3, WindowIs

(* A minimal window begins where it is found, ends where the scan ends it, *)
(* and no later window ends by then.                                       *)
LEMMA HitBegins ==
  ASSUME NEW doc \in Document, NEW q \in Query, q.kind = "search",
         q.mode = "all_within_lines",
         NEW a \in 1..Len(doc), NEW b \in 1..Len(doc), Hit(doc, q, a, b)
  PROVE  /\ Begins(doc, q, a) /\ End(doc, q, a) = b
         /\ \A c \in (a + 1)..Len(doc) : End(doc, q, c) > b
<1>1. /\ a <= b /\ b - a < q.window /\ q.window \in Nat /\ Len(doc) \in Nat
      /\ Covers(doc, q, a, b) /\ ~Covers(doc, q, a + 1, b) /\ ~Covers(doc, q, a, b - 1)
  BY SearchIs, DocumentIs DEF Hit
<1>2. End(doc, q, a) = b
  <2>1. End(doc, q, a) \in a..(Len(doc) + 1) /\ End(doc, q, a) <= b
    BY <1>1, WindowIs
  <2>2. CASE a = b
    BY <2>1, <2>2
  <2>3. CASE a # b
    <3>1. b - 1 \in a..Len(doc)
      BY <2>3, <1>1
    <3>2. ~(End(doc, q, a) <= b - 1)
      BY <3>1, <1>1, WindowIs
    <3> QED
      BY <2>1, <3>1, <3>2
  <2> QED
    BY <2>2, <2>3
<1>3. Begins(doc, q, a)
  <2>1. PICK t \in q.terms : \A j \in (a + 1)..b : t \notin doc[j].terms
    BY <1>1, CoversIs
  <2>2. PICK j \in a..b : t \in doc[j].terms
    BY <1>1, CoversIs
  <2>3. j = a
    <3>1. j = a \/ j \in (a + 1)..b
      OBVIOUS
    <3> QED
      BY <3>1, <2>1, <2>2
  <2>4. doc[a].terms \cap q.terms # {}
    BY <2>2, <2>3
  <2>5. End(doc, q, a) <= Len(doc) /\ End(doc, q, a) - a + 1 <= q.window
    BY <1>1, <1>2
  <2>6. Window(doc, q, a).terms = q.terms
    BY WindowIs
  <2> QED
    BY <2>4, <2>5, <2>6, BeginsIs
<1>4. ASSUME NEW c \in (a + 1)..Len(doc), End(doc, q, c) <= b PROVE FALSE
  <2>1. c \in 1..Len(doc) /\ End(doc, q, c) \in c..(Len(doc) + 1)
    BY WindowIs
  <2>2. b \in c..Len(doc)
    BY <1>4, <2>1
  <2>3. Covers(doc, q, c, b)
    BY <2>1, <2>2, <1>4, WindowIs
  <2>4. Covers(doc, q, a + 1, b)
    BY <2>2, <2>3, CoversMore
  <2> QED
    BY <2>4, <1>1
<1>5. \A c \in (a + 1)..Len(doc) : End(doc, q, c) > b
  <2> SUFFICES ASSUME NEW c \in (a + 1)..Len(doc) PROVE End(doc, q, c) > b
    OBVIOUS
  <2>1. c \in 1..Len(doc) /\ End(doc, q, c) \in c..(Len(doc) + 1)
    BY WindowIs
  <2> QED
    BY <2>1, <1>4
<1> QED
  BY <1>2, <1>3, <1>5

(* A window is minimal if no later one ends by its end: were it not, the   *)
(* last line from which all terms occur would begin such a window.         *)
LEMMA BeginsHit ==
  ASSUME NEW doc \in Document, NEW q \in Query, q.kind = "search",
         q.mode = "all_within_lines", NEW a \in 1..Len(doc), Begins(doc, q, a),
         \A c \in (a + 1)..Len(doc) : Begins(doc, q, c) => End(doc, q, c) > End(doc, q, a)
  PROVE  End(doc, q, a) \in 1..Len(doc) /\ Hit(doc, q, a, End(doc, q, a))
<1> DEFINE b == End(doc, q, a)
<1>1. /\ b \in a..Len(doc) /\ b - a + 1 <= q.window /\ q.window \in Nat
      /\ Len(doc) \in Nat /\ q.terms # {} /\ Covers(doc, q, a, b)
  <2>1. b \in a..(Len(doc) + 1) /\ b <= Len(doc) /\ b - a + 1 <= q.window
    BY WindowIs, BeginsIs
  <2>2. b \in a..Len(doc)
    BY <2>1, DocumentIs
  <2>3. Len(doc) \in Nat /\ q.window \in Nat /\ q.terms # {}
    BY DocumentIs, SearchIs
  <2>4. Covers(doc, q, a, b)
    BY <2>1, <2>2, WindowIs
  <2> QED
    BY <2>1, <2>2, <2>3, <2>4
<1>2. \A x, y \in Int : Covers(doc, q, x, y) => x <= y
  BY <1>1, CoversIs
<1>3. ASSUME Covers(doc, q, a, b - 1) PROVE FALSE
  <2>1. b - 1 \in a..Len(doc)
    BY <1>1, <1>2, <1>3
  <2>2. b <= b - 1
    BY <2>1, <1>3, WindowIs
  <2> QED
    BY <2>2, <1>1
<1>4. ASSUME Covers(doc, q, a + 1, b) PROVE FALSE
  <2> DEFINE C == {c \in (a + 1)..b : Covers(doc, q, c, b)}
  <2>1. PICK c \in C : \A x \in C : c >= x
    <3>1. C \in SUBSET Nat /\ (\A x \in C : x <= b) /\ b \in Nat
      BY <1>1
    <3>2. a + 1 \in C
      BY <1>1, <1>2, <1>4
    <3> HIDE DEF C, b
    <3> QED
      BY <3>1, <3>2, MaxIs
  <2>2. /\ c \in (a + 1)..b /\ Covers(doc, q, c, b) /\ ~Covers(doc, q, c + 1, b)
        /\ c \in 1..Len(doc) /\ c \in (a + 1)..Len(doc) /\ b \in c..Len(doc)
    <3>1. /\ c \in (a + 1)..b /\ Covers(doc, q, c, b)
          /\ c \in 1..Len(doc) /\ c \in (a + 1)..Len(doc) /\ b \in c..Len(doc)
      BY <1>1
    <3>2. ASSUME Covers(doc, q, c + 1, b) PROVE FALSE
      <4>1. c + 1 <= b
        BY <3>1, <3>2, <1>1, <1>2
      <4>2. c + 1 \in C
        BY <3>1, <3>2, <4>1
      <4>3. c >= c + 1
        <5> HIDE DEF C, b
        <5> QED
          BY <2>1, <4>2
      <4> QED
        BY <4>3, <3>1
    <3> QED
      BY <3>1, <3>2
  <2>3. doc[c].terms \cap q.terms # {}
    <3>1. PICK t \in q.terms : \A j \in (c + 1)..b : t \notin doc[j].terms
      BY <2>2, CoversIs
    <3>2. PICK j \in c..b : t \in doc[j].terms
      BY <2>2, CoversIs
    <3>3. j = c \/ j \in (c + 1)..b
      BY <2>2
    <3> QED
      BY <3>1, <3>2, <3>3
  <2>4. End(doc, q, c) \in c..(Len(doc) + 1) /\ End(doc, q, c) <= b
    BY <2>2, WindowIs
  <2>5. Begins(doc, q, c)
    <3>1. End(doc, q, c) <= Len(doc) /\ End(doc, q, c) - c + 1 <= q.window
      <4> HIDE DEF b
      <4> QED
        BY <1>1, <2>2, <2>4
    <3>2. Window(doc, q, c).terms = q.terms
      BY <2>2, WindowIs
    <3> QED
      BY <2>2, <2>3, <3>1, <3>2, BeginsIs
  <2>6. End(doc, q, c) > b
    BY <2>2, <2>5
  <2> HIDE DEF b
  <2> QED
    BY <2>4, <2>6, <2>2, <1>1
<1>5. a <= b /\ b - a < q.window /\ b \in 1..Len(doc)
  <2> HIDE DEF b
  <2> QED
    BY <1>1
<1> QED
  BY <1>1, <1>3, <1>4, <1>5 DEF Hit

(* In the other two modes a match is a line. *)
LEMMA LineHits ==
  ASSUME NEW doc \in Document, NEW q \in Query, q.kind = "search",
         q.mode # "all_within_lines", NEW a \in 1..Len(doc)
  PROVE  /\ End(doc, q, a) = a
         /\ Begins(doc, q, a) <=> Hit(doc, q, a, a)
         /\ \A b \in 1..Len(doc) : Hit(doc, q, a, b) => a = b
<1>1. End(doc, q, a) = a /\ Window(doc, q, a).terms = doc[a].terms \cap q.terms
  BY WindowIs
<1>2. Begins(doc, q, a) <=> /\ doc[a].terms \cap q.terms # {}
                            /\ q.mode = "any" \/ doc[a].terms \cap q.terms = q.terms
  BY <1>1, BeginsIs
<1>3. Covers(doc, q, a, a) <=> q.terms \subseteq doc[a].terms
  <2>1. a..a = {a}
    OBVIOUS
  <2> QED
    BY <2>1, CoversIs
<1>4. CASE q.mode = "any"
  BY <1>1, <1>2, <1>4 DEF Hit
<1>5. CASE q.mode = "all_on_same_line"
  BY <1>1, <1>2, <1>3, <1>5, SearchIs DEF Hit
<1> QED
  BY <1>4, <1>5, SearchIs

(* The windows of a document are those of the lines that begin one, in the *)
(* order of the lines.                                                     *)
WindowsAt(doc, q, c, e) ==
    /\ c \in Nat /\ e \in [1..c -> 1..Len(doc)]
    /\ \A k, l \in 1..c : k < l => e[k] < e[l]
    /\ \A k \in 1..c : Begins(doc, q, e[k])
    /\ \A i \in 1..Len(doc) : Begins(doc, q, i) => \E k \in 1..c : e[k] = i
    /\ Windows(doc, q) = [k \in 1..c |-> Window(doc, q, e[k])]

(* Every document has such windows: what Pick returns.                     *)
LEMMA WindowsAre ==
  ASSUME NEW doc \in Document, NEW q \in Query
  PROVE  \E c, e : WindowsAt(doc, q, c, e)
<1> DEFINE n == Len(doc)
           all == [i \in 1..n |-> Window(doc, q, i)]
           kept == [i \in 1..n |-> IsWindow(doc, q, all[i])]
           S == {Window(doc, q, i) : i \in 1..n}
<1>1. n \in Nat /\ DOMAIN doc = 1..n
  BY DocumentIs
<1>2. all \in [1..n -> S] /\ \A i \in 1..n : all[i] = Window(doc, q, i)
  OBVIOUS
<1>3. kept \in [1..n -> BOOLEAN] /\ \A i \in 1..n : kept[i] = Begins(doc, q, i)
  BY DEF IsWindow, Begins
<1>4. Windows(doc, q) = Pick(all, kept)
  BY <1>1 DEF Windows
<1>5. PICK c, e : Places(all, kept, n, Pick(all, kept), c, e)
  <2> HIDE DEF all, kept, S, n
  <2> QED
    BY <1>1, <1>2, <1>3, PickIs
<1>6. WindowsAt(doc, q, c, e)
  <2> HIDE DEF all, kept, S
  <2>1. /\ c \in Nat /\ e \in [1..c -> 1..n]
        /\ \A k, l \in 1..c : k < l => e[k] < e[l]
        /\ \A k \in 1..c : kept[e[k]] = TRUE
        /\ \A j \in 1..n : kept[j] = TRUE => \E k \in 1..c : e[k] = j
        /\ Windows(doc, q) = [k \in 1..c |-> all[e[k]]]
    BY <1>4, <1>5 DEF Places
  <2>2. \A k \in 1..c : all[e[k]] = Window(doc, q, e[k]) /\ Begins(doc, q, e[k])
    BY <2>1, <1>2, <1>3
  <2>3. [k \in 1..c |-> all[e[k]]] = [k \in 1..c |-> Window(doc, q, e[k])]
    BY <2>2
  <2>4. \A j \in 1..n : Begins(doc, q, j) => \E k \in 1..c : e[k] = j
    BY <2>1, <1>3
  <2> QED
    BY <2>1, <2>2, <2>3, <2>4 DEF WindowsAt
<1> QED
  BY <1>6

(* Which lines begin a match: with all_within_lines those whose window the *)
(* next one is not in.                                                     *)
MatchAt(doc, q, i) ==
    /\ Begins(doc, q, i)
    /\ q.mode = "all_within_lines" =>
          \A j \in (i + 1)..Len(doc) : Begins(doc, q, j) => End(doc, q, j) > End(doc, q, i)

(* It is enough to compare a window with the one after it, for the ends of *)
(* the windows are in order.                                               *)
LEMMA HoldsNextIs ==
  ASSUME NEW doc \in Document, NEW q \in Query, q.mode = "all_within_lines",
         NEW c, NEW e, WindowsAt(doc, q, c, e), NEW k \in 1..c
  PROVE  ~HoldsNext(Windows(doc, q), k) <=> MatchAt(doc, q, e[k])
<1> DEFINE w == Windows(doc, q)
           n == Len(doc)
<1>1. /\ n \in Nat /\ c \in Nat /\ e \in [1..c -> 1..n]
      /\ \A a, b \in 1..c : a < b => e[a] < e[b]
      /\ \A a \in 1..c : Begins(doc, q, e[a])
      /\ \A i \in 1..n : Begins(doc, q, i) => \E a \in 1..c : e[a] = i
      /\ w = [a \in 1..c |-> Window(doc, q, e[a])]
  BY DocumentIs DEF WindowsAt
<1>2. Len(w) = c /\ \A a \in 1..c : w[a].to = End(doc, q, e[a])
  <2> DEFINE W == {Window(doc, q, e[a]) : a \in 1..c}
             v == [a \in 1..c |-> Window(doc, q, e[a])]
  <2>1. v \in Seq(W) /\ Len(v) = c
    <3>1. c \in Nat /\ \A a \in 1..c : Window(doc, q, e[a]) \in W
      BY <1>1
    <3> HIDE DEF W
    <3> QED
      BY <3>1
  <2>2. w = v /\ \A a \in 1..c : v[a] = Window(doc, q, e[a])
    <3> HIDE DEF w
    <3> QED
      BY <1>1
  <2> HIDE DEF w, v
  <2> QED
    BY <2>1, <2>2 DEF End
<1>3. HoldsNext(w, k) <=> k < c /\ End(doc, q, e[k + 1]) <= End(doc, q, e[k])
  <2> HIDE DEF w
  <2>1. HoldsNext(w, k) <=> k < c /\ w[k + 1].to <= w[k].to
    BY <1>2 DEF HoldsNext
  <2>2. k < c => k + 1 \in 1..c
    BY <1>1
  <2> QED
    BY <2>1, <2>2, <1>2
<1>4. \A a \in 1..c : End(doc, q, e[a]) \in 1..n
  <2> SUFFICES ASSUME NEW a \in 1..c PROVE End(doc, q, e[a]) \in 1..n
    OBVIOUS
  <2>1. e[a] \in 1..n
    BY <1>1
  <2>2. End(doc, q, e[a]) \in e[a]..(n + 1) /\ End(doc, q, e[a]) <= n
    BY <2>1, <1>1, WindowIs, BeginsIs
  <2> QED
    BY <2>1, <2>2, <1>1
<1>5. ASSUME HoldsNext(w, k) PROVE ~MatchAt(doc, q, e[k])
  <2>1. k + 1 \in 1..c /\ k < k + 1 /\ End(doc, q, e[k + 1]) <= End(doc, q, e[k])
    BY <1>1, <1>3, <1>5
  <2>2. e[k + 1] \in (e[k] + 1)..n /\ Begins(doc, q, e[k + 1])
    <3>1. e[k] \in 1..n /\ e[k + 1] \in 1..n /\ e[k] < e[k + 1]
      BY <2>1, <1>1
    <3> QED
      BY <3>1, <2>1, <1>1
  <2>3. ~(End(doc, q, e[k + 1]) > End(doc, q, e[k]))
    BY <2>1, <1>4
  <2> QED
    BY <2>2, <2>3 DEF MatchAt
<1>6. ASSUME ~HoldsNext(w, k) PROVE MatchAt(doc, q, e[k])
  <2> SUFFICES ASSUME NEW j \in (e[k] + 1)..n, Begins(doc, q, j)
               PROVE  End(doc, q, j) > End(doc, q, e[k])
    BY <1>1 DEF MatchAt
  <2>1. e[k] \in 1..n /\ j \in 1..n /\ e[k] < j
    BY <1>1
  <2>2. PICK l \in 1..c : e[l] = j
    BY <2>1, <1>1
  <2>3. k < l
    <3>1. l # k /\ ~(l < k)
      <4>1. l # k
        BY <2>1, <2>2
      <4>2. ASSUME l < k PROVE FALSE
        <5>1. e[l] < e[k]
          BY <4>2, <1>1
        <5> QED
          BY <5>1, <2>1, <2>2
      <4> QED
        BY <4>1, <4>2
    <3> QED
      BY <3>1
  <2>4. k < c /\ k + 1 \in 1..c
    BY <2>3, <1>1
  <2>5. End(doc, q, e[k + 1]) > End(doc, q, e[k])
    BY <2>4, <1>3, <1>4, <1>6
  <2>6. e[k + 1] <= e[l] /\ e[k + 1] \in 1..n
    <3>1. k + 1 = l \/ k + 1 < l
      BY <2>3
    <3>2. e[k + 1] \in 1..n
      BY <2>4, <1>1
    <3>3. CASE k + 1 = l
      BY <3>2, <3>3
    <3>4. CASE k + 1 < l
      <4>1. e[k + 1] < e[l]
        BY <3>4, <2>4, <1>1
      <4> QED
        BY <4>1, <3>2, <2>2, <2>1
    <3> QED
      BY <3>1, <3>3, <3>4
  <2>7. End(doc, q, e[k + 1]) <= End(doc, q, j)
    <3>1. End(doc, q, j) <= n
      BY <2>2, <1>4
    <3> HIDE DEF n
    <3>2. e[k + 1] <= j
      BY <2>6, <2>2
    <3> QED
      BY <3>1, <3>2, <2>1, <2>6, EndsAreOrdered DEF n
  <2> QED
    BY <2>5, <2>7, <2>2, <2>4, <1>4
<1> QED
  BY <1>5, <1>6

(* The matches of a document are the windows of those lines, in the order  *)
(* of the lines.                                                           *)
MatchesAt(doc, q, c, e) ==
    /\ c \in Nat /\ e \in [1..c -> 1..Len(doc)]
    /\ \A k, l \in 1..c : k < l => e[k] < e[l]
    /\ \A k \in 1..c : MatchAt(doc, q, e[k])
    /\ \A i \in 1..Len(doc) : MatchAt(doc, q, i) => \E k \in 1..c : e[k] = i
    /\ Matches(doc, q) = [k \in 1..c |-> Matches(doc, q)[k]]
    /\ \A k \in 1..c : Matches(doc, q)[k].window = Window(doc, q, e[k])

(* Every document has such matches: Pick applied twice.                    *)
LEMMA MatchesAre ==
  ASSUME NEW doc \in Document, NEW q \in Query
  PROVE  \E c, e : MatchesAt(doc, q, c, e)
<1> DEFINE n == Len(doc)
           w == Windows(doc, q)
<1>1. PICK c, e : WindowsAt(doc, q, c, e)
  BY WindowsAre
<1>2. /\ n \in Nat /\ c \in Nat /\ e \in [1..c -> 1..n]
      /\ \A a, b \in 1..c : a < b => e[a] < e[b]
      /\ \A a \in 1..c : Begins(doc, q, e[a])
      /\ \A i \in 1..n : Begins(doc, q, i) => \E a \in 1..c : e[a] = i
      /\ w = [a \in 1..c |-> Window(doc, q, e[a])]
  BY <1>1, DocumentIs DEF WindowsAt
<1> DEFINE S == {Window(doc, q, i) : i \in 1..n}
           kept == [k \in 1..c |-> q.mode = "all_within_lines" => ~HoldsNext(w, k)]
           minimal == Pick(w, kept)
<1>3. w \in [1..c -> S] /\ DOMAIN w = 1..c
  BY <1>2
<1>4. kept \in [1..c -> BOOLEAN] /\ \A k \in 1..c : kept[k] = TRUE <=> MatchAt(doc, q, e[k])
  <2>1. kept \in [1..c -> BOOLEAN]
    OBVIOUS
  <2>2. \A k \in 1..c : kept[k] = (q.mode = "all_within_lines" => ~HoldsNext(w, k))
    OBVIOUS
  <2> SUFFICES ASSUME NEW k \in 1..c PROVE kept[k] = TRUE <=> MatchAt(doc, q, e[k])
    BY <2>1
  <2>3. CASE q.mode = "all_within_lines"
    <3>1. ~HoldsNext(w, k) <=> MatchAt(doc, q, e[k])
      BY <1>1, <2>3, HoldsNextIs
    <3> HIDE DEF kept, w
    <3> QED
      BY <2>2, <2>3, <3>1
  <2>4. CASE q.mode # "all_within_lines"
    <3>1. MatchAt(doc, q, e[k])
      BY <2>4, <1>2 DEF MatchAt
    <3> HIDE DEF kept, w
    <3> QED
      BY <2>2, <2>4, <3>1
  <2> QED
    BY <2>3, <2>4
<1>5. PICK m, g : Places(w, kept, c, minimal, m, g)
  <2> HIDE DEF w, kept, S
  <2> QED
    BY <1>2, <1>3, <1>4, PickIs
<1>6. /\ m \in Nat /\ g \in [1..m -> 1..c]
      /\ \A k, l \in 1..m : k < l => g[k] < g[l]
      /\ \A k \in 1..m : MatchAt(doc, q, e[g[k]])
      /\ \A a \in 1..c : MatchAt(doc, q, e[a]) => \E k \in 1..m : g[k] = a
      /\ minimal = [k \in 1..m |-> w[g[k]]]
  <2> HIDE DEF w, kept, minimal
  <2>1. /\ m \in Nat /\ g \in [1..m -> 1..c]
        /\ \A k, l \in 1..m : k < l => g[k] < g[l]
        /\ \A k \in 1..m : kept[g[k]] = TRUE
        /\ \A a \in 1..c : kept[a] = TRUE => \E k \in 1..m : g[k] = a
        /\ minimal = [k \in 1..m |-> w[g[k]]]
    BY <1>5 DEF Places
  <2> QED
    BY <2>1, <1>4
<1> DEFINE h == [k \in 1..m |-> e[g[k]]]
<1>7. h \in [1..m -> 1..n] /\ \A k \in 1..m : h[k] = e[g[k]]
  BY <1>2, <1>6
<1>8. \A k \in 1..m : minimal[k] = Window(doc, q, h[k])
  <2> HIDE DEF minimal, w, h
  <2> QED
    BY <1>2, <1>6, <1>7
<1>9. /\ Matches(doc, q) = [k \in 1..m |-> Matches(doc, q)[k]]
      /\ \A k \in 1..m : Matches(doc, q)[k].window = minimal[k]
  <2>1. DOMAIN minimal = 1..m
    <3> HIDE DEF minimal, w
    <3> QED
      BY <1>6
  <2>2. kept = [k \in DOMAIN w |-> q.mode = "all_within_lines" => ~HoldsNext(w, k)]
    BY <1>3
  <2> DEFINE body(x) == SubSeq(doc, Max({1, x.from - q.context}),
                                    Min({Len(doc), x.to + q.context}))
             found == [k \in DOMAIN minimal |->
                          [window |-> minimal[k], body |-> body(minimal[k]),
                           size |-> SumSize(body(minimal[k])) + Len(body(minimal[k])) - 1]]
  <2>3. Matches(doc, q) = found
    BY <2>2, Zenon DEF Matches
  <2>4. found = [k \in 1..m |-> found[k]] /\ \A k \in 1..m : found[k].window = minimal[k]
    <3> HIDE DEF minimal, body
    <3> QED
      BY <2>1
  <2> HIDE DEF found, minimal
  <2> QED
    BY <2>3, <2>4
<1>10. MatchesAt(doc, q, m, h)
  <2> HIDE DEF minimal, w, kept
  <2>1. \A k, l \in 1..m : k < l => h[k] < h[l]
    BY <1>2, <1>6, <1>7
  <2>2. \A k \in 1..m : MatchAt(doc, q, h[k])
    BY <1>6, <1>7
  <2>3. ASSUME NEW i \in 1..n, MatchAt(doc, q, i) PROVE \E k \in 1..m : h[k] = i
    <3>1. PICK a \in 1..c : e[a] = i
      BY <2>3, <1>2 DEF MatchAt
    <3>2. PICK k \in 1..m : g[k] = a
      BY <3>1, <2>3, <1>6
    <3> QED
      BY <3>1, <3>2
  <2> HIDE DEF h
  <2> QED
    BY <1>6, <1>7, <1>8, <1>9, <2>1, <2>2, <2>3 DEF MatchesAt
<1> QED
  BY <1>10

(* What a line begins is a match just if it is a hit. *)
LEMMA MatchAtIsHit ==
  ASSUME NEW doc \in Document, NEW q \in Query, q.kind = "search"
  PROVE  /\ \A a \in 1..Len(doc) : MatchAt(doc, q, a) =>
               End(doc, q, a) \in 1..Len(doc) /\ Hit(doc, q, a, End(doc, q, a))
         /\ \A a, b \in 1..Len(doc) : Hit(doc, q, a, b) =>
               MatchAt(doc, q, a) /\ End(doc, q, a) = b
<1>1. CASE q.mode = "all_within_lines"
  <2>1. ASSUME NEW a \in 1..Len(doc), MatchAt(doc, q, a)
        PROVE  End(doc, q, a) \in 1..Len(doc) /\ Hit(doc, q, a, End(doc, q, a))
    <3>1. Begins(doc, q, a)
      BY <2>1 DEF MatchAt
    <3>2. \A c \in (a + 1)..Len(doc) : Begins(doc, q, c) => End(doc, q, c) > End(doc, q, a)
      BY <1>1, <2>1 DEF MatchAt
    <3> QED
      BY <1>1, <3>1, <3>2, BeginsHit
  <2>2. ASSUME NEW a \in 1..Len(doc), NEW b \in 1..Len(doc), Hit(doc, q, a, b)
        PROVE  MatchAt(doc, q, a) /\ End(doc, q, a) = b
    <3>1. /\ Begins(doc, q, a) /\ End(doc, q, a) = b
          /\ \A c \in (a + 1)..Len(doc) : End(doc, q, c) > b
      BY <1>1, <2>2, HitBegins
    <3> QED
      BY <3>1 DEF MatchAt
  <2> QED
    BY <2>1, <2>2
<1>2. CASE q.mode # "all_within_lines"
  BY <1>2, LineHits DEF MatchAt
<1> QED
  BY <1>1, <1>2

(* The matches of one document, as the property states them. *)
Exact(doc, q, matches) ==
    LET found == [k \in DOMAIN matches |-> matches[k].window]
    IN  /\ {<<w.from, w.to>> : w \in Range(found)}
             = {x \in (DOMAIN doc) \X (DOMAIN doc) : Hit(doc, q, x[1], x[2])}
        /\ \A k \in 1..(Len(found) - 1) : found[k].from < found[k + 1].from

(* The scan finds just the hits.                                           *)
LEMMA MatchesAreExact ==
  ASSUME NEW doc \in Document, NEW q \in Query, q.kind = "search"
  PROVE  Exact(doc, q, Matches(doc, q))
<1> DEFINE n == Len(doc)
           matches == Matches(doc, q)
           found == [k \in DOMAIN matches |-> matches[k].window]
<1>1. PICK c, e : MatchesAt(doc, q, c, e)
  BY MatchesAre
<1>2. /\ c \in Nat /\ e \in [1..c -> 1..n]
      /\ \A k, l \in 1..c : k < l => e[k] < e[l]
      /\ \A k \in 1..c : MatchAt(doc, q, e[k])
      /\ \A i \in 1..n : MatchAt(doc, q, i) => \E k \in 1..c : e[k] = i
      /\ DOMAIN matches = 1..c
      /\ \A k \in 1..c : matches[k].window = Window(doc, q, e[k])
  BY <1>1 DEF MatchesAt
<1>3. n \in Nat /\ DOMAIN doc = 1..n
  BY DocumentIs
<1>4. /\ DOMAIN found = 1..c /\ Len(found) = c
      /\ \A k \in 1..c : found[k].from = e[k] /\ found[k].to = End(doc, q, e[k])
  <2>1. \A k \in 1..c : found[k] = Window(doc, q, e[k])
    BY <1>2
  <2>2. found \in Seq({Window(doc, q, i) : i \in 1..n}) /\ Len(found) = c
    BY <1>2
  <2>3. \A k \in 1..c : Window(doc, q, e[k]).from = e[k]
    BY <1>2, WindowIs
  <2>4. DOMAIN found = 1..c
    BY <1>2
  <2> HIDE DEF found
  <2> QED
    BY <2>1, <2>2, <2>3, <2>4 DEF End
<1> HIDE DEF matches, found
<1>5. \A k \in 1..(Len(found) - 1) : found[k].from < found[k + 1].from
  <2> SUFFICES ASSUME NEW k \in 1..(c - 1) PROVE found[k].from < found[k + 1].from
    BY <1>2, <1>4
  <2>1. k \in 1..c /\ k + 1 \in 1..c /\ k < k + 1
    BY <1>2
  <2> QED
    BY <2>1, <1>2, <1>4
<1>6. {<<w.from, w.to>> : w \in Range(found)}
         = {x \in (DOMAIN doc) \X (DOMAIN doc) : Hit(doc, q, x[1], x[2])}
  <2>1. ASSUME NEW w \in Range(found)
        PROVE  /\ w.from \in 1..n /\ w.to \in 1..n
               /\ Hit(doc, q, w.from, w.to)
    <3>1. PICK k \in 1..c : w = found[k]
      BY <1>4 DEF Range
    <3>2. w.from = e[k] /\ w.to = End(doc, q, e[k]) /\ e[k] \in 1..n /\ MatchAt(doc, q, e[k])
      BY <3>1, <1>2, <1>4
    <3> QED
      BY <3>2, MatchAtIsHit
  <2>2. ASSUME NEW a \in 1..n, NEW b \in 1..n, Hit(doc, q, a, b)
        PROVE  \E w \in Range(found) : w.from = a /\ w.to = b
    <3>1. MatchAt(doc, q, a) /\ End(doc, q, a) = b
      BY <2>2, MatchAtIsHit
    <3>2. PICK k \in 1..c : e[k] = a
      BY <3>1, <1>2
    <3>3. found[k] \in Range(found)
      BY <1>4 DEF Range
    <3> QED
      BY <3>1, <3>2, <3>3, <1>4
  <2> DEFINE L == {<<w.from, w.to>> : w \in Range(found)}
             R == {x \in (1..n) \X (1..n) : Hit(doc, q, x[1], x[2])}
  <2>3. L \subseteq R
    <3> SUFFICES ASSUME NEW w \in Range(found) PROVE <<w.from, w.to>> \in R
      OBVIOUS
    <3> QED
      BY <2>1
  <2>4. R \subseteq L
    <3> SUFFICES ASSUME NEW a \in 1..n, NEW b \in 1..n, Hit(doc, q, a, b)
                 PROVE  <<a, b>> \in L
      OBVIOUS
    <3> QED
      BY <2>2
  <2> QED
    BY <2>3, <2>4, <1>3
<1> QED
  BY <1>5, <1>6 DEF Exact, found, matches

-----------------------------------------------------------------------------
(* The answers *)

(* What a snapshot is: documents at paths of resources. *)
Files(files) ==
    /\ DOMAIN files \subseteq {PathOf[r] : r \in Resource}
    /\ \A p \in DOMAIN files : files[p] \in Document

(* The names of the tree are finitely many, and in a sequence. *)
LEMMA OrderIs ==
  \E n \in Nat : \E S : Order \in [1..n -> S]
<1> DEFINE prefixes(r) == {SubSeq(PathOf[r], 1, n) : n \in 1..Len(PathOf[r])}
           all == UNION {prefixes(r) : r \in Resource}
<1>1. IsFiniteSet(all)
  <2>1. ASSUME NEW r \in Resource PROVE IsFiniteSet(prefixes(r))
    <3>1. Len(PathOf[r]) \in Nat
      BY ViewAssumption
    <3> DEFINE f == [n \in 1..Len(PathOf[r]) |-> SubSeq(PathOf[r], 1, n)]
    <3>2. f \in Surjection(1..Len(PathOf[r]), prefixes(r))
      BY DEF Surjection
    <3>3. IsFiniteSet(1..Len(PathOf[r]))
      BY <3>1, FS_Interval
    <3> HIDE DEF f, prefixes
    <3> QED
      BY <3>2, <3>3, FS_Surjection
  <2> DEFINE T == {prefixes(r) : r \in Resource}
  <2>2. IsFiniteSet(T)
    <3> DEFINE f == [r \in Resource |-> prefixes(r)]
    <3>1. f \in Surjection(Resource, T)
      <4> HIDE DEF prefixes
      <4> QED
        BY DEF Surjection
    <3>2. IsFiniteSet(Resource)
      BY ViewAssumption
    <3> HIDE DEF f, T
    <3> QED
      BY <3>1, <3>2, FS_Surjection
  <2>3. \A x \in T : IsFiniteSet(x)
    <3> HIDE DEF prefixes
    <3> QED
      BY <2>1
  <2> HIDE DEF prefixes, T
  <2>4. IsFiniteSet(UNION T)
    BY <2>2, <2>3, FS_UNION
  <2> QED
    BY <2>4 DEF T
<1>2. Cardinality(all) \in Nat
  <2> HIDE DEF all
  <2> QED
    BY <1>1, FS_CardinalityType
<1> DEFINE at(i) == CHOOSE p \in all : Cardinality({x \in all : Before(x, p)}) = i - 1
<1>3. Order = [i \in 1..Cardinality(all) |-> at(i)]
  BY DEF Order
<1>4. Order \in [1..Cardinality(all) -> {at(i) : i \in 1..Cardinality(all)}]
  <2> HIDE DEF all, at
  <2> QED
    BY <1>3
<1> HIDE DEF all, at
<1> QED
  BY <1>2, <1>4

(* A sorted set is a sequence of elements of it. *)
LEMMA SortedIs ==
  ASSUME NEW P
  PROVE  \E c \in Nat : Sorted(P) \in [1..c -> P]
<1>1. PICK n \in Nat : \E S : Order \in [1..n -> S]
  BY OrderIs
<1> DEFINE kept == [i \in 1..n |-> Order[i] \in P]
<1>2. kept \in [1..n -> BOOLEAN] /\ Sorted(P) = Pick(Order, kept)
  BY <1>1 DEF Sorted
<1>3. PICK c, e : Places(Order, kept, n, Pick(Order, kept), c, e)
  <2> HIDE DEF kept
  <2> QED
    BY <1>1, <1>2, PickIs
<1>4. /\ c \in Nat /\ e \in [1..c -> 1..n] /\ \A k \in 1..c : kept[e[k]] = TRUE
      /\ Sorted(P) = [k \in 1..c |-> Order[e[k]]]
  <2> HIDE DEF kept
  <2> QED
    BY <1>2, <1>3 DEF Places
<1>5. \A k \in 1..c : Order[e[k]] \in P
  BY <1>4
<1>6. Sorted(P) \in [1..c -> P]
  <2> HIDE DEF kept
  <2>1. [k \in 1..c |-> Order[e[k]]] \in [1..c -> P]
    BY <1>5
  <2> QED
    BY <1>4, <2>1
<1> QED
  BY <1>4, <1>6

(* The answer of memory.list is a sequence.                                *)
LEMMA ListIsSequence ==
  ASSUME NEW files, NEW q
  PROVE  \E S : ListAll(files, q) \in Seq(S)
<1> DEFINE paths == Sorted(Entries(files, q.scope))
           at(i) == [path |-> paths[i], dir |-> paths[i] \notin DOMAIN files,
                     size |-> Len(paths[i])]
<1>1. PICK c \in Nat : paths \in [1..c -> Entries(files, q.scope)]
  <2> HIDE DEF paths
  <2> QED
    BY SortedIs DEF paths
<1>2. ListAll(files, q) = [i \in DOMAIN paths |-> at(i)]
  BY DEF ListAll
<1>3. DOMAIN paths = 1..c
  BY <1>1
<1> HIDE DEF paths, at
<1>4. ListAll(files, q) = [i \in 1..c |-> at(i)]
  BY <1>2, <1>3
<1>5. [i \in 1..c |-> at(i)] \in Seq({at(i) : i \in 1..c})
  OBVIOUS
<1> QED
  BY <1>4, <1>5

(* The recursion that SearchAll is defined by: parts is what each file     *)
(* adds.                                                                   *)
Joined(parts, n, f) ==
    f = [i \in 0..n |-> IF i = 0 THEN <<>> ELSE f[i - 1] \o parts[i]]

(* Again a function that satisfies the recursion exists.                   *)
LEMMA JoinedExists ==
  ASSUME NEW parts, NEW n \in Nat
  PROVE  \E f : Joined(parts, n, f)
<1> DEFINE C == {m \in Nat : ~\E f : Joined(parts, m, f)}
<1>1. ASSUME C # {} PROVE FALSE
  <2>1. PICK m \in C : \A k \in C : m <= k
    <3>1. C \in SUBSET Nat
      OBVIOUS
    <3> HIDE DEF C
    <3> QED
      BY <1>1, <3>1, LeastElement
  <2>2. m # 0
    <3>1. Joined(parts, 0, [i \in 0..0 |-> <<>>])
      BY DEF Joined
    <3> QED
      BY <3>1
  <2>3. m - 1 \in Nat /\ m - 1 \notin C
    BY <2>1, <2>2
  <2>4. PICK f : Joined(parts, m - 1, f)
    BY <2>3
  <2> DEFINE g == [i \in 0..m |-> IF i = m THEN f[m - 1] \o parts[m] ELSE f[i]]
  <2>5. \A i \in 0..(m - 1) : g[i] = f[i]
    BY <2>3
  <2>6. \A i \in 0..(m - 1) : f[i] = IF i = 0 THEN <<>> ELSE f[i - 1] \o parts[i]
    BY <2>4 DEF Joined
  <2>7. \A i \in 0..m : g[i] = IF i = 0 THEN <<>> ELSE g[i - 1] \o parts[i]
    <3> SUFFICES ASSUME NEW i \in 0..m
                 PROVE  g[i] = IF i = 0 THEN <<>> ELSE g[i - 1] \o parts[i]
      OBVIOUS
    <3>1. CASE i = m
      <4>1. g[m - 1] = f[m - 1]
        BY <2>3, <2>5
      <4>2. g[i] = f[m - 1] \o parts[m]
        BY <3>1
      <4> QED
        BY <4>1, <4>2, <3>1, <2>2
    <3>2. CASE i # m /\ i # 0
      <4>1. i \in 0..(m - 1) /\ i - 1 \in 0..(m - 1)
        BY <3>2, <2>3
      <4> HIDE DEF g
      <4> QED
        BY <4>1, <2>5, <2>6, <3>2
    <3>3. CASE i # m /\ i = 0
      <4>1. i \in 0..(m - 1)
        BY <3>3, <2>3
      <4> HIDE DEF g
      <4> QED
        BY <4>1, <2>5, <2>6, <3>3
    <3> QED
      BY <3>1, <3>2, <3>3
  <2>8. Joined(parts, m, g)
    BY <2>7 DEF Joined
  <2> QED
    BY <2>8, <2>1
<1> QED
  BY <1>1

(* What sequences are joined to is a sequence.                             *)
LEMMA JoinedIsSequence ==
  ASSUME NEW S, NEW parts, NEW n \in Nat, \A i \in 1..n : parts[i] \in Seq(S),
         NEW f, Joined(parts, n, f)
  PROVE  f[n] \in Seq(S)
<1> DEFINE C == {i \in 0..n : f[i] \notin Seq(S)}
<1>1. ASSUME C # {} PROVE FALSE
  <2>1. PICK i \in C : \A j \in C : i <= j
    <3>1. C \in SUBSET Nat
      OBVIOUS
    <3> HIDE DEF C
    <3> QED
      BY <1>1, <3>1, LeastElement
  <2>2. f[i] = IF i = 0 THEN <<>> ELSE f[i - 1] \o parts[i]
    BY <2>1 DEF Joined
  <2>3. i # 0
    <3>1. <<>> \in Seq(S)
      OBVIOUS
    <3> QED
      BY <2>1, <2>2, <3>1
  <2>4. f[i - 1] \in Seq(S) /\ parts[i] \in Seq(S)
    <3>1. i - 1 \in 0..n /\ i - 1 \notin C /\ i \in 1..n
      BY <2>1, <2>3
    <3> QED
      BY <3>1
  <2>5. f[i - 1] \o parts[i] \in Seq(S)
    BY <2>4
  <2> QED
    BY <2>1, <2>2, <2>3, <2>5
<1> QED
  BY <1>1

(* The answer of memory.search is a sequence.                              *)
LEMMA SearchIsSequence ==
  ASSUME NEW files, Files(files), NEW q \in Query, q.kind = "search"
  PROVE  \E S : SearchAll(files, q) \in Seq(S)
<1> DEFINE P == {p \in DOMAIN files : IsPrefix(q.scope, p) /\ ~IsHidden(p)}
           found == Sorted(P)
           part(i) == LET m == MatchesOf[q][files[found[i]]]
                      IN  [k \in DOMAIN m |-> [path |-> found[i]] @@ m[k]]
<1>1. PICK c \in Nat : found \in [1..c -> P]
  <2> HIDE DEF P
  <2> QED
    BY SortedIs
<1> DEFINE parts == [i \in 1..c |-> part(i)]
           S == {part(i)[k] : i \in 1..c, k \in Nat}
<1>2. Len(found) = c
  <2> HIDE DEF P, found
  <2> QED
    BY <1>1
<1>3. \A i \in 1..c : parts[i] \in Seq(S)
  <2> SUFFICES ASSUME NEW i \in 1..c PROVE parts[i] \in Seq(S)
    <3> HIDE DEF parts, S
    <3> QED
      OBVIOUS
  <2> DEFINE doc == files[found[i]]
  <2>1. doc \in Document
    <3>1. found[i] \in P
      <4> HIDE DEF P, found
      <4> QED
        BY <1>1
    <3> HIDE DEF found
    <3> QED
      BY <3>1 DEF Files
  <2>2. MatchesOf[q][doc] = Matches(doc, q)
    <3> HIDE DEF doc
    <3> QED
      BY <2>1 DEF MatchesOf
  <2>3. PICK m \in Nat : DOMAIN MatchesOf[q][doc] = 1..m
    <3> HIDE DEF doc
    <3>1. \E m, e : MatchesAt(doc, q, m, e)
      BY <2>1, MatchesAre
    <3>2. \E m \in Nat : DOMAIN Matches(doc, q) = 1..m
      BY <3>1 DEF MatchesAt
    <3> QED
      BY <2>2, <3>2
  <2>4. parts[i] = part(i) /\ part(i) = [k \in 1..m |-> [path |-> found[i]] @@ MatchesOf[q][doc][k]]
    <3> HIDE DEF found, MatchesOf
    <3> QED
      BY <2>3
  <2>5. \A k \in 1..m : part(i)[k] \in S
    <3>1. \A k \in 1..m : k \in Nat
      OBVIOUS
    <3> HIDE DEF part
    <3> QED
      BY <3>1
  <2>6. part(i) = [k \in 1..m |-> part(i)[k]]
    <3> HIDE DEF found, doc
    <3> QED
      BY <2>4
  <2> HIDE DEF part, S, parts
  <2>7. [k \in 1..m |-> part(i)[k]] \in Seq(S)
    BY <2>5
  <2> QED
    BY <2>4, <2>6, <2>7
<1> DEFINE all == CHOOSE f : f = [i \in 0..c |-> IF i = 0 THEN <<>> ELSE f[i - 1] \o part(i)]
<1>4. SearchAll(files, q) = all[c]
  BY <1>2 DEF SearchAll
<1>5. \A f : f = [i \in 0..c |-> IF i = 0 THEN <<>> ELSE f[i - 1] \o part(i)]
                <=> Joined(parts, c, f)
  <2> HIDE DEF part
  <2>1. \A i \in 1..c : parts[i] = part(i)
    OBVIOUS
  <2>2. \A i \in 0..c : i = 0 \/ i \in 1..c
    OBVIOUS
  <2> HIDE DEF parts
  <2>3. \A f : [i \in 0..c |-> IF i = 0 THEN <<>> ELSE f[i - 1] \o part(i)]
               = [i \in 0..c |-> IF i = 0 THEN <<>> ELSE f[i - 1] \o parts[i]]
    BY <2>1, <2>2
  <2> QED
    BY <2>3 DEF Joined
<1>6. Joined(parts, c, all)
  <2> HIDE DEF parts, part
  <2>1. \E f : Joined(parts, c, f)
    BY JoinedExists
  <2> QED
    BY <2>1, <1>5
<1> HIDE DEF all, parts, S
<1>7. all[c] \in Seq(S)
  BY <1>3, <1>6, JoinedIsSequence
<1> QED
  BY <1>4, <1>7

(* Each answer is a sequence, which pages can be cut from.                 *)
LEMMA AllIsSequence ==
  ASSUME NEW files, Files(files), NEW q \in Query
  PROVE  \E S : All(files, q) \in Seq(S)
<1>1. CASE q.kind = "list"
  BY <1>1, ListIsSequence DEF All
<1>2. CASE q.kind # "list"
  <2>1. q.kind = "search"
    BY <1>2, ViewAssumption
  <2> QED
    BY <1>2, <2>1, SearchIsSequence DEF All
<1> QED
  BY <1>1, <1>2

(* Nothing has no size. *)
LEMMA SumOfNothing == SumSize(<<>>) = 0
<1> DEFINE s == <<>>
           sum == CHOOSE f : f = [i \in 0..Len(s) |-> IF i = 0 THEN 0 ELSE f[i - 1] + s[i].size]
           zero == [i \in 0..0 |-> 0]
<1>1. Len(s) = 0 /\ SumSize(s) = sum[0]
  BY DEF SumSize
<1>2. zero = [i \in 0..Len(s) |-> IF i = 0 THEN 0 ELSE zero[i - 1] + s[i].size]
  <2>1. \A i \in 0..0 : i = 0
    OBVIOUS
  <2> QED
    BY <1>1, <2>1
<1>3. sum = [i \in 0..Len(s) |-> IF i = 0 THEN 0 ELSE sum[i - 1] + s[i].size]
  BY <1>2
<1>4. 0 \in 0..Len(s)
  BY <1>1
<1>5. sum[0] = 0
  <2> HIDE DEF sum, s
  <2> QED
    BY <1>3, <1>4
<1> QED
  BY <1>1, <1>5

(* The smaller of two numbers.                                             *)
LEMMA MinOfTwo ==
  ASSUME NEW a \in Nat, NEW b \in Nat
  PROVE  Min({a, b}) = IF a <= b THEN a ELSE b
<1>1. {a, b} \in SUBSET Nat /\ {a, b} # {}
  OBVIOUS
<1>2. Min({a, b}) \in {a, b} /\ \A x \in {a, b} : Min({a, b}) <= x
  BY <1>1, MinIs
<1> QED
  BY <1>2

(* A page takes no more than there is.                                     *)
LEMMA TakenIs ==
  ASSUME NEW S, NEW all \in Seq(S), NEW start \in 0..Len(all), NEW q \in Query
  PROVE  Taken(all, start, q) \in 0..(Len(all) - start)
<1> DEFINE m == Min({q.max, Len(all) - start})
           C == {n \in 0..m : SumSize(SubSeq(all, start + 1, start + n)) <= PageBytes}
<1>1. Len(all) - start \in Nat /\ q.max \in Nat
  BY ViewAssumption
<1>2. m \in Nat /\ m <= Len(all) - start
  BY <1>1, MinOfTwo
<1>3. 0 \in C
  <2>1. SubSeq(all, start + 1, start + 0) = <<>>
    OBVIOUS
  <2>2. SumSize(SubSeq(all, start + 1, start + 0)) <= PageBytes
    <3>1. SumSize(SubSeq(all, start + 1, start + 0)) = 0
      BY <2>1, SumOfNothing, Zenon
    <3>2. 0 <= PageBytes
      BY ViewAssumption
    <3> QED
      BY <3>1, <3>2
  <2> HIDE DEF m
  <2> QED
    BY <1>2, <2>2
<1>4. C \in SUBSET Nat /\ \A x \in C : x <= m
  <2> HIDE DEF m
  <2> QED
    BY <1>2
<1>5. Max(C) \in C
  <2> HIDE DEF C, m
  <2> QED
    BY <1>2, <1>3, <1>4, MaxIs
<1>6. Taken(all, start, q) = Max(C)
  BY DEF Taken
<1> HIDE DEF m
<1> QED
  BY <1>2, <1>5, <1>6

-----------------------------------------------------------------------------
(* The invariant *)

(* The memory has a document or nothing for each resource, and the live    *)
(* ones are unambiguous.                                                   *)
MemoryInv ==
    /\ native \in [Resource -> Document \cup {None}]
    /\ Legible(Live)
    /\ sequence \in 0..MaxCommits

(* The walk has a prefix of the answer that its first page began, and its  *)
(* cursor says how long it is.  While no record is added since, it is the  *)
(* answer of the memory as it is: that is what a cursor stands for.        *)
WalkInv ==
    /\ DOMAIN walk = {"status", "query", "base", "cursor", "got"}
    /\ walk.status \in {"none", "walking", "done", "expired", "too_large", "not_found"}
    /\ walk.query \in Query \cup {None}
    /\ walk.query # None =>
          /\ IsPrefix(walk.got, All(walk.base, walk.query))
          /\ \E S : walk.got \in Seq(S)
    /\ walk.status = "done" => walk.got = All(walk.base, walk.query)
    /\ walk.status \in {"walking", "done"} =>
          /\ walk.cursor.query = walk.query
          /\ walk.cursor.index = Len(walk.got)
          /\ walk.cursor.sequence \in 0..sequence
          /\ walk.cursor.sequence = sequence => walk.base = Snapshot

Inv == MemoryInv /\ WalkInv

(* A snapshot has documents at paths of resources.                         *)
LEMMA SnapshotIsFiles ==
  ASSUME native \in [Resource -> Document \cup {None}]
  PROVE  Files(Snapshot) /\ DOMAIN Snapshot = Paths
<1>1. DOMAIN Snapshot = Paths /\ Paths \subseteq {PathOf[r] : r \in Resource}
  BY DEF Snapshot, Paths, Live
<1>2. ASSUME NEW p \in Paths PROVE Snapshot[p] \in Document
  <2> DEFINE r == CHOOSE r \in Live : PathOf[r] = p
  <2>1. r \in Live
    BY <1>2 DEF Paths
  <2>2. Snapshot[p] = native[r]
    BY <1>2 DEF Snapshot
  <2>3. native[r] \in Document
    <3> HIDE DEF r
    <3> QED
      BY <2>1 DEF Live
  <2> QED
    BY <2>2, <2>3
<1> QED
  BY <1>1, <1>2 DEF Files

(* Inv holds in the beginning.                                             *)
LEMMA InitInv == Init => Inv
<1> SUFFICES ASSUME Init PROVE Inv
  OBVIOUS
<1>1. native \in [Resource -> Document \cup {None}]
  BY ViewAssumption DEF Init
<1>2. Legible(Live)
  BY DEF Init, Live
<1>3. sequence \in 0..MaxCommits
  BY ViewAssumption DEF Init
<1>4. WalkInv
  BY DEF Init, WalkInv
<1> QED
  BY <1>1, <1>2, <1>3, <1>4 DEF Inv, MemoryInv

(* A transaction makes every cursor stale, and is refused if it would make *)
(* the memory ambiguous.                                                   *)
LEMMA TransactInv ==
  ASSUME Inv, NEW new \in [Resource -> Document \cup {None}], Transact(new)
  PROVE  Inv'
<1>1. MemoryInv'
  <2>1. native' \in [Resource -> Document \cup {None}]
    BY DEF Inv, MemoryInv, Transact
  <2>2. Legible(Live)'
    <3>1. CASE Legible({r \in Resource : new[r] # None})
      <4>1. native' = new
        BY <3>1 DEF Transact
      <4> QED
        BY <3>1, <4>1 DEF Live, Legible
    <3>2. CASE ~Legible({r \in Resource : new[r] # None})
      <4>1. native' = native
        BY <3>2 DEF Transact
      <4> QED
        BY <4>1 DEF Inv, MemoryInv, Live, Legible
    <3> QED
      BY <3>1, <3>2
  <2>3. (sequence \in 0..MaxCommits)'
    BY ViewAssumption DEF Inv, MemoryInv, Transact
  <2> QED
    BY <2>1, <2>2, <2>3 DEF MemoryInv
<1>2. WalkInv'
  <2>1. walk' = walk /\ sequence' = sequence + 1 /\ sequence \in Nat
    BY DEF Inv, MemoryInv, Transact
  <2>2. walk.status \in {"walking", "done"} =>
           /\ walk.cursor.sequence \in 0..(sequence + 1)
           /\ walk.cursor.sequence # sequence + 1
    BY <2>1 DEF Inv, WalkInv
  <2> QED
    BY <2>1, <2>2 DEF Inv, WalkInv
<1> QED
  BY <1>1, <1>2 DEF Inv

(* A sequence is a prefix of itself.                                       *)
LEMMA WholeSequence ==
  ASSUME NEW S, NEW s \in Seq(S)
  PROVE  SubSeq(s, 1, Len(s)) = s /\ IsPrefix(s, s) /\ IsPrefix(<<>>, s)
BY DEF IsPrefix

(* What a reader has after a page of n more. *)
Grown(got, all, n) == got \o SubSeq(all, Len(got) + 1, Len(got) + n)

(* One page more makes a longer prefix, and the last page the whole.       *)
LEMMA PrefixGrows ==
  ASSUME NEW S, NEW all \in Seq(S), NEW T, NEW got \in Seq(T), IsPrefix(got, all),
         NEW n \in 0..(Len(all) - Len(got)),
         NEW next, next = Grown(got, all, n)
  PROVE  /\ next \in Seq(S) /\ Len(next) = Len(got) + n /\ IsPrefix(next, all)
         /\ n = Len(all) - Len(got) => next = all
<1> DEFINE l == Len(got)
<1>1. l \in Nat /\ l <= Len(all) /\ got = SubSeq(all, 1, l) /\ got \in Seq(S)
  <2>1. l \in Nat /\ l <= Len(all) /\ SubSeq(got, 1, l) = SubSeq(all, 1, l)
    BY DEF IsPrefix
  <2>2. got = SubSeq(all, 1, l)
    BY <2>1, WholeSequence
  <2>3. SubSeq(all, 1, l) \in Seq(S)
    BY <2>1
  <2> QED
    BY <2>1, <2>2, <2>3
<1>2. next = SubSeq(all, 1, l + n)
  <2>2. next = got \o SubSeq(all, l + 1, l + n)
    BY DEF Grown
  <2> HIDE DEF l
  <2>1. SubSeq(all, 1, l) \o SubSeq(all, l + 1, l + n) = SubSeq(all, 1, l + n)
    BY <1>1
  <2> QED
    BY <1>1, <2>1, <2>2
<1>3. SubSeq(all, 1, l + n) \in Seq(S) /\ Len(SubSeq(all, 1, l + n)) = l + n
  <2> HIDE DEF l
  <2> QED
    BY <1>1
<1>4. IsPrefix(SubSeq(all, 1, l + n), all)
  <2> HIDE DEF l
  <2> DEFINE s == SubSeq(all, 1, l + n)
  <2>1. SubSeq(s, 1, Len(s)) = s
    <3> HIDE DEF s
    <3> QED
      BY <1>3, WholeSequence DEF s
  <2>2. Len(s) = l + n /\ l + n <= Len(all)
    BY <1>1, <1>3
  <2> QED
    BY <2>1, <2>2 DEF IsPrefix
<1>5. n = Len(all) - l => SubSeq(all, 1, l + n) = all
  <2> HIDE DEF l
  <2>1. n = Len(all) - l => l + n = Len(all)
    BY <1>1
  <2> QED
    BY <2>1, WholeSequence
<1> QED
  BY <1>2, <1>3, <1>4, <1>5

(* One page, of a walk whose base is the memory as it is. *)
LEMMA PageInv ==
  ASSUME Inv, NEW q \in Query, NEW base, base = Snapshot,
         NEW got, NEW T, got \in Seq(T), IsPrefix(got, All(base, q)),
         Page(q, base, got, Len(got)), UNCHANGED <<native, sequence>>
  PROVE  Inv'
<1> DEFINE all == All(Snapshot, q)
           n == Taken(all, Len(got), q)
           next == Grown(got, all, n)
<1>1. /\ native \in [Resource -> Document \cup {None}] /\ sequence \in Nat
      /\ Files(Snapshot) /\ q # None
  BY SnapshotIsFiles, ViewAssumption DEF Inv, MemoryInv
<1>2. PICK S : all \in Seq(S)
  <2> HIDE DEF all
  <2> QED
    BY <1>1, AllIsSequence DEF all
<1>3. n \in 0..(Len(all) - Len(got)) /\ Len(got) \in 0..Len(all)
  <2>1. Len(got) \in 0..Len(all)
    <3> HIDE DEF all
    <3>1. Len(all) \in Nat /\ Len(got) \in Nat
      BY <1>2
    <3> QED
      BY <3>1 DEF IsPrefix, all
  <2> HIDE DEF all
  <2> QED
    BY <2>1, <1>2, TakenIs
<1>4. /\ next \in Seq(S) /\ Len(next) = Len(got) + n /\ IsPrefix(next, all)
      /\ Len(got) + n >= Len(all) => next = all
  <2>1. IsPrefix(got, all)
    OBVIOUS
  <2> HIDE DEF all, n
  <2>2. Len(got) + n >= Len(all) => n = Len(all) - Len(got)
    BY <1>2, <1>3
  <2>3. /\ next \in Seq(S) /\ Len(next) = Len(got) + n /\ IsPrefix(next, all)
        /\ n = Len(all) - Len(got) => next = all
    <3>1. all \in Seq(S) /\ n \in 0..(Len(all) - Len(got))
      BY <1>2, <1>3
    <3> QED
      BY <2>1, <3>1, PrefixGrows
  <2> QED
    BY <2>2, <2>3
<1>5. Snapshot' = Snapshot /\ Live' = Live
  BY DEF Snapshot, Paths, Live
<1>6. IF TooLarge(all, Len(got), q)
      THEN walk' = [status |-> "too_large", query |-> q, base |-> Snapshot,
                    cursor |-> None, got |-> got]
      ELSE walk' = [status |-> IF Len(got) + n < Len(all) THEN "walking" ELSE "done",
                    query |-> q, base |-> Snapshot, got |-> next,
                    cursor |-> [sequence |-> sequence, query |-> q, index |-> Len(got) + n]]
  BY Zenon DEF Page, Grown
<1>7. MemoryInv'
  BY <1>5 DEF Inv, MemoryInv, Legible
<1>8. IsPrefix(got, all)
  OBVIOUS
<1>9. WalkInv'
  <2> HIDE DEF all, n, next
  <2>1. CASE TooLarge(all, Len(got), q)
    <3>1. walk' = [status |-> "too_large", query |-> q, base |-> Snapshot,
                   cursor |-> None, got |-> got]
      BY <1>6, <2>1
    <3>2. All(walk'.base, walk'.query) = all
      BY <3>1 DEF all
    <3> QED
      BY <3>1, <3>2, <1>1, <1>8 DEF WalkInv
  <2>2. CASE ~TooLarge(all, Len(got), q)
    <3>1. walk' = [status |-> IF Len(got) + n < Len(all) THEN "walking" ELSE "done",
                   query |-> q, base |-> Snapshot, got |-> next,
                   cursor |-> [sequence |-> sequence, query |-> q, index |-> Len(got) + n]]
      BY <1>6, <2>2
    <3>2. /\ DOMAIN walk' = {"status", "query", "base", "cursor", "got"}
          /\ walk'.status \in {"walking", "done"} /\ walk'.query = q
          /\ walk'.base = Snapshot /\ walk'.got = next
          /\ walk'.cursor.query = q /\ walk'.cursor.sequence = sequence
          /\ walk'.cursor.index = Len(got) + n
      BY <3>1
    <3>3. walk'.status = "done" => next = all
      <4>1. walk'.status = "done" => ~(Len(got) + n < Len(all))
        BY <3>1
      <4>2. ~(Len(got) + n < Len(all)) => Len(got) + n >= Len(all)
        BY <1>2, <1>3
      <4> QED
        BY <4>1, <4>2, <1>4
    <3>4. All(walk'.base, walk'.query) = all
      BY <3>2 DEF all
    <3> QED
      BY <3>2, <3>3, <3>4, <1>1, <1>4, <1>5 DEF WalkInv
  <2> QED
    BY <2>1, <2>2
<1> QED
  BY <1>7, <1>9 DEF Inv

(* A walk that ends keeps what it has. *)
LEMMA EndedInv ==
  ASSUME Inv, NEW status \in {"expired", "not_found"}, Ended(status),
         UNCHANGED <<native, sequence>>
  PROVE  Inv'
<1>1. MemoryInv'
  BY DEF Inv, MemoryInv, Legible, Live
<1>2. WalkInv'
  <2>1. /\ walk'.status = status /\ walk'.query = walk.query
        /\ walk'.base = walk.base /\ walk'.got = walk.got
        /\ DOMAIN walk' = DOMAIN walk
    BY DEF Ended, Inv, WalkInv
  <2> QED
    BY <2>1 DEF Inv, WalkInv
<1> QED
  BY <1>1, <1>2 DEF Inv

(* A commit keeps Inv.                                                     *)
LEMMA CommitInv ==
  ASSUME Inv, Commit PROVE Inv'
<1>1. native \in [Resource -> Document \cup {None}] /\ \A r \in Resource : Written[r] \subseteq Document
  BY ViewAssumption DEF Inv, MemoryInv
<1>2. ASSUME NEW r \in Resource, NEW d \in Written[r], Transact([native EXCEPT ![r] = d])
      PROVE  Inv'
  <2>1. [native EXCEPT ![r] = d] \in [Resource -> Document \cup {None}]
    BY <1>1
  <2> QED
    BY <2>1, <1>2, TransactInv
<1>3. ASSUME NEW R \in SUBSET Live,
             Transact([r \in Resource |-> IF r \in R THEN None ELSE native[r]])
      PROVE  Inv'
  <2>1. [r \in Resource |-> IF r \in R THEN None ELSE native[r]]
           \in [Resource -> Document \cup {None}]
    BY <1>1
  <2> QED
    BY <2>1, <1>3, TransactInv
<1> QED
  BY <1>2, <1>3 DEF Commit

(* A first page keeps Inv.                                                 *)
LEMMA FirstPageInv ==
  ASSUME Inv, NEW q \in Query, FirstPage(q) PROVE Inv'
<1>1. CASE NotFound(Snapshot, q)
  BY <1>1, EndedInv DEF FirstPage
<1>2. CASE ~NotFound(Snapshot, q)
  <2>1. Page(q, Snapshot, <<>>, 0) /\ UNCHANGED <<native, sequence>>
    BY <1>2 DEF FirstPage
  <2>2. Len(<<>>) = 0 /\ <<>> \in Seq({})
    OBVIOUS
  <2>3. PICK S : All(Snapshot, q) \in Seq(S)
    BY SnapshotIsFiles, AllIsSequence DEF Inv, MemoryInv
  <2>4. IsPrefix(<<>>, All(Snapshot, q))
    BY <2>3, WholeSequence
  <2> QED
    BY <2>1, <2>2, <2>4, PageInv
<1> QED
  BY <1>1, <1>2

(* A further page keeps Inv: the cursor it accepts is of the memory as it  *)
(* is.                                                                     *)
LEMMA NextPageInv ==
  ASSUME Inv, NEW q \in Query, NextPage(q) PROVE Inv'
<1>1. CASE ~Accepts(walk.cursor, q)
  BY <1>1, EndedInv DEF NextPage
<1>2. CASE Accepts(walk.cursor, q)
  <2>1. /\ Page(q, walk.base, walk.got, walk.cursor.index)
        /\ UNCHANGED <<native, sequence>> /\ walk.status = "walking"
    BY <1>2 DEF NextPage
  <2>2. /\ walk.query = q /\ q # None
        /\ walk.cursor.index = Len(walk.got) /\ walk.base = Snapshot
    BY <1>2, <2>1, ViewAssumption DEF Inv, WalkInv, Accepts
  <2>3. IsPrefix(walk.got, All(walk.base, q)) /\ \E S : walk.got \in Seq(S)
    BY <2>2 DEF Inv, WalkInv
  <2>4. Page(q, walk.base, walk.got, Len(walk.got))
    BY <2>1, <2>2
  <2> QED
    BY <2>1, <2>2, <2>3, <2>4, PageInv
<1> QED
  BY <1>1, <1>2

(* Every step keeps Inv.                                                   *)
LEMMA NextInv == Inv /\ [Next]_vars => Inv'
<1> SUFFICES ASSUME Inv, [Next]_vars PROVE Inv'
  OBVIOUS
<1>1. CASE Commit
  BY <1>1, CommitInv
<1>2. ASSUME NEW q \in Query, FirstPage(q) \/ NextPage(q) PROVE Inv'
  BY <1>2, FirstPageInv, NextPageInv
<1>3. CASE UNCHANGED vars
  <2>1. native' = native /\ sequence' = sequence /\ walk' = walk
    BY <1>3 DEF vars
  <2>2. MemoryInv'
    BY <2>1 DEF Inv, MemoryInv, Legible, Live
  <2>3. Snapshot' = Snapshot
    BY <2>1 DEF Snapshot, Paths, Live
  <2>4. WalkInv'
    BY <2>1, <2>3 DEF Inv, WalkInv
  <2> QED
    BY <2>2, <2>4 DEF Inv
<1> QED
  BY <1>1, <1>2, <1>3 DEF Next

(* The invariant of the whole module. *)
THEOREM ViewInvariant == Spec => []Inv
<1>1. Init => Inv
  BY InitInv
<1>2. Inv /\ [Next]_vars => Inv'
  BY NextInv
<1> QED
  BY <1>1, <1>2, PTL DEF Spec

-----------------------------------------------------------------------------
(* The theorems *)

(* Whatever commits write or delete, and wherever a reader stands, the     *)
(* live memories are never ambiguous, so that a snapshot of them can be    *)
(* made, and a cursor says how much its reader has (validMemoryPaths,      *)
(* cursorStart).                                                           *)
THEOREM TypesOK == Spec => []TypeOK
<1>1. Inv => TypeOK
  BY DEF Inv, MemoryInv, WalkInv, TypeOK, Legible, Live
<1> QED
  BY <1>1, ViewInvariant, PTL

(* memory.search finds, in any document and for any terms, just what it is *)
(* defined to find: each of the minimal windows once, in the order of      *)
(* their first lines (the scan of MemorySearch).                           *)
THEOREM SearchIsExact == Spec => []SearchFindsMinimalWindows
<1>1. Inv => SearchFindsMinimalWindows
  <2> SUFFICES ASSUME Inv, NEW p \in Paths, NEW q \in Query \cap {walk.query},
                      q.kind = "search"
               PROVE  Exact(Snapshot[p], q, MatchesOf[q][Snapshot[p]])
    BY Zenon DEF SearchFindsMinimalWindows, Exact
  <2>1. Snapshot[p] \in Document
    BY SnapshotIsFiles DEF Inv, MemoryInv, Files
  <2>2. MatchesOf[q][Snapshot[p]] = Matches(Snapshot[p], q)
    BY <2>1 DEF MatchesOf
  <2> QED
    BY <2>1, <2>2, MatchesAreExact
<1> QED
  BY <1>1, ViewInvariant, PTL

(* What a reader has collected is a prefix of the answer of the one        *)
(* snapshot that its first page was made from, the whole of it after the   *)
(* last page, however many commits there are between the pages; and what   *)
(* it reads under the sequence of its cursor is of that snapshot too.      *)
THEOREM WalkIsOfOneSnapshot == Spec => []WalkIsOneSnapshot
<1>1. Inv => WalkIsOneSnapshot
  <2> SUFFICES ASSUME Inv, walk.query # None PROVE WalkIsOneSnapshot
    BY DEF WalkIsOneSnapshot
  <2>1. /\ IsPrefix(walk.got, All(walk.base, walk.query))
        /\ walk.status = "done" => walk.got = All(walk.base, walk.query)
    BY DEF Inv, WalkInv
  <2>2. ASSUME walk.status \in {"walking", "done"}, NEW p \in DOMAIN walk.base
        PROVE  LET answer == MemoryRead(p, 1, Len(walk.base[p]), walk.cursor.sequence)
               IN  answer = None \/ answer.content = walk.base[p]
    <3> DEFINE doc == Snapshot[p]
               answer == MemoryRead(p, 1, Len(walk.base[p]), walk.cursor.sequence)
    <3>1. CASE walk.cursor.sequence # sequence
      BY <3>1 DEF MemoryRead
    <3>2. CASE walk.cursor.sequence = sequence
      <4>1. walk.base = Snapshot
        BY <2>2, <3>2 DEF Inv, WalkInv
      <4>2. p \in Paths /\ doc \in Document /\ walk.base[p] = doc
        BY <2>2, <4>1, SnapshotIsFiles DEF Inv, MemoryInv, Files
      <4> HIDE DEF doc
      <4>3. doc \in Seq(Line) /\ Len(doc) \in Nat
        BY <4>2, ViewAssumption
      <4>4. Min({Len(doc), 1 + Len(doc) - 1}) = Len(doc)
        <5>1. 1 + Len(doc) - 1 = Len(doc)
          BY <4>3
        <5> QED
          BY <5>1, <4>3, MinOfTwo
      <4>5. SubSeq(doc, 1, Len(doc)) = doc
        BY <4>3, WholeSequence
      <4>6. answer = None \/ answer.content = SubSeq(doc, 1, Min({Len(doc), 1 + Len(doc) - 1}))
        BY <4>2 DEF MemoryRead, doc
      <4> QED
        BY <4>2, <4>4, <4>5, <4>6
    <3> QED
      BY <3>1, <3>2
  <2> QED
    BY <2>1, <2>2 DEF WalkIsOneSnapshot
<1> QED
  BY <1>1, ViewInvariant, PTL
=============================================================================
