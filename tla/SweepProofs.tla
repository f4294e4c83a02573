---------------------------- MODULE SweepProofs -----------------------------
(***************************************************************************)
(* The invariants of MCInputs' sweep, for every resolution of the model's  *)
(* output, and for every text, date and database URL: the theorems on the  *)
(* parsers have no bound; the sweep has one state for each of some inputs. *)
(*                                                                         *)
(* What a fold computes is proved by induction, on the length of the text. *)
(* The library's induction theorems take a predicate; here it is a set of  *)
(* numbers, of which WFMin gives the least one outside (LeastMember).      *)
(***************************************************************************)
EXTENDS MCInputs, RiskProofs, SequenceTheorems, WellFoundedInduction

-----------------------------------------------------------------------------
(* Induction.                                                              *)

LEMMA LeastMember ==
    ASSUME NEW S \in SUBSET Nat, S # {}
    PROVE  \E n \in S : \A m \in S : n <= m
<1> DEFINE R == {p \in Nat \X Nat : p[1] < p[2]}
<1>1. IsWellFoundedOn(R, Nat)
  <2>1. R = OpToRel(<, Nat)
    BY DEF OpToRel
  <2> QED
    BY <2>1, NatLessThanWellFounded
<1>2. PICK n \in S : \A m \in S : ~(<<m, n>> \in R)
  BY <1>1, WFMin
<1>3. \A m \in S : ~(m < n)
  BY <1>2
<1> QED
  BY <1>3

\* Min of the community modules.
LEMMA MinIsLeast ==
    ASSUME NEW S \in SUBSET Nat, S # {}
    PROVE  Min(S) \in S /\ \A m \in S : Min(S) <= m
BY LeastMember DEF Min

\* Max of a set of indices, by the least distance from the end.
LEMMA MaxIsGreatest ==
    ASSUME NEW n \in Nat, NEW S \in SUBSET (1 .. n), S # {}
    PROVE  Max(S) \in S /\ \A m \in S : Max(S) >= m
<1> DEFINE T == {n - m : m \in S}
<1>1. PICK d \in T : \A t \in T : d <= t
  <2>1. T \in SUBSET Nat
    OBVIOUS
  <2>2. PICK y : y \in S
    OBVIOUS
  <2>3. n - y \in T
    BY <2>2
  <2> QED
    BY <2>1, <2>3, LeastMember
<1>2. PICK x \in S : d = n - x
  OBVIOUS
<1>3. \A m \in S : x >= m
  <2> SUFFICES ASSUME NEW m \in S PROVE x >= m
    OBVIOUS
  <2>1. n - x <= n - m
    BY <1>1, <1>2
  <2> QED
    BY <2>1
<1> QED
  BY <1>3 DEF Max

\* What holds of 0 and of every next number holds up to n.
LEMMA Induction ==
    ASSUME NEW n \in Nat, NEW S, 0 \in S, \A k \in 1 .. n : k - 1 \in S => k \in S
    PROVE  \A k \in 0 .. n : k \in S
<1> DEFINE T == {k \in 0 .. n : k \notin S}
<1> SUFFICES ASSUME T # {} PROVE FALSE
  OBVIOUS
<1>1. PICK k \in T : \A m \in T : k <= m
  <2>1. T \in SUBSET Nat
    OBVIOUS
  <2> QED
    BY <2>1, LeastMember
<1>2. k # 0 /\ k \in 1 .. n /\ k - 1 \in 0 .. n /\ k - 1 \notin T
  BY <1>1
<1> QED
  BY <1>1, <1>2

-----------------------------------------------------------------------------
(* Folds over a sequence of n elements: MapThenFoldSet recurs over subsets *)
(* of its indices, the greatest index first.                               *)

Solves(g, k, A, base, step) ==
    /\ g \in [SUBSET (1 .. k) -> A]
    /\ \A u \in SUBSET (1 .. k) :
          g[u] = IF u = {} THEN base ELSE step[<<Max(u), g[u \ {Max(u)}]>>]

\* A recursion over the subsets of 1 .. n, by a function of the greatest index
\* and the value for the others, has a solution.
LEMMA FoldExists ==
    ASSUME NEW n \in Nat, NEW A, NEW base \in A, NEW step \in [(1 .. n) \X A -> A]
    PROVE  \E g : Solves(g, n, A, base, step)
<1> DEFINE Done == {k \in 0 .. n : \E g : Solves(g, k, A, base, step)}
<1>1. 0 \in Done
  <2> DEFINE g == [u \in SUBSET (1 .. 0) |-> base]
  <2>1. \A u \in SUBSET (1 .. 0) : u = {}
    OBVIOUS
  <2>2. g \in [SUBSET (1 .. 0) -> A]
    OBVIOUS
  <2>3. \A u \in SUBSET (1 .. 0) : g[u] = base
    OBVIOUS
  <2> HIDE DEF g
  <2>4. Solves(g, 0, A, base, step)
    BY <2>1, <2>2, <2>3 DEF Solves
  <2> QED
    BY <2>4
<1>2. ASSUME NEW k \in 1 .. n, k - 1 \in Done PROVE k \in Done
  <2> USE DEF Solves
  <2>1. PICK h : Solves(h, k - 1, A, base, step)
    BY <1>2
  <2> DEFINE g == [u \in SUBSET (1 .. k) |->
                     IF k \in u THEN step[<<k, h[u \ {k}]>>] ELSE h[u]]
  <2>2. ASSUME NEW u \in SUBSET (1 .. k)
        PROVE  /\ u \ {k} \in SUBSET (1 .. k - 1)
               /\ k \notin u => u \in SUBSET (1 .. k - 1)
               /\ k \in u => u # {} /\ Max(u) = k
               /\ u # {} /\ k \notin u => Max(u) # k /\ Max(u) \in u
    <3>1. u # {} => Max(u) \in u /\ \A m \in u : Max(u) >= m
      <4>1. k \in Nat
        OBVIOUS
      <4> QED
        BY <4>1, MaxIsGreatest
    <3>2. u \ {k} \in SUBSET (1 .. k - 1) /\ (k \notin u => u \in SUBSET (1 .. k - 1))
      OBVIOUS
    <3>3. k \in u => Max(u) = k
      <4>1. ASSUME k \in u PROVE Max(u) \in 1 .. k /\ Max(u) >= k
        BY <3>1, <4>1
      <4> QED
        BY <4>1
    <3> QED
      BY <3>1, <3>2, <3>3
  <2>3. \A u \in SUBSET (1 .. k) : h[u \ {k}] \in A /\ (k \notin u => h[u] \in A)
    BY <2>1, <2>2
  <2>4. g \in [SUBSET (1 .. k) -> A]
    BY <2>3
  <2>5. ASSUME NEW u \in SUBSET (1 .. k)
        PROVE  g[u] = IF u = {} THEN base ELSE step[<<Max(u), g[u \ {Max(u)}]>>]
    <3>1. CASE u = {}
      BY <2>1, <3>1
    <3>2. CASE k \in u
      <4>1. g[u \ {k}] = h[u \ {k}]
        BY <2>2
      <4> QED
        BY <2>2, <3>2, <4>1
    <3>3. CASE u # {} /\ k \notin u
      <4>1. u \in SUBSET (1 .. k - 1) /\ g[u] = h[u]
        BY <2>2, <3>3
      <4>2. g[u \ {Max(u)}] = h[u \ {Max(u)}]
        BY <3>3
      <4> QED
        BY <2>1, <3>3, <4>1, <4>2
    <3> QED
      BY <3>1, <3>2, <3>3
  <2> HIDE DEF g
  <2>6. Solves(g, k, A, base, step)
    BY <2>4, <2>5
  <2> HIDE DEF Solves
  <2> QED
    BY <2>6
<1> HIDE DEF Done
<1>3. \A k \in 0 .. n : k \in Done
  BY <1>1, <1>2, Induction
<1> QED
  BY <1>3 DEF Done

\* The subsets that matter: a prefix, without its greatest index.
LEMMA Prefix ==
    ASSUME NEW n \in Nat, NEW k \in 1 .. n
    PROVE  /\ 1 .. k \in SUBSET (1 .. n) /\ 1 .. k - 1 \in SUBSET (1 .. n) /\ 1 .. k # {}
           /\ Max(1 .. k) = k /\ (1 .. k) \ {k} = 1 .. k - 1
<1>1. 1 .. k \in SUBSET (1 .. n) /\ k \in 1 .. k /\ (1 .. k) \ {k} = 1 .. k - 1
  OBVIOUS
<1>2. Max(1 .. k) \in 1 .. k /\ Max(1 .. k) >= k
  BY <1>1, MaxIsGreatest
<1> QED
  BY <1>1, <1>2

\* f goes from nothing to Only(t, V), index by index.
Cuts(f, S, t, V) ==
    /\ f \in [0 .. Len(t) -> Seq(S)]
    /\ f[0] = <<>>
    /\ \A k \in 1 .. Len(t) :
          f[k] = IF t[k] \in V THEN Append(f[k - 1], t[k]) ELSE f[k - 1]
    /\ f[Len(t)] = Only(t, V)

LEMMA OnlySteps ==
    ASSUME NEW S, NEW t \in Seq(S), NEW V
    PROVE  \E f : Cuts(f, S, t, V)
<1> DEFINE n == Len(t)
           A == Seq(S)
           Equation(g) ==
             g = [u \in SUBSET DOMAIN t |->
                    IF u = {} THEN <<>>
                    ELSE IF t[Max(u)] \in V THEN Append(g[u \ {Max(u)}], t[Max(u)])
                         ELSE g[u \ {Max(u)}]]
           iter == CHOOSE g : Equation(g)
<1>1. /\ n \in Nat /\ DOMAIN t = 1 .. n /\ n = Len(t) /\ <<>> \in A
      /\ \A k \in 1 .. n, r \in A : Append(r, t[k]) \in A
  <2>1. n \in Nat /\ DOMAIN t = 1 .. n /\ \A k \in 1 .. n : t[k] \in S
    BY LenProperties, ElementOfSeq
  <2> QED
    BY <2>1, EmptySeq, AppendProperties
<1>2. Only(t, V) = iter[DOMAIN t]
  BY DEF Only, FoldLeft, MapThenFoldSet
<1> HIDE DEF n, A
<1>3. \E g : Equation(g)
  <2> DEFINE Next1(k, r) == IF t[k] \in V THEN Append(r, t[k]) ELSE r
             step == [p \in (1 .. n) \X A |-> Next1(p[1], p[2])]
  <2>1. \A k \in 1 .. n, r \in A : Next1(k, r) \in A
    BY <1>1
  <2> HIDE DEF Next1
  <2>2. /\ step \in [(1 .. n) \X A -> A]
        /\ \A k \in 1 .. n, r \in A : step[<<k, r>>] = Next1(k, r)
    BY <2>1
  <2> HIDE DEF step
  <2>3. PICK g : Solves(g, n, A, <<>>, step)
    BY <1>1, <2>2, FoldExists
  <2>4. \A u \in SUBSET (1 .. n) : u # {} => Max(u) \in 1 .. n /\ g[u \ {Max(u)}] \in A
    BY <1>1, <2>3, MaxIsGreatest DEF Solves
  <2>5. \A u \in SUBSET (1 .. n) : g[u] = IF u = {} THEN <<>> ELSE Next1(Max(u), g[u \ {Max(u)}])
    BY <2>2, <2>3, <2>4 DEF Solves
  <2>6. g = [u \in SUBSET (1 .. n) |-> IF u = {} THEN <<>> ELSE Next1(Max(u), g[u \ {Max(u)}])]
    BY <2>3, <2>5 DEF Solves
  <2>7. Equation(g)
    BY <1>1, <2>6 DEF Next1
  <2> QED
    BY <2>7
<1>4. Equation(iter)
  BY <1>3
<1>5. \A u \in SUBSET (1 .. n) :
         iter[u] = IF u = {} THEN <<>>
                   ELSE IF t[Max(u)] \in V THEN Append(iter[u \ {Max(u)}], t[Max(u)])
                        ELSE iter[u \ {Max(u)}]
  BY <1>1, <1>4
<1> HIDE DEF iter, Equation
<1>6. ASSUME NEW k \in 1 .. n
      PROVE  iter[1 .. k] = IF t[k] \in V THEN Append(iter[1 .. k - 1], t[k]) ELSE iter[1 .. k - 1]
  <2>1. /\ 1 .. k \in SUBSET (1 .. n) /\ 1 .. k # {} /\ Max(1 .. k) = k
        /\ (1 .. k) \ {k} = 1 .. k - 1
    BY <1>1, Prefix
  <2> QED
    BY <1>5, <2>1
<1> DEFINE f == [k \in 0 .. n |-> iter[1 .. k]]
<1>7. f[0] = <<>>
  <2>1. 1 .. 0 = {} /\ {} \in SUBSET (1 .. n) /\ 0 \in 0 .. n
    BY <1>1
  <2> QED
    BY <1>5, <2>1
<1>8. \A k \in 1 .. n : f[k] = IF t[k] \in V THEN Append(f[k - 1], t[k]) ELSE f[k - 1]
  <2>1. \A k \in 1 .. n : k \in 0 .. n /\ k - 1 \in 0 .. n
    BY <1>1
  <2> QED
    BY <1>6, <2>1
<1>9. f[n] = iter[1 .. n] /\ f = [k \in 0 .. n |-> f[k]]
  BY <1>1
<1> HIDE DEF f
<1>10. \A k \in 0 .. n : f[k] \in A
  <2> DEFINE Typed == {k \in 0 .. n : f[k] \in A}
  <2>1. 0 \in Typed
    BY <1>1, <1>7
  <2>2. ASSUME NEW k \in 1 .. n, k - 1 \in Typed PROVE k \in Typed
    <3>1. f[k - 1] \in A
      BY <2>2
    <3>2. f[k] \in A
      BY <1>1, <1>8, <3>1
    <3> QED
      BY <1>1, <3>2
  <2> HIDE DEF Typed
  <2>3. \A k \in 0 .. n : k \in Typed
    BY <1>1, <2>1, <2>2, Induction
  <2> QED
    BY <2>3 DEF Typed
<1>11. f \in [0 .. n -> A] /\ Only(t, V) = f[n]
  BY <1>1, <1>2, <1>9, <1>10
<1>12. Cuts(f, S, t, V)
  BY <1>1, <1>7, <1>8, <1>11 DEF A, Cuts
<1> QED
  BY <1>12

\* The elements of r are those of t that are in V, up to index m, at their
\* places p in t: in order, no more and no less.
Kept(r, p, t, m, V) ==
    /\ p \in [1 .. Len(r) -> 1 .. m]
    /\ \A k \in 1 .. Len(r) : r[k] = t[p[k]] /\ t[p[k]] \in V
    /\ \A j, k \in 1 .. Len(r) : j < k => p[j] < p[k]
    /\ \A i \in 1 .. m : t[i] \in V => \E k \in 1 .. Len(r) : p[k] = i

LEMMA OnlyKeeps ==
    ASSUME NEW S, NEW t \in Seq(S), NEW V
    PROVE  Only(t, V) \in Seq(S) /\ \E p : Kept(Only(t, V), p, t, Len(t), V)
<1>1. PICK f : Cuts(f, S, t, V)
  BY OnlySteps
<1>2. Len(t) \in Nat /\ \A k \in 1 .. Len(t) : t[k] \in S
  BY LenProperties, ElementOfSeq
<1>3. /\ f \in [0 .. Len(t) -> Seq(S)] /\ f[0] = <<>> /\ f[Len(t)] = Only(t, V)
      /\ \A k \in 1 .. Len(t) :
            f[k] = IF t[k] \in V THEN Append(f[k - 1], t[k]) ELSE f[k - 1]
  BY <1>1 DEF Cuts
<1> DEFINE n == Len(t)
           Done == {m \in 0 .. n : \E p : Kept(f[m], p, t, m, V)}
<1>4. n \in Nat /\ n = Len(t)
  BY <1>2
<1> HIDE DEF n
<1>5. 0 \in Done
  <2>1. Kept(f[0], <<>>, t, 0, V)
    BY <1>3 DEF Kept
  <2> QED
    BY <1>4, <2>1
<1>6. ASSUME NEW m \in 1 .. n, m - 1 \in Done PROVE m \in Done
  <2>1. PICK p : Kept(f[m - 1], p, t, m - 1, V)
    BY <1>6
  <2>2. f[m - 1] \in Seq(S) /\ m \in Nat /\ m - 1 \in Nat
    BY <1>3, <1>4
  <2> DEFINE r == f[m - 1]
             l == Len(r)
  <2>3. l \in Nat /\ r \in Seq(S) /\ l = Len(r)
    BY <2>2, LenProperties
  <2>4. Kept(r, p, t, m - 1, V)
    BY <2>1
  <2>5. f[m] = IF t[m] \in V THEN Append(r, t[m]) ELSE r
    BY <1>3, <1>4
  <2> HIDE DEF r, l
  <2>6. CASE t[m] \notin V
    <3>1. Kept(r, p, t, m, V)
      BY <2>2, <2>3, <2>4, <2>6 DEF Kept
    <3> QED
      BY <1>4, <2>5, <2>6, <3>1
  <2>7. CASE t[m] \in V
    <3> DEFINE q == [k \in 1 .. l + 1 |-> IF k = l + 1 THEN m ELSE p[k]]
               s == Append(r, t[m])
    <3>1. Len(s) = l + 1 /\ s[l + 1] = t[m] /\ \A k \in 1 .. l : s[k] = r[k]
      <4>1. t[m] \in S
        BY <1>2, <1>4
      <4> QED
        BY <2>3, <4>1, AppendProperties
    <3>2. \A k \in 1 .. l : p[k] \in 1 .. m - 1
      BY <2>3, <2>4 DEF Kept
    <3>3. /\ q \in [1 .. l + 1 -> 1 .. m] /\ q[l + 1] = m
          /\ \A k \in 1 .. l : q[k] = p[k]
      BY <2>2, <2>3, <3>2
    <3> HIDE DEF q, s
    <3>4. \A k \in 1 .. l + 1 : k \in 1 .. l \/ k = l + 1
      BY <2>3
    <3>5. \A k \in 1 .. l + 1 : s[k] = t[q[k]] /\ t[q[k]] \in V
      BY <2>3, <2>4, <2>7, <3>1, <3>3, <3>4 DEF Kept
    <3>6. \A j, k \in 1 .. l + 1 : j < k => q[j] < q[k]
      <4> SUFFICES ASSUME NEW j \in 1 .. l + 1, NEW k \in 1 .. l + 1, j < k
                   PROVE  q[j] < q[k]
        OBVIOUS
      <4>1. j \in 1 .. l
        BY <2>3
      <4>2. CASE k = l + 1
        BY <2>2, <3>2, <3>3, <4>1, <4>2
      <4>3. CASE k \in 1 .. l
        BY <2>3, <2>4, <3>3, <4>1, <4>3 DEF Kept
      <4> QED
        BY <3>4, <4>2, <4>3
    <3>7. \A i \in 1 .. m : t[i] \in V => \E k \in 1 .. l + 1 : q[k] = i
      <4> SUFFICES ASSUME NEW i \in 1 .. m, t[i] \in V
                   PROVE  \E k \in 1 .. l + 1 : q[k] = i
        OBVIOUS
      <4>1. l + 1 \in 1 .. l + 1 /\ \A k \in 1 .. l : k \in 1 .. l + 1
        BY <2>3
      <4>2. CASE i = m
        BY <3>3, <4>1, <4>2
      <4>3. CASE i # m
        <5>1. i \in 1 .. m - 1
          BY <2>2, <4>3
        <5>2. PICK k \in 1 .. l : p[k] = i
          BY <2>3, <2>4, <5>1 DEF Kept
        <5> QED
          BY <3>3, <4>1, <5>2
      <4> QED
        BY <4>2, <4>3
    <3>8. Kept(s, q, t, m, V)
      BY <2>3, <3>1, <3>3, <3>5, <3>6, <3>7 DEF Kept
    <3>9. f[m] = s
      BY <2>5, <2>7 DEF s
    <3> QED
      BY <1>4, <3>8, <3>9
  <2> QED
    BY <2>6, <2>7
<1>7. \A m \in 0 .. n : m \in Done
  <2> HIDE DEF Done
  <2> QED
    BY <1>4, <1>5, <1>6, Induction
<1>8. n \in Done /\ f[n] \in Seq(S)
  BY <1>3, <1>4, <1>7
<1> QED
  BY <1>3, <1>4, <1>8

\* Where there is nothing to cut out, t stays as it is.
LEMMA OnlyAll ==
    ASSUME NEW S, NEW t \in Seq(S), NEW V, \A k \in 1 .. Len(t) : t[k] \in V
    PROVE  Only(t, V) = t
<1>1. PICK f : Cuts(f, S, t, V)
  BY OnlySteps
<1>2. Len(t) \in Nat /\ \A k \in 1 .. Len(t) : t[k] \in S
  BY LenProperties, ElementOfSeq
<1>3. /\ f \in [0 .. Len(t) -> Seq(S)] /\ f[0] = <<>> /\ f[Len(t)] = Only(t, V)
      /\ \A k \in 1 .. Len(t) : f[k] = Append(f[k - 1], t[k])
  BY <1>1 DEF Cuts
<1> DEFINE n == Len(t)
           Same == {m \in 0 .. n : Len(f[m]) = m /\ \A k \in 1 .. m : f[m][k] = t[k]}
<1>4. n \in Nat /\ n = Len(t)
  BY <1>2
<1> HIDE DEF n
<1>5. 0 \in Same
  BY <1>3, <1>4
<1>6. ASSUME NEW m \in 1 .. n, m - 1 \in Same PROVE m \in Same
  <2> DEFINE r == f[m - 1]
  <2>1. r \in Seq(S) /\ t[m] \in S /\ f[m] = Append(r, t[m]) /\ m \in Nat
    <3>1. m \in 1 .. Len(t) /\ m - 1 \in 0 .. Len(t) /\ m \in Nat
      BY <1>4
    <3> QED
      BY <1>2, <1>3, <3>1
  <2>2. Len(r) = m - 1 /\ \A k \in 1 .. m - 1 : r[k] = t[k]
    BY <1>6
  <2> HIDE DEF r
  <2>3. Len(f[m]) = m /\ f[m][m] = t[m] /\ \A k \in 1 .. m - 1 : f[m][k] = t[k]
    BY <2>1, <2>2, AppendProperties
  <2> QED
    BY <2>3
<1>7. \A m \in 0 .. n : m \in Same
  <2> HIDE DEF Same
  <2> QED
    BY <1>4, <1>5, <1>6, Induction
<1>8. f[n] \in Seq(S) /\ Len(f[n]) = n /\ \A k \in 1 .. n : f[n][k] = t[k]
  BY <1>3, <1>4, <1>7
<1> QED
  BY <1>3, <1>4, <1>8, SeqEqual

-----------------------------------------------------------------------------
(* Database URLs.                                                          *)

\* The pieces of Stripped(v) are those of v but for the unsupported ones, with
\* sslmode renamed: p gives the place each of them had.
LEMMA StrippedKeeps ==
    ASSUME NEW v \in Seq(Piece)
    PROVE  /\ Stripped(v) \in Seq(Piece)
           /\ \E p \in [1 .. Len(Stripped(v)) -> 1 .. Len(v)] :
                /\ \A k \in 1 .. Len(Stripped(v)) :
                      Stripped(v)[k] = Ssl(v[p[k]]) /\ ~Unsupported(v[p[k]])
                /\ \A j, k \in 1 .. Len(Stripped(v)) : j < k => p[j] < p[k]
                /\ \A i \in 1 .. Len(v) : ~Unsupported(v[i]) =>
                      \E k \in 1 .. Len(Stripped(v)) : p[k] = i
<1> DEFINE w == [k \in 1 .. Len(v) |-> Ssl(v[k])]
           V == {piece \in Piece : ~Unsupported(piece)}
<1>1. Len(v) \in Nat /\ \A k \in 1 .. Len(v) : v[k] \in Piece
  BY LenProperties, ElementOfSeq
<1>2. \A piece \in Piece : Ssl(piece) \in Piece /\ (Unsupported(Ssl(piece)) <=> Unsupported(piece))
  BY DEF Ssl, Unsupported, Piece
<1>3. /\ w \in Seq(Piece) /\ Len(w) = Len(v)
      /\ \A k \in 1 .. Len(v) : w[k] = Ssl(v[k]) /\ (w[k] \in V <=> ~Unsupported(v[k]))
  <2>1. \A k \in 1 .. Len(v) : w[k] = Ssl(v[k]) /\ w[k] \in Piece
    BY <1>1, <1>2
  <2>2. w \in [1 .. Len(v) -> Piece]
    BY <2>1
  <2>3. w \in Seq(Piece) /\ Len(w) = Len(v)
    BY <1>1, <2>2, LenProperties
  <2> QED
    BY <1>1, <1>2, <2>1, <2>3
<1>4. Stripped(v) = Only(w, V)
  BY DEF Stripped
<1> HIDE DEF w, V
<1>5. Only(w, V) \in Seq(Piece) /\ \E p : Kept(Only(w, V), p, w, Len(w), V)
  BY <1>3, OnlyKeeps
<1>6. PICK p : Kept(Stripped(v), p, w, Len(v), V)
  BY <1>3, <1>4, <1>5
<1>7. /\ p \in [1 .. Len(Stripped(v)) -> 1 .. Len(v)]
      /\ \A k \in 1 .. Len(Stripped(v)) : Stripped(v)[k] = w[p[k]] /\ w[p[k]] \in V
      /\ \A j, k \in 1 .. Len(Stripped(v)) : j < k => p[j] < p[k]
      /\ \A i \in 1 .. Len(v) : w[i] \in V => \E k \in 1 .. Len(Stripped(v)) : p[k] = i
  BY <1>6, Zenon DEF Kept
<1>8. \A k \in 1 .. Len(Stripped(v)) : p[k] \in 1 .. Len(v)
  BY <1>7
<1>9. \A k \in 1 .. Len(Stripped(v)) : Stripped(v)[k] = Ssl(v[p[k]]) /\ ~Unsupported(v[p[k]])
  BY <1>3, <1>7, <1>8
<1>10. \A i \in 1 .. Len(v) : ~Unsupported(v[i]) => \E k \in 1 .. Len(Stripped(v)) : p[k] = i
  BY <1>3, <1>7
<1> QED
  BY <1>4, <1>5, <1>7, <1>9, <1>10

\* The result for asyncpg: what the one question mark that may be put back
\* leaves as it was.
LEMMA AssembledPieces ==
    ASSUME NEW given, given.pieces \in Seq(Piece)
    PROVE  LET r == Stripped(given.pieces)
               q == assemble_async_db_connection(given).pieces
           IN  /\ r \in Seq(Piece) /\ q \in Seq(Piece) /\ Len(q) = Len(r) /\ Len(r) \in Nat
               /\ \A k \in 1 .. Len(r) : q[k].name = r[k].name /\ q[k].filled = r[k].filled
               /\ \A k \in 1 .. Len(r) : k > 1 => q[k] = r[k]
               /\ (\E k \in 1 .. Len(r) : r[k].sep = "?") => q = r
               /\ (\A k \in 1 .. Len(r) : r[k].sep # "?") /\ 1 <= Len(r) => q[1].sep = "?"
               /\ r = <<>> => q = <<>>
<1> DEFINE r == Stripped(given.pieces)
           q == IF r # <<>> /\ \A k \in 1 .. Len(r) : r[k].sep # "?"
                THEN [r EXCEPT ![1].sep = "?"] ELSE r
<1>1. q = assemble_async_db_connection(given).pieces
  BY DEF assemble_async_db_connection
<1>2. r \in Seq(Piece) /\ Len(r) \in Nat /\ \A k \in 1 .. Len(r) : r[k] \in Piece
  <2>1. r \in Seq(Piece)
    BY StrippedKeeps
  <2> HIDE DEF r
  <2> QED
    BY <2>1, LenProperties, ElementOfSeq
<1>3. r = Stripped(given.pieces)
  OBVIOUS
<1> HIDE DEF r
<1>4. CASE r # <<>> /\ \A k \in 1 .. Len(r) : r[k].sep # "?"
  <2>1. q = [r EXCEPT ![1] = [r[1] EXCEPT !.sep = "?"]]
    BY <1>4
  <2>2. 1 \in 1 .. Len(r)
    BY <1>2, <1>4, EmptySeq
  <2>3. [r[1] EXCEPT !.sep = "?"] \in Piece
    BY <1>2, <2>2 DEF Piece
  <2>4. /\ q \in Seq(Piece) /\ Len(q) = Len(r)
        /\ q[1] = [r[1] EXCEPT !.sep = "?"] /\ \A k \in 1 .. Len(r) : k # 1 => q[k] = r[k]
    <3> HIDE DEF q
    <3> QED
      BY <1>2, <2>1, <2>2, <2>3, ExceptSeq
  <2> HIDE DEF q
  <2>5. r[1] \in Piece
    BY <1>2, <2>2
  <2>6. q[1].sep = "?" /\ q[1].name = r[1].name /\ q[1].filled = r[1].filled
    BY <2>4, <2>5 DEF Piece
  <2>7. \A k \in 1 .. Len(r) : q[k].name = r[k].name /\ q[k].filled = r[k].filled
    <3> SUFFICES ASSUME NEW k \in 1 .. Len(r)
                 PROVE  q[k].name = r[k].name /\ q[k].filled = r[k].filled
      OBVIOUS
    <3>1. CASE k = 1
      BY <2>6, <3>1
    <3>2. CASE k # 1
      BY <2>4, <3>2
    <3> QED
      BY <3>1, <3>2
  <2>8. \A k \in 1 .. Len(r) : k > 1 => q[k] = r[k]
    BY <2>4
  <2> QED
    BY <1>1, <1>2, <1>3, <1>4, <2>4, <2>6, <2>7, <2>8
<1>5. CASE ~(r # <<>> /\ \A k \in 1 .. Len(r) : r[k].sep # "?")
  <2>1. q = r
    BY <1>5
  <2>2. r = <<>> => ~(1 <= Len(r))
    BY <1>2, EmptySeq
  <2> HIDE DEF q
  <2> QED
    BY <1>1, <1>2, <1>3, <1>5, <2>1, <2>2
<1> QED
  BY <1>4, <1>5

\* One question mark before the first parameter, ampersands elsewhere: when
\* the URL has it and does not lose it to the password.
LEMMA AssembledIsWellFormed ==
    ASSUME NEW given, given.pieces \in Seq(Piece), PasswordFirst(given.pieces), WellFormed(given.pieces)
    PROVE  LET v == given.pieces
               cut == /\ \E k \in 1 .. Len(v) : ~IsParameter(v[k])
                      /\ \A k \in 1 .. Len(v) : v[k].sep = "?" => Unsupported(v[k])
           IN  WellFormed(assemble_async_db_connection(given).pieces) <=> ~cut
<1> DEFINE v == given.pieces
           r == Stripped(v)
           q == assemble_async_db_connection(given).pieces
           cut == /\ \E k \in 1 .. Len(v) : ~IsParameter(v[k])
                  /\ \A k \in 1 .. Len(v) : v[k].sep = "?" => Unsupported(v[k])
           P(x, k) == IsParameter(x[k])
<1>1. /\ q \in Seq(Piece) /\ Len(q) = Len(r) /\ Len(r) \in Nat
      /\ \A k \in 1 .. Len(r) : P(q, k) <=> P(r, k)
      /\ \A k \in 1 .. Len(r) : k > 1 => q[k] = r[k]
      /\ (\E k \in 1 .. Len(r) : r[k].sep = "?") => q = r
      /\ (\A k \in 1 .. Len(r) : r[k].sep # "?") /\ 1 <= Len(r) => q[1].sep = "?"
  BY AssembledPieces DEF IsParameter
<1>2. PICK p \in [1 .. Len(r) -> 1 .. Len(v)] :
         /\ \A k \in 1 .. Len(r) : r[k] = Ssl(v[p[k]]) /\ ~Unsupported(v[p[k]])
         /\ \A j, k \in 1 .. Len(r) : j < k => p[j] < p[k]
         /\ \A i \in 1 .. Len(v) : ~Unsupported(v[i]) => \E k \in 1 .. Len(r) : p[k] = i
  BY StrippedKeeps
<1>3. Len(v) \in Nat /\ \A k \in 1 .. Len(v) : v[k] \in Piece
  BY LenProperties, ElementOfSeq
<1>4. \A k \in 1 .. Len(r) :
         /\ p[k] \in 1 .. Len(v) /\ r[k].sep = v[p[k]].sep /\ (P(r, k) <=> P(v, p[k]))
  <2>1. \A piece \in Piece :
           Ssl(piece).sep = piece.sep /\ (IsParameter(Ssl(piece)) <=> IsParameter(piece))
    BY DEF Ssl, IsParameter, Piece
  <2>2. \A k \in 1 .. Len(r) : p[k] \in 1 .. Len(v)
    BY <1>2
  <2> QED
    BY <1>2, <1>3, <2>1, <2>2
<1>5. \A k \in 1 .. Len(v) : v[k].sep = "?" <=> P(v, k) /\ \A j \in 1 .. k - 1 : ~P(v, j)
  BY DEF WellFormed
<1>6. \A i \in 1 .. Len(v) : ~P(v, i) => ~Unsupported(v[i])
  BY DEF IsParameter, Unsupported
<1>7. \A j, k \in 1 .. Len(r) : j < k /\ ~P(r, k) => ~P(r, j)
  BY <1>2, <1>4 DEF PasswordFirst
<1>8. WellFormed(q) <=>
        \A k \in 1 .. Len(r) : q[k].sep = "?" <=> P(r, k) /\ \A j \in 1 .. k - 1 : ~P(r, j)
  <2>1. \A k \in 1 .. Len(r) : \A j \in 1 .. k - 1 : j \in 1 .. Len(r)
    BY <1>1
  <2>2. \A k \in 1 .. Len(r) : (\A j \in 1 .. k - 1 : ~P(q, j)) <=> \A j \in 1 .. k - 1 : ~P(r, j)
    BY <1>1, <2>1
  <2> QED
    BY <1>1, <2>2 DEF WellFormed
<1>9. cut <=> /\ \E k \in 1 .. Len(r) : ~P(r, k)
              /\ \A k \in 1 .. Len(r) : r[k].sep # "?"
  <2>1. (\E k \in 1 .. Len(v) : ~P(v, k)) <=> \E k \in 1 .. Len(r) : ~P(r, k)
    <3>1. ASSUME NEW i \in 1 .. Len(v), ~P(v, i) PROVE \E k \in 1 .. Len(r) : ~P(r, k)
      <4>1. PICK k \in 1 .. Len(r) : p[k] = i
        BY <1>2, <1>6, <3>1
      <4> QED
        BY <1>4, <3>1, <4>1
    <3> QED
      BY <1>4, <3>1
  <2>2. (\A k \in 1 .. Len(v) : v[k].sep = "?" => Unsupported(v[k]))
           <=> \A k \in 1 .. Len(r) : r[k].sep # "?"
    <3>1. ASSUME NEW i \in 1 .. Len(v), v[i].sep = "?", ~Unsupported(v[i])
          PROVE  \E k \in 1 .. Len(r) : r[k].sep = "?"
      <4>1. PICK k \in 1 .. Len(r) : p[k] = i
        BY <1>2, <3>1
      <4> QED
        BY <1>4, <3>1, <4>1
    <3>2. ASSUME NEW k \in 1 .. Len(r), r[k].sep = "?"
          PROVE  \E i \in 1 .. Len(v) : v[i].sep = "?" /\ ~Unsupported(v[i])
      BY <1>2, <1>4, <3>2
    <3> QED
      BY <3>1, <3>2
  <2> QED
    BY <2>1, <2>2
<1> HIDE DEF P, q, r, v, cut
\* A question mark is left: it is still that of the first parameter.
<1>10. ASSUME NEW m \in 1 .. Len(r), r[m].sep = "?" PROVE WellFormed(q)
  <2>1. P(v, p[m]) /\ \A j \in 1 .. p[m] - 1 : ~P(v, j)
    BY <1>4, <1>5, <1>10
  <2>2. ASSUME NEW k \in 1 .. Len(r), k < m PROVE ~P(r, k)
    <3>1. p[k] \in 1 .. Len(v) /\ p[m] \in 1 .. Len(v) /\ p[k] < p[m]
      BY <1>2, <1>4, <2>2
    <3>2. p[k] \in 1 .. p[m] - 1
      BY <3>1, <1>3
    <3> QED
      BY <1>4, <2>1, <3>2
  <2>3. \A k \in 1 .. Len(r) : r[k].sep = "?" <=> P(r, k) /\ \A j \in 1 .. k - 1 : ~P(r, j)
    <3> SUFFICES ASSUME NEW k \in 1 .. Len(r)
                 PROVE  r[k].sep = "?" <=> P(r, k) /\ \A j \in 1 .. k - 1 : ~P(r, j)
      OBVIOUS
    <3>1. r[k].sep = "?" => P(r, k) /\ \A j \in 1 .. k - 1 : ~P(r, j)
      <4> SUFFICES ASSUME r[k].sep = "?" PROVE P(r, k) /\ \A j \in 1 .. k - 1 : ~P(r, j)
        OBVIOUS
      <4>1. P(v, p[k]) /\ \A j \in 1 .. p[k] - 1 : ~P(v, j)
        BY <1>4, <1>5
      <4>2. ASSUME NEW j \in 1 .. k - 1 PROVE ~P(r, j)
        <5>1. j \in 1 .. Len(r) /\ j < k
          BY <1>1
        <5>2. p[j] \in 1 .. Len(v) /\ p[k] \in 1 .. Len(v) /\ p[j] < p[k]
          BY <1>2, <1>4, <5>1
        <5>3. p[j] \in 1 .. p[k] - 1
          BY <1>3, <5>2
        <5> QED
          BY <1>4, <4>1, <5>1, <5>3
      <4> QED
        BY <1>4, <4>1, <4>2
    <3>2. ASSUME P(r, k), \A j \in 1 .. k - 1 : ~P(r, j) PROVE k = m
      <4>1. ~(k < m)
        BY <2>2, <3>2
      <4>2. P(r, m)
        BY <1>4, <2>1
      <4>3. ~(m < k)
        <5>1. m < k => m \in 1 .. k - 1
          BY <1>1
        <5> QED
          BY <3>2, <4>2, <5>1
      <4> QED
        BY <1>1, <4>1, <4>3
    <3> QED
      BY <1>10, <3>1, <3>2
  <2>4. q = r
    BY <1>1, <1>10
  <2> QED
    BY <1>8, <2>3, <2>4
\* None is left, and the first piece gets one: rightly if it is a parameter.
<1>11. ASSUME \A k \in 1 .. Len(r) : r[k].sep # "?"
       PROVE  WellFormed(q) <=> \A k \in 1 .. Len(r) : P(r, k)
  <2>1. CASE Len(r) = 0
    BY <1>8, <2>1
  <2>2. CASE Len(r) # 0
    <3>1. 1 \in 1 .. Len(r) /\ q[1].sep = "?"
      BY <1>1, <1>11, <2>2
    <3>2. WellFormed(q) => P(r, 1)
      BY <1>8, <3>1
    <3>3. P(r, 1) <=> \A k \in 1 .. Len(r) : P(r, k)
      <4>1. \A k \in 1 .. Len(r) : k = 1 \/ 1 < k
        OBVIOUS
      <4> QED
        BY <1>7, <3>1, <4>1
    <3>4. ASSUME P(r, 1) PROVE WellFormed(q)
      <4> SUFFICES ASSUME NEW k \in 1 .. Len(r)
                   PROVE  q[k].sep = "?" <=> P(r, k) /\ \A j \in 1 .. k - 1 : ~P(r, j)
        BY <1>8
      <4>1. CASE k = 1
        BY <3>1, <3>4, <4>1
      <4>2. CASE k # 1
        <5>1. k > 1 /\ 1 \in 1 .. k - 1
          BY <4>2
        <5> QED
          BY <1>1, <1>11, <3>4, <5>1
      <4> QED
        BY <4>1, <4>2
    <3> QED
      BY <3>2, <3>3, <3>4
  <2> QED
    BY <2>1, <2>2
<1>12. WellFormed(q) <=> ~cut
  <2>1. CASE \E m \in 1 .. Len(r) : r[m].sep = "?"
    BY <1>9, <1>10, <2>1
  <2>2. CASE \A k \in 1 .. Len(r) : r[k].sep # "?"
    BY <1>9, <1>11, <2>2
  <2> QED
    BY <2>1, <2>2
<1> QED
  BY <1>12 DEF q, v, cut

\* assemble_async_db_connection: every URL keeps its parameters, whatever they
\* are and however many.
THEOREM EveryUrlKeepsItsParameters ==
    ASSUME NEW given, given.scheme \in Scheme, given.pieces \in Seq(Piece), PasswordFirst(given.pieces)
    PROVE  UrlKeepsItsParameters(given)
<1> DEFINE v == given.pieces
           r == Stripped(v)
           result == assemble_async_db_connection(given)
           q == result.pieces
<1>1. /\ r \in Seq(Piece) /\ q \in Seq(Piece) /\ Len(q) = Len(r) /\ Len(r) \in Nat
      /\ \A k \in 1 .. Len(r) : q[k].name = r[k].name /\ q[k].filled = r[k].filled
      /\ (\E k \in 1 .. Len(r) : r[k].sep = "?") => q = r
      /\ (\A k \in 1 .. Len(r) : r[k].sep # "?") /\ 1 <= Len(r) => q[1].sep = "?"
      /\ r = <<>> => q = <<>>
  BY AssembledPieces
<1>2. /\ result.scheme \notin {"postgres://", "postgresql://"}
      /\ Driver(result.scheme) = result.scheme
  BY DEF assemble_async_db_connection, Driver, Scheme
<1>3. \A k \in 1 .. Len(r) : r[k].name # "sslmode" /\ ~Unsupported(r[k])
  <2>1. PICK p \in [1 .. Len(r) -> 1 .. Len(v)] :
           \A k \in 1 .. Len(r) : r[k] = Ssl(v[p[k]]) /\ ~Unsupported(v[p[k]])
    BY StrippedKeeps
  <2>2. \A k \in 1 .. Len(v) : v[k] \in Piece
    BY LenProperties, ElementOfSeq
  <2>3. \A piece \in Piece : /\ Ssl(piece).name # "sslmode"
                             /\ ~Unsupported(piece) => ~Unsupported(Ssl(piece))
    BY DEF Ssl, Unsupported, Piece
  <2> HIDE DEF r, v
  <2> QED
    BY <2>1, <2>2, <2>3
<1>4. \A k \in 1 .. Len(q) : q[k].name # "sslmode" /\ ~Unsupported(q[k]) /\ q[k] \in Piece
  <2>1. \A k \in 1 .. Len(q) : q[k] \in Piece
    BY <1>1, ElementOfSeq
  <2> QED
    BY <1>1, <1>3, <2>1 DEF Unsupported
<1> HIDE DEF q
<1>5. Names(q) = Names(r)
  BY <1>1 DEF Names
<1>6. Stripped(q) = q
  <2> DEFINE V == {piece \in Piece : ~Unsupported(piece)}
  <2>1. q = [k \in 1 .. Len(q) |-> q[k]]
    BY <1>1, LenProperties
  <2>2. [k \in 1 .. Len(q) |-> Ssl(q[k])] = q
    BY <1>4, <2>1 DEF Ssl
  <2>3. Stripped(q) = Only(q, V)
    BY <2>2 DEF Stripped
  <2>4. \A k \in 1 .. Len(q) : q[k] \in V
    BY <1>4
  <2> HIDE DEF V
  <2> QED
    BY <1>1, <2>3, <2>4, OnlyAll
<1>7. q = <<>> \/ \E k \in 1 .. Len(q) : q[k].sep = "?"
  <2>1. CASE r = <<>>
    BY <1>1, <2>1
  <2>2. CASE \E k \in 1 .. Len(r) : r[k].sep = "?"
    BY <1>1, <2>2
  <2>3. CASE r # <<>> /\ \A k \in 1 .. Len(r) : r[k].sep # "?"
    <3>1. 1 <= Len(r)
      <4> HIDE DEF r
      <4> QED
        BY <1>1, <2>3, EmptySeq
    <3>2. 1 \in 1 .. Len(q) /\ q[1].sep = "?"
      BY <1>1, <2>3, <3>1
    <3> QED
      BY <3>2
  <2> QED
    BY <2>1, <2>2, <2>3
<1>8. assemble_async_db_connection(result) = result
  <2>1. assemble_async_db_connection(result) = [scheme |-> result.scheme, pieces |-> q]
    BY <1>2, <1>6, <1>7 DEF assemble_async_db_connection, q
  <2>2. result = [scheme |-> result.scheme, pieces |-> q]
    BY DEF assemble_async_db_connection, q
  <2> QED
    BY <2>1, <2>2
<1> QED
  BY <1>2, <1>4, <1>5, <1>8, AssembledIsWellFormed DEF UrlKeepsItsParameters, q

-----------------------------------------------------------------------------
(* Dates.                                                                  *)

\* What the five formats have in common: the year is the first or the third
\* field, the month the second, and the widths tell which.
LEMMA FormatFields ==
    ASSUME NEW t \in DateText, NEW k \in 1 .. Len(Formats), strptime(Formats[k], t)
    PROVE  LET year == IF t.f[1].width = 4 THEN 1 ELSE 3
           IN  /\ Formats[k].year = year /\ Formats[k].month = 2
               /\ Formats[k].width = t.f[year].width /\ t.f[year].width \in {2, 4}
<1> USE DEF Formats, strptime
<1>1. k \in 1 .. 5
  OBVIOUS
<1>2. CASE k = 1
  BY <1>2
<1>3. CASE k = 2
  BY <1>3
<1>4. CASE k = 3
  BY <1>4
<1>5. CASE k = 4
  BY <1>5
<1>6. CASE k = 5
  BY <1>6
<1> QED
  BY <1>1, <1>2, <1>3, <1>4, <1>5, <1>6

\* parse_date_to_year_month: every date, for every default.
THEOREM EveryDateMeansItsMonth ==
    ASSUME NEW t \in DateText, NEW default_year
    PROVE  DateMeansItsMonth(t, default_year, parse_date_to_year_month(t, default_year))
<1> DEFINE fits == {k \in 1 .. Len(Formats) : strptime(Formats[k], t)}
           year == IF t.f[1].width = 4 THEN 1 ELSE 3
           y == t.f[year].n
           result == parse_date_to_year_month(t, default_year)
           proper == /\ t.f[year].width = 4 /\ t.f[4 - year].width <= 2 /\ t.f[2].width <= 2
                     /\ y >= 1 /\ t.f[2].n \in 1 .. 12
                     /\ t.f[4 - year].n \in 1 .. DaysIn(y, t.f[2].n)
<1>1. /\ t.sep \in {"-", "/"}
      /\ \A k \in 1 .. 3 : /\ t.f[k].n \in Nat /\ t.f[k].width \in Nat /\ t.f[k].width >= 1
                           /\ t.f[k].width = 2 => t.f[k].n <= 99
  BY DEF DateText, Numeral
<1>2. ASSUME fits # {}
      PROVE  \E z \in Int : /\ result = <<IF z > 2026 THEN z - 100 ELSE z, t.f[2].n>>
                            /\ t.f[year].width \in {2, 4}
                            /\ z = IF t.f[year].width = 2 THEN TwoDigitYear(y) ELSE y
  <2> DEFINE m == Min(fits)
  <2>1. m \in 1 .. Len(Formats) /\ strptime(Formats[m], t)
    <3>1. Len(Formats) = 5
      BY DEF Formats
    <3>2. fits \in SUBSET Nat
      BY <3>1
    <3>3. m \in fits
      <4> HIDE DEF fits
      <4> QED
        BY <1>2, <3>2, MinIsLeast
    <3> QED
      BY <3>3
  <2>2. result = <<IF YearBy(Formats[m], t) > 2026 THEN YearBy(Formats[m], t) - 100
                   ELSE YearBy(Formats[m], t), t.f[Formats[m].month].n>>
    BY <1>2 DEF parse_date_to_year_month
  <2> HIDE DEF m, fits
  <2>3. /\ Formats[m].year = year /\ Formats[m].month = 2
        /\ Formats[m].width = t.f[year].width /\ t.f[year].width \in {2, 4}
    BY <2>1, FormatFields
  <2>4. YearBy(Formats[m], t) = IF t.f[year].width = 2 THEN TwoDigitYear(y) ELSE y
    BY <2>3 DEF YearBy
  <2>5. YearBy(Formats[m], t) \in Int
    BY <1>1, <2>4 DEF TwoDigitYear
  <2> DEFINE z == YearBy(Formats[m], t)
  <2>6. result = <<IF z > 2026 THEN z - 100 ELSE z, t.f[2].n>>
    BY <2>2, <2>3
  <2> HIDE DEF z, result
  <2> QED
    BY <2>3, <2>4, <2>5, <2>6 DEF z
<1>3. ASSUME proper PROVE fits # {}
  <2>1. CASE t.sep = "-" /\ year = 1
    <3>1. strptime(Formats[1], t) /\ 1 \in 1 .. Len(Formats)
      BY <1>1, <1>3, <2>1 DEF strptime, Formats, YearBy
    <3> QED
      BY <3>1
  <2>2. CASE t.sep = "-" /\ year = 3
    <3>1. strptime(Formats[2], t) /\ 2 \in 1 .. Len(Formats)
      BY <1>1, <1>3, <2>2 DEF strptime, Formats, YearBy
    <3> QED
      BY <3>1
  <2>3. CASE t.sep = "/" /\ year = 1
    <3>1. strptime(Formats[4], t) /\ 4 \in 1 .. Len(Formats)
      BY <1>1, <1>3, <2>3 DEF strptime, Formats, YearBy
    <3> QED
      BY <3>1
  <2>4. CASE t.sep = "/" /\ year = 3
    <3>1. strptime(Formats[5], t) /\ 5 \in 1 .. Len(Formats)
      BY <1>1, <1>3, <2>4 DEF strptime, Formats, YearBy
    <3> QED
      BY <3>1
  <2> QED
    BY <1>1, <2>1, <2>2, <2>3, <2>4
<1>4. fits = {} => result = <<default_year, 1>>
  BY DEF parse_date_to_year_month
<1>5. y \in Nat /\ (t.f[year].width = 2 => y <= 99)
  BY <1>1
<1> HIDE DEF fits
<1>6. ASSUME fits # {}
      PROVE  /\ result[2] = t.f[2].n
             /\ (result[1] - y) % 100 = 0
             /\ t.f[year].width = 2 => result[1] \in 1927 .. 2026
             /\ t.f[year].width = 4 => result[1] = IF y <= 2026 THEN y ELSE y - 100
  <2>1. PICK z \in Int : /\ result = <<IF z > 2026 THEN z - 100 ELSE z, t.f[2].n>>
                         /\ t.f[year].width \in {2, 4}
                         /\ z = IF t.f[year].width = 2 THEN TwoDigitYear(y) ELSE y
    BY <1>2, <1>6
  <2>2. result[2] = t.f[2].n /\ result[1] = IF z > 2026 THEN z - 100 ELSE z
    BY <2>1
  <2> HIDE DEF result, year
  <2>3. CASE t.f[year].width = 2
    <3>1. z = IF y >= 69 THEN 1900 + y ELSE 2000 + y
      BY <2>1, <2>3 DEF TwoDigitYear
    <3> HIDE DEF y
    <3>2. result[1] = IF y >= 69 \/ y <= 26 THEN z ELSE z - 100
      BY <1>5, <2>2, <2>3, <3>1
    <3>3. result[1] \in 1927 .. 2026 /\ result[1] - y \in {1900, 2000}
      BY <1>5, <2>3, <3>1, <3>2
    <3> QED
      BY <2>2, <2>3, <3>3
  <2>4. CASE t.f[year].width = 4
    <3>1. z = y
      BY <2>1, <2>4
    <3> HIDE DEF y
    <3>2. result[1] = (IF y <= 2026 THEN y ELSE y - 100) /\ result[1] - y \in {0, -100}
      BY <1>5, <2>2, <3>1
    <3> QED
      BY <2>2, <2>4, <3>2
  <2> QED
    BY <2>1, <2>3, <2>4
<1>7. /\ result # <<default_year, 1>> =>
           /\ result[2] = t.f[2].n
           /\ (result[1] - y) % 100 = 0
           /\ t.f[year].width = 2 => result[1] \in 1927 .. 2026
           /\ t.f[year].width = 4 => result[1] = IF y <= 2026 THEN y ELSE y - 100
      /\ proper => result[2] = t.f[2].n
  BY <1>3, <1>4, <1>6
<1> QED
  BY <1>7 DEF DateMeansItsMonth

-----------------------------------------------------------------------------
(* Durations: what the functions on texts return.                          *)

\* p is the first place of u in t, First is what is before it and After what is
\* behind it.
CutAt(t, u, p) ==
    /\ p \in 1 .. Len(t) /\ t[p] = u /\ \A k \in 1 .. p - 1 : t[k] # u
    /\ First(t, u) \in Seq(Token) /\ Len(First(t, u)) = p - 1
    /\ \A k \in 1 .. p - 1 : First(t, u)[k] = t[k]
    /\ After(t, u) \in Seq(Token) /\ Len(After(t, u)) = Len(t) - p
    /\ \A k \in 1 .. Len(t) - p : After(t, u)[k] = t[p + k]

LEMMA Splits ==
    ASSUME NEW t \in Seq(Token), NEW u, Has(t, u)
    PROVE  \E p : CutAt(t, u, p)
<1> DEFINE I == {k \in 1 .. Len(t) : t[k] = u}
           p == Min(I)
<1>1. Len(t) \in Nat /\ \A k \in 1 .. Len(t) : t[k] \in Token
  BY LenProperties, ElementOfSeq
<1>2. I # {} /\ I \in SUBSET Nat
  BY <1>1 DEF Has
<1>3. p \in I /\ \A k \in I : p <= k
  <2> HIDE DEF I
  <2> QED
    BY <1>2, MinIsLeast
<1>4. First(t, u) = SubSeq(t, 1, p - 1) /\ After(t, u) = SubSeq(t, p + 1, Len(t))
  BY <1>2 DEF First, After, SelectInSeq
<1>5. p \in 1 .. Len(t) /\ t[p] = u
  BY <1>3
<1>6. \A k \in 1 .. p - 1 : t[k] # u
  BY <1>1, <1>3, <1>5
<1> HIDE DEF p
<1>7. /\ SubSeq(t, 1, p - 1) \in Seq(Token) /\ Len(SubSeq(t, 1, p - 1)) = p - 1
      /\ \A k \in 1 .. p - 1 : SubSeq(t, 1, p - 1)[k] = t[k]
  <2>1. \A k \in 1 .. p - 1 : t[k] \in Token
    BY <1>1, <1>5
  <2>2. /\ SubSeq(t, 1, p - 1) \in Seq(Token)
        /\ Len(SubSeq(t, 1, p - 1)) = IF 1 <= p - 1 THEN p - 1 - 1 + 1 ELSE 0
        /\ \A k \in 1 .. p - 1 - 1 + 1 : SubSeq(t, 1, p - 1)[k] = t[1 + k - 1]
    BY <1>1, <1>5, <2>1, SubSeqProperties
  <2> QED
    BY <1>1, <1>5, <2>2
<1>8. /\ SubSeq(t, p + 1, Len(t)) \in Seq(Token) /\ Len(SubSeq(t, p + 1, Len(t))) = Len(t) - p
      /\ \A k \in 1 .. Len(t) - p : SubSeq(t, p + 1, Len(t))[k] = t[p + k]
  <2> DEFINE n == Len(t)
  <2>1. n = Len(t) /\ n \in Nat /\ p \in 1 .. n
    BY <1>1, <1>5
  <2> HIDE DEF n
  <2>2. \A k \in p + 1 .. n : t[k] \in Token
    BY <1>1, <2>1
  <2>3. /\ SubSeq(t, p + 1, n) \in Seq(Token)
        /\ Len(SubSeq(t, p + 1, n)) = IF p + 1 <= n THEN n - (p + 1) + 1 ELSE 0
        /\ \A k \in 1 .. n - (p + 1) + 1 : SubSeq(t, p + 1, n)[k] = t[(p + 1) + k - 1]
    BY <2>1, <2>2, SubSeqProperties
  <2>4. \A k \in 1 .. n - p : k \in 1 .. n - (p + 1) + 1 /\ (p + 1) + k - 1 = p + k
    BY <2>1
  <2>5. Len(SubSeq(t, p + 1, n)) = n - p
    BY <2>1, <2>3
  <2> QED
    BY <2>1, <2>3, <2>4, <2>5
<1>9. CutAt(t, u, p)
  BY <1>4, <1>5, <1>6, <1>7, <1>8 DEF CutAt
<1> QED
  BY <1>9

\* By its name: Z3 takes no string with a blank in it.
Space == " "

\* strip cuts out a stretch of t: from a word to a word, or nothing.
FromWordToWord(t, i, j) ==
    /\ i \in 1 .. Len(t) /\ j \in 1 .. Len(t) /\ i <= j /\ t[i] # Space /\ t[j] # Space
    /\ \A k \in 1 .. Len(t) : t[k] # Space => i <= k /\ k <= j
    /\ Len(strip(t)) = j - i + 1
    /\ \A k \in 1 .. j - i + 1 : strip(t)[k] = t[i + k - 1]

LEMMA Strips ==
    ASSUME NEW t \in Seq(Token)
    PROVE  /\ strip(t) \in Seq(Token)
           /\ (\A k \in 1 .. Len(t) : t[k] = Space) => strip(t) = <<>>
           /\ (\E k \in 1 .. Len(t) : t[k] # Space) => \E i, j : FromWordToWord(t, i, j)
<1> DEFINE words == {k \in 1 .. Len(t) : t[k] # Space}
           i == Min(words)
           j == Max(words)
<1>1. Len(t) \in Nat /\ \A k \in 1 .. Len(t) : t[k] \in Token
  BY LenProperties, ElementOfSeq
<1>2. strip(t) = IF words = {} THEN <<>> ELSE SubSeq(t, i, j)
  BY DEF strip, Space
<1>3. /\ (\A k \in 1 .. Len(t) : t[k] = Space) <=> words = {}
      /\ words \in SUBSET (1 .. Len(t)) /\ words \in SUBSET Nat
  <2>1. (\A k \in 1 .. Len(t) : t[k] = Space) <=> words = {}
    OBVIOUS
  <2>2. words \in SUBSET (1 .. Len(t))
    BY Zenon
  <2>3. 1 .. Len(t) \in SUBSET Nat
    OBVIOUS
  <2> HIDE DEF words
  <2> QED
    BY <2>1, <2>2, <2>3
<1>4. CASE words = {}
  <2> HIDE DEF words
  <2> QED
    BY <1>2, <1>3, <1>4, EmptySeq
<1>5. CASE words # {}
  <2>1. i \in words /\ j \in words /\ \A k \in words : i <= k /\ k <= j
    <3> HIDE DEF words
    <3>1. i \in words /\ \A k \in words : i <= k
      BY <1>3, <1>5, MinIsLeast
    <3>2. j \in words /\ \A k \in words : j >= k
      BY <1>1, <1>3, <1>5, MaxIsGreatest
    <3>3. \A k \in words : j \in Nat /\ k \in Nat
      BY <1>3, <3>2
    <3> QED
      BY <3>1, <3>2, <3>3
  <2> HIDE DEF i, j
  <2>2. /\ i \in 1 .. Len(t) /\ j \in 1 .. Len(t) /\ i <= j /\ t[i] # Space /\ t[j] # Space
        /\ \A k \in 1 .. Len(t) : t[k] # Space => i <= k /\ k <= j
    BY <2>1
  <2>3. /\ SubSeq(t, i, j) \in Seq(Token)
        /\ Len(SubSeq(t, i, j)) = j - i + 1
        /\ \A k \in 1 .. j - i + 1 : SubSeq(t, i, j)[k] = t[i + k - 1]
    <3> DEFINE n == Len(t)
    <3>1. n \in Nat /\ i \in 1 .. n /\ j \in 1 .. n /\ i <= j /\ \A k \in 1 .. n : t[k] \in Token
      BY <1>1, <2>2
    <3> HIDE DEF n
    <3>2. i \in Int /\ j \in Int /\ \A k \in i .. j : k \in 1 .. n
      BY <3>1
    <3>3. \A k \in i .. j : t[k] \in Token
      BY <3>1, <3>2
    <3>4. /\ SubSeq(t, i, j) \in Seq(Token)
          /\ Len(SubSeq(t, i, j)) = IF i <= j THEN j - i + 1 ELSE 0
          /\ \A k \in 1 .. j - i + 1 : SubSeq(t, i, j)[k] = t[i + k - 1]
      BY <3>2, <3>3, SubSeqProperties
    <3> QED
      BY <3>1, <3>4
  <2>4. strip(t) = SubSeq(t, i, j)
    BY <1>2, <1>5
  <2>5. FromWordToWord(t, i, j) /\ strip(t) \in Seq(Token)
    BY <2>2, <2>3, <2>4 DEF FromWordToWord
  <2> HIDE DEF words
  <2> QED
    BY <1>3, <1>5, <2>5
<1> QED
  BY <1>4, <1>5

\* Every token of x is one of t.
Within(x, t) == x \in Seq(Token) /\ \A k \in 1 .. Len(x) : Has(t, x[k])

LEMMA WithinTransitive ==
    ASSUME NEW x, NEW y, NEW t, Within(x, y), Within(y, t)
    PROVE  Within(x, t) /\ \A u : Has(x, u) => Has(t, u)
BY DEF Within, Has

\* No function on texts brings in a token.
LEMMA PartsAreWithin ==
    ASSUME NEW t \in Seq(Token)
    PROVE  /\ Within(t, t) /\ Within(strip(t), t) /\ \A u : Within(Without(t, u), t)
           /\ \A u : Has(t, u) => Within(First(t, u), t) /\ Within(After(t, u), t)
           /\ t # <<>> => Within(Tail(t), t)
<1>1. Len(t) \in Nat /\ \A k \in 1 .. Len(t) : t[k] \in Token
  BY LenProperties, ElementOfSeq
<1>2. Within(t, t)
  BY DEF Within, Has
<1>3. Within(strip(t), t)
  <2>1. CASE \A k \in 1 .. Len(t) : t[k] = Space
    <3>1. strip(t) = <<>> /\ <<>> \in Seq(Token) /\ Len(<<>>) = 0
      BY <2>1, Strips, EmptySeq
    <3>2. \A k \in 1 .. 0 : FALSE
      OBVIOUS
    <3> QED
      BY <3>1, <3>2 DEF Within
  <2>2. CASE \E k \in 1 .. Len(t) : t[k] # Space
    <3>1. PICK i, j : FromWordToWord(t, i, j)
      BY <2>2, Strips
    <3> USE DEF FromWordToWord
    <3>2. \A k \in 1 .. j - i + 1 : i + k - 1 \in 1 .. Len(t)
      BY <1>1, <3>1
    <3>3. \A k \in 1 .. Len(strip(t)) : Has(t, strip(t)[k])
      BY <3>1, <3>2 DEF Has
    <3> QED
      BY <3>3, Strips DEF Within
  <2> QED
    BY <2>1, <2>2
<1>4. ASSUME NEW u PROVE Within(Without(t, u), t)
  <2> DEFINE r == Only(t, Token \ {u})
  <2>1. r \in Seq(Token) /\ \E p : Kept(r, p, t, Len(t), Token \ {u})
    BY OnlyKeeps
  <2> HIDE DEF r
  <2>2. PICK p : Kept(r, p, t, Len(t), Token \ {u})
    BY <2>1
  <2>3. \A k \in 1 .. Len(r) : p[k] \in 1 .. Len(t) /\ r[k] = t[p[k]]
    BY <2>2 DEF Kept
  <2>4. Without(t, u) = r
    BY DEF Without, r
  <2> QED
    BY <2>1, <2>3, <2>4 DEF Within, Has
<1>5. ASSUME NEW u, Has(t, u) PROVE Within(First(t, u), t) /\ Within(After(t, u), t)
  <2>1. PICK p : CutAt(t, u, p)
    BY <1>5, Splits
  <2>2. /\ \A k \in 1 .. p - 1 : k \in 1 .. Len(t)
        /\ \A k \in 1 .. Len(t) - p : p + k \in 1 .. Len(t)
    BY <1>1, <2>1 DEF CutAt
  <2> QED
    BY <2>1, <2>2 DEF CutAt, Within, Has
<1>6. ASSUME t # <<>> PROVE Within(Tail(t), t)
  <2>1. /\ Tail(t) \in Seq(Token) /\ Len(Tail(t)) = Len(t) - 1
        /\ \A k \in 1 .. Len(Tail(t)) : Tail(t)[k] = t[k + 1]
    BY <1>6, HeadTailProperties
  <2>2. \A k \in 1 .. Len(Tail(t)) : k + 1 \in 1 .. Len(t)
    BY <1>1, <2>1
  <2> QED
    BY <2>1, <2>2 DEF Within, Has
<1> QED
  BY <1>2, <1>3, <1>4, <1>5, <1>6

\* Number is a fold over the digits, like Only: f goes from 0 to Number(s).
Sums(f, s) ==
    /\ f \in [0 .. Len(s) -> Nat]
    /\ f[0] = 0
    /\ \A k \in 1 .. Len(s) : f[k] = 10 * f[k - 1] + Value[s[k]]
    /\ f[Len(s)] = Number(s)

LEMMA NumberSteps ==
    ASSUME NEW s \in Seq(Digits)
    PROVE  \E f : Sums(f, s)
<1> DEFINE n == Len(s)
           Equation(g) ==
             g = [u \in SUBSET DOMAIN s |->
                    IF u = {} THEN 0 ELSE 10 * g[u \ {Max(u)}] + Value[s[Max(u)]]]
           iter == CHOOSE g : Equation(g)
<1>1. n \in Nat /\ DOMAIN s = 1 .. n /\ \A k \in 1 .. n : Value[s[k]] \in Nat
  <2>1. n \in Nat /\ DOMAIN s = 1 .. n /\ \A k \in 1 .. n : s[k] \in Digits
    BY LenProperties, ElementOfSeq
  <2>2. \A d \in Digits : Value[d] \in Nat
    BY DEF Value
  <2> QED
    BY <2>1, <2>2
<1>2. Number(s) = iter[DOMAIN s]
  BY DEF Number, FoldLeft, MapThenFoldSet
<1> HIDE DEF n
<1>3. \E g : Equation(g)
  <2> DEFINE Next1(k, r) == 10 * r + Value[s[k]]
             step == [p \in (1 .. n) \X Nat |-> Next1(p[1], p[2])]
  <2>1. \A k \in 1 .. n, r \in Nat : Next1(k, r) \in Nat
    BY <1>1
  <2> HIDE DEF Next1
  <2>2. /\ step \in [(1 .. n) \X Nat -> Nat]
        /\ \A k \in 1 .. n, r \in Nat : step[<<k, r>>] = Next1(k, r)
    BY <2>1
  <2> HIDE DEF step
  <2>3. PICK g : Solves(g, n, Nat, 0, step)
    BY <1>1, <2>2, FoldExists
  <2>4. \A u \in SUBSET (1 .. n) : u # {} => Max(u) \in 1 .. n /\ g[u \ {Max(u)}] \in Nat
    BY <1>1, <2>3, MaxIsGreatest DEF Solves
  <2>5. \A u \in SUBSET (1 .. n) : g[u] = IF u = {} THEN 0 ELSE Next1(Max(u), g[u \ {Max(u)}])
    BY <2>2, <2>3, <2>4 DEF Solves
  <2>6. g = [u \in SUBSET (1 .. n) |-> IF u = {} THEN 0 ELSE Next1(Max(u), g[u \ {Max(u)}])]
    BY <2>3, <2>5 DEF Solves
  <2>7. Equation(g)
    BY <1>1, <2>6 DEF Next1
  <2> QED
    BY <2>7
<1>4. Equation(iter)
  BY <1>3
<1>5. \A u \in SUBSET (1 .. n) :
         iter[u] = IF u = {} THEN 0 ELSE 10 * iter[u \ {Max(u)}] + Value[s[Max(u)]]
  BY <1>1, <1>4
<1> HIDE DEF iter, Equation
<1>6. iter[1 .. 0] = 0
  <2>1. 1 .. 0 = {} /\ {} \in SUBSET (1 .. n)
    BY <1>1
  <2> QED
    BY <1>5, <2>1
<1>7. ASSUME NEW k \in 1 .. n PROVE iter[1 .. k] = 10 * iter[1 .. k - 1] + Value[s[k]]
  <2>1. /\ 1 .. k \in SUBSET (1 .. n) /\ 1 .. k # {} /\ Max(1 .. k) = k
        /\ (1 .. k) \ {k} = 1 .. k - 1
    BY <1>1, Prefix
  <2> QED
    BY <1>5, <2>1
<1> DEFINE Typed == {k \in 0 .. n : iter[1 .. k] \in Nat}
<1>8. ASSUME NEW k \in 1 .. n, k - 1 \in Typed PROVE k \in Typed
  <2>1. iter[1 .. k - 1] \in Nat /\ Value[s[k]] \in Nat /\ k \in 0 .. n
    BY <1>1, <1>8
  <2> QED
    BY <1>7, <2>1
<1>9. \A k \in 0 .. n : k \in Typed
  <2>1. 0 \in Typed
    BY <1>1, <1>6
  <2> HIDE DEF Typed
  <2> QED
    BY <1>1, <1>8, <2>1, Induction
<1> DEFINE f == [k \in 0 .. n |-> iter[1 .. k]]
<1>10. f \in [0 .. n -> Nat] /\ f[0] = 0 /\ f[n] = Number(s)
  BY <1>1, <1>2, <1>6, <1>9
<1>11. \A k \in 1 .. n : f[k] = 10 * f[k - 1] + Value[s[k]]
  <2>1. \A k \in 1 .. n : k \in 0 .. n /\ k - 1 \in 0 .. n
    BY <1>1
  <2> QED
    BY <1>7, <2>1
<1> HIDE DEF f
<1>12. Sums(f, s)
  BY <1>10, <1>11 DEF Sums, n
<1> QED
  BY <1>12

LEMMA NumberIsNat ==
    ASSUME NEW s \in Seq(Digits)
    PROVE  Number(s) \in Nat
<1>1. PICK f : Sums(f, s)
  BY NumberSteps
<1> QED
  BY <1>1, LenProperties DEF Sums

LEMMA NumberOfOne == Number(<<"1">>) = 1
<1>1. <<"1">> \in Seq(Digits) /\ Len(<<"1">>) = 1 /\ <<"1">>[1] = "1" /\ Value["1"] = 1
  BY DEF Digits, Value
<1>2. PICK f : Sums(f, <<"1">>)
  BY <1>1, NumberSteps
<1>3. 1 \in 1 .. 1 /\ f[1 - 1] = 0
  BY <1>2 DEF Sums
<1> QED
  BY <1>1, <1>2, <1>3 DEF Sums

NoDigit(t) == \A d \in Digits : ~Has(t, d)

LEMMA NumeralsHaveANumber ==
    ASSUME NEW t \in Seq(Token), IsNumeral(t)
    PROVE  Number(Only(t, Digits)) \in Nat /\ ~NoDigit(t)
<1> DEFINE r == Only(t, Digits)
<1>1. r \in Seq(Token) /\ \E p : Kept(r, p, t, Len(t), Digits)
  BY OnlyKeeps
<1> HIDE DEF r
<1>2. PICK p : Kept(r, p, t, Len(t), Digits)
  BY <1>1
<1>3. Len(r) \in Nat /\ r \in [1 .. Len(r) -> Token] /\ \A k \in 1 .. Len(r) : r[k] \in Digits
  BY <1>1, <1>2, LenProperties DEF Kept
<1>4. r \in Seq(Digits)
  <2>1. r \in [1 .. Len(r) -> Digits]
    BY <1>3
  <2> QED
    BY <1>3, <2>1, SeqDef
<1>5. 1 \in 1 .. Len(t)
  <2>1. Len(t) \in Nat \ {0}
    BY EmptySeq, LenProperties DEF IsNumeral
  <2> QED
    BY <2>1
<1>6. t[1] \in Digits
  BY <1>5 DEF IsNumeral
<1>7. ~NoDigit(t)
  BY <1>5, <1>6 DEF NoDigit, Has
<1> QED
  BY <1>4, <1>7, NumberIsNat DEF r

\* int raises or returns an integer, and needs a decimal.
LEMMA IntIsInt ==
    ASSUME NEW t \in Seq(Token)
    PROVE  int(t) \in SUBSET Int /\ (NoDigit(t) => int(t) = {})
<1> DEFINE s == strip(t)
           signed == s # <<>> /\ s[1] \in {"+", "-"}
           numeral == IF signed THEN Tail(s) ELSE s
           n == Number(Only(numeral, Digits))
<1>1. Within(s, t) /\ s \in Seq(Token)
  BY PartsAreWithin DEF Within
<1>2. int(t) = IF IsNumeral(numeral) THEN {IF s[1] = "-" THEN -n ELSE n} ELSE {}
  BY DEF int
<1> HIDE DEF s
<1>3. Within(numeral, t)
  <2>1. Within(s, s) /\ (s # <<>> => Within(Tail(s), s))
    BY <1>1, PartsAreWithin
  <2>2. Within(numeral, s)
    BY <2>1
  <2> HIDE DEF numeral
  <2> QED
    BY <1>1, <2>2, WithinTransitive
<1> HIDE DEF numeral
<1>4. ASSUME IsNumeral(numeral) PROVE n \in Nat /\ ~NoDigit(t)
  <2>1. numeral \in Seq(Token) /\ \A u : Has(numeral, u) => Has(t, u)
    BY <1>3 DEF Within, Has
  <2>2. n \in Nat /\ ~NoDigit(numeral)
    BY <1>4, <2>1, NumeralsHaveANumber
  <2> QED
    BY <2>1, <2>2 DEF NoDigit
<1> HIDE DEF n
<1>5. n \in Nat => -n \in Int /\ n \in Int
  OBVIOUS
<1> QED
  BY <1>2, <1>4, <1>5

LEMMA CountIsInt ==
    ASSUME NEW t \in Seq(Token)
    PROVE  Count(t) \in SUBSET Int /\ (NoDigit(t) => Count(t) \in SUBSET {0})
<1>1. Count(t) = {0} \/ Count(t) = int(t)
  BY DEF Count
<1> QED
  BY <1>1, IntIsInt

\* max(0, n)
LEMMA MaxOfZero ==
    ASSUME NEW n \in Int
    PROVE  Max({0, n}) = IF n >= 0 THEN n ELSE 0
<1> DEFINE m == IF n >= 0 THEN n ELSE 0
           Greatest(x) == x \in {0, n} /\ \A y \in {0, n} : x >= y
<1>1. Greatest(m) /\ \A x : Greatest(x) => x = m
  OBVIOUS
<1>2. Max({0, n}) = CHOOSE x : Greatest(x)
  BY DEF Max
<1> HIDE DEF Greatest, m
<1>3. Max({0, n}) = m
  BY <1>1, <1>2
<1> QED
  BY <1>3 DEF m

Months(rest, y, m) ==
    IF y = 0 /\ m = 0 /\ isdigit(rest) THEN int(rest) ELSE {Max({0, 12 * y + m})}

\* parse_duration_to_months in the terms of its parts.
Parsed(t, rest, years, months) ==
    /\ Within(rest, t) /\ years \in SUBSET Int /\ months \in SUBSET Int
    /\ parse_duration_to_months(t) = UNION {Months(rest, y, m) : y \in years, m \in months}
    /\ ~Has(t, "yr") /\ ~Has(t, "mon") => rest = strip(t) /\ years = {0} /\ months = {0}
    /\ NoDigit(t) => years \in SUBSET {0} /\ months \in SUBSET {0}

LEMMA DurationParts ==
    ASSUME NEW t \in Seq(Token)
    PROVE  \E rest, years, months : Parsed(t, rest, years, months)
<1> DEFINE s == strip(t)
           rest == IF Has(s, "yr") THEN Second(s, "yr") ELSE s
           years == IF Has(s, "yr") THEN Count(First(s, "yr")) ELSE {0}
           months == IF Has(rest, "mon") THEN Count(Without(First(rest, "mon"), "s")) ELSE {0}
<1>1. parse_duration_to_months(t) = UNION {Months(rest, y, m) : y \in years, m \in months}
  BY DEF parse_duration_to_months, Months
<1>2. Within(s, t) /\ s \in Seq(Token) /\ s = strip(t) /\ (~Has(s, "yr") => rest = s)
  BY PartsAreWithin DEF Within
<1> HIDE DEF s
<1>3. Within(rest, s)
  <2>1. CASE ~Has(s, "yr")
    BY <1>2, <2>1, PartsAreWithin
  <2>2. CASE Has(s, "yr")
    <3> DEFINE a == After(s, "yr")
    <3>1. Within(a, s) /\ a \in Seq(Token)
      BY <1>2, <2>2, PartsAreWithin DEF Within
    <3>2. rest = IF Has(a, "yr") THEN First(a, "yr") ELSE a
      BY <2>2 DEF Second
    <3> HIDE DEF a, rest
    <3>3. Has(a, "yr") => Within(First(a, "yr"), a)
      BY <3>1, PartsAreWithin
    <3> QED
      BY <3>1, <3>2, <3>3, WithinTransitive
  <2> QED
    BY <2>1, <2>2
<1>4. years \in SUBSET Int /\ (NoDigit(s) => years \in SUBSET {0})
  <2>1. CASE ~Has(s, "yr")
    BY <2>1
  <2>2. CASE Has(s, "yr")
    <3> DEFINE a == First(s, "yr")
    <3>1. Within(a, s) /\ a \in Seq(Token)
      BY <1>2, <2>2, PartsAreWithin DEF Within
    <3>2. years = Count(a)
      BY <2>2
    <3> HIDE DEF a, years
    <3>3. NoDigit(s) => NoDigit(a)
      BY <3>1, WithinTransitive DEF Within, Has, NoDigit
    <3> QED
      BY <3>1, <3>2, <3>3, CountIsInt
  <2> QED
    BY <2>1, <2>2
<1>5. rest \in Seq(Token) /\ Within(rest, t)
  <2> HIDE DEF rest
  <2> QED
    BY <1>2, <1>3, WithinTransitive DEF Within
<1>6. \A u : Has(rest, u) => Has(t, u)
  <2> HIDE DEF rest
  <2> QED
    BY <1>5 DEF Within, Has
<1>7. \A u : Has(s, u) => Has(t, u)
  BY <1>2 DEF Within, Has
<1> HIDE DEF rest
<1>8. months \in SUBSET Int /\ (NoDigit(t) => months \in SUBSET {0})
  <2>1. CASE ~Has(rest, "mon")
    BY <2>1
  <2>2. CASE Has(rest, "mon")
    <3> DEFINE a == First(rest, "mon")
               b == Without(a, "s")
    <3>1. Within(a, rest) /\ a \in Seq(Token)
      BY <1>5, <2>2, PartsAreWithin DEF Within
    <3> HIDE DEF a
    <3>2. Within(b, a) /\ b \in Seq(Token)
      BY <3>1, PartsAreWithin DEF Within
    <3>3. months = Count(b)
      BY <2>2 DEF a
    <3> HIDE DEF b, months
    <3>4. NoDigit(t) => NoDigit(b)
      <4>1. \A u : Has(b, u) => Has(t, u)
        <5>1. \A u : Has(b, u) => Has(a, u)
          BY <3>2 DEF Within, Has
        <5>2. \A u : Has(a, u) => Has(rest, u)
          BY <3>1 DEF Within, Has
        <5> QED
          BY <1>6, <5>1, <5>2
      <4> QED
        BY <4>1 DEF NoDigit
    <3> QED
      BY <3>2, <3>3, <3>4, CountIsInt
  <2> QED
    BY <2>1, <2>2
<1>9. ~Has(t, "yr") /\ ~Has(t, "mon") => rest = strip(t) /\ years = {0} /\ months = {0}
  BY <1>2, <1>6, <1>7
<1>10. NoDigit(t) => NoDigit(s)
  BY <1>7 DEF NoDigit
<1> HIDE DEF years, months
<1>11. Parsed(t, rest, years, months)
  BY <1>1, <1>4, <1>5, <1>8, <1>9, <1>10 DEF Parsed
<1> QED
  BY <1>11

-----------------------------------------------------------------------------
(* Durations: the spellings.                                               *)

\* The tokens of a concatenation.
LEMMA Concat ==
    ASSUME NEW x \in Seq(Token), NEW y \in Seq(Token)
    PROVE  /\ x \o y \in Seq(Token) /\ Len(x \o y) = Len(x) + Len(y)
           /\ Len(x) \in Nat /\ Len(y) \in Nat
           /\ \A k \in 1 .. Len(x) : (x \o y)[k] = x[k]
           /\ \A k \in 1 .. Len(y) : (x \o y)[Len(x) + k] = y[k]
           /\ \A k \in 1 .. Len(x) + Len(y) :
                 k \in 1 .. Len(x) \/ \E i \in 1 .. Len(y) : k = Len(x) + i
           /\ \A u : Has(x \o y, u) <=> Has(x, u) \/ Has(y, u)
<1> DEFINE t == x \o y
           m == Len(x)
           n == Len(y)
<1>1. /\ t \in Seq(Token) /\ Len(t) = m + n /\ m \in Nat /\ n \in Nat
      /\ \A k \in 1 .. m + n : t[k] = IF k <= m THEN x[k] ELSE y[k - m]
  BY ConcatProperties, LenProperties
<1> HIDE DEF t, m, n
<1>2. \A k \in 1 .. m : k \in 1 .. m + n /\ t[k] = x[k]
  BY <1>1
<1>3. \A k \in 1 .. n : m + k \in 1 .. m + n /\ t[m + k] = y[k]
  <2> SUFFICES ASSUME NEW k \in 1 .. n PROVE m + k \in 1 .. m + n /\ t[m + k] = y[k]
    OBVIOUS
  <2>1. m + k \in 1 .. m + n /\ ~(m + k <= m) /\ m + k - m = k
    BY <1>1
  <2> QED
    BY <1>1, <2>1
<1>4. ASSUME NEW k \in 1 .. m + n PROVE k \in 1 .. m \/ \E i \in 1 .. n : k = m + i
  <2>1. k \notin 1 .. m => k - m \in 1 .. n /\ k = m + (k - m)
    BY <1>1
  <2> QED
    BY <2>1
<1>5. ASSUME NEW u PROVE Has(t, u) <=> Has(x, u) \/ Has(y, u)
  <2>1. Has(x, u) \/ Has(y, u) => Has(t, u)
    BY <1>1, <1>2, <1>3 DEF Has, m, n
  <2>2. ASSUME NEW k \in 1 .. m + n, t[k] = u PROVE Has(x, u) \/ Has(y, u)
    <3>1. CASE k \in 1 .. m
      BY <1>2, <2>2, <3>1 DEF Has, m
    <3>2. CASE \E i \in 1 .. n : k = m + i
      BY <1>3, <2>2, <3>2 DEF Has, n
    <3> QED
      BY <1>4, <3>1, <3>2
  <2> QED
    BY <1>1, <2>1, <2>2 DEF Has
<1> QED
  BY <1>1, <1>2, <1>3, <1>4, <1>5 DEF t, m, n

LEMMA Single ==
    ASSUME NEW c \in Token
    PROVE  /\ <<c>> \in Seq(Token) /\ Len(<<c>>) = 1 /\ <<c>>[1] = c
           /\ \A u : Has(<<c>>, u) <=> c = u
           /\ <<>> \in Seq(Token) /\ Len(<<>>) = 0 /\ \A u : ~Has(<<>>, u)
<1>1. <<c>> \in Seq(Token) /\ Len(<<c>>) = 1 /\ <<c>>[1] = c
  OBVIOUS
<1>2. \A u : Has(<<c>>, u) <=> c = u
  BY DEF Has
<1>3. <<>> \in Seq(Token) /\ Len(<<>>) = 0
  BY EmptySeq
<1>4. \A u : ~Has(<<>>, u)
  BY <1>3 DEF Has
<1> QED
  BY <1>1, <1>2, <1>3, <1>4

\* Cut at a token that x does not have, the text is x and what follows.
LEMMA SplitAt ==
    ASSUME NEW x \in Seq(Token), NEW u \in Token, NEW y \in Seq(Token), ~Has(x, u)
    PROVE  LET t == x \o (<<u>> \o y)
           IN  t \in Seq(Token) /\ Has(t, u) /\ First(t, u) = x /\ After(t, u) = y
<1> DEFINE z == <<u>> \o y
           t == x \o z
           n == Len(x)
<1>1. /\ z \in Seq(Token) /\ Len(z) = 1 + Len(y) /\ z[1] = u /\ Len(y) \in Nat
      /\ \A k \in 1 .. Len(y) : z[1 + k] = y[k]
  <2>1. <<u>> \in Seq(Token) /\ Len(<<u>>) = 1 /\ <<u>>[1] = u /\ 1 \in 1 .. 1
    BY Single
  <2> DEFINE c == <<u>>
  <2>2. c \in Seq(Token) /\ Len(c) = 1 /\ c[1] = u
    BY <2>1
  <2> HIDE DEF c
  <2>3. /\ c \o y \in Seq(Token) /\ Len(c \o y) = Len(c) + Len(y) /\ Len(y) \in Nat
        /\ \A k \in 1 .. Len(c) : (c \o y)[k] = c[k]
        /\ \A k \in 1 .. Len(y) : (c \o y)[Len(c) + k] = y[k]
    BY <2>2, Concat
  <2>4. (c \o y)[1] = u
    BY <2>2, <2>3
  <2> QED
    BY <2>2, <2>3, <2>4 DEF c
<1>2. z = <<u>> \o y
  OBVIOUS
<1> HIDE DEF z
<1>3. /\ t \in Seq(Token) /\ Len(t) = n + Len(z) /\ n \in Nat /\ n = Len(x)
      /\ \A k \in 1 .. n : t[k] = x[k]
      /\ \A k \in 1 .. Len(z) : t[n + k] = z[k]
  BY <1>1, Concat
<1>4. \A k \in 1 .. n : x[k] # u
  BY DEF Has
<1> HIDE DEF t, n
<1>5. /\ n + 1 \in 1 .. Len(t) /\ t[n + 1] = u
      /\ \A k \in 1 .. Len(y) : t[n + 1 + k] = y[k]
  <2>1. 1 \in 1 .. Len(z) /\ n + 1 \in 1 .. Len(t)
    BY <1>1, <1>3
  <2>2. ASSUME NEW k \in 1 .. Len(y) PROVE t[n + 1 + k] = y[k]
    <3>1. 1 + k \in 1 .. Len(z) /\ n + 1 + k = n + (1 + k)
      BY <1>1, <1>3
    <3> QED
      BY <1>1, <1>3, <3>1
  <2> QED
    BY <1>1, <1>3, <2>1, <2>2
<1>6. Has(t, u)
  BY <1>5 DEF Has
<1>7. PICK p : CutAt(t, u, p)
  BY <1>3, <1>6, Splits
<1> USE DEF CutAt
<1>8. p = n + 1
  <2>1. ~(p <= n)
    BY <1>3, <1>4, <1>7
  <2>2. ~(n + 1 < p)
    <3>1. n + 1 < p => n + 1 \in 1 .. p - 1
      BY <1>1, <1>3, <1>7
    <3> QED
      BY <1>5, <1>7, <3>1
  <2>3. p \in Nat /\ n \in Nat
    BY <1>1, <1>3, <1>7
  <2> QED
    BY <2>1, <2>2, <2>3
<1>9. p - 1 = n /\ Len(t) - p = Len(y)
  BY <1>1, <1>3, <1>8
<1>10. First(t, u) = x
  <2>1. Len(First(t, u)) = Len(x) /\ \A k \in 1 .. Len(First(t, u)) : First(t, u)[k] = x[k]
    BY <1>3, <1>7, <1>9
  <2> QED
    BY <1>7, <2>1, SeqEqual
<1>11. After(t, u) = y
  <2>1. Len(After(t, u)) = Len(y) /\ \A k \in 1 .. Len(After(t, u)) : After(t, u)[k] = y[k]
    BY <1>5, <1>7, <1>8, <1>9
  <2> QED
    BY <1>7, <2>1, SeqEqual
<1> QED
  BY <1>2, <1>3, <1>6, <1>10, <1>11 DEF t

\* A text that begins and ends with a word.
Trimmed(w) == w \in Seq(Token) /\ w # <<>> /\ w[1] # Space /\ w[Len(w)] # Space

Blank(x) == x \in Seq(Token) /\ \A k \in 1 .. Len(x) : x[k] = Space

\* strip of a trimmed text between blanks.
LEMMA StripsTo ==
    ASSUME NEW x, NEW w, NEW y, Blank(x), Trimmed(w), Blank(y)
    PROVE  strip(x \o (w \o y)) = w
<1> DEFINE z == w \o y
           t == x \o z
           l == Len(x)
           n == Len(w)
<1>1. /\ x \in Seq(Token) /\ w \in Seq(Token) /\ y \in Seq(Token)
      /\ w[1] # Space /\ w[n] # Space /\ n \in Nat /\ n >= 1 /\ n = Len(w)
  <2>1. w \in Seq(Token) /\ w # <<>>
    BY DEF Trimmed
  <2>2. Len(w) \in Nat \ {0}
    BY <2>1, EmptySeq
  <2> QED
    BY <2>1, <2>2 DEF Trimmed, Blank
<1>2. /\ z \in Seq(Token) /\ Len(z) = n + Len(y) /\ Len(y) \in Nat
      /\ \A k \in 1 .. n : z[k] = w[k]
      /\ \A k \in 1 .. Len(y) : z[n + k] = y[k]
      /\ \A k \in 1 .. n + Len(y) : k \in 1 .. n \/ \E i \in 1 .. Len(y) : k = n + i
  <2>1. w \in Seq(Token) /\ y \in Seq(Token)
    BY <1>1
  <2> QED
    BY <2>1, Concat
<1> HIDE DEF z, n
<1>3. /\ t \in Seq(Token) /\ Len(t) = l + Len(z) /\ l \in Nat /\ l = Len(x)
      /\ \A k \in 1 .. l : t[k] = x[k]
      /\ \A k \in 1 .. Len(z) : t[l + k] = z[k]
      /\ \A k \in 1 .. l + Len(z) : k \in 1 .. l \/ \E i \in 1 .. Len(z) : k = l + i
  <2>1. x \in Seq(Token) /\ z \in Seq(Token)
    BY <1>1, <1>2
  <2> QED
    BY <2>1, Concat
<1> HIDE DEF t, l
<1>4. \A k \in 1 .. n : k \in 1 .. Len(z) /\ l + k \in 1 .. Len(t) /\ t[l + k] = w[k]
  <2>1. \A k \in 1 .. n : k \in 1 .. Len(z) /\ l + k \in 1 .. Len(t)
    BY <1>1, <1>2, <1>3
  <2> QED
    BY <1>2, <1>3, <2>1
<1>5. ASSUME NEW k \in 1 .. Len(t), t[k] # Space PROVE l + 1 <= k /\ k <= l + n
  <2>1. CASE k \in 1 .. l
    BY <1>3, <1>5, <2>1 DEF Blank
  <2>2. CASE \E i \in 1 .. Len(z) : k = l + i
    <3>1. PICK i \in 1 .. Len(z) : k = l + i
      BY <2>2
    <3>2. z[i] # Space
      BY <1>3, <1>5, <3>1
    <3>3. i \in 1 .. n
      <4>1. \A h \in 1 .. Len(y) : y[h] = Space
        BY DEF Blank
      <4> QED
        BY <1>2, <3>2, <4>1
    <3> QED
      BY <1>1, <1>3, <3>1, <3>3
  <2> QED
    BY <1>3, <2>1, <2>2
<1>6. l + 1 \in 1 .. Len(t) /\ t[l + 1] # Space /\ l + n \in 1 .. Len(t) /\ t[l + n] # Space
  <2>1. 1 \in 1 .. n /\ n \in 1 .. n
    BY <1>1
  <2> QED
    BY <1>1, <1>4, <2>1
<1>7. \E k \in 1 .. Len(t) : t[k] # Space
  BY <1>6
<1>8. PICK i, j : FromWordToWord(t, i, j)
  BY <1>3, <1>7, Strips
<1> USE DEF FromWordToWord
<1>9. i = l + 1 /\ j = l + n
  <2>1. l + 1 <= i /\ j <= l + n /\ i <= l + 1 /\ l + n <= j
    BY <1>5, <1>6, <1>8
  <2> QED
    <3>1. i \in Int /\ j \in Int /\ l \in Int /\ n \in Int
      BY <1>1, <1>3, <1>8
    <3> QED
      BY <2>1, <3>1
<1>10. Len(strip(t)) = n /\ \A k \in 1 .. n : strip(t)[k] = w[k]
  <2>1. j - i + 1 = n /\ \A k \in 1 .. n : i + k - 1 = l + k
    BY <1>1, <1>3, <1>9
  <2> QED
    BY <1>4, <1>8, <2>1
<1>11. strip(t) \in Seq(Token)
  BY <1>3, Strips
<1>12. strip(t) = w
  BY <1>1, <1>10, <1>11, SeqEqual
<1> QED
  BY <1>12 DEF t, z

\* Only takes away what is in front of t and not in V.
LEMMA OnlyDrops ==
    ASSUME NEW x \in Seq(Token), NEW t \in Seq(Token), NEW V,
           \A k \in 1 .. Len(x) : x[k] \notin V, \A k \in 1 .. Len(t) : t[k] \in V
    PROVE  Only(x \o t, V) = t
<1> DEFINE z == x \o t
           l == Len(x)
           n == Len(z)
<1>1. /\ z \in Seq(Token) /\ n = l + Len(t) /\ l \in Nat /\ Len(t) \in Nat /\ n = Len(z) /\ l = Len(x)
      /\ \A k \in 1 .. l : z[k] = x[k]
      /\ \A k \in 1 .. Len(t) : z[l + k] = t[k] /\ t[k] \in Token
  <2>1. \A k \in 1 .. Len(t) : t[k] \in Token
    BY ElementOfSeq
  <2> QED
    BY <2>1, Concat
<1> HIDE DEF z, l, n
<1>2. PICK f : Cuts(f, Token, z, V)
  BY <1>1, OnlySteps
<1>3. /\ f \in [0 .. n -> Seq(Token)] /\ f[0] = <<>> /\ f[n] = Only(z, V)
      /\ \A k \in 1 .. n : f[k] = IF z[k] \in V THEN Append(f[k - 1], z[k]) ELSE f[k - 1]
  BY <1>1, <1>2 DEF Cuts
<1> DEFINE Grown(m) == IF m <= l THEN 0 ELSE m - l
           Same == {m \in 0 .. n : Len(f[m]) = Grown(m) /\ \A k \in 1 .. Grown(m) : f[m][k] = t[k]}
<1>4. 0 \in Same
  <2>1. Grown(0) = 0 /\ 0 \in 0 .. n /\ Len(<<>>) = 0
    BY <1>1, EmptySeq
  <2>2. \A k \in 1 .. Grown(0) : FALSE
    BY <2>1
  <2> HIDE DEF Grown
  <2> QED
    BY <1>3, <2>1, <2>2
<1>5. ASSUME NEW m \in 1 .. n, m - 1 \in Same PROVE m \in Same
  <2>1. Len(f[m - 1]) = Grown(m - 1) /\ \A k \in 1 .. Grown(m - 1) : f[m - 1][k] = t[k]
    BY <1>5
  <2>2. f[m - 1] \in Seq(Token) /\ m - 1 \in 0 .. n /\ m \in 0 .. n
    <3>1. m - 1 \in 0 .. n /\ m \in 0 .. n
      BY <1>1
    <3> QED
      BY <1>3, <3>1
  <2>3. CASE m <= l
    <3>1. z[m] \notin V
      BY <1>1, <2>3
    <3>2. f[m] = f[m - 1] /\ Grown(m) = Grown(m - 1)
      BY <1>1, <1>3, <2>3, <3>1
    <3> HIDE DEF Grown
    <3> QED
      BY <2>1, <2>2, <3>2
  <2>4. CASE ~(m <= l)
    <3>1. Grown(m) = m - l /\ Grown(m - 1) = m - l - 1 /\ m - l \in 1 .. Len(t) /\ l + (m - l) = m
      BY <1>1, <2>4
    <3>2. z[m] = t[m - l] /\ t[m - l] \in V /\ t[m - l] \in Token
      BY <1>1, <3>1
    <3> DEFINE r == f[m - 1]
               c == t[m - l]
               g == m - l
    <3>3. r \in Seq(Token) /\ c \in Token /\ f[m] = Append(r, c)
      BY <1>3, <2>2, <3>2
    <3>4. Len(r) = g - 1 /\ \A k \in 1 .. g - 1 : r[k] = t[k]
      BY <2>1, <3>1
    <3>5. g \in Nat /\ c = t[g] /\ g >= 1 /\ Grown(m) = g
      BY <3>1
    <3> HIDE DEF r, c, g, Grown
    <3>6. Len(f[m]) = g /\ f[m][g] = t[g] /\ \A k \in 1 .. g - 1 : f[m][k] = t[k]
      <4>1. /\ Len(Append(r, c)) = Len(r) + 1
            /\ \A k \in 1 .. Len(r) : Append(r, c)[k] = r[k]
            /\ Append(r, c)[Len(r) + 1] = c
        BY <3>3, AppendProperties
      <4>2. Len(r) + 1 = g
        BY <3>4, <3>5
      <4> QED
        BY <3>3, <3>4, <3>5, <4>1, <4>2
    <3>7. \A k \in 1 .. g : k = g \/ k \in 1 .. g - 1
      BY <3>5
    <3> QED
      BY <2>2, <3>5, <3>6, <3>7
  <2> QED
    BY <2>3, <2>4
<1>6. \A m \in 0 .. n : m \in Same
  <2> HIDE DEF Same
  <2>1. n \in Nat
    BY <1>1
  <2> QED
    BY <1>4, <1>5, <2>1, Induction
<1>7. f[n] \in Seq(Token) /\ Len(f[n]) = Len(t) /\ \A k \in 1 .. Len(t) : f[n][k] = t[k]
  <2>1. n \in 0 .. n /\ Grown(n) = Len(t)
    BY <1>1
  <2> HIDE DEF Grown
  <2> QED
    BY <1>3, <1>6, <2>1
<1>8. f[n] = t
  BY <1>7, SeqEqual
<1> QED
  BY <1>3, <1>8 DEF z

\* A numeral, and the marks it is spelt with.
Numeric(a) == a \in Seq(Digits) /\ a # <<>>
Plural == {<<>>, <<"s">>}
Gap == {<<>>, <<Space>>}

LEMMA Marks ==
    /\ "yr" \in Token /\ "mon" \in Token /\ "s" \in Token /\ Space \in Token
    /\ "yr" # "mon" /\ "yr" # "s" /\ "mon" # "s" /\ "yr" # Space /\ "mon" # Space /\ "s" # Space
    /\ \A d \in Digits : d \in Token /\ d # "yr" /\ d # "mon" /\ d # "s" /\ d # Space
    /\ \A u \in {"yr", "mon", "s", Space, "_"} : u \notin Digits \cup {"sup"}
    /\ \A u \in Digits \cup {"sup"} : u \notin {"+", "-"}
    /\ "sup" \notin Digits
BY Zenon DEF Token, Digits, Space

LEMMA Spaces ==
    ASSUME NEW x \in Gap
    PROVE  Blank(x) /\ \A u : Has(x, u) => u = Space
<1>1. Space \in Token
  BY Marks
<1>2. /\ <<Space>> \in Seq(Token) /\ Len(<<Space>>) = 1 /\ <<Space>>[1] = Space
      /\ <<>> \in Seq(Token) /\ Len(<<>>) = 0 /\ \A u : ~Has(<<>>, u)
      /\ \A u : Has(<<Space>>, u) <=> Space = u
  BY <1>1, Single
<1>3. CASE x = <<>>
  BY <1>2, <1>3 DEF Blank
<1>4. CASE x = <<Space>>
  <2> DEFINE y == <<Space>>
  <2>1. y \in Seq(Token) /\ Len(y) = 1 /\ y[1] = Space /\ x = y /\ \A u : Has(y, u) <=> Space = u
    BY <1>2, <1>4
  <2> HIDE DEF y
  <2>2. \A k \in 1 .. 1 : k = 1
    OBVIOUS
  <2> QED
    BY <2>1, <2>2 DEF Blank
<1> QED
  BY <1>3, <1>4 DEF Gap

LEMMA NumeralsAreText ==
    ASSUME NEW a, Numeric(a)
    PROVE  /\ a \in Seq(Token) /\ Trimmed(a) /\ isdigit(a) /\ Number(a) \in Nat
           /\ \A u : Has(a, u) => u \in Digits
<1>1. Len(a) \in Nat /\ a \in [1 .. Len(a) -> Digits] /\ \A k \in 1 .. Len(a) : a[k] \in Digits
  BY LenProperties, ElementOfSeq DEF Numeric
<1>2. a \in Seq(Token)
  <2>1. a \in [1 .. Len(a) -> Token]
    BY <1>1, Marks
  <2> QED
    BY <1>1, <2>1, SeqDef
<1>3. 1 \in 1 .. Len(a) /\ Len(a) \in 1 .. Len(a)
  <2>1. Len(a) \in Nat \ {0}
    BY EmptySeq DEF Numeric
  <2> QED
    BY <2>1
<1>4. a[1] # Space /\ a[Len(a)] # Space
  BY <1>1, <1>3, Marks
<1>5. isdigit(a)
  BY <1>1 DEF isdigit, Numeric
<1> QED
  BY <1>1, <1>2, <1>4, <1>5, NumberIsNat DEF Numeric, Trimmed, Has

\* Trimmed at both ends, whatever is between.
LEMMA TrimmedConcat ==
    ASSUME NEW x, Trimmed(x), NEW y, Trimmed(y), NEW z \in Seq(Token)
    PROVE  Trimmed(x \o (z \o y)) /\ Trimmed(x \o y)
<1>1. /\ x \in Seq(Token) /\ Len(x) \in Nat \ {0} /\ x[1] # Space
      /\ y \in Seq(Token) /\ Len(y) \in Nat \ {0} /\ y[Len(y)] # Space
  BY EmptySeq DEF Trimmed
<1>2. ASSUME NEW w \in Seq(Token), Len(w) \in Nat \ {0}, w[Len(w)] # Space
      PROVE  Trimmed(x \o w)
  <2>1. /\ x \o w \in Seq(Token) /\ Len(x \o w) = Len(x) + Len(w)
        /\ \A k \in 1 .. Len(x) : (x \o w)[k] = x[k]
        /\ \A k \in 1 .. Len(w) : (x \o w)[Len(x) + k] = w[k]
    BY <1>1, Concat
  <2>2. 1 \in 1 .. Len(x) /\ Len(w) \in 1 .. Len(w)
    BY <1>1, <1>2
  <2>3. (x \o w)[1] # Space /\ (x \o w)[Len(x) + Len(w)] # Space
    BY <1>1, <1>2, <2>1, <2>2
  <2>4. Len(x) + Len(w) # 0
    BY <1>1, <1>2
  <2>5. x \o w # <<>>
    BY <2>1, <2>4, EmptySeq
  <2> QED
    BY <2>1, <2>3, <2>5 DEF Trimmed
<1>3. z \o y \in Seq(Token) /\ Len(z \o y) \in Nat \ {0} /\ (z \o y)[Len(z \o y)] # Space
  <2>1. /\ z \o y \in Seq(Token) /\ Len(z \o y) = Len(z) + Len(y) /\ Len(z) \in Nat
        /\ \A k \in 1 .. Len(y) : (z \o y)[Len(z) + k] = y[k]
    BY <1>1, Concat
  <2>2. Len(y) \in 1 .. Len(y) /\ Len(z) + Len(y) \in Nat \ {0}
    BY <1>1, <2>1
  <2> QED
    BY <1>1, <2>1, <2>2
<1> QED
  BY <1>1, <1>2, <1>3

LEMMA StripsNothing ==
    ASSUME NEW w, Trimmed(w)
    PROVE  strip(w) = w
<1>1. Blank(<<>>)
  BY Spaces DEF Gap
<1>2. w \in Seq(Token)
  BY DEF Trimmed
<1>3. <<>> \o (w \o <<>>) = w
  BY <1>2, ConcatEmptySeq
<1>4. strip(<<>> \o (w \o <<>>)) = w
  BY <1>1, StripsTo
<1> QED
  BY <1>3, <1>4

\* What isdigit takes, int converts or does not, as it stands.
LEMMA IntOfDigits ==
    ASSUME NEW t \in Seq(Token), isdigit(t)
    PROVE  /\ int(t) = IF IsNumeral(t) THEN {Number(Only(t, Digits))} ELSE {}
           /\ IsNumeral(t) <=> ~Has(t, "sup") /\ Len(t) <= MaxDigits
           /\ IsNumeral(t) => Only(t, Digits) = t
<1>1. /\ t # <<>> /\ Len(t) \in Nat /\ 1 \in 1 .. Len(t) /\ Len(t) \in 1 .. Len(t)
      /\ \A k \in 1 .. Len(t) : t[k] \in Digits \cup {"sup"}
  <2>1. t # <<>> /\ Len(t) \in Nat \ {0} /\ \A k \in 1 .. Len(t) : t[k] \in Digits \cup {"sup"}
    BY EmptySeq, LenProperties DEF isdigit
  <2> QED
    BY <2>1
<1>2. strip(t) = t
  <2>1. t[1] # Space /\ t[Len(t)] # Space
    BY <1>1, Marks
  <2> QED
    BY <1>1, <2>1, StripsNothing DEF Trimmed
<1>3. t[1] \notin {"+", "-"}
  BY <1>1, Marks
<1>4. int(t) = IF IsNumeral(t) THEN {Number(Only(t, Digits))} ELSE {}
  BY <1>2, <1>3 DEF int
<1>5. ASSUME Has(t, "sup") PROVE ~IsNumeral(t)
  <2>1. PICK k \in 1 .. Len(t) : t[k] = "sup"
    BY <1>5 DEF Has
  <2>2. t[k] \notin Digits /\ t[k] # "_"
    BY <2>1, Marks
  <2> QED
    BY <2>2 DEF IsNumeral
<1>6. ASSUME ~Has(t, "sup")
      PROVE  Only(t, Digits) = t /\ (IsNumeral(t) <=> Len(t) <= MaxDigits)
  <2>1. \A k \in 1 .. Len(t) : t[k] \in Digits
    BY <1>1, <1>6 DEF Has
  <2>2. Only(t, Digits) = t
    BY <2>1, OnlyAll
  <2> QED
    BY <1>1, <2>1, <2>2 DEF IsNumeral
<1> QED
  BY <1>4, <1>5, <1>6

\* int of a numeral between blanks.
LEMMA CountIs ==
    ASSUME NEW a, Numeric(a), NEW x \in Gap
    PROVE  /\ Count(a) = Decimal(a) /\ Count(x \o a) = Decimal(a) /\ Count(a \o x) = Decimal(a)
           /\ int(a) = Decimal(a) /\ Decimal(a) \in SUBSET Nat
<1>1. /\ a \in Seq(Token) /\ Trimmed(a) /\ isdigit(a) /\ a # <<>> /\ Number(a) \in Nat
      /\ ~Has(a, "sup")
  BY NumeralsAreText, Marks DEF Numeric
<1>2. strip(a) = a
  BY <1>1, StripsNothing
<1>3. int(a) = Decimal(a) /\ Decimal(a) \in SUBSET Nat
  BY <1>1, IntOfDigits DEF Decimal
<1>4. ASSUME NEW t, strip(t) = a PROVE Count(t) = Decimal(a)
  <2>1. int(t) = int(a)
    BY <1>2, <1>4 DEF int
  <2> QED
    BY <1>1, <1>3, <1>4, <2>1 DEF Count
<1>5. Blank(x) /\ Blank(<<>>) /\ x \in Seq(Token)
  BY Spaces DEF Gap, Blank
<1>6. a \o x \in Seq(Token)
  BY <1>1, <1>5, Concat
<1>7. /\ strip(x \o (a \o <<>>)) = a /\ strip(<<>> \o (a \o x)) = a
      /\ a \o <<>> = a /\ <<>> \o (a \o x) = a \o x
  BY <1>1, <1>5, <1>6, StripsTo, ConcatEmptySeq
<1> QED
  BY <1>2, <1>3, <1>4, <1>7

\* What a mark of the plural adds to a unit.
LEMMA Units ==
    ASSUME NEW S \in Plural, NEW u \in {"yr", "mon"}
    PROVE  /\ S \in Seq(Token) /\ ~isdigit(S) /\ \A c : Has(S, c) => c = "s"
           /\ \A k \in 1 .. Len(S) : S[k] = "s"
           /\ <<u>> \in Seq(Token) /\ Trimmed(<<u>> \o S)
           /\ \A c : Has(<<u>> \o S, c) => c \in {u, "s"}
<1>1. /\ "s" \in Token /\ u \in Token /\ u # Space /\ "s" # Space /\ "s" \notin Digits
  BY Marks
<1>2. /\ <<"s">> \in Seq(Token) /\ Len(<<"s">>) = 1 /\ <<"s">>[1] = "s"
      /\ <<>> \in Seq(Token) /\ Len(<<>>) = 0 /\ \A c : ~Has(<<>>, c)
      /\ \A c : Has(<<"s">>, c) <=> "s" = c
  BY <1>1, Single
<1>3. <<u>> \in Seq(Token) /\ Len(<<u>>) = 1 /\ <<u>>[1] = u /\ \A c : Has(<<u>>, c) <=> u = c
  BY <1>1, Single
<1> DEFINE U == <<u>>
           P == <<"s">>
<1>4. Trimmed(U) /\ Trimmed(P)
  <2>1. U # <<>> /\ P # <<>>
    OBVIOUS
  <2>2. U[Len(U)] # Space /\ P[Len(P)] # Space /\ U[1] # Space /\ P[1] # Space
    BY <1>1, <1>2, <1>3
  <2> QED
    BY <1>2, <1>3, <2>1, <2>2 DEF Trimmed
<1>5. /\ P \in Seq(Token) /\ Len(P) = 1 /\ P[1] = "s" /\ \A c : Has(P, c) <=> "s" = c
      /\ U \in Seq(Token) /\ \A c : Has(U, c) <=> u = c
  BY <1>2, <1>3
<1>6. S = <<>> \/ S = P
  BY DEF Plural
<1> HIDE DEF U, P
<1>7. CASE S = <<>>
  <2>1. U \o S = U
    BY <1>5, <1>7, ConcatEmptySeq
  <2>2. \A k \in 1 .. 0 : FALSE
    OBVIOUS
  <2>3. ~isdigit(S)
    BY <1>7 DEF isdigit
  <2> QED
    BY <1>2, <1>4, <1>5, <1>7, <2>1, <2>2, <2>3 DEF U
<1>8. CASE S = P
  <2>1. Trimmed(U \o P) /\ \A c : Has(U \o P, c) <=> Has(U, c) \/ Has(P, c)
    BY <1>4, <1>5, <1>2, TrimmedConcat, Concat
  <2>2. 1 \in 1 .. 1 /\ \A k \in 1 .. 1 : k = 1
    OBVIOUS
  <2>3. ~isdigit(S)
    BY <1>1, <1>5, <1>8, <2>2 DEF isdigit
  <2> QED
    BY <1>5, <1>8, <2>1, <2>2, <2>3 DEF U
<1> QED
  BY <1>6, <1>7, <1>8

\* In s the years and the rest behind them, in the rest the months.
Reads(s, rest, years, months) ==
    /\ years \in SUBSET Nat /\ months \in SUBSET Nat /\ ~isdigit(rest)
    /\ rest = IF Has(s, "yr") THEN Second(s, "yr") ELSE s
    /\ years = IF Has(s, "yr") THEN Count(First(s, "yr")) ELSE {0}
    /\ months = IF Has(rest, "mon") THEN Count(Without(First(rest, "mon"), "s")) ELSE {0}

\* A text with units is not the plain number.
LEMMA UnitsAdd ==
    ASSUME NEW t, NEW rest, NEW years, NEW months, Reads(strip(t), rest, years, months)
    PROVE  parse_duration_to_months(t) = InMonths(years, months)
<1> DEFINE s1 == strip(t)
           rest1 == IF Has(s1, "yr") THEN Second(s1, "yr") ELSE s1
           years1 == IF Has(s1, "yr") THEN Count(First(s1, "yr")) ELSE {0}
           months1 == IF Has(rest1, "mon") THEN Count(Without(First(rest1, "mon"), "s")) ELSE {0}
<1>1. parse_duration_to_months(t) = UNION {Months(rest1, y, m) : y \in years1, m \in months1}
  BY DEF parse_duration_to_months, Months
<1>2. parse_duration_to_months(t) = UNION {Months(rest, y, m) : y \in years, m \in months}
  <2> HIDE DEF s1
  <2>1. Reads(s1, rest, years, months)
    BY DEF s1
  <2>2. rest1 = rest /\ years1 = years
    BY <2>1, Zenon DEF Reads
  <2> HIDE DEF rest1, years1
  <2>3. months1 = months
    BY <2>1, <2>2, Zenon DEF Reads
  <2> HIDE DEF months1
  <2> QED
    BY <1>1, <2>2, <2>3
<1>3. ASSUME NEW y \in years, NEW m \in months PROVE Months(rest, y, m) = {12 * y + m}
  <2>1. 12 * y + m \in Int /\ 12 * y + m >= 0
    <3>1. y \in Nat /\ m \in Nat
      BY DEF Reads
    <3> QED
      BY <3>1
  <2>2. Max({0, 12 * y + m}) = 12 * y + m
    BY <2>1, MaxOfZero
  <2> QED
    BY <2>2 DEF Months, Reads
<1>4. UNION {Months(rest, y, m) : y \in years, m \in months} = InMonths(years, months)
  BY <1>3 DEF InMonths
<1> QED
  BY <1>2, <1>4

LEMMA Associates ==
    \A x, y, z \in Seq(Token) : (x \o y) \o z = x \o (y \o z)
BY ConcatAssociative

\* "Ayrs Bmons"
LEMMA BothUnits ==
    ASSUME NEW a, NEW b, Numeric(a), Numeric(b), NEW S \in Plural, NEW P \in Gap
    PROVE  parse_duration_to_months(a \o <<"yr">> \o S \o P \o b \o <<"mon">> \o S)
              = InMonths(Decimal(a), Decimal(b))
<1> DEFINE Y == <<"yr">>
           N == <<"mon">>
           M == S \o (P \o b)
           rest == M \o (N \o S)
           spelt == a \o Y \o S \o P \o b \o N \o S
<1>1. /\ a \in Seq(Token) /\ Trimmed(a) /\ \A u : Has(a, u) => u \in Digits
      /\ b \in Seq(Token) /\ Trimmed(b) /\ \A u : Has(b, u) => u \in Digits
  BY NumeralsAreText
<1>2. /\ S \in Seq(Token) /\ Y \in Seq(Token) /\ N \in Seq(Token) /\ Trimmed(N \o S)
      /\ \A u : Has(S, u) => u = "s"
      /\ \A k \in 1 .. Len(S) : S[k] = "s"
      /\ \A u : Has(N \o S, u) => u \in {"mon", "s"}
  BY Units
<1>3. P \in Seq(Token) /\ \A k \in 1 .. Len(P) : P[k] = Space
  BY Spaces DEF Blank
<1>4. \A u : Has(P, u) => u = Space
  BY Spaces
<1>5. /\ P \o b \in Seq(Token) /\ M \in Seq(Token)
      /\ \A u : Has(M, u) <=> Has(S, u) \/ Has(P, u) \/ Has(b, u)
  <2>1. P \o b \in Seq(Token) /\ \A u : Has(P \o b, u) <=> Has(P, u) \/ Has(b, u)
    BY <1>1, <1>3, Concat
  <2>2. M \in Seq(Token) /\ \A u : Has(M, u) <=> Has(S, u) \/ Has(P \o b, u)
    BY <1>2, <2>1, Concat
  <2> QED
    BY <2>1, <2>2
<1>6. /\ N \o S \in Seq(Token) /\ rest \in Seq(Token)
      /\ \A u : Has(rest, u) <=> Has(M, u) \/ Has(N \o S, u)
  <2>1. N \o S \in Seq(Token)
    BY <1>2, Concat
  <2>2. M \in Seq(Token)
    BY <1>5
  <2> DEFINE E == N \o S
  <2> HIDE DEF M
  <2>3. /\ M \o E \in Seq(Token)
        /\ \A c : Has(M \o E, c) <=> Has(M, c) \/ Has(E, c)
    <3>1. E \in Seq(Token)
      BY <2>1
    <3> HIDE DEF E
    <3> QED
      BY <2>2, <3>1, Concat
  <2> QED
    BY <2>1, <2>3
<1>7. spelt = a \o (Y \o rest)
  <2> DEFINE A == a \o Y
  <2>1. A \in Seq(Token)
    BY <1>1, <1>2, Concat
  <2> HIDE DEF Y, N
  <2>2. A = a \o Y
    OBVIOUS
  <2> HIDE DEF A
  <2>3. A \o S \in Seq(Token) /\ A \o M \in Seq(Token)
    BY <1>2, <1>5, <2>1, Concat
  <2>4. (A \o S) \o P \o b = (A \o S) \o (P \o b)
    <3>1. A \o S \in Seq(Token) /\ P \in Seq(Token) /\ b \in Seq(Token)
      BY <1>1, <1>3, <2>3, Zenon
    <3> QED
      BY <3>1, Associates
  <2>5. (A \o S) \o (P \o b) = A \o M
    <3>1. A \in Seq(Token) /\ S \in Seq(Token) /\ P \o b \in Seq(Token)
      BY <1>2, <1>5, <2>1, Zenon
    <3> QED
      BY <3>1, Associates
  <2>6. (A \o M) \o N \o S = (A \o M) \o (N \o S)
    <3>1. A \o M \in Seq(Token) /\ N \in Seq(Token) /\ S \in Seq(Token)
      BY <1>2, <2>3, Zenon
    <3> QED
      BY <3>1, Associates
  <2>7. (A \o M) \o (N \o S) = A \o rest
    <3> HIDE DEF M
    <3>1. A \in Seq(Token) /\ M \in Seq(Token) /\ N \o S \in Seq(Token)
      BY <1>5, <1>6, <2>1, Zenon
    <3> QED
      BY <3>1, Associates
  <2>8. A \o rest = a \o (Y \o rest)
    <3> HIDE DEF M, rest
    <3>1. a \in Seq(Token) /\ Y \in Seq(Token) /\ rest \in Seq(Token)
      BY <1>1, <1>2, <1>6, Zenon
    <3> QED
      BY <2>2, <3>1, Associates
  <2> HIDE DEF M, rest
  <2> QED
    BY <2>2, <2>4, <2>5, <2>6, <2>7, <2>8
<1> HIDE DEF spelt
<1>8. ~Has(a, "yr") /\ ~Has(rest, "yr") /\ ~Has(M, "mon")
  <2> HIDE DEF M, rest
  <2> QED
    BY <1>1, <1>2, <1>4, <1>5, <1>6, Marks
<1>9. /\ spelt \in Seq(Token) /\ Has(spelt, "yr") /\ First(spelt, "yr") = a /\ After(spelt, "yr") = rest
  <2> HIDE DEF rest
  <2> QED
    BY <1>1, <1>6, <1>7, <1>8, SplitAt, Marks
<1>10. rest = M \o (<<"mon">> \o S) /\ "mon" \in Token
  BY Marks
<1>11. Has(rest, "mon") /\ First(rest, "mon") = M
  <2> HIDE DEF M, rest
  <2> QED
    BY <1>2, <1>5, <1>8, <1>10, SplitAt
<1>12. Trimmed(spelt)
  <2>1. Y \o M \in Seq(Token)
    BY <1>2, <1>5, Concat
  <2>2. Y \o rest = (Y \o M) \o (N \o S)
    <3> HIDE DEF M, Y
    <3>1. Y \in Seq(Token) /\ M \in Seq(Token) /\ N \o S \in Seq(Token)
      BY <1>2, <1>5, <1>6, Zenon
    <3> QED
      BY <3>1, Associates
  <2> HIDE DEF M, Y, N, rest
  <2> QED
    BY <1>1, <1>2, <1>7, <2>1, <2>2, TrimmedConcat
<1>13. Without(M, "s") = P \o b
  <2> DEFINE V == Token \ {"s"}
             t == P \o b
  <2>1. \A k \in 1 .. Len(t) : t[k] \in V
    <3>1. t \in Seq(Token) /\ \A u : Has(t, u) => Has(P, u) \/ Has(b, u)
      BY <1>1, <1>3, Concat
    <3>2. ~Has(t, "s")
      <4> HIDE DEF t
      <4> QED
        BY <1>1, <1>4, <3>1, Marks
    <3> HIDE DEF t
    <3> QED
      BY <3>1, <3>2, ElementOfSeq DEF Has
  <2>2. \A k \in 1 .. Len(S) : S[k] \notin V
    BY <1>2
  <2>3. Without(M, "s") = Only(S \o t, V)
    BY DEF Without
  <2>4. t \in Seq(Token)
    BY <1>5
  <2> HIDE DEF V, t
  <2>5. Only(S \o t, V) = t
    BY <1>2, <2>1, <2>2, <2>4, OnlyDrops
  <2> QED
    BY <2>3, <2>5 DEF t
<1>14. ~isdigit(rest)
  <2> HIDE DEF rest
  <2> QED
    BY <1>11, Marks DEF isdigit, Has
<1>15. strip(spelt) = spelt
  BY <1>12, StripsNothing
<1>16. /\ Count(a) = Decimal(a) /\ Count(P \o b) = Decimal(b)
       /\ Decimal(a) \in SUBSET Nat /\ Decimal(b) \in SUBSET Nat
  BY CountIs
<1> HIDE DEF M, rest
<1>17. Second(spelt, "yr") = rest
  BY <1>8, <1>9 DEF Second
<1>18. parse_duration_to_months(spelt) = InMonths(Decimal(a), Decimal(b))
  <2>1. /\ rest = IF Has(spelt, "yr") THEN Second(spelt, "yr") ELSE spelt
        /\ Decimal(a) = IF Has(spelt, "yr") THEN Count(First(spelt, "yr")) ELSE {0}
    BY <1>9, <1>16, <1>17
  <2>2. Decimal(b) = IF Has(rest, "mon") THEN Count(Without(First(rest, "mon"), "s")) ELSE {0}
    BY <1>11, <1>13, <1>16
  <2>3. Reads(spelt, rest, Decimal(a), Decimal(b))
    BY <1>14, <1>16, <2>1, <2>2 DEF Reads
  <2> QED
    BY <1>15, <2>3, UnitsAdd
<1> QED
  BY <1>18 DEF spelt

\* "A yrs"
LEMMA YearsAlone ==
    ASSUME NEW a, Numeric(a), NEW S \in Plural, NEW P \in Gap
    PROVE  parse_duration_to_months(a \o P \o <<"yr">> \o S) = InMonths(Decimal(a), {0})
<1> DEFINE Y == <<"yr">>
           x == a \o P
           spelt == a \o P \o Y \o S
           years == Decimal(a)
<1>1. /\ a \in Seq(Token) /\ Trimmed(a) /\ \A u : Has(a, u) => u \in Digits
      /\ P \in Seq(Token) /\ \A u : Has(P, u) => u = Space
  BY NumeralsAreText, Spaces DEF Blank
<1>2. /\ S \in Seq(Token) /\ Y \in Seq(Token) /\ Trimmed(Y \o S) /\ Y \o S \in Seq(Token)
      /\ \A u : Has(S, u) => u = "s"
      /\ ~isdigit(S)
  BY Units DEF Trimmed
<1>3. x \in Seq(Token) /\ \A u : Has(x, u) <=> Has(a, u) \/ Has(P, u)
  BY <1>1, Concat
<1> HIDE DEF years
<1>4. spelt = x \o (Y \o S) /\ spelt = a \o (P \o (Y \o S))
  <2>1. spelt = x \o (Y \o S)
    <3> HIDE DEF x, Y
    <3>1. (x \o Y) \o S = x \o (Y \o S)
      BY <1>2, <1>3, Associates, Zenon
    <3>2. spelt = (x \o Y) \o S
      BY DEF x
    <3> QED
      BY <3>1, <3>2
  <2>2. x \o (Y \o S) = a \o (P \o (Y \o S))
    <3> HIDE DEF Y
    <3> QED
      BY <1>1, <1>2, Associates, Zenon
  <2> QED
    BY <2>1, <2>2
<1>5. strip(spelt) = spelt
  <2> HIDE DEF Y
  <2>1. Trimmed(a \o (P \o (Y \o S)))
    BY <1>1, <1>2, TrimmedConcat
  <2> QED
    BY <1>4, <2>1, StripsNothing
<1> HIDE DEF spelt, x
<1>6. Has(spelt, "yr") /\ First(spelt, "yr") = x /\ After(spelt, "yr") = S
  <2>1. ~Has(x, "yr")
    BY <1>1, <1>3, Marks
  <2>2. "yr" \in Token
    BY Marks
  <2> QED
    BY <1>2, <1>3, <1>4, <2>1, <2>2, SplitAt
<1>7. ~Has(S, "yr") /\ ~Has(S, "mon")
  BY <1>2, Marks
<1>8. Second(spelt, "yr") = S
  BY <1>6, <1>7 DEF Second
<1>9. Count(x) = years /\ years \in SUBSET Nat
  BY CountIs DEF x, years
<1>10. /\ S = IF Has(spelt, "yr") THEN Second(spelt, "yr") ELSE spelt
       /\ years = IF Has(spelt, "yr") THEN Count(First(spelt, "yr")) ELSE {0}
       /\ {0} = IF Has(S, "mon") THEN Count(Without(First(S, "mon"), "s")) ELSE {0}
  BY <1>6, <1>7, <1>8, <1>9
<1>11. {0} \in SUBSET Nat /\ ~isdigit(S)
  BY <1>2
<1>12. Reads(spelt, S, years, {0})
  BY <1>9, <1>10, <1>11 DEF Reads
<1>13. parse_duration_to_months(spelt) = InMonths(years, {0})
  BY <1>5, <1>12, UnitsAdd
<1> QED
  BY <1>13 DEF spelt, years

\* " Bmons"
LEMMA MonthsAlone ==
    ASSUME NEW b, Numeric(b), NEW S \in Plural, NEW P \in Gap
    PROVE  parse_duration_to_months(P \o b \o <<"mon">> \o S) = InMonths({0}, Decimal(b))
<1> DEFINE N == <<"mon">>
           s == b \o (N \o S)
           spelt == P \o b \o N \o S
           months == Decimal(b)
<1>1. /\ b \in Seq(Token) /\ Trimmed(b) /\ \A u : Has(b, u) => u \in Digits
      /\ P \in Seq(Token) /\ Blank(P) /\ Blank(<<>>)
  BY NumeralsAreText, Spaces DEF Blank, Gap
<1>2. /\ S \in Seq(Token) /\ N \in Seq(Token) /\ Trimmed(N \o S) /\ N \o S \in Seq(Token)
      /\ \A u : Has(N \o S, u) => u \in {"mon", "s"}
  BY Units DEF Trimmed
<1>3. \A u : Has(s, u) <=> Has(b, u) \/ Has(N \o S, u)
  <2> HIDE DEF N
  <2> QED
    BY <1>1, <1>2, Concat
<1>4. Trimmed(s) /\ s \in Seq(Token)
  <2> HIDE DEF N
  <2> QED
    BY <1>1, <1>2, TrimmedConcat DEF Trimmed
<1> HIDE DEF months
<1>5. spelt = P \o (s \o <<>>)
  <2> HIDE DEF N
  <2>1. P \o b \in Seq(Token)
    BY <1>1, Concat
  <2>2. (P \o b) \o N \o S = (P \o b) \o (N \o S)
    BY <1>2, <2>1, Associates, Zenon
  <2>3. (P \o b) \o (N \o S) = P \o s
    BY <1>1, <1>2, Associates, Zenon
  <2> HIDE DEF s
  <2>4. s \o <<>> = s
    BY <1>4, ConcatEmptySeq
  <2> QED
    BY <2>2, <2>3, <2>4
<1>6. ~Has(b, "mon") /\ ~Has(s, "yr")
  <2> HIDE DEF s
  <2> QED
    BY <1>1, <1>2, <1>3, Marks
<1>7. Has(s, "mon") /\ First(s, "mon") = b
  BY <1>1, <1>2, <1>6, SplitAt, Marks
<1>8. Without(b, "s") = b
  <2>1. \A k \in 1 .. Len(b) : b[k] \in Token /\ b[k] # "s"
    BY <1>1, ElementOfSeq, Marks DEF Has
  <2>2. \A k \in 1 .. Len(b) : b[k] \in Token \ {"s"}
    BY <2>1
  <2> QED
    BY <1>1, <2>2, OnlyAll DEF Without
<1>9. ~isdigit(s)
  <2> HIDE DEF s
  <2> QED
    BY <1>7, Marks DEF isdigit, Has
<1> HIDE DEF s, spelt
<1>10. strip(spelt) = s
  BY <1>1, <1>4, <1>5, StripsTo
<1>11. Count(b) = months /\ months \in SUBSET Nat
  <2>1. <<>> \in Gap
    BY DEF Gap
  <2> QED
    BY <2>1, CountIs DEF months
<1>12. /\ s = IF Has(s, "yr") THEN Second(s, "yr") ELSE s
       /\ {0} = IF Has(s, "yr") THEN Count(First(s, "yr")) ELSE {0}
       /\ months = IF Has(s, "mon") THEN Count(Without(First(s, "mon"), "s")) ELSE {0}
  BY <1>6, <1>7, <1>8, <1>11
<1>13. {0} \in SUBSET Nat
  OBVIOUS
<1>14. Reads(s, s, {0}, months)
  BY <1>9, <1>11, <1>12, <1>13 DEF Reads
<1>15. parse_duration_to_months(spelt) = InMonths({0}, months)
  BY <1>10, <1>14, UnitsAdd
<1> QED
  BY <1>15 DEF spelt, months

\* "B"
LEMMA PlainNumber ==
    ASSUME NEW b, Numeric(b)
    PROVE  parse_duration_to_months(b) = InMonths({0}, Decimal(b))
<1>1. b \in Seq(Token) /\ Trimmed(b) /\ isdigit(b) /\ ~Has(b, "yr") /\ ~Has(b, "mon")
  BY NumeralsAreText, Marks
<1>2. strip(b) = b
  BY <1>1, StripsNothing
<1>3. parse_duration_to_months(b) = UNION {Months(b, y, m) : y \in {0}, m \in {0}}
  BY <1>1, <1>2 DEF parse_duration_to_months, Months
<1>4. Months(b, 0, 0) = int(b)
  BY <1>1 DEF Months
<1>5. int(b) = Decimal(b) /\ Decimal(b) \in SUBSET Nat
  <2>1. <<>> \in Gap
    BY DEF Gap
  <2> QED
    BY <2>1, CountIs
<1> HIDE DEF Decimal
<1>6. \A m \in Decimal(b) : 12 * 0 + m = m
  BY <1>5
<1>7. InMonths({0}, Decimal(b)) = Decimal(b)
  BY <1>6 DEF InMonths
<1> QED
  BY <1>3, <1>4, <1>5, <1>7

\* parse_duration_to_months: a duration that is spelt as the field describes is
\* its months, whatever its numerals up to the digits int converts, and raises
\* just if one of them has more.
THEOREM EverySpellingHasItsMonths ==
    ASSUME NEW a, NEW b, Numeric(a), Numeric(b)
    PROVE  LET spelt == Spellings(a, b)
           IN  /\ \A t \in spelt.both :
                     parse_duration_to_months(t) = InMonths(Decimal(a), Decimal(b))
               /\ \A t \in spelt.years :
                     parse_duration_to_months(t) = InMonths(Decimal(a), {0})
               /\ \A t \in spelt.months :
                     parse_duration_to_months(t) = InMonths({0}, Decimal(b))
<1> DEFINE Both(S, P) == a \o <<"yr">> \o S \o P \o b \o <<"mon">> \o S
           Years(S, P) == a \o P \o <<"yr">> \o S
           OfMonths(S, P) == P \o b \o <<"mon">> \o S
<1>1. /\ Spellings(a, b).both = {Both(S, P) : S \in Plural, P \in Gap}
      /\ Spellings(a, b).years = {Years(S, P) : S \in Plural, P \in Gap}
      /\ Spellings(a, b).months = {OfMonths(S, P) : S \in Plural, P \in Gap} \cup {b}
  BY DEF Spellings, Plural, Gap, Space
<1>2. ASSUME NEW S \in Plural, NEW P \in Gap
      PROVE  /\ parse_duration_to_months(Both(S, P)) = InMonths(Decimal(a), Decimal(b))
             /\ parse_duration_to_months(Years(S, P)) = InMonths(Decimal(a), {0})
             /\ parse_duration_to_months(OfMonths(S, P)) = InMonths({0}, Decimal(b))
  <2>1. parse_duration_to_months(Both(S, P)) = InMonths(Decimal(a), Decimal(b))
    BY BothUnits
  <2>2. parse_duration_to_months(Years(S, P)) = InMonths(Decimal(a), {0})
    BY YearsAlone
  <2>3. parse_duration_to_months(OfMonths(S, P)) = InMonths({0}, Decimal(b))
    BY MonthsAlone
  <2> HIDE DEF Both, Years, OfMonths
  <2> QED
    BY <2>1, <2>2, <2>3
<1>3. parse_duration_to_months(b) = InMonths({0}, Decimal(b))
  BY PlainNumber
<1> HIDE DEF Both, Years, OfMonths
<1>4. /\ \A t \in Spellings(a, b).both :
            parse_duration_to_months(t) = InMonths(Decimal(a), Decimal(b))
      /\ \A t \in Spellings(a, b).years : parse_duration_to_months(t) = InMonths(Decimal(a), {0})
  BY <1>1, <1>2
<1>5. \A t \in Spellings(a, b).months : parse_duration_to_months(t) = InMonths({0}, Decimal(b))
  BY <1>1, <1>2, <1>3
<1> QED
  BY <1>4, <1>5

LEMMA NumeralsAreNumeric == \A a \in Numerals : Numeric(a)
<1> DEFINE long == [k \in 1 .. MaxDigits + 1 |-> "1"]
<1>1. /\ <<"0">> \in Seq(Digits) /\ <<"1">> \in Seq(Digits) /\ <<"1", "0">> \in Seq(Digits)
      /\ <<"0">> # <<>> /\ <<"1">> # <<>> /\ <<"1", "0">> # <<>>
  BY DEF Digits
<1>2. long \in Seq(Digits) /\ long # <<>>
  <2>1. MaxDigits + 1 \in Nat /\ 1 \in 1 .. MaxDigits + 1
    BY MaxDigitsAssumption
  <2>2. long \in [1 .. MaxDigits + 1 -> Digits]
    BY DEF Digits
  <2>3. long \in Seq(Digits)
    BY <2>1, <2>2, SeqDef
  <2>4. DOMAIN long # {} /\ DOMAIN <<>> = {}
    BY <2>1, EmptySeq
  <2> QED
    BY <2>3, <2>4
<1> HIDE DEF long
<1>3. Numerals = {<<"0">>, <<"1">>, <<"1", "0">>, long}
  BY DEF Numerals, long
<1> QED
  BY <1>1, <1>2, <1>3, Zenon DEF Numeric

\* Every text: a natural number, nothing without a decimal, and without a unit
\* an error just for digits that int does not convert.
LEMMA DurationIsNat ==
    ASSUME NEW t \in Seq(Token)
    PROVE  LET s == strip(t)
               months == parse_duration_to_months(t)
           IN  /\ months \subseteq Nat
               /\ NoDigit(t) => months \subseteq {0}
               /\ ~Has(t, "yr") /\ ~Has(t, "mon") =>
                     (months = {} <=> isdigit(s) /\ (Has(s, "sup") \/ Len(s) > MaxDigits))
<1>1. PICK rest, years, months : Parsed(t, rest, years, months)
  BY DurationParts
<1>2. ASSUME NEW x \in Seq(Token), isdigit(x)
      PROVE  /\ int(x) \subseteq Nat
             /\ int(x) = {} <=> Has(x, "sup") \/ Len(x) > MaxDigits
  <2>1. /\ int(x) = IF IsNumeral(x) THEN {Number(Only(x, Digits))} ELSE {}
        /\ IsNumeral(x) <=> ~Has(x, "sup") /\ Len(x) <= MaxDigits
    BY <1>2, IntOfDigits
  <2>2. IsNumeral(x) => Number(Only(x, Digits)) \in Nat
    BY NumeralsHaveANumber
  <2>3. Len(x) \in Nat /\ MaxDigits \in Nat
    BY LenProperties, MaxDigitsAssumption
  <2> QED
    BY <2>1, <2>2, <2>3
<1>3. rest \in Seq(Token) /\ \A u : Has(rest, u) => Has(t, u)
  <2>1. Within(rest, t)
    BY <1>1 DEF Parsed
  <2> QED
    BY <2>1 DEF Within, Has
<1>4. NoDigit(t) => int(rest) = {}
  BY <1>3, IntIsInt DEF NoDigit
<1>5. ASSUME NEW y \in Int, NEW m \in Int PROVE Months(rest, y, m) \subseteq Nat
  <2>1. Max({0, 12 * y + m}) = IF 12 * y + m >= 0 THEN 12 * y + m ELSE 0
    <3> 12 * y + m \in Int
      OBVIOUS
    <3> QED
      BY MaxOfZero
  <2>2. Max({0, 12 * y + m}) \in Nat
    BY <2>1
  <2> QED
    BY <1>2, <1>3, <2>2 DEF Months
<1>6. Months(rest, 0, 0) = IF isdigit(rest) THEN int(rest) ELSE {0}
  <2>1. Max({0, 0}) = 0 /\ 12 * 0 + 0 = 0
    BY MaxOfZero
  <2> QED
    BY <2>1 DEF Months
<1>7. parse_duration_to_months(t) \subseteq Nat
  BY <1>1, <1>5 DEF Parsed
<1>8. NoDigit(t) => parse_duration_to_months(t) \subseteq {0}
  BY <1>1, <1>4, <1>6 DEF Parsed
<1>9. ASSUME ~Has(t, "yr"), ~Has(t, "mon")
      PROVE  LET s == strip(t)
             IN  parse_duration_to_months(t) = {}
                    <=> isdigit(s) /\ (Has(s, "sup") \/ Len(s) > MaxDigits)
  <2>1. rest = strip(t) /\ parse_duration_to_months(t) = Months(rest, 0, 0)
    BY <1>1, <1>9 DEF Parsed
  <2> QED
    BY <1>2, <1>3, <1>6, <2>1
<1> QED
  BY <1>7, <1>8, <1>9

\* parse_duration_to_months: every text means its months.
THEOREM EveryDurationMeansItsMonths ==
    ASSUME NEW t \in Seq(Token)
    PROVE  DurationMeansItsMonths(t, parse_duration_to_months(t))
<1> DEFINE months == parse_duration_to_months(t)
           s == strip(t)
           Raises == isdigit(s) /\ (Has(s, "sup") \/ Len(s) > MaxDigits)
<1>1. \A a \in Numerals : Numeric(a)
  BY NumeralsAreNumeric
<1>2. ASSUME NEW a \in Numerals, NEW b \in Numerals
      PROVE  LET spelt == Spellings(a, b)
             IN  /\ t \in spelt.both => months = InMonths(Decimal(a), Decimal(b))
                 /\ t \in spelt.years => months = InMonths(Decimal(a), {0})
                 /\ t \in spelt.months => months = InMonths({0}, Decimal(b))
  <2>1. Numeric(a) /\ Numeric(b)
    BY <1>1
  <2> QED
    BY <2>1, EverySpellingHasItsMonths, Zenon
<1>3. /\ months \subseteq Nat
      /\ (\A d \in Digits : ~Has(t, d)) => months \subseteq {0}
      /\ ~Has(t, "yr") /\ ~Has(t, "mon") => (months = {} <=> Raises)
  BY DurationIsNat DEF NoDigit
<1> QED
  BY <1>2, <1>3, Zenon DEF DurationMeansItsMonths

-----------------------------------------------------------------------------
(* The probabilities.                                                      *)

\* The sweep stays within the range of the model's output.
LEMMA SweepRange == Sweep => [](raw \in RawProbability)
<1>1. Exactly(One) \in Int /\ 0 <= Exactly(One)
  <2>1. 0 \in Int /\ One \in Int /\ 0 <= One
    BY StoredRange
  <2>2. Exactly(0) <= Exactly(One) /\ Exactly(0) = 0 /\ Exactly(One) \in Int
    BY <2>1, ExactlyOrder, Zenon
  <2> QED
    BY <2>2
<1>2. Init => raw \in RawProbability
  BY <1>1 DEF Init, RawProbability
<1>3. raw \in RawProbability /\ [Next]_raw => (raw \in RawProbability)'
  BY <1>1 DEF Next, RawProbability
<1> QED
  BY <1>2, <1>3, PTL DEF Sweep

\* A row whose stored probability and decision disagree holds a threshold.
THEOREM Confinement == Sweep => []DisagreementIsConfined
<1>1. raw \in RawProbability => DisagreementIsConfined
  BY DisagreementIsAtThresholds DEF DisagreementIsConfined
<1> QED
  BY <1>1, SweepRange, PTL

\* The score filters of the history lose no record that qualifies.
THEOREM FiltersKeep == Sweep => []FiltersKeepQualifying
<1>1. raw \in RawProbability => FiltersKeepQualifying
  BY FilterKeeps DEF FiltersKeepQualifying
<1> QED
  BY <1>1, SweepRange, PTL

-----------------------------------------------------------------------------
(* The texts, dates and URLs of the sweep.                                 *)

InputsKnown ==
    /\ text \in Seq(Token) /\ date \in DateText
    /\ url.scheme \in Scheme /\ url.pieces \in Seq(Piece) /\ PasswordFirst(url.pieces)

LEMMA SpellingsAreTexts ==
    ASSUME NEW a \in Seq(Token), NEW b \in Seq(Token)
    PROVE  Spellings(a, b).both \cup Spellings(a, b).years \cup Spellings(a, b).months
              \subseteq Seq(Token)
<1> DEFINE Both(S, P) == a \o <<"yr">> \o S \o P \o b \o <<"mon">> \o S
           Years(S, P) == a \o P \o <<"yr">> \o S
           OfMonths(S, P) == P \o b \o <<"mon">> \o S
<1>1. /\ Spellings(a, b).both = {Both(S, P) : S \in Plural, P \in Gap}
      /\ Spellings(a, b).years = {Years(S, P) : S \in Plural, P \in Gap}
      /\ Spellings(a, b).months = {OfMonths(S, P) : S \in Plural, P \in Gap} \cup {b}
  BY DEF Spellings, Plural, Gap, Space
<1>2. ASSUME NEW S \in Plural, NEW P \in Gap
      PROVE  Both(S, P) \in Seq(Token) /\ Years(S, P) \in Seq(Token) /\ OfMonths(S, P) \in Seq(Token)
  <2>1. S \in Seq(Token) /\ P \in Seq(Token) /\ <<"yr">> \in Seq(Token) /\ <<"mon">> \in Seq(Token)
    BY Units, Spaces DEF Blank
  <2>2. \A x, y \in Seq(Token) : x \o y \in Seq(Token)
    BY Concat
  <2> QED
    BY <2>1, <2>2, Zenon
<1> HIDE DEF Both, Years, OfMonths
<1> QED
  BY <1>1, <1>2

LEMMA TextsAreTexts == Texts \subseteq Seq(Token)
<1>1. BoundedSeq(Token, 5) \subseteq Seq(Token)
  <2>1. \A m \in 0 .. 5 : m \in Nat
    OBVIOUS
  <2> QED
    BY <2>1, SeqDef DEF BoundedSeq, SeqOf
<1>2. \A a \in Numerals : a \in Seq(Token)
  BY NumeralsAreNumeric, NumeralsAreText
<1>3. \A a, b \in Numerals :
         Spellings(a, b).both \cup Spellings(a, b).years \cup Spellings(a, b).months
            \subseteq Seq(Token)
  BY <1>2, SpellingsAreTexts
<1> DEFINE Of(a, b) == Spellings(a, b).both \cup Spellings(a, b).years \cup Spellings(a, b).months
<1>4. Texts = BoundedSeq(Token, 5) \cup UNION {Of(a, b) : a, b \in Numerals}
  BY DEF Texts
<1>5. \A a, b \in Numerals : Of(a, b) \subseteq Seq(Token)
  BY <1>3
<1> HIDE DEF Of
<1> QED
  BY <1>1, <1>4, <1>5

LEMMA DatesAreDates == Dates \subseteq DateText /\ NoDate \in DateText
<1>1. NoDate \in DateText
  BY DEF NoDate, DateText, Numeral
<1>2. Short \subseteq Numeral
  BY DEF Short, Numeral
<1>3. Year \subseteq Numeral
  BY DEF Year, Numeral
<1>4. \A a, b, c \in Numeral : <<a, b, c>> \in [1 .. 3 -> Numeral]
  OBVIOUS
<1>5. \A f \in {<<a, b, c>> : a \in Year, b \in Short, c \in Short} \cup
              {<<a, b, c>> : a \in Short, b \in Short, c \in Short \cup Year} :
         f \in [1 .. 3 -> Numeral]
  <2> HIDE DEF Short, Year, Numeral
  <2>1. \A a, b, c \in Short \cup Year : <<a, b, c>> \in [1 .. 3 -> Numeral]
    BY <1>2, <1>3, <1>4
  <2> QED
    BY <2>1
<1> QED
  BY <1>1, <1>5 DEF Dates, DateText

LEMMA UrlsAreUrls ==
    ASSUME NEW given \in Urls \cup {NoUrl}
    PROVE  given.scheme \in Scheme /\ given.pieces \in Seq(Piece) /\ PasswordFirst(given.pieces)
<1>1. CASE given \in Urls
  <2>1. BoundedSeq(Piece, 3) \subseteq Seq(Piece)
    <3>1. \A m \in 0 .. 3 : m \in Nat
      OBVIOUS
    <3> QED
      BY <3>1, SeqDef DEF BoundedSeq, SeqOf
  <2>2. /\ given.scheme \in Scheme
        /\ given.pieces \in {v \in BoundedSeq(Piece, 3) : PasswordFirst(v)}
    BY <1>1, Zenon DEF Urls
  <2> QED
    BY <2>1, <2>2
<1>2. CASE given = NoUrl
  <2>1. given.scheme = "sqlite://" /\ given.pieces = <<>>
    BY <1>2 DEF NoUrl
  <2>2. <<>> \in Seq(Piece) /\ PasswordFirst(<<>>)
    BY EmptySeq DEF PasswordFirst
  <2> QED
    BY <2>1, <2>2 DEF Scheme
<1> QED
  BY <1>1, <1>2

LEMMA SweepInputsKnown == SweepInputs => []InputsKnown
<1>1. InitInputs => InputsKnown
  <2> SUFFICES ASSUME InitInputs PROVE InputsKnown
    OBVIOUS
  <2>1. text \in Texts \/ text = <<>>
    BY DEF InitInputs, NoText
  <2>2. date \in Dates \/ date = NoDate
    BY DEF InitInputs
  <2>3. url \in Urls \cup {NoUrl}
    BY DEF InitInputs
  <2>4. text \in Seq(Token)
    BY <2>1, TextsAreTexts, EmptySeq
  <2> QED
    BY <2>2, <2>3, <2>4, DatesAreDates, UrlsAreUrls DEF InputsKnown
<1>2. InputsKnown /\ [NextInputs]_<<raw, text, date, url>> => InputsKnown'
  <2> SUFFICES ASSUME InputsKnown, [NextInputs]_<<raw, text, date, url>> PROVE InputsKnown'
    OBVIOUS
  <2>1. text' = text /\ date' = date /\ url' = url
    BY DEF NextInputs
  <2> QED
    BY <2>1, Zenon DEF InputsKnown
<1> QED
  BY <1>1, <1>2, PTL DEF SweepInputs

\* to_model_dataframe: the model is given what the texts mean.
THEOREM FeaturesMean == SweepInputs => []FeaturesMeanTheInput
<1>1. ASSUME InputsKnown PROVE FeaturesMeanTheInput
  <2> DEFINE frames == to_model_dataframe([date_of_birth |-> date, disbursal_date |-> NoDate,
                          average_acct_age |-> text, credit_history_length |-> <<"1">>])
             row(avg, hist) == [dob |-> parse_date_to_year_month(date, 1990),
                                disbursal |-> parse_date_to_year_month(NoDate, 2018),
                                average_acct_age |-> avg, credit_history_length |-> hist]
  <2>1. text \in Seq(Token) /\ date \in DateText /\ NoDate \in DateText
    BY <1>1, DatesAreDates DEF InputsKnown
  <2>2. parse_duration_to_months(<<"1">>) = {1}
    <3>1. <<"1">> \in Seq(Digits) /\ <<"1">> # <<>> /\ Len(<<"1">>) = 1
      BY DEF Digits
    <3>2. Decimal(<<"1">>) = {1}
      BY <3>1, MaxDigitsAssumption, NumberOfOne DEF Decimal
    <3>3. InMonths({0}, {1}) = {1}
      BY DEF InMonths
    <3> QED
      BY <3>1, <3>2, <3>3, PlainNumber DEF Numeric
  <2>3. frames = {row(avg, 1) : avg \in parse_duration_to_months(text)}
    <3>1. frames = {row(avg, hist) : avg \in parse_duration_to_months(text),
                                     hist \in parse_duration_to_months(<<"1">>)}
      BY DEF to_model_dataframe
    <3> HIDE DEF frames, row
    <3> QED
      BY <2>2, <3>1
  <2>4. \A avg : /\ row(avg, 1).dob = parse_date_to_year_month(date, 1990)
                 /\ row(avg, 1).disbursal = parse_date_to_year_month(NoDate, 2018)
                 /\ row(avg, 1).average_acct_age = avg /\ row(avg, 1).credit_history_length = 1
    OBVIOUS
  <2> HIDE DEF frames, row
  <2>5. {f.average_acct_age : f \in frames} = parse_duration_to_months(text)
    BY <2>3, <2>4
  <2>6. \A f \in frames : /\ f.dob = parse_date_to_year_month(date, 1990)
                          /\ f.disbursal = parse_date_to_year_month(NoDate, 2018)
                          /\ f.credit_history_length = 1
    BY <2>3, <2>4
  <2>7. DurationMeansItsMonths(text, {f.average_acct_age : f \in frames})
    BY <2>1, <2>5, EveryDurationMeansItsMonths
  <2>8. \A f \in frames : /\ DateMeansItsMonth(date, 1990, f.dob)
                          /\ DateMeansItsMonth(NoDate, 2018, f.disbursal)
    BY <2>1, <2>6, EveryDateMeansItsMonth
  <2> QED
    BY <2>6, <2>7, <2>8 DEF FeaturesMeanTheInput, frames
<1> QED
  BY <1>1, SweepInputsKnown, PTL

\* Settings: the engine is given the parameters of the environment's URL.
THEOREM UrlKeeps == SweepInputs => []DatabaseUrlKeepsItsParameters
<1>1. InputsKnown => DatabaseUrlKeepsItsParameters
  BY EveryUrlKeepsItsParameters DEF InputsKnown, DatabaseUrlKeepsItsParameters
<1> QED
  BY <1>1, SweepInputsKnown, PTL
=============================================================================
